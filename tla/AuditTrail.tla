------------------------------ MODULE AuditTrail ------------------------------
(***************************************************************************)
(* What the audit log promises (README.md, "Core model"; core/audit.go):   *)
(* the log is the permanent record of the registry.  Abstractly, a write   *)
(* appends one row to the log, and the rows of the registry are whatever   *)
(* the log says they are: each step applies exactly the row it appended.   *)
(* Nothing here mentions a counter, a lookup or a check of the code, so a  *)
(* registry that implements this module can be rebuilt, ids and "by"       *)
(* columns included, from its log alone.                                   *)
(*                                                                         *)
(* Invitations are left out of tables: the row for an invitation does not  *)
(* carry its id, and one path of the code consumes one without a row.      *)
(***************************************************************************)
EXTENDS Schema

VARIABLES tables, log

EmptyTables == [tenant |-> NoTenant, persons |-> NoRows, systems |-> NoRows,
                associations |-> NoRows, stewards |-> NoRows]

\* The steward row recorded by a bootstrap or a claimed invitation.
RecordedSteward(e, promoted_by) ==
    [user_oid |-> e.details.oid, user_upn |-> e.details.upn,
     promoted_by |-> promoted_by, removed_by |-> Null]

Apply(t, e) ==
    LET by == e.actor.upn
        id == e.entity_id
        details == e.details
    IN CASE e.action = "person.create" ->
              [t EXCEPT !.persons = Put(@, id, [name |-> details.name,
                                                created_by |-> by, updated_by |-> by])]
         [] e.action = "person.rename" ->
              [t EXCEPT !.persons[id].name = details.to, !.persons[id].updated_by = by]
         [] e.action = "system.create" ->
              [t EXCEPT !.systems = Put(@, id, [name |-> details.name, created_by |-> by,
                                                updated_by |-> by, disabled_by |-> Null])]
         [] e.action = "system.rename" ->
              [t EXCEPT !.systems[id].name = details.to, !.systems[id].updated_by = by]
         [] e.action = "system.disable" ->
              [t EXCEPT !.systems[id].disabled_by = by]
         [] e.action = "system.enable" ->
              [t EXCEPT !.systems[id].disabled_by = Null]
         [] e.action = "association.create" ->
              [t EXCEPT !.associations =
                  Put(@, details.association_id,
                      [person_id |-> id, system_id |-> details.system_id,
                       foreign_id |-> details.foreign_id, created_by |-> by])]
         [] e.action = "association.remove" ->
              [t EXCEPT !.associations = Without(@, details.association_id)]
         [] e.action = "tenant.bootstrap" ->
              [t EXCEPT !.tenant = details.tenant_id,
                        !.stewards = Put(@, details.first_steward_id,
                                         RecordedSteward(e, "bootstrap"))]
         [] e.action = "steward.promote" ->
              [t EXCEPT !.stewards = Put(@, id, RecordedSteward(e, details.invited_by))]
         [] e.action = "steward.demote" ->
              [t EXCEPT !.stewards[id].removed_by = by]
         [] OTHER -> t

-------------------------------------------------------------------------------

Init == /\ tables = EmptyTables
        /\ log = << >>

\* One write: one row appended, and its effect.
Record == /\ Len(log') = Len(log) + 1
          /\ log = SubSeq(log', 1, Len(log))
          /\ tables' = Apply(tables, log'[Len(log')])

vars == <<tables, log>>

Spec == Init /\ [][Record]_vars

===============================================================================
