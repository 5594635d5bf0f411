-------------------------------- MODULE Schema --------------------------------
(***************************************************************************)
(* The SQLite database of a Xensus deployment (migrations/0001_initial.sql)*)
(* as a value: one record `d' whose fields are the tables, and the store   *)
(* package's queries and statements as operators on such a record.  The    *)
(* business rules (module Core) compose them; Registry and Server say when *)
(* the resulting database replaces the current one.                        *)
(*                                                                         *)
(* Left out: timestamps (a soft-removed or disabled row is one whose       *)
(* removed_by / disabled_by column is not Null), and the text of names.    *)
(***************************************************************************)
EXTENDS Naturals, Sequences

CONSTANTS
    OID,        \* M365 object ids (the oid claim); never reassigned
    UPN,        \* user principal names as they are typed or claimed
    Actor,      \* the (oid, upn) pairs Entra puts in tokens; one oid may have several
    TID,        \* Entra tenant ids
    Name,       \* person and system names as they are typed
    ForeignId,  \* a person's identifier in a system, as it is typed
    RowId,      \* row ids as they occur in request paths, of existing rows or not
    Blank,      \* the empty string
    Null,       \* SQL NULL
    NoTenant,   \* config.tenant_id before the deployment is bound
    Trim,       \* strings.TrimSpace, as a function on the texts above
    Lower       \* SQLite lower(), as a function on UPNs

ASSUME ActorAssumption == Actor \subseteq [oid : OID, upn : UPN]

ASSUME TextAssumption ==
    /\ \A n \in Name : Trim[n] \in Name
    /\ \A u \in UPN : Trim[u] \in UPN
    /\ \A f \in ForeignId : Trim[f] \in ForeignId
    /\ \A u \in UPN : Lower[u] \in UPN
    /\ Null \notin UPN
    /\ NoTenant \notin TID
    /\ Blank \notin TID

-------------------------------------------------------------------------------
(* Rows and tables.  A table is a function from row ids to rows; every id  *)
(* column is INTEGER PRIMARY KEY AUTOINCREMENT, whose last value per table *)
(* SQLite keeps in sqlite_sequence (the seq field).                        *)

Person == [name : Name, created_by : UPN, updated_by : UPN]

System == [name : Name, created_by : UPN, updated_by : UPN,
           disabled_by : UPN \cup {Null}]

Association == [person_id : Nat, system_id : Nat, foreign_id : ForeignId,
                created_by : UPN]

Steward == [user_oid : OID, user_upn : UPN, promoted_by : UPN \cup {"bootstrap"},
            removed_by : UPN \cup {Null}]

PendingSteward == [user_upn : UPN, invited_by : UPN]

\* The JSON object of an audit row, by its keys.
Details ==
         [name : Name]
    \cup [from : Name, to : Name]
    \cup [association_id : Nat, system_id : Nat, system : Name, foreign_id : ForeignId]
    \cup [upn : UPN]
    \cup [oid : OID, upn : UPN]
    \cup [oid : OID, upn : UPN, invited_by : UPN]
    \cup [tenant_id : TID, first_steward_id : Nat, oid : OID, upn : UPN]

Action == {"person.create", "person.rename",
           "system.create", "system.rename", "system.disable", "system.enable",
           "association.create", "association.remove",
           "tenant.bootstrap", "steward.invite", "steward.uninvite",
           "steward.promote", "steward.demote"}

\* entity_id 0 stands for the NULL that WriteAudit stores for "no entity".
AuditRow == [actor : Actor, action : Action,
             entity_type : {"person", "system", "steward", "tenant"},
             entity_id : Nat, details : Details]

IsTable(t, Row) == /\ DOMAIN t \subseteq Nat \ {0}
                   /\ t \in [DOMAIN t -> Row]

Sequence == [persons : Nat, systems : Nat, associations : Nat,
             stewards : Nat, pending : Nat]

IsDatabase(d) ==
    /\ DOMAIN d = {"tenant", "persons", "systems", "associations",
                   "stewards", "pending", "seq", "audit"}
    /\ d.tenant \in TID \cup {NoTenant}
    /\ IsTable(d.persons, Person)
    /\ IsTable(d.systems, System)
    /\ IsTable(d.associations, Association)
    /\ IsTable(d.stewards, Steward)
    /\ IsTable(d.pending, PendingSteward)
    /\ d.seq \in Sequence
    /\ d.audit \in Seq(AuditRow)

NoRows == [i \in {} |-> Null]

\* The database migration 0001 leaves behind.
EmptyDatabase ==
    [tenant |-> NoTenant, persons |-> NoRows, systems |-> NoRows,
     associations |-> NoRows, stewards |-> NoRows, pending |-> NoRows,
     seq |-> [persons |-> 0, systems |-> 0, associations |-> 0,
              stewards |-> 0, pending |-> 0],
     audit |-> << >>]

Put(t, id, row) == [i \in DOMAIN t \cup {id} |-> IF i = id THEN row ELSE t[i]]
Without(t, id) == [i \in DOMAIN t \ {id} |-> t[i]]

-------------------------------------------------------------------------------
(* store: queries. *)

Disabled(s) == s.disabled_by # Null
Removed(s) == s.removed_by # Null
SameUPN(u, v) == Lower[u] = Lower[v]

ActiveStewards(d) == {i \in DOMAIN d.stewards : ~Removed(d.stewards[i])}

\* Mutant: the query forgets "removed_at IS NULL".
IsActiveSteward_EvenRemoved(d, oid) ==
    \E i \in DOMAIN d.stewards : d.stewards[i].user_oid = oid

IsActiveSteward(d, oid) ==
    \E i \in ActiveStewards(d) : d.stewards[i].user_oid = oid

IsActiveStewardByUPN(d, upn) ==
    \E i \in ActiveStewards(d) : SameUPN(d.stewards[i].user_upn, upn)

PendingByUPN(d, upn) ==
    {i \in DOMAIN d.pending : SameUPN(d.pending[i].user_upn, upn)}

\* The row QueryRow scans: any one of the rows that match.
GetPendingStewardByUPN(d, upn) == CHOOSE i \in PendingByUPN(d, upn) : TRUE

-------------------------------------------------------------------------------
(* store: statements.  Each is the database after one INSERT, UPDATE or    *)
(* DELETE inside the caller's transaction.                                 *)

\* Mutant: INTEGER PRIMARY KEY without AUTOINCREMENT takes the largest id plus one.
NewId_Plain(d, table) ==
    1 + CHOOSE m \in {0} \cup DOMAIN d[table] : \A i \in DOMAIN d[table] : i <= m

NewId(d, table) == d.seq[table] + 1

\* Mutant: the table keeps no sequence.
InsertPerson_NoSequence(d, name, by) ==
    [d EXCEPT !.persons = Put(@, NewId(d, "persons"),
                              [name |-> name, created_by |-> by, updated_by |-> by])]

InsertPerson(d, name, by) ==
    [d EXCEPT !.persons = Put(@, NewId(d, "persons"),
                              [name |-> name, created_by |-> by, updated_by |-> by]),
              !.seq.persons = @ + 1]

\* Mutant: the two parameters of the UPDATE are bound in the wrong order.
UpdatePersonName_Swapped(d, id, name, by) ==
    [d EXCEPT !.persons[id] = [@ EXCEPT !.name = by, !.updated_by = name]]

UpdatePersonName(d, id, name, by) ==
    [d EXCEPT !.persons[id] = [@ EXCEPT !.name = name, !.updated_by = by]]

InsertSystem(d, name, by) ==
    [d EXCEPT !.systems = Put(@, NewId(d, "systems"),
                              [name |-> name, created_by |-> by, updated_by |-> by,
                               disabled_by |-> Null]),
              !.seq.systems = @ + 1]

UpdateSystemName(d, id, name, by) ==
    [d EXCEPT !.systems[id] = [@ EXCEPT !.name = name, !.updated_by = by]]

SetDisabledBy(d, id, by) == [d EXCEPT !.systems[id].disabled_by = by]

InsertAssociation(d, person, system, foreign, by) ==
    [d EXCEPT !.associations = Put(@, NewId(d, "associations"),
                                   [person_id |-> person, system_id |-> system,
                                    foreign_id |-> foreign, created_by |-> by]),
              !.seq.associations = @ + 1]

DeleteAssociation(d, id) == [d EXCEPT !.associations = Without(@, id)]

InsertSteward(d, oid, upn, by) ==
    [d EXCEPT !.stewards = Put(@, NewId(d, "stewards"),
                               [user_oid |-> oid, user_upn |-> upn,
                                promoted_by |-> by, removed_by |-> Null]),
              !.seq.stewards = @ + 1]

SetRemovedBy(d, id, by) == [d EXCEPT !.stewards[id].removed_by = by]

InsertPendingSteward(d, upn, by) ==
    [d EXCEPT !.pending = Put(@, NewId(d, "pending"),
                              [user_upn |-> upn, invited_by |-> by]),
              !.seq.pending = @ + 1]

DeletePendingSteward(d, id) == [d EXCEPT !.pending = Without(@, id)]

BindTenant(d, tid) == [d EXCEPT !.tenant = tid]

InsertAudit(d, row) == [d EXCEPT !.audit = Append(@, row)]

-------------------------------------------------------------------------------
(* The constraints the schema declares.  SQLite checks them on every        *)
(* statement; a statement that breaks one fails and its transaction rolls   *)
(* back with an error no handler expects.  The operators above leave that   *)
(* failure out: that no accepted operation runs into it is an invariant.    *)

ForeignKeysHold(d) ==
    \A i \in DOMAIN d.associations :
        /\ d.associations[i].person_id \in DOMAIN d.persons
        /\ d.associations[i].system_id \in DOMAIN d.systems

\* stewards_active_oid_idx
ActiveOidIsUnique(d) ==
    \A i, j \in ActiveStewards(d) :
        d.stewards[i].user_oid = d.stewards[j].user_oid => i = j

\* pending_stewards.user_upn UNIQUE (case-sensitive)
PendingUpnIsUnique(d) ==
    \A i, j \in DOMAIN d.pending :
        d.pending[i].user_upn = d.pending[j].user_upn => i = j

===============================================================================
