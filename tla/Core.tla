--------------------------------- MODULE Core ---------------------------------
(***************************************************************************)
(* The business rules of package core.  Each mutating function opens one   *)
(* transaction, reads, decides, writes its rows and one audit row, and     *)
(* commits.  For a function F this module has                              *)
(*                                                                         *)
(*   FOutcome(d, ...)  what the reads decide on database d: Written, or    *)
(*                     the error returned, or Unchanged where the function *)
(*                     rolls back and reports success;                     *)
(*   FTx(d, ...)       the database its commit leaves, when Written.       *)
(*                                                                         *)
(* An outcome other than Written commits nothing.  The argument a is the   *)
(* Actor: the signed-in user the handler passes in.                        *)
(***************************************************************************)
EXTENDS Schema

Written == "written"
Unchanged == "unchanged"

AuditEntry(a, action, entity_type, entity_id, details) ==
    [actor |-> a, action |-> action, entity_type |-> entity_type,
     entity_id |-> entity_id, details |-> details]

WriteAudit(d, a, action, entity_type, entity_id, details) ==
    InsertAudit(d, AuditEntry(a, action, entity_type, entity_id, details))

-------------------------------------------------------------------------------
(* Persons.  Nothing is refused on creation: a blank name is allowed. *)

CreatePersonTx(d, a, name) ==
    LET id == NewId(d, "persons") IN
    WriteAudit(InsertPerson(d, Trim[name], a.upn),
               a, "person.create", "person", id, [name |-> Trim[name]])

RenamePersonOutcome(d, id, name) ==
    IF id \notin DOMAIN d.persons THEN "ErrNotFound"
    ELSE IF d.persons[id].name = Trim[name] THEN Unchanged
    ELSE Written

RenamePersonTx(d, a, id, name) ==
    WriteAudit(UpdatePersonName(d, id, Trim[name], a.upn),
               a, "person.rename", "person", id,
               [from |-> d.persons[id].name, to |-> Trim[name]])

-------------------------------------------------------------------------------
(* Systems.  The name is a system's identity, so it may not be blank, and  *)
(* it is frozen while the system is disabled.                              *)

CreateSystemOutcome(name) ==
    IF Trim[name] = Blank THEN "ErrNameRequired" ELSE Written

CreateSystemTx(d, a, name) ==
    LET id == NewId(d, "systems") IN
    WriteAudit(InsertSystem(d, Trim[name], a.upn),
               a, "system.create", "system", id, [name |-> Trim[name]])

RenameSystemOutcome(d, id, name) ==
    IF Trim[name] = Blank THEN "ErrNameRequired"
    ELSE IF id \notin DOMAIN d.systems THEN "ErrNotFound"
    ELSE IF Disabled(d.systems[id]) THEN "ErrNotFound"
    ELSE IF d.systems[id].name = Trim[name] THEN Unchanged
    ELSE Written

RenameSystemTx(d, a, id, name) ==
    WriteAudit(UpdateSystemName(d, id, Trim[name], a.upn),
               a, "system.rename", "system", id,
               [from |-> d.systems[id].name, to |-> Trim[name]])

DisableSystemOutcome(d, id) ==
    IF id \notin DOMAIN d.systems THEN "ErrNotFound"
    ELSE IF Disabled(d.systems[id]) THEN Unchanged
    ELSE Written

DisableSystemTx(d, a, id) ==
    WriteAudit(SetDisabledBy(d, id, a.upn),
               a, "system.disable", "system", id, [name |-> d.systems[id].name])

EnableSystemOutcome(d, id) ==
    IF id \notin DOMAIN d.systems THEN "ErrNotFound"
    ELSE IF ~Disabled(d.systems[id]) THEN Unchanged
    ELSE Written

EnableSystemTx(d, a, id) ==
    WriteAudit(SetDisabledBy(d, id, Null),
               a, "system.enable", "system", id, [name |-> d.systems[id].name])

-------------------------------------------------------------------------------
(* Associations.  Duplicates and links to a disabled system are allowed;   *)
(* the audit row is filed against the person.                              *)

LinkDetails(d, id, system, foreign) ==
    [association_id |-> id, system_id |-> system,
     system |-> d.systems[system].name, foreign_id |-> foreign]

CreateAssociationOutcome(d, person, system) ==
    IF person \notin DOMAIN d.persons \/ system \notin DOMAIN d.systems
    THEN "ErrNotFound" ELSE Written

CreateAssociationTx(d, a, person, system, foreign) ==
    LET id == NewId(d, "associations") IN
    WriteAudit(InsertAssociation(d, person, system, Trim[foreign], a.upn),
               a, "association.create", "person", person,
               LinkDetails(d, id, system, Trim[foreign]))

RemoveAssociationOutcome(d, person, id) ==
    IF id \notin DOMAIN d.associations THEN "ErrNotFound"
    ELSE IF d.associations[id].person_id # person THEN "ErrNotFound"
    ELSE Written

\* Mutant: the removal is not audited.
RemoveAssociationTx_Unaudited(d, a, person, id) == DeleteAssociation(d, id)

RemoveAssociationTx(d, a, person, id) ==
    LET link == d.associations[id] IN
    WriteAudit(DeleteAssociation(d, id),
               a, "association.remove", "person", person,
               LinkDetails(d, id, link.system_id, link.foreign_id))

-------------------------------------------------------------------------------
(* Tenant binding and stewards. *)

\* Mutant: Bootstrap trusts its caller's check that no tenant is bound.
BootstrapOutcome_Unchecked(d, a, tid) ==
    IF a.upn = Blank THEN "bootstrap requires non-empty UPN" ELSE Written

BootstrapOutcome(d, a, tid) ==
    IF a.upn = Blank THEN "bootstrap requires non-empty UPN"
    ELSE IF d.tenant # NoTenant THEN "ErrAlreadyBound"
    ELSE Written

BootstrapTx(d, a, tid) ==
    LET id == NewId(d, "stewards") IN
    WriteAudit(InsertSteward(BindTenant(d, tid), a.oid, a.upn, "bootstrap"),
               a, "tenant.bootstrap", "tenant", 0,
               [tenant_id |-> tid, first_steward_id |-> id,
                oid |-> a.oid, upn |-> a.upn])

\* Mutant: an active steward may be invited under the UPN they hold.
PromoteStewardOutcome_PendingOnly(d, upn) ==
    IF Trim[upn] = Blank THEN "ErrUPNRequired"
    ELSE IF PendingByUPN(d, Trim[upn]) # {} THEN "ErrAlreadyInvited"
    ELSE Written

PromoteStewardOutcome(d, upn) ==
    IF Trim[upn] = Blank THEN "ErrUPNRequired"
    ELSE IF IsActiveStewardByUPN(d, Trim[upn]) THEN "ErrAlreadySteward"
    ELSE IF PendingByUPN(d, Trim[upn]) # {} THEN "ErrAlreadyInvited"
    ELSE Written

PromoteStewardTx(d, a, upn) ==
    WriteAudit(InsertPendingSteward(d, Trim[upn], a.upn),
               a, "steward.invite", "steward", 0, [upn |-> Trim[upn]])

\* Mutants: a removed steward can be demoted again; stewards can demote themselves.
DemoteStewardOutcome_Again(d, a, id) ==
    IF id \notin DOMAIN d.stewards THEN "ErrNotFound"
    ELSE IF d.stewards[id].user_oid = a.oid THEN "ErrSelfRemoval"
    ELSE Written

DemoteStewardOutcome_Self(d, a, id) ==
    IF id \notin DOMAIN d.stewards THEN "ErrNotFound"
    ELSE IF Removed(d.stewards[id]) THEN "ErrNotFound"
    ELSE Written

DemoteStewardOutcome(d, a, id) ==
    IF id \notin DOMAIN d.stewards THEN "ErrNotFound"
    ELSE IF Removed(d.stewards[id]) THEN "ErrNotFound"
    ELSE IF d.stewards[id].user_oid = a.oid THEN "ErrSelfRemoval"
    ELSE Written

\* Mutant: removed_by takes the object id of the actor instead of the UPN.
DemoteStewardTx_ByOid(d, a, id) ==
    WriteAudit(SetRemovedBy(d, id, a.oid),
               a, "steward.demote", "steward", id,
               [oid |-> d.stewards[id].user_oid, upn |-> d.stewards[id].user_upn])

DemoteStewardTx(d, a, id) ==
    WriteAudit(SetRemovedBy(d, id, a.upn),
               a, "steward.demote", "steward", id,
               [oid |-> d.stewards[id].user_oid, upn |-> d.stewards[id].user_upn])

CancelStewardInviteOutcome(d, id) ==
    IF id \notin DOMAIN d.pending THEN "ErrNotFound" ELSE Written

CancelStewardInviteTx(d, a, id) ==
    WriteAudit(DeletePendingSteward(d, id),
               a, "steward.uninvite", "steward", 0, [upn |-> d.pending[id].user_upn])

\* A sign-in claims the invitation addressed to its UPN.  An active steward
\* who was invited again, under a new UPN, only has the invitation consumed:
\* that path writes no audit row.
ClaimPendingStewardOutcome(d, a) ==
    IF a.upn = Blank THEN "claim steward requires actor UPN"
    ELSE IF PendingByUPN(d, a.upn) = {} THEN Unchanged
    ELSE Written

\* Mutants: the claim inserts without looking for an active row; it records the
\* invitee as the promoter.
ClaimPendingStewardTx_Always(d, a) ==
    LET id == GetPendingStewardByUPN(d, a.upn)
        inviter == d.pending[id].invited_by
    IN WriteAudit(DeletePendingSteward(InsertSteward(d, a.oid, a.upn, inviter), id),
                  a, "steward.promote", "steward", NewId(d, "stewards"),
                  [oid |-> a.oid, upn |-> a.upn, invited_by |-> inviter])

ClaimPendingStewardTx_BySelf(d, a) ==
    LET id == GetPendingStewardByUPN(d, a.upn)
        inviter == d.pending[id].invited_by
    IN IF IsActiveSteward(d, a.oid)
       THEN DeletePendingSteward(d, id)
       ELSE WriteAudit(DeletePendingSteward(InsertSteward(d, a.oid, a.upn, a.upn), id),
                       a, "steward.promote", "steward", NewId(d, "stewards"),
                       [oid |-> a.oid, upn |-> a.upn, invited_by |-> inviter])

ClaimPendingStewardTx(d, a) ==
    LET id == GetPendingStewardByUPN(d, a.upn)
        inviter == d.pending[id].invited_by
        steward == NewId(d, "stewards")
    IN IF IsActiveSteward(d, a.oid)
       THEN DeletePendingSteward(d, id)
       ELSE WriteAudit(DeletePendingSteward(InsertSteward(d, a.oid, a.upn, inviter), id),
                       a, "steward.promote", "steward", steward,
                       [oid |-> a.oid, upn |-> a.upn, invited_by |-> inviter])

===============================================================================
