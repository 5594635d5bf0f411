------------------------------- MODULE Registry -------------------------------
(***************************************************************************)
(* The registry as the core package's callers see it when transactions do  *)
(* not overlap: one database, one action per mutating function of core,    *)
(* each atomic.  Calls that return an error or change nothing are the      *)
(* stuttering steps.                                                       *)
(*                                                                         *)
(* Spec lets any signed-in user of the bound tenant be the actor of any    *)
(* write, which is what core itself checks; GatedSpec adds the steward     *)
(* check of auth.RequireSteward, made in the same instant as the write.    *)
(* Module Server separates the two and implements Spec.                    *)
(***************************************************************************)
EXTENDS Core

VARIABLE db

Bound == db.tenant # NoTenant

Init == db = EmptyDatabase

-------------------------------------------------------------------------------
(* Sign-in (auth.completeSignIn calls these). *)

Bootstrap(a, tid) ==
    /\ BootstrapOutcome(db, a, tid) = Written
    /\ db' = BootstrapTx(db, a, tid)

ClaimPendingSteward(a) ==
    /\ Bound
    /\ ClaimPendingStewardOutcome(db, a) = Written
    /\ db' = ClaimPendingStewardTx(db, a)

-------------------------------------------------------------------------------
(* The write handlers of packages api and web call these. *)

CreatePerson(a, name) == db' = CreatePersonTx(db, a, name)

RenamePerson(a, id, name) ==
    /\ RenamePersonOutcome(db, id, name) = Written
    /\ db' = RenamePersonTx(db, a, id, name)

CreateSystem(a, name) ==
    /\ CreateSystemOutcome(name) = Written
    /\ db' = CreateSystemTx(db, a, name)

RenameSystem(a, id, name) ==
    /\ RenameSystemOutcome(db, id, name) = Written
    /\ db' = RenameSystemTx(db, a, id, name)

DisableSystem(a, id) ==
    /\ DisableSystemOutcome(db, id) = Written
    /\ db' = DisableSystemTx(db, a, id)

EnableSystem(a, id) ==
    /\ EnableSystemOutcome(db, id) = Written
    /\ db' = EnableSystemTx(db, a, id)

CreateAssociation(a, person, system, foreign) ==
    /\ CreateAssociationOutcome(db, person, system) = Written
    /\ db' = CreateAssociationTx(db, a, person, system, foreign)

RemoveAssociation(a, person, id) ==
    /\ RemoveAssociationOutcome(db, person, id) = Written
    /\ db' = RemoveAssociationTx(db, a, person, id)

PromoteSteward(a, upn) ==
    /\ PromoteStewardOutcome(db, upn) = Written
    /\ db' = PromoteStewardTx(db, a, upn)

DemoteSteward(a, id) ==
    /\ DemoteStewardOutcome(db, a, id) = Written
    /\ db' = DemoteStewardTx(db, a, id)

CancelStewardInvite(a, id) ==
    /\ CancelStewardInviteOutcome(db, id) = Written
    /\ db' = CancelStewardInviteTx(db, a, id)

-------------------------------------------------------------------------------

SignIn(a) ==
    \/ \E tid \in TID : Bootstrap(a, tid)
    \/ ClaimPendingSteward(a)

WriteEntity(a) ==
    \/ \E name \in Name : CreatePerson(a, name) \/ CreateSystem(a, name)
    \/ \E id \in RowId, name \in Name : RenamePerson(a, id, name) \/ RenameSystem(a, id, name)
    \/ \E id \in RowId : DisableSystem(a, id) \/ EnableSystem(a, id)
    \/ \E person, system \in RowId, foreign \in ForeignId :
          CreateAssociation(a, person, system, foreign)
    \/ \E person, id \in RowId : RemoveAssociation(a, person, id)

WriteSteward(a) ==
    \/ \E upn \in UPN : PromoteSteward(a, upn)
    \/ \E id \in RowId : DemoteSteward(a, id) \/ CancelStewardInvite(a, id)

Write(a) == Bound /\ (WriteEntity(a) \/ WriteSteward(a))

Next == \E a \in Actor : SignIn(a) \/ Write(a)

Spec == Init /\ [][Next]_db

\* auth.RequireSteward in front of every write.
GatedNext ==
    \E a \in Actor : SignIn(a) \/ (IsActiveSteward(db, a.oid) /\ Write(a))

GatedSpec == Init /\ [][GatedNext]_db

-------------------------------------------------------------------------------
(* Properties. *)

\* Every column holds a value of its type, and every id its table's sequence has issued.
TypeOK == IsDatabase(db)

\* Reading an audit row: the id of the row it created, if it created one.
Creations == {"person.create", "system.create", "association.create", "steward.promote"}

CreatedId(e) == IF e.action = "association.create" THEN e.details.association_id ELSE e.entity_id

CreatesLink(e, id) == e.action = "association.create" /\ e.details.association_id = id
RemovesLink(e, id) == e.action = "association.remove" /\ e.details.association_id = id

Issued(seq, e) ==
    /\ e.action = "person.create" => CreatedId(e) \in 1..seq.persons
    /\ e.action = "system.create" => CreatedId(e) \in 1..seq.systems
    /\ e.action = "steward.promote" => CreatedId(e) \in 1..seq.stewards
    /\ e.action = "association.create" => CreatedId(e) \in 1..seq.associations

TablesFollowSequence ==
    /\ DOMAIN db.persons = 1..db.seq.persons
    /\ DOMAIN db.systems = 1..db.seq.systems
    /\ DOMAIN db.stewards = 1..db.seq.stewards
    /\ DOMAIN db.associations \subseteq 1..db.seq.associations
    /\ DOMAIN db.pending \subseteq 1..db.seq.pending

LogFollowsSequence == \A n \in DOMAIN db.audit : Issued(db.seq, db.audit[n])

\* Persons, systems and stewards are never deleted and never skip an id, and no
\* row, living or only remembered by the log, has an id its table has not
\* issued: the next INSERT can never land on an id that is, or ever was,
\* somebody else's ("IDs are never reused", README.md).
IdsIssuedInOrder == TablesFollowSequence /\ LogFollowsSequence

\* The checks core makes are strong enough for the schema: no write it accepts
\* breaks a foreign key, the one-active-row index or the UNIQUE column, so the
\* database never answers a legal request with a constraint error.
ConstraintsNeverFire ==
    ForeignKeysHold(db) /\ ActiveOidIsUnique(db) /\ PendingUpnIsUnique(db)

\* Ignoring case, a UPN stands for at most one of: an active steward, an
\* outstanding invitation.  The schema does not enforce this; the checks of
\* PromoteSteward and the claim at sign-in have to.
OneStandingPerUPN ==
    /\ \A i, j \in ActiveStewards(db) :
          SameUPN(db.stewards[i].user_upn, db.stewards[j].user_upn) => i = j
    /\ \A i, j \in DOMAIN db.pending :
          SameUPN(db.pending[i].user_upn, db.pending[j].user_upn) => i = j
    /\ \A i \in ActiveStewards(db), j \in DOMAIN db.pending :
          ~SameUPN(db.stewards[i].user_upn, db.pending[j].user_upn)

\* The tenant binding is the first row of the log, for the tenant bound, and is
\* recorded once: nothing is written before it and nothing rebinds.
BindingIsFirst ==
    /\ ~Bound => /\ db.audit = << >>
                 /\ DOMAIN db.stewards = {} /\ DOMAIN db.pending = {}
                 /\ DOMAIN db.persons = {} /\ DOMAIN db.systems = {}
    /\ Bound => /\ db.audit # << >>
                /\ db.audit[1].action = "tenant.bootstrap"
                /\ db.audit[1].details.tenant_id = db.tenant
    /\ \A n \in DOMAIN db.audit : db.audit[n].action = "tenant.bootstrap" => n = 1

\* Reading the log alone: no id is handed out twice, and an association is
\* removed at most once, after its creation, from the person it was created for.
LogIsConsistent ==
    /\ \A m, n \in DOMAIN db.audit :
          /\ db.audit[m].action \in Creations
          /\ db.audit[n].action = db.audit[m].action
          /\ CreatedId(db.audit[n]) = CreatedId(db.audit[m])
          => m = n
    /\ \A m, n \in DOMAIN db.audit :
          /\ db.audit[m].action = "association.remove"
          /\ RemovesLink(db.audit[n], db.audit[m].details.association_id)
          => m = n
    /\ \A m \in DOMAIN db.audit :
          db.audit[m].action = "association.remove" =>
             \E k \in 1..(m - 1) :
                /\ CreatesLink(db.audit[k], db.audit[m].details.association_id)
                /\ db.audit[k].entity_id = db.audit[m].entity_id

\* The associations that exist are those the log says were created and not
\* removed: the log is the only trace of a removed link, so it has to be exact.
LinksFollowLog ==
    /\ \A i \in DOMAIN db.associations :
          /\ \E k \in DOMAIN db.audit :
                /\ CreatesLink(db.audit[k], i)
                /\ db.audit[k].entity_id = db.associations[i].person_id
          /\ \A k \in DOMAIN db.audit : ~RemovesLink(db.audit[k], i)
    /\ \A k \in DOMAIN db.audit :
          LET id == CreatedId(db.audit[k])
          IN db.audit[k].action = "association.create" /\ id \notin DOMAIN db.associations =>
                \E m \in DOMAIN db.audit : RemovesLink(db.audit[m], id)

\* Once bound, there is an active steward: "a deployment can never be left with
\* no one able to maintain it" (README.md).  Needs the steward check and the
\* write to be one step, so it is a property of GatedSpec.
SomeStewardRemains == Bound => ActiveStewards(db) # {}

\* No step rewrites history: the log only grows, rows of persons, systems and
\* stewards stay with the columns that identify them, a removal is final, and
\* the tenant is bound once.
PermanentRecord ==
    [][ /\ db.audit = SubSeq(db'.audit, 1, Len(db.audit))
        /\ \A i \in DOMAIN db.persons :
              /\ i \in DOMAIN db'.persons
              /\ db'.persons[i].created_by = db.persons[i].created_by
        /\ \A i \in DOMAIN db.systems :
              /\ i \in DOMAIN db'.systems
              /\ db'.systems[i].created_by = db.systems[i].created_by
        /\ \A i \in DOMAIN db.stewards :
              /\ i \in DOMAIN db'.stewards
              /\ db'.stewards[i].user_oid = db.stewards[i].user_oid
              /\ Removed(db.stewards[i]) => db'.stewards[i] = db.stewards[i]
        /\ Bound => db'.tenant = db.tenant ]_db

\* An invitation goes away only by being withdrawn, on record, or because the
\* user it is addressed to now is an active steward: "a claim failure [...] the
\* pending row survives [...], so the next sign-in retries" (auth/handlers.go).
InvitesAreHonoured ==
    [][ \A i \in DOMAIN db.pending \ DOMAIN db'.pending :
          LET upn == db.pending[i].user_upn
              last == db'.audit[Len(db'.audit)]
          IN \/ /\ Len(db'.audit) > Len(db.audit)
                /\ last.action = "steward.uninvite"
                /\ last.details.upn = upn
             \/ \E a \in Actor, j \in ActiveStewards(db') :
                   SameUPN(a.upn, upn) /\ db'.stewards[j].user_oid = a.oid ]_db

\* The registry implements AuditTrail: every change of a table (invitations
\* apart) is one audit row from which the change can be redone.
Trail == INSTANCE AuditTrail WITH
            tables <- [tenant |-> db.tenant, persons |-> db.persons,
                       systems |-> db.systems, associations |-> db.associations,
                       stewards |-> db.stewards],
            log <- db.audit

TrailSpec == Trail!Spec

\* README.md: "Nothing mutates the registry without leaving a record of who did
\* it and when."  Does not hold: a sign-in that consumes the stale invitation of
\* somebody who already is a steward writes no audit row.
NothingUnrecorded == [][Len(db'.audit) = Len(db.audit) + 1]_db

===============================================================================
