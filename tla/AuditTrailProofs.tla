--------------------------- MODULE AuditTrailProofs ---------------------------
(***************************************************************************)
(* Registry implements AuditTrail, and never rewrites what is on record:   *)
(* proofs for every value of the constants, on top of RegistryProofs.      *)
(***************************************************************************)
EXTENDS RegistryProofs

\* The variables of AuditTrail as Registry sees them.
Tables == [tenant |-> db.tenant, persons |-> db.persons, systems |-> db.systems,
           associations |-> db.associations, stewards |-> db.stewards]

\* A step that logs a row and changes the tables as the row says is a Record step.
LEMMA RecordStep ==
    ASSUME TypeOK, NEW row, Logs(row), Tables' = Trail!Apply(Tables, row)
    PROVE  Trail!Record
<1>1. /\ Len(db.audit) \in Nat
      /\ Len(db'.audit) = Len(db.audit) + 1
      /\ SubSeq(db'.audit, 1, Len(db.audit)) = db.audit
      /\ db'.audit[Len(db.audit) + 1] = row
  <2>1. db.audit \in Seq(AuditRow)
    BY DEF TypeOK, IsDatabase
  <2>2. Len(db'.audit) = Len(db.audit) + 1 /\ db'.audit[Len(db.audit) + 1] = row
    BY LogGrows, <2>1 DEF Logs
  <2>3. SubSeq(db'.audit, 1, Len(db.audit)) = db.audit
    BY <2>1 DEF Logs
  <2>4. QED
    BY <2>1, <2>2, <2>3
<1>2. QED
  BY <1>1 DEF Trail!Record, Tables

-------------------------------------------------------------------------------
(* One lemma per operation: the row it logs says what it does. *)

\* The row of Bootstrap redoes what Bootstrap does to the tables.
LEMMA BootstrapRecorded ==
    ASSUME TypeOK, NEW a \in Actor, NEW tid \in TID, Bootstrap(a, tid)
    PROVE  Trail!Record
<1> DEFINE row == AuditEntry(a, "tenant.bootstrap", "tenant", 0,
                             [tenant_id |-> tid, first_steward_id |-> NewId(db, "stewards"),
                               oid |-> a.oid, upn |-> a.upn])
           stewards == Put(db.stewards, NewId(db, "stewards"),
                              [user_oid |-> a.oid, user_upn |-> a.upn,
                               promoted_by |-> "bootstrap", removed_by |-> Null])
           after == [Tables EXCEPT !.tenant = tid, !.stewards = stewards]
<1>1. Logs(row)
  BY BootstrapEffect
<1>2. Trail!Apply(Tables, row) = after
  BY DEF Trail!Apply, AuditEntry, Tables, Put, Trail!Put, Trail!RecordedSteward, TypeOK, IsDatabase
<1>3. /\ db'.persons = db.persons /\ db'.systems = db.systems
      /\ db'.associations = db.associations /\ db'.tenant = tid
  BY BootstrapEffect DEF KeepsTables
<1>4. db'.stewards = stewards
  BY BootstrapEffect
<1> HIDE DEF row, stewards
<1>5. Tables' = after
  <2>1. [Tables EXCEPT !.tenant = tid]
          = [tenant |-> tid, persons |-> db.persons, systems |-> db.systems,
             associations |-> db.associations, stewards |-> db.stewards]
    BY DEF Tables
  <2>2. [[tenant |-> tid, persons |-> db.persons, systems |-> db.systems,
          associations |-> db.associations, stewards |-> db.stewards] EXCEPT !.stewards = stewards]
          = [tenant |-> tid, persons |-> db.persons, systems |-> db.systems,
             associations |-> db.associations, stewards |-> stewards]
    OBVIOUS
  <2>3. QED
    BY <1>3, <1>4, <2>1, <2>2 DEF Tables
<1> HIDE DEF after
<1>6. QED
  BY <1>1, <1>2, <1>5, RecordStep

\* The row of CreatePerson redoes what CreatePerson does to the tables.
LEMMA CreatePersonRecorded ==
    ASSUME TypeOK, NEW a \in Actor, NEW name \in Name, CreatePerson(a, name)
    PROVE  Trail!Record
<1> DEFINE row == AuditEntry(a, "person.create", "person", NewId(db, "persons"),
                             [name |-> Trim[name]])
           persons == Put(db.persons, NewId(db, "persons"),
                             [name |-> Trim[name], created_by |-> a.upn, updated_by |-> a.upn])
           after == [Tables EXCEPT !.persons = persons]
<1>1. Logs(row)
  BY CreatePersonEffect
<1>2. Trail!Apply(Tables, row) = after
  BY DEF Trail!Apply, AuditEntry, Tables, Put, Trail!Put, TypeOK, IsDatabase
<1>3. KeepsTables({"tenant", "systems", "associations", "stewards"}) /\ db'.persons = persons
  BY CreatePersonEffect DEF KeepsTables
<1> HIDE DEF row, persons
<1>4. Tables' = after
  BY <1>3 DEF KeepsTables, Tables
<1> HIDE DEF after
<1>5. QED
  BY <1>1, <1>2, <1>4, RecordStep

\* The row of RenamePerson redoes what RenamePerson does to the tables.
LEMMA RenamePersonRecorded ==
    ASSUME TypeOK, NEW a \in Actor, NEW id \in DOMAIN db.persons, NEW name \in Name, RenamePerson(a, id, name)
    PROVE  Trail!Record
<1> DEFINE row == AuditEntry(a, "person.rename", "person", id,
                             [from |-> db.persons[id].name, to |-> Trim[name]])
           persons == Renamed(db.persons, id, Trim[name], a.upn)
           after == [Tables EXCEPT !.persons = persons]
<1>1. Logs(row)
  BY RenamePersonEffect
<1>2. /\ row.action = "person.rename" /\ row.entity_id = id /\ row.actor = a
      /\ row.details.to = Trim[name]
  BY DEF AuditEntry
<1>3. KeepsTables({"tenant", "systems", "associations", "stewards"}) /\ db'.persons = persons
  BY RenamePersonEffect DEF KeepsTables
<1> HIDE DEF row
<1>4. Trail!Apply(Tables, row) = [Tables EXCEPT !.persons[id].name = Trim[name],
                                                !.persons[id].updated_by = a.upn]
  BY <1>2 DEF Trail!Apply
<1>5. Trail!Apply(Tables, row) = after
  <2>1. Tables.persons = db.persons
    BY DEF Tables
  <2>2. QED
    BY <1>4, <2>1, Zenon DEF Renamed
<1> HIDE DEF persons
<1>6. Tables' = after
  BY <1>3 DEF KeepsTables, Tables
<1> HIDE DEF after
<1>7. QED
  BY <1>1, <1>5, <1>6, RecordStep

\* The row of CreateSystem redoes what CreateSystem does to the tables.
LEMMA CreateSystemRecorded ==
    ASSUME TypeOK, NEW a \in Actor, NEW name \in Name, CreateSystem(a, name)
    PROVE  Trail!Record
<1> DEFINE row == AuditEntry(a, "system.create", "system", NewId(db, "systems"),
                             [name |-> Trim[name]])
           systems == Put(db.systems, NewId(db, "systems"),
                             [name |-> Trim[name], created_by |-> a.upn, updated_by |-> a.upn,
                              disabled_by |-> Null])
           after == [Tables EXCEPT !.systems = systems]
<1>1. Logs(row)
  BY CreateSystemEffect
<1>2. Trail!Apply(Tables, row) = after
  BY DEF Trail!Apply, AuditEntry, Tables, Put, Trail!Put, TypeOK, IsDatabase
<1>3. KeepsTables({"tenant", "persons", "associations", "stewards"}) /\ db'.systems = systems
  BY CreateSystemEffect DEF KeepsTables
<1> HIDE DEF row, systems
<1>4. Tables' = after
  BY <1>3 DEF KeepsTables, Tables
<1> HIDE DEF after
<1>5. QED
  BY <1>1, <1>2, <1>4, RecordStep

\* The row of RenameSystem redoes what RenameSystem does to the tables.
LEMMA RenameSystemRecorded ==
    ASSUME TypeOK, NEW a \in Actor, NEW id \in DOMAIN db.systems, NEW name \in Name, RenameSystem(a, id, name)
    PROVE  Trail!Record
<1> DEFINE row == AuditEntry(a, "system.rename", "system", id,
                             [from |-> db.systems[id].name, to |-> Trim[name]])
           systems == Renamed(db.systems, id, Trim[name], a.upn)
           after == [Tables EXCEPT !.systems = systems]
<1>1. Logs(row)
  BY RenameSystemEffect
<1>2. /\ row.action = "system.rename" /\ row.entity_id = id /\ row.actor = a
      /\ row.details.to = Trim[name]
  BY DEF AuditEntry
<1>3. KeepsTables({"tenant", "persons", "associations", "stewards"}) /\ db'.systems = systems
  BY RenameSystemEffect DEF KeepsTables
<1> HIDE DEF row
<1>4. Trail!Apply(Tables, row) = [Tables EXCEPT !.systems[id].name = Trim[name],
                                                !.systems[id].updated_by = a.upn]
  BY <1>2 DEF Trail!Apply
<1>5. Trail!Apply(Tables, row) = after
  <2>1. Tables.systems = db.systems
    BY DEF Tables
  <2>2. QED
    BY <1>4, <2>1, Zenon DEF Renamed
<1> HIDE DEF systems
<1>6. Tables' = after
  BY <1>3 DEF KeepsTables, Tables
<1> HIDE DEF after
<1>7. QED
  BY <1>1, <1>5, <1>6, RecordStep

\* The row of DisableSystem redoes what DisableSystem does to the tables.
LEMMA DisableSystemRecorded ==
    ASSUME TypeOK, NEW a \in Actor, NEW id \in DOMAIN db.systems, DisableSystem(a, id)
    PROVE  Trail!Record
<1> DEFINE row == AuditEntry(a, "system.disable", "system", id,
                             [name |-> db.systems[id].name])
           systems == [db.systems EXCEPT ![id].disabled_by = a.upn]
           after == [Tables EXCEPT !.systems = systems]
<1>1. Logs(row)
  BY DisableSystemEffect
<1>2. Trail!Apply(Tables, row) = after
  BY DEF Trail!Apply, AuditEntry, Tables, TypeOK, IsDatabase
<1>3. KeepsTables({"tenant", "persons", "associations", "stewards"}) /\ db'.systems = systems
  BY DisableSystemEffect DEF KeepsTables
<1> HIDE DEF row, systems
<1>4. Tables' = after
  BY <1>3 DEF KeepsTables, Tables
<1> HIDE DEF after
<1>5. QED
  BY <1>1, <1>2, <1>4, RecordStep

\* The row of EnableSystem redoes what EnableSystem does to the tables.
LEMMA EnableSystemRecorded ==
    ASSUME TypeOK, NEW a \in Actor, NEW id \in DOMAIN db.systems, EnableSystem(a, id)
    PROVE  Trail!Record
<1> DEFINE row == AuditEntry(a, "system.enable", "system", id,
                             [name |-> db.systems[id].name])
           systems == [db.systems EXCEPT ![id].disabled_by = Null]
           after == [Tables EXCEPT !.systems = systems]
<1>1. Logs(row)
  BY EnableSystemEffect
<1>2. Trail!Apply(Tables, row) = after
  BY DEF Trail!Apply, AuditEntry, Tables, TypeOK, IsDatabase
<1>3. KeepsTables({"tenant", "persons", "associations", "stewards"}) /\ db'.systems = systems
  BY EnableSystemEffect DEF KeepsTables
<1> HIDE DEF row, systems
<1>4. Tables' = after
  BY <1>3 DEF KeepsTables, Tables
<1> HIDE DEF after
<1>5. QED
  BY <1>1, <1>2, <1>4, RecordStep

\* The row of CreateAssociation redoes what CreateAssociation does to the tables.
LEMMA CreateAssociationRecorded ==
    ASSUME TypeOK, NEW a \in Actor, NEW person \in DOMAIN db.persons, NEW system \in DOMAIN db.systems,
           NEW foreign \in ForeignId, CreateAssociation(a, person, system, foreign)
    PROVE  Trail!Record
<1> DEFINE row == AuditEntry(a, "association.create", "person", person,
                             LinkDetails(db, NewId(db, "associations"), system, Trim[foreign]))
           associations == Put(db.associations, NewId(db, "associations"),
                                  [person_id |-> person, system_id |-> system,
                                   foreign_id |-> Trim[foreign], created_by |-> a.upn])
           after == [Tables EXCEPT !.associations = associations]
<1>1. Logs(row)
  BY CreateAssociationEffect
<1>2. Trail!Apply(Tables, row) = after
  BY DEF Trail!Apply, AuditEntry, Tables, Put, Trail!Put, LinkDetails, TypeOK, IsDatabase
<1>3. KeepsTables({"tenant", "persons", "systems", "stewards"}) /\ db'.associations = associations
  BY CreateAssociationEffect DEF KeepsTables
<1> HIDE DEF row, associations
<1>4. Tables' = after
  BY <1>3 DEF KeepsTables, Tables
<1> HIDE DEF after
<1>5. QED
  BY <1>1, <1>2, <1>4, RecordStep

\* The row of RemoveAssociation redoes what RemoveAssociation does to the tables.
LEMMA RemoveAssociationRecorded ==
    ASSUME TypeOK, NEW a \in Actor, NEW person \in DOMAIN db.persons, NEW id \in DOMAIN db.associations,
           RemoveAssociation(a, person, id)
    PROVE  Trail!Record
<1> DEFINE row == AuditEntry(a, "association.remove", "person", person,
                             LinkDetails(db, id, db.associations[id].system_id,
                                           db.associations[id].foreign_id))
           associations == Without(db.associations, id)
           after == [Tables EXCEPT !.associations = associations]
<1>1. Logs(row)
  BY RemoveAssociationEffect
<1>2. Trail!Apply(Tables, row) = after
  BY DEF Trail!Apply, AuditEntry, Tables, Without, Trail!Without, LinkDetails, TypeOK, IsDatabase
<1>3. KeepsTables({"tenant", "persons", "systems", "stewards"}) /\ db'.associations = associations
  BY RemoveAssociationEffect DEF KeepsTables
<1> HIDE DEF row, associations
<1>4. Tables' = after
  BY <1>3 DEF KeepsTables, Tables
<1> HIDE DEF after
<1>5. QED
  BY <1>1, <1>2, <1>4, RecordStep

\* PromoteSteward leaves the tables of AuditTrail alone, and its row says nothing about them.
LEMMA PromoteStewardRecorded ==
    ASSUME TypeOK, NEW a \in Actor, NEW upn \in UPN, PromoteSteward(a, upn)
    PROVE  Trail!Record
<1> DEFINE row == AuditEntry(a, "steward.invite", "steward", 0,
                             [upn |-> Trim[upn]])
<1>1. Logs(row)
  BY PromoteStewardEffect
<1>2. Trail!Apply(Tables, row) = Tables
  BY DEF Trail!Apply, AuditEntry, Tables, TypeOK, IsDatabase
<1>3. Tables' = Tables
  BY PromoteStewardEffect DEF KeepsTables, Tables
<1> HIDE DEF row
<1>4. QED
  BY <1>1, <1>2, <1>3, RecordStep

\* The row of DemoteSteward redoes what DemoteSteward does to the tables.
LEMMA DemoteStewardRecorded ==
    ASSUME TypeOK, NEW a \in Actor, NEW id \in DOMAIN db.stewards, DemoteSteward(a, id)
    PROVE  Trail!Record
<1> DEFINE row == AuditEntry(a, "steward.demote", "steward", id,
                             [oid |-> db.stewards[id].user_oid, upn |-> db.stewards[id].user_upn])
           stewards == [db.stewards EXCEPT ![id].removed_by = a.upn]
           after == [Tables EXCEPT !.stewards = stewards]
<1>1. Logs(row)
  BY DemoteStewardEffect
<1>2. Trail!Apply(Tables, row) = after
  BY DEF Trail!Apply, AuditEntry, Tables, TypeOK, IsDatabase
<1>3. KeepsTables({"tenant", "persons", "systems", "associations"}) /\ db'.stewards = stewards
  BY DemoteStewardEffect DEF KeepsTables
<1> HIDE DEF row, stewards
<1>4. Tables' = after
  BY <1>3 DEF KeepsTables, Tables
<1> HIDE DEF after
<1>5. QED
  BY <1>1, <1>2, <1>4, RecordStep

\* CancelStewardInvite leaves the tables of AuditTrail alone, and its row says nothing about them.
LEMMA CancelStewardInviteRecorded ==
    ASSUME TypeOK, NEW a \in Actor, NEW id \in DOMAIN db.pending, CancelStewardInvite(a, id)
    PROVE  Trail!Record
<1> DEFINE row == AuditEntry(a, "steward.uninvite", "steward", 0,
                             [upn |-> db.pending[id].user_upn])
<1>1. Logs(row)
  BY CancelStewardInviteEffect
<1>2. Trail!Apply(Tables, row) = Tables
  BY DEF Trail!Apply, AuditEntry, Tables, TypeOK, IsDatabase
<1>3. Tables' = Tables
  BY CancelStewardInviteEffect DEF KeepsTables, Tables
<1> HIDE DEF row
<1>4. QED
  BY <1>1, <1>2, <1>3, RecordStep

\* A claimed invitation either is recorded, or consumed a stale invitation and left
\* the tables and the log alone.
LEMMA ClaimPendingStewardRecorded ==
    ASSUME TypeOK, NEW a \in Actor, ClaimPendingSteward(a)
    PROVE  Trail!Record \/ (Tables' = Tables /\ db'.audit = db.audit)
<1> DEFINE id == GetPendingStewardByUPN(db, a.upn)
           inviter == db.pending[id].invited_by
           row == AuditEntry(a, "steward.promote", "steward", NewId(db, "stewards"),
                             [oid |-> a.oid, upn |-> a.upn, invited_by |-> inviter])
           stewards == Put(db.stewards, NewId(db, "stewards"),
                           [user_oid |-> a.oid, user_upn |-> a.upn,
                            promoted_by |-> inviter, removed_by |-> Null])
           after == [Tables EXCEPT !.stewards = stewards]
<1>1. CASE IsActiveSteward(db, a.oid)
  BY <1>1, ClaimPendingStewardEffect DEF KeepsTables, Tables
<1>2. CASE ~IsActiveSteward(db, a.oid)
  <2>1. Logs(row)
    BY <1>2, ClaimPendingStewardEffect
  <2>2. Trail!Apply(Tables, row) = after
    BY DEF Trail!Apply, Trail!RecordedSteward, AuditEntry, Tables, Put, Trail!Put
  <2>3. /\ KeepsTables({"tenant", "persons", "systems", "associations"})
        /\ db'.stewards = stewards
    BY <1>2, ClaimPendingStewardEffect
  <2> HIDE DEF row, stewards
  <2>4. Tables' = after
    BY <2>3 DEF KeepsTables, Tables
  <2> HIDE DEF after
  <2>5. QED
    BY <2>1, <2>2, <2>4, RecordStep
<1>3. QED
  BY <1>1, <1>2

-------------------------------------------------------------------------------
(* The refinement. *)

\* Every step of the registry is one recorded write, or leaves tables and log alone.
LEMMA TrailStep == IInv /\ [Next]_db => [Trail!Record]_(Trail!vars)
<1> SUFFICES ASSUME IInv, [Next]_db PROVE Trail!Record \/ (Tables' = Tables /\ db'.audit = db.audit)
  BY DEF Trail!vars, Tables
<1> USE DEF IInv
<1>1. ASSUME NEW a \in Actor, SignIn(a)
      PROVE  Trail!Record \/ (Tables' = Tables /\ db'.audit = db.audit)
  BY <1>1, BootstrapRecorded, ClaimPendingStewardRecorded DEF SignIn
<1>2. ASSUME NEW a \in Actor, Write(a) PROVE Trail!Record
  BY <1>2, WriteCases, CreatePersonRecorded, RenamePersonRecorded, CreateSystemRecorded,
     RenameSystemRecorded, DisableSystemRecorded, EnableSystemRecorded,
     CreateAssociationRecorded, RemoveAssociationRecorded, PromoteStewardRecorded,
     DemoteStewardRecorded, CancelStewardInviteRecorded
<1>3. CASE UNCHANGED db
  BY <1>3 DEF Tables
<1>4. QED
  BY <1>1, <1>2, <1>3 DEF Next

\* The registry can be rebuilt from its log: Registry implements AuditTrail.
THEOREM LogRebuildsRegistry == Spec => TrailSpec
<1>1. Init => Trail!Init
  BY DEF Init, EmptyDatabase, NoRows, Trail!Init, Trail!EmptyTables, Trail!NoRows
<1>2. IInv /\ [Next]_db => [Trail!Record]_(Trail!vars)
  BY TrailStep
<1>3. QED
  BY <1>1, <1>2, Invariant, PTL DEF Spec, TrailSpec, Trail!Spec

-------------------------------------------------------------------------------
(* What is on record stays. *)

\* The formula of PermanentRecord, by table.
LogKept == db.audit = SubSeq(db'.audit, 1, Len(db.audit))

PersonsKept == \A i \in DOMAIN db.persons :
                  /\ i \in DOMAIN db'.persons
                  /\ db'.persons[i].created_by = db.persons[i].created_by

SystemsKept == \A i \in DOMAIN db.systems :
                  /\ i \in DOMAIN db'.systems
                  /\ db'.systems[i].created_by = db.systems[i].created_by

StewardsKept == \A i \in DOMAIN db.stewards :
                  /\ i \in DOMAIN db'.stewards
                  /\ db'.stewards[i].user_oid = db.stewards[i].user_oid
                  /\ Removed(db.stewards[i]) => db'.stewards[i] = db.stewards[i]

BindingKept == Bound => db'.tenant = db.tenant

\* A step appends to the log or leaves it alone, and does not rebind.
LEMMA LogAndBindingKept ==
    ASSUME IInv, NEW a \in Actor, SignIn(a) \/ Write(a)
    PROVE  LogKept /\ BindingKept
<1>1. db.audit \in Seq(AuditRow)
  BY DEF IInv, TypeOK, IsDatabase
<1>2. CASE OnlyConsumes
  BY <1>1, <1>2 DEF OnlyConsumes, KeepsTables, LogKept, BindingKept
<1>3. ASSUME NEW row, Appends(row) PROVE LogKept /\ BindingKept
  BY <1>1, <1>3 DEF Appends, Logs, BindEffect, LogKept, BindingKept
<1>4. QED
  BY <1>2, <1>3, AppendsStep

\* Steward rows are added, or marked as removed once.
LEMMA StewardsKeptStep ==
    ASSUME IInv, NEW a \in Actor, SignIn(a) \/ Write(a)
    PROVE  StewardsKept
<1> USE DEF IInv
<1>1. CASE db'.stewards = db.stewards
  BY <1>1 DEF StewardsKept
<1>2. ASSUME NEW row, row.removed_by = Null,
             db'.stewards = Put(db.stewards, NewId(db, "stewards"), row)
      PROVE  StewardsKept
  <2>1. /\ NewId(db, "stewards") \notin DOMAIN db.stewards
        /\ \A i \in DOMAIN db.stewards : db'.stewards[i] = db.stewards[i]
    BY <1>2, InsertionActive
  <2>2. DOMAIN db.stewards \subseteq DOMAIN db'.stewards
    BY <1>2 DEF Put
  <2>3. QED
    BY <2>1, <2>2 DEF StewardsKept
<1>3. ASSUME NEW id \in DOMAIN db.stewards, DemoteSteward(a, id) PROVE StewardsKept
  <2>1. db'.stewards = [db.stewards EXCEPT ![id].removed_by = a.upn] /\ ~Removed(db.stewards[id])
    BY <1>3, DemoteStewardEffect
  <2>2. /\ DOMAIN db'.stewards = DOMAIN db.stewards
        /\ \A i \in DOMAIN db.stewards \ {id} : db'.stewards[i] = db.stewards[i]
    BY <2>1
  <2>3. \A i \in DOMAIN db.stewards : db'.stewards[i].user_oid = db.stewards[i].user_oid
    BY <1>3, DemotionActive
  <2>4. QED
    BY <2>1, <2>2, <2>3 DEF StewardsKept
<1>4. QED
  BY <1>1, <1>2, <1>3, SignInStewards, WriteStewards

\* Person and system rows are added, or change columns other than their creator.
LEMMA EntitiesKeptStep ==
    ASSUME IInv, NEW a \in Actor, SignIn(a) \/ Write(a)
    PROVE  PersonsKept /\ SystemsKept
<1> USE DEF IInv
<1>a. /\ NewId(db, "persons") \notin DOMAIN db.persons
      /\ NewId(db, "systems") \notin DOMAIN db.systems
  BY DEF IdsIssuedInOrder, TablesFollowSequence, NewId, TypeOK, IsDatabase, Sequence
<1>b. /\ \A i \in DOMAIN db.persons : db.persons[i] \in Person
      /\ \A i \in DOMAIN db.systems : db.systems[i] \in System
  BY DEF TypeOK, IsDatabase, IsTable
<1>c. db'.persons = db.persons => PersonsKept
  BY DEF PersonsKept
<1>d. db'.systems = db.systems => SystemsKept
  BY DEF SystemsKept
<1>1. ASSUME NEW tid \in TID, Bootstrap(a, tid) PROVE PersonsKept /\ SystemsKept
  BY <1>1, <1>c, <1>d, BootstrapEffect DEF KeepsTables
<1>2. ASSUME ClaimPendingSteward(a) PROVE PersonsKept /\ SystemsKept
  BY <1>2, <1>c, <1>d, ClaimPendingStewardEffect DEF KeepsTables
<1>3. ASSUME NEW person \in DOMAIN db.persons, NEW system \in DOMAIN db.systems,
             NEW foreign \in ForeignId,
             CreateAssociation(a, person, system, foreign)
      PROVE  PersonsKept /\ SystemsKept
  BY <1>3, <1>c, <1>d, CreateAssociationEffect DEF KeepsTables
<1>4. ASSUME NEW person \in DOMAIN db.persons, NEW id \in DOMAIN db.associations,
             RemoveAssociation(a, person, id)
      PROVE  PersonsKept /\ SystemsKept
  BY <1>4, <1>c, <1>d, RemoveAssociationEffect DEF KeepsTables
<1>5. ASSUME NEW upn \in UPN, PromoteSteward(a, upn) PROVE PersonsKept /\ SystemsKept
  BY <1>5, <1>c, <1>d, PromoteStewardEffect DEF KeepsTables
<1>6. ASSUME NEW id \in DOMAIN db.stewards, DemoteSteward(a, id)
      PROVE  PersonsKept /\ SystemsKept
  BY <1>6, <1>c, <1>d, DemoteStewardEffect DEF KeepsTables
<1>7. ASSUME NEW id \in DOMAIN db.pending, CancelStewardInvite(a, id)
      PROVE  PersonsKept /\ SystemsKept
  BY <1>7, <1>c, <1>d, CancelStewardInviteEffect DEF KeepsTables
<1>8. ASSUME NEW name \in Name, CreatePerson(a, name) PROVE PersonsKept /\ SystemsKept
  <2>1. db'.systems = db.systems
    BY <1>8, CreatePersonEffect DEF KeepsTables
  <2>2. db'.persons = Put(db.persons, NewId(db, "persons"),
                            [name |-> Trim[name], created_by |-> a.upn, updated_by |-> a.upn])
    BY <1>8, CreatePersonEffect
  <2>3. PersonsKept
    BY <1>a, <2>2 DEF Put, PersonsKept
  <2>4. QED
    BY <1>c, <1>d, <2>1, <2>3
<1>9. ASSUME NEW id \in DOMAIN db.persons, NEW name \in Name, RenamePerson(a, id, name)
      PROVE  PersonsKept /\ SystemsKept
  <2>1. db'.systems = db.systems
    BY <1>9, RenamePersonEffect DEF KeepsTables
  <2>2. db'.persons = Renamed(db.persons, id, Trim[name], a.upn)
    BY <1>9, RenamePersonEffect
  <2>3. PersonsKept
    BY <1>b, <2>2 DEF PersonsKept, Renamed, Person
  <2>4. QED
    BY <1>c, <1>d, <2>1, <2>3
<1>10. ASSUME NEW name \in Name, CreateSystem(a, name) PROVE PersonsKept /\ SystemsKept
  <2>1. db'.persons = db.persons
    BY <1>10, CreateSystemEffect DEF KeepsTables
  <2>2. db'.systems = Put(db.systems, NewId(db, "systems"),
                            [name |-> Trim[name], created_by |-> a.upn, updated_by |-> a.upn,
                             disabled_by |-> Null])
    BY <1>10, CreateSystemEffect
  <2>3. SystemsKept
    BY <1>a, <2>2 DEF Put, SystemsKept
  <2>4. QED
    BY <1>c, <1>d, <2>1, <2>3
<1>11. ASSUME NEW id \in DOMAIN db.systems, NEW name \in Name, RenameSystem(a, id, name)
      PROVE  PersonsKept /\ SystemsKept
  <2>1. db'.persons = db.persons
    BY <1>11, RenameSystemEffect DEF KeepsTables
  <2>2. db'.systems = Renamed(db.systems, id, Trim[name], a.upn)
    BY <1>11, RenameSystemEffect
  <2>3. SystemsKept
    BY <1>b, <2>2 DEF SystemsKept, Renamed, System
  <2>4. QED
    BY <1>c, <1>d, <2>1, <2>3
<1>12. ASSUME NEW id \in DOMAIN db.systems, DisableSystem(a, id)
      PROVE  PersonsKept /\ SystemsKept
  <2>1. db'.persons = db.persons
    BY <1>12, DisableSystemEffect DEF KeepsTables
  <2>2. db'.systems = [db.systems EXCEPT ![id].disabled_by = a.upn]
    BY <1>12, DisableSystemEffect
  <2>3. SystemsKept
    BY <1>b, <2>2 DEF SystemsKept, System
  <2>4. QED
    BY <1>c, <1>d, <2>1, <2>3
<1>13. ASSUME NEW id \in DOMAIN db.systems, EnableSystem(a, id)
      PROVE  PersonsKept /\ SystemsKept
  <2>1. db'.persons = db.persons
    BY <1>13, EnableSystemEffect DEF KeepsTables
  <2>2. db'.systems = [db.systems EXCEPT ![id].disabled_by = Null]
    BY <1>13, EnableSystemEffect
  <2>3. SystemsKept
    BY <1>b, <2>2 DEF SystemsKept, System
  <2>4. QED
    BY <1>c, <1>d, <2>1, <2>3
<1>14. QED
  BY <1>1, <1>2, <1>3, <1>4, <1>5, <1>6, <1>7, <1>8, <1>9, <1>10, <1>11, <1>12, <1>13, WriteCases DEF SignIn

\* Nothing on record is rewritten: the log only grows, rows of persons, systems and
\* stewards stay, a removal is final, and the tenant is bound once.
THEOREM RecordIsPermanent == Spec => PermanentRecord
<1>1. IInv /\ [Next]_db =>
         [LogKept /\ PersonsKept /\ SystemsKept /\ StewardsKept /\ BindingKept]_db
  BY LogAndBindingKept, StewardsKeptStep, EntitiesKeptStep DEF Next
<1>2. QED
  BY <1>1, Invariant, PTL
  DEF Spec, PermanentRecord, LogKept, PersonsKept, SystemsKept, StewardsKept, BindingKept

-------------------------------------------------------------------------------
(* Invitations. *)

\* An invitation that is gone was withdrawn on record, or its user is a steward.
Honoured(i) ==
    LET upn == db.pending[i].user_upn
        last == db'.audit[Len(db'.audit)]
    IN \/ /\ Len(db'.audit) > Len(db.audit)
          /\ last.action = "steward.uninvite"
          /\ last.details.upn = upn
       \/ \E a \in Actor, j \in ActiveStewards(db') :
             SameUPN(a.upn, upn) /\ db'.stewards[j].user_oid = a.oid

\* Withdrawing an invitation says so, as the last row of the log.
LEMMA CancelHonours ==
    ASSUME IInv, NEW a \in Actor, NEW id \in DOMAIN db.pending, CancelStewardInvite(a, id)
    PROVE  \A i \in DOMAIN db.pending \ DOMAIN db'.pending : Honoured(i)
<1> DEFINE row == AuditEntry(a, "steward.uninvite", "steward", 0, [upn |-> db.pending[id].user_upn])
<1>1. db'.pending = Without(db.pending, id) /\ Logs(row)
  BY CancelStewardInviteEffect DEF IInv
<1>2. row.action = "steward.uninvite" /\ row.details.upn = db.pending[id].user_upn
  BY DEF AuditEntry
<1> HIDE DEF row
<1>3. Len(db.audit) \in Nat /\ Len(db'.audit) = Len(db.audit) + 1 /\ db'.audit[Len(db'.audit)] = row
  <2>1. db.audit \in Seq(AuditRow)
    BY DEF IInv, TypeOK, IsDatabase
  <2>2. QED
    BY <1>1, <2>1 DEF Logs
<1>4. DOMAIN db.pending \ DOMAIN db'.pending \subseteq {id}
  BY <1>1 DEF Without
<1>5. QED
  BY <1>2, <1>3, <1>4 DEF Honoured

\* A sign-in that consumes an invitation leaves its user an active steward.
LEMMA ClaimHonours ==
    ASSUME IInv, NEW a \in Actor, ClaimPendingSteward(a)
    PROVE  \A i \in DOMAIN db.pending \ DOMAIN db'.pending : Honoured(i)
<1> DEFINE id == GetPendingStewardByUPN(db, a.upn)
<1>1. /\ id \in DOMAIN db.pending
      /\ SameUPN(db.pending[id].user_upn, a.upn)
      /\ db'.pending = Without(db.pending, id)
  BY ClaimPendingStewardEffect DEF IInv
<1>2. \E j \in ActiveStewards(db)' : db'.stewards[j].user_oid = a.oid
  <2>1. CASE IsActiveSteward(db, a.oid)
    <3>1. db'.stewards = db.stewards
      BY <2>1, ClaimPendingStewardEffect DEF IInv, KeepsTables
    <3>2. QED
      BY <2>1, <3>1 DEF IsActiveSteward, ActiveStewards
  <2>2. CASE ~IsActiveSteward(db, a.oid)
    <3> DEFINE row == [user_oid |-> a.oid, user_upn |-> a.upn,
                       promoted_by |-> db.pending[id].invited_by, removed_by |-> Null]
    <3>1. db'.stewards = Put(db.stewards, NewId(db, "stewards"), row)
      BY <2>2, ClaimPendingStewardEffect DEF IInv
    <3>2. row.removed_by = Null /\ row.user_oid = a.oid
      OBVIOUS
    <3> HIDE DEF row
    <3>3. QED
      BY <3>1, <3>2, InsertionActive DEF IInv
  <2>3. QED
    BY <2>1, <2>2
<1> HIDE DEF id
<1>3. DOMAIN db.pending \ DOMAIN db'.pending \subseteq {id}
  BY <1>1 DEF Without
<1>4. QED
  BY <1>1, <1>2, <1>3 DEF Honoured, SameUPN, ActiveStewards

\* Every other operation leaves the invitations there were.
LEMMA HonoursStep ==
    ASSUME IInv, NEW a \in Actor, SignIn(a) \/ Write(a)
    PROVE  \A i \in DOMAIN db.pending \ DOMAIN db'.pending : Honoured(i)
<1> DEFINE Goal == \A i \in DOMAIN db.pending \ DOMAIN db'.pending : Honoured(i)
<1>a. DOMAIN db.pending \subseteq DOMAIN db'.pending => Goal
  OBVIOUS
<1> HIDE DEF Goal
<1> USE DEF IInv
<1>1. ASSUME NEW tid \in TID, Bootstrap(a, tid) PROVE Goal
  BY <1>1, <1>a, BootstrapEffect DEF KeepsTables
<1>2. ASSUME ClaimPendingSteward(a) PROVE Goal
  BY <1>2, ClaimHonours DEF Goal
<1>3. ASSUME NEW person \in DOMAIN db.persons, NEW system \in DOMAIN db.systems,
             NEW foreign \in ForeignId,
             CreateAssociation(a, person, system, foreign)
      PROVE  Goal
  BY <1>3, <1>a, CreateAssociationEffect DEF KeepsTables
<1>4. ASSUME NEW person \in DOMAIN db.persons, NEW id \in DOMAIN db.associations,
             RemoveAssociation(a, person, id)
      PROVE  Goal
  BY <1>4, <1>a, RemoveAssociationEffect DEF KeepsTables
<1>5. ASSUME NEW upn \in UPN, PromoteSteward(a, upn) PROVE Goal
  BY <1>5, <1>a, PromoteStewardEffect DEF Put
<1>6. ASSUME NEW id \in DOMAIN db.stewards, DemoteSteward(a, id) PROVE Goal
  BY <1>6, <1>a, DemoteStewardEffect DEF KeepsTables
<1>7. ASSUME NEW id \in DOMAIN db.pending, CancelStewardInvite(a, id) PROVE Goal
  BY <1>7, CancelHonours DEF Goal
<1>8. ASSUME NEW name \in Name, CreatePerson(a, name) PROVE Goal
  BY <1>8, <1>a, CreatePersonEffect DEF KeepsTables
<1>9. ASSUME NEW id \in DOMAIN db.persons, NEW name \in Name, RenamePerson(a, id, name)
      PROVE  Goal
  BY <1>9, <1>a, RenamePersonEffect DEF KeepsTables
<1>10. ASSUME NEW name \in Name, CreateSystem(a, name) PROVE Goal
  BY <1>10, <1>a, CreateSystemEffect DEF KeepsTables
<1>11. ASSUME NEW id \in DOMAIN db.systems, NEW name \in Name, RenameSystem(a, id, name)
      PROVE  Goal
  BY <1>11, <1>a, RenameSystemEffect DEF KeepsTables
<1>12. ASSUME NEW id \in DOMAIN db.systems, DisableSystem(a, id) PROVE Goal
  BY <1>12, <1>a, DisableSystemEffect DEF KeepsTables
<1>13. ASSUME NEW id \in DOMAIN db.systems, EnableSystem(a, id) PROVE Goal
  BY <1>13, <1>a, EnableSystemEffect DEF KeepsTables
<1>14. Goal
  BY <1>1, <1>2, <1>3, <1>4, <1>5, <1>6, <1>7, <1>8, <1>9, <1>10, <1>11, <1>12, <1>13, WriteCases DEF SignIn
<1>15. QED
  BY <1>14 DEF Goal

\* An invitation goes away only on record, or because its user is a steward.
THEOREM InvitationsHonoured == Spec => InvitesAreHonoured
<1>1. IInv /\ [Next]_db => [\A i \in DOMAIN db.pending \ DOMAIN db'.pending : Honoured(i)]_db
  BY HonoursStep DEF Next
<1>2. QED
  BY <1>1, Invariant, PTL DEF Spec, InvitesAreHonoured, Honoured

===============================================================================
