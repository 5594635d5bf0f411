---------------------------- MODULE RegistryProofs ----------------------------
(***************************************************************************)
(* Proofs about module Registry, for every value of its constants.         *)
(***************************************************************************)
EXTENDS Registry, TLAPS, FiniteSetTheorems, WellFoundedInduction

-------------------------------------------------------------------------------
(* Sets of numbers.                                                          *)

\* Among finite sets there is one that contains none of the others.
LEMMA MinimalSet ==
    ASSUME NEW U, NEW F \in SUBSET FiniteSubsetsOf(U), F # {}
    PROVE  \E A \in F : \A B \in F : ~(B \subseteq A /\ B # A)
<1>1. PICK A \in F : \A B \in F : <<B, A>> \notin StrictSubsetOrdering(U)
  BY FS_StrictSubsetOrderingWellFounded, WFMin
<1>2. QED
  BY <1>1 DEF StrictSubsetOrdering, FiniteSubsetsOf

\* A set of natural numbers has a least one: its initial segments are finite sets.
LEMMA LeastNat ==
    ASSUME NEW T \in SUBSET Nat, T # {}
    PROVE  \E x \in T : \A y \in T : x <= y
<1> DEFINE F == {0..x : x \in T}
<1>1. F \in SUBSET FiniteSubsetsOf(Nat) /\ F # {}
  <2>1. ASSUME NEW x \in T PROVE 0..x \in FiniteSubsetsOf(Nat)
    BY FS_Interval DEF FiniteSubsetsOf
  <2>2. QED
    BY <2>1
<1>2. \E A \in F : \A B \in F : ~(B \subseteq A /\ B # A)
  <2> HIDE DEF F
  <2>1. QED
    BY <1>1, MinimalSet
<1>3. PICK x \in T : \A B \in F : ~(B \subseteq 0..x /\ B # 0..x)
  BY <1>2
<1>4. ASSUME NEW y \in T PROVE x <= y
  <2>1. ~(0..y \subseteq 0..x /\ 0..y # 0..x)
    BY <1>3
  <2>2. QED
    BY <2>1
<1>5. QED
  BY <1>4

\* A bounded one has a greatest.
LEMMA GreatestNat ==
    ASSUME NEW b \in Nat, NEW T \in SUBSET 0..b, T # {}
    PROVE  \E x \in T : \A y \in T : y <= x
<1> DEFINE below == {b - x : x \in T}
<1>1. below \in SUBSET Nat /\ below # {}
  <2>1. ASSUME NEW x \in T PROVE b - x \in Nat
    OBVIOUS
  <2>2. QED
    BY <2>1
<1>2. \E m \in below : \A k \in below : m <= k
  <2> HIDE DEF below
  <2>1. QED
    BY <1>1, LeastNat
<1>3. PICK x \in T : \A k \in below : b - x <= k
  BY <1>2
<1>4. \A y \in T : y <= x
  BY <1>3
<1>5. QED
  BY <1>4

\* Induction over the natural numbers, for a set of them.
LEMMA Induction ==
    ASSUME NEW T, 0 \in T, \A n \in Nat : n \in T => n + 1 \in T
    PROVE  \A n \in Nat : n \in T
<1> SUFFICES ASSUME Nat \ T # {}
             PROVE  FALSE
  OBVIOUS
<1>1. PICK x \in Nat \ T : \A y \in Nat \ T : x <= y
  BY LeastNat
<1>2. x # 0 /\ x - 1 \in Nat
  OBVIOUS
<1>3. x - 1 \in T
  BY <1>1, <1>2
<1>4. x - 1 + 1 \in T
  BY <1>2, <1>3
<1>5. QED
  BY <1>4

\* The same, from all smaller numbers to the next.
LEMMA CompleteInduction ==
    ASSUME NEW T, \A n \in Nat : (\A m \in 0..(n - 1) : m \in T) => n \in T
    PROVE  \A n \in Nat : n \in T
<1> SUFFICES ASSUME Nat \ T # {}
             PROVE  FALSE
  OBVIOUS
<1>1. PICK x \in Nat \ T : \A y \in Nat \ T : x <= y
  BY LeastNat
<1>2. \A m \in 0..(x - 1) : m \in T
  BY <1>1
<1>3. QED
  BY <1>2

-------------------------------------------------------------------------------
(* Types: what each statement of the store leaves is a database. *)

\* Put keeps a table a table: the row it adds or replaces is a row.
LEMMA PutIsTable ==
    ASSUME NEW Row, NEW t, IsTable(t, Row), NEW id \in Nat \ {0}, NEW row \in Row
    PROVE  IsTable(Put(t, id, row), Row)
BY DEF IsTable, Put

\* Deleting a row keeps a table a table.
LEMMA WithoutIsTable ==
    ASSUME NEW Row, NEW t, IsTable(t, Row), NEW id
    PROVE  IsTable(Without(t, id), Row)
BY DEF IsTable, Without

\* So does replacing an existing row.
LEMMA UpdateIsTable ==
    ASSUME NEW Row, NEW t, IsTable(t, Row), NEW id \in DOMAIN t, NEW row \in Row
    PROVE  IsTable([t EXCEPT ![id] = row], Row)
BY DEF IsTable

\* The id AUTOINCREMENT hands out is a positive number.
LEMMA NewIdType ==
    ASSUME NEW d, IsDatabase(d)
    PROVE  /\ NewId(d, "persons") \in Nat \ {0}
           /\ NewId(d, "systems") \in Nat \ {0}
           /\ NewId(d, "associations") \in Nat \ {0}
           /\ NewId(d, "stewards") \in Nat \ {0}
           /\ NewId(d, "pending") \in Nat \ {0}
BY DEF IsDatabase, NewId, Sequence

\* Appending a well-formed row to the log keeps the database well-formed.
LEMMA WriteAuditType ==
    ASSUME NEW d, IsDatabase(d), NEW a \in Actor, NEW action \in Action,
           NEW entity_type \in {"person", "system", "steward", "tenant"},
           NEW id \in Nat, NEW details \in Details
    PROVE  IsDatabase(WriteAudit(d, a, action, entity_type, id, details))
<1> DEFINE row == AuditEntry(a, action, entity_type, id, details)
<1>1. row \in AuditRow
  BY DEF AuditRow, AuditEntry
<1> HIDE DEF row
<1>2. IsDatabase(InsertAudit(d, row))
  BY <1>1 DEF IsDatabase, InsertAudit
<1>3. QED
  BY <1>2 DEF WriteAudit, row

\* A sequence moved on is one.
LEMMA SequenceMoves ==
    ASSUME NEW seq \in Sequence
    PROVE  /\ [seq EXCEPT !.persons = @ + 1] \in Sequence
           /\ [seq EXCEPT !.systems = @ + 1] \in Sequence
           /\ [seq EXCEPT !.associations = @ + 1] \in Sequence
           /\ [seq EXCEPT !.stewards = @ + 1] \in Sequence
           /\ [seq EXCEPT !.pending = @ + 1] \in Sequence
BY DEF Sequence

\* A database with another table and other sequences in it is one.
LEMMA ReplaceTable ==
    ASSUME NEW d, IsDatabase(d), NEW seq \in Sequence, NEW t
    PROVE  /\ IsTable(t, Person) => IsDatabase([d EXCEPT !.persons = t, !.seq = seq])
           /\ IsTable(t, System) => IsDatabase([d EXCEPT !.systems = t, !.seq = seq])
           /\ IsTable(t, Association) => IsDatabase([d EXCEPT !.associations = t, !.seq = seq])
           /\ IsTable(t, Steward) => IsDatabase([d EXCEPT !.stewards = t, !.seq = seq])
           /\ IsTable(t, PendingSteward) => IsDatabase([d EXCEPT !.pending = t, !.seq = seq])
<1>1. IsTable(t, Person) => IsDatabase([d EXCEPT !.persons = t, !.seq = seq])
  BY DEF IsDatabase
<1>2. IsTable(t, System) => IsDatabase([d EXCEPT !.systems = t, !.seq = seq])
  BY DEF IsDatabase
<1>3. IsTable(t, Association) => IsDatabase([d EXCEPT !.associations = t, !.seq = seq])
  BY DEF IsDatabase
<1>4. IsTable(t, Steward) => IsDatabase([d EXCEPT !.stewards = t, !.seq = seq])
  BY DEF IsDatabase
<1>5. IsTable(t, PendingSteward) => IsDatabase([d EXCEPT !.pending = t, !.seq = seq])
  BY DEF IsDatabase
<1>6. QED
  BY <1>1, <1>2, <1>3, <1>4, <1>5

\* A database with other rows in one of its tables is one.
LEMMA ReplaceRows ==
    ASSUME NEW d, IsDatabase(d), NEW t
    PROVE  /\ IsTable(t, Person) => IsDatabase([d EXCEPT !.persons = t])
           /\ IsTable(t, System) => IsDatabase([d EXCEPT !.systems = t])
           /\ IsTable(t, Steward) => IsDatabase([d EXCEPT !.stewards = t])
<1>1. IsTable(t, Person) => IsDatabase([d EXCEPT !.persons = t])
  BY DEF IsDatabase
<1>2. IsTable(t, System) => IsDatabase([d EXCEPT !.systems = t])
  BY DEF IsDatabase
<1>3. IsTable(t, Steward) => IsDatabase([d EXCEPT !.stewards = t])
  BY DEF IsDatabase
<1>4. QED
  BY <1>1, <1>2, <1>3

\* InsertPerson maps databases to databases.
LEMMA InsertPersonType ==
    ASSUME NEW d, IsDatabase(d), NEW name \in Name, NEW by \in UPN
    PROVE  IsDatabase(InsertPerson(d, name, by))
<1> DEFINE row == [name |-> name, created_by |-> by, updated_by |-> by]
           t == Put(d.persons, NewId(d, "persons"), row)
           seq == [d.seq EXCEPT !.persons = @ + 1]
<1>1. row \in Person
  BY DEF Person
<1> HIDE DEF row
<1>2. IsTable(t, Person)
  <2>1. IsTable(d.persons, Person) /\ NewId(d, "persons") \in Nat \ {0}
    BY NewIdType, Zenon DEF IsDatabase
  <2>2. QED
    BY <1>1, <2>1, PutIsTable, Zenon
<1>3. seq \in Sequence
  BY SequenceMoves, Zenon DEF IsDatabase
<1> HIDE DEF t, seq
<1>4. IsDatabase([d EXCEPT !.persons = t, !.seq = seq])
  BY <1>2, <1>3, ReplaceTable, Zenon
<1>5. QED
  BY <1>4, Zenon DEF InsertPerson, t, seq, row

\* UpdatePersonName maps databases to databases.
LEMMA UpdatePersonNameType ==
    ASSUME NEW d, IsDatabase(d), NEW id \in DOMAIN d.persons, NEW name \in Name, NEW by \in UPN
    PROVE  IsDatabase(UpdatePersonName(d, id, name, by))
<1> DEFINE row == [d.persons[id] EXCEPT !.name = name, !.updated_by = by]
<1>1. d.persons[id] \in Person
  BY DEF IsDatabase, IsTable
<1>2. row \in Person
  BY <1>1 DEF Person
<1> HIDE DEF row
<1> DEFINE t == [d.persons EXCEPT ![id] = row]
<1>3. IsTable(t, Person)
  BY <1>2, UpdateIsTable DEF IsDatabase
<1> HIDE DEF t
<1>4. IsDatabase([d EXCEPT !.persons = t])
  BY <1>3, ReplaceRows
<1>5. QED
  BY <1>4, Zenon DEF UpdatePersonName, t, row

\* InsertSystem maps databases to databases.
LEMMA InsertSystemType ==
    ASSUME NEW d, IsDatabase(d), NEW name \in Name, NEW by \in UPN
    PROVE  IsDatabase(InsertSystem(d, name, by))
<1> DEFINE row == [name |-> name, created_by |-> by, updated_by |-> by, disabled_by |-> Null]
           t == Put(d.systems, NewId(d, "systems"), row)
           seq == [d.seq EXCEPT !.systems = @ + 1]
<1>1. row \in System
  BY DEF System
<1> HIDE DEF row
<1>2. IsTable(t, System)
  <2>1. IsTable(d.systems, System) /\ NewId(d, "systems") \in Nat \ {0}
    BY NewIdType, Zenon DEF IsDatabase
  <2>2. QED
    BY <1>1, <2>1, PutIsTable, Zenon
<1>3. seq \in Sequence
  BY SequenceMoves, Zenon DEF IsDatabase
<1> HIDE DEF t, seq
<1>4. IsDatabase([d EXCEPT !.systems = t, !.seq = seq])
  BY <1>2, <1>3, ReplaceTable, Zenon
<1>5. QED
  BY <1>4, Zenon DEF InsertSystem, t, seq, row

\* UpdateSystemName maps databases to databases.
LEMMA UpdateSystemNameType ==
    ASSUME NEW d, IsDatabase(d), NEW id \in DOMAIN d.systems, NEW name \in Name, NEW by \in UPN
    PROVE  IsDatabase(UpdateSystemName(d, id, name, by))
<1> DEFINE row == [d.systems[id] EXCEPT !.name = name, !.updated_by = by]
<1>1. d.systems[id] \in System
  BY DEF IsDatabase, IsTable
<1>2. row \in System
  BY <1>1 DEF System
<1> HIDE DEF row
<1> DEFINE t == [d.systems EXCEPT ![id] = row]
<1>3. IsTable(t, System)
  BY <1>2, UpdateIsTable DEF IsDatabase
<1> HIDE DEF t
<1>4. IsDatabase([d EXCEPT !.systems = t])
  BY <1>3, ReplaceRows
<1>5. QED
  BY <1>4, Zenon DEF UpdateSystemName, t, row

\* SetDisabledBy maps databases to databases.
LEMMA SetDisabledByType ==
    ASSUME NEW d, IsDatabase(d), NEW id \in DOMAIN d.systems, NEW by \in UPN \cup {Null}
    PROVE  IsDatabase(SetDisabledBy(d, id, by))
<1> DEFINE row == [d.systems[id] EXCEPT !.disabled_by = by]
<1>1. d.systems[id] \in System
  BY DEF IsDatabase, IsTable
<1>2. row \in System
  BY <1>1 DEF System
<1> HIDE DEF row
<1> DEFINE t == [d.systems EXCEPT ![id] = row]
<1>3. IsTable(t, System)
  BY <1>2, UpdateIsTable DEF IsDatabase
<1> HIDE DEF t
<1>4. IsDatabase([d EXCEPT !.systems = t])
  BY <1>3, ReplaceRows
<1>5. QED
  BY <1>4, Zenon DEF SetDisabledBy, t, row

\* InsertAssociation maps databases to databases.
LEMMA InsertAssociationType ==
    ASSUME NEW d, IsDatabase(d), NEW person \in Nat, NEW system \in Nat,
           NEW foreign \in ForeignId, NEW by \in UPN
    PROVE  IsDatabase(InsertAssociation(d, person, system, foreign, by))
<1> DEFINE row == [person_id |-> person, system_id |-> system,
                   foreign_id |-> foreign, created_by |-> by]
           t == Put(d.associations, NewId(d, "associations"), row)
           seq == [d.seq EXCEPT !.associations = @ + 1]
<1>1. row \in Association
  BY DEF Association
<1> HIDE DEF row
<1>2. IsTable(t, Association)
  <2>1. IsTable(d.associations, Association) /\ NewId(d, "associations") \in Nat \ {0}
    BY NewIdType, Zenon DEF IsDatabase
  <2>2. QED
    BY <1>1, <2>1, PutIsTable, Zenon
<1>3. seq \in Sequence
  BY SequenceMoves, Zenon DEF IsDatabase
<1> HIDE DEF t, seq
<1>4. IsDatabase([d EXCEPT !.associations = t, !.seq = seq])
  BY <1>2, <1>3, ReplaceTable, Zenon
<1>5. QED
  BY <1>4, Zenon DEF InsertAssociation, t, seq, row

\* DeleteAssociation maps databases to databases.
LEMMA DeleteAssociationType ==
    ASSUME NEW d, IsDatabase(d), NEW id
    PROVE  IsDatabase(DeleteAssociation(d, id))
BY WithoutIsTable DEF IsDatabase, DeleteAssociation

\* BindTenant maps databases to databases.
LEMMA BindTenantType ==
    ASSUME NEW d, IsDatabase(d), NEW tid \in TID
    PROVE  IsDatabase(BindTenant(d, tid))
BY DEF IsDatabase, BindTenant

\* InsertSteward maps databases to databases.
LEMMA InsertStewardType ==
    ASSUME NEW d, IsDatabase(d), NEW oid \in OID, NEW upn \in UPN,
           NEW by \in UPN \cup {"bootstrap"}
    PROVE  IsDatabase(InsertSteward(d, oid, upn, by))
<1> DEFINE row == [user_oid |-> oid, user_upn |-> upn,
                   promoted_by |-> by, removed_by |-> Null]
           t == Put(d.stewards, NewId(d, "stewards"), row)
           seq == [d.seq EXCEPT !.stewards = @ + 1]
<1>1. row \in Steward
  BY DEF Steward
<1> HIDE DEF row
<1>2. IsTable(t, Steward)
  <2>1. IsTable(d.stewards, Steward) /\ NewId(d, "stewards") \in Nat \ {0}
    BY NewIdType, Zenon DEF IsDatabase
  <2>2. QED
    BY <1>1, <2>1, PutIsTable, Zenon
<1>3. seq \in Sequence
  BY SequenceMoves, Zenon DEF IsDatabase
<1> HIDE DEF t, seq
<1>4. IsDatabase([d EXCEPT !.stewards = t, !.seq = seq])
  BY <1>2, <1>3, ReplaceTable, Zenon
<1>5. QED
  BY <1>4, Zenon DEF InsertSteward, t, seq, row

\* SetRemovedBy maps databases to databases.
LEMMA SetRemovedByType ==
    ASSUME NEW d, IsDatabase(d), NEW id \in DOMAIN d.stewards, NEW by \in UPN
    PROVE  IsDatabase(SetRemovedBy(d, id, by))
<1> DEFINE row == [d.stewards[id] EXCEPT !.removed_by = by]
<1>1. d.stewards[id] \in Steward
  BY DEF IsDatabase, IsTable
<1>2. row \in Steward
  BY <1>1 DEF Steward
<1> HIDE DEF row
<1> DEFINE t == [d.stewards EXCEPT ![id] = row]
<1>3. IsTable(t, Steward)
  BY <1>2, UpdateIsTable DEF IsDatabase
<1> HIDE DEF t
<1>4. IsDatabase([d EXCEPT !.stewards = t])
  BY <1>3, ReplaceRows
<1>5. QED
  BY <1>4, Zenon DEF SetRemovedBy, t, row

\* InsertPendingSteward maps databases to databases.
LEMMA InsertPendingStewardType ==
    ASSUME NEW d, IsDatabase(d), NEW upn \in UPN, NEW by \in UPN
    PROVE  IsDatabase(InsertPendingSteward(d, upn, by))
<1> DEFINE row == [user_upn |-> upn, invited_by |-> by]
           t == Put(d.pending, NewId(d, "pending"), row)
           seq == [d.seq EXCEPT !.pending = @ + 1]
<1>1. row \in PendingSteward
  BY DEF PendingSteward
<1> HIDE DEF row
<1>2. IsTable(t, PendingSteward)
  <2>1. IsTable(d.pending, PendingSteward) /\ NewId(d, "pending") \in Nat \ {0}
    BY NewIdType, Zenon DEF IsDatabase
  <2>2. QED
    BY <1>1, <2>1, PutIsTable, Zenon
<1>3. seq \in Sequence
  BY SequenceMoves, Zenon DEF IsDatabase
<1> HIDE DEF t, seq
<1>4. IsDatabase([d EXCEPT !.pending = t, !.seq = seq])
  BY <1>2, <1>3, ReplaceTable, Zenon
<1>5. QED
  BY <1>4, Zenon DEF InsertPendingSteward, t, seq, row

\* DeletePendingSteward maps databases to databases.
LEMMA DeletePendingStewardType ==
    ASSUME NEW d, IsDatabase(d), NEW id
    PROVE  IsDatabase(DeletePendingSteward(d, id))
BY WithoutIsTable DEF IsDatabase, DeletePendingSteward
-------------------------------------------------------------------------------
(* Types: every action of core keeps the database well typed. *)

\* Trimmed texts are texts of the same kind.
LEMMA TextTypes ==
    /\ \A a \in Actor : a.oid \in OID /\ a.upn \in UPN
    /\ \A n \in Name : Trim[n] \in Name
    /\ \A u \in UPN : Trim[u] \in UPN
    /\ \A f \in ForeignId : Trim[f] \in ForeignId
BY ActorAssumption, TextAssumption

\* What CreatePerson commits is a database.
LEMMA CreatePersonType ==
    ASSUME NEW a \in Actor, NEW name \in Name,
           TypeOK, CreatePerson(a, name)
    PROVE  TypeOK'
<1> DEFINE details == [name |-> Trim[name]]
<1>1. IsDatabase(InsertPerson(db, Trim[name], a.upn))
  BY TextTypes, InsertPersonType DEF TypeOK
<1>2. details \in Details
  BY TextTypes DEF Details, TypeOK, IsDatabase, IsTable
<1>3. NewId(db, "persons") \in Nat
  BY NewIdType DEF TypeOK, IsDatabase, IsTable
<1> HIDE DEF details
<1>4. IsDatabase(WriteAudit(InsertPerson(db, Trim[name], a.upn),
                            a, "person.create", "person", NewId(db, "persons"), details))
  BY <1>1, <1>2, <1>3, WriteAuditType DEF Action
<1>5. QED
  BY <1>4 DEF TypeOK, CreatePerson, CreatePersonTx, details

\* What RenamePerson commits is a database.
LEMMA RenamePersonType ==
    ASSUME NEW a \in Actor, NEW id \in DOMAIN db.persons, NEW name \in Name,
           TypeOK, RenamePerson(a, id, name)
    PROVE  TypeOK'
<1> DEFINE details == [from |-> db.persons[id].name, to |-> Trim[name]]
<1>1. IsDatabase(UpdatePersonName(db, id, Trim[name], a.upn))
  BY TextTypes, UpdatePersonNameType DEF TypeOK
<1>2. details \in Details
  BY TextTypes DEF Details, TypeOK, IsDatabase, IsTable, Person
<1>3. id \in Nat
  BY DEF TypeOK, IsDatabase, IsTable
<1> HIDE DEF details
<1>4. IsDatabase(WriteAudit(UpdatePersonName(db, id, Trim[name], a.upn),
                            a, "person.rename", "person", id, details))
  BY <1>1, <1>2, <1>3, WriteAuditType DEF Action
<1>5. QED
  BY <1>4 DEF TypeOK, RenamePerson, RenamePersonTx, details

\* What CreateSystem commits is a database.
LEMMA CreateSystemType ==
    ASSUME NEW a \in Actor, NEW name \in Name,
           TypeOK, CreateSystem(a, name)
    PROVE  TypeOK'
<1> DEFINE details == [name |-> Trim[name]]
<1>1. IsDatabase(InsertSystem(db, Trim[name], a.upn))
  BY TextTypes, InsertSystemType DEF TypeOK
<1>2. details \in Details
  BY TextTypes DEF Details, TypeOK, IsDatabase, IsTable
<1>3. NewId(db, "systems") \in Nat
  BY NewIdType DEF TypeOK, IsDatabase, IsTable
<1> HIDE DEF details
<1>4. IsDatabase(WriteAudit(InsertSystem(db, Trim[name], a.upn),
                            a, "system.create", "system", NewId(db, "systems"), details))
  BY <1>1, <1>2, <1>3, WriteAuditType DEF Action
<1>5. QED
  BY <1>4 DEF TypeOK, CreateSystem, CreateSystemTx, details

\* What RenameSystem commits is a database.
LEMMA RenameSystemType ==
    ASSUME NEW a \in Actor, NEW id \in DOMAIN db.systems, NEW name \in Name,
           TypeOK, RenameSystem(a, id, name)
    PROVE  TypeOK'
<1> DEFINE details == [from |-> db.systems[id].name, to |-> Trim[name]]
<1>1. IsDatabase(UpdateSystemName(db, id, Trim[name], a.upn))
  BY TextTypes, UpdateSystemNameType DEF TypeOK
<1>2. details \in Details
  BY TextTypes DEF Details, TypeOK, IsDatabase, IsTable, System
<1>3. id \in Nat
  BY DEF TypeOK, IsDatabase, IsTable
<1> HIDE DEF details
<1>4. IsDatabase(WriteAudit(UpdateSystemName(db, id, Trim[name], a.upn),
                            a, "system.rename", "system", id, details))
  BY <1>1, <1>2, <1>3, WriteAuditType DEF Action
<1>5. QED
  BY <1>4 DEF TypeOK, RenameSystem, RenameSystemTx, details

\* What DisableSystem commits is a database.
LEMMA DisableSystemType ==
    ASSUME NEW a \in Actor, NEW id \in DOMAIN db.systems,
           TypeOK, DisableSystem(a, id)
    PROVE  TypeOK'
<1> DEFINE details == [name |-> db.systems[id].name]
<1>1. IsDatabase(SetDisabledBy(db, id, a.upn))
  BY TextTypes, SetDisabledByType DEF TypeOK
<1>2. details \in Details
  BY TextTypes DEF Details, TypeOK, IsDatabase, IsTable, System
<1>3. id \in Nat
  BY DEF TypeOK, IsDatabase, IsTable
<1> HIDE DEF details
<1>4. IsDatabase(WriteAudit(SetDisabledBy(db, id, a.upn),
                            a, "system.disable", "system", id, details))
  BY <1>1, <1>2, <1>3, WriteAuditType DEF Action
<1>5. QED
  BY <1>4 DEF TypeOK, DisableSystem, DisableSystemTx, details

\* What EnableSystem commits is a database.
LEMMA EnableSystemType ==
    ASSUME NEW a \in Actor, NEW id \in DOMAIN db.systems,
           TypeOK, EnableSystem(a, id)
    PROVE  TypeOK'
<1> DEFINE details == [name |-> db.systems[id].name]
<1>1. IsDatabase(SetDisabledBy(db, id, Null))
  BY TextTypes, SetDisabledByType DEF TypeOK
<1>2. details \in Details
  BY TextTypes DEF Details, TypeOK, IsDatabase, IsTable, System
<1>3. id \in Nat
  BY DEF TypeOK, IsDatabase, IsTable
<1> HIDE DEF details
<1>4. IsDatabase(WriteAudit(SetDisabledBy(db, id, Null),
                            a, "system.enable", "system", id, details))
  BY <1>1, <1>2, <1>3, WriteAuditType DEF Action
<1>5. QED
  BY <1>4 DEF TypeOK, EnableSystem, EnableSystemTx, details

\* What CreateAssociation commits is a database.
LEMMA CreateAssociationType ==
    ASSUME NEW a \in Actor, NEW person \in DOMAIN db.persons, NEW system \in DOMAIN db.systems,
           NEW foreign \in ForeignId,
           TypeOK, CreateAssociation(a, person, system, foreign)
    PROVE  TypeOK'
<1> DEFINE details == LinkDetails(db, NewId(db, "associations"), system, Trim[foreign])
<1>1. IsDatabase(InsertAssociation(db, person, system, Trim[foreign], a.upn))
  BY TextTypes, InsertAssociationType DEF TypeOK, IsDatabase, IsTable
<1>2. details \in Details
  BY TextTypes, NewIdType DEF Details, TypeOK, IsDatabase, IsTable, System, LinkDetails
<1>3. person \in Nat
  BY NewIdType DEF TypeOK, IsDatabase, IsTable
<1> HIDE DEF details
<1>4. IsDatabase(WriteAudit(InsertAssociation(db, person, system, Trim[foreign], a.upn),
                            a, "association.create", "person", person, details))
  BY <1>1, <1>2, <1>3, WriteAuditType DEF Action
<1>5. QED
  BY <1>4 DEF TypeOK, CreateAssociation, CreateAssociationTx, details

\* What PromoteSteward commits is a database.
LEMMA PromoteStewardType ==
    ASSUME NEW a \in Actor, NEW upn \in UPN,
           TypeOK, PromoteSteward(a, upn)
    PROVE  TypeOK'
<1> DEFINE details == [upn |-> Trim[upn]]
<1>1. IsDatabase(InsertPendingSteward(db, Trim[upn], a.upn))
  BY TextTypes, InsertPendingStewardType DEF TypeOK
<1>2. details \in Details
  BY TextTypes DEF Details, TypeOK, IsDatabase, IsTable
<1>3. 0 \in Nat
  BY DEF TypeOK, IsDatabase, IsTable
<1> HIDE DEF details
<1>4. IsDatabase(WriteAudit(InsertPendingSteward(db, Trim[upn], a.upn),
                            a, "steward.invite", "steward", 0, details))
  BY <1>1, <1>2, <1>3, WriteAuditType DEF Action
<1>5. QED
  BY <1>4 DEF TypeOK, PromoteSteward, PromoteStewardTx, details

\* What DemoteSteward commits is a database.
LEMMA DemoteStewardType ==
    ASSUME NEW a \in Actor, NEW id \in DOMAIN db.stewards,
           TypeOK, DemoteSteward(a, id)
    PROVE  TypeOK'
<1> DEFINE details == [oid |-> db.stewards[id].user_oid, upn |-> db.stewards[id].user_upn]
<1>1. IsDatabase(SetRemovedBy(db, id, a.upn))
  BY TextTypes, SetRemovedByType DEF TypeOK
<1>2. details \in Details
  BY TextTypes DEF Details, TypeOK, IsDatabase, IsTable, Steward
<1>3. id \in Nat
  BY DEF TypeOK, IsDatabase, IsTable
<1> HIDE DEF details
<1>4. IsDatabase(WriteAudit(SetRemovedBy(db, id, a.upn),
                            a, "steward.demote", "steward", id, details))
  BY <1>1, <1>2, <1>3, WriteAuditType DEF Action
<1>5. QED
  BY <1>4 DEF TypeOK, DemoteSteward, DemoteStewardTx, details

\* What CancelStewardInvite commits is a database.
LEMMA CancelStewardInviteType ==
    ASSUME NEW a \in Actor, NEW id \in DOMAIN db.pending,
           TypeOK, CancelStewardInvite(a, id)
    PROVE  TypeOK'
<1> DEFINE details == [upn |-> db.pending[id].user_upn]
<1>1. IsDatabase(DeletePendingSteward(db, id))
  BY TextTypes, DeletePendingStewardType DEF TypeOK
<1>2. details \in Details
  BY TextTypes DEF Details, TypeOK, IsDatabase, IsTable, PendingSteward
<1>3. 0 \in Nat
  BY DEF TypeOK, IsDatabase, IsTable
<1> HIDE DEF details
<1>4. IsDatabase(WriteAudit(DeletePendingSteward(db, id),
                            a, "steward.uninvite", "steward", 0, details))
  BY <1>1, <1>2, <1>3, WriteAuditType DEF Action
<1>5. QED
  BY <1>4 DEF TypeOK, CancelStewardInvite, CancelStewardInviteTx, details

\* The audit row of a removal names the system the link points to, so this one
\* needs the foreign keys.
LEMMA RemoveAssociationType ==
    ASSUME NEW a \in Actor, NEW person \in DOMAIN db.persons, NEW id \in DOMAIN db.associations,
           TypeOK, ForeignKeysHold(db), RemoveAssociation(a, person, id)
    PROVE  TypeOK'
<1> DEFINE link == db.associations[id]
           details == LinkDetails(db, id, link.system_id, link.foreign_id)
<1>1. IsDatabase(DeleteAssociation(db, id))
  BY DeleteAssociationType DEF TypeOK
<1>2. details \in Details
  <2>1. link \in Association /\ link.system_id \in DOMAIN db.systems /\ id \in Nat
    BY DEF TypeOK, IsDatabase, IsTable, ForeignKeysHold
  <2>2. db.systems[link.system_id].name \in Name
    BY <2>1 DEF TypeOK, IsDatabase, IsTable, System
  <2> HIDE DEF link
  <2>3. QED
    BY <2>1, <2>2 DEF Details, LinkDetails, Association
<1>3. person \in Nat
  BY DEF TypeOK, IsDatabase, IsTable
<1> HIDE DEF details
<1>4. IsDatabase(WriteAudit(DeleteAssociation(db, id),
                            a, "association.remove", "person", person, details))
  BY <1>1, <1>2, <1>3, WriteAuditType DEF Action
<1>5. QED
  BY <1>4 DEF TypeOK, RemoveAssociation, RemoveAssociationTx, details

\* What Bootstrap commits is a database.
LEMMA BootstrapType ==
    ASSUME NEW a \in Actor, NEW tid \in TID, TypeOK, Bootstrap(a, tid)
    PROVE  TypeOK'
<1> DEFINE details == [tenant_id |-> tid, first_steward_id |-> NewId(db, "stewards"),
                       oid |-> a.oid, upn |-> a.upn]
           bound == InsertSteward(BindTenant(db, tid), a.oid, a.upn, "bootstrap")
<1>1. IsDatabase(bound)
  BY TextTypes, BindTenantType, InsertStewardType DEF TypeOK
<1>2. details \in Details
  BY TextTypes, NewIdType DEF Details, TypeOK
<1> HIDE DEF details, bound
<1>3. IsDatabase(WriteAudit(bound, a, "tenant.bootstrap", "tenant", 0, details))
  BY <1>1, <1>2, WriteAuditType DEF Action
<1>4. QED
  BY <1>3 DEF TypeOK, Bootstrap, BootstrapTx, details, bound

\* If some invitation matches, the one GetPendingStewardByUPN returns does.
LEMMA PendingByUPNChoice ==
    ASSUME NEW d, NEW upn, PendingByUPN(d, upn) # {}
    PROVE  /\ GetPendingStewardByUPN(d, upn) \in DOMAIN d.pending
           /\ SameUPN(d.pending[GetPendingStewardByUPN(d, upn)].user_upn, upn)
BY DEF PendingByUPN, GetPendingStewardByUPN

\* What ClaimPendingSteward commits is a database.
LEMMA ClaimPendingStewardType ==
    ASSUME NEW a \in Actor, TypeOK, ClaimPendingSteward(a)
    PROVE  TypeOK'
<1> DEFINE id == GetPendingStewardByUPN(db, a.upn)
           inviter == db.pending[id].invited_by
           steward == NewId(db, "stewards")
           details == [oid |-> a.oid, upn |-> a.upn, invited_by |-> inviter]
           claimed == DeletePendingSteward(InsertSteward(db, a.oid, a.upn, inviter), id)
<1>1. IsDatabase(DeletePendingSteward(db, id))
  BY DeletePendingStewardType DEF TypeOK
<1>2. PendingByUPN(db, a.upn) # {}
  BY DEF ClaimPendingSteward, ClaimPendingStewardOutcome, Written, Unchanged
<1>3. inviter \in UPN
  BY <1>2, PendingByUPNChoice DEF TypeOK, IsDatabase, IsTable, PendingSteward
<1>4. IsDatabase(claimed)
  BY <1>3, TextTypes, InsertStewardType, DeletePendingStewardType DEF TypeOK
<1>5. details \in Details
  BY <1>3, TextTypes DEF Details
<1>6. steward \in Nat
  BY NewIdType DEF TypeOK
<1>7. IsDatabase(WriteAudit(claimed, a, "steward.promote", "steward", steward, details))
  <2> HIDE DEF details, claimed, steward
  <2>1. QED
    BY <1>4, <1>5, <1>6, WriteAuditType DEF Action
<1>8. QED
  BY <1>1, <1>7 DEF TypeOK, ClaimPendingSteward, ClaimPendingStewardTx
-------------------------------------------------------------------------------
(* Effects: what each action does to each field of the database. *)

KeepsTables(tables) == \A t \in tables : db'[t] = db[t]
Logs(row) == db'.audit = Append(db.audit, row)
Renamed(t, id, name, by) == [t EXCEPT ![id] = [t[id] EXCEPT !.name = name, !.updated_by = by]]

\* The row that is renamed has the name.
LEMMA RenamedRow ==
    ASSUME NEW t, NEW id \in DOMAIN t, NEW name, NEW by, t[id] \in Person \cup System
    PROVE  id \in DOMAIN Renamed(t, id, name, by) /\ Renamed(t, id, name, by)[id].name = name
<1> DEFINE row == [t[id] EXCEPT !.name = name, !.updated_by = by]
<1>1. row.name = name
  <2>1. DOMAIN t[id] = DOMAIN row /\ "name" \in DOMAIN t[id]
    BY DEF Person, System
  <2>2. QED
    BY <2>1
<1> HIDE DEF row
<1>2. DOMAIN Renamed(t, id, name, by) = DOMAIN t /\ Renamed(t, id, name, by)[id] = row
  BY DEF Renamed, row
<1>3. QED
  BY <1>1, <1>2

\* What CreatePerson changes: its rows, its table's sequence and one audit row, and nothing else.
LEMMA CreatePersonEffect ==
    ASSUME NEW a \in Actor, NEW name \in Name,
           TypeOK, CreatePerson(a, name)
    PROVE  /\ KeepsTables({"tenant", "systems", "associations", "stewards", "pending"})
           /\ db'.seq = [db.seq EXCEPT !.persons = @ + 1]
           /\ db'.persons = Put(db.persons, NewId(db, "persons"),
                              [name |-> Trim[name], created_by |-> a.upn, updated_by |-> a.upn])
           /\ Logs(AuditEntry(a, "person.create", "person", NewId(db, "persons"), [name |-> Trim[name]]))
BY DEF TypeOK, IsDatabase, Sequence, NewId, KeepsTables, Logs, WriteAudit, InsertAudit,
       CreatePerson, CreatePersonTx, InsertPerson

\* What RenamePerson changes: its rows, its table's sequence and one audit row, and nothing else.
LEMMA RenamePersonEffect ==
    ASSUME NEW a \in Actor, NEW id \in DOMAIN db.persons, NEW name \in Name,
           TypeOK, RenamePerson(a, id, name)
    PROVE  /\ KeepsTables({"tenant", "systems", "associations", "stewards", "pending"})
           /\ db'.seq = db.seq
           /\ db'.persons = Renamed(db.persons, id, Trim[name], a.upn)
           /\ Logs(AuditEntry(a, "person.rename", "person", id,
                           [from |-> db.persons[id].name, to |-> Trim[name]]))
BY DEF TypeOK, IsDatabase, Sequence, NewId, KeepsTables, Logs, WriteAudit, InsertAudit,
       RenamePerson, RenamePersonTx, UpdatePersonName, Renamed

\* What CreateSystem changes: its rows, its table's sequence and one audit row, and nothing else.
LEMMA CreateSystemEffect ==
    ASSUME NEW a \in Actor, NEW name \in Name,
           TypeOK, CreateSystem(a, name)
    PROVE  /\ KeepsTables({"tenant", "persons", "associations", "stewards", "pending"})
           /\ db'.seq = [db.seq EXCEPT !.systems = @ + 1]
           /\ db'.systems = Put(db.systems, NewId(db, "systems"),
                              [name |-> Trim[name], created_by |-> a.upn, updated_by |-> a.upn,
                               disabled_by |-> Null])
           /\ Logs(AuditEntry(a, "system.create", "system", NewId(db, "systems"), [name |-> Trim[name]]))
BY DEF TypeOK, IsDatabase, Sequence, NewId, KeepsTables, Logs, WriteAudit, InsertAudit,
       CreateSystem, CreateSystemTx, InsertSystem

\* What RenameSystem changes: its rows, its table's sequence and one audit row, and nothing else.
LEMMA RenameSystemEffect ==
    ASSUME NEW a \in Actor, NEW id \in DOMAIN db.systems, NEW name \in Name,
           TypeOK, RenameSystem(a, id, name)
    PROVE  /\ KeepsTables({"tenant", "persons", "associations", "stewards", "pending"})
           /\ db'.seq = db.seq
           /\ db'.systems = Renamed(db.systems, id, Trim[name], a.upn)
           /\ Logs(AuditEntry(a, "system.rename", "system", id,
                           [from |-> db.systems[id].name, to |-> Trim[name]]))
BY DEF TypeOK, IsDatabase, Sequence, NewId, KeepsTables, Logs, WriteAudit, InsertAudit,
       RenameSystem, RenameSystemTx, UpdateSystemName, Renamed

\* What DisableSystem changes: its rows, its table's sequence and one audit row, and nothing else.
LEMMA DisableSystemEffect ==
    ASSUME NEW a \in Actor, NEW id \in DOMAIN db.systems,
           TypeOK, DisableSystem(a, id)
    PROVE  /\ KeepsTables({"tenant", "persons", "associations", "stewards", "pending"})
           /\ db'.seq = db.seq
           /\ db'.systems = [db.systems EXCEPT ![id].disabled_by = a.upn]
           /\ Logs(AuditEntry(a, "system.disable", "system", id, [name |-> db.systems[id].name]))
BY DEF TypeOK, IsDatabase, Sequence, NewId, KeepsTables, Logs, WriteAudit, InsertAudit,
       DisableSystem, DisableSystemTx, SetDisabledBy

\* What EnableSystem changes: its rows, its table's sequence and one audit row, and nothing else.
LEMMA EnableSystemEffect ==
    ASSUME NEW a \in Actor, NEW id \in DOMAIN db.systems,
           TypeOK, EnableSystem(a, id)
    PROVE  /\ KeepsTables({"tenant", "persons", "associations", "stewards", "pending"})
           /\ db'.seq = db.seq
           /\ db'.systems = [db.systems EXCEPT ![id].disabled_by = Null]
           /\ Logs(AuditEntry(a, "system.enable", "system", id, [name |-> db.systems[id].name]))
BY DEF TypeOK, IsDatabase, Sequence, NewId, KeepsTables, Logs, WriteAudit, InsertAudit,
       EnableSystem, EnableSystemTx, SetDisabledBy

\* What CreateAssociation changes: its rows, its table's sequence and one audit row, and nothing else.
LEMMA CreateAssociationEffect ==
    ASSUME NEW a \in Actor, NEW person \in DOMAIN db.persons, NEW system \in DOMAIN db.systems,
           NEW foreign \in ForeignId,
           TypeOK, CreateAssociation(a, person, system, foreign)
    PROVE  /\ KeepsTables({"tenant", "persons", "systems", "stewards", "pending"})
           /\ db'.seq = [db.seq EXCEPT !.associations = @ + 1]
           /\ db'.associations = Put(db.associations, NewId(db, "associations"),
                                   [person_id |-> person, system_id |-> system,
                                    foreign_id |-> Trim[foreign], created_by |-> a.upn])
           /\ Logs(AuditEntry(a, "association.create", "person", person,
                           LinkDetails(db, NewId(db, "associations"), system, Trim[foreign])))
BY DEF TypeOK, IsDatabase, Sequence, NewId, KeepsTables, Logs, WriteAudit, InsertAudit,
       CreateAssociation, CreateAssociationTx, InsertAssociation

\* What RemoveAssociation changes: its rows, its table's sequence and one audit row, and nothing else.
LEMMA RemoveAssociationEffect ==
    ASSUME NEW a \in Actor, NEW person \in DOMAIN db.persons, NEW id \in DOMAIN db.associations,
           TypeOK, RemoveAssociation(a, person, id)
    PROVE  /\ KeepsTables({"tenant", "persons", "systems", "stewards", "pending"})
           /\ db'.seq = db.seq
           /\ db'.associations = Without(db.associations, id)
           /\ db.associations[id].person_id = person
           /\ Logs(AuditEntry(a, "association.remove", "person", person,
                           LinkDetails(db, id, db.associations[id].system_id,
                                       db.associations[id].foreign_id)))
BY DEF TypeOK, IsDatabase, Sequence, NewId, KeepsTables, Logs, WriteAudit, InsertAudit,
       RemoveAssociation, RemoveAssociationTx, DeleteAssociation,
       RemoveAssociationOutcome, Written

\* What Bootstrap changes: its rows, its table's sequence and one audit row, and nothing else.
LEMMA BootstrapEffect ==
    ASSUME NEW a \in Actor, NEW tid \in TID,
           TypeOK, Bootstrap(a, tid)
    PROVE  /\ KeepsTables({"persons", "systems", "associations", "pending"})
           /\ db'.seq = [db.seq EXCEPT !.stewards = @ + 1]
           /\ ~Bound /\ db'.tenant = tid
           /\ db'.stewards = Put(db.stewards, NewId(db, "stewards"),
                               [user_oid |-> a.oid, user_upn |-> a.upn,
                                promoted_by |-> "bootstrap", removed_by |-> Null])
           /\ Logs(AuditEntry(a, "tenant.bootstrap", "tenant", 0,
                           [tenant_id |-> tid, first_steward_id |-> NewId(db, "stewards"),
                            oid |-> a.oid, upn |-> a.upn]))
BY DEF TypeOK, IsDatabase, Sequence, NewId, KeepsTables, Logs, WriteAudit, InsertAudit,
       Bootstrap, BootstrapTx, InsertSteward, BindTenant,
       BootstrapOutcome, Written, Bound

\* What PromoteSteward changes: its rows, its table's sequence and one audit row, and nothing else.
LEMMA PromoteStewardEffect ==
    ASSUME NEW a \in Actor, NEW upn \in UPN,
           TypeOK, PromoteSteward(a, upn)
    PROVE  /\ KeepsTables({"tenant", "persons", "systems", "associations", "stewards"})
           /\ db'.seq = [db.seq EXCEPT !.pending = @ + 1]
           /\ ~IsActiveStewardByUPN(db, Trim[upn]) /\ PendingByUPN(db, Trim[upn]) = {}
           /\ db'.pending = Put(db.pending, NewId(db, "pending"),
                              [user_upn |-> Trim[upn], invited_by |-> a.upn])
           /\ Logs(AuditEntry(a, "steward.invite", "steward", 0, [upn |-> Trim[upn]]))
BY DEF TypeOK, IsDatabase, Sequence, NewId, KeepsTables, Logs, WriteAudit, InsertAudit,
       PromoteSteward, PromoteStewardTx, InsertPendingSteward,
       PromoteStewardOutcome, Written

\* What DemoteSteward changes: its rows, its table's sequence and one audit row, and nothing else.
LEMMA DemoteStewardEffect ==
    ASSUME NEW a \in Actor, NEW id \in DOMAIN db.stewards,
           TypeOK, DemoteSteward(a, id)
    PROVE  /\ KeepsTables({"tenant", "persons", "systems", "associations", "pending"})
           /\ db'.seq = db.seq
           /\ ~Removed(db.stewards[id]) /\ db.stewards[id].user_oid # a.oid
           /\ db'.stewards = [db.stewards EXCEPT ![id].removed_by = a.upn]
           /\ Logs(AuditEntry(a, "steward.demote", "steward", id,
                           [oid |-> db.stewards[id].user_oid,
                            upn |-> db.stewards[id].user_upn]))
BY DEF TypeOK, IsDatabase, Sequence, NewId, KeepsTables, Logs, WriteAudit, InsertAudit,
       DemoteSteward, DemoteStewardTx, SetRemovedBy,
       DemoteStewardOutcome, Written

\* What CancelStewardInvite changes: its rows, its table's sequence and one audit row, and nothing else.
LEMMA CancelStewardInviteEffect ==
    ASSUME NEW a \in Actor, NEW id \in DOMAIN db.pending,
           TypeOK, CancelStewardInvite(a, id)
    PROVE  /\ KeepsTables({"tenant", "persons", "systems", "associations", "stewards"})
           /\ db'.seq = db.seq
           /\ db'.pending = Without(db.pending, id)
           /\ Logs(AuditEntry(a, "steward.uninvite", "steward", 0, [upn |-> db.pending[id].user_upn]))
BY DEF TypeOK, IsDatabase, Sequence, NewId, KeepsTables, Logs, WriteAudit, InsertAudit,
       CancelStewardInvite, CancelStewardInviteTx, DeletePendingSteward

\* What ClaimPendingSteward changes: its rows, its table's sequence and one audit row, and nothing else.
LEMMA ClaimPendingStewardEffect ==
    ASSUME NEW a \in Actor, TypeOK, ClaimPendingSteward(a),
           NEW id, id = GetPendingStewardByUPN(db, a.upn)
    PROVE  /\ id \in DOMAIN db.pending /\ SameUPN(db.pending[id].user_upn, a.upn)
           /\ KeepsTables({"tenant", "persons", "systems", "associations"})
           /\ db'.pending = Without(db.pending, id)
           /\ IsActiveSteward(db, a.oid) =>
                /\ KeepsTables({"stewards", "audit"})
                /\ db'.seq = db.seq
           /\ ~IsActiveSteward(db, a.oid) =>
                /\ db'.seq = [db.seq EXCEPT !.stewards = @ + 1]
                /\ db'.stewards = Put(db.stewards, NewId(db, "stewards"),
                                     [user_oid |-> a.oid, user_upn |-> a.upn,
                                      promoted_by |-> db.pending[id].invited_by,
                                      removed_by |-> Null])
                /\ Logs(AuditEntry(a, "steward.promote", "steward", NewId(db, "stewards"),
                                   [oid |-> a.oid, upn |-> a.upn,
                                    invited_by |-> db.pending[id].invited_by]))
<1>1. PendingByUPN(db, a.upn) # {}
  BY DEF ClaimPendingSteward, ClaimPendingStewardOutcome, Written, Unchanged
<1>2. id \in DOMAIN db.pending /\ SameUPN(db.pending[id].user_upn, a.upn)
  BY <1>1, PendingByUPNChoice
<1>3. CASE IsActiveSteward(db, a.oid)
  <2>1. db' = DeletePendingSteward(db, id)
    BY <1>3 DEF ClaimPendingSteward, ClaimPendingStewardTx
  <2>2. QED
    BY <1>2, <1>3, <2>1
    DEF TypeOK, IsDatabase, KeepsTables, DeletePendingSteward
<1>4. CASE ~IsActiveSteward(db, a.oid)
  <2> DEFINE inviter == db.pending[id].invited_by
  <2>1. db' = WriteAudit(DeletePendingSteward(InsertSteward(db, a.oid, a.upn, inviter), id),
                         a, "steward.promote", "steward", NewId(db, "stewards"),
                         [oid |-> a.oid, upn |-> a.upn, invited_by |-> inviter])
    BY <1>4 DEF ClaimPendingSteward, ClaimPendingStewardTx
  <2> HIDE DEF inviter
  <2>2. /\ KeepsTables({"tenant", "persons", "systems", "associations"})
        /\ db'.pending = Without(db.pending, id)
        /\ db'.seq = [db.seq EXCEPT !.stewards = @ + 1]
        /\ db'.stewards = Put(db.stewards, NewId(db, "stewards"),
                             [user_oid |-> a.oid, user_upn |-> a.upn,
                              promoted_by |-> inviter, removed_by |-> Null])
        /\ Logs(AuditEntry(a, "steward.promote", "steward", NewId(db, "stewards"),
                           [oid |-> a.oid, upn |-> a.upn, invited_by |-> inviter]))
    BY <2>1 DEF TypeOK, IsDatabase, Sequence, NewId, KeepsTables, Logs, WriteAudit,
                InsertAudit, InsertSteward, DeletePendingSteward
  <2>3. QED
    BY <1>2, <1>4, <2>2 DEF inviter
<1>5. QED
  BY <1>3, <1>4
\* An accepted write names existing rows.
LEMMA WriteCases ==
    ASSUME TypeOK, ForeignKeysHold(db), NEW a \in Actor, Write(a)
    PROVE  /\ Bound
           /\ \/ \E name \in Name : CreatePerson(a, name)
              \/ \E id \in DOMAIN db.persons, name \in Name : RenamePerson(a, id, name)
              \/ \E name \in Name : CreateSystem(a, name)
              \/ \E id \in DOMAIN db.systems, name \in Name : RenameSystem(a, id, name)
              \/ \E id \in DOMAIN db.systems : DisableSystem(a, id)
              \/ \E id \in DOMAIN db.systems : EnableSystem(a, id)
              \/ \E person \in DOMAIN db.persons, system \in DOMAIN db.systems,
                   foreign \in ForeignId : CreateAssociation(a, person, system, foreign)
              \/ \E person \in DOMAIN db.persons, id \in DOMAIN db.associations :
                   RemoveAssociation(a, person, id)
              \/ \E upn \in UPN : PromoteSteward(a, upn)
              \/ \E id \in DOMAIN db.stewards : DemoteSteward(a, id)
              \/ \E id \in DOMAIN db.pending : CancelStewardInvite(a, id)
<1>1. ASSUME NEW id, NEW name, RenamePerson(a, id, name)
      PROVE  id \in DOMAIN db.persons
  BY <1>1 DEF RenamePerson, RenamePersonOutcome, Written
<1>2. ASSUME NEW id, NEW name, RenameSystem(a, id, name)
      PROVE  id \in DOMAIN db.systems
  BY <1>2 DEF RenameSystem, RenameSystemOutcome, Written
<1>3. ASSUME NEW id, DisableSystem(a, id)
      PROVE  id \in DOMAIN db.systems
  BY <1>3 DEF DisableSystem, DisableSystemOutcome, Written
<1>4. ASSUME NEW id, EnableSystem(a, id)
      PROVE  id \in DOMAIN db.systems
  BY <1>4 DEF EnableSystem, EnableSystemOutcome, Written
<1>5. ASSUME NEW person, NEW system, NEW foreign, CreateAssociation(a, person, system, foreign)
      PROVE  person \in DOMAIN db.persons /\ system \in DOMAIN db.systems
  BY <1>5 DEF CreateAssociation, CreateAssociationOutcome, Written
<1>6. ASSUME NEW person, NEW id, RemoveAssociation(a, person, id)
      PROVE  id \in DOMAIN db.associations /\ person \in DOMAIN db.persons
  BY <1>6 DEF RemoveAssociation, RemoveAssociationOutcome, Written, ForeignKeysHold
<1>7. ASSUME NEW id, DemoteSteward(a, id)
      PROVE  id \in DOMAIN db.stewards
  BY <1>7 DEF DemoteSteward, DemoteStewardOutcome, Written
<1>8. ASSUME NEW id, CancelStewardInvite(a, id)
      PROVE  id \in DOMAIN db.pending
  BY <1>8 DEF CancelStewardInvite, CancelStewardInviteOutcome, Written
<1>9. QED
  BY <1>1, <1>2, <1>3, <1>4, <1>5, <1>6, <1>7, <1>8
  DEF Write, WriteEntity, WriteSteward

-------------------------------------------------------------------------------
(* The inductive invariant and its preservation by every action. *)

IInv == /\ TypeOK
        /\ IdsIssuedInOrder
        /\ ForeignKeysHold(db)
        /\ ActiveOidIsUnique(db)
        /\ OneStandingPerUPN
        /\ BindingIsFirst
        /\ LogIsConsistent
        /\ LinksFollowLog

\* A demotion takes one row out of the active ones and changes no identity.
LEMMA DemotionActive ==
    ASSUME TypeOK, NEW a \in Actor, NEW id \in DOMAIN db.stewards, DemoteSteward(a, id)
    PROVE  /\ ActiveStewards(db)' = ActiveStewards(db) \ {id}
           /\ \A i \in DOMAIN db.stewards :
                 /\ db'.stewards[i].user_oid = db.stewards[i].user_oid
                 /\ db'.stewards[i].user_upn = db.stewards[i].user_upn
<1>1. a.upn # Null
  BY TextTypes, TextAssumption
<1>2. \A i \in DOMAIN db.stewards : db.stewards[i] \in Steward
  BY DEF TypeOK, IsDatabase, IsTable
<1>3. db'.stewards = [db.stewards EXCEPT ![id].removed_by = a.upn]
  BY DemoteStewardEffect
<1>4. /\ DOMAIN db'.stewards = DOMAIN db.stewards
      /\ db'.stewards[id].removed_by = a.upn
      /\ \A i \in DOMAIN db.stewards \ {id} : db'.stewards[i] = db.stewards[i]
      /\ db'.stewards[id].user_oid = db.stewards[id].user_oid
      /\ db'.stewards[id].user_upn = db.stewards[id].user_upn
  BY <1>2, <1>3 DEF Steward
<1>5. QED
  BY <1>1, <1>4 DEF ActiveStewards, Removed

\* A new steward row is active, and changes no other.
LEMMA InsertionActive ==
    ASSUME TypeOK, IdsIssuedInOrder, NEW row, row.removed_by = Null,
           db'.stewards = Put(db.stewards, NewId(db, "stewards"), row)
    PROVE  /\ NewId(db, "stewards") \notin DOMAIN db.stewards
           /\ ActiveStewards(db)' = ActiveStewards(db) \cup {NewId(db, "stewards")}
           /\ \A i \in DOMAIN db.stewards : db'.stewards[i] = db.stewards[i]
           /\ db'.stewards[NewId(db, "stewards")] = row
<1> DEFINE id == NewId(db, "stewards")
<1>1. id \notin DOMAIN db.stewards
  BY DEF IdsIssuedInOrder, TablesFollowSequence, NewId, TypeOK, IsDatabase, Sequence
<1> HIDE DEF id
<1>2. /\ DOMAIN db'.stewards = DOMAIN db.stewards \cup {id}
      /\ db'.stewards[id] = row
      /\ \A i \in DOMAIN db.stewards : db'.stewards[i] = db.stewards[i]
  BY <1>1 DEF Put, id
<1>3. QED
  BY <1>1, <1>2 DEF ActiveStewards, Removed, id

\* Appending one row keeps the rows there were, and puts the new one last.
LEMMA LogGrows ==
    ASSUME TypeOK, NEW row, Logs(row)
    PROVE  /\ Len(db.audit) \in Nat
           /\ DOMAIN db.audit = 1..Len(db.audit)
           /\ DOMAIN db'.audit = 1..(Len(db.audit) + 1)
           /\ \A n \in DOMAIN db.audit : db'.audit[n] = db.audit[n]
           /\ db'.audit[Len(db.audit) + 1] = row
BY DEF TypeOK, IsDatabase, Logs

\* Every step keeps the database well-formed (TypeOK).
LEMMA TypeStep ==
    ASSUME IInv, NEW a \in Actor, SignIn(a) \/ Write(a)
    PROVE  TypeOK'
<1> USE DEF IInv
<1>1. ASSUME NEW tid \in TID, Bootstrap(a, tid)
     PROVE  TypeOK'
  BY <1>1, BootstrapType
<1>2. ASSUME ClaimPendingSteward(a)
     PROVE  TypeOK'
  BY <1>2, ClaimPendingStewardType
<1>3. ASSUME NEW name \in Name, Bound, CreatePerson(a, name)
     PROVE  TypeOK'
  BY <1>3, CreatePersonType
<1>4. ASSUME NEW id \in DOMAIN db.persons, NEW name \in Name, Bound, RenamePerson(a, id, name)
     PROVE  TypeOK'
  BY <1>4, RenamePersonType
<1>5. ASSUME NEW name \in Name, Bound, CreateSystem(a, name)
     PROVE  TypeOK'
  BY <1>5, CreateSystemType
<1>6. ASSUME NEW id \in DOMAIN db.systems, NEW name \in Name, Bound, RenameSystem(a, id, name)
     PROVE  TypeOK'
  BY <1>6, RenameSystemType
<1>7. ASSUME NEW id \in DOMAIN db.systems, Bound, DisableSystem(a, id)
     PROVE  TypeOK'
  BY <1>7, DisableSystemType
<1>8. ASSUME NEW id \in DOMAIN db.systems, Bound, EnableSystem(a, id)
     PROVE  TypeOK'
  BY <1>8, EnableSystemType
<1>9. ASSUME NEW person \in DOMAIN db.persons, NEW system \in DOMAIN db.systems,
                NEW foreign \in ForeignId, Bound, CreateAssociation(a, person, system, foreign)
     PROVE  TypeOK'
  BY <1>9, CreateAssociationType
<1>10. ASSUME NEW person \in DOMAIN db.persons, NEW id \in DOMAIN db.associations, Bound, RemoveAssociation(a, person, id)
     PROVE  TypeOK'
  BY <1>10, RemoveAssociationType
<1>11. ASSUME NEW upn \in UPN, Bound, PromoteSteward(a, upn)
     PROVE  TypeOK'
  BY <1>11, PromoteStewardType
<1>12. ASSUME NEW id \in DOMAIN db.stewards, Bound, DemoteSteward(a, id)
     PROVE  TypeOK'
  BY <1>12, DemoteStewardType
<1>13. ASSUME NEW id \in DOMAIN db.pending, Bound, CancelStewardInvite(a, id)
     PROVE  TypeOK'
  BY <1>13, CancelStewardInviteType
<1>14. QED
  BY <1>1, <1>2, <1>3, <1>4, <1>5, <1>6, <1>7,
     <1>8, <1>9, <1>10, <1>11, <1>12, <1>13, WriteCases DEF SignIn

\* No step breaks a foreign key: associations are made between rows that exist,
\* and persons and systems are never deleted.
LEMMA ForeignKeysStep ==
    ASSUME IInv, NEW a \in Actor, SignIn(a) \/ Write(a)
    PROVE  ForeignKeysHold(db)'
<1> USE DEF IInv
<1>1. ASSUME NEW tid \in TID, Bootstrap(a, tid)
     PROVE  ForeignKeysHold(db)'
  BY <1>1, BootstrapEffect DEF KeepsTables, ForeignKeysHold
<1>2. ASSUME ClaimPendingSteward(a)
     PROVE  ForeignKeysHold(db)'
  BY <1>2, ClaimPendingStewardEffect DEF KeepsTables, ForeignKeysHold
<1>3. ASSUME NEW name \in Name, Bound, CreatePerson(a, name)
     PROVE  ForeignKeysHold(db)'
  BY <1>3, CreatePersonEffect DEF KeepsTables, ForeignKeysHold, Put
<1>4. ASSUME NEW id \in DOMAIN db.persons, NEW name \in Name, Bound, RenamePerson(a, id, name)
     PROVE  ForeignKeysHold(db)'
  BY <1>4, RenamePersonEffect DEF KeepsTables, Renamed, ForeignKeysHold
<1>5. ASSUME NEW name \in Name, Bound, CreateSystem(a, name)
     PROVE  ForeignKeysHold(db)'
  BY <1>5, CreateSystemEffect DEF KeepsTables, ForeignKeysHold, Put
<1>6. ASSUME NEW id \in DOMAIN db.systems, NEW name \in Name, Bound, RenameSystem(a, id, name)
     PROVE  ForeignKeysHold(db)'
  BY <1>6, RenameSystemEffect DEF KeepsTables, Renamed, ForeignKeysHold
<1>7. ASSUME NEW id \in DOMAIN db.systems, Bound, DisableSystem(a, id)
     PROVE  ForeignKeysHold(db)'
  BY <1>7, DisableSystemEffect DEF KeepsTables, ForeignKeysHold
<1>8. ASSUME NEW id \in DOMAIN db.systems, Bound, EnableSystem(a, id)
     PROVE  ForeignKeysHold(db)'
  BY <1>8, EnableSystemEffect DEF KeepsTables, ForeignKeysHold
<1>9. ASSUME NEW person \in DOMAIN db.persons, NEW system \in DOMAIN db.systems,
                NEW foreign \in ForeignId, Bound, CreateAssociation(a, person, system, foreign)
     PROVE  ForeignKeysHold(db)'
  <2>1. /\ db'.persons = db.persons /\ db'.systems = db.systems
        /\ \A i \in DOMAIN db'.associations :
              \/ i \in DOMAIN db.associations /\ db'.associations[i] = db.associations[i]
              \/ /\ db'.associations[i].person_id = person
                 /\ db'.associations[i].system_id = system
    <3>1. db'.associations = Put(db.associations, NewId(db, "associations"),
                                 [person_id |-> person, system_id |-> system,
                                  foreign_id |-> Trim[foreign], created_by |-> a.upn])
      BY <1>9, CreateAssociationEffect
    <3>2. QED
      BY <1>9, <3>1, CreateAssociationEffect DEF KeepsTables, Put
  <2>2. QED
    BY <2>1 DEF ForeignKeysHold
<1>10. ASSUME NEW person \in DOMAIN db.persons, NEW id \in DOMAIN db.associations, Bound, RemoveAssociation(a, person, id)
     PROVE  ForeignKeysHold(db)'
  <2>1. /\ db'.persons = db.persons /\ db'.systems = db.systems
        /\ \A i \in DOMAIN db'.associations :
              i \in DOMAIN db.associations /\ db'.associations[i] = db.associations[i]
    <3>1. db'.associations = Without(db.associations, id)
      BY <1>10, RemoveAssociationEffect
    <3>2. QED
      BY <1>10, <3>1, RemoveAssociationEffect DEF KeepsTables, Without
  <2>2. QED
    BY <2>1 DEF ForeignKeysHold
<1>11. ASSUME NEW upn \in UPN, Bound, PromoteSteward(a, upn)
     PROVE  ForeignKeysHold(db)'
  BY <1>11, PromoteStewardEffect DEF KeepsTables, ForeignKeysHold
<1>12. ASSUME NEW id \in DOMAIN db.stewards, Bound, DemoteSteward(a, id)
     PROVE  ForeignKeysHold(db)'
  BY <1>12, DemoteStewardEffect DEF KeepsTables, ForeignKeysHold
<1>13. ASSUME NEW id \in DOMAIN db.pending, Bound, CancelStewardInvite(a, id)
     PROVE  ForeignKeysHold(db)'
  BY <1>13, CancelStewardInviteEffect DEF KeepsTables, ForeignKeysHold
<1>14. QED
  BY <1>1, <1>2, <1>3, <1>4, <1>5, <1>6, <1>7,
     <1>8, <1>9, <1>10, <1>11, <1>12, <1>13, WriteCases DEF SignIn

\* No step makes a user a steward twice: bootstrap finds no steward, and the claim
\* looks for an active row of the same oid first.
LEMMA ActiveOidStep ==
    ASSUME IInv, NEW a \in Actor, SignIn(a) \/ Write(a)
    PROVE  ActiveOidIsUnique(db)'
<1> USE DEF IInv
<1>1. ASSUME NEW tid \in TID, Bootstrap(a, tid)
     PROVE  ActiveOidIsUnique(db)'
  <2>1. ~Bound /\ db'.stewards = Put(db.stewards, NewId(db, "stewards"),
                                     [user_oid |-> a.oid, user_upn |-> a.upn,
                                      promoted_by |-> "bootstrap", removed_by |-> Null])
    BY <1>1, BootstrapEffect
  <2>2. DOMAIN db.stewards = {}
    BY <2>1 DEF BindingIsFirst
  <2>3. DOMAIN db'.stewards = {NewId(db, "stewards")}
    BY <2>1, <2>2 DEF Put
  <2>4. QED
    BY <2>3 DEF ActiveOidIsUnique, ActiveStewards
<1>2. ASSUME ClaimPendingSteward(a)
     PROVE  ActiveOidIsUnique(db)'
  <2>1. CASE IsActiveSteward(db, a.oid)
    <3>1. db'.stewards = db.stewards
      BY <1>2, <2>1, ClaimPendingStewardEffect DEF KeepsTables
    <3>2. QED
      BY <3>1 DEF ActiveOidIsUnique, ActiveStewards
  <2>2. CASE ~IsActiveSteward(db, a.oid)
    <3> DEFINE new == NewId(db, "stewards")
    <3>1. /\ new \notin DOMAIN db.stewards
          /\ ActiveStewards(db)' = ActiveStewards(db) \cup {new}
          /\ \A i \in DOMAIN db.stewards : db'.stewards[i] = db.stewards[i]
          /\ db'.stewards[new].user_oid = a.oid
      <4> DEFINE row == [user_oid |-> a.oid, user_upn |-> a.upn,
                         promoted_by |-> db.pending[GetPendingStewardByUPN(db, a.upn)].invited_by,
                         removed_by |-> Null]
      <4>1. db'.stewards = Put(db.stewards, new, row)
        BY <1>2, <2>2, ClaimPendingStewardEffect
      <4>2. row.removed_by = Null /\ row.user_oid = a.oid
        OBVIOUS
      <4> HIDE DEF row
      <4>3. QED
        BY <4>1, <4>2, InsertionActive
    <3>2. \A i \in ActiveStewards(db) : /\ i \in DOMAIN db.stewards
                                       /\ db.stewards[i].user_oid # a.oid
      BY <2>2 DEF IsActiveSteward, ActiveStewards
    <3> HIDE DEF new
    <3>3. QED
      BY <3>1, <3>2 DEF ActiveOidIsUnique
  <2>3. QED
    BY <2>1, <2>2
<1>3. ASSUME NEW name \in Name, Bound, CreatePerson(a, name)
     PROVE  ActiveOidIsUnique(db)'
  BY <1>3, CreatePersonEffect DEF KeepsTables, ActiveOidIsUnique, ActiveStewards
<1>4. ASSUME NEW id \in DOMAIN db.persons, NEW name \in Name, Bound, RenamePerson(a, id, name)
     PROVE  ActiveOidIsUnique(db)'
  BY <1>4, RenamePersonEffect DEF KeepsTables, ActiveOidIsUnique, ActiveStewards
<1>5. ASSUME NEW name \in Name, Bound, CreateSystem(a, name)
     PROVE  ActiveOidIsUnique(db)'
  BY <1>5, CreateSystemEffect DEF KeepsTables, ActiveOidIsUnique, ActiveStewards
<1>6. ASSUME NEW id \in DOMAIN db.systems, NEW name \in Name, Bound, RenameSystem(a, id, name)
     PROVE  ActiveOidIsUnique(db)'
  BY <1>6, RenameSystemEffect DEF KeepsTables, ActiveOidIsUnique, ActiveStewards
<1>7. ASSUME NEW id \in DOMAIN db.systems, Bound, DisableSystem(a, id)
     PROVE  ActiveOidIsUnique(db)'
  BY <1>7, DisableSystemEffect DEF KeepsTables, ActiveOidIsUnique, ActiveStewards
<1>8. ASSUME NEW id \in DOMAIN db.systems, Bound, EnableSystem(a, id)
     PROVE  ActiveOidIsUnique(db)'
  BY <1>8, EnableSystemEffect DEF KeepsTables, ActiveOidIsUnique, ActiveStewards
<1>9. ASSUME NEW person \in DOMAIN db.persons, NEW system \in DOMAIN db.systems,
                NEW foreign \in ForeignId, Bound, CreateAssociation(a, person, system, foreign)
     PROVE  ActiveOidIsUnique(db)'
  BY <1>9, CreateAssociationEffect DEF KeepsTables, ActiveOidIsUnique, ActiveStewards
<1>10. ASSUME NEW person \in DOMAIN db.persons, NEW id \in DOMAIN db.associations, Bound, RemoveAssociation(a, person, id)
     PROVE  ActiveOidIsUnique(db)'
  BY <1>10, RemoveAssociationEffect DEF KeepsTables, ActiveOidIsUnique, ActiveStewards
<1>11. ASSUME NEW upn \in UPN, Bound, PromoteSteward(a, upn)
     PROVE  ActiveOidIsUnique(db)'
  BY <1>11, PromoteStewardEffect DEF KeepsTables, ActiveOidIsUnique, ActiveStewards
<1>12. ASSUME NEW id \in DOMAIN db.stewards, Bound, DemoteSteward(a, id)
     PROVE  ActiveOidIsUnique(db)'
  <2>1. ActiveStewards(db) \subseteq DOMAIN db.stewards
    BY DEF ActiveStewards
  <2>2. QED
    BY <1>12, <2>1, DemotionActive DEF ActiveOidIsUnique
<1>13. ASSUME NEW id \in DOMAIN db.pending, Bound, CancelStewardInvite(a, id)
     PROVE  ActiveOidIsUnique(db)'
  BY <1>13, CancelStewardInviteEffect DEF KeepsTables, ActiveOidIsUnique, ActiveStewards
<1>14. QED
  BY <1>1, <1>2, <1>3, <1>4, <1>5, <1>6, <1>7,
     <1>8, <1>9, <1>10, <1>11, <1>12, <1>13, WriteCases DEF SignIn

\* No step gives a UPN a second standing: an invitation is refused to a UPN that
\* has one, and a claim consumes the invitation it honours.
LEMMA OneStandingStep ==
    ASSUME IInv, NEW a \in Actor, SignIn(a) \/ Write(a)
    PROVE  OneStandingPerUPN'
<1> USE DEF IInv
<1>1. ASSUME NEW tid \in TID, Bootstrap(a, tid)
     PROVE  OneStandingPerUPN'
  <2> DEFINE new == NewId(db, "stewards")
  <2>1. /\ ActiveStewards(db) = {} /\ DOMAIN db.pending = {} /\ db'.pending = db.pending
    BY <1>1, BootstrapEffect DEF KeepsTables, BindingIsFirst, ActiveStewards
  <2>2. ActiveStewards(db)' = ActiveStewards(db) \cup {new}
    <3> DEFINE row == [user_oid |-> a.oid, user_upn |-> a.upn,
                       promoted_by |-> "bootstrap", removed_by |-> Null]
    <3>1. db'.stewards = Put(db.stewards, new, row)
      BY <1>1, BootstrapEffect
    <3>2. row.removed_by = Null
      OBVIOUS
    <3> HIDE DEF row
    <3>3. QED
      BY <3>1, <3>2, InsertionActive
  <2> HIDE DEF new
  <2>3. QED
    BY <2>1, <2>2 DEF OneStandingPerUPN
<1>2. ASSUME ClaimPendingSteward(a)
     PROVE  OneStandingPerUPN'
  <2> DEFINE id == GetPendingStewardByUPN(db, a.upn)
             new == NewId(db, "stewards")
  <2>1. /\ DOMAIN db'.pending = DOMAIN db.pending \ {id}
        /\ \A i \in DOMAIN db.pending \ {id} : db'.pending[i] = db.pending[i]
        /\ id \in DOMAIN db.pending /\ SameUPN(db.pending[id].user_upn, a.upn)
    BY <1>2, ClaimPendingStewardEffect DEF Without
  <2> HIDE DEF id
  <2>2. CASE IsActiveSteward(db, a.oid)
    <3>1. /\ ActiveStewards(db)' = ActiveStewards(db)
          /\ db'.stewards = db.stewards
      BY <1>2, <2>2, ClaimPendingStewardEffect DEF KeepsTables, ActiveStewards
    <3>2. QED
      BY <2>1, <3>1 DEF OneStandingPerUPN
  <2>3. CASE ~IsActiveSteward(db, a.oid)
    <3>1. /\ new \notin DOMAIN db.stewards
          /\ ActiveStewards(db)' = ActiveStewards(db) \cup {new}
          /\ \A i \in DOMAIN db.stewards : db'.stewards[i] = db.stewards[i]
          /\ db'.stewards[new].user_upn = a.upn
      <4> DEFINE row == [user_oid |-> a.oid, user_upn |-> a.upn,
                         promoted_by |-> db.pending[GetPendingStewardByUPN(db, a.upn)].invited_by,
                         removed_by |-> Null]
      <4>1. db'.stewards = Put(db.stewards, new, row)
        BY <1>2, <2>3, ClaimPendingStewardEffect
      <4>2. row.removed_by = Null /\ row.user_upn = a.upn
        OBVIOUS
      <4> HIDE DEF row
      <4>3. QED
        BY <4>1, <4>2, InsertionActive
    <3>2. ActiveStewards(db) \subseteq DOMAIN db.stewards
      BY DEF ActiveStewards
    <3> HIDE DEF new
    <3>3. QED
      BY <2>1, <3>1, <3>2 DEF OneStandingPerUPN, SameUPN
  <2>4. QED
    BY <2>2, <2>3
<1>3. ASSUME NEW name \in Name, Bound, CreatePerson(a, name)
     PROVE  OneStandingPerUPN'
  BY <1>3, CreatePersonEffect DEF KeepsTables, OneStandingPerUPN, ActiveStewards
<1>4. ASSUME NEW id \in DOMAIN db.persons, NEW name \in Name, Bound, RenamePerson(a, id, name)
     PROVE  OneStandingPerUPN'
  BY <1>4, RenamePersonEffect DEF KeepsTables, OneStandingPerUPN, ActiveStewards
<1>5. ASSUME NEW name \in Name, Bound, CreateSystem(a, name)
     PROVE  OneStandingPerUPN'
  BY <1>5, CreateSystemEffect DEF KeepsTables, OneStandingPerUPN, ActiveStewards
<1>6. ASSUME NEW id \in DOMAIN db.systems, NEW name \in Name, Bound, RenameSystem(a, id, name)
     PROVE  OneStandingPerUPN'
  BY <1>6, RenameSystemEffect DEF KeepsTables, OneStandingPerUPN, ActiveStewards
<1>7. ASSUME NEW id \in DOMAIN db.systems, Bound, DisableSystem(a, id)
     PROVE  OneStandingPerUPN'
  BY <1>7, DisableSystemEffect DEF KeepsTables, OneStandingPerUPN, ActiveStewards
<1>8. ASSUME NEW id \in DOMAIN db.systems, Bound, EnableSystem(a, id)
     PROVE  OneStandingPerUPN'
  BY <1>8, EnableSystemEffect DEF KeepsTables, OneStandingPerUPN, ActiveStewards
<1>9. ASSUME NEW person \in DOMAIN db.persons, NEW system \in DOMAIN db.systems,
                NEW foreign \in ForeignId, Bound, CreateAssociation(a, person, system, foreign)
     PROVE  OneStandingPerUPN'
  BY <1>9, CreateAssociationEffect DEF KeepsTables, OneStandingPerUPN, ActiveStewards
<1>10. ASSUME NEW person \in DOMAIN db.persons, NEW id \in DOMAIN db.associations, Bound, RemoveAssociation(a, person, id)
     PROVE  OneStandingPerUPN'
  BY <1>10, RemoveAssociationEffect DEF KeepsTables, OneStandingPerUPN, ActiveStewards
<1>11. ASSUME NEW upn \in UPN, Bound, PromoteSteward(a, upn)
     PROVE  OneStandingPerUPN'
  <2> DEFINE new == NewId(db, "pending")
  <2>1. /\ ActiveStewards(db)' = ActiveStewards(db)
        /\ db'.stewards = db.stewards
    BY <1>11, PromoteStewardEffect DEF KeepsTables, ActiveStewards
  <2>2. new \notin DOMAIN db.pending
    BY DEF IdsIssuedInOrder, TablesFollowSequence, NewId, TypeOK, IsDatabase, Sequence
  <2>3. /\ DOMAIN db'.pending = DOMAIN db.pending \cup {new}
        /\ \A i \in DOMAIN db.pending : db'.pending[i] = db.pending[i]
        /\ db'.pending[new].user_upn = Trim[upn]
    <3>1. db'.pending = Put(db.pending, new, [user_upn |-> Trim[upn], invited_by |-> a.upn])
      BY <1>11, PromoteStewardEffect
    <3> HIDE DEF new
    <3>2. QED
      BY <2>2, <3>1 DEF Put
  <2>4. /\ \A i \in ActiveStewards(db) : ~SameUPN(db.stewards[i].user_upn, Trim[upn])
        /\ \A i \in DOMAIN db.pending : ~SameUPN(db.pending[i].user_upn, Trim[upn])
    BY <1>11, PromoteStewardEffect DEF IsActiveStewardByUPN, PendingByUPN
  <2> HIDE DEF new
  <2>5. QED
    BY <2>1, <2>3, <2>4 DEF OneStandingPerUPN, SameUPN
<1>12. ASSUME NEW id \in DOMAIN db.stewards, Bound, DemoteSteward(a, id)
     PROVE  OneStandingPerUPN'
  <2>1. ActiveStewards(db) \subseteq DOMAIN db.stewards
    BY DEF ActiveStewards
  <2>2. db'.pending = db.pending
    BY <1>12, DemoteStewardEffect DEF KeepsTables
  <2>3. QED
    BY <1>12, <2>1, <2>2, DemotionActive DEF OneStandingPerUPN
<1>13. ASSUME NEW id \in DOMAIN db.pending, Bound, CancelStewardInvite(a, id)
     PROVE  OneStandingPerUPN'
  <2>1. /\ ActiveStewards(db)' = ActiveStewards(db)
        /\ db'.stewards = db.stewards
    BY <1>13, CancelStewardInviteEffect DEF KeepsTables, ActiveStewards
  <2>2. /\ DOMAIN db'.pending = DOMAIN db.pending \ {id}
        /\ \A i \in DOMAIN db.pending \ {id} : db'.pending[i] = db.pending[i]
    BY <1>13, CancelStewardInviteEffect DEF Without
  <2>3. QED
    BY <2>1, <2>2 DEF OneStandingPerUPN
<1>14. QED
  BY <1>1, <1>2, <1>3, <1>4, <1>5, <1>6, <1>7,
     <1>8, <1>9, <1>10, <1>11, <1>12, <1>13, WriteCases DEF SignIn

-------------------------------------------------------------------------------
(* What the invariants about ids and the log need to know of a step: it      *)
(* appends one row, whose id, if it creates something, the step has just      *)
(* issued; and it changes the associations and the binding as that row says.  *)

SeqLeq(s, t) == /\ s.persons <= t.persons /\ s.systems <= t.systems
                /\ s.stewards <= t.stewards /\ s.associations <= t.associations

\* Advancing one table's sequence takes no other sequence back.
LEMMA SequenceNext ==
    ASSUME NEW s \in Sequence
    PROVE  /\ SeqLeq(s, s)
           /\ SeqLeq(s, [s EXCEPT !.persons = @ + 1])
           /\ SeqLeq(s, [s EXCEPT !.systems = @ + 1])
           /\ SeqLeq(s, [s EXCEPT !.associations = @ + 1])
           /\ SeqLeq(s, [s EXCEPT !.stewards = @ + 1])
           /\ SeqLeq(s, [s EXCEPT !.pending = @ + 1])
BY DEF SeqLeq, Sequence

\* The id a row of persons gets is new, and follows the last one issued there.
LEMMA NextPersonId ==
    ASSUME TypeOK, db'.seq = [db.seq EXCEPT !.persons = @ + 1]
    PROVE  /\ db.seq.persons \in Nat
           /\ NewId(db, "persons") = db.seq.persons + 1
           /\ db'.seq.persons = db.seq.persons + 1
           /\ \A t \in {"systems", "associations", "stewards", "pending"} : db'.seq[t] = db.seq[t]
BY DEF TypeOK, IsDatabase, Sequence, NewId

\* The id a row of systems gets is new, and follows the last one issued there.
LEMMA NextSystemId ==
    ASSUME TypeOK, db'.seq = [db.seq EXCEPT !.systems = @ + 1]
    PROVE  /\ db.seq.systems \in Nat
           /\ NewId(db, "systems") = db.seq.systems + 1
           /\ db'.seq.systems = db.seq.systems + 1
           /\ \A t \in {"persons", "associations", "stewards", "pending"} : db'.seq[t] = db.seq[t]
BY DEF TypeOK, IsDatabase, Sequence, NewId

\* The id a row of associations gets is new, and follows the last one issued there.
LEMMA NextAssociationId ==
    ASSUME TypeOK, db'.seq = [db.seq EXCEPT !.associations = @ + 1]
    PROVE  /\ db.seq.associations \in Nat
           /\ NewId(db, "associations") = db.seq.associations + 1
           /\ db'.seq.associations = db.seq.associations + 1
           /\ \A t \in {"persons", "systems", "stewards", "pending"} : db'.seq[t] = db.seq[t]
BY DEF TypeOK, IsDatabase, Sequence, NewId

\* The id a row of stewards gets is new, and follows the last one issued there.
LEMMA NextStewardId ==
    ASSUME TypeOK, db'.seq = [db.seq EXCEPT !.stewards = @ + 1]
    PROVE  /\ db.seq.stewards \in Nat
           /\ NewId(db, "stewards") = db.seq.stewards + 1
           /\ db'.seq.stewards = db.seq.stewards + 1
           /\ \A t \in {"persons", "systems", "associations", "pending"} : db'.seq[t] = db.seq[t]
BY DEF TypeOK, IsDatabase, Sequence, NewId

\* The id an invitation gets is new, and follows the last one issued there.
LEMMA NextPendingId ==
    ASSUME TypeOK, db'.seq = [db.seq EXCEPT !.pending = @ + 1]
    PROVE  /\ db.seq.pending \in Nat
           /\ NewId(db, "pending") = db.seq.pending + 1
           /\ db'.seq.pending = db.seq.pending + 1
           /\ \A t \in {"persons", "systems", "associations", "stewards"} : db'.seq[t] = db.seq[t]
BY DEF TypeOK, IsDatabase, Sequence, NewId

\* The ids issued up to the next one are the ids so far and the next one.
LEMMA IntervalNext ==
    ASSUME NEW n \in Nat
    PROVE  1..(n + 1) = (1..n) \cup {n + 1}
OBVIOUS

LinkEffect(row) ==
    LET id == row.details.association_id
    IN /\ row.action = "association.create" =>
             /\ DOMAIN db'.associations = DOMAIN db.associations \cup {id}
             /\ \A i \in DOMAIN db.associations : db'.associations[i] = db.associations[i]
             /\ db'.associations[id].person_id = row.entity_id
       /\ row.action = "association.remove" =>
             /\ id \in DOMAIN db.associations
             /\ db.associations[id].person_id = row.entity_id
             /\ DOMAIN db'.associations = DOMAIN db.associations \ {id}
             /\ \A i \in DOMAIN db'.associations : db'.associations[i] = db.associations[i]
       /\ row.action \notin {"association.create", "association.remove"} =>
             db'.associations = db.associations

BindEffect(row) ==
    /\ row.action = "tenant.bootstrap" => ~Bound /\ db'.tenant = row.details.tenant_id
                                         /\ db'.tenant \in TID
    /\ row.action # "tenant.bootstrap" => Bound /\ db'.tenant = db.tenant

Appends(row) ==
    /\ Logs(row)
    /\ SeqLeq(db.seq, db'.seq)
    /\ Issued(db'.seq, row)
    /\ row.action \in Creations => ~Issued(db.seq, row)
    /\ LinkEffect(row)
    /\ BindEffect(row)

\* The exception: a sign-in that consumes a stale invitation.
OnlyConsumes ==
    /\ KeepsTables({"tenant", "persons", "systems", "associations", "stewards", "audit"})
    /\ db'.seq = db.seq
    /\ DOMAIN db'.pending \subseteq DOMAIN db.pending
    /\ Bound

\* Every step either consumes a stale invitation, leaving the log and the ids
\* alone, or appends exactly one row whose new id is the next of its table.
LEMMA AppendsStep ==
    ASSUME IInv, NEW a \in Actor, SignIn(a) \/ Write(a)
    PROVE  OnlyConsumes \/ \E row : Appends(row)
<1> USE DEF IInv
<1>1. ASSUME NEW tid \in TID, Bootstrap(a, tid)
     PROVE  OnlyConsumes \/ \E row : Appends(row)
  <2> DEFINE row == AuditEntry(a, "tenant.bootstrap", "tenant", 0,
                               [tenant_id |-> tid, first_steward_id |-> NewId(db, "stewards"),
                                oid |-> a.oid, upn |-> a.upn])
  <2>1. Logs(row)
    BY <1>1, BootstrapEffect
  <2>2. /\ row.action = "tenant.bootstrap"
        /\ row.details.tenant_id = tid
    BY DEF AuditEntry
  <2> HIDE DEF row
  <2>3. SeqLeq(db.seq, db'.seq)
    <3>1. db'.seq = [db.seq EXCEPT !.stewards = @ + 1]
      BY <1>1, BootstrapEffect
    <3>2. QED
      BY <3>1, SequenceNext DEF TypeOK, IsDatabase
  <2>4. /\ Issued(db'.seq, row)
        /\ row.action \in Creations => ~Issued(db.seq, row)
    BY <2>2 DEF Issued, Creations
  <2>5. LinkEffect(row) /\ BindEffect(row)
    BY <1>1, <2>2, BootstrapEffect DEF LinkEffect, BindEffect, KeepsTables
  <2>6. QED
    BY <2>1, <2>3, <2>4, <2>5 DEF Appends
<1>2. ASSUME ClaimPendingSteward(a)
     PROVE  OnlyConsumes \/ \E row : Appends(row)
  <2>1. CASE IsActiveSteward(db, a.oid)
    BY <1>2, <2>1, ClaimPendingStewardEffect DEF OnlyConsumes, KeepsTables, ClaimPendingSteward, Without
  <2>2. CASE ~IsActiveSteward(db, a.oid)
    <3> DEFINE row == AuditEntry(a, "steward.promote", "steward", NewId(db, "stewards"),
                               [oid |-> a.oid, upn |-> a.upn,
                                invited_by |-> db.pending[GetPendingStewardByUPN(db, a.upn)].invited_by])
    <3>1. /\ Logs(row)
          /\ db'.seq = [db.seq EXCEPT !.stewards = @ + 1]
          /\ KeepsTables({"tenant", "associations"})
      BY <1>2, <2>2, ClaimPendingStewardEffect DEF KeepsTables
    <3>2. /\ row.action = "steward.promote"
          /\ CreatedId(row) = NewId(db, "stewards")
      BY DEF AuditEntry, CreatedId
    <3> HIDE DEF row
    <3>3. /\ SeqLeq(db.seq, db'.seq)
          /\ Issued(db'.seq, row)
          /\ row.action \in Creations => ~Issued(db.seq, row)
      BY <3>1, <3>2 DEF SeqLeq, Issued, Creations, NewId, TypeOK, IsDatabase, Sequence
    <3>4. LinkEffect(row) /\ BindEffect(row)
      BY <1>2, <3>1, <3>2 DEF LinkEffect, BindEffect, KeepsTables, ClaimPendingSteward
    <3>5. QED
      BY <3>1, <3>3, <3>4 DEF Appends
  <2>3. QED
    BY <2>1, <2>2
<1>3. ASSUME NEW name \in Name, Bound, CreatePerson(a, name)
     PROVE  OnlyConsumes \/ \E row : Appends(row)
  <2> DEFINE row == AuditEntry(a, "person.create", "person", NewId(db, "persons"), [name |-> Trim[name]])
  <2>1. Logs(row)
    BY <1>3, CreatePersonEffect
  <2>2. /\ row.action = "person.create"
        /\ CreatedId(row) = NewId(db, "persons")
    BY DEF AuditEntry, CreatedId
  <2> HIDE DEF row
  <2>3. SeqLeq(db.seq, db'.seq)
    <3>1. db'.seq = [db.seq EXCEPT !.persons = @ + 1]
      BY <1>3, CreatePersonEffect
    <3>2. QED
      BY <3>1, SequenceNext DEF TypeOK, IsDatabase
  <2>4. /\ Issued(db'.seq, row)
        /\ row.action \in Creations => ~Issued(db.seq, row)
    <3>1. db'.seq = [db.seq EXCEPT !.persons = @ + 1]
      BY <1>3, CreatePersonEffect
    <3>2. /\ db.seq.persons \in Nat
          /\ CreatedId(row) = db.seq.persons + 1
          /\ db'.seq.persons = db.seq.persons + 1
      BY <2>2, <3>1, NextPersonId
    <3>3. QED
      BY <2>2, <3>2 DEF Issued, Creations
  <2>5. LinkEffect(row) /\ BindEffect(row)
    BY <1>3, <2>2, CreatePersonEffect DEF LinkEffect, BindEffect, KeepsTables
  <2>6. QED
    BY <2>1, <2>3, <2>4, <2>5 DEF Appends
<1>4. ASSUME NEW id \in DOMAIN db.persons, NEW name \in Name, Bound, RenamePerson(a, id, name)
     PROVE  OnlyConsumes \/ \E row : Appends(row)
  <2> DEFINE row == AuditEntry(a, "person.rename", "person", id,
                               [from |-> db.persons[id].name, to |-> Trim[name]])
  <2>1. Logs(row)
    BY <1>4, RenamePersonEffect
  <2>2. row.action = "person.rename"
    BY DEF AuditEntry
  <2> HIDE DEF row
  <2>3. SeqLeq(db.seq, db'.seq)
    <3>1. db'.seq = db.seq
      BY <1>4, RenamePersonEffect
    <3>2. QED
      BY <3>1, SequenceNext DEF TypeOK, IsDatabase
  <2>4. /\ Issued(db'.seq, row)
        /\ row.action \in Creations => ~Issued(db.seq, row)
    BY <2>2 DEF Issued, Creations
  <2>5. LinkEffect(row) /\ BindEffect(row)
    BY <1>4, <2>2, RenamePersonEffect DEF LinkEffect, BindEffect, KeepsTables
  <2>6. QED
    BY <2>1, <2>3, <2>4, <2>5 DEF Appends
<1>5. ASSUME NEW name \in Name, Bound, CreateSystem(a, name)
     PROVE  OnlyConsumes \/ \E row : Appends(row)
  <2> DEFINE row == AuditEntry(a, "system.create", "system", NewId(db, "systems"), [name |-> Trim[name]])
  <2>1. Logs(row)
    BY <1>5, CreateSystemEffect
  <2>2. /\ row.action = "system.create"
        /\ CreatedId(row) = NewId(db, "systems")
    BY DEF AuditEntry, CreatedId
  <2> HIDE DEF row
  <2>3. SeqLeq(db.seq, db'.seq)
    <3>1. db'.seq = [db.seq EXCEPT !.systems = @ + 1]
      BY <1>5, CreateSystemEffect
    <3>2. QED
      BY <3>1, SequenceNext DEF TypeOK, IsDatabase
  <2>4. /\ Issued(db'.seq, row)
        /\ row.action \in Creations => ~Issued(db.seq, row)
    <3>1. db'.seq = [db.seq EXCEPT !.systems = @ + 1]
      BY <1>5, CreateSystemEffect
    <3>2. /\ db.seq.systems \in Nat
          /\ CreatedId(row) = db.seq.systems + 1
          /\ db'.seq.systems = db.seq.systems + 1
      BY <2>2, <3>1, NextSystemId
    <3>3. QED
      BY <2>2, <3>2 DEF Issued, Creations
  <2>5. LinkEffect(row) /\ BindEffect(row)
    BY <1>5, <2>2, CreateSystemEffect DEF LinkEffect, BindEffect, KeepsTables
  <2>6. QED
    BY <2>1, <2>3, <2>4, <2>5 DEF Appends
<1>6. ASSUME NEW id \in DOMAIN db.systems, NEW name \in Name, Bound, RenameSystem(a, id, name)
     PROVE  OnlyConsumes \/ \E row : Appends(row)
  <2> DEFINE row == AuditEntry(a, "system.rename", "system", id,
                               [from |-> db.systems[id].name, to |-> Trim[name]])
  <2>1. Logs(row)
    BY <1>6, RenameSystemEffect
  <2>2. row.action = "system.rename"
    BY DEF AuditEntry
  <2> HIDE DEF row
  <2>3. SeqLeq(db.seq, db'.seq)
    <3>1. db'.seq = db.seq
      BY <1>6, RenameSystemEffect
    <3>2. QED
      BY <3>1, SequenceNext DEF TypeOK, IsDatabase
  <2>4. /\ Issued(db'.seq, row)
        /\ row.action \in Creations => ~Issued(db.seq, row)
    BY <2>2 DEF Issued, Creations
  <2>5. LinkEffect(row) /\ BindEffect(row)
    BY <1>6, <2>2, RenameSystemEffect DEF LinkEffect, BindEffect, KeepsTables
  <2>6. QED
    BY <2>1, <2>3, <2>4, <2>5 DEF Appends
<1>7. ASSUME NEW id \in DOMAIN db.systems, Bound, DisableSystem(a, id)
     PROVE  OnlyConsumes \/ \E row : Appends(row)
  <2> DEFINE row == AuditEntry(a, "system.disable", "system", id, [name |-> db.systems[id].name])
  <2>1. Logs(row)
    BY <1>7, DisableSystemEffect
  <2>2. row.action = "system.disable"
    BY DEF AuditEntry
  <2> HIDE DEF row
  <2>3. SeqLeq(db.seq, db'.seq)
    <3>1. db'.seq = db.seq
      BY <1>7, DisableSystemEffect
    <3>2. QED
      BY <3>1, SequenceNext DEF TypeOK, IsDatabase
  <2>4. /\ Issued(db'.seq, row)
        /\ row.action \in Creations => ~Issued(db.seq, row)
    BY <2>2 DEF Issued, Creations
  <2>5. LinkEffect(row) /\ BindEffect(row)
    BY <1>7, <2>2, DisableSystemEffect DEF LinkEffect, BindEffect, KeepsTables
  <2>6. QED
    BY <2>1, <2>3, <2>4, <2>5 DEF Appends
<1>8. ASSUME NEW id \in DOMAIN db.systems, Bound, EnableSystem(a, id)
     PROVE  OnlyConsumes \/ \E row : Appends(row)
  <2> DEFINE row == AuditEntry(a, "system.enable", "system", id, [name |-> db.systems[id].name])
  <2>1. Logs(row)
    BY <1>8, EnableSystemEffect
  <2>2. row.action = "system.enable"
    BY DEF AuditEntry
  <2> HIDE DEF row
  <2>3. SeqLeq(db.seq, db'.seq)
    <3>1. db'.seq = db.seq
      BY <1>8, EnableSystemEffect
    <3>2. QED
      BY <3>1, SequenceNext DEF TypeOK, IsDatabase
  <2>4. /\ Issued(db'.seq, row)
        /\ row.action \in Creations => ~Issued(db.seq, row)
    BY <2>2 DEF Issued, Creations
  <2>5. LinkEffect(row) /\ BindEffect(row)
    BY <1>8, <2>2, EnableSystemEffect DEF LinkEffect, BindEffect, KeepsTables
  <2>6. QED
    BY <2>1, <2>3, <2>4, <2>5 DEF Appends
<1>9. ASSUME NEW person \in DOMAIN db.persons, NEW system \in DOMAIN db.systems,
                NEW foreign \in ForeignId, Bound, CreateAssociation(a, person, system, foreign)
     PROVE  OnlyConsumes \/ \E row : Appends(row)
  <2> DEFINE row == AuditEntry(a, "association.create", "person", person,
                               LinkDetails(db, NewId(db, "associations"), system, Trim[foreign]))
  <2>1. Logs(row)
    BY <1>9, CreateAssociationEffect
  <2>2. /\ row.action = "association.create"
        /\ CreatedId(row) = NewId(db, "associations")
        /\ row.entity_id = person
        /\ row.details.association_id = NewId(db, "associations")
    BY DEF AuditEntry, CreatedId, LinkDetails
  <2> HIDE DEF row
  <2>3. SeqLeq(db.seq, db'.seq)
    <3>1. db'.seq = [db.seq EXCEPT !.associations = @ + 1]
      BY <1>9, CreateAssociationEffect
    <3>2. QED
      BY <3>1, SequenceNext DEF TypeOK, IsDatabase
  <2>4. /\ Issued(db'.seq, row)
        /\ row.action \in Creations => ~Issued(db.seq, row)
    <3>1. db'.seq = [db.seq EXCEPT !.associations = @ + 1]
      BY <1>9, CreateAssociationEffect
    <3>2. /\ db.seq.associations \in Nat
          /\ CreatedId(row) = db.seq.associations + 1
          /\ db'.seq.associations = db.seq.associations + 1
      BY <2>2, <3>1, NextAssociationId
    <3>3. QED
      BY <2>2, <3>2 DEF Issued, Creations
  <2>5. NewId(db, "associations") \notin DOMAIN db.associations
    BY DEF IdsIssuedInOrder, TablesFollowSequence, NewId, TypeOK, IsDatabase, Sequence
  <2>6. db'.associations = Put(db.associations, NewId(db, "associations"),
                               [person_id |-> person, system_id |-> system,
                                foreign_id |-> Trim[foreign], created_by |-> a.upn])
    BY <1>9, CreateAssociationEffect
  <2>7. LinkEffect(row)
    BY <2>2, <2>5, <2>6 DEF LinkEffect, Put
  <2>8. BindEffect(row)
    BY <1>9, <2>2, CreateAssociationEffect DEF BindEffect, KeepsTables
  <2>9. QED
    BY <2>1, <2>3, <2>4, <2>7, <2>8 DEF Appends
<1>10. ASSUME NEW person \in DOMAIN db.persons, NEW id \in DOMAIN db.associations, Bound, RemoveAssociation(a, person, id)
     PROVE  OnlyConsumes \/ \E row : Appends(row)
  <2> DEFINE row == AuditEntry(a, "association.remove", "person", person,
                               LinkDetails(db, id, db.associations[id].system_id,
                                           db.associations[id].foreign_id))
  <2>1. Logs(row)
    BY <1>10, RemoveAssociationEffect
  <2>2. /\ row.action = "association.remove"
        /\ row.entity_id = person
        /\ row.details.association_id = id
    BY DEF AuditEntry, LinkDetails
  <2> HIDE DEF row
  <2>3. SeqLeq(db.seq, db'.seq)
    <3>1. db'.seq = db.seq
      BY <1>10, RemoveAssociationEffect
    <3>2. QED
      BY <3>1, SequenceNext DEF TypeOK, IsDatabase
  <2>4. /\ Issued(db'.seq, row)
        /\ row.action \in Creations => ~Issued(db.seq, row)
    BY <2>2 DEF Issued, Creations
  <2>5. db'.associations = Without(db.associations, id)
    BY <1>10, RemoveAssociationEffect
  <2>6. LinkEffect(row)
    BY <1>10, <2>2, <2>5, RemoveAssociationEffect DEF LinkEffect, Without
  <2>7. BindEffect(row)
    BY <1>10, <2>2, RemoveAssociationEffect DEF BindEffect, KeepsTables
  <2>8. QED
    BY <2>1, <2>3, <2>4, <2>6, <2>7 DEF Appends
<1>11. ASSUME NEW upn \in UPN, Bound, PromoteSteward(a, upn)
     PROVE  OnlyConsumes \/ \E row : Appends(row)
  <2> DEFINE row == AuditEntry(a, "steward.invite", "steward", 0, [upn |-> Trim[upn]])
  <2>1. Logs(row)
    BY <1>11, PromoteStewardEffect
  <2>2. row.action = "steward.invite"
    BY DEF AuditEntry
  <2> HIDE DEF row
  <2>3. SeqLeq(db.seq, db'.seq)
    <3>1. db'.seq = [db.seq EXCEPT !.pending = @ + 1]
      BY <1>11, PromoteStewardEffect
    <3>2. QED
      BY <3>1, SequenceNext DEF TypeOK, IsDatabase
  <2>4. /\ Issued(db'.seq, row)
        /\ row.action \in Creations => ~Issued(db.seq, row)
    BY <2>2 DEF Issued, Creations
  <2>5. LinkEffect(row) /\ BindEffect(row)
    BY <1>11, <2>2, PromoteStewardEffect DEF LinkEffect, BindEffect, KeepsTables
  <2>6. QED
    BY <2>1, <2>3, <2>4, <2>5 DEF Appends
<1>12. ASSUME NEW id \in DOMAIN db.stewards, Bound, DemoteSteward(a, id)
     PROVE  OnlyConsumes \/ \E row : Appends(row)
  <2> DEFINE row == AuditEntry(a, "steward.demote", "steward", id,
                               [oid |-> db.stewards[id].user_oid, upn |-> db.stewards[id].user_upn])
  <2>1. Logs(row)
    BY <1>12, DemoteStewardEffect
  <2>2. row.action = "steward.demote"
    BY DEF AuditEntry
  <2> HIDE DEF row
  <2>3. SeqLeq(db.seq, db'.seq)
    <3>1. db'.seq = db.seq
      BY <1>12, DemoteStewardEffect
    <3>2. QED
      BY <3>1, SequenceNext DEF TypeOK, IsDatabase
  <2>4. /\ Issued(db'.seq, row)
        /\ row.action \in Creations => ~Issued(db.seq, row)
    BY <2>2 DEF Issued, Creations
  <2>5. LinkEffect(row) /\ BindEffect(row)
    BY <1>12, <2>2, DemoteStewardEffect DEF LinkEffect, BindEffect, KeepsTables
  <2>6. QED
    BY <2>1, <2>3, <2>4, <2>5 DEF Appends
<1>13. ASSUME NEW id \in DOMAIN db.pending, Bound, CancelStewardInvite(a, id)
     PROVE  OnlyConsumes \/ \E row : Appends(row)
  <2> DEFINE row == AuditEntry(a, "steward.uninvite", "steward", 0, [upn |-> db.pending[id].user_upn])
  <2>1. Logs(row)
    BY <1>13, CancelStewardInviteEffect
  <2>2. row.action = "steward.uninvite"
    BY DEF AuditEntry
  <2> HIDE DEF row
  <2>3. SeqLeq(db.seq, db'.seq)
    <3>1. db'.seq = db.seq
      BY <1>13, CancelStewardInviteEffect
    <3>2. QED
      BY <3>1, SequenceNext DEF TypeOK, IsDatabase
  <2>4. /\ Issued(db'.seq, row)
        /\ row.action \in Creations => ~Issued(db.seq, row)
    BY <2>2 DEF Issued, Creations
  <2>5. LinkEffect(row) /\ BindEffect(row)
    BY <1>13, <2>2, CancelStewardInviteEffect DEF LinkEffect, BindEffect, KeepsTables
  <2>6. QED
    BY <2>1, <2>3, <2>4, <2>5 DEF Appends
<1>14. QED
  BY <1>1, <1>2, <1>3, <1>4, <1>5, <1>6, <1>7,
     <1>8, <1>9, <1>10, <1>11, <1>12, <1>13, WriteCases DEF SignIn

\* Every step keeps the ids of each table within those its sequence has issued.
LEMMA TablesStep ==
    ASSUME IInv, NEW a \in Actor, SignIn(a) \/ Write(a)
    PROVE  TablesFollowSequence'
<1> USE DEF IInv
<1>1. ASSUME NEW tid \in TID, Bootstrap(a, tid)
     PROVE  TablesFollowSequence'
  <2>1. DOMAIN db'.stewards = DOMAIN db.stewards \cup {NewId(db, "stewards")}
    BY <1>1, BootstrapEffect DEF Put
  <2>2. db'.seq = [db.seq EXCEPT !.stewards = @ + 1]
    BY <1>1, BootstrapEffect
  <2>3. DOMAIN db'.stewards = 1..db'.seq.stewards
    BY <2>1, <2>2, NextStewardId, IntervalNext DEF IdsIssuedInOrder, TablesFollowSequence
  <2>4. QED
    BY <1>1, <2>2, <2>3, NextStewardId, BootstrapEffect
    DEF KeepsTables, TablesFollowSequence, IdsIssuedInOrder
<1>2. ASSUME ClaimPendingSteward(a)
     PROVE  TablesFollowSequence'
  <2>1. CASE IsActiveSteward(db, a.oid)
    <3>1. DOMAIN db'.pending \subseteq DOMAIN db.pending
      BY <1>2, ClaimPendingStewardEffect DEF Without
    <3>2. KeepsTables({"persons", "systems", "associations", "stewards"}) /\ db'.seq = db.seq
      BY <1>2, <2>1, ClaimPendingStewardEffect DEF KeepsTables
    <3>3. QED
      BY <3>1, <3>2 DEF KeepsTables, TablesFollowSequence, IdsIssuedInOrder
  <2>2. CASE ~IsActiveSteward(db, a.oid)
    <3>1. DOMAIN db'.stewards = DOMAIN db.stewards \cup {NewId(db, "stewards")}
      BY <1>2, <2>2, ClaimPendingStewardEffect DEF Put
    <3>2. DOMAIN db'.pending \subseteq DOMAIN db.pending
      BY <1>2, ClaimPendingStewardEffect DEF Without
    <3>3. db'.seq = [db.seq EXCEPT !.stewards = @ + 1]
      BY <1>2, <2>2, ClaimPendingStewardEffect
    <3>4. DOMAIN db'.stewards = 1..db'.seq.stewards
      BY <3>1, <3>3, NextStewardId, IntervalNext DEF IdsIssuedInOrder, TablesFollowSequence
    <3>5. QED
      BY <1>2, <2>2, <3>2, <3>3, <3>4, NextStewardId, ClaimPendingStewardEffect
      DEF KeepsTables, TablesFollowSequence, IdsIssuedInOrder
  <2>3. QED
    BY <2>1, <2>2
<1>3. ASSUME NEW name \in Name, Bound, CreatePerson(a, name)
     PROVE  TablesFollowSequence'
  <2>1. DOMAIN db'.persons = DOMAIN db.persons \cup {NewId(db, "persons")}
    BY <1>3, CreatePersonEffect DEF Put
  <2>2. db'.seq = [db.seq EXCEPT !.persons = @ + 1]
    BY <1>3, CreatePersonEffect
  <2>3. DOMAIN db'.persons = 1..db'.seq.persons
    BY <2>1, <2>2, NextPersonId, IntervalNext DEF IdsIssuedInOrder, TablesFollowSequence
  <2>4. QED
    BY <1>3, <2>2, <2>3, NextPersonId, CreatePersonEffect
    DEF KeepsTables, TablesFollowSequence, IdsIssuedInOrder
<1>4. ASSUME NEW id \in DOMAIN db.persons, NEW name \in Name, Bound, RenamePerson(a, id, name)
     PROVE  TablesFollowSequence'
  BY <1>4, RenamePersonEffect DEF KeepsTables, Renamed, TablesFollowSequence, IdsIssuedInOrder
<1>5. ASSUME NEW name \in Name, Bound, CreateSystem(a, name)
     PROVE  TablesFollowSequence'
  <2>1. DOMAIN db'.systems = DOMAIN db.systems \cup {NewId(db, "systems")}
    BY <1>5, CreateSystemEffect DEF Put
  <2>2. db'.seq = [db.seq EXCEPT !.systems = @ + 1]
    BY <1>5, CreateSystemEffect
  <2>3. DOMAIN db'.systems = 1..db'.seq.systems
    BY <2>1, <2>2, NextSystemId, IntervalNext DEF IdsIssuedInOrder, TablesFollowSequence
  <2>4. QED
    BY <1>5, <2>2, <2>3, NextSystemId, CreateSystemEffect
    DEF KeepsTables, TablesFollowSequence, IdsIssuedInOrder
<1>6. ASSUME NEW id \in DOMAIN db.systems, NEW name \in Name, Bound, RenameSystem(a, id, name)
     PROVE  TablesFollowSequence'
  BY <1>6, RenameSystemEffect DEF KeepsTables, Renamed, TablesFollowSequence, IdsIssuedInOrder
<1>7. ASSUME NEW id \in DOMAIN db.systems, Bound, DisableSystem(a, id)
     PROVE  TablesFollowSequence'
  BY <1>7, DisableSystemEffect DEF KeepsTables, TablesFollowSequence, IdsIssuedInOrder
<1>8. ASSUME NEW id \in DOMAIN db.systems, Bound, EnableSystem(a, id)
     PROVE  TablesFollowSequence'
  BY <1>8, EnableSystemEffect DEF KeepsTables, TablesFollowSequence, IdsIssuedInOrder
<1>9. ASSUME NEW person \in DOMAIN db.persons, NEW system \in DOMAIN db.systems,
                NEW foreign \in ForeignId, Bound, CreateAssociation(a, person, system, foreign)
     PROVE  TablesFollowSequence'
  <2>1. DOMAIN db'.associations = DOMAIN db.associations \cup {NewId(db, "associations")}
    BY <1>9, CreateAssociationEffect DEF Put
  <2>2. db'.seq = [db.seq EXCEPT !.associations = @ + 1]
    BY <1>9, CreateAssociationEffect
  <2>3. DOMAIN db'.associations \subseteq 1..db'.seq.associations
    BY <2>1, <2>2, NextAssociationId, IntervalNext DEF IdsIssuedInOrder, TablesFollowSequence
  <2>4. QED
    BY <1>9, <2>2, <2>3, NextAssociationId, CreateAssociationEffect
    DEF KeepsTables, TablesFollowSequence, IdsIssuedInOrder
<1>10. ASSUME NEW person \in DOMAIN db.persons, NEW id \in DOMAIN db.associations, Bound, RemoveAssociation(a, person, id)
     PROVE  TablesFollowSequence'
  <2>1. db'.associations = Without(db.associations, id)
    BY <1>10, RemoveAssociationEffect
  <2>2. QED
    BY <1>10, <2>1, RemoveAssociationEffect DEF KeepsTables, TablesFollowSequence, IdsIssuedInOrder, Without
<1>11. ASSUME NEW upn \in UPN, Bound, PromoteSteward(a, upn)
     PROVE  TablesFollowSequence'
  <2>1. DOMAIN db'.pending = DOMAIN db.pending \cup {NewId(db, "pending")}
    BY <1>11, PromoteStewardEffect DEF Put
  <2>2. db'.seq = [db.seq EXCEPT !.pending = @ + 1]
    BY <1>11, PromoteStewardEffect
  <2>3. DOMAIN db'.pending \subseteq 1..db'.seq.pending
    BY <2>1, <2>2, NextPendingId, IntervalNext DEF IdsIssuedInOrder, TablesFollowSequence
  <2>4. QED
    BY <1>11, <2>2, <2>3, NextPendingId, PromoteStewardEffect
    DEF KeepsTables, TablesFollowSequence, IdsIssuedInOrder
<1>12. ASSUME NEW id \in DOMAIN db.stewards, Bound, DemoteSteward(a, id)
     PROVE  TablesFollowSequence'
  BY <1>12, DemoteStewardEffect DEF KeepsTables, TablesFollowSequence, IdsIssuedInOrder
<1>13. ASSUME NEW id \in DOMAIN db.pending, Bound, CancelStewardInvite(a, id)
     PROVE  TablesFollowSequence'
  <2>1. db'.pending = Without(db.pending, id)
    BY <1>13, CancelStewardInviteEffect
  <2>2. QED
    BY <1>13, <2>1, CancelStewardInviteEffect DEF KeepsTables, TablesFollowSequence, IdsIssuedInOrder, Without
<1>14. QED
  BY <1>1, <1>2, <1>3, <1>4, <1>5, <1>6, <1>7,
     <1>8, <1>9, <1>10, <1>11, <1>12, <1>13, WriteCases DEF SignIn

-------------------------------------------------------------------------------
(* The invariants about the log follow from the shape of a step alone. *)

\* An id issued once stays issued: sequences never go back.
LEMMA IssuedStays ==
    ASSUME NEW s \in Sequence, NEW t \in Sequence, SeqLeq(s, t), NEW e, Issued(s, e)
    PROVE  Issued(t, e)
BY DEF Sequence, SeqLeq, Issued

\* Ids that the log remembers stay issued.
LEMMA LogFollowsStep ==
    ASSUME IInv, TypeOK', OnlyConsumes \/ \E row : Appends(row)
    PROVE  LogFollowsSequence'
<1>1. CASE OnlyConsumes
  BY <1>1 DEF IInv, OnlyConsumes, KeepsTables, IdsIssuedInOrder, LogFollowsSequence
<1>2. ASSUME NEW row, Appends(row)
      PROVE  LogFollowsSequence'
  <2>1. /\ DOMAIN db'.audit = 1..(Len(db.audit) + 1)
        /\ Len(db.audit) \in Nat /\ DOMAIN db.audit = 1..Len(db.audit)
        /\ \A n \in DOMAIN db.audit : db'.audit[n] = db.audit[n]
        /\ db'.audit[Len(db.audit) + 1] = row
    BY <1>2, LogGrows DEF Appends, IInv
  <2>2. /\ SeqLeq(db.seq, db'.seq) /\ db.seq \in Sequence /\ db'.seq \in Sequence
        /\ Issued(db'.seq, row)
    BY <1>2 DEF IInv, Appends, TypeOK, IsDatabase
  <2>3. \A n \in DOMAIN db.audit : Issued(db'.seq, db.audit[n])
    BY <2>2, IssuedStays DEF IInv, IdsIssuedInOrder, LogFollowsSequence
  <2>4. QED
    BY <2>1, <2>2, <2>3 DEF LogFollowsSequence
<1>3. QED
  BY <1>1, <1>2

\* Only the first row of the log binds the tenant.
LEMMA BindingStep ==
    ASSUME IInv, OnlyConsumes \/ \E row : Appends(row)
    PROVE  BindingIsFirst'
<1>1. CASE OnlyConsumes
  BY <1>1 DEF IInv, OnlyConsumes, KeepsTables, BindingIsFirst, Bound
<1>2. ASSUME NEW row, Appends(row)
      PROVE  BindingIsFirst'
  <2>1. /\ DOMAIN db'.audit = 1..(Len(db.audit) + 1)
        /\ Len(db.audit) \in Nat /\ DOMAIN db.audit = 1..Len(db.audit)
        /\ \A n \in DOMAIN db.audit : db'.audit[n] = db.audit[n]
        /\ db'.audit[Len(db.audit) + 1] = row
    BY <1>2, LogGrows DEF Appends, IInv
  <2>2. BindEffect(row) /\ BindingIsFirst
    BY <1>2 DEF Appends, IInv
  <2>3. db'.audit # << >>
    BY <2>1
  <2>4. CASE Bound
    <3>1. /\ Bound' /\ db'.tenant = db.tenant /\ row.action # "tenant.bootstrap"
          /\ Len(db.audit) # 0
      <4>1. Bound' /\ db'.tenant = db.tenant /\ row.action # "tenant.bootstrap"
        BY <2>2, <2>4 DEF BindEffect, Bound
      <4>2. db.audit # << >> /\ db.audit \in Seq(AuditRow)
        BY <1>2, <2>2, <2>4 DEF BindingIsFirst, IInv, TypeOK, IsDatabase
      <4>3. QED
        BY <4>1, <4>2
    <3>2. 1 \in DOMAIN db.audit
      BY <2>1, <3>1
    <3>3. QED
      <4>1. /\ db'.audit[1] = db.audit[1]
            /\ db.audit[1].action = "tenant.bootstrap"
            /\ db.audit[1].details.tenant_id = db.tenant
        BY <2>1, <2>2, <2>4, <3>2 DEF BindingIsFirst
      <4>2. \A n \in DOMAIN db'.audit : db'.audit[n].action = "tenant.bootstrap" => n = 1
        BY <2>1, <2>2, <3>1 DEF BindingIsFirst
      <4>3. QED
        BY <2>3, <3>1, <4>1, <4>2 DEF BindingIsFirst
  <2>5. CASE ~Bound
    <3>1. /\ Bound' /\ row.action = "tenant.bootstrap" /\ db'.tenant = row.details.tenant_id
          /\ Len(db.audit) = 0
      BY <2>2, <2>5, TextAssumption DEF BindEffect, Bound, BindingIsFirst
    <3>2. QED
      BY <2>1, <2>3, <3>1 DEF BindingIsFirst
  <2>6. QED
    BY <2>4, <2>5
<1>3. QED
  BY <1>1, <1>2

\* The id a step hands out has no earlier row, and neither does a removal: the
\* link it removes exists, so no row removed it before and one created it.
LEMMA LogStep ==
    ASSUME IInv, OnlyConsumes \/ \E row : Appends(row)
    PROVE  LogIsConsistent'
<1>1. CASE OnlyConsumes
  BY <1>1 DEF IInv, OnlyConsumes, KeepsTables, LogIsConsistent
<1>2. ASSUME NEW row, Appends(row)
      PROVE  LogIsConsistent'
  <2>1. /\ DOMAIN db'.audit = 1..(Len(db.audit) + 1)
        /\ Len(db.audit) \in Nat /\ DOMAIN db.audit = 1..Len(db.audit)
        /\ \A n \in DOMAIN db.audit : db'.audit[n] = db.audit[n]
        /\ db'.audit[Len(db.audit) + 1] = row
    BY <1>2, LogGrows DEF Appends, IInv
  <2> DEFINE new == Len(db.audit) + 1
  <2>2. /\ LinkEffect(row)
        /\ row.action \in Creations => ~Issued(db.seq, row)
    BY <1>2 DEF Appends
  <2>3. \A n \in DOMAIN db.audit : Issued(db.seq, db.audit[n])
    BY DEF IInv, IdsIssuedInOrder, LogFollowsSequence
  <2>4. /\ new \notin DOMAIN db.audit
        /\ \A n \in DOMAIN db'.audit : n \in DOMAIN db.audit \/ n = new
    BY <2>1
  <2>5. LogIsConsistent /\ LinksFollowLog
    BY DEF IInv
  <2>6. ASSUME NEW m \in DOMAIN db'.audit, NEW n \in DOMAIN db'.audit,
               db'.audit[m].action \in Creations, db'.audit[n].action = db'.audit[m].action,
               CreatedId(db'.audit[n]) = CreatedId(db'.audit[m])
        PROVE  m = n
    <3>1. ASSUME NEW k \in DOMAIN db.audit, db.audit[k].action = row.action,
                 row.action \in Creations, CreatedId(db.audit[k]) = CreatedId(row)
          PROVE  FALSE
      <4>1. Issued(db.seq, db.audit[k])
        BY <2>3
      <4>2. Issued(db.seq, row)
        BY <3>1, <4>1 DEF Issued
      <4>3. QED
        BY <2>2, <3>1, <4>2
    <3>2. CASE m \in DOMAIN db.audit /\ n \in DOMAIN db.audit
      BY <2>1, <2>5, <2>6, <3>2 DEF LogIsConsistent
    <3>3. CASE m \in DOMAIN db.audit /\ n = new
      BY <2>1, <2>6, <3>1, <3>3
    <3>4. CASE n \in DOMAIN db.audit /\ m = new
      BY <2>1, <2>6, <3>1, <3>4
    <3>5. QED
      BY <2>4, <3>2, <3>3, <3>4
  <2>7. ASSUME row.action = "association.remove"
        PROVE  /\ \A k \in DOMAIN db.audit : ~RemovesLink(db.audit[k], row.details.association_id)
               /\ \E k \in 1..Len(db.audit) :
                     /\ CreatesLink(db.audit[k], row.details.association_id)
                     /\ db.audit[k].entity_id = row.entity_id
    <3>1. /\ row.details.association_id \in DOMAIN db.associations
          /\ db.associations[row.details.association_id].person_id = row.entity_id
      BY <2>2, <2>7 DEF LinkEffect
    <3>2. QED
      BY <2>1, <2>5, <3>1 DEF LinksFollowLog
  <2>8. ASSUME NEW m \in DOMAIN db'.audit, NEW n \in DOMAIN db'.audit,
               db'.audit[m].action = "association.remove",
               RemovesLink(db'.audit[n], db'.audit[m].details.association_id)
        PROVE  m = n
    <3>1. CASE m \in DOMAIN db.audit /\ n \in DOMAIN db.audit
      BY <2>1, <2>5, <2>8, <3>1 DEF LogIsConsistent
    <3>2. CASE m = new /\ n \in DOMAIN db.audit
      BY <2>1, <2>7, <2>8, <3>2
    <3>3. CASE m \in DOMAIN db.audit /\ n = new
      <4>1. /\ row.action = "association.remove"
            /\ RemovesLink(db.audit[m], row.details.association_id)
        BY <2>1, <2>8, <3>3 DEF RemovesLink
      <4>2. QED
        BY <2>7, <3>3, <4>1
    <3>4. QED
      BY <2>4, <3>1, <3>2, <3>3
  <2>9. ASSUME NEW m \in DOMAIN db'.audit, db'.audit[m].action = "association.remove"
        PROVE  \E k \in 1..(m - 1) :
                  /\ CreatesLink(db'.audit[k], db'.audit[m].details.association_id)
                  /\ db'.audit[k].entity_id = db'.audit[m].entity_id
    <3>1. CASE m \in DOMAIN db.audit
      <4>1. PICK k \in 1..(m - 1) :
               /\ CreatesLink(db.audit[k], db.audit[m].details.association_id)
               /\ db.audit[k].entity_id = db.audit[m].entity_id
        BY <2>1, <2>5, <2>9, <3>1 DEF LogIsConsistent
      <4>2. k \in DOMAIN db.audit
        BY <2>1, <3>1
      <4>3. QED
        BY <2>1, <3>1, <4>1, <4>2
    <3>2. CASE m = new
      <4>1. PICK k \in 1..Len(db.audit) :
               /\ CreatesLink(db.audit[k], row.details.association_id)
               /\ db.audit[k].entity_id = row.entity_id
        BY <2>1, <2>7, <2>9, <3>2
      <4>2. k \in 1..(m - 1)
        BY <2>1, <3>2
      <4>3. QED
        BY <2>1, <3>2, <4>1, <4>2
    <3>3. QED
      BY <2>4, <3>1, <3>2
  <2> HIDE DEF new
  <2>10. QED
    BY <2>6, <2>8, <2>9 DEF LogIsConsistent
<1>3. QED
  BY <1>1, <1>2

\* A new link has a fresh id, so no row removed it; a link that goes away goes
\* with the row that removes it.
LEMMA LinksStep ==
    ASSUME IInv, OnlyConsumes \/ \E row : Appends(row)
    PROVE  LinksFollowLog'
<1>1. CASE OnlyConsumes
  BY <1>1 DEF IInv, OnlyConsumes, KeepsTables, LinksFollowLog
<1>2. ASSUME NEW row, Appends(row)
      PROVE  LinksFollowLog'
  <2>1. /\ DOMAIN db'.audit = 1..(Len(db.audit) + 1)
        /\ Len(db.audit) \in Nat /\ DOMAIN db.audit = 1..Len(db.audit)
        /\ \A n \in DOMAIN db.audit : db'.audit[n] = db.audit[n]
        /\ db'.audit[Len(db.audit) + 1] = row
    BY <1>2, LogGrows DEF Appends, IInv
  <2> DEFINE new == Len(db.audit) + 1
  <2>2. /\ LinkEffect(row)
        /\ row.action \in Creations => ~Issued(db.seq, row)
    BY <1>2 DEF Appends
  <2>3. /\ new \in DOMAIN db'.audit
        /\ \A n \in DOMAIN db'.audit : n \in DOMAIN db.audit \/ n = new
        /\ DOMAIN db.audit \subseteq DOMAIN db'.audit
    BY <2>1
  <2>4. LogIsConsistent /\ LinksFollowLog
    BY DEF IInv
  <2>5. ASSUME row.action = "association.create", NEW k \in DOMAIN db.audit
        PROVE  ~RemovesLink(db.audit[k], row.details.association_id)
    <3>1. SUFFICES ASSUME RemovesLink(db.audit[k], row.details.association_id)
                   PROVE  FALSE
      OBVIOUS
    <3>2. PICK j \in 1..(k - 1) : CreatesLink(db.audit[j], row.details.association_id)
      BY <2>4, <3>1 DEF LogIsConsistent, RemovesLink
    <3>3. j \in DOMAIN db.audit
      BY <2>1
    <3>4. Issued(db.seq, db.audit[j])
      BY <3>3 DEF IInv, IdsIssuedInOrder, LogFollowsSequence
    <3>5. row.details.association_id \in 1..db.seq.associations
      BY <3>2, <3>4 DEF Issued, CreatesLink, CreatedId
    <3>6. Issued(db.seq, row)
      BY <2>5, <3>5 DEF Issued, CreatedId
    <3>7. QED
      BY <2>2, <2>5, <3>6 DEF Creations
  <2>6. ASSUME NEW i \in DOMAIN db'.associations
        PROVE  /\ \E k \in DOMAIN db'.audit :
                     /\ CreatesLink(db'.audit[k], i)
                     /\ db'.audit[k].entity_id = db'.associations[i].person_id
               /\ \A k \in DOMAIN db'.audit : ~RemovesLink(db'.audit[k], i)
    <3>1. CASE i \in DOMAIN db.associations /\ db'.associations[i] = db.associations[i]
      <4>1. PICK k \in DOMAIN db.audit : /\ CreatesLink(db.audit[k], i)
                                         /\ db.audit[k].entity_id = db.associations[i].person_id
        BY <2>4, <3>1 DEF LinksFollowLog
      <4>2. ~RemovesLink(row, i)
        BY <2>2, <2>6 DEF LinkEffect, RemovesLink
      <4>3. \A n \in DOMAIN db.audit : ~RemovesLink(db.audit[n], i)
        BY <2>4, <3>1 DEF LinksFollowLog
      <4>4. \A n \in DOMAIN db'.audit : ~RemovesLink(db'.audit[n], i)
        BY <2>1, <2>3, <4>2, <4>3
      <4>5. /\ k \in DOMAIN db'.audit /\ CreatesLink(db'.audit[k], i)
            /\ db'.audit[k].entity_id = db'.associations[i].person_id
        BY <2>1, <2>3, <3>1, <4>1
      <4>6. QED
        BY <4>4, <4>5
    <3>2. CASE /\ row.action = "association.create" /\ i = row.details.association_id
               /\ db'.associations[i].person_id = row.entity_id
      <4>1. ~RemovesLink(row, i) /\ CreatesLink(row, i)
        BY <3>2 DEF RemovesLink, CreatesLink
      <4>2. \A n \in DOMAIN db'.audit : ~RemovesLink(db'.audit[n], i)
        BY <2>1, <2>3, <2>5, <3>2, <4>1
      <4>3. CreatesLink(db'.audit[new], i) /\ db'.audit[new].entity_id = db'.associations[i].person_id
        BY <2>1, <3>2, <4>1
      <4>4. QED
        BY <2>3, <4>2, <4>3
    <3>3. QED
      BY <2>2, <2>6, <3>1, <3>2 DEF LinkEffect
  <2>7. ASSUME NEW k \in DOMAIN db'.audit, db'.audit[k].action = "association.create",
               CreatedId(db'.audit[k]) \notin DOMAIN db'.associations
        PROVE  \E m \in DOMAIN db'.audit : RemovesLink(db'.audit[m], CreatedId(db'.audit[k]))
    <3>1. CASE k = new
      <4>1. row.action = "association.create" /\ CreatedId(row) = row.details.association_id
        BY <2>1, <2>7, <3>1 DEF CreatedId
      <4>2. CreatedId(row) \in DOMAIN db'.associations
        BY <2>2, <4>1 DEF LinkEffect
      <4>3. QED
        BY <2>1, <2>7, <3>1, <4>2
    <3>2. CASE k \in DOMAIN db.audit /\ CreatedId(db.audit[k]) \notin DOMAIN db.associations
      <4>1. PICK m \in DOMAIN db.audit : RemovesLink(db.audit[m], CreatedId(db.audit[k]))
        BY <2>1, <2>4, <2>7, <3>2 DEF LinksFollowLog
      <4>2. QED
        BY <2>1, <2>3, <3>2, <4>1
    <3>3. CASE k \in DOMAIN db.audit /\ CreatedId(db.audit[k]) \in DOMAIN db.associations
      <4>1. CreatedId(db.audit[k]) \notin DOMAIN db'.associations
        BY <2>1, <2>7, <3>3
      <4>2. RemovesLink(row, CreatedId(db.audit[k]))
        BY <2>2, <3>3, <4>1 DEF LinkEffect, RemovesLink
      <4>3. QED
        BY <2>1, <2>3, <3>3, <4>2
    <3>4. QED
      BY <2>3, <3>1, <3>2, <3>3
  <2> HIDE DEF new
  <2>8. QED
    BY <2>6, <2>7 DEF LinksFollowLog
<1>3. QED
  BY <1>1, <1>2

-------------------------------------------------------------------------------
(* The theorems. *)

\* A fresh database satisfies the inductive invariant.
LEMMA InitInv == Init => IInv
<1> SUFFICES ASSUME Init PROVE IInv
  OBVIOUS
<1>1. /\ db.tenant = NoTenant /\ db.audit = << >> /\ DOMAIN db.audit = {}
      /\ DOMAIN db.persons = {} /\ DOMAIN db.systems = {} /\ DOMAIN db.associations = {}
      /\ DOMAIN db.stewards = {} /\ DOMAIN db.pending = {}
      /\ db.seq = [persons |-> 0, systems |-> 0, associations |-> 0,
                   stewards |-> 0, pending |-> 0]
  BY DEF Init, EmptyDatabase, NoRows
<1>2. TypeOK
  <2>1. DOMAIN db = {"tenant", "persons", "systems", "associations",
                     "stewards", "pending", "seq", "audit"}
    BY DEF Init, EmptyDatabase
  <2>2. db.audit \in Seq(AuditRow) /\ db.seq \in Sequence
    BY <1>1 DEF Sequence
  <2>3. ASSUME NEW Row, NEW t, t = NoRows PROVE IsTable(t, Row)
    BY <2>3 DEF IsTable, NoRows
  <2>4. /\ db.persons = NoRows /\ db.systems = NoRows /\ db.associations = NoRows
        /\ db.stewards = NoRows /\ db.pending = NoRows
    BY DEF Init, EmptyDatabase
  <2>5. QED
    BY <1>1, <2>1, <2>2, <2>3, <2>4 DEF TypeOK, IsDatabase
<1>3. IdsIssuedInOrder
  BY <1>1 DEF IdsIssuedInOrder, TablesFollowSequence, LogFollowsSequence
<1>4. ForeignKeysHold(db) /\ ActiveOidIsUnique(db) /\ OneStandingPerUPN
  BY <1>1 DEF ForeignKeysHold, ActiveOidIsUnique, OneStandingPerUPN, ActiveStewards
<1>5. BindingIsFirst /\ LogIsConsistent /\ LinksFollowLog
  BY <1>1 DEF BindingIsFirst, Bound, LogIsConsistent, LinksFollowLog
<1>6. QED
  BY <1>2, <1>3, <1>4, <1>5 DEF IInv

\* The inductive invariant is kept by every step, conjunct by conjunct.
LEMMA NextInv == IInv /\ [Next]_db => IInv'
<1>1. ASSUME IInv, NEW a \in Actor, SignIn(a) \/ Write(a)
      PROVE  IInv'
  <2>1. TypeOK'
    BY <1>1, TypeStep
  <2>2. OnlyConsumes \/ \E row : Appends(row)
    BY <1>1, AppendsStep
  <2>3. IdsIssuedInOrder'
    BY <1>1, <2>1, <2>2, TablesStep, LogFollowsStep DEF IdsIssuedInOrder
  <2>4. ForeignKeysHold(db)' /\ ActiveOidIsUnique(db)' /\ OneStandingPerUPN'
    BY <1>1, ForeignKeysStep, ActiveOidStep, OneStandingStep
  <2>5. BindingIsFirst' /\ LogIsConsistent' /\ LinksFollowLog'
    BY <1>1, <2>2, BindingStep, LogStep, LinksStep
  <2>6. QED
    BY <2>1, <2>3, <2>4, <2>5 DEF IInv
<1>2. ASSUME IInv, UNCHANGED db
      PROVE  IInv'
  BY <1>2 DEF IInv, TypeOK, IdsIssuedInOrder, TablesFollowSequence, LogFollowsSequence,
              ForeignKeysHold, ActiveOidIsUnique, ActiveStewards, OneStandingPerUPN,
              BindingIsFirst, Bound, LogIsConsistent, LinksFollowLog
<1>3. QED
  BY <1>1, <1>2 DEF Next

\* The conjunction the proofs carry from step to step holds in every state.
THEOREM Invariant == Spec => []IInv
<1>1. Init => IInv
  BY InitInv
<1>2. IInv /\ [Next]_db => IInv'
  BY NextInv
<1>3. QED
  BY <1>1, <1>2, PTL DEF Spec

\* Every column of every table always holds a value of its type.
THEOREM TypeCorrect == Spec => []TypeOK
<1>1. IInv => TypeOK
  BY DEF IInv
<1>2. QED
  BY <1>1, Invariant, PTL

\* Ids are issued in order and never reused, across living rows and the log.
THEOREM IdsNeverReused == Spec => []IdsIssuedInOrder
<1>1. IInv => IdsIssuedInOrder
  BY DEF IInv
<1>2. QED
  BY <1>1, Invariant, PTL

\* No write that core accepts runs into a constraint of the schema.
THEOREM NoConstraintError == Spec => []ConstraintsNeverFire
<1>1. IInv => ConstraintsNeverFire
  <2>1. OneStandingPerUPN => PendingUpnIsUnique(db)
    BY DEF OneStandingPerUPN, PendingUpnIsUnique, SameUPN
  <2>2. QED
    BY <2>1 DEF IInv, ConstraintsNeverFire
<1>2. QED
  BY <1>1, Invariant, PTL

\* Case apart, a UPN is at most one active steward or one invitation.
THEOREM OneStanding == Spec => []OneStandingPerUPN
<1>1. IInv => OneStandingPerUPN
  BY DEF IInv
<1>2. QED
  BY <1>1, Invariant, PTL

\* The tenant binding is the first row of the log and the only one of its kind.
THEOREM BoundOnce == Spec => []BindingIsFirst
<1>1. IInv => BindingIsFirst
  BY DEF IInv
<1>2. QED
  BY <1>1, Invariant, PTL

\* The log never records an id twice, nor a removal without its creation.
THEOREM LogConsistent == Spec => []LogIsConsistent
<1>1. IInv => LogIsConsistent
  BY DEF IInv
<1>2. QED
  BY <1>1, Invariant, PTL

\* The associations are exactly those the log created and did not remove.
THEOREM LinksMatchLog == Spec => []LinksFollowLog
<1>1. IInv => LinksFollowLog
  BY DEF IInv
<1>2. QED
  BY <1>1, Invariant, PTL

-------------------------------------------------------------------------------
(* The last steward. *)

\* A sign-in leaves the steward table alone or adds an active row.
LEMMA SignInStewards ==
    ASSUME IInv, NEW a \in Actor, SignIn(a)
    PROVE  \/ db'.stewards = db.stewards /\ Bound
           \/ \E row : /\ row.removed_by = Null
                       /\ db'.stewards = Put(db.stewards, NewId(db, "stewards"), row)
<1> USE DEF IInv
<1>1. ASSUME NEW tid \in TID, Bootstrap(a, tid)
      PROVE  \E row : /\ row.removed_by = Null
                      /\ db'.stewards = Put(db.stewards, NewId(db, "stewards"), row)
  <2> DEFINE row == [user_oid |-> a.oid, user_upn |-> a.upn,
                     promoted_by |-> "bootstrap", removed_by |-> Null]
  <2>1. db'.stewards = Put(db.stewards, NewId(db, "stewards"), row)
    BY <1>1, BootstrapEffect
  <2>2. row.removed_by = Null
    OBVIOUS
  <2> HIDE DEF row
  <2>3. QED
    BY <2>1, <2>2
<1>2. ASSUME ClaimPendingSteward(a), ~IsActiveSteward(db, a.oid)
      PROVE  \E row : /\ row.removed_by = Null
                      /\ db'.stewards = Put(db.stewards, NewId(db, "stewards"), row)
  <2> DEFINE row == [user_oid |-> a.oid, user_upn |-> a.upn,
                     promoted_by |-> db.pending[GetPendingStewardByUPN(db, a.upn)].invited_by,
                     removed_by |-> Null]
  <2>1. db'.stewards = Put(db.stewards, NewId(db, "stewards"), row)
    BY <1>2, ClaimPendingStewardEffect
  <2>2. row.removed_by = Null
    OBVIOUS
  <2> HIDE DEF row
  <2>3. QED
    BY <2>1, <2>2
<1>3. ASSUME ClaimPendingSteward(a), IsActiveSteward(db, a.oid)
      PROVE  db'.stewards = db.stewards /\ Bound
  BY <1>3, ClaimPendingStewardEffect DEF KeepsTables, ClaimPendingSteward
<1>4. QED
  BY <1>1, <1>2, <1>3 DEF SignIn

\* A write leaves the steward table alone or demotes one.
LEMMA WriteStewards ==
    ASSUME IInv, NEW a \in Actor, Write(a)
    PROVE  /\ Bound
           /\ \/ db'.stewards = db.stewards
              \/ \E id \in DOMAIN db.stewards : DemoteSteward(a, id)
<1> USE DEF IInv
<1>1. ASSUME NEW name \in Name, CreatePerson(a, name) PROVE db'.stewards = db.stewards
  BY <1>1, CreatePersonEffect DEF KeepsTables
<1>2. ASSUME NEW id \in DOMAIN db.persons, NEW name \in Name, RenamePerson(a, id, name)
      PROVE  db'.stewards = db.stewards
  BY <1>2, RenamePersonEffect DEF KeepsTables
<1>3. ASSUME NEW name \in Name, CreateSystem(a, name) PROVE db'.stewards = db.stewards
  BY <1>3, CreateSystemEffect DEF KeepsTables
<1>4. ASSUME NEW id \in DOMAIN db.systems, NEW name \in Name, RenameSystem(a, id, name)
      PROVE  db'.stewards = db.stewards
  BY <1>4, RenameSystemEffect DEF KeepsTables
<1>5. ASSUME NEW id \in DOMAIN db.systems, DisableSystem(a, id) PROVE db'.stewards = db.stewards
  BY <1>5, DisableSystemEffect DEF KeepsTables
<1>6. ASSUME NEW id \in DOMAIN db.systems, EnableSystem(a, id) PROVE db'.stewards = db.stewards
  BY <1>6, EnableSystemEffect DEF KeepsTables
<1>7. ASSUME NEW person \in DOMAIN db.persons, NEW system \in DOMAIN db.systems,
             NEW foreign \in ForeignId, CreateAssociation(a, person, system, foreign)
      PROVE  db'.stewards = db.stewards
  BY <1>7, CreateAssociationEffect DEF KeepsTables
<1>8. ASSUME NEW person \in DOMAIN db.persons, NEW id \in DOMAIN db.associations,
             RemoveAssociation(a, person, id)
      PROVE  db'.stewards = db.stewards
  BY <1>8, RemoveAssociationEffect DEF KeepsTables
<1>9. ASSUME NEW upn \in UPN, PromoteSteward(a, upn) PROVE db'.stewards = db.stewards
  BY <1>9, PromoteStewardEffect DEF KeepsTables
<1>10. ASSUME NEW id \in DOMAIN db.pending, CancelStewardInvite(a, id)
       PROVE  db'.stewards = db.stewards
  BY <1>10, CancelStewardInviteEffect DEF KeepsTables
<1>11. QED
  BY <1>1, <1>2, <1>3, <1>4, <1>5, <1>6, <1>7, <1>8, <1>9, <1>10, WriteCases

\* A demotion made by an active steward leaves that steward.
LEMMA StewardRemainsStep ==
    ASSUME IInv, SomeStewardRemains, [GatedNext]_db
    PROVE  SomeStewardRemains'
<1>1. ASSUME NEW a \in Actor, SignIn(a) \/ (IsActiveSteward(db, a.oid) /\ Write(a))
      PROVE  SomeStewardRemains'
  <2>1. CASE db'.stewards = db.stewards /\ Bound
    BY <2>1 DEF SomeStewardRemains, ActiveStewards
  <2>2. ASSUME NEW row, row.removed_by = Null,
               db'.stewards = Put(db.stewards, NewId(db, "stewards"), row)
        PROVE  SomeStewardRemains'
    <3>1. NewId(db, "stewards") \in ActiveStewards(db)'
      BY <2>2, InsertionActive DEF IInv
    <3>2. QED
      BY <3>1 DEF SomeStewardRemains
  <2>3. ASSUME NEW id \in DOMAIN db.stewards, Bound, DemoteSteward(a, id),
               IsActiveSteward(db, a.oid)
        PROVE  SomeStewardRemains'
    <3>1. PICK i \in ActiveStewards(db) : db.stewards[i].user_oid = a.oid
      BY <2>3 DEF IsActiveSteward
    <3>2. db.stewards[id].user_oid # a.oid
      BY <2>3 DEF DemoteSteward, DemoteStewardOutcome, Written
    <3>3. i \in ActiveStewards(db)'
      BY <2>3, <3>1, <3>2, DemotionActive DEF IInv
    <3>4. QED
      BY <3>3 DEF SomeStewardRemains
  <2>4. CASE SignIn(a)
    BY <2>1, <2>2, <2>4, SignInStewards
  <2>5. CASE IsActiveSteward(db, a.oid) /\ Write(a)
    BY <2>1, <2>3, <2>5, WriteStewards
  <2>6. QED
    BY <1>1, <2>4, <2>5
<1>2. CASE UNCHANGED db
  BY <1>2 DEF SomeStewardRemains, Bound, ActiveStewards
<1>3. QED
  BY <1>1, <1>2 DEF GatedNext

\* As long as the steward check and the write are one step, a bound deployment
\* always has an active steward.
THEOREM StewardRemains == GatedSpec => []SomeStewardRemains
<1>1. Init => IInv /\ SomeStewardRemains
  BY InitInv DEF Init, EmptyDatabase, SomeStewardRemains, Bound
<1>2. IInv /\ SomeStewardRemains /\ [GatedNext]_db => (IInv /\ SomeStewardRemains)'
  <2>1. [GatedNext]_db => [Next]_db
    BY DEF GatedNext, Next
  <2>2. QED
    BY <2>1, NextInv, StewardRemainsStep
<1>3. QED
  BY <1>1, <1>2, PTL DEF GatedSpec

===============================================================================
