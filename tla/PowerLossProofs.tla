---------------------------- MODULE PowerLossProofs ----------------------------
(***************************************************************************)
(* Proofs about module PowerLoss, for every value of the constants and any *)
(* number of commits at stake: each database a loss of power may leave is  *)
(* one the registry reaches, and so satisfies its inductive invariant.     *)
(***************************************************************************)
EXTENDS PowerLoss, RegistryProofs

\* The inductive invariant of RegistryProofs, of the database d.
Whole(d) ==
    /\ In(d)!TypeOK
    /\ In(d)!IdsIssuedInOrder
    /\ In(d)!ForeignKeysHold(d)
    /\ In(d)!ActiveOidIsUnique(d)
    /\ In(d)!OneStandingPerUPN
    /\ In(d)!BindingIsFirst
    /\ In(d)!LogIsConsistent
    /\ In(d)!LinksFollowLog

\* The two ways to say it of the database as it is, and of the next one.
LEMMA WholeNow == IInv <=> Whole(db)
BY DEF IInv, Whole,
  TypeOK, In!TypeOK, IdsIssuedInOrder, In!IdsIssuedInOrder, TablesFollowSequence,
  In!TablesFollowSequence, LogFollowsSequence, In!LogFollowsSequence, Issued,
  In!Issued, CreatedId, In!CreatedId, OneStandingPerUPN, In!OneStandingPerUPN,
  BindingIsFirst, In!BindingIsFirst, Bound, In!Bound, LogIsConsistent,
  In!LogIsConsistent, Creations, In!Creations, CreatesLink, In!CreatesLink,
  RemovesLink, In!RemovesLink, LinksFollowLog, In!LinksFollowLog, ForeignKeysHold,
  In!ForeignKeysHold, ActiveOidIsUnique, In!ActiveOidIsUnique, ActiveStewards,
  In!ActiveStewards, Removed, In!Removed, SameUPN, In!SameUPN, IsDatabase,
  In!IsDatabase, IsTable, In!IsTable, Person, In!Person, System, In!System,
  Association, In!Association, Steward, In!Steward, PendingSteward, In!PendingSteward,
  Sequence, In!Sequence, AuditRow, In!AuditRow, Details, In!Details, Action, In!Action

LEMMA WholeNext == IInv' <=> Whole(db)'
BY DEF IInv, Whole,
  TypeOK, In!TypeOK, IdsIssuedInOrder, In!IdsIssuedInOrder, TablesFollowSequence,
  In!TablesFollowSequence, LogFollowsSequence, In!LogFollowsSequence, Issued,
  In!Issued, CreatedId, In!CreatedId, OneStandingPerUPN, In!OneStandingPerUPN,
  BindingIsFirst, In!BindingIsFirst, Bound, In!Bound, LogIsConsistent,
  In!LogIsConsistent, Creations, In!Creations, CreatesLink, In!CreatesLink,
  RemovesLink, In!RemovesLink, LinksFollowLog, In!LinksFollowLog, ForeignKeysHold,
  In!ForeignKeysHold, ActiveOidIsUnique, In!ActiveOidIsUnique, ActiveStewards,
  In!ActiveStewards, Removed, In!Removed, SameUPN, In!SameUPN, IsDatabase,
  In!IsDatabase, IsTable, In!IsTable, Person, In!Person, System, In!System,
  Association, In!Association, Steward, In!Steward, PendingSteward, In!PendingSteward,
  Sequence, In!Sequence, AuditRow, In!AuditRow, Details, In!Details, Action, In!Action

\* A whole database is a consistent one.
LEMMA WholeIsConsistent == ASSUME NEW d, Whole(d) PROVE Consistent(d)
BY DEF Whole, Consistent, In!ConstraintsNeverFire, In!PendingUpnIsUnique,
       In!OneStandingPerUPN, In!SameUPN

-------------------------------------------------------------------------------
(* Every database that may be found after a loss of power is whole. *)

PInv ==
    /\ Whole(db)
    /\ \E S : kept \in Seq(S) /\ \A d \in S : Whole(d)

\* A commit puts one more whole database at stake; a checkpoint and a loss of power
\* leave one.
LEMMA PInvStep == PInv /\ [PowerNext]_powerVars => PInv'
<1> SUFFICES ASSUME PInv, [PowerNext]_powerVars PROVE PInv'
  OBVIOUS
<1>1. PICK S : kept \in Seq(S) /\ \A d \in S : Whole(d)
  BY DEF PInv
<1>2. ASSUME Whole(db)', kept' = <<db'>> PROVE PInv'
  <2>1. <<db'>> \in Seq({db'})
    OBVIOUS
  <2>2. QED
    BY <1>2, <2>1 DEF PInv
<1>3. CASE Commit(Next)
  <2>1. Next /\ kept' = Append(kept, db')
    BY <1>3 DEF Commit
  <2>2. IInv'
    BY <2>1, WholeNow, NextInv DEF PInv
  <2>3. Whole(db)'
    BY <2>2, WholeNext
  <2>4. Append(kept, db') \in Seq(S \cup {db'})
    BY <1>1
  <2>5. QED
    BY <1>1, <2>1, <2>3, <2>4 DEF PInv
<1>4. CASE Checkpoint
  BY <1>2, <1>4 DEF Checkpoint, PInv
<1>5. CASE PowerLoss
  <2>1. PICK i \in DOMAIN kept : db' = kept[i]
    BY <1>5 DEF PowerLoss, ToSet
  <2>2. kept[i] \in S
    BY <1>1
  <2>3. QED
    BY <1>1, <1>2, <1>5, <2>1, <2>2 DEF PowerLoss
<1>6. CASE UNCHANGED powerVars
  BY <1>6 DEF powerVars, PInv
<1>7. QED
  BY <1>3, <1>4, <1>5, <1>6 DEF PowerNext

LEMMA PInvInit == PowerInit => PInv
<1> SUFFICES ASSUME PowerInit PROVE PInv
  OBVIOUS
<1>1. Whole(db)
  BY InitInv, WholeNow DEF PowerInit
<1>2. kept \in Seq({db})
  BY DEF PowerInit
<1>3. QED
  BY <1>1, <1>2 DEF PInv

\* Whatever a loss of power leaves is a consistent registry with a log that tells all
\* of it, and it stays one in what follows, however often the power fails.
THEOREM RecoveryIsConsistent == PowerSpec => []EveryRecoveryIsConsistent
<1>1. PInv => EveryRecoveryIsConsistent
  <2> SUFFICES ASSUME PInv, NEW i \in DOMAIN kept PROVE Consistent(kept[i])
    BY DEF EveryRecoveryIsConsistent
  <2>1. PICK S : kept \in Seq(S) /\ \A d \in S : Whole(d)
    BY DEF PInv
  <2>2. Whole(kept[i])
    BY <2>1
  <2>3. QED
    BY <2>2, WholeIsConsistent
<1>2. QED
  BY <1>1, PInvInit, PInvStep, PTL DEF PowerSpec

\* The registry in use satisfies all of its invariants through losses of power too.
THEOREM InvariantThroughLosses == PowerSpec => []IInv
<1>1. PInv => IInv
  BY WholeNow DEF PInv
<1>2. QED
  BY <1>1, PInvInit, PInvStep, PTL DEF PowerSpec

-------------------------------------------------------------------------------
(* With the steward check, none of them is without a steward. *)

Staffed(d) == In(d)!SomeStewardRemains

LEMMA StaffedNow == SomeStewardRemains <=> Staffed(db)
BY DEF SomeStewardRemains, Staffed, In!SomeStewardRemains, Bound, In!Bound,
       ActiveStewards, In!ActiveStewards, Removed, In!Removed

LEMMA StaffedNext == SomeStewardRemains' <=> Staffed(db)'
BY DEF SomeStewardRemains, Staffed, In!SomeStewardRemains, Bound, In!Bound,
       ActiveStewards, In!ActiveStewards, Removed, In!Removed

GInv ==
    /\ Staffed(db)
    /\ \E S : kept \in Seq(S) /\ \A d \in S : Staffed(d)

LEMMA GInvStep == IInv /\ GInv /\ [GatedPowerNext]_powerVars => GInv'
<1> SUFFICES ASSUME IInv, GInv, [GatedPowerNext]_powerVars PROVE GInv'
  OBVIOUS
<1>1. PICK S : kept \in Seq(S) /\ \A d \in S : Staffed(d)
  BY DEF GInv
<1>2. ASSUME Staffed(db)', kept' = <<db'>> PROVE GInv'
  <2>1. <<db'>> \in Seq({db'})
    OBVIOUS
  <2>2. QED
    BY <1>2, <2>1 DEF GInv
<1>3. CASE Commit(GatedNext)
  <2>1. GatedNext /\ kept' = Append(kept, db')
    BY <1>3 DEF Commit
  <2>2. SomeStewardRemains'
    BY <2>1, StaffedNow, StewardRemainsStep DEF GInv
  <2>3. Staffed(db)'
    BY <2>2, StaffedNext
  <2>4. Append(kept, db') \in Seq(S \cup {db'})
    BY <1>1
  <2>5. QED
    BY <1>1, <2>1, <2>3, <2>4 DEF GInv
<1>4. CASE Checkpoint
  BY <1>2, <1>4 DEF Checkpoint, GInv
<1>5. CASE PowerLoss
  <2>1. PICK i \in DOMAIN kept : db' = kept[i]
    BY <1>5 DEF PowerLoss, ToSet
  <2>2. kept[i] \in S
    BY <1>1
  <2>3. QED
    BY <1>1, <1>2, <1>5, <2>1, <2>2 DEF PowerLoss
<1>6. CASE UNCHANGED powerVars
  BY <1>6 DEF powerVars, GInv
<1>7. QED
  BY <1>3, <1>4, <1>5, <1>6 DEF GatedPowerNext

\* Neither a demotion nor the loss of one leaves a bound deployment without a steward.
THEOREM StewardRemainsThroughLosses == GatedPowerSpec => []SomeStewardRemains
<1>1. PowerInit => GInv
  <2> SUFFICES ASSUME PowerInit PROVE GInv
    OBVIOUS
  <2>1. SomeStewardRemains
    BY DEF PowerInit, Init, EmptyDatabase, SomeStewardRemains, Bound
  <2>2. kept \in Seq({db})
    BY DEF PowerInit
  <2>3. QED
    BY <2>1, <2>2, StaffedNow DEF GInv
<1>2. [GatedPowerNext]_powerVars => [PowerNext]_powerVars
  BY DEF GatedPowerNext, PowerNext, Commit, GatedNext, Next
<1>3. PInv => IInv
  BY WholeNow DEF PInv
<1>4. GInv => SomeStewardRemains
  BY StaffedNow DEF GInv
<1>5. QED
  BY <1>1, <1>2, <1>3, <1>4, PInvInit, PInvStep, GInvStep, PTL DEF GatedPowerSpec

================================================================================
