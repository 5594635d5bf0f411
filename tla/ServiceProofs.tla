----------------------------- MODULE ServiceProofs -----------------------------
(***************************************************************************)
(* Proofs about the migration runner and the service it runs in, for any   *)
(* number of migrations of any sizes.  Of the runner: whichever binaries   *)
(* ran and wherever they died, the database has seen a prefix of the       *)
(* migrations, a start that succeeds has all of its own, and one that      *)
(* fails has met what another left.  Of a service over its life: what      *)
(* happens to the database is a behaviour of Migrations, whatever the      *)
(* process goes through; where it serves the database is complete; and     *)
(* seen from outside it is a Process that opens its database in one step.  *)
(***************************************************************************)
EXTENDS Service, TLAPS

-------------------------------------------------------------------------------
(* The migration runner. *)

\* What the schema is while the runner is on its way: a migration past its first
\* statement began on a whole schema, and has applied what precedes it.
Progress ==
    /\ proc.at \in {"applying", "recording"} => proc.m = version + 1
    /\ proc.at = "applying" /\ proc.i > 1 =>
           schema = UpTo(version) \cup {<<proc.m, k>> : k \in 1..(proc.i - 1)}
    /\ proc.at = "recording" => schema = UpTo(proc.m)
    /\ proc.at = "ready" => known <= version

\* The inductive invariant.
IInv == TypeOK /\ SchemaIsAPrefix /\ Progress /\ FailsOnlyOnRuins

-------------------------------------------------------------------------------

LEMMA StatementForm ==
    \A s : s \in Statements <=> \E m \in 1..Newest : \E i \in 1..Size[m] : s = <<m, i>>
BY DEF Statements, Statement

LEMMA UpToForm ==
    ASSUME NEW v \in Nat
    PROVE  \A s : s \in UpTo(v) <=>
               \E m \in 1..Newest : \E i \in 1..Size[m] : m <= v /\ s = <<m, i>>
BY StatementForm DEF UpTo

LEMMA UpToZero == UpTo(0) = {}
BY UpToForm

\* The first two statements are there once a version is recorded.
LEMMA ConfigIsFirst ==
    ASSUME NEW v \in 1..Newest
    PROVE  CreateConfig \in UpTo(v) /\ InsertConfig \in UpTo(v)
BY UpToForm, MigrationsAssumption DEF CreateConfig, InsertConfig

\* A prefix that lacks the first statement of the next migration is whole.
LEMMA NotBegun ==
    ASSUME TypeOK, SchemaIsAPrefix, <<version + 1, 1>> \notin schema
    PROVE  schema = UpTo(version)
<1>1. ASSUME NEW s \in schema PROVE s \in UpTo(version)
  <2>1. PICK m \in 1..Newest : \E j \in 1..Size[m] : s = <<m, j>>
    BY StatementForm DEF TypeOK
  <2>2. PICK i \in 1..Size[m] : s = <<m, i>>
    BY <2>1
  <2>3. m <= version + 1 /\ \A k \in 1..i : <<m, k>> \in schema
    BY <2>2 DEF SchemaIsAPrefix
  <2>4. 1 \in 1..i
    BY <2>2, MigrationsAssumption
  <2>5. m # version + 1
    BY <2>3, <2>4
  <2> QED BY <2>2, <2>3, <2>5, UpToForm DEF TypeOK
<1> QED BY <1>1 DEF SchemaIsAPrefix

\* A migration whose last statement has run is whole.
LEMMA Whole ==
    ASSUME NEW m \in 1..Newest
    PROVE  UpTo(m) = UpTo(m - 1) \cup {<<m, k>> : k \in 1..Size[m]}
BY UpToForm, MigrationsAssumption

\* Continuing above a recorded version keeps what the runner relies on.
LEMMA ContinueForm ==
    ASSUME NEW v \in 0..Newest, known \in 1..Newest
    PROVE  /\ Continue(v) \in [at : {"applying", "ready"}, m : 0..Newest, i : Nat]
           /\ Continue(v).at = "ready" => known <= v
           /\ Continue(v).at = "applying" => /\ Continue(v).m = v + 1
                                             /\ Continue(v).m \in 1..known
                                             /\ Continue(v).i = 1
<1>1. CASE v < known
  BY <1>1, MigrationsAssumption DEF Continue
<1>2. CASE ~(v < known)
  BY <1>2, MigrationsAssumption DEF Continue, At
<1> QED BY <1>1, <1>2

\* A process that is nowhere in a migration.
LEMMA Elsewhere ==
    ASSUME NEW where \in {"stopped", "reading", "failed"}, proc' = At(where),
           TypeOK, UNCHANGED <<version, known>>, schema' = schema
    PROVE  TypeOK' /\ Progress'
<1>1. proc' = [at |-> where, m |-> 0, i |-> 0] /\ proc'.at = where
  BY DEF At
<1>2. proc' \in [at : {"stopped", "reading", "applying", "recording", "ready", "failed"},
                 m : 0..Newest, i : Nat]
  BY <1>1, MigrationsAssumption
<1>3. TypeOK'
  BY <1>1, <1>2 DEF TypeOK
<1>4. Progress'
  BY <1>1 DEF Progress
<1> QED BY <1>3, <1>4

\* The same for the step that continues.
LEMMA Onward ==
    ASSUME TypeOK, version' \in 0..Newest, UNCHANGED <<schema, known>>,
           proc' = Continue(version')
    PROVE  TypeOK' /\ Progress' /\ FailsOnlyOnRuins'
<1> DEFINE next == Continue(version')
<1>1. known \in 1..Newest
  BY DEF TypeOK
<1>2. /\ next \in [at : {"applying", "ready"}, m : 0..Newest, i : Nat]
      /\ next.at = "ready" => known <= version'
      /\ next.at = "applying" => next.m = version' + 1 /\ next.m \in 1..known /\ next.i = 1
  BY <1>1, ContinueForm
<1> HIDE DEF next
<1>3. proc' = next /\ next.at \in {"applying", "ready"}
  BY <1>2 DEF next
<1>4. proc' \in [at : {"stopped", "reading", "applying", "recording", "ready", "failed"},
                 m : 0..Newest, i : Nat]
  BY <1>2, <1>3
<1>5. next.at = "applying" => next.i \in 1..Size[next.m]
  BY <1>1, <1>2, MigrationsAssumption
<1>6. TypeOK'
  BY <1>2, <1>3, <1>4, <1>5 DEF TypeOK
<1>7. Progress' /\ FailsOnlyOnRuins'
  BY <1>2, <1>3 DEF Progress, FailsOnlyOnRuins
<1> QED BY <1>6, <1>7

-------------------------------------------------------------------------------

LEMMA InitIInv == Init => IInv
<1> SUFFICES ASSUME Init PROVE IInv
  OBVIOUS
<1>1. TypeOK
  BY MigrationsAssumption DEF Init, TypeOK, At
<1>2. SchemaIsAPrefix
  BY UpToZero DEF Init, SchemaIsAPrefix
<1>3. Progress /\ FailsOnlyOnRuins
  BY DEF Init, Progress, FailsOnlyOnRuins, At
<1> QED BY <1>1, <1>2, <1>3 DEF IInv

LEMMA ReadVersionKeeps == IInv /\ ReadVersion => IInv'
<1> SUFFICES ASSUME IInv, ReadVersion PROVE IInv'
  OBVIOUS
<1> USE DEF IInv
<1>1. UNCHANGED <<schema, version, known>> /\ SchemaIsAPrefix'
  BY DEF ReadVersion, SchemaIsAPrefix, UpTo
<1>2. CASE CreateConfig \in schema /\ InsertConfig \notin schema
  <2>1. proc' = At("failed")
    BY <1>2 DEF ReadVersion
  <2>2. version = 0
    BY <1>2, ConfigIsFirst DEF TypeOK, SchemaIsAPrefix
  <2>3. FailsOnlyOnRuins'
    BY <1>1, <1>2, <2>2, UpToZero DEF FailsOnlyOnRuins
  <2>4. TypeOK' /\ Progress'
    BY <1>1, <2>1, Elsewhere
  <2> QED BY <1>1, <2>3, <2>4
<1>3. CASE ~(CreateConfig \in schema /\ InsertConfig \notin schema)
  <2>1. CreateConfig \notin schema => version = 0
    BY ConfigIsFirst DEF TypeOK, SchemaIsAPrefix
  <2>2. proc' = Continue(version)
    BY <1>3, <2>1 DEF ReadVersion
  <2>3. version' \in 0..Newest /\ proc' = Continue(version')
    BY <1>1, <2>2 DEF TypeOK
  <2>4. TypeOK' /\ Progress' /\ FailsOnlyOnRuins'
    BY <1>1, <2>3, Onward
  <2> QED BY <1>1, <2>4
<1> QED BY <1>2, <1>3

LEMMA ExecuteKeeps == IInv /\ Execute => IInv'
<1> SUFFICES ASSUME IInv, Execute PROVE IInv'
  OBVIOUS
<1> USE DEF IInv
<1> DEFINE m == proc.m  i == proc.i
<1>1. /\ m = version + 1 /\ m \in 1..Newest /\ i \in 1..Size[m]
      /\ proc.at = "applying" /\ UNCHANGED <<version, known>>
  BY DEF Execute, TypeOK, Progress
<1>2. CASE <<m, i>> \in schema
  <2>1. schema' = schema /\ proc' = At("failed")
    BY <1>2 DEF Execute
  <2>2. <<m, i>> \notin UpTo(version)
    BY <1>1, UpToForm DEF TypeOK
  <2>3. TypeOK' /\ Progress'
    BY <1>1, <2>1, Elsewhere
  <2>4. SchemaIsAPrefix'
    BY <1>1, <2>1 DEF SchemaIsAPrefix, UpTo
  <2>5. FailsOnlyOnRuins'
    BY <1>1, <1>2, <2>1, <2>2 DEF FailsOnlyOnRuins, UpTo
  <2> QED BY <2>3, <2>4, <2>5
<1>3. CASE <<m, i>> \notin schema
  <2>1. schema' = schema \cup {<<m, i>>}
    BY <1>3 DEF Execute
  <2>2. schema = UpTo(version) \cup {<<m, k>> : k \in 1..(i - 1)}
    <3>1. CASE i = 1
      BY <1>1, <1>3, <3>1, NotBegun
    <3>2. CASE i # 1
      BY <1>1, <3>2, MigrationsAssumption DEF Progress
    <3> QED BY <3>1, <3>2
  <2>3. schema' = UpTo(version) \cup {<<m, k>> : k \in 1..i}
    BY <1>1, <2>1, <2>2, MigrationsAssumption
  <2>4. schema' \subseteq Statements
    BY <1>1, <2>1, StatementForm DEF TypeOK
  <2>5. SchemaIsAPrefix'
    <3>1. UpTo(version)' \subseteq schema'
      BY <1>1, <2>3 DEF UpTo
    <3>2. ASSUME NEW s \in schema' PROVE s[1] <= version + 1 /\ \A k \in 1..s[2] : <<s[1], k>> \in schema'
      <4>1. CASE s \in UpTo(version)
        BY <2>1, <4>1 DEF SchemaIsAPrefix
      <4>2. CASE s \in {<<m, k>> : k \in 1..i}
        BY <1>1, <2>3, <4>2 DEF TypeOK
      <4> QED BY <2>3, <4>1, <4>2
    <3> QED BY <1>1, <3>1, <3>2 DEF SchemaIsAPrefix
  <2>6. CASE i < Size[m]
    <3>1. proc' = [proc EXCEPT !.i = i + 1]
      BY <1>3, <2>6 DEF Execute
    <3>2. proc' = [at |-> "applying", m |-> m, i |-> i + 1]
      BY <1>1, <3>1 DEF TypeOK
    <3>3. TypeOK'
      BY <1>1, <2>4, <2>6, <3>2, MigrationsAssumption DEF TypeOK
    <3>4. Progress' /\ FailsOnlyOnRuins'
      BY <1>1, <2>3, <3>2, MigrationsAssumption DEF Progress, FailsOnlyOnRuins, UpTo
    <3> QED BY <2>5, <3>3, <3>4
  <2>7. CASE ~(i < Size[m])
    <3>1. proc' = [proc EXCEPT !.at = "recording"]
      BY <1>3, <2>7 DEF Execute
    <3>2. proc' = [at |-> "recording", m |-> m, i |-> i]
      BY <3>1 DEF TypeOK
    <3>3. i = Size[m]
      BY <1>1, <2>7, MigrationsAssumption
    <3>4. schema' = UpTo(m)
      BY <1>1, <2>3, <3>3, Whole DEF TypeOK
    <3>5. TypeOK'
      BY <1>1, <2>4, <3>2 DEF TypeOK
    <3>6. Progress' /\ FailsOnlyOnRuins'
      BY <1>1, <3>2, <3>4 DEF Progress, FailsOnlyOnRuins, UpTo
    <3> QED BY <2>5, <3>5, <3>6
  <2> QED BY <2>6, <2>7
<1> QED BY <1>2, <1>3

LEMMA RecordKeeps == IInv /\ Record => IInv'
<1> SUFFICES ASSUME IInv, Record PROVE IInv'
  OBVIOUS
<1> USE DEF IInv
<1>1. /\ proc.m = version + 1 /\ proc.m \in 1..known /\ proc.m \in 1..Newest
      /\ schema = UpTo(proc.m)
  BY DEF Record, TypeOK, Progress
<1>2. /\ version' = proc.m /\ proc' = Continue(proc.m)
      /\ UNCHANGED <<schema, known>>
  BY DEF Record
<1>3. version' \in 0..Newest
  BY <1>1, <1>2, MigrationsAssumption
<1>4. TypeOK' /\ Progress' /\ FailsOnlyOnRuins'
  BY <1>2, <1>3, Onward
<1>5. SchemaIsAPrefix'
  <2>1. schema' = UpTo(proc.m) /\ UpTo(version)' = UpTo(proc.m)
    BY <1>1, <1>2 DEF UpTo
  <2>2. ASSUME NEW s \in schema' PROVE s[1] <= version' + 1 /\ \A k \in 1..s[2] : <<s[1], k>> \in schema'
    <3>1. PICK m \in 1..Newest : \E i \in 1..Size[m] : s = <<m, i>>
      BY <1>2, StatementForm DEF TypeOK
    <3>2. s[1] \in Nat /\ version \in Nat
      BY <3>1 DEF TypeOK
    <3>3. s[1] <= version + 1 /\ \A k \in 1..s[2] : <<s[1], k>> \in schema
      BY <1>2 DEF SchemaIsAPrefix
    <3> QED BY <1>1, <1>2, <3>2, <3>3
  <2> QED BY <2>1, <2>2 DEF SchemaIsAPrefix
<1> QED BY <1>4, <1>5

LEMMA NextIInv == IInv /\ [Next]_vars => IInv'
<1> SUFFICES ASSUME IInv, [Next]_vars PROVE IInv'
  OBVIOUS
<1>1. ASSUME NEW where \in {"stopped", "reading"}, proc' = At(where), UNCHANGED <<schema, version, known>>
      PROVE  IInv'
  <2>1. TypeOK' /\ Progress'
    BY <1>1, Elsewhere DEF IInv
  <2>2. SchemaIsAPrefix'
    BY <1>1 DEF IInv, SchemaIsAPrefix, UpTo
  <2>3. FailsOnlyOnRuins'
    BY <1>1 DEF FailsOnlyOnRuins, At
  <2> QED BY <2>1, <2>2, <2>3 DEF IInv
<1>2. CASE Start
  BY <1>1, <1>2 DEF Start
<1>3. CASE ReadVersion
  BY <1>3, ReadVersionKeeps
<1>4. CASE Execute
  BY <1>4, ExecuteKeeps
<1>5. CASE Record
  BY <1>5, RecordKeeps
<1>6. CASE Exit
  BY <1>1, <1>6 DEF Exit
<1>7. CASE \E n \in 1..Newest : Install(n)
  BY <1>7 DEF IInv, Install, TypeOK, SchemaIsAPrefix, Progress, FailsOnlyOnRuins, UpTo
<1>8. CASE UNCHANGED vars
  BY <1>8 DEF IInv, vars, TypeOK, SchemaIsAPrefix, Progress, FailsOnlyOnRuins, UpTo
<1> QED BY <1>2, <1>3, <1>4, <1>5, <1>6, <1>7, <1>8 DEF Next, Work

\* Where the invariant holds, a runner that is done has done it all.
LEMMA IInvReady == IInv => ReadyMeansMigrated
<1> SUFFICES ASSUME IInv, proc.at = "ready" PROVE known <= version /\ UpTo(known) \subseteq schema
  BY DEF ReadyMeansMigrated
<1>1. known <= version
  BY DEF IInv, Progress
<1>2. UpTo(known) \subseteq UpTo(version)
  BY <1>1, UpToForm DEF IInv, TypeOK
<1> QED BY <1>1, <1>2 DEF IInv, SchemaIsAPrefix

LEMMA Inductive == Spec => []IInv
<1> QED BY InitIInv, NextIInv, PTL DEF Spec

-------------------------------------------------------------------------------

\* The runner never leaves its types: in particular it runs no migration that is not
\* in the binary.
THEOREM MigrationsTypeCorrect == Spec => []TypeOK
<1>1. IInv => TypeOK
  BY DEF IInv
<1> QED BY <1>1, Inductive, PTL

\* The database has always seen the recorded migrations, whole, and a beginning of the
\* next.
THEOREM MigrationsPrefix == Spec => []SchemaIsAPrefix
<1>1. IInv => SchemaIsAPrefix
  BY DEF IInv
<1> QED BY <1>1, Inductive, PTL

\* A start that succeeds has every migration of its binary in effect and recorded.
THEOREM MigrationsReady == Spec => []ReadyMeansMigrated
<1> QED BY IInvReady, Inductive, PTL

\* A start that fails has met a migration that an earlier start left unfinished or
\* unrecorded.
THEOREM MigrationsFailure == Spec => []FailsOnlyOnRuins
<1>1. IInv => FailsOnlyOnRuins
  BY DEF IInv
<1> QED BY <1>1, Inductive, PTL

\* No start, of whatever binary, takes the recorded version back.
THEOREM MigrationsMonotonic == Spec => VersionOnlyGrows
<1>1. IInv /\ [Next]_vars => [version' >= version]_vars
  BY DEF IInv, TypeOK, Progress, Next, Work, vars, Start, ReadVersion, Execute, Record, Exit, Install
<1> QED BY <1>1, Inductive, PTL DEF Spec, VersionOnlyGrows

-------------------------------------------------------------------------------
(* The service. *)

\* Outside of a migration the runner is at no statement.
AtNoStatement == proc.at \notin {"applying", "recording"} => proc = At(proc.at)

\* Where the process is says where the runner can be.
RunnerFollows ==
    /\ env \in Environment
    /\ at \in {"config", "store", "auth", "listen", "serving", "draining", "down"}
    /\ at = "config" => proc.at = "stopped"
    /\ at = "store" => proc.at # "ready"
    /\ at \in {"auth", "listen", "serving", "draining"} => proc.at = "ready"
    /\ at = "down" => proc.at \in {"stopped", "failed"}

\* The inductive invariant.
SInv == IInv /\ AtNoStatement /\ RunnerFollows

-------------------------------------------------------------------------------
(* What a step of the service is to the runner. *)

\* The end of a process is an end of the runner, or nothing if it was not running or
\* has failed.
LEMMA LeftStep ==
    ASSUME AtNoStatement, proc' = Left, UNCHANGED <<schema, version, known>>
    PROVE  Exit \/ UNCHANGED vars
<1>1. CASE proc.at = "failed"
  BY <1>1 DEF Left, vars
<1>2. CASE proc.at = "stopped"
  BY <1>2 DEF Left, vars, AtNoStatement
<1>3. CASE proc.at \notin {"failed", "stopped"}
  BY <1>3 DEF Left, Exit
<1> QED BY <1>1, <1>2, <1>3

LEMMA BesideStep ==
    ASSUME AtNoStatement, proc' = (IF at' = "down" THEN Left ELSE proc),
           UNCHANGED <<schema, version, known>>
    PROVE  Exit \/ UNCHANGED vars
<1>1. CASE at' = "down"
  BY <1>1, LeftStep
<1>2. CASE at' # "down"
  BY <1>2 DEF vars
<1> QED BY <1>1, <1>2

\* Every step of the service is a step of the migrations or leaves them alone.
LEMMA StepOfMigrations == AtNoStatement /\ [ServiceNext]_serviceVars => [Next]_vars
<1> SUFFICES ASSUME AtNoStatement, [ServiceNext]_serviceVars PROVE [Next]_vars
  OBVIOUS
<1>1. CASE RunOn
  <2>1. CASE Beside((FromEnv \/ NewAuthenticator \/ Listen \/ Shutdown) /\ env' = env)
    BY <2>1, BesideStep DEF Beside, Next
  <2>2. CASE Open
    BY <2>2 DEF Open, Next
  <2>3. CASE Migrate
    BY <2>3 DEF Migrate, Next
  <2>4. CASE OpenFails
    BY <2>4, LeftStep DEF OpenFails, Next
  <2>5. CASE Reap
    BY <2>5 DEF Reap, Next
  <2> QED BY <1>1, <2>1, <2>2, <2>3, <2>4, <2>5 DEF RunOn
<1>2. CASE Again(Restart) \/ Again(StartAgain)
  BY <1>2, BesideStep DEF Again, Beside, Next
<1>3. CASE Beside((Tick \/ ListenerFails \/ Signal \/ Kill \/ IntervalEnds) /\ env' = env)
  BY <1>3, BesideStep DEF Beside, Next
<1>4. CASE \E r \in Request : Beside((Accept(r) \/ Answer(r)) /\ env' = env)
  BY <1>4, BesideStep DEF Beside, Next
<1>5. CASE \E e \in Environment : Change(e) /\ UNCHANGED vars
  BY <1>5
<1>6. CASE \E n \in 1..Newest : Replace(n)
  BY <1>6 DEF Replace, Next
<1>7. CASE UNCHANGED serviceVars
  BY <1>7 DEF serviceVars, vars
<1> QED BY <1>1, <1>2, <1>3, <1>4, <1>5, <1>6, <1>7 DEF ServiceNext

-------------------------------------------------------------------------------
(* The invariant. *)

LEMMA InitSInv == ServiceInit => SInv
<1> SUFFICES ASSUME ServiceInit PROVE SInv
  OBVIOUS
<1>1. IInv
  BY InitIInv DEF ServiceInit
<1>2. AtNoStatement
  BY DEF ServiceInit, Init, At, AtNoStatement
<1>3. RunnerFollows
  BY DEF ServiceInit, Init, ProcessInit, At, RunnerFollows
<1> QED BY <1>1, <1>2, <1>3 DEF SInv

\* Steps of the runner keep it at no statement outside of a migration.
LEMMA NextAtNoStatement ==
    ASSUME IInv, AtNoStatement, [Next]_vars
    PROVE  AtNoStatement'
<1>1. ASSUME NEW where \in {"stopped", "reading", "ready", "failed"}, proc' = At(where)
      PROVE  AtNoStatement'
  BY <1>1 DEF At, AtNoStatement
<1>2. ASSUME NEW v, proc' = Continue(v)
      PROVE  AtNoStatement'
  <2>1. CASE v < known
    BY <1>2, <2>1 DEF Continue, AtNoStatement
  <2>2. CASE ~(v < known)
    BY <1>1, <1>2, <2>2 DEF Continue
  <2> QED BY <2>1, <2>2
<1>3. CASE Start
  BY <1>1, <1>3 DEF Start
<1>4. CASE ReadVersion
  BY <1>1, <1>2, <1>4 DEF ReadVersion
<1>5. CASE Execute
  <2>1. CASE <<proc.m, proc.i>> \in schema
    BY <1>1, <1>5, <2>1 DEF Execute
  <2>2. CASE <<proc.m, proc.i>> \notin schema /\ proc.i < Size[proc.m]
    <3>1. proc' = [proc EXCEPT !.i = @ + 1] /\ proc.at = "applying"
      BY <1>5, <2>2 DEF Execute
    <3>2. proc'.at = "applying"
      BY <3>1 DEF IInv, TypeOK
    <3> QED BY <3>2 DEF AtNoStatement
  <2>3. CASE <<proc.m, proc.i>> \notin schema /\ ~(proc.i < Size[proc.m])
    <3>1. proc' = [proc EXCEPT !.at = "recording"]
      BY <1>5, <2>3 DEF Execute
    <3>2. proc'.at = "recording"
      BY <3>1 DEF IInv, TypeOK
    <3> QED BY <3>2 DEF AtNoStatement
  <2> QED BY <2>1, <2>2, <2>3
<1>6. CASE Record
  BY <1>2, <1>6 DEF Record
<1>7. CASE Exit
  BY <1>1, <1>7 DEF Exit
<1>8. CASE \E n \in 1..Newest : Install(n)
  BY <1>8 DEF Install, AtNoStatement, At
<1>9. CASE UNCHANGED vars
  BY <1>9 DEF vars, AtNoStatement, At
<1> QED BY <1>3, <1>4, <1>5, <1>6, <1>7, <1>8, <1>9 DEF Next, Work

\* The steps of the process that go beside the runner, in three kinds.
LEMMA BesideFollows ==
    ASSUME RunnerFollows, env' = env,
           proc' = (IF at' = "down" THEN Left ELSE proc),
           \/ at' = "down"
           \/ at = "config" /\ at' = "store"
           \/ at = "down" /\ proc.at = "stopped" /\ at' = "config"
           \/ at' = at
           \/ /\ at \in {"auth", "listen", "serving", "draining"}
              /\ at' \in {"auth", "listen", "serving", "draining"}
    PROVE  RunnerFollows'
<1>1. CASE at' = "down"
  BY <1>1 DEF RunnerFollows, Left, At
<1>2. CASE at' # "down"
  BY <1>2 DEF RunnerFollows
<1> QED BY <1>1, <1>2

\* Where a migrating runner can get.
LEMMA WorkGets ==
    ASSUME IInv, Work
    PROVE  proc'.at # "stopped"
<1>1. ASSUME NEW v, proc' = Continue(v) PROVE proc'.at # "stopped"
  BY <1>1 DEF Continue, At
<1>2. CASE ReadVersion
  BY <1>1, <1>2 DEF ReadVersion, At
<1>3. CASE Execute
  BY <1>3 DEF Execute, At, IInv, TypeOK
<1>4. CASE Record
  BY <1>1, <1>4 DEF Record
<1> QED BY <1>2, <1>3, <1>4 DEF Work

LEMMA NextRunnerFollows == SInv /\ [ServiceNext]_serviceVars => RunnerFollows'
<1> SUFFICES ASSUME SInv, [ServiceNext]_serviceVars PROVE RunnerFollows'
  OBVIOUS
<1> USE DEF SInv
<1>1. CASE RunOn
  <2>1. CASE Beside((FromEnv \/ NewAuthenticator \/ Listen \/ Shutdown) /\ env' = env)
    <3>1. \/ at' = "down"
          \/ at = "config" /\ at' = "store"
          \/ /\ at \in {"auth", "listen", "serving", "draining"}
             /\ at' \in {"auth", "listen", "serving", "draining"}
      BY <2>1 DEF Beside, FromEnv, NewAuthenticator, Listen, Shutdown, Goes, Ends
    <3> QED BY <2>1, <3>1, BesideFollows DEF Beside
  <2>2. CASE Open
    BY <2>2 DEF Open, Start, processVars, RunnerFollows, At
  <2>3. CASE Migrate
    <3>1. CASE proc'.at = "ready"
      BY <2>3, <3>1 DEF Migrate, Goes, RunnerFollows
    <3>2. CASE proc'.at # "ready"
      BY <2>3, <3>2 DEF Migrate, processVars, RunnerFollows
    <3> QED BY <3>1, <3>2
  <2>4. CASE OpenFails
    BY <2>4 DEF OpenFails, Ends, Left, At, RunnerFollows
  <2>5. CASE Reap
    BY <2>5 DEF Reap, Exit, At, processVars, RunnerFollows
  <2> QED BY <1>1, <2>1, <2>2, <2>3, <2>4, <2>5 DEF RunOn
<1>2. CASE Again(Restart) \/ Again(StartAgain)
  <2>1. at = "down" /\ proc.at = "stopped" /\ at' = "config"
    BY <1>2 DEF Again, Beside, Restart, StartAgain, Launch
  <2> QED BY <1>2, <2>1, BesideFollows DEF Again, Beside
<1>3. CASE Beside((Tick \/ ListenerFails \/ Signal \/ Kill \/ IntervalEnds) /\ env' = env)
  <2>1. \/ at' = "down" \/ at' = at
        \/ /\ at \in {"auth", "listen", "serving", "draining"}
           /\ at' \in {"auth", "listen", "serving", "draining"}
    BY <1>3 DEF Beside, Tick, ListenerFails, Signal, Kill, IntervalEnds, Ends
  <2> QED BY <1>3, <2>1, BesideFollows DEF Beside
<1>4. CASE \E r \in Request : Beside((Accept(r) \/ Answer(r)) /\ env' = env)
  <2>1. at' = at
    BY <1>4 DEF Beside, Accept, Answer
  <2> QED BY <1>4, <2>1, BesideFollows DEF Beside
<1>5. CASE \E e \in Environment : Change(e) /\ UNCHANGED vars
  BY <1>5 DEF Change, vars, RunnerFollows
<1>6. CASE \E n \in 1..Newest : Replace(n)
  BY <1>6 DEF Replace, Install, processVars, RunnerFollows
<1>7. CASE UNCHANGED serviceVars
  BY <1>7 DEF serviceVars, vars, processVars, RunnerFollows
<1> QED BY <1>1, <1>2, <1>3, <1>4, <1>5, <1>6, <1>7 DEF ServiceNext

LEMMA NextSInv == SInv /\ [ServiceNext]_serviceVars => SInv'
<1> SUFFICES ASSUME SInv, [ServiceNext]_serviceVars PROVE SInv'
  OBVIOUS
<1>1. [Next]_vars
  BY StepOfMigrations DEF SInv
<1>2. IInv'
  BY <1>1, NextIInv DEF SInv
<1>3. AtNoStatement'
  BY <1>1, NextAtNoStatement DEF SInv
<1>4. RunnerFollows'
  BY NextRunnerFollows
<1> QED BY <1>2, <1>3, <1>4 DEF SInv

LEMMA ServiceInductive == ServiceSpec => []SInv
<1> QED BY InitSInv, NextSInv, PTL DEF ServiceSpec

-------------------------------------------------------------------------------
(* Seen from outside. *)

\* The environment as it looks from outside.
Outside == [env EXCEPT !.store = @ /\ proc.at # "failed"]

LEMMA OutsideForm ==
    ASSUME RunnerFollows
    PROVE  /\ Outside \in Environment
           /\ Outside.config = env.config /\ Outside.oidc = env.oidc /\ Outside.key = env.key
           /\ Outside.microsoft = env.microsoft /\ Outside.port = env.port
           /\ Outside.store = (env.store /\ proc.at # "failed")
BY DEF RunnerFollows, Environment, Outside

\* What a step that leaves the environment alone, and hides no failure, shows outside.
LEMMA OutsideSame ==
    ASSUME env' = env, (proc.at = "failed") <=> (proc'.at = "failed")
    PROVE  Outside' = Outside
BY DEF Outside

\* A failing migration, or the notice of it, looks like a disk that fails or recovers.
LEMMA OutsideChanges ==
    ASSUME RunnerFollows, RunnerFollows', env' = env, UNCHANGED <<at, auth, code, open, drained, told, starts>>
    PROVE  Seen!ProcessNext
<1>1. Outside' \in Environment /\ <<Outside.config, Outside.oidc, Outside.key>>'
          = <<Outside.config, Outside.oidc, Outside.key>>
  BY DEF RunnerFollows, Environment, Outside
<1>2. Seen!Change(Outside')
  BY <1>1 DEF Seen!Change, Outside
<1> QED BY <1>1, <1>2 DEF Seen!ProcessNext, Seen!Environment, Environment

\* The end of a process keeps what its runner shows.
LEMMA BesideShows ==
    ASSUME proc' = (IF at' = "down" THEN Left ELSE proc)
    PROVE  (proc.at = "failed") <=> (proc'.at = "failed")
BY DEF Left, At

LEMMA OpenSeen ==
    ASSUME RunnerFollows, RunnerFollows', Open
    PROVE  UNCHANGED <<Outside, at, auth, code, open, drained, told, starts>>
<1>1. (proc.at = "failed") <=> (proc'.at = "failed")
  BY DEF Open, Start, At
<1> QED BY <1>1, OutsideSame DEF Open, processVars

LEMMA MigrateSeen ==
    ASSUME RunnerFollows, RunnerFollows', Migrate
    PROVE  Seen!ProcessNext
<1>1. CASE proc'.at = "ready"
  <2>1. proc.at # "failed"
    BY DEF Migrate, Work, ReadVersion, Execute, Record
  <2>2. Outside' = Outside
    BY <1>1, <2>1, OutsideSame DEF Migrate
  <2>3. Outside.store
    BY <2>1, OutsideForm DEF Migrate
  <2>4. Seen!OpenStore
    BY <1>1, <2>3 DEF Migrate, Goes, Seen!OpenStore, Seen!Goes, Outside
  <2> QED BY <2>2, <2>4 DEF Seen!ProcessNext, Seen!Run, Outside
<1>2. CASE proc'.at # "ready"
  BY <1>2, OutsideChanges DEF Migrate, processVars
<1> QED BY <1>1, <1>2

LEMMA OpenFailsSeen ==
    ASSUME RunnerFollows, OpenFails
    PROVE  Seen!ProcessNext
<1>1. (proc.at = "failed") <=> (proc'.at = "failed")
  BY DEF OpenFails, Left, At
<1>2. Outside' = Outside
  BY <1>1, OutsideSame DEF OpenFails
<1>3. ~Outside.store
  BY OutsideForm DEF OpenFails
<1>4. Seen!OpenStore
  BY <1>3 DEF OpenFails, Ends, Error, Seen!OpenStore, Seen!Ends, Seen!Error, Outside
<1> QED BY <1>2, <1>4 DEF Seen!ProcessNext, Seen!Run, Outside

\* A step of the process itself is the same step seen from outside.
LEMMA RunSeen ==
    ASSUME RunnerFollows, Beside((FromEnv \/ NewAuthenticator \/ Listen \/ Shutdown) /\ env' = env)
    PROVE  Seen!ProcessNext
<1>1. Outside' = Outside
  BY BesideShows, OutsideSame DEF Beside
<1>2. CASE FromEnv
  <2>1. Seen!FromEnv
    BY <1>2, OutsideForm DEF FromEnv, Goes, Ends, Usage, Seen!FromEnv, Seen!Goes, Seen!Ends, Seen!Usage, Outside
  <2> QED BY <1>1, <2>1 DEF Seen!ProcessNext, Seen!Run, Outside
<1>3. CASE NewAuthenticator
  <2>1. Outside.store = env.store
    BY <1>3 DEF NewAuthenticator, RunnerFollows, Environment, Outside
  <2>2. auth' = (Outside.oidc /\ Outside.store /\ Outside.microsoft /\ Outside.key # "malformed")
    BY <1>3, <2>1, OutsideForm DEF NewAuthenticator
  <2>3. Seen!NewAuthenticator
    BY <1>3, <2>2 DEF NewAuthenticator, Seen!NewAuthenticator, Outside
  <2> QED BY <1>1, <2>3 DEF Seen!ProcessNext, Seen!Run, Outside
<1>4. CASE Listen
  <2>1. Seen!Listen
    BY <1>4, OutsideForm DEF Listen, Goes, Ends, Error, Seen!Listen, Seen!Goes, Seen!Ends, Seen!Error, Outside
  <2> QED BY <1>1, <2>1 DEF Seen!ProcessNext, Seen!Run, Outside
<1>5. CASE Shutdown
  <2>1. Seen!Shutdown
    BY <1>5 DEF Shutdown, Ends, Ok, Error, Seen!Shutdown, Seen!Ends, Seen!Ok, Seen!Error
  <2> QED BY <1>1, <2>1 DEF Seen!ProcessNext, Seen!Run, Outside
<1> QED BY <1>2, <1>3, <1>4, <1>5 DEF Beside

\* Neither do launches, kills, signals, the clock and the requests look different.
LEMMA LaunchSeen ==
    ASSUME RunnerFollows, Again(Restart) \/ Again(StartAgain)
    PROVE  Seen!ProcessNext
<1>1. Outside' = Outside
  BY BesideShows, OutsideSame DEF Again, Beside
<1>2. Seen!Restart \/ Seen!StartAgain
  BY DEF Again, Beside, Restart, StartAgain, Launch, Clean, Ok, Signalled,
         Seen!Restart, Seen!StartAgain, Seen!Launch, Seen!Clean, Seen!Ok, Seen!Signalled
<1> QED BY <1>1, <1>2 DEF Seen!ProcessNext, Outside

LEMMA EventSeen ==
    ASSUME RunnerFollows, Beside((Tick \/ ListenerFails \/ Signal \/ Kill \/ IntervalEnds) /\ env' = env)
    PROVE  Seen!ProcessNext
<1>1. Outside' = Outside
  BY BesideShows, OutsideSame DEF Beside
<1>2. Seen!Tick \/ Seen!ListenerFails \/ Seen!Signal \/ Seen!Kill \/ Seen!IntervalEnds
  BY DEF Beside, Tick, ListenerFails, Signal, Kill, IntervalEnds, Ends, Error, Signalled, Killed,
         Starting, Seen!Tick, Seen!ListenerFails, Seen!Signal, Seen!Kill, Seen!IntervalEnds,
         Seen!Ends, Seen!Error, Seen!Signalled, Seen!Killed, Seen!Starting
<1> QED BY <1>1, <1>2 DEF Seen!ProcessNext, Outside

LEMMA RequestSeen ==
    ASSUME RunnerFollows, NEW r \in Request, Beside((Accept(r) \/ Answer(r)) /\ env' = env)
    PROVE  Seen!ProcessNext
<1>1. Outside' = Outside
  BY BesideShows, OutsideSame DEF Beside
<1>2. Seen!Accept(r) \/ Seen!Answer(r)
  BY DEF Beside, Accept, Answer, Seen!Accept, Seen!Answer
<1> QED BY <1>1, <1>2 DEF Seen!ProcessNext, Outside

\* What changes in the world changes in what is seen of it.
LEMMA ChangeSeen ==
    ASSUME RunnerFollows, RunnerFollows', NEW e \in Environment, Change(e), UNCHANGED vars
    PROVE  Seen!ProcessNext
<1>1. Outside' \in Environment
  BY DEF RunnerFollows, Environment, Outside
<1>2. at = "down" \/ <<Outside.config, Outside.oidc, Outside.key>>'
                      = <<Outside.config, Outside.oidc, Outside.key>>
  BY DEF Change, RunnerFollows, Environment, Outside
<1>3. Seen!Change(Outside')
  BY <1>2 DEF Change, Seen!Change, Outside
<1> QED BY <1>1, <1>3 DEF Seen!ProcessNext, Seen!Environment, Environment

LEMMA InitSeen == ServiceInit => Seen!ProcessInit
<1> SUFFICES ASSUME ServiceInit PROVE Seen!ProcessInit
  OBVIOUS
<1>1. Outside \in Environment
  BY InitSInv, OutsideForm DEF SInv
<1> QED BY <1>1 DEF ServiceInit, ProcessInit, Ok, Environment, Seen!ProcessInit, Seen!Ok,
                    Seen!Environment, Outside

LEMMA StepSeen == SInv /\ SInv' /\ [ServiceNext]_serviceVars => [Seen!ProcessNext]_(Seen!processVars)
<1> SUFFICES ASSUME SInv, SInv', [ServiceNext]_serviceVars
             PROVE  Seen!ProcessNext \/ UNCHANGED <<Outside, at, auth, code, open, drained, told, starts>>
  BY DEF Seen!processVars, Outside
<1>1. RunnerFollows /\ RunnerFollows'
  BY DEF SInv
<1>2. CASE RunOn
  <2>1. CASE Reap
    BY <1>1, <2>1, OutsideChanges DEF Reap, processVars
  <2> QED BY <1>1, <1>2, <2>1, RunSeen, OpenSeen, MigrateSeen, OpenFailsSeen DEF RunOn
<1>3. CASE Again(Restart) \/ Again(StartAgain)
  BY <1>1, <1>3, LaunchSeen
<1>4. CASE Beside((Tick \/ ListenerFails \/ Signal \/ Kill \/ IntervalEnds) /\ env' = env)
  BY <1>1, <1>4, EventSeen
<1>5. CASE \E r \in Request : Beside((Accept(r) \/ Answer(r)) /\ env' = env)
  BY <1>1, <1>5, RequestSeen
<1>6. CASE \E e \in Environment : Change(e) /\ UNCHANGED vars
  BY <1>1, <1>6, ChangeSeen
<1>7. CASE \E n \in 1..Newest : Replace(n)
  BY <1>7, OutsideSame DEF Replace, Install, processVars
<1>8. CASE UNCHANGED serviceVars
  BY <1>8, OutsideSame DEF serviceVars, vars, processVars
<1> QED BY <1>2, <1>3, <1>4, <1>5, <1>6, <1>7, <1>8 DEF ServiceNext

-------------------------------------------------------------------------------

\* Whatever becomes of the process, what happens to the database is a behaviour of the
\* migration runner: all that is proved of it holds inside the service.
THEOREM ServiceMigrates == ServiceSpec => Spec
<1>1. ServiceInit => Init
  BY DEF ServiceInit
<1>2. SInv /\ [ServiceNext]_serviceVars => [Next]_vars
  BY StepOfMigrations DEF SInv
<1> QED BY <1>1, <1>2, ServiceInductive, PTL DEF ServiceSpec, Spec

\* A process never serves on a database that lacks a statement its binary relies on,
\* whichever binaries were killed at whichever statement before.
THEOREM ServiceServesMigrated == ServiceSpec => []ServesMigrated
<1>1. SInv => ServesMigrated
  <2> SUFFICES ASSUME SInv, at \in {"listen", "serving", "draining"}
               PROVE  proc.at = "ready" /\ known <= version /\ UpTo(known) \subseteq schema
    BY DEF ServesMigrated
  <2>1. proc.at = "ready"
    BY DEF SInv, RunnerFollows
  <2>2. ReadyMeansMigrated
    BY IInvReady DEF SInv
  <2> QED BY <2>1, <2>2 DEF ReadyMeansMigrated
<1> QED BY <1>1, ServiceInductive, PTL

\* In the service too, a migration fails only on what an earlier start left unfinished.
THEOREM ServiceFailure == ServiceSpec => []FailsOnlyOnRuins
<1> QED BY ServiceMigrates, MigrationsFailure, PTL

\* The service as a whole implements the process that opens its database in one step.
THEOREM ServiceIsAProcess == ServiceSpec => ImplementsProcess
<1> QED BY InitSeen, StepSeen, ServiceInductive, PTL DEF ServiceSpec, ImplementsProcess, Seen!ProcessSpec

===============================================================================
