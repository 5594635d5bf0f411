-------------------------------- MODULE Service --------------------------------
(***************************************************************************)
(* A xensus service over its life: Process with store.Open as Migrations   *)
(* has it, statement by statement, so that a process can be killed, be     *)
(* told to stop or lose its disk in the middle of a migration, and the     *)
(* next one, of the same binary or another, opens what it left.            *)
(*                                                                         *)
(* Seen from outside this is a Process whose database opens or not.        *)
(***************************************************************************)
EXTENDS Migrations, Process

serviceVars == <<vars, processVars>>

ServiceInit == Init /\ ProcessInit

-------------------------------------------------------------------------------

\* What is left of the runner when the process ends: a failure is there to be seen.
Left == IF proc.at = "failed" THEN proc ELSE At("stopped")

\* A step of the process that has no part in the migrations.
Beside(step) ==
    /\ step
    /\ proc' = IF at' = "down" THEN Left ELSE proc
    /\ UNCHANGED <<schema, version, known>>

\* store.Open: the runner starts, does its work on a disk that works, and the start
\* goes on with the database.
Open ==
    /\ at = "store" /\ env.store
    /\ Start
    /\ UNCHANGED processVars

Migrate ==
    /\ at = "store" /\ env.store
    /\ Work
    /\ IF proc'.at = "ready" THEN Goes("auth") /\ env' = env ELSE UNCHANGED processVars

\* Mutant: like an error of auth.New, one of store.Open is logged and the start goes on.
OpenFails_GoesOn ==
    /\ at = "store" /\ (proc.at = "failed" \/ ~env.store)
    /\ Goes("auth") /\ env' = env
    /\ proc' = At("ready")
    /\ UNCHANGED <<schema, version, known>>

\* Or Run returns the error.
OpenFails ==
    /\ at = "store" /\ (proc.at = "failed" \/ ~env.store)
    /\ Ends(Error) /\ env' = env
    /\ proc' = Left
    /\ UNCHANGED <<schema, version, known>>

\* systemd notices the end of a process whose migration failed.
Reap ==
    /\ at = "down" /\ proc.at = "failed"
    /\ Exit
    /\ UNCHANGED processVars

\* Between two runs the operator may install another binary.
Replace(n) ==
    /\ at = "down"
    /\ Install(n)
    /\ UNCHANGED processVars

RunOn ==
    \/ Beside((FromEnv \/ NewAuthenticator \/ Listen \/ Shutdown) /\ env' = env)
    \/ Open \/ Migrate \/ OpenFails \/ Reap

\* A process is started once its predecessor is gone.
Again(launch) == proc.at = "stopped" /\ Beside(launch /\ env' = env)

ServiceNext ==
    \/ RunOn
    \/ Again(Restart) \/ Again(StartAgain)
    \/ Beside((Tick \/ ListenerFails \/ Signal \/ Kill \/ IntervalEnds) /\ env' = env)
    \/ \E r \in Request : Beside((Accept(r) \/ Answer(r)) /\ env' = env)
    \/ \E e \in Environment : Change(e) /\ UNCHANGED vars
    \/ \E n \in 1..Newest : Replace(n)

ServiceSpec == ServiceInit /\ [][ServiceNext]_serviceVars

\* The process runs and its clock ticks; systemd restarts what it did not stop itself, as
\* long as its start limit lets it (see Restart).  No request need ever be answered: a
\* client may read as slowly as it likes.
ServiceFairSpec ==
    ServiceSpec /\ WF_serviceVars(RunOn) /\ WF_serviceVars(Beside(Tick /\ env' = env))
                /\ WF_serviceVars(~told /\ Again(Restart))

-------------------------------------------------------------------------------
(* Properties. *)

\* Where the process serves, the database is the one its binary was written for, from
\* the first request to the last of the drain.
ServesMigrated ==
    at \in {"listen", "serving", "draining"} =>
        proc.at = "ready" /\ known <= version /\ UpTo(known) \subseteq schema

\* Seen from outside, the service is a process that opens its database in one step: what
\* kills, signals and crashes do inside store.Open is never seen as anything else than
\* a start that fails or an exit.
Seen == INSTANCE Process WITH env <- [env EXCEPT !.store = @ /\ proc.at # "failed"]

ImplementsProcess == Seen!ProcessSpec

\* Once the environment stays what the service needs and nothing kills it, it serves for
\* good, or it was told to stop, or systemd has given it up: no error of a start, no crash
\* and no change of the binary leaves it in between.  Unless starts fail for ever, which
\* only a migration that an earlier one left unfinished can cause (see FailsOnlyOnRuins).
Undisturbed ==
    /\ <>[](env.config /\ env.store /\ env.port)
    /\ <>[][~Kill /\ ~Signal /\ ~ListenerFails]_processVars

ServesOrIsGivenUp ==
    Undisturbed => \/ <>[](at = "serving")
                   \/ <>[](at = "down" /\ told)
                   \/ <>[]GaveUp
                   \/ []<>(proc.at = "failed")

===============================================================================
