-------------------------------- MODULE Process --------------------------------
(***************************************************************************)
(* One xensus service from start to exit: main and Run, with what decides  *)
(* whether sign-in is on, and the drain at the end.                        *)
(*                                                                         *)
(* The service runs under systemd as the README sets it up                 *)
(* (Restart=on-failure, and no StartLimit of its own): after an exit with  *)
(* a failure it is started again, after a clean one it is not; and not     *)
(* more than StartLimitBurst times within StartLimitIntervalSec, after     *)
(* which the unit stays failed until somebody starts it.                   *)
(*                                                                         *)
(* Opening the database is one step here, which succeeds or fails; module  *)
(* Service has what happens inside it, and implements this specification.  *)
(***************************************************************************)
EXTENDS Naturals

CONSTANTS
    Request,    \* the requests that may be open at a time
    Drain,      \* Run's 10 seconds for the drain, in ticks of the clock
    Burst       \* StartLimitBurst: 5 by default, in 10 seconds

ASSUME ProcessAssumption == Drain \in Nat \ {0} /\ Burst \in Nat \ {0}

VARIABLES
    env,        \* what the start depends on: see Environment
    at,         \* where the process is
    auth,       \* is there an Authenticator: are its routes registered
    code,       \* the status of the last exit
    open,       \* the requests being handled
    drained,    \* how long the drain has lasted
    told,       \* has the process been sent a signal
    starts      \* the starts systemd has counted in its interval

processVars == <<env, at, auth, code, open, drained, told, starts>>

\* config: what FromEnv requires is set and well formed.  oidc: the three variables
\* of the Entra application.  key: XENSUS_SESSION_KEY.  store: the database opens.
\* microsoft: its discovery document can be fetched.  port: nobody else listens.
Environment == [config : BOOLEAN, oidc : BOOLEAN, key : {"unset", "valid", "malformed"},
                store : BOOLEAN, microsoft : BOOLEAN, port : BOOLEAN]

Starting == {"config", "store", "auth", "listen"}

\* Exit statuses; a process that a signal ends has none of its own.
Ok == 0
Error == 1
Usage == 2
Signalled == 15
Killed == 9

\* What systemd takes for a stop and not for a failure.
Clean == {Ok, Signalled}

ProcessInit ==
    /\ env \in Environment
    /\ at = "config"
    /\ auth = FALSE /\ code = Ok /\ open = {} /\ drained = 0 /\ told = FALSE
    /\ starts = 1

-------------------------------------------------------------------------------
(* main and Run. *)

\* Mutant: errors are logged but not reflected in the status.
Ends_Ok(status) ==
    /\ at' = "down" /\ code' = Ok
    /\ open' = {} /\ auth' = FALSE /\ drained' = 0
    /\ UNCHANGED <<told, starts>>

\* The process ends, with whatever it was doing.
Ends(status) ==
    /\ at' = "down" /\ code' = status
    /\ open' = {} /\ auth' = FALSE /\ drained' = 0
    /\ UNCHANGED <<told, starts>>

Goes(place) == at' = place /\ UNCHANGED <<auth, code, open, drained, told, starts>>

FromEnv ==
    /\ at = "config"
    /\ IF env.config THEN Goes("store") ELSE Ends(Usage)

OpenStore ==
    /\ at = "store"
    /\ IF env.store THEN Goes("auth") ELSE Ends(Error)

\* auth.New: RequireOIDC, BoundTenantID, NewProvider, NewSessionStore; any error
\* turns sign-in off and lets the start go on.
NewAuthenticator ==
    /\ at = "auth"
    /\ auth' = (env.oidc /\ env.store /\ env.microsoft /\ env.key # "malformed")
    /\ at' = "listen"
    /\ UNCHANGED <<code, open, drained, told, starts>>

Listen ==
    /\ at = "listen"
    /\ IF env.port THEN Goes("serving") ELSE Ends(Error)

\* The listener fails later on: Run returns at once.
ListenerFails == at = "serving" /\ Ends(Error)

\* A request to a route there is: /health and /static always, the rest with auth.
Accept(r) ==
    /\ at = "serving" /\ r \notin open
    /\ open' = open \cup {r}
    /\ UNCHANGED <<at, auth, code, drained, told, starts>>

Answer(r) ==
    /\ r \in open
    /\ open' = open \ {r}
    /\ UNCHANGED <<at, auth, code, drained, told, starts>>

\* SIGTERM or SIGINT.  Until Run has asked to be notified, which it does just before it
\* listens, a signal ends the process.
Signal ==
    /\ told' = TRUE /\ starts' = starts
    /\ \/ /\ at \in {"listen", "serving"} /\ at' = "draining"
          /\ UNCHANGED <<auth, code, open, drained>>
       \/ /\ at \in Starting /\ at' = "down" /\ code' = Signalled /\ auth' = FALSE
          /\ UNCHANGED <<open, drained>>

\* Mutant: the shutdown has no deadline.
Shutdown_Waits == at = "draining" /\ open = {} /\ Ends(Ok)

\* srv.Shutdown returns: nothing is open any more, or the deadline has passed.
Shutdown ==
    /\ at = "draining"
    /\ \/ open = {} /\ Ends(Ok)
       \/ open # {} /\ drained = Drain /\ Ends(Error)

-------------------------------------------------------------------------------
(* Around it. *)

Tick ==
    /\ at = "draining" /\ drained < Drain
    /\ drained' = drained + 1
    /\ UNCHANGED <<at, auth, code, open, told, starts>>

Kill == at # "down" /\ Ends(Killed)

Launch(n) ==
    /\ at = "down" /\ n <= Burst
    /\ at' = "config" /\ told' = FALSE /\ starts' = n
    /\ UNCHANGED <<auth, code, open, drained>>

\* systemd, after a failure, until it has started the unit Burst times in an interval.
Restart == code \notin Clean /\ Launch(starts + 1)

\* The operator, at any time, who may wait for the next interval or reset the count.
StartAgain == \E n \in {1, starts + 1} : Launch(n)

\* The interval ends and no start is counted any more.  (systemd waits 100 ms before it
\* starts again: an interval that ends in them is taken to end before the exit.)
IntervalEnds ==
    /\ at # "down" /\ starts' = 0
    /\ UNCHANGED <<at, auth, code, open, drained, told>>

\* systemd does not start it again: the unit stays failed.
GaveUp == at = "down" /\ code \notin Clean /\ starts = Burst

\* Networks, disks and neighbours change at any time, the variables of the process
\* only between two runs.
Change(e) ==
    /\ at = "down" \/ <<e.config, e.oidc, e.key>> = <<env.config, env.oidc, env.key>>
    /\ env' = e
    /\ UNCHANGED <<at, auth, code, open, drained, told, starts>>

Run == FromEnv \/ OpenStore \/ NewAuthenticator \/ Listen \/ Shutdown

ProcessNext ==
    \/ /\ \/ Run \/ Tick \/ Restart
          \/ ListenerFails \/ Signal \/ Kill \/ StartAgain \/ IntervalEnds
          \/ \E r \in Request : Accept(r) \/ Answer(r)
       /\ env' = env
    \/ \E e \in Environment : Change(e)

ProcessSpec == ProcessInit /\ [][ProcessNext]_processVars

-------------------------------------------------------------------------------
(* Properties. *)

\* "Shutdown is graceful with a 10s deadline" (server.go): whoever is told to stop does,
\* wherever in its start, a migration or its drain it is, and though a request that was
\* being handled may never end.
StopEnds == told ~> at = "down"

\* router.go: there is no Authenticator only "because the deployment isn't bound yet or
\* OIDC env vars are unset".  Does not hold: a start during which Microsoft cannot be
\* reached, or with a malformed session key, serves /health and nothing else, until
\* somebody notices and restarts it.
AuthIsOffOnlyByChoice == at = "serving" /\ env.oidc => auth

===============================================================================
