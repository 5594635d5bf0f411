-------------------------------- MODULE Server --------------------------------
(***************************************************************************)
(* The running process: requests served concurrently, each by its own      *)
(* goroutine, on one SQLite database.                                      *)
(*                                                                         *)
(* A write request is admitted by auth.Authenticate and RequireSteward,    *)
(* which read the database outside any transaction; then the handler calls *)
(* one function of core, which runs its own deferred transaction.  A       *)
(* sign-in runs up to two of them, Bootstrap and ClaimPendingSteward, and   *)
(* between the two stores the bound tenant in the Authenticator.           *)
(*                                                                         *)
(* The database is SQLite in WAL mode: a transaction reads the snapshot of *)
(* its first statement; one writer at a time; a transaction that has read  *)
(* may write only if its snapshot is still the newest, and fails at once   *)
(* otherwise; one whose first statement writes waits for the writer, up to *)
(* busy_timeout.                                                           *)
(***************************************************************************)
EXTENDS Operations

CONSTANTS
    Request,        \* goroutines
    Bearer,         \* claims of the Entra tokens that API clients hold
    KeyConfigured   \* XENSUS_SESSION_KEY is set: cookies outlive the process

Claims == {[oid |-> a.oid, upn |-> a.upn, tid |-> tid] : a \in Actor, tid \in TID}

ASSUME ServerAssumption == Bearer \subseteq Claims /\ KeyConfigured \in BOOLEAN

-------------------------------------------------------------------------------

VARIABLES
    db,         \* the committed database
    mem,        \* Authenticator.tenantID
    sessions,   \* the claims of the session cookies this process can decrypt
    req         \* the requests in progress

vars == <<db, mem, sessions, req>>

\* A request is being answered or its slot is idle; in between it is at "begin"
\* (core is called), "read" (the transaction has read and decided to write),
\* "writing" (it holds the write lock) or "returned" (core has returned).
Idle == [at |-> "idle"]

Calling(c, op) == [at |-> "begin", claims |-> c, op |-> op]

Init == /\ db = EmptyDatabase
        /\ mem = NoTenant
        /\ sessions = {}
        /\ req = [r \in Request |-> Idle]

ActorOf(c) == [oid |-> c.oid, upn |-> c.upn]

Answer(r) == req' = [req EXCEPT ![r] = Idle]

Call(r, c, op) == req' = [req EXCEPT ![r] = Calling(c, op)]

Return(r, result) ==
    req' = [req EXCEPT ![r] = [at |-> "returned", claims |-> @.claims, op |-> @.op,
                               result |-> result]]

-------------------------------------------------------------------------------
(* Write requests.  Whatever is refused before core is called (401, 403)   *)
(* changes nothing and is left out.                                        *)

Authenticated(c) == mem # NoTenant /\ c.tid = mem

\* Mutant: a write route registered behind RequireUser instead of RequireSteward.
Admit_AnyUser(r, c, op) ==
    /\ req[r].at = "idle"
    /\ Authenticated(c)
    /\ Call(r, c, op)
    /\ UNCHANGED <<db, mem, sessions>>

\* Authenticate and RequireSteward: the steward row is read now, outside the
\* transaction that will do the write.
Admit(r, c, op) ==
    /\ req[r].at = "idle"
    /\ Authenticated(c)
    /\ IsActiveSteward(db, c.oid)
    /\ Call(r, c, op)
    /\ UNCHANGED <<db, mem, sessions>>

\* Mutant: the handler retries on SQLITE_BUSY until it gets through.
Respond_Retries(r) ==
    /\ req[r].at = "returned"
    /\ req[r].op \in Operation
    /\ IF req[r].result = "busy" THEN Call(r, req[r].claims, req[r].op) ELSE Answer(r)
    /\ UNCHANGED <<db, mem, sessions>>

\* The handler turns what core returned into a status.
Respond(r) ==
    /\ req[r].at = "returned"
    /\ req[r].op \in Operation
    /\ Answer(r)
    /\ UNCHANGED <<db, mem, sessions>>

-------------------------------------------------------------------------------
(* A call of core: one deferred transaction. *)

NobodyWrites == \A r \in Request : req[r].at # "writing"

\* The reads, all from one snapshot, and the decision.
Read(r) ==
    /\ req[r].at = "begin"
    /\ ~InsertsFirst(req[r].op)
    /\ LET outcome == Outcome(db, ActorOf(req[r].claims), req[r].op)
       IN IF outcome = Written
          THEN req' = [req EXCEPT ![r] = [at |-> "read", claims |-> @.claims, op |-> @.op,
                                          snap |-> db]]
          ELSE Return(r, outcome)
    /\ UNCHANGED <<db, mem, sessions>>

\* Mutant: reads and writes on the pool instead of on the transaction: the write
\* waits for the lock but not for the snapshot it was decided on.
Upgrade_Stale(r) ==
    /\ req[r].at = "read"
    /\ IF NobodyWrites
       THEN req' = [req EXCEPT ![r].at = "writing"]
       ELSE Return(r, "busy")
    /\ UNCHANGED <<db, mem, sessions>>

\* The first write after a read: at once, or SQLITE_BUSY.
Upgrade(r) ==
    /\ req[r].at = "read"
    /\ IF NobodyWrites /\ req[r].snap = db
       THEN req' = [req EXCEPT ![r].at = "writing"]
       ELSE Return(r, "busy")
    /\ UNCHANGED <<db, mem, sessions>>

\* A transaction that starts with a write waits for the lock...
Insert(r) ==
    /\ req[r].at = "begin"
    /\ InsertsFirst(req[r].op)
    /\ IF Outcome(db, ActorOf(req[r].claims), req[r].op) = Written
       THEN /\ NobodyWrites
            /\ req' = [req EXCEPT ![r] = [at |-> "writing", claims |-> @.claims,
                                          op |-> @.op, snap |-> db]]
       ELSE Return(r, Outcome(db, ActorOf(req[r].claims), req[r].op))
    /\ UNCHANGED <<db, mem, sessions>>

\* ... but not longer than busy_timeout.
BusyTimeout(r) ==
    /\ req[r].at = "begin"
    /\ InsertsFirst(req[r].op)
    /\ ~NobodyWrites
    /\ Return(r, "busy")
    /\ UNCHANGED <<db, mem, sessions>>

\* What the statements have made of the snapshot becomes the database.
Commit(r) ==
    /\ req[r].at = "writing"
    /\ db' = Tx(req[r].snap, ActorOf(req[r].claims), req[r].op)
    /\ Return(r, Written)
    /\ UNCHANGED <<mem, sessions>>

\* The client goes away: its context is cancelled and the next statement, or the
\* COMMIT, fails; the deferred Rollback frees the lock.
Cancel(r) ==
    /\ req[r].at \in {"begin", "read", "writing"}
    /\ Return(r, "canceled")
    /\ UNCHANGED <<db, mem, sessions>>

-------------------------------------------------------------------------------
(* Sign-in: completeSignIn, after Entra has vouched for the claims. *)

\* Unbound, as far as the process knows: try to bind.  Bound: claims of another
\* tenant are refused (403, which changes nothing).
SignIn(r, c) ==
    /\ req[r].at = "idle"
    /\ \/ /\ mem = NoTenant
          /\ Call(r, c, [f |-> "Bootstrap", tid |-> c.tid])
       \/ /\ mem # NoTenant
          /\ c.tid = mem
          /\ Call(r, c, [f |-> "ClaimPendingSteward"])
    /\ UNCHANGED <<db, mem, sessions>>

\* Mutants: the loser of the race keeps the tenant of its own claims; the winner
\* forgets setTenant.
BootstrapReturned_OwnTenant(r) ==
    /\ req[r].at = "returned"
    /\ req[r].op.f = "Bootstrap"
    /\ \/ /\ req[r].result \in {Written, "ErrAlreadyBound"}
          /\ mem' = req[r].claims.tid
          /\ Call(r, req[r].claims, [f |-> "ClaimPendingSteward"])
       \/ /\ req[r].result \notin {Written, "ErrAlreadyBound"}
          /\ mem' = mem
          /\ Answer(r)
    /\ UNCHANGED <<db, sessions>>

BootstrapReturned_NotStored(r) ==
    /\ req[r].at = "returned"
    /\ req[r].op.f = "Bootstrap"
    /\ IF req[r].result = Written
       THEN Call(r, req[r].claims, [f |-> "ClaimPendingSteward"])
       ELSE Answer(r)
    /\ UNCHANGED <<db, mem, sessions>>

\* Bootstrap has returned.  ErrAlreadyBound re-reads the tenant from the database
\* (which may fail as any read) and goes on as if it had been known.
BootstrapReturned(r) ==
    /\ req[r].at = "returned"
    /\ req[r].op.f = "Bootstrap"
    /\ LET c == req[r].claims IN
       \/ /\ req[r].result = Written
          /\ mem' = c.tid
          /\ Call(r, c, [f |-> "ClaimPendingSteward"])
       \/ /\ req[r].result = "ErrAlreadyBound"
          /\ mem' = db.tenant
          /\ IF c.tid = db.tenant
             THEN Call(r, c, [f |-> "ClaimPendingSteward"])
             ELSE Answer(r)
       \/ /\ req[r].result # Written
          /\ mem' = mem
          /\ Answer(r)
    /\ UNCHANGED <<db, sessions>>

\* The claim has returned, with or without success: write the session cookie.
ClaimReturned(r) ==
    /\ req[r].at = "returned"
    /\ req[r].op.f = "ClaimPendingSteward"
    /\ sessions' = sessions \cup {req[r].claims}
    /\ Answer(r)
    /\ UNCHANGED <<db, mem>>

-------------------------------------------------------------------------------
(* The process dies, at any moment, and is started again: transactions in   *)
(* progress are gone, and auth.New reads the tenant from the database.      *)

Restart ==
    /\ mem' = db.tenant
    /\ sessions' = IF KeyConfigured THEN sessions ELSE {}
    /\ req' = [r \in Request |-> Idle]
    /\ UNCHANGED db

-------------------------------------------------------------------------------

Arrive(r) ==
    \/ \E c \in sessions \cup Bearer, op \in Operation : Admit(r, c, op)
    \/ \E c \in Claims : SignIn(r, c)

\* What the process does for a request by itself, once it has arrived.
Work(r) ==
    \/ Read(r) \/ Upgrade(r) \/ Insert(r) \/ BusyTimeout(r) \/ Commit(r)
    \/ Respond(r) \/ BootstrapReturned(r) \/ ClaimReturned(r)

Next ==
    \/ \E r \in Request : Arrive(r) \/ Work(r) \/ Cancel(r)
    \/ Restart

Spec == Init /\ [][Next]_vars

\* A goroutine that can go on does: there is no step at which it may wait
\* forever, since busy_timeout ends the wait for the lock.
FairSpec == Spec /\ \A r \in Request : WF_vars(Work(r))

-------------------------------------------------------------------------------
(* Properties. *)

Results ==
    {Written, Unchanged, "ErrNotFound", "ErrNameRequired", "ErrUPNRequired",
     "ErrAlreadySteward", "ErrAlreadyInvited", "ErrSelfRemoval", "ErrAlreadyBound",
     "bootstrap requires non-empty UPN", "claim steward requires actor UPN",
     "busy", "canceled"}

\* The database is a database, and every request is in one of its states.
TypeOK ==
    /\ IsDatabase(db)
    /\ mem \in TID \cup {NoTenant}
    /\ sessions \subseteq Claims
    /\ DOMAIN req = Request
    /\ \A r \in Request :
          /\ req[r].at \in {"idle", "begin", "read", "writing", "returned"}
          /\ req[r].at # "idle" => /\ req[r].claims \in Claims
                                  /\ req[r].op \in Operation \cup SignInOp
          /\ req[r].at \in {"read", "writing"} => IsDatabase(req[r].snap)
          /\ req[r].at = "returned" => req[r].result \in Results

\* One writer at a time, working on the newest database: what it is about to
\* commit loses nothing that was committed while it read and decided.
WriterIsCurrent ==
    \A r \in Request : req[r].at = "writing" =>
        /\ req[r].snap = db
        /\ \A q \in Request : req[q].at = "writing" => q = r

\* Whatever the process knows or hands out of the tenant is the binding in the
\* database: the cached tenant, the session cookies, and the claims for which it
\* has called core ("the tid claim is matched against the bound tenant BEFORE
\* any session cookie is written", auth/handlers.go).
TenantAgrees ==
    /\ mem # NoTenant => mem = db.tenant
    /\ \A c \in sessions : c.tid = db.tenant
    /\ \A r \in Request :
          /\ req[r].at # "idle"
          /\ req[r].op.f # "Bootstrap" \/ (req[r].at = "returned" /\ req[r].result = Written)
          => req[r].claims.tid = db.tenant

\* Only somebody whom an earlier row of the log made a steward has written a row
\* of the log; the binding and a claimed invitation are the two exceptions.
MakesSteward(e) == e.action \in {"tenant.bootstrap", "steward.promote"}

EveryWriterWasSteward ==
    \A n \in DOMAIN db.audit : ~MakesSteward(db.audit[n]) =>
        \E m \in 1..(n - 1) : /\ MakesSteward(db.audit[m])
                              /\ db.audit[m].details.oid = db.audit[n].actor.oid

\* Concurrent requests are serialized: the process implements the registry in
\* which every write is one step.
Reg == INSTANCE Registry

RegistrySpec == Reg!Spec

\* No request hangs: whatever the others do, it is answered.
EveryRequestAnswered ==
    \A r \in Request : req[r].at # "idle" ~> req[r].at = "idle"

\* Once a tenant is bound the process gets to know it, and lets its users in.
TenantIsLearned == db.tenant # NoTenant ~> mem = db.tenant

\* README.md: "A steward cannot remove themselves [...] so a deployment can never
\* be left with no one able to maintain it."  Does not hold: two stewards who
\* remove each other are both admitted before either commits.
SomeStewardRemains == Reg!SomeStewardRemains

\* core/bootstrap.go: "ErrAlreadyBound if a tenant has been bound between the
\* caller's check and the transaction (concurrent first sign-ins)".  Does not
\* hold when the other sign-in commits between Bootstrap's read and its write:
\* then it returns SQLITE_BUSY, and completeSignIn does not fall through.
LoserIsToldAlreadyBound ==
    \A r \in Request :
        req[r].at = "returned" /\ req[r].op.f = "Bootstrap" /\ req[r].result = "busy" =>
            db.tenant = NoTenant

===============================================================================
