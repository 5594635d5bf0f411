------------------------------ MODULE PowerLoss -------------------------------
(***************************************************************************)
(* The registry on a disk.  store.Open asks SQLite for a write-ahead log   *)
(* with synchronous=NORMAL: a commit is appended to the log and is visible *)
(* at once, but reaches the disk for certain only with the next            *)
(* checkpoint.  A process that dies loses nothing, for the operating       *)
(* system has the log; a machine that dies may lose any number of the last *)
(* commits, each of them whole.                                            *)
(*                                                                         *)
(* Between losses the database moves as module Registry says.              *)
(***************************************************************************)
EXTENDS Registry, SequencesExt

VARIABLES
    kept,   \* the databases a loss of power may leave: the checkpointed one, then one
            \* for every commit since
    told    \* the ids of persons that a reply, a page or an export has handed out

powerVars == <<db, kept, told>>

PowerInit == Init /\ kept = <<db>> /\ told = {}

\* Mutant: the audit row is committed after the change it is about.
Commit_Apart(step) ==
    /\ step
    /\ kept' = IF db'.audit = db.audit THEN Append(kept, db')
               ELSE kept \o <<[db' EXCEPT !.audit = db.audit], db'>>
    /\ told' = told \cup DOMAIN db'.persons

\* A transaction of core, acknowledged to its caller.
Commit(step) ==
    /\ step
    /\ kept' = Append(kept, db')
    /\ told' = told \cup DOMAIN db'.persons

\* SQLite moves the log into the database file: by itself when the log is long, and
\* when the last connection closes.
Checkpoint ==
    /\ Len(kept) > 1
    /\ kept' = <<db>>
    /\ UNCHANGED <<db, told>>

\* The machine dies; the next start finds the log up to some commit.
PowerLoss ==
    /\ \E d \in ToSet(kept) : db' = d
    /\ db' # db
    /\ kept' = <<db'>>
    /\ UNCHANGED told

PowerNext == Commit(Next) \/ Checkpoint \/ PowerLoss

PowerSpec == PowerInit /\ [][PowerNext]_powerVars

\* With the steward check of the handlers: see GatedNext.
GatedPowerNext == Commit(GatedNext) \/ Checkpoint \/ PowerLoss

GatedPowerSpec == PowerInit /\ [][GatedPowerNext]_powerVars

-------------------------------------------------------------------------------
(* Properties. *)

\* What module Registry says of a database, of d.
In(d) == INSTANCE Registry WITH db <- d

\* What a database must be for the rest of the program: see module Registry.
Consistent(d) ==
    /\ In(d)!IdsIssuedInOrder
    /\ In(d)!ConstraintsNeverFire
    /\ In(d)!BindingIsFirst
    /\ In(d)!LogIsConsistent
    /\ In(d)!LinksFollowLog

\* Whatever a loss of power leaves, it is a consistent registry with a log that tells
\* all of it: "recorded in an immutable audit log within the same database transaction
\* as the change itself" (README.md).  And it stays one in what follows.
EveryRecoveryIsConsistent == \A i \in DOMAIN kept : Consistent(kept[i])

\* README.md: "IDs are never reused: people are immortal in the registry [...] a retired
\* ID can never come back attached to someone else."  Does not hold over a loss of power:
\* the person and the sequence go together, and the next person gets the id that a
\* caller has already been told.
IdsAreNeverReused ==
    [][ DOMAIN db.persons \subseteq DOMAIN db'.persons =>
            \A id \in DOMAIN db'.persons \ DOMAIN db.persons : id \notin told ]_powerVars

===============================================================================
