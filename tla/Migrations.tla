------------------------------ MODULE Migrations ------------------------------
(***************************************************************************)
(* store.Open's migration runner: which statements of which migrations a   *)
(* database has seen, over starts, crashes and changes of the binary.      *)
(*                                                                         *)
(* Migrations are numbered from 1 and a statement is the pair of its       *)
(* migration and its place in the file.  The file is executed in one call  *)
(* of Exec, but not in a transaction: each statement commits by itself,    *)
(* and one that is repeated fails (the table, index or row exists).  The   *)
(* first two statements of all are CREATE TABLE config and the INSERT of   *)
(* its only row, whose schema_version is 0.                                *)
(***************************************************************************)
EXTENDS Naturals

CONSTANTS Newest,   \* the number of migrations there are or will be
          Size      \* Size[m]: the number of statements of migration m

ASSUME MigrationsAssumption ==
    /\ Newest \in Nat \ {0}
    /\ Size \in [1..Newest -> Nat \ {0}]
    /\ Size[1] >= 2

VARIABLES
    schema,     \* the statements that have taken effect
    version,    \* config.schema_version
    known,      \* the migrations embedded in the installed binary: 1..known
    proc        \* the process: where it is and, while migrating, at which statement

vars == <<schema, version, known, proc>>

Statement(m) == {m} \X (1..Size[m])

CreateConfig == <<1, 1>>
InsertConfig == <<1, 2>>

At(where) == [at |-> where, m |-> 0, i |-> 0]

Init == /\ schema = {}
        /\ version = 0
        /\ known \in 1..Newest
        /\ proc = At("stopped")

-------------------------------------------------------------------------------

Start ==
    /\ proc.at = "stopped"
    /\ proc' = At("reading")
    /\ UNCHANGED <<schema, version, known>>

\* Mutant: the loop starts over with the last migration recorded.
Continue_Same(v) ==
    IF v < known THEN [at |-> "applying", m |-> IF v = 0 THEN 1 ELSE v, i |-> 1] ELSE At("ready")

\* On with the first migration above version v, if this binary has one.
Continue(v) == IF v < known THEN [at |-> "applying", m |-> v + 1, i |-> 1] ELSE At("ready")

\* currentSchemaVersion: 0 without a table config, an error without its row.
ReadVersion ==
    /\ proc.at = "reading"
    /\ proc' = CASE CreateConfig \notin schema -> Continue(0)
                 [] CreateConfig \in schema /\ InsertConfig \notin schema -> At("failed")
                 [] OTHER -> Continue(version)
    /\ UNCHANGED <<schema, version, known>>

\* One statement of the migration.
Execute ==
    /\ proc.at = "applying"
    /\ LET statement == <<proc.m, proc.i>>
       IN IF statement \in schema
          THEN schema' = schema /\ proc' = At("failed")
          ELSE /\ schema' = schema \cup {statement}
               /\ proc' = IF proc.i < Size[proc.m]
                          THEN [proc EXCEPT !.i = @ + 1]
                          ELSE [proc EXCEPT !.at = "recording"]
    /\ UNCHANGED <<version, known>>

\* Mutant: nothing is recorded.
Record_Forgotten ==
    /\ proc.at = "recording"
    /\ version' = version
    /\ proc' = Continue(proc.m)
    /\ UNCHANGED <<schema, known>>

\* UPDATE config SET schema_version.
Record ==
    /\ proc.at = "recording"
    /\ version' = proc.m
    /\ proc' = Continue(proc.m)
    /\ UNCHANGED <<schema, known>>

\* The process ends: killed at any moment, stopped, or by an error of the disk; a
\* start that has failed exits.
Exit ==
    /\ proc.at # "stopped"
    /\ proc' = At("stopped")
    /\ UNCHANGED <<schema, version, known>>

\* Another binary is installed, newer or older.
Install(n) ==
    /\ proc.at = "stopped"
    /\ known' = n
    /\ UNCHANGED <<schema, version, proc>>

Work == ReadVersion \/ Execute \/ Record

Next == Start \/ Work \/ Exit \/ \E n \in 1..Newest : Install(n)

Spec == Init /\ [][Next]_vars

-------------------------------------------------------------------------------
(* Properties. *)

Statements == UNION {Statement(m) : m \in 1..Newest}

\* The statements of migrations 1 to m.
UpTo(m) == {s \in Statements : s[1] <= m}

TypeOK ==
    /\ schema \subseteq Statements
    /\ version \in 0..Newest
    /\ known \in 1..Newest
    /\ proc \in [at : {"stopped", "reading", "applying", "recording", "ready", "failed"},
                 m : 0..Newest, i : Nat]
    /\ proc.at \in {"applying", "recording"} => proc.m \in 1..known /\ proc.i \in 1..Size[proc.m]

\* What a database has seen is always the recorded migrations, whole, and of the next
\* one a beginning: nothing is skipped, whatever binaries ran and wherever they died.
SchemaIsAPrefix ==
    /\ UpTo(version) \subseteq schema
    /\ \A s \in schema : /\ s[1] <= version + 1
                         /\ \A k \in 1..s[2] : <<s[1], k>> \in schema

\* "On return the database is ready for the rest of the program to use" (store.go):
\* every statement of every migration this binary has is in effect, and recorded.
ReadyMeansMigrated ==
    proc.at = "ready" => known <= version /\ UpTo(known) \subseteq schema

\* A start fails only on what a start that died midway has left: as long as none did,
\* no number of restarts, upgrades and downgrades makes the database unusable.
FailsOnlyOnRuins == proc.at = "failed" => schema # UpTo(version)

\* The recorded version never goes back, not even under an older binary.
VersionOnlyGrows == [][version' >= version]_vars

\* store.go: currentSchemaVersion returns 0 "when the config table itself does not yet
\* exist, and the persisted schema_version value afterwards".  Does not hold between
\* the first two statements: there is a table and no row, and a start that follows a
\* crash there fails for good.
VersionIsReadable ==
    proc.at = "reading" => CreateConfig \notin schema \/ InsertConfig \in schema

===============================================================================
