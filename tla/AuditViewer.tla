----------------------------- MODULE AuditViewer ------------------------------
(***************************************************************************)
(* Reading the audit log: the /audit page (web/audit.go), the API's list   *)
(* and CSV (api/audit.go), and the query behind them (store.ListAudit).    *)
(*                                                                         *)
(* The registry runs underneath; each row it appends is stamped with the   *)
(* wall clock as RFC3339Nano *text*, by which the viewer orders and bounds *)
(* it.  That format drops the trailing zeros of the fraction, and the      *)
(* fraction itself when it is zero, so texts differ in length.  A text is  *)
(* here the sequence of its parts, compared lexicographically like the     *)
(* characters: the day, the second of the day, the digits that are left,   *)
(* and "Z", which sorts after the digits (and after the dot before them).  *)
(***************************************************************************)
EXTENDS Registry, SequencesExt

CONSTANTS
    Base, Width,        \* a fraction of a second has Width digits of this base
    SecondsPerDay,
    LastDay,            \* 9999-12-31, counting days from 1
    Times,              \* the instants the clock shows, in units of the last digit
    ClockMayStep,       \* whether the wall clock may be set back
    DefaultAuditLimit, MaxAuditLimit,
    Queries             \* what clients ask for

NoDay == 0      \* a from or to that is empty or does not parse as a date

AuditQuery == [entity_type : {Blank, "person", "system", "association", "steward", "tenant"},
               entity_id : Nat, actor : UPN, from : 0..LastDay, to : 0..LastDay,
               limit : Int]

Instant == {t \in Nat : t < LastDay * SecondsPerDay * Base ^ Width}

\* That powers are positive numbers is arithmetic, but the provers have no rule for it.
\* TrimSpace("") is "", and Entra puts no blanks around a UPN.
ASSUME ViewerAssumption ==
    /\ Base \in Nat \ {0, 1} /\ Width \in Nat 
    /\ \A n \in 0..Width : Base ^ n \in Nat \ {0}
    /\ Trim[Blank] = Blank /\ \A a \in Actor : Trim[a.upn] = a.upn
    /\ SecondsPerDay \in Nat \ {0} /\ LastDay \in Nat \ {0}
    /\ Times \subseteq Instant
    /\ ClockMayStep \in BOOLEAN
    /\ DefaultAuditLimit \in Nat \ {0} /\ MaxAuditLimit \in Nat
    /\ DefaultAuditLimit <= MaxAuditLimit
    /\ Queries \subseteq AuditQuery

-------------------------------------------------------------------------------
(* Instants and their texts. *)

SecondOf(t) == t \div Base ^ Width
DayOf(t) == 1 + SecondOf(t) \div SecondsPerDay

\* The day after 9999-12-31 is written "10000-01-01", which sorts before "2026".
DayText(day) == IF day > LastDay THEN 0 ELSE day

Digits(t) == [i \in 1..Width |-> (t \div Base ^ (Width - i)) % Base]

Fraction(t) ==
    LET last == Max({0} \cup {i \in 1..Width : Digits(t)[i] # 0})
    IN SubSeq(Digits(t), 1, last)

Z == Base

\* time.Format(RFC3339Nano) in UTC.
Format(t) == <<DayText(DayOf(t)), SecondOf(t) % SecondsPerDay>> \o Fraction(t) \o <<Z>>

\* What WriteAudit writes at each instant the clock shows.
Text == [t \in Times |-> Format(t)]

\* SQLite's comparison of TEXT.
TextLess(a, b) ==
    \E n \in 1..Len(b) : /\ \A m \in 1..(n - 1) : m <= Len(a) /\ a[m] = b[m]
                         /\ n > Len(a) \/ a[n] < b[n]

-------------------------------------------------------------------------------

VARIABLES
    stamps,     \* when each row of the log was written
    view        \* the page or answer a client is getting, or has got

viewerVars == <<db, stamps, view>>

OccurredAt(i) == Text[stamps[i]]

\* The bounds of the range are bare days, shorter than any timestamp.
DayLowerBound(day) == <<DayText(day)>>

\* Mutant: the upper bound is the day itself.
DayUpperBound_SameDay(day) == <<DayText(day)>>

DayUpperBound(day) == <<DayText(day + 1)>>

\* The WHERE clause.
Matching(q) ==
    {i \in DOMAIN db.audit :
        LET e == db.audit[i] IN
        /\ q.entity_type # Blank =>
              /\ e.entity_type = q.entity_type
              /\ q.entity_id > 0 => e.entity_id = q.entity_id
        /\ Trim[q.actor] # Blank => e.actor.upn = Trim[q.actor]
        /\ q.from # NoDay => ~TextLess(OccurredAt(i), DayLowerBound(q.from))
        /\ q.to # NoDay => TextLess(OccurredAt(i), DayUpperBound(q.to))}

\* Mutant: ordered by id, as if rows were stamped in the order of their times.
SortsBefore_ById(i, j) == i > j

\* ORDER BY occurred_at DESC, id DESC
SortsBefore(i, j) ==
    \/ TextLess(OccurredAt(j), OccurredAt(i))
    \/ OccurredAt(i) = OccurredAt(j) /\ i > j

AuditLimit(n) ==
    CASE n <= 0 -> DefaultAuditLimit
      [] n > MaxAuditLimit -> MaxAuditLimit
      [] OTHER -> n

\* A query with no filter but its range of days.
Between(from, to) ==
    [entity_type |-> Blank, entity_id |-> 0, actor |-> Blank, from |-> from, to |-> to, limit |-> 0]

\* Rows in the order of the query: the place of each is after those sorted before it.
Sorted(rows) ==
    LET place == [i \in rows |-> 1 + Cardinality({j \in rows : SortsBefore(j, i)})]
    IN [n \in 1..Cardinality(rows) |-> CHOOSE i \in rows : place[i] = n]

\* The ids of the rows listed, in their order.
ListAudit(q) ==
    LET rows == Sorted(Matching(q))
    IN SubSeq(rows, 1, Min({Len(rows), AuditLimit(q.limit)}))

ListAuditActors == {db.audit[i].actor.upn : i \in DOMAIN db.audit}

auditEntityTypes == {"person", "system", "association", "steward", "tenant"}

\* The page a row of the timeline links to: only persons and systems have one.
EntityHref(e) ==
    IF e.entity_id > 0 /\ e.entity_type \in {"person", "system"}
    THEN <<e.entity_type, e.entity_id>> ELSE << >>

-------------------------------------------------------------------------------
(* Requests. *)

NoView == [at |-> "none"]

ViewerInit == Init /\ stamps = << >> /\ view = NoView

Quiet == view.at \in {"none", "rendered", "answered"}

\* GET /api/v1/audit: one query.
ListAuditJSON(q) ==
    /\ Quiet
    /\ view' = [at |-> "answered", q |-> q, events |-> ListAudit(q)]
    /\ UNCHANGED <<db, stamps>>

\* GET /api/v1/audit.csv: without a limit, the largest.
ExportAuditCSV(q) ==
    LET asked == [q EXCEPT !.limit = IF @ <= 0 THEN MaxAuditLimit ELSE @] IN
    /\ Quiet
    /\ view' = [at |-> "answered", q |-> asked, events |-> ListAudit(asked)]
    /\ UNCHANGED <<db, stamps>>

\* GET /audit: the page has no limit parameter.
Audit(q) ==
    /\ Quiet
    /\ view' = [at |-> "opened", q |-> [q EXCEPT !.limit = DefaultAuditLimit]]
    /\ UNCHANGED <<db, stamps>>

\* Mutant: the dropdown is filled before the rows are read.
AuditQueries_ActorsFirst ==
    /\ \/ /\ view.at = "opened"
          /\ view' = [at |-> "listed", q |-> view.q, actors |-> ListAuditActors]
       \/ /\ view.at = "listed"
          /\ view' = [at |-> "rendered", q |-> view.q,
                      events |-> ListAudit(view.q), actors |-> view.actors,
                      limited |-> Len(ListAudit(view.q)) >= DefaultAuditLimit]
    /\ UNCHANGED <<db, stamps>>

\* Its two queries, each on its own snapshot.
AuditQueries ==
    /\ \/ /\ view.at = "opened"
          /\ view' = [at |-> "listed", q |-> view.q, events |-> ListAudit(view.q)]
       \/ /\ view.at = "listed"
          /\ view' = [at |-> "rendered", q |-> view.q,
                      events |-> view.events, actors |-> ListAuditActors,
                      limited |-> Len(view.events) >= DefaultAuditLimit]
    /\ UNCHANGED <<db, stamps>>

\* core.WriteAudit stamps the row inside the transaction, which holds the write
\* lock by then: rows are stamped in the order of their ids.
Stamp(t) ==
    IF Len(db'.audit) = Len(db.audit) THEN stamps' = stamps
    ELSE /\ ClockMayStep \/ \A n \in DOMAIN stamps : stamps[n] <= t
         /\ stamps' = Append(stamps, t)

WriteStamped(t) == Next /\ Stamp(t) /\ UNCHANGED view

Ask(q) == ListAuditJSON(q) \/ ExportAuditCSV(q) \/ Audit(q)

ViewerNext ==
    \/ \E t \in Times : WriteStamped(t)
    \/ \E q \in Queries : Ask(q)
    \/ AuditQueries

ViewerSpec == ViewerInit /\ [][ViewerNext]_viewerVars

-------------------------------------------------------------------------------
(* Properties. *)

\* The rows written on the days from one to another.
OnDays(from, to) ==
    {i \in DOMAIN db.audit : /\ from # NoDay => from <= DayOf(stamps[i])
                             /\ to # NoDay => DayOf(stamps[i]) <= to}

\* "From/To are inclusive ... calendar days" (store.AuditQuery): comparing texts of
\* different lengths selects the rows written on those days, and only those.
DayFiltersAreExact ==
    \A from, to \in 0..(LastDay - 1) : Matching(Between(from, to)) = OnDays(from, to)

\* For days of the calendar's last year too.  Does not hold: the bound for
\* 9999-12-31 is "10000-01-01", before every timestamp, and excludes all rows.
ToDayIsInclusive ==
    \A to \in 0..LastDay : Matching(Between(NoDay, to)) = OnDays(NoDay, to)

\* "Newest first", as far as the format allows: a listing never goes back to a later
\* second, and the limit only cuts off rows that are not later than all it keeps.
WindowIsNewest ==
    \A q \in Queries :
        LET events == ListAudit(q)
            shown == {events[n] : n \in DOMAIN events}
        IN /\ \A m, n \in DOMAIN events :
                 m < n => SecondOf(stamps[events[m]]) >= SecondOf(stamps[events[n]])
           /\ \A i \in Matching(q) \ shown, j \in shown :
                 SecondOf(stamps[i]) <= SecondOf(stamps[j])
           /\ shown # Matching(q) => Len(events) = AuditLimit(q.limit)

\* README.md: "The Audit page is a filterable, newest-first timeline".  Does not hold,
\* with a perfect clock: within one second a shorter fraction is the later text.
NewestFirst ==
    \A q \in Queries : \A m, n \in DOMAIN ListAudit(q) :
        m < n => ListAudit(q)[m] > ListAudit(q)[n]

\* What the page shows can be asked for with its own dropdowns: the actor and the
\* type of every row are offered, and asking for them finds the row again, although
\* the rows and the actors are read at different times.
EveryShownRowIsFindable ==
    view.at = "rendered" =>
      \A n \in DOMAIN view.events :
        LET i == view.events[n]
            e == db.audit[i]
        IN /\ e.actor.upn \in view.actors
           /\ e.entity_type \in auditEntityTypes
           /\ i \in Matching([Between(NoDay, NoDay) EXCEPT !.actor = e.actor.upn,
                                                         !.entity_type = e.entity_type])

\* web/audit.go: the types of the dropdown "mirror the entity_type values core
\* writes".  Does not hold: core files the rows about associations under "person",
\* and asking for "association" finds none of them.
AssociationsAreFiledAsOffered ==
    \A i \in DOMAIN db.audit :
        db.audit[i].action \in {"association.create", "association.remove"} =>
            i \in Matching([Between(NoDay, NoDay) EXCEPT !.entity_type = "association"])

\* web/templates/audit.html: "Narrow the filters or download the CSV for the full
\* set."  Does not hold: the CSV has a limit too.
CsvIsTheFullSet ==
    \A q \in Queries :
        Len(ListAudit([q EXCEPT !.limit = MaxAuditLimit])) = Cardinality(Matching(q))

===============================================================================
