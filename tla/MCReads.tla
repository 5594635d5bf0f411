-------------------------------- MODULE MCReads --------------------------------
(* Small instances of Pages and AuditViewer for TLC.  A run explores some  *)
(* scenarios side by side, each with one kind of reader and its own bounds *)
(* for the writers.                                                        *)
EXTENDS Pages, TLC

CONSTANTS Scenario      \* bound: those explored

VARIABLE scenario

readVars == <<pageVars, scenario>>

MCUPN == {"ann", "bob", ""}
Ann == [oid |-> "o1", upn |-> "ann"]
Bob == [oid |-> "o2", upn |-> "bob"]
MCActor == {Ann, Bob}
MCTrim == [t \in UPN \cup Name \cup ForeignId |-> t]
MCLower == [u \in UPN |-> u]

NoFilter == Between(NoDay, NoDay)

MCQueries == {NoFilter,
              [NoFilter EXCEPT !.limit = 1],
              [NoFilter EXCEPT !.entity_id = 1, !.limit = 9],
              [NoFilter EXCEPT !.entity_type = "person", !.entity_id = 1],
              [NoFilter EXCEPT !.actor = "bob", !.to = 1],
              [NoFilter EXCEPT !.entity_type = "person", !.from = 2]}
JustAll == {NoFilter}

AllPages == {<<"PersonDetail", 1>>, <<"SystemDetail", 1>>, <<"ExportRegistry", 0>>,
             <<"StewardsPage", 0>>, <<"PersonsPage", 0>>, <<"SystemsPage", 0>>}

\* "order": rows at any instants, by one writer; nobody reads, the properties ask
\* every query at any time.  "audit": the audit page and its API while two users write.
\* "details" and "export": pages of several queries; the instants do not matter.
OpenedIn == [order |-> {}, audit |-> {},
             details |-> {"PersonDetail", "SystemDetail"}, export |-> {"ExportRegistry"},
             stewards |-> {"StewardsPage"}, lists |-> {"PersonsPage", "SystemsPage"}]
MaxAudit == [order |-> 4, audit |-> 3, details |-> 5, export |-> 4, stewards |-> 4, lists |-> 4]
Writers == [order |-> {Ann}, audit |-> MCActor, details |-> {Ann}, export |-> MCActor,
            stewards |-> MCActor, lists |-> {Ann}]
Instants == [order |-> Times, audit |-> {1, 15}, details |-> {1}, export |-> {1},
             stewards |-> {1}, lists |-> {1}]

\* Some writes of each kind suffice for the audit log itself.
SomeWrite(a) ==
    \/ CreatePerson(a, "x") \/ CreateSystem(a, "x")
    \/ CreateAssociation(a, 1, 1, "7")
    \/ PromoteSteward(a, "bob")

MCWrite(a) ==
    \/ SignIn(a)
    \/ Bound /\ IF scenario \in {"order", "audit"} THEN SomeWrite(a)
                ELSE IF scenario = "stewards" THEN WriteSteward(a)
                ELSE WriteEntity(a) \/ (scenario = "export" /\ WriteSteward(a))

MCElsewhere ==
    /\ Len(db.audit) < MaxAudit[scenario]
    /\ \E a \in Writers[scenario] : MCWrite(a)
    /\ \E t \in Instants[scenario] : Stamp(t)
    /\ view' = view /\ page' = page
    /\ standing' = IF Finished THEN standing ELSE standing \cap OnBooks(db')

MCAudit ==
    /\ scenario = "audit"
    /\ (\E q \in Queries : Ask(q)) \/ AuditQueries
    /\ UNCHANGED <<page, standing>>

MCOpen == \E p \in Opened : p[1] \in OpenedIn[scenario] /\ Open(p[1], p[2])

MCInit == PagesInit /\ scenario \in Scenario
MCNext == (MCElsewhere \/ MCAudit \/ MCOpen \/ Query) /\ UNCHANGED scenario
MCSpec == MCInit /\ [][MCNext]_readVars

===============================================================================
