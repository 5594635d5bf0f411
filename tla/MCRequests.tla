------------------------------ MODULE MCRequests ------------------------------
(* Small instances of Requests and of Texts for TLC.  The run explores     *)
(* scenarios side by side, each with its own users, requests and bound.    *)
EXTENDS Requests, Texts, TLC

CONSTANT Scenario     \* bound: those explored

VARIABLE scenario

mcVars == <<requestVars, scenario, text>>

MCUPN == {"", "ann", "Bob", "bob"}
Ann == [oid |-> "o1", upn |-> "ann"]
Bob == [oid |-> "o2", upn |-> "Bob"]
MCActor == {Ann, Bob}
MCTrim == [t \in UPN \cup Name \cup ForeignId |-> IF t = " x" THEN "x" ELSE t]
MCLower == [u \in UPN |-> IF u = "Bob" THEN "bob" ELSE u]

\* "1", which is an id of anything, "X-02", which is a person's only, and "-1".
MCIdText == {<<"1">>, <<"X", "-", "0", "2">>, <<"-", "1">>}

MCField == {"persons", "systems", " Stewards", "audit", "audt", ""}
MCFieldName == [f \in MCField |-> IF f = " Stewards" THEN "stewards" ELSE f]

\* Nothing set, a list with a blank in it, everything, and a typo.
MCSetting == {<<"">>} \cup {<<f>> : f \in MCField} \cup {<<"audit", "", " Stewards">>}
             \cup {<<"persons", "systems">>, <<"persons", "systems", " Stewards", "audit">>}

\* "access": every policy, every route, two users.  "entities": one user writes persons,
\* systems and links.  "stewards": two users write stewards and invitations.  "texts":
\* nobody asks for anything.
EntityHandler == {route.handler : route \in ApiWrites}
                 \ {"PromoteSteward", "DemoteSteward", "CancelStewardInvite"}
StewardHandler == {"PromoteSteward", "DemoteSteward", "CancelStewardInvite"}

Handlers == [access |-> EntityHandler \cup StewardHandler, entities |-> EntityHandler,
             stewards |-> StewardHandler, texts |-> {}]
Askers == [access |-> User, entities |-> {Ann, Anonymous}, stewards |-> User, texts |-> {}]
\* Nothing is written after this many rows of the log.
MaxAudit == [access |-> 2, entities |-> 5, stewards |-> 8, texts |-> 0]

MCInit ==
    /\ RequestsInit /\ TextsInit /\ scenario \in Scenario
    /\ scenario # "access" => access = {"audit"}

MCWriteAs(u) ==
    \/ \E route \in ApiWrites : /\ route.handler \in Handlers[scenario]
                                /\ \E r \in RequestTo(route.handler) : PostApi(u, route, r)
    \/ \E route \in WebWrites : /\ route.handler \in Handlers[scenario]
                                /\ \E r \in RequestTo(route.handler) : PostForm(u, route, r)

MCAsk ==
    /\ \/ scenario = "access" /\ \E u \in Askers[scenario] : ReadAs(Authenticate(db, u))
       \/ /\ Len(db.audit) < MaxAudit[scenario]
          /\ \/ \E u \in Askers[scenario] : MCWriteAs(Authenticate(db, u))
             \/ \E u \in Askers[scenario] \ {Anonymous} : SignInAndReturn(u)
    /\ text' = text

MCType == scenario = "texts" /\ TextsNext /\ UNCHANGED requestVars

MCNext == (MCAsk \/ MCType) /\ UNCHANGED scenario

MCSpec == MCInit /\ [][MCNext]_mcVars

===============================================================================
