------------------------------ MODULE MCRegistry ------------------------------
(* Small instances of Registry for TLC.  The run explores two scenarios    *)
(* side by side, each with its own writers and bound.                      *)
EXTENDS Registry, TLC

CONSTANTS Scenario      \* bound: those explored

VARIABLE scenario

\* "ann" and "Ann" differ only by case; " ann" is "ann" as a form may send it; o1 is
\* renamed from ann to bob, o2 takes over ann's old UPN.
MCUPN == {"ann", "Ann", " ann", "bob", ""}
MCActor == {[oid |-> "o1", upn |-> "ann"], [oid |-> "o1", upn |-> "bob"],
            [oid |-> "o2", upn |-> "Ann"], [oid |-> "o2", upn |-> ""],
            [oid |-> "o3", upn |-> "bob"]}

\* A blank name and a padded one.
MCName == {"", " x", "x", "y"}

MCTrim == [t \in UPN \cup Name \cup ForeignId |->
             CASE t = " x" -> "x" [] t = " ann" -> "ann" [] OTHER -> t]
MCLower == [u \in UPN |-> CASE u = "Ann" -> "ann" [] u = " Ann" -> " ann" [] OTHER -> u]

\* Tenants are only compared with one another.
TenantSymmetry == Permutations(TID)

\* "stewards": sign-ins, promotions, demotions and invitations, of all users.
\* "entities": persons, systems and links, written by one user, who is renamed once.
MaxAudit == [stewards |-> 6, entities |-> 6]

MCStewards(a) == SignIn(a) \/ (Bound /\ WriteSteward(a))

MCEntities(a) ==
    /\ a.oid = "o1"
    /\ a.upn = "ann" => \A i \in DOMAIN db.audit : db.audit[i].actor.upn # "bob"
    /\ \/ \E t \in TID : Bootstrap(a, t)
       \/ Bound /\ WriteEntity(a)

MCNext ==
    /\ Len(db.audit) < MaxAudit[scenario]
    /\ \E a \in Actor : \/ scenario = "stewards" /\ MCStewards(a)
                        \/ scenario = "entities" /\ MCEntities(a)
    /\ UNCHANGED scenario

MCInit == Init /\ scenario \in Scenario

MCSpec == MCInit /\ [][MCNext]_<<db, scenario>>

===============================================================================
