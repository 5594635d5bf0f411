------------------------------ MODULE MCPowerLoss ------------------------------
(* Small instances of PowerLoss for TLC.  The run explores two scenarios   *)
(* side by side, each with its own writers and bounds.                     *)
EXTENDS PowerLoss, TLC

CONSTANTS Scenario      \* bound: those explored

VARIABLE scenario

mcVars == <<powerVars, scenario>>

\* "ann" and "Ann" differ only by case; " ann" is "ann" as a form may send it; o1 is
\* renamed from ann to bob, o2 takes over ann's old UPN.
MCUPN == {"ann", "Ann", " ann", "bob", ""}
MCActor == {[oid |-> "o1", upn |-> "ann"], [oid |-> "o1", upn |-> "bob"],
            [oid |-> "o2", upn |-> "Ann"], [oid |-> "o2", upn |-> ""],
            [oid |-> "o3", upn |-> "bob"]}
MCTrim == [t \in UPN \cup Name \cup ForeignId |-> IF t = " ann" THEN "ann" ELSE t]
MCLower == [u \in UPN |-> CASE u = "Ann" -> "ann" [] u = " Ann" -> " ann" [] OTHER -> u]

\* "gate": stewards and invitations, with all users, on a disk that loses nothing.
\* "loss": every write, of two users, with at most MaxKept - 1 commits at stake.
MaxAudit == [gate |-> 8, loss |-> 6]
MaxKept == 4
Writers == [gate |-> MCActor,
            loss |-> {[oid |-> "o1", upn |-> "ann"], [oid |-> "o3", upn |-> "bob"]}]

GatedBy(a) ==
    \/ SignIn(a)
    \/ /\ IsActiveSteward(db, a.oid) /\ Bound
       /\ \/ WriteSteward(a)
          \/ scenario = "loss" /\ WriteEntity(a)

MCCommit ==
    /\ Len(db.audit) < MaxAudit[scenario] /\ Len(kept) < MaxKept
    /\ Commit(\E a \in Writers[scenario] : GatedBy(a))

MCInit == PowerInit /\ scenario \in Scenario

MCNext ==
    /\ IF scenario = "gate" /\ Len(kept) > 1 THEN Checkpoint
       ELSE MCCommit \/ Checkpoint \/ PowerLoss
    /\ UNCHANGED scenario

MCSpec == MCInit /\ [][MCNext]_mcVars

===============================================================================
