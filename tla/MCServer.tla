------------------------------- MODULE MCServer -------------------------------
(* Small instances of Server for TLC. *)
EXTENDS Server, TLC

CONSTANTS
    SomeOp,     \* bound: the operations clients ask for
    MaxAudit    \* bound: no request arrives after this many audit rows

MCUPN == {"ann", "bob", "Bob"}
MCActor == {[oid |-> "o1", upn |-> "ann"], [oid |-> "o2", upn |-> "bob"]}
MCName == {"x", "y"}
MCTrim == [t \in UPN \cup Name \cup ForeignId |-> t]
MCLower == [u \in UPN |-> IF u = "Bob" THEN "bob" ELSE u]

Ann(tid) == [oid |-> "o1", upn |-> "ann", tid |-> tid]
Bob(tid) == [oid |-> "o2", upn |-> "bob", tid |-> tid]

\* API clients of both users, in the right and in the wrong tenant.
MCBearer == {Ann("t1"), Bob("t1"), Bob("t2")}

StewardOp == {[f |-> "PromoteSteward", upn |-> "Bob"],
              [f |-> "DemoteSteward", id |-> 1], [f |-> "DemoteSteward", id |-> 2],
              [f |-> "CancelStewardInvite", id |-> 1]}
EntityOps == {[f |-> "CreatePerson", name |-> "x"], [f |-> "CreateSystem", name |-> "x"],
              [f |-> "RenamePerson", id |-> 1, name |-> "y"],
              [f |-> "RenameSystem", id |-> 1, name |-> "y"],
              [f |-> "DisableSystem", id |-> 1], [f |-> "EnableSystem", id |-> 1],
              [f |-> "CreateAssociation", person |-> 1, system |-> 1, foreign |-> "7"],
              [f |-> "RemoveAssociation", person |-> 1, id |-> 1]}

AllOp == StewardOp \cup EntityOps

MCArrive(r) ==
    /\ Len(db.audit) < MaxAudit
    /\ \/ \E c \in sessions \cup Bearer, op \in SomeOp : Admit(r, c, op)
       \/ \E c \in Claims : SignIn(r, c)

MCNext ==
    \/ \E r \in Request : MCArrive(r) \/ Work(r) \/ Cancel(r)
    \/ Restart

MCSpec == Init /\ [][MCNext]_vars
MCFairSpec == MCSpec /\ \A r \in Request : WF_vars(Work(r))

RequestSymmetry == Permutations(Request)

===============================================================================
