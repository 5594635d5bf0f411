----------------------------- MODULE MCLoginFlow ------------------------------
(* Small instances of LoginFlow for TLC. *)
EXTENDS LoginFlow, TLC

CONSTANTS MaxTime, MaxAttempts, MaxKey      \* bounds of the counters

\* Two users of a tenant, and one of another.
ThreeUser == {[oid |-> "o1", tid |-> "t1"], [oid |-> "o2", tid |-> "t2"],
              [oid |-> "o3", tid |-> "t1"]}

MCNext == Next /\ now' <= MaxTime /\ attempts' <= MaxAttempts /\ key' <= MaxKey

\* Nothing but the user, the server and Microsoft's page: no time passes, no cookie is
\* dropped, no process dies, nobody reloads.
MCQuietNext ==
    /\ \E t \in Tab : Click(t) \/ Serve(t) \/ \E user \in User \cup {None} : Authorize(t, user)
    /\ attempts' <= MaxAttempts

MCQuietSpec == Init /\ [][MCQuietNext]_vars

MCSpec == Init /\ [][MCNext]_vars

===============================================================================
