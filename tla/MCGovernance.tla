---------------------------- MODULE MCGovernance ----------------------------
(***************************************************************************)
(* Small instances of Governance: budgets that requests compete for; all   *)
(* ledgers of a request, and a reload; retried requests, and writes that   *)
(* fail.                                                                   *)
(***************************************************************************)
EXTENDS Governance

Sync == [enabled |-> TRUE, async |-> FALSE, window |-> 2]
Async == [enabled |-> TRUE, async |-> TRUE, window |-> 2]

Three == {"r1", "r2", "r3"}
Two == {"r1", "r2"}

\* The first two requests are one, sent twice.
Retried(r) == IF r = "r3" THEN "i2" ELSE "i1"

\* Three requests with IDs of their own, on two connections, against a budget
\* of 1 for each ledger that is charged
Budget == [Requests |-> Three, RequestID |-> [r \in Three |-> r],
           Cost |-> [r \in Three |-> 1], MaxCost |-> 1, Identity |-> {"key", "team"},
           MaxBudget |-> [l \in Ledgers |-> IF l = "userModel" THEN 0 ELSE 1],
           Connections |-> 2, Configs |-> {Sync}, FirstConfig |-> Sync,
           MaxUpdates |-> 0, MaxClock |-> 1, MayFail |-> FALSE]

\* The ledgers of users, organizations and end users, accounted asynchronously
\* or not
Users == [Requests |-> Two, RequestID |-> [r \in Two |-> Retried(r)],
          Cost |-> [r \in Two |-> 1], MaxCost |-> 1,
          Identity |-> {"user", "org", "endUser", "team"},
          MaxBudget |-> [l \in Ledgers |-> 0], Connections |-> 2,
          Configs |-> {Sync, Async}, FirstConfig |-> Async, MaxUpdates |-> 1,
          MaxClock |-> 3, MayFail |-> FALSE]

\* A window that can run out, a free request, and writes that can fail
Retry == [Requests |-> Three, RequestID |-> [r \in Three |-> Retried(r)],
          Cost |-> [r \in Three |-> IF r = "r3" THEN 0 ELSE 1], MaxCost |-> 1,
          Identity |-> {"key"},
          MaxBudget |-> [l \in Ledgers |-> 0], Connections |-> 1,
          Configs |-> {Async}, FirstConfig |-> Async, MaxUpdates |-> 0,
          MaxClock |-> 3, MayFail |-> TRUE]

MCSettings == {Budget, Users, Retry}
=============================================================================
