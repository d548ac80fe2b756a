---------------------------- MODULE ClusterBase ----------------------------
(***************************************************************************)
(* What the parts of a gateway that keep state in Redis share: the         *)
(* instances of the gateway, the clock, and the failures of Redis calls.   *)
(***************************************************************************)
EXTENDS Integers, Sequences, FiniteSets, SequencesExt

CONSTANTS
  None,       \* "nil"
  Settings    \* the deployments considered; see the MC module

VARIABLES
  set,        \* the deployment (never changes)
  now,        \* the clock
  faults      \* the Redis calls that have failed so far

\* A Redis call that fails reports an error; whether Redis carried the command
\* out before the answer was lost is open.
Fails == faults < set.MaxFaults /\ faults' = faults + 1
Answers == UNCHANGED faults

\* A Redis key with an expiry is gone from that time on.
Live(e) == e # None /\ e.until > now
=============================================================================
