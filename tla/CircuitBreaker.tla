--------------------------- MODULE CircuitBreaker ---------------------------
(***************************************************************************)
(* The circuit breaker of internal/resilience/circuitbreaker.go.           *)
(*                                                                         *)
(* Callers ask Allow, run their request, and record its outcome whenever   *)
(* it arrives, however the state has changed meanwhile.  A caller that was *)
(* let in may also leave without recording anything: CheckAndAcquire of    *)
(* manager.go asks the breaker first, and may then be turned away by the   *)
(* rate limiter or the semaphore.  Every method is one critical section of *)
(* cb.mu.                                                                  *)
(***************************************************************************)
EXTENDS Integers, FiniteSets

CONSTANTS
    Callers,            \* goroutines that send requests under one key
    FailureThreshold, SuccessThreshold, HalfOpenMaxRequests \* cb.config

VARIABLES
    state,          \* cb.state
    failureCount, successCount, halfOpenCount,
    timedOut,       \* cb.config.Timeout has passed since cb.lastFailureTime
    running,        \* callers let in whose outcome is not recorded yet
    probes,         \* auxiliary: those let in since the circuit became half-open
    withdrawn       \* auxiliary: how many of those left without an outcome

vars == <<state, failureCount, successCount, halfOpenCount, timedOut, running,
          probes, withdrawn>>

Init ==
    /\ state = "closed"
    /\ failureCount = 0 /\ successCount = 0 /\ halfOpenCount = 0
    /\ timedOut = FALSE
    /\ running = {} /\ probes = {} /\ withdrawn = 0

\* transitionTo, together with the assignments that follow it.  The callback
\* runs in a goroutine of its own and does not touch the breaker.
TransitionTo(new) ==
    /\ state' = new
    /\ probes' = {}
    /\ withdrawn' = 0

\* Mutant: one probe too many is let in.
Allow_OffByOne(c) ==
    /\ c \notin running
    /\ \/ /\ state = "closed"
          /\ UNCHANGED <<state, halfOpenCount, probes, withdrawn>>
       \/ /\ state = "open" /\ timedOut
          /\ state' = "half-open" /\ withdrawn' = 0
          /\ halfOpenCount' = 1
          /\ probes' = {c}
       \/ /\ state = "half-open" /\ halfOpenCount <= HalfOpenMaxRequests
          /\ halfOpenCount' = halfOpenCount + 1
          /\ probes' = probes \cup {c}
          /\ UNCHANGED <<state, withdrawn>>
    /\ running' = running \cup {c}
    /\ UNCHANGED <<failureCount, successCount, timedOut>>

\* Allow, when it returns true.  When it returns false nothing changes.
Allow(c) ==
    /\ c \notin running
    /\ \/ /\ state = "closed"
          /\ UNCHANGED <<state, halfOpenCount, probes, withdrawn>>
       \/ /\ state = "open" /\ timedOut
          /\ state' = "half-open" /\ withdrawn' = 0
          /\ halfOpenCount' = 1
          /\ probes' = {c}
       \/ /\ state = "half-open" /\ halfOpenCount < HalfOpenMaxRequests
          /\ halfOpenCount' = halfOpenCount + 1
          /\ probes' = probes \cup {c}
          /\ UNCHANGED <<state, withdrawn>>
    /\ running' = running \cup {c}
    /\ UNCHANGED <<failureCount, successCount, timedOut>>

RecordSuccess(c) ==
    /\ c \in running
    /\ running' = running \ {c}
    /\ IF state = "half-open" /\ successCount + 1 >= SuccessThreshold
       THEN /\ TransitionTo("closed")
            /\ failureCount' = 0 /\ successCount' = 0
       ELSE /\ failureCount' = IF state = "closed" THEN 0 ELSE failureCount
            /\ successCount' = IF state = "half-open" THEN successCount + 1
                               ELSE successCount
            /\ probes' = probes \ {c}
            /\ UNCHANGED <<state, withdrawn>>
    /\ UNCHANGED <<halfOpenCount, timedOut>>

\* The failure being recorded opens the circuit.
Trips == \/ state = "half-open"
         \/ state = "closed" /\ failureCount + 1 >= FailureThreshold

RecordFailure(c) ==
    /\ c \in running
    /\ running' = running \ {c}
    /\ timedOut' = FALSE
    /\ failureCount' = IF state = "closed" THEN failureCount + 1 ELSE failureCount
    /\ successCount' = IF state = "half-open" THEN 0 ELSE successCount
    /\ IF Trips
       THEN TransitionTo("open")
       ELSE probes' = probes \ {c} /\ UNCHANGED <<state, withdrawn>>
    /\ UNCHANGED halfOpenCount

\* CheckAndAcquire returns ErrRateLimited or the semaphore's error after Allow.
Withdraw(c) ==
    /\ c \in running
    /\ running' = running \ {c}
    /\ probes' = probes \ {c}
    /\ withdrawn' = IF c \in probes THEN withdrawn + 1 ELSE withdrawn
    /\ UNCHANGED <<state, failureCount, successCount, halfOpenCount, timedOut>>

Reset ==
    /\ TransitionTo("closed")
    /\ failureCount' = 0 /\ successCount' = 0 /\ halfOpenCount' = 0
    /\ UNCHANGED <<timedOut, running>>

\* The clock passes lastFailureTime + Timeout, which only an open circuit looks at.
TimeOut ==
    /\ state = "open" /\ ~timedOut
    /\ timedOut' = TRUE
    /\ UNCHANGED <<state, failureCount, successCount, halfOpenCount, running,
                   probes, withdrawn>>

Next ==
    \/ \E c \in Callers : Allow(c) \/ RecordSuccess(c) \/ RecordFailure(c) \/ Withdraw(c)
    \/ Reset \/ TimeOut

Spec == Init /\ [][Next]_vars

-----------------------------------------------------------------------------
\* cb's counters stay within the thresholds of its configuration.
TypeOK ==
    /\ state \in {"closed", "open", "half-open"}
    /\ failureCount \in 0..FailureThreshold
    /\ successCount \in 0..SuccessThreshold
    /\ halfOpenCount \in 0..HalfOpenMaxRequests
    /\ timedOut \in BOOLEAN
    /\ running \subseteq Callers /\ probes \subseteq running
    /\ withdrawn \in Nat

\* At most HalfOpenMaxRequests callers probe a half-open circuit at a time, over
\* all the outcomes that arrive late from earlier states.
ProbesBounded == Cardinality(probes) <= HalfOpenMaxRequests

\* Each half-open state starts with a clean count: a success counts towards
\* closing the circuit only if it was recorded since the circuit became
\* half-open, so successes from before a failure never help to close it.
SuccessesAreFresh == state # "half-open" => successCount = 0

\* A half-open circuit that lets nobody in any more is waiting for a probe
\* whose outcome will close or reopen it, unless a caller took a probe's place
\* and left without an outcome: the breaker cannot get stuck by itself.
ProbePending ==
    state = "half-open" /\ halfOpenCount >= HalfOpenMaxRequests
        => probes # {} \/ withdrawn > 0
=============================================================================
