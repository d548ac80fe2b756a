----------------------------- MODULE Resilience -----------------------------
(***************************************************************************)
(* internal/resilience/manager.go: the breaker, the rate limiter and the   *)
(* semaphore of one key.  A guarded caller passes the three in turn        *)
(* (CheckAndAcquire), runs its request, and records the outcome and        *)
(* releases in either order; other callers only take a permit, as          *)
(* Client.acquireDeployment does.                                          *)
(*                                                                         *)
(* The semaphore's definitions are extended, the breaker's instantiated:   *)
(* every step of the manager is a step of one of them or of both.          *)
(***************************************************************************)
EXTENDS Semaphore

CONSTANTS
    FailureThreshold, SuccessThreshold, HalfOpenMaxRequests, \* cb.config
    Burst               \* rl.burst

ASSUME ThresholdAssumption ==
    /\ {FailureThreshold, SuccessThreshold, HalfOpenMaxRequests} \subseteq Nat \ {0}
    /\ SuccessThreshold <= HalfOpenMaxRequests
ASSUME BurstAssumption == Burst \in Nat

VARIABLES
    state, failureCount, successCount, halfOpenCount, timedOut, running, probes,
    withdrawn,          \* the breaker's, see module CircuitBreaker
    tokens,             \* rl.tokens, in whole tokens
    next                \* inside CheckAndAcquire: the component to be asked next

breaker == <<state, failureCount, successCount, halfOpenCount, timedOut, running,
             probes, withdrawn>>
allVars == <<vars, breaker, tokens, next>>

CB == INSTANCE CircuitBreaker

ManagerInit ==
    /\ Init
    /\ CB!Init
    /\ tokens = Burst   \* NewRateLimiter starts with a full bucket
    /\ next = [c \in Callers |-> "none"]

AskNext(c, component) == next' = [next EXCEPT ![c] = component]

\* A caller that is in none of the manager's calls and owes it none
Out(c) == pc[c] = "idle" /\ c \notin running

\* CheckAndAcquire: cb.Allow
AskBreaker(c) ==
    /\ Out(c)
    /\ CB!Allow(c)
    /\ AskNext(c, "limiter")
    /\ UNCHANGED <<vars, tokens>>

\* CheckAndAcquire: rl.Allow; without a token it returns ErrRateLimited.
AskLimiter(c) ==
    /\ next[c] = "limiter"
    /\ \/ /\ tokens > 0
          /\ tokens' = tokens - 1
          /\ AskNext(c, "semaphore")
          /\ UNCHANGED breaker
       \/ /\ tokens = 0
          /\ CB!Withdraw(c)
          /\ AskNext(c, "none")
          /\ UNCHANGED tokens
    /\ UNCHANGED vars

\* refill, as time goes by: never above the burst
Refill ==
    /\ tokens < Burst
    /\ tokens' = tokens + 1
    /\ UNCHANGED <<vars, breaker, next>>

\* The steps of s.Acquire that leave the caller inside it
Acquiring(c) ==
    /\ \/ AcquireTry(c) /\ next[c] = "semaphore"
       \/ AcquireEnqueue(c)
       \/ AcquireCancel(c)
    /\ UNCHANGED <<breaker, tokens, next>>

ContextEnds(c) == CtxDone(c) /\ UNCHANGED <<breaker, tokens, next>>

\* s.Acquire returns nil, and so does CheckAndAcquire; or a caller that is not
\* guarded calls s.TryAcquire.
Acquired(c) ==
    /\ \/ TryAcquire(c) /\ (next[c] = "semaphore" \/ Out(c))
       \/ AcquireWake(c)
    /\ AskNext(c, "none")
    /\ UNCHANGED <<breaker, tokens>>

\* s.Acquire returns ctx.Err(), and so does CheckAndAcquire.
AcquireFails(c) ==
    /\ AcquireLeave(c)
    /\ CB!Withdraw(c)
    /\ AskNext(c, "none")
    /\ UNCHANGED tokens

\* Manager.Release
ManagerRelease(c) == Release(c) /\ UNCHANGED <<breaker, tokens, next>>

\* Manager.RecordSuccess and RecordFailure, by a caller that CheckAndAcquire let
\* in, before or after it releases its permit
Record(c) ==
    /\ next[c] = "none"
    /\ CB!RecordSuccess(c) \/ CB!RecordFailure(c)
    /\ UNCHANGED <<vars, tokens, next>>

BreakerAlone == (CB!Reset \/ CB!TimeOut) /\ UNCHANGED <<vars, tokens, next>>

\* What a caller inside CheckAndAcquire does next
CheckAndAcquire(c) ==
    /\ next[c] # "none"
    /\ AskLimiter(c) \/ Acquiring(c) \/ Acquired(c) \/ AcquireFails(c)

ManagerNext ==
    \/ \E c \in Callers :
        \/ AskBreaker(c) \/ CheckAndAcquire(c) \/ ContextEnds(c)
        \/ Out(c) /\ Acquired(c)
        \/ ManagerRelease(c) \/ Record(c)
    \/ Refill
    \/ BreakerAlone

ManagerSpec == ManagerInit /\ [][ManagerNext]_allVars

\* Go's scheduler runs every runnable goroutine: a caller goes on with the
\* CheckAndAcquire it has begun.  A holder releases its permit and records its
\* outcome: the client defers the release, and requests have deadlines.
FairManagerSpec ==
    /\ ManagerSpec
    /\ \A c \in Callers :
        /\ WF_allVars(CheckAndAcquire(c) \/ ManagerRelease(c))
        /\ WF_allVars(Record(c))

-----------------------------------------------------------------------------

\* A half-open circuit has at most HalfOpenMaxRequests probes at a time, also
\* when probes wait in the semaphore's queue or are turned away by the rate
\* limiter, over all the outcomes that arrive late from earlier states
\* (circuitbreaker.go, Allow).
ProbesBounded == CB!ProbesBounded

\* A success counts towards closing the circuit only if it was recorded since the
\* circuit became half-open (RecordSuccess and RecordFailure).
SuccessesAreFresh == CB!SuccessesAreFresh

\* A half-open circuit that has let in all its probes is closed, reopened or
\* reset, unless the rate limiter or the semaphore turned one of the probes away
\* (CheckAndAcquire then records no outcome), or a probe is queued for a permit
\* that nobody is going to release.
ProbesDecide ==
    (state = "half-open" /\ halfOpenCount = HalfOpenMaxRequests)
        ~> \/ state # "half-open"
           \/ withdrawn > 0
           \/ Granted = {} /\ \E c \in probes : pc[c] = "waiting"

\* Under fair scheduling nobody is left behind: a queued caller gets a permit in its turn or gives up
\* (Semaphore.Release hands it over), and a half-open breaker leaves that state once its probes are in.
CallersProgress == ServedInTurn /\ ProbesDecide

=============================================================================
