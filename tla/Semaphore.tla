----------------------------- MODULE Semaphore -----------------------------
(***************************************************************************)
(* The counting semaphore of internal/resilience/semaphore.go, which       *)
(* bounds the number of requests a provider serves at a time.              *)
(*                                                                         *)
(* Every critical section of s.mu is one step.  Acquire is three critical  *)
(* sections and a select in between: the non-blocking attempt, joining the *)
(* queue of waiters, and, once the context is done, leaving it again.      *)
(* Between any two of them other callers run.                              *)
(***************************************************************************)
EXTENDS Integers, FiniteSets, Sequences

CONSTANTS
    Callers,            \* goroutines that send requests under one key
    RequestedCapacity   \* the argument of NewSemaphore

ASSUME CallersAssumption == IsFiniteSet(Callers)
ASSUME CapacityAssumption == RequestedCapacity \in Int

VARIABLES
    current,    \* s.current: permits counted as taken
    waiters,    \* s.waiters: callers whose channel is queued, oldest first
    woken,      \* callers whose channel Release has closed
    cancelled,  \* callers whose context is done
    pc,         \* where each caller is
    lost        \* auxiliary: hand-overs that nobody received

vars == <<current, waiters, woken, cancelled, pc, lost>>

\* NewSemaphore replaces a capacity that is not positive by 1.
Capacity == IF RequestedCapacity <= 0 THEN 1 ELSE RequestedCapacity

\* "tried": TryAcquire failed inside Acquire, the waiter is not queued yet.
\* "waiting": in the select.  "leaving": the select took ctx.Done().
States == {"idle", "tried", "waiting", "leaving", "holding"}

Init ==
    /\ current = 0
    /\ waiters = <<>>
    /\ woken = {}
    /\ cancelled = {}
    /\ pc = [c \in Callers |-> "idle"]
    /\ lost = 0

Goto(c, state) == pc' = [pc EXCEPT ![c] = state]

\* TryAcquire called on its own, as Client.acquireDeployment does.  A caller
\* that is turned away stays idle.
TryAcquire(c) ==
    /\ pc[c] = "idle"
    /\ current < Capacity
    /\ current' = current + 1
    /\ Goto(c, "holding")
    /\ UNCHANGED <<waiters, woken, cancelled, lost>>

\* The non-blocking attempt Acquire starts with, when it fails.  (When it
\* succeeds it is the step TryAcquire.)
AcquireTry(c) ==
    /\ pc[c] = "idle"
    /\ current >= Capacity
    /\ Goto(c, "tried")
    /\ UNCHANGED <<current, waiters, woken, cancelled, lost>>

\* Mutant: the queue is joined at the front.
AcquireEnqueue_AtFront(c) ==
    /\ pc[c] = "tried"
    /\ waiters' = <<c>> \o waiters
    /\ Goto(c, "waiting")
    /\ UNCHANGED <<current, woken, cancelled, lost>>

\* Acquire queues its channel, without looking at s.current again.
AcquireEnqueue(c) ==
    /\ pc[c] = "tried"
    /\ waiters' = Append(waiters, c)
    /\ Goto(c, "waiting")
    /\ UNCHANGED <<current, woken, cancelled, lost>>

\* The select receives from the closed channel: the permit is ours.
AcquireWake(c) ==
    /\ pc[c] = "waiting"
    /\ c \in woken
    /\ woken' = woken \ {c}
    /\ Goto(c, "holding")
    /\ UNCHANGED <<current, waiters, cancelled, lost>>

\* The select takes ctx.Done(), which it may do although the channel has been
\* closed as well: Go chooses at random among the ready cases.
AcquireCancel(c) ==
    /\ pc[c] = "waiting"
    /\ c \in cancelled
    /\ Goto(c, "leaving")
    /\ UNCHANGED <<current, waiters, woken, cancelled, lost>>

\* waiters without its i-th element.
WithoutIndex(i) ==
    [j \in 1..(Len(waiters) - 1) |-> waiters[IF j < i THEN j ELSE j + 1]]

\* Acquire takes itself off the queue, if it is still there, and returns
\* ctx.Err().  A channel that was closed in the meantime is dropped with the
\* permit it stands for.
AcquireLeave(c) ==
    /\ pc[c] = "leaving"
    /\ waiters' = IF \E i \in DOMAIN waiters : waiters[i] = c
                  THEN WithoutIndex(CHOOSE i \in DOMAIN waiters : waiters[i] = c)
                  ELSE waiters
    /\ woken' = woken \ {c}
    /\ lost' = IF c \in woken THEN lost + 1 ELSE lost
    /\ cancelled' = cancelled \ {c}
    /\ Goto(c, "idle")
    /\ UNCHANGED current

\* Mutant: Release wakes a waiter and gives the permit back as well.
Release_WakesAndDecrements(c) ==
    /\ pc[c] = "holding"
    /\ current' = IF current > 0 THEN current - 1 ELSE current
    /\ IF current > 0 /\ waiters # <<>>
       THEN woken' = woken \cup {Head(waiters)} /\ waiters' = Tail(waiters)
       ELSE UNCHANGED <<waiters, woken>>
    /\ cancelled' = cancelled \ {c}
    /\ Goto(c, "idle")
    /\ UNCHANGED lost

\* Release hands the permit to the oldest waiter, or gives it back when there
\* is none; with nothing taken it does nothing.
Release(c) ==
    /\ pc[c] = "holding"
    /\ IF current > 0 /\ waiters # <<>>
       THEN /\ woken' = woken \cup {Head(waiters)}
            /\ waiters' = Tail(waiters)
            /\ UNCHANGED current
       ELSE /\ current' = IF current > 0 THEN current - 1 ELSE current
            /\ UNCHANGED <<waiters, woken>>
    /\ cancelled' = cancelled \ {c}
    /\ Goto(c, "idle")
    /\ UNCHANGED lost

\* The context of a caller inside Acquire is cancelled or times out.
CtxDone(c) ==
    /\ pc[c] \in {"tried", "waiting"}
    /\ c \notin cancelled
    /\ cancelled' = cancelled \cup {c}
    /\ UNCHANGED <<current, waiters, woken, pc, lost>>

Next ==
    \E c \in Callers :
        \/ TryAcquire(c)
        \/ AcquireTry(c)
        \/ AcquireEnqueue(c)
        \/ AcquireWake(c)
        \/ AcquireCancel(c)
        \/ AcquireLeave(c)
        \/ Release(c)
        \/ CtxDone(c)

Spec == Init /\ [][Next]_vars

-----------------------------------------------------------------------------
\* Callers past Acquire or TryAcquire.
Holding == {c \in Callers : pc[c] = "holding"}

\* A permit is on its way to a caller whose channel is closed.
Granted == Holding \cup woken

\* s.current stays between zero and s.max, and every caller is at one of the
\* places of Acquire and Release.
TypeOK ==
    /\ current \in 0..Capacity
    /\ waiters \in Seq(Callers)
    /\ woken \subseteq Callers
    /\ cancelled \subseteq Callers
    /\ pc \in [Callers -> States]
    /\ lost \in 0..Capacity

\* No more callers than the capacity are past Acquire at a time, whatever
\* contexts are cancelled and permits handed over (semaphore.go:13, "It limits
\* the number of concurrent operations").
ConcurrencyBound == Cardinality(Holding) <= Capacity

\* s.current is the permits held, plus those handed to a waiter that has not
\* run yet, plus those handed to a waiter whose select took ctx.Done():
\* dropping such a hand-over is the only way Acquire and Release lose a permit,
\* and no permit is ever counted twice.
Accounting == current = Cardinality(Granted) + lost

\* A channel is queued at most once, only while its caller is inside Acquire,
\* and leaves the queue before it is closed.  Release would otherwise close a
\* channel twice, which panics, or wake a caller that has left.
QueueDiscipline ==
    /\ \A i, j \in DOMAIN waiters : waiters[i] = waiters[j] => i = j
    /\ \A i \in DOMAIN waiters :
          /\ pc[waiters[i]] \in {"waiting", "leaving"}
          /\ waiters[i] \notin woken
    /\ \A c \in woken : pc[c] \in {"waiting", "leaving"}

\* Release serves waiters in the order in which they queued: a caller queued
\* while every permit is taken gets one or gives up, however many others come
\* and go, unless dropped hand-overs have used up the whole capacity.
ServedInTurn ==
    \A c \in Callers :
        (pc[c] = "waiting" /\ current = Capacity)
            ~> (pc[c] # "waiting" \/ lost = Capacity)
=============================================================================
