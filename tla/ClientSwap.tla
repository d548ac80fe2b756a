----------------------------- MODULE ClientSwap -----------------------------
(***************************************************************************)
(* internal/api/client_swap.go: the client that the gateway's handlers use *)
(* can be replaced while requests are in flight.  Each client has a count  *)
(* of its users; the last user, or the goroutine that replaces the client, *)
(* closes it.  Every atomic operation of the code is a step.               *)
(***************************************************************************)
EXTENDS Integers, FiniteSets

CONSTANTS
    Users,      \* goroutines that acquire the client: handlers and the prober
    MaxClients, \* bound: the first client and those that replace it
    Swapper,    \* the goroutine that calls Swap (clientReloader.Reload)
    Closer      \* the goroutine that calls Close, at shutdown

ASSUME UsersFinite == IsFiniteSet(Users)
ASSUME MaxClientsAssumption == MaxClients \in Nat \ {0}
ASSUME ActorsDiffer == Swapper \notin Users /\ Closer \notin Users /\ Swapper # Closer

Clients == 1..MaxClients
Actors == Users \cup {Swapper, Closer}

VARIABLES
    current,                \* s.current
    refs, closing, closed,  \* of each clientRef
    pc,                     \* where each goroutine is
    ref,                    \* the clientRef it works on
    shutdown                \* Close has begun

vars == <<current, refs, closing, closed, pc, ref, shutdown>>

Init ==
    /\ current = 1
    /\ refs = [c \in Clients |-> 0]
    /\ closing = [c \in Clients |-> FALSE]
    /\ closed = [c \in Clients |-> FALSE]
    /\ pc = [a \in Actors |-> "idle"]
    /\ ref = [a \in Actors |-> 1]
    /\ shutdown = FALSE

Goto(a, where) == pc' = [pc EXCEPT ![a] = where]

-----------------------------------------------------------------------------
\* acquire: s.current.Load()
AcquireLoad(u) ==
    /\ pc[u] = "idle"
    /\ ref' = [ref EXCEPT ![u] = current]
    /\ Goto(u, "loaded")
    /\ UNCHANGED <<current, refs, closing, closed, shutdown>>

\* acquire: ref.refs.Add(1); the client is now used.
AcquireAdd(u) ==
    /\ pc[u] = "loaded"
    /\ refs' = [refs EXCEPT ![ref[u]] = @ + 1]
    /\ Goto(u, "using")
    /\ UNCHANGED <<current, closing, closed, ref, shutdown>>

\* Mutant: release compares the count from before it decrements.
ReleaseAdd_OffByOne(u) ==
    /\ pc[u] = "using"
    /\ refs' = [refs EXCEPT ![ref[u]] = @ - 1]
    /\ Goto(u, IF refs[ref[u]] = 0 THEN "last" ELSE "idle")
    /\ UNCHANGED <<current, closing, closed, ref, shutdown>>

\* release: ref.refs.Add(-1) == 0
ReleaseAdd(u) ==
    /\ pc[u] = "using"
    /\ refs' = [refs EXCEPT ![ref[u]] = @ - 1]
    /\ Goto(u, IF refs[ref[u]] = 1 THEN "last" ELSE "idle")
    /\ UNCHANGED <<current, closing, closed, ref, shutdown>>

\* Mutant: the last user closes without looking at closing.
ReleaseTest_Always(u) ==
    /\ pc[u] = "last"
    /\ Goto(u, "close")
    /\ UNCHANGED <<current, refs, closing, closed, ref, shutdown>>

\* release: ref.closing.Load()
ReleaseTest(u) ==
    /\ pc[u] = "last"
    /\ Goto(u, IF closing[ref[u]] THEN "close" ELSE "idle")
    /\ UNCHANGED <<current, refs, closing, closed, ref, shutdown>>

\* closeOnce: the CompareAndSwap, and Close of the client
CloseOnce(a) ==
    /\ pc[a] = "close"
    /\ closed' = [closed EXCEPT ![ref[a]] = TRUE]
    /\ Goto(a, "idle")
    /\ UNCHANGED <<current, refs, closing, ref, shutdown>>

\* swap: s.current.Swap(nextRef)
SwapCurrent ==
    /\ pc[Swapper] = "idle"
    /\ current < MaxClients
    /\ ref' = [ref EXCEPT ![Swapper] = current]
    /\ current' = current + 1
    /\ Goto(Swapper, "mark")
    /\ UNCHANGED <<refs, closing, closed, shutdown>>

\* closeCurrent: s.current.Load()
CloseCurrent ==
    /\ ~shutdown
    /\ shutdown' = TRUE
    /\ ref' = [ref EXCEPT ![Closer] = current]
    /\ Goto(Closer, "mark")
    /\ UNCHANGED <<current, refs, closing, closed>>

\* swap and closeCurrent: closing.Store(true)
MarkClosing(a) ==
    /\ pc[a] = "mark"
    /\ closing' = [closing EXCEPT ![ref[a]] = TRUE]
    /\ Goto(a, "test")
    /\ UNCHANGED <<current, refs, closed, ref, shutdown>>

\* swap and closeCurrent: refs.Load() == 0
TestIdle(a) ==
    /\ pc[a] = "test"
    /\ Goto(a, IF refs[ref[a]] = 0 THEN "close" ELSE "idle")
    /\ UNCHANGED <<current, refs, closing, closed, ref, shutdown>>

\* What a goroutine that has begun an operation does next
Continue(a) ==
    \/ a \in Users /\ (AcquireAdd(a) \/ ReleaseAdd(a) \/ ReleaseTest(a))
    \/ a \in {Swapper, Closer} /\ (MarkClosing(a) \/ TestIdle(a))
    \/ CloseOnce(a)

Next ==
    \/ \E u \in Users : AcquireLoad(u)
    \/ SwapCurrent
    \/ CloseCurrent
    \/ \E a \in Actors : Continue(a)

Spec == Init /\ [][Next]_vars

-----------------------------------------------------------------------------
\* The fields of clientSwap and clientRef; refs, an atomic.Int64, never goes below
\* zero.
TypeOK ==
    /\ current \in Clients
    /\ refs \in [Clients -> Nat]
    /\ closing \in [Clients -> BOOLEAN]
    /\ closed \in [Clients -> BOOLEAN]
    /\ pc \in [Actors -> {"idle", "loaded", "using", "last", "mark", "test", "close"}]
    /\ ref \in [Actors -> Clients]
    /\ shutdown \in BOOLEAN

\* The users of client c
UsersOf(c) == {u \in Users : pc[u] = "using" /\ ref[u] = c}

\* Someone is still on the way to close c, or to find out whether to.
BeingClosed(c) ==
    \E a \in Actors : ref[a] = c /\ pc[a] \in {"last", "mark", "test", "close"}

\* A replaced client is not forgotten: once it is marked and has no users, it is
\* closed, or a goroutine that will close it is under way (release and swap
\* cannot each leave the closing to the other).
ReplacedIsClosed ==
    \A c \in Clients : closing[c] /\ refs[c] = 0 => closed[c] \/ BeingClosed(c)

\* The client that handlers get is open until the server shuts down, whatever
\* late releases of it and of earlier clients do.
CurrentStaysOpen == closed[current] => shutdown

\* The count that release and swap decide by is the number of users between
\* their acquire and their release.
RefsCountUsers == \A c \in Clients : refs[c] = Cardinality(UsersOf(c))
=============================================================================
