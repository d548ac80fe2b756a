---------------------------- MODULE Reload_proof ----------------------------
(***************************************************************************)
(* For every number of users and of replacements: the reference counts are *)
(* right, no replaced client is forgotten, and the current one stays open. *)
(* For every number of goroutines that reload: what they leave agrees, and *)
(* one builds at a time.  For every set of deployments: the health checker *)
(* respects the cooldowns that others began.                               *)
(***************************************************************************)
EXTENDS Reload, FiniteSetTheorems, TLAPS

USE SMTT(30)

\* A client is closed, or about to be, only if it is marked, and marked only if
\* it is no longer the current one or the server shuts down.
OnlyMarkedClosed ==
    /\ \A c \in Clients : closed[c] => closing[c]
    /\ \A a \in Actors : pc[a] \in {"test", "close"} => closing[ref[a]]
    /\ \A c \in Clients : closing[c] => c < current \/ shutdown
    /\ \A a \in Actors : pc[a] = "mark" => ref[a] < current \/ shutdown

\* Close is called once, so it never forgets a client it was closing.
CloserWaits == ~shutdown => pc[Closer] = "idle"

IInv ==
    TypeOK /\ RefsCountUsers /\ ReplacedIsClosed /\ OnlyMarkedClosed /\ CloserWaits

\* The users of a client can be counted.
LEMMA UsersOfFinite == \A c : IsFiniteSet(UsersOf(c)) /\ Cardinality(UsersOf(c)) \in Nat
BY Zenon, UsersFinite, FS_Subset, FS_CardinalityType DEF UsersOf

\* At the start nobody uses the one client.
LEMMA InitIInv == Init => IInv
<1> SUFFICES ASSUME Init PROVE IInv
  BY Zenon
<1>1. TypeOK
  <2>1. current \in Clients /\ refs \in [Clients -> Nat] /\ ref \in [Actors -> Clients]
    BY MaxClientsAssumption DEF Init, Clients
  <2>2. closing \in [Clients -> BOOLEAN] /\ closed \in [Clients -> BOOLEAN]
    BY Zenon DEF Init
  <2>3. shutdown \in BOOLEAN
    BY Zenon DEF Init
  <2>4. pc \in [Actors -> {"idle", "loaded", "using", "last", "mark", "test", "close"}]
    BY Zenon DEF Init
  <2> QED
    BY Zenon, <2>1, <2>2, <2>3, <2>4 DEF TypeOK
<1>2. RefsCountUsers
  <2>1. \A c : UsersOf(c) = {}
    BY Zenon DEF Init, UsersOf, Actors
  <2> QED
    BY Zenon, <2>1, FS_EmptySet DEF RefsCountUsers, Init
<1>3. ReplacedIsClosed /\ OnlyMarkedClosed /\ CloserWaits
  BY Zenon DEF Init, CloserWaits, ReplacedIsClosed, OnlyMarkedClosed, Clients, Actors
<1> QED
  BY Zenon, <1>1, <1>2, <1>3 DEF IInv

\* The users of each client stay the same when no user begins or ends.
LEMMA UsersUnchanged ==
    ASSUME RefsCountUsers, refs' = refs,
           \A u \in Users, c \in Clients : (pc'[u] = "using" /\ ref'[u] = c) <=>
                                           (pc[u] = "using" /\ ref[u] = c)
    PROVE  RefsCountUsers'
<1>1. \A c \in Clients : UsersOf(c)' = UsersOf(c)
  BY Zenon DEF UsersOf
<1> QED
  BY Zenon, <1>1 DEF RefsCountUsers

\* acquire counts the user that it becomes.
LEMMA AcquireAddStep ==
    ASSUME IInv, NEW u \in Users, AcquireAdd(u)
    PROVE  IInv'
<1> DEFINE c == ref[u]
<1> USE DEF IInv, AcquireAdd, Goto, Actors
<1>0. c \in Clients /\ refs[c] \in Nat
  BY Zenon DEF TypeOK
<1>1. TypeOK'
  <2>1. refs' \in [Clients -> Nat]
    BY <1>0 DEF TypeOK
  <2>2. pc' \in [Actors -> {"idle", "loaded", "using", "last", "mark", "test", "close"}]
    BY Zenon DEF TypeOK
  <2> QED
    BY Zenon, <2>1, <2>2 DEF TypeOK
<1>2. RefsCountUsers'
  <2>1. UsersOf(c)' = UsersOf(c) \cup {u} /\ u \notin UsersOf(c)
    BY Zenon DEF UsersOf, TypeOK
  <2>2. \A x \in Clients : x # c => UsersOf(x)' = UsersOf(x)
    BY Zenon DEF UsersOf, TypeOK
  <2>3. Cardinality(UsersOf(c)') = Cardinality(UsersOf(c)) + 1
    BY Zenon, <2>1, UsersOfFinite, FS_AddElement
  <2>4. \A x \in Clients : refs'[x] = IF x = c THEN refs[x] + 1 ELSE refs[x]
    BY Zenon, <1>0 DEF TypeOK
  <2> QED
    BY Zenon, <2>2, <2>3, <2>4 DEF RefsCountUsers
<1>3. ReplacedIsClosed'
  <2>1. refs'[c] # 0 /\ \A x \in Clients : x # c => refs'[x] = refs[x]
    BY <1>0 DEF TypeOK
  <2>2. \A x : BeingClosed(x) => BeingClosed(x)'
    BY Zenon DEF BeingClosed, TypeOK
  <2> QED
    BY Zenon, <2>1, <2>2 DEF ReplacedIsClosed
<1>4. OnlyMarkedClosed' /\ CloserWaits'
  BY Zenon, ActorsDiffer DEF CloserWaits, OnlyMarkedClosed, TypeOK
<1> QED
  BY Zenon, <1>1, <1>2, <1>3, <1>4

\* release takes one user off, and the last one off a marked client goes on to
\* close it.
LEMMA ReleaseAddStep ==
    ASSUME IInv, NEW u \in Users, ReleaseAdd(u)
    PROVE  IInv'
<1> DEFINE c == ref[u]
<1> USE DEF IInv, ReleaseAdd, Goto, Actors
<1>0. c \in Clients /\ refs[c] \in Nat \ {0}
  <2>1. u \in UsersOf(c) /\ c \in Clients
    BY Zenon DEF UsersOf, TypeOK
  <2>2. Cardinality(UsersOf(c)) # 0
    BY Zenon, <2>1, UsersOfFinite, FS_EmptySet
  <2> QED
    BY Zenon, <2>1, <2>2 DEF RefsCountUsers, TypeOK
<1>1. TypeOK'
  <2>1. refs' \in [Clients -> Nat]
    BY <1>0 DEF TypeOK
  <2>2. pc' \in [Actors -> {"idle", "loaded", "using", "last", "mark", "test", "close"}]
    BY Zenon DEF TypeOK
  <2> QED
    BY Zenon, <2>1, <2>2 DEF TypeOK
<1>2. RefsCountUsers'
  <2>1. UsersOf(c)' = UsersOf(c) \ {u} /\ u \in UsersOf(c)
    BY Zenon DEF UsersOf, TypeOK
  <2>2. \A x \in Clients : x # c => UsersOf(x)' = UsersOf(x)
    BY Zenon DEF UsersOf, TypeOK
  <2>3. Cardinality(UsersOf(c)') = Cardinality(UsersOf(c)) - 1
    BY Zenon, <2>1, UsersOfFinite, FS_RemoveElement
  <2>4. \A x \in Clients : refs'[x] = IF x = c THEN refs[x] - 1 ELSE refs[x]
    BY Zenon, <1>0 DEF TypeOK
  <2> QED
    BY Zenon, <2>2, <2>3, <2>4 DEF RefsCountUsers
<1>3. ReplacedIsClosed'
  <2>1. refs'[c] = 0 => BeingClosed(c)'
    BY <1>0 DEF BeingClosed, TypeOK
  <2>2. \A x \in Clients : x # c => refs'[x] = refs[x]
    BY Zenon, <1>0 DEF TypeOK
  <2>3. \A x : BeingClosed(x) => BeingClosed(x)'
    BY Zenon DEF BeingClosed, TypeOK
  <2> QED
    BY Zenon, <2>1, <2>2, <2>3 DEF ReplacedIsClosed
<1>4. OnlyMarkedClosed' /\ CloserWaits'
  BY Zenon, ActorsDiffer DEF CloserWaits, OnlyMarkedClosed, TypeOK
<1> QED
  BY Zenon, <1>1, <1>2, <1>3, <1>4

\* The steps that leave the counts and the users alone
LEMMA QuietStep ==
    ASSUME IInv,
           \/ \E u \in Users : AcquireLoad(u) \/ ReleaseTest(u)
           \/ \E a \in Actors : CloseOnce(a)
           \/ \E a \in {Swapper, Closer} : MarkClosing(a) \/ TestIdle(a)
    PROVE  IInv'
<1> USE DEF IInv, Goto, Actors
<1>1. CASE \E u \in Users : AcquireLoad(u)
  <2> PICK u \in Users : AcquireLoad(u)
    BY Zenon, <1>1
  <2> USE DEF AcquireLoad
  <2>1. TypeOK'
    BY Zenon DEF TypeOK
  <2>2. RefsCountUsers'
    BY Zenon, UsersUnchanged DEF TypeOK
  <2>3. \A x : BeingClosed(x) => BeingClosed(x)'
    BY Zenon DEF BeingClosed, TypeOK
  <2>4. ReplacedIsClosed'
    BY Zenon, <2>3 DEF ReplacedIsClosed
  <2>5. OnlyMarkedClosed' /\ CloserWaits'
    BY Zenon, ActorsDiffer DEF CloserWaits, OnlyMarkedClosed, TypeOK
  <2> QED
    BY Zenon, <2>1, <2>2, <2>4, <2>5
<1>2. CASE \E u \in Users : ReleaseTest(u)
  <2> PICK u \in Users : ReleaseTest(u)
    BY Zenon, <1>2
  <2> USE DEF ReleaseTest
  <2>1. TypeOK'
    BY Zenon DEF TypeOK
  <2>2. RefsCountUsers'
    BY Zenon, UsersUnchanged DEF TypeOK
  <2>3. \A x : closing[x] /\ BeingClosed(x) => BeingClosed(x)'
    BY DEF BeingClosed, TypeOK
  <2>4. ReplacedIsClosed'
    BY Zenon, <2>3 DEF ReplacedIsClosed
  <2>5. OnlyMarkedClosed' /\ CloserWaits'
    BY Zenon, ActorsDiffer DEF CloserWaits, OnlyMarkedClosed, TypeOK
  <2> QED
    BY Zenon, <2>1, <2>2, <2>4, <2>5
<1>3. CASE \E a \in Actors : CloseOnce(a)
  <2> PICK a \in Actors : CloseOnce(a)
    BY Zenon, <1>3
  <2> USE DEF CloseOnce
  <2>1. TypeOK'
    BY Zenon DEF TypeOK
  <2>2. RefsCountUsers'
    BY Zenon, UsersUnchanged DEF TypeOK
  <2>3. \A x \in Clients : x # ref[a] /\ BeingClosed(x) => BeingClosed(x)'
    BY Zenon DEF BeingClosed, TypeOK
  <2>4. \A x \in Clients : closed'[x] <=> closed[x] \/ x = ref[a]
    BY Zenon DEF TypeOK
  <2>5. ReplacedIsClosed'
    BY Zenon, <2>3, <2>4 DEF ReplacedIsClosed
  <2>6. OnlyMarkedClosed' /\ CloserWaits'
    BY Zenon, <2>4, ActorsDiffer DEF CloserWaits, OnlyMarkedClosed, TypeOK
  <2> QED
    BY Zenon, <2>1, <2>2, <2>5, <2>6
<1>4. CASE \E a \in {Swapper, Closer} : MarkClosing(a)
  <2> PICK a \in {Swapper, Closer} : MarkClosing(a)
    BY Zenon, <1>4
  <2> USE DEF MarkClosing
  <2>1. TypeOK'
    BY Zenon DEF TypeOK
  <2>2. RefsCountUsers'
    BY Zenon, UsersUnchanged, ActorsDiffer DEF TypeOK
  <2>3. \A x : BeingClosed(x) => BeingClosed(x)'
    BY Zenon DEF BeingClosed, TypeOK
  <2>4. BeingClosed(ref[a])'
    BY Zenon DEF BeingClosed, TypeOK
  <2>5. \A x \in Clients : closing'[x] <=> closing[x] \/ x = ref[a]
    BY Zenon DEF TypeOK
  <2>6. ReplacedIsClosed'
    BY Zenon, <2>3, <2>4, <2>5 DEF ReplacedIsClosed
  <2>7. OnlyMarkedClosed' /\ CloserWaits'
    BY <2>5, ActorsDiffer DEF CloserWaits, OnlyMarkedClosed, TypeOK
  <2> QED
    BY Zenon, <2>1, <2>2, <2>6, <2>7
<1>5. CASE \E a \in {Swapper, Closer} : TestIdle(a)
  <2> PICK a \in {Swapper, Closer} : TestIdle(a)
    BY Zenon, <1>5
  <2> USE DEF TestIdle
  <2>1. TypeOK'
    BY Zenon DEF TypeOK
  <2>2. RefsCountUsers'
    BY Zenon, UsersUnchanged, ActorsDiffer DEF TypeOK
  <2>3. \A x : refs[x] = 0 /\ BeingClosed(x) => BeingClosed(x)'
    BY Zenon DEF BeingClosed, TypeOK
  <2>4. ReplacedIsClosed'
    BY Zenon, <2>3 DEF ReplacedIsClosed
  <2>5. OnlyMarkedClosed' /\ CloserWaits'
    BY Zenon, ActorsDiffer DEF CloserWaits, OnlyMarkedClosed, TypeOK
  <2> QED
    BY Zenon, <2>1, <2>2, <2>4, <2>5
<1> QED
  BY Zenon, <1>1, <1>2, <1>3, <1>4, <1>5

\* A swap leaves the old client to be marked.
LEMMA SwapStep ==
    ASSUME IInv, SwapCurrent \/ CloseCurrent
    PROVE  IInv'
<1> USE DEF IInv, Goto, Actors
<1>1. CASE SwapCurrent
  <2> USE <1>1 DEF SwapCurrent
  <2>1. TypeOK'
    <3>1. current' \in Clients
      BY MaxClientsAssumption DEF TypeOK, Clients
    <3> QED
      BY Zenon, <3>1 DEF TypeOK
  <2>2. RefsCountUsers'
    BY Zenon, UsersUnchanged, ActorsDiffer DEF TypeOK
  <2>3. \A x : BeingClosed(x) => BeingClosed(x)'
    BY Zenon, ActorsDiffer DEF BeingClosed, TypeOK
  <2>4. ReplacedIsClosed'
    BY Zenon, <2>3 DEF ReplacedIsClosed
  <2>5. OnlyMarkedClosed' /\ CloserWaits'
    BY ActorsDiffer DEF CloserWaits, OnlyMarkedClosed, TypeOK, Clients
  <2> QED
    BY Zenon, <2>1, <2>2, <2>4, <2>5
<1>2. CASE CloseCurrent
  <2> USE <1>2 DEF CloseCurrent
  <2>1. TypeOK'
    BY Zenon DEF TypeOK
  <2>2. RefsCountUsers'
    BY Zenon, UsersUnchanged, ActorsDiffer DEF TypeOK
  <2>3. \A x : BeingClosed(x) => BeingClosed(x)'
    BY Zenon, ActorsDiffer DEF BeingClosed, TypeOK, CloserWaits
  <2>4. ReplacedIsClosed'
    BY Zenon, <2>3 DEF ReplacedIsClosed
  <2>5. OnlyMarkedClosed' /\ CloserWaits'
    BY Zenon, ActorsDiffer DEF CloserWaits, OnlyMarkedClosed, TypeOK
  <2> QED
    BY Zenon, <2>1, <2>2, <2>4, <2>5
<1> QED
  BY Zenon, <1>1, <1>2

\* Every step of the swapper, its users and Close keeps the invariant.
LEMMA NextIInv == IInv /\ [Next]_vars => IInv'
<1> SUFFICES ASSUME IInv, [Next]_vars PROVE IInv'
  BY Zenon
<1>1. CASE \E u \in Users : AcquireAdd(u)
  BY Zenon, <1>1, AcquireAddStep
<1>2. CASE \E u \in Users : ReleaseAdd(u)
  BY Zenon, <1>2, ReleaseAddStep
<1>3. CASE \/ \E u \in Users : AcquireLoad(u) \/ ReleaseTest(u)
           \/ \E a \in Actors : CloseOnce(a)
           \/ \E a \in {Swapper, Closer} : MarkClosing(a) \/ TestIdle(a)
  BY Zenon, <1>3, QuietStep
<1>4. CASE SwapCurrent \/ CloseCurrent
  BY Zenon, <1>4, SwapStep
<1>5. CASE UNCHANGED vars
  BY <1>5 DEF vars, IInv, TypeOK, RefsCountUsers, UsersOf, ReplacedIsClosed,
              BeingClosed, OnlyMarkedClosed, CloserWaits
<1> QED
  BY Zenon, <1>1, <1>2, <1>3, <1>4, <1>5 DEF Next, Continue

\* The invariant of the swapper holds at all times.
LEMMA SwapInvariant == Spec => []IInv
BY InitIInv, NextIInv, PTL DEF Spec

\* No replaced client is leaked: release and swap never leave the closing of an
\* idle client to each other.
THEOREM ReplacedClientsAreClosed == Spec => []ReplacedIsClosed
<1>1. IInv => ReplacedIsClosed
  BY Zenon DEF IInv
<1> QED
  BY <1>1, SwapInvariant, PTL

\* However late a release runs, the client that handlers are given is not closed
\* before the server shuts down, and its count is that of its users.
THEOREM CurrentClientIsOpen == Spec => [](CurrentStaysOpen /\ RefsCountUsers)
<1>1. IInv => CurrentStaysOpen /\ RefsCountUsers
  <2> SUFFICES ASSUME IInv PROVE CurrentStaysOpen
    BY Zenon DEF IInv
  <2>1. current \in Clients /\ ~(current < current)
    BY DEF IInv, TypeOK, Clients
  <2> QED
    BY Zenon, <2>1 DEF IInv, OnlyMarkedClosed, CurrentStaysOpen
<1> QED
  BY <1>1, SwapInvariant, PTL
-----------------------------------------------------------------------------
\* In the composition with reloads and the health checker, the client's users
\* and the goroutine that swaps do nothing that ClientSwap does not allow.
LEMMA ReloadStepSimulates == [ReloadNext]_all => [Next]_vars
<1> SUFFICES ASSUME ReloadNext PROVE [Next]_vars
  BY Zenon DEF all, vars
<1>1. CASE FileChanges \/ Watch \/ Listen \/ TimerFires \/ Probes \/ Others
  BY Zenon, <1>1 DEF FileChanges, Watch, Listen, TimerFires, Probes, Others
<1>2. CASE Uses \/ Stops
  <2>1. CASE Uses
    <3>1. PICK u \in Users : AcquireLoad(u)
      BY Zenon, <2>1 DEF Uses
    <3> QED
      BY Zenon, <3>1 DEF Next
  <2>2. CASE Stops
    BY Zenon, <2>2 DEF Stops, Next
  <2> QED
    BY Zenon, <1>2, <2>1, <2>2
<1>3. ASSUME NEW g \in Goroutines, ReloadEndpoint(g) \/ ReloadGoesOn(g)
      PROVE  [Next]_vars
  BY Zenon, <1>3 DEF ReloadEndpoint, ReloadGoesOn, ReloadStep, SwapIn, Next
<1>4. ASSUME NEW a \in Actors, UserGoesOn(a)
      PROVE  [Next]_vars
  BY Zenon, <1>4, CheckerAssumption DEF UserGoesOn, Next, Continue
<1> QED
  BY Zenon, <1>1, <1>2, <1>3, <1>4 DEF ReloadNext

\* Reloading as a whole implements the swap, so what is proved of ClientSwap
\* holds of it.
THEOREM ReloadImplementsSwap == ReloadSpec => Spec
<1>1. ReloadInit => Init
  BY Zenon DEF ReloadInit
<1> QED
  BY <1>1, ReloadStepSimulates, PTL DEF ReloadSpec, Spec

\* Whatever reloads, handlers, probes and a shutdown do to the client at once:
\* none is leaked, and the one that handlers are given is open.
THEOREM ReloadingKeepsClients == ReloadSpec => [](ReplacedIsClosed /\ CurrentStaysOpen)
BY ReloadImplementsSwap, ReplacedClientsAreClosed, CurrentClientIsOpen, PTL

-----------------------------------------------------------------------------
\* Reloads: who builds, who swaps, and what a reload has stored so far

Stages == {"idle", "load", "store", "checksum", "notify", "build", "swap", "leave", "govern"}
Building == {"build", "swap", "leave"}

ReloadTypes ==
    /\ file \in Nat /\ newCfg \in [Goroutines -> Nat]
    /\ reloading \in [Goroutines -> Stages]
    /\ inProgress \in BOOLEAN /\ overlapped \in BOOLEAN

\* inProgress is set exactly while one goroutine builds.
OneBuilder ==
    /\ ~inProgress => \A g \in Goroutines : reloading[g] \notin Building
    /\ inProgress => \E g \in Goroutines :
                         \A h \in Goroutines : reloading[h] \in Building <=> h = g

\* The goroutine that swapped waits for its swap to be done.
SwapSeenTo == pc[Swapper] # "idle" => \E g \in Goroutines : reloading[g] = "leave"

Agree == checksum = config /\ (config \notin Unbuildable => client = config)

\* While reloads do not overlap, what the one under way has stored is what it
\* has loaded.
OneReload ==
    ~overlapped =>
    /\ \A g, h \in Goroutines : reloading[g] # "idle" /\ reloading[h] # "idle" => g = h
    /\ (\A g \in Goroutines : reloading[g] \in {"idle", "load", "store", "leave", "govern"})
           => Agree
    /\ \A g \in Goroutines :
           /\ reloading[g] \in {"checksum", "notify", "build", "swap"} => config = newCfg[g]
           /\ reloading[g] \in {"notify", "build", "swap"} => checksum = newCfg[g]
           /\ reloading[g] = "swap" => newCfg[g] \notin Unbuildable

ReloadInv == ReloadTypes /\ OneBuilder /\ OneReload

\* The prober: what others write ends at odd times and what it writes at even
\* ones, so that it takes no cooldown for its own that is not.
Even(n) == n % 2 = 0

ProbeTypes ==
    /\ clock \in Nat /\ held \in Clients /\ todo \subseteq Deployments
    /\ cooldown \in [Clients -> [Deployments -> Nat]]
    /\ setter \in [Clients -> [Deployments -> {"none", "probe", "others"}]]
    /\ recorded \in [Deployments -> Nat] /\ until \in Nat /\ touched \in BOOLEAN
    /\ probe \in {"idle", "next", "set", "record", "clear"}
    /\ probe \in {"set", "record", "clear"} => probing \in Deployments

Parity ==
    /\ \A c \in Clients, d \in Deployments :
           /\ setter[c][d] = "none" => cooldown[c][d] = 0
           /\ setter[c][d] = "others" => ~Even(cooldown[c][d])
    /\ \A d \in Deployments : Even(recorded[d])
    /\ probe \in {"set", "record"} => Even(until)

\* What the prober has read still holds, unless another has written since.
ReadsHold ==
    ~touched =>
    /\ probe = "set" => cooldown[held][probing] <= until
    /\ probe = "clear" => setter[held][probing] = "probe"

ProbeInv == ProbeTypes /\ Parity /\ ReadsHold

-----------------------------------------------------------------------------
\* One goroutine goes on.
LEMMA Moves ==
    ASSUME ReloadTypes, NEW g \in Goroutines, NEW w \in Stages, R!Goto(g, w)
    PROVE  /\ reloading' \in [Goroutines -> Stages] /\ reloading'[g] = w
           /\ \A h \in Goroutines : h # g => reloading'[h] = reloading[h]
  BY DEF ReloadTypes, R!Goto

\* One that begins finds what the last one left, or another under way.
LEMMA BeginKeeps ==
    ASSUME ReloadInv, NEW g \in Goroutines, R!Begin(g)
    PROVE  ReloadInv'
  <1>1. /\ reloading[g] = "idle" /\ overlapped' = (overlapped \/ ~R!Idle) /\ R!Goto(g, "load")
        /\ UNCHANGED <<file, config, checksum, client, inProgress, newCfg>>
    BY Zenon DEF R!Begin, R!state
  <1>2. /\ reloading' \in [Goroutines -> Stages] /\ reloading'[g] = "load"
        /\ \A h \in Goroutines : h # g => reloading'[h] = reloading[h]
    BY <1>1, Moves DEF ReloadInv, Stages
  <1>3. ReloadTypes'
    <2>1. overlapped' \in BOOLEAN
      BY Zenon, <1>1
    <2> QED BY Zenon, <1>1, <1>2, <2>1 DEF ReloadInv, ReloadTypes
  <1>4. OneBuilder'
    <2>1. \A h \in Goroutines : reloading'[h] \in Building <=> reloading[h] \in Building
      BY <1>1, <1>2 DEF Building
    <2> QED BY Zenon, <1>1, <2>1 DEF ReloadInv, OneBuilder
  <1>5. ASSUME ~overlapped' PROVE ~overlapped /\ \A h \in Goroutines : reloading[h] = "idle"
    BY Zenon, <1>1, <1>5 DEF R!Idle
  <1>6. OneReload'
    BY <1>1, <1>2, <1>5 DEF ReloadInv, OneReload, Agree
  <1> QED BY Zenon, <1>3, <1>4, <1>6 DEF ReloadInv

\* The steps of Reload that neither begin nor end building
LEMMA LoadKeeps ==
    ASSUME ReloadInv, NEW g \in Goroutines, R!Load(g)
    PROVE  ReloadInv'
  <1> DEFINE w == IF file \in Bad THEN "idle" ELSE "store"
  <1>1. /\ reloading[g] = "load" /\ newCfg' = [newCfg EXCEPT ![g] = file] /\ R!Goto(g, w)
        /\ UNCHANGED <<file, config, checksum, client, inProgress, overlapped>>
    BY Zenon DEF R!Load, R!state, R!files
  <1>2. w \in {"idle", "store"} /\ w \in Stages
    BY DEF Stages
  <1> HIDE DEF w
  <1>3. /\ reloading' \in [Goroutines -> Stages] /\ reloading'[g] = w
        /\ \A h \in Goroutines : h # g => reloading'[h] = reloading[h]
    BY <1>1, <1>2, Moves DEF ReloadInv
  <1>4. /\ newCfg' \in [Goroutines -> Nat]
        /\ \A h \in Goroutines : h # g => newCfg'[h] = newCfg[h]
    BY <1>1 DEF ReloadInv, ReloadTypes
  <1>5. ReloadTypes'
    BY Zenon, <1>1, <1>3, <1>4 DEF ReloadInv, ReloadTypes
  <1>6. OneBuilder'
    <2>1. \A h \in Goroutines : reloading'[h] \in Building <=> reloading[h] \in Building
      BY <1>1, <1>2, <1>3 DEF Building
    <2> QED BY Zenon, <1>1, <2>1 DEF ReloadInv, OneBuilder
  <1>7. OneReload'
    BY <1>1, <1>2, <1>3, <1>4 DEF ReloadInv, OneReload, Agree
  <1> QED BY Zenon, <1>5, <1>6, <1>7 DEF ReloadInv

\* The configuration is stored, then its checksum.
LEMMA StoreKeeps ==
    ASSUME ReloadInv, NEW g \in Goroutines, R!StoreConfig(g) \/ R!StoreChecksum(g)
    PROVE  ReloadInv'
  <1>1. /\ UNCHANGED <<file, client, inProgress, newCfg, overlapped>>
        /\ \/ /\ reloading[g] = "store" /\ R!Goto(g, "checksum")
              /\ config' = newCfg[g] /\ checksum' = checksum
           \/ /\ reloading[g] = "checksum" /\ R!Goto(g, "notify")
              /\ checksum' = newCfg[g] /\ config' = config
    BY Zenon DEF R!StoreConfig, R!StoreChecksum, R!files
  <1>2. /\ reloading' \in [Goroutines -> Stages]
        /\ \A h \in Goroutines : h # g => reloading'[h] = reloading[h]
        /\ \/ /\ reloading[g] = "store" /\ reloading'[g] = "checksum"
              /\ config' = newCfg[g] /\ checksum' = checksum
           \/ /\ reloading[g] = "checksum" /\ reloading'[g] = "notify"
              /\ checksum' = newCfg[g] /\ config' = config
    BY <1>1, Moves DEF ReloadInv, Stages
  <1>3. ReloadTypes'
    BY Zenon, <1>1, <1>2 DEF ReloadInv, ReloadTypes
  <1>4. OneBuilder'
    <2>1. \A h \in Goroutines : reloading'[h] \in Building <=> reloading[h] \in Building
      BY <1>2 DEF Building
    <2> QED BY Zenon, <1>1, <2>1 DEF ReloadInv, OneBuilder
  <1>5. OneReload'
    BY <1>1, <1>2 DEF ReloadInv, OneReload, Agree
  <1> QED BY Zenon, <1>3, <1>4, <1>5 DEF ReloadInv

\* The second listener only updates governance.
LEMMA GovernKeeps ==
    ASSUME ReloadInv, NEW g \in Goroutines, R!UpdateGovernance(g)
    PROVE  ReloadInv'
  <1>1. /\ UNCHANGED <<file, config, checksum, client, inProgress, newCfg, overlapped>>
        /\ reloading[g] = "govern" /\ R!Goto(g, "idle")
    BY Zenon DEF R!UpdateGovernance, R!files
  <1>2. /\ reloading' \in [Goroutines -> Stages] /\ reloading'[g] = "idle"
        /\ \A h \in Goroutines : h # g => reloading'[h] = reloading[h]
    BY <1>1, Moves DEF ReloadInv, Stages
  <1>3. ReloadTypes'
    BY Zenon, <1>1, <1>2 DEF ReloadInv, ReloadTypes
  <1>4. OneBuilder'
    <2>1. \A h \in Goroutines : reloading'[h] \in Building <=> reloading[h] \in Building
      BY <1>1, <1>2 DEF Building
    <2> QED BY Zenon, <1>1, <2>1 DEF ReloadInv, OneBuilder
  <1>5. OneReload'
    BY <1>1, <1>2 DEF ReloadInv, OneReload, Agree
  <1> QED BY Zenon, <1>3, <1>4, <1>5 DEF ReloadInv

\* clientReloader.Reload begins, unless another is building.
LEMMA ClientReloadKeeps ==
    ASSUME ReloadInv, NEW g \in Goroutines, R!ClientReload(g)
    PROVE  ReloadInv'
  <1> DEFINE w == IF inProgress THEN "govern" ELSE "build"
  <1>1. /\ UNCHANGED <<file, config, checksum, client, newCfg, overlapped>>
        /\ reloading[g] = "notify" /\ R!Goto(g, w) /\ inProgress' = TRUE
    BY Zenon DEF R!ClientReload, R!files
  <1>2. /\ inProgress => w = "govern"
        /\ ~inProgress => w = "build"
        /\ w \in Stages
    BY DEF Stages
  <1> HIDE DEF w
  <1>3. /\ reloading' \in [Goroutines -> Stages] /\ reloading'[g] = w
        /\ \A h \in Goroutines : h # g => reloading'[h] = reloading[h]
    BY <1>1, <1>2, Moves DEF ReloadInv
  <1>4. ReloadTypes'
    BY Zenon, <1>1, <1>3 DEF ReloadInv, ReloadTypes
  <1>5. CASE inProgress
    <2>1. \A h \in Goroutines : reloading'[h] \in Building <=> reloading[h] \in Building
      BY <1>1, <1>2, <1>3, <1>5 DEF Building
    <2>2. OneBuilder'
      BY Zenon, <1>1, <1>5, <2>1 DEF ReloadInv, OneBuilder
    <2>3. PICK h \in Goroutines : reloading[h] \in Building
      BY Zenon, <1>5 DEF ReloadInv, OneBuilder
    <2>4. h # g /\ reloading[h] # "idle"
      BY <1>1, <2>3 DEF Building
    <2>5. overlapped
      BY <1>1, <2>4 DEF ReloadInv, OneReload
    <2>6. OneReload'
      BY Zenon, <1>1, <2>5 DEF OneReload
    <2> QED BY Zenon, <1>4, <2>2, <2>6 DEF ReloadInv
  <1>6. CASE ~inProgress
    <2>1. \A h \in Goroutines : reloading[h] \notin Building
      BY Zenon, <1>6 DEF ReloadInv, OneBuilder
    <2>2. \A h \in Goroutines : reloading'[h] \in Building <=> h = g
      BY <1>2, <1>3, <1>6, <2>1 DEF Building
    <2>3. OneBuilder'
      BY Zenon, <1>1, <2>2 DEF OneBuilder
    <2>4. OneReload'
      BY <1>1, <1>2, <1>3, <1>6 DEF ReloadInv, OneReload, Agree
    <2> QED BY Zenon, <1>4, <2>3, <2>4 DEF ReloadInv
  <1> QED BY Zenon, <1>5, <1>6

\* It builds, and swaps if it could.
LEMMA BuildKeeps ==
    ASSUME ReloadInv, NEW g \in Goroutines, R!Build(g) \/ R!Swap(g)
    PROVE  ReloadInv'
  <1>1. /\ UNCHANGED <<file, config, checksum, newCfg, inProgress, overlapped>>
        /\ \/ /\ reloading[g] = "build" /\ client' = client
              /\ \/ newCfg[g] \in Unbuildable /\ R!Goto(g, "leave")
                 \/ newCfg[g] \notin Unbuildable /\ R!Goto(g, "swap")
           \/ reloading[g] = "swap" /\ client' = newCfg[g] /\ R!Goto(g, "leave")
    BY Zenon DEF R!Build, R!Swap, R!files, R!state
  <1>2. /\ reloading' \in [Goroutines -> Stages]
        /\ \A h \in Goroutines : h # g => reloading'[h] = reloading[h]
        /\ \/ /\ reloading[g] = "build" /\ client' = client
              /\ \/ newCfg[g] \in Unbuildable /\ reloading'[g] = "leave"
                 \/ newCfg[g] \notin Unbuildable /\ reloading'[g] = "swap"
           \/ reloading[g] = "swap" /\ client' = newCfg[g] /\ reloading'[g] = "leave"
    BY <1>1, Moves DEF ReloadInv, Stages
  <1>3. ReloadTypes'
    BY Zenon, <1>1, <1>2 DEF ReloadInv, ReloadTypes
  <1>4. OneBuilder'
    <2>1. \A h \in Goroutines : reloading'[h] \in Building <=> reloading[h] \in Building
      BY <1>2 DEF Building
    <2> QED BY Zenon, <1>1, <2>1 DEF ReloadInv, OneBuilder
  <1>5. OneReload'
    BY <1>1, <1>2 DEF ReloadInv, OneReload, Agree
  <1> QED BY Zenon, <1>3, <1>4, <1>5 DEF ReloadInv

\* The goroutine that built gives way to the next.
LEMMA LeaveKeeps ==
    ASSUME ReloadInv, NEW g \in Goroutines, R!Leave(g)
    PROVE  ReloadInv'
  <1>1. /\ UNCHANGED <<file, config, checksum, client, newCfg, overlapped>>
        /\ reloading[g] = "leave" /\ R!Goto(g, "govern") /\ inProgress' = FALSE
    BY Zenon DEF R!Leave, R!files
  <1>2. /\ reloading' \in [Goroutines -> Stages] /\ reloading'[g] = "govern"
        /\ \A h \in Goroutines : h # g => reloading'[h] = reloading[h]
    BY <1>1, Moves DEF ReloadInv, Stages
  <1>3. ReloadTypes'
    BY Zenon, <1>1, <1>2 DEF ReloadInv, ReloadTypes
  <1>4. OneBuilder'
    <2>1. reloading[g] \in Building /\ reloading'[g] \notin Building
      BY <1>1, <1>2 DEF Building
    <2>2. \A h \in Goroutines : reloading[h] \in Building => h = g
      BY Zenon, <2>1 DEF ReloadInv, OneBuilder
    <2> QED BY Zenon, <1>1, <1>2, <2>1, <2>2 DEF OneBuilder
  <1>5. OneReload'
    BY <1>1, <1>2 DEF ReloadInv, OneReload, Agree
  <1> QED BY Zenon, <1>3, <1>4, <1>5 DEF ReloadInv

\* Steps that only edit the file, or none of this
LEMMA QuietKeeps ==
    ASSUME ReloadInv, file' \in {file, file + 1},
           UNCHANGED <<newCfg, reloading, inProgress, overlapped, config, checksum, client>>
    PROVE  ReloadInv'
  <1>1. file' \in Nat
    BY DEF ReloadInv, ReloadTypes
  <1>2. ReloadTypes' /\ OneBuilder'
    BY Zenon, <1>1 DEF ReloadInv, ReloadTypes, OneBuilder
  <1>3. OneReload'
    BY Zenon DEF ReloadInv, OneReload, Agree
  <1> QED BY Zenon, <1>2, <1>3 DEF ReloadInv

\* Only Leave leaves, and it waits for the swapper.
LEMMA LeaveStays ==
    ASSUME ReloadTypes, NEW g \in Goroutines, NEW w, reloading[g] # "leave", R!Goto(g, w)
    PROVE  \A h \in Goroutines : reloading[h] = "leave" => reloading'[h] = "leave"
  BY DEF ReloadTypes, R!Goto

\* Every step of a reload keeps the invariant.
LEMMA ReloadStepKeeps ==
    ASSUME ReloadInv, SwapSeenTo, NEW g \in Goroutines, ReloadEndpoint(g) \/ ReloadGoesOn(g)
    PROVE  ReloadInv' /\ SwapSeenTo'
  <1>1. CASE ReloadEndpoint(g)
    <2>1. R!Begin(g) /\ pc' = pc
      BY Zenon, <1>1 DEF ReloadEndpoint, R!ReloadEndpoint, vars
    <2>2. reloading[g] # "leave" /\ R!Goto(g, "load")
      BY <2>1 DEF R!Begin
    <2> QED BY Zenon, <2>1, <2>2, BeginKeeps, LeaveStays DEF SwapSeenTo, ReloadInv
  <1>2. ASSUME pc' = pc, \/ R!Load(g) \/ R!StoreConfig(g) \/ R!StoreChecksum(g)
                         \/ R!ClientReload(g) \/ R!Build(g) \/ R!UpdateGovernance(g)
        PROVE  ReloadInv' /\ SwapSeenTo'
    <2>1. ReloadInv'
      BY Zenon, <1>2, LoadKeeps, StoreKeeps, ClientReloadKeeps, BuildKeeps, GovernKeeps
    <2>2. /\ reloading[g] \in {"load", "store", "checksum", "notify", "build", "govern"}
          /\ \E w : R!Goto(g, w)
      BY Zenon, <1>2 DEF R!Load, R!StoreConfig, R!StoreChecksum, R!ClientReload, R!Build,
         R!UpdateGovernance
    <2>3. reloading[g] # "leave"
      BY <2>2
    <2> QED BY Zenon, <1>2, <2>1, <2>2, <2>3, LeaveStays DEF SwapSeenTo, ReloadInv
  <1>3. ASSUME pc' = pc, pc[Swapper] = "idle", R!Leave(g) PROVE ReloadInv' /\ SwapSeenTo'
    BY Zenon, <1>3, LeaveKeeps DEF SwapSeenTo
  <1>4. CASE SwapIn(g)
    <2>1. R!Swap(g)
      BY Zenon, <1>4 DEF SwapIn
    <2>2. reloading'[g] = "leave"
      BY <2>1 DEF R!Swap, R!Goto, ReloadInv, ReloadTypes
    <2> QED BY Zenon, <2>1, <2>2, BuildKeeps DEF SwapSeenTo
  <1>5. CASE ReloadStep(g)
    <2>1. pc' = pc
      BY Zenon, <1>5 DEF ReloadStep, vars
    <2> QED BY Zenon, <1>2, <1>3, <1>5, <2>1 DEF ReloadStep
  <1> QED BY Zenon, <1>1, <1>4, <1>5 DEF ReloadGoesOn

\* Users of the client do not begin a swap.
LEMMA UsersDoNotSwap ==
    ASSUME TypeOK, Uses \/ Stops \/ \E a \in Actors : UserGoesOn(a)
    PROVE  /\ pc'[Swapper] # "idle" => pc[Swapper] # "idle"
           /\ UNCHANGED <<set, reloadVars>>
  <1>0. pc \in [Actors -> {"idle", "loaded", "using", "last", "mark", "test", "close"}]
    BY Zenon DEF TypeOK
  <1>1. ASSUME NEW a, a # Swapper, NEW w, Goto(a, w) PROVE pc'[Swapper] = pc[Swapper]
    <2>1. Swapper \in Actors
      BY Zenon DEF Actors
    <2> QED BY Zenon, <1>0, <1>1, <2>1 DEF Goto
  <1>2. CASE Uses
    <2>1. PICK u \in Users : AcquireLoad(u)
      BY Zenon, <1>2 DEF Uses
    <2>2. u # Swapper /\ Goto(u, "loaded")
      BY Zenon, <2>1, ActorsDiffer DEF AcquireLoad
    <2> QED BY Zenon, <1>1, <1>2, <2>2 DEF Uses
  <1>3. CASE Stops
    <2>1. Closer # Swapper /\ Goto(Closer, "mark")
      BY Zenon, <1>3, ActorsDiffer DEF Stops, CloseCurrent
    <2> QED BY Zenon, <1>1, <1>3, <2>1 DEF Stops
  <1>4. ASSUME NEW a \in Actors, UserGoesOn(a)
        PROVE  /\ pc'[Swapper] # "idle" => pc[Swapper] # "idle"
               /\ UNCHANGED <<set, reloadVars>>
    <2>1. pc[a] \in {"loaded", "using", "last", "mark", "test", "close"} /\ \E w : Goto(a, w)
      BY Zenon, <1>4 DEF UserGoesOn, Continue, AcquireAdd, ReleaseAdd, ReleaseTest,
         MarkClosing, TestIdle, CloseOnce
    <2>2. pc[a] # "idle"
      BY <2>1
    <2> QED BY Zenon, <1>1, <1>4, <2>1, <2>2 DEF UserGoesOn
  <1> QED BY Zenon, <1>2, <1>3, <1>4

\* Every step of the composition keeps it, and its swap is seen to.
LEMMA ReloadInvStays ==
    ASSUME TypeOK, ReloadInv, SwapSeenTo, [ReloadNext]_all
    PROVE  ReloadInv' /\ SwapSeenTo'
  <1>1. ASSUME UNCHANGED reloadVars PROVE ReloadInv'
    BY Zenon, <1>1, QuietKeeps DEF reloadVars
  <1>2. ASSUME UNCHANGED reloadVars, pc'[Swapper] # "idle" => pc[Swapper] # "idle"
        PROVE  SwapSeenTo'
    BY Zenon, <1>2 DEF SwapSeenTo, reloadVars
  <1>3. CASE Uses \/ Stops \/ \E a \in Actors : UserGoesOn(a)
    BY Zenon, <1>1, <1>2, <1>3, UsersDoNotSwap
  <1>4. CASE Probes \/ Others \/ UNCHANGED all
    <2>1. UNCHANGED <<reloadVars, pc>>
      BY Zenon, <1>4 DEF Probes, Others, all, vars
    <2> QED BY Zenon, <1>1, <1>2, <2>1
  <1>5. CASE FileChanges \/ Watch \/ Listen
    <2>1. file' \in {file, file + 1}
      BY Zenon, <1>5 DEF FileChanges, Watch, Listen, R!Edit, R!Replace, R!WatchEvent,
         R!Listen, R!files
    <2>2. UNCHANGED <<newCfg, reloading, inProgress, overlapped, config, checksum, client, pc>>
      BY Zenon, <1>5 DEF FileChanges, Watch, Listen, R!Edit, R!Replace, R!WatchEvent,
         R!Listen, R!state, R!locals, vars
    <2> QED BY Zenon, <2>1, <2>2, QuietKeeps DEF SwapSeenTo
  <1>6. CASE TimerFires
    <2>1. PICK g \in Goroutines : R!Begin(g)
      BY Zenon, <1>6 DEF TimerFires, R!TimerFires
    <2>2. reloading[g] # "leave" /\ R!Goto(g, "load")
      BY <2>1 DEF R!Begin
    <2>3. pc' = pc
      BY Zenon, <1>6 DEF TimerFires, vars
    <2> QED BY Zenon, <2>1, <2>2, <2>3, BeginKeeps, LeaveStays DEF SwapSeenTo, ReloadInv
  <1>7. CASE \E g \in Goroutines : ReloadEndpoint(g) \/ ReloadGoesOn(g)
    BY Zenon, <1>7, ReloadStepKeeps
  <1> QED BY Zenon, <1>3, <1>4, <1>5, <1>6, <1>7 DEF ReloadNext

\* The properties of ReloadsAgree, from the invariant
LEMMA ReloadInvIsEnough == ReloadInv /\ SwapSeenTo => ReloadsAgree
  <1> SUFFICES ASSUME ReloadInv, SwapSeenTo PROVE ReloadsAgree
    OBVIOUS
  <1>1. R!SerialReloadsAgree
    BY DEF R!SerialReloadsAgree, R!Idle, ReloadInv, OneReload, Agree
  <1>2. R!OneBuildAtATime
    <2>1. \A g, h \in Goroutines : reloading[g] \in Building /\ reloading[h] \in Building => g = h
      BY Zenon DEF ReloadInv, ReloadTypes, OneBuilder
    <2>2. inProgress <=> \E g \in Goroutines : reloading[g] \in Building
      BY Zenon DEF ReloadInv, ReloadTypes, OneBuilder
    <2> QED BY Zenon, <2>1, <2>2 DEF R!OneBuildAtATime, Building
  <1> QED BY Zenon, <1>1, <1>2 DEF ReloadsAgree, SwapSeenTo

\* At the start nobody reloads, and what is stored agrees.
LEMMA ReloadInvInit == ReloadInit => ReloadInv /\ SwapSeenTo
  <1> SUFFICES ASSUME ReloadInit PROVE ReloadInv /\ SwapSeenTo
    OBVIOUS
  <1>1. /\ file = 0 /\ config = 0 /\ checksum = 0 /\ client = 0
        /\ inProgress = FALSE /\ overlapped = FALSE
        /\ newCfg = [g \in Goroutines |-> 0] /\ reloading = [g \in Goroutines |-> "idle"]
        /\ pc = [a \in Actors |-> "idle"]
    BY Zenon DEF ReloadInit, Init, R!Init
  <1>2. \A g \in Goroutines : reloading[g] = "idle"
    BY Zenon, <1>1
  <1>3. ReloadTypes
    <2>1. file \in Nat /\ newCfg \in [Goroutines -> Nat] /\ reloading \in [Goroutines -> Stages]
      BY <1>1 DEF Stages
    <2> QED BY Zenon, <1>1, <2>1 DEF ReloadTypes
  <1>4. OneBuilder
    BY <1>1, <1>2 DEF OneBuilder, Building
  <1>5. OneReload
    BY <1>1, <1>2 DEF OneReload, Agree
  <1>6. SwapSeenTo
    BY Zenon, <1>1 DEF SwapSeenTo, Actors
  <1> QED BY Zenon, <1>3, <1>4, <1>5, <1>6 DEF ReloadInv

-----------------------------------------------------------------------------
\* The health checker

\* A cooldown is written.
LEMMA Written ==
    ASSUME ProbeTypes, NEW c \in Clients, NEW d \in Deployments, NEW t \in Nat,
           NEW who \in {"probe", "others"}, P!Write(c, d, t, who)
    PROVE  /\ cooldown' \in [Clients -> [Deployments -> Nat]]
           /\ setter' \in [Clients -> [Deployments -> {"none", "probe", "others"}]]
           /\ cooldown'[c][d] = t /\ setter'[c][d] = IF t = 0 THEN "none" ELSE who
           /\ \A b \in Clients, e \in Deployments :
                  \/ b = c /\ e = d
                  \/ cooldown'[b][e] = cooldown[b][e] /\ setter'[b][e] = setter[b][e]
  <1> DEFINE s == IF t = 0 THEN "none" ELSE who
  <1>1. /\ cooldown' = [cooldown EXCEPT ![c] = [cooldown[c] EXCEPT ![d] = t]]
        /\ setter' = [setter EXCEPT ![c] = [setter[c] EXCEPT ![d] = s]]
    BY Zenon DEF P!Write
  <1>2. s \in {"none", "probe", "others"}
    OBVIOUS
  <1> HIDE DEF s
  <1>3. /\ cooldown' \in [Clients -> [Deployments -> Nat]] /\ cooldown'[c][d] = t
        /\ \A b \in Clients, e \in Deployments :
               (b = c /\ e = d) \/ cooldown'[b][e] = cooldown[b][e]
    BY <1>1 DEF ProbeTypes
  <1>4. /\ setter' \in [Clients -> [Deployments -> {"none", "probe", "others"}]]
        /\ setter'[c][d] = s
        /\ \A b \in Clients, e \in Deployments :
               (b = c /\ e = d) \/ setter'[b][e] = setter[b][e]
    BY <1>1, <1>2 DEF ProbeTypes
  <1> QED BY Zenon, <1>3, <1>4 DEF s

\* A request that fails and the management endpoint put a cooldown that ends at
\* an odd time, or clear one.
LEMMA OthersKeep ==
    ASSUME ProbeInv, NEW c \in Clients, NEW d \in Deployments, NEW t \in Nat,
           t = 0 \/ ~Even(t), P!WriteByOthers(c, d, t)
    PROVE  ProbeInv'
  <1>1. /\ UNCHANGED <<clock, recorded, probe, held, todo, probing, until>>
        /\ P!Write(c, d, t, "others") /\ touched' = (touched \/ (probing = d /\ held = c))
    BY Zenon DEF P!WriteByOthers, P!locals
  <1>2. /\ cooldown' \in [Clients -> [Deployments -> Nat]]
        /\ setter' \in [Clients -> [Deployments -> {"none", "probe", "others"}]]
        /\ cooldown'[c][d] = t /\ setter'[c][d] = IF t = 0 THEN "none" ELSE "others"
        /\ \A b \in Clients, e \in Deployments :
               \/ b = c /\ e = d
               \/ cooldown'[b][e] = cooldown[b][e] /\ setter'[b][e] = setter[b][e]
    BY <1>1, Written DEF ProbeInv
  <1>3. touched' \in BOOLEAN
    BY Zenon, <1>1 DEF ProbeInv, ProbeTypes
  <1>4. ProbeTypes'
    BY Zenon, <1>1, <1>2, <1>3 DEF ProbeInv, ProbeTypes
  <1>5. Parity'
    <2>1. ASSUME NEW b \in Clients, NEW e \in Deployments
          PROVE  /\ setter'[b][e] = "none" => cooldown'[b][e] = 0
                 /\ setter'[b][e] = "others" => ~Even(cooldown'[b][e])
      <3>1. CASE b = c /\ e = d
        BY <1>2, <3>1
      <3>2. CASE ~(b = c /\ e = d)
        <4>1. cooldown'[b][e] = cooldown[b][e] /\ setter'[b][e] = setter[b][e]
          BY Zenon, <1>2, <3>2
        <4> QED BY Zenon, <4>1 DEF ProbeInv, Parity
      <3> QED BY Zenon, <3>1, <3>2
    <2> QED BY Zenon, <1>1, <2>1 DEF ProbeInv, Parity, Even
  <1>6. ReadsHold'
    <2>1. ASSUME ~touched', probe \in {"set", "clear"}
          PROVE  /\ ~touched /\ cooldown'[held][probing] = cooldown[held][probing]
                 /\ setter'[held][probing] = setter[held][probing]
      <3>1. ~touched /\ ~(held = c /\ probing = d)
        BY Zenon, <1>1, <2>1
      <3>2. held \in Clients /\ probing \in Deployments
        BY <2>1 DEF ProbeInv, ProbeTypes
      <3> QED BY Zenon, <1>2, <3>1, <3>2
    <2> QED BY Zenon, <1>1, <2>1 DEF ProbeInv, ReadsHold
  <1> QED BY Zenon, <1>4, <1>5, <1>6 DEF ProbeInv

\* Times, and which of them are even
LEMMA Times ==
    ASSUME clock \in Nat
    PROVE  /\ \A s \in Nat : P!Expiry(s) \in Nat /\ ~Even(P!Expiry(s))
           /\ P!Now \in Nat /\ P!Now > 0
           /\ \A t \in Nat : P!Truncated(t) \in Nat /\ Even(P!Truncated(t))
  <1>1. \A s \in Nat : P!Expiry(s) \in Nat /\ ~Even(P!Expiry(s))
    BY DEF P!Expiry, P!Now, Even
  <1>2. \A t \in Nat : P!Truncated(t) \in Nat /\ Even(P!Truncated(t))
    BY DEF P!Truncated, Even
  <1> QED BY <1>1, <1>2 DEF P!Now

\* The prober reads a cooldown, and goes on if it may write it.
LEMMA ProbedKeeps ==
    ASSUME ProbeInv, NEW d \in Deployments, P!ProbeFails(d) \/ P!ProbeSucceeds(d)
    PROVE  ProbeInv'
  <1>1. /\ probe = "next" /\ todo' = todo \ {d} /\ touched' = FALSE
        /\ UNCHANGED <<clock, cooldown, setter, held>>
    BY Zenon DEF P!ProbeFails, P!ProbeSucceeds, P!Probed
  <1>2. held \in Clients /\ cooldown[held][d] \in Nat /\ clock \in Nat
    BY DEF ProbeInv, ProbeTypes
  <1>3. CASE P!ProbeFails(d)
    <2> DEFINE new == P!Truncated(P!Expiry(Period))
    <2>1. /\ recorded' = recorded
          /\ \/ cooldown[held][d] > new /\ UNCHANGED <<probe, probing, until>>
             \/ /\ ~(cooldown[held][d] > new)
                /\ probe' = "set" /\ probing' = d /\ until' = new
      BY Zenon, <1>3 DEF P!ProbeFails
    <2>2. new \in Nat /\ Even(new)
      BY Zenon, <1>2, Times, TimesAssumption
    <2> HIDE DEF new
    <2>3. ProbeTypes'
      <3>1. /\ todo' \subseteq Deployments /\ until' \in Nat
            /\ probe' \in {"idle", "next", "set", "record", "clear"}
            /\ probe' \in {"set", "record", "clear"} => probing' \in Deployments
        BY <1>1, <2>1, <2>2 DEF ProbeInv, ProbeTypes
      <3> QED BY Zenon, <1>1, <2>1, <3>1 DEF ProbeInv, ProbeTypes
    <2>4. Parity'
      BY <1>1, <2>1, <2>2 DEF ProbeInv, Parity, Even
    <2>5. ReadsHold'
      BY <1>1, <1>2, <2>1, <2>2 DEF ReadsHold
    <2> QED BY Zenon, <2>3, <2>4, <2>5 DEF ProbeInv
  <1>4. CASE P!ProbeSucceeds(d)
    <2>1. /\ until' = until
          /\ \/ recorded' = [recorded EXCEPT ![d] = 0] /\ UNCHANGED <<probe, probing>>
             \/ /\ ~(P!Now >= cooldown[held][d]) /\ recorded[d] = cooldown[held][d]
                /\ probe' = "clear" /\ probing' = d /\ recorded' = recorded
      BY Zenon, <1>4 DEF P!ProbeSucceeds
    <2>2. ProbeTypes'
      <3>1. todo' \subseteq Deployments /\ recorded' \in [Deployments -> Nat]
        BY <1>1, <2>1 DEF ProbeInv, ProbeTypes
      <3>2. /\ probe' \in {"idle", "next", "set", "record", "clear"}
            /\ probe' \in {"set", "record", "clear"} => probing' \in Deployments
        BY <1>1, <2>1
      <3> QED BY Zenon, <1>1, <2>1, <3>1, <3>2 DEF ProbeInv, ProbeTypes
    <2>3. Parity'
      <3>1. \A e \in Deployments : Even(recorded'[e])
        BY <2>1 DEF ProbeInv, ProbeTypes, Parity, Even
      <3>2. probe' \notin {"set", "record"}
        BY <1>1, <2>1
      <3> QED BY Zenon, <1>1, <3>1, <3>2 DEF ProbeInv, Parity, Even
    <2>4. ReadsHold'
      <3>1. CASE UNCHANGED probe
        <4>1. probe' # "set" /\ probe' # "clear"
          BY <1>1, <3>1
        <4> QED BY Zenon, <4>1 DEF ReadsHold
      <3>2. CASE /\ ~(P!Now >= cooldown[held][d]) /\ recorded[d] = cooldown[held][d]
                 /\ probe' = "clear" /\ probing' = d
        <4>1. cooldown[held][d] # 0
          <5>1. P!Now \in Nat /\ P!Now > 0
            BY Zenon, <1>2, Times
          <5> QED BY <1>2, <3>2, <5>1
        <4>2. setter[held][d] \in {"none", "probe", "others"}
          BY Zenon, <1>2 DEF ProbeInv, ProbeTypes
        <4>3. setter[held][d] # "none" /\ setter[held][d] # "others"
          BY Zenon, <1>2, <3>2, <4>1 DEF ProbeInv, Parity
        <4>4. setter[held][d] = "probe"
          BY Zenon, <4>2, <4>3
        <4>5. probe' # "set"
          BY <3>2
        <4> QED BY Zenon, <1>1, <3>2, <4>4, <4>5 DEF ReadsHold
      <3> QED BY Zenon, <2>1, <3>1, <3>2
    <2> QED BY Zenon, <2>2, <2>3, <2>4 DEF ProbeInv
  <1> QED BY Zenon, <1>3, <1>4

\* It writes what it decided on.
LEMMA WritesKeep ==
    ASSUME ProbeInv, P!SetCooldown \/ P!ClearCooldown
    PROVE  ProbeInv'
  <1> DEFINE t == IF probe = "set" THEN until ELSE 0
  <1>1. /\ UNCHANGED <<clock, held, todo, until, touched>> /\ P!Write(held, probing, t, "probe")
        /\ \/ probe = "set" /\ probe' = "record" /\ UNCHANGED <<recorded, probing>>
           \/ /\ probe = "clear" /\ probe' = "next"
              /\ recorded' = [recorded EXCEPT ![probing] = 0]
    <2>1. CASE P!SetCooldown
      BY Zenon, <2>1 DEF P!SetCooldown
    <2>2. CASE P!ClearCooldown
      <3>1. probe = "clear" /\ probe # "set"
        BY <2>2 DEF P!ClearCooldown
      <3> QED BY Zenon, <2>2, <3>1 DEF P!ClearCooldown
    <2> QED BY Zenon, <2>1, <2>2
  <1>2. held \in Clients /\ probing \in Deployments /\ t \in Nat
    BY <1>1 DEF ProbeInv, ProbeTypes
  <1> HIDE DEF t
  <1>3. /\ cooldown' \in [Clients -> [Deployments -> Nat]]
        /\ setter' \in [Clients -> [Deployments -> {"none", "probe", "others"}]]
        /\ cooldown'[held][probing] = t
        /\ setter'[held][probing] = IF t = 0 THEN "none" ELSE "probe"
        /\ \A b \in Clients, e \in Deployments :
               \/ b = held /\ e = probing
               \/ cooldown'[b][e] = cooldown[b][e] /\ setter'[b][e] = setter[b][e]
    BY <1>1, <1>2, Written DEF ProbeInv
  <1>4. ProbeTypes'
    <2>1. /\ recorded' \in [Deployments -> Nat]
          /\ probe' \in {"idle", "next", "set", "record", "clear"}
          /\ probe' \in {"set", "record", "clear"} => probing' \in Deployments
      BY <1>1, <1>2 DEF ProbeInv, ProbeTypes
    <2> QED BY Zenon, <1>1, <1>3, <2>1 DEF ProbeInv, ProbeTypes
  <1>5. Parity'
    <2>1. ASSUME NEW b \in Clients, NEW e \in Deployments
          PROVE  /\ setter'[b][e] = "none" => cooldown'[b][e] = 0
                 /\ setter'[b][e] = "others" => ~Even(cooldown'[b][e])
      <3>1. CASE b = held /\ e = probing
        BY <1>3, <3>1
      <3>2. CASE ~(b = held /\ e = probing)
        <4>1. cooldown'[b][e] = cooldown[b][e] /\ setter'[b][e] = setter[b][e]
          BY Zenon, <1>3, <3>2
        <4> QED BY Zenon, <4>1 DEF ProbeInv, Parity
      <3> QED BY Zenon, <3>1, <3>2
    <2>2. /\ \A e \in Deployments : Even(recorded'[e])
          /\ probe' \in {"set", "record"} => Even(until')
      BY <1>1 DEF ProbeInv, ProbeTypes, Parity, Even
    <2> QED BY Zenon, <2>1, <2>2 DEF Parity, Even
  <1>6. ReadsHold'
    <2>1. probe' # "set" /\ probe' # "clear"
      BY <1>1
    <2> QED BY Zenon, <2>1 DEF ReadsHold
  <1> QED BY Zenon, <1>4, <1>5, <1>6 DEF ProbeInv

\* The steps of a round that write no cooldown
LEMMA RoundKeeps ==
    ASSUME ProbeInv, \/ \E c \in Clients : P!RunOnce(c)
                     \/ P!EndRun \/ P!SetCooldownFails \/ P!RecordCooldown
                     \/ \E d \in Deployments : P!SkipDeployment(d)
    PROVE  ProbeInv'
  <1> DEFINE RoundStep ==
             /\ UNCHANGED <<clock, cooldown, setter, until, touched>>
             /\ probe' \in {"idle", "next"} /\ held' \in Clients /\ todo' \subseteq Deployments
             /\ \/ recorded' = recorded
                \/ probe = "record" /\ recorded' = [recorded EXCEPT ![probing] = until]
  <1>1. RoundStep
    <2>1. ASSUME NEW c \in Clients, P!RunOnce(c) PROVE  RoundStep
      BY <2>1 DEF P!RunOnce
    <2>2. CASE P!EndRun \/ P!SetCooldownFails \/ P!RecordCooldown
      BY <2>2 DEF P!EndRun, P!SetCooldownFails, P!RecordCooldown, ProbeInv, ProbeTypes
    <2>3. ASSUME NEW d \in Deployments, P!SkipDeployment(d) PROVE  RoundStep
      BY <2>3 DEF P!SkipDeployment, ProbeInv, ProbeTypes
    <2> QED BY Zenon, <2>1, <2>2, <2>3
  <1>2. probe' \notin {"set", "record", "clear"} /\ probe' # "set" /\ probe' # "clear"
    BY <1>1
  <1>3. recorded' \in [Deployments -> Nat] /\ \A d \in Deployments : Even(recorded'[d])
    <2>1. CASE recorded' = recorded
      BY Zenon, <2>1 DEF ProbeInv, ProbeTypes, Parity, Even
    <2>2. CASE probe = "record" /\ recorded' = [recorded EXCEPT ![probing] = until]
      <3>1. recorded \in [Deployments -> Nat] /\ until \in Nat /\ probing \in Deployments
        BY <2>2 DEF ProbeInv, ProbeTypes
      <3>2. Even(until) /\ \A d \in Deployments : Even(recorded[d])
        BY <2>2 DEF ProbeInv, Parity
      <3>3. recorded' \in [Deployments -> Nat]
        BY Zenon, <2>2, <3>1
      <3>4. \A d \in Deployments : recorded'[d] = until \/ recorded'[d] = recorded[d]
        BY Zenon, <2>2, <3>1
      <3> QED BY Zenon, <3>2, <3>3, <3>4 DEF Even
    <2> QED BY Zenon, <1>1, <2>1, <2>2
  <1>4. probe' \in {"idle", "next", "set", "record", "clear"}
    BY <1>1
  <1>5. ProbeTypes'
    BY Zenon, <1>1, <1>2, <1>3, <1>4 DEF ProbeInv, ProbeTypes
  <1>6. probe' \notin {"set", "record"}
    BY <1>1
  <1>7. Parity' /\ ReadsHold'
    BY Zenon, <1>1, <1>2, <1>3, <1>6 DEF ProbeInv, Parity, ReadsHold, Even
  <1> QED BY Zenon, <1>5, <1>7 DEF ProbeInv

\* A step of the prober's variables, in the composition
LEMMA ProbeInvStays ==
    ASSUME TypeOK, ProbeInv, [ReloadNext]_all
    PROVE  ProbeInv'
  <1>1. current \in Clients /\ ref \in [Actors -> Clients] /\ clock \in Nat
    BY Zenon DEF TypeOK, ProbeInv, ProbeTypes
  <1>2. ASSUME UNCHANGED probeVars PROVE ProbeInv'
    BY Zenon, <1>2 DEF ProbeInv, ProbeTypes, Parity, ReadsHold, probeVars, Even
  <1>3. CASE \/ FileChanges \/ Watch \/ Listen \/ TimerFires \/ Uses \/ Stops \/ UNCHANGED all
             \/ \E g \in Goroutines : ReloadEndpoint(g) \/ ReloadGoesOn(g)
    <2>1. UNCHANGED probeVars
      BY Zenon, <1>3 DEF FileChanges, Watch, Listen, TimerFires, Uses, Stops, all,
         ReloadEndpoint, ReloadGoesOn, ReloadStep, SwapIn
    <2> QED BY Zenon, <1>2, <2>1
  <1>4. ASSUME NEW a \in Actors, UserGoesOn(a) PROVE ProbeInv'
    <2>1. UNCHANGED probeVars \/ P!RunOnce(ref[a]) \/ P!EndRun
      BY Zenon, <1>4 DEF UserGoesOn
    <2>2. ref[a] \in Clients
      BY Zenon, <1>1
    <2> QED BY Zenon, <1>2, <2>1, <2>2, RoundKeeps
  <1>5. CASE Probes
    BY Zenon, <1>5, WritesKeep, RoundKeeps, ProbedKeeps DEF Probes
  <1>6. CASE Others
    <2>1. CASE P!Tick
      <3>1. clock' \in Nat
        BY <1>1, <2>1 DEF P!Tick
      <3> QED BY Zenon, <2>1, <3>1 DEF P!Tick, P!locals, ProbeInv, ProbeTypes, Parity,
         ReadsHold, Even
    <2>2. ASSUME NEW d \in Deployments, NEW c \in Clients, P!RouterCooldown(c, d) PROVE ProbeInv'
      <3>1. P!WriteByOthers(c, d, P!Expiry(Period))
        BY Zenon, <2>2 DEF P!RouterCooldown
      <3>2. P!Expiry(Period) \in Nat /\ ~Even(P!Expiry(Period))
        BY Zenon, <1>1, Times, TimesAssumption
      <3> QED BY Zenon, <3>1, <3>2, OthersKeep
    <2>3. ASSUME NEW d \in Deployments, NEW s \in AdminPeriods, P!UpdateCooldown(d, s)
          PROVE  ProbeInv'
      <3> DEFINE t == IF s = 0 THEN 0 ELSE P!Expiry(s)
      <3>1. P!WriteByOthers(current, d, t)
        BY Zenon, <2>3 DEF P!UpdateCooldown
      <3>2. P!Expiry(s) \in Nat /\ ~Even(P!Expiry(s))
        BY Zenon, <1>1, Times, TimesAssumption
      <3>3. t \in Nat /\ (t = 0 \/ ~Even(t))
        BY <3>2
      <3> HIDE DEF t
      <3> QED BY Zenon, <1>1, <3>1, <3>3, OthersKeep
    <2> QED BY Zenon, <1>6, <2>1, <2>2, <2>3 DEF Others
  <1> QED BY Zenon, <1>3, <1>4, <1>5, <1>6 DEF ReloadNext

\* At the start no cooldown is set.
LEMMA ProbeInvInit == ReloadInit => ProbeInv
  <1> SUFFICES ASSUME ReloadInit PROVE ProbeInv
    OBVIOUS
  <1>1. P!Init
    BY Zenon DEF ReloadInit
  <1>2. ProbeTypes
    <2>1. /\ clock \in Nat /\ held \in Clients /\ todo \subseteq Deployments /\ until \in Nat
          /\ recorded \in [Deployments -> Nat]
          /\ probe \in {"idle", "next", "set", "record", "clear"}
          /\ probe \notin {"set", "record", "clear"}
      BY <1>1, MaxClientsAssumption DEF P!Init, Clients
    <2>2. /\ cooldown \in [Clients -> [Deployments -> Nat]]
          /\ setter \in [Clients -> [Deployments -> {"none", "probe", "others"}]]
      BY <1>1 DEF P!Init, P!Clients, Clients
    <2>3. touched \in BOOLEAN
      BY Zenon, <1>1 DEF P!Init
    <2> QED BY Zenon, <2>1, <2>2, <2>3 DEF ProbeTypes
  <1>3. Parity
    BY <1>1 DEF Parity, P!Init, P!Clients, Clients, Even
  <1>4. ReadsHold
    BY <1>1 DEF ReadsHold, P!Init
  <1> QED BY Zenon, <1>2, <1>3, <1>4 DEF ProbeInv

\* Only SetCooldown takes the prober from "set" to "record".
LEMMA OnlySetSets ==
    ASSUME ReloadNext, probe = "set", probe' = "record"
    PROVE  P!SetCooldown
  <1>1. ASSUME probe' = probe PROVE FALSE
    BY <1>1
  <1>2. ~(UNCHANGED probeVars)
    BY Zenon, <1>1 DEF probeVars
  <1>3. ~Others
    BY Zenon, <1>1 DEF Others, P!Tick, P!RouterCooldown, P!UpdateCooldown,
       P!WriteByOthers, P!locals
  <1>4. Probes \/ \E a \in Actors : UserGoesOn(a)
    BY Zenon, <1>2, <1>3 DEF ReloadNext, FileChanges, Watch, Listen, TimerFires, Uses,
       Stops, ReloadEndpoint, ReloadGoesOn, ReloadStep, SwapIn
  <1>5. ASSUME NEW a \in Actors, UserGoesOn(a) PROVE FALSE
    <2>1. P!RunOnce(ref[a]) \/ P!EndRun
      BY Zenon, <1>2, <1>5 DEF UserGoesOn
    <2> QED BY <2>1 DEF P!RunOnce, P!EndRun
  <1>6. ASSUME NEW d \in Deployments, P!SkipDeployment(d) \/ P!ProbeFails(d) \/ P!ProbeSucceeds(d)
        PROVE  FALSE
    <2>1. probe = "next"
      BY Zenon, <1>6 DEF P!SkipDeployment, P!ProbeFails, P!ProbeSucceeds, P!Probed
    <2> QED BY <2>1
  <1>7. ~P!SetCooldownFails /\ ~P!RecordCooldown /\ ~P!ClearCooldown
    BY DEF P!SetCooldownFails, P!RecordCooldown, P!ClearCooldown
  <1> QED BY Zenon, <1>4, <1>5, <1>6, <1>7 DEF Probes

\* So the health checker respects the cooldowns of others.
LEMMA ProbeStepRespects ==
    ASSUME ProbeInv, [ReloadNext]_all
    PROVE  /\ [P!Sets /\ ~touched => cooldown'[held][probing] >= cooldown[held][probing]]_(P!vars)
           /\ [P!Ends /\ ~touched => setter[held][probing] = "probe"]_(P!vars)
  <1>1. P!Ends /\ ~touched => setter[held][probing] = "probe"
    BY Zenon DEF P!Ends, ProbeInv, ReadsHold
  <1>2. ASSUME ReloadNext, P!Sets, ~touched
        PROVE  cooldown'[held][probing] >= cooldown[held][probing]
    <2>1. probe = "set" /\ probe' = "record"
      BY Zenon, <1>2 DEF P!Sets
    <2>2. P!Write(held, probing, until, "probe")
      BY Zenon, <1>2, <2>1, OnlySetSets DEF P!SetCooldown
    <2>3. held \in Clients /\ probing \in Deployments /\ until \in Nat
      BY <2>1 DEF ProbeInv, ProbeTypes
    <2>4. cooldown'[held][probing] = until
      BY <2>2, <2>3, Written DEF ProbeInv
    <2>5. cooldown[held][probing] <= until /\ cooldown[held][probing] \in Nat
      BY <1>2, <2>1, <2>3 DEF ProbeInv, ReadsHold, ProbeTypes
    <2> QED BY <2>3, <2>4, <2>5
  <1>3. CASE UNCHANGED all
    <2>1. UNCHANGED P!vars
      BY Zenon, <1>3 DEF all, vars, probeVars, P!vars, P!locals
    <2> QED BY Zenon, <1>1, <2>1
  <1> QED BY Zenon, <1>1, <1>2, <1>3

-----------------------------------------------------------------------------
\* config.Manager, clientReloader: for any number of goroutines that reload, any
\* edits and any users of the client, reloads that do not overlap leave
\* configuration, checksum and client agreeing, and clients are built and
\* swapped by one goroutine at a time.
THEOREM ReloadsAlwaysAgree == ReloadSpec => []ReloadsAgree
  <1>1. IInv => TypeOK
    BY Zenon DEF IInv
  <1>2. TypeOK /\ ReloadInv /\ SwapSeenTo /\ [ReloadNext]_all => (ReloadInv /\ SwapSeenTo)'
    BY Zenon, ReloadInvStays
  <1> QED BY ReloadImplementsSwap, SwapInvariant, ReloadInvInit, ReloadInvIsEnough, <1>1,
     <1>2, PTL
          DEF ReloadSpec

\* prober.handleFailure, handleSuccess: for any deployments, cooldown periods
\* and writers, while the client is replaced or not, the prober neither shortens
\* a cooldown nor ends one that it did not begin, unless another writes between
\* its read and its write.
THEOREM ProberRespectsOthers == ReloadSpec => ProbesRespectOthers
  <1>1. IInv => TypeOK
    BY Zenon DEF IInv
  <1>2. TypeOK /\ ProbeInv /\ [ReloadNext]_all => ProbeInv'
    BY Zenon, ProbeInvStays
  <1>3. ReloadSpec => []ProbeInv
    BY ReloadImplementsSwap, SwapInvariant, ProbeInvInit, <1>1, <1>2, PTL DEF ReloadSpec
  <1>4. ProbeInv /\ [ReloadNext]_all =>
            /\ [P!Sets /\ ~touched => cooldown'[held][probing] >= cooldown[held][probing]]_(P!vars)
            /\ [P!Ends /\ ~touched => setter[held][probing] = "probe"]_(P!vars)
    BY ProbeStepRespects
  <1> QED BY <1>3, <1>4, PTL DEF ReloadSpec, ProbesRespectOthers, P!ProbeShortensNothing,
             P!ProbeEndsItsOwn
=============================================================================
