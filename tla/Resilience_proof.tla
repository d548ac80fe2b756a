-------------------------- MODULE Resilience_proof --------------------------
(***************************************************************************)
(* Proofs about the semaphore and the circuit breaker, for every set of    *)
(* callers, every requested capacity and all thresholds, and then about    *)
(* the manager, which implements its components: what is proved of each    *)
(* alone holds of the two used together.                                   *)
(***************************************************************************)
EXTENDS Resilience, FiniteSetTheorems, TLAPS

USE SMTT(30)

-----------------------------------------------------------------------------
\* The semaphore

\* The inductive invariant.  ConcurrencyBound alone is not inductive: a step
\* of TryAcquire looks at s.current only, so s.current has to account for
\* every holder, and Release may hand over a permit only to a caller that does
\* not have one yet.
IInv == TypeOK /\ QueueDiscipline /\ Accounting

\* NewSemaphore always yields a capacity of at least 1.
LEMMA CapacityPositive == Capacity \in Nat \ {0}
  BY CapacityAssumption DEF Capacity

\* The callers that hold a permit or are about to are finitely many.
LEMMA GrantedFinite ==
    ASSUME TypeOK
    PROVE  /\ IsFiniteSet(Granted)
           /\ Cardinality(Granted) \in Nat
  <1>1. Granted \subseteq Callers
    BY Zenon DEF Granted, Holding, TypeOK
  <1>2. QED
    BY Zenon, <1>1, CallersAssumption, FS_Subset, FS_CardinalityType

\* The specification starts in the inductive invariant.
LEMMA InitIInv == Init => IInv
  <1> SUFFICES ASSUME Init PROVE IInv
    BY Zenon
  <1>1. TypeOK
    BY CapacityPositive DEF Init, TypeOK, States
  <1>2. QueueDiscipline
    BY DEF Init, QueueDiscipline
  <1>3. Granted = {}
    BY Zenon DEF Init, Granted, Holding
  <1>4. Accounting
    BY <1>3, FS_EmptySet DEF Init, Accounting
  <1>5. QED
    BY Zenon, <1>1, <1>2, <1>4 DEF IInv

\* Granting one more caller a permit raises the count of permits by one.
LEMMA GrantedAdd ==
    ASSUME TypeOK, NEW c \in Callers, c \notin Granted
    PROVE  Cardinality(Granted \cup {c}) = Cardinality(Granted) + 1
  BY Zenon, GrantedFinite, FS_AddElement

\* Taking a permit away from a caller that has one lowers it by one.
LEMMA GrantedRemove ==
    ASSUME TypeOK, NEW c \in Granted
    PROVE  /\ Cardinality(Granted \ {c}) = Cardinality(Granted) - 1
           /\ Cardinality(Granted \ {c}) \in Nat
           /\ Cardinality(Granted) > 0
  <1>1. /\ IsFiniteSet(Granted \ {c})
        /\ Cardinality(Granted \ {c}) = Cardinality(Granted) - 1
    BY Zenon, GrantedFinite, FS_RemoveElement
  <1>2. Cardinality(Granted \ {c}) \in Nat
    BY Zenon, <1>1, FS_CardinalityType
  <1>3. QED
    BY <1>1, <1>2, GrantedFinite

\* TryAcquire takes a free permit.
LEMMA TryAcquireStep ==
    ASSUME IInv, NEW c \in Callers, TryAcquire(c)
    PROVE  IInv'
  <1> USE DEF IInv
  <1>1. TypeOK'
    BY CapacityPositive DEF TryAcquire, Goto, TypeOK, States
  <1>2. QueueDiscipline'
    BY DEF TryAcquire, Goto, TypeOK, QueueDiscipline
  <1>3. c \notin Granted /\ Granted' = Granted \cup {c}
    BY Zenon DEF TryAcquire, Goto, TypeOK, QueueDiscipline, Granted, Holding
  <1>4. Accounting'
    BY <1>3, GrantedAdd, GrantedFinite DEF TryAcquire, TypeOK, Accounting
  <1>5. QED
    BY Zenon, <1>1, <1>2, <1>4

\* Joining the queue grants nothing, and the caller was not queued before.
LEMMA AcquireEnqueueStep ==
    ASSUME IInv, NEW c \in Callers, AcquireEnqueue(c)
    PROVE  IInv'
  <1> USE DEF IInv
  <1>1. TypeOK'
    BY DEF AcquireEnqueue, Goto, TypeOK, States
  <1>2. QueueDiscipline'
    <2>1. \A i \in DOMAIN waiters : waiters[i] \in Callers /\ waiters[i] # c
      BY DEF AcquireEnqueue, TypeOK, QueueDiscipline
    <2>2. /\ DOMAIN waiters' = 1..(Len(waiters) + 1)
          /\ \A i \in DOMAIN waiters : waiters'[i] = waiters[i]
          /\ waiters'[Len(waiters) + 1] = c
          /\ DOMAIN waiters = 1..Len(waiters)
          /\ Len(waiters) \in Nat
      BY DEF AcquireEnqueue, TypeOK
    <2>3. c \notin woken
      BY Zenon DEF AcquireEnqueue, TypeOK, QueueDiscipline
    <2>4. QED
      BY <2>1, <2>2, <2>3 DEF AcquireEnqueue, Goto, TypeOK, QueueDiscipline
  <1>3. Granted' = Granted
    BY Zenon DEF AcquireEnqueue, Goto, TypeOK, Granted, Holding
  <1>4. Accounting'
    BY Zenon, <1>3 DEF AcquireEnqueue, Accounting
  <1>5. QED
    BY Zenon, <1>1, <1>2, <1>4

\* A woken caller turns the permit on its way into one it holds.
LEMMA AcquireWakeStep ==
    ASSUME IInv, NEW c \in Callers, AcquireWake(c)
    PROVE  IInv'
  <1> USE DEF IInv
  <1>1. TypeOK'
    BY Zenon DEF AcquireWake, Goto, TypeOK, States
  <1>2. QueueDiscipline'
    BY DEF AcquireWake, Goto, TypeOK, QueueDiscipline
  <1>3. Granted' = Granted
    BY Zenon DEF AcquireWake, Goto, TypeOK, Granted, Holding
  <1>4. Accounting'
    BY Zenon, <1>3 DEF AcquireWake, Accounting
  <1>5. QED
    BY Zenon, <1>1, <1>2, <1>4

\* Leaving the queue drops the permit of a caller that had been handed one.
LEMMA AcquireLeaveStep ==
    ASSUME IInv, NEW c \in Callers, AcquireLeave(c)
    PROVE  IInv'
  <1> USE DEF IInv
  <1> DEFINE at == CHOOSE i \in DOMAIN waiters : waiters[i] = c
  <1>1. waiters' \in Seq(Callers)
    <2>1. CASE \E i \in DOMAIN waiters : waiters[i] = c
      <3>1. at \in DOMAIN waiters /\ waiters' = WithoutIndex(at)
        BY Zenon, <2>1 DEF AcquireLeave
      <3>2. QED
        BY <3>1 DEF TypeOK, WithoutIndex
    <2>2. CASE ~ \E i \in DOMAIN waiters : waiters[i] = c
      BY Zenon, <2>2 DEF AcquireLeave, TypeOK
    <2>3. QED
      BY Zenon, <2>1, <2>2
  <1>2. QueueDiscipline'
    <2>1. /\ \A i, j \in DOMAIN waiters' : waiters'[i] = waiters'[j] => i = j
          /\ \A i \in DOMAIN waiters' :
                /\ waiters'[i] # c
                /\ \E k \in DOMAIN waiters : waiters'[i] = waiters[k]
      <3>1. CASE \E i \in DOMAIN waiters : waiters[i] = c
        <4>1. /\ at \in DOMAIN waiters
              /\ waiters[at] = c
              /\ waiters' = WithoutIndex(at)
          BY Zenon, <3>1 DEF AcquireLeave
        <4>2. /\ DOMAIN waiters = 1..Len(waiters)
              /\ Len(waiters) \in Nat
              /\ DOMAIN waiters' = 1..(Len(waiters) - 1)
              /\ \A i \in DOMAIN waiters' :
                    waiters'[i] = waiters[IF i < at THEN i ELSE i + 1]
          BY <4>1 DEF WithoutIndex, TypeOK
        <4> HIDE DEF at
        <4> DEFINE from(i) == IF i < at THEN i ELSE i + 1
        <4>3. /\ \A i \in DOMAIN waiters' : from(i) \in DOMAIN waiters /\ from(i) # at
              /\ \A i, j \in DOMAIN waiters' : from(i) = from(j) => i = j
          <5>1. at \in 1..Len(waiters) /\ DOMAIN waiters' = 1..(Len(waiters) - 1)
            BY Zenon, <4>1, <4>2
          <5>2. QED
            BY <4>2, <5>1
        <4>4. \A i \in DOMAIN waiters' : waiters'[i] = waiters[from(i)]
          BY Zenon, <4>2
        <4>5. \A i, j \in DOMAIN waiters : waiters[i] = waiters[j] => i = j
          BY Zenon DEF QueueDiscipline
        <4> HIDE DEF from
        <4>6. \A i, j \in DOMAIN waiters' : waiters'[i] = waiters'[j] => i = j
          BY Zenon, <4>3, <4>4, <4>5
        <4>7. \A i \in DOMAIN waiters' :
                /\ waiters'[i] # c
                /\ \E k \in DOMAIN waiters : waiters'[i] = waiters[k]
          BY Zenon, <4>1, <4>3, <4>4, <4>5
        <4>8. QED
          BY Zenon, <4>6, <4>7
      <3>2. CASE ~ \E i \in DOMAIN waiters : waiters[i] = c
        BY Zenon, <3>2 DEF AcquireLeave, TypeOK, QueueDiscipline
      <3>3. QED
        BY Zenon, <3>1, <3>2
    <2>2. QED
      BY <2>1 DEF AcquireLeave, Goto, TypeOK, QueueDiscipline
  <1>3. CASE c \in woken
    <2>1. c \in Granted /\ Granted' = Granted \ {c} /\ lost' = lost + 1
      BY Zenon, <1>3 DEF AcquireLeave, Goto, TypeOK, Granted, Holding
    <2>2. /\ Cardinality(Granted') = Cardinality(Granted) - 1
          /\ Cardinality(Granted) \in Nat
          /\ Cardinality(Granted) > 0
      BY Zenon, <2>1, GrantedRemove, GrantedFinite
    <2>3. lost' \in 0..Capacity /\ Accounting'
      BY <2>1, <2>2, CapacityPositive DEF AcquireLeave, Accounting, TypeOK
    <2>4. TypeOK'
      BY Zenon, <1>1, <2>3 DEF AcquireLeave, Goto, TypeOK, States
    <2>5. QED
      BY Zenon, <1>2, <2>3, <2>4
  <1>4. CASE c \notin woken
    <2>1. Granted' = Granted
      BY Zenon, <1>4 DEF AcquireLeave, Goto, TypeOK, Granted, Holding
    <2>2. TypeOK' /\ Accounting'
      BY Zenon, <1>1, <1>4, <2>1 DEF AcquireLeave, Goto, TypeOK, States, Accounting
    <2>3. QED
      BY Zenon, <1>2, <2>2
  <1>5. QED
    BY Zenon, <1>3, <1>4

\* Release moves the permit to the head of the queue or gives it back.
LEMMA ReleaseStep ==
    ASSUME IInv, NEW c \in Callers, Release(c)
    PROVE  IInv'
  <1> USE DEF IInv
  <1>1. c \in Granted /\ c \notin woken
    BY Zenon DEF Release, QueueDiscipline, Granted, Holding
  <1>2. current > 0
    <2>1. Cardinality(Granted) \in Nat
      BY Zenon, GrantedFinite
    <2>2. Cardinality(Granted) > 0
      BY Zenon, <1>1, GrantedRemove
    <2>3. QED
      BY <2>1, <2>2, CapacityPositive DEF Accounting, TypeOK
  <1>3. CASE waiters # <<>>
    <2> DEFINE h == Head(waiters)
    <2>1. /\ woken' = woken \cup {h}
          /\ waiters' = Tail(waiters)
          /\ current' = current
          /\ lost' = lost
      BY Zenon, <1>2, <1>3 DEF Release
    <2>2. /\ Len(waiters) \in Nat \ {0}
          /\ DOMAIN waiters = 1..Len(waiters)
          /\ h = waiters[1]
          /\ DOMAIN waiters' = 1..(Len(waiters) - 1)
          /\ \A i \in DOMAIN waiters' : waiters'[i] = waiters[i + 1]
          /\ waiters' \in Seq(Callers)
      BY <1>3, <2>1 DEF TypeOK
    <2>3. h \in Callers /\ pc[h] \in {"waiting", "leaving"} /\ h \notin woken
      <3>1. 1 \in DOMAIN waiters /\ h = waiters[1]
        BY <2>2
      <3>2. waiters[1] \in Callers
        BY <3>1 DEF TypeOK
      <3> HIDE DEF h
      <3> QED BY Zenon, <3>1, <3>2 DEF QueueDiscipline
    <2>4. TypeOK'
      BY Zenon, <2>1, <2>2, <2>3 DEF Release, Goto, TypeOK, States
    <2> HIDE DEF h
    <2>5. QueueDiscipline'
      <3>1. \A i, j \in DOMAIN waiters' : waiters'[i] = waiters'[j] => i = j
        BY <2>2 DEF QueueDiscipline
      <3>2. \A i \in DOMAIN waiters' :
               /\ i + 1 \in DOMAIN waiters
               /\ waiters'[i] = waiters[i + 1]
               /\ waiters'[i] # h
        BY <2>2 DEF QueueDiscipline
      <3>3. \A d \in Callers \ {c} : pc'[d] = pc[d]
        BY Zenon DEF Release, Goto, TypeOK
      <3>4. \A i \in DOMAIN waiters :
               waiters[i] \in Callers /\ waiters[i] # c
        BY DEF Release, TypeOK, QueueDiscipline
      <3>5. \A i \in DOMAIN waiters' :
               /\ pc'[waiters'[i]] \in {"waiting", "leaving"}
               /\ waiters'[i] \notin woken'
        BY <2>1, <3>2, <3>3, <3>4 DEF QueueDiscipline
      <3>6. \A d \in woken' : pc'[d] \in {"waiting", "leaving"}
        <4>1. h # c
          BY Zenon, <2>3 DEF Release
        <4>2. QED
          BY Zenon, <1>1, <2>1, <2>3, <3>3, <4>1 DEF TypeOK, QueueDiscipline
      <3>7. QED
        BY Zenon, <3>1, <3>5, <3>6 DEF QueueDiscipline
    <2>6. h \notin Granted /\ Granted' = (Granted \cup {h}) \ {c} /\ h # c
      BY Zenon, <1>1, <2>1, <2>3 DEF Release, Goto, TypeOK, Granted, Holding
    <2>7. Cardinality(Granted') = Cardinality(Granted)
      <3>1. /\ IsFiniteSet(Granted \cup {h})
            /\ Cardinality(Granted \cup {h}) = Cardinality(Granted) + 1
        BY Zenon, <2>3, <2>6, GrantedAdd, GrantedFinite, FS_AddElement
      <3>2. Cardinality((Granted \cup {h}) \ {c}) = Cardinality(Granted \cup {h}) - 1
        BY Zenon, <1>1, <3>1, FS_RemoveElement
      <3>3. QED
        BY <2>6, <3>1, <3>2, GrantedFinite
    <2>8. QED
      BY Zenon, <2>1, <2>4, <2>5, <2>7 DEF Accounting
  <1>4. CASE waiters = <<>>
    <2>1. /\ current' = current - 1
          /\ UNCHANGED <<waiters, woken, lost>>
      BY Zenon, <1>2, <1>4 DEF Release
    <2>2. TypeOK' /\ QueueDiscipline'
      BY <1>2, <1>4, <2>1, CapacityPositive
      DEF Release, Goto, TypeOK, States, QueueDiscipline
    <2>3. Granted' = Granted \ {c}
      BY Zenon, <1>1, <2>1 DEF Release, Goto, TypeOK, Granted, Holding
    <2>4. Accounting'
      BY <1>1, <2>1, <2>3, GrantedRemove, GrantedFinite DEF Accounting, TypeOK
    <2>5. QED
      BY Zenon, <2>2, <2>4
  <1>5. QED
    BY Zenon, <1>3, <1>4

\* Every step preserves the inductive invariant.
LEMMA NextIInv == IInv /\ [Next]_vars => IInv'
  <1> SUFFICES ASSUME IInv, [Next]_vars PROVE IInv'
    BY Zenon
  <1>1. CASE UNCHANGED vars
    BY Zenon, <1>1 DEF vars, IInv, TypeOK, QueueDiscipline, Accounting, Granted, Holding
  <1>2. ASSUME NEW c \in Callers,
               AcquireTry(c) \/ AcquireCancel(c) \/ CtxDone(c)
        PROVE  IInv'
    <2>1. TypeOK' /\ QueueDiscipline'
      BY <1>2 DEF AcquireTry, AcquireCancel, CtxDone, Goto, IInv, TypeOK, States,
                  QueueDiscipline
    <2>2. Granted' = Granted
      BY Zenon, <1>2 DEF AcquireTry, AcquireCancel, CtxDone, Goto, IInv, TypeOK,
                  Granted, Holding
    <2>3. Accounting'
      BY Zenon, <1>2, <2>2 DEF AcquireTry, AcquireCancel, CtxDone, IInv, Accounting
    <2>4. QED
      BY Zenon, <2>1, <2>3 DEF IInv
  <1>3. QED
    BY Zenon, <1>1, <1>2, TryAcquireStep, AcquireEnqueueStep, AcquireWakeStep,
       AcquireLeaveStep, ReleaseStep DEF Next

\* Types, the discipline of the waiter queue and the exact accounting of
\* permits hold in every state of semaphore.go, for every number of callers and
\* every capacity.
THEOREM PermitAccounting == Spec => [](TypeOK /\ QueueDiscipline /\ Accounting)
  <1>1. QED
    BY InitIInv, NextIInv, PTL DEF Spec, IInv

\* TryAcquire, Acquire and Release never let more callers through than the
\* capacity, for every number of callers and every capacity.
THEOREM SemaphoreBoundsConcurrency == Spec => []ConcurrencyBound
  <1>1. IInv => ConcurrencyBound
    <2> SUFFICES ASSUME IInv PROVE ConcurrencyBound
      BY Zenon
    <2>1. Holding \subseteq Granted /\ IsFiniteSet(Granted)
      BY Zenon, GrantedFinite DEF IInv, Granted
    <2>2. /\ Cardinality(Holding) <= Cardinality(Granted)
          /\ Cardinality(Holding) \in Nat
      BY Zenon, <2>1, FS_Subset, FS_CardinalityType
    <2>3. QED
      BY <2>2, GrantedFinite, CapacityPositive
      DEF IInv, Accounting, TypeOK, ConcurrencyBound
  <1>2. QED
    BY <1>1, InitIInv, NextIInv, PTL DEF Spec

-----------------------------------------------------------------------------
\* The breaker: it lets in at most HalfOpenMaxRequests probes, counts only fresh
\* successes and does not get stuck by itself.
\*
\* ProbePending is not inductive.  What makes it so is the account of the places of
\* a half-open circuit: each is taken by a probe that is still out, or was given
\* back with a success, or was withdrawn.

\* The places taken in a half-open circuit, and the successes so far
PlacesAccounted ==
    IF state = "half-open"
    THEN /\ Cardinality(probes) <= halfOpenCount
         /\ halfOpenCount <= Cardinality(probes) + successCount + withdrawn
         /\ successCount < SuccessThreshold
    ELSE probes = {} /\ successCount = 0

\* A closed circuit has counted fewer failures than would have opened it.
ClosedBelowThreshold == state = "closed" => failureCount < FailureThreshold

BInv == CB!TypeOK /\ PlacesAccounted /\ ClosedBelowThreshold

\* The thresholds one by one, as the leaves below use them
LEMMA Thresholds ==
    /\ FailureThreshold \in Nat /\ FailureThreshold > 0
    /\ SuccessThreshold \in Nat /\ SuccessThreshold > 0
    /\ HalfOpenMaxRequests \in Nat /\ HalfOpenMaxRequests > 0
    /\ SuccessThreshold <= HalfOpenMaxRequests
  BY ThresholdAssumption

\* probes is a finite set, with a cardinality that is a natural number.
LEMMA ProbesFinite ==
    ASSUME CB!TypeOK PROVE IsFiniteSet(probes) /\ Cardinality(probes) \in Nat
  <1>1. IsFiniteSet(probes)
    BY CallersAssumption, FS_Subset DEF CB!TypeOK
  <1> QED BY <1>1, FS_CardinalityType

\* The breaker starts closed, with nothing counted and nobody let in.
LEMMA BreakerInit == CB!Init => BInv
  <1> SUFFICES ASSUME CB!Init PROVE BInv
    OBVIOUS
  <1>1. CB!TypeOK
    <2>1. timedOut \in BOOLEAN
      BY Zenon DEF CB!Init
    <2>2. /\ state \in {"closed", "open", "half-open"}
          /\ running \subseteq Callers /\ probes \subseteq running
      BY DEF CB!Init
    <2>3. /\ failureCount \in 0..FailureThreshold
          /\ successCount \in 0..SuccessThreshold
          /\ halfOpenCount \in 0..HalfOpenMaxRequests
          /\ withdrawn \in Nat
      BY Thresholds DEF CB!Init
    <2> QED BY <2>1, <2>2, <2>3 DEF CB!TypeOK
  <1>2. PlacesAccounted /\ ClosedBelowThreshold
    BY Thresholds DEF CB!Init, PlacesAccounted, ClosedBelowThreshold
  <1> QED BY <1>1, <1>2 DEF BInv

\* Allow takes a place exactly when it lets a probe in.
LEMMA AllowStep ==
    ASSUME BInv, NEW c \in Callers, CB!Allow(c) PROVE BInv'
  <1>1. CB!TypeOK'
    BY Thresholds DEF BInv, CB!TypeOK, CB!Allow
  <1>2. IsFiniteSet(probes) /\ Cardinality(probes) \in Nat
    BY ProbesFinite DEF BInv
  <1>3. c \notin probes
    BY DEF BInv, CB!TypeOK, CB!Allow
  <1>4. Cardinality(probes \cup {c}) = Cardinality(probes) + 1
    BY <1>2, <1>3, FS_AddElement
  <1>5. Cardinality({c}) = 1
    BY FS_Singleton
  <1>6. PlacesAccounted'
    <2>1. CASE state = "closed"
      BY <2>1 DEF BInv, CB!TypeOK, PlacesAccounted, CB!Allow
    <2>2. CASE state = "open"
      BY <2>2, <1>5, Thresholds DEF BInv, CB!TypeOK, PlacesAccounted, CB!Allow
    <2>3. CASE state = "half-open"
      <3>1. /\ state' = "half-open" /\ halfOpenCount' = halfOpenCount + 1
            /\ Cardinality(probes') = Cardinality(probes) + 1
            /\ successCount' = successCount /\ withdrawn' = withdrawn
        BY <2>3, <1>4 DEF CB!Allow
      <3>2. {halfOpenCount, successCount, withdrawn} \subseteq Nat
        BY Thresholds DEF BInv, CB!TypeOK
      <3> QED BY <2>3, <1>2, <3>1, <3>2, Thresholds DEF BInv, PlacesAccounted
    <2> QED BY <2>1, <2>2, <2>3 DEF BInv, CB!TypeOK
  <1>7. ClosedBelowThreshold'
    BY DEF BInv, CB!TypeOK, ClosedBelowThreshold, CB!Allow
  <1> QED BY <1>1, <1>6, <1>7 DEF BInv

\* Taking a caller out of the probes frees at most one place.
LEMMA ProbesWithout ==
    ASSUME CB!TypeOK, NEW c
    PROVE  /\ Cardinality(probes \ {c}) \in Nat
           /\ Cardinality(probes \ {c}) <= Cardinality(probes)
           /\ Cardinality(probes) <= Cardinality(probes \ {c}) + 1
           /\ c \notin probes => Cardinality(probes \ {c}) = Cardinality(probes)
  <1>1. IsFiniteSet(probes) /\ Cardinality(probes) \in Nat
    BY ProbesFinite
  <1>2. CASE c \in probes
    <2>1. Cardinality(probes \ {c}) = Cardinality(probes) - 1
      BY <1>1, <1>2, FS_RemoveElement
    <2>2. IsFiniteSet(probes \ {c})
      BY <1>1, FS_Subset
    <2>3. Cardinality(probes \ {c}) \in Nat
      BY <2>2, FS_CardinalityType
    <2> QED BY <1>1, <1>2, <2>1, <2>3
  <1>3. CASE c \notin probes
    <2>1. probes \ {c} = probes
      BY <1>3
    <2> QED BY <1>1, <2>1
  <1> QED BY <1>2, <1>3

\* A success gives a place back and is counted, or closes the circuit.
LEMMA RecordSuccessStep ==
    ASSUME BInv, NEW c \in Callers, CB!RecordSuccess(c) PROVE BInv'
  <1>0. /\ Cardinality(probes) \in Nat
        /\ Cardinality(probes \ {c}) \in Nat
        /\ Cardinality(probes \ {c}) <= Cardinality(probes)
        /\ Cardinality(probes) <= Cardinality(probes \ {c}) + 1
    BY ProbesFinite, ProbesWithout DEF BInv
  <1>4. ClosedBelowThreshold'
    BY Thresholds DEF BInv, CB!TypeOK, ClosedBelowThreshold, CB!RecordSuccess, CB!TransitionTo
  <1>1. CASE state = "half-open" /\ successCount + 1 >= SuccessThreshold
    <2>1. CB!TypeOK'
      BY <1>1, Thresholds DEF BInv, CB!TypeOK, CB!RecordSuccess, CB!TransitionTo
    <2>2. PlacesAccounted'
      BY <1>1 DEF PlacesAccounted, CB!RecordSuccess, CB!TransitionTo
    <2> QED BY <1>4, <2>1, <2>2 DEF BInv
  <1>2. CASE state = "half-open" /\ ~(successCount + 1 >= SuccessThreshold)
    <2>1. CB!TypeOK'
      BY <1>2, Thresholds DEF BInv, CB!TypeOK, CB!RecordSuccess
    <2>2. PlacesAccounted'
      <3>1. /\ state' = "half-open" /\ halfOpenCount' = halfOpenCount
            /\ probes' = probes \ {c}
            /\ successCount' = successCount + 1 /\ withdrawn' = withdrawn
        BY <1>2 DEF CB!RecordSuccess
      <3>2. {halfOpenCount, successCount, withdrawn} \subseteq Nat
        BY Thresholds DEF BInv, CB!TypeOK
      <3> QED BY <1>0, <1>2, <3>1, <3>2, Thresholds DEF BInv, PlacesAccounted
    <2> QED BY <1>4, <2>1, <2>2 DEF BInv
  <1>3. CASE state # "half-open"
    <2>1. CB!TypeOK'
      BY <1>3, Thresholds DEF BInv, CB!TypeOK, CB!RecordSuccess
    <2>2. PlacesAccounted'
      BY <1>3 DEF BInv, PlacesAccounted, CB!RecordSuccess
    <2> QED BY <1>4, <2>1, <2>2 DEF BInv
  <1> QED BY <1>1, <1>2, <1>3

\* A failure reopens a half-open circuit and clears its successes.
LEMMA RecordFailureStep ==
    ASSUME BInv, NEW c \in Callers, CB!RecordFailure(c) PROVE BInv'
  <1>1. CB!TypeOK'
    <2>1. (timedOut \in BOOLEAN)'
      BY Zenon DEF CB!RecordFailure
    <2>2. /\ (state \in {"closed", "open", "half-open"})'
          /\ (running \subseteq Callers /\ probes \subseteq running)'
      BY DEF BInv, CB!TypeOK, CB!RecordFailure, CB!TransitionTo
    <2>3. /\ (failureCount \in 0..FailureThreshold)'
          /\ (successCount \in 0..SuccessThreshold)'
          /\ (halfOpenCount \in 0..HalfOpenMaxRequests)'
          /\ (withdrawn \in Nat)'
      BY Thresholds DEF BInv, CB!TypeOK, ClosedBelowThreshold, CB!RecordFailure, CB!TransitionTo
    <2> QED BY <2>1, <2>2, <2>3 DEF CB!TypeOK
  <1>2. PlacesAccounted'
    BY DEF BInv, CB!TypeOK, PlacesAccounted, CB!RecordFailure, CB!Trips, CB!TransitionTo
  <1>3. ClosedBelowThreshold'
    BY Thresholds
    DEF BInv, CB!TypeOK, ClosedBelowThreshold, CB!RecordFailure, CB!Trips, CB!TransitionTo
  <1> QED BY <1>1, <1>2, <1>3 DEF BInv

\* A withdrawn probe gives its place back to nobody, and is counted as such.
LEMMA WithdrawStep ==
    ASSUME BInv, NEW c \in Callers, CB!Withdraw(c) PROVE BInv'
  <1>1. /\ Cardinality(probes) \in Nat
        /\ Cardinality(probes \ {c}) \in Nat
        /\ Cardinality(probes \ {c}) <= Cardinality(probes)
        /\ Cardinality(probes) <= Cardinality(probes \ {c}) + 1
        /\ c \notin probes => Cardinality(probes \ {c}) = Cardinality(probes)
    BY ProbesFinite, ProbesWithout DEF BInv
  <1>2. CB!TypeOK'
    BY DEF BInv, CB!TypeOK, CB!Withdraw
  <1>3. PlacesAccounted'
    BY <1>1, Thresholds DEF BInv, CB!TypeOK, PlacesAccounted, CB!Withdraw
  <1>4. ClosedBelowThreshold'
    BY DEF BInv, ClosedBelowThreshold, CB!Withdraw
  <1> QED BY <1>2, <1>3, <1>4 DEF BInv

\* Every step of the breaker preserves the invariant.
LEMMA BreakerNext == BInv /\ [CB!Next]_(CB!vars) => BInv'
  <1> SUFFICES ASSUME BInv, [CB!Next]_(CB!vars) PROVE BInv'
    OBVIOUS
  <1>1. CASE \E c \in Callers :
                 CB!Allow(c) \/ CB!RecordSuccess(c) \/ CB!RecordFailure(c) \/ CB!Withdraw(c)
    BY <1>1, AllowStep, RecordSuccessStep, RecordFailureStep, WithdrawStep
  <1>2. CASE CB!Reset
    BY <1>2, Thresholds
    DEF BInv, CB!TypeOK, PlacesAccounted, ClosedBelowThreshold, CB!Reset, CB!TransitionTo
  <1>3. CASE CB!TimeOut
    BY <1>3 DEF BInv, CB!TypeOK, PlacesAccounted, ClosedBelowThreshold, CB!TimeOut
  <1>4. CASE UNCHANGED CB!vars
    BY <1>4 DEF BInv, CB!TypeOK, PlacesAccounted, ClosedBelowThreshold, CB!vars
  <1> QED BY Zenon, <1>1, <1>2, <1>3, <1>4 DEF CB!Next

\* The account of places holds in every state of the breaker.
LEMMA BreakerAccounts == CB!Spec => []BInv
  BY BreakerInit, BreakerNext, PTL DEF CB!Spec

\* Allow lets at most HalfOpenMaxRequests probes into a half-open circuit, for
\* any number of callers and whatever outcomes arrive late.
THEOREM BreakerBoundsProbes == CB!Spec => []CB!ProbesBounded
  <1>1. BInv => CB!ProbesBounded
    <2> SUFFICES ASSUME BInv PROVE CB!ProbesBounded
      OBVIOUS
    <2>1. Cardinality(probes) \in Nat /\ CB!Cardinality(probes) = Cardinality(probes)
      BY Zenon, ProbesFinite DEF BInv, Cardinality, CB!Cardinality
    <2>2. CASE state = "half-open"
      BY <2>1, <2>2, Thresholds DEF BInv, CB!TypeOK, PlacesAccounted, CB!ProbesBounded
    <2>3. CASE state # "half-open"
      BY <2>1, <2>3, FS_EmptySet, Thresholds DEF BInv, PlacesAccounted, CB!ProbesBounded
    <2> QED BY <2>2, <2>3
  <1> QED BY <1>1, BreakerAccounts, PTL

\* A half-open circuit that lets nobody in awaits a probe, unless one was
\* withdrawn; and only successes recorded while it is half-open count.
THEOREM BreakerIsNotStuck == CB!Spec => [](CB!ProbePending /\ CB!SuccessesAreFresh)
  <1>1. BInv => CB!ProbePending /\ CB!SuccessesAreFresh
    <2> SUFFICES ASSUME BInv PROVE CB!ProbePending /\ CB!SuccessesAreFresh
      OBVIOUS
    <2>1. CB!SuccessesAreFresh
      BY DEF BInv, PlacesAccounted, CB!SuccessesAreFresh
    <2>2. probes = {} => Cardinality(probes) = 0
      BY FS_EmptySet
    <2>3. CB!ProbePending
      BY <2>2, Thresholds DEF BInv, CB!TypeOK, PlacesAccounted, CB!ProbePending
    <2> QED BY <2>1, <2>3
  <1> QED BY <1>1, BreakerAccounts, PTL

-----------------------------------------------------------------------------
\* The manager

\* Every step of a caller inside CheckAndAcquire is a step of the semaphore or
\* leaves it alone, and likewise for the breaker.
LEMMA CheckAndAcquireMaps ==
  ASSUME NEW c \in Callers, CheckAndAcquire(c) \/ Acquired(c)
  PROVE  [Next]_vars /\ [CB!Next]_breaker
  <1>1. CASE AskLimiter(c)
    BY Zenon, <1>1 DEF AskLimiter, CB!Next
  <1>2. CASE Acquiring(c)
    BY Zenon, <1>2 DEF Acquiring, Next
  <1>3. CASE Acquired(c)
    BY Zenon, <1>3 DEF Acquired, Next
  <1>4. CASE AcquireFails(c)
    BY Zenon, <1>4 DEF AcquireFails, Next, CB!Next
  <1> QED BY Zenon, <1>1, <1>2, <1>3, <1>4 DEF CheckAndAcquire

\* And so is every step of the manager.
LEMMA StepMaps == [ManagerNext]_allVars => [Next]_vars /\ [CB!Next]_breaker
  <1> SUFFICES ASSUME [ManagerNext]_allVars
               PROVE  [Next]_vars /\ [CB!Next]_breaker
    BY Zenon
  <1>1. CASE UNCHANGED allVars
    BY Zenon, <1>1 DEF allVars
  <1>2. ASSUME NEW c \in Callers, AskBreaker(c)
        PROVE  [Next]_vars /\ [CB!Next]_breaker
    BY Zenon, <1>2 DEF AskBreaker, CB!Next
  <1>3. ASSUME NEW c \in Callers, ContextEnds(c) \/ ManagerRelease(c)
        PROVE  [Next]_vars /\ [CB!Next]_breaker
    BY Zenon, <1>3 DEF ContextEnds, ManagerRelease, Next
  <1>4. ASSUME NEW c \in Callers, Record(c)
        PROVE  [Next]_vars /\ [CB!Next]_breaker
    BY Zenon, <1>4 DEF Record, CB!Next
  <1>5. CASE Refill
    BY Zenon, <1>5 DEF Refill
  <1>6. CASE BreakerAlone
    BY Zenon, <1>6 DEF BreakerAlone, CB!Next
  <1> QED
    BY <1>1, <1>2, <1>3, <1>4, <1>5, <1>6, CheckAndAcquireMaps DEF ManagerNext

\* The manager's CheckAndAcquire, Release and Record calls use the semaphore and
\* the breaker only in the ways that their own specifications allow, for every
\* number of callers and every configuration.
THEOREM ManagerImplements == ManagerSpec => Spec /\ CB!Spec
  <1>1. ManagerInit => Init /\ CB!Init
    BY Zenon DEF ManagerInit
  <1>2. [ManagerNext]_allVars => [Next]_vars /\ [CB!Next]_(CB!vars)
    BY Zenon, StepMaps DEF breaker, CB!vars
  <1> QED BY <1>1, <1>2, PTL DEF ManagerSpec, Spec, CB!Spec

\* Callers of CheckAndAcquire and of TryAcquire together never hold more permits
\* than the semaphore's capacity, and s.current counts them exactly.
THEOREM ManagerBoundsConcurrency == ManagerSpec => [](ConcurrencyBound /\ Accounting)
  BY ManagerImplements, SemaphoreBoundsConcurrency, PermitAccounting, PTL

\* What is proved of the breaker alone holds of it in the manager: late outcomes,
\* probes in the semaphore's queue and probes turned away neither let a further
\* probe in nor leave a success to the next half-open state.
THEOREM ManagerBoundsProbes == ManagerSpec => [](ProbesBounded /\ SuccessesAreFresh)
  BY ManagerImplements, BreakerBoundsProbes, BreakerIsNotStuck, PTL
     DEF ProbesBounded, SuccessesAreFresh
=============================================================================
