---------------------------- MODULE Client_proof ----------------------------
(***************************************************************************)
(* The calls of client.go give back what they take and report what they    *)
(* do, for every number of calls, deployments, providers, permits and      *)
(* retries.                                                                *)
(*                                                                         *)
(* Neither property is inductive.  ResourcesAccounted needs to know that a *)
(* call that holds a permit has a deployment, which the loop keeps until   *)
(* it gives the permit back.  OutcomesReported speaks of calls that have   *)
(* returned; the accounts below say what is still owed at every point of a *)
(* call.                                                                   *)
(***************************************************************************)
EXTENDS Client, FiniteSetTheorems, TLAPS

USE SMTT(30)

\* The points of a call, by what it holds there
Outside == {"start", "gate", "pick", "lookup", "admit", "failed", "switch",
            "backoff", "done"}
Sent == {"sending", "reading"}
Holding == {"acquired"} \cup Sent

Outcomes ==
    {"none", "ok", "refused", "limited", "unpriced", "unavailable", "unsupported", "ctx",
     "busy", "build", "closed", "exhausted", "cancelled"} \cup Failures

TypeOK ==
    /\ set \in Settings
    /\ permits \in [Providers -> Int]
    /\ active \in [Deployments -> Int]
    /\ pc \in [Requests -> Outside \cup Holding]
    /\ attempt \in [Requests -> Nat]
    /\ deployment \in [Requests -> Deployments \cup {Nil}]
    /\ pending \in [Requests -> BOOLEAN]
    /\ result \in [Requests -> Outcomes]
    /\ sent \in [Requests -> Nat]
    /\ verdicts \in [Requests -> Int]
    /\ fallbacks \in [Requests -> Nat]
    /\ reported \in [Requests -> Nat]

\* A call has a deployment where it uses one; a chat keeps it between attempts.
HasDeployment ==
    \A r \in Requests :
        \/ pc[r] \in Holding \cup {"lookup", "admit", "switch"}
        \/ pc[r] \in {"failed", "backoff"} /\ KindOf[r] = "chat"
        => deployment[r] \in Deployments

\* The verdict on an upstream request is owed from Send to the end of the answer,
\* and stays owed if the stream was closed.
VerdictOwed(r) == pc[r] \in Sent \/ result[r] = "closed"

\* Attempts and requests: an attempt is begun before its request is sent.
AttemptsCount ==
    \A r \in Requests :
        /\ verdicts[r] = sent[r] - (IF VerdictOwed(r) THEN 1 ELSE 0)
        /\ pc[r] # "done" => result[r] = "none"
        /\ attempt[r] <= RetryCount
        /\ sent[r] <= attempt[r] + 1
        /\ pc[r] \in {"start", "gate", "pick", "lookup", "admit", "acquired", "backoff"}
               => sent[r] <= attempt[r]
        /\ pc[r] = "switch" => attempt[r] < RetryCount
        /\ result[r] = "exhausted" => attempt[r] = RetryCount

\* An outcome is owed for the fallback that is pending, and only there.
FallbacksCount ==
    \A r \in Requests :
        /\ fallbacks[r] = reported[r] + (IF pending[r] THEN 1 ELSE 0)
        /\ pending[r] =>
               \/ pc[r] \in {"lookup", "admit", "acquired", "sending"}
               \/ pc[r] \in {"switch", "backoff"} /\ KindOf[r] = "chat"
               \/ pc[r] = "done" /\ r \in ctxDone

IInv == TypeOK /\ HasDeployment /\ ResourcesAccounted /\ AttemptsCount /\ FallbacksCount

-----------------------------------------------------------------------------

\* What the assumption says of the constants
LEMMA Constants ==
    /\ Nil \notin Deployments
    /\ ProviderOf \in [Deployments -> Providers]
    /\ MaxConcurrent \in Nat
    /\ TypeOK => RetryCount \in Nat
  BY Zenon, ProviderAssumption, NilAssumption, NumbersAssumption, SettingsAssumption
  DEF TypeOK, RetryCount

\* ResolveFallback keeps the types of what it reports.
LEMMA ResolveTypes ==
    ASSUME TypeOK, NEW r \in Requests, ResolveFallback(r) \/ UNCHANGED <<pending, reported>>
    PROVE  pending' \in [Requests -> BOOLEAN] /\ reported' \in [Requests -> Nat]
  <1>1. pending' \in [Requests -> BOOLEAN]
    BY Zenon DEF TypeOK, ResolveFallback
  <1>2. reported' \in [Requests -> Nat]
    BY DEF TypeOK, ResolveFallback, Add
  <1> QED BY Zenon, <1>1, <1>2

\* The types are kept by every step of a call.
LEMMA StepTypeOK ==
    ASSUME IInv, NEW r \in Requests, Step(r), UNCHANGED set PROVE TypeOK'
  <1> USE DEF Goto, Add, Return, ReturnUnhooked, Finish, ResolveFallback, AttemptFailed,
     locals, counts, IInv, TypeOK, Outside, Holding, Sent, Outcomes, Failures
  <1>1. CASE Start(r)
    BY Zenon, Constants, <1>1 DEF Start
  <1>2. CASE RateLimited(r)
    BY Zenon, Constants, <1>2 DEF RateLimited
  <1>3. CASE CacheHit(r)
    BY Zenon, Constants, <1>3 DEF CacheHit
  <1>4. CASE Admit(r)
    BY Zenon, Constants, <1>4 DEF Admit
  <1>5. ASSUME NEW outcome \in {"ok", "refused"}, ShortCircuit(r, outcome) PROVE TypeOK'
    BY Zenon, Constants, <1>5 DEF ShortCircuit
  <1>6. ASSUME NEW d \in Deployments, Pick(r, d) PROVE TypeOK'
    BY Constants, <1>6 DEF Pick
  <1>7. ASSUME NEW d \in Deployments, ChatFallback(r, d) PROVE TypeOK'
    BY Constants, <1>7 DEF ChatFallback
  <1>8. CASE PickFails(r)
    BY Zenon, Constants, <1>8 DEF PickFails
  <1>9. CASE Lookup(r)
    <2>1. pending' \in [Requests -> BOOLEAN] /\ reported' \in [Requests -> Nat]
      BY Zenon, <1>9, ResolveTypes DEF Lookup
    <2>2. pc' \in [Requests -> Outside \cup Holding] /\ result' \in [Requests -> Outcomes]
      BY <1>9 DEF Lookup
    <2> QED BY Zenon, <1>9, <2>1, <2>2 DEF Lookup
  <1>10. CASE ChatSwitch(r)
    BY Constants, <1>10 DEF ChatSwitch
  <1>11. ASSUME NEW error \in {"unpriced", "unsupported", "ctx", "busy"}, NotAdmitted(r,
     error) PROVE TypeOK'
    BY Constants, <1>11 DEF NotAdmitted
  <1>12. CASE AcquireDeployment(r)
    BY Constants, <1>12 DEF AcquireDeployment, Permits, HasDeployment
  <1>13. CASE BuildFails(r)
    <2>1. permits' \in [Providers -> Int]
      BY Constants, <1>13 DEF BuildFails, Permits, HasDeployment
    <2>2. pending' \in [Requests -> BOOLEAN] /\ reported' \in [Requests -> Nat]
      BY Zenon, <1>13, ResolveTypes DEF BuildFails
    <2>3. pc' \in [Requests -> Outside \cup Holding] /\ result' \in [Requests -> Outcomes]
      BY Zenon, <1>13 DEF BuildFails
    <2> QED BY Zenon, <1>13, <2>1, <2>2, <2>3 DEF BuildFails
  <1>14. CASE Send(r)
    <2>1. active' \in [Deployments -> Int]
      BY <1>14 DEF Send, HasDeployment
    <2>2. sent' \in [Requests -> Nat] /\ pc' \in [Requests -> Outside \cup Holding]
      BY <1>14 DEF Send
    <2> QED BY Zenon, <1>14, <2>1, <2>2 DEF Send
  <1>15. ASSUME NEW error \in Failures, UpstreamFails(r, error) PROVE TypeOK'
    BY Constants, <1>15 DEF UpstreamFails, Permits, HasDeployment
  <1>16. CASE UpstreamAnswers(r)
    BY Constants, <1>16 DEF UpstreamAnswers, Permits, HasDeployment
  <1>17. ASSUME NEW outcome \in {"ok", "closed"}, StreamEnds(r, outcome) PROVE TypeOK'
    BY Constants, <1>17 DEF StreamEnds, Permits, HasDeployment
  <1>18. CASE RetryAgain(r)
    BY Constants, <1>18 DEF RetryAgain
  <1>19. CASE GiveUp(r)
    BY Zenon, Constants, <1>19 DEF GiveUp
  <1>20. CASE BackoffEnds(r)
    BY Zenon, Constants, <1>20 DEF BackoffEnds
  <1>21. CASE BackoffCancelled(r)
    BY Zenon, Constants, <1>21 DEF BackoffCancelled
  <1> QED BY Zenon, Constants, <1>1, <1>2, <1>3, <1>4, <1>5, <1>6, <1>7, <1>8, <1>9, <1>10,
     <1>11, <1>12, <1>13, <1>14, <1>15, <1>16, <1>17, <1>18, <1>19, <1>20, <1>21 DEF
     Step

\* A call drops its deployment only for another one.
LEMMA StepHasDeployment ==
    ASSUME IInv, NEW r \in Requests, Step(r), UNCHANGED set PROVE HasDeployment'
  <1> USE DEF Goto, Add, Return, ReturnUnhooked, Finish, ResolveFallback, AttemptFailed,
     locals, counts, IInv, TypeOK, HasDeployment, Outside, Holding, Sent, KindOf
  <1>1. CASE Start(r)
    BY Zenon, <1>1 DEF Start
  <1>2. CASE RateLimited(r)
    BY Zenon, <1>2 DEF RateLimited
  <1>3. CASE CacheHit(r)
    BY Zenon, <1>3 DEF CacheHit
  <1>4. CASE Admit(r)
    BY Zenon, <1>4 DEF Admit
  <1>5. ASSUME NEW outcome \in {"ok", "refused"}, ShortCircuit(r, outcome) PROVE
     HasDeployment'
    BY Zenon, <1>5 DEF ShortCircuit
  <1>6. ASSUME NEW d \in Deployments, Pick(r, d) PROVE HasDeployment'
    BY Zenon, <1>6 DEF Pick, Routable
  <1>7. ASSUME NEW d \in Deployments, ChatFallback(r, d) PROVE HasDeployment'
    BY Zenon, <1>7 DEF ChatFallback, Routable
  <1>8. CASE PickFails(r)
    BY Zenon, <1>8 DEF PickFails
  <1>9. CASE Lookup(r)
    BY <1>9 DEF Lookup
  <1>10. CASE ChatSwitch(r)
    BY Zenon, <1>10 DEF ChatSwitch
  <1>11. ASSUME NEW error \in {"unpriced", "unsupported", "ctx", "busy"}, NotAdmitted(r,
     error) PROVE HasDeployment'
    BY Zenon, <1>11 DEF NotAdmitted
  <1>12. CASE AcquireDeployment(r)
    BY Zenon, <1>12 DEF AcquireDeployment
  <1>13. CASE BuildFails(r)
    BY Zenon, <1>13 DEF BuildFails
  <1>14. CASE Send(r)
    BY Zenon, <1>14 DEF Send
  <1>15. ASSUME NEW error \in Failures, UpstreamFails(r, error) PROVE HasDeployment'
    BY Zenon, <1>15 DEF UpstreamFails
  <1>16. CASE UpstreamAnswers(r)
    BY Zenon, <1>16 DEF UpstreamAnswers
  <1>17. ASSUME NEW outcome \in {"ok", "closed"}, StreamEnds(r, outcome) PROVE
     HasDeployment'
    BY Zenon, <1>17 DEF StreamEnds
  <1>18. CASE RetryAgain(r)
    BY Zenon, <1>18 DEF RetryAgain
  <1>19. CASE GiveUp(r)
    BY Zenon, <1>19 DEF GiveUp
  <1>20. CASE BackoffEnds(r)
    BY Zenon, <1>20 DEF BackoffEnds
  <1>21. CASE BackoffCancelled(r)
    BY Zenon, <1>21 DEF BackoffCancelled
  <1> HIDE DEF HasDeployment, TypeOK, IInv
  <1> QED BY Zenon, <1>1, <1>2, <1>3, <1>4, <1>5, <1>6, <1>7, <1>8, <1>9, <1>10, <1>11,
     <1>12, <1>13, <1>14, <1>15, <1>16, <1>17, <1>18, <1>19, <1>20, <1>21 DEF Step

\* 1 if the call is counted, 0 if not
Counts(yes) == IF yes THEN 1 ELSE 0

\* A set without one of its elements
LEMMA Without ==
    ASSUME NEW S, IsFiniteSet(S), NEW r
    PROVE  Cardinality(S \ {r}) = Cardinality(S) - Counts(r \in S)
  <1>1. CASE r \in S
    <2>1. Counts(r \in S) = 1
      BY Zenon, <1>1 DEF Counts
    <2> QED BY Zenon, <1>1, <2>1, FS_RemoveElement
  <1>2. CASE r \notin S
    <2>1. Counts(r \in S) = 0 /\ S \ {r} = S
      BY Zenon, <1>2 DEF Counts
    <2>2. Cardinality(S) \in Nat
      BY Zenon, FS_CardinalityType
    <2>3. Cardinality(S) = Cardinality(S) - 0
      BY <2>2
    <2> QED BY Zenon, <2>1, <2>3
  <1> QED BY Zenon, <1>1, <1>2

\* A set of calls that only r can have entered or left
LEMMA OneCallMoves ==
    ASSUME NEW A \in SUBSET Requests, NEW B \in SUBSET Requests, NEW r,
           A \ {r} = B \ {r}
    PROVE  /\ Cardinality(A) \in Nat /\ Cardinality(B) \in Nat
           /\ Cardinality(B) = Cardinality(A) + Counts(r \in B) - Counts(r \in A)
  <1>1. IsFiniteSet(A) /\ IsFiniteSet(B)
    BY Zenon, NumbersAssumption, FS_Subset
  <1>2. Cardinality(A) \in Nat /\ Cardinality(B) \in Nat
    BY Zenon, <1>1, FS_CardinalityType
  <1>3. Cardinality(A \ {r}) = Cardinality(A) - Counts(r \in A)
    BY Zenon, <1>1, Without
  <1>4. Cardinality(B \ {r}) = Cardinality(B) - Counts(r \in B)
    BY Zenon, <1>1, Without
  <1>5. Cardinality(A) - Counts(r \in A) = Cardinality(B) - Counts(r \in B)
    BY Zenon, <1>3, <1>4
  <1> QED BY <1>2, <1>5 DEF Counts

\* A step of r moves no other call.
LEMMA StepFrame ==
    ASSUME TypeOK, NEW r \in Requests, Step(r)
    PROVE  \A q \in Requests \ {r} : pc'[q] = pc[q] /\ deployment'[q] = deployment[q]
  <1> USE DEF TypeOK, Goto, Return, ReturnUnhooked, Finish, AttemptFailed, locals
  <1>1. CASE Start(r) \/ RateLimited(r) \/ CacheHit(r) \/ Admit(r) \/ PickFails(r)
             \/ Lookup(r) \/ ChatSwitch(r)
    BY Zenon, <1>1 DEF Start, RateLimited, CacheHit, Admit, PickFails, Lookup,
       ChatSwitch
  <1>2. CASE AcquireDeployment(r) \/ BuildFails(r) \/ Send(r) \/ UpstreamAnswers(r)
    BY Zenon, <1>2 DEF AcquireDeployment, BuildFails, Send, UpstreamAnswers
  <1>3. CASE RetryAgain(r) \/ GiveUp(r) \/ BackoffEnds(r) \/ BackoffCancelled(r)
    BY Zenon, <1>3 DEF RetryAgain, GiveUp, BackoffEnds, BackoffCancelled
  <1>4. ASSUME NEW outcome, ShortCircuit(r, outcome) \/ StreamEnds(r, outcome)
        PROVE  \A q \in Requests \ {r} : pc'[q] = pc[q] /\ deployment'[q] = deployment[q]
    BY Zenon, <1>4 DEF ShortCircuit, StreamEnds
  <1>5. ASSUME NEW error, NotAdmitted(r, error) \/ UpstreamFails(r, error)
        PROVE  \A q \in Requests \ {r} : pc'[q] = pc[q] /\ deployment'[q] = deployment[q]
    BY Zenon, <1>5 DEF NotAdmitted, UpstreamFails
  <1>6. ASSUME NEW d, Pick(r, d) \/ ChatFallback(r, d)
        PROVE  \A q \in Requests \ {r} : pc'[q] = pc[q] /\ deployment'[q] = deployment[q]
    BY Zenon, <1>6 DEF Pick, ChatFallback
  <1> QED BY Zenon, <1>1, <1>2, <1>3, <1>4, <1>5, <1>6 DEF Step

\* What a step of r does to the counters is what it does to r's own place.
Balanced(r) ==
    /\ \A d \in Deployments :
           active'[d] = active[d] + Counts(r \in Serving(d)') - Counts(r \in Serving(d))
    /\ MaxConcurrent > 0 => \A p \in Providers :
           permits'[p] = permits[p] + Counts(r \in Using(p)') - Counts(r \in Using(p))

\* A step outside of what a call holds changes no counter.
LEMMA OutsideBalanced ==
    ASSUME TypeOK, NEW r \in Requests, pc[r] \in Outside, pc'[r] \in Outside,
           UNCHANGED <<permits, active>>
    PROVE  Balanced(r)
  BY DEF TypeOK, Outside, Balanced, Counts, Serving, Using

\* Every step keeps the balance of permits, load and leases with the calls.
LEMMA StepBalanced ==
    ASSUME IInv, TypeOK', NEW r \in Requests, Step(r)
    PROVE  Balanced(r)
  <1> USE DEF IInv, TypeOK, Goto, Add, Return, ReturnUnhooked, Finish, AttemptFailed,
              Outside, locals
  <1> DEFINE Out == pc[r] \in Outside /\ pc'[r] \in Outside /\ UNCHANGED <<permits, active>>
  <1>1. Start(r) \/ RateLimited(r) \/ CacheHit(r) \/ Admit(r) \/ PickFails(r) => Out
    BY DEF Start, RateLimited, CacheHit, Admit, PickFails
  <1>2. Lookup(r) \/ ChatSwitch(r) \/ RetryAgain(r) \/ GiveUp(r) => Out
    BY Zenon DEF Lookup, ChatSwitch, RetryAgain, GiveUp
  <1>3. BackoffEnds(r) \/ BackoffCancelled(r) => Out
    BY Zenon DEF BackoffEnds, BackoffCancelled
  <1>4. \A outcome : ShortCircuit(r, outcome) => Out
    BY Zenon DEF ShortCircuit
  <1>5. \A d : Pick(r, d) \/ ChatFallback(r, d) => Out
    BY Zenon DEF Pick, ChatFallback
  <1>6. \A error : NotAdmitted(r, error) => Out
    BY DEF NotAdmitted
  <1>7. CASE AcquireDeployment(r)
    BY <1>7, Constants DEF AcquireDeployment, Permits, HasDeployment, Holding,
       Sent,
                           Balanced, Counts, Serving, Using
  <1>8. CASE BuildFails(r)
    BY <1>8, Constants DEF BuildFails, Permits, HasDeployment, Holding, Sent,
                           Balanced, Counts, Serving, Using
  <1>9. CASE Send(r)
    BY <1>9, Constants DEF Send, HasDeployment, Holding, Sent, Balanced,
       Counts, Serving,
                           Using
  <1>10. ASSUME NEW error, UpstreamFails(r, error) PROVE Balanced(r)
    BY <1>10, Constants DEF UpstreamFails, Permits, HasDeployment, Holding,
       Sent,
                            Balanced, Counts, Serving, Using
  <1>11. CASE UpstreamAnswers(r)
    BY <1>11, Constants DEF UpstreamAnswers, Permits, HasDeployment, Holding,
       Sent,
                            Balanced, Counts, Serving, Using
  <1>12. ASSUME NEW outcome, StreamEnds(r, outcome) PROVE Balanced(r)
    BY <1>12, Constants DEF StreamEnds, Permits, HasDeployment, Holding, Sent,
                            Balanced, Counts, Serving, Using
  <1>13. CASE Out
    BY Zenon, <1>13, OutsideBalanced
  <1> HIDE DEF Out
  <1> QED BY Zenon, <1>1, <1>2, <1>3, <1>4, <1>5, <1>6, <1>7, <1>8, <1>9, <1>10, <1>11,
             <1>12, <1>13 DEF Step

\* Only AcquireDeployment takes a permit, and only where one is free.
LEMMA PermitsStayWithin ==
    ASSUME IInv, NEW r \in Requests, Step(r), MaxConcurrent > 0, NEW p \in Providers
    PROVE  permits'[p] <= permits[p] \/ permits'[p] <= MaxConcurrent
  <1> USE DEF IInv, TypeOK, locals
  <1>1. permits' = permits => permits'[p] <= permits[p]
    BY DEF TypeOK
  <1>2. permits' = Permits(r, -1) => permits'[p] <= permits[p]
    BY DEF Permits, Add
  <1>3. CASE AcquireDeployment(r)
    BY <1>3, Constants DEF AcquireDeployment, Permits, Add
  <1>4. permits' = permits \/ permits' = Permits(r, -1) \/ AcquireDeployment(r)
    BY Zenon DEF Step, Start, RateLimited, CacheHit, Admit, ShortCircuit, Pick,
           ChatFallback, PickFails, Lookup, ChatSwitch, NotAdmitted, BuildFails, Send, UpstreamFails,
           UpstreamAnswers, StreamEnds, RetryAgain, GiveUp, BackoffEnds, BackoffCancelled
  <1> QED BY Zenon, <1>1, <1>2, <1>3, <1>4

\* Every step keeps what ResourcesAccounted rests on.
LEMMA StepResources ==
    ASSUME IInv, TypeOK', NEW r \in Requests, Step(r)
    PROVE  ResourcesAccounted'
  <1>1. Balanced(r)
    BY Zenon, StepBalanced
  <1>2. \A q \in Requests \ {r} : pc'[q] = pc[q] /\ deployment'[q] = deployment[q]
    BY Zenon, StepFrame DEF IInv
  <1>3. ASSUME NEW d \in Deployments PROVE (active[d] = Cardinality(Serving(d)))'
    <2>1. Serving(d) \in SUBSET Requests /\ Serving(d)' \in SUBSET Requests
      BY Zenon DEF Serving
    <2>2. Serving(d)' \ {r} = Serving(d) \ {r}
      BY Zenon, <1>2 DEF Serving
    <2>3. Cardinality(Serving(d)') =
            Cardinality(Serving(d)) + Counts(r \in Serving(d)') - Counts(r \in Serving(d))
      BY Zenon, <2>1, <2>2, OneCallMoves
    <2>4. active[d] = Cardinality(Serving(d))
      BY Zenon DEF IInv, ResourcesAccounted
    <2> QED BY Zenon, <1>1, <2>3, <2>4 DEF Balanced
  <1>4. ASSUME MaxConcurrent > 0, NEW p \in Providers
        PROVE  (permits[p] = Cardinality(Using(p)) /\ permits[p] <= MaxConcurrent)'
    <2>1. Using(p) \in SUBSET Requests /\ Using(p)' \in SUBSET Requests
      BY Zenon DEF Using
    <2>2. Using(p)' \ {r} = Using(p) \ {r}
      BY Zenon, <1>2 DEF Using
    <2>3. Cardinality(Using(p)') =
            Cardinality(Using(p)) + Counts(r \in Using(p)') - Counts(r \in Using(p))
      BY Zenon, <2>1, <2>2, OneCallMoves
    <2>4. permits[p] = Cardinality(Using(p)) /\ permits[p] <= MaxConcurrent
      BY Zenon, <1>4 DEF IInv, ResourcesAccounted
    <2>5. permits'[p] <= permits[p] \/ permits'[p] <= MaxConcurrent
      BY Zenon, <1>4, PermitsStayWithin
    <2>6. permits'[p] \in Int /\ permits[p] \in Int /\ MaxConcurrent \in Int
      BY Constants DEF IInv, TypeOK
    <2> QED BY <1>1, <1>4, <2>3, <2>4, <2>5, <2>6 DEF Balanced
  <1> QED BY Zenon, <1>3, <1>4 DEF ResourcesAccounted

\* Every step keeps the account of attempts, requests and verdicts.
LEMMA StepAttempts ==
    ASSUME IInv, NEW r \in Requests, Step(r), UNCHANGED set PROVE AttemptsCount'
  <1> USE DEF Goto, Add, Return, ReturnUnhooked, Finish, ResolveFallback, AttemptFailed,
     locals, counts, IInv, TypeOK, Outside, Holding, Sent, AttemptsCount, VerdictOwed,
     RetryCount, Failures, Outcomes
  <1>1. CASE Start(r)
    BY Zenon, Constants, <1>1 DEF Start
  <1>2. CASE RateLimited(r)
    BY Constants, <1>2 DEF RateLimited
  <1>3. CASE CacheHit(r)
    BY Constants, <1>3 DEF CacheHit
  <1>4. CASE Admit(r)
    BY Zenon, Constants, <1>4 DEF Admit
  <1>5. ASSUME NEW outcome \in {"ok", "refused"}, ShortCircuit(r, outcome) PROVE
     AttemptsCount'
    BY Constants, <1>5 DEF ShortCircuit
  <1>6. ASSUME NEW d \in Deployments, Pick(r, d) PROVE AttemptsCount'
    BY Zenon, Constants, <1>6 DEF Pick
  <1>7. ASSUME NEW d \in Deployments, ChatFallback(r, d) PROVE AttemptsCount'
    BY Zenon, Constants, <1>7 DEF ChatFallback
  <1>8. CASE PickFails(r)
    BY Constants, <1>8 DEF PickFails
  <1>9. CASE Lookup(r)
    BY Constants, <1>9 DEF Lookup
  <1>10. CASE ChatSwitch(r)
    BY Constants, <1>10 DEF ChatSwitch
  <1>11. ASSUME NEW error \in {"unpriced", "unsupported", "ctx", "busy"}, NotAdmitted(r,
     error) PROVE AttemptsCount'
    BY Constants, <1>11 DEF NotAdmitted
  <1>12. CASE AcquireDeployment(r)
    BY Zenon, Constants, <1>12 DEF AcquireDeployment
  <1>13. CASE BuildFails(r)
    BY Constants, <1>13 DEF BuildFails
  <1>14. CASE Send(r)
    BY Constants, <1>14 DEF Send
  <1>15. ASSUME NEW error \in Failures, UpstreamFails(r, error) PROVE AttemptsCount'
    BY Constants, <1>15 DEF UpstreamFails
  <1>16. CASE UpstreamAnswers(r)
    BY Constants, <1>16 DEF UpstreamAnswers
  <1>17. ASSUME NEW outcome \in {"ok", "closed"}, StreamEnds(r, outcome) PROVE
     AttemptsCount'
    BY Constants, <1>17 DEF StreamEnds
  <1>18. CASE RetryAgain(r)
    BY Constants, <1>18 DEF RetryAgain
  <1>19. CASE GiveUp(r)
    BY Constants, <1>19 DEF GiveUp
  <1>20. CASE BackoffEnds(r)
    BY Zenon, Constants, <1>20 DEF BackoffEnds
  <1>21. CASE BackoffCancelled(r)
    BY Constants, <1>21 DEF BackoffCancelled
  <1> QED BY Zenon, Constants, <1>1, <1>2, <1>3, <1>4, <1>5, <1>6, <1>7, <1>8, <1>9, <1>10,
     <1>11, <1>12, <1>13, <1>14, <1>15, <1>16, <1>17, <1>18, <1>19, <1>20, <1>21 DEF
     Step

\* Every step keeps the account of fallbacks and the outcomes reported of them.
LEMMA StepFallbacks ==
    ASSUME IInv, NEW r \in Requests, Step(r), UNCHANGED set PROVE FallbacksCount'
  <1> USE DEF Goto, Add, Return, ReturnUnhooked, Finish, ResolveFallback, AttemptFailed,
     locals, counts, IInv, TypeOK, FallbacksCount, Outside, Holding, Sent, KindOf
  <1>1. CASE Start(r)
    BY Zenon, <1>1 DEF Start
  <1>2. CASE RateLimited(r)
    BY Zenon, <1>2 DEF RateLimited
  <1>3. CASE CacheHit(r)
    BY Zenon, <1>3 DEF CacheHit
  <1>4. CASE Admit(r)
    BY Zenon, <1>4 DEF Admit
  <1>5. ASSUME NEW outcome \in {"ok", "refused"}, ShortCircuit(r, outcome) PROVE
     FallbacksCount'
    BY Zenon, <1>5 DEF ShortCircuit
  <1>6. ASSUME NEW d \in Deployments, Pick(r, d) PROVE FallbacksCount'
    <2>1. CASE deployment[r] \in {Nil, d}
      BY Zenon, <1>6, <2>1 DEF Pick
    <2>2. CASE deployment[r] \notin {Nil, d}
      <3>1. pending' = [pending EXCEPT ![r] = TRUE] /\ fallbacks' = Add(fallbacks, r, 1)
        BY Zenon, <1>6, <2>2 DEF Pick
      <3>2. /\ pc[r] = "pick" /\ pc' = [pc EXCEPT ![r] = "lookup"]
            /\ UNCHANGED <<reported, ctxDone>>
        BY Zenon, <1>6 DEF Pick
      <3> QED BY <3>1, <3>2
    <2> QED BY Zenon, <2>1, <2>2
  <1>7. ASSUME NEW d \in Deployments, ChatFallback(r, d) PROVE FallbacksCount'
    BY <1>7 DEF ChatFallback
  <1>8. CASE PickFails(r)
    BY Zenon, <1>8 DEF PickFails
  <1>9. CASE Lookup(r)
    BY <1>9 DEF Lookup
  <1>10. CASE ChatSwitch(r)
    <2>1. pc[r] = "switch" /\ pc' = [pc EXCEPT ![r] = "backoff"]
      BY Zenon, <1>10 DEF ChatSwitch
    <2>2. UNCHANGED <<pending, fallbacks, reported, ctxDone>>
      BY Zenon, <1>10 DEF ChatSwitch
    <2> QED BY Zenon, <2>1, <2>2
  <1>11. ASSUME NEW error \in {"unpriced", "unsupported", "ctx", "busy"}, NotAdmitted(r,
     error) PROVE FallbacksCount'
    BY <1>11 DEF NotAdmitted
  <1>12. CASE AcquireDeployment(r)
    BY Zenon, <1>12 DEF AcquireDeployment
  <1>13. CASE BuildFails(r)
    BY <1>13 DEF BuildFails
  <1>14. CASE Send(r)
    BY Zenon, <1>14 DEF Send
  <1>15. ASSUME NEW error \in Failures, UpstreamFails(r, error) PROVE FallbacksCount'
    BY <1>15 DEF UpstreamFails
  <1>16. CASE UpstreamAnswers(r)
    BY <1>16 DEF UpstreamAnswers
  <1>17. ASSUME NEW outcome \in {"ok", "closed"}, StreamEnds(r, outcome) PROVE
     FallbacksCount'
    BY Zenon, <1>17 DEF StreamEnds
  <1>18. CASE RetryAgain(r)
    BY Zenon, <1>18 DEF RetryAgain
  <1>19. CASE GiveUp(r)
    BY Zenon, <1>19 DEF GiveUp
  <1>20. CASE BackoffEnds(r)
    BY Zenon, <1>20 DEF BackoffEnds
  <1>21. CASE BackoffCancelled(r)
    BY Zenon, <1>21 DEF BackoffCancelled
  <1> QED BY Zenon, <1>1, <1>2, <1>3, <1>4, <1>5, <1>6, <1>7, <1>8, <1>9, <1>10, <1>11,
     <1>12, <1>13, <1>14, <1>15, <1>16, <1>17, <1>18, <1>19, <1>20, <1>21 DEF Step

\* What is not a step of a call: a caller cancels, a provider is removed.
LEMMA OtherSteps ==
    ASSUME IInv, UNCHANGED set,
           \/ \E r \in Requests : Cancel(r)
           \/ \E p \in Removable : RemoveProvider(p)
           \/ UNCHANGED vars
    PROVE  IInv'
  <1>1. /\ UNCHANGED <<set, permits, active, pc, attempt, deployment, pending>>
        /\ UNCHANGED <<result, sent, verdicts, fallbacks, reported>>
        /\ ctxDone \subseteq ctxDone'
    BY Zenon DEF Cancel, RemoveProvider, vars, locals, counts
  <1>2. TypeOK' /\ HasDeployment' /\ AttemptsCount'
    BY Zenon, <1>1 DEF IInv, TypeOK, HasDeployment, AttemptsCount, VerdictOwed,
       KindOf, RetryCount
  <1>3. ResourcesAccounted'
    BY Zenon, <1>1 DEF IInv, ResourcesAccounted, Serving, Using
  <1>4. FallbacksCount'
    BY Zenon, <1>1 DEF IInv, FallbacksCount, KindOf
  <1> QED BY Zenon, <1>2, <1>3, <1>4 DEF IInv

\* A client starts with nothing held.
LEMMA InitIInv == Init => IInv
  <1> SUFFICES ASSUME Init PROVE IInv
    BY Zenon
  <1>1. TypeOK
    BY DEF Init, TypeOK, Outside, Holding, Outcomes
  <1>2. HasDeployment /\ AttemptsCount /\ FallbacksCount
    BY <1>1, Constants DEF Init, HasDeployment, AttemptsCount, FallbacksCount,
       VerdictOwed,
                           Holding, Sent
  <1>3. ResourcesAccounted
    <2>1. \A d \in Deployments : Serving(d) = {} /\ active[d] = 0
      BY Zenon DEF Init, Serving
    <2>2. \A p \in Providers : Using(p) = {} /\ permits[p] = 0
      BY Zenon DEF Init, Using
    <2> QED BY <2>1, <2>2, FS_EmptySet, Constants DEF ResourcesAccounted
  <1> QED BY Zenon, <1>1, <1>2, <1>3 DEF IInv

\* Every step of a call keeps the inductive invariant.
LEMMA NextIInv == IInv /\ [Next]_vars => IInv'
  <1> SUFFICES ASSUME IInv, [Next]_vars PROVE IInv'
    BY Zenon
  <1>1. ASSUME NEW r \in Requests, Step(r), UNCHANGED set PROVE IInv'
    BY Zenon, <1>1, StepTypeOK, StepHasDeployment, StepResources, StepAttempts,
       StepFallbacks
    DEF IInv
  <1>2. CASE UNCHANGED vars
    BY Zenon, <1>2, OtherSteps DEF vars
  <1>3. CASE UNCHANGED set /\ (\/ \E r \in Requests : Cancel(r)
                               \/ \E p \in Removable : RemoveProvider(p))
    BY Zenon, <1>3, OtherSteps
  <1> QED BY Zenon, <1>1, <1>2, <1>3 DEF Next

\* The inductive invariant holds throughout.
LEMMA ClientInvariant == Spec => []IInv
  BY InitIInv, NextIInv, PTL DEF Spec

\* Whichever way the attempts of any number of concurrent calls end, their permits
\* and their places among the active requests are given back exactly once, and no
\* provider serves more than MaxConcurrent of them (acquireDeployment, the release
\* on every path of client.go, ReportRequestStart and ReportRequestEnd).
THEOREM ClientAccountsResources == Spec => []ResourcesAccounted
  <1>1. IInv => ResourcesAccounted
    BY Zenon DEF IInv
  <1> QED BY <1>1, ClientInvariant, PTL

\* The router hears one verdict on every upstream request, a call gives up only
\* after RetryCount retries, and each fallback's outcome is reported once, whatever
\* RetryCount is and however the calls interleave.
THEOREM ClientReportsOutcomes == Spec => []OutcomesReported
  <1>1. IInv => OutcomesReported
    <2> SUFFICES ASSUME IInv PROVE OutcomesReported
      BY Zenon
    <2>1. EveryAttemptCounts
      BY Zenon DEF IInv, AttemptsCount, EveryAttemptCounts, VerdictOwed, Sent
    <2>2. FallbacksReported
      BY DEF IInv, TypeOK, FallbacksCount, FallbacksReported
    <2> QED BY Zenon, <2>1, <2>2 DEF OutcomesReported
  <1> QED BY <1>1, ClientInvariant, PTL
=============================================================================
