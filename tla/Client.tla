------------------------------- MODULE Client -------------------------------
(***************************************************************************)
(* The request path of client.go: ChatCompletion, ChatCompletionStream and *)
(* Embedding with their gates (plugins, rate limit, cache), and the loop   *)
(* of attempts with backoff, fallback to another deployment, the provider's*)
(* permits and the reports to the router.                                  *)
(*                                                                         *)
(* The router may pick any deployment of a registered provider, or none    *)
(* (module Router says which).  The permits are those of module Semaphore, *)
(* used through TryAcquire only.  A stream is read by module StreamReader; *)
(* here its end is one step.                                               *)
(***************************************************************************)
EXTENDS Integers, FiniteSets, TLC

CONSTANTS
    Requests,
    Deployments, Providers,
    ProviderOf,         \* deployment.ProviderName
    Nil,                \* no deployment, no provider
    MaxConcurrent,      \* deployment.MaxConcurrent, 0 for no limit
    Settings            \* the clients and calls that are considered

ASSUME ProviderAssumption == ProviderOf \in [Deployments -> Providers]
ASSUME NilAssumption == Nil \notin Deployments
ASSUME NumbersAssumption == IsFiniteSet(Requests) /\ MaxConcurrent \in Nat
ASSUME SettingsAssumption ==
    Settings \subseteq [KindOf : [Requests -> {"chat", "stream", "embedding"}],
                        RetryCount : Nat, FallbackEnabled : BOOLEAN,
                        MayCancel : BOOLEAN, Removable : SUBSET Providers]

VARIABLES
    set,            \* the settings of this client
    providers,      \* c.providers: the registered ones
    permits,        \* current of each provider's semaphore
    active,         \* the router's ActiveRequests
    pc, attempt, deployment, prov, pending, \* locals of each call
    ctxDone,        \* calls whose context is done
    hooks,          \* which plugin hooks have run for a call
    result,         \* how a call ended
    sent, verdicts, \* upstream requests and reports on them, by call
    fallbacks, reported \* fallbacks begun, and outcomes reported, by call

locals == <<attempt, deployment, prov, pending>>
counts == <<sent, verdicts, fallbacks, reported>>
vars == <<set, providers, permits, active, pc, locals, ctxDone, hooks, result, counts>>

KindOf == set.KindOf                    \* the method a request calls
RetryCount == set.RetryCount            \* config.RetryCount
FallbackEnabled == set.FallbackEnabled  \* config.FallbackEnabled
MayCancel == set.MayCancel              \* callers may cancel
Removable == set.Removable              \* RemoveProvider is called for these

\* What an upstream answers; "net" is a failed round trip, "parse" an answer
\* that cannot be parsed, "503" and "429" stand for all that MapError makes
\* retryable and "400" and "500" for the rest.
Failures == {"net", "parse", "503", "429", "500", "400"}

\* An error for which the loop goes on.  A stream is not parsed here, and
\* takes any status of 500 and more as retryable.
Retryable(r, error) ==
    error \in {"net", "parse", "503", "429", "busy", "ctx", "build", "unsupported"}
              \cup (IF KindOf[r] = "stream" THEN {"500"} ELSE {})

Init ==
    /\ set \in Settings
    /\ providers = Providers
    /\ permits = [p \in Providers |-> 0]
    /\ active = [d \in Deployments |-> 0]
    /\ pc = [r \in Requests |-> "start"]
    /\ attempt = [r \in Requests |-> 0]
    /\ deployment = [r \in Requests |-> Nil]
    /\ prov = [r \in Requests |-> Nil]
    /\ pending = [r \in Requests |-> FALSE]
    /\ ctxDone = {}
    /\ hooks = [r \in Requests |-> "none"]
    /\ result = [r \in Requests |-> "none"]
    /\ sent = [r \in Requests |-> 0]
    /\ verdicts = [r \in Requests |-> 0]
    /\ fallbacks = [r \in Requests |-> 0]
    /\ reported = [r \in Requests |-> 0]

Goto(r, where) == pc' = [pc EXCEPT ![r] = where]
Add(f, x, n) == [f EXCEPT ![x] = @ + n]

\* The call returns; ChatCompletion may run the post hooks first.
Return(r, outcome) ==
    /\ Goto(r, "done")
    /\ result' = [result EXCEPT ![r] = outcome]

ReturnUnhooked(r, outcome) == Return(r, outcome) /\ UNCHANGED hooks

\* The end of ChatCompletion; streams and embeddings have no hooks to run here.
Finish(r, outcome) ==
    /\ Return(r, outcome)
    /\ hooks' = IF KindOf[r] = "chat" THEN [hooks EXCEPT ![r] = "post"] ELSE hooks

\* A fallback whose outcome is known is reported.
ResolveFallback(r) ==
    /\ pending' = [pending EXCEPT ![r] = FALSE]
    /\ reported' = IF pending[r] THEN Add(reported, r, 1) ELSE reported

-----------------------------------------------------------------------------
\* The gates

\* A chat or stream request runs the pre hooks.
Start(r) ==
    /\ pc[r] = "start"
    /\ hooks' = IF KindOf[r] = "embedding" THEN hooks ELSE [hooks EXCEPT ![r] = "pre"]
    /\ Goto(r, "gate")
    /\ UNCHANGED <<providers, permits, active, locals, ctxDone, result, counts>>

\* A plugin answers itself, or refuses the request; a stream of its own is read
\* by a StreamReader, which runs the post hooks when it ends.
ShortCircuit(r, outcome) ==
    /\ pc[r] = "gate" /\ KindOf[r] # "embedding"
    /\ Return(r, outcome)
    /\ hooks' = IF outcome = "refused" /\ KindOf[r] = "chat" THEN hooks
                ELSE [hooks EXCEPT ![r] = "post"]
    /\ UNCHANGED <<providers, permits, active, locals, ctxDone, counts>>

\* checkRateLimit denies the request.
RateLimited(r) ==
    /\ pc[r] = "gate"
    /\ ReturnUnhooked(r, "limited")
    /\ UNCHANGED <<providers, permits, active, locals, ctxDone, counts>>

\* A chat response is found in the cache, with or without a price.
CacheHit(r) ==
    /\ pc[r] = "gate" /\ KindOf[r] = "chat"
    /\ Finish(r, "ok") \/ ReturnUnhooked(r, "unpriced")
    /\ UNCHANGED <<providers, permits, active, locals, ctxDone, counts>>

Admit(r) ==
    /\ pc[r] = "gate"
    /\ Goto(r, "pick")
    /\ UNCHANGED <<providers, permits, active, locals, ctxDone, hooks, result, counts>>

-----------------------------------------------------------------------------
\* Choosing a deployment

Routable == {d \in Deployments : ProviderOf[d] \in providers}

\* A new deployment, and a fallback if an earlier attempt used another one
Pick(r, d) ==
    LET falls == deployment[r] \notin {Nil, d}
    IN  /\ pc[r] = "pick"
        /\ d \in Routable
        /\ deployment' = [deployment EXCEPT ![r] = d]
        /\ pending' = [pending EXCEPT ![r] = falls]
        /\ fallbacks' = IF falls THEN Add(fallbacks, r, 1) ELSE fallbacks
        /\ Goto(r, "lookup")
        /\ UNCHANGED <<providers, permits, active, attempt, prov, ctxDone, hooks,
                       result, sent, verdicts, reported>>

\* PickWithContext fails, which ends a chat and is a failed attempt otherwise.
PickFails(r) ==
    /\ pc[r] = "pick"
    /\ IF KindOf[r] = "chat"
       THEN Finish(r, "unavailable")
       ELSE Goto(r, "failed") /\ UNCHANGED <<hooks, result>>
    /\ UNCHANGED <<providers, permits, active, locals, ctxDone, counts>>

\* c.providers is read after the pick; the provider may be gone.
Lookup(r) ==
    /\ pc[r] = "lookup"
    /\ IF ProviderOf[deployment[r]] \in providers
       THEN /\ prov' = [prov EXCEPT ![r] = ProviderOf[deployment[r]]]
            /\ Goto(r, "admit")
            /\ UNCHANGED <<pending, hooks, result, reported>>
       ELSE /\ ResolveFallback(r)
            /\ IF KindOf[r] = "chat"
               THEN Finish(r, "unavailable")
               ELSE Goto(r, "failed") /\ UNCHANGED <<hooks, result>>
            /\ UNCHANGED prov
    /\ UNCHANGED <<providers, permits, active, attempt, deployment, ctxDone, sent,
                   verdicts, fallbacks>>

-----------------------------------------------------------------------------
\* One attempt

\* The attempt has failed; the loop goes on if the error is retryable.
AttemptFailed(r, error) ==
    /\ ResolveFallback(r)
    /\ IF Retryable(r, error)
       THEN Goto(r, "failed") /\ UNCHANGED <<hooks, result>>
       ELSE Finish(r, error)

\* validatePricing fails, or acquireDeployment does: the context is done, or
\* the provider has no permit left.  An embedding first asks the provider
\* whether it supports them.
NotAdmitted(r, error) ==
    /\ pc[r] = "admit"
    /\ \/ error = "unpriced"
       \/ error = "unsupported" /\ KindOf[r] = "embedding"
       \/ error = "ctx" /\ r \in ctxDone
       \/ /\ error = "busy" /\ r \notin ctxDone
          /\ MaxConcurrent > 0 /\ permits[ProviderOf[deployment[r]]] >= MaxConcurrent
    /\ AttemptFailed(r, error)
    /\ UNCHANGED <<providers, permits, active, attempt, deployment, prov, ctxDone,
                   sent, verdicts, fallbacks>>

\* The permits after r takes (n = 1) or returns (n = -1) one
Permits(r, n) ==
    IF MaxConcurrent = 0 THEN permits ELSE Add(permits, ProviderOf[deployment[r]], n)

\* acquireDeployment
AcquireDeployment(r) ==
    /\ pc[r] = "admit" /\ r \notin ctxDone
    /\ MaxConcurrent > 0 => permits[ProviderOf[deployment[r]]] < MaxConcurrent
    /\ permits' = Permits(r, 1)
    /\ Goto(r, "acquired")
    /\ UNCHANGED <<providers, active, locals, ctxDone, hooks, result, counts>>

\* Mutant: the permit is kept.
BuildFails_KeepsPermit(r) ==
    /\ pc[r] = "acquired"
    /\ AttemptFailed(r, "build")
    /\ UNCHANGED <<providers, permits, active, attempt, deployment, prov, ctxDone,
                   sent, verdicts, fallbacks>>

\* BuildRequest fails, which ends a stream and is a failed attempt otherwise.
BuildFails(r) ==
    /\ pc[r] = "acquired"
    /\ permits' = Permits(r, -1)
    /\ IF KindOf[r] = "stream"
       THEN ResolveFallback(r) /\ ReturnUnhooked(r, "build")
       ELSE AttemptFailed(r, "build")
    /\ UNCHANGED <<providers, active, attempt, deployment, prov, ctxDone, sent,
                   verdicts, fallbacks>>

\* ReportRequestStart and the round trip
Send(r) ==
    /\ pc[r] = "acquired"
    /\ active' = Add(active, deployment[r], 1)
    /\ sent' = Add(sent, r, 1)
    /\ Goto(r, "sending")
    /\ UNCHANGED <<providers, permits, locals, ctxDone, hooks, result, verdicts,
                   fallbacks, reported>>

\* Mutant: a failed round trip is not reported to the router.
UpstreamFails_Silent(r, error) ==
    /\ pc[r] = "sending"
    /\ error = "parse" => KindOf[r] # "stream"
    /\ verdicts' = IF error = "net" THEN verdicts ELSE Add(verdicts, r, 1)
    /\ active' = Add(active, deployment[r], -1)
    /\ permits' = Permits(r, -1)
    /\ AttemptFailed(r, error)
    /\ UNCHANGED <<providers, attempt, deployment, prov, ctxDone, sent, fallbacks>>

\* The upstream fails.  The permit is returned and ReportRequestEnd called on
\* every path; they concern different locks and are one step here.
UpstreamFails(r, error) ==
    /\ pc[r] = "sending"
    /\ error = "parse" => KindOf[r] # "stream"
    /\ verdicts' = Add(verdicts, r, 1)
    /\ active' = Add(active, deployment[r], -1)
    /\ permits' = Permits(r, -1)
    /\ AttemptFailed(r, error)
    /\ UNCHANGED <<providers, attempt, deployment, prov, ctxDone, sent, fallbacks>>

\* The upstream answers; a pending fallback has succeeded.
UpstreamAnswers(r) ==
    /\ pc[r] = "sending"
    /\ ResolveFallback(r)
    /\ IF KindOf[r] = "stream"
       THEN Goto(r, "reading") /\ UNCHANGED <<permits, active, hooks, result, verdicts>>
       ELSE /\ verdicts' = Add(verdicts, r, 1)
            /\ active' = Add(active, deployment[r], -1)
            /\ permits' = Permits(r, -1)
            /\ Finish(r, "ok")
    /\ UNCHANGED <<providers, attempt, deployment, prov, ctxDone, sent, fallbacks>>

\* The StreamReader reaches its end, or is closed before, and then the router
\* hears no verdict: see module StreamReader.
StreamEnds(r, outcome) ==
    /\ pc[r] = "reading"
    /\ verdicts' = IF outcome = "closed" THEN verdicts ELSE Add(verdicts, r, 1)
    /\ active' = Add(active, deployment[r], -1)
    /\ permits' = Permits(r, -1)
    /\ hooks' = [hooks EXCEPT ![r] = "post"]
    /\ Return(r, outcome)
    /\ UNCHANGED <<providers, locals, ctxDone, sent, fallbacks, reported>>

-----------------------------------------------------------------------------
\* The loop

\* executeWithRetry picks again after a retryable error, and falls back when
\* the router offers another deployment.
ChatFallback(r, d) ==
    /\ pc[r] = "failed" /\ KindOf[r] = "chat"
    /\ FallbackEnabled /\ attempt[r] < RetryCount
    /\ d \in Routable /\ d # deployment[r]
    /\ deployment' = [deployment EXCEPT ![r] = d]
    /\ pending' = [pending EXCEPT ![r] = TRUE]
    /\ fallbacks' = Add(fallbacks, r, 1)
    /\ Goto(r, "switch")
    /\ UNCHANGED <<providers, permits, active, attempt, prov, ctxDone, hooks,
                   result, sent, verdicts, reported>>

\* ... and keeps the old provider if that of the new deployment is gone.
ChatSwitch(r) ==
    LET new == ProviderOf[deployment[r]]
    IN  /\ pc[r] = "switch"
        /\ prov' = IF new \in providers THEN [prov EXCEPT ![r] = new] ELSE prov
        /\ attempt' = Add(attempt, r, 1)
        /\ Goto(r, "backoff")
        /\ UNCHANGED <<providers, permits, active, deployment, pending, ctxDone,
                       hooks, result, counts>>

\* The next attempt; a chat has found no other deployment or does not look.
RetryAgain(r) ==
    /\ pc[r] = "failed" /\ attempt[r] < RetryCount
    /\ attempt' = Add(attempt, r, 1)
    /\ Goto(r, "backoff")
    /\ UNCHANGED <<providers, permits, active, deployment, prov, pending, ctxDone,
                   hooks, result, counts>>

\* Mutant: the loop waits for an attempt it never makes.
GiveUp_OffByOne(r) ==
    /\ pc[r] = "failed" /\ attempt[r] > RetryCount
    /\ Finish(r, "exhausted")
    /\ UNCHANGED <<providers, permits, active, locals, ctxDone, counts>>

GiveUp(r) ==
    /\ pc[r] = "failed" /\ attempt[r] >= RetryCount
    /\ Finish(r, "exhausted")
    /\ UNCHANGED <<providers, permits, active, locals, ctxDone, counts>>

\* The backoff has passed.  A chat has its deployment; the others pick one if
\* fallback is enabled or they have none yet.
BackoffEnds(r) ==
    /\ pc[r] = "backoff"
    /\ Goto(r, IF KindOf[r] = "chat" THEN "admit"
               ELSE IF FallbackEnabled \/ deployment[r] = Nil THEN "pick"
               ELSE "lookup")
    /\ UNCHANGED <<providers, permits, active, locals, ctxDone, hooks, result, counts>>

\* The context is done first, or as well.
BackoffCancelled(r) ==
    /\ pc[r] = "backoff" /\ r \in ctxDone
    /\ Finish(r, "cancelled")
    /\ UNCHANGED <<providers, permits, active, locals, ctxDone, counts>>

Cancel(r) ==
    /\ MayCancel /\ pc[r] # "done" /\ r \notin ctxDone
    /\ ctxDone' = ctxDone \cup {r}
    /\ UNCHANGED <<providers, permits, active, pc, locals, hooks, result, counts>>

\* RemoveProvider takes the provider's deployments from the router as well.
RemoveProvider(p) ==
    /\ p \in providers
    /\ providers' = providers \ {p}
    /\ UNCHANGED <<permits, active, pc, locals, ctxDone, hooks, result, counts>>

\* The steps a call takes by itself
Step(r) ==
    \/ Start(r) \/ RateLimited(r) \/ CacheHit(r) \/ Admit(r)
    \/ \E outcome \in {"ok", "refused"} : ShortCircuit(r, outcome)
    \/ \E d \in Deployments : Pick(r, d) \/ ChatFallback(r, d)
    \/ PickFails(r) \/ Lookup(r) \/ ChatSwitch(r)
    \/ \E error \in {"unpriced", "unsupported", "ctx", "busy"} : NotAdmitted(r, error)
    \/ AcquireDeployment(r) \/ BuildFails(r) \/ Send(r)
    \/ \E error \in Failures : UpstreamFails(r, error)
    \/ UpstreamAnswers(r)
    \/ \E outcome \in {"ok", "closed"} : StreamEnds(r, outcome)
    \/ RetryAgain(r) \/ GiveUp(r) \/ BackoffEnds(r) \/ BackoffCancelled(r)

Next ==
    /\ \/ \E r \in Requests : Step(r) \/ Cancel(r)
       \/ \E p \in Removable : RemoveProvider(p)
    /\ UNCHANGED set

Spec == Init /\ [][Next]_vars

\* Goroutines are scheduled, backoffs pass, the HTTP clients time out and a
\* stream is read to its end or closed.
FairSpec == Spec /\ \A r \in Requests : WF_vars(Step(r) /\ UNCHANGED set)

-----------------------------------------------------------------------------

\* The calls that hold a permit of provider p, and those that the router was
\* told have started on deployment d
Using(p) == {r \in Requests : /\ pc[r] \in {"acquired", "sending", "reading"}
                              /\ ProviderOf[deployment[r]] = p}
Serving(d) == {r \in Requests : /\ pc[r] \in {"sending", "reading"}
                                /\ deployment[r] = d}

\* Whatever way an attempt ends (no permit, no request, no answer, an error
\* status, an unreadable answer, cancellation), its permit and its place among
\* the active requests of the deployment are given back exactly once, and no
\* provider serves more calls at a time than its MaxConcurrent.
ResourcesAccounted ==
    /\ \A d \in Deployments : active[d] = Cardinality(Serving(d))
    /\ MaxConcurrent > 0 =>
           \A p \in Providers : permits[p] = Cardinality(Using(p))
                                /\ permits[p] <= MaxConcurrent

\* The router hears a verdict on every upstream request exactly once, except on
\* a stream closed early, and a call gives up on a retryable error only after
\* the configured number of attempts.
EveryAttemptCounts ==
    \A r \in Requests :
        /\ pc[r] = "done" =>
               verdicts[r] = sent[r] - (IF result[r] = "closed" THEN 1 ELSE 0)
        /\ result[r] = "exhausted" => attempt[r] = RetryCount
        /\ sent[r] <= attempt[r] + 1

\* A fallback's outcome is reported once, after it began, and before the call
\* returns unless the call was cancelled.
FallbacksReported ==
    \A r \in Requests :
        /\ reported[r] <= fallbacks[r]
        /\ pc[r] = "done" /\ r \notin ctxDone => reported[r] = fallbacks[r]

\* Every call returns, whatever the plugins, the router, the providers and the
\* administrator do: the loops of attempts are bounded, and a provider without a
\* free permit is a failed attempt, never a wait.
EveryCallReturns == \A r \in Requests : (pc[r] = "start") ~> (pc[r] = "done")

\* What is reported of a call, whichever way its attempts end: a verdict on each upstream request, the
\* attempts that were configured before it gives up, and an outcome for each fallback.
OutcomesReported == EveryAttemptCounts /\ FallbacksReported

=============================================================================
