---------------------------- MODULE StreamReader ----------------------------
(***************************************************************************)
(* The streaming response reader of stream.go: Recv, the recovery that     *)
(* Recv starts when the connection breaks in mid-stream, and Close.        *)
(*                                                                         *)
(* One goroutine (the consumer) calls Recv; Close is called by the         *)
(* consumer, or by any other goroutine when ConcurrentClose holds.  Recv   *)
(* keeps s.mu from its first line to its return, so the stretch between    *)
(* two places where it lets go of the lock is one step; tryRecover runs    *)
(* mostly without the lock and is a step per critical section.             *)
(*                                                                         *)
(* tryRecover calls Recv recursively.  The levels share the struct, and a  *)
(* level that gives up has exhausted the retries (or the context) for all  *)
(* levels above it, whose own finalize and close then do nothing; so one   *)
(* pc stands for the whole stack.                                          *)
(*                                                                         *)
(* Content is a text of TextLen runes that every provider generates alike. *)
(***************************************************************************)
EXTENDS Integers, Sequences, FiniteSets

CONSTANTS
    Deployments,        \* what the router may pick
    NoDeployment,       \* a nil deployment or release function
    Settings            \* the settings of a stream that are considered

ASSUME DeploymentsAssumption == NoDeployment \notin Deployments
ASSUME SettingsAssumption ==
    Settings \subseteq [TextLen : Nat, MaxRetries : Nat, MaxCloses : Nat,
                        RecoveryMode : {"off", "append", "retry"},
                        FromPlugin : BOOLEAN, PluginMayDrop : BOOLEAN,
                        ConcurrentClose : BOOLEAN]

VARIABLES
    set,    \* the settings of this stream
    \* the fields of StreamReader
    closed, seenDone, requestEnded, deployment, release, body,
    retryCount, skipRemaining, accumulatedRunes, postHooks,
    \* the connection being read: the next rune it sends
    nextRune,
    \* the consumer goroutine: where it is, and tryRecover's deployment
    pc, picked,
    \* what the callers and the router see
    ctxDone,    \* s.ctx is done
    closes,     \* calls of Close so far
    result,     \* what the latest Recv returned
    delivered,  \* the runes returned to the consumer, in order
    requests,   \* upstream requests begun so far; also names their bodies
    openBodies, \* response bodies not closed yet
    active,     \* ReportRequestStart calls minus ReportRequestEnd calls
    held,       \* permits acquired minus permits released
    verdicts    \* ReportSuccess and ReportFailure calls

fields == <<closed, seenDone, requestEnded, deployment, release, body,
            retryCount, skipRemaining, accumulatedRunes, postHooks>>
accounts == <<requests, openBodies, active, held, verdicts>>
vars == <<set, fields, nextRune, pc, picked, ctxDone, closes, result, delivered,
          accounts>>

TextLen == set.TextLen                  \* runes in the whole answer
MaxRetries == set.MaxRetries            \* client.config.RetryCount
RecoveryMode == set.RecoveryMode        \* client.config.StreamRecoveryMode
FromPlugin == set.FromPlugin            \* made by newStreamReaderFromChannel
PluginMayDrop == set.PluginMayDrop      \* OnStreamChunk may swallow a chunk
ConcurrentClose == set.ConcurrentClose  \* Close may run during a recovery
MaxCloses == set.MaxCloses              \* bound: how often Close is called

Max2(a, b) == IF a >= b THEN a ELSE b

\* The consumer is about to enter Recv, or has just re-entered it from
\* tryRecover.
Receiving == pc \in {"idle", "nested"}

\* newStreamReader is called with the permit and the request of the attempt
\* that got the response; newStreamReaderFromChannel has neither.
Init ==
    /\ set \in Settings
    /\ closed = FALSE /\ seenDone = FALSE /\ requestEnded = FALSE
    /\ deployment \in IF FromPlugin THEN {NoDeployment} ELSE Deployments
    /\ release = deployment
    /\ body = IF FromPlugin THEN 0 ELSE 1
    /\ retryCount = 0 /\ skipRemaining = 0 /\ accumulatedRunes = 0
    /\ postHooks = "none"
    /\ nextRune = 1
    /\ pc = "idle" /\ picked = NoDeployment
    /\ ctxDone = FALSE /\ closes = 0
    /\ result = "none" /\ delivered = <<>>
    /\ requests = body
    /\ openBodies = {body} \ {0}
    /\ active = [d \in Deployments |-> IF d = deployment THEN 1 ELSE 0]
    /\ held = active
    /\ verdicts = 0

-----------------------------------------------------------------------------
\* Helpers called with s.mu held.

Decrement(count, d) ==
    IF d = NoDeployment THEN count ELSE [count EXCEPT ![d] = @ - 1]

\* endRequest
EndRequest ==
    /\ active' = IF requestEnded THEN active ELSE Decrement(active, deployment)
    /\ held' = IF requestEnded THEN held ELSE Decrement(held, release)
    /\ release' = IF requestEnded THEN release ELSE NoDeployment
    /\ requestEnded' = TRUE

\* closeBody, but for the flag s.closed
CloseBody == openBodies' = IF closed THEN openBodies ELSE openBodies \ {body}

\* Mutant: close marks the reader closed without ending the request.
CloseReader_NoEndRequest ==
    /\ UNCHANGED <<active, held, release, requestEnded>>
    /\ CloseBody
    /\ closed' = TRUE

\* close
CloseReader ==
    /\ IF closed THEN UNCHANGED <<active, held, release, requestEnded>>
                 ELSE EndRequest
    /\ CloseBody
    /\ closed' = TRUE

\* finalizeStreamLocked: the post hooks see the error of the first call only.
Finalize(err) == postHooks' = IF postHooks = "none" THEN err ELSE postHooks

\* reportFailure, or the ReportSuccess of finish; without a router there is
\* nothing to report to.
ReportVerdict ==
    verdicts' = IF deployment = NoDeployment THEN verdicts ELSE verdicts + 1

\* finish, for a reader that is not closed
Finish ==
    /\ ReportVerdict
    /\ Finalize("nil")
    /\ CloseReader

CanRecover ==
    /\ RecoveryMode # "off"
    /\ retryCount < MaxRetries
    /\ ~ctxDone

\* Mutant: one rune too few is trimmed.
TrimLeadingRunes_OffByOne(value, count) ==
    [rest |-> SubSeq(value, Max2(1, count), Len(value)),
     remaining |-> Max2(0, count - Len(value))]

\* trimLeadingRunes
TrimLeadingRunes(value, count) ==
    [rest |-> SubSeq(value, count + 1, Len(value)),
     remaining |-> Max2(0, count - Len(value))]

\* Recv returns to the consumer; every enclosing tryRecover returns with it.
Return(r) == pc' = "idle" /\ result' = r

-----------------------------------------------------------------------------
\* Recv

\* io.EOF ends a Recv of the consumer, but is just another failed attempt to
\* the recovery loop that waits for a nested Recv.
ReturnEOF ==
    IF pc = "idle" THEN Return("eof") ELSE pc' = "failed" /\ UNCHANGED result

RecvClosed ==
    /\ Receiving /\ closed
    /\ ReturnEOF
    /\ UNCHANGED <<fields, nextRune, picked, ctxDone, closes, delivered, accounts>>

Skip == IF RecoveryMode = "retry" THEN skipRemaining ELSE 0

\* The scanner loop can pass over the chunks before rune n without returning:
\* they repeat the prefix that is being skipped, or a plugin drops them.
PassesOver(n) == n \in nextRune..(nextRune + Skip) \/ PluginMayDrop

\* Recv returns the chunk of runes first..last, without the part of it that
\* the consumer already has.
RecvChunk(first, last) ==
    LET skip == Max2(0, Skip - (first - nextRune))
        chunk == [i \in 1..(last - first + 1) |-> first + i - 1]
        trimmed == TrimLeadingRunes(chunk, skip)
    IN  /\ Receiving /\ ~closed
        /\ first >= nextRune /\ PassesOver(first)
        /\ trimmed.rest # <<>>
        /\ skipRemaining' = trimmed.remaining
        /\ accumulatedRunes' = accumulatedRunes + Len(trimmed.rest)
        /\ delivered' = delivered \o trimmed.rest
        /\ nextRune' = last + 1
        /\ Return("chunk")
        /\ UNCHANGED <<closed, seenDone, requestEnded, deployment, release, body,
                       retryCount, postHooks, picked, ctxDone, closes, accounts>>

\* The whole text has been sent and the end marker arrives; a plugin closes
\* its channel when it likes.
RecvDone ==
    /\ Receiving /\ ~closed
    /\ PassesOver(TextLen + 1) \/ FromPlugin
    /\ seenDone' = TRUE
    /\ Finish
    /\ ReturnEOF
    /\ UNCHANGED <<deployment, body, retryCount, skipRemaining, accumulatedRunes,
                   nextRune, picked, ctxDone, closes, delivered, requests>>

\* The connection ends without a marker after an earlier connection had one.
RecvEnd ==
    /\ Receiving /\ ~closed /\ ~FromPlugin
    /\ seenDone
    /\ Finish
    /\ ReturnEOF
    /\ UNCHANGED <<seenDone, deployment, body, retryCount, skipRemaining,
                   accumulatedRunes, nextRune, picked, ctxDone, closes,
                   delivered, requests>>

\* The condition of the recovery loops, and what follows them.
RecoverOrGiveUp ==
    IF CanRecover
    THEN /\ pc' = "recover"
         /\ UNCHANGED <<postHooks, active, held, release, requestEnded,
                        openBodies, closed, result>>
    ELSE /\ Finalize("error")
         /\ CloseReader
         /\ Return("error")

\* Mutant: a broken connection is not reported.
RecvBroken_NotReported ==
    /\ Receiving /\ ~closed /\ ~FromPlugin
    /\ RecoverOrGiveUp
    /\ UNCHANGED <<seenDone, deployment, body, retryCount, skipRemaining,
                   accumulatedRunes, nextRune, picked, ctxDone, closes,
                   delivered, requests, verdicts>>

\* The scanner fails, or the connection ends before the end marker.
RecvBroken ==
    /\ Receiving /\ ~closed /\ ~FromPlugin
    /\ ReportVerdict
    /\ RecoverOrGiveUp
    /\ UNCHANGED <<seenDone, deployment, body, retryCount, skipRemaining,
                   accumulatedRunes, nextRune, picked, ctxDone, closes,
                   delivered, requests>>

\* tryRecover has returned an error: the loop around it takes stock.
RecoverAgain ==
    /\ pc = "failed"
    /\ RecoverOrGiveUp
    /\ UNCHANGED <<seenDone, deployment, body, retryCount, skipRemaining,
                   accumulatedRunes, nextRune, picked, ctxDone, closes,
                   delivered, requests, verdicts>>

-----------------------------------------------------------------------------
\* tryRecover

\* Mutant: attempts are not counted.
RecoverBegin_NotCounted ==
    /\ pc = "recover"
    /\ EndRequest
    /\ CloseBody
    /\ closed' = FALSE
    /\ skipRemaining' =
           IF RecoveryMode = "retry" THEN accumulatedRunes ELSE skipRemaining
    /\ pc' = "backoff"
    /\ UNCHANGED <<seenDone, deployment, body, retryCount, accumulatedRunes, postHooks,
                   nextRune, picked, ctxDone, closes, result, delivered, requests,
                   verdicts>>

\* Its first critical section drops the broken connection and reopens the
\* reader.
RecoverBegin ==
    /\ pc = "recover"
    /\ EndRequest
    /\ CloseBody
    /\ closed' = FALSE
    /\ retryCount' = retryCount + 1
    /\ skipRemaining' =
           IF RecoveryMode = "retry" THEN accumulatedRunes ELSE skipRemaining
    /\ pc' = "backoff"
    /\ UNCHANGED <<seenDone, deployment, body, accumulatedRunes, postHooks, nextRune,
                   picked, ctxDone, closes, result, delivered, requests, verdicts>>

\* The context ends the backoff, no deployment can be picked, its provider is
\* gone, the request cannot be built or no permit is free.
RecoverAbandon ==
    /\ pc = "backoff"
    /\ pc' = "failed"
    /\ UNCHANGED <<fields, nextRune, picked, ctxDone, closes, result, delivered,
                   accounts>>

\* acquireDeployment, which refuses once the context is done, and
\* ReportRequestStart
RecoverAcquire(d) ==
    /\ pc = "backoff"
    /\ ~ctxDone
    /\ picked' = d
    /\ held' = [held EXCEPT ![d] = @ + 1]
    /\ active' = [active EXCEPT ![d] = @ + 1]
    /\ requests' = requests + 1
    /\ pc' = "acquired"
    /\ UNCHANGED <<fields, nextRune, ctxDone, closes, result, delivered,
                   openBodies, verdicts>>

\* The reader learns of the new request, but not yet of its deployment.
RecoverRegister ==
    /\ pc = "acquired"
    /\ requestEnded' = FALSE
    /\ release' = picked
    /\ pc' = "sent"
    /\ UNCHANGED <<closed, seenDone, deployment, body, retryCount, skipRemaining,
                   accumulatedRunes, postHooks, nextRune, picked, ctxDone, closes,
                   result, delivered, accounts>>

\* The request fails, or is answered with a status of 400 or more.
RecoverRejected ==
    /\ pc = "sent"
    /\ held' = Decrement(held, picked)
    /\ active' = Decrement(active, picked)
    /\ verdicts' = verdicts + 1
    /\ pc' = "rejected"
    /\ UNCHANGED <<fields, nextRune, picked, ctxDone, closes, result, delivered,
                   requests, openBodies>>

\* ... and the reader forgets it.
RecoverForget ==
    /\ pc = "rejected"
    /\ requestEnded' = TRUE
    /\ release' = NoDeployment
    /\ pc' = "failed"
    /\ UNCHANGED <<closed, seenDone, deployment, body, retryCount, skipRemaining,
                   accumulatedRunes, postHooks, nextRune, picked, ctxDone, closes,
                   result, delivered, accounts>>

\* The response is installed.  In append mode the provider was given the text
\* so far and continues it; otherwise it starts again.
RecoverInstall ==
    /\ pc = "sent"
    /\ body' = requests
    /\ openBodies' = openBodies \cup {requests}
    /\ deployment' = picked
    /\ nextRune' = IF RecoveryMode = "append" THEN accumulatedRunes + 1 ELSE 1
    /\ pc' = "nested"
    /\ UNCHANGED <<closed, seenDone, requestEnded, release, retryCount, skipRemaining,
                   accumulatedRunes, postHooks, picked, ctxDone, closes, result,
                   delivered, requests, active, held, verdicts>>

-----------------------------------------------------------------------------
\* Close finalizes with the context's error, or, before the end of the stream,
\* with io.ErrUnexpectedEOF.
Close ==
    /\ closes < MaxCloses
    /\ ConcurrentClose \/ pc = "idle"
    /\ closes' = closes + 1
    /\ Finalize(IF ctxDone \/ ~seenDone THEN "error" ELSE "nil")
    /\ CloseReader
    /\ UNCHANGED <<seenDone, deployment, body, retryCount, skipRemaining,
                   accumulatedRunes, nextRune, pc, picked, ctxDone, result,
                   delivered, requests, verdicts>>

\* The request's context is cancelled or its deadline passes.
CtxDone ==
    /\ ~ctxDone
    /\ ctxDone' = TRUE
    /\ UNCHANGED <<fields, nextRune, pc, picked, closes, result, delivered, accounts>>

\* The steps of the consumer once it is inside Recv.
Recovering ==
    \/ RecoverAgain \/ RecoverBegin \/ RecoverAbandon
    \/ \E d \in Deployments : RecoverAcquire(d)
    \/ RecoverRegister \/ RecoverRejected \/ RecoverForget \/ RecoverInstall

Recv ==
    \/ RecvClosed \/ RecvDone \/ RecvEnd \/ RecvBroken
    \/ \E first, last \in 1..TextLen : RecvChunk(first, last)

Next ==
    /\ Recv \/ Recovering \/ Close \/ CtxDone
    /\ UNCHANGED set

Spec == Init /\ [][Next]_vars

\* A goroutine inside Recv is scheduled, upstream requests are answered or time
\* out, and a connection sends something or breaks.
FairSpec ==
    Spec /\ WF_vars((Recovering \/ (pc = "nested" /\ Recv)) /\ UNCHANGED set)

-----------------------------------------------------------------------------

\* However often the connection breaks, and however the providers cut the text
\* into chunks, Recv hands out the text from its start without a gap or a
\* repetition, as long as no plugin drops chunks: retry mode skips exactly what
\* was delivered, append mode continues after it.
DeliveredInOrder ==
    ~PluginMayDrop => delivered = [i \in 1..Len(delivered) |-> i]

\* The reader holds no response body, no request the router counts as active,
\* and no permit.
HoldsNothing ==
    /\ openBodies = {}
    /\ \A d \in Deployments : active[d] = 0 /\ held[d] = 0

\* When the consumer, the only user of the stream, has seen its end or an error,
\* or has closed it, nothing is left behind: every ReportRequestStart, permit
\* and body of every recovery, rejected or installed, has been given back once.
EverythingReleased == ~ConcurrentClose /\ pc = "idle" /\ closed => HoldsNothing

\* The router hears at most one verdict, success or failure, on each upstream
\* request, and exactly one on each when the consumer sees the stream end
\* without closing it.
OneVerdictPerRequest ==
    /\ verdicts <= requests
    /\ pc = "idle" /\ result \in {"eof", "error"} /\ closes = 0
           => verdicts = requests

\* When the stream is over its post hooks have run, and unless the consumer
\* closed it early they were told of an error exactly when no end marker was
\* read, however many recoveries came before and after.
HooksMatchEnd ==
    pc = "idle" /\ closed =>
        /\ postHooks # "none"
        /\ closes = 0 => (postHooks = "nil" <=> seenDone)

\* Every call of Recv returns: the recursion of Recv and tryRecover is bounded
\* by the retries, also when Close runs meanwhile.
RecvReturns == (pc # "idle") ~> (pc = "idle")

\* What the router and the plugins are told of a stream, however often it was recovered: one verdict
\* on each upstream request, and the end that the consumer saw.
VerdictsMatchEnd == OneVerdictPerRequest /\ HooksMatchEnd

=============================================================================
