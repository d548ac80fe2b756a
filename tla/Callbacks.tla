----------------------------- MODULE Callbacks -----------------------------
(***************************************************************************)
(* The observability callbacks of internal/observability: the callback     *)
(* manager, the four integrations that queue what they are told and send   *)
(* it in batches (Langfuse, Datadog logs, Datadog LLM observability, S3),  *)
(* the ones that record at once (Slack, Prometheus, OpenTelemetry spans,   *)
(* logs and metrics), and the manager's Shutdown.                          *)
(*                                                                         *)
(* A handler calls the manager, the manager calls every registered         *)
(* callback in turn (logging[r] is where request r has got to), and each   *)
(* queueing callback takes its own lock for each entry.  A batch is taken  *)
(* off the queue under the lock and marshalled and sent after it has been  *)
(* released, by the flush loop, by a goroutine started when the queue is   *)
(* full, or by Shutdown.                                                   *)
(***************************************************************************)
EXTENDS Integers, Sequences, FiniteSets

(* What the parts of the gateway process share: the requests, the          *)
(* deployment, the failures of services outside it and its shutting down.  *)

CONSTANTS
  Requests,   \* the requests the gateway is sent
  Admins,     \* the requests to the MCP management endpoints
  None,       \* "nil"
  Settings    \* the deployments considered; see the MC module

VARIABLES
  set,        \* the deployment (never changes)
  faults,     \* the failures of external services so far
  down        \* how far the process has got with shutting down

Seqs(f) == {f[i] : i \in DOMAIN f}

\* The process has neither exited nor crashed.
Running == down.phase \notin {"exited", "crashed"}

\* An external call either succeeds or uses up one of the allowed failures.
Succeeds(ok) ==
  /\ ~ ok => faults < set.MaxFaults
  /\ faults' = IF ok THEN faults ELSE faults + 1

-----------------------------------------------------------------------------
(* The state of the callbacks.                                             *)

VARIABLES
  now,        \* the clock
  memory,     \* memory[a]: the request whose messages are in array a
  payload,    \* payload[r]: r's StandardLoggingPayload
  logging,    \* logging[r]: the manager calls r is in the middle of
  queue,      \* queue[s]: the entries callback s has not sent yet
  spawned,    \* spawned[s]: the flush goroutines that have not run yet
  batches,    \* the batches taken off a queue and not yet answered for
  loop,       \* loop[s]: the state of the flush loop of s
  stop,       \* the callbacks whose stopCh is closed
  delivered,  \* delivered[s]: the entries the service accepted
  lost,       \* lost[s]: the entries of batches the service did not accept
  gauge,      \* gauge[l]: the active_requests gauge with labels l
  slack,      \* Slack's error count and time of last alert
  alerts,     \* history: the error alerts Slack was sent
  span,       \* span[r]: the status of r's trace span
  heard       \* history: heard[s][r], what callback s was told of r

obsVars == <<now, memory, payload, logging, queue, spawned, batches, loop,
             stop, delivered, lost, gauge, slack, alerts, span, heard>>

Batchers == {"langfuse", "datadog", "datadog_llm_obs", "s3"}

Direct == {"slack", "prometheus", "otel", "otel_logs", "otel_metrics"}

\* What makes up the labels of active_requests that can differ between two
\* calls for one request: the model and the provider of the payload.
Labels == {"asked", "answered"} \X {"", "llmux", "provider"}

----------------------------------------------------------------------------
(* The callback manager.                                                   *)

Registered == Seqs(set.Callbacks)

Idle == [calls |-> <<>>, at |-> 1, part |-> 1]

\* r asks the manager for the calls in turn.
Observed(calls) ==
  IF set.Callbacks = <<>> THEN Idle ELSE [Idle EXCEPT !.calls = calls]

Quiet(r) == logging[r].calls = <<>>

Call(r) == Head(logging[r].calls)

Calling(r, s) == ~ Quiet(r) /\ set.Callbacks[logging[r].at] = s

At(r, s) == Running /\ Calling(r, s)

\* The loops over the callbacks in LogPreAPICall ... LogFallbackEvent: an
\* error of one callback is logged and the next one is called all the same.
\* A callback that queues two entries takes its lock twice.
Onward(lg, parts) ==
  IF lg.part < parts THEN [lg EXCEPT !.part = @ + 1]
  ELSE IF lg.at < Len(set.Callbacks)
  THEN [lg EXCEPT !.at = @ + 1, !.part = 1]
  ELSE [lg EXCEPT !.calls = Tail(@), !.at = 1, !.part = 1]

Advance(r, s, parts) ==
  /\ logging' = [logging EXCEPT ![r] = Onward(@, parts)]
  /\ heard' = [heard EXCEPT ![s][r] =
                 IF logging[r].part < parts THEN @ ELSE Append(@, Call(r))]

Verdicts == {"success", "failure"}

----------------------------------------------------------------------------
(* The entries each queueing callback makes of a call.  An entry whose ref *)
(* is an array is marshalled with whatever that array holds when it is     *)
(* sent; text is what was marshalled when it was queued.                   *)

Entry(r, body, ref, text) ==
  [req |-> r, call |-> Call(r), body |-> body, ref |-> ref, text |-> text]

\* The messages of the payload; FilterPayload copies the payload but its
\* filterContent returns a slice of chat messages or an embedding input as it
\* is.
FilterPayload(r) == payload[r].messages

LangfuseTrace(r) ==
  Entry(r, "trace", IF set.MaskInput THEN None ELSE payload[r].messages, None)

LangfuseGeneration(r) ==
  << Entry(r, "generation",
           IF set.MaskInput THEN None ELSE FilterPayload(r), None),
     Entry(r, "update", None, None) >>

LangfuseEntries(r) ==
  CASE Call(r) = "pre" -> <<LangfuseTrace(r)>>
    [] Call(r) \in Verdicts -> LangfuseGeneration(r)
    [] OTHER -> <<>>

\* Datadog's createPayload marshals the messages before the entry is queued.
DatadogMessage(r) ==
  Entry(r, "log", None,
        IF set.MaskInput THEN None ELSE memory[FilterPayload(r)])

DatadogEntries(r) ==
  CASE Call(r) \in Verdicts -> <<DatadogMessage(r)>>
    [] Call(r) = "fallback" -> <<Entry(r, "log", None, None)>>
    [] OTHER -> <<>>

\* createSpan: convertMessages knows maps, and chat messages are structs, so
\* the span has no input.
CreateSpan(r) == Entry(r, "span", None, None)

DDLLMObsEntries(r) ==
  IF Call(r) \in Verdicts \cup {"fallback"} THEN <<CreateSpan(r)>> ELSE <<>>

\* payloadToEntry takes no messages.
PayloadToEntry(r) == Entry(r, "entry", None, None)

S3Entries(r) ==
  IF Call(r) \in Verdicts \cup {"fallback"} THEN <<PayloadToEntry(r)>> ELSE <<>>

----------------------------------------------------------------------------
(* Queueing, and the three ways to a flush.                                *)

\* A goroutine that flushes is started by every entry that finds the queue
\* full.
Enqueue(s, e) ==
  /\ queue' = [queue EXCEPT ![s] = Append(@, e)]
  /\ spawned' = [spawned EXCEPT ![s] =
                   IF Len(queue[s]) + 1 >= set.BatchSize THEN @ + 1 ELSE @]

BatchLog(r, s, entries) ==
  /\ At(r, s)
  /\ IF entries = <<>> THEN UNCHANGED <<queue, spawned>>
     ELSE Enqueue(s, entries[logging[r].part])
  /\ Advance(r, s, Len(entries))
  /\ UNCHANGED <<set, now, memory, payload, batches, loop, stop, delivered,
                 lost, gauge, slack, alerts, span, faults, down>>

LangfuseLog(r) == BatchLog(r, "langfuse", LangfuseEntries(r))

DatadogLog(r) == BatchLog(r, "datadog", DatadogEntries(r))

DDLLMObsLog(r) == BatchLog(r, "datadog_llm_obs", DDLLMObsEntries(r))

S3Log(r) == BatchLog(r, "s3", S3Entries(r))

Batch(s, by) == [sink |-> s, by |-> by, entries |-> queue[s]]

Emptied_Late(s) == UNCHANGED queue

\* flush leaves an empty queue behind.
Emptied(s) == queue' = [queue EXCEPT ![s] = <<>>]

\* flush up to the unlock: the whole queue becomes a batch.
Take(s, by) == batches' = batches \cup {Batch(s, by)} /\ Emptied(s)

Ticked_Full(s) ==
  /\ Running /\ s \in Registered
  /\ loop[s] = "running"
  /\ Len(queue[s]) >= set.BatchSize
  /\ Take(s, "loop")
  /\ loop' = [loop EXCEPT ![s] = "flushing"]
  /\ UNCHANGED <<set, now, memory, payload, logging, spawned, stop, delivered,
                 lost, gauge, slack, alerts, span, heard, faults, down>>

\* A tick of the flush interval.
Ticked(s) ==
  /\ Running /\ s \in Registered
  /\ loop[s] = "running"
  /\ queue[s] # <<>>
  /\ Take(s, "loop")
  /\ loop' = [loop EXCEPT ![s] = "flushing"]
  /\ UNCHANGED <<set, now, memory, payload, logging, spawned, stop, delivered,
                 lost, gauge, slack, alerts, span, heard, faults, down>>

Spawned(s) ==
  /\ Running /\ spawned[s] > 0
  /\ spawned' = [spawned EXCEPT ![s] = @ - 1]
  /\ IF queue[s] = <<>> THEN UNCHANGED <<batches, queue>> ELSE Take(s, "full")
  /\ UNCHANGED <<set, now, memory, payload, logging, loop, stop, delivered,
                 lost, gauge, slack, alerts, span, heard, faults, down>>

\* The loop sees stopCh closed between two flushes.
LoopStops(s) ==
  /\ Running /\ s \in stop
  /\ loop[s] = "running"
  /\ loop' = [loop EXCEPT ![s] = "stopped"]
  /\ UNCHANGED <<set, now, memory, payload, logging, queue, spawned, batches,
                 stop, delivered, lost, gauge, slack, alerts, span, heard,
                 faults, down>>

LangfuseFlush == Ticked("langfuse") \/ Spawned("langfuse") \/ LoopStops("langfuse")

DatadogFlush == Ticked("datadog") \/ Spawned("datadog") \/ LoopStops("datadog")

DDLLMObsFlush ==
  \/ Ticked("datadog_llm_obs")
  \/ Spawned("datadog_llm_obs")
  \/ LoopStops("datadog_llm_obs")

S3Flush == Ticked("s3") \/ Spawned("s3") \/ LoopStops("s3")

----------------------------------------------------------------------------
(* Sending.  A batch that is not accepted is dropped: nothing puts its     *)
(* entries back.                                                           *)

Answers == {"accepted", "ok", "error"}   \* 202, another 2xx, anything else

LangfuseAccepts(b, answer) == answer # "error"

DatadogAccepts(b, answer) == answer = "accepted"

DDLLMObsAccepts(b, answer) == answer = "accepted"

\* Shutdown uploads under its own context, which may have expired.
S3Accepts(b, answer) == answer # "error" /\ ~ (b.by = "shutdown" /\ down.expired)

Accepts(b, answer) ==
  CASE b.sink = "langfuse" -> LangfuseAccepts(b, answer)
    [] b.sink = "datadog" -> DatadogAccepts(b, answer)
    [] b.sink = "datadog_llm_obs" -> DDLLMObsAccepts(b, answer)
    [] b.sink = "s3" -> S3Accepts(b, answer)

\* What the service receives: the arrays are read when the batch is marshalled.
Marshalled(e) ==
  [e EXCEPT !.text = IF e.ref = None THEN @ ELSE memory[e.ref]]

\* The manager's Shutdown goes on to the next callback, or returns at the
\* first one that fails.
ShutdownGoesOn(ok) ==
  IF ok /\ down.at < Len(set.Callbacks)
  THEN [down EXCEPT !.at = @ + 1, !.step = "begin"]
  ELSE [down EXCEPT !.phase = "closing", !.failed = ~ ok]

Send(b, answer) ==
  LET ok == Accepts(b, answer)
  IN /\ Running /\ b \in batches
     /\ batches' = batches \ {b}
     /\ Succeeds(answer # "error")
     /\ IF ok
        THEN /\ delivered' = [delivered EXCEPT ![b.sink] =
                                @ \cup {Marshalled(e) : e \in Seqs(b.entries)}]
             /\ UNCHANGED lost
        ELSE /\ lost' = [lost EXCEPT ![b.sink] = @ \cup Seqs(b.entries)]
             /\ UNCHANGED delivered
     /\ loop' = [loop EXCEPT ![b.sink] = IF b.by = "loop" THEN "running" ELSE @]
     /\ down' = IF b.by = "shutdown" THEN ShutdownGoesOn(ok) ELSE down
     /\ UNCHANGED <<set, now, memory, payload, logging, queue, spawned, stop,
                    gauge, slack, alerts, span, heard>>

----------------------------------------------------------------------------
(* The callbacks that record at once.                                      *)

DirectLog(r, s) ==
  /\ At(r, s)
  /\ Advance(r, s, 1)
  /\ UNCHANGED <<set, now, memory, payload, queue, spawned, batches, loop, stop,
                 delivered, lost, faults, down>>

MayAlert == slack.last = None \/ now - slack.last >= set.MinErrorInterval

\* A success clears the error count; a failure adds to it and alerts once it
\* has reached the threshold, unless the last alert is too recent.
SlackLog(r) ==
  /\ DirectLog(r, "slack")
  /\ IF Call(r) = "success" THEN slack' = [slack EXCEPT !.errors = 0] /\ UNCHANGED alerts
     ELSE IF Call(r) = "failure" /\ slack.errors + 1 >= set.ErrorThreshold /\ MayAlert
     THEN /\ slack' = [errors |-> 0, last |-> now]
          /\ alerts' = Append(alerts, [at |-> now, count |-> slack.errors + 1])
     ELSE /\ slack' = [slack EXCEPT !.errors =
                         IF Call(r) = "failure" THEN @ + 1 ELSE @]
          /\ UNCHANGED alerts
  /\ UNCHANGED <<gauge, span>>

Label(r) == <<payload[r].model, payload[r].provider>>

PrometheusLog(r) ==
  /\ DirectLog(r, "prometheus")
  /\ gauge' = CASE Call(r) = "pre" -> [gauge EXCEPT ![Label(r)] = @ + 1]
                [] Call(r) = "post" -> [gauge EXCEPT ![Label(r)] = @ - 1]
                [] OTHER -> gauge
  /\ UNCHANGED <<slack, alerts, span>>

\* The span's status is set while it is recording.
OTelLog(r) ==
  /\ DirectLog(r, "otel")
  /\ span' = [span EXCEPT ![r] =
                IF @ = None THEN None
                ELSE CASE Call(r) = "success" -> "ok" [] Call(r) = "failure" -> "error" [] OTHER -> @]
  /\ UNCHANGED <<gauge, slack, alerts>>

\* The OpenTelemetry SDK takes log records and measurements from here.
OTelLogsLog(r) == DirectLog(r, "otel_logs") /\ UNCHANGED <<gauge, slack, alerts, span>>

OTelMetricsLog(r) == DirectLog(r, "otel_metrics") /\ UNCHANGED <<gauge, slack, alerts, span>>

Log(r) ==
  \/ LangfuseLog(r) \/ DatadogLog(r) \/ DDLLMObsLog(r) \/ S3Log(r)
  \/ SlackLog(r) \/ PrometheusLog(r)
  \/ OTelLog(r) \/ OTelLogsLog(r) \/ OTelMetricsLog(r)

----------------------------------------------------------------------------
(* Shutdown, callback by callback in the order of registration.            *)

Closing(s, step) ==
  /\ down.phase = "stopping"
  /\ down.step = step
  /\ set.Callbacks[down.at] = s

Undisturbed ==
  UNCHANGED <<set, now, memory, payload, logging, spawned, loop, delivered,
              lost, gauge, slack, alerts, span, heard>>

\* close(stopCh)
ShutdownBegins(s) ==
  /\ Closing(s, "begin")
  /\ stop' = stop \cup {s}
  /\ down' = [down EXCEPT !.step = "wait"]
  /\ UNCHANGED <<queue, batches, faults>> /\ Undisturbed

FinalFlush(s) ==
  /\ IF queue[s] = <<>>
     THEN down' = ShutdownGoesOn(TRUE) /\ UNCHANGED <<batches, queue>>
     ELSE down' = [down EXCEPT !.step = "flush"] /\ Take(s, "shutdown")
  /\ UNCHANGED <<stop, faults>> /\ Undisturbed

\* Langfuse and S3 wait for the flush loop however long it takes.
LangfuseShutdown ==
  \/ ShutdownBegins("langfuse")
  \/ Closing("langfuse", "wait") /\ loop["langfuse"] = "stopped" /\ FinalFlush("langfuse")

S3Shutdown ==
  \/ ShutdownBegins("s3")
  \/ Closing("s3", "wait") /\ loop["s3"] = "stopped" /\ FinalFlush("s3")

\* The Datadog callbacks give up when the context expires, without a flush.
GivesUp(s) ==
  /\ Closing(s, "wait")
  /\ down.expired
  /\ down' = ShutdownGoesOn(FALSE)
  /\ UNCHANGED <<queue, batches, stop, faults>> /\ Undisturbed

DatadogShutdown ==
  \/ ShutdownBegins("datadog")
  \/ Closing("datadog", "wait") /\ loop["datadog"] = "stopped" /\ FinalFlush("datadog")
  \/ GivesUp("datadog")

DDLLMObsShutdown ==
  \/ ShutdownBegins("datadog_llm_obs")
  \/ /\ Closing("datadog_llm_obs", "wait")
     /\ loop["datadog_llm_obs"] = "stopped"
     /\ FinalFlush("datadog_llm_obs")
  \/ GivesUp("datadog_llm_obs")

\* Slack, Prometheus and the span callback have nothing to shut down; the
\* OpenTelemetry providers may report an error.
DirectShutdown(s) ==
  /\ Closing(s, "begin")
  /\ \E ok \in BOOLEAN :
       /\ ~ ok => s \in {"otel_logs", "otel_metrics"}
       /\ Succeeds(ok)
       /\ down' = ShutdownGoesOn(ok)
  /\ UNCHANGED <<queue, batches, stop>> /\ Undisturbed

Shutdown ==
  \/ LangfuseShutdown \/ S3Shutdown \/ DatadogShutdown \/ DDLLMObsShutdown
  \/ \E s \in Direct : DirectShutdown(s)

Flushes == LangfuseFlush \/ DatadogFlush \/ DDLLMObsFlush \/ S3Flush

Sends == \E b \in batches, answer \in Answers : Send(b, answer)

\* NewObservabilityManager and the constructors: every queueing callback that
\* is enabled has its flush loop running.
NewObservabilityManager ==
  /\ now = 0
  /\ memory = <<>>
  /\ payload = [r \in Requests |-> None]
  /\ logging = [r \in Requests |-> Idle]
  /\ queue = [s \in Batchers |-> <<>>]
  /\ spawned = [s \in Batchers |-> 0]
  /\ batches = {}
  /\ loop = [s \in Batchers |-> "running"]
  /\ stop = {}
  /\ delivered = [s \in Batchers |-> {}]
  /\ lost = [s \in Batchers |-> {}]
  /\ gauge = [l \in Labels |-> 0]
  /\ slack = [errors |-> 0, last |-> None]
  /\ alerts = <<>>
  /\ span = [r \in Requests |-> None]
  /\ heard = [s \in Batchers \cup Direct |-> [r \in Requests |-> <<>>]]
=============================================================================
