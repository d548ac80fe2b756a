------------------------------ MODULE Gateway ------------------------------
(***************************************************************************)
(* The gateway's request handlers (internal/api: ChatCompletions,          *)
(* Responses, Completions and Embeddings, streamed or not), the calls they *)
(* make to the observability callbacks and to the MCP agent loop, what     *)
(* they charge, and the process's shutdown in cmd/server/main.go.          *)
(*                                                                         *)
(* Routing, retries and the upstream call are the Client module's and are  *)
(* here an answer chosen freely; so is what governance decides.            *)
(***************************************************************************)
EXTENDS Callbacks, MCP

LOCAL INSTANCE Functions

VARIABLES
  req,        \* req[r]: how far the handler of r has got
  pool,       \* the message arrays of the pooled ChatRequests
  billing     \* billing[r]: the usage record of r, and what was done with it

vars == <<set, faults, down, obsVars, mcpVars, req, pool, billing>>

Kinds == [api : {"chat", "responses", "completions", "embeddings"}, stream : BOOLEAN]

\* Completions makes no call to the callbacks.
Watched(r) == req[r].api # "completions"

\* The handlers that run the agent loop, when there is an MCP manager.
Agentic(r) == set.Servers # {} /\ req[r].api \in {"chat", "responses"}

New == [api |-> None, stream |-> FALSE, pc |-> "new", array |-> None,
        rounds |-> 0, chunks |-> 0, fell |-> FALSE, streaming |-> FALSE, offered |-> {}, outcome |-> None]

NoBill == [pc |-> "none", logged |-> FALSE, key |-> 0, team |-> 0]

Handling(r, pc) == Running /\ req[r].pc = pc /\ Quiet(r)

Moves(r, pc) == req' = [req EXCEPT ![r].pc = pc]

\* What a handler leaves alone, by the module it belongs to.
NoObs == UNCHANGED <<now, queue, spawned, batches, loop, stop, delivered, lost,
                     gauge, slack, alerts, heard>>

NoMCP == UNCHANGED <<clients, objects, open, made, mu, admin, closed>>

Steady == NoObs /\ NoMCP /\ UNCHANGED <<set, down>>

----------------------------------------------------------------------------
(* Reading the request.                                                    *)

\* The server hands the request to its handler.
Receive(r) ==
  /\ req[r].pc = "new" /\ down.phase = "serving"
  /\ \E k \in set.Kinds[r] :
       req' = [req EXCEPT ![r] = [New EXCEPT !.api = k.api, !.stream = k.stream,
         !.pc = CASE k.api = "chat" -> "decode"
                  [] k.api = "completions" -> "acquire"
                  [] OTHER -> "validate"]]
  /\ Steady /\ UNCHANGED <<faults, memory, payload, logging, span, tooling, pool, billing>>

\* GetChatRequest and Unmarshal: the messages go into the array that came with
\* the pooled request when it is long enough, or into a new one.
ChatDecode(r) ==
  /\ Handling(r, "decode")
  /\ \/ \E a \in pool :
          /\ pool' = pool \ {a}
          /\ memory' = [memory EXCEPT ![a] = r]
          /\ req' = [req EXCEPT ![r].pc = "validate", ![r].array = a]
     \/ /\ memory' = Append(memory, r)
        /\ req' = [req EXCEPT ![r].pc = "validate", ![r].array = Len(memory) + 1]
        /\ UNCHANGED pool
  /\ Steady /\ UNCHANGED <<faults, payload, logging, span, tooling, billing>>

\* PutChatRequest: Reset keeps the array.  Once tool results were appended the
\* request may have outgrown it.
PutChatRequest(r) ==
  IF req[r].api # "chat" THEN UNCHANGED pool
  ELSE \E kept \in IF req[r].rounds > 0 THEN BOOLEAN ELSE {TRUE} :
         pool' = IF kept THEN pool \cup {req[r].array} ELSE pool

\* A request that does not validate is answered before anything is logged.
Reject(r) ==
  /\ Handling(r, "validate") /\ set.Invalid
  /\ req' = [req EXCEPT ![r].pc = "done", ![r].outcome = "rejected"]
  /\ PutChatRequest(r)
  /\ Steady /\ UNCHANGED <<faults, memory, payload, logging, span, tooling, billing>>

\* startSpan names the provider before LogPreAPICall when there is a tracer.
StartSpan(r) ==
  span' = [span EXCEPT ![r] = IF "otel" \in Registered THEN "unset" ELSE None]

BuildPayload(a) ==
  [messages |-> a, model |-> "asked",
   provider |-> IF "otel" \in Registered THEN "llmux" ELSE ""]

\* buildChatObservabilityPayload (buildEmbeddingObservabilityPayload),
\* startSpan and observePre.  Only a chat request comes from the pool.
ObservePre(r) ==
  /\ Handling(r, "validate")
  /\ IF ~ Watched(r) THEN UNCHANGED <<memory, payload, logging, span>>
     ELSE /\ memory' = IF req[r].array = None THEN Append(memory, r) ELSE memory
          /\ payload' = [payload EXCEPT ![r] =
               BuildPayload(IF req[r].array = None THEN Len(memory) + 1 ELSE req[r].array)]
          /\ StartSpan(r)
          /\ logging' = [logging EXCEPT ![r] = Observed(<<"pre">>)]
  /\ Moves(r, "govern")
  /\ Steady /\ UNCHANGED <<faults, tooling, pool, billing>>

----------------------------------------------------------------------------
(* The ways a handler ends.                                                *)

\* observePost
ObservePost(r, outcome) ==
  logging' = [logging EXCEPT ![r] =
    IF Watched(r)
    THEN Observed(<<"post", IF outcome = "ok" THEN "success" ELSE "failure">>)
    ELSE @]

EndWith(r, outcome) ==
  req' = [req EXCEPT ![r].pc = "reply", ![r].outcome = outcome]

\* observePost(err) and writeError
Fail(r) == ObservePost(r, "error") /\ EndWith(r, "error")

\* The response is written and the deferred calls are made.
Reply(r) ==
  /\ Handling(r, "reply")
  /\ Moves(r, "done")
  /\ PutChatRequest(r)
  /\ Steady /\ UNCHANGED <<faults, memory, payload, logging, span, tooling, billing>>

AccountUsage_OnSuccess(r, outcome) ==
  billing' = IF set.Store /\ outcome = "ok" THEN [billing EXCEPT ![r].pc = "log"] ELSE billing

\* accountUsage: the governance engine accounts, or a goroutine is started
\* when there is a store.
AccountUsage(r, outcome) ==
  billing' = IF set.Store THEN [billing EXCEPT ![r].pc = "log"] ELSE billing

\* The payload takes the provider, and for a whole response the model, from
\* the answer when it names them.
Described(p, whole, model, provider) ==
  [p EXCEPT !.model = IF whole /\ model THEN "answered" ELSE @,
            !.provider = IF provider THEN "provider" ELSE IF @ = "" THEN "llmux" ELSE @]

\* The end of a request that upstream answered.
Answered(r, outcome) ==
  /\ AccountUsage(r, outcome)
  /\ IF Watched(r)
     THEN \E model, provider \in set.Named :
            payload' = [payload EXCEPT ![r] =
              Described(@, ~ req[r].streaming, model, provider)]
     ELSE UNCHANGED payload
  /\ ObservePost(r, outcome)
  /\ EndWith(r, outcome)

----------------------------------------------------------------------------
(* Governance, the client and the upstream call.                           *)

\* evaluateGovernance
EvaluateGovernance(r) ==
  /\ Handling(r, "govern")
  /\ \/ Moves(r, IF req[r].api = "completions" THEN "send" ELSE "acquire") /\ UNCHANGED logging
     \/ set.Denies /\ Fail(r)
  /\ Steady /\ UNCHANGED <<faults, memory, payload, span, tooling, pool, billing>>

\* acquireClient: main has closed the swapper once it is past Shutdown.
AcquireClient(r) ==
  /\ Handling(r, "acquire")
  /\ IF down.phase = "released" THEN Fail(r)
     ELSE /\ Moves(r, IF req[r].api = "completions" THEN "validate"
                     ELSE IF Agentic(r) THEN "inject" ELSE "send")
          /\ UNCHANGED logging
  /\ Steady /\ UNCHANGED <<faults, memory, payload, span, tooling, pool, billing>>

\* The client reports a fallback between two deployments through the manager.
ReportFallback(r) ==
  /\ Handling(r, "send") /\ set.Fallbacks /\ ~ req[r].fell
  /\ req' = [req EXCEPT ![r].fell = TRUE]
  /\ logging' = [logging EXCEPT ![r] = Observed(<<"fallback">>)]
  /\ Steady /\ UNCHANGED <<faults, memory, payload, span, tooling, pool, billing>>

UpstreamFails(r) ==
  /\ Handling(r, "send")
  /\ Fail(r) /\ Succeeds(FALSE)
  /\ Steady /\ UNCHANGED <<memory, payload, span, tooling, pool, billing>>

\* A whole response without tool calls.
Complete(r) ==
  /\ Handling(r, "send") /\ ~ (req[r].stream /\ req[r].api # "embeddings")
  /\ Answered(r, "ok")
  /\ Steady /\ UNCHANGED <<faults, memory, span, tooling, pool>>

\* The agent loop asks for the first choice of a response that has none; the
\* recovery middleware answers and only the deferred calls are made.
PanicNoChoices(r) ==
  /\ Handling(r, "send") /\ Agentic(r) /\ ~ req[r].stream
  /\ Succeeds(FALSE)
  /\ req' = [req EXCEPT ![r].pc = "done", ![r].outcome = "panic"]
  /\ PutChatRequest(r)
  /\ Steady /\ UNCHANGED <<memory, payload, logging, span, tooling, billing>>

\* InjectTools: the tools of the connected servers join the request's own.
InjectTools(r) ==
  /\ Handling(r, "inject") /\ mu = None
  /\ req' = [req EXCEPT ![r].pc = "send", ![r].offered = GetAvailableTools \cup set.OwnTools]
  /\ Steady /\ UNCHANGED <<faults, memory, payload, logging, span, tooling, pool, billing>>

\* Execute: the response asks for some of the tools it was offered.
ExecuteTools(r) ==
  /\ Handling(r, "send") /\ Agentic(r) /\ ~ req[r].stream
  /\ \E tools \in set.ToolCalls :
       /\ Seqs(tools) \subseteq req[r].offered
       /\ ExecuteToolCalls(r, tools)
  /\ Moves(r, "tools")
  /\ Steady /\ UNCHANGED <<faults, memory, payload, logging, span, pool, billing>>

\* AppendToolResults, and the next round or "exceeded maximum tool iterations".
AppendToolResults(r) ==
  /\ Handling(r, "tools") /\ AllAnswered(r)
  /\ tooling' = [tooling EXCEPT ![r] = NoTools]
  /\ IF req[r].rounds + 1 < set.MaxToolIterations
     THEN /\ req' = [req EXCEPT ![r].pc = "send", ![r].rounds = @ + 1]
          /\ UNCHANGED logging
     ELSE /\ req' = [req EXCEPT ![r].pc = "reply", ![r].rounds = @ + 1, ![r].outcome = "error"]
          /\ ObservePost(r, "error")
  /\ Steady /\ UNCHANGED <<faults, memory, payload, span, pool, billing>>

----------------------------------------------------------------------------
(* Streams.                                                                *)

OpenStream(r) ==
  /\ Handling(r, "send") /\ req[r].stream /\ req[r].api # "embeddings"
  /\ req' = [req EXCEPT ![r].pc = "recv", ![r].streaming = TRUE]
  /\ Steady /\ UNCHANGED <<faults, memory, payload, logging, span, tooling, pool, billing>>

\* stream.Recv returns a chunk, and observeStreamEvent is called.
RecvChunk(r) ==
  /\ Handling(r, "recv") /\ req[r].chunks < set.MaxChunks
  /\ req' = [req EXCEPT ![r].pc = "write", ![r].chunks = @ + 1]
  /\ logging' = [logging EXCEPT ![r] = IF Watched(r) THEN Observed(<<"stream">>) ELSE @]
  /\ Steady /\ UNCHANGED <<faults, memory, payload, span, tooling, pool, billing>>

\* A failed write ends a chat or a completion stream, the latter without an
\* error; writeResponseEvent ignores it.
WriteChunk(r) ==
  /\ Handling(r, "write")
  /\ \/ Moves(r, "recv") /\ UNCHANGED <<faults, payload, logging, billing>>
     \/ /\ req[r].api # "responses" /\ Succeeds(FALSE)
        /\ Answered(r, IF req[r].api = "chat" THEN "error" ELSE "ok")
  /\ Steady /\ UNCHANGED <<memory, span, tooling, pool>>

\* io.EOF, or an error: the part that was received is charged either way.
EndStream(r) ==
  /\ Handling(r, "recv")
  /\ \/ Answered(r, "ok") /\ UNCHANGED faults
     \/ Answered(r, IF Watched(r) THEN "error" ELSE "ok") /\ Succeeds(FALSE)
  /\ Steady /\ UNCHANGED <<memory, span, tooling, pool>>

\* The goroutine of accountUsage: the usage record, the key's spend and the
\* team's, each tried whatever became of the one before.
Bill(r) ==
  /\ Running /\ billing[r].pc \in {"log", "key", "team"}
  /\ \E ok \in BOOLEAN :
       /\ Succeeds(ok)
       /\ billing' = [billing EXCEPT ![r] =
            CASE @.pc = "log" -> [@ EXCEPT !.pc = "key", !.logged = ok]
              [] @.pc = "key" -> [@ EXCEPT !.pc = "team", !.key = IF ok THEN @ + 1 ELSE @]
              [] @.pc = "team" -> [@ EXCEPT !.pc = "done", !.team = IF ok THEN @ + 1 ELSE @]]
  /\ Steady /\ UNCHANGED <<memory, payload, logging, span, tooling, req, pool>>

----------------------------------------------------------------------------
(* The handlers, by the steps they take.                                   *)

Of(r, api, stream) == req[r].api = api /\ req[r].stream = stream

ChatCompletions(r) ==
  /\ req[r].api = "chat"
  /\ \/ ChatDecode(r) \/ Reject(r) \/ ObservePre(r)
     \/ EvaluateGovernance(r) \/ AcquireClient(r) \/ InjectTools(r) \/ Complete(r)
     \/ Of(r, "chat", FALSE) /\ (ReportFallback(r) \/ UpstreamFails(r))
     \/ Reply(r)

HandleStreamResponse(r) ==
  /\ Of(r, "chat", TRUE)
  /\ ReportFallback(r) \/ UpstreamFails(r) \/ OpenStream(r)
     \/ RecvChunk(r) \/ WriteChunk(r) \/ EndStream(r)

Responses(r) ==
  /\ req[r].api = "responses"
  /\ \/ Reject(r) \/ ObservePre(r)
     \/ EvaluateGovernance(r) \/ AcquireClient(r) \/ InjectTools(r) \/ Complete(r)
     \/ Of(r, "responses", FALSE) /\ (ReportFallback(r) \/ UpstreamFails(r))
     \/ Reply(r)

HandleResponseStream(r) ==
  /\ Of(r, "responses", TRUE)
  /\ ReportFallback(r) \/ UpstreamFails(r) \/ OpenStream(r)
     \/ RecvChunk(r) \/ WriteChunk(r) \/ EndStream(r)

\* The client is acquired before the request is read.
Completions(r) ==
  /\ req[r].api = "completions"
  /\ \/ AcquireClient(r) \/ Reject(r) \/ ObservePre(r)
     \/ EvaluateGovernance(r) \/ Complete(r)
     \/ Of(r, "completions", FALSE) /\ (ReportFallback(r) \/ UpstreamFails(r))
     \/ Reply(r)

HandleCompletionStreamResponse(r) ==
  /\ Of(r, "completions", TRUE)
  /\ ReportFallback(r) \/ UpstreamFails(r) \/ OpenStream(r)
     \/ RecvChunk(r) \/ WriteChunk(r) \/ EndStream(r)

Embeddings(r) ==
  /\ req[r].api = "embeddings"
  /\ \/ Reject(r) \/ ObservePre(r) \/ EvaluateGovernance(r) \/ AcquireClient(r)
     \/ ReportFallback(r) \/ UpstreamFails(r) \/ Complete(r) \/ Reply(r)

\* AgentExecutor.Execute, after InjectTools.
Execute(r) == PanicNoChoices(r) \/ ExecuteTools(r) \/ AppendToolResults(r)

Handle(r) ==
  \/ ChatCompletions(r) \/ HandleStreamResponse(r)
  \/ Responses(r) \/ HandleResponseStream(r)
  \/ Completions(r) \/ HandleCompletionStreamResponse(r)
  \/ Embeddings(r) \/ Execute(r)

----------------------------------------------------------------------------
(* The process.                                                            *)

Phase(p) == down' = [down EXCEPT !.phase = p]

Calm == NoObs /\ UNCHANGED <<set, faults, memory, payload, logging, span, req, pool, billing>>

\* SIGTERM: dataServer.Shutdown stops listening.
Signal == down.phase = "serving" /\ set.Stops /\ Phase("draining") /\ Calm /\ UNCHANGED mcpVars

\* The sixty seconds that all of the shutdown has are over.
Expire ==
  /\ down.phase \in {"draining", "stopping"} /\ set.Expires /\ ~ down.expired
  /\ down' = [down EXCEPT !.expired = TRUE]
  /\ Calm /\ UNCHANGED mcpVars

HandlersDone == \A r \in Requests : req[r].pc \in {"new", "done"}

\* Both servers' Shutdown return: every handler has, or the time is up.
Drained ==
  /\ down.phase = "draining"
  /\ \/ HandlersDone /\ \A a \in Admins : admin[a].pc \in {"idle", "done"}
     \/ down.expired
  /\ Phase(IF set.Callbacks = <<>> THEN "closing" ELSE "stopping")
  /\ Calm /\ UNCHANGED mcpVars

\* The deferred calls: mcpManager.Close, then clientSwapper.Close, and run
\* returns.
CloseManager == down.phase = "closing" /\ Phase("released") /\ Close /\ Calm

Exit == down.phase = "released" /\ Phase("exited") /\ Calm /\ UNCHANGED mcpVars

Main == Drained \/ CloseManager \/ Exit

Tick ==
  /\ Running /\ now < set.MaxTime
  /\ now' = now + 1
  /\ UNCHANGED <<set, faults, down, memory, payload, logging, queue, spawned, batches,
                 loop, stop, delivered, lost, gauge, slack, alerts, span, heard, mcpVars,
                 req, pool, billing>>

NoHandler == UNCHANGED <<req, pool, billing>>

\* What the process does of itself, once it has been given a request.
Work ==
  \/ \E r \in Requests : Handle(r)
  \/ \E r \in Requests : Bill(r)
  \/ \E r \in Requests : Log(r) /\ UNCHANGED mcpVars /\ NoHandler
  \/ Flushes /\ UNCHANGED mcpVars /\ NoHandler
  \/ Sends /\ UNCHANGED mcpVars /\ NoHandler
  \/ Shutdown /\ UNCHANGED mcpVars /\ NoHandler
  \/ \E r \in Requests : ToolStep(r) /\ UNCHANGED obsVars /\ NoHandler
  \/ \E a \in Admins : AdminStep(a) /\ UNCHANGED obsVars /\ NoHandler
  \/ Main

Next ==
  \/ Work
  \/ \E r \in Requests : Receive(r)
  \/ \E a \in Admins : AdminArrives(a) /\ UNCHANGED obsVars /\ NoHandler
  \/ Signal \/ Expire \/ Tick

Init ==
  /\ set \in Settings
  /\ faults = 0
  /\ down = [phase |-> "serving", at |-> 1, step |-> "begin",
             expired |-> FALSE, failed |-> FALSE]
  /\ NewObservabilityManager
  /\ NewManager
  /\ req = [r \in Requests |-> New]
  /\ pool = {}
  /\ billing = [r \in Requests |-> NoBill]

\* Some goroutine that can go on does: every call the process makes outside has
\* a timeout.  The instances have no cycle, so no goroutine need be named.
Fairness == WF_vars(Work)

Spec == Init /\ [][Next]_vars /\ Fairness

----------------------------------------------------------------------------
(* Properties.                                                             *)

Told(s, r) == SelectSeq(heard[s][r], LAMBDA c : c \notin {"stream", "fallback"})

\* Every way out of the four handlers reports: once a watched request has been
\* answered, each registered callback was told of its start, its end and one
\* verdict, in that order, and the verdict is what the handler ended with.  Only
\* a request that was rejected or that panicked in the agent loop is not.
OneVerdict ==
  \A r \in Requests, s \in Registered :
    req[r].pc = "done" =>
      Told(s, r) = CASE ~ Watched(r) \/ req[r].outcome = "rejected" -> <<>>
                     [] req[r].outcome = "panic" -> <<"pre">>
                     [] req[r].outcome = "ok" -> <<"pre", "post", "success">>
                     [] OTHER -> <<"pre", "post", "failure">>

\* The number of entries callback s makes of a call.
Size(s, call) ==
  CASE call \in Verdicts -> IF s = "langfuse" THEN 2 ELSE 1
    [] call = "pre" -> IF s = "langfuse" THEN 1 ELSE 0
    [] call = "fallback" -> IF s = "langfuse" THEN 0 ELSE 1
    [] OTHER -> 0

Made(s, r) ==
  LET told == heard[s][r]
  IN SumFunction([i \in DOMAIN told |-> Size(s, told[i])])
     + IF Calling(r, s) THEN logging[r].part - 1 ELSE 0

Pending(s) == {b \in batches : b.sink = s}

\* Whatever the flush loop, the flush goroutines and Shutdown do to each other,
\* each entry a queueing callback made is in exactly one place: its queue, one
\* batch on its way, or the entries the service accepted or did not accept.
EventsConserved ==
  \A s \in Registered \cap Batchers :
    SumFunction([r \in Requests |-> Made(s, r)])
      = Len(queue[s]) + SumFunction([b \in Pending(s) |-> Len(b.entries)])
        + Cardinality(delivered[s]) + Cardinality(lost[s])

\* When the process exits, and the time for shutting down was enough and no
\* callback's Shutdown failed, no entry is left in a queue; one can only be in
\* a batch that a flush goroutine, which Shutdown does not wait for, is sending.
ShutdownDrains ==
  (down.phase = "exited" /\ ~ down.expired /\ ~ down.failed) =>
    \A s \in Registered \cap Batchers :
      queue[s] = <<>> /\ \A b \in Pending(s) : b.by = "full"

\* A request is charged if and only if upstream answered it or a stream of it
\* was opened: whatever then becomes of the stream, of the reply and of the
\* goroutine's three writes, the key and its team are charged at most once.
ChargedOnce ==
  set.Store => \A r \in Requests :
    /\ req[r].pc = "done" =>
         (billing[r].pc # "none" <=> (req[r].outcome = "ok" \/ req[r].streaming))
    /\ billing[r].key <= 1 /\ billing[r].team <= 1

\* The agent loop goes on only when every tool call of the response has its
\* answer, in the place of the call it answers.
ToolCallsAnswered ==
  \A r \in Requests :
    (req[r].pc = "tools" /\ AllAnswered(r)) =>
      \A i \in DOMAIN tooling[r].results :
        tooling[r].results[i] # None /\ tooling[r].results[i].call = i

Connecting == {admin[a].conn : a \in Admins}

Installed == {objects[o].conn : o \in {clients[s] : s \in Servers} \ {None}}

\* While at most one management request is served at a time and no connection
\* attempt failed, every open connection is that of a registered client or is
\* being made; and always the connection of a registered client is open unless
\* the request that is closing it holds the lock.
ConnectionsOwned ==
  /\ Cardinality({a \in Admins : set.Ops[a] # {}}) <= 1 /\ faults = 0 /\ ~ closed
       => open \subseteq Installed \cup Connecting
  /\ mu = None => Installed \ {None} \subseteq open

\* Every entry leaves its queue, or the process ends: flush loops never stall
\* while they run, and Shutdown flushes what they leave unless it fails.
EventsLeave ==
  (\E s \in Batchers : queue[s] # <<>>)
    ~> ((\A s \in Batchers : queue[s] = <<>>) \/ ~ Running)

\* Once main has been told to stop the process ends, or it has crashed: no
\* handler, flush loop or callback's Shutdown keeps it waiting for ever.
ShutdownEnds == down.phase = "draining" ~> ~ Running

\* What the callbacks are told and what becomes of it: one verdict on a request, every entry in
\* exactly one place, and empty queues after an orderly shutdown.
CallbacksAccounted == OneVerdict /\ EventsConserved /\ ShutdownDrains

\* The tools of the agent loop: answers in the places of their calls, and no connection without an
\* owner.
ToolsAccounted == ToolCallsAnswered /\ ConnectionsOwned

\* While flush loops, handlers and main are scheduled: entries leave their queues, and a shutdown
\* ends.
EventsProgress == EventsLeave /\ ShutdownEnds

=============================================================================
