----------------------------- MODULE MCGateway -----------------------------
(* The deployments of the gateway that TLC checks.                         *)
EXTENDS Gateway

Base == [Callbacks |-> <<>>, BatchSize |-> 2, MaskInput |-> FALSE, MaxFaults |-> 0,
         ErrorThreshold |-> 2, MinErrorInterval |-> 1, MaxTime |-> 0,
         Kinds |-> [r \in Requests |-> {}], Invalid |-> FALSE, Denies |-> FALSE, Store |-> FALSE,
         Fallbacks |-> FALSE, Named |-> {TRUE}, MaxChunks |-> 0,
         Servers |-> {}, OwnTools |-> {}, ToolCalls |-> {}, MaxToolIterations |-> 2,
         Ops |-> [a \in Admins |-> {}], Stops |-> FALSE, Expires |-> FALSE]

Both(apis) == [r \in Requests |-> {[api |-> a, stream |-> FALSE] : a \in apis}]
One(apis, streams) ==
  [r \in Requests |-> IF r = "r1" THEN [api : apis, stream : streams] ELSE {}]

\* Langfuse: two entries to a verdict, with a queue that two requests fill.
Traced == [Base EXCEPT !.Callbacks = <<"langfuse">>, !.BatchSize = 6,
             !.Kinds = Both({"chat"}), !.Stops = TRUE]
\* The same with one request that fills it by itself.
TracedAlone == [Base EXCEPT !.Callbacks = <<"langfuse", "otel_metrics">>, !.MaxFaults = 2,
                  !.Kinds = One({"chat", "responses"}, {FALSE}), !.Stops = TRUE, !.Expires = TRUE]
\* Datadog's log and S3: fallback events, a shutdown that may run out of time.
Logged == [Base EXCEPT !.Callbacks = <<"datadog", "s3">>, !.Fallbacks = TRUE, !.MaxFaults = 1,
             !.Kinds = One({"embeddings"}, {FALSE}), !.Stops = TRUE, !.Expires = TRUE]
\* Two requests share a Datadog queue while the process stops.
Filled == [Base EXCEPT !.Callbacks = <<"datadog">>, !.MaxFaults = 1,
             !.Kinds = Both({"embeddings"}), !.Stops = TRUE]
\* Datadog's spans and Slack's alerts.
Alerted == [Base EXCEPT !.Callbacks = <<"slack", "datadog_llm_obs">>, !.MaxFaults = 2,
              !.Kinds = Both({"responses"}), !.MaxTime = 1, !.BatchSize = 1]
\* OpenTelemetry, every handler, streams, and the charges.
Measured == [Base EXCEPT !.Callbacks = <<"otel", "otel_logs", "prometheus">>, !.MaxFaults = 1,
               !.Kinds = One({"chat", "completions", "responses", "embeddings"}, BOOLEAN),
               !.Invalid = TRUE, !.Denies = TRUE, !.MaxChunks = 1,
               !.Store = TRUE, !.Fallbacks = TRUE, !.Stops = TRUE, !.Expires = TRUE]
\* Tool servers and a request that calls them.
Tools == [Base EXCEPT !.Callbacks = <<"otel_metrics">>, !.MaxFaults = 1, !.Servers = {"m"},
            !.OwnTools = {"own"}, !.ToolCalls = {<<"m">>, <<"m", "own">>},
            !.Kinds = One({"chat"}, {FALSE}),
            !.Ops = [a \in Admins |-> IF a = "a1" THEN {"remove", "reconnect"} ELSE {}],
            !.Stops = TRUE]
\* Tool servers and two management requests.
Managed == [Base EXCEPT !.MaxFaults = 1, !.Servers = {"m"},
              !.Ops = [a \in Admins |-> {"add", "remove", "reconnect"}], !.Stops = TRUE,
              !.Expires = TRUE]

MCSettings == {Traced, TracedAlone, Logged, Filled, Alerted, Measured, Tools, Managed}
=============================================================================
