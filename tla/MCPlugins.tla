----------------------------- MODULE MCPlugins -----------------------------
(* The clients that TLC checks.                                            *)
EXTENDS Plugins

Request(model, prompt, tenant, params, stream) ==
  [model |-> model, prompt |-> prompt, tenant |-> tenant, params |-> params, stream |-> stream]
Chats(n) == [r \in 1 .. n |-> Request("m", 1, "a", "x", FALSE)]

Base == [Plugins |-> <<>>, MaxPlugins |-> 5, UserPriority |-> 1, Requests |-> Chats(2),
         Models |-> {"m"}, KeyFunc |-> FALSE, Burst |-> 1, Rate |-> 1,
         MaxNow |-> 0, MaxSize |-> 1, TTL |-> 0, UserPre |-> {"pass"}, UserPost |-> {"pass"},
         HasCache |-> FALSE, Refuses |-> FALSE, PricesGo |-> FALSE, Answers |-> BOOLEAN,
         MaxChunks |-> 0, Resets |-> FALSE, Closers |-> {}]

\* Three requests for the limiter of a tenant that has none yet.
Limited == [Base EXCEPT !.Plugins = <<"rate-limit">>, !.KeyFunc = TRUE, !.Requests = Chats(3),
              !.MaxNow = 1, !.Answers = {TRUE}]
\* The default key: one bucket for everybody.
Global == [Base EXCEPT !.Plugins = <<"rate-limit", "metrics">>, !.Requests = Chats(3), !.MaxNow = 1]
\* A cache of one response, three requests, and a plugin that answers some itself.
Answered == [Base EXCEPT !.Plugins = <<"cache", "user">>, !.UserPre = {"pass", "respond"},
               !.Requests = [r \in 1 .. 3 |-> Request("m", IF r = 2 THEN 2 ELSE 1, "a", "x", FALSE)],
               !.MaxSize = 2, !.Answers = {TRUE}]
\* Responses expire while they are read, swept and replaced.
Expiring == [Base EXCEPT !.Plugins = <<"cache">>, !.Requests = Chats(3), !.MaxNow = 1,
               !.Answers = {TRUE}]
\* The cache at its maximum.
Evicting == [Base EXCEPT !.Plugins = <<"cache">>, !.Answers = {TRUE},
               !.Requests = [r \in 1 .. 3 |-> Request("m", r, "a", "x", FALSE)]]
\* Everything that keeps a record; the metrics are reset meanwhile.
Recorded == [Base EXCEPT !.Plugins = <<"observability", "logging", "metrics", "user">>,
               !.UserPre = {"pass", "respond", "fail", "empty"}, !.Refuses = TRUE, !.Resets = TRUE]
\* The user's plugin changes outcomes.
Converted == [Base EXCEPT !.Plugins = <<"logging", "cache", "user", "metrics">>, !.UserPriority = 50,
                !.UserPost = {"pass", "recover", "reject"}, !.Refuses = TRUE]
\* The client's own cache, two tenants.
Cached == [Base EXCEPT !.Plugins = <<"metrics">>, !.HasCache = TRUE, !.PricesGo = TRUE,
             !.Requests = [r \in 1 .. 3 |->
                Request("m", 1, IF r = 3 THEN "b" ELSE "a", "x", FALSE)]]
\* Streams next to a chat request.
Streamed == [Base EXCEPT !.Plugins = <<"logging", "user", "rate-limit">>, !.Refuses = TRUE,
               !.UserPre = {"pass", "respond", "fail", "empty"}, !.MaxChunks = 2,
               !.Requests = [r \in 1 .. 2 |-> Request("m", 1, "a", "x", r = 1)]]
\* No plugin at all; a duplicate; one too many; observability one too many.
Plain == [Base EXCEPT !.Requests = [r \in 1 .. 2 |-> Request("m", 1, "a", "x", r = 1)]]
Duplicate == [Base EXCEPT !.Plugins = <<"cache", "cache">>]
TooMany == [Base EXCEPT !.Plugins = <<"observability", "cache">>, !.MaxPlugins = 1]
NoRoom == [Base EXCEPT !.Plugins = <<"observability">>, !.MaxPlugins = 0]
\* Two callers close the client while a request runs.
Closing == [Base EXCEPT !.Plugins = <<"observability", "metrics">>, !.Requests = Chats(1),
              !.Closers = {"c1", "c2"}]

MCSettings == {Limited, Global, Answered, Expiring, Evicting, Recorded, Converted, Cached,
               Streamed, Plain, Duplicate, TooMany, NoRoom, Closing}
ObservedOnly == {[Base EXCEPT !.Plugins = <<"observability">>]}
=============================================================================
