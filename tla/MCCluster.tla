----------------------------- MODULE MCCluster -----------------------------
(***************************************************************************)
(* Several gateway instances over one Redis: their caches, their routing   *)
(* statistics and their rate limits, under one clock and with the same     *)
(* Redis failing under all of them; and small deployments of them for TLC, *)
(* each with the callers of one component, so that their state spaces add  *)
(* up.                                                                     *)
(***************************************************************************)
EXTENDS CacheTiers, Stats, Limits

vars == <<set, now, faults, cvars, svars, lvars>>

Init ==
  /\ set \in Settings
  /\ now = 0 /\ faults = 0
  /\ CacheInit /\ StatsInit /\ LimitsInit

Tick ==
  /\ now < set.MaxNow
  /\ CacheMayTick /\ LimitsMayTick
  /\ now' = now + 1
  /\ UNCHANGED <<set, faults, cvars, svars, lvars>>

Next ==
  \/ Tick
  \/ CacheNext /\ UNCHANGED <<svars, lvars>>
  \/ StatsNext /\ UNCHANGED <<cvars, lvars>>
  \/ LimitsNext /\ UNCHANGED <<cvars, svars>>

Spec == Init /\ [][Next]_vars

----------------------------------------------------------------------------
CONSTANTS c1, c2, n1, n2, x, y

Two(a, b) == c1 :> a @@ c2 :> b

NoCache ==
  [Callers |-> {}, Nodes |-> {}, NodeOf |-> Two(n1, n2), Tier |-> "dual", Keys |-> {x},
   MaxSize |-> 1, LocalTTL |-> 1, RedisTTL |-> 4, DefaultTTL |-> 3,
   BatchThrottleTime |-> 2, MaxThrottleEntries |-> 1, TTLs |-> {2}, Bigs |-> {FALSE},
   Ops |-> Two({"set", "delete"}, {"get"}), MaxWrites |-> 2, MaxCalls |-> Two(2, 2),
   Latency |-> 1]

NoStats ==
  [Requests |-> {}, Instances |-> {}, InstanceOf |-> Two(n1, n2), ScopeOf |-> Two("", ""),
   Deployments |-> 1, StatKeys |-> {}, BucketSize |-> 1, Window |-> 2, Minute |-> 2,
   UsageTTL |-> 4, CountersTTL |-> 2, RoundRobinTTL |-> 3, Cooldown |-> 2, Slack |-> 1,
   MinRequests |-> 2, Percent |-> 50, SingleMin |-> 2, Immediate429 |-> TRUE,
   Statuses |-> {500}, MaxRequests |-> 1, Disconnects |-> FALSE, Crashes |-> FALSE,
   Operators |-> FALSE, Deletes |-> FALSE]

NoLimits ==
  [Checkers |-> {}, MaxChecks |-> 2, LimitKeys |-> {}, LimitOf |-> <<>>,
   Backend |-> "redis", TrustedProxies |-> {"proxy"}, RPM |-> 0, TPM |-> 2,
   DefaultLimit |-> 1, KeyStrategy |-> "user", Arrivals |-> Two({}, {}), SkewOf |-> Two(0, 0), WindowSize |-> 2,
   FailOpen |-> TRUE, UseDefaultBurst |-> FALSE, DefaultBurst |-> 1, CleanupTTL |-> 1]

Nobody == NoCache @@ NoStats @@ NoLimits @@ [MaxNow |-> 3, MaxFaults |-> 0]

----------------------------------------------------------------------------

\* Caches: one caller writes, the other reads.
Cached0 == [Nobody EXCEPT !.Callers = {c1, c2}, !.Nodes = {n1, n2}]
OneNode == [Cached0 EXCEPT !.NodeOf = Two(n1, n1), !.Nodes = {n1}]

Dual == [Cached0 EXCEPT !.MaxFaults = 1]
Memory == [OneNode EXCEPT !.Tier = "memory", !.Keys = {x, y}, !.MaxWrites = 3,
             !.Ops = Two({"set"}, {"get"}), !.MaxCalls = Two(3, 1), !.TTLs = {1, 2},
             !.MaxNow = 2]
Batches == [Cached0 EXCEPT !.Keys = {x, y}, !.Ops = Two({"pipeline"}, {"multi"}),
              !.MaxCalls = Two(1, 2), !.TTLs = {0}, !.MaxFaults = 1]
RedisOnly == [Cached0 EXCEPT !.Tier = "redis", !.Ops = Two({"set", "delete"}, {"get", "multi"}),
                !.MaxFaults = 1]
Oversized == [OneNode EXCEPT !.Bigs = BOOLEAN,
                !.Ops = Two({"set", "localonly"}, {"get", "flush"})]
Throttled == [OneNode EXCEPT !.Keys = {x, y}, !.Ops = Two({"set"}, {"multi"}),
                !.MaxCalls = Two(1, 3), !.MaxWrites = 1, !.BatchThrottleTime = 1,
                !.MaxNow = 4]

\* Routing statistics.
Routed == [Nobody EXCEPT !.Requests = {c1, c2}, !.Instances = {n1, n2},
             !.StatKeys = {<<"", 1>>}]

Windowed == [Routed EXCEPT !.Requests = {c1}, !.MaxRequests = 3, !.MaxNow = 4]
Choice == [Routed EXCEPT !.Deployments = 2, !.StatKeys = {<<"", 1>>, <<"", 2>>},
             !.Statuses = {408, 429, 500}, !.MaxNow = 2, !.Cooldown = 1]
Unread == [Choice EXCEPT !.Statuses = {408}, !.MaxFaults = 1]
Crashing == [Routed EXCEPT !.Crashes = TRUE, !.MaxFaults = 1, !.MaxNow = 2]
Leaving == [Routed EXCEPT !.Disconnects = TRUE]
Operated == [Routed EXCEPT !.Requests = {c1}, !.ScopeOf = Two("tenant", ""),
               !.StatKeys = {<<"", 1>>, <<"tenant", 1>>}, !.Operators = TRUE,
               !.Deletes = TRUE, !.MaxNow = 4]

\* Rate limits.
ByKey == [by |-> "middleware", key |-> "key", team |-> None, teamLimit |-> 0, limit |-> 0]
ByTeam == [ByKey EXCEPT !.by = "engine", !.team = "team", !.teamLimit = 1, !.limit = 1]
ByClient(n) == [by |-> "client", model |-> "model", user |-> "user", apiKey |-> None,
                estimate |-> n]
Metered == {<<t, <<"user">> >> : t \in {"requests", "tokens"}}
Proxied(by, forwarded, xff, real) ==
  [by |-> by, key |-> None, team |-> None, teamLimit |-> 0, limit |-> 0,
   http |-> [peer |-> "proxy", forwarded |-> forwarded, xff |-> xff, real |-> real]]

Limited == [Nobody EXCEPT !.Checkers = {c1, c2}, !.LimitKeys = {<<"key">>},
              !.LimitOf = [k \in {<<"key">>} |-> 1], !.MaxChecks = 3, !.MaxNow = 4,
              !.Arrivals = Two({ByKey}, {ByKey})]
Local == [Limited EXCEPT !.Backend = "local", !.MaxChecks = 2]

FailingOpen == [Limited EXCEPT !.MaxFaults = 1]
Skewing == [Limited EXCEPT !.SkewOf = Two(0, 2), !.WindowSize = 3]
Teams == [Limited EXCEPT !.LimitKeys = {<<"key">>, <<"team">>}, !.FailOpen = FALSE,
            !.LimitOf = [k \in {<<"key">>, <<"team">>} |-> 1], !.MaxFaults = 1,
            !.Arrivals = Two({ByTeam}, {ByTeam}), !.MaxChecks = 2]
Tokens == [Limited EXCEPT !.LimitKeys = Metered, !.RPM = 2,
             !.LimitOf = [k \in Metered |-> 2],
             !.Arrivals = Two({ByClient(1), ByClient(2)}, {ByClient(0)}), !.MaxChecks = 2]
Quiet == [Local EXCEPT !.DefaultBurst = 2, !.CleanupTTL = 2, !.MaxNow = 5,
            !.Arrivals = Two({ByKey}, {[ByKey EXCEPT !.limit = 1]})]
Anonymous == [Local EXCEPT !.LimitKeys = {<<"proxy">>, <<"user">>}, !.MaxNow = 3,
                !.Arrivals = Two({Proxied("engine", <<>>, <<"user", "proxy">>, None)},
                                 {Proxied("middleware", <<"proxy">>, <<>>, None),
                                  Proxied("middleware", <<>>, <<>>, "user")})]

MCSettings ==
  {Dual, Memory, Batches, RedisOnly, Oversized, Throttled,
   Windowed, Choice, Unread, Crashing, Leaving, Operated,
   FailingOpen, Skewing, Teams, Tokens, Quiet, Local, Anonymous}

=============================================================================
