------------------------------- MODULE Stats -------------------------------
(***************************************************************************)
(* Distributed routing: the routers of several gateway instances keep      *)
(* their statistics, cooldowns and round-robin position in Redis.  A       *)
(* request reads a snapshot, picks a deployment, and reports start,        *)
(* outcome and end in separate scripts whose errors are ignored.  Latency  *)
(* lists, token counts and lifetime totals are left out: nothing here      *)
(* depends on them.                                                        *)
(***************************************************************************)
EXTENDS ClusterBase

VARIABLES
  counters,   \* active_requests of each counters hash, None when the key is gone
  buckets,    \* success and failure bucket keys
  usage,      \* rpm of the usage key of each minute
  cooldown,   \* cooldown keys
  rr,         \* the round-robin key, and the local counters that stand in for it
  req,        \* the requests
  lost        \* increments of active_requests whose decrement never reached Redis

svars == <<counters, buckets, usage, cooldown, rr, req, lost>>

Deployment == 1 .. set.Deployments
ModelIsSingle == set.Deployments = 1

\* deploymentKeyPrefix: the statistics of a deployment are kept per tenant scope.
Key(scope, d) == <<scope, d>>
Mine(r) == Key(set.ScopeOf[r], req[r].d)

BucketOf(t) == t \div set.BucketSize
LastBucket == BucketOf(set.MaxNow)
BucketTTL_Window == set.Window * set.BucketSize - 1
BucketTTL == set.Window * set.BucketSize + set.BucketSize
Minutes == 0 .. set.MaxNow \div set.Minute

Unused == [b \in 0 .. LastBucket |-> [ok |-> None, bad |-> None]]

Idle(left) ==
  [pc |-> "idle", d |-> 1, todo |-> {}, until |-> [d \in Deployment |-> 0],
   at |-> 0, clean |-> TRUE, gone |-> FALSE, counted |-> FALSE, left |-> left]

StatsInit ==
  /\ counters = [k \in set.StatKeys |-> None]
  /\ buckets = [k \in set.StatKeys |-> Unused]
  /\ usage = [k \in set.StatKeys |-> [m \in Minutes |-> None]]
  /\ cooldown = [k \in set.StatKeys |-> None]
  /\ rr = [shared |-> None, own |-> [i \in set.Instances |-> 0]]
  /\ req = [r \in set.Requests |-> Idle(set.MaxRequests)]
  /\ lost = [k \in set.StatKeys |-> 0]

----------------------------------------------------------------------------
(* The scripts.                                                             *)

\* INCRBY of a key with an expiry.
Count(e) == IF Live(e) THEN e.n ELSE 0
Plus(e, ttl) == [n |-> Count(e) + 1, until |-> now + ttl]

Active(k) == Count(counters[k])

IncrementActiveRequests(k) == counters' = [counters EXCEPT ![k] = Plus(@, set.CountersTTL)]

\* The count never goes below zero, and a hash that has expired stays away.
DecrementActiveRequests_NoFloor(k) ==
  counters' = [counters EXCEPT ![k] =
    [n |-> Count(@) - 1, until |-> now + set.CountersTTL]]
DecrementActiveRequests(k) ==
  counters' = [counters EXCEPT ![k] =
    IF Count(@) > 0 THEN [n |-> Count(@) - 1, until |-> now + set.CountersTTL] ELSE @]

\* Every report renews the expiry of the counters hash, which it creates if need be.
Touched(k) ==
  [counters EXCEPT ![k] = [n |-> Count(@), until |-> now + set.CountersTTL]]

RecordSuccess(k) ==
  LET minute == now \div set.Minute
  IN  /\ counters' = Touched(k)
      /\ usage' = [usage EXCEPT ![k][minute] = Plus(@, set.UsageTTL)]
      /\ buckets' = [buckets EXCEPT ![k][BucketOf(now)].ok = Plus(@, BucketTTL)]
      /\ UNCHANGED cooldown

\* The totals over the last Window buckets, the current one included.
WindowTotal(bs, k, kind) ==
  MapThenSumSet(LAMBDA b : Count(bs[k][b][kind]),
                {b \in 0 .. BucketOf(now) : b > BucketOf(now) - set.Window})

ShouldCooldown(bs, k, status) ==
  LET bad == WindowTotal(bs, k, "bad")
      all == bad + WindowTotal(bs, k, "ok")
  IN  \/ status \in {401, 404, 408}
      \/ status = 429 /\ set.Immediate429 /\ ~ ModelIsSingle
      \/ IF ModelIsSingle THEN all >= set.SingleMin /\ bad = all /\ all > 0
         ELSE all >= set.MinRequests /\ all > 0 /\ 100 * bad > set.Percent * all

RecordFailure(k, status) ==
  /\ counters' = Touched(k)
  /\ buckets' = [buckets EXCEPT ![k][BucketOf(now)].bad = Plus(@, BucketTTL)]
  /\ cooldown' =
       IF set.Cooldown > 0 /\ ShouldCooldown(buckets', k, status)
       THEN [cooldown EXCEPT ![k] =
              [at |-> now + set.Cooldown, until |-> now + set.Cooldown + set.Slack,
               since |-> now]]
       ELSE cooldown
  /\ UNCHANGED usage

\* RedisStatsStore.SetCooldown; BaseRouter calls it with no tenant scope.
SetCooldown(k) ==
  /\ \E t \in {now} \cup now + 1 .. now + set.Cooldown :
       cooldown' = [cooldown EXCEPT ![k] =
         IF t <= now THEN None
         ELSE [at |-> t, until |-> t + set.Slack, since |-> now]]
  /\ UNCHANGED <<counters, buckets, usage, rr, req, lost>>

\* GetCooldownUntil and GetStats, as far as routing reads them; a deployment without
\* any key has none of them.
GetCooldownUntil(k) == IF Live(cooldown[k]) THEN cooldown[k].at ELSE 0
GetStats(k) ==
  [active |-> Active(k), rpm |-> Count(usage[k][now \div set.Minute]),
   until |-> GetCooldownUntil(k)]

DeleteStats(k) ==
  /\ counters' = [counters EXCEPT ![k] = None]
  /\ buckets' = [buckets EXCEPT ![k] = Unused]
  /\ usage' = [usage EXCEPT ![k] = [m \in Minutes |-> None]]
  /\ cooldown' = [cooldown EXCEPT ![k] = None]
  /\ UNCHANGED <<rr, req, lost>>

----------------------------------------------------------------------------
(* A request.  A store call made for it is a Redis call with the request's  *)
(* context: it is not sent once the caller has gone.                        *)

Instance(r) == set.InstanceOf[r]

\* Outcome of a script run for r: carried out, carried out with the answer lost, or
\* not carried out.
Script(r, Effect, Nothing) ==
  \/ ~ req[r].gone /\ Answers /\ Effect
  \/ ~ req[r].gone /\ Fails /\ (Effect \/ Nothing)
  \/ req[r].gone /\ Answers /\ Nothing

Arrive(r) ==
  /\ req[r].pc = "idle" /\ req[r].left > 0
  /\ req' = [req EXCEPT ![r] =
       [Idle(@.left - 1) EXCEPT !.pc = "read", !.todo = Deployment, !.at = now]]
  /\ Answers
  /\ UNCHANGED <<counters, buckets, usage, cooldown, rr, lost>>

\* statsSnapshot: GetStats of one deployment after the other.  On an error the local
\* statistics stand in; nothing is recorded in those while Redis is used, so they
\* know of no cooldown.
ReadStats(r) ==
  LET d == Min(req[r].todo)
      seen == GetStats(Key(set.ScopeOf[r], d)).until
  IN  /\ req[r].pc = "read" /\ req[r].todo # {}
      /\ \/ /\ ~ req[r].gone /\ Answers
            /\ req' = [req EXCEPT ![r].todo = @ \ {d}, ![r].until[d] = seen]
         \/ /\ IF req[r].gone THEN Answers ELSE Fails
            /\ req' = [req EXCEPT ![r].todo = @ \ {d}, ![r].clean = FALSE]
      /\ UNCHANGED <<counters, buckets, usage, cooldown, rr, lost>>

\* getHealthyDeployments over the snapshot.
Healthy_Inclusive(r) == {d \in Deployment : req[r].until[d] <= now + 1}
Healthy(r) == {d \in Deployment : req[r].until[d] < now \/ req[r].until[d] = 0}

\* RedisRoundRobinStore.NextIndex: INCR and EXPIRE.
NextIndex == [rr EXCEPT !.shared = Plus(@, set.RoundRobinTTL)]

\* PickWithContext: the shared counter decides, the instance's own when that fails.
Pick(r) ==
  LET healthy == SetToSortSeq(Healthy(r), <)
      i == Instance(r)
      own == rr.own[i]
      Take(n) == [req EXCEPT ![r].pc = "start", ![r].d = healthy[(n % Len(healthy)) + 1]]
  IN  /\ req[r].pc = "read" /\ req[r].todo = {}
      /\ \/ Healthy(r) = {} /\ Answers /\ req' = [req EXCEPT ![r] = Idle(@.left)]
            /\ UNCHANGED rr
         \/ /\ Healthy(r) # {}
            /\ \/ Answers /\ rr' = NextIndex /\ req' = Take(Count(rr.shared))
               \/ /\ Fails
                  /\ \E s \in {rr, NextIndex} : rr' = [s EXCEPT !.own[i] = @ + 1]
                  /\ req' = Take(own)
      /\ UNCHANGED <<counters, buckets, usage, cooldown, lost>>

ReportRequestStart(r) ==
  /\ req[r].pc = "start"
  /\ Script(r,
       /\ IncrementActiveRequests(Mine(r))
       /\ req' = [req EXCEPT ![r].pc = "run", ![r].counted = TRUE],
       /\ UNCHANGED counters
       /\ req' = [req EXCEPT ![r].pc = "run"])
  /\ UNCHANGED <<buckets, usage, cooldown, rr, lost>>

\* The caller cancels or disconnects.
CallerGoes(r) ==
  /\ set.Disconnects
  /\ req[r].pc \in {"read", "start", "run"} /\ ~ req[r].gone
  /\ req' = [req EXCEPT ![r].gone = TRUE]
  /\ Answers
  /\ UNCHANGED <<counters, buckets, usage, cooldown, rr, lost>>

Reported(r) == req' = [req EXCEPT ![r].pc = "end"]

ReportSuccess(r) ==
  /\ req[r].pc = "run"
  /\ Script(r, RecordSuccess(Mine(r)), UNCHANGED <<counters, buckets, usage, cooldown>>)
  /\ Reported(r)
  /\ UNCHANGED <<rr, lost>>

ReportFailure(r) ==
  /\ req[r].pc = "run"
  /\ \E status \in set.Statuses :
       Script(r, RecordFailure(Mine(r), status),
              UNCHANGED <<counters, buckets, usage, cooldown>>)
  /\ Reported(r)
  /\ UNCHANGED <<rr, lost>>

ReportRequestEnd(r) ==
  /\ req[r].pc = "end"
  /\ Script(r,
       DecrementActiveRequests(Mine(r)) /\ UNCHANGED lost,
       /\ lost' = [lost EXCEPT ![Mine(r)] = IF req[r].counted THEN @ + 1 ELSE @]
       /\ UNCHANGED counters)
  /\ req' = [req EXCEPT ![r] = Idle(@.left)]
  /\ UNCHANGED <<buckets, usage, cooldown, rr>>

\* A gateway instance dies with its requests and comes back without them.
InstanceCrash(i) ==
  LET its == {r \in set.Requests : Instance(r) = i}
      Owed(k) == {r \in its : req[r].counted /\ Mine(r) = k}
  IN  /\ set.Crashes
      /\ \E r \in its : req[r].pc # "idle"
      /\ req' = [r \in set.Requests |-> IF r \in its THEN Idle(req[r].left) ELSE req[r]]
      /\ lost' = [k \in set.StatKeys |-> lost[k] + Cardinality(Owed(k))]
      /\ rr' = [rr EXCEPT !.own[i] = 0]
      /\ Answers
      /\ UNCHANGED <<counters, buckets, usage, cooldown>>

Manual ==
  /\ \E k \in set.StatKeys : k[1] = "" /\
       \/ set.Operators /\ SetCooldown(k)
       \/ set.Deletes /\ DeleteStats(k)
  /\ Answers

StatsRequest(r) ==
  \/ Arrive(r) \/ ReadStats(r) \/ Pick(r) \/ ReportRequestStart(r) \/ CallerGoes(r)
  \/ ReportSuccess(r) \/ ReportFailure(r) \/ ReportRequestEnd(r)

StatsNext ==
  /\ \/ \E r \in set.Requests : StatsRequest(r)
     \/ \E i \in set.Instances : InstanceCrash(i)
     \/ Manual
  /\ UNCHANGED <<set, now>>

----------------------------------------------------------------------------

\* What the Redis keys mean: a key outside the window, or expired, counts for nothing.
Windows == INSTANCE SlidingWindow WITH
  rules <- set @@ [Single |-> ModelIsSingle], clock <- now,
  tally <- [k \in set.StatKeys |-> [b \in 0 .. LastBucket |->
    LET bs == buckets[k][b]
    IN  IF b > BucketOf(now) - set.Window /\ b <= BucketOf(now)
        THEN [ok |-> Count(bs.ok), bad |-> Count(bs.bad)]
        ELSE [ok |-> 0, bad |-> 0]]],
  cooling <- [k \in set.StatKeys |->
    IF Live(cooldown[k]) /\ cooldown[k].at > now THEN cooldown[k].at ELSE 0],
  rpm <- [k \in set.StatKeys |-> Count(usage[k][now \div set.Minute])]

\* The Redis keys of the routing statistics, each with an expiry of its own that
\* every write renews, implement a sliding window: no outcome inside the window is
\* forgotten, none outside it counts, and a cooldown begins exactly when the window
\* calls for it and ends at its time (recordSuccessScript, recordFailureScript).
WindowsAgree == Windows!Spec

\* active_requests is never negative and exceeds the requests in flight only by the
\* decrements that never reached Redis (incrementActiveRequestsScript,
\* decrementActiveRequestsScript, errors ignored by BaseRouter).
ActiveAccounted ==
  \A k \in set.StatKeys :
    /\ Active(k) >= 0
    /\ Active(k) <= lost[k]
         + Cardinality({r \in set.Requests : req[r].counted /\ Mine(r) = k})

\* A request whose reads all succeeded is sent to a cooling deployment only when the
\* cooldown began after its snapshot was begun (BaseRouter.statsSnapshot,
\* getHealthyDeployments).
PicksJustified ==
  \A r \in set.Requests :
    req[r].pc = "start" /\ req[r].clean
      => LET e == cooldown[Mine(r)]
         IN  Live(e) /\ e.at > now => e.since >= req[r].at

=============================================================================
