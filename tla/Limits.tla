------------------------------- MODULE Limits -------------------------------
(***************************************************************************)
(* Rate limiting: the fixed windows several gateway instances keep in      *)
(* Redis (resilience.RedisLimiter, asked by the client and by the tenant   *)
(* limiter), and the tenant limiter's own token buckets, which a           *)
(* background loop removes when a tenant has been quiet.                   *)
(***************************************************************************)
EXTENDS ClusterBase

VARIABLES
  window,     \* the window and counter keys of each limited key in Redis
  limiters,   \* limiters: the current token bucket of each tenant
  access,     \* lastAccess
  bucket,     \* every token bucket ever made
  chk,        \* the requests being checked
  passed,     \* what each key let through at each time
  excess      \* what was let through because Redis failed, or through a bucket
              \* already replaced

lvars == <<window, limiters, access, bucket, chk, passed, excess>>

Times == 0 .. set.MaxNow
Never == [t \in Times |-> 0]

LimitsInit ==
  /\ window = [k \in set.LimitKeys |-> None]
  /\ limiters = [k \in set.LimitKeys |-> None]
  /\ access = [k \in set.LimitKeys |-> None]
  /\ bucket = <<>>
  /\ chk = [c \in set.Checkers |->
       [pc |-> "idle", rules |-> <<>>, held |-> 0, left |-> set.MaxChecks]]
  /\ passed = [k \in set.LimitKeys |-> Never]
  /\ excess = [k \in set.LimitKeys |-> 0]

----------------------------------------------------------------------------
(* Which limits a request meets.                                            *)

\* selectClientIP: the last hop that is no trusted proxy, else the first hop.
SelectClientIP(hops) ==
  LET foreign == {i \in DOMAIN hops : hops[i] \notin set.TrustedProxies}
  IN  IF hops = <<>> THEN None
      ELSE IF foreign = {} THEN hops[1] ELSE hops[Max(foreign)]

\* anonymousRateLimitKey: the headers count only behind a trusted proxy.
AnonymousKey(http) ==
  LET sources == <<SelectClientIP(http.forwarded), SelectClientIP(http.xff), http.real,
                   http.peer>>
  IN  IF http.peer \notin set.TrustedProxies THEN http.peer
      ELSE sources[Min({i \in DOMAIN sources : sources[i] # None})]

\* One check: the key, its limit per window, the burst of a local bucket and the
\* increment; a batch has several.
Rule(key, limit, burst, inc) ==
  [key |-> key, limit |-> limit, burst |-> burst, inc |-> inc]

\* burstForRate; 0 stands for the default burst.
BurstForRate(rpm, least) ==
  LET burst == Max({rpm \div 6, least})
  IN  IF set.UseDefaultBurst THEN Min({set.DefaultBurst, burst}) ELSE burst

\* buildRateLimitKey
BuildRateLimitKey(q) ==
  LET Or(v) == IF v # None THEN v ELSE "default"
  IN  CASE set.KeyStrategy = "api_key" -> <<Or(q.apiKey)>>
        [] set.KeyStrategy = "model" -> <<Or(q.model)>>
        [] set.KeyStrategy = "api_key_model" -> <<Or(q.apiKey), q.model>>
        [] OTHER -> <<Or(q.user)>>

\* checkRateLimit asks for requests and tokens in one batch.
ClientChecks(q) ==
  LET key == BuildRateLimitKey(q)
  IN  <<SelectSeq(<<Rule(<<"requests", key>>, set.RPM, 0, 1),
                    Rule(<<"tokens", key>>, set.TPM, 0, Max({q.estimate, 1}))>>,
                  LAMBDA d : d.limit > 0)>>

\* The rate a limit of 0 stands for, and the check of a team before its key.
Limit(rpm) == IF rpm > 0 THEN rpm ELSE set.DefaultLimit
TeamCheck(q) ==
  IF q.team = None \/ q.teamLimit = 0 THEN << >>
  ELSE << <<Rule(<<q.team>>, q.teamLimit, BurstForRate(q.teamLimit, 0), 1)>> >>

\* RateLimitMiddleware: a caller without a key is known by its address only.
MiddlewareChecks(q) ==
  IF q.key = None THEN << <<Rule(<<AnonymousKey(q.http)>>, set.DefaultLimit, 0, 1)>> >>
  ELSE Append(TeamCheck(q),
              <<Rule(<<q.key>>, Limit(q.limit), IF q.limit > 0 THEN BurstForRate(q.limit, 1) ELSE 0,
                     1)>>)

\* Engine.checkRateLimit: q.key is the key's or the user's id.
EngineChecks(q) ==
  Append(TeamCheck(q),
         <<Rule(<<IF q.key = None THEN AnonymousKey(q.http) ELSE q.key>>, Limit(q.limit),
                BurstForRate(q.limit, 1), 1)>>)

ChecksOf(q) ==
  CASE q.by = "client" -> ClientChecks(q)
    [] q.by = "middleware" -> MiddlewareChecks(q)
    [] OTHER -> EngineChecks(q)

Arrival(c) ==
  /\ chk[c].pc = "idle" /\ chk[c].left > 0
  /\ \E q \in set.Arrivals[c] :
       LET rules == ChecksOf(q)
           asks == rules # << <<>> >>
       IN  chk' = [chk EXCEPT ![c].left = @ - 1,
                              ![c].rules = IF asks THEN rules ELSE <<>>,
                              ![c].pc = IF ~ asks THEN "idle"
                                        ELSE IF set.Backend = "redis" THEN "script"
                                        ELSE "lookup"]
  /\ Answers
  /\ UNCHANGED <<window, limiters, access, bucket, passed, excess>>

Batch(c) == Head(chk[c].rules)
Asked(c) == {Batch(c)[i] : i \in DOMAIN Batch(c)}

\* The check at hand is over; a request that is let through goes on to the next one.
Verdict(c, allowed) ==
  chk' = [chk EXCEPT ![c].held = 0,
    ![c].rules = IF allowed THEN Tail(@) ELSE <<>>,
    ![c].pc = IF allowed /\ Len(chk[c].rules) > 1
              THEN (IF set.Backend = "redis" THEN "script" ELSE "lookup")
              ELSE "idle"]

Added(log, rules) ==
  [k \in set.LimitKeys |->
     [log[k] EXCEPT ![now] = @ + MapThenSumSet(LAMBDA d : IF d.key = k THEN d.inc ELSE 0,
                                               rules)]]

----------------------------------------------------------------------------
(* The Redis limiter.                                                       *)

\* The script for one key, at the time the calling instance's clock shows.  Both keys
\* of a window expire together.
Counted(d, clock) ==
  LET e == window[d.key]
  IN  IF Live(e) /\ clock - e.start < set.WindowSize
      THEN [e EXCEPT !.n = @ + d.inc]
      ELSE [start |-> clock, n |-> d.inc, until |-> now + set.WindowSize]

\* The count compared with the limit includes the request itself.
WithinLimit_Before(d, n) == n - d.inc <= d.limit
WithinLimit(d, n) == n <= d.limit

\* A request passes when none of its limits is exceeded.
Admits(rules, after) == \A d \in rules : WithinLimit(d, after[d.key].n)

\* CheckAllow, with checkRateLimit or TenantRateLimiter.Check around it.
CheckAllow(c) ==
  LET clock == now + set.SkewOf[c]
      after == [k \in set.LimitKeys |->
        IF \E d \in Asked(c) : d.key = k
        THEN Counted(CHOOSE d \in Asked(c) : d.key = k, clock) ELSE window[k]]
      allowed == Admits(Asked(c), after)
  IN  /\ chk[c].pc = "script"
      /\ \/ /\ Answers
            /\ window' = after
            /\ passed' = IF allowed THEN Added(passed, Asked(c)) ELSE passed
            /\ Verdict(c, allowed)
            /\ UNCHANGED excess
         \/ /\ Fails
            /\ window' \in {window, after}
            /\ passed' = IF set.FailOpen THEN Added(passed, Asked(c)) ELSE passed
            /\ excess' = IF set.FailOpen
                         THEN [k \in set.LimitKeys |-> excess[k] +
                                 MapThenSumSet(LAMBDA d : IF d.key = k THEN d.inc ELSE 0,
                                               Asked(c))]
                         ELSE excess
            /\ Verdict(c, set.FailOpen)
      /\ UNCHANGED <<limiters, access, bucket>>

----------------------------------------------------------------------------
(* The local token buckets.                                                 *)

TheRule(c) == Batch(c)[1]

\* getLimiter: the lookup under the read lock.
Lookup(c) ==
  LET k == TheRule(c).key
  IN  /\ chk[c].pc = "lookup"
      /\ chk' = IF limiters[k] # None
                THEN [chk EXCEPT ![c].pc = "touch", ![c].held = limiters[k]]
                ELSE [chk EXCEPT ![c].pc = "create"]
      /\ UNCHANGED <<window, limiters, access, bucket, passed, excess>>

Touch(c) ==
  /\ chk[c].pc = "touch"
  /\ access' = [access EXCEPT ![TheRule(c).key] = now]
  /\ chk' = [chk EXCEPT ![c].pc = "take"]
  /\ UNCHANGED <<window, limiters, bucket, passed, excess>>

\* A new bucket is full; one that exists keeps the limits it was made with.
NewLimiter(d) ==
  LET burst == IF d.burst > 0 THEN d.burst ELSE set.DefaultBurst
  IN  [key |-> d.key, rate |-> d.limit, burst |-> burst, tokens |-> burst, last |-> now]

\* getLimiter under the write lock, which looks again.
CreateLimiter(c) ==
  LET k == TheRule(c).key
  IN  /\ chk[c].pc = "create"
      /\ IF limiters[k] # None THEN UNCHANGED <<bucket, limiters>>
         ELSE /\ bucket' = Append(bucket, NewLimiter(TheRule(c)))
              /\ limiters' = [limiters EXCEPT ![k] = Len(bucket')]
      /\ access' = [access EXCEPT ![k] = now]
      /\ chk' = [chk EXCEPT ![c].pc = "take", ![c].held = limiters'[k]]
      /\ UNCHANGED <<window, passed, excess>>

\* rate.Limiter.Allow: refilled since the last call, up to the burst.
Take(c) ==
  LET k == TheRule(c).key
      b == bucket[chk[c].held]
      tokens == Min({b.burst, b.tokens + b.rate * (now - b.last)})
      allowed == tokens >= 1
      replaced == limiters[k] # chk[c].held
  IN  /\ chk[c].pc = "take"
      /\ bucket' = [bucket EXCEPT ![chk[c].held] =
           IF allowed THEN [@ EXCEPT !.tokens = tokens - 1, !.last = now] ELSE @]
      /\ passed' = IF allowed THEN Added(passed, {TheRule(c)}) ELSE passed
      /\ excess' = [excess EXCEPT ![k] = IF allowed /\ replaced THEN @ + 1 ELSE @]
      /\ Verdict(c, allowed)
      /\ UNCHANGED <<window, limiters, access>>

\* cleanup: what has not been used for longer than CleanupTTL goes.
Cleanup ==
  LET old == {k \in set.LimitKeys : access[k] # None /\ now - access[k] > set.CleanupTTL}
  IN  /\ old # {}
      /\ limiters' = [k \in set.LimitKeys |-> IF k \in old THEN None ELSE limiters[k]]
      /\ access' = [k \in set.LimitKeys |-> IF k \in old THEN None ELSE access[k]]
      /\ Answers
      /\ UNCHANGED <<window, bucket, chk, passed, excess>>

LocalCheck(c) == (Lookup(c) \/ Touch(c) \/ CreateLimiter(c) \/ Take(c)) /\ Answers

LimitsNext ==
  /\ \/ \E c \in set.Checkers : Arrival(c) \/ CheckAllow(c) \/ LocalCheck(c)
     \/ Cleanup
  /\ UNCHANGED <<set, now>>

\* Between finding its bucket and taking from it a request spends less than a tick,
\* where CleanupTTL is ten minutes.
LimitsMayTick == \A c \in set.Checkers : chk[c].pc \notin {"touch", "take"}

----------------------------------------------------------------------------

During(log, k, a, b) == MapThenSumSet(LAMBDA t : log[k][t], a .. b)

Skewed == \E c \in set.Checkers : set.SkewOf[c] # 0
LimitOf(k) == set.LimitOf[k]

\* No stretch of one window's length lets through more than two windows' worth of
\* requests or tokens, three when the instances' clocks differ, besides what passes
\* while Redis fails open (RedisLimiter.CheckAllow: the window starts at the time of
\* whichever instance finds none).
WindowsBounded ==
  set.Backend = "redis" =>
    \A k \in set.LimitKeys, a \in 0 .. now :
      During(passed, k, a, Min({now, a + set.WindowSize - 1}))
        <= excess[k] + (IF Skewed THEN 3 ELSE 2) * LimitOf(k)

\* In any stretch of time a tenant gets no more than the burst and what the rate
\* refills, besides one request for each bucket that cleanup replaced while a request
\* held it (TenantRateLimiter.getLimiter, cleanup).
BucketsBounded ==
  set.Backend = "local" =>
    \A k \in set.LimitKeys, a \in 0 .. now :
      LET its == {i \in DOMAIN bucket : bucket[i].key = k}
          burst == Max({0} \cup {bucket[i].burst : i \in its})
          rate == Max({0} \cup {bucket[i].rate : i \in its})
      IN  During(passed, k, a, now) <= excess[k] + burst + rate * (now - a)

\* Whichever backend decides, a tenant gets no more than its limit lets through.
LimitsHold == WindowsBounded /\ BucketsBounded

=============================================================================
