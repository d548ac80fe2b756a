----------------------------- MODULE CacheTiers -----------------------------
(***************************************************************************)
(* The response caches: the in-memory cache of each gateway instance, the  *)
(* Redis cache the instances share, and the dual cache that puts one in    *)
(* front of the other.  Several callers read and write at once; the values *)
(* are numbered in the order their writes began.                           *)
(***************************************************************************)
EXTENDS ClusterBase

VARIABLES
  local,      \* data and ttls of each instance's in-memory cache
  heap,       \* its expirationHeap: pairs <<key, expiration>>, outdated ones too
  remote,     \* the keys in Redis
  throttle,   \* lastRedisAccessTime of each instance's dual cache
  call,       \* what each caller is doing
  written     \* every value ever written: its key, when, for how long, ...

cvars == <<local, heap, remote, throttle, call, written>>

Node(c) == set.NodeOf[c]
HasLocal == set.Tier # "redis"
HasRemote == set.Tier # "memory"

Nothing == [k \in set.Keys |-> None]

CacheInit ==
  /\ local = [n \in set.Nodes |-> Nothing]
  /\ heap = [n \in set.Nodes |-> {}]
  /\ remote = Nothing
  /\ throttle = [n \in set.Nodes |-> Nothing]
  /\ call = [c \in set.Callers |->
       [pc |-> "idle", op |-> None, keys |-> {}, batch |-> <<>>, got |-> Nothing,
        prior |-> {}, started |-> 0, left |-> set.MaxCalls[c]]]
  /\ written = <<>>

----------------------------------------------------------------------------
(* The in-memory cache.                                                     *)

Cached(n) == {k \in set.Keys : local[n][k] # None}

\* The keys whose heap entry still agrees with ttls.
Evictable(n) == {k \in Cached(n) : <<k, local[n][k].until>> \in heap[n]}

\* How many entries evictIfNeeded has to remove before one more is stored.
Excess(n) ==
  LET over == Cardinality(Cached(n)) - set.MaxSize + 1
  IN  IF over <= 0 THEN 0 ELSE Min({over, Cardinality(Evictable(n))})

\* The sets of keys evictIfNeeded may remove: those that expire first.
EvictIfNeeded(n) ==
  {R \in kSubset(Excess(n), Evictable(n)) :
     \A r \in R, k \in Evictable(n) \ R : local[n][r].until <= local[n][k].until}

Without(f, K) == [k \in DOMAIN f |-> IF k \in K THEN None ELSE f[k]]

\* memory.Cache.Set, for a value that is not oversized.
MemorySet(n, k, v, ttl) ==
  \E R \in EvictIfNeeded(n) :
    LET popped == {e \in heap[n] : \E r \in R : \/ e = <<r, local[n][r].until>>
                                                \/ e[2] < local[n][r].until}
    IN  /\ local' = [local EXCEPT ![n] =
                       [Without(@, R) EXCEPT ![k] = [value |-> v, until |-> now + ttl]]]
        /\ heap' = [heap EXCEPT ![n] = (@ \ popped) \cup {<<k, now + ttl>>}]

\* cleanupLoop: evictExpired removes what has expired, up to the first heap entry
\* that is valid and has not.
EvictExpired(n) ==
  LET gone == {k \in Evictable(n) : local[n][k].until <= now}
      ahead == {local[n][k].until : k \in Evictable(n) \ gone}
  IN  /\ HasLocal
      /\ heap[n] # {}
      /\ local' = [local EXCEPT ![n] = Without(@, gone)]
      /\ heap' = [heap EXCEPT ![n] = {e \in @ : \E t \in ahead : t <= e[2]}]
      /\ UNCHANGED <<remote, throttle, call, written>>

\* Flush of the memory and the dual cache: Redis keeps what it has.
Flush(c) ==
  /\ call[c].pc = "idle" /\ call[c].left > 0
  /\ "flush" \in set.Ops[c]
  /\ call' = [call EXCEPT ![c].left = @ - 1]
  /\ local' = [local EXCEPT ![Node(c)] = Nothing]
  /\ heap' = [heap EXCEPT ![Node(c)] = {}]
  /\ UNCHANGED <<remote, throttle, written>>

----------------------------------------------------------------------------
(* Calls.                                                                   *)

\* The finished writes of these keys when a call begins.
Settled(K) == {i \in DOMAIN written : written[i].key \in K /\ written[i].ended}

Begin(c, op, K, ids, pc) ==
  /\ call[c].pc = "idle" /\ call[c].left > 0
  /\ op \in set.Ops[c]
  /\ call' = [call EXCEPT ![c] =
       [pc |-> pc, op |-> op, keys |-> K, batch |-> ids, got |-> Nothing,
        prior |-> Settled(K), started |-> now, left |-> @.left - 1]]

\* A call is back: what it wrote is settled, and when it reports success what was
\* settled before it began is superseded.
Return(c, ok) ==
  /\ call' = [call EXCEPT ![c].pc = "idle", ![c].keys = {}, ![c].batch = <<>>]
  /\ written' = [i \in DOMAIN written |->
       IF written[i].call = c /\ ~ written[i].ended
       THEN [written[i] EXCEPT !.ended = TRUE]
       ELSE IF ok /\ i \in call[c].prior /\ written[i].over = None
            THEN [written[i] EXCEPT !.over = now]
            ELSE written[i]]

\* A value is found for a key.
Found(c, k, v) == [call[c].got EXCEPT ![k] = [value |-> v, at |-> now]]

First == IF HasLocal THEN "local" ELSE "remote"

Get(c) ==
  /\ \E k \in set.Keys : Begin(c, "get", {k}, <<>>, First)
  /\ UNCHANGED <<local, heap, remote, throttle, written>>

GetMulti(c) ==
  /\ Begin(c, "multi", set.Keys, <<>>, First)
  /\ UNCHANGED <<local, heap, remote, throttle, written>>

\* memory.Cache.Get: the entry is read under the lock, an expired one is deleted
\* under a second one.
LocalGet(c) ==
  /\ call[c].pc = "local" /\ call[c].op = "get"
  /\ \E k \in call[c].keys :
       LET e == local[Node(c)][k]
       IN  \/ /\ Live(e)
              /\ call' = [call EXCEPT ![c].pc = "idle", ![c].got = Found(c, k, e.value),
                                      ![c].keys = {}]
           \/ /\ ~ Live(e)
              /\ call' = [call EXCEPT ![c].pc =
                   IF e # None THEN "lazy" ELSE IF HasRemote THEN "remote" ELSE "idle"]
  /\ UNCHANGED <<local, heap, remote, throttle, written>>

LazyDelete(c) ==
  /\ call[c].pc = "lazy"
  /\ local' = [local EXCEPT ![Node(c)] = Without(@, call[c].keys)]
  /\ call' = [call EXCEPT ![c].pc = IF HasRemote THEN "remote" ELSE "idle"]
  /\ UNCHANGED <<heap, remote, throttle, written>>

\* memory.Cache.GetMulti: all keys under one lock, nothing is deleted.
LocalGetMulti(c) ==
  LET n == Node(c)
      hits == {k \in call[c].keys : Live(local[n][k])}
  IN  /\ call[c].pc = "local" /\ call[c].op = "multi"
      /\ call' = [call EXCEPT
           ![c].got = [k \in set.Keys |->
              IF k \in hits THEN [value |-> local[n][k].value, at |-> now] ELSE None],
           ![c].keys = @ \ hits,
           ![c].pc = IF HasRemote /\ hits # call[c].keys THEN "throttle" ELSE "idle"]
      /\ UNCHANGED <<local, heap, remote, throttle, written>>

\* filterThrottledKeys
FilterThrottledKeys(c) ==
  LET ask == {k \in call[c].keys :
                LET t == throttle[Node(c)][k]
                IN  t = None \/ now - t >= set.BatchThrottleTime}
  IN  /\ call[c].pc = "throttle"
      /\ call' = [call EXCEPT ![c].keys = ask,
                              ![c].pc = IF ask = {} THEN "idle" ELSE "remote"]
      /\ UNCHANGED <<local, heap, remote, throttle, written>>

\* redis.Cache.Get and GetMulti.  What Redis has is still to be put into the
\* in-memory cache.
RemoteGet(c) ==
  LET hits == {k \in call[c].keys : Live(remote[k])}
  IN  /\ call[c].pc = "remote" /\ call[c].op \in {"get", "multi"}
      /\ \/ Fails /\ call' = [call EXCEPT ![c].pc = "idle"]
         \/ /\ Answers
            /\ call' = [call EXCEPT
                 ![c].got = [k \in set.Keys |->
                    IF k \in hits THEN [value |-> remote[k].value, at |-> now] ELSE @[k]],
                 ![c].pc = IF set.Tier = "redis" THEN "idle"
                           ELSE IF call[c].op = "multi" THEN "stamp"
                           ELSE IF hits = {} THEN "idle" ELSE "backfill",
                 ![c].keys = IF call[c].op = "multi" THEN @ ELSE hits]
      /\ UNCHANGED <<local, heap, remote, throttle, written>>

\* cleanupThrottleMap
CleanupThrottleMap(times) ==
  Without(times, {k \in DOMAIN times :
                    times[k] # None /\ times[k] < now - 2 * set.BatchThrottleTime})

\* GetMulti: the times of the last Redis access.
StampThrottle(c) ==
  LET n == Node(c)
      stamped == [k \in set.Keys |-> IF k \in call[c].keys THEN now ELSE throttle[n][k]]
      kept == {k \in set.Keys : stamped[k] # None}
      hits == {k \in call[c].keys : call[c].got[k] # None}
  IN  /\ call[c].pc = "stamp"
      /\ throttle' = [throttle EXCEPT ![n] =
           IF Cardinality(kept) > set.MaxThrottleEntries THEN CleanupThrottleMap(stamped)
           ELSE stamped]
      /\ call' = [call EXCEPT ![c].keys = hits,
                              ![c].pc = IF hits = {} THEN "idle" ELSE "backfill"]
      /\ UNCHANGED <<local, heap, remote, written>>

\* The dual cache puts what Redis gave it into the in-memory cache, key by key.
BackfillTTL_Redis == set.RedisTTL
BackfillTTL == set.LocalTTL

Backfill(c) ==
  /\ call[c].pc = "backfill"
  /\ \E k \in call[c].keys :
       /\ IF written[call[c].got[k].value].big
          THEN UNCHANGED <<local, heap>>
          ELSE MemorySet(Node(c), k, call[c].got[k].value, BackfillTTL)
       /\ call' = [call EXCEPT ![c].keys = @ \ {k},
                               ![c].pc = IF call[c].keys = {k} THEN "idle" ELSE @]
  /\ UNCHANGED <<remote, throttle, written>>

----------------------------------------------------------------------------
(* Writes.                                                                  *)

\* A value about to be written by c: ttl 0 asks for the default, a big value is
\* longer than maxItemSize.
Value(c, k, ttl, big) ==
  [key |-> k, ttl |-> ttl, big |-> big, at |-> now, call |-> c, ended |-> FALSE,
   over |-> None]

Writes == Len(written)

Set(c) ==
  /\ \E k \in set.Keys, ttl \in set.TTLs, big \in set.Bigs :
       /\ Writes < set.MaxWrites
       /\ written' = Append(written, Value(c, k, ttl, big))
       /\ \E op \in {"set", "localonly"} :
            Begin(c, op, {k}, <<Writes + 1>>, First)
  /\ UNCHANGED <<local, heap, remote, throttle>>

\* SetPipeline: a batch, here one value for each key.
SetPipeline(c) ==
  /\ \E ttl \in set.TTLs, order \in SetToSeqs(set.Keys) :
       /\ Writes + Len(order) <= set.MaxWrites
       /\ written' = written \o [i \in DOMAIN order |-> Value(c, order[i], ttl, FALSE)]
       /\ Begin(c, "pipeline", set.Keys, [i \in DOMAIN order |-> Writes + i], First)
  /\ UNCHANGED <<local, heap, remote, throttle>>

\* The lifetime of a value in the in-memory cache: the dual cache's LocalTTL
\* whatever the caller asks for, except in SetLocalOnly.
LocalLife(op, v) ==
  LET ttl == written[v].ttl
  IN  IF set.Tier = "dual" /\ (op # "localonly" \/ ttl = 0) THEN set.LocalTTL
      ELSE IF ttl = 0 THEN set.DefaultTTL ELSE ttl

RemoteLife(op, v) ==
  LET ttl == written[v].ttl
  IN  IF ttl # 0 THEN ttl
      ELSE IF set.Tier = "dual" /\ op = "set" THEN set.RedisTTL ELSE set.DefaultTTL

\* The in-memory write of the next value of the batch; an oversized value is
\* skipped without an error and what is cached for its key stays.
LocalSet(c) ==
  LET v == Head(call[c].batch)
      last == Len(call[c].batch) = 1
      done == last /\ (~ HasRemote \/ call[c].op = "localonly")
      all == [i \in 1 .. Cardinality(call[c].keys) |-> v - Cardinality(call[c].keys) + i]
  IN  /\ call[c].pc = "local" /\ call[c].op \in {"set", "localonly", "pipeline"}
      /\ IF written[v].big THEN UNCHANGED <<local, heap>>
         ELSE MemorySet(Node(c), written[v].key, v, LocalLife(call[c].op, v))
      /\ \/ done /\ Return(c, call[c].op # "localonly")
         \/ /\ ~ done
            /\ call' = [call EXCEPT ![c].pc = IF last THEN "remote" ELSE @,
                                    ![c].batch = IF last THEN all ELSE Tail(@)]
            /\ UNCHANGED written
      /\ UNCHANGED <<remote, throttle>>

\* SET, or a pipeline of them, of which Redis may carry out a part when it fails.
RemoteSet(c) ==
  LET ids == {call[c].batch[i] : i \in DOMAIN call[c].batch}
      Stored(S) == [k \in set.Keys |->
        LET mine == {v \in S : written[v].key = k}
        IN  IF mine = {} THEN remote[k]
            ELSE [value |-> Max(mine), until |-> now + RemoteLife(call[c].op, Max(mine))]]
  IN  /\ call[c].pc = "remote" /\ call[c].op \in {"set", "pipeline"}
      /\ \/ Fails /\ Return(c, FALSE) /\ \E S \in SUBSET ids : remote' = Stored(S)
         \/ Answers /\ Return(c, TRUE) /\ remote' = Stored(ids)
      /\ UNCHANGED <<local, heap, throttle>>

Delete(c) ==
  /\ \E k \in set.Keys : Begin(c, "delete", {k}, <<>>, First)
  /\ UNCHANGED <<local, heap, remote, throttle, written>>

LocalDelete(c) ==
  /\ call[c].pc = "local" /\ call[c].op = "delete"
  /\ local' = [local EXCEPT ![Node(c)] = Without(@, call[c].keys)]
  /\ IF HasRemote
     THEN call' = [call EXCEPT ![c].pc = "remote"] /\ UNCHANGED written
     ELSE Return(c, TRUE)
  /\ UNCHANGED <<heap, remote, throttle>>

RemoteDelete(c) ==
  /\ call[c].pc = "remote" /\ call[c].op = "delete"
  /\ \/ /\ Fails /\ Return(c, FALSE)
        /\ remote' \in {remote, Without(remote, call[c].keys)}
     \/ Answers /\ Return(c, TRUE) /\ remote' = Without(remote, call[c].keys)
  /\ UNCHANGED <<local, heap, throttle>>

----------------------------------------------------------------------------

CacheRemote(c) == RemoteGet(c) \/ RemoteSet(c) \/ RemoteDelete(c)

CacheLocal(c) ==
  /\ \/ Flush(c) \/ Get(c) \/ GetMulti(c) \/ Set(c) \/ SetPipeline(c) \/ Delete(c)
     \/ LocalGet(c) \/ LazyDelete(c) \/ LocalGetMulti(c) \/ FilterThrottledKeys(c)
     \/ StampThrottle(c) \/ Backfill(c) \/ LocalSet(c) \/ LocalDelete(c)
  /\ UNCHANGED faults

CacheCleanup == (\E n \in set.Nodes : EvictExpired(n)) /\ UNCHANGED faults

CacheNext ==
  /\ \/ CacheCleanup
     \/ \E c \in set.Callers : CacheRemote(c) \/ CacheLocal(c)
  /\ UNCHANGED <<set, now>>

\* A call takes at most Latency.
CacheMayTick ==
  \A c \in set.Callers : call[c].pc # "idle" => now - call[c].started < set.Latency

----------------------------------------------------------------------------

\* The in-memory cache never holds more entries than MaxSize, whatever expires, is
\* deleted lazily or is overwritten while outdated heap entries are still queued
\* (memory.Cache.evictIfNeeded).
LocalBounded == \A n \in set.Nodes : Cardinality(Cached(n)) <= set.MaxSize

\* How long a cached copy can outlive what superseded it: nothing in Redis itself;
\* in memory the rest of its life, when the value that supersedes it is oversized;
\* behind the dual cache one LocalTTL on every instance (or what SetLocalOnly asked
\* for), and the time a reader that was under way takes to put it back.
Lag ==
  CASE set.Tier = "redis" -> 1
    [] set.Tier = "memory" -> Max({set.DefaultTTL} \cup set.TTLs)
    [] OTHER -> set.Latency + Max({set.LocalTTL} \cup
         (IF \E c \in set.Callers : "localonly" \in set.Ops[c] THEN set.TTLs ELSE {}))

\* A value that a finished Set or Delete has superseded is not served for longer
\* than Lag, counted from that call's return (dual.Cache.Get, Set and Delete).
StaleBounded ==
  \A c \in set.Callers, k \in set.Keys :
    LET g == call[c].got[k]
    IN  g # None /\ written[g.value].over # None
          => g.at < written[g.value].over + Lag

\* The cache tiers: a memory tier within its size, and no superseded value served for longer than the
\* tiers' lifetimes account for.
CachesBounded == LocalBounded /\ StaleBounded

=============================================================================
