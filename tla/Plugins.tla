------------------------------- MODULE Plugins -------------------------------
(***************************************************************************)
(* The plugin pipeline of a client and the plugins that ship with it: rate *)
(* limit, response cache, metrics, logging and observability, and one      *)
(* plugin of the user that may take part in streams.  Requests run their   *)
(* hooks concurrently over the plugins' shared state; the contexts of the  *)
(* hooks come from a pool.                                                 *)
(*                                                                         *)
(* A response is named by the request it was produced for.                 *)
(***************************************************************************)
EXTENDS Integers, Sequences, FiniteSetsExt

CONSTANTS
  None,       \* "nil"
  Settings    \* the clients considered; see the MC module

ASSUME SettingsAssumption ==
  \A s \in Settings :
    /\ s.Plugins \in Seq({"observability", "rate-limit", "cache", "metrics", "logging", "user"})
    /\ s.UserPre \subseteq {"pass", "respond", "fail", "empty"}
    /\ s.UserPost \subseteq {"pass", "recover", "reject"}
    /\ IsFiniteSet(DOMAIN s.Requests)
    /\ s.MaxSize \in Nat \ {0}
    /\ {s.Burst, s.Rate} \subseteq Nat

VARIABLES
  set,        \* the client (never changes)
  now,        \* the clock
  queue,      \* the plugins llmux.New has still to register
  built,      \* "new", "ready" or "failed": how far llmux.New is
  plugins,    \* Pipeline.plugins
  closed,     \* Pipeline.closed
  closer,     \* the callers of Client.Close
  cleaned,    \* how often each plugin has been cleaned up
  pool,       \* the contexts in ctxPool
  ctx,        \* the contexts made so far, with their values
  req,        \* the requests
  metrics,    \* the counters of the metrics plugin
  models,     \* its counters per model
  recorded,   \* what the plugins' hooks saw of a request
  limiters,   \* perKeyLimiters: the bucket of each key
  buckets,    \* the token buckets made so far
  admitted,   \* when the rate limiter admitted a request, or -1
  items,      \* MemoryCacheBackend.items
  writer,     \* the goroutines that store a response in it
  sweep,      \* the key cleanupLoop is about to delete
  overlaps,   \* Sets that began while another one was under way
  cache,      \* the cache of the client itself
  resets,     \* "none", "half" or "done": a Reset of the metrics
  mark        \* the requests a Reset of the metrics found over or in flight

life == <<queue, built, plugins, closed, closer, cleaned>>
contexts == <<pool, ctx>>
books == <<metrics, models, recorded, resets, mark>>
limits == <<limiters, buckets, admitted>>
backend == <<items, writer, sweep, overlaps>>
vars == <<set, now, life, contexts, req, books, limits, backend, cache>>

Requests == DOMAIN set.Requests
Ask(r) == set.Requests[r]
Recorders == {"logging", "metrics", "observability", "user"}

Priority(p) ==
  CASE p = "observability" -> -1000
    [] p = "rate-limit" -> 5
    [] p = "cache" -> 10
    [] p = "metrics" -> 999
    [] p = "logging" -> 1000
    [] OTHER -> set.UserPriority

\* defaultKeyFunc hashes the model, the messages and the tools.
PluginKey(r) == <<Ask(r).model, Ask(r).prompt>>

\* generateCacheKey adds the tenant and every parameter of the request.
CacheKey(r) == <<Ask(r).tenant, Ask(r).model, Ask(r).prompt, Ask(r).params>>

\* The context of a hook carries no Auth: without a KeyFunc of the user every request
\* counts under "global".
LimitKey(r) == IF set.KeyFunc THEN Ask(r).tenant ELSE "global"
LimitKeys == {LimitKey(r) : r \in Requests}

NoValues == [hit |-> FALSE, key |-> None]

Init ==
  /\ set \in Settings
  /\ now = 0
  /\ queue = set.Plugins /\ built = "new" /\ plugins = <<>>
  /\ closed = FALSE /\ closer = [c \in set.Closers |-> "idle"]
  /\ cleaned = [p \in Range(set.Plugins) |-> 0]
  /\ pool = {} /\ ctx = <<>>
  /\ req = [r \in Requests |->
       [pc |-> "idle", i |-> 0, ctx |-> 0, resp |-> None, err |-> None, short |-> "no",
        held |-> 0, chunks |-> 0]]
  /\ metrics = [total |-> 0, ok |-> 0, failed |-> 0, limited |-> 0, hits |-> 0]
  /\ models = [m \in set.Models \cup {""} |-> [requests |-> 0, ok |-> 0, failed |-> 0]]
  /\ recorded = [r \in Requests |-> [p \in Recorders |-> "nothing"]]
  /\ resets = "none" /\ mark = [r \in Requests |-> "after"]
  /\ limiters = [k \in LimitKeys |-> 0]
  /\ buckets = << [tokens |-> set.Burst, last |-> 0] >>
  /\ admitted = [r \in Requests |-> -1]
  /\ items = [k \in {PluginKey(r) : r \in Requests} |-> None]
  /\ writer = [r \in Requests |-> [pc |-> "idle", key |-> None, resp |-> None, victim |-> None]]
  /\ sweep = None /\ overlaps = 0
  /\ cache = [k \in {CacheKey(r) : r \in Requests} |-> None]

-----------------------------------------------------------------------------
(* llmux.New: Pipeline.Register for one plugin after the other.            *)

Refused(p) == p \in Range(plugins) \/ Len(plugins) >= set.MaxPlugins

\* sort.Search for the first plugin of a larger priority number.
Position(p) ==
  Cardinality({i \in DOMAIN plugins : Priority(plugins[i]) <= Priority(p)}) + 1

InsertPlugin(p) ==
  SubSeq(plugins, 1, Position(p) - 1) \o <<p>> \o SubSeq(plugins, Position(p), Len(plugins))

\* A refused plugin of the user fails llmux.New; observability is done without.
Register ==
  /\ built = "new" /\ queue # <<>>
  /\ queue' = Tail(queue)
  /\ LET p == Head(queue)
     IN  IF Refused(p)
         THEN /\ built' = IF p = "observability" THEN built ELSE "failed"
              /\ UNCHANGED plugins
         ELSE plugins' = InsertPlugin(p) /\ UNCHANGED built
  /\ UNCHANGED <<set, now, closed, closer, cleaned, contexts, req, books, limits, backend, cache>>

Built ==
  /\ built = "new" /\ queue = <<>>
  /\ built' = "ready"
  /\ UNCHANGED <<set, now, queue, plugins, closed, closer, cleaned, contexts, req, books,
                 limits, backend, cache>>

-----------------------------------------------------------------------------
(* Contexts                                                                *)

\* ctxPool.Get: a pooled context or a new one.
GetContext(r, pc) ==
  \/ \E x \in pool :
       /\ pool' = pool \ {x}
       /\ req' = [req EXCEPT ![r] = [@ EXCEPT !.pc = pc, !.i = 1, !.ctx = x]]
       /\ UNCHANGED ctx
  \/ /\ ctx' = Append(ctx, NoValues)
     /\ req' = [req EXCEPT ![r] = [@ EXCEPT !.pc = pc, !.i = 1, !.ctx = Len(ctx) + 1]]
     /\ UNCHANGED pool

\* Mutant: the values stay in the context.
Reset_KeepsValues(x) == UNCHANGED ctx

Reset(x) == ctx' = [ctx EXCEPT ![x] = NoValues]

PutContext(r) ==
  /\ req[r].pc = "put"
  /\ Reset(req[r].ctx)
  /\ pool' = pool \cup {req[r].ctx}
  /\ req' = [req EXCEPT ![r].pc = "done"]
  /\ UNCHANGED <<set, now, life, books, limits, backend, cache>>

SetValues(r, key, hit) == ctx' = [ctx EXCEPT ![req[r].ctx] = [hit |-> hit \/ @.hit, key |-> key]]
Values(r) == ctx[req[r].ctx]

-----------------------------------------------------------------------------
(* RunPreHooks and what the client does with a short circuit.              *)

Chat(r) ==
  /\ built = "ready" /\ req[r].pc = "idle" /\ ~ Ask(r).stream
  /\ GetContext(r, IF plugins = <<>> THEN "admit" ELSE "pre")
  /\ UNCHANGED <<set, now, life, books, limits, backend, cache>>

\* The hook of plugin p is next.
Pre(r, p) == req[r].pc = "pre" /\ plugins[req[r].i] = p

\* Mutant: the last plugin's pre hook is left out.
Onward_OffByOne(q) ==
  IF q.i < Len(plugins) - 1 THEN [q EXCEPT !.i = @ + 1, !.pc = "pre"]
  ELSE [q EXCEPT !.pc = "admit"]

\* The next hook, or the request itself.
Onward(q) ==
  IF q.i < Len(plugins) THEN [q EXCEPT !.i = @ + 1, !.pc = "pre"]
  ELSE [q EXCEPT !.pc = "admit"]

\* RunPostHooks starts from the last plugin of all, whatever has run before.
PostFrom(q, resp, err) ==
  [q EXCEPT !.resp = resp, !.err = err, !.i = Len(plugins),
            !.pc = IF plugins = <<>> THEN "store" ELSE "post"]

\* A short circuit: an error returns at once, a response goes through the post
\* hooks, and one with neither only ends the pre hooks.
ShortCircuit(q, resp, err) ==
  IF err # None THEN [q EXCEPT !.err = err, !.pc = "put"]
  ELSE IF resp # None THEN [PostFrom(q, resp, None) EXCEPT !.short = "response"]
  ELSE [q EXCEPT !.pc = "admit", !.short = "empty"]

-----------------------------------------------------------------------------
(* The pre hooks of the plugins                                            *)

PreRateLimit(r) ==
  /\ Pre(r, "rate-limit")
  /\ LET b == IF LimitKey(r) = "global" THEN 1 ELSE limiters[LimitKey(r)]
     IN  req' = [req EXCEPT ![r].held = b, ![r].pc = IF b = 0 THEN "limiter" ELSE "allow"]
  /\ UNCHANGED <<set, now, life, contexts, books, limits, backend, cache>>

\* Mutant: the new bucket replaces one that was stored meanwhile.
LoadOrStore_Store(k) ==
  /\ limiters' = [limiters EXCEPT ![k] = Len(buckets) + 1]
  /\ buckets' = Append(buckets, [tokens |-> set.Burst, last |-> now])

LoadOrStore(k) ==
  IF limiters[k] # 0 THEN UNCHANGED <<limiters, buckets>>
  ELSE /\ limiters' = [limiters EXCEPT ![k] = Len(buckets) + 1]
       /\ buckets' = Append(buckets, [tokens |-> set.Burst, last |-> now])

\* getLimiter after its first Load has found nothing.
GetLimiter(r) ==
  /\ req[r].pc = "limiter"
  /\ LoadOrStore(LimitKey(r))
  /\ req' = [req EXCEPT ![r].held = limiters'[LimitKey(r)], ![r].pc = "allow"]
  /\ UNCHANGED <<set, now, life, contexts, books, admitted, backend, cache>>

Refilled(b) ==
  [tokens |-> Min({b.tokens + (now - b.last) * set.Rate, set.Burst}), last |-> now]

Allow(r) ==
  /\ req[r].pc = "allow"
  /\ LET b == Refilled(buckets[req[r].held])
         ok == b.tokens >= 1
     IN  /\ buckets' = [buckets EXCEPT ![req[r].held] =
              [b EXCEPT !.tokens = IF ok THEN @ - 1 ELSE @]]
         /\ admitted' = [admitted EXCEPT ![r] = IF ok THEN now ELSE @]
         /\ req' = [req EXCEPT ![r] = IF ok THEN Onward(@) ELSE ShortCircuit(@, None, "limit")]
  /\ UNCHANGED <<set, now, life, contexts, books, limiters, backend, cache>>

Expired(e) == e # None /\ now > e.until

\* MemoryCacheBackend.Get reads the item first and deletes an expired one afterwards.
PreCache(r) ==
  /\ Pre(r, "cache")
  /\ LET e == items[PluginKey(r)]
     IN  IF Expired(e) THEN req' = [req EXCEPT ![r].pc = "expire"] /\ UNCHANGED ctx
         ELSE /\ SetValues(r, PluginKey(r), e # None)
              /\ req' = [req EXCEPT ![r] =
                   IF e # None THEN ShortCircuit(@, e.resp, None) ELSE Onward(@)]
  /\ UNCHANGED <<set, now, life, pool, books, limits, backend, cache>>

ExpireItem(r) ==
  /\ req[r].pc = "expire"
  /\ items' = [items EXCEPT ![PluginKey(r)] = None]
  /\ SetValues(r, PluginKey(r), FALSE)
  /\ req' = [req EXCEPT ![r] = Onward(@)]
  /\ UNCHANGED <<set, now, life, pool, books, limits, writer, sweep, overlaps, cache>>

PreMetrics(r) ==
  /\ Pre(r, "metrics")
  /\ metrics' = [metrics EXCEPT !.total = @ + 1]
  /\ models' = [models EXCEPT ![Ask(r).model].requests = @ + 1]
  /\ req' = [req EXCEPT ![r] = Onward(@)]
  /\ UNCHANGED <<set, now, life, contexts, recorded, resets, mark, limits, backend, cache>>

PreLogging(r) ==
  /\ Pre(r, "logging")
  /\ recorded' = [recorded EXCEPT ![r]["logging"] = "started"]
  /\ req' = [req EXCEPT ![r] = Onward(@)]
  /\ UNCHANGED <<set, now, life, contexts, metrics, models, resets, mark, limits, backend,
                 cache>>

PreObservability(r) ==
  /\ Pre(r, "observability")
  /\ req' = [req EXCEPT ![r] = Onward(@)]
  /\ UNCHANGED <<set, now, life, contexts, books, limits, backend, cache>>

\* The user's plugin passes, fails (which is only logged) or decides the request.
PreUser(r) ==
  /\ Pre(r, "user")
  /\ \E what \in set.UserPre :
       req' = [req EXCEPT ![r] =
         CASE what = "pass" -> Onward(@)
           [] what = "respond" -> ShortCircuit(@, r, None)
           [] what = "fail" -> ShortCircuit(@, None, "plugin")
           [] what = "empty" -> ShortCircuit(@, None, None)]
  /\ recorded' = [recorded EXCEPT ![r]["user"] = "started"]
  /\ UNCHANGED <<set, now, life, contexts, metrics, models, resets, mark, limits, backend,
                 cache>>

-----------------------------------------------------------------------------
(* The request itself, in Client.ChatCompletion                            *)

\* checkRateLimit: a refused request runs no post hook.
CheckRateLimit(r) ==
  /\ req[r].pc = "admit"
  /\ \/ req' = [req EXCEPT ![r].pc = "lookup"]
     \/ /\ set.Refuses
        /\ req' = [req EXCEPT ![r].pc = "put", ![r].err = "refused"]
  /\ UNCHANGED <<set, now, life, contexts, books, limits, backend, cache>>

\* An error of the cache is a miss.
GetFromCache(r) == {None} \cup (IF set.HasCache THEN {cache[CacheKey(r)]} ELSE {})

\* A cached response whose model has no price any more is an error that runs no post
\* hook.
LookUp(r) ==
  /\ req[r].pc = "lookup"
  /\ \E resp \in GetFromCache(r) :
     \/ resp = None /\ req' = [req EXCEPT ![r].pc = "route"]
     \/ /\ resp # None
        /\ \/ req' = [req EXCEPT ![r] = PostFrom(@, resp, None)]
           \/ set.PricesGo /\ req' = [req EXCEPT ![r].pc = "put", ![r].err = "price"]
  /\ UNCHANGED <<set, now, life, contexts, books, limits, backend, cache>>

ExecuteWithRetry(r) ==
  /\ req[r].pc = "route"
  /\ \E ok \in set.Answers :
       req' = [req EXCEPT ![r] = IF ok THEN PostFrom(@, r, None) ELSE PostFrom(@, None, "provider")]
  /\ UNCHANGED <<set, now, life, contexts, books, limits, backend, cache>>

StoreInCache(r, resp) ==
  cache' = IF set.HasCache THEN [cache EXCEPT ![CacheKey(r)] = resp] ELSE cache

\* After the post hooks: the response of a short circuit is returned without an error,
\* any other goes to the client's cache first.
Finish(r) ==
  /\ req[r].pc = "store"
  /\ LET q == req[r]
         stores == q.short # "response" /\ q.err = None /\ q.resp # None
     IN  /\ IF stores THEN StoreInCache(r, q.resp) ELSE UNCHANGED cache
         /\ req' = [req EXCEPT ![r].pc = "put", ![r].err = IF q.short = "response" THEN None ELSE @]
  /\ UNCHANGED <<set, now, life, contexts, books, limits, backend>>

-----------------------------------------------------------------------------
(* RunPostHooks: the post hooks of the plugins                             *)

Post(r, p) == req[r].pc = "post" /\ plugins[req[r].i] = p

Back(q) == IF q.i > 1 THEN [q EXCEPT !.i = @ - 1] ELSE [q EXCEPT !.pc = "store"]

PostRateLimit(r) ==
  /\ Post(r, "rate-limit")
  /\ req' = [req EXCEPT ![r] = Back(@)]
  /\ UNCHANGED <<set, now, life, contexts, books, limits, backend, cache>>

Storing == {r \in Requests : writer[r].pc # "idle"}

\* A response that did not come from the cache is stored by a goroutine of its own.
PostCache(r) ==
  /\ Post(r, "cache")
  /\ LET stores == /\ req[r].err = None /\ req[r].resp # None
                   /\ ~ Values(r).hit /\ Values(r).key # None
     IN  IF ~ stores THEN UNCHANGED <<writer, overlaps>>
         ELSE /\ writer' = [writer EXCEPT ![r] =
                   [@ EXCEPT !.pc = "count", !.key = Values(r).key, !.resp = req[r].resp]]
              /\ overlaps' = overlaps + (IF Storing = {} THEN 0 ELSE 1)
  /\ req' = [req EXCEPT ![r] = Back(@)]
  /\ UNCHANGED <<set, now, life, contexts, books, limits, items, sweep, cache>>

Verdict(r) == IF req[r].err # None THEN "failed" ELSE "completed"

\* The model of the context is set for streams only: a chat request's verdict is counted
\* under the empty model.
PostMetrics(r) ==
  /\ Post(r, "metrics")
  /\ LET failed == req[r].err # None
         Plus(n, b) == IF b THEN n + 1 ELSE n
     IN  /\ metrics' = [metrics EXCEPT !.ok = Plus(@, ~ failed), !.failed = Plus(@, failed),
                                       !.limited = Plus(@, req[r].err = "limit"),
                                       !.hits = Plus(@, Values(r).hit)]
         /\ models' = [models EXCEPT ![""].ok = Plus(@, ~ failed), ![""].failed = Plus(@, failed)]
  /\ recorded' = [recorded EXCEPT ![r]["metrics"] = Verdict(r)]
  /\ req' = [req EXCEPT ![r] = Back(@)]
  /\ UNCHANGED <<set, now, life, contexts, resets, mark, limits, backend, cache>>

\* With neither error nor response there is no closing line.
PostLogging(r) ==
  /\ Post(r, "logging")
  /\ recorded' = [recorded EXCEPT ![r]["logging"] =
       IF req[r].err = None /\ req[r].resp = None THEN @ ELSE Verdict(r)]
  /\ req' = [req EXCEPT ![r] = Back(@)]
  /\ UNCHANGED <<set, now, life, contexts, metrics, models, resets, mark, limits, backend,
                 cache>>

\* The error of the request does not come back from this hook.
PostObservability(r) ==
  /\ Post(r, "observability")
  /\ recorded' = [recorded EXCEPT ![r]["observability"] = Verdict(r)]
  /\ req' = [req EXCEPT ![r] = [Back(@) EXCEPT !.err = None]]
  /\ UNCHANGED <<set, now, life, contexts, metrics, models, resets, mark, limits, backend,
                 cache>>

PostUser(r) ==
  /\ Post(r, "user")
  /\ \E what \in set.UserPost :
       req' = [req EXCEPT ![r] =
         CASE what = "pass" -> Back(@)
           [] what = "recover" -> [Back(@) EXCEPT !.resp = r, !.err = None]
           [] what = "reject" -> [Back(@) EXCEPT !.resp = None, !.err = "plugin"]]
  /\ recorded' = [recorded EXCEPT ![r]["user"] = "ended"]
  /\ UNCHANGED <<set, now, life, contexts, metrics, models, resets, mark, limits, backend,
                 cache>>

-----------------------------------------------------------------------------
(* Streams: only the user's plugin implements StreamPlugin.                *)

Stream(r) ==
  /\ built = "ready" /\ req[r].pc = "idle" /\ Ask(r).stream
  /\ GetContext(r, "spre")
  /\ UNCHANGED <<set, now, life, books, limits, backend, cache>>

HasUser == "user" \in Range(plugins)

StreamTo(r, pc, n, err) == req' = [req EXCEPT ![r].pc = pc, ![r].i = n, ![r].err = err]

MyIndex == Min({i \in DOMAIN plugins : plugins[i] = "user"})

\* i is the number of plugins whose post hooks will run.
RunStreamPreHooks(r) ==
  /\ req[r].pc = "spre"
  /\ recorded' = [recorded EXCEPT ![r]["user"] = IF HasUser THEN "started" ELSE @]
  /\ LET all == Len(plugins)
         mine == MyIndex
     IN  IF ~ HasUser THEN StreamTo(r, "sadmit", all, None)
         ELSE \E what \in set.UserPre :
                CASE what = "pass" -> StreamTo(r, "sadmit", all, None)
                  [] what = "respond" -> StreamTo(r, "sread", mine, None)
                  [] what = "fail" -> StreamTo(r, "spost", mine, "plugin")
                  [] what = "empty" -> StreamTo(r, "sadmit", mine, None)
  /\ UNCHANGED <<set, now, life, contexts, metrics, models, resets, mark, limits, backend,
                 cache>>

\* A refusal, or a provider that cannot be reached: the context goes back, and no post
\* hook runs.
OpenStream(r) ==
  /\ req[r].pc = "sadmit"
  /\ \/ set.Refuses /\ req' = [req EXCEPT ![r].pc = "put", ![r].err = "refused"]
     \/ \E ok \in set.Answers :
          req' = [req EXCEPT ![r].pc = IF ok THEN "sread" ELSE "put",
                             ![r].err = IF ok THEN None ELSE "provider"]
  /\ UNCHANGED <<set, now, life, contexts, books, limits, backend, cache>>

\* A chunk is delivered, unless the plugin drops it.
RunOnStreamChunk(r) ==
  /\ req[r].pc = "sread" /\ req[r].chunks < set.MaxChunks
  /\ \/ req' = [req EXCEPT ![r].chunks = @ + 1, ![r].resp = r]
     \/ HasUser /\ req' = [req EXCEPT ![r].chunks = @ + 1]
  /\ UNCHANGED <<set, now, life, contexts, books, limits, backend, cache>>

EndStream(r) ==
  /\ req[r].pc = "sread"
  /\ \E err \in {None, "provider"} : req' = [req EXCEPT ![r].pc = "spost", ![r].err = err]
  /\ UNCHANGED <<set, now, life, contexts, books, limits, backend, cache>>

\* What the hooks return is only logged.
RunStreamPostHooks(r) ==
  /\ req[r].pc = "spost"
  /\ recorded' = [recorded EXCEPT ![r]["user"] =
       IF HasUser /\ MyIndex <= req[r].i THEN "ended" ELSE @]
  /\ req' = [req EXCEPT ![r].pc = "put"]
  /\ UNCHANGED <<set, now, life, contexts, metrics, models, resets, mark, limits, backend,
                 cache>>

-----------------------------------------------------------------------------
(* MemoryCacheBackend                                                      *)

Stored == {k \in DOMAIN items : items[k] # None}

Full == Cardinality(Stored) >= set.MaxSize

SetCounts(r) ==
  /\ writer[r].pc = "count"
  /\ writer' = [writer EXCEPT ![r].pc = IF Full THEN "range" ELSE "store"]
  /\ UNCHANGED <<set, now, life, contexts, req, books, limits, items, sweep, overlaps, cache>>

\* Range stops at the first key it meets.
SetRanges(r) ==
  /\ writer[r].pc = "range"
  /\ \/ \E k \in Stored : writer' = [writer EXCEPT ![r].pc = "evict", ![r].victim = k]
     \/ Stored = {} /\ writer' = [writer EXCEPT ![r].pc = "store"]
  /\ UNCHANGED <<set, now, life, contexts, req, books, limits, items, sweep, overlaps, cache>>

SetEvicts(r) ==
  /\ writer[r].pc = "evict"
  /\ items' = [items EXCEPT ![writer[r].victim] = None]
  /\ writer' = [writer EXCEPT ![r].pc = "store", ![r].victim = None]
  /\ UNCHANGED <<set, now, life, contexts, req, books, limits, sweep, overlaps, cache>>

SetStores(r) ==
  /\ writer[r].pc = "store"
  /\ items' = [items EXCEPT ![writer[r].key] =
       [resp |-> writer[r].resp, until |-> now + set.TTL]]
  /\ writer' = [writer EXCEPT ![r] = [pc |-> "idle", key |-> None, resp |-> None, victim |-> None]]
  /\ UNCHANGED <<set, now, life, contexts, req, books, limits, sweep, overlaps, cache>>

\* cleanupLoop finds an expired item, and deletes what is then under its key.
CleanupFinds ==
  /\ sweep = None
  /\ \E k \in Stored : Expired(items[k]) /\ sweep' = k
  /\ UNCHANGED <<set, now, life, contexts, req, books, limits, items, writer, overlaps, cache>>

CleanupDeletes ==
  /\ sweep # None
  /\ items' = [items EXCEPT ![sweep] = None]
  /\ sweep' = None
  /\ UNCHANGED <<set, now, life, contexts, req, books, limits, writer, overlaps, cache>>

-----------------------------------------------------------------------------
(* MetricsPlugin.Reset clears the counters first and the models next.      *)

InFlight == {r \in Requests : req[r].pc \notin {"idle", "put", "done"}}

ResetCounters ==
  /\ set.Resets /\ built = "ready" /\ resets = "none"
  /\ metrics' = [f \in DOMAIN metrics |-> 0]
  /\ resets' = "half"
  /\ mark' = [r \in Requests |->
       IF r \in InFlight THEN "met" ELSE IF req[r].pc = "idle" THEN "after" ELSE "before"]
  /\ UNCHANGED <<set, now, life, contexts, req, models, recorded, limits, backend, cache>>

ResetModels ==
  /\ resets = "half"
  /\ models' = [m \in DOMAIN models |-> [requests |-> 0, ok |-> 0, failed |-> 0]]
  /\ resets' = "done"
  /\ UNCHANGED <<set, now, life, contexts, req, metrics, mark, recorded, limits, backend, cache>>

-----------------------------------------------------------------------------
(* Client.Close and Pipeline.Shutdown                                      *)

Swap == closed' = TRUE

Shutdown(c) ==
  /\ built = "ready" /\ closer[c] = "idle"
  /\ IF closed THEN closer' = [closer EXCEPT ![c] = "done"] /\ UNCHANGED closed
     ELSE closer' = [closer EXCEPT ![c] = "clean"] /\ Swap
  /\ UNCHANGED <<set, now, queue, built, plugins, cleaned, contexts, req, books, limits, backend,
                 cache>>

\* An error of one plugin's Cleanup does not keep the others from theirs.
Cleanup(c) ==
  /\ closer[c] = "clean"
  /\ cleaned' = [p \in DOMAIN cleaned |-> cleaned[p] + (IF p \in Range(plugins) THEN 1 ELSE 0)]
  /\ closer' = [closer EXCEPT ![c] = "done"]
  /\ UNCHANGED <<set, now, queue, built, plugins, closed, contexts, req, books, limits, backend,
                 cache>>

Tick ==
  /\ now < set.MaxNow
  /\ now' = now + 1
  /\ UNCHANGED <<set, life, contexts, req, books, limits, backend, cache>>

Hook(r) ==
  \/ PreRateLimit(r) \/ GetLimiter(r) \/ Allow(r) \/ PreCache(r) \/ ExpireItem(r)
  \/ PreMetrics(r) \/ PreLogging(r) \/ PreObservability(r) \/ PreUser(r)
  \/ PostRateLimit(r) \/ PostCache(r) \/ PostMetrics(r) \/ PostLogging(r)
  \/ PostObservability(r) \/ PostUser(r)

Serve(r) ==
  \/ Chat(r) \/ CheckRateLimit(r) \/ LookUp(r) \/ ExecuteWithRetry(r) \/ Finish(r)
  \/ Stream(r) \/ RunStreamPreHooks(r) \/ OpenStream(r) \/ RunOnStreamChunk(r) \/ EndStream(r)
  \/ RunStreamPostHooks(r) \/ PutContext(r)

Write(r) == SetCounts(r) \/ SetRanges(r) \/ SetEvicts(r) \/ SetStores(r)

Next ==
  \/ Register \/ Built \/ Tick
  \/ \E r \in Requests : Hook(r) \/ Serve(r) \/ Write(r)
  \/ CleanupFinds \/ CleanupDeletes \/ ResetCounters \/ ResetModels
  \/ \E c \in set.Closers : Shutdown(c) \/ Cleanup(c)

Spec == Init /\ [][Next]_vars

-----------------------------------------------------------------------------
(* Properties                                                              *)

\* Done(r): the request has returned to its caller.
Done(r) == req[r].pc \in {"put", "done"}

\* A request is answered with a response that was produced for the same model and
\* messages, and, where only the client's own cache is in use, for the same tenant and
\* parameters: pooled contexts and cached responses never carry one request's answer
\* into another.
AnswersBelong ==
  \A r \in Requests : Done(r) /\ req[r].resp # None =>
    /\ PluginKey(req[r].resp) = PluginKey(r)
    /\ "cache" \notin Range(plugins) => CacheKey(req[r].resp) = CacheKey(r)

\* A request that was answered has been through the post hooks of every plugin, and all
\* that keep a record saw the same end, as long as the user's plugin changes none.
RecordsAgree ==
  \A r \in Requests : Done(r) /\ set.UserPost = {"pass"} =>
    LET saw == {recorded[r][p] : p \in (Recorders \ {"user"}) \cap Range(plugins)}
        ends == {v \in saw : v \in {"completed", "failed"}}
    IN  /\ Cardinality(ends) <= 1
        /\ req[r].resp # None /\ ~ Ask(r).stream => saw \subseteq {"completed"}
        /\ req[r].resp # None /\ HasUser => recorded[r]["user"] = "ended"

\* When nothing is in flight, the metrics plugin has counted a verdict for every request
\* it counted, but for the requests refused after its pre hook, and one more for every
\* request answered by an earlier plugin, whose pre hook it never saw; a Reset changes
\* this by no more than the requests it met.
MetricsBalance ==
  LET early == {r \in Requests : req[r].short # "no" /\ mark[r] = "after"}
      refused == {r \in Requests : req[r].err \in {"refused", "price"} /\ mark[r] = "after"}
      gap == metrics.total + Cardinality(early)
               - (metrics.ok + metrics.failed + Cardinality(refused))
      met == Cardinality({r \in Requests : mark[r] = "met"})
  IN  InFlight = {} /\ "metrics" \in Range(plugins) => gap \in -met .. met

\* The requests of a key admitted between two times.
Admitted(k, s, t) == {r \in Requests : LimitKey(r) = k /\ admitted[r] \in s .. t}

\* No key is admitted more often in an interval than its burst and the tokens of the
\* interval allow, however its first requests race for the bucket.
BurstBounded ==
  \A k \in LimitKeys : \A s \in 0 .. now, t \in 0 .. now :
    s <= t => Cardinality(Admitted(k, s, t)) <= set.Burst + set.Rate * (t - s)

\* The memory backend holds no more than its maximum and one response for every Set that
\* overlapped another one.
CacheBounded == Cardinality(Stored) <= set.MaxSize + overlaps

\* Closing the client, from any number of callers, cleans every plugin up exactly once.
CleanedOnce ==
  \A p \in DOMAIN cleaned :
    /\ cleaned[p] <= 1
    /\ set.Closers # {} /\ (\A c \in set.Closers : closer[c] = "done") /\ p \in Range(plugins)
         => cleaned[p] = 1

\* PostHook may "Recover from errors (set err to nil and provide response)": a request
\* returns a response or an error.
AnswerOrError ==
  \A r \in Requests : Done(r) /\ ~ Ask(r).stream => req[r].resp # None \/ req[r].err # None

\* Pre hooks, post hooks and Cleanup of the plugins balance: the records agree on how a request
\* ended, the metrics count what they began, and a client that is closed cleans up once.
HooksBalance == RecordsAgree /\ MetricsBalance /\ CleanedOnce

\* The bounds that the builtin plugins set hold under concurrent requests: the rate limiter's burst
\* and rate, and the size of the response cache.
BoundsHold == BurstBounded /\ CacheBounded

=============================================================================
