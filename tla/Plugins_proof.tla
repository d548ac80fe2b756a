---------------------------- MODULE Plugins_proof ----------------------------
(***************************************************************************)
(* For every client, any plugins of those that ship with it and any number *)
(* of requests at once: no request is given the answer to another one, the *)
(* plugins are cleaned up once, and the rate limiter and the response      *)
(* cache keep to their bounds.                                             *)
(***************************************************************************)
EXTENDS Plugins, FiniteSetTheorems, TLAPS

USE SMTT(30)

PluginNames == {"observability", "rate-limit", "cache", "metrics", "logging", "user"}

\* The fields of a request and of a writer
Fields == {"pc", "i", "ctx", "resp", "err", "short", "held", "chunks"}
WriterFields == {"pc", "key", "resp", "victim"}

PluginKeys == {PluginKey(r) : r \in Requests}
CacheKeys == {CacheKey(r) : r \in Requests}

\* Response x answers request r.
Same(r, x) == x \in Requests /\ PluginKey(x) = PluginKey(r)
Belongs(r, x) == Same(r, x) /\ ("cache" \notin Range(plugins) => CacheKey(x) = CacheKey(r))

\* A request holds its context from the first hook to the put.
Holds(q) == q.pc \notin {"idle", "done"}

\* llmux.New registers plugins; nothing is served before it is done.
Life ==
  /\ set \in Settings
  /\ plugins \in Seq(PluginNames) /\ queue \in Seq(PluginNames)
  /\ built # "ready" => /\ \A r \in Requests : req[r].pc = "idle" /\ req[r].resp = None
                        /\ \A r \in Requests : writer[r].pc = "idle"
                        /\ \A k \in DOMAIN items : items[k] = None
                        /\ \A k \in DOMAIN cache : cache[k] = None
                        /\ sweep = None

AtHook == {"pre", "post", "limiter", "allow", "expire"}

\* A request has an answer of its own and is at a plugin that exists.
Sound(r, q) ==
  /\ DOMAIN q = Fields
  /\ q.resp # None => Belongs(r, q.resp)
  /\ q.pc \in AtHook => q.i \in 1 .. Len(plugins)

RequestsSound == DOMAIN req = Requests /\ \A r \in Requests : Sound(r, req[r])

\* A context is pooled or held by one request, which has put its own key into it.
ContextsOwned ==
  /\ ctx \in Seq([hit : BOOLEAN, key : {None} \cup PluginKeys])
  /\ pool \subseteq DOMAIN ctx
  /\ \A x \in pool : ctx[x].key = None
  /\ \A r \in Requests : Holds(req[r]) =>
       /\ req[r].ctx \in DOMAIN ctx \ pool
       /\ Values(r).key \in {None, PluginKey(r)}
       /\ \A s \in Requests : Holds(req[s]) /\ req[s].ctx = req[r].ctx => s = r

\* What is stored, or about to be, is stored under its own key.
ItemsSound ==
  /\ DOMAIN items = PluginKeys
  /\ \A r \in Requests : items[PluginKey(r)] # None => Same(r, items[PluginKey(r)].resp)

CacheSound ==
  /\ DOMAIN cache = CacheKeys
  /\ \A r \in Requests : cache[CacheKey(r)] # None => Belongs(r, cache[CacheKey(r)])

WritersSound ==
  /\ DOMAIN writer = Requests
  /\ \A r \in Requests :
       /\ DOMAIN writer[r] = WriterFields
       /\ writer[r].pc # "idle" => writer[r].key = PluginKey(r) /\ Same(r, writer[r].resp)

IInv == Life /\ RequestsSound /\ ContextsOwned /\ ItemsSound /\ CacheSound /\ WritersSound

\* The plugins are cleaned up by the first caller of Close.
CloseSound ==
  /\ closed \in BOOLEAN
  /\ DOMAIN closer = set.Closers
  /\ built # "ready" => ~ closed
  /\ ~ closed => /\ \A c \in set.Closers : closer[c] = "idle"
                 /\ \A p \in DOMAIN cleaned : cleaned[p] = 0
  /\ closed => \/ /\ \E c \in set.Closers : /\ closer[c] = "clean"
                                            /\ \A d \in set.Closers : closer[d] = "clean" => d = c
                  /\ \A p \in DOMAIN cleaned : cleaned[p] = 0
               \/ /\ \A c \in set.Closers : closer[c] # "clean"
                  /\ \A p \in DOMAIN cleaned : cleaned[p] = IF p \in Range(plugins) THEN 1 ELSE 0

\* A Set that will add a response without removing one
Settled(r) == \/ writer[r].pc = "store"
              \/ writer[r].pc = "evict" /\ items[writer[r].victim] = None
AllSettled == \A r \in Storing : Settled(r)

VictimsKnown == \A r \in Requests : writer[r].pc = "evict" => writer[r].victim \in DOMAIN items

\* What is stored, and what the Sets under way will add: all of them but one, which
\* finds room or makes it.
Filled ==
  /\ overlaps \in Nat /\ Cardinality(Storing) <= overlaps + 1
  /\ VictimsKnown
  /\ Cardinality(Stored) + Cardinality(Storing) <= set.MaxSize + overlaps + 1
  /\ AllSettled => Cardinality(Stored) + Cardinality(Storing) <= set.MaxSize + overlaps

\* The bucket of a key, 0 when there is none yet
BucketOf(k) == IF k = "global" THEN 1 ELSE limiters[k]

AtLimiter == {"limiter", "allow"}

\* What was admitted under key k, up to the time its bucket b was last used, is covered by
\* the tokens that have gone.
Between(f, k, s, t) == {r \in Requests : LimitKey(r) = k /\ f[r] \in s .. t}
Covered(f, k, b) ==
  /\ \A r \in Requests : LimitKey(r) = k => f[r] <= b.last
  /\ \A s \in 0 .. b.last :
       Cardinality(Between(f, k, s, b.last)) + b.tokens <= set.Burst + set.Rate * (b.last - s)
  /\ \A s, t \in 0 .. b.last :
       s <= t => Cardinality(Between(f, k, s, t)) <= set.Burst + set.Rate * (t - s)

\* A key has at most one bucket, which its requests use, and a bucket one key.
BucketsOwned ==
  /\ DOMAIN limiters = LimitKeys
  /\ \A k \in LimitKeys : BucketOf(k) \in 0 .. Len(buckets)
  /\ \A k, j \in LimitKeys : BucketOf(k) = BucketOf(j) => k = j \/ BucketOf(k) = 0
  /\ \A r \in Requests : req[r].pc \in AtLimiter =>
       IF req[r].pc = "limiter" THEN LimitKey(r) # "global"
       ELSE req[r].held # 0 /\ req[r].held = BucketOf(LimitKey(r))

LimitsSound ==
  /\ now \in Nat
  /\ admitted \in [Requests -> Int]
  /\ buckets \in Seq([tokens : Nat, last : Nat]) /\ Len(buckets) >= 1
  /\ \A i \in DOMAIN buckets : buckets[i].last <= now
  /\ BucketsOwned
  /\ \A k \in LimitKeys : IF BucketOf(k) = 0 THEN \A r \in Requests : LimitKey(r) = k => admitted[r] = -1
                          ELSE Covered(admitted, k, buckets[BucketOf(k)])

-----------------------------------------------------------------------------
\* What a request asks for does not change.
LEMMA KeysStay ==
    ASSUME UNCHANGED set
    PROVE  /\ Requests' = Requests
           /\ \A r : PluginKey(r)' = PluginKey(r) /\ CacheKey(r)' = CacheKey(r)
           /\ \A r, x : Same(r, x)' = Same(r, x)
           /\ PluginKeys' = PluginKeys /\ CacheKeys' = CacheKeys
<1>1. Requests' = Requests /\ \A r : Ask(r)' = Ask(r)
  BY Zenon DEF Requests, Ask
<1>2. \A r : PluginKey(r)' = PluginKey(r) /\ CacheKey(r)' = CacheKey(r)
  BY Zenon, <1>1 DEF PluginKey, CacheKey
<1>3. \A r, x : Same(r, x)' = Same(r, x)
  BY Zenon, <1>1, <1>2 DEF Same
<1>4. PluginKeys' = PluginKeys
  BY SMT, <1>1, <1>2 DEF PluginKeys
<1>5. CacheKeys' = CacheKeys
  BY SMT, <1>1, <1>2 DEF CacheKeys
<1> QED
  BY Zenon, <1>1, <1>2, <1>3, <1>4, <1>5

\* Nor does what answers it, once the plugins are registered.
LEMMA AnswersStay ==
    ASSUME UNCHANGED <<set, plugins>>
    PROVE  \A r, x : /\ Belongs(r, x)' = Belongs(r, x)
                     /\ Sound(r, x)' = Sound(r, x)
<1>1. \A r, x : Belongs(r, x)' = Belongs(r, x)
  BY Zenon, KeysStay DEF Belongs
<1> QED
  BY Zenon, <1>1 DEF Sound

\* A request's own response answers it.
LEMMA OwnAnswer == \A r \in Requests : Belongs(r, r)
BY Zenon DEF Belongs, Same

\* A request that has begun finds the client built.
LEMMA Ready ==
    ASSUME IInv, NEW r \in Requests, req[r].pc # "idle"
    PROVE  built = "ready"
BY Zenon DEF IInv, Life

\* Once built, the client stays so.
LEMMA LifeStays ==
    ASSUME Life, built = "ready", UNCHANGED <<set, plugins, queue, built>>
    PROVE  Life'
BY Zenon DEF Life

\* One request goes on.
LEMMA RequestsMove ==
    ASSUME RequestsSound, UNCHANGED <<set, plugins>>,
           NEW r \in Requests, NEW q, Sound(r, q), req' = [req EXCEPT ![r] = q]
    PROVE  /\ RequestsSound' /\ req'[r] = q
           /\ \A s \in Requests : s # r => req'[s] = req[s]
<1>1. req'[r] = q /\ DOMAIN req' = Requests /\ \A s \in Requests : s # r => req'[s] = req[s]
  BY Zenon DEF RequestsSound
<1>2. \A s \in Requests : Sound(s, req'[s])
  BY Zenon, <1>1 DEF RequestsSound
<1>3. \A s \in Requests : Sound(s, req[s])'
  BY ZenonT(60), <1>2, AnswersStay
<1> QED
  BY Zenon, <1>1, <1>3, KeysStay DEF RequestsSound

\* A context stays with its request, which may put its key there.
LEMMA ContextsKept ==
    ASSUME ContextsOwned, UNCHANGED <<set, pool>>, NEW r \in Requests,
           Holds(req[r]), req'[r].ctx = req[r].ctx,
           \A s \in Requests : s # r => req'[s] = req[s],
           \/ UNCHANGED ctx
           \/ \E hit \in BOOLEAN : SetValues(r, PluginKey(r), hit)
    PROVE  ContextsOwned'
<1> DEFINE V == [hit : BOOLEAN, key : {None} \cup PluginKeys]
           x == req[r].ctx
           Kept == /\ ctx' \in Seq(V) /\ DOMAIN ctx' = DOMAIN ctx
                   /\ \A y \in DOMAIN ctx : y # x => ctx'[y] = ctx[y]
                   /\ ctx'[x].key \in {ctx[x].key, PluginKey(r)}
<1>1. ctx \in Seq(V) /\ x \in DOMAIN ctx \ pool /\ ctx[x].key \in {None, PluginKey(r)}
  BY Zenon DEF ContextsOwned, Values
<1>2. ASSUME UNCHANGED ctx
      PROVE  Kept
  BY Zenon, <1>1, <1>2
<1>3. ASSUME NEW hit \in BOOLEAN, SetValues(r, PluginKey(r), hit)
      PROVE  Kept
  <2> DEFINE v == [hit |-> hit \/ ctx[x].hit, key |-> PluginKey(r)]
  <2>1. ctx' = [ctx EXCEPT ![x] = v]
    BY Zenon, <1>3 DEF SetValues
  <2>2. v \in V
    BY Zenon DEF PluginKeys
  <2>3. v.key = PluginKey(r)
    BY Zenon
  <2> HIDE DEF v, V
  <2>4. ctx' \in Seq(V) /\ DOMAIN ctx' = DOMAIN ctx /\ ctx'[x] = v
    BY <1>1, <2>1, <2>2
  <2>5. \A y \in DOMAIN ctx : y # x => ctx'[y] = ctx[y]
    BY Zenon, <2>1
  <2> QED
    BY Zenon, <2>3, <2>4, <2>5
<1>4. Kept
  BY Zenon, <1>2, <1>3
<1> HIDE DEF V
<1>5. \A y \in pool : ctx'[y].key = None
  BY Zenon, <1>1, <1>4 DEF ContextsOwned
<1>6. ASSUME NEW s \in Requests, Holds(req'[s])
      PROVE  /\ req'[s].ctx \in DOMAIN ctx \ pool
             /\ ctx'[req'[s].ctx].key \in {None, PluginKey(s)}
  <2>1. CASE s = r
    BY Zenon, <1>1, <1>4, <2>1
  <2>2. CASE s # r
    <3>1. Holds(req[s]) /\ req'[s] = req[s]
      BY Zenon, <1>6, <2>2
    <3>2. /\ req[s].ctx \in DOMAIN ctx \ pool /\ req[s].ctx # x
          /\ ctx[req[s].ctx].key \in {None, PluginKey(s)}
      BY Zenon, <3>1, <2>2 DEF ContextsOwned, Values
    <3> QED
      BY Zenon, <1>4, <3>1, <3>2
  <2> QED
    BY Zenon, <2>1, <2>2
<1>7. \A s, t \in Requests :
        Holds(req'[s]) /\ Holds(req'[t]) /\ req'[t].ctx = req'[s].ctx => t = s
  <2>1. \A s \in Requests : s # r /\ Holds(req'[s]) =>
          Holds(req[s]) /\ req'[s].ctx = req[s].ctx /\ req[s].ctx # x
    BY Zenon DEF ContextsOwned
  <2>2. ASSUME NEW s \in Requests, NEW t \in Requests, s # r, t # r,
               Holds(req'[s]), Holds(req'[t]), req'[t].ctx = req'[s].ctx
        PROVE  t = s
    BY Zenon, <2>1, <2>2 DEF ContextsOwned
  <2> QED
    BY Zenon, <2>1, <2>2
<1>8. V = [hit : BOOLEAN, key : {None} \cup PluginKeys]'
  BY Zenon, KeysStay DEF V
<1> QED
  BY ZenonT(60), <1>1, <1>4, <1>5, <1>6, <1>7, <1>8, KeysStay DEF ContextsOwned, Values, Holds

\* What is stored, or about to be, stays.
LEMMA ItemsStay ==
    ASSUME ItemsSound, UNCHANGED <<set, items>>
    PROVE  ItemsSound'
<1>1. DOMAIN items' = PluginKeys' /\ Requests' = Requests
  BY Zenon, KeysStay DEF ItemsSound
<1>2. ASSUME NEW r \in Requests
      PROVE  (items[PluginKey(r)] # None => Same(r, items[PluginKey(r)].resp))'
  BY Zenon, KeysStay DEF ItemsSound
<1> QED
  BY Zenon, <1>1, <1>2 DEF ItemsSound

\* A step that leaves the client's cache alone
LEMMA CacheStays ==
    ASSUME CacheSound, UNCHANGED <<set, plugins, cache>>
    PROVE  CacheSound'
<1>1. DOMAIN cache' = CacheKeys' /\ Requests' = Requests
  BY Zenon, KeysStay DEF CacheSound
<1>2. ASSUME NEW r \in Requests
      PROVE  (cache[CacheKey(r)] # None => Belongs(r, cache[CacheKey(r)]))'
  BY Zenon, KeysStay, AnswersStay DEF CacheSound
<1> QED
  BY Zenon, <1>1, <1>2 DEF CacheSound

\* A step that leaves the Sets under way alone
LEMMA WritersStay ==
    ASSUME WritersSound, UNCHANGED <<set, writer>>
    PROVE  WritersSound'
<1>1. DOMAIN writer' = Requests' /\ Requests' = Requests
  BY Zenon, KeysStay DEF WritersSound
<1>2. ASSUME NEW r \in Requests
      PROVE  /\ DOMAIN writer'[r] = WriterFields
             /\ (writer[r].pc # "idle" => writer[r].key = PluginKey(r) /\ Same(r, writer[r].resp))'
  BY Zenon, KeysStay DEF WritersSound
<1> QED
  BY Zenon, <1>1, <1>2 DEF WritersSound

\* A step of one request that stores nothing
LEMMA Moved ==
    ASSUME IInv, NEW r \in Requests, NEW q, Holds(req[r]), Sound(r, q), q.ctx = req[r].ctx,
           req' = [req EXCEPT ![r] = q],
           UNCHANGED <<set, plugins, queue, built, pool, ctx, items, cache, writer>>
    PROVE  IInv'
<1>1. built = "ready" /\ IInv
  BY Zenon, Ready DEF Holds
<1>2. Life' /\ RequestsSound'
  BY Zenon, <1>1, LifeStays, RequestsMove DEF IInv
<1>3. ItemsSound' /\ CacheSound' /\ WritersSound'
  BY Zenon, ItemsStay, CacheStays, WritersStay DEF IInv
<1>4. req'[r] = q /\ \A s \in Requests : s # r => req'[s] = req[s]
  BY Zenon, RequestsMove DEF IInv
<1>5. ContextsOwned'
  BY Zenon, <1>4, ContextsKept DEF IInv
<1> QED
  BY Zenon, <1>2, <1>3, <1>5 DEF IInv

-----------------------------------------------------------------------------
\* From hook to hook.  Each of these keeps the context of the request.

Follows(r, q, n) == Sound(r, n) /\ n.ctx = q.ctx

\* The next pre hook, or the request itself
LEMMA OnwardFollows ==
    ASSUME plugins \in Seq(PluginNames), NEW r, NEW q, Sound(r, q), q.i \in 1 .. Len(plugins)
    PROVE  Follows(r, q, Onward(q))
<1>1. CASE q.i < Len(plugins)
  <2> DEFINE n == [q EXCEPT !.i = @ + 1, !.pc = "pre"]
  <2>1. n.ctx = q.ctx /\ n.resp = q.resp /\ DOMAIN n = Fields /\ n.i \in 1 .. Len(plugins)
    BY <1>1 DEF Sound, Fields
  <2>2. n = Onward(q)
    BY Zenon, <1>1 DEF Onward
  <2> QED
    BY Zenon, <2>1, <2>2 DEF Sound, Follows
<1>2. CASE ~ (q.i < Len(plugins))
  <2> DEFINE n == [q EXCEPT !.pc = "admit"]
  <2>1. n.ctx = q.ctx /\ n.resp = q.resp /\ DOMAIN n = Fields /\ n.pc \notin AtHook
    BY DEF Sound, Fields, AtHook
  <2>2. n = Onward(q)
    BY Zenon, <1>2 DEF Onward
  <2> QED
    BY Zenon, <2>1, <2>2 DEF Sound, Follows
<1> QED
  BY Zenon, <1>1, <1>2

\* The next post hook, or the end of them
LEMMA BackFollows ==
    ASSUME plugins \in Seq(PluginNames), NEW r, NEW q, Sound(r, q), q.i \in 1 .. Len(plugins)
    PROVE  /\ Follows(r, q, Back(q)) /\ DOMAIN Back(q) = Fields
           /\ Back(q).resp = q.resp /\ Back(q).i \in 1 .. Len(plugins)
<1>1. CASE q.i > 1
  <2> DEFINE n == [q EXCEPT !.i = @ - 1]
  <2>1. n.ctx = q.ctx /\ n.resp = q.resp /\ DOMAIN n = Fields /\ n.i \in 1 .. Len(plugins)
    BY <1>1 DEF Sound, Fields
  <2>2. n = Back(q)
    BY Zenon, <1>1 DEF Back
  <2> QED
    BY Zenon, <2>1, <2>2 DEF Sound, Follows
<1>2. CASE ~ (q.i > 1)
  <2> DEFINE n == [q EXCEPT !.pc = "store"]
  <2>1. n.ctx = q.ctx /\ n.resp = q.resp /\ DOMAIN n = Fields /\ n.i \in 1 .. Len(plugins)
    BY DEF Sound, Fields
  <2>2. n = Back(q)
    BY Zenon, <1>2 DEF Back
  <2> QED
    BY Zenon, <2>1, <2>2 DEF Sound, Follows
<1> QED
  BY Zenon, <1>1, <1>2

\* The post hooks begin, with an answer that belongs to the request.
LEMMA PostFollows ==
    ASSUME plugins \in Seq(PluginNames), NEW r, NEW q, Sound(r, q),
           NEW resp, NEW err, resp # None => Belongs(r, resp)
    PROVE  Follows(r, q, PostFrom(q, resp, err))
<1> DEFINE n == PostFrom(q, resp, err)
<1>1. n.ctx = q.ctx /\ n.resp = resp /\ DOMAIN n = Fields
  BY DEF Sound, Fields, PostFrom
<1>2. n.pc \in AtHook => n.i \in 1 .. Len(plugins)
  <2>1. n.i = Len(plugins) /\ n.pc = IF plugins = <<>> THEN "store" ELSE "post"
    BY DEF Sound, Fields, PostFrom
  <2>2. plugins # <<>> => Len(plugins) \in 1 .. Len(plugins)
    OBVIOUS
  <2> QED
    BY <2>1, <2>2 DEF AtHook
<1> QED
  BY Zenon, <1>1, <1>2 DEF Sound, Follows

\* A short circuit, with an answer that belongs to the request
LEMMA ShortFollows ==
    ASSUME plugins \in Seq(PluginNames), NEW r, NEW q, Sound(r, q),
           NEW resp, NEW err, resp # None => Belongs(r, resp)
    PROVE  Follows(r, q, ShortCircuit(q, resp, err))
<1>1. CASE err # None
  <2> DEFINE n == [q EXCEPT !.err = err, !.pc = "put"]
  <2>1. n.ctx = q.ctx /\ n.resp = q.resp /\ DOMAIN n = Fields /\ n.pc \notin AtHook
    BY DEF Sound, Fields, AtHook
  <2>2. n = ShortCircuit(q, resp, err)
    BY Zenon, <1>1 DEF ShortCircuit
  <2> QED
    BY Zenon, <2>1, <2>2 DEF Sound, Follows
<1>2. CASE err = None /\ resp # None
  <2> DEFINE p == PostFrom(q, resp, None)
             n == [p EXCEPT !.short = "response"]
  <2>1. n = ShortCircuit(q, resp, err)
    BY Zenon, <1>2 DEF ShortCircuit
  <2>2. Follows(r, q, p)
    BY Zenon, PostFollows
  <2> HIDE DEF p
  <2>3. Sound(r, p) /\ p.ctx = q.ctx /\ DOMAIN p = Fields
    BY Zenon, <2>2 DEF Follows, Sound
  <2>4. n.ctx = p.ctx /\ n.resp = p.resp /\ DOMAIN n = Fields /\ n.pc = p.pc /\ n.i = p.i
    BY <2>3 DEF Fields
  <2> QED
    BY Zenon, <2>1, <2>3, <2>4 DEF Sound, Follows
<1>3. CASE err = None /\ resp = None
  <2> DEFINE n == [q EXCEPT !.pc = "admit", !.short = "empty"]
  <2>1. n.ctx = q.ctx /\ n.resp = q.resp /\ DOMAIN n = Fields /\ n.pc \notin AtHook
    BY DEF Sound, Fields, AtHook
  <2>2. n = ShortCircuit(q, resp, err)
    BY Zenon, <1>3 DEF ShortCircuit
  <2> QED
    BY Zenon, <2>1, <2>2 DEF Sound, Follows
<1> QED
  BY Zenon, <1>1, <1>2, <1>3

-----------------------------------------------------------------------------
\* The steps of requests that store nothing

Kept == <<set, plugins, queue, built, pool, ctx, items, cache, writer>>

\* A request that goes on with its own context and answer keeps the invariant.
LEMMA Followed ==
    ASSUME IInv, NEW r \in Requests, Holds(req[r]), NEW q, Follows(r, req[r], q),
           req' = [req EXCEPT ![r] = q], UNCHANGED Kept
    PROVE  IInv'
BY Zenon, Moved DEF Follows, Kept

\* What is known of a request at a hook
LEMMA AtPlugin ==
    ASSUME IInv, NEW r \in Requests, req[r].pc \in AtHook
    PROVE  /\ plugins \in Seq(PluginNames) /\ Sound(r, req[r]) /\ Holds(req[r])
           /\ req[r].i \in 1 .. Len(plugins)
<1>1. Holds(req[r])
  BY DEF Holds, AtHook
<1> QED
  BY Zenon, <1>1 DEF IInv, Life, RequestsSound, Sound

\* A pre hook lets the request pass.
LEMMA PassKeeps ==
    ASSUME IInv, NEW r \in Requests, req[r].pc \in AtHook,
           \/ req' = [req EXCEPT ![r] = Onward(req[r])]
           \/ req' = [req EXCEPT ![r] = Back(req[r])],
           UNCHANGED Kept
    PROVE  IInv'
BY Zenon, AtPlugin, OnwardFollows, BackFollows, Followed

\* It ends the pre hooks.
LEMMA ShortKeeps ==
    ASSUME IInv, NEW r \in Requests, req[r].pc \in AtHook, NEW resp, NEW err,
           resp # None => Belongs(r, resp),
           req' = [req EXCEPT ![r] = ShortCircuit(req[r], resp, err)], UNCHANGED Kept
    PROVE  IInv'
BY Zenon, AtPlugin, ShortFollows, Followed

\* The hooks that only count or write a line
LEMMA QuietHooksKeep ==
    ASSUME IInv, NEW r \in Requests,
           \/ PreMetrics(r) \/ PreLogging(r) \/ PreObservability(r)
           \/ PostRateLimit(r) \/ PostMetrics(r) \/ PostLogging(r)
    PROVE  IInv'
<1>1. CASE PreMetrics(r) \/ PreLogging(r) \/ PreObservability(r)
  <2>1. req[r].pc = "pre" /\ req' = [req EXCEPT ![r] = Onward(req[r])] /\ UNCHANGED Kept
    BY Zenon, <1>1 DEF PreMetrics, PreLogging, PreObservability, Pre, Kept, life,
       contexts, backend
  <2>2. req[r].pc \in AtHook
    BY Zenon, <2>1 DEF AtHook
  <2> QED
    BY Zenon, <2>1, <2>2, PassKeeps
<1>2. CASE PostRateLimit(r) \/ PostMetrics(r) \/ PostLogging(r)
  <2>1. req[r].pc = "post" /\ req' = [req EXCEPT ![r] = Back(req[r])] /\ UNCHANGED Kept
    BY Zenon, <1>2 DEF PostRateLimit, PostMetrics, PostLogging, Post, Kept, life,
       contexts, backend
  <2>2. req[r].pc \in AtHook
    BY Zenon, <2>1 DEF AtHook
  <2> QED
    BY Zenon, <2>1, <2>2, PassKeeps
<1> QED
  BY Zenon, <1>1, <1>2

\* The rate limiter: which bucket, and whether it has a token
LEMMA LimiterKeeps ==
    ASSUME IInv, NEW r \in Requests, PreRateLimit(r) \/ GetLimiter(r) \/ Allow(r)
    PROVE  IInv'
<1>1. ASSUME NEW b, NEW pc, req[r].pc \in AtHook, pc \in AtHook, UNCHANGED Kept,
             req' = [req EXCEPT ![r].held = b, ![r].pc = pc]
      PROVE  IInv'
  <2> DEFINE q == [req[r] EXCEPT !.held = b, !.pc = pc]
  <2>1. Sound(r, req[r]) /\ Holds(req[r]) /\ req[r].i \in 1 .. Len(plugins)
    BY Zenon, <1>1, AtPlugin
  <2>2. q.ctx = req[r].ctx /\ q.resp = req[r].resp /\ q.i = req[r].i /\ DOMAIN q = Fields
    BY <2>1 DEF Sound, Fields
  <2>3. req' = [req EXCEPT ![r] = q]
    BY Zenon, <1>1 DEF IInv, RequestsSound
  <2> HIDE DEF q
  <2>4. Follows(r, req[r], q)
    BY Zenon, <2>1, <2>2 DEF Sound, Follows
  <2> QED
    BY Zenon, <1>1, <2>1, <2>3, <2>4, Followed
<1>2. CASE PreRateLimit(r)
  <2>1. PICK b : req' = [req EXCEPT ![r].held = b, ![r].pc = IF b = 0 THEN "limiter" ELSE "allow"]
    BY Zenon, <1>2 DEF PreRateLimit
  <2>2. req[r].pc \in AtHook /\ UNCHANGED Kept
    BY Zenon, <1>2 DEF PreRateLimit, Pre, AtHook, Kept, life, contexts, backend
  <2>3. (IF b = 0 THEN "limiter" ELSE "allow") \in AtHook
    BY Zenon DEF AtHook
  <2> QED
    BY Zenon, <1>1, <2>1, <2>2, <2>3
<1>3. CASE GetLimiter(r)
  <2>1. req' = [req EXCEPT ![r].held = limiters'[LimitKey(r)], ![r].pc = "allow"]
    BY Zenon, <1>3 DEF GetLimiter
  <2>2. req[r].pc \in AtHook /\ "allow" \in AtHook /\ UNCHANGED Kept
    BY Zenon, <1>3 DEF GetLimiter, AtHook, Kept, life, contexts, backend
  <2> QED
    BY Zenon, <1>1, <2>1, <2>2
<1>4. CASE Allow(r)
  <2>1. \/ req' = [req EXCEPT ![r] = Onward(req[r])]
        \/ req' = [req EXCEPT ![r] = ShortCircuit(req[r], None, "limit")]
    BY Zenon, <1>4 DEF Allow
  <2>2. req[r].pc \in AtHook /\ UNCHANGED Kept
    BY Zenon, <1>4 DEF Allow, AtHook, Kept, life, contexts, backend
  <2> QED
    BY Zenon, <2>1, <2>2, PassKeeps, ShortKeeps
<1> QED
  BY Zenon, <1>2, <1>3, <1>4

\* The plugin of the user
LEMMA PreUserKeeps ==
    ASSUME IInv, NEW r \in Requests, PreUser(r)
    PROVE  IInv'
<1>1. req[r].pc \in AtHook /\ UNCHANGED Kept
  BY Zenon DEF PreUser, Pre, AtHook, Kept, life, contexts, backend
<1>2. PICK what \in set.UserPre :
        req' = [req EXCEPT ![r] =
          CASE what = "pass" -> Onward(@)
            [] what = "respond" -> ShortCircuit(@, r, None)
            [] what = "fail" -> ShortCircuit(@, None, "plugin")
            [] what = "empty" -> ShortCircuit(@, None, None)]
  BY Zenon DEF PreUser
<1>3. what \in {"pass", "respond", "fail", "empty"}
  BY Zenon, SettingsAssumption DEF IInv, Life
<1>4. CASE what = "pass"
  <2>1. req' = [req EXCEPT ![r] = Onward(req[r])]
    BY <1>2, <1>4
  <2> QED
    BY Zenon, <1>1, <2>1, PassKeeps
<1>5. CASE what = "respond"
  <2>1. req' = [req EXCEPT ![r] = ShortCircuit(req[r], r, None)]
    BY <1>2, <1>5
  <2> QED
    BY Zenon, <1>1, <2>1, OwnAnswer, ShortKeeps
<1>6. CASE what = "fail"
  <2>1. req' = [req EXCEPT ![r] = ShortCircuit(req[r], None, "plugin")]
    BY <1>2, <1>6
  <2> QED
    BY Zenon, <1>1, <2>1, ShortKeeps
<1>7. CASE what = "empty"
  <2>1. req' = [req EXCEPT ![r] = ShortCircuit(req[r], None, None)]
    BY <1>2, <1>7
  <2> QED
    BY Zenon, <1>1, <2>1, ShortKeeps
<1> QED
  BY Zenon, <1>3, <1>4, <1>5, <1>6, <1>7

\* The post hooks that may change the answer
LEMMA PostChangesKeep ==
    ASSUME IInv, NEW r \in Requests, PostObservability(r) \/ PostUser(r)
    PROVE  IInv'
<1> DEFINE b == Back(req[r])
<1>1. req[r].pc \in AtHook /\ UNCHANGED Kept
  BY Zenon DEF PostObservability, PostUser, Post, AtHook, Kept, life, contexts, backend
<1>2. Holds(req[r]) /\ Sound(r, b) /\ b.ctx = req[r].ctx
  BY Zenon, <1>1, AtPlugin, BackFollows DEF Follows
<1> HIDE DEF b
<1>3. ASSUME NEW q, DOMAIN q = Fields, q.ctx = b.ctx, q.i = b.i, q.pc = b.pc,
             q.resp \in {b.resp, r, None}, req' = [req EXCEPT ![r] = q]
      PROVE  IInv'
  <2>1. Follows(r, req[r], q)
    BY Zenon, <1>2, <1>3, OwnAnswer DEF Sound, Follows
  <2> QED
    BY Zenon, <1>1, <1>2, <1>3, <2>1, Followed
<1>4. CASE PostObservability(r)
  <2> DEFINE q == [b EXCEPT !.err = None]
  <2>1. DOMAIN q = Fields /\ q.ctx = b.ctx /\ q.i = b.i /\ q.pc = b.pc /\ q.resp = b.resp
    BY <1>2 DEF Sound, Fields
  <2>2. req' = [req EXCEPT ![r] = q]
    BY Zenon, <1>4 DEF PostObservability, b
  <2> HIDE DEF q
  <2> QED
    BY Zenon, <1>3, <2>1, <2>2
<1>5. CASE PostUser(r)
  <2>1. PICK what \in set.UserPost :
          req' = [req EXCEPT ![r] =
            CASE what = "pass" -> Back(@)
              [] what = "recover" -> [Back(@) EXCEPT !.resp = r, !.err = None]
              [] what = "reject" -> [Back(@) EXCEPT !.resp = None, !.err = "plugin"]]
    BY Zenon, <1>5 DEF PostUser
  <2>2. what \in {"pass", "recover", "reject"}
    BY Zenon, SettingsAssumption DEF IInv, Life
  <2>3. CASE what = "pass"
    <3>1. req' = [req EXCEPT ![r] = b]
      BY <2>1, <2>3 DEF b
    <3> QED
      BY Zenon, <1>2, <1>3, <3>1 DEF Sound
  <2>4. CASE what = "recover"
    <3> DEFINE q == [b EXCEPT !.resp = r, !.err = None]
    <3>1. DOMAIN q = Fields /\ q.ctx = b.ctx /\ q.i = b.i /\ q.pc = b.pc /\ q.resp = r
      BY <1>2 DEF Sound, Fields
    <3>2. req' = [req EXCEPT ![r] = q]
      BY <2>1, <2>4 DEF b
    <3> HIDE DEF q
    <3> QED
      BY Zenon, <1>3, <3>1, <3>2
  <2>5. CASE what = "reject"
    <3> DEFINE q == [b EXCEPT !.resp = None, !.err = "plugin"]
    <3>1. DOMAIN q = Fields /\ q.ctx = b.ctx /\ q.i = b.i /\ q.pc = b.pc /\ q.resp = None
      BY <1>2 DEF Sound, Fields
    <3>2. req' = [req EXCEPT ![r] = q]
      BY <2>1, <2>5 DEF b
    <3> HIDE DEF q
    <3> QED
      BY Zenon, <1>3, <3>1, <3>2
  <2> QED
    BY Zenon, <2>2, <2>3, <2>4, <2>5
<1> QED
  BY Zenon, <1>4, <1>5

\* Between the hooks a request goes from point to point.
LEMMA PointKeeps ==
    ASSUME IInv, NEW r \in Requests, Holds(req[r]), NEW q, DOMAIN q = Fields,
           q.ctx = req[r].ctx, q.resp \in {req[r].resp, r}, q.pc \notin AtHook,
           req' = [req EXCEPT ![r] = q], UNCHANGED Kept
    PROVE  IInv'
<1>1. Follows(r, req[r], q)
  BY Zenon, OwnAnswer DEF IInv, RequestsSound, Sound, Follows
<1> QED
  BY Zenon, <1>1, Followed

\* checkRateLimit
LEMMA CheckRateLimitKeeps ==
    ASSUME IInv, NEW r \in Requests, CheckRateLimit(r)
    PROVE  IInv'
<1>1. req[r].pc = "admit" /\ UNCHANGED Kept
  BY Zenon DEF CheckRateLimit, Kept, life, contexts, backend
<1>2. Holds(req[r]) /\ DOMAIN req[r] = Fields /\ DOMAIN req = Requests
  <2>1. Holds(req[r])
    BY <1>1 DEF Holds
  <2> QED
    BY Zenon, <2>1 DEF IInv, RequestsSound, Sound
<1> DEFINE a == [req[r] EXCEPT !.pc = "lookup"]
           b == [req[r] EXCEPT !.pc = "put", !.err = "refused"]
<1>3. /\ DOMAIN a = Fields /\ a.ctx = req[r].ctx /\ a.resp = req[r].resp /\ a.pc \notin AtHook
      /\ DOMAIN b = Fields /\ b.ctx = req[r].ctx /\ b.resp = req[r].resp /\ b.pc \notin AtHook
  BY <1>2 DEF Fields, AtHook
<1>4. req' = [req EXCEPT ![r] = a] \/ req' = [req EXCEPT ![r] = b]
  BY Zenon, <1>2 DEF CheckRateLimit
<1> HIDE DEF a, b
<1> QED
  BY Zenon, <1>1, <1>2, <1>3, <1>4, PointKeeps

\* The lookup in the client's cache finds an answer to the same request.
LEMMA LookUpKeeps ==
    ASSUME IInv, NEW r \in Requests, LookUp(r)
    PROVE  IInv'
<1>1. req[r].pc = "lookup" /\ UNCHANGED Kept
  BY Zenon DEF LookUp, Kept, life, contexts, backend
<1>2. Holds(req[r]) /\ Sound(r, req[r]) /\ DOMAIN req = Requests /\ plugins \in Seq(PluginNames)
  <2>1. Holds(req[r])
    BY <1>1 DEF Holds
  <2> QED
    BY Zenon, <2>1 DEF IInv, RequestsSound, Life
<1> DEFINE a == [req[r] EXCEPT !.pc = "route"]
           b == [req[r] EXCEPT !.pc = "put", !.err = "price"]
<1>3. /\ DOMAIN a = Fields /\ a.ctx = req[r].ctx /\ a.resp = req[r].resp /\ a.pc \notin AtHook
      /\ DOMAIN b = Fields /\ b.ctx = req[r].ctx /\ b.resp = req[r].resp /\ b.pc \notin AtHook
  BY <1>2 DEF Fields, AtHook, Sound
<1>4. PICK resp \in GetFromCache(r) :
        \/ req' = [req EXCEPT ![r] = a] \/ req' = [req EXCEPT ![r] = b]
        \/ req' = [req EXCEPT ![r] = PostFrom(req[r], resp, None)]
  BY Zenon, <1>2 DEF LookUp
<1>5. resp # None => Belongs(r, resp)
  BY Zenon DEF GetFromCache, IInv, CacheSound
<1>6. Follows(r, req[r], PostFrom(req[r], resp, None))
  BY Zenon, <1>2, <1>5, PostFollows
<1> HIDE DEF a, b
<1> QED
  BY Zenon, <1>1, <1>2, <1>3, <1>4, <1>6, PointKeeps, Followed

\* executeWithRetry answers the request itself.
LEMMA ExecuteKeeps ==
    ASSUME IInv, NEW r \in Requests, ExecuteWithRetry(r)
    PROVE  IInv'
<1>1. req[r].pc = "route" /\ UNCHANGED Kept
  BY Zenon DEF ExecuteWithRetry, Kept, life, contexts, backend
<1>2. Holds(req[r]) /\ Sound(r, req[r]) /\ plugins \in Seq(PluginNames)
  <2>1. Holds(req[r])
    BY <1>1 DEF Holds
  <2> QED
    BY Zenon, <2>1 DEF IInv, RequestsSound, Life
<1>3. \/ req' = [req EXCEPT ![r] = PostFrom(req[r], r, None)]
      \/ req' = [req EXCEPT ![r] = PostFrom(req[r], None, "provider")]
  BY Zenon DEF ExecuteWithRetry
<1>4. /\ Follows(r, req[r], PostFrom(req[r], r, None))
      /\ Follows(r, req[r], PostFrom(req[r], None, "provider"))
  BY Zenon, <1>2, OwnAnswer, PostFollows
<1> QED
  BY Zenon, <1>1, <1>2, <1>3, <1>4, Followed

\* The steps of a stream
LEMMA StreamKeeps ==
    ASSUME IInv, NEW r \in Requests,
           \/ RunStreamPreHooks(r) \/ OpenStream(r) \/ RunOnStreamChunk(r) \/ EndStream(r)
           \/ RunStreamPostHooks(r)
    PROVE  IInv'
<1>1. req[r].pc \in {"spre", "sadmit", "sread", "spost"} /\ UNCHANGED Kept
  <2>1. CASE RunStreamPreHooks(r) \/ OpenStream(r)
    BY Zenon, <2>1 DEF RunStreamPreHooks, OpenStream, Kept, life, contexts, backend
  <2>2. CASE RunOnStreamChunk(r) \/ EndStream(r) \/ RunStreamPostHooks(r)
    BY Zenon, <2>2 DEF RunOnStreamChunk, EndStream, RunStreamPostHooks, Kept, life,
       contexts, backend
  <2> QED
    BY Zenon, <2>1, <2>2
<1>2. Holds(req[r]) /\ DOMAIN req[r] = Fields /\ DOMAIN req = Requests
  <2>1. Holds(req[r])
    BY <1>1 DEF Holds
  <2> QED
    BY Zenon, <2>1 DEF IInv, RequestsSound, Sound
<1>3. ASSUME NEW pc, NEW n, NEW err, pc \notin AtHook, StreamTo(r, pc, n, err)
      PROVE  IInv'
  <2> DEFINE q == [req[r] EXCEPT !.pc = pc, !.i = n, !.err = err]
  <2>1. DOMAIN q = Fields /\ q.ctx = req[r].ctx /\ q.resp = req[r].resp /\ q.pc = pc
    BY <1>2 DEF Fields
  <2>2. req' = [req EXCEPT ![r] = q]
    BY Zenon, <1>2, <1>3 DEF StreamTo
  <2> HIDE DEF q
  <2> QED
    BY Zenon, <1>1, <1>2, <1>3, <2>1, <2>2, PointKeeps
<1>4. ASSUME NEW pc, NEW err, pc \notin AtHook,
             req' = [req EXCEPT ![r].pc = pc, ![r].err = err]
      PROVE  IInv'
  <2> DEFINE q == [req[r] EXCEPT !.pc = pc, !.err = err]
  <2>1. DOMAIN q = Fields /\ q.ctx = req[r].ctx /\ q.resp = req[r].resp /\ q.pc = pc
    BY <1>2 DEF Fields
  <2>2. req' = [req EXCEPT ![r] = q]
    BY Zenon, <1>2, <1>4
  <2> HIDE DEF q
  <2> QED
    BY Zenon, <1>1, <1>2, <1>4, <2>1, <2>2, PointKeeps
<1>5. {"sadmit", "sread", "spost", "put"} \cap AtHook = {}
  BY DEF AtHook
<1>6. CASE RunStreamPreHooks(r)
  <2>1. ASSUME HasUser PROVE IInv'
    <3>1. PICK what \in set.UserPre :
            CASE what = "pass" -> StreamTo(r, "sadmit", Len(plugins), None)
              [] what = "respond" -> StreamTo(r, "sread", MyIndex, None)
              [] what = "fail" -> StreamTo(r, "spost", MyIndex, "plugin")
              [] what = "empty" -> StreamTo(r, "sadmit", MyIndex, None)
      BY Zenon, <1>6, <2>1 DEF RunStreamPreHooks
    <3>2. what \in {"pass", "respond", "fail", "empty"}
      BY Zenon, SettingsAssumption DEF IInv, Life
    <3>3. \/ StreamTo(r, "sadmit", Len(plugins), None)
          \/ StreamTo(r, "sread", MyIndex, None)
          \/ StreamTo(r, "spost", MyIndex, "plugin")
          \/ StreamTo(r, "sadmit", MyIndex, None)
      BY Zenon, <3>1, <3>2
    <3> QED
      BY Zenon, <1>3, <1>5, <3>3
  <2>2. ASSUME ~ HasUser PROVE IInv'
    <3>1. StreamTo(r, "sadmit", Len(plugins), None)
      BY Zenon, <1>6, <2>2 DEF RunStreamPreHooks
    <3> QED
      BY Zenon, <1>3, <1>5, <3>1
  <2> QED
    BY Zenon, <2>1, <2>2
<1>7. CASE OpenStream(r)
  <2>1. \/ req' = [req EXCEPT ![r].pc = "put", ![r].err = "refused"]
        \/ req' = [req EXCEPT ![r].pc = "sread", ![r].err = None]
        \/ req' = [req EXCEPT ![r].pc = "put", ![r].err = "provider"]
    BY Zenon, <1>7 DEF OpenStream
  <2> QED
    BY Zenon, <1>4, <1>5, <2>1
<1>8. CASE EndStream(r)
  <2>1. \E err : req' = [req EXCEPT ![r].pc = "spost", ![r].err = err]
    BY Zenon, <1>8 DEF EndStream
  <2> QED
    BY Zenon, <1>4, <1>5, <2>1
<1>9. CASE RunStreamPostHooks(r)
  <2> DEFINE q == [req[r] EXCEPT !.pc = "put"]
  <2>1. DOMAIN q = Fields /\ q.ctx = req[r].ctx /\ q.resp = req[r].resp /\ q.pc = "put"
    BY <1>2 DEF Fields
  <2>2. req' = [req EXCEPT ![r] = q]
    BY Zenon, <1>2, <1>9 DEF RunStreamPostHooks
  <2> HIDE DEF q
  <2> QED
    BY Zenon, <1>1, <1>2, <1>5, <2>1, <2>2, PointKeeps
<1>10. CASE RunOnStreamChunk(r)
  <2> DEFINE a == [req[r] EXCEPT !.chunks = @ + 1, !.resp = r]
             b == [req[r] EXCEPT !.chunks = @ + 1]
  <2>1. /\ DOMAIN a = Fields /\ a.ctx = req[r].ctx /\ a.resp = r /\ a.pc = req[r].pc
        /\ DOMAIN b = Fields /\ b.ctx = req[r].ctx /\ b.resp = req[r].resp /\ b.pc = req[r].pc
    BY <1>2 DEF Fields
  <2>2. req' = [req EXCEPT ![r] = a] \/ req' = [req EXCEPT ![r] = b]
    BY Zenon, <1>2, <1>10 DEF RunOnStreamChunk
  <2>3. req[r].pc \notin AtHook
    BY Zenon, <1>5, <1>10 DEF RunOnStreamChunk
  <2> HIDE DEF a, b
  <2> QED
    BY Zenon, <1>1, <1>2, <2>1, <2>2, <2>3, PointKeeps
<1> QED
  BY Zenon, <1>6, <1>7, <1>8, <1>9, <1>10

-----------------------------------------------------------------------------
\* The steps that take, fill or give back a context

\* ctxPool.Get gives a context that nobody holds and that is empty.
LEMMA ContextTaken ==
    ASSUME ContextsOwned, UNCHANGED set, NEW r \in Requests, ~ Holds(req[r]), NEW x,
           \/ x \in pool /\ pool' = pool \ {x} /\ UNCHANGED ctx
           \/ x = Len(ctx) + 1 /\ ctx' = Append(ctx, NoValues) /\ UNCHANGED pool,
           req'[r].ctx = x, \A s \in Requests : s # r => req'[s] = req[s]
    PROVE  ContextsOwned'
<1> DEFINE V == [hit : BOOLEAN, key : {None} \cup PluginKeys]
<1>1. ctx \in Seq(V) /\ pool \subseteq DOMAIN ctx
  BY Zenon DEF ContextsOwned
<1>2. NoValues \in V /\ NoValues.key = None
  BY Zenon DEF NoValues
<1>3. /\ ctx' \in Seq(V) /\ pool' \subseteq pool /\ pool \subseteq DOMAIN ctx
      /\ DOMAIN ctx \subseteq DOMAIN ctx' /\ x \in DOMAIN ctx' \ pool'
      /\ \A y \in DOMAIN ctx : ctx'[y] = ctx[y]
  <2> HIDE DEF V
  <2>1. CASE x \in pool /\ pool' = pool \ {x} /\ UNCHANGED ctx
    BY Zenon, <1>1, <2>1
  <2>2. CASE x = Len(ctx) + 1 /\ ctx' = Append(ctx, NoValues) /\ UNCHANGED pool
    BY <1>1, <1>2, <2>2
  <2> QED
    BY Zenon, <2>1, <2>2
<1>4. ctx'[x].key = None
  <2> HIDE DEF V
  <2>1. CASE x \in pool /\ pool' = pool \ {x} /\ UNCHANGED ctx
    BY Zenon, <2>1 DEF ContextsOwned
  <2>2. CASE x = Len(ctx) + 1 /\ ctx' = Append(ctx, NoValues) /\ UNCHANGED pool
    BY <1>1, <1>2, <2>2
  <2> QED
    BY Zenon, <2>1, <2>2
<1> HIDE DEF V
<1>5. \A s \in Requests : s # r /\ Holds(req'[s]) =>
        /\ Holds(req[s]) /\ req'[s].ctx = req[s].ctx
        /\ req[s].ctx \in DOMAIN ctx \ pool /\ ctx[req[s].ctx].key \in {None, PluginKey(s)}
  BY Zenon DEF ContextsOwned, Values
<1>6. \A s \in Requests : s # r /\ Holds(req'[s]) => req'[s].ctx # x
  <2>1. \A y \in DOMAIN ctx \ pool : y # x
    <3>1. CASE x \in pool
      BY Zenon, <3>1
    <3>2. CASE x = Len(ctx) + 1
      BY <1>1, <3>2
    <3> QED
      BY Zenon, <3>1, <3>2
  <2> QED
    BY Zenon, <1>5, <2>1
<1>7. \A y \in pool' : ctx'[y].key = None
  BY Zenon, <1>3 DEF ContextsOwned
<1>8. ASSUME NEW s \in Requests, Holds(req'[s])
      PROVE  /\ req'[s].ctx \in DOMAIN ctx' \ pool'
             /\ ctx'[req'[s].ctx].key \in {None, PluginKey(s)}
  <2>1. CASE s = r
    BY Zenon, <1>3, <1>4, <2>1
  <2>2. CASE s # r
    BY ZenonT(60), <1>3, <1>5, <1>8, <2>2
  <2> QED
    BY Zenon, <2>1, <2>2
<1>9. ASSUME NEW s \in Requests, NEW t \in Requests,
             Holds(req'[s]), Holds(req'[t]), req'[t].ctx = req'[s].ctx
      PROVE  t = s
  <2>1. CASE s # r /\ t # r
    BY Zenon, <1>5, <1>9, <2>1 DEF ContextsOwned
  <2> QED
    BY Zenon, <1>6, <1>9, <2>1
<1>10. V = [hit : BOOLEAN, key : {None} \cup PluginKeys]'
  BY Zenon, KeysStay DEF V
<1> QED
  BY ZenonT(60), <1>3, <1>7, <1>8, <1>9, <1>10, KeysStay DEF ContextsOwned, Values, Holds

\* ChatCompletion and ChatCompletionStream take a context.
LEMMA BeginKeeps ==
    ASSUME IInv, NEW r \in Requests, Chat(r) \/ Stream(r)
    PROVE  IInv'
<1>1. /\ built = "ready" /\ req[r].pc = "idle"
      /\ UNCHANGED <<set, queue, built, plugins, items, writer, cache>>
  BY Zenon DEF Chat, Stream, life, backend
<1>2. PICK pc \in {"admit", "pre", "spre"} : GetContext(r, pc) /\ (pc = "pre" => plugins # <<>>)
  <2>1. CASE Chat(r)
    <3>1. CASE plugins = <<>>
      <4>1. GetContext(r, "admit")
        BY Zenon, <2>1, <3>1 DEF Chat
      <4>2. "admit" # "pre"
        OBVIOUS
      <4> QED
        BY Zenon, <4>1, <4>2
    <3>2. CASE plugins # <<>>
      BY Zenon, <2>1, <3>2 DEF Chat
    <3> QED
      BY Zenon, <3>1, <3>2
  <2>2. CASE Stream(r)
    <3>1. "spre" # "pre"
      OBVIOUS
    <3> QED
      BY Zenon, <2>2, <3>1 DEF Stream
  <2> QED
    BY Zenon, <2>1, <2>2
<1>3. PICK x : /\ \/ x \in pool /\ pool' = pool \ {x} /\ UNCHANGED ctx
                  \/ x = Len(ctx) + 1 /\ ctx' = Append(ctx, NoValues) /\ UNCHANGED pool
               /\ req' = [req EXCEPT ![r] = [@ EXCEPT !.pc = pc, !.i = 1, !.ctx = x]]
  BY Zenon, <1>2 DEF GetContext
<1> DEFINE q == [req[r] EXCEPT !.pc = pc, !.i = 1, !.ctx = x]
<1>4. Sound(r, req[r]) /\ plugins \in Seq(PluginNames) /\ req' = [req EXCEPT ![r] = q]
  BY Zenon, <1>3 DEF IInv, RequestsSound, Life
<1>5. DOMAIN q = Fields /\ q.pc = pc /\ q.i = 1 /\ q.ctx = x /\ q.resp = req[r].resp
  BY <1>4 DEF Sound, Fields
<1> HIDE DEF q
<1>6. q.pc \in AtHook => q.i \in 1 .. Len(plugins)
  BY <1>2, <1>4, <1>5 DEF AtHook
<1>7. Sound(r, q)
  BY Zenon, <1>4, <1>5, <1>6 DEF Sound
<1>8. RequestsSound' /\ req'[r] = q /\ \A s \in Requests : s # r => req'[s] = req[s]
  BY Zenon, <1>1, <1>4, <1>7, RequestsMove DEF IInv
<1>9. Life' /\ ItemsSound' /\ CacheSound' /\ WritersSound'
  BY Zenon, <1>1, LifeStays, ItemsStay, CacheStays, WritersStay DEF IInv
<1>10. ~ Holds(req[r])
  BY Zenon, <1>1 DEF Holds
<1>11. ContextsOwned'
  BY Zenon, <1>1, <1>3, <1>5, <1>8, <1>10, ContextTaken DEF IInv
<1> QED
  BY Zenon, <1>8, <1>9, <1>11 DEF IInv

\* A context that goes back is empty.
LEMMA PutKeeps ==
    ASSUME IInv, NEW r \in Requests, PutContext(r)
    PROVE  IInv'
<1> DEFINE x == req[r].ctx
           V == [hit : BOOLEAN, key : {None} \cup PluginKeys]
           q == [req[r] EXCEPT !.pc = "done"]
<1>1. /\ req[r].pc = "put" /\ ctx' = [ctx EXCEPT ![x] = NoValues] /\ pool' = pool \cup {x}
      /\ UNCHANGED <<set, queue, built, plugins, items, writer, cache>>
  BY Zenon DEF PutContext, Reset, life, backend
<1>2. Holds(req[r])
  BY <1>1 DEF Holds
<1>3. Sound(r, req[r]) /\ built = "ready"
  BY Zenon, <1>2, Ready DEF IInv, RequestsSound, Holds
<1>4. DOMAIN q = Fields /\ q.pc = "done" /\ q.resp = req[r].resp
  BY <1>3 DEF Sound, Fields
<1>5. req' = [req EXCEPT ![r] = q]
  BY Zenon DEF PutContext
<1> HIDE DEF q
<1>6. Sound(r, q) /\ ~ Holds(q)
  <2>1. "done" \notin AtHook /\ "done" \in {"idle", "done"}
    BY DEF AtHook
  <2> QED
    BY Zenon, <1>3, <1>4, <2>1 DEF Sound, Holds
<1>7. RequestsSound' /\ req'[r] = q /\ \A s \in Requests : s # r => req'[s] = req[s]
  BY Zenon, <1>1, <1>5, <1>6, RequestsMove DEF IInv
<1>8. Life' /\ ItemsSound' /\ CacheSound' /\ WritersSound'
  BY Zenon, <1>1, <1>3, LifeStays, ItemsStay, CacheStays, WritersStay DEF IInv
<1>9. ctx \in Seq(V) /\ x \in DOMAIN ctx \ pool /\ pool \subseteq DOMAIN ctx
  BY Zenon, <1>2 DEF IInv, ContextsOwned
<1>10. NoValues \in V /\ NoValues.key = None
  BY Zenon DEF NoValues
<1> HIDE DEF V
<1>11. ctx' \in Seq(V) /\ DOMAIN ctx' = DOMAIN ctx /\ ctx'[x] = NoValues
  BY <1>1, <1>9, <1>10
<1>12. \A y \in DOMAIN ctx : y # x => ctx'[y] = ctx[y]
  BY Zenon, <1>1
<1>13. pool' \subseteq DOMAIN ctx' /\ \A y \in pool' : ctx'[y].key = None
  BY Zenon, <1>1, <1>9, <1>10, <1>11, <1>12 DEF IInv, ContextsOwned
<1>14. \A s \in Requests : Holds(req'[s]) =>
         /\ s # r /\ Holds(req[s]) /\ req'[s].ctx = req[s].ctx
         /\ req[s].ctx \in DOMAIN ctx \ pool /\ req[s].ctx # x
         /\ ctx[req[s].ctx].key \in {None, PluginKey(s)}
  BY Zenon, <1>2, <1>6, <1>7 DEF IInv, ContextsOwned, Values
<1>15. ASSUME NEW s \in Requests, Holds(req'[s])
       PROVE  /\ req'[s].ctx \in DOMAIN ctx' \ pool'
              /\ ctx'[req'[s].ctx].key \in {None, PluginKey(s)}
  BY Zenon, <1>1, <1>11, <1>12, <1>14, <1>15
<1>16. ASSUME NEW s \in Requests, NEW t \in Requests,
              Holds(req'[s]), Holds(req'[t]), req'[t].ctx = req'[s].ctx
       PROVE  t = s
  BY Zenon, <1>14, <1>16 DEF IInv, ContextsOwned
<1>17. V = [hit : BOOLEAN, key : {None} \cup PluginKeys]'
  BY Zenon, <1>1, KeysStay DEF V
<1>18. ContextsOwned'
  BY Zenon, <1>1, <1>11, <1>13, <1>15, <1>16, <1>17, KeysStay DEF ContextsOwned, Values,
     Holds
<1> QED
  BY Zenon, <1>7, <1>8, <1>18 DEF IInv

-----------------------------------------------------------------------------
\* The steps that store

\* The answer is stored in the client's cache under the key of its request.
LEMMA FinishKeeps ==
    ASSUME IInv, NEW r \in Requests, Finish(r)
    PROVE  IInv'
<1> DEFINE err == IF req[r].short = "response" THEN None ELSE req[r].err
           q == [req[r] EXCEPT !.pc = "put", !.err = err]
<1>1. req[r].pc = "store" /\ UNCHANGED <<set, queue, built, plugins, pool, ctx, items, writer>>
  BY Zenon DEF Finish, life, contexts, backend
<1>2. Holds(req[r])
  BY <1>1 DEF Holds
<1>3. Sound(r, req[r]) /\ DOMAIN req = Requests /\ built = "ready"
  BY Zenon, <1>2, Ready DEF IInv, RequestsSound, Holds
<1>4. DOMAIN q = Fields /\ q.pc \notin AtHook /\ q.resp = req[r].resp /\ q.ctx = req[r].ctx
  BY <1>3 DEF Sound, Fields, AtHook
<1>5. req' = [req EXCEPT ![r] = q]
  BY Zenon, <1>3 DEF Finish
<1> HIDE DEF q
<1>6. Sound(r, q)
  BY Zenon, <1>3, <1>4 DEF Sound
<1>7. RequestsSound' /\ req'[r] = q /\ \A s \in Requests : s # r => req'[s] = req[s]
  BY Zenon, <1>1, <1>5, <1>6, RequestsMove DEF IInv
<1>8. Life' /\ ItemsSound' /\ WritersSound'
  BY Zenon, <1>1, <1>3, LifeStays, ItemsStay, WritersStay DEF IInv
<1>9. ContextsOwned'
  BY Zenon, <1>1, <1>2, <1>4, <1>7, ContextsKept DEF IInv
<1>10. CacheSound'
  <2>1. CASE UNCHANGED cache
    BY Zenon, <1>1, <2>1, CacheStays DEF IInv
  <2>2. CASE cache' = [cache EXCEPT ![CacheKey(r)] = req[r].resp] /\ req[r].resp # None
    <3>1. Belongs(r, req[r].resp) /\ DOMAIN cache' = CacheKeys
      BY Zenon, <1>3, <2>2 DEF Sound, IInv, CacheSound
    <3>2. ASSUME NEW s \in Requests, cache'[CacheKey(s)] # None
          PROVE  Belongs(s, cache'[CacheKey(s)])
      <4>1. CacheKey(s) \in CacheKeys
        BY Zenon DEF CacheKeys
      <4>2. CASE CacheKey(s) = CacheKey(r)
        <5>1. PluginKey(s) = PluginKey(r)
          BY <4>2 DEF CacheKey, PluginKey
        <5>2. cache'[CacheKey(s)] = req[r].resp
          BY Zenon, <2>2, <3>1, <4>1, <4>2
        <5> QED
          BY Zenon, <3>1, <4>2, <5>1, <5>2 DEF Belongs, Same
      <4>3. CASE CacheKey(s) # CacheKey(r)
        <5>1. cache'[CacheKey(s)] = cache[CacheKey(s)]
          BY Zenon, <2>2, <3>1, <4>1, <4>3 DEF IInv, CacheSound
        <5> QED
          BY Zenon, <3>2, <5>1 DEF IInv, CacheSound
      <4> QED
        BY Zenon, <4>2, <4>3
    <3>3. \A s \in Requests : (cache[CacheKey(s)] # None => Belongs(s, cache[CacheKey(s)]))'
      BY Zenon, <1>1, <3>2, KeysStay, AnswersStay
    <3> QED
      BY Zenon, <1>1, <3>1, <3>3, KeysStay DEF CacheSound
  <2>3. \/ UNCHANGED cache
        \/ cache' = [cache EXCEPT ![CacheKey(r)] = req[r].resp] /\ req[r].resp # None
    BY Zenon DEF Finish, StoreInCache
  <2> QED
    BY Zenon, <2>1, <2>2, <2>3
<1> QED
  BY Zenon, <1>7, <1>8, <1>9, <1>10 DEF IInv

\* An item is deleted.
LEMMA ItemsCleared ==
    ASSUME ItemsSound, UNCHANGED set, NEW k, items' = [items EXCEPT ![k] = None]
    PROVE  ItemsSound'
<1>1. DOMAIN items' = PluginKeys' /\ Requests' = Requests
  BY Zenon, KeysStay DEF ItemsSound
<1>2. ASSUME NEW r \in Requests
      PROVE  items'[PluginKey(r)] \in {None, items[PluginKey(r)]}
  <2>1. PluginKey(r) \in DOMAIN items
    BY Zenon DEF ItemsSound, PluginKeys
  <2> QED
    BY Zenon, <2>1
<1>3. ASSUME NEW r \in Requests
      PROVE  (items[PluginKey(r)] # None => Same(r, items[PluginKey(r)].resp))'
  BY Zenon, <1>2, KeysStay DEF ItemsSound
<1> QED
  BY Zenon, <1>1, <1>3 DEF ItemsSound

\* The pre hook of the response cache
LEMMA CacheHookKeeps ==
    ASSUME IInv, NEW r \in Requests, PreCache(r) \/ ExpireItem(r)
    PROVE  IInv'
<1>1. /\ req[r].pc \in AtHook
      /\ UNCHANGED <<set, queue, built, plugins, pool, cache, writer>>
  BY Zenon DEF PreCache, ExpireItem, Pre, AtHook, life, backend
<1>2. /\ plugins \in Seq(PluginNames) /\ Sound(r, req[r]) /\ Holds(req[r])
      /\ req[r].i \in 1 .. Len(plugins) /\ DOMAIN req = Requests /\ built = "ready"
  <2>1. req[r].pc # "idle"
    BY <1>1 DEF AtHook
  <2> QED
    BY Zenon, <1>1, <2>1, AtPlugin, Ready DEF IInv, RequestsSound
<1>3. ASSUME NEW q, Follows(r, req[r], q), req' = [req EXCEPT ![r] = q], ItemsSound',
             UNCHANGED ctx \/ \E hit \in BOOLEAN : SetValues(r, PluginKey(r), hit)
      PROVE  IInv'
  <2>1. RequestsSound' /\ req'[r] = q /\ \A s \in Requests : s # r => req'[s] = req[s]
    BY Zenon, <1>1, <1>3, RequestsMove DEF IInv, Follows
  <2>2. Life' /\ CacheSound' /\ WritersSound'
    BY Zenon, <1>1, <1>2, LifeStays, CacheStays, WritersStay DEF IInv
  <2>3. ContextsOwned'
    BY Zenon, <1>1, <1>2, <1>3, <2>1, ContextsKept DEF IInv, Follows
  <2> QED
    BY Zenon, <1>3, <2>1, <2>2, <2>3 DEF IInv
<1>4. Follows(r, req[r], Onward(req[r]))
  BY Zenon, <1>2, OnwardFollows
<1>5. CASE PreCache(r)
  <2> DEFINE e == items[PluginKey(r)]
  <2>1. ItemsSound'
    BY Zenon, <1>1, <1>5, ItemsStay DEF PreCache, backend, IInv
  <2>2. CASE Expired(e)
    <3> DEFINE q == [req[r] EXCEPT !.pc = "expire"]
    <3>1. UNCHANGED ctx /\ req' = [req EXCEPT ![r] = q]
      BY Zenon, <1>5, <2>2 DEF PreCache
    <3>2. DOMAIN q = Fields /\ q.i = req[r].i /\ q.resp = req[r].resp /\ q.ctx = req[r].ctx
      BY <1>2 DEF Sound, Fields
    <3> HIDE DEF q
    <3>3. Follows(r, req[r], q)
      BY Zenon, <1>2, <3>2 DEF Sound, Follows
    <3> QED
      BY Zenon, <1>3, <2>1, <3>1, <3>3
  <2>3. CASE ~ Expired(e)
    <3>1. SetValues(r, PluginKey(r), e # None) /\ (e # None) \in BOOLEAN
      BY Zenon, <1>5, <2>3 DEF PreCache
    <3>2. CASE e = None
      <4>1. req' = [req EXCEPT ![r] = Onward(req[r])]
        BY Zenon, <1>5, <2>3, <3>2 DEF PreCache
      <4> QED
        BY Zenon, <1>3, <1>4, <2>1, <3>1, <4>1
    <3>3. CASE e # None
      <4>1. req' = [req EXCEPT ![r] = ShortCircuit(req[r], e.resp, None)]
        BY Zenon, <1>5, <2>3, <3>3 DEF PreCache
      <4>2. "cache" \in Range(plugins)
        <5>1. plugins[req[r].i] = "cache" /\ req[r].i \in DOMAIN plugins
          BY <1>2, <1>5 DEF PreCache, Pre
        <5> QED
          BY Zenon, <5>1 DEF Range
      <4>3. Belongs(r, e.resp)
        BY Zenon, <3>3, <4>2 DEF IInv, ItemsSound, Belongs
      <4>4. Follows(r, req[r], ShortCircuit(req[r], e.resp, None))
        BY Zenon, <1>2, <4>3, ShortFollows
      <4> QED
        BY Zenon, <1>3, <2>1, <3>1, <4>1, <4>4
    <3> QED
      BY Zenon, <3>2, <3>3
  <2> QED
    BY Zenon, <2>2, <2>3
<1>6. CASE ExpireItem(r)
  <2>1. SetValues(r, PluginKey(r), FALSE) /\ req' = [req EXCEPT ![r] = Onward(req[r])]
    BY Zenon, <1>6 DEF ExpireItem
  <2>2. ItemsSound'
    BY Zenon, <1>1, <1>6, ItemsCleared DEF ExpireItem, IInv
  <2> QED
    BY Zenon, <1>3, <1>4, <2>1, <2>2
<1> QED
  BY Zenon, <1>5, <1>6

\* One writer goes on.
LEMMA WritersMove ==
    ASSUME WritersSound, UNCHANGED set, NEW r \in Requests, NEW w, DOMAIN w = WriterFields,
           w.pc # "idle" => w.key = PluginKey(r) /\ Same(r, w.resp),
           writer' = [writer EXCEPT ![r] = w]
    PROVE  WritersSound'
<1>1. DOMAIN writer' = Requests' /\ Requests' = Requests
  BY Zenon, KeysStay DEF WritersSound
<1>2. \A s \in Requests : writer'[s] = IF s = r THEN w ELSE writer[s]
  BY Zenon DEF WritersSound
<1>3. ASSUME NEW s \in Requests
      PROVE  /\ DOMAIN writer'[s] = WriterFields
             /\ (writer[s].pc # "idle" => writer[s].key = PluginKey(s) /\ Same(s, writer[s].resp))'
  <2>1. CASE s = r
    BY Zenon, <1>2, <2>1, KeysStay
  <2>2. CASE s # r
    <3>1. writer'[s] = writer[s]
      BY Zenon, <1>2, <2>2
    <3> QED
      BY ZenonT(60), <3>1, KeysStay DEF WritersSound
  <2> QED
    BY Zenon, <2>1, <2>2
<1> QED
  BY Zenon, <1>1, <1>3 DEF WritersSound

\* What a request leaves to be stored is its own answer, under its own key.
LEMMA PostCacheKeeps ==
    ASSUME IInv, NEW r \in Requests, PostCache(r)
    PROVE  IInv'
<1>1. /\ req[r].pc \in AtHook /\ req' = [req EXCEPT ![r] = Back(req[r])]
      /\ UNCHANGED <<set, queue, built, plugins, pool, ctx, items, cache>>
  BY Zenon DEF PostCache, Post, AtHook, life, contexts
<1>2. /\ plugins \in Seq(PluginNames) /\ Sound(r, req[r]) /\ Holds(req[r])
      /\ req[r].i \in 1 .. Len(plugins) /\ built = "ready"
  <2>1. req[r].pc # "idle"
    BY <1>1 DEF AtHook
  <2> QED
    BY Zenon, <1>1, <2>1, AtPlugin, Ready
<1>3. Sound(r, Back(req[r])) /\ Back(req[r]).ctx = req[r].ctx
  BY Zenon, <1>2, BackFollows DEF Follows
<1>4. RequestsSound' /\ req'[r] = Back(req[r]) /\ \A s \in Requests : s # r => req'[s] = req[s]
  BY Zenon, <1>1, <1>3, RequestsMove DEF IInv
<1>5. Life' /\ ItemsSound' /\ CacheSound'
  BY Zenon, <1>1, <1>2, LifeStays, ItemsStay, CacheStays DEF IInv
<1>6. ContextsOwned'
  BY Zenon, <1>1, <1>2, <1>3, <1>4, ContextsKept DEF IInv
<1>7. WritersSound'
  <2> DEFINE w == [writer[r] EXCEPT !.pc = "count", !.key = Values(r).key, !.resp = req[r].resp]
  <2>1. CASE UNCHANGED writer
    BY Zenon, <1>1, <2>1, WritersStay DEF IInv
  <2>2. CASE /\ writer' = [writer EXCEPT ![r] = w]
             /\ req[r].resp # None /\ Values(r).key # None
    <3>1. DOMAIN writer[r] = WriterFields
      BY Zenon DEF IInv, WritersSound
    <3>2. DOMAIN w = WriterFields /\ w.key = Values(r).key /\ w.resp = req[r].resp
      BY <3>1 DEF WriterFields
    <3>3. Values(r).key = PluginKey(r) /\ Same(r, req[r].resp)
      BY Zenon, <1>2, <2>2 DEF IInv, ContextsOwned, Sound, Belongs
    <3> HIDE DEF w
    <3> QED
      BY Zenon, <1>1, <2>2, <3>2, <3>3, WritersMove DEF IInv
  <2>3. \/ UNCHANGED writer
        \/ /\ writer' = [writer EXCEPT ![r] = w]
           /\ req[r].resp # None /\ Values(r).key # None
    BY Zenon DEF PostCache
  <2> QED
    BY Zenon, <2>1, <2>2, <2>3
<1> QED
  BY Zenon, <1>4, <1>5, <1>6, <1>7 DEF IInv

\* A step that leaves requests and contexts alone
LEMMA OthersKeep ==
    ASSUME IInv, UNCHANGED <<set, plugins, req, pool, ctx, cache>>, Life', ItemsSound', WritersSound'
    PROVE  IInv'
<1>1. CacheSound'
  BY Zenon, CacheStays DEF IInv
<1>2. RequestsSound'
  BY Zenon, KeysStay, AnswersStay DEF IInv, RequestsSound
<1>3. ContextsOwned'
  <2>1. [hit : BOOLEAN, key : {None} \cup PluginKeys]' = [hit : BOOLEAN, key : {None} \cup PluginKeys]
    BY Zenon, KeysStay
  <2>2. \A s \in Requests : Values(s)' = Values(s) /\ PluginKey(s)' = PluginKey(s)
    BY Zenon, KeysStay DEF Values
  <2> QED
    BY Zenon, <2>1, <2>2, KeysStay DEF IInv, ContextsOwned, Holds
<1> QED
  BY Zenon, <1>1, <1>2, <1>3 DEF IInv

\* MemoryCacheBackend.Set
LEMMA WriteKeeps ==
    ASSUME IInv, NEW r \in Requests, Write(r)
    PROVE  IInv'
<1>0. /\ DOMAIN writer[r] = WriterFields /\ DOMAIN writer = Requests
      /\ writer[r].pc # "idle" => writer[r].key = PluginKey(r) /\ Same(r, writer[r].resp)
  BY Zenon DEF IInv, WritersSound
<1>1. /\ writer[r].pc \in {"count", "range", "evict", "store"}
      /\ UNCHANGED <<set, queue, built, plugins, req, pool, ctx, cache>>
  BY Zenon DEF Write, SetCounts, SetRanges, SetEvicts, SetStores, life, contexts
<1>2. writer[r].pc # "idle"
  BY <1>1
<1>3. Life'
  BY Zenon, <1>1, <1>2, LifeStays DEF IInv, Life
<1>4. CASE SetCounts(r)
  <2> DEFINE pc == IF Full THEN "range" ELSE "store"
             w == [writer[r] EXCEPT !.pc = pc]
  <2>1. UNCHANGED items /\ writer' = [writer EXCEPT ![r] = w]
    BY Zenon, <1>4 DEF SetCounts
  <2>2. DOMAIN w = WriterFields /\ w.key = writer[r].key /\ w.resp = writer[r].resp
    BY <1>0 DEF WriterFields
  <2> HIDE DEF w
  <2>3. WritersSound' /\ ItemsSound'
    BY Zenon, <1>0, <1>1, <1>2, <2>1, <2>2, WritersMove, ItemsStay DEF IInv
  <2> QED
    BY Zenon, <1>1, <1>3, <2>3, OthersKeep
<1>5. CASE SetRanges(r)
  <2>1. PICK w : /\ UNCHANGED items /\ writer' = [writer EXCEPT ![r] = w]
                 /\ DOMAIN w = WriterFields /\ w.key = writer[r].key /\ w.resp = writer[r].resp
    <3>1. CASE \E k \in Stored : writer' = [writer EXCEPT ![r].pc = "evict", ![r].victim = k]
      <4>1. PICK k : writer' = [writer EXCEPT ![r].pc = "evict", ![r].victim = k]
        BY Zenon, <3>1
      <4> DEFINE w == [writer[r] EXCEPT !.pc = "evict", !.victim = k]
      <4>2. DOMAIN w = WriterFields /\ w.key = writer[r].key /\ w.resp = writer[r].resp
        BY <1>0 DEF WriterFields
      <4>3. writer' = [writer EXCEPT ![r] = w]
        BY Zenon, <1>0, <4>1
      <4>4. UNCHANGED items
        BY Zenon, <1>5 DEF SetRanges
      <4> HIDE DEF w
      <4> QED
        BY Zenon, <4>2, <4>3, <4>4
    <3>2. CASE writer' = [writer EXCEPT ![r].pc = "store"]
      <4> DEFINE w == [writer[r] EXCEPT !.pc = "store"]
      <4>2. DOMAIN w = WriterFields /\ w.key = writer[r].key /\ w.resp = writer[r].resp
        BY <1>0 DEF WriterFields
      <4>3. writer' = [writer EXCEPT ![r] = w]
        BY Zenon, <1>0, <3>2
      <4>4. UNCHANGED items
        BY Zenon, <1>5 DEF SetRanges
      <4> HIDE DEF w
      <4> QED
        BY Zenon, <4>2, <4>3, <4>4
    <3> QED
      BY Zenon, <1>5, <3>1, <3>2 DEF SetRanges
  <2>2. WritersSound' /\ ItemsSound'
    BY Zenon, <1>0, <1>1, <1>2, <2>1, WritersMove, ItemsStay DEF IInv
  <2> QED
    BY Zenon, <1>1, <1>3, <2>2, OthersKeep
<1>6. CASE SetEvicts(r)
  <2> DEFINE w == [writer[r] EXCEPT !.pc = "store", !.victim = None]
  <2>1. DOMAIN w = WriterFields /\ w.key = writer[r].key /\ w.resp = writer[r].resp
    BY <1>0 DEF WriterFields
  <2>2. writer' = [writer EXCEPT ![r] = w]
    BY Zenon, <1>0, <1>6 DEF SetEvicts
  <2> HIDE DEF w
  <2>3. WritersSound'
    BY Zenon, <1>0, <1>1, <1>2, <2>1, <2>2, WritersMove DEF IInv
  <2>4. ItemsSound'
    BY Zenon, <1>1, <1>6, ItemsCleared DEF SetEvicts, IInv
  <2> QED
    BY Zenon, <1>1, <1>3, <2>3, <2>4, OthersKeep
<1>7. CASE SetStores(r)
  <2> DEFINE e == [resp |-> writer[r].resp, until |-> now + set.TTL]
             w == [pc |-> "idle", key |-> None, resp |-> None, victim |-> None]
  <2>1. DOMAIN w = WriterFields /\ w.pc = "idle" /\ e.resp = writer[r].resp
    BY DEF WriterFields
  <2>2. writer' = [writer EXCEPT ![r] = w] /\ items' = [items EXCEPT ![PluginKey(r)] = e]
    BY Zenon, <1>0, <1>2, <1>7 DEF SetStores
  <2> HIDE DEF w, e
  <2>3. WritersSound'
    BY Zenon, <1>1, <2>1, <2>2, WritersMove DEF IInv
  <2>4. ASSUME NEW s \in Requests, items'[PluginKey(s)] # None
        PROVE  Same(s, items'[PluginKey(s)].resp)
    <3>1. PluginKey(s) \in DOMAIN items
      BY Zenon DEF IInv, ItemsSound, PluginKeys
    <3>2. CASE PluginKey(s) = PluginKey(r)
      BY Zenon, <1>0, <1>2, <2>1, <2>2, <3>1, <3>2 DEF Same
    <3>3. CASE PluginKey(s) # PluginKey(r)
      BY Zenon, <2>2, <2>4, <3>1, <3>3 DEF IInv, ItemsSound
    <3> QED
      BY Zenon, <3>2, <3>3
  <2>5. \A s \in Requests : (items[PluginKey(s)] # None => Same(s, items[PluginKey(s)].resp))'
    BY Zenon, <1>1, <2>4, KeysStay
  <2>6. ItemsSound'
    BY Zenon, <1>1, <2>2, <2>5, KeysStay DEF IInv, ItemsSound
  <2> QED
    BY Zenon, <1>1, <1>3, <2>3, <2>6, OthersKeep
<1> QED
  BY Zenon, <1>4, <1>5, <1>6, <1>7 DEF Write

\* The backend's clean-up, and what concerns neither requests nor responses
LEMMA RestKeeps ==
    ASSUME IInv,
           \/ CleanupFinds \/ CleanupDeletes \/ ResetCounters \/ ResetModels \/ Tick
           \/ \E c \in set.Closers : Shutdown(c) \/ Cleanup(c)
    PROVE  IInv'
<1>1. /\ UNCHANGED <<set, queue, built, plugins, req, pool, ctx, cache, writer>>
      /\ UNCHANGED items \/ \E k : items' = [items EXCEPT ![k] = None]
      /\ sweep' \in {sweep, None} \/ Stored # {}
  <2>1. CASE CleanupFinds \/ CleanupDeletes
    BY Zenon, <2>1 DEF CleanupFinds, CleanupDeletes, life, contexts
  <2>2. CASE ResetCounters \/ ResetModels \/ Tick
    BY Zenon, <2>2 DEF ResetCounters, ResetModels, Tick, life, contexts, backend
  <2>3. CASE \E c \in set.Closers : Shutdown(c) \/ Cleanup(c)
    BY Zenon, <2>3 DEF Shutdown, Cleanup, contexts, backend
  <2> QED
    BY Zenon, <2>1, <2>2, <2>3
<1>2. ItemsSound' /\ WritersSound'
  BY Zenon, <1>1, ItemsStay, ItemsCleared, WritersStay DEF IInv
<1>3. Life'
  <2>1. CASE built = "ready"
    BY Zenon, <1>1, <2>1, LifeStays DEF IInv
  <2>2. CASE built # "ready"
    <3>1. (\A k \in DOMAIN items : items[k] = None) /\ sweep = None
      BY Zenon, <2>2 DEF IInv, Life
    <3>2. (\A k \in DOMAIN items' : items'[k] = None) /\ sweep' = None
      BY Zenon, <1>1, <3>1 DEF Stored
    <3> QED
      BY Zenon, <1>1, <2>2, <3>2, KeysStay DEF IInv, Life
  <2> QED
    BY Zenon, <2>1, <2>2
<1> QED
  BY Zenon, <1>1, <1>2, <1>3, OthersKeep

\* Pipeline.Register inserts within the list.
LEMMA PluginInserted ==
    ASSUME plugins \in Seq(PluginNames), NEW p \in PluginNames
    PROVE  InsertPlugin(p) \in Seq(PluginNames)
<1> DEFINE S == {i \in DOMAIN plugins : Priority(plugins[i]) <= Priority(p)}
<1>1. DOMAIN plugins = 1 .. Len(plugins) /\ Len(plugins) \in Nat
  OBVIOUS
<1>2. IsFiniteSet(1 .. Len(plugins)) /\ Cardinality(1 .. Len(plugins)) = Len(plugins)
  BY <1>1, FS_Interval
<1>3. S \subseteq 1 .. Len(plugins)
  BY <1>1
<1> HIDE DEF S
<1>4. Cardinality(S) \in Nat /\ Cardinality(S) <= Len(plugins)
  <2>1. IsFiniteSet(S) /\ Cardinality(S) <= Cardinality(1 .. Len(plugins))
    BY Zenon, <1>2, <1>3, FS_Subset
  <2> QED
    BY Zenon, <1>2, <2>1, FS_CardinalityType
<1>5. Position(p) = Cardinality(S) + 1
  BY Zenon DEF Position, S
<1>6. /\ SubSeq(plugins, 1, Position(p) - 1) \in Seq(PluginNames)
      /\ SubSeq(plugins, Position(p), Len(plugins)) \in Seq(PluginNames)
  BY <1>1, <1>4, <1>5
<1> QED
  BY <1>6 DEF InsertPlugin

\* llmux.New
LEMMA BuildingKeeps ==
    ASSUME IInv, Register \/ Built
    PROVE  IInv'
<1>1. /\ built = "new"
      /\ UNCHANGED <<set, req, pool, ctx, items, cache, writer, sweep>>
  BY Zenon DEF Register, Built, contexts, backend
<1>2. /\ \A r \in Requests : req[r].pc = "idle" /\ req[r].resp = None /\ writer[r].pc = "idle"
      /\ (\A k \in DOMAIN items : items[k] = None) /\ (\A k \in DOMAIN cache : cache[k] = None)
      /\ sweep = None /\ set \in Settings
      /\ plugins \in Seq(PluginNames) /\ queue \in Seq(PluginNames)
  <2>1. built # "ready"
    BY <1>1
  <2> QED
    BY Zenon, <2>1 DEF IInv, Life
<1>3. plugins' \in Seq(PluginNames) /\ queue' \in Seq(PluginNames)
  <2>1. CASE Built
    BY Zenon, <1>2, <2>1 DEF Built
  <2>2. CASE Register
    <3>1. Head(queue) \in PluginNames /\ Tail(queue) \in Seq(PluginNames)
      BY <1>2, <2>2 DEF Register
    <3>2. queue' = Tail(queue) /\ (UNCHANGED plugins \/ plugins' = InsertPlugin(Head(queue)))
      BY Zenon, <2>2 DEF Register
    <3> QED
      BY Zenon, <1>2, <3>1, <3>2, PluginInserted
  <2> QED
    BY Zenon, <2>1, <2>2
<1>4. Life'
  BY Zenon, <1>1, <1>2, <1>3, KeysStay DEF Life
<1>5. RequestsSound'
  <2>1. "idle" \notin AtHook
    BY DEF AtHook
  <2>2. \A r \in Requests : Sound(r, req[r])'
    BY Zenon, <1>1, <1>2, <2>1 DEF IInv, RequestsSound, Sound
  <2> QED
    BY Zenon, <1>1, <2>2, KeysStay DEF IInv, RequestsSound
<1>6. ItemsSound' /\ WritersSound'
  BY Zenon, <1>1, ItemsStay, WritersStay DEF IInv
<1>7. CacheSound'
  <2>1. \A r \in Requests : cache[CacheKey(r)] = None
    BY Zenon, <1>2 DEF IInv, CacheSound, CacheKeys
  <2>2. \A r \in Requests : (cache[CacheKey(r)] = None)'
    BY Zenon, <1>1, <2>1, KeysStay
  <2> QED
    BY Zenon, <1>1, <2>2, KeysStay DEF IInv, CacheSound
<1>8. ContextsOwned'
  <2>1. [hit : BOOLEAN, key : {None} \cup PluginKeys]' = [hit : BOOLEAN, key : {None} \cup PluginKeys]
    BY Zenon, <1>1, KeysStay
  <2>2. \A s \in Requests : Values(s)' = Values(s) /\ PluginKey(s)' = PluginKey(s)
    BY Zenon, <1>1, KeysStay DEF Values
  <2> QED
    BY Zenon, <1>1, <2>1, <2>2, KeysStay DEF IInv, ContextsOwned, Holds
<1> QED
  BY Zenon, <1>4, <1>5, <1>6, <1>7, <1>8 DEF IInv

\* The client before llmux.New
LEMMA IInvInit == Init => IInv
<1> SUFFICES ASSUME Init PROVE IInv
  BY Zenon
<1>1. /\ set \in Settings /\ queue = set.Plugins /\ plugins = <<>> /\ pool = {} /\ ctx = <<>>
      /\ sweep = None
  BY Zenon DEF Init
<1>2. \A r \in Requests : /\ req[r].pc = "idle" /\ req[r].resp = None /\ DOMAIN req[r] = Fields
                          /\ writer[r].pc = "idle" /\ DOMAIN writer[r] = WriterFields
  <2> TAKE r \in Requests
  <2>1. req[r] = [pc |-> "idle", i |-> 0, ctx |-> 0, resp |-> None, err |-> None, short |-> "no",
                  held |-> 0, chunks |-> 0]
    BY Zenon DEF Init
  <2>2. writer[r] = [pc |-> "idle", key |-> None, resp |-> None, victim |-> None]
    BY Zenon DEF Init
  <2>3. req[r].pc = "idle" /\ req[r].resp = None /\ DOMAIN req[r] = Fields
    BY <2>1 DEF Fields
  <2>4. writer[r].pc = "idle" /\ DOMAIN writer[r] = WriterFields
    BY <2>2 DEF WriterFields
  <2> QED
    BY Zenon, <2>3, <2>4
<1>3. DOMAIN req = Requests /\ DOMAIN writer = Requests /\ DOMAIN items = PluginKeys
      /\ DOMAIN cache = CacheKeys
  BY Zenon DEF Init, PluginKeys, CacheKeys
<1>4. (\A k \in DOMAIN items : items[k] = None) /\ (\A k \in DOMAIN cache : cache[k] = None)
  BY Zenon DEF Init
<1>5. Life
  <2>1. queue \in Seq(PluginNames) /\ plugins \in Seq(PluginNames)
    <3>1. set.Plugins \in Seq(PluginNames)
      BY Zenon, <1>1, SettingsAssumption DEF PluginNames
    <3> QED
      BY <1>1, <3>1
  <2> QED
    BY Zenon, <1>1, <1>2, <1>4, <2>1 DEF Life
<1>6. RequestsSound
  <2>1. "idle" \notin AtHook
    BY DEF AtHook
  <2> QED
    BY Zenon, <1>2, <1>3, <2>1 DEF RequestsSound, Sound
<1>7. ContextsOwned
  <2>1. ctx \in Seq([hit : BOOLEAN, key : {None} \cup PluginKeys])
    BY <1>1
  <2> QED
    BY Zenon, <1>1, <1>2, <2>1 DEF ContextsOwned, Holds
<1>8. ItemsSound /\ CacheSound /\ WritersSound
  BY Zenon, <1>2, <1>3, <1>4 DEF ItemsSound, CacheSound, WritersSound, PluginKeys, CacheKeys
<1> QED
  BY Zenon, <1>5, <1>6, <1>7, <1>8 DEF IInv

\* Every step keeps the invariant.
LEMMA IInvStays == IInv /\ [Next]_vars => IInv'
<1> SUFFICES ASSUME IInv, [Next]_vars PROVE IInv'
  BY Zenon
<1>1. ASSUME NEW r \in Requests, Hook(r) PROVE IInv'
  BY Zenon, <1>1, QuietHooksKeep, LimiterKeeps, PreUserKeeps, PostChangesKeep,
     CacheHookKeeps, PostCacheKeeps DEF Hook
<1>2. ASSUME NEW r \in Requests, Serve(r) PROVE IInv'
  BY Zenon, <1>2, BeginKeeps, CheckRateLimitKeeps, LookUpKeeps, ExecuteKeeps, FinishKeeps,
     StreamKeeps, PutKeeps DEF Serve
<1>3. CASE UNCHANGED vars
  <2>1. /\ UNCHANGED <<set, plugins, req, pool, ctx, cache>>
        /\ UNCHANGED <<queue, built, items, writer, sweep>>
    BY Zenon, <1>3 DEF vars, life, contexts, backend
  <2>2. Life' /\ ItemsSound' /\ WritersSound'
    BY Zenon, <2>1, KeysStay, ItemsStay, WritersStay DEF IInv, Life
  <2> QED
    BY Zenon, <2>1, <2>2, OthersKeep
<1>4. CASE \/ CleanupFinds \/ CleanupDeletes \/ ResetCounters \/ ResetModels \/ Tick
           \/ \E c \in set.Closers : Shutdown(c) \/ Cleanup(c)
  BY Zenon, <1>4, RestKeeps
<1> QED
  BY Zenon, <1>1, <1>2, <1>3, <1>4, WriteKeeps, BuildingKeeps DEF Next

\* client.go, pipeline.go, cache.go: for any clients, plugins and number of requests at once, pooled
\* contexts and cached responses never carry one request's answer into another.
THEOREM AnswersAlwaysBelong == Spec => []AnswersBelong
<1>1. IInv => AnswersBelong
  BY Zenon DEF IInv, RequestsSound, Sound, Belongs, Same, AnswersBelong
<1> QED
  BY <1>1, IInvInit, IInvStays, PTL DEF Spec

-----------------------------------------------------------------------------
\* Cleaning up

\* Requests and responses do not close the client.
LEMMA ServingOpen ==
    ASSUME NEW r \in Requests, Hook(r) \/ Serve(r) \/ Write(r)
    PROVE  UNCHANGED <<set, plugins, built, closed, closer, cleaned>>
<1>1. ASSUME Hook(r) PROVE UNCHANGED <<set, life>>
  <2>1. ASSUME \/ PreRateLimit(r) \/ GetLimiter(r) \/ Allow(r) \/ PreCache(r) \/ ExpireItem(r)
               \/ PreMetrics(r) \/ PreLogging(r)
        PROVE  UNCHANGED <<set, life>>
    BY Zenon, <2>1 DEF PreRateLimit, GetLimiter, Allow, PreCache, ExpireItem, PreMetrics,
       PreLogging
  <2>2. ASSUME \/ PreObservability(r) \/ PreUser(r) \/ PostRateLimit(r) \/ PostCache(r)
               \/ PostMetrics(r) \/ PostLogging(r) \/ PostObservability(r) \/ PostUser(r)
        PROVE  UNCHANGED <<set, life>>
    BY Zenon, <2>2 DEF PreObservability, PreUser, PostRateLimit, PostCache, PostMetrics,
       PostLogging, PostObservability, PostUser
  <2> QED
    BY Zenon, <1>1, <2>1, <2>2 DEF Hook
<1>2. ASSUME Serve(r) PROVE UNCHANGED <<set, life>>
  BY Zenon, <1>2 DEF Serve, Chat, CheckRateLimit, LookUp, ExecuteWithRetry, Finish, Stream,
     RunStreamPreHooks, OpenStream, RunOnStreamChunk, EndStream, RunStreamPostHooks, PutContext
<1>3. ASSUME Write(r) PROVE UNCHANGED <<set, life>>
  BY Zenon, <1>3 DEF Write, SetCounts, SetRanges, SetEvicts, SetStores
<1> QED
  BY Zenon, <1>1, <1>2, <1>3 DEF life

\* Every step keeps to one cleanup.
LEMMA CloseStays == CloseSound /\ [Next]_vars => CloseSound'
<1> SUFFICES ASSUME CloseSound, [Next]_vars PROVE CloseSound'
  BY Zenon
<1>1. ASSUME UNCHANGED <<set, plugins, built, closed, closer, cleaned>> PROVE CloseSound'
  BY Zenon, <1>1 DEF CloseSound
<1>2. CASE Register \/ Built
  <2>1. UNCHANGED <<set, closed, closer, cleaned>> /\ built = "new"
    BY Zenon, <1>2 DEF Register, Built
  <2>2. ~ closed
    <3>1. built # "ready"
      BY <2>1
    <3> QED
      BY Zenon, <3>1 DEF CloseSound
  <2> QED
    BY Zenon, <2>1, <2>2 DEF CloseSound
<1>3. ASSUME NEW c \in set.Closers, Shutdown(c) PROVE CloseSound'
  <2>1. UNCHANGED <<set, plugins, built, cleaned>> /\ built = "ready" /\ closer[c] = "idle"
    BY Zenon, <1>3 DEF Shutdown
  <2>2. CASE closed
    <3>1. UNCHANGED closed /\ closer' = [closer EXCEPT ![c] = "done"]
      BY Zenon, <1>3, <2>2 DEF Shutdown
    <3>2. \A d \in set.Closers : closer'[d] = "clean" <=> closer[d] = "clean"
      <4>1. \A d \in set.Closers : closer'[d] = IF d = c THEN "done" ELSE closer[d]
        BY Zenon, <3>1 DEF CloseSound
      <4> QED
        BY <2>1, <4>1
    <3>3. DOMAIN closer' = set.Closers
      BY Zenon, <3>1 DEF CloseSound
    <3> QED
      BY ZenonT(60), <2>1, <2>2, <3>1, <3>2, <3>3 DEF CloseSound
  <2>3. CASE ~ closed
    <3>1. closed' = TRUE /\ closer' = [closer EXCEPT ![c] = "clean"]
      BY Zenon, <1>3, <2>3 DEF Shutdown, Swap
    <3>2. \A d \in set.Closers : closer'[d] = "clean" <=> d = c
      <4>1. \A d \in set.Closers : closer'[d] = IF d = c THEN "clean" ELSE closer[d]
        BY Zenon, <3>1 DEF CloseSound
      <4>2. \A d \in set.Closers : closer[d] = "idle"
        BY Zenon, <2>3 DEF CloseSound
      <4> QED
        BY <4>1, <4>2
    <3>3. DOMAIN closer' = set.Closers
      BY Zenon, <3>1 DEF CloseSound
    <3> QED
      BY Zenon, <2>1, <2>3, <3>1, <3>2, <3>3 DEF CloseSound
  <2> QED
    BY Zenon, <2>2, <2>3
<1>4. ASSUME NEW c \in set.Closers, Cleanup(c) PROVE CloseSound'
  <2>1. /\ UNCHANGED <<set, plugins, built, closed>> /\ closer[c] = "clean"
        /\ closer' = [closer EXCEPT ![c] = "done"]
        /\ cleaned' = [p \in DOMAIN cleaned |->
                         cleaned[p] + (IF p \in Range(plugins) THEN 1 ELSE 0)]
    BY Zenon, <1>4 DEF Cleanup
  <2>2. closed
    <3>1. closer[c] # "idle"
      BY <2>1
    <3> QED
      BY Zenon, <3>1 DEF CloseSound
  <2>3. /\ \A d \in set.Closers : closer[d] = "clean" => d = c
        /\ \A p \in DOMAIN cleaned : cleaned[p] = 0
    BY Zenon, <2>1, <2>2 DEF CloseSound
  <2>4. \A d \in set.Closers : closer'[d] # "clean"
    <3>1. \A d \in set.Closers : closer'[d] = IF d = c THEN "done" ELSE closer[d]
      BY Zenon, <2>1 DEF CloseSound
    <3> QED
      BY <2>3, <3>1
  <2>5. DOMAIN cleaned' = DOMAIN cleaned
        /\ \A p \in DOMAIN cleaned : cleaned'[p] = IF p \in Range(plugins) THEN 1 ELSE 0
    BY <2>1, <2>3
  <2>6. DOMAIN closer' = set.Closers
    BY Zenon, <2>1 DEF CloseSound
  <2> QED
    BY Zenon, <2>1, <2>2, <2>4, <2>5, <2>6 DEF CloseSound
<1>5. ASSUME \/ CleanupFinds \/ CleanupDeletes \/ ResetCounters \/ ResetModels \/ Tick
             \/ UNCHANGED vars
      PROVE  UNCHANGED <<set, plugins, built, closed, closer, cleaned>>
  BY Zenon, <1>5 DEF CleanupFinds, CleanupDeletes, ResetCounters, ResetModels, Tick, vars,
     life
<1> QED
  BY Zenon, <1>1, <1>2, <1>3, <1>4, <1>5, ServingOpen DEF Next

\* Pipeline.Shutdown: however many callers close the client, each plugin is cleaned up once.
THEOREM ClosingCleansUpOnce == Spec => []CleanedOnce
<1>1. Init => CloseSound
  <2> SUFFICES ASSUME Init PROVE CloseSound
    BY Zenon
  <2>1. /\ closed = FALSE /\ closer = [c \in set.Closers |-> "idle"]
        /\ cleaned = [p \in Range(set.Plugins) |-> 0]
    BY Zenon DEF Init
  <2>2. DOMAIN closer = set.Closers /\ \A c \in set.Closers : closer[c] = "idle"
    BY Zenon, <2>1
  <2>3. \A p \in DOMAIN cleaned : cleaned[p] = 0
    BY Zenon, <2>1
  <2> QED
    BY Zenon, <2>1, <2>2, <2>3 DEF CloseSound
<1>2. CloseSound => CleanedOnce
  <2> SUFFICES ASSUME CloseSound, NEW p \in DOMAIN cleaned
               PROVE  /\ cleaned[p] <= 1
                      /\ /\ set.Closers # {} /\ (\A c \in set.Closers : closer[c] = "done")
                         /\ p \in Range(plugins)
                         => cleaned[p] = 1
    BY Zenon DEF CleanedOnce
  <2>1. cleaned[p] \in {0, 1}
    BY Zenon DEF CloseSound
  <2>2. ASSUME set.Closers # {}, \A c \in set.Closers : closer[c] = "done", p \in Range(plugins)
        PROVE  cleaned[p] = 1
    <3>1. \A c \in set.Closers : closer[c] # "idle" /\ closer[c] # "clean"
      BY <2>2
    <3> QED
      BY Zenon, <2>2, <3>1 DEF CloseSound
  <2>3. cleaned[p] <= 1
    BY <2>1
  <2> QED
    BY Zenon, <2>2, <2>3
<1> QED
  BY <1>1, <1>2, CloseStays, PTL DEF Spec

-----------------------------------------------------------------------------
\* The size of the plugin's cache

\* The stored responses and the Sets under way are finitely many.
LEMMA SizesFinite ==
    ASSUME set \in Settings, ItemsSound
    PROVE  /\ IsFiniteSet(Stored) /\ Cardinality(Stored) \in Nat
           /\ IsFiniteSet(Storing) /\ Cardinality(Storing) \in Nat
<1>1. IsFiniteSet(Requests)
  BY Zenon, SettingsAssumption DEF Requests
<1>2. IsFiniteSet(PluginKeys)
  <2> DEFINE f == [r \in Requests |-> PluginKey(r)]
  <2>1. f \in Surjection(Requests, PluginKeys)
    BY Zenon DEF Surjection, PluginKeys
  <2> QED
    BY Zenon, <1>1, <2>1, FS_Surjection
<1>3. Stored \in SUBSET PluginKeys /\ Storing \in SUBSET Requests
  BY Zenon DEF Stored, Storing, ItemsSound
<1>4. IsFiniteSet(Stored) /\ IsFiniteSet(Storing)
  BY Zenon, <1>1, <1>2, <1>3, FS_Subset
<1> QED
  BY Zenon, <1>4, FS_CardinalityType

\* A key is removed: an item expires, or makes room.
LEMMA ItemRemoved ==
    ASSUME ItemsSound, Filled, set \in Settings, UNCHANGED <<set, overlaps>>,
           NEW k, items' = [items EXCEPT ![k] = None],
           Storing' = Storing, VictimsKnown',
           k \notin Stored /\ AllSettled' => AllSettled
    PROVE  Filled'
<1>1. Stored' = Stored \ {k}
  BY Zenon DEF Stored
<1>2. /\ IsFiniteSet(Stored) /\ Cardinality(Stored) \in Nat /\ Cardinality(Storing) \in Nat
  BY Zenon, SizesFinite
<1>3. Cardinality(Stored') = IF k \in Stored THEN Cardinality(Stored) - 1 ELSE Cardinality(Stored)
  BY Zenon, <1>1, <1>2, FS_RemoveElement
<1>4. set.MaxSize \in Nat
  BY Zenon, SettingsAssumption
<1>5. /\ overlaps \in Nat /\ Cardinality(Storing) <= overlaps + 1
      /\ Cardinality(Stored) + Cardinality(Storing) <= set.MaxSize + overlaps + 1
      /\ AllSettled => Cardinality(Stored) + Cardinality(Storing) <= set.MaxSize + overlaps
  BY Zenon DEF Filled
<1>6. (Cardinality(Stored))' = Cardinality(Stored') /\ (Cardinality(Storing))' = Cardinality(Storing)
  BY Zenon
<1>7. /\ Cardinality(Stored') + Cardinality(Storing) <= set.MaxSize + overlaps + 1
      /\ AllSettled' => Cardinality(Stored') + Cardinality(Storing) <= set.MaxSize + overlaps
  BY <1>2, <1>3, <1>4, <1>5
<1> QED
  BY Zenon, <1>5, <1>6, <1>7 DEF Filled

\* An item expires.
LEMMA ItemExpires ==
    ASSUME ItemsSound, Filled, set \in Settings, UNCHANGED <<set, overlaps, writer>>,
           NEW k, items' = [items EXCEPT ![k] = None]
    PROVE  Filled'
<1>1. Storing' = Storing
  BY Zenon, KeysStay DEF Storing
<1>2. DOMAIN items' = DOMAIN items
  BY Zenon
<1>3. VictimsKnown /\ VictimsKnown'
  BY Zenon, <1>2, KeysStay DEF VictimsKnown, Filled
<1>4. ASSUME k \notin Stored, AllSettled' PROVE AllSettled
  <2>1. \A v \in DOMAIN items : items'[v] = items[v]
    BY Zenon, <1>4 DEF Stored
  <2>2. \A r \in Storing : Settled(r)' => Settled(r)
    BY Zenon, <1>3, <2>1 DEF Settled, VictimsKnown, Storing
  <2> QED
    BY Zenon, <1>1, <1>4, <2>2 DEF AllSettled
<1> QED
  BY Zenon, <1>1, <1>3, <1>4, ItemRemoved

\* Nothing the bound depends on changes.
LEMMA FilledStays ==
    ASSUME Filled, UNCHANGED <<set, items, writer, overlaps>>
    PROVE  Filled'
<1>1. Storing' = Storing /\ Stored' = Stored
  BY Zenon, KeysStay DEF Storing, Stored
<1>2. AllSettled' => AllSettled
  BY Zenon, <1>1 DEF AllSettled, Settled
<1>3. VictimsKnown'
  BY Zenon, KeysStay DEF Filled, VictimsKnown
<1> QED
  BY Zenon, <1>1, <1>2, <1>3 DEF Filled

\* CachePlugin.PostHook starts a Set.
LEMMA SetBegins ==
    ASSUME ItemsSound, WritersSound, Filled, set \in Settings,
           NEW r \in Requests, PostCache(r)
    PROVE  Filled'
<1>1. UNCHANGED <<set, items>>
  BY Zenon DEF PostCache
<1>2. CASE UNCHANGED <<writer, overlaps>>
  BY Zenon, <1>1, <1>2, FilledStays
<1>3. CASE ~ UNCHANGED <<writer, overlaps>>
  <2>1. /\ writer' = [writer EXCEPT ![r] =
             [@ EXCEPT !.pc = "count", !.key = Values(r).key, !.resp = req[r].resp]]
        /\ overlaps' = overlaps + (IF Storing = {} THEN 0 ELSE 1)
    BY Zenon, <1>3 DEF PostCache
  <2>2. writer'[r].pc = "count" /\ \A t \in Requests \ {r} : writer'[t] = writer[t]
    BY Zenon, <2>1 DEF WritersSound, WriterFields
  <2>3. writer'[r].pc # "idle" /\ writer'[r].pc # "store" /\ writer'[r].pc # "evict"
    BY <2>2
  <2>4. Storing' = Storing \cup {r} /\ Stored' = Stored
    <3>1. Storing' = {t \in Requests : writer'[t].pc # "idle"}
      BY Zenon, <1>1, KeysStay DEF Storing
    <3> QED
      BY Zenon, <1>1, <2>2, <2>3, <3>1 DEF Storing, Stored
  <2>5. ~ AllSettled'
    BY Zenon, <2>3, <2>4 DEF AllSettled, Settled
  <2>6. VictimsKnown'
    BY Zenon, <1>1, <2>2, <2>3, KeysStay DEF VictimsKnown, Filled
  <2>7. /\ IsFiniteSet(Storing) /\ Cardinality(Stored) \in Nat /\ Cardinality(Storing) \in Nat
    BY Zenon, SizesFinite
  <2>8. /\ Cardinality(Storing') = IF r \in Storing THEN Cardinality(Storing)
                                                    ELSE Cardinality(Storing) + 1
        /\ Storing = {} <=> Cardinality(Storing) = 0
    BY Zenon, <2>4, <2>7, FS_AddElement, FS_EmptySet
  <2>9. set.MaxSize \in Nat
    BY Zenon, SettingsAssumption
  <2>10. /\ overlaps \in Nat /\ Cardinality(Storing) <= overlaps + 1
         /\ Cardinality(Stored) + Cardinality(Storing) <= set.MaxSize + overlaps + 1
         /\ Storing = {} => Cardinality(Stored) + Cardinality(Storing) <= set.MaxSize + overlaps
    BY Zenon DEF Filled, AllSettled
  <2>11. /\ overlaps' \in Nat /\ Cardinality(Storing') <= overlaps' + 1
         /\ Cardinality(Stored) + Cardinality(Storing') <= set.MaxSize + overlaps' + 1
    BY <2>1, <2>7, <2>8, <2>9, <2>10
  <2> QED
    BY Zenon, <1>1, <2>4, <2>5, <2>6, <2>11 DEF Filled
<1> QED
  BY Zenon, <1>2, <1>3

\* A Set moves on and stays under way: what is stored does not change.
LEMMA SetMoves ==
    ASSUME ItemsSound, WritersSound, Filled, set \in Settings,
           UNCHANGED <<set, items, overlaps>>,
           NEW r \in Requests, r \in Storing, writer'[r].pc # "idle",
           \A t \in Requests \ {r} : writer'[t] = writer[t],
           writer'[r].pc = "evict" => writer'[r].victim \in Stored,
           writer'[r].pc = "store" =>
             Cardinality(Stored) + Cardinality(Storing) <= set.MaxSize + overlaps,
           writer'[r].pc \in {"range", "evict", "store"}
    PROVE  Filled'
<1>1. Stored' = Stored /\ DOMAIN items' = DOMAIN items
  BY Zenon DEF Stored
<1>2. Storing' = Storing
  <2>1. Storing' = {t \in Requests : writer'[t].pc # "idle"}
    BY Zenon, KeysStay DEF Storing
  <2> QED
    BY Zenon, <2>1 DEF Storing
<1>3. VictimsKnown'
  <2>1. \A t \in Requests : writer'[t].pc = "evict" => writer'[t].victim \in DOMAIN items
    BY Zenon DEF VictimsKnown, Filled, Stored
  <2> QED
    BY Zenon, <1>1, <2>1, KeysStay DEF VictimsKnown
<1>4. AllSettled' => Cardinality(Stored) + Cardinality(Storing) <= set.MaxSize + overlaps
  <2> SUFFICES ASSUME AllSettled'
               PROVE  Cardinality(Stored) + Cardinality(Storing) <= set.MaxSize + overlaps
    BY Zenon
  <2>1. \/ writer'[r].pc = "store"
        \/ writer'[r].pc = "evict" /\ items[writer'[r].victim] = None
    BY Zenon, <1>2 DEF AllSettled, Settled
  <2>2. writer'[r].pc = "evict" => items[writer'[r].victim] # None
    BY Zenon DEF Stored
  <2> QED
    BY Zenon, <2>1, <2>2
<1> QED
  BY Zenon, <1>1, <1>2, <1>3, <1>4 DEF Filled

\* MemoryCache.Set counts the items and takes one to remove.
LEMMA SetLooks ==
    ASSUME ItemsSound, WritersSound, Filled, set \in Settings,
           NEW r \in Requests, SetCounts(r) \/ SetRanges(r)
    PROVE  Filled'
<1>1. UNCHANGED <<set, items, overlaps>>
  BY Zenon DEF SetCounts, SetRanges
<1>2. r \in Storing
  <2>1. writer[r].pc \in {"count", "range"}
    BY Zenon DEF SetCounts, SetRanges
  <2>2. writer[r].pc # "idle"
    BY <2>1
  <2> QED
    BY Zenon, <2>2 DEF Storing
<1>3. /\ overlaps \in Nat /\ Cardinality(Storing) <= overlaps + 1
      /\ Cardinality(Stored) + Cardinality(Storing) <= set.MaxSize + overlaps + 1
  BY Zenon DEF Filled
<1>4. /\ IsFiniteSet(Stored) /\ Cardinality(Stored) \in Nat /\ Cardinality(Storing) \in Nat
      /\ set.MaxSize \in Nat \ {0}
  BY Zenon, SizesFinite, SettingsAssumption
<1>5. CASE SetCounts(r)
  <2>1. writer' = [writer EXCEPT ![r].pc = IF Full THEN "range" ELSE "store"]
    BY Zenon, <1>5 DEF SetCounts
  <2>2. /\ writer'[r].pc = IF Full THEN "range" ELSE "store"
        /\ \A t \in Requests \ {r} : writer'[t] = writer[t]
    BY Zenon, <2>1 DEF WritersSound, WriterFields
  <2>3. /\ writer'[r].pc # "idle" /\ writer'[r].pc # "evict"
        /\ writer'[r].pc \in {"range", "evict", "store"}
        /\ writer'[r].pc = "store" => ~ Full
    BY <2>2
  <2>4. ~ Full => Cardinality(Stored) + Cardinality(Storing) <= set.MaxSize + overlaps
    BY <1>3, <1>4 DEF Full
  <2> QED
    BY Zenon, <1>1, <1>2, <2>2, <2>3, <2>4, SetMoves
<1>6. ASSUME NEW k \in Stored, writer' = [writer EXCEPT ![r].pc = "evict", ![r].victim = k]
      PROVE  Filled'
  <2>1. /\ writer'[r].pc = "evict" /\ writer'[r].victim = k
        /\ \A t \in Requests \ {r} : writer'[t] = writer[t]
    BY <1>6 DEF WritersSound, WriterFields
  <2>2. /\ writer'[r].pc # "idle" /\ writer'[r].pc # "store"
        /\ writer'[r].pc \in {"range", "evict", "store"}
    BY <2>1
  <2> QED
    BY Zenon, <1>1, <1>2, <1>6, <2>1, <2>2, SetMoves
<1>7. ASSUME Stored = {}, writer' = [writer EXCEPT ![r].pc = "store"] PROVE Filled'
  <2>1. writer'[r].pc = "store" /\ \A t \in Requests \ {r} : writer'[t] = writer[t]
    BY Zenon, <1>7 DEF WritersSound, WriterFields
  <2>2. /\ writer'[r].pc # "idle" /\ writer'[r].pc # "evict"
        /\ writer'[r].pc \in {"range", "evict", "store"}
    BY <2>1
  <2>3. Cardinality(Stored) = 0
    BY Zenon, <1>7, FS_EmptySet
  <2>4. Cardinality(Stored) + Cardinality(Storing) <= set.MaxSize + overlaps
    BY <1>3, <1>4, <2>3
  <2> QED
    BY Zenon, <1>1, <1>2, <2>1, <2>2, <2>4, SetMoves
<1> QED
  BY Zenon, <1>5, <1>6, <1>7 DEF SetRanges

\* MemoryCache.Set removes the item it took.
LEMMA SetMakesRoom ==
    ASSUME ItemsSound, WritersSound, Filled, set \in Settings,
           NEW r \in Requests, SetEvicts(r)
    PROVE  Filled'
<1> DEFINE k == writer[r].victim
<1>1. /\ UNCHANGED <<set, overlaps>> /\ writer[r].pc = "evict"
      /\ items' = [items EXCEPT ![k] = None]
      /\ writer' = [writer EXCEPT ![r].pc = "store", ![r].victim = None]
  BY Zenon DEF SetEvicts
<1>2. writer'[r].pc = "store" /\ \A t \in Requests \ {r} : writer'[t] = writer[t]
  BY <1>1 DEF WritersSound, WriterFields
<1>3. writer[r].pc # "idle" /\ writer'[r].pc # "idle" /\ writer'[r].pc # "evict"
  BY <1>1, <1>2
<1>4. Storing' = Storing
  <2>1. Storing' = {t \in Requests : writer'[t].pc # "idle"}
    BY Zenon, <1>1, KeysStay DEF Storing
  <2> QED
    BY Zenon, <1>2, <1>3, <2>1 DEF Storing
<1>5. VictimsKnown
  BY Zenon DEF Filled
<1>6. VictimsKnown'
  <2>1. DOMAIN items' = DOMAIN items
    BY Zenon, <1>1
  <2> QED
    BY Zenon, <1>1, <1>2, <1>3, <1>5, <2>1, KeysStay DEF VictimsKnown
<1>7. ASSUME k \notin Stored, AllSettled' PROVE AllSettled
  <2>1. k \in DOMAIN items /\ items[k] = None
    BY Zenon, <1>1, <1>5, <1>7 DEF Stored, VictimsKnown
  <2>2. \A v \in DOMAIN items : items'[v] = items[v]
    BY Zenon, <1>1, <2>1
  <2>3. \A t \in Storing \ {r} : Settled(t)' => Settled(t)
    BY Zenon, <1>2, <1>5, <2>2 DEF Settled, VictimsKnown, Storing
  <2>4. Settled(r)
    BY Zenon, <1>1, <2>1 DEF Settled
  <2> QED
    BY Zenon, <1>4, <1>7, <2>3, <2>4 DEF AllSettled
<1> HIDE DEF k
<1> QED
  BY Zenon, <1>1, <1>4, <1>6, <1>7, ItemRemoved


\* A Set stores its response and is done.
LEMMA SetStoresKeeps ==
    ASSUME ItemsSound, WritersSound, Filled, set \in Settings,
           NEW r \in Requests, SetStores(r)
    PROVE  Filled'
<1> DEFINE k == writer[r].key
           x == [resp |-> writer[r].resp, until |-> now + set.TTL]
           idle == [pc |-> "idle", key |-> None, resp |-> None, victim |-> None]
<1>1. /\ UNCHANGED <<set, overlaps>> /\ writer[r].pc = "store"
      /\ items' = [items EXCEPT ![k] = x] /\ writer' = [writer EXCEPT ![r] = idle]
  BY Zenon DEF SetStores
<1>2. writer[r].pc # "idle" /\ idle.pc = "idle" /\ idle.pc # "evict"
  BY <1>1
<1> HIDE DEF k, x, idle
<1>3. writer'[r] = idle /\ \A t \in Requests \ {r} : writer'[t] = writer[t]
  BY Zenon, <1>1 DEF WritersSound
<1>4. Storing' = Storing \ {r} /\ r \in Storing
  <2>1. Storing' = {t \in Requests : writer'[t].pc # "idle"}
    BY Zenon, <1>1, KeysStay DEF Storing
  <2> QED
    BY Zenon, <1>2, <1>3, <2>1 DEF Storing
<1>5. DOMAIN items' = DOMAIN items /\ VictimsKnown
  BY Zenon, <1>1 DEF Filled
<1>6. VictimsKnown'
  BY Zenon, <1>1, <1>2, <1>3, <1>5, KeysStay DEF VictimsKnown
<1>7. k \in DOMAIN items
  <2>1. PluginKey(r) \in PluginKeys
    BY Zenon DEF PluginKeys
  <2> QED
    BY Zenon, <1>2, <2>1 DEF k, ItemsSound, WritersSound
<1>8. Stored' = IF x = None THEN Stored \ {k} ELSE Stored \cup {k}
  BY Zenon, <1>1, <1>7 DEF Stored
<1>9. /\ IsFiniteSet(Stored) /\ Cardinality(Stored) \in Nat
      /\ IsFiniteSet(Storing) /\ Cardinality(Storing) \in Nat
  BY Zenon, SizesFinite
<1>10. Cardinality(Storing') = Cardinality(Storing) - 1
  BY Zenon, <1>4, <1>9, FS_RemoveElement
<1>11. /\ Cardinality(Stored \ {k}) = IF k \in Stored THEN Cardinality(Stored) - 1
                                                    ELSE Cardinality(Stored)
       /\ Cardinality(Stored \cup {k}) = IF k \in Stored THEN Cardinality(Stored)
                                                       ELSE Cardinality(Stored) + 1
  BY Zenon, <1>9, FS_RemoveElement, FS_AddElement
<1>12. ASSUME x # None, AllSettled' PROVE AllSettled
  <2>1. \A v \in DOMAIN items : items'[v] = None => items[v] = None
    BY Zenon, <1>1, <1>12
  <2>2. Settled(r)
    BY Zenon, <1>1 DEF Settled
  <2>3. ASSUME NEW t \in Storing, t # r PROVE Settled(t)
    <3>1. t \in Requests /\ writer'[t] = writer[t] /\ Settled(t)'
      BY Zenon, <1>3, <1>4, <1>12, <2>3 DEF AllSettled, Storing
    <3> QED
      BY Zenon, <1>5, <2>1, <3>1 DEF Settled, VictimsKnown
  <2> QED
    BY Zenon, <2>2, <2>3 DEF AllSettled
<1>13. set.MaxSize \in Nat
  BY Zenon, SettingsAssumption
<1>14. /\ overlaps \in Nat /\ Cardinality(Storing) <= overlaps + 1
       /\ Cardinality(Stored) + Cardinality(Storing) <= set.MaxSize + overlaps + 1
       /\ AllSettled => Cardinality(Stored) + Cardinality(Storing) <= set.MaxSize + overlaps
  BY Zenon DEF Filled
<1>15. /\ Cardinality(Storing') <= overlaps + 1
       /\ Cardinality(Stored') + Cardinality(Storing') <= set.MaxSize + overlaps + 1
       /\ AllSettled' => Cardinality(Stored') + Cardinality(Storing') <= set.MaxSize + overlaps
  <2>1. Cardinality(Stored') <= Cardinality(Stored) + (IF x = None THEN 0 ELSE 1)
        /\ Cardinality(Stored') \in Int
    BY <1>8, <1>9, <1>11
  <2> QED
    BY <1>9, <1>10, <1>12, <1>13, <1>14, <2>1
<1> QED
  BY Zenon, <1>1, <1>6, <1>14, <1>15 DEF Filled

\* What the bound depends on changes with the cache hooks, the writers and the sweep.
LEMMA FilledKept ==
    ASSUME IInv, Filled, Next
    PROVE  Filled'
<1>1. ItemsSound /\ WritersSound /\ set \in Settings
  BY Zenon DEF IInv, Life
<1>2. ASSUME NEW r \in Requests, Hook(r) PROVE Filled'
  <2>1. ASSUME \/ PreRateLimit(r) \/ GetLimiter(r) \/ Allow(r) \/ PreCache(r)
               \/ PreMetrics(r) \/ PreLogging(r) \/ PreObservability(r)
        PROVE  UNCHANGED <<set, items, writer, overlaps>>
    BY Zenon, <2>1 DEF PreRateLimit, GetLimiter, Allow, PreCache, PreMetrics, PreLogging,
       PreObservability, backend
  <2>2. ASSUME \/ PreUser(r) \/ PostRateLimit(r) \/ PostMetrics(r) \/ PostLogging(r)
               \/ PostObservability(r) \/ PostUser(r)
        PROVE  UNCHANGED <<set, items, writer, overlaps>>
    BY Zenon, <2>2 DEF PreUser, PostRateLimit, PostMetrics, PostLogging, PostObservability,
       PostUser, backend
  <2>3. ASSUME ExpireItem(r) PROVE Filled'
    <3>1. UNCHANGED <<set, overlaps, writer>> /\ items' = [items EXCEPT ![PluginKey(r)] = None]
      BY Zenon, <2>3 DEF ExpireItem
    <3> QED
      BY Zenon, <1>1, <3>1, ItemExpires
  <2>4. ASSUME PostCache(r) PROVE Filled'
    BY Zenon, <1>1, <2>4, SetBegins
  <2> QED
    BY Zenon, <1>2, <2>1, <2>2, <2>3, <2>4, FilledStays DEF Hook
<1>3. ASSUME NEW r \in Requests, Serve(r) PROVE Filled'
  <2>1. UNCHANGED <<set, items, writer, overlaps>>
    BY Zenon, <1>3 DEF Serve, Chat, CheckRateLimit, LookUp, ExecuteWithRetry, Finish,
       Stream, RunStreamPreHooks, OpenStream, RunOnStreamChunk, EndStream, RunStreamPostHooks,
       PutContext, backend
  <2> QED
    BY Zenon, <2>1, FilledStays
<1>4. ASSUME NEW r \in Requests, Write(r) PROVE Filled'
  BY Zenon, <1>1, <1>4, SetLooks, SetMakesRoom, SetStoresKeeps DEF Write
<1>5. ASSUME CleanupDeletes PROVE Filled'
  <2>1. UNCHANGED <<set, overlaps, writer>> /\ items' = [items EXCEPT ![sweep] = None]
    BY Zenon, <1>5 DEF CleanupDeletes
  <2> QED
    BY Zenon, <1>1, <2>1, ItemExpires
<1>6. ASSUME \/ Register \/ Built \/ (\E c \in set.Closers : Shutdown(c) \/ Cleanup(c))
             \/ CleanupFinds \/ ResetCounters \/ ResetModels \/ Tick
      PROVE  UNCHANGED <<set, items, writer, overlaps>>
  BY Zenon, <1>6 DEF Register, Built, Shutdown, Cleanup, CleanupFinds, ResetCounters,
     ResetModels, Tick, backend
<1> QED
  BY Zenon, <1>2, <1>3, <1>4, <1>5, <1>6, FilledStays DEF Next

\* CachePlugin: the memory backend holds MaxSize responses, and one more for each Set that
\* overlapped another one, whatever the order of counting, evicting, storing and expiring.
THEOREM CacheStaysBounded == Spec => []CacheBounded
<1>1. Init => Filled
  <2> SUFFICES ASSUME Init PROVE Filled
    BY Zenon
  <2>1. set \in Settings /\ overlaps = 0
    BY Zenon DEF Init
  <2>2. \A k \in DOMAIN items : items[k] = None
    BY Zenon DEF Init
  <2>3. \A r \in Requests : writer[r].pc = "idle"
    <3> TAKE r \in Requests
    <3>1. writer[r] = [pc |-> "idle", key |-> None, resp |-> None, victim |-> None]
      BY Zenon DEF Init
    <3> QED
      BY <3>1
  <2>4. Stored = {} /\ Storing = {}
    BY Zenon, <2>2, <2>3 DEF Stored, Storing
  <2>5. VictimsKnown
    BY <2>3 DEF VictimsKnown
  <2>6. Cardinality(Stored) = 0 /\ Cardinality(Storing) = 0
    BY Zenon, <2>4, FS_EmptySet
  <2>7. set.MaxSize \in Nat
    BY Zenon, <2>1, SettingsAssumption
  <2> QED
    BY <2>1, <2>5, <2>6, <2>7 DEF Filled
<1>2. IInv /\ Filled /\ [Next]_vars => Filled'
  <2>1. Filled /\ UNCHANGED vars => Filled'
    BY Zenon, FilledStays DEF vars, backend
  <2> QED
    BY Zenon, <2>1, FilledKept
<1>3. IInv /\ Filled => CacheBounded
  <2> SUFFICES ASSUME IInv, Filled PROVE CacheBounded
    BY Zenon
  <2>1. /\ set \in Settings /\ ItemsSound
    BY Zenon DEF IInv, Life
  <2>2. /\ Cardinality(Stored) \in Nat /\ Cardinality(Storing) \in Nat /\ IsFiniteSet(Storing)
        /\ set.MaxSize \in Nat
    BY Zenon, <2>1, SizesFinite, SettingsAssumption
  <2>3. Cardinality(Storing) = 0 => AllSettled
    BY Zenon, <2>2, FS_EmptySet DEF AllSettled
  <2>4. /\ overlaps \in Nat
        /\ Cardinality(Stored) + Cardinality(Storing) <= set.MaxSize + overlaps + 1
        /\ AllSettled => Cardinality(Stored) + Cardinality(Storing) <= set.MaxSize + overlaps
    BY Zenon DEF Filled
  <2> QED
    BY <2>2, <2>3, <2>4 DEF CacheBounded
<1> QED
  BY <1>1, <1>2, <1>3, IInvInit, IInvStays, PTL DEF Spec

-----------------------------------------------------------------------------
\* The rate limiter

\* The requests admitted between two times are finitely many.
LEMMA BetweenFinite ==
    ASSUME set \in Settings, NEW f, NEW k, NEW s, NEW t
    PROVE  /\ IsFiniteSet(Between(f, k, s, t)) /\ Cardinality(Between(f, k, s, t)) \in Nat
<1>1. IsFiniteSet(Requests)
  BY Zenon, SettingsAssumption DEF Requests
<1>2. Between(f, k, s, t) \in SUBSET Requests
  BY Zenon DEF Between
<1>3. IsFiniteSet(Between(f, k, s, t))
  BY Zenon, <1>1, <1>2, FS_Subset
<1> QED
  BY Zenon, <1>3, FS_CardinalityType

\* A bucket that is refilled to m tokens at time n still covers what was admitted.
LEMMA Refilling ==
    ASSUME set \in Settings, NEW f \in [Requests -> Int], NEW k, NEW b, NEW n \in Nat, NEW m \in Nat,
           b.last \in Nat, b.tokens \in Nat, b.last <= n, Covered(f, k, b),
           m <= b.tokens + (n - b.last) * set.Rate, m <= set.Burst
    PROVE  /\ \A s \in 0 .. n :
                Cardinality(Between(f, k, s, n)) + m <= set.Burst + set.Rate * (n - s)
           /\ \A s, t \in 0 .. n :
                s <= t => Cardinality(Between(f, k, s, t)) <= set.Burst + set.Rate * (t - s)
<1>1. set.Burst \in Nat /\ set.Rate \in Nat
  BY Zenon, SettingsAssumption
<1> DEFINE B == set.Burst
           R == set.Rate
           C(s, t) == Cardinality(Between(f, k, s, t))
           l == b.last
<1>2. \A s, t : C(s, t) \in Nat
  BY Zenon, BetweenFinite
<1>3. \A r \in Requests : LimitKey(r) = k => f[r] <= l
  BY Zenon DEF Covered
<1>4. \A s, t \in 0 .. n : t > l => Between(f, k, s, t) = IF s <= l THEN Between(f, k, s, l) ELSE {}
  <2> TAKE s, t \in 0 .. n
  <2> HAVE t > l
  <2>1. \A r \in Requests : LimitKey(r) = k =>
          (f[r] \in s .. t <=> s <= l /\ f[r] \in s .. l)
    BY <1>3
  <2>2. ~ (s <= l) => \A r \in Requests : LimitKey(r) = k => f[r] \notin s .. t
    BY <2>1
  <2> QED
    BY Zenon, <2>1, <2>2 DEF Between
<1>5. \A s, t \in 0 .. n : t > l => C(s, t) = IF s <= l THEN C(s, l) ELSE 0
  BY Zenon, <1>4, FS_EmptySet
<1>6. /\ \A s \in 0 .. l : C(s, l) + b.tokens <= B + R * (l - s)
      /\ \A s, t \in 0 .. l : s <= t => C(s, t) <= B + R * (t - s)
  BY Zenon DEF Covered
<1> HIDE DEF C
<1>7. \A x, y, z \in Nat : x <= y /\ y <= z =>
        /\ R * (y - x) + (z - y) * R = R * (z - x) /\ (z - y) * R >= 0 /\ R * (y - x) >= 0
  BY <1>1
<1>8. ASSUME NEW s \in 0 .. n PROVE C(s, n) + m <= B + R * (n - s)
  <2>1. CASE s <= l
    <3>1. C(s, n) = C(s, l)
      BY <1>5, <2>1
    <3>2. C(s, l) + b.tokens <= B + R * (l - s)
      BY <1>6, <2>1
    <3>3. R * (l - s) + (n - l) * R = R * (n - s)
      <4>1. s \in Nat /\ l \in Nat
        OBVIOUS
      <4> QED
        BY Zenon, <1>7, <2>1, <4>1
    <3> HIDE DEF l
    <3> DEFINE u == R * (l - s)
               v == (n - l) * R
               w == R * (n - s)
    <3>4. u \in Int /\ v \in Int /\ w \in Int
      BY <1>1 DEF l
    <3>5. m <= b.tokens + v /\ u + v = w /\ C(s, l) + b.tokens <= B + u
      BY <3>2, <3>3 DEF l
    <3> HIDE DEF u, v, w
    <3>6. C(s, n) + m <= B + w
      BY <1>1, <1>2, <3>1, <3>4, <3>5
    <3> QED
      BY <3>6 DEF w
  <2>2. CASE s > l
    <3>1. C(s, n) = 0
      BY <1>5, <2>2
    <3>2. R * (n - s) >= 0 /\ R * (n - s) \in Int
      BY <1>1, <2>2
    <3> QED
      BY <1>1, <3>1, <3>2
  <2> QED
    BY <2>1, <2>2
<1>9. ASSUME NEW s \in 0 .. n, NEW t \in 0 .. n, s <= t PROVE C(s, t) <= B + R * (t - s)
  <2>0. R * (t - s) >= 0 /\ R * (t - s) \in Int
    BY <1>1, <1>9
  <2>1. CASE t <= l
    BY <1>6, <1>9, <2>1
  <2>2. CASE t > l /\ s <= l
    <3>1. C(s, t) = C(s, l) /\ C(s, l) + b.tokens <= B + R * (l - s)
      BY <1>5, <1>6, <2>2
    <3>2. R * (l - s) + (t - l) * R = R * (t - s) /\ (t - l) * R >= 0
      <4>1. s \in Nat /\ l \in Nat /\ t \in Nat /\ l <= t
        BY <2>2
      <4> QED
        BY Zenon, <1>7, <2>2, <4>1
    <3> DEFINE u == R * (l - s)
               v == (t - l) * R
               w == R * (t - s)
    <3>3. u \in Int /\ v \in Int /\ w \in Int
      BY <1>1
    <3>4. C(s, t) + b.tokens <= B + u /\ u + v = w /\ v >= 0
      BY <3>1, <3>2
    <3> HIDE DEF u, v, w
    <3>5. C(s, t) <= B + w
      BY <1>1, <1>2, <3>3, <3>4
    <3> QED
      BY <3>5 DEF w
  <2>3. CASE s > l
    <3>1. C(s, t) = 0
      BY <1>5, <1>9, <2>3
    <3> QED
      BY <1>1, <2>0, <3>1
  <2> QED
    BY <2>1, <2>2, <2>3
<1> QED
  BY <1>8, <1>9 DEF C

\* A refilled bucket covers what was admitted, and one request more for a token.
LEMMA Spending ==
    ASSUME set \in Settings, NEW f \in [Requests -> Int], NEW g, NEW k, NEW b, NEW c,
           NEW n \in Nat, NEW m \in Nat, NEW r \in Requests, LimitKey(r) = k,
           b.last \in Nat, b.tokens \in Nat, b.last <= n, Covered(f, k, b),
           m <= b.tokens + (n - b.last) * set.Rate, m <= set.Burst, c.last = n,
           \/ g = f /\ c.tokens = m
           \/ g = [f EXCEPT ![r] = n] /\ m >= 1 /\ c.tokens = m - 1
    PROVE  Covered(g, k, c)
<1>1. set.Burst \in Nat /\ set.Rate \in Nat
  BY Zenon, SettingsAssumption
<1>2. /\ \A s \in 0 .. n :
           Cardinality(Between(f, k, s, n)) + m <= set.Burst + set.Rate * (n - s)
      /\ \A s, t \in 0 .. n :
           s <= t => Cardinality(Between(f, k, s, t)) <= set.Burst + set.Rate * (t - s)
  BY Zenon, Refilling
<1>3. \A x \in Requests : LimitKey(x) = k => f[x] <= n
  BY DEF Covered
<1>4. CASE g = f /\ c.tokens = m
  BY Zenon, <1>2, <1>3, <1>4 DEF Covered
<1>5. CASE g = [f EXCEPT ![r] = n] /\ m >= 1 /\ c.tokens = m - 1
  <2>1. \A x \in Requests : g[x] = IF x = r THEN n ELSE f[x]
    BY Zenon, <1>5
  <2>2. \A x \in Requests : LimitKey(x) = k => g[x] <= n
    BY <1>3, <2>1
  <2>3. ASSUME NEW s \in 0 .. n
        PROVE  Cardinality(Between(g, k, s, n)) + c.tokens <= set.Burst + set.Rate * (n - s)
    <3>1. Between(g, k, s, n) \in SUBSET (Between(f, k, s, n) \cup {r})
      BY Zenon, <2>1 DEF Between
    <3>2. /\ IsFiniteSet(Between(f, k, s, n) \cup {r})
          /\ Cardinality(Between(f, k, s, n) \cup {r}) =
               IF r \in Between(f, k, s, n) THEN Cardinality(Between(f, k, s, n))
               ELSE Cardinality(Between(f, k, s, n)) + 1
      BY Zenon, BetweenFinite, FS_AddElement
    <3>3. Cardinality(Between(g, k, s, n)) <= Cardinality(Between(f, k, s, n) \cup {r})
      BY Zenon, <3>1, <3>2, FS_Subset
    <3>4. Cardinality(Between(f, k, s, n)) \in Nat /\ Cardinality(Between(g, k, s, n)) \in Nat
      BY Zenon, BetweenFinite
    <3> DEFINE w == set.Rate * (n - s)
    <3>5. w \in Int /\ Cardinality(Between(f, k, s, n)) + m <= set.Burst + w
      BY <1>1, <1>2
    <3> HIDE DEF w
    <3>6. Cardinality(Between(g, k, s, n)) + c.tokens <= set.Burst + w
      BY <1>1, <1>5, <3>2, <3>3, <3>4, <3>5
    <3> QED
      BY Zenon, <3>6 DEF w
  <2>4. ASSUME NEW s \in 0 .. n, NEW t \in 0 .. n, s <= t
        PROVE  Cardinality(Between(g, k, s, t)) <= set.Burst + set.Rate * (t - s)
    <3> DEFINE w == set.Rate * (t - s)
    <3>1. w \in Int
      BY <1>1
    <3>2. CASE t = n
      <4>1. Cardinality(Between(g, k, s, n)) + c.tokens <= set.Burst + set.Rate * (n - s)
        BY Zenon, <2>3
      <4>2. Cardinality(Between(g, k, s, n)) \in Nat
        BY Zenon, BetweenFinite
      <4>3. Cardinality(Between(g, k, s, t)) + c.tokens <= set.Burst + w
        BY Zenon, <3>2, <4>1
      <4> HIDE DEF w
      <4>4. Cardinality(Between(g, k, s, t)) <= set.Burst + w
        BY <1>1, <1>5, <3>1, <3>2, <4>2, <4>3
      <4> QED
        BY Zenon, <4>4 DEF w
    <3>3. CASE t < n
      <4>1. n \notin s .. t
        BY <3>3
      <4>2. Between(g, k, s, t) \in SUBSET Between(f, k, s, t)
        BY Zenon, <2>1, <4>1 DEF Between
      <4>3. Cardinality(Between(g, k, s, t)) <= Cardinality(Between(f, k, s, t))
        BY Zenon, <4>2, BetweenFinite, FS_Subset
      <4>4. Cardinality(Between(f, k, s, t)) <= set.Burst + w
        BY Zenon, <1>2, <2>4
      <4>5. Cardinality(Between(g, k, s, t)) \in Nat /\ Cardinality(Between(f, k, s, t)) \in Nat
        BY Zenon, BetweenFinite
      <4> HIDE DEF w
      <4>6. Cardinality(Between(g, k, s, t)) <= set.Burst + w
        BY <1>1, <3>1, <4>3, <4>4, <4>5
      <4> QED
        BY Zenon, <4>6 DEF w
    <3> QED
      BY <3>2, <3>3
  <2> QED
    BY Zenon, <2>2, <2>3, <2>4 DEF Covered
<1> QED
  BY Zenon, <1>4, <1>5

\* A request goes on to a place outside of the rate limiter.
Elsewhere(r) == /\ req'[r].pc \notin AtLimiter
                /\ \A s \in Requests : s # r => req'[s] = req[s]

\* From hook to hook, no request enters the limiter but through its own hook.
LEMMA StepsElsewhere ==
    ASSUME NEW q, DOMAIN q = Fields, NEW resp, NEW err
    PROVE  /\ Onward(q).pc \notin AtLimiter
           /\ PostFrom(q, resp, err).pc \notin AtLimiter
           /\ ShortCircuit(q, resp, err).pc \notin AtLimiter
           /\ DOMAIN Back(q) = Fields
           /\ q.pc = "post" => Back(q).pc \notin AtLimiter
<1>1. Onward(q).pc \in {"pre", "admit"}
  <2>1. /\ [q EXCEPT !.i = @ + 1, !.pc = "pre"].pc = "pre"
        /\ [q EXCEPT !.pc = "admit"].pc = "admit"
    BY DEF Fields
  <2> QED
    BY Zenon, <2>1 DEF Onward
<1>2. PostFrom(q, resp, err).pc \in {"store", "post"} /\ DOMAIN PostFrom(q, resp, None) = Fields
  BY DEF PostFrom, Fields
<1>3. PostFrom(q, resp, None).pc \in {"store", "post"}
  BY DEF PostFrom, Fields
<1>4. ShortCircuit(q, resp, err).pc \in {"put", "store", "post", "admit"}
  <2> DEFINE p == PostFrom(q, resp, None)
  <2>1. /\ [q EXCEPT !.err = err, !.pc = "put"].pc = "put"
        /\ [q EXCEPT !.pc = "admit", !.short = "empty"].pc = "admit"
    BY DEF Fields
  <2> HIDE DEF p
  <2>2. [p EXCEPT !.short = "response"].pc = p.pc
    BY <1>2 DEF Fields, p
  <2>3. [PostFrom(q, resp, None) EXCEPT !.short = "response"].pc \in {"store", "post"}
    BY Zenon, <1>3, <2>2 DEF p
  <2> QED
    BY Zenon, <2>1, <2>3 DEF ShortCircuit
<1>5. DOMAIN Back(q) = Fields /\ (q.pc = "post" => Back(q).pc \in {"post", "store"})
  <2>1. /\ DOMAIN [q EXCEPT !.i = @ - 1] = Fields /\ [q EXCEPT !.i = @ - 1].pc = q.pc
        /\ DOMAIN [q EXCEPT !.pc = "store"] = Fields /\ [q EXCEPT !.pc = "store"].pc = "store"
    BY DEF Fields
  <2> QED
    BY Zenon, <2>1 DEF Back
<1> QED
  BY <1>1, <1>2, <1>4, <1>5 DEF AtLimiter

\* A request that is replaced by one outside of the limiter
LEMMA Moves ==
    ASSUME RequestsSound, NEW r \in Requests, NEW q, q.pc \notin AtLimiter,
           req' = [req EXCEPT ![r] = q]
    PROVE  Elsewhere(r)
BY Zenon DEF RequestsSound, Elsewhere

\* The hooks of the other plugins
LEMMA HooksElsewhere ==
    ASSUME set \in Settings, RequestsSound, NEW r \in Requests,
           Hook(r), ~ PreRateLimit(r), ~ GetLimiter(r), ~ Allow(r)
    PROVE  Elsewhere(r) /\ UNCHANGED <<set, now, limits>>
<1> DEFINE q == req[r]
<1>1. DOMAIN q = Fields /\ DOMAIN req = Requests
  BY Zenon DEF RequestsSound, Sound
<1> HIDE DEF q
<1>2. /\ Onward(q).pc \notin AtLimiter
      /\ \A resp, err : ShortCircuit(q, resp, err).pc \notin AtLimiter
      /\ DOMAIN Back(q) = Fields
      /\ q.pc = "post" => Back(q).pc \notin AtLimiter
  BY Zenon, <1>1, StepsElsewhere
<1>3. ASSUME ExpireItem(r) \/ PreMetrics(r) \/ PreLogging(r) \/ PreObservability(r)
      PROVE  Elsewhere(r)
  <2>1. req' = [req EXCEPT ![r] = Onward(q)]
    BY Zenon, <1>3 DEF ExpireItem, PreMetrics, PreLogging, PreObservability, q
  <2> QED
    BY Zenon, <1>2, <2>1, Moves
<1>4. ASSUME PostRateLimit(r) \/ PostCache(r) \/ PostMetrics(r) \/ PostLogging(r)
      PROVE  Elsewhere(r)
  <2>1. req' = [req EXCEPT ![r] = Back(q)] /\ q.pc = "post"
    BY Zenon, <1>4 DEF PostRateLimit, PostCache, PostMetrics, PostLogging, Post, q
  <2> QED
    BY Zenon, <1>2, <2>1, Moves
<1>5. ASSUME PreCache(r) PROVE Elsewhere(r)
  <2> DEFINE e == items[PluginKey(r)]
  <2>1. CASE Expired(e)
    <3>1. req' = [req EXCEPT ![r].pc = "expire"]
      BY Zenon, <1>5, <2>1 DEF PreCache
    <3>2. [q EXCEPT !.pc = "expire"].pc \notin AtLimiter
      BY <1>1 DEF Fields, AtLimiter
    <3> QED
      BY Zenon, <3>1, <3>2, Moves DEF q
  <2>2. CASE ~ Expired(e)
    <3>1. req' = [req EXCEPT ![r] = IF e # None THEN ShortCircuit(q, e.resp, None) ELSE Onward(q)]
      BY Zenon, <1>5, <2>2 DEF PreCache, q
    <3> QED
      BY Zenon, <1>2, <3>1, Moves
  <2> QED
    BY Zenon, <2>1, <2>2
<1>6. ASSUME PreUser(r) PROVE Elsewhere(r)
  <2>1. PICK what \in set.UserPre :
          req' = [req EXCEPT ![r] =
            CASE what = "pass" -> Onward(q)
              [] what = "respond" -> ShortCircuit(q, r, None)
              [] what = "fail" -> ShortCircuit(q, None, "plugin")
              [] what = "empty" -> ShortCircuit(q, None, None)]
    BY Zenon, <1>6 DEF PreUser, q
  <2>2. what \in {"pass", "respond", "fail", "empty"}
    BY Zenon, SettingsAssumption
  <2>3. \/ req' = [req EXCEPT ![r] = Onward(q)]
        \/ req' = [req EXCEPT ![r] = ShortCircuit(q, r, None)]
        \/ req' = [req EXCEPT ![r] = ShortCircuit(q, None, "plugin")]
        \/ req' = [req EXCEPT ![r] = ShortCircuit(q, None, None)]
    BY Zenon, <2>1, <2>2
  <2> QED
    BY Zenon, <1>2, <2>3, Moves
<1>7. ASSUME PostObservability(r) \/ PostUser(r) PROVE Elsewhere(r)
  <2> DEFINE b == Back(q)
  <2>1. q.pc = "post"
    BY Zenon, <1>7 DEF PostObservability, PostUser, Post, q
  <2>2. DOMAIN b = Fields /\ b.pc \notin AtLimiter
    BY Zenon, <1>2, <2>1
  <2> HIDE DEF b
  <2>3. /\ [b EXCEPT !.err = None].pc = b.pc
        /\ [b EXCEPT !.resp = r, !.err = None].pc = b.pc
        /\ [b EXCEPT !.resp = None, !.err = "plugin"].pc = b.pc
    BY <2>2 DEF Fields
  <2>4. CASE PostObservability(r)
    <3>1. req' = [req EXCEPT ![r] = [b EXCEPT !.err = None]]
      BY Zenon, <2>4 DEF PostObservability, q, b
    <3> QED
      BY Zenon, <2>2, <2>3, <3>1, Moves
  <2>5. CASE PostUser(r)
    <3>1. PICK what \in set.UserPost :
            req' = [req EXCEPT ![r] =
              CASE what = "pass" -> b
                [] what = "recover" -> [b EXCEPT !.resp = r, !.err = None]
                [] what = "reject" -> [b EXCEPT !.resp = None, !.err = "plugin"]]
      BY Zenon, <2>5 DEF PostUser, q, b
    <3>2. what \in {"pass", "recover", "reject"}
      BY Zenon, SettingsAssumption
    <3>3. \/ req' = [req EXCEPT ![r] = b]
          \/ req' = [req EXCEPT ![r] = [b EXCEPT !.resp = r, !.err = None]]
          \/ req' = [req EXCEPT ![r] = [b EXCEPT !.resp = None, !.err = "plugin"]]
      BY Zenon, <3>1, <3>2
    <3> QED
      BY Zenon, <2>2, <2>3, <3>3, Moves
  <2> QED
    BY Zenon, <1>7, <2>4, <2>5
<1>8. UNCHANGED <<set, now, limits>>
  BY Zenon DEF Hook, PreCache, ExpireItem, PreMetrics, PreLogging, PreObservability,
     PreUser, PostRateLimit, PostCache, PostMetrics, PostLogging, PostObservability, PostUser
<1> QED
  BY Zenon, <1>3, <1>4, <1>5, <1>6, <1>7, <1>8 DEF Hook

\* The steps of the client
LEMMA ServesElsewhere ==
    ASSUME set \in Settings, RequestsSound, NEW r \in Requests, Serve(r)
    PROVE  Elsewhere(r) /\ UNCHANGED <<set, now, limits>>
<1> DEFINE q == req[r]
<1>1. DOMAIN q = Fields /\ DOMAIN req = Requests
  BY Zenon DEF RequestsSound, Sound
<1>2. ASSUME NEW pc, NEW x, pc \notin AtLimiter
      PROVE  [q EXCEPT !.pc = pc, !.i = 1, !.ctx = x].pc \notin AtLimiter
  <2> HIDE DEF q
  <2> QED
    BY <1>1, <1>2 DEF Fields
<1>3. ASSUME Chat(r) \/ Stream(r) PROVE Elsewhere(r)
  <2>1. PICK pc \in {"admit", "pre", "spre"} : GetContext(r, pc)
    BY Zenon, <1>3 DEF Chat, Stream
  <2>2. PICK x : req' = [req EXCEPT ![r] = [q EXCEPT !.pc = pc, !.i = 1, !.ctx = x]]
    BY Zenon, <2>1 DEF GetContext
  <2> HIDE DEF q
  <2>3. pc \notin AtLimiter
    BY <2>1 DEF AtLimiter
  <2> QED
    BY Zenon, <1>2, <2>2, <2>3, Moves
<1>4. ASSUME ExecuteWithRetry(r) PROVE Elsewhere(r)
  <2>1. PICK resp, err : req' = [req EXCEPT ![r] = PostFrom(q, resp, err)]
    BY Zenon, <1>4 DEF ExecuteWithRetry
  <2> QED
    BY Zenon, <1>1, <2>1, StepsElsewhere, Moves
<1> HIDE DEF q
<1> DEFINE To(pc, err) == \/ req' = [req EXCEPT ![r].pc = pc]
                          \/ req' = [req EXCEPT ![r].pc = pc, ![r].err = err]
                          \/ \E n : req' = [req EXCEPT ![r].pc = pc, ![r].i = n, ![r].err = err]
<1>5. ASSUME NEW pc, NEW err, pc \notin AtLimiter, To(pc, err) PROVE Elsewhere(r)
  <2>1. \/ req' = [req EXCEPT ![r] = [q EXCEPT !.pc = pc]]
        \/ req' = [req EXCEPT ![r] = [q EXCEPT !.pc = pc, !.err = err]]
        \/ \E n : req' = [req EXCEPT ![r] = [q EXCEPT !.pc = pc, !.i = n, !.err = err]]
    BY ZenonT(60), <1>1, <1>5 DEF q
  <2>2. [q EXCEPT !.pc = pc].pc = pc /\ [q EXCEPT !.pc = pc, !.err = err].pc = pc
    BY <1>1 DEF Fields
  <2>3. \A n : [q EXCEPT !.pc = pc, !.i = n, !.err = err].pc = pc
    BY <1>1 DEF Fields
  <2> HIDE DEF To
  <2>4. \E p : p.pc = pc /\ req' = [req EXCEPT ![r] = p]
    BY Zenon, <2>1, <2>2, <2>3
  <2> QED
    BY Zenon, <1>5, <2>4, Moves
<1>6. ASSUME LookUp(r) PROVE Elsewhere(r)
  <2>1. \/ To("route", None) \/ To("put", "price")
        \/ \E resp : req' = [req EXCEPT ![r] = PostFrom(q, resp, None)]
    BY Zenon, <1>6 DEF LookUp, q
  <2>2. "route" \notin AtLimiter /\ "put" \notin AtLimiter
    BY DEF AtLimiter
  <2> HIDE DEF To
  <2> QED
    BY ZenonT(60), <1>1, <1>5, <2>1, <2>2, StepsElsewhere, Moves
<1>7. ASSUME CheckRateLimit(r) \/ Finish(r) \/ OpenStream(r) \/ EndStream(r)
             \/ RunStreamPostHooks(r) \/ PutContext(r)
      PROVE  Elsewhere(r)
  <2>1. \E pc \in {"lookup", "put", "sread", "spost", "done"} : \E err : To(pc, err)
    BY Zenon, <1>7 DEF CheckRateLimit, Finish, OpenStream, EndStream, RunStreamPostHooks,
       PutContext
  <2>2. \A pc \in {"lookup", "put", "sread", "spost", "done"} : pc \notin AtLimiter
    BY DEF AtLimiter
  <2> HIDE DEF To
  <2> QED
    BY Zenon, <1>5, <2>1, <2>2
<1>8. ASSUME RunStreamPreHooks(r) PROVE Elsewhere(r)
  <2>1. \E pc \in {"sadmit", "sread", "spost"} : \E n, err : StreamTo(r, pc, n, err)
    <3>1. \A what \in set.UserPre : what \in {"pass", "respond", "fail", "empty"}
      BY Zenon, SettingsAssumption
    <3>2. CASE ~ HasUser
      BY Zenon, <1>8, <3>2 DEF RunStreamPreHooks
    <3>3. CASE HasUser
      <4>1. PICK what \in set.UserPre :
              CASE what = "pass" -> StreamTo(r, "sadmit", Len(plugins), None)
                [] what = "respond" -> StreamTo(r, "sread", MyIndex, None)
                [] what = "fail" -> StreamTo(r, "spost", MyIndex, "plugin")
                [] what = "empty" -> StreamTo(r, "sadmit", MyIndex, None)
        BY Zenon, <1>8, <3>3 DEF RunStreamPreHooks
      <4> QED
        BY Zenon, <3>1, <4>1
    <3> QED
      BY Zenon, <3>2, <3>3
  <2>2. \E pc \in {"sadmit", "sread", "spost"} : \E err : To(pc, err)
    BY Zenon, <2>1 DEF StreamTo
  <2>3. \A pc \in {"sadmit", "sread", "spost"} : pc \notin AtLimiter
    BY DEF AtLimiter
  <2> HIDE DEF To
  <2> QED
    BY Zenon, <1>5, <2>2, <2>3
<1>9. ASSUME RunOnStreamChunk(r) PROVE Elsewhere(r)
  <2>1. q.pc = "sread"
    BY Zenon, <1>9 DEF RunOnStreamChunk, q
  <2>2. \/ req' = [req EXCEPT ![r].chunks = @ + 1, ![r].resp = r]
        \/ req' = [req EXCEPT ![r].chunks = @ + 1]
    BY Zenon, <1>9 DEF RunOnStreamChunk
  <2>3. req'[r].pc = q.pc /\ \A s \in Requests : s # r => req'[s] = req[s]
    BY <1>1, <2>2 DEF Fields, q
  <2> QED
    BY <2>1, <2>3 DEF Elsewhere, AtLimiter
<1>10. UNCHANGED <<set, now, limits>>
  BY Zenon DEF Serve, Chat, CheckRateLimit, LookUp, ExecuteWithRetry, Finish, Stream,
     RunStreamPreHooks, OpenStream, RunOnStreamChunk, EndStream, RunStreamPostHooks, PutContext
<1> QED
  BY Zenon, <1>3, <1>4, <1>6, <1>7, <1>8, <1>9, <1>10 DEF Serve

\* The keys, and what is covered, depend on what is asked for only.
LEMMA LimitsStay ==
    ASSUME UNCHANGED set
    PROVE  /\ Requests' = Requests
           /\ \A r : LimitKey(r)' = LimitKey(r)
           /\ LimitKeys' = LimitKeys
           /\ \A f, k, b : Covered(f, k, b)' = Covered(f, k, b)
<1>1. Requests' = Requests /\ \A r : LimitKey(r)' = LimitKey(r)
  BY Zenon DEF Requests, LimitKey, Ask
<1>2. LimitKeys' = LimitKeys
  BY SMT, <1>1 DEF LimitKeys
<1>3. \A f, k, s, t : Between(f, k, s, t)' = Between(f, k, s, t)
  BY SMT, <1>1 DEF Between
<1>4. \A f, k, b : Covered(f, k, b)' = Covered(f, k, b)
  BY SMT, <1>1, <1>3 DEF Covered
<1> QED
  BY Zenon, <1>1, <1>2, <1>4

\* A step that leaves the limiter alone
LEMMA LimiterKept ==
    ASSUME LimitsSound, UNCHANGED <<set, limits>>, now' \in {now, now + 1},
           \A s \in Requests : req'[s].pc \in AtLimiter => req'[s] = req[s]
    PROVE  LimitsSound'
<1>1. UNCHANGED <<limiters, buckets, admitted>>
  BY Zenon DEF limits
<1>2. now' \in Nat /\ \A i \in DOMAIN buckets : buckets'[i].last <= now'
  <2>1. now \in Nat /\ \A i \in DOMAIN buckets : buckets[i] \in [tokens : Nat, last : Nat]
    <3> DEFINE T == [tokens : Nat, last : Nat]
    <3>1. buckets \in Seq(T) /\ now \in Nat
      BY Zenon DEF LimitsSound
    <3> HIDE DEF T
    <3>2. \A i \in DOMAIN buckets : buckets[i] \in T
      BY <3>1
    <3> QED
      BY Zenon, <3>1, <3>2 DEF T
  <2>2. \A i \in DOMAIN buckets : buckets[i].last \in Nat /\ buckets[i].last <= now
    BY Zenon, <2>1 DEF LimitsSound
  <2> QED
    BY <1>1, <2>1, <2>2
<1>3. \A k : BucketOf(k)' = BucketOf(k)
  BY Zenon, <1>1 DEF BucketOf
<1>4. BucketsOwned'
  BY Zenon, <1>1, <1>3, LimitsStay DEF LimitsSound, BucketsOwned, AtLimiter
<1>5. \A k \in LimitKeys :
        IF BucketOf(k)' = 0 THEN \A r \in Requests : LimitKey(r) = k => admitted'[r] = -1
        ELSE Covered(admitted', k, buckets'[BucketOf(k)'])
  BY Zenon, <1>1, <1>3 DEF LimitsSound
<1>6. \A k \in LimitKeys : (Covered(admitted, k, buckets[BucketOf(k)]))'
                             = Covered(admitted', k, buckets'[BucketOf(k)'])
  BY Zenon, <1>1, <1>3, LimitsStay
<1> QED
  BY Zenon, <1>1, <1>2, <1>4, <1>5, <1>6, LimitsStay DEF LimitsSound

\* PreHook of the rate limiter: the request has the bucket of its key, or makes one.
LEMMA PreRateLimitSound ==
    ASSUME RequestsSound, LimitsSound, NEW r \in Requests, PreRateLimit(r)
    PROVE  LimitsSound'
<1> DEFINE b == BucketOf(LimitKey(r))
<1>1. /\ req' = [req EXCEPT ![r].held = b, ![r].pc = IF b = 0 THEN "limiter" ELSE "allow"]
      /\ UNCHANGED <<set, now, limiters, buckets, admitted>>
  BY Zenon DEF PreRateLimit, BucketOf, limits
<1>2. DOMAIN req[r] = Fields /\ DOMAIN req = Requests
  BY Zenon DEF RequestsSound, Sound
<1>3. \A k : BucketOf(k)' = BucketOf(k)
  BY Zenon, <1>1 DEF BucketOf
<1> HIDE DEF b
<1>4. /\ req'[r].held = b /\ req'[r].pc = IF b = 0 THEN "limiter" ELSE "allow"
      /\ \A s \in Requests : s # r => req'[s] = req[s]
  BY <1>1, <1>2 DEF Fields
<1>5. b = 0 => LimitKey(r) # "global"
  BY DEF b, BucketOf
<1>6. ASSUME NEW s \in Requests, req'[s].pc \in AtLimiter
      PROVE  IF req'[s].pc = "limiter" THEN LimitKey(s) # "global"
             ELSE req'[s].held # 0 /\ req'[s].held = BucketOf(LimitKey(s))
  <2>1. CASE s = r
    BY <1>4, <1>5, <2>1 DEF b
  <2>2. CASE s # r
    BY Zenon, <1>4, <1>6, <2>2 DEF LimitsSound, BucketsOwned
  <2> QED
    BY Zenon, <2>1, <2>2
<1>7. BucketsOwned'
  BY Zenon, <1>1, <1>3, <1>6, LimitsStay DEF LimitsSound, BucketsOwned, AtLimiter
<1>8. \A k \in LimitKeys : (Covered(admitted, k, buckets[BucketOf(k)]))'
                             = Covered(admitted, k, buckets[BucketOf(k)])
  BY Zenon, <1>1, <1>3, LimitsStay
<1> QED
  BY Zenon, <1>1, <1>3, <1>7, <1>8, LimitsStay DEF LimitsSound

\* A new bucket is full and nobody has been admitted through it.
LEMMA FreshBucket ==
    ASSUME set \in Settings, NEW f \in [Requests -> Int], NEW k, NEW n \in Nat,
           \A r \in Requests : LimitKey(r) = k => f[r] = -1
    PROVE  Covered(f, k, [tokens |-> set.Burst, last |-> n])
<1>1. set.Burst \in Nat /\ set.Rate \in Nat
  BY Zenon, SettingsAssumption
<1> DEFINE b == [tokens |-> set.Burst, last |-> n]
<1>2. b.tokens = set.Burst /\ b.last = n
  OBVIOUS
<1>3. \A s, t \in 0 .. n : -1 \notin s .. t
  OBVIOUS
<1>4. \A s, t \in 0 .. n : Between(f, k, s, t) = {}
  BY Zenon, <1>3 DEF Between
<1>5. \A s, t \in 0 .. n : Cardinality(Between(f, k, s, t)) = 0
  BY Zenon, <1>4, FS_EmptySet
<1>6. \A s, t \in 0 .. n : s <= t => set.Rate * (t - s) \in Nat
  BY <1>1
<1>7. n \in 0 .. n /\ \A s \in 0 .. n : s <= n
  OBVIOUS
<1>8. \A s \in 0 .. n : Cardinality(Between(f, k, s, n)) + b.tokens <= set.Burst + set.Rate * (n - s)
  <2> TAKE s \in 0 .. n
  <2> DEFINE w == set.Rate * (n - s)
  <2>1. w \in Nat /\ Cardinality(Between(f, k, s, n)) = 0
    BY Zenon, <1>5, <1>6, <1>7
  <2> HIDE DEF w
  <2>2. Cardinality(Between(f, k, s, n)) + b.tokens <= set.Burst + w
    BY <1>1, <1>2, <2>1
  <2> QED
    BY Zenon, <2>2 DEF w
<1>9. \A s, t \in 0 .. n :
        s <= t => Cardinality(Between(f, k, s, t)) <= set.Burst + set.Rate * (t - s)
  <2> TAKE s, t \in 0 .. n
  <2> HAVE s <= t
  <2> DEFINE w == set.Rate * (t - s)
  <2>1. w \in Nat /\ Cardinality(Between(f, k, s, t)) = 0
    BY Zenon, <1>5, <1>6
  <2> HIDE DEF w
  <2>2. Cardinality(Between(f, k, s, t)) <= set.Burst + w
    BY <1>1, <2>1
  <2> QED
    BY Zenon, <2>2 DEF w
<1>10. \A r \in Requests : LimitKey(r) = k => f[r] <= n
  OBVIOUS
<1> HIDE DEF b
<1>11. Covered(f, k, b)
  BY Zenon, <1>2, <1>8, <1>9, <1>10 DEF Covered
<1> QED
  BY Zenon, <1>11 DEF b

\* getLimiter: LoadOrStore keeps one bucket for a key.
LEMMA GetLimiterSound ==
    ASSUME set \in Settings, RequestsSound, LimitsSound, NEW r \in Requests, GetLimiter(r)
    PROVE  LimitsSound'
<1> PICK k : k = LimitKey(r)
  OBVIOUS
<1> DEFINE fresh == [tokens |-> set.Burst, last |-> now]
<1>1. /\ req[r].pc = "limiter" /\ LoadOrStore(k)
      /\ req' = [req EXCEPT ![r].held = limiters'[k], ![r].pc = "allow"]
      /\ UNCHANGED <<set, now, admitted>>
  BY Zenon DEF GetLimiter
<1>2. DOMAIN req[r] = Fields /\ DOMAIN req = Requests
  BY Zenon DEF RequestsSound, Sound
<1>3. k \in LimitKeys
  BY Zenon DEF LimitKeys
<1>4. k # "global" /\ DOMAIN limiters = LimitKeys
  BY <1>1 DEF LimitsSound, BucketsOwned, AtLimiter
<1>5. /\ req'[r].held = limiters'[k] /\ req'[r].pc = "allow"
      /\ \A s \in Requests : s # r => req'[s] = req[s]
  BY <1>1, <1>2 DEF Fields
<1>6. BucketOf(k) = limiters[k] /\ BucketOf(k)' = limiters'[k]
  BY Zenon, <1>4 DEF BucketOf
<1>7. CASE limiters[k] # 0
  <2>1. UNCHANGED <<limiters, buckets>>
    BY Zenon, <1>1, <1>7 DEF LoadOrStore
  <2>2. \A j : BucketOf(j)' = BucketOf(j)
    BY Zenon, <2>1 DEF BucketOf
  <2>3. ASSUME NEW s \in Requests, req'[s].pc \in AtLimiter
        PROVE  IF req'[s].pc = "limiter" THEN LimitKey(s) # "global"
               ELSE req'[s].held # 0 /\ req'[s].held = BucketOf(LimitKey(s))
    <3>1. CASE s = r
      BY <1>5, <1>6, <1>7, <2>1, <3>1
    <3>2. CASE s # r
      BY Zenon, <1>5, <2>3, <3>2 DEF LimitsSound, BucketsOwned
    <3> QED
      BY Zenon, <3>1, <3>2
  <2>4. BucketsOwned'
    BY ZenonT(60), <2>1, <2>2, <2>3, <1>1, LimitsStay DEF LimitsSound, BucketsOwned, AtLimiter
  <2>5. \A j \in LimitKeys : (Covered(admitted, j, buckets[BucketOf(j)]))'
                               = Covered(admitted, j, buckets[BucketOf(j)])
    BY Zenon, <1>1, <2>1, <2>2, LimitsStay
  <2> QED
    BY Zenon, <1>1, <2>1, <2>2, <2>4, <2>5, LimitsStay DEF LimitsSound
<1>8. CASE limiters[k] = 0
  <2> DEFINE T == [tokens : Nat, last : Nat]
             n == Len(buckets) + 1
  <2>1. limiters' = [limiters EXCEPT ![k] = n] /\ buckets' = Append(buckets, fresh)
    BY Zenon, <1>1, <1>8 DEF LoadOrStore
  <2>2. fresh \in T /\ fresh.last = now
    BY Zenon, SettingsAssumption DEF LimitsSound
  <2>3. buckets \in Seq(T) /\ Len(buckets) >= 1
    BY Zenon DEF LimitsSound
  <2> HIDE DEF T, fresh
  <2>4. /\ buckets' \in Seq(T) /\ Len(buckets') = n /\ n \in Nat /\ n > Len(buckets) /\ n > 1
        /\ buckets'[n] = fresh /\ \A i \in 1 .. Len(buckets) : buckets'[i] = buckets[i]
        /\ DOMAIN buckets' = 1 .. n /\ DOMAIN buckets = 1 .. Len(buckets)
    BY <2>1, <2>2, <2>3
  <2> HIDE DEF n
  <2>5. \A i \in DOMAIN buckets' : buckets'[i].last <= now
    <3>1. \A i \in DOMAIN buckets' : i = n \/ i \in DOMAIN buckets
      BY <2>3, <2>4 DEF n
    <3>2. fresh.last <= now
      BY <2>2 DEF LimitsSound
    <3> QED
      BY Zenon, <2>4, <3>1, <3>2 DEF LimitsSound
  <2>6. limiters'[k] = n /\ DOMAIN limiters' = LimitKeys
    BY Zenon, <1>3, <1>4, <2>1
  <2>7. \A j \in LimitKeys : j # k => BucketOf(j)' = BucketOf(j)
    BY Zenon, <1>4, <2>1 DEF BucketOf
  <2>8. \A j \in LimitKeys : BucketOf(j) \in 0 .. Len(buckets)
    BY Zenon DEF LimitsSound, BucketsOwned
  <2>9. Len(buckets) \in Nat /\ n # 0 /\ \A j \in LimitKeys : BucketOf(j) # n
    BY <2>3, <2>4, <2>8
  <2>10. \A j \in LimitKeys : BucketOf(j)' \in 0 .. Len(buckets')
    <3>1. \A i \in 0 .. Len(buckets) : i \in 0 .. n
      BY <2>4, <2>9
    <3>2. n \in 0 .. n
      BY <2>4
    <3> QED
      BY Zenon, <1>6, <2>4, <2>6, <2>7, <2>8, <3>1, <3>2
  <2>11. \A i, j \in LimitKeys : BucketOf(i)' = BucketOf(j)' => i = j \/ BucketOf(i)' = 0
    <3>1. \A i, j \in LimitKeys : BucketOf(i) = BucketOf(j) => i = j \/ BucketOf(i) = 0
      BY Zenon DEF LimitsSound, BucketsOwned
    <3>2. \A j \in LimitKeys : j # k => BucketOf(j)' # BucketOf(k)'
      BY Zenon, <1>6, <2>6, <2>7, <2>9
    <3> TAKE i, j \in LimitKeys
    <3>3. CASE i # k /\ j # k
      BY Zenon, <2>7, <3>1, <3>3
    <3> QED
      BY Zenon, <3>2, <3>3
  <2>12. ASSUME NEW s \in Requests, req'[s].pc \in AtLimiter
         PROVE  IF req'[s].pc = "limiter" THEN LimitKey(s) # "global"
                ELSE req'[s].held # 0 /\ req'[s].held = BucketOf(LimitKey(s))'
    <3>1. CASE s = r
      <4>1. req'[s].pc = "allow" /\ req'[s].held = n /\ BucketOf(k)' = n /\ LimitKey(s) = k
        BY Zenon, <1>5, <1>6, <2>6, <3>1
      <4>2. LimitKey(s)' = k
        BY Zenon, <1>1, <4>1, LimitsStay
      <4>3. BucketOf(LimitKey(s))' = n
        BY Zenon, <4>1, <4>2 DEF BucketOf
      <4> QED
        BY <2>9, <4>1, <4>3
    <3>2. CASE s # r
      <4>1. req'[s] = req[s] /\ LimitKey(s) \in LimitKeys
        BY Zenon, <1>5, <3>2 DEF LimitKeys
      <4>2. IF req[s].pc = "limiter" THEN LimitKey(s) # "global"
            ELSE req[s].held # 0 /\ req[s].held = BucketOf(LimitKey(s))
        BY Zenon, <2>12, <4>1 DEF LimitsSound, BucketsOwned
      <4>3. LimitKey(s) # k => BucketOf(LimitKey(s))' = BucketOf(LimitKey(s))
        BY Zenon, <1>1, <2>7, <4>1, LimitsStay DEF BucketOf
      <4> QED
        BY Zenon, <1>6, <1>8, <4>1, <4>2, <4>3
    <3> QED
      BY Zenon, <3>1, <3>2
  <2>13. BucketsOwned'
    BY Zenon, <1>1, <2>6, <2>10, <2>11, <2>12, LimitsStay DEF BucketsOwned, AtLimiter
  <2>14. ASSUME NEW j \in LimitKeys
         PROVE  IF BucketOf(j)' = 0 THEN \A s \in Requests : LimitKey(s) = j => admitted'[s] = -1
                ELSE Covered(admitted', j, buckets'[BucketOf(j)'])
    <3>1. CASE j = k
      <4>1. \A s \in Requests : LimitKey(s) = k => admitted[s] = -1
        BY Zenon, <1>3, <1>6, <1>8 DEF LimitsSound
      <4>2. Covered(admitted, k, fresh)
        BY Zenon, <4>1, FreshBucket DEF LimitsSound, fresh
      <4> QED
        BY Zenon, <1>1, <1>6, <2>4, <2>6, <2>9, <3>1, <4>2
    <3>2. CASE j # k
      <4>1. BucketOf(j)' = BucketOf(j)
        BY Zenon, <2>7, <3>2
      <4>2. BucketOf(j) # 0 => BucketOf(j) \in 1 .. Len(buckets)
        BY <2>8, <2>9
      <4> QED
        BY Zenon, <1>1, <2>4, <4>1, <4>2 DEF LimitsSound
    <3> QED
      BY Zenon, <3>1, <3>2
  <2>15. \A j \in LimitKeys : (Covered(admitted, j, buckets[BucketOf(j)]))'
                                = Covered(admitted', j, buckets'[BucketOf(j)'])
    BY Zenon, <1>1, LimitsStay
  <2>16. Len(buckets') >= 1
    BY <2>4
  <2>17. buckets' \in Seq([tokens : Nat, last : Nat])
    BY Zenon, <2>4 DEF T
  <2>18. now \in Nat /\ admitted \in [Requests -> Int]
    BY Zenon DEF LimitsSound
  <2> QED
    BY Zenon, <1>1, <2>5, <2>13, <2>14, <2>15, <2>16, <2>17, <2>18,
       LimitsStay DEF LimitsSound
<1> QED
  BY Zenon, <1>7, <1>8

\* What a refill leaves in a bucket
LEMMA RefillIs ==
    ASSUME NEW a \in Nat, NEW b \in Nat
    PROVE  Min({a, b}) \in Nat /\ Min({a, b}) <= a /\ Min({a, b}) <= b
<1>1. \E x \in {a, b} : \A y \in {a, b} : x <= y
  OBVIOUS
<1>2. Min({a, b}) \in {a, b} /\ \A y \in {a, b} : Min({a, b}) <= y
  BY Zenon, <1>1 DEF Min
<1> QED
  BY <1>2

\* tokenBucket.allow: the bucket is refilled, and a request is admitted for a token of it.
LEMMA AllowSound ==
    ASSUME set \in Settings, RequestsSound, LimitsSound, NEW r \in Requests, Allow(r)
    PROVE  LimitsSound'
<1> DEFINE T == [tokens : Nat, last : Nat]
<1>1. PICK k, h, n, B, R : k = LimitKey(r) /\ h = req[r].held /\ n = now /\ B = set.Burst /\ R = set.Rate
  OBVIOUS
<1>2. req[r].pc = "allow" /\ UNCHANGED <<set, now, limiters>>
  BY Zenon DEF Allow
<1>3. k \in LimitKeys /\ h # 0 /\ h = BucketOf(k)
  <2>1. req[r].pc \in AtLimiter /\ req[r].pc # "limiter"
    BY <1>2 DEF AtLimiter
  <2> QED
    BY Zenon, <1>1, <2>1 DEF LimitsSound, BucketsOwned, LimitKeys
<1>4. B \in Nat /\ R \in Nat /\ n \in Nat
  BY Zenon, <1>1, SettingsAssumption DEF LimitsSound
<1>5. buckets \in Seq(T) /\ BucketOf(k) \in 0 .. Len(buckets)
  BY Zenon, <1>3 DEF LimitsSound, BucketsOwned
<1> HIDE DEF T
<1>6. h \in DOMAIN buckets /\ buckets[h] \in T
  BY <1>3, <1>5
<1>7. PICK b : b = buckets[h]
  OBVIOUS
<1>8. b.tokens \in Nat /\ b.last \in Nat /\ b.last <= n /\ Covered(admitted, k, b)
  BY Zenon, <1>1, <1>3, <1>6, <1>7 DEF T, LimitsSound
<1>9. PICK m : m = Min({b.tokens + (n - b.last) * R, B})
  OBVIOUS
<1>10. m \in Nat /\ m <= b.tokens + (n - b.last) * R /\ m <= B
  <2>1. b.tokens + (n - b.last) * R \in Nat
    BY <1>4, <1>8
  <2> QED
    BY Zenon, <1>4, <1>9, <2>1, RefillIs
<1>11. PICK c : c = [tokens |-> IF m >= 1 THEN m - 1 ELSE m, last |-> n]
  BY Zenon
<1>12. c \in T /\ c.last = n /\ c.tokens = IF m >= 1 THEN m - 1 ELSE m
  BY <1>4, <1>10, <1>11 DEF T
<1>13. /\ buckets' = [buckets EXCEPT ![h] = c]
       /\ admitted' = [admitted EXCEPT ![r] = IF m >= 1 THEN n ELSE @]
       /\ req' = [req EXCEPT ![r] =
            IF m >= 1 THEN Onward(req[r]) ELSE ShortCircuit(req[r], None, "limit")]
  <2> DEFINE e == [tokens |-> m, last |-> n]
  <2>1. Refilled(buckets[req[r].held]) = e
    BY Zenon, <1>1, <1>7, <1>9 DEF Refilled
  <2>2. e.tokens = m
    BY Zenon
  <2>3. [e EXCEPT !.tokens = IF m >= 1 THEN m - 1 ELSE m] = c
    BY <1>11
  <2> HIDE DEF e
  <2> QED
    BY Zenon, <1>1, <2>1, <2>2, <2>3 DEF Allow
<1>14. Covered(admitted', k, c)
  <2>1. \/ admitted' = admitted /\ c.tokens = m
        \/ admitted' = [admitted EXCEPT ![r] = n] /\ m >= 1 /\ c.tokens = m - 1
    <3>1. CASE m >= 1
      BY Zenon, <1>12, <1>13, <3>1
    <3>2. CASE ~ (m >= 1)
      <4>1. admitted' = [admitted EXCEPT ![r] = admitted[r]]
        BY Zenon, <1>13, <3>2
      <4>2. admitted' = admitted
        BY <4>1 DEF LimitsSound
      <4> QED
        BY Zenon, <1>12, <3>2, <4>2
    <3> QED
      BY Zenon, <3>1, <3>2
  <2>2. admitted \in [Requests -> Int] /\ LimitKey(r) = k /\ set.Rate = R /\ set.Burst = B
    BY Zenon, <1>1 DEF LimitsSound
  <2> QED
    BY Zenon, <1>4, <1>8, <1>10, <1>12, <2>1, <2>2, Spending
<1>15. admitted' \in [Requests -> Int] /\ \A s \in Requests : s # r => admitted'[s] = admitted[s]
  BY <1>4, <1>13 DEF LimitsSound
<1>16. /\ buckets' \in Seq(T) /\ Len(buckets') = Len(buckets) /\ DOMAIN buckets' = DOMAIN buckets
       /\ buckets'[h] = c /\ \A i \in DOMAIN buckets : i # h => buckets'[i] = buckets[i]
  BY <1>5, <1>6, <1>12, <1>13
<1>17. \A i \in DOMAIN buckets' : buckets'[i].last <= now
  <2>1. c.last <= now
    BY <1>1, <1>4, <1>12
  <2> QED
    BY Zenon, <1>16, <2>1 DEF LimitsSound
<1>18. \A j : BucketOf(j)' = BucketOf(j)
  BY Zenon, <1>2 DEF BucketOf
<1>19. Elsewhere(r)
  <2>1. DOMAIN req[r] = Fields
    BY Zenon DEF RequestsSound, Sound
  <2>2. /\ Onward(req[r]).pc \notin AtLimiter
        /\ ShortCircuit(req[r], None, "limit").pc \notin AtLimiter
    BY Zenon, <2>1, StepsElsewhere
  <2> QED
    BY Zenon, <1>13, <2>2, Moves
<1>20. BucketsOwned'
  BY ZenonT(60), <1>2, <1>16, <1>18, <1>19, LimitsStay DEF LimitsSound, BucketsOwned,
     AtLimiter, Elsewhere
<1>21. ASSUME NEW j \in LimitKeys
       PROVE  IF BucketOf(j)' = 0 THEN \A s \in Requests : LimitKey(s) = j => admitted'[s] = -1
              ELSE Covered(admitted', j, buckets'[BucketOf(j)'])
  <2>1. CASE j = k
    BY Zenon, <1>3, <1>14, <1>16, <1>18, <2>1
  <2>2. CASE j # k
    <3>1. BucketOf(j) # h
      BY Zenon, <1>3, <2>2 DEF LimitsSound, BucketsOwned
    <3>2. \A s \in Requests : LimitKey(s) = j => admitted'[s] = admitted[s]
      BY Zenon, <1>1, <1>15, <2>2
    <3>3. \A s, t : Between(admitted', j, s, t) = Between(admitted, j, s, t)
      BY Zenon, <3>2 DEF Between
    <3>4. \A d : Covered(admitted, j, d) => Covered(admitted', j, d)
      BY Zenon, <3>2, <3>3 DEF Covered
    <3>5. BucketOf(j) \in 0 .. Len(buckets) /\ DOMAIN buckets = 1 .. Len(buckets)
      BY <1>5 DEF LimitsSound, BucketsOwned
    <3>6. BucketOf(j) # 0 => BucketOf(j) \in DOMAIN buckets
      BY <1>5, <3>5
    <3> QED
      BY Zenon, <1>16, <1>18, <3>1, <3>2, <3>4, <3>6 DEF LimitsSound
  <2> QED
    BY Zenon, <2>1, <2>2
<1>22. \A j \in LimitKeys : (Covered(admitted, j, buckets[BucketOf(j)]))'
                              = Covered(admitted', j, buckets'[BucketOf(j)'])
  BY Zenon, <1>2, LimitsStay
<1>23. buckets' \in Seq([tokens : Nat, last : Nat]) /\ Len(buckets') >= 1 /\ now \in Nat
  BY Zenon, <1>16 DEF T, LimitsSound
<1> QED
  BY Zenon, <1>2, <1>15, <1>17, <1>20, <1>21, <1>22, <1>23, LimitsStay DEF LimitsSound

\* Every step keeps the limiter sound.
LEMMA LimitsKept ==
    ASSUME IInv, LimitsSound, [Next]_vars
    PROVE  LimitsSound'
<1>1. set \in Settings /\ RequestsSound
  BY Zenon DEF IInv, Life
<1>2. ASSUME NEW r \in Requests, Hook(r) \/ Serve(r) PROVE LimitsSound'
  <2>1. CASE PreRateLimit(r) \/ GetLimiter(r) \/ Allow(r)
    BY Zenon, <1>1, <2>1, PreRateLimitSound, GetLimiterSound, AllowSound
  <2>2. CASE ~ (PreRateLimit(r) \/ GetLimiter(r) \/ Allow(r))
    <3>1. Elsewhere(r) /\ UNCHANGED <<set, now, limits>>
      BY Zenon, <1>1, <1>2, <2>2, HooksElsewhere, ServesElsewhere
    <3> QED
      BY Zenon, <3>1, LimiterKept DEF Elsewhere
  <2> QED
    BY Zenon, <2>1, <2>2
<1>3. ASSUME \/ \E r \in Requests : Write(r)
             \/ Register \/ Built \/ (\E c \in set.Closers : Shutdown(c) \/ Cleanup(c))
             \/ CleanupFinds \/ CleanupDeletes \/ ResetCounters \/ ResetModels \/ Tick
             \/ UNCHANGED vars
      PROVE  UNCHANGED <<set, limits, req>> /\ now' \in {now, now + 1}
  <2>1. CASE \E r \in Requests : Write(r)
    BY Zenon, <2>1 DEF Write, SetCounts, SetRanges, SetEvicts, SetStores
  <2>2. CASE ~ \E r \in Requests : Write(r)
    BY Zenon, <1>3, <2>2 DEF Register, Built, Shutdown, Cleanup, CleanupFinds,
       CleanupDeletes, ResetCounters, ResetModels, Tick, vars
  <2> QED
    BY Zenon, <2>1, <2>2
<1> QED
  BY Zenon, <1>2, <1>3, LimiterKept DEF Next

\* The bounds that the builtin plugins set hold under any number of concurrent requests: no
\* key is admitted more often than the burst and the rate of RateLimitPlugin allow, whichever
\* window one looks at, and the backend of CachePlugin holds MaxSize responses, and one more
\* for each Set that overlapped another one.
THEOREM BuiltinBoundsHold == Spec => []BoundsHold
<1>1. Init => LimitsSound
  <2> SUFFICES ASSUME Init PROVE LimitsSound
    BY Zenon
  <2>1. /\ set \in Settings /\ now = 0 /\ admitted = [r \in Requests |-> -1]
        /\ limiters = [k \in LimitKeys |-> 0]
    BY Zenon DEF Init
  <2> DEFINE b == [tokens |-> set.Burst, last |-> 0]
  <2>2. buckets = << b >>
    BY Zenon DEF Init
  <2>3. b \in [tokens : Nat, last : Nat] /\ b.last = 0
    BY Zenon, <2>1, SettingsAssumption
  <2> HIDE DEF b
  <2>4. /\ buckets \in Seq([tokens : Nat, last : Nat]) /\ Len(buckets) = 1 /\ buckets[1] = b
        /\ DOMAIN buckets = {1}
    BY <2>2, <2>3
  <2>5. admitted \in [Requests -> Int] /\ \A r \in Requests : admitted[r] = -1
    BY <2>1
  <2>6. \A k \in LimitKeys : BucketOf(k) = IF k = "global" THEN 1 ELSE 0
    BY Zenon, <2>1 DEF BucketOf
  <2>7. \A r \in Requests : req[r].pc = "idle"
    <3> TAKE r \in Requests
    <3>1. req[r] = [pc |-> "idle", i |-> 0, ctx |-> 0, resp |-> None, err |-> None, short |-> "no",
                    held |-> 0, chunks |-> 0]
      BY Zenon DEF Init
    <3> QED
      BY <3>1
  <2>8. BucketsOwned
    <3>1. DOMAIN limiters = LimitKeys
      BY Zenon, <2>1
    <3>2. \A k \in LimitKeys : BucketOf(k) \in 0 .. Len(buckets)
      BY <2>4, <2>6
    <3>3. \A k, j \in LimitKeys : BucketOf(k) = BucketOf(j) => k = j \/ BucketOf(k) = 0
      BY <2>6
    <3>4. \A r \in Requests : req[r].pc \notin AtLimiter
      BY <2>7 DEF AtLimiter
    <3> QED
      BY Zenon, <3>1, <3>2, <3>3, <3>4 DEF BucketsOwned
  <2>9. \A k : Covered(admitted, k, b)
    BY Zenon, <2>1, <2>5, FreshBucket DEF b
  <2>10. \A i \in DOMAIN buckets : buckets[i].last <= now
    BY <2>1, <2>3, <2>4
  <2>11. \A k \in LimitKeys : BucketOf(k) # 0 => buckets[BucketOf(k)] = b
    BY <2>4, <2>6
  <2>12. now \in Nat /\ Len(buckets) >= 1
    BY <2>1, <2>4
  <2> QED
    BY Zenon, <2>4, <2>5, <2>8, <2>9, <2>10, <2>11, <2>12 DEF LimitsSound
<1>2. IInv /\ LimitsSound => BurstBounded
  <2> SUFFICES ASSUME IInv, LimitsSound, NEW k \in LimitKeys, NEW s \in 0 .. now, NEW t \in 0 .. now, s <= t
               PROVE  Cardinality(Admitted(k, s, t)) <= set.Burst + set.Rate * (t - s)
    BY Zenon DEF BurstBounded
  <2>1. set \in Settings /\ now \in Nat /\ admitted \in [Requests -> Int]
    BY Zenon DEF IInv, Life, LimitsSound
  <2>2. set.Burst \in Nat /\ set.Rate \in Nat
    BY Zenon, <2>1, SettingsAssumption
  <2>3. \E b : b.last \in Nat /\ b.tokens \in Nat /\ b.last <= now /\ Covered(admitted, k, b)
    <3>1. CASE BucketOf(k) = 0
      <4> DEFINE b == [tokens |-> set.Burst, last |-> now]
      <4>1. Covered(admitted, k, b)
        BY Zenon, <2>1, <3>1, FreshBucket DEF LimitsSound
      <4>2. b.last \in Nat /\ b.tokens \in Nat /\ b.last <= now
        BY <2>1, <2>2
      <4> QED
        BY Zenon, <4>1, <4>2
    <3>2. CASE BucketOf(k) # 0
      <4> DEFINE T == [tokens : Nat, last : Nat]
                 b == buckets[BucketOf(k)]
      <4>1. buckets \in Seq(T) /\ BucketOf(k) \in 0 .. Len(buckets)
        BY Zenon DEF LimitsSound, BucketsOwned
      <4> HIDE DEF T
      <4>2. BucketOf(k) \in DOMAIN buckets /\ b \in T
        BY <3>2, <4>1
      <4> QED
        BY Zenon, <3>2, <4>2 DEF T, LimitsSound
    <3> QED
      BY Zenon, <3>1, <3>2
  <2>4. PICK b : b.last \in Nat /\ b.tokens \in Nat /\ b.last <= now /\ Covered(admitted, k, b)
    BY Zenon, <2>3
  <2>5. 0 \in Nat /\ 0 <= set.Burst /\ 0 <= b.tokens + (now - b.last) * set.Rate
    BY <2>1, <2>2, <2>4
  <2>6. Cardinality(Between(admitted, k, s, t)) <= set.Burst + set.Rate * (t - s)
    BY Zenon, <2>1, <2>4, <2>5, Refilling
  <2> QED
    BY Zenon, <2>6 DEF Admitted, Between
<1>3. IInv /\ LimitsSound /\ [Next]_vars => LimitsSound'
  BY Zenon, LimitsKept
<1>4. Spec => []BurstBounded
  BY <1>1, <1>2, <1>3, IInvInit, IInvStays, PTL DEF Spec
<1> QED
  BY <1>4, CacheStaysBounded, PTL DEF BoundsHold

=============================================================================
