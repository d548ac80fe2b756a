---------------------------- MODULE Router_proof ----------------------------
(***************************************************************************)
(* The router's invariants, for every set of requests, deployments and     *)
(* settings.                                                               *)
(*                                                                         *)
(* All of them speak of the entry that getOrCreateStats would return for a *)
(* key, whether it is stored or not (Entries): every action stores one     *)
(* entry, drops one or leaves all as they are.                             *)
(***************************************************************************)
EXTENDS Router, FiniteSetTheorems, TLAPS

USE SMTT(30)

Ring == 0..(WindowMinutes - 1)
Kinds == {"success", "failure"}
Bucket == [minute : Int, success : Nat, failure : Nat]
Rings == [Ring -> Bucket]
Entry == [active : Nat, cooldownUntil : Int, tpm : Nat, rpm : Nat, minuteKey : Int,
          buckets : Rings]
Counts(M) == [Outcomes -> [M -> Nat]]
Places == {"idle", "picking", "picked", "started", "failing", "reported"}
Holding == {"picked", "started", "failing", "reported"}

Entries == [k \in Keys |-> GetOrCreateStats(k)]

TypeInv ==
    /\ cfg \in Configs
    /\ deployments \in Seq(Deployments)
    /\ DOMAIN stats \subseteq Keys
    /\ Entries \in [Keys -> Entry]
    /\ now \in 0..MaxTime
    /\ admin \in Nat
    /\ pc \in [Requests -> Places]
    /\ snapshot \in [Requests -> Seq(Deployments)]
    /\ DOMAIN picked = Requests
    /\ \A r \in Requests : pc[r] \in Holding => picked[r] \in Deployments
    /\ DOMAIN single = Requests
    /\ log \in [Keys -> Counts(Minutes)]

\* A ring b of buckets agrees with the counts c of the minutes M at minute m.  A
\* bucket is unused or holds the counts of its minute, which is at most m.  A
\* minute with counts has its bucket unless a later minute has taken it.
RingAgrees(b, c, m, M) ==
    /\ \A i \in Ring :
           \/ b[i].minute = Never /\ b[i].success = 0 /\ b[i].failure = 0
           \/ /\ b[i].minute \in M /\ b[i].minute <= m
              /\ b[i].minute % WindowMinutes = i
              /\ b[i].success = c["success"][b[i].minute]
              /\ b[i].failure = c["failure"][b[i].minute]
    /\ \A kind \in Kinds : \A x \in M :
           c[kind][x] > 0 => x <= m /\ b[x % WindowMinutes].minute >= x

WindowInv ==
    \A k \in Keys : RingAgrees(Entries[k].buckets, log[k], CurrentMinute, Minutes)

LoadInv ==
    \A k \in Keys : /\ Entries[k].active <= Cardinality(InFlight(k))
                    /\ admin = 0 => Entries[k].active = Cardinality(InFlight(k))

\* The requests that were judged by the usage of key and have yet to add to it
Pending(key) ==
    {r \in Requests : /\ pc[r] \in {"picked", "started", "failing"}
                      /\ LocalStatsKey(r, picked[r]) = key}

\* Once the limit is reached nobody joins the requests that will pass it.
UsageInv ==
    RPMLimit > 0 /\ PickScopeOf = ScopeOf =>
        \A k \in Keys : Entries[k].rpm >= RPMLimit =>
            Entries[k].rpm + Cardinality(Pending(k)) <= RPMLimit - 1 + Cardinality(Requests)

Window(m, M) == {i \in M : i <= m /\ i > m - WindowMinutes}

\* What justifies a cooldown that begins in minute m, with the counts c of the
\* minutes M
Reason(c, m, isSingle, M) ==
    LET failures == Total(c["failure"], Window(m, M))
    IN  \/ c["401"][m] > 0
        \/ c["429"][m] > 0 /\ ImmediateCooldownOn429 /\ ~isSingle
        \/ IF isSingle THEN failures >= SingleMinRequests
           ELSE failures * ThresholdDen > ThresholdNum * MinRequests

\* Until a deployment is added or removed, what ReportFailure read of the list
\* is still true, and every cooldown began at an earlier moment with a reason.
CooldownInv ==
    admin = 0 =>
        /\ \A r \in Requests :
               pc[r] = "failing" => single[r] = (Len(deployments) = 1)
        /\ \A k \in Keys :
               Entries[k].cooldownUntil # Never =>
                   /\ Entries[k].cooldownUntil - CooldownPeriod \in 0..now
                   /\ Reason(log[k],
                             (Entries[k].cooldownUntil - CooldownPeriod) \div MinuteTicks,
                             Len(deployments) = 1, Minutes)

IInv == TypeInv /\ WindowInv /\ LoadInv /\ UsageInv /\ CooldownInv

-----------------------------------------------------------------------------
\* Division with remainder of a natural number
LEMMA DivFacts ==
    ASSUME NEW a \in Nat, NEW b \in Nat \ {0}
    PROVE  /\ a \div b \in Nat
           /\ a % b \in 0..(b - 1)
           /\ a = b * (a \div b) + (a % b)
OBVIOUS

\* Later moments are in later minutes.
LEMMA DivMonotone ==
    ASSUME NEW a \in Nat, NEW b \in Nat \ {0}, NEW c \in Nat, a <= c
    PROVE  a \div b <= c \div b
<1>1. PICK p \in Nat, q \in Nat : p = a \div b /\ q = c \div b
      BY Zenon, DivFacts
<1>2. b * p <= a /\ c < b * q + b
      BY <1>1, DivFacts
<1>3. p > q => b * p >= b * (q + 1)
      OBVIOUS
<1>4. b * (q + 1) = b * q + b
      OBVIOUS
<1> QED BY <1>1, <1>2, <1>3, <1>4

\* Of w minutes in a row no two have the same bucket.
LEMMA SameResidue ==
    ASSUME NEW w \in Nat \ {0}, NEW x \in Nat, NEW y \in Nat,
           x % w = y % w, x <= y, y < x + w
    PROVE  x = y
<1>1. PICK p \in Nat, q \in Nat : p = x \div w /\ q = y \div w
      BY Zenon, DivFacts
<1>2. y - x = w * q - w * p
      BY <1>1, DivFacts
<1>3. w * q - w * p = w * (q - p)
      OBVIOUS
<1>4. CASE q > p
      <2>1. w * (q - p) >= w
            BY <1>4
      <2> QED BY <2>1, <1>2, <1>3
<1>5. CASE q < p
      <2>1. w * (q - p) <= -w
            BY <1>5
      <2> QED BY <2>1, <1>2, <1>3
<1>6. CASE q = p
      BY <1>6, <1>2
<1> QED BY <1>4, <1>5, <1>6

\* The settings do not change.
LEMMA SettingsStay ==
    ASSUME cfg' = cfg
    PROVE  /\ Keys' = Keys /\ Minutes' = Minutes /\ MaxTime' = MaxTime
           /\ ScopeOf' = ScopeOf /\ PickScopeOf' = PickScopeOf /\ RPMLimit' = RPMLimit
           /\ Administered' = Administered
BY Zenon DEF Keys, Scopes, Minutes, MaxTime, ScopeOf, PickScopeOf, RPMLimit, Administered

\* What the settings are
LEMMA SettingsTypes ==
    ASSUME cfg \in Configs
    PROVE  /\ MaxTime \in Nat /\ RPMLimit \in Nat
           /\ Initial \in Seq(Deployments) /\ Administered \subseteq Deployments
           /\ \A r \in Requests : ScopeOf[r] \in Scopes /\ PickScopeOf[r] \in Scopes
           /\ "" \in Scopes
<1>1. /\ MaxTime \in Nat /\ RPMLimit \in Nat
      /\ Initial \in Seq(Deployments) /\ Administered \subseteq Deployments
      BY Zenon, ConfigsAssumption DEF MaxTime, RPMLimit, Initial, Administered
<1>2. \A r \in Requests : ScopeOf[r] \in Scopes /\ PickScopeOf[r] \in Scopes
      BY Zenon, ConfigsAssumption DEF ScopeOf, PickScopeOf, Scopes
<1> QED BY Zenon, <1>1, <1>2 DEF Scopes

\* The minutes are natural numbers, and the current one is among them.
LEMMA MinuteTypes ==
    ASSUME TypeInv
    PROVE  /\ Minutes \subseteq Nat
           /\ CurrentMinute \in Minutes
           /\ \A t \in 0..now : t \div MinuteTicks \in Minutes
                                /\ t \div MinuteTicks <= CurrentMinute
<1>1. MaxTime \in Nat /\ MinuteTicks \in Nat \ {0} /\ now \in 0..MaxTime
      BY Zenon, SettingsTypes, LimitAssumption DEF TypeInv
<1>2. MaxTime \div MinuteTicks \in Nat
      BY Zenon, <1>1, DivFacts
<1>3. Minutes \subseteq Nat
      BY <1>2 DEF Minutes
<1>4. ASSUME NEW t \in 0..now
      PROVE  /\ t \div MinuteTicks \in Minutes
             /\ t \div MinuteTicks <= CurrentMinute
      <2>1. t \in Nat /\ t <= now /\ t <= MaxTime /\ now \in Nat
            BY <1>1
      <2>2. /\ t \div MinuteTicks \in Nat
            /\ t \div MinuteTicks <= MaxTime \div MinuteTicks
            /\ t \div MinuteTicks <= now \div MinuteTicks
            BY Zenon, <2>1, <1>1, DivFacts, DivMonotone
      <2> QED BY <2>2, <1>2 DEF Minutes, CurrentMinute
<1>5. CurrentMinute \in Minutes
      BY <1>4, <1>1 DEF CurrentMinute
<1> QED BY Zenon, <1>3, <1>4, <1>5

\* A key of a request in the router's books
LEMMA KeyTypes ==
    ASSUME TypeInv
    PROVE  /\ \A r \in Requests : \A d \in Deployments :
                  LocalStatsKey(r, d) \in Keys /\ <<PickScopeOf[r], d>> \in Keys
           /\ \A d \in Deployments : <<"", d>> \in Keys
BY Zenon, SettingsTypes DEF TypeInv, Keys, LocalStatsKey

\* A new entry is an entry.
LEMMA NewEntryType == NewStatsEntry \in Entry
<1>1. [i \in 0..(WindowMinutes - 1) |-> [minute |-> Never, success |-> 0, failure |-> 0]]
          \in Rings
      BY DEF Ring, Bucket, Never, Rings
<1> QED BY <1>1 DEF NewStatsEntry, Entry, Never

\* StoreStats changes one entry.
LEMMA StoreEffect ==
    ASSUME TypeInv, cfg' = cfg, NEW key \in Keys, NEW e \in Entry,
           stats' = StoreStats(key, e)
    PROVE  /\ Entries' = [Entries EXCEPT ![key] = e]
           /\ DOMAIN stats' \subseteq Keys
           /\ Entries' \in [Keys -> Entry]
<1>1. Keys' = Keys
      BY Zenon, SettingsStay
<1>2. DOMAIN stats' = DOMAIN stats \cup {key}
      BY Zenon DEF StoreStats
<1>3. ASSUME NEW k \in Keys
      PROVE  GetOrCreateStats(k)' = IF k = key THEN e ELSE GetOrCreateStats(k)
      BY Zenon, <1>2 DEF GetOrCreateStats, StoreStats, NewStatsEntry
<1>4. Entries' = [k \in Keys |-> IF k = key THEN e ELSE GetOrCreateStats(k)]
      BY Zenon, <1>1, <1>3 DEF Entries
<1>5. Entries' = [Entries EXCEPT ![key] = e]
      BY Zenon, <1>4 DEF Entries
<1> QED BY Zenon, <1>5, <1>2 DEF TypeInv

\* Dropping an entry makes it new.
LEMMA DropEffect ==
    ASSUME TypeInv, cfg' = cfg, NEW key \in Keys,
           stats' = [k \in DOMAIN stats \ {key} |-> stats[k]]
    PROVE  /\ Entries' = [Entries EXCEPT ![key] = NewStatsEntry]
           /\ DOMAIN stats' \subseteq Keys
           /\ Entries' \in [Keys -> Entry]
<1>1. Keys' = Keys
      BY Zenon, SettingsStay
<1>2. DOMAIN stats' = DOMAIN stats \ {key}
      BY Zenon
<1>3. ASSUME NEW k \in Keys
      PROVE  GetOrCreateStats(k)' = IF k = key THEN NewStatsEntry ELSE GetOrCreateStats(k)
      BY Zenon, <1>2 DEF GetOrCreateStats, NewStatsEntry
<1>4. Entries' = [k \in Keys |-> IF k = key THEN NewStatsEntry ELSE GetOrCreateStats(k)]
      BY Zenon, <1>1, <1>3 DEF Entries
<1>5. Entries' = [Entries EXCEPT ![key] = NewStatsEntry]
      BY Zenon, <1>4 DEF Entries
<1> QED BY Zenon, <1>5, <1>2, NewEntryType DEF TypeInv

\* Actions that leave the statistics alone leave the entries alone.
LEMMA SameEffect ==
    ASSUME TypeInv, cfg' = cfg, stats' = stats
    PROVE  /\ Entries' = Entries
           /\ DOMAIN stats' \subseteq Keys
           /\ Entries' \in [Keys -> Entry]
<1>1. Keys' = Keys
      BY Zenon, SettingsStay
<1>2. \A k \in Keys : GetOrCreateStats(k)' = GetOrCreateStats(k)
      BY Zenon DEF GetOrCreateStats, NewStatsEntry
<1> QED BY Zenon, <1>1, <1>2 DEF Entries, TypeInv

-----------------------------------------------------------------------------
\* Sums of counts

\* A unit is counted under an index.
LEMMA UnitsMember ==
    ASSUME NEW S, NEW c
    PROVE  /\ \A i \in S : \A n \in 1..c[i] : <<i, n>> \in Units(c, S)
           /\ \A p \in Units(c, S) :
                  /\ p = <<p[1], p[2]>> /\ p[1] \in S
                  /\ p[2] \in 1..c[p[1]]
<1>1. ASSUME NEW i \in S, NEW n \in 1..c[i]
      PROVE  <<i, n>> \in Units(c, S)
      <2>1. <<i, n>> \in {i} \X (1..c[i])
            BY Zenon
      <2> QED BY Zenon, <2>1 DEF Units
<1>2. ASSUME NEW p \in Units(c, S)
      PROVE  p = <<p[1], p[2]>> /\ p[1] \in S /\ p[2] \in 1..c[p[1]]
      <2>1. PICK i \in S : p \in {i} \X (1..c[i])
            BY Zenon DEF Units
      <2> QED BY <2>1
<1> QED BY Zenon, <1>1, <1>2

\* A finite sum counts finitely many units.
LEMMA UnitsFinite ==
    ASSUME NEW S, IsFiniteSet(S), NEW c, \A i \in S : c[i] \in Nat
    PROVE  IsFiniteSet(Units(c, S))
<1> DEFINE Slice(i) == {i} \X (1..c[i])
           Slices == {Slice(i) : i \in S}
           f == [i \in S |-> Slice(i)]
<1>1. f \in Surjection(S, Slices)
      BY Zenon DEF Surjection
<1>2. IsFiniteSet(Slices)
      <2> HIDE DEF f, Slices
      <2> QED BY Zenon, <1>1, FS_Surjection
<1>3. ASSUME NEW T \in Slices
      PROVE  IsFiniteSet(T)
      <2>1. PICK i \in S : T = Slice(i)
            BY Zenon, <1>3
      <2>a. 1 \in Int /\ c[i] \in Int
            OBVIOUS
      <2>b. IsFiniteSet(1..c[i])
            BY Zenon, <2>a, FS_Interval
      <2>2. IsFiniteSet(1..c[i]) /\ IsFiniteSet({i})
            BY Zenon, <2>b, FS_Singleton
      <2>3. IsFiniteSet({i} \X (1..c[i]))
            BY Zenon, <2>2, FS_Product
      <2> QED BY Zenon, <2>1, <2>3
<1>4. IsFiniteSet(UNION Slices)
      <2> HIDE DEF Slices
      <2> QED BY Zenon, <1>2, <1>3, FS_UNION
<1> QED BY Zenon, <1>4 DEF Units

\* A sum is a natural number, and grows with its terms.
LEMMA TotalGrows ==
    ASSUME NEW S, IsFiniteSet(S), NEW c, NEW d,
           \A i \in S : c[i] \in Nat /\ d[i] \in Nat /\ c[i] <= d[i]
    PROVE  Total(c, S) \in Nat /\ Total(d, S) \in Nat /\ Total(c, S) <= Total(d, S)
<1>1. IsFiniteSet(Units(c, S)) /\ IsFiniteSet(Units(d, S))
      BY Zenon, UnitsFinite
<1>2. ASSUME NEW p \in Units(c, S)
      PROVE  p \in Units(d, S)
      <2>1. p = <<p[1], p[2]>> /\ p[1] \in S /\ p[2] \in 1..c[p[1]]
            BY Zenon, UnitsMember
      <2>2. p[2] \in 1..d[p[1]]
            BY <2>1
      <2>3. <<p[1], p[2]>> \in Units(d, S)
            BY Zenon, <2>1, <2>2, UnitsMember
      <2> QED BY Zenon, <2>1, <2>3
<1>3. Units(c, S) \in SUBSET Units(d, S)
      BY Zenon, <1>2
<1> QED BY Zenon, <1>1, <1>3, FS_Subset, FS_CardinalityType DEF Total

\* Two sums are equal when the terms of one are those of the other under other
\* indices, but for terms that are zero.
LEMMA TotalRenamed ==
    ASSUME NEW S, IsFiniteSet(S), NEW T, NEW c, NEW d, NEW g,
           \A i \in S : c[i] \in Nat /\ (c[i] > 0 => g[i] \in T /\ d[g[i]] = c[i]),
           \A i \in S, j \in S : c[i] > 0 /\ c[j] > 0 /\ g[i] = g[j] => i = j,
           \A t \in T : d[t] \in Nat /\ (d[t] > 0 => \E i \in S : g[i] = t /\ c[i] = d[t])
    PROVE  Total(c, S) = Total(d, T)
<1> DEFINE f == [p \in Units(c, S) |-> <<g[p[1]], p[2]>>]
<1>1. ASSUME NEW p \in Units(c, S)
      PROVE  /\ p = <<p[1], p[2]>> /\ p[1] \in S /\ p[2] \in 1..c[p[1]]
             /\ c[p[1]] > 0
             /\ <<g[p[1]], p[2]>> \in Units(d, T)
      <2>1. p = <<p[1], p[2]>> /\ p[1] \in S /\ p[2] \in 1..c[p[1]]
            BY Zenon, UnitsMember
      <2>2. c[p[1]] > 0
            BY <2>1
      <2>3. g[p[1]] \in T /\ p[2] \in 1..d[g[p[1]]]
            BY Zenon, <2>1, <2>2
      <2> QED BY Zenon, <2>1, <2>2, <2>3, UnitsMember
<1>2. f \in [Units(c, S) -> Units(d, T)]
      BY Zenon, <1>1
<1>3. ASSUME NEW q \in Units(d, T)
      PROVE  \E p \in Units(c, S) : f[p] = q
      <2>1. q = <<q[1], q[2]>> /\ q[1] \in T /\ q[2] \in 1..d[q[1]]
            BY Zenon, UnitsMember
      <2>2. d[q[1]] > 0
            BY <2>1
      <2>3. PICK i \in S : g[i] = q[1] /\ c[i] = d[q[1]]
            BY Zenon, <2>1, <2>2
      <2>4. q[2] \in 1..c[i]
            BY Zenon, <2>1, <2>3
      <2>5. <<i, q[2]>> \in Units(c, S)
            BY Zenon, <2>4, UnitsMember
      <2>6. f[<<i, q[2]>>] = <<g[i], q[2]>>
            BY Zenon, <2>5
      <2> QED BY Zenon, <2>1, <2>3, <2>5, <2>6
<1>4. ASSUME NEW p \in Units(c, S), NEW q \in Units(c, S), f[p] = f[q]
      PROVE  p = q
      <2>1. <<g[p[1]], p[2]>> = <<g[q[1]], q[2]>>
            BY Zenon, <1>4
      <2>2. g[p[1]] = g[q[1]] /\ p[2] = q[2]
            BY Zenon, <2>1
      <2>3. p[1] = q[1]
            <3>1. p[1] \in S /\ q[1] \in S /\ c[p[1]] > 0 /\ c[q[1]] > 0
                  BY Zenon, <1>1
            <3> QED BY Zenon, <2>2, <3>1
      <2>4. p = <<p[1], p[2]>> /\ q = <<q[1], q[2]>>
            BY Zenon, <1>1
      <2> QED BY Zenon, <2>2, <2>3, <2>4
<1>5. IsFiniteSet(Units(c, S))
      BY Zenon, UnitsFinite
<1> HIDE DEF f
<1>6. f \in Surjection(Units(c, S), Units(d, T))
      BY Zenon, <1>2, <1>3 DEF Surjection
<1>7. f \in Injection(Units(c, S), Units(d, T))
      BY Zenon, <1>2, <1>4 DEF Injection, IsInjective
<1>8. Cardinality(Units(d, T)) = Cardinality(Units(c, S))
      BY Zenon, <1>5, <1>6, <1>7, FS_Surjection
<1> QED BY Zenon, <1>8 DEF Total

-----------------------------------------------------------------------------
\* The ring of buckets

\* The counts of the two kinds are among those of a log.
LEMMA KindTypes ==
    /\ "success" \in Outcomes /\ "failure" \in Outcomes
    /\ Kinds \subseteq Outcomes /\ Statuses \subseteq Outcomes
    /\ \A s \in Statuses : s # "success" /\ s # "failure"
BY Zenon DEF Kinds, Outcomes, Statuses

\* Every minute has a bucket.
LEMMA RingIndex ==
    ASSUME NEW x \in Nat
    PROVE  x % WindowMinutes \in Ring
<1>1. WindowMinutes \in Nat \ {0}
      BY Zenon, LimitAssumption
<1> QED BY Zenon, <1>1, DivFacts DEF Ring

\* Agreement does not suffer from the passing of time.
LEMMA RingLater ==
    ASSUME NEW M \in SUBSET Nat, NEW m \in Nat, NEW n \in Nat, m <= n,
           NEW b \in Rings, NEW c, RingAgrees(b, c, m, M)
    PROVE  RingAgrees(b, c, n, M)
<1>1. \A i \in Ring : b[i].minute \in Int
      BY Zenon DEF Bucket, Rings
<1>2. \A x \in M : x \in Nat
      BY Zenon
<1>3. ASSUME NEW i \in Ring
      PROVE  \/ b[i].minute = Never /\ b[i].success = 0 /\ b[i].failure = 0
             \/ /\ b[i].minute \in M /\ b[i].minute <= n
                /\ b[i].minute % WindowMinutes = i
                /\ b[i].success = c["success"][b[i].minute]
                /\ b[i].failure = c["failure"][b[i].minute]
      BY <1>1 DEF RingAgrees
<1>4. ASSUME NEW kind \in Kinds, NEW x \in M, c[kind][x] > 0
      PROVE  x <= n /\ b[x % WindowMinutes].minute >= x
      BY <1>4, <1>2 DEF RingAgrees
<1> QED BY Zenon, <1>3, <1>4 DEF RingAgrees

\* The buckets of a new entry agree with a log without outcomes.
LEMMA RingNew ==
    ASSUME NEW m
    PROVE  RingAgrees(NewStatsEntry.buckets, NoOutcomes, m, Minutes)
<1>1. \A i \in Ring : NewStatsEntry.buckets[i]
                          = [minute |-> Never, success |-> 0, failure |-> 0]
      BY Zenon DEF NewStatsEntry, Ring
<1>2. \A kind \in Kinds : \A x \in Minutes : NoOutcomes[kind][x] = 0
      BY Zenon, KindTypes DEF NoOutcomes
<1>3. \A i \in Ring : /\ NewStatsEntry.buckets[i].minute = Never
                      /\ NewStatsEntry.buckets[i].success = 0
                      /\ NewStatsEntry.buckets[i].failure = 0
      BY <1>1
<1> QED BY <1>2, <1>3 DEF RingAgrees

\* The bucket of the current minute m in ring b, as recordWindow finds it or
\* starts it afresh
Started(b, m) ==
    IF b[m % WindowMinutes].minute # m
    THEN [minute |-> m, success |-> 0, failure |-> 0]
    ELSE b[m % WindowMinutes]

\* The bucket that recordWindow adds to holds the counts of the current minute.
LEMMA RingStarted ==
    ASSUME NEW M, NEW m \in M, m \in Nat,
           NEW b \in Rings, NEW c \in Counts(M),
           RingAgrees(b, c, m, M)
    PROVE  /\ Started(b, m) \in Bucket
           /\ Started(b, m).minute = m
           /\ Started(b, m).success = c["success"][m]
           /\ Started(b, m).failure = c["failure"][m]
<1>1. PICK w \in Ring : w = m % WindowMinutes
      BY Zenon, RingIndex
<1>2. b[w] \in Bucket /\ b[w].minute \in Int /\ m \in Nat
      BY Zenon DEF Bucket, Rings
<1>3. CASE b[w].minute = m
      <2>1. Started(b, m) = b[w]
            BY Zenon, <1>1, <1>3 DEF Started
      <2>2. b[w].success = c["success"][m] /\ b[w].failure = c["failure"][m]
            BY <1>2, <1>3 DEF RingAgrees, Never
      <2> QED BY Zenon, <2>1, <2>2, <1>2, <1>3
<1>4. CASE b[w].minute # m
      <2>1. Started(b, m) = [minute |-> m, success |-> 0, failure |-> 0]
            BY Zenon, <1>1, <1>4 DEF Started
      <2>2. b[w].minute < m
            BY <1>2, <1>4 DEF RingAgrees, Never
      <2>3. \A kind \in Kinds : ~(c[kind][m] > 0)
            BY <1>1, <1>2, <2>2 DEF RingAgrees
      <2>4. c["success"][m] \in Nat /\ c["failure"][m] \in Nat
            BY Zenon, KindTypes DEF Counts
      <2>5. c["success"][m] = 0 /\ c["failure"][m] = 0
            BY <2>3, <2>4 DEF Kinds
      <2> QED BY <2>1, <2>5, <1>2 DEF Bucket
<1> QED BY Zenon, <1>3, <1>4

\* recordWindow and the log count the same outcome.
LEMMA RingRecords ==
    ASSUME NEW M \in SUBSET Nat, NEW m \in M,
           NEW b \in Rings, NEW c \in Counts(M),
           RingAgrees(b, c, m, M),
           NEW d \in Counts(M), NEW u \in Bucket,
           u.minute = m,
           u.success = d["success"][m], u.failure = d["failure"][m],
           \A kind \in Kinds : \A x \in M : x # m => d[kind][x] = c[kind][x]
    PROVE  /\ [b EXCEPT ![m % WindowMinutes] = u] \in Rings
           /\ RingAgrees([b EXCEPT ![m % WindowMinutes] = u], d, m, M)
<1>1. PICK w \in Ring : w = m % WindowMinutes
      BY Zenon, RingIndex
<1>2. PICK e \in Rings : e = [b EXCEPT ![w] = u]
      <2>1. [b EXCEPT ![w] = u] \in Rings
            BY Zenon DEF Rings
      <2> QED BY Zenon, <2>1
<1>3. e[w] = u /\ \A i \in Ring : i # w => e[i] = b[i]
      BY Zenon, <1>2 DEF Rings
<1>4. /\ m \in Nat /\ WindowMinutes \in Nat \ {0} /\ \A x \in M : x \in Nat
      /\ \A i \in Ring : b[i].minute \in Int
      BY Zenon, LimitAssumption DEF Bucket, Rings
<1>5. ASSUME NEW i \in Ring
      PROVE  \/ e[i].minute = Never /\ e[i].success = 0 /\ e[i].failure = 0
             \/ /\ e[i].minute \in M /\ e[i].minute <= m
                /\ e[i].minute % WindowMinutes = i
                /\ e[i].success = d["success"][e[i].minute]
                /\ e[i].failure = d["failure"][e[i].minute]
      <2>1. CASE i = w
            BY <2>1, <1>1, <1>3, <1>4
      <2>2. CASE i # w
            <3>1. e[i] = b[i]
                  BY Zenon, <2>2, <1>3
            <3>2. b[i].minute \in M => b[i].minute # m \/ b[i].minute % WindowMinutes # i
                  BY Zenon, <2>2, <1>1
            <3>3. "success" \in Kinds /\ "failure" \in Kinds
                  BY Zenon DEF Kinds
            <3>4. \/ b[i].minute = Never /\ b[i].success = 0 /\ b[i].failure = 0
                  \/ /\ b[i].minute \in M /\ b[i].minute <= m
                     /\ b[i].minute % WindowMinutes = i
                     /\ b[i].success = c["success"][b[i].minute]
                     /\ b[i].failure = c["failure"][b[i].minute]
                  BY Zenon DEF RingAgrees
            <3>5. CASE b[i].minute = Never /\ b[i].success = 0 /\ b[i].failure = 0
                  BY Zenon, <3>1, <3>5
            <3>6. CASE /\ b[i].minute \in M /\ b[i].minute <= m
                       /\ b[i].minute % WindowMinutes = i
                       /\ b[i].success = c["success"][b[i].minute]
                       /\ b[i].failure = c["failure"][b[i].minute]
                  <4>1. PICK x \in M : x = b[i].minute /\ x # m
                        BY Zenon, <3>2, <3>6
                  <4>2. d["success"][x] = c["success"][x] /\ d["failure"][x] = c["failure"][x]
                        BY Zenon, <3>3, <4>1
                  <4> QED BY Zenon, <3>1, <3>6, <4>1, <4>2
            <3> QED BY Zenon, <3>4, <3>5, <3>6
      <2> QED BY Zenon, <2>1, <2>2
<1>6. ASSUME NEW kind \in Kinds, NEW x \in M, d[kind][x] > 0
      PROVE  x <= m /\ e[x % WindowMinutes].minute >= x
      <2>1. CASE x = m
            BY <2>1, <1>1, <1>3, <1>4
      <2>2. CASE x # m
            <3>1. c[kind][x] > 0
                  BY Zenon, <2>2, <1>6
            <3>2. x <= m /\ b[x % WindowMinutes].minute >= x
                  BY Zenon, <3>1 DEF RingAgrees
            <3>3. x % WindowMinutes \in Ring
                  BY Zenon, <1>4, DivFacts DEF Ring
            <3>4. CASE x % WindowMinutes = w
                  BY <3>2, <3>4, <1>3
            <3>5. CASE x % WindowMinutes # w
                  BY <3>2, <3>3, <3>5, <1>3
            <3> QED BY Zenon, <3>4, <3>5
      <2> QED BY Zenon, <2>1, <2>2
<1>7. RingAgrees(e, d, m, M)
      BY Zenon, <1>5, <1>6 DEF RingAgrees
<1> QED BY Zenon, <1>1, <1>2, <1>7

\* The recent buckets of a ring that agrees with the counts add up to the counts
\* of the window.
LEMMA RingTotals ==
    ASSUME NEW M \in SUBSET Nat, NEW m \in M,
           NEW b \in Rings, NEW c \in Counts(M),
           RingAgrees(b, c, m, M), NEW kind \in Kinds
    PROVE  Total([i \in Ring |-> b[i][kind]],
                 {i \in Ring : b[i].minute >= m - (WindowMinutes - 1)})
               = Total(c[kind], Window(m, M))
<1> DEFINE S == {i \in Ring : b[i].minute >= m - (WindowMinutes - 1)}
           f == [i \in Ring |-> b[i][kind]]
           g == [i \in Ring |-> b[i].minute]
<1>1. WindowMinutes \in Nat \ {0} /\ m \in Nat /\ \A x \in M : x \in Nat
      BY Zenon, LimitAssumption
<1>2. kind \in Outcomes /\ kind \in {"success", "failure"}
      BY Zenon, KindTypes DEF Kinds
<1>3. IsFiniteSet(S)
      <2>1. 0 \in Int /\ WindowMinutes - 1 \in Int
            BY <1>1
      <2>2. IsFiniteSet(Ring)
            BY Zenon, <2>1, FS_Interval DEF Ring
      <2> QED BY Zenon, <2>2, FS_Subset
<1>4. ASSUME NEW i \in Ring
      PROVE  /\ b[i].minute \in Int /\ b[i][kind] \in Nat
             /\ b[i][kind] > 0 =>
                    /\ b[i].minute \in M /\ b[i].minute <= m
                    /\ b[i].minute % WindowMinutes = i
                    /\ b[i][kind] = c[kind][b[i].minute]
      <2>1. b[i] \in Bucket
            BY Zenon DEF Rings
      <2>2. b[i].minute \in Int /\ b[i].success \in Nat /\ b[i].failure \in Nat
            BY Zenon, <2>1 DEF Bucket
      <2>3. \/ b[i].minute = Never /\ b[i].success = 0 /\ b[i].failure = 0
            \/ /\ b[i].minute \in M /\ b[i].minute <= m
               /\ b[i].minute % WindowMinutes = i
               /\ b[i].success = c["success"][b[i].minute]
               /\ b[i].failure = c["failure"][b[i].minute]
            BY Zenon DEF RingAgrees
      <2>4. CASE kind = "success"
            BY <2>2, <2>3, <2>4
      <2>5. CASE kind = "failure"
            BY <2>2, <2>3, <2>5
      <2> QED BY Zenon, <2>4, <2>5, <1>2
<1>5. ASSUME NEW i \in S
      PROVE  f[i] \in Nat /\ (f[i] > 0 => g[i] \in Window(m, M) /\ c[kind][g[i]] = f[i])
      <2>1. f[i] = b[i][kind] /\ g[i] = b[i].minute /\ g[i] >= m - (WindowMinutes - 1)
            BY Zenon
      <2> HIDE DEF S, f, g
      <2>2. i \in Ring
            BY Zenon DEF S
      <2> QED BY <2>1, <2>2, <1>1, <1>4 DEF Window
<1>6. ASSUME NEW i \in S, NEW j \in S, f[i] > 0, f[j] > 0, g[i] = g[j]
      PROVE  i = j
      <2>1. /\ f[i] = b[i][kind] /\ f[j] = b[j][kind]
            /\ b[i].minute = b[j].minute /\ i \in Ring /\ j \in Ring
            BY Zenon, <1>6
      <2> HIDE DEF S, f, g
      <2>2. b[i].minute % WindowMinutes = i /\ b[j].minute % WindowMinutes = j
            BY Zenon, <1>4, <1>6, <2>1
      <2> QED BY Zenon, <2>1, <2>2
<1>7. ASSUME NEW x \in Window(m, M)
      PROVE  /\ c[kind][x] \in Nat
             /\ c[kind][x] > 0 => \E i \in S : g[i] = x /\ f[i] = c[kind][x]
      <2>1. x \in M /\ x \in Nat /\ x <= m /\ x > m - WindowMinutes
            BY Zenon, <1>1 DEF Window
      <2>2. c[kind][x] \in Nat
            BY Zenon, <2>1, <1>2 DEF Counts
      <2>3. SUFFICES ASSUME c[kind][x] > 0
                     PROVE  \E i \in S : g[i] = x /\ f[i] = c[kind][x]
            BY Zenon, <2>2
      <2>4. PICK i \in Ring : i = x % WindowMinutes
            BY Zenon, <2>1, RingIndex
      <2>5. b[i].minute >= x
            BY Zenon, <2>1, <2>3, <2>4 DEF RingAgrees
      <2>6. /\ b[i].minute \in M /\ b[i].minute <= m
            /\ b[i].minute % WindowMinutes = i
            /\ b[i].success = c["success"][b[i].minute]
            /\ b[i].failure = c["failure"][b[i].minute]
            BY <2>1, <2>5 DEF RingAgrees, Never
      <2>7. b[i].minute = x
            <3>1. PICK y \in Nat : y = b[i].minute
                  BY Zenon, <2>6, <1>1
            <3>2. y <= m
                  BY Zenon, <3>1, <2>6
            <3>3. y < x + WindowMinutes
                  BY <3>2, <2>1, <1>1
            <3> QED BY Zenon, <3>1, <3>3, <2>1, <2>4, <2>5, <2>6, <1>1, SameResidue
      <2>8. b[i][kind] = c[kind][x]
            BY Zenon, <2>6, <2>7, <1>2
      <2>9. b[i].minute >= m - (WindowMinutes - 1)
            BY <2>7, <2>1, <1>1
      <2> QED BY Zenon, <2>7, <2>8, <2>9
<1>8. Total(f, S) = Total(c[kind], Window(m, M))
      <2> HIDE DEF S, f, g
      <2> QED BY <1>3, <1>5, <1>6, <1>7, TotalRenamed
<1> QED BY Zenon, <1>8

\* windowTotals of an entry that agrees with the counts
LEMMA WindowTotals ==
    ASSUME TypeInv, NEW e \in Entry, NEW c \in Counts(Minutes),
           RingAgrees(e.buckets, c, CurrentMinute, Minutes), NEW kind \in Kinds
    PROVE  WindowTotal(e, kind) = Total(c[kind], Window(CurrentMinute, Minutes))
<1>1. e.buckets \in Rings /\ DOMAIN e.buckets = Ring
      BY Zenon DEF Entry, Rings
<1>2. Minutes \in SUBSET Nat /\ CurrentMinute \in Minutes
      BY Zenon, MinuteTypes
<1>3. Total([i \in Ring |-> e.buckets[i][kind]],
            {i \in Ring : e.buckets[i].minute >= CurrentMinute - (WindowMinutes - 1)})
          = Total(c[kind], Window(CurrentMinute, Minutes))
      <2>1. PICK M \in SUBSET Nat : M = Minutes
            BY Zenon, <1>2
      <2>2. PICK m \in M, b \in Rings : m = CurrentMinute /\ b = e.buckets
            BY Zenon, <1>1, <1>2, <2>1
      <2>3. c \in Counts(M) /\ RingAgrees(b, c, m, M)
            BY Zenon, <2>1, <2>2
      <2>4. Total([i \in Ring |-> b[i][kind]],
                  {i \in Ring : b[i].minute >= m - (WindowMinutes - 1)})
                = Total(c[kind], Window(m, M))
            BY ZenonT(60), <2>3, RingTotals
      <2> QED BY Zenon, <2>1, <2>2, <2>4
<1> QED BY Zenon, <1>1, <1>3 DEF WindowTotal

\* Counting an outcome makes no count smaller.
LEMMA CountedTypes ==
    ASSUME NEW M, NEW m \in M, NEW c \in Counts(M),
           NEW kinds \in SUBSET Outcomes
    PROVE  /\ Counted(c, kinds, m) \in Counts(M)
           /\ \A o \in Outcomes : \A x \in M :
                  /\ c[o][x] <= Counted(c, kinds, m)[o][x]
                  /\ x # m \/ o \notin kinds => Counted(c, kinds, m)[o][x] = c[o][x]
           /\ \A o \in kinds : Counted(c, kinds, m)[o][m] = c[o][m] + 1
<1>1. ASSUME NEW o \in Outcomes
      PROVE  /\ Counted(c, kinds, m)[o]
                    = IF o \in kinds THEN [c[o] EXCEPT ![m] = @ + 1] ELSE c[o]
             /\ c[o] \in [M -> Nat]
      BY Zenon DEF Counted, Counts
<1>2. ASSUME NEW o \in Outcomes
      PROVE  /\ Counted(c, kinds, m)[o] \in [M -> Nat]
             /\ \A x \in M :
                    /\ c[o][x] <= Counted(c, kinds, m)[o][x]
                    /\ x # m \/ o \notin kinds => Counted(c, kinds, m)[o][x] = c[o][x]
             /\ o \in kinds => Counted(c, kinds, m)[o][m] = c[o][m] + 1
      <2>1. PICK p \in [M -> Nat] : p = c[o]
            BY Zenon, <1>1
      <2>2. CASE o \in kinds
            <3>1. PICK q : q = [p EXCEPT ![m] = p[m] + 1]
                  BY Zenon
            <3>2. Counted(c, kinds, m)[o] = q
                  BY <3>1, <2>1, <2>2, <1>1
            <3>3. q \in [M -> Nat] /\ q[m] = p[m] + 1 /\ \A x \in M : x # m => q[x] = p[x]
                  BY <3>1
            <3> QED BY <3>2, <3>3, <2>1, <2>2
      <2>3. CASE o \notin kinds
            <3>1. Counted(c, kinds, m)[o] = p
                  BY Zenon, <2>1, <2>3, <1>1
            <3> QED BY <3>1, <2>1, <2>3
      <2> QED BY Zenon, <2>2, <2>3
<1>3. Counted(c, kinds, m) \in Counts(M)
      BY Zenon, <1>2 DEF Counted, Counts
<1> QED BY Zenon, <1>2, <1>3

\* recordWindow keeps the ring in agreement with the log.
LEMMA RecordAgrees ==
    ASSUME TypeInv, NEW e \in Entry, NEW c \in Counts(Minutes),
           RingAgrees(e.buckets, c, CurrentMinute, Minutes), NEW kind \in Kinds,
           NEW kinds \in SUBSET Outcomes, kind \in kinds,
           \A o \in kinds \ {kind} : o \notin Kinds
    PROVE  /\ RecordWindow(e, kind) \in Entry
           /\ RecordWindow(e, kind)
                  = [e EXCEPT !.buckets = RecordWindow(e, kind).buckets]
           /\ RingAgrees(RecordWindow(e, kind).buckets, Counted(c, kinds, CurrentMinute),
                         CurrentMinute, Minutes)
<1>1. PICK m \in Minutes : m = CurrentMinute
      BY Zenon, MinuteTypes
<1>2. Minutes \in SUBSET Nat
      BY Zenon, MinuteTypes
<1>3. PICK b \in Rings : b = e.buckets
      BY Zenon DEF Entry
<1>4. PICK d \in Counts(Minutes) : d = Counted(c, kinds, m)
      <2>1. Counted(c, kinds, m) \in Counts(Minutes)
            BY Zenon, <1>2, CountedTypes
      <2> QED BY Zenon, <2>1
<1>5. RingAgrees(b, c, m, Minutes)
      BY <1>1, <1>2, <1>3
<1>6. /\ Started(b, m) \in Bucket
      /\ Started(b, m).minute = m
      /\ Started(b, m).success = c["success"][m]
      /\ Started(b, m).failure = c["failure"][m]
      <2>1. m \in Nat
            BY Zenon, <1>2
      <2> QED BY <1>5, <2>1, RingStarted
<1>7. PICK v \in Bucket : v = Started(b, m)
      BY Zenon, <1>6
<1>8. PICK u : u = [v EXCEPT ![kind] = v[kind] + 1]
      BY Zenon
<1>9. /\ \A x \in Minutes : x # m => d["success"][x] = c["success"][x]
                               /\ d["failure"][x] = c["failure"][x]
      /\ kind = "success" => d["success"][m] = c["success"][m] + 1
                             /\ d["failure"][m] = c["failure"][m]
      /\ kind = "failure" => d["failure"][m] = c["failure"][m] + 1
                             /\ d["success"][m] = c["success"][m]
      <2>1. kind = "success" => "failure" \notin kinds
            BY Zenon DEF Kinds
      <2>2. kind = "failure" => "success" \notin kinds
            BY Zenon DEF Kinds
      <2>3. /\ \A o \in Outcomes : \A x \in Minutes : x # m \/ o \notin kinds => d[o][x] = c[o][x]
            /\ \A o \in kinds : d[o][m] = c[o][m] + 1
            <3>1. /\ Counted(c, kinds, m) \in Counts(Minutes)
                  /\ \A o \in Outcomes : \A x \in Minutes :
                         /\ c[o][x] <= Counted(c, kinds, m)[o][x]
                         /\ x # m \/ o \notin kinds =>
                                Counted(c, kinds, m)[o][x] = c[o][x]
                  /\ \A o \in kinds : Counted(c, kinds, m)[o][m] = c[o][m] + 1
                  BY <1>5, CountedTypes
            <3> QED BY Zenon, <3>1, <1>4
      <2>4. "success" \in Outcomes /\ "failure" \in Outcomes
            BY Zenon, KindTypes
      <2> QED BY Zenon, <2>1, <2>2, <2>3, <2>4, <1>5
<1>10. /\ u \in Bucket /\ u.minute = m
       /\ u.success = d["success"][m] /\ u.failure = d["failure"][m]
      <2>1. CASE kind = "success"
            <3>1. u = [v EXCEPT !.success = v.success + 1]
                  BY Zenon, <2>1, <1>8
            <3> QED BY <3>1, <2>1, <1>6, <1>7, <1>9 DEF Bucket
      <2>2. CASE kind = "failure"
            <3>1. u = [v EXCEPT !.failure = v.failure + 1]
                  BY Zenon, <2>2, <1>8
            <3> QED BY <3>1, <2>2, <1>6, <1>7, <1>9 DEF Bucket
      <2> QED BY Zenon, <2>1, <2>2 DEF Kinds
<1>11. /\ [b EXCEPT ![m % WindowMinutes] = u] \in Rings
       /\ RingAgrees([b EXCEPT ![m % WindowMinutes] = u], d, m, Minutes)
      <2>1. \A o \in Kinds : \A x \in Minutes : x # m => d[o][x] = c[o][x]
            BY Zenon, <1>9 DEF Kinds
      <2> QED BY <2>1, <1>2, <1>3, <1>4, <1>5, <1>10, RingRecords
<1>12. PICK n \in Rings : n = [b EXCEPT ![m % WindowMinutes] = u]
      BY Zenon, <1>11
<1>13. RecordWindow(e, kind) = [e EXCEPT !.buckets = n]
      BY <1>1, <1>3, <1>7, <1>8, <1>12 DEF RecordWindow, Started, Entry
<1>14. [e EXCEPT !.buckets = n] \in Entry /\ [e EXCEPT !.buckets = n].buckets = n
      <2>1. [e EXCEPT !.buckets = n] \in Entry
            BY Zenon DEF Entry
      <2>2. [e EXCEPT !.buckets = n].buckets = n
            BY Zenon DEF Entry
      <2> QED BY Zenon, <2>1, <2>2
<1> QED BY Zenon, <1>1, <1>2, <1>4, <1>11, <1>12, <1>13, <1>14

-----------------------------------------------------------------------------
\* The selection

\* Every filter and every choice takes some of the positions it is given.
LEMMA FiltersSelect ==
    ASSUME NEW r, NEW deps, NEW at
    PROVE  /\ GetHealthyDeployments(r, deps, at) \subseteq at
           /\ FilterByTags(r, deps, at) \subseteq at
           /\ FilterByTPMRPM(r, deps, at) \subseteq at
           /\ FilterByDefaultProvider(deps, at) \subseteq at
           /\ NextIndex(at) \subseteq at
           /\ \A field : Least(r, deps, at, field) \subseteq at
<1>1. GetHealthyDeployments(r, deps, at) \subseteq at
      BY Zenon DEF GetHealthyDeployments
<1>2. FilterByTags(r, deps, at) \subseteq at
      BY Zenon DEF FilterByTags
<1>3. FilterByTPMRPM(r, deps, at) \subseteq at
      BY Zenon DEF FilterByTPMRPM
<1>4. FilterByDefaultProvider(deps, at) \subseteq at
      BY Zenon DEF FilterByDefaultProvider
<1>5. NextIndex(at) \subseteq at
      BY Zenon DEF NextIndex
<1>6. \A field : Least(r, deps, at, field) \subseteq at
      BY Zenon DEF Least
<1> QED BY <1>1, <1>2, <1>3, <1>4, <1>5, <1>6

\* What is picked is listed, and its usage leaves room for the request.
LEMMA CandidatesFit ==
    ASSUME NEW r \in Requests, NEW deps \in Seq(Deployments),
           NEW d \in Candidates(r, deps)
    PROVE  d \in Deployments /\ Fits(r, d)
<1>1. ASSUME NEW i \in Eligible(r, deps)
      PROVE  i \in DOMAIN deps /\ Fits(r, deps[i])
      <2>1. PICK healthy : healthy = GetHealthyDeployments(r, deps, DOMAIN deps)
            BY Zenon
      <2>2. PICK tagged :
                tagged = IF Strategy = "tag-based" \/ (EnableTagFiltering /\ TagsOf[r] # {})
                         THEN FilterByTags(r, deps, healthy) ELSE healthy
            BY Zenon
      <2>3. PICK fitting : fitting = FilterByTPMRPM(r, deps, tagged)
            BY Zenon
      <2>6. Eligible(r, deps) = FilterByDefaultProvider(deps, fitting)
            BY Zenon, <2>1, <2>2, <2>3 DEF Eligible
      <2>4. healthy \subseteq DOMAIN deps /\ tagged \subseteq healthy
            BY Zenon, <2>1, <2>2, FiltersSelect
      <2>5. i \in fitting
            BY <2>6, FiltersSelect
      <2> QED BY Zenon, <2>3, <2>4, <2>5 DEF FilterByTPMRPM
<1>2. PICK i \in Eligible(r, deps) : d = deps[i]
      <2>1. PICK chosen :
                /\ chosen = CASE Strategy = "round-robin" -> NextIndex(Eligible(r, deps))
                              [] Strategy = "least-busy" ->
                                     Least(r, deps, Eligible(r, deps), "active")
                              [] Strategy = "lowest-tpm-rpm" ->
                                     Least(r, deps, Eligible(r, deps), "tpm")
                              [] OTHER -> Eligible(r, deps)
                /\ Candidates(r, deps) = {deps[i] : i \in chosen}
            BY Zenon DEF Candidates
      <2>2. chosen \subseteq Eligible(r, deps)
            BY Zenon, <2>1, FiltersSelect
      <2> QED BY Zenon, <2>1, <2>2
<1>3. d \in Deployments
      BY <1>1, <1>2
<1> QED BY <1>1, <1>2, <1>3

-----------------------------------------------------------------------------
\* What the actions do to the entries

\* An action of a request, with the key it works on
LEMMA StartEffect ==
    ASSUME TypeInv, cfg' = cfg, NEW r \in Requests, ReportRequestStart(r),
           NEW key, key = LocalStatsKey(r, picked[r])
    PROVE  /\ key \in Keys
           /\ Entries' = [Entries EXCEPT ![key] =
                             [Entries[key] EXCEPT !.active = Entries[key].active + 1]]
           /\ DOMAIN stats' \subseteq Keys /\ Entries' \in [Keys -> Entry]
<1>1. picked[r] \in Deployments
      BY Zenon DEF ReportRequestStart, TypeInv, Holding
<1>2. key \in Keys
      BY Zenon, <1>1, KeyTypes
<1>3. Entries[key] \in Entry /\ Entries[key] = GetOrCreateStats(key)
      BY Zenon, <1>2 DEF TypeInv, Entries
<1>4. PICK e : e = [Entries[key] EXCEPT !.active = Entries[key].active + 1]
      BY Zenon
<1>5. e \in Entry
      BY <1>3, <1>4 DEF Entry
<1>6. stats' = StoreStats(key, e)
      BY Zenon, <1>3, <1>4 DEF ReportRequestStart
<1> QED BY Zenon, <1>2, <1>4, <1>5, <1>6, StoreEffect

\* ReportRequestEnd subtracts from the active requests what there is.
LEMMA EndEffect ==
    ASSUME TypeInv, cfg' = cfg, NEW r \in Requests, ReportRequestEnd(r),
           NEW key, key = LocalStatsKey(r, picked[r])
    PROVE  /\ key \in Keys
           /\ Entries' = [Entries EXCEPT ![key] =
                             [Entries[key] EXCEPT !.active =
                                 IF Entries[key].active > 0 THEN Entries[key].active - 1
                                 ELSE Entries[key].active]]
           /\ DOMAIN stats' \subseteq Keys /\ Entries' \in [Keys -> Entry]
<1>1. picked[r] \in Deployments
      BY Zenon DEF ReportRequestEnd, TypeInv, Holding
<1>2. key \in Keys
      BY Zenon, <1>1, KeyTypes
<1>3. Entries[key] \in Entry /\ Entries[key] = GetOrCreateStats(key)
      BY Zenon, <1>2 DEF TypeInv, Entries
<1>4. PICK n : n = IF Entries[key].active > 0 THEN Entries[key].active - 1
                   ELSE Entries[key].active
      BY Zenon
<1>5. PICK e : e = [Entries[key] EXCEPT !.active = n]
      BY Zenon
<1>6. Entries[key].active \in Nat
      BY Zenon, <1>3 DEF Entry
<1>7. n \in Nat
      BY <1>4, <1>6
<1>8. e \in Entry
      BY Zenon, <1>3, <1>5, <1>7 DEF Entry
<1>9. stats' = StoreStats(key, e)
      BY Zenon, <1>3, <1>4, <1>5 DEF ReportRequestEnd
<1> QED BY Zenon, <1>2, <1>4, <1>5, <1>8, <1>9, StoreEffect

\* The entry of key becomes e, whose window has recorded an outcome that the log
\* counts under each of kinds.
Records(key, e, kind, kinds) ==
    /\ Entries' = [Entries EXCEPT ![key] = e]
    /\ e.buckets = RecordWindow(Entries[key], kind).buckets
    /\ e.active = Entries[key].active
    /\ log' = [log EXCEPT ![key] = Counted(log[key], kinds, CurrentMinute)]

\* ReportSuccess records the outcome and the usage.
LEMMA SuccessEffect ==
    ASSUME TypeInv, WindowInv, cfg' = cfg, NEW r \in Requests, ReportSuccess(r),
           NEW key, key = LocalStatsKey(r, picked[r])
    PROVE  /\ key \in Keys
           /\ DOMAIN stats' \subseteq Keys /\ Entries' \in [Keys -> Entry]
           /\ \E e \in Entry :
                  /\ Records(key, e, "success", {"success"})
                  /\ e.cooldownUntil = Entries[key].cooldownUntil
                  /\ e.rpm \in {Entries[key].rpm + 1, 1}
<1>1. picked[r] \in Deployments
      BY Zenon DEF ReportSuccess, TypeInv, Holding
<1>2. key \in Keys
      BY Zenon, <1>1, KeyTypes
<1>3. PICK e0 \in Entry : e0 = Entries[key] /\ e0 = GetOrCreateStats(key)
      BY Zenon, <1>2 DEF TypeInv, Entries
<1>4. PICK c \in Counts(Minutes) : c = log[key]
      BY Zenon, <1>2 DEF TypeInv
<1>5. RingAgrees(e0.buckets, c, CurrentMinute, Minutes)
      BY Zenon, <1>2, <1>3, <1>4 DEF WindowInv
<1>6. /\ RecordWindow(e0, "success") \in Entry
      /\ RecordWindow(e0, "success")
             = [e0 EXCEPT !.buckets = RecordWindow(e0, "success").buckets]
      <2>1. /\ "success" \in Kinds /\ {"success"} \in SUBSET Outcomes
            /\ "success" \in {"success"}
            /\ \A o \in {"success"} \ {"success"} : o \notin Kinds
            BY Zenon, KindTypes DEF Kinds
      <2> QED BY Zenon, <1>5, <2>1, RecordAgrees
<1>7. PICK e1 \in Entry : e1 = RecordWindow(e0, "success")
      BY Zenon, <1>6
<1>8. /\ e1.active = e0.active /\ e1.cooldownUntil = e0.cooldownUntil
      /\ e1.rpm = e0.rpm
      BY Zenon, <1>6, <1>7 DEF Entry
<1>9. PICK e : e = UpdateUsageStats(e1)
      BY Zenon
<1>10. /\ e \in Entry /\ e.active = e1.active /\ e.cooldownUntil = e1.cooldownUntil
       /\ e.buckets = e1.buckets /\ e.rpm \in {e1.rpm + 1, 1}
      <2>1. Tokens \in Nat /\ CurrentMinute \in Int
            BY LimitAssumption, MinuteTypes
      <2>2. PICK n \in Int, t \in Nat, u \in Nat :
                /\ e = [e1 EXCEPT !.minuteKey = n, !.tpm = t, !.rpm = u]
                /\ u \in {e1.rpm + 1, 1}
            <3>1. CASE e1.minuteKey = CurrentMinute
                  <4>1. e = [e1 EXCEPT !.minuteKey = CurrentMinute,
                                       !.tpm = e1.tpm + Tokens, !.rpm = e1.rpm + 1]
                        BY ZenonT(60), <3>1, <1>9 DEF UpdateUsageStats, Entry
                  <4>2. e1.tpm + Tokens \in Nat /\ e1.rpm + 1 \in Nat
                        BY <2>1 DEF Entry
                  <4> QED BY ZenonT(60), <2>1, <4>1, <4>2
            <3>2. CASE e1.minuteKey # CurrentMinute
                  <4>1. PICK f : f = [e1 EXCEPT !.minuteKey = CurrentMinute,
                                                !.tpm = 0, !.rpm = 0]
                        BY Zenon
                  <4>2. f.tpm = 0 /\ f.rpm = 0
                        BY Zenon, <4>1 DEF Entry
                  <4>3. e = [f EXCEPT !.tpm = f.tpm + Tokens, !.rpm = f.rpm + 1]
                        BY <3>2, <4>1, <1>9 DEF UpdateUsageStats
                  <4>4. e = [e1 EXCEPT !.minuteKey = CurrentMinute,
                                       !.tpm = f.tpm + Tokens, !.rpm = f.rpm + 1]
                        BY Zenon, <4>1, <4>3 DEF Entry
                  <4>5. f.tpm + Tokens \in Nat /\ f.rpm + 1 \in Nat /\ f.rpm + 1 = 1
                        BY <4>2, <2>1
                  <4> QED BY ZenonT(60), <2>1, <4>4, <4>5
            <3> QED BY ZenonT(60), <3>1, <3>2
      <2>3. e \in Entry
            BY Zenon, <2>2 DEF Entry
      <2> QED BY Zenon, <2>2, <2>3 DEF Entry
<1>11. stats' = StoreStats(key, e)
      BY <1>3, <1>7, <1>9 DEF ReportSuccess
<1>12. /\ Entries' = [Entries EXCEPT ![key] = e]
       /\ DOMAIN stats' \subseteq Keys /\ Entries' \in [Keys -> Entry]
      BY <1>2, <1>10, <1>11, StoreEffect
<1>13. log' = [log EXCEPT ![key] = Counted(log[key], {"success"}, CurrentMinute)]
      BY Zenon DEF ReportSuccess, Log
<1>14. Records(key, e, "success", {"success"})
      BY <1>3, <1>7, <1>8, <1>10, <1>12, <1>13 DEF Records
<1> QED BY <1>2, <1>3, <1>8, <1>10, <1>12, <1>14

\* ReportFailure records the outcome and may begin a cooldown.
LEMMA FailureEffect ==
    ASSUME TypeInv, WindowInv, cfg' = cfg, NEW r \in Requests,
           NEW status \in Statuses, ReportFailure(r, status),
           NEW key, key = LocalStatsKey(r, picked[r])
    PROVE  /\ key \in Keys
           /\ DOMAIN stats' \subseteq Keys /\ Entries' \in [Keys -> Entry]
           /\ \E e \in Entry :
                  /\ Records(key, e, "failure", {"failure", status})
                  /\ e.rpm = Entries[key].rpm
                  /\ e.cooldownUntil =
                         IF EntersCooldown(RecordWindow(Entries[key], "failure"),
                                           single[r], status)
                         THEN now + CooldownPeriod ELSE Entries[key].cooldownUntil
<1>1. picked[r] \in Deployments
      BY Zenon DEF ReportFailure, TypeInv, Holding
<1>2. key \in Keys
      BY Zenon, <1>1, KeyTypes
<1>3. PICK e0 \in Entry : e0 = Entries[key] /\ e0 = GetOrCreateStats(key)
      BY Zenon, <1>2 DEF TypeInv, Entries
<1>4. PICK c \in Counts(Minutes) : c = log[key]
      BY Zenon, <1>2 DEF TypeInv
<1>5. RingAgrees(e0.buckets, c, CurrentMinute, Minutes)
      BY Zenon, <1>2, <1>3, <1>4 DEF WindowInv
<1>6. /\ RecordWindow(e0, "failure") \in Entry
      /\ RecordWindow(e0, "failure")
             = [e0 EXCEPT !.buckets = RecordWindow(e0, "failure").buckets]
      <2>1. /\ "failure" \in Kinds /\ {"failure", status} \in SUBSET Outcomes
            /\ "failure" \in {"failure", status}
            /\ \A o \in {"failure", status} \ {"failure"} : o \notin Kinds
            BY Zenon, KindTypes DEF Kinds
      <2> QED BY Zenon, <1>5, <2>1, RecordAgrees
<1>7. PICK e1 \in Entry : e1 = RecordWindow(e0, "failure")
      BY Zenon, <1>6
<1>8. /\ e1.active = e0.active /\ e1.cooldownUntil = e0.cooldownUntil
      /\ e1.rpm = e0.rpm
      BY Zenon, <1>6, <1>7 DEF Entry
<1>9. PICK e : e = IF EntersCooldown(e1, single[r], status)
                   THEN [e1 EXCEPT !.cooldownUntil = now + CooldownPeriod] ELSE e1
      BY Zenon
<1>10. /\ e \in Entry /\ e.active = e1.active /\ e.rpm = e1.rpm
       /\ e.buckets = e1.buckets
       /\ e.cooldownUntil = IF EntersCooldown(e1, single[r], status)
                            THEN now + CooldownPeriod ELSE e1.cooldownUntil
      <2>1. now + CooldownPeriod \in Int
            <3>1. CooldownPeriod \in Nat
                  BY Zenon, LimitAssumption
            <3>2. now \in Int
                  BY DEF TypeInv
            <3> QED BY <3>1, <3>2
      <2>2. CASE EntersCooldown(e1, single[r], status)
            <3>1. e = [e1 EXCEPT !.cooldownUntil = now + CooldownPeriod]
                  BY Zenon, <2>2, <1>9
            <3>2. e \in Entry
                  BY Zenon, <2>1, <3>1 DEF Entry
            <3> QED BY Zenon, <2>2, <3>1, <3>2 DEF Entry
      <2>3. CASE ~EntersCooldown(e1, single[r], status)
            BY Zenon, <2>3, <1>9
      <2> QED BY Zenon, <2>2, <2>3
<1>11. stats' = StoreStats(key, e)
      BY Zenon, <1>3, <1>7, <1>9 DEF ReportFailure
<1>12. /\ Entries' = [Entries EXCEPT ![key] = e]
       /\ DOMAIN stats' \subseteq Keys /\ Entries' \in [Keys -> Entry]
      BY Zenon, <1>2, <1>10, <1>11, StoreEffect
<1>13. log' = [log EXCEPT ![key] = Counted(log[key], {"failure", status}, CurrentMinute)]
      BY Zenon DEF ReportFailure, Log
<1>14. Records(key, e, "failure", {"failure", status})
      BY Zenon, <1>3, <1>7, <1>8, <1>10, <1>12, <1>13 DEF Records
<1> QED BY <1>2, <1>3, <1>7, <1>8, <1>10, <1>12, <1>14

\* SetCooldown changes a cooldown and nothing else.
LEMMA CooldownEffect ==
    ASSUME TypeInv, cfg' = cfg, NEW d \in Deployments, NEW until \in Int,
           SetCooldown(d, until)
    PROVE  /\ Entries' = [Entries EXCEPT ![<<"", d>>] =
                             [Entries[<<"", d>>] EXCEPT !.cooldownUntil = until]]
           /\ DOMAIN stats' \subseteq Keys /\ Entries' \in [Keys -> Entry]
<1>1. PICK key \in Keys : key = <<"", d>>
      BY Zenon, KeyTypes
<1>2. PICK e0 \in Entry : e0 = Entries[key] /\ e0 = GetOrCreateStats(key)
      BY Zenon, <1>1 DEF TypeInv, Entries
<1>3. PICK e : e = [e0 EXCEPT !.cooldownUntil = until]
      BY Zenon
<1>4. e \in Entry
      BY Zenon, <1>3 DEF Entry
<1>5. stats' = StoreStats(key, e)
      BY Zenon, <1>1, <1>2, <1>3 DEF SetCooldown
<1> QED BY Zenon, <1>1, <1>2, <1>3, <1>4, <1>5, StoreEffect

-----------------------------------------------------------------------------
\* Types

\* The program counters and the locals of the requests
RequestTypes ==
    /\ pc \in [Requests -> Places]
    /\ snapshot \in [Requests -> Seq(Deployments)]
    /\ DOMAIN picked = Requests
    /\ \A r \in Requests : pc[r] \in Holding => picked[r] \in Deployments
    /\ DOMAIN single = Requests

\* Adding outcomes to the log leaves it a log.
LEMMA LogTypes ==
    ASSUME TypeInv, NEW key \in Keys, NEW kinds \in SUBSET Outcomes,
           log' = [log EXCEPT ![key] = Counted(log[key], kinds, CurrentMinute)]
    PROVE  log' \in [Keys -> Counts(Minutes)]
<1>1. log \in [Keys -> Counts(Minutes)] /\ CurrentMinute \in Minutes
      BY Zenon, MinuteTypes DEF TypeInv
<1>2. PICK c \in Counts(Minutes) : c = log[key]
      BY Zenon, <1>1
<1>3. PICK m \in Minutes : m = CurrentMinute
      BY Zenon, <1>1
<1>4. Counted(c, kinds, m) \in Counts(Minutes)
      BY Zenon, CountedTypes
<1> QED BY Zenon, <1>1, <1>2, <1>3, <1>4

\* A log without outcomes is a log.
LEMMA NoOutcomesType == NoOutcomes \in Counts(Minutes)
<1>1. \A o \in Outcomes : [m \in Minutes |-> 0] \in [Minutes -> Nat]
      BY Zenon
<1> QED BY Zenon, <1>1 DEF NoOutcomes, Counts

\* The actions of a request keep the types of the requests.
LEMMA RequestTypesStep ==
    ASSUME TypeInv, NEW r \in Requests, Request(r)
    PROVE  RequestTypes'
<1> USE DEF RequestTypes
<1>0. /\ pc \in [Requests -> Places] /\ snapshot \in [Requests -> Seq(Deployments)]
      /\ DOMAIN picked = Requests /\ DOMAIN single = Requests
      /\ \A q \in Requests : pc[q] \in Holding => picked[q] \in Deployments
      /\ deployments \in Seq(Deployments) /\ <<>> \in Seq(Deployments)
      BY DEF TypeInv
<1>1. CASE PickSnapshot(r)
      BY Zenon, <1>0, <1>1 DEF PickSnapshot, Goto, Places, Holding
<1>2. CASE PickSelect(r)
      <2>1. PICK d \in Candidates(r, snapshot[r]) : picked' = [picked EXCEPT ![r] = d]
            BY Zenon, <1>2 DEF PickSelect
      <2>2. d \in Deployments
            BY Zenon, <1>0, CandidatesFit
      <2> QED BY Zenon, <1>0, <1>2, <2>1, <2>2 DEF PickSelect, Goto, Places
<1>3. CASE PickFail(r)
      BY Zenon, <1>0, <1>3 DEF PickFail, Goto, Places, Holding
<1>4. CASE ReportRequestStart(r)
      BY Zenon, <1>0, <1>4 DEF ReportRequestStart, Goto, Places, Holding
<1>5. CASE Abandon(r)
      BY Zenon, <1>0, <1>5 DEF Abandon, Goto, Places, Holding
<1>6. CASE ReportSuccess(r)
      BY Zenon, <1>0, <1>6 DEF ReportSuccess, Goto, Places, Holding
<1>7. CASE ReportFailureRead(r)
      BY Zenon, <1>0, <1>7 DEF ReportFailureRead, Goto, Places, Holding
<1>8. ASSUME NEW status \in Statuses, ReportFailure(r, status)
      PROVE  RequestTypes'
      BY Zenon, <1>0, <1>8 DEF ReportFailure, Goto, Places, Holding
<1>9. CASE ReportRequestEnd(r)
      BY Zenon, <1>0, <1>9 DEF ReportRequestEnd, Goto, Places, Holding
<1> QED BY <1>1, <1>2, <1>3, <1>4, <1>5, <1>6, <1>7, <1>8, <1>9 DEF Request

\* The actions of a request keep the types of the books.
LEMMA RequestBooksStep ==
    ASSUME TypeInv, WindowInv, cfg' = cfg, NEW r \in Requests, Request(r)
    PROVE  /\ DOMAIN stats' \subseteq Keys /\ Entries' \in [Keys -> Entry]
           /\ log' \in [Keys -> Counts(Minutes)]
           /\ deployments' = deployments /\ now' = now /\ admin' = admin
<1>0. log \in [Keys -> Counts(Minutes)]
      BY Zenon DEF TypeInv
<1>1. CASE PickSnapshot(r) \/ PickSelect(r) \/ PickFail(r) \/ Abandon(r)
           \/ ReportFailureRead(r)
      <2>1. /\ stats' = stats /\ log' = log
            /\ deployments' = deployments /\ now' = now /\ admin' = admin
            BY Zenon, <1>1 DEF PickSnapshot, PickSelect, PickFail, Abandon,
               ReportFailureRead
      <2> QED BY Zenon, <1>0, <2>1, SameEffect
<1>2. CASE ReportRequestStart(r)
      <2>1. /\ log' = log
            /\ deployments' = deployments /\ now' = now /\ admin' = admin
            BY Zenon, <1>2 DEF ReportRequestStart
      <2> QED BY Zenon, <1>0, <1>2, <2>1, StartEffect
<1>3. CASE ReportSuccess(r)
      <2>1. deployments' = deployments /\ now' = now /\ admin' = admin
            BY Zenon, <1>3 DEF ReportSuccess
      <2>2. PICK key : key = LocalStatsKey(r, picked[r])
            BY Zenon
      <2>3. /\ key \in Keys /\ DOMAIN stats' \subseteq Keys /\ Entries' \in [Keys -> Entry]
            /\ \E e \in Entry : Records(key, e, "success", {"success"})
            BY Zenon, <1>3, <2>2, SuccessEffect
      <2>4. log' = [log EXCEPT ![key] = Counted(log[key], {"success"}, CurrentMinute)]
            BY Zenon, <2>3 DEF Records
      <2>5. {"success"} \in SUBSET Outcomes
            BY Zenon, KindTypes
      <2>6. log' \in [Keys -> Counts(Minutes)]
            BY ZenonT(60), <2>3, <2>4, <2>5, LogTypes
      <2> QED BY Zenon, <2>1, <2>3, <2>6
<1>4. ASSUME NEW status \in Statuses, ReportFailure(r, status)
      PROVE  /\ DOMAIN stats' \subseteq Keys /\ Entries' \in [Keys -> Entry]
             /\ log' \in [Keys -> Counts(Minutes)]
             /\ deployments' = deployments /\ now' = now /\ admin' = admin
      <2>1. deployments' = deployments /\ now' = now /\ admin' = admin
            BY Zenon, <1>4 DEF ReportFailure
      <2>2. PICK key : key = LocalStatsKey(r, picked[r])
            BY Zenon
      <2>3. /\ key \in Keys /\ DOMAIN stats' \subseteq Keys /\ Entries' \in [Keys -> Entry]
            /\ \E e \in Entry : Records(key, e, "failure", {"failure", status})
            BY Zenon, <1>4, <2>2, FailureEffect
      <2>4. log' = [log EXCEPT ![key] =
                       Counted(log[key], {"failure", status}, CurrentMinute)]
            BY Zenon, <2>3 DEF Records
      <2>5. {"failure", status} \in SUBSET Outcomes
            BY Zenon, KindTypes
      <2>6. log' \in [Keys -> Counts(Minutes)]
            BY Zenon, <2>3, <2>4, <2>5, LogTypes
      <2> QED BY <2>1, <2>3, <2>6
<1>5. CASE ReportRequestEnd(r)
      <2>1. /\ log' = log
            /\ deployments' = deployments /\ now' = now /\ admin' = admin
            BY Zenon, <1>5 DEF ReportRequestEnd
      <2> QED BY Zenon, <1>0, <1>5, <2>1, EndEffect
<1> QED BY Zenon, <1>1, <1>2, <1>3, <1>4, <1>5 DEF Request

\* What an administrator does to the books: the entry and the log of one key
\* become new, or a cooldown is set.
LEMMA AdministerEffect ==
    ASSUME TypeInv, cfg' = cfg, NEW d \in Administered, Administer(d)
    PROVE  /\ d \in Deployments
           /\ \/ /\ Entries' = [Entries EXCEPT ![<<"", d>>] = NewStatsEntry]
                 /\ log' = [log EXCEPT ![<<"", d>>] = NoOutcomes]
              \/ /\ \E until \in Int :
                        Entries' = [Entries EXCEPT ![<<"", d>>] =
                                       [Entries[<<"", d>>] EXCEPT !.cooldownUntil = until]]
                 /\ log' = log
           /\ DOMAIN stats' \subseteq Keys /\ Entries' \in [Keys -> Entry]
           /\ deployments' \in Seq(Deployments)
           /\ admin' = admin + 1
           /\ UNCHANGED <<now, pc, snapshot, picked, single>>
<1>0. /\ d \in Deployments /\ deployments \in Seq(Deployments)
      /\ now \in Int /\ CooldownPeriod \in Nat /\ Never \in Int
      <2>1. d \in Deployments /\ deployments \in Seq(Deployments) /\ MaxTime \in Nat
            BY Zenon, SettingsTypes DEF TypeInv
      <2>2. now \in 0..MaxTime
            BY Zenon DEF TypeInv
      <2>3. CooldownPeriod \in Nat
            BY Zenon, LimitAssumption
      <2> QED BY <2>1, <2>2, <2>3 DEF Never
<1>1. CASE AddDeployment(d)
      <2>1. PICK key \in Keys : key = <<"", d>>
            BY Zenon, <1>0, KeyTypes
      <2>2. /\ stats' = StoreStats(key, NewStatsEntry)
            /\ log' = [log EXCEPT ![key] = NoOutcomes]
            /\ deployments' = Append(deployments, d) /\ admin' = admin + 1
            /\ UNCHANGED <<now, pc, snapshot, picked, single>>
            BY Zenon, <1>1, <2>1 DEF AddDeployment, Forget, locals
      <2>3. Append(deployments, d) \in Seq(Deployments)
            BY <1>0
      <2>4. /\ Entries' = [Entries EXCEPT ![key] = NewStatsEntry]
            /\ DOMAIN stats' \subseteq Keys /\ Entries' \in [Keys -> Entry]
            BY Zenon, <2>2, NewEntryType, StoreEffect
      <2> QED BY Zenon, <1>0, <2>1, <2>2, <2>3, <2>4
<1>2. CASE RemoveDeployment(d)
      <2>1. PICK key \in Keys : key = <<"", d>>
            BY Zenon, <1>0, KeyTypes
      <2>2. /\ stats' = [k \in DOMAIN stats \ {key} |-> stats[k]]
            /\ log' = [log EXCEPT ![key] = NoOutcomes]
            /\ admin' = admin + 1
            /\ UNCHANGED <<now, pc, snapshot, picked, single>>
            BY Zenon, <1>2, <2>1 DEF RemoveDeployment, Forget, locals
      <2>3. PICK i \in DOMAIN deployments :
                deployments' = SubSeq(deployments, 1, i - 1)
                                   \o SubSeq(deployments, i + 1, Len(deployments))
            BY Zenon, <1>2 DEF RemoveDeployment
      <2>4. deployments' \in Seq(Deployments)
            <3>1. i \in 1..Len(deployments)
                  BY <1>0
            <3>2. /\ SubSeq(deployments, 1, i - 1) \in Seq(Deployments)
                  /\ SubSeq(deployments, i + 1, Len(deployments)) \in Seq(Deployments)
                  BY <3>1, <1>0
            <3> QED BY <3>2, <2>3
      <2>5. /\ Entries' = [Entries EXCEPT ![key] = NewStatsEntry]
            /\ DOMAIN stats' \subseteq Keys /\ Entries' \in [Keys -> Entry]
            BY Zenon, <2>2, DropEffect
      <2> QED BY Zenon, <1>0, <2>1, <2>2, <2>4, <2>5
<1>3. ASSUME NEW until \in {Never, now + 2 * CooldownPeriod}, SetCooldown(d, until)
      PROVE  /\ Entries' = [Entries EXCEPT ![<<"", d>>] =
                               [Entries[<<"", d>>] EXCEPT !.cooldownUntil = until]]
             /\ until \in Int /\ log' = log
             /\ DOMAIN stats' \subseteq Keys /\ Entries' \in [Keys -> Entry]
             /\ deployments' \in Seq(Deployments) /\ admin' = admin + 1
             /\ UNCHANGED <<now, pc, snapshot, picked, single>>
      <2>1. until \in Int
            BY <1>0
      <2>2. /\ log' = log /\ deployments' = deployments /\ admin' = admin + 1
            /\ UNCHANGED <<now, pc, snapshot, picked, single>>
            BY Zenon, <1>3 DEF SetCooldown, locals
      <2> QED BY Zenon, <1>0, <1>3, <2>1, <2>2, CooldownEffect
<1>4. CASE \E until \in {Never, now + 2 * CooldownPeriod} : SetCooldown(d, until)
      BY Zenon, <1>0, <1>3, <1>4
<1> QED BY Zenon, <1>1, <1>2, <1>4 DEF Administer

\* Every step keeps the types.
LEMMA TypeStep ==
    ASSUME TypeInv, WindowInv, [Next]_vars
    PROVE  TypeInv'
<1>0. cfg' = cfg
      BY Zenon DEF Next, vars
<1>1. Keys' = Keys /\ Minutes' = Minutes /\ MaxTime' = MaxTime
      BY Zenon, <1>0, SettingsStay
<1>2. ASSUME NEW r \in Requests, Request(r)
      PROVE  TypeInv'
      <2>1. RequestTypes'
            BY Zenon, <1>2, RequestTypesStep
      <2>2. /\ DOMAIN stats' \subseteq Keys /\ Entries' \in [Keys -> Entry]
            /\ log' \in [Keys -> Counts(Minutes)]
            /\ deployments' = deployments /\ now' = now /\ admin' = admin
            BY Zenon, <1>0, <1>2, RequestBooksStep
      <2> QED BY Zenon, <1>0, <1>1, <2>1, <2>2 DEF TypeInv, RequestTypes
<1>3. ASSUME NEW d \in Administered, Administer(d)
      PROVE  TypeInv'
      <2>1. /\ d \in Deployments
            /\ DOMAIN stats' \subseteq Keys /\ Entries' \in [Keys -> Entry]
            /\ deployments' \in Seq(Deployments) /\ admin' = admin + 1
            /\ UNCHANGED <<now, pc, snapshot, picked, single>>
            /\ log' = log \/ log' = [log EXCEPT ![<<"", d>>] = NoOutcomes]
            BY Zenon, <1>0, <1>3, AdministerEffect
      <2>2. log' \in [Keys -> Counts(Minutes)]
            BY Zenon, <2>1, NoOutcomesType DEF TypeInv
      <2>3. admin' \in Nat
            <3>1. admin \in Nat
                  BY Zenon DEF TypeInv
            <3>2. admin' = admin + 1
                  BY Zenon, <2>1
            <3> QED BY <3>1, <3>2
      <2> QED BY Zenon, <1>0, <1>1, <2>1, <2>2, <2>3 DEF TypeInv
<1>4. CASE Tick
      <2>1. /\ stats' = stats /\ now' = now + 1 /\ now < MaxTime
            /\ UNCHANGED <<deployments, pc, snapshot, picked, single, log, admin>>
            BY Zenon, <1>4 DEF Tick, locals
      <2>2. DOMAIN stats' \subseteq Keys /\ Entries' \in [Keys -> Entry]
            BY Zenon, <1>0, <2>1, SameEffect
      <2>3. now' \in 0..MaxTime
            <3>1. MaxTime \in Nat
                  BY Zenon, SettingsTypes DEF TypeInv
            <3>2. now \in 0..MaxTime
                  BY Zenon DEF TypeInv
            <3> QED BY <2>1, <3>1, <3>2
      <2> QED BY Zenon, <1>0, <1>1, <2>1, <2>2, <2>3 DEF TypeInv
<1>5. CASE UNCHANGED vars
      <2>1. stats' = stats
            /\ UNCHANGED <<deployments, now, pc, snapshot, picked, single, log, admin>>
            BY Zenon, <1>5 DEF vars
      <2>2. DOMAIN stats' \subseteq Keys /\ Entries' \in [Keys -> Entry]
            BY Zenon, <1>0, <2>1, SameEffect
      <2> QED BY Zenon, <1>0, <1>1, <2>1, <2>2 DEF TypeInv
<1> QED BY Zenon, <1>2, <1>3, <1>4, <1>5 DEF Next

-----------------------------------------------------------------------------
\* The windows

\* Steps that record nothing keep the agreement.
LEMMA WindowKept ==
    ASSUME TypeInv, WindowInv, TypeInv', cfg' = cfg, log' = log,
           CurrentMinute <= CurrentMinute',
           \A k \in Keys : Entries'[k].buckets = Entries[k].buckets
    PROVE  WindowInv'
<1>1. Keys' = Keys /\ Minutes' = Minutes
      BY Zenon, SettingsStay
<1>2. /\ Minutes \in SUBSET Nat /\ CurrentMinute \in Nat
      /\ CurrentMinute' \in Nat
      <2>1. Minutes \in SUBSET Nat /\ CurrentMinute \in Nat
            BY Zenon, MinuteTypes
      <2>2. MaxTime' = MaxTime /\ MaxTime \in Nat /\ MinuteTicks \in Nat \ {0}
            BY Zenon, SettingsStay, SettingsTypes, LimitAssumption DEF TypeInv
      <2>3. now' \in 0..MaxTime'
            BY Zenon DEF TypeInv
      <2>4. now' \in Nat
            BY <2>2, <2>3
      <2>5. CurrentMinute' \in Nat
            BY Zenon, <2>2, <2>4, DivFacts DEF CurrentMinute
      <2> QED BY Zenon, <2>1, <2>5
<1>3. ASSUME NEW k \in Keys
      PROVE  RingAgrees(Entries'[k].buckets, log'[k], CurrentMinute', Minutes')
      <2>1. PICK b \in Rings : b = Entries[k].buckets
            BY Zenon DEF TypeInv, Entry
      <2>2. RingAgrees(b, log[k], CurrentMinute, Minutes)
            BY Zenon, <2>1 DEF WindowInv
      <2>3. RingAgrees(b, log[k], CurrentMinute', Minutes)
            BY Zenon, <1>2, <2>2, RingLater
      <2> QED BY Zenon, <1>1, <2>1, <2>3
<1> QED BY Zenon, <1>1, <1>3 DEF WindowInv

\* The key whose entry and log become new agrees.
LEMMA WindowReset ==
    ASSUME TypeInv, WindowInv, cfg' = cfg, now' = now, NEW key \in Keys,
           Entries' = [Entries EXCEPT ![key] = NewStatsEntry],
           log' = [log EXCEPT ![key] = NoOutcomes]
    PROVE  WindowInv'
<1>1. Keys' = Keys /\ Minutes' = Minutes /\ CurrentMinute' = CurrentMinute
      BY Zenon, SettingsStay DEF CurrentMinute
<1>2. DOMAIN Entries = Keys /\ DOMAIN log = Keys
      BY Zenon DEF TypeInv
<1>3. ASSUME NEW k \in Keys
      PROVE  RingAgrees(Entries'[k].buckets, log'[k], CurrentMinute', Minutes')
      <2>1. CASE k = key
            <3>1. Entries'[k] = NewStatsEntry /\ log'[k] = NoOutcomes
                  BY Zenon, <2>1, <1>2
            <3>2. RingAgrees(NewStatsEntry.buckets, NoOutcomes, CurrentMinute, Minutes)
                  BY Zenon, RingNew
            <3> QED BY Zenon, <1>1, <3>1, <3>2
      <2>2. CASE k # key
            <3>1. Entries'[k] = Entries[k] /\ log'[k] = log[k]
                  BY Zenon, <2>2, <1>2
            <3> QED BY Zenon, <1>1, <3>1 DEF WindowInv
      <2> QED BY Zenon, <2>1, <2>2
<1> QED BY Zenon, <1>1, <1>3 DEF WindowInv

\* The key that an outcome is recorded for agrees.
LEMMA WindowRecorded ==
    ASSUME TypeInv, WindowInv, cfg' = cfg, now' = now, NEW key \in Keys,
           NEW e \in Entry, NEW kind \in Kinds, NEW kinds \in SUBSET Outcomes,
           kind \in kinds, \A o \in kinds \ {kind} : o \notin Kinds,
           Records(key, e, kind, kinds)
    PROVE  WindowInv'
<1>1. Keys' = Keys /\ Minutes' = Minutes /\ CurrentMinute' = CurrentMinute
      BY Zenon, SettingsStay DEF CurrentMinute
<1>2. DOMAIN Entries = Keys /\ DOMAIN log = Keys
      BY Zenon DEF TypeInv
<1>3. PICK e0 \in Entry : e0 = Entries[key]
      BY Zenon DEF TypeInv
<1>4. PICK c \in Counts(Minutes) : c = log[key]
      BY Zenon DEF TypeInv
<1>5. RingAgrees(e0.buckets, c, CurrentMinute, Minutes)
      BY Zenon, <1>3, <1>4 DEF WindowInv
<1>6. RingAgrees(RecordWindow(e0, kind).buckets, Counted(c, kinds, CurrentMinute),
                 CurrentMinute, Minutes)
      BY Zenon, <1>5, RecordAgrees
<1>7. ASSUME NEW k \in Keys
      PROVE  RingAgrees(Entries'[k].buckets, log'[k], CurrentMinute', Minutes')
      <2>1. CASE k = key
            <3>1. /\ Entries'[k].buckets = RecordWindow(e0, kind).buckets
                  /\ log'[k] = Counted(c, kinds, CurrentMinute)
                  BY Zenon, <2>1, <1>2, <1>3, <1>4 DEF Records
            <3> QED BY Zenon, <1>1, <1>6, <3>1
      <2>2. CASE k # key
            <3>1. Entries'[k] = Entries[k] /\ log'[k] = log[k]
                  BY Zenon, <2>2, <1>2 DEF Records
            <3> QED BY Zenon, <1>1, <3>1 DEF WindowInv
      <2> QED BY Zenon, <2>1, <2>2
<1> QED BY Zenon, <1>1, <1>7 DEF WindowInv

\* Every step keeps the rings in agreement with the log.
LEMMA WindowStep ==
    ASSUME TypeInv, WindowInv, TypeInv', [Next]_vars
    PROVE  WindowInv'
<1>0. /\ cfg' = cfg /\ DOMAIN Entries = Keys /\ Entries \in [Keys -> Entry]
      /\ CurrentMinute \in Nat /\ CurrentMinute <= CurrentMinute
      BY MinuteTypes DEF Next, vars, TypeInv
<1>1. ASSUME now' = now
      PROVE  CurrentMinute' = CurrentMinute
      BY Zenon, <1>1 DEF CurrentMinute
<1>2. ASSUME NEW r \in Requests, Request(r)
      PROVE  WindowInv'
      <2>0. now' = now
            BY Zenon, <1>0, <1>2, RequestBooksStep
      <2>1. CASE PickSnapshot(r) \/ PickSelect(r) \/ PickFail(r) \/ Abandon(r)
                 \/ ReportFailureRead(r)
            <3>1. stats' = stats /\ log' = log
                  BY Zenon, <2>1 DEF PickSnapshot, PickSelect, PickFail, Abandon,
                              ReportFailureRead
            <3>2. Entries' = Entries
                  BY Zenon, <1>0, <3>1, SameEffect
            <3> QED BY Zenon, <1>0, <1>1, <2>0, <3>1, <3>2, WindowKept
      <2>2. CASE ReportRequestStart(r)
            <3>1. log' = log
                  BY Zenon, <2>2 DEF ReportRequestStart
            <3>2. PICK key \in Keys :
                      Entries' = [Entries EXCEPT ![key] =
                                     [Entries[key] EXCEPT !.active = Entries[key].active + 1]]
                  BY Zenon, <1>0, <2>2, StartEffect
            <3>3. \A k \in Keys : Entries'[k].buckets = Entries[k].buckets
                  BY Zenon, <1>0, <3>2 DEF Entry
            <3> QED BY Zenon, <1>0, <1>1, <2>0, <3>1, <3>3, WindowKept
      <2>3. CASE ReportSuccess(r)
            <3>1. PICK key \in Keys, e \in Entry : Records(key, e, "success", {"success"})
                  BY Zenon, <1>0, <2>3, SuccessEffect
            <3>2. /\ "success" \in Kinds /\ {"success"} \in SUBSET Outcomes
                  /\ "success" \in {"success"}
                  /\ \A o \in {"success"} \ {"success"} : o \notin Kinds
                  BY Zenon, KindTypes DEF Kinds
            <3> QED BY Zenon, <1>0, <2>0, <3>1, <3>2, WindowRecorded
      <2>4. ASSUME NEW status \in Statuses, ReportFailure(r, status)
            PROVE  WindowInv'
            <3>1. PICK key \in Keys, e \in Entry :
                      Records(key, e, "failure", {"failure", status})
                  BY Zenon, <1>0, <2>4, FailureEffect
            <3>2. PICK kinds : kinds = {"failure", status}
                  BY Zenon
            <3>3. /\ "failure" \in Kinds /\ kinds \in SUBSET Outcomes
                  /\ "failure" \in kinds
                  /\ \A o \in kinds \ {"failure"} : o \notin Kinds
                  BY Zenon, <3>2, KindTypes DEF Kinds
            <3>4. Records(key, e, "failure", kinds)
                  BY Zenon, <3>1, <3>2
            <3> QED BY Zenon, <1>0, <2>0, <3>3, <3>4, WindowRecorded
      <2>5. CASE ReportRequestEnd(r)
            <3>1. log' = log
                  BY Zenon, <2>5 DEF ReportRequestEnd
            <3>2. PICK key \in Keys :
                      \E n : Entries' = [Entries EXCEPT ![key] =
                                            [Entries[key] EXCEPT !.active = n]]
                  BY Zenon, <1>0, <2>5, EndEffect
            <3>3. \A k \in Keys : Entries'[k].buckets = Entries[k].buckets
                  BY <1>0, <3>2 DEF Entry
            <3> QED BY Zenon, <1>0, <1>1, <2>0, <3>1, <3>3, WindowKept
      <2> QED BY Zenon, <1>2, <2>1, <2>2, <2>3, <2>4, <2>5 DEF Request
<1>3. ASSUME NEW d \in Administered, Administer(d)
      PROVE  WindowInv'
      <2>1. /\ d \in Deployments /\ now' = now
            /\ \/ /\ Entries' = [Entries EXCEPT ![<<"", d>>] = NewStatsEntry]
                  /\ log' = [log EXCEPT ![<<"", d>>] = NoOutcomes]
               \/ /\ \E until \in Int :
                         Entries' = [Entries EXCEPT ![<<"", d>>] =
                                        [Entries[<<"", d>>] EXCEPT !.cooldownUntil = until]]
                  /\ log' = log
            BY Zenon, <1>0, <1>3, AdministerEffect
      <2>2. PICK key \in Keys : key = <<"", d>>
            BY Zenon, <2>1, KeyTypes
      <2>3. CASE /\ Entries' = [Entries EXCEPT ![key] = NewStatsEntry]
                 /\ log' = [log EXCEPT ![key] = NoOutcomes]
            BY Zenon, <1>0, <2>1, <2>3, WindowReset
      <2>4. ASSUME NEW until \in Int, log' = log,
                   Entries' = [Entries EXCEPT ![key] =
                                  [Entries[key] EXCEPT !.cooldownUntil = until]]
            PROVE  WindowInv'
            <3>1. \A k \in Keys : Entries'[k].buckets = Entries[k].buckets
                  BY Zenon, <1>0, <2>4 DEF Entry
            <3> QED BY Zenon, <1>0, <1>1, <2>1, <2>4, <3>1, WindowKept
      <2> QED BY Zenon, <2>1, <2>2, <2>3, <2>4
<1>4. CASE Tick
      <2>1. stats' = stats /\ log' = log /\ now' = now + 1
            BY Zenon, <1>4 DEF Tick
      <2>2. Entries' = Entries
            BY Zenon, <1>0, <2>1, SameEffect
      <2>3. CurrentMinute <= CurrentMinute'
            <3>1. MaxTime \in Nat /\ now \in 0..MaxTime /\ MinuteTicks \in Nat \ {0}
                  BY Zenon, SettingsTypes, LimitAssumption DEF TypeInv
            <3>2. now \in Nat /\ now + 1 \in Nat /\ now <= now + 1
                  BY <3>1
            <3>3. now \div MinuteTicks <= (now + 1) \div MinuteTicks
                  BY Zenon, <3>1, <3>2, DivMonotone
            <3> QED BY Zenon, <2>1, <3>3 DEF CurrentMinute
      <2> QED BY Zenon, <1>0, <2>1, <2>2, <2>3, WindowKept
<1>5. CASE UNCHANGED vars
      <2>1. stats' = stats /\ log' = log /\ now' = now
            BY Zenon, <1>5 DEF vars
      <2>2. Entries' = Entries
            BY Zenon, <1>0, <2>1, SameEffect
      <2> QED BY Zenon, <1>0, <1>1, <2>1, <2>2, WindowKept
<1> QED BY Zenon, <1>2, <1>3, <1>4, <1>5 DEF Next

-----------------------------------------------------------------------------
\* The load

\* The sets of requests are finite.
LEMMA RequestsFinite ==
    /\ Cardinality(Requests) \in Nat
    /\ \A S \in SUBSET Requests :
           IsFiniteSet(S) /\ Cardinality(S) \in Nat /\ Cardinality(S) <= Cardinality(Requests)
BY Zenon, RequestsAssumption, FS_Subset, FS_CardinalityType

\* Request r goes to where, and nobody else moves.
Moves(r, where) == Goto(r, where) /\ \A q \in Requests \ {r} : picked'[q] = picked[q]

\* The requests in flight and the pending ones after a step of request r
LEMMA FlightStep ==
    ASSUME TypeInv, cfg' = cfg, NEW r \in Requests, NEW where, Moves(r, where)
    PROVE  \A k : /\ InFlight(k) \subseteq Requests /\ Pending(k) \subseteq Requests
                  /\ InFlight(k)' =
                         IF where \in {"started", "failing", "reported"}
                            /\ <<ScopeOf[r], picked'[r]>> = k
                         THEN InFlight(k) \cup {r} ELSE InFlight(k) \ {r}
                  /\ Pending(k)' =
                         IF where \in {"picked", "started", "failing"}
                            /\ <<ScopeOf[r], picked'[r]>> = k
                         THEN Pending(k) \cup {r} ELSE Pending(k) \ {r}
<1>1. ScopeOf' = ScopeOf
      BY Zenon, SettingsStay
<1>2. pc'[r] = where /\ \A q \in Requests \ {r} : pc'[q] = pc[q]
      BY Zenon DEF TypeInv, Moves, Goto
<1>3. ASSUME NEW k, NEW q \in Requests \ {r}
      PROVE  (q \in InFlight(k)' <=> q \in InFlight(k))
             /\ (q \in Pending(k)' <=> q \in Pending(k))
      BY Zenon, <1>1, <1>2 DEF Moves, InFlight, Pending, LocalStatsKey
<1>4. ASSUME NEW k
      PROVE  /\ r \in InFlight(k)' <=> where \in {"started", "failing", "reported"}
                                       /\ <<ScopeOf[r], picked'[r]>> = k
             /\ r \in Pending(k)' <=> where \in {"picked", "started", "failing"}
                                      /\ <<ScopeOf[r], picked'[r]>> = k
      BY Zenon, <1>1, <1>2 DEF InFlight, Pending, LocalStatsKey
<1>5. \A k : /\ InFlight(k) \subseteq Requests /\ InFlight(k)' \subseteq Requests
             /\ Pending(k) \subseteq Requests /\ Pending(k)' \subseteq Requests
      BY Zenon DEF InFlight, Pending
<1> QED BY Zenon, <1>3, <1>4, <1>5

\* Steps that concern no request in flight keep the load.
LEMMA LoadKept ==
    ASSUME TypeInv, LoadInv, cfg' = cfg, admin' = 0 => admin = 0,
           \A k \in Keys : InFlight(k)' = InFlight(k),
           \A k \in Keys : Entries'[k].active = Entries[k].active
    PROVE  LoadInv'
<1>1. Keys' = Keys
      BY Zenon, SettingsStay
<1> QED BY Zenon, <1>1 DEF LoadInv

\* A new entry counts nobody; that is exact unless somebody is in flight.
LEMMA LoadReset ==
    ASSUME TypeInv, LoadInv, cfg' = cfg, admin' # 0, NEW key \in Keys,
           \A k \in Keys : InFlight(k)' = InFlight(k),
           Entries' = [Entries EXCEPT ![key] = NewStatsEntry]
    PROVE  LoadInv'
<1>1. Keys' = Keys /\ DOMAIN Entries = Keys
      BY Zenon, SettingsStay DEF TypeInv
<1>2. ASSUME NEW k \in Keys
      PROVE  Entries'[k].active <= Cardinality(InFlight(k)')
      <2>1. CASE k = key
            <3>1. Entries'[k].active = 0
                  BY Zenon, <2>1, <1>1 DEF NewStatsEntry
            <3>2. Cardinality(InFlight(k)) \in Nat
                  BY Zenon, RequestsFinite DEF InFlight
            <3> QED BY <3>1, <3>2
      <2>2. CASE k # key
            BY Zenon, <2>2, <1>1 DEF LoadInv
      <2> QED BY Zenon, <2>1, <2>2
<1> QED BY Zenon, <1>1, <1>2 DEF LoadInv

\* ReportRequestStart counts the request that joins those in flight.
LEMMA LoadStart ==
    ASSUME TypeInv, LoadInv, cfg' = cfg, NEW r \in Requests, ReportRequestStart(r)
    PROVE  LoadInv'
<1>1. Keys' = Keys /\ Entries \in [Keys -> Entry] /\ admin' = admin
      BY Zenon, SettingsStay DEF TypeInv, ReportRequestStart
<1>2. PICK key : key = LocalStatsKey(r, picked[r])
      BY Zenon
<1>3. /\ key \in Keys
      /\ Entries' = [Entries EXCEPT ![key] =
                        [Entries[key] EXCEPT !.active = Entries[key].active + 1]]
      BY Zenon, <1>2, StartEffect
<1>4. Moves(r, "started") /\ pc[r] = "picked" /\ key = <<ScopeOf[r], picked'[r]>>
      BY Zenon, <1>2 DEF ReportRequestStart, Moves, LocalStatsKey
<1>5. \A k : InFlight(k) \subseteq Requests /\ r \notin InFlight(k)
      BY Zenon, <1>4 DEF InFlight
<1>6. \A k : InFlight(k)' = IF k = key THEN InFlight(k) \cup {r} ELSE InFlight(k)
      <2>1. PICK where : where = "started"
            BY Zenon
      <2>2. where \in {"started", "failing", "reported"} /\ Moves(r, where)
            BY Zenon, <1>4, <2>1
      <2>3. \A k : InFlight(k)' = IF <<ScopeOf[r], picked'[r]>> = k
                                 THEN InFlight(k) \cup {r} ELSE InFlight(k) \ {r}
            BY Zenon, <2>2, FlightStep
      <2> QED BY Zenon, <1>4, <1>5, <2>3
<1>7. ASSUME NEW k \in Keys
      PROVE  /\ Entries'[k].active <= Cardinality(InFlight(k)')
             /\ admin' = 0 => Entries'[k].active = Cardinality(InFlight(k)')
      <2>1. /\ Entries[k].active \in Nat
            /\ Entries[k].active <= Cardinality(InFlight(k))
            /\ admin = 0 => Entries[k].active = Cardinality(InFlight(k))
            BY Zenon, <1>1 DEF LoadInv, Entry
      <2>2. CASE k = key
            <3>1. Entries'[k].active = Entries[k].active + 1
                  BY Zenon, <1>1, <1>3, <2>2 DEF Entry
            <3>2. Cardinality(InFlight(k)') = Cardinality(InFlight(k)) + 1
                  BY Zenon, <1>5, <1>6, <2>2, RequestsFinite, FS_AddElement
            <3>3. Cardinality(InFlight(k)) \in Nat
                  BY Zenon, <1>5, RequestsFinite
            <3> QED BY <1>1, <2>1, <3>1, <3>2, <3>3
      <2>3. CASE k # key
            BY Zenon, <1>1, <1>3, <1>6, <2>1, <2>3
      <2> QED BY Zenon, <2>2, <2>3
<1> QED BY Zenon, <1>1, <1>7 DEF LoadInv

\* ReportRequestEnd takes off the request that leaves.
LEMMA LoadEnd ==
    ASSUME TypeInv, LoadInv, cfg' = cfg, NEW r \in Requests, ReportRequestEnd(r)
    PROVE  LoadInv'
<1>1. Keys' = Keys /\ Entries \in [Keys -> Entry] /\ admin' = admin
      BY Zenon, SettingsStay DEF TypeInv, ReportRequestEnd
<1>2. PICK key : key = LocalStatsKey(r, picked[r])
      BY Zenon
<1>3. /\ key \in Keys
      /\ Entries' = [Entries EXCEPT ![key] =
                        [Entries[key] EXCEPT !.active =
                            IF Entries[key].active > 0 THEN Entries[key].active - 1
                            ELSE Entries[key].active]]
      BY Zenon, <1>2, EndEffect
<1>4. Moves(r, "idle") /\ pc[r] = "reported"
      BY Zenon DEF ReportRequestEnd, Moves, TypeInv
<1>5. \A k : InFlight(k) \subseteq Requests /\ (r \in InFlight(k) <=> k = key)
      BY Zenon, <1>2, <1>4 DEF InFlight
<1>6. \A k : InFlight(k)' = InFlight(k) \ {r}
      BY <1>4, FlightStep
<1>7. ASSUME NEW k \in Keys
      PROVE  /\ Entries'[k].active <= Cardinality(InFlight(k)')
             /\ admin' = 0 => Entries'[k].active = Cardinality(InFlight(k)')
      <2>1. /\ Entries[k].active \in Nat
            /\ Entries[k].active <= Cardinality(InFlight(k))
            /\ admin = 0 => Entries[k].active = Cardinality(InFlight(k))
            BY Zenon, <1>1 DEF LoadInv, Entry
      <2>2. CASE k = key
            <3>1. Entries'[k].active = IF Entries[k].active > 0 THEN Entries[k].active - 1
                                       ELSE Entries[k].active
                  BY Zenon, <1>1, <1>3, <2>2 DEF Entry
            <3>2. Cardinality(InFlight(k)') = Cardinality(InFlight(k)) - 1
                  BY Zenon, <1>5, <1>6, <2>2, RequestsFinite, FS_RemoveElement
            <3>3. Cardinality(InFlight(k)) \in Nat /\ Cardinality(InFlight(k)') \in Nat
                  BY Zenon, <1>5, <1>6, RequestsFinite
            <3> QED BY <1>1, <2>1, <3>1, <3>2, <3>3
      <2>3. CASE k # key
            BY Zenon, <1>1, <1>3, <1>5, <1>6, <2>1, <2>3
      <2> QED BY Zenon, <2>2, <2>3
<1> QED BY Zenon, <1>1, <1>7 DEF LoadInv

\* Every step keeps the active counts true to the requests in flight.
LEMMA LoadStep ==
    ASSUME TypeInv, WindowInv, LoadInv, [Next]_vars
    PROVE  LoadInv'
<1>0. cfg' = cfg /\ DOMAIN Entries = Keys /\ Entries \in [Keys -> Entry]
      BY Zenon DEF Next, vars, TypeInv
<1>1. ASSUME pc' = pc, picked' = picked
      PROVE  \A k \in Keys : InFlight(k)' = InFlight(k)
      BY Zenon, <1>0, <1>1, SettingsStay DEF InFlight, LocalStatsKey
<1>2. ASSUME NEW r \in Requests, Request(r)
      PROVE  LoadInv'
      <2>0. admin' = 0 => admin = 0
            BY Zenon, <1>0, <1>2, RequestBooksStep
      <2>1. ASSUME PickSnapshot(r) \/ PickSelect(r) \/ PickFail(r) \/ Abandon(r)
            PROVE  LoadInv'
            <3>1. /\ stats' = stats
                  /\ pc[r] \notin {"started", "failing", "reported"}
                  /\ \E where \in {"idle", "picking", "picked"} : Moves(r, where)
                  BY Zenon, <2>1 DEF PickSnapshot, PickSelect, PickFail, Abandon, Moves,
                     TypeInv
            <3>2. \A k : r \notin InFlight(k)
                  BY Zenon, <3>1 DEF InFlight
            <3>3. \A k \in Keys : InFlight(k)' = InFlight(k)
                  <4>1. PICK where \in {"idle", "picking", "picked"} : Moves(r, where)
                        BY Zenon, <3>1
                  <4>2. where \notin {"started", "failing", "reported"}
                        BY Zenon
                  <4>3. \A k : InFlight(k)' = InFlight(k) \ {r}
                        BY Zenon, <1>0, <4>1, <4>2, FlightStep
                  <4> QED BY Zenon, <3>2, <4>3
            <3>4. Entries' = Entries
                  BY Zenon, <1>0, <3>1, SameEffect
            <3> QED BY Zenon, <1>0, <2>0, <3>3, <3>4, LoadKept
      <2>2. CASE ReportRequestStart(r)
            BY Zenon, <1>0, <2>2, LoadStart
      <2>3. ASSUME NEW where \in {"failing", "reported"},
                   pc[r] \in {"started", "failing"}, Goto(r, where), picked' = picked
            PROVE  \A k \in Keys : InFlight(k)' = InFlight(k)
            <3>1. \A k : r \in InFlight(k) <=> <<ScopeOf[r], picked'[r]>> = k
                  BY Zenon, <2>3 DEF InFlight, LocalStatsKey
            <3>2. where \in {"started", "failing", "reported"} /\ Moves(r, where)
                  BY Zenon, <2>3 DEF Moves
            <3>3. \A k : InFlight(k)' = IF <<ScopeOf[r], picked'[r]>> = k
                                       THEN InFlight(k) \cup {r} ELSE InFlight(k) \ {r}
                  BY Zenon, <1>0, <3>2, FlightStep
            <3> QED BY Zenon, <3>1, <3>3
      <2>4. CASE ReportFailureRead(r)
            <3>1. /\ stats' = stats /\ pc[r] = "started" /\ picked' = picked
                  /\ Goto(r, "failing")
                  BY Zenon, <2>4 DEF ReportFailureRead
            <3>2. Entries' = Entries
                  BY Zenon, <1>0, <3>1, SameEffect
            <3> QED BY Zenon, <1>0, <2>0, <2>3, <3>1, <3>2, LoadKept
      <2>5. CASE ReportSuccess(r)
            <3>1. /\ pc[r] = "started" /\ picked' = picked
                  /\ Goto(r, "reported")
                  BY Zenon, <2>5 DEF ReportSuccess
            <3>2. PICK key \in Keys, e \in Entry : Records(key, e, "success", {"success"})
                  BY Zenon, <1>0, <2>5, SuccessEffect
            <3>3. \A k \in Keys : Entries'[k].active = Entries[k].active
                  BY Zenon, <1>0, <3>2 DEF Records
            <3> QED BY Zenon, <1>0, <2>0, <2>3, <3>1, <3>3, LoadKept
      <2>6. ASSUME NEW status \in Statuses, ReportFailure(r, status)
            PROVE  LoadInv'
            <3>1. /\ pc[r] = "failing" /\ picked' = picked
                  /\ Goto(r, "reported")
                  BY Zenon, <2>6 DEF ReportFailure
            <3>2. PICK key \in Keys, e \in Entry :
                      Records(key, e, "failure", {"failure", status})
                  BY Zenon, <1>0, <2>6, FailureEffect
            <3>3. \A k \in Keys : Entries'[k].active = Entries[k].active
                  BY Zenon, <1>0, <3>2 DEF Records
            <3> QED BY Zenon, <1>0, <2>0, <2>3, <3>1, <3>3, LoadKept
      <2>7. CASE ReportRequestEnd(r)
            BY Zenon, <1>0, <2>7, LoadEnd
      <2> QED BY Zenon, <1>2, <2>1, <2>2, <2>4, <2>5, <2>6, <2>7 DEF Request
<1>3. ASSUME NEW d \in Administered, Administer(d)
      PROVE  LoadInv'
      <2>1. /\ d \in Deployments /\ pc' = pc /\ picked' = picked /\ admin' = admin + 1
            /\ \/ Entries' = [Entries EXCEPT ![<<"", d>>] = NewStatsEntry]
               \/ \E until \in Int :
                      Entries' = [Entries EXCEPT ![<<"", d>>] =
                                     [Entries[<<"", d>>] EXCEPT !.cooldownUntil = until]]
            BY Zenon, <1>0, <1>3, AdministerEffect
      <2>2. PICK key \in Keys : key = <<"", d>>
            BY Zenon, <2>1, KeyTypes
      <2>3. admin' # 0
            <3>1. admin \in Nat
                  BY Zenon DEF TypeInv
            <3>2. admin' = admin + 1
                  BY Zenon, <2>1
            <3> QED BY <3>1, <3>2
      <2>4. CASE Entries' = [Entries EXCEPT ![key] = NewStatsEntry]
            BY Zenon, <1>0, <1>1, <2>1, <2>3, <2>4, LoadReset
      <2>5. ASSUME NEW until \in Int,
                   Entries' = [Entries EXCEPT ![key] =
                                  [Entries[key] EXCEPT !.cooldownUntil = until]]
            PROVE  LoadInv'
            <3>1. \A k \in Keys : Entries'[k].active = Entries[k].active
                  BY Zenon, <1>0, <2>5 DEF Entry
            <3> QED BY Zenon, <1>0, <1>1, <2>1, <2>3, <3>1, LoadKept
      <2> QED BY Zenon, <2>1, <2>2, <2>4, <2>5
<1>4. CASE Tick \/ UNCHANGED vars
      <2>1. stats' = stats /\ pc' = pc /\ picked' = picked /\ admin' = admin
            BY Zenon, <1>4 DEF Tick, vars, locals
      <2>2. Entries' = Entries
            BY Zenon, <1>0, <2>1, SameEffect
      <2> QED BY Zenon, <1>0, <1>1, <2>1, <2>2, LoadKept
<1> QED BY Zenon, <1>2, <1>3, <1>4 DEF Next

-----------------------------------------------------------------------------
\* The usage limits

\* Steps that add to no usage and let nobody pass the filters keep the bound.
LEMMA UsageKept ==
    ASSUME TypeInv, UsageInv, cfg' = cfg,
           \A k \in Keys : Entries'[k].rpm = Entries[k].rpm \/ Entries'[k].rpm = 0,
           \A k \in Keys : Pending(k)' \subseteq Pending(k)
    PROVE  UsageInv'
<1>1. /\ Keys' = Keys /\ RPMLimit' = RPMLimit /\ RPMLimit \in Nat
      /\ ScopeOf' = ScopeOf /\ PickScopeOf' = PickScopeOf
      BY Zenon, SettingsStay, SettingsTypes DEF TypeInv
<1>2. SUFFICES ASSUME RPMLimit > 0, PickScopeOf = ScopeOf,
                      NEW k \in Keys, Entries'[k].rpm >= RPMLimit
               PROVE  Entries'[k].rpm + Cardinality(Pending(k)')
                          <= RPMLimit - 1 + Cardinality(Requests)
      BY Zenon, <1>1 DEF UsageInv
<1>3. Entries'[k].rpm = Entries[k].rpm
      BY <1>1, <1>2
<1>4. Entries[k].rpm + Cardinality(Pending(k)) <= RPMLimit - 1 + Cardinality(Requests)
      BY Zenon, <1>2, <1>3 DEF UsageInv
<1>5. Entries[k].rpm \in Nat
      BY Zenon DEF TypeInv, Entry
<1>6. /\ Cardinality(Pending(k)) \in Nat /\ Cardinality(Pending(k)') \in Nat
      /\ Cardinality(Pending(k)') <= Cardinality(Pending(k))
      <2>1. Pending(k) \in SUBSET Requests
            BY Zenon DEF Pending
      <2>2. IsFiniteSet(Pending(k)) /\ Pending(k)' \in SUBSET Pending(k)
            BY Zenon, <2>1, RequestsFinite
      <2> QED BY Zenon, <2>2, FS_Subset, FS_CardinalityType
<1> QED BY <1>1, <1>3, <1>4, <1>5, <1>6, RequestsFinite

\* A request that passes the filters finds its deployment below the limit.
LEMMA UsagePick ==
    ASSUME TypeInv, UsageInv, cfg' = cfg, NEW r \in Requests, PickSelect(r)
    PROVE  UsageInv'
<1>1. /\ Keys' = Keys /\ RPMLimit' = RPMLimit /\ RPMLimit \in Nat
      /\ ScopeOf' = ScopeOf /\ PickScopeOf' = PickScopeOf
      BY Zenon, SettingsStay, SettingsTypes DEF TypeInv
<1>2. /\ pc[r] = "picking" /\ Moves(r, "picked") /\ stats' = stats
      /\ snapshot[r] \in Seq(Deployments) /\ DOMAIN picked = Requests
      BY Zenon DEF PickSelect, Moves, TypeInv
<1>3. PICK d \in Candidates(r, snapshot[r]) : picked' = [picked EXCEPT ![r] = d]
      BY Zenon DEF PickSelect
<1>4. d \in Deployments /\ Fits(r, d) /\ picked'[r] = d
      BY Zenon, <1>2, <1>3, CandidatesFit
<1>5. Entries' = Entries
      BY Zenon, <1>2, SameEffect
<1>6. SUFFICES ASSUME RPMLimit > 0, PickScopeOf = ScopeOf,
                      NEW k \in Keys, Entries'[k].rpm >= RPMLimit
               PROVE  Entries'[k].rpm + Cardinality(Pending(k)')
                          <= RPMLimit - 1 + Cardinality(Requests)
      BY Zenon, <1>1 DEF UsageInv
<1>7. k # <<ScopeOf[r], d>>
      <2>1. SUFFICES ASSUME k = <<PickScopeOf[r], d>>
                     PROVE  FALSE
            BY Zenon, <1>6
      <2>2. Entries[k] = GetOrCreateStats(k) /\ Entries[k].rpm \in Nat
            BY Zenon DEF TypeInv, Entries, Entry
      <2>3. CASE k \in DOMAIN stats \/ Strategy = "lowest-tpm-rpm"
            <3>1. Entries[k].rpm + 1 <= RPMLimit
                  BY <1>1, <1>4, <1>6, <2>1, <2>2, <2>3 DEF Fits, EntryOf
            <3> QED BY <1>1, <1>5, <1>6, <2>2, <3>1
      <2>4. CASE k \notin DOMAIN stats
            <3>1. Entries[k].rpm = 0
                  BY <2>2, <2>4 DEF GetOrCreateStats, NewStatsEntry
            <3> QED BY <1>1, <1>5, <1>6, <3>1
      <2> QED BY Zenon, <2>3, <2>4
<1>8. Pending(k)' = Pending(k)
      <2>1. Pending(k)' = Pending(k) \ {r}
            BY Zenon, <1>2, <1>4, <1>7, FlightStep
      <2>2. r \notin Pending(k)
            BY Zenon, <1>2 DEF Pending
      <2> QED BY Zenon, <2>1, <2>2
<1> QED BY Zenon, <1>5, <1>6, <1>8 DEF UsageInv

\* ReportSuccess counts one of the requests that were pending.
LEMMA UsageSuccess ==
    ASSUME TypeInv, WindowInv, UsageInv, cfg' = cfg, NEW r \in Requests, ReportSuccess(r)
    PROVE  UsageInv'
<1>1. /\ Keys' = Keys /\ RPMLimit' = RPMLimit /\ RPMLimit \in Nat
      /\ ScopeOf' = ScopeOf /\ PickScopeOf' = PickScopeOf
      /\ Entries \in [Keys -> Entry]
      BY Zenon, SettingsStay, SettingsTypes DEF TypeInv
<1>2. PICK key : key = LocalStatsKey(r, picked[r])
      BY Zenon
<1>3. PICK e \in Entry : /\ key \in Keys
                         /\ Records(key, e, "success", {"success"})
                         /\ e.rpm \in {Entries[key].rpm + 1, 1}
      BY Zenon, <1>2, SuccessEffect
<1>4. Entries' = [Entries EXCEPT ![key] = e]
      BY Zenon, <1>3 DEF Records
<1>5. /\ pc[r] = "started" /\ Moves(r, "reported")
      BY Zenon DEF ReportSuccess, Moves
<1>6. \A k : /\ Pending(k) \subseteq Requests /\ Pending(k)' = Pending(k) \ {r}
             /\ r \in Pending(k) <=> k = key
      <2>1. \A k : Pending(k) \subseteq Requests /\ (r \in Pending(k) <=> k = key)
            BY Zenon, <1>2, <1>5 DEF Pending
      <2>2. PICK where : where = "reported"
            BY Zenon
      <2>3. where \notin {"picked", "started", "failing"} /\ Moves(r, where)
            BY Zenon, <1>5, <2>2
      <2>4. \A k : Pending(k)' = Pending(k) \ {r}
            BY Zenon, <2>3, FlightStep
      <2> QED BY Zenon, <2>1, <2>4
<1>7. SUFFICES ASSUME RPMLimit > 0, PickScopeOf = ScopeOf,
                      NEW k \in Keys, Entries'[k].rpm >= RPMLimit
               PROVE  Entries'[k].rpm + Cardinality(Pending(k)')
                          <= RPMLimit - 1 + Cardinality(Requests)
      BY Zenon, <1>1 DEF UsageInv
<1>8. /\ Entries[k].rpm \in Nat
      /\ Entries[k].rpm >= RPMLimit =>
             Entries[k].rpm + Cardinality(Pending(k)) <= RPMLimit - 1 + Cardinality(Requests)
      BY Zenon, <1>1, <1>7 DEF UsageInv, Entry
<1>9. CASE k = key
      <2>1. Entries'[k].rpm \in {Entries[k].rpm + 1, 1}
            BY Zenon, <1>1, <1>3, <1>4, <1>9
      <2>2. Cardinality(Pending(k)') = Cardinality(Pending(k)) - 1
            BY Zenon, <1>6, <1>9, RequestsFinite, FS_RemoveElement
      <2>3. /\ Cardinality(Pending(k)) \in Nat /\ Cardinality(Requests) \in Nat
            /\ Cardinality(Pending(k)) <= Cardinality(Requests)
            BY Zenon, <1>6, RequestsFinite
      <2> QED BY <1>1, <1>7, <1>8, <2>1, <2>2, <2>3
<1>10. CASE k # key
      <2>1. Entries'[k] = Entries[k]
            BY Zenon, <1>1, <1>4, <1>10
      <2>2. Pending(k)' = Pending(k)
            BY Zenon, <1>6, <1>10
      <2> QED BY Zenon, <1>7, <1>8, <2>1, <2>2
<1> QED BY Zenon, <1>9, <1>10

\* Every step keeps the bound on the requests that pass a limit.
LEMMA UsageStep ==
    ASSUME TypeInv, WindowInv, UsageInv, [Next]_vars
    PROVE  UsageInv'
<1>0. cfg' = cfg /\ DOMAIN Entries = Keys /\ Entries \in [Keys -> Entry]
      BY Zenon DEF Next, vars, TypeInv
<1>1. ASSUME pc' = pc, picked' = picked
      PROVE  \A k \in Keys : Pending(k)' \subseteq Pending(k)
      BY Zenon, <1>0, <1>1, SettingsStay DEF Pending, LocalStatsKey
<1>2. ASSUME NEW r \in Requests, Request(r)
      PROVE  UsageInv'
      <2>1. ASSUME NEW where \in {"idle", "picking", "reported"}, Moves(r, where)
            PROVE  \A k \in Keys : Pending(k)' \subseteq Pending(k)
            <3>1. where \notin {"picked", "started", "failing"}
                  BY Zenon
            <3>2. \A k : Pending(k)' = Pending(k) \ {r}
                  BY Zenon, <1>0, <2>1, <3>1, FlightStep
            <3> QED BY Zenon, <3>2
      <2>2. ASSUME NEW where \in {"started", "failing"}, Goto(r, where), picked' = picked,
                   pc[r] \in {"picked", "started"}
            PROVE  \A k \in Keys : Pending(k)' \subseteq Pending(k)
            <3>1. \A k : r \in Pending(k) <=> <<ScopeOf[r], picked'[r]>> = k
                  BY Zenon, <2>2 DEF Pending, LocalStatsKey
            <3>2. where \in {"picked", "started", "failing"} /\ Moves(r, where)
                  BY Zenon, <2>2 DEF Moves
            <3>3. \A k : Pending(k)' = IF <<ScopeOf[r], picked'[r]>> = k
                                      THEN Pending(k) \cup {r} ELSE Pending(k) \ {r}
                  BY Zenon, <1>0, <3>2, FlightStep
            <3> QED BY Zenon, <3>1, <3>3
      <2>3. ASSUME PickSnapshot(r) \/ PickFail(r) \/ Abandon(r)
            PROVE  UsageInv'
            <3>1. /\ stats' = stats
                  /\ \E where \in {"idle", "picking", "reported"} : Moves(r, where)
                  BY Zenon, <2>3 DEF PickSnapshot, PickFail, Abandon, Moves, TypeInv
            <3>2. Entries' = Entries
                  BY Zenon, <1>0, <3>1, SameEffect
            <3> QED BY Zenon, <1>0, <2>1, <3>1, <3>2, UsageKept
      <2>4. CASE PickSelect(r)
            BY Zenon, <1>0, <2>4, UsagePick
      <2>5. CASE ReportRequestStart(r)
            <3>1. pc[r] = "picked" /\ Goto(r, "started") /\ picked' = picked
                  BY Zenon, <2>5 DEF ReportRequestStart
            <3>2. PICK key \in Keys :
                      Entries' = [Entries EXCEPT ![key] =
                                     [Entries[key] EXCEPT !.active = Entries[key].active + 1]]
                  BY Zenon, <1>0, <2>5, StartEffect
            <3>3. \A k \in Keys : Entries'[k].rpm = Entries[k].rpm
                  BY Zenon, <1>0, <3>2 DEF Entry
            <3> QED BY Zenon, <1>0, <2>2, <3>1, <3>3, UsageKept
      <2>6. CASE ReportFailureRead(r)
            <3>1. /\ stats' = stats /\ pc[r] = "started" /\ picked' = picked
                  /\ Goto(r, "failing")
                  BY Zenon, <2>6 DEF ReportFailureRead
            <3>2. Entries' = Entries
                  BY Zenon, <1>0, <3>1, SameEffect
            <3> QED BY <1>0, <2>2, <3>1, <3>2, UsageKept
      <2>7. CASE ReportSuccess(r)
            BY Zenon, <1>0, <2>7, UsageSuccess
      <2>8. ASSUME NEW status \in Statuses, ReportFailure(r, status)
            PROVE  UsageInv'
            <3>1. Moves(r, "reported")
                  BY Zenon, <2>8 DEF ReportFailure, Moves
            <3>2. PICK key \in Keys, e \in Entry :
                      /\ Records(key, e, "failure", {"failure", status})
                      /\ e.rpm = Entries[key].rpm
                  BY <1>0, <2>8, FailureEffect
            <3>3. \A k \in Keys : Entries'[k].rpm = Entries[k].rpm
                  BY Zenon, <1>0, <3>2 DEF Records
            <3> QED BY Zenon, <1>0, <2>1, <3>1, <3>3, UsageKept
      <2>9. CASE ReportRequestEnd(r)
            <3>1. Moves(r, "idle")
                  BY Zenon, <2>9 DEF ReportRequestEnd, Moves, TypeInv
            <3>2. PICK key \in Keys :
                      \E n : Entries' = [Entries EXCEPT ![key] =
                                            [Entries[key] EXCEPT !.active = n]]
                  BY Zenon, <1>0, <2>9, EndEffect
            <3>3. \A k \in Keys : Entries'[k].rpm = Entries[k].rpm
                  BY <1>0, <3>2 DEF Entry
            <3> QED BY Zenon, <1>0, <2>1, <3>1, <3>3, UsageKept
      <2> QED BY <1>2, <2>3, <2>4, <2>5, <2>6, <2>7, <2>8, <2>9 DEF Request
<1>3. ASSUME NEW d \in Administered, Administer(d)
      PROVE  UsageInv'
      <2>1. /\ d \in Deployments /\ pc' = pc /\ picked' = picked
            /\ \/ Entries' = [Entries EXCEPT ![<<"", d>>] = NewStatsEntry]
               \/ \E until \in Int :
                      Entries' = [Entries EXCEPT ![<<"", d>>] =
                                     [Entries[<<"", d>>] EXCEPT !.cooldownUntil = until]]
            BY Zenon, <1>0, <1>3, AdministerEffect
      <2>2. PICK key \in Keys : key = <<"", d>>
            BY Zenon, <2>1, KeyTypes
      <2>3. CASE Entries' = [Entries EXCEPT ![key] = NewStatsEntry]
            <3>1. NewStatsEntry.rpm = 0
                  BY Zenon DEF NewStatsEntry
            <3>2. \A k \in Keys : Entries'[k].rpm = Entries[k].rpm \/ Entries'[k].rpm = 0
                  BY Zenon, <1>0, <2>3, <3>1
            <3> QED BY Zenon, <1>0, <1>1, <2>1, <3>2, UsageKept
      <2>4. ASSUME NEW until \in Int,
                   Entries' = [Entries EXCEPT ![key] =
                                  [Entries[key] EXCEPT !.cooldownUntil = until]]
            PROVE  UsageInv'
            <3>1. \A k \in Keys : Entries'[k].rpm = Entries[k].rpm
                  BY Zenon, <1>0, <2>4 DEF Entry
            <3> QED BY Zenon, <1>0, <1>1, <2>1, <3>1, UsageKept
      <2> QED BY Zenon, <2>1, <2>2, <2>3, <2>4
<1>4. CASE Tick \/ UNCHANGED vars
      <2>1. stats' = stats /\ pc' = pc /\ picked' = picked
            BY Zenon, <1>4 DEF Tick, vars, locals
      <2>2. Entries' = Entries
            BY Zenon, <1>0, <2>1, SameEffect
      <2> QED BY Zenon, <1>0, <1>1, <2>1, <2>2, UsageKept
<1> QED BY Zenon, <1>2, <1>3, <1>4 DEF Next

-----------------------------------------------------------------------------
\* The cooldowns

\* The minutes of a window are finitely many, and so a sum over them is a number.
LEMMA WindowSums ==
    ASSUME NEW M \in SUBSET Nat, NEW m \in Nat, NEW c \in Counts(M), NEW o \in Outcomes
    PROVE  /\ IsFiniteSet(Window(m, M))
           /\ \A x \in Window(m, M) : x \in M /\ c[o][x] \in Nat
           /\ Total(c[o], Window(m, M)) \in Nat
<1>1. 0 \in Int /\ m \in Int
      OBVIOUS
<1>2. IsFiniteSet(0..m)
      BY Zenon, <1>1, FS_Interval
<1>3. Window(m, M) \subseteq 0..m
      <2>1. ASSUME NEW x \in Window(m, M)
            PROVE  x \in 0..m
            <3>1. x \in M /\ x <= m
                  BY Zenon DEF Window
            <3>2. x \in Nat
                  BY Zenon, <3>1
            <3> QED BY <3>1, <3>2
      <2> QED BY Zenon, <2>1
<1>4. IsFiniteSet(Window(m, M))
      BY Zenon, <1>2, <1>3, FS_Subset
<1>5. \A x \in Window(m, M) : x \in M /\ c[o][x] \in Nat
      BY Zenon DEF Window, Counts
<1>6. \A x \in Window(m, M) : c[o][x] <= c[o][x]
      BY <1>5
<1> QED BY Zenon, <1>4, <1>5, <1>6, TotalGrows

\* A reason remains one when more is counted.
LEMMA ReasonGrows ==
    ASSUME NEW M \in SUBSET Nat, NEW m \in M, NEW c \in Counts(M), NEW d \in Counts(M),
           \A o \in Outcomes : \A x \in M : c[o][x] <= d[o][x],
           NEW isSingle, Reason(c, m, isSingle, M)
    PROVE  Reason(d, m, isSingle, M)
<1>1. "401" \in Outcomes /\ "429" \in Outcomes /\ "failure" \in Outcomes
      BY Zenon DEF Outcomes, Statuses
<1>2. \A o \in Outcomes : c[o][m] \in Nat /\ d[o][m] \in Nat /\ c[o][m] <= d[o][m]
      BY Zenon DEF Counts
<1>3. PICK p, q : p = Total(c["failure"], Window(m, M))
                  /\ q = Total(d["failure"], Window(m, M))
      BY Zenon
<1>4. p \in Nat /\ q \in Nat /\ p <= q
      <2>1. /\ IsFiniteSet(Window(m, M))
            /\ \A x \in Window(m, M) : x \in M /\ c["failure"][x] \in Nat
            /\ \A x \in Window(m, M) : x \in M /\ d["failure"][x] \in Nat
            BY Zenon, <1>1, WindowSums
      <2>2. \A x \in Window(m, M) : c["failure"][x] <= d["failure"][x]
            BY Zenon, <1>1, <2>1
      <2> QED BY Zenon, <1>3, <2>1, <2>2, TotalGrows
<1>5. ThresholdDen \in Nat /\ ThresholdNum \in Nat /\ MinRequests \in Nat
      /\ SingleMinRequests \in Nat
      BY Zenon, LimitAssumption
<1>6. p * ThresholdDen \in Nat /\ q * ThresholdDen \in Nat
      /\ p * ThresholdDen <= q * ThresholdDen /\ ThresholdNum * MinRequests \in Nat
      BY <1>4, <1>5
<1>7. \/ c["401"][m] > 0
      \/ c["429"][m] > 0 /\ ImmediateCooldownOn429 /\ ~isSingle
      \/ IF isSingle THEN p >= SingleMinRequests
         ELSE p * ThresholdDen > ThresholdNum * MinRequests
      BY Zenon, <1>3 DEF Reason
<1>8. \/ d["401"][m] > 0
      \/ d["429"][m] > 0 /\ ImmediateCooldownOn429 /\ ~isSingle
      \/ IF isSingle THEN q >= SingleMinRequests
         ELSE q * ThresholdDen > ThresholdNum * MinRequests
      BY <1>1, <1>2, <1>4, <1>5, <1>6, <1>7
<1> QED BY Zenon, <1>3, <1>8 DEF Reason

\* The cooldown that ReportFailure begins has a reason.
LEMMA FailureReason ==
    ASSUME TypeInv, WindowInv, NEW key \in Keys, NEW status \in Statuses, NEW isSingle,
           EntersCooldown(RecordWindow(Entries[key], "failure"), isSingle, status),
           NEW d, d = Counted(log[key], {"failure", status}, CurrentMinute)
    PROVE  Reason(d, CurrentMinute, isSingle, Minutes)
<1>1. PICK m \in Minutes : m = CurrentMinute
      BY Zenon, MinuteTypes
<1>2. Minutes \in SUBSET Nat /\ m \in Nat
      BY Zenon, MinuteTypes
<1>3. PICK e0 \in Entry : e0 = Entries[key]
      BY Zenon DEF TypeInv
<1>4. PICK c \in Counts(Minutes) : c = log[key]
      BY Zenon DEF TypeInv
<1>5. PICK kinds : kinds = {"failure", status}
      BY Zenon
<1>6. /\ "failure" \in Kinds /\ "success" \in Kinds /\ kinds \in SUBSET Outcomes
      /\ "failure" \in kinds /\ status \in kinds
      /\ \A o \in kinds \ {"failure"} : o \notin Kinds
      /\ "failure" \in Outcomes /\ "success" \in Outcomes
      BY Zenon, <1>5, KindTypes DEF Kinds
<1>7. d = Counted(c, kinds, m)
      BY Zenon, <1>1, <1>4, <1>5
<1>8. /\ d \in Counts(Minutes)
      /\ \A o \in kinds : d[o][m] = c[o][m] + 1 /\ c[o][m] \in Nat
      <2>1. \A o \in kinds : c[o][m] \in Nat
            BY Zenon, <1>6 DEF Counts
      <2>2. /\ Counted(c, kinds, m) \in Counts(Minutes)
            /\ \A o \in kinds : Counted(c, kinds, m)[o][m] = c[o][m] + 1
            BY <1>6, CountedTypes
      <2> QED BY Zenon, <1>7, <2>1, <2>2
<1>9. RingAgrees(e0.buckets, c, CurrentMinute, Minutes)
      BY Zenon, <1>3, <1>4 DEF WindowInv
<1>10. PICK e \in Entry : /\ e = RecordWindow(e0, "failure")
                          /\ RingAgrees(e.buckets, d, CurrentMinute, Minutes)
      <2>1. /\ RecordWindow(e0, "failure") \in Entry
            /\ RingAgrees(RecordWindow(e0, "failure").buckets,
                          Counted(c, kinds, CurrentMinute), CurrentMinute, Minutes)
            BY Zenon, <1>6, <1>9, RecordAgrees
      <2> QED BY Zenon, <1>1, <1>7, <2>1
<1>11. EntersCooldown(e, isSingle, status)
      BY Zenon, <1>3, <1>10
<1>12. PICK f, s : f = Total(d["failure"], Window(m, Minutes))
                   /\ s = Total(d["success"], Window(m, Minutes))
      BY Zenon
<1>13. f \in Nat /\ s \in Nat
      BY Zenon, <1>2, <1>6, <1>8, <1>12, WindowSums
<1>14. WindowTotal(e, "failure") = f /\ WindowTotal(e, "success") = s
      BY ZenonT(60), <1>1, <1>6, <1>8, <1>10, <1>12, WindowTotals
<1>15. CASE status = "401" \/ (status = "429" /\ ImmediateCooldownOn429 /\ ~isSingle)
      <2>1. PICK n \in Nat : d[status][m] = n + 1
            BY Zenon, <1>6, <1>8
      <2>2. d[status][m] > 0
            BY <2>1
      <2> QED BY Zenon, <1>1, <1>15, <2>2 DEF Reason
<1>16. CASE ShouldCooldownByFailureRate(e, isSingle)
      <2>1. IF isSingle THEN s + f >= SingleMinRequests /\ f = s + f
            ELSE s + f >= MinRequests /\ f * ThresholdDen > ThresholdNum * (s + f)
            BY Zenon, <1>14, <1>16 DEF ShouldCooldownByFailureRate
      <2>2. ThresholdDen \in Nat /\ ThresholdNum \in Nat /\ MinRequests \in Nat
            /\ SingleMinRequests \in Nat
            BY Zenon, LimitAssumption
      <2>3. s + f >= MinRequests => ThresholdNum * (s + f) >= ThresholdNum * MinRequests
            BY <1>13, <2>2
      <2>4. f * ThresholdDen \in Nat /\ ThresholdNum * (s + f) \in Nat
            /\ ThresholdNum * MinRequests \in Nat
            BY <1>13, <2>2
      <2>5. IF isSingle THEN f >= SingleMinRequests
            ELSE f * ThresholdDen > ThresholdNum * MinRequests
            BY <1>13, <2>1, <2>2, <2>3, <2>4
      <2> QED BY Zenon, <1>1, <1>12, <2>5 DEF Reason
<1> QED BY Zenon, <1>11, <1>15, <1>16 DEF EntersCooldown

\* Steps that change no deployment, forget no outcome and begin cooldowns only
\* for a reason keep every cooldown justified.
LEMMA CooldownKept ==
    ASSUME TypeInv, CooldownInv, cfg' = cfg, deployments' = deployments,
           now' \in Nat, now <= now', admin' = admin,
           log' \in [Keys -> Counts(Minutes)],
           \A k \in Keys : \A o \in Outcomes : \A x \in Minutes : log[k][o][x] <= log'[k][o][x],
           admin = 0 =>
               \A r \in Requests : pc'[r] = "failing" => single'[r] = (Len(deployments) = 1),
           admin = 0 =>
               \A k \in Keys :
                   \/ Entries'[k].cooldownUntil = Entries[k].cooldownUntil
                   \/ /\ Entries'[k].cooldownUntil = now + CooldownPeriod
                      /\ Reason(log'[k], CurrentMinute, Len(deployments) = 1, Minutes)
    PROVE  CooldownInv'
<1>1. Keys' = Keys /\ Minutes' = Minutes
      BY Zenon, SettingsStay
<1>2. now \in Nat /\ CooldownPeriod \in Nat /\ Minutes \in SUBSET Nat
      <2>1. MaxTime \in Nat /\ now \in 0..MaxTime
            BY Zenon, SettingsTypes DEF TypeInv
      <2>2. CooldownPeriod \in Nat /\ Minutes \in SUBSET Nat
            BY Zenon, LimitAssumption, MinuteTypes
      <2> QED BY <2>1, <2>2
<1>3. ASSUME admin = 0, NEW k \in Keys, Entries'[k].cooldownUntil # Never
      PROVE  /\ Entries'[k].cooldownUntil - CooldownPeriod \in 0..now'
             /\ Reason(log'[k], (Entries'[k].cooldownUntil - CooldownPeriod) \div MinuteTicks,
                       Len(deployments) = 1, Minutes)
      <2>1. CASE Entries'[k].cooldownUntil = Entries[k].cooldownUntil
            <3>1. PICK t : t = Entries[k].cooldownUntil - CooldownPeriod
                  BY Zenon
            <3>2. /\ t \in 0..now
                  /\ Reason(log[k], t \div MinuteTicks, Len(deployments) = 1, Minutes)
                  BY Zenon, <1>3, <2>1, <3>1 DEF CooldownInv
            <3>3. PICK m \in Minutes : m = t \div MinuteTicks
                  BY Zenon, <3>2, MinuteTypes
            <3>4. PICK c \in Counts(Minutes) : c = log[k]
                  BY Zenon DEF TypeInv
            <3>5. PICK d \in Counts(Minutes) : d = log'[k]
                  BY Zenon
            <3>6. \A o \in Outcomes : \A x \in Minutes : c[o][x] <= d[o][x]
                  BY Zenon, <3>4, <3>5
            <3>7. Reason(d, m, Len(deployments) = 1, Minutes)
                  <4>1. Reason(c, m, Len(deployments) = 1, Minutes)
                        BY Zenon, <3>2, <3>3, <3>4
                  <4> QED BY Zenon, <1>2, <3>6, <4>1, ReasonGrows
            <3>8. t \in 0..now'
                  BY <1>2, <3>2
            <3> QED BY Zenon, <2>1, <3>1, <3>3, <3>5, <3>7, <3>8
      <2>2. CASE /\ Entries'[k].cooldownUntil = now + CooldownPeriod
                 /\ Reason(log'[k], CurrentMinute, Len(deployments) = 1, Minutes)
            <3>1. Entries'[k].cooldownUntil - CooldownPeriod = now /\ now \in 0..now'
                  BY <1>2, <2>2
            <3> QED BY Zenon, <2>2, <3>1 DEF CurrentMinute
      <2> QED BY Zenon, <1>3, <2>1, <2>2
<1> QED BY Zenon, <1>1, <1>3 DEF CooldownInv

\* Every step keeps the cooldowns justified.
LEMMA CooldownStep ==
    ASSUME TypeInv, WindowInv, CooldownInv, [Next]_vars
    PROVE  CooldownInv'
<1>0. /\ cfg' = cfg /\ DOMAIN Entries = Keys /\ Entries \in [Keys -> Entry]
      /\ now \in Nat /\ now <= now /\ DOMAIN pc = Requests /\ DOMAIN single = Requests
      /\ log \in [Keys -> Counts(Minutes)]
      <2>1. MaxTime \in Nat /\ now \in 0..MaxTime
            BY Zenon, SettingsTypes DEF TypeInv
      <2>2. now \in Nat /\ now <= now
            BY <2>1
      <2> QED BY Zenon, <2>2 DEF Next, vars, TypeInv
<1>1. \A k \in Keys : \A o \in Outcomes : \A x \in Minutes : log[k][o][x] <= log[k][o][x]
      BY <1>0 DEF Counts
<1>2. ASSUME NEW r \in Requests, Request(r)
      PROVE  CooldownInv'
      <2>0. /\ deployments' = deployments /\ now' = now /\ admin' = admin
            /\ log' \in [Keys -> Counts(Minutes)]
            BY Zenon, <1>0, <1>2, RequestBooksStep
      <2>1. ASSUME NEW where, where # "failing", Goto(r, where),
                   single' = single \/ single' = [single EXCEPT ![r] = FALSE]
            PROVE  admin = 0 =>
                       \A q \in Requests :
                           pc'[q] = "failing" => single'[q] = (Len(deployments) = 1)
            <3>1. SUFFICES ASSUME admin = 0, NEW q \in Requests, pc'[q] = "failing"
                           PROVE  single'[q] = (Len(deployments) = 1)
                  BY Zenon
            <3>2. q # r /\ pc[q] = "failing"
                  BY Zenon, <1>0, <2>1, <3>1 DEF Goto
            <3>3. single'[q] = single[q]
                  BY Zenon, <1>0, <2>1, <3>2
            <3>4. single[q] = (Len(deployments) = 1)
                  BY Zenon, <3>1, <3>2 DEF CooldownInv
            <3> QED BY Zenon, <3>3, <3>4
      <2>2. ASSUME log' = log,
                   \A k \in Keys : Entries'[k].cooldownUntil = Entries[k].cooldownUntil,
                   \E where : where # "failing" /\ Goto(r, where),
                   single' = single
            PROVE  CooldownInv'
            <3>1. \A k \in Keys : \A o \in Outcomes : \A x \in Minutes :
                      log[k][o][x] <= log'[k][o][x]
                  BY Zenon, <1>1, <2>2
            <3>2. admin = 0 => \A q \in Requests :
                      pc'[q] = "failing" => single'[q] = (Len(deployments) = 1)
                  BY Zenon, <2>1, <2>2
            <3> QED BY Zenon, <1>0, <2>0, <2>2, <3>1, <3>2, CooldownKept
      <2>3. CASE PickSnapshot(r) \/ PickSelect(r) \/ PickFail(r) \/ Abandon(r)
            <3>1. /\ stats' = stats /\ log' = log /\ single' = single
                  /\ \E where : where # "failing" /\ Goto(r, where)
                  BY Zenon, <2>3 DEF PickSnapshot, PickSelect, PickFail, Abandon
            <3>2. Entries' = Entries
                  BY Zenon, <1>0, <3>1, SameEffect
            <3> QED BY Zenon, <2>2, <3>1, <3>2
      <2>4. CASE ReportRequestStart(r)
            <3>1. log' = log /\ single' = single /\ Goto(r, "started")
                  BY Zenon, <2>4 DEF ReportRequestStart
            <3>2. PICK key \in Keys :
                      Entries' = [Entries EXCEPT ![key] =
                                     [Entries[key] EXCEPT !.active = Entries[key].active + 1]]
                  BY Zenon, <1>0, <2>4, StartEffect
            <3>3. \A k \in Keys : Entries'[k].cooldownUntil = Entries[k].cooldownUntil
                  BY Zenon, <1>0, <3>2 DEF Entry
            <3> QED BY Zenon, <2>2, <3>1, <3>3
      <2>5. CASE ReportRequestEnd(r)
            <3>1. log' = log /\ single' = single /\ Goto(r, "idle")
                  BY Zenon, <2>5 DEF ReportRequestEnd
            <3>2. PICK key \in Keys :
                      \E n : Entries' = [Entries EXCEPT ![key] =
                                            [Entries[key] EXCEPT !.active = n]]
                  BY Zenon, <1>0, <2>5, EndEffect
            <3>3. \A k \in Keys : Entries'[k].cooldownUntil = Entries[k].cooldownUntil
                  BY <1>0, <3>2 DEF Entry
            <3> QED BY Zenon, <2>2, <3>1, <3>3
      <2>6. CASE ReportFailureRead(r)
            <3>1. /\ stats' = stats /\ log' = log
                  /\ single' = [single EXCEPT ![r] = (Len(deployments) = 1)]
                  /\ pc' = [pc EXCEPT ![r] = "failing"]
                  BY Zenon, <2>6 DEF ReportFailureRead, Goto
            <3>2. Entries' = Entries
                  BY Zenon, <1>0, <3>1, SameEffect
            <3>3. ASSUME admin = 0, NEW q \in Requests, pc'[q] = "failing"
                  PROVE  single'[q] = (Len(deployments) = 1)
                  <4>1. CASE q = r
                        BY Zenon, <1>0, <3>1, <4>1
                  <4>2. CASE q # r
                        <5>1. pc[q] = "failing" /\ single'[q] = single[q]
                              BY Zenon, <1>0, <3>1, <3>3, <4>2
                        <5>2. single[q] = (Len(deployments) = 1)
                              BY Zenon, <3>3, <5>1 DEF CooldownInv
                        <5> QED BY Zenon, <5>1, <5>2
                  <4> QED BY Zenon, <4>1, <4>2
            <3>4. \A k \in Keys : \A o \in Outcomes : \A x \in Minutes :
                      log[k][o][x] <= log'[k][o][x]
                  BY Zenon, <1>1, <3>1
            <3> QED BY Zenon, <1>0, <2>0, <3>2, <3>3, <3>4, CooldownKept
      <2>7. ASSUME NEW key \in Keys, NEW e, NEW kind, NEW kinds \in SUBSET Outcomes,
                   Records(key, e, kind, kinds)
            PROVE  \A k \in Keys :
                       /\ k # key => Entries'[k] = Entries[k]
                       /\ \A o \in Outcomes : \A x \in Minutes :
                              log[k][o][x] <= log'[k][o][x]
            <3>1. ASSUME NEW k \in Keys, k # key
                  PROVE  Entries'[k] = Entries[k] /\ log'[k] = log[k]
                  BY Zenon, <1>0, <2>7, <3>1 DEF Records
            <3>2. log'[key] = Counted(log[key], kinds, CurrentMinute)
                  BY Zenon, <1>0, <2>7 DEF Records
            <3>3. PICK c \in Counts(Minutes) : c = log[key]
                  BY Zenon, <1>0
            <3>4. CurrentMinute \in Minutes
                  BY Zenon, MinuteTypes
            <3>5. \A o \in Outcomes : \A x \in Minutes :
                      c[o][x] <= Counted(c, kinds, CurrentMinute)[o][x]
                  BY ZenonT(60), <3>4, CountedTypes
            <3> QED BY Zenon, <1>1, <3>1, <3>2, <3>3, <3>5
      <2>8. CASE ReportSuccess(r)
            <3>1. single' = single /\ Goto(r, "reported")
                  BY Zenon, <2>8 DEF ReportSuccess
            <3>2. PICK key : key = LocalStatsKey(r, picked[r])
                  BY Zenon
            <3>3. PICK e \in Entry : /\ key \in Keys
                                     /\ Records(key, e, "success", {"success"})
                                     /\ e.cooldownUntil = Entries[key].cooldownUntil
                  BY Zenon, <1>0, <2>8, <3>2, SuccessEffect
            <3>4. Entries'[key] = e
                  BY Zenon, <1>0, <3>3 DEF Records
            <3>5. PICK kinds \in SUBSET Outcomes : kinds = {"success"}
                  BY Zenon, KindTypes
            <3>6. \A k \in Keys :
                      /\ k # key => Entries'[k] = Entries[k]
                      /\ \A o \in Outcomes : \A x \in Minutes :
                             log[k][o][x] <= log'[k][o][x]
                  BY Zenon, <2>7, <3>3, <3>5
            <3>7. \A k \in Keys : Entries'[k].cooldownUntil = Entries[k].cooldownUntil
                  BY Zenon, <3>3, <3>4, <3>6
            <3>8. admin = 0 => \A q \in Requests :
                      pc'[q] = "failing" => single'[q] = (Len(deployments) = 1)
                  BY Zenon, <2>1, <3>1
            <3> QED BY Zenon, <1>0, <2>0, <3>6, <3>7, <3>8, CooldownKept
      <2>9. ASSUME NEW status \in Statuses, ReportFailure(r, status)
            PROVE  CooldownInv'
            <3>1. /\ pc[r] = "failing" /\ Goto(r, "reported")
                  /\ single' = [single EXCEPT ![r] = FALSE]
                  BY Zenon, <2>9 DEF ReportFailure
            <3>2. PICK key : key = LocalStatsKey(r, picked[r])
                  BY Zenon
            <3>3. PICK e \in Entry :
                      /\ key \in Keys
                      /\ Records(key, e, "failure", {"failure", status})
                      /\ e.cooldownUntil =
                             IF EntersCooldown(RecordWindow(Entries[key], "failure"),
                                               single[r], status)
                             THEN now + CooldownPeriod ELSE Entries[key].cooldownUntil
                  BY ZenonT(60), <1>0, <2>9, <3>2, FailureEffect
            <3>4. /\ Entries'[key] = e
                  /\ log'[key] = Counted(log[key], {"failure", status}, CurrentMinute)
                  BY Zenon, <1>0, <3>3 DEF Records
            <3>5. PICK kinds \in SUBSET Outcomes : kinds = {"failure", status}
                  BY Zenon, KindTypes
            <3>6. \A k \in Keys :
                      /\ k # key => Entries'[k] = Entries[k]
                      /\ \A o \in Outcomes : \A x \in Minutes :
                             log[k][o][x] <= log'[k][o][x]
                  BY Zenon, <2>7, <3>3, <3>5
            <3>7. ASSUME admin = 0,
                         EntersCooldown(RecordWindow(Entries[key], "failure"),
                                        single[r], status)
                  PROVE  Reason(log'[key], CurrentMinute, Len(deployments) = 1, Minutes)
                  <4>1. Reason(log'[key], CurrentMinute, single[r], Minutes)
                        BY Zenon, <3>3, <3>4, <3>7, FailureReason
                  <4>2. single[r] = (Len(deployments) = 1)
                        BY Zenon, <3>1, <3>7 DEF CooldownInv
                  <4> QED BY Zenon, <4>1, <4>2 DEF Reason
            <3>8. admin = 0 =>
                      \A k \in Keys :
                          \/ Entries'[k].cooldownUntil = Entries[k].cooldownUntil
                          \/ /\ Entries'[k].cooldownUntil = now + CooldownPeriod
                             /\ Reason(log'[k], CurrentMinute, Len(deployments) = 1, Minutes)
                  BY Zenon, <3>3, <3>4, <3>6, <3>7
            <3>9. admin = 0 => \A q \in Requests :
                      pc'[q] = "failing" => single'[q] = (Len(deployments) = 1)
                  BY Zenon, <2>1, <3>1
            <3> QED BY Zenon, <1>0, <2>0, <3>6, <3>8, <3>9, CooldownKept
      <2> QED BY Zenon, <1>2, <2>3, <2>4, <2>5, <2>6, <2>8, <2>9 DEF Request
<1>3. ASSUME NEW d \in Administered, Administer(d)
      PROVE  CooldownInv'
      <2>1. admin' = admin + 1
            BY Zenon, <1>3 DEF Administer, AddDeployment, RemoveDeployment, SetCooldown
      <2>2. admin \in Nat
            BY Zenon DEF TypeInv
      <2>3. admin' # 0
            BY <2>1, <2>2
      <2> QED BY Zenon, <2>3 DEF CooldownInv
<1>4. CASE Tick \/ UNCHANGED vars
      <2>1. /\ stats' = stats /\ pc' = pc /\ single' = single /\ log' = log
            /\ deployments' = deployments /\ admin' = admin
            /\ now' = now + 1 \/ now' = now
            BY Zenon, <1>4 DEF Tick, vars, locals
      <2>2. now' \in Nat /\ now <= now'
            BY <1>0, <2>1
      <2>3. Entries' = Entries
            BY Zenon, <1>0, <2>1, SameEffect
      <2>4. admin = 0 => \A q \in Requests :
                pc'[q] = "failing" => single'[q] = (Len(deployments) = 1)
            BY Zenon, <2>1 DEF CooldownInv
      <2>5. \A k \in Keys : \A o \in Outcomes : \A x \in Minutes :
                log[k][o][x] <= log'[k][o][x]
            BY Zenon, <1>1, <2>1
      <2> QED BY Zenon, <1>0, <2>1, <2>2, <2>3, <2>4, <2>5, CooldownKept
<1> QED BY Zenon, <1>2, <1>3, <1>4 DEF Next

-----------------------------------------------------------------------------
\* The inductive invariant

\* A router that was just configured satisfies the invariant.
LEMMA InitInv ==
    ASSUME Init
    PROVE  IInv
<1>1. /\ cfg \in Configs /\ admin = 0 /\ now = 0
      /\ log = [k \in Keys |-> NoOutcomes]
      /\ pc = [r \in Requests |-> "idle"] /\ snapshot = [r \in Requests |-> <<>>]
      /\ DOMAIN picked = Requests /\ DOMAIN single = Requests
      BY Zenon DEF Init
<1>2. MaxTime \in Nat /\ Initial \in Seq(Deployments) /\ RPMLimit \in Nat /\ "" \in Scopes
      BY Zenon, <1>1, SettingsTypes
<1>3. DOMAIN stats \subseteq Keys /\ \A k \in Keys : GetOrCreateStats(k) = NewStatsEntry
      <2>1. \A i \in DOMAIN Initial : Initial[i] \in Deployments
            <3>1. PICK s \in Seq(Deployments) : s = Initial
                  BY Zenon, <1>2
            <3>2. \A i \in DOMAIN s : s[i] \in Deployments
                  OBVIOUS
            <3> QED BY Zenon, <3>1, <3>2
      <2>2. stats = [k \in {""} \X {Initial[i] : i \in DOMAIN Initial} |-> NewStatsEntry]
            BY Zenon DEF Init
      <2>3. DOMAIN stats \subseteq Keys
            BY Zenon, <1>2, <2>1, <2>2 DEF Keys
      <2> QED BY Zenon, <2>2, <2>3 DEF GetOrCreateStats
<1>4. Entries = [k \in Keys |-> NewStatsEntry]
      BY Zenon, <1>3 DEF Entries
<1>5. /\ Entries \in [Keys -> Entry] /\ \A k \in Keys : Entries[k] = NewStatsEntry
      BY Zenon, <1>4, NewEntryType
<1>6. /\ NewStatsEntry.active = 0 /\ NewStatsEntry.rpm = 0
      /\ NewStatsEntry.cooldownUntil = Never
      BY Zenon DEF NewStatsEntry
<1>7. log \in [Keys -> Counts(Minutes)] /\ \A k \in Keys : log[k] = NoOutcomes
      BY Zenon, <1>1, NoOutcomesType
<1>8. \A r \in Requests : pc[r] = "idle"
      BY Zenon, <1>1
<1>9. TypeInv
      <2>1. /\ pc \in [Requests -> Places] /\ snapshot \in [Requests -> Seq(Deployments)]
            /\ \A r \in Requests : pc[r] \notin Holding
            BY <1>1 DEF Places, Holding
      <2>2. deployments \in Seq(Deployments) /\ now \in 0..MaxTime /\ admin \in Nat
            <3>1. deployments = Initial
                  BY Zenon DEF Init
            <3>2. PICK t \in Nat : t = MaxTime
                  BY Zenon, <1>2
            <3>3. now \in 0..t
                  BY <1>1
            <3> QED BY Zenon, <1>1, <1>2, <3>1, <3>2, <3>3
      <2> QED BY Zenon, <1>1, <1>3, <1>5, <1>7, <2>1, <2>2 DEF TypeInv
<1>10. WindowInv
      <2>1. ASSUME NEW k \in Keys
            PROVE  RingAgrees(Entries[k].buckets, log[k], CurrentMinute, Minutes)
            <3>1. RingAgrees(NewStatsEntry.buckets, NoOutcomes, CurrentMinute, Minutes)
                  BY Zenon, RingNew
            <3> QED BY Zenon, <1>5, <1>7, <3>1
      <2> QED BY Zenon, <2>1 DEF WindowInv
<1>11. LoadInv
      <2>1. \A k \in Keys : InFlight(k) = {}
            BY Zenon, <1>8 DEF InFlight
      <2>2. Cardinality({}) = 0
            BY Zenon, FS_EmptySet
      <2>3. \A k \in Keys : Entries[k].active = 0 /\ Cardinality(InFlight(k)) = 0
            BY Zenon, <1>5, <1>6, <2>1, <2>2
      <2> QED BY <2>3 DEF LoadInv
<1>12. UsageInv
      <2>1. \A k \in Keys : Entries[k].rpm = 0
            BY Zenon, <1>5, <1>6
      <2>2. RPMLimit > 0 => \A k \in Keys : ~(Entries[k].rpm >= RPMLimit)
            <3>1. PICK limit \in Nat : limit = RPMLimit
                  BY Zenon, <1>2
            <3>2. limit > 0 => \A k \in Keys : ~(Entries[k].rpm >= limit)
                  BY <2>1
            <3> QED BY Zenon, <3>1, <3>2
      <2> QED BY Zenon, <2>2 DEF UsageInv
<1>13. CooldownInv
      BY Zenon, <1>5, <1>6, <1>8 DEF CooldownInv
<1> QED BY Zenon, <1>9, <1>10, <1>11, <1>12, <1>13 DEF IInv

\* Every step keeps the invariant.
LEMMA StepInv ==
    ASSUME IInv, [Next]_vars
    PROVE  IInv'
<1>1. TypeInv /\ WindowInv /\ LoadInv /\ UsageInv /\ CooldownInv
      BY Zenon DEF IInv
<1>2. TypeInv'
      BY Zenon, <1>1, TypeStep
<1>3. WindowInv'
      BY Zenon, <1>1, <1>2, WindowStep
<1>4. LoadInv'
      BY Zenon, <1>1, <1>2, LoadStep
<1>5. UsageInv'
      BY Zenon, <1>1, UsageStep
<1>6. CooldownInv'
      BY Zenon, <1>1, CooldownStep
<1> QED BY Zenon, <1>2, <1>3, <1>4, <1>5, <1>6 DEF IInv

\* The invariant of the router: the rings of buckets agree with what was
\* reported, the counts with who is in flight, the usage with who passed the
\* filters, and every cooldown has a reason.
THEOREM RouterInvariant == Spec => []IInv
<1>1. Init => IInv
      BY Zenon, InitInv
<1>2. IInv /\ [Next]_vars => IInv'
      BY Zenon, StepInv
<1> QED BY <1>1, <1>2, PTL DEF Spec

\* The stored entries are among those the invariant speaks of.
LEMMA StoredEntries ==
    ASSUME TypeInv, NEW k \in DOMAIN stats
    PROVE  k \in Keys /\ Entries[k] = stats[k] /\ stats[k] \in Entry
<1>1. k \in Keys
      BY Zenon DEF TypeInv
<1>2. Entries[k] = stats[k]
      BY Zenon, <1>1 DEF Entries, GetOrCreateStats
<1> QED BY Zenon, <1>1, <1>2 DEF TypeInv

\* windowTotals, computed from the ring of buckets that recordWindow reuses,
\* counts exactly what was reported in the window, whatever its length and the
\* length of a minute.
THEOREM WindowsAreExact == Spec => []WindowExact
<1>1. ASSUME IInv
      PROVE  WindowExact
      <2>1. TypeInv /\ WindowInv
            BY Zenon, <1>1 DEF IInv
      <2>2. ASSUME NEW k \in DOMAIN stats, NEW kind \in {"success", "failure"}
            PROVE  WindowTotal(stats[k], kind) = Reported(k, kind, CurrentMinute)
            <3>1. k \in Keys /\ Entries[k] = stats[k] /\ stats[k] \in Entry
                  BY Zenon, <2>1, StoredEntries
            <3>2. kind \in Kinds /\ log[k] \in Counts(Minutes)
                  BY Zenon, <2>1, <3>1 DEF Kinds, TypeInv
            <3>3. RingAgrees(stats[k].buckets, log[k], CurrentMinute, Minutes)
                  BY Zenon, <2>1, <3>1 DEF WindowInv
            <3>4. WindowTotal(stats[k], kind)
                      = Total(log[k][kind], Window(CurrentMinute, Minutes))
                  BY Zenon, <2>1, <3>1, <3>2, <3>3, WindowTotals
            <3> QED BY Zenon, <3>4 DEF Reported, Window
      <2> QED BY Zenon, <2>2 DEF WindowExact
<1> QED BY <1>1, RouterInvariant, PTL

\* A deployment cools down only for a reason that ReportFailure names, for every
\* threshold, cooldown period and number of deployments.
THEOREM CooldownsAreJustified == Spec => []CooldownJustified
<1>1. ASSUME IInv
      PROVE  CooldownJustified
      <2>1. TypeInv /\ CooldownInv
            BY Zenon, <1>1 DEF IInv
      <2>2. ASSUME NEW k \in DOMAIN stats, NEW m,
                   m = (stats[k].cooldownUntil - CooldownPeriod) \div MinuteTicks,
                   stats[k].cooldownUntil # Never, admin = 0
            PROVE  \/ log[k]["401"][m] > 0
                   \/ log[k]["429"][m] > 0 /\ ImmediateCooldownOn429 /\ ~(Len(deployments) = 1)
                   \/ IF Len(deployments) = 1
                      THEN Reported(k, "failure", m) >= SingleMinRequests
                      ELSE Reported(k, "failure", m) * ThresholdDen
                               > ThresholdNum * MinRequests
            <3>1. k \in Keys /\ Entries[k] = stats[k]
                  BY Zenon, <2>1, StoredEntries
            <3>2. Reason(log[k], m, Len(deployments) = 1, Minutes)
                  BY Zenon, <2>1, <2>2, <3>1 DEF CooldownInv
            <3>3. Reported(k, "failure", m)
                      = Total(log[k]["failure"], Window(m, Minutes))
                  BY Zenon DEF Reported, Window
            <3> QED BY Zenon, <3>2, <3>3 DEF Reason
      <2> QED BY Zenon, <2>2 DEF CooldownJustified
<1> QED BY <1>1, RouterInvariant, PTL

\* The active counts never count a request that is over, and are exact until a
\* deployment is added or removed; a request limit is passed by no more than the
\* other requests that were judged with it.
THEOREM LoadIsAccounted == Spec => []LoadAccounted
<1>1. ASSUME IInv
      PROVE  LoadAccounted
      <2>1. TypeInv /\ LoadInv /\ UsageInv
            BY Zenon, <1>1 DEF IInv
      <2>2. ActiveCountsInFlight
            <3>1. \A k \in DOMAIN stats : k \in Keys /\ Entries[k] = stats[k]
                  BY Zenon, <2>1, StoredEntries
            <3> QED BY Zenon, <2>1, <3>1 DEF ActiveCountsInFlight, LoadInv
      <2>3. ASSUME RPMLimit > 0, PickScopeOf = ScopeOf, NEW k \in DOMAIN stats
            PROVE  stats[k].rpm <= RPMLimit - 1 + Cardinality(Requests)
            <3>1. k \in Keys /\ Entries[k] = stats[k] /\ stats[k] \in Entry
                  BY Zenon, <2>1, StoredEntries
            <3>2. stats[k].rpm \in Nat
                  BY Zenon, <3>1 DEF Entry
            <3>3. RPMLimit \in Nat
                  BY Zenon, <2>1, SettingsTypes DEF TypeInv
            <3>4. stats[k].rpm >= RPMLimit =>
                      stats[k].rpm + Cardinality(Pending(k))
                          <= RPMLimit - 1 + Cardinality(Requests)
                  BY Zenon, <2>1, <2>3, <3>1 DEF UsageInv
            <3>5. Cardinality(Pending(k)) \in Nat /\ Cardinality(Requests) \in Nat
                  <4>1. Pending(k) \in SUBSET Requests
                        BY Zenon DEF Pending
                  <4> QED BY Zenon, <4>1, RequestsFinite
            <3> QED BY <3>2, <3>3, <3>4, <3>5
      <2> QED BY Zenon, <2>2, <2>3 DEF LoadAccounted, OvershootBounded
<1> QED BY <1>1, RouterInvariant, PTL

=============================================================================
