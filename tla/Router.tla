------------------------------- MODULE Router -------------------------------
(***************************************************************************)
(* The router of routers/base.go in local mode: the deployments of one     *)
(* model, the statistics kept per deployment and tenant, the cooldowns     *)
(* derived from them, and the selection of a deployment by each strategy.  *)
(*                                                                         *)
(* Requests are concurrent.  Each picks a deployment (two critical         *)
(* sections of r.mu: the list, then the statistics), reports its start,    *)
(* its outcome (a failure reads the list once more before it takes the     *)
(* lock) and its end.  Meanwhile an administrator adds and removes         *)
(* deployments and sets cooldowns.                                         *)
(***************************************************************************)
EXTENDS Integers, Sequences, FiniteSets

CONSTANTS
    Deployments,        \* deployment IDs
    Requests,           \* concurrent client requests
    ProviderOf,         \* the provider of each deployment
    CooldownPeriod,     \* config.CooldownPeriod, in ticks
    ImmediateCooldownOn429,
    MinRequests,        \* config.MinRequestsForThreshold
    ThresholdNum, ThresholdDen, \* config.FailureThresholdPercent, a fraction
    SingleMinRequests,  \* defaultSingleDeploymentFailureMinReq
    WindowMinutes,      \* defaultFailureWindowMinutes
    MinuteTicks,        \* ticks in a minute
    Tokens,             \* tokens of a request, as estimated and as used
    Configs             \* the settings that are considered

\* The usage filters are skipped when the estimate is zero: no such request is
\* considered.
ASSUME LimitAssumption ==
    /\ {CooldownPeriod, MinRequests, SingleMinRequests, ThresholdNum} \subseteq Nat
    /\ {WindowMinutes, MinuteTicks, ThresholdDen, Tokens} \subseteq Nat \ {0}
ASSUME RequestsAssumption == IsFiniteSet(Requests)
ASSUME ConfigsAssumption ==
    \A c \in Configs :
        /\ DOMAIN c.ScopeOf = Requests
        /\ c.PickScopeOf \in [Requests -> {c.ScopeOf[r] : r \in Requests} \cup {""}]
        /\ {c.RPMLimit, c.TPMLimit, c.MaxTime, c.MaxReports, c.MaxAdmin} \subseteq Nat
        /\ c.Initial \in Seq(Deployments)
        /\ c.Administered \subseteq Deployments

VARIABLES
    cfg,         \* the settings of this router and of what surrounds it
    deployments, \* r.deployments[model]
    stats,       \* r.stats: entries by tenant scope and deployment
    rrCounter,   \* the round-robin counter of the model
    now,         \* the clock, in ticks
    pc, snapshot, picked, single, \* each request: where it is, and its locals
    log,         \* auxiliary: outcomes reported, by entry and minute
    reports, admin \* auxiliary: bounded numbers of calls

vars == <<cfg, deployments, stats, rrCounter, now, pc, snapshot, picked, single, log,
          reports, admin>>
locals == <<pc, snapshot, picked, single>>

Strategy == cfg.Strategy                \* config.Strategy
DefaultProvider == cfg.DefaultProvider  \* config.DefaultProvider, "" for none
EnableTagFiltering == cfg.EnableTagFiltering
ScopeOf == cfg.ScopeOf          \* the tenant a request reports under, "" for none
PickScopeOf == cfg.PickScopeOf  \* the tenant in the context it picks with
TagsOf == cfg.TagsOf            \* the tags of each request and each deployment
RPMLimit == cfg.RPMLimit        \* limits of every deployment, 0 for none
TPMLimit == cfg.TPMLimit
Initial == cfg.Initial          \* the deployments configured at start, in order
Administered == cfg.Administered    \* those an administrator adds and removes
MaxTime == cfg.MaxTime          \* bound: ticks
MaxReports == cfg.MaxReports    \* bound: calls of PickWithContext
MaxAdmin == cfg.MaxAdmin        \* bound: administrative calls

None == "none"
Never == -1     \* the zero time.Time
Scopes == {ScopeOf[r] : r \in Requests} \cup {""}
Keys == Scopes \X Deployments
Minutes == 0..(MaxTime \div MinuteTicks)
Statuses == {"429", "401", "500"}
Outcomes == Statuses \cup {"success", "failure"}    \* a status is a failure, too
NoOutcomes == [o \in Outcomes |-> [m \in Minutes |-> 0]]

\* The sum of the counts c[i] for i in S, as the number of units counted
Units(c, S) == UNION {{i} \X (1..c[i]) : i \in S}
Total(c, S) == Cardinality(Units(c, S))

-----------------------------------------------------------------------------
\* Statistics entries

\* newStatsEntry; a bucket is the minute it counts and the outcomes in it.
NewStatsEntry ==
    [active |-> 0, cooldownUntil |-> Never, tpm |-> 0, rpm |-> 0, minuteKey |-> Never,
     buckets |-> [i \in 0..(WindowMinutes - 1) |->
                     [minute |-> Never, success |-> 0, failure |-> 0]]]

\* localStatsKey
LocalStatsKey(r, d) == <<ScopeOf[r], d>>

\* getOrCreateStats
GetOrCreateStats(key) == IF key \in DOMAIN stats THEN stats[key] ELSE NewStatsEntry

\* r.stats with entry stored under key
StoreStats(key, entry) ==
    [k \in DOMAIN stats \cup {key} |-> IF k = key THEN entry ELSE stats[k]]

CurrentMinute == now \div MinuteTicks

\* Mutant: recordWindow adds to a bucket of an earlier round.
RecordWindow_KeepsBucket(entry, outcome) ==
    [entry EXCEPT !.buckets[CurrentMinute % WindowMinutes] =
        [@ EXCEPT !.minute = CurrentMinute, ![outcome] = @ + 1]]

\* recordWindow: one bucket per minute modulo the window; a bucket left over
\* from an earlier minute is started afresh.
RecordWindow(entry, outcome) ==
    LET idx == CurrentMinute % WindowMinutes
        kept == entry.buckets[idx]
        bucket == IF kept.minute # CurrentMinute
                  THEN [minute |-> CurrentMinute, success |-> 0, failure |-> 0]
                  ELSE kept
    IN  [entry EXCEPT !.buckets[idx] = [bucket EXCEPT ![outcome] = @ + 1]]

\* windowTotals, for one kind of outcome
WindowTotal(entry, outcome) ==
    LET recent == {i \in DOMAIN entry.buckets :
                      entry.buckets[i].minute >= CurrentMinute - (WindowMinutes - 1)}
    IN  Total([i \in DOMAIN entry.buckets |-> entry.buckets[i][outcome]], recent)

\* updateUsageStats
UpdateUsageStats(entry) ==
    LET fresh == IF entry.minuteKey # CurrentMinute
                 THEN [entry EXCEPT !.minuteKey = CurrentMinute, !.tpm = 0, !.rpm = 0]
                 ELSE entry
    IN  [fresh EXCEPT !.tpm = @ + Tokens, !.rpm = @ + 1]

\* shouldCooldownByFailureRate
ShouldCooldownByFailureRate(entry, isSingle) ==
    LET failures == WindowTotal(entry, "failure")
        total == WindowTotal(entry, "success") + failures
    IN  /\ total > 0
        /\ IF isSingle
           THEN total >= SingleMinRequests /\ failures = total
           ELSE total >= MinRequests
                /\ failures * ThresholdDen > ThresholdNum * total

-----------------------------------------------------------------------------
\* Selection.  The filters work on the positions of a list of deployments, and
\* so keep its order.

\* What the statistics snapshot of request r holds for deployment d
EntryOf(r, d) == GetOrCreateStats(<<PickScopeOf[r], d>>)

\* getHealthyDeployments; a deployment without an entry is healthy.
GetHealthyDeployments(r, deps, at) ==
    {i \in at : now > EntryOf(r, deps[i]).cooldownUntil}

\* filterByTags
FilterByTags(r, deps, at) ==
    LET default == {i \in at : "default" \in TagsOf[deps[i]]}
        matched == {i \in at : TagsOf[deps[i]] \cap TagsOf[r] # {}}
    IN  IF TagsOf[r] # {} /\ matched # {} THEN matched
        ELSE IF default # {} THEN default
        ELSE IF TagsOf[r] = {} THEN at ELSE {}

\* The usage last recorded, whatever minute that was, leaves room for request r.
\* lowest-tpm-rpm has a test of its own, which counts no entry as no usage.
Fits(r, d) ==
    LET e == EntryOf(r, d)
    IN  IF Strategy = "lowest-tpm-rpm"
        THEN /\ TPMLimit > 0 => e.tpm + Tokens <= TPMLimit
             /\ RPMLimit > 0 => e.rpm + 1 < RPMLimit
        ELSE <<PickScopeOf[r], d>> \in DOMAIN stats =>
                 /\ TPMLimit > 0 => e.tpm + Tokens <= TPMLimit
                 /\ RPMLimit > 0 => e.rpm + 1 <= RPMLimit

\* filterByTPMRPM
FilterByTPMRPM(r, deps, at) == {i \in at : Fits(r, deps[i])}

\* filterByDefaultProvider, which round-robin does not apply
FilterByDefaultProvider(deps, at) ==
    LET preferred == {i \in at : ProviderOf[deps[i]] = DefaultProvider}
    IN  IF Strategy # "round-robin" /\ preferred # {} THEN preferred ELSE at

\* The positions whose deployment has the smallest value of a statistic
Least(r, deps, at, field) ==
    {i \in at : \A j \in at : EntryOf(r, deps[i])[field] <= EntryOf(r, deps[j])[field]}

\* The filters every strategy applies to the list of deployments
Eligible(r, deps) ==
    LET healthy == GetHealthyDeployments(r, deps, DOMAIN deps)
        tagged == IF Strategy = "tag-based" \/ (EnableTagFiltering /\ TagsOf[r] # {})
                  THEN FilterByTags(r, deps, healthy) ELSE healthy
    IN  FilterByDefaultProvider(deps, FilterByTPMRPM(r, deps, tagged))

\* nextIndex: the position that as many eligible ones precede as the counter says
NextIndex(at) ==
    {i \in at : Cardinality({j \in at : j < i}) = rrCounter % Cardinality(at)}

\* What PickWithContext may return.  Weights, prices and latencies are not
\* modelled: the strategies that compare them may return anything eligible.
Candidates(r, deps) ==
    LET eligible == Eligible(r, deps)
        chosen == CASE Strategy = "round-robin" -> NextIndex(eligible)
                    [] Strategy = "least-busy" -> Least(r, deps, eligible, "active")
                    [] Strategy = "lowest-tpm-rpm" -> Least(r, deps, eligible, "tpm")
                    [] OTHER -> eligible
    IN  {deps[i] : i \in chosen}

-----------------------------------------------------------------------------
Init ==
    /\ cfg \in Configs
    /\ deployments = Initial
    /\ stats = [k \in {""} \X {Initial[i] : i \in DOMAIN Initial} |-> NewStatsEntry]
    /\ rrCounter = 0
    /\ now = 0
    /\ pc = [r \in Requests |-> "idle"]
    /\ snapshot = [r \in Requests |-> <<>>]
    /\ picked = [r \in Requests |-> None]
    /\ single = [r \in Requests |-> FALSE]
    /\ log = [k \in Keys |-> NoOutcomes]
    /\ reports = 0
    /\ admin = 0

Goto(r, where) == pc' = [pc EXCEPT ![r] = where]

\* snapshotDeployments
PickSnapshot(r) ==
    /\ pc[r] = "idle" /\ reports < MaxReports
    /\ deployments # <<>>
    /\ snapshot' = [snapshot EXCEPT ![r] = deployments]
    /\ reports' = reports + 1
    /\ Goto(r, "picking")
    /\ UNCHANGED <<deployments, stats, rrCounter, now, picked, single, log, admin>>

\* statsSnapshot and the selection from it
PickSelect(r) ==
    /\ pc[r] = "picking"
    /\ \E d \in Candidates(r, snapshot[r]) : picked' = [picked EXCEPT ![r] = d]
    /\ rrCounter' = IF Strategy = "round-robin" THEN rrCounter + 1 ELSE rrCounter
    /\ snapshot' = [snapshot EXCEPT ![r] = <<>>]
    /\ Goto(r, "picked")
    /\ UNCHANGED <<deployments, stats, now, single, log, reports, admin>>

\* ErrNoAvailableDeployment or ErrNoDeploymentsWithTag
PickFail(r) ==
    /\ pc[r] = "picking"
    /\ Candidates(r, snapshot[r]) = {}
    /\ snapshot' = [snapshot EXCEPT ![r] = <<>>]
    /\ Goto(r, "idle")
    /\ UNCHANGED <<deployments, stats, rrCounter, now, picked, single, log,
                   reports, admin>>

ReportRequestStart(r) ==
    LET key == LocalStatsKey(r, picked[r])
    IN  /\ pc[r] = "picked"
        /\ stats' = StoreStats(key, [GetOrCreateStats(key) EXCEPT !.active = @ + 1])
        /\ Goto(r, "started")
        /\ UNCHANGED <<deployments, rrCounter, now, snapshot, picked, single, log,
                       reports, admin>>

\* The client gives up a deployment it picked before it starts the request: no
\* permit is free, or no price is known.
Abandon(r) ==
    /\ pc[r] = "picked"
    /\ picked' = [picked EXCEPT ![r] = None]
    /\ Goto(r, "idle")
    /\ UNCHANGED <<deployments, stats, rrCounter, now, snapshot, single, log,
                   reports, admin>>

\* The counts c with an outcome of each of kinds more in minute m
Counted(c, kinds, m) ==
    [o \in Outcomes |-> IF o \in kinds THEN [c[o] EXCEPT ![m] = @ + 1] ELSE c[o]]

\* An outcome is added to the log that the entry of key summarises.
Log(key, kinds) == log' = [log EXCEPT ![key] = Counted(@, kinds, CurrentMinute)]

ReportSuccess(r) ==
    LET key == LocalStatsKey(r, picked[r])
    IN  /\ pc[r] = "started"
        /\ stats' = StoreStats(key,
               UpdateUsageStats(RecordWindow(GetOrCreateStats(key), "success")))
        /\ Log(key, {"success"})
        /\ Goto(r, "reported")
        /\ UNCHANGED <<deployments, rrCounter, now, snapshot, picked, single,
                       reports, admin>>

\* ReportFailure asks isSingleDeployment before it takes the lock.
ReportFailureRead(r) ==
    /\ pc[r] = "started"
    /\ single' = [single EXCEPT ![r] = Len(deployments) = 1]
    /\ Goto(r, "failing")
    /\ UNCHANGED <<deployments, stats, rrCounter, now, snapshot, picked, log,
                   reports, admin>>

\* Mutant: a 429 cools down the only deployment of a model.
EntersCooldown_EvenIfSingle(entry, isSingle, status) ==
    \/ status = "429" /\ ImmediateCooldownOn429
    \/ status = "401"
    \/ ShouldCooldownByFailureRate(entry, isSingle)

\* "401" stands for 401, 404 and 408; "500" for any other error.
EntersCooldown(entry, isSingle, status) ==
    \/ status = "429" /\ ImmediateCooldownOn429 /\ ~isSingle
    \/ status = "401"
    \/ ShouldCooldownByFailureRate(entry, isSingle)

ReportFailure(r, status) ==
    LET key == LocalStatsKey(r, picked[r])
        entry == RecordWindow(GetOrCreateStats(key), "failure")
    IN  /\ pc[r] = "failing"
        /\ stats' = StoreStats(key,
               IF EntersCooldown(entry, single[r], status)
               THEN [entry EXCEPT !.cooldownUntil = now + CooldownPeriod]
               ELSE entry)
        /\ Log(key, {"failure", status})
        /\ single' = [single EXCEPT ![r] = FALSE]
        /\ Goto(r, "reported")
        /\ UNCHANGED <<deployments, rrCounter, now, snapshot, picked, reports,
                       admin>>

\* Mutant: ReportRequestEnd leaves the request counted.
ReportRequestEnd_StaysActive(r) ==
    /\ pc[r] = "reported"
    /\ picked' = [picked EXCEPT ![r] = None]
    /\ Goto(r, "idle")
    /\ UNCHANGED <<deployments, stats, rrCounter, now, snapshot, single, log,
                   reports, admin>>

ReportRequestEnd(r) ==
    LET key == LocalStatsKey(r, picked[r])
        entry == GetOrCreateStats(key)
    IN  /\ pc[r] = "reported"
        /\ stats' = StoreStats(key,
               [entry EXCEPT !.active = IF @ > 0 THEN @ - 1 ELSE @])
        /\ picked' = [picked EXCEPT ![r] = None]
        /\ Goto(r, "idle")
        /\ UNCHANGED <<deployments, rrCounter, now, snapshot, single, log,
                       reports, admin>>

-----------------------------------------------------------------------------
\* Administration

\* What is forgotten with the statistics entry of d
Forget(d) == log' = [log EXCEPT ![<<"", d>>] = NoOutcomes]

\* AddDeploymentWithConfig; the client adds no provider that exists.
AddDeployment(d) ==
    /\ admin < MaxAdmin
    /\ \A i \in DOMAIN deployments : deployments[i] # d
    /\ deployments' = Append(deployments, d)
    /\ stats' = StoreStats(<<"", d>>, NewStatsEntry)
    /\ Forget(d)
    /\ admin' = admin + 1
    /\ UNCHANGED <<rrCounter, now, locals, reports>>

\* RemoveDeployment drops the first occurrence of d and the entry that belongs
\* to no tenant.
RemoveDeployment(d) ==
    /\ admin < MaxAdmin
    /\ \E i \in DOMAIN deployments :
           /\ deployments[i] = d /\ \A j \in 1..(i - 1) : deployments[j] # d
           /\ deployments' = SubSeq(deployments, 1, i - 1)
                                \o SubSeq(deployments, i + 1, Len(deployments))
    /\ stats' = [k \in DOMAIN stats \ {<<"", d>>} |-> stats[k]]
    /\ Forget(d)
    /\ admin' = admin + 1
    /\ UNCHANGED <<rrCounter, now, locals, reports>>

\* SetCooldown; the zero time clears it.
SetCooldown(d, until) ==
    /\ admin < MaxAdmin
    /\ stats' = StoreStats(<<"", d>>,
           [GetOrCreateStats(<<"", d>>) EXCEPT !.cooldownUntil = until])
    /\ admin' = admin + 1
    /\ UNCHANGED <<deployments, rrCounter, now, locals, log, reports>>

Tick ==
    /\ now < MaxTime
    /\ now' = now + 1
    /\ UNCHANGED <<deployments, stats, rrCounter, locals, log, reports, admin>>

Request(r) ==
    \/ PickSnapshot(r) \/ PickSelect(r) \/ PickFail(r)
    \/ ReportRequestStart(r) \/ Abandon(r)
    \/ ReportSuccess(r) \/ ReportFailureRead(r)
    \/ \E status \in Statuses : ReportFailure(r, status)
    \/ ReportRequestEnd(r)

Administer(d) ==
    \/ AddDeployment(d) \/ RemoveDeployment(d)
    \/ \E until \in {Never, now + 2 * CooldownPeriod} : SetCooldown(d, until)

Next ==
    /\ \/ \E r \in Requests : Request(r)
       \/ \E d \in Administered : Administer(d)
       \/ Tick
    /\ UNCHANGED cfg

Spec == Init /\ [][Next]_vars

-----------------------------------------------------------------------------
\* Properties

\* The outcomes of one kind reported for key in the window of minutes that ends
\* with minute m
Reported(key, kind, m) ==
    Total(log[key][kind], {i \in Minutes : i <= m /\ i > m - WindowMinutes})

\* windowTotals, computed from a ring of buckets that recordWindow reuses,
\* counts exactly the outcomes reported in the last WindowMinutes minutes: no
\* bucket of an earlier round is counted and none of this round is lost.
WindowExact ==
    \A k \in DOMAIN stats :
        \A kind \in {"success", "failure"} :
            WindowTotal(stats[k], kind) = Reported(k, kind, CurrentMinute)

\* The requests between ReportRequestStart and ReportRequestEnd under key
InFlight(key) ==
    {r \in Requests : /\ pc[r] \in {"started", "failing", "reported"}
                      /\ LocalStatsKey(r, picked[r]) = key}

\* ActiveRequests never counts a request that is over, so least-busy never
\* avoids a deployment for ever; it is the exact number of requests in flight
\* as long as no deployment is added or removed under them.
ActiveCountsInFlight ==
    \A k \in DOMAIN stats :
        /\ stats[k].active <= Cardinality(InFlight(k))
        /\ admin = 0 => stats[k].active = Cardinality(InFlight(k))

\* A deployment is in cooldown only for a reason that ReportFailure names, in
\* the window that ended when the cooldown began: an immediate status, or more
\* failures than the threshold allows; and a model's only deployment is spared
\* the 429s and cooled down by failures only when SingleMinRequests have failed.
CooldownJustified ==
    \A k \in DOMAIN stats :
        LET m == (stats[k].cooldownUntil - CooldownPeriod) \div MinuteTicks
            failures == Reported(k, "failure", m)
            isSingle == Len(deployments) = 1
        IN  stats[k].cooldownUntil # Never /\ admin = 0 =>
                \/ log[k]["401"][m] > 0
                \/ log[k]["429"][m] > 0 /\ ImmediateCooldownOn429 /\ ~isSingle
                \/ IF isSingle THEN failures >= SingleMinRequests
                   ELSE failures * ThresholdDen > ThresholdNum * MinRequests

\* The usage filters compare with what has completed, so concurrent requests
\* can pass a deployment's limit; but by no more than the other requests that
\* were in flight when it was reached, if requests pick and report alike.
OvershootBounded ==
    RPMLimit > 0 /\ PickScopeOf = ScopeOf =>
        \A k \in DOMAIN stats : stats[k].rpm <= RPMLimit - 1 + Cardinality(Requests)

\* The load that a request is judged by: active counts that return to what is
\* in flight, and limits passed by no more than the requests that were judged
\* at the same time.
LoadAccounted == ActiveCountsInFlight /\ OvershootBounded

=============================================================================
