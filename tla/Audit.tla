-------------------------------- MODULE Audit --------------------------------
(***************************************************************************)
(* The audit log (internal/auth/audit.go, audit_memory.go,                 *)
(* audit_postgres.go) and its endpoints (internal/api/audit_endpoints.go). *)
(* Entries are written by the governance engine when a budget is exceeded  *)
(* and by the control endpoints; the time of an entry is taken before it   *)
(* is stored, so entries are not stored in the order of their times.  The  *)
(* page of a listing and its total, and the three groups of figures of the *)
(* statistics, are statements of their own over PostgreSQL.                *)
(***************************************************************************)
EXTENDS Endpoints, Sequences
LOCAL INSTANCE Functions

VARIABLES
    log,        \* the entries, in the order they were stored: [id, at, action, object, success]
    written,    \* entries created so far, stored or not; an identifier is never used twice
    changes     \* history: entries stored or deleted so far

auditVars == <<log, written, changes>>

AuditInit == log = <<>> /\ written = 0 /\ changes = 0

Ids(s) == {s[i].id : i \in 1..Len(s)}
Entries == {log[i] : i \in 1..Len(log)}

----------------------------------------------------------------------------
(* Writing. *)

(* Caller c has an entry to store; at is Nil when the store is to set the time. *)
Log(c, op, action, object, success, at) ==
    /\ Free(c, op) /\ written < set.MaxLogs
    /\ written' = written + 1
    /\ call' = [call EXCEPT ![c] = Holding("Log", "create", None, None,
                   [id |-> written + 1, at |-> at, action |-> action, object |-> object,
                    success |-> success])]
    /\ UNCHANGED <<db, faults, ideal, log, changes>>

(* Engine.auditBudgetExceeded, through LogAction, which takes the time. *)
AuditBudgetExceeded(c) ==
    \E object \in set.Objects : Log(c, "auditBudgetExceeded", "budget_exceeded", object, FALSE, now)

(* auditControlAction (cooldowns and reloads), which leaves the time to the store: under its lock
   in memory, before the statement over PostgreSQL. *)
AuditControlAction(c) ==
    \E success \in BOOLEAN :
        Log(c, "auditControlAction", "config_update", "config", success, IF Memory THEN Nil ELSE now)

(* CreateAuditLog; a failure is logged by the engine and ignored by the endpoints. *)
CreateAuditLogMemory(c) ==
    /\ Memory /\ At(c, "Log", "create")
    /\ log' = Append(log, [call[c].arg EXCEPT !.at = IF @ = Nil THEN now ELSE @])
    /\ changes' = changes + 1
    /\ call' = [call EXCEPT ![c] = Idle]
    /\ UNCHANGED <<db, faults, ideal, written>>

CreateAuditLogPostgres(c) ==
    /\ ~ Memory /\ At(c, "Log", "create")
    /\ \/ /\ log' = Append(log, call[c].arg)
          /\ changes' = changes + 1 /\ UNCHANGED faults
       \/ /\ MayFail /\ faults' = faults + 1
          /\ UNCHANGED <<log, changes>>
    /\ call' = [call EXCEPT ![c] = Idle]
    /\ UNCHANGED <<db, ideal, written>>

(* DeleteAuditLogs of the memory store, and the statement of the other: what is older than cutoff. *)
DeleteAuditLogsMemory(cutoff) == SelectSeq(log, LAMBDA e : ~ (e.at < cutoff))
DeleteAuditLogsPostgres(cutoff) == SelectSeq(log, LAMBDA e : e.at >= cutoff)

(* POST /audit/delete: older_than_days must be positive. *)
DeleteAuditLogs(c) ==
    /\ Free(c, "DeleteAuditLogs")
    /\ LET cutoff == now - Day
           rest == IF Memory THEN DeleteAuditLogsMemory(cutoff) ELSE DeleteAuditLogsPostgres(cutoff)
       IN /\ rest # log
          /\ log' = rest /\ changes' = changes + Len(log) - Len(rest)
    /\ UNCHANGED <<db, faults, ideal, call, written>>

----------------------------------------------------------------------------
(* Reading.  A filter names an action, or None, and a range of times, Nil when open. *)

(* MemoryAuditLogStore.matchesFilter *)
MatchesFilter(e, f) ==
    /\ f.start # Nil => e.at >= f.start
    /\ f.end # Nil => e.at <= f.end
    /\ f.action # None => e.action = f.action

Matching(f) == SelectSeq(log, LAMBDA e : MatchesFilter(e, f))

(* The bubble sort of MemoryAuditLogStore.ListAuditLogs: most recent first, and entries of one
   time in the order they were stored, since only strictly older entries move back. *)
Rank(s, i) == Cardinality({j \in 1..Len(s) : s[j].at > s[i].at \/ (s[j].at = s[i].at /\ j <= i)})
SortRecent_OldestFirst(s) == [k \in 1..Len(s) |-> s[CHOOSE i \in 1..Len(s) : Rank(s, i) = Len(s) + 1 - k]]
SortRecent(s) == [k \in 1..Len(s) |-> s[CHOOSE i \in 1..Len(s) : Rank(s, i) = k]]

Page(s, offset, limit) == SubSeq(s, offset + 1, IF offset + limit < Len(s) THEN offset + limit ELSE Len(s))

(* What ListAuditLogs may return: one page in memory, and over PostgreSQL a page of any order
   that has the most recent first. *)
ListAuditLogsMemory(f, offset, limit) == {Page(SortRecent(Matching(f)), offset, limit)}
ListAuditLogsPostgres(f, offset, limit) ==
    LET m == Matching(f)
        orders == {p \in [1..Len(m) -> {m[i] : i \in 1..Len(m)}] :
                      /\ \A i, j \in 1..Len(m) : i < j => p[i] # p[j] /\ p[i].at >= p[j].at}
    IN {Page(p, offset, limit) : p \in orders}
ListAuditLogs(f, offset) ==
    IF Memory THEN ListAuditLogsMemory(f, offset, set.Limit) ELSE ListAuditLogsPostgres(f, offset, set.Limit)

(* GET /audit/logs, and a reader that asks for one page after the other until a page is short.
   seen are the entries it was shown, must those that its filter matched when it began. *)
ListBegin(c) ==
    /\ Free(c, "ListAuditLogs")
    /\ \E action \in {None} \cup set.Actions, start \in {Nil} \cup set.Starts :
          LET f == [action |-> action, start |-> start, end |-> Nil]
          IN call' = [call EXCEPT ![c] = Holding("ListAuditLogs", "page", None, None,
                         [filter |-> f, offset |-> 0, seen |-> {}, must |-> Ids(Matching(f))])]
    /\ UNCHANGED <<db, faults, ideal, auditVars>>

ListPage(c) ==
    /\ At(c, "ListAuditLogs", "page")
    /\ \E result \in ListAuditLogs(call[c].arg.filter, call[c].arg.offset) :
          Query(c, result, LAMBDA page :
              IF page = Error THEN Idle
              ELSE [call[c] EXCEPT !.pc = IF Len(page) < set.Limit THEN "end" ELSE "page",
                                   !.arg.offset = @ + set.Limit,
                                   !.arg.seen = @ \cup Ids(page)])
    /\ UNCHANGED auditVars

(* GetAuditLogStats: the figures for the last day.  The memory store counts in one pass and
   applies the whole filter; over PostgreSQL the action is not part of the WHERE clause. *)
Count(f, Of(_)) == Len(SelectSeq(Matching(f), Of))
StatsFilter(f) == IF Memory THEN f ELSE [f EXCEPT !.action = None]
Total(f) == Len(Matching(StatsFilter(f)))
ByOutcome(f) == [ok \in BOOLEAN |-> Count(StatsFilter(f), LAMBDA e : e.success = ok)]
ByObject(f) == [o \in {"api_key", "team", "config"} |-> Count(StatsFilter(f), LAMBDA e : e.object = o)]
ByAction(f) == [a \in set.Actions |-> Count(StatsFilter(f), LAMBDA e : e.action = a)]

(* GET /audit/stats.  Over PostgreSQL the counts by action and by object type are
   statements of their own. *)
StatsBegin(c) ==
    /\ Free(c, "GetAuditLogStats")
    /\ \E action \in {None} \cup set.Actions :
          LET f == [action |-> action, start |-> now - Day, end |-> now]
          IN Query(c, Total(f), LAMBDA total :
                IF total = Error THEN Idle
                ELSE Holding("GetAuditLogStats", IF Memory THEN "end" ELSE "actions", None, None,
                             [filter |-> f, since |-> changes, total |-> total, outcomes |-> ByOutcome(f),
                              actions |-> ByAction(f), objects |-> ByObject(f)]))
    /\ UNCHANGED auditVars

StatsActions(c) ==
    /\ At(c, "GetAuditLogStats", "actions")
    /\ Query(c, ByAction(call[c].arg.filter), LAMBDA counts :
          IF counts = Error THEN Idle ELSE [Step(c, "objects") EXCEPT !.arg.actions = counts])
    /\ UNCHANGED auditVars

StatsObjects(c) ==
    /\ At(c, "GetAuditLogStats", "objects")
    /\ Query(c, ByObject(call[c].arg.filter), LAMBDA counts :
          IF counts = Error THEN Idle ELSE [Step(c, "end") EXCEPT !.arg.objects = counts])
    /\ UNCHANGED auditVars

ReadEnd(c) ==
    /\ At(c, "ListAuditLogs", "end") \/ At(c, "GetAuditLogStats", "end")
    /\ call' = [call EXCEPT ![c] = Idle]
    /\ UNCHANGED <<db, faults, ideal, auditVars>>

AuditRequest(c) ==
    \/ AuditBudgetExceeded(c) \/ AuditControlAction(c)
    \/ CreateAuditLogMemory(c) \/ CreateAuditLogPostgres(c) \/ DeleteAuditLogs(c)
    \/ ListBegin(c) \/ ListPage(c) \/ StatsBegin(c) \/ StatsActions(c) \/ StatsObjects(c) \/ ReadEnd(c)

----------------------------------------------------------------------------
(* A reader that pages through the log to its end misses no entry that its filter matched from
   beginning to end, whatever is stored and deleted meanwhile: new entries may show an entry
   twice, but push none out of sight, and deletions take the oldest.  Over PostgreSQL this needs
   an entry to have a time of its own, as ORDER BY timestamp leaves the order of the others open. *)
PagesMissNothing(c) == At(c, "ListAuditLogs", "end") =>
    \A e \in Entries : \/ e.id \notin call[c].arg.must
                       \/ e.id \in call[c].arg.seen
                       \/ ~ Memory /\ \E d \in Entries : d.id # e.id /\ d.at = e.at

(* The figures of one statistics request agree with one another up to the entries that were
   stored or deleted while it ran, over PostgreSQL; in memory they agree. *)
FiguresAgree(c) == At(c, "GetAuditLogStats", "end") =>
    LET a == call[c].arg
        slack == IF Memory THEN 0 ELSE changes - a.since
    IN /\ a.outcomes[TRUE] + a.outcomes[FALSE] = a.total
       /\ SumFunction(a.actions) - a.total \in -slack..slack
       /\ SumFunction(a.objects) - a.total \in -slack..slack

(* What the audit endpoints tell a reader, while others write and delete: pages that miss nothing,
   and figures that agree. *)
AuditReadsAgree == \A c \in set.Callers : PagesMissNothing(c) /\ FiguresAgree(c)
==============================================================================
