----------------------------- MODULE Governance -----------------------------
(***************************************************************************)
(* The governance engine (internal/governance): Evaluate admits a request  *)
(* on the spend its authentication and its resolution read, the handler    *)
(* runs it, and Account writes the usage log and charges every ledger the  *)
(* request's identity names, in the engine's order, once per request ID    *)
(* and idempotency window.  The store, the idempotency store and the       *)
(* configuration change between any two steps of a request.                *)
(*                                                                         *)
(* All requests carry the same identity, the worst case for the ledgers    *)
(* they share, and the same model.  The decisions the spend does not       *)
(* enter (model access, blocked end users, the rate limiter) are           *)
(* nondeterministic refusals.                                              *)
(***************************************************************************)
EXTENDS Integers, Sequences, FiniteSets

CONSTANT Settings   \* the engines, identities and requests that are considered

VARIABLE set        \* the settings of this engine

Requests == set.Requests        \* HTTP requests, each sent once
RequestID == set.RequestID      \* a client that retries reuses the id
Cost == set.Cost                \* Usage.Cost of the answer
MaxCost == set.MaxCost          \* no answer costs more
Identity == set.Identity        \* the entities behind the credentials
MaxBudget == set.MaxBudget      \* budget of a ledger, 0 for none
Connections == set.Connections  \* bound: requests in a handler at the same time
Configs == set.Configs          \* configurations a reload may install
FirstConfig == set.FirstConfig  \* the configuration the engine is built with
MaxUpdates == set.MaxUpdates    \* bound: configuration updates
MaxClock == set.MaxClock        \* bound: time
MayFail == set.MayFail          \* store and idempotency writes may fail

\* What a store read returns for an entity: its total and per-model spend.
LedgersOf ==
    [key |-> {"key", "keyModel"}, team |-> {"team", "teamModel"},
     user |-> {"user", "userModel"}, org |-> {"org"}, endUser |-> {"endUser"}]

\* The spend updates of account, in order, with the identities each needs.
Updates ==
    << [ledger |-> "key", needs |-> {"key"}],
       [ledger |-> "keyModel", needs |-> {"key"}],
       [ledger |-> "team", needs |-> {"team"}],
       [ledger |-> "teamModel", needs |-> {"team"}],
       [ledger |-> "user", needs |-> {"user"}],
       [ledger |-> "membership", needs |-> {"user", "team"}],
       [ledger |-> "org", needs |-> {"org"}],
       [ledger |-> "orgMembership", needs |-> {"org", "user"}],
       [ledger |-> "endUser", needs |-> {"endUser"}] >>

Ledgers == {"userModel"} \cup {Updates[i].ledger : i \in DOMAIN Updates}

\* The updates an account call makes for this identity.
Charges == {i \in DOMAIN Updates : Updates[i].needs \subseteq Identity}

\* The middleware reads key and team, Evaluate the rest, in this order.
ReadOf(e) == IF e \in Identity THEN <<e>> ELSE <<>>
MiddlewareReads == ReadOf("key") \o ReadOf("team")
ResolveReads == ReadOf("user") \o ReadOf("org") \o ReadOf("endUser")

Ids == {RequestID[r] : r \in Requests}

ASSUME GovernanceAssumption ==
    \A s \in Settings :
        /\ IsFiniteSet(s.Requests) /\ s.Cost \in [s.Requests -> Nat]
        /\ DOMAIN s.RequestID = s.Requests
        /\ s.MaxCost \in Nat /\ \A r \in s.Requests : s.Cost[r] <= s.MaxCost
        /\ s.MaxBudget \in [Ledgers -> Nat] /\ s.Identity \subseteq DOMAIN LedgersOf
        /\ s.Connections \in Nat \ {0} /\ {s.MaxUpdates, s.MaxClock} \subseteq Nat
        /\ s.MayFail \in BOOLEAN /\ s.FirstConfig \in s.Configs
        /\ s.Configs \subseteq [enabled : BOOLEAN, async : BOOLEAN, window : Nat]

VARIABLES
    config,     \* Engine.config
    updates,    \* configuration updates so far
    clock,
    entries,    \* idempotency store: id -> expiry time, 0 if there is none
    spent,      \* the store's ledgers
    logged,     \* requests with a usage log row
    pc,         \* what the handler of a request is doing
    reads,      \* entities the handler still has to read
    seen,       \* spend the handler read, by ledger
    acct,       \* what the account call of a request is doing
    step,       \* its latest spend update, 0 if it has made none
    accepted,   \* when PutIfAbsent recorded the request's id, 0 if it did not
    failed      \* some write of an account call failed

vars == <<set, config, updates, clock, entries, spent, logged, pc, reads, seen,
          acct, step, accepted, failed>>
store == <<spent, logged, failed>>
account == <<acct, step, accepted>>
environment == <<config, updates, clock>>

Init ==
    /\ set \in Settings
    /\ config = FirstConfig /\ updates = 0 /\ clock = 1
    /\ entries = [i \in Ids |-> 0]
    /\ spent = [l \in Ledgers |-> 0] /\ logged = {} /\ failed = FALSE
    /\ pc = [r \in Requests |-> "new"]
    /\ reads = [r \in Requests |-> <<>>]
    /\ seen = [r \in Requests |-> [l \in Ledgers |-> 0]]
    /\ acct = [r \in Requests |-> "none"]
    /\ step = [r \in Requests |-> 0]
    /\ accepted = [r \in Requests |-> 0]

InHandler == {r \in Requests : pc[r] \notin {"new", "done"}}

-----------------------------------------------------------------------------
(* Admission.                                                              *)

\* A connection delivers the request to the authentication middleware.
Authenticate(r) ==
    /\ pc[r] = "new"
    /\ Cardinality(InHandler) < Connections
    /\ pc' = [pc EXCEPT ![r] = "authenticate"]
    /\ reads' = [reads EXCEPT ![r] = MiddlewareReads]
    /\ UNCHANGED <<environment, entries, store, seen, account>>

\* One store read of the middleware or of resolveEntities.
ReadEntity(r) ==
    /\ reads[r] # <<>>
    /\ seen' = [seen EXCEPT ![r] =
           [l \in Ledgers |-> IF l \in LedgersOf[Head(reads[r])]
                              THEN spent[l] ELSE @[l]]]
    /\ reads' = [reads EXCEPT ![r] = Tail(@)]
    /\ UNCHANGED <<environment, entries, store, pc, account>>

\* The middleware or Evaluate refuses: a failed read, a blocked entity, no
\* access to the model, no rate-limit token.
Refuse(r) ==
    /\ pc[r] \in {"authenticate", "resolve"}
    /\ pc' = [pc EXCEPT ![r] = "done"]
    /\ reads' = [reads EXCEPT ![r] = <<>>]
    /\ UNCHANGED <<environment, entries, store, seen, account>>

\* Evaluate loads the configuration: a disabled engine lets everything pass.
EvaluateBegin(r) ==
    /\ pc[r] = "authenticate" /\ reads[r] = <<>>
    /\ IF config.enabled
       THEN /\ pc' = [pc EXCEPT ![r] = "resolve"]
            /\ reads' = [reads EXCEPT ![r] = ResolveReads]
       ELSE /\ pc' = [pc EXCEPT ![r] = "run"]
            /\ UNCHANGED reads
    /\ UNCHANGED <<environment, entries, store, seen, account>>

\* Mutant: a budget that is spent exactly still admits.
IsOverBudget_OffByOne(r, l) == MaxBudget[l] > 0 /\ seen[r][l] > MaxBudget[l]

IsOverBudget(r, l) == MaxBudget[l] > 0 /\ seen[r][l] >= MaxBudget[l]

\* checkBudgets, on what was read for this request.
CheckBudgets(r) ==
    /\ pc[r] = "resolve" /\ reads[r] = <<>>
    /\ LET checked == UNION {LedgersOf[e] : e \in Identity}
           over == \E l \in checked : IsOverBudget(r, l)
       IN  pc' = [pc EXCEPT ![r] = IF over THEN "done" ELSE "run"]
    /\ UNCHANGED <<environment, entries, store, reads, seen, account>>

-----------------------------------------------------------------------------
(* Accounting.                                                             *)

\* The upstream call fails: the handler answers the error, nothing is charged.
RunFails(r) ==
    /\ pc[r] = "run"
    /\ pc' = [pc EXCEPT ![r] = "done"]
    /\ UNCHANGED <<environment, entries, store, reads, seen, account>>

\* The upstream call succeeds and the handler calls Account, which returns at
\* once when it is disabled or asynchronous.
Account(r) ==
    /\ pc[r] = "run"
    /\ acct' = [acct EXCEPT ![r] = IF config.enabled THEN "put" ELSE "ended"]
    /\ pc' = [pc EXCEPT ![r] =
           IF config.enabled /\ ~config.async THEN "account" ELSE "done"]
    /\ UNCHANGED <<environment, entries, store, reads, seen, step, accepted>>

\* The synchronous account call returns to the handler, which answers.
Answer(r) ==
    /\ pc[r] = "account" /\ acct[r] = "ended"
    /\ pc' = [pc EXCEPT ![r] = "done"]
    /\ UNCHANGED <<environment, entries, store, reads, seen, account>>

\* Mutant: an entry is forgotten one tick early.
Live_OffByOne(id) == entries[id] > clock + 1

Live(id) == entries[id] > clock

\* The engine has an idempotency store only if it was built with a window.
Idempotent == FirstConfig.window > 0 /\ config.window > 0

PutIfAbsent(r) ==
    /\ acct[r] = "put"
    /\ IF ~Idempotent
       THEN acct' = [acct EXCEPT ![r] = "log"] /\ UNCHANGED <<entries, accepted>>
       ELSE IF Live(RequestID[r])
       THEN acct' = [acct EXCEPT ![r] = "ended"] /\ UNCHANGED <<entries, accepted>>
       ELSE /\ entries' = [entries EXCEPT ![RequestID[r]] = clock + config.window]
            /\ accepted' = [accepted EXCEPT ![r] = clock]
            /\ acct' = [acct EXCEPT ![r] = "log"]
    /\ UNCHANGED <<environment, store, pc, reads, seen, step>>

\* PutIfAbsent returns an error, whether or not the key was set: account goes on.
PutFails(r) ==
    /\ MayFail /\ acct[r] = "put" /\ Idempotent
    /\ \/ UNCHANGED entries
       \/ /\ ~Live(RequestID[r])
          /\ entries' = [entries EXCEPT ![RequestID[r]] = clock + config.window]
    /\ acct' = [acct EXCEPT ![r] = "log"]
    /\ UNCHANGED <<environment, store, pc, reads, seen, step, accepted>>

\* LogUsage; a failure is logged and ignored.  A free request charges nothing.
LogUsage(r) ==
    /\ acct[r] = "log"
    /\ \/ logged' = logged \cup {r} /\ UNCHANGED failed
       \/ MayFail /\ failed' = TRUE /\ UNCHANGED logged
    /\ acct' = [acct EXCEPT ![r] =
           IF Cost[r] > 0 /\ Charges # {} THEN "charge" ELSE "ended"]
    /\ UNCHANGED <<environment, entries, spent, pc, reads, seen, step, accepted>>

\* The updates that the account call of a request has still to make.
Remaining(r) == {i \in Charges : i > step[r]}

\* One spend update, the next in order; a failure is logged and the one after it
\* is made.
Charge(r) ==
    /\ acct[r] = "charge"
    /\ \E i \in Remaining(r) :
          /\ \A j \in Remaining(r) : i <= j
          /\ \/ /\ spent' = [spent EXCEPT ![Updates[i].ledger] = @ + Cost[r]]
                /\ UNCHANGED failed
             \/ MayFail /\ failed' = TRUE /\ UNCHANGED spent
          /\ step' = [step EXCEPT ![r] = i]
          /\ acct' = [acct EXCEPT ![r] =
                 IF Remaining(r) = {i} THEN "ended" ELSE "charge"]
    /\ UNCHANGED <<environment, entries, logged, pc, reads, seen, accepted>>

-----------------------------------------------------------------------------
\* Engine.UpdateConfig, from the configuration manager's OnChange.
UpdateConfig(c) ==
    /\ updates < MaxUpdates /\ c # config
    /\ config' = c /\ updates' = updates + 1
    /\ UNCHANGED <<clock, entries, store, pc, reads, seen, account>>

Tick ==
    /\ clock < MaxClock
    /\ clock' = clock + 1
    /\ UNCHANGED <<config, updates, entries, store, pc, reads, seen, account>>

Next ==
    /\ \/ \E r \in Requests :
            \/ Authenticate(r) \/ ReadEntity(r) \/ Refuse(r) \/ EvaluateBegin(r)
            \/ CheckBudgets(r) \/ RunFails(r) \/ Account(r) \/ Answer(r)
            \/ PutIfAbsent(r) \/ PutFails(r) \/ LogUsage(r) \/ Charge(r)
       \/ \E c \in Configs : UpdateConfig(c)
       \/ Tick
    /\ UNCHANGED set

Spec == Init /\ [][Next]_vars

-----------------------------------------------------------------------------
(* Properties.                                                             *)

\* checkBudgets against concurrent requests: a budget is checked on a spend
\* read earlier and charged after the answer, so it can be overrun, but with
\* synchronous accounting by no more than what the requests that are in a
\* handler at the same time cost.
OvershootBounded ==
    (\A c \in Configs : c.enabled /\ ~c.async) =>
    \A l \in (Ledgers \ {"userModel", "membership", "orgMembership"}) :
        (\E e \in Identity : l \in LedgersOf[e]) /\ MaxBudget[l] > 0 =>
            spent[l] <= (MaxBudget[l] - 1) + Connections * MaxCost

\* The sum of the amounts c[r] for r in S, as the number of units they hold
Units(c, S) == UNION {{r} \X (1..c[r]) : r \in S}
Total(c, S) == Cardinality(Units(c, S))

Quiescent == \A r \in Requests : acct[r] \in {"none", "ended"}

\* account: whenever no account call is under way and no write has failed, the
\* usage log and every ledger of the identity tell the same total, whatever
\* the interleaving, the duplicates and the configuration updates were.
BooksBalance ==
    Quiescent /\ ~failed =>
        \A i \in Charges : spent[Updates[i].ledger] = Total(Cost, logged)

\* IdempotencyStore: two requests with the same ID are both recorded by
\* PutIfAbsent only if a whole window, of one of the configurations, lies
\* between them.
OncePerWindow ==
    \A r, s \in Requests :
        RequestID[r] = RequestID[s] /\ 0 < accepted[r] /\ accepted[r] <= accepted[s]
            /\ r # s
        => \E c \in Configs : c.window > 0 /\ accepted[s] - accepted[r] >= c.window

\* Accounting is exact: ledgers and usage log agree when no account call is under way
\* and no write failed, and one request ID is recorded once in an idempotency window.
AccountsExact == BooksBalance /\ OncePerWindow

=============================================================================
