-------------------------- MODULE Governance_proof --------------------------
(***************************************************************************)
(* How far a budget can be overrun, that the ledgers and the usage log     *)
(* agree, and how often one request ID is accounted, for every number of   *)
(* requests and connections, all costs, budgets and identities, and every  *)
(* configuration that a reload installs.                                   *)
(***************************************************************************)
EXTENDS Governance, FiniteSetTheorems, TLAPS

USE SMTT(30)

Entities == {"key", "team", "user", "org", "endUser"}

TypeOK ==
    /\ set \in Settings
    /\ config \in Configs /\ clock \in Nat
    /\ entries \in [Ids -> Nat] /\ accepted \in [Requests -> Nat]
    /\ spent \in [Ledgers -> Nat]
    /\ pc \in [Requests -> {"new", "authenticate", "resolve", "run", "account", "done"}]
    /\ reads \in [Requests -> Seq(Entities)]
    /\ seen \in [Requests -> [Ledgers -> Nat]]
    /\ acct \in [Requests -> {"none", "put", "log", "charge", "ended"}]
    /\ step \in [Requests -> 0..9]

-----------------------------------------------------------------------------
\* Idempotency

\* An entry outlives its request by the window of a configuration.
EntriesLast ==
    \A r \in Requests :
        /\ accepted[r] <= clock
        /\ accepted[r] > 0 =>
               \E c \in Configs : /\ c.window > 0
                                  /\ entries[RequestID[r]] >= accepted[r] + c.window

-----------------------------------------------------------------------------
\* Budgets

\* OvershootBounded is about engines that always account, and at once.
Synchronous == \A c \in Configs : c.enabled /\ ~c.async

\* The ledgers that checkBudgets compares with a budget
Budgeted == {l \in Ledgers : MaxBudget[l] > 0 /\ \E e \in Identity : l \in LedgersOf[e]}

\* The handler of a request goes through admission, the upstream call and the
\* account call, in this order.
HandlersInOrder ==
    \A r \in Requests :
        /\ pc[r] \notin {"authenticate", "resolve"} => reads[r] = <<>>
        /\ pc[r] \in {"new", "authenticate", "resolve", "run"} => acct[r] = "none"
        /\ acct[r] \in {"put", "log", "charge"} => pc[r] = "account"
        /\ pc[r] \in {"run", "account"} => \A l \in Budgeted : seen[r][l] < MaxBudget[l]

\* The handler of a request has still to read a ledger.
Unread(r, l) ==
    \/ pc[r] = "authenticate" /\ \E e \in {"user", "org", "endUser"} : l \in LedgersOf[e]
    \/ \E i \in 1..Len(reads[r]) : l \in LedgersOf[reads[r][i]]

\* It has still to charge it.
Uncharged(r, l) ==
    \/ acct[r] \in {"none", "put", "log"}
    \/ acct[r] = "charge" /\ \E i \in Remaining(r) : Updates[i].ledger = l

\* The requests that may yet charge a ledger on a spend below the budget that
\* they have read
Late(l) ==
    {r \in InHandler : ~Unread(r, l) /\ seen[r][l] < MaxBudget[l] /\ Uncharged(r, l)}

\* Once a budget is used up, what the late requests may still add was allowed for.
RoomForLate ==
    \A l \in Budgeted :
        spent[l] >= MaxBudget[l] =>
            spent[l] + Cardinality(Late(l)) * MaxCost
                <= (MaxBudget[l] - 1) + Connections * MaxCost

IInv ==
    /\ TypeOK /\ EntriesLast /\ OncePerWindow
    /\ Cardinality(InHandler) <= Connections
    /\ Synchronous => HandlersInOrder /\ RoomForLate

-----------------------------------------------------------------------------
\* What the settings of an engine are

\* The sequence of updates, spelled out
LEMMA UpdateLedgers ==
    /\ DOMAIN Updates = 1..9
    /\ \A i \in 1..9 : Updates[i].ledger \in Ledgers
    /\ \A i, j \in 1..9 : Updates[i].ledger = Updates[j].ledger => i = j
  <1>1. DOMAIN Updates = 1..9
    BY DEF Updates
  <1>2. /\ Updates[1].ledger = "key" /\ Updates[2].ledger = "keyModel"
        /\ Updates[3].ledger = "team" /\ Updates[4].ledger = "teamModel"
        /\ Updates[5].ledger = "user" /\ Updates[6].ledger = "membership"
        /\ Updates[7].ledger = "org" /\ Updates[8].ledger = "orgMembership"
        /\ Updates[9].ledger = "endUser"
    BY Zenon DEF Updates
  <1>3. \A i \in 1..9 : i \in {1, 2, 3, 4, 5, 6, 7, 8, 9}
    OBVIOUS
  <1>4. \A i, j \in 1..9 : Updates[i].ledger = Updates[j].ledger => i = j
    BY <1>2, <1>3
  <1> QED BY Zenon, <1>1, <1>4 DEF Ledgers

\* What the assumption says of the engine's settings
LEMMA Constants ==
    ASSUME TypeOK
    PROVE  /\ IsFiniteSet(Requests) /\ Cost \in [Requests -> Nat]
           /\ MaxCost \in Nat /\ \A r \in Requests : Cost[r] <= MaxCost
           /\ MaxBudget \in [Ledgers -> Nat] /\ Identity \subseteq Entities
           /\ Connections \in Nat /\ MayFail \in BOOLEAN
           /\ Configs \subseteq [enabled : BOOLEAN, async : BOOLEAN, window : Nat]
           /\ \A r \in Requests : RequestID[r] \in Ids
  <1>1. DOMAIN LedgersOf = Entities
    BY Zenon DEF LedgersOf, Entities
  <1> QED BY Zenon, <1>1, GovernanceAssumption
      DEF TypeOK, Ids, Requests, RequestID, Cost, MaxCost, Identity, MaxBudget, Connections,
          Configs, FirstConfig, MayFail

\* The settings do not change.
LEMMA SettingsStay ==
    ASSUME set' = set
    PROVE  /\ Requests' = Requests /\ RequestID' = RequestID /\ Cost' = Cost
           /\ MaxCost' = MaxCost /\ Identity' = Identity /\ MaxBudget' = MaxBudget
           /\ Connections' = Connections /\ Configs' = Configs
           /\ FirstConfig' = FirstConfig /\ MayFail' = MayFail
           /\ Ids' = Ids /\ Charges' = Charges /\ Synchronous' = Synchronous
           /\ Budgeted' = Budgeted
  BY Zenon DEF Requests, RequestID, Cost, MaxCost, Identity, MaxBudget, Connections,
     Configs, FirstConfig, MayFail, Ids, Charges, Synchronous, Budgeted

\* The middleware reads key and team, resolveEntities the others, if the
\* identity has them.
LEMMA ReadsCover ==
    ASSUME TypeOK
    PROVE  /\ MiddlewareReads \in Seq(Entities) /\ ResolveReads \in Seq(Entities)
           /\ \A e \in Identity \cap {"key", "team"} :
                  \E i \in 1..Len(MiddlewareReads) : MiddlewareReads[i] = e
           /\ \A e \in Identity \cap {"user", "org", "endUser"} :
                  \E i \in 1..Len(ResolveReads) : ResolveReads[i] = e
           /\ \A i \in 1..Len(ResolveReads) : ResolveReads[i] \in {"user", "org", "endUser"}
  <1> USE DEF ReadOf, Entities
  <1>0. ASSUME NEW e \in Entities PROVE ReadOf(e) \in Seq(Entities)
    <2>1. <<e>> \in Seq(Entities)
      BY DEF Entities
    <2>2. <<>> \in Seq(Entities)
      OBVIOUS
    <2> QED BY Zenon, <2>1, <2>2 DEF ReadOf
  <1>1. MiddlewareReads \in Seq(Entities)
    BY <1>0 DEF MiddlewareReads
  <1>2. ResolveReads \in Seq(Entities)
    BY <1>0 DEF ResolveReads
  <1>3. ASSUME NEW e \in Identity \cap {"key", "team"}
        PROVE  \E i \in 1..Len(MiddlewareReads) : MiddlewareReads[i] = e
    BY <1>3 DEF MiddlewareReads
  <1>4. ASSUME NEW e \in Identity \cap {"user", "org", "endUser"}
        PROVE  \E i \in 1..Len(ResolveReads) : ResolveReads[i] = e
    BY <1>4 DEF ResolveReads
  <1>5. \A i \in 1..Len(ResolveReads) : ResolveReads[i] \in {"user", "org", "endUser"}
    BY DEF ResolveReads
  <1> QED BY Zenon, <1>1, <1>2, <1>3, <1>4, <1>5

\* A charge leaves a function from ledgers to amounts.
LEMMA ChargeType ==
    ASSUME NEW f \in [Ledgers -> Nat], NEW l \in Ledgers, NEW n \in Nat
    PROVE  [f EXCEPT ![l] = @ + n] \in [Ledgers -> Nat]
  OBVIOUS

\* No two entities share a ledger.
LEMMA LedgersApart ==
    \A d, e \in Entities : LedgersOf[d] \cap LedgersOf[e] # {} => d = e
  BY DEF Entities, LedgersOf

-----------------------------------------------------------------------------
\* The steps

\* Every step keeps the types.
LEMMA StepTypeOK ==
    ASSUME IInv, Next PROVE TypeOK'
  <1> USE DEF IInv, TypeOK, environment, store, account, Next
  <1>1. ASSUME NEW r \in Requests, Authenticate(r) PROVE TypeOK'
    BY Zenon, SettingsStay, ReadsCover, <1>1 DEF Authenticate
  <1>2. ASSUME NEW r \in Requests, ReadEntity(r) PROVE TypeOK'
    <2>1. Tail(reads[r]) \in Seq(Entities)
      BY <1>2 DEF ReadEntity
    <2>2. reads' \in [Requests -> Seq(Entities)]
      BY Zenon, <1>2, <2>1 DEF ReadEntity
    <2>3. seen' \in [Requests -> [Ledgers -> Nat]]
      BY Zenon, <1>2 DEF ReadEntity
    <2> QED BY Zenon, SettingsStay, <1>2, <2>2, <2>3 DEF ReadEntity
  <1>3. ASSUME NEW r \in Requests, Refuse(r) PROVE TypeOK'
    <2>1. <<>> \in Seq(Entities)
      OBVIOUS
    <2> QED BY Zenon, SettingsStay, <1>3, <2>1 DEF Refuse
  <1>4. ASSUME NEW r \in Requests, EvaluateBegin(r) PROVE TypeOK'
    <2>1. CASE config.enabled
      <3>1. ResolveReads \in Seq(Entities)
        BY Zenon, ReadsCover
      <3>2. reads' \in [Requests -> Seq(Entities)]
        BY Zenon, <1>4, <2>1, <3>1 DEF EvaluateBegin
      <3>3. pc' = [pc EXCEPT ![r] = "resolve"]
        BY Zenon, <1>4, <2>1 DEF EvaluateBegin
      <3> QED BY Zenon, SettingsStay, <1>4, <3>2, <3>3 DEF EvaluateBegin
    <2>2. CASE ~config.enabled
      BY Zenon, SettingsStay, <1>4, <2>2 DEF EvaluateBegin
    <2> QED BY Zenon, <2>1, <2>2
  <1>5. ASSUME NEW r \in Requests, CheckBudgets(r) PROVE TypeOK'
    BY Zenon, SettingsStay, Constants, <1>5 DEF CheckBudgets
  <1>6. ASSUME NEW r \in Requests, RunFails(r) PROVE TypeOK'
    BY Zenon, SettingsStay, Constants, <1>6 DEF RunFails
  <1>7. ASSUME NEW r \in Requests, Account(r) PROVE TypeOK'
    BY Zenon, SettingsStay, Constants, <1>7 DEF Account
  <1>8. ASSUME NEW r \in Requests, Answer(r) PROVE TypeOK'
    BY Zenon, SettingsStay, Constants, <1>8 DEF Answer
  <1>9. ASSUME NEW r \in Requests, PutIfAbsent(r) PROVE TypeOK'
    <2>1. entries' \in [Ids -> Nat]
      <3>1. config.window \in Nat
        BY Zenon, Constants
      <3>2. clock + config.window \in Nat
        BY <3>1
      <3>3. \/ entries' = entries
            \/ entries' = [entries EXCEPT ![RequestID[r]] = clock + config.window]
        BY Zenon, <1>9 DEF PutIfAbsent
      <3> QED BY Zenon, Constants, <3>2, <3>3
    <2>2. accepted' \in [Requests -> Nat]
      BY Zenon, <1>9 DEF PutIfAbsent
    <2>3. acct' \in [Requests -> {"none", "put", "log", "charge", "ended"}]
      BY Zenon, <1>9 DEF PutIfAbsent
    <2> QED BY Zenon, SettingsStay, <1>9, <2>1, <2>2, <2>3 DEF PutIfAbsent
  <1>10. ASSUME NEW r \in Requests, PutFails(r) PROVE TypeOK'
    <2>1. entries' \in [Ids -> Nat]
      <3>1. config.window \in Nat
        BY Zenon, Constants
      <3>2. clock + config.window \in Nat
        BY <3>1
      <3> QED BY Zenon, Constants, <1>10, <3>2 DEF PutFails
    <2> QED BY Zenon, SettingsStay, <1>10, <2>1 DEF PutFails
  <1>11. ASSUME NEW r \in Requests, LogUsage(r) PROVE TypeOK'
    BY Zenon, SettingsStay, Constants, <1>11 DEF LogUsage
  <1>12. ASSUME NEW r \in Requests, Charge(r) PROVE TypeOK'
    <2>1. PICK i \in Remaining(r) :
             /\ spent' = [spent EXCEPT ![Updates[i].ledger] = @ + Cost[r]]
                \/ UNCHANGED spent
             /\ step' = [step EXCEPT ![r] = i]
      BY Zenon, <1>12 DEF Charge
    <2>2. i \in 1..9
      BY Zenon, UpdateLedgers DEF Remaining, Charges
    <2>3. spent' \in [Ledgers -> Nat]
      <3>1. Updates[i].ledger \in Ledgers /\ Cost[r] \in Nat
        BY Zenon, <2>2, UpdateLedgers, Constants
      <3>2. spent \in [Ledgers -> Nat]
        BY Zenon
      <3>3. [spent EXCEPT ![Updates[i].ledger] = @ + Cost[r]] \in [Ledgers -> Nat]
        BY Zenon, <3>1, <3>2, ChargeType
      <3> QED BY Zenon, <2>1, <3>2, <3>3
    <2>4. step' \in [Requests -> 0..9]
      BY <2>1, <2>2
    <2>5. acct' \in [Requests -> {"none", "put", "log", "charge", "ended"}]
      BY Zenon, <1>12 DEF Charge
    <2> QED BY Zenon, SettingsStay, <1>12, <2>3, <2>4, <2>5 DEF Charge
  <1>13. ASSUME NEW c \in Configs, UpdateConfig(c) PROVE TypeOK'
    BY Zenon, SettingsStay, Constants, <1>13 DEF UpdateConfig
  <1>14. CASE Tick
    BY SettingsStay, Constants, <1>14 DEF Tick
  <1> QED BY Zenon, <1>1, <1>2, <1>3, <1>4, <1>5, <1>6, <1>7, <1>8, <1>9, <1>10, <1>11,
         <1>12, <1>13, <1>14 DEF Next

\* A request enters a handler only when a connection is free.
LEMMA StepConnections ==
    ASSUME IInv, Next PROVE Cardinality(InHandler)' <= Connections'
  <1> USE DEF IInv, TypeOK
  <1>0. /\ Requests' = Requests /\ Connections' = Connections /\ Connections \in Nat
        /\ IsFiniteSet(InHandler) /\ Cardinality(InHandler) \in Nat
    <2>1. IsFiniteSet(InHandler)
      BY Zenon, Constants, FS_Subset DEF InHandler
    <2> QED BY Zenon, <2>1, Constants, SettingsStay, FS_CardinalityType DEF Next
  <1>1. ASSUME NEW r \in Requests, Authenticate(r)
        PROVE  Cardinality(InHandler') <= Connections
    <2>1. InHandler' = InHandler \cup {r}
      BY Zenon, <1>0, <1>1 DEF Authenticate, InHandler
    <2>2. Cardinality(InHandler') <= Cardinality(InHandler) + 1
      <3>1. Cardinality(InHandler \cup {r}) =
              IF r \in InHandler THEN Cardinality(InHandler) ELSE Cardinality(InHandler) + 1
        BY Zenon, <1>0, FS_AddElement
      <3> QED BY <1>0, <2>1, <3>1
    <2>3. Cardinality(InHandler) < Connections
      BY Zenon, <1>1 DEF Authenticate
    <2>4. Cardinality(InHandler') \in Nat
      BY Zenon, <1>0, <2>1, FS_AddElement, FS_CardinalityType
    <2> QED BY <1>0, <2>2, <2>3, <2>4
  <1>2. ASSUME InHandler' \subseteq InHandler PROVE Cardinality(InHandler') <= Connections
    <2>1. /\ Cardinality(InHandler') <= Cardinality(InHandler)
          /\ Cardinality(InHandler') \in Nat
      BY Zenon, <1>0, <1>2, FS_Subset, FS_CardinalityType
    <2> QED BY <1>0, <2>1
  <1>3. ASSUME ~\E r \in Requests : Authenticate(r) PROVE InHandler' \subseteq InHandler
    <2> SUFFICES ASSUME NEW q \in Requests, q \in InHandler', q \notin InHandler PROVE FALSE
      BY Zenon, <1>0 DEF InHandler
    <2>1. pc[q] \in {"new", "done"} /\ pc'[q] \notin {"new", "done"}
      BY Zenon, <1>0 DEF InHandler
    <2> USE DEF environment, store, account
    <2>2. ASSUME NEW r \in Requests,
                 \/ ReadEntity(r) \/ Refuse(r) \/ EvaluateBegin(r) \/ CheckBudgets(r)
                 \/ RunFails(r) \/ Account(r) \/ Answer(r) \/ PutIfAbsent(r) \/ PutFails(r)
                 \/ LogUsage(r) \/ Charge(r)
          PROVE  FALSE
      BY Zenon, <2>1, <2>2 DEF ReadEntity, Refuse, EvaluateBegin, CheckBudgets, RunFails,
         Account, Answer, PutIfAbsent, PutFails, LogUsage, Charge
    <2>3. ASSUME NEW c \in Configs, UpdateConfig(c) PROVE FALSE
      BY Zenon, <2>1, <2>3 DEF UpdateConfig
    <2>4. CASE Tick
      BY Zenon, <2>1, <2>4 DEF Tick
    <2> QED BY Zenon, <1>3, <2>2, <2>3, <2>4 DEF Next
  <1> QED BY Zenon, <1>0, <1>1, <1>2, <1>3

\* A step that records nothing, and forgets no entry, keeps what is recorded apart.
LEMMA NothingRecorded ==
    ASSUME IInv, TypeOK', set' = set, accepted' = accepted, clock' \in {clock, clock + 1},
           \A i \in Ids : entries'[i] >= entries[i]
    PROVE  EntriesLast' /\ OncePerWindow'
  <1>1. Requests' = Requests /\ Configs' = Configs /\ RequestID' = RequestID
    BY Zenon, SettingsStay
  <1>2. OncePerWindow'
    BY Zenon, <1>1 DEF IInv, OncePerWindow
  <1>3. ASSUME NEW r \in Requests
        PROVE  /\ accepted[r] <= clock'
               /\ accepted[r] > 0 =>
                    \E c \in Configs : /\ c.window > 0
                                       /\ entries'[RequestID[r]] >= accepted[r] + c.window
    <2>1. TypeOK /\ EntriesLast
      BY Zenon DEF IInv
    <2>2. /\ RequestID[r] \in Ids
          /\ Configs \subseteq [enabled : BOOLEAN, async : BOOLEAN, window : Nat]
      BY Zenon, <2>1, Constants
    <2>3. /\ accepted[r] \in Nat /\ clock \in Nat
          /\ entries[RequestID[r]] \in Nat /\ entries'[RequestID[r]] \in Nat
      BY Zenon, <2>1, <2>2, SettingsStay DEF TypeOK
    <2>4. accepted[r] <= clock'
      BY <2>1, <2>3 DEF EntriesLast
    <2>5. ASSUME accepted[r] > 0
          PROVE  \E c \in Configs : /\ c.window > 0
                                    /\ entries'[RequestID[r]] >= accepted[r] + c.window
      <3>1. PICK c \in Configs :
               c.window > 0 /\ entries[RequestID[r]] >= accepted[r] + c.window
        BY Zenon, <2>1, <2>5 DEF EntriesLast
      <3>2. c.window \in Nat
        BY Zenon, <2>2
      <3>3. entries'[RequestID[r]] >= entries[RequestID[r]]
        BY Zenon, <2>2
      <3>4. entries'[RequestID[r]] >= accepted[r] + c.window
        BY <2>3, <3>1, <3>2, <3>3
      <3> QED BY Zenon, <3>1, <3>4
    <2> QED BY Zenon, <2>4, <2>5
  <1> QED BY Zenon, <1>1, <1>2, <1>3 DEF EntriesLast

\* A request ID is recorded when the entry for it, if any, has expired.
LEMMA OneRecorded ==
    ASSUME IInv, TypeOK', set' = set, clock' = clock, NEW r \in Requests,
           ~Live(RequestID[r]), config.window > 0,
           entries' = [entries EXCEPT ![RequestID[r]] = clock + config.window],
           accepted' = [accepted EXCEPT ![r] = clock]
    PROVE  EntriesLast' /\ OncePerWindow'
  <1>1. Requests' = Requests /\ Configs' = Configs /\ RequestID' = RequestID
    BY Zenon, SettingsStay
  <1>2. TypeOK /\ EntriesLast /\ OncePerWindow
    BY Zenon DEF IInv
  <1>3. /\ Configs \subseteq [enabled : BOOLEAN, async : BOOLEAN, window : Nat]
        /\ \A q \in Requests : RequestID[q] \in Ids
    BY Zenon, <1>2, Constants
  <1>4. /\ clock \in Nat /\ config \in Configs /\ config.window \in Nat
        /\ \A q \in Requests : accepted[q] \in Nat /\ entries[RequestID[q]] \in Nat
    BY Zenon, <1>2, <1>3 DEF TypeOK
  <1>5. entries[RequestID[r]] <= clock
    BY <1>4 DEF Live
  <1>6. /\ accepted'[r] = clock /\ entries'[RequestID[r]] = clock + config.window
        /\ \A q \in Requests : q # r => accepted'[q] = accepted[q]
        /\ \A q \in Requests :
               RequestID[q] # RequestID[r] => entries'[RequestID[q]] = entries[RequestID[q]]
    BY Zenon, <1>2, <1>3 DEF TypeOK
  \* whoever was recorded under this ID before was so a whole window ago
  <1>7. ASSUME NEW q \in Requests, RequestID[q] = RequestID[r], accepted[q] > 0
        PROVE  \E c \in Configs : c.window > 0 /\ accepted[q] + c.window <= clock
    <2>1. PICK c \in Configs :
             c.window > 0 /\ entries[RequestID[q]] >= accepted[q] + c.window
      BY Zenon, <1>2, <1>7 DEF EntriesLast
    <2>2. c.window \in Nat
      BY Zenon, <1>3
    <2>3. accepted[q] + c.window <= clock
      BY <1>4, <1>5, <1>7, <2>1, <2>2
    <2> QED BY Zenon, <2>1, <2>3
  <1>8. ASSUME NEW q \in Requests
        PROVE  /\ accepted'[q] <= clock
               /\ accepted'[q] > 0 =>
                    \E c \in Configs : /\ c.window > 0
                                       /\ entries'[RequestID[q]] >= accepted'[q] + c.window
    <2>1. CASE q = r
      BY <1>4, <1>6, <2>1
    <2>2. CASE q # r /\ RequestID[q] # RequestID[r]
      BY Zenon, <1>2, <1>6, <2>2 DEF EntriesLast
    <2>3. CASE q # r /\ RequestID[q] = RequestID[r]
      <3>1. accepted'[q] = accepted[q] /\ accepted[q] <= clock
        BY Zenon, <1>2, <1>6, <2>3 DEF EntriesLast
      <3>2. ASSUME accepted[q] > 0
            PROVE  \E c \in Configs : /\ c.window > 0
                                      /\ entries'[RequestID[q]] >= accepted[q] + c.window
        <4>1. PICK c \in Configs : c.window > 0 /\ accepted[q] + c.window <= clock
          BY Zenon, <1>7, <2>3, <3>2
        <4>2. c.window \in Nat /\ accepted[q] \in Nat
          BY Zenon, <1>3, <1>4
        <4>3. entries'[RequestID[q]] >= accepted[q] + c.window
          BY <1>4, <1>6, <2>3, <4>1, <4>2
        <4> QED BY Zenon, <4>1, <4>3
      <3> QED BY Zenon, <3>1, <3>2
    <2> QED BY Zenon, <2>1, <2>2, <2>3
  <1>9. ASSUME NEW p \in Requests, NEW q \in Requests, RequestID[p] = RequestID[q],
               0 < accepted'[p], accepted'[p] <= accepted'[q], p # q
        PROVE  \E c \in Configs : c.window > 0 /\ accepted'[q] - accepted'[p] >= c.window
    <2>1. CASE q = r
      <3>1. PICK c \in Configs : c.window > 0 /\ accepted[p] + c.window <= clock
        BY Zenon, <1>6, <1>7, <1>9, <2>1
      <3>2. c.window \in Nat /\ accepted[p] \in Nat
        BY Zenon, <1>3, <1>4
      <3>3. accepted'[q] - accepted'[p] >= c.window
        BY <1>4, <1>6, <1>9, <2>1, <3>1, <3>2
      <3> QED BY Zenon, <3>1, <3>3
    <2>2. CASE p = r
      <3>0. accepted[q] > 0
        BY <1>4, <1>6, <1>9, <2>2
      <3>1. PICK c \in Configs : c.window > 0 /\ accepted[q] + c.window <= clock
        BY Zenon, <1>7, <1>9, <2>2, <3>0
      <3>2. c.window \in Nat /\ accepted[q] \in Nat
        BY Zenon, <1>3, <1>4
      <3> QED BY <1>4, <1>6, <1>9, <2>2, <3>1, <3>2
    <2>3. CASE p # r /\ q # r
      BY Zenon, <1>2, <1>6, <1>9, <2>3 DEF OncePerWindow
    <2> QED BY Zenon, <2>1, <2>2, <2>3
  <1> QED BY Zenon, <1>1, <1>8, <1>9 DEF EntriesLast, OncePerWindow

\* Every step records at most one request, and that one when its entry is due.
LEMMA StepOnce ==
    ASSUME IInv, Next PROVE EntriesLast' /\ OncePerWindow'
  <1>0. TypeOK /\ TypeOK' /\ set' = set
    BY Zenon, StepTypeOK DEF IInv, Next
  <1>1. clock \in Nat /\ \A i \in Ids : entries[i] \in Nat
    BY Zenon, <1>0 DEF TypeOK
  <1> USE DEF environment, store, account
  <1>2. ASSUME NEW r \in Requests, PutIfAbsent(r) PROVE EntriesLast' /\ OncePerWindow'
    <2>1. CASE ~Idempotent \/ Live(RequestID[r])
      <3>1. UNCHANGED <<entries, accepted, clock>>
        BY Zenon, <1>2, <2>1 DEF PutIfAbsent
      <3> QED BY <1>0, <1>1, <3>1, NothingRecorded
    <2>2. CASE Idempotent /\ ~Live(RequestID[r])
      <3>1. /\ entries' = [entries EXCEPT ![RequestID[r]] = clock + config.window]
            /\ accepted' = [accepted EXCEPT ![r] = clock]
            /\ clock' = clock /\ config.window > 0
        BY Zenon, <1>2, <2>2 DEF PutIfAbsent, Idempotent
      <3> QED BY Zenon, <1>0, <2>2, <3>1, OneRecorded
    <2> QED BY Zenon, <2>1, <2>2
  <1>3. ASSUME NEW r \in Requests, PutFails(r) PROVE EntriesLast' /\ OncePerWindow'
    <2>1. accepted' = accepted /\ clock' = clock
      BY Zenon, <1>3 DEF PutFails
    <2>2. RequestID[r] \in Ids /\ config.window \in Nat
      BY Zenon, <1>0, Constants DEF TypeOK
    <2>3. ASSUME NEW i \in Ids PROVE entries'[i] >= entries[i]
      <3>1. CASE UNCHANGED entries
        BY <1>1, <3>1
      <3>2. CASE /\ ~Live(RequestID[r])
                 /\ entries' = [entries EXCEPT ![RequestID[r]] = clock + config.window]
        <4>1. entries[RequestID[r]] <= clock
          BY <1>1, <2>2, <3>2 DEF Live
        <4>2. entries'[i] = IF i = RequestID[r] THEN clock + config.window ELSE entries[i]
          BY Zenon, <1>0, <2>2, <3>2 DEF TypeOK
        <4> QED BY <1>1, <2>2, <4>1, <4>2
      <3> QED BY Zenon, <1>3, <3>1, <3>2 DEF PutFails
    <2> QED BY Zenon, <1>0, <2>1, <2>3, NothingRecorded
  <1>4. CASE UNCHANGED <<entries, accepted>> /\ clock' \in {clock, clock + 1}
    BY <1>0, <1>1, <1>4, NothingRecorded
  <1>5. ASSUME NEW r \in Requests,
               \/ Authenticate(r) \/ ReadEntity(r) \/ Refuse(r) \/ EvaluateBegin(r)
               \/ CheckBudgets(r) \/ RunFails(r) \/ Account(r) \/ Answer(r)
               \/ LogUsage(r) \/ Charge(r)
        PROVE  UNCHANGED <<entries, accepted, clock>>
    BY Zenon, <1>5 DEF Authenticate, ReadEntity, Refuse, EvaluateBegin, CheckBudgets,
                RunFails, Account, Answer, LogUsage, Charge
  <1>6. ASSUME NEW c \in Configs, UpdateConfig(c)
        PROVE  UNCHANGED <<entries, accepted, clock>>
    BY Zenon, <1>6 DEF UpdateConfig
  <1>7. CASE Tick
    BY Zenon, <1>4, <1>7 DEF Tick
  <1> QED BY Zenon, <1>2, <1>3, <1>4, <1>5, <1>6, <1>7 DEF Next

\* The steps of a handler come in the order of the code.
LEMMA StepOrder ==
    ASSUME IInv, Next, Synchronous PROVE HandlersInOrder'
  <1> USE DEF IInv, TypeOK, HandlersInOrder, environment, store, account, Next
  <1>1. ASSUME NEW r \in Requests, Authenticate(r) PROVE HandlersInOrder'
    BY Zenon, SettingsStay, <1>1 DEF Authenticate
  <1>2. ASSUME NEW r \in Requests, ReadEntity(r) PROVE HandlersInOrder'
    BY Zenon, SettingsStay, <1>2 DEF ReadEntity
  <1>3. ASSUME NEW r \in Requests, Refuse(r) PROVE HandlersInOrder'
    BY Zenon, SettingsStay, <1>3 DEF Refuse
  <1>4. ASSUME NEW r \in Requests, EvaluateBegin(r) PROVE HandlersInOrder'
    <2>1. config.enabled
      BY Zenon DEF Synchronous
    <2> QED BY SettingsStay, <1>4, <2>1 DEF EvaluateBegin
  <1>5. ASSUME NEW r \in Requests, CheckBudgets(r) PROVE HandlersInOrder'
    <2>1. ASSUME NEW l \in Budgeted, pc'[r] = "run" PROVE seen[r][l] < MaxBudget[l]
      <3>1. ~IsOverBudget(r, l) /\ MaxBudget[l] > 0 /\ l \in Ledgers
        BY Zenon, <1>5, <2>1 DEF CheckBudgets, Budgeted
      <3>2. seen[r][l] \in Nat /\ MaxBudget[l] \in Nat
        BY Zenon, <3>1, Constants
      <3> QED BY <3>1, <3>2 DEF IsOverBudget
    <2> QED BY Zenon, SettingsStay, <1>5, <2>1 DEF CheckBudgets
  <1>6. ASSUME NEW r \in Requests, RunFails(r) PROVE HandlersInOrder'
    BY Zenon, SettingsStay, <1>6 DEF RunFails
  <1>7. ASSUME NEW r \in Requests, Account(r) PROVE HandlersInOrder'
    <2>1. config.enabled /\ ~config.async
      BY Zenon DEF Synchronous
    <2> QED BY Zenon, SettingsStay, <1>7, <2>1 DEF Account
  <1>8. ASSUME NEW r \in Requests, Answer(r) PROVE HandlersInOrder'
    BY Zenon, SettingsStay, <1>8 DEF Answer
  <1>9. ASSUME NEW r \in Requests, PutIfAbsent(r) PROVE HandlersInOrder'
    BY Zenon, SettingsStay, <1>9 DEF PutIfAbsent
  <1>10. ASSUME NEW r \in Requests, PutFails(r) PROVE HandlersInOrder'
    BY Zenon, SettingsStay, <1>10 DEF PutFails
  <1>11. ASSUME NEW r \in Requests, LogUsage(r) PROVE HandlersInOrder'
    BY Zenon, SettingsStay, <1>11 DEF LogUsage
  <1>12. ASSUME NEW r \in Requests, Charge(r) PROVE HandlersInOrder'
    BY Zenon, SettingsStay, <1>12 DEF Charge
  <1>13. ASSUME NEW c \in Configs, UpdateConfig(c) PROVE HandlersInOrder'
    BY Zenon, SettingsStay, <1>13 DEF UpdateConfig
  <1>14. CASE Tick
    BY Zenon, SettingsStay, <1>14 DEF Tick
  <1> QED BY Zenon, <1>1, <1>2, <1>3, <1>4, <1>5, <1>6, <1>7, <1>8, <1>9, <1>10, <1>11,
         <1>12, <1>13, <1>14 DEF Next

\* What a step leaves alone or moves on without reading stays as late as it was.
LEMMA LateFrame ==
    ASSUME set' = set, NEW l, NEW q \in Requests, q \in Late(l)',
           pc[q] \in {"new", "done", "authenticate"} => pc'[q] = pc[q],
           reads'[q] = reads[q], seen'[q] = seen[q],
           acct[q] \in {"none", "put", "log"}
               \/ (acct'[q] = acct[q] /\ step'[q] = step[q])
    PROVE  q \in Late(l)
  <1>1. Charges' = Charges /\ MaxBudget' = MaxBudget
    BY Zenon, SettingsStay
  <1>2. /\ pc'[q] \notin {"new", "done"} /\ ~Unread(q, l)'
        /\ seen'[q][l] < MaxBudget'[l] /\ Uncharged(q, l)'
    BY Zenon DEF Late, InHandler
  <1>3. q \in InHandler
    BY Zenon, <1>2 DEF InHandler
  <1>4. ~Unread(q, l)
    BY Zenon, <1>2 DEF Unread
  <1>5. Uncharged(q, l)
    BY Zenon, <1>1, <1>2 DEF Uncharged, Remaining
  <1> QED BY Zenon, <1>1, <1>2, <1>3, <1>4, <1>5 DEF Late

\* A request that reads or passes admission is late afterwards only if it was.
LEMMA LateReader ==
    ASSUME IInv, UNCHANGED set, NEW l \in Budgeted, Synchronous, HandlersInOrder,
           spent[l] >= MaxBudget[l],
           NEW r \in Requests, r \in Late(l)', ReadEntity(r) \/ EvaluateBegin(r)
    PROVE  r \in Late(l)
  <1>0. /\ MaxBudget' = MaxBudget /\ Charges' = Charges /\ MaxBudget[l] \in Nat
        /\ l \in Ledgers
    BY Zenon, SettingsStay, Constants DEF IInv, Budgeted
  <1>1. /\ pc \in [Requests -> {"new", "authenticate", "resolve", "run", "account", "done"}]
        /\ reads \in [Requests -> Seq(Entities)]
        /\ seen \in [Requests -> [Ledgers -> Nat]] /\ spent[l] \in Nat
    BY Zenon, <1>0 DEF IInv, TypeOK
  <1>2. /\ ~Unread(r, l)' /\ seen'[r][l] < MaxBudget[l] /\ Uncharged(r, l)'
    BY Zenon, <1>0 DEF Late
  <1>3. UNCHANGED <<acct, step>>
    BY Zenon DEF ReadEntity, EvaluateBegin, account
  <1>4. Uncharged(r, l)
    BY Zenon, <1>0, <1>2, <1>3 DEF Uncharged, Remaining
  <1>5. ASSUME ReadEntity(r) PROVE r \in Late(l)
    <2>1. /\ reads[r] # <<>> /\ reads'[r] = Tail(reads[r]) /\ pc' = pc
          /\ seen'[r][l] = IF l \in LedgersOf[Head(reads[r])] THEN spent[l] ELSE seen[r][l]
      BY Zenon, <1>0, <1>1, <1>5 DEF ReadEntity
    <2>2. l \notin LedgersOf[Head(reads[r])]
      BY <1>0, <1>1, <1>2, <2>1
    <2>3. ~Unread(r, l)
      <3>1. ASSUME NEW i \in 1..Len(reads[r]), l \in LedgersOf[reads[r][i]] PROVE FALSE
        <4>1. CASE i = 1
          BY <1>1, <2>2, <3>1, <4>1
        <4>2. CASE i # 1
          <5>1. i - 1 \in 1..Len(reads'[r]) /\ reads'[r][i - 1] = reads[r][i]
            BY <1>1, <2>1, <4>2
          <5> QED BY Zenon, <1>2, <3>1, <5>1 DEF Unread
        <4> QED BY Zenon, <4>1, <4>2
      <3> QED BY Zenon, <1>2, <2>1, <3>1 DEF Unread
    <2>4. pc[r] \in {"authenticate", "resolve"}
      BY Zenon, <2>1 DEF HandlersInOrder
    <2>5. r \in InHandler
      BY Zenon, <2>4 DEF InHandler
    <2> QED BY Zenon, <1>2, <1>4, <2>1, <2>2, <2>3, <2>5 DEF Late
  <1>6. ASSUME EvaluateBegin(r) PROVE r \in Late(l)
    <2>1. /\ pc[r] = "authenticate" /\ reads[r] = <<>> /\ seen' = seen
          /\ reads'[r] = ResolveReads
      BY Zenon, <1>1, <1>6 DEF EvaluateBegin, IInv, TypeOK, Synchronous
    <2>2. PICK e \in Identity : l \in LedgersOf[e]
      BY Zenon DEF Budgeted
    <2>3. e \in Entities
      BY Zenon, Constants DEF IInv
    <2>4. e \notin {"user", "org", "endUser"}
      <3>1. ASSUME e \in {"user", "org", "endUser"} PROVE FALSE
        <4>1. PICK i \in 1..Len(ResolveReads) : ResolveReads[i] = e
          BY Zenon, <3>1, ReadsCover DEF IInv
        <4> QED BY Zenon, <1>2, <2>1, <2>2, <4>1 DEF Unread
      <3> QED BY Zenon, <3>1
    <2>5. \A d \in {"user", "org", "endUser"} : l \notin LedgersOf[d]
      BY Zenon, <2>2, <2>3, <2>4, LedgersApart DEF Entities
    <2>6. Len(reads[r]) = 0
      BY <2>1
    <2>7. ~Unread(r, l)
      BY <2>5, <2>6 DEF Unread
    <2>8. r \in InHandler
      BY Zenon, <2>1 DEF InHandler
    <2> QED BY Zenon, <1>2, <1>4, <2>1, <2>7, <2>8 DEF Late
  <1> QED BY Zenon, <1>5, <1>6

\* A request that has just been authenticated has every ledger still to read.
LEMMA NewNotLate ==
    ASSUME IInv, UNCHANGED set, NEW l \in Budgeted, NEW r \in Requests, Authenticate(r)
    PROVE  r \notin Late(l)'
  <1> SUFFICES Unread(r, l)'
    BY Zenon DEF Late
  <1>1. pc'[r] = "authenticate" /\ reads'[r] = MiddlewareReads
    BY Zenon DEF Authenticate, IInv, TypeOK
  <1>2. PICK e \in Identity : l \in LedgersOf[e]
    BY Zenon DEF Budgeted
  <1>3. e \in Entities
    BY Zenon, Constants DEF IInv
  <1>4. CASE e \in {"key", "team"}
    <2>1. PICK i \in 1..Len(MiddlewareReads) : MiddlewareReads[i] = e
      BY Zenon, <1>4, ReadsCover DEF IInv
    <2> QED BY Zenon, <1>1, <1>2, <2>1 DEF Unread
  <1>5. CASE e \in {"user", "org", "endUser"}
    BY Zenon, <1>1, <1>2, <1>5 DEF Unread
  <1> QED BY Zenon, <1>3, <1>4, <1>5 DEF Entities

\* A request that has made one more update has fewer left.
LEMMA LateCharger ==
    ASSUME IInv, UNCHANGED set, NEW l, HandlersInOrder,
           NEW r \in Requests, r \in Late(l)', Charge(r)
    PROVE  r \in Late(l)
  <1>1. Charges' = Charges /\ MaxBudget' = MaxBudget
    BY Zenon, SettingsStay
  <1>2. /\ acct[r] = "charge" /\ acct'[r] \in {"charge", "ended"}
        /\ UNCHANGED <<pc, reads, seen>>
    BY Zenon DEF Charge, IInv, TypeOK
  <1>3. ~Unread(r, l)' /\ seen'[r][l] < MaxBudget'[l] /\ Uncharged(r, l)'
    BY Zenon DEF Late
  <1>4. PICK i \in Remaining(r) : step' = [step EXCEPT ![r] = i]
    BY Zenon DEF Charge
  <1>5. PICK j \in Charges : j > step'[r] /\ Updates[j].ledger = l
    BY Zenon, <1>1, <1>2, <1>3 DEF Uncharged, Remaining
  <1>6. step[r] \in 0..9 /\ step'[r] = i
    BY Zenon, <1>4 DEF IInv, TypeOK
  <1>7. i > step[r] /\ i \in 1..9 /\ j \in 1..9
    BY Zenon, UpdateLedgers DEF Charges, Remaining
  <1>8. j > step[r]
    BY <1>5, <1>6, <1>7
  <1>9. Uncharged(r, l)
    BY Zenon, <1>2, <1>5, <1>8 DEF Uncharged, Remaining
  <1>10. ~Unread(r, l) /\ r \in InHandler
    BY Zenon, <1>2, <1>3 DEF Unread, HandlersInOrder, InHandler
  <1> QED BY Zenon, <1>1, <1>2, <1>3, <1>9, <1>10 DEF Late

\* Once a budget is used up no request becomes late: whoever reads the ledger now
\* sees that.
LEMMA LateShrinks ==
    ASSUME IInv, Next, Synchronous, NEW l \in Budgeted, spent[l] >= MaxBudget[l]
    PROVE  Late(l)' \subseteq Late(l)
  <1>0. set' = set /\ Requests' = Requests /\ HandlersInOrder
    BY Zenon, SettingsStay DEF IInv, Next
  <1> SUFFICES ASSUME NEW q \in Requests, q \in Late(l)' PROVE q \in Late(l)
    BY Zenon, <1>0 DEF Late, InHandler
  <1>t. /\ pc \in [Requests -> {"new", "authenticate", "resolve", "run", "account", "done"}]
        /\ reads \in [Requests -> Seq(Entities)]
        /\ seen \in [Requests -> [Ledgers -> Nat]]
        /\ acct \in [Requests -> {"none", "put", "log", "charge", "ended"}]
        /\ step \in [Requests -> 0..9]
    BY Zenon DEF IInv, TypeOK
  <1>w. pc'[q] \notin {"new", "done"}
    BY Zenon DEF Late, InHandler
  <1>o. ASSUME NEW r \in Requests, q # r,
               \/ Authenticate(r) \/ ReadEntity(r) \/ Refuse(r) \/ EvaluateBegin(r)
               \/ CheckBudgets(r) \/ RunFails(r) \/ Account(r) \/ Answer(r)
               \/ PutIfAbsent(r) \/ PutFails(r) \/ LogUsage(r) \/ Charge(r)
        PROVE  q \in Late(l)
    <2>1. pc'[q] = pc[q]
      BY Zenon, <1>o, <1>t DEF Authenticate, ReadEntity, Refuse, EvaluateBegin,
         CheckBudgets, RunFails, Account, Answer, PutIfAbsent, PutFails, LogUsage, Charge
    <2>2. reads'[q] = reads[q]
      BY Zenon, <1>o, <1>t DEF Authenticate, ReadEntity, Refuse, EvaluateBegin,
         CheckBudgets, RunFails, Account, Answer, PutIfAbsent, PutFails, LogUsage, Charge
    <2>3. seen'[q] = seen[q]
      BY Zenon, <1>o, <1>t DEF Authenticate, ReadEntity, Refuse, EvaluateBegin,
         CheckBudgets, RunFails, Account, Answer, PutIfAbsent, PutFails, LogUsage, Charge
    <2>4. acct'[q] = acct[q]
      BY Zenon, <1>o, <1>t DEF Authenticate, ReadEntity, Refuse, EvaluateBegin,
         CheckBudgets, RunFails, Account, Answer, PutIfAbsent, PutFails, LogUsage, Charge,
         account
    <2>5. step'[q] = step[q]
      BY Zenon, <1>o, <1>t DEF Authenticate, ReadEntity, Refuse, EvaluateBegin,
         CheckBudgets, RunFails, Account, Answer, PutIfAbsent, PutFails, LogUsage, Charge,
         account
    <2> QED BY Zenon, <1>0, <2>1, <2>2, <2>3, <2>4, <2>5, LateFrame
  <1>1. ASSUME Authenticate(q) PROVE q \in Late(l)
    BY Zenon, <1>0, <1>1, NewNotLate
  <1>2. ASSUME ReadEntity(q) \/ EvaluateBegin(q) PROVE q \in Late(l)
    BY Zenon, <1>0, <1>2, LateReader
  <1>3. ASSUME Refuse(q) \/ RunFails(q) \/ Answer(q) PROVE q \in Late(l)
    BY Zenon, <1>t, <1>w, <1>3 DEF Refuse, RunFails, Answer
  <1>4. ASSUME CheckBudgets(q) PROVE q \in Late(l)
    <2>1. pc[q] = "resolve" /\ UNCHANGED <<reads, seen, acct, step>>
      BY Zenon, <1>4 DEF CheckBudgets, account
    <2> QED BY Zenon, <1>0, <2>1, LateFrame
  <1>5. ASSUME Account(q) PROVE q \in Late(l)
    <2>1. pc[q] = "run" /\ UNCHANGED <<reads, seen>> /\ acct[q] = "none"
      BY Zenon, <1>0, <1>5 DEF Account, HandlersInOrder
    <2> QED BY Zenon, <1>0, <2>1, LateFrame
  <1>6. ASSUME PutIfAbsent(q) \/ PutFails(q) \/ LogUsage(q) PROVE q \in Late(l)
    <2>1. acct[q] \in {"put", "log"} /\ UNCHANGED <<pc, reads, seen>>
      BY Zenon, <1>6 DEF PutIfAbsent, PutFails, LogUsage
    <2> QED BY Zenon, <1>0, <2>1, LateFrame
  <1>7. ASSUME Charge(q) PROVE q \in Late(l)
    BY Zenon, <1>0, <1>7, LateCharger
  <1>8. ASSUME Tick \/ \E c \in Configs : UpdateConfig(c) PROVE q \in Late(l)
    <2>1. UNCHANGED <<pc, reads, seen, acct, step>>
      BY Zenon, <1>8 DEF Tick, UpdateConfig, account
    <2> QED BY Zenon, <1>0, <2>1, LateFrame
  <1> QED BY Zenon, <1>o, <1>1, <1>2, <1>3, <1>4, <1>5, <1>6, <1>7, <1>8 DEF Next

\* Products of naturals
LEMMA ProductMonotone ==
    ASSUME NEW a \in Nat, NEW b \in Nat, NEW m \in Nat, a <= b
    PROVE  a * m <= b * m /\ a * m \in Nat /\ b * m \in Nat
  OBVIOUS

\* One request more costs one MaxCost more.
LEMMA ProductStep ==
    ASSUME NEW a \in Nat, NEW m \in Nat PROVE (a + 1) * m = a * m + m /\ a * m \in Nat
  OBVIOUS

\* The late requests are in a handler.
LEMMA LateFinite ==
    ASSUME IInv, NEW l
    PROVE  /\ IsFiniteSet(InHandler) /\ Cardinality(InHandler) \in Nat
           /\ IsFiniteSet(Late(l)) /\ Cardinality(Late(l)) \in Nat
           /\ Late(l) \subseteq InHandler
  <1>1. IsFiniteSet(InHandler)
    BY Zenon, Constants, FS_Subset DEF InHandler, IInv
  <1>2. Late(l) \subseteq InHandler
    BY Zenon DEF Late
  <1> QED BY Zenon, <1>1, <1>2, FS_Subset, FS_CardinalityType

\* The request that charges a ledger was late, and is not any more.
LEMMA ChargedOnceOnly ==
    ASSUME IInv, set' = set, Synchronous, NEW r \in Requests, Charge(r),
           NEW i \in Remaining(r), step' = [step EXCEPT ![r] = i],
           Updates[i].ledger \in Budgeted
    PROVE  /\ InHandler' = InHandler
           /\ r \in Late(Updates[i].ledger)
           /\ r \notin Late(Updates[i].ledger)'
  <1> DEFINE l == Updates[i].ledger
  <1>1. /\ Requests' = Requests /\ MaxBudget' = MaxBudget /\ Charges' = Charges
        /\ TypeOK /\ HandlersInOrder
    BY Zenon, SettingsStay DEF IInv
  <1>2. /\ acct[r] = "charge" /\ acct'[r] \in {"charge", "ended"}
        /\ UNCHANGED <<pc, reads, seen>>
    BY Zenon, <1>1 DEF Charge, TypeOK
  <1>3. pc[r] = "account" /\ reads[r] = <<>> /\ seen[r][l] < MaxBudget[l]
    BY Zenon, <1>1, <1>2 DEF HandlersInOrder
  <1>4. InHandler' = InHandler
    BY Zenon, <1>1, <1>2 DEF InHandler
  <1>5. r \in Late(l)
    <2>1. r \in InHandler
      BY Zenon, <1>3 DEF InHandler
    <2>2. Len(reads[r]) = 0
      BY <1>3
    <2>3. ~Unread(r, l)
      BY <1>3, <2>2 DEF Unread
    <2>4. Uncharged(r, l)
      BY Zenon, <1>2 DEF Uncharged
    <2> QED BY Zenon, <1>3, <2>1, <2>3, <2>4 DEF Late
  <1>6. r \notin Late(l)'
    <2> SUFFICES ASSUME Uncharged(r, l)' PROVE FALSE
      BY Zenon DEF Late
    <2>1. PICK j \in Charges : j > step'[r] /\ Updates[j].ledger = l
      BY Zenon, <1>1, <1>2 DEF Uncharged, Remaining
    <2>2. step'[r] = i /\ i \in 1..9 /\ j \in 1..9
      BY Zenon, <1>1, <2>1, UpdateLedgers DEF TypeOK, Charges, Remaining
    <2> QED BY <2>1, <2>2, UpdateLedgers
  <1> QED BY Zenon, <1>4, <1>5, <1>6

\* A step that does not charge a ledger leaves room for its late requests.
LEMMA RoomStays ==
    ASSUME IInv, Next, Synchronous, NEW l \in Budgeted, spent'[l] = spent[l],
           spent[l] >= MaxBudget[l]
    PROVE  spent'[l] + Cardinality(Late(l)') * MaxCost
             <= (MaxBudget[l] - 1) + Connections * MaxCost
  <1> DEFINE n == Cardinality(Late(l))
             m == Cardinality(Late(l)')
  <1>1. TypeOK /\ RoomForLate
    BY Zenon DEF IInv
  <1>2. /\ MaxCost \in Nat /\ MaxBudget[l] \in Nat /\ Connections \in Nat
        /\ spent[l] \in Nat
    BY Zenon, <1>1, Constants DEF TypeOK, Budgeted
  <1>3. n \in Nat /\ m \in Nat /\ m <= n
    BY Zenon, LateFinite, LateShrinks, FS_Subset, FS_CardinalityType
  <1>4. m * MaxCost <= n * MaxCost /\ m * MaxCost \in Nat /\ n * MaxCost \in Nat
    BY Zenon, <1>2, <1>3, ProductMonotone
  <1>5. spent[l] + n * MaxCost <= (MaxBudget[l] - 1) + Connections * MaxCost
    BY Zenon, <1>1 DEF RoomForLate
  <1>6. Connections * MaxCost \in Nat
    BY Zenon, <1>2, ProductStep
  <1> HIDE DEF n, m
  <1>7. spent'[l] + m * MaxCost <= (MaxBudget[l] - 1) + Connections * MaxCost
    BY <1>2, <1>4, <1>5, <1>6
  <1> QED BY Zenon, <1>7 DEF m

\* A charge takes the room of the request that makes it.
LEMMA RoomUsed ==
    ASSUME IInv, Next, Synchronous, NEW l \in Budgeted, NEW r \in Requests,
           spent'[l] <= spent[l] + MaxCost, spent'[l] \in Nat, InHandler' = InHandler,
           r \in Late(l), r \notin Late(l)'
    PROVE  spent'[l] + Cardinality(Late(l)') * MaxCost
             <= (MaxBudget[l] - 1) + Connections * MaxCost
  <1> DEFINE m == Cardinality(Late(l)')
  <1>1. TypeOK /\ RoomForLate /\ Cardinality(InHandler) <= Connections
    BY Zenon DEF IInv
  <1>2. /\ MaxCost \in Nat /\ MaxBudget[l] \in Nat /\ Connections \in Nat
        /\ spent[l] \in Nat
    BY Zenon, <1>1, Constants DEF TypeOK, Budgeted
  <1>3. ASSUME NEW S, IsFiniteSet(S), r \in S, Late(l)' \subseteq S
        PROVE  m \in Nat /\ m + 1 <= Cardinality(S)
    <2>1. IsFiniteSet(S \ {r}) /\ Cardinality(S \ {r}) = Cardinality(S) - 1
      BY Zenon, <1>3, FS_RemoveElement
    <2>2. Late(l)' \subseteq S \ {r}
      BY Zenon, <1>3
    <2>3. m \in Nat /\ m <= Cardinality(S \ {r}) /\ Cardinality(S) \in Nat
      BY Zenon, <1>3, <2>1, <2>2, FS_Subset, FS_CardinalityType
    <2> QED BY <2>1, <2>3
  <1>4. Connections * MaxCost \in Nat
    BY Zenon, <1>2, ProductStep
  <1>5. CASE spent[l] >= MaxBudget[l]
    <2> DEFINE n == Cardinality(Late(l))
    <2>1. n \in Nat /\ m \in Nat /\ m + 1 <= n
      BY Zenon, <1>3, <1>5, LateFinite, LateShrinks
    <2>2. spent[l] + n * MaxCost <= (MaxBudget[l] - 1) + Connections * MaxCost
      BY Zenon, <1>1, <1>5 DEF RoomForLate
    <2> HIDE DEF n, m
    <2>3. (m + 1) * MaxCost <= n * MaxCost /\ n * MaxCost \in Nat
      BY <1>2, <2>1, ProductMonotone
    <2>4. (m + 1) * MaxCost = m * MaxCost + MaxCost /\ m * MaxCost \in Nat
      BY Zenon, <1>2, <2>1, ProductStep
    <2>5. spent'[l] + m * MaxCost <= (MaxBudget[l] - 1) + Connections * MaxCost
      BY <1>2, <1>4, <2>2, <2>3, <2>4
    <2> QED BY Zenon, <2>5 DEF m
  <1>6. CASE spent[l] < MaxBudget[l]
    <2>1. Late(l)' \subseteq InHandler /\ r \in InHandler
      BY Zenon DEF Late
    <2>2. m \in Nat /\ m + 1 <= Cardinality(InHandler) /\ Cardinality(InHandler) \in Nat
      BY Zenon, <1>3, <2>1, LateFinite
    <2> HIDE DEF m
    <2>3. m + 1 <= Connections
      BY <1>1, <1>2, <2>2
    <2>a. m + 1 \in Nat
      BY <2>2
    <2>4. (m + 1) * MaxCost <= Connections * MaxCost
      BY Zenon, <1>2, <2>a, <2>3, ProductMonotone
    <2>5. (m + 1) * MaxCost = m * MaxCost + MaxCost /\ m * MaxCost \in Nat
      BY Zenon, <1>2, <2>2, ProductStep
    <2>6. spent'[l] + m * MaxCost <= (MaxBudget[l] - 1) + Connections * MaxCost
      BY <1>2, <1>4, <1>6, <2>4, <2>5
    <2> QED BY Zenon, <2>6 DEF m
  <1> QED BY <1>2, <1>5, <1>6

\* Every step leaves room for the late requests.
LEMMA StepRoom ==
    ASSUME IInv, Next, Synchronous PROVE RoomForLate'
  <1>0. /\ set' = set /\ TypeOK /\ TypeOK' /\ Budgeted' = Budgeted
        /\ MaxBudget' = MaxBudget /\ MaxCost' = MaxCost /\ Connections' = Connections
    BY Zenon, StepTypeOK, SettingsStay DEF IInv, Next
  <1> SUFFICES ASSUME NEW l \in Budgeted, spent'[l] >= MaxBudget[l]
               PROVE  spent'[l] + Cardinality(Late(l)') * MaxCost
                        <= (MaxBudget[l] - 1) + Connections * MaxCost
    BY Zenon, <1>0 DEF RoomForLate
  <1>1. l \in Ledgers /\ spent \in [Ledgers -> Nat] /\ spent' \in [Ledgers -> Nat]
    BY Zenon, <1>0 DEF TypeOK, Budgeted
  <1>2. CASE spent'[l] = spent[l]
    BY Zenon, <1>2, RoomStays
  <1>3. ASSUME NEW r \in Requests, Charge(r), spent'[l] # spent[l]
        PROVE  spent'[l] + Cardinality(Late(l)') * MaxCost
                 <= (MaxBudget[l] - 1) + Connections * MaxCost
    <2>1. PICK i \in Remaining(r) :
             /\ spent' = [spent EXCEPT ![Updates[i].ledger] = @ + Cost[r]]
                \/ UNCHANGED spent
             /\ step' = [step EXCEPT ![r] = i]
      BY Zenon, <1>3 DEF Charge
    <2>2. l = Updates[i].ledger /\ spent'[l] = spent[l] + Cost[r]
      BY Zenon, <1>1, <1>3, <2>1
    <2>3. Cost[r] \in Nat /\ Cost[r] <= MaxCost /\ MaxCost \in Nat
      BY Zenon, <1>0, Constants
    <2>4. spent'[l] <= spent[l] + MaxCost /\ spent'[l] \in Nat
      BY <1>1, <2>2, <2>3
    <2>5. InHandler' = InHandler /\ r \in Late(l) /\ r \notin Late(l)'
      BY Zenon, <1>0, <1>3, <2>1, <2>2, ChargedOnceOnly
    <2> QED BY Zenon, <2>4, <2>5, RoomUsed
  <1>4. ASSUME NEW r \in Requests,
               \/ Authenticate(r) \/ ReadEntity(r) \/ Refuse(r) \/ EvaluateBegin(r)
               \/ CheckBudgets(r) \/ RunFails(r) \/ Account(r) \/ Answer(r)
               \/ PutIfAbsent(r) \/ PutFails(r) \/ LogUsage(r)
        PROVE  spent' = spent
    BY Zenon, <1>4 DEF Authenticate, ReadEntity, Refuse, EvaluateBegin, CheckBudgets,
                RunFails, Account, Answer, PutIfAbsent, PutFails, LogUsage, store
  <1>5. ASSUME NEW c \in Configs, UpdateConfig(c) PROVE spent' = spent
    BY Zenon, <1>5 DEF UpdateConfig, store
  <1>6. CASE Tick
    BY Zenon, <1>2, <1>6 DEF Tick, store
  <1> QED BY Zenon, <1>2, <1>3, <1>4, <1>5, <1>6 DEF Next

-----------------------------------------------------------------------------

\* A new engine has recorded and charged nothing.
LEMMA InitIInv == ASSUME Init PROVE IInv
  <1> USE DEF Init
  <1>1. TypeOK
    <2>1. config \in Configs
      BY Zenon, GovernanceAssumption DEF FirstConfig, Configs
    <2>2. reads \in [Requests -> Seq(Entities)]
      OBVIOUS
    <2> QED BY <2>1, <2>2 DEF TypeOK
  <1>2. EntriesLast /\ OncePerWindow
    BY DEF EntriesLast, OncePerWindow
  <1>3. InHandler = {}
    BY Zenon DEF InHandler
  <1>4. Cardinality(InHandler) <= Connections
    BY <1>1, <1>3, Constants, FS_EmptySet
  <1>5. HandlersInOrder
    BY Zenon DEF HandlersInOrder
  <1>6. RoomForLate
    BY <1>1, Constants DEF RoomForLate, Budgeted
  <1> QED BY Zenon, <1>1, <1>2, <1>4, <1>5, <1>6 DEF IInv

\* Every step of a request, of a reload and of the clock keeps IInv.
LEMMA NextIInv == ASSUME IInv, [Next]_vars PROVE IInv'
  <1>1. CASE Next
    <2>1. Synchronous' = Synchronous
      BY Zenon, <1>1, SettingsStay DEF Next
    <2>2. /\ TypeOK' /\ EntriesLast' /\ OncePerWindow'
          /\ Cardinality(InHandler)' <= Connections'
      BY Zenon, <1>1, StepTypeOK, StepOnce, StepConnections
    <2>3. Synchronous => HandlersInOrder' /\ RoomForLate'
      BY Zenon, <1>1, StepOrder, StepRoom
    <2> QED BY Zenon, <2>1, <2>2, <2>3 DEF IInv
  <1>2. CASE UNCHANGED vars
    <2> USE <1>2 DEF IInv, vars
    <2>0. set' = set
      BY Zenon
    <2>1. TypeOK'
      BY Zenon, SettingsStay DEF TypeOK
    <2>2. EntriesLast' /\ OncePerWindow'
      BY Zenon, <2>0, SettingsStay DEF EntriesLast, OncePerWindow
    <2>3. InHandler' = InHandler
      BY Zenon, <2>0, SettingsStay DEF InHandler
    <2>4. \A l \in Budgeted : Late(l)' = Late(l)
      BY <2>0, <2>3, SettingsStay DEF Late, Unread, Uncharged, Remaining
    <2>5. HandlersInOrder => HandlersInOrder'
      BY Zenon, <2>0, SettingsStay DEF HandlersInOrder
    <2>6. RoomForLate => RoomForLate'
      BY Zenon, <2>0, <2>4, SettingsStay DEF RoomForLate
    <2> QED BY <2>0, <2>1, <2>2, <2>3, <2>5, <2>6, SettingsStay
  <1> QED BY Zenon, <1>1, <1>2

\* The invariant holds in every state.
LEMMA GovernanceInvariant == Spec => []IInv
  BY InitIInv, NextIInv, PTL DEF Spec

\* Requests admitted on a stale spend overrun a budget by no more than what the
\* requests that fit in the handlers at the same time can cost.
THEOREM OvershootIsBounded == Spec => []OvershootBounded
  <1>1. ASSUME IInv PROVE OvershootBounded
    <2> SUFFICES ASSUME Synchronous, NEW l \in Budgeted
                 PROVE  spent[l] <= (MaxBudget[l] - 1) + Connections * MaxCost
      BY Zenon DEF OvershootBounded, Synchronous, Budgeted
    <2>1. TypeOK /\ RoomForLate
      BY Zenon, <1>1 DEF IInv
    <2>2. /\ MaxCost \in Nat /\ MaxBudget[l] \in Nat /\ Connections \in Nat
          /\ spent[l] \in Nat
      BY Zenon, <2>1, Constants DEF TypeOK, Budgeted
    <2>3. Cardinality(Late(l)) \in Nat
      BY Zenon, <1>1, LateFinite
    <2>4. Cardinality(Late(l)) * MaxCost \in Nat /\ Connections * MaxCost \in Nat
      BY Zenon, <2>2, <2>3, ProductStep
    <2>5. CASE spent[l] >= MaxBudget[l]
      <3>1. spent[l] + Cardinality(Late(l)) * MaxCost
              <= (MaxBudget[l] - 1) + Connections * MaxCost
        BY Zenon, <2>1, <2>5 DEF RoomForLate
      <3> QED BY <2>2, <2>4, <3>1
    <2>6. CASE spent[l] < MaxBudget[l]
      BY <2>2, <2>4, <2>6
    <2> QED BY <2>2, <2>5, <2>6
  <1> QED BY <1>1, GovernanceInvariant, PTL

\* PutIfAbsent records two requests with one ID only a whole window apart,
\* whatever configurations are installed meanwhile and whatever writes fail.
LEMMA RecordedOncePerWindow == Spec => []OncePerWindow
  <1>1. IInv => OncePerWindow
    BY Zenon DEF IInv
  <1> QED BY <1>1, GovernanceInvariant, PTL

-----------------------------------------------------------------------------
\* Books

\* The requests of the usage log that have paid the i-th update
Paid(i) ==
    {r \in logged : acct[r] = "ended" \/ (acct[r] = "charge" /\ step[r] >= i)}

\* A request is logged before it pays, and pays each update once.
BooksInv ==
    /\ logged \subseteq Requests
    /\ \A r \in Requests :
           /\ pc[r] \in {"new", "authenticate", "resolve", "run"} => acct[r] = "none"
           /\ acct[r] \in {"none", "put", "log"} => step[r] = 0 /\ r \notin logged
           /\ ~failed /\ acct[r] = "charge" => r \in logged
    /\ ~failed => \A i \in Charges : spent[Updates[i].ledger] = Total(Cost, Paid(i))

\* A finite sum counts finitely many units.
LEMMA UnitsFinite ==
    ASSUME NEW S, IsFiniteSet(S), NEW c, \A r \in S : c[r] \in Nat
    PROVE  IsFiniteSet(Units(c, S))
  <1> DEFINE Slice(r) == {r} \X (1..c[r])
             Slices == {Slice(r) : r \in S}
             f == [r \in S |-> Slice(r)]
  <1>1. f \in Surjection(S, Slices)
    BY Zenon DEF Surjection
  <1>2. IsFiniteSet(Slices)
    <2> HIDE DEF f, Slices
    <2> QED BY Zenon, <1>1, FS_Surjection
  <1>3. ASSUME NEW r \in S
        PROVE  IsFiniteSet(Slice(r))
    <2>1. 1 \in Int /\ c[r] \in Int
      OBVIOUS
    <2>2. IsFiniteSet(1..c[r])
      BY Zenon, <2>1, FS_Interval
    <2> QED BY Zenon, <2>2, FS_Singleton, FS_Product
  <1>4. IsFiniteSet(UNION Slices)
    <2>1. \A T \in Slices : IsFiniteSet(T)
      BY Zenon, <1>3
    <2> HIDE DEF Slices
    <2> QED BY Zenon, <1>2, <2>1, FS_UNION
  <1> QED BY Zenon, <1>4 DEF Units

\* One term more adds what it is worth.
LEMMA TotalPlus ==
    ASSUME NEW S, IsFiniteSet(S), NEW r, r \notin S,
           NEW c, \A q \in S \cup {r} : c[q] \in Nat
    PROVE  Total(c, S \cup {r}) = Total(c, S) + c[r]
  <1> DEFINE Slice == {r} \X (1..c[r])
  <1>1. Units(c, S \cup {r}) = Units(c, S) \cup Slice
    BY Zenon DEF Units
  <1>2. Units(c, S) \cap Slice = {}
    <2>1. SUFFICES ASSUME NEW p \in Units(c, S), p \in Slice PROVE FALSE
      BY Zenon
    <2>2. PICK q \in S : p \in {q} \X (1..c[q])
      BY Zenon DEF Units
    <2> QED BY Zenon, <2>1, <2>2
  <1>3. IsFiniteSet(Units(c, S)) /\ Cardinality(Units(c, S)) \in Nat
    BY Zenon, UnitsFinite, FS_CardinalityType
  <1>4. IsFiniteSet(Slice) /\ Cardinality(Slice) = c[r]
    <2>1. 1 \in Int /\ c[r] \in Int /\ c[r] \in Nat
      OBVIOUS
    <2>2. IsFiniteSet(1..c[r]) /\ Cardinality(1..c[r]) = IF 1 > c[r] THEN 0 ELSE c[r] - 1 + 1
      BY Zenon, <2>1, FS_Interval
    <2>3. Cardinality(1..c[r]) = c[r]
      BY <2>1, <2>2
    <2>4. IsFiniteSet({r}) /\ Cardinality({r}) = 1
      BY Zenon, FS_Singleton
    <2>5. IsFiniteSet(Slice) /\ Cardinality(Slice) = Cardinality({r}) * Cardinality(1..c[r])
      BY Zenon, <2>2, <2>4, FS_Product
    <2> QED BY <2>1, <2>3, <2>4, <2>5
  <1>5. Cardinality(Units(c, S) \cup Slice)
          = Cardinality(Units(c, S)) + Cardinality(Slice) - Cardinality(Units(c, S) \cap Slice)
    <2> HIDE DEF Slice
    <2> QED BY Zenon, <1>3, <1>4, FS_Union
  <1>6. Cardinality({}) = 0
    BY Zenon, FS_EmptySet
  <1> QED
    <2>1. PICK n \in Nat, m \in Nat : n = Cardinality(Units(c, S)) /\ m = c[r]
      BY Zenon, <1>3
    <2>2. Cardinality(Units(c, S \cup {r})) = n + m - 0
      BY Zenon, <1>1, <1>2, <1>4, <1>5, <1>6, <2>1
    <2> QED BY <2>1, <2>2 DEF Total

\* The requests that have paid are finitely many and cost something.
LEMMA PaidFinite ==
    ASSUME TypeOK, BooksInv, NEW i
    PROVE  /\ Paid(i) \subseteq Requests /\ IsFiniteSet(Paid(i))
           /\ \A r \in Requests : Cost[r] \in Nat
  <1>1. Paid(i) \subseteq Requests
    BY Zenon DEF Paid, BooksInv
  <1>2. IsFiniteSet(Requests) /\ \A r \in Requests : Cost[r] \in Nat
    BY Zenon, Constants
  <1> QED BY Zenon, <1>1, <1>2, FS_Subset

\* No account call begins before the upstream call has answered.
LEMMA EarlyStep ==
    ASSUME TypeOK, BooksInv, Next
    PROVE  \A q \in Requests :
               pc'[q] \in {"new", "authenticate", "resolve", "run"} => acct'[q] = "none"
  <1> USE DEF TypeOK, BooksInv, environment, store, account
  <1>1. ASSUME NEW r \in Requests,
               \/ Authenticate(r) \/ ReadEntity(r) \/ Refuse(r) \/ EvaluateBegin(r)
               \/ CheckBudgets(r) \/ RunFails(r) \/ Answer(r)
        PROVE  \A q \in Requests :
                 pc'[q] \in {"new", "authenticate", "resolve", "run"} => acct'[q] = "none"
    <2>1. /\ acct' = acct
          /\ \A q \in Requests :
               pc'[q] \in {"new", "authenticate", "resolve", "run"} =>
                 pc[q] \in {"new", "authenticate", "resolve", "run"}
      BY Zenon, <1>1 DEF Authenticate, ReadEntity, Refuse, EvaluateBegin, CheckBudgets,
                  RunFails, Answer
    <2> QED BY Zenon, <2>1
  <1>2. ASSUME NEW r \in Requests, Account(r)
        PROVE  \A q \in Requests :
                 pc'[q] \in {"new", "authenticate", "resolve", "run"} => acct'[q] = "none"
    BY Zenon, <1>2 DEF Account
  <1>3. ASSUME NEW r \in Requests,
               PutIfAbsent(r) \/ PutFails(r) \/ LogUsage(r) \/ Charge(r)
        PROVE  \A q \in Requests :
                 pc'[q] \in {"new", "authenticate", "resolve", "run"} => acct'[q] = "none"
    <2>1. /\ pc' = pc /\ acct[r] \in {"put", "log", "charge"}
          /\ \A q \in Requests \ {r} : acct'[q] = acct[q]
      BY <1>3 DEF PutIfAbsent, PutFails, LogUsage, Charge
    <2> QED BY Zenon, <2>1
  <1>4. CASE Tick \/ \E c \in Configs : UpdateConfig(c)
    BY Zenon, <1>4 DEF Tick, UpdateConfig
  <1> QED BY Zenon, <1>1, <1>2, <1>3, <1>4 DEF Next

\* Steps that log nothing and charge nothing keep the books.
LEMMA BooksKept ==
    ASSUME TypeOK, BooksInv, set' = set, logged' = logged, spent' = spent,
           failed' = failed, step' = step,
           \A q \in Requests :
               \/ acct'[q] = acct[q]
               \/ acct[q] \in {"none", "put"} /\ acct'[q] # "charge",
           \A q \in Requests :
               pc'[q] \in {"new", "authenticate", "resolve", "run"} => acct'[q] = "none"
    PROVE  BooksInv'
  <1>1. /\ Requests' = Requests /\ Charges' = Charges /\ Cost' = Cost
        /\ logged \subseteq Requests
    BY Zenon, SettingsStay DEF BooksInv
  <1>2. ASSUME NEW q \in Requests
        PROVE  /\ acct'[q] \in {"none", "put", "log"} => step[q] = 0 /\ q \notin logged
               /\ ~failed /\ acct'[q] = "charge" => q \in logged
               /\ q \in logged => acct'[q] = acct[q]
    BY Zenon DEF BooksInv
  <1>3. \A i \in Charges : Paid(i)' = Paid(i)
    BY Zenon, <1>1, <1>2 DEF Paid
  <1> QED BY Zenon, <1>1, <1>2, <1>3 DEF BooksInv

\* The usage log takes a request that has paid nothing yet, or that is free.
LEMMA BooksLogged ==
    ASSUME TypeOK, BooksInv, set' = set, NEW r \in Requests, LogUsage(r),
           \A q \in Requests :
               pc'[q] \in {"new", "authenticate", "resolve", "run"} => acct'[q] = "none"
    PROVE  BooksInv'
  <1>1. /\ Requests' = Requests /\ Charges' = Charges /\ Cost' = Cost
        /\ logged \subseteq Requests
    BY Zenon, SettingsStay DEF BooksInv
  <1>2. /\ acct[r] = "log" /\ spent' = spent /\ step' = step
        /\ logged' \in {logged, logged \cup {r}}
        /\ ~failed' => ~failed /\ logged' = logged \cup {r}
        /\ \A q \in Requests \ {r} : acct'[q] = acct[q]
        /\ acct'[r] \in {"charge", "ended"}
        /\ acct'[r] = "ended" => ~(Cost[r] > 0) \/ Charges = {}
    BY DEF LogUsage, TypeOK
  <1>3. r \notin logged /\ step[r] = 0
    BY Zenon, <1>2 DEF BooksInv
  <1>4. ASSUME NEW q \in Requests
        PROVE  /\ acct'[q] \in {"none", "put", "log"} => step'[q] = 0 /\ q \notin logged'
               /\ ~failed' /\ acct'[q] = "charge" => q \in logged'
    BY Zenon, <1>2 DEF BooksInv
  <1>5. ASSUME ~failed', NEW i \in Charges
        PROVE  spent'[Updates[i].ledger] = Total(Cost, Paid(i)')
    <2>1. spent[Updates[i].ledger] = Total(Cost, Paid(i))
      BY Zenon, <1>2, <1>5 DEF BooksInv
    <2>2. CASE acct'[r] = "charge"
      <3>1. ~(step'[r] >= i)
        <4>1. i \in 1..9
          BY Zenon, UpdateLedgers DEF Charges
        <4> QED BY <1>2, <1>3, <4>1
      <3>2. Paid(i)' = Paid(i)
        BY Zenon, <1>1, <1>2, <1>3, <1>5, <2>2, <3>1 DEF Paid
      <3> QED BY Zenon, <1>2, <2>1, <3>2
    <2>3. CASE acct'[r] = "ended"
      <3>1. Cost[r] = 0
        <4>1. Cost[r] \in Nat
          BY Zenon, PaidFinite
        <4> QED BY <1>2, <1>5, <2>3, <4>1
      <3>2. Paid(i)' = Paid(i) \cup {r}
        BY Zenon, <1>1, <1>2, <1>3, <1>5, <2>3 DEF Paid
      <3>3. r \notin Paid(i)
        BY Zenon, <1>3 DEF Paid
      <3>4. IsFiniteSet(Paid(i)) /\ \A q \in Paid(i) \cup {r} : Cost[q] \in Nat
        BY Zenon, PaidFinite
      <3>5. Total(Cost, Paid(i)') = Total(Cost, Paid(i)) + 0
        BY <3>1, <3>2, <3>3, <3>4, TotalPlus
      <3>6. Total(Cost, Paid(i)) \in Nat
        BY Zenon, <3>4, UnitsFinite, FS_CardinalityType DEF Total
      <3> QED BY <1>2, <2>1, <3>5, <3>6
    <2> QED BY Zenon, <1>2, <2>2, <2>3
  <1>6. logged' \subseteq Requests
    BY Zenon, <1>1, <1>2
  <1> QED BY Zenon, <1>1, <1>4, <1>5, <1>6 DEF BooksInv

\* A charge adds one payer to one ledger.
LEMMA BooksCharged ==
    ASSUME TypeOK, BooksInv, TypeOK', set' = set, NEW r \in Requests, Charge(r),
           \A q \in Requests :
               pc'[q] \in {"new", "authenticate", "resolve", "run"} => acct'[q] = "none"
    PROVE  BooksInv'
  <1>1. /\ Requests' = Requests /\ Charges' = Charges /\ Cost' = Cost
        /\ logged \subseteq Requests
    BY Zenon, SettingsStay DEF BooksInv
  <1>2. /\ acct[r] = "charge" /\ logged' = logged
        /\ ~failed' => ~failed
        /\ \A q \in Requests \ {r} : acct'[q] = acct[q] /\ step'[q] = step[q]
        /\ acct'[r] \in {"charge", "ended"}
    BY DEF Charge, TypeOK
  <1>3. ~failed => r \in logged
    BY Zenon, <1>2 DEF BooksInv
  <1>4. ASSUME NEW q \in Requests
        PROVE  /\ acct'[q] \in {"none", "put", "log"} => step'[q] = 0 /\ q \notin logged
               /\ ~failed' /\ acct'[q] = "charge" => q \in logged
    BY Zenon, <1>2, <1>3 DEF BooksInv
  <1>5. PICK k \in Remaining(r) :
          /\ \A j \in Remaining(r) : k <= j
          /\ ~failed' => spent' = [spent EXCEPT ![Updates[k].ledger] = @ + Cost[r]]
          /\ step' = [step EXCEPT ![r] = k]
          /\ acct'[r] = IF Remaining(r) = {k} THEN "ended" ELSE "charge"
    BY ZenonT(60) DEF Charge, TypeOK
  <1>6. k \in Charges /\ step'[r] = k /\ step[r] \in Nat /\ \A i \in Charges : i \in 1..9
    <2>1. k \in Charges
      BY Zenon, <1>5 DEF Remaining
    <2>2. step'[r] = k
      BY Zenon, <1>5 DEF TypeOK
    <2>3. step[r] \in 0..9
      BY Zenon DEF TypeOK
    <2>4. \A i \in Charges : i \in 1..9
      BY Zenon, UpdateLedgers DEF Charges
    <2> QED BY <2>1, <2>2, <2>3, <2>4
  <1>7. ASSUME NEW i \in Charges, i # k
        PROVE  (acct'[r] = "ended" \/ step'[r] >= i) <=> step[r] >= i
    <2>1. CASE step[r] >= i
      <3>1. k > step[r]
        BY Zenon, <1>5 DEF Remaining
      <3> QED BY <1>6, <2>1, <3>1
    <2>2. CASE ~(step[r] >= i)
      <3>1. i \in Remaining(r)
        BY <1>6, <2>2 DEF Remaining
      <3>2. k <= i /\ Remaining(r) # {k}
        BY Zenon, <1>5, <1>7, <3>1
      <3> QED BY <1>5, <1>6, <1>7, <2>2, <3>2
    <2> QED BY Zenon, <2>1, <2>2
  <1>8. ASSUME ~failed', NEW i \in Charges
        PROVE  spent'[Updates[i].ledger] = Total(Cost, Paid(i)')
    <2>1. spent[Updates[i].ledger] = Total(Cost, Paid(i)) /\ r \in logged
      BY Zenon, <1>2, <1>3, <1>8 DEF BooksInv
    <2>2. /\ i \in 1..9 /\ k \in 1..9 /\ spent \in [Ledgers -> Nat] /\ Cost[r] \in Nat
          /\ Updates[i].ledger \in Ledgers /\ Updates[k].ledger \in Ledgers
      BY Zenon, <1>6, UpdateLedgers, PaidFinite DEF TypeOK
    <2>3. CASE i = k
      <3>1. r \notin Paid(i)
        <4>1. ~(step[r] >= k)
          BY <1>5, <1>6, <2>2 DEF Remaining
        <4> QED BY Zenon, <1>2, <2>3, <4>1 DEF Paid
      <3>2. Paid(i)' = Paid(i) \cup {r}
        <4>1. acct'[r] = "ended" \/ (acct'[r] = "charge" /\ step'[r] >= i)
          BY <1>2, <1>6, <2>2, <2>3
        <4>2. ASSUME NEW q \in logged, q # r
              PROVE  acct'[q] = acct[q] /\ step'[q] = step[q]
          BY Zenon, <1>1, <1>2, <4>2
        <4> QED BY Zenon, <1>2, <2>1, <4>1, <4>2 DEF Paid
      <3>3. IsFiniteSet(Paid(i)) /\ \A q \in Paid(i) \cup {r} : Cost[q] \in Nat
        BY Zenon, PaidFinite
      <3>4. Total(Cost, Paid(i)') = Total(Cost, Paid(i)) + Cost[r]
        BY Zenon, <3>1, <3>2, <3>3, TotalPlus
      <3>5. spent'[Updates[i].ledger] = spent[Updates[i].ledger] + Cost[r]
        BY Zenon, <1>5, <1>8, <2>2, <2>3
      <3> QED BY Zenon, <2>1, <3>4, <3>5
    <2>4. CASE i # k
      <3>1. Updates[i].ledger # Updates[k].ledger
        BY Zenon, <2>2, <2>4, UpdateLedgers
      <3>2. spent'[Updates[i].ledger] = spent[Updates[i].ledger]
        BY Zenon, <1>5, <1>8, <2>2, <3>1
      <3>3. Paid(i)' = Paid(i)
        <4>1. (acct'[r] = "ended" \/ step'[r] >= i) <=> step[r] >= i
          BY Zenon, <1>7, <2>4
        <4>2. ASSUME NEW q \in logged, q # r
              PROVE  acct'[q] = acct[q] /\ step'[q] = step[q]
          BY Zenon, <1>1, <1>2, <4>2
        <4> QED BY <1>2, <4>1, <4>2 DEF Paid
      <3> QED BY Zenon, <2>1, <3>2, <3>3
    <2> QED BY Zenon, <2>3, <2>4
  <1> QED BY Zenon, <1>1, <1>2, <1>4, <1>8 DEF BooksInv

\* Every step keeps the books.
LEMMA BooksStep ==
    ASSUME IInv, BooksInv, [Next]_vars
    PROVE  BooksInv'
  <1>0. TypeOK
    BY Zenon DEF IInv
  <1>1. CASE UNCHANGED vars
    <2>1. /\ set' = set /\ logged' = logged /\ spent' = spent /\ failed' = failed
          /\ step' = step /\ acct' = acct /\ pc' = pc
      BY Zenon, <1>1 DEF vars
    <2>2. \A q \in Requests :
            pc'[q] \in {"new", "authenticate", "resolve", "run"} => acct'[q] = "none"
      BY Zenon, <2>1 DEF BooksInv
    <2> QED BY Zenon, <1>0, <2>1, <2>2, BooksKept
  <1>2. CASE Next
    <2>0. /\ set' = set /\ TypeOK'
          /\ \A q \in Requests :
               pc'[q] \in {"new", "authenticate", "resolve", "run"} => acct'[q] = "none"
      BY Zenon, <1>0, <1>2, EarlyStep, StepTypeOK DEF Next
    <2>1. ASSUME NEW r \in Requests,
                 \/ Authenticate(r) \/ ReadEntity(r) \/ Refuse(r) \/ EvaluateBegin(r)
                 \/ CheckBudgets(r) \/ RunFails(r) \/ Account(r) \/ Answer(r)
                 \/ PutIfAbsent(r) \/ PutFails(r)
          PROVE  BooksInv'
      <3>1. /\ logged' = logged /\ spent' = spent /\ failed' = failed /\ step' = step
            /\ \A q \in Requests \ {r} : acct'[q] = acct[q]
            /\ acct'[r] = acct[r] \/ pc[r] = "run" \/ acct[r] = "put"
            /\ acct'[r] = acct[r] \/ acct'[r] # "charge"
        BY Zenon, <1>0, <2>1 DEF Authenticate, ReadEntity, Refuse, EvaluateBegin, CheckBudgets,
           RunFails, Account, Answer, PutIfAbsent, PutFails, store, account, TypeOK
      <3>2. \A q \in Requests :
              \/ acct'[q] = acct[q]
              \/ acct[q] \in {"none", "put"} /\ acct'[q] # "charge"
        BY Zenon, <3>1 DEF BooksInv
      <3> QED BY Zenon, <1>0, <2>0, <3>1, <3>2, BooksKept
    <2>2. ASSUME NEW r \in Requests, LogUsage(r) PROVE BooksInv'
      BY Zenon, <1>0, <2>0, <2>2, BooksLogged
    <2>3. ASSUME NEW r \in Requests, Charge(r) PROVE BooksInv'
      BY Zenon, <1>0, <2>0, <2>3, BooksCharged
    <2>4. CASE Tick \/ \E c \in Configs : UpdateConfig(c)
      <3>1. /\ logged' = logged /\ spent' = spent /\ failed' = failed
            /\ step' = step /\ acct' = acct
        BY Zenon, <2>4 DEF Tick, UpdateConfig, store, account
      <3> QED BY Zenon, <1>0, <2>0, <3>1, BooksKept
    <2> QED BY Zenon, <1>2, <2>1, <2>2, <2>3, <2>4 DEF Next
  <1> QED BY Zenon, <1>1, <1>2

\* A new engine's books are empty.
LEMMA BooksInit == ASSUME Init PROVE BooksInv
  <1>1. /\ logged = {} /\ ~failed /\ \A l \in Ledgers : spent[l] = 0
        /\ \A r \in Requests : acct[r] = "none" /\ step[r] = 0
    BY Zenon DEF Init
  <1>2. \A i \in Charges : Paid(i) = {}
    BY Zenon, <1>1 DEF Paid
  <1>3. Total(Cost, {}) = 0
    <2>1. Units(Cost, {}) = {}
      BY Zenon DEF Units
    <2> QED BY Zenon, <2>1, FS_EmptySet DEF Total
  <1>4. \A i \in Charges : spent[Updates[i].ledger] = 0
    BY Zenon, <1>1, UpdateLedgers DEF Charges
  <1> QED BY Zenon, <1>1, <1>2, <1>3, <1>4 DEF BooksInv

\* The invariant of the books holds in every state.
LEMMA BooksInvariant == Spec => []BooksInv
  <1>1. Init => BooksInv
    BY Zenon, BooksInit
  <1>2. IInv /\ BooksInv /\ [Next]_vars => BooksInv'
    BY Zenon, BooksStep
  <1> QED BY <1>1, <1>2, GovernanceInvariant, PTL DEF Spec

\* Whenever no account call is under way and no write has failed, every ledger
\* of the identity tells the total of the usage log; and PutIfAbsent records two
\* requests with one ID only a whole window apart, whatever configurations are
\* installed meanwhile and whatever writes fail.
THEOREM AccountsAreExact == Spec => []AccountsExact
  <1>1. ASSUME BooksInv PROVE BooksBalance
    <2>1. SUFFICES ASSUME Quiescent, ~failed, NEW i \in Charges
                   PROVE  spent[Updates[i].ledger] = Total(Cost, logged)
      BY Zenon DEF BooksBalance
    <2>2. \A r \in logged : acct[r] = "ended"
      BY Zenon, <1>1, <2>1 DEF BooksInv, Quiescent
    <2>3. Paid(i) = logged
      BY Zenon, <2>2 DEF Paid
    <2> QED BY Zenon, <1>1, <2>1, <2>3 DEF BooksInv
  <1> QED BY <1>1, BooksInvariant, RecordedOncePerWindow, PTL DEF AccountsExact
=============================================================================
