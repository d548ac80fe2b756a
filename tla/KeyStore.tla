------------------------------ MODULE KeyStore ------------------------------
(***************************************************************************)
(* API keys in the in-memory auth store (internal/auth/memory.go), with    *)
(* the management handlers that change them (internal/api/management.go)   *)
(* and the job runner that resets budgets and rotates keys                 *)
(* (internal/auth/jobs.go).                                                *)
(*                                                                         *)
(* The store keeps key objects under two indexes, by hash (which           *)
(* authentication uses) and by ID (which every update uses).  A store      *)
(* method is atomic; a handler that reads a key, edits its copy and writes *)
(* it back is not, and neither is a run of the jobs.                       *)
(***************************************************************************)
EXTENDS Integers, Sequences, FiniteSets

CONSTANT Settings   \* the stores that are considered

VARIABLE set        \* the settings of this store

KeyIDs == set.KeyIDs            \* IDs the store can give out
Generated == set.Generated      \* those POST /key/generate gives out, the others rotation
Handlers == set.Handlers        \* concurrent UpdateKey / RegenerateKey requests
Operations == set.Operations    \* which of "update", "regenerate" they perform
Period == set.Period            \* budget duration of every key
Interval == set.Interval        \* rotation interval of an auto-rotated key
AutoRotate == set.AutoRotate    \* whether keys are generated with auto rotation
MaxObjects == set.MaxObjects    \* bound: key objects ever stored
MaxSpend == set.MaxSpend        \* bound: charges to one key object
MaxClock == set.MaxClock        \* bound: time

ASSUME KeyStoreAssumption ==
    \A s \in Settings :
        /\ {s.Period, s.Interval, s.MaxObjects} \subseteq Nat \ {0}
        /\ {s.MaxSpend, s.MaxClock} \subseteq Nat /\ s.AutoRotate \in BOOLEAN
        /\ s.Generated \subseteq s.KeyIDs
        /\ s.Operations \subseteq {"update", "regenerate"}

Hashes == 1..(2 * MaxObjects)

VARIABLES
    objects,    \* the key objects, in order of allocation
    apiKeys,    \* [Hashes -> index into objects, 0 if absent]
    apiKeysByID,\* [KeyIDs -> index into objects, 0 if absent]
    nextHash,   \* credentials are never generated twice
    clock,
    handler,    \* [Handlers -> operation under way and the copy it edits]
    job         \* the job runner: phase and what its phase's query returned

vars == <<set, objects, apiKeys, apiKeysByID, nextHash, clock, handler, job>>
indexes == <<apiKeys, apiKeysByID>>

Idle == [op |-> "idle"]
Resting == [phase |-> "rest"]

Init ==
    /\ set \in Settings
    /\ objects = <<>> /\ nextHash = 1 /\ clock = 1
    /\ apiKeys = [h \in Hashes |-> 0] /\ apiKeysByID = [k \in KeyIDs |-> 0]
    /\ handler = [h \in Handlers |-> Idle] /\ job = Resting

-----------------------------------------------------------------------------
(* Methods of the store.                                                   *)

Known(k) == apiKeysByID[k] # 0
ByID(k) == objects[apiKeysByID[k]]
Stored == {objects[apiKeys[h]] : h \in {g \in Hashes : apiKeys[g] # 0}}

CreateAPIKey(key) ==
    /\ Len(objects) < MaxObjects
    /\ objects' = Append(objects, key)
    /\ apiKeys' = [apiKeys EXCEPT ![key.hash] = Len(objects) + 1]
    /\ apiKeysByID' = [apiKeysByID EXCEPT ![key.id] = Len(objects) + 1]

\* Mutant: the hash index keeps the old object.
UpdateAPIKey_OnlyByID(key) ==
    /\ Len(objects) < MaxObjects
    /\ objects' = Append(objects, key)
    /\ apiKeysByID' = [apiKeysByID EXCEPT ![key.id] = Len(objects) + 1]
    /\ UNCHANGED apiKeys

\* The new object goes under the hash the key had so far, not its new one.
UpdateAPIKey(key) ==
    /\ Len(objects) < MaxObjects
    /\ objects' = Append(objects, key)
    /\ apiKeys' = [apiKeys EXCEPT ![ByID(key.id).hash] = Len(objects) + 1]
    /\ apiKeysByID' = [apiKeysByID EXCEPT ![key.id] = Len(objects) + 1]

\* The methods that change a field of the object found by ID.
SetField(k, key) ==
    /\ objects' = [objects EXCEPT ![apiKeysByID[k]] = key]
    /\ UNCHANGED indexes

UpdateAPIKeySpent(k) == SetField(k, [ByID(k) EXCEPT !.spent = @ + 1])
BlockAPIKey(k, b) == SetField(k, [ByID(k) EXCEPT !.blocked = b])

DeleteAPIKey(k) == SetField(k, [ByID(k) EXCEPT !.active = FALSE])

\* Mutant: the next reset time is not advanced.
ResetAPIKeyBudget_SameTime(k) == SetField(k, [ByID(k) EXCEPT !.spent = 0])

ResetAPIKeyBudget(k) ==
    SetField(k, [ByID(k) EXCEPT !.spent = 0, !.resetAt = clock + Period])

-----------------------------------------------------------------------------
(* Management handlers and requests.                                       *)

\* POST /key/generate
GenerateKey(k) ==
    /\ k \in Generated /\ ~Known(k)
    /\ CreateAPIKey([id |-> k, name |-> k, hash |-> nextHash, spent |-> 0,
                     blocked |-> FALSE, active |-> TRUE, resetAt |-> clock + Period,
                     rotateAt |-> IF AutoRotate THEN clock + Interval ELSE 0])
    /\ nextHash' = nextHash + 1
    /\ UNCHANGED <<clock, handler, job>>

\* POST /key/update and /key/regenerate: the read.
ReadKey(h, k) ==
    /\ handler[h] = Idle /\ Known(k)
    /\ \E op \in Operations :
           handler' = [handler EXCEPT ![h] = [op |-> op, key |-> ByID(k)]]
    /\ UNCHANGED <<objects, indexes, nextHash, clock, job>>

\* POST /key/update: the write, with or without a new budget duration.
UpdateKey(h) ==
    /\ handler[h].op = "update"
    /\ \E resetAt \in {handler[h].key.resetAt, clock + Period} :
           UpdateAPIKey([handler[h].key EXCEPT !.resetAt = resetAt])
    /\ handler' = [handler EXCEPT ![h] = Idle]
    /\ UNCHANGED <<nextHash, clock, job>>

\* POST /key/regenerate: the write, with new credentials, which are answered.
RegenerateKey(h) ==
    /\ handler[h].op = "regenerate" /\ nextHash \in Hashes
    /\ LET key == handler[h].key
           next == IF key.rotateAt > 0 THEN clock + Interval ELSE 0
       IN  UpdateAPIKey([key EXCEPT !.hash = nextHash, !.rotateAt = next])
    /\ nextHash' = nextHash + 1
    /\ handler' = [handler EXCEPT ![h] = Idle]
    /\ UNCHANGED <<clock, job>>

\* POST /key/block, /key/unblock
BlockKey(k, b) ==
    /\ Known(k)
    /\ BlockAPIKey(k, b)
    /\ UNCHANGED <<nextHash, clock, handler, job>>

\* POST /key/delete
DeleteKey(k) ==
    /\ Known(k)
    /\ DeleteAPIKey(k)
    /\ UNCHANGED <<nextHash, clock, handler, job>>

\* The accounting of a request that authenticated as this key.
Spend(k) ==
    /\ Known(k) /\ ByID(k).spent < MaxSpend
    /\ UpdateAPIKeySpent(k)
    /\ UNCHANGED <<nextHash, clock, handler, job>>

-----------------------------------------------------------------------------
(* The job runner.                                                         *)

\* runJobs starts: GetKeysNeedingBudgetReset, over the objects under a hash.
ResetQuery ==
    /\ job = Resting
    /\ job' = [phase |-> "reset",
               keys |-> {key.id : key \in {o \in Stored : o.active /\ clock > o.resetAt}}]
    /\ UNCHANGED <<objects, indexes, nextHash, clock, handler>>

ResetKey(k) ==
    /\ job.phase = "reset" /\ k \in job.keys
    /\ ResetAPIKeyBudget(k)
    /\ job' = [job EXCEPT !.keys = @ \ {k}]
    /\ UNCHANGED <<nextHash, clock, handler>>

\* findKeysNeedingRotation: active, auto-rotated, past their rotation time.
RotateQuery ==
    /\ job.phase = "reset" /\ job.keys = {}
    /\ job' = [phase |-> "rotate",
               keys |-> {o \in Stored : o.active /\ o.rotateAt > 0 /\ clock > o.rotateAt}]
    /\ UNCHANGED <<objects, indexes, nextHash, clock, handler>>

\* rotateKey, first half: the old key is deactivated.
RotateDelete(key) ==
    /\ DeleteAPIKey(key.id)
    /\ job' = [phase |-> "create", keys |-> job.keys \ {key}, old |-> key]
    /\ UNCHANGED <<nextHash, clock, handler>>

\* rotateKey, second half: a key with the same settings, a new ID and new
\* credentials, which nobody is told.
RotateCreate(k) ==
    /\ job.phase = "create" /\ ~Known(k) /\ nextHash \in Hashes
    /\ CreateAPIKey([job.old EXCEPT !.id = k, !.hash = nextHash, !.spent = 0,
           !.blocked = FALSE, !.active = TRUE,
           !.rotateAt = clock + Interval])
    /\ nextHash' = nextHash + 1
    /\ job' = [phase |-> "rotate", keys |-> job.keys]
    /\ UNCHANGED <<clock, handler>>

JobsEnd ==
    /\ job.phase = "rotate" /\ job.keys = {}
    /\ job' = Resting
    /\ UNCHANGED <<objects, indexes, nextHash, clock, handler>>

Tick ==
    /\ clock < MaxClock
    /\ clock' = clock + 1
    /\ UNCHANGED <<objects, indexes, nextHash, handler, job>>

RunJobs ==
    \/ ResetQuery \/ RotateQuery \/ JobsEnd
    \/ \E k \in KeyIDs : ResetKey(k) \/ RotateCreate(k)
    \/ job.phase = "rotate" /\ \E key \in job.keys : RotateDelete(key)

Next ==
    /\ \/ \E k \in KeyIDs :
            \/ GenerateKey(k) \/ DeleteKey(k) \/ Spend(k)
            \/ \E b \in BOOLEAN : BlockKey(k, b)
            \/ \E h \in Handlers : ReadKey(h, k)
       \/ \E h \in Handlers : UpdateKey(h) \/ RegenerateKey(h)
       \/ RunJobs \/ Tick
    /\ UNCHANGED set

Spec == Init /\ [][Next]_vars

\* The runner's goroutine loops on a ticker for as long as the server runs.
FairSpec == Spec /\ WF_vars(RunJobs /\ UNCHANGED set)

-----------------------------------------------------------------------------
(* Properties.                                                             *)

\* MemoryStore: as long as no credentials are regenerated, authentication (by
\* hash) and the updates (by ID) work on the same object, through concurrent
\* UpdateKey requests and rotations: what is blocked, deleted or charged by ID
\* is what the next request is judged by.
IndexesAgree ==
    "regenerate" \notin Operations =>
    \A k \in KeyIDs : Known(k) => apiKeys[ByID(k).hash] = apiKeysByID[k]

\* rotateKey: a rotated key is deactivated before its successor exists, so
\* that no two keys of one name are accepted at the same time, unless an
\* UpdateKey that read the key before writes its old state back.
AtMostOneActive ==
    Handlers = {} =>
    \A a, b \in {o \in Stored : o.active} : a.name = b.name => a = b

\* The bounds of the model leave the runner no room to store a rotated key.
OutOfBounds ==
    /\ job.phase = "create"
    /\ \/ Len(objects) = MaxObjects \/ nextHash \notin Hashes
       \/ \A k \in KeyIDs : Known(k)

\* JobRunner: the budget of an active key whose period is over is reset sooner
\* or later, whatever UpdateKey, RegenerateKey and rotation do meanwhile.
DueIsReset ==
    \A k \in UNION {s.KeyIDs : s \in Settings} :
        (k \in KeyIDs /\ Known(k) /\ ByID(k).active /\ clock > ByID(k).resetAt)
            ~> \/ OutOfBounds
               \/ /\ k \in KeyIDs /\ Known(k)
                  /\ ~ByID(k).active \/ clock <= ByID(k).resetAt

\* What requests are judged by: the key that was blocked, deleted, charged or updated by its ID, and
\* of a rotated key only the successor.
KeysAgree == IndexesAgree /\ AtMostOneActive

=============================================================================
