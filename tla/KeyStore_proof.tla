--------------------------- MODULE KeyStore_proof ---------------------------
(***************************************************************************)
(* The two indexes of the key store agree, and of a rotated key only the   *)
(* successor is accepted, for every number of keys, handlers and objects.  *)
(*                                                                         *)
(* Handlers and the job runner work on copies of keys that they have read  *)
(* earlier.  The invariant says what stays true of a copy while others     *)
(* change the store.                                                       *)
(***************************************************************************)
EXTENDS KeyStore, TLAPS

USE SMTT(30)

Objects ==
    [id : KeyIDs, name : KeyIDs, hash : Hashes, spent : Nat, blocked : BOOLEAN,
     active : BOOLEAN, resetAt : Nat, rotateAt : Nat]

TypeOK ==
    /\ set \in Settings
    /\ objects \in Seq(Objects)
    /\ apiKeys \in [Hashes -> 0..Len(objects)]
    /\ apiKeysByID \in [KeyIDs -> 0..Len(objects)]
    /\ nextHash \in Nat \ {0} /\ clock \in Nat
    /\ handler \in [Handlers -> {Idle} \cup [op : Operations, key : Objects]]
    /\ job \in {Resting} \cup [phase : {"reset"}, keys : SUBSET KeyIDs]
              \cup [phase : {"rotate"}, keys : SUBSET Objects]
              \cup [phase : {"create"}, keys : SUBSET Objects, old : Objects]

\* The ID and the name of every object ever stored are taken, and its
\* credentials will not be generated again.
Taken(o) == Known(o.id) /\ Known(o.name) /\ o.hash < nextHash

Stocked ==
    /\ nextHash <= Len(objects) + 1
    /\ \A i \in 1..Len(objects) : Taken(objects[i])
    /\ \A k \in KeyIDs : Known(k) => ByID(k).id = k

\* So they are for the copies that handlers and the job runner hold.
HandlersTaken ==
    \A h \in Handlers : handler[h].op # "idle" => Taken(handler[h].key)

JobTaken ==
    /\ job.phase = "reset" => \A k \in job.keys : Known(k)
    /\ job.phase \in {"rotate", "create"} => \A o \in job.keys : Taken(o)
    /\ job.phase = "create" => Taken(job.old)

\* An update finds its key under the hash that its copy has.
HashesStay ==
    \A h \in Handlers :
        handler[h].op # "idle" => handler[h].key.hash = ByID(handler[h].key.id).hash

\* The object that is active under a name, if any, is the one with this ID.
OnlyActive(name, id) ==
    \A i \in 1..Len(objects) :
        objects[i].active /\ objects[i].name = name => objects[i].id = id

\* Of the objects with one name, one is active; an object is never replaced.
OneActive ==
    /\ \A i \in 1..Len(objects) : apiKeysByID[objects[i].id] = i
    /\ \A i \in 1..Len(objects) :
           objects[i].active => OnlyActive(objects[i].name, objects[i].id)

\* The runner rotates each key once, and no active one of its name is left when
\* it stores the successor.
RotatesOnce ==
    /\ job.phase \in {"rotate", "create"} =>
           \A a \in job.keys :
               /\ OnlyActive(a.name, a.id)
               /\ \A b \in job.keys : a.name = b.name => a = b
    /\ job.phase = "create" =>
           /\ \A a \in job.keys : a.name # job.old.name
           /\ \A i \in 1..Len(objects) :
                  objects[i].name = job.old.name => ~objects[i].active

IInv ==
    /\ TypeOK /\ Stocked /\ HandlersTaken /\ JobTaken
    /\ "regenerate" \notin Operations => IndexesAgree /\ HashesStay
    /\ Handlers = {} => OneActive /\ RotatesOnce


-----------------------------------------------------------------------------
\* Settings, sequences, and what is read from the store

\* What the assumption says of the settings
LEMMA Constants ==
    ASSUME set \in Settings
    PROVE  /\ Period \in Nat /\ Interval \in Nat /\ MaxObjects \in Nat
           /\ Generated \subseteq KeyIDs /\ "idle" \notin Operations
  BY KeyStoreAssumption DEF Period, Interval, MaxObjects, Generated, KeyIDs, Operations

\* The settings do not change.
LEMMA SettingsStay ==
    ASSUME set' = set
    PROVE  /\ KeyIDs' = KeyIDs /\ Handlers' = Handlers /\ Operations' = Operations
           /\ Hashes' = Hashes /\ Objects' = Objects
  BY Zenon DEF KeyIDs, Handlers, Operations, Hashes, MaxObjects, Objects

\* The objects found by an ID or a hash, and the copies
LEMMA Reads ==
    ASSUME TypeOK
    PROVE  /\ Len(objects) \in Nat /\ \A i \in 1..Len(objects) : objects[i] \in Objects
           /\ \A k \in KeyIDs :
                  Known(k) => apiKeysByID[k] \in 1..Len(objects) /\ ByID(k) \in Objects
           /\ \A o \in Stored : \E i \in 1..Len(objects) : o = objects[i]
           /\ \A h \in Handlers :
                  handler[h].op # "idle" =>
                      handler[h].op \in Operations /\ handler[h].key \in Objects
  <1>1. /\ Len(objects) \in Nat
        /\ \A i \in 1..Len(objects) : objects[i] \in Objects
    BY DEF TypeOK
  <1>2. ASSUME NEW k \in KeyIDs, Known(k)
        PROVE  apiKeysByID[k] \in 1..Len(objects) /\ ByID(k) \in Objects
    <2>1. apiKeysByID[k] \in 1..Len(objects)
      BY <1>1, <1>2 DEF TypeOK, Known
    <2> QED BY Zenon, <1>1, <2>1 DEF ByID
  <1>3. ASSUME NEW o \in Stored PROVE \E i \in 1..Len(objects) : o = objects[i]
    <2>1. PICK h \in Hashes : apiKeys[h] # 0 /\ o = objects[apiKeys[h]]
      BY Zenon, <1>3 DEF Stored
    <2>2. apiKeys[h] \in 1..Len(objects)
      BY <1>1, <2>1 DEF TypeOK
    <2> QED BY Zenon, <2>1, <2>2
  <1>4. ASSUME NEW h \in Handlers, handler[h].op # "idle"
        PROVE  handler[h].op \in Operations /\ handler[h].key \in Objects
    <2>1. handler[h] # Idle
      BY <1>4 DEF Idle
    <2>2. handler[h] \in [op : Operations, key : Objects]
      BY Zenon, <2>1 DEF TypeOK
    <2> QED BY <2>2
  <1> QED BY Zenon, <1>1, <1>2, <1>3, <1>4

-----------------------------------------------------------------------------
\* What the steps do to the store: they set other fields, add an object under a new
\* ID, or replace the object of an ID by a copy.

Same(o, p) == p.id = o.id /\ p.name = o.name /\ p.hash = o.hash /\ (p.active => o.active)

Keeps ==
    /\ UNCHANGED <<set, indexes, nextHash>>
    /\ objects' \in Seq(Objects) /\ Len(objects') = Len(objects)
    /\ \A i \in 1..Len(objects) : Same(objects[i], objects'[i])

Adds(key) ==
    /\ CreateAPIKey(key)
    /\ set' = set /\ handler' = handler /\ nextHash' = nextHash + 1
    /\ key \in Objects /\ key.hash = nextHash
    /\ ~Known(key.id) /\ (key.name = key.id \/ Known(key.name))

Replaces(h, key) ==
    /\ UpdateAPIKey(key)
    /\ set' = set /\ handler' = [handler EXCEPT ![h] = Idle] /\ job' = job
    /\ key \in Objects /\ handler[h].op # "idle"
    /\ key.id = handler[h].key.id /\ key.name = handler[h].key.name
    /\ \/ key.hash = handler[h].key.hash /\ nextHash' = nextHash
       \/ handler[h].op = "regenerate" /\ key.hash = nextHash /\ nextHash' = nextHash + 1

\* What is found by an ID after an object has been added or a copy written back
Enlarged(key) ==
    /\ objects' \in Seq(Objects) /\ Len(objects') = Len(objects) + 1
    /\ objects'[Len(objects) + 1] = key
    /\ \A i \in 1..Len(objects) : objects'[i] = objects[i]
    /\ \A k \in KeyIDs : Known(k)' <=> Known(k) \/ k = key.id
    /\ \A k \in KeyIDs : k # key.id /\ Known(k) =>
           ByID(k)' = ByID(k) /\ apiKeysByID'[k] = apiKeysByID[k]
    /\ ByID(key.id)' = key /\ apiKeysByID'[key.id] = Len(objects) + 1
    /\ key.id \in KeyIDs /\ Known(key.id)'

\* A step that leaves the objects alone
LEMMA NothingSet ==
    ASSUME IInv, UNCHANGED <<set, objects, indexes, nextHash>> PROVE Keeps
  BY DEF Keeps, Same, IInv, TypeOK

\* The methods that set a field
LEMMA FieldSet ==
    ASSUME IInv, NEW k \in KeyIDs, Known(k), NEW key \in Objects, SetField(k, key),
           Same(ByID(k), key), UNCHANGED <<set, nextHash>>
    PROVE  Keeps /\ objects'[apiKeysByID[k]] = key
  <1>1. apiKeysByID[k] \in 1..Len(objects) /\ objects \in Seq(Objects)
    BY Zenon, Reads DEF IInv, TypeOK
  <1>2. objects' = [objects EXCEPT ![apiKeysByID[k]] = key] /\ UNCHANGED indexes
    BY Zenon DEF SetField
  <1>3. /\ objects' \in Seq(Objects) /\ Len(objects') = Len(objects)
        /\ \A j \in 1..Len(objects) :
               objects'[j] = IF j = apiKeysByID[k] THEN key ELSE objects[j]
    BY <1>1, <1>2
  <1>4. ASSUME NEW i \in 1..Len(objects) PROVE Same(objects[i], objects'[i])
    BY Zenon, <1>3 DEF Same, ByID
  <1> QED BY Zenon, <1>1, <1>2, <1>3, <1>4 DEF Keeps

\* Both are written at the end of the objects and under the ID.
LEMMA EnlargedByBoth ==
    ASSUME IInv, NEW key \in Objects, objects' = Append(objects, key),
           apiKeysByID' = [apiKeysByID EXCEPT ![key.id] = Len(objects) + 1]
    PROVE  Enlarged(key)
  <1>1. /\ objects \in Seq(Objects) /\ key.id \in KeyIDs
        /\ apiKeysByID \in [KeyIDs -> 0..Len(objects)] /\ Len(objects) \in Nat
    BY Zenon, Reads DEF IInv, TypeOK, Objects
  <1>2. /\ objects' \in Seq(Objects) /\ Len(objects') = Len(objects) + 1
        /\ objects'[Len(objects) + 1] = key
        /\ \A i \in 1..Len(objects) : objects'[i] = objects[i]
    BY <1>1
  <1>3. /\ apiKeysByID'[key.id] = Len(objects) + 1
        /\ \A k \in KeyIDs : k # key.id => apiKeysByID'[k] = apiKeysByID[k]
    BY Zenon, <1>1
  <1>4. Known(key.id)' /\ \A k \in KeyIDs : Known(k)' <=> Known(k) \/ k = key.id
    <2>1. Len(objects) + 1 # 0
      BY <1>1
    <2> QED BY Zenon, <1>3, <2>1 DEF Known
  <1>5. ASSUME NEW k \in KeyIDs, k # key.id, Known(k)
        PROVE  ByID(k)' = ByID(k) /\ apiKeysByID'[k] = apiKeysByID[k]
    <2>1. apiKeysByID[k] \in 1..Len(objects)
      BY Zenon, <1>5, Reads DEF IInv
    <2> QED BY Zenon, <1>2, <1>3, <1>5, <2>1 DEF ByID
  <1>6. ByID(key.id)' = key
    BY Zenon, <1>2, <1>3 DEF ByID
  <1> QED BY Zenon, <1>1, <1>2, <1>3, <1>4, <1>5, <1>6 DEF Enlarged

\* An added object is found by an ID that was not known.
LEMMA AddedFound ==
    ASSUME IInv, NEW key, Adds(key)
    PROVE  Enlarged(key) /\ ~Known(key.id)
  BY Zenon, EnlargedByBoth DEF Adds, CreateAPIKey

\* A copy is written back under an ID that is known.
LEMMA ReplacedFound ==
    ASSUME IInv, NEW h \in Handlers, NEW key, Replaces(h, key)
    PROVE  Enlarged(key) /\ Known(key.id) /\ Known(key.name)
  <1>1. Known(key.id) /\ Known(key.name)
    BY Zenon DEF Replaces, IInv, HandlersTaken, Taken
  <1> QED BY Zenon, <1>1, EnlargedByBoth DEF Replaces, UpdateAPIKey


\* Objects that differ from one in the store in other fields than id, name and hash
LEMMA FieldsOf ==
    ASSUME NEW o \in Objects, NEW n \in Nat, NEW t \in Nat, NEW b \in BOOLEAN
    PROVE  /\ [o EXCEPT !.spent = n] \in Objects /\ Same(o, [o EXCEPT !.spent = n])
           /\ [o EXCEPT !.blocked = b] \in Objects /\ Same(o, [o EXCEPT !.blocked = b])
           /\ [o EXCEPT !.active = FALSE] \in Objects
           /\ Same(o, [o EXCEPT !.active = FALSE])
           /\ ~[o EXCEPT !.active = FALSE].active
           /\ [o EXCEPT !.spent = 0, !.resetAt = t] \in Objects
           /\ Same(o, [o EXCEPT !.spent = 0, !.resetAt = t])
  BY Zenon DEF Objects, Same

\* Block, delete, charge and reset set a field.
LEMMA BlockKeeps ==
    ASSUME IInv, NEW k \in KeyIDs, NEW b \in BOOLEAN, BlockKey(k, b), set' = set
    PROVE  Keeps /\ handler' = handler /\ job' = job
  <1>1. ByID(k) \in Objects /\ Known(k)
    BY Zenon, Reads DEF IInv, BlockKey
  <1>2. SetField(k, [ByID(k) EXCEPT !.blocked = b]) /\ UNCHANGED <<nextHash, handler, job>>
    BY Zenon DEF BlockKey, BlockAPIKey
  <1> QED BY Zenon, <1>1, <1>2, FieldsOf, FieldSet

\* Deleting sets the active flag, of the object that is found by the ID.
LEMMA DeleteKeeps ==
    ASSUME IInv, NEW k \in KeyIDs, DeleteAPIKey(k), Known(k), set' = set,
           nextHash' = nextHash
    PROVE  Keeps /\ ~objects'[apiKeysByID[k]].active
  <1>1. ByID(k) \in Objects
    BY Zenon, Reads DEF IInv
  <1>2. SetField(k, [ByID(k) EXCEPT !.active = FALSE])
    BY Zenon DEF DeleteAPIKey
  <1> QED BY Zenon, <1>1, <1>2, FieldsOf, FieldSet

\* Charging a key sets a field.
LEMMA SpendKeeps ==
    ASSUME IInv, NEW k \in KeyIDs, Spend(k), set' = set
    PROVE  Keeps /\ handler' = handler /\ job' = job
  <1>1. ByID(k) \in Objects /\ Known(k)
    BY Zenon, Reads DEF IInv, Spend
  <1>2. ByID(k).spent + 1 \in Nat
    BY <1>1 DEF Objects
  <1>3. /\ SetField(k, [ByID(k) EXCEPT !.spent = ByID(k).spent + 1])
        /\ UNCHANGED <<nextHash, handler, job>>
    BY Zenon DEF Spend, UpdateAPIKeySpent
  <1> QED BY Zenon, <1>1, <1>2, <1>3, FieldsOf, FieldSet

\* So does a budget reset of the runner, which knows the key.
LEMMA ResetKeeps ==
    ASSUME IInv, NEW k \in KeyIDs, ResetKey(k), set' = set
    PROVE  Keeps /\ handler' = handler
  <1>1. Known(k)
    BY Zenon DEF IInv, JobTaken, ResetKey
  <1>2. ByID(k) \in Objects
    BY Zenon, <1>1, Reads DEF IInv
  <1>3. clock + Period \in Nat
    BY Constants DEF IInv, TypeOK
  <1>4. /\ SetField(k, [ByID(k) EXCEPT !.spent = 0, !.resetAt = clock + Period])
        /\ UNCHANGED <<nextHash, handler>>
    BY Zenon DEF ResetKey, ResetAPIKeyBudget
  <1> QED BY Zenon, <1>1, <1>2, <1>3, <1>4, FieldsOf, FieldSet

\* The first half of a rotation deactivates the key.
LEMMA RotateDeleteKeeps ==
    ASSUME IInv, job.phase = "rotate", NEW key \in job.keys, RotateDelete(key), set' = set
    PROVE  /\ Keeps /\ handler' = handler
           /\ key \in Objects /\ Known(key.id) /\ ~objects'[apiKeysByID[key.id]].active
  <1>1. key \in Objects /\ key.id \in KeyIDs
    BY DEF IInv, TypeOK, Resting, Objects
  <1>2. Known(key.id)
    BY Zenon DEF IInv, JobTaken, Taken
  <1>3. DeleteAPIKey(key.id) /\ UNCHANGED <<nextHash, handler>>
    BY Zenon DEF RotateDelete
  <1> QED BY Zenon, <1>1, <1>2, <1>3, DeleteKeeps

\* A key is generated, and the second half of a rotation stores one, under a new ID.
LEMMA GenerateAdds ==
    ASSUME IInv, NEW k \in KeyIDs, GenerateKey(k), set' = set
    PROVE  \E key : Adds(key) /\ key.name = key.id /\ job' = job
  <1> DEFINE key == [id |-> k, name |-> k, hash |-> nextHash, spent |-> 0,
                     blocked |-> FALSE, active |-> TRUE, resetAt |-> clock + Period,
                     rotateAt |-> IF AutoRotate THEN clock + Interval ELSE 0]
  <1>1. /\ CreateAPIKey(key) /\ ~Known(k) /\ nextHash' = nextHash + 1
        /\ UNCHANGED <<handler, job>>
    BY Zenon DEF GenerateKey
  <1>2. nextHash \in Hashes
    BY <1>1, Constants DEF CreateAPIKey, IInv, TypeOK, Stocked, Hashes
  <1>3. clock + Period \in Nat /\ clock + Interval \in Nat
    BY Constants DEF IInv, TypeOK
  <1>4. key \in Objects
    BY <1>2, <1>3 DEF Objects
  <1>5. key.id = k /\ key.name = k /\ key.hash = nextHash
    OBVIOUS
  <1> HIDE DEF key
  <1> QED BY Zenon, <1>1, <1>4, <1>5 DEF Adds

\* The successor has the name of the key that is rotated.
LEMMA RotateAdds ==
    ASSUME IInv, NEW k \in KeyIDs, RotateCreate(k), set' = set
    PROVE  \E key : Adds(key) /\ key.name = job.old.name
  <1> DEFINE key == [job.old EXCEPT !.id = k, !.hash = nextHash, !.spent = 0,
                     !.blocked = FALSE, !.active = TRUE, !.rotateAt = clock + Interval]
  <1>1. /\ CreateAPIKey(key) /\ ~Known(k) /\ nextHash' = nextHash + 1
        /\ handler' = handler /\ nextHash \in Hashes /\ job.phase = "create"
    BY Zenon DEF RotateCreate
  <1>2. clock + Interval \in Nat
    BY Constants DEF IInv, TypeOK
  <1>3. job.old \in Objects
    BY <1>1 DEF IInv, TypeOK, Resting
  <1>4. key \in Objects /\ key.id = k /\ key.name = job.old.name /\ key.hash = nextHash
    BY Zenon, <1>1, <1>2, <1>3 DEF Objects
  <1>5. Known(job.old.name)
    BY Zenon, <1>1 DEF IInv, JobTaken, Taken
  <1> HIDE DEF key
  <1> QED BY Zenon, <1>1, <1>4, <1>5 DEF Adds

\* Updating and regenerating write a copy back.
LEMMA UpdateReplaces ==
    ASSUME IInv, NEW h \in Handlers, UpdateKey(h), set' = set
    PROVE  \E key : Replaces(h, key)
  <1>1. handler[h].op = "update"
    BY Zenon DEF UpdateKey
  <1>2. handler[h].key \in Objects
    BY Zenon, <1>1, Reads DEF IInv
  <1>3. PICK t \in {handler[h].key.resetAt, clock + Period} :
            UpdateAPIKey([handler[h].key EXCEPT !.resetAt = t])
    BY Zenon DEF UpdateKey
  <1>4. handler[h].key.resetAt \in Nat /\ clock + Period \in Nat
    BY <1>2, Constants DEF IInv, TypeOK, Objects
  <1>5. t \in Nat
    BY Zenon, <1>4
  <1> DEFINE key == [handler[h].key EXCEPT !.resetAt = t]
  <1>6. /\ key \in Objects /\ key.id = handler[h].key.id
        /\ key.name = handler[h].key.name /\ key.hash = handler[h].key.hash
    BY Zenon, <1>2, <1>5 DEF Objects
  <1>7. UNCHANGED <<nextHash, job>> /\ handler' = [handler EXCEPT ![h] = Idle]
    BY Zenon DEF UpdateKey
  <1> HIDE DEF key
  <1> QED BY Zenon, <1>1, <1>3, <1>6, <1>7 DEF Replaces, key

\* Regenerating writes the copy back with new credentials.
LEMMA RegenerateReplaces ==
    ASSUME IInv, NEW h \in Handlers, RegenerateKey(h), set' = set
    PROVE  \E key : Replaces(h, key)
  <1> DEFINE next == IF handler[h].key.rotateAt > 0 THEN clock + Interval ELSE 0
             key == [handler[h].key EXCEPT !.hash = nextHash, !.rotateAt = next]
  <1>1. /\ handler[h].op = "regenerate" /\ nextHash \in Hashes /\ UpdateAPIKey(key)
        /\ nextHash' = nextHash + 1 /\ job' = job
        /\ handler' = [handler EXCEPT ![h] = Idle]
    BY Zenon DEF RegenerateKey
  <1>2. handler[h].key \in Objects
    BY Zenon, <1>1, Reads DEF IInv
  <1>3. next \in Nat
    BY Constants DEF IInv, TypeOK
  <1> HIDE DEF next
  <1>4. /\ key \in Objects /\ key.id = handler[h].key.id
        /\ key.name = handler[h].key.name /\ key.hash = nextHash
    BY Zenon, <1>1, <1>2, <1>3 DEF Objects
  <1> HIDE DEF key
  <1> QED BY Zenon, <1>1, <1>4 DEF Replaces

-----------------------------------------------------------------------------
\* Every step is one of these, and the runner's are told apart.

\* What the job runner holds, by its phase
LEMMA JobReads ==
    ASSUME TypeOK
    PROVE  /\ job.phase = "reset" =>
                  /\ job \in [phase : {"reset"}, keys : SUBSET KeyIDs]
                  /\ job.keys \subseteq KeyIDs
           /\ job.phase \in {"rotate", "create"} => job.keys \subseteq Objects
           /\ job.phase = "create" => job.old \in Objects
  BY DEF TypeOK, Resting

RunnerStep ==
    \/ ResetQuery \/ RotateQuery \/ JobsEnd
    \/ \E k \in KeyIDs : ResetKey(k)
    \/ job.phase = "rotate" /\ \E key \in job.keys : RotateDelete(key)

\* A step sets fields, lets a handler read, adds an object or replaces one.
LEMMA StepKind ==
    ASSUME IInv, Next
    PROVE  /\ set' = set
           /\ \/ Keeps /\ handler' = handler /\ (job' = job \/ RunnerStep)
              \/ Keeps /\ job' = job /\ \E h \in Handlers, k \in KeyIDs : ReadKey(h, k)
              \/ \E key : Adds(key) /\ key.name = key.id /\ job' = job
              \/ \E k \in KeyIDs : RotateCreate(k)
              \/ \E h \in Handlers : \E key : Replaces(h, key)
  <1>0. set' = set
    BY Zenon DEF Next
  <1>1. ASSUME NEW k \in KeyIDs, GenerateKey(k)
        PROVE  \E key : Adds(key) /\ key.name = key.id /\ job' = job
    BY Zenon, <1>0, <1>1, GenerateAdds
  <1>2. ASSUME NEW k \in KeyIDs, DeleteKey(k)
        PROVE  Keeps /\ handler' = handler /\ job' = job
    <2>1. DeleteAPIKey(k) /\ Known(k) /\ UNCHANGED <<nextHash, handler, job>>
      BY Zenon, <1>2 DEF DeleteKey
    <2> QED BY Zenon, <1>0, <2>1, DeleteKeeps
  <1>3. ASSUME NEW k \in KeyIDs, Spend(k) PROVE Keeps /\ handler' = handler /\ job' = job
    BY Zenon, <1>0, <1>3, SpendKeeps
  <1>4. ASSUME NEW k \in KeyIDs, NEW b \in BOOLEAN, BlockKey(k, b)
        PROVE  Keeps /\ handler' = handler /\ job' = job
    BY Zenon, <1>0, <1>4, BlockKeeps
  <1>5. ASSUME NEW h \in Handlers, NEW k \in KeyIDs, ReadKey(h, k)
        PROVE  Keeps /\ job' = job
    BY Zenon, <1>0, <1>5, NothingSet DEF ReadKey
  <1>6. ASSUME NEW h \in Handlers, UpdateKey(h) \/ RegenerateKey(h)
        PROVE  \E key : Replaces(h, key)
    BY Zenon, <1>0, <1>6, UpdateReplaces, RegenerateReplaces
  <1>7. CASE Tick
    <2>1. Keeps /\ handler' = handler /\ job' = job
      BY Zenon, <1>0, <1>7, NothingSet DEF Tick
    <2> QED BY Zenon, <1>0, <2>1
  <1>8. ASSUME ResetQuery \/ RotateQuery \/ JobsEnd PROVE Keeps /\ handler' = handler
    BY Zenon, <1>0, <1>8, NothingSet DEF ResetQuery, RotateQuery, JobsEnd
  <1>9. ASSUME NEW k \in KeyIDs, ResetKey(k) PROVE Keeps /\ handler' = handler
    BY Zenon, <1>0, <1>9, ResetKeeps
  <1>10. ASSUME job.phase = "rotate", NEW key \in job.keys, RotateDelete(key)
         PROVE  Keeps /\ handler' = handler
    BY Zenon, <1>0, <1>10, RotateDeleteKeeps
  <1>11. CASE RunJobs
    BY Zenon, <1>0, <1>8, <1>9, <1>10, <1>11 DEF RunJobs, RunnerStep
  <1>12. CASE \E k \in KeyIDs :
                  \/ GenerateKey(k) \/ DeleteKey(k) \/ Spend(k)
                  \/ \E b \in BOOLEAN : BlockKey(k, b)
                  \/ \E h \in Handlers : ReadKey(h, k)
    BY Zenon, <1>0, <1>1, <1>2, <1>3, <1>4, <1>5, <1>12
  <1>13. CASE \E h \in Handlers : UpdateKey(h) \/ RegenerateKey(h)
    BY Zenon, <1>0, <1>6, <1>13
  <1> QED BY Zenon, <1>7, <1>11, <1>12, <1>13 DEF Next

\* So the store is kept, or an object is added or replaced.
LEMMA StoreKind ==
    ASSUME IInv, Next
    PROVE  /\ set' = set
           /\ \/ Keeps
              \/ handler' = handler /\ \E key : Adds(key)
              \/ job' = job /\ \E h \in Handlers : \E key : Replaces(h, key)
  <1>1. ASSUME set' = set, NEW k \in KeyIDs, RotateCreate(k)
        PROVE  \E key : Adds(key)
    BY Zenon, <1>1, RotateAdds
  <1>2. ASSUME NEW key, Adds(key) PROVE handler' = handler
    BY Zenon, <1>2 DEF Adds
  <1>3. ASSUME NEW h \in Handlers, NEW key, Replaces(h, key) PROVE job' = job
    BY Zenon, <1>3 DEF Replaces
  <1> QED BY Zenon, <1>1, <1>2, <1>3, StepKind

-----------------------------------------------------------------------------
\* The store and what stays taken

\* The store keeps its type, and credentials are never given out again.
LEMMA StoreTypes ==
    ASSUME IInv, Next
    PROVE  /\ objects' \in Seq(Objects)
           /\ apiKeys' \in [Hashes -> 0..Len(objects')]
           /\ apiKeysByID' \in [KeyIDs -> 0..Len(objects')]
           /\ nextHash' \in Nat \ {0} /\ nextHash <= nextHash'
  <1> USE DEF IInv
  <1>1. CASE Keeps
    BY <1>1 DEF Keeps, TypeOK, indexes
  <1>2. ASSUME NEW key, Adds(key)
        PROVE  /\ apiKeys' \in [Hashes -> 0..Len(objects')]
               /\ apiKeysByID' \in [KeyIDs -> 0..Len(objects')]
               /\ nextHash' = nextHash + 1
    <2>1. key.hash \in Hashes /\ key.id \in KeyIDs
      BY Zenon, <1>2 DEF Adds, Objects
    <2>2. Len(objects') = Len(objects) + 1 /\ Len(objects) \in Nat
      BY Zenon, <1>2, AddedFound, Reads DEF Enlarged
    <2>3. /\ apiKeys' = [apiKeys EXCEPT ![key.hash] = Len(objects) + 1]
          /\ apiKeysByID' = [apiKeysByID EXCEPT ![key.id] = Len(objects) + 1]
      BY Zenon, <1>2 DEF Adds, CreateAPIKey
    <2>4. nextHash' = nextHash + 1
      BY Zenon, <1>2 DEF Adds
    <2> QED BY <2>1, <2>2, <2>3, <2>4 DEF TypeOK
  <1>3. ASSUME NEW h \in Handlers, NEW key, Replaces(h, key)
        PROVE  /\ apiKeys' \in [Hashes -> 0..Len(objects')]
               /\ apiKeysByID' \in [KeyIDs -> 0..Len(objects')]
               /\ nextHash' \in {nextHash, nextHash + 1}
    <2>1. Known(key.id) /\ key.id \in KeyIDs
      BY Zenon, <1>3, ReplacedFound DEF Enlarged
    <2>2. ByID(key.id).hash \in Hashes
      BY Zenon, <2>1, Reads DEF Objects
    <2>3. Len(objects') = Len(objects) + 1 /\ Len(objects) \in Nat
      BY Zenon, <1>3, ReplacedFound, Reads DEF Enlarged
    <2>4. /\ apiKeys' = [apiKeys EXCEPT ![ByID(key.id).hash] = Len(objects) + 1]
          /\ apiKeysByID' = [apiKeysByID EXCEPT ![key.id] = Len(objects) + 1]
      BY Zenon, <1>3 DEF Replaces, UpdateAPIKey
    <2>5. nextHash' \in {nextHash, nextHash + 1}
      BY Zenon, <1>3 DEF Replaces
    <2> QED BY <2>1, <2>2, <2>3, <2>4, <2>5 DEF TypeOK
  <1>4. objects' \in Seq(Objects)
    BY Zenon, StoreKind, AddedFound, ReplacedFound DEF Keeps, Enlarged
  <1>5. ASSUME nextHash' \in {nextHash, nextHash + 1}
        PROVE  nextHash' \in Nat \ {0} /\ nextHash <= nextHash'
    BY <1>5 DEF TypeOK
  <1> QED BY Zenon, <1>1, <1>2, <1>3, <1>4, <1>5, StoreKind

\* IDs, names and credentials that are taken stay so.
LEMMA StaysTaken ==
    ASSUME IInv, Next
    PROVE  /\ \A k \in KeyIDs : Known(k) => Known(k)'
           /\ \A o \in Objects : Taken(o) => Taken(o)'
  <1>1. \A k \in KeyIDs : Known(k) => Known(k)'
    <2>1. ASSUME Keeps, NEW k \in KeyIDs, Known(k) PROVE Known(k)'
      BY Zenon, <2>1 DEF Keeps, Known, indexes
    <2> QED BY Zenon, <2>1, StoreKind, AddedFound, ReplacedFound DEF Enlarged
  <1>2. ASSUME NEW o \in Objects, Taken(o) PROVE o.hash < nextHash'
    <2>1. o.hash \in Int /\ nextHash \in Int /\ nextHash' \in Int /\ nextHash <= nextHash'
      BY StoreTypes DEF IInv, TypeOK, Objects, Hashes
    <2> QED BY <1>2, <2>1 DEF Taken
  <1>3. ASSUME NEW o \in Objects PROVE o.id \in KeyIDs /\ o.name \in KeyIDs
    BY Zenon DEF Objects
  <1> QED BY Zenon, <1>1, <1>2, <1>3 DEF Taken

\* Whatever is stored is taken, and found by an ID with that ID.
LEMMA StockedStays ==
    ASSUME IInv, Next PROVE Stocked'
  <1>1. set' = set /\ KeyIDs' = KeyIDs
    BY Zenon, StoreKind, SettingsStay
  <1>2. \A o \in Objects : Taken(o) => Taken(o)'
    BY Zenon, StaysTaken
  <1>3. /\ Len(objects) \in Nat /\ nextHash \in Nat
        /\ \A i \in 1..Len(objects) : objects[i] \in Objects /\ Taken(objects[i])
        /\ nextHash <= Len(objects) + 1
    BY Zenon, Reads DEF IInv, TypeOK, Stocked
  <1>4. CASE Keeps
    <2>1. nextHash' <= Len(objects') + 1 /\ Len(objects') = Len(objects)
      BY <1>3, <1>4 DEF Keeps
    <2>2. ASSUME NEW i \in 1..Len(objects) PROVE Taken(objects[i])'
      BY Zenon, <1>3, <1>4 DEF Keeps, Known, Taken, Same, indexes
    <2>3. ASSUME NEW k \in KeyIDs, Known(k)' PROVE ByID(k)'.id = k
      <3>1. Known(k) /\ apiKeysByID' = apiKeysByID
        BY Zenon, <1>4, <2>3 DEF Keeps, Known, indexes
      <3>2. apiKeysByID[k] \in 1..Len(objects) /\ ByID(k).id = k
        BY Zenon, <3>1, Reads DEF IInv, Stocked
      <3> QED BY Zenon, <1>4, <3>1, <3>2 DEF Keeps, Same, ByID
    <2> QED BY Zenon, <1>1, <2>1, <2>2, <2>3 DEF Stocked
  <1>5. ASSUME NEW key, \/ Adds(key)
                        \/ \E h \in Handlers : Replaces(h, key)
        PROVE  Stocked'
    <2>0. Enlarged(key)
      BY Zenon, <1>5, AddedFound, ReplacedFound
    <2>1. /\ Len(objects') = Len(objects) + 1 /\ objects'[Len(objects) + 1] = key
          /\ \A i \in 1..Len(objects) : objects'[i] = objects[i]
          /\ ByID(key.id)' = key /\ key.id \in KeyIDs
          /\ Known(key.id)'
      BY Zenon, <2>0 DEF Enlarged
    <2>2. /\ nextHash' \in {nextHash, nextHash + 1}
          /\ (key.hash = nextHash /\ nextHash' = nextHash + 1) \/ key.hash < nextHash'
          /\ Known(key.name)'
      <3>1. CASE Adds(key)
        <4>1. key.name \in KeyIDs
          BY Zenon, <3>1 DEF Adds, Objects
        <4> QED BY Zenon, <2>1, <3>1, <4>1, StaysTaken DEF Adds
      <3>2. ASSUME NEW h \in Handlers, Replaces(h, key)
            PROVE  /\ nextHash' \in {nextHash, nextHash + 1} /\ Known(key.name)'
                   /\ \/ key.hash = nextHash /\ nextHash' = nextHash + 1
                      \/ key.hash < nextHash'
        <4>1. key.name \in KeyIDs /\ key \in Objects
          BY Zenon, <3>2 DEF Replaces, Objects
        <4>2. Known(key.name)
          BY Zenon, <3>2, ReplacedFound
        <4>3. handler[h].key.hash < nextHash
          BY Zenon, <3>2 DEF Replaces, IInv, HandlersTaken, Taken
        <4> QED BY Zenon, <3>2, <4>1, <4>2, <4>3, StaysTaken DEF Replaces
      <3> QED BY Zenon, <1>5, <3>1, <3>2
    <2>3. /\ nextHash' <= Len(objects') + 1 /\ key.hash < nextHash'
      BY <1>3, <2>1, <2>2
    <2>4. ASSUME NEW i \in 1..Len(objects') PROVE Taken(objects[i])'
      <3>1. CASE i = Len(objects) + 1
        BY Zenon, <2>1, <2>2, <2>3, <3>1 DEF Taken, Known
      <3>2. CASE i # Len(objects) + 1
        <4>1. i \in 1..Len(objects)
          BY <1>3, <2>1, <3>2
        <4> QED BY Zenon, <1>2, <1>3, <2>1, <4>1 DEF Taken, Known
      <3> QED BY Zenon, <3>1, <3>2
    <2>5. ASSUME NEW k \in KeyIDs, Known(k)' PROVE ByID(k)'.id = k
      <3>1. CASE k = key.id
        BY Zenon, <2>1, <3>1
      <3>2. CASE k # key.id
        <4>1. Known(k) /\ ByID(k)' = ByID(k)
          BY Zenon, <2>0, <2>5, <3>2 DEF Enlarged
        <4> QED BY Zenon, <4>1 DEF IInv, Stocked
      <3> QED BY Zenon, <3>1, <3>2
    <2> QED BY Zenon, <1>1, <2>3, <2>4, <2>5 DEF Stocked
  <1> QED BY Zenon, <1>4, <1>5, StoreKind

-----------------------------------------------------------------------------
\* The copies of the handlers, and the two indexes

\* The handlers' copies are of objects that are taken.
LEMMA HandlersTyped ==
    ASSUME IInv, Next
    PROVE  /\ handler' \in [Handlers -> {Idle} \cup [op : Operations, key : Objects]]
           /\ HandlersTaken'
  <1>0. handler \in [Handlers -> {Idle} \cup [op : Operations, key : Objects]]
    BY Zenon DEF IInv, TypeOK
  <1>1. Handlers' = Handlers
    BY Zenon, StoreKind, SettingsStay
  <1>2. ASSUME NEW h \in Handlers, handler[h].op # "idle"
        PROVE  Taken(handler[h].key)'  \/ handler'[h] # handler[h]
    <2>1. handler[h].key \in Objects /\ Taken(handler[h].key)
      BY Zenon, <1>2, Reads DEF IInv, HandlersTaken
    <2> DEFINE o == handler[h].key
    <2>2. apiKeysByID'[o.id] # 0 /\ apiKeysByID'[o.name] # 0 /\ o.hash < nextHash'
      BY Zenon, <2>1, StaysTaken DEF Taken, Known
    <2> QED BY Zenon, <2>2 DEF Taken, Known
  <1>3. CASE handler' = handler
    BY Zenon, <1>0, <1>1, <1>2, <1>3 DEF HandlersTaken
  <1>4. ASSUME NEW h \in Handlers, NEW k \in KeyIDs, ReadKey(h, k), Keeps
        PROVE  /\ handler' \in [Handlers -> {Idle} \cup [op : Operations, key : Objects]]
               /\ HandlersTaken'
    <2>1. PICK op \in Operations :
              handler' = [handler EXCEPT ![h] = [op |-> op, key |-> ByID(k)]]
      BY Zenon, <1>4 DEF ReadKey
    <2>2. apiKeysByID[k] \in 1..Len(objects) /\ ByID(k) \in Objects
      BY Zenon, <1>4, Reads DEF IInv, ReadKey
    <2>3. Taken(ByID(k)) /\ UNCHANGED <<apiKeysByID, nextHash>>
      BY Zenon, <1>4, <2>2 DEF IInv, Stocked, ByID, ReadKey, indexes
    <2>4. [op |-> op, key |-> ByID(k)] \in [op : Operations, key : Objects]
      BY Zenon, <2>2
    <2>5. handler' \in [Handlers -> {Idle} \cup [op : Operations, key : Objects]]
      BY Zenon, <1>0, <2>1, <2>4
    <2>6. /\ handler'[h].key = ByID(k)
          /\ \A g \in Handlers : g # h => handler'[g] = handler[g]
      BY Zenon, <1>0, <2>1
    <2>7. ASSUME NEW g \in Handlers, handler'[g].op # "idle" PROVE Taken(handler[g].key)'
      <3>1. CASE g = h
        BY Zenon, <2>3, <2>6, <3>1 DEF Taken, Known
      <3>2. CASE g # h
        BY Zenon, <1>2, <2>6, <2>7, <3>2
      <3> QED BY Zenon, <3>1, <3>2
    <2> QED BY Zenon, <1>1, <2>5, <2>7 DEF HandlersTaken
  <1>5. ASSUME NEW h \in Handlers, NEW key, Replaces(h, key)
        PROVE  /\ handler' \in [Handlers -> {Idle} \cup [op : Operations, key : Objects]]
               /\ HandlersTaken'
    <2>1. handler' = [handler EXCEPT ![h] = Idle]
      BY Zenon, <1>5 DEF Replaces
    <2>2. handler' \in [Handlers -> {Idle} \cup [op : Operations, key : Objects]]
      BY Zenon, <1>0, <2>1
    <2>3. /\ handler'[h].op = "idle"
          /\ \A g \in Handlers : g # h => handler'[g] = handler[g]
      BY Zenon, <1>0, <2>1 DEF Idle
    <2>4. ASSUME NEW g \in Handlers, handler'[g].op # "idle" PROVE Taken(handler[g].key)'
      BY Zenon, <1>2, <2>3, <2>4
    <2> QED BY Zenon, <1>1, <2>2, <2>4 DEF HandlersTaken
  <1>6. ASSUME NEW key, Adds(key) PROVE handler' = handler
    BY Zenon, <1>6 DEF Adds
  <1>7. ASSUME NEW k \in KeyIDs, RotateCreate(k) PROVE handler' = handler
    BY Zenon, <1>7 DEF RotateCreate
  <1> QED BY Zenon, <1>3, <1>4, <1>5, <1>6, <1>7, StepKind

\* An object that is found by an ID is found by its ID's hash, in one object only.
LEMMA IndexesStay ==
    ASSUME IInv, Next, "regenerate" \notin Operations
    PROVE  IndexesAgree'
  <1>1. KeyIDs' = KeyIDs
    BY Zenon, StoreKind, SettingsStay
  <1>2. \A k \in KeyIDs : Known(k) => apiKeys[ByID(k).hash] = apiKeysByID[k]
    BY Zenon DEF IInv, IndexesAgree
  <1>3. ASSUME NEW k \in KeyIDs, Known(k)
        PROVE  /\ apiKeysByID[k] \in 1..Len(objects) /\ ByID(k) \in Objects
               /\ ByID(k).id = k /\ ByID(k).hash \in Hashes /\ ByID(k).hash < nextHash
    BY Zenon, <1>3, Reads DEF IInv, Stocked, Taken, Objects, ByID
  <1>4. CASE Keeps
    <2>1. ASSUME NEW k \in KeyIDs, Known(k)' PROVE apiKeys'[ByID(k)'.hash] = apiKeysByID'[k]
      <3>1. Known(k) /\ apiKeysByID' = apiKeysByID /\ apiKeys' = apiKeys
        BY Zenon, <1>4, <2>1 DEF Keeps, Known, indexes
      <3>2. ByID(k)'.hash = ByID(k).hash
        BY Zenon, <1>3, <1>4, <3>1 DEF Keeps, Same, ByID
      <3> QED BY Zenon, <1>2, <3>1, <3>2
    <2> QED BY Zenon, <1>1, <2>1 DEF IndexesAgree
  <1>5. ASSUME NEW key, Adds(key) PROVE IndexesAgree'
    <2>0. Enlarged(key)
      BY Zenon, <1>5, AddedFound
    <2>1. /\ apiKeys' = [apiKeys EXCEPT ![key.hash] = Len(objects) + 1]
          /\ key.hash = nextHash /\ key.hash \in Hashes
          /\ apiKeys \in [Hashes -> 0..Len(objects)]
      BY Zenon, <1>5 DEF Adds, CreateAPIKey, Objects, IInv, TypeOK
    <2>2. ASSUME NEW k \in KeyIDs, Known(k)' PROVE apiKeys'[ByID(k)'.hash] = apiKeysByID'[k]
      <3>1. CASE k = key.id
        BY Zenon, <2>0, <2>1, <3>1, <1>1 DEF Enlarged
      <3>2. CASE k # key.id
        <4>1. Known(k) /\ ByID(k)' = ByID(k) /\ apiKeysByID'[k] = apiKeysByID[k]
          BY Zenon, <2>0, <2>2, <3>2 DEF Enlarged
        <4>2. ByID(k).hash # key.hash
          <5>1. ByID(k).hash < nextHash /\ nextHash \in Int
            BY <1>3, <4>1 DEF IInv, TypeOK
          <5> QED BY <2>1, <5>1
        <4> QED BY Zenon, <1>2, <1>3, <2>1, <4>1, <4>2
      <3> QED BY Zenon, <3>1, <3>2
    <2> QED BY Zenon, <1>1, <2>2 DEF IndexesAgree
  <1>6. ASSUME NEW h \in Handlers, NEW key, Replaces(h, key) PROVE IndexesAgree'
    <2>0. Enlarged(key) /\ Known(key.id)
      BY Zenon, <1>6, ReplacedFound
    <2>1. /\ apiKeys' = [apiKeys EXCEPT ![ByID(key.id).hash] = Len(objects) + 1]
          /\ apiKeys \in [Hashes -> 0..Len(objects)]
      BY Zenon, <1>6 DEF Replaces, UpdateAPIKey, IInv, TypeOK
    <2>2. handler[h].op # "idle" /\ key.id = handler[h].key.id
      BY Zenon, <1>6 DEF Replaces
    <2>3. handler[h].op # "regenerate"
      BY Zenon, <2>2, Reads DEF IInv
    <2>4. key.hash = ByID(key.id).hash
      BY Zenon, <1>6, <2>2, <2>3 DEF Replaces, IInv, HashesStay
    <2>5. key.id \in KeyIDs /\ Known(key.id)
      BY Zenon, <2>0 DEF Enlarged
    <2>6. ASSUME NEW k \in KeyIDs, Known(k)' PROVE apiKeys'[ByID(k)'.hash] = apiKeysByID'[k]
      <3>1. CASE k = key.id
        <4>1. ByID(k)'.hash = ByID(key.id).hash /\ apiKeysByID'[k] = Len(objects) + 1
          BY Zenon, <2>0, <2>4, <3>1 DEF Enlarged
        <4> QED BY Zenon, <1>3, <2>1, <2>5, <4>1
      <3>2. CASE k # key.id
        <4>1. Known(k) /\ ByID(k)' = ByID(k) /\ apiKeysByID'[k] = apiKeysByID[k]
          BY Zenon, <2>0, <2>6, <3>2 DEF Enlarged
        <4>2. ByID(k).hash # ByID(key.id).hash
          <5>1. ASSUME ByID(k).hash = ByID(key.id).hash PROVE k = key.id
            <6>1. apiKeysByID[k] = apiKeysByID[key.id]
              BY Zenon, <1>2, <2>5, <4>1, <5>1
            <6>2. ByID(k) = ByID(key.id)
              BY Zenon, <6>1 DEF ByID
            <6> QED BY Zenon, <1>3, <2>5, <4>1, <6>2
          <5> QED BY Zenon, <3>2, <5>1
        <4> QED BY Zenon, <1>2, <1>3, <2>1, <2>5, <4>1, <4>2
      <3> QED BY Zenon, <3>1, <3>2
    <2> QED BY Zenon, <1>1, <2>6 DEF IndexesAgree
  <1> QED BY Zenon, <1>4, <1>5, <1>6, StoreKind

\* The hash of a copy is the one of the object that is found by its ID.
LEMMA HashesStayStays ==
    ASSUME IInv, Next, "regenerate" \notin Operations
    PROVE  HashesStay'
  <1>1. Handlers' = Handlers
    BY Zenon, StoreKind, SettingsStay
  <1>2. ASSUME NEW h \in Handlers, handler[h].op # "idle"
        PROVE  /\ handler[h].key.hash = ByID(handler[h].key.id).hash
               /\ handler[h].key.id \in KeyIDs /\ Known(handler[h].key.id)
    BY Zenon, <1>2, Reads DEF IInv, HashesStay, HandlersTaken, Taken, Objects
  <1>3. ASSUME Keeps, NEW k \in KeyIDs, Known(k) PROVE ByID(k)'.hash = ByID(k).hash
    <2>1. apiKeysByID[k] \in 1..Len(objects) /\ apiKeysByID' = apiKeysByID
      BY Zenon, <1>3, Reads DEF IInv, Keeps, indexes
    <2> QED BY Zenon, <1>3, <2>1 DEF Keeps, Same, ByID
  <1>4. ASSUME NEW key, Adds(key), NEW k \in KeyIDs, Known(k) PROVE ByID(k)' = ByID(k)
    BY Zenon, <1>4, AddedFound DEF Enlarged
  <1>5. CASE handler' = handler /\ (Keeps \/ \E key : Adds(key))
    <2>1. ASSUME NEW h \in Handlers, handler'[h].op # "idle"
          PROVE  handler'[h].key.hash = ByID(handler[h].key.id)'.hash
      <3> DEFINE id == handler[h].key.id
      <3>1. handler'[h] = handler[h] /\ id \in KeyIDs /\ Known(id)
        BY Zenon, <1>2, <1>5, <2>1
      <3>2. objects'[apiKeysByID'[id]].hash = ByID(id).hash
        BY Zenon, <1>3, <1>4, <1>5, <3>1 DEF ByID
      <3> QED BY Zenon, <1>2, <2>1, <3>1, <3>2 DEF ByID
    <2> QED BY Zenon, <1>1, <2>1 DEF HashesStay
  <1>6. ASSUME NEW h \in Handlers, NEW k \in KeyIDs, ReadKey(h, k) PROVE HashesStay'
    <2>1. PICK op \in Operations :
              handler' = [handler EXCEPT ![h] = [op |-> op, key |-> ByID(k)]]
      BY Zenon, <1>6 DEF ReadKey
    <2>2. /\ handler'[h].key = ByID(k)
          /\ \A g \in Handlers : g # h => handler'[g] = handler[g]
      BY Zenon, <2>1 DEF IInv, TypeOK
    <2>3. ByID(k).id = k /\ UNCHANGED <<objects, apiKeysByID>>
      BY Zenon, <1>6 DEF IInv, Stocked, ReadKey, indexes
    <2>4. ASSUME NEW g \in Handlers, handler'[g].op # "idle"
          PROVE  handler'[g].key.hash = ByID(handler[g].key.id)'.hash
      <3>1. CASE g = h
        BY Zenon, <2>2, <2>3, <3>1 DEF ByID
      <3>2. CASE g # h
        BY Zenon, <1>2, <2>2, <2>3, <2>4, <3>2 DEF ByID
      <3> QED BY Zenon, <3>1, <3>2
    <2> QED BY Zenon, <1>1, <2>4 DEF HashesStay
  <1>7. ASSUME NEW h \in Handlers, NEW key, Replaces(h, key) PROVE HashesStay'
    <2>1. handler' = [handler EXCEPT ![h] = Idle] /\ Enlarged(key)
      BY Zenon, <1>7, ReplacedFound DEF Replaces
    <2>2. /\ handler'[h].op = "idle"
          /\ \A g \in Handlers : g # h => handler'[g] = handler[g]
      BY Zenon, <2>1 DEF IInv, TypeOK, Idle
    <2>3. handler[h].op # "idle" /\ key.id = handler[h].key.id
      BY Zenon, <1>7 DEF Replaces
    <2>4. handler[h].op # "regenerate"
      BY Zenon, <2>3, Reads DEF IInv
    <2>5. key.hash = ByID(key.id).hash
      BY Zenon, <1>2, <1>7, <2>3, <2>4 DEF Replaces
    <2>6. ASSUME NEW k \in KeyIDs, Known(k) PROVE ByID(k)'.hash = ByID(k).hash
      BY Zenon, <2>1, <2>5, <2>6 DEF Enlarged
    <2>7. ASSUME NEW g \in Handlers, handler'[g].op # "idle"
          PROVE  handler'[g].key.hash = ByID(handler[g].key.id)'.hash
      <3> DEFINE id == handler[g].key.id
      <3>1. handler'[g] = handler[g]
        BY Zenon, <2>2, <2>7
      <3>2. id \in KeyIDs /\ Known(id) /\ handler[g].key.hash = ByID(id).hash
        BY Zenon, <1>2, <2>7, <3>1
      <3>3. objects'[apiKeysByID'[id]].hash = ByID(id).hash
        BY Zenon, <2>6, <3>2 DEF ByID
      <3> QED BY Zenon, <3>1, <3>2, <3>3 DEF ByID
    <2> QED BY Zenon, <1>1, <2>7 DEF HashesStay
  <1>8. ASSUME set' = set, NEW k \in KeyIDs, RotateCreate(k)
        PROVE  handler' = handler /\ \E key : Adds(key)
    BY Zenon, <1>8, RotateAdds DEF RotateCreate
  <1>9. ASSUME NEW key, Adds(key) PROVE handler' = handler
    BY Zenon, <1>9 DEF Adds
  <1> QED BY Zenon, <1>5, <1>6, <1>7, <1>8, <1>9, StepKind

-----------------------------------------------------------------------------
\* The job runner's copies, and one active object for a name

\* So are those of the job runner.
LEMMA JobTyped ==
    ASSUME IInv, Next
    PROVE  /\ job' \in {Resting} \cup [phase : {"reset"}, keys : SUBSET KeyIDs]
                       \cup [phase : {"rotate"}, keys : SUBSET Objects]
                       \cup [phase : {"create"}, keys : SUBSET Objects, old : Objects]
           /\ JobTaken'
  <1> DEFINE Resets == [phase : {"reset"}, keys : SUBSET KeyIDs]
             Rotates == [phase : {"rotate"}, keys : SUBSET Objects]
             Creates == [phase : {"create"}, keys : SUBSET Objects, old : Objects]
  <1>1. /\ \A k \in KeyIDs : Known(k) => Known(k)'
        /\ \A o \in Objects : Taken(o) => Taken(o)'
    BY Zenon, StaysTaken
  <1>2. /\ job.phase = "reset" =>
               job \in Resets /\ job.keys \subseteq KeyIDs /\ \A k \in job.keys : Known(k)
        /\ job.phase \in {"rotate", "create"} =>
               job.keys \subseteq Objects /\ \A o \in job.keys : Taken(o)
        /\ job.phase = "create" => job.old \in Objects /\ Taken(job.old)
    BY Zenon, JobReads DEF IInv, JobTaken
  <1>3. \A o \in Stored : o \in Objects /\ Taken(o) /\ o.id \in KeyIDs /\ Known(o.id)
    BY Zenon, Reads DEF IInv, Stocked, Taken, Objects
  <1>4. CASE job' = job
    <2>1. ASSUME job.phase = "reset", NEW k \in job.keys PROVE Known(k)'
      BY Zenon, <1>1, <1>2, <2>1
    <2>2. ASSUME job.phase \in {"rotate", "create"}, NEW o \in job.keys PROVE Taken(o)'
      BY Zenon, <1>1, <1>2, <2>2
    <2>3. ASSUME job.phase = "create" PROVE Taken(job.old)'
      <3> DEFINE o == job.old
      <3>1. o \in Objects /\ Taken(o)
        BY Zenon, <1>2, <2>3
      <3>2. apiKeysByID'[o.id] # 0 /\ apiKeysByID'[o.name] # 0 /\ o.hash < nextHash'
        BY Zenon, <1>1, <3>1 DEF Taken, Known
      <3> QED BY Zenon, <1>4, <3>2 DEF Taken, Known
    <2> QED BY Zenon, <1>4, <2>1, <2>2, <2>3 DEF JobTaken, IInv, TypeOK
  <1>5. CASE ResetQuery
    <2> DEFINE keys == {key.id : key \in {o \in Stored : o.active /\ clock > o.resetAt}}
    <2>1. job' = [phase |-> "reset", keys |-> keys]
      BY Zenon, <1>5 DEF ResetQuery
    <2>2. \A k \in keys : k \in KeyIDs /\ Known(k)'
      BY Zenon, <1>1, <1>3
    <2> HIDE DEF keys
    <2>3. job' \in Resets /\ job'.phase = "reset" /\ job'.keys = keys
      BY <2>1, <2>2
    <2> QED BY Zenon, <2>2, <2>3 DEF JobTaken
  <1>6. ASSUME NEW k \in KeyIDs, ResetKey(k) PROVE job' \in Resets /\ JobTaken'
    <2>1. job.phase = "reset" /\ job' = [job EXCEPT !.keys = job.keys \ {k}]
      BY Zenon, <1>6 DEF ResetKey
    <2>2. job' \in Resets /\ job'.phase = "reset" /\ job'.keys = job.keys \ {k}
      BY Zenon, <1>2, <2>1
    <2>3. \A l \in job'.keys : Known(l)'
      BY Zenon, <1>1, <1>2, <2>1, <2>2
    <2> QED BY Zenon, <2>2, <2>3 DEF JobTaken
  <1>7. CASE RotateQuery
    <2> DEFINE keys == {o \in Stored : o.active /\ o.rotateAt > 0 /\ clock > o.rotateAt}
    <2>1. job' = [phase |-> "rotate", keys |-> keys]
      BY Zenon, <1>7 DEF RotateQuery
    <2>2. \A o \in keys : o \in Objects /\ Taken(o)'
      BY Zenon, <1>1, <1>3
    <2> HIDE DEF keys
    <2>3. job' \in Rotates /\ job'.phase = "rotate" /\ job'.keys = keys
      BY <2>1, <2>2
    <2> QED BY Zenon, <2>2, <2>3 DEF JobTaken
  <1>8. ASSUME job.phase = "rotate", NEW key \in job.keys, RotateDelete(key)
        PROVE  job' \in Creates /\ JobTaken'
    <2>1. job' = [phase |-> "create", keys |-> job.keys \ {key}, old |-> key]
      BY Zenon, <1>8 DEF RotateDelete
    <2>2. \A o \in job.keys : o \in Objects /\ Taken(o)'
      BY Zenon, <1>1, <1>2, <1>8
    <2>3. /\ job' \in Creates /\ job'.phase = "create" /\ job'.keys \subseteq job.keys
          /\ job'.old = key
      BY <2>1, <2>2, <1>8
    <2>4. Taken(job.old)'
      BY Zenon, <1>8, <2>2, <2>3 DEF Taken, Known
    <2> QED BY Zenon, <2>2, <2>3, <2>4 DEF JobTaken
  <1>9. ASSUME NEW k \in KeyIDs, RotateCreate(k) PROVE job' \in Rotates /\ JobTaken'
    <2>1. job.phase = "create" /\ job' = [phase |-> "rotate", keys |-> job.keys]
      BY Zenon, <1>9 DEF RotateCreate
    <2>2. \A o \in job.keys : o \in Objects /\ Taken(o)'
      BY Zenon, <1>1, <1>2, <2>1
    <2>3. job' \in Rotates /\ job'.phase = "rotate" /\ job'.keys = job.keys
      BY <2>1, <2>2
    <2> QED BY Zenon, <2>2, <2>3 DEF JobTaken
  <1>10. CASE JobsEnd
    <2>1. job' = Resting
      BY Zenon, <1>10 DEF JobsEnd
    <2> QED BY Zenon, <2>1 DEF JobTaken, Resting
  <1>11. ASSUME NEW h \in Handlers, NEW key, Replaces(h, key) PROVE job' = job
    BY Zenon, <1>11 DEF Replaces
  <1> HIDE DEF Resets, Rotates, Creates
  <1>12. CASE RunnerStep
    BY Zenon, <1>5, <1>6, <1>7, <1>8, <1>10, <1>12 DEF RunnerStep, Resets, Rotates, Creates
  <1> QED BY Zenon, <1>4, <1>9, <1>11, <1>12, StepKind DEF Resets, Rotates, Creates

\* An object is added where none is active under its name, and no key that waits to
\* be rotated, and not the one that is being, has the name.
LEMMA AddedNames ==
    ASSUME IInv, Next, Handlers = {}, ~Keeps
    PROVE  \E key : /\ Adds(key)
                    /\ \A i \in 1..Len(objects) :
                           objects[i].name = key.name => ~objects[i].active
                    /\ job.phase \in {"rotate", "create"} =>
                           \A a \in job.keys : a.name # key.name
                    /\ \/ job' = job /\ (job.phase = "create" => job.old.name # key.name)
                       \/ \E k \in KeyIDs : RotateCreate(k)
  <1>1. ASSUME NEW key, Adds(key), key.name = key.id, job' = job
        PROVE  /\ \A i \in 1..Len(objects) : objects[i].name # key.name
               /\ job.phase \in {"rotate", "create"} =>
                      \A a \in job.keys : a.name # key.name
               /\ job.phase = "create" => job.old.name # key.name
    <2>1. ~Known(key.name)
      BY Zenon, <1>1 DEF Adds
    <2> QED BY Zenon, <2>1 DEF IInv, Stocked, JobTaken, Taken
  <1>2. ASSUME set' = set, NEW k \in KeyIDs, RotateCreate(k)
        PROVE  \E key : /\ Adds(key)
                        /\ \A i \in 1..Len(objects) :
                               objects[i].name = key.name => ~objects[i].active
                        /\ \A a \in job.keys : a.name # key.name
    <2>1. PICK key : Adds(key) /\ key.name = job.old.name
      BY Zenon, <1>2, RotateAdds
    <2>2. job.phase = "create"
      BY Zenon, <1>2 DEF RotateCreate
    <2>3. RotatesOnce
      BY Zenon DEF IInv
    <2> QED BY Zenon, <2>1, <2>2, <2>3 DEF RotatesOnce
  <1>3. \/ set' = set /\ \E k \in KeyIDs : RotateCreate(k)
        \/ \E key : Adds(key) /\ key.name = key.id /\ job' = job
    BY Zenon, StepKind
  <1> QED BY Zenon, <1>1, <1>2, <1>3

\* The object that is active under a name stays the only one while fields are set.
LEMMA OnlyActiveKept ==
    ASSUME Keeps
    PROVE  \A n, d : OnlyActive(n, d) => OnlyActive(n, d)'
  BY Zenon DEF Keeps, Same, OnlyActive

\* Of the objects with one name, one stays active.
LEMMA OneActiveStays ==
    ASSUME IInv, Next, Handlers = {}
    PROVE  OneActive'
  <1>1. /\ Len(objects) \in Nat
        /\ \A i \in 1..Len(objects) :
               /\ apiKeysByID[objects[i].id] = i
               /\ objects[i].id \in KeyIDs /\ Known(objects[i].id)
        /\ \A i \in 1..Len(objects) :
               objects[i].active => OnlyActive(objects[i].name, objects[i].id)
    BY Zenon, Reads DEF IInv, OneActive, Stocked, Taken, Objects
  <1>2. CASE Keeps
    <2>1. ASSUME NEW i \in 1..Len(objects) PROVE apiKeysByID'[objects'[i].id] = i
      BY Zenon, <1>1, <1>2 DEF Keeps, Same, indexes
    <2>2. ASSUME NEW i \in 1..Len(objects), objects'[i].active
          PROVE  OnlyActive(objects[i].name, objects[i].id)'
      <3>1. Same(objects[i], objects'[i])
        BY Zenon, <1>2 DEF Keeps
      <3>2. \A j \in 1..Len(objects) :
                objects[j].active /\ objects[j].name = objects[i].name =>
                    objects[j].id = objects[i].id
        BY Zenon, <1>1, <2>2, <3>1 DEF Same, OnlyActive
      <3> QED BY Zenon, <1>2, <3>1, <3>2 DEF Keeps, Same, OnlyActive
    <2> QED BY Zenon, <1>2, <2>1, <2>2 DEF OneActive, Keeps
  <1>3. CASE ~Keeps
    <2>1. PICK key : /\ Adds(key)
                     /\ \A i \in 1..Len(objects) :
                            objects[i].name = key.name => ~objects[i].active
      BY Zenon, <1>3, AddedNames
    <2> DEFINE n == Len(objects) + 1
    <2>2. /\ Len(objects') = n /\ objects'[n] = key
          /\ \A i \in 1..Len(objects) : objects'[i] = objects[i]
          /\ apiKeysByID'[key.id] = n
          /\ \A k \in KeyIDs : Known(k) => apiKeysByID'[k] = apiKeysByID[k]
      BY Zenon, <2>1, AddedFound DEF Enlarged
    <2>3. \A i \in 1..n : i \in 1..Len(objects) \/ i = n
      BY <1>1
    <2> HIDE DEF n
    <2>4. ASSUME NEW i \in 1..n PROVE apiKeysByID'[objects'[i].id] = i
      <3>1. i \in 1..Len(objects) \/ i = n
        BY Zenon, <2>3
      <3> QED BY Zenon, <1>1, <2>2, <3>1
    <2>5. ASSUME NEW i \in 1..n, objects'[i].active,
                 NEW j \in 1..n, objects'[j].active, objects'[j].name = objects'[i].name
          PROVE  objects'[j].id = objects'[i].id
      <3>1. CASE i \in 1..Len(objects) /\ j \in 1..Len(objects)
        <4>1. objects'[i] = objects[i] /\ objects'[j] = objects[j]
          BY Zenon, <2>2, <3>1
        <4>2. OnlyActive(objects[i].name, objects[i].id)
          BY Zenon, <1>1, <2>5, <3>1, <4>1
        <4> QED BY Zenon, <2>5, <3>1, <4>1, <4>2 DEF OnlyActive
      <3>2. CASE i = n /\ j = n
        BY Zenon, <3>2
      <3>3. CASE \/ i = n /\ j \in 1..Len(objects)
                 \/ i \in 1..Len(objects) /\ j = n
        BY Zenon, <2>1, <2>2, <2>5, <3>3
      <3>4. (i \in 1..Len(objects) \/ i = n) /\ (j \in 1..Len(objects) \/ j = n)
        BY Zenon, <2>3
      <3> QED BY Zenon, <3>1, <3>2, <3>3, <3>4
    <2> QED BY Zenon, <2>2, <2>4, <2>5 DEF OneActive, OnlyActive
  <1> QED BY Zenon, <1>2, <1>3

\* The active keys under one name are one.
LEMMA OneActiveIsEnough ==
    ASSUME TypeOK, OneActive,
           NEW a \in Stored, a.active, NEW b \in Stored, b.active, a.name = b.name
    PROVE  a = b
  <1>1. PICK i \in 1..Len(objects) : a = objects[i]
    BY Zenon, Reads
  <1>2. PICK j \in 1..Len(objects) : b = objects[j]
    BY Zenon, Reads
  <1>3. b.id = a.id
    BY Zenon, <1>1, <1>2 DEF OneActive, OnlyActive
  <1>4. i = j
    BY Zenon, <1>1, <1>2, <1>3 DEF OneActive
  <1> QED BY Zenon, <1>1, <1>2, <1>4

\* The runner goes on to rotate each key once.
LEMMA RotatesOnceStays ==
    ASSUME IInv, Next, Handlers = {}
    PROVE  RotatesOnce'
  <1>1. /\ job.phase \in {"rotate", "create"} =>
               \A a \in job.keys :
                   OnlyActive(a.name, a.id) /\ \A b \in job.keys : a.name = b.name => a = b
        /\ job.phase = "create" => \A a \in job.keys : a.name # job.old.name
        /\ job.phase = "create" =>
               \A i \in 1..Len(objects) :
                   objects[i].name = job.old.name => ~objects[i].active
    BY Zenon DEF IInv, RotatesOnce
  <1>2. ASSUME Keeps, job.phase \in {"rotate", "create"}, NEW a \in job.keys
        PROVE  OnlyActive(a.name, a.id)'
    BY Zenon, <1>1, <1>2, OnlyActiveKept
  <1>3. CASE Keeps /\ job' = job
    <2>1. ASSUME job.phase = "create", NEW i \in 1..Len(objects),
                 objects'[i].name = job.old.name
          PROVE  ~objects'[i].active
      BY Zenon, <1>1, <1>3, <2>1 DEF Keeps, Same
    <2> QED BY Zenon, <1>1, <1>2, <1>3, <2>1 DEF RotatesOnce, Keeps
  <1>4. CASE ResetQuery \/ JobsEnd \/ \E k \in KeyIDs : ResetKey(k)
    <2>1. job'.phase \in {"reset", "rest"}
      <3>1. CASE ResetQuery
        BY Zenon, <3>1 DEF ResetQuery
      <3>2. CASE JobsEnd
        BY Zenon, <3>2 DEF JobsEnd, Resting
      <3>3. ASSUME NEW k \in KeyIDs, ResetKey(k) PROVE job'.phase = "reset"
        <4>1. job.phase = "reset" /\ job' = [job EXCEPT !.keys = job.keys \ {k}]
          BY Zenon, <3>3 DEF ResetKey
        <4>2. job \in [phase : {"reset"}, keys : SUBSET KeyIDs]
          BY Zenon, <4>1, JobReads DEF IInv
        <4> QED BY Zenon, <4>1, <4>2
      <3> QED BY Zenon, <1>4, <3>1, <3>2, <3>3
    <2>2. job'.phase \notin {"rotate", "create"}
      BY <2>1
    <2> QED BY Zenon, <2>2 DEF RotatesOnce
  <1>5. CASE RotateQuery
    <2> DEFINE keys == {o \in Stored : o.active /\ o.rotateAt > 0 /\ clock > o.rotateAt}
    <2>1. job' = [phase |-> "rotate", keys |-> keys] /\ UNCHANGED objects
      BY Zenon, <1>5 DEF RotateQuery
    <2>2. ASSUME NEW a \in keys
          PROVE  OnlyActive(a.name, a.id) /\ \A b \in keys : a.name = b.name => a = b
      <3>1. PICK i \in 1..Len(objects) : a = objects[i]
        BY Zenon, Reads DEF IInv
      <3>2. OnlyActive(a.name, a.id)
        BY Zenon, <3>1 DEF IInv, OneActive
      <3>3. ASSUME NEW b \in keys, a.name = b.name PROVE a = b
        BY Zenon, <3>3, OneActiveIsEnough DEF IInv
      <3> QED BY Zenon, <3>2, <3>3
    <2> HIDE DEF keys
    <2>3. job'.phase = "rotate" /\ job'.phase # "create" /\ job'.keys = keys
      BY <2>1
    <2>4. ASSUME NEW a \in keys PROVE OnlyActive(a.name, a.id)'
      BY Zenon, <2>1, <2>2 DEF OnlyActive
    <2> QED BY Zenon, <2>2, <2>3, <2>4 DEF RotatesOnce
  <1>6. ASSUME Keeps, job.phase = "rotate", NEW key \in job.keys, RotateDelete(key)
        PROVE  RotatesOnce'
    <2>1. job' = [phase |-> "create", keys |-> job.keys \ {key}, old |-> key]
      BY Zenon, <1>6 DEF RotateDelete
    <2>2. job'.phase = "create" /\ job'.keys = job.keys \ {key} /\ job'.old = key
      BY <2>1
    <2>3. ASSUME NEW a \in job'.keys
          PROVE  /\ OnlyActive(a.name, a.id)' /\ a.name # key.name
                 /\ \A b \in job'.keys : a.name = b.name => a = b
      BY Zenon, <1>1, <1>2, <1>6, <2>2
    <2>4. ASSUME NEW i \in 1..Len(objects), objects'[i].name = key.name
          PROVE  ~objects'[i].active
      <3>1. Same(objects[i], objects'[i])
        BY Zenon, <1>6 DEF Keeps
      <3>2. set' = set
        BY Zenon DEF Next
      <3>3. ~objects'[apiKeysByID[key.id]].active
        BY Zenon, <1>6, <3>2, RotateDeleteKeeps
      <3>4. OnlyActive(key.name, key.id)
        BY Zenon, <1>1, <1>6
      <3>5. objects[i].active => apiKeysByID[key.id] = i
        BY Zenon, <2>4, <3>1, <3>4 DEF Same, OnlyActive, IInv, OneActive
      <3> QED BY Zenon, <3>1, <3>3, <3>5 DEF Same
    <2> QED BY Zenon, <1>6, <2>2, <2>3, <2>4 DEF RotatesOnce, Keeps
  <1>7. CASE ~Keeps
    <2>1. PICK key : /\ Adds(key)
                     /\ \A i \in 1..Len(objects) :
                            objects[i].name = key.name => ~objects[i].active
                     /\ job.phase \in {"rotate", "create"} =>
                            \A a \in job.keys : a.name # key.name
                     /\ \/ job' = job /\ (job.phase = "create" => job.old.name # key.name)
                        \/ \E k \in KeyIDs : RotateCreate(k)
      BY Zenon, <1>7, AddedNames
    <2> DEFINE n == Len(objects) + 1
    <2>2. /\ Len(objects') = n /\ objects'[n] = key
          /\ \A i \in 1..Len(objects) : objects'[i] = objects[i]
      BY Zenon, <2>1, AddedFound DEF Enlarged
    <2>3. \A i \in 1..n : i \in 1..Len(objects) \/ i = n
      <3>1. Len(objects) \in Nat
        BY Zenon, Reads DEF IInv
      <3> QED BY <3>1
    <2> HIDE DEF n
    <2>4. ASSUME job.phase \in {"rotate", "create"}, NEW a \in job.keys
          PROVE  OnlyActive(a.name, a.id)'
      <3>1. OnlyActive(a.name, a.id) /\ a.name # key.name
        BY Zenon, <1>1, <2>1, <2>4
      <3>2. ASSUME NEW i \in 1..n, objects'[i].active, objects'[i].name = a.name
            PROVE  objects'[i].id = a.id
        <4>1. i # n
          BY Zenon, <2>2, <3>1, <3>2
        <4>2. i \in 1..Len(objects) /\ objects'[i] = objects[i]
          BY Zenon, <2>2, <2>3, <4>1
        <4> QED BY Zenon, <3>1, <3>2, <4>2 DEF OnlyActive
      <3> QED BY Zenon, <2>2, <3>2 DEF OnlyActive
    <2>5. CASE job' = job /\ (job.phase = "create" => job.old.name # key.name)
      <3>1. ASSUME job.phase = "create", NEW i \in 1..n, objects'[i].name = job.old.name
            PROVE  ~objects'[i].active
        <4>1. i # n
          BY Zenon, <2>2, <2>5, <3>1
        <4>2. i \in 1..Len(objects) /\ objects'[i] = objects[i]
          BY Zenon, <2>2, <2>3, <4>1
        <4> QED BY Zenon, <1>1, <3>1, <4>2
      <3> QED BY Zenon, <1>1, <2>2, <2>4, <2>5, <3>1 DEF RotatesOnce
    <2>6. CASE \E k \in KeyIDs : RotateCreate(k)
      <3>1. job.phase = "create" /\ job' = [phase |-> "rotate", keys |-> job.keys]
        BY Zenon, <2>6 DEF RotateCreate
      <3>2. job'.phase = "rotate" /\ job'.phase # "create" /\ job'.keys = job.keys
        BY <3>1
      <3> QED BY Zenon, <1>1, <2>4, <3>1, <3>2 DEF RotatesOnce
    <2> QED BY Zenon, <2>1, <2>5, <2>6
  <1>8. CASE Keeps
    <2>1. job' = job \/ RunnerStep
      <3>1. ASSUME NEW key, Adds(key) PROVE FALSE
        <4>1. Len(objects') = Len(objects) + 1 /\ Len(objects) \in Nat
          BY Zenon, <3>1, AddedFound, Reads DEF Enlarged, IInv
        <4>2. Len(objects') = Len(objects)
          BY Zenon, <1>8 DEF Keeps
        <4> QED BY <4>1, <4>2
      <3>2. ASSUME set' = set, NEW k \in KeyIDs, RotateCreate(k) PROVE FALSE
        BY Zenon, <3>1, <3>2, RotateAdds
      <3> QED BY Zenon, <3>2, StepKind
    <2> QED BY Zenon, <1>3, <1>4, <1>5, <1>6, <1>8, <2>1 DEF RunnerStep
  <1> QED BY Zenon, <1>7, <1>8

-----------------------------------------------------------------------------
\* The invariant holds at the start.
LEMMA InitIInv == Init => IInv
  <1> SUFFICES ASSUME Init PROVE IInv
    OBVIOUS
  <1>1. /\ set \in Settings /\ objects = <<>> /\ Len(objects) = 0
        /\ nextHash = 1 /\ clock = 1
        /\ apiKeys = [h \in Hashes |-> 0] /\ apiKeysByID = [k \in KeyIDs |-> 0]
        /\ handler = [h \in Handlers |-> Idle] /\ job = Resting
    BY DEF Init
  <1>2. job.phase = "rest" /\ job.phase \notin {"reset", "rotate", "create"}
    BY <1>1 DEF Resting
  <1>3. \A k \in KeyIDs : ~Known(k)
    BY Zenon, <1>1 DEF Known
  <1>4. \A h \in Handlers : handler[h].op = "idle"
    BY Zenon, <1>1 DEF Idle
  <1>5. 1..Len(objects) = {} /\ nextHash <= Len(objects) + 1
    BY <1>1
  <1>6. objects \in Seq(Objects) /\ nextHash \in Nat \ {0} /\ clock \in Nat
    BY <1>1
  <1>7. /\ apiKeys \in [Hashes -> 0..Len(objects)]
        /\ apiKeysByID \in [KeyIDs -> 0..Len(objects)]
    <2>1. 0 \in 0..Len(objects)
      BY <1>1
    <2> QED BY Zenon, <1>1, <2>1
  <1>8. /\ handler \in [Handlers -> {Idle} \cup [op : Operations, key : Objects]]
    BY Zenon, <1>1
  <1>9. TypeOK
    BY Zenon, <1>1, <1>6, <1>7, <1>8 DEF TypeOK
  <1>10. Stocked /\ OneActive
    BY Zenon, <1>3, <1>5 DEF Stocked, OneActive
  <1>11. HandlersTaken /\ HashesStay /\ IndexesAgree
    BY Zenon, <1>3, <1>4 DEF HandlersTaken, HashesStay, IndexesAgree
  <1>12. JobTaken /\ RotatesOnce
    BY Zenon, <1>2 DEF JobTaken, RotatesOnce
  <1> QED BY Zenon, <1>9, <1>10, <1>11, <1>12 DEF IInv

\* Every step keeps the invariant.
LEMMA NextIInv == IInv /\ [Next]_vars => IInv'
  <1>1. ASSUME IInv, Next PROVE IInv'
    <2>1. /\ set' = set /\ set \in Settings /\ KeyIDs' = KeyIDs /\ Handlers' = Handlers
          /\ Operations' = Operations /\ Hashes' = Hashes /\ Objects' = Objects
      BY Zenon, <1>1, StoreKind, SettingsStay DEF IInv, TypeOK
    <2>2. clock' \in Nat
      <3>1. CASE clock' = clock
        BY Zenon, <1>1, <3>1 DEF IInv, TypeOK
      <3>2. CASE clock' = clock + 1
        BY <1>1, <3>2 DEF IInv, TypeOK
      <3>3. clock' = clock \/ clock' = clock + 1
        BY Zenon, <1>1 DEF Next, GenerateKey, DeleteKey, Spend, BlockKey, ReadKey,
           UpdateKey, RegenerateKey, RunJobs, ResetQuery, RotateQuery, JobsEnd, ResetKey,
           RotateCreate,            RotateDelete, Tick
      <3> QED BY Zenon, <3>1, <3>2, <3>3
    <2>3. TypeOK'
      BY Zenon, <1>1, <2>1, <2>2, StoreTypes, HandlersTyped, JobTyped DEF TypeOK, Idle,
         Resting
    <2>4. Stocked' /\ HandlersTaken' /\ JobTaken'
      BY Zenon, <1>1, StockedStays, HandlersTyped, JobTyped
    <2>5. ("regenerate" \notin Operations)' => IndexesAgree' /\ HashesStay'
      BY Zenon, <1>1, <2>1, IndexesStay, HashesStayStays
    <2>6. (Handlers = {})' => OneActive' /\ RotatesOnce'
      BY Zenon, <1>1, <2>1, OneActiveStays, RotatesOnceStays
    <2> QED BY Zenon, <2>3, <2>4, <2>5, <2>6 DEF IInv
  <1>2. ASSUME IInv, UNCHANGED vars PROVE IInv'
    <2>1. /\ UNCHANGED <<set, objects, apiKeys, apiKeysByID, nextHash, clock, handler, job>>
          /\ KeyIDs' = KeyIDs /\ Handlers' = Handlers
          /\ Operations' = Operations /\ Hashes' = Hashes /\ Objects' = Objects
      BY Zenon, <1>2, SettingsStay DEF vars
    <2>2. TypeOK'
      BY Zenon, <1>2, <2>1 DEF IInv, TypeOK, Idle, Resting
    <2>3. Stocked'
      BY Zenon, <1>2, <2>1 DEF IInv, Stocked, Taken, Known, ByID
    <2>4. HandlersTaken' /\ JobTaken'
      BY Zenon, <1>2, <2>1 DEF IInv, HandlersTaken, JobTaken, Taken, Known
    <2>5. ("regenerate" \notin Operations)' => IndexesAgree' /\ HashesStay'
      BY Zenon, <1>2, <2>1 DEF IInv, IndexesAgree, HashesStay, Known, ByID
    <2>6. (Handlers = {})' => OneActive'
      BY Zenon, <1>2, <2>1 DEF IInv, OneActive, OnlyActive
    <2>7. (Handlers = {})' => RotatesOnce'
      BY Zenon, <1>2, <2>1 DEF IInv, RotatesOnce, OnlyActive
    <2> QED BY Zenon, <2>2, <2>3, <2>4, <2>5, <2>6, <2>7 DEF IInv
  <1> QED BY Zenon, <1>1, <1>2

\* MemoryStore and JobRunner: for every set of keys and of concurrent handlers,
\* and any number of objects, requests are judged by the object that blocking,
\* deleting, charging and updating by ID work on, as long as no credentials are
\* regenerated, and of a rotated key only the successor is accepted, as long as
\* no handler writes an old copy back.
THEOREM KeysAlwaysAgree == Spec => []KeysAgree
  <1>1. IInv => KeysAgree
    <2> SUFFICES ASSUME IInv PROVE KeysAgree
      OBVIOUS
    <2>1. AtMostOneActive
      BY Zenon, OneActiveIsEnough DEF AtMostOneActive, IInv
    <2>2. IndexesAgree
      BY Zenon DEF IndexesAgree, IInv
    <2> QED BY Zenon, <2>1, <2>2 DEF KeysAgree
  <1> QED BY InitIInv, NextIInv, <1>1, PTL DEF Spec

=============================================================================
