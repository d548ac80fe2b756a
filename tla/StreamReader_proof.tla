------------------------- MODULE StreamReader_proof -------------------------
(***************************************************************************)
(* A stream is handed out in order, gives back what it holds and is        *)
(* reported once per request, for every text, every number of deployments  *)
(* and retries and every recovery mode.                                    *)
(*                                                                         *)
(* The properties speak of a stream that is over.  To be inductive they    *)
(* have to say, for each point of Recv and tryRecover, where the           *)
(* connection stands in the text, whose request is under way, and which    *)
(* request the router has not heard of yet.                                *)
(***************************************************************************)
EXTENDS StreamReader, TLAPS

USE SMTT(30)

TypeOK ==
    /\ set \in Settings
    /\ closed \in BOOLEAN /\ seenDone \in BOOLEAN
    /\ requestEnded \in BOOLEAN /\ ctxDone \in BOOLEAN
    /\ deployment \in Deployments \cup {NoDeployment}
    /\ skipRemaining \in Nat /\ accumulatedRunes \in Nat /\ nextRune \in Nat
    /\ postHooks \in {"none", "nil", "error"}
    /\ pc \in {"idle", "nested", "failed", "recover", "backoff", "acquired", "sent",
               "rejected"}
    /\ release \in Deployments \cup {NoDeployment}
    /\ picked \in Deployments \cup {NoDeployment}
    /\ result \in {"none", "chunk", "eof", "error"}
    /\ delivered \in Seq(Nat)
    /\ requests \in Nat /\ verdicts \in Nat /\ closes \in Nat
    /\ active \in [Deployments -> Int] /\ held \in [Deployments -> Int]

\* Recv can return more of the text.
Reading == Receiving /\ ~closed

\* Only a connection to a provider is recovered, and only if that is wanted.
RecoversOnlyIfEnabled ==
    pc # "idle" => RecoveryMode # "off" /\ ~FromPlugin

\* Where the connection stands in the text.
Position ==
    /\ accumulatedRunes = Len(delivered)
    /\ Reading => nextRune + Skip = accumulatedRunes + 1
    /\ RecoveryMode = "retry" /\ pc \in {"backoff", "acquired", "sent", "rejected"}
           => skipRemaining = accumulatedRunes

\* The deployment whose request and permit are not given back yet
Owner ==
    IF pc \in {"acquired", "sent"} THEN picked
    ELSE IF pc \in {"idle", "nested", "recover"} /\ ~requestEnded THEN deployment
    ELSE NoDeployment

\* What the reader holds, if nobody closes it during a recovery
Held ==
    /\ closed => requestEnded /\ openBodies = {}
    /\ pc \in {"backoff", "acquired", "sent", "rejected", "nested"} => ~closed
    /\ openBodies \subseteq {body}
    /\ pc \notin {"idle", "nested", "recover"} => openBodies = {}
    /\ pc \in {"backoff", "acquired", "failed"} => requestEnded
    /\ pc \in {"sent", "rejected"} => ~requestEnded /\ release = picked
    /\ pc \in {"idle", "nested", "recover"} /\ ~requestEnded => release = deployment
    /\ active = [d \in Deployments |-> IF d = Owner THEN 1 ELSE 0]
    /\ held = active

\* The requests on which the router has not heard a verdict and still may
Owed == IF pc \in {"acquired", "sent"} \/ (Reading /\ ~FromPlugin) THEN 1 ELSE 0

Verdicts ==
    /\ deployment = NoDeployment <=> FromPlugin
    /\ pc \in {"acquired", "sent", "rejected"} => picked \in Deployments
    /\ verdicts + Owed <= requests
    /\ closes = 0 =>
           /\ verdicts + Owed = requests
           /\ pc \in {"backoff", "acquired", "sent", "rejected", "nested"} => ~closed
    /\ result \in {"eof", "error"} => pc = "idle" /\ closed

Hooks ==
    /\ closed => postHooks # "none"
    /\ closes = 0 => /\ postHooks = "error" => pc = "idle" /\ closed
                     /\ postHooks = "nil" => seenDone
                     /\ seenDone => postHooks # "none"
                     /\ postHooks = "error" => ~seenDone

IInv ==
    /\ TypeOK /\ RecoversOnlyIfEnabled
    /\ ~PluginMayDrop => Position /\ DeliveredInOrder
    /\ ~ConcurrentClose => Held
    /\ Verdicts /\ Hooks

-----------------------------------------------------------------------------

\* What the assumptions say of a stream's settings
LEMMA Constants ==
    /\ NoDeployment \notin Deployments
    /\ TypeOK => /\ TextLen \in Nat /\ MaxRetries \in Nat
                 /\ RecoveryMode \in {"off", "append", "retry"}
  BY Zenon, DeploymentsAssumption, SettingsAssumption
  DEF TypeOK, TextLen, MaxRetries, RecoveryMode

\* Sequences of runes: their length, what joining two of them gives, and the part of one
\* from the m-th rune to the n-th.
LEMMA LenProperties ==
    ASSUME NEW s \in Seq(Nat) PROVE Len(s) \in Nat /\ s = [i \in 1..Len(s) |-> s[i]]
  OBVIOUS

\* Two texts after each other
LEMMA ConcatProperties ==
    ASSUME NEW s \in Seq(Nat), NEW t \in Seq(Nat)
    PROVE  /\ s \o t \in Seq(Nat)
           /\ Len(s \o t) = Len(s) + Len(t)
           /\ \A i \in 1..(Len(s) + Len(t)) :
                  (s \o t)[i] = IF i <= Len(s) THEN s[i] ELSE t[i - Len(s)]
  OBVIOUS

\* A part of a text
LEMMA SubSeqProperties ==
    ASSUME NEW s, NEW m \in Int, NEW n \in Int, \A i \in m..n : s[i] \in Nat
    PROVE  /\ SubSeq(s, m, n) \in Seq(Nat)
           /\ Len(SubSeq(s, m, n)) = IF m <= n THEN n - m + 1 ELSE 0
           /\ \A i \in 1..(n - m + 1) : SubSeq(s, m, n)[i] = s[m + i - 1]
  OBVIOUS

\* A part that ends before it begins
LEMMA SubSeqEmpty ==
    ASSUME NEW s, NEW m \in Int, NEW n \in Int, n < m PROVE SubSeq(s, m, n) = <<>>
  OBVIOUS

\* The runes first..last, as RecvChunk receives them
Chunk(first, last) == [i \in 1..(last - first + 1) |-> first + i - 1]

\* What trimLeadingRunes leaves of a chunk, if it leaves anything
LEMMA ChunkTrimmed ==
    ASSUME NEW first \in Nat, NEW last \in Nat, NEW skip \in Nat,
           TrimLeadingRunes(Chunk(first, last), skip).rest # <<>>
    PROVE  LET trimmed == TrimLeadingRunes(Chunk(first, last), skip)
           IN  /\ trimmed.rest \in Seq(Nat)
               /\ first + skip <= last
               /\ Len(trimmed.rest) = last + 1 - (first + skip)
               /\ \A j \in 1..Len(trimmed.rest) : trimmed.rest[j] = first + skip + j - 1
               /\ trimmed.remaining = 0
  <1> DEFINE len == last - first + 1
             rest == SubSeq(Chunk(first, last), skip + 1, len)
  <1>0. first <= last + 1 => Len(Chunk(first, last)) = len
    BY DEF Chunk
  <1>1. CASE first > last
    <2>1. Chunk(first, last) = <<>>
      BY <1>1 DEF Chunk
    <2>2. SubSeq(<<>>, skip + 1, 0) = <<>>
      BY SubSeqEmpty
    <2>3. Len(<<>>) = 0
      OBVIOUS
    <2> QED BY Zenon, <2>1, <2>2, <2>3 DEF TrimLeadingRunes
  <1>2. CASE first <= last
    <2>1. Len(Chunk(first, last)) = len /\ len \in Nat
      BY <1>2, <1>0
    <2>2. TrimLeadingRunes(Chunk(first, last), skip) =
            [rest |-> rest, remaining |-> Max2(0, skip - len)]
      BY Zenon, <2>1 DEF TrimLeadingRunes
    <2>3. \A i \in (skip + 1)..len : Chunk(first, last)[i] \in Nat
      BY <1>2 DEF Chunk
    <2>4. /\ rest \in Seq(Nat)
          /\ Len(rest) = IF skip + 1 <= len THEN len - skip ELSE 0
          /\ \A i \in 1..(len - skip) : rest[i] = Chunk(first, last)[skip + i]
      BY <2>1, <2>3, SubSeqProperties
    <2>5. skip + 1 <= len
      BY <2>1, <2>2, SubSeqEmpty
    <2>6. \A i \in 1..(len - skip) : rest[i] = first + skip + i - 1
      <3> TAKE i \in 1..(len - skip)
      <3>1. skip + i \in 1..len
        BY <2>1, <2>5
      <3>2. Chunk(first, last)[skip + i] = first + (skip + i) - 1
        BY Zenon, <3>1 DEF Chunk
      <3>3. i \in 1..(len - skip) => rest[i] = Chunk(first, last)[skip + i]
        BY Zenon, <2>4
      <3> QED BY <3>2, <3>3
    <2>7. Max2(0, skip - len) = 0
      BY <2>1, <2>5 DEF Max2
    <2> QED BY <2>1, <2>2, <2>4, <2>5, <2>6, <2>7
  <1> QED BY <1>1, <1>2

\* What Recv appends to the text it has returned: some runes from first on.
LEMMA ChunkReceived ==
    ASSUME IInv, NEW first \in 1..TextLen, NEW last \in 1..TextLen,
           RecvChunk(first, last)
    PROVE  \E skip \in Nat, n \in Nat, rest \in Seq(Nat) :
               /\ skip = Max2(0, Skip - (first - nextRune))
               /\ Len(rest) = n /\ n = last + 1 - (first + skip)
               /\ \A j \in 1..n : rest[j] = first + skip + j - 1
               /\ skipRemaining' = 0
               /\ accumulatedRunes' = accumulatedRunes + n
               /\ delivered' = delivered \o rest
               /\ nextRune' = last + 1
  <1> DEFINE skip == Max2(0, Skip - (first - nextRune))
             trimmed == TrimLeadingRunes(Chunk(first, last), skip)
  <1>1. first \in Nat /\ last \in Nat
    BY Constants DEF IInv
  <1>2. skip \in Nat
    BY <1>1 DEF IInv, TypeOK, Max2, Skip
  <1>3. /\ trimmed.rest # <<>>
        /\ skipRemaining' = trimmed.remaining
        /\ accumulatedRunes' = accumulatedRunes + Len(trimmed.rest)
        /\ delivered' = delivered \o trimmed.rest
        /\ nextRune' = last + 1
    BY Zenon DEF RecvChunk, Chunk
  <1> HIDE DEF skip
  <1>4. /\ trimmed.rest \in Seq(Nat)
        /\ Len(trimmed.rest) = last + 1 - (first + skip)
        /\ \A j \in 1..Len(trimmed.rest) : trimmed.rest[j] = first + skip + j - 1
        /\ trimmed.remaining = 0
    BY Zenon, <1>1, <1>2, <1>3, ChunkTrimmed
  <1> HIDE DEF trimmed
  <1>5. Len(trimmed.rest) \in Nat
    BY Zenon, <1>4, LenProperties
  <1>6. skip = Max2(0, Skip - (first - nextRune))
    BY Zenon DEF skip
  <1> QED BY Zenon, <1>2, <1>3, <1>4, <1>5, <1>6

\* Nothing is active, nothing held.
Nothing == [d \in Deployments |-> 0]

\* Giving one slot of one deployment back
LEMMA OneGivenBack ==
    ASSUME NEW p \in Deployments
    PROVE  [[d \in Deployments |-> IF d = p THEN 1 ELSE 0] EXCEPT ![p] = @ - 1] = Nothing
  <1> DEFINE one == [d \in Deployments |-> IF d = p THEN 1 ELSE 0]
             less == [one EXCEPT ![p] = @ - 1]
  <1>1. /\ one \in [Deployments -> Int]
        /\ \A d \in Deployments : one[d] = IF d = p THEN 1 ELSE 0
    OBVIOUS
  <1> HIDE DEF one
  <1>2. less \in [Deployments -> Int] /\ \A d \in Deployments : less[d] = 0
    BY <1>1
  <1>3. less = [d \in Deployments |-> less[d]]
    BY Zenon, <1>2
  <1> HIDE DEF less
  <1>4. less = Nothing
    BY Zenon, <1>2, <1>3 DEF Nothing
  <1> QED BY Zenon, <1>4 DEF less, one

\* endRequest gives back what the reader holds between two recoveries.
LEMMA EndRequestReleases ==
    ASSUME IInv, Held, EndRequest, pc \in {"idle", "nested", "recover", "failed"}
    PROVE  active' = Nothing /\ held' = Nothing /\ requestEnded'
  <1>1. CASE requestEnded
    <2>1. Owner = NoDeployment
      BY Zenon, <1>1 DEF Owner, Held
    <2>2. active = Nothing
      BY Zenon, <2>1, DeploymentsAssumption DEF Held, Nothing
    <2> QED BY Zenon, <1>1, <2>2 DEF EndRequest, Held
  <1>2. CASE ~requestEnded
    <2>1. Owner = deployment /\ release = deployment
      BY Zenon, <1>2 DEF Owner, Held
    <2>2. CASE deployment = NoDeployment
      <3>1. active = Nothing
        BY Zenon, <2>1, <2>2, DeploymentsAssumption DEF Held, Nothing
      <3> QED BY Zenon, <1>2, <2>1, <2>2, <3>1 DEF EndRequest, Decrement, Held
    <2>3. CASE deployment \in Deployments
      <3>1. Decrement(active, deployment) = [active EXCEPT ![deployment] = @ - 1]
        BY Zenon, <2>3, DeploymentsAssumption DEF Decrement
      <3>2. active = [d \in Deployments |-> IF d = deployment THEN 1 ELSE 0]
        BY Zenon, <2>1 DEF Held
      <3>3. Decrement(active, deployment) = Nothing
        BY Zenon, <2>3, <3>1, <3>2, OneGivenBack
      <3> QED BY Zenon, <1>2, <2>1, <3>3 DEF EndRequest, Held
    <2> QED BY Zenon, <2>2, <2>3 DEF IInv, TypeOK
  <1> QED BY Zenon, <1>1, <1>2 DEF IInv, TypeOK

\* So does close, with the response body.
LEMMA CloseReleases ==
    ASSUME IInv, Held, CloseReader, pc \in {"idle", "nested", "recover", "failed"}
    PROVE  /\ active' = Nothing /\ held' = Nothing
           /\ requestEnded' /\ openBodies' = {} /\ closed'
  <1>1. openBodies' = {} /\ closed'
    BY Zenon DEF CloseReader, CloseBody, Held
  <1>2. CASE closed
    <2>1. Owner = NoDeployment
      BY Zenon, <1>2 DEF Owner, Held
    <2>2. active = Nothing
      BY Zenon, <2>1, DeploymentsAssumption DEF Held, Nothing
    <2> QED BY Zenon, <1>1, <1>2, <2>2 DEF CloseReader, Held
  <1>3. CASE ~closed
    BY Zenon, <1>1, <1>3, EndRequestReleases DEF CloseReader
  <1> QED BY Zenon, <1>2, <1>3 DEF IInv, TypeOK

\* Decrement counts one deployment down.
LEMMA DecrementType ==
    ASSUME NEW count \in [Deployments -> Int],
           NEW d \in Deployments \cup {NoDeployment}
    PROVE  Decrement(count, d) \in [Deployments -> Int]
  BY DeploymentsAssumption DEF Decrement

\* Every step keeps the types.
LEMMA StepTypeOK ==
    ASSUME IInv, Next PROVE TypeOK'
  <1> USE DEF EndRequest, CloseBody, CloseReader, Finalize, ReportVerdict, Finish,
         Return, ReturnEOF, RecoverOrGiveUp, fields, accounts, IInv, TypeOK, Decrement,
         Next, Receiving
  <1>1. CASE RecvClosed
    BY Constants, <1>1 DEF RecvClosed
  <1>2. CASE RecvDone
    BY Constants, <1>2 DEF RecvDone
  <1>3. CASE RecvEnd
    BY Constants, <1>3 DEF RecvEnd
  <1>4. CASE RecvBroken
    <2>1. active' \in [Deployments -> Int] /\ held' \in [Deployments -> Int]
      BY <1>4, DecrementType DEF RecvBroken
    <2>2. /\ release' \in Deployments \cup {NoDeployment}
          /\ requestEnded' \in BOOLEAN /\ closed' \in BOOLEAN
          /\ postHooks' \in {"none", "nil", "error"}
      BY Zenon, <1>4 DEF RecvBroken
    <2>3. verdicts' \in Nat
      BY <1>4 DEF RecvBroken
    <2> QED BY Zenon, <1>4, <2>1, <2>2, <2>3, Constants DEF RecvBroken
  <1>5. ASSUME NEW first \in 1..TextLen, NEW last \in 1..TextLen, RecvChunk(first, last)
        PROVE  TypeOK'
    <2>1. PICK skip \in Nat, n \in Nat, rest \in Seq(Nat) :
             /\ skip = Max2(0, Skip - (first - nextRune))
             /\ Len(rest) = n /\ n = last + 1 - (first + skip)
             /\ \A j \in 1..n : rest[j] = first + skip + j - 1
             /\ skipRemaining' = 0
             /\ accumulatedRunes' = accumulatedRunes + n
             /\ delivered' = delivered \o rest
             /\ nextRune' = last + 1
      BY Zenon, <1>5, ChunkReceived
    <2>a. /\ n = last + 1 - (first + skip) /\ accumulatedRunes' = accumulatedRunes + n
          /\ nextRune' = last + 1 /\ skipRemaining' = 0 /\ accumulatedRunes \in Nat
      BY Zenon, <2>1 DEF IInv, TypeOK
    <2>b. delivered' = delivered \o rest /\ Len(rest) = n /\ delivered \in Seq(Nat)
      BY Zenon, <2>1 DEF IInv, TypeOK
    <2>2. delivered' \in Seq(Nat)
      BY Zenon, <2>1, ConcatProperties
    <2>3. accumulatedRunes' \in Nat /\ nextRune' \in Nat /\ skipRemaining' \in Nat
      BY <2>a, Constants
    <2> QED BY Zenon, <1>5, <2>2, <2>3 DEF RecvChunk
  <1>6. CASE RecoverAgain
    <2>1. active' \in [Deployments -> Int] /\ held' \in [Deployments -> Int]
      BY <1>6, DecrementType DEF RecoverAgain
    <2>2. /\ release' \in Deployments \cup {NoDeployment}
          /\ requestEnded' \in BOOLEAN /\ closed' \in BOOLEAN
          /\ postHooks' \in {"none", "nil", "error"}
      BY Zenon, <1>6 DEF RecoverAgain
    <2>3. verdicts' \in Nat
      BY Zenon, <1>6 DEF RecoverAgain
    <2> QED BY Zenon, <1>6, <2>1, <2>2, <2>3, Constants DEF RecoverAgain
  <1>7. CASE RecoverBegin
    <2>1. active' \in [Deployments -> Int] /\ held' \in [Deployments -> Int]
      BY Zenon, <1>7, DecrementType DEF RecoverBegin
    <2>2. /\ release' \in Deployments \cup {NoDeployment}
          /\ requestEnded' \in BOOLEAN /\ closed' \in BOOLEAN
          /\ postHooks' \in {"none", "nil", "error"}
      BY Zenon, <1>7 DEF RecoverBegin
    <2>3. verdicts' \in Nat
      BY Zenon, <1>7 DEF RecoverBegin
    <2> QED BY Zenon, <1>7, <2>1, <2>2, <2>3, Constants DEF RecoverBegin
  <1>8. CASE RecoverAbandon
    BY Constants, <1>8 DEF RecoverAbandon
  <1>9. ASSUME NEW d \in Deployments, RecoverAcquire(d) PROVE TypeOK'
    BY Constants, <1>9 DEF RecoverAcquire
  <1>10. CASE RecoverRegister
    BY Zenon, Constants, <1>10 DEF RecoverRegister
  <1>11. CASE RecoverRejected
    BY Constants, <1>11 DEF RecoverRejected
  <1>12. CASE RecoverForget
    BY Zenon, Constants, <1>12 DEF RecoverForget
  <1>13. CASE RecoverInstall
    BY Constants, <1>13 DEF RecoverInstall
  <1>14. CASE Close
    <2>1. active' \in [Deployments -> Int] /\ held' \in [Deployments -> Int]
      BY <1>14, DecrementType DEF Close
    <2>2. /\ release' \in Deployments \cup {NoDeployment}
          /\ requestEnded' \in BOOLEAN /\ closed' \in BOOLEAN
          /\ postHooks' \in {"none", "nil", "error"}
      BY Zenon, <1>14 DEF Close
    <2>3. verdicts' \in Nat
      BY Zenon, <1>14 DEF Close
    <2> QED BY <1>14, <2>1, <2>2, <2>3, Constants DEF Close
  <1>15. CASE CtxDone
    BY Constants, <1>15 DEF CtxDone
  <1> QED BY Zenon, <1>1, <1>2, <1>3, <1>4, <1>5, <1>6, <1>7, <1>8, <1>9, <1>10, <1>11,
         <1>12, <1>13, <1>14, <1>15 DEF Next, Recv, Recovering

\* tryRecover is only entered when recovery is on, for a provider's connection.
LEMMA StepRecovers ==
    ASSUME IInv, Next PROVE RecoversOnlyIfEnabled'
  <1> USE DEF IInv, TypeOK, RecoversOnlyIfEnabled, RecoveryMode, FromPlugin, Receiving,
         CanRecover, Return, ReturnEOF, RecoverOrGiveUp, Next
  <1>1. CASE RecvClosed
    BY Zenon, <1>1 DEF RecvClosed
  <1>2. CASE RecvDone
    BY Zenon, <1>2 DEF RecvDone
  <1>3. CASE RecvEnd
    BY Zenon, <1>3 DEF RecvEnd
  <1>4. CASE RecvBroken
    BY Zenon, <1>4 DEF RecvBroken
  <1>5. ASSUME NEW first \in 1..TextLen, NEW last \in 1..TextLen, RecvChunk(first, last)
        PROVE  RecoversOnlyIfEnabled'
    BY Zenon, <1>5 DEF RecvChunk
  <1>6. CASE RecoverAgain
    BY Zenon, <1>6 DEF RecoverAgain
  <1>7. CASE RecoverBegin
    BY Zenon, <1>7 DEF RecoverBegin
  <1>8. CASE RecoverAbandon
    BY Zenon, <1>8 DEF RecoverAbandon
  <1>9. ASSUME NEW d \in Deployments, RecoverAcquire(d) PROVE RecoversOnlyIfEnabled'
    BY Zenon, <1>9 DEF RecoverAcquire
  <1>10. CASE RecoverRegister
    BY Zenon, <1>10 DEF RecoverRegister
  <1>11. CASE RecoverRejected
    BY Zenon, <1>11 DEF RecoverRejected
  <1>12. CASE RecoverForget
    BY Zenon, <1>12 DEF RecoverForget
  <1>13. CASE RecoverInstall
    BY Zenon, <1>13 DEF RecoverInstall
  <1>14. CASE Close
    BY Zenon, <1>14 DEF Close
  <1>15. CASE CtxDone
    BY Zenon, <1>15 DEF CtxDone
  <1> QED BY Zenon, <1>1, <1>2, <1>3, <1>4, <1>5, <1>6, <1>7, <1>8, <1>9, <1>10, <1>11,
         <1>12, <1>13, <1>14, <1>15 DEF Next, Recv, Recovering

\* Every step leaves the connection where the skipping of Recv expects it.
LEMMA StepPosition ==
    ASSUME IInv, Next, ~PluginMayDrop PROVE Position'
  <1> USE DEF IInv, TypeOK, Position, Reading, Receiving, Skip, RecoveryMode,
         RecoversOnlyIfEnabled, CloseReader, Finish, Return, ReturnEOF, RecoverOrGiveUp,
         fields, accounts, Next
  <1>1. CASE RecvClosed
    BY Zenon, Constants, <1>1 DEF RecvClosed
  <1>2. CASE RecvDone
    BY Zenon, Constants, <1>2 DEF RecvDone
  <1>3. CASE RecvEnd
    BY Zenon, Constants, <1>3 DEF RecvEnd
  <1>4. CASE RecvBroken
    BY Zenon, Constants, <1>4 DEF RecvBroken
  <1>5. ASSUME NEW first \in 1..TextLen, NEW last \in 1..TextLen, RecvChunk(first, last)
        PROVE  Position'
    <2>1. PICK skip \in Nat, n \in Nat, rest \in Seq(Nat) :
             /\ skip = Max2(0, Skip - (first - nextRune))
             /\ Len(rest) = n /\ n = last + 1 - (first + skip)
             /\ \A j \in 1..n : rest[j] = first + skip + j - 1
             /\ skipRemaining' = 0
             /\ accumulatedRunes' = accumulatedRunes + n
             /\ delivered' = delivered \o rest
             /\ nextRune' = last + 1
      BY Zenon, <1>5, ChunkReceived
    <2>a. /\ n = last + 1 - (first + skip) /\ accumulatedRunes' = accumulatedRunes + n
          /\ nextRune' = last + 1 /\ skipRemaining' = 0 /\ accumulatedRunes \in Nat
      BY Zenon, <2>1 DEF IInv, TypeOK
    <2>b. delivered' = delivered \o rest /\ Len(rest) = n /\ delivered \in Seq(Nat)
      BY Zenon, <2>1 DEF IInv, TypeOK
    <2>2. first >= nextRune /\ PassesOver(first) /\ first \in Nat /\ last \in Nat
          /\ ~closed /\ Receiving
      BY <1>5, Constants DEF RecvChunk
    <2>3. first + skip = accumulatedRunes + 1
      BY <2>1, <2>2, Constants DEF PassesOver, Max2
    <2>4. Len(delivered') = Len(delivered) + n
      BY Zenon, <2>b, ConcatProperties
    <2>5. Skip' = 0
      BY Zenon, <2>1
    <2>6. accumulatedRunes' = Len(delivered')
      BY Zenon, <2>1, <2>4
    <2>9. nextRune' = accumulatedRunes' + 1
      BY <2>2, <2>3, <2>a
    <2>7. pc' = "idle"
      BY Zenon, <1>5 DEF RecvChunk
    <2> QED BY <2>1, <2>5, <2>6, <2>7, <2>9
  <1>6. CASE RecoverAgain
    BY Zenon, Constants, <1>6 DEF RecoverAgain
  <1>7. CASE RecoverBegin
    BY Zenon, Constants, <1>7 DEF RecoverBegin
  <1>8. CASE RecoverAbandon
    BY Zenon, Constants, <1>8 DEF RecoverAbandon
  <1>9. ASSUME NEW d \in Deployments, RecoverAcquire(d) PROVE Position'
    BY Zenon, Constants, <1>9 DEF RecoverAcquire
  <1>10. CASE RecoverRegister
    BY Zenon, Constants, <1>10 DEF RecoverRegister
  <1>11. CASE RecoverRejected
    BY Zenon, Constants, <1>11 DEF RecoverRejected
  <1>12. CASE RecoverForget
    BY Zenon, Constants, <1>12 DEF RecoverForget
  <1>13. CASE RecoverInstall
    <2>1. nextRune' + Skip' = accumulatedRunes' + 1
      <3>1. CASE RecoveryMode = "append"
        BY <1>13, <3>1 DEF RecoverInstall
      <3>2. CASE RecoveryMode = "retry"
        BY <1>13, <3>2 DEF RecoverInstall
      <3> QED BY Zenon, Constants, <1>13, <3>1, <3>2 DEF RecoverInstall
    <2> QED BY Zenon, <1>13, <2>1 DEF RecoverInstall
  <1>14. CASE Close
    BY Zenon, Constants, <1>14 DEF Close
  <1>15. CASE CtxDone
    BY Zenon, Constants, <1>15 DEF CtxDone
  <1> QED BY Zenon, <1>1, <1>2, <1>3, <1>4, <1>5, <1>6, <1>7, <1>8, <1>9, <1>10, <1>11,
         <1>12, <1>13, <1>14, <1>15 DEF Next, Recv, Recovering

\* Only a chunk extends the text, with what comes next in it.
LEMMA StepDelivered ==
    ASSUME IInv, Next, ~PluginMayDrop
    PROVE  delivered' = [i \in 1..Len(delivered') |-> i]
  <1>0. Position /\ delivered = [i \in 1..Len(delivered) |-> i] /\ TypeOK
    BY Zenon DEF IInv, DeliveredInOrder
  <1>1. ASSUME NEW first \in 1..TextLen, NEW last \in 1..TextLen,
               RecvChunk(first, last)
        PROVE  delivered' = [i \in 1..Len(delivered') |-> i]
    <2>1. PICK skip \in Nat, n \in Nat, rest \in Seq(Nat) :
             /\ skip = Max2(0, Skip - (first - nextRune))
             /\ Len(rest) = n /\ n = last + 1 - (first + skip)
             /\ \A j \in 1..n : rest[j] = first + skip + j - 1
             /\ skipRemaining' = 0
             /\ accumulatedRunes' = accumulatedRunes + n
             /\ delivered' = delivered \o rest
             /\ nextRune' = last + 1
      BY Zenon, <1>1, ChunkReceived
    <2>a. /\ n = last + 1 - (first + skip) /\ accumulatedRunes' = accumulatedRunes + n
          /\ nextRune' = last + 1 /\ skipRemaining' = 0 /\ accumulatedRunes \in Nat
      BY Zenon, <2>1 DEF IInv, TypeOK
    <2>b. delivered' = delivered \o rest /\ Len(rest) = n /\ delivered \in Seq(Nat)
      BY Zenon, <2>1 DEF IInv, TypeOK
    <2>2. first >= nextRune /\ PassesOver(first) /\ first \in Nat /\ Reading
      BY <1>1, <1>0, Constants DEF RecvChunk, Reading
    <2>3. first + skip = Len(delivered) + 1
      BY <1>0, <2>1, <2>2, Constants DEF PassesOver, Max2, Skip, Position, TypeOK
    <2>4. delivered \in Seq(Nat) /\ Len(delivered) \in Nat
      BY Zenon, <1>0, LenProperties DEF TypeOK
    <2>5. /\ delivered' \in Seq(Nat)
          /\ Len(delivered') = Len(delivered) + n
          /\ \A i \in 1..Len(delivered') :
                 delivered'[i] = IF i <= Len(delivered) THEN delivered[i]
                                 ELSE rest[i - Len(delivered)]
      <3>1. /\ delivered \o rest \in Seq(Nat)
            /\ Len(delivered \o rest) = Len(delivered) + Len(rest)
            /\ \A i \in 1..(Len(delivered) + Len(rest)) :
                   (delivered \o rest)[i] = IF i <= Len(delivered) THEN delivered[i]
                                             ELSE rest[i - Len(delivered)]
        BY Zenon, <2>4, ConcatProperties
      <3> QED BY Zenon, <2>1, <3>1
    <2>6. ASSUME NEW i \in 1..Len(delivered') PROVE delivered'[i] = i
      <3>1. CASE i <= Len(delivered)
        <4>1. i \in 1..Len(delivered)
          BY <2>4, <2>5, <3>1
        <4>2. delivered[i] = i
          BY Zenon, <1>0, <4>1
        <4> QED BY Zenon, <2>5, <3>1, <4>2
      <3>2. CASE i > Len(delivered)
        <4>1. i - Len(delivered) \in 1..n
          BY <2>4, <2>5, <3>2
        <4>2. rest[i - Len(delivered)] = first + skip + (i - Len(delivered)) - 1
          BY Zenon, <2>1, <4>1
        <4>3. delivered'[i] = rest[i - Len(delivered)]
          BY <2>4, <2>5, <3>2
        <4> QED BY <2>1, <2>2, <2>3, <2>4, <2>5, <4>2, <4>3
      <3> QED BY <2>4, <2>5, <3>1, <3>2
    <2>7. delivered' = [i \in 1..Len(delivered') |-> delivered'[i]]
      BY Zenon, <2>5, LenProperties, <2>4
    <2> QED BY Zenon, <2>6, <2>7
  <1>2. CASE UNCHANGED delivered
    BY Zenon, <1>0, <1>2
  <1> QED
    BY Zenon, <1>1, <1>2 DEF Next, Recv, Recovering, RecvClosed, RecvDone, RecvEnd,
           RecvBroken, RecoverAgain, RecoverBegin, RecoverAbandon, RecoverAcquire,
            RecoverRegister,
           RecoverRejected, RecoverForget, RecoverInstall, Close, CtxDone

\* Every step passes on, or gives back, the one request and permit of the reader.
LEMMA StepHeld ==
    ASSUME IInv, Next, ~ConcurrentClose PROVE Held'
  <1> USE DEF EndRequest, CloseBody, CloseReader, Finalize, ReportVerdict, Finish,
         Return, ReturnEOF, RecoverOrGiveUp, fields, accounts, IInv, TypeOK, Held,
         Owner, Receiving, Decrement, Next, ConcurrentClose, Verdicts,
         RecoversOnlyIfEnabled
  <1>1. CASE RecvClosed
    BY Zenon, Constants, <1>1 DEF RecvClosed
  <1>2. CASE RecvDone
    <2>1. /\ active' = Nothing /\ held' = Nothing
          /\ requestEnded' /\ openBodies' = {} /\ closed'
      BY Zenon, <1>2, CloseReleases DEF RecvDone
    <2>2. pc' \in {"idle", "failed"}
      BY Zenon, <1>2 DEF RecvDone
    <2>3. active' = [d \in Deployments |-> IF d = Owner' THEN 1 ELSE 0]
      BY Zenon, <2>1, <2>2, Constants DEF Nothing
    <2> QED BY Zenon, <1>2, <2>1, <2>2, <2>3
  <1>3. CASE RecvEnd
    <2>1. /\ active' = Nothing /\ held' = Nothing
          /\ requestEnded' /\ openBodies' = {} /\ closed'
      BY Zenon, <1>3, CloseReleases DEF RecvEnd
    <2>2. pc' \in {"idle", "failed"}
      BY Zenon, <1>3 DEF RecvEnd
    <2>3. active' = [d \in Deployments |-> IF d = Owner' THEN 1 ELSE 0]
      BY Zenon, <2>1, <2>2, Constants DEF Nothing
    <2> QED BY Zenon, <1>3, <2>1, <2>2, <2>3
  <1>4. CASE RecvBroken
    BY Constants, <1>4 DEF RecvBroken
  <1>5. ASSUME NEW first \in 1..TextLen, NEW last \in 1..TextLen, RecvChunk(first, last)
        PROVE  Held'
    BY Zenon, Constants, <1>5 DEF RecvChunk
  <1>6. CASE RecoverAgain
    BY Zenon, Constants, <1>6 DEF RecoverAgain
  <1>7. CASE RecoverBegin
    <2>1. active' = Nothing /\ held' = Nothing /\ requestEnded'
      BY Zenon, <1>7, EndRequestReleases DEF RecoverBegin
    <2>2. Owner' = NoDeployment
      BY Zenon, <1>7, <2>1 DEF RecoverBegin
    <2>3. active' = [d \in Deployments |-> IF d = Owner' THEN 1 ELSE 0]
      BY <2>1, <2>2, Constants DEF Nothing
    <2>4. openBodies' = {}
      BY Zenon, <1>7 DEF RecoverBegin
    <2> QED BY Zenon, <1>7, <2>1, <2>3, <2>4 DEF RecoverBegin
  <1>8. CASE RecoverAbandon
    BY Zenon, Constants, <1>8 DEF RecoverAbandon
  <1>9. ASSUME NEW d \in Deployments, RecoverAcquire(d) PROVE Held'
    <2>1. active = Nothing
      BY Zenon, <1>9, Constants DEF RecoverAcquire, Nothing
    <2>2. active' = [active EXCEPT ![d] = @ + 1] /\ held' = active'
      BY Zenon, <1>9 DEF RecoverAcquire
    <2>3. Owner' = d
      BY Zenon, <1>9 DEF RecoverAcquire
    <2>4. active' = [e \in Deployments |-> IF e = d THEN 1 ELSE 0]
      BY <2>1, <2>2 DEF Nothing
    <2> QED BY Zenon, <1>9, <2>2, <2>3, <2>4 DEF RecoverAcquire
  <1>10. CASE RecoverRegister
    BY Zenon, Constants, <1>10 DEF RecoverRegister
  <1>11. CASE RecoverRejected
    <2>1. active = [d \in Deployments |-> IF d = picked THEN 1 ELSE 0] /\ picked \in
           Deployments
      BY Zenon, <1>11 DEF RecoverRejected
    <2>2. active' = [active EXCEPT ![picked] = @ - 1] /\ held' = active'
      BY Zenon, <1>11, <2>1, Constants DEF RecoverRejected
    <2>3. Owner' = NoDeployment
      BY Zenon, <1>11 DEF RecoverRejected
    <2>4. active' = Nothing
      BY Zenon, <2>1, <2>2, OneGivenBack
    <2>5. active' = [d \in Deployments |-> IF d = Owner' THEN 1 ELSE 0]
      BY <2>3, <2>4, Constants DEF Nothing
    <2> QED BY Zenon, <1>11, <2>2, <2>5 DEF RecoverRejected
  <1>12. CASE RecoverForget
    BY Zenon, Constants, <1>12 DEF RecoverForget
  <1>13. CASE RecoverInstall
    BY Zenon, Constants, <1>13 DEF RecoverInstall
  <1>14. CASE Close
    <2>1. /\ active' = Nothing /\ held' = Nothing
          /\ requestEnded' /\ openBodies' = {} /\ closed'
      BY Zenon, <1>14, CloseReleases DEF Close
    <2>2. pc' \in {"idle", "failed"}
      BY Zenon, <1>14 DEF Close
    <2>3. active' = [d \in Deployments |-> IF d = Owner' THEN 1 ELSE 0]
      BY Zenon, <2>1, <2>2, Constants DEF Nothing
    <2> QED BY Zenon, <1>14, <2>1, <2>2, <2>3
  <1>15. CASE CtxDone
    BY Constants, <1>15 DEF CtxDone
  <1> QED BY Zenon, <1>1, <1>2, <1>3, <1>4, <1>5, <1>6, <1>7, <1>8, <1>9, <1>10, <1>11,
         <1>12, <1>13, <1>14, <1>15 DEF Next, Recv, Recovering

\* Every request is begun with a verdict owed, and a verdict settles it.
LEMMA StepVerdicts ==
    ASSUME IInv, Next PROVE Verdicts'
  <1> USE DEF IInv, TypeOK, Verdicts, Owed, Reading, Receiving, FromPlugin, CloseReader,
         ReportVerdict, Finish, Return, ReturnEOF, RecoverOrGiveUp,
         RecoversOnlyIfEnabled, fields, accounts, Next
  <1>1. CASE RecvClosed
    BY Zenon, Constants, <1>1 DEF RecvClosed
  <1>2. CASE RecvDone
    BY Constants, <1>2 DEF RecvDone
  <1>3. CASE RecvEnd
    BY Constants, <1>3 DEF RecvEnd
  <1>4. CASE RecvBroken
    BY Constants, <1>4 DEF RecvBroken
  <1>5. ASSUME NEW first \in 1..TextLen, NEW last \in 1..TextLen, RecvChunk(first, last)
        PROVE  Verdicts'
    BY Zenon, Constants, <1>5 DEF RecvChunk
  <1>6. CASE RecoverAgain
    BY Zenon, Constants, <1>6 DEF RecoverAgain
  <1>7. CASE RecoverBegin
    BY Zenon, Constants, <1>7 DEF RecoverBegin
  <1>8. CASE RecoverAbandon
    BY Zenon, Constants, <1>8 DEF RecoverAbandon
  <1>9. ASSUME NEW d \in Deployments, RecoverAcquire(d) PROVE Verdicts'
    BY Constants, <1>9 DEF RecoverAcquire
  <1>10. CASE RecoverRegister
    BY Zenon, Constants, <1>10 DEF RecoverRegister
  <1>11. CASE RecoverRejected
    BY Constants, <1>11 DEF RecoverRejected
  <1>12. CASE RecoverForget
    BY Zenon, Constants, <1>12 DEF RecoverForget
  <1>13. CASE RecoverInstall
    BY Constants, <1>13 DEF RecoverInstall
  <1>14. CASE Close
    BY Constants, <1>14 DEF Close
  <1>15. CASE CtxDone
    BY Zenon, Constants, <1>15 DEF CtxDone
  <1> QED BY Zenon, <1>1, <1>2, <1>3, <1>4, <1>5, <1>6, <1>7, <1>8, <1>9, <1>10, <1>11,
         <1>12, <1>13, <1>14, <1>15 DEF Next, Recv, Recovering

\* The post hooks run once, with the end the consumer sees.
LEMMA StepHooks ==
    ASSUME IInv, Next PROVE Hooks'
  <1> USE DEF IInv, TypeOK, Hooks, Receiving, CloseReader, Finalize, Finish, Return,
         ReturnEOF, RecoverOrGiveUp, fields, accounts
  <1>1. CASE RecvClosed
    BY Zenon, <1>1 DEF RecvClosed
  <1>2. CASE RecvDone
    BY Zenon, <1>2 DEF RecvDone
  <1>3. CASE RecvEnd
    BY Zenon, <1>3 DEF RecvEnd
  <1>4. CASE RecvBroken
    BY Zenon, <1>4 DEF RecvBroken
  <1>5. ASSUME NEW first \in 1..TextLen, NEW last \in 1..TextLen, RecvChunk(first, last)
        PROVE  Hooks'
    BY Zenon, <1>5 DEF RecvChunk
  <1>6. CASE RecoverAgain
    BY Zenon, <1>6 DEF RecoverAgain
  <1>7. CASE RecoverBegin
    BY Zenon, <1>7 DEF RecoverBegin
  <1>8. CASE RecoverAbandon
    BY Zenon, <1>8 DEF RecoverAbandon
  <1>9. ASSUME NEW d \in Deployments, RecoverAcquire(d) PROVE Hooks'
    BY Zenon, <1>9 DEF RecoverAcquire
  <1>10. CASE RecoverRegister
    BY Zenon, <1>10 DEF RecoverRegister
  <1>11. CASE RecoverRejected
    BY Zenon, <1>11 DEF RecoverRejected
  <1>12. CASE RecoverForget
    BY Zenon, <1>12 DEF RecoverForget
  <1>13. CASE RecoverInstall
    BY Zenon, <1>13 DEF RecoverInstall
  <1>14. CASE Close
    BY <1>14 DEF Close
  <1>15. CASE CtxDone
    BY Zenon, <1>15 DEF CtxDone
  <1> QED BY Zenon, <1>1, <1>2, <1>3, <1>4, <1>5, <1>6, <1>7, <1>8, <1>9, <1>10, <1>11,
         <1>12, <1>13, <1>14, <1>15 DEF Next, Recv, Recovering

-----------------------------------------------------------------------------

\* A new reader holds the request and the permit that it was made with.
LEMMA InitIInv == ASSUME Init PROVE IInv
  <1>1. TypeOK
    <2>1. deployment \in Deployments \cup {NoDeployment}
      BY Zenon DEF Init
    <2>2. active \in [Deployments -> Int]
      BY DEF Init
    <2>3. requests \in Nat /\ delivered \in Seq(Nat)
      BY DEF Init
    <2> QED BY Zenon, <2>1, <2>2, <2>3 DEF Init, TypeOK
  <1>2. RecoversOnlyIfEnabled
    BY Zenon DEF Init, RecoversOnlyIfEnabled
  <1>3. Position /\ DeliveredInOrder
    <2>1. Len(delivered) = 0 /\ delivered = [i \in 1..0 |-> i]
      BY DEF Init
    <2> QED BY <2>1 DEF Init, Position, Skip, DeliveredInOrder
  <1>4. Held
    BY Zenon DEF Init, Held, Owner
  <1>5. Verdicts
    BY DeploymentsAssumption DEF Init, Verdicts, Owed, Reading, Receiving
  <1>6. Hooks
    BY Zenon DEF Init, Hooks
  <1> QED BY Zenon, <1>1, <1>2, <1>3, <1>4, <1>5, <1>6 DEF IInv

\* Every step of the consumer, of Close and of the context keeps IInv.
LEMMA NextIInv == ASSUME IInv, [Next]_vars PROVE IInv'
  <1>1. CASE Next
    <2>1. set' = set
      BY Zenon, <1>1 DEF Next
    <2>2. PluginMayDrop' = PluginMayDrop /\ ConcurrentClose' = ConcurrentClose
      BY Zenon, <2>1 DEF PluginMayDrop, ConcurrentClose
    <2>3. TypeOK' /\ RecoversOnlyIfEnabled' /\ Verdicts' /\ Hooks'
      BY Zenon, <1>1, StepTypeOK, StepRecovers, StepVerdicts, StepHooks
    <2>4. ~PluginMayDrop => Position' /\ DeliveredInOrder'
      BY Zenon, <1>1, StepPosition, StepDelivered DEF DeliveredInOrder
    <2>5. ~ConcurrentClose => Held'
      BY Zenon, <1>1, StepHeld
    <2> QED BY Zenon, <2>2, <2>3, <2>4, <2>5 DEF IInv
  <1>2. CASE UNCHANGED vars
    <2> USE <1>2 DEF IInv, vars, fields, accounts
    <2>1. TypeOK'
      BY DEF TypeOK
    <2>2. set' = set /\ Reading' = Reading /\ Skip' = Skip /\ Owner' = Owner
      BY Zenon DEF Reading, Receiving, Skip, RecoveryMode, Owner
    <2>3. RecoversOnlyIfEnabled' /\ Hooks'
      BY Zenon DEF RecoversOnlyIfEnabled, RecoveryMode, FromPlugin, Hooks
    <2>4. ~PluginMayDrop' => Position' /\ DeliveredInOrder'
      BY Zenon, <2>2 DEF PluginMayDrop, Position, RecoveryMode, DeliveredInOrder
    <2>5. ~ConcurrentClose' => Held'
      BY Zenon, <2>2 DEF ConcurrentClose, Held
    <2>6. Verdicts'
      BY Zenon, <2>2 DEF Verdicts, Owed, FromPlugin
    <2> QED BY Zenon, <2>1, <2>3, <2>4, <2>5, <2>6
  <1> QED BY Zenon, <1>1, <1>2

\* The inductive invariant holds throughout.
LEMMA StreamInvariant == Spec => []IInv
  BY InitIInv, NextIInv, PTL DEF Spec

\* However often the connection breaks and whatever the recovery mode, Recv
\* hands out the text from its start, without a gap or a repetition.
THEOREM StreamDeliversInOrder == Spec => []DeliveredInOrder
  <1>1. IInv => DeliveredInOrder
    BY Zenon DEF IInv, DeliveredInOrder
  <1> QED BY <1>1, StreamInvariant, PTL

\* A stream that is over holds no response body, no active request and no
\* permit, however many recoveries it went through.
THEOREM StreamReleasesEverything == Spec => []EverythingReleased
  <1>1. ASSUME IInv PROVE EverythingReleased
    <2> SUFFICES ASSUME ~ConcurrentClose, pc = "idle", closed PROVE HoldsNothing
      BY Zenon DEF EverythingReleased
    <2>1. Held
      BY Zenon, <1>1 DEF IInv
    <2>2. Owner = NoDeployment
      BY Zenon, <2>1 DEF Held, Owner
    <2> QED BY Zenon, <2>1, <2>2, DeploymentsAssumption DEF Held, HoldsNothing
  <1> QED BY <1>1, StreamInvariant, PTL

\* The router hears one verdict on each upstream request of a stream, and the
\* plugins the end that the consumer saw.
THEOREM StreamReportsItsEnd == Spec => []VerdictsMatchEnd
  <1>1. ASSUME IInv PROVE VerdictsMatchEnd
    <2>1. OneVerdictPerRequest
      <3>1. Verdicts /\ requests \in Nat /\ verdicts \in Nat /\ closed \in BOOLEAN
        BY Zenon, <1>1 DEF IInv, TypeOK
      <3>2. verdicts <= requests
        BY <3>1 DEF Verdicts, Owed
      <3>3. ASSUME pc = "idle", result \in {"eof", "error"}, closes = 0
            PROVE  verdicts = requests
        <4>1. Owed = 0
          BY Zenon, <3>1, <3>3 DEF Verdicts, Owed, Reading
        <4> QED BY <3>1, <3>3, <4>1 DEF Verdicts
      <3> QED BY Zenon, <3>2, <3>3 DEF OneVerdictPerRequest
    <2>2. HooksMatchEnd
      BY Zenon, <1>1 DEF IInv, TypeOK, Hooks, HooksMatchEnd
    <2> QED BY Zenon, <2>1, <2>2 DEF VerdictsMatchEnd
  <1> QED BY <1>1, StreamInvariant, PTL

=============================================================================
