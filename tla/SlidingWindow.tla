--------------------------- MODULE SlidingWindow ---------------------------
(***************************************************************************)
(* What the shared routing statistics promise, with no word of Redis keys  *)
(* or their expiry: for every deployment the outcomes of the last Window   *)
(* buckets, the requests of this minute, and a cooldown that starts when   *)
(* those outcomes call for it and lasts for its time.                      *)
(***************************************************************************)
EXTENDS Integers, FiniteSetsExt

VARIABLES
  rules,      \* the thresholds and periods in force
  clock,
  tally,      \* [ok, bad] of every deployment and bucket in the window
  cooling,    \* until when a deployment is cooling down, 0 if it is not
  rpm         \* its successful requests of the current minute

avars == <<rules, clock, tally, cooling, rpm>>

Bucket(t) == t \div rules.BucketSize
InWindow(b, t) == b \in Bucket(t) - rules.Window + 1 .. Bucket(t)
Empty == [ok |-> 0, bad |-> 0]

Init ==
  /\ clock = 0
  /\ tally = [k \in rules.StatKeys |-> [b \in 0 .. Bucket(rules.MaxNow) |-> Empty]]
  /\ cooling = [k \in rules.StatKeys |-> 0]
  /\ rpm = [k \in rules.StatKeys |-> 0]

Succeed(k) ==
  /\ tally' = [tally EXCEPT ![k][Bucket(clock)].ok = @ + 1]
  /\ rpm' = [rpm EXCEPT ![k] = @ + 1]
  /\ UNCHANGED <<rules, clock, cooling>>

\* The outcomes in the window call for a cooldown.
Poor(k) ==
  LET buckets == DOMAIN tally[k]
      bad == MapThenSumSet(LAMBDA b : tally'[k][b].bad, buckets)
      all == bad + MapThenSumSet(LAMBDA b : tally'[k][b].ok, buckets)
  IN  IF rules.Single THEN all >= rules.SingleMin /\ bad = all
      ELSE all >= rules.MinRequests /\ 100 * bad > rules.Percent * all

Fail(k, status) ==
  /\ tally' = [tally EXCEPT ![k][Bucket(clock)].bad = @ + 1]
  /\ cooling' = [cooling EXCEPT ![k] =
       IF \/ status \in {401, 404, 408}
          \/ status = 429 /\ rules.Immediate429 /\ ~ rules.Single
          \/ Poor(k)
       THEN clock + rules.Cooldown ELSE @]
  /\ UNCHANGED <<rules, clock, rpm>>

\* An operator starts or ends a cooldown.
Decide(k) ==
  /\ \E t \in {0} \cup clock + 1 .. clock + rules.Cooldown :
       cooling' = [cooling EXCEPT ![k] = t]
  /\ UNCHANGED <<rules, clock, tally, rpm>>

\* The statistics of a deployment are deleted.
Forget(k) ==
  /\ tally' = [tally EXCEPT ![k] = [b \in DOMAIN @ |-> Empty]]
  /\ cooling' = [cooling EXCEPT ![k] = 0]
  /\ rpm' = [rpm EXCEPT ![k] = 0]
  /\ UNCHANGED <<rules, clock>>

\* Time passes: buckets leave the window, cooldowns end, a minute begins.
Pass ==
  /\ clock' = clock + 1
  /\ tally' = [k \in DOMAIN tally |-> [b \in DOMAIN tally[k] |->
       IF InWindow(b, clock') THEN tally[k][b] ELSE Empty]]
  /\ cooling' = [k \in DOMAIN cooling |-> IF cooling[k] <= clock' THEN 0 ELSE cooling[k]]
  /\ rpm' = [k \in DOMAIN rpm |->
       IF clock' % rules.Minute = 0 THEN 0 ELSE rpm[k]]
  /\ UNCHANGED rules

Next ==
  \/ Pass
  \/ \E k \in rules.StatKeys :
       \/ Succeed(k) \/ Decide(k) \/ Forget(k)
       \/ \E status \in rules.Statuses : Fail(k, status)

Spec == Init /\ [][Next]_avars
=============================================================================
