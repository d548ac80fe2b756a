------------------------------- MODULE Prober -------------------------------
(***************************************************************************)
(* internal/healthcheck/prober.go: the health checker probes every         *)
(* deployment in turn, puts one that fails into cooldown and ends a        *)
(* cooldown of its own when a probe succeeds.  Requests that fail (module  *)
(* Router) and the management endpoint write the same cooldowns, and a     *)
(* reload replaces the client while the prober holds the old one (module   *)
(* Reload).                                                                *)
(*                                                                         *)
(* Times are in half seconds.  The clock reads between two whole seconds,  *)
(* so cooldowns end at odd times, except those of the prober, which        *)
(* truncates them to whole seconds.  0 is the zero time.                   *)
(***************************************************************************)
EXTENDS Integers, FiniteSets

CONSTANTS
    Deployments,
    Period,         \* CooldownPeriod of the prober and of the router, in seconds
    AdminPeriods,   \* cooldown_seconds of the endpoint, 0 to clear
    MaxClock,       \* bound on the seconds that pass
    MaxClients,     \* bound on the clients, a reload making a new one
    Nil             \* no deployment is being probed

VARIABLES
    clock,
    current,        \* the current client; earlier ones have lower numbers
    cooldown,       \* CooldownUntil of each deployment, in each client
    setter,         \* who put that cooldown: "probe", "others" or "none"
    recorded,       \* p.cooldownByDeployment, 0 if absent
    pc, held, todo, probing, until, \* locals of runOnce; held is its client
    touched         \* another has written the cooldown since the prober read it

locals == <<pc, held, todo, probing, until>>
vars == <<clock, current, cooldown, setter, recorded, locals, touched>>

Clients == 1..MaxClients
Now == 2 * clock + 1
Expiry(seconds) == Now + 2 * seconds
Truncated(time) == time - (time % 2)

Init ==
    /\ clock = 0
    /\ cooldown = [c \in Clients |-> [d \in Deployments |-> 0]]
    /\ setter = [c \in Clients |-> [d \in Deployments |-> "none"]]
    /\ recorded = [d \in Deployments |-> 0]
    /\ pc = "idle" /\ held = 1 /\ todo = {} /\ probing = Nil /\ until = 0
    /\ touched = FALSE

\* The cooldown of d in client c is written.
Write(c, d, time, who) ==
    /\ cooldown' = [cooldown EXCEPT ![c][d] = time]
    /\ setter' = [setter EXCEPT ![c][d] = IF time = 0 THEN "none" ELSE who]

\* ... by someone other than the prober.
WriteByOthers(c, d, time) ==
    /\ Write(c, d, time, "others")
    /\ touched' = (touched \/ (probing = d /\ held = c))
    /\ UNCHANGED <<clock, current, recorded, locals>>

\* ReportFailure opens the circuit (see module Router), for a request that may
\* still hold an earlier client.
RouterCooldown(c, d) == c <= current /\ WriteByOthers(c, d, Expiry(Period))

\* UpdateDeploymentCooldown
UpdateCooldown(d, seconds) ==
    WriteByOthers(current, d, IF seconds = 0 THEN 0 ELSE Expiry(seconds))

Tick ==
    /\ clock < MaxClock
    /\ clock' = clock + 1
    /\ UNCHANGED <<current, cooldown, setter, recorded, locals, touched>>

-----------------------------------------------------------------------------
\* runOnce

\* ListDeployments of the client c that was acquired
RunOnce(c) ==
    /\ pc = "idle"
    /\ pc' = "next" /\ held' = c /\ todo' = Deployments
    /\ UNCHANGED <<clock, current, cooldown, setter, recorded, probing, until, touched>>

\* The provider of d is gone.
SkipDeployment(d) ==
    /\ pc = "next" /\ d \in todo
    /\ todo' = todo \ {d}
    /\ UNCHANGED <<clock, current, cooldown, setter, recorded, pc, held, probing, until,
                   touched>>

\* All are done, or the context is.
EndRun ==
    /\ pc = "next"
    /\ pc' = "idle" /\ todo' = {}
    /\ UNCHANGED <<clock, current, cooldown, setter, recorded, held, probing, until,
                   touched>>

\* The next deployment has been probed.
Probed(d) ==
    /\ pc = "next" /\ d \in todo
    /\ todo' = todo \ {d}
    /\ touched' = FALSE
    /\ UNCHANGED <<clock, current, cooldown, setter, held>>

\* handleFailure, up to SetCooldown: a later end of the cooldown is kept.
ProbeFails(d) ==
    LET new == Truncated(Expiry(Period))
    IN  /\ Probed(d)
        /\ IF cooldown[held][d] > new
           THEN UNCHANGED <<pc, probing, until>>
           ELSE pc' = "set" /\ probing' = d /\ until' = new
        /\ UNCHANGED recorded

SetCooldown ==
    /\ pc = "set"
    /\ Write(held, probing, until, "probe")
    /\ pc' = "record"
    /\ UNCHANGED <<clock, current, recorded, held, todo, probing, until, touched>>

\* SetCooldown fails (the stats store is unreachable): nothing is recorded, and
\* what was recorded is kept.
SetCooldownFails ==
    /\ pc \in {"set", "clear"}
    /\ pc' = "next" /\ probing' = Nil
    /\ UNCHANGED <<clock, current, cooldown, setter, recorded, held, todo, until,
                   touched>>

RecordCooldown ==
    /\ pc = "record"
    /\ recorded' = [recorded EXCEPT ![probing] = until]
    /\ pc' = "next" /\ probing' = Nil
    /\ UNCHANGED <<clock, current, cooldown, setter, held, todo, until, touched>>

\* Mutant: any cooldown in force is ended, whoever began it.
ProbeSucceeds_EndsAny(d) ==
    /\ Probed(d)
    /\ IF Now >= cooldown[held][d]
       THEN recorded' = [recorded EXCEPT ![d] = 0] /\ UNCHANGED <<pc, probing>>
       ELSE pc' = "clear" /\ probing' = d /\ UNCHANGED recorded
    /\ UNCHANGED until

\* handleSuccess, up to SetCooldown: only the cooldown it recorded is ended.
ProbeSucceeds(d) ==
    /\ Probed(d)
    /\ IF Now >= cooldown[held][d] \/ recorded[d] # cooldown[held][d]
       THEN recorded' = [recorded EXCEPT ![d] = 0] /\ UNCHANGED <<pc, probing>>
       ELSE pc' = "clear" /\ probing' = d /\ UNCHANGED recorded
    /\ UNCHANGED until

\* SetCooldown to the zero time, and clearCooldown
ClearCooldown ==
    /\ pc = "clear"
    /\ Write(held, probing, 0, "probe")
    /\ recorded' = [recorded EXCEPT ![probing] = 0]
    /\ pc' = "next" /\ probing' = Nil
    /\ UNCHANGED <<clock, current, held, todo, until, touched>>

-----------------------------------------------------------------------------
\* The prober takes a step that writes a cooldown.
Sets == pc = "set" /\ pc' = "record"
Ends == pc = "clear" /\ cooldown' # cooldown /\ pc' = "next"

\* The prober shortens no cooldown, unless another writer came between its
\* reading and its writing.
ProbeShortensNothing ==
    [][Sets /\ ~touched => cooldown'[held][probing] >= cooldown[held][probing]]_vars

\* The prober ends no cooldown that another began, whatever it recorded, however
\* long ago and of whichever client, unless another writer came in between.
ProbeEndsItsOwn == [][Ends /\ ~touched => setter[held][probing] = "probe"]_vars
=============================================================================
