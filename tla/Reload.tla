------------------------------- MODULE Reload -------------------------------
(***************************************************************************)
(* Reloading as a whole: the goroutines that reload the configuration      *)
(* (module ConfigReload) replace the client (ClientSwap) while handlers    *)
(* and the health checker (Prober) use it.  The step that swaps is one     *)
(* step of both, a reload ends when the swap has seen to the old client,   *)
(* and the health checker is a user of the client for as long as a round   *)
(* of probes lasts.  ClientSwap has one Swapper; here it is whichever      *)
(* goroutine builds a client.                                              *)
(***************************************************************************)
EXTENDS ClientSwap

CONSTANTS
    Goroutines, MaxVersion, Bad, Unbuildable,           \* of ConfigReload
    Deployments, Period, AdminPeriods, MaxClock, Nil,   \* of Prober
    Checker,        \* the user that is the health checker
    Replacements    \* bound on the clients where the file is not edited

ASSUME CheckerAssumption == Checker \in Users
ASSUME TimesAssumption == Period \in Nat /\ AdminPeriods \subseteq Nat

VARIABLES
    set,            \* one of Settings, which does not change
    file, watched, event, timer, config, checksum, client, governance, listening, inProgress,
    reloading, newCfg, hears, overlapped,
    clock, cooldown, setter, recorded, probe, held, todo, probing, until, touched

R == INSTANCE ConfigReload WITH pc <- reloading
P == INSTANCE Prober WITH pc <- probe

\* Who uses the client, who reloads, and bounds on the edits and the clients.  Edits are watched,
\* handlers use the client among swaps until shutdown, and so does the health checker.
One == {CHOOSE g \in Goroutines : TRUE}
Settings == {
    [Users |-> {}, Reloaders |-> Goroutines, Edits |-> MaxVersion, Clients |-> MaxClients, Stops |-> FALSE],
    [Users |-> Users \ {Checker}, Reloaders |-> One, Edits |-> 0, Clients |-> Replacements, Stops |-> TRUE],
    [Users |-> {Checker}, Reloaders |-> One, Edits |-> 0, Clients |-> 2, Stops |-> FALSE]}

reloadVars == <<file, watched, event, timer, config, checksum, client, governance, listening, inProgress,
                reloading, newCfg, hears, overlapped>>
probeVars == <<clock, cooldown, setter, recorded, probe, held, todo, probing, until, touched>>
all == <<set, vars, reloadVars, probeVars>>

ReloadInit == set \in Settings /\ Init /\ R!Init /\ P!Init

-----------------------------------------------------------------------------
FileChanges == /\ file < set.Edits
               /\ R!Edit \/ R!Replace
               /\ UNCHANGED <<set, vars, probeVars>>

\* Room for a client from every reload that is under way or to come, and for one more
Room == LET waiting == Cardinality({g \in Goroutines : reloading[g] # "idle"})
                       + Cardinality({b \in {"event", "timer"} : IF b = "event" THEN event ELSE timer})
        IN  current + waiting + set.Edits - file < set.Clients

ReloadEndpoint(g) == g \in set.Reloaders /\ Room /\ R!ReloadEndpoint(g) /\ UNCHANGED <<set, vars, probeVars>>

Watch == R!WatchEvent /\ UNCHANGED <<set, vars, probeVars>>
Listen == set.Edits > 0 /\ R!Listen /\ UNCHANGED <<set, vars, probeVars>>
TimerFires == /\ \E g \in Goroutines : R!TimerFires(g)
              /\ UNCHANGED <<set, vars, probeVars>>

\* What a goroutine does in Reload, up to the swap and after it
ReloadStep(g) ==
    /\ \/ R!Load(g) \/ R!StoreConfig(g) \/ R!StoreChecksum(g) \/ R!ClientReload(g) \/ R!Build(g)
       \/ pc[Swapper] = "idle" /\ R!Leave(g)
       \/ R!UpdateGovernance(g)
    /\ UNCHANGED <<set, vars, probeVars>>

\* swapper.Swap begins with the exchange of the pointer.
SwapIn(g) == R!Swap(g) /\ SwapCurrent /\ UNCHANGED <<set, probeVars>>

ReloadGoesOn(g) == ReloadStep(g) \/ SwapIn(g)

-----------------------------------------------------------------------------
Uses == /\ \E u \in Users : u \in set.Users /\ AcquireLoad(u)
        /\ UNCHANGED <<set, reloadVars, probeVars>>
Stops == set.Stops /\ CloseCurrent /\ UNCHANGED <<set, reloadVars, probeVars>>

\* Every goroutine goes on with the client it holds.  A round of probes begins when the health
\* checker has acquired the client, and ends with its release.
UserGoesOn(a) ==
    /\ \/ a # Checker /\ Continue(a) /\ UNCHANGED probeVars
       \/ a = Checker /\ AcquireAdd(a) /\ P!RunOnce(ref[a])
       \/ a = Checker /\ ReleaseAdd(a) /\ P!EndRun
       \/ a = Checker /\ (ReleaseTest(a) \/ CloseOnce(a)) /\ UNCHANGED probeVars
    /\ UNCHANGED <<set, reloadVars>>

Probes ==
    /\ pc[Checker] = "using"
    /\ \/ P!SetCooldown \/ P!SetCooldownFails \/ P!RecordCooldown \/ P!ClearCooldown
       \/ \E d \in Deployments : P!SkipDeployment(d) \/ P!ProbeFails(d) \/ P!ProbeSucceeds(d)
    /\ UNCHANGED <<set, vars, reloadVars>>

\* Others write the same cooldowns.
Others ==
    /\ Checker \in set.Users
    /\ \/ P!Tick
       \/ \E d \in Deployments : \/ \E c \in Clients : P!RouterCooldown(c, d)
                                 \/ \E seconds \in AdminPeriods : P!UpdateCooldown(d, seconds)
    /\ UNCHANGED <<set, vars, reloadVars>>

ReloadNext ==
    \/ FileChanges \/ Watch \/ Listen \/ TimerFires \/ Uses \/ Stops \/ Probes \/ Others
    \/ \E g \in Goroutines : ReloadEndpoint(g) \/ ReloadGoesOn(g)
    \/ \E a \in Actors : UserGoesOn(a)

\* The watch loop runs, the timer fires, Reload goes on once called, and every operation on the
\* client that has begun is completed.
ReloadSpec ==
    /\ ReloadInit /\ [][ReloadNext]_all
    /\ WF_all(Watch) /\ WF_all(TimerFires)
    /\ \A g \in Goroutines : WF_all(ReloadGoesOn(g))
    /\ WF_all(UserGoesOn(Swapper))

-----------------------------------------------------------------------------
\* Reloads that do not overlap leave configuration, checksum and client agreeing; and, overlapping
\* or not, clientReloader.inProgress lets one goroutine at a time build and swap, so that a swap
\* never begins while another one is still seeing to the client it replaced.
ReloadsAgree ==
    /\ R!SerialReloadsAgree
    /\ R!OneBuildAtATime
    /\ pc[Swapper] # "idle" => \E g \in Goroutines : reloading[g] = "leave"

\* While the file is watched and reloads do not overlap, the last version of the file is loaded in
\* the end and, if a client can be built from it, served, whoever still holds the clients before.
LastEditServed == R!LastEditServed

\* The health checker neither shortens a cooldown (handleFailure) nor ends one that another began
\* (handleSuccess), on the current client or on a replaced one that it still holds, unless another
\* writer came between its read and its write.
ProbesRespectOthers == P!ProbeShortensNothing /\ P!ProbeEndsItsOwn
=============================================================================
