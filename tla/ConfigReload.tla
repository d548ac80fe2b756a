---------------------------- MODULE ConfigReload ----------------------------
(***************************************************************************)
(* Hot reload: config.Manager watches the file, debounces its events and   *)
(* reloads; the management endpoint reloads as well; cmd/server rebuilds   *)
(* the client (clientReloader) and updates the governance engine.  Module  *)
(* Reload puts the steps together with those of the client's users.        *)
(*                                                                         *)
(* A configuration is the version of the file it was read from.            *)
(***************************************************************************)
EXTENDS Integers

CONSTANTS
    Goroutines,     \* those that run Reload: debounce timers and endpoint calls
    MaxVersion,     \* bound on the edits of the file
    Bad,            \* versions that LoadFromFile rejects
    Unbuildable     \* versions from which llmux.New fails

Versions == 0..MaxVersion

VARIABLES
    file,               \* the version on disk
    watched,            \* the watcher still watches the file at m.path
    event, timer,       \* an event not yet read; the debounce timer runs
    config, checksum,   \* m.config and m.checksum
    client,             \* the version that the current client was built from
    governance,         \* the version of the governance engine's config
    listening,          \* the governance listener is registered
    inProgress,         \* clientReloader.inProgress
    pc, newCfg, hears,  \* locals of Reload: hears is whether its copy of
                        \* m.onChange holds the governance listener
    overlapped          \* two calls of Reload have overlapped

files == <<file, watched, event, timer>>
state == <<config, checksum, client, governance, inProgress>>
locals == <<pc, newCfg, hears>>
vars == <<files, state, listening, locals, overlapped>>

Init ==
    /\ file = 0 /\ watched = TRUE
    /\ event = FALSE /\ timer = FALSE
    /\ config = 0 /\ checksum = 0 /\ client = 0 /\ governance = 0
    /\ listening = FALSE /\ inProgress = FALSE
    /\ pc = [g \in Goroutines |-> "idle"]
    /\ newCfg = [g \in Goroutines |-> 0]
    /\ hears = [g \in Goroutines |-> FALSE]
    /\ overlapped = FALSE

Goto(g, where) == pc' = [pc EXCEPT ![g] = where]
Idle == \A g \in Goroutines : pc[g] = "idle"

-----------------------------------------------------------------------------
\* The file is written in place.
Edit ==
    /\ file < MaxVersion
    /\ file' = file + 1
    /\ event' = watched
    /\ UNCHANGED <<watched, timer, state, listening, locals, overlapped>>

\* The file is replaced by another: the watch was on the old one, and ends with
\* an event that is neither a Write nor a Create.
Replace ==
    /\ file < MaxVersion
    /\ file' = file + 1
    /\ watched' = FALSE
    /\ UNCHANGED <<event, timer, state, listening, locals, overlapped>>

\* watchLoop reads an event and starts the timer anew.
WatchEvent ==
    /\ event
    /\ event' = FALSE
    /\ timer' = TRUE
    /\ UNCHANGED <<file, watched, state, listening, locals, overlapped>>

Begin(g) ==
    /\ pc[g] = "idle"
    /\ Goto(g, "load")
    /\ overlapped' = (overlapped \/ ~Idle)
    /\ UNCHANGED <<file, watched, event, state, listening, newCfg, hears>>

TimerFires(g) == timer /\ timer' = FALSE /\ Begin(g)

\* ManagementHandler.ReloadConfig; one whose expected checksum is not the
\* current one is refused and changes nothing.
ReloadEndpoint(g) == Begin(g) /\ UNCHANGED timer

-----------------------------------------------------------------------------
\* Reload

\* LoadFromFile
Load(g) ==
    /\ pc[g] = "load"
    /\ newCfg' = [newCfg EXCEPT ![g] = file]
    /\ Goto(g, IF file \in Bad THEN "idle" ELSE "store")
    /\ UNCHANGED <<files, state, listening, hears, overlapped>>

\* Mutant: the old configuration is kept.
StoreConfig_Keeps(g) ==
    /\ pc[g] = "store"
    /\ Goto(g, "checksum")
    /\ UNCHANGED <<files, state, listening, newCfg, hears, overlapped>>

\* storeConfig: m.config.Store
StoreConfig(g) ==
    /\ pc[g] = "store"
    /\ config' = newCfg[g]
    /\ Goto(g, "checksum")
    /\ UNCHANGED <<files, checksum, client, governance, inProgress, listening,
                   newCfg, hears, overlapped>>

\* storeConfig: m.checksum.Store, m.loadedAt.Store, m.reloadCount.Add
StoreChecksum(g) ==
    /\ pc[g] = "checksum"
    /\ checksum' = newCfg[g]
    /\ Goto(g, "notify")
    /\ UNCHANGED <<files, config, client, governance, inProgress, listening,
                   newCfg, hears, overlapped>>

\* Mutant: a reload in progress does not keep another from building.
ClientReload_Concurrent(g) ==
    /\ pc[g] = "notify"
    /\ hears' = [hears EXCEPT ![g] = listening]
    /\ inProgress' = TRUE
    /\ Goto(g, "build")
    /\ UNCHANGED <<files, config, checksum, client, governance, listening, newCfg,
                   overlapped>>

\* The range over m.onChange begins with clientReloader.Reload, which returns if
\* another one is in progress.
ClientReload(g) ==
    /\ pc[g] = "notify"
    /\ hears' = [hears EXCEPT ![g] = listening]
    /\ inProgress' = TRUE
    /\ Goto(g, IF inProgress THEN "govern" ELSE "build")
    /\ UNCHANGED <<files, config, checksum, client, governance, listening, newCfg,
                   overlapped>>

\* r.build
Build(g) ==
    /\ pc[g] = "build"
    /\ Goto(g, IF newCfg[g] \in Unbuildable THEN "leave" ELSE "swap")
    /\ UNCHANGED <<files, state, listening, newCfg, hears, overlapped>>

\* r.swapper.Swap: see module ClientSwap.
Swap(g) ==
    /\ pc[g] = "swap"
    /\ client' = newCfg[g]
    /\ Goto(g, "leave")
    /\ UNCHANGED <<files, config, checksum, governance, inProgress, listening,
                   newCfg, hears, overlapped>>

\* The deferred inProgress.Store(false)
Leave(g) ==
    /\ pc[g] = "leave"
    /\ inProgress' = FALSE
    /\ Goto(g, "govern")
    /\ UNCHANGED <<files, config, checksum, client, governance, listening, newCfg,
                   hears, overlapped>>

\* The governance listener, if it was registered when the range began
UpdateGovernance(g) ==
    /\ pc[g] = "govern"
    /\ governance' = IF hears[g] THEN newCfg[g] ELSE governance
    /\ Goto(g, "idle")
    /\ UNCHANGED <<files, config, checksum, client, inProgress, listening, newCfg,
                   hears, overlapped>>

\* main registers the governance listener after the watcher has started.
Listen ==
    /\ ~listening
    /\ listening' = TRUE
    /\ UNCHANGED <<files, state, locals, overlapped>>

-----------------------------------------------------------------------------
\* As long as reloads do not overlap, the active configuration, its checksum and
\* the client agree after each, except for a configuration no client can be
\* built from.
SerialReloadsAgree ==
    ~overlapped /\ Idle =>
        /\ checksum = config
        /\ config \notin Unbuildable => client = config

\* At most one client is built at a time, and inProgress says so: no failed
\* build blocks the ones to come.
OneBuildAtATime ==
    LET building == {g \in Goroutines : pc[g] \in {"build", "swap", "leave"}}
    IN  /\ \A g, h \in building : g = h
        /\ inProgress <=> building # {}

\* While the file is watched and reloads do not overlap, the last version of the
\* file is loaded in the end and, if a client can be built from it, served:
\* neither a rejected file nor a failed build stops the reloads that follow.
LastEditServed ==
    [](watched /\ ~overlapped) =>
        \A v \in Versions \ Bad :
            (file = v) ~> \/ config = v /\ (client = v \/ v \in Unbuildable)
                          \/ file # v
=============================================================================
