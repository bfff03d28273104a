------------------------------- MODULE Reload -------------------------------
(***************************************************************************)
(* watch_config_signal of torana-core/src/reload.rs, running beside the    *)
(* calls of ProxyEngine and the health probers of health.rs.               *)
(*                                                                         *)
(* A reload builds the new generation whole, then swaps it in one shared   *)
(* structure at a time, each under its own lock: load balancers, plugins,  *)
(* configuration, and last the probers' handles.  Calls run between any    *)
(* two of these steps.                                                     *)
(***************************************************************************)
EXTENDS ProxyEngine

CONSTANTS BadFile,     \* a file that does not parse or does not validate
          MaxSignals   \* bound: SIGHUPs the operator sends

ASSUME ReloadAssumption ==
    /\ BadFile \notin ConfigId
    /\ MaxSignals \in Nat /\ MaxLoads > MaxSignals

VARIABLES
    config_file,   \* what is at config_path
    edited,        \* history: edited since the last signal
    sighup,        \* a SIGHUP is pending; a second one coalesces with it
    signals,       \* SIGHUPs sent
    watcher,       \* where watch_config_signal is
    probers,       \* the running prober tasks, as <<generation, address>>
    ending         \* aborted prober tasks that may still finish a step

watchVars == <<config_file, edited, sighup, signals, watcher, probers, ending>>
vars == <<engineVars, watchVars>>

calls == <<pc, routing, scan, attempt, clock, status, outside>>

ProbersOf(g, c) == {g} \X ProbedBy(c)

ReloadInit ==
    /\ Init
    /\ config_file = StartConfig
    /\ edited = FALSE
    /\ sighup = FALSE
    /\ signals = 0
    /\ watcher = "wait"
    /\ probers = ProbersOf(1, StartConfig)
    /\ ending = {}

-----------------------------------------------------------------------------
(* The operator *)

EditFile(f) ==
    /\ config_file # f
    /\ config_file' = f
    /\ edited' = TRUE
    /\ UNCHANGED <<engineVars, sighup, signals, watcher, probers, ending>>

SendSignal ==
    /\ signals < MaxSignals
    /\ signals' = signals + 1
    /\ sighup' = TRUE
    /\ edited' = FALSE
    /\ UNCHANGED <<engineVars, config_file, watcher, probers, ending>>

-----------------------------------------------------------------------------
(* The watcher *)

\* sighup.recv() returns.
ReceiveSignal ==
    /\ watcher = "wait"
    /\ sighup
    /\ sighup' = FALSE
    /\ watcher' = "load"
    /\ UNCHANGED <<engineVars, config_file, edited, signals, probers, ending>>

\* Mutant: plugins that do not load do not stop the reload.
LoadableUnbuilt(f) == f # BadFile

Loadable(f) == f # BadFile /\ PluginsLoad(f)

\* Mutant: the watcher returns instead of waiting for the next signal.
RejectFileEnds ==
    /\ watcher = "load"
    /\ ~Loadable(config_file)
    /\ watcher' = "ended"
    /\ UNCHANGED <<engineVars, config_file, edited, sighup, signals, probers, ending>>

\* Any failure to load, validate or build keeps what is running.
RejectFile ==
    /\ watcher = "load"
    /\ ~Loadable(config_file)
    /\ watcher' = "wait"
    /\ UNCHANGED <<engineVars, config_file, edited, sighup, signals, probers, ending>>

\* Balancers and plugins are built and the new probers started.
LoadFile ==
    /\ watcher = "load"
    /\ Loadable(config_file)
    /\ loaded' = Append(loaded, config_file)
    /\ probers' = probers \cup ProbersOf(Len(loaded) + 1, config_file)
    /\ watcher' = "swap_lb"
    /\ UNCHANGED <<config_handle, lb_cache, plugin_cache, counter, registry, metrics, calls,
                   config_file, edited, sighup, signals, ending>>

swapFrame == <<loaded, counter, registry, metrics, calls, config_file, edited, sighup,
               signals, probers, ending>>

\* The write lock waits for calls that hold the read guard at an await.
GuardFree == \A r \in Request : pc[r] # "lookup"

\* Mutant: routes are swapped in before their balancers.
SwapConfigFirst ==
    /\ watcher = "swap_lb"
    /\ GuardFree
    /\ config_handle' = Len(loaded)
    /\ watcher' = "swap_plugins"
    /\ UNCHANGED <<swapFrame, lb_cache, plugin_cache>>

SwapLb ==
    /\ watcher = "swap_lb"
    /\ lb_cache' = Len(loaded)
    /\ watcher' = "swap_plugins"
    /\ UNCHANGED <<swapFrame, config_handle, plugin_cache>>

\* Mutant: the cache is cleared and not filled again.
SwapPluginsCleared ==
    /\ watcher = "swap_plugins"
    /\ plugin_cache' = 0
    /\ watcher' = "swap_config"
    /\ UNCHANGED <<swapFrame, config_handle, lb_cache>>

SwapPlugins ==
    /\ watcher = "swap_plugins"
    /\ plugin_cache' = Len(loaded)
    /\ watcher' = "swap_config"
    /\ UNCHANGED <<swapFrame, config_handle, lb_cache>>

SwapConfig ==
    /\ watcher = "swap_config"
    /\ GuardFree
    /\ config_handle' = Len(loaded)
    /\ watcher' = "swap_handles"
    /\ UNCHANGED <<swapFrame, lb_cache, plugin_cache>>

\* Mutant: no prober is ever aborted.
SupersededNone == {}

\* Abort the probers of the generations before.  A task takes an abort at
\* its next await, so one that is between its probe and there still ends it.
Superseded == {p \in probers : p[1] # Len(loaded)}

\* Mutant: signals that came during the reload are discarded.
SwapHandlesDraining ==
    /\ watcher = "swap_handles"
    /\ probers' = probers \ Superseded
    /\ ending' = ending \cup Superseded
    /\ sighup' = FALSE
    /\ watcher' = "wait"
    /\ UNCHANGED <<engineVars, config_file, edited, signals>>

SwapHandles ==
    /\ watcher = "swap_handles"
    /\ probers' = probers \ Superseded
    /\ ending' = ending \cup Superseded
    /\ watcher' = "wait"
    /\ UNCHANGED <<engineVars, config_file, edited, sighup, signals>>

Watch ==
    \/ ReceiveSignal \/ RejectFile \/ LoadFile
    \/ SwapLb \/ SwapPlugins \/ SwapConfig \/ SwapHandles

-----------------------------------------------------------------------------
(* The probers *)

\* probe_once and HealthRegistry::set: any result, at any time.
ProbeResult(p, healthy) ==
    /\ p \in probers
    /\ SetHealth(p[2], healthy)
    /\ UNCHANGED watchVars

\* An aborted task ends, with or without finishing the step it was in.
LastResult(p, healthy) ==
    /\ p \in ending
    /\ SetHealth(p[2], healthy)
    /\ ending' = ending \ {p}
    /\ UNCHANGED <<config_file, edited, sighup, signals, watcher, probers>>

ProberEnds(p) ==
    /\ p \in ending
    /\ ending' = ending \ {p}
    /\ UNCHANGED <<engineVars, config_file, edited, sighup, signals, watcher, probers>>

Probers ==
    \/ \E p \in probers, healthy \in BOOLEAN : ProbeResult(p, healthy)
    \/ \E p \in ending, healthy \in BOOLEAN : LastResult(p, healthy)
    \/ \E p \in ending : ProberEnds(p)

-----------------------------------------------------------------------------
(* The specification *)

Operator == SendSignal \/ \E f \in ConfigId \cup {BadFile} : EditFile(f)

ReloadNext ==
    \/ (\E r \in Request : CallNext(r)) /\ UNCHANGED watchVars
    \/ Operator \/ Watch \/ Probers

\* Calls are fair as in ProxyEngine; the watcher's task runs when it can,
\* and tokio's write-preferring lock lets it in once its readers are gone.
ReloadFairness ==
    /\ \A r \in Request : WF_vars(Step(r) /\ UNCHANGED watchVars)
                          /\ WF_vars(Tick(r) /\ UNCHANGED watchVars)
                          /\ WF_vars(TimedOut(r) /\ UNCHANGED watchVars)
    /\ WF_vars(Watch)

ReloadSpec == ReloadInit /\ [][ReloadNext]_vars
FairReloadSpec == ReloadSpec /\ ReloadFairness

-----------------------------------------------------------------------------
\* The types of the watcher's state; the rest is ProxyEngine's TypeOK.
ReloadTypeOK ==
    /\ TypeOK
    /\ config_file \in ConfigId \cup {BadFile}
    /\ edited \in BOOLEAN /\ sighup \in BOOLEAN
    /\ signals \in 0 .. MaxSignals
    /\ watcher \in {"wait", "load", "swap_lb", "swap_plugins", "swap_config", "swap_handles"}
    /\ probers \subseteq (1 .. Len(loaded)) \X Addr
    /\ ending \subseteq (1 .. Len(loaded)) \X Addr

-----------------------------------------------------------------------------
(* Safety *)

\* ReloadTargets: "a request never sees a route pointing at stale upstreams,
\* health state, or plugins".  The balancer and the plugin a call uses are
\* never older than its route: the configuration is swapped after both, and
\* the plugin is looked up under the configuration's guard.
NeverStale ==
    \A r \in Request :
        /\ scan[r].gen # 0 => scan[r].gen >= route[r].gen
        /\ plugin[r] # 0 => plugin[r] >= route[r].gen

\* Between reloads everything belongs to one generation: the last that
\* loaded, its probers included and nobody else's.
Settled ==
    watcher = "wait" =>
        LET g == Len(loaded)
        IN  /\ config_handle = g /\ lb_cache = g
            /\ plugin_cache = IF g = 1 THEN StartPlugins ELSE g
            /\ probers = ProbersOf(g, loaded[g])

\* A reload is whole or not at all: a generation with a plugin that does not
\* load never replaces anything ("must abort the whole reload, not
\* half-apply it", reload.rs).
NeverHalfApplied ==
    \A g \in {config_handle, lb_cache, plugin_cache} : g > 1 => PluginsLoad(loaded[g])

\* No signal is lost: once the watcher waits with none pending, the file as
\* it was when the last signal came is what runs, if it can be loaded.
SignalHonoured ==
    watcher = "wait" /\ ~sighup /\ ~edited /\ Loadable(config_file)
        => loaded[config_handle] = config_file

\* A call is refused for want of an upstream only if a later generation has
\* dropped its route's name.
UpstreamLossExplained ==
    \A r \in Request : status[r] = "no_upstream" =>
        \E g \in DOMAIN loaded : g > route[r].gen /\ Named(loaded[g], RouteOf(r).name) = {}

\* A call passes its route's plugin unfiltered only if a later generation no
\* longer uses that plugin.
FilterLossExplained ==
    \A r \in Request :
        delivered[r] # << >> /\ RouteOf(r).plugin # None /\ plugin[r] = 0 =>
            \E g \in DOMAIN loaded :
                g > route[r].gen /\ RouteOf(r).plugin \notin PluginsOf(loaded[g])

-----------------------------------------------------------------------------
(* Liveness *)

\* Every signal is taken up: a reload in progress always ends, whatever the
\* calls do, and so do the calls under way (Answered).
SignalServed == sighup ~> ~sighup

-----------------------------------------------------------------------------
(* What the documentation says and the code does not do *)

\* README.md:29 "Zero-downtime config reload via SIGHUP: ... routes,
\* upstreams, health checks, and plugins all rebuild atomically".
ReloadRefusesNobody == \A r \in Request : status[r] # "no_upstream"

\* The upstreams of routes without a health check.
UncheckedBy(c) ==
    UNION {{Config[c][k].upstream[j].addr : j \in DOMAIN Config[c][k].upstream} :
              k \in {i \in DOMAIN Config[c] : ~Config[c][i].health}}

\* config.rs:124 "Absent means every upstream is always considered healthy":
\* of the routes that run, once the probers of the ones before are gone.
UncheckedReadsHealthy ==
    watcher = "wait" /\ ending = {} =>
        LET c == loaded[config_handle]
        IN  \A a \in UncheckedBy(c) \ ProbedBy(c) : Healthy(a)

=============================================================================
