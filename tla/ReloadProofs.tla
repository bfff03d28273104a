---------------------------- MODULE ReloadProofs ----------------------------
(***************************************************************************)
(* Proofs about Reload: what holds of the engine without reloads holds     *)
(* across any number of them, and what the watcher swaps fits together.    *)
(***************************************************************************)
EXTENDS Reload, CallProofs

-----------------------------------------------------------------------------
(* The invariant of the watcher *)

Swapping == {"swap_lb", "swap_plugins", "swap_config", "swap_handles"}

\* The generation whose plugins the cache holds, 0 at start if they do not load.
CacheOf(g) == IF g = 1 THEN StartPlugins ELSE g

\* Which generation each shared structure holds while the watcher swaps them.
SwapInv ==
    LET g == Len(loaded)
    IN  /\ watcher \in Swapping => g > 1
        /\ lb_cache = IF watcher = "swap_lb" THEN g - 1 ELSE g
        /\ plugin_cache = CacheOf(IF watcher \in {"swap_lb", "swap_plugins"} THEN g - 1 ELSE g)
        /\ config_handle =
              IF watcher \in {"swap_lb", "swap_plugins", "swap_config"} THEN g - 1 ELSE g
        /\ probers = ProbersOf(g, loaded[g]) \cup
                        IF watcher \in Swapping THEN ProbersOf(g - 1, loaded[g - 1]) ELSE {}

\* Every generation after the first was built whole.
LoadsInv == \A g \in DOMAIN loaded : g > 1 => PluginsLoad(loaded[g])

\* Every load took a signal of its own.
SignalInv ==
    Len(loaded) + (IF sighup THEN 1 ELSE 0) + (IF watcher = "load" THEN 1 ELSE 0) <= signals + 1

\* A file that was not edited since the last signal is loaded, or waits to be.
HonourInv ==
    ~sighup /\ ~edited /\ watcher # "load" /\ Loadable(config_file) =>
        loaded[Len(loaded)] = config_file

WatchTyped ==
    /\ config_file \in ConfigId \cup {BadFile}
    /\ edited \in BOOLEAN /\ sighup \in BOOLEAN
    /\ signals \in 0 .. MaxSignals
    /\ watcher \in {"wait", "load"} \cup Swapping
    /\ ending \subseteq (1 .. Len(loaded)) \X Addr

WatchInv == WatchTyped /\ SwapInv /\ LoadsInv /\ SignalInv /\ HonourInv

-----------------------------------------------------------------------------
(* The invariant of the calls *)

\* A call's route is of a generation that was swapped in; what it uses of the
\* balancers and plugins is no older.
StaleInv(r) ==
    /\ route[r].gen <= config_handle
    /\ pc[r] \in {"idle", "arrived"} => scan[r].gen = 0 /\ plugin[r] = 0
    /\ scan[r].gen # 0 => scan[r].gen >= route[r].gen
    /\ plugin[r] # 0 => plugin[r] >= route[r].gen

\* A call past the lookup without its plugin lost it to a later generation.
Lost(r) ==
    \E g \in DOMAIN loaded : g > route[r].gen /\ RouteOf(r).plugin \notin PluginsOf(loaded[g])
LossInv(r) ==
    pc[r] \in Guarded \/ delivered[r] # << >> \/ mirrored[r] # "no" =>
        /\ route[r] # NoRoute
        /\ RouteOf(r).plugin # None /\ plugin[r] = 0 => Lost(r)

\* Every route has upstreams, as Config::validate demands.
Supplied == \A c \in ConfigId : \A k \in DOMAIN Config[c] : Config[c][k].upstream # << >>

\* A call refused for want of an upstream lost its name to a later generation.
Dropped(r) == \E g \in DOMAIN loaded : g > route[r].gen /\ Named(loaded[g], RouteOf(r).name) = {}
DropInv(r) == status[r] = "no_upstream" => route[r] # NoRoute /\ Dropped(r)

CallsInv ==
    /\ \A r \in Request : StaleInv(r)
    /\ Supplied => \A r \in Request : DropInv(r)
    /\ PluginsLoad(StartConfig) => \A r \in Request : LossInv(r)

ReloadInv == EngineInv /\ WatchInv /\ CallsInv

-----------------------------------------------------------------------------
(* Types *)

LEMMA ProbedAddr ==
    ASSUME NEW c \in ConfigId
    PROVE  ProbedBy(c) \subseteq Addr
<1> DEFINE Pool == [addr : Addr, weight : Nat \cup {Unset}]
           ups(k) == Config[c][k].upstream
<1> SUFFICES ASSUME NEW a \in ProbedBy(c) PROVE a \in Addr
  OBVIOUS
<1>1. PICK k \in DOMAIN Config[c] : \E j \in DOMAIN ups(k) : a = ups(k)[j].addr
  BY Zenon DEF ProbedBy
<1>2. PICK j \in DOMAIN ups(k) : a = ups(k)[j].addr
  BY <1>1
<1>3. ups(k) \in Seq(Pool)
  BY ConfigType, EngineAssumption DEF RouteConfig
<1> HIDE DEF ups, Pool
<1>4. ups(k)[j] \in Pool
  BY <1>3
<1> QED  BY <1>2, <1>4 DEF Pool

\* The types of loaded and the caches.
LEMMA LoadedType ==
    ASSUME EngineInv
    PROVE  /\ loaded \in Seq(ConfigId) /\ Len(loaded) \in Nat \ {0} /\ DOMAIN loaded = 1 .. Len(loaded)
           /\ \A g \in 1 .. Len(loaded) : loaded[g] \in ConfigId
           /\ config_handle \in Nat /\ lb_cache \in Nat /\ plugin_cache \in Nat
BY DEF EngineInv, TypeOK

LEMMA ProbersType ==
    ASSUME EngineInv, WatchInv
    PROVE  probers \subseteq (1 .. Len(loaded)) \X Addr
<1> DEFINE g == Len(loaded)
<1>1. g \in Nat \ {0} /\ \A k \in 1 .. g : ProbedBy(loaded[k]) \subseteq Addr
  BY LoadedType, ProbedAddr
<1>2. \A k \in 1 .. g : ProbersOf(k, loaded[k]) \subseteq (1 .. g) \X Addr
  BY <1>1 DEF ProbersOf
<1>3. g \in 1 .. g /\ (watcher \in Swapping => g - 1 \in 1 .. g)
  BY <1>1 DEF WatchInv, SwapInv
<1>4. probers \subseteq ProbersOf(g, loaded[g]) \cup
                           IF watcher \in Swapping THEN ProbersOf(g - 1, loaded[g - 1]) ELSE {}
  BY DEF WatchInv, SwapInv
<1> QED  BY <1>2, <1>3, <1>4

-----------------------------------------------------------------------------
(* The calls' invariant, step by step *)

\* What a step does to one call's route, plugin and scan.
Keeps(x) == /\ route'[x] = route[x] /\ plugin'[x] = plugin[x] /\ scan'[x].gen = scan[x].gen
            /\ pc'[x] \in {"idle", "arrived"} => pc[x] \in {"idle", "arrived"}
Selects(x) == /\ pc[x] = "arrived" /\ pc'[x] \in {"lookup", "filter"}
              /\ route'[x].gen = config_handle /\ plugin'[x] = plugin[x] /\ scan'[x] = scan[x]
Finds(x) == /\ pc'[x] = "filter" /\ route'[x] = route[x] /\ scan'[x] = scan[x]
            /\ plugin'[x] \in {0, plugin_cache}
Scans(x) == /\ pc'[x] = "prefer" /\ route'[x] = route[x] /\ plugin'[x] = plugin[x]
            /\ scan'[x].gen = lb_cache

LEMMA CallIsStaleStep ==
    ASSUME EngineInv, NEW r \in Request, CallNext(r), NEW x \in Request
    PROVE  Keeps(x) \/ Selects(x) \/ Finds(x) \/ Scans(x)
<1> USE DEF Goto, Answer, metrics, caches, routing, attempt, clock, outside, scanFrame,
            attemptFrame
<1>1. /\ pc \in [Request -> Label] /\ route \in [Request -> [gen : Nat, index : Nat]]
      /\ plugin \in [Request -> 0 .. MaxLoads]
      /\ scan \in [Request -> [gen : Nat, start : Nat, i : Nat]]
  BY DEF EngineInv, TypeOK
<1> USE <1>1
<1>2. CASE Receive(r) \/ NotFound(r) \/ Deny(r) \/ Admit(r) \/ NoUpstream(r)
  BY <1>2 DEF Receive, NotFound, Deny, Admit, NoUpstream, Keeps
<1>3. CASE SelectRoute(r)
  BY <1>3 DEF SelectRoute, Selects, Keeps
<1>4. CASE LookupPlugin(r)
  BY <1>4 DEF LookupPlugin, FoundPlugin, Finds, Keeps
<1>5. CASE StartScan(r)
  BY <1>5 DEF StartScan, Scans, Keeps
<1>6. CASE TakeCandidate(r) \/ FailOpen(r)
  BY <1>6 DEF TakeCandidate, FailOpen, BeginAttempt, Keeps
<1>7. CASE SkipCandidate(r) \/ SecondPass(r)
  <2>1. \/ scan' = [scan EXCEPT ![r] = [scan[r] EXCEPT !.i = scan[r].i + 1]]
        \/ scan' = [scan EXCEPT ![r] = [scan[r] EXCEPT !.i = 0]]
    BY <1>7, Zenon DEF SkipCandidate, SecondPass
  <2>2. scan'[x].gen = scan[x].gen
    <3>1. scan \in [Request -> [gen : Nat, start : Nat, i : Nat]]
      BY Zenon DEF EngineInv, TypeOK
    <3>2. [scan[r] EXCEPT !.i = scan[r].i + 1].gen = scan[r].gen
      BY ONLY <3>1, r \in Request
    <3>3. [scan[r] EXCEPT !.i = 0].gen = scan[r].gen
      BY ONLY <3>1, r \in Request
    <3> QED  BY ONLY <2>1, <3>1, <3>2, <3>3
  <2>3. UNCHANGED <<route, plugin>>
    BY <1>7, Zenon DEF SkipCandidate, SecondPass
  <2>4. pc' = pc \/ pc' = [pc EXCEPT ![r] = "any"]
    BY <1>7, Zenon DEF SkipCandidate, SecondPass
  <2> QED  BY <2>2, <2>3, <2>4 DEF Keeps
<1>8. CASE Upstreams(r)
  BY <1>8 DEF Upstreams, Connected, Responded, ConnectError, TransportError, SendError,
              AttemptFails, Keeps
<1>9. CASE Tick(r) \/ TimedOut(r) \/ ClientGone(r) \/ MirrorEnds(r)
  BY <1>9 DEF Tick, TimedOut, ClientGone, MirrorEnds, Keeps
<1> QED  BY <1>2, <1>3, <1>4, <1>5, <1>6, <1>7, <1>8, <1>9, Zenon DEF CallNext, Step, Scanning

\* The cache holds the plugins of the last generation or the one before it.
LEMMA CacheRange ==
    ASSUME EngineInv, WatchInv
    PROVE  /\ plugin_cache # 0 => plugin_cache \in 1 .. Len(loaded) /\ config_handle <= plugin_cache
           /\ PluginsLoad(StartConfig) => plugin_cache # 0
<1> DEFINE g == Len(loaded)
           h == IF watcher \in {"swap_lb", "swap_plugins"} THEN g - 1 ELSE g
<1>1. g \in Nat \ {0} /\ (watcher \in Swapping => g > 1) /\ plugin_cache = CacheOf(h)
      /\ config_handle =
            IF watcher \in {"swap_lb", "swap_plugins", "swap_config"} THEN g - 1 ELSE g
  BY LoadedType DEF WatchInv, SwapInv
<1>2. CacheOf(h) = IF h = 1 THEN IF PluginsLoad(StartConfig) THEN 1 ELSE 0 ELSE h
  BY DEF CacheOf, StartPlugins
<1> HIDE DEF g
<1>3. h \in 1 .. g /\ config_handle <= h
  BY <1>1 DEF Swapping
<1> HIDE DEF h
<1>4. plugin_cache # 0 => plugin_cache = h
  BY <1>1, <1>2
<1>5. PluginsLoad(StartConfig) => plugin_cache # 0
  BY <1>1, <1>2, <1>3
<1> QED  BY <1>3, <1>4, <1>5 DEF g

\* The configuration is the last structure to be swapped.
LEMMA ConfigLast ==
    ASSUME EngineInv, WatchInv
    PROVE  config_handle <= lb_cache /\ (plugin_cache # 0 => config_handle <= plugin_cache)
<1> DEFINE g == Len(loaded)
<1>1. g \in Nat
  BY LoadedType
<1>2. /\ lb_cache = IF watcher = "swap_lb" THEN g - 1 ELSE g
      /\ config_handle =
            IF watcher \in {"swap_lb", "swap_plugins", "swap_config"} THEN g - 1 ELSE g
  BY DEF WatchInv, SwapInv
<1> HIDE DEF g
<1>3. config_handle <= lb_cache
  BY <1>1, <1>2
<1> QED  BY <1>3, CacheRange

LEMMA CallStaleInv ==
    ASSUME EngineInv, WatchInv, NEW x \in Request, StaleInv(x), config_handle' = config_handle,
           Keeps(x) \/ Selects(x) \/ Finds(x) \/ Scans(x)
    PROVE  StaleInv(x)'
<1>1. /\ config_handle \in Nat /\ lb_cache \in Nat /\ plugin_cache \in Nat
      /\ route[x].gen \in Nat /\ plugin[x] \in Nat /\ scan[x].gen \in Nat
  <2>1. config_handle \in Nat /\ lb_cache \in Nat /\ plugin_cache \in Nat
    BY LoadedType
  <2>2. /\ route \in [Request -> [gen : Nat, index : Nat]]
        /\ plugin \in [Request -> 0 .. MaxLoads]
        /\ scan \in [Request -> [gen : Nat, start : Nat, i : Nat]]
    BY Zenon DEF EngineInv, TypeOK
  <2>3. MaxLoads \in Nat
    BY EngineAssumption
  <2> QED  BY ONLY <2>1, <2>2, <2>3, x \in Request
<1>2. CASE Keeps(x)
  BY <1>2 DEF Keeps, StaleInv
<1>3. CASE Selects(x)
  BY <1>1, <1>3 DEF Selects, StaleInv
<1>4. CASE Finds(x)
  BY <1>1, <1>4, ConfigLast DEF Finds, StaleInv
<1>5. CASE Scans(x)
  BY <1>1, <1>5, ConfigLast DEF Scans, StaleInv
<1> QED  BY <1>2, <1>3, <1>4, <1>5

\* A lookup that finds nothing looks in a later generation's cache, which has
\* dropped the plugin.
LEMMA LookupLoses ==
    ASSUME EngineInv, WatchInv, PluginsLoad(StartConfig), NEW r \in Request, StaleInv(r),
           pc[r] = "lookup", RouteOf(r).plugin # None, FoundPlugin(r) = 0
    PROVE  Lost(r)
<1>1. /\ route[r].gen \in DOMAIN loaded
      /\ route[r].index \in DOMAIN Config[loaded[route[r].gen]]
  BY DEF EngineInv, CallInv, RouteKnown, Routed
<1>2. /\ DOMAIN loaded = 1 .. Len(loaded) /\ Len(loaded) \in Nat \ {0}
      /\ config_handle \in Nat /\ plugin_cache \in Nat
  BY LoadedType
<1>3. plugin_cache # 0 /\ plugin_cache \in DOMAIN loaded
  BY <1>2, CacheRange
<1>4. RouteOf(r).plugin \notin PluginsOf(loaded[plugin_cache])
  BY <1>3 DEF FoundPlugin
<1>5. RouteOf(r).plugin \in PluginsOf(loaded[route[r].gen])
  BY <1>1 DEF RouteOf, PluginsOf
<1>6. plugin_cache >= route[r].gen /\ plugin_cache # route[r].gen
  BY <1>1, <1>2, <1>3, <1>4, <1>5, ConfigLast DEF StaleInv
<1> QED  BY <1>1, <1>2, <1>3, <1>4, <1>6 DEF Lost

LEMMA CallLossInv ==
    ASSUME EngineInv, WatchInv, PluginsLoad(StartConfig), NEW r \in Request, StaleInv(r),
           LossInv(r), CallNext(r)
    PROVE  LossInv(r)'
<1>1. loaded' = loaded
  BY CachesStay
<1>2. CASE Outside(r)
  <2>1. delivered[r] = << >> /\ mirrored[r] = "no"
    BY <1>2 DEF Outside, Unrouted, EngineInv, CallInv, SentOnce, RefusedEarly, BeforeSend,
                BeforeAttempt, BeforeAdmission
  <2> QED  BY <1>2, <2>1 DEF Outside, LossInv
<1>3. CASE Bypasses(r)
  <2>1. route'[r] # NoRoute
    BY <1>3, CallNextInv DEF Bypasses, EngineInv, CallInv, RouteKnown, Routed, NoRoute
  <2> QED  BY <1>3, <2>1 DEF Bypasses, LossInv, NoRoute
<1>4. ASSUME route'[r] = route[r] PROVE RouteOf(r)' = RouteOf(r) /\ (Lost(r) => Lost(r)')
  BY <1>1, <1>4 DEF RouteOf, Lost
<1>5. CASE LooksUp(r)
  <2>1. route[r] # NoRoute
    BY <1>5 DEF LooksUp, EngineInv, CallInv, RouteKnown, Routed
  <2> QED  BY <1>4, <1>5, <2>1, LookupLoses DEF LooksUp, LossInv, NoRoute
<1>6. CASE Carries(r)
  BY <1>4, <1>6 DEF Carries, LossInv, NoRoute
<1> QED  BY <1>2, <1>3, <1>5, <1>6, CallIsFilterStep

LEMMA OtherLossInv ==
    ASSUME NEW x \in Request, LossInv(x), SameClock(x), loaded' = loaded
    PROVE  LossInv(x)'
<1>1. RouteOf(x)' = RouteOf(x) /\ (Lost(x) => Lost(x)')
  BY DEF SameClock, RouteOf, Lost
<1> QED  BY <1>1 DEF SameClock, LossInv, NoRoute

\* Balancers without the call's name are those of a later generation.
LEMMA NoUpstreamDrops ==
    ASSUME EngineInv, WatchInv, Supplied, NEW r \in Request, StaleInv(r), NoUpstream(r)
    PROVE  route[r] # NoRoute /\ Dropped(r)
<1>1. /\ route[r] # NoRoute /\ route[r].gen \in DOMAIN loaded
      /\ route[r].index \in DOMAIN Config[loaded[route[r].gen]]
  BY DEF NoUpstream, EngineInv, CallInv, RouteKnown, Routed
<1>2. /\ DOMAIN loaded = 1 .. Len(loaded) /\ Len(loaded) \in Nat \ {0}
      /\ config_handle \in Nat /\ lb_cache \in 1 .. Len(loaded)
      /\ \A g \in 1 .. Len(loaded) : loaded[g] \in ConfigId
  BY LoadedType DEF EngineInv, TypeOK
<1> DEFINE n == RouteOf(r).name
<1>3. n \in RouteName
  BY <1>1, RouteType DEF RouteConfig
<1>4. route[r].index \in Named(loaded[route[r].gen], n)
  BY <1>1 DEF Named, RouteOf
<1>5. LbSchedule[loaded[lb_cache]][n] = << >>
  BY DEF NoUpstream, SchedOf
<1> HIDE DEF n
<1>6. Named(loaded[lb_cache], n) = {}
  <2> DEFINE c == loaded[lb_cache]
  <2>1. c \in ConfigId
    BY <1>2
  <2> HIDE DEF c
  <2>2. \A k \in Named(c, n) : Config[c][k].upstream # << >>
    BY <2>1 DEF Named, Supplied
  <2> QED  BY <1>3, <1>5, <2>1, <2>2, SchedulesKnown, Zenon DEF c
<1>7. lb_cache >= route[r].gen /\ lb_cache # route[r].gen
  BY <1>1, <1>2, <1>4, <1>6, ConfigLast DEF StaleInv
<1> QED  BY <1>1, <1>2, <1>6, <1>7 DEF Dropped, n

LEMMA CallIsDropStep ==
    ASSUME EngineInv, NEW r \in Request, CallNext(r), status'[r] = "no_upstream"
    PROVE  NoUpstream(r) \/ (status[r] = "no_upstream" /\ route'[r] = route[r])
<1> USE DEF Goto, Answer, metrics, caches, routing, attempt, clock, outside, scanFrame,
            attemptFrame
<1>1. status \in [Request -> Code] /\ (status[r] = "no_upstream" => pc[r] = "done")
  BY DEF EngineInv, TypeOK, CallInv, RefusedEarly
<1>2. CASE Receive(r) \/ SelectRoute(r) \/ LookupPlugin(r) \/ Admit(r) \/ StartScan(r)
  BY <1>1, <1>2 DEF Receive, SelectRoute, LookupPlugin, Admit, StartScan
<1>3. CASE NotFound(r) \/ Deny(r)
  BY <1>1, <1>3 DEF NotFound, Deny
<1>4. CASE Scanning(r)
  BY <1>4 DEF Scanning, TakeCandidate, SkipCandidate, SecondPass, FailOpen
<1>5. CASE Upstreams(r)
  BY <1>1, <1>5
  DEF Upstreams, Connected, Responded, ConnectError, TransportError, SendError, AttemptFails
<1>6. CASE Tick(r) \/ TimedOut(r) \/ ClientGone(r) \/ MirrorEnds(r)
  BY <1>1, <1>6 DEF Tick, TimedOut, ClientGone, MirrorEnds
<1> QED  BY <1>2, <1>3, <1>4, <1>5, <1>6 DEF CallNext, Step

LEMMA CallDropInv ==
    ASSUME EngineInv, WatchInv, Supplied, NEW r \in Request, StaleInv(r), DropInv(r), CallNext(r)
    PROVE  DropInv(r)'
<1> SUFFICES ASSUME status'[r] = "no_upstream" PROVE route'[r] # NoRoute /\ Dropped(r)'
  BY DEF DropInv, NoRoute
<1>1. route[r] # NoRoute /\ Dropped(r) /\ route'[r] = route[r]
  <2>1. CASE NoUpstream(r)
    BY <2>1, NoUpstreamDrops DEF NoUpstream, routing
  <2> QED  BY <2>1, CallIsDropStep DEF DropInv
<1>2. loaded' = loaded
  BY CachesStay
<1> QED  BY <1>1, <1>2 DEF Dropped, RouteOf

LEMMA OtherDropInv ==
    ASSUME NEW x \in Request, DropInv(x), SameClock(x), SameView(x), loaded' = loaded
    PROVE  DropInv(x)'
<1>1. RouteOf(x)' = RouteOf(x) /\ (Dropped(x) => Dropped(x)')
  BY DEF SameClock, RouteOf, Dropped
<1> QED  BY <1>1 DEF SameClock, SameView, DropInv, NoRoute

\* The watcher is not moved by calls.
LEMMA SameWatchInv ==
    ASSUME WatchInv, UNCHANGED watchVars, loaded' = loaded, config_handle' = config_handle,
           lb_cache' = lb_cache, plugin_cache' = plugin_cache
    PROVE  WatchInv'
<1>1. /\ config_file' = config_file /\ edited' = edited /\ sighup' = sighup
      /\ signals' = signals /\ watcher' = watcher /\ probers' = probers /\ ending' = ending
  BY DEF watchVars
<1>2. WatchTyped' /\ SignalInv' /\ HonourInv' /\ LoadsInv'
  BY <1>1 DEF WatchInv, WatchTyped, SignalInv, HonourInv, LoadsInv, Loadable
<1>3. SwapInv'
  BY <1>1 DEF WatchInv, SwapInv
<1> QED  BY <1>2, <1>3 DEF WatchInv

LEMMA CallReloadInv ==
    ASSUME ReloadInv, NEW r \in Request, CallNext(r), UNCHANGED watchVars
    PROVE  ReloadInv'
<1>1. /\ loaded' = loaded /\ config_handle' = config_handle
      /\ lb_cache' = lb_cache /\ plugin_cache' = plugin_cache
  BY CachesStay
<1>2. EngineInv'
  BY CallNextInv DEF ReloadInv
<1>3. WatchInv'
  BY <1>1, SameWatchInv DEF ReloadInv
<1>4. ASSUME NEW x \in Request PROVE StaleInv(x)'
  BY <1>1, CallIsStaleStep, CallStaleInv DEF ReloadInv, CallsInv
<1>5. ASSUME PluginsLoad(StartConfig), NEW x \in Request PROVE LossInv(x)'
  <2>1. CASE x = r
    BY <1>5, <2>1, CallLossInv DEF ReloadInv, CallsInv
  <2>2. CASE x # r
    <3>1. ClockTyped
      BY DEF ReloadInv, EngineInv, TypeOK, ClockTyped
    <3>2. SameClock(x)
      BY <2>2, <3>1, OthersSameClock
    <3> QED  BY <1>1, <1>5, <3>2, OtherLossInv DEF ReloadInv, CallsInv
  <2> QED  BY <2>1, <2>2
<1>6. ASSUME Supplied, NEW x \in Request PROVE DropInv(x)'
  <2>1. CASE x = r
    BY <1>6, <2>1, CallDropInv DEF ReloadInv, CallsInv
  <2>2. CASE x # r
    <3>1. ClockTyped /\ ViewTyped
      BY DEF ReloadInv, EngineInv, TypeOK, ClockTyped, ViewTyped
    <3>2. SameClock(x) /\ SameView(x)
      BY <2>2, <3>1, OthersSameClock, OthersSameView
    <3> QED  BY <1>1, <1>6, <3>2, OtherDropInv DEF ReloadInv, CallsInv
  <2> QED  BY <2>1, <2>2
<1> QED  BY <1>2, <1>3, <1>4, <1>5, <1>6 DEF ReloadInv, CallsInv

-----------------------------------------------------------------------------
(* Steps that leave the calls alone *)

Grows == /\ DOMAIN loaded \subseteq DOMAIN loaded'
         /\ \A g \in DOMAIN loaded : loaded'[g] = loaded[g]

LEMMA RouteStays ==
    ASSUME EngineInv, NEW x \in Request, Grows, route'[x] = route[x], route[x] # NoRoute
    PROVE  RouteOf(x)' = RouteOf(x)
<1>1. route[x].gen \in DOMAIN loaded
  BY DEF EngineInv, CallInv, RouteKnown
<1> QED  BY <1>1 DEF Grows, RouteOf

LEMMA StayingCallInv ==
    ASSUME EngineInv, NEW x \in Request, Grows, SameCall(x)
    PROVE  CallInv(x)'
<1> USE DEF SameCall, EngineInv, CallInv
<1>1. RouteKnown(x)' /\ AttemptKnown(x)'
  BY DEF RouteKnown, AttemptKnown, NoRoute, Routed, Grows
<1>2. route[x] # NoRoute => RouteOf(x)' = RouteOf(x)
  BY RouteStays
<1>3. ScanKnown(x)'
  BY <1>2 DEF ScanKnown, RouteKnown, Routed, ScanSched, SchedOf, Grows
<1>4. SentOnce(x)' /\ RefusedEarly(x)'
  BY DEF SentOnce, RefusedEarly, BeforeSend, BeforeAttempt, BeforeAdmission
<1>5. BodyHeld(x)'
  <2>1. CASE route[x] # NoRoute
    BY <1>2, <2>1 DEF BodyHeld, BeforeAttempt, BeforeAdmission, CanRetry, Replayable, MaxAttempts
  <2>2. CASE route[x] = NoRoute
    BY <2>2 DEF BodyHeld, BeforeAttempt, BeforeAdmission, RouteKnown, Routed
  <2> QED  BY <2>1, <2>2
<1> QED  BY <1>1, <1>3, <1>4, <1>5

LEMMA StayingReloadInv ==
    ASSUME ReloadInv, UNCHANGED calls, Grows, TypeOK', WatchInv', config_handle <= config_handle'
    PROVE  ReloadInv'
<1>1. ASSUME NEW x \in Request PROVE SameCall(x) /\ plugin'[x] = plugin[x]
  BY DEF calls, routing, attempt, outside, SameCall
<1>2. EngineInv'
  BY <1>1, StayingCallInv DEF ReloadInv, EngineInv
<1>3. ASSUME NEW x \in Request PROVE StaleInv(x)'
  <2>1. /\ route[x].gen \in Nat /\ config_handle \in Nat /\ config_handle' \in Nat
        /\ route[x].gen <= config_handle
    <3>1. config_handle \in Nat /\ config_handle' \in Nat
      BY <1>2, LoadedType DEF ReloadInv, EngineInv, TypeOK
    <3> QED  BY <3>1 DEF ReloadInv, EngineInv, TypeOK, CallsInv, StaleInv
  <2> QED  BY <1>1, <2>1 DEF SameCall, ReloadInv, CallsInv, StaleInv
<1>4. ASSUME PluginsLoad(StartConfig), NEW x \in Request PROVE LossInv(x)'
  <2>1. LossInv(x)
    BY <1>4 DEF ReloadInv, CallsInv
  <2>2. route[x] # NoRoute => RouteOf(x)' = RouteOf(x)
    BY <1>1, RouteStays DEF SameCall, ReloadInv
  <2>3. route[x] # NoRoute /\ Lost(x) => Lost(x)'
    BY <1>1, <2>2 DEF SameCall, Lost, Grows
  <2> QED  BY <1>1, <2>1, <2>2, <2>3 DEF SameCall, LossInv, NoRoute
<1>5. ASSUME Supplied, NEW x \in Request PROVE DropInv(x)'
  <2>1. DropInv(x) /\ status'[x] = status[x]
    BY <1>5 DEF ReloadInv, CallsInv, calls
  <2>2. route[x] # NoRoute => RouteOf(x)' = RouteOf(x)
    BY <1>1, RouteStays DEF SameCall, ReloadInv
  <2>3. route[x] # NoRoute /\ Dropped(x) => Dropped(x)'
    BY <1>1, <2>2 DEF SameCall, Dropped, Grows
  <2> QED  BY <1>1, <2>1, <2>3 DEF SameCall, DropInv, NoRoute
<1> QED  BY <1>2, <1>3, <1>4, <1>5 DEF ReloadInv, CallsInv

\* The operator's and the watcher's steps that touch nothing of the engine.
LEMMA QuietReloadInv ==
    ASSUME ReloadInv, UNCHANGED engineVars, WatchInv'
    PROVE  ReloadInv'
<1>1. UNCHANGED calls /\ loaded' = loaded /\ config_handle' = config_handle
  BY DEF engineVars, calls, caches
<1>2. TypeOK'
  BY StutterInv DEF ReloadInv, EngineInv
<1>3. config_handle <= config_handle'
  BY <1>1, LoadedType DEF ReloadInv
<1>4. Grows
  BY <1>1 DEF Grows
<1> QED  BY <1>1, <1>2, <1>3, <1>4, StayingReloadInv

-----------------------------------------------------------------------------
(* One lemma for each step beside the calls *)

LEMMA InitReloadInv == ReloadInit => ReloadInv
<1> SUFFICES ASSUME ReloadInit PROVE ReloadInv
  OBVIOUS
<1>1. EngineInv
  BY InitInv DEF ReloadInit
<1>2. /\ loaded = <<StartConfig>> /\ Len(loaded) = 1 /\ loaded[1] = StartConfig
      /\ config_handle = 1 /\ lb_cache = 1 /\ plugin_cache = StartPlugins
  BY DEF ReloadInit, Init
<1>3. /\ config_file = StartConfig /\ edited = FALSE /\ sighup = FALSE /\ signals = 0
      /\ watcher = "wait" /\ probers = ProbersOf(1, StartConfig) /\ ending = {}
  BY DEF ReloadInit
<1>4. WatchTyped
  <2>1. 0 \in 0 .. MaxSignals /\ StartConfig \in ConfigId
    BY EngineAssumption, ReloadAssumption
  <2> QED  BY <1>3, <2>1, Zenon DEF WatchTyped
<1>5. SwapInv
  BY <1>2, <1>3 DEF SwapInv, Swapping, CacheOf
<1>6. LoadsInv /\ SignalInv /\ HonourInv
  BY <1>2, <1>3 DEF LoadsInv, SignalInv, HonourInv
<1>7. ASSUME NEW r \in Request PROVE StaleInv(r)
  <2>1. route[r] = NoRoute /\ pc[r] = "idle" /\ scan[r].gen = 0 /\ plugin[r] = 0
    BY DEF ReloadInit, Init
  <2> QED  BY <1>2, <2>1 DEF StaleInv, NoRoute
<1>8. ASSUME NEW r \in Request PROVE LossInv(r)
  <2>1. pc[r] = "idle" /\ delivered[r] = << >> /\ mirrored[r] = "no"
    BY DEF ReloadInit, Init
  <2> QED  BY <2>1 DEF LossInv, Guarded, Choosing, Waiting
<1>9. ASSUME NEW r \in Request PROVE DropInv(r)
  BY DEF ReloadInit, Init, DropInv
<1> QED  BY <1>1, <1>4, <1>5, <1>6, <1>7, <1>8, <1>9 DEF ReloadInv, WatchInv, CallsInv

LEMMA OperatorInv ==
    ASSUME ReloadInv, Operator
    PROVE  ReloadInv'
<1>1. UNCHANGED engineVars /\ loaded' = loaded /\ config_handle' = config_handle
      /\ lb_cache' = lb_cache /\ plugin_cache' = plugin_cache
  BY DEF Operator, SendSignal, EditFile, engineVars, caches
<1>2. watcher' = watcher /\ probers' = probers /\ ending' = ending
  BY DEF Operator, SendSignal, EditFile
<1>3. SwapInv' /\ LoadsInv'
  BY <1>1, <1>2 DEF ReloadInv, WatchInv, SwapInv, LoadsInv
<1>4. Len(loaded) \in Nat
  BY LoadedType DEF ReloadInv
<1>5. CASE SendSignal
  <2> DEFINE g == Len(loaded)
  <2>1. /\ sighup' = TRUE /\ signals < MaxSignals /\ signals' = signals + 1
        /\ edited' = FALSE /\ config_file' = config_file
    BY <1>5 DEF SendSignal
  <2>2. signals \in 0 .. MaxSignals /\ sighup \in BOOLEAN /\ WatchTyped /\ MaxSignals \in Nat
        /\ g + (IF sighup THEN 1 ELSE 0) + (IF watcher = "load" THEN 1 ELSE 0) <= signals + 1
    BY ReloadAssumption DEF ReloadInv, WatchInv, WatchTyped, SignalInv
  <2>3. signals' \in 0 .. MaxSignals
    BY <2>1, <2>2
  <2>4. WatchTyped'
    BY <1>1, <1>2, <2>1, <2>2, <2>3 DEF WatchTyped
  <2>5. SignalInv'
    <3>1. g' = g /\ g \in Nat
      BY <1>1, <1>4
    <3> HIDE DEF g
    <3>2. g + 1 + (IF watcher = "load" THEN 1 ELSE 0) <= signals + 1 + 1
      BY <2>2, <3>1
    <3>3. g' + (IF sighup' THEN 1 ELSE 0) + (IF watcher' = "load" THEN 1 ELSE 0) <= signals' + 1
      BY <1>2, <2>1, <3>1, <3>2
    <3> QED  BY <3>3 DEF SignalInv, g
  <2>6. HonourInv'
    BY <2>1 DEF HonourInv
  <2> QED  BY <1>1, <1>3, <2>4, <2>5, <2>6, QuietReloadInv DEF WatchInv
<1>6. ASSUME NEW f \in ConfigId \cup {BadFile}, EditFile(f) PROVE ReloadInv'
  BY <1>1, <1>2, <1>3, <1>6, QuietReloadInv
     DEF EditFile, ReloadInv, WatchInv, WatchTyped, SignalInv, HonourInv
<1> QED  BY <1>5, <1>6 DEF Operator

LEMMA ReceiveOrRejectInv ==
    ASSUME ReloadInv, ReceiveSignal \/ RejectFile
    PROVE  ReloadInv'
<1>1. UNCHANGED engineVars /\ loaded' = loaded /\ config_handle' = config_handle
      /\ lb_cache' = lb_cache /\ plugin_cache' = plugin_cache
  BY DEF ReceiveSignal, RejectFile, engineVars, caches
<1>2. /\ probers' = probers /\ ending' = ending /\ config_file' = config_file
      /\ edited' = edited /\ signals' = signals /\ watcher \notin Swapping
      /\ \/ watcher = "wait" /\ sighup /\ ~sighup' /\ watcher' = "load"
         \/ watcher = "load" /\ ~Loadable(config_file) /\ sighup' = sighup /\ watcher' = "wait"
      /\ sighup' \in BOOLEAN
  BY DEF ReceiveSignal, RejectFile, Swapping, ReloadInv, WatchInv, WatchTyped
<1>3. Len(loaded) \in Nat
  BY LoadedType DEF ReloadInv
<1>4. WatchTyped' /\ LoadsInv'
  BY <1>1, <1>2 DEF ReloadInv, WatchInv, WatchTyped, LoadsInv
<1>5. SwapInv'
  BY <1>1, <1>2 DEF ReloadInv, WatchInv, SwapInv, Swapping
<1>6. SignalInv'
  <2> DEFINE g == Len(loaded)
  <2>1. g' = g /\ g \in Nat /\ signals \in Nat
    BY <1>1, <1>3, ReloadAssumption DEF ReloadInv, WatchInv, WatchTyped
  <2>2. g + (IF sighup THEN 1 ELSE 0) + (IF watcher = "load" THEN 1 ELSE 0) <= signals + 1
    BY DEF ReloadInv, WatchInv, SignalInv
  <2> HIDE DEF g
  <2>3. g' + (IF sighup' THEN 1 ELSE 0) + (IF watcher' = "load" THEN 1 ELSE 0) <= signals' + 1
    BY <1>2, <2>1, <2>2
  <2> QED  BY <2>3 DEF SignalInv, g
<1>7. HonourInv'
  BY <1>1, <1>2 DEF ReloadInv, WatchInv, HonourInv, Loadable
<1> QED  BY <1>1, <1>4, <1>5, <1>6, <1>7, QuietReloadInv DEF WatchInv

LEMMA SwapHandlesInv ==
    ASSUME ReloadInv, SwapHandles
    PROVE  ReloadInv'
<1> DEFINE g == Len(loaded)
<1>1. UNCHANGED engineVars /\ loaded' = loaded /\ config_handle' = config_handle
      /\ lb_cache' = lb_cache /\ plugin_cache' = plugin_cache
  BY DEF SwapHandles, engineVars, caches
<1>2. /\ watcher = "swap_handles" /\ watcher' = "wait" /\ probers' = probers \ Superseded
      /\ ending' = ending \cup Superseded /\ config_file' = config_file
      /\ edited' = edited /\ signals' = signals /\ sighup' = sighup
  BY DEF SwapHandles
<1>3. g \in Nat \ {0}
  BY LoadedType DEF ReloadInv
<1>4. WatchTyped' /\ LoadsInv' /\ SignalInv' /\ HonourInv'
  <2>1. Superseded \subseteq (1 .. g) \X Addr
    BY ProbersType DEF Superseded, ReloadInv
  <2> QED  BY <1>1, <1>2, <1>3, <2>1
           DEF ReloadInv, WatchInv, WatchTyped, LoadsInv, SignalInv, HonourInv, Loadable, Swapping
<1>5. SwapInv'
  <2>1. probers = ProbersOf(g, loaded[g]) \cup ProbersOf(g - 1, loaded[g - 1])
    BY <1>2 DEF ReloadInv, WatchInv, SwapInv, Swapping
  <2>2. probers' = ProbersOf(g, loaded[g])
    BY <1>2, <1>3, <2>1 DEF Superseded, ProbersOf
  <2> QED  BY <1>1, <1>2, <2>2 DEF ReloadInv, WatchInv, SwapInv, Swapping
<1> QED  BY <1>1, <1>4, <1>5, QuietReloadInv DEF WatchInv

\* A swap moves one cache, under its own lock.
LEMMA SwapCacheInv ==
    ASSUME ReloadInv, SwapLb \/ SwapPlugins \/ SwapConfig
    PROVE  ReloadInv'
<1> DEFINE g == Len(loaded)
<1>1. /\ UNCHANGED swapFrame /\ loaded' = loaded /\ UNCHANGED calls
      /\ UNCHANGED <<counter, registry, metrics>>
  BY DEF SwapLb, SwapPlugins, SwapConfig, swapFrame
<1>2. /\ config_file' = config_file /\ edited' = edited /\ sighup' = sighup
      /\ signals' = signals /\ probers' = probers /\ ending' = ending
  BY <1>1 DEF swapFrame
<1>3. \/ /\ watcher = "swap_lb" /\ watcher' = "swap_plugins"
         /\ lb_cache' = g /\ plugin_cache' = plugin_cache /\ config_handle' = config_handle
      \/ /\ watcher = "swap_plugins" /\ watcher' = "swap_config"
         /\ plugin_cache' = g /\ lb_cache' = lb_cache /\ config_handle' = config_handle
      \/ /\ watcher = "swap_config" /\ watcher' = "swap_handles"
         /\ config_handle' = g /\ lb_cache' = lb_cache /\ plugin_cache' = plugin_cache
  BY DEF SwapLb, SwapPlugins, SwapConfig
<1>4. g \in Nat \ {0} /\ config_handle \in Nat /\ g > 1
  BY <1>3, LoadedType DEF ReloadInv, WatchInv, SwapInv, Swapping
<1>5. SwapInv
  BY DEF ReloadInv, WatchInv
<1>6. SwapInv'
  <2>1. g' = g
    BY <1>1
  <2>2. CacheOf(g)' = g
    BY <1>4, <2>1 DEF CacheOf
  <2>3. CASE watcher = "swap_lb"
    BY <1>1, <1>2, <1>3, <1>5, <2>3 DEF SwapInv, Swapping, CacheOf, StartPlugins
  <2>4. CASE watcher = "swap_plugins"
    BY <1>1, <1>2, <1>3, <1>4, <1>5, <2>4 DEF SwapInv, Swapping, CacheOf
  <2>5. CASE watcher = "swap_config"
    BY <1>1, <1>2, <1>3, <1>5, <2>5 DEF SwapInv, Swapping, CacheOf, StartPlugins
  <2> QED  BY <1>3, <2>3, <2>4, <2>5
<1>7. WatchTyped' /\ LoadsInv' /\ HonourInv' /\ SignalInv'
  BY <1>1, <1>2, <1>3
     DEF ReloadInv, WatchInv, WatchTyped, LoadsInv, HonourInv, SignalInv, Loadable, Swapping
<1>8. TypeOK'
  <2>1. /\ config_handle' \in 1 .. Len(loaded) /\ lb_cache' \in 1 .. Len(loaded)
        /\ plugin_cache' \in 0 .. Len(loaded)
    <3>1. /\ config_handle \in 1 .. Len(loaded) /\ lb_cache \in 1 .. Len(loaded)
          /\ plugin_cache \in 0 .. Len(loaded)
      BY DEF ReloadInv, EngineInv, TypeOK
    <3>2. g \in 1 .. Len(loaded) /\ g \in 0 .. Len(loaded)
      BY <1>4
    <3> QED  BY <1>3, <3>1, <3>2
  <2>2. TypeOK
    BY DEF ReloadInv, EngineInv
  <2> QED  BY <1>1, <2>1, <2>2, Zenon DEF TypeOK, calls, metrics, routing, attempt, clock, outside
<1>9. config_handle <= config_handle'
  <2>1. config_handle \in 1 .. g
    BY DEF ReloadInv, EngineInv, TypeOK
  <2> QED  BY <1>3, <1>4, <2>1
<1>10. Grows
  BY <1>1 DEF Grows
<1> QED  BY <1>1, <1>6, <1>7, <1>8, <1>9, <1>10, StayingReloadInv DEF WatchInv

LEMMA LoadFileInv ==
    ASSUME ReloadInv, LoadFile
    PROVE  ReloadInv'
<1> DEFINE g == Len(loaded)
<1>1. /\ watcher = "load" /\ watcher' = "swap_lb" /\ config_file \in ConfigId
      /\ loaded' = Append(loaded, config_file) /\ PluginsLoad(config_file)
      /\ probers' = probers \cup ProbersOf(g + 1, config_file)
      /\ UNCHANGED calls /\ UNCHANGED <<counter, registry, metrics>>
      /\ config_handle' = config_handle /\ lb_cache' = lb_cache /\ plugin_cache' = plugin_cache
      /\ config_file' = config_file /\ edited' = edited /\ sighup' = sighup
      /\ signals' = signals /\ ending' = ending
  BY DEF LoadFile, Loadable, ReloadInv, WatchInv, WatchTyped
<1>2. loaded \in Seq(ConfigId) /\ g \in Nat \ {0} /\ DOMAIN loaded = 1 .. g
  BY LoadedType DEF ReloadInv
<1>3. /\ loaded' \in Seq(ConfigId) /\ g' = g + 1 /\ loaded'[g + 1] = config_file
      /\ DOMAIN loaded' = 1 .. g + 1 /\ \A k \in 1 .. g : loaded'[k] = loaded[k]
  BY <1>1, <1>2
<1>4. g + 1 <= MaxLoads
  <2>1. g + (IF sighup THEN 1 ELSE 0) + 1 <= signals + 1
    BY <1>1 DEF ReloadInv, WatchInv, SignalInv
  <2>2. signals \in 0 .. MaxSignals /\ sighup \in BOOLEAN
    BY DEF ReloadInv, WatchInv, WatchTyped
  <2> HIDE DEF g
  <2> QED  BY <1>2, <2>1, <2>2, ReloadAssumption, EngineAssumption
<1>5. Grows
  BY <1>2, <1>3 DEF Grows
<1>6. TypeOK'
  <2>1. TypeOK
    BY DEF ReloadInv, EngineInv
  <2>2. Len(loaded') \in 1 .. MaxLoads
    BY <1>2, <1>3, <1>4, EngineAssumption
  <2>3. /\ config_handle' \in 1 .. Len(loaded') /\ lb_cache' \in 1 .. Len(loaded')
        /\ plugin_cache' \in 0 .. Len(loaded')
    BY <1>1, <1>2, <1>3, <2>1 DEF TypeOK
  <2> QED  BY <1>1, <1>3, <2>1, <2>2, <2>3, Zenon
           DEF TypeOK, calls, metrics, routing, attempt, clock, outside
<1>7. WatchTyped'
  BY <1>1, <1>2, <1>3 DEF ReloadInv, WatchInv, WatchTyped, Swapping
<1>8. LoadsInv'
  BY <1>1, <1>2, <1>3 DEF ReloadInv, WatchInv, LoadsInv, PluginsLoad
<1>9. SwapInv'
  <2>1. /\ lb_cache = g /\ plugin_cache = CacheOf(g) /\ config_handle = g
        /\ probers = ProbersOf(g, loaded[g])
    BY <1>1 DEF ReloadInv, WatchInv, SwapInv, Swapping
  <2>2. /\ g' - 1 = g /\ g' > 1 /\ loaded'[g'] = config_file /\ loaded'[g' - 1] = loaded[g]
    BY <1>2, <1>3
  <2> QED  BY <1>1, <1>3, <2>1, <2>2 DEF SwapInv, Swapping, CacheOf, StartPlugins
<1>10. SignalInv'
  <2>1. g + (IF sighup THEN 1 ELSE 0) + 1 <= signals + 1
    BY <1>1 DEF ReloadInv, WatchInv, SignalInv
  <2>2. signals \in Nat /\ sighup \in BOOLEAN
    BY ReloadAssumption DEF ReloadInv, WatchInv, WatchTyped
  <2>3. g' + (IF sighup' THEN 1 ELSE 0) + (IF watcher' = "load" THEN 1 ELSE 0) <= signals' + 1
    <3>1. g' = g + 1 /\ g \in Nat
      BY <1>2, <1>3
    <3> HIDE DEF g
    <3> QED  BY <1>1, <2>1, <2>2, <3>1
  <2> QED  BY <2>3 DEF SignalInv
<1>11. HonourInv'
  BY <1>1, <1>3 DEF HonourInv
<1>12. config_handle <= config_handle'
  BY <1>1, LoadedType DEF ReloadInv
<1> QED  BY <1>1, <1>5, <1>6, <1>7, <1>8, <1>9, <1>10, <1>11, <1>12, StayingReloadInv
         DEF WatchInv

LEMMA ProbersInv ==
    ASSUME ReloadInv, Probers
    PROVE  ReloadInv'
<1>1. /\ \A p \in probers : p[2] \in Addr
      /\ \A p \in ending : p[2] \in Addr
  BY ProbersType DEF ReloadInv, WatchInv, WatchTyped
<1>2. ASSUME NEW a \in Addr, NEW healthy \in BOOLEAN, SetHealth(a, healthy), WatchInv'
      PROVE  ReloadInv'
  <2>1. UNCHANGED calls /\ loaded' = loaded /\ config_handle' = config_handle
    BY <1>2 DEF SetHealth, calls, caches
  <2>2. TypeOK'
    BY <1>2, SetHealthInv DEF ReloadInv, EngineInv
  <2>3. config_handle <= config_handle' /\ Grows
    BY <2>1, LoadedType DEF ReloadInv, Grows
  <2> QED  BY <1>2, <2>1, <2>2, <2>3, StayingReloadInv
<1>3. ASSUME ending' \subseteq ending, loaded' = loaded, config_handle' = config_handle,
             lb_cache' = lb_cache, plugin_cache' = plugin_cache,
             UNCHANGED <<config_file, edited, sighup, signals, watcher, probers>>
      PROVE  WatchInv'
  <2>1. WatchTyped' /\ LoadsInv' /\ SignalInv' /\ HonourInv'
    BY <1>3 DEF ReloadInv, WatchInv, WatchTyped, LoadsInv, SignalInv, HonourInv, Loadable
  <2>2. SwapInv'
    BY <1>3 DEF ReloadInv, WatchInv, SwapInv
  <2> QED  BY <2>1, <2>2 DEF WatchInv
<1>4. ASSUME NEW p \in probers, NEW healthy \in BOOLEAN, ProbeResult(p, healthy) PROVE ReloadInv'
  <2>1. WatchInv'
    BY <1>3, <1>4 DEF ProbeResult, SetHealth, caches, watchVars
  <2> QED  BY <1>1, <1>2, <1>4, <2>1 DEF ProbeResult
<1>5. ASSUME NEW p \in ending, NEW healthy \in BOOLEAN, LastResult(p, healthy) PROVE ReloadInv'
  <2>1. WatchInv'
    BY <1>3, <1>5 DEF LastResult, SetHealth, caches
  <2> QED  BY <1>1, <1>2, <1>5, <2>1 DEF LastResult
<1>6. ASSUME NEW p \in ending, ProberEnds(p) PROVE ReloadInv'
  <2>1. WatchInv'
    BY <1>3, <1>6 DEF ProberEnds, engineVars, caches
  <2> QED  BY <1>6, <2>1, QuietReloadInv DEF ProberEnds
<1> QED  BY <1>4, <1>5, <1>6 DEF Probers

LEMMA ReloadNextInv == ReloadInv /\ [ReloadNext]_vars => ReloadInv'
<1> SUFFICES ASSUME ReloadInv, [ReloadNext]_vars PROVE ReloadInv'
  OBVIOUS
<1>1. CASE (\E r \in Request : CallNext(r)) /\ UNCHANGED watchVars
  BY <1>1, CallReloadInv
<1>2. CASE Operator
  BY <1>2, OperatorInv
<1>3. CASE Watch
  BY <1>3, ReceiveOrRejectInv, LoadFileInv, SwapCacheInv, SwapHandlesInv DEF Watch
<1>4. CASE Probers
  BY <1>4, ProbersInv
<1>5. CASE UNCHANGED vars
  <2>1. UNCHANGED engineVars /\ UNCHANGED watchVars
    BY <1>5 DEF vars
  <2>2. WatchInv'
    BY <2>1, SameWatchInv DEF engineVars, caches, ReloadInv
  <2> QED  BY <2>1, <2>2, QuietReloadInv
<1> QED  BY <1>1, <1>2, <1>3, <1>4, <1>5 DEF ReloadNext

\* Calls, caches, probers and signals fit together, whatever is reloaded when.
THEOREM ReloadInvariant == ReloadSpec => []ReloadInv
BY InitReloadInv, ReloadNextInv, PTL DEF ReloadSpec

-----------------------------------------------------------------------------
(* The theorems *)

\* The shared state, the calls and the watcher keep their types across reloads.
THEOREM ReloadTypeCorrect == ReloadSpec => []ReloadTypeOK
<1>1. ReloadInv => ReloadTypeOK
  BY ProbersType DEF ReloadInv, EngineInv, WatchInv, WatchTyped, Swapping, ReloadTypeOK
<1> QED  BY <1>1, ReloadInvariant, PTL

\* What handle promises of a single generation it promises across reloads too:
\* no request is applied twice or loses its body, no attempt panics, and what
\* is refused has reached nobody.
THEOREM SafeAcrossReloads ==
    ReloadSpec => [](DeliveredOnce /\ NeverPanics /\ BodyForwarded /\ RefusedSendsNothing)
<1>1. ReloadInv => DeliveredOnce /\ NeverPanics /\ BodyForwarded /\ RefusedSendsNothing
  BY DEF ReloadInv, EngineInv, CallInv, SentOnce, BodyHeld, RefusedEarly, DeliveredOnce,
         NeverPanics, BodyForwarded, RefusedSendsNothing
<1> QED  BY <1>1, ReloadInvariant, PTL

\* No call balances over, or filters with, anything older than its route.
THEOREM NothingStale == ReloadSpec => []NeverStale
<1>1. ReloadInv => NeverStale
  BY DEF ReloadInv, CallsInv, StaleInv, NeverStale
<1> QED  BY <1>1, ReloadInvariant, PTL

\* While the watcher waits, caches and probers are those of the last load.
THEOREM OneGeneration == ReloadSpec => []Settled
<1>1. ReloadInv => Settled
  BY DEF ReloadInv, WatchInv, SwapInv, Swapping, CacheOf, Settled
<1> QED  BY <1>1, ReloadInvariant, PTL

\* Nothing of a file whose plugins do not load is ever swapped in.
THEOREM WholeOrNothing == ReloadSpec => []NeverHalfApplied
<1>1. ReloadInv => NeverHalfApplied
  <2> SUFFICES ASSUME ReloadInv, NEW g \in {config_handle, lb_cache, plugin_cache}, g > 1
               PROVE  PluginsLoad(loaded[g])
    BY DEF NeverHalfApplied
  <2>1. DOMAIN loaded = 1 .. Len(loaded) /\ Len(loaded) \in Nat \ {0}
    BY LoadedType DEF ReloadInv
  <2>2. g \in DOMAIN loaded
    BY <2>1 DEF ReloadInv, EngineInv, TypeOK
  <2> QED  BY <2>2 DEF ReloadInv, WatchInv, LoadsInv
<1> QED  BY <1>1, ReloadInvariant, PTL

\* The file of the last signal runs once the watcher has come to rest.
THEOREM NoSignalLost == ReloadSpec => []SignalHonoured
<1>1. ReloadInv => SignalHonoured
  BY DEF ReloadInv, WatchInv, SwapInv, HonourInv, SignalHonoured
<1> QED  BY <1>1, ReloadInvariant, PTL

\* Where the plugins of the start configuration load, a request goes unfiltered
\* only after a later configuration has dropped the plugin.
THEOREM FilterLostToReloadOnly ==
    ReloadSpec => [](PluginsLoad(StartConfig) => FilterLossExplained)
<1>1. ReloadInv => (PluginsLoad(StartConfig) => FilterLossExplained)
  BY DEF ReloadInv, CallsInv, LossInv, Lost, FilterLossExplained
<1> QED  BY <1>1, ReloadInvariant, PTL

\* Where every route has upstreams, a call is refused for want of one only
\* after a later configuration has dropped its route's name.
THEOREM UpstreamLostToReloadOnly == ReloadSpec => [](Supplied => UpstreamLossExplained)
<1>1. ReloadInv => (Supplied => UpstreamLossExplained)
  BY DEF ReloadInv, CallsInv, DropInv, Dropped, UpstreamLossExplained
<1> QED  BY <1>1, ReloadInvariant, PTL

\* The operator, the watcher and the probers touch no call.
LEMMA CallsStay ==
    ASSUME Operator \/ Watch \/ Probers \/ UNCHANGED vars
    PROVE  UNCHANGED calls
<1>1. CASE Operator \/ UNCHANGED vars
  BY <1>1 DEF Operator, EditFile, SendSignal, vars, engineVars, calls
<1>2. CASE Watch
  BY <1>2 DEF Watch, ReceiveSignal, RejectFile, LoadFile, SwapLb, SwapPlugins, SwapConfig,
              SwapHandles, swapFrame, engineVars, calls
<1>3. CASE Probers
  BY <1>3 DEF Probers, ProbeResult, LastResult, ProberEnds, SetHealth, engineVars, calls
<1> QED  BY <1>1, <1>2, <1>3

\* A request that has been sent is sent nowhere else, whatever is reloaded.
THEOREM NoRetryAcrossReloads == ReloadSpec => SentIsFinal
<1> DEFINE Final == \A r \in Request : delivered[r] # << >> =>
                        /\ pc'[r] \in {pc[r], "done", "dropped"}
                        /\ upstream'[r] = upstream[r]
<1>1. ReloadInv /\ [ReloadNext]_vars => [Final]_engineVars
  <2> SUFFICES ASSUME ReloadInv, [ReloadNext]_vars PROVE Final \/ UNCHANGED engineVars
    OBVIOUS
  <2>1. ASSUME NEW c \in Request, CallNext(c), NEW r \in Request, delivered[r] # << >>
        PROVE  pc'[r] \in {pc[r], "done", "dropped"} /\ upstream'[r] = upstream[r]
    BY <2>1, OthersStay, SentCallWaits DEF ReloadInv, EngineInv
  <2>2. CASE Operator \/ Watch \/ Probers \/ UNCHANGED vars
    BY <2>2, CallsStay DEF calls, attempt
  <2> QED  BY <2>1, <2>2 DEF ReloadNext
<1> QED  BY <1>1, ReloadInvariant, PTL DEF ReloadSpec, SentIsFinal

\* A call's promise does not depend on what is reloaded while it runs.
THEOREM DeliversAcrossReloads == ReloadSpec => Delivers
<1>1. ReloadInv /\ [ReloadNext]_vars => [Promise!DeliveryNext]_(Promise!deliveryVars)
  <2> SUFFICES ASSUME ReloadInv, [ReloadNext]_vars
               PROVE  [Promise!DeliveryNext]_(Promise!deliveryVars)
    OBVIOUS
  <2>1. CASE \E r \in Request : CallNext(r)
    BY <2>1, StepRefines DEF ReloadInv
  <2>2. CASE Operator \/ Watch \/ Probers \/ UNCHANGED vars
    <3>1. UNCHANGED <<pc, delivered, mirrored, status>>
      BY <2>2, CallsStay DEF calls, outside
    <3> QED  BY <3>1, StutterRefines
  <2> QED  BY <2>1, <2>2 DEF ReloadNext
<1>2. ReloadInit => Promise!DeliveryInit
  BY InitRefines DEF ReloadInit
<1> QED
  BY <1>1, <1>2, ReloadInvariant, PTL DEF ReloadSpec, Delivers, Promise!DeliverySpec

-----------------------------------------------------------------------------
(* Clocks and counters across reloads *)

\* A call without a route has not waited for anybody.
TimedInv == \A r \in Request : ClockInv(r) /\ (route[r] = NoRoute => elapsed[r] = 0)

LEMMA ReloadsGrow ==
    ASSUME ReloadInv, Operator \/ Watch \/ Probers \/ UNCHANGED vars
    PROVE  Grows /\ UNCHANGED metrics
<1>1. CASE LoadFile
  <2>1. loaded' = Append(loaded, config_file) /\ UNCHANGED metrics /\ config_file \in ConfigId
    BY <1>1 DEF LoadFile, Loadable, ReloadInv, WatchInv, WatchTyped
  <2>2. loaded \in Seq(ConfigId)
    BY LoadedType DEF ReloadInv
  <2> QED  BY <2>1, <2>2 DEF Grows
<1>2. CASE ~ LoadFile
  <2>1. loaded' = loaded /\ UNCHANGED metrics
    <3>1. CASE Operator \/ UNCHANGED vars
      BY <3>1 DEF Operator, EditFile, SendSignal, vars, engineVars, caches
    <3>2. CASE Watch
      BY <1>2, <3>2 DEF Watch, ReceiveSignal, RejectFile, SwapLb, SwapPlugins, SwapConfig,
                        SwapHandles, swapFrame, engineVars, caches
    <3>3. CASE Probers
      BY <3>3 DEF Probers, ProbeResult, LastResult, ProberEnds, SetHealth, engineVars, caches
    <3> QED  BY <3>1, <3>2, <3>3
  <2> QED  BY <2>1 DEF Grows
<1> QED  BY <1>1, <1>2

LEMMA StayingClockInv ==
    ASSUME EngineInv, NEW x \in Request, Grows, UNCHANGED calls, ClockInv(x),
           route[x] = NoRoute => elapsed[x] = 0
    PROVE  ClockInv(x)' /\ (route'[x] = NoRoute => elapsed'[x] = 0)
<1>1. /\ pc'[x] = pc[x] /\ req'[x] = req[x] /\ route'[x] = route[x] /\ tried'[x] = tried[x]
      /\ waited'[x] = waited[x] /\ elapsed'[x] = elapsed[x]
  BY DEF calls, routing, attempt, clock
<1>2. CASE route[x] # NoRoute
  <2> DEFINE limit == TotalTimeout(RouteOf(x))
             limits == EffectiveAttempts(x)
  <2>1. RouteOf(x)' = RouteOf(x)
    BY <1>1, <1>2, RouteStays
  <2>2. limit' = limit /\ limits' = limits
    BY <1>1, <2>1 DEF TotalTimeout, EffectiveAttempts, CanRetry, Replayable, MaxAttempts
  <2> HIDE DEF limit, limits
  <2> QED  BY <1>1, <1>2, <2>2 DEF ClockInv, limit, limits
<1>3. CASE route[x] = NoRoute
  <2>1. pc[x] \notin Choosing \cup Waiting
    BY <1>3 DEF EngineInv, CallInv, RouteKnown, Routed, Choosing, Waiting
  <2>2. elapsed[x] = 0 /\ ~ (elapsed[x] > 0)
    BY <1>3
  <2> QED  BY <1>1, <1>3, <2>1, <2>2 DEF ClockInv
<1> QED  BY <1>2, <1>3

LEMMA TimedNext == ReloadInv /\ ReloadInv' /\ TimedInv /\ [ReloadNext]_vars => TimedInv'
<1> SUFFICES ASSUME ReloadInv, ReloadInv', TimedInv, [ReloadNext]_vars, NEW x \in Request
             PROVE  ClockInv(x)' /\ (route'[x] = NoRoute => elapsed'[x] = 0)
  BY DEF TimedInv
<1>1. EngineInv /\ TypeOK' /\ ClockTyped /\ ClockInv(x) /\ (route[x] = NoRoute => elapsed[x] = 0)
  BY DEF ReloadInv, EngineInv, TypeOK, ClockTyped, TimedInv
<1>2. ASSUME NEW r \in Request, CallNext(r)
      PROVE  ClockInv(x)' /\ (route'[x] = NoRoute => elapsed'[x] = 0)
  <2>1. loaded' = loaded
    BY <1>2, CachesStay
  <2>2. CASE x = r
    <3>1. ClockStep(x)
      BY <1>1, <1>2, <2>2, CallIsClockStep
    <3>2. ClockInv(x)'
      BY <1>1, <2>1, <3>1, ClockStepInv
    <3>3. route'[x] = NoRoute => elapsed'[x] = 0
      <4>1. CASE Routes(x)
        BY <1>1, <4>1 DEF Routes, ClockInv, Early
      <4>2. CASE Kept(x)
        BY <1>1, <4>2 DEF Kept
      <4>3. CASE Ticks(x)
        BY <1>1, <4>3 DEF Ticks, Waiting, EngineInv, CallInv, RouteKnown, Routed
      <4> QED  BY <3>1, <4>1, <4>2, <4>3 DEF ClockStep, Stays, Enters, Starts, Retries, Finishes
    <3> QED  BY <3>2, <3>3
  <2>3. CASE x # r
    <3>1. SameClock(x)
      BY <1>1, <1>2, <2>3, OthersSameClock
    <3> QED  BY <1>1, <2>1, <3>1, SameClockInv DEF SameClock
  <2> QED  BY <2>2, <2>3
<1>3. CASE Operator \/ Watch \/ Probers \/ UNCHANGED vars
  BY <1>1, <1>3, CallsStay, ReloadsGrow, StayingClockInv
<1> QED  BY <1>2, <1>3 DEF ReloadNext

\* A reload gives no call another timeout or another attempt: each keeps the
\* route it selected, and with it the bound on its client's wait.
THEOREM WaitBoundedAcrossReloads == ReloadSpec => []DeadlineBound
<1>1. ReloadInit => TimedInv
  BY BoundsInit DEF ReloadInit, Init, TimedInv, BoundsInv
<1>2. TimedInv => DeadlineBound
  BY DEF TimedInv, ClockInv, DeadlineBound
<1> QED  BY <1>1, <1>2, TimedNext, ReloadInvariant, PTL DEF ReloadSpec

\* The metrics outlive reloads and count the calls of every generation.
THEOREM MetricsAcrossReloads == ReloadSpec => []MetricsAccount
<1>1. ReloadInit => MetricsInv
  BY MetricsInitInv DEF ReloadInit
<1>2. ReloadInv /\ MetricsInv /\ [ReloadNext]_vars => MetricsInv'
  <2> SUFFICES ASSUME ReloadInv, MetricsInv, [ReloadNext]_vars PROVE MetricsInv'
    OBVIOUS
  <2>1. CASE \E r \in Request : CallNext(r)
    BY <2>1, CallIsMetricsStep, MetricsStepInv DEF ReloadInv
  <2>2. CASE Operator \/ Watch \/ Probers \/ UNCHANGED vars
    <3>1. UNCHANGED <<pc, status, tried, metrics>>
      BY <2>2, CallsStay, ReloadsGrow DEF calls, attempt
    <3> QED  BY <3>1, SameCounts
  <2> QED  BY <2>1, <2>2 DEF ReloadNext
<1>3. MetricsInv => MetricsAccount
  BY DEF MetricsInv
<1> QED  BY <1>1, <1>2, <1>3, ReloadInvariant, PTL DEF ReloadSpec

=============================================================================
