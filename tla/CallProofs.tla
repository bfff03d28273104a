----------------------------- MODULE CallProofs -----------------------------
(***************************************************************************)
(* Proofs about what clients and operators see of ProxyEngine's calls: how *)
(* long one can keep its client waiting, that no request passes a plugin   *)
(* by or reaches another route's upstreams, that the metrics count what    *)
(* happened, and what next_healthy chooses while health holds still.       *)
(***************************************************************************)
EXTENDS ProxyEngineProofs

Early == {"idle", "arrived", "lookup", "filter"}
Choosing == {"pick", "prefer", "any"}
Waiting == {"connect", "sent"}

\* Attempts that are over took a timeout each at most, and there are fewer of
\* them than the call may make.
ClockInv(r) ==
    LET limit == TotalTimeout(RouteOf(r))
    IN  /\ pc[r] \in Early => elapsed[r] = 0 /\ Len(tried[r]) = 0
        /\ pc[r] \in Choosing =>
              elapsed[r] <= Len(tried[r]) * limit /\ Len(tried[r]) < EffectiveAttempts(r)
        /\ pc[r] \in Waiting =>
              /\ waited[r] <= limit /\ elapsed[r] <= Len(tried[r]) * limit + waited[r]
              /\ Len(tried[r]) < EffectiveAttempts(r)
        /\ elapsed[r] > 0 => elapsed[r] <= EffectiveAttempts(r) * limit

\* The state a call's clock and filter depend on.
SameClock(x) ==
    /\ pc'[x] = pc[x] /\ req'[x] = req[x] /\ route'[x] = route[x] /\ plugin'[x] = plugin[x]
    /\ tried'[x] = tried[x] /\ waited'[x] = waited[x] /\ elapsed'[x] = elapsed[x]
    /\ delivered'[x] = delivered[x] /\ mirrored'[x] = mirrored[x]

ClockTyped ==
    /\ pc \in [Request -> Label] /\ req \in [Request -> Arrival]
    /\ route \in [Request -> [gen : Nat, index : Nat]] /\ plugin \in [Request -> 0 .. MaxLoads]
    /\ tried \in [Request -> Seq(Addr)] /\ upstream \in [Request -> Addr \cup {None}]
    /\ waited \in [Request -> Nat] /\ elapsed \in [Request -> Nat]
    /\ delivered \in [Request -> Seq(Addr)]
    /\ mirrored \in [Request -> {"no", "in_flight", "ended"}]

-----------------------------------------------------------------------------
(* What a step of one call does to the others, and to the caches *)

LEMMA OthersSameClock ==
    ASSUME ClockTyped, NEW r \in Request, CallNext(r), NEW x \in Request, x # r
    PROVE  SameClock(x)
<1> USE DEF Goto, Answer, metrics, caches, routing, attempt, clock, outside, scanFrame,
            attemptFrame, ClockTyped, SameClock
<1>1. CASE Receive(r) \/ Tick(r) \/ TimedOut(r) \/ ClientGone(r) \/ MirrorEnds(r)
  BY <1>1 DEF Receive, Tick, TimedOut, ClientGone, MirrorEnds
<1>2. CASE NotFound(r) \/ LookupPlugin(r) \/ Deny(r) \/ Admit(r) \/ NoUpstream(r)
  BY <1>2 DEF NotFound, LookupPlugin, Deny, Admit, NoUpstream
<1>3. CASE SelectRoute(r) \/ StartScan(r)
  BY <1>3 DEF SelectRoute, StartScan
<1>4. CASE Scanning(r)
  BY <1>4 DEF Scanning, TakeCandidate, SkipCandidate, SecondPass, FailOpen, BeginAttempt
<1>5. CASE Connected(r) \/ Responded(r)
  BY <1>5 DEF Connected, Responded
<1>6. CASE ConnectError(r) \/ TransportError(r) \/ SendError(r)
  BY <1>6 DEF ConnectError, TransportError, SendError, AttemptFails
<1> QED  BY <1>1, <1>2, <1>3, <1>4, <1>5, <1>6 DEF CallNext, Step, Upstreams

LEMMA CachesStay ==
    ASSUME NEW r \in Request, CallNext(r)
    PROVE  /\ loaded' = loaded /\ config_handle' = config_handle
           /\ lb_cache' = lb_cache /\ plugin_cache' = plugin_cache
<1> USE DEF caches, scanFrame, attemptFrame
<1>1. CASE Receive(r) \/ Tick(r) \/ TimedOut(r) \/ ClientGone(r) \/ MirrorEnds(r)
  BY <1>1, Zenon DEF Receive, Tick, TimedOut, ClientGone, MirrorEnds
<1>2. CASE NotFound(r) \/ LookupPlugin(r) \/ Deny(r) \/ Admit(r) \/ NoUpstream(r)
  BY <1>2, Zenon DEF NotFound, LookupPlugin, Deny, Admit, NoUpstream
<1>3. CASE SelectRoute(r) \/ StartScan(r)
  BY <1>3, Zenon DEF SelectRoute, StartScan
<1>4. CASE Scanning(r)
  BY <1>4, Zenon DEF Scanning, TakeCandidate, SkipCandidate, SecondPass, FailOpen
<1>5. CASE Connected(r) \/ Responded(r)
  BY <1>5, Zenon DEF Connected, Responded
<1>6. CASE ConnectError(r) \/ TransportError(r) \/ SendError(r)
  BY <1>6, Zenon DEF ConnectError, TransportError, SendError, AttemptFails
<1> QED  BY <1>1, <1>2, <1>3, <1>4, <1>5, <1>6, Zenon DEF CallNext, Step, Upstreams

-----------------------------------------------------------------------------
(* What a step of a call does to its own clock *)

Kept(r) == req'[r] = req[r] /\ route'[r] = route[r] /\ elapsed'[r] = elapsed[r]

Routes(r) == pc[r] = "arrived" /\ pc'[r] \in Early /\ UNCHANGED <<elapsed[r], tried[r]>>
Stays(r) == /\ Kept(r) /\ tried'[r] = tried[r] /\ waited'[r] = waited[r]
            /\ \/ pc[r] \in Early /\ pc'[r] \in Early
               \/ pc[r] \in Choosing /\ pc'[r] \in Choosing
               \/ pc[r] \in Waiting /\ pc'[r] \in Waiting
Enters(r) == Kept(r) /\ tried'[r] = tried[r] /\ pc[r] = "filter" /\ pc'[r] = "pick"
Starts(r) == /\ Kept(r) /\ tried'[r] = tried[r] /\ waited'[r] = 0
             /\ pc[r] \in Choosing /\ pc'[r] = "connect"
Retries(r) == /\ Kept(r) /\ AttemptsLeft(r) /\ tried'[r] = Append(tried[r], upstream[r])
              /\ pc[r] \in Waiting /\ pc'[r] = "pick" /\ upstream[r] \in Addr
Ticks(r) == /\ req'[r] = req[r] /\ route'[r] = route[r] /\ tried'[r] = tried[r]
            /\ pc[r] \in Waiting /\ pc'[r] = pc[r] /\ waited[r] < TotalTimeout(RouteOf(r))
            /\ waited'[r] = waited[r] + 1 /\ elapsed'[r] = elapsed[r] + 1
Finishes(r) == Kept(r) /\ pc'[r] \in Ended

ClockStep(r) ==
    Routes(r) \/ Stays(r) \/ Enters(r) \/ Starts(r) \/ Retries(r) \/ Ticks(r) \/ Finishes(r)

LEMMA CallIsClockStep ==
    ASSUME EngineInv, NEW r \in Request, CallNext(r)
    PROVE  ClockStep(r)
<1> USE DEF Goto, Answer, metrics, caches, routing, attempt, clock, outside, scanFrame,
            attemptFrame, Early, Choosing, Waiting, Ended, Kept
<1>1. ClockTyped
  BY DEF EngineInv, TypeOK, ClockTyped
<1> USE <1>1 DEF ClockTyped
<1>2. CASE Receive(r) \/ LookupPlugin(r) \/ StartScan(r) \/ Connected(r)
  <2>1. Stays(r)
    BY <1>2 DEF Receive, LookupPlugin, StartScan, Connected, Stays
  <2> QED  BY <2>1 DEF ClockStep
<1>3. CASE NotFound(r) \/ Deny(r) \/ NoUpstream(r) \/ Responded(r) \/ TimedOut(r) \/ ClientGone(r)
  <2>1. Finishes(r)
    BY <1>3 DEF NotFound, Deny, NoUpstream, Responded, TimedOut, ClientGone, Finishes
  <2> QED  BY <2>1 DEF ClockStep
<1>4. CASE SelectRoute(r)
  <2>1. Routes(r)
    BY <1>4 DEF SelectRoute, Routes
  <2> QED  BY <2>1 DEF ClockStep
<1>5. CASE Admit(r)
  <2>1. Enters(r)
    BY <1>5 DEF Admit, Enters
  <2> QED  BY <2>1 DEF ClockStep
<1>6. CASE TakeCandidate(r) \/ FailOpen(r)
  <2>1. Starts(r) \/ Finishes(r)
    BY <1>6 DEF TakeCandidate, FailOpen, BeginAttempt, Starts, Finishes
  <2> QED  BY <2>1 DEF ClockStep
<1>7. CASE SkipCandidate(r) \/ SecondPass(r)
  <2>1. Stays(r)
    BY <1>7 DEF SkipCandidate, SecondPass, Stays
  <2> QED  BY <2>1 DEF ClockStep
<1>8. CASE ConnectError(r) \/ TransportError(r) \/ SendError(r)
  <2>1. upstream[r] \in Addr
    BY <1>8 DEF ConnectError, TransportError, SendError, EngineInv, CallInv, AttemptKnown
  <2>2. Retries(r) \/ Finishes(r)
    BY <1>8, <2>1 DEF ConnectError, TransportError, SendError, AttemptFails, Retries, Finishes
  <2> QED  BY <2>2 DEF ClockStep
<1>9. CASE Tick(r)
  <2>1. Ticks(r)
    BY <1>9 DEF Tick, Ticks
  <2> QED  BY <2>1 DEF ClockStep
<1>10. CASE MirrorEnds(r)
  <2>1. Stays(r) \/ Finishes(r)
    BY <1>10 DEF MirrorEnds, Stays, Finishes, Label, Running
  <2> QED  BY <2>1 DEF ClockStep
<1> QED  BY <1>2, <1>3, <1>4, <1>5, <1>6, <1>7, <1>8, <1>9, <1>10
         DEF CallNext, Step, Upstreams, Scanning

-----------------------------------------------------------------------------
(* The clock *)

\* The limits of a call that has a route.
LEMMA CallLimits ==
    ASSUME EngineInv, NEW r \in Request, route[r] # NoRoute
    PROVE  TotalTimeout(RouteOf(r)) \in Nat /\ EffectiveAttempts(r) \in Nat \ {0}
<1> DEFINE rt == RouteOf(r)
<1>1. rt.retries \in Nat \cup {Unset} /\ rt.total \in Nat \cup {Unset}
  BY RouteType DEF RouteConfig
<1> HIDE DEF rt
<1>2. TotalTimeout(rt) \in Nat
  BY <1>1, EngineAssumption DEF TotalTimeout
<1>3. MaxAttempts(rt) \in Nat \ {0}
  BY <1>1 DEF MaxAttempts
<1> QED  BY <1>2, <1>3 DEF EffectiveAttempts, rt

\* A call keeps its limits while it keeps its route and its request.
LEMMA LimitsStay ==
    ASSUME NEW r \in Request, loaded' = loaded, req'[r] = req[r], route'[r] = route[r]
    PROVE  /\ TotalTimeout(RouteOf(r))' = TotalTimeout(RouteOf(r))
           /\ EffectiveAttempts(r)' = EffectiveAttempts(r)
           /\ RouteOf(r)' = RouteOf(r)
BY DEF TotalTimeout, RouteOf, EffectiveAttempts, CanRetry, Replayable, MaxAttempts

LEMMA OneMore ==
    ASSUME NEW m \in Nat, NEW limit \in Nat
    PROVE  (m + 1) * limit = m * limit + limit /\ m * limit \in Nat
OBVIOUS

LEMMA Products ==
    ASSUME NEW m \in Nat, NEW n \in Nat, NEW limit \in Nat, m <= n
    PROVE  m * limit <= n * limit
<1>1. PICK d \in Nat : n = m + d
  <2>1. n - m \in Nat /\ n = m + (n - m)
    OBVIOUS
  <2> QED  BY <2>1
<1>2. d * limit \in Nat /\ n * limit = m * limit + d * limit
  BY <1>1
<1> QED  BY <1>2

LEMMA ClockStepInv ==
    ASSUME EngineInv, NEW r \in Request, ClockInv(r), ClockStep(r), loaded' = loaded, TypeOK'
    PROVE  ClockInv(r)'
<1> DEFINE limit == TotalTimeout(RouteOf(r))
           limits == EffectiveAttempts(r)
           n == Len(tried[r])
<1>1. /\ pc[r] \in Label /\ pc'[r] \in Label /\ elapsed[r] \in Nat /\ waited[r] \in Nat
      /\ tried[r] \in Seq(Addr) /\ n \in Nat
  BY DEF EngineInv, TypeOK
<1>2. /\ pc[r] \in Early => elapsed[r] = 0 /\ n = 0
      /\ pc[r] \in Choosing => elapsed[r] <= n * limit /\ n < limits
      /\ pc[r] \in Waiting => /\ waited[r] <= limit /\ elapsed[r] <= n * limit + waited[r]
                              /\ n < limits
      /\ elapsed[r] > 0 => elapsed[r] <= limits * limit
  BY DEF ClockInv
<1>3. pc[r] \in {"filter"} \cup Choosing \cup Waiting => limit \in Nat /\ limits \in Nat \ {0}
  BY CallLimits DEF EngineInv, CallInv, RouteKnown, Routed, Choosing, Waiting
<1>4. Early \cap (Choosing \cup Waiting \cup Ended) = {} /\ Choosing \cap (Waiting \cup Ended) = {}
      /\ Waiting \cap Ended = {}
  BY DEF Early, Choosing, Waiting, Ended
<1>5. /\ "pick" \in Choosing /\ "connect" \in Waiting /\ "filter" \in Early
      /\ "pick" \notin Early \cup Waiting \cup Ended /\ "connect" \notin Early \cup Choosing \cup Ended
  BY DEF Early, Choosing, Waiting, Ended
<1>6. CASE Routes(r)
  <2>1. elapsed'[r] = 0 /\ tried'[r] = tried[r] /\ n = 0 /\ pc'[r] \in Early
    BY <1>2, <1>6 DEF Routes, Early
  <2> QED  BY <1>4, <2>1 DEF ClockInv
<1>7. ASSUME Kept(r) \/ Ticks(r) PROVE limit' = limit /\ limits' = limits
  BY <1>7, LimitsStay DEF Kept, Ticks
<1>8. CASE Finishes(r)
  <2>1. pc'[r] \in Ended /\ elapsed'[r] = elapsed[r] /\ limit' = limit /\ limits' = limits
    BY <1>7, <1>8 DEF Finishes, Kept
  <2> HIDE DEF limit, limits
  <2> QED  BY <1>2, <1>4, <2>1 DEF ClockInv, limit, limits
<1> HIDE DEF limit, limits
<1>9. CASE Stays(r)
  BY <1>2, <1>4, <1>7, <1>9 DEF Stays, Kept, ClockInv, limit, limits
<1>10. CASE Enters(r)
  <2>1. pc'[r] \in Choosing /\ elapsed'[r] = 0 /\ tried'[r] = tried[r] /\ n = 0
        /\ limit' = limit /\ limits' = limits
    BY <1>2, <1>5, <1>7, <1>10 DEF Enters, Kept
  <2>2. 0 * limit = 0 /\ 0 < limits
    BY <1>3, <1>10 DEF Enters
  <2> QED  BY <1>4, <2>1, <2>2 DEF ClockInv, limit, limits
<1>11. CASE Starts(r)
  <2>1. pc[r] \in Choosing /\ pc'[r] \in Waiting /\ elapsed'[r] = elapsed[r] /\ tried'[r] = tried[r]
        /\ waited'[r] = 0 /\ limit' = limit /\ limits' = limits
    BY <1>5, <1>7, <1>11 DEF Starts, Kept
  <2>2. limit \in Nat /\ n * limit \in Nat
    BY <1>1, <1>3, <2>1, OneMore
  <2>3. elapsed[r] <= n * limit + 0 /\ 0 <= limit
    BY <1>1, <1>2, <2>1, <2>2
  <2> QED  BY <1>2, <1>4, <2>1, <2>3 DEF ClockInv, limit, limits
<1>12. CASE Retries(r)
  <2>1. pc[r] \in Waiting /\ pc'[r] \in Choosing /\ elapsed'[r] = elapsed[r]
        /\ limit' = limit /\ limits' = limits /\ tried'[r] = Append(tried[r], upstream[r])
    BY <1>5, <1>7, <1>12 DEF Retries, Kept
  <2>2. Len(tried'[r]) = n + 1 /\ n + 1 < limits
    BY <1>1, <1>12, <2>1 DEF Retries, AttemptsLeft, limits
  <2>3. elapsed[r] <= (n + 1) * limit
    <3>1. limit \in Nat /\ n * limit \in Nat /\ (n + 1) * limit = n * limit + limit
      BY <1>1, <1>3, <2>1, OneMore
    <3> HIDE DEF n
    <3> QED  BY <1>1, <1>2, <2>1, <3>1
  <2> QED  BY <1>2, <1>4, <2>1, <2>2, <2>3 DEF ClockInv, limit, limits
<1>13. CASE Ticks(r)
  <2>1. pc[r] \in Waiting /\ pc'[r] = pc[r] /\ elapsed'[r] = elapsed[r] + 1 /\ waited'[r] = waited[r] + 1
        /\ tried'[r] = tried[r] /\ limit' = limit /\ limits' = limits /\ waited[r] < limit
    BY <1>7, <1>13 DEF Ticks, limit
  <2>2. limit \in Nat /\ limits \in Nat /\ n < limits
    BY <1>2, <1>3, <2>1
  <2>3. n * limit \in Nat /\ (n + 1) * limit = n * limit + limit
    <3> HIDE DEF n
    <3> QED  BY <1>1, <2>2, OneMore
  <2>4. (n + 1) * limit <= limits * limit /\ limits * limit \in Nat
    <3> HIDE DEF n
    <3>1. n + 1 \in Nat /\ n + 1 <= limits
      BY <1>1, <2>2
    <3> QED  BY <2>2, <3>1, Products, OneMore
  <2>5. waited'[r] <= limit /\ elapsed'[r] <= n * limit + waited'[r]
    <3> HIDE DEF n
    <3> QED  BY <1>1, <1>2, <2>1, <2>2, <2>3
  <2>6. elapsed'[r] <= limits * limit
    <3> HIDE DEF n
    <3>1. elapsed[r] + 1 <= n * limit + limit
      BY <1>1, <1>2, <2>1, <2>2, <2>3
    <3> QED  BY <1>1, <2>1, <2>2, <2>3, <2>4, <3>1
  <2> QED  BY <1>4, <2>1, <2>2, <2>5, <2>6 DEF ClockInv, limit, limits
<1> QED  BY <1>6, <1>8, <1>9, <1>10, <1>11, <1>12, <1>13 DEF ClockStep

\* What leaves a call alone leaves its clock alone.
LEMMA SameClockInv ==
    ASSUME NEW x \in Request, ClockInv(x), SameClock(x), loaded' = loaded
    PROVE  ClockInv(x)'
<1> DEFINE limit == TotalTimeout(RouteOf(x))
           limits == EffectiveAttempts(x)
<1>1. limit' = limit /\ limits' = limits
  BY LimitsStay DEF SameClock
<1> HIDE DEF limit, limits
<1> QED  BY <1>1 DEF ClockInv, SameClock, limit, limits

-----------------------------------------------------------------------------
(* No request passes a plugin by *)

Guarded == {"filter"} \cup Choosing \cup Waiting

\* A call past the lookup, and one that sent anything, found its plugin.
FilterInv(r) ==
    pc[r] \in Guarded \/ delivered[r] # << >> \/ mirrored[r] # "no" =>
        (RouteOf(r).plugin # None => plugin[r] # 0)

\* Without reloads there is one generation; its plugins are cached if they load.
CacheInv ==
    /\ loaded = <<StartConfig>> /\ config_handle = 1
    /\ PluginsLoad(StartConfig) => plugin_cache = 1

Unrouted == {"idle", "arrived", "lookup"}
Outside(r) == /\ pc[r] \in Unrouted /\ pc'[r] \notin Guarded
              /\ delivered'[r] = delivered[r] /\ mirrored'[r] = mirrored[r]
Bypasses(r) == pc[r] = "arrived" /\ pc'[r] = "filter" /\ RouteOf(r)'.plugin = None
LooksUp(r) == /\ pc[r] = "lookup" /\ plugin'[r] = FoundPlugin(r)
              /\ route'[r] = route[r] /\ req'[r] = req[r]
Carries(r) == /\ pc[r] \in Guarded \/ mirrored[r] # "no"
              /\ route'[r] = route[r] /\ plugin'[r] = plugin[r]

LEMMA CallIsFilterStep ==
    ASSUME EngineInv, NEW r \in Request, CallNext(r)
    PROVE  Outside(r) \/ Bypasses(r) \/ LooksUp(r) \/ Carries(r)
<1> USE DEF Goto, Answer, metrics, caches, routing, attempt, clock, outside, scanFrame,
            attemptFrame, Choosing, Waiting, Guarded, Unrouted
<1>1. ClockTyped
  BY DEF EngineInv, TypeOK, ClockTyped
<1> USE <1>1 DEF ClockTyped
<1>2. CASE Receive(r) \/ NotFound(r)
  BY <1>2 DEF Receive, NotFound, Outside
<1>3. CASE SelectRoute(r)
  <2> DEFINE routes == Config[loaded[config_handle]]
  <2>1. PICK k \in DOMAIN routes :
          /\ route' = [route EXCEPT ![r] = [gen |-> config_handle, index |-> k]]
          /\ pc' = [pc EXCEPT ![r] = IF routes[k].plugin = None THEN "filter" ELSE "lookup"]
    BY <1>3 DEF SelectRoute
  <2>2. /\ route'[r] = [gen |-> config_handle, index |-> k] /\ loaded' = loaded /\ pc[r] = "arrived"
        /\ delivered'[r] = delivered[r] /\ mirrored'[r] = mirrored[r]
    BY <1>3, <2>1 DEF SelectRoute
  <2>3. RouteOf(r)' = routes[k]
    BY <2>2 DEF RouteOf
  <2>4. CASE routes[k].plugin = None
    BY <2>1, <2>2, <2>3, <2>4 DEF Bypasses
  <2>5. CASE routes[k].plugin # None
    BY <2>1, <2>2, <2>5 DEF Outside
  <2> QED  BY <2>4, <2>5
<1>4. CASE LookupPlugin(r)
  BY <1>4 DEF LookupPlugin, LooksUp
<1>5. CASE Deny(r) \/ Admit(r) \/ NoUpstream(r) \/ StartScan(r)
  BY <1>5 DEF Deny, Admit, NoUpstream, StartScan, Carries
<1>6. CASE Scanning(r)
  BY <1>6 DEF Scanning, TakeCandidate, SkipCandidate, SecondPass, FailOpen, Carries
<1>7. CASE Upstreams(r)
  BY <1>7 DEF Upstreams, Connected, Responded, ConnectError, TransportError, SendError,
              AttemptFails, Carries
<1>8. CASE Tick(r) \/ TimedOut(r) \/ MirrorEnds(r)
  BY <1>8 DEF Tick, TimedOut, MirrorEnds, Carries
<1>9. CASE ClientGone(r)
  BY <1>9 DEF ClientGone, Running, Carries, Outside
<1> QED  BY <1>2, <1>3, <1>4, <1>5, <1>6, <1>7, <1>8, <1>9 DEF CallNext, Step

\* The cache of plugins holds those of every route, so a lookup finds its own.
LEMMA LookupFinds ==
    ASSUME EngineInv, CacheInv, PluginsLoad(StartConfig), NEW r \in Request,
           pc[r] = "lookup", RouteOf(r).plugin # None
    PROVE  FoundPlugin(r) # 0
<1>1. /\ route[r].gen \in DOMAIN loaded
      /\ route[r].index \in DOMAIN Config[loaded[route[r].gen]]
  BY DEF EngineInv, CallInv, RouteKnown, Routed
<1>2. loaded[route[r].gen] = StartConfig /\ loaded[plugin_cache] = StartConfig
      /\ plugin_cache = 1
  BY <1>1 DEF CacheInv
<1>3. RouteOf(r).plugin \in PluginsOf(StartConfig)
  BY <1>1, <1>2 DEF RouteOf, PluginsOf
<1> QED  BY <1>2, <1>3 DEF FoundPlugin

LEMMA FilterStepInv ==
    ASSUME EngineInv, CacheInv, PluginsLoad(StartConfig), NEW r \in Request,
           FilterInv(r), CallNext(r)
    PROVE  FilterInv(r)'
<1>1. loaded' = loaded
  BY CachesStay
<1>2. CASE Outside(r)
  <2>1. delivered[r] = << >> /\ mirrored[r] = "no"
    BY <1>2 DEF Outside, Unrouted, EngineInv, CallInv, SentOnce, RefusedEarly, BeforeSend,
                BeforeAttempt, BeforeAdmission
  <2> QED  BY <1>2, <2>1 DEF Outside, FilterInv
<1>3. CASE Bypasses(r)
  BY <1>3 DEF Bypasses, FilterInv
<1>4. CASE LooksUp(r)
  <2>1. RouteOf(r)' = RouteOf(r)
    BY <1>1, <1>4 DEF LooksUp, RouteOf
  <2> QED  BY <1>4, <2>1, LookupFinds DEF LooksUp, FilterInv
<1>5. CASE Carries(r)
  <2>1. RouteOf(r)' = RouteOf(r)
    BY <1>1, <1>5 DEF Carries, RouteOf
  <2> QED  BY <1>5, <2>1 DEF Carries, FilterInv
<1> QED  BY <1>2, <1>3, <1>4, <1>5, CallIsFilterStep

LEMMA SameFilterInv ==
    ASSUME NEW x \in Request, FilterInv(x), SameClock(x), loaded' = loaded
    PROVE  FilterInv(x)'
<1>1. RouteOf(x)' = RouteOf(x)
  BY DEF SameClock, RouteOf
<1> QED  BY <1>1 DEF SameClock, FilterInv

-----------------------------------------------------------------------------
(* Both invariants, step by step *)

BoundsInv ==
    /\ CacheInv
    /\ \A r \in Request : ClockInv(r)
    /\ PluginsLoad(StartConfig) => \A r \in Request : FilterInv(r)

LEMMA BoundsInit == Init => BoundsInv
<1> SUFFICES ASSUME Init PROVE BoundsInv
  OBVIOUS
<1>1. CacheInv
  BY DEF Init, CacheInv, StartPlugins
<1>2. ASSUME NEW r \in Request PROVE ClockInv(r)
  <2>1. pc[r] = "idle" /\ elapsed[r] = 0 /\ tried[r] = << >>
    BY DEF Init
  <2> QED  BY <2>1 DEF ClockInv, Early, Choosing, Waiting
<1>3. ASSUME NEW r \in Request PROVE FilterInv(r)
  <2>1. pc[r] = "idle" /\ delivered[r] = << >> /\ mirrored[r] = "no"
    BY DEF Init
  <2> QED  BY <2>1 DEF FilterInv, Guarded, Choosing, Waiting
<1> QED  BY <1>1, <1>2, <1>3 DEF BoundsInv

\* A step that leaves every call's clock and the caches alone.
LEMMA AloneInv ==
    ASSUME BoundsInv, loaded' = loaded, config_handle' = config_handle,
           plugin_cache' = plugin_cache, \A x \in Request : SameClock(x)
    PROVE  BoundsInv'
<1>1. CacheInv'
  BY DEF BoundsInv, CacheInv
<1>2. ASSUME NEW x \in Request PROVE ClockInv(x)'
  BY SameClockInv DEF BoundsInv
<1>3. ASSUME PluginsLoad(StartConfig), NEW x \in Request PROVE FilterInv(x)'
  BY <1>3, SameFilterInv DEF BoundsInv
<1> QED  BY <1>1, <1>2, <1>3 DEF BoundsInv

LEMMA BoundsNext == EngineInv /\ EngineInv' /\ BoundsInv /\ [EngineNext]_engineVars => BoundsInv'
<1> SUFFICES ASSUME EngineInv, EngineInv', BoundsInv, [EngineNext]_engineVars
             PROVE  BoundsInv'
  OBVIOUS
<1>1. ASSUME NEW r \in Request, CallNext(r) PROVE BoundsInv'
  <2>1. loaded' = loaded /\ config_handle' = config_handle /\ plugin_cache' = plugin_cache
    BY <1>1, CachesStay
  <2>2. CacheInv'
    BY <2>1 DEF BoundsInv, CacheInv
  <2>3. ASSUME NEW x \in Request, x # r PROVE SameClock(x)
    <3>1. ClockTyped
      BY DEF EngineInv, TypeOK, ClockTyped
    <3> QED  BY <1>1, <2>3, <3>1, OthersSameClock
  <2>4. ClockInv(r)'
    <3>1. ClockStep(r)
      BY <1>1, CallIsClockStep
    <3>2. TypeOK' /\ ClockInv(r)
      BY DEF EngineInv, BoundsInv
    <3> QED  BY <2>1, <3>1, <3>2, ClockStepInv
  <2>5. ASSUME NEW x \in Request PROVE ClockInv(x)'
    BY <2>1, <2>3, <2>4, SameClockInv DEF BoundsInv
  <2>6. ASSUME PluginsLoad(StartConfig), NEW x \in Request PROVE FilterInv(x)'
    BY <1>1, <2>1, <2>3, <2>6, SameFilterInv, FilterStepInv DEF BoundsInv
  <2> QED  BY <2>2, <2>5, <2>6 DEF BoundsInv
<1>2. CASE Probing
  <2>1. PICK a \in ProbedBy(StartConfig), healthy \in BOOLEAN : SetHealth(a, healthy)
    BY <1>2, Zenon DEF Probing
  <2>2. /\ loaded' = loaded /\ config_handle' = config_handle /\ plugin_cache' = plugin_cache
        /\ \A x \in Request : SameClock(x)
    BY <2>1 DEF SetHealth, caches, routing, attempt, clock, outside, SameClock
  <2> QED  BY <2>2, AloneInv
<1>3. CASE UNCHANGED engineVars
  <2>1. /\ loaded' = loaded /\ config_handle' = config_handle /\ plugin_cache' = plugin_cache
        /\ \A x \in Request : SameClock(x)
    BY <1>3 DEF engineVars, caches, routing, attempt, clock, outside, SameClock
  <2> QED  BY <2>1, AloneInv
<1> QED  BY <1>1, <1>2, <1>3 DEF EngineNext, Quiescent

LEMMA BoundsInvariant == Spec => []BoundsInv
BY BoundsInit, BoundsNext, EngineInvariant, PTL DEF Spec

-----------------------------------------------------------------------------
(* The theorems *)

\* However attempts fail, hang and are repeated, a client of handle waits for
\* upstreams at most one timeout per attempt the call may make.
THEOREM WaitBounded == Spec => []DeadlineBound
<1>1. BoundsInv => DeadlineBound
  BY DEF BoundsInv, ClockInv, DeadlineBound
<1> QED  BY <1>1, BoundsInvariant, PTL

\* Where the plugins of the start configuration load, nothing of a request on a
\* route with a plugin leaves the proxy before the plugin was found and asked.
THEOREM FilterNeverSkipped == Spec => [](PluginsLoad(StartConfig) => Filtered)
<1>1. BoundsInv => (PluginsLoad(StartConfig) => Filtered)
  BY DEF BoundsInv, FilterInv, Filtered
<1> QED  BY <1>1, BoundsInvariant, PTL

-----------------------------------------------------------------------------
(* No request is sent to another route's upstreams *)

\* No two routes share a name.
OwnNames ==
    \A j, k \in DOMAIN Config[StartConfig] :
        Config[StartConfig][j].name = Config[StartConfig][k].name => j = k

Own(r, a) == \E k \in DOMAIN RouteOf(r).upstream : RouteOf(r).upstream[k].addr = a
OwnInv(r) ==
    /\ pc[r] \in {"idle", "arrived"} => upstream[r] = None
    /\ upstream[r] # None => Own(r, upstream[r])

\* What a step does to a call's route and upstream.
Chooses(r) == /\ pc[r] \in {"prefer", "any"} /\ pc'[r] = "connect" /\ route'[r] = route[r]
              /\ \E i \in Nat : upstream'[r] = CandidateAt(r, i)
FirstRoute(r) == /\ pc[r] = "arrived" /\ pc'[r] \in {"lookup", "filter"}
                 /\ upstream'[r] = upstream[r]
SameRoute(r) == /\ route'[r] = route[r] /\ upstream'[r] = upstream[r]
                /\ pc'[r] \in {"idle", "arrived"} => pc[r] \in {"idle", "arrived"}

LEMMA CallIsOwnStep ==
    ASSUME EngineInv, NEW r \in Request, CallNext(r)
    PROVE  Chooses(r) \/ FirstRoute(r) \/ SameRoute(r)
<1> USE DEF Goto, Answer, metrics, caches, routing, attempt, clock, outside, scanFrame,
            attemptFrame
<1>1. ClockTyped /\ scan \in [Request -> [gen : Nat, start : Nat, i : Nat]]
  BY DEF EngineInv, TypeOK, ClockTyped
<1> USE <1>1 DEF ClockTyped
<1>2. CASE Receive(r) \/ NotFound(r) \/ LookupPlugin(r) \/ Deny(r) \/ Admit(r)
  BY <1>2 DEF Receive, NotFound, LookupPlugin, Deny, Admit, SameRoute
<1>3. CASE NoUpstream(r) \/ StartScan(r) \/ SkipCandidate(r) \/ SecondPass(r)
  BY <1>3 DEF NoUpstream, StartScan, SkipCandidate, SecondPass, SameRoute
<1>4. CASE SelectRoute(r)
  BY <1>4 DEF SelectRoute, FirstRoute
<1>5. ASSUME NEW i \in Nat, pc[r] \in {"prefer", "any"}, BeginAttempt(r, CandidateAt(r, i)),
             UNCHANGED scanFrame
      PROVE  Chooses(r) \/ SameRoute(r)
  BY <1>5 DEF BeginAttempt, Chooses, SameRoute
<1>6. CASE TakeCandidate(r) \/ FailOpen(r)
  BY <1>5, <1>6 DEF TakeCandidate, FailOpen
<1>7. CASE Upstreams(r)
  BY <1>7 DEF Upstreams, Connected, Responded, ConnectError, TransportError, SendError,
              AttemptFails, SameRoute
<1>8. CASE Tick(r) \/ TimedOut(r) \/ ClientGone(r) \/ MirrorEnds(r)
  BY <1>8 DEF Tick, TimedOut, ClientGone, MirrorEnds, SameRoute
<1> QED  BY <1>2, <1>3, <1>4, <1>6, <1>7, <1>8 DEF CallNext, Step, Scanning

\* The balancer found by a route's name is the route's own.
LEMMA CandidateOwn ==
    ASSUME EngineInv, CacheInv, OwnNames, NEW r \in Request,
           pc[r] \in {"prefer", "any"}, NEW i \in Nat
    PROVE  Own(r, CandidateAt(r, i))
<1> DEFINE n == RouteOf(r).name
           sched == ScanSched(r)
<1>1. /\ route[r] # NoRoute /\ route[r].gen \in DOMAIN loaded /\ scan[r].gen \in DOMAIN loaded
      /\ route[r].index \in DOMAIN Config[loaded[route[r].gen]] /\ Len(sched) > 0
  BY DEF EngineInv, CallInv, RouteKnown, ScanKnown, Routed
<1>2. loaded[route[r].gen] = StartConfig /\ loaded[scan[r].gen] = StartConfig
  BY <1>1 DEF CacheInv
<1>3. n \in RouteName
  BY <1>1, RouteType DEF RouteConfig
<1>4. Named(StartConfig, n) = {route[r].index}
  BY <1>1, <1>2 DEF Named, OwnNames, RouteOf
<1>5. route[r].index \in Nat
  BY <1>1, <1>2, ConfigType, EngineAssumption
<1>6. LbPools(StartConfig, n) = RouteOf(r).upstream
  <2> HIDE DEF n
  <2>1. (CHOOSE k \in Named(StartConfig, n) : \A j \in Named(StartConfig, n) : j <= k) = route[r].index
    BY <1>4, <1>5
  <2>2. LbPools(StartConfig, n) = Config[StartConfig][route[r].index].upstream
    BY <1>4, <2>1 DEF LbPools
  <2> QED  BY <1>2, <2>2 DEF RouteOf
<1>7. sched = LbSchedule[StartConfig][n] /\ sched \in Seq(Addr)
  BY <1>2, <1>3, SchedulesKnown, EngineAssumption DEF ScanSched, SchedOf
<1>8. PICK j \in 1 .. Len(sched) : CandidateAt(r, i) = sched[j]
  <2> DEFINE slot == (scan[r].start + i) % UsizeMod
  <2>1. scan[r].start \in Nat /\ UsizeMod \in Nat \ {0} /\ Len(sched) \in Nat
    <3>1. scan \in [Request -> [gen : Nat, start : Nat, i : Nat]]
      BY DEF EngineInv, TypeOK
    <3>2. UsizeMod \in Nat \ {0}
      BY EngineAssumption
    <3> HIDE DEF sched
    <3> QED  BY <1>7, <3>1, <3>2
  <2>2. slot \in Nat
    BY <2>1
  <2> HIDE DEF slot, sched
  <2>3. (slot % Len(sched)) + 1 \in 1 .. Len(sched)
    BY <1>1, <2>1, <2>2
  <2>4. CandidateAt(r, i) = sched[(slot % Len(sched)) + 1]
    BY DEF CandidateAt, Candidate, slot, sched
  <2> QED  BY <2>3, <2>4
<1>9. LET pools == LbPools(StartConfig, n)
      IN  \A k \in 1 .. Len(LbSchedule[StartConfig][n]) :
              \E m \in DOMAIN pools : pools[m].addr = LbSchedule[StartConfig][n][k]
  <2> HIDE DEF n
  <2> QED  BY <1>3, SchedulesKnown, EngineAssumption, Zenon
<1> HIDE DEF n, sched
<1> QED  BY <1>6, <1>7, <1>8, <1>9 DEF Own

LEMMA OwnStepInv ==
    ASSUME EngineInv, CacheInv, OwnNames, NEW r \in Request, OwnInv(r), CallNext(r)
    PROVE  OwnInv(r)'
<1>1. loaded' = loaded
  BY CachesStay
<1>2. ASSUME route'[r] = route[r] PROVE RouteOf(r)' = RouteOf(r)
  BY <1>1, <1>2 DEF RouteOf
<1>3. CASE Chooses(r)
  BY <1>2, <1>3, CandidateOwn DEF Chooses, OwnInv, Own
<1>4. CASE FirstRoute(r)
  BY <1>4 DEF FirstRoute, OwnInv
<1>5. CASE SameRoute(r)
  BY <1>2, <1>5 DEF SameRoute, OwnInv, Own
<1> QED  BY <1>3, <1>4, <1>5, CallIsOwnStep

LEMMA SameOwnInv ==
    ASSUME NEW x \in Request, OwnInv(x), loaded' = loaded,
           pc'[x] = pc[x] /\ route'[x] = route[x] /\ upstream'[x] = upstream[x]
    PROVE  OwnInv(x)'
<1>1. RouteOf(x)' = RouteOf(x)
  BY DEF RouteOf
<1> QED  BY <1>1 DEF OwnInv, Own

LEMMA OwnNext ==
    ASSUME EngineInv, CacheInv, OwnNames, \A x \in Request : OwnInv(x),
           [EngineNext]_engineVars
    PROVE  \A x \in Request : OwnInv(x)'
<1>1. ASSUME NEW r \in Request, CallNext(r), NEW x \in Request PROVE OwnInv(x)'
  <2>1. CASE x = r
    BY <1>1, <2>1, OwnStepInv
  <2>2. CASE x # r
    <3>1. SameClock(x) /\ upstream'[x] = upstream[x]
      BY <1>1, <2>2, OthersStay, OthersSameClock DEF EngineInv, TypeOK, ClockTyped
    <3> QED  BY <1>1, <3>1, CachesStay, SameOwnInv DEF SameClock
  <2> QED  BY <2>1, <2>2
<1>2. ASSUME UNCHANGED <<loaded, pc, route, upstream>>, NEW x \in Request PROVE OwnInv(x)'
  BY <1>2, SameOwnInv
<1>3. CASE Probing \/ UNCHANGED engineVars
  <2>1. UNCHANGED <<loaded, pc, route, upstream>>
    BY <1>3 DEF Probing, SetHealth, engineVars, caches, routing, attempt
  <2> QED  BY <1>2, <2>1
<1> QED  BY <1>1, <1>3 DEF EngineNext, Quiescent

\* Where no two routes share a name, a call tries upstreams of its own route
\* only, although it finds its balancer by name.
THEOREM NamesSuffice == Spec => [](OwnNames => RouteOwnUpstreams)
<1> DEFINE AllOwn == OwnNames => \A x \in Request : OwnInv(x)
<1>1. Init => AllOwn
  BY DEF Init, OwnInv
<1>2. EngineInv /\ BoundsInv /\ AllOwn /\ [EngineNext]_engineVars => AllOwn'
  BY OwnNext DEF BoundsInv, OwnNames
<1>3. AllOwn => (OwnNames => RouteOwnUpstreams)
  BY DEF OwnInv, Own, RouteOwnUpstreams
<1> HIDE DEF AllOwn
<1> QED  BY <1>1, <1>2, <1>3, EngineInvariant, BoundsInvariant, PTL DEF Spec

-----------------------------------------------------------------------------
(* The metrics: for any number of calls they count what clients saw.        *)
(* Request may be infinite: only finitely many calls have begun at any      *)
(* time, and that is part of the invariant.                                 *)

CountsFinite ==
    /\ IsFiniteSet(Begun) /\ IsFiniteSet(FailedAttempts)
    /\ IsFiniteSet(AnsweredWith("ok")) /\ IsFiniteSet(AnsweredWith("timeout"))

MetricsInv == MetricsAccount /\ CountsFinite

-----------------------------------------------------------------------------
(* What a step of a call does to the counts: nothing, or one element more in *)
(* one set and one more in its counter.                                      *)

Counted == {"ok", "timeout"}

\* The calls that are counted, except for what the step's own part says.
SameBegun(r) == \A x \in Request : pc'[x] = "idle" <=> pc[x] = "idle"
SameAnswers(r) == \A x \in Request, code \in Counted : status'[x] = code <=> status[x] = code
SameTried(r) == tried' = tried

Quiet(r) == SameBegun(r) /\ SameAnswers(r) /\ SameTried(r) /\ UNCHANGED metrics

Begins(r) ==
    /\ pc[r] = "idle" /\ SameAnswers(r) /\ SameTried(r)
    /\ \A x \in Request : pc'[x] = "idle" <=> pc[x] = "idle" /\ x # r
    /\ http_requests_total' = http_requests_total + 1
    /\ UNCHANGED <<http_request_duration_seconds, upstream_connection_errors>>

\* The client is answered with a response, or after a timeout.
Answers(r, c) ==
    /\ status[r] = "none" /\ SameBegun(r) /\ SameTried(r)
    /\ \A x \in Request, code \in Counted :
           status'[x] = code <=> status[x] = code \/ (x = r /\ code = c)

Fails(r) ==
    /\ SameBegun(r) /\ SameAnswers(r)
    /\ tried' = [tried EXCEPT ![r] = Append(tried[r], upstream[r])]
    /\ CountError

MetricsStep(r) ==
    \/ Quiet(r) \/ Begins(r) \/ Fails(r)
    \/ /\ Answers(r, "ok")
       /\ http_request_duration_seconds' = http_request_duration_seconds + 1
       /\ UNCHANGED <<http_requests_total, upstream_connection_errors>>
    \/ Answers(r, "timeout") /\ CountError

LEMMA CallIsMetricsStep ==
    ASSUME EngineInv, NEW r \in Request, CallNext(r)
    PROVE  MetricsStep(r)
<1> USE DEF Goto, Answer, metrics, caches, routing, attempt, clock, outside, scanFrame,
            attemptFrame, SameBegun, SameAnswers, SameTried, Counted
<1>1. /\ pc \in [Request -> Label] /\ status \in [Request -> Code]
      /\ tried \in [Request -> Seq(Addr)]
      /\ pc[r] # "done" => status[r] = "none"
  BY DEF EngineInv, TypeOK, CallInv, RefusedEarly
<1>2. CASE Receive(r)
  <2>1. Begins(r)
    BY <1>1, <1>2 DEF Receive, Begins
  <2> QED  BY <2>1 DEF MetricsStep
<1>3. CASE NotFound(r) \/ Deny(r) \/ NoUpstream(r) \/ ClientGone(r) \/ MirrorEnds(r)
  <2>1. Quiet(r)
    BY <1>1, <1>3 DEF NotFound, Deny, NoUpstream, ClientGone, MirrorEnds, Running, Quiet
  <2> QED  BY <2>1 DEF MetricsStep
<1>4. CASE SelectRoute(r) \/ LookupPlugin(r) \/ Admit(r) \/ StartScan(r) \/ Tick(r) \/ Connected(r)
  <2>1. Quiet(r)
    BY <1>1, <1>4 DEF SelectRoute, LookupPlugin, Admit, StartScan, Tick, Connected, Quiet
  <2> QED  BY <2>1 DEF MetricsStep
<1>5. CASE Scanning(r)
  <2>1. Quiet(r)
    BY <1>1, <1>5
       DEF Scanning, TakeCandidate, SkipCandidate, SecondPass, FailOpen, BeginAttempt, Quiet
  <2> QED  BY <2>1 DEF MetricsStep
<1>6. CASE Responded(r)
  <2>1. Answers(r, "ok")
    BY <1>1, <1>6 DEF Responded, Answers
  <2> QED  BY <1>6, <2>1 DEF MetricsStep, Responded
<1>7. CASE TimedOut(r)
  <2>1. Answers(r, "timeout")
    BY <1>1, <1>7 DEF TimedOut, Answers
  <2> QED  BY <1>7, <2>1 DEF MetricsStep, TimedOut
<1>8. CASE ConnectError(r) \/ TransportError(r) \/ SendError(r)
  <2>1. Fails(r)
    BY <1>1, <1>8 DEF ConnectError, TransportError, SendError, AttemptFails, Fails
  <2> QED  BY <2>1 DEF MetricsStep
<1> QED
  BY <1>2, <1>3, <1>4, <1>5, <1>6, <1>7, <1>8 DEF CallNext, Step, Upstreams

-----------------------------------------------------------------------------
(* The invariant is inductive *)

LEMMA SetsStay ==
    ASSUME NEW r \in Request
    PROVE  /\ SameBegun(r) => Begun' = Begun
           /\ SameTried(r) => FailedAttempts' = FailedAttempts
           /\ SameAnswers(r) => \A code \in Counted : AnsweredWith(code)' = AnsweredWith(code)
<1>1. SameBegun(r) => Begun' = Begun
  BY DEF SameBegun, Begun
<1>2. SameTried(r) => FailedAttempts' = FailedAttempts
  BY DEF SameTried, FailedAttempts
<1>3. SameAnswers(r) => \A code \in Counted : AnsweredWith(code)' = AnsweredWith(code)
  BY DEF SameAnswers, AnsweredWith
<1> QED  BY <1>1, <1>2, <1>3

LEMMA OneMoreMember ==
    ASSUME NEW S, NEW e, IsFiniteSet(S), e \notin S
    PROVE  IsFiniteSet(S \cup {e}) /\ Cardinality(S \cup {e}) = Cardinality(S) + 1
BY FS_AddElement

\* A failed attempt is one pair more.
LEMMA FailureAdds ==
    ASSUME EngineInv, NEW r \in Request, Fails(r)
    PROVE  LET e == <<r, Len(tried[r]) + 1>>
           IN  FailedAttempts' = FailedAttempts \cup {e} /\ e \notin FailedAttempts
<1> DEFINE n == Len(tried[r])
           e == <<r, n + 1>>
<1>1. tried \in [Request -> Seq(Addr)]
  BY DEF EngineInv, TypeOK
<1>2. tried' = [tried EXCEPT ![r] = Append(tried[r], upstream[r])]
  BY DEF Fails
<1>3. n \in Nat /\ DOMAIN tried[r] = 1 .. n /\ DOMAIN tried'[r] = 1 .. (n + 1)
  BY <1>1, <1>2
<1>4. \A x \in Request \ {r} : tried'[x] = tried[x]
  BY <1>1, <1>2
<1>5. DOMAIN tried'[r] = DOMAIN tried[r] \cup {n + 1} /\ n + 1 \notin DOMAIN tried[r]
  BY <1>3
<1> HIDE DEF n
<1>6. \A p : p \in FailedAttempts <=> \E x \in Request : p \in {x} \X DOMAIN tried[x]
  BY DEF FailedAttempts
<1>7. \A p : p \in FailedAttempts' <=> \E x \in Request : p \in {x} \X DOMAIN tried'[x]
  BY DEF FailedAttempts
<1>8. \A p : p \in FailedAttempts' <=> p \in FailedAttempts \/ p = e
  BY <1>4, <1>5, <1>6, <1>7
<1>9. e \notin FailedAttempts
  BY <1>5, <1>6
<1> QED  BY <1>8, <1>9 DEF n

LEMMA MetricsStepInv ==
    ASSUME EngineInv, MetricsInv, NEW r \in Request, MetricsStep(r)
    PROVE  MetricsInv'
<1>1. /\ http_requests_total \in Nat /\ http_request_duration_seconds \in Nat
      /\ upstream_connection_errors \in Nat
  BY DEF EngineInv, TypeOK
<1>2. /\ Cardinality(Begun) \in Nat /\ Cardinality(FailedAttempts) \in Nat
      /\ Cardinality(AnsweredWith("ok")) \in Nat /\ Cardinality(AnsweredWith("timeout")) \in Nat
  BY FS_CardinalityType DEF MetricsInv, CountsFinite
<1>3. "ok" \in Counted /\ "timeout" \in Counted
  BY DEF Counted
<1> USE DEF MetricsInv, MetricsAccount, CountsFinite
<1>4. CASE Quiet(r)
  <2>1. /\ Begun' = Begun /\ FailedAttempts' = FailedAttempts
        /\ AnsweredWith("ok")' = AnsweredWith("ok")
        /\ AnsweredWith("timeout")' = AnsweredWith("timeout")
    BY <1>3, <1>4, SetsStay DEF Quiet
  <2> QED  BY <1>4, <2>1 DEF Quiet, metrics
<1>5. CASE Begins(r)
  <2>1. Begun' = Begun \cup {r} /\ r \notin Begun
    BY <1>5 DEF Begins, Begun
  <2>2. /\ FailedAttempts' = FailedAttempts
        /\ AnsweredWith("ok")' = AnsweredWith("ok")
        /\ AnsweredWith("timeout")' = AnsweredWith("timeout")
    BY <1>3, <1>5, SetsStay DEF Begins
  <2>3. IsFiniteSet(Begun') /\ Cardinality(Begun') = Cardinality(Begun) + 1
    BY <2>1, OneMoreMember
  <2> QED  BY <1>5, <2>2, <2>3 DEF Begins
<1>6. CASE Fails(r)
  <2>1. /\ Begun' = Begun
        /\ AnsweredWith("ok")' = AnsweredWith("ok")
        /\ AnsweredWith("timeout")' = AnsweredWith("timeout")
    BY <1>3, <1>6, SetsStay DEF Fails
  <2>2. IsFiniteSet(FailedAttempts') /\ Cardinality(FailedAttempts') = Cardinality(FailedAttempts) + 1
    <3> DEFINE e == <<r, Len(tried[r]) + 1>>
    <3>1. FailedAttempts' = FailedAttempts \cup {e} /\ e \notin FailedAttempts
      BY <1>6, FailureAdds
    <3> HIDE DEF e
    <3> QED  BY <3>1, OneMoreMember
  <2> QED  BY <1>1, <1>2, <1>6, <2>1, <2>2 DEF Fails, CountError
<1>7. ASSUME NEW c \in Counted, Answers(r, c)
      PROVE  /\ Begun' = Begun /\ FailedAttempts' = FailedAttempts
             /\ AnsweredWith(c)' = AnsweredWith(c) \cup {r} /\ r \notin AnsweredWith(c)
             /\ \A d \in Counted \ {c} : AnsweredWith(d)' = AnsweredWith(d)
  <2>1. Begun' = Begun /\ FailedAttempts' = FailedAttempts
    BY <1>7, SetsStay DEF Answers
  <2>2. AnsweredWith(c)' = AnsweredWith(c) \cup {r} /\ r \notin AnsweredWith(c)
    BY <1>7 DEF Answers, AnsweredWith, Counted
  <2>3. \A d \in Counted \ {c} : AnsweredWith(d)' = AnsweredWith(d)
    BY <1>7 DEF Answers, AnsweredWith
  <2> QED  BY <2>1, <2>2, <2>3
<1>8. CASE /\ Answers(r, "ok")
           /\ http_request_duration_seconds' = http_request_duration_seconds + 1
           /\ UNCHANGED <<http_requests_total, upstream_connection_errors>>
  <2>1. /\ Begun' = Begun /\ FailedAttempts' = FailedAttempts
        /\ AnsweredWith("timeout")' = AnsweredWith("timeout")
        /\ AnsweredWith("ok")' = AnsweredWith("ok") \cup {r} /\ r \notin AnsweredWith("ok")
    BY <1>3, <1>7, <1>8
  <2>2. /\ IsFiniteSet(AnsweredWith("ok")')
        /\ Cardinality(AnsweredWith("ok")') = Cardinality(AnsweredWith("ok")) + 1
    BY <2>1, OneMoreMember
  <2> QED  BY <1>8, <2>1, <2>2
<1>9. CASE Answers(r, "timeout") /\ CountError
  <2>1. /\ Begun' = Begun /\ FailedAttempts' = FailedAttempts
        /\ AnsweredWith("ok")' = AnsweredWith("ok")
        /\ AnsweredWith("timeout")' = AnsweredWith("timeout") \cup {r} /\ r \notin AnsweredWith("timeout")
    BY <1>3, <1>7, <1>9
  <2>2. /\ IsFiniteSet(AnsweredWith("timeout")')
        /\ Cardinality(AnsweredWith("timeout")') = Cardinality(AnsweredWith("timeout")) + 1
    BY <2>1, OneMoreMember
  <2> QED  BY <1>1, <1>2, <1>9, <2>1, <2>2 DEF CountError
<1> QED  BY <1>4, <1>5, <1>6, <1>8, <1>9 DEF MetricsStep

LEMMA MetricsInitInv == Init => MetricsInv
<1> SUFFICES ASSUME Init PROVE MetricsInv
  OBVIOUS
<1>1. Begun = {} /\ AnsweredWith("ok") = {} /\ AnsweredWith("timeout") = {}
  BY DEF Init, Begun, AnsweredWith
<1>2. FailedAttempts = {}
  <2>1. \A r \in Request : tried[r] = << >>
    BY DEF Init
  <2> QED  BY <2>1 DEF FailedAttempts
<1>3. IsFiniteSet({}) /\ Cardinality({}) = 0
  BY FS_EmptySet
<1>4. /\ http_requests_total = 0 /\ http_request_duration_seconds = 0
      /\ upstream_connection_errors = 0
  BY DEF Init
<1> QED  BY <1>1, <1>2, <1>3, <1>4 DEF MetricsInv, MetricsAccount, CountsFinite

LEMMA SameCounts ==
    ASSUME MetricsInv, UNCHANGED <<pc, status, tried, metrics>>
    PROVE  MetricsInv'
<1>1. /\ Begun' = Begun /\ FailedAttempts' = FailedAttempts
      /\ AnsweredWith("ok")' = AnsweredWith("ok")
      /\ AnsweredWith("timeout")' = AnsweredWith("timeout")
  BY DEF Begun, FailedAttempts, AnsweredWith
<1> QED  BY <1>1 DEF MetricsInv, MetricsAccount, CountsFinite, metrics

LEMMA MetricsNextInv == EngineInv /\ MetricsInv /\ [EngineNext]_engineVars => MetricsInv'
<1> SUFFICES ASSUME EngineInv, MetricsInv, [EngineNext]_engineVars PROVE MetricsInv'
  OBVIOUS
<1>1. CASE \E r \in Request : CallNext(r)
  BY <1>1, CallIsMetricsStep, MetricsStepInv
<1>2. CASE UNCHANGED <<pc, status, tried, metrics>>
  BY <1>2, SameCounts
<1>3. Probing \/ UNCHANGED engineVars => UNCHANGED <<pc, status, tried, metrics>>
  BY DEF Probing, SetHealth, engineVars, attempt
<1> QED  BY <1>1, <1>2, <1>3 DEF EngineNext, Quiescent

\* The metrics agree with what clients saw, for any number of calls and in
\* any order of their steps: handle counts each way out of an attempt once
\* (server.rs 106, 277-305).
THEOREM MetricsTrue == Spec => []MetricsAccount
<1>1. Spec => [](EngineInv /\ MetricsInv)
  BY InitInv, EngineNextInv, MetricsInitInv, MetricsNextInv, PTL DEF Spec
<1>2. MetricsInv => MetricsAccount
  BY DEF MetricsInv
<1> QED  BY <1>1, <1>2, PTL

-----------------------------------------------------------------------------
(* What next_healthy finds while health holds still *)

InScan == {"prefer", "any"}
Places(r) == 0 .. Len(ScanSched(r)) - 1
Up(r, i) == Healthy(CandidateAt(r, i))
Fresh(r, i) == Up(r, i) /\ CandidateAt(r, i) \notin Tried(r)

\* No candidate but the one a call got would have been better.
BestOfScan(r) ==
    \E i \in Places(r) :
        /\ upstream[r] = CandidateAt(r, i)
        /\ \/ Fresh(r, i)
           \/ Up(r, i) /\ \A j \in Places(r) : ~ Fresh(r, j)
           \/ \A j \in Places(r) : ~ Up(r, j)

\* What a scan has seen so far.
SeenInv(r) ==
    /\ pc[r] \in InScan => scan[r].i \in Places(r)
    /\ pc[r] = "prefer" => \A i \in 0 .. scan[r].i - 1 : ~ Fresh(r, i)
    /\ pc[r] = "any" => /\ \A i \in Places(r) : ~ Fresh(r, i)
                        /\ \A i \in 0 .. scan[r].i - 1 : ~ Up(r, i)
    /\ pc[r] = "connect" => scan[r].gen \in DOMAIN loaded /\ BestOfScan(r)

-----------------------------------------------------------------------------
(* Slots of the shared counter *)

Unscanned == Early \cup {"pick"}
AllUp == \A a \in Addr : Healthy(a)

\* The calls that hold a slot of the balancer of a name.
Holds(r, n) == scan[r].gen = 1 /\ RouteOf(r).name = n
\* A slot that was handed out and is no call's any more.
Gap(n) == \E p \in 0 .. counter[1][n] - 1 : \A x \in Request : ~ (Holds(x, n) /\ scan[x].start = p)

SlotInv(r) ==
    LET n == RouteOf(r).name
        sure == Gap(n)
    IN  /\ scan[r].gen \in {0, 1}
        /\ scan[r].gen = 1 => route[r] # NoRoute /\ scan[r].start < counter[1][n]
        /\ pc[r] \in Unscanned /\ tried[r] = << >> => scan[r].gen = 0
        /\ pc[r] \in Early => tried[r] = << >>
        /\ pc[r] \in InScan \cup Waiting \/ tried[r] # << >> => scan[r].gen = 1
        /\ scan[r].gen = 0 => upstream[r] = None
        /\ AllUp /\ upstream[r] # None => upstream[r] = CandidateAt(r, 0) \/ sure
        /\ AllUp /\ pc[r] \in InScan =>
              \/ pc[r] = "prefer" /\ scan[r].i = 0 /\ tried[r] = << >>
              \/ sure

ApartInv ==
    \A r, x \in Request : \A n \in RouteName :
        r # x /\ Holds(r, n) /\ Holds(x, n) => scan[r].start # scan[x].start

SpreadInv == (\A r \in Request : SlotInv(r)) /\ ApartInv

\* No counter has reached its last value, after which it wraps.
CountersLow == \A g \in 1 .. MaxLoads, n \in RouteName : counter[g][n] < UsizeMod - 1

-----------------------------------------------------------------------------
(* What a step of a call does to its scan *)

Steady(r) == route'[r] = route[r] /\ tried'[r] = tried[r]
SameScan(r) == Steady(r) /\ upstream'[r] = upstream[r] /\ scan'[r] = scan[r]

Rests(r) == SameScan(r) /\ counter' = counter /\ pc'[r] = pc[r]
Moves(r) ==
    /\ SameScan(r) /\ counter' = counter
    /\ pc'[r] \notin InScan \cup {"connect"} /\ (pc'[r] \in Waiting => pc[r] \in Waiting)
    /\ pc'[r] \in Unscanned => pc[r] \in Early
FirstRoutes(r) ==
    /\ tried'[r] = tried[r] /\ upstream'[r] = upstream[r] /\ scan'[r] = scan[r]
    /\ counter' = counter /\ pc[r] = "arrived" /\ pc'[r] \in Early
LosesAttempt(r) ==
    /\ route'[r] = route[r] /\ upstream'[r] = upstream[r] /\ scan'[r] = scan[r]
    /\ counter' = counter /\ tried'[r] # << >>
    /\ pc[r] \in Waiting /\ pc'[r] \in {"pick", "done"}
TakesSlot(r) ==
    LET n == RouteOf(r).name
    IN  /\ Steady(r) /\ upstream'[r] = upstream[r] /\ pc[r] = "pick" /\ pc'[r] = "prefer"
        /\ SchedOf(lb_cache, n) # << >>
        /\ scan'[r] = [gen |-> lb_cache, start |-> counter[lb_cache][n], i |-> 0]
        /\ counter' = [counter EXCEPT ![lb_cache][n] = Bump(@)]
Attempts(r, a) ==
    /\ Steady(r) /\ scan'[r] = scan[r] /\ counter' = counter
    /\ pc'[r] = "connect" /\ upstream'[r] = a
TakesUp(r) ==
    /\ Attempts(r, CandidateAt(r, scan[r].i))
    /\ pc[r] \in InScan /\ Acceptable(r)
PassesOver(r) ==
    /\ Steady(r) /\ upstream'[r] = upstream[r] /\ counter' = counter
    /\ pc[r] \in InScan /\ pc'[r] = pc[r] /\ ~ Acceptable(r) /\ ~ LastCandidate(r)
    /\ scan'[r] = [scan[r] EXCEPT !.i = scan[r].i + 1]
LooksAgain(r) ==
    /\ Steady(r) /\ upstream'[r] = upstream[r] /\ counter' = counter
    /\ pc[r] = "prefer" /\ pc'[r] = "any" /\ ~ Acceptable(r) /\ LastCandidate(r)
    /\ scan'[r] = [scan[r] EXCEPT !.i = 0]
TakesAny(r) ==
    /\ Attempts(r, CandidateAt(r, 0))
    /\ pc[r] = "any" /\ ~ Acceptable(r) /\ LastCandidate(r)

ScanStep(r) ==
    \/ Rests(r) \/ Moves(r) \/ FirstRoutes(r) \/ LosesAttempt(r) \/ TakesSlot(r)
    \/ TakesUp(r) \/ PassesOver(r) \/ LooksAgain(r) \/ TakesAny(r)

ScanTyped ==
    /\ scan \in [Request -> [gen : Nat, start : Nat, i : Nat]]
    /\ counter \in [1 .. MaxLoads -> [RouteName -> 0 .. UsizeMod - 1]]

\* Health is the probers' alone.
LEMMA RegistryStays ==
    ASSUME NEW r \in Request, CallNext(r)
    PROVE  registry' = registry
<1> USE DEF scanFrame, attemptFrame
<1>1. CASE Receive(r) \/ Tick(r) \/ TimedOut(r) \/ ClientGone(r) \/ MirrorEnds(r)
  BY <1>1, Zenon DEF Receive, Tick, TimedOut, ClientGone, MirrorEnds
<1>2. CASE NotFound(r) \/ LookupPlugin(r) \/ Deny(r) \/ Admit(r) \/ NoUpstream(r)
  BY <1>2, Zenon DEF NotFound, LookupPlugin, Deny, Admit, NoUpstream
<1>3. CASE SelectRoute(r) \/ StartScan(r)
  BY <1>3, Zenon DEF SelectRoute, StartScan
<1>4. CASE Scanning(r)
  BY <1>4, Zenon DEF Scanning, TakeCandidate, SkipCandidate, SecondPass, FailOpen
<1>5. CASE Connected(r) \/ Responded(r)
  BY <1>5, Zenon DEF Connected, Responded
<1>6. CASE ConnectError(r) \/ TransportError(r) \/ SendError(r)
  BY <1>6, Zenon DEF ConnectError, TransportError, SendError, AttemptFails
<1> QED  BY <1>1, <1>2, <1>3, <1>4, <1>5, <1>6, Zenon DEF CallNext, Step, Upstreams

\* Other calls' scans go on as they were.
LEMMA OthersSameScan ==
    ASSUME ClockTyped, ScanTyped, TypeOK, NEW r \in Request, CallNext(r), NEW x \in Request, x # r
    PROVE  SameScan(x) /\ pc'[x] = pc[x]
<1>1. SameClock(x) /\ upstream'[x] = upstream[x]
  BY OthersSameClock, OthersStay
<1>2. scan' = scan \/ \E s : scan' = [scan EXCEPT ![r] = s]
  <2> USE DEF scanFrame, attemptFrame
  <2>1. CASE Receive(r) \/ Tick(r) \/ TimedOut(r) \/ ClientGone(r) \/ MirrorEnds(r)
    BY <2>1, Zenon DEF Receive, Tick, TimedOut, ClientGone, MirrorEnds
  <2>2. CASE NotFound(r) \/ LookupPlugin(r) \/ Deny(r) \/ Admit(r) \/ NoUpstream(r) \/ SelectRoute(r)
    BY <2>2, Zenon DEF NotFound, LookupPlugin, Deny, Admit, NoUpstream, SelectRoute
  <2>3. CASE StartScan(r)
    BY <2>3 DEF StartScan
  <2>4. CASE Scanning(r)
    BY <2>4 DEF Scanning, TakeCandidate, SkipCandidate, SecondPass, FailOpen
  <2>5. CASE Connected(r) \/ Responded(r)
    BY <2>5, Zenon DEF Connected, Responded
  <2>6. CASE ConnectError(r) \/ TransportError(r) \/ SendError(r)
    BY <2>6, Zenon DEF ConnectError, TransportError, SendError, AttemptFails
  <2> QED  BY <2>1, <2>2, <2>3, <2>4, <2>5, <2>6 DEF CallNext, Step, Upstreams
<1> QED  BY <1>1, <1>2 DEF SameClock, SameScan, Steady, ScanTyped

LEMMA CallIsScanStep ==
    ASSUME EngineInv, NEW r \in Request, CallNext(r)
    PROVE  ScanStep(r)
<1> USE DEF Goto, Answer, metrics, caches, routing, attempt, clock, outside, scanFrame,
            attemptFrame, Early, Unscanned, InScan, Waiting, SameScan, Steady
<1>1. ClockTyped /\ ScanTyped
  BY DEF EngineInv, TypeOK, ClockTyped, ScanTyped
<1> USE <1>1 DEF ClockTyped, ScanTyped
<1>2. CASE Receive(r) \/ NotFound(r) \/ LookupPlugin(r) \/ Deny(r) \/ Admit(r) \/ NoUpstream(r)
  <2>1. Moves(r)
    BY <1>2 DEF Receive, NotFound, LookupPlugin, Deny, Admit, NoUpstream, Moves
  <2> QED  BY <2>1 DEF ScanStep
<1>3. CASE Connected(r) \/ Responded(r) \/ TimedOut(r) \/ ClientGone(r)
  <2>1. Moves(r)
    BY <1>3 DEF Connected, Responded, TimedOut, ClientGone, Moves
  <2> QED  BY <2>1 DEF ScanStep
<1>4. CASE Tick(r) \/ MirrorEnds(r)
  <2>1. Rests(r)
    BY <1>4 DEF Tick, MirrorEnds, Rests
  <2> QED  BY <2>1 DEF ScanStep
<1>5. CASE SelectRoute(r)
  <2>1. FirstRoutes(r)
    BY <1>5 DEF SelectRoute, FirstRoutes
  <2> QED  BY <2>1 DEF ScanStep
<1>6. CASE ConnectError(r) \/ TransportError(r) \/ SendError(r)
  <2>1. /\ route'[r] = route[r] /\ upstream'[r] = upstream[r] /\ scan'[r] = scan[r]
        /\ counter' = counter /\ tried'[r] = Append(tried[r], upstream[r])
        /\ pc[r] \in Waiting /\ pc'[r] \in {"pick", "done"}
    BY <1>6 DEF ConnectError, TransportError, SendError, AttemptFails
  <2>2. tried[r] \in Seq(Addr) /\ upstream[r] \in Addr \cup {None}
    OBVIOUS
  <2>3. Append(tried[r], upstream[r]) # << >>
    <3>1. tried[r] \in Seq(Addr \cup {None})
      BY <2>2
    <3> QED  BY ONLY <2>2, <3>1
  <2>4. LosesAttempt(r)
    BY <2>1, <2>3 DEF LosesAttempt
  <2> QED  BY <2>4 DEF ScanStep
<1>7. CASE StartScan(r)
  <2>1. TakesSlot(r)
    BY <1>7 DEF StartScan, TakesSlot
  <2> QED  BY <2>1 DEF ScanStep
<1>8. ASSUME NEW a, pc[r] \in InScan, BeginAttempt(r, a), UNCHANGED <<scanFrame, scan>>
      PROVE  Moves(r) \/ Attempts(r, a)
  BY <1>8 DEF BeginAttempt, Moves, Attempts
<1>9. CASE TakeCandidate(r)
  <2>1. pc[r] \in InScan /\ Acceptable(r) /\ (Moves(r) \/ Attempts(r, CandidateAt(r, scan[r].i)))
    <3>1. pc[r] \in InScan /\ Acceptable(r) /\ BeginAttempt(r, CandidateAt(r, scan[r].i))
      BY <1>9 DEF TakeCandidate
    <3>2. UNCHANGED <<scanFrame, scan>>
      BY <1>9 DEF TakeCandidate
    <3> QED  BY <1>8, <3>1, <3>2
  <2>2. Moves(r) \/ TakesUp(r)
    BY <2>1 DEF TakesUp
  <2> QED  BY <2>2 DEF ScanStep
<1>10. CASE FailOpen(r)
  <2>1. pc[r] = "any" /\ ~ Acceptable(r) /\ LastCandidate(r)
        /\ (Moves(r) \/ Attempts(r, CandidateAt(r, 0)))
    <3>1. pc[r] = "any" /\ ~ Acceptable(r) /\ LastCandidate(r) /\ BeginAttempt(r, CandidateAt(r, 0))
      BY <1>10 DEF FailOpen
    <3>2. UNCHANGED <<scanFrame, scan>> /\ pc[r] \in InScan
      BY <1>10 DEF FailOpen
    <3> QED  BY <1>8, <3>1, <3>2
  <2>2. Moves(r) \/ TakesAny(r)
    BY <2>1 DEF TakesAny
  <2> QED  BY <2>2 DEF ScanStep
<1>11. CASE SkipCandidate(r)
  <2>1. PassesOver(r)
    BY <1>11 DEF SkipCandidate, PassesOver
  <2> QED  BY <2>1 DEF ScanStep
<1>12. CASE SecondPass(r)
  <2>1. LooksAgain(r)
    BY <1>12 DEF SecondPass, LooksAgain
  <2> QED  BY <2>1 DEF ScanStep
<1> QED  BY <1>2, <1>3, <1>4, <1>5, <1>6, <1>7, <1>9, <1>10, <1>11, <1>12
         DEF CallNext, Step, Upstreams, Scanning

-----------------------------------------------------------------------------
(* What a scan has seen *)

\* The schedule a call scans, and the one it would scan.
LEMMA ScanSchedType ==
    ASSUME EngineInv, NEW r \in Request, pc[r] \in {"pick", "prefer", "any"}
    PROVE  /\ RouteOf(r).name \in RouteName
           /\ SchedOf(lb_cache, RouteOf(r).name) \in Seq(Addr)
           /\ pc[r] \in InScan => ScanSched(r) \in Seq(Addr) /\ Len(ScanSched(r)) \in Nat \ {0}
<1>1. RouteOf(r).name \in RouteName
  <2>1. route[r] # NoRoute
    BY DEF EngineInv, CallInv, RouteKnown, Routed
  <2>2. RouteOf(r) \in RouteConfig
    BY <2>1, RouteType
  <2> QED  BY ONLY <2>2 DEF RouteConfig
<1>2. SchedOf(lb_cache, RouteOf(r).name) \in Seq(Addr)
  <2>1. lb_cache \in DOMAIN loaded
    BY DEF EngineInv, TypeOK
  <2> QED  BY <1>1, <2>1, SchedType
<1>3. ASSUME pc[r] \in InScan PROVE ScanSched(r) \in Seq(Addr) /\ Len(ScanSched(r)) \in Nat \ {0}
  <2>1. scan[r].gen \in DOMAIN loaded /\ Len(ScanSched(r)) > 0
    BY <1>3 DEF EngineInv, CallInv, ScanKnown, InScan
  <2>2. ScanSched(r) \in Seq(Addr)
    BY <1>1, <2>1, SchedType DEF ScanSched
  <2> QED  BY <2>1, <2>2
<1> QED  BY <1>1, <1>2, <1>3

LEMMA SameCandidates ==
    ASSUME NEW r \in Request, loaded' = loaded, route'[r] = route[r],
           scan'[r].gen = scan[r].gen, scan'[r].start = scan[r].start
    PROVE  /\ ScanSched(r)' = ScanSched(r) /\ Places(r)' = Places(r)
           /\ \A i : CandidateAt(r, i)' = CandidateAt(r, i)
<1>1. RouteOf(r)' = RouteOf(r)
  BY DEF RouteOf
<1>2. ScanSched(r)' = ScanSched(r)
  BY <1>1 DEF ScanSched, SchedOf
<1> QED  BY <1>2 DEF Places, CandidateAt

LEMMA SameSights ==
    ASSUME NEW r \in Request, loaded' = loaded, registry' = registry, Steady(r),
           scan'[r].gen = scan[r].gen, scan'[r].start = scan[r].start
    PROVE  /\ Places(r)' = Places(r) /\ \A i : CandidateAt(r, i)' = CandidateAt(r, i)
           /\ \A i : Up(r, i)' <=> Up(r, i)
           /\ \A i : Fresh(r, i)' <=> Fresh(r, i)
<1>1. Places(r)' = Places(r) /\ \A i : CandidateAt(r, i)' = CandidateAt(r, i)
  BY SameCandidates DEF Steady
<1>2. Tried(r)' = Tried(r)
  BY DEF Steady, Tried
<1>3. \A i : Up(r, i)' <=> Up(r, i)
  BY <1>1 DEF Up, Healthy
<1> QED  BY <1>1, <1>2, <1>3 DEF Fresh

LEMMA SameSeenInv ==
    ASSUME NEW x \in Request, SeenInv(x), SameScan(x), pc'[x] = pc[x],
           loaded' = loaded, registry' = registry
    PROVE  SeenInv(x)'
<1>1. /\ Places(x)' = Places(x) /\ \A i : CandidateAt(x, i)' = CandidateAt(x, i)
      /\ \A i : Up(x, i)' <=> Up(x, i)
      /\ \A i : Fresh(x, i)' <=> Fresh(x, i)
  BY SameSights DEF SameScan
<1>2. BestOfScan(x)' <=> BestOfScan(x)
  BY <1>1 DEF BestOfScan, SameScan
<1> QED  BY <1>1, <1>2 DEF SeenInv, SameScan

LEMMA SeenStepInv ==
    ASSUME EngineInv, NEW r \in Request, SeenInv(r), ScanStep(r),
           loaded' = loaded, registry' = registry
    PROVE  SeenInv(r)'
<1> DEFINE len == Len(ScanSched(r))
           at == scan[r].i
<1>1. pc[r] \in Label /\ at \in Nat /\ scan[r] \in [gen : Nat, start : Nat, i : Nat]
  BY DEF EngineInv, TypeOK
<1>2. CASE Rests(r)
  BY <1>2, SameSeenInv DEF Rests
<1>3. CASE Moves(r) \/ FirstRoutes(r) \/ LosesAttempt(r)
  <2>1. pc'[r] \notin {"prefer", "any", "connect"}
    BY <1>3 DEF Moves, FirstRoutes, LosesAttempt, InScan, Early
  <2> QED  BY <2>1 DEF SeenInv, InScan
<1>4. CASE TakesSlot(r)
  <2> DEFINE n == RouteOf(r).name
  <2>1. SchedOf(lb_cache, n) \in Seq(Addr) /\ SchedOf(lb_cache, n) # << >>
    BY <1>4, ScanSchedType DEF TakesSlot
  <2>3. scan'[r] = [gen |-> lb_cache, start |-> counter[lb_cache][n], i |-> 0] /\ pc'[r] = "prefer"
        /\ route'[r] = route[r]
    BY <1>4 DEF TakesSlot, Steady
  <2>4. ScanSched(r)' = SchedOf(lb_cache, n)
    <3>1. RouteOf(r)' = RouteOf(r)
      BY <2>3 DEF RouteOf
    <3>2. scan'[r].gen = lb_cache
      BY <2>3
    <3>3. ScanSched(r)' = LbSchedule[loaded[lb_cache]][RouteOf(r).name]
      BY <3>1, <3>2, Zenon DEF ScanSched, SchedOf
    <3> QED  BY <3>3 DEF SchedOf
  <2> HIDE DEF n
  <2>5. Len(ScanSched(r)') \in Nat \ {0}
    BY <2>1, <2>4
  <2>6. scan'[r].i = 0
    BY <2>3
  <2>7. 0 \in Places(r)' /\ 0 .. 0 - 1 = {}
    BY <2>5 DEF Places
  <2> QED  BY <2>3, <2>6, <2>7 DEF SeenInv, InScan
<1>5. CASE pc[r] \in InScan
  <2>1. len \in Nat \ {0} /\ Places(r) = 0 .. len - 1
    BY <1>5, ScanSchedType DEF Places, InScan
  <2>2. LastCandidate(r) <=> at + 1 = len
    BY DEF LastCandidate
  <2>3. Acceptable(r) <=> (pc[r] = "prefer" => CandidateAt(r, at) \notin Tried(r)) /\ Up(r, at)
    BY DEF Acceptable, Up
  <2>4. /\ at \in Places(r)
        /\ pc[r] = "prefer" => \A i \in 0 .. at - 1 : ~ Fresh(r, i)
        /\ pc[r] = "any" => /\ \A i \in Places(r) : ~ Fresh(r, i)
                            /\ \A i \in 0 .. at - 1 : ~ Up(r, i)
    BY <1>5 DEF SeenInv
  <2> HIDE DEF len
  <2>5. \A i \in 0 .. at : i \in 0 .. at - 1 \/ i = at
    BY <1>1
  <2>6. ~ Acceptable(r) => /\ pc[r] = "prefer" => \A i \in 0 .. at : ~ Fresh(r, i)
                           /\ pc[r] = "any" => \A i \in 0 .. at : ~ Up(r, i)
    BY <2>3, <2>4, <2>5 DEF Fresh
  <2> HIDE DEF at
  <2>7. ASSUME Steady(r), scan'[r].gen = scan[r].gen, scan'[r].start = scan[r].start
        PROVE  /\ Places(r)' = Places(r) /\ \A i : CandidateAt(r, i)' = CandidateAt(r, i)
               /\ \A i : Up(r, i)' <=> Up(r, i)
               /\ \A i : Fresh(r, i)' <=> Fresh(r, i)
    BY <2>7, SameSights
  <2>12. scan[r].gen \in DOMAIN loaded
    BY <1>5 DEF EngineInv, CallInv, ScanKnown, InScan
  <2>8. CASE TakesUp(r)
    <3>1. Steady(r) /\ scan'[r] = scan[r] /\ pc'[r] = "connect" /\ upstream'[r] = CandidateAt(r, at)
          /\ Acceptable(r)
      BY <2>8 DEF TakesUp, Attempts, at
    <3>2. Fresh(r, at) \/ (Up(r, at) /\ \A j \in Places(r) : ~ Fresh(r, j))
      BY <1>5, <2>3, <2>4, <3>1 DEF Fresh, InScan
    <3>3. BestOfScan(r)'
      BY <2>4, <2>7, <3>1, <3>2 DEF BestOfScan
    <3> QED  BY <2>12, <3>1, <3>3 DEF SeenInv, InScan
  <2>9. CASE PassesOver(r)
    <3>1. /\ Steady(r) /\ pc'[r] = pc[r] /\ ~ Acceptable(r) /\ ~ LastCandidate(r)
          /\ scan'[r] = [scan[r] EXCEPT !.i = at + 1]
      BY <2>9 DEF PassesOver, at
    <3>2. scan'[r].gen = scan[r].gen /\ scan'[r].start = scan[r].start /\ scan'[r].i = at + 1
      BY <1>1, <3>1
    <3>3. at + 1 \in Places(r) /\ (at + 1) - 1 = at
      BY <1>1, <2>1, <2>2, <2>4, <3>1 DEF at
    <3>4. \A i \in 0 .. (at + 1) - 1 : i \in 0 .. at
      BY <3>3
    <3> QED  BY <1>5, <2>4, <2>6, <2>7, <3>1, <3>2, <3>3, <3>4 DEF SeenInv, InScan
  <2>10. CASE LooksAgain(r)
    <3>1. /\ Steady(r) /\ pc[r] = "prefer" /\ pc'[r] = "any" /\ ~ Acceptable(r) /\ LastCandidate(r)
          /\ scan'[r] = [scan[r] EXCEPT !.i = 0]
      BY <2>10 DEF LooksAgain
    <3>2. scan'[r].gen = scan[r].gen /\ scan'[r].start = scan[r].start /\ scan'[r].i = 0
      BY <1>1, <3>1
    <3>3. Places(r) = 0 .. at /\ 0 \in Places(r) /\ 0 .. 0 - 1 = {}
      BY <1>1, <2>1, <2>2, <2>4, <3>1 DEF at
    <3> QED  BY <2>6, <2>7, <3>1, <3>2, <3>3 DEF SeenInv, InScan
  <2>11. CASE TakesAny(r)
    <3>1. /\ Steady(r) /\ scan'[r] = scan[r] /\ pc'[r] = "connect"
          /\ upstream'[r] = CandidateAt(r, 0) /\ pc[r] = "any" /\ ~ Acceptable(r) /\ LastCandidate(r)
      BY <2>11 DEF TakesAny, Attempts
    <3>2. Places(r) = 0 .. at /\ 0 \in Places(r)
      BY <1>1, <2>1, <2>2, <2>4, <3>1 DEF at
    <3>3. BestOfScan(r)'
      BY <2>6, <2>7, <3>1, <3>2 DEF BestOfScan
    <3> QED  BY <2>12, <3>1, <3>3 DEF SeenInv, InScan
  <2> QED  BY <1>2, <1>3, <1>4, <2>8, <2>9, <2>10, <2>11 DEF ScanStep
<1> QED  BY <1>2, <1>3, <1>4, <1>5 DEF ScanStep, TakesUp, PassesOver, LooksAgain, TakesAny, InScan

-----------------------------------------------------------------------------
(* The best that the schedule offers *)

\* The positions a scan looks at are all of the schedule's unless the counter
\* wraps under it; where the schedule's length divides the width it may.
NoWrap(r) ==
    LET len == Len(ScanSched(r))
    IN  scan[r].start + len <= UsizeMod \/ UsizeMod % len = 0

LEMMA WrapHarmless ==
    ASSUME NEW a \in Nat, NEW u \in Nat \ {0}, NEW n \in Nat \ {0}, u % n = 0
    PROVE  (a % u) % n = a % n
<1>1. PICK q \in Nat : u = n * q
  <2>1. u \div n \in Nat /\ u = n * (u \div n) + (u % n)
    BY DivisionFacts
  <2> DEFINE q == u \div n
  <2>2. q \in Nat /\ u = n * q + 0
    BY <2>1
  <2> HIDE DEF q
  <2>3. u = n * q
    BY <2>2
  <2> QED  BY <2>2, <2>3
<1> DEFINE t == a \div u
           b == a % u
           t2 == b \div n
           j == b % n
<1>2. t \in Nat /\ b \in Nat /\ a = u * t + b
  BY DivisionFacts
<1> HIDE DEF t, b
<1>3. t2 \in Nat /\ j \in 0 .. n - 1 /\ b = n * t2 + j
  BY <1>2, DivisionFacts
<1> HIDE DEF t2, j
<1> DEFINE i == q * t + t2
<1>4. i \in Nat
  <2>1. q * t \in Nat
    BY <1>1, <1>2, ProductNat
  <2> QED  BY <1>3, <2>1
<1>5. a = i * n + j
  BY ONLY <1>1, <1>2, <1>3, n \in Nat, q \in Nat, i = q * t + t2
<1> HIDE DEF i
<1>6. a % n = j
  BY <1>3, <1>4, <1>5, VisitParts
<1> QED  BY <1>6 DEF b, j

LEMMA HeldSched ==
    ASSUME EngineInv, NEW r \in Request, route[r] # NoRoute, scan[r].gen \in DOMAIN loaded
    PROVE  RouteOf(r).name \in RouteName /\ ScanSched(r) \in Seq(Addr)
<1>1. RouteOf(r) \in RouteConfig
  BY RouteType DEF EngineInv, CallInv, RouteKnown
<1>2. RouteOf(r).name \in RouteName
  BY ONLY <1>1 DEF RouteConfig
<1> QED  BY <1>2, SchedType DEF ScanSched

\* Slot s + i of a schedule of length n, as a place in it.
LEMMA PlaceOf ==
    ASSUME NEW s \in Nat, NEW i \in Nat, NEW n \in Nat \ {0}, NEW u \in Nat \ {0}
    PROVE  ((s + i) % u) % n \in 0 .. n - 1
<1>1. (s + i) % u \in Nat
  BY DivisionFacts
<1> DEFINE b == (s + i) % u
<1> HIDE DEF b
<1> QED  BY <1>1, DivisionFacts DEF b

\* All of the schedule is looked at.
LEMMA PlacesCover ==
    ASSUME EngineInv, NEW r \in Request, route[r] # NoRoute,
           scan[r].gen \in DOMAIN loaded, Places(r) # {}, NoWrap(r)
    PROVE  {ScanSched(r)[k] : k \in DOMAIN ScanSched(r)} = {CandidateAt(r, i) : i \in Places(r)}
<1> DEFINE sched == ScanSched(r)
           n == Len(sched)
           s == scan[r].start
           u == UsizeMod
           place(i) == ((s + i) % u) % n
<1>1. sched \in Seq(Addr) /\ DOMAIN sched = 1 .. n /\ n \in Nat
  BY HeldSched
<1>2. s \in Nat /\ u \in Nat \ {0}
  BY EngineAssumption DEF EngineInv, TypeOK
<1>3. Places(r) = 0 .. n - 1 /\ n # 0
  BY <1>1 DEF Places
<1>4. \A i : CandidateAt(r, i) = sched[place(i) + 1]
  BY DEF CandidateAt, Candidate
<1>5. s + n <= u \/ u % n = 0
  BY DEF NoWrap
<1> HIDE DEF sched, n, s, u
<1>6. \A i \in 0 .. n - 1 : place(i) + 1 \in 1 .. n
  <2> TAKE i \in 0 .. n - 1
  <2>2. i \in Nat /\ n \in Nat \ {0}
    BY <1>1, <1>3
  <2>1. place(i) \in 0 .. n - 1
    BY <1>2, <2>2, PlaceOf, Zenon
  <2> HIDE DEF place
  <2> QED  BY <1>1, <2>1
<1>7. ASSUME NEW k \in 1 .. n PROVE \E i \in 0 .. n - 1 : place(i) + 1 = k
  <2>1. n \in Nat \ {0} /\ k - 1 \in 0 .. n - 1
    BY <1>1, <1>3
  <2>2. PICK y \in s .. s + n - 1 : y % n = k - 1
    BY <1>2, <2>1, RoundCovers
  <2> DEFINE i == y - s
  <2>3. i \in 0 .. n - 1 /\ s + i = y /\ y \in Nat /\ y < s + n
    BY <1>1, <1>2
  <2>4. (y % u) % n = y % n
    <3>1. CASE s + n <= u
      <4>1. y < u
        BY <1>1, <1>2, <2>3, <3>1
      <4>2. y % u = y
        BY <1>2, <2>3, <4>1
      <4> QED  BY <4>2
    <3>2. CASE u % n = 0
      BY <1>2, <2>1, <2>3, <3>2, WrapHarmless
    <3> QED  BY <1>5, <3>1, <3>2
  <2> HIDE DEF i
  <2>5. place(i) = k - 1
    BY <2>2, <2>3, <2>4
  <2>6. place(i) + 1 = k
    <3> HIDE DEF place
    <3> QED  BY <2>5
  <2> QED  BY <2>3, <2>6
<1> HIDE DEF place
<1>8. {sched[k] : k \in 1 .. n} = {sched[place(i) + 1] : i \in 0 .. n - 1}
  BY <1>6, <1>7
<1> QED  BY <1>1, <1>3, <1>4, <1>8 DEF sched

LEMMA BestIsAvailable ==
    ASSUME EngineInv, NEW r \in Request, SeenInv(r), pc[r] = "connect", NoWrap(r)
    PROVE  LET all == {ScanSched(r)[k] : k \in DOMAIN ScanSched(r)}
               up == {a \in all : Healthy(a)}
               fresh == up \ Tried(r)
           IN  upstream[r] \in IF fresh # {} THEN fresh ELSE IF up # {} THEN up ELSE all
<1> DEFINE all == {ScanSched(r)[k] : k \in DOMAIN ScanSched(r)}
           up == {a \in all : Healthy(a)}
           fresh == up \ Tried(r)
<1>1. PICK i \in Places(r) :
        /\ upstream[r] = CandidateAt(r, i)
        /\ \/ Fresh(r, i)
           \/ Up(r, i) /\ \A j \in Places(r) : ~ Fresh(r, j)
           \/ \A j \in Places(r) : ~ Up(r, j)
  BY DEF SeenInv, BestOfScan
<1>2. route[r] # NoRoute /\ scan[r].gen \in DOMAIN loaded
  BY DEF EngineInv, CallInv, RouteKnown, Routed, SeenInv
<1>3. all = {CandidateAt(r, j) : j \in Places(r)}
  BY <1>1, <1>2, PlacesCover
<1> HIDE DEF all
<1>4. \A j \in Places(r) : Up(r, j) <=> CandidateAt(r, j) \in up
  BY <1>3 DEF Up
<1>5. \A j \in Places(r) : Fresh(r, j) <=> CandidateAt(r, j) \in fresh
  BY <1>4 DEF Fresh
<1>6. up \subseteq all /\ fresh \subseteq all
  OBVIOUS
<1> HIDE DEF up, fresh
<1>7. CASE Fresh(r, i)
  BY <1>1, <1>5, <1>7 DEF all, up, fresh
<1>8. CASE Up(r, i) /\ \A j \in Places(r) : ~ Fresh(r, j)
  <2>1. fresh = {}
    BY <1>3, <1>5, <1>6, <1>8
  <2> QED  BY <1>1, <1>4, <1>8, <2>1 DEF all, up, fresh
<1>9. CASE \A j \in Places(r) : ~ Up(r, j)
  <2>1. up = {}
    BY <1>3, <1>4, <1>6, <1>9
  <2>2. fresh = {}
    BY <1>3, <1>5, <1>6, <1>9 DEF Fresh
  <2> QED  BY <1>1, <1>3, <2>1, <2>2 DEF all, up, fresh
<1> QED  BY <1>1, <1>7, <1>8, <1>9

-----------------------------------------------------------------------------
(* Slots are handed out once *)

LEMMA SameHolder ==
    ASSUME NEW x \in Request, loaded' = loaded, route'[x] = route[x], scan'[x] = scan[x]
    PROVE  \A n : Holds(x, n)' <=> Holds(x, n)
<1>1. RouteOf(x)' = RouteOf(x)
  BY DEF RouteOf
<1> QED  BY <1>1 DEF Holds

LEMMA FirstLoaded ==
    ASSUME EngineInv
    PROVE  1 \in DOMAIN loaded /\ 1 \in 1 .. MaxLoads
<1>1. loaded \in Seq(ConfigId) /\ Len(loaded) \in 1 .. MaxLoads
  BY DEF EngineInv, TypeOK
<1>2. MaxLoads \in Nat
  BY EngineAssumption
<1> QED  BY <1>1, <1>2

\* What leaves a call's scan alone leaves what its slot promises.
LEMMA SameSlotInv ==
    ASSUME EngineInv, NEW x \in Request, SlotInv(x), SameScan(x),
           pc'[x] = pc[x] \/ Moves(x), loaded' = loaded, registry' = registry, TypeOK',
           \A n \in RouteName : (Gap(n) => Gap(n)') /\ counter[1][n] <= counter'[1][n]
    PROVE  SlotInv(x)'
<1> DEFINE n == RouteOf(x).name
<1>1. RouteOf(x)' = RouteOf(x) /\ route'[x] = route[x] /\ tried'[x] = tried[x]
      /\ scan'[x] = scan[x] /\ upstream'[x] = upstream[x]
  BY DEF RouteOf, SameScan, Steady
<1>2. CandidateAt(x, 0)' = CandidateAt(x, 0)
  BY <1>1, SameCandidates
<1>3. AllUp' <=> AllUp
  BY DEF AllUp, Healthy
<1>4. n' = n
  BY <1>1
<1>5. ASSUME scan[x].gen = 1
      PROVE  /\ Gap(n) => Gap(n)'
             /\ scan[x].start < counter[1][n] => scan[x].start < counter'[1][n]
  <2>1. n \in RouteName
    <3>1. 1 \in DOMAIN loaded
      BY FirstLoaded
    <3>2. route[x] # NoRoute
      BY <1>5 DEF SlotInv
    <3> HIDE DEF n
    <3>3. scan[x].gen \in DOMAIN loaded
      BY <1>5, <3>1
    <3> QED  BY <3>2, <3>3, HeldSched DEF n
  <2>2. PICK m \in RouteName : m = n
    BY <2>1
  <2>3. (Gap(m) => Gap(m)') /\ counter[1][m] <= counter'[1][m]
    OBVIOUS
  <2>4. Gap(n) => Gap(n)'
    BY <1>4, <2>2, <2>3 DEF Gap
  <2>5. /\ counter \in [1 .. MaxLoads -> [RouteName -> 0 .. UsizeMod - 1]]
        /\ scan[x].start \in Nat
    BY DEF EngineInv, TypeOK
  <2>8. counter' \in [1 .. MaxLoads -> [RouteName -> 0 .. UsizeMod - 1]]
    BY DEF TypeOK
  <2>9. 1 \in 1 .. MaxLoads /\ UsizeMod \in Nat
    BY FirstLoaded, EngineAssumption
  <2>6. counter[1][m] \in Nat /\ counter'[1][m] \in Nat
    BY ONLY <2>5, <2>8, <2>9, m \in RouteName
  <2>7. scan[x].start < counter[1][m] => scan[x].start < counter'[1][m]
    BY <2>3, <2>5, <2>6
  <2> QED  BY <2>2, <2>4, <2>7
<1>6. /\ pc'[x] \in Unscanned => pc[x] \in Unscanned
      /\ pc'[x] \in Early => pc[x] \in Early
      /\ pc'[x] \in InScan \cup Waiting => pc[x] \in InScan \cup Waiting
      /\ pc'[x] \in InScan => pc[x] \in InScan /\ pc'[x] = pc[x]
  BY DEF Moves, Unscanned, InScan, Early, Waiting
<1>7. upstream[x] # None => scan[x].gen = 1
  BY DEF SlotInv
<1>8. pc[x] \in InScan => scan[x].gen = 1
  BY DEF SlotInv
<1> HIDE DEF n
<1> QED  BY <1>1, <1>2, <1>3, <1>4, <1>5, <1>6, <1>7, <1>8 DEF SlotInv, n

\* A step that hands out no slot.
LEMMA NoSlotTaken ==
    ASSUME counter' = counter, loaded' = loaded,
           \A x \in Request, n \in RouteName : Holds(x, n)' <=> Holds(x, n),
           \A x \in Request, n \in RouteName : Holds(x, n) => scan'[x].start = scan[x].start
    PROVE  /\ \A n \in RouteName : Gap(n)' <=> Gap(n)
           /\ ApartInv => ApartInv'
<1>1. \A n \in RouteName, x \in Request :
          \A p : (Holds(x, n) /\ scan[x].start = p)' <=> (Holds(x, n) /\ scan[x].start = p)
  OBVIOUS
<1>2. \A n \in RouteName : Gap(n)' <=> Gap(n)
  BY <1>1 DEF Gap
<1>3. ApartInv => ApartInv'
  BY DEF ApartInv
<1> QED  BY <1>2, <1>3

LEMMA SlotTaken ==
    ASSUME EngineInv, CacheInv, CountersLow, \A x \in Request : SlotInv(x), ApartInv,
           NEW r \in Request, TakesSlot(r), loaded' = loaded,
           \A x \in Request \ {r} : SameScan(x),
           NEW n \in RouteName, RouteOf(r).name = n
    PROVE  /\ \A m \in RouteName : (Gap(m) => Gap(m)') /\ counter[1][m] <= counter'[1][m]
           /\ ApartInv'
           /\ scan'[r].gen = 1 /\ scan'[r].i = 0 /\ scan'[r].start < counter'[1][n]
           /\ scan[r].gen = 1 => Gap(n)'
<1> DEFINE c == counter[1][n]
<1>1. n \in RouteName
  OBVIOUS
<1>2. lb_cache = 1 /\ 1 \in 1 .. MaxLoads
  BY DEF EngineInv, TypeOK, CacheInv
<1>3. counter \in [1 .. MaxLoads -> [RouteName -> 0 .. UsizeMod - 1]] /\ UsizeMod \in Nat
  BY EngineAssumption DEF EngineInv, TypeOK
<1>4. \A m \in RouteName : counter[1][m] \in Nat
  BY <1>2, <1>3
<1>5. Bump(c) = c + 1
  <2>1. c \in Nat /\ c < UsizeMod - 1
    BY <1>1, <1>2, <1>4 DEF CountersLow
  <2> HIDE DEF c
  <2>2. (c + 1) % UsizeMod = c + 1
    BY <1>3, <2>1
  <2> QED  BY <2>2 DEF Bump
<1>6. /\ scan'[r].gen = 1 /\ scan'[r].i = 0 /\ scan'[r].start = c
      /\ route'[r] = route[r]
      /\ counter' = [counter EXCEPT ![1][n] = c + 1]
  BY <1>2, <1>5 DEF TakesSlot, Steady
<1>7. counter'[1][n] = c + 1 /\ \A m \in RouteName : m # n => counter'[1][m] = counter[1][m]
  <2> HIDE DEF c
  <2> QED  BY <1>1, <1>2, <1>3, <1>6
<1>8. RouteOf(r)' = RouteOf(r)
  BY <1>6 DEF RouteOf
<1>9. \A m : Holds(r, m)' <=> m = n
  BY <1>6, <1>8 DEF Holds
<1>10. \A x \in Request \ {r} : \A m : Holds(x, m)' <=> Holds(x, m)
  BY SameHolder DEF SameScan, Steady
<1>11. \A x \in Request \ {r} : scan'[x] = scan[x]
  BY DEF SameScan
<1>12. \A x \in Request : Holds(x, n) => scan[x].start \in Nat /\ scan[x].start < c
  BY DEF SlotInv, Holds, EngineInv, TypeOK
<1>13. c \in Nat
  BY <1>1, <1>4
<1> HIDE DEF c
<1>14. ASSUME NEW m \in RouteName PROVE counter[1][m] <= counter'[1][m]
  <2>1. CASE m = n
    BY <1>4, <1>7, <1>13, <2>1 DEF c
  <2>2. CASE m # n
    BY <1>4, <1>7, <2>2
  <2> QED  BY <2>1, <2>2
<1>15. ASSUME NEW m \in RouteName, Gap(m) PROVE Gap(m)'
  <2>1. PICK p \in 0 .. counter[1][m] - 1 : \A x \in Request : ~ (Holds(x, m) /\ scan[x].start = p)
    BY <1>15 DEF Gap
  <2>2. p \in 0 .. counter'[1][m] - 1
    <3>1. counter[1][m] \in Nat /\ counter'[1][m] \in Nat
      BY <1>4, <1>7, <1>13
    <3> QED  BY <1>14, <3>1
  <2>3. ASSUME NEW x \in Request, Holds(x, m)', scan'[x].start = p PROVE FALSE
    <3>1. CASE x = r
      <4>1. m = n /\ p = c /\ counter[1][m] = c
        BY <1>6, <1>9, <2>3, <3>1 DEF c
      <4> QED  BY <1>13, <4>1
    <3>2. CASE x # r
      BY <1>10, <1>11, <2>1, <2>3, <3>2
    <3> QED  BY <3>1, <3>2
  <2> QED  BY <2>2, <2>3 DEF Gap
<1>16. ApartInv'
  <2> SUFFICES ASSUME NEW x \in Request, NEW y \in Request, NEW m \in RouteName, x # y,
                      Holds(x, m)', Holds(y, m)'
               PROVE  scan'[x].start # scan'[y].start
    BY DEF ApartInv
  <2>1. CASE x = r
    <3>1. m = n /\ Holds(y, n) /\ scan'[y] = scan[y] /\ scan'[x].start = c
      BY <1>6, <1>9, <1>10, <1>11, <2>1
    <3> QED  BY <1>12, <1>13, <3>1
  <2>2. CASE y = r
    <3>1. m = n /\ Holds(x, n) /\ scan'[x] = scan[x] /\ scan'[y].start = c
      BY <1>6, <1>9, <1>10, <1>11, <2>2
    <3> QED  BY <1>12, <1>13, <3>1
  <2>3. CASE x # r /\ y # r
    <3>1. Holds(x, m) /\ Holds(y, m) /\ scan'[x] = scan[x] /\ scan'[y] = scan[y]
      BY <1>10, <1>11, <2>3
    <3> QED  BY <3>1 DEF ApartInv
  <2> QED  BY <2>1, <2>2, <2>3
<1>17. ASSUME scan[r].gen = 1 PROVE Gap(n)'
  <2> DEFINE p == scan[r].start
  <2>1. Holds(r, n)
    BY <1>17 DEF Holds
  <2>2. p \in 0 .. counter'[1][n] - 1 /\ p # c
    BY <1>7, <1>12, <1>13, <2>1
  <2>3. ASSUME NEW x \in Request, Holds(x, n)', scan'[x].start = p PROVE FALSE
    <3>1. CASE x = r
      BY <1>6, <2>2, <2>3, <3>1
    <3>2. CASE x # r
      <4>1. Holds(x, n) /\ scan[x].start = scan[r].start
        BY <1>10, <1>11, <2>3, <3>2
      <4> QED  BY <2>1, <3>2, <4>1 DEF ApartInv
    <3> QED  BY <3>1, <3>2
  <2>4. PICK q : q = p
    OBVIOUS
  <2> HIDE DEF p
  <2> QED  BY <2>2, <2>3, <2>4 DEF Gap
<1>18. c < c + 1
  BY <1>13
<1> QED  BY <1>6, <1>7, <1>14, <1>15, <1>16, <1>17, <1>18

\* The step of the call itself.
LEMMA SlotStepInv ==
    ASSUME EngineInv, CacheInv, CountersLow, NEW r \in Request, \A x \in Request : SlotInv(x), SeenInv(r),
           ApartInv, ScanStep(r), \A x \in Request \ {r} : SameScan(x),
           loaded' = loaded, registry' = registry, EngineInv'
    PROVE  /\ SlotInv(r)' /\ ApartInv'
           /\ \A n \in RouteName : (Gap(n) => Gap(n)') /\ counter[1][n] <= counter'[1][n]
<1> DEFINE GapsStay == \A n \in RouteName : (Gap(n) => Gap(n)') /\ counter[1][n] <= counter'[1][n]
<1> USE DEF InScan, Waiting, Unscanned, Early
<1>1. /\ pc[r] \in Label /\ scan[r] \in [gen : Nat, start : Nat, i : Nat]
      /\ tried[r] \in Seq(Addr) /\ TypeOK'
  BY DEF EngineInv, TypeOK
<1>2. SlotInv(r) /\ lb_cache = 1
  BY DEF CacheInv, EngineInv, TypeOK
<1>3. \A x \in Request \ {r} : (\A n : Holds(x, n)' <=> Holds(x, n)) /\ scan'[x] = scan[x]
  BY SameHolder DEF SameScan, Steady
<1>4. ASSUME counter' = counter, \A n : Holds(r, n)' <=> Holds(r, n),
             scan[r].gen = 1 => scan'[r].start = scan[r].start
      PROVE  GapsStay /\ ApartInv' /\ \A n \in RouteName : Gap(n) <=> Gap(n)'
  <2>1. \A x \in Request, n \in RouteName : Holds(x, n)' <=> Holds(x, n)
    BY <1>3, <1>4
  <2>2. \A x \in Request, n \in RouteName : Holds(x, n) => scan'[x].start = scan[x].start
    BY <1>3, <1>4 DEF Holds
  <2>3. ApartInv' /\ \A n \in RouteName : Gap(n) <=> Gap(n)'
    BY <1>4, <2>1, <2>2, NoSlotTaken
  <2>4. \A n \in RouteName : counter[1][n] \in Nat
    <3>1. counter \in [1 .. MaxLoads -> [RouteName -> 0 .. UsizeMod - 1]]
      BY DEF EngineInv, TypeOK
    <3>2. 1 \in 1 .. MaxLoads
      BY FirstLoaded
    <3> QED  BY <3>1, <3>2, EngineAssumption
  <2> QED  BY <1>4, <2>3, <2>4
<1>5. CASE Rests(r) \/ Moves(r)
  <2>1. SameScan(r) /\ counter' = counter /\ (pc'[r] = pc[r] \/ Moves(r))
    BY <1>5 DEF Rests, Moves
  <2>2. GapsStay /\ ApartInv'
    BY <1>4, <2>1, SameHolder DEF SameScan, Steady
  <2>3. SlotInv(r)'
    BY <1>1, <1>2, <2>1, <2>2, SameSlotInv
  <2> QED  BY <2>2, <2>3
<1>6. CASE FirstRoutes(r)
  <2>1. /\ scan[r].gen = 0 /\ scan'[r] = scan[r] /\ upstream[r] = None /\ upstream'[r] = None
        /\ tried'[r] = << >> /\ counter' = counter /\ pc'[r] \in Early
    BY <1>2, <1>6 DEF FirstRoutes, SlotInv
  <2>2. \A n : ~ Holds(r, n) /\ ~ Holds(r, n)'
    BY <2>1 DEF Holds
  <2>3. SlotInv(r)'
    BY <2>1 DEF SlotInv
  <2> QED  BY <1>4, <2>1, <2>2, <2>3
<1>7. CASE LosesAttempt(r)
  <2>1. /\ route'[r] = route[r] /\ upstream'[r] = upstream[r] /\ scan'[r] = scan[r]
        /\ counter' = counter /\ tried'[r] # << >> /\ pc[r] \in Waiting /\ pc'[r] \in {"pick", "done"}
    BY <1>7 DEF LosesAttempt
  <2>2. GapsStay /\ ApartInv' /\ \A n \in RouteName : Gap(n) <=> Gap(n)'
    BY <1>4, <2>1, SameHolder
  <2>3. /\ scan[r].gen = 1 /\ route[r] # NoRoute /\ scan[r].start < counter[1][RouteOf(r).name]
        /\ AllUp /\ upstream[r] # None => upstream[r] = CandidateAt(r, 0) \/ Gap(RouteOf(r).name)
    BY <1>2, <2>1 DEF SlotInv
  <2>4. PICK n \in RouteName : RouteOf(r).name = n
    BY <2>3, FirstLoaded, HeldSched
  <2>5. RouteOf(r)' = RouteOf(r) /\ CandidateAt(r, 0)' = CandidateAt(r, 0) /\ (AllUp' <=> AllUp)
    BY <2>1, SameCandidates DEF RouteOf, AllUp, Healthy
  <2>6. /\ AllUp' /\ upstream'[r] # None => upstream'[r] = CandidateAt(r, 0)' \/ Gap(n)'
        /\ scan'[r].start < counter'[1][n]
    BY <2>1, <2>2, <2>3, <2>4, <2>5
  <2>7. Gap(RouteOf(r).name)' <=> Gap(n)'
    BY <2>4, <2>5 DEF Gap
  <2>8. SlotInv(r)'
    BY <2>1, <2>3, <2>4, <2>5, <2>6, <2>7 DEF SlotInv
  <2> QED  BY <2>2, <2>8
<1>8. CASE TakesSlot(r)
  <2>1. Steady(r) /\ upstream'[r] = upstream[r] /\ pc[r] = "pick" /\ pc'[r] = "prefer"
    BY <1>8 DEF TakesSlot
  <2>2. PICK n \in RouteName : RouteOf(r).name = n
    BY <2>1, ScanSchedType
  <2>3. /\ GapsStay /\ ApartInv'
        /\ scan'[r].gen = 1 /\ scan'[r].i = 0 /\ scan'[r].start < counter'[1][n]
        /\ scan[r].gen = 1 => Gap(n)'
    BY <1>8, <2>2, SlotTaken
  <2>4. route[r] # NoRoute
    BY <2>1 DEF EngineInv, CallInv, RouteKnown, Routed
  <2>5. upstream[r] # None \/ tried[r] # << >> => scan[r].gen = 1
    BY <1>2 DEF SlotInv
  <2>6. RouteOf(r)' = RouteOf(r)
    BY <2>1 DEF RouteOf, Steady
  <2>7. Gap(RouteOf(r).name)' <=> Gap(n)'
    BY <2>2, <2>6 DEF Gap
  <2>8. SlotInv(r)'
    BY <2>1, <2>2, <2>3, <2>4, <2>5, <2>6, <2>7 DEF SlotInv, Steady
  <2> QED  BY <2>3, <2>8
<1>9. CASE TakesUp(r) \/ PassesOver(r) \/ LooksAgain(r) \/ TakesAny(r)
  <2>1. /\ pc[r] \in InScan /\ Steady(r) /\ counter' = counter
        /\ scan'[r].gen = scan[r].gen /\ scan'[r].start = scan[r].start
    BY <1>1, <1>9 DEF TakesUp, PassesOver, LooksAgain, TakesAny, Attempts
  <2>2. RouteOf(r)' = RouteOf(r) /\ CandidateAt(r, 0)' = CandidateAt(r, 0) /\ (AllUp' <=> AllUp)
    BY <2>1, SameCandidates DEF RouteOf, AllUp, Healthy, Steady
  <2>3. GapsStay /\ ApartInv' /\ \A n \in RouteName : Gap(n) <=> Gap(n)'
    <3>1. \A n : Holds(r, n)' <=> Holds(r, n)
      BY <2>1, <2>2 DEF Holds
    <3> QED  BY <1>4, <2>1, <3>1
  <2>4. /\ scan[r].gen = 1 /\ route[r] # NoRoute /\ scan[r].start < counter[1][RouteOf(r).name]
        /\ AllUp /\ upstream[r] # None => upstream[r] = CandidateAt(r, 0) \/ Gap(RouteOf(r).name)
        /\ AllUp => \/ pc[r] = "prefer" /\ scan[r].i = 0 /\ tried[r] = << >>
                    \/ Gap(RouteOf(r).name)
    BY <1>2, <2>1 DEF SlotInv
  <2>5. PICK n \in RouteName : RouteOf(r).name = n
    BY <2>1, ScanSchedType
  <2>6. Gap(RouteOf(r).name)' <=> Gap(n)'
    BY <2>2, <2>5 DEF Gap
  <2>7. ASSUME AllUp, ~ Acceptable(r) PROVE Gap(n)'
    <3>1. CandidateAt(r, scan[r].i) \in Addr
      <4>1. scan[r].i \in Nat
        BY <1>1
      <4> QED  BY <2>1, <4>1, ScanType
    <3>2. ~ (pc[r] = "prefer" /\ tried[r] = << >>)
      BY <2>7, <3>1 DEF Acceptable, AllUp, Tried
    <3> QED  BY <2>3, <2>4, <2>5, <2>7, <3>2
  <2>8. /\ pc'[r] = "connect" \/ (pc'[r] \in InScan /\ upstream'[r] = upstream[r] /\ ~ Acceptable(r))
        /\ AllUp /\ upstream'[r] # None => upstream'[r] = CandidateAt(r, 0) \/ Gap(n)'
    <3>1. CASE TakesUp(r)
      BY <2>3, <2>4, <2>5, <3>1 DEF TakesUp, Attempts
    <3>2. CASE PassesOver(r) \/ LooksAgain(r)
      BY <2>1, <2>3, <2>4, <2>5, <3>2 DEF PassesOver, LooksAgain
    <3>3. CASE TakesAny(r)
      BY <3>3 DEF TakesAny, Attempts
    <3> QED  BY <1>9, <3>1, <3>2, <3>3
  <2>9. SlotInv(r)'
    <3>1. scan'[r].gen = 1 /\ route'[r] # NoRoute /\ scan'[r].start < counter'[1][n]
      BY <2>1, <2>4, <2>5 DEF Steady
    <3>2. AllUp' /\ upstream'[r] # None => upstream'[r] = CandidateAt(r, 0)' \/ Gap(RouteOf(r).name)'
      BY <2>2, <2>6, <2>8
    <3>3. AllUp' /\ pc'[r] \in InScan => Gap(RouteOf(r).name)'
      BY <2>2, <2>6, <2>7, <2>8
    <3>4. pc'[r] \notin Unscanned
      BY <2>8
    <3> QED  BY <2>2, <2>5, <3>1, <3>2, <3>3, <3>4 DEF SlotInv
  <2> QED  BY <2>3, <2>9
<1> QED  BY <1>5, <1>6, <1>7, <1>8, <1>9 DEF ScanStep

-----------------------------------------------------------------------------
(* The theorems on scans *)

LEMMA SettledIsEngine == SettledSpec => Spec
<1>1. [SettledNext]_engineVars => [EngineNext]_engineVars
  BY DEF SettledNext
<1> QED  BY <1>1, PTL DEF SettledSpec, Spec

\* The registry changes before the first call arrives, if at all.
LEMMA SettledProbe ==
    ASSUME [SettledNext]_engineVars, ~ \E r \in Request : CallNext(r)
    PROVE  /\ \A x \in Request : SameScan(x) /\ pc'[x] = pc[x]
           /\ loaded' = loaded /\ counter' = counter
           /\ registry' = registry \/ \A x \in Request : pc[x] = "idle"
<1> USE DEF engineVars, routing, attempt, caches, SameScan, Steady
<1>1. CASE Probing
  <2>1. PICK a \in ProbedBy(StartConfig), healthy \in BOOLEAN : SetHealth(a, healthy)
    BY <1>1, Zenon DEF Probing
  <2>2. /\ \A x \in Request : SameScan(x) /\ pc'[x] = pc[x]
        /\ loaded' = loaded /\ counter' = counter
    BY <2>1 DEF SetHealth
  <2>3. registry' # registry => \A x \in Request : pc[x] = "idle"
    BY DEF SettledNext
  <2> QED  BY <2>2, <2>3
<1>2. CASE UNCHANGED engineVars
  BY <1>2
<1> QED  BY <1>1, <1>2 DEF SettledNext, EngineNext, Quiescent

LEMMA SeenNext ==
    EngineInv /\ (\A r \in Request : SeenInv(r)) /\ [SettledNext]_engineVars
        => (\A r \in Request : SeenInv(r))'
<1> SUFFICES ASSUME EngineInv, \A r \in Request : SeenInv(r), [SettledNext]_engineVars,
                    NEW x \in Request
             PROVE  SeenInv(x)'
  OBVIOUS
<1>1. ASSUME NEW r \in Request, CallNext(r) PROVE SeenInv(x)'
  <2>1. loaded' = loaded /\ registry' = registry
    BY <1>1, CachesStay, RegistryStays
  <2>2. CASE x = r
    BY <1>1, <2>1, <2>2, CallIsScanStep, SeenStepInv
  <2>3. CASE x # r
    <3>1. ClockTyped /\ ScanTyped /\ TypeOK
      BY DEF EngineInv, TypeOK, ClockTyped, ScanTyped
    <3>2. SameScan(x) /\ pc'[x] = pc[x]
      BY <1>1, <2>3, <3>1, OthersSameScan
    <3> QED  BY <2>1, <3>2, SameSeenInv
  <2> QED  BY <2>2, <2>3
<1>2. CASE ~ \E r \in Request : CallNext(r)
  <2>1. SameScan(x) /\ pc'[x] = pc[x] /\ loaded' = loaded
        /\ (registry' = registry \/ pc[x] = "idle")
    BY <1>2, SettledProbe
  <2>2. pc'[x] = "idle" => SeenInv(x)'
    BY DEF SeenInv, InScan
  <2> QED  BY <2>1, <2>2, SameSeenInv
<1> QED  BY <1>1, <1>2

LEMMA SpreadNext ==
    EngineInv /\ EngineInv' /\ BoundsInv /\ CountersLow /\ (\A r \in Request : SeenInv(r)) /\ SpreadInv
        /\ [SettledNext]_engineVars => SpreadInv'
<1> SUFFICES ASSUME EngineInv, EngineInv', BoundsInv, CountersLow, \A r \in Request : SeenInv(r),
                    SpreadInv, [SettledNext]_engineVars
             PROVE  SpreadInv'
  OBVIOUS
<1>1. (\A x \in Request : SlotInv(x)) /\ ApartInv /\ CacheInv /\ TypeOK'
  BY DEF SpreadInv, BoundsInv, EngineInv
<1>2. ASSUME NEW r \in Request, CallNext(r) PROVE SpreadInv'
  <2>1. loaded' = loaded /\ registry' = registry /\ ScanStep(r)
    BY <1>2, CachesStay, RegistryStays, CallIsScanStep
  <2>2. \A x \in Request \ {r} : SameScan(x) /\ pc'[x] = pc[x]
    <3>1. ClockTyped /\ ScanTyped /\ TypeOK
      BY DEF EngineInv, TypeOK, ClockTyped, ScanTyped
    <3> QED  BY <1>2, <3>1, OthersSameScan
  <2>3. /\ SlotInv(r)' /\ ApartInv'
        /\ \A n \in RouteName : (Gap(n) => Gap(n)') /\ counter[1][n] <= counter'[1][n]
    BY <1>1, <2>1, <2>2, SlotStepInv
  <2>4. ASSUME NEW x \in Request, x # r PROVE SlotInv(x)'
    BY <1>1, <2>1, <2>2, <2>3, <2>4, SameSlotInv
  <2> QED  BY <2>3, <2>4 DEF SpreadInv
<1>3. CASE ~ \E r \in Request : CallNext(r)
  <2>1. /\ \A x \in Request : SameScan(x) /\ pc'[x] = pc[x]
        /\ loaded' = loaded /\ counter' = counter
        /\ registry' = registry \/ \A x \in Request : pc[x] = "idle"
    BY <1>3, SettledProbe
  <2>2. (\A n \in RouteName : Gap(n)' <=> Gap(n)) /\ ApartInv'
    <3>1. \A x \in Request, n \in RouteName : Holds(x, n)' <=> Holds(x, n)
      BY <2>1, SameHolder DEF SameScan, Steady
    <3>2. \A x \in Request, n \in RouteName : Holds(x, n) => scan'[x].start = scan[x].start
      BY <2>1 DEF SameScan
    <3> QED  BY <1>1, <2>1, <3>1, <3>2, NoSlotTaken
  <2>3. ASSUME NEW x \in Request PROVE SlotInv(x)'
    <3>1. CASE registry' = registry
      <4>1. \A n \in RouteName : counter[1][n] \in Nat
        <5>1. counter \in [1 .. MaxLoads -> [RouteName -> 0 .. UsizeMod - 1]]
          BY DEF EngineInv, TypeOK
        <5> QED  BY <5>1, FirstLoaded, EngineAssumption
      <4>2. \A n \in RouteName : (Gap(n) => Gap(n)') /\ counter[1][n] <= counter'[1][n]
        BY <2>1, <2>2, <4>1
      <4> QED  BY <1>1, <2>1, <3>1, <4>2, SameSlotInv
    <3>2. CASE \A y \in Request : pc[y] = "idle"
      <4>1. scan[x].gen = 0 /\ upstream[x] = None /\ tried[x] = << >>
        BY <1>1, <3>2 DEF SlotInv, Early, Unscanned
      <4>2. /\ scan'[x].gen = 0 /\ upstream'[x] = None /\ tried'[x] = << >>
            /\ pc'[x] = "idle"
        BY <2>1, <3>2, <4>1 DEF SameScan, Steady
      <4> QED  BY <4>2 DEF SlotInv, InScan, Waiting
    <3> QED  BY <2>1, <3>1, <3>2
  <2> QED  BY <2>2, <2>3 DEF SpreadInv
<1> QED  BY <1>2, <1>3

LEMMA ScanInit == Init => (\A r \in Request : SeenInv(r)) /\ SpreadInv
<1> SUFFICES ASSUME Init PROVE (\A r \in Request : SeenInv(r)) /\ SpreadInv
  OBVIOUS
<1>1. \A x \in Request : /\ pc[x] = "idle" /\ scan[x].gen = 0
                         /\ tried[x] = << >> /\ upstream[x] = None
  BY DEF Init
<1>2. ASSUME NEW x \in Request PROVE SeenInv(x) /\ SlotInv(x)
  BY <1>1 DEF SeenInv, SlotInv, InScan, Early, Unscanned, Waiting
<1>3. ApartInv
  BY <1>1 DEF ApartInv, Holds
<1> QED  BY <1>2, <1>3 DEF SpreadInv

LEMMA SeenInvariant == SettledSpec => [](\A r \in Request : SeenInv(r))
<1>1. Init => \A r \in Request : SeenInv(r)
  BY ScanInit
<1> QED  BY <1>1, SeenNext, SettledIsEngine, EngineInvariant, PTL DEF SettledSpec

\* next_healthy (upstream.rs 60-110) leaves no better upstream unused: an
\* untried healthy one, else any healthy one, else any; unless the counter
\* wraps around in the middle of the scan, at a width that the length of the
\* schedule does not divide.
THEOREM BestIsTaken ==
    SettledSpec => []((\A r \in Request : pc[r] = "connect" => NoWrap(r)) => BestAvailable)
<1>1. EngineInv /\ (\A r \in Request : SeenInv(r)) =>
          ((\A r \in Request : pc[r] = "connect" => NoWrap(r)) => BestAvailable)
  BY BestIsAvailable DEF BestAvailable
<1> QED  BY <1>1, SettledIsEngine, EngineInvariant, SeenInvariant, PTL

LEMMA SpreadIsFair ==
    ASSUME EngineInv, BoundsInv, SpreadInv
    PROVE  FairSpread
<1> SUFFICES ASSUME NEW g \in DOMAIN loaded, NEW n \in RouteName, AllUp,
                    Cardinality({r \in Request : /\ scan[r].gen = g /\ RouteOf(r).name = n
                                                 /\ upstream[r] # None}) = counter[g][n],
                    NEW a \in Addr
             PROVE  LET users == {r \in Request : /\ scan[r].gen = g /\ RouteOf(r).name = n
                                                  /\ upstream[r] # None}
                        sched == SchedOf(g, n)
                    IN  Cardinality({r \in users : upstream[r] = a}) =
                        Cardinality({k \in 1 .. counter[g][n] : sched[((k - 1) % Len(sched)) + 1] = a})
  BY DEF FairSpread, AllUp
<1> DEFINE users == {r \in Request : scan[r].gen = g /\ RouteOf(r).name = n /\ upstream[r] # None}
           sched == SchedOf(g, n)
           c == counter[g][n]
           taken(k) == sched[((k - 1) % Len(sched)) + 1]
           slot == [r \in users |-> scan[r].start + 1]
<1>1. g = 1
  BY DEF BoundsInv, CacheInv
<1>2. c \in Nat /\ c < UsizeMod /\ UsizeMod \in Nat
  <2>1. counter \in [1 .. MaxLoads -> [RouteName -> 0 .. UsizeMod - 1]]
    BY DEF EngineInv, TypeOK
  <2> QED  BY <1>1, <2>1, FirstLoaded, EngineAssumption
<1>3. \A r \in users : /\ Holds(r, n) /\ scan[r].start \in Nat /\ scan[r].start < c
                       /\ upstream[r] = CandidateAt(r, 0) \/ Gap(n)
  BY <1>1 DEF SpreadInv, SlotInv, Holds, EngineInv, TypeOK
<1>4. \A r \in users : CandidateAt(r, 0) = sched[(((scan[r].start + 0) % UsizeMod) % Len(sched)) + 1]
  BY DEF CandidateAt, Candidate, ScanSched
<1>5. \A r, x \in users : r # x => scan[r].start # scan[x].start
  BY <1>3 DEF SpreadInv, ApartInv
<1>6. Gap(n) <=> \E p \in 0 .. c - 1 : \A x \in Request : ~ (Holds(x, n) /\ scan[x].start = p)
  BY <1>1 DEF Gap
<1>7. Cardinality(users) = c
  OBVIOUS
<1> HIDE DEF users, sched, c
<1>8. slot \in [users -> 1 .. c]
  BY <1>2, <1>3
<1>9. \A r, x \in users : slot[r] = slot[x] => r = x
  BY <1>3, <1>5
<1>11. IsFiniteSet(users) /\ \A k \in 1 .. c : \E r \in users : slot[r] = k
  <2> HIDE DEF slot
  <2> QED  BY <1>2, <1>7, <1>8, <1>9, PlacesFilled
<1>12. ~ Gap(n)
  <2> SUFFICES ASSUME NEW p \in 0 .. c - 1 PROVE \E x \in Request : Holds(x, n) /\ scan[x].start = p
    BY <1>6
  <2>1. p + 1 \in 1 .. c /\ p \in Nat
    BY <1>2
  <2>2. PICK r \in users : slot[r] = p + 1
    BY <1>11, <2>1
  <2>3. scan[r].start = p
    BY <1>3, <2>1, <2>2
  <2> QED  BY <1>3, <2>3 DEF users
<1>13. \A r \in users : slot[r] \in 1 .. c /\ upstream[r] = taken(slot[r])
  <2> TAKE r \in users
  <2> DEFINE p == scan[r].start
  <2>1. p \in Nat /\ p < c /\ slot[r] = p + 1
    BY <1>3
  <2>2. upstream[r] = sched[(((p + 0) % UsizeMod) % Len(sched)) + 1]
    BY <1>3, <1>4, <1>12
  <2> HIDE DEF p, slot
  <2>3. (p + 0) % UsizeMod = p /\ slot[r] - 1 = p /\ slot[r] \in 1 .. c
    BY <1>2, <2>1
  <2> QED  BY <2>2, <2>3
<1> DEFINE mine == {r \in users : upstream[r] = a}
           slots == {k \in 1 .. c : taken(k) = a}
           own == [r \in mine |-> slot[r]]
<1> HIDE DEF taken
<1>14. own \in [mine -> slots]
  <2> HIDE DEF slot
  <2> QED  BY <1>13
<1>15. \A r, x \in mine : own[r] = own[x] => r = x
  <2> HIDE DEF slot
  <2> QED  BY <1>9
<1>16. \A k \in slots : \E r \in mine : own[r] = k
  <2> HIDE DEF slot
  <2> QED  BY <1>11, <1>13
<1>17. Cardinality(slots) = Cardinality(mine)
  <2>1. IsFiniteSet(mine)
    BY <1>11, FS_Subset
  <2> HIDE DEF own, mine, slots
  <2> QED  BY <1>14, <1>15, <1>16, <2>1, PairsCount
<1> QED  BY <1>17 DEF users, sched, c, taken

\* fetch_add (upstream.rs 63) hands every call a slot of its own, so while all
\* upstreams are healthy concurrent calls share them as the schedule does, until
\* the counter has counted through its width.
THEOREM SpreadFair == SettledSpec /\ []CountersLow => []FairSpread
<1>1. Init => SpreadInv
  BY ScanInit
<1>2. EngineInv /\ BoundsInv /\ SpreadInv => FairSpread
  BY SpreadIsFair
<1> QED  BY <1>1, <1>2, SpreadNext, SeenInvariant, SettledIsEngine, EngineInvariant, BoundsInvariant, PTL
         DEF SettledSpec

=============================================================================
