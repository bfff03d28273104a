------------------------- MODULE ProxyEngineProofs -------------------------
(***************************************************************************)
(* Proofs about ProxyEngine, for every configuration and any number of     *)
(* calls.                                                                  *)
(***************************************************************************)
EXTENDS ProxyEngine, UpstreamProofs, TLAPS

-----------------------------------------------------------------------------
(* The inductive invariant *)

Routed == {"lookup", "filter", "pick", "prefer", "any", "connect", "sent"}
BeforeAdmission == {"idle", "arrived", "lookup", "filter"}
BeforeAttempt == BeforeAdmission \cup {"pick", "prefer", "any"}
BeforeSend == BeforeAttempt \cup {"connect"}

\* The route, the balancer and the upstream a call works with exist.
RouteKnown(r) ==
    /\ pc[r] \in Routed => route[r] # NoRoute
    /\ route[r] # NoRoute =>
          /\ route[r].gen \in DOMAIN loaded
          /\ route[r].index \in DOMAIN Config[loaded[route[r].gen]]

ScanKnown(r) ==
    pc[r] \in {"prefer", "any"} =>
        /\ scan[r].gen \in DOMAIN loaded
        /\ Len(ScanSched(r)) > 0

AttemptKnown(r) == pc[r] \in {"connect", "sent"} => upstream[r] \in Addr

\* A request is written once the call has connected, and then only waited for.
SentOnce(r) ==
    /\ pc[r] \in BeforeSend => delivered[r] = << >>
    /\ pc[r] = "sent" => Len(delivered[r]) = 1
    /\ Len(delivered[r]) <= 1

\* The body is taken by an attempt only when no other attempt may follow.
BodyHeld(r) ==
    /\ pc[r] # "panicked"
    /\ pc[r] \in BeforeAttempt => body[r] = "held"
    /\ pc[r] \in {"connect", "sent"} /\ CanRetry(r) => body[r] = "held"
    /\ pc[r] \in {"connect", "sent"} \/ delivered[r] # << >> =>
          req[r].empty \/ body[r] = "taken"

\* Answers come last, and refusals before anything has left the proxy.
RefusedEarly(r) ==
    /\ pc[r] # "done" => status[r] = "none"
    /\ pc[r] \in BeforeAdmission => mirrored[r] = "no"
    /\ status[r] \in {"not_found", "denied", "no_upstream"} => delivered[r] = << >>
    /\ status[r] \in {"not_found", "denied"} => mirrored[r] = "no"

CallInv(r) ==
    /\ RouteKnown(r) /\ ScanKnown(r) /\ AttemptKnown(r)
    /\ SentOnce(r) /\ BodyHeld(r) /\ RefusedEarly(r)

EngineInv == TypeOK /\ \A r \in Request : CallInv(r)

-----------------------------------------------------------------------------
(* What a call reads is well typed *)

\* A candidate of a non-empty schedule is an upstream address.
LEMMA CandidateType ==
    ASSUME NEW sched \in Seq(Addr), Len(sched) > 0,
           NEW start \in Nat, NEW i \in Nat
    PROVE  Candidate(sched, start, i) \in Addr
<1>1. (start + i) % UsizeMod \in Nat
  BY EngineAssumption
<1>2. ((start + i) % UsizeMod) % Len(sched) \in 0 .. Len(sched) - 1
  BY <1>1
<1> QED
  BY <1>2 DEF Candidate

\* The routes of a configuration are numbered from 1.
LEMMA ConfigType ==
    ASSUME NEW c \in ConfigId, NEW k \in DOMAIN Config[c]
    PROVE  k \in Nat /\ Config[c][k] \in RouteConfig
<1>1. Config[c] \in Seq(RouteConfig)
  BY EngineAssumption
<1> HIDE DEF RouteConfig
<1> QED  BY <1>1

\* The last route of a name provides the upstreams of its balancer.
LEMMA LbPoolsType ==
    ASSUME NEW c \in ConfigId, NEW n \in RouteName
    PROVE  /\ LbPools(c, n) \in PoolList(Addr)
           /\ Named(c, n) # {} => \E k \in Named(c, n) : LbPools(c, n) = Config[c][k].upstream
<1>1. CASE Named(c, n) = {}
  <2>1. LbPools(c, n) = << >>
    BY <1>1 DEF LbPools
  <2>2. << >> \in PoolList(Addr)
    BY DEF PoolList
  <2> QED  BY <1>1, <2>1, <2>2
<1>2. CASE Named(c, n) # {}
  <2> DEFINE N == Named(c, n)
             last == CHOOSE k \in N : \A j \in N : j <= k
             Above == {m \in Nat : \A j \in N : j <= m}
  <2>1. /\ Config[c] \in Seq(RouteConfig) /\ N \subseteq 1 .. Len(Config[c])
        /\ Len(Config[c]) \in Nat
    <3>1. Config[c] \in Seq(RouteConfig)
      BY EngineAssumption
    <3> HIDE DEF RouteConfig
    <3> QED  BY <3>1 DEF Named
  <2> HIDE DEF N
  <2>2. PICK m \in Above : \A k \in Above : m <= k
    <3>1. Len(Config[c]) \in Above
      BY <2>1
    <3> QED  BY <3>1, LeastNatural
  <2>3. m \in N
    <3> SUFFICES ASSUME m \notin N PROVE FALSE
      OBVIOUS
    <3>1. PICK j \in N : TRUE
      BY <1>2 DEF N
    <3>2. \A k \in N : k \in Nat /\ k >= 1 /\ k < m
      BY <2>1, <2>2
    <3>3. m - 1 \in Nat /\ \A k \in N : k <= m - 1
      BY <3>1, <3>2
    <3> QED  BY <2>2, <3>3
  <2>4. last \in N
    BY <2>2, <2>3
  <2>5. LbPools(c, n) = Config[c][last].upstream
    BY <1>2 DEF LbPools, N
  <2> HIDE DEF last
  <2>6. Config[c][last] \in RouteConfig
    BY <2>1, <2>4, ConfigType
  <2>7. Config[c][last].upstream \in PoolList(Addr)
    BY ONLY <2>6 DEF RouteConfig, PoolList
  <2> QED  BY <2>4, <2>5, <2>7 DEF N
<1> QED  BY <1>1, <1>2

\* The schedules hold the addresses of the upstreams they are made from, and
\* are empty only for want of upstreams.
LEMMA SchedulesKnown ==
    \A c \in ConfigId, n \in RouteName :
        LET sched == LbSchedule[c][n]
            pools == LbPools(c, n)
        IN  /\ sched \in Seq(Addr)
            /\ \A i \in 1 .. Len(sched) : \E k \in DOMAIN pools : pools[k].addr = sched[i]
            /\ Named(c, n) # {} /\ (\A k \in Named(c, n) : Config[c][k].upstream # << >>)
                  => sched # << >>
<1> SUFFICES ASSUME NEW c \in ConfigId, NEW n \in RouteName
             PROVE  LET sched == Schedule(LbPools(c, n))
                        pools == LbPools(c, n)
                    IN  /\ sched \in Seq(Addr)
                        /\ \A i \in 1 .. Len(sched) :
                               \E k \in DOMAIN pools : pools[k].addr = sched[i]
                        /\ Named(c, n) # {} /\ (\A k \in Named(c, n) : Config[c][k].upstream # << >>)
                              => sched # << >>
  BY DEF LbSchedule
<1> DEFINE pools == LbPools(c, n)
<1>1. pools \in PoolList(Addr)
  BY LbPoolsType
<1>2. /\ Named(c, n) # {} /\ (\A k \in Named(c, n) : Config[c][k].upstream # << >>)
            => pools # << >>
  BY LbPoolsType
<1> HIDE DEF pools
<1>3. DOMAIN pools = 1 .. Len(pools)
  BY <1>1, PoolListLen
<1>4. Schedule(pools) \in Seq(Addr)
  BY <1>1, ScheduleExpands
<1>5. /\ Schedule(pools) = << >> <=> pools = << >>
      /\ \A p \in 1 .. Len(Schedule(pools)) :
             \E k \in 1 .. Len(pools) : Schedule(pools)[p] = pools[k].addr
  BY <1>1, ScheduleServes
<1> QED  BY <1>2, <1>3, <1>4, <1>5 DEF pools

\* The generations the caches hold are loaded.
LEMMA CacheType ==
    ASSUME EngineInv
    PROVE  /\ config_handle \in DOMAIN loaded /\ loaded[config_handle] \in ConfigId
           /\ config_handle \in Nat
           /\ lb_cache \in DOMAIN loaded /\ lb_cache \in 1 .. MaxLoads /\ lb_cache \in Nat
<1>1. /\ loaded \in Seq(ConfigId) /\ Len(loaded) \in 1 .. MaxLoads
      /\ config_handle \in 1 .. Len(loaded) /\ lb_cache \in 1 .. Len(loaded)
  BY Zenon DEF EngineInv, TypeOK
<1>2. MaxLoads \in Nat
  BY EngineAssumption
<1>3. DOMAIN loaded = 1 .. Len(loaded) /\ Len(loaded) \in Nat
  BY ONLY <1>1
<1>4. config_handle \in DOMAIN loaded /\ config_handle \in Nat /\ lb_cache \in DOMAIN loaded
  BY ONLY <1>1, <1>3
<1>5. loaded[config_handle] \in ConfigId
  BY ONLY <1>1, <1>4
<1>6. lb_cache \in 1 .. MaxLoads /\ lb_cache \in Nat
  BY ONLY <1>1, <1>2, <1>3
<1> QED  BY <1>4, <1>5, <1>6

\* The route of a call that has one.
LEMMA RouteType ==
    ASSUME EngineInv, NEW r \in Request, route[r] # NoRoute
    PROVE  RouteOf(r) \in RouteConfig
<1>1. route[r].gen \in DOMAIN loaded /\ loaded[route[r].gen] \in ConfigId
  BY DEF EngineInv, TypeOK, CallInv, RouteKnown
<1> QED  BY <1>1, ConfigType DEF EngineInv, CallInv, RouteKnown, RouteOf

\* The schedule of a generation and a name.
LEMMA SchedType ==
    ASSUME EngineInv, NEW g \in DOMAIN loaded, NEW n \in RouteName
    PROVE  SchedOf(g, n) \in Seq(Addr)
<1>1. loaded[g] \in ConfigId
  BY DEF EngineInv, TypeOK
<1> QED
  BY <1>1, SchedulesKnown DEF SchedOf

LEMMA ScanType ==
    ASSUME EngineInv, NEW r \in Request, pc[r] \in {"prefer", "any"}, NEW i \in Nat
    PROVE  CandidateAt(r, i) \in Addr
<1>1. RouteOf(r).name \in RouteName
  <2>1. route[r] # NoRoute
    BY DEF EngineInv, CallInv, RouteKnown, Routed
  <2>2. RouteOf(r) \in RouteConfig
    BY <2>1, RouteType
  <2> QED  BY ONLY <2>2 DEF RouteConfig
<1>2. ScanSched(r) \in Seq(Addr) /\ Len(ScanSched(r)) > 0
  BY <1>1, SchedType DEF EngineInv, CallInv, ScanKnown, ScanSched
<1>3. scan[r].start \in Nat
  BY DEF EngineInv, TypeOK
<1> QED
  BY <1>2, <1>3, CandidateType DEF CandidateAt

-----------------------------------------------------------------------------
(* A step of one call leaves the others alone *)

SameCall(x) ==
    /\ pc'[x] = pc[x] /\ req'[x] = req[x] /\ route'[x] = route[x] /\ scan'[x] = scan[x]
    /\ upstream'[x] = upstream[x] /\ body'[x] = body[x] /\ status'[x] = status[x]
    /\ delivered'[x] = delivered[x] /\ mirrored'[x] = mirrored[x]

LEMMA SameCallInv ==
    ASSUME NEW x \in Request, CallInv(x), loaded' = loaded, SameCall(x)
    PROVE  CallInv(x)'
<1> USE DEF SameCall, CallInv, RouteOf
<1>1. RouteKnown(x)' /\ AttemptKnown(x)'
  BY DEF RouteKnown, AttemptKnown, NoRoute, Routed
<1>2. ScanKnown(x)'
  BY DEF ScanKnown, ScanSched, SchedOf
<1>3. SentOnce(x)' /\ RefusedEarly(x)'
  BY DEF SentOnce, RefusedEarly, BeforeSend, BeforeAttempt, BeforeAdmission
<1>4. BodyHeld(x)'
  BY DEF BodyHeld, BeforeAttempt, BeforeAdmission, CanRetry, Replayable, MaxAttempts
<1> QED  BY <1>1, <1>2, <1>3, <1>4

LEMMA OneCallStep ==
    ASSUME EngineInv, NEW r \in Request, loaded' = loaded, TypeOK', CallInv(r)',
           \A x \in Request \ {r} : SameCall(x)
    PROVE  EngineInv'
BY SameCallInv DEF EngineInv

-----------------------------------------------------------------------------
(* The inductive invariant is inductive, one lemma for each action *)

LEMMA InitInv == Init => EngineInv
<1> SUFFICES ASSUME Init PROVE EngineInv
  OBVIOUS
<1>1. loaded \in Seq(ConfigId) /\ Len(loaded) = 1 /\ DOMAIN loaded = {1}
  BY EngineAssumption DEF Init
<1>2. StartPlugins \in 0 .. 1 /\ Len(loaded) \in 1 .. MaxLoads /\ 0 \in 0 .. UsizeMod - 1
  BY <1>1, EngineAssumption DEF StartPlugins
<1>3. /\ config_handle \in 1 .. Len(loaded)
      /\ lb_cache \in 1 .. Len(loaded)
      /\ plugin_cache \in 0 .. Len(loaded)
  BY <1>1, <1>2 DEF Init
<1>4. /\ counter \in [1 .. MaxLoads -> [RouteName -> 0 .. UsizeMod - 1]]
      /\ route \in [Request -> [gen : Nat, index : Nat]]
      /\ plugin \in [Request -> 0 .. MaxLoads]
      /\ scan \in [Request -> [gen : Nat, start : Nat, i : Nat]]
  BY <1>2, EngineAssumption DEF Init, NoRoute
<1>5. /\ pc \in [Request -> Label]
      /\ tried \in [Request -> Seq(Addr)]
      /\ delivered \in [Request -> Seq(Addr)]
  BY DEF Init, Label
<1>6. status \in [Request -> Code] /\ upstream \in [Request -> Addr \cup {None}]
  BY DEF Init, Code
<1>7. TypeOK
  BY <1>1, <1>2, <1>3, <1>4, <1>5, <1>6 DEF Init, TypeOK
<1>8. ASSUME NEW r \in Request PROVE CallInv(r)
  BY DEF Init, CallInv, RouteKnown, ScanKnown, AttemptKnown, SentOnce, BodyHeld, RefusedEarly,
         Routed, BeforeSend, BeforeAttempt, BeforeAdmission
<1> QED  BY <1>7, <1>8 DEF EngineInv

LEMMA ReceiveInv ==
    ASSUME EngineInv, NEW r \in Request, Receive(r)
    PROVE  EngineInv'
<1> USE DEF Receive, Goto, metrics, caches, routing, attempt, clock, outside
<1>1. pc' \in [Request -> Label]
  BY DEF EngineInv, TypeOK, Label, Running, Ended
<1>2. http_requests_total' \in Nat
  BY DEF EngineInv, TypeOK
<1>3. TypeOK'
  BY <1>1, <1>2, Zenon DEF EngineInv, TypeOK
<1>4. \A x \in Request \ {r} : SameCall(x)
  BY DEF EngineInv, TypeOK, SameCall
<1>5. /\ loaded' = loaded
      /\ pc[r] = "idle" /\ pc'[r] = "arrived"
      /\ route'[r] = route[r] /\ req'[r] = req[r]
      /\ delivered'[r] = delivered[r] /\ body'[r] = body[r]
      /\ status'[r] = status[r] /\ mirrored'[r] = mirrored[r]
  BY DEF EngineInv, TypeOK
<1>6. RouteKnown(r)' /\ ScanKnown(r)' /\ AttemptKnown(r)'
  BY <1>5 DEF EngineInv, CallInv, RouteKnown, ScanKnown, AttemptKnown, NoRoute,
         Routed, ScanSched, RouteOf, SchedOf
<1>7. SentOnce(r)' /\ RefusedEarly(r)'
  BY <1>5 DEF EngineInv, CallInv, SentOnce, RefusedEarly, BeforeSend, BeforeAttempt,
         BeforeAdmission
<1>8. BodyHeld(r)'
  BY <1>5 DEF EngineInv, CallInv, BodyHeld, BeforeAttempt, BeforeAdmission,
         CanRetry, Replayable, MaxAttempts, RouteOf
<1> QED  BY <1>3, <1>4, <1>6, <1>7, <1>8, OneCallStep DEF CallInv

LEMMA NotFoundInv ==
    ASSUME EngineInv, NEW r \in Request, NotFound(r)
    PROVE  EngineInv'
<1> USE DEF NotFound, Answer, Goto, metrics, caches, routing, attempt, clock, outside
<1>1. pc' \in [Request -> Label]
  BY DEF EngineInv, TypeOK, Label, Running, Ended
<1>2. status' \in [Request -> Code]
  BY DEF EngineInv, TypeOK, Code
<1>3. TypeOK'
  BY <1>1, <1>2, Zenon DEF EngineInv, TypeOK
<1>4. \A x \in Request \ {r} : SameCall(x)
  BY DEF EngineInv, TypeOK, SameCall
<1>5. /\ loaded' = loaded
      /\ pc[r] = "arrived" /\ pc'[r] = "done"
      /\ route'[r] = route[r] /\ req'[r] = req[r]
      /\ delivered'[r] = delivered[r] /\ body'[r] = body[r]
      /\ status'[r] = "not_found"
      /\ mirrored'[r] = mirrored[r]
  BY DEF EngineInv, TypeOK
<1>6. RouteKnown(r)' /\ ScanKnown(r)' /\ AttemptKnown(r)'
  BY <1>5 DEF EngineInv, CallInv, RouteKnown, ScanKnown, AttemptKnown, NoRoute,
         Routed, ScanSched, RouteOf, SchedOf
<1>7. SentOnce(r)' /\ RefusedEarly(r)'
  BY <1>5 DEF EngineInv, CallInv, SentOnce, RefusedEarly, BeforeSend, BeforeAttempt,
         BeforeAdmission
<1>8. BodyHeld(r)'
  BY <1>5 DEF EngineInv, CallInv, BodyHeld, BeforeAttempt, BeforeAdmission,
         CanRetry, Replayable, MaxAttempts, RouteOf
<1> QED  BY <1>3, <1>4, <1>6, <1>7, <1>8, OneCallStep DEF CallInv

LEMMA SelectRouteInv ==
    ASSUME EngineInv, NEW r \in Request, SelectRoute(r)
    PROVE  EngineInv'
<1> USE DEF SelectRoute, Goto, metrics, caches, routing, attempt, clock, outside
<1>1. PICK k \in DOMAIN Config[loaded[config_handle]] :
         /\ route' = [route EXCEPT ![r] = [gen |-> config_handle, index |-> k]]
         /\ \/ pc' = [pc EXCEPT ![r] = "filter"]
            \/ pc' = [pc EXCEPT ![r] = "lookup"]
  BY Zenon
<1>2. config_handle \in DOMAIN loaded /\ loaded[config_handle] \in ConfigId
  BY CacheType
<1>3. k \in Nat
  BY <1>1, <1>2, ConfigType
<1>4. route' \in [Request -> [gen : Nat, index : Nat]]
  <2>1. route \in [Request -> [gen : Nat, index : Nat]]
    BY Zenon DEF EngineInv, TypeOK
  <2>2. config_handle \in Nat
    BY CacheType
  <2> QED  BY ONLY <2>1, <2>2, <1>1, <1>3
<1>5. pc' \in [Request -> Label]
  <2>1. pc \in [Request -> Label] /\ "filter" \in Label /\ "lookup" \in Label
    BY Zenon DEF EngineInv, TypeOK, Label, Running
  <2> QED  BY ONLY <1>1, <2>1
<1>6. TypeOK'
  BY <1>4, <1>5, Zenon DEF EngineInv, TypeOK
<1>7. \A x \in Request \ {r} : SameCall(x)
  BY <1>1, <1>2, <1>3 DEF EngineInv, TypeOK, SameCall
<1>8. /\ loaded' = loaded
      /\ pc[r] = "arrived" /\ pc'[r] \in {"filter", "lookup"}
      /\ route'[r] = [gen |-> config_handle, index |-> k] /\ config_handle # 0
      /\ req'[r] = req[r]
      /\ delivered'[r] = delivered[r] /\ body'[r] = body[r]
      /\ status'[r] = status[r] /\ mirrored'[r] = mirrored[r]
  BY <1>1, <1>2, <1>3 DEF EngineInv, TypeOK
<1>9. RouteKnown(r)' /\ ScanKnown(r)' /\ AttemptKnown(r)'
  <2>1. /\ route'[r].gen \in DOMAIN loaded'
        /\ route'[r].index \in DOMAIN Config[loaded'[route'[r].gen]]
    <3>1. loaded' = loaded /\ route'[r].gen = config_handle /\ route'[r].index = k
      BY <1>8
    <3> QED  BY <1>2, <3>1, Zenon
  <2>2. route'[r].gen # 0 /\ pc'[r] \in {"filter", "lookup"}
    BY <1>8
  <2> QED  BY ONLY <2>1, <2>2 DEF RouteKnown, ScanKnown, AttemptKnown, NoRoute
<1>10. SentOnce(r)' /\ RefusedEarly(r)'
  BY <1>1, <1>2, <1>3, <1>8 DEF EngineInv, CallInv, SentOnce, RefusedEarly, BeforeSend, BeforeAttempt,
         BeforeAdmission
<1>11. BodyHeld(r)'
  BY <1>1, <1>2, <1>3, <1>8 DEF EngineInv, CallInv, BodyHeld, BeforeAttempt, BeforeAdmission,
         CanRetry, Replayable, MaxAttempts, RouteOf
<1> QED  BY <1>6, <1>7, <1>9, <1>10, <1>11, OneCallStep DEF CallInv

LEMMA LookupPluginInv ==
    ASSUME EngineInv, NEW r \in Request, LookupPlugin(r)
    PROVE  EngineInv'
<1> USE DEF LookupPlugin, Goto, metrics, caches, routing, attempt, clock, outside
<1>1. FoundPlugin(r) \in 0 .. MaxLoads
  BY EngineAssumption DEF FoundPlugin, EngineInv, TypeOK
<1>2. plugin' \in [Request -> 0 .. MaxLoads]
  BY <1>1 DEF EngineInv, TypeOK
<1>3. pc' \in [Request -> Label]
  BY <1>1 DEF EngineInv, TypeOK, Label, Running, Ended
<1>4. TypeOK'
  BY <1>2, <1>3, Zenon DEF EngineInv, TypeOK
<1>5. \A x \in Request \ {r} : SameCall(x)
  BY <1>1 DEF EngineInv, TypeOK, SameCall
<1>6. /\ loaded' = loaded
      /\ pc[r] = "lookup" /\ pc'[r] = "filter"
      /\ route'[r] = route[r] /\ req'[r] = req[r]
      /\ delivered'[r] = delivered[r] /\ body'[r] = body[r]
      /\ status'[r] = status[r] /\ mirrored'[r] = mirrored[r]
  BY <1>1 DEF EngineInv, TypeOK
<1>7. RouteKnown(r)' /\ ScanKnown(r)' /\ AttemptKnown(r)'
  BY <1>1, <1>6 DEF EngineInv, CallInv, RouteKnown, ScanKnown, AttemptKnown, NoRoute,
         Routed, ScanSched, RouteOf, SchedOf
<1>8. SentOnce(r)' /\ RefusedEarly(r)'
  BY <1>1, <1>6 DEF EngineInv, CallInv, SentOnce, RefusedEarly, BeforeSend, BeforeAttempt,
         BeforeAdmission
<1>9. BodyHeld(r)'
  BY <1>1, <1>6 DEF EngineInv, CallInv, BodyHeld, BeforeAttempt, BeforeAdmission,
         CanRetry, Replayable, MaxAttempts, RouteOf
<1> QED  BY <1>4, <1>5, <1>7, <1>8, <1>9, OneCallStep DEF CallInv

LEMMA DenyInv ==
    ASSUME EngineInv, NEW r \in Request, Deny(r)
    PROVE  EngineInv'
<1> USE DEF Deny, Answer, Goto, metrics, caches, routing, attempt, clock, outside
<1>1. pc' \in [Request -> Label]
  BY DEF EngineInv, TypeOK, Label, Running, Ended
<1>2. status' \in [Request -> Code]
  BY DEF EngineInv, TypeOK, Code
<1>3. TypeOK'
  BY <1>1, <1>2, Zenon DEF EngineInv, TypeOK
<1>4. \A x \in Request \ {r} : SameCall(x)
  BY DEF EngineInv, TypeOK, SameCall
<1>5. /\ loaded' = loaded
      /\ pc[r] = "filter" /\ pc'[r] = "done"
      /\ route'[r] = route[r] /\ req'[r] = req[r]
      /\ delivered'[r] = delivered[r] /\ body'[r] = body[r]
      /\ status'[r] = "denied"
      /\ mirrored'[r] = mirrored[r]
  BY DEF EngineInv, TypeOK
<1>6. RouteKnown(r)' /\ ScanKnown(r)' /\ AttemptKnown(r)'
  BY <1>5 DEF EngineInv, CallInv, RouteKnown, ScanKnown, AttemptKnown, NoRoute,
         Routed, ScanSched, RouteOf, SchedOf
<1>7. SentOnce(r)' /\ RefusedEarly(r)'
  BY <1>5 DEF EngineInv, CallInv, SentOnce, RefusedEarly, BeforeSend, BeforeAttempt,
         BeforeAdmission
<1>8. BodyHeld(r)'
  BY <1>5 DEF EngineInv, CallInv, BodyHeld, BeforeAttempt, BeforeAdmission,
         CanRetry, Replayable, MaxAttempts, RouteOf
<1> QED  BY <1>3, <1>4, <1>6, <1>7, <1>8, OneCallStep DEF CallInv

LEMMA AdmitInv ==
    ASSUME EngineInv, NEW r \in Request, Admit(r)
    PROVE  EngineInv'
<1> USE DEF Admit, Goto, metrics, caches, routing, attempt, clock, outside
<1>1. mirrored' \in [Request -> {"no", "in_flight", "ended"}]
  BY DEF EngineInv, TypeOK
<1>2. pc' \in [Request -> Label]
  BY DEF EngineInv, TypeOK, Label, Running, Ended
<1>3. TypeOK'
  BY <1>1, <1>2, Zenon DEF EngineInv, TypeOK
<1>4. \A x \in Request \ {r} : SameCall(x)
  BY DEF EngineInv, TypeOK, SameCall
<1>5. /\ loaded' = loaded
      /\ pc[r] = "filter" /\ pc'[r] = "pick"
      /\ route'[r] = route[r] /\ req'[r] = req[r]
      /\ delivered'[r] = delivered[r] /\ body'[r] = body[r]
      /\ status'[r] = status[r]
  BY DEF EngineInv, TypeOK
<1>6. RouteKnown(r)' /\ ScanKnown(r)' /\ AttemptKnown(r)'
  BY <1>5 DEF EngineInv, CallInv, RouteKnown, ScanKnown, AttemptKnown, NoRoute,
         Routed, ScanSched, RouteOf, SchedOf
<1>7. SentOnce(r)' /\ RefusedEarly(r)'
  BY <1>5 DEF EngineInv, CallInv, SentOnce, RefusedEarly, BeforeSend, BeforeAttempt,
         BeforeAdmission
<1>8. BodyHeld(r)'
  BY <1>5 DEF EngineInv, CallInv, BodyHeld, BeforeAttempt, BeforeAdmission,
         CanRetry, Replayable, MaxAttempts, RouteOf
<1> QED  BY <1>3, <1>4, <1>6, <1>7, <1>8, OneCallStep DEF CallInv

LEMMA NoUpstreamInv ==
    ASSUME EngineInv, NEW r \in Request, NoUpstream(r)
    PROVE  EngineInv'
<1> USE DEF NoUpstream, Answer, Goto, metrics, caches, routing, attempt, clock, outside
<1>1. pc' \in [Request -> Label]
  BY DEF EngineInv, TypeOK, Label, Running, Ended
<1>2. status' \in [Request -> Code]
  BY DEF EngineInv, TypeOK, Code
<1>3. TypeOK'
  BY <1>1, <1>2, Zenon DEF EngineInv, TypeOK
<1>4. \A x \in Request \ {r} : SameCall(x)
  BY DEF EngineInv, TypeOK, SameCall
<1>5. /\ loaded' = loaded
      /\ pc[r] = "pick" /\ pc'[r] = "done"
      /\ route'[r] = route[r] /\ req'[r] = req[r]
      /\ delivered'[r] = delivered[r] /\ body'[r] = body[r]
      /\ status'[r] = "no_upstream"
      /\ mirrored'[r] = mirrored[r]
  BY DEF EngineInv, TypeOK
<1>6. RouteKnown(r)' /\ ScanKnown(r)' /\ AttemptKnown(r)'
  BY <1>5 DEF EngineInv, CallInv, RouteKnown, ScanKnown, AttemptKnown, NoRoute,
         Routed, ScanSched, RouteOf, SchedOf
<1>7. SentOnce(r)' /\ RefusedEarly(r)'
  BY <1>5 DEF EngineInv, CallInv, SentOnce, RefusedEarly, BeforeSend, BeforeAttempt,
         BeforeAdmission
<1>8. BodyHeld(r)'
  BY <1>5 DEF EngineInv, CallInv, BodyHeld, BeforeAttempt, BeforeAdmission,
         CanRetry, Replayable, MaxAttempts, RouteOf
<1> QED  BY <1>3, <1>4, <1>6, <1>7, <1>8, OneCallStep DEF CallInv

LEMMA StartScanInv ==
    ASSUME EngineInv, NEW r \in Request, StartScan(r)
    PROVE  EngineInv'
<1> USE DEF StartScan, Goto, metrics, caches, routing, attempt, clock, outside
<1>1. RouteOf(r).name \in RouteName
  <2>1. route[r] # NoRoute
    BY DEF EngineInv, CallInv, RouteKnown, Routed
  <2>2. RouteOf(r) \in RouteConfig
    BY <2>1, RouteType
  <2> QED  BY ONLY <2>2 DEF RouteConfig
<1>2. lb_cache \in DOMAIN loaded /\ lb_cache \in 1 .. MaxLoads /\ lb_cache \in Nat
  BY CacheType
<1>3. Bump(counter[lb_cache][RouteOf(r).name]) \in 0 .. UsizeMod - 1
  <2> DEFINE c == counter[lb_cache][RouteOf(r).name]
  <2>1. c \in 0 .. UsizeMod - 1
    <3>1. counter \in [1 .. MaxLoads -> [RouteName -> 0 .. UsizeMod - 1]]
      BY Zenon DEF EngineInv, TypeOK
    <3> QED  BY ONLY <3>1, <1>1, <1>2 DEF c
  <2>2. c + 1 \in Nat /\ UsizeMod \in Nat \ {0}
    BY <2>1, EngineAssumption
  <2> HIDE DEF c
  <2>3. (c + 1) % UsizeMod \in 0 .. UsizeMod - 1
    BY <2>2
  <2> QED  BY <2>3 DEF c, Bump
<1>4. Len(SchedOf(lb_cache, RouteOf(r).name)) > 0
  <2>1. SchedOf(lb_cache, RouteOf(r).name) \in Seq(Addr)
    BY <1>1, <1>2, SchedType
  <2>2. SchedOf(lb_cache, RouteOf(r).name) # << >>
    OBVIOUS
  <2> QED  BY <2>1, <2>2
<1>5. counter \in [1 .. MaxLoads -> [RouteName -> 0 .. UsizeMod - 1]]
  BY Zenon DEF EngineInv, TypeOK
<1>6. counter' \in [1 .. MaxLoads -> [RouteName -> 0 .. UsizeMod - 1]]
  <2>1. counter' = [counter EXCEPT ![lb_cache][RouteOf(r).name] =
                       Bump(counter[lb_cache][RouteOf(r).name])]
    OBVIOUS
  <2> QED  BY ONLY <2>1, <1>1, <1>2, <1>3, <1>5
<1>7. scan' \in [Request -> [gen : Nat, start : Nat, i : Nat]] /\ scan'[r].gen = lb_cache
  <2>1. scan' = [scan EXCEPT ![r] = [gen |-> lb_cache,
                                     start |-> counter[lb_cache][RouteOf(r).name], i |-> 0]]
    BY Zenon
  <2>2. scan \in [Request -> [gen : Nat, start : Nat, i : Nat]]
    BY Zenon DEF EngineInv, TypeOK
  <2>3. UsizeMod \in Nat
    BY EngineAssumption
  <2>4. counter[lb_cache][RouteOf(r).name] \in Nat
    BY ONLY <2>3, <1>1, <1>2, <1>5
  <2> QED  BY ONLY <2>1, <2>2, <2>4, <1>2
<1>8. pc' \in [Request -> Label]
  BY DEF EngineInv, TypeOK, Label, Running, Ended
<1>9. TypeOK'
  BY <1>6, <1>7, <1>8, Zenon DEF EngineInv, TypeOK
<1>10. \A x \in Request \ {r} : SameCall(x)
  BY DEF EngineInv, TypeOK, SameCall
<1>11. /\ loaded' = loaded
       /\ pc[r] = "pick" /\ pc'[r] = "prefer"
       /\ route'[r] = route[r] /\ req'[r] = req[r]
       /\ delivered'[r] = delivered[r] /\ body'[r] = body[r]
       /\ status'[r] = status[r] /\ mirrored'[r] = mirrored[r]
  BY DEF EngineInv, TypeOK
<1>12. RouteKnown(r)' /\ ScanKnown(r)' /\ AttemptKnown(r)'
  BY <1>2, <1>4, <1>7, <1>11 DEF EngineInv, CallInv, RouteKnown, ScanKnown, AttemptKnown, NoRoute,
         Routed, ScanSched, RouteOf, SchedOf
<1>13. SentOnce(r)' /\ RefusedEarly(r)'
  BY <1>11 DEF EngineInv, CallInv, SentOnce, RefusedEarly, BeforeSend, BeforeAttempt,
         BeforeAdmission
<1>14. BodyHeld(r)'
  BY <1>11 DEF EngineInv, CallInv, BodyHeld, BeforeAttempt, BeforeAdmission,
         CanRetry, Replayable, MaxAttempts, RouteOf
<1> QED  BY <1>9, <1>10, <1>12, <1>13, <1>14, OneCallStep DEF CallInv

\* Beginning an attempt, from either pass of the scan.
LEMMA BeginAttemptInv ==
    ASSUME EngineInv, NEW r \in Request, pc[r] \in {"prefer", "any"},
           NEW a \in Addr, BeginAttempt(r, a), UNCHANGED scanFrame, UNCHANGED scan
    PROVE  EngineInv'
<1> USE DEF Goto, metrics, caches, routing, outside, clock, attempt, scanFrame
<1>1. body[r] = "held"
  BY DEF EngineInv, CallInv, BodyHeld, BeforeAttempt
<1>2. /\ upstream' = [upstream EXCEPT ![r] = a]
      /\ waited' = [waited EXCEPT ![r] = 0]
      /\ pc' = [pc EXCEPT ![r] = "connect"]
  BY <1>1 DEF BeginAttempt
<1>3. \/ CanRetry(r) /\ body' = body
      \/ ~CanRetry(r) /\ body' = [body EXCEPT ![r] = "taken"]
  BY <1>1 DEF BeginAttempt, EngineInv, TypeOK
<1>4. upstream' \in [Request -> Addr \cup {None}]
  <2>1. upstream \in [Request -> Addr \cup {None}]
    BY Zenon DEF EngineInv, TypeOK
  <2> QED  BY ONLY <1>2, <2>1
<1>5. body' \in [Request -> {"held", "taken"}]
  <2>1. body \in [Request -> {"held", "taken"}]
    BY Zenon DEF EngineInv, TypeOK
  <2> QED  BY ONLY <1>3, <2>1
<1>6. waited' \in [Request -> Nat]
  <2>1. waited \in [Request -> Nat]
    BY Zenon DEF EngineInv, TypeOK
  <2> QED  BY ONLY <1>2, <2>1
<1>7. pc' \in [Request -> Label]
  <2>1. pc \in [Request -> Label] /\ "connect" \in Label
    BY Zenon DEF EngineInv, TypeOK, Label, Running
  <2> QED  BY ONLY <1>2, <2>1
<1>8. TypeOK'
  BY <1>4, <1>5, <1>6, <1>7, Zenon DEF EngineInv, TypeOK
<1>9. \A x \in Request \ {r} : SameCall(x)
  BY <1>1, <1>2, <1>3 DEF EngineInv, TypeOK, SameCall
<1>10. /\ loaded' = loaded
       /\ pc'[r] = "connect" /\ upstream'[r] = a
       /\ route'[r] = route[r] /\ req'[r] = req[r]
       /\ delivered'[r] = delivered[r]
       /\ CanRetry(r) => body'[r] = body[r]
       /\ ~CanRetry(r) => body'[r] = "taken"
       /\ status'[r] = status[r] /\ mirrored'[r] = mirrored[r]
  BY <1>1, <1>2, <1>3 DEF EngineInv, TypeOK
<1>11. CallInv(r)
  BY DEF EngineInv
<1>12. RouteKnown(r)' /\ ScanKnown(r)' /\ AttemptKnown(r)'
  <2>1. RouteKnown(r)
    BY <1>11 DEF CallInv
  <2>2. loaded' = loaded /\ route'[r] = route[r] /\ pc[r] \in Routed
    BY <1>10 DEF Routed
  <2>3. RouteKnown(r)'
    BY ONLY <2>1, <2>2 DEF RouteKnown, NoRoute
  <2>4. pc'[r] = "connect" /\ upstream'[r] \in Addr
    BY <1>10
  <2> QED  BY ONLY <2>3, <2>4 DEF ScanKnown, AttemptKnown
<1>13. SentOnce(r)' /\ RefusedEarly(r)'
  BY <1>1, <1>2, <1>3, <1>10 DEF EngineInv, CallInv, SentOnce, RefusedEarly, BeforeSend, BeforeAttempt,
         BeforeAdmission
<1>14. CanRetry(r)' <=> CanRetry(r)
  BY <1>10 DEF CanRetry, Replayable, MaxAttempts, RouteOf
<1>15. BodyHeld(r)'
  <2>1. CanRetry(r) => req[r].empty
    BY Zenon DEF CanRetry, Replayable
  <2> QED
    BY ONLY <1>1, <1>10, <1>14, <2>1 DEF BodyHeld, BeforeAttempt, BeforeAdmission
<1> QED  BY <1>8, <1>9, <1>12, <1>13, <1>15, OneCallStep DEF CallInv

LEMMA TakeCandidateInv ==
    ASSUME EngineInv, NEW r \in Request, TakeCandidate(r)
    PROVE  EngineInv'
<1>1. scan[r].i \in Nat
  BY DEF EngineInv, TypeOK
<1>2. CandidateAt(r, scan[r].i) \in Addr
  BY <1>1, ScanType DEF TakeCandidate
<1> QED  BY <1>2, BeginAttemptInv DEF TakeCandidate

LEMMA FailOpenInv ==
    ASSUME EngineInv, NEW r \in Request, FailOpen(r)
    PROVE  EngineInv'
<1>1. CandidateAt(r, 0) \in Addr
  BY ScanType DEF FailOpen
<1> QED  BY <1>1, BeginAttemptInv DEF FailOpen

LEMMA SkipCandidateInv ==
    ASSUME EngineInv, NEW r \in Request, SkipCandidate(r)
    PROVE  EngineInv'
<1> USE DEF SkipCandidate, metrics, caches, routing, outside, clock, attempt, scanFrame
<1>1. scan' = [scan EXCEPT ![r] = [gen |-> scan[r].gen, start |-> scan[r].start,
                                   i |-> scan[r].i + 1]]
  <2>1. scan \in [Request -> [gen : Nat, start : Nat, i : Nat]]
    BY DEF EngineInv, TypeOK
  <2>2. scan' = [scan EXCEPT ![r] = [scan[r] EXCEPT !.i = scan[r].i + 1]]
    BY <2>1
  <2>3. [scan[r] EXCEPT !.i = scan[r].i + 1]
           = [gen |-> scan[r].gen, start |-> scan[r].start, i |-> scan[r].i + 1]
    BY <2>1
  <2> QED  BY ONLY <2>2, <2>3
<1>2. scan' \in [Request -> [gen : Nat, start : Nat, i : Nat]]
  <2>1. scan \in [Request -> [gen : Nat, start : Nat, i : Nat]]
    BY DEF EngineInv, TypeOK
  <2> QED  BY ONLY <1>1, <2>1
<1>3. TypeOK'
  BY <1>2, Zenon DEF EngineInv, TypeOK
<1>4. \A x \in Request \ {r} : SameCall(x)
  BY <1>1 DEF EngineInv, TypeOK, SameCall
<1>5. /\ loaded' = loaded
      /\ pc'[r] = pc[r]
      /\ scan'[r].gen = scan[r].gen /\ upstream'[r] = upstream[r]
      /\ route'[r] = route[r] /\ req'[r] = req[r]
      /\ delivered'[r] = delivered[r] /\ body'[r] = body[r]
      /\ status'[r] = status[r] /\ mirrored'[r] = mirrored[r]
  BY <1>1 DEF EngineInv, TypeOK
<1>6. RouteKnown(r)' /\ ScanKnown(r)' /\ AttemptKnown(r)'
  BY <1>1, <1>5 DEF EngineInv, CallInv, RouteKnown, ScanKnown, AttemptKnown, NoRoute,
         Routed, ScanSched, RouteOf, SchedOf
<1>7. SentOnce(r)' /\ RefusedEarly(r)'
  BY <1>1, <1>5 DEF EngineInv, CallInv, SentOnce, RefusedEarly, BeforeSend, BeforeAttempt,
         BeforeAdmission
<1>8. BodyHeld(r)'
  BY <1>1, <1>5 DEF EngineInv, CallInv, BodyHeld, BeforeAttempt, BeforeAdmission,
         CanRetry, Replayable, MaxAttempts, RouteOf
<1> QED  BY <1>3, <1>4, <1>6, <1>7, <1>8, OneCallStep DEF CallInv

LEMMA SecondPassInv ==
    ASSUME EngineInv, NEW r \in Request, SecondPass(r)
    PROVE  EngineInv'
<1> USE DEF SecondPass, Goto, metrics, caches, routing, outside, clock, attempt, scanFrame
<1>1. scan' \in [Request -> [gen : Nat, start : Nat, i : Nat]] /\ scan'[r].gen = scan[r].gen
  <2>1. scan \in [Request -> [gen : Nat, start : Nat, i : Nat]]
    BY Zenon DEF EngineInv, TypeOK
  <2>2. scan' = [scan EXCEPT ![r] = [scan[r] EXCEPT !.i = 0]]
    BY ONLY <2>1, SecondPass(r) DEF SecondPass
  <2>3. [scan[r] EXCEPT !.i = 0] \in [gen : Nat, start : Nat, i : Nat]
    BY ONLY <2>1
  <2> QED  BY ONLY <2>1, <2>2, <2>3
<1>2. pc' \in [Request -> Label]
  BY DEF EngineInv, TypeOK, Label, Running, Ended
<1>3. TypeOK'
  BY <1>1, <1>2, Zenon DEF EngineInv, TypeOK
<1>4. \A x \in Request \ {r} : SameCall(x)
  BY DEF EngineInv, TypeOK, SameCall
<1>5. /\ loaded' = loaded
      /\ pc[r] = "prefer" /\ pc'[r] = "any"
      /\ route'[r] = route[r] /\ req'[r] = req[r]
      /\ delivered'[r] = delivered[r] /\ body'[r] = body[r]
      /\ status'[r] = status[r] /\ mirrored'[r] = mirrored[r]
  BY DEF EngineInv, TypeOK
<1>6. RouteKnown(r)' /\ ScanKnown(r)' /\ AttemptKnown(r)'
  BY <1>1, <1>5 DEF EngineInv, CallInv, RouteKnown, ScanKnown, AttemptKnown, NoRoute,
         Routed, ScanSched, RouteOf, SchedOf
<1>7. SentOnce(r)' /\ RefusedEarly(r)'
  BY <1>5 DEF EngineInv, CallInv, SentOnce, RefusedEarly, BeforeSend, BeforeAttempt,
         BeforeAdmission
<1>8. BodyHeld(r)'
  BY <1>5 DEF EngineInv, CallInv, BodyHeld, BeforeAttempt, BeforeAdmission,
         CanRetry, Replayable, MaxAttempts, RouteOf
<1> QED  BY <1>3, <1>4, <1>6, <1>7, <1>8, OneCallStep DEF CallInv

LEMMA ConnectedInv ==
    ASSUME EngineInv, NEW r \in Request, Connected(r)
    PROVE  EngineInv'
<1> USE DEF Connected, Goto, metrics, caches, routing, outside, clock, attemptFrame
<1>1. upstream[r] \in Addr
  BY DEF EngineInv, CallInv, AttemptKnown
<1>2. delivered[r] = << >>
  BY DEF EngineInv, CallInv, SentOnce, BeforeSend
<1>3. delivered' \in [Request -> Seq(Addr)]
  BY <1>1, <1>2 DEF EngineInv, TypeOK
<1>4. pc' \in [Request -> Label]
  BY <1>1, <1>2 DEF EngineInv, TypeOK, Label, Running, Ended
<1>5. TypeOK'
  BY <1>3, <1>4, Zenon DEF EngineInv, TypeOK
<1>6. \A x \in Request \ {r} : SameCall(x)
  BY <1>1, <1>2 DEF EngineInv, TypeOK, SameCall
<1>7. /\ loaded' = loaded
      /\ pc[r] = "connect" /\ pc'[r] = "sent"
      /\ Len(delivered'[r]) = 1
      /\ route'[r] = route[r] /\ req'[r] = req[r]
      /\ body'[r] = body[r] /\ upstream'[r] = upstream[r]
      /\ status'[r] = status[r] /\ mirrored'[r] = mirrored[r]
  BY <1>1, <1>2 DEF EngineInv, TypeOK
<1>8. RouteKnown(r)' /\ ScanKnown(r)' /\ AttemptKnown(r)'
  BY <1>1, <1>2, <1>7 DEF EngineInv, CallInv, RouteKnown, ScanKnown, AttemptKnown, NoRoute,
         Routed, ScanSched, RouteOf, SchedOf
<1>9. SentOnce(r)' /\ RefusedEarly(r)'
  BY <1>1, <1>2, <1>7 DEF EngineInv, CallInv, SentOnce, RefusedEarly, BeforeSend, BeforeAttempt,
         BeforeAdmission
<1>10. BodyHeld(r)'
  BY <1>1, <1>2, <1>7 DEF EngineInv, CallInv, BodyHeld, BeforeAttempt, BeforeAdmission,
         CanRetry, Replayable, MaxAttempts, RouteOf
<1> QED  BY <1>5, <1>6, <1>8, <1>9, <1>10, OneCallStep DEF CallInv

LEMMA RespondedInv ==
    ASSUME EngineInv, NEW r \in Request, Responded(r)
    PROVE  EngineInv'
<1> USE DEF Responded, Answer, Goto, metrics, caches, routing, outside, clock, attemptFrame
<1>1. pc' \in [Request -> Label]
  BY DEF EngineInv, TypeOK, Label, Running, Ended
<1>2. status' \in [Request -> Code]
  BY DEF EngineInv, TypeOK, Code
<1>3. http_request_duration_seconds' \in Nat
  BY DEF EngineInv, TypeOK
<1>4. TypeOK'
  BY <1>1, <1>2, <1>3, Zenon DEF EngineInv, TypeOK
<1>5. \A x \in Request \ {r} : SameCall(x)
  BY DEF EngineInv, TypeOK, SameCall
<1>6. /\ loaded' = loaded
      /\ pc'[r] = "done" /\ status'[r] = "ok"
      /\ route'[r] = route[r] /\ req'[r] = req[r]
      /\ delivered'[r] = delivered[r] /\ body'[r] = body[r]
      /\ mirrored'[r] = mirrored[r]
  BY DEF EngineInv, TypeOK
<1>7. RouteKnown(r)' /\ ScanKnown(r)' /\ AttemptKnown(r)'
  BY <1>6 DEF EngineInv, CallInv, RouteKnown, ScanKnown, AttemptKnown, NoRoute,
         Routed, ScanSched, RouteOf, SchedOf
<1>8. SentOnce(r)' /\ RefusedEarly(r)'
  BY <1>6 DEF EngineInv, CallInv, SentOnce, RefusedEarly, BeforeSend, BeforeAttempt,
         BeforeAdmission
<1>9. BodyHeld(r)'
  BY <1>6 DEF EngineInv, CallInv, BodyHeld, BeforeAttempt, BeforeAdmission,
         CanRetry, Replayable, MaxAttempts, RouteOf
<1> QED  BY <1>4, <1>5, <1>7, <1>8, <1>9, OneCallStep DEF CallInv

\* A failed attempt: after a connect error the next one may follow.
LEMMA AttemptFailsInv ==
    ASSUME EngineInv, NEW r \in Request, NEW retryable \in BOOLEAN,
           pc[r] \in {"connect", "sent"}, retryable => pc[r] = "connect",
           AttemptFails(r, retryable)
    PROVE  EngineInv'
<1>1. upstream[r] \in Addr
  BY DEF EngineInv, CallInv, AttemptKnown
<1>2. \/ /\ CanRetry(r) /\ retryable
         /\ pc' = [pc EXCEPT ![r] = "pick"] /\ status' = status
      \/ /\ pc' = [pc EXCEPT ![r] = "done"]
         /\ status' = [status EXCEPT ![r] = "bad_gateway"]
  BY Zenon DEF AttemptFails, Answer, Goto
<1>3. /\ tried' = [tried EXCEPT ![r] = Append(@, upstream[r])]
      /\ UNCHANGED <<attemptFrame, clock, delivered>>
  BY Zenon DEF AttemptFails
<1>4. CountError
  BY Zenon DEF AttemptFails
<1> USE DEF metrics, caches, routing, outside, clock, attemptFrame
<1>5. tried' \in [Request -> Seq(Addr)]
  BY <1>1, <1>3 DEF EngineInv, TypeOK
<1>6. pc' \in [Request -> Label]
  <2>1. pc \in [Request -> Label]
    BY DEF EngineInv, TypeOK
  <2>2. "pick" \in Label /\ "done" \in Label
    BY DEF Label, Running, Ended
  <2> QED  BY ONLY <1>2, <2>1, <2>2
<1>7. status' \in [Request -> Code]
  BY <1>2 DEF EngineInv, TypeOK, Code
<1>8. upstream_connection_errors' \in Nat
  BY <1>4 DEF CountError, EngineInv, TypeOK
<1>9. TypeOK'
  BY <1>5, <1>6, <1>7, <1>8, <1>3, <1>4, Zenon DEF CountError, EngineInv, TypeOK
<1>10. \A x \in Request \ {r} : SameCall(x)
  <2>1. pc \in [Request -> Label] /\ status \in [Request -> Code]
    BY Zenon DEF EngineInv, TypeOK
  <2>2. \A x \in Request \ {r} : pc'[x] = pc[x] /\ status'[x] = status[x]
    BY ONLY <1>2, <2>1
  <2> QED  BY ONLY <1>3, <2>2 DEF SameCall, attemptFrame, clock, routing, caches
<1>11. /\ loaded' = loaded
       /\ \/ pc'[r] = "pick" /\ status'[r] = status[r] /\ CanRetry(r) /\ pc[r] = "connect"
          \/ pc'[r] = "done" /\ status'[r] = "bad_gateway"
       /\ route'[r] = route[r] /\ req'[r] = req[r]
       /\ delivered'[r] = delivered[r] /\ body'[r] = body[r]
       /\ mirrored'[r] = mirrored[r]
  BY <1>2, <1>3 DEF EngineInv, TypeOK
<1>12. RouteKnown(r)' /\ ScanKnown(r)' /\ AttemptKnown(r)'
  BY <1>11 DEF EngineInv, CallInv, RouteKnown, ScanKnown, AttemptKnown, NoRoute,
         Routed, ScanSched, RouteOf, SchedOf
<1>13. SentOnce(r)' /\ RefusedEarly(r)'
  BY <1>11 DEF EngineInv, CallInv, SentOnce, RefusedEarly, BeforeSend, BeforeAttempt,
         BeforeAdmission
<1>14. BodyHeld(r)'
  BY <1>11 DEF EngineInv, CallInv, BodyHeld, BeforeAttempt, BeforeAdmission,
         CanRetry, Replayable, MaxAttempts, RouteOf
<1> QED  BY <1>9, <1>10, <1>11, <1>12, <1>13, <1>14, OneCallStep DEF CallInv

LEMMA AttemptErrorInv ==
    ASSUME EngineInv, NEW r \in Request,
           ConnectError(r) \/ TransportError(r) \/ SendError(r)
    PROVE  EngineInv'
<1>1. CASE ConnectError(r)
  BY <1>1, AttemptFailsInv DEF ConnectError, Retryable
<1>2. CASE TransportError(r)
  BY <1>2, AttemptFailsInv DEF TransportError, Retryable
<1>3. CASE SendError(r)
  BY <1>3, AttemptFailsInv DEF SendError
<1> QED  BY <1>1, <1>2, <1>3

LEMMA TickInv ==
    ASSUME EngineInv, NEW r \in Request, Tick(r)
    PROVE  EngineInv'
<1> USE DEF Tick, metrics, caches, routing, outside, clock, attemptFrame
<1>0. waited \in [Request -> Nat] /\ elapsed \in [Request -> Nat]
  BY DEF EngineInv, TypeOK
<1>1. waited' \in [Request -> Nat]
  <2>1. waited' = [waited EXCEPT ![r] = @ + 1]
    OBVIOUS
  <2> QED  BY ONLY <1>0, <2>1
<1>2. elapsed' \in [Request -> Nat]
  <2>1. elapsed' = [elapsed EXCEPT ![r] = @ + 1]
    OBVIOUS
  <2> QED  BY ONLY <1>0, <2>1
<1>3. TypeOK'
  BY <1>1, <1>2, Zenon DEF EngineInv, TypeOK
<1>4. \A x \in Request \ {r} : SameCall(x)
  BY DEF EngineInv, TypeOK, SameCall
<1>5. /\ loaded' = loaded
      /\ pc'[r] = pc[r]
      /\ route'[r] = route[r] /\ req'[r] = req[r]
      /\ delivered'[r] = delivered[r] /\ body'[r] = body[r]
      /\ status'[r] = status[r] /\ mirrored'[r] = mirrored[r]
      /\ scan'[r] = scan[r] /\ upstream'[r] = upstream[r]
  BY DEF EngineInv, TypeOK
<1>6. RouteKnown(r)' /\ ScanKnown(r)' /\ AttemptKnown(r)'
  BY <1>5 DEF EngineInv, CallInv, RouteKnown, ScanKnown, AttemptKnown, NoRoute,
         Routed, ScanSched, RouteOf, SchedOf
<1>7. SentOnce(r)' /\ RefusedEarly(r)'
  BY <1>5 DEF EngineInv, CallInv, SentOnce, RefusedEarly, BeforeSend, BeforeAttempt,
         BeforeAdmission
<1>8. BodyHeld(r)'
  BY <1>5 DEF EngineInv, CallInv, BodyHeld, BeforeAttempt, BeforeAdmission,
         CanRetry, Replayable, MaxAttempts, RouteOf
<1> QED  BY <1>3, <1>4, <1>6, <1>7, <1>8, OneCallStep DEF CallInv

LEMMA TimedOutInv ==
    ASSUME EngineInv, NEW r \in Request, TimedOut(r)
    PROVE  EngineInv'
<1> USE DEF TimedOut, CountError, Answer, Goto, metrics, caches, routing, outside, clock,
            attemptFrame
<1>1. pc' \in [Request -> Label]
  BY DEF EngineInv, TypeOK, Label, Running, Ended
<1>2. status' \in [Request -> Code]
  BY DEF EngineInv, TypeOK, Code
<1>3. upstream_connection_errors' \in Nat
  BY DEF EngineInv, TypeOK
<1>4. TypeOK'
  BY <1>1, <1>2, <1>3, Zenon DEF EngineInv, TypeOK
<1>5. \A x \in Request \ {r} : SameCall(x)
  BY DEF EngineInv, TypeOK, SameCall
<1>6. /\ loaded' = loaded
      /\ pc'[r] = "done" /\ status'[r] = "timeout"
      /\ route'[r] = route[r] /\ req'[r] = req[r]
      /\ delivered'[r] = delivered[r] /\ body'[r] = body[r]
      /\ mirrored'[r] = mirrored[r]
  BY DEF EngineInv, TypeOK
<1>7. RouteKnown(r)' /\ ScanKnown(r)' /\ AttemptKnown(r)'
  BY <1>6 DEF EngineInv, CallInv, RouteKnown, ScanKnown, AttemptKnown, NoRoute,
         Routed, ScanSched, RouteOf, SchedOf
<1>8. SentOnce(r)' /\ RefusedEarly(r)'
  BY <1>6 DEF EngineInv, CallInv, SentOnce, RefusedEarly, BeforeSend, BeforeAttempt,
         BeforeAdmission
<1>9. BodyHeld(r)'
  BY <1>6 DEF EngineInv, CallInv, BodyHeld, BeforeAttempt, BeforeAdmission,
         CanRetry, Replayable, MaxAttempts, RouteOf
<1> QED  BY <1>4, <1>5, <1>7, <1>8, <1>9, OneCallStep DEF CallInv

LEMMA ClientGoneInv ==
    ASSUME EngineInv, NEW r \in Request, ClientGone(r)
    PROVE  EngineInv'
<1> USE DEF ClientGone, Goto, metrics, caches, routing, attempt, clock, outside
<1>1. pc' \in [Request -> Label]
  BY DEF EngineInv, TypeOK, Label, Running, Ended
<1>2. TypeOK'
  BY <1>1, Zenon DEF EngineInv, TypeOK
<1>3. \A x \in Request \ {r} : SameCall(x)
  BY DEF EngineInv, TypeOK, SameCall
<1>4. /\ loaded' = loaded
      /\ pc[r] # "done" /\ pc'[r] = "dropped"
      /\ route'[r] = route[r] /\ req'[r] = req[r]
      /\ delivered'[r] = delivered[r] /\ body'[r] = body[r]
      /\ status'[r] = status[r] /\ mirrored'[r] = mirrored[r]
  BY DEF EngineInv, TypeOK, Running
<1>5. RouteKnown(r)' /\ ScanKnown(r)' /\ AttemptKnown(r)'
  BY <1>4 DEF EngineInv, CallInv, RouteKnown, ScanKnown, AttemptKnown, NoRoute,
         Routed, ScanSched, RouteOf, SchedOf
<1>6. SentOnce(r)' /\ RefusedEarly(r)'
  BY <1>4 DEF EngineInv, CallInv, SentOnce, RefusedEarly, BeforeSend, BeforeAttempt,
         BeforeAdmission
<1>7. BodyHeld(r)'
  BY <1>4 DEF EngineInv, CallInv, BodyHeld, BeforeAttempt, BeforeAdmission,
         CanRetry, Replayable, MaxAttempts, RouteOf
<1> QED  BY <1>2, <1>3, <1>5, <1>6, <1>7, OneCallStep DEF CallInv

LEMMA MirrorEndsInv ==
    ASSUME EngineInv, NEW r \in Request, MirrorEnds(r)
    PROVE  EngineInv'
<1> USE DEF MirrorEnds, metrics, caches, routing, attempt, clock, outside
<1>1. mirrored' \in [Request -> {"no", "in_flight", "ended"}]
  BY DEF EngineInv, TypeOK
<1>2. TypeOK'
  BY <1>1, Zenon DEF EngineInv, TypeOK
<1>3. \A x \in Request \ {r} : SameCall(x)
  BY DEF EngineInv, TypeOK, SameCall
<1>4. /\ loaded' = loaded
      /\ pc'[r] = pc[r]
      /\ route'[r] = route[r] /\ req'[r] = req[r]
      /\ delivered'[r] = delivered[r] /\ body'[r] = body[r]
      /\ status'[r] = status[r]
      /\ mirrored[r] = "in_flight"
      /\ scan'[r] = scan[r] /\ upstream'[r] = upstream[r]
  BY DEF EngineInv, TypeOK
<1>5. RouteKnown(r)' /\ ScanKnown(r)' /\ AttemptKnown(r)'
  BY <1>4 DEF EngineInv, CallInv, RouteKnown, ScanKnown, AttemptKnown, NoRoute,
         Routed, ScanSched, RouteOf, SchedOf
<1>6. SentOnce(r)' /\ RefusedEarly(r)'
  BY <1>4 DEF EngineInv, CallInv, SentOnce, RefusedEarly, BeforeSend, BeforeAttempt,
         BeforeAdmission
<1>7. BodyHeld(r)'
  BY <1>4 DEF EngineInv, CallInv, BodyHeld, BeforeAttempt, BeforeAdmission,
         CanRetry, Replayable, MaxAttempts, RouteOf
<1> QED  BY <1>2, <1>3, <1>5, <1>6, <1>7, OneCallStep DEF CallInv

LEMMA SetHealthInv ==
    ASSUME EngineInv, NEW a \in Addr, NEW healthy \in BOOLEAN, SetHealth(a, healthy)
    PROVE  EngineInv'
<1> USE DEF SetHealth, metrics, caches, routing, attempt, clock, outside
<1>1. registry' \in [Addr -> {"untracked", "up", "down"}]
  BY DEF EngineInv, TypeOK
<1>2. TypeOK'
  BY <1>1, Zenon DEF EngineInv, TypeOK
<1>3. ASSUME NEW x \in Request PROVE SameCall(x)
  BY DEF SameCall
<1>4. loaded' = loaded
  OBVIOUS
<1> QED  BY <1>2, <1>3, <1>4, SameCallInv DEF EngineInv

LEMMA ProbingInv ==
    ASSUME EngineInv, Probing
    PROVE  EngineInv'
<1>1. PICK a \in ProbedBy(StartConfig), healthy \in BOOLEAN : SetHealth(a, healthy)
  BY Zenon DEF Probing
<1>2. a \in Addr
  <2> DEFINE Pool == [addr : Addr, weight : Nat \cup {Unset}]
             ups(k) == Config[StartConfig][k].upstream
  <2>1. PICK k \in DOMAIN Config[StartConfig] : \E j \in DOMAIN ups(k) : a = ups(k)[j].addr
    BY Zenon DEF ProbedBy
  <2>2. PICK j \in DOMAIN ups(k) : a = ups(k)[j].addr
    BY <2>1
  <2>3. ups(k) \in Seq(Pool)
    BY ConfigType, EngineAssumption DEF RouteConfig
  <2> HIDE DEF ups, Pool
  <2>4. ups(k)[j] \in Pool
    BY <2>3
  <2> QED  BY <2>2, <2>4 DEF Pool
<1> QED  BY <1>1, <1>2, SetHealthInv

LEMMA StutterInv ==
    ASSUME EngineInv, UNCHANGED engineVars
    PROVE  EngineInv'
<1> USE DEF engineVars, metrics, caches, routing, attempt, clock, outside
<1>1. TypeOK'
  BY Zenon DEF EngineInv, TypeOK
<1>2. ASSUME NEW x \in Request PROVE SameCall(x)
  BY DEF SameCall
<1>3. loaded' = loaded
  OBVIOUS
<1> QED  BY <1>1, <1>2, <1>3, SameCallInv DEF EngineInv

\* Every step a call can take keeps the invariant.
LEMMA CallNextInv ==
    ASSUME EngineInv, NEW r \in Request, CallNext(r)
    PROVE  EngineInv'
<1>1. CASE Receive(r)
  BY <1>1, ReceiveInv
<1>2. CASE Step(r)
  BY <1>2, NotFoundInv, SelectRouteInv, LookupPluginInv, DenyInv, AdmitInv, NoUpstreamInv,
     StartScanInv, TakeCandidateInv, SkipCandidateInv, SecondPassInv, FailOpenInv
     DEF Step, Scanning
<1>3. CASE Upstreams(r)
  BY <1>3, ConnectedInv, RespondedInv, AttemptErrorInv DEF Upstreams
<1>4. CASE Tick(r)
  BY <1>4, TickInv
<1>5. CASE TimedOut(r)
  BY <1>5, TimedOutInv
<1>6. CASE ClientGone(r)
  BY <1>6, ClientGoneInv
<1>7. CASE MirrorEnds(r)
  BY <1>7, MirrorEndsInv
<1> QED  BY <1>1, <1>2, <1>3, <1>4, <1>5, <1>6, <1>7 DEF CallNext

LEMMA EngineNextInv == EngineInv /\ [EngineNext]_engineVars => EngineInv'
<1> SUFFICES ASSUME EngineInv, [EngineNext]_engineVars PROVE EngineInv'
  OBVIOUS
<1>1. CASE \E r \in Request : CallNext(r)
  BY <1>1, CallNextInv
<1>2. CASE Probing
  BY <1>2, ProbingInv
<1>3. CASE UNCHANGED engineVars
  BY <1>3, StutterInv
<1> QED  BY <1>1, <1>2, <1>3 DEF EngineNext, Quiescent

-----------------------------------------------------------------------------
(* The theorems *)

\* What a call of handle works with exists and is typed, at every await.
THEOREM EngineInvariant == Spec => []EngineInv
BY InitInv, EngineNextInv, PTL DEF Spec

\* The shared state and the calls keep their types.
THEOREM TypeCorrect == Spec => []TypeOK
<1>1. EngineInv => TypeOK
  BY DEF EngineInv
<1> QED  BY <1>1, EngineInvariant, PTL

\* However attempts fail and calls interleave, no request is written to
\* upstreams twice.
THEOREM AtMostOnce == Spec => []DeliveredOnce
<1>1. EngineInv => DeliveredOnce
  BY DEF EngineInv, CallInv, SentOnce, DeliveredOnce
<1> QED  BY <1>1, EngineInvariant, PTL

\* No attempt finds the streaming body already taken.
THEOREM BodyNeverMissing == Spec => []NeverPanics
<1>1. EngineInv => NeverPanics
  BY DEF EngineInv, CallInv, BodyHeld, NeverPanics
<1> QED  BY <1>1, EngineInvariant, PTL

\* No request with a body is sent without it.
THEOREM BodyNeverLost == Spec => []BodyForwarded
<1>1. EngineInv => BodyForwarded
  BY DEF EngineInv, CallInv, BodyHeld, BodyForwarded
<1> QED  BY <1>1, EngineInvariant, PTL

\* A refused request leaves no trace at an upstream or a mirror.
THEOREM RefusalIsComplete == Spec => []RefusedSendsNothing
<1>1. EngineInv => RefusedSendsNothing
  BY DEF EngineInv, CallInv, RefusedEarly, RefusedSendsNothing
<1> QED  BY <1>1, EngineInvariant, PTL

-----------------------------------------------------------------------------
(* A request that has been sent is never sent elsewhere *)

\* What a step of one call may do to where the others are.
LEMMA OthersStay ==
    ASSUME TypeOK, NEW c \in Request, CallNext(c), NEW r \in Request, r # c
    PROVE  pc'[r] = pc[r] /\ upstream'[r] = upstream[r]
<1> USE DEF Goto, Answer, metrics, caches, routing, attempt, clock, outside, scanFrame,
            attemptFrame
<1>1. pc \in [Request -> Label] /\ upstream \in [Request -> Addr \cup {None}]
  BY DEF TypeOK
<1>2. CASE Receive(c) \/ Tick(c) \/ TimedOut(c) \/ ClientGone(c) \/ MirrorEnds(c)
  BY <1>1, <1>2 DEF Receive, Tick, TimedOut, ClientGone, MirrorEnds
<1>3. CASE NotFound(c) \/ LookupPlugin(c) \/ Deny(c) \/ Admit(c) \/ NoUpstream(c)
  BY <1>1, <1>3 DEF NotFound, LookupPlugin, Deny, Admit, NoUpstream
<1>4. CASE SelectRoute(c) \/ StartScan(c)
  BY <1>1, <1>4 DEF SelectRoute, StartScan
<1>5. CASE Scanning(c)
  BY <1>1, <1>5 DEF Scanning, TakeCandidate, SkipCandidate, SecondPass, FailOpen, BeginAttempt
<1>6. CASE Connected(c) \/ Responded(c)
  BY <1>1, <1>6 DEF Connected, Responded
<1>7. CASE ConnectError(c) \/ TransportError(c) \/ SendError(c)
  BY <1>1, <1>7 DEF ConnectError, TransportError, SendError, AttemptFails
<1> QED  BY <1>2, <1>3, <1>4, <1>5, <1>6, <1>7 DEF CallNext, Step, Upstreams

LEMMA SentCallWaits ==
    ASSUME EngineInv, NEW r \in Request, CallNext(r), delivered[r] # << >>
    PROVE  pc'[r] \in {pc[r], "done", "dropped"} /\ upstream'[r] = upstream[r]
<1> USE DEF Goto, Answer, metrics, caches, routing, attempt, clock, outside, scanFrame,
            attemptFrame
<1>1. pc \in [Request -> Label] /\ pc[r] \in {"sent", "done", "dropped"}
  BY DEF EngineInv, TypeOK, CallInv, SentOnce, BodyHeld, BeforeSend, BeforeAttempt,
         BeforeAdmission, Label, Running, Ended
<1>2. CASE Receive(r) \/ Step(r)
  BY <1>1, <1>2 DEF Receive, Step, NotFound, SelectRoute, LookupPlugin, Deny, Admit,
     NoUpstream, StartScan, Scanning, TakeCandidate, SkipCandidate, SecondPass, FailOpen
<1>3. CASE Connected(r) \/ ConnectError(r) \/ SendError(r)
  BY <1>1, <1>3 DEF Connected, ConnectError, SendError
<1>4. CASE Responded(r)
  BY <1>1, <1>4 DEF Responded
<1>5. CASE TransportError(r)
  <2>1. pc' = [pc EXCEPT ![r] = "done"] /\ upstream' = upstream
    BY <1>1, <1>5 DEF TransportError, AttemptFails, Retryable
  <2> QED  BY <1>1, <2>1
<1>6. CASE Tick(r) \/ TimedOut(r) \/ ClientGone(r) \/ MirrorEnds(r)
  BY <1>1, <1>6 DEF Tick, TimedOut, ClientGone, MirrorEnds
<1> QED  BY <1>2, <1>3, <1>4, <1>5, <1>6 DEF CallNext, Upstreams

\* Once a request is on a connection its call only waits: no retry, no other
\* upstream, whatever the other calls and the probes do.
THEOREM NoRetryOnceSent == Spec => SentIsFinal
<1> DEFINE Final == \A r \in Request : delivered[r] # << >> =>
                        /\ pc'[r] \in {pc[r], "done", "dropped"}
                        /\ upstream'[r] = upstream[r]
<1>1. EngineInv /\ [EngineNext]_engineVars => [Final]_engineVars
  <2> SUFFICES ASSUME EngineInv, EngineNext PROVE Final \/ UNCHANGED engineVars
    OBVIOUS
  <2>1. CASE \E c \in Request : CallNext(c)
    <3>1. PICK c \in Request : CallNext(c)
      BY <2>1
    <3>2. ASSUME NEW r \in Request, delivered[r] # << >>
          PROVE  pc'[r] \in {pc[r], "done", "dropped"} /\ upstream'[r] = upstream[r]
      BY <3>1, <3>2, OthersStay, SentCallWaits DEF EngineInv
    <3> QED  BY <3>2
  <2>2. CASE Probing
    BY <2>2 DEF Probing, SetHealth, attempt
  <2> QED  BY <2>1, <2>2 DEF EngineNext, Quiescent
<1> QED  BY <1>1, EngineInvariant, PTL DEF Spec, SentIsFinal

-----------------------------------------------------------------------------
(* The refinement: every step of a call is one step of its delivery or none, *)
(* for every configuration and any number of calls.                          *)

\* What Delivery sees of a call.
SameView(x) ==
    /\ pc'[x] = pc[x] /\ delivered'[x] = delivered[x]
    /\ mirrored'[x] = mirrored[x] /\ status'[x] = status[x]

ViewTyped ==
    /\ pc \in [Request -> Label] /\ delivered \in [Request -> Seq(Addr)]
    /\ mirrored \in [Request -> {"no", "in_flight", "ended"}]
    /\ status \in [Request -> Code]

\* A step of one call is no step of another's delivery.
LEMMA OthersSameView ==
    ASSUME ViewTyped, NEW r \in Request, CallNext(r), NEW x \in Request, x # r
    PROVE  SameView(x)
<1> USE DEF Goto, Answer, metrics, caches, routing, attempt, clock, outside, scanFrame,
            attemptFrame, ViewTyped, SameView
<1>1. CASE Receive(r) \/ Tick(r) \/ TimedOut(r) \/ ClientGone(r) \/ MirrorEnds(r)
  BY <1>1 DEF Receive, Tick, TimedOut, ClientGone, MirrorEnds
<1>2. CASE NotFound(r) \/ LookupPlugin(r) \/ Deny(r) \/ Admit(r) \/ NoUpstream(r)
  BY <1>2 DEF NotFound, LookupPlugin, Deny, Admit, NoUpstream
<1>3. CASE SelectRoute(r) \/ StartScan(r)
  BY <1>3 DEF SelectRoute, StartScan
<1>4. CASE Scanning(r)
  BY <1>4 DEF Scanning, TakeCandidate, SkipCandidate, SecondPass, FailOpen, BeginAttempt
<1>5. CASE Connected(r) \/ Responded(r)
  BY <1>5 DEF Connected, Responded
<1>6. CASE ConnectError(r) \/ TransportError(r) \/ SendError(r)
  BY <1>6 DEF ConnectError, TransportError, SendError, AttemptFails
<1> QED  BY <1>1, <1>2, <1>3, <1>4, <1>5, <1>6 DEF CallNext, Step, Upstreams

-----------------------------------------------------------------------------
(* What a step of a call does to its own delivery *)

Opens(r) ==
    /\ pc[r] = "idle" /\ pc'[r] \in Running
    /\ UNCHANGED <<delivered[r], mirrored[r], status[r]>>

Copies(r) ==
    /\ pc[r] \in Running /\ pc'[r] \in Running
    /\ delivered[r] = << >> /\ mirrored[r] = "no" /\ mirrored'[r] # "no"
    /\ UNCHANGED <<delivered[r], status[r]>>

Applies(r) ==
    /\ pc[r] \in Running /\ pc'[r] \in Running
    /\ Len(delivered[r]) = 0 /\ Len(delivered'[r]) = 1
    /\ UNCHANGED <<mirrored[r], status[r]>>

Concludes(r) ==
    /\ pc[r] \in Running /\ pc'[r] = "done"
    /\ UNCHANGED <<delivered[r], mirrored[r]>>
    /\ \/ status'[r] \in {"not_found", "denied"} /\ delivered[r] = << >> /\ mirrored[r] = "no"
       \/ status'[r] = "no_upstream" /\ delivered[r] = << >>
       \/ status'[r] = "ok" /\ Len(delivered[r]) = 1
       \/ status'[r] \in {"bad_gateway", "timeout"}

Abandons(r) ==
    /\ pc[r] \in Running /\ pc'[r] = "dropped"
    /\ UNCHANGED <<delivered[r], mirrored[r], status[r]>>

\* No step of the delivery: the call works on, or its mirror copy ends.
Works(r) ==
    /\ \/ pc'[r] = pc[r]
       \/ pc[r] \in Running /\ pc'[r] \in Running \cup {"panicked"}
    /\ mirrored'[r] = "no" <=> mirrored[r] = "no"
    /\ UNCHANGED <<delivered[r], status[r]>>

DeliveryStep(r) ==
    Opens(r) \/ Copies(r) \/ Applies(r) \/ Concludes(r) \/ Abandons(r) \/ Works(r)

LEMMA CallIsDeliveryStep ==
    ASSUME EngineInv, NEW r \in Request, CallNext(r)
    PROVE  DeliveryStep(r)
<1> USE DEF Goto, Answer, metrics, caches, routing, attempt, clock, outside, scanFrame,
            attemptFrame, Running
<1>1. ViewTyped
  BY DEF EngineInv, TypeOK, ViewTyped
<1>2. SentOnce(r) /\ RefusedEarly(r)
  BY DEF EngineInv, CallInv
<1> USE <1>1 DEF ViewTyped
<1>3. CASE Receive(r)
  <2>1. Opens(r)
    BY <1>3 DEF Receive, Opens
  <2> QED  BY <2>1 DEF DeliveryStep
<1>4. CASE NotFound(r) \/ Deny(r)
  <2>1. delivered[r] = << >> /\ mirrored[r] = "no"
    BY <1>2, <1>4 DEF NotFound, Deny, SentOnce, RefusedEarly, BeforeSend, BeforeAttempt,
       BeforeAdmission
  <2>2. Concludes(r)
    BY <1>4, <2>1 DEF NotFound, Deny, Concludes
  <2> QED  BY <2>2 DEF DeliveryStep
<1>5. CASE SelectRoute(r) \/ LookupPlugin(r) \/ StartScan(r)
  <2>1. Works(r)
    BY <1>5 DEF SelectRoute, LookupPlugin, StartScan, Works
  <2> QED  BY <2>1 DEF DeliveryStep
<1>6. CASE Admit(r)
  <2>1. delivered[r] = << >> /\ mirrored[r] = "no"
    BY <1>2, <1>6 DEF Admit, SentOnce, RefusedEarly, BeforeSend, BeforeAttempt,
       BeforeAdmission
  <2>2. Copies(r) \/ Works(r)
    BY <1>6, <2>1 DEF Admit, Copies, Works
  <2> QED  BY <2>2 DEF DeliveryStep
<1>7. CASE NoUpstream(r)
  <2>1. delivered[r] = << >>
    BY <1>2, <1>7 DEF NoUpstream, SentOnce, BeforeSend, BeforeAttempt
  <2>2. Concludes(r)
    BY <1>7, <2>1 DEF NoUpstream, Concludes
  <2> QED  BY <2>2 DEF DeliveryStep
<1>8. CASE Scanning(r)
  <2>1. Works(r)
    BY <1>8 DEF Scanning, TakeCandidate, SkipCandidate, SecondPass, FailOpen, BeginAttempt,
       Works
  <2> QED  BY <2>1 DEF DeliveryStep
<1>9. CASE Connected(r)
  <2>1. delivered[r] = << >>
    BY <1>2, <1>9 DEF Connected, SentOnce, BeforeSend
  <2>2. Applies(r)
    BY <1>9, <2>1 DEF Connected, Applies
  <2> QED  BY <2>2 DEF DeliveryStep
<1>10. CASE Responded(r)
  <2>1. Len(delivered[r]) = 1
    BY <1>2, <1>10 DEF Responded, SentOnce
  <2>2. Concludes(r)
    BY <1>10, <2>1 DEF Responded, Concludes
  <2> QED  BY <2>2 DEF DeliveryStep
<1>11. CASE ConnectError(r) \/ TransportError(r) \/ SendError(r)
  <2>1. Concludes(r) \/ Works(r)
    BY <1>11 DEF ConnectError, TransportError, SendError, AttemptFails, Concludes, Works
  <2> QED  BY <2>1 DEF DeliveryStep
<1>12. CASE TimedOut(r)
  <2>1. Concludes(r)
    BY <1>12 DEF TimedOut, Concludes
  <2> QED  BY <2>1 DEF DeliveryStep
<1>13. CASE ClientGone(r)
  <2>1. Abandons(r)
    BY <1>13 DEF ClientGone, Abandons
  <2> QED  BY <2>1 DEF DeliveryStep
<1>14. CASE Tick(r) \/ MirrorEnds(r)
  <2>1. Works(r)
    BY <1>14 DEF Tick, MirrorEnds, Works
  <2> QED  BY <2>1 DEF DeliveryStep
<1> QED
  BY <1>3, <1>4, <1>5, <1>6, <1>7, <1>8, <1>9, <1>10, <1>11, <1>12, <1>13, <1>14
  DEF CallNext, Step, Upstreams

-----------------------------------------------------------------------------
(* The refinement mapping *)

MappedPhase == [x \in Request |-> Phase(pc[x])]
MappedApplied == [x \in Request |-> Len(delivered[x])]
MappedCopied == [x \in Request |-> mirrored[x] # "no"]
MappedOutcome == [x \in Request |-> Outcome(status[x])]

\* A variable of Delivery changes for the call that steps, if at all.
LEMMA PhaseChange ==
    ASSUME NEW r \in Request, \A x \in Request \ {r} : SameView(x)
    PROVE  /\ MappedPhase' = [MappedPhase EXCEPT ![r] = Phase(pc'[r])]
           /\ Phase(pc'[r]) = Phase(pc[r]) => MappedPhase' = MappedPhase
BY DEF MappedPhase, SameView

LEMMA AppliedChange ==
    ASSUME NEW r \in Request, \A x \in Request \ {r} : SameView(x)
    PROVE  /\ MappedApplied' = [MappedApplied EXCEPT ![r] = Len(delivered'[r])]
           /\ delivered'[r] = delivered[r] => MappedApplied' = MappedApplied
BY DEF MappedApplied, SameView

LEMMA CopiedChange ==
    ASSUME NEW r \in Request, \A x \in Request \ {r} : SameView(x)
    PROVE  /\ mirrored'[r] # "no" => MappedCopied' = [MappedCopied EXCEPT ![r] = TRUE]
           /\ (mirrored'[r] = "no" <=> mirrored[r] = "no") => MappedCopied' = MappedCopied
BY DEF MappedCopied, SameView

LEMMA OutcomeChange ==
    ASSUME NEW r \in Request, \A x \in Request \ {r} : SameView(x)
    PROVE  /\ MappedOutcome' = [MappedOutcome EXCEPT ![r] = Outcome(status'[r])]
           /\ status'[r] = status[r] => MappedOutcome' = MappedOutcome
BY DEF MappedOutcome, SameView

\* What Delivery reads of a call.
LEMMA MappedValue ==
    ASSUME NEW r \in Request
    PROVE  /\ MappedPhase[r] = Phase(pc[r])
           /\ MappedApplied[r] = Len(delivered[r])
           /\ MappedCopied[r] <=> mirrored[r] # "no"
           /\ MappedOutcome[r] = Outcome(status[r])
BY DEF MappedPhase, MappedApplied, MappedCopied, MappedOutcome

LEMMA PhaseOf ==
    /\ Phase("idle") = "new" /\ Phase("done") = "answered" /\ Phase("dropped") = "abandoned"
    /\ \A label \in Running \cup {"panicked"} : Phase(label) = "open"
BY DEF Phase, Running

LEMMA OutcomeOf ==
    /\ Outcome("none") = "none" /\ Outcome("ok") = "response"
    /\ Outcome("not_found") = "refused" /\ Outcome("denied") = "refused"
    /\ Outcome("no_upstream") = "unserved"
    /\ Outcome("bad_gateway") = "failed" /\ Outcome("timeout") = "failed"
BY DEF Outcome

\* The steps of Delivery, over the mapped variables.
LEMMA DeliveryAction ==
    ASSUME NEW r \in Request
    PROVE  /\ Promise!Open(r) <=>
                 /\ MappedPhase[r] = "new" /\ MappedPhase' = [MappedPhase EXCEPT ![r] = "open"]
                 /\ UNCHANGED <<MappedApplied, MappedCopied, MappedOutcome>>
           /\ Promise!Copy(r) <=>
                 /\ MappedPhase[r] = "open" /\ MappedApplied[r] = 0 /\ ~MappedCopied[r]
                 /\ MappedCopied' = [MappedCopied EXCEPT ![r] = TRUE]
                 /\ UNCHANGED <<MappedPhase, MappedApplied, MappedOutcome>>
           /\ Promise!Apply(r) <=>
                 /\ MappedPhase[r] = "open" /\ MappedApplied[r] = 0
                 /\ MappedApplied' = [MappedApplied EXCEPT ![r] = 1]
                 /\ UNCHANGED <<MappedPhase, MappedCopied, MappedOutcome>>
           /\ Promise!Abandon(r) <=>
                 /\ MappedPhase[r] = "open"
                 /\ MappedPhase' = [MappedPhase EXCEPT ![r] = "abandoned"]
                 /\ UNCHANGED <<MappedApplied, MappedCopied, MappedOutcome>>
           /\ \A o : Promise!Conclude(r, o) <=>
                 /\ MappedPhase[r] = "open"
                 /\ o = "refused" => MappedApplied[r] = 0 /\ ~MappedCopied[r]
                 /\ o = "unserved" => MappedApplied[r] = 0
                 /\ o = "response" => MappedApplied[r] = 1
                 /\ MappedPhase' = [MappedPhase EXCEPT ![r] = "answered"]
                 /\ MappedOutcome' = [MappedOutcome EXCEPT ![r] = o]
                 /\ UNCHANGED <<MappedApplied, MappedCopied>>
BY Zenon DEF Promise!Open, Promise!Copy, Promise!Apply, Promise!Abandon, Promise!Conclude,
   MappedPhase, MappedApplied, MappedCopied, MappedOutcome

LEMMA StepRefines ==
    ASSUME EngineInv, NEW r \in Request, CallNext(r)
    PROVE  [Promise!DeliveryNext]_(Promise!deliveryVars)
<1>1. \A x \in Request \ {r} : SameView(x)
  BY OthersSameView DEF ViewTyped, EngineInv, TypeOK
<1>2. DeliveryStep(r)
  BY CallIsDeliveryStep
<1> USE <1>1, PhaseOf, PhaseChange, AppliedChange, CopiedChange, OutcomeChange, MappedValue
<1>3. CASE Opens(r)
  <2>1. Promise!Open(r)
    BY <1>3, DeliveryAction DEF Opens
  <2> QED  BY <2>1 DEF Promise!DeliveryNext
<1>4. CASE Copies(r)
  <2>1. Promise!Copy(r)
    BY <1>4, DeliveryAction DEF Copies
  <2> QED  BY <2>1 DEF Promise!DeliveryNext
<1>5. CASE Applies(r)
  <2>1. MappedPhase[r] = "open" /\ MappedApplied[r] = 0
    BY <1>5 DEF Applies
  <2>2. MappedApplied' = [MappedApplied EXCEPT ![r] = 1]
    BY ONLY <1>1, <1>5, AppliedChange DEF Applies
  <2>3. UNCHANGED <<MappedPhase, MappedCopied, MappedOutcome>>
    BY <1>5 DEF Applies
  <2>4. Promise!Apply(r)
    BY ONLY <2>1, <2>2, <2>3, DeliveryAction
  <2> QED  BY <2>4 DEF Promise!DeliveryNext
<1>6. CASE Concludes(r)
  <2> DEFINE o == Outcome(status'[r])
  <2>1. /\ MappedPhase[r] = "open"
        /\ MappedPhase' = [MappedPhase EXCEPT ![r] = "answered"]
        /\ MappedOutcome' = [MappedOutcome EXCEPT ![r] = o]
        /\ UNCHANGED <<MappedApplied, MappedCopied>>
    BY <1>6 DEF Concludes
  <2>2. delivered[r] = << >> => MappedApplied[r] = 0
    OBVIOUS
  <2>3. /\ o = "refused" => MappedApplied[r] = 0 /\ ~MappedCopied[r]
        /\ o = "unserved" => MappedApplied[r] = 0
        /\ o = "response" => MappedApplied[r] = 1
        /\ o \in {"refused", "unserved", "response", "failed"}
    BY <1>6, <2>2, OutcomeOf DEF Concludes
  <2> HIDE DEF o
  <2>4. Promise!Conclude(r, o)
    BY ONLY <2>1, <2>3, DeliveryAction
  <2> QED  BY <2>3, <2>4 DEF Promise!DeliveryNext
<1>7. CASE Abandons(r)
  <2>1. Promise!Abandon(r)
    BY <1>7, DeliveryAction DEF Abandons
  <2> QED  BY <2>1 DEF Promise!DeliveryNext
<1>8. CASE Works(r)
  <2>1. UNCHANGED <<MappedPhase, MappedApplied, MappedCopied, MappedOutcome>>
    BY <1>8 DEF Works
  <2> QED
    BY ONLY <2>1
    DEF Promise!deliveryVars, MappedPhase, MappedApplied, MappedCopied, MappedOutcome
<1> QED  BY <1>2, <1>3, <1>4, <1>5, <1>6, <1>7, <1>8 DEF DeliveryStep

\* What is not a step of a call moves nothing that Delivery sees.
LEMMA StutterRefines ==
    ASSUME UNCHANGED <<pc, delivered, mirrored, status>>
    PROVE  UNCHANGED Promise!deliveryVars
BY DEF Promise!deliveryVars

LEMMA InitRefines == Init => Promise!DeliveryInit
<1> SUFFICES ASSUME Init PROVE Promise!DeliveryInit
  OBVIOUS
<1>1. \A r \in Request : /\ pc[r] = "idle" /\ delivered[r] = << >>
                         /\ mirrored[r] = "no" /\ status[r] = "none"
  BY DEF Init
<1>2. [r \in Request |-> Phase(pc[r])] = [r \in Request |-> "new"]
  BY <1>1, PhaseOf
<1>3. [r \in Request |-> Len(delivered[r])] = [r \in Request |-> 0]
  BY <1>1
<1>4. [r \in Request |-> mirrored[r] # "no"] = [r \in Request |-> FALSE]
  BY <1>1
<1>5. [r \in Request |-> Outcome(status[r])] = [r \in Request |-> "none"]
  BY <1>1, OutcomeOf
<1> QED  BY <1>2, <1>3, <1>4, <1>5 DEF Promise!DeliveryInit

\* ProxyEngine::handle keeps its promise: whatever routes, scans, attempts,
\* timers and departures of clients interleave, every call is a delivery that
\* is applied once at most and answered by how far it came.
THEOREM EngineDelivers == Spec => Delivers
<1>1. EngineInv /\ [EngineNext]_engineVars => [Promise!DeliveryNext]_(Promise!deliveryVars)
  <2> SUFFICES ASSUME EngineInv, [EngineNext]_engineVars
               PROVE  [Promise!DeliveryNext]_(Promise!deliveryVars)
    OBVIOUS
  <2>1. CASE \E r \in Request : CallNext(r)
    BY <2>1, StepRefines
  <2>2. CASE Probing \/ UNCHANGED engineVars
    BY <2>2, StutterRefines DEF Probing, SetHealth, engineVars, outside
  <2> QED  BY <2>1, <2>2 DEF EngineNext, Quiescent
<1> QED
  BY <1>1, InitRefines, EngineInvariant, PTL DEF Spec, Delivers, Promise!DeliverySpec

=============================================================================
