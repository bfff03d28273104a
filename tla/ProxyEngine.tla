---------------------------- MODULE ProxyEngine ----------------------------
(***************************************************************************)
(* ProxyEngine::handle of torana-core/src/server.rs: concurrent calls      *)
(* route, filter, mirror, balance, retry and forward requests over the     *)
(* shared configuration, load balancers, plugins and health registry.      *)
(*                                                                         *)
(* A call is cut into steps where the code awaits: between two steps any   *)
(* other call, prober or reload may run.  Configurations are immutable, so *)
(* the fields a call clones out of its route are represented by the route  *)
(* itself: the generation it was read from and its index.                  *)
(*                                                                         *)
(* The caches hold generations, positions in `loaded'.  Only Reload moves  *)
(* them; this module's own specification runs one generation.              *)
(***************************************************************************)
EXTENDS Integers, Sequences, FiniteSets, Upstream
LOCAL INSTANCE SequencesExt

CONSTANTS
    Request,        \* calls of handle, each made at most once
    Addr,           \* upstream addresses
    RouteName,      \* values of route.name
    Plugin,         \* plugin file paths
    None,           \* an absent value: no plugin, no mirror, no upstream yet
    Unloadable,     \* plugin files that Plugin::load rejects
    ConfigId,       \* configuration files the operator may install
    Config,         \* [ConfigId -> sequence of routes, in priority order]
    StartConfig,    \* the configuration the process starts with
    Arrival,        \* the requests clients send: [host, path, safe, empty]
    DefaultTimeout, \* DEFAULT_TOTAL_TIMEOUT, in ticks
    MaxLoads        \* bound: successful loads, the initial one included

\* Names are sequences of labels in lower case, paths of segments.
HostPattern == [wild : BOOLEAN, labels : Seq(STRING)]     \* wild: "*." before them

RouteConfig == [name     : RouteName,
                host     : HostPattern \cup {None},
                path     : Seq(STRING) \cup {None},
                upstream : Seq([addr : Addr, weight : Nat \cup {Unset}]),
                retries  : Nat \cup {Unset},
                total    : Nat \cup {Unset},  \* timeout.total, in ticks
                health   : BOOLEAN,           \* health_check is set
                plugin   : Plugin \cup {None},
                mirror   : Nat \cup {Unset, None}]  \* mirror.rate, None without mirror

\* ProxyEngine::new takes any Config: validate is its caller's business, and
\* a program that embeds the engine may skip it.  Routes may lack upstreams.
ASSUME EngineAssumption ==
    /\ None \notin Plugin
    /\ UsizeMod \in Nat \ {0} /\ MaxLoads \in Nat \ {0} /\ DefaultTimeout \in Nat
    /\ StartConfig \in ConfigId
    /\ Config \in [ConfigId -> Seq(RouteConfig)]
    /\ Arrival \subseteq [host : Seq(STRING) \cup {None}, path : Seq(STRING),
                        safe : BOOLEAN, empty : BOOLEAN]

VARIABLES
    loaded,         \* history: configurations loaded so far, by generation
    config_handle,  \* generation of the running configuration
    lb_cache,       \* generation of the load balancers
    plugin_cache,   \* generation of the compiled plugins, 0 when empty
    counter,        \* LoadBalancer.counter, per generation and route name
    registry,       \* HealthRegistry: "untracked", "up" or "down"
    http_requests_total, http_request_duration_seconds, upstream_connection_errors,
                    \* the metrics; of the histogram, its count
    \* One call of handle:
    pc,             \* where it is
    req,            \* its request
    route,          \* the route it selected: [gen, index]
    plugin,         \* generation of the plugin it looked up, 0 for none
    tried,          \* upstreams that failed; its length counts attempts made
    scan,           \* next_healthy's locals: [gen, start, i]
    upstream,       \* upstream_addr of the current attempt
    body,           \* incoming_body: "held" or "taken"
    waited,         \* ticks spent in the current attempt
    elapsed,        \* ticks spent in all attempts
    status,         \* what the client was answered
    \* The outside world:
    delivered,      \* upstreams the request's bytes have reached
    mirrored        \* the mirror copy: "no", "in_flight" or "ended"

metrics  == <<http_requests_total, http_request_duration_seconds, upstream_connection_errors>>
caches   == <<loaded, config_handle, lb_cache, plugin_cache>>
routing  == <<req, route, plugin>>
attempt  == <<tried, upstream, body>>
clock    == <<waited, elapsed>>
outside  == <<delivered, mirrored>>
engineVars == <<caches, counter, registry, metrics, pc, routing, scan,
                attempt, clock, status, outside>>

-----------------------------------------------------------------------------
(* The route a call works for *)

NoRoute == [gen |-> 0, index |-> 0]

RouteOf(r) == Config[loaded[route[r].gen]][route[r].index]

\* host_matches, on the Host header alone: a request without one, as HTTP/2
\* clients send it, matches no pattern.
HostMatches(pattern, host) ==
    \/ pattern = None
    \/ /\ host # None
       /\ host = pattern.labels \/ (pattern.wild /\ IsSuffix(pattern.labels, host))

\* path_matches: a prefix that ends where a segment does.
PathMatches(prefix, path) == prefix = None \/ IsPrefix(prefix, path)

\* select_route: the first route that matches.
Matching(routes, rq) ==
    {k \in DOMAIN routes : HostMatches(routes[k].host, rq.host) /\ PathMatches(routes[k].path, rq.path)}
FirstMatch(routes, rq, k) ==
    /\ k \in Matching(routes, rq)
    /\ \A j \in Matching(routes, rq) : k <= j

\* RouteConfig::max_attempts.
MaxAttempts(rt) ==
    IF rt.retries # Unset THEN IF rt.retries > 1 THEN rt.retries ELSE 1
    ELSE IF Len(rt.upstream) > 1 THEN 2 ELSE 1

TotalTimeout(rt) == IF rt.total = Unset THEN DefaultTimeout ELSE rt.total

\* body_replayable, can_retry and effective_attempts.
Replayable(r) == req[r].safe /\ req[r].empty

\* Mutant: a request with a body may be tried again.
CanRetryUnchecked(r) == MaxAttempts(RouteOf(r)) > 1

CanRetry(r) == MaxAttempts(RouteOf(r)) > 1 /\ Replayable(r)
EffectiveAttempts(r) == IF CanRetry(r) THEN MaxAttempts(RouteOf(r)) ELSE 1

\* should_mirror, which samples the clock; an absent rate is 100.
ShouldMirror(rate) ==
    IF rate = Unset \/ rate >= 100 THEN {TRUE}
    ELSE IF rate = 0 THEN {FALSE} ELSE BOOLEAN

(* Load balancers and plugins of a configuration *)

\* build_lb_map: keyed by route.name, so the last route of a name wins.
Named(c, n) == {k \in DOMAIN Config[c] : Config[c][k].name = n}

\* Mutant: every name gets the first route's upstreams.
LbPoolsFirst(c, n) == Config[c][1].upstream

LbPools(c, n) ==
    IF Named(c, n) = {} THEN << >>
    ELSE Config[c][CHOOSE k \in Named(c, n) : \A j \in Named(c, n) : j <= k].upstream

LbSchedule == [c \in ConfigId |-> [n \in RouteName |-> Schedule(LbPools(c, n))]]
SchedOf(gen, n) == LbSchedule[loaded[gen]][n]

\* build_plugin_cache: all plugins of a configuration, or an error.
PluginsOf(c) == {Config[c][k].plugin : k \in DOMAIN Config[c]} \ {None}
PluginsLoad(c) == PluginsOf(c) \cap Unloadable = {}

\* spawn_all_probers: the upstreams of every route with a health check.
ProbedBy(c) ==
    UNION {{Config[c][k].upstream[j].addr : j \in DOMAIN Config[c][k].upstream} :
              k \in {i \in DOMAIN Config[c] : Config[c][i].health}}

\* is_healthy: an upstream never probed reads as healthy.
Healthy(a) == registry[a] # "down"

-----------------------------------------------------------------------------
(* Initial state: ProxyEngine::new, then no call yet *)

\* Plugins that fail to load at startup are logged and left out altogether.
StartPlugins == IF PluginsLoad(StartConfig) THEN 1 ELSE 0

Init ==
    /\ loaded = <<StartConfig>>
    /\ config_handle = 1
    /\ lb_cache = 1
    /\ plugin_cache = StartPlugins
    /\ counter = [g \in 1 .. MaxLoads |-> [n \in RouteName |-> 0]]
    /\ registry = [a \in Addr |-> "untracked"]
    /\ http_requests_total = 0
    /\ http_request_duration_seconds = 0
    /\ upstream_connection_errors = 0
    /\ pc = [r \in Request |-> "idle"]
    /\ req \in [Request -> Arrival]
    /\ route = [r \in Request |-> NoRoute]
    /\ plugin = [r \in Request |-> 0]
    /\ tried = [r \in Request |-> << >>]
    /\ scan = [r \in Request |-> [gen |-> 0, start |-> 0, i |-> 0]]
    /\ upstream = [r \in Request |-> None]
    /\ body = [r \in Request |-> "held"]
    /\ waited = [r \in Request |-> 0]
    /\ elapsed = [r \in Request |-> 0]
    /\ status = [r \in Request |-> "none"]
    /\ delivered = [r \in Request |-> << >>]
    /\ mirrored = [r \in Request |-> "no"]

-----------------------------------------------------------------------------
(* Accepting and routing *)

Goto(r, label) == pc' = [pc EXCEPT ![r] = label]

\* Every return of handle.
Answer(r, code) ==
    /\ Goto(r, "done")
    /\ status' = [status EXCEPT ![r] = code]

\* A client's request arrives; http_requests_total is incremented.
Receive(r) ==
    /\ pc[r] = "idle"
    /\ Goto(r, "arrived")
    /\ http_requests_total' = http_requests_total + 1
    /\ UNCHANGED <<http_request_duration_seconds, upstream_connection_errors, caches,
                   counter, registry, routing, scan, attempt, clock, status, outside>>

\* Under the read guard of config_handle; 404 when no route matches.
NotFound(r) ==
    /\ pc[r] = "arrived"
    /\ Matching(Config[loaded[config_handle]], req[r]) = {}
    /\ Answer(r, "not_found")
    /\ UNCHANGED <<caches, counter, registry, metrics, routing, scan, attempt, clock, outside>>

\* The snapshot of the route.  Without a plugin the guard is released here,
\* with one it is held until LookupPlugin.
SelectRoute(r) ==
    LET routes == Config[loaded[config_handle]]
    IN  /\ pc[r] = "arrived"
        /\ \E k \in DOMAIN routes :
              /\ FirstMatch(routes, req[r], k)
              /\ route' = [route EXCEPT ![r] = [gen |-> config_handle, index |-> k]]
              /\ Goto(r, IF routes[k].plugin = None THEN "filter" ELSE "lookup")
        /\ UNCHANGED <<caches, counter, registry, metrics, req, plugin, scan, attempt,
                       clock, status, outside>>

\* Mutant: looks a plugin up by route name, where the cache is keyed by path.
FoundPluginByName(r) ==
    IF plugin_cache # 0 /\ RouteOf(r).name \in PluginsOf(loaded[plugin_cache])
    THEN plugin_cache ELSE 0

\* The plugin the route names, if the plugin cache of this moment holds it.
FoundPlugin(r) ==
    IF plugin_cache # 0 /\ RouteOf(r).plugin \in PluginsOf(loaded[plugin_cache])
    THEN plugin_cache ELSE 0

LookupPlugin(r) ==
    /\ pc[r] = "lookup"
    /\ plugin' = [plugin EXCEPT ![r] = FoundPlugin(r)]
    /\ Goto(r, "filter")
    /\ UNCHANGED <<caches, counter, registry, metrics, req, route, scan, attempt, clock,
                   status, outside>>

\* Mutant: the verdict comes after the mirror copy was spawned.
DenyLate(r) ==
    /\ pc[r] \in {"filter", "pick"}
    /\ plugin[r] # 0
    /\ Answer(r, "denied")
    /\ UNCHANGED <<caches, counter, registry, metrics, routing, scan, attempt, clock, outside>>

\* Plugin::evaluate, whose verdict is any; a trap is a denial too.
Deny(r) ==
    /\ pc[r] = "filter"
    /\ plugin[r] # 0
    /\ Answer(r, "denied")
    /\ UNCHANGED <<caches, counter, registry, metrics, routing, scan, attempt, clock, outside>>

\* Allowed, or not filtered: the mirror copy is spawned and the loop entered.
MirrorChoices(r) ==
    IF RouteOf(r).mirror = None \/ ~Replayable(r) THEN {FALSE}
    ELSE ShouldMirror(RouteOf(r).mirror)

Admit(r) ==
    /\ pc[r] = "filter"
    /\ \E sampled \in MirrorChoices(r) :
          mirrored' = [mirrored EXCEPT ![r] = IF sampled THEN "in_flight" ELSE "no"]
    /\ Goto(r, "pick")
    /\ UNCHANGED <<caches, counter, registry, metrics, routing, scan, attempt, clock,
                   status, delivered>>

-----------------------------------------------------------------------------
(* Choosing an upstream: lb_cache and LoadBalancer::next_healthy *)

\* The balancers no longer know the route's name, or the route has no upstream.
NoUpstream(r) ==
    /\ pc[r] = "pick"
    /\ SchedOf(lb_cache, RouteOf(r).name) = << >>
    /\ Answer(r, "no_upstream")
    /\ UNCHANGED <<caches, counter, registry, metrics, routing, scan, attempt, clock, outside>>

\* Clone the balancer out of the cache and fetch_add its counter.
StartScan(r) ==
    LET n == RouteOf(r).name
    IN  /\ pc[r] = "pick"
        /\ SchedOf(lb_cache, n) # << >>
        /\ scan' = [scan EXCEPT ![r] = [gen |-> lb_cache, start |-> counter[lb_cache][n],
                                        i |-> 0]]
        /\ counter' = [counter EXCEPT ![lb_cache][n] = Bump(@)]
        /\ Goto(r, "prefer")
        /\ UNCHANGED <<caches, registry, metrics, routing, attempt, clock, status, outside>>

ScanSched(r) == SchedOf(scan[r].gen, RouteOf(r).name)
CandidateAt(r, i) == Candidate(ScanSched(r), scan[r].start, i)
Tried(r) == {tried[r][k] : k \in DOMAIN tried[r]}

\* Mutant: upstreams that failed before are not avoided.
AcceptableTried(r) == Healthy(CandidateAt(r, scan[r].i))

\* The test of each pass; the health lookup is an await, so each candidate
\* is a step of its own.
Acceptable(r) ==
    /\ pc[r] = "prefer" => CandidateAt(r, scan[r].i) \notin Tried(r)
    /\ Healthy(CandidateAt(r, scan[r].i))

LastCandidate(r) == scan[r].i + 1 = Len(ScanSched(r))

\* Build the attempt's request and start proxy_request under the timeout.
\* The streaming body can be taken once only: a second take panics.
BeginAttempt(r, a) ==
    IF CanRetry(r) \/ body[r] = "held"
    THEN /\ upstream' = [upstream EXCEPT ![r] = a]
         /\ body' = [body EXCEPT ![r] = IF CanRetry(r) THEN @ ELSE "taken"]
         /\ waited' = [waited EXCEPT ![r] = 0]
         /\ Goto(r, "connect")
    ELSE /\ Goto(r, "panicked")
         /\ UNCHANGED <<upstream, body, waited>>

scanFrame == <<caches, counter, registry, metrics, routing, tried, elapsed, status, outside>>

TakeCandidate(r) ==
    /\ pc[r] \in {"prefer", "any"}
    /\ Acceptable(r)
    /\ BeginAttempt(r, CandidateAt(r, scan[r].i))
    /\ UNCHANGED <<scanFrame, scan>>

SkipCandidate(r) ==
    /\ pc[r] \in {"prefer", "any"}
    /\ ~Acceptable(r) /\ ~LastCandidate(r)
    /\ scan' = [scan EXCEPT ![r].i = @ + 1]
    /\ UNCHANGED <<scanFrame, pc, upstream, body, waited>>

\* Mutant: looks for an untried healthy upstream again and again.
SecondPassSpins(r) ==
    /\ pc[r] = "prefer"
    /\ ~Acceptable(r) /\ LastCandidate(r)
    /\ scan' = [scan EXCEPT ![r].i = 0]
    /\ UNCHANGED <<scanFrame, pc, upstream, body, waited>>

\* No untried healthy upstream: look again, tried ones included.
SecondPass(r) ==
    /\ pc[r] = "prefer"
    /\ ~Acceptable(r) /\ LastCandidate(r)
    /\ scan' = [scan EXCEPT ![r].i = 0]
    /\ Goto(r, "any")
    /\ UNCHANGED <<scanFrame, upstream, body, waited>>

\* Every candidate was down when it was looked at: the first one regardless.
FailOpen(r) ==
    /\ pc[r] = "any"
    /\ ~Acceptable(r) /\ LastCandidate(r)
    /\ BeginAttempt(r, CandidateAt(r, 0))
    /\ UNCHANGED <<scanFrame, scan>>

-----------------------------------------------------------------------------
(* One attempt: proxy_request under tokio::time::timeout *)

attemptFrame == <<caches, counter, registry, routing, scan, upstream, body, mirrored>>

\* The connection is there and the request is written to it.
Connected(r) ==
    /\ pc[r] = "connect"
    /\ Goto(r, "sent")
    /\ delivered' = [delivered EXCEPT ![r] = Append(@, upstream[r])]
    /\ UNCHANGED <<attemptFrame, metrics, tried, clock, status>>

\* Response headers: the duration is observed, the response streamed back.
Responded(r) ==
    /\ pc[r] = "sent"
    /\ Answer(r, "ok")
    /\ http_request_duration_seconds' = http_request_duration_seconds + 1
    /\ UNCHANGED <<http_requests_total, upstream_connection_errors, attemptFrame, tried,
                   clock, delivered>>

CountError ==
    /\ upstream_connection_errors' = upstream_connection_errors + 1
    /\ UNCHANGED <<http_requests_total, http_request_duration_seconds>>

\* Mutant: one attempt too many.
AttemptsLeftOver(r) == Len(tried[r]) < EffectiveAttempts(r)

AttemptsLeft(r) == Len(tried[r]) + 1 < EffectiveAttempts(r)

\* Mutant: the retry forgets that the body cannot be sent twice.
AttemptFailsUnguarded(r, retryable) ==
    /\ CountError
    /\ tried' = [tried EXCEPT ![r] = Append(@, upstream[r])]
    /\ IF retryable /\ Len(tried[r]) + 1 < MaxAttempts(RouteOf(r))
       THEN Goto(r, "pick") /\ UNCHANGED status
       ELSE Answer(r, "bad_gateway")
    /\ UNCHANGED <<attemptFrame, clock, delivered>>

\* An Err of proxy_request: try again or give up with 502.
AttemptFails(r, retryable) ==
    /\ CountError
    /\ tried' = [tried EXCEPT ![r] = Append(@, upstream[r])]
    /\ IF CanRetry(r) /\ retryable /\ AttemptsLeft(r)
       THEN Goto(r, "pick") /\ UNCHANGED status
       ELSE Answer(r, "bad_gateway")
    /\ UNCHANGED <<attemptFrame, clock, delivered>>

\* Mutant: every error is worth another attempt.
RetryableAlways(r) == TRUE

\* is_retryable: hyper's connect errors, and nothing after the connection.
Retryable(r) == pc[r] = "connect"

ConnectError(r) == pc[r] = "connect" /\ AttemptFails(r, Retryable(r))

\* The connection breaks or speaks no HTTP once the request is on it.
TransportError(r) == pc[r] = "sent" /\ AttemptFails(r, Retryable(r))

\* A pooled connection turns out dead before the request is on it.
SendError(r) == pc[r] = "connect" /\ AttemptFails(r, FALSE)

Tick(r) ==
    /\ pc[r] \in {"connect", "sent"}
    /\ waited[r] < TotalTimeout(RouteOf(r))
    /\ waited' = [waited EXCEPT ![r] = @ + 1]
    /\ elapsed' = [elapsed EXCEPT ![r] = @ + 1]
    /\ UNCHANGED <<attemptFrame, metrics, pc, tried, status, delivered>>

\* Mutant: a timed-out attempt is tried elsewhere.
TimedOutRetries(r) ==
    /\ pc[r] \in {"connect", "sent"}
    /\ waited[r] >= TotalTimeout(RouteOf(r))
    /\ AttemptFails(r, TRUE)

\* Mutant: a timed-out attempt is not counted.
TimedOutUncounted(r) ==
    /\ pc[r] \in {"connect", "sent"}
    /\ waited[r] >= TotalTimeout(RouteOf(r))
    /\ Answer(r, "timeout")
    /\ UNCHANGED <<attemptFrame, metrics, tried, clock, delivered>>

\* The attempt's timer fires: 504, never a retry.
TimedOut(r) ==
    /\ pc[r] \in {"connect", "sent"}
    /\ waited[r] >= TotalTimeout(RouteOf(r))
    /\ Answer(r, "timeout")
    /\ CountError
    /\ UNCHANGED <<attemptFrame, tried, clock, delivered>>

-----------------------------------------------------------------------------
(* The environment *)

Running == {"arrived", "lookup", "filter", "pick", "prefer", "any", "connect", "sent"}

\* The client goes away: the server drops the call at its await.
ClientGone(r) ==
    /\ pc[r] \in Running
    /\ Goto(r, "dropped")
    /\ UNCHANGED <<caches, counter, registry, metrics, routing, scan, attempt, clock,
                   status, outside>>

\* The spawned mirror task ends, its copy delivered or not.
MirrorEnds(r) ==
    /\ mirrored[r] = "in_flight"
    /\ mirrored' = [mirrored EXCEPT ![r] = "ended"]
    /\ UNCHANGED <<caches, counter, registry, metrics, pc, routing, scan, attempt, clock,
                   status, delivered>>

\* HealthRegistry::set by the address's prober.
SetHealth(a, healthy) ==
    /\ registry' = [registry EXCEPT ![a] = IF healthy THEN "up" ELSE "down"]
    /\ UNCHANGED <<caches, counter, metrics, pc, routing, scan, attempt, clock, status,
                   outside>>

-----------------------------------------------------------------------------
(* The specification *)

Scanning(r) == TakeCandidate(r) \/ SkipCandidate(r) \/ SecondPass(r) \/ FailOpen(r)

\* What the call's own task does once it is scheduled.
Step(r) ==
    \/ NotFound(r) \/ SelectRoute(r) \/ LookupPlugin(r) \/ Deny(r) \/ Admit(r)
    \/ NoUpstream(r) \/ StartScan(r) \/ Scanning(r)

\* What the upstream and the network may do to an attempt.
Upstreams(r) ==
    Connected(r) \/ Responded(r) \/ ConnectError(r) \/ TransportError(r) \/ SendError(r)

CallNext(r) ==
    \/ Receive(r) \/ Step(r) \/ Upstreams(r) \/ Tick(r) \/ TimedOut(r)
    \/ ClientGone(r) \/ MirrorEnds(r)

Probing == \E a \in ProbedBy(StartConfig), healthy \in BOOLEAN : SetHealth(a, healthy)

Ended == {"done", "dropped", "panicked"}

\* Every call has ended; the process idles.
Quiescent == (\A r \in Request : pc[r] \in Ended) /\ UNCHANGED engineVars

EngineNext == (\E r \in Request : CallNext(r)) \/ Probing \/ Quiescent

\* A runnable task runs, time passes and timers fire.  Nothing is assumed of
\* clients, upstreams or probes.
EngineFairness ==
    \A r \in Request : WF_engineVars(Step(r)) /\ WF_engineVars(Tick(r))
                       /\ WF_engineVars(TimedOut(r))

Spec == Init /\ [][EngineNext]_engineVars
FairSpec == Spec /\ EngineFairness

\* Probes report changes only while no call is running: what a scan promises
\* is promised of a health that holds still.
SettledNext == EngineNext /\ (registry' # registry => \A r \in Request : pc[r] = "idle")
SettledSpec == Init /\ [][SettledNext]_engineVars

-----------------------------------------------------------------------------
(* Type invariant *)

Label == {"idle"} \cup Running \cup Ended
Code == {"none", "ok", "not_found", "denied", "no_upstream", "bad_gateway", "timeout"}

\* The types of the shared state of the engine and of every call of handle.
TypeOK ==
    /\ loaded \in Seq(ConfigId) /\ Len(loaded) \in 1 .. MaxLoads
    /\ config_handle \in 1 .. Len(loaded)
    /\ lb_cache \in 1 .. Len(loaded)
    /\ plugin_cache \in 0 .. Len(loaded)
    /\ counter \in [1 .. MaxLoads -> [RouteName -> 0 .. UsizeMod - 1]]
    /\ registry \in [Addr -> {"untracked", "up", "down"}]
    /\ http_requests_total \in Nat
    /\ http_request_duration_seconds \in Nat
    /\ upstream_connection_errors \in Nat
    /\ pc \in [Request -> Label]
    /\ req \in [Request -> Arrival]
    /\ route \in [Request -> [gen : Nat, index : Nat]]
    /\ plugin \in [Request -> 0 .. MaxLoads]
    /\ tried \in [Request -> Seq(Addr)]
    /\ scan \in [Request -> [gen : Nat, start : Nat, i : Nat]]
    /\ upstream \in [Request -> Addr \cup {None}]
    /\ body \in [Request -> {"held", "taken"}]
    /\ waited \in [Request -> Nat]
    /\ elapsed \in [Request -> Nat]
    /\ status \in [Request -> Code]
    /\ delivered \in [Request -> Seq(Addr)]
    /\ mirrored \in [Request -> {"no", "in_flight", "ended"}]

-----------------------------------------------------------------------------
(* Safety *)

\* No request is written to upstreams twice, whatever fails in whatever
\* order: "safe to retry on a different upstream without risking a
\* non-idempotent request being applied twice" (is_retryable, proxy.rs).
DeliveredOnce == \A r \in Request : Len(delivered[r]) <= 1

\* The `expect' on the streaming body in handle never panics: the retry
\* decision and the loop bound agree on how often the body is needed.
NeverPanics == \A r \in Request : pc[r] # "panicked"

\* A request with a body is never sent without it: attempts that may be
\* repeated send an empty body, so they must be those that lose nothing.
BodyForwarded ==
    \A r \in Request : delivered[r] # << >> /\ ~req[r].empty => body[r] = "taken"

\* Once a request is on an upstream's connection the call only waits for it:
\* no further attempt, no other upstream (RouteConfig.retries: "Never
\* retries once a request has been sent").
SentIsFinal ==
    [][\A r \in Request : delivered[r] # << >> =>
          /\ pc'[r] \in {pc[r], "done", "dropped"}
          /\ upstream'[r] = upstream[r]]_engineVars

\* A request refused by routing or by its plugin reaches nobody, the mirror
\* included, and one refused for want of an upstream reaches no upstream.
RefusedSendsNothing ==
    \A r \in Request :
        /\ status[r] \in {"not_found", "denied", "no_upstream"} => delivered[r] = << >>
        /\ status[r] \in {"not_found", "denied"} => mirrored[r] = "no"

\* Nothing of a request on a route with a plugin leaves the proxy without
\* that plugin having been evaluated.
Filtered ==
    \A r \in Request :
        (delivered[r] # << >> \/ mirrored[r] # "no") /\ RouteOf(r).plugin # None
            => plugin[r] # 0

\* Requests are only ever tried on upstreams of the route they matched.
RouteOwnUpstreams ==
    \A r \in Request : upstream[r] # None =>
        \E k \in DOMAIN RouteOf(r).upstream : RouteOf(r).upstream[k].addr = upstream[r]

\* The timeout runs anew for each attempt, so the client waits at most that
\* many timeouts as there are attempts.
DeadlineBound ==
    \A r \in Request : elapsed[r] > 0 =>
        elapsed[r] <= EffectiveAttempts(r) * TotalTimeout(RouteOf(r))

Begun == {r \in Request : pc[r] # "idle"}
AnsweredWith(code) == {r \in Request : status[r] = code}
FailedAttempts == UNION {{r} \X DOMAIN tried[r] : r \in Request}

\* Every failed attempt counts as one upstream error, the timed-out one too,
\* and every response counts as one duration, whatever calls interleave.
MetricsAccount ==
    /\ http_requests_total = Cardinality(Begun)
    /\ http_request_duration_seconds = Cardinality(AnsweredWith("ok"))
    /\ upstream_connection_errors =
          Cardinality(AnsweredWith("timeout")) + Cardinality(FailedAttempts)

\* What next_healthy promises while probes report no change: an untried
\* healthy upstream, else any healthy one, else any (upstream.rs, 55-59).
BestAvailable ==
    \A r \in Request : pc[r] = "connect" =>
        LET all == {ScanSched(r)[k] : k \in DOMAIN ScanSched(r)}
            up == {a \in all : Healthy(a)}
            fresh == up \ Tried(r)
        IN  upstream[r] \in IF fresh # {} THEN fresh ELSE IF up # {} THEN up ELSE all

\* While all upstreams are healthy and no call retries, concurrent calls
\* together get exactly the upstreams the schedule lists, none skipped and
\* none given twice: the atomic fetch_add hands every call its own slot.
FairSpread ==
    \A g \in DOMAIN loaded, n \in RouteName :
        LET users == {r \in Request : /\ scan[r].gen = g /\ RouteOf(r).name = n
                                      /\ upstream[r] # None}
            sched == SchedOf(g, n)
            slots == 1 .. counter[g][n]
        IN  (\A a \in Addr : Healthy(a)) /\ Cardinality(users) = counter[g][n] =>
                \A a \in Addr :
                    Cardinality({r \in users : upstream[r] = a}) =
                    Cardinality({k \in slots : sched[((k - 1) % Len(sched)) + 1] = a})

-----------------------------------------------------------------------------
(* Refinement *)

\* How a call looks from outside.
Phase(label) == CASE label = "idle" -> "new"
                  [] label \in Running \cup {"panicked"} -> "open"
                  [] label = "done" -> "answered"
                  [] label = "dropped" -> "abandoned"
Outcome(code) == CASE code = "none" -> "none"
                   [] code = "ok" -> "response"
                   [] code \in {"not_found", "denied"} -> "refused"
                   [] code = "no_upstream" -> "unserved"
                   [] code \in {"bad_gateway", "timeout"} -> "failed"

Promise == INSTANCE Delivery WITH
    phase   <- [r \in Request |-> Phase(pc[r])],
    applied <- [r \in Request |-> Len(delivered[r])],
    copied  <- [r \in Request |-> mirrored[r] # "no"],
    outcome <- [r \in Request |-> Outcome(status[r])]

\* Every call keeps what Delivery promises, step by step: its route, scans,
\* attempts and timers are an implementation of one delivery (server.rs 98-313).
Delivers == Promise!DeliverySpec

-----------------------------------------------------------------------------
(* Liveness *)

\* A call that has begun is answered unless its client leaves: the attempts
\* are bounded, the scans are bounded and every wait has a timer.
Answered ==
    \A r \in Request : pc[r] = "arrived" ~> pc[r] \in {"done", "dropped"}

-----------------------------------------------------------------------------
(* What the documentation says and the code does not do *)

\* README.md:30 "Per-route total timeout (default 30s): hanging upstreams
\* return 504 instead of stalling clients"; config.rs:111 "Total request
\* timeout (time until the upstream returns response headers)".
TotalTimeoutHolds ==
    \A r \in Request : elapsed[r] > 0 => elapsed[r] <= TotalTimeout(RouteOf(r))

=============================================================================
