# A TLA+ model of torana

torana is a reverse proxy: a hyper server whose `ProxyEngine` routes, filters,
mirrors, balances, retries and forwards requests, which probes its upstreams,
reloads its configuration on SIGHUP while it serves and drains on SIGTERM. This
directory holds a model of it, TLC runs over small instances, and proofs of the
main safety properties for any instance.

Paths below are relative to `torana-core/src/` unless they name a crate.

## Inventory

| Component | State | Operations | Interacts with |
|---|---|---|---|
| upstream balancer, `upstream.rs` | expanded schedule (immutable), shared atomic counter | `new`, `next`, `next_healthy`, `build_lb_map` | reads the health registry, one await per candidate |
| request engine, `server.rs` 36-365 | `config_handle`, `lb_cache`, `plugin_cache`, registry, metrics; per call its route, tried upstreams, body | `new`, `handle` | reads all shared structures, each under its own lock and at its own moment |
| upstream requests, `proxy.rs` | the head of a request; hyper's connection pool | `proxy_request`, `build_request`, `apply_header_overrides`, stripping and forwarding of headers, `is_retryable` | called once per attempt and once per mirror copy |
| configuration reload, `reload.rs` | prober handles, position in the loop | `watch_config_signal` | writes every shared structure, one lock after another |
| health checking, `health.rs` | registry: address to flag, each flag behind an `Arc` | `is_healthy`, `set`, `spawn_prober`, `probe_once` | probers write, scans read; the reload spawns and aborts probers |
| server, `server.rs` 367-748 | listeners, shutdown channel, `conn_tracker`'s count, SIGHUP and SIGTERM handlers | `run`, `run_listener`, handshakes, `serve_connection`, drain, metrics endpoint | owns the engine, spawns the watcher |
| TLS and mutual TLS, `tls.rs` | certificates and client CA per listener | `load_tls_config`, fingerprint of the peer | decides which listeners start and whom they verify |
| ACME, `acme.rs` | state of the rustls-acme crate | `build`, challenge traffic | one accept loop of its own |
| configuration, `config.rs` | none | `load_config`, `validate`, `parse_duration`, `max_attempts` | read by all |
| plugins, `plugin.rs` | compiled modules by path | `build_plugin_cache`, `evaluate` | engine and reload |
| routing, `routing.rs` | none | `select_route` | reads the configuration |
| metrics, `metrics.rs` | two counters, a histogram | `inc`, `observe` | written by the engine |
| torana binary, logging | none | load, validate, run | |

What is hard here:

* *Interleaving.* Calls run concurrently and share a counter, a registry and
  three caches. `next_healthy` awaits between candidates; `handle` reads the
  route, then the plugin, then (once per attempt) the balancer. Probers of
  several routes share one flag per address, found under one lock, made under
  another and written under none.
* *Reload.* Four structures are swapped one by one, so a call may see any
  prefix of a reload, and a call that began before may see all of it.
* *Failure.* An attempt can fail before the connection, on it, or by timeout;
  only the first may be retried, and only for requests without a body. Startup
  can fail at any listener, with earlier ones already serving.
* *Order.* Overrides, identity, hop-by-hop stripping and the proxy's own
  headers are written over one another, for each attempt again.
* *Cancellation and shutdown.* A client that leaves drops its call at any
  await; an aborted prober may still finish the step it is in; the drain counts
  handles that tasks clone and drop while it looks.
* *Limits.* Weights 0 and absent, gcd reduction, the wrapping counter, the
  number of attempts, the timeout per attempt, durations that overflow.

What makes each component correct: the balancer gives each upstream its weight
exactly and interleaves; the engine sends a request at most once, with its
body, to an upstream of its own route, past its filter, and answers within a
bound; what it sends tells the truth about the client and keeps the client's
connection to itself; the reload replaces everything or nothing, loses no
signal, and never leaves a call with something older than its route; the
registry reads as the last probe found; the drain tells everybody, waits for
everybody as long as it may, and ends; and what validation accepts, the code
after it can rely on.

## Modules

| Module | Models | Extends |
|---|---|---|
| `Upstream` | the pure part of `upstream.rs`: gcd, reduction, schedule, slot arithmetic | |
| `LoadBalancer` | one balancer driven by `next()`, and reference notions of weight and interleaving | `Upstream` |
| `Delivery` | the abstract specification of a request: opened, copied, applied, concluded | |
| `ProxyEngine` | `ProxyEngine::new` and `handle` for concurrent calls, `select_route`, `next_healthy`, the registry, metrics; implements `Delivery` | `Upstream` |
| `Reload` | `watch_config_signal`, the operator and the probers around it | `ProxyEngine` |
| `Settings` | listeners, routes and durations as files state them; `validate`, `parse_duration`, `upstream_host_port`, `load_tls_config`, `acme::build` | |
| `Server` | `main` and `Server::run`: startup, accept loops, connections, signals, drain | `Settings` |
| `Forwarding` | the head of every attempt, mirror copy and response of one call | `Settings` |
| `Health` | probers, flags, spawn and abort | |
| `MCLoadBalancer`, `MCProxyEngine`, `MCReload`, `MCServer`, `MCForwarding`, `MCHealth` | instances for TLC | |
| `UpstreamProofs` | lemmas: what the expansion of weights computes, for any list of upstreams | `Upstream` |
| `LoadBalancerProofs` | shares, interleaving and shortness of the schedule | `LoadBalancer`, `UpstreamProofs` |
| `ProxyEngineProofs` | the engine's inductive invariant and the refinement of `Delivery` | `ProxyEngine`, `UpstreamProofs` |
| `CallProofs` | calls' clocks and filters, whose upstreams they try, the metrics, what scans choose | `ProxyEngineProofs` |
| `ReloadProofs` | the invariant across reloads | `Reload`, `CallProofs` |
| `ServerProofs`, `ForwardingProofs`, `HealthProofs` | the invariants of these modules | |

### ProxyEngine

A call of `handle` is a value of `pc`; a label stands at each await, which is
where another task may run:

| `pc` | The call is about to | Actions |
|---|---|---|
| `idle` | enter `handle` | `Receive` |
| `arrived` | lock the configuration and select a route | `NotFound`, `SelectRoute` |
| `lookup` | look its plugin up, still holding the configuration's guard | `LookupPlugin` |
| `filter` | evaluate the plugin, spawn the mirror copy | `Deny`, `Admit` |
| `pick` | read `lb_cache`, take a slot of the counter | `NoUpstream`, `StartScan` |
| `prefer`, `any` | look at the next candidate of the first, second pass | `TakeCandidate`, `SkipCandidate`, `SecondPass`, `FailOpen` |
| `connect` | get a connection | `Connected`, `ConnectError`, `SendError`, `Tick`, `TimedOut` |
| `sent` | receive response headers | `Responded`, `TransportError`, `Tick`, `TimedOut` |
| `done`, `dropped`, `panicked` | nothing | |

`loaded` is the history of configurations the process has loaded; the three
caches hold positions in it. A configuration never changes once loaded, so the
fields that `handle` clones out of a route are represented by the route's
generation and index. A balancer's counter belongs to its generation and name;
calls that hold the `Arc` of an older balancer use the older counter, as in the
code. `delivered` and `mirrored` record what left the proxy; `elapsed` is how
long attempts have taken; no code reads them.

A host is a sequence of labels, a path one of segments, and the patterns of a
route are of the same kind: `HostMatches` and `PathMatches` compare ends and
beginnings, as `routing.rs` does with text cut at dots and slashes. Case and
ports are left out. Only the `Host` header is read, so a request of HTTP/2,
which has none, arrives without a host. Other headers are `Forwarding`'s subject; response
bodies and logging are left out. A plugin's verdict is any. `SendError` stands
for every error that `is_retryable` does not recognise although nothing was
sent: an address or header that does not parse, or a pooled connection found
dead.

Taken from outside the repository: `Connected` and the error actions say that
hyper reports as a connect error only what failed before the connection stood,
and that it writes a request only to an established one; `ClientGone` says that
the server drops a call's future when its client leaves.

### Delivery

What `handle` promises of a request, without how: it is applied to an upstream
at most once, a mirror copy leaves at most once and before it, and the answer
tells how far it came (`refused`: nothing left; `unserved`: not applied;
`response`: applied; `failed`: unknown). `ProxyEngine` defines the mapping
(`Phase`, `Outcome`, the length of `delivered`, whether `mirrored` has left
"no") and `Delivers == Promise!DeliverySpec`. Routing, filters, balancers,
health, retries and clocks are stutters of it.

### Reload

The watcher's position is `watcher`: `wait`, `load`, then one label per swap.
`GuardFree` is the configuration's write lock waiting for calls that hold the
read guard across the plugin lookup (`lookup`); all other guards are released
before the next await and need no state. `probers` are running prober tasks by
generation and address, `ending` the aborted ones that may still store a result.
`edited` remembers whether the file changed since the last signal, for the
property `SignalHonoured` only. A second signal while one is pending coalesces,
as tokio's signal streams do.

### Settings

A configuration file's listeners and routes with optional fields
(`Absent`) and texts reduced to what the code tells apart: an address that
parses or not, a PEM file that is good, empty or unreadable, a header name or
value that hyper takes or not. `ValidListener` and `ValidRoute` are the checks
of `Config::validate`; warnings are left out. A duration is its digits and its
unit; `DurationOf` multiplies minutes in 64 bits (`U64Mod`), as a build without
overflow checks does. Cargo features of the build are the constant `Features`.

### Server

| State | Code | Actions |
|---|---|---|
| `process` | where `main` and `Server::run` are: `validating`, `starting`, `binding`, `ready`, `draining`, then how it ended | `Validate`, `Invalid`, `Embed`, `BindMetrics`, `Ready`, `Sigterm`, `Exit`, `EarlySignal`, `BindFails` |
| `hup_ready` | the spawned watcher has installed its handler | `InstallHup` |
| `socket` | the listeners, bound and served one by one | `StartListener`, `ListenerPanics`, `ListenerFails`, `StopListener` |
| `strong_count` | `Arc::strong_count(&conn_tracker)` | every action that clones or drops a handle |
| `told`, `seen` | the version of the shutdown channel and of each receiver | `Sigterm`, `Serve`, `CloseIdle`, `FinishRequests` |
| `conn` | per connection `new`, `queued`, `accepted`, `idle`, `busy`, `finishing`, then how it ended | `Connect`, `Accept`, `Serve`, `HandshakeEnds`, `RequestBegins`, `RequestEnds`, `Closes` |
| `drained` | time since the drain began | `Tick` |

`Embed` starts the server without validation, which a program that links the
library may do; `validated` remembers which it was. `End` is the end of the
process, which cuts what is live; `last` keeps where each connection stood.
A connection that is `accepted` holds one handle, a served one two: the
task's handler and `_guard`.

A request inside a connection is one label here: what it does is
`ProxyEngine`'s subject. Nothing of the engine's state is read by the server,
and the engine does not know of shutdown, so the two modules meet only in
"a request lasts as long as it likes".

### Forwarding

A head is a function from header to its field lines, a line a list of tokens;
`Opaque` is a token `to_str` fails on. Header operators follow the order of
the code: `AttemptHead` is overrides, identity, stripping, `Host`, the
forwarded headers; `MirrorHead` the same without overrides and identity;
`ReplyHead` stripping, then overrides. Overrides are a `HashMap` keyed by the
text of the header, so two spellings of one header are two keys; `later` is
which of them the map yields last, any, fixed for a call because the map of a
loaded route does not change. The call is abstracted to attempts, answer and
failure: when one may be repeated is `ProxyEngine`'s subject, and `Attempt` may
be repeated here whenever there is room, which allows more than the code.

The properties say of each header what leaves the proxy, exceptions included:

* `HopByHopStripped` is over the lines of the client's `Connection`: a copy
  carries nothing they name, and neither does an attempt unless the route
  overrides `Connection`, which discards them unread; the eight fixed headers
  never leave the proxy, except on a response whose route sets them.
* `IdentityTrue` fixes the fingerprint's lines: on an attempt the verified one or
  none, and none also when `Connection` names the header, since stripping comes
  after it was set (README.md:25 and 159 promise it to every upstream of a
  verified client); on a copy the client's claim.
* `OwnHeadersFinal` fixes `Host`, the protocol and the chain on attempts and
  copies: one line, the client's first readable line and then its address.
* `ChecksAreComplete` is about `validate` and what stands behind it: overrides
  apply, addresses of upstreams and mirror parse, and the timeout, the probes'
  interval and theirs count as written. Two faults pass validation: minutes that
  overflow 64 bits, of which the property says exactly when, and a host that
  parses but that no URI can hold, whose attempts all fail (`AddressFails`).

### Health

One prober per upstream of each health-checked route and generation. A probe,
the lookup of the flag under the read lock (`GetFlag`), its insertion under the
write lock (`InsertFlag`) and the store into it (`SwapFlag`) are steps of their
own. A flag is named by the prober that made it, so that a flag no longer in
the map is still one a prober may write to. `Spawn` comes before `Abort`, as in
`reload.rs`; an aborted task goes on until the await it is parked at.

`ProxyEngine` and `Reload` see the registry as one boolean per address and a
probe as one step. `LatestStored` is what allows it: reading the map and the
flag behind it is reading the last result stored.

## Runs

All runs that pass explore their instance to the end. Bounds are the constants
`MaxPools`, `MaxPicks`, `MaxLoads`, `MaxSignals`, `MaxSent`, `DrainTicks`, the
sizes of `Request` and `Conn` (each call and connection is made once), and
`UsizeMod` and `U64Mod`, which stand for 2^64 and are small so that counter and
minutes wrap in a run.

| Run | Instance | Shows |
|---|---|---|
| `balancer` | all lists of up to 3 upstreams over 3 addresses and weights absent, 0, 2, 3, 50; 16 picks | `WeightedShare`, `Interleaved`, `ScheduleReduced`: 16 picks pass the longest cycle the small weights produce (9) and cut it at every place |
| `core` | 2 calls, 3 routes, 6 kinds of request | `DeliveredOnce`, `NeverPanics`, `BodyForwarded`, `SentIsFinal`, `RefusedSendsNothing`, `Filtered`, `RouteOwnUpstreams`, `DeadlineBound`, `MetricsAccount`, and `Delivers`, the refinement: two attempts each, so a call can race another's retry; the counter wraps; an exact host, a wildcard with a subdomain, a path prefix, and a path that only begins with the same letters |
| `settled` | 2 calls of up to 3 attempts, weights 2:1, probes only before calls | `BestAvailable`: the contract of `next_healthy`, which holds of a moment only while health stands still, as each candidate is looked at in its own; `FairSpread`: concurrent calls get one slot of the schedule each |
| `reload` | 1 call of up to 2 attempts, 2 signals, 4 files and a bad one, fair | `NeverStale`, `UpstreamLossExplained`, `FilterLossExplained`: the call can stand at any step at any swap; `Settled`, `NeverHalfApplied`, `SignalHonoured`: the second signal comes before, during and after the first reload; `SignalServed`, `Answered`: lock waits in both directions end |
| `server` | 12 listener lists, 3 connections, a drain of 2 ticks, fair | `CountExact`, `DrainWaits`, `NobodyForgotten`, `ShutdownEnds`, `ValidatedNeverPanics`, `ClientCaEnforced` |
| `forwarding` | 20 routes, 7 heads of clients, 3 of upstreams, 2 attempts | `HopByHopStripped`, `IdentityTrue`, `OwnHeadersFinal`, `RetriesAlike`, `OverridesHonoured`, `ChecksAreComplete` |
| `health` | two routes that probe one upstream at two paths, a reload that keeps one | `LatestStored`, `Converges` |

Why these are enough. In `reload` one call suffices because its properties
speak of one call and the shared structures, and calls meet only in the
balancer's counter, which none of them reads; two signals, because a third
coalesces with a pending one; the timer may fire at once, since ticks before it
move nothing the properties see. In `server` three connections allow one on
each of two listeners and one that arrives late; two ticks tell a drain that
ends early from one that waits to its deadline; the lists hold one that serves
for each kind of listener, one that fails at its second listener for each
reason to fail, and one that is refused for each kind of check. In `forwarding`
the heads hold one case for each way a client's headers can meet a route's
overrides and the proxy's own, the good routes two durations that overflow
and a host no URI can hold, and the refused routes break
one check each; a
retry reads nothing but the client's head, so a second attempt shows what any
later one would. In `health` a third prober would stand where one of the two
already does, at either side of the locks, and probers of different addresses
share nothing. The proofs below do not have these bounds.

The files of `reload`: one that renames the route, moves it to another upstream
and drops its plugin and health check; one that names a plugin that does not
load; one that drops the plugin only; one that does not parse. `reload_unhealthy`
has one file besides the first, which drops the health check and nothing else, so
that the upstream in question is still the route's.

The type invariants of `Server` and `Health` are conjuncts of their proved
invariants and not properties of a run.

Runs that fail, each showing where the code departs from what is written about
it (`findings` in PROJECT.json quotes the lines):

| Run | Property | What happens |
|---|---|---|
| `total_timeout` | `TotalTimeoutHolds` | the timeout starts anew for each attempt; `DeadlineBound` is what holds |
| `broken_plugin` | `Filtered` | a plugin that fails to load at startup is logged and its route served unfiltered |
| `reload_refuses` | `ReloadRefusesNobody` | a route's balancer is gone before the call that selected the route picks an upstream |
| `reload_unhealthy` | `UncheckedReadsHealthy` | the new file only drops the route's health check; an aborted prober stores an unhealthy result before it ends, and the route's upstream keeps it with no prober left to replace it |
| `documented` | `HeadersAsDocumented` | an answered call whose attempt carries a header that the client's `Connection` names (`ClientHopsStripped`), whose attempt and copy have lost a line of `X-Forwarded-For` (`ChainAppended`), and whose copy carries a fingerprint the client claims (`ClaimStripped`) |

`UpstreamLossExplained` says that the first reload case happens only when a
later file really dropped the route's name. `FilterLossExplained` says the same
of plugins: a call that selected its route before a reload that drops the plugin
finds the plugin gone from the cache and passes unfiltered, and only then.

The last state of the `documented` trace fails all three conjuncts, each a
finding of its own. Its instance is one route that overrides `Connection` and
has a mirror, and one client head with a `Connection` that names a header, two
lines of `X-Forwarded-For` and a fingerprint. What does hold of the same headers
is `HopByHopStripped`, `OwnHeadersFinal` and `IdentityTrue`, which name these
exceptions.

### Fairness

*Engine and reload.* `Step`, `Tick` and `TimedOut` of each call are weakly
fair: tokio runs a task that is ready, time passes, and a timer that is due
fires. `Watch` is weakly fair: the watcher's task runs when it can, and tokio's
lock prefers a waiting writer to new readers, so calls cannot keep it out.
Nothing is assumed of clients, of upstreams (an attempt may hang until its
timer), of probes or of the operator.

*Server.* Startup, the watcher's first step, accept loops and the tasks of
connections are weakly fair, as is the drain. Clients owe nothing, neither a
handshake nor the end of a request, so `Serve` is fair only where no handshake
comes first. `Tick` happens only when no task that waits for nobody has a step
left (`Quiet`): a tick stands for seconds, such a step for microseconds. Without
it the deadline could pass before a task that is ready was run, and
`NobodyForgotten` would say nothing.

*Health.* A prober's steps and the abort that ends a reload are weakly fair:
probes end by their timeout. Upstreams answer as they like; `Converges` speaks
of one that settles.

### Mutants

An operator whose comment begins "Mutant:" is a variant of the definition below
it with a plausible mistake. None is used by a specification; each shows that
one of the properties fails when the code makes that mistake.

## Proofs

Each holds for every value of the constants that the named assumptions allow.

| Module | Theorem | States |
|---|---|---|
| `LoadBalancerProofs` | `TypeCorrect` | `Spec => []TypeOK`, the balancer's |
| | `SharesAreWeighted` | `Spec => []WeightedShare` |
| | `SchedulesAreReduced` | `Spec => []ScheduleReduced` |
| | `PicksInterleave` | `Spec => []Interleaved` |
| `ProxyEngineProofs` | `EngineInvariant` | `Spec => []EngineInv` |
| | `TypeCorrect` | `Spec => []TypeOK` |
| | `AtMostOnce` | `Spec => []DeliveredOnce` |
| | `BodyNeverMissing` | `Spec => []NeverPanics` |
| | `BodyNeverLost` | `Spec => []BodyForwarded` |
| | `RefusalIsComplete` | `Spec => []RefusedSendsNothing` |
| | `NoRetryOnceSent` | `Spec => SentIsFinal` |
| | `EngineDelivers` | `Spec => Delivers` |
| `CallProofs` | `WaitBounded` | `Spec => []DeadlineBound` |
| | `FilterNeverSkipped` | `Spec => [](PluginsLoad(StartConfig) => Filtered)` |
| | `NamesSuffice` | `Spec => [](OwnNames => RouteOwnUpstreams)` |
| | `MetricsTrue` | `Spec => []MetricsAccount` |
| | `BestIsTaken` | `SettledSpec => []BestAvailable` while no counter wraps under a scan (`NoWrap`) |
| | `SpreadFair` | `SettledSpec /\ []CountersLow => []FairSpread` |
| `ReloadProofs` | `ReloadInvariant` | `ReloadSpec => []ReloadInv` |
| | `ReloadTypeCorrect` | `ReloadSpec => []ReloadTypeOK` |
| | `SafeAcrossReloads` | the engine's four safety invariants under `ReloadSpec` |
| | `NothingStale` | `ReloadSpec => []NeverStale` |
| | `OneGeneration` | `ReloadSpec => []Settled` |
| | `WholeOrNothing` | `ReloadSpec => []NeverHalfApplied` |
| | `NoSignalLost` | `ReloadSpec => []SignalHonoured` |
| | `FilterLostToReloadOnly` | `FilterLossExplained`, if the first file's plugins load |
| | `UpstreamLostToReloadOnly` | `ReloadSpec => [](Supplied => UpstreamLossExplained)` |
| | `NoRetryAcrossReloads` | `ReloadSpec => SentIsFinal` |
| | `DeliversAcrossReloads` | `ReloadSpec => Delivers` |
| | `WaitBoundedAcrossReloads` | `ReloadSpec => []DeadlineBound` |
| | `MetricsAcrossReloads` | `ReloadSpec => []MetricsAccount` |
| `ServerProofs` | `ServerInvariant` | `ServerSpec => []ServerInv` |
| | `TrackerExact` | `ServerSpec => []CountExact` |
| | `DrainComplete` | `ServerSpec => []DrainWaits` |
| | `ValidationSuffices` | `ServerSpec => []ValidatedNeverPanics` |
| | `ClientsVerified` | `ServerSpec => []ClientCaEnforced` |
| | `EverybodyTold` | `ServerSpec => NobodyForgotten` |
| `ForwardingProofs` | `NothingOfTheHop` | `ForwardingSpec => []HopByHopStripped` |
| | `IdentityProved` | `ForwardingSpec => []IdentityTrue` |
| | `OwnWordsLast` | `ForwardingSpec => []OwnHeadersFinal` |
| | `NothingInherited` | `ForwardingSpec => []RetriesAlike` |
| | `RouteHasItsWay` | `ForwardingSpec => []OverridesHonoured` |
| | `NothingSkipped` | `ForwardingSpec => []ChecksAreComplete` |
| `HealthProofs` | `HealthInvariant` | `HealthSpec => []HealthInv` |
| | `NoResultLost` | `HealthSpec => []LatestStored` |

### The schedule

`gcd`, the fold over the weights, the passes of the expansion and the sums of
weights are recursive functions. The prover sees each as a `CHOOSE` and has no
rule of induction, so `UpstreamProofs` begins with both: a non-empty set of
numbers has a least element (`LeastNatural`, from finiteness of intervals), from
it that a step function has a recursive function that follows it
(`RecursionExists`) and that what a step carries on holds of every number
(`StepsUpTo`). On these stand that `gcd` divides and is divided by every common
divisor (`GcdCorrect`), that the reduced weights have no common divisor
(`ReducedCoprime`), and what the expansion is: slot for slot, the pushes of the
passes in order (`ScheduleExpands`, `ScheduleServes`), so a schedule is a list
of the route's addresses, empty only without upstreams.

Slots of the schedule then correspond one to one to pairs of an upstream and a
pass below its reduced weight (`PlacesOfPool`, `PlacesWeigh`), which counts them:
`AddrShare`, `TotalShare`. The balancer's invariant says that the pick at
position k is slot (k - 1) mod length; a window of one full length visits
every slot once (`RoundApart`, `RoundCovers`), and `SharesAreWeighted` follows.
`PicksInterleave` finds the pass between two picks of an upstream and in it the
push of one as heavy (`PassesApart`, `HeavierPushed`). `SchedulesAreReduced`: a
divisor of all counts would divide all reduced weights.

### The engine

None of the engine's invariants is inductive alone. That a request is delivered
once depends on a call being back at `pick` only from `connect`, with nothing
delivered (`SentOnce`); that no attempt panics depends on the body being still
held whenever another attempt may come (`BodyHeld`), which in turn needs that
`CanRetry` of a call never changes, and so that its route stays what it was
(`RouteKnown`). That candidates are addresses needs a known generation and a
non-empty schedule for as long as the scan lasts (`ScanKnown`, `AttemptKnown`).
`RefusedEarly` orders answers and what leaves the proxy. `EngineInv` is the
conjunction, with the types; there is one lemma for each action, and
`SameCallInv` carries the invariant of all other calls through it.
`NoRetryOnceSent` follows from `EngineInv` by what each action may do to a call
that has delivered and to one that is not its own.

`EngineDelivers` shows that the initial states map to initial states and that
under `EngineInv` every step of a call is a step of `Delivery` for that request
or a stutter, and leaves the other requests as they are. `SentOnce` is what
makes `Connected` an `Apply` (nothing was applied before), `RefusedEarly` what
makes a 404 or 403 a refusal.

`WaitBounded` needs more than the sum it states: `ClockInv` says that attempts
that are over took a timeout each at most, the one under way no more than its
timer has run, and that fewer are over than may be made. `FilterNeverSkipped`
carries `plugin_cache` and the plugin a call holds from the lookup to the
moment anything leaves (`CacheInv`, `FilterInv`). `NamesSuffice` states the
condition under which balancers keyed by name are sound: nothing in
`Config::validate` makes names unique, and of two routes of one name the last
one's upstreams serve both. With names of their own (`OwnNames`), the pools that
`LbPools` finds by name are the route's, and a candidate is one of their
addresses.

`BestIsTaken` and `SpreadFair` are about `SettledSpec`, in which a probe changes
the registry only before the calls: health is read candidate by candidate, and
of a moment in between `next_healthy` promises nothing. `SeenInv` says what a
scan has passed over: no untried healthy upstream so far, in the second pass none
at all and no healthy one so far. What is left is that the places looked at are
all of the schedule (`PlacesCover`). They are, unless `start + i` wraps within the
scan at a width the schedule's length does not divide; `NoWrap` excepts that
scan, where the code may look at one upstream twice and at another not at all.
`SpreadFair` says that calls hold slots of their own (`ApartInv`) below the counter
and take the first candidate while everything is healthy, or else some slot below
the counter is no call's any more (`Gap`: a retry gave it up). When as many calls
have upstreams as slots were handed out there is no gap, and the calls match
the slots one to one. After a counter has gone through its width slots repeat,
hence `CountersLow`.

`MetricsTrue` moves cardinalities with each action: a call enters or leaves the
set of those begun, answered with a code, or failed at an attempt, exactly where
a counter is incremented. `Request` may be infinite; that only finitely many
calls have begun is part of the invariant (`MetricsInv`).

### Reload

The engine's step lemmas do not mention what the caches hold, so `EngineInv` is
kept by the watcher's steps too, and `ReloadInv` adds what ties watcher,
structures and calls. `SwapInv` says which generation each of the four
structures holds at each position of the watcher. `LoadsInv` says that every
generation after the first was built whole. `SignalInv` counts: each load took
a signal, so there are no more than `MaxSignals + 1` generations and the
histories stay in their types. `HonourInv` says where the last signal's file is
while it is not yet loaded. `StaleInv` bounds a call's route by
`config_handle` and what it uses from below by its route; `LossInv` and
`DropInv` name the later generation that took a call's plugin or balancers away. `NothingStale` follows since
`lb_cache` and `plugin_cache` are swapped before `config_handle`: with the
opposite order `StaleInv` is not kept by `LookupPlugin` and `StartScan`.

The clock and the counters need nothing of the watcher but that it only adds
generations (`ReloadsGrow`): a call keeps its route, so its limits stand, and one
without a route has waited for nobody (`TimedInv`).

### Server

`CountExact` is inductive only with the places of sockets and connections:
`ConnKnown` says that a queued connection's listener is still open (so that
accepting it clones a handle that exists), that a receiver has seen version 0
(so that whoever is served late is still told), and that a served connection's
verification is that of its listener. Cardinalities move by one where a
connection enters or leaves a set (`AtMoves`, `MoveCounts`), which needs
`Conn` finite. `DrainComplete`: with `strong_count <= 1` the count leaves
nobody accepted or served, and no open socket with anybody queued.

### Forwarding

`ForwardingInv` says that every attempt's head is `AttemptHead` of the client's
head for one of the route's addresses and the copy is `MirrorHead`; the rest is
what the operators do to one header at a time (`UpstreamHeadAt`,
`RewrittenAt`, `FirstLineKept` for the chain). That `""` names no header is assumed, as an override's line of
`Connection` that is empty is removed and not read.
`RouteHasItsWay` looks at one header: of an override's several spellings `Winner`
is some one, and it replaces what the client and the earlier lines said.
`NothingSkipped` rests on `RouteInv`: the route does not change, and it counts as
validated only if `ValidRoute` holds of it; `DurationCounts` says of one duration
when it counts as written.

### Health

A flag enters the map once, healthy, and is its address's from then on; a
prober that holds a flag holds the one in the map (`FlagsInv`). So a store
reaches whoever reads the address next. With insertion that overwrites, the
last of these conjuncts fails.

### Assumptions

`EngineAssumption` is the configuration's type. It does not assume that
`Config::validate` ran, since a program that embeds the engine may skip it:
routes without upstreams are among the `core` run's. That
a schedule is a list of its route's addresses, not empty if there are any, is not
assumed: `SchedulesKnown` derives it from the expansion. `LoadBalancerAssumption` is
types, and that picks are explored up to the first wrap of the counter only.
`ReloadAssumption`, `ServerAssumption`, `ForwardingAssumption` and
`HealthAssumption` are types of constants, that `Conn` is finite, and that the
values for "absent" are not among the values that are present.

### Only model-checked

* Liveness (`Answered`, `SignalServed`, `ShutdownEnds`, `Converges`): out of the
  prover's reach, like ENABLED.
* `BestAvailable` and `FairSpread` where the theorems on scans make their
  exceptions: there the code does not keep them, and the runs do not go there.
* What balancers and scans do across reloads, beyond `NothingStale`.

## Not modelled

* The text of `/metrics`, histogram buckets, logging: output only.
* Upper and lower case, and ports, of the hosts that routing compares.
* The WASM sandbox, its fuel and its memory limits: a verdict is any.
* TOML parsing, and the fields that are parsed, warned about and ignored
  (`when`, `timeout.connect`, `timeout.first_byte`).
* The rustls handshake, certificate ordering and renewal by rustls-acme: code
  outside the repository; a handshake succeeds or not, and takes any time.
* Bodies, beyond being there, taken or empty; their size limits are hyper's.
* Intervals and timeouts of probes as lengths of time, and an interval of zero,
  which makes a prober that never pauses.
* The panic of `value * 60` in a build with overflow checks; the wrap of the
  other builds is modelled.
* Mirror copies and probers when the process ends: nothing waits for them and
  nothing is promised of them.
* The website, the benchmarks and the examples: no part of the program.

## Plan

Done: all modules above, in this order: `Upstream`, `LoadBalancer`,
`ProxyEngine`, `Reload` and the engine's proofs; then `Server`, `Forwarding`,
`Health`, `Delivery`, the proofs about them and about `Reload`, and those about
`Upstream`, `LoadBalancer` and scans.

1. `Health` shown to implement the probes of `Reload`, by a mapping of flags to
   the registry's booleans.
2. `BestAvailable` and `FairSpread` between reloads: the counter and the slots of
   each generation by itself.
