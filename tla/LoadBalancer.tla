---------------------------- MODULE LoadBalancer ----------------------------
(***************************************************************************)
(* One LoadBalancer of torana-core/src/upstream.rs driven by next(), over  *)
(* every small list of upstreams.                                          *)
(***************************************************************************)
EXTENDS Integers, FiniteSets, Sequences, Upstream

CONSTANTS Addr,        \* upstream addresses
          Weight,      \* configured weights, Unset among them
          MaxPools,    \* bound: upstreams of the route
          MaxPicks     \* bound: calls of next() that are explored

ASSUME LoadBalancerAssumption ==
    /\ Weight \subseteq Nat \cup {Unset}         \* Option<u32>
    /\ UsizeMod \in Nat \ {0}
    /\ MaxPools \in Nat
    /\ MaxPicks \in Nat /\ MaxPicks <= UsizeMod  \* no pick after the counter wraps

VARIABLES pools,       \* the route's upstreams, in configuration order
          upstreams,   \* LoadBalancer.upstreams: the expanded schedule
          counter,     \* LoadBalancer.counter
          picks        \* history: the answers of next() so far

vars == <<pools, upstreams, counter, picks>>

Pool == [addr : Addr, weight : Weight]

TypeOK ==
    /\ pools \in Seq(Pool)
    /\ upstreams \in Seq(Addr)
    /\ counter \in 0 .. UsizeMod - 1
    /\ picks \in Seq(Addr)

Init ==
    /\ pools \in UNION {[1 .. n -> Pool] : n \in 0 .. MaxPools}
    /\ upstreams = Schedule(pools)
    /\ counter = 0
    /\ picks = << >>

\* next(): None on an empty list, without touching the counter.
NextUpstream ==
    /\ upstreams # << >>
    /\ Len(picks) < MaxPicks
    /\ picks' = Append(picks, Candidate(upstreams, counter, 0))
    /\ counter' = Bump(counter)
    /\ UNCHANGED <<pools, upstreams>>

Spec == Init /\ [][NextUpstream]_vars

-----------------------------------------------------------------------------
\* Reference notions, from the configured weights and not from the schedule.

AddrWeight(a) ==
    LET sum[k \in 0 .. Len(pools)] ==
            IF k = 0 THEN 0
            ELSE sum[k - 1] + (IF pools[k].addr = a THEN WeightOf(pools[k]) ELSE 0)
    IN  sum[Len(pools)]

TotalWeight ==
    LET sum[k \in 0 .. Len(pools)] == IF k = 0 THEN 0 ELSE sum[k - 1] + WeightOf(pools[k])
    IN  sum[Len(pools)]

CountIn(a, from, to) == Cardinality({k \in from .. to : picks[k] = a})

ConfiguredOnce(a) == Cardinality({k \in DOMAIN pools : pools[k].addr = a}) = 1

\* Wherever a cycle of the schedule is cut, the picks of one full cycle give
\* every address exactly its share of the configured weight: the expansion,
\* the reduction by the gcd and the shared counter together neither favour
\* nor starve an upstream (upstream.rs, LoadBalancer::new and next).
WeightedShare ==
    LET n    == Len(upstreams)
        last == Len(picks)
    IN  last >= n /\ n > 0 =>
            \A a \in Addr : CountIn(a, last - n + 1, last) * TotalWeight = n * AddrWeight(a)

\* The interleaving the comment in LoadBalancer::new promises: between two
\* picks of an upstream, every upstream at least as heavy is picked too, also
\* across the end of the schedule; a plain expansion [a, a, a, b] has the
\* right shares and fails here.
Interleaved ==
    LET last == Len(picks)
    IN  \A prev \in 1 .. last - 1, b \in Addr :
            LET a == picks[last]
                comparable == ConfiguredOnce(a) /\ ConfiguredOnce(b) /\ AddrWeight(b) >= AddrWeight(a)
            IN  picks[prev] = a /\ comparable => \E k \in prev .. last : picks[k] = b

\* "weight=100/100 produces [a, b] rather than 200 entries": no shorter
\* schedule has the same shares.
ScheduleReduced ==
    LET n == Len(upstreams)
        Entries(k) == (n * WeightOf(pools[k])) \div TotalWeight
    IN  \A d \in 2 .. n : \E k \in DOMAIN pools : Entries(k) % d # 0

=============================================================================
