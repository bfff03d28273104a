------------------------------ MODULE Upstream ------------------------------
(***************************************************************************)
(* The weighted round-robin schedule of torana-core/src/upstream.rs.       *)
(*                                                                         *)
(* LoadBalancer::new reduces the weights of a route's upstreams by their   *)
(* greatest common divisor and expands them pass by pass: pass i holds     *)
(* every upstream whose reduced weight exceeds i, in configuration order.  *)
(* The operators here are pure; LoadBalancer drives them with the shared   *)
(* counter, and ProxyEngine with concurrent requests.                      *)
(*                                                                         *)
(* A pool is [addr, weight], weight being Unset where the configuration    *)
(* leaves it out.                                                          *)
(***************************************************************************)
LOCAL INSTANCE Integers
LOCAL INSTANCE Sequences

CONSTANTS Unset,      \* an optional field of the configuration left out
          UsizeMod    \* 2^w of the build's usize: where the counter wraps

\* unwrap_or(100) in build_lb_map, then max(1): weight 0 still gets traffic.
WeightOf(u) ==
    LET w == IF u.weight = Unset THEN 100 ELSE u.weight
    IN  IF w > 1 THEN w ELSE 1

gcd[ab \in Nat \X Nat] ==
    IF ab[2] = 0 THEN ab[1] ELSE gcd[<<ab[2], ab[1] % ab[2]>>]

\* Mutant: weights left as they are.
GcdNone(pools) == 1

\* gcd_all, a fold from 0.
GcdAll(pools) ==
    LET fold[k \in 0 .. Len(pools)] ==
            IF k = 0 THEN 0 ELSE gcd[<<fold[k - 1], WeightOf(pools[k])>>]
    IN  fold[Len(pools)]

Reduced(pools) ==
    LET gcd_all == GcdAll(pools)
    IN  [k \in DOMAIN pools |-> WeightOf(pools[k]) \div gcd_all]

\* max_weight; without upstreams the loop has nothing to visit.
MaxWeight(reduced) ==
    IF reduced = << >> THEN 1
    ELSE reduced[CHOOSE k \in DOMAIN reduced : \A j \in DOMAIN reduced : reduced[j] <= reduced[k]]

\* Mutant: one pass too many for each upstream.
PushesInclusive(reduced, i, k) == i <= reduced[k]

\* if i < u.weight: what pass i pushes.
Pushes(reduced, i, k) == i < reduced[k]

\* The inner loop: what pass i appends, in configuration order.
Pass(pools, reduced, i) ==
    LET pushed[k \in 0 .. Len(pools)] ==
            IF k = 0 THEN << >>
            ELSE IF Pushes(reduced, i, k) THEN Append(pushed[k - 1], pools[k].addr)
                 ELSE pushed[k - 1]
    IN  pushed[Len(pools)]

\* Mutant: upstream by upstream instead of pass by pass.
ScheduleUngrouped(pools) ==
    LET reduced == Reduced(pools)
        expanded[k \in 0 .. Len(pools)] ==
            IF k = 0 THEN << >>
            ELSE expanded[k - 1] \o [j \in 1 .. reduced[k] |-> pools[k].addr]
    IN  expanded[Len(pools)]

\* LoadBalancer::new: the expanded schedule, as addresses.
Schedule(pools) ==
    LET reduced == Reduced(pools)
        expanded[i \in 0 .. MaxWeight(reduced)] ==
            IF i = 0 THEN << >> ELSE expanded[i - 1] \o Pass(pools, reduced, i - 1)
    IN  expanded[MaxWeight(reduced)]

\* Mutant: a counter that does not wrap.
BumpUnwrapped(counter) == counter + 1

\* fetch_add on the shared AtomicUsize.
Bump(counter) == (counter + 1) % UsizeMod

\* Mutant: the counter's slot is ignored.
CandidateFromFirst(schedule, start, i) == schedule[(i % Len(schedule)) + 1]

\* upstreams[(start + i) % len], with the addition of the release build.
Candidate(schedule, start, i) ==
    schedule[(((start + i) % UsizeMod) % Len(schedule)) + 1]

=============================================================================
