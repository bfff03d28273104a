------------------------- MODULE LoadBalancerProofs -------------------------
(***************************************************************************)
(* Proofs about the balancer: for every list of upstreams and every width  *)
(* of the counter, the picks of next() have the configured shares and are  *)
(* interleaved, and the schedule is as short as its shares allow.          *)
(***************************************************************************)
EXTENDS LoadBalancer, UpstreamProofs

-----------------------------------------------------------------------------
(* Counting the places of the schedule *)

Places(us, slot, s, K) ==
    {p \in 1 .. Len(s) : VisitedAt(Reduced(us), slot[p]) \in K}

\* An upstream has as many places as its reduced weight says.
LEMMA PlacesOfPool ==
    ASSUME NEW A, NEW us \in PoolList(A), NEW k \in 1 .. Len(us),
           NEW s \in Seq(A), NEW slot, IsSlots(slot, s, us, Visits(us))
    PROVE  /\ IsFiniteSet(Places(us, slot, s, {k}))
           /\ Cardinality(Places(us, slot, s, {k})) = Reduced(us)[k]
<1> DEFINE P == Places(us, slot, s, {k})
           n == Len(us)
           w == Reduced(us)[k]
           f == [p \in P |-> (slot[p] \div n) + 1]
<1>1. n \in Nat \ {0} /\ w \in Nat /\ us # << >> /\ k - 1 \in 0 .. n - 1
  <2>1. n \in Nat \ {0} /\ us # << >>
    BY PoolListLen
  <2>2. w \in Nat
    BY ReducedWeights
  <2> HIDE DEF w
  <2> QED  BY <2>1, <2>2
<1>2. ASSUME NEW p \in P
      PROVE  /\ p \in 1 .. Len(s) /\ slot[p] \div n \in Nat /\ slot[p] \div n < w
             /\ slot[p] = (slot[p] \div n) * n + (k - 1)
  <2>1. p \in 1 .. Len(s) /\ VisitedAt(Reduced(us), slot[p]) = k
    BY DEF Places
  <2>2. slot[p] \in PushingBefore(us, Visits(us))
    BY <2>1 DEF IsSlots
  <2>3. PICK i \in Nat : i < w /\ slot[p] = i * n + (k - 1)
    BY <1>1, <2>1, <2>2, VisitIs
  <2>4. slot[p] \div n = i
    BY <1>1, <2>3, VisitParts
  <2> QED  BY <2>1, <2>3, <2>4
<1>3. ASSUME NEW t \in 1 .. w
      PROVE  \E p \in P : f[p] = t
  <2> DEFINE x == (t - 1) * n + (k - 1)
  <2>1. t - 1 \in Nat /\ t - 1 < w
    BY <1>1
  <2>2. VisitedAt(Reduced(us), x) = k /\ x \in PushingBefore(us, Visits(us))
    BY <2>1, VisitOf
  <2>3. x \div n = t - 1
    BY <1>1, <2>1, VisitParts
  <2> HIDE DEF x, n
  <2>4. PICK p \in 1 .. Len(s) : slot[p] = x
    BY <2>2 DEF IsSlots
  <2>5. p \in P
    BY <2>2, <2>4 DEF Places
  <2>6. f[p] = t
    BY <2>3, <2>4, <2>5
  <2> QED  BY <2>5, <2>6
<1>4. \A p, q \in 1 .. Len(s) : slot[p] = slot[q] => p = q
  <2>1. Len(s) \in Nat
    OBVIOUS
  <2>2. \A p \in 1 .. Len(s) : slot[p] \in Nat
    BY DEF IsSlots, PushingBefore
  <2> SUFFICES ASSUME NEW p \in 1 .. Len(s), NEW q \in 1 .. Len(s), slot[p] = slot[q], p # q
               PROVE  FALSE
    OBVIOUS
  <2>3. p < q => slot[p] < slot[q]
    BY DEF IsSlots
  <2>4. q < p => slot[q] < slot[p]
    BY DEF IsSlots
  <2> QED  BY <2>1, <2>2, <2>3, <2>4
<1> HIDE DEF P, n, w
<1>5. \A p \in P : f[p] \in 1 .. w
  <2> TAKE p \in P
  <2> DEFINE i == slot[p] \div n
  <2>1. i \in Nat /\ i < w /\ f[p] = i + 1
    BY <1>2
  <2> HIDE DEF i, f
  <2> QED  BY <1>1, <2>1
<1>6. f \in [P -> 1 .. w]
  BY <1>5
<1>7. \A p, q \in P : f[p] = f[q] => p = q
  <2> SUFFICES ASSUME NEW p \in P, NEW q \in P, f[p] = f[q] PROVE p = q
    OBVIOUS
  <2>1. slot[p] \div n = slot[q] \div n
    BY <1>2
  <2>2. slot[p] = slot[q]
    BY <1>2, <2>1
  <2> QED  BY <1>2, <1>4, <2>2
<1> HIDE DEF f
<1>8. f \in Injection(P, 1 .. w)
  BY <1>6, <1>7 DEF Injection, IsInjective
<1>9. f \in Surjection(P, 1 .. w)
  BY <1>3, <1>6 DEF Surjection
<1>10. IsFiniteSet(1 .. w) /\ Cardinality(1 .. w) = w
  BY <1>1, FS_Interval
<1> QED  BY <1>8, <1>9, <1>10, FS_Injection DEF P, w

\* sum adds up the weights of the upstreams in K, prefix by prefix.
Adds(sum, us, K) ==
    /\ sum[0] = 0
    /\ \A k \in 1 .. Len(us) : sum[k] = sum[k - 1] + (IF k \in K THEN WeightOf(us[k]) ELSE 0)

Weighs(sum, us, slot, s, K) ==
    \A m \in 0 .. Len(us) :
        /\ IsFiniteSet(Places(us, slot, s, K \cap (1 .. m)))
        /\ sum[m] = GcdAll(us) * Cardinality(Places(us, slot, s, K \cap (1 .. m)))

\* The places of the upstreams in K, weighed by gcd_all, are the sum of the
\* configured weights.
LEMMA PlacesWeigh ==
    ASSUME NEW A, NEW us \in PoolList(A), NEW K,
           NEW s \in Seq(A), NEW slot, IsSlots(slot, s, us, Visits(us)),
           NEW sum, Adds(sum, us, K)
    PROVE  Weighs(sum, us, slot, s, K)
<1> DEFINE n == Len(us)
           g == GcdAll(us)
           P(m) == Places(us, slot, s, K \cap (1 .. m))
           S == {m \in 0 .. n : IsFiniteSet(P(m)) /\ sum[m] = g * Cardinality(P(m))}
<1>1. n \in Nat /\ g \in Nat
  BY PoolListLen, GcdAllDivides
<1>0. /\ sum[0] = 0
      /\ \A k \in 1 .. n : sum[k] = sum[k - 1] + (IF k \in K THEN WeightOf(us[k]) ELSE 0)
  BY DEF Adds
<1>2. 0 \in S
  <2>1. P(0) = {}
    BY DEF Places
  <2>2. IsFiniteSet(P(0)) /\ Cardinality(P(0)) = 0
    BY <2>1, FS_EmptySet
  <2> HIDE DEF P, n, g
  <2> QED  BY <1>0, <1>1, <2>2
<1>3. ASSUME NEW m \in 0 .. n - 1, m \in S PROVE m + 1 \in S
  <2>1. m + 1 \in 1 .. n /\ (m + 1) - 1 = m /\ m + 1 \in 0 .. n /\ m \in Nat
    BY <1>1
  <2>2. IsFiniteSet(P(m)) /\ sum[m] = g * Cardinality(P(m)) /\ Cardinality(P(m)) \in Nat
    BY <1>3, FS_CardinalityType
  <2>3. K \cap (1 .. m + 1) = (K \cap (1 .. m)) \cup (IF m + 1 \in K THEN {m + 1} ELSE {})
    BY <2>1
  <2>4. sum[m + 1] = sum[m] + (IF m + 1 \in K THEN WeightOf(us[m + 1]) ELSE 0)
    BY <1>0, <2>1
  <2>5. CASE m + 1 \notin K
    <3>1. P(m + 1) = P(m)
      BY <2>3, <2>5
    <3> HIDE DEF P
    <3>2. sum[m + 1] = sum[m]
      <4>1. g * Cardinality(P(m)) \in Nat
        BY <1>1, <2>2, ProductNat
      <4> QED  BY <2>2, <2>4, <2>5, <4>1
    <3> QED  BY <2>1, <2>2, <3>1, <3>2
  <2>6. CASE m + 1 \in K
    <3> DEFINE Q == Places(us, slot, s, {m + 1})
               w == Reduced(us)[m + 1]
    <3>1. IsFiniteSet(Q) /\ Cardinality(Q) = w
      BY <2>1, PlacesOfPool
    <3>2. w \in Nat /\ WeightOf(us[m + 1]) = g * w
      BY <2>1, ReducedWeights
    <3>3. P(m + 1) = P(m) \cup Q /\ P(m) \cap Q = {}
      <4>1. m + 1 \notin 1 .. m
        BY <2>1
      <4> QED  BY <2>3, <2>6, <4>1 DEF Places
    <3> HIDE DEF P, Q, w, g
    <3>4. IsFiniteSet(P(m + 1)) /\ Cardinality(P(m + 1)) = Cardinality(P(m)) + w
      <4>1. Cardinality(P(m) \cap Q) = 0
        BY <3>3, FS_EmptySet
      <4>2. /\ IsFiniteSet(P(m) \cup Q)
            /\ Cardinality(P(m) \cup Q) = Cardinality(P(m)) + Cardinality(Q) - Cardinality(P(m) \cap Q)
        BY <2>2, <3>1, FS_Union, Zenon
      <4>3. /\ IsFiniteSet(P(m + 1))
            /\ Cardinality(P(m + 1)) = Cardinality(P(m)) + Cardinality(Q) - Cardinality(P(m) \cap Q)
        BY <3>3, <4>2, Zenon
      <4> DEFINE c == Cardinality(P(m))
                 d == Cardinality(P(m + 1))
                 q == Cardinality(Q)
                 z == Cardinality(P(m) \cap Q)
      <4>4. c \in Nat /\ q = w /\ w \in Nat /\ z = 0 /\ d = c + q - z
        BY <2>2, <3>1, <3>2, <4>1, <4>3
      <4> HIDE DEF c, d, q, z
      <4>5. d = c + w
        BY ONLY <4>4
      <4> QED  BY <4>3, <4>5 DEF c, d
    <3>5. sum[m + 1] = g * Cardinality(P(m + 1))
      <4> DEFINE c == Cardinality(P(m))
      <4>1. sum[m + 1] = g * c + g * w
        BY <2>2, <2>4, <2>6, <3>2
      <4>2. c \in Nat /\ Cardinality(P(m + 1)) = c + w
        BY <2>2, <3>4
      <4> HIDE DEF c
      <4>3. g * (c + w) = g * c + g * w
        BY <1>1, <3>2, <4>2
      <4> QED  BY <4>1, <4>2, <4>3
    <3> QED  BY <2>1, <3>4, <3>5
  <2> QED  BY <2>5, <2>6
<1> HIDE DEF S, n
<1>4. \A m \in 0 .. n : m \in S
  BY <1>1, <1>2, <1>3, StepsUpTo
<1> QED  BY <1>4 DEF S, n, Weighs

\* A sum over a list is defined.
LEMMA SumExists ==
    ASSUME NEW n \in Nat, NEW e, \A k \in 1 .. n : e[k] \in Nat
    PROVE  \E f \in [0 .. n -> Nat] : f[0] = 0 /\ \A k \in 1 .. n : f[k] = f[k - 1] + e[k]
<1> DEFINE step == [kx \in (1 .. n) \X Nat |-> kx[2] + e[kx[1]]]
<1>1. step \in [(1 .. n) \X Nat -> Nat]
  OBVIOUS
<1>2. \A k \in 1 .. n, x \in Nat : step[<<k, x>>] = x + e[k]
  OBVIOUS
<1> HIDE DEF step
<1>3. PICK f \in [0 .. n -> Nat] : Obeys(f, n, 0, step)
  <2>1. 0 \in Nat
    OBVIOUS
  <2> QED  BY <1>1, <2>1, RecursionExists, Zenon
<1>4. ASSUME NEW k \in 1 .. n PROVE f[k] = f[k - 1] + e[k]
  <2>1. f[k - 1] \in Nat
    BY <1>3
  <2> QED  BY <1>2, <1>3, <2>1 DEF Obeys
<1> QED  BY <1>3, <1>4 DEF Obeys

\* AddrWeight adds up the weights configured for an address.
LEMMA AddrWeightIsSum ==
    ASSUME pools \in PoolList(Addr), NEW a
    PROVE  \E sum : /\ AddrWeight(a) = sum[Len(pools)]
                    /\ Adds(sum, pools, {k \in 1 .. Len(pools) : pools[k].addr = a})
<1> DEFINE n == Len(pools)
           W(k) == IF pools[k].addr = a THEN WeightOf(pools[k]) ELSE 0
           e == [k \in 1 .. n |-> W(k)]
           F == CHOOSE f : f = [k \in 0 .. n |-> IF k = 0 THEN 0 ELSE f[k - 1] + W(k)]
<1>1. n \in Nat
  BY PoolListLen
<1>2. \A k \in 1 .. n : e[k] \in Nat
  BY WeightPositive
<1>3. AddrWeight(a) = F[n]
  BY DEF AddrWeight
<1>4. \A k \in 1 .. n : e[k] = W(k)
  OBVIOUS
<1> HIDE DEF e, n, W
<1>5. PICK f \in [0 .. n -> Nat] : f[0] = 0 /\ \A k \in 1 .. n : f[k] = f[k - 1] + e[k]
  <2> HIDE DEF F
  <2> QED  BY <1>1, <1>2, SumExists
<1>6. f = [k \in 0 .. n |-> IF k = 0 THEN 0 ELSE f[k - 1] + W(k)]
  <2>1. f = [k \in 0 .. n |-> f[k]] /\ \A k \in 0 .. n : k = 0 \/ k \in 1 .. n
    BY <1>1
  <2> HIDE DEF F
  <2> QED  BY <1>4, <1>5, <2>1
<1>7. F = [k \in 0 .. n |-> IF k = 0 THEN 0 ELSE F[k - 1] + W(k)]
  BY <1>6
<1> HIDE DEF F
<1>8. F[0] = 0 /\ \A k \in 1 .. n : F[k] = F[k - 1] + W(k)
  BY <1>1, <1>7
<1>9. Adds(F, pools, {k \in 1 .. Len(pools) : pools[k].addr = a})
  BY <1>8 DEF Adds, n, W
<1> QED  BY <1>3, <1>9 DEF n

\* TotalWeight adds up all of them.
LEMMA TotalWeightIsSum ==
    ASSUME pools \in PoolList(Addr)
    PROVE  \E sum : TotalWeight = sum[Len(pools)] /\ Adds(sum, pools, 1 .. Len(pools))
<1> DEFINE n == Len(pools)
           W(k) == WeightOf(pools[k])
           e == [k \in 1 .. n |-> W(k)]
           F == CHOOSE f : f = [k \in 0 .. n |-> IF k = 0 THEN 0 ELSE f[k - 1] + W(k)]
<1>1. n \in Nat
  BY PoolListLen
<1>2. \A k \in 1 .. n : e[k] \in Nat
  BY WeightPositive
<1>3. TotalWeight = F[n]
  BY DEF TotalWeight
<1>4. \A k \in 1 .. n : e[k] = W(k)
  OBVIOUS
<1> HIDE DEF e, n, W
<1>5. PICK f \in [0 .. n -> Nat] : f[0] = 0 /\ \A k \in 1 .. n : f[k] = f[k - 1] + e[k]
  <2> HIDE DEF F
  <2> QED  BY <1>1, <1>2, SumExists
<1>6. f = [k \in 0 .. n |-> IF k = 0 THEN 0 ELSE f[k - 1] + W(k)]
  <2>1. f = [k \in 0 .. n |-> f[k]] /\ \A k \in 0 .. n : k = 0 \/ k \in 1 .. n
    BY <1>1
  <2> HIDE DEF F
  <2> QED  BY <1>4, <1>5, <2>1
<1>7. F = [k \in 0 .. n |-> IF k = 0 THEN 0 ELSE F[k - 1] + W(k)]
  BY <1>6
<1> HIDE DEF F
<1>8. F[0] = 0 /\ \A k \in 1 .. n : F[k] = F[k - 1] + W(k)
  BY <1>1, <1>7
<1>9. Adds(F, pools, 1 .. Len(pools))
  BY <1>8 DEF Adds, n, W
<1> QED  BY <1>3, <1>9 DEF n

EntriesOf(s, a) == {p \in 1 .. Len(s) : s[p] = a}

\* Every address has its share of the schedule: its configured weight over gcd_all.
LEMMA AddrShare ==
    ASSUME pools \in PoolList(Addr), NEW a
    PROVE  /\ IsFiniteSet(EntriesOf(Schedule(pools), a))
           /\ AddrWeight(a) = GcdAll(pools) * Cardinality(EntriesOf(Schedule(pools), a))
<1> DEFINE s == Schedule(pools)
           n == Len(pools)
           K == {k \in 1 .. n : pools[k].addr = a}
<1>1. s \in Seq(Addr) /\ Expands(s, pools, Visits(pools))
  BY ScheduleExpands
<1>2. n \in Nat /\ n \in 0 .. n
  <2>1. n \in Nat
    BY PoolListLen
  <2> QED  BY <2>1
<1> HIDE DEF s
<1>3. PICK slot : IsSlots(slot, s, pools, Visits(pools))
  BY <1>1 DEF Expands
<1>4. PICK sum : AddrWeight(a) = sum[n] /\ Adds(sum, pools, K)
  BY AddrWeightIsSum
<1>6. EntriesOf(s, a) = Places(pools, slot, s, K \cap (1 .. n))
  <2>1. ASSUME NEW p \in 1 .. Len(s)
        PROVE  VisitedAt(Reduced(pools), slot[p]) \in K \cap (1 .. n) <=> s[p] = a
    <3>1. slot[p] \in Nat /\ s[p] = pools[VisitedAt(Reduced(pools), slot[p])].addr
      BY <1>3 DEF IsSlots, PushingBefore
    <3>2. pools # << >>
      <4>1. s # << >>
        OBVIOUS
      <4> QED  BY <4>1, ScheduleServes DEF s
    <3>3. VisitedAt(Reduced(pools), slot[p]) \in 1 .. n
      BY <3>1, <3>2, VisitedInRange
    <3> QED  BY <3>1, <3>3
  <2> HIDE DEF K, n
  <2> QED  BY <2>1 DEF EntriesOf, Places
<1> HIDE DEF K
<1>7. /\ IsFiniteSet(Places(pools, slot, s, K \cap (1 .. n)))
      /\ sum[n] = GcdAll(pools) * Cardinality(Places(pools, slot, s, K \cap (1 .. n)))
  <2>1. Weighs(sum, pools, slot, s, K)
    BY <1>1, <1>3, <1>4, PlacesWeigh, Zenon
  <2> QED  BY <1>2, <2>1 DEF Weighs
<1> QED  BY <1>4, <1>6, <1>7 DEF s

LEMMA TotalShare ==
    ASSUME pools \in PoolList(Addr)
    PROVE  TotalWeight = GcdAll(pools) * Len(Schedule(pools))
<1> DEFINE s == Schedule(pools)
           n == Len(pools)
           K == 1 .. n
<1>1. s \in Seq(Addr) /\ Expands(s, pools, Visits(pools))
  BY ScheduleExpands
<1>2. n \in Nat /\ n \in 0 .. n
  <2>1. n \in Nat
    BY PoolListLen
  <2> QED  BY <2>1
<1> HIDE DEF s
<1>3. PICK slot : IsSlots(slot, s, pools, Visits(pools))
  BY <1>1 DEF Expands
<1>4. PICK sum : TotalWeight = sum[n] /\ Adds(sum, pools, K)
  BY TotalWeightIsSum
<1>6. Places(pools, slot, s, K \cap (1 .. n)) = 1 .. Len(s)
  <2>1. ASSUME NEW p \in 1 .. Len(s)
        PROVE  VisitedAt(Reduced(pools), slot[p]) \in K \cap (1 .. n)
    <3>1. slot[p] \in Nat
      BY <1>3 DEF IsSlots, PushingBefore
    <3>2. pools # << >>
      <4>1. s # << >>
        OBVIOUS
      <4> QED  BY <4>1, ScheduleServes DEF s
    <3> QED  BY <3>1, <3>2, VisitedInRange
  <2> HIDE DEF K, n
  <2> QED  BY <2>1 DEF Places
<1> HIDE DEF K
<1>7. sum[n] = GcdAll(pools) * Cardinality(Places(pools, slot, s, K \cap (1 .. n)))
  <2>1. Weighs(sum, pools, slot, s, K)
    BY <1>1, <1>3, <1>4, PlacesWeigh, Zenon
  <2> QED  BY <1>2, <2>1 DEF Weighs
<1>8. Cardinality(1 .. Len(s)) = Len(s)
  <2>1. Len(s) \in Nat
    BY <1>1
  <2>2. ~ (1 > Len(s)) => Len(s) - 1 + 1 = Len(s)
    BY <2>1
  <2>3. 1 > Len(s) => Len(s) = 0
    BY <2>1
  <2>4. Cardinality(1 .. Len(s)) = IF 1 > Len(s) THEN 0 ELSE Len(s) - 1 + 1
    BY <2>1, FS_Interval
  <2> QED  BY ONLY <2>1, <2>2, <2>3, <2>4
<1> QED  BY <1>4, <1>6, <1>7, <1>8 DEF s

-----------------------------------------------------------------------------
(* The picks *)

PickedInTurn ==
    \A k \in 1 .. Len(picks) :
        /\ upstreams # << >>
        /\ picks[k] = upstreams[((k - 1) % Len(upstreams)) + 1]

Inv ==
    /\ pools \in PoolList(Addr)
    /\ TypeOK
    /\ upstreams = Schedule(pools)
    /\ Len(picks) <= MaxPicks /\ counter = Len(picks) % UsizeMod
    /\ PickedInTurn

LEMMA InitInv == Init => Inv
<1> SUFFICES ASSUME Init PROVE Inv
  OBVIOUS
<1>1. pools \in Seq(Pool)
  <2>1. PICK n \in 0 .. MaxPools : pools \in [1 .. n -> Pool]
    BY DEF Init
  <2>2. n \in Nat
    BY LoadBalancerAssumption
  <2> HIDE DEF Pool
  <2> QED  BY <2>1, <2>2
<1>2. pools \in PoolList(Addr)
  <2>1. Pool \subseteq [addr : Addr, weight : Nat \cup {Unset}]
    BY LoadBalancerAssumption DEF Pool
  <2> DEFINE P == [addr : Addr, weight : Nat \cup {Unset}]
  <2>2. Pool \subseteq P => Seq(Pool) \subseteq Seq(P)
    <3> HIDE DEF P
    <3> QED  OBVIOUS
  <2> QED  BY <1>1, <2>1, <2>2 DEF PoolList
<1>3. upstreams \in Seq(Addr)
  BY <1>2, ScheduleExpands DEF Init
<1>4. 0 % UsizeMod = 0 /\ 0 \in 0 .. UsizeMod - 1
  BY LoadBalancerAssumption
<1>5. picks = << >> /\ counter = 0
  BY DEF Init
<1>6. TypeOK
  BY <1>1, <1>3, <1>4, <1>5 DEF TypeOK
<1>7. PickedInTurn
  BY <1>5 DEF PickedInTurn
<1> QED  BY <1>2, <1>4, <1>5, <1>6, <1>7, LoadBalancerAssumption DEF Inv, Init

LEMMA StepInv == Inv /\ [NextUpstream]_vars => Inv'
<1> SUFFICES ASSUME Inv, [NextUpstream]_vars PROVE Inv'
  OBVIOUS
<1>1. CASE UNCHANGED vars
  BY <1>1 DEF vars, Inv, TypeOK, PickedInTurn
<1>2. CASE NextUpstream
  <2> DEFINE n == Len(upstreams)
             m == Len(picks)
  <2>1. /\ upstreams # << >> /\ m < MaxPicks
        /\ picks' = Append(picks, Candidate(upstreams, counter, 0))
        /\ counter' = Bump(counter)
        /\ pools' = pools /\ upstreams' = upstreams
    BY <1>2 DEF NextUpstream
  <2>2. /\ upstreams \in Seq(Addr) /\ picks \in Seq(Addr)
        /\ n \in Nat \ {0} /\ m \in Nat
    BY <2>1 DEF Inv, TypeOK
  <2>3. counter = m /\ m < UsizeMod
    <3>1. m \in Nat /\ UsizeMod \in Nat \ {0} /\ m < UsizeMod
      BY <2>1, <2>2, LoadBalancerAssumption
    <3>2. m % UsizeMod = m
      BY ONLY <3>1
    <3> QED  BY <3>1, <3>2 DEF Inv
  <2> DEFINE p == (m % n) + 1
  <2>4. p \in 1 .. n /\ Candidate(upstreams, counter, 0) = upstreams[p]
    <3>1. m % n \in 0 .. n - 1
      BY <2>2, DivisionFacts
    <3>2. (counter + 0) % UsizeMod = m
      BY <2>2, <2>3, LoadBalancerAssumption
    <3> QED  BY <2>2, <3>1, <3>2 DEF Candidate
  <2>5. upstreams[p] \in Addr
    BY <2>2, <2>4
  <2>6. /\ picks' \in Seq(Addr) /\ Len(picks') = m + 1 /\ picks'[m + 1] = upstreams[p]
        /\ \A k \in 1 .. m : picks'[k] = picks[k]
    BY <2>1, <2>2, <2>4, <2>5
  <2>7. counter' = (m + 1) % UsizeMod /\ counter' \in 0 .. UsizeMod - 1
    <3>1. counter' = (m + 1) % UsizeMod
      BY <2>1, <2>3 DEF Bump
    <3>2. m + 1 \in Nat /\ UsizeMod \in Nat \ {0}
      BY <2>2, LoadBalancerAssumption
    <3>3. (m + 1) % UsizeMod \in 0 .. UsizeMod - 1
      BY ONLY <3>2, DivisionFacts
    <3> QED  BY <3>1, <3>3
  <2>8. TypeOK'
    BY <2>1, <2>6, <2>7 DEF Inv, TypeOK, Pool
  <2>9. PickedInTurn'
    <3> SUFFICES ASSUME NEW k \in 1 .. m + 1
                 PROVE  picks'[k] = upstreams[((k - 1) % n) + 1]
      BY <2>1, <2>6 DEF PickedInTurn
    <3>1. CASE k = m + 1
      BY <2>2, <2>6, <3>1
    <3>2. CASE k # m + 1
      <4>1. k \in 1 .. m
        BY <2>2, <3>2
      <4> QED  BY <2>6, <4>1 DEF Inv, PickedInTurn
    <3> QED  BY <3>1, <3>2
  <2>10. Len(picks') <= MaxPicks
    BY <2>1, <2>2, <2>6, LoadBalancerAssumption
  <2> QED  BY <2>1, <2>6, <2>7, <2>8, <2>9, <2>10 DEF Inv
<1> QED  BY <1>1, <1>2

LEMMA AlwaysInv == Spec => []Inv
BY InitInv, StepInv, PTL DEF Spec

\* The list, its schedule, the counter and the picks keep their types.
THEOREM TypeCorrect == Spec => []TypeOK
<1>1. Inv => TypeOK
  BY DEF Inv
<1> QED  BY <1>1, AlwaysInv, PTL

\* Any n picks in a row name an address as often as the schedule does.
LEMMA WindowCount ==
    ASSUME Inv, NEW a, upstreams # << >>, Len(picks) >= Len(upstreams)
    PROVE  CountIn(a, Len(picks) - Len(upstreams) + 1, Len(picks))
               = Cardinality(EntriesOf(upstreams, a))
<1> DEFINE n == Len(upstreams)
           last == Len(picks)
           E == EntriesOf(upstreams, a)
           W == {k \in last - n + 1 .. last : picks[k] = a}
           turn(k) == ((k - 1) % n) + 1
           f == [k \in W |-> turn(k)]
<1>1. n \in Nat \ {0} /\ last \in Nat /\ last - n \in Nat
  BY DEF Inv, TypeOK
<1>2. IsFiniteSet(E)
  BY AddrShare DEF Inv
<1>3. ASSUME NEW k \in last - n + 1 .. last
      PROVE  k - 1 \in Nat /\ turn(k) \in 1 .. n /\ picks[k] = upstreams[turn(k)]
  <2>1. k \in 1 .. last /\ k - 1 \in Nat
    BY <1>1
  <2>2. (k - 1) % n \in 0 .. n - 1
    BY <1>1, <2>1, DivisionFacts
  <2>3. turn(k) \in 1 .. n
    <3> DEFINE r == (k - 1) % n
    <3> HIDE DEF r
    <3>1. r \in 0 .. n - 1 => r + 1 \in 1 .. n
      BY <1>1
    <3> QED  BY <2>2, <3>1 DEF r
  <2>4. picks[k] = upstreams[turn(k)]
    BY <2>1 DEF Inv, PickedInTurn
  <2> QED  BY <2>1, <2>3, <2>4
<1>4. \A k \in W : k \in last - n + 1 .. last /\ f[k] = turn(k) /\ f[k] \in E
  BY <1>3 DEF EntriesOf
<1>5. f \in [W -> E]
  BY <1>4
<1> HIDE DEF E, f
<1>6. ASSUME NEW k \in W, NEW m \in W, f[k] = f[m] PROVE k = m
  <2>1. /\ k - 1 \in Nat /\ m - 1 \in Nat
        /\ k \in last - n + 1 .. last /\ m \in last - n + 1 .. last
        /\ (k - 1) % n = (m - 1) % n
    <3>1. turn(k) = turn(m) /\ turn(k) \in 1 .. n /\ turn(m) \in 1 .. n
      BY <1>3, <1>4, <1>6
    <3>2. (k - 1) % n \in Int /\ (m - 1) % n \in Int
      <4>1. (k - 1) % n \in 0 .. n - 1 /\ (m - 1) % n \in 0 .. n - 1
        BY <1>1, <1>3, <1>4, DivisionFacts
      <4> QED  BY <1>1, <4>1
    <3>3. (k - 1) % n = (m - 1) % n
      <4> DEFINE q == (k - 1) % n
                 r == (m - 1) % n
      <4>1. q + 1 = r + 1 /\ q \in Int /\ r \in Int
        BY <3>1, <3>2
      <4> HIDE DEF q, r
      <4>2. q = r
        BY <4>1
      <4> QED  BY <4>2 DEF q, r
    <3> QED  BY <1>3, <1>4, <3>3
  <2>2. k - 1 < m - 1 => (m - 1) - (k - 1) >= n
    BY <1>1, <2>1, RoundApart
  <2>3. m - 1 < k - 1 => (k - 1) - (m - 1) >= n
    BY <1>1, <2>1, RoundApart
  <2> HIDE DEF W, last, n
  <2> QED  BY <1>1, <2>1, <2>2, <2>3
<1>7. ASSUME NEW p \in E PROVE \E k \in W : f[k] = p
  <2>1. p \in 1 .. n /\ upstreams[p] = a
    BY DEF E, EntriesOf
  <2>2. p - 1 \in 0 .. n - 1
    BY <1>1, <2>1
  <2>3. PICK y \in last - n .. last - n + n - 1 : y % n = p - 1
    BY <1>1, <2>2, RoundCovers
  <2> DEFINE k == y + 1
  <2>4. k \in last - n + 1 .. last /\ k - 1 = y
    BY <1>1, <2>3
  <2>5. turn(k) = p
    BY <1>1, <2>1, <2>3, <2>4
  <2> HIDE DEF k, turn
  <2>6. picks[k] = a
    BY <1>3, <2>1, <2>4, <2>5
  <2>7. k \in W
    BY <2>4, <2>6
  <2> QED  BY <1>4, <2>5, <2>7
<1>8. f \in Injection(W, E) /\ f \in Surjection(W, E)
  BY <1>5, <1>6, <1>7 DEF Injection, IsInjective, Surjection
<1>9. Cardinality(W) = Cardinality(E)
  BY <1>2, <1>8, FS_Injection
<1> QED  BY <1>9 DEF CountIn, E

\* Any full cycle of picks, wherever it is cut, gives every address exactly its
\* share of the configured weight, whatever the weights: LoadBalancer::new
\* neither favours nor starves an upstream (upstream.rs).
THEOREM SharesAreWeighted == Spec => []WeightedShare
<1>1. ASSUME Inv PROVE WeightedShare
  <2> DEFINE n == Len(upstreams)
             last == Len(picks)
  <2> SUFFICES ASSUME last >= n, n > 0, NEW a \in Addr
               PROVE  CountIn(a, last - n + 1, last) * TotalWeight = n * AddrWeight(a)
    BY DEF WeightedShare
  <2> DEFINE g == GcdAll(pools)
             c == Cardinality(EntriesOf(upstreams, a))
  <2>1. pools \in PoolList(Addr) /\ upstreams = Schedule(pools) /\ n \in Nat
    BY <1>1 DEF Inv, TypeOK
  <2>2. g \in Nat /\ c \in Nat
    <3>1. IsFiniteSet(EntriesOf(upstreams, a))
      BY <2>1, AddrShare
    <3> QED  BY <2>1, <3>1, GcdAllDivides, FS_CardinalityType
  <2>3. CountIn(a, last - n + 1, last) = c
    <3>1. upstreams # << >>
      BY <2>1
    <3> QED  BY <1>1, <3>1, WindowCount
  <2>4. AddrWeight(a) = g * c /\ TotalWeight = g * n
    BY <2>1, AddrShare, TotalShare
  <2> HIDE DEF g, c, n
  <2>5. c * (g * n) = n * (g * c)
    BY <2>1, <2>2
  <2> QED  BY <2>3, <2>4, <2>5
<1> QED  BY <1>1, AlwaysInv, PTL

\* The schedule is as short as its shares allow: LoadBalancer::new divides by
\* the greatest common divisor (upstream.rs, "rather than 200 entries").
THEOREM SchedulesAreReduced == Spec => []ScheduleReduced
<1>1. ASSUME Inv PROVE ScheduleReduced
  <2> DEFINE n == Len(upstreams)
             g == GcdAll(pools)
             R == Reduced(pools)
  <2>1. pools \in PoolList(Addr) /\ upstreams = Schedule(pools) /\ n \in Nat
    BY <1>1 DEF Inv, TypeOK
  <2> SUFFICES ASSUME NEW d \in 2 .. n,
                      \A k \in DOMAIN pools : ((n * WeightOf(pools[k])) \div TotalWeight) % d = 0
               PROVE  FALSE
    <3> HIDE DEF n
    <3> QED  BY <2>1 DEF ScheduleReduced, n
  <2>2. pools # << >>
    <3>1. upstreams # << >>
      BY <2>1
    <3> QED  BY <2>1, <3>1, ScheduleServes
  <2>3. g \in Nat \ {0} /\ TotalWeight = g * n /\ n \in Nat \ {0}
    BY <2>1, <2>2, GcdAllDivides, TotalShare
  <2>4. ASSUME NEW k \in 1 .. Len(pools) PROVE Divides(d, R[k])
    <3>1. R[k] \in Nat /\ WeightOf(pools[k]) = g * R[k]
      BY <2>1, ReducedWeights
    <3>2. k \in DOMAIN pools
      BY <2>1, PoolListLen
    <3> DEFINE w == R[k]
    <3> HIDE DEF n, g, w
    <3>3. n * (g * w) = (g * n) * w /\ g * n \in Nat \ {0}
      BY <2>3, <3>1 DEF w
    <3>4. (n * WeightOf(pools[k])) \div TotalWeight = w
      BY <2>3, <3>1, <3>3, DivideProduct DEF w
    <3>5. w % d = 0 /\ d \in Nat \ {0} /\ w \in Nat
      BY <2>1, <3>1, <3>2, <3>4 DEF w
    <3>6. w \div d \in Nat /\ w = d * (w \div d) + (w % d)
      BY ONLY <3>5, DivisionFacts
    <3>7. w = d * (w \div d)
      <4> DEFINE t == w \div d
      <4> HIDE DEF t
      <4>1. t \in Nat /\ w = d * t + 0
        BY <3>5, <3>6 DEF t
      <4> QED  BY <3>5, <4>1 DEF t
    <3> QED  BY <3>6, <3>7 DEF Divides, w
  <2>5. d = 1
    BY <2>1, <2>2, <2>4, ReducedCoprime
  <2> QED  BY <2>1, <2>5
<1> QED  BY <1>1, AlwaysInv, PTL

\* An address configured once has the places of its one upstream.
LEMMA ConfiguredOncePool ==
    ASSUME pools \in PoolList(Addr), NEW a, ConfiguredOnce(a)
    PROVE  \E k \in 1 .. Len(pools) :
               /\ \A m \in 1 .. Len(pools) : pools[m].addr = a <=> m = k
               /\ AddrWeight(a) = GcdAll(pools) * Reduced(pools)[k]
<1> DEFINE n == Len(pools)
           S == {k \in DOMAIN pools : pools[k].addr = a}
           s == Schedule(pools)
<1>1. n \in Nat /\ DOMAIN pools = 1 .. n
  BY PoolListLen
<1>2. \E k : S = {k}
  <2>1. IsFiniteSet(1 .. n) /\ S \subseteq 1 .. n
    BY <1>1, FS_Interval
  <2>2. IsFiniteSet(S)
    BY <2>1, FS_Subset
  <2>3. Cardinality(S) = 1
    BY DEF ConfiguredOnce
  <2> QED  BY <2>2, <2>3, FS_Singleton
<1>3. PICK k \in 1 .. n : \A m \in 1 .. n : pools[m].addr = a <=> m = k
  BY <1>1, <1>2
<1>4. s \in Seq(Addr) /\ Expands(s, pools, Visits(pools))
  BY ScheduleExpands
<1> HIDE DEF s, n
<1>5. PICK slot : IsSlots(slot, s, pools, Visits(pools))
  BY <1>4 DEF Expands
<1>6. EntriesOf(s, a) = Places(pools, slot, s, {k})
  <2>1. ASSUME NEW p \in 1 .. Len(s)
        PROVE  VisitedAt(Reduced(pools), slot[p]) = k <=> s[p] = a
    <3>1. slot[p] \in Nat /\ s[p] = pools[VisitedAt(Reduced(pools), slot[p])].addr
      BY <1>5 DEF IsSlots, PushingBefore
    <3>2. pools # << >>
      <4>1. s # << >>
        OBVIOUS
      <4> QED  BY <4>1, ScheduleServes DEF s
    <3>3. VisitedAt(Reduced(pools), slot[p]) \in 1 .. n
      BY <3>1, <3>2, VisitedInRange DEF n
    <3> QED  BY <1>3, <3>1, <3>3
  <2> QED  BY <2>1 DEF EntriesOf, Places
<1>7. Cardinality(Places(pools, slot, s, {k})) = Reduced(pools)[k]
  BY <1>4, <1>5, PlacesOfPool DEF n
<1>8. AddrWeight(a) = GcdAll(pools) * Reduced(pools)[k]
  BY <1>6, <1>7, AddrShare DEF s
<1> QED  BY <1>3, <1>8 DEF n

\* The place of a pick, and the pass of the expansion it comes from.
Turn(k) == ((k - 1) % Len(upstreams)) + 1

LEMMA PickPlace ==
    ASSUME Inv, NEW k \in 1 .. Len(picks), NEW slot, IsSlots(slot, upstreams, pools, Visits(pools)),
           NEW ka \in 1 .. Len(pools),
           \A m \in 1 .. Len(pools) : pools[m].addr = picks[k] <=> m = ka
    PROVE  /\ Turn(k) \in 1 .. Len(upstreams)
           /\ \E i \in Nat : i < Reduced(pools)[ka] /\ slot[Turn(k)] = i * Len(pools) + (ka - 1)
<1> DEFINE n == Len(upstreams)
           t == Turn(k)
<1>1. /\ upstreams # << >> /\ n \in Nat \ {0} /\ picks[k] = upstreams[t]
      /\ pools \in PoolList(Addr) /\ pools # << >>
  <2>1. upstreams # << >> /\ picks[k] = upstreams[t]
    BY DEF Inv, PickedInTurn, Turn
  <2>2. upstreams \in Seq(Addr) /\ pools \in PoolList(Addr) /\ upstreams = Schedule(pools)
    BY DEF Inv, TypeOK
  <2> QED  BY <2>1, <2>2, ScheduleServes
<1>2. t \in 1 .. n
  <2>1. k - 1 \in Nat
    BY DEF Inv, TypeOK
  <2> DEFINE r == (k - 1) % n
  <2>2. r \in 0 .. n - 1
    BY <1>1, <2>1, DivisionFacts
  <2>3. t = r + 1
    BY DEF Turn
  <2> HIDE DEF r, n, t
  <2> QED  BY <1>1, <2>2, <2>3
<1> HIDE DEF t
<1>3. /\ slot[t] \in PushingBefore(pools, Visits(pools)) /\ slot[t] \in Nat
      /\ upstreams[t] = pools[VisitedAt(Reduced(pools), slot[t])].addr
  BY <1>2 DEF IsSlots, PushingBefore
<1>4. VisitedAt(Reduced(pools), slot[t]) = ka
  BY <1>1, <1>3, VisitedInRange
<1> QED  BY <1>1, <1>2, <1>3, <1>4, VisitIs DEF t

InPass(slot, k, i) ==
    \E p \in 1 .. Len(upstreams) :
        slot[p] = i * Len(pools) + (k - 1) /\ upstreams[p] = pools[k].addr

\* An upstream at least as heavy is pushed in the same pass.
LEMMA HeavierPushed ==
    ASSUME Inv, NEW slot, IsSlots(slot, upstreams, pools, Visits(pools)),
           NEW kb \in 1 .. Len(pools), NEW i \in Nat, i < Reduced(pools)[kb]
    PROVE  InPass(slot, kb, i)
<1> DEFINE x == i * Len(pools) + (kb - 1)
<1>1. VisitedAt(Reduced(pools), x) = kb /\ x \in PushingBefore(pools, Visits(pools))
  BY VisitOf DEF Inv
<1> HIDE DEF x
<1>2. PICK p \in 1 .. Len(upstreams) : slot[p] = x
  BY <1>1 DEF IsSlots
<1> QED  BY <1>1, <1>2 DEF IsSlots, InPass, x

\* Picks and places shift together inside a cycle.
LEMMA PickShift ==
    ASSUME Inv, NEW k \in 1 .. Len(picks), NEW d \in Int, Turn(k) + d \in 1 .. Len(upstreams)
    PROVE  k + d \in Nat \ {0} /\ Turn(k + d) = Turn(k) + d
<1> DEFINE n == Len(upstreams)
           r == (k - 1) % n
<1>1. n \in Nat \ {0} /\ k - 1 \in Nat /\ k \in Nat
  BY DEF Inv, TypeOK, PickedInTurn
<1>2. r \in 0 .. n - 1
  BY <1>1, DivisionFacts
<1>3. Turn(k) = r + 1
  BY DEF Turn
<1>4. r + d \in 0 .. n - 1
  <2> HIDE DEF r, n
  <2> QED  BY <1>1, <1>2, <1>3 DEF n
<1>5. (k - 1) + d \in Nat /\ ((k - 1) + d) % n = r + d
  <2> HIDE DEF n
  <2> QED  BY <1>1, <1>4, RoundShift
<1>6. (k + d) - 1 = (k - 1) + d
  BY <1>1
<1>7. Turn(k + d) = (r + d) + 1
  BY <1>5, <1>6 DEF Turn
<1> HIDE DEF r, n
<1> QED  BY <1>1, <1>2, <1>3, <1>5, <1>7

\* A later pass is later by the whole list.
LEMMA PassesApart ==
    ASSUME NEW n \in Nat \ {0}, NEW i \in Nat, NEW j \in Nat, NEW u \in 0 .. n - 1,
           i * n + u < j * n + u
    PROVE  i * n + n <= j * n
<1>1. i * n \in Nat /\ j * n \in Nat
  BY ProductNat
<1>2. i * n < j * n
  <2> DEFINE x == i * n
             y == j * n
  <2> HIDE DEF x, y
  <2>1. x \in Nat /\ y \in Nat /\ x + u < y + u
    BY <1>1 DEF x, y
  <2>2. x < y
    BY <2>1
  <2> QED  BY <2>2 DEF x, y
<1>3. CASE j >= i + 1
  <2>1. j * n >= (i + 1) * n /\ (i + 1) * n = i * n + n
    BY <1>3
  <2> QED  BY <1>1, <2>1
<1>4. CASE j <= i
  <2>1. j * n <= i * n
    BY <1>4
  <2> QED  BY <1>1, <1>2, <2>1
<1> QED  BY <1>3, <1>4

\* Between two picks of an upstream lies one of every upstream as heavy, also
\* across the end of the schedule: the expansion of LoadBalancer::new
\* interleaves (upstream.rs).
THEOREM PicksInterleave == Spec => []Interleaved
<1>1. ASSUME Inv PROVE Interleaved
  <2> DEFINE last == Len(picks)
             n == Len(upstreams)
             h == Len(pools)
             a == picks[last]
  <2> SUFFICES ASSUME NEW prev \in 1 .. last - 1, NEW b \in Addr, picks[prev] = a,
                      ConfiguredOnce(a), ConfiguredOnce(b), AddrWeight(b) >= AddrWeight(a)
               PROVE  \E k \in prev .. last : picks[k] = b
    BY DEF Interleaved
  <2>1. /\ last \in Nat /\ n \in Nat /\ pools \in PoolList(Addr) /\ upstreams = Schedule(pools)
        /\ upstreams \in Seq(Addr)
    BY <1>1 DEF Inv, TypeOK
  <2>2. last \in 1 .. last /\ prev \in 1 .. last /\ prev < last
    BY <2>1
  <2>3. PICK ka \in 1 .. h :
               /\ \A m \in 1 .. h : pools[m].addr = a <=> m = ka
               /\ AddrWeight(a) = GcdAll(pools) * Reduced(pools)[ka]
    BY <2>1, ConfiguredOncePool
  <2>4. PICK kb \in 1 .. h :
               /\ \A m \in 1 .. h : pools[m].addr = b <=> m = kb
               /\ AddrWeight(b) = GcdAll(pools) * Reduced(pools)[kb]
    BY <2>1, ConfiguredOncePool
  <2>5. h \in Nat \ {0} /\ ka - 1 \in 0 .. h - 1 /\ kb - 1 \in 0 .. h - 1
    BY <2>1, PoolListLen
  <2>6. Reduced(pools)[ka] <= Reduced(pools)[kb]
    <3> DEFINE g == GcdAll(pools)
               wa == Reduced(pools)[ka]
               wb == Reduced(pools)[kb]
    <3>1. g \in Nat \ {0} /\ wa \in Nat /\ wb \in Nat
      <4>1. pools # << >>
        BY <2>5
      <4> QED  BY <2>1, <4>1, GcdAllDivides, ReducedWeights
    <3>2. g * wb >= g * wa
      BY <2>3, <2>4
    <3> HIDE DEF g, wa, wb
    <3>3. CASE wa >= wb + 1
      <4>1. g * wa >= g * (wb + 1) /\ g * (wb + 1) = g * wb + g
        BY <3>1, <3>3
      <4>2. g * wa \in Nat /\ g * wb \in Nat
        BY <3>1, ProductNat
      <4> QED  BY <3>1, <3>2, <4>1, <4>2
    <3> QED  BY <3>1, <3>3 DEF wa, wb
  <2>7. PICK slot : IsSlots(slot, upstreams, pools, Visits(pools))
    BY <2>1, ScheduleExpands DEF Expands
  <2>8. \A p, q \in 1 .. n : slot[p] < slot[q] => p < q
    <3> SUFFICES ASSUME NEW p \in 1 .. n, NEW q \in 1 .. n, slot[p] < slot[q], q <= p
                 PROVE  FALSE
      BY <2>1
    <3>1. slot[p] \in Nat /\ slot[q] \in Nat
      BY <2>7 DEF IsSlots, PushingBefore
    <3>2. q < p => slot[q] < slot[p]
      BY <2>7 DEF IsSlots
    <3> QED  BY <2>1, <3>1, <3>2
  <2> DEFINE P == Turn(prev)
             Q == Turn(last)
  <2>9. PICK i \in Nat : i < Reduced(pools)[ka] /\ slot[P] = i * h + (ka - 1)
    BY <1>1, <2>2, <2>3, <2>7, PickPlace
  <2>10. PICK j \in Nat : j < Reduced(pools)[ka] /\ slot[Q] = j * h + (ka - 1)
    BY <1>1, <2>2, <2>3, <2>7, PickPlace
  <2>11. P \in 1 .. n /\ Q \in 1 .. n
    BY <1>1, <2>2, <2>3, <2>7, PickPlace
  <2>12. i < Reduced(pools)[kb] /\ j < Reduced(pools)[kb]
    <3>1. Reduced(pools)[ka] \in Nat /\ Reduced(pools)[kb] \in Nat
      BY <2>1, ReducedWeights
    <3> QED  BY <2>6, <2>9, <2>10, <3>1
  <2>13. \A p \in 1 .. n, k \in 1 .. last : upstreams[p] = b /\ Turn(k) = p => picks[k] = b
    BY <1>1 DEF Inv, PickedInTurn, Turn
  <2>14. pools[kb].addr = b
    BY <2>4
  <2>15. i * h \in Nat /\ j * h \in Nat
    BY <2>5, <2>9, <2>10, ProductNat
  <2> DEFINE ih == i * h
             jh == j * h
  <2> HIDE DEF last, n, h, a, P, Q
  <2>16. CASE kb = ka
    <3>1. a = b
      BY <2>3, <2>4, <2>16
    <3> QED  BY <2>1, <2>2, <3>1 DEF a
  <2>17. CASE kb > ka
    <3>0. InPass(slot, kb, i)
      BY <1>1, <2>7, <2>12, HeavierPushed, Zenon DEF h
    <3>1. PICK p \in 1 .. n : slot[p] = ih + (kb - 1) /\ upstreams[p] = b
      BY <2>14, <3>0 DEF n, h, InPass
    <3>2. P < p
      <4>1. slot[P] < slot[p]
        <5> HIDE DEF ih
        <5> QED  BY <2>5, <2>9, <2>15, <2>17, <3>1 DEF ih
      <4> QED  BY <2>8, <2>11, <3>1, <4>1
    <3> DEFINE k == prev + (p - P)
    <3>3. k \in Nat \ {0} /\ Turn(k) = p
      <4>1. p - P \in Int /\ P + (p - P) = p
        BY <2>1, <2>11
      <4> QED  BY <1>1, <2>2, <4>1, PickShift DEF n, last, P
    <3>4. k <= last
      <4> SUFFICES ASSUME k > last PROVE FALSE
        BY <2>1, <3>3
      <4>1. last - prev \in Int /\ P + (last - prev) \in 1 .. n /\ P < P + (last - prev)
            /\ P + (last - prev) < p /\ prev + (last - prev) = last
        BY <2>1, <2>2, <2>11, <3>2
      <4>2. Q = P + (last - prev)
        <5>1. Turn(prev + (last - prev)) = P + (last - prev)
          BY <1>1, <2>2, <4>1, PickShift DEF n, last, P
        <5> QED  BY <4>1, <5>1 DEF Q
      <4>3. slot[P] < slot[Q] /\ slot[Q] < slot[p]
        BY <2>7, <2>11, <4>1, <4>2 DEF IsSlots, n
      <4>4. ih + h <= jh
        BY <2>5, <2>9, <2>10, <4>3, PassesApart
      <4> HIDE DEF ih, jh
      <4>5. jh + (ka - 1) < ih + (kb - 1)
        BY <2>10, <3>1, <4>3 DEF jh
      <4>6. ih \in Nat /\ jh \in Nat
        BY <2>15 DEF ih, jh
      <4> QED  BY <2>5, <4>4, <4>5, <4>6
    <3>5. k \in prev .. last /\ k \in 1 .. last
      BY <2>1, <2>2, <2>11, <3>2, <3>3, <3>4
    <3> QED  BY <2>13, <3>1, <3>3, <3>5
  <2>18. CASE kb < ka
    <3>0. InPass(slot, kb, j)
      BY <1>1, <2>7, <2>12, HeavierPushed, Zenon DEF h
    <3>1. PICK p \in 1 .. n : slot[p] = jh + (kb - 1) /\ upstreams[p] = b
      BY <2>14, <3>0 DEF n, h, InPass
    <3>2. p < Q
      <4>1. slot[p] < slot[Q]
        <5> HIDE DEF jh
        <5> QED  BY <2>5, <2>10, <2>15, <2>18, <3>1 DEF jh
      <4> QED  BY <2>8, <2>11, <3>1, <4>1
    <3> DEFINE k == last + (p - Q)
    <3>3. k \in Nat \ {0} /\ Turn(k) = p
      <4>1. p - Q \in Int /\ Q + (p - Q) = p
        BY <2>1, <2>11
      <4> QED  BY <1>1, <2>2, <4>1, PickShift DEF n, last, Q
    <3>4. k >= prev
      <4> SUFFICES ASSUME k < prev PROVE FALSE
        BY <2>1, <3>3
      <4>1. prev - last \in Int /\ Q + (prev - last) \in 1 .. n /\ Q + (prev - last) < Q
            /\ p < Q + (prev - last) /\ last + (prev - last) = prev
        BY <2>1, <2>2, <2>11, <3>2
      <4>2. P = Q + (prev - last)
        <5>1. Turn(last + (prev - last)) = Q + (prev - last)
          BY <1>1, <2>2, <4>1, PickShift DEF n, last, Q
        <5> QED  BY <4>1, <5>1 DEF P
      <4>3. slot[p] < slot[P] /\ slot[P] < slot[Q]
        BY <2>7, <2>11, <4>1, <4>2 DEF IsSlots, n
      <4>4. ih + h <= jh
        BY <2>5, <2>9, <2>10, <4>3, PassesApart
      <4> HIDE DEF ih, jh
      <4>5. jh + (kb - 1) < ih + (ka - 1)
        BY <2>9, <3>1, <4>3 DEF ih
      <4>6. ih \in Nat /\ jh \in Nat
        BY <2>15 DEF ih, jh
      <4> QED  BY <2>5, <4>4, <4>5, <4>6
    <3>5. k \in prev .. last /\ k \in 1 .. last
      BY <2>1, <2>2, <2>11, <3>2, <3>3, <3>4
    <3> QED  BY <2>13, <3>1, <3>3, <3>5
  <2> QED  BY <2>5, <2>16, <2>17, <2>18
<1> QED  BY <1>1, AlwaysInv, PTL

=============================================================================
