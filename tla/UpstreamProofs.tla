--------------------------- MODULE UpstreamProofs ---------------------------
(***************************************************************************)
(* Proofs about the operators of Upstream: what the expansion of           *)
(* LoadBalancer::new computes, for every list of upstreams.                *)
(*                                                                         *)
(* The recursive functions of Upstream reach the prover as CHOOSE; that    *)
(* they satisfy their equations is proved here first, from the principle   *)
(* that a non-empty set of numbers has a least element.                    *)
(***************************************************************************)
EXTENDS Upstream, Integers, Sequences, FiniteSetTheorems, TLAPS

-----------------------------------------------------------------------------
(* Induction and recursion in first-order form *)

LEMMA LeastNatural ==
    ASSUME NEW S \in SUBSET Nat, S # {}
    PROVE  \E n \in S : \A m \in S : n <= m
<1> DEFINE R == OpToRel(<, Nat)
<1>1. IsWellFoundedOn(R, Nat)
  BY NatLessThanWellFounded
<1>2. \A x, y \in Nat : x < y => <<x, y>> \in R
  BY DEF OpToRel
<1> HIDE DEF R
<1>3. PICK n \in S : \A y \in S : ~ (<<y, n>> \in R)
  BY <1>1, WFMin
<1>4. ASSUME NEW m \in S PROVE n <= m
  <2>1. ~(m < n)
    BY <1>2, <1>3
  <2> QED  BY <2>1
<1> QED  BY <1>4

\* A set that holds 0 and, with each number, the next one.
LEMMA NatSteps ==
    ASSUME NEW S, 0 \in S, \A n \in Nat : n \in S => n + 1 \in S
    PROVE  \A n \in Nat : n \in S
<1> DEFINE Missing == Nat \ S
<1> SUFFICES ASSUME Missing # {} PROVE FALSE
  OBVIOUS
<1>1. PICK m \in Missing : \A k \in Missing : m <= k
  BY LeastNatural
<1>2. m \in Nat /\ m # 0 /\ m - 1 \in Nat
  OBVIOUS
<1>3. m - 1 \in S
  BY ONLY <1>1, <1>2
<1> QED  BY <1>2, <1>3

\* As far as n only.
LEMMA StepsUpTo ==
    ASSUME NEW n \in Nat, NEW S, 0 \in S, \A k \in 0 .. n - 1 : k \in S => k + 1 \in S
    PROVE  \A k \in 0 .. n : k \in S
<1> DEFINE T == S \cup {k \in Nat : k > n}
<1>1. 0 \in T
  OBVIOUS
<1>2. ASSUME NEW k \in Nat, k \in T PROVE k + 1 \in T
  BY <1>2
<1> HIDE DEF T
<1>3. \A k \in Nat : k \in T
  BY <1>1, <1>2, NatSteps
<1> QED  BY <1>3 DEF T

Obeys(f, n, base, step) == f[0] = base /\ \A k \in 1 .. n : f[k] = step[<<k, f[k - 1]>>]

\* Primitive recursion over a type defines a function.
LEMMA RecursionExists ==
    ASSUME NEW n \in Nat, NEW T, NEW base \in T, NEW step \in [(1 .. n) \X T -> T]
    PROVE  \E f \in [0 .. n -> T] : Obeys(f, n, base, step)
<1> DEFINE Defined(m) == \E f \in [0 .. m -> T] :
                             f[0] = base /\ \A k \in 1 .. m : f[k] = step[<<k, f[k - 1]>>]
           S == {m \in 0 .. n : Defined(m)}
<1>1. 0 \in S
  <2> DEFINE f == [k \in 0 .. 0 |-> base]
  <2>1. f \in [0 .. 0 -> T] /\ f[0] = base /\ \A k \in 1 .. 0 : f[k] = step[<<k, f[k - 1]>>]
    OBVIOUS
  <2> HIDE DEF f
  <2> QED  BY <2>1
<1>2. ASSUME NEW m \in 0 .. n - 1, m \in S PROVE m + 1 \in S
  <2>1. PICK f \in [0 .. m -> T] :
               f[0] = base /\ \A k \in 1 .. m : f[k] = step[<<k, f[k - 1]>>]
    BY <1>2
  <2> DEFINE g == [k \in 0 .. m + 1 |-> IF k = m + 1 THEN step[<<m + 1, f[m]>>] ELSE f[k]]
  <2>2. f[m] \in T /\ m + 1 \in 1 .. n
    OBVIOUS
  <2>3. step[<<m + 1, f[m]>>] \in T
    BY <2>2
  <2>4. g \in [0 .. m + 1 -> T]
    BY <2>3
  <2>5. g[m + 1] = step[<<m + 1, f[m]>>] /\ \A k \in 0 .. m : g[k] = f[k]
    OBVIOUS
  <2> HIDE DEF g
  <2>6. g[0] = base
    BY <2>1, <2>5
  <2>7. ASSUME NEW k \in 1 .. m + 1 PROVE g[k] = step[<<k, g[k - 1]>>]
    <3>1. k - 1 \in 0 .. m /\ (k = m + 1 \/ k \in 1 .. m)
      OBVIOUS
    <3> QED  BY <2>1, <2>5, <3>1
  <2>8. Defined(m + 1)
    BY <2>4, <2>6, <2>7
  <2> QED  BY <2>8
<1> HIDE DEF S
<1>3. n \in S
  BY <1>1, <1>2, StepsUpTo
<1> QED  BY <1>3 DEF S, Obeys

-----------------------------------------------------------------------------
(* gcd *)

Divides(d, n) == \E q \in Nat : n = d * q

LEMMA DivisionFacts ==
    ASSUME NEW a \in Nat, NEW b \in Nat \ {0}
    PROVE  /\ a \div b \in Nat /\ a % b \in 0 .. b - 1
           /\ a = b * (a \div b) + (a % b)
OBVIOUS

LEMMA ProductNat ==
    ASSUME NEW a \in Nat, NEW b \in Nat
    PROVE  a * b \in Nat
OBVIOUS

LEMMA DividesRemainder ==
    ASSUME NEW a \in Nat, NEW b \in Nat \ {0}, NEW d \in Nat, Divides(d, b)
    PROVE  Divides(d, a) <=> Divides(d, a % b)
<1> DEFINE t == a \div b
           m == a % b
<1>1. t \in Nat /\ m \in 0 .. b - 1 /\ a = b * t + m
  BY ONLY DivisionFacts, a \in Nat, b \in Nat \ {0}
<1> HIDE DEF t, m
<1>2. PICK q \in Nat : b = d * q
  BY DEF Divides
<1>3. d > 0 /\ q * t \in Nat
  BY <1>1, <1>2, ProductNat
<1>4. b * t = d * (q * t)
  BY <1>1, <1>2
<1>5. ASSUME Divides(d, m) PROVE Divides(d, a)
  <2>1. PICK s \in Nat : m = d * s
    BY <1>5 DEF Divides
  <2>2. a = d * (q * t + s)
    BY <1>1, <1>3, <1>4, <2>1
  <2>3. q * t + s \in Nat
    BY <1>3, <2>1
  <2> QED  BY <2>2, <2>3 DEF Divides
<1>6. ASSUME Divides(d, a) PROVE Divides(d, m)
  <2>1. PICK s \in Nat : a = d * s
    BY <1>6 DEF Divides
  <2> DEFINE k == q * t
  <2>2. k \in Nat /\ m = d * s - d * k
    BY <1>1, <1>3, <1>4, <2>1
  <2> HIDE DEF k
  <2>3. m = d * (s - k)
    BY <2>1, <2>2
  <2>4. s - k \in Nat
    <3> SUFFICES ASSUME s < k PROVE FALSE
      BY <2>1, <2>2
    <3>1. d * (s - k) < 0
      BY <1>3, <2>1, <2>2
    <3> QED  BY <1>1, <2>3, <3>1
  <2> QED  BY <2>3, <2>4 DEF Divides
<1> QED  BY <1>5, <1>6 DEF m

\* The recursion of gcd defines a function: the greatest common divisor obeys it.
LEMMA GcdEquation ==
    \A a, b \in Nat : gcd[<<a, b>>] = IF b = 0 THEN a ELSE gcd[<<b, a % b>>]
<1> DEFINE Common(a, b) == {d \in Nat : Divides(d, a) /\ Divides(d, b)}
           Greatest(a, b) == CHOOSE d \in Common(a, b) : \A e \in Common(a, b) : e <= d
           G == [ab \in Nat \X Nat |-> IF ab[2] = 0 THEN ab[1] ELSE Greatest(ab[1], ab[2])]
           H == [ab \in Nat \X Nat |-> IF ab[2] = 0 THEN ab[1] ELSE G[<<ab[2], ab[1] % ab[2]>>]]
<1>1. ASSUME NEW a \in Nat, NEW b \in Nat \ {0}
      PROVE  G[<<b, a % b>>] = Greatest(a, b)
  <2>1. a % b \in Nat
    BY DivisionFacts
  <2>2. Common(a, b) = Common(b, a % b)
    BY DividesRemainder
  <2>3. CASE a % b # 0
    BY <2>1, <2>2, <2>3
  <2>4. CASE a % b = 0
    <3>1. b \in Common(a, b)
      <4>1. Divides(b, b) /\ Divides(b, 0)
        <5>1. b = b * 1 /\ 0 = b * 0
          OBVIOUS
        <5> QED  BY <5>1 DEF Divides
      <4> QED  BY <2>2, <2>4, <4>1
    <3>2. ASSUME NEW e \in Common(a, b) PROVE e <= b
      <4>1. PICK q \in Nat : b = e * q
        BY DEF Divides
      <4>2. q >= 1
        BY <4>1
      <4> QED  BY <4>1, <4>2
    <3> DEFINE C == Common(a, b)
    <3>3. b \in C /\ \A e \in C : e <= b
      BY <3>1, <3>2
    <3>4. C \subseteq Nat
      OBVIOUS
    <3> HIDE DEF C
    <3>5. (CHOOSE d \in C : \A e \in C : e <= d) = b
      <4> DEFINE c == CHOOSE d \in C : \A e \in C : e <= d
      <4>1. c \in C /\ \A e \in C : e <= c
        BY <3>3
      <4> HIDE DEF c
      <4>2. c = b
        BY <3>3, <3>4, <4>1
      <4> QED  BY <4>2 DEF c
    <3>6. G[<<b, a % b>>] = b
      BY <2>1, <2>4
    <3> QED  BY <3>5, <3>6 DEF C
  <2> QED  BY <2>3, <2>4
<1>2. G = H
  <2> HIDE DEF Common, Greatest
  <2>1. ASSUME NEW ab \in Nat \X Nat PROVE G[ab] = H[ab]
    <3>1. ab[1] \in Nat /\ ab[2] \in Nat /\ ab = <<ab[1], ab[2]>>
      OBVIOUS
    <3>2. CASE ab[2] = 0
      BY <3>1, <3>2
    <3>3. CASE ab[2] # 0
      <4>1. G[<<ab[2], ab[1] % ab[2]>>] = Greatest(ab[1], ab[2])
        BY <3>1, <3>3, <1>1
      <4> QED  BY <3>1, <3>3, <4>1
    <3> QED  BY <3>2, <3>3
  <2> QED  BY <2>1
<1> HIDE DEF G
<1>3. \E g : g = [ab \in Nat \X Nat |->
                     IF ab[2] = 0 THEN ab[1] ELSE g[<<ab[2], ab[1] % ab[2]>>]]
  BY <1>2
<1>4. gcd = [ab \in Nat \X Nat |-> IF ab[2] = 0 THEN ab[1] ELSE gcd[<<ab[2], ab[1] % ab[2]>>]]
  BY <1>3 DEF gcd
<1> HIDE DEF gcd
<1> SUFFICES ASSUME NEW a \in Nat, NEW b \in Nat
             PROVE  gcd[<<a, b>>] = IF b = 0 THEN a ELSE gcd[<<b, a % b>>]
  OBVIOUS
<1>5. <<a, b>> \in Nat \X Nat /\ <<a, b>>[1] = a /\ <<a, b>>[2] = b
  OBVIOUS
<1> QED  BY <1>4, <1>5

\* gcd divides both and is a multiple of whatever divides both.
LEMMA GcdCorrect ==
    ASSUME NEW a \in Nat, NEW b \in Nat
    PROVE  /\ gcd[<<a, b>>] \in Nat
           /\ Divides(gcd[<<a, b>>], a) /\ Divides(gcd[<<a, b>>], b)
           /\ \A d \in Nat : Divides(d, a) /\ Divides(d, b) => Divides(d, gcd[<<a, b>>])
<1> DEFINE Good(x, y) ==
               /\ gcd[<<x, y>>] \in Nat
               /\ Divides(gcd[<<x, y>>], x) /\ Divides(gcd[<<x, y>>], y)
               /\ \A d \in Nat : Divides(d, x) /\ Divides(d, y) => Divides(d, gcd[<<x, y>>])
           S == {n \in Nat : \A y \in 0 .. n, x \in Nat : Good(x, y)}
<1>1. ASSUME NEW x \in Nat PROVE Good(x, 0)
  <2>1. gcd[<<x, 0>>] = x
    BY GcdEquation
  <2>2. Divides(x, x) /\ Divides(x, 0)
    <3>1. x = x * 1 /\ 0 = x * 0
      OBVIOUS
    <3> QED  BY <3>1 DEF Divides
  <2> QED  BY <2>1, <2>2
<1>2. ASSUME NEW x \in Nat, NEW y \in Nat \ {0}, Good(y, x % y) PROVE Good(x, y)
  <2>1. gcd[<<x, y>>] = gcd[<<y, x % y>>]
    BY GcdEquation
  <2> DEFINE g == gcd[<<x, y>>]
  <2>2. g \in Nat /\ Divides(g, y) /\ Divides(g, x % y)
    BY <1>2, <2>1
  <2>3. \A d \in Nat : Divides(d, y) /\ Divides(d, x % y) => Divides(d, g)
    BY <1>2, <2>1
  <2> HIDE DEF g
  <2>4. Divides(g, x)
    BY <2>2, DividesRemainder
  <2>5. \A d \in Nat : Divides(d, x) /\ Divides(d, y) => Divides(d, g)
    BY <2>3, DividesRemainder
  <2> QED  BY <2>2, <2>4, <2>5 DEF g
<1> HIDE DEF Good
<1>3. 0 \in S
  BY <1>1
<1>4. ASSUME NEW n \in Nat, n \in S PROVE n + 1 \in S
  <2>1. ASSUME NEW y \in 0 .. n + 1, NEW x \in Nat PROVE Good(x, y)
    <3>1. CASE y = 0
      BY <1>1, <3>1
    <3>2. CASE y # 0
      <4>1. y \in Nat \ {0} /\ x % y \in 0 .. n
        BY <3>2, DivisionFacts
      <4>2. Good(y, x % y)
        BY <1>4, <4>1
      <4> QED  BY <1>2, <4>1, <4>2
    <3> QED  BY <3>1, <3>2
  <2> QED  BY <2>1
<1> HIDE DEF S
<1>5. b \in S
  BY <1>3, <1>4, NatSteps
<1>6. Good(a, b)
  BY <1>5 DEF S
<1> QED  BY <1>6 DEF Good

\* Division undoes multiplication.
LEMMA DivideProduct ==
    ASSUME NEW g \in Nat \ {0}, NEW q \in Nat
    PROVE  (g * q) \div g = q
<1> DEFINE a == g * q
           t == a \div g
           r == a % g
<1>1. a \in Nat
  BY ProductNat
<1>2. t \in Nat /\ r \in 0 .. g - 1 /\ a = g * t + r
  <2> HIDE DEF a
  <2> QED  BY ONLY <1>1, DivisionFacts, g \in Nat \ {0}
<1>3. g * (q - t) = r
  <2> HIDE DEF t, r
  <2> QED  BY ONLY <1>2, a = g * q, g \in Nat \ {0}, q \in Nat
<1> HIDE DEF a, t, r
<1>4. ~(q > t)
  <2> SUFFICES ASSUME q >= t + 1 PROVE FALSE
    BY <1>2
  <2>1. g * (q - t) >= g
    BY <1>2
  <2> QED  BY <1>2, <1>3, <2>1
<1>5. ~(q < t)
  <2> SUFFICES ASSUME t >= q + 1 PROVE FALSE
    BY <1>2
  <2>1. g * (q - t) <= 0 - g
    BY <1>2
  <2> QED  BY <1>2, <1>3, <2>1
<1> QED  BY <1>2, <1>4, <1>5 DEF t, a

-----------------------------------------------------------------------------
(* The reduction of the weights *)

\* The lists of upstreams the configuration admits, over addresses A.
PoolList(A) == Seq([addr : A, weight : Nat \cup {Unset}])

LEMMA PoolListLen ==
    ASSUME NEW A, NEW us \in PoolList(A)
    PROVE  /\ Len(us) \in Nat /\ DOMAIN us = 1 .. Len(us)
           /\ us = << >> <=> Len(us) = 0
BY DEF PoolList

LEMMA WeightPositive ==
    ASSUME NEW A, NEW pools \in PoolList(A), NEW k \in 1 .. Len(pools)
    PROVE  WeightOf(pools[k]) \in Nat \ {0}
<1> DEFINE P == [addr : A, weight : Nat \cup {Unset}]
<1>0. pools[k] \in P
  <2>1. pools \in Seq(P)
    BY DEF PoolList
  <2> HIDE DEF P
  <2> QED  BY <2>1
<1>1. pools[k].weight \in Nat \cup {Unset}
  BY <1>0
<1> DEFINE w == IF pools[k].weight = Unset THEN 100 ELSE pools[k].weight
<1>2. w \in Nat
  BY <1>1
<1>3. WeightOf(pools[k]) = IF w > 1 THEN w ELSE 1
  BY DEF WeightOf
<1> HIDE DEF w
<1> QED  BY <1>2, <1>3

\* The fold of gcd over the weights, one prefix after the other.
LEMMA GcdAllFold ==
    ASSUME NEW A, NEW pools \in PoolList(A)
    PROVE  \E fold \in [0 .. Len(pools) -> Nat] :
               /\ fold[0] = 0
               /\ \A k \in 1 .. Len(pools) : fold[k] = gcd[<<fold[k - 1], WeightOf(pools[k])>>]
               /\ GcdAll(pools) = fold[Len(pools)]
<1> DEFINE n == Len(pools)
           W(k) == WeightOf(pools[k])
           F == CHOOSE f : f = [k \in 0 .. n |-> IF k = 0 THEN 0 ELSE gcd[<<f[k - 1], W(k)>>]]
           step == [kx \in (1 .. n) \X Nat |-> gcd[<<kx[2], W(kx[1])>>]]
<1>1. n \in Nat
  BY PoolListLen
<1>2. \A k \in 1 .. n : W(k) \in Nat
  BY WeightPositive
<1>3. GcdAll(pools) = F[n]
  BY DEF GcdAll
<1> HIDE DEF n, W
<1>4. step \in [(1 .. n) \X Nat -> Nat]
  BY <1>2, GcdCorrect
<1>5. \A k \in 1 .. n, x \in Nat : step[<<k, x>>] = gcd[<<x, W(k)>>]
  OBVIOUS
<1> HIDE DEF step
<1>6. PICK f \in [0 .. n -> Nat] : Obeys(f, n, 0, step)
  <2>1. 0 \in Nat
    OBVIOUS
  <2> HIDE DEF F
  <2> QED  BY <1>1, <1>4, <2>1, RecursionExists, Zenon
<1>7. \A k \in 1 .. n : f[k - 1] \in Nat /\ f[k] = gcd[<<f[k - 1], W(k)>>]
  <2> TAKE k \in 1 .. n
  <2>1. k - 1 \in 0 .. n
    BY <1>1
  <2> QED  BY <1>5, <1>6, <2>1 DEF Obeys
<1>8. f = [k \in 0 .. n |-> IF k = 0 THEN 0 ELSE gcd[<<f[k - 1], W(k)>>]]
  BY <1>1, <1>6, <1>7 DEF Obeys
<1>9. F = [k \in 0 .. n |-> IF k = 0 THEN 0 ELSE gcd[<<F[k - 1], W(k)>>]]
  BY <1>8
<1> HIDE DEF F
<1>10. F[0] = 0 /\ \A k \in 1 .. n : F[k] = gcd[<<F[k - 1], W(k)>>]
  BY <1>1, <1>9
<1>11. \A k \in 0 .. n : F[k] \in Nat
  <2> DEFINE S == {k \in 0 .. n : F[k] \in Nat}
  <2>1. 0 \in S
    BY <1>1, <1>10
  <2>2. ASSUME NEW k \in 0 .. n - 1, k \in S PROVE k + 1 \in S
    <3>1. k + 1 \in 1 .. n /\ F[k + 1] = gcd[<<F[k], W(k + 1)>>]
      BY <1>1, <1>10
    <3> QED  BY <1>2, <2>2, <3>1, GcdCorrect
  <2> HIDE DEF S
  <2>3. \A k \in 0 .. n : k \in S
    BY <1>1, <2>1, <2>2, StepsUpTo
  <2> QED  BY <2>3 DEF S
<1>12. F \in [0 .. n -> Nat]
  <2>1. F = [k \in 0 .. n |-> F[k]]
    BY <1>9
  <2> QED  BY <1>11, <2>1
<1> QED  BY <1>3, <1>10, <1>12 DEF n, W

\* gcd_all divides every weight, and is a multiple of whatever divides them all.
LEMMA GcdAllDivides ==
    ASSUME NEW A, NEW pools \in PoolList(A)
    PROVE  /\ GcdAll(pools) \in Nat
           /\ \A k \in 1 .. Len(pools) : Divides(GcdAll(pools), WeightOf(pools[k]))
           /\ \A d \in Nat : (\A k \in 1 .. Len(pools) : Divides(d, WeightOf(pools[k])))
                                 => Divides(d, GcdAll(pools))
           /\ pools # << >> => GcdAll(pools) # 0
<1> DEFINE n == Len(pools)
           W(k) == WeightOf(pools[k])
<1>1. n \in Nat /\ \A k \in 1 .. n : W(k) \in Nat \ {0}
  <2>1. n \in Nat
    BY DEF PoolList
  <2> QED  BY <2>1, WeightPositive
<1>2. PICK fold \in [0 .. n -> Nat] :
             /\ fold[0] = 0
             /\ \A k \in 1 .. n : fold[k] = gcd[<<fold[k - 1], W(k)>>]
             /\ GcdAll(pools) = fold[n]
  BY GcdAllFold
<1>3. pools # << >> => 1 \in 1 .. n
  BY DEF PoolList
<1> HIDE DEF n, W
<1> DEFINE Good(m) == /\ \A k \in 1 .. m : Divides(fold[m], W(k))
                      /\ \A d \in Nat : (\A k \in 1 .. m : Divides(d, W(k))) => Divides(d, fold[m])
           S == {m \in 0 .. n : Good(m)}
<1>4. 0 \in S
  <2>1. ASSUME NEW d \in Nat PROVE Divides(d, 0)
    <3>1. 0 = d * 0
      OBVIOUS
    <3> QED  BY <3>1 DEF Divides
  <2> QED  BY <1>1, <1>2, <2>1
<1>5. ASSUME NEW m \in 0 .. n - 1, m \in S PROVE m + 1 \in S
  <2> DEFINE g == fold[m + 1]
  <2>1. m + 1 \in 1 .. n /\ m \in 0 .. n /\ m \in Nat
    BY <1>1
  <2>2. fold[m] \in Nat /\ W(m + 1) \in Nat /\ g = gcd[<<fold[m], W(m + 1)>>]
    BY <1>1, <1>2, <2>1
  <2> HIDE DEF g
  <2>3. /\ g \in Nat /\ Divides(g, fold[m]) /\ Divides(g, W(m + 1))
        /\ \A d \in Nat : Divides(d, fold[m]) /\ Divides(d, W(m + 1)) => Divides(d, g)
    BY <2>2, GcdCorrect
  <2>4. ASSUME NEW k \in 1 .. m + 1 PROVE Divides(g, W(k))
    <3>1. CASE k = m + 1
      BY <2>3, <3>1
    <3>2. CASE k # m + 1
      <4>1. k \in 1 .. m
        BY <2>1, <3>2
      <4>2. Divides(fold[m], W(k)) /\ W(k) \in Nat
        BY <1>1, <1>5, <2>1, <4>1
      <4>3. PICK q \in Nat : W(k) = fold[m] * q
        BY <4>2 DEF Divides
      <4>4. PICK s \in Nat : fold[m] = g * s
        BY <2>3 DEF Divides
      <4>5. W(k) = g * (s * q) /\ s * q \in Nat
        BY <2>3, <4>3, <4>4, ProductNat
      <4> QED  BY <4>5 DEF Divides
    <3> QED  BY <3>1, <3>2
  <2>5. ASSUME NEW d \in Nat, \A k \in 1 .. m + 1 : Divides(d, W(k)) PROVE Divides(d, g)
    <3>1. Divides(d, fold[m])
      BY <1>5, <2>1, <2>5
    <3>2. Divides(d, W(m + 1))
      BY <2>1, <2>5
    <3> QED  BY <2>3, <3>1, <3>2
  <2>6. Good(m + 1)
    BY <2>4, <2>5 DEF g
  <2> QED  BY <2>1, <2>6
<1> HIDE DEF S
<1>6. \A m \in 0 .. n : m \in S
  BY <1>1, <1>4, <1>5, StepsUpTo
<1>7. Good(n) /\ fold[n] \in Nat
  BY <1>1, <1>2, <1>6 DEF S
<1>8. ASSUME pools # << >> PROVE fold[n] # 0
  <2>1. 1 \in 1 .. n
    BY <1>3, <1>8
  <2>2. PICK q \in Nat : W(1) = fold[n] * q
    BY <1>7, <2>1 DEF Divides
  <2>3. W(1) # 0
    BY <1>1, <2>1
  <2> QED  BY <2>2, <2>3
<1> QED  BY <1>2, <1>7, <1>8 DEF n, W

\* The reduced weights are the configured ones over gcd_all, and positive.
LEMMA ReducedWeights ==
    ASSUME NEW A, NEW pools \in PoolList(A)
    PROVE  /\ Reduced(pools) \in Seq(Nat \ {0}) /\ Len(Reduced(pools)) = Len(pools)
           /\ \A k \in 1 .. Len(pools) :
                  WeightOf(pools[k]) = GcdAll(pools) * Reduced(pools)[k]
<1> DEFINE g == GcdAll(pools)
           n == Len(pools)
<1>1. n \in Nat /\ DOMAIN pools = 1 .. n
  BY DEF PoolList
<1>2. ASSUME NEW k \in 1 .. n
      PROVE  /\ WeightOf(pools[k]) \div g \in Nat \ {0}
             /\ WeightOf(pools[k]) = g * (WeightOf(pools[k]) \div g)
  <2>1. g \in Nat \ {0} /\ Divides(g, WeightOf(pools[k]))
    <3>1. pools # << >>
      BY <1>1 DEF PoolList
    <3> QED  BY <3>1, GcdAllDivides
  <2> HIDE DEF g
  <2>2. PICK q \in Nat : WeightOf(pools[k]) = g * q
    BY <2>1 DEF Divides
  <2>3. WeightOf(pools[k]) \div g = q
    BY <2>1, <2>2, DivideProduct
  <2>4. q # 0
    BY <2>1, <2>2, WeightPositive
  <2> QED  BY <2>2, <2>3, <2>4
<1>3. Reduced(pools) = [k \in 1 .. n |-> WeightOf(pools[k]) \div g]
  BY <1>1 DEF Reduced
<1> HIDE DEF g, n
<1>4. Reduced(pools) \in [1 .. n -> Nat \ {0}]
  BY <1>2, <1>3
<1>5. Reduced(pools) \in Seq(Nat \ {0}) /\ Len(Reduced(pools)) = n
  BY <1>1, <1>4
<1>6. \A k \in 1 .. n : WeightOf(pools[k]) = g * Reduced(pools)[k]
  BY <1>2, <1>3
<1> QED  BY <1>5, <1>6 DEF g, n

\* Nothing but 1 divides all reduced weights.
LEMMA ReducedCoprime ==
    ASSUME NEW A, NEW pools \in PoolList(A), pools # << >>,
           NEW d \in Nat, \A k \in 1 .. Len(pools) : Divides(d, Reduced(pools)[k])
    PROVE  d = 1
<1> DEFINE g == GcdAll(pools)
<1>1. g \in Nat \ {0}
  BY GcdAllDivides
<1>2. ASSUME NEW k \in 1 .. Len(pools) PROVE Divides(g * d, WeightOf(pools[k]))
  <2>1. WeightOf(pools[k]) = g * Reduced(pools)[k]
    BY ReducedWeights
  <2>2. PICK q \in Nat : Reduced(pools)[k] = d * q
    BY DEF Divides
  <2> HIDE DEF g
  <2>3. WeightOf(pools[k]) = (g * d) * q
    BY <1>1, <2>1, <2>2
  <2> QED  BY <2>3 DEF Divides
<1>3. Divides(g * d, g)
  BY <1>1, <1>2, ProductNat, GcdAllDivides
<1> HIDE DEF g
<1>4. PICK q \in Nat : g = (g * d) * q
  BY <1>3 DEF Divides
<1>5. d * q \in Nat /\ g * (d * q - 1) = 0
  BY <1>1, <1>4, ProductNat
<1>6. d * q = 1
  <2> DEFINE e == d * q
  <2> HIDE DEF e
  <2>1. e \in Nat /\ g * (e - 1) = 0
    BY <1>5 DEF e
  <2>2. e = 1
    BY <1>1, <2>1
  <2> QED  BY <2>2 DEF e
<1>7. d # 0 /\ q # 0
  BY <1>6
<1>8. CASE d >= 2
  <2>1. d * q >= 2
    BY <1>7, <1>8
  <2> QED  BY <1>6, <2>1
<1> QED  BY <1>7, <1>8

\* max_weight bounds the reduced weights.
LEMMA MaxWeightBounds ==
    ASSUME NEW reduced \in Seq(Nat \ {0})
    PROVE  /\ MaxWeight(reduced) \in Nat \ {0}
           /\ \A k \in 1 .. Len(reduced) : reduced[k] <= MaxWeight(reduced)
<1> DEFINE n == Len(reduced)
           Top(m) == \E k \in 1 .. m : \A j \in 1 .. m : reduced[j] <= reduced[k]
           S == {m \in 0 .. n : m = 0 \/ Top(m)}
<1>1. n \in Nat /\ DOMAIN reduced = 1 .. n /\ \A k \in 1 .. n : reduced[k] \in Nat \ {0}
  OBVIOUS
<1>2. 0 \in S
  BY <1>1
<1>3. ASSUME NEW m \in 0 .. n - 1, m \in S PROVE m + 1 \in S
  <2>1. m + 1 \in 1 .. n /\ m \in Nat
    BY <1>1
  <2> HIDE DEF n
  <2>2. CASE m = 0
    <3>1. \A j \in 1 .. m + 1 : j = m + 1
      BY <2>2
    <3>2. m + 1 \in 1 .. m + 1 /\ reduced[m + 1] <= reduced[m + 1]
      BY <1>1, <2>1
    <3>3. Top(m + 1)
      BY <3>1, <3>2
    <3> QED  BY <2>1, <3>3
  <2>3. CASE m # 0
    <3>1. PICK k \in 1 .. m : \A j \in 1 .. m : reduced[j] <= reduced[k]
      BY <1>3, <2>3
    <3>2. \A j \in 1 .. m + 1 : j \in 1 .. m \/ j = m + 1
      BY <2>1
    <3>3. reduced[k] \in Nat /\ reduced[m + 1] \in Nat /\ \A j \in 1 .. m : reduced[j] \in Nat
      BY <1>1, <2>1
    <3>4. CASE reduced[m + 1] <= reduced[k]
      <4>1. k \in 1 .. m + 1
        BY <2>1
      <4>2. Top(m + 1)
        BY <3>1, <3>2, <3>4, <4>1
      <4> QED  BY <2>1, <4>2
    <3>5. CASE reduced[m + 1] > reduced[k]
      <4>1. \A j \in 1 .. m + 1 : reduced[j] <= reduced[m + 1]
        BY <3>1, <3>2, <3>3, <3>5
      <4>2. m + 1 \in 1 .. m + 1
        BY <2>1
      <4>3. Top(m + 1)
        BY <4>1, <4>2
      <4> QED  BY <2>1, <4>3
    <3> QED  BY <3>3, <3>4, <3>5
  <2> QED  BY <2>2, <2>3
<1> HIDE DEF S, n
<1>4. \A m \in 0 .. n : m \in S
  BY <1>1, <1>2, <1>3, StepsUpTo
<1>5. n = 0 \/ Top(n)
  <2>1. n \in 0 .. n
    BY <1>1
  <2> HIDE DEF Top
  <2> QED  BY <1>4, <2>1 DEF S
<1> USE DEF n
<1>6. CASE n = 0
  <2>1. reduced = << >>
    BY <1>6
  <2> QED  BY <1>1, <1>6, <2>1 DEF MaxWeight
<1>7. CASE n # 0
  <2> DEFINE c == CHOOSE k \in DOMAIN reduced : \A j \in DOMAIN reduced : reduced[j] <= reduced[k]
  <2>1. c \in 1 .. n /\ \A j \in 1 .. n : reduced[j] <= reduced[c]
    BY <1>1, <1>5, <1>7
  <2>2. reduced # << >>
    BY <1>7
  <2>3. MaxWeight(reduced) = reduced[c]
    BY <2>2 DEF MaxWeight
  <2> HIDE DEF c
  <2> QED  BY <1>1, <2>1, <2>3
<1> QED  BY <1>6, <1>7

-----------------------------------------------------------------------------
(* The expansion *)

\* The double loop makes one visit of an upstream after the other: visit v is
\* made in pass v \div Len(reduced).
VisitedAt(reduced, v) == (v % Len(reduced)) + 1
PushesAt(reduced, v) == Pushes(reduced, v \div Len(reduced), VisitedAt(reduced, v))

Visits(pools) == MaxWeight(Reduced(pools)) * Len(pools)

\* The visits of the double loop, before visit v, that push an upstream.
PushingBefore(pools, v) == {x \in Nat : x < v /\ PushesAt(Reduced(pools), x)}

\* slot lists, in order, the visits before v that push; s is what they push.
IsSlots(slot, s, pools, v) ==
    /\ slot \in [1 .. Len(s) -> PushingBefore(pools, v)]
    /\ \A p, q \in 1 .. Len(s) : p < q => slot[p] < slot[q]
    /\ \A x \in PushingBefore(pools, v) : \E p \in 1 .. Len(s) : slot[p] = x
    /\ \A p \in 1 .. Len(s) : s[p] = pools[VisitedAt(Reduced(pools), slot[p])].addr

Expands(s, pools, v) == \E slot : IsSlots(slot, s, pools, v)

LEMMA VisitParts ==
    ASSUME NEW n \in Nat \ {0}, NEW i \in Nat, NEW j \in 0 .. n - 1
    PROVE  /\ i * n + j \in Nat
           /\ (i * n + j) \div n = i
           /\ (i * n + j) % n = j
<1> DEFINE a == i * n + j
           t == a \div n
           r == a % n
<1>1. i * n \in Nat
  BY ProductNat
<1>2. a \in Nat
  <2> DEFINE x == i * n
  <2> HIDE DEF x
  <2>1. x \in Nat /\ j \in Nat
    BY <1>1 DEF x
  <2>2. x + j \in Nat
    BY <2>1
  <2> QED  BY <2>2 DEF x
<1>3. t \in Nat /\ r \in 0 .. n - 1 /\ a = n * t + r
  <2> HIDE DEF a
  <2> QED  BY ONLY <1>2, DivisionFacts, n \in Nat \ {0}
<1>4. n * (i - t) = r - j
  <2> HIDE DEF t, r
  <2> QED  BY ONLY <1>3, a = i * n + j, n \in Nat \ {0}, i \in Nat, j \in 0 .. n - 1
<1> HIDE DEF a, t, r
<1>5. ~(i > t)
  <2> SUFFICES ASSUME i >= t + 1 PROVE FALSE
    BY <1>3
  <2>1. n * (i - t) >= n
    BY <1>3
  <2> QED  BY <1>3, <1>4, <2>1
<1>6. ~(i < t)
  <2> SUFFICES ASSUME t >= i + 1 PROVE FALSE
    BY <1>3
  <2>1. n * (i - t) <= 0 - n
    BY <1>3
  <2> QED  BY <1>3, <1>4, <2>1
<1>7. t = i /\ r = j
  <2>1. t = i
    BY <1>3, <1>5, <1>6
  <2>2. n * (i - t) = 0
    BY <2>1
  <2> QED  BY <1>3, <1>4, <2>1, <2>2
<1> QED  BY <1>2, <1>7 DEF a, t, r

LEMMA PoolAddr ==
    ASSUME NEW A, NEW pools \in PoolList(A), NEW k \in 1 .. Len(pools)
    PROVE  pools[k].addr \in A
<1> DEFINE P == [addr : A, weight : Nat \cup {Unset}]
<1>1. pools \in Seq(P)
  BY DEF PoolList
<1>2. pools[k] \in P
  <2> HIDE DEF P
  <2> QED  BY <1>1
<1> QED  BY <1>2

LEMMA VisitedInRange ==
    ASSUME NEW A, NEW pools \in PoolList(A), pools # << >>, NEW v \in Nat
    PROVE  /\ VisitedAt(Reduced(pools), v) \in 1 .. Len(pools)
           /\ pools[VisitedAt(Reduced(pools), v)].addr \in A
<1> DEFINE P == [addr : A, weight : Nat \cup {Unset}]
           k == VisitedAt(Reduced(pools), v)
<1>1. pools \in Seq(P)
  BY DEF PoolList
<1>2. Len(pools) \in Nat \ {0}
  <2> HIDE DEF P
  <2> QED  BY <1>1
<1>3. k \in 1 .. Len(pools)
  <2>1. Len(Reduced(pools)) = Len(pools)
    BY ReducedWeights
  <2>2. v % Len(pools) \in 0 .. Len(pools) - 1
    BY <1>2, DivisionFacts
  <2> QED  BY <1>2, <2>1, <2>2 DEF VisitedAt
<1> HIDE DEF k
<1>4. pools[k] \in P
  <2> HIDE DEF P
  <2> QED  BY <1>1, <1>3
<1> QED  BY <1>3, <1>4 DEF k

LEMMA VisitsNat ==
    ASSUME NEW A, NEW pools \in PoolList(A)
    PROVE  Visits(pools) \in Nat /\ (pools # << >> => Visits(pools) >= Len(pools))
<1>1. Len(pools) \in Nat
  BY DEF PoolList
<1>2. Reduced(pools) \in Seq(Nat \ {0})
  BY ReducedWeights
<1>3. MaxWeight(Reduced(pools)) \in Nat \ {0}
  BY <1>2, MaxWeightBounds
<1> DEFINE n == Len(pools)
           m == MaxWeight(Reduced(pools))
<1> HIDE DEF n, m
<1>4. n \in Nat /\ m \in Nat \ {0}
  BY <1>1, <1>3 DEF n, m
<1>5. m * n \in Nat /\ m * n >= n
  BY ONLY <1>4
<1> QED  BY <1>5 DEF Visits, n, m

\* A visit that pushes takes its place at the end.
LEMMA SlotsPush ==
    ASSUME NEW A, NEW pools \in PoolList(A), NEW v \in Nat, pools # << >>,
           NEW s \in Seq(A), Expands(s, pools, v), PushesAt(Reduced(pools), v)
    PROVE  Expands(Append(s, pools[VisitedAt(Reduced(pools), v)].addr), pools, v + 1)
<1> DEFINE n == Len(s)
           a == pools[VisitedAt(Reduced(pools), v)].addr
           t == Append(s, a)
           B(x) == PushingBefore(pools, x)
           at(x) == pools[VisitedAt(Reduced(pools), x)].addr
<1>1. PICK slot : IsSlots(slot, s, pools, v)
  BY DEF Expands
<1>2. /\ slot \in [1 .. n -> B(v)]
      /\ \A p, q \in 1 .. n : p < q => slot[p] < slot[q]
      /\ \A x \in B(v) : \E p \in 1 .. n : slot[p] = x
      /\ \A p \in 1 .. n : s[p] = at(slot[p])
  BY <1>1 DEF IsSlots
<1>3. n \in Nat /\ Len(t) = n + 1 /\ t[n + 1] = a /\ \A p \in 1 .. n : t[p] = s[p]
  <2>1. a \in A
    BY VisitedInRange
  <2> HIDE DEF a
  <2> QED  BY ONLY <2>1, s \in Seq(A)
<1>4. /\ \A x \in B(v) : x \in Nat /\ x < v
      /\ B(v + 1) = B(v) \cup {v}
  BY DEF PushingBefore
<1>5. a = at(v)
  OBVIOUS
<1> HIDE DEF n, a, t, B, at
<1> DEFINE new == [p \in 1 .. n + 1 |-> IF p = n + 1 THEN v ELSE slot[p]]
<1>6. new[n + 1] = v /\ \A p \in 1 .. n : new[p] = slot[p] /\ slot[p] \in B(v)
  BY <1>2, <1>3
<1>7. \A p \in 1 .. n + 1 : p \in 1 .. n \/ p = n + 1
  BY <1>3
<1>8. new \in [1 .. n + 1 -> B(v + 1)]
  <2>1. \A p \in 1 .. n + 1 : new[p] \in B(v + 1)
    <3> HIDE DEF new
    <3> QED  BY <1>4, <1>6, <1>7
  <2> QED  BY <2>1
<1> HIDE DEF new
<1>9. ASSUME NEW p \in 1 .. n + 1, NEW q \in 1 .. n + 1, p < q PROVE new[p] < new[q]
  <2>1. p \in 1 .. n
    BY <1>3, <1>9
  <2>2. CASE q = n + 1
    BY <1>4, <1>6, <2>1, <2>2
  <2>3. CASE q \in 1 .. n
    BY <1>2, <1>6, <1>9, <2>1, <2>3
  <2> QED  BY <1>7, <2>2, <2>3
<1>10. ASSUME NEW x \in B(v + 1) PROVE \E p \in 1 .. n + 1 : new[p] = x
  <2>1. CASE x = v
    <3>1. n + 1 \in 1 .. n + 1
      BY <1>3
    <3> QED  BY <1>6, <2>1, <3>1
  <2>2. CASE x \in B(v)
    <3>1. PICK p \in 1 .. n : slot[p] = x
      BY <1>2, <2>2
    <3>2. p \in 1 .. n + 1
      BY <1>3
    <3> QED  BY <1>6, <3>1, <3>2
  <2> QED  BY <1>4, <2>1, <2>2
<1>11. ASSUME NEW p \in 1 .. n + 1 PROVE t[p] = at(new[p])
  BY <1>2, <1>3, <1>5, <1>6, <1>7
<1>12. IsSlots(new, t, pools, v + 1)
  BY <1>3, <1>8, <1>9, <1>10, <1>11 DEF IsSlots, B, at
<1> QED  BY <1>12 DEF Expands, t, a

\* A visit that pushes nothing leaves the places as they are.
LEMMA SlotsSkip ==
    ASSUME NEW pools, NEW v \in Nat, NEW s, Expands(s, pools, v), ~ PushesAt(Reduced(pools), v)
    PROVE  Expands(s, pools, v + 1)
<1>1. PushingBefore(pools, v + 1) = PushingBefore(pools, v)
  BY DEF PushingBefore
<1>2. PICK slot : IsSlots(slot, s, pools, v)
  BY DEF Expands
<1>3. IsSlots(slot, s, pools, v + 1)
  BY <1>1, <1>2 DEF IsSlots
<1> QED  BY <1>3 DEF Expands

\* Visit k - 1 of pass i, counted over all passes.
LEMMA VisitInPass ==
    ASSUME NEW A, NEW pools \in PoolList(A), NEW i \in Nat, NEW k \in 1 .. Len(pools)
    PROVE  LET x == i * Len(pools) + (k - 1)
           IN  /\ x \in Nat /\ VisitedAt(Reduced(pools), x) = k
               /\ PushesAt(Reduced(pools), x) <=> Pushes(Reduced(pools), i, k)
<1> DEFINE n == Len(pools)
<1>1. n \in Nat \ {0} /\ k - 1 \in 0 .. n - 1
  BY DEF PoolList
<1>2. Len(Reduced(pools)) = n
  BY ReducedWeights
<1> HIDE DEF n
<1>3. i * n + (k - 1) \in Nat /\ (i * n + (k - 1)) \div n = i /\ (i * n + (k - 1)) % n = k - 1
  BY <1>1, VisitParts
<1> DEFINE x == i * n + (k - 1)
<1> HIDE DEF x
<1>4. x \in Nat /\ x \div n = i /\ x % n = k - 1
  BY <1>3 DEF x
<1>5. VisitedAt(Reduced(pools), x) = k
  BY <1>1, <1>2, <1>4 DEF VisitedAt
<1>6. PushesAt(Reduced(pools), x) <=> Pushes(Reduced(pools), i, k)
  BY <1>2, <1>4, <1>5 DEF PushesAt
<1> QED  BY <1>4, <1>5, <1>6 DEF x, n

\* What pass i has pushed after each of its visits.
PushedIn(f, pools, i) ==
    /\ f[0] = << >> /\ f[Len(pools)] = Pass(pools, Reduced(pools), i)
    /\ \A k \in 1 .. Len(pools) :
          f[k] = IF Pushes(Reduced(pools), i, k) THEN Append(f[k - 1], pools[k].addr) ELSE f[k - 1]

LEMMA PassSteps ==
    ASSUME NEW A, NEW pools \in PoolList(A), NEW i \in Nat
    PROVE  \E f \in [0 .. Len(pools) -> Seq(A)] : PushedIn(f, pools, i)
<1> DEFINE n == Len(pools)
           on(k) == Pushes(Reduced(pools), i, k)
           at(k) == pools[k].addr
           F == CHOOSE f : f = [k \in 0 .. n |->
                                   IF k = 0 THEN << >>
                                   ELSE IF on(k) THEN Append(f[k - 1], at(k)) ELSE f[k - 1]]
           step == [kt \in (1 .. n) \X Seq(A) |->
                       IF on(kt[1]) THEN Append(kt[2], at(kt[1])) ELSE kt[2]]
<1>1. n \in Nat
  BY PoolListLen
<1>2. \A k \in 1 .. n : at(k) \in A
  BY PoolAddr
<1>3. Pass(pools, Reduced(pools), i) = F[n]
  BY DEF Pass
<1> HIDE DEF n, on, at
<1>4. step \in [(1 .. n) \X Seq(A) -> Seq(A)]
  <2>1. ASSUME NEW kt \in (1 .. n) \X Seq(A) PROVE step[kt] \in Seq(A)
    BY <1>2
  <2>2. step = [kt \in (1 .. n) \X Seq(A) |-> step[kt]]
    OBVIOUS
  <2> HIDE DEF step
  <2> QED  BY <2>1, <2>2
<1>5. \A k \in 1 .. n, t \in Seq(A) : step[<<k, t>>] = IF on(k) THEN Append(t, at(k)) ELSE t
  OBVIOUS
<1> HIDE DEF step
<1>6. PICK f \in [0 .. n -> Seq(A)] : Obeys(f, n, << >>, step)
  <2>1. << >> \in Seq(A)
    OBVIOUS
  <2> HIDE DEF F
  <2> QED  BY <1>1, <1>4, <2>1, RecursionExists, Zenon
<1>7. \A k \in 1 .. n : f[k] = IF on(k) THEN Append(f[k - 1], at(k)) ELSE f[k - 1]
  <2> TAKE k \in 1 .. n
  <2>1. k - 1 \in 0 .. n
    BY <1>1
  <2>2. f[k - 1] \in Seq(A)
    BY <1>6, <2>1
  <2> QED  BY <1>5, <1>6, <2>2 DEF Obeys
<1>8. f = [k \in 0 .. n |->
              IF k = 0 THEN << >>
              ELSE IF on(k) THEN Append(f[k - 1], at(k)) ELSE f[k - 1]]
  <2>1. f = [k \in 0 .. n |-> f[k]] /\ f[0] = << >>
    BY <1>6 DEF Obeys
  <2>2. \A k \in 0 .. n : k = 0 \/ k \in 1 .. n
    BY <1>1
  <2> HIDE DEF F
  <2> QED  BY <1>7, <2>1, <2>2
<1>9. F = [k \in 0 .. n |->
              IF k = 0 THEN << >>
              ELSE IF on(k) THEN Append(F[k - 1], at(k)) ELSE F[k - 1]]
  BY <1>8
<1> HIDE DEF F
<1>10. F[0] = << >>
  BY <1>1, <1>9
<1>11. \A k \in 1 .. n : F[k] = IF on(k) THEN Append(F[k - 1], at(k)) ELSE F[k - 1]
  <2> TAKE k \in 1 .. n
  <2>1. k \in 0 .. n /\ k # 0
    BY <1>1
  <2> QED  BY <1>9, <2>1
<1> DEFINE S == {k \in 0 .. n : F[k] \in Seq(A)}
<1>12. 0 \in S
  <2>1. 0 \in 0 .. n /\ << >> \in Seq(A)
    BY <1>1
  <2> QED  BY <1>10, <2>1
<1>13. ASSUME NEW k \in 0 .. n - 1, k \in S PROVE k + 1 \in S
  <2>1. k + 1 \in 1 .. n /\ k + 1 \in 0 .. n /\ (k + 1) - 1 = k
    BY <1>1
  <2>2. F[k] \in Seq(A) /\ at(k + 1) \in A
    BY <1>2, <1>13, <2>1
  <2>3. F[k + 1] = IF on(k + 1) THEN Append(F[k], at(k + 1)) ELSE F[k]
    BY <1>11, <2>1
  <2>4. Append(F[k], at(k + 1)) \in Seq(A)
    BY <2>2
  <2>5. F[k + 1] \in Seq(A)
    BY <2>2, <2>3, <2>4
  <2> QED  BY <2>1, <2>5
<1> HIDE DEF S
<1>14. \A k \in 0 .. n : k \in S
  BY <1>1, <1>12, <1>13, StepsUpTo
<1>15. F \in [0 .. n -> Seq(A)]
  <2>1. \A k \in 0 .. n : F[k] \in Seq(A)
    BY <1>14 DEF S
  <2>2. F = [k \in 0 .. n |-> F[k]]
    BY <1>9
  <2> QED  BY <2>1, <2>2
<1>16. PushedIn(F, pools, i)
  BY <1>3, <1>10, <1>11 DEF PushedIn, n, on, at
<1> QED  BY <1>15, <1>16 DEF n

LEMMA PassTyped ==
    ASSUME NEW A, NEW pools \in PoolList(A), NEW i \in Nat
    PROVE  Pass(pools, Reduced(pools), i) \in Seq(A)
<1>1. PICK f \in [0 .. Len(pools) -> Seq(A)] : PushedIn(f, pools, i)
  BY PassSteps
<1>2. Len(pools) \in 0 .. Len(pools)
  BY DEF PoolList
<1> QED  BY <1>1, <1>2 DEF PushedIn

\* The inner loop takes an expansion through the visits of one pass.
LEMMA PassExpands ==
    ASSUME NEW A, NEW pools \in PoolList(A), NEW i \in Nat,
           NEW s \in Seq(A), Expands(s, pools, i * Len(pools))
    PROVE  /\ Pass(pools, Reduced(pools), i) \in Seq(A)
           /\ Expands(s \o Pass(pools, Reduced(pools), i), pools, i * Len(pools) + Len(pools))
<1> DEFINE n == Len(pools)
           on(k) == Pushes(Reduced(pools), i, k)
           at(k) == pools[k].addr
<1>1. n \in Nat
  BY PoolListLen
<1>2. \A k \in 1 .. n : at(k) \in A
  BY PoolAddr
<1>3. PICK F \in [0 .. n -> Seq(A)] : PushedIn(F, pools, i)
  BY PassSteps
<1>10. F[0] = << >> /\ F[n] = Pass(pools, Reduced(pools), i)
  BY <1>3 DEF PushedIn
<1>11. ASSUME NEW k \in 0 .. n - 1
       PROVE  F[k + 1] = IF on(k + 1) THEN Append(F[k], at(k + 1)) ELSE F[k]
  <2>1. k + 1 \in 1 .. n /\ (k + 1) - 1 = k
    BY <1>1
  <2> QED  BY <1>3, <2>1 DEF PushedIn
<1> HIDE DEF n, on, at
<1> DEFINE v == i * n
           S == {k \in 0 .. n : F[k] \in Seq(A) /\ Expands(s \o F[k], pools, v + k)}
<1>12. 0 \in S
  <2>1. v \in Nat /\ v + 0 = v /\ 0 \in 0 .. n
    BY <1>1, ProductNat
  <2>2. s \o << >> = s /\ << >> \in Seq(A)
    OBVIOUS
  <2>3. Expands(s, pools, v)
    BY DEF n
  <2> HIDE DEF v
  <2> QED  BY <1>10, <2>1, <2>2, <2>3
<1>13. ASSUME NEW k \in 0 .. n - 1, k \in S PROVE k + 1 \in S
  <2>1. k + 1 \in 1 .. n /\ k + 1 \in 0 .. n
    BY <1>1
  <2>2. F[k] \in Seq(A) /\ Expands(s \o F[k], pools, v + k)
    BY <1>13
  <2>3. /\ v + k \in Nat /\ VisitedAt(Reduced(pools), v + k) = k + 1
        /\ PushesAt(Reduced(pools), v + k) <=> on(k + 1)
    <3>1. v + ((k + 1) - 1) = v + k
      <4>1. v \in Nat
        BY <1>1, ProductNat
      <4> HIDE DEF v
      <4> QED  BY <1>1, <4>1
    <3>2. /\ v + ((k + 1) - 1) \in Nat /\ VisitedAt(Reduced(pools), v + ((k + 1) - 1)) = k + 1
          /\ PushesAt(Reduced(pools), v + ((k + 1) - 1)) <=> Pushes(Reduced(pools), i, k + 1)
      BY <2>1, VisitInPass DEF n
    <3> QED  BY <3>1, <3>2 DEF on
  <2>4. v + (k + 1) = (v + k) + 1
    <3>1. v \in Nat
      BY <1>1, ProductNat
    <3> HIDE DEF v
    <3> QED  BY <1>1, <3>1
  <2>5. pools # << >> /\ at(k + 1) \in A
    BY <1>1, <1>2, <2>1 DEF n
  <2> HIDE DEF v, S
  <2>6. s \o F[k] \in Seq(A)
    BY <2>2
  <2>7. CASE on(k + 1)
    <3>1. F[k + 1] = Append(F[k], at(k + 1))
      BY <1>11, <2>7
    <3>2. s \o F[k + 1] = Append(s \o F[k], at(k + 1)) /\ F[k + 1] \in Seq(A)
      <4> DEFINE t == F[k]
                 e == at(k + 1)
      <4> HIDE DEF t, e
      <4>1. t \in Seq(A) /\ e \in A
        BY <2>2, <2>5 DEF t, e
      <4>2. s \o Append(t, e) = Append(s \o t, e) /\ Append(t, e) \in Seq(A)
        BY ONLY <4>1, s \in Seq(A)
      <4> QED  BY <3>1, <4>2 DEF t, e
    <3>3. Expands(Append(s \o F[k], at(k + 1)), pools, (v + k) + 1)
      <4>1. Expands(Append(s \o F[k], pools[VisitedAt(Reduced(pools), v + k)].addr), pools, (v + k) + 1)
        BY <2>2, <2>3, <2>5, <2>6, <2>7, SlotsPush
      <4> QED  BY <2>3, <4>1 DEF at
    <3> QED  BY <2>1, <2>4, <3>2, <3>3 DEF S
  <2>8. CASE ~ on(k + 1)
    <3>1. F[k + 1] = F[k]
      BY <1>11, <2>8
    <3>2. Expands(s \o F[k], pools, (v + k) + 1)
      BY <2>2, <2>3, <2>8, SlotsSkip
    <3> QED  BY <2>1, <2>2, <2>4, <3>1, <3>2 DEF S
  <2> QED  BY <2>7, <2>8
<1> HIDE DEF S, v
<1>14. \A k \in 0 .. n : k \in S
  BY <1>1, <1>12, <1>13, StepsUpTo
<1>15. n \in 0 .. n
  BY <1>1
<1>16. F[n] \in Seq(A) /\ Expands(s \o F[n], pools, v + n)
  BY <1>14, <1>15 DEF S
<1> QED  BY <1>10, <1>16 DEF n, v

\* LoadBalancer::new pushes, in the order of the double loop, what its guard lets through.
LEMMA ScheduleExpands ==
    ASSUME NEW A, NEW pools \in PoolList(A)
    PROVE  Schedule(pools) \in Seq(A) /\ Expands(Schedule(pools), pools, Visits(pools))
<1> DEFINE passes == MaxWeight(Reduced(pools))
           n == Len(pools)
           during(i) == Pass(pools, Reduced(pools), i)
           F == CHOOSE f : f = [i \in 0 .. passes |->
                                   IF i = 0 THEN << >> ELSE f[i - 1] \o during(i - 1)]
           step == [it \in (1 .. passes) \X Seq(A) |-> it[2] \o during(it[1] - 1)]
<1>1. passes \in Nat /\ n \in Nat
  <2>1. Reduced(pools) \in Seq(Nat \ {0})
    BY ReducedWeights
  <2> QED  BY <2>1, MaxWeightBounds, PoolListLen
<1>2. \A i \in Nat : during(i) \in Seq(A)
  <2> TAKE i \in Nat
  <2> QED  BY PassTyped
<1>3. Schedule(pools) = F[passes]
  BY DEF Schedule
<1> HIDE DEF passes, during, n
<1>4. step \in [(1 .. passes) \X Seq(A) -> Seq(A)]
  <2>1. ASSUME NEW it \in (1 .. passes) \X Seq(A) PROVE step[it] \in Seq(A)
    <3>1. it[1] - 1 \in Nat /\ it[2] \in Seq(A)
      BY <1>1
    <3>2. during(it[1] - 1) \in Seq(A)
      BY <1>2, <3>1
    <3> QED  BY <3>1, <3>2
  <2>2. step = [it \in (1 .. passes) \X Seq(A) |-> step[it]]
    OBVIOUS
  <2> HIDE DEF step
  <2> QED  BY <2>1, <2>2
<1>5. \A i \in 1 .. passes, t \in Seq(A) : step[<<i, t>>] = t \o during(i - 1)
  OBVIOUS
<1> HIDE DEF step
<1>6. PICK f \in [0 .. passes -> Seq(A)] : Obeys(f, passes, << >>, step)
  <2>1. << >> \in Seq(A)
    OBVIOUS
  <2> HIDE DEF F
  <2> QED  BY <1>1, <1>4, <2>1, RecursionExists, Zenon
<1>7. \A i \in 1 .. passes : f[i] = f[i - 1] \o during(i - 1)
  <2> TAKE i \in 1 .. passes
  <2>1. i - 1 \in 0 .. passes
    BY <1>1
  <2>2. f[i - 1] \in Seq(A)
    BY <1>6, <2>1
  <2> QED  BY <1>5, <1>6, <2>2 DEF Obeys
<1>8. f = [i \in 0 .. passes |-> IF i = 0 THEN << >> ELSE f[i - 1] \o during(i - 1)]
  <2>1. f = [i \in 0 .. passes |-> f[i]] /\ f[0] = << >>
    BY <1>6 DEF Obeys
  <2>2. \A i \in 0 .. passes : i = 0 \/ i \in 1 .. passes
    BY <1>1
  <2> HIDE DEF F
  <2> QED  BY <1>7, <2>1, <2>2
<1>9. F = [i \in 0 .. passes |-> IF i = 0 THEN << >> ELSE F[i - 1] \o during(i - 1)]
  BY <1>8
<1> HIDE DEF F
<1>10. F[0] = << >>
  BY <1>1, <1>9
<1>11. ASSUME NEW i \in 0 .. passes - 1 PROVE F[i + 1] = F[i] \o during(i)
  <2>1. i + 1 \in 0 .. passes /\ i + 1 # 0 /\ (i + 1) - 1 = i
    BY <1>1
  <2> QED  BY <1>9, <2>1
<1> DEFINE S == {i \in 0 .. passes : F[i] \in Seq(A) /\ Expands(F[i], pools, i * n)}
<1>12. 0 \in S
  <2>1. PushingBefore(pools, 0) = {}
    BY DEF PushingBefore
  <2>2. << >> \in [1 .. 0 -> PushingBefore(pools, 0)] /\ Len(<< >>) = 0
    OBVIOUS
  <2>3. IsSlots(<< >>, << >>, pools, 0)
    BY <2>1, <2>2 DEF IsSlots
  <2>4. 0 \in 0 .. passes /\ << >> \in Seq(A) /\ 0 * n = 0
    BY <1>1
  <2>5. Expands(<< >>, pools, 0)
    BY <2>3 DEF Expands
  <2> QED  BY <1>10, <2>4, <2>5
<1>13. ASSUME NEW i \in 0 .. passes - 1, i \in S PROVE i + 1 \in S
  <2>1. i \in Nat /\ i + 1 \in 0 .. passes
    BY <1>1
  <2>2. F[i] \in Seq(A) /\ Expands(F[i], pools, i * n)
    BY <1>13
  <2>3. i * n + n = (i + 1) * n
    BY <1>1, <2>1
  <2>4. during(i) \in Seq(A) /\ Expands(F[i] \o during(i), pools, i * n + n)
    BY <2>1, <2>2, PassExpands DEF during, n
  <2>5. F[i + 1] = F[i] \o during(i)
    BY <1>11
  <2>6. F[i + 1] \in Seq(A) /\ Expands(F[i + 1], pools, (i + 1) * n)
    <3>1. F[i] \o during(i) \in Seq(A)
      BY <2>2, <2>4
    <3> QED  BY <2>3, <2>4, <2>5, <3>1
  <2> QED  BY <2>1, <2>6
<1> HIDE DEF S
<1>14. \A i \in 0 .. passes : i \in S
  BY <1>1, <1>12, <1>13, StepsUpTo
<1>15. passes \in 0 .. passes
  BY <1>1
<1>16. F[passes] \in Seq(A) /\ Expands(F[passes], pools, passes * n)
  BY <1>14, <1>15 DEF S
<1> QED  BY <1>3, <1>16 DEF passes, n, Visits

\* Pass i visits upstream k, and pushes it exactly when its reduced weight exceeds i.
LEMMA VisitOf ==
    ASSUME NEW A, NEW pools \in PoolList(A), NEW k \in 1 .. Len(pools), NEW i \in Nat
    PROVE  LET x == i * Len(pools) + (k - 1)
           IN  /\ x \in Nat
               /\ VisitedAt(Reduced(pools), x) = k
               /\ x \in PushingBefore(pools, Visits(pools)) <=> i < Reduced(pools)[k]
<1> DEFINE n == Len(pools)
           m == MaxWeight(Reduced(pools))
           w == Reduced(pools)[k]
           x == i * n + (k - 1)
<1>1. n \in Nat \ {0} /\ k - 1 \in 0 .. n - 1
  BY DEF PoolList
<1>2. /\ Len(Reduced(pools)) = n
      /\ Reduced(pools) \in Seq(Nat \ {0})
  BY ReducedWeights
<1>3. w \in Nat \ {0} /\ m \in Nat \ {0} /\ w <= m
  BY <1>2, MaxWeightBounds
<1> HIDE DEF n, m, w
<1>4. x \in Nat /\ x \div n = i /\ x % n = k - 1
  BY <1>1, VisitParts
<1>5. VisitedAt(Reduced(pools), x) = k
  BY <1>1, <1>2, <1>4 DEF VisitedAt
<1>6. PushesAt(Reduced(pools), x) <=> i < w
  BY <1>2, <1>4, <1>5 DEF PushesAt, Pushes, w
<1>7. ASSUME i < w PROVE x < m * n
  <2> SUFFICES ASSUME i + 1 <= m PROVE x < m * n
    BY <1>3, <1>7
  <2>1. (i + 1) * n <= m * n
    BY <1>1, <1>3
  <2>2. (i + 1) * n = i * n + n
    BY <1>1
  <2>3. i * n \in Nat /\ m * n \in Nat
    BY <1>1, <1>3, ProductNat
  <2> DEFINE y == i * n
             z == m * n
  <2>4. y \in Nat /\ z \in Nat /\ y + n <= z
    BY <2>1, <2>2, <2>3
  <2> HIDE DEF y, z
  <2>5. y + (k - 1) < z
    BY <1>1, <2>4
  <2> QED  BY <2>5 DEF y, z
<1> HIDE DEF x
<1>8. x \in PushingBefore(pools, Visits(pools)) <=> i < w
  BY <1>4, <1>6, <1>7 DEF PushingBefore, Visits, m, n
<1> QED  BY <1>4, <1>5, <1>8 DEF x, n, w

\* The other way round: a visit that pushes is one of those.
LEMMA VisitIs ==
    ASSUME NEW A, NEW pools \in PoolList(A), pools # << >>,
           NEW x \in PushingBefore(pools, Visits(pools))
    PROVE  LET k == VisitedAt(Reduced(pools), x)
           IN  \E i \in Nat : i < Reduced(pools)[k] /\ x = i * Len(pools) + (k - 1)
<1> DEFINE n == Len(pools)
           k == VisitedAt(Reduced(pools), x)
           i == x \div n
<1>1. x \in Nat /\ PushesAt(Reduced(pools), x)
  BY DEF PushingBefore
<1>2. n \in Nat \ {0}
  BY DEF PoolList
<1>3. Len(Reduced(pools)) = n
  BY ReducedWeights
<1>4. i < Reduced(pools)[k]
  BY <1>1, <1>3 DEF PushesAt, Pushes
<1>5. k = (x % n) + 1
  BY <1>3 DEF VisitedAt
<1> HIDE DEF n, k
<1>6. i \in Nat /\ x % n \in 0 .. n - 1 /\ x = n * i + (x % n)
  <2> QED  BY ONLY <1>1, <1>2, DivisionFacts
<1> HIDE DEF i
<1>7. x = i * n + (k - 1)
  <2> DEFINE r == x % n
  <2>1. r \in Nat /\ x = n * i + r /\ k = r + 1
    BY <1>2, <1>5, <1>6
  <2> HIDE DEF r
  <2> QED  BY <1>2, <1>6, <2>1
<1> QED  BY <1>4, <1>6, <1>7 DEF n, k

\* Every upstream gets a place in the schedule: only a route without upstreams
\* has an empty one.
LEMMA ScheduleServes ==
    ASSUME NEW A, NEW pools \in PoolList(A)
    PROVE  /\ Schedule(pools) = << >> <=> pools = << >>
           /\ \A p \in 1 .. Len(Schedule(pools)) :
                  \E k \in 1 .. Len(pools) : Schedule(pools)[p] = pools[k].addr
           /\ \A k \in 1 .. Len(pools) :
                  \E p \in 1 .. Len(Schedule(pools)) : Schedule(pools)[p] = pools[k].addr
<1> DEFINE s == Schedule(pools)
<1>1. PICK slot : IsSlots(slot, s, pools, Visits(pools))
  BY ScheduleExpands DEF Expands
<1>2. s \in Seq(A)
  BY ScheduleExpands
<1> HIDE DEF s
<1>3. ASSUME NEW k \in 1 .. Len(pools)
      PROVE  \E p \in 1 .. Len(s) : s[p] = pools[k].addr
  <2> DEFINE x == 0 * Len(pools) + (k - 1)
  <2>1. 0 \in Nat /\ 0 < Reduced(pools)[k]
    BY ReducedWeights
  <2>2. VisitedAt(Reduced(pools), x) = k /\ x \in PushingBefore(pools, Visits(pools))
    BY <2>1, VisitOf, Zenon
  <2> HIDE DEF x
  <2>3. PICK p \in 1 .. Len(s) : slot[p] = x
    BY <1>1, <2>2 DEF IsSlots
  <2>4. s[p] = pools[k].addr
    BY <1>1, <2>2, <2>3 DEF IsSlots
  <2> QED  BY <2>4
<1>4. ASSUME NEW p \in 1 .. Len(s)
      PROVE  pools # << >> /\ \E k \in 1 .. Len(pools) : s[p] = pools[k].addr
  <2>1. slot[p] \in PushingBefore(pools, Visits(pools))
    BY <1>1 DEF IsSlots
  <2>2. slot[p] \in Nat /\ slot[p] < Visits(pools)
    BY <2>1 DEF PushingBefore
  <2>3. pools # << >>
    <3> SUFFICES ASSUME pools = << >> PROVE FALSE
      OBVIOUS
    <3>1. MaxWeight(Reduced(pools)) \in Nat
      BY ReducedWeights, MaxWeightBounds
    <3>2. Len(pools) = 0
      OBVIOUS
    <3>3. Visits(pools) = 0
      BY <3>1, <3>2 DEF Visits
    <3> QED  BY <2>2, <3>3
  <2>4. VisitedAt(Reduced(pools), slot[p]) \in 1 .. Len(pools)
    BY <2>2, <2>3, VisitedInRange
  <2>5. s[p] = pools[VisitedAt(Reduced(pools), slot[p])].addr
    BY <1>1 DEF IsSlots
  <2> QED  BY <2>3, <2>4, <2>5
<1>5. s = << >> <=> pools = << >>
  <2>1. ASSUME pools # << >> PROVE s # << >>
    <3>1. 1 \in 1 .. Len(pools)
      BY <2>1 DEF PoolList
    <3>2. PICK p \in 1 .. Len(s) : s[p] = pools[1].addr
      BY <1>3, <3>1
    <3> QED  BY <3>2
  <2>2. ASSUME s # << >> PROVE pools # << >>
    <3>1. 1 \in 1 .. Len(s)
      BY <1>2, <2>2
    <3> QED  BY <1>4, <3>1
  <2> QED  BY <2>1, <2>2
<1> QED  BY <1>3, <1>4, <1>5 DEF s

-----------------------------------------------------------------------------
(* Going round a cycle of n *)

LEMMA RoundApart ==
    ASSUME NEW n \in Nat \ {0}, NEW x \in Nat, NEW y \in Nat, x < y, x % n = y % n
    PROVE  y - x >= n
<1> DEFINE q == x \div n
           t == y \div n
           r == x % n
<1>1. q \in Nat /\ x = n * q + r /\ r \in 0 .. n - 1
  BY ONLY DivisionFacts, n \in Nat \ {0}, x \in Nat
<1>2. t \in Nat /\ y = n * t + r
  <2>1. t \in Nat /\ y = n * t + (y % n)
    BY ONLY DivisionFacts, n \in Nat \ {0}, y \in Nat
  <2> QED  BY <2>1
<1> HIDE DEF q, t, r
<1>3. y - x = n * (t - q)
  BY ONLY <1>1, <1>2, n \in Nat \ {0}
<1>4. CASE t <= q
  <2>1. n * (t - q) <= 0
    BY <1>1, <1>2, <1>4
  <2> QED  BY <1>3, <2>1
<1>5. CASE t >= q + 1
  <2>1. n * (t - q) >= n
    BY <1>1, <1>2, <1>5
  <2> QED  BY <1>3, <2>1
<1> QED  BY <1>1, <1>2, <1>4, <1>5

LEMMA RoundCovers ==
    ASSUME NEW n \in Nat \ {0}, NEW x \in Nat, NEW j \in 0 .. n - 1
    PROVE  \E y \in x .. x + n - 1 : y % n = j
<1> DEFINE q == x \div n
           r == x % n
<1>1. q \in Nat /\ x = n * q + r /\ r \in 0 .. n - 1
  BY ONLY DivisionFacts, n \in Nat \ {0}, x \in Nat
<1> HIDE DEF q, r
<1>2. n * q \in Nat /\ n * q = q * n /\ (q + 1) * n = q * n + n /\ q + 1 \in Nat
  BY <1>1, ProductNat
<1> DEFINE m == q * n
<1>3. m \in Nat /\ x = m + r
  BY <1>1, <1>2
<1>4. CASE j >= r
  <2>1. (q * n + j) % n = j
    BY <1>1, VisitParts
  <2>2. m + j \in x .. x + n - 1
    <3> HIDE DEF m
    <3> QED  BY <1>1, <1>3, <1>4
  <2> QED  BY <2>1, <2>2
<1>5. CASE j < r
  <2>1. ((q + 1) * n + j) % n = j
    BY <1>2, VisitParts
  <2>2. (q + 1) * n + j = m + n + j
    BY <1>2
  <2>3. m + n + j \in x .. x + n - 1
    <3> HIDE DEF m
    <3> QED  BY <1>1, <1>3, <1>5
  <2> QED  BY <2>1, <2>2, <2>3
<1> QED  BY <1>1, <1>4, <1>5

LEMMA RoundShift ==
    ASSUME NEW n \in Nat \ {0}, NEW x \in Nat, NEW d \in Int, (x % n) + d \in 0 .. n - 1
    PROVE  x + d \in Nat /\ (x + d) % n = (x % n) + d
<1> DEFINE q == x \div n
           r == x % n
<1>1. q \in Nat /\ x = n * q + r /\ r \in 0 .. n - 1
  BY ONLY DivisionFacts, n \in Nat \ {0}, x \in Nat
<1>2. r + d \in 0 .. n - 1
  OBVIOUS
<1> HIDE DEF q, r
<1>3. q * n + (r + d) \in Nat /\ (q * n + (r + d)) % n = r + d
  BY <1>1, <1>2, VisitParts
<1>4. n * q = q * n /\ q * n \in Nat
  BY <1>1, ProductNat
<1> DEFINE m == q * n
<1>5. x + d = m + (r + d)
  <2>1. m \in Nat /\ x = m + r
    BY <1>1, <1>4
  <2> HIDE DEF m
  <2> QED  BY <1>1, <2>1
<1> QED  BY <1>3, <1>5 DEF r

-----------------------------------------------------------------------------
(* Counting by pairs *)

\* As many as there are places, each in a place of its own: every place is taken.
LEMMA PlacesFilled ==
    ASSUME NEW S, NEW c \in Nat, NEW f \in [S -> 1 .. c],
           \A x, y \in S : f[x] = f[y] => x = y, Cardinality(S) = c
    PROVE  IsFiniteSet(S) /\ \A k \in 1 .. c : \E x \in S : f[x] = k
<1>1. f \in Injection(S, 1 .. c)
  BY DEF Injection, IsInjective
<1>2. IsFiniteSet(1 .. c) /\ Cardinality(1 .. c) = c
  BY FS_Interval
<1>3. IsFiniteSet(S) /\ f \in Surjection(S, 1 .. c)
  BY <1>1, <1>2, FS_Injection
<1> QED  BY <1>3 DEF Surjection

LEMMA PairsCount ==
    ASSUME NEW S, NEW T, NEW f \in [S -> T], IsFiniteSet(S),
           \A x, y \in S : f[x] = f[y] => x = y, \A k \in T : \E x \in S : f[x] = k
    PROVE  Cardinality(T) = Cardinality(S)
<1>1. f \in Bijection(S, T)
  BY DEF Bijection, Injection, IsInjective, Surjection
<1>2. ExistsBijection(S, T)
  BY <1>1 DEF ExistsBijection
<1> QED  BY <1>2, FS_Bijection

=============================================================================
