---------------------------- MODULE HealthProofs ----------------------------
(***************************************************************************)
(* Proofs about Health, for any files, upstreams and paths.                *)
(***************************************************************************)
EXTENDS Health, TLAPS

\* What the flag of an address has to hold.
Stored(b) == IF verdict[b] = None THEN TRUE ELSE verdict[b]

\* A flag enters the map once and healthy, and is its address's for good.
FlagsInv ==
    /\ \A b \in Addr : state[b] = None => verdict[b] = None
    /\ \A b \in Addr : state[b] # None => /\ AddrOf(state[b]) = b
                                          /\ value[state[b]] = Stored(b)
    /\ \A p \in Prober : state[AddrOf(p)] # p => value[p] = TRUE
    /\ \A p \in Prober : at[p] = "swap" => flag[p] # None
    /\ \A p \in Prober : flag[p] # None => flag[p] = state[AddrOf(p)]

HealthInv == HealthTypeOK /\ FlagsInv

LEMMA ProberAddr ==
    ASSUME NEW p \in Prober
    PROVE  AddrOf(p) \in Addr
<1>1. PICK g \in DOMAIN Configs : p \in ProbersIn(g)
  BY DEF Prober
<1>2. PICK r \in DOMAIN Configs[g] : \E i \in DOMAIN Configs[g][r].upstream : p = <<g, r, i>>
  BY <1>1 DEF ProbersIn
<1> DEFINE R == [check : Path \cup {None}, upstream : Seq(Addr)]
<1>3. Configs[g][r] \in R
  <2>1. Configs \in Seq(Seq(R))
    BY HealthAssumption
  <2> HIDE DEF R
  <2>2. Configs[g] \in Seq(R)
    BY <2>1
  <2> QED  BY <2>2
<1>4. \A i \in DOMAIN Configs[g][r].upstream : Configs[g][r].upstream[i] \in Addr
  BY <1>3
<1> QED  BY <1>2, <1>4 DEF AddrOf

LEMMA HealthInitInv == HealthInit => HealthInv
<1> SUFFICES ASSUME HealthInit PROVE HealthInv
  OBVIOUS
<1>1. HealthTypeOK
  <2>1. answer \in [DOMAIN answer -> {"ok", "error", "hangs"}]
    BY DEF HealthInit
  <2>2. spawned \in DOMAIN Configs /\ aborted \in 0..(spawned - 1)
    BY HealthAssumption DEF HealthInit
  <2> QED  BY <2>1, <2>2 DEF HealthInit, HealthTypeOK
<1> QED  BY <1>1, HealthAssumption, ProberAddr DEF HealthInit, HealthInv, FlagsInv, Stored

LEMMA TypesStep == HealthTypeOK /\ [HealthNext]_healthVars => HealthTypeOK'
<1> SUFFICES ASSUME HealthTypeOK, [HealthNext]_healthVars PROVE HealthTypeOK'
  OBVIOUS
<1> USE DEF HealthTypeOK
<1>1. CASE Spawn
  <2>1. spawned' = spawned + 1 /\ spawned < Len(Configs) /\ aborted' = aborted
        /\ UNCHANGED <<answer, healthy, flag, state, value, verdict>>
    BY <1>1 DEF Spawn, registryVars
  <2>2. spawned' \in DOMAIN Configs /\ aborted' \in 0..(spawned' - 1)
    BY <2>1, HealthAssumption
  <2>3. at' \in [Prober -> {"new", "probe", "get", "insert", "swap", "sleep", "ended"}]
    BY <1>1 DEF Spawn
  <2> QED  BY <2>1, <2>2, <2>3
<1>2. CASE Abort
  <2>1. aborted' = spawned - 1 /\ spawned' = spawned
        /\ UNCHANGED <<answer, at, healthy, flag, state, value, verdict>>
    BY <1>2 DEF Abort, registryVars, taskVars
  <2>2. aborted' \in 0..(spawned' - 1)
    BY <2>1, HealthAssumption
  <2> QED  BY <2>1, <2>2
<1>3. ASSUME NEW p \in Prober, ProbeAnswered(p) \/ ProbeTimesOut(p) PROVE HealthTypeOK'
  BY <1>3 DEF ProbeAnswered, ProbeTimesOut, registryVars
<1>4. ASSUME NEW p \in Prober, GetFlag(p) PROVE HealthTypeOK'
  BY <1>4, ProberAddr DEF GetFlag, registryVars
<1>5. ASSUME NEW p \in Prober, InsertFlag(p) PROVE HealthTypeOK'
  BY <1>5, ProberAddr DEF InsertFlag
<1>6. ASSUME NEW p \in Prober, SwapFlag(p) PROVE HealthTypeOK'
  BY <1>6, ProberAddr DEF SwapFlag
<1>7. ASSUME NEW p \in Prober, Wake(p) \/ Ends(p) PROVE HealthTypeOK'
  BY <1>7 DEF Wake, Ends, registryVars
<1>8. ASSUME NEW target \in DOMAIN answer, NEW does \in {"ok", "error", "hangs"}, Upstream(target, does)
      PROVE  HealthTypeOK'
  BY <1>8 DEF Upstream, registryVars, taskVars
<1>9. CASE UNCHANGED healthVars
  BY <1>9 DEF healthVars, registryVars, taskVars
<1> QED  BY <1>1, <1>2, <1>3, <1>4, <1>5, <1>6, <1>7, <1>8, <1>9 DEF HealthNext, Run

LEMMA FlagsStep == HealthInv /\ [HealthNext]_healthVars => FlagsInv'
<1> SUFFICES ASSUME HealthInv, [HealthNext]_healthVars PROVE FlagsInv'
  OBVIOUS
<1>0. HealthTypeOK /\ FlagsInv /\ HealthTypeOK'
  BY TypesStep DEF HealthInv
<1>a. ASSUME UNCHANGED <<flag, registryVars>>, \A p \in Prober : at'[p] = "swap" => at[p] = "swap"
      PROVE  FlagsInv'
  BY <1>0, <1>a DEF FlagsInv, Stored, registryVars
<1>1. CASE Spawn
  BY <1>0, <1>1, <1>a DEF Spawn, HealthTypeOK
<1>2. CASE Abort
  BY <1>2, <1>a DEF Abort, taskVars
<1>3. ASSUME NEW p \in Prober, ProbeAnswered(p) \/ ProbeTimesOut(p) \/ Wake(p) \/ Ends(p) PROVE FlagsInv'
  <2>1. UNCHANGED <<flag, registryVars>>
    BY <1>3 DEF ProbeAnswered, ProbeTimesOut, Wake, Ends
  <2>2. \E l \in {"get", "probe", "ended"} : at' = [at EXCEPT ![p] = l]
    BY <1>3 DEF ProbeAnswered, ProbeTimesOut, Wake, Ends
  <2>3. \A q \in Prober : at'[q] = "swap" => at[q] = "swap"
    BY <1>0, <2>2 DEF HealthTypeOK
  <2> QED  BY <1>a, <2>1, <2>3
<1>4. ASSUME NEW p \in Prober, GetFlag(p) PROVE FlagsInv'
  <2>1. UNCHANGED <<state, value, verdict>> /\ AddrOf(p) \in Addr
    BY <1>4, ProberAddr DEF GetFlag, registryVars
  <2>2. flag' = [flag EXCEPT ![p] = state[AddrOf(p)]]
        /\ at' = [at EXCEPT ![p] = IF flag'[p] = None THEN "insert" ELSE "swap"]
    BY <1>4 DEF GetFlag
  <2>3. \A q \in Prober : at'[q] = "swap" => flag'[q] # None
    BY <1>0, <2>2 DEF HealthTypeOK, FlagsInv
  <2>4. \A q \in Prober : flag'[q] # None => flag'[q] = state[AddrOf(q)]
    BY <1>0, <2>2 DEF HealthTypeOK, FlagsInv
  <2> QED  BY <1>0, <2>1, <2>3, <2>4 DEF FlagsInv, Stored
<1>5. ASSUME NEW p \in Prober, InsertFlag(p) PROVE FlagsInv'
  <2> DEFINE b == AddrOf(p)
  <2>1. UNCHANGED <<value, verdict>> /\ b \in Addr /\ p # None
    BY <1>5, ProberAddr, HealthAssumption DEF InsertFlag
  <2>2. state' = [state EXCEPT ![b] = IF @ = None THEN p ELSE @]
        /\ flag' = [flag EXCEPT ![p] = state'[b]] /\ at' = [at EXCEPT ![p] = "swap"]
    BY <1>5 DEF InsertFlag
  <2> HIDE DEF b
  <2>3. state'[b] = IF state[b] = None THEN p ELSE state[b]
    BY <1>0, <2>1, <2>2 DEF HealthTypeOK
  <2>4. \A c \in Addr \ {b} : state'[c] = state[c]
    BY <1>0, <2>1, <2>2 DEF HealthTypeOK
  <2>5. \A c \in Addr : state[c] # None => state'[c] = state[c]
    BY <2>3, <2>4
  <2>6. \A q \in Prober : flag'[q] = IF q = p THEN state'[b] ELSE flag[q]
    BY <1>0, <2>2 DEF HealthTypeOK
  <2>7. \A q \in Prober \ {p} : at'[q] = at[q]
    BY <1>0, <2>2 DEF HealthTypeOK
  <2>8. \A c \in Addr : state'[c] = None => verdict[c] = None
    BY <1>0, <2>5 DEF FlagsInv
  <2>9. \A c \in Addr : state'[c] # None => /\ AddrOf(state'[c]) = c
                                            /\ value[state'[c]] = Stored(c)
    <3>1. CASE state[b] # None
      BY <1>0, <2>3, <2>4, <3>1 DEF FlagsInv
    <3>2. CASE state[b] = None
      <4>1. state'[b] = p /\ verdict[b] = None
        BY <1>0, <2>1, <2>3, <3>2 DEF FlagsInv
      <4>2. value[p] = TRUE /\ AddrOf(p) = b
        BY <1>0, <2>1, <3>2 DEF FlagsInv, b
      <4> QED  BY <1>0, <2>4, <4>1, <4>2 DEF FlagsInv, Stored
    <3> QED  BY <3>1, <3>2
  <2>10. \A q \in Prober : state'[AddrOf(q)] # q => value[q] = TRUE
    <3>1. ASSUME NEW q \in Prober, state'[AddrOf(q)] # q PROVE state[AddrOf(q)] # q
      BY <2>5, <3>1, ProberAddr, HealthAssumption
    <3> QED  BY <1>0, <3>1 DEF FlagsInv
  <2>11. \A q \in Prober : at'[q] = "swap" => flag'[q] # None
    BY <1>0, <2>1, <2>3, <2>6, <2>7 DEF FlagsInv
  <2>12. \A q \in Prober : flag'[q] # None => flag'[q] = state'[AddrOf(q)]
    <3>1. ASSUME NEW q \in Prober \ {p}, flag[q] # None PROVE flag[q] = state'[AddrOf(q)]
      BY <1>0, <2>5, <3>1, ProberAddr DEF FlagsInv
    <3> QED  BY <2>6, <3>1 DEF b
  <2> QED  BY <2>1, <2>8, <2>9, <2>10, <2>11, <2>12 DEF FlagsInv, Stored
<1>6. ASSUME NEW p \in Prober, SwapFlag(p) PROVE FlagsInv'
  <2> DEFINE b == AddrOf(p)
             f == flag[p]
  <2>1. UNCHANGED <<flag, state>> /\ b \in Addr
    BY <1>6, ProberAddr DEF SwapFlag
  <2>2. f # None /\ f = state[b] /\ f \in Prober /\ AddrOf(f) = b
    <3>1. f # None
      BY <1>0, <1>6, Zenon DEF SwapFlag, FlagsInv
    <3>2. f = state[b]
      BY <1>0, <3>1 DEF FlagsInv
    <3>3. f \in Prober
      BY <1>0, <3>1 DEF HealthTypeOK
    <3> QED  BY <1>0, <2>1, <3>1, <3>2, <3>3 DEF FlagsInv
  <2>3. value' = [value EXCEPT ![f] = healthy[p]] /\ verdict' = [verdict EXCEPT ![b] = healthy[p]]
        /\ at' = [at EXCEPT ![p] = "sleep"]
    BY <1>6 DEF SwapFlag
  <2> HIDE DEF b, f
  <2>4. value'[f] = healthy[p] /\ verdict'[b] = healthy[p] /\ healthy[p] \in BOOLEAN
    BY <1>0, <2>1, <2>2, <2>3 DEF HealthTypeOK
  <2>5. \A q \in Prober \ {f} : value'[q] = value[q]
    BY <1>0, <2>3 DEF HealthTypeOK
  <2>6. \A c \in Addr \ {b} : verdict'[c] = verdict[c]
    BY <1>0, <2>3 DEF HealthTypeOK
  <2>7. \A q \in Prober : at'[q] = "swap" => at[q] = "swap"
    BY <1>0, <2>3 DEF HealthTypeOK
  <2>8. \A c \in Addr : state[c] = None => verdict'[c] = None
    BY <1>0, <2>2, <2>6 DEF FlagsInv
  <2>9. Stored(b)' = healthy[p]
    BY <2>4, HealthAssumption DEF Stored
  <2>10. \A c \in Addr : state[c] # None => /\ AddrOf(state[c]) = c
                                            /\ value'[state[c]] = Stored(c)'
    <3>1. ASSUME NEW c \in Addr \ {b}, state[c] # None PROVE value'[state[c]] = Stored(c)'
      <4>1. state[c] \in Prober
        BY <1>0, <3>1 DEF HealthTypeOK
      <4>2. AddrOf(state[c]) = c /\ value[state[c]] = Stored(c)
        BY <1>0, <3>1 DEF FlagsInv
      <4>3. state[c] # f
        BY <2>2, <4>2
      <4> QED  BY <2>5, <2>6, <4>1, <4>2, <4>3 DEF Stored
    <3>2. \A c \in Addr : state[c] # None => AddrOf(state[c]) = c
      BY <1>0 DEF FlagsInv
    <3>3. value'[state[b]] = Stored(b)'
      BY <2>2, <2>4, <2>9
    <3> QED  BY <3>1, <3>2, <3>3
  <2>11. \A q \in Prober : state[AddrOf(q)] # q => value'[q] = TRUE
    BY <1>0, <2>2, <2>5 DEF FlagsInv
  <2> QED  BY <1>0, <2>1, <2>7, <2>8, <2>10, <2>11 DEF FlagsInv
<1>8. ASSUME NEW target \in DOMAIN answer, NEW does \in {"ok", "error", "hangs"}, Upstream(target, does)
      PROVE  FlagsInv'
  BY <1>8, <1>a DEF Upstream, taskVars
<1>9. CASE UNCHANGED healthVars
  BY <1>9, <1>a DEF healthVars, taskVars
<1> QED  BY <1>1, <1>2, <1>3, <1>4, <1>5, <1>6, <1>8, <1>9 DEF HealthNext, Run

\* The inductive invariant of the probers and their registry.
THEOREM HealthInvariant == HealthSpec => []HealthInv
<1>1. HealthInv /\ [HealthNext]_healthVars => HealthInv'
  BY TypesStep, FlagsStep DEF HealthInv
<1> QED  BY <1>1, HealthInitInv, PTL DEF HealthSpec

\* However many first probes of an address race for its flag, the result that
\* was stored last is the one that is read (health.rs 29-43).
THEOREM NoResultLost == HealthSpec => []LatestStored
<1>1. ASSUME HealthInv, NEW b \in Addr PROVE IsHealthy(b) <=> verdict[b] \in {TRUE, None}
  <2>1. verdict[b] \in BOOLEAN \cup {None}
    BY <1>1 DEF HealthInv, HealthTypeOK
  <2>2. CASE state[b] = None
    BY <1>1, <2>2 DEF HealthInv, FlagsInv, IsHealthy
  <2>3. CASE state[b] # None
    <3>1. value[state[b]] = Stored(b)
      BY <1>1, <2>3 DEF HealthInv, FlagsInv
    <3>2. CASE verdict[b] = None
      BY <2>3, <3>1, <3>2 DEF IsHealthy, Stored
    <3>3. CASE verdict[b] = TRUE /\ verdict[b] # None
      BY <2>3, <3>1, <3>3 DEF IsHealthy, Stored
    <3>4. CASE verdict[b] = FALSE /\ verdict[b] # None
      <4>1. ~IsHealthy(b)
        BY <2>3, <3>1, <3>4 DEF IsHealthy, Stored
      <4>2. verdict[b] \notin {TRUE, None}
        BY <3>4
      <4> QED  BY <4>1, <4>2
    <3> QED  BY <2>1, <3>2, <3>3, <3>4
  <2> QED  BY <2>2, <2>3
<1>2. HealthInv => LatestStored
  BY <1>1, Zenon DEF LatestStored
<1> QED  BY <1>2, HealthInvariant, PTL

=============================================================================
