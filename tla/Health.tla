------------------------------- MODULE Health -------------------------------
(***************************************************************************)
(* torana-core/src/health.rs: the probers of all health-checked routes,    *)
(* the flags they share, and the reload that spawns the next ones before   *)
(* it aborts the last.  The registry maps an address to a flag behind an   *)
(* Arc: a prober that has cloned one writes to it, whatever the map says   *)
(* by then.                                                                *)
(*                                                                         *)
(* Intervals and timeouts have no length here: a prober sleeps and a probe *)
(* hangs for as long as it likes, but not for ever.                        *)
(***************************************************************************)
EXTENDS Integers, Sequences

CONSTANTS
    Addr,       \* upstream addresses
    Path,       \* values of health_check.path
    None,       \* no health check, no flag
    Configs     \* the files of the successive reloads: sequences of routes,
                \* [check : a path or None, upstream : sequence of addresses]

\* One prober for every upstream on every route that opts in.
ProbersIn(g) ==
    LET Checked == {r \in DOMAIN Configs[g] : Configs[g][r].check # None}
    IN UNION {{<<g, r, i>> : i \in DOMAIN Configs[g][r].upstream} : r \in Checked}
Prober == UNION {ProbersIn(g) : g \in DOMAIN Configs}

AddrOf(p) == Configs[p[1]][p[2]].upstream[p[3]]
PathOf(p) == Configs[p[1]][p[2]].check

ASSUME HealthAssumption ==
    /\ None \notin Path /\ None \notin Prober /\ None \notin BOOLEAN
    /\ Configs \in Seq(Seq([check : Path \cup {None}, upstream : Seq(Addr)])) /\ Configs # << >>

VARIABLES
    answer,     \* what an upstream does with a probe of a path
    spawned,    \* generations of probers spawned
    aborted,    \* generations aborted
    at,         \* per prober: where it is
    healthy,    \* its local `healthy': what the probe found
    flag,       \* its local `flag': the prober that made it, or None
    state,      \* the map: the flag of each address, or None
    value,      \* what each flag holds
    verdict     \* history: per address, the result stored last, or None

taskVars == <<at, healthy, flag>>
registryVars == <<state, value, verdict>>
healthVars == <<answer, spawned, aborted, taskVars, registryVars>>

HealthInit ==
    /\ answer \in [{<<AddrOf(p), PathOf(p)>> : p \in Prober} -> {"ok", "error"}]
    /\ spawned = 1 /\ aborted = 0
    /\ at = [p \in Prober |-> IF p[1] = 1 THEN "probe" ELSE "new"]
    /\ healthy = [p \in Prober |-> FALSE] /\ flag = [p \in Prober |-> None]
    /\ state = [a \in Addr |-> None] /\ value = [p \in Prober |-> TRUE]
    /\ verdict = [a \in Addr |-> None]

-----------------------------------------------------------------------------
(* The reload. *)

\* spawn_all_probers for the new configuration.
Spawn ==
    /\ spawned < Len(Configs) /\ aborted = spawned - 1
    /\ spawned' = spawned + 1
    /\ at' = [p \in Prober |-> IF p[1] = spawned' THEN "probe" ELSE at[p]]
    /\ UNCHANGED <<answer, aborted, healthy, flag, registryVars>>

\* Mutant: the previous handles are dropped, which detaches their tasks.
AbortDropped == FALSE

\* The previous handles are aborted.
Abort ==
    /\ aborted < spawned - 1
    /\ aborted' = spawned - 1
    /\ UNCHANGED <<answer, spawned, taskVars, registryVars>>

-----------------------------------------------------------------------------
(* A prober. *)

Aborted(p) == p[1] <= aborted

\* The probe is answered: below 500 is healthy, all else is not.
ProbeAnswered(p) ==
    /\ at[p] = "probe" /\ ~Aborted(p)
    /\ answer[<<AddrOf(p), PathOf(p)>>] \in {"ok", "error"}
    /\ healthy' = [healthy EXCEPT ![p] = answer[<<AddrOf(p), PathOf(p)>>] = "ok"]
    /\ at' = [at EXCEPT ![p] = "get"]
    /\ UNCHANGED <<answer, spawned, aborted, flag, registryVars>>

ProbeTimesOut(p) ==
    /\ at[p] = "probe" /\ ~Aborted(p)
    /\ answer[<<AddrOf(p), PathOf(p)>>] = "hangs"
    /\ healthy' = [healthy EXCEPT ![p] = FALSE]
    /\ at' = [at EXCEPT ![p] = "get"]
    /\ UNCHANGED <<answer, spawned, aborted, flag, registryVars>>

\* HealthRegistry::set: the flag under the read lock, if there is one.
GetFlag(p) ==
    /\ at[p] = "get"
    /\ flag' = [flag EXCEPT ![p] = state[AddrOf(p)]]
    /\ at' = [at EXCEPT ![p] = IF flag'[p] = None THEN "insert" ELSE "swap"]
    /\ UNCHANGED <<answer, spawned, aborted, healthy, registryVars>>

\* Mutant: insert, whatever has come in since the read lock was released.
InsertFlagAnyway(p) ==
    /\ at[p] = "insert"
    /\ state' = [state EXCEPT ![AddrOf(p)] = p]
    /\ flag' = [flag EXCEPT ![p] = p]
    /\ at' = [at EXCEPT ![p] = "swap"]
    /\ UNCHANGED <<answer, spawned, aborted, healthy, value, verdict>>

\* Under the write lock, entry().or_insert_with: a new flag reads healthy.
InsertFlag(p) ==
    /\ at[p] = "insert"
    /\ state' = [state EXCEPT ![AddrOf(p)] = IF @ = None THEN p ELSE @]
    /\ flag' = [flag EXCEPT ![p] = state'[AddrOf(p)]]
    /\ at' = [at EXCEPT ![p] = "swap"]
    /\ UNCHANGED <<answer, spawned, aborted, healthy, value, verdict>>

SwapFlag(p) ==
    /\ at[p] = "swap"
    /\ value' = [value EXCEPT ![flag[p]] = healthy[p]]
    /\ verdict' = [verdict EXCEPT ![AddrOf(p)] = healthy[p]]
    /\ at' = [at EXCEPT ![p] = "sleep"]
    /\ UNCHANGED <<answer, spawned, aborted, healthy, flag, state>>

Wake(p) ==
    /\ at[p] = "sleep" /\ ~Aborted(p)
    /\ at' = [at EXCEPT ![p] = "probe"]
    /\ UNCHANGED <<answer, spawned, aborted, healthy, flag, registryVars>>

\* An aborted task ends at the next await it is parked at; until then it may
\* go on to store its result.
Ends(p) ==
    /\ Aborted(p) /\ at[p] \in {"probe", "get", "insert", "sleep"}
    /\ at' = [at EXCEPT ![p] = "ended"]
    /\ UNCHANGED <<answer, spawned, aborted, healthy, flag, registryVars>>

Run(p) ==
    \/ ProbeAnswered(p) \/ ProbeTimesOut(p)
    \/ GetFlag(p) \/ InsertFlag(p) \/ SwapFlag(p) \/ Wake(p) \/ Ends(p)

-----------------------------------------------------------------------------
Upstream(target, does) ==
    /\ answer[target] # does
    /\ answer' = [answer EXCEPT ![target] = does]
    /\ UNCHANGED <<spawned, aborted, taskVars, registryVars>>

HealthNext ==
    \/ Spawn \/ Abort
    \/ \E p \in Prober : Run(p)
    \/ \E target \in DOMAIN answer, does \in {"ok", "error", "hangs"} : Upstream(target, does)

\* Probers run, their timers fire, and a reload that began ends.
HealthSpec ==
    /\ HealthInit /\ [][HealthNext]_healthVars
    /\ WF_healthVars(Abort) /\ \A p \in Prober : WF_healthVars(Run(p))

-----------------------------------------------------------------------------
(* Properties. *)

\* The types of the probers' and the registry's state.
HealthTypeOK ==
    /\ answer \in [DOMAIN answer -> {"ok", "error", "hangs"}]
    /\ spawned \in DOMAIN Configs /\ aborted \in 0..(spawned - 1)
    /\ at \in [Prober -> {"new", "probe", "get", "insert", "swap", "sleep", "ended"}]
    /\ healthy \in [Prober -> BOOLEAN] /\ value \in [Prober -> BOOLEAN]
    /\ flag \in [Prober -> Prober \cup {None}]
    /\ state \in [Addr -> Prober \cup {None}] /\ verdict \in [Addr -> BOOLEAN \cup {None}]

\* is_healthy.
IsHealthy(a) == state[a] = None \/ value[state[a]]

\* No result is lost: an address reads as the probe of it that stored last
\* found it, whichever route's, and as healthy before the first; also when
\* several first probes of it race for its flag (health.rs 29-42).
LatestStored ==
    \A a \in Addr : IsHealthy(a) <=> verdict[a] \in {TRUE, None}

\* An upstream that goes on to pass, or to fail or hang in, every probe of the
\* running configuration is read so in the end, and for good: no prober dies of
\* a result or waits for ever, and the last word is never that of a prober
\* the reload has replaced, whatever path it probes (health.rs 63-69, 118-124,
\* reload.rs 80-86).
Converges ==
    LET Now(a) == {p \in ProbersIn(spawned) : AddrOf(p) = a}
        Steady(a, does) == /\ Now(a) # {}
                           /\ \A p \in Now(a) : answer[<<a, PathOf(p)>>] \in does
    IN \A a \in Addr :
           /\ <>[]Steady(a, {"ok"}) => <>[]IsHealthy(a)
           /\ <>[]Steady(a, {"error", "hangs"}) => <>[]~IsHealthy(a)

=============================================================================
