------------------------------- MODULE Server -------------------------------
(***************************************************************************)
(* The standalone process of torana: main.rs and Server::run of            *)
(* torana-core/src/server.rs.  It validates the configuration, binds the   *)
(* listeners one by one while the first of them already accept, runs until *)
(* SIGTERM, and drains its connections with a deadline.                    *)
(*                                                                         *)
(* What a connection's requests do is ProxyEngine's subject; here a        *)
(* connection is idle between requests or busy with one.  strong_count is  *)
(* that of conn_tracker, the only thing the drain looks at.                *)
(***************************************************************************)
EXTENDS Settings, FiniteSets

CONSTANTS
    Conn,           \* client connections, each made at most once
    ListenerLists,  \* the lists of [[listener]] tables a file may hold
    DrainTicks      \* DRAIN_TIMEOUT

ASSUME ServerAssumption ==
    /\ ListenerLists \subseteq Seq(ListenerConfig)
    /\ Absent \notin File \cup AcmeConfig /\ DrainTicks \in Nat /\ IsFiniteSet(Conn)

VARIABLES
    listeners,      \* config.listener
    validated,      \* history: Config::validate accepted the file
    process,        \* where main is
    hup_ready,      \* the spawned watcher has installed its SIGHUP handler
    socket,         \* per listener: "unbound", "open" or "closed"
    strong_count,   \* handles of conn_tracker
    told,           \* version of the shutdown channel: 1 once true was sent
    drained,        \* ticks since the drain began
    conn,           \* per connection: where it is `at', the listener it came
                    \* `via', HTTP/2 or not, whether a client certificate was
                    \* verified, the version its shutdown receiver has `seen'
    last            \* history: where each was when the process ended

mainVars == <<listeners, validated, process, hup_ready>>
drainVars == <<told, drained, last>>
serverVars == <<mainVars, socket, strong_count, drainVars, conn>>

Listeners == DOMAIN listeners
Ended == {"failed", "panicked", "killed", "returned"}
Running == process \notin Ended
Serving == {"idle", "busy", "finishing"}
Live == {"queued", "accepted"} \cup Serving

\* shutdown_rx is cloned from the handler's, which has seen nothing.
\* Mutant: as if each connection subscribed anew.
VersionAtSubscribe == told
VersionAtClone == 0

ServerInit ==
    /\ listeners \in ListenerLists
    /\ validated = FALSE /\ process = "validating" /\ hup_ready = FALSE
    /\ socket = [i \in Listeners |-> "unbound"]
    /\ strong_count = 1 /\ told = 0 /\ drained = 0
    /\ conn = [c \in Conn |-> [at |-> "new", via |-> 0, h2 |-> FALSE, verified |-> FALSE, seen |-> 0]]
    /\ last = [c \in Conn |-> "new"]

-----------------------------------------------------------------------------
(* Startup. *)

Proceed(from, to) == process = from /\ process' = to

\* The process ends, and with it every task and socket.
End(how) ==
    /\ process' = how
    /\ last' = [c \in Conn |-> conn[c].at]
    /\ conn' = [c \in Conn |-> IF conn[c].at \in Live THEN [conn[c] EXCEPT !.at = "cut"] ELSE conn[c]]
    /\ socket' = [i \in Listeners |-> "closed"]
    /\ UNCHANGED <<listeners, validated, hup_ready, strong_count, told, drained>>

Validate ==
    /\ Proceed("validating", "starting")
    /\ listeners # << >> /\ \A i \in Listeners : ValidListener(listeners[i])
    /\ validated' = TRUE
    /\ UNCHANGED <<listeners, hup_ready, socket, strong_count, drainVars, conn>>

Invalid ==
    /\ process = "validating"
    /\ listeners = << >> \/ \E i \in Listeners : ~ValidListener(listeners[i])
    /\ End("failed")

\* A program that uses Server from the library need not validate.
Embed ==
    /\ Proceed("validating", "starting")
    /\ UNCHANGED <<listeners, validated, hup_ready, socket, strong_count, drainVars, conn>>

\* The engine and the watcher's task exist; the metrics endpoint is bound,
\* and answers /healthz from here on.
BindMetrics ==
    /\ Proceed("starting", "binding")
    /\ UNCHANGED <<listeners, validated, hup_ready, socket, strong_count, drainVars, conn>>

InstallHup ==
    /\ process \in {"starting", "binding", "ready", "draining"} /\ ~hup_ready
    /\ hup_ready' = TRUE
    /\ UNCHANGED <<listeners, validated, process, socket, strong_count, drainVars, conn>>

TurnOf(i) == process = "binding" /\ socket[i] = "unbound" /\ \A j \in 1..(i - 1) : socket[j] # "unbound"

AddrFree(i) == \A j \in 1..(i - 1) : listeners[j].addr # listeners[i].addr

\* tls_cert and tls_key .expect("validated"), unreachable!() without the feature.
StartPanics(l) ==
    /\ l.addr # "bad"
    /\ \/ l.acme # Absent /\ "acme" \notin Features
       \/ l.acme = Absent /\ l.protocol = "https" /\ Absent \in {l.tls_cert, l.tls_key}

StartFails(l) ==
    \/ l.addr = "bad"
    \/ l.acme # Absent /\ ~AcmeBuilds(l.acme)
    \/ l.acme = Absent /\ l.protocol = "https" /\ ~TlsLoads(l)

\* run_listener is spawned with a clone of the handler.
StartListener(i) ==
    /\ TurnOf(i) /\ AddrFree(i)
    /\ ~StartPanics(listeners[i]) /\ ~StartFails(listeners[i])
    /\ socket' = [socket EXCEPT ![i] = "open"]
    /\ strong_count' = strong_count + 1
    /\ UNCHANGED <<mainVars, drainVars, conn>>

ListenerPanics(i) == TurnOf(i) /\ AddrFree(i) /\ StartPanics(listeners[i]) /\ End("panicked")

ListenerFails(i) ==
    /\ TurnOf(i) /\ ~(AddrFree(i) /\ StartPanics(listeners[i]))
    /\ ~AddrFree(i) \/ StartFails(listeners[i])
    /\ End("failed")

\* An address, the metrics endpoint's included, that another process has.
BindFails == process \in {"starting", "binding"} /\ End("failed")

Ready ==
    /\ \A i \in Listeners : socket[i] # "unbound"
    /\ Proceed("binding", "ready")
    /\ UNCHANGED <<listeners, validated, hup_ready, socket, strong_count, drainVars, conn>>

\* The default disposition of SIGTERM, and of SIGHUP: the process is killed.
EarlySignal ==
    /\ process \in {"validating", "starting", "binding"} \/ (process = "ready" /\ ~hup_ready)
    /\ End("killed")

-----------------------------------------------------------------------------
(* Connections. *)

\* Any protocol but "https" is served as HTTP, once validation is past.
Tls(c) == listeners[conn[c].via].acme # Absent \/ listeners[conn[c].via].protocol = "https"

\* A step of connection c that takes, or drops, handles of the tracker.
Move(c, to, handles) ==
    /\ conn' = [conn EXCEPT ![c].at = to]
    /\ strong_count' = strong_count + handles
    /\ UNCHANGED <<mainVars, socket, drainVars>>

Connect(c, i) ==
    /\ Running /\ conn[c].at = "new" /\ socket[i] = "open"
    /\ conn' = [conn EXCEPT ![c].at = "queued", ![c].via = i]
    /\ UNCHANGED <<mainVars, socket, strong_count, drainVars>>

\* Mutant: the task of a connection gets no handle before it serves.
AcceptUncounted(c) ==
    Running /\ conn[c].at = "queued" /\ socket[conn[c].via] = "open" /\ Move(c, "accepted", 0)

\* The accept loop spawns a task with a clone of the handler.  It may still
\* do so once told to stop: select takes either branch that is ready.
Accept(c) ==
    Running /\ conn[c].at = "queued" /\ socket[conn[c].via] = "open" /\ Move(c, "accepted", 1)

\* serve_connection takes a second handle, _guard, and its own receiver.  TLS
\* comes first, for as long as the client takes: nothing limits it.
Serve(c) ==
    /\ Running /\ conn[c].at = "accepted"
    /\ \E h2 \in IF Tls(c) THEN BOOLEAN ELSE {FALSE} :
           LET l == listeners[conn[c].via]
               verified == Tls(c) /\ l.acme = Absent /\ l.tls_client_ca # Absent
           IN conn' = [conn EXCEPT ![c] = [at |-> "idle", via |-> conn[c].via, h2 |-> h2,
                                           verified |-> verified, seen |-> VersionAtClone]]
    /\ strong_count' = strong_count + 1
    /\ UNCHANGED <<mainVars, socket, drainVars>>

\* The handshake fails, or was the ACME server's validation of a challenge.
HandshakeEnds(c) == Running /\ conn[c].at = "accepted" /\ Tls(c) /\ Move(c, "closed", -1)

RequestBegins(c) == Running /\ conn[c].at = "idle" /\ Move(c, "busy", 0)

RequestEnds(c) == Running /\ conn[c].at = "busy" /\ Move(c, "idle", 0)

\* The client closes, an error occurs, or the last request of a connection
\* that was told to shut down is answered: serve_connection returns, and drops
\* the guard and the task's handler.
\* Mutant: the guard is kept.
ClosesLeaking(c) == Running /\ conn[c].at \in Serving /\ Move(c, "closed", -1)
Closes(c) == Running /\ conn[c].at \in Serving /\ Move(c, "closed", -2)

\* conn_shutdown.changed(), then graceful_shutdown().
Told(c) == conn[c].at \in {"idle", "busy"} /\ conn[c].seen # told

CloseIdle(c) == Running /\ Told(c) /\ conn[c].at = "idle" /\ ~conn[c].h2 /\ Move(c, "closed", -2)

\* HTTP/2 waits for the client to acknowledge even when no request is open.
FinishRequests(c) ==
    Running /\ Told(c) /\ (conn[c].at = "busy" \/ conn[c].h2) /\ Move(c, "finishing", 0)

-----------------------------------------------------------------------------
(* Shutdown. *)

Sigterm ==
    /\ Proceed("ready", "draining")
    /\ told' = 1
    /\ UNCHANGED <<listeners, validated, hup_ready, socket, strong_count, drained, last, conn>>

\* run_listener returns: its socket closes, and with it what is queued there.
StopListener(i) ==
    /\ Running /\ told # 0 /\ socket[i] = "open"
    /\ socket' = [socket EXCEPT ![i] = "closed"]
    /\ strong_count' = strong_count - 1
    /\ conn' = [c \in Conn |-> IF conn[c].at = "queued" /\ conn[c].via = i
                               THEN [conn[c] EXCEPT !.at = "reset"] ELSE conn[c]]
    /\ UNCHANGED <<mainVars, drainVars>>

\* A tick is long beside the steps of tasks that wait for nobody.
Quiet ==
    /\ hup_ready /\ strong_count > 1 /\ \A i \in Listeners : socket[i] # "open"
    /\ \A c \in Conn : ~Told(c) /\ ~(conn[c].at = "accepted" /\ ~Tls(c))

Tick ==
    /\ process = "draining" /\ drained < DrainTicks /\ Quiet
    /\ drained' = drained + 1
    /\ UNCHANGED <<mainVars, socket, strong_count, told, last, conn>>

\* Mutant: the drain waits for connections without a deadline.
ExitPatient == process = "draining" /\ strong_count <= 1 /\ End("returned")
Exit == process = "draining" /\ (strong_count <= 1 \/ drained >= DrainTicks) /\ End("returned")

-----------------------------------------------------------------------------
Startup ==
    \/ Validate \/ Invalid \/ BindMetrics \/ Ready
    \/ \E i \in Listeners : StartListener(i) \/ ListenerPanics(i) \/ ListenerFails(i)

Client(c) ==
    \/ \E i \in Listeners : Connect(c, i)
    \/ HandshakeEnds(c) \/ RequestBegins(c) \/ RequestEnds(c) \/ Closes(c)

Task(c) == Accept(c) \/ CloseIdle(c) \/ FinishRequests(c)

ServerNext ==
    \/ Startup \/ Embed \/ BindFails \/ EarlySignal \/ InstallHup \/ Sigterm
    \/ \E c \in Conn : Client(c) \/ Task(c) \/ Serve(c)
    \/ \E i \in Listeners : StopListener(i)
    \/ Tick \/ Exit
    \/ ~Running /\ UNCHANGED serverVars

\* tokio runs every task that is ready, and time passes.  Clients owe
\* nothing: neither a handshake nor the end of a request.
ServerSpec ==
    /\ ServerInit /\ [][ServerNext]_serverVars
    /\ WF_serverVars(Startup) /\ WF_serverVars(InstallHup)
    /\ WF_serverVars(Tick) /\ WF_serverVars(Exit)
    /\ \A c \in Conn : WF_serverVars(Task(c)) /\ WF_serverVars(Serve(c) /\ ~Tls(c))
    /\ WF_serverVars(\E i \in Listeners : StopListener(i))

-----------------------------------------------------------------------------
(* Properties. *)

\* The types of the process's state.
ServerTypeOK ==
    /\ listeners \in ListenerLists /\ validated \in BOOLEAN /\ hup_ready \in BOOLEAN
    /\ process \in {"validating", "starting", "binding", "ready", "draining"} \cup Ended
    /\ socket \in [Listeners -> {"unbound", "open", "closed"}]
    /\ strong_count \in Nat /\ told \in 0..1 /\ drained \in 0..DrainTicks
    /\ conn \in [Conn -> [at : Live \cup {"new", "closed", "reset", "cut"}, via : {0} \cup Listeners,
                          h2 : BOOLEAN, verified : BOOLEAN, seen : 0..1]]
    /\ last \in [Conn -> Live \cup {"new", "closed", "reset"}]

At(stages) == {c \in Conn : conn[c].at \in stages}

\* Run's own handle, one per accept loop and per connection that is not
\* served yet, two per connection that is: what the drain's baseline of 1
\* relies on, while all of them come and go (server.rs 486-493).
CountExact ==
    Running => strong_count = 1 + Cardinality({i \in Listeners : socket[i] = "open"})
                                + Cardinality(At({"accepted"})) + 2 * Cardinality(At(Serving))

\* The drain ends early only when nobody is left: a process that returns
\* before its deadline cuts no connection, whatever was accepted while it
\* was told to stop, handshakes included (server.rs 490).
DrainWaits ==
    process = "returned" /\ drained < DrainTicks => \A c \in Conn : last[c] \notin Live

\* No time of the drain passes over a connection that was not told: what the
\* deadline may then cut is finishing its requests, in its handshake, or began
\* to be served in that instant.  A connection accepted or served after the
\* signal is told like the others (server.rs 541, 669, 685).
NobodyForgotten ==
    [][drained' > drained => At({"queued", "idle", "busy"}) = {}]_serverVars

\* What validate accepts, Server::run's expect and unreachable never refute
\* (server.rs 463-467).
ValidatedNeverPanics == validated => process # "panicked"

\* Where a validated configuration names a client CA, every connection that is
\* served has had a client certificate verified, on whatever listener it came
\* (config.rs 213-270, server.rs 554-563, 616).
ClientCaEnforced ==
    validated => \A c \in At(Serving) :
                     listeners[conn[c].via].tls_client_ca # Absent => conn[c].verified

\* After SIGTERM the process ends, whatever its clients do (server.rs 490).
ShutdownEnds == process = "draining" ~> process = "returned"

=============================================================================
