---------------------------- MODULE ServerProofs ----------------------------
(***************************************************************************)
(* Proofs about Server, for any lists of listeners, any number of          *)
(* connections and any deadline of the drain.                              *)
(***************************************************************************)
EXTENDS Server, FiniteSetTheorems, TLAPS

-----------------------------------------------------------------------------
(* The inductive invariant *)

\* What is past validation is valid, and does not panic.
ValidKnown ==
    /\ validated => \A i \in Listeners : ValidListener(listeners[i])
    /\ process = "panicked" => ~validated

\* Where a connection is, and how it came there.
ConnKnown(c) ==
    /\ conn[c].at # "new" => conn[c].via \in Listeners
    /\ conn[c].seen = 0
    /\ Running => conn[c].at # "cut"
    /\ Running /\ conn[c].at = "queued" => socket[conn[c].via] = "open"
    /\ conn[c].at \in Serving =>
          LET l == listeners[conn[c].via]
          IN conn[c].verified = (Tls(c) /\ l.acme = Absent /\ l.tls_client_ca # Absent)

ToldKnown == process = "draining" => told = 1

ServerInv ==
    /\ ServerTypeOK /\ CountExact /\ ValidKnown /\ ToldKnown /\ DrainWaits
    /\ \A c \in Conn : ConnKnown(c)

-----------------------------------------------------------------------------
(* Counting handles *)

OpenSockets == {i \in Listeners : socket[i] = "open"}

LEMMA FiniteCounts ==
    ASSUME ServerTypeOK
    PROVE  /\ \A S : IsFiniteSet(At(S)) /\ Cardinality(At(S)) \in Nat
           /\ IsFiniteSet(OpenSockets) /\ Cardinality(OpenSockets) \in Nat
<1>1. listeners \in Seq(ListenerConfig)
  BY ServerAssumption DEF ServerTypeOK
<1>2. IsFiniteSet(Listeners)
  <2>1. Listeners = 1 .. Len(listeners) /\ Len(listeners) \in Nat
    BY <1>1 DEF Listeners
  <2> QED  BY <2>1, FS_Interval
<1>3. IsFiniteSet(OpenSockets)
  BY <1>2, FS_Subset DEF OpenSockets
<1>4. ASSUME NEW S PROVE IsFiniteSet(At(S))
  BY ServerAssumption, FS_Subset DEF At
<1> QED  BY <1>3, <1>4, FS_CardinalityType

\* The handles a connection holds.
Handles(at) == IF at = "accepted" THEN 1 ELSE IF at \in Serving THEN 2 ELSE 0

\* One connection moves.
ConnMoves(c, to) ==
    /\ conn' \in [Conn -> [at : Live \cup {"new", "closed", "reset", "cut"}, via : {0} \cup Listeners,
                           h2 : BOOLEAN, verified : BOOLEAN, seen : 0..1]]
    /\ conn'[c].at = to
    /\ \A x \in Conn \ {c} : conn'[x] = conn[x]

LEMMA AtMoves ==
    ASSUME ServerTypeOK, NEW c \in Conn, NEW to, ConnMoves(c, to), NEW S
    PROVE  Cardinality(At(S)') = Cardinality(At(S)) + (IF to \in S THEN 1 ELSE 0)
                                   - (IF conn[c].at \in S THEN 1 ELSE 0)
<1>1. IsFiniteSet(At(S)) /\ Cardinality(At(S)) \in Nat
  BY FiniteCounts
<1>2. At(S)' = {x \in Conn : conn'[x].at \in S}
  BY DEF At
<1>3. CASE to \in S /\ conn[c].at \notin S
  <2>1. At(S)' = At(S) \cup {c} /\ c \notin At(S)
    BY <1>2, <1>3 DEF At, ConnMoves
  <2>2. Cardinality(At(S) \cup {c}) = Cardinality(At(S)) + 1
    BY <1>1, <2>1, FS_AddElement
  <2> QED  BY <1>1, <1>3, <2>1, <2>2
<1>4. CASE to \notin S /\ conn[c].at \in S
  <2>1. At(S)' = At(S) \ {c} /\ c \in At(S)
    BY <1>2, <1>4 DEF At, ConnMoves
  <2>2. Cardinality(At(S) \ {c}) = Cardinality(At(S)) - 1
    BY <1>1, <2>1, FS_RemoveElement
  <2> QED  BY <1>1, <1>4, <2>1, <2>2
<1>5. CASE (to \in S) <=> (conn[c].at \in S)
  <2>1. At(S)' = At(S)
    BY <1>2, <1>5 DEF At, ConnMoves
  <2> QED  BY <1>1, <1>5, <2>1
<1> QED  BY <1>3, <1>4, <1>5

\* A connection that moves takes or gives back the handles it holds.
LEMMA MoveCounts ==
    ASSUME ServerTypeOK, CountExact, Running,
           NEW c \in Conn, NEW to, ConnMoves(c, to),
           UNCHANGED <<listeners, socket>>,
           strong_count' = strong_count + Handles(to) - Handles(conn[c].at)
    PROVE  CountExact' /\ strong_count' \in Nat
<1>1. /\ Cardinality(At({"accepted"})') = Cardinality(At({"accepted"}))
             + (IF to = "accepted" THEN 1 ELSE 0) - (IF conn[c].at = "accepted" THEN 1 ELSE 0)
      /\ Cardinality(At(Serving)') = Cardinality(At(Serving))
             + (IF to \in Serving THEN 1 ELSE 0) - (IF conn[c].at \in Serving THEN 1 ELSE 0)
  BY AtMoves
<1>2. OpenSockets' = OpenSockets
  BY DEF OpenSockets, Listeners
<1>3. /\ Cardinality(OpenSockets) \in Nat
      /\ Cardinality(At({"accepted"})) \in Nat /\ Cardinality(At(Serving)) \in Nat
  BY FiniteCounts
<1>4. strong_count = 1 + Cardinality(OpenSockets) + Cardinality(At({"accepted"}))
                       + 2 * Cardinality(At(Serving))
  BY DEF CountExact, OpenSockets
<1>5. strong_count' = 1 + Cardinality(OpenSockets') + Cardinality(At({"accepted"})')
                        + 2 * Cardinality(At(Serving)')
  BY <1>1, <1>2, <1>3, <1>4 DEF Handles, Serving
<1>6. /\ Cardinality(At({"accepted"})') \in Nat /\ Cardinality(At(Serving)') \in Nat
  <2>1. IsFiniteSet(At({"accepted"})') /\ IsFiniteSet(At(Serving)')
    BY ServerAssumption, FS_Subset DEF At
  <2> QED  BY <2>1, FS_CardinalityType
<1>7. CountExact'
  BY <1>5 DEF CountExact, OpenSockets
<1>8. strong_count' \in Nat
  BY <1>2, <1>3, <1>5, <1>6
<1> QED  BY <1>7, <1>8

-----------------------------------------------------------------------------
(* Steps that keep the invariant, by what they touch *)

\* A step of the process that leaves sockets and connections alone.
LEMMA ProcessStep ==
    ASSUME ServerInv, Running, Running',
           UNCHANGED <<listeners, socket, strong_count, conn, last>>,
           process' \in {"validating", "starting", "binding", "ready", "draining"} \cup Ended,
           validated' \in BOOLEAN, hup_ready' \in BOOLEAN, told' \in 0..1,
           drained' \in 0..DrainTicks, ValidKnown', ToldKnown'
    PROVE  ServerInv'
<1>1. ServerTypeOK'
  BY DEF ServerInv, ServerTypeOK, Listeners
<1>2. CountExact'
  BY DEF ServerInv, CountExact, At, Listeners
<1>3. DrainWaits'
  BY DEF Running, Ended, DrainWaits
<1>4. ASSUME NEW c \in Conn PROVE ConnKnown(c)'
  BY DEF ServerInv, ConnKnown, Tls, Listeners
<1> QED  BY <1>1, <1>2, <1>3, <1>4 DEF ServerInv

\* A step of one connection.
LEMMA ConnStep ==
    ASSUME ServerInv, Running, NEW c \in Conn, NEW to, ConnMoves(c, to),
           UNCHANGED <<mainVars, socket, drainVars>>,
           strong_count' = strong_count + Handles(to) - Handles(conn[c].at),
           ConnKnown(c)'
    PROVE  ServerInv'
<1> USE DEF mainVars, drainVars
<1>1. CountExact' /\ strong_count' \in Nat
  BY MoveCounts DEF ServerInv
<1>2. ServerTypeOK'
  BY <1>1 DEF ServerInv, ServerTypeOK, ConnMoves, Listeners
<1>3. ValidKnown' /\ ToldKnown' /\ DrainWaits'
  BY DEF ServerInv, ValidKnown, ToldKnown, DrainWaits, Listeners, Running, Ended
<1>4. ASSUME NEW x \in Conn \ {c} PROVE ConnKnown(x)'
  BY DEF ServerInv, ConnKnown, ConnMoves, Tls, Listeners, Running
<1> QED  BY <1>1, <1>2, <1>3, <1>4 DEF ServerInv

\* A step of a connection that is under way and stays what it is.
LEMMA MoveStep ==
    ASSUME ServerInv, Running, NEW c \in Conn,
           NEW to \in {"accepted", "idle", "busy", "finishing", "closed"}, NEW handles \in Int,
           Move(c, to, handles), handles = Handles(to) - Handles(conn[c].at),
           conn[c].at \in Live, to \in Serving => conn[c].at \in Serving
    PROVE  ServerInv'
<1>1. conn \in [Conn -> [at : Live \cup {"new", "closed", "reset", "cut"}, via : {0} \cup Listeners,
                         h2 : BOOLEAN, verified : BOOLEAN, seen : 0..1]]
  BY DEF ServerInv, ServerTypeOK
<1>2. ConnMoves(c, to)
  BY <1>1 DEF Move, ConnMoves, Live, Serving
<1>3. /\ conn'[c].via = conn[c].via /\ conn'[c].verified = conn[c].verified
      /\ conn'[c].seen = conn[c].seen /\ conn'[c].at = to
  BY <1>1 DEF Move
<1>4. ConnKnown(c)'
  BY <1>3 DEF Move, mainVars, ServerInv, ConnKnown, Tls, Listeners, Running, Live, Serving
<1>5. strong_count' = strong_count + Handles(to) - Handles(conn[c].at)
  BY DEF Move, ServerInv, ServerTypeOK, Handles
<1>6. UNCHANGED <<mainVars, socket, drainVars>>
  BY Zenon DEF Move
<1> QED  BY <1>2, <1>4, <1>5, <1>6, ConnStep

\* The process ends.
LEMMA EndStep ==
    ASSUME ServerInv, Running, NEW how \in Ended, End(how),
           how = "panicked" => ~validated,
           how = "returned" => strong_count <= 1 \/ drained >= DrainTicks
    PROVE  ServerInv'
<1> USE DEF End
<1>1. ServerTypeOK'
  <2>1. last' \in [Conn -> Live \cup {"new", "closed", "reset"}]
    BY DEF ServerInv, ServerTypeOK, ConnKnown
  <2>2. conn' \in [Conn -> [at : Live \cup {"new", "closed", "reset", "cut"}, via : {0} \cup Listeners,
                            h2 : BOOLEAN, verified : BOOLEAN, seen : 0..1]]
    BY DEF ServerInv, ServerTypeOK
  <2> QED  BY <2>1, <2>2 DEF ServerInv, ServerTypeOK, Listeners
<1>2. ~Running'
  BY DEF Running
<1>3. CountExact'
  BY <1>2 DEF CountExact
<1>4. ValidKnown' /\ ToldKnown'
  BY DEF ServerInv, ValidKnown, ToldKnown, Listeners, Ended
<1>5. ASSUME NEW c \in Conn PROVE ConnKnown(c)'
  <2>1. \/ conn'[c] = conn[c] /\ conn[c].at \notin Live
        \/ conn'[c] = [conn[c] EXCEPT !.at = "cut"] /\ conn[c].at \in Live
    BY DEF ServerInv, ServerTypeOK
  <2>2. conn'[c].at \notin Serving /\ conn'[c].via = conn[c].via /\ conn'[c].seen = conn[c].seen
    BY <2>1 DEF ServerInv, ServerTypeOK, Live, Serving
  <2>3. conn'[c].at # "new" => conn[c].at # "new"
    BY <2>1 DEF Live, Serving
  <2> QED  BY <1>2, <2>2, <2>3 DEF ServerInv, ConnKnown, Listeners
<1>6. DrainWaits'
  <2> SUFFICES ASSUME how = "returned", drained < DrainTicks, NEW c \in Conn
               PROVE  conn[c].at \notin Live
    BY DEF DrainWaits, ServerInv, ServerTypeOK
  <2>1. strong_count <= 1
    BY ServerAssumption DEF ServerInv, ServerTypeOK
  <2>2. /\ Cardinality(OpenSockets) = 0 /\ Cardinality(At({"accepted"})) = 0
        /\ Cardinality(At(Serving)) = 0
    BY <2>1, FiniteCounts DEF ServerInv, CountExact, OpenSockets
  <2>3. OpenSockets = {} /\ At({"accepted"}) = {} /\ At(Serving) = {}
    BY <2>2, FiniteCounts, FS_EmptySet DEF ServerInv
  <2>4. conn[c].at # "queued"
    BY <2>3 DEF ServerInv, ConnKnown, OpenSockets
  <2> QED  BY <2>3, <2>4 DEF At, Live
<1> QED  BY <1>1, <1>3, <1>4, <1>5, <1>6 DEF ServerInv

-----------------------------------------------------------------------------
(* The invariant is inductive *)

LEMMA ServerInitInv == ServerInit => ServerInv
<1> SUFFICES ASSUME ServerInit PROVE ServerInv
  OBVIOUS
<1> USE DEF ServerInit
<1>1. ServerTypeOK
  <2>1. listeners \in ListenerLists /\ told \in 0..1 /\ drained \in 0..DrainTicks
    BY ServerAssumption
  <2>2. socket \in [Listeners -> {"unbound", "open", "closed"}]
    BY DEF Listeners
  <2>3. /\ conn \in [Conn -> [at : Live \cup {"new", "closed", "reset", "cut"}, via : {0} \cup Listeners,
                              h2 : BOOLEAN, verified : BOOLEAN, seen : 0..1]]
        /\ last \in [Conn -> Live \cup {"new", "closed", "reset"}]
    OBVIOUS
  <2> QED  BY <2>1, <2>2, <2>3 DEF ServerTypeOK
<1>2. /\ OpenSockets = {} /\ At({"accepted"}) = {} /\ At(Serving) = {}
  BY DEF OpenSockets, At, Serving
<1>3. CountExact
  <2>1. strong_count = 1 /\ Cardinality({}) = 0
    BY Zenon, FS_EmptySet
  <2> QED  BY ONLY <1>2, <2>1 DEF CountExact, OpenSockets
<1>4. ValidKnown /\ ToldKnown /\ DrainWaits
  BY DEF ValidKnown, ToldKnown, DrainWaits
<1>5. \A c \in Conn : ConnKnown(c)
  BY DEF ConnKnown, Serving
<1> QED  BY <1>1, <1>3, <1>4, <1>5 DEF ServerInv

LEMMA StartupInv ==
    ASSUME ServerInv, Validate \/ Embed \/ BindMetrics \/ Ready \/ InstallHup
    PROVE  ServerInv'
<1> USE DEF Proceed, drainVars, Running, Ended
<1>1. ValidKnown /\ ToldKnown /\ ServerTypeOK
  BY DEF ServerInv
<1>2. CASE Validate
  BY <1>1, <1>2, ProcessStep DEF Validate, ValidKnown, ToldKnown, ServerTypeOK, Listeners
<1>3. CASE Embed
  BY <1>1, <1>3, ProcessStep DEF Embed, ValidKnown, ToldKnown, ServerTypeOK, Listeners
<1>4. CASE BindMetrics
  BY <1>1, <1>4, ProcessStep DEF BindMetrics, ValidKnown, ToldKnown, ServerTypeOK, Listeners
<1>5. CASE Ready
  BY <1>1, <1>5, ProcessStep DEF Ready, ValidKnown, ToldKnown, ServerTypeOK, Listeners
<1>6. CASE InstallHup
  BY <1>1, <1>6, ProcessStep DEF InstallHup, ValidKnown, ToldKnown, ServerTypeOK, Listeners
<1> QED  BY <1>2, <1>3, <1>4, <1>5, <1>6

LEMMA SigtermInv ==
    ASSUME ServerInv, Sigterm
    PROVE  ServerInv'
BY ProcessStep
DEF Sigterm, Proceed, Running, Ended, ServerInv, ServerTypeOK, ValidKnown, ToldKnown, Listeners

LEMMA TickInv ==
    ASSUME ServerInv, Tick
    PROVE  ServerInv'
<1>1. drained' \in 0..DrainTicks
  BY ServerAssumption DEF ServerInv, ServerTypeOK, Tick
<1> QED
  BY <1>1, ProcessStep
  DEF Tick, mainVars, Running, Ended, ServerInv, ServerTypeOK, ValidKnown, ToldKnown, Listeners

\* Whatever validation accepts, Server::run can start or fails to start.
LEMMA ValidStarts ==
    ASSUME NEW l, ValidListener(l)
    PROVE  ~StartPanics(l)
BY DEF ValidListener, ValidAcme, StartPanics

LEMMA EndsInv ==
    ASSUME ServerInv,
           \/ Invalid \/ BindFails \/ EarlySignal \/ Exit
           \/ \E i \in Listeners : ListenerPanics(i) \/ ListenerFails(i)
    PROVE  ServerInv'
<1> USE DEF Running, Ended
<1>1. CASE Invalid \/ BindFails \/ EarlySignal \/ (\E i \in Listeners : ListenerFails(i))
  <2>1. PICK how \in {"failed", "killed"} : End(how) /\ Running
    BY <1>1 DEF Invalid, BindFails, EarlySignal, ListenerFails, TurnOf
  <2> QED  BY <2>1, EndStep
<1>2. CASE \E i \in Listeners : ListenerPanics(i)
  <2>1. PICK i \in Listeners : ListenerPanics(i)
    BY <1>2
  <2>2. ~validated
    BY <2>1, ValidStarts DEF ServerInv, ValidKnown, ListenerPanics
  <2> QED  BY <2>1, <2>2, EndStep DEF ListenerPanics, TurnOf
<1>3. CASE Exit
  BY <1>3, EndStep DEF Exit
<1> QED  BY <1>1, <1>2, <1>3

LEMMA StartListenerInv ==
    ASSUME ServerInv, NEW i \in Listeners, StartListener(i)
    PROVE  ServerInv'
<1> USE DEF StartListener, TurnOf, mainVars, drainVars
<1>1. OpenSockets' = OpenSockets \cup {i} /\ i \notin OpenSockets
  BY DEF OpenSockets, Listeners, ServerInv, ServerTypeOK
<1>2. IsFiniteSet(OpenSockets) /\ Cardinality(OpenSockets) \in Nat
  BY FiniteCounts DEF ServerInv
<1>3. Cardinality(OpenSockets \cup {i}) = Cardinality(OpenSockets) + 1
  BY <1>1, <1>2, FS_AddElement
<1>4. /\ At({"accepted"})' = At({"accepted"}) /\ At(Serving)' = At(Serving)
      /\ Cardinality(At({"accepted"})) \in Nat /\ Cardinality(At(Serving)) \in Nat
  BY FiniteCounts DEF At, ServerInv
<1>5. Running /\ Running' /\ process' = process
  BY DEF Running, Ended
<1>6. strong_count = 1 + Cardinality(OpenSockets) + Cardinality(At({"accepted"}))
                       + 2 * Cardinality(At(Serving))
  BY <1>5 DEF ServerInv, CountExact, OpenSockets
<1>7. strong_count' = 1 + Cardinality(OpenSockets') + Cardinality(At({"accepted"})')
                        + 2 * Cardinality(At(Serving)')
  BY <1>1, <1>2, <1>3, <1>4, <1>6
<1>8. CountExact'
  BY <1>7 DEF CountExact, OpenSockets
<1>9. ServerTypeOK'
  BY DEF ServerInv, ServerTypeOK, Listeners
<1>10. ValidKnown' /\ ToldKnown' /\ DrainWaits'
  BY DEF ServerInv, ValidKnown, ToldKnown, DrainWaits, Listeners
<1>11. ASSUME NEW c \in Conn PROVE ConnKnown(c)'
  <2>1. socket'[conn[c].via] = "open" \/ socket'[conn[c].via] = socket[conn[c].via]
    BY DEF ServerInv, ServerTypeOK, Listeners
  <2> QED  BY <1>5, <2>1 DEF ServerInv, ConnKnown, Tls, Listeners
<1> QED  BY <1>8, <1>9, <1>10, <1>11 DEF ServerInv

LEMMA StopListenerInv ==
    ASSUME ServerInv, NEW i \in Listeners, StopListener(i)
    PROVE  ServerInv'
<1> USE DEF StopListener, mainVars, drainVars
<1>1. OpenSockets' = OpenSockets \ {i} /\ i \in OpenSockets
  BY DEF OpenSockets, Listeners, ServerInv, ServerTypeOK
<1>2. IsFiniteSet(OpenSockets) /\ Cardinality(OpenSockets) \in Nat
  BY FiniteCounts DEF ServerInv
<1>3. Cardinality(OpenSockets \ {i}) = Cardinality(OpenSockets) - 1
  BY <1>1, <1>2, FS_RemoveElement
<1>4. conn' \in [Conn -> [at : Live \cup {"new", "closed", "reset", "cut"}, via : {0} \cup Listeners,
                          h2 : BOOLEAN, verified : BOOLEAN, seen : 0..1]]
  BY DEF ServerInv, ServerTypeOK
<1>5. ASSUME NEW c \in Conn
      PROVE  \/ /\ conn[c].at = "queued" /\ conn[c].via = i /\ conn'[c].at = "reset"
                /\ conn'[c].via = conn[c].via /\ conn'[c].seen = conn[c].seen
             \/ conn'[c] = conn[c] /\ ~(conn[c].at = "queued" /\ conn[c].via = i)
  BY DEF ServerInv, ServerTypeOK
<1>6. At({"accepted"})' = At({"accepted"}) /\ At(Serving)' = At(Serving)
  BY <1>5 DEF At, Serving
<1>7. Cardinality(At({"accepted"})) \in Nat /\ Cardinality(At(Serving)) \in Nat
  BY FiniteCounts DEF ServerInv
<1>8. strong_count = 1 + Cardinality(OpenSockets) + Cardinality(At({"accepted"}))
                       + 2 * Cardinality(At(Serving))
  BY DEF ServerInv, CountExact, OpenSockets
<1>9. strong_count' = 1 + Cardinality(OpenSockets') + Cardinality(At({"accepted"})')
                        + 2 * Cardinality(At(Serving)')
  BY <1>1, <1>2, <1>3, <1>6, <1>7, <1>8
<1>10. CountExact'
  BY <1>9 DEF CountExact, OpenSockets
<1>11. ServerTypeOK'
  <2>1. Cardinality(OpenSockets') \in Nat
    BY <1>1, <1>2, FS_RemoveElement, FS_CardinalityType
  <2>2. strong_count' \in Nat
    BY <1>6, <1>7, <1>9, <2>1
  <2> QED  BY <1>4, <2>2 DEF ServerInv, ServerTypeOK, Listeners
<1>12. ValidKnown' /\ ToldKnown' /\ DrainWaits'
  BY DEF ServerInv, ValidKnown, ToldKnown, DrainWaits, Listeners, Running, Ended
<1>13. ASSUME NEW c \in Conn PROVE ConnKnown(c)'
  <2>1. CASE conn'[c] = conn[c] /\ ~(conn[c].at = "queued" /\ conn[c].via = i)
    <3>1. conn[c].via # i => socket'[conn[c].via] = socket[conn[c].via]
      BY DEF ServerInv, ServerTypeOK
    <3> QED  BY <2>1, <3>1 DEF ServerInv, ConnKnown, Tls, Listeners, Running
  <2>2. CASE conn'[c].at = "reset" /\ conn'[c].via = conn[c].via /\ conn'[c].seen = conn[c].seen
    BY <2>2, <1>5 DEF ServerInv, ConnKnown, Listeners, Serving
  <2> QED  BY <1>5, <2>1, <2>2
<1> QED  BY <1>10, <1>11, <1>12, <1>13 DEF ServerInv

LEMMA ConnectInv ==
    ASSUME ServerInv, NEW c \in Conn, NEW i \in Listeners, Connect(c, i)
    PROVE  ServerInv'
<1> USE DEF Connect
<1>1. conn \in [Conn -> [at : Live \cup {"new", "closed", "reset", "cut"}, via : {0} \cup Listeners,
                         h2 : BOOLEAN, verified : BOOLEAN, seen : 0..1]]
  BY DEF ServerInv, ServerTypeOK
<1>2. UNCHANGED <<mainVars, socket, drainVars>> /\ strong_count' = strong_count
  BY Zenon
<1>3. Listeners' = Listeners
  BY <1>2 DEF Listeners, mainVars
<1>4. conn'[c] = [at |-> "queued", via |-> i, h2 |-> conn[c].h2, verified |-> conn[c].verified,
                  seen |-> conn[c].seen]
  <2>1. conn' = [conn EXCEPT ![c] = [[conn[c] EXCEPT !.at = "queued"] EXCEPT !.via = i]]
    BY <1>1
  <2> QED  BY ONLY <2>1, <1>1
<1>5. ConnMoves(c, "queued")
  <2>1. \A x \in Conn \ {c} : conn'[x] = conn[x]
    BY <1>1
  <2>2. conn'[c] \in [at : Live \cup {"new", "closed", "reset", "cut"}, via : {0} \cup Listeners,
                      h2 : BOOLEAN, verified : BOOLEAN, seen : 0..1]
    BY ONLY <1>1, <1>4, c \in Conn, i \in Listeners DEF Live
  <2>3. conn' = [x \in Conn |-> conn'[x]]
    BY ONLY <1>1, Connect(c, i) DEF Connect
  <2> QED  BY ONLY <1>1, <1>4, <2>1, <2>2, <2>3 DEF ConnMoves
<1>6. ConnKnown(c)'
  BY <1>2, <1>3, <1>4 DEF ServerInv, ConnKnown, Serving
<1>7. strong_count' = strong_count + Handles("queued") - Handles(conn[c].at)
  BY <1>2 DEF Handles, Serving, ServerInv, ServerTypeOK
<1> QED  BY <1>2, <1>5, <1>6, <1>7, ConnStep

LEMMA ServeInv ==
    ASSUME ServerInv, NEW c \in Conn, Serve(c)
    PROVE  ServerInv'
<1> USE DEF Serve
<1>1. conn \in [Conn -> [at : Live \cup {"new", "closed", "reset", "cut"}, via : {0} \cup Listeners,
                         h2 : BOOLEAN, verified : BOOLEAN, seen : 0..1]]
  BY DEF ServerInv, ServerTypeOK
<1>2. UNCHANGED <<mainVars, socket, drainVars>> /\ strong_count' = strong_count + 1
  BY Zenon
<1> DEFINE l == listeners[conn[c].via]
           verified == Tls(c) /\ l.acme = Absent /\ l.tls_client_ca # Absent
<1>3. PICK h2 \in BOOLEAN :
         conn' = [conn EXCEPT ![c] = [at |-> "idle", via |-> conn[c].via, h2 |-> h2,
                                      verified |-> verified, seen |-> 0]]
  BY DEF VersionAtClone
<1>4. verified \in BOOLEAN
  BY DEF Tls
<1>5. conn'[c] = [at |-> "idle", via |-> conn[c].via, h2 |-> h2, verified |-> verified,
                  seen |-> 0]
  BY <1>1, <1>3
<1>6. Tls(c)' = Tls(c) /\ listeners' = listeners
  BY <1>2, <1>5 DEF Tls, mainVars
<1> HIDE DEF verified
<1>7. ConnMoves(c, "idle")
  <2>1. conn'[c] \in [at : Live \cup {"new", "closed", "reset", "cut"}, via : {0} \cup Listeners,
                      h2 : BOOLEAN, verified : BOOLEAN, seen : 0..1]
    <3>1. conn[c].via \in {0} \cup Listeners /\ 0 \in 0..1
      BY ONLY <1>1, c \in Conn
    <3>2. "idle" \in Live \cup {"new", "closed", "reset", "cut"}
      BY DEF Live, Serving
    <3> QED  BY ONLY <1>4, <1>5, <3>1, <3>2, h2 \in BOOLEAN
  <2> QED  BY ONLY <1>1, <1>3, <1>5, <2>1 DEF ConnMoves
<1>8. ConnKnown(c)'
  <2>1. ConnKnown(c)
    BY DEF ServerInv
  <2> QED  BY <1>2, <1>5, <1>6, <2>1 DEF verified, ConnKnown, Listeners, mainVars
<1>9. strong_count' = strong_count + Handles("idle") - Handles(conn[c].at)
  BY <1>2 DEF Handles, Serving, ServerInv, ServerTypeOK
<1> QED  BY <1>2, <1>7, <1>8, <1>9, ConnStep

LEMMA MovesInv ==
    ASSUME ServerInv, NEW c \in Conn,
           \/ Accept(c) \/ HandshakeEnds(c) \/ RequestBegins(c) \/ RequestEnds(c)
           \/ Closes(c) \/ CloseIdle(c) \/ FinishRequests(c)
    PROVE  ServerInv'
<1> USE DEF Handles, Live, Serving
<1>1. CASE Accept(c)
  BY <1>1, MoveStep DEF Accept
<1>2. CASE HandshakeEnds(c)
  BY <1>2, MoveStep DEF HandshakeEnds
<1>3. CASE RequestBegins(c) \/ RequestEnds(c)
  BY <1>3, MoveStep DEF RequestBegins, RequestEnds
<1>4. CASE Closes(c)
  BY <1>4, MoveStep DEF Closes
<1>5. CASE CloseIdle(c)
  BY <1>5, MoveStep DEF CloseIdle
<1>6. CASE FinishRequests(c)
  BY <1>6, MoveStep DEF FinishRequests, Told
<1> QED  BY <1>1, <1>2, <1>3, <1>4, <1>5, <1>6

LEMMA ServerStutterInv ==
    ASSUME ServerInv, UNCHANGED serverVars
    PROVE  ServerInv'
<1> USE DEF serverVars, mainVars, drainVars
<1>1. ServerTypeOK' /\ CountExact'
  BY DEF ServerInv, ServerTypeOK, CountExact, Listeners, At, Running
<1>2. ValidKnown' /\ ToldKnown' /\ DrainWaits'
  BY DEF ServerInv, ValidKnown, ToldKnown, DrainWaits, Listeners
<1>3. ASSUME NEW c \in Conn PROVE ConnKnown(c)'
  BY DEF ServerInv, ConnKnown, Tls, Listeners, Running
<1> QED  BY <1>1, <1>2, <1>3 DEF ServerInv

LEMMA ServerNextInv == ServerInv /\ [ServerNext]_serverVars => ServerInv'
<1> SUFFICES ASSUME ServerInv, [ServerNext]_serverVars PROVE ServerInv'
  OBVIOUS
<1>1. CASE Startup \/ Embed \/ BindFails \/ EarlySignal \/ InstallHup \/ Exit
  BY <1>1, StartupInv, EndsInv, StartListenerInv DEF Startup
<1>2. CASE Sigterm \/ Tick
  BY <1>2, SigtermInv, TickInv
<1>3. CASE \E c \in Conn : Client(c) \/ Task(c) \/ Serve(c)
  BY <1>3, ConnectInv, MovesInv, ServeInv DEF Client, Task
<1>4. CASE \E i \in Listeners : StopListener(i)
  BY <1>4, StopListenerInv
<1>5. CASE UNCHANGED serverVars
  BY <1>5, ServerStutterInv
<1> QED  BY <1>1, <1>2, <1>3, <1>4, <1>5 DEF ServerNext

-----------------------------------------------------------------------------
(* The theorems *)

\* What the process and its connections hold and know, at every step.
THEOREM ServerInvariant == ServerSpec => []ServerInv
BY ServerInitInv, ServerNextInv, PTL DEF ServerSpec

\* The drain's counter is exact however many listeners and connections come
\* and go while it is read.
THEOREM TrackerExact == ServerSpec => []CountExact
<1>1. ServerInv => CountExact
  BY DEF ServerInv
<1> QED  BY <1>1, ServerInvariant, PTL

\* A process that ends its drain early leaves nobody behind.
THEOREM DrainComplete == ServerSpec => []DrainWaits
<1>1. ServerInv => DrainWaits
  BY DEF ServerInv
<1> QED  BY <1>1, ServerInvariant, PTL

\* No configuration that validation accepts makes Server::run panic.
THEOREM ValidationSuffices == ServerSpec => []ValidatedNeverPanics
<1>1. ServerInv => ValidatedNeverPanics
  BY DEF ServerInv, ValidKnown, ValidatedNeverPanics
<1> QED  BY <1>1, ServerInvariant, PTL

\* Nobody is served past a client CA that a validated configuration names
\* without having shown a certificate.
THEOREM ClientsVerified == ServerSpec => []ClientCaEnforced
<1>1. ServerInv => ClientCaEnforced
  <2> SUFFICES ASSUME ServerInv, validated, NEW c \in Conn, conn[c].at \in Serving,
                      listeners[conn[c].via].tls_client_ca # Absent
               PROVE  conn[c].verified
    BY DEF ClientCaEnforced, At
  <2>1. conn[c].via \in Listeners /\ ValidListener(listeners[conn[c].via])
    BY DEF ServerInv, ValidKnown, ConnKnown, Serving
  <2>2. listeners[conn[c].via].acme = Absent /\ listeners[conn[c].via].protocol = "https"
    BY <2>1 DEF ValidListener, ValidAcme
  <2> QED  BY <2>2 DEF ServerInv, ConnKnown, Tls
<1> QED  BY <1>1, ServerInvariant, PTL

LEMMA OnlyTickDrains ==
    ASSUME ServerNext, drained' # drained
    PROVE  Tick
<1> USE DEF drainVars
<1>1. CASE Startup
  BY <1>1 DEF Startup, Validate, Invalid, BindMetrics, Ready, StartListener, ListenerPanics,
     ListenerFails, End
<1>2. CASE Embed \/ BindFails \/ EarlySignal \/ InstallHup \/ Sigterm \/ Exit
  BY <1>2 DEF Embed, BindFails, EarlySignal, InstallHup, Sigterm, Exit, End
<1>3. CASE \E c \in Conn : Client(c) \/ Task(c) \/ Serve(c)
  BY <1>3 DEF Client, Connect, HandshakeEnds, RequestBegins, RequestEnds, Closes, Task,
     Accept, CloseIdle, FinishRequests, Move, Serve
<1>4. CASE \E i \in Listeners : StopListener(i)
  BY <1>4 DEF StopListener
<1>5. CASE UNCHANGED serverVars
  BY <1>5 DEF serverVars
<1> QED  BY <1>1, <1>2, <1>3, <1>4, <1>5 DEF ServerNext

\* Time of the drain passes only when every connection has been told.
THEOREM EverybodyTold == ServerSpec => NobodyForgotten
<1>1. ServerInv /\ [ServerNext]_serverVars
         => [drained' > drained => At({"queued", "idle", "busy"}) = {}]_serverVars
  <2> SUFFICES ASSUME ServerInv, ServerNext, drained' > drained, NEW c \in Conn,
                      conn[c].at \in {"queued", "idle", "busy"}
               PROVE  FALSE
    BY DEF At
  <2>1. drained' # drained
    BY ServerAssumption DEF ServerInv, ServerTypeOK
  <2>2. Tick
    BY <2>1, OnlyTickDrains
  <2>3. process = "draining" /\ Quiet /\ Running
    BY <2>2 DEF Tick, Running, Ended
  <2>4. told = 1 /\ conn[c].seen = 0
    BY <2>3 DEF ServerInv, ToldKnown, ConnKnown
  <2>5. conn[c].at # "queued"
    BY <2>3 DEF ServerInv, ConnKnown, Quiet
  <2> QED  BY <2>3, <2>4, <2>5 DEF Quiet, Told
<1> QED  BY <1>1, ServerInvariant, PTL DEF ServerSpec, NobodyForgotten

=============================================================================
