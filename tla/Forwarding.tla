----------------------------- MODULE Forwarding -----------------------------
(***************************************************************************)
(* What a forwarded request looks like: build_request, the overrides and   *)
(* the client's identity in ProxyEngine::handle, and proxy_request of      *)
(* torana-core/src/proxy.rs, for one call with its retries and its mirror  *)
(* copy, over a route as a file may state it.                              *)
(*                                                                         *)
(* A head maps each header to its field lines, and a line is a list of     *)
(* tokens; to_str fails on a line that holds Opaque.  Which upstream an    *)
(* attempt goes to and whether it may be repeated is ProxyEngine's subject.*)
(***************************************************************************)
EXTENDS Settings, SequencesExt

CONSTANTS
    HeaderName,     \* headers, in lower case
    Opaque,         \* a token that is not visible ASCII
    Routes,         \* routes a file may hold
    Heads,          \* heads clients send
    Replies,        \* heads upstreams answer with
    Client,         \* the client's address
    Identity,       \* the fingerprint of its certificate
    DefaultTotal,   \* DEFAULT_TOTAL_TIMEOUT, in milliseconds
    MaxSent         \* bound: attempts of the call

HopByHop == {"connection", "keep-alive", "proxy-authenticate", "proxy-authorization",
             "te", "trailer", "transfer-encoding", "upgrade"}
Own == {"host", "x-forwarded-for", "x-forwarded-proto"}
Fingerprint == "x-client-cert-fingerprint"

ASSUME ForwardingAssumption ==
    /\ HopByHop \cup Own \cup {Fingerprint} \subseteq HeaderName /\ "" \notin HeaderName
    /\ Heads \cup Replies \subseteq [HeaderName -> Seq(Seq(STRING))]
    /\ U64Mod \in Nat
    /\ \A r \in Routes : \A o \in {r.request, r.response} : \A k \in DOMAIN o :
           k.name \in HeaderName \cup {"bad name"}

VARIABLES
    route,          \* the route that was selected
    validated,      \* history: Config::validate accepted it
    later,          \* the spelling a HashMap of overrides yields after the others
    parts,          \* the client's head
    verified,       \* client_cert_fingerprint: Identity or Absent
    proto,          \* client_proto
    stage,          \* "file", "serving", "answered", "failed" or "refused"
    sent,           \* attempts that reached a connection: [head, addr]
    mirrored,       \* the head of the mirror copy, or Absent
    reply           \* the head of the response, or Absent

callVars == <<route, later, parts, verified, proto>>
forwardingVars == <<callVars, validated, stage, sent, mirrored, reply>>

-----------------------------------------------------------------------------
(* Heads. *)

Insert(h, name, line) == [h EXCEPT ![name] = <<line>>]
Without(h, names) == [n \in DOMAIN h |-> IF n \in names THEN << >> ELSE h[n]]
Readable(line) == ~Contains(line, Opaque)

\* The headers that the lines of Connection name.
Listed(h) == UNION {ToSet(line) : line \in {l \in ToSet(h["connection"]) : Readable(l)}}

\* Mutant: Connection goes first, and takes what it names with it unread.
StripFixedFirst(h) == LET fixed == Without(h, HopByHop) IN Without(fixed, Listed(fixed))
StripHopByHop(h) == Without(h, HopByHop \cup Listed(h))

\* The overrides of one header that can be applied, in any spelling.
Spellings(o, name) == {k \in DOMAIN o : k.name = name /\ o[k] # "bad value"}
Winner(o, name) == CHOOSE k \in Spellings(o, name) :
                       k.spelling = later \/ \A j \in Spellings(o, name) : j.spelling # later

\* apply_header_overrides: each valid one replaces whatever was there, an
\* empty value removes it, and of two spellings the later one stands.
Overridden(h, o) ==
    [n \in DOMAIN h |->
        IF Spellings(o, n) = {} THEN h[n]
        ELSE IF o[Winner(o, n)] = "" THEN << >> ELSE << <<o[Winner(o, n)]>> >>]

Identified(h) ==
    IF verified = Absent THEN Without(h, {Fingerprint}) ELSE Insert(h, Fingerprint, <<verified>>)

\* The first line of X-Forwarded-For, if it can be read, and the client.
Chain(h) ==
    LET lines == h["x-forwarded-for"]
    IN IF lines # << >> /\ Readable(lines[1]) THEN Append(lines[1], Client) ELSE <<Client>>

\* Mutant: the chain is added as one more line.
ForwardedAppended(h) == [h EXCEPT !["x-forwarded-for"] = Append(@, <<Client>>),
                                  !["x-forwarded-proto"] = << <<proto>> >>]
Forwarded(h) == Insert(Insert(h, "x-forwarded-for", Chain(h)), "x-forwarded-proto", <<proto>>)

\* "host:port", where no port means 80.
HostHeader(a) == <<a.host, IF a.port \in {Absent, 80} THEN "80" ELSE "other port">>

\* proxy_request, up to the client's pool.
UpstreamHead(h, a) == Forwarded(Insert(StripHopByHop(h), "host", HostHeader(a)))

\* The head of an attempt: every attempt begins from the client's.
\* Mutant: a retry begins from what the last attempt sent.
AttemptHeadReused(a) ==
    LET h == IF sent = << >> THEN parts ELSE Last(sent).head
    IN UpstreamHead(Identified(Overridden(h, route.request)), a)
\* Mutant: the client's identity is set before the overrides.
AttemptHeadEarly(a) == UpstreamHead(Overridden(Identified(parts), route.request), a)
AttemptHead(a) == UpstreamHead(Identified(Overridden(parts, route.request)), a)

\* The mirror copy is the client's head: no override, no identity.
MirrorHead == UpstreamHead(parts, route.mirror.addr)

\* Mutant: the overrides come first.
ReplyHeadEarly(h) == StripHopByHop(Overridden(h, route.response))
ReplyHead(h) == Overridden(StripHopByHop(h), route.response)

\* A duration that is absent or does not parse is the default, in milliseconds.
Effective(d, default) == IF d # Absent /\ ParsesDuration(d) THEN DurationOf(d) ELSE default

TotalTimeoutOf(r) == Effective(r.total, DefaultTotal)
IntervalOf(r) == Effective(r.interval, 10000)
ProbeTimeoutOf(r) == Effective(r.timeout, 2000)

-----------------------------------------------------------------------------
(* One call. *)

ForwardingInit ==
    /\ route \in Routes /\ parts \in Heads /\ later \in {"X-Y", "x-y"}
    /\ verified \in {Identity, Absent} /\ proto \in {"http", "https"}
    /\ verified # Absent => proto = "https"
    /\ validated = FALSE /\ stage = "file"
    /\ sent = << >> /\ mirrored = Absent /\ reply = Absent

Validate ==
    /\ stage = "file" /\ ValidRoute(route)
    /\ stage' = "serving" /\ validated' = TRUE
    /\ UNCHANGED <<callVars, sent, mirrored, reply>>

Refuse ==
    /\ stage = "file" /\ ~ValidRoute(route)
    /\ stage' = "refused"
    /\ UNCHANGED <<callVars, validated, sent, mirrored, reply>>

\* A program that embeds the engine need not validate.
Embed ==
    /\ stage = "file"
    /\ stage' = "serving"
    /\ UNCHANGED <<callVars, validated, sent, mirrored, reply>>

\* The address has a host and a port, and a URI can hold them.
Sendable(a) == ParsesAddress(a) /\ a.host # "bad host"

\* The copy's task runs beside the call and may outlast it.
SendMirror ==
    /\ stage \in {"serving", "answered", "failed"} /\ mirrored = Absent
    /\ route.mirror # Absent /\ route.mirror.rate # 0 /\ Sendable(route.mirror.addr)
    /\ mirrored' = MirrorHead
    /\ UNCHANGED <<callVars, validated, stage, sent, reply>>

Attempt(i) ==
    /\ stage = "serving" /\ Len(sent) < MaxSent
    /\ LET a == route.upstream[i].addr
       IN Sendable(a) /\ sent' = Append(sent, [head |-> AttemptHead(a), addr |-> a])
    /\ UNCHANGED <<callVars, validated, stage, mirrored, reply>>

\* No connection error: the call is not retried.
AddressFails(i) ==
    /\ stage = "serving" /\ ~Sendable(route.upstream[i].addr)
    /\ stage' = "failed"
    /\ UNCHANGED <<callVars, validated, sent, mirrored, reply>>

Respond(h) ==
    /\ stage = "serving" /\ sent # << >>
    /\ stage' = "answered" /\ reply' = ReplyHead(h)
    /\ UNCHANGED <<callVars, validated, sent, mirrored>>

GiveUp ==
    /\ stage = "serving" /\ (sent # << >> \/ route.upstream = << >>)
    /\ stage' = "failed"
    /\ UNCHANGED <<callVars, validated, sent, mirrored, reply>>

ForwardingNext ==
    \/ Validate \/ Refuse \/ Embed \/ SendMirror \/ GiveUp
    \/ \E i \in DOMAIN route.upstream : Attempt(i) \/ AddressFails(i)
    \/ \E h \in Replies : Respond(h)

ForwardingSpec == ForwardingInit /\ [][ForwardingNext]_forwardingVars

-----------------------------------------------------------------------------
(* Properties. *)

Attempts == {sent[i].head : i \in DOMAIN sent}
Copies == IF mirrored = Absent THEN {} ELSE {mirrored}

\* The lines of Connection that count: the client's, or for an attempt the
\* route's instead.
ClientLines == ToSet(parts["connection"])
RouteLines == IF Spellings(route.request, "connection") = {} THEN ClientLines
              ELSE {<<route.request[Winner(route.request, "connection")]>>}
EndToEnd(name, lines) == name \notin HopByHop /\ \A l \in lines : Readable(l) => ~Contains(l, name)

\* Nothing of the client's own connection goes on to a mirror, nor to an
\* upstream: neither the headers that always are of it nor those that a line
\* of the client's Connection names, in whichever line of several.  On a route
\* that overrides Connection attempts lose the former only: the client's lines
\* are gone before they are read (HeadersAsDocumented).  Of the upstream's
\* connection the client sees what the route sets (proxy.rs 77, 89, 92-107).
HopByHopStripped ==
    \A n \in HeaderName \ Own :
        /\ ~EndToEnd(n, ClientLines) =>
               /\ \A h \in Copies : h[n] = << >>
               /\ Spellings(route.request, "connection") = {} => \A h \in Attempts : h[n] = << >>
        /\ n \in HopByHop => \A h \in Attempts : h[n] = << >>
        /\ n \in HopByHop /\ Spellings(route.response, n) = {} /\ reply # Absent => reply[n] = << >>

\* An attempt carries the fingerprint that was verified, once, and no other,
\* whatever the client claims and the route sets; but nothing when Connection
\* names the header, which lets a client withhold who it is.  A mirror copy is
\* no attempt: it carries what the client claims (HeadersAsDocumented) and
\* nothing that was verified (server.rs 181, 247-261).
IdentityTrue ==
    /\ \A h \in Attempts :
           h[Fingerprint] = IF verified # Absent /\ EndToEnd(Fingerprint, RouteLines)
                            THEN << <<verified>> >> ELSE << >>
    /\ \A h \in Copies :
           h[Fingerprint] = IF EndToEnd(Fingerprint, ClientLines) THEN parts[Fingerprint] ELSE << >>

\* Of the client's chain the first line is kept, if it can be read, with the
\* client's address after it; any further line is lost (HeadersAsDocumented).
ExtendsChain(h, lines) ==
    LET chain == parts["x-forwarded-for"]
    IN  chain # << >> /\ Readable(chain[1]) /\ EndToEnd("x-forwarded-for", lines) =>
            h["x-forwarded-for"] = <<Append(chain[1], Client)>>

\* Host, protocol and the last hop of the chain are the proxy's own words on
\* every attempt and copy, one line each, whatever the client and the route
\* say of them; and what comes before the last hop is the client's own first
\* line where the route does not set it (proxy.rs 77-82, 134-143).
OwnHeadersFinal ==
    /\ \A i \in DOMAIN sent : sent[i].head["host"] = <<HostHeader(sent[i].addr)>>
    /\ \A h \in Copies :
           h["host"] = <<HostHeader(route.mirror.addr)>> /\ ExtendsChain(h, ClientLines)
    /\ Spellings(route.request, "x-forwarded-for") = {} =>
           \A h \in Attempts : ExtendsChain(h, RouteLines)
    /\ \A h \in Attempts \cup Copies :
           /\ h["x-forwarded-proto"] = << <<proto>> >>
           /\ Len(h["x-forwarded-for"]) = 1 /\ Last(h["x-forwarded-for"][1]) = Client

\* The attempts of a call differ in the host only: a retry inherits nothing
\* from the attempt before it (server.rs 236-246).
RetriesAlike ==
    \A h, g \in Attempts, n \in HeaderName \ {"host"} : h[n] = g[n]

\* The route has its way with every header that is neither the proxy's own
\* nor of the connection, on every attempt; and with every header of the
\* response (server.rs 245, 283).
OverridesHonoured ==
    LET Lines(o, n) == {IF o[k] = "" THEN << >> ELSE << <<o[k]>> >> : k \in Spellings(o, n)}
        Set(o, n) == Spellings(o, n) # {}
    IN /\ \A h \in Attempts, n \in HeaderName \ (Own \cup {Fingerprint}) :
              Set(route.request, n) /\ EndToEnd(n, RouteLines) => h[n] \in Lines(route.request, n)
       /\ reply # Absent => \A n \in HeaderName :
              Set(route.response, n) => reply[n] \in Lines(route.response, n)

InMs(unit) == CASE unit = "ms" -> 1 [] unit = "s" -> 1000 [] unit = "m" -> 60000

\* What is written counts unless its minutes overflow, and then never.
WrittenCounts(d, effective) ==
    d # Absent =>
        (effective = d.digits * InMs(d.unit) <=> (d.unit = "m" => d.digits * 60 < U64Mod))

\* Validation leaves the defensive branches behind it nothing to do: no
\* override is skipped, no address of an upstream or a mirror fails to parse,
\* and of the timeout, the probes' interval and theirs each counts as it is
\* written (proxy.rs 109-111, config.rs 111-116, health.rs 83-84).  Two faults
\* get past it: minutes that overflow, which count as less, and a host that
\* parses but that no URI can hold, whose attempts all fail (AddressFails).
ChecksAreComplete ==
    validated =>
        /\ \A o \in {route.request, route.response} : \A k \in DOMAIN o :
               k.name \in HeaderName /\ k \in Spellings(o, k.name)
        /\ \A i \in DOMAIN route.upstream : ParsesAddress(route.upstream[i].addr)
        /\ route.mirror # Absent => ParsesAddress(route.mirror.addr)
        /\ WrittenCounts(route.total, TotalTimeoutOf(route))
        /\ WrittenCounts(route.interval, IntervalOf(route))
        /\ WrittenCounts(route.timeout, ProbeTimeoutOf(route))

-----------------------------------------------------------------------------
(* What the documentation says and the code does not do *)

\* README.md:32 "strips hop-by-hop headers": the client's, wherever they go.
ClientHopsStripped ==
    \A n \in HeaderName \ Own, h \in Attempts \cup Copies :
        ~EndToEnd(n, ClientLines) => h[n] = << >>

\* README.md:32 "appends to any client-supplied X-Forwarded-For rather than
\* replacing it".
ChainAppended ==
    \A line \in ToSet(parts["x-forwarded-for"]), h \in Attempts \cup Copies :
        ToSet(line) \subseteq ToSet(h["x-forwarded-for"][1])

\* README.md:159 "That header is always stripped from the client's original
\* request first, so a client ... can never spoof it"; README.md:24 calls a
\* mirror "a second upstream".
ClaimStripped ==
    \A h \in Attempts \cup Copies : ToSet(h[Fingerprint]) \subseteq {<<verified>>}

\* The three together, of a call that has been answered and its copy sent: all
\* that left the proxy for it is there to be judged.
HeadersAsDocumented ==
    validated /\ reply # Absent /\ mirrored # Absent =>
        ClientHopsStripped /\ ChainAppended /\ ClaimStripped

=============================================================================
