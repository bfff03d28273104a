-------------------------- MODULE ForwardingProofs --------------------------
(***************************************************************************)
(* Proofs about Forwarding, for any routes, any heads that clients send    *)
(* and any number of attempts.                                             *)
(***************************************************************************)
EXTENDS Forwarding, TLAPS

HeadType == [HeaderName -> Seq(Seq(STRING))]

\* The client's head as the route and the client's identity leave it.
Rewritten == Identified(Overridden(parts, route.request))

\* Everything that left the proxy was made from the client's head.
Addresses == {route.upstream[i].addr : i \in DOMAIN route.upstream}
SentBy(a) == [head |-> AttemptHead(a), addr |-> a]

ForwardingInv ==
    /\ parts \in HeadType
    /\ sent \in Seq({SentBy(a) : a \in Addresses})
    /\ mirrored # Absent => mirrored = MirrorHead
    /\ reply # Absent => \E h \in Replies : reply = ReplyHead(h)

-----------------------------------------------------------------------------
(* What the operators on heads do *)

LEMMA Names ==
    /\ HopByHop \subseteq HeaderName /\ Own \subseteq HeaderName /\ Fingerprint \in HeaderName
    /\ Fingerprint \notin HopByHop \cup Own /\ "connection" \in HeaderName \ Own
    /\ HopByHop \cap Own = {} /\ "" \notin HeaderName
BY ForwardingAssumption DEF HopByHop, Own, Fingerprint

\* A head passes an attempt or a mirror copy header by header.
LEMMA UpstreamHeadAt ==
    ASSUME NEW h, h = [n \in HeaderName |-> h[n]], NEW a
    PROVE  /\ \A n \in HeaderName \ Own :
                 UpstreamHead(h, a)[n] = IF n \in HopByHop \cup Listed(h) THEN << >> ELSE h[n]
           /\ UpstreamHead(h, a)["host"] = <<HostHeader(a)>>
           /\ UpstreamHead(h, a)["x-forwarded-proto"] = << <<proto>> >>
           /\ UpstreamHead(h, a)["x-forwarded-for"] = <<Chain(StripHopByHop(h))>>
<1> DEFINE s == StripHopByHop(h)
           t == [s EXCEPT !["host"] = <<HostHeader(a)>>]
           u == [t EXCEPT !["x-forwarded-for"] = <<Chain(t)>>]
           w == [u EXCEPT !["x-forwarded-proto"] = << <<proto>> >>]
<1>1. UpstreamHead(h, a) = w
  BY DEF UpstreamHead, Forwarded, Insert
<1>2. s = [n \in HeaderName |-> IF n \in HopByHop \cup Listed(h) THEN << >> ELSE h[n]]
  BY DEF StripHopByHop, Without
<1>3. {"host", "x-forwarded-for", "x-forwarded-proto"} \subseteq HeaderName
  BY Names DEF Own
<1> HIDE DEF s
<1>4. DOMAIN s = HeaderName
  BY <1>2
<1>5. t["x-forwarded-for"] = s["x-forwarded-for"]
  BY <1>3, <1>4
<1>6. Chain(t) = Chain(s)
  BY <1>5 DEF Chain
<1>7. ASSUME NEW n \in HeaderName \ Own PROVE w[n] = s[n]
  BY <1>3, <1>4 DEF Own
<1>8. w["host"] = <<HostHeader(a)>> /\ w["x-forwarded-for"] = <<Chain(t)>>
      /\ w["x-forwarded-proto"] = << <<proto>> >>
  BY <1>3, <1>4
<1> QED  BY <1>1, <1>2, <1>6, <1>7, <1>8 DEF s

LEMMA RewrittenAt ==
    ASSUME parts \in HeadType
    PROVE  /\ Rewritten = [n \in HeaderName |-> Rewritten[n]]
           /\ Rewritten[Fingerprint] = IF verified = Absent THEN << >> ELSE << <<verified>> >>
           /\ \A n \in HeaderName \ {Fingerprint} :
                 Rewritten[n] = Overridden(parts, route.request)[n]
<1> DEFINE o == Overridden(parts, route.request)
<1>1. DOMAIN o = HeaderName /\ o = [n \in HeaderName |-> o[n]]
  BY DEF Overridden, HeadType
<1> HIDE DEF o
<1>2. Identified(o) = [n \in HeaderName |-> Identified(o)[n]]
  BY <1>1 DEF Identified, Without, Insert
<1>3. \A n \in HeaderName \ {Fingerprint} : Identified(o)[n] = o[n]
  BY <1>1 DEF Identified, Without, Insert
<1>4. Identified(o)[Fingerprint] = IF verified = Absent THEN << >> ELSE << <<verified>> >>
  BY <1>1, Names DEF Identified, Without, Insert
<1> QED  BY <1>2, <1>3, <1>4 DEF o, Rewritten

LEMMA ClientLineTypes ==
    ASSUME parts \in HeadType, NEW l \in ToSet(parts["connection"])
    PROVE  l \in Seq(STRING)
<1> DEFINE c == parts["connection"]
<1>1. c \in Seq(Seq(STRING))
  BY Names DEF HeadType
<1> HIDE DEF c
<1>2. PICK i \in DOMAIN c : l = c[i]
  BY Zenon DEF ToSet, c
<1>3. c[i] \in Seq(STRING)
  BY <1>1, <1>2
<1> QED  BY <1>2, <1>3

\* The headers that Connection takes off an attempt are those that the lines
\* which count name.
LEMMA RewrittenListed ==
    ASSUME parts \in HeadType, NEW n \in HeaderName
    PROVE  n \in Listed(Rewritten) <=> \E l \in RouteLines : Readable(l) /\ Contains(l, n)
<1> DEFINE c == Rewritten["connection"]
<1>1. n \in Listed(Rewritten) <=> \E l \in ToSet(c) : Readable(l) /\ n \in ToSet(l)
  BY Zenon DEF Listed
<1>2. c = Overridden(parts, route.request)["connection"]
  BY RewrittenAt, Names DEF Fingerprint
<1>3. CASE Spellings(route.request, "connection") = {}
  <2>1. c = parts["connection"] /\ RouteLines = ToSet(parts["connection"])
    BY <1>2, <1>3, Names DEF Overridden, HeadType, RouteLines, ClientLines
  <2>2. ASSUME NEW l \in ToSet(parts["connection"]) PROVE n \in ToSet(l) <=> Contains(l, n)
    <3>1. l \in Seq(STRING)
      BY ClientLineTypes
    <3> QED  BY <3>1 DEF ToSet, Contains
  <2> QED  BY <1>1, <2>1, <2>2
<1>4. CASE Spellings(route.request, "connection") # {}
  <2> DEFINE v == route.request[Winner(route.request, "connection")]
  <2>1. RouteLines = {<<v>>} /\ c = IF v = "" THEN << >> ELSE << <<v>> >>
    BY <1>2, <1>4, Names DEF Overridden, HeadType, RouteLines
  <2> HIDE DEF v, c
  <2>2. (n \in ToSet(<<v>>) <=> n = v) /\ (Contains(<<v>>, n) <=> n = v)
    BY DEF ToSet, Contains
  <2>3. n # ""
    BY Names
  <2>4. CASE v = ""
    <3>1. c = << >>
      BY <2>1, <2>4, Zenon
    <3>2. ToSet(c) = {}
      BY <3>1 DEF ToSet
    <3> QED  BY <1>1, <2>1, <2>2, <2>3, <2>4, <3>2
  <2>5. CASE v # ""
    <3>1. c = << <<v>> >>
      BY <2>1, <2>5, Zenon
    <3>2. ToSet(c) = {<<v>>}
      BY <3>1 DEF ToSet
    <3> QED  BY <1>1, <2>1, <2>2, <3>2
  <2> QED  BY <2>4, <2>5
<1> QED  BY <1>3, <1>4

LEMMA ClientListed ==
    ASSUME parts \in HeadType, NEW n \in HeaderName
    PROVE  n \in Listed(parts) <=> \E l \in ClientLines : Readable(l) /\ Contains(l, n)
<1>1. n \in Listed(parts) <=> \E l \in ToSet(parts["connection"]) : Readable(l) /\ n \in ToSet(l)
  BY Zenon DEF Listed
<1>2. ASSUME NEW l \in ToSet(parts["connection"]) PROVE n \in ToSet(l) <=> Contains(l, n)
  <2>1. l \in Seq(STRING)
    BY ClientLineTypes
  <2> QED  BY <2>1 DEF ToSet, Contains
<1> QED  BY <1>1, <1>2 DEF ClientLines

\* The chain ends in the client, if the lines before it are lines.
LEMMA ChainEnds ==
    ASSUME NEW h, NEW T, h["x-forwarded-for"] \in Seq(Seq(T))
    PROVE  Last(Chain(h)) = Client
<1> DEFINE lines == h["x-forwarded-for"]
<1>1. CASE lines # << >> /\ Readable(lines[1])
  <2>1. lines[1] \in Seq(T)
    BY <1>1
  <2>2. Chain(h) = Append(lines[1], Client)
    BY <1>1 DEF Chain
  <2> HIDE DEF lines
  <2>3. Len(Append(lines[1], Client)) = Len(lines[1]) + 1
    BY <2>1
  <2>4. Append(lines[1], Client)[Len(lines[1]) + 1] = Client
    BY <2>1
  <2> QED  BY <2>2, <2>3, <2>4 DEF Last
<1>2. CASE ~(lines # << >> /\ Readable(lines[1]))
  BY <1>2 DEF Chain, Last
<1> QED  BY <1>1, <1>2

-----------------------------------------------------------------------------
(* The invariant *)

LEMMA ForwardingInitInv == ForwardingInit => ForwardingInv
<1> SUFFICES ASSUME ForwardingInit PROVE ForwardingInv
  OBVIOUS
<1>1. parts \in Heads /\ sent = << >> /\ mirrored = Absent /\ reply = Absent
  BY DEF ForwardingInit
<1>2. Heads \subseteq HeadType
  BY ForwardingAssumption DEF HeadType
<1>3. sent \in Seq({SentBy(a) : a \in Addresses})
  BY <1>1
<1> QED  BY <1>1, <1>2, <1>3 DEF ForwardingInv

\* What a head is made of does not change during the call.
LEMMA HeadsSame ==
    ASSUME UNCHANGED callVars
    PROVE  /\ parts' = parts /\ MirrorHead' = MirrorHead
           /\ {SentBy(a) : a \in Addresses}' = {SentBy(a) : a \in Addresses}
           /\ \A h \in Replies : ReplyHead(h)' = ReplyHead(h)
<1>1. route' = route /\ later' = later /\ parts' = parts /\ verified' = verified /\ proto' = proto
  BY DEF callVars
<1>0. ASSUME NEW h, NEW a PROVE UpstreamHead(h, a)' = UpstreamHead(h, a)
  BY <1>1, Zenon DEF UpstreamHead, Forwarded
<1>2. MirrorHead' = MirrorHead
  BY <1>0, <1>1, Zenon DEF MirrorHead
<1>3. ASSUME NEW a PROVE AttemptHead(a)' = AttemptHead(a)
  <2>1. ASSUME NEW h, NEW o PROVE Overridden(h, o)' = Overridden(h, o)
    BY <1>1 DEF Overridden, Winner
  <2>2. Identified(Overridden(parts, route.request))' = Identified(Overridden(parts, route.request))
    BY <1>1, <2>1 DEF Identified
  <2> QED  BY <1>0, <2>2, Zenon DEF AttemptHead
<1>4. Addresses' = Addresses
  BY <1>1 DEF Addresses
<1>5. ASSUME NEW h \in Replies PROVE ReplyHead(h)' = ReplyHead(h)
  BY <1>1 DEF ReplyHead, StripHopByHop, Without, Listed, Overridden, Winner
<1> QED  BY <1>1, <1>2, <1>3, <1>4, <1>5 DEF SentBy

LEMMA ForwardingNextInv == ForwardingInv /\ [ForwardingNext]_forwardingVars => ForwardingInv'
<1> SUFFICES ASSUME ForwardingInv, [ForwardingNext]_forwardingVars PROVE ForwardingInv'
  OBVIOUS
<1> DEFINE S == {SentBy(a) : a \in Addresses}
<1>1. parts \in HeadType /\ sent \in Seq(S) /\ (mirrored # Absent => mirrored = MirrorHead)
  BY DEF ForwardingInv
<1>2. ASSUME UNCHANGED callVars PROVE parts' \in HeadType /\ MirrorHead' = MirrorHead
  BY <1>1, <1>2, HeadsSame
<1>3. ASSUME UNCHANGED callVars, UNCHANGED sent PROVE (sent \in Seq(S))'
  BY <1>1, <1>3, HeadsSame
<1>0. ASSUME UNCHANGED callVars, UNCHANGED reply
       PROVE  reply' # Absent => \E h \in Replies : reply' = ReplyHead(h)'
  BY <1>0, HeadsSame DEF ForwardingInv
<1>4. ASSUME UNCHANGED callVars, UNCHANGED sent, UNCHANGED mirrored, UNCHANGED reply
      PROVE  ForwardingInv'
  BY <1>1, <1>2, <1>3, <1>4, <1>0 DEF ForwardingInv
<1>5. CASE Validate \/ Refuse \/ Embed \/ GiveUp
  BY <1>4, <1>5, Zenon DEF Validate, Refuse, Embed, GiveUp
<1>6. CASE SendMirror
  <2>1. mirrored' = MirrorHead
    BY <1>6 DEF SendMirror
  <2>2. UNCHANGED callVars /\ UNCHANGED sent /\ UNCHANGED reply
    BY <1>6, Zenon DEF SendMirror
  <2> QED  BY <1>2, <1>3, <1>0, <2>1, <2>2 DEF ForwardingInv
<1>7. ASSUME NEW i \in DOMAIN route.upstream, Attempt(i) PROVE ForwardingInv'
  <2> DEFINE a == route.upstream[i].addr
  <2>1. UNCHANGED callVars /\ UNCHANGED mirrored /\ UNCHANGED reply
    BY <1>7, Zenon DEF Attempt
  <2>2. sent' = Append(sent, SentBy(a))
    BY <1>7 DEF Attempt, SentBy
  <2>3. SentBy(a) \in S
    BY DEF Addresses
  <2>4. S' = S
    BY <2>1, HeadsSame
  <2>5. sent' \in Seq(S)
    <3> HIDE DEF S, a
    <3> QED  BY <1>1, <2>2, <2>3
  <2> QED  BY <1>1, <1>2, <1>0, <2>1, <2>4, <2>5 DEF ForwardingInv
<1>8. ASSUME NEW i \in DOMAIN route.upstream, AddressFails(i) PROVE ForwardingInv'
  BY <1>4, <1>8, Zenon DEF AddressFails
<1>9. ASSUME NEW h \in Replies, Respond(h) PROVE ForwardingInv'
  <2>1. UNCHANGED callVars /\ UNCHANGED sent /\ UNCHANGED mirrored
    BY <1>9, Zenon DEF Respond
  <2>2. reply' = ReplyHead(h)
    BY <1>9 DEF Respond
  <2>3. reply' = ReplyHead(h)'
    BY <2>1, <2>2, HeadsSame
  <2> QED  BY <1>1, <1>2, <1>3, <2>1, <2>3 DEF ForwardingInv
<1>10. CASE UNCHANGED forwardingVars
  BY <1>4, <1>10, Zenon DEF forwardingVars
<1> QED  BY <1>5, <1>6, <1>7, <1>8, <1>9, <1>10 DEF ForwardingNext

\* Whatever a run checks of Forwarding rests on what its heads are made from.
LEMMA ForwardingInvariant == ForwardingSpec => []ForwardingInv
BY ForwardingInitInv, ForwardingNextInv, PTL DEF ForwardingSpec

LEMMA AttemptsAre ==
    ASSUME ForwardingInv, NEW h \in Attempts
    PROVE  \E a \in Addresses : h = UpstreamHead(Rewritten, a)
<1> DEFINE S == {SentBy(a) : a \in Addresses}
<1>1. sent \in Seq(S)
  BY DEF ForwardingInv
<1>2. PICK i \in DOMAIN sent : h = sent[i].head
  BY DEF Attempts
<1>3. sent[i] \in S
  <2> HIDE DEF S
  <2> QED  BY <1>1, <1>2
<1>4. PICK a \in Addresses : sent[i] = SentBy(a)
  BY <1>3
<1> QED  BY <1>2, <1>4 DEF SentBy, AttemptHead, Rewritten

-----------------------------------------------------------------------------
(* The theorems *)

\* The fixed headers of a connection reach no upstream and no mirror, nor a
\* client whom the route does not send them; those that a line of the client's
\* Connection names reach no mirror, and no upstream unless the route overrides
\* Connection (proxy.rs 77, 89, 92-107).
THEOREM NothingOfTheHop == ForwardingSpec => []HopByHopStripped
<1>1. ASSUME ForwardingInv PROVE HopByHopStripped
  <2> DEFINE own == Spellings(route.request, "connection") = {}
  <2>1. parts \in HeadType /\ (mirrored # Absent => mirrored = MirrorHead)
    BY <1>1 DEF ForwardingInv
  <2>2. ASSUME NEW n \in HeaderName \ Own, NEW h \in Attempts,
               n \in HopByHop \/ (own /\ ~EndToEnd(n, ClientLines))
        PROVE  h[n] = << >>
    <3>1. PICK a \in Addresses : h = UpstreamHead(Rewritten, a)
      BY <1>1, AttemptsAre
    <3>2. own => RouteLines = ClientLines
      BY DEF RouteLines
    <3>3. n \in HopByHop \cup Listed(Rewritten)
      BY <2>1, <2>2, <3>2, RewrittenListed DEF EndToEnd
    <3> QED  BY <2>1, <3>1, <3>3, RewrittenAt, UpstreamHeadAt
  <2>3. ASSUME NEW n \in HeaderName \ Own, ~EndToEnd(n, ClientLines), NEW h \in Copies PROVE h[n] = << >>
    <3>1. h = UpstreamHead(parts, route.mirror.addr)
      BY <2>1, <2>3 DEF Copies, MirrorHead
    <3>2. n \in HopByHop \cup Listed(parts)
      BY <2>1, <2>3, ClientListed DEF EndToEnd
    <3>3. parts = [m \in HeaderName |-> parts[m]]
      BY <2>1 DEF HeadType
    <3> QED  BY <3>1, <3>2, <3>3, UpstreamHeadAt
  <2>4. ASSUME NEW n \in HeaderName \ Own, n \in HopByHop, Spellings(route.response, n) = {}, reply # Absent
        PROVE  reply[n] = << >>
    <3>1. PICK h \in Replies : reply = Overridden(StripHopByHop(h), route.response)
      BY <1>1, <2>4 DEF ForwardingInv, ReplyHead
    <3>2. n \in DOMAIN StripHopByHop(h) /\ StripHopByHop(h)[n] = << >>
      BY <2>4, ForwardingAssumption DEF StripHopByHop, Without
    <3> QED  BY <2>4, <3>1, <3>2 DEF Overridden
  <2> QED  BY <2>2, <2>3, <2>4 DEF HopByHopStripped
<1> QED  BY <1>1, ForwardingInvariant, PTL

\* An attempt carries the fingerprint that was verified, or none where
\* Connection names the header; no route and no client can put one of their
\* own in its place.  A copy carries the client's claim (server.rs 181, 247-261).
THEOREM IdentityProved == ForwardingSpec => []IdentityTrue
<1>1. ASSUME ForwardingInv PROVE IdentityTrue
  <2>1. parts \in HeadType /\ (mirrored # Absent => mirrored = MirrorHead)
    BY <1>1 DEF ForwardingInv
  <2>2. Fingerprint \in HeaderName \ Own /\ Fingerprint \notin HopByHop
    BY Names
  <2>3. ASSUME NEW h \in Attempts
        PROVE  h[Fingerprint] = IF verified # Absent /\ EndToEnd(Fingerprint, RouteLines)
                                THEN << <<verified>> >> ELSE << >>
    <3>1. PICK a \in Addresses : h = UpstreamHead(Rewritten, a)
      BY <1>1, AttemptsAre
    <3>2. h[Fingerprint] = IF Fingerprint \in HopByHop \cup Listed(Rewritten) THEN << >>
                           ELSE Rewritten[Fingerprint]
      BY <2>1, <2>2, <3>1, RewrittenAt, UpstreamHeadAt
    <3>3. Rewritten[Fingerprint] = IF verified = Absent THEN << >> ELSE << <<verified>> >>
      BY <2>1, RewrittenAt
    <3>4. EndToEnd(Fingerprint, RouteLines) <=> Fingerprint \notin HopByHop \cup Listed(Rewritten)
      BY <2>1, <2>2, RewrittenListed DEF EndToEnd
    <3> QED  BY <3>2, <3>3, <3>4, Zenon
  <2>4. ASSUME NEW h \in Copies
        PROVE  h[Fingerprint] = IF EndToEnd(Fingerprint, ClientLines) THEN parts[Fingerprint] ELSE << >>
    <3>1. h = UpstreamHead(parts, route.mirror.addr)
      BY <2>1, <2>4 DEF Copies, MirrorHead
    <3>2. parts = [m \in HeaderName |-> parts[m]]
      BY <2>1 DEF HeadType
    <3>3. h[Fingerprint] = IF Fingerprint \in HopByHop \cup Listed(parts) THEN << >> ELSE parts[Fingerprint]
      BY <2>2, <3>1, <3>2, UpstreamHeadAt
    <3>4. EndToEnd(Fingerprint, ClientLines) <=> Fingerprint \notin HopByHop \cup Listed(parts)
      BY <2>1, <2>2, ClientListed DEF EndToEnd
    <3> QED  BY <3>3, <3>4, Zenon
  <2> QED  BY <2>3, <2>4 DEF IdentityTrue
<1> QED  BY <1>1, ForwardingInvariant, PTL

\* A retry differs from the attempt before it in the host only, because each
\* is rebuilt from the client's head (server.rs 236-246).
THEOREM NothingInherited == ForwardingSpec => []RetriesAlike
<1>1. ASSUME ForwardingInv PROVE RetriesAlike
  <2> SUFFICES ASSUME NEW h \in Attempts, NEW g \in Attempts, NEW n \in HeaderName \ {"host"}
               PROVE  h[n] = g[n]
    BY DEF RetriesAlike
  <2>1. Rewritten = [m \in HeaderName |-> Rewritten[m]]
    BY <1>1, RewrittenAt DEF ForwardingInv
  <2>2. PICK a \in Addresses : h = UpstreamHead(Rewritten, a)
    BY <1>1, AttemptsAre
  <2>3. PICK b \in Addresses : g = UpstreamHead(Rewritten, b)
    BY <1>1, AttemptsAre
  <2>4. n \in HeaderName \ Own \/ n \in {"x-forwarded-proto", "x-forwarded-for"}
    BY DEF Own
  <2> QED  BY <2>1, <2>2, <2>3, <2>4, UpstreamHeadAt
<1> QED  BY <1>1, ForwardingInvariant, PTL

\* The chain of an attempt ends in the client, whoever wrote what is before.
LEMMA RewrittenChain ==
    ASSUME parts \in HeadType
    PROVE  Last(Chain(StripHopByHop(Rewritten))) = Client
<1> DEFINE f == "x-forwarded-for"
           s == StripHopByHop(Rewritten)
           w == Winner(route.request, f)
           v == route.request[w]
           T == STRING \cup {v}
<1>1. f \in HeaderName /\ f # Fingerprint
  BY Names DEF Own, Fingerprint
<1>2. s[f] = << >> \/ s[f] = Rewritten[f]
  BY <1>1, RewrittenAt DEF StripHopByHop, Without
<1>3. Rewritten[f] = Overridden(parts, route.request)[f]
  BY <1>1, RewrittenAt
<1>4. Rewritten[f] \in {parts[f], << >>, << <<v>> >>}
  BY <1>1, <1>3 DEF Overridden, HeadType
<1>5. parts[f] \in Seq(Seq(STRING))
  BY <1>1 DEF HeadType
<1> HIDE DEF f, s, v
<1>6. parts[f] \in Seq(Seq(T))
  BY <1>5
<1>7. << >> \in Seq(Seq(T)) /\ << <<v>> >> \in Seq(Seq(T))
  OBVIOUS
<1>8. s[f] \in Seq(Seq(T))
  BY <1>2, <1>4, <1>6, <1>7
<1> QED  BY <1>8, ChainEnds DEF s, f

\* What Connection does not take of the client's chain is kept by its first line.
LEMMA FirstLineKept ==
    ASSUME NEW h, h = [n \in HeaderName |-> h[n]], "x-forwarded-for" \notin Listed(h),
           h["x-forwarded-for"] = parts["x-forwarded-for"],
           parts["x-forwarded-for"] # << >>, Readable(parts["x-forwarded-for"][1])
    PROVE  Chain(StripHopByHop(h)) = Append(parts["x-forwarded-for"][1], Client)
<1> DEFINE f == "x-forwarded-for"
<1>1. f \in HeaderName /\ f \notin HopByHop
  BY Names DEF Own
<1>2. StripHopByHop(h)[f] = h[f]
  BY <1>1 DEF StripHopByHop, Without
<1> QED  BY <1>2 DEF Chain

\* Host, protocol and the last hop are the proxy's own on every attempt and
\* every copy, and the hops before it are the client's first line, if it can
\* be read and the route does not set it (proxy.rs 77-82, 134-143).
THEOREM OwnWordsLast == ForwardingSpec => []OwnHeadersFinal
<1>1. ASSUME ForwardingInv PROVE OwnHeadersFinal
  <2>1. parts \in HeadType /\ (mirrored # Absent => mirrored = MirrorHead)
    BY <1>1 DEF ForwardingInv
  <2>2. Rewritten = [m \in HeaderName |-> Rewritten[m]] /\ parts = [m \in HeaderName |-> parts[m]]
    BY <2>1, RewrittenAt DEF HeadType
  <2>3. ASSUME NEW i \in DOMAIN sent PROVE sent[i].head["host"] = <<HostHeader(sent[i].addr)>>
    <3> DEFINE S == {SentBy(a) : a \in Addresses}
    <3>1. sent \in Seq(S)
      BY <1>1 DEF ForwardingInv
    <3>2. sent[i] \in S
      <4> HIDE DEF S
      <4> QED  BY <3>1, <2>3
    <3>3. PICK a \in Addresses : sent[i] = SentBy(a)
      BY <3>2
    <3>4. sent[i].head = UpstreamHead(Rewritten, a) /\ sent[i].addr = a
      BY <3>3 DEF SentBy, AttemptHead, Rewritten
    <3> QED  BY <2>2, <3>4, UpstreamHeadAt
  <2>4. Last(Chain(StripHopByHop(Rewritten))) = Client
    BY <2>1, RewrittenChain
  <2>5. Last(Chain(StripHopByHop(parts))) = Client
    <3>1. "x-forwarded-for" \in HeaderName
      BY Names DEF Own
    <3>2. StripHopByHop(parts)["x-forwarded-for"] \in {<< >>, parts["x-forwarded-for"]}
      BY <2>1, <3>1 DEF HeadType, StripHopByHop, Without
    <3>3. parts["x-forwarded-for"] \in Seq(Seq(STRING)) /\ << >> \in Seq(Seq(STRING))
      BY <2>1, <3>1 DEF HeadType
    <3>4. StripHopByHop(parts)["x-forwarded-for"] \in Seq(Seq(STRING))
      BY <3>2, <3>3, Zenon
    <3> QED  BY <3>4, ChainEnds
  <2>6. ASSUME NEW h \in Attempts \cup Copies
        PROVE  \E g \in {Rewritten, parts} : \E a : h = UpstreamHead(g, a)
    BY <1>1, <2>1, AttemptsAre DEF Copies, MirrorHead
  <2>7. ASSUME NEW h \in Attempts \cup Copies
        PROVE  /\ h["x-forwarded-proto"] = << <<proto>> >>
               /\ Len(h["x-forwarded-for"]) = 1 /\ Last(h["x-forwarded-for"][1]) = Client
    <3>1. PICK g \in {Rewritten, parts} : \E a : h = UpstreamHead(g, a)
      BY <2>6
    <3>2. h["x-forwarded-for"] = <<Chain(StripHopByHop(g))>> /\ h["x-forwarded-proto"] = << <<proto>> >>
      BY <2>2, <3>1, UpstreamHeadAt
    <3>3. Last(Chain(StripHopByHop(g))) = Client
      BY <2>4, <2>5, <3>1
    <3> QED  BY <3>2, <3>3
  <2>8. ASSUME NEW h \in Copies PROVE h["host"] = <<HostHeader(route.mirror.addr)>>
    <3>1. h = UpstreamHead(parts, route.mirror.addr)
      BY <2>1, <2>8 DEF Copies, MirrorHead
    <3> QED  BY <2>2, <3>1, UpstreamHeadAt
  <2>9. "x-forwarded-for" \in HeaderName \ {Fingerprint}
    BY Names DEF Own
  <2>10. ASSUME NEW h \in Copies PROVE ExtendsChain(h, ClientLines)
    <3> SUFFICES ASSUME parts["x-forwarded-for"] # << >>, Readable(parts["x-forwarded-for"][1]),
                        EndToEnd("x-forwarded-for", ClientLines)
                 PROVE  h["x-forwarded-for"] = <<Append(parts["x-forwarded-for"][1], Client)>>
      BY DEF ExtendsChain
    <3>1. "x-forwarded-for" \notin Listed(parts)
      BY <2>1, <2>9, ClientListed DEF EndToEnd
    <3>2. h["x-forwarded-for"] = <<Chain(StripHopByHop(parts))>>
      BY <2>1, <2>2, <2>10, UpstreamHeadAt DEF Copies, MirrorHead
    <3> QED  BY <2>2, <3>1, <3>2, FirstLineKept
  <2>11. ASSUME Spellings(route.request, "x-forwarded-for") = {}, NEW h \in Attempts
         PROVE  ExtendsChain(h, RouteLines)
    <3> SUFFICES ASSUME parts["x-forwarded-for"] # << >>, Readable(parts["x-forwarded-for"][1]),
                        EndToEnd("x-forwarded-for", RouteLines)
                 PROVE  h["x-forwarded-for"] = <<Append(parts["x-forwarded-for"][1], Client)>>
      BY DEF ExtendsChain
    <3>1. "x-forwarded-for" \notin Listed(Rewritten)
      BY <2>1, <2>9, RewrittenListed DEF EndToEnd
    <3>2. PICK a \in Addresses : h = UpstreamHead(Rewritten, a)
      BY <1>1, <2>11, AttemptsAre
    <3>3. h["x-forwarded-for"] = <<Chain(StripHopByHop(Rewritten))>>
      BY <2>2, <3>2, UpstreamHeadAt
    <3>4. Rewritten["x-forwarded-for"] = parts["x-forwarded-for"]
      BY <2>1, <2>9, <2>11, RewrittenAt DEF Overridden, HeadType
    <3> QED  BY <2>2, <3>1, <3>3, <3>4, FirstLineKept
  <2> QED  BY <2>3, <2>7, <2>8, <2>10, <2>11 DEF OwnHeadersFinal
<1> QED  BY <1>1, ForwardingInvariant, PTL

\* What the spellings of a header may make of it; of several some one wins.
Lines(o, n) == {IF o[k] = "" THEN << >> ELSE << <<o[k]>> >> : k \in Spellings(o, n)}

LEMMA OverriddenAt ==
    ASSUME NEW h, NEW o, NEW n \in DOMAIN h, Spellings(o, n) # {}
    PROVE  Overridden(h, o)[n] \in Lines(o, n)
<1> DEFINE S == Spellings(o, n)
           w == Winner(o, n)
<1>1. \E k \in S : k.spelling = later \/ \A j \in S : j.spelling # later
  <2>1. S # {}
    OBVIOUS
  <2> HIDE DEF S
  <2>2. CASE \E k \in S : k.spelling = later
    BY <2>2
  <2>3. CASE \A k \in S : k.spelling # later
    BY <2>1, <2>3
  <2> QED  BY <2>2, <2>3
<1>2. w \in S
  <2>1. w = CHOOSE k \in S : k.spelling = later \/ \A j \in S : j.spelling # later
    BY DEF Winner
  <2> HIDE DEF S, w
  <2> QED  BY <1>1, <2>1
<1>3. Overridden(h, o)[n] = IF o[w] = "" THEN << >> ELSE << <<o[w]>> >>
  BY DEF Overridden
<1> HIDE DEF w
<1> QED  BY <1>2, <1>3 DEF Lines

\* The route's word stands on every attempt and response, for any overrides
\* and in whichever order a map yields them (server.rs 245, 283).
THEOREM RouteHasItsWay == ForwardingSpec => []OverridesHonoured
<1>1. ASSUME ForwardingInv PROVE OverridesHonoured
  <2>1. parts \in HeadType
    BY <1>1 DEF ForwardingInv
  <2>2. ASSUME NEW h \in Attempts, NEW n \in HeaderName \ (Own \cup {Fingerprint}),
               Spellings(route.request, n) # {}, EndToEnd(n, RouteLines)
        PROVE  h[n] \in Lines(route.request, n)
    <3>1. PICK a \in Addresses : h = UpstreamHead(Rewritten, a)
      BY <1>1, AttemptsAre
    <3>2. n \notin HopByHop \cup Listed(Rewritten)
      BY <2>1, <2>2, RewrittenListed DEF EndToEnd
    <3>3. h[n] = Overridden(parts, route.request)[n]
      BY <2>1, <3>1, <3>2, RewrittenAt, UpstreamHeadAt
    <3>4. n \in DOMAIN parts
      BY <2>1 DEF HeadType
    <3> QED  BY <2>2, <3>3, <3>4, OverriddenAt
  <2>3. ASSUME reply # Absent, NEW n \in HeaderName, Spellings(route.response, n) # {}
        PROVE  reply[n] \in Lines(route.response, n)
    <3>1. PICK h \in Replies : reply = Overridden(StripHopByHop(h), route.response)
      BY <1>1, <2>3 DEF ForwardingInv, ReplyHead
    <3>2. n \in DOMAIN StripHopByHop(h)
      BY ForwardingAssumption DEF StripHopByHop, Without
    <3> QED  BY <2>3, <3>1, <3>2, OverriddenAt
  <2> QED  BY <2>2, <2>3, Zenon DEF OverridesHonoured, Lines
<1> QED  BY <1>1, ForwardingInvariant, PTL

-----------------------------------------------------------------------------
(* What validation leaves nothing to skip of *)

RouteInv == route \in Routes /\ (validated => ValidRoute(route))

LEMMA RouteInvariant == ForwardingSpec => []RouteInv
<1>1. ForwardingInit => RouteInv
  BY DEF ForwardingInit, RouteInv
<1>2. RouteInv /\ [ForwardingNext]_forwardingVars => RouteInv'
  <2> SUFFICES ASSUME RouteInv, [ForwardingNext]_forwardingVars PROVE RouteInv'
    OBVIOUS
  <2>1. route' = route
    BY Zenon DEF ForwardingNext, Validate, Refuse, Embed, SendMirror, GiveUp, Attempt, AddressFails,
                 Respond, forwardingVars, callVars
  <2>2. validated' = validated \/ ValidRoute(route)
    BY Zenon DEF ForwardingNext, Validate, Refuse, Embed, SendMirror, GiveUp, Attempt, AddressFails,
                 Respond, forwardingVars
  <2> QED  BY <2>1, <2>2 DEF RouteInv
<1> QED  BY <1>1, <1>2, PTL DEF ForwardingSpec

\* A duration that parses counts as it is written, unless the minutes' product
\* goes through the width: what is left of it is then too small.
LEMMA DurationCounts ==
    ASSUME NEW d, NEW default, d # Absent => ParsesDuration(d)
    PROVE  WrittenCounts(d, Effective(d, default))
<1> SUFFICES ASSUME d # Absent
             PROVE  Effective(d, default) = d.digits * InMs(d.unit)
                        <=> (d.unit = "m" => d.digits * 60 < U64Mod)
  BY DEF WrittenCounts
<1>1. d.digits \in 0 .. (U64Mod - 1) /\ d.unit \in {"ms", "s", "m"}
  BY DEF ParsesDuration
<1>2. Effective(d, default) = DurationOf(d)
  BY DEF Effective
<1>3. U64Mod \in Nat
  BY ForwardingAssumption, Zenon
<1>4. d.digits \in Nat /\ U64Mod > 0
  BY <1>1, <1>3
<1>5. CASE d.unit = "ms"
  BY <1>2, <1>4, <1>5 DEF DurationOf, InMs
<1>6. CASE d.unit = "s"
  BY <1>2, <1>4, <1>6 DEF DurationOf, InMs
<1>7. CASE d.unit = "m"
  <2> DEFINE p == d.digits * 60
             r == p % U64Mod
  <2>1. p \in Nat
    BY <1>4
  <2>2. d.digits * InMs(d.unit) = p * 1000
    BY <1>4, <1>7 DEF InMs
  <2>3. DurationOf(d) = r * 1000
    BY <1>7 DEF DurationOf
  <2> HIDE DEF p
  <2>4. r \in Nat /\ r < U64Mod /\ (p < U64Mod => r = p)
    BY <1>3, <1>4, <2>1
  <2> HIDE DEF r
  <2>5. r * 1000 = p * 1000 <=> p < U64Mod
    BY <1>3, <2>1, <2>4
  <2> QED  BY <1>2, <1>7, <2>2, <2>3, <2>5 DEF p
<1> QED  BY <1>1, <1>5, <1>6, <1>7

\* After validation no override is skipped, no address of an upstream or a
\* mirror fails to parse, and every duration counts as it is written exactly
\* if its minutes do not overflow, for any route (config.rs 273-410 against
\* proxy.rs 109-131, config.rs 110-116 and health.rs 83-84).
THEOREM NothingSkipped == ForwardingSpec => []ChecksAreComplete
<1>1. ASSUME RouteInv, validated PROVE ChecksAreComplete
  <2>1. ValidRoute(route) /\ route \in Routes
    BY <1>1 DEF RouteInv
  <2>2. ASSUME NEW o \in {route.request, route.response}, NEW k \in DOMAIN o
        PROVE  k.name \in HeaderName /\ k \in Spellings(o, k.name)
    <3>1. k.name # "bad name" /\ o[k] # "bad value"
      BY <2>1, <2>2 DEF ValidRoute, ValidHeaders, ValidOverrides
    <3>2. k.name \in HeaderName \cup {"bad name"}
      BY <2>1, <2>2, ForwardingAssumption
    <3> QED  BY <3>1, <3>2 DEF Spellings
  <2>3. \A i \in DOMAIN route.upstream : ParsesAddress(route.upstream[i].addr)
    BY <2>1 DEF ValidRoute
  <2>4. route.mirror # Absent => ParsesAddress(route.mirror.addr)
    BY <2>1, Zenon DEF ValidRoute
  <2>5. \A d \in {route.total, route.interval, route.timeout} : d # Absent => ParsesDuration(d)
    BY <2>1, Zenon DEF ValidRoute
  <2>6. WrittenCounts(route.total, TotalTimeoutOf(route))
    BY <2>5, DurationCounts DEF TotalTimeoutOf
  <2>7. WrittenCounts(route.interval, IntervalOf(route))
    BY <2>5, DurationCounts DEF IntervalOf
  <2>8. WrittenCounts(route.timeout, ProbeTimeoutOf(route))
    BY <2>5, DurationCounts DEF ProbeTimeoutOf
  <2> QED  BY <2>2, <2>3, <2>4, <2>6, <2>7, <2>8, Zenon DEF ChecksAreComplete
<1>2. RouteInv => ChecksAreComplete
  BY <1>1, Zenon DEF ChecksAreComplete
<1> QED  BY <1>2, RouteInvariant, PTL

=============================================================================
