---------------------------- MODULE MCForwarding ----------------------------
(***************************************************************************)
(* A small instance of Forwarding: one client head or several for each     *)
(* way its headers can meet a route's overrides and the proxy's own.       *)
(***************************************************************************)
EXTENDS Forwarding, TLC

CONSTANT absent

Names == HopByHop \cup Own \cup {Fingerprint, "x-y", "x-z"}
Bare == [n \in Names |-> << >>]

\* Heads: nothing; Connection over two lines that name headers of either
\* kind, the proxy's own among them; a line that cannot be read before one
\* that can; a chain over two lines, and one whose first cannot be read; all
\* the client says of itself.
Asks == [Bare EXCEPT !["connection"] = << <<"close", "x-y">>, <<"x-z", "host">> >>,
                     !["x-y"] = << <<"1">> >>, !["te"] = << <<"gzip">> >>]
Garbled == [Bare EXCEPT !["connection"] = << <<"opaque", "x-y">>, <<"x-forwarded-for">> >>,
                        !["x-y"] = << <<"1">>, <<"2">> >>, !["x-forwarded-for"] = << <<"a">> >>]
Chained == [Bare EXCEPT !["x-forwarded-for"] = << <<"a", "b">>, <<"c">> >>,
                        !["host"] = << <<"site">> >>, !["upgrade"] = << <<"h2c">> >>]
Noise == [Chained EXCEPT !["x-forwarded-for"] = << <<"opaque">>, <<"c">> >>]
Claims == [Bare EXCEPT ![Fingerprint] = << <<"f1">>, <<"f2">> >>, !["x-forwarded-proto"] = << <<"https">> >>]
Declines == [Claims EXCEPT !["connection"] = << <<Fingerprint, "x-y">> >>]
ClientHeads == {Bare, Asks, Garbled, Chained, Noise, Claims, Declines}

UpstreamHeads == {Bare, Asks, [Bare EXCEPT !["keep-alive"] = << <<"5">> >>, !["x-z"] = << <<"1">>, <<"2">> >>]}

A(h, p) == [scheme |-> "http", host |-> h, port |-> p]
U(a) == [addr |-> a, weight |-> absent]
K(n, s) == [name |-> n, spelling |-> s]
D(n, u) == [digits |-> n, unit |-> u]

None == [k \in {} |-> ""]
Sets == (K("x-y", "x-y") :> "set") @@ (K("x-z", "x-z") :> "")
Twice == (K("x-y", "x-y") :> "low") @@ (K("x-y", "X-Y") :> "") @@ (K("te", "te") :> "set")
Bold == (K("host", "host") :> "set") @@ (K(Fingerprint, "x-y") :> "set")
            @@ (K("x-forwarded-for", "x-y") :> "set") @@ (K("x-forwarded-proto", "x-y") :> "")
Hops == (K("connection", "x-y") :> "x-z") @@ (K("x-z", "x-z") :> "set")
Broken == (K("bad name", "x-y") :> "set") @@ (K("x-y", "x-y") :> "bad value")

Base == [upstream |-> <<U(A("u1", 8080)), U(A("u2", absent))>>, path |-> "absolute",
         total |-> D(2, "s"), interval |-> absent, timeout |-> absent, retries |-> absent,
         plugin |-> absent, mirror |-> [addr |-> A("m", 80), rate |-> absent],
         request |-> Sets, response |-> None]

\* Routes that pass validation, with overrides of every kind; then routes
\* that it refuses, each for a reason of its own.
Good == {Base, [Base EXCEPT !.request = Twice, !.response = Sets, !.total = D(3, "m")],
         [Base EXCEPT !.request = Bold, !.response = Hops, !.mirror = absent, !.total = absent],
         [Base EXCEPT !.request = Hops, !.response = Twice, !.total = D(100, "ms")],
         [Base EXCEPT !.upstream = <<U(A("bad host", 80))>>, !.total = D(200, "m")],
         [Base EXCEPT !.request = None, !.mirror.rate = 0, !.plugin = "filter",
                      !.interval = D(3, "s"), !.timeout = D(200, "m")]}
Bad == {[Base EXCEPT !.request = Broken], [Base EXCEPT !.response = Broken],
        [Base EXCEPT !.upstream = << >>], [Base EXCEPT !.path = "relative"],
        [Base EXCEPT !.upstream[2].addr.scheme = "https"], [Base EXCEPT !.upstream[2].addr.host = ""],
        [Base EXCEPT !.upstream[1].addr.port = 65536], [Base EXCEPT !.upstream[1].weight = 10001],
        [Base EXCEPT !.total = D(300, "s")], [Base EXCEPT !.interval = D(5, "")],
        [Base EXCEPT !.timeout = D(absent, "s")], [Base EXCEPT !.retries = 0],
        [Base EXCEPT !.mirror.addr.host = ""], [Base EXCEPT !.mirror.rate = 101]}
SomeRoutes == Good \cup Bad

\* One call that meets all that is documented of headers: its Connection names
\* a header and the route overrides Connection, it was forwarded twice before
\* it came here, and it claims a fingerprint.
Rewriting == {[Base EXCEPT !.request = Hops]}
Talkative == {[Chained EXCEPT !["connection"] = << <<"x-y">> >>, !["x-y"] = << <<"1">> >>,
                              ![Fingerprint] = << <<"f1">> >>]}
Plain == {Bare}

=============================================================================
