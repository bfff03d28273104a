--------------------------- MODULE MCProxyEngine ---------------------------
(***************************************************************************)
(* Small instances of ProxyEngine.                                         *)
(***************************************************************************)
EXTENDS ProxyEngine, TLC

CONSTANTS unset, none, u1, u2, checker, r1, r2

U(a, w) == [addr |-> a, weight |-> w]

Exact(l) == [wild |-> FALSE, labels |-> <<l, "site">>]
Tenant == [wild |-> TRUE, labels |-> <<"site">>]

\* Two upstreams, filtered and mirrored; one upstream, for hosts that the
\* first route may have taken; no upstream, which the engine allows although
\* Config::validate does not.
Api == [name |-> "api", host |-> Exact("api"), path |-> none, upstream |-> <<U(u1, 200), U(u2, 100)>>,
        retries |-> unset, total |-> 1, health |-> FALSE, plugin |-> checker, mirror |-> 50]
Web == [name |-> "web", host |-> Tenant, path |-> none, upstream |-> <<U(u1, unset)>>,
        retries |-> 2, total |-> unset, health |-> TRUE, plugin |-> none, mirror |-> unset]
Void == [Web EXCEPT !.name = "void", !.host = none, !.path = <<"void">>, !.upstream = << >>]
Plain == [Api EXCEPT !.plugin = none, !.mirror = none]
Checked == [Plain EXCEPT !.health = TRUE]

Core == [c1 |-> <<Api, Web, Void>>]
Single == [c1 |-> <<Plain>>]
Stubborn == [c1 |-> <<[Checked EXCEPT !.retries = 3]>>]

\* Requests for the api's host, for another of the site, and without a Host
\* header for a path that the third route serves and for one that none does.
Get(h) == [host |-> <<h, "site">>, path |-> <<"void">>, safe |-> TRUE, empty |-> TRUE]
Post(h) == [Get(h) EXCEPT !.safe = FALSE, !.empty = FALSE]
CoreArrival == {Get("api"), [Get("api") EXCEPT !.empty = FALSE], Get("web"), Post("web"),
                [Get("api") EXCEPT !.host = none, !.path = <<"void", "item">>],
                [Get("api") EXCEPT !.host = none, !.path = <<"voided">>]}
SingleArrival == {Get("api"), Post("api")}

Symmetry == Permutations(Request)

=============================================================================
