------------------------------ MODULE MCReload ------------------------------
(***************************************************************************)
(* Small instances of Reload: an edit that renames the route, drops its    *)
(* plugin and its health check and moves it to another upstream, one that  *)
(* names a plugin that does not load, one that only drops the plugin and   *)
(* one that only drops the health check.                                   *)
(* An attempt's timer may fire at once: ticks before it add nothing here.  *)
(***************************************************************************)
EXTENDS Reload

CONSTANTS unset, none, u1, u2, checker, broken, r1

Api == [name |-> "api", host |-> none, path |-> none,
        upstream |-> <<[addr |-> u1, weight |-> unset]>>,
        retries |-> unset, total |-> 0, health |-> TRUE, plugin |-> checker, mirror |-> none]
Web == [name |-> "web", host |-> none, path |-> none,
        upstream |-> <<[addr |-> u2, weight |-> unset]>>,
        retries |-> unset, total |-> 0, health |-> FALSE, plugin |-> none, mirror |-> none]
Bare == [Api EXCEPT !.plugin = none]
Faulty == [Api EXCEPT !.plugin = broken]

\* The first configuration's calls retry, on the one upstream it has.
MCConfig == [c1 |-> <<[Api EXCEPT !.retries = 2]>>, c2 |-> <<Web>>,
             c3 |-> <<Faulty, Web>>, c4 |-> <<Bare>>]

\* The file of an operator who only gives up the health check.
MCUnprobed == [c1 |-> <<Api>>, c2 |-> <<[Api EXCEPT !.health = FALSE]>>]

MCArrival == {[host |-> <<"site">>, path |-> << >>, safe |-> TRUE, empty |-> TRUE]}

=============================================================================
