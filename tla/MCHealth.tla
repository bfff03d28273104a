------------------------------ MODULE MCHealth ------------------------------
(***************************************************************************)
(* A small instance of Health.                                             *)
(***************************************************************************)
EXTENDS Health

CONSTANTS a, none

\* Two routes probe one upstream at different paths; then a reload keeps one
\* of them and the other's path.
Files == << <<[check |-> "p", upstream |-> <<a>>], [check |-> "q", upstream |-> <<a>>]>>,
            <<[check |-> "q", upstream |-> <<a>>], [check |-> none, upstream |-> <<a>>]>> >>

=============================================================================
