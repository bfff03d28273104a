--------------------------- MODULE MCLoadBalancer ---------------------------
(***************************************************************************)
(* Every list of at most three upstreams over three addresses.  Weight 0,  *)
(* an absent weight (100), coprime weights and weights with a common       *)
(* divisor all meet each other.                                            *)
(***************************************************************************)
EXTENDS LoadBalancer

CONSTANTS unset

MCWeight == {unset, 0, 2, 3, 50}

=============================================================================
