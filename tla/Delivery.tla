------------------------------ MODULE Delivery ------------------------------
(***************************************************************************)
(* What ProxyEngine::handle promises of a request, whatever it does to     *)
(* keep it: the request is applied once at most, its mirror copy is sent   *)
(* once at most and before it, and the answer tells how far it came.       *)
(***************************************************************************)
EXTENDS Naturals

CONSTANT Request

VARIABLES
    phase,      \* "new", "open", "answered" or "abandoned" by its client
    applied,    \* how often it reached an upstream
    copied,     \* a copy went to the mirror
    outcome     \* "none", or what its client was answered

deliveryVars == <<phase, applied, copied, outcome>>

DeliveryInit ==
    /\ phase = [r \in Request |-> "new"]
    /\ applied = [r \in Request |-> 0]
    /\ copied = [r \in Request |-> FALSE]
    /\ outcome = [r \in Request |-> "none"]

Open(r) ==
    /\ phase[r] = "new"
    /\ phase' = [phase EXCEPT ![r] = "open"]
    /\ UNCHANGED <<applied, copied, outcome>>

Copy(r) ==
    /\ phase[r] = "open" /\ applied[r] = 0 /\ ~copied[r]
    /\ copied' = [copied EXCEPT ![r] = TRUE]
    /\ UNCHANGED <<phase, applied, outcome>>

Apply(r) ==
    /\ phase[r] = "open" /\ applied[r] = 0
    /\ applied' = [applied EXCEPT ![r] = 1]
    /\ UNCHANGED <<phase, copied, outcome>>

\* A refusal comes before anything is sent, the want of an upstream before
\* the request is, a response after it; a failure may come at any time.
Conclude(r, o) ==
    /\ phase[r] = "open"
    /\ o = "refused" => applied[r] = 0 /\ ~copied[r]
    /\ o = "unserved" => applied[r] = 0
    /\ o = "response" => applied[r] = 1
    /\ phase' = [phase EXCEPT ![r] = "answered"]
    /\ outcome' = [outcome EXCEPT ![r] = o]
    /\ UNCHANGED <<applied, copied>>

Abandon(r) ==
    /\ phase[r] = "open"
    /\ phase' = [phase EXCEPT ![r] = "abandoned"]
    /\ UNCHANGED <<applied, copied, outcome>>

DeliveryNext ==
    \E r \in Request :
        \/ Open(r) \/ Copy(r) \/ Apply(r) \/ Abandon(r)
        \/ \E o \in {"refused", "unserved", "response", "failed"} : Conclude(r, o)

DeliverySpec == DeliveryInit /\ [][DeliveryNext]_deliveryVars

=============================================================================
