---------------------------- MODULE DeliveryCall ----------------------------
(***************************************************************************)
(* What the runner may rely on when it calls an adapter with one event.    *)
(* A success means that a receiver has acknowledged this event; a code     *)
(* that stands for a check before any transport means that nobody has seen *)
(* it; any other failure says nothing: the receiver may have kept it.      *)
(***************************************************************************)
CONSTANTS
    Codes,     \* the failure codes
    Untried    \* those reported before anything was sent

VARIABLES
    reached,   \* how far the event got: "nobody", "somebody", "acknowledged"
    outcome    \* "none" while the call lasts, then "success" or a code

vars == <<reached, outcome>>

Init == reached = "nobody" /\ outcome = "none"

Reach == reached = "nobody" /\ reached' = "somebody" /\ UNCHANGED outcome

\* A receiver may answer after the caller has given up.
Acknowledge == reached = "somebody" /\ reached' = "acknowledged" /\ UNCHANGED outcome

Finish(result) ==
    /\ outcome = "none" /\ outcome' = result
    /\ result = "success" => reached = "acknowledged"
    /\ result \in Untried => reached = "nobody"
    /\ UNCHANGED reached

Next == (outcome = "none" /\ Reach) \/ Acknowledge \/ (\E r \in Codes \cup {"success"} : Finish(r))

Spec == Init /\ [][Next]_vars
=============================================================================
