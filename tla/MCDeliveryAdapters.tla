------------------------- MODULE MCDeliveryAdapters -------------------------
(* A small instance of DeliveryAdapters. *)
EXTENDS DeliveryAdapters

CONSTANTS a1, a2, a3, a4

\* Two global addresses, a private one that a policy names, and a loopback one.
SomeKinds == [a \in Addresses |->
    CASE a \in {a1, a2} -> "global" [] a = a3 -> "listed" [] a = a4 -> "special"]
=============================================================================
