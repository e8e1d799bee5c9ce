---------------------------- MODULE MCEventOutbox ----------------------------
(* Small instances of EventOutbox for TLC.                                   *)
EXTENDS EventOutbox, TLC

Delays == <<1, 2>>

\* Consumers, processes and tokens are only compared for equality.
Interchangeable ==
    Permutations(Consumers) \cup Permutations(Workers) \cup Permutations(Tokens)
=============================================================================
