--------------------------- MODULE MCOutboxProgress ---------------------------
(* Small instances of OutboxProgress for TLC.                                *)
EXTENDS OutboxProgress

Delays == <<1, 2>>
=============================================================================
