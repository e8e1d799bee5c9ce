--------------------------- MODULE OrderedDelivery ---------------------------
(***************************************************************************)
(* What ADR-0040 and TS-0023 promise of durable delivery, without leases,  *)
(* tokens, clocks or processes: one immutable log, one cursor per          *)
(* consumer, and three reasons for a cursor or the log's tail to move.     *)
(***************************************************************************)
EXTENDS Integers, Sequences

CONSTANTS
    Consumers,    \* consumer identifiers
    NoConsumer,   \* the consumer named by an event that audits nothing
    Starts        \* the sequences a consumer may subscribe at

VARIABLES
    log,       \* every event ever committed; an event's index is its sequence
    floor,     \* the events up to this one may be gone
    cursor,    \* the next sequence of each consumer; 0 before it subscribes
    accepted   \* the sequences each consumer has taken at least once

vars == <<log, floor, cursor, accepted>>

Init ==
    /\ log = <<>>
    /\ floor = 0
    /\ cursor = [c \in Consumers |-> 0]
    /\ accepted = [c \in Consumers |-> {}]

Appended(c, s) == Append(log, [id |-> Len(log) + 1, audit |-> [consumer |-> c, seq |-> s]])

Publish ==
    /\ log' = Appended(NoConsumer, 0)
    /\ UNCHANGED <<floor, cursor, accepted>>

Subscribe(c, first) ==
    /\ cursor[c] = 0
    /\ cursor' = [cursor EXCEPT ![c] = first]
    /\ UNCHANGED <<log, floor, accepted>>

\* At least once, in order: an event at or before the cursor, never one after.
Accept(c, s) ==
    /\ s \in 1..cursor[c]
    /\ s <= Len(log)
    /\ accepted' = [accepted EXCEPT ![c] = @ \cup {s}]
    /\ UNCHANGED <<log, floor, cursor>>

\* The cursor passes an event the consumer has taken ...
Complete(c) ==
    /\ cursor[c] \in accepted[c]
    /\ cursor' = [cursor EXCEPT ![c] = @ + 1]
    /\ UNCHANGED <<log, floor, accepted>>

\* ... or one an operator skips, in the step that records it.
Skip(c) ==
    /\ cursor[c] \in 1..Len(log)
    /\ cursor' = [cursor EXCEPT ![c] = @ + 1]
    /\ log' = Appended(c, cursor[c])
    /\ UNCHANGED <<floor, accepted>>

\* Events every subscriber is past may go, oldest first.
Trim(n) ==
    /\ n \in (floor + 1)..Len(log)
    /\ \E c \in Consumers : cursor[c] # 0
    /\ \A c \in Consumers : cursor[c] # 0 => n < cursor[c]
    /\ floor' = n
    /\ UNCHANGED <<log, cursor, accepted>>

Next ==
    \/ Publish
    \/ \E c \in Consumers : Complete(c) \/ Skip(c)
    \/ \E c \in Consumers, first \in Starts : Subscribe(c, first)
    \/ \E c \in Consumers : \E s \in 1..Len(log) : Accept(c, s)
    \/ \E n \in 1..Len(log) : Trim(n)

Spec == Init /\ [][Next]_vars
=============================================================================
