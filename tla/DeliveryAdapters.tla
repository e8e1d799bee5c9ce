-------------------------- MODULE DeliveryAdapters --------------------------
(***************************************************************************)
(* `event deliver --socket` and `event deliver --endpoint`: one call of    *)
(* the adapter that the command selects, against what EventOutbox relies   *)
(* on (DeliveryCall).                                                      *)
(***************************************************************************)
EXTENDS UnixSocketExchange, WebhookAttempt

VARIABLE adapter    \* the one the command line selects

vars == <<adapter, socketVars, webhookVars>>

Init ==
    /\ adapter \in {"socket", "webhook"}
    /\ IF adapter = "socket"
       THEN /\ SocketInit
            /\ dns = [answer |-> {}, changes |-> 0] /\ attempt = [at |-> "unused"]
       ELSE /\ WebhookInit
            /\ name = [file |-> NoSocket, changes |-> 0] /\ exchange = [at |-> "unused"]
            /\ receiver = [proper |-> FALSE] /\ clock = [now |-> 0]

Next ==
    \/ adapter = "socket" /\ SocketNext /\ UNCHANGED <<adapter, webhookVars>>
    \/ adapter = "webhook" /\ WebhookNext /\ UNCHANGED <<adapter, socketVars>>

Spec == Init /\ [][Next]_vars

-----------------------------------------------------------------------------
(* Properties. *)

PreTransport == {CodeOf(Checks[i]) : i \in 1..Len(Checks)} \cup {Denied}

Call == INSTANCE DeliveryCall WITH
    Codes <- PreTransport \cup {SocketUnavailable, TransportFailure,
                                "REMOTE_RETRYABLE", "REMOTE_REJECTED"},
    Untried <- PreTransport,
    reached <- IF adapter = "socket" THEN SocketReached ELSE WebhookReached,
    outcome <- IF adapter = "socket" THEN exchange.outcome ELSE attempt.outcome

\* Either adapter reports a success only when the receiver's whole answer to
\* the whole request acknowledges this event, and a code of a check made
\* before the transport only when no one has seen the event.
KeepsPromise == Call!Spec

\* Whatever is renamed over the socket once, and whatever the name resolves to
\* after the check, the event goes to the socket that was inspected, with a
\* listener of this user, or to an address the policy allows.
OnlyVerifiedPeers ==
    /\ adapter = "socket" /\ exchange.sent > 0 =>
           /\ exchange.connection \in SameUser
           /\ name.changes <= 1 => exchange.connection = exchange.fingerprint
    /\ adapter = "webhook" /\ attempt.sent # "nothing" =>
           AddressAllowed(attempt.endpoint, attempt.peer)

\* However slowly the receiver takes and gives its pieces, an exchange is over
\* by its deadline, well within the lease of the claim it reports on.
OverByDeadline == adapter = "socket" /\ exchange.at # "idle" => clock.now <= Deadline
=============================================================================
