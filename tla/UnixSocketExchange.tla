------------------------- MODULE UnixSocketExchange -------------------------
(***************************************************************************)
(* One delivery over a workspace Unix socket: WorkspaceUnixSocketDelivery- *)
(* Adapter.deliver beside a receiver that may be slow, early, wrong or     *)
(* dead, and people who replace the socket file.                           *)
(*                                                                         *)
(* The frame is a header and Body pieces; an acknowledgement is two        *)
(* pieces, of which a read may return one.  Only calls that block take     *)
(* time.  Ownership, mode and device of a file are one predicate, Private. *)
(***************************************************************************)
EXTENDS Integers, Sequences

CONSTANTS
    Sockets,          \* socket files that are there at some time, with their listeners
    Private,          \* those whose file is ours alone
    SameUser,         \* those whose listener runs as this user
    NoSocket,         \* no file of that name
    Body,             \* pieces of the body
    Deadline,         \* UNIX_SOCKET_DEADLINE_SECONDS, in units of time
    MaxReplacements   \* bounds the replacements of the socket file

ASSUME SocketAssumption ==
    /\ Private \subseteq Sockets /\ SameUser \subseteq Sockets /\ NoSocket \notin Sockets
    /\ Body \in Nat \ {0} /\ Deadline \in Nat \ {0} /\ MaxReplacements \in Nat

VARIABLES
    name,      \* the file the socket's name refers to, and how often it changed
    exchange,  \* the caller: where it is, what it inspected, connected to, sent, read
    receiver,  \* the listener: its manner, what it answered, whether it closed
    clock      \* now, the deadline, and the end of the blocking call's timeout

socketVars == <<name, exchange, receiver, clock>>

Frame == 1 + Body
Ack == <<"ack1", "ack2">>
SocketUnavailable == "SOCKET_UNAVAILABLE"

Blocking == {"connect", "send", "receive", "trailing"}

At(there) == exchange.at = there
Goto(there) == exchange' = [exchange EXCEPT !.at = there]
SocketOutcome(result) == exchange' = [exchange EXCEPT !.at = "done", !.outcome = result]

\* Mutant: every operation gets the whole time again.
WholeTimeout(now, deadline) == Deadline

\* _set_remaining_timeout
RemainingTimeout(now, deadline) == deadline - now

\* Begin a blocking call, unless the time is over.
Block(there) ==
    LET remaining == RemainingTimeout(clock.now, clock.deadline)
    IN  IF remaining <= 0
        THEN SocketOutcome(SocketUnavailable) /\ UNCHANGED clock
        ELSE Goto(there) /\ clock' = [clock EXCEPT !.until = clock.now + remaining]

-----------------------------------------------------------------------------
(* The caller. *)

\* The file is there and private; its device and inode are the fingerprint.
PrepareTarget ==
    /\ At("idle")
    /\ IF name.file \in Private
       THEN exchange' = [exchange EXCEPT !.at = "prepared", !.fingerprint = name.file]
       ELSE SocketOutcome(SocketUnavailable)
    /\ name' = [name EXCEPT !.changes = 0]
    /\ UNCHANGED <<receiver, clock>>

SetDeadline ==
    /\ At("prepared") /\ Goto("connect")
    /\ clock' = [clock EXCEPT !.deadline = clock.now + Deadline, !.until = clock.now + Deadline]
    /\ UNCHANGED <<name, receiver>>

\* connect() goes by the name, whatever that is by now.
Connect ==
    /\ At("connect") /\ name.file # NoSocket
    /\ exchange' = [exchange EXCEPT !.at = "connected", !.connection = name.file]
    /\ UNCHANGED <<name, receiver, clock>>

CheckPeer ==
    /\ At("connected")
    /\ IF exchange.connection \in SameUser THEN Goto("peer") ELSE SocketOutcome(SocketUnavailable)
    /\ UNCHANGED <<name, receiver, clock>>

\* _verify_target
StillTarget == name.file = exchange.fingerprint /\ name.file \in Private

VerifyTarget ==
    /\ At("peer")
    /\ IF StillTarget THEN Block("send")
       ELSE SocketOutcome(SocketUnavailable) /\ UNCHANGED clock
    /\ UNCHANGED <<name, receiver>>

\* The header by itself, then as much of the body as the kernel takes.
Send ==
    /\ At("send")
    /\ \E sent \in (exchange.sent + 1)..(IF exchange.sent = 0 THEN 1 ELSE Frame) :
           exchange' = [exchange EXCEPT !.sent = sent,
                                        !.at = IF sent = Frame THEN "shutdown" ELSE "early"]
    /\ UNCHANGED <<name, receiver, clock>>

Readable == receiver.answer # exchange.response \/ receiver.closed

\* An answer before the whole frame is out, or a closed connection, ends it;
\* nothing looks again between the last piece and the end of the stream.
RejectEarlyResponse ==
    /\ At("early")
    /\ IF Readable THEN SocketOutcome(SocketUnavailable) /\ UNCHANGED clock ELSE Block("send")
    /\ UNCHANGED <<name, receiver>>

Shutdown == At("shutdown") /\ Block("receive") /\ UNCHANGED <<name, receiver>>

Unread == SubSeq(receiver.answer, Len(exchange.response) + 1, Len(receiver.answer))

\* Mutant: what follows the acknowledgement is not looked at.
BeginsWithAck(response) == Len(response) >= Len(Ack) /\ SubSeq(response, 1, Len(Ack)) = Ack

IsAck(response) == response = Ack

\* recv() returns a part of what has come, at most one piece more than an
\* acknowledgement in all.
ReceiveSome ==
    /\ At("receive") /\ Unread # <<>>
    /\ \E n \in 1..Len(Unread) :
           LET response == exchange.response \o SubSeq(Unread, 1, n)
           IN  /\ Len(response) <= Len(Ack) + 1
               /\ exchange' = [exchange EXCEPT !.response = response,
                      !.at = IF Len(response) <= Len(Ack) THEN "more" ELSE "received"]
    /\ UNCHANGED <<name, receiver, clock>>

ReceiveMore == At("more") /\ Block("receive") /\ UNCHANGED <<name, receiver>>

\* The end of the stream.
ReceiveEnd ==
    /\ At("receive") /\ Unread = <<>> /\ receiver.closed
    /\ Goto("received")
    /\ UNCHANGED <<name, receiver, clock>>

Compare ==
    /\ At("received")
    /\ IF IsAck(exchange.response) THEN Block("trailing")
       ELSE SocketOutcome(SocketUnavailable) /\ UNCHANGED clock
    /\ UNCHANGED <<name, receiver>>

\* recv(1) must find the end of the stream.
ReceiveTrailing ==
    /\ At("trailing")
    /\ \/ Unread = <<>> /\ receiver.closed /\ SocketOutcome("success")
       \/ Unread # <<>> /\ SocketOutcome(SocketUnavailable)
    /\ UNCHANGED <<name, receiver, clock>>

\* Any call may fail; one whose timeout has passed does.
SocketFails ==
    /\ exchange.at \notin {"idle", "done"} /\ SocketOutcome(SocketUnavailable)
    /\ UNCHANGED <<name, receiver, clock>>

-----------------------------------------------------------------------------
(* The others. *)

Pass ==
    /\ exchange.at \in Blocking /\ clock.now < clock.until
    /\ clock' = [clock EXCEPT !.now = @ + 1]
    /\ UNCHANGED <<name, exchange, receiver>>

\* The name comes to refer to another file, or to none.
Replace(file) ==
    /\ file # name.file /\ name.changes < MaxReplacements /\ exchange.outcome = "none"
    /\ name' = [file |-> file, changes |-> name.changes + 1]
    /\ UNCHANGED <<exchange, receiver, clock>>

Answering == exchange.connection # NoSocket /\ ~receiver.closed /\ Len(receiver.answer) <= Len(Ack)

\* A proper receiver acknowledges what it has read to the end and stored; it
\* may do so after the caller has given up.
Reply ==
    /\ Answering
    /\ \E piece \in {"ack1", "ack2", "other"} :
           /\ receiver.proper =>
                /\ exchange.sent = Frame
                /\ Len(receiver.answer) < Len(Ack) /\ piece = Ack[Len(receiver.answer) + 1]
           /\ receiver' = [receiver EXCEPT !.answer = Append(@, piece)]
    /\ UNCHANGED <<name, exchange, clock>>

Close ==
    /\ exchange.connection # NoSocket /\ ~receiver.closed
    /\ receiver' = [receiver EXCEPT !.closed = TRUE]
    /\ UNCHANGED <<name, exchange, clock>>

-----------------------------------------------------------------------------
SocketInit ==
    /\ name \in [file : Sockets \cup {NoSocket}, changes : {0}]
    /\ exchange = [at |-> "idle", fingerprint |-> NoSocket, connection |-> NoSocket,
                   sent |-> 0, response |-> <<>>, outcome |-> "none"]
    /\ receiver \in [proper : BOOLEAN, answer : {<<>>}, closed : {FALSE}]
    /\ clock = [now |-> 0, deadline |-> 0, until |-> 0]

SocketNext ==
    \/ PrepareTarget \/ SetDeadline \/ Connect \/ CheckPeer \/ VerifyTarget \/ Send
    \/ RejectEarlyResponse \/ Shutdown \/ ReceiveSome \/ ReceiveMore \/ ReceiveEnd
    \/ Compare \/ ReceiveTrailing \/ SocketFails \/ Pass \/ (\E file \in Sockets \cup {NoSocket} : Replace(file))
    \/ Reply \/ Close

\* How far the event got: the whole stream of the receiver is the acknowledgement.
SocketReached ==
    IF exchange.sent = 0 THEN "nobody"
    ELSE IF exchange.sent = Frame /\ receiver.closed /\ receiver.answer = Ack THEN "acknowledged"
    ELSE "somebody"
=============================================================================
