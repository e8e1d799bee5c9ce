------------------------ MODULE DeliveryAdaptersProofs ------------------------
(***************************************************************************)
(* The safety of the socket and the webhook adapter, proved for any        *)
(* sockets, listeners, addresses and policies, any deadline and any number *)
(* of replacements of the socket file and changes of the name's addresses; *)
(* and that a call of either implements DeliveryCall.                      *)
(***************************************************************************)
EXTENDS DeliveryAdapters, SequenceTheorems, TLAPS

-----------------------------------------------------------------------------
(* The socket *)

Pieces == {"ack1", "ack2", "other"}

\* Before the first piece is sent, and from the second inspection on.
Unsent == {"idle", "prepared", "connect", "connected", "peer"}
Verified == {"send", "early", "shutdown", "receive", "more", "received", "trailing"}

SocketTypeOK ==
    /\ name \in [file : Sockets \cup {NoSocket}, changes : Nat]
    /\ exchange \in [at : Unsent \cup Verified \cup {"done"},
                     fingerprint : Sockets \cup {NoSocket}, connection : Sockets \cup {NoSocket},
                     sent : 0..Frame, response : Seq(Pieces),
                     outcome : {"none", "success", SocketUnavailable}]
    /\ receiver \in [proper : BOOLEAN, answer : Seq(Pieces), closed : BOOLEAN]
    /\ clock \in [now : Nat, deadline : Nat, until : Nat]

\* A file that is replaced once after its inspection is another one; only a
\* second replacement can bring the inspected one back.
Inspected ==
    /\ At("connect") \/ At("prepared") \/ At("connected") \/ At("peer") =>
           /\ name.changes = 0 => name.file = exchange.fingerprint
           /\ name.changes = 1 => name.file # exchange.fingerprint
    /\ (At("connected") \/ At("peer")) /\ name.changes = 0 =>
           exchange.connection = exchange.fingerprint
    /\ (exchange.at \in Verified \/ exchange.sent > 0) /\ name.changes <= 1 =>
           exchange.connection = exchange.fingerprint
    /\ At("peer") \/ exchange.at \in Verified \/ exchange.sent > 0 =>
           exchange.connection \in SameUser

\* Time passes for the calls that block, and all of these end by the deadline.
InTime ==
    /\ clock.now <= Deadline
    /\ At("idle") \/ At("prepared") => clock.now = 0
    /\ exchange.at \notin {"idle", "prepared", "done"} =>
           clock.deadline = Deadline /\ clock.until = Deadline

\* What was read is the beginning of what the receiver has answered; a call
\* ends once; only what is sent to the end is answered with a success.
Exchanged ==
    /\ Len(exchange.response) <= Len(receiver.answer)
    /\ \A i \in 1..Len(exchange.response) : exchange.response[i] = receiver.answer[i]
    /\ exchange.outcome = "none" <=> exchange.at # "done"
    /\ exchange.at \in Unsent => exchange.sent = 0
    /\ exchange.at = "early" => exchange.sent > 0
    /\ exchange.at \in {"send", "early"} => exchange.sent < Frame
    /\ exchange.at \in {"shutdown", "receive", "more", "received", "trailing"} => exchange.sent = Frame
    /\ exchange.at = "trailing" => exchange.response = Ack
    /\ exchange.outcome = "success" =>
           exchange.sent = Frame /\ receiver.closed /\ receiver.answer = Ack

SocketInv == SocketTypeOK /\ Inspected /\ InTime /\ Exchanged

\* What is read follows what was read: a part of the unread answer, appended
\* to the response, leaves it the beginning of the answer.  (ReceiveSome)
LEMMA ReadsOn ==
    ASSUME NEW answer \in Seq(Pieces), NEW response \in Seq(Pieces),
           Len(response) <= Len(answer), \A i \in 1..Len(response) : response[i] = answer[i],
           NEW unread, unread = SubSeq(answer, Len(response) + 1, Len(answer)),
           NEW n \in 1..Len(unread), NEW read, read = response \o SubSeq(unread, 1, n)
    PROVE  /\ read \in Seq(Pieces) /\ Len(read) = Len(response) + n /\ Len(read) <= Len(answer)
           /\ \A i \in 1..Len(read) : read[i] = answer[i]
<1>1. /\ unread \in Seq(Pieces) /\ Len(unread) = Len(answer) - Len(response)
      /\ \A i \in 1..Len(unread) : unread[i] = answer[Len(response) + i]
  OBVIOUS
<1> DEFINE some == SubSeq(unread, 1, n)
<1>2. some \in Seq(Pieces) /\ Len(some) = n /\ \A i \in 1..n : some[i] = unread[i]
  BY <1>1
<1>3. read \in Seq(Pieces) /\ Len(read) = Len(response) + n
  BY <1>2
<1>4. ASSUME NEW i \in 1..Len(read) PROVE read[i] = answer[i]
  <2>1. CASE i <= Len(response)
    BY <2>1, <1>2, <1>3
  <2>2. CASE i > Len(response)
    <3>1. read[i] = some[i - Len(response)] /\ i - Len(response) \in 1..n
      BY <2>2, <1>2, <1>3
    <3>2. QED BY <3>1, <1>1, <1>2, <2>2
  <2>3. QED BY <1>3, <2>1, <2>2
<1>5. QED BY <1>1, <1>3, <1>4

\* When nothing is left to read, the response is as long as the answer.
\* (ReceiveTrailing)
LEMMA NothingUnread ==
    ASSUME NEW answer \in Seq(Pieces), NEW response \in Seq(Pieces),
           Len(response) <= Len(answer),
           SubSeq(answer, Len(response) + 1, Len(answer)) = <<>>
    PROVE  Len(answer) = Len(response)
<1> DEFINE unread == SubSeq(answer, Len(response) + 1, Len(answer))
<1>1. Len(unread) = Len(answer) - Len(response)
  BY SubSeqProperties
<1>2. unread = <<>>
  OBVIOUS
<1> HIDE DEF unread
<1>3. QED BY <1>1, <1>2

\* Before the deadline every blocking call is given the time that is left of
\* it, so the end of its timeout is the deadline again.  (_set_remaining_timeout)
LEMMA BlockKeepsDeadline ==
    ASSUME SocketTypeOK, InTime, exchange.at \notin {"idle", "prepared", "done"},
           NEW there, Block(there)
    PROVE  clock' = clock /\ (Goto(there) \/ SocketOutcome(SocketUnavailable))
BY SocketAssumption DEF SocketTypeOK, InTime, Block, RemainingTimeout, At

\* Whatever fails, and wherever, leaves the invariant: the call is over.
\* (the `except` clauses of deliver)
LEMMA SocketFailureStep ==
    ASSUME SocketInv, exchange.at # "done", SocketOutcome(SocketUnavailable),
           receiver' = receiver, clock' = clock,
           name' = name \/ (At("idle") /\ name' = [name EXCEPT !.changes = 0])
    PROVE  SocketInv'
<1> USE SocketAssumption DEF SocketInv, At, SocketUnavailable
<1>1. SocketTypeOK'
  <2>1. name' \in [file : Sockets \cup {NoSocket}, changes : Nat]
    BY DEF SocketTypeOK
  <2>2. exchange' \in [at : Unsent \cup Verified \cup {"done"},
                     fingerprint : Sockets \cup {NoSocket}, connection : Sockets \cup {NoSocket},
                     sent : 0..Frame, response : Seq(Pieces),
                     outcome : {"none", "success", SocketUnavailable}]
    BY DEF SocketTypeOK, SocketOutcome
  <2>3. QED BY <2>1, <2>2 DEF SocketTypeOK
<1>2. Inspected'
  BY DEF SocketTypeOK, Inspected, Exchanged, SocketOutcome, Unsent, Verified
<1>3. InTime'
  BY DEF SocketTypeOK, InTime, SocketOutcome
<1>4. Exchanged'
  BY DEF SocketTypeOK, Exchanged, SocketOutcome, Unsent
<1>5. QED BY <1>1, <1>2, <1>3, <1>4

\* A step that only moves the caller on, to where as much is verified and sent.
LEMMA SocketGotoStep ==
    ASSUME SocketInv, UNCHANGED <<name, receiver, clock>>, NEW there, Goto(there),
           \/ At("connected") /\ there = "peer" /\ exchange.connection \in SameUser
           \/ At("peer") /\ there = "send" /\ StillTarget
           \/ At("early") /\ there = "send"
           \/ At("shutdown") /\ there = "receive"
           \/ At("more") /\ there = "receive"
           \/ At("receive") /\ there = "received"
           \/ At("received") /\ there = "trailing" /\ IsAck(exchange.response)
    PROVE  SocketInv'
<1> USE SocketAssumption DEF SocketInv, At, Goto, Frame
<1>1. SocketTypeOK'
  BY DEF SocketTypeOK, Unsent, Verified
<1>2. Inspected'
  BY DEF SocketTypeOK, Inspected, Exchanged, Unsent, Verified, StillTarget
<1>3. InTime'
  BY DEF SocketTypeOK, InTime
<1>4. Exchanged'
  BY DEF SocketTypeOK, Exchanged, Unsent, Verified, IsAck
<1>5. QED BY <1>1, <1>2, <1>3, <1>4

\* Every step of the caller, of the receiver and of those who replace the
\* socket file preserves the invariant.
LEMMA SocketStep ==
    ASSUME SocketInv, SocketNext
    PROVE  SocketInv'
<1> USE SocketAssumption DEF SocketInv, At
<1>1. CASE PrepareTarget
  <2>1. CASE name.file \in Private
    <3>1. exchange' = [exchange EXCEPT !.at = "prepared", !.fingerprint = name.file]
      BY <1>1, <2>1 DEF PrepareTarget
    <3>2. SocketTypeOK'
      BY <1>1, <2>1, <3>1 DEF PrepareTarget, SocketTypeOK, Unsent
    <3>3. Inspected' /\ InTime' /\ Exchanged'
      BY <1>1, <3>1 DEF PrepareTarget, SocketTypeOK, Inspected, InTime, Exchanged, Unsent, Verified
    <3>4. QED BY <3>2, <3>3
  <2>2. CASE name.file \notin Private
    <3>1. /\ SocketOutcome(SocketUnavailable) /\ At("idle")
          /\ receiver' = receiver /\ clock' = clock /\ name' = [name EXCEPT !.changes = 0]
      BY <1>1, <2>2 DEF PrepareTarget
    <3>2. QED BY <3>1, SocketFailureStep
  <2>3. QED BY <2>1, <2>2
<1>2. CASE SetDeadline
  <2>1. clock'.now = 0 /\ clock'.deadline = Deadline /\ clock'.until = Deadline
    BY <1>2 DEF SetDeadline, SocketTypeOK, InTime
  <2>2. SocketTypeOK'
    <3>1. clock' \in [now : Nat, deadline : Nat, until : Nat]
      <4>1. clock.now + Deadline = Deadline
        BY <1>2 DEF SetDeadline, InTime
      <4>2. clock' = [clock EXCEPT !.deadline = Deadline, !.until = Deadline]
        BY <1>2, <4>1 DEF SetDeadline
      <4>3. QED BY <4>2 DEF SocketTypeOK
    <3>2. exchange' \in [at : Unsent \cup Verified \cup {"done"},
                       fingerprint : Sockets \cup {NoSocket}, connection : Sockets \cup {NoSocket},
                       sent : 0..Frame, response : Seq(Pieces),
                       outcome : {"none", "success", SocketUnavailable}]
      BY <1>2 DEF SetDeadline, Goto, SocketTypeOK, Unsent
    <3>3. QED BY <1>2, <3>1, <3>2 DEF SetDeadline, SocketTypeOK
  <2>3. Inspected' /\ Exchanged'
    BY <1>2 DEF SetDeadline, Goto, SocketTypeOK, Inspected, Exchanged, Unsent, Verified
  <2>4. InTime'
    BY <2>1 DEF InTime
  <2>5. QED BY <2>2, <2>3, <2>4
<1>3. CASE Connect
  <2>1. SocketTypeOK'
    BY <1>3 DEF Connect, SocketTypeOK, Unsent
  <2>2. Inspected' /\ InTime' /\ Exchanged'
    BY <1>3 DEF Connect, SocketTypeOK, Inspected, InTime, Exchanged, Unsent, Verified
  <2>3. QED BY <2>1, <2>2
<1>4. CASE CheckPeer
  <2>1. CASE exchange.connection \in SameUser
    BY <1>4, <2>1, SocketGotoStep DEF CheckPeer
  <2>2. CASE exchange.connection \notin SameUser
    BY <1>4, <2>2, SocketFailureStep DEF CheckPeer
  <2>3. QED BY <2>1, <2>2
<1>5. CASE VerifyTarget
  <2>1. \/ StillTarget /\ Goto("send")
        \/ SocketOutcome(SocketUnavailable)
    BY <1>5, BlockKeepsDeadline DEF VerifyTarget
  <2>2. UNCHANGED <<name, receiver, clock>> /\ At("peer")
    BY <1>5, BlockKeepsDeadline DEF VerifyTarget
  <2>3. QED BY <2>1, <2>2, SocketGotoStep, SocketFailureStep
<1>6. CASE Send
  <2>1. PICK sent \in (exchange.sent + 1)..(IF exchange.sent = 0 THEN 1 ELSE Frame) :
             exchange' = [exchange EXCEPT !.sent = sent,
                                          !.at = IF sent = Frame THEN "shutdown" ELSE "early"]
    BY <1>6 DEF Send
  <2>2. sent \in 1..Frame /\ UNCHANGED <<name, receiver, clock>> /\ At("send") /\ Frame \in Nat
    BY <1>6, <2>1 DEF Send, SocketTypeOK, Exchanged, Frame
  <2>3. SocketTypeOK'
    <3>1. sent \in 0..Frame
      BY <2>2
    <3>2. PICK there \in {"shutdown", "early"} :
               exchange' = [exchange EXCEPT !.sent = sent, !.at = there]
      BY <2>1
    <3>3. QED BY <2>2, <3>1, <3>2 DEF SocketTypeOK, Verified
  <2>4. Inspected' /\ InTime'
    BY <2>1, <2>2 DEF SocketTypeOK, Inspected, InTime, Unsent, Verified
  <2>5. Exchanged'
    BY <2>1, <2>2 DEF SocketTypeOK, Exchanged, Unsent
  <2>6. QED BY <2>3, <2>4, <2>5
<1>7. CASE RejectEarlyResponse
  <2>1. Goto("send") \/ SocketOutcome(SocketUnavailable)
    BY <1>7, BlockKeepsDeadline DEF RejectEarlyResponse
  <2>2. UNCHANGED <<name, receiver, clock>> /\ At("early")
    BY <1>7, BlockKeepsDeadline DEF RejectEarlyResponse
  <2>3. QED BY <2>1, <2>2, SocketGotoStep, SocketFailureStep
<1>8. CASE Shutdown
  <2>1. Goto("receive") \/ SocketOutcome(SocketUnavailable)
    BY <1>8, BlockKeepsDeadline DEF Shutdown
  <2>2. UNCHANGED <<name, receiver, clock>> /\ At("shutdown")
    BY <1>8, BlockKeepsDeadline DEF Shutdown
  <2>3. QED BY <2>1, <2>2, SocketGotoStep, SocketFailureStep
<1>9. CASE ReceiveSome
  <2>1. PICK n \in 1..Len(Unread) :
             LET response == exchange.response \o SubSeq(Unread, 1, n)
             IN  /\ Len(response) <= Len(Ack) + 1
                 /\ exchange' = [exchange EXCEPT !.response = response,
                        !.at = IF Len(response) <= Len(Ack) THEN "more" ELSE "received"]
    BY <1>9 DEF ReceiveSome
  <2> DEFINE read == exchange.response \o SubSeq(Unread, 1, n)
  <2>2. /\ read \in Seq(Pieces) /\ Len(read) <= Len(receiver.answer)
        /\ \A i \in 1..Len(read) : read[i] = receiver.answer[i]
    <3>1. receiver.answer \in Seq(Pieces) /\ exchange.response \in Seq(Pieces)
      BY DEF SocketTypeOK
    <3>2. /\ Len(exchange.response) <= Len(receiver.answer)
          /\ \A i \in 1..Len(exchange.response) : exchange.response[i] = receiver.answer[i]
      BY DEF Exchanged
    <3>3. QED BY <3>1, <3>2, ReadsOn DEF Unread
  <2>3. PICK there \in {"more", "received"} :
             exchange' = [exchange EXCEPT !.response = read, !.at = there]
    BY <2>1
  <2> HIDE DEF read
  <2>4. UNCHANGED <<name, receiver, clock>> /\ At("receive")
    BY <1>9 DEF ReceiveSome
  <2>5. SocketTypeOK'
    BY <2>2, <2>3, <2>4 DEF SocketTypeOK, Verified
  <2>6. Inspected' /\ InTime'
    BY <2>3, <2>4 DEF SocketTypeOK, Inspected, InTime, Unsent, Verified
  <2>7. Exchanged'
    BY <2>2, <2>3, <2>4 DEF SocketTypeOK, Exchanged, Unsent
  <2>8. QED BY <2>5, <2>6, <2>7
<1>10. CASE ReceiveMore
  <2>1. Goto("receive") \/ SocketOutcome(SocketUnavailable)
    BY <1>10, BlockKeepsDeadline DEF ReceiveMore
  <2>2. UNCHANGED <<name, receiver, clock>> /\ At("more")
    BY <1>10, BlockKeepsDeadline DEF ReceiveMore
  <2>3. QED BY <2>1, <2>2, SocketGotoStep, SocketFailureStep
<1>11. CASE ReceiveEnd
  BY <1>11, SocketGotoStep DEF ReceiveEnd
<1>12. CASE Compare
  <2>1. (IsAck(exchange.response) /\ Goto("trailing")) \/ SocketOutcome(SocketUnavailable)
    BY <1>12, BlockKeepsDeadline DEF Compare
  <2>2. UNCHANGED <<name, receiver, clock>> /\ At("received")
    BY <1>12, BlockKeepsDeadline DEF Compare
  <2>3. QED BY <2>1, <2>2, SocketGotoStep, SocketFailureStep
<1>13. CASE ReceiveTrailing
  <2>1. CASE SocketOutcome(SocketUnavailable)
    BY <1>13, <2>1, SocketFailureStep DEF ReceiveTrailing
  <2>2. CASE Unread = <<>> /\ receiver.closed /\ SocketOutcome("success")
    <3>1. exchange.response = Ack /\ exchange.sent = Frame /\ At("trailing")
      BY <1>13 DEF ReceiveTrailing, Exchanged
    <3>2. receiver.answer = Ack
      <4>1. receiver.answer \in Seq(Pieces) /\ exchange.response \in Seq(Pieces)
        BY DEF SocketTypeOK
      <4>2. Len(receiver.answer) = Len(exchange.response)
        BY <2>2, <4>1, NothingUnread DEF Unread, Exchanged
      <4>3. receiver.answer = exchange.response
        BY <4>1, <4>2, SeqEqual DEF Exchanged
      <4>4. QED BY <3>1, <4>3
    <3>3. UNCHANGED <<name, receiver, clock>>
      BY <1>13 DEF ReceiveTrailing
    <3>4. exchange' = [exchange EXCEPT !.at = "done", !.outcome = "success"]
      BY <2>2 DEF SocketOutcome
    <3>5. SocketTypeOK' /\ InTime'
      BY <3>3, <3>4 DEF SocketTypeOK, InTime
    <3>6. Inspected'
      BY <3>1, <3>3, <3>4 DEF SocketTypeOK, Inspected, Verified, Unsent
    <3>7. Frame' = Frame /\ Ack' = Ack
      BY DEF Frame, Ack
    <3>8. Exchanged'
      BY <2>2, <3>1, <3>2, <3>3, <3>4, <3>7 DEF SocketTypeOK, Exchanged, Unsent
    <3>9. QED BY <3>5, <3>6, <3>8
  <2>3. QED BY <1>13, <2>1, <2>2 DEF ReceiveTrailing
<1>14. CASE SocketFails
  BY <1>14, SocketFailureStep DEF SocketFails
<1>15. CASE Pass
  <2>1. SocketTypeOK' /\ InTime'
    <3>1. SocketTypeOK'
      BY <1>15 DEF Pass, Blocking, SocketTypeOK
    <3>2. InTime'
      BY <1>15 DEF Pass, Blocking, SocketTypeOK, InTime
    <3>3. QED BY <3>1, <3>2
  <2>2. Inspected' /\ Exchanged'
    BY <1>15 DEF Pass, Inspected, Exchanged
  <2>3. QED BY <2>1, <2>2
<1>16. ASSUME NEW file \in Sockets \cup {NoSocket}, Replace(file) PROVE SocketInv'
  <2>1. SocketTypeOK' /\ InTime'
    BY <1>16 DEF Replace, SocketTypeOK, InTime
  <2>2. Exchanged'
    BY <1>16 DEF Replace, Exchanged
  <2>3. Inspected'
    BY <1>16 DEF Replace, SocketTypeOK, Inspected, Exchanged
  <2>4. QED BY <2>1, <2>2, <2>3
<1>17. CASE Reply
  <2>1. PICK piece \in Pieces : receiver' = [receiver EXCEPT !.answer = Append(@, piece)]
    BY <1>17 DEF Reply, Pieces
  <2>2. UNCHANGED <<name, exchange, clock>> /\ ~receiver.closed
    BY <1>17 DEF Reply, Answering
  <2>3. /\ receiver.answer \in Seq(Pieces) /\ exchange.response \in Seq(Pieces)
        /\ receiver'.answer = Append(receiver.answer, piece)
    BY <2>1 DEF SocketTypeOK
  <2>4. SocketTypeOK'
    <3>1. receiver' \in [proper : BOOLEAN, answer : Seq(Pieces), closed : BOOLEAN]
      <4> DEFINE more == Append(receiver.answer, piece)
      <4>1. more \in Seq(Pieces) /\ receiver' = [receiver EXCEPT !.answer = more]
        BY <2>1, <2>3, AppendProperties
      <4> HIDE DEF more
      <4>2. QED BY <4>1 DEF SocketTypeOK
    <3>2. QED BY <2>2, <3>1 DEF SocketTypeOK
  <2>5. Inspected' /\ InTime'
    BY <2>2 DEF Inspected, InTime
  <2>6. exchange.outcome # "success"
    BY <2>2 DEF Exchanged, SocketReached
  <2>7. Exchanged'
    BY <2>2, <2>3, <2>6 DEF Exchanged
  <2>8. QED BY <2>4, <2>5, <2>7
<1>18. CASE Close
  <2>1. SocketTypeOK' /\ receiver'.answer = receiver.answer
    BY <1>18 DEF Close, SocketTypeOK
  <2>2. Inspected' /\ InTime'
    BY <1>18 DEF Close, Inspected, InTime
  <2>3. exchange.outcome # "success"
    BY <1>18 DEF Close, Exchanged
  <2>4. Exchanged'
    BY <1>18, <2>1, <2>3 DEF Close, Exchanged
  <2>5. QED BY <2>1, <2>2, <2>4
<1>19. QED BY <1>1, <1>2, <1>3, <1>4, <1>5, <1>6, <1>7, <1>8, <1>9, <1>10, <1>11, <1>12,
             <1>13, <1>14, <1>15, <1>16, <1>17, <1>18 DEF SocketNext

-----------------------------------------------------------------------------
(* The webhook *)

WebhookTypeOK ==
    /\ dns \in [answer : SUBSET Addresses, changes : Nat]
    /\ attempt \in [endpoint : Endpoints, at : {"check", "resolve", "connect", "request", "response", "done"},
                    check : 1..6, addresses : SUBSET Addresses, peer : Addresses \cup {"none"},
                    sent : {"nothing", "part", "all"}, status : Statuses \cup {0},
                    outcome : {"none", "success"} \cup PreTransport
                              \cup {TransportFailure, "REMOTE_RETRYABLE", "REMOTE_REJECTED"}]

\* What the policy has allowed is what is connected to and sent to.
Allowed ==
    /\ attempt.at = "check" => attempt.check <= 5
    /\ attempt.at = "connect" =>
           \A a \in attempt.addresses : AddressAllowed(attempt.endpoint, a)
    /\ attempt.at \in {"request", "response"} \/ attempt.sent # "nothing" =>
           AddressAllowed(attempt.endpoint, attempt.peer)
    /\ attempt.at \in {"check", "resolve", "connect"} => attempt.sent = "nothing"
    /\ attempt.at = "request" => attempt.sent # "all"
    /\ attempt.at = "response" => attempt.sent = "all"
    /\ attempt.sent = "nothing" => attempt.status = 0
    /\ attempt.outcome = "none" <=> attempt.at # "done"

WebhookInv == WebhookTypeOK /\ Allowed

-----------------------------------------------------------------------------
\* Every step of the attempt, of the name service and of the servers preserves
\* the invariant.
LEMMA WebhookStep ==
    ASSUME WebhookInv, WebhookNext
    PROVE  WebhookInv'
<1> USE DEF WebhookInv, TransportFailure
<1>1. ASSUME NEW code \in {"success"} \cup PreTransport
                          \cup {TransportFailure, "REMOTE_RETRYABLE", "REMOTE_REJECTED"},
             code # "none", attempt.at # "done", WebhookOutcome(code), dns' = dns
      PROVE  WebhookInv'
  <2>1. WebhookTypeOK'
    BY <1>1 DEF WebhookOutcome, WebhookTypeOK
  <2>2. Allowed'
    BY <1>1 DEF WebhookOutcome, WebhookTypeOK, Allowed, AddressAllowed
  <2>3. QED BY <2>1, <2>2
<1>2. Denied \in PreTransport /\ Denied # "none"
  BY DEF PreTransport, Denied
<1>3. CASE Check
  <2>1. attempt.check \in 1..5 /\ attempt.at = "check" /\ Len(Checks) = 5 /\ dns' = dns
    <3>1. Len(Checks) = 5
      BY DEF Checks
    <3>2. QED BY <1>3, <3>1 DEF Check, WebhookTypeOK, Allowed
  <2>2. CASE WebhookOutcome(CodeOf(Checks[attempt.check]))
    <3>1. CodeOf(Checks[attempt.check]) \in PreTransport
      BY <2>1 DEF PreTransport
    <3>2. CodeOf(Checks[attempt.check]) # "none"
      BY DEF CodeOf
    <3>3. QED BY <1>1, <2>1, <2>2, <3>1, <3>2
  <2>3. CASE attempt' = [attempt EXCEPT
                  !.at = IF attempt.check = Len(Checks) THEN "resolve" ELSE @, !.check = @ + 1]
    <3>1. PICK there \in {"check", "resolve"}, next \in 1..6 :
               /\ attempt' = [attempt EXCEPT !.at = there, !.check = next]
               /\ there = "check" => next <= 5
      <4>1. attempt.check + 1 \in 1..6 /\ (attempt.check # 5 => attempt.check + 1 <= 5)
        BY <2>1
      <4>2. CASE attempt.check = 5
        BY <2>1, <2>3, <4>1, <4>2
      <4>3. CASE attempt.check # 5
        <5>1. attempt' = [attempt EXCEPT !.at = "check", !.check = attempt.check + 1]
          BY <2>1, <2>3, <4>3
        <5>2. QED BY <4>1, <4>3, <5>1
      <4>4. QED BY <4>2, <4>3
    <3>2. WebhookTypeOK'
      BY <2>1, <3>1 DEF WebhookTypeOK
    <3>3. Allowed'
      BY <2>1, <3>1 DEF WebhookTypeOK, Allowed, AddressAllowed
    <3>4. QED BY <3>2, <3>3
  <2>4. QED BY <1>3, <2>2, <2>3 DEF Check
<1>4. CASE Resolve
  <2>1. CASE WebhookOutcome(Denied)
    BY <1>1, <1>2, <1>4, <2>1 DEF Resolve
  <2>2. CASE /\ \A a \in dns.answer : AddressAllowed(attempt.endpoint, a)
             /\ attempt' = [attempt EXCEPT !.at = "connect", !.addresses = dns.answer]
    <3>1. WebhookTypeOK'
      BY <1>4, <2>2 DEF Resolve, WebhookTypeOK
    <3>2. Allowed'
      BY <1>4, <2>2 DEF Resolve, WebhookTypeOK, Allowed, AddressAllowed
    <3>3. QED BY <3>1, <3>2
  <2>3. QED BY <1>4, <2>1, <2>2 DEF Resolve
<1>5. CASE ResolverFails
  BY <1>1, <1>2, <1>5 DEF ResolverFails
<1>6. ASSUME NEW a \in Addresses, Handshake(a) PROVE WebhookInv'
  <2>1. WebhookTypeOK'
    BY <1>6 DEF Handshake, WebhookTypeOK
  <2>2. Allowed'
    BY <1>6 DEF Handshake, Candidates, WebhookTypeOK, Allowed, AddressAllowed
  <2>3. QED BY <2>1, <2>2
<1>7. ASSUME NEW a \in Addresses, ConnectFails(a) PROVE WebhookInv'
  <2>1. CASE WebhookOutcome(TransportFailure)
    BY <1>1, <1>7, <2>1 DEF ConnectFails
  <2>2. CASE attempt' = [attempt EXCEPT !.addresses = @ \ {a}]
    <3>1. WebhookTypeOK'
      BY <1>7, <2>2 DEF ConnectFails, WebhookTypeOK
    <3>2. Allowed'
      BY <1>7, <2>2 DEF ConnectFails, WebhookTypeOK, Allowed, AddressAllowed
    <3>3. QED BY <3>1, <3>2
  <2>3. QED BY <1>7, <2>1, <2>2 DEF ConnectFails
<1>8. CASE SendRequest
  <2>1. WebhookTypeOK'
    BY <1>8 DEF SendRequest, WebhookTypeOK
  <2>2. Allowed'
    BY <1>8 DEF SendRequest, WebhookTypeOK, Allowed, AddressAllowed
  <2>3. QED BY <2>1, <2>2
<1>9. CASE ReadResponse
  <2>1. Classify(attempt.status) \in {"success", TransportFailure, "REMOTE_RETRYABLE", "REMOTE_REJECTED"}
    BY DEF Classify
  <2>2. QED BY <1>1, <1>9, <2>1 DEF ReadResponse
<1>10. CASE TransportFails
  BY <1>1, <1>10 DEF TransportFails
<1>11. CASE Answer
  <2>1. PICK status \in Statuses : attempt' = [attempt EXCEPT !.status = status]
    BY <1>11 DEF Answer
  <2>2. WebhookTypeOK'
    BY <1>11, <2>1 DEF Answer, WebhookTypeOK
  <2>3. Allowed'
    BY <1>11, <2>1 DEF Answer, WebhookTypeOK, Allowed, AddressAllowed
  <2>4. QED BY <2>2, <2>3
<1>12. CASE Rebind
  <2>1. WebhookTypeOK'
    BY <1>12 DEF Rebind, WebhookTypeOK
  <2>2. Allowed'
    BY <1>12 DEF Rebind, Allowed, AddressAllowed
  <2>3. QED BY <2>1, <2>2
<1>13. QED BY <1>3, <1>4, <1>5, <1>6, <1>7, <1>8, <1>9, <1>10, <1>11, <1>12 DEF WebhookNext

-----------------------------------------------------------------------------
(* Either *)

\* The inductive invariant: one adapter is called, the other is not there.
IInv ==
    \/ adapter = "socket" /\ SocketInv
    \/ adapter = "webhook" /\ WebhookInv

\* The invariant of the selected adapter holds in every state of every call.
\* (WorkspaceUnixSocketDeliveryAdapter.deliver, HttpsWebhookDeliveryAdapter.deliver)
THEOREM CallsAreSafe == Spec => []IInv
<1>1. Init => IInv
  <2> SUFFICES ASSUME Init PROVE IInv
    OBVIOUS
  <2>1. CASE adapter = "socket"
    <3>1. SocketInit
      BY <2>1 DEF Init
    <3>2. SocketTypeOK
      <4>1. 0 \in 0..Frame /\ <<>> \in Seq(Pieces)
        BY SocketAssumption DEF Frame
      <4>2. clock \in [now : Nat, deadline : Nat, until : Nat]
        BY <3>1 DEF SocketInit
      <4>3. /\ name \in [file : Sockets \cup {NoSocket}, changes : Nat]
            /\ receiver \in [proper : BOOLEAN, answer : Seq(Pieces), closed : BOOLEAN]
        <5>1. PICK proper \in BOOLEAN : receiver = [proper |-> proper, answer |-> <<>>, closed |-> FALSE]
          BY <3>1 DEF SocketInit
        <5>2. QED BY <3>1, <4>1, <5>1 DEF SocketInit
      <4>4. QED BY <3>1, <4>1, <4>2, <4>3 DEF SocketInit, SocketTypeOK, Unsent
    <3>3. Inspected
      BY <3>1 DEF SocketInit, Inspected, At, Verified
    <3>4. InTime
      BY <3>1, SocketAssumption DEF SocketInit, InTime, At
    <3>5. Exchanged
      <4>1. exchange.response = <<>> /\ receiver.answer = <<>> /\ Len(<<>>) = 0
        BY <3>1 DEF SocketInit
      <4>2. QED BY <3>1, <4>1 DEF SocketInit, Exchanged, Unsent
    <3>6. QED BY <2>1, <3>2, <3>3, <3>4, <3>5 DEF IInv, SocketInv
  <2>2. CASE adapter = "webhook"
    <3>1. WebhookInit
      BY <2>2 DEF Init
    <3>2. WebhookTypeOK
      BY <3>1 DEF WebhookInit, WebhookTypeOK
    <3>3. Allowed
      BY <3>1 DEF WebhookInit, Allowed
    <3>4. QED BY <2>2, <3>2, <3>3 DEF IInv, WebhookInv
  <2>3. QED BY <2>1, <2>2 DEF Init
<1>2. IInv /\ [Next]_vars => IInv'
  <2> SUFFICES ASSUME IInv, [Next]_vars PROVE IInv'
    OBVIOUS
  <2>1. CASE adapter = "socket" /\ SocketNext /\ UNCHANGED <<adapter, webhookVars>>
    BY <2>1, SocketStep DEF IInv
  <2>2. CASE adapter = "webhook" /\ WebhookNext /\ UNCHANGED <<adapter, socketVars>>
    BY <2>2, WebhookStep DEF IInv
  <2>3. CASE UNCHANGED vars
    <3>1. /\ UNCHANGED <<adapter, name, exchange, receiver, clock>>
          /\ UNCHANGED <<dns, attempt>>
      BY <2>3 DEF vars, socketVars, webhookVars
    <3>2. SocketInv => SocketInv'
      BY <3>1 DEF SocketInv, SocketTypeOK, Inspected, InTime, Exchanged, At
    <3>3. WebhookInv => WebhookInv'
      BY <3>1 DEF WebhookInv, WebhookTypeOK, Allowed, AddressAllowed
    <3>4. QED BY <3>1, <3>2, <3>3 DEF IInv
  <2>4. QED BY <2>1, <2>2, <2>3 DEF Next
<1>3. QED BY <1>1, <1>2, PTL DEF Spec

\* An event leaves only for the inspected socket, with a listener of this
\* user, or for an address the policy allows.  (_verify_target, _verify_peer,
\* the addresses bound by deliver)
THEOREM EventsGoToVerifiedPeers == Spec => []OnlyVerifiedPeers
<1>1. IInv => OnlyVerifiedPeers
  BY DEF IInv, SocketInv, SocketTypeOK, Inspected, WebhookInv, Allowed, OnlyVerifiedPeers, Frame
<1>2. QED BY <1>1, CallsAreSafe, PTL

\* An exchange that has begun is over by its deadline, whatever the receiver
\* does.  (UNIX_SOCKET_DEADLINE_SECONDS, _set_remaining_timeout)
THEOREM ExchangesEndInTime == Spec => []OverByDeadline
<1>1. IInv => OverByDeadline
  BY DEF IInv, SocketInv, InTime, OverByDeadline
<1>2. QED BY <1>1, CallsAreSafe, PTL

-----------------------------------------------------------------------------
(* What the runner may rely on: DeliveryCall. *)

\* The codes of the checks before the transport.
LEMMA PreTransportCodes ==
    PreTransport = {"PAYLOAD_TOO_LARGE", "AUTHENTICATION_UNAVAILABLE", "SIGNING_UNAVAILABLE",
                    "CLIENT_IDENTITY_UNAVAILABLE", "DESTINATION_DENIED"}
<1>1. /\ Len(Checks) = 5 /\ Checks[1] = "payload" /\ Checks[2] = "bearer"
      /\ Checks[3] = "signing key" /\ Checks[4] = "client identity" /\ Checks[5] = "signature"
  BY DEF Checks
<1>2. 1..5 = {1, 2, 3, 4, 5}
  OBVIOUS
<1>3. {CodeOf(Checks[i]) : i \in 1..Len(Checks)} =
          {CodeOf("payload"), CodeOf("bearer"), CodeOf("signing key"),
           CodeOf("client identity"), CodeOf("signature")}
  BY <1>1, <1>2
<1>4. QED BY <1>3 DEF PreTransport, CodeOf, Denied

\* A step of the socket adapter is a step of the call: the first piece that
\* leaves reaches somebody, the end of a whole acknowledgement acknowledges,
\* and only the outcome itself ends the call.
LEMMA SocketStepKeepsPromise ==
    ASSUME adapter = "socket", adapter' = adapter, SocketInv, SocketNext
    PROVE  [Call!Next]_(Call!vars)
<1> USE DEF SocketInv
<1>1. SocketInv' /\ Frame' = Frame /\ Ack' = Ack
  BY SocketStep DEF Frame, Ack
<1> DEFINE Before == exchange.outcome
           After == exchange'.outcome
<1>2. \/ After = Before /\ SocketReached' = SocketReached
      \/ Before = "none" /\ After = SocketUnavailable /\ SocketReached' = SocketReached
      \/ /\ Before = "none" /\ After = "success" /\ SocketReached' = SocketReached
         /\ SocketReached = "acknowledged"
      \/ /\ After = Before /\ Before = "none"
         /\ SocketReached = "nobody" /\ SocketReached' = "somebody"
      \/ After = Before /\ SocketReached = "somebody" /\ SocketReached' = "acknowledged"
  <2>1. CASE Send
    <3>1. PICK sent \in (exchange.sent + 1)..(IF exchange.sent = 0 THEN 1 ELSE Frame) :
               exchange' = [exchange EXCEPT !.sent = sent,
                                            !.at = IF sent = Frame THEN "shutdown" ELSE "early"]
      BY <2>1 DEF Send
    <3>2. exchange.sent \in Nat /\ exchange'.sent = sent /\ After = Before /\ receiver' = receiver
      <4>1. PICK there \in {"shutdown", "early"} :
                 exchange' = [exchange EXCEPT !.sent = sent, !.at = there]
        BY <3>1
      <4>2. exchange.sent \in Nat
        BY SocketAssumption DEF SocketTypeOK, Frame
      <4>3. exchange'.sent = sent /\ exchange'.outcome = exchange.outcome
        BY <4>1 DEF SocketTypeOK
      <4>4. QED BY <2>1, <4>2, <4>3 DEF Send
    <3>3. Before = "none" /\ exchange.sent < Frame /\ Frame \in Nat /\ Frame > 1
      BY <2>1, SocketAssumption DEF Send, Exchanged, At, Frame
    <3>4. CASE exchange.sent = 0
      <4>1. sent = 1
        BY <3>1, <3>4
      <4>2. SocketReached = "nobody" /\ SocketReached' = "somebody"
        BY <1>1, <3>2, <3>3, <3>4, <4>1 DEF SocketReached
      <4>3. QED BY <3>2, <3>3, <4>2
    <3>5. CASE exchange.sent # 0
      <4>1. sent # 0
        BY <3>1, <3>2, <3>3, <3>5
      <4>2. SocketReached = "somebody" /\ SocketReached' \in {"somebody", "acknowledged"}
        BY <1>1, <3>2, <3>3, <3>5, <4>1 DEF SocketReached
      <4>3. QED BY <3>2, <4>2
    <3>6. QED BY <3>4, <3>5
  <2>2. CASE Reply \/ Close
    <3>1. exchange' = exchange /\ ~receiver.closed
      BY <2>2 DEF Reply, Close, Answering
    <3>2. SocketReached # "acknowledged" /\ (SocketReached = "nobody" <=> SocketReached' = "nobody")
      BY <1>1, <3>1 DEF SocketReached
    <3>3. SocketReached' \in {"nobody", "somebody", "acknowledged"}
          /\ SocketReached \in {"nobody", "somebody", "acknowledged"}
      BY DEF SocketReached
    <3>4. QED BY <3>1, <3>2, <3>3
  <2>3. CASE ~(Send \/ Reply \/ Close)
    <3>1. exchange'.sent = exchange.sent /\ receiver' = receiver
      BY <2>3 DEF SocketNext, PrepareTarget, SocketOutcome, SetDeadline, Goto, Connect, CheckPeer,
         VerifyTarget, Block, RejectEarlyResponse, Shutdown, ReceiveSome, ReceiveMore, ReceiveEnd,
         Compare, ReceiveTrailing, SocketFails, Pass, Replace, SocketTypeOK
    <3>2. SocketReached' = SocketReached
      BY <1>1, <3>1 DEF SocketReached
    <3>3. \/ After = Before
          \/ Before = "none" /\ After \in {SocketUnavailable, "success"}
      <4>1. exchange.at # "done" => Before = "none"
        BY DEF Exchanged
      <4>2. CASE \E result \in {SocketUnavailable, "success"} : exchange.at # "done" /\ SocketOutcome(result)
        BY <4>1, <4>2 DEF SocketOutcome, SocketTypeOK
      <4>3. CASE \E there : Goto(there)
        BY <4>3 DEF Goto
      <4>4. CASE PrepareTarget \/ Connect \/ ReceiveSome \/ Pass
                 \/ (\E file \in Sockets \cup {NoSocket} : Replace(file))
        <5>1. ASSUME PrepareTarget
              PROVE  After = Before \/ (Before = "none" /\ After \in {SocketUnavailable, "success"})
          BY <4>1, <5>1 DEF PrepareTarget, SocketOutcome, SocketTypeOK, At
        <5>2. ASSUME Connect \/ ReceiveSome
              PROVE  After = Before
          BY <5>2 DEF Connect, ReceiveSome, SocketTypeOK
        <5>3. ASSUME Pass \/ \E file \in Sockets \cup {NoSocket} : Replace(file)
              PROVE  After = Before
          BY <5>3 DEF Pass, Replace, SocketTypeOK
        <5>4. QED BY <4>4, <5>1, <5>2, <5>3
      <4>5. QED BY <2>3, <4>2, <4>3, <4>4 DEF SocketNext, SetDeadline, CheckPeer, VerifyTarget, Block,
               RejectEarlyResponse, Shutdown, ReceiveMore, ReceiveEnd, Compare, ReceiveTrailing,
               SocketFails, At
    <3>4. After = "success" => SocketReached' = "acknowledged"
      BY <1>1, SocketAssumption DEF Exchanged, SocketReached, Frame
    <3>5. QED BY <3>2, <3>3, <3>4
  <2>4. QED BY <2>1, <2>2, <2>3
<1> HIDE DEF SocketInv
<1>3. /\ SocketUnavailable \notin PreTransport /\ "success" \notin PreTransport
      /\ SocketUnavailable # "success"
  BY PreTransportCodes DEF SocketUnavailable
<1>4. CASE After = Before /\ SocketReached' = SocketReached
  BY <1>4 DEF Call!vars
<1>5. CASE Before = "none" /\ After = SocketUnavailable /\ SocketReached' = SocketReached
  <2>1. Call!Finish(SocketUnavailable)
    BY <1>3, <1>5 DEF Call!Finish
  <2>2. QED BY <2>1 DEF Call!Next
<1>6. CASE /\ Before = "none" /\ After = "success" /\ SocketReached' = SocketReached
           /\ SocketReached = "acknowledged"
  <2>1. Call!Finish("success")
    BY <1>3, <1>6 DEF Call!Finish
  <2>2. QED BY <2>1 DEF Call!Next
<1>7. CASE /\ After = Before /\ Before = "none"
           /\ SocketReached = "nobody" /\ SocketReached' = "somebody"
  BY <1>7 DEF Call!Next, Call!Reach
<1>8. CASE After = Before /\ SocketReached = "somebody" /\ SocketReached' = "acknowledged"
  BY <1>8 DEF Call!Next, Call!Acknowledge
<1>9. QED BY <1>2, <1>4, <1>5, <1>6, <1>7, <1>8

\* A step of the webhook adapter is one too: what leaves first reaches
\* somebody, a successful status acknowledges what has been sent to the end,
\* and the codes of the earlier checks are given only while nothing is sent.
LEMMA WebhookStepKeepsPromise ==
    ASSUME adapter = "webhook", adapter' = adapter, WebhookInv, WebhookNext
    PROVE  [Call!Next]_(Call!vars)
<1> USE DEF WebhookInv
<1> DEFINE Before == attempt.outcome
           After == attempt'.outcome
           Failures == {TransportFailure, "REMOTE_RETRYABLE", "REMOTE_REJECTED"}
<1>1. ASSUME NEW code \in {"success"} \cup PreTransport \cup Failures,
             attempt.at # "done", WebhookOutcome(code)
      PROVE  Before = "none" /\ After = code /\ WebhookReached' = WebhookReached
  BY <1>1 DEF WebhookOutcome, WebhookTypeOK, Allowed, WebhookReached
<1>2. Denied \in PreTransport /\ "success" \notin PreTransport
      /\ Failures \cap PreTransport = {} /\ "success" \notin Failures
  BY PreTransportCodes DEF Denied, TransportFailure
<1>3. \/ After = Before /\ WebhookReached' = WebhookReached
      \/ \E code \in PreTransport : /\ Before = "none" /\ After = code
                                    /\ WebhookReached' = WebhookReached /\ WebhookReached = "nobody"
      \/ \E code \in Failures : /\ Before = "none" /\ After = code
                                /\ WebhookReached' = WebhookReached
      \/ /\ Before = "none" /\ After = "success" /\ WebhookReached' = WebhookReached
         /\ WebhookReached = "acknowledged"
      \/ /\ After = Before /\ Before = "none"
         /\ WebhookReached = "nobody" /\ WebhookReached' = "somebody"
      \/ After = Before /\ WebhookReached = "somebody" /\ WebhookReached' = "acknowledged"
  <2>1. ASSUME attempt.at \in {"check", "resolve", "connect"} PROVE WebhookReached = "nobody"
    BY <2>1 DEF Allowed, WebhookReached
  <2>2. ASSUME NEW code \in PreTransport, attempt.at \in {"check", "resolve"}, WebhookOutcome(code)
        PROVE  Before = "none" /\ After = code
               /\ WebhookReached' = WebhookReached /\ WebhookReached = "nobody"
    BY <1>1, <2>1, <2>2
  <2>3. CASE Check
    <3>1. CASE WebhookOutcome(CodeOf(Checks[attempt.check]))
      <4>1. CodeOf(Checks[attempt.check]) \in PreTransport
        BY <2>3, PreTransportCodes DEF CodeOf
      <4>2. QED BY <2>2, <2>3, <3>1, <4>1 DEF Check
    <3>2. CASE attempt' = [attempt EXCEPT
                  !.at = IF attempt.check = Len(Checks) THEN "resolve" ELSE @, !.check = @ + 1]
      BY <2>1, <2>3, <3>2 DEF Check, WebhookTypeOK, WebhookReached, Allowed
    <3>3. QED BY <2>3, <3>1, <3>2 DEF Check
  <2>4. CASE Resolve \/ ResolverFails
    <3>1. CASE WebhookOutcome(Denied)
      BY <1>2, <2>2, <2>4, <3>1 DEF Resolve, ResolverFails
    <3>2. CASE attempt' = [attempt EXCEPT !.at = "connect", !.addresses = dns.answer]
      BY <3>2 DEF WebhookTypeOK, WebhookReached
    <3>3. QED BY <2>4, <3>1, <3>2 DEF Resolve, ResolverFails
  <2>5. CASE \E a \in Addresses : Handshake(a) \/ ConnectFails(a)
    <3>1. CASE attempt.at # "done" /\ WebhookOutcome(TransportFailure)
      BY <1>1, <3>1
    <3>2. CASE \E a \in Addresses : Handshake(a)
      BY <3>2 DEF Handshake, WebhookTypeOK, WebhookReached
    <3>3. CASE \E a \in Addresses : attempt' = [attempt EXCEPT !.addresses = @ \ {a}]
      BY <3>3 DEF WebhookTypeOK, WebhookReached
    <3>4. QED BY <2>5, <3>1, <3>2, <3>3 DEF ConnectFails
  <2>6. CASE SendRequest
    <3>1. Before = "none" /\ After = Before
      BY <2>6 DEF SendRequest, WebhookTypeOK, Allowed
    <3>2. CASE attempt.sent = "nothing"
      BY <2>6, <3>1, <3>2 DEF SendRequest, WebhookTypeOK, WebhookReached
    <3>3. CASE attempt.sent # "nothing"
      BY <2>6, <3>1, <3>3 DEF SendRequest, WebhookTypeOK, Allowed, WebhookReached
    <3>4. QED BY <3>2, <3>3
  <2>7. CASE ReadResponse
    <3>1. Classify(attempt.status) \in {"success"} \cup Failures
      BY DEF Classify
    <3>2. /\ Before = "none" /\ After = Classify(attempt.status)
          /\ WebhookReached' = WebhookReached
      BY <1>1, <2>7, <3>1 DEF ReadResponse
    <3>3. Classify(attempt.status) = "success" => attempt.status \in 200..299
      BY DEF Classify, TransportFailure
    <3>4. attempt.status \in 200..299 => WebhookReached = "acknowledged"
      BY <2>7 DEF ReadResponse, Allowed, WebhookReached
    <3>5. QED BY <3>1, <3>2, <3>3, <3>4
  <2>8. CASE TransportFails
    BY <1>1, <2>8 DEF TransportFails
  <2>9. CASE Answer
    <3>1. PICK status \in Statuses : attempt' = [attempt EXCEPT !.status = status]
      BY <2>9 DEF Answer
    <3>2. After = Before /\ attempt'.sent = attempt.sent
      BY <3>1 DEF WebhookTypeOK
    <3>3. WebhookReached = "somebody" /\ WebhookReached' \in {"somebody", "acknowledged"}
      BY <2>9, <3>2 DEF Answer, WebhookReached
    <3>4. QED BY <3>2, <3>3
  <2>10. CASE Rebind
    BY <2>10 DEF Rebind, WebhookReached
  <2>11. QED BY <2>3, <2>4, <2>5, <2>6, <2>7, <2>8, <2>9, <2>10 DEF WebhookNext
<1> HIDE DEF WebhookInv
<1>4. CASE After = Before /\ WebhookReached' = WebhookReached
  BY <1>4 DEF Call!vars
<1>5. ASSUME NEW code \in PreTransport \cup Failures \cup {"success"},
             Before = "none", After = code, WebhookReached' = WebhookReached,
             code = "success" => WebhookReached = "acknowledged",
             code \in PreTransport => WebhookReached = "nobody"
      PROVE  Call!Next
  <2>1. Call!Finish(code)
    BY <1>5 DEF Call!Finish
  <2>2. QED BY <2>1 DEF Call!Next
<1>6. CASE /\ After = Before /\ Before = "none"
           /\ WebhookReached = "nobody" /\ WebhookReached' = "somebody"
  BY <1>6 DEF Call!Next, Call!Reach
<1>7. CASE After = Before /\ WebhookReached = "somebody" /\ WebhookReached' = "acknowledged"
  BY <1>7 DEF Call!Next, Call!Acknowledge
<1>8. QED BY <1>2, <1>3, <1>4, <1>5, <1>6, <1>7

\* Either adapter implements the call the runner relies on: a success means
\* that the receiver's whole answer acknowledges this event, and a code of a
\* check made before the transport that nobody has seen it.  (deliver)
THEOREM AdaptersKeepPromise == Spec => KeepsPromise
<1>1. Init => Call!Init
  <2> SUFFICES ASSUME Init PROVE Call!Init
    OBVIOUS
  <2>1. CASE adapter = "socket"
    BY <2>1 DEF Init, SocketInit, SocketReached, Call!Init
  <2>2. CASE adapter = "webhook"
    <3>1. WebhookInit
      BY <2>2 DEF Init
    <3>2. QED BY <2>2, <3>1 DEF WebhookInit, WebhookReached, Call!Init
  <2>3. QED BY <2>1, <2>2 DEF Init
<1>2. IInv /\ [Next]_vars => [Call!Next]_(Call!vars)
  <2> SUFFICES ASSUME IInv, [Next]_vars PROVE [Call!Next]_(Call!vars)
    OBVIOUS
  <2>1. CASE adapter = "socket" /\ SocketNext /\ UNCHANGED <<adapter, webhookVars>>
    BY <2>1, SocketStepKeepsPromise DEF IInv
  <2>2. CASE adapter = "webhook" /\ WebhookNext /\ UNCHANGED <<adapter, socketVars>>
    BY <2>2, WebhookStepKeepsPromise DEF IInv
  <2>3. CASE UNCHANGED vars
    <3>1. UNCHANGED <<adapter, exchange, receiver, attempt>>
      BY <2>3 DEF vars, socketVars, webhookVars
    <3>2. SocketReached' = SocketReached /\ WebhookReached' = WebhookReached
      BY <3>1 DEF SocketReached, WebhookReached, Frame, Ack
    <3>3. QED BY <3>1, <3>2 DEF Call!vars
  <2>4. QED BY <2>1, <2>2, <2>3 DEF Next
<1>3. QED BY <1>1, <1>2, CallsAreSafe, PTL DEF Spec, KeepsPromise, Call!Spec
=============================================================================
