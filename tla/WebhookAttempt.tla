--------------------------- MODULE WebhookAttempt ---------------------------
(***************************************************************************)
(* One webhook delivery: HttpsWebhookDeliveryAdapter.deliver with the      *)
(* bound HTTPS transport, beside a name service whose answers change and   *)
(* servers that may fail at any point.                                     *)
(*                                                                         *)
(* An endpoint is what the configuration may select.  Secrets, signatures  *)
(* and certificates are abstracted to whether they are usable; headers and *)
(* contents are left out.                                                  *)
(***************************************************************************)
EXTENDS Integers, Sequences

CONSTANTS
    Addresses,     \* the addresses the name may resolve to
    Kind,          \* how the address policy sees each
    Genuine,       \* those whose server has a valid certificate for the name
    MaxChanges     \* bounds the changes of the name's addresses

\* "special" stands for loopback, link-local, multicast, unspecified, reserved
\* and IPv4-mapped addresses, "listed" for private ones a policy may name, and
\* "text" for an answer that is not a canonical address.
Kinds == {"global", "private", "listed", "special", "text"}

ASSUME WebhookAssumption ==
    /\ Kind \in [Addresses -> Kinds] /\ Genuine \subseteq Addresses /\ MaxChanges \in Nat

VARIABLES
    dns,       \* what the name resolves to now, and how often that changed
    attempt    \* the attempt

webhookVars == <<dns, attempt>>

-----------------------------------------------------------------------------
(* Configuration. *)

\* Schema 5 asks for the second signature; before it there is the first only.
SignatureVersions(schema) ==
    CASE schema < 4 -> {0}
      [] schema = 4 -> {0, 1}
      [] schema = 5 -> {0, 2}
      [] schema = 6 -> {0, 1, 2}

\* A certificate and its key come together, from files, in schema 6.
ClientIdentities(schema) == IF schema < 6 THEN {FALSE} ELSE BOOLEAN

\* The endpoints a document of a schema may define.  `private` tells that a
\* network policy is selected; policies name private networks only.
EndpointsOf(schema) ==
    [bearer : BOOLEAN, signature : SignatureVersions(schema),
     identity : ClientIdentities(schema), private : IF schema = 1 THEN {FALSE} ELSE BOOLEAN]

Endpoints == UNION {EndpointsOf(schema) : schema \in 1..6}

\* _address_allowed, and the canonical form it is asked for.
AddressAllowed(endpoint, address) ==
    Kind[address] = IF endpoint.private THEN "listed" ELSE "global"

-----------------------------------------------------------------------------
(* Outcomes. *)

Checks == <<"payload", "bearer", "signing key", "client identity", "signature">>

Needed(check) ==
    LET e == attempt.endpoint
    IN  CASE check = "payload" -> TRUE
          [] check = "bearer" -> e.bearer
          [] check = "client identity" -> e.identity
          [] OTHER -> e.signature # 0

CodeOf(check) ==
    CASE check = "payload" -> "PAYLOAD_TOO_LARGE"
      [] check = "bearer" -> "AUTHENTICATION_UNAVAILABLE"
      [] check = "client identity" -> "CLIENT_IDENTITY_UNAVAILABLE"
      [] OTHER -> "SIGNING_UNAVAILABLE"

Denied == "DESTINATION_DENIED"
TransportFailure == "TRANSPORT_FAILURE"

\* One status of each class the code tells apart; 999 is not a status.
Statuses == {103, 200, 204, 299, 302, 404, 408, 425, 429, 500, 599, 999}

Classify(status) ==
    CASE status \notin 100..599 -> TransportFailure
      [] status \in 200..299 -> "success"
      [] status \in {408, 425, 429} \/ status \in 500..599 -> "REMOTE_RETRYABLE"
      [] OTHER -> "REMOTE_REJECTED"

WebhookOutcome(code) == attempt' = [attempt EXCEPT !.at = "done", !.outcome = code]

-----------------------------------------------------------------------------
(* The attempt. *)

\* Everything that can be refused without the network comes first, in order.
Check ==
    /\ attempt.at = "check"
    /\ LET check == Checks[attempt.check]
       IN  \/ attempt' = [attempt EXCEPT
                  !.at = IF attempt.check = Len(Checks) THEN "resolve" ELSE @, !.check = @ + 1]
           \/ Needed(check) /\ WebhookOutcome(CodeOf(check))
    /\ UNCHANGED dns

\* Every address must be allowed.
Resolve ==
    /\ attempt.at = "resolve"
    /\ IF dns.answer # {} /\ \A a \in dns.answer : AddressAllowed(attempt.endpoint, a)
       THEN attempt' = [attempt EXCEPT !.at = "connect", !.addresses = dns.answer]
       ELSE WebhookOutcome(Denied)
    /\ UNCHANGED dns

ResolverFails == attempt.at = "resolve" /\ WebhookOutcome(Denied) /\ UNCHANGED dns

\* Mutant: the connection goes by the name and resolves it again.
Reachable == dns.answer

\* The addresses found valid, each tried once.
Candidates == attempt.addresses

\* The handshake authenticates the name, whatever the address.
Handshake(address) ==
    /\ attempt.at = "connect" /\ address \in Candidates /\ address \in Genuine
    /\ attempt' = [attempt EXCEPT !.at = "request", !.peer = address]
    /\ UNCHANGED dns

\* No connection, a timeout, or no valid certificate: the next address.
ConnectFails(address) ==
    /\ attempt.at = "connect" /\ address \in Candidates
    /\ IF attempt.addresses \ {address} = {} THEN WebhookOutcome(TransportFailure)
       ELSE attempt' = [attempt EXCEPT !.addresses = @ \ {address}]
    /\ UNCHANGED dns

\* Headers, then the body; once something is sent no other address is tried.
SendRequest ==
    /\ attempt.at = "request"
    /\ attempt' = IF attempt.sent = "nothing" THEN [attempt EXCEPT !.sent = "part"]
                  ELSE [attempt EXCEPT !.sent = "all", !.at = "response"]
    /\ UNCHANGED dns

\* A bounded part of the response is read before its status counts.
ReadResponse ==
    /\ attempt.at = "response" /\ attempt.status # 0
    /\ WebhookOutcome(Classify(attempt.status))
    /\ UNCHANGED dns

\* Building the TLS context, sending or reading raises.
TransportFails ==
    /\ attempt.at \in {"connect", "request", "response"}
    /\ WebhookOutcome(TransportFailure) /\ UNCHANGED dns

-----------------------------------------------------------------------------
(* The others. *)

\* A server may answer before it has read everything, and when nobody waits.
Answer ==
    /\ attempt.sent # "nothing" /\ attempt.status = 0
    /\ \E status \in Statuses : attempt' = [attempt EXCEPT !.status = status]
    /\ UNCHANGED dns

Rebind ==
    /\ attempt.at # "done" /\ dns.changes < MaxChanges
    /\ \E answer \in SUBSET Addresses \ {dns.answer} :
           dns' = [answer |-> answer, changes |-> dns.changes + 1]
    /\ UNCHANGED attempt

-----------------------------------------------------------------------------
WebhookInit ==
    /\ dns \in [answer : SUBSET Addresses, changes : {0}]
    /\ attempt \in [endpoint : Endpoints, at : {"check"}, check : {1}, addresses : {{}},
                    peer : {"none"}, sent : {"nothing"}, status : {0}, outcome : {"none"}]

WebhookNext ==
    \/ Check \/ Resolve \/ ResolverFails
    \/ (\E a \in Addresses : Handshake(a) \/ ConnectFails(a))
    \/ SendRequest \/ ReadResponse \/ TransportFails \/ Answer \/ Rebind

WebhookReached ==
    IF attempt.sent = "nothing" THEN "nobody"
    ELSE IF attempt.sent = "all" /\ attempt.status \in 200..299 THEN "acknowledged"
    ELSE "somebody"
=============================================================================
