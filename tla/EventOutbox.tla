----------------------------- MODULE EventOutbox -----------------------------
(***************************************************************************)
(* The workspace event outbox (infrastructure/event_outbox.py) and the     *)
(* bounded delivery runner over it (application/event_delivery.py).        *)
(*                                                                         *)
(* Every store operation is one SQLite BEGIN IMMEDIATE transaction, so it  *)
(* is one atomic action here.  A delivery runner is not atomic: it reads   *)
(* the clock, claims, calls the adapter outside any transaction and then   *)
(* reports the outcome, and it may die between any two of these.  Several  *)
(* runners (processes) may serve one consumer at the same time.            *)
(*                                                                         *)
(* A NULL number or time is 0: sequences and deadlines are positive when   *)
(* present.                                                                *)
(***************************************************************************)
EXTENDS Integers, Sequences, FiniteSets

CONSTANTS
    Consumers,      \* consumer identifiers an operator may register
    Workers,        \* processes able to run the delivery service
    Tokens,         \* claim tokens (new ULIDs in the code)
    NoToken,        \* a NULL claim_token
    StartSequences, \* --start-sequence values an operator may give
    Lease,          \* DeliveryRetryProfile.lease_seconds
    RetryDelays,    \* DeliveryRetryProfile.retry_delays
    MaxAttempts,    \* DeliveryRetryProfile.max_attempts
    MaxEvents,      \* the runner's max_events
    MaxSequence,    \* bound: events ever committed
    MaxTime,        \* bound: the clock
    MaxCrashes,     \* bound: processes that die
    NoConsumer      \* the consumer of an idle runner

\* DeliveryRetryProfile.__post_init__ refuses anything else, and
\* _validate_sequence refuses a start sequence below 1.
ASSUME ProfileAssumption ==
    /\ Lease \in Nat \ {0}
    /\ MaxAttempts \in Nat \ {0}
    /\ MaxEvents \in Nat \ {0}
    /\ RetryDelays \in Seq(Nat \ {0})
    /\ RetryDelays # <<>>
    /\ StartSequences \subseteq Nat \ {0}

ASSUME NamesAssumption ==
    /\ NoToken \notin Tokens
    /\ NoConsumer \notin Consumers

ASSUME BoundsAssumption ==
    /\ MaxSequence \in Nat
    /\ MaxTime \in Nat
    /\ MaxCrashes \in Nat

VARIABLES
    events,       \* table events: sequence -> row, on the retained sequences
    lastSequence, \* table sequence_state
    registered,   \* the consumers that have a row in table consumers
    consumers,    \* table consumers
    now,          \* the wall clock
    worker,       \* local state of each delivery process
    crashes,      \* how many processes have died
    \* Observers, read by no guard of the code:
    published,    \* every event row committed so far, in commit order
    trimmed,      \* the highest sequence retention has removed
    start,        \* the sequence each consumer was registered at
    base,         \* what had been trimmed when the consumer was registered
    accepted,     \* the sequences the consumer's adapter has reported delivered
    abandoned     \* the sequences an operator abandoned for the consumer

storeVars == <<events, lastSequence, registered, consumers>>
observers == <<published, trimmed, start, base, accepted, abandoned>>
vars == <<storeVars, now, worker, crashes, observers>>

NULL == 0
NoClaim == [seq |-> NULL, id |-> NULL, token |-> NoToken, expires |-> NULL]
FreshRow(first) ==
    [next |-> first, claim |-> NoClaim, attempts |-> 0, due |-> NULL, failed |-> FALSE]
Idle ==
    [pc |-> "idle", consumer |-> NoConsumer, time |-> 0, claim |-> NoClaim, left |-> 0]

\* An event names the consumer and sequence it audits; a public event none.
NoAudit == [consumer |-> NoConsumer, seq |-> 0]
\* Mutant: the audit payload is built after the cursor has moved.
LateAudit(c, s) == [consumer |-> c, seq |-> s + 1]
AbandonAudit(c, s) == [consumer |-> c, seq |-> s]

Claim == [seq : Nat, id : Nat, token : Tokens \cup {NoToken}, expires : Nat]
Audit == [consumer : Consumers \cup {NoConsumer}, seq : Nat]
EventRow == [id : Nat \ {0}, audit : Audit]
ConsumerRow == [next : Nat \ {0}, claim : Claim, attempts : Nat, due : Nat, failed : BOOLEAN]
Process == [pc : {"idle", "ready", "sampled", "delivering", "acknowledging", "failing"},
            consumer : Consumers \cup {NoConsumer},
            time : Nat, claim : Claim, left : Nat]

Init ==
    /\ events = [s \in {} |-> 0]
    /\ lastSequence = 0
    /\ registered = {}
    /\ consumers = [c \in Consumers |-> FreshRow(1)]
    /\ now = 1
    /\ worker = [w \in Workers |-> Idle]
    /\ crashes = 0
    /\ published = <<>>
    /\ trimmed = 0
    /\ start = [c \in Consumers |-> 1]
    /\ base = [c \in Consumers |-> 0]
    /\ accepted = [c \in Consumers |-> {}]
    /\ abandoned = [c \in Consumers |-> {}]

-----------------------------------------------------------------------------
(* Producing events *)

\* Mutant: the next sequence is taken from the table instead of the counter.
AllocatedFromTable == IF events = <<>> THEN 1 ELSE 1 + CHOOSE s \in DOMAIN events :
                                                    \A t \in DOMAIN events : t <= s

\* _allocate_sequence: the next value of the persistent counter.
AllocatedSequence == lastSequence + 1

\* One INSERT into events with the allocated sequence and a new event id.
InsertEvent(audit) ==
    LET row == [id |-> Len(published) + 1, audit |-> audit]
    IN  /\ lastSequence < MaxSequence
        /\ lastSequence' = AllocatedSequence
        /\ events' = [s \in DOMAIN events \cup {AllocatedSequence} |->
                        IF s = AllocatedSequence THEN row ELSE events[s]]
        /\ published' = Append(published, row)

\* append(); an append that fails rolls back and changes nothing.
AppendEvent ==
    /\ InsertEvent(NoAudit)
    /\ UNCHANGED <<registered, consumers, now, worker, crashes,
                   trimmed, start, base, accepted, abandoned>>

-----------------------------------------------------------------------------
(* Operator commands *)

\* register_consumer() of a new name; repeating it changes nothing or is refused.
RegisterConsumer(c, first) ==
    /\ c \notin registered
    /\ registered' = registered \cup {c}
    /\ consumers' = [consumers EXCEPT ![c] = FreshRow(first)]
    /\ start' = [start EXCEPT ![c] = first]
    /\ base' = [base EXCEPT ![c] = trimmed]
    /\ UNCHANGED <<events, lastSequence, now, worker, crashes,
                   published, trimmed, accepted, abandoned>>

\* The WHERE clause shared by retry() and abandon(): the exact event the
\* consumer is blocked on, with no claim outstanding.
Blocked(c, s, id) ==
    /\ c \in registered
    /\ consumers[c].next = s
    /\ consumers[c].failed
    /\ consumers[c].claim.token = NoToken
    /\ s \in DOMAIN events
    /\ events[s].id = id

\* The schedule columns as retry, abandon and acknowledge leave them.
Rescheduled(row) == FreshRow(row.next)
Advanced(row) == FreshRow(row.next + 1)

Retry(c, s, id) ==
    /\ Blocked(c, s, id)
    /\ consumers' = [consumers EXCEPT ![c] = Rescheduled(@)]
    /\ UNCHANGED <<events, lastSequence, registered, now, worker, crashes, observers>>

\* abandon(apply=True): skip the event and append the audit event, together.
Abandon(c, s, id) ==
    /\ Blocked(c, s, id)
    /\ consumers' = [consumers EXCEPT ![c] = Advanced(@)]
    /\ InsertEvent(AbandonAudit(c, s))
    /\ abandoned' = [abandoned EXCEPT ![c] = @ \cup {s}]
    /\ UNCHANGED <<registered, now, worker, crashes, trimmed, start, base, accepted>>

\* Mutant: MAX(next_sequence) - 1, what the fastest consumer has completed.
IsFastestPrefix(n) == \A c \in registered : n >= consumers[c].next - 1

\* MIN(next_sequence) - 1 over the registered consumers is n.
IsCompletedPrefix(n) ==
    /\ \E c \in registered : n = consumers[c].next - 1
    /\ \A c \in registered : n <= consumers[c].next - 1

\* retain(apply=True); without an event to remove it rolls back.
Retain(n) ==
    /\ IsCompletedPrefix(n)
    /\ \E s \in DOMAIN events : s <= n
    /\ events' = [s \in {t \in DOMAIN events : t > n} |-> events[s]]
    /\ trimmed' = IF n < lastSequence THEN n ELSE lastSequence
    /\ UNCHANGED <<lastSequence, registered, consumers, now, worker, crashes,
                   published, start, base, accepted, abandoned>>

-----------------------------------------------------------------------------
(* The delivery runner: EventDeliveryService.run and step *)

\* Mutants: a lease ends one unit early; a lease never ends.
LeasedBriefly(row, t) == row.claim.expires > t + 1
LeasedForEver(row, t) == row.claim.token # NoToken

\* Why claim_next() declines at time t: a lease another process may still be
\* working under, a failure without a retry time, a retry time not yet reached.
Leased(row, t) == row.claim.expires > t
Exhausted(row) == row.failed /\ row.due = NULL
Delayed(row, t) == row.due > t

\* Mutant: exhaustion no longer stops the delivery.
DueThoughExhausted(row, t) == ~ Leased(row, t) /\ ~ Delayed(row, t)
Due(row, t) == ~ Leased(row, t) /\ ~ Exhausted(row) /\ ~ Delayed(row, t)

StartRun(w, c) ==
    /\ worker[w].pc = "idle"
    /\ worker' = [worker EXCEPT ![w] = [Idle EXCEPT !.pc = "ready", !.consumer = c,
                                                    !.left = MaxEvents]]
    /\ UNCHANGED <<storeVars, now, crashes, observers>>

\* step() reads the clock before it opens the claiming transaction.
ReadClock(w) ==
    /\ worker[w].pc = "ready"
    /\ worker' = [worker EXCEPT ![w].pc = "sampled", ![w].time = now]
    /\ UNCHANGED <<storeVars, now, crashes, observers>>

\* Mutant: a worker reuses a token another one may hold.
IsAnyToken(token) == token \in Tokens

\* A new ULID differs from every token somebody still holds.
IsFresh(token) ==
    /\ \A w \in Workers : worker[w].claim.token # token
    /\ \A c \in Consumers : consumers[c].claim.token # token

\* Mutant: after a failure the following event is offered.
TargetPastFailure(row) == IF row.failed THEN row.next + 1 ELSE row.next

\* The one sequence claim_next() may lease.
ClaimTarget(row) == row.next

\* claim_next() leases exactly the consumer's next sequence.
ClaimNext(w, token) ==
    LET c == worker[w].consumer
        next == ClaimTarget(consumers[c])
        claim == [seq |-> next, id |-> events[next].id, token |-> token,
                  expires |-> worker[w].time + Lease]
    IN  /\ worker[w].pc = "sampled"
        /\ c \in registered
        /\ Due(consumers[c], worker[w].time)
        /\ next \in DOMAIN events
        /\ IsFresh(token)
        /\ consumers' = [consumers EXCEPT ![c].claim = claim]
        /\ worker' = [worker EXCEPT ![w].pc = "delivering", ![w].claim = claim]
        /\ UNCHANGED <<events, lastSequence, registered, now, crashes, observers>>

\* claim_next() without an event at the cursor drops an expired lease.
ClaimNothing(w) ==
    LET c == worker[w].consumer
    IN  /\ worker[w].pc = "sampled"
        /\ c \in registered
        /\ Due(consumers[c], worker[w].time)
        /\ ClaimTarget(consumers[c]) \notin DOMAIN events
        /\ consumers' = [consumers EXCEPT ![c].claim = NoClaim]
        /\ worker' = [worker EXCEPT ![w] = Idle]
        /\ UNCHANGED <<events, lastSequence, registered, now, crashes, observers>>

\* claim_next() of an unregistered, leased, exhausted or delayed consumer.
ClaimRefused(w) ==
    LET c == worker[w].consumer
    IN  /\ worker[w].pc = "sampled"
        /\ c \in registered => ~ Due(consumers[c], worker[w].time)
        /\ worker' = [worker EXCEPT ![w] = Idle]
        /\ UNCHANGED <<storeVars, now, crashes, observers>>

\* The adapter reports the event delivered ...
AdapterDelivers(w) ==
    LET c == worker[w].consumer
    IN  /\ worker[w].pc = "delivering"
        /\ accepted' = [accepted EXCEPT ![c] = @ \cup {worker[w].claim.seq}]
        /\ worker' = [worker EXCEPT ![w].pc = "acknowledging"]
        /\ UNCHANGED <<storeVars, now, crashes, published, trimmed, start, base, abandoned>>

\* ... or fails, raises, or returns something else than an outcome.
AdapterFails(w) ==
    /\ worker[w].pc = "delivering"
    /\ worker' = [worker EXCEPT ![w].pc = "failing"]
    /\ UNCHANGED <<storeVars, now, crashes, observers>>

\* The WHERE clause of acknowledge() and record_failure().
StillHolds(c, claim) ==
    /\ c \in registered
    /\ consumers[c].next = claim.seq
    /\ consumers[c].claim.seq = claim.seq
    /\ consumers[c].claim.id = claim.id
    /\ consumers[c].claim.token = claim.token

\* Mutant: the batch bound is not looked at.
ContinuedUnbounded(process) ==
    [process EXCEPT !.pc = "ready", !.time = 0, !.claim = NoClaim, !.left = @ - 1]

\* run() goes on after a delivery until max_events.
Continued(process) ==
    IF process.left > 1
    THEN [process EXCEPT !.pc = "ready", !.time = 0, !.claim = NoClaim, !.left = @ - 1]
    ELSE Idle

Acknowledge(w) ==
    LET c == worker[w].consumer
    IN  /\ worker[w].pc = "acknowledging"
        /\ StillHolds(c, worker[w].claim)
        /\ consumers' = [consumers EXCEPT ![c] = Advanced(@)]
        /\ worker' = [worker EXCEPT ![w] = Continued(@)]
        /\ UNCHANGED <<events, lastSequence, registered, now, crashes, observers>>

\* The delay before attempt number n + 1; the last delay repeats.
RetryDelay(n) == RetryDelays[IF n < Len(RetryDelays) THEN n ELSE Len(RetryDelays)]

\* Mutants: an exhausted event is skipped; one more attempt than configured; the
\* claim survives the failure.
FailedThenSkipped(row, t) ==
    IF row.attempts + 1 < MaxAttempts
    THEN [row EXCEPT !.claim = NoClaim, !.attempts = @ + 1, !.failed = TRUE,
                     !.due = t + RetryDelay(row.attempts + 1)]
    ELSE Advanced(row)
FailedOnceMore(row, t) ==
    LET n == row.attempts + 1
    IN  [next |-> row.next, claim |-> NoClaim, attempts |-> n, failed |-> TRUE,
         due |-> IF n <= MaxAttempts THEN t + RetryDelay(n) ELSE NULL]
FailedKeepingClaim(row, t) ==
    LET n == row.attempts + 1
    IN  [row EXCEPT !.attempts = n, !.failed = TRUE,
                    !.due = IF n < MaxAttempts THEN t + RetryDelay(n) ELSE NULL]

\* The row after a failure observed at time t.
Failed(row, t) ==
    LET n == row.attempts + 1
    IN  [next |-> row.next, claim |-> NoClaim, attempts |-> n, failed |-> TRUE,
         due |-> IF n < MaxAttempts THEN t + RetryDelay(n) ELSE NULL]

\* record_failure() is given the time read before the delivery.
RecordFailure(w) ==
    LET c == worker[w].consumer
    IN  /\ worker[w].pc = "failing"
        /\ StillHolds(c, worker[w].claim)
        /\ consumers' = [consumers EXCEPT ![c] = Failed(@, worker[w].time)]
        /\ worker' = [worker EXCEPT ![w] = Idle]
        /\ UNCHANGED <<events, lastSequence, registered, now, crashes, observers>>

\* Both refuse a stale claim; the StateError ends the run.
ReportStale(w) ==
    /\ worker[w].pc \in {"acknowledging", "failing"}
    /\ ~ StillHolds(worker[w].consumer, worker[w].claim)
    /\ worker' = [worker EXCEPT ![w] = Idle]
    /\ UNCHANGED <<storeVars, now, crashes, observers>>

-----------------------------------------------------------------------------
(* The environment *)

\* A delivery process dies and forgets everything; the database does not.
Crash(w) ==
    /\ worker[w].pc # "idle"
    /\ crashes < MaxCrashes
    /\ crashes' = crashes + 1
    /\ worker' = [worker EXCEPT ![w] = Idle]
    /\ UNCHANGED <<storeVars, now, observers>>

Tick ==
    /\ now < MaxTime
    /\ now' = now + 1
    /\ UNCHANGED <<storeVars, worker, crashes, observers>>

Operate ==
    \/ \E c \in Consumers, first \in StartSequences : RegisterConsumer(c, first)
    \/ \E c \in Consumers, s \in 1..lastSequence, id \in 1..Len(published) :
           Retry(c, s, id) \/ Abandon(c, s, id)
    \/ \E c \in registered : Retain(consumers[c].next - 1)

Deliver(w) ==
    \/ \E c \in Consumers : StartRun(w, c)
    \/ ReadClock(w)
    \/ \E token \in Tokens : ClaimNext(w, token)
    \/ ClaimNothing(w)
    \/ ClaimRefused(w)
    \/ AdapterDelivers(w)
    \/ AdapterFails(w)
    \/ Acknowledge(w)
    \/ RecordFailure(w)
    \/ ReportStale(w)

Next ==
    \/ AppendEvent
    \/ Operate
    \/ \E w \in Workers : Deliver(w) \/ Crash(w)
    \/ Tick

Spec == Init /\ [][Next]_vars

-----------------------------------------------------------------------------
(* What the outbox promises *)

TypeOK ==
    /\ lastSequence \in 0..MaxSequence
    /\ events \in [DOMAIN events -> EventRow]
    /\ registered \subseteq Consumers
    /\ consumers \in [Consumers -> ConsumerRow]
    /\ now \in 1..(MaxTime + 1)
    /\ worker \in [Workers -> Process]
    /\ crashes \in 0..MaxCrashes
    /\ published \in Seq(EventRow)
    /\ trimmed \in Nat
    /\ start \in [Consumers -> Nat \ {0}]
    /\ base \in [Consumers -> Nat]
    /\ accepted \in [Consumers -> SUBSET Nat]
    /\ abandoned \in [Consumers -> SUBSET Nat]

\* The processes that hold a claim, as far as they know.
Holding == {"delivering", "acknowledging", "failing"}

(* Sequences are allocated without a gap and never used twice, retention     *)
(* only ever removes a prefix, and what is stored under a sequence is for    *)
(* good the event committed there: append, abandon and retain, in any order. *)
SequenceIntegrity ==
    /\ Len(published) = lastSequence
    /\ DOMAIN events = (trimmed + 1)..lastSequence
    /\ trimmed <= lastSequence
    /\ \A s \in DOMAIN events : events[s] = published[s]
    /\ \A s \in 1..lastSequence : published[s].id = s

(* At least once: a cursor has passed only events that the adapter accepted  *)
(* or an operator abandoned, whatever crashed, expired or was retried.       *)
NoEventSkipped ==
    \A c \in registered :
        /\ start[c] <= consumers[c].next
        /\ start[c]..(consumers[c].next - 1) \subseteq accepted[c] \cup abandoned[c]

(* In order: no adapter call, even one of a stale process, is ever ahead of  *)
(* the cursor, so first deliveries happen in sequence order.                 *)
FirstDeliveryInOrder ==
    \A c \in Consumers :
        accepted[c] \cup abandoned[c] \subseteq start[c]..consumers[c].next

(* An abandoned event is behind the cursor and the log holds exactly one     *)
(* audit event for it; no audit exists without its abandonment: the skip and *)
(* its audit are one transaction.                                            *)
AbandonmentAudited ==
    /\ \A c \in Consumers : \A s \in abandoned[c] :
           /\ s < consumers[c].next
           /\ \E i \in DOMAIN published : published[i].audit = [consumer |-> c, seq |-> s]
    /\ \A i \in DOMAIN published :
           LET audit == published[i].audit
           IN  audit # NoAudit =>
                   /\ audit.consumer \in Consumers
                   /\ audit.seq \in abandoned[audit.consumer]
                   /\ \A j \in DOMAIN published : published[j].audit = audit => j = i

\* A claim is on the event at the cursor; the event a consumer is working on or
\* blocked on is retained; a delivery history begins at the registered sequence.
RowsConsistent ==
    \A c \in Consumers :
        LET row == consumers[c]
        IN  /\ row.claim # NoClaim => row.claim.token \in Tokens /\ row.claim.seq = row.next
            /\ row.claim # NoClaim \/ row.failed =>
                   c \in registered /\ trimmed < row.next /\ row.next <= lastSequence
            /\ c \notin registered => accepted[c] = {} /\ abandoned[c] = {}
            /\ start[c] <= row.next

\* A process with a claim works for a registered consumer on an event at or
\* behind its cursor, and reports a delivery only after having made it.
ProcessesConsistent ==
    \A w \in Workers :
        LET p == worker[w]
        IN  /\ p.time <= now
            /\ p.pc \notin Holding => p.claim = NoClaim
            /\ p.pc \in Holding =>
                   /\ p.consumer \in registered
                   /\ p.claim.token \in Tokens
                   /\ start[p.consumer] <= p.claim.seq
                   /\ p.claim.seq <= consumers[p.consumer].next
                   /\ p.claim.seq <= lastSequence
            /\ p.pc = "acknowledging" => p.claim.seq \in accepted[p.consumer]

\* A token is known to at most one process and at most one row, and then to
\* both as the same claim.
TokensUnique ==
    /\ \A v, w \in Workers :
           v # w /\ worker[v].claim.token = worker[w].claim.token
               => worker[w].claim.token = NoToken
    /\ \A c, d \in Consumers :
           c # d /\ consumers[c].claim.token = consumers[d].claim.token
               => consumers[c].claim.token = NoToken
    /\ \A w \in Workers, c \in Consumers :
           worker[w].pc \in Holding /\ consumers[c].claim.token = worker[w].claim.token
               => worker[w].consumer = c /\ consumers[c].claim = worker[w].claim

(* Rows and processes agree about every claim, although a process learns of  *)
(* the loss of its claim only when it reports.                               *)
ClaimBookkeeping == RowsConsistent /\ ProcessesConsistent /\ TokensUnique

(* A process that reports its outcome before its lease runs out is never     *)
(* refused, and no two processes can both complete the same claim.           *)
LeaseProtects ==
    /\ \A w \in Workers :
           worker[w].pc \in Holding /\ worker[w].claim.expires > now
               => StillHolds(worker[w].consumer, worker[w].claim)
    /\ \A v, w \in Workers :
           /\ v # w
           /\ worker[v].pc \in Holding /\ worker[w].pc \in Holding
           /\ worker[v].consumer = worker[w].consumer
           => \/ ~ StillHolds(worker[v].consumer, worker[v].claim)
              \/ ~ StillHolds(worker[w].consumer, worker[w].claim)

(* attempt_count, failure_reason and next_attempt_at tell one story: no      *)
(* event is attempted again once its recorded attempts are used up.          *)
RetryAccounting ==
    \A c \in Consumers :
        LET row == consumers[c]
        IN  /\ row.attempts <= MaxAttempts
            /\ row.failed <=> row.attempts > 0
            /\ Exhausted(row) <=> row.attempts = MaxAttempts
            /\ row.claim # NoClaim => row.attempts < MaxAttempts

(* An exhausted consumer is one that retry and abandon accept: it holds no   *)
(* claim, and the event it is blocked on is still stored.                    *)
ExhaustedIsRecoverable ==
    \A c \in registered :
        Exhausted(consumers[c]) =>
            \E id \in 1..Len(published) : Blocked(c, consumers[c].next, id)

(* Retention never takes an event from a consumer that still needs it,       *)
(* provided the consumer was registered at a sequence still retained then.   *)
NeededEventsRetained ==
    \A c \in registered :
        start[c] > base[c] => consumers[c].next..lastSequence \subseteq DOMAIN events

(* No late outcome, retry timer or other process unblocks an exhausted       *)
(* consumer: its row changes only by retry or by an audited abandon.         *)
ExhaustedWaitsForOperator ==
    [][\A c \in registered :
           LET row == consumers[c]
           IN  Exhausted(row) /\ consumers'[c] # row =>
                   \/ consumers'[c] = FreshRow(row.next)
                   \/ /\ consumers'[c] = FreshRow(row.next + 1)
                      /\ row.next \in abandoned'[c]
      ]_vars

-----------------------------------------------------------------------------
(* Refinement *)

\* The abstract cursors: 0 until the consumer has a row.
Cursor == [c \in Consumers |-> IF c \in registered THEN consumers[c].next ELSE 0]

Abstract == INSTANCE OrderedDelivery WITH
    Starts <- StartSequences,
    log <- published,
    floor <- trimmed,
    cursor <- Cursor,
    accepted <- accepted

(* With its leases, tokens, clocks, crashes and retries the outbox delivers  *)
(* as TS-0023 says: ordered and at least once per consumer, skipping only    *)
(* with an audit record, trimming only what every consumer is past.          *)
DeliversInOrder == Abstract!Spec
=============================================================================
