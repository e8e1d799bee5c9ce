-------------------------- MODULE EventOutboxProofs --------------------------
(***************************************************************************)
(* The properties of EventOutbox, proved for every set of consumers,       *)
(* processes and tokens, every retry profile and every bound.              *)
(***************************************************************************)
EXTENDS EventOutbox, TLAPS

USE DEF NULL

(* The steps of the outbox, one disjunct per action. *)
LEMMA StepCases ==
    ASSUME [Next]_vars
    PROVE  \/ AppendEvent
           \/ \E c \in Consumers, first \in StartSequences : RegisterConsumer(c, first)
           \/ \E c \in Consumers, s \in 1..lastSequence, id \in 1..Len(published) : Retry(c, s, id)
           \/ \E c \in Consumers, s \in 1..lastSequence, id \in 1..Len(published) : Abandon(c, s, id)
           \/ \E c \in registered : Retain(consumers[c].next - 1)
           \/ \E w \in Workers, c \in Consumers : StartRun(w, c)
           \/ \E w \in Workers : ReadClock(w)
           \/ \E w \in Workers, token \in Tokens : ClaimNext(w, token)
           \/ \E w \in Workers : ClaimNothing(w)
           \/ \E w \in Workers : ClaimRefused(w)
           \/ \E w \in Workers : AdapterDelivers(w)
           \/ \E w \in Workers : AdapterFails(w)
           \/ \E w \in Workers : Acknowledge(w)
           \/ \E w \in Workers : RecordFailure(w)
           \/ \E w \in Workers : ReportStale(w)
           \/ \E w \in Workers : Crash(w)
           \/ Tick
           \/ UNCHANGED vars
BY DEF Next, Operate, Deliver

(* A delay is a positive number of seconds, whichever attempt it follows. *)
LEMMA RetryDelayType ==
    ASSUME NEW n \in Nat \ {0}
    PROVE  RetryDelay(n) \in Nat \ {0}
<1>1. Len(RetryDelays) \in Nat /\ Len(RetryDelays) # 0
    BY ProfileAssumption
<1>2. \A i \in 1..Len(RetryDelays) : RetryDelays[i] \in Nat \ {0}
    BY ProfileAssumption
<1>. QED
    BY <1>1, <1>2 DEF RetryDelay

(* What a row becomes is again a row. *)
LEMMA RowTypes ==
    ASSUME NEW row \in ConsumerRow, NEW t \in Nat
    PROVE  /\ NoClaim \in Claim
           /\ \A n \in Nat \ {0} : FreshRow(n) \in ConsumerRow
           /\ Advanced(row) \in ConsumerRow
           /\ Rescheduled(row) \in ConsumerRow
           /\ Failed(row, t) \in ConsumerRow
<1>1. NoClaim \in Claim
    BY DEF NoClaim, Claim
<1>2. \A n \in Nat \ {0} : FreshRow(n) \in ConsumerRow
    BY <1>1 DEF FreshRow, ConsumerRow
<1>3. Advanced(row) \in ConsumerRow /\ Rescheduled(row) \in ConsumerRow
    BY <1>2 DEF Advanced, Rescheduled, ConsumerRow
<1>4. Failed(row, t) \in ConsumerRow
    <2>1. row.attempts + 1 \in Nat \ {0}
        BY DEF ConsumerRow
    <2>2. RetryDelay(row.attempts + 1) \in Nat
        BY <2>1, RetryDelayType
    <2>. QED
        BY <1>1, <2>1, <2>2 DEF Failed, ConsumerRow
<1>. QED
    BY <1>1, <1>2, <1>3, <1>4

(* Inserting an event keeps the types of the log. *)
LEMMA InsertTypes ==
    ASSUME TypeOK, NEW audit \in Audit, InsertEvent(audit)
    PROVE  /\ lastSequence' \in 0..MaxSequence
           /\ events' \in [DOMAIN events' -> EventRow]
           /\ published' \in Seq(EventRow)
<1>. DEFINE row == [id |-> Len(published) + 1, audit |-> audit]
<1>1. published \in Seq(EventRow) /\ lastSequence \in 0..MaxSequence
    BY DEF TypeOK
<1>2. row \in EventRow
    BY <1>1 DEF EventRow
<1>3. published' = Append(published, row)
    BY DEF InsertEvent
<1>4. events' = [s \in DOMAIN events \cup {lastSequence + 1} |->
                    IF s = lastSequence + 1 THEN row ELSE events[s]]
    BY DEF InsertEvent, AllocatedSequence
<1>5. \A s \in DOMAIN events : events[s] \in EventRow
    BY DEF TypeOK
<1>6. events' \in [DOMAIN events' -> EventRow]
    BY <1>2, <1>4, <1>5
<1>7. lastSequence' \in 0..MaxSequence
    BY <1>1, BoundsAssumption DEF InsertEvent, AllocatedSequence
<1>. QED
    BY <1>1, <1>2, <1>3, <1>6, <1>7

\* Every operation of the store and every step of a runner keeps the types.
LEMMA TypePreserved == TypeOK /\ [Next]_vars => TypeOK'
<1>. SUFFICES ASSUME TypeOK, [Next]_vars
              PROVE  TypeOK'
    OBVIOUS
<1>. USE DEF TypeOK
<1>0. NoClaim \in Claim /\ Idle \in Process /\ NoAudit \in Audit
    BY DEF NoClaim, Claim, Idle, Process, NoAudit, Audit
<1>1. ASSUME AppendEvent PROVE TypeOK'
    BY <1>0, <1>1, InsertTypes DEF AppendEvent
<1>2. ASSUME NEW c \in Consumers, NEW first \in StartSequences, RegisterConsumer(c, first)
      PROVE  TypeOK'
    <2>1. FreshRow(first) \in ConsumerRow /\ first \in Nat \ {0}
        BY <1>0, ProfileAssumption DEF FreshRow, ConsumerRow
    <2>. QED
        BY <1>2, <2>1 DEF RegisterConsumer
<1>3. ASSUME NEW c \in Consumers, NEW s \in 1..lastSequence, NEW id \in 1..Len(published),
             Retry(c, s, id)
      PROVE  TypeOK'
    BY <1>3, RowTypes DEF Retry, observers
<1>4. ASSUME NEW c \in Consumers, NEW s \in 1..lastSequence, NEW id \in 1..Len(published),
             Abandon(c, s, id)
      PROVE  TypeOK'
    <2>1. AbandonAudit(c, s) \in Audit
        BY DEF AbandonAudit, Audit
    <2>2. Advanced(consumers[c]) \in ConsumerRow
        BY RowTypes
    <2>. QED
        <3>1. consumers' \in [Consumers -> ConsumerRow]
            BY <1>4, <2>2 DEF Abandon
        <3>2. abandoned' \in [Consumers -> SUBSET Nat]
            BY <1>4 DEF Abandon
        <3>3. /\ lastSequence' \in 0..MaxSequence
              /\ events' \in [DOMAIN events' -> EventRow]
              /\ published' \in Seq(EventRow)
            BY <1>4, <2>1, InsertTypes DEF Abandon
        <3>. QED
            BY <1>4, <3>1, <3>2, <3>3 DEF Abandon
<1>5. ASSUME NEW c \in registered, Retain(consumers[c].next - 1) PROVE TypeOK'
    BY <1>5 DEF Retain, ConsumerRow
<1>6. ASSUME NEW w \in Workers, NEW c \in Consumers, StartRun(w, c) PROVE TypeOK'
    BY <1>0, <1>6, ProfileAssumption DEF StartRun, storeVars, observers, Idle, Process
<1>7. ASSUME NEW w \in Workers, ReadClock(w) PROVE TypeOK'
    <2>1. [worker[w] EXCEPT !.pc = "sampled", !.time = now] \in Process
        <3>1. worker[w] \in Process /\ now \in Nat
            BY BoundsAssumption
        <3>. QED
            BY <3>1 DEF Process
    <2>2. worker' = [worker EXCEPT ![w] = [worker[w] EXCEPT !.pc = "sampled", !.time = now]]
        BY <1>7 DEF ReadClock
    <2>. QED
        BY <1>7, <2>1, <2>2 DEF ReadClock, storeVars, observers
<1>8. ASSUME NEW w \in Workers, NEW token \in Tokens, ClaimNext(w, token) PROVE TypeOK'
    <2>. DEFINE c == worker[w].consumer
                claim == [seq |-> consumers[c].next, id |-> events[consumers[c].next].id,
                          token |-> token, expires |-> worker[w].time + Lease]
    <2>1. c \in Consumers /\ consumers[c].next \in DOMAIN events
        BY <1>8 DEF ClaimNext, ClaimTarget
    <2>2. claim \in Claim
        <3>1. consumers[c].next \in Nat
            BY <2>1 DEF ConsumerRow
        <3>2. events[consumers[c].next].id \in Nat
            BY <2>1 DEF EventRow
        <3>3. worker[w].time + Lease \in Nat
            BY ProfileAssumption DEF Process
        <3>. QED
            BY <3>1, <3>2, <3>3 DEF Claim
    <2>3. consumers' = [consumers EXCEPT ![c] = [consumers[c] EXCEPT !.claim = claim]]
        BY <1>8 DEF ClaimNext, ClaimTarget
    <2>4. worker' = [worker EXCEPT ![w] =
                        [worker[w] EXCEPT !.pc = "delivering", !.claim = claim]]
        BY <1>8 DEF ClaimNext, ClaimTarget
    <2>5. [consumers[c] EXCEPT !.claim = claim] \in ConsumerRow
        BY <2>1, <2>2 DEF ConsumerRow
    <2>6. [worker[w] EXCEPT !.pc = "delivering", !.claim = claim] \in Process
        BY <2>2 DEF Process
    <2>. QED
        <3>1. consumers' \in [Consumers -> ConsumerRow]
            BY <2>1, <2>3, <2>5
        <3>2. worker' \in [Workers -> Process]
            BY <2>4, <2>6
        <3>. QED
            BY <1>8, <3>1, <3>2 DEF ClaimNext, observers
<1>9. ASSUME NEW w \in Workers, ClaimNothing(w) PROVE TypeOK'
    BY <1>0, <1>9 DEF ClaimNothing, observers, ConsumerRow
<1>10. ASSUME NEW w \in Workers, ClaimRefused(w) PROVE TypeOK'
    BY <1>0, <1>10 DEF ClaimRefused, storeVars, observers
<1>11. ASSUME NEW w \in Workers, AdapterDelivers(w) PROVE TypeOK'
    <2>1. worker[w].claim.seq \in Nat
        BY DEF Process, Claim
    <2>2. [worker[w] EXCEPT !.pc = "acknowledging"] \in Process
        BY DEF Process
    <2>3. accepted' \in [Consumers -> SUBSET Nat]
        BY <1>11, <2>1 DEF AdapterDelivers
    <2>4. worker' = [worker EXCEPT ![w] = [worker[w] EXCEPT !.pc = "acknowledging"]]
        BY <1>11 DEF AdapterDelivers
    <2>. QED
        BY <1>11, <2>2, <2>3, <2>4 DEF AdapterDelivers, storeVars
<1>12. ASSUME NEW w \in Workers, AdapterFails(w) PROVE TypeOK'
    <2>1. \E p \in Process : worker' = [worker EXCEPT ![w] = p]
        BY <1>12 DEF AdapterFails, Process
    <2>2. worker' \in [Workers -> Process]
        BY <2>1
    <2>. QED
        BY <1>12, <2>2 DEF AdapterFails, storeVars, observers
<1>13. ASSUME NEW w \in Workers, Acknowledge(w) PROVE TypeOK'
    <2>1. Continued(worker[w]) \in Process
        <3>1. worker[w] \in Process
            OBVIOUS
        <3>2. CASE worker[w].left > 1
            <4>1. worker[w].left - 1 \in Nat /\ MaxEvents \in Nat
                BY <3>1, <3>2, ProfileAssumption DEF Process
            <4>2. [worker[w] EXCEPT !.pc = "ready", !.time = 0, !.claim = NoClaim,
                                    !.left = @ - 1] \in Process
                BY <1>0, <3>1, <4>1 DEF Process
            <4>. QED
                BY <3>2, <4>2 DEF Continued
        <3>3. CASE ~ worker[w].left > 1
            BY <1>0, <3>3 DEF Continued
        <3>. QED
            BY <3>2, <3>3
    <2>2. Advanced(consumers[worker[w].consumer]) \in ConsumerRow
        BY <1>13, RowTypes DEF Acknowledge, StillHolds
    <2>. QED
        BY <1>13, <2>1, <2>2 DEF Acknowledge, observers
<1>14. ASSUME NEW w \in Workers, RecordFailure(w) PROVE TypeOK'
    <2>1. Failed(consumers[worker[w].consumer], worker[w].time) \in ConsumerRow
        BY <1>14, RowTypes DEF RecordFailure, StillHolds, Process
    <2>. QED
        BY <1>0, <1>14, <2>1 DEF RecordFailure, observers
<1>15. ASSUME NEW w \in Workers, ReportStale(w) PROVE TypeOK'
    BY <1>0, <1>15 DEF ReportStale, storeVars, observers
<1>16. ASSUME NEW w \in Workers, Crash(w) PROVE TypeOK'
    BY <1>0, <1>16, BoundsAssumption DEF Crash, storeVars, observers
<1>17. ASSUME Tick PROVE TypeOK'
    BY <1>17, BoundsAssumption DEF Tick, storeVars, observers
<1>18. ASSUME UNCHANGED vars PROVE TypeOK'
    BY <1>18 DEF vars, storeVars, observers
<1>. QED
    BY StepCases, <1>1, <1>2, <1>3, <1>4, <1>5, <1>6, <1>7, <1>8, <1>9, <1>10,
       <1>11, <1>12, <1>13, <1>14, <1>15, <1>16, <1>17, <1>18

(* Every state of the outbox is well-typed. *)
THEOREM TypeCorrect == Spec => []TypeOK
<1>1. Init => TypeOK
    <2>1. NoClaim \in Claim /\ FreshRow(1) \in ConsumerRow
        BY DEF NoClaim, Claim, FreshRow, ConsumerRow
    <2>2. Idle \in Process
        BY <2>1 DEF Idle, Process
    <2>. QED
        BY <2>1, <2>2, BoundsAssumption DEF Init, TypeOK
<1>. QED
    BY <1>1, TypePreserved, PTL DEF Spec

-----------------------------------------------------------------------------
(* The log *)

(* Only appending, abandoning and retention touch the log. *)
LEMMA LogSteps ==
    ASSUME [Next]_vars
    PROVE  \/ AppendEvent
           \/ \E c \in Consumers, s \in 1..lastSequence, id \in 1..Len(published) : Abandon(c, s, id)
           \/ \E c \in registered : Retain(consumers[c].next - 1)
           \/ UNCHANGED <<events, lastSequence, published, trimmed>>
BY StepCases
DEF RegisterConsumer, Retry, StartRun, ReadClock, ClaimNext, ClaimNothing, ClaimRefused,
    AdapterDelivers, AdapterFails, Acknowledge, RecordFailure, ReportStale, Crash, Tick,
    vars, storeVars, observers

(* One insertion keeps the log contiguous, whatever it records. *)
LEMMA InsertKeepsIntegrity ==
    ASSUME TypeOK, SequenceIntegrity, NEW audit \in Audit, InsertEvent(audit), trimmed' = trimmed
    PROVE  SequenceIntegrity'
<1>. DEFINE row == [id |-> Len(published) + 1, audit |-> audit]
<1>1. /\ lastSequence \in Nat /\ trimmed \in Nat
      /\ published \in Seq(EventRow) /\ row \in EventRow
    BY BoundsAssumption DEF TypeOK, EventRow
<1>2. /\ published' = Append(published, row)
      /\ lastSequence' = lastSequence + 1
      /\ events' = [s \in DOMAIN events \cup {lastSequence + 1} |->
                       IF s = lastSequence + 1 THEN row ELSE events[s]]
    BY DEF InsertEvent, AllocatedSequence
<1>3. DOMAIN events' = (trimmed' + 1)..lastSequence'
    BY <1>1, <1>2 DEF SequenceIntegrity
<1>4. /\ Len(published') = lastSequence'
      /\ published'[lastSequence'] = row
      /\ \A s \in 1..lastSequence : published'[s] = published[s]
    BY <1>1, <1>2 DEF SequenceIntegrity
<1>5. \A s \in DOMAIN events' : events'[s] = published'[s]
    BY <1>1, <1>2, <1>3, <1>4 DEF SequenceIntegrity
<1>6. \A s \in 1..lastSequence' : published'[s].id = s
    BY <1>1, <1>2, <1>4 DEF SequenceIntegrity
<1>. QED
    BY <1>1, <1>2, <1>3, <1>4, <1>5, <1>6 DEF SequenceIntegrity

(* Sequences are contiguous, never reused, and name one event for ever.      *)
THEOREM SequencesNeverReused == Spec => []SequenceIntegrity
<1>1. Init => SequenceIntegrity
    BY DEF Init, SequenceIntegrity
<1>2. TypeOK /\ SequenceIntegrity /\ [Next]_vars => SequenceIntegrity'
    <2>. SUFFICES ASSUME TypeOK, SequenceIntegrity, [Next]_vars
                  PROVE  SequenceIntegrity'
        OBVIOUS
    <2>1. CASE AppendEvent
        <3>1. NoAudit \in Audit
            BY DEF NoAudit, Audit
        <3>. QED
            BY <2>1, <3>1, InsertKeepsIntegrity DEF AppendEvent
    <2>2. ASSUME NEW c \in Consumers, NEW s \in 1..lastSequence, NEW id \in 1..Len(published),
                 Abandon(c, s, id)
          PROVE  SequenceIntegrity'
        <3>1. AbandonAudit(c, s) \in Audit
            BY BoundsAssumption DEF AbandonAudit, Audit, TypeOK
        <3>. QED
            BY <2>2, <3>1, InsertKeepsIntegrity DEF Abandon
    <2>3. ASSUME NEW c \in registered, Retain(consumers[c].next - 1)
          PROVE  SequenceIntegrity'
        <3>. DEFINE n == consumers[c].next - 1
        <3>1. n \in Nat /\ lastSequence \in Nat /\ trimmed \in Nat
            <4>1. consumers[c] \in ConsumerRow
                BY DEF TypeOK
            <4>2. n \in Nat
                BY <4>1 DEF ConsumerRow
            <4>. QED
                BY <4>2, BoundsAssumption DEF TypeOK
        <3>2. /\ events' = [s \in {t \in DOMAIN events : t > n} |-> events[s]]
              /\ trimmed' = IF n < lastSequence THEN n ELSE lastSequence
              /\ \E s \in DOMAIN events : s <= n
              /\ UNCHANGED <<lastSequence, published>>
            BY <2>3 DEF Retain
        <3>3. trimmed < n
            BY <3>1, <3>2 DEF SequenceIntegrity
        <3>. QED
            BY <3>1, <3>2, <3>3 DEF SequenceIntegrity
    <2>4. CASE UNCHANGED <<events, lastSequence, published, trimmed>>
        BY <2>4 DEF SequenceIntegrity
    <2>. QED
        BY LogSteps, <2>1, <2>2, <2>3, <2>4
<1>. QED
    BY <1>1, <1>2, TypeCorrect, PTL DEF Spec

-----------------------------------------------------------------------------
(* What a step does to one row, one process, and the rest *)

(* A row changes only by the operation that is about its consumer. *)
LEMMA RowStep ==
    ASSUME TypeOK, [Next]_vars, NEW c \in Consumers
    PROVE  \/ consumers'[c] = consumers[c]
           \/ \E first \in StartSequences :
                  RegisterConsumer(c, first) /\ consumers'[c] = FreshRow(first)
           \/ \E s \in 1..lastSequence, id \in 1..Len(published) :
                  Retry(c, s, id) /\ consumers'[c] = FreshRow(consumers[c].next)
           \/ \E s \in 1..lastSequence, id \in 1..Len(published) :
                  Abandon(c, s, id) /\ consumers'[c] = FreshRow(consumers[c].next + 1)
           \/ \E w \in Workers, token \in Tokens :
                  /\ ClaimNext(w, token)
                  /\ worker[w].consumer = c
                  /\ consumers'[c] = [consumers[c] EXCEPT !.claim = worker'[w].claim]
           \/ \E w \in Workers :
                  /\ ClaimNothing(w)
                  /\ worker[w].consumer = c
                  /\ consumers'[c] = [consumers[c] EXCEPT !.claim = NoClaim]
           \/ \E w \in Workers :
                  /\ Acknowledge(w)
                  /\ worker[w].consumer = c
                  /\ consumers'[c] = FreshRow(consumers[c].next + 1)
           \/ \E w \in Workers :
                  /\ RecordFailure(w)
                  /\ worker[w].consumer = c
                  /\ consumers'[c] = Failed(consumers[c], worker[w].time)
<1>. USE DEF TypeOK
<1>1. ASSUME NEW d \in Consumers, NEW first \in StartSequences, RegisterConsumer(d, first)
      PROVE  consumers'[c] = IF c = d THEN FreshRow(first) ELSE consumers[c]
    BY <1>1 DEF RegisterConsumer
<1>2. ASSUME NEW d \in Consumers, NEW s, NEW id, Retry(d, s, id)
      PROVE  consumers'[c] = IF c = d THEN FreshRow(consumers[c].next) ELSE consumers[c]
    BY <1>2 DEF Retry, Rescheduled
<1>3. ASSUME NEW d \in Consumers, NEW s, NEW id, Abandon(d, s, id)
      PROVE  consumers'[c] = IF c = d THEN FreshRow(consumers[c].next + 1) ELSE consumers[c]
    BY <1>3 DEF Abandon, Advanced
<1>4. ASSUME NEW w \in Workers, NEW token \in Tokens, ClaimNext(w, token)
      PROVE  consumers'[c] = IF c = worker[w].consumer
                             THEN [consumers[c] EXCEPT !.claim = worker'[w].claim]
                             ELSE consumers[c]
    <2>. DEFINE d == worker[w].consumer
                claim == [seq |-> consumers[d].next, id |-> events[consumers[d].next].id,
                          token |-> token, expires |-> worker[w].time + Lease]
    <2>1. worker' = [worker EXCEPT ![w] = [worker[w] EXCEPT !.pc = "delivering", !.claim = claim]]
        BY <1>4 DEF ClaimNext, ClaimTarget
    <2>2. worker[w] \in Process
        OBVIOUS
    <2>3. worker'[w].claim = claim
        BY <2>1, <2>2 DEF Process
    <2>. QED
        BY <1>4, <2>3 DEF ClaimNext, ClaimTarget
<1>5. ASSUME NEW w \in Workers, ClaimNothing(w)
      PROVE  consumers'[c] = IF c = worker[w].consumer
                             THEN [consumers[c] EXCEPT !.claim = NoClaim] ELSE consumers[c]
    BY <1>5 DEF ClaimNothing
<1>6. ASSUME NEW w \in Workers, Acknowledge(w)
      PROVE  consumers'[c] = IF c = worker[w].consumer
                             THEN FreshRow(consumers[c].next + 1) ELSE consumers[c]
    BY <1>6 DEF Acknowledge, Advanced
<1>7. ASSUME NEW w \in Workers, RecordFailure(w)
      PROVE  consumers'[c] = IF c = worker[w].consumer
                             THEN Failed(consumers[c], worker[w].time) ELSE consumers[c]
    <2>. HIDE DEF TypeOK
    <2>1. c \in DOMAIN consumers
        BY DEF TypeOK
    <2>2. consumers' = [consumers EXCEPT ![worker[w].consumer] =
                           Failed(consumers[worker[w].consumer], worker[w].time)]
        BY <1>7 DEF RecordFailure
    <2>. QED
        BY <2>1, <2>2
<1>8. ASSUME \/ AppendEvent
             \/ \E d \in registered : Retain(consumers[d].next - 1)
             \/ \E w \in Workers, d \in Consumers : StartRun(w, d)
             \/ \E w \in Workers : \/ ReadClock(w) \/ ClaimRefused(w)
                                   \/ AdapterDelivers(w) \/ AdapterFails(w)
                                   \/ ReportStale(w) \/ Crash(w)
             \/ Tick \/ UNCHANGED vars
      PROVE  consumers'[c] = consumers[c]
    BY <1>8 DEF AppendEvent, Retain, StartRun, ReadClock, ClaimRefused, AdapterDelivers,
                AdapterFails, ReportStale, Crash, Tick, vars, storeVars
<1>. HIDE DEF TypeOK
<1>9. CASE \E d \in Consumers, first \in StartSequences : RegisterConsumer(d, first)
    BY <1>1, <1>9
<1>10. CASE \E d \in Consumers, s \in 1..lastSequence, id \in 1..Len(published) : Retry(d, s, id)
    BY <1>2, <1>10
<1>11. CASE \E d \in Consumers, s \in 1..lastSequence, id \in 1..Len(published) : Abandon(d, s, id)
    BY <1>3, <1>11
<1>12. CASE \E w \in Workers, token \in Tokens : ClaimNext(w, token)
    BY <1>4, <1>12
<1>13. CASE \E w \in Workers : ClaimNothing(w)
    BY <1>5, <1>13
<1>14. CASE \E w \in Workers : Acknowledge(w)
    BY <1>6, <1>14
<1>15. CASE \E w \in Workers : RecordFailure(w)
    BY <1>7, <1>15
<1>. QED
    BY StepCases, <1>8, <1>9, <1>10, <1>11, <1>12, <1>13, <1>14, <1>15

(* A process keeps its state, lets its claim go, reads the clock, moves on   *)
(* with its claim, or is the one that gets a new claim.                      *)
LEMMA ProcessStep ==
    ASSUME TypeOK, [Next]_vars, NEW w \in Workers
    PROVE  \/ worker'[w] = worker[w]
           \/ /\ worker'[w].claim = NoClaim
              /\ worker'[w].pc \notin Holding
              /\ worker'[w].time = 0
           \/ /\ worker[w].pc \notin Holding
              /\ worker'[w].pc \notin Holding
              /\ worker'[w].claim = worker[w].claim
              /\ worker'[w].time = now
           \/ /\ worker[w].pc \in Holding
              /\ worker'[w].pc \in Holding
              /\ worker'[w].consumer = worker[w].consumer
              /\ worker'[w].claim = worker[w].claim
              /\ worker'[w].time = worker[w].time
              /\ worker'[w].pc = "acknowledging" => AdapterDelivers(w)
           \/ \E token \in Tokens : ClaimNext(w, token)
<1>. USE DEF TypeOK
<1>0. worker[w] \in Process /\ Idle.claim = NoClaim /\ Idle.time = 0 /\ Idle.pc = "idle"
    BY DEF Idle
<1>1. ASSUME NEW v \in Workers, \/ ClaimNothing(v) \/ ClaimRefused(v) \/ RecordFailure(v)
                                \/ ReportStale(v) \/ Crash(v)
      PROVE  worker'[w] = IF v = w THEN Idle ELSE worker[w]
    BY <1>1 DEF ClaimNothing, ClaimRefused, RecordFailure, ReportStale, Crash
<1>2. ASSUME NEW v \in Workers, NEW c \in Consumers, StartRun(v, c)
      PROVE  worker'[w] = IF v = w THEN [Idle EXCEPT !.pc = "ready", !.consumer = c,
                                                     !.left = MaxEvents]
                          ELSE worker[w]
    BY <1>2 DEF StartRun
<1>3. ASSUME NEW c \in Consumers
      PROVE  LET p == [Idle EXCEPT !.pc = "ready", !.consumer = c, !.left = MaxEvents]
             IN  p.claim = NoClaim /\ p.time = 0 /\ p.pc = "ready"
    BY DEF Idle
<1>4. ASSUME NEW v \in Workers, Acknowledge(v)
      PROVE  worker'[w] = IF v = w THEN Continued(worker[w]) ELSE worker[w]
    BY <1>4 DEF Acknowledge
<1>5. /\ Continued(worker[w]).claim = NoClaim
      /\ Continued(worker[w]).time = 0
      /\ Continued(worker[w]).pc \in {"ready", "idle"}
    BY <1>0 DEF Continued, Process
<1>6. ASSUME NEW v \in Workers, ReadClock(v)
      PROVE  \/ worker'[w] = worker[w]
             \/ /\ worker[w].pc = "ready"
                /\ worker'[w].pc = "sampled"
                /\ worker'[w].claim = worker[w].claim
                /\ worker'[w].time = now
    BY <1>0, <1>6 DEF ReadClock, Process
<1>7. ASSUME NEW v \in Workers, AdapterDelivers(v) \/ AdapterFails(v)
      PROVE  \/ worker'[w] = worker[w]
             \/ /\ worker[w].pc = "delivering"
                /\ worker'[w].pc \in {"acknowledging", "failing"}
                /\ worker'[w].pc = "acknowledging" => AdapterDelivers(w)
                /\ worker'[w].consumer = worker[w].consumer
                /\ worker'[w].claim = worker[w].claim
                /\ worker'[w].time = worker[w].time
    <2>1. CASE AdapterDelivers(v)
        <3>1. worker' = [worker EXCEPT ![v] = [worker[v] EXCEPT !.pc = "acknowledging"]]
            BY <2>1 DEF AdapterDelivers
        <3>2. worker[v].pc = "delivering"
            BY <2>1 DEF AdapterDelivers
        <3>3. CASE v # w
            BY <3>1, <3>3
        <3>4. CASE v = w
            <4>1. worker'[w] = [worker[w] EXCEPT !.pc = "acknowledging"]
                BY <3>1, <3>4
            <4>. QED
                BY <1>0, <2>1, <3>2, <3>4, <4>1 DEF Process
        <3>. QED
            BY <3>3, <3>4
    <2>2. CASE AdapterFails(v)
        <3>1. worker' = [worker EXCEPT ![v] = [worker[v] EXCEPT !.pc = "failing"]]
            BY <2>2 DEF AdapterFails
        <3>. QED
            BY <1>0, <2>2, <3>1 DEF AdapterFails, Process
    <2>. QED
        BY <1>7, <2>1, <2>2
<1>8. ASSUME NEW v \in Workers, NEW token \in Tokens, ClaimNext(v, token), v # w
      PROVE  worker'[w] = worker[w]
    BY <1>8 DEF ClaimNext
<1>9. ASSUME \/ AppendEvent
             \/ \E c \in Consumers, first \in StartSequences : RegisterConsumer(c, first)
             \/ \E c \in Consumers, s \in 1..lastSequence, id \in 1..Len(published) :
                    Retry(c, s, id) \/ Abandon(c, s, id)
             \/ \E c \in registered : Retain(consumers[c].next - 1)
             \/ Tick \/ UNCHANGED vars
      PROVE  worker'[w] = worker[w]
    BY <1>9 DEF AppendEvent, RegisterConsumer, Retry, Abandon, Retain, Tick, vars
<1>. HIDE DEF TypeOK
<1>. QED
    BY StepCases, <1>0, <1>1, <1>2, <1>3, <1>4, <1>5, <1>6, <1>7, <1>8, <1>9 DEF Holding

(* The observers of one consumer change only with the operation observed. *)
LEMMA HistoryStep ==
    ASSUME TypeOK, [Next]_vars, NEW c \in Consumers
    PROVE  /\ \/ accepted'[c] = accepted[c]
              \/ \E w \in Workers :
                     /\ AdapterDelivers(w)
                     /\ worker[w].consumer = c
                     /\ accepted'[c] = accepted[c] \cup {worker[w].claim.seq}
           /\ \/ abandoned'[c] = abandoned[c]
              \/ \E s \in 1..lastSequence, id \in 1..Len(published) :
                     /\ Abandon(c, s, id)
                     /\ abandoned'[c] = abandoned[c] \cup {s}
           /\ \/ start'[c] = start[c] /\ base'[c] = base[c] /\ (c \in registered' <=> c \in registered)
              \/ \E first \in StartSequences :
                     /\ RegisterConsumer(c, first)
                     /\ start'[c] = first
                     /\ base'[c] = trimmed
                     /\ c \notin registered
                     /\ c \in registered'
<1>. USE DEF TypeOK
<1>1. ASSUME NEW d \in Consumers, NEW first \in StartSequences, RegisterConsumer(d, first)
      PROVE  /\ accepted'[c] = accepted[c]
             /\ abandoned'[c] = abandoned[c]
             /\ start'[c] = IF c = d THEN first ELSE start[c]
             /\ base'[c] = IF c = d THEN trimmed ELSE base[c]
             /\ d \notin registered
             /\ registered' = registered \cup {d}
    BY <1>1 DEF RegisterConsumer
<1>2. ASSUME NEW d \in Consumers, NEW s \in 1..lastSequence, NEW id \in 1..Len(published),
             Abandon(d, s, id)
      PROVE  /\ abandoned'[c] = IF c = d THEN abandoned[c] \cup {s} ELSE abandoned[c]
             /\ UNCHANGED <<accepted, start, base, registered>>
    BY <1>2 DEF Abandon
<1>3. ASSUME NEW w \in Workers, AdapterDelivers(w)
      PROVE  /\ accepted'[c] = IF c = worker[w].consumer
                               THEN accepted[c] \cup {worker[w].claim.seq} ELSE accepted[c]
             /\ UNCHANGED <<abandoned, start, base, registered>>
    BY <1>3 DEF AdapterDelivers, storeVars
<1>4. ASSUME \/ AppendEvent
             \/ \E d \in Consumers, s \in 1..lastSequence, id \in 1..Len(published) : Retry(d, s, id)
             \/ \E d \in registered : Retain(consumers[d].next - 1)
             \/ \E w \in Workers, d \in Consumers : StartRun(w, d)
             \/ \E w \in Workers, token \in Tokens : ClaimNext(w, token)
             \/ \E w \in Workers : \/ ReadClock(w) \/ ClaimNothing(w) \/ ClaimRefused(w)
                                   \/ AdapterFails(w) \/ Acknowledge(w) \/ RecordFailure(w)
                                   \/ ReportStale(w) \/ Crash(w)
             \/ Tick \/ UNCHANGED vars
      PROVE  UNCHANGED <<accepted, abandoned, start, base, registered>>
    BY <1>4 DEF AppendEvent, Retry, Retain, StartRun, ClaimNext, ReadClock, ClaimNothing,
                ClaimRefused, AdapterFails, Acknowledge, RecordFailure, ReportStale, Crash,
                Tick, vars, storeVars, observers
<1>. HIDE DEF TypeOK
<1>. QED
    BY StepCases, <1>1, <1>2, <1>3, <1>4

(* Time, the log, the cursors and the histories only ever move forward. *)
LEMMA Monotone ==
    ASSUME TypeOK, [Next]_vars
    PROVE  /\ now <= now'
           /\ lastSequence <= lastSequence'
           /\ registered \subseteq registered'
           /\ \A c \in registered :
                  start'[c] = start[c] /\ base'[c] = base[c] /\ consumers[c].next <= consumers'[c].next
           /\ \A c \in Consumers :
                  accepted[c] \subseteq accepted'[c] /\ abandoned[c] \subseteq abandoned'[c]
<1>1. now \in Nat /\ lastSequence \in Nat /\ registered \subseteq Consumers
    BY BoundsAssumption DEF TypeOK
<1>2. now <= now'
    <2>1. Tick \/ now' = now
        BY StepCases
        DEF AppendEvent, RegisterConsumer, Retry, Abandon, Retain, StartRun, ReadClock, ClaimNext,
            ClaimNothing, ClaimRefused, AdapterDelivers, AdapterFails, Acknowledge, RecordFailure,
            ReportStale, Crash, vars
    <2>2. Tick => now' = now + 1
        BY DEF Tick
    <2>. QED
        BY <1>1, <2>1, <2>2
<1>3. lastSequence <= lastSequence'
    <2>1. lastSequence' = lastSequence + 1 \/ lastSequence' = lastSequence
        BY LogSteps DEF AppendEvent, Abandon, InsertEvent, AllocatedSequence, Retain
    <2>. QED
        BY <1>1, <2>1
<1>4. ASSUME NEW c \in registered
      PROVE  consumers[c].next <= consumers'[c].next
    <2>1. consumers[c] \in ConsumerRow /\ consumers[c].next \in Nat /\ c \in Consumers
        BY <1>1 DEF TypeOK, ConsumerRow
    <2>2. \A first \in StartSequences : ~ RegisterConsumer(c, first)
        BY DEF RegisterConsumer
    <2>3. ASSUME NEW n, consumers'[c] = FreshRow(n)
          PROVE  consumers'[c].next = n
        BY <2>3 DEF FreshRow
    <2>4. ASSUME NEW x, consumers'[c] = [consumers[c] EXCEPT !.claim = x]
          PROVE  consumers'[c].next = consumers[c].next
        BY <2>1, <2>4 DEF ConsumerRow
    <2>5. ASSUME NEW x, consumers'[c] = Failed(consumers[c], x)
          PROVE  consumers'[c].next = consumers[c].next
        BY <2>5 DEF Failed
    <2>7. consumers'[c].next = consumers[c].next \/ consumers'[c].next = consumers[c].next + 1
        <3>1. CASE consumers'[c] = consumers[c]
            BY <3>1
        <3>2. CASE \E n \in {consumers[c].next, consumers[c].next + 1} : consumers'[c] = FreshRow(n)
            BY <3>2, <2>3
        <3>3. CASE \E x : \/ consumers'[c] = [consumers[c] EXCEPT !.claim = x]
                          \/ consumers'[c] = Failed(consumers[c], x)
            BY <3>3, <2>4, <2>5
        <3>. QED
            BY <2>1, <2>2, <3>1, <3>2, <3>3, RowStep
    <2>. QED
        BY <2>1, <2>7
<1>5. ASSUME NEW c \in Consumers
      PROVE  accepted[c] \subseteq accepted'[c] /\ abandoned[c] \subseteq abandoned'[c]
    BY HistoryStep
<1>6. ASSUME NEW c \in registered
      PROVE  start'[c] = start[c] /\ base'[c] = base[c] /\ c \in registered'
    BY <1>1, HistoryStep
<1>. QED
    BY <1>2, <1>3, <1>4, <1>5, <1>6

(* Retention removes no event at or behind which a cursor stands. *)
LEMMA RetentionKeepsCursor ==
    ASSUME TypeOK, SequenceIntegrity, [Next]_vars, NEW c \in registered,
           NEW s \in Nat, trimmed < s, s <= lastSequence, consumers[c].next <= s
    PROVE  trimmed' < s /\ s <= lastSequence'
<1>1. /\ lastSequence \in Nat /\ trimmed \in Nat
      /\ \A d \in registered : consumers[d].next \in Nat
    BY BoundsAssumption DEF TypeOK, ConsumerRow
<1>2. CASE AppendEvent
    BY <1>1, <1>2 DEF AppendEvent, InsertEvent, AllocatedSequence
<1>3. ASSUME NEW d \in Consumers, NEW t \in 1..lastSequence, NEW id \in 1..Len(published),
             Abandon(d, t, id)
      PROVE  trimmed' < s /\ s <= lastSequence'
    BY <1>1, <1>3 DEF Abandon, InsertEvent, AllocatedSequence
<1>4. ASSUME NEW d \in registered, Retain(consumers[d].next - 1)
      PROVE  trimmed' < s /\ s <= lastSequence'
    <2>1. consumers[d].next - 1 <= consumers[c].next - 1
        BY <1>4 DEF Retain, IsCompletedPrefix
    <2>2. trimmed' <= consumers[d].next - 1 /\ lastSequence' = lastSequence /\ trimmed' \in Int
        BY <1>1, <1>4 DEF Retain
    <2>3. consumers[c].next \in Nat /\ consumers[d].next \in Nat
        BY <1>1
    <2>. QED
        BY <1>1, <2>1, <2>2, <2>3
<1>5. CASE UNCHANGED <<events, lastSequence, published, trimmed>>
    BY <1>5
<1>. QED
    BY LogSteps, <1>2, <1>3, <1>4, <1>5

-----------------------------------------------------------------------------
(* Rows, processes and tokens agree *)

(* A new claim is a claim on the event at the cursor, for Lease from the     *)
(* time its process read.                                                    *)
LEMMA NewClaim ==
    ASSUME TypeOK, NEW w \in Workers, NEW token \in Tokens, ClaimNext(w, token)
    PROVE  LET c == worker[w].consumer
           IN  /\ c \in registered
               /\ c \in Consumers
               /\ consumers[c].next \in DOMAIN events
               /\ Due(consumers[c], worker[w].time)
               /\ IsFresh(token)
               /\ worker[w].pc = "sampled"
               /\ worker'[w].claim = [seq |-> consumers[c].next,
                                      id |-> events[consumers[c].next].id,
                                      token |-> token, expires |-> worker[w].time + Lease]
               /\ worker'[w].pc = "delivering"
               /\ worker'[w].consumer = c
               /\ worker'[w].time = worker[w].time
               /\ worker' = [worker EXCEPT ![w] = worker'[w]]
               /\ consumers' = [consumers EXCEPT ![c] =
                                    [consumers[c] EXCEPT !.claim = worker'[w].claim]]
               /\ UNCHANGED <<events, lastSequence, registered, now, crashes, observers>>
<1>. DEFINE c == worker[w].consumer
            claim == [seq |-> consumers[c].next, id |-> events[consumers[c].next].id,
                      token |-> token, expires |-> worker[w].time + Lease]
<1>1. worker' = [worker EXCEPT ![w] = [worker[w] EXCEPT !.pc = "delivering", !.claim = claim]]
    BY DEF ClaimNext, ClaimTarget
<1>2. worker[w] \in Process /\ worker \in [Workers -> Process]
    BY DEF TypeOK
<1>3. worker'[w] = [worker[w] EXCEPT !.pc = "delivering", !.claim = claim]
    BY <1>1, <1>2
<1>4. /\ worker'[w].claim = claim
      /\ worker'[w].pc = "delivering"
      /\ worker'[w].consumer = c
      /\ worker'[w].time = worker[w].time
    BY <1>2, <1>3 DEF Process
<1>5. worker' = [worker EXCEPT ![w] = worker'[w]]
    BY <1>1, <1>3
<1>6. consumers' = [consumers EXCEPT ![c] = [consumers[c] EXCEPT !.claim = worker'[w].claim]]
    BY <1>4 DEF ClaimNext, ClaimTarget
<1>7. /\ c \in registered
      /\ consumers[c].next \in DOMAIN events
      /\ Due(consumers[c], worker[w].time)
      /\ IsFresh(token)
      /\ worker[w].pc = "sampled"
      /\ UNCHANGED <<events, lastSequence, registered, now, crashes, observers>>
    BY DEF ClaimNext, ClaimTarget
<1>8. c \in Consumers
    BY <1>7 DEF TypeOK
<1>. QED
    BY <1>4, <1>5, <1>6, <1>7, <1>8

(* A row in a step: unchanged, new, rescheduled, advanced, claimed, released *)
(* or failed; all but the first two happen only to a registered consumer,    *)
(* and a failure only to one with a claim.                                   *)
LEMMA RowCases ==
    ASSUME TypeOK, ProcessesConsistent, [Next]_vars, NEW c \in Consumers
    PROVE  \/ consumers'[c] = consumers[c]
           \/ \E first \in StartSequences : 
                  c \notin registered /\ start'[c] = first /\ consumers'[c] = FreshRow(first)
           \/ c \in registered /\ consumers'[c] = FreshRow(consumers[c].next)
           \/ c \in registered /\ consumers'[c] = FreshRow(consumers[c].next + 1)
           \/ \E claim \in Claim :
                  /\ c \in registered
                  /\ consumers[c].next \in DOMAIN events
                  /\ events' = events /\ trimmed' = trimmed /\ lastSequence' = lastSequence
                  /\ claim.seq = consumers[c].next
                  /\ claim.token \in Tokens
                  /\ consumers'[c] = [consumers[c] EXCEPT !.claim = claim]
           \/ c \in registered /\ consumers'[c] = [consumers[c] EXCEPT !.claim = NoClaim]
           \/ \E t \in Nat :
                  /\ c \in registered
                  /\ consumers[c].claim # NoClaim
                  /\ consumers'[c] = Failed(consumers[c], t)
<1>1. ASSUME NEW first \in StartSequences, RegisterConsumer(c, first)
      PROVE  c \notin registered /\ start'[c] = first
    BY <1>1 DEF RegisterConsumer, TypeOK
<1>2. ASSUME NEW s, NEW id, Retry(c, s, id) \/ Abandon(c, s, id)
      PROVE  c \in registered
    BY <1>2 DEF Retry, Abandon, Blocked
<1>3. ASSUME NEW w \in Workers, NEW token \in Tokens, ClaimNext(w, token), worker[w].consumer = c
      PROVE  /\ c \in registered
             /\ consumers[c].next \in DOMAIN events
             /\ events' = events /\ trimmed' = trimmed /\ lastSequence' = lastSequence
             /\ worker'[w].claim \in Claim
             /\ worker'[w].claim.seq = consumers[c].next
             /\ worker'[w].claim.token \in Tokens
    <2>1. /\ c \in registered
          /\ consumers[c].next \in DOMAIN events
          /\ events' = events /\ trimmed' = trimmed /\ lastSequence' = lastSequence
          /\ worker'[w].claim = [seq |-> consumers[c].next, id |-> events[consumers[c].next].id,
                                 token |-> token, expires |-> worker[w].time + Lease]
        BY <1>3, NewClaim DEF observers
    <2>2. consumers[c].next \in Nat /\ events[consumers[c].next].id \in Nat
        BY <2>1 DEF TypeOK, ConsumerRow, EventRow
    <2>3. worker[w].time + Lease \in Nat
        <3>1. worker[w] \in Process
            BY DEF TypeOK
        <3>. QED
            BY <3>1, ProfileAssumption DEF Process
    <2>. QED
        BY <2>1, <2>2, <2>3 DEF Claim
<1>4. ASSUME NEW w \in Workers, ClaimNothing(w) \/ Acknowledge(w), worker[w].consumer = c
      PROVE  c \in registered
    BY <1>4 DEF ClaimNothing, Acknowledge, StillHolds
<1>5. ASSUME NEW w \in Workers, RecordFailure(w), worker[w].consumer = c
      PROVE  c \in registered /\ consumers[c].claim # NoClaim /\ worker[w].time \in Nat
    <2>1. worker[w].claim.token \in Tokens
        BY <1>5 DEF RecordFailure, ProcessesConsistent, Holding
    <2>2. c \in registered /\ consumers[c].claim.token = worker[w].claim.token
        BY <1>5 DEF RecordFailure, StillHolds
    <2>. QED
        BY <2>1, <2>2, NamesAssumption DEF NoClaim, TypeOK, Process
<1>. QED
    BY RowStep, <1>1, <1>2, <1>3, <1>4, <1>5

\* No step puts a claim off its row's cursor.  (claim_next, acknowledge)
LEMMA RowsStayConsistent ==
    ASSUME TypeOK, SequenceIntegrity, RowsConsistent, ProcessesConsistent, [Next]_vars
    PROVE  RowsConsistent'
<1>. SUFFICES ASSUME NEW c \in Consumers
              PROVE  /\ consumers'[c].claim # NoClaim =>
                            /\ consumers'[c].claim.token \in Tokens
                            /\ consumers'[c].claim.seq = consumers'[c].next
                     /\ consumers'[c].claim # NoClaim \/ consumers'[c].failed =>
                            /\ c \in registered'
                            /\ trimmed' < consumers'[c].next
                            /\ consumers'[c].next <= lastSequence'
                     /\ c \notin registered' => accepted'[c] = {} /\ abandoned'[c] = {}
                     /\ start'[c] <= consumers'[c].next
    BY DEF RowsConsistent
<1>. DEFINE row == consumers[c]
<1>1. /\ row \in ConsumerRow /\ row.next \in Nat /\ row.claim \in Claim /\ start[c] \in Nat
      /\ lastSequence \in Nat /\ trimmed \in Nat
    BY BoundsAssumption DEF TypeOK, ConsumerRow
<1>2. /\ row.claim # NoClaim => row.claim.token \in Tokens /\ row.claim.seq = row.next
      /\ row.claim # NoClaim \/ row.failed =>
            c \in registered /\ trimmed < row.next /\ row.next <= lastSequence
      /\ c \notin registered => accepted[c] = {} /\ abandoned[c] = {}
      /\ start[c] <= row.next
    BY DEF RowsConsistent
<1>3. c \notin registered' => accepted'[c] = {} /\ abandoned'[c] = {}
    <2>1. \A w \in Workers : AdapterDelivers(w) => worker[w].consumer \in registered
        BY DEF AdapterDelivers, ProcessesConsistent, Holding
    <2>2. \A s, id : Abandon(c, s, id) => c \in registered
        BY DEF Abandon, Blocked
    <2>3. registered \subseteq registered'
        BY Monotone
    <2>. QED
        BY <1>2, <2>1, <2>2, <2>3, HistoryStep
<1>4. \/ start'[c] = start[c]
      \/ \E first \in StartSequences : start'[c] = first /\ consumers'[c].next = first
    <2>1. ASSUME NEW first \in StartSequences, RegisterConsumer(c, first)
          PROVE  consumers'[c] = FreshRow(first)
        BY <2>1 DEF RegisterConsumer, TypeOK
    <2>2. \A first : FreshRow(first).next = first
        BY DEF FreshRow
    <2>. QED
        BY <2>1, <2>2, HistoryStep
<1>5. row.claim # NoClaim \/ row.failed =>
          c \in registered' /\ trimmed' < row.next /\ row.next <= lastSequence'
    <2>1. registered \subseteq registered'
        BY Monotone
    <2>2. c \in registered /\ trimmed < row.next /\ row.next <= lastSequence =>
              trimmed' < row.next /\ row.next <= lastSequence'
        BY <1>1, RetentionKeepsCursor
    <2>. QED
        BY <1>2, <2>1, <2>2
<1>6. CASE consumers'[c] = consumers[c]
    BY <1>1, <1>2, <1>3, <1>4, <1>5, <1>6, ProfileAssumption
<1>7. ASSUME NEW n \in Nat, consumers'[c] = FreshRow(n), start[c] <= n \/ start'[c] = n
      PROVE  /\ consumers'[c].claim = NoClaim /\ ~ consumers'[c].failed
             /\ start'[c] <= consumers'[c].next
    <2>1. consumers'[c].claim = NoClaim /\ ~ consumers'[c].failed /\ consumers'[c].next = n
        BY <1>7 DEF FreshRow
    <2>. QED
        BY <1>1, <1>4, <1>7, <2>1, ProfileAssumption
<1>8. ASSUME NEW first \in StartSequences, start'[c] = first, consumers'[c] = FreshRow(first)
      PROVE  /\ consumers'[c].claim = NoClaim /\ ~ consumers'[c].failed
             /\ start'[c] <= consumers'[c].next
    BY <1>7, <1>8, ProfileAssumption
<1>9. CASE \/ consumers'[c] = FreshRow(row.next)
           \/ consumers'[c] = FreshRow(row.next + 1)
    <2>1. row.next + 1 \in Nat /\ start[c] <= row.next + 1
        BY <1>1, <1>2
    <2>2. /\ consumers'[c].claim = NoClaim /\ ~ consumers'[c].failed
          /\ start'[c] <= consumers'[c].next
        BY <1>1, <1>2, <1>7, <1>9, <2>1
    <2>. QED
        BY <1>3, <2>2
<1>10. ASSUME NEW claim \in Claim,
              c \in registered,
              row.next \in DOMAIN events,
              trimmed' = trimmed, lastSequence' = lastSequence,
              claim.seq = row.next, claim.token \in Tokens,
              consumers'[c] = [row EXCEPT !.claim = claim]
       PROVE  /\ consumers'[c].claim = claim
              /\ consumers'[c].next = row.next
              /\ c \in registered'
              /\ trimmed' < row.next /\ row.next <= lastSequence'
    <2>1. consumers'[c].claim = claim /\ consumers'[c].next = row.next
        BY <1>1, <1>10 DEF ConsumerRow
    <2>2. trimmed < row.next /\ row.next <= lastSequence
        BY <1>1, <1>10 DEF SequenceIntegrity
    <2>. QED
        BY <1>1, <1>10, <2>1, <2>2, Monotone
<1>11. CASE consumers'[c] = [row EXCEPT !.claim = NoClaim]
    <2>1. /\ consumers'[c].claim = NoClaim /\ consumers'[c].next = row.next
          /\ consumers'[c].failed = row.failed
        BY <1>1, <1>11 DEF ConsumerRow
    <2>2. start'[c] <= consumers'[c].next
        BY <1>1, <1>2, <1>4, <2>1, ProfileAssumption
    <2>. QED
        BY <1>3, <1>5, <2>1, <2>2
<1>12. ASSUME NEW t \in Nat, row.claim # NoClaim, consumers'[c] = Failed(row, t)
       PROVE  /\ consumers'[c].claim = NoClaim
              /\ consumers'[c].next = row.next
              /\ c \in registered'
              /\ trimmed' < row.next /\ row.next <= lastSequence'
    BY <1>5, <1>12 DEF Failed
<1>13. consumers'[c].next = row.next => start'[c] <= consumers'[c].next
    BY <1>1, <1>2, <1>4, ProfileAssumption
<1>. QED
    BY RowCases, <1>3, <1>6, <1>8, <1>9, <1>10, <1>11, <1>12, <1>13

\* No step lets a process work ahead of the cursor.  (EventDeliveryRunner.step)
LEMMA ProcessesStayConsistent ==
    ASSUME TypeOK, SequenceIntegrity, RowsConsistent, ProcessesConsistent, [Next]_vars
    PROVE  ProcessesConsistent'
<1>. SUFFICES ASSUME NEW w \in Workers
              PROVE  /\ worker'[w].time <= now'
                     /\ worker'[w].pc \notin Holding => worker'[w].claim = NoClaim
                     /\ worker'[w].pc \in Holding =>
                            /\ worker'[w].consumer \in registered'
                            /\ worker'[w].claim.token \in Tokens
                            /\ start'[worker'[w].consumer] <= worker'[w].claim.seq
                            /\ worker'[w].claim.seq <= consumers'[worker'[w].consumer].next
                            /\ worker'[w].claim.seq <= lastSequence'
                     /\ worker'[w].pc = "acknowledging" =>
                            worker'[w].claim.seq \in accepted'[worker'[w].consumer]
    BY DEF ProcessesConsistent
<1>. DEFINE p == worker[w]
            c == p.consumer
<1>1. /\ p.time <= now
      /\ p.pc \notin Holding => p.claim = NoClaim
      /\ p.pc \in Holding =>
            /\ c \in registered
            /\ p.claim.token \in Tokens
            /\ start[c] <= p.claim.seq
            /\ p.claim.seq <= consumers[c].next
            /\ p.claim.seq <= lastSequence
      /\ p.pc = "acknowledging" => p.claim.seq \in accepted[c]
    BY DEF ProcessesConsistent
<1>2. /\ now \in Nat /\ lastSequence \in Nat /\ p.time \in Nat /\ p.claim.seq \in Nat
      /\ registered \subseteq Consumers
    BY BoundsAssumption DEF TypeOK, Process, Claim
<1>3. TypeOK'
    BY TypePreserved
<1>4. now' \in Nat /\ now <= now' /\ lastSequence' \in Nat /\ lastSequence <= lastSequence'
    <2>1. now' \in Nat /\ lastSequence' \in Nat
        BY <1>3, BoundsAssumption DEF TypeOK
    <2>2. now <= now' /\ lastSequence <= lastSequence'
        BY Monotone
    <2>. QED
        BY <2>1, <2>2
<1>5. ASSUME p.pc \in Holding
      PROVE  /\ c \in registered'
             /\ p.claim.token \in Tokens
             /\ start'[c] <= p.claim.seq
             /\ p.claim.seq <= consumers'[c].next
             /\ p.claim.seq <= lastSequence'
             /\ accepted[c] \subseteq accepted'[c]
    <2>1. c \in registered /\ c \in Consumers
        BY <1>1, <1>2, <1>5
    <2>2. consumers[c].next \in Nat /\ consumers'[c].next \in Nat
        BY <1>3, <2>1 DEF TypeOK, ConsumerRow
    <2>3. /\ c \in registered' /\ start'[c] = start[c]
          /\ consumers[c].next <= consumers'[c].next /\ accepted[c] \subseteq accepted'[c]
        BY <2>1, Monotone
    <2>. QED
        BY <1>1, <1>2, <1>4, <1>5, <2>2, <2>3
<1>6. CASE worker'[w] = worker[w]
    <2>1. worker'[w].time <= now'
        BY <1>1, <1>2, <1>4, <1>6
    <2>2. p.pc = "acknowledging" => p.pc \in Holding
        BY DEF Holding
    <2>. QED
        BY <1>1, <1>5, <1>6, <2>1, <2>2
<1>7. CASE /\ worker'[w].claim = NoClaim
           /\ worker'[w].pc \notin Holding
           /\ worker'[w].time = 0
    BY <1>4, <1>7 DEF Holding
<1>8. CASE /\ p.pc \notin Holding
           /\ worker'[w].pc \notin Holding
           /\ worker'[w].claim = p.claim
           /\ worker'[w].time = now
    BY <1>1, <1>2, <1>4, <1>8 DEF Holding
<1>9. CASE /\ p.pc \in Holding
           /\ worker'[w].pc \in Holding
           /\ worker'[w].consumer = c
           /\ worker'[w].claim = p.claim
           /\ worker'[w].time = p.time
           /\ worker'[w].pc = "acknowledging" => AdapterDelivers(w)
    <2>1. worker'[w].time <= now'
        BY <1>1, <1>2, <1>4, <1>9
    <2>2. AdapterDelivers(w) => p.claim.seq \in accepted'[c]
        BY <1>1, <1>2, <1>9 DEF AdapterDelivers, TypeOK
    <2>. QED
        BY <1>5, <1>9, <2>1, <2>2
<1>10. ASSUME NEW token \in Tokens, ClaimNext(w, token)
       PROVE  /\ worker'[w].time <= now'
              /\ worker'[w].pc = "delivering"
              /\ worker'[w].consumer = c
              /\ c \in registered'
              /\ worker'[w].claim.token \in Tokens
              /\ start'[c] <= worker'[w].claim.seq
              /\ worker'[w].claim.seq <= consumers'[c].next
              /\ worker'[w].claim.seq <= lastSequence'
    <2>1. /\ c \in registered /\ c \in Consumers
          /\ consumers[c].next \in DOMAIN events
          /\ worker'[w].claim.token = token
          /\ worker'[w].claim.seq = consumers[c].next
          /\ worker'[w].pc = "delivering"
          /\ worker'[w].consumer = c
          /\ worker'[w].time = p.time
        <3>1. worker'[w].claim = [seq |-> consumers[c].next, id |-> events[consumers[c].next].id,
                                 token |-> token, expires |-> p.time + Lease]
            BY <1>10, NewClaim
        <3>2. /\ c \in registered /\ c \in Consumers
              /\ consumers[c].next \in DOMAIN events
              /\ worker'[w].pc = "delivering"
              /\ worker'[w].consumer = c
              /\ worker'[w].time = p.time
            BY <1>10, NewClaim
        <3>. QED
            BY <3>1, <3>2
    <2>2. consumers[c].next <= lastSequence /\ consumers[c].next \in Nat
        BY <1>2, <2>1 DEF SequenceIntegrity, TypeOK, ConsumerRow
    <2>3. start[c] <= consumers[c].next
        BY <2>1 DEF RowsConsistent
    <2>4. start'[c] = start[c] /\ c \in registered' /\ consumers[c].next <= consumers'[c].next
        BY <2>1, Monotone
    <2>. QED
        BY <1>1, <1>2, <1>4, <2>1, <2>2, <2>3, <2>4
<1>. QED
    BY ProcessStep, <1>6, <1>7, <1>8, <1>9, <1>10 DEF Holding

(* Where a claim comes from: it was there, or it is the step's new claim. *)
LEMMA ClaimOrigin ==
    ASSUME TypeOK, [Next]_vars, \A w \in Workers, token \in Tokens : ~ ClaimNext(w, token)
    PROVE  /\ \A w \in Workers :
                  \/ worker'[w].claim = NoClaim /\ worker'[w].pc \notin Holding
                  \/ /\ worker'[w].claim = worker[w].claim
                     /\ worker'[w].pc \in Holding =>
                            worker[w].pc \in Holding /\ worker'[w].consumer = worker[w].consumer
           /\ \A c \in Consumers :
                  consumers'[c].claim = NoClaim \/ consumers'[c].claim = consumers[c].claim
<1>1. ASSUME NEW w \in Workers
      PROVE  \/ worker'[w].claim = NoClaim /\ worker'[w].pc \notin Holding
             \/ /\ worker'[w].claim = worker[w].claim
                /\ worker'[w].pc \in Holding =>
                       worker[w].pc \in Holding /\ worker'[w].consumer = worker[w].consumer
    BY ProcessStep
<1>2. ASSUME NEW c \in Consumers
      PROVE  consumers'[c].claim = NoClaim \/ consumers'[c].claim = consumers[c].claim
    <2>1. consumers[c] \in ConsumerRow
        BY DEF TypeOK
    <2>2. ASSUME NEW n, consumers'[c] = FreshRow(n)
          PROVE  consumers'[c].claim = NoClaim
        BY <2>2 DEF FreshRow
    <2>3. ASSUME NEW t, consumers'[c] = Failed(consumers[c], t)
          PROVE  consumers'[c].claim = NoClaim
        BY <2>3 DEF Failed
    <2>4. ASSUME consumers'[c] = [consumers[c] EXCEPT !.claim = NoClaim]
          PROVE  consumers'[c].claim = NoClaim
        BY <2>1, <2>4 DEF ConsumerRow
    <2>. QED
        BY RowStep, <2>2, <2>3, <2>4
<1>. QED
    BY <1>1, <1>2

\* No step gives one token to two claims.  (claim_next)
LEMMA TokensStayUnique ==
    ASSUME TypeOK, SequenceIntegrity, ClaimBookkeeping, [Next]_vars
    PROVE  TokensUnique'
<1>1. NoClaim.token = NoToken
    BY DEF NoClaim
<1>2. RowsConsistent' /\ ProcessesConsistent'
    BY RowsStayConsistent, ProcessesStayConsistent DEF ClaimBookkeeping
<1>3. ASSUME NEW u \in Workers, NEW token \in Tokens, ClaimNext(u, token)
      PROVE  TokensUnique'
    <2>. DEFINE e == worker[u].consumer
    <2>1. /\ e \in Consumers
          /\ IsFresh(token)
          /\ worker'[u].claim.token = token
          /\ worker'[u].consumer = e
        <3>1. worker'[u].claim = [seq |-> consumers[e].next, id |-> events[consumers[e].next].id,
                                 token |-> token, expires |-> worker[u].time + Lease]
            BY <1>3, NewClaim
        <3>2. e \in Consumers /\ IsFresh(token) /\ worker'[u].consumer = e
            BY <1>3, NewClaim
        <3>. QED
            BY <3>1, <3>2
    <2>2. \A w \in Workers : w # u => worker'[w] = worker[w]
        <3>1. worker' = [worker EXCEPT ![u] = worker'[u]]
            BY <1>3, NewClaim
        <3>. QED
            BY <3>1 DEF TypeOK
    <2>3. \A c \in Consumers : c # e => consumers'[c] = consumers[c]
        <3>1. consumers' = [consumers EXCEPT ![e] = [consumers[e] EXCEPT !.claim = worker'[u].claim]]
            BY <1>3, NewClaim
        <3>. QED
            BY <3>1 DEF TypeOK
    <2>4. consumers'[e].claim = worker'[u].claim
        <3>1. consumers' = [consumers EXCEPT ![e] = [consumers[e] EXCEPT !.claim = worker'[u].claim]]
            BY <1>3, NewClaim
        <3>2. consumers[e] \in ConsumerRow /\ consumers \in [Consumers -> ConsumerRow]
            BY <2>1 DEF TypeOK
        <3>3. consumers'[e] = [consumers[e] EXCEPT !.claim = worker'[u].claim]
            BY <2>1, <3>1, <3>2
        <3>. QED
            BY <3>2, <3>3 DEF ConsumerRow
    <2>5. /\ \A w \in Workers : worker[w].claim.token # token
          /\ \A c \in Consumers : consumers[c].claim.token # token
        BY <2>1 DEF IsFresh
    <2>6. ASSUME NEW v \in Workers, NEW w \in Workers, v # w,
                 worker'[v].claim.token = worker'[w].claim.token
          PROVE  worker'[w].claim.token = NoToken
        BY <2>1, <2>2, <2>5, <2>6 DEF ClaimBookkeeping, TokensUnique
    <2>7. ASSUME NEW c \in Consumers, NEW d \in Consumers, c # d,
                 consumers'[c].claim.token = consumers'[d].claim.token
          PROVE  consumers'[c].claim.token = NoToken
        BY <2>1, <2>3, <2>4, <2>5, <2>7 DEF ClaimBookkeeping, TokensUnique
    <2>8. ASSUME NEW w \in Workers, NEW c \in Consumers, worker'[w].pc \in Holding,
                 consumers'[c].claim.token = worker'[w].claim.token
          PROVE  worker'[w].consumer = c /\ consumers'[c].claim = worker'[w].claim
        BY <2>1, <2>2, <2>3, <2>4, <2>5, <2>8 DEF ClaimBookkeeping, TokensUnique
    <2>. QED
        BY <2>6, <2>7, <2>8 DEF TokensUnique
<1>4. CASE \A u \in Workers, token \in Tokens : ~ ClaimNext(u, token)
    <2>1. \A w \in Workers :
              \/ worker'[w].claim = NoClaim /\ worker'[w].pc \notin Holding
              \/ /\ worker'[w].claim = worker[w].claim
                 /\ worker'[w].pc \in Holding =>
                        worker[w].pc \in Holding /\ worker'[w].consumer = worker[w].consumer
        BY <1>4, ClaimOrigin
    <2>2. \A c \in Consumers :
              consumers'[c].claim = NoClaim \/ consumers'[c].claim = consumers[c].claim
        BY <1>4, ClaimOrigin
    <2>3. ASSUME NEW v \in Workers, NEW w \in Workers, v # w,
                 worker'[v].claim.token = worker'[w].claim.token
          PROVE  worker'[w].claim.token = NoToken
        BY <1>1, <2>1, <2>3 DEF ClaimBookkeeping, TokensUnique
    <2>4. ASSUME NEW c \in Consumers, NEW d \in Consumers, c # d,
                 consumers'[c].claim.token = consumers'[d].claim.token
          PROVE  consumers'[c].claim.token = NoToken
        BY <1>1, <2>2, <2>4 DEF ClaimBookkeeping, TokensUnique
    <2>5. ASSUME NEW w \in Workers, NEW c \in Consumers, worker'[w].pc \in Holding,
                 consumers'[c].claim.token = worker'[w].claim.token
          PROVE  worker'[w].consumer = c /\ consumers'[c].claim = worker'[w].claim
        <3>1. worker'[w].claim.token \in Tokens
            BY <1>2, <2>5 DEF ProcessesConsistent
        <3>2. consumers'[c].claim = consumers[c].claim
            BY <1>1, <2>2, <2>5, <3>1, NamesAssumption
        <3>. QED
            BY <2>1, <2>5, <3>2 DEF ClaimBookkeeping, TokensUnique
    <2>. QED
        BY <2>3, <2>4, <2>5 DEF TokensUnique
<1>. QED
    BY <1>3, <1>4

(* The rows and the processes never disagree about a claim. *)
THEOREM ClaimsConsistent == Spec => []ClaimBookkeeping
<1>1. Init => ClaimBookkeeping
    <2>. SUFFICES ASSUME Init PROVE ClaimBookkeeping
        OBVIOUS
    <2>. USE DEF Init
    <2>1. RowsConsistent
        BY DEF RowsConsistent, FreshRow
    <2>2. ProcessesConsistent
        BY DEF ProcessesConsistent, Idle, Holding
    <2>3. TokensUnique
        BY DEF TokensUnique, Idle, FreshRow, NoClaim, Holding
    <2>. QED
        BY <2>1, <2>2, <2>3 DEF ClaimBookkeeping
<1>2. TypeOK /\ SequenceIntegrity /\ ClaimBookkeeping /\ [Next]_vars => ClaimBookkeeping'
    BY RowsStayConsistent, ProcessesStayConsistent, TokensStayUnique DEF ClaimBookkeeping
<1>. QED
    BY <1>1, <1>2, TypeCorrect, SequencesNeverReused, PTL DEF Spec

-----------------------------------------------------------------------------
(* Nothing is skipped, nothing overtakes *)

(* A cursor moves by one, past an event that was accepted or abandoned. *)
LEMMA CursorStep ==
    ASSUME TypeOK, ClaimBookkeeping, [Next]_vars, NEW c \in registered
    PROVE  \/ consumers'[c].next = consumers[c].next
           \/ /\ consumers'[c].next = consumers[c].next + 1
              /\ consumers[c].next \in accepted'[c] \cup abandoned'[c]
<1>. DEFINE row == consumers[c]
<1>1. c \in Consumers /\ row \in ConsumerRow
    BY DEF TypeOK
<1>2. ASSUME NEW n, consumers'[c] = FreshRow(n)
      PROVE  consumers'[c].next = n
    BY <1>2 DEF FreshRow
<1>3. ASSUME NEW x, consumers'[c] = [row EXCEPT !.claim = x]
      PROVE  consumers'[c].next = row.next
    BY <1>1, <1>3 DEF ConsumerRow
<1>4. ASSUME NEW t, consumers'[c] = Failed(row, t)
      PROVE  consumers'[c].next = row.next
    BY <1>4 DEF Failed
<1>5. ASSUME NEW s \in 1..lastSequence, NEW id, Abandon(c, s, id)
      PROVE  row.next \in abandoned'[c]
    BY <1>1, <1>5 DEF Abandon, Blocked, TypeOK
<1>6. ASSUME NEW w \in Workers, Acknowledge(w), worker[w].consumer = c
      PROVE  row.next \in accepted'[c]
    <2>1. row.next = worker[w].claim.seq /\ worker[w].pc = "acknowledging"
        BY <1>6 DEF Acknowledge, StillHolds
    <2>2. worker[w].claim.seq \in accepted[c]
        BY <1>6, <2>1 DEF ClaimBookkeeping, ProcessesConsistent
    <2>. QED
        BY <1>1, <2>1, <2>2, Monotone
<1>7. \A first : ~ RegisterConsumer(c, first)
    BY DEF RegisterConsumer
<1>8. \/ consumers'[c].next = row.next
      \/ /\ consumers'[c].next = row.next + 1
         /\ \/ \E s \in 1..lastSequence, id \in 1..Len(published) : Abandon(c, s, id)
            \/ \E w \in Workers : Acknowledge(w) /\ worker[w].consumer = c
    <2>1. CASE \E x : \/ consumers'[c] = [row EXCEPT !.claim = x]
                      \/ consumers'[c] = Failed(row, x)
        BY <2>1, <1>3, <1>4
    <2>2. CASE consumers'[c] = FreshRow(row.next)
        BY <2>2, <1>2
    <2>3. CASE consumers'[c] = FreshRow(row.next + 1)
               /\ \/ \E s \in 1..lastSequence, id \in 1..Len(published) : Abandon(c, s, id)
                  \/ \E w \in Workers : Acknowledge(w) /\ worker[w].consumer = c
        BY <2>3, <1>2
    <2>. QED
        BY <1>1, <1>7, <2>1, <2>2, <2>3, RowStep
<1>. QED
    BY <1>5, <1>6, <1>8

(* Every event behind a cursor was accepted by the adapter or abandoned by   *)
(* an operator.                                                              *)
THEOREM NothingSkipped == Spec => []NoEventSkipped
<1>1. Init => NoEventSkipped
    BY DEF Init, NoEventSkipped
<1>2. /\ TypeOK /\ ClaimBookkeeping /\ NoEventSkipped /\ [Next]_vars
      /\ TypeOK' /\ ClaimBookkeeping'
      => NoEventSkipped'
    <2>. SUFFICES ASSUME TypeOK, ClaimBookkeeping, NoEventSkipped, [Next]_vars,
                         TypeOK', ClaimBookkeeping',
                         NEW c \in registered'
                  PROVE  /\ start'[c] <= consumers'[c].next
                         /\ start'[c]..(consumers'[c].next - 1) \subseteq accepted'[c] \cup abandoned'[c]
        BY DEF NoEventSkipped
    <2>1. /\ c \in Consumers
          /\ start'[c] \in Nat /\ consumers'[c].next \in Nat
        BY DEF TypeOK, ConsumerRow
    <2>2. start'[c] <= consumers'[c].next
        BY <2>1 DEF ClaimBookkeeping, RowsConsistent
    <2>3. CASE c \in registered
        <3>1. /\ start'[c] = start[c]
              /\ accepted[c] \subseteq accepted'[c] /\ abandoned[c] \subseteq abandoned'[c]
            BY <2>1, <2>3, Monotone
        <3>2. start[c]..(consumers[c].next - 1) \subseteq accepted[c] \cup abandoned[c]
            BY <2>3 DEF NoEventSkipped
        <3>3. consumers[c].next \in Nat
            BY <2>1 DEF TypeOK, ConsumerRow
        <3>4. CASE consumers'[c].next = consumers[c].next
            BY <2>2, <3>1, <3>2, <3>4
        <3>5. CASE /\ consumers'[c].next = consumers[c].next + 1
                   /\ consumers[c].next \in accepted'[c] \cup abandoned'[c]
            BY <2>1, <2>2, <3>1, <3>2, <3>3, <3>5
        <3>. QED
            BY <2>3, <3>4, <3>5, CursorStep
    <2>4. CASE c \notin registered
        <3>1. PICK first \in StartSequences : RegisterConsumer(c, first) /\ start'[c] = first
            BY <2>1, <2>4, HistoryStep
        <3>2. consumers'[c].next = first
            BY <2>1, <3>1 DEF RegisterConsumer, FreshRow, TypeOK
        <3>. QED
            BY <2>1, <2>2, <3>1, <3>2
    <2>. QED
        BY <2>3, <2>4
<1>. QED
    BY <1>1, <1>2, TypeCorrect, ClaimsConsistent, PTL DEF Spec

(* No adapter call is ahead of the cursor. *)
THEOREM NothingOvertakes == Spec => []FirstDeliveryInOrder
<1>1. Init => FirstDeliveryInOrder
    BY DEF Init, FirstDeliveryInOrder
<1>2. /\ TypeOK /\ ClaimBookkeeping /\ FirstDeliveryInOrder /\ [Next]_vars /\ TypeOK'
      => FirstDeliveryInOrder'
    <2>. SUFFICES ASSUME TypeOK, ClaimBookkeeping, FirstDeliveryInOrder, [Next]_vars, TypeOK',
                         NEW c \in Consumers
                  PROVE  accepted'[c] \cup abandoned'[c] \subseteq start'[c]..consumers'[c].next
        BY DEF FirstDeliveryInOrder
    <2>1. /\ start[c] \in Nat /\ consumers[c].next \in Nat
          /\ start'[c] \in Nat /\ consumers'[c].next \in Nat
        BY DEF TypeOK, ConsumerRow
    <2>2. CASE c \notin registered
        <3>1. accepted[c] = {} /\ abandoned[c] = {}
            BY <2>2 DEF ClaimBookkeeping, RowsConsistent
        <3>2. \A w \in Workers : AdapterDelivers(w) => worker[w].consumer \in registered
            BY DEF AdapterDelivers, ClaimBookkeeping, ProcessesConsistent, Holding
        <3>3. \A s, id : Abandon(c, s, id) => c \in registered
            BY DEF Abandon, Blocked
        <3>. QED
            BY <2>2, <3>1, <3>2, <3>3, HistoryStep
    <2>3. CASE c \in registered
        <3>1. start'[c] = start[c] /\ consumers[c].next <= consumers'[c].next
            BY <2>3, Monotone
        <3>2. accepted[c] \cup abandoned[c] \subseteq start[c]..consumers[c].next
            BY DEF FirstDeliveryInOrder
        <3>3. start[c] <= consumers[c].next
            BY DEF ClaimBookkeeping, RowsConsistent
        <3>4. accepted'[c] \subseteq start[c]..consumers[c].next
            <4>1. ASSUME NEW w \in Workers, AdapterDelivers(w), worker[w].consumer = c
                  PROVE  worker[w].claim.seq \in start[c]..consumers[c].next
                <5>1. /\ start[c] <= worker[w].claim.seq
                      /\ worker[w].claim.seq <= consumers[c].next
                    BY <4>1 DEF AdapterDelivers, ClaimBookkeeping, ProcessesConsistent, Holding
                <5>2. worker[w].claim.seq \in Nat
                    BY DEF TypeOK, Process, Claim
                <5>. QED
                    BY <2>1, <5>1, <5>2
            <4>. QED
                BY <3>2, <4>1, HistoryStep
        <3>5. abandoned'[c] \subseteq start[c]..consumers[c].next
            <4>1. ASSUME NEW s, NEW id, Abandon(c, s, id)
                  PROVE  s = consumers[c].next
                BY <4>1 DEF Abandon, Blocked
            <4>2. consumers[c].next \in start[c]..consumers[c].next
                BY <2>1, <3>3
            <4>. QED
                BY <3>2, <4>1, <4>2, HistoryStep
        <3>. QED
            BY <2>1, <3>1, <3>4, <3>5
    <2>. QED
        BY <2>2, <2>3
<1>. QED
    BY <1>1, <1>2, TypeCorrect, ClaimsConsistent, PTL DEF Spec

-----------------------------------------------------------------------------
(* Retries *)

(* A step is outside an exhausted consumer's row unless an operator takes it. *)
LEMMA ExhaustedStep ==
    ASSUME TypeOK, ClaimBookkeeping, RetryAccounting, [Next]_vars, NEW c \in registered,
           Exhausted(consumers[c])
    PROVE  \/ consumers'[c] = consumers[c]
           \/ consumers'[c] = FreshRow(consumers[c].next)
           \/ /\ consumers'[c] = FreshRow(consumers[c].next + 1)
              /\ consumers[c].next \in abandoned'[c]
<1>. DEFINE row == consumers[c]
<1>1. c \in Consumers /\ row \in ConsumerRow /\ row.attempts \in Nat /\ MaxAttempts \in Nat
    BY ProfileAssumption DEF TypeOK, ConsumerRow
<1>2. row.claim = NoClaim
    <2>1. row.attempts = MaxAttempts /\ (row.claim # NoClaim => row.attempts < MaxAttempts)
        BY <1>1 DEF RetryAccounting
    <2>. QED
        BY <1>1, <2>1
<1>3. \A w \in Workers, token \in Tokens : ~ (ClaimNext(w, token) /\ worker[w].consumer = c)
    BY DEF ClaimNext, Due
<1>4. \A w \in Workers : ~ (ClaimNothing(w) /\ worker[w].consumer = c)
    BY DEF ClaimNothing, Due
<1>5. ASSUME NEW w \in Workers, Acknowledge(w) \/ RecordFailure(w), worker[w].consumer = c
      PROVE  FALSE
    <2>1. worker[w].claim.token \in Tokens
        BY <1>5 DEF Acknowledge, RecordFailure, ClaimBookkeeping, ProcessesConsistent, Holding
    <2>2. row.claim.token = worker[w].claim.token
        BY <1>5 DEF Acknowledge, RecordFailure, StillHolds
    <2>. QED
        BY <1>2, <2>1, <2>2, NamesAssumption DEF NoClaim
<1>6. \A first : ~ RegisterConsumer(c, first)
    BY DEF RegisterConsumer
<1>7. ASSUME NEW s, NEW id, Abandon(c, s, id)
      PROVE  row.next \in abandoned'[c]
    BY <1>1, <1>7 DEF Abandon, Blocked, TypeOK
<1>. QED
    BY <1>1, RowStep, <1>3, <1>4, <1>5, <1>6, <1>7

(* A failure uses up one attempt, and the last one leaves no retry time. *)
LEMMA FailureAccounting ==
    ASSUME NEW row \in ConsumerRow, NEW t \in Nat, row.attempts < MaxAttempts
    PROVE  LET after == Failed(row, t)
           IN  /\ after.attempts <= MaxAttempts
               /\ after.failed
               /\ after.attempts > 0
               /\ Exhausted(after) <=> after.attempts = MaxAttempts
               /\ after.claim = NoClaim
<1>. DEFINE n == row.attempts + 1
            after == Failed(row, t)
<1>1. n \in Nat \ {0} /\ MaxAttempts \in Nat /\ n <= MaxAttempts
    BY ProfileAssumption DEF ConsumerRow
<1>2. RetryDelay(n) \in Nat \ {0}
    BY <1>1, RetryDelayType
<1>. HIDE DEF n
<1>3. /\ after.attempts = n /\ after.failed /\ after.claim = NoClaim
      /\ after.due = IF n < MaxAttempts THEN t + RetryDelay(n) ELSE 0
    BY DEF Failed, n
<1>4. after.due = 0 <=> n = MaxAttempts
    BY <1>1, <1>2, <1>3
<1>. QED
    BY <1>1, <1>3, <1>4 DEF Exhausted

(* Attempts, failure and retry time of every row tell one story. *)
THEOREM RetriesAccounted == Spec => []RetryAccounting
<1>1. Init => RetryAccounting
    BY ProfileAssumption DEF Init, RetryAccounting, FreshRow, Exhausted
<1>2. TypeOK /\ ClaimBookkeeping /\ RetryAccounting /\ [Next]_vars => RetryAccounting'
    <2>. SUFFICES ASSUME TypeOK, ClaimBookkeeping, RetryAccounting, [Next]_vars,
                         NEW c \in Consumers
                  PROVE  /\ consumers'[c].attempts <= MaxAttempts
                         /\ consumers'[c].failed <=> consumers'[c].attempts > 0
                         /\ Exhausted(consumers'[c]) <=> consumers'[c].attempts = MaxAttempts
                         /\ consumers'[c].claim # NoClaim => consumers'[c].attempts < MaxAttempts
        BY DEF RetryAccounting, Exhausted
    <2>. DEFINE row == consumers[c]
    <2>1. /\ row \in ConsumerRow /\ row.attempts \in Nat
          /\ row.attempts <= MaxAttempts
          /\ row.failed <=> row.attempts > 0
          /\ Exhausted(row) <=> row.attempts = MaxAttempts
          /\ row.claim # NoClaim => row.attempts < MaxAttempts
          /\ MaxAttempts \in Nat \ {0}
        BY ProfileAssumption DEF TypeOK, ConsumerRow, RetryAccounting
    <2>2. CASE consumers'[c] = row
        BY <2>1, <2>2
    <2>3. ASSUME NEW n, consumers'[c] = FreshRow(n)
          PROVE  /\ consumers'[c].attempts = 0 /\ ~ consumers'[c].failed
                 /\ ~ Exhausted(consumers'[c])
                 /\ consumers'[c].claim = NoClaim
        BY <2>3 DEF FreshRow, Exhausted
    <2>4. ASSUME NEW w \in Workers, NEW token \in Tokens, ClaimNext(w, token), worker[w].consumer = c
          PROVE  row.attempts < MaxAttempts
        BY <2>1, <2>4 DEF ClaimNext, Due
    <2>5. ASSUME NEW claim, consumers'[c] = [row EXCEPT !.claim = claim]
          PROVE  /\ consumers'[c].attempts = row.attempts /\ consumers'[c].failed = row.failed
                 /\ Exhausted(consumers'[c]) <=> Exhausted(row)
                 /\ consumers'[c].claim = claim
        BY <2>1, <2>5 DEF ConsumerRow, Exhausted
    <2>6. ASSUME NEW w \in Workers, RecordFailure(w), worker[w].consumer = c
          PROVE  row.attempts < MaxAttempts /\ worker[w].time \in Nat
        <3>1. worker[w].claim.token \in Tokens
            BY <2>6 DEF RecordFailure, ClaimBookkeeping, ProcessesConsistent, Holding
        <3>2. row.claim.token = worker[w].claim.token
            BY <2>6 DEF RecordFailure, StillHolds
        <3>. QED
            BY <2>1, <3>1, <3>2, NamesAssumption DEF NoClaim, TypeOK, Process
    <2>7. ASSUME NEW w \in Workers, RecordFailure(w), worker[w].consumer = c,
                 consumers'[c] = Failed(row, worker[w].time)
          PROVE  /\ consumers'[c].attempts <= MaxAttempts
                 /\ consumers'[c].failed
                 /\ consumers'[c].attempts > 0
                 /\ Exhausted(consumers'[c]) <=> consumers'[c].attempts = MaxAttempts
                 /\ consumers'[c].claim = NoClaim
        BY <2>1, <2>6, <2>7, FailureAccounting
    <2>8. CASE \E n : consumers'[c] = FreshRow(n)
        BY <2>1, <2>3, <2>8
    <2>9. CASE consumers'[c] = [row EXCEPT !.claim = NoClaim]
        BY <2>1, <2>5, <2>9
    <2>10. CASE \E w \in Workers, token \in Tokens :
                    /\ ClaimNext(w, token)
                    /\ worker[w].consumer = c
                    /\ consumers'[c] = [row EXCEPT !.claim = worker'[w].claim]
        BY <2>1, <2>4, <2>5, <2>10
    <2>11. CASE \E w \in Workers : RecordFailure(w) /\ worker[w].consumer = c
                                   /\ consumers'[c] = Failed(row, worker[w].time)
        BY <2>7, <2>11
    <2>. QED
        BY RowStep, <2>2, <2>8, <2>9, <2>10, <2>11
<1>. QED
    BY <1>1, <1>2, TypeCorrect, ClaimsConsistent, PTL DEF Spec

(* retry and abandon accept an exhausted consumer. *)
THEOREM ExhaustedRecoverable == Spec => []ExhaustedIsRecoverable
<1>1. TypeOK /\ SequenceIntegrity /\ ClaimBookkeeping /\ RetryAccounting => ExhaustedIsRecoverable
    <2>. SUFFICES ASSUME TypeOK, SequenceIntegrity, ClaimBookkeeping, RetryAccounting,
                         NEW c \in registered, Exhausted(consumers[c])
                  PROVE  \E id \in 1..Len(published) : Blocked(c, consumers[c].next, id)
        BY DEF ExhaustedIsRecoverable
    <2>. DEFINE row == consumers[c]
    <2>0. c \in Consumers /\ row \in ConsumerRow
        BY DEF TypeOK
    <2>1. /\ c \in Consumers /\ row.attempts \in Nat /\ row.next \in Nat /\ MaxAttempts \in Nat
          /\ lastSequence \in Nat /\ trimmed \in Nat
        <3>1. lastSequence \in Nat /\ trimmed \in Nat
            BY BoundsAssumption DEF TypeOK
        <3>. QED
            BY <2>0, <3>1, ProfileAssumption DEF ConsumerRow
    <2>2. row.claim = NoClaim
        <3>1. row.attempts = MaxAttempts /\ (row.claim # NoClaim => row.attempts < MaxAttempts)
            BY <2>1 DEF RetryAccounting
        <3>. QED
            BY <2>1, <3>1
    <2>3. row.failed /\ trimmed < row.next /\ row.next <= lastSequence
        BY <2>1 DEF Exhausted, ClaimBookkeeping, RowsConsistent
    <2>4. /\ row.next \in DOMAIN events
          /\ events[row.next].id = row.next
          /\ row.next \in 1..Len(published)
        BY <2>1, <2>3 DEF SequenceIntegrity
    <2>5. Blocked(c, row.next, row.next)
        BY <2>2, <2>3, <2>4 DEF Blocked, NoClaim
    <2>. QED
        BY <2>4, <2>5
<1>. QED
    BY <1>1, TypeCorrect, SequencesNeverReused, ClaimsConsistent, RetriesAccounted, PTL

(* An exhausted consumer waits for its operator. *)
THEOREM ExhaustedWaits == Spec => ExhaustedWaitsForOperator
<1>1. TypeOK /\ ClaimBookkeeping /\ RetryAccounting /\ [Next]_vars =>
          \A c \in registered :
              LET row == consumers[c]
              IN  Exhausted(row) /\ consumers'[c] # row =>
                      \/ consumers'[c] = FreshRow(row.next)
                      \/ /\ consumers'[c] = FreshRow(row.next + 1)
                         /\ row.next \in abandoned'[c]
    BY ExhaustedStep
<1>. QED
    BY <1>1, TypeCorrect, ClaimsConsistent, RetriesAccounted, PTL DEF Spec, ExhaustedWaitsForOperator

-----------------------------------------------------------------------------
(* Leases *)

(* No one takes a row away from a process whose lease is running. *)
LEMMA LeaseKept ==
    ASSUME TypeOK, ClaimBookkeeping, [Next]_vars, NEW w \in Workers,
           worker[w].pc \in Holding, worker'[w].pc \in Holding,
           worker'[w].claim = worker[w].claim, worker'[w].consumer = worker[w].consumer,
           worker[w].claim.expires > now,
           StillHolds(worker[w].consumer, worker[w].claim)
    PROVE  consumers'[worker[w].consumer] = consumers[worker[w].consumer]
<1>. DEFINE c == worker[w].consumer
            row == consumers[c]
<1>1. /\ c \in registered /\ c \in Consumers
      /\ worker[w].claim.token \in Tokens
      /\ row.claim = worker[w].claim
      /\ row.claim.token \in Tokens
    <2>1. c \in registered /\ worker[w].claim.token \in Tokens
        BY DEF ClaimBookkeeping, ProcessesConsistent
    <2>2. c \in Consumers
        BY <2>1 DEF TypeOK
    <2>3. row.claim.token = worker[w].claim.token
        BY DEF StillHolds
    <2>. QED
        BY <2>1, <2>2, <2>3 DEF ClaimBookkeeping, TokensUnique
<1>2. ASSUME NEW v \in Workers
      PROVE  ~ Due(row, worker[v].time)
    <2>1. worker[v].time <= now /\ worker[v].time \in Nat /\ now \in Nat
        BY BoundsAssumption DEF ClaimBookkeeping, ProcessesConsistent, TypeOK, Process
    <2>2. row.claim.expires \in Nat
        BY <1>1 DEF TypeOK, Process, Claim
    <2>. QED
        BY <1>1, <2>1, <2>2 DEF Due, Leased
<1>3. \A v \in Workers, token \in Tokens : ~ (ClaimNext(v, token) /\ worker[v].consumer = c)
    BY <1>2 DEF ClaimNext
<1>4. \A v \in Workers : ~ (ClaimNothing(v) /\ worker[v].consumer = c)
    BY <1>2 DEF ClaimNothing
<1>5. ASSUME NEW v \in Workers, Acknowledge(v) \/ RecordFailure(v), worker[v].consumer = c
      PROVE  FALSE
    <2>1. worker[v].claim.token = worker[w].claim.token
        BY <1>1, <1>5 DEF Acknowledge, RecordFailure, StillHolds
    <2>2. v = w
        BY <1>1, <2>1, NamesAssumption DEF ClaimBookkeeping, TokensUnique
    <2>3. worker'[w] = Continued(worker[w]) \/ worker'[w] = Idle
        BY <1>5, <2>2 DEF Acknowledge, RecordFailure, TypeOK
    <2>4. worker[w] \in Process
        BY DEF TypeOK
    <2>5. worker'[w].pc \in {"ready", "idle"}
        <3>1. Idle.pc = "idle"
            BY DEF Idle
        <3>2. Continued(worker[w]).pc \in {"ready", "idle"}
            BY <2>4, <3>1 DEF Continued, Process
        <3>. QED
            BY <2>3, <3>1, <3>2
    <2>. QED
        BY <2>5 DEF Holding
<1>6. \A first : ~ RegisterConsumer(c, first)
    BY <1>1 DEF RegisterConsumer
<1>7. \A s, id : ~ Retry(c, s, id) /\ ~ Abandon(c, s, id)
    BY <1>1, NamesAssumption DEF Retry, Abandon, Blocked
<1>. QED
    BY <1>1, RowStep, <1>3, <1>4, <1>5, <1>6, <1>7

(* A lease protects the process that holds it, and only one process. *)
THEOREM LeasesProtect == Spec => []LeaseProtects
<1>. DEFINE Unexpired == \A w \in Workers :
                worker[w].pc \in Holding /\ worker[w].claim.expires > now
                    => StillHolds(worker[w].consumer, worker[w].claim)
<1>1. Init => Unexpired
    BY DEF Init, Idle, Holding
<1>2. TypeOK /\ ClaimBookkeeping /\ Unexpired /\ [Next]_vars => Unexpired'
    <2>. SUFFICES ASSUME TypeOK, ClaimBookkeeping, Unexpired, [Next]_vars,
                         NEW w \in Workers,
                         worker'[w].pc \in Holding, worker'[w].claim.expires > now'
                  PROVE  /\ worker'[w].consumer \in registered'
                         /\ consumers'[worker'[w].consumer].next = worker'[w].claim.seq
                         /\ consumers'[worker'[w].consumer].claim.seq = worker'[w].claim.seq
                         /\ consumers'[worker'[w].consumer].claim.id = worker'[w].claim.id
                         /\ consumers'[worker'[w].consumer].claim.token = worker'[w].claim.token
        BY DEF StillHolds
    <2>. DEFINE c == worker[w].consumer
    <2>1. /\ worker[w].claim.expires \in Nat /\ now \in Nat /\ now' \in Nat /\ now <= now'
          /\ registered \subseteq registered' /\ registered \subseteq Consumers
        <3>1. worker[w].claim.expires \in Nat /\ now \in Nat /\ registered \subseteq Consumers
            <4>1. worker[w] \in Process /\ now \in Nat /\ registered \subseteq Consumers
                BY BoundsAssumption DEF TypeOK
            <4>. QED
                BY <4>1 DEF Process, Claim
        <3>2. now' \in 1..(MaxTime + 1)
            BY TypePreserved DEF TypeOK
        <3>. QED
            BY <3>1, <3>2, Monotone, BoundsAssumption
    <2>2. CASE /\ worker[w].pc \in Holding
               /\ worker'[w].consumer = c
               /\ worker'[w].claim = worker[w].claim
        <3>1. worker[w].claim.expires > now
            BY <2>1, <2>2
        <3>2. StillHolds(c, worker[w].claim)
            BY <2>2, <3>1
        <3>3. consumers'[c] = consumers[c]
            BY <2>2, <3>1, <3>2, LeaseKept
        <3>. QED
            BY <2>1, <2>2, <3>2, <3>3 DEF StillHolds
    <2>3. ASSUME NEW token \in Tokens, ClaimNext(w, token)
          PROVE  /\ worker'[w].consumer \in registered'
                 /\ consumers'[c].next = worker'[w].claim.seq
                 /\ consumers'[c].claim = worker'[w].claim
                 /\ worker'[w].consumer = c
        <3>1. /\ c \in registered /\ c \in Consumers
              /\ worker'[w].consumer = c
              /\ consumers' = [consumers EXCEPT ![c] =
                                   [consumers[c] EXCEPT !.claim = worker'[w].claim]]
            BY <2>3, NewClaim
        <3>2. worker'[w].claim = [seq |-> consumers[c].next, id |-> events[consumers[c].next].id,
                                 token |-> token, expires |-> worker[w].time + Lease]
            BY <2>3, NewClaim
        <3>3. consumers[c] \in ConsumerRow /\ consumers \in [Consumers -> ConsumerRow]
            BY <3>1 DEF TypeOK
        <3>4. consumers'[c] = [consumers[c] EXCEPT !.claim = worker'[w].claim]
            BY <3>1, <3>3
        <3>5. consumers'[c].next = consumers[c].next /\ consumers'[c].claim = worker'[w].claim
            BY <3>3, <3>4 DEF ConsumerRow
        <3>. QED
            BY <2>1, <3>1, <3>2, <3>5
    <2>4. CASE worker'[w] = worker[w]
        BY <2>2, <2>4
    <2>. QED
        BY ProcessStep, <2>2, <2>3, <2>4 DEF Holding
<1>3. ClaimBookkeeping /\ Unexpired => LeaseProtects
    <2>. SUFFICES ASSUME ClaimBookkeeping,
                         NEW v \in Workers, NEW w \in Workers, v # w,
                         worker[v].pc \in Holding, worker[w].pc \in Holding,
                         worker[v].consumer = worker[w].consumer,
                         StillHolds(worker[v].consumer, worker[v].claim),
                         StillHolds(worker[w].consumer, worker[w].claim)
                  PROVE  FALSE
        BY DEF LeaseProtects
    <2>1. worker[v].claim.token = worker[w].claim.token
        BY DEF StillHolds
    <2>2. worker[w].claim.token \in Tokens
        BY DEF ClaimBookkeeping, ProcessesConsistent
    <2>. QED
        BY <2>1, <2>2, NamesAssumption DEF ClaimBookkeeping, TokensUnique
<1>. HIDE DEF Unexpired
<1>. QED
    BY <1>1, <1>2, <1>3, TypeCorrect, ClaimsConsistent, PTL DEF Spec

-----------------------------------------------------------------------------
(* Retention and audits *)

(* Retention spares what a consumer registered in time still needs. *)
THEOREM RetentionSafe == Spec => []NeededEventsRetained
<1>. DEFINE Ahead == \A c \in registered : start[c] > base[c] => trimmed < consumers[c].next
<1>1. Init => Ahead
    BY DEF Init
<1>2. TypeOK /\ SequenceIntegrity /\ Ahead /\ [Next]_vars /\ TypeOK' => Ahead'
    <2>. SUFFICES ASSUME TypeOK, SequenceIntegrity, Ahead, [Next]_vars, TypeOK',
                         NEW c \in registered', start'[c] > base'[c]
                  PROVE  trimmed' < consumers'[c].next
        OBVIOUS
    <2>1. /\ c \in Consumers
          /\ trimmed \in Nat /\ trimmed' \in Nat
          /\ consumers[c].next \in Nat /\ consumers'[c].next \in Nat
        <3>1. c \in Consumers /\ trimmed' \in Nat /\ consumers'[c] \in ConsumerRow
            BY DEF TypeOK
        <3>2. trimmed \in Nat /\ consumers[c] \in ConsumerRow
            BY <3>1 DEF TypeOK
        <3>. QED
            BY <3>1, <3>2 DEF ConsumerRow
    <2>2. CASE c \notin registered
        <3>1. PICK first \in StartSequences : 
                  RegisterConsumer(c, first) /\ start'[c] = first /\ base'[c] = trimmed
            BY <2>1, <2>2, HistoryStep
        <3>2. consumers'[c].next = first /\ trimmed' = trimmed
            BY <2>1, <3>1 DEF RegisterConsumer, FreshRow, TypeOK
        <3>. QED
            BY <2>1, <3>1, <3>2
    <2>3. CASE c \in registered
        <3>1. start'[c] = start[c] /\ base'[c] = base[c] /\ consumers[c].next <= consumers'[c].next
            BY <2>3, Monotone
        <3>2. trimmed < consumers[c].next
            BY <2>3, <3>1
        <3>3. trimmed' = trimmed \/ trimmed' <= consumers[c].next - 1
            <4>1. ASSUME NEW d \in registered, Retain(consumers[d].next - 1)
                  PROVE  trimmed' <= consumers[c].next - 1
                <5>1. consumers[d].next - 1 <= consumers[c].next - 1
                    BY <2>3, <4>1 DEF Retain, IsCompletedPrefix
                <5>2. trimmed' <= consumers[d].next - 1
                    <6>1. consumers[d].next \in Nat /\ lastSequence \in Nat
                        BY BoundsAssumption DEF TypeOK, ConsumerRow
                    <6>. QED
                        BY <4>1, <6>1 DEF Retain
                <5>3. consumers[d].next \in Nat
                    BY DEF TypeOK, ConsumerRow
                <5>. QED
                    BY <2>1, <5>1, <5>2, <5>3
            <4>2. AppendEvent => trimmed' = trimmed
                BY DEF AppendEvent
            <4>3. \A d, s, id : Abandon(d, s, id) => trimmed' = trimmed
                BY DEF Abandon
            <4>. QED
                BY LogSteps, <4>1, <4>2, <4>3
        <3>. QED
            BY <2>1, <3>1, <3>2, <3>3
    <2>. QED
        BY <2>2, <2>3
<1>3. TypeOK /\ SequenceIntegrity /\ Ahead => NeededEventsRetained
    <2>. SUFFICES ASSUME TypeOK, SequenceIntegrity, Ahead,
                         NEW c \in registered, start[c] > base[c]
                  PROVE  consumers[c].next..lastSequence \subseteq DOMAIN events
        BY DEF NeededEventsRetained
    <2>1. trimmed < consumers[c].next
        OBVIOUS
    <2>2. trimmed \in Nat /\ consumers[c].next \in Nat /\ lastSequence \in Nat
        <3>1. trimmed \in Nat /\ lastSequence \in Nat /\ consumers[c] \in ConsumerRow
            BY BoundsAssumption DEF TypeOK
        <3>. QED
            BY <3>1 DEF ConsumerRow
    <2>. QED
        BY <2>1, <2>2 DEF SequenceIntegrity
<1>. HIDE DEF Ahead
<1>. QED
    BY <1>1, <1>2, <1>3, TypeCorrect, SequencesNeverReused, PTL DEF Spec

(* Every abandonment has exactly one audit event, and every audit event its  *)
(* abandonment.                                                              *)
THEOREM AbandonmentsAudited == Spec => []AbandonmentAudited
<1>1. Init => AbandonmentAudited
    BY DEF Init, AbandonmentAudited
<1>2. TypeOK /\ ClaimBookkeeping /\ AbandonmentAudited /\ [Next]_vars => AbandonmentAudited'
    <2>. SUFFICES ASSUME TypeOK, ClaimBookkeeping, AbandonmentAudited, [Next]_vars
                  PROVE  AbandonmentAudited'
        OBVIOUS
    <2>0. /\ published \in Seq(EventRow) /\ Len(published) \in Nat
          /\ DOMAIN published = 1..Len(published)
          /\ \A c \in Consumers : consumers[c].next \in Nat
        BY DEF TypeOK, ConsumerRow
    <2>1. \A c \in Consumers : \A s \in abandoned[c] : s < consumers'[c].next
        <3>. SUFFICES ASSUME NEW c \in Consumers, NEW s \in abandoned[c]
                      PROVE  s < consumers'[c].next
            OBVIOUS
        <3>1. s < consumers[c].next /\ s \in Nat
            BY DEF AbandonmentAudited, TypeOK
        <3>2. c \in registered
            BY DEF ClaimBookkeeping, RowsConsistent
        <3>3. consumers[c].next <= consumers'[c].next
            BY <3>2, Monotone
        <3>4. consumers'[c].next = consumers[c].next \/ consumers'[c].next = consumers[c].next + 1
            BY <3>2, CursorStep
        <3>. QED
            BY <2>0, <3>1, <3>4
    <2>2. ASSUME published' = published, abandoned' = abandoned
          PROVE  AbandonmentAudited'
        BY <2>1, <2>2 DEF AbandonmentAudited
    <2>3. ASSUME NEW row \in EventRow, published' = Append(published, row)
          PROVE  /\ DOMAIN published' = 1..(Len(published) + 1)
                 /\ \A i \in DOMAIN published : i \in DOMAIN published' /\ published'[i] = published[i]
                 /\ published'[Len(published) + 1] = row
                 /\ \A i \in DOMAIN published' : i \in DOMAIN published \/ i = Len(published) + 1
        BY <2>0, <2>3
    <2>4. CASE AppendEvent
        <3>. DEFINE row == [id |-> Len(published) + 1, audit |-> NoAudit]
        <3>1. row \in EventRow /\ row.audit = NoAudit
            BY <2>0 DEF EventRow, NoAudit, Audit
        <3>2. published' = Append(published, row) /\ abandoned' = abandoned
            BY <2>4 DEF AppendEvent, InsertEvent
        <3>. HIDE DEF row
        <3>3. \A c \in Consumers : \A s \in abandoned'[c] :
                  \E i \in DOMAIN published' : published'[i].audit = [consumer |-> c, seq |-> s]
            BY <2>3, <3>1, <3>2 DEF AbandonmentAudited
        <3>4. ASSUME NEW i \in DOMAIN published', published'[i].audit # NoAudit
              PROVE  /\ i \in DOMAIN published
                     /\ published'[i] = published[i]
            BY <2>3, <3>1, <3>2, <3>4
        <3>. QED
            BY <2>1, <3>2, <3>3, <3>4 DEF AbandonmentAudited
    <2>5. ASSUME NEW c \in Consumers, NEW s \in 1..lastSequence, NEW id \in 1..Len(published),
                 Abandon(c, s, id)
          PROVE  AbandonmentAudited'
        <3>. DEFINE audit == [consumer |-> c, seq |-> s]
                    row == [id |-> Len(published) + 1, audit |-> audit]
                    n == Len(published) + 1
        <3>1. row \in EventRow /\ row.audit = audit /\ audit.consumer = c /\ audit.seq = s
            <4>1. s \in Nat
                BY BoundsAssumption DEF TypeOK
            <4>. QED
                BY <2>0, <4>1 DEF EventRow, Audit
        <3>2. /\ published' = Append(published, row)
              /\ abandoned' = [abandoned EXCEPT ![c] = @ \cup {s}]
              /\ consumers' = [consumers EXCEPT ![c] = Advanced(@)]
              /\ s = consumers[c].next
            BY <2>5 DEF Abandon, InsertEvent, AbandonAudit, Blocked
        <3>3. consumers'[c].next = s + 1 /\ s \in Nat
            BY <2>0, <3>2 DEF Advanced, FreshRow, TypeOK
        <3>4. /\ \A d \in Consumers : d # c => abandoned'[d] = abandoned[d]
              /\ abandoned'[c] = abandoned[c] \cup {s}
            BY <3>2 DEF TypeOK
        <3>5. s \notin abandoned[c]
            BY <3>2, <3>3 DEF AbandonmentAudited
        <3>. HIDE DEF row, n
        <3>6. /\ n \in DOMAIN published' /\ published'[n].audit = audit
              /\ \A i \in DOMAIN published : i \in DOMAIN published' /\ published'[i] = published[i]
              /\ \A i \in DOMAIN published' : i \in DOMAIN published \/ i = n
              /\ n \notin DOMAIN published
            BY <2>0, <2>3, <3>1, <3>2 DEF n
        <3>7. \A d \in Consumers : \A t \in abandoned'[d] : t < consumers'[d].next
            BY <2>1, <3>3, <3>4
        <3>8. \A d \in Consumers : \A t \in abandoned'[d] :
                  \E i \in DOMAIN published' : published'[i].audit = [consumer |-> d, seq |-> t]
            BY <3>4, <3>6 DEF AbandonmentAudited
        <3>9. \A i \in DOMAIN published : published[i].audit # audit
            <4>. SUFFICES ASSUME NEW i \in DOMAIN published, published[i].audit = audit
                          PROVE  FALSE
                OBVIOUS
            <4>1. audit # NoAudit
                BY <3>1, NamesAssumption DEF NoAudit
            <4>2. s \in abandoned[c]
                BY <3>1, <4>1 DEF AbandonmentAudited
            <4>. QED
                BY <3>5, <4>2
        <3>10. ASSUME NEW i \in DOMAIN published', published'[i].audit # NoAudit
               PROVE  /\ published'[i].audit.consumer \in Consumers
                      /\ published'[i].audit.seq \in abandoned'[published'[i].audit.consumer]
                      /\ \A j \in DOMAIN published' :
                             published'[j].audit = published'[i].audit => j = i
            <4>1. CASE i = n
                <5>1. published'[i].audit = audit
                    BY <3>6, <4>1
                <5>2. \A j \in DOMAIN published' : published'[j].audit = audit => j = n
                    BY <3>6, <3>9
                <5>. QED
                    BY <3>1, <3>4, <4>1, <5>1, <5>2
            <4>2. CASE i \in DOMAIN published
                <5>1. /\ published'[i] = published[i]
                      /\ published[i].audit.consumer \in Consumers
                      /\ published[i].audit.seq \in abandoned[published[i].audit.consumer]
                      /\ \A j \in DOMAIN published : published[j].audit = published[i].audit => j = i
                    BY <3>6, <3>10, <4>2 DEF AbandonmentAudited
                <5>. QED
                    BY <3>4, <3>6, <3>9, <4>2, <5>1
            <4>. QED
                BY <3>6, <4>1, <4>2
        <3>. QED
            BY <3>7, <3>8, <3>10 DEF AbandonmentAudited
    <2>6. ASSUME NEW c \in registered, Retain(consumers[c].next - 1)
          PROVE  AbandonmentAudited'
        BY <2>2, <2>6 DEF Retain
    <2>7. CASE UNCHANGED <<events, lastSequence, published, trimmed>>
        <3>1. \A c \in Consumers : \A s, id : ~ Abandon(c, s, id)
            BY <2>7 DEF Abandon, InsertEvent, AllocatedSequence, TypeOK
        <3>2. \A c \in Consumers : abandoned'[c] = abandoned[c]
            BY <3>1, HistoryStep
        <3>. QED
            BY <2>1, <2>7, <3>2 DEF AbandonmentAudited
    <2>. QED
        BY LogSteps, <2>4, <2>5, <2>6, <2>7
<1>. QED
    BY <1>1, <1>2, TypeCorrect, ClaimsConsistent, PTL DEF Spec

-----------------------------------------------------------------------------
(* The outbox implements ordered delivery *)

(* The abstract cursor of one consumer, before and after a step. *)
LEMMA CursorValue ==
    ASSUME TypeOK, TypeOK'
    PROVE  /\ Cursor \in [Consumers -> Nat]
           /\ Cursor' \in [Consumers -> Nat]
           /\ \A c \in Consumers :
                  /\ Cursor[c] = IF c \in registered THEN consumers[c].next ELSE 0
                  /\ Cursor'[c] = IF c \in registered' THEN consumers'[c].next ELSE 0
                  /\ c \in registered <=> Cursor[c] # 0
<1>1. \A c \in Consumers : consumers[c].next \in Nat \ {0} /\ consumers'[c].next \in Nat \ {0}
    BY DEF TypeOK, ConsumerRow
<1>. QED
    BY <1>1 DEF Cursor

(* A step that leaves every registered row's cursor alone leaves Cursor alone. *)
LEMMA CursorStutters ==
    ASSUME TypeOK, TypeOK', registered' = registered,
           \A c \in registered : consumers'[c].next = consumers[c].next
    PROVE  Cursor' = Cursor
BY CursorValue DEF Cursor

(* A step that changes one row changes one cursor. *)
LEMMA CursorMoves ==
    ASSUME TypeOK, TypeOK', registered' = registered, NEW c \in registered, c \in Consumers,
           consumers' = [consumers EXCEPT ![c] = Advanced(@)]
    PROVE  Cursor' = [Cursor EXCEPT ![c] = @ + 1]
<1>1. \A d \in Consumers : consumers'[d] = IF d = c THEN Advanced(consumers[c]) ELSE consumers[d]
    BY DEF TypeOK
<1>2. Advanced(consumers[c]).next = consumers[c].next + 1
    BY DEF Advanced, FreshRow
<1>3. \A d \in Consumers : Cursor'[d] = IF d = c THEN Cursor[c] + 1 ELSE Cursor[d]
    BY <1>1, <1>2, CursorValue
<1>. QED
    BY <1>3, CursorValue

(* The steps of the log and of the cursors, under the refinement. *)
LEMMA StepRefines ==
    ASSUME TypeOK, TypeOK', SequenceIntegrity, ClaimBookkeeping, [Next]_vars
    PROVE  Abstract!Next \/ UNCHANGED Abstract!vars
<1>0. /\ lastSequence \in Nat /\ trimmed \in Nat /\ Len(published) = lastSequence
      /\ registered \subseteq Consumers
      /\ \A c \in Consumers : consumers[c].next \in Nat \ {0}
    <2>1. \A c \in Consumers : consumers[c].next \in Nat \ {0}
        BY DEF TypeOK, ConsumerRow
    <2>2. /\ lastSequence \in Nat /\ trimmed \in Nat /\ registered \subseteq Consumers
        BY BoundsAssumption DEF TypeOK
    <2>. QED
        BY <2>1, <2>2 DEF SequenceIntegrity
<1>1. CASE AppendEvent
    <2>1. Cursor' = Cursor
        BY <1>1 DEF AppendEvent, Cursor
    <2>2. Abstract!Publish
        BY <1>1, <2>1 DEF AppendEvent, InsertEvent, NoAudit, Abstract!Publish, Abstract!Appended
    <2>. QED
        BY <2>2 DEF Abstract!Next
<1>2. ASSUME NEW c \in Consumers, NEW first \in StartSequences, RegisterConsumer(c, first)
      PROVE  Abstract!Next
    <2>1. Cursor[c] = 0
        BY <1>2, CursorValue DEF RegisterConsumer
    <2>2. \A d \in Consumers : Cursor'[d] = IF d = c THEN first ELSE Cursor[d]
        <3>1. \A d \in Consumers : consumers'[d] = IF d = c THEN FreshRow(first) ELSE consumers[d]
            BY <1>2 DEF RegisterConsumer, TypeOK
        <3>2. FreshRow(first).next = first
            BY DEF FreshRow
        <3>3. registered' = registered \cup {c}
            BY <1>2 DEF RegisterConsumer
        <3>. QED
            BY <3>1, <3>2, <3>3, CursorValue
    <2>3. Cursor' = [Cursor EXCEPT ![c] = first]
        BY <2>2, CursorValue
    <2>4. Abstract!Subscribe(c, first)
        BY <1>2, <2>1, <2>3 DEF RegisterConsumer, Abstract!Subscribe
    <2>. QED
        BY <2>4 DEF Abstract!Next
<1>3. ASSUME NEW c \in Consumers, NEW s \in 1..lastSequence, NEW id, Abandon(c, s, id)
      PROVE  Abstract!Next
    <2>1. c \in registered /\ s = consumers[c].next
        BY <1>3 DEF Abandon, Blocked
    <2>2. Cursor[c] = s
        BY <2>1, CursorValue
    <2>3. Cursor' = [Cursor EXCEPT ![c] = @ + 1]
        BY <1>3, <2>1, CursorMoves DEF Abandon
    <2>4. Cursor[c] \in 1..Len(published)
        BY <1>0, <2>2
    <2>5. published' = Abstract!Appended(c, Cursor[c])
        BY <1>3, <2>2 DEF Abandon, InsertEvent, AbandonAudit, Abstract!Appended
    <2>6. trimmed' = trimmed /\ accepted' = accepted
        BY <1>3 DEF Abandon
    <2>7. Abstract!Skip(c)
        BY <2>3, <2>4, <2>5, <2>6 DEF Abstract!Skip
    <2>. QED
        BY <2>7 DEF Abstract!Next
<1>4. ASSUME NEW c \in registered, Retain(consumers[c].next - 1)
      PROVE  Abstract!Next
    <2>. DEFINE n == consumers[c].next - 1
    <2>1. /\ UNCHANGED <<registered, consumers, published, accepted>>
          /\ \A d \in registered : n <= consumers[d].next - 1
          /\ \E s \in DOMAIN events : s <= n
          /\ trimmed' = IF n < lastSequence THEN n ELSE lastSequence
        BY <1>4 DEF Retain, IsCompletedPrefix
    <2>2. n \in Nat /\ trimmed < n
        <3>1. n \in Nat
            BY <1>0
        <3>. QED
            BY <1>0, <2>1, <3>1 DEF SequenceIntegrity
    <2>3. trimmed < lastSequence
        BY <1>0, <2>1 DEF SequenceIntegrity
    <2>4. trimmed' \in Nat /\ trimmed < trimmed' /\ trimmed' <= Len(published) /\ trimmed' <= n
        BY <1>0, <2>1, <2>2, <2>3
    <2>5. Cursor' = Cursor
        BY <2>1 DEF Cursor
    <2>6. \E d \in Consumers : Cursor[d] # 0
        BY <1>0, CursorValue
    <2>7. \A d \in Consumers : Cursor[d] # 0 => trimmed' < Cursor[d]
        <3>. SUFFICES ASSUME NEW d \in Consumers, Cursor[d] # 0
                      PROVE  trimmed' < Cursor[d]
            OBVIOUS
        <3>1. d \in registered /\ Cursor[d] = consumers[d].next
            BY CursorValue
        <3>2. n <= consumers[d].next - 1 /\ consumers[d].next \in Nat
            BY <1>0, <2>1, <3>1
        <3>. QED
            BY <2>2, <2>4, <3>1, <3>2
    <2>8. PICK m \in Nat : m = trimmed'
        BY <2>4
    <2>9. m \in (trimmed + 1)..Len(published) /\ m \in 1..Len(published)
        BY <1>0, <2>4, <2>8
    <2>10. Abstract!Trim(m)
        BY <2>1, <2>5, <2>6, <2>7, <2>8, <2>9 DEF Abstract!Trim
    <2>. QED
        BY <2>9, <2>10 DEF Abstract!Next
<1>5. ASSUME NEW w \in Workers, AdapterDelivers(w)
      PROVE  Abstract!Next
    <2>. DEFINE c == worker[w].consumer
                s == worker[w].claim.seq
    <2>1. /\ c \in registered /\ start[c] <= s /\ s <= consumers[c].next /\ s <= lastSequence
        BY <1>5 DEF AdapterDelivers, ClaimBookkeeping, ProcessesConsistent, Holding
    <2>2. c \in Consumers /\ s \in Nat /\ start[c] \in Nat \ {0}
        <3>1. c \in Consumers
            BY <1>0, <2>1
        <3>. QED
            BY <3>1 DEF TypeOK, Process, Claim
    <2>3. s \in 1..Cursor[c] /\ s \in 1..Len(published) /\ s <= Len(published)
        <3>1. Cursor[c] = consumers[c].next
            BY <2>1, <2>2, CursorValue
        <3>. QED
            BY <1>0, <2>1, <2>2, <3>1
    <2>4. Cursor' = Cursor
        BY <1>5 DEF AdapterDelivers, storeVars, Cursor
    <2>5. /\ accepted' = [accepted EXCEPT ![c] = @ \cup {s}]
          /\ published' = published /\ trimmed' = trimmed
        BY <1>5 DEF AdapterDelivers
    <2>6. Abstract!Accept(c, s)
        BY <2>3, <2>4, <2>5 DEF Abstract!Accept
    <2>. QED
        BY <2>2, <2>3, <2>6 DEF Abstract!Next
<1>6. ASSUME NEW w \in Workers, Acknowledge(w)
      PROVE  Abstract!Next
    <2>. DEFINE c == worker[w].consumer
    <2>1. /\ c \in registered /\ consumers[c].next = worker[w].claim.seq
          /\ worker[w].pc = "acknowledging"
          /\ consumers' = [consumers EXCEPT ![c] = Advanced(@)]
          /\ UNCHANGED <<registered, published, trimmed, accepted>>
        BY <1>6 DEF Acknowledge, StillHolds, observers
    <2>2. c \in Consumers
        BY <1>0, <2>1
    <2>3. Cursor[c] \in accepted[c]
        BY <2>1, <2>2, CursorValue DEF ClaimBookkeeping, ProcessesConsistent
    <2>4. Cursor' = [Cursor EXCEPT ![c] = @ + 1]
        BY <2>1, <2>2, CursorMoves
    <2>5. Abstract!Complete(c)
        BY <2>1, <2>3, <2>4 DEF Abstract!Complete
    <2>. QED
        BY <2>2, <2>5 DEF Abstract!Next
<1>7. ASSUME /\ UNCHANGED <<registered, published, trimmed, accepted>>
             /\ \A c \in registered : consumers'[c].next = consumers[c].next
      PROVE  UNCHANGED Abstract!vars
    BY <1>7, CursorStutters DEF Abstract!vars
<1>8. ASSUME NEW c \in Consumers, NEW s, NEW id, Retry(c, s, id)
      PROVE  UNCHANGED Abstract!vars
    <2>1. \A d \in Consumers : consumers'[d].next = consumers[d].next
        BY <1>8 DEF Retry, Rescheduled, FreshRow, TypeOK
    <2>. QED
        BY <1>0, <1>7, <1>8, <2>1 DEF Retry, observers
<1>9. ASSUME NEW w \in Workers, NEW token \in Tokens, ClaimNext(w, token)
      PROVE  UNCHANGED Abstract!vars
    <2>1. /\ consumers' = [consumers EXCEPT ![worker[w].consumer] =
                               [consumers[worker[w].consumer] EXCEPT !.claim = worker'[w].claim]]
          /\ UNCHANGED <<registered, observers>>
        BY <1>9, NewClaim
    <2>2. \A d \in Consumers : consumers'[d].next = consumers[d].next
        BY <2>1 DEF TypeOK, ConsumerRow
    <2>. QED
        BY <1>0, <1>7, <2>1, <2>2 DEF observers
<1>10. ASSUME NEW w \in Workers, ClaimNothing(w)
       PROVE  UNCHANGED Abstract!vars
    <2>1. /\ consumers' = [consumers EXCEPT ![worker[w].consumer] =
                               [consumers[worker[w].consumer] EXCEPT !.claim = NoClaim]]
          /\ UNCHANGED <<registered, observers>>
        BY <1>10 DEF ClaimNothing
    <2>2. \A d \in Consumers : consumers'[d].next = consumers[d].next
        BY <2>1 DEF TypeOK, ConsumerRow
    <2>. QED
        BY <1>0, <1>7, <2>1, <2>2 DEF observers
<1>11. ASSUME NEW w \in Workers, RecordFailure(w)
       PROVE  UNCHANGED Abstract!vars
    <2>1. \A d \in Consumers : consumers'[d].next = consumers[d].next
        BY <1>11 DEF RecordFailure, Failed, TypeOK
    <2>. QED
        BY <1>0, <1>7, <1>11, <2>1 DEF RecordFailure, observers
<1>12. ASSUME \/ \E w \in Workers, c \in Consumers : StartRun(w, c)
              \/ \E w \in Workers : \/ ReadClock(w) \/ ClaimRefused(w) \/ AdapterFails(w)
                                    \/ ReportStale(w) \/ Crash(w)
              \/ Tick \/ UNCHANGED vars
       PROVE  UNCHANGED Abstract!vars
    <2>1. UNCHANGED <<registered, consumers, published, trimmed, accepted>>
        BY <1>12 DEF StartRun, ReadClock, ClaimRefused, AdapterFails, ReportStale, Crash, Tick,
                     vars, storeVars, observers
    <2>. QED
        BY <1>7, <2>1
<1>. QED
    BY StepCases, <1>1, <1>2, <1>3, <1>4, <1>5, <1>6, <1>8, <1>9, <1>10, <1>11, <1>12

(* Every behaviour of the outbox is one of ordered, at-least-once delivery.  *)
THEOREM Refines == Spec => DeliversInOrder
<1>1. Init => Abstract!Init
    BY DEF Init, Abstract!Init, Cursor
<1>2. /\ TypeOK /\ TypeOK' /\ SequenceIntegrity /\ ClaimBookkeeping /\ [Next]_vars
      => [Abstract!Next]_(Abstract!vars)
    BY StepRefines
<1>. QED
    BY <1>1, <1>2, TypeCorrect, SequencesNeverReused, ClaimsConsistent, PTL
    DEF Spec, DeliversInOrder, Abstract!Spec
=============================================================================
