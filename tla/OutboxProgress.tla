---------------------------- MODULE OutboxProgress ----------------------------
(***************************************************************************)
(* Liveness of the delivery runner over the outbox.  The code compares     *)
(* times only with one another, so moving the origin of the clock changes  *)
(* no behaviour: TranslateClock does that when the clock reaches MaxTime,  *)
(* and time never runs out in a finite state space.                        *)
(***************************************************************************)
EXTENDS EventOutbox

Earlier(t) == IF t > 1 THEN t - 1 ELSE t
EarlierClaim(claim) == [claim EXCEPT !.expires = Earlier(@)]

\* A deadline clipped at 1 has passed for every clock reading still in use.
TranslateClock ==
    /\ now = MaxTime
    /\ \A w \in Workers : worker[w].time # 1
    /\ now' = now - 1
    /\ worker' = [w \in Workers |-> [worker[w] EXCEPT !.time = Earlier(@),
                                                     !.claim = EarlierClaim(@)]]
    /\ consumers' = [c \in Consumers |-> [consumers[c] EXCEPT !.due = Earlier(@),
                                                     !.claim = EarlierClaim(@)]]
    /\ UNCHANGED <<events, lastSequence, registered, crashes, observers>>

\* The runner goes on from every point of step(), and the adapter returns:
\* each adapter bounds its own exchange by a timeout.
StepForward(w) ==
    \/ ReadClock(w)
    \/ \E token \in Tokens : ClaimNext(w, token)
    \/ ClaimNothing(w)
    \/ ClaimRefused(w)
    \/ AdapterDelivers(w) \/ AdapterFails(w)
    \/ Acknowledge(w)
    \/ RecordFailure(w)
    \/ ReportStale(w)

\* ADR-0041 leaves running delivery to the caller: these processes are started
\* again whenever they end or die, the others may run, or not, as they like.
CONSTANT Runners
ASSUME RunnersAssumption == Runners \subseteq Workers

Fairness ==
    /\ WF_vars(Tick)
    /\ WF_vars(TranslateClock)
    /\ \A w \in Workers : WF_vars(StepForward(w))
    /\ \A w \in Runners : WF_vars(\E c \in Consumers : StartRun(w, c))

\* An operator who retries a merely delayed event again and again resets its
\* attempts and can keep it from ever being exhausted; this one waits.
PatientNext == Next /\ \A c \in registered :
    consumers[c].failed /\ ~ Exhausted(consumers[c]) /\ consumers'[c].next = consumers[c].next
        => consumers'[c].attempts >= consumers[c].attempts

FairSpec == Init /\ [][PatientNext \/ TranslateClock]_vars /\ Fairness

-----------------------------------------------------------------------------

\* The event at the consumer's cursor is committed and retained.
Pending(c, s) == c \in registered /\ consumers[c].next = s /\ s \in DOMAIN events

\* It is behind the cursor, or waits for an operator.
Settled(c, s) == consumers[c].next > s \/ Exhausted(consumers[c])

\* A delivery has outlasted its lease while another process serves consumer c:
\* the two may take the claim from each other for ever.
Overtaken(c) ==
    \E w, v \in Workers :
        /\ w # v /\ worker[w].consumer = c /\ worker[v].consumer = c
        /\ worker[w].pc \in Holding /\ worker[w].claim.expires <= now

(* A committed event is completed or exhausted in the end, even when         *)
(* processes die after claiming, after delivering or before reporting, and   *)
(* however long deliveries take: the orphaned lease runs out, delays elapse, *)
(* and the event is offered again.  Only a second runner can prevent it, and *)
(* only when a delivery outlasts its lease.                                  *)
EventuallySettled ==
    \A c \in Consumers, s \in 1..MaxSequence :
        Pending(c, s) ~> (Settled(c, s) \/ Overtaken(c))
=============================================================================
