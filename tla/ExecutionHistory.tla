-------------------------- MODULE ExecutionHistory --------------------------
(***************************************************************************)
(* The private event log of a workspace (.ansiblectl/logs/events.jsonl)    *)
(* and the captured outputs its records refer to (.ansiblectl/runs).       *)
(* Executions append a record, `execution prune --apply` rewrites the log  *)
(* without the oldest ones and then removes their outputs, and `state      *)
(* recover --apply` puts back what a killed prune had replaced.            *)
(*                                                                         *)
(* Writers hold events.lock; recovery does not.  The transaction of a      *)
(* prune is FsTransaction's, seen from its single target: the intent with  *)
(* the backup, the replacement, then the commit.                           *)
(***************************************************************************)
EXTENDS Naturals, Sequences, SequencesExt, FiniteSets

CONSTANTS
    Runs,       \* executions; each has one identifier and one record
    Earlier,    \* those already in the history, oldest first, with their outputs
    Pruners,    \* processes that run `execution prune --apply`
    Keeps,      \* the retention counts they are given
    NoProc,     \* nobody holds events.lock
    NoUndo,     \* no interrupted transaction
    MaxTrouble  \* bounds kills, failing calls and changes by others, together

ASSUME HistoryAssumption ==
    /\ NoProc \notin Runs \cup Pruners
    /\ Keeps \subseteq Nat
    /\ Earlier \in Seq(Runs) /\ IsInjective(Earlier)
    /\ MaxTrouble \in Nat

VARIABLES
    log,        \* the lines of events.jsonl, oldest first
    outputs,    \* executions whose output directory holds a captured stream
    lock,       \* the holder of the exclusive events.lock
    pruner,     \* each prune: where it is, what it read and what it removes
    undo,       \* of a replacement not yet committed: the backup, and the log it left
    clobbered,  \* a recovery has put a backup over a log used since (history)
    trouble     \* what has gone wrong so far, bounded by MaxTrouble

historyVars == <<log, outputs, lock, pruner, undo, clobbered, trouble>>

-----------------------------------------------------------------------------
(* Lines *)

Record(r, refs) == [id |-> r, refs |-> refs]

\* What a short write leaves: a line without its end.
TornLine == [id |-> NoProc, refs |-> FALSE]

Line == [id : Runs \cup {NoProc}, refs : BOOLEAN]

Undo == [before : Seq(Line), left : Seq(Line)]

ASSUME NoUndoAssumption == NoUndo \notin Undo

Torn(lines) == TornLine \in ToSet(lines)

\* A record written after a torn line becomes part of it.
Appended(lines, line) ==
    IF Torn(lines) /\ Last(lines) = TornLine THEN lines ELSE Append(lines, line)

\* The number of records that retention removes.
Excess(lines, keep) == IF Len(lines) > keep THEN Len(lines) - keep ELSE 0

\* Every line but the oldest executions is written back.
Retained(lines, keep) == SubSeq(lines, Excess(lines, keep) + 1, Len(lines))
Removed(lines, keep) == SubSeq(lines, 1, Excess(lines, keep))

-----------------------------------------------------------------------------
(* The lock *)

LockFree == lock = NoProc

\* A call that fails, a process that is killed, a change by someone else.
Trouble == trouble < MaxTrouble /\ trouble' = trouble + 1

-----------------------------------------------------------------------------
(* Retention *)

\* The steps in which a prune holds events.lock.
Live == {"locked", "read", "intended", "replaced", "committed"}
PruneSteps == Live \cup {"idle", "done", "failed", "killed"}

Idle == [step |-> "idle", keep |-> 0, old |-> <<>>, gone |-> <<>>]

At(p, s) == pruner[p].step = s

MoveTo(p, s) == pruner' = [pruner EXCEPT ![p].step = s]

\* Mutant: only a prune that gets through gives the lock back.
ReleaseWhenDone(p) == lock' = IF At(p, "committed") THEN NoProc ELSE lock

ReleaseBy(p) == lock' = IF lock = p THEN NoProc ELSE lock

\* prune() returns at once without a log, and waits for the lock otherwise.
TakeLock(p, keep) ==
    /\ At(p, "idle") /\ log # <<>>
    /\ LockFree
    /\ lock' = p
    /\ pruner' = [pruner EXCEPT ![p] = [Idle EXCEPT !.step = "locked", !.keep = keep]]
    /\ UNCHANGED <<log, outputs, undo, clobbered, trouble>>

\* An unreadable line ends the prune with ExecutionError.
ReadLog(p) ==
    /\ At(p, "locked")
    /\ IF Torn(log)
       THEN MoveTo(p, "failed") /\ ReleaseBy(p)
       ELSE /\ pruner' = [pruner EXCEPT ![p] = [@ EXCEPT !.step = "read", !.old = log,
                              !.gone = Removed(log, pruner[p].keep)]]
            /\ UNCHANGED lock
    /\ UNCHANGED <<log, outputs, undo, clobbered, trouble>>

\* Backup and intent are durable before the log is touched: from here on a
\* recovery puts the backup back.
IntendReplace(p) ==
    /\ At(p, "read")
    /\ undo' = [undo EXCEPT ![p] = [before |-> log, left |-> log]]
    /\ MoveTo(p, "intended")
    /\ UNCHANGED <<log, outputs, lock, clobbered, trouble>>

\* The staged content replaces the log.
ReplaceLog(p) ==
    /\ At(p, "intended")
    /\ log' = Retained(pruner[p].old, pruner[p].keep)
    /\ undo' = [undo EXCEPT ![p].left = log']
    /\ MoveTo(p, "replaced")
    /\ UNCHANGED <<outputs, lock, clobbered, trouble>>

CommitLog(p) ==
    /\ At(p, "replaced")
    /\ undo' = [undo EXCEPT ![p] = NoUndo]
    /\ MoveTo(p, "committed")
    /\ UNCHANGED <<log, outputs, lock, clobbered, trouble>>

\* Mutant: outputs go as soon as the records to remove are known.
RemovableEarly(p) == pruner[p].step \in {"read", "intended", "replaced", "committed"}

\* Output directories go only after the commit.
Removable(p) == At(p, "committed")

RemoveOutput(p) ==
    /\ Removable(p) /\ pruner[p].gone # <<>>
    /\ outputs' = outputs \ {Head(pruner[p].gone).id}
    /\ pruner' = [pruner EXCEPT ![p].gone = Tail(@)]
    /\ UNCHANGED <<log, lock, undo, clobbered, trouble>>

EndPrune(p) ==
    /\ At(p, "committed") /\ pruner[p].gone = <<>>
    /\ MoveTo(p, "done") /\ ReleaseBy(p)
    /\ UNCHANGED <<log, outputs, undo, clobbered, trouble>>

\* An OSError: the transaction undoes its own replacement, outputs stay.
FailPrune(p) ==
    /\ pruner[p].step \in Live /\ Trouble
    /\ log' = IF undo[p] # NoUndo THEN undo[p].before ELSE log
    /\ undo' = [undo EXCEPT ![p] = NoUndo]
    /\ MoveTo(p, "failed") /\ ReleaseBy(p)
    /\ UNCHANGED <<outputs, clobbered>>

KillPrune(p) ==
    /\ pruner[p].step \in Live
    /\ Trouble
    /\ MoveTo(p, "killed") /\ ReleaseBy(p)
    /\ UNCHANGED <<log, outputs, undo, clobbered>>

\* Recovery takes the transactions' lock, so no live prune is in its commit;
\* it does not take events.lock.
Recover(p) ==
    /\ At(p, "killed") /\ undo[p] # NoUndo
    /\ \A q \in Pruners : ~At(q, "intended") /\ ~At(q, "replaced")
    /\ log' = undo[p].before
    /\ undo' = [undo EXCEPT ![p] = NoUndo]
    /\ clobbered' = (clobbered \/ log # undo[p].left \/ \E q \in Pruners : At(q, "read"))
    /\ UNCHANGED <<outputs, lock, pruner, trouble>>

PruneStep(p) ==
    \/ \E keep \in Keeps : TakeLock(p, keep)
    \/ ReadLog(p) \/ IntendReplace(p) \/ ReplaceLog(p) \/ CommitLog(p)
    \/ RemoveOutput(p) \/ EndPrune(p)

HistoryNext ==
    \E p \in Pruners :
        PruneStep(p) \/ FailPrune(p) \/ KillPrune(p) \/ Recover(p)

HistoryInit ==
    /\ log = [i \in DOMAIN Earlier |-> Record(Earlier[i], TRUE)]
    /\ outputs = ToSet(Earlier) /\ lock = NoProc
    /\ pruner = [p \in Pruners |-> Idle]
    /\ undo = [p \in Pruners |-> NoUndo]
    /\ clobbered = FALSE /\ trouble = 0

-----------------------------------------------------------------------------
(* The operations of an execution on the history *)

\* Mutant: the sink appends without the lock.
EmitAnyTime(r, refs) ==
    /\ log' = Appended(log, Record(r, refs))
    /\ UNCHANGED lock

\* JsonLinesLogSink.emit: lock, append one line, unlock.
Emit(r, refs) ==
    /\ LockFree
    /\ log' = Appended(log, Record(r, refs))
    /\ UNCHANGED lock

\* The append fails before its first byte or after some of them.
EmitFails ==
    /\ LockFree
    /\ log' \in {log, Appended(log, TornLine)}
    /\ UNCHANGED lock

-----------------------------------------------------------------------------
(* Properties *)

HistoryTypeOK ==
    /\ log \in Seq(Line)
    /\ outputs \subseteq Runs
    /\ lock \in Pruners \cup {NoProc}
    /\ pruner \in [Pruners ->
          [step : PruneSteps,
           keep : Keeps \cup {0}, old : Seq(Line), gone : Seq(Line)]]
    /\ undo \in [Pruners -> Undo \cup {NoUndo}]
    /\ clobbered \in BOOLEAN
    /\ trouble \in 0..MaxTrouble

\* A record in the history never refers to outputs that are gone: whatever is
\* killed or fails, outputs are removed only once the log without their record
\* is committed.  A recovery that puts back a log used since is excepted.
ReferencesResolve ==
    clobbered \/ \A line \in ToSet(log) : line.refs => line.id \in outputs

\* A record leaves the history only as one of the oldest, by a prune, however
\* appends, prunes, kills and failures interleave; or by a recovery that puts
\* back a log others have used since the killed prune.
RecordsKept ==
    [][\A i \in DOMAIN log :
          \/ log[i] \in ToSet(log')
          \/ log[i] = TornLine
          \/ clobbered'
          \/ \E p \in Pruners :
                /\ At(p, "intended") /\ pruner'[p].step = "replaced"
                /\ i <= Excess(log, pruner[p].keep)
      ]_historyVars
=============================================================================
