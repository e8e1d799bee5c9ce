---------------------------- MODULE FsTransaction ----------------------------
(***************************************************************************)
(* Filesystem transactions (infrastructure/transactional_filesystem.py):   *)
(* a journal directory per transaction, an owner lock in it, one control   *)
(* lock for commits and recovery.  A step ends where the code has made     *)
(* something durable (its own checkpoints), so a process can be killed     *)
(* between any two of them.  A killed process loses its memory and its     *)
(* locks; what it wrote stays.                                             *)
(*                                                                         *)
(* Paths, modes, symbolic links and the capability probe are left out: a   *)
(* file is a name with a content, a content is named by its writer.        *)
(***************************************************************************)
EXTENDS Integers, Sequences, FiniteSets

CONSTANTS
    Procs,      \* processes
    Txns,       \* transaction identifiers, one per begin()
    Files,      \* target files
    Existing,   \* those that exist at first
    Footprint,  \* the files each transaction may change
    NoProc, NoTxn,
    Absent,     \* the content of a file that does not exist
    Original,   \* the content of a file that does, before any transaction
    MaxOps,     \* bound: operations of one transaction
    MaxFaults,  \* bound: OSErrors
    MaxCrashes  \* bound: killed processes

ASSUME FsAssumption ==
    /\ Footprint \in [Txns -> SUBSET Files]
    /\ Existing \subseteq Files
    /\ NoProc \notin Procs /\ NoTxn \notin Txns
    /\ Absent \notin Txns /\ Original \notin Txns \cup {Absent}
    /\ MaxOps \in Nat /\ MaxFaults \in Nat /\ MaxCrashes \in Nat

VARIABLES
    target,   \* the contents of the target files
    dir,      \* the transaction directories: "unused", "present", "gone"
    journal,  \* the journal.json of each directory, or NoJournal
    owner,    \* who holds active.lock of each directory
    control,  \* who holds the control lock exclusively
    proc,     \* the processes, with the transaction object each works on
    faults, crashes,
    \* Observers, read by no guard of the code:
    staged,     \* the changes each transaction staged
    fate,       \* what the journal of each transaction last decided
    overlapped, \* files committed to while an interrupted transaction had changed them
    withdrawn   \* transactions rolled back, or to be, although they were committed

exempt == <<overlapped, withdrawn>>
vars == <<target, dir, journal, owner, control, proc, faults, crashes, staged, fate, exempt>>

NoBackup == "no backup"
NoJournal == [state |-> "unreadable", ops |-> <<>>]
Idle == [pc |-> "idle", txn |-> NoTxn, ops |-> <<>>, at |-> 0, todo |-> {}, recovering |-> FALSE]

Content == {Absent, Original} \cup Txns

ASSUME BackupAssumption == NoBackup \notin Content

Operation == [file : Files, new : Content, applied : BOOLEAN, backup : Content \cup {NoBackup}]
Journal == [state : {"unreadable", "staging", "committing", "committed", "rolling_back", "rolled_back"},
            ops : Seq(Operation)]
Writing == {"created", "owned", "staging", "locked", "apply", "intent", "change", "durable"}
Undoing == {"undo", "restored", "cleanup", "cleaning", "failed"}
Process == [pc : {"idle", "previewed", "scan", "refused"} \cup Writing \cup Undoing,
            txn : Txns \cup {NoTxn}, ops : Seq(Operation), at : Nat,
            todo : SUBSET Txns, recovering : BOOLEAN]

Init ==
    /\ target = [f \in Files |-> IF f \in Existing THEN Original ELSE Absent]
    /\ dir = [t \in Txns |-> "unused"]
    /\ journal = [t \in Txns |-> NoJournal]
    /\ owner = [t \in Txns |-> NoProc]
    /\ control = NoProc
    /\ proc = [p \in Procs |-> Idle]
    /\ faults = 0
    /\ crashes = 0
    /\ staged = [t \in Txns |-> [f \in {} |-> Absent]]
    /\ fate = [t \in Txns |-> "open"]
    /\ overlapped = {}
    /\ withdrawn = {}

\* _persist(): the journal is replaced by the object's state and operations.
Persist(t, state, ops) == journal' = [journal EXCEPT ![t] = [state |-> state, ops |-> ops]]

Present(t) == dir[t] = "present"

Applied(ops) == {i \in DOMAIN ops : ops[i].applied}

\* The operations of a transaction that a recovery would undo.
InDoubt(t) ==
    IF Present(t) /\ journal[t].state # "committed" THEN Applied(journal[t].ops) ELSE {}

\* No other transaction was interrupted when it had changed f.
Unclaimed(t, f) ==
    \A u \in Txns \ {t} : \A i \in InDoubt(u) : journal[u].ops[i].file # f

-----------------------------------------------------------------------------
(* begin() and staging *)

\* The directory exists before its owner lock is taken ...
MakeDirectory(p, t) ==
    /\ proc[p].pc = "idle"
    /\ dir[t] = "unused"
    /\ dir' = [dir EXCEPT ![t] = "present"]
    /\ proc' = [proc EXCEPT ![p].pc = "created", ![p].txn = t]
    /\ UNCHANGED <<target, journal, owner, control, faults, crashes, staged, fate, exempt>>

\* ... with a blocking flock ...
TakeOwnerLock(p) ==
    /\ proc[p].pc = "created"
    /\ owner[proc[p].txn] = NoProc
    /\ owner' = [owner EXCEPT ![proc[p].txn] = p]
    /\ proc' = [proc EXCEPT ![p].pc = "owned"]
    /\ UNCHANGED <<target, dir, journal, control, faults, crashes, staged, fate, exempt>>

\* ... and before its first journal.
PersistStaging(p) ==
    /\ proc[p].pc = "owned"
    /\ Persist(proc[p].txn, "staging", <<>>)
    /\ proc' = [proc EXCEPT ![p].pc = "staging"]
    /\ UNCHANGED <<target, dir, owner, control, faults, crashes, staged, fate, exempt>>

\* stage_write() of new content, or stage_delete(); a target only once.
Stage(p, f, new) ==
    LET ops == Append(proc[p].ops, [file |-> f, new |-> new, applied |-> FALSE, backup |-> NoBackup])
    IN  /\ proc[p].pc = "staging"
        /\ Len(proc[p].ops) < MaxOps
        /\ f \in Footprint[proc[p].txn]
        /\ \A i \in DOMAIN proc[p].ops : proc[p].ops[i].file # f
        /\ Persist(proc[p].txn, "staging", ops)
        /\ proc' = [proc EXCEPT ![p].ops = ops]
        /\ staged' = [staged EXCEPT ![proc[p].txn] =
                         [g \in DOMAIN @ \cup {f} |-> IF g = f THEN new ELSE @[g]]]
        /\ UNCHANGED <<target, dir, owner, control, faults, crashes, fate, exempt>>

-----------------------------------------------------------------------------
(* commit() *)

\* Mutant: commits are not serialised with each other and with recovery.
AnyTime == TRUE
\* Commits and recovery exclude each other.
ControlFree == control = NoProc

\* The files p is about to commit to that an interrupted transaction has changed.
Overlapping(p) ==
    {f \in Files : /\ \E i \in DOMAIN proc[p].ops : proc[p].ops[i].file = f
                   /\ ~ Unclaimed(proc[p].txn, f)}

\* Nothing here asks whether such files are left to be recovered first.
LockControl(p) ==
    /\ proc[p].pc = "staging"
    /\ ControlFree
    /\ control' = p
    /\ proc' = [proc EXCEPT ![p].pc = "locked"]
    /\ overlapped' = overlapped \cup Overlapping(p)
    /\ UNCHANGED <<target, dir, journal, owner, faults, crashes, staged, fate, withdrawn>>

PersistCommitting(p) ==
    /\ proc[p].pc = "locked"
    /\ Persist(proc[p].txn, "committing", proc[p].ops)
    /\ proc' = [proc EXCEPT ![p].pc = "apply", ![p].at = 1]
    /\ UNCHANGED <<target, dir, owner, control, faults, crashes, staged, fate, exempt>>

Current(p) == proc[p].ops[proc[p].at]

\* Mutant: an existing target is replaced without a backup.
BackupForgotten(f) == NoBackup
\* What _apply keeps of the target: a synced copy, if there is a file.
BackupOf(f) == IF target[f] = Absent THEN NoBackup ELSE target[f]

KeepBackup(p) ==
    LET ops == [proc[p].ops EXCEPT ![proc[p].at].backup = BackupOf(Current(p).file)]
    IN  /\ proc[p].pc = "apply"
        /\ proc[p].at <= Len(proc[p].ops)
        /\ Persist(proc[p].txn, "committing", ops)
        /\ proc' = [proc EXCEPT ![p].pc = "intent", ![p].ops = ops]
        /\ UNCHANGED <<target, dir, owner, control, faults, crashes, staged, fate, exempt>>

\* The write-ahead intent: operation["applied"] = True.
PersistIntent(p) ==
    LET ops == [proc[p].ops EXCEPT ![proc[p].at].applied = TRUE]
    IN  /\ proc[p].pc = "intent"
        /\ Persist(proc[p].txn, "committing", ops)
        /\ proc' = [proc EXCEPT ![p].pc = "change", ![p].ops = ops]
        /\ UNCHANGED <<target, dir, owner, control, faults, crashes, staged, fate, exempt>>

\* os.replace or unlink; the journal written next holds nothing new.
ChangeTarget(p) ==
    /\ proc[p].pc = "change"
    /\ target' = [target EXCEPT ![Current(p).file] = Current(p).new]
    /\ proc' = [proc EXCEPT ![p].pc = "apply", ![p].at = @ + 1]
    /\ UNCHANGED <<dir, journal, owner, control, faults, crashes, staged, fate, exempt>>

AllApplied(p) == proc[p].at > Len(proc[p].ops)

PersistCommitted(p) ==
    /\ proc[p].pc = "apply"
    /\ AllApplied(p)
    /\ Persist(proc[p].txn, "committed", proc[p].ops)
    /\ fate' = [fate EXCEPT ![proc[p].txn] = "committed"]
    /\ proc' = [proc EXCEPT ![p].pc = "durable"]
    /\ UNCHANGED <<target, dir, owner, control, faults, crashes, staged, exempt>>

SyncRoot(p) ==
    /\ proc[p].pc = "durable"
    /\ proc' = [proc EXCEPT ![p].pc = "cleanup"]
    /\ UNCHANGED <<target, dir, journal, owner, control, faults, crashes, staged, fate, exempt>>

\* An OSError anywhere in commit()'s try block starts rollback(), also one that
\* follows the durable "committed" journal.  One raised while the intent is
\* persisted leaves "applied" set in memory only.
CommitFault(p) ==
    /\ proc[p].pc \in {"locked", "apply", "intent", "change", "durable"}
    /\ faults < MaxFaults
    /\ faults' = faults + 1
    /\ \E ops \in {proc[p].ops} \cup
           (IF proc[p].pc = "intent" THEN {[proc[p].ops EXCEPT ![proc[p].at].applied = TRUE]} ELSE {}) :
           proc' = [proc EXCEPT ![p].pc = "undo", ![p].ops = ops]
    /\ withdrawn' = withdrawn \cup (IF proc[p].pc = "durable" THEN {proc[p].txn} ELSE {})
    /\ UNCHANGED <<target, dir, journal, owner, control, crashes, staged, fate, overlapped>>

-----------------------------------------------------------------------------
(* rollback() and _cleanup() *)

LastApplied(ops) == CHOOSE i \in Applied(ops) : \A j \in Applied(ops) : j <= i

\* Mutant: a file that had no backup is not removed again.
BackupAsIs(operation) == operation.backup
\* The content rollback() restores: the backup, or nothing.
Before(operation) == IF operation.backup = NoBackup THEN Absent ELSE operation.backup

Restore(p) ==
    LET operation == proc[p].ops[LastApplied(proc[p].ops)]
    IN  /\ proc[p].pc = "undo"
        /\ Applied(proc[p].ops) # {}
        /\ target' = [target EXCEPT ![operation.file] = Before(operation)]
        /\ proc' = [proc EXCEPT ![p].pc = "restored"]
        /\ UNCHANGED <<dir, journal, owner, control, faults, crashes, staged, fate, exempt>>

PersistRollingBack(p) ==
    LET ops == [proc[p].ops EXCEPT ![LastApplied(proc[p].ops)].applied = FALSE]
    IN  /\ proc[p].pc = "restored"
        /\ Persist(proc[p].txn, "rolling_back", ops)
        /\ proc' = [proc EXCEPT ![p].pc = "undo", ![p].ops = ops]
        /\ UNCHANGED <<target, dir, owner, control, faults, crashes, staged, fate, exempt>>

PersistRolledBack(p) ==
    /\ proc[p].pc = "undo"
    /\ Applied(proc[p].ops) = {}
    /\ Persist(proc[p].txn, "rolled_back", proc[p].ops)
    /\ fate' = [fate EXCEPT ![proc[p].txn] = "aborted"]
    /\ proc' = [proc EXCEPT ![p].pc = "cleanup"]
    /\ UNCHANGED <<target, dir, owner, control, faults, crashes, staged, exempt>>

\* rmtree removes journal.json some time before the directory itself.
RemoveJournal(p) ==
    /\ proc[p].pc = "cleanup"
    /\ journal' = [journal EXCEPT ![proc[p].txn] = NoJournal]
    /\ proc' = [proc EXCEPT ![p].pc = "cleaning"]
    /\ UNCHANGED <<target, dir, owner, control, faults, crashes, staged, fate, exempt>>

\* A writer is done and releases the control lock; recovery scans on.
RemoveDirectory(p) ==
    /\ proc[p].pc = "cleaning"
    /\ dir' = [dir EXCEPT ![proc[p].txn] = "gone"]
    /\ owner' = [owner EXCEPT ![proc[p].txn] = NoProc]
    /\ IF proc[p].recovering
       THEN /\ proc' = [proc EXCEPT ![p].pc = "scan", ![p].txn = NoTxn, ![p].ops = <<>>]
            /\ UNCHANGED control
       ELSE /\ proc' = [proc EXCEPT ![p] = Idle]
            /\ control' = NoProc
    /\ UNCHANGED <<target, journal, faults, crashes, staged, fate, exempt>>

\* An OSError in rollback() or _cleanup() is raised to the caller: the control
\* lock is released, the owner lock only by the end of the process.
UndoFault(p) ==
    /\ proc[p].pc \in {"undo", "restored", "cleanup", "cleaning"}
    /\ faults < MaxFaults
    /\ faults' = faults + 1
    /\ control' = NoProc
    /\ proc' = [proc EXCEPT ![p].pc = "failed"]
    /\ UNCHANGED <<target, dir, journal, owner, crashes, staged, fate, exempt>>

-----------------------------------------------------------------------------
(* pending() and recover() *)

\* A directory whose owner lock _load_inactive can take.
Inactive(t) == Present(t) /\ owner[t] = NoProc

Readable(t) == journal[t].state # "unreadable"

\* recover --apply first previews, under the shared control lock.
Preview(p) ==
    /\ proc[p].pc = "idle"
    /\ control = NoProc
    /\ \E t \in Txns : Inactive(t)
    /\ \A t \in Txns : Inactive(t) => Readable(t)
    /\ proc' = [proc EXCEPT ![p].pc = "previewed"]
    /\ UNCHANGED <<target, dir, journal, owner, control, faults, crashes, staged, fate, exempt>>

\* Without a pending transaction there is nothing to recover.
PreviewEmpty(p) ==
    /\ proc[p].pc = "idle"
    /\ \A t \in Txns : ~ Inactive(t)
    /\ UNCHANGED vars

\* One unreadable journal fails the preview, and with it the recovery.
PreviewRefused(p, t) ==
    /\ proc[p].pc = "idle"
    /\ control = NoProc
    /\ Inactive(t) /\ ~ Readable(t)
    /\ proc' = [proc EXCEPT ![p].pc = "refused", ![p].txn = t]
    /\ UNCHANGED <<target, dir, journal, owner, control, faults, crashes, staged, fate, exempt>>

\* recover() lists the directories once, under the exclusive control lock.
StartRecovery(p) ==
    /\ proc[p].pc = "previewed"
    /\ ControlFree
    /\ control' = p
    /\ proc' = [proc EXCEPT ![p].pc = "scan", ![p].recovering = TRUE,
                            ![p].todo = {t \in Txns : dir[t] = "present"}]
    /\ UNCHANGED <<target, dir, journal, owner, faults, crashes, staged, fate, exempt>>

SkipActive(p, t) ==
    /\ proc[p].pc = "scan"
    /\ t \in proc[p].todo
    /\ ~ Inactive(t)
    /\ proc' = [proc EXCEPT ![p].todo = @ \ {t}]
    /\ UNCHANGED <<target, dir, journal, owner, control, faults, crashes, staged, fate, exempt>>

\* Mutant: a journal of a committed transaction is rolled back, too.
AlwaysUndo(state) == "undo"
\* A committed journal is only cleaned up, every other one rolled back.
NextStep(state) == IF state = "committed" THEN "cleanup" ELSE "undo"

LoadInactive(p, t) ==
    /\ proc[p].pc = "scan"
    /\ t \in proc[p].todo
    /\ Inactive(t) /\ Readable(t)
    /\ owner' = [owner EXCEPT ![t] = p]
    /\ proc' = [proc EXCEPT ![p].pc = NextStep(journal[t].state), ![p].txn = t,
                            ![p].ops = journal[t].ops, ![p].todo = @ \ {t}]
    /\ UNCHANGED <<target, dir, journal, control, faults, crashes, staged, fate, exempt>>

\* An unreadable journal ends the whole pass.
LoadRefused(p, t) ==
    /\ proc[p].pc = "scan"
    /\ t \in proc[p].todo
    /\ Inactive(t) /\ ~ Readable(t)
    /\ control' = NoProc
    /\ proc' = [proc EXCEPT ![p] = [Idle EXCEPT !.pc = "refused", !.txn = t]]
    /\ UNCHANGED <<target, dir, journal, owner, faults, crashes, staged, fate, exempt>>

EndRecovery(p) ==
    /\ proc[p].pc = "scan"
    /\ proc[p].todo = {}
    /\ control' = NoProc
    /\ proc' = [proc EXCEPT ![p] = Idle]
    /\ UNCHANGED <<target, dir, journal, owner, faults, crashes, staged, fate, exempt>>

-----------------------------------------------------------------------------
(* Processes end *)

\* Mutant: ownership is a file that outlives its process.
LeftLocked(p) ==
    /\ control' = IF control = p THEN NoProc ELSE control
    /\ proc' = [proc EXCEPT ![p] = Idle]
    /\ UNCHANGED owner
\* The kernel drops every flock of a process that ends.
Released(p) ==
    /\ owner' = [t \in Txns |-> IF owner[t] = p THEN NoProc ELSE owner[t]]
    /\ control' = IF control = p THEN NoProc ELSE control
    /\ proc' = [proc EXCEPT ![p] = Idle]

Crash(p) ==
    /\ proc[p].pc \notin {"idle", "failed", "refused"}
    /\ crashes < MaxCrashes
    /\ crashes' = crashes + 1
    /\ Released(p)
    /\ UNCHANGED <<target, dir, journal, faults, staged, fate, exempt>>

\* A command that reported its error ends.
Exit(p) ==
    /\ proc[p].pc \in {"failed", "refused"}
    /\ Released(p)
    /\ UNCHANGED <<target, dir, journal, faults, crashes, staged, fate, exempt>>

\* What a process does once it has been started, without faults.
Work(p) ==
    \/ TakeOwnerLock(p) \/ PersistStaging(p)
    \/ LockControl(p) \/ PersistCommitting(p) \/ KeepBackup(p) \/ PersistIntent(p)
    \/ ChangeTarget(p) \/ PersistCommitted(p) \/ SyncRoot(p)
    \/ Restore(p) \/ PersistRollingBack(p) \/ PersistRolledBack(p)
    \/ RemoveJournal(p) \/ RemoveDirectory(p)
    \/ StartRecovery(p) \/ EndRecovery(p)
    \/ \E t \in Txns : SkipActive(p, t) \/ LoadInactive(p, t) \/ LoadRefused(p, t)
    \/ Exit(p)

Next ==
    \E p \in Procs :
        \/ \E t \in Txns : MakeDirectory(p, t) \/ PreviewRefused(p, t)
        \/ \E f \in Files : Stage(p, f, proc[p].txn) \/ Stage(p, f, Absent)
        \/ Preview(p) \/ PreviewEmpty(p)
        \/ Work(p)
        \/ CommitFault(p) \/ UndoFault(p) \/ Crash(p)

Spec == Init /\ [][Next]_vars

\* Commands finish, and an operator who sees a pending transaction recovers.
Fairness ==
    \A p \in Procs : WF_vars(Work(p)) /\ SF_vars(StartRecovery(p)) /\ SF_vars(Preview(p))

FairSpec == Spec /\ Fairness

-----------------------------------------------------------------------------
(* What transactions promise *)

TypeOK ==
    /\ target \in [Files -> Content]
    /\ dir \in [Txns -> {"unused", "present", "gone"}]
    /\ journal \in [Txns -> Journal]
    /\ owner \in [Txns -> Procs \cup {NoProc}]
    /\ control \in Procs \cup {NoProc}
    /\ proc \in [Procs -> Process]
    /\ faults \in 0..MaxFaults
    /\ crashes \in 0..MaxCrashes
    /\ fate \in [Txns -> {"open", "committed", "aborted"}]
    /\ overlapped \subseteq Files
    /\ withdrawn \subseteq Txns

\* Between taking and releasing the control lock.
Critical == {"locked", "apply", "intent", "change", "durable",
             "undo", "restored", "cleanup", "cleaning", "scan"}

(* TS-0021: "live work MUST NOT be rolled back".  At most one process commits *)
(* or recovers at a time, and none works on the transaction of another: not  *)
(* recovery on a live writer's, nor two recoveries on one.                   *)
OneWorker ==
    \A p, q \in Procs :
        p # q =>
            /\ ~ (proc[p].pc \in Critical /\ proc[q].pc \in Critical)
            /\ proc[p].pc \in Writing \cup Undoing /\ proc[q].pc \in Writing \cup Undoing =>
                   proc[p].txn # proc[q].txn

\* What no transaction answers for any more, because the code did one of two
\* things ADR-0036 does not foresee: it committed to a file that an interrupted
\* transaction was still to put back, or rolled back what it had committed.
Lost == overlapped \cup UNION {DOMAIN staged[t] : t \in withdrawn}

(* ADR-0036: "committed target state is preserved".  What a committed        *)
(* transaction wrote changes only by the commit of another one, never by a   *)
(* rollback, unless that transaction's commit failed after it was durable or *)
(* somebody committed to the file before an interrupted one was recovered.   *)
CommittedContentKept ==
    [][\A f \in Files \ Lost :
           /\ target[f] \in Txns
           /\ fate[target[f]] = "committed"
           /\ target'[f] # target[f]
           => \E p \in Procs : proc[p].pc = "change" /\ Current(p).file = f
      ]_vars

\* Left behind by a process that is gone.
Interrupted(t) == dir[t] = "present" /\ \A p \in Procs : proc[p].txn # t

(* TS-0021: recovery "MUST be safe to retry".  However often recovery itself *)
(* is interrupted or fails, an interrupted transaction is eventually rolled  *)
(* back or cleaned up, unless an unreadable journal blocks recovery.         *)
EventuallyRecovered ==
    \A t \in Txns :
        Interrupted(t) ~> \/ dir[t] = "gone"
                         \/ \E u \in Txns : Present(u) /\ ~ Readable(u)

-----------------------------------------------------------------------------
(* Refinement *)

Undone(f) == {o \in UNION {{journal[t].ops[i] : i \in InDoubt(t)} : t \in Txns} : o.file = f}

\* What a reader would find after a crash of everyone, now, and recovery.
Recovered ==
    [f \in Files |-> IF Undone(f) = {} THEN target[f] ELSE Before(CHOOSE o \in Undone(f) : TRUE)]

Atomic == INSTANCE AtomicFiles WITH files <- Recovered, lost <- Lost, Contents <- {Original, Absent}

(* Seen through recovery, a transaction takes effect at the one step that    *)
(* makes its "committed" journal durable, whatever is interrupted when: for  *)
(* each file up to the moment it is Lost.                                    *)
TransactionsAtomic == Atomic!Spec
=============================================================================
