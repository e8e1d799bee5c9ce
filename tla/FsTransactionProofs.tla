------------------------- MODULE FsTransactionProofs -------------------------
(***************************************************************************)
(* Properties of FsTransaction, proved for every set of processes,         *)
(* transactions and files, every footprint and every bound, with kills and *)
(* faults at every step.  Atomicity is proved of every file up to the      *)
(* moment it is Lost: until somebody commits to it before an interrupted   *)
(* transaction is recovered, or rolls back a durable commit to it.         *)
(***************************************************************************)
EXTENDS FsTransaction, TLAPS, WellFoundedInduction

(* A rollback that has something to undo finds the operation to begin with. *)
LEMMA LastAppliedExists ==
    ASSUME NEW ops \in Seq(Operation), Applied(ops) # {}
    PROVE  LastApplied(ops) \in DOMAIN ops /\ LastApplied(ops) \in Applied(ops)
<1>. DEFINE left == {Len(ops) - i : i \in Applied(ops)}
            less == {pair \in Nat \X Nat : pair[1] < pair[2]}
<1>1. DOMAIN ops = 1..Len(ops) /\ Len(ops) \in Nat /\ Applied(ops) \subseteq 1..Len(ops)
    BY DEF Applied
<1>2. left \subseteq Nat /\ left # {}
    BY <1>1
<1>3. PICK least \in left : \A x \in left : ~ (<<x, least>> \in less)
    <2>1. IsWellFoundedOn(less, Nat)
        BY NatLessThanWellFounded DEF OpToRel
    <2>. QED
        BY <1>2, <2>1, WFMin
<1>4. PICK last \in Applied(ops) : least = Len(ops) - last
    OBVIOUS
<1>5. ASSUME NEW j \in Applied(ops)
      PROVE  j <= last
    <2>1. j \in Nat /\ last \in Nat
        BY <1>1
    <2>2. Len(ops) - j \in left /\ Len(ops) - j \in Nat /\ least \in Nat
        BY <1>2
    <2>3. ~ (Len(ops) - j < least)
        BY <1>3, <2>2
    <2>. QED
        BY <1>1, <1>4, <2>1, <2>3
<1>. QED
    BY <1>1, <1>4, <1>5 DEF LastApplied

(* Changing a field of one operation leaves a sequence of operations.  *)
LEMMA AppliedUpdate ==
    ASSUME NEW ops \in Seq(Operation), NEW i, NEW b \in BOOLEAN
    PROVE  /\ [ops EXCEPT ![i].applied = b] \in Seq(Operation)
           /\ Len([ops EXCEPT ![i].applied = b]) = Len(ops)
<1>1. CASE i \in 1..Len(ops)
    <2>1. ops[i] \in Operation
        BY <1>1
    <2>2. [ops[i] EXCEPT !.applied = b] \in Operation
        BY <2>1 DEF Operation
    <2>. QED
        BY <1>1, <2>2
<1>2. CASE i \notin 1..Len(ops)
    <2>1. DOMAIN ops = 1..Len(ops) /\ ops = [j \in 1..Len(ops) |-> ops[j]]
        OBVIOUS
    <2>2. [ops EXCEPT ![i].applied = b] = ops
        BY <1>2, <2>1
    <2>. QED
        BY <2>2
<1>. QED
    BY <1>1, <1>2

\* A backup is recorded for the operation it is of, and keeps the journal's type.
LEMMA BackupUpdate ==
    ASSUME NEW ops \in Seq(Operation), NEW i, NEW k \in Content \cup {NoBackup}
    PROVE  /\ [ops EXCEPT ![i].backup = k] \in Seq(Operation)
           /\ Len([ops EXCEPT ![i].backup = k]) = Len(ops)
<1>1. CASE i \in 1..Len(ops)
    <2>1. ops[i] \in Operation
        BY <1>1
    <2>2. [ops[i] EXCEPT !.backup = k] \in Operation
        BY <2>1 DEF Operation
    <2>. QED
        BY <1>1, <2>2
<1>2. CASE i \notin 1..Len(ops)
    <2>1. DOMAIN ops = 1..Len(ops) /\ ops = [j \in 1..Len(ops) |-> ops[j]]
        OBVIOUS
    <2>2. [ops EXCEPT ![i].backup = k] = ops
        BY <1>2, <2>1
    <2>. QED
        BY <2>2
<1>. QED
    BY <1>1, <1>2

(* What rollback() puts back is a content. *)
LEMMA BeforeType ==
    ASSUME NEW operation \in Operation
    PROVE  Before(operation) \in Content
BY DEF Before, Operation, Content

-----------------------------------------------------------------------------
(* Types *)

(* The steps of the processes, one disjunct per action. *)
LEMMA StepCases ==
    ASSUME [Next]_vars
    PROVE  \/ \E p \in Procs, t \in Txns : MakeDirectory(p, t)
           \/ \E p \in Procs, f \in Files : \E new \in {proc[p].txn, Absent} : Stage(p, f, new)
           \/ \E p \in Procs, t \in Txns : PreviewRefused(p, t)
           \/ \E p \in Procs, t \in Txns : SkipActive(p, t)
           \/ \E p \in Procs, t \in Txns : LoadInactive(p, t)
           \/ \E p \in Procs, t \in Txns : LoadRefused(p, t)
           \/ \E p \in Procs : TakeOwnerLock(p)
           \/ \E p \in Procs : PersistStaging(p)
           \/ \E p \in Procs : LockControl(p)
           \/ \E p \in Procs : PersistCommitting(p)
           \/ \E p \in Procs : KeepBackup(p)
           \/ \E p \in Procs : PersistIntent(p)
           \/ \E p \in Procs : ChangeTarget(p)
           \/ \E p \in Procs : PersistCommitted(p)
           \/ \E p \in Procs : SyncRoot(p)
           \/ \E p \in Procs : Restore(p)
           \/ \E p \in Procs : PersistRollingBack(p)
           \/ \E p \in Procs : PersistRolledBack(p)
           \/ \E p \in Procs : RemoveJournal(p)
           \/ \E p \in Procs : RemoveDirectory(p)
           \/ \E p \in Procs : StartRecovery(p)
           \/ \E p \in Procs : EndRecovery(p)
           \/ \E p \in Procs : Preview(p)
           \/ \E p \in Procs : PreviewEmpty(p)
           \/ \E p \in Procs : CommitFault(p)
           \/ \E p \in Procs : UndoFault(p)
           \/ \E p \in Procs : Crash(p)
           \/ \E p \in Procs : Exit(p)
           \/ UNCHANGED vars
BY DEF Next, Work

\* Where a process stands, its transaction and its operation are there.
Indices ==
    \A p \in Procs :
        /\ proc[p].pc \in Writing \cup Undoing => proc[p].txn \in Txns
        /\ proc[p].pc = "apply" => proc[p].at # 0
        /\ proc[p].pc \in {"intent", "change"} => proc[p].at \in DOMAIN proc[p].ops

(* A step of a process leaves the others alone: the types hold again if the   *)
(* new process and the shared state have theirs.                             *)
LEMMA OneProcess ==
    ASSUME TypeOK, Indices, NEW p \in Procs, NEW q \in Process,
           proc' = [proc EXCEPT ![p] = q],
           q.pc \in Writing \cup Undoing => q.txn \in Txns,
           q.pc = "apply" => q.at # 0,
           q.pc \in {"intent", "change"} => q.at \in DOMAIN q.ops
    PROVE  proc' \in [Procs -> Process] /\ Indices'
<1>1. proc \in [Procs -> Process]
    BY DEF TypeOK
<1>2. proc' \in [Procs -> Process]
    BY <1>1
<1>3. \A r \in Procs : proc'[r] = IF r = p THEN q ELSE proc[r]
    BY <1>1
<1>. QED
    BY <1>2, <1>3 DEF Indices

(* What the journal of a transaction becomes has its type. *)
LEMMA PersistType ==
    ASSUME TypeOK, NEW t, NEW ops \in Seq(Operation), NEW state,
           state \in {"staging", "committing", "committed", "rolling_back", "rolled_back"},
           Persist(t, state, ops)
    PROVE  journal' \in [Txns -> Journal]
BY DEF TypeOK, Journal, Persist

\* Every step of commit, rollback and recovery keeps the types.
LEMMA TypePreserved == TypeOK /\ Indices /\ [Next]_vars => TypeOK' /\ Indices'
<1>. SUFFICES ASSUME TypeOK, Indices, [Next]_vars
              PROVE  TypeOK' /\ Indices'
    OBVIOUS
<1>. USE DEF exempt
<1>0. Idle \in Process /\ NoJournal \in Journal
    BY DEF Idle, Process, NoJournal, Journal
<1>1. ASSUME NEW p \in Procs, NEW t \in Txns, MakeDirectory(p, t)
      PROVE  TypeOK' /\ Indices'
    <2>. DEFINE q == [proc[p] EXCEPT !.pc = "created", !.txn = t]
    <2>1. q \in Process
        BY <1>0 DEF TypeOK, Process, Writing, Undoing, Idle
    <2>2. proc' = [proc EXCEPT ![p] = q]
        BY <1>1 DEF MakeDirectory
    <2>3. proc' \in [Procs -> Process] /\ Indices'
        BY <1>1, <2>1, <2>2, OneProcess DEF MakeDirectory, Indices, Process, Writing, Undoing, Idle
    <2>. QED
        BY <1>0, <1>1, <2>3, FsAssumption DEF MakeDirectory, TypeOK
<1>2. ASSUME NEW p \in Procs, TakeOwnerLock(p)
      PROVE  TypeOK' /\ Indices'
    <2>. DEFINE q == [proc[p] EXCEPT !.pc = "owned"]
    <2>1. q \in Process
        BY <1>0 DEF TypeOK, Process, Writing, Undoing, Idle
    <2>2. proc' = [proc EXCEPT ![p] = q]
        BY <1>2 DEF TakeOwnerLock
    <2>3. proc' \in [Procs -> Process] /\ Indices'
        BY <1>2, <2>1, <2>2, OneProcess DEF TakeOwnerLock, Indices, Process, Writing, Undoing, Idle
    <2>. QED
        BY <1>0, <1>2, <2>3, FsAssumption DEF TakeOwnerLock, TypeOK
<1>3. ASSUME NEW p \in Procs, PersistStaging(p)
      PROVE  TypeOK' /\ Indices'
    <2>. DEFINE q == [proc[p] EXCEPT !.pc = "staging"]
    <2>1. q \in Process
        BY <1>0 DEF TypeOK, Process, Writing, Undoing, Idle
    <2>2. proc' = [proc EXCEPT ![p] = q]
        BY <1>3 DEF PersistStaging
    <2>3. proc' \in [Procs -> Process] /\ Indices'
        BY <1>3, <2>1, <2>2, OneProcess DEF PersistStaging, Indices, Process, Writing, Undoing, Idle
    <2>4. journal' \in [Txns -> Journal]
        <3>1. <<>> \in Seq(Operation)
            OBVIOUS
        <3>. QED
            BY <1>3, <3>1, PersistType DEF PersistStaging
    <2>. QED
        BY <1>0, <1>3, <2>3, <2>4, FsAssumption DEF PersistStaging, TypeOK
<1>4. ASSUME NEW p \in Procs, LockControl(p)
      PROVE  TypeOK' /\ Indices'
    <2>. DEFINE q == [proc[p] EXCEPT !.pc = "locked"]
    <2>1. q \in Process
        BY <1>0 DEF TypeOK, Process, Writing, Undoing, Idle
    <2>2. proc' = [proc EXCEPT ![p] = q]
        BY <1>4 DEF LockControl
    <2>3. proc' \in [Procs -> Process] /\ Indices'
        BY <1>4, <2>1, <2>2, OneProcess DEF LockControl, Indices, Process, Writing, Undoing, Idle
    <2>. QED
        BY <1>0, <1>4, <2>3, FsAssumption DEF LockControl, Overlapping, TypeOK
<1>5. ASSUME NEW p \in Procs, PersistCommitting(p)
      PROVE  TypeOK' /\ Indices'
    <2>. DEFINE q == [proc[p] EXCEPT !.pc = "apply", !.at = 1]
    <2>1. q \in Process
        BY <1>0 DEF TypeOK, Process, Writing, Undoing, Idle
    <2>2. proc' = [proc EXCEPT ![p] = q]
        BY <1>5 DEF PersistCommitting
    <2>3. proc' \in [Procs -> Process] /\ Indices'
        BY <1>5, <2>1, <2>2, OneProcess DEF PersistCommitting, TypeOK, Indices, Process, Writing, Undoing, Idle
    <2>4. journal' \in [Txns -> Journal]
        BY <1>5, PersistType DEF PersistCommitting, TypeOK, Process
    <2>. QED
        BY <1>0, <1>5, <2>3, <2>4, FsAssumption DEF PersistCommitting, TypeOK
<1>6. ASSUME NEW p \in Procs, PersistCommitted(p)
      PROVE  TypeOK' /\ Indices'
    <2>. DEFINE q == [proc[p] EXCEPT !.pc = "durable"]
    <2>1. q \in Process
        BY <1>0 DEF TypeOK, Process, Writing, Undoing, Idle
    <2>2. proc' = [proc EXCEPT ![p] = q]
        BY <1>6 DEF PersistCommitted
    <2>3. proc' \in [Procs -> Process] /\ Indices'
        BY <1>6, <2>1, <2>2, OneProcess DEF PersistCommitted, Indices, Process, Writing, Undoing, Idle
    <2>4. journal' \in [Txns -> Journal]
        BY <1>6, PersistType DEF PersistCommitted, TypeOK, Process
    <2>. QED
        BY <1>0, <1>6, <2>3, <2>4, FsAssumption DEF PersistCommitted, TypeOK
<1>7. ASSUME NEW p \in Procs, SyncRoot(p)
      PROVE  TypeOK' /\ Indices'
    <2>. DEFINE q == [proc[p] EXCEPT !.pc = "cleanup"]
    <2>1. q \in Process
        BY <1>0 DEF TypeOK, Process, Writing, Undoing, Idle
    <2>2. proc' = [proc EXCEPT ![p] = q]
        BY <1>7 DEF SyncRoot
    <2>3. proc' \in [Procs -> Process] /\ Indices'
        BY <1>7, <2>1, <2>2, OneProcess DEF SyncRoot, Indices, Process, Writing, Undoing, Idle
    <2>. QED
        BY <1>0, <1>7, <2>3, FsAssumption DEF SyncRoot, TypeOK
<1>8. ASSUME NEW p \in Procs, PersistRolledBack(p)
      PROVE  TypeOK' /\ Indices'
    <2>. DEFINE q == [proc[p] EXCEPT !.pc = "cleanup"]
    <2>1. q \in Process
        BY <1>0 DEF TypeOK, Process, Writing, Undoing, Idle
    <2>2. proc' = [proc EXCEPT ![p] = q]
        BY <1>8 DEF PersistRolledBack
    <2>3. proc' \in [Procs -> Process] /\ Indices'
        BY <1>8, <2>1, <2>2, OneProcess DEF PersistRolledBack, Indices, Process, Writing, Undoing, Idle
    <2>4. journal' \in [Txns -> Journal]
        BY <1>8, PersistType DEF PersistRolledBack, TypeOK, Process
    <2>. QED
        BY <1>0, <1>8, <2>3, <2>4, FsAssumption DEF PersistRolledBack, TypeOK
<1>9. ASSUME NEW p \in Procs, RemoveJournal(p)
      PROVE  TypeOK' /\ Indices'
    <2>. DEFINE q == [proc[p] EXCEPT !.pc = "cleaning"]
    <2>1. q \in Process
        BY <1>0 DEF TypeOK, Process, Writing, Undoing, Idle
    <2>2. proc' = [proc EXCEPT ![p] = q]
        BY <1>9 DEF RemoveJournal
    <2>3. proc' \in [Procs -> Process] /\ Indices'
        BY <1>9, <2>1, <2>2, OneProcess DEF RemoveJournal, Indices, Process, Writing, Undoing, Idle
    <2>. QED
        BY <1>0, <1>9, <2>3, FsAssumption DEF RemoveJournal, TypeOK
<1>10. ASSUME NEW p \in Procs, UndoFault(p)
      PROVE  TypeOK' /\ Indices'
    <2>. DEFINE q == [proc[p] EXCEPT !.pc = "failed"]
    <2>1. q \in Process
        BY <1>0 DEF TypeOK, Process, Writing, Undoing, Idle
    <2>2. proc' = [proc EXCEPT ![p] = q]
        BY <1>10 DEF UndoFault
    <2>3. proc' \in [Procs -> Process] /\ Indices'
        BY <1>10, <2>1, <2>2, OneProcess DEF UndoFault, Indices, Process, Writing, Undoing, Idle
    <2>. QED
        BY <1>0, <1>10, <2>3, FsAssumption DEF UndoFault, TypeOK
<1>11. ASSUME NEW p \in Procs, Preview(p)
      PROVE  TypeOK' /\ Indices'
    <2>. DEFINE q == [proc[p] EXCEPT !.pc = "previewed"]
    <2>1. q \in Process
        BY <1>0 DEF TypeOK, Process, Writing, Undoing, Idle
    <2>2. proc' = [proc EXCEPT ![p] = q]
        BY <1>11 DEF Preview
    <2>3. proc' \in [Procs -> Process] /\ Indices'
        BY <1>11, <2>1, <2>2, OneProcess DEF Preview, Indices, Process, Writing, Undoing, Idle
    <2>. QED
        BY <1>0, <1>11, <2>3, FsAssumption DEF Preview, TypeOK
<1>12. ASSUME NEW p \in Procs, NEW t \in Txns, PreviewRefused(p, t)
      PROVE  TypeOK' /\ Indices'
    <2>. DEFINE q == [proc[p] EXCEPT !.pc = "refused", !.txn = t]
    <2>1. q \in Process
        BY <1>0 DEF TypeOK, Process, Writing, Undoing, Idle
    <2>2. proc' = [proc EXCEPT ![p] = q]
        BY <1>12 DEF PreviewRefused
    <2>3. proc' \in [Procs -> Process] /\ Indices'
        BY <1>12, <2>1, <2>2, OneProcess DEF PreviewRefused, Indices, Process, Writing, Undoing, Idle
    <2>. QED
        BY <1>0, <1>12, <2>3, FsAssumption DEF PreviewRefused, TypeOK
<1>13. ASSUME NEW p \in Procs, NEW t \in Txns, SkipActive(p, t)
      PROVE  TypeOK' /\ Indices'
    <2>. DEFINE q == [proc[p] EXCEPT !.todo = @ \ {t}]
    <2>1. q \in Process
        BY <1>0 DEF TypeOK, Process, Writing, Undoing, Idle
    <2>2. proc' = [proc EXCEPT ![p] = q]
        BY <1>13 DEF SkipActive
    <2>3. proc' \in [Procs -> Process] /\ Indices'
        BY <1>13, <2>1, <2>2, OneProcess DEF SkipActive, Indices, Process, Writing, Undoing, Idle
    <2>. QED
        BY <1>0, <1>13, <2>3, FsAssumption DEF SkipActive, TypeOK
<1>14. ASSUME NEW p \in Procs, NEW t \in Txns, LoadRefused(p, t)
      PROVE  TypeOK' /\ Indices'
    <2>. DEFINE q == [Idle EXCEPT !.pc = "refused", !.txn = t]
    <2>1. q \in Process
        BY <1>0 DEF TypeOK, Process, Writing, Undoing, Idle
    <2>2. proc' = [proc EXCEPT ![p] = q]
        BY <1>14 DEF LoadRefused
    <2>3. proc' \in [Procs -> Process] /\ Indices'
        BY <1>14, <2>1, <2>2, OneProcess DEF LoadRefused, Indices, Process, Writing, Undoing, Idle
    <2>. QED
        BY <1>0, <1>14, <2>3, FsAssumption DEF LoadRefused, TypeOK
<1>15. ASSUME NEW p \in Procs, EndRecovery(p)
      PROVE  TypeOK' /\ Indices'
    <2>. DEFINE q == Idle
    <2>1. q \in Process
        BY <1>0 DEF TypeOK, Process, Writing, Undoing, Idle
    <2>2. proc' = [proc EXCEPT ![p] = q]
        BY <1>15 DEF EndRecovery
    <2>3. proc' \in [Procs -> Process] /\ Indices'
        BY <1>15, <2>1, <2>2, OneProcess DEF EndRecovery, Indices, Process, Writing, Undoing, Idle
    <2>. QED
        BY <1>0, <1>15, <2>3, FsAssumption DEF EndRecovery, TypeOK
<1>16. ASSUME NEW p \in Procs, Crash(p)
      PROVE  TypeOK' /\ Indices'
    <2>. DEFINE q == Idle
    <2>1. q \in Process
        BY <1>0 DEF TypeOK, Process, Writing, Undoing, Idle
    <2>2. proc' = [proc EXCEPT ![p] = q]
        BY <1>16 DEF Crash, Released
    <2>3. proc' \in [Procs -> Process] /\ Indices'
        BY <1>16, <2>1, <2>2, OneProcess DEF Crash, Indices, Process, Writing, Undoing, Idle
    <2>. QED
        BY <1>0, <1>16, <2>3, FsAssumption DEF Crash, TypeOK, Released
<1>17. ASSUME NEW p \in Procs, Exit(p)
      PROVE  TypeOK' /\ Indices'
    <2>. DEFINE q == Idle
    <2>1. q \in Process
        BY <1>0 DEF TypeOK, Process, Writing, Undoing, Idle
    <2>2. proc' = [proc EXCEPT ![p] = q]
        BY <1>17 DEF Exit, Released
    <2>3. proc' \in [Procs -> Process] /\ Indices'
        BY <1>17, <2>1, <2>2, OneProcess DEF Exit, Indices, Process, Writing, Undoing, Idle
    <2>. QED
        BY <1>0, <1>17, <2>3, FsAssumption DEF Exit, TypeOK, Released
<1>18. ASSUME NEW p \in Procs, NEW f \in Files, NEW new \in {proc[p].txn, Absent}, Stage(p, f, new)
      PROVE  TypeOK' /\ Indices'
    <2>. DEFINE ops == Append(proc[p].ops, [file |-> f, new |-> new, applied |-> FALSE, backup |-> NoBackup])
                q == [proc[p] EXCEPT !.ops = ops]
    <2>1. proc[p] \in Process /\ proc[p].pc = "staging" /\ proc[p].txn \in Txns
        BY <1>18 DEF Stage, TypeOK, Indices, Writing
    <2>2. [file |-> f, new |-> new, applied |-> FALSE, backup |-> NoBackup] \in Operation
        BY <2>1 DEF Operation, Content
    <2>3. ops \in Seq(Operation)
        BY <2>1, <2>2 DEF Process
    <2>4. q \in Process
        BY <2>1, <2>3 DEF Process
    <2>5. proc' = [proc EXCEPT ![p] = q] /\ Persist(proc[p].txn, "staging", ops)
        BY <1>18 DEF Stage
    <2>6. proc' \in [Procs -> Process] /\ Indices'
        BY <2>1, <2>4, <2>5, OneProcess DEF Process
    <2>7. journal' \in [Txns -> Journal]
        BY <2>3, <2>5, PersistType
    <2>. QED
        BY <1>18, <2>6, <2>7 DEF Stage, TypeOK
<1>19. ASSUME NEW p \in Procs, KeepBackup(p)
      PROVE  TypeOK' /\ Indices'
    <2>. DEFINE ops == [proc[p].ops EXCEPT ![proc[p].at].backup = BackupOf(Current(p).file)]
                q == [proc[p] EXCEPT !.pc = "intent", !.ops = ops]
    <2>1. /\ proc[p] \in Process /\ proc[p].txn \in Txns
          /\ proc[p].at \in 1..Len(proc[p].ops)
        BY <1>19 DEF KeepBackup, TypeOK, Indices, Writing, Process
    <2>2. Current(p) \in Operation
        BY <2>1 DEF Process, Current
    <2>3. BackupOf(Current(p).file) \in Content \cup {NoBackup}
        BY <2>2 DEF BackupOf, Operation, TypeOK
    <2>4. ops \in Seq(Operation) /\ Len(ops) = Len(proc[p].ops)
        <3>1. proc[p].ops \in Seq(Operation)
            BY <2>1 DEF Process
        <3>. QED
            BY <2>3, <3>1, BackupUpdate
    <2>5. q \in Process /\ q.at \in DOMAIN q.ops
        <3>. HIDE DEF ops
        <3>1. q \in Process
            BY <2>1, <2>4 DEF Process, Writing
        <3>2. q.at = proc[p].at /\ q.ops = ops /\ DOMAIN ops = 1..Len(ops)
            BY <2>1, <2>4 DEF Process
        <3>. QED
            BY <2>1, <2>4, <3>1, <3>2
    <2>6. proc' = [proc EXCEPT ![p] = q] /\ Persist(proc[p].txn, "committing", ops)
        BY <1>19 DEF KeepBackup
    <2>7. proc' \in [Procs -> Process] /\ Indices'
        BY <2>1, <2>5, <2>6, OneProcess DEF Process
    <2>8. journal' \in [Txns -> Journal]
        BY <2>4, <2>6, PersistType
    <2>. QED
        BY <1>19, <2>7, <2>8 DEF KeepBackup, TypeOK
<1>20. ASSUME NEW p \in Procs, PersistIntent(p)
      PROVE  TypeOK' /\ Indices'
    <2>. DEFINE ops == [proc[p].ops EXCEPT ![proc[p].at].applied = TRUE]
                q == [proc[p] EXCEPT !.pc = "change", !.ops = ops]
    <2>1. /\ proc[p] \in Process /\ proc[p].txn \in Txns
          /\ proc[p].at \in 1..Len(proc[p].ops)
        BY <1>20 DEF PersistIntent, TypeOK, Indices, Writing, Process
    <2>2. ops \in Seq(Operation) /\ Len(ops) = Len(proc[p].ops)
        BY <2>1, AppliedUpdate DEF Process
    <2>3. q \in Process /\ q.at \in DOMAIN q.ops
        <3>. HIDE DEF ops
        <3>1. q \in Process
            BY <2>1, <2>2 DEF Process, Writing
        <3>2. q.at = proc[p].at /\ q.ops = ops /\ DOMAIN ops = 1..Len(ops)
            BY <2>1, <2>2 DEF Process
        <3>. QED
            BY <2>1, <2>2, <3>1, <3>2
    <2>4. proc' = [proc EXCEPT ![p] = q] /\ Persist(proc[p].txn, "committing", ops)
        BY <1>20 DEF PersistIntent
    <2>5. proc' \in [Procs -> Process] /\ Indices'
        BY <2>1, <2>3, <2>4, OneProcess DEF Process
    <2>6. journal' \in [Txns -> Journal]
        BY <2>2, <2>4, PersistType
    <2>. QED
        BY <1>20, <2>5, <2>6 DEF PersistIntent, TypeOK
<1>21. ASSUME NEW p \in Procs, ChangeTarget(p)
      PROVE  TypeOK' /\ Indices'
    <2>. DEFINE q == [proc[p] EXCEPT !.pc = "apply", !.at = proc[p].at + 1]
    <2>1. /\ proc[p] \in Process /\ proc[p].txn \in Txns
          /\ proc[p].at \in 1..Len(proc[p].ops)
        BY <1>21 DEF ChangeTarget, TypeOK, Indices, Writing, Process
    <2>2. Current(p) \in Operation
        BY <2>1 DEF Process, Current
    <2>3. q \in Process /\ q.at # 0
        <3>1. proc[p].at + 1 \in Nat /\ proc[p].at + 1 # 0
            BY <2>1
        <3>. QED
            BY <2>1, <3>1 DEF Process, Writing
    <2>4. proc' = [proc EXCEPT ![p] = q]
        BY <1>21 DEF ChangeTarget
    <2>5. proc' \in [Procs -> Process] /\ Indices'
        BY <2>1, <2>3, <2>4, OneProcess DEF Process
    <2>6. target' \in [Files -> Content]
        BY <1>21, <2>2 DEF ChangeTarget, TypeOK, Operation
    <2>. QED
        BY <1>21, <2>5, <2>6 DEF ChangeTarget, TypeOK
<1>22. ASSUME NEW p \in Procs, Restore(p)
      PROVE  TypeOK' /\ Indices'
    <2>. DEFINE operation == proc[p].ops[LastApplied(proc[p].ops)]
                q == [proc[p] EXCEPT !.pc = "restored"]
    <2>1. proc[p] \in Process /\ proc[p].txn \in Txns
        BY <1>22 DEF Restore, TypeOK, Indices, Undoing
    <2>2. operation \in Operation
        <3>1. LastApplied(proc[p].ops) \in DOMAIN proc[p].ops
            BY <1>22, <2>1, LastAppliedExists DEF Restore, Process
        <3>. QED
            BY <2>1, <3>1 DEF Process
    <2>3. q \in Process
        BY <2>1 DEF Process, Undoing
    <2>4. proc' = [proc EXCEPT ![p] = q]
        BY <1>22 DEF Restore
    <2>5. proc' \in [Procs -> Process] /\ Indices'
        BY <2>1, <2>3, <2>4, OneProcess DEF Process
    <2>6. target' \in [Files -> Content]
        BY <1>22, <2>2, BeforeType DEF Restore, TypeOK, Operation
    <2>. QED
        BY <1>22, <2>5, <2>6 DEF Restore, TypeOK
<1>23. ASSUME NEW p \in Procs, PersistRollingBack(p)
      PROVE  TypeOK' /\ Indices'
    <2>. DEFINE ops == [proc[p].ops EXCEPT ![LastApplied(proc[p].ops)].applied = FALSE]
                q == [proc[p] EXCEPT !.pc = "undo", !.ops = ops]
    <2>1. proc[p] \in Process /\ proc[p].txn \in Txns
        BY <1>23 DEF PersistRollingBack, TypeOK, Indices, Undoing
    <2>2. ops \in Seq(Operation)
        BY <2>1, AppliedUpdate DEF Process
    <2>3. q \in Process
        BY <2>1, <2>2 DEF Process, Undoing
    <2>4. proc' = [proc EXCEPT ![p] = q] /\ Persist(proc[p].txn, "rolling_back", ops)
        BY <1>23 DEF PersistRollingBack
    <2>5. proc' \in [Procs -> Process] /\ Indices'
        BY <2>1, <2>3, <2>4, OneProcess DEF Process
    <2>6. journal' \in [Txns -> Journal]
        BY <2>2, <2>4, PersistType
    <2>. QED
        BY <1>23, <2>5, <2>6 DEF PersistRollingBack, TypeOK
<1>24. ASSUME NEW p \in Procs, RemoveDirectory(p)
      PROVE  TypeOK' /\ Indices'
    <2>. DEFINE next == [proc[p] EXCEPT !.pc = "scan", !.txn = NoTxn, !.ops = <<>>]
    <2>1. next \in Process /\ next.pc = "scan" /\ Idle.pc = "idle"
        <3>1. proc[p] \in Process /\ <<>> \in Seq(Operation)
            BY DEF TypeOK
        <3>. QED
            BY <3>1 DEF Process, Idle
    <2>2. \/ proc' = [proc EXCEPT ![p] = next] /\ control' = control
          \/ proc' = [proc EXCEPT ![p] = Idle] /\ control' = NoProc
        BY <1>24 DEF RemoveDirectory
    <2>3. proc' \in [Procs -> Process] /\ Indices'
        BY <1>0, <2>1, <2>2, OneProcess DEF Writing, Undoing
    <2>. QED
        BY <1>24, <2>2, <2>3 DEF RemoveDirectory, TypeOK
<1>25. ASSUME NEW p \in Procs, CommitFault(p)
      PROVE  TypeOK' /\ Indices'
    <2>1. proc[p] \in Process /\ proc[p].txn \in Txns
        BY <1>25 DEF CommitFault, TypeOK, Indices, Writing
    <2>2. PICK ops : /\ \/ ops = proc[p].ops
                        \/ ops = [proc[p].ops EXCEPT ![proc[p].at].applied = TRUE]
                     /\ proc' = [proc EXCEPT ![p].pc = "undo", ![p].ops = ops]
        BY <1>25 DEF CommitFault
    <2>. DEFINE q == [proc[p] EXCEPT !.pc = "undo", !.ops = ops]
    <2>3. ops \in Seq(Operation)
        <3>1. proc[p].ops \in Seq(Operation) /\ TRUE \in BOOLEAN
            BY <2>1 DEF Process
        <3>2. [proc[p].ops EXCEPT ![proc[p].at].applied = TRUE] \in Seq(Operation)
            BY <3>1, AppliedUpdate
        <3>. QED
            BY <2>2, <3>1, <3>2
    <2>4. q \in Process
        BY <2>1, <2>3 DEF Process, Undoing
    <2>5. proc' = [proc EXCEPT ![p] = q]
        BY <2>2
    <2>6. proc' \in [Procs -> Process] /\ Indices'
        BY <2>1, <2>4, <2>5, OneProcess DEF Process
    <2>. QED
        BY <1>25, <2>1, <2>6, FsAssumption DEF CommitFault, TypeOK
<1>26. ASSUME NEW p \in Procs, StartRecovery(p)
      PROVE  TypeOK' /\ Indices'
    <2>. DEFINE q == [proc[p] EXCEPT !.pc = "scan", !.recovering = TRUE,
                                     !.todo = {t \in Txns : dir[t] = "present"}]
    <2>1. q \in Process /\ q.pc = "scan"
        BY DEF TypeOK, Process
    <2>2. proc' = [proc EXCEPT ![p] = q]
        BY <1>26 DEF StartRecovery
    <2>3. proc' \in [Procs -> Process] /\ Indices'
        BY <2>1, <2>2, OneProcess DEF Writing, Undoing
    <2>. QED
        BY <1>26, <2>3 DEF StartRecovery, TypeOK
<1>27. ASSUME NEW p \in Procs, NEW t \in Txns, LoadInactive(p, t)
      PROVE  TypeOK' /\ Indices'
    <2>. DEFINE q == [proc[p] EXCEPT !.pc = NextStep(journal[t].state), !.txn = t,
                                     !.ops = journal[t].ops, !.todo = proc[p].todo \ {t}]
    <2>1. proc[p] \in Process /\ journal[t].ops \in Seq(Operation)
        BY DEF TypeOK, Journal
    <2>2. NextStep(journal[t].state) \in {"cleanup", "undo"}
        BY DEF NextStep
    <2>3. q \in Process
        BY <2>1, <2>2 DEF Process, Undoing
    <2>4. proc' = [proc EXCEPT ![p] = q]
        BY <1>27 DEF LoadInactive
    <2>5. q.txn \in Txns /\ q.pc \in {"cleanup", "undo"}
        BY <2>1, <2>2 DEF Process
    <2>6. proc' \in [Procs -> Process] /\ Indices'
        BY <2>3, <2>4, <2>5, OneProcess
    <2>. QED
        BY <1>27, <2>6 DEF LoadInactive, TypeOK
<1>28. ASSUME UNCHANGED vars
      PROVE  TypeOK' /\ Indices'
    BY <1>28 DEF vars, TypeOK, Indices
<1>. QED
    BY StepCases, <1>1, <1>2, <1>3, <1>4, <1>5, <1>6, <1>7, <1>8, <1>9, <1>10, <1>11, <1>12,
       <1>13, <1>14, <1>15, <1>16, <1>17, <1>18, <1>19, <1>20, <1>21, <1>22, <1>23, <1>24,
       <1>25, <1>26, <1>27, <1>28 DEF PreviewEmpty

(* Every reachable state of targets, journals, locks and processes has its   *)
(* type, and no process ever addresses an operation that is not there.       *)
THEOREM TypeCorrect == Spec => [](TypeOK /\ Indices)
<1>1. Init => TypeOK /\ Indices
    BY FsAssumption DEF Init, TypeOK, Indices, Content, Idle, Process, NoJournal, Journal,
       Writing, Undoing
<1>. QED
    BY <1>1, TypePreserved, PTL DEF Spec

-----------------------------------------------------------------------------
(* Locks *)

\* Processes that have, or had until they failed, a transaction of their own.
Engaged == Writing \cup Undoing

\* The control lock is with the one process in a critical section; a directory's
\* owner lock with the process engaged in it, except while it is just created,
\* when its missing journal keeps recovery from engaging in it.
Locks ==
    /\ \A p \in Procs : control = p <=> proc[p].pc \in Critical
    /\ \A p \in Procs :
           proc[p].pc \in Engaged =>
               /\ dir[proc[p].txn] # "unused"
               /\ proc[p].pc # "created" => owner[proc[p].txn] = p
               /\ proc[p].pc = "created" =>
                      owner[proc[p].txn] = NoProc /\ journal[proc[p].txn] = NoJournal
    /\ \A p, q \in Procs :
           p # q /\ proc[p].pc \in Engaged /\ proc[q].pc \in Engaged => proc[p].txn # proc[q].txn
    /\ \A t \in Txns : dir[t] = "unused" => owner[t] = NoProc /\ journal[t] = NoJournal

(* A process that goes on with its transaction and takes or drops no lock. *)
LEMMA SameLocks ==
    ASSUME TypeOK, Indices, Locks, NEW p \in Procs,
           proc[p].pc \in Engaged \ {"created"}, proc'[p].pc \in Engaged \ {"created"},
           proc[p].pc \in Critical <=> proc'[p].pc \in Critical,
           proc'[p].txn = proc[p].txn,
           \A q \in Procs \ {p} : proc'[q] = proc[q],
           \A t \in Txns \ {proc[p].txn} : journal'[t] = journal[t],
           UNCHANGED <<dir, owner, control>>
    PROVE  Locks'
<1>1. \A q \in Procs : proc[q].pc \in Engaged => proc[q].txn \in Txns
    BY DEF Indices, Engaged
<1>2. \A q \in Procs \ {p} : proc[q].pc \in Engaged => proc[q].txn # proc[p].txn
    BY DEF Locks
<1>3. dir[proc[p].txn] # "unused"
    BY DEF Locks
<1>. QED
    BY <1>1, <1>2, <1>3 DEF Locks

\* Every step, kill and fault keeps the locks with those who hold them.
LEMMA LocksPreserved == TypeOK /\ Indices /\ Locks /\ [Next]_vars => Locks'
<1>. SUFFICES ASSUME TypeOK, Indices, Locks, [Next]_vars
              PROVE  Locks'
    OBVIOUS
<1>. USE DEF Engaged, Writing, Undoing, Critical
<1>0. proc \in [Procs -> Process] /\ journal \in [Txns -> Journal] /\ dir \in [Txns -> {"unused", "present", "gone"}]
      /\ owner \in [Txns -> Procs \cup {NoProc}] /\ NoProc \notin Procs
    BY FsAssumption DEF TypeOK
<1>i. \A q \in Procs : proc[q].pc \in Engaged => proc[q].txn \in Txns
    BY DEF Indices
<1>1. ASSUME NEW p \in Procs, NEW f \in Files, NEW new \in {proc[p].txn, Absent}, Stage(p, f, new)
      PROVE  Locks'
    BY <1>0, <1>1, SameLocks DEF Stage, Persist
<1>2. ASSUME NEW p \in Procs, PersistStaging(p)
      PROVE  Locks'
    BY <1>0, <1>2, SameLocks DEF PersistStaging, Persist
<1>3. ASSUME NEW p \in Procs, PersistCommitting(p)
      PROVE  Locks'
    BY <1>0, <1>3, SameLocks DEF PersistCommitting, Persist
<1>4. ASSUME NEW p \in Procs, KeepBackup(p)
      PROVE  Locks'
    BY <1>0, <1>4, SameLocks DEF KeepBackup, Persist
<1>5. ASSUME NEW p \in Procs, PersistIntent(p)
      PROVE  Locks'
    BY <1>0, <1>5, SameLocks DEF PersistIntent, Persist
<1>6. ASSUME NEW p \in Procs, ChangeTarget(p)
      PROVE  Locks'
    BY <1>0, <1>6, SameLocks DEF ChangeTarget
<1>7. ASSUME NEW p \in Procs, PersistCommitted(p)
      PROVE  Locks'
    BY <1>0, <1>7, SameLocks DEF PersistCommitted, Persist
<1>8. ASSUME NEW p \in Procs, SyncRoot(p)
      PROVE  Locks'
    BY <1>0, <1>8, SameLocks DEF SyncRoot
<1>9. ASSUME NEW p \in Procs, Restore(p)
      PROVE  Locks'
    BY <1>0, <1>9, SameLocks DEF Restore
<1>10. ASSUME NEW p \in Procs, PersistRollingBack(p)
      PROVE  Locks'
    BY <1>0, <1>10, SameLocks DEF PersistRollingBack, Persist
<1>11. ASSUME NEW p \in Procs, PersistRolledBack(p)
      PROVE  Locks'
    BY <1>0, <1>11, SameLocks DEF PersistRolledBack, Persist
<1>12. ASSUME NEW p \in Procs, RemoveJournal(p)
      PROVE  Locks'
    BY <1>0, <1>12, SameLocks DEF RemoveJournal
<1>13. ASSUME NEW p \in Procs, CommitFault(p)
      PROVE  Locks'
    BY <1>0, <1>13, SameLocks DEF CommitFault
<1>14. ASSUME NEW p \in Procs, NEW t \in Txns, MakeDirectory(p, t)
      PROVE  Locks'
    BY <1>0, <1>i, <1>14 DEF MakeDirectory, Locks, Idle
<1>15. ASSUME NEW p \in Procs, TakeOwnerLock(p)
      PROVE  Locks'
    BY <1>0, <1>i, <1>15 DEF TakeOwnerLock, Locks, Idle
<1>16. ASSUME NEW p \in Procs, LockControl(p)
      PROVE  Locks'
    BY <1>0, <1>i, <1>16 DEF LockControl, ControlFree, Locks, Idle
<1>17. ASSUME NEW p \in Procs, RemoveDirectory(p)
      PROVE  Locks'
    <2>1. \A q \in Procs \ {p} : proc'[q] = proc[q]
        BY <1>0, <1>17 DEF RemoveDirectory
    <2>2. \/ proc'[p].pc = "scan" /\ control' = control
          \/ proc'[p].pc = "idle" /\ control' = NoProc
        <3>1. CASE proc[p].recovering
            <4>1. proc'[p] = [proc[p] EXCEPT !.pc = "scan", !.txn = NoTxn, !.ops = <<>>]
                BY <1>0, <1>17, <3>1 DEF RemoveDirectory
            <4>2. proc'[p].pc = "scan"
                BY <1>0, <4>1 DEF Process
            <4>. QED
                BY <1>17, <3>1, <4>2 DEF RemoveDirectory
        <3>2. CASE ~ proc[p].recovering
            BY <1>0, <1>17, <3>2 DEF RemoveDirectory, Idle
        <3>. QED
            BY <3>1, <3>2
    <2>3. control = p /\ proc[p].txn \in Txns
        BY <1>i, <1>17 DEF RemoveDirectory, Locks
    <2>4. /\ dir' = [dir EXCEPT ![proc[p].txn] = "gone"]
          /\ owner' = [owner EXCEPT ![proc[p].txn] = NoProc]
          /\ journal' = journal /\ proc[p].pc \in Engaged
        BY <1>17 DEF RemoveDirectory
    <2>5. \A q \in Procs \ {p} : proc[q].pc \in Engaged => proc[q].txn # proc[p].txn /\ proc[q].txn \in Txns
        BY <1>i, <2>4 DEF Locks
    <2>6. \A q \in Procs : control' = q <=> proc'[q].pc \in Critical
        BY <1>0, <2>1, <2>2, <2>3 DEF Locks
    <2>7. \A q \in Procs : proc'[q].pc \in Engaged => q # p
        BY <2>2
    <2>. QED
        BY <1>0, <2>1, <2>3, <2>4, <2>5, <2>6, <2>7 DEF Locks
<1>18. ASSUME NEW p \in Procs, UndoFault(p)
      PROVE  Locks'
    BY <1>0, <1>i, <1>18 DEF UndoFault, Locks, Idle
<1>19. ASSUME NEW p \in Procs, Preview(p)
      PROVE  Locks'
    BY <1>0, <1>i, <1>19 DEF Preview, Locks, Idle
<1>20. ASSUME NEW p \in Procs, NEW t \in Txns, PreviewRefused(p, t)
      PROVE  Locks'
    BY <1>0, <1>i, <1>20 DEF PreviewRefused, Locks, Idle
<1>21. ASSUME NEW p \in Procs, NEW t \in Txns, SkipActive(p, t)
      PROVE  Locks'
    BY <1>0, <1>i, <1>21 DEF SkipActive, Locks, Idle
<1>22. ASSUME NEW p \in Procs, NEW t \in Txns, LoadInactive(p, t)
      PROVE  Locks'
    <2>1. \A q \in Procs \ {p} : proc'[q] = proc[q]
        BY <1>0, <1>22 DEF LoadInactive
    <2>2. proc'[p].pc \in {"cleanup", "undo"} /\ proc'[p].txn = t
        BY <1>0, <1>22 DEF LoadInactive, NextStep, Process
    <2>3. /\ owner' = [owner EXCEPT ![t] = p]
          /\ UNCHANGED <<dir, journal, control>>
          /\ owner[t] = NoProc /\ dir[t] = "present" /\ journal[t] # NoJournal
        BY <1>22 DEF LoadInactive, Inactive, Present, Readable, NoJournal
    <2>4. \A q \in Procs \ {p} : proc[q].pc \in Engaged => proc[q].txn # t
        BY <1>0, <2>3 DEF Locks
    <2>5. \A q \in Procs : control' = q <=> proc'[q].pc \in Critical
        BY <1>0, <1>22, <2>1, <2>2, <2>3 DEF LoadInactive, Locks
    <2>. QED
        BY <1>0, <1>i, <2>1, <2>2, <2>3, <2>4, <2>5 DEF Locks
<1>23. ASSUME NEW p \in Procs, NEW t \in Txns, LoadRefused(p, t)
      PROVE  Locks'
    BY <1>0, <1>i, <1>23 DEF LoadRefused, Inactive, Present, Readable, NextStep, NoJournal, Locks, Idle
<1>24. ASSUME NEW p \in Procs, EndRecovery(p)
      PROVE  Locks'
    BY <1>0, <1>i, <1>24 DEF EndRecovery, Locks, Idle
<1>25. ASSUME NEW p \in Procs, StartRecovery(p)
      PROVE  Locks'
    BY <1>0, <1>i, <1>25 DEF StartRecovery, ControlFree, Locks, Idle
<1>26. ASSUME NEW p \in Procs, Crash(p)
      PROVE  Locks'
    BY <1>0, <1>i, <1>26 DEF Crash, Released, Locks, Idle
<1>27. ASSUME NEW p \in Procs, Exit(p)
      PROVE  Locks'
    BY <1>0, <1>i, <1>27 DEF Exit, Released, Locks, Idle
<1>28. ASSUME UNCHANGED vars
      PROVE  Locks'
    BY <1>28 DEF vars, Locks
<1>. QED
    BY StepCases, <1>1, <1>2, <1>3, <1>4, <1>5, <1>6, <1>7, <1>8, <1>9, <1>10, <1>11, <1>12, <1>13, <1>14, <1>15, <1>16, <1>17, <1>18, <1>19, <1>20, <1>21, <1>22, <1>23, <1>24, <1>25, <1>26, <1>27, <1>28 DEF PreviewEmpty

(* At most one process commits or recovers, and none works on the transaction *)
(* of another: the locks do what OneWorker asks, whoever is killed when.     *)
THEOREM OneAtATime == Spec => []OneWorker
<1>1. Init => Locks
    BY FsAssumption DEF Init, Locks, Engaged, Writing, Undoing, Critical, Idle
<1>2. TypeOK /\ Indices /\ Locks => OneWorker
    BY FsAssumption DEF Locks, OneWorker, Engaged
<1>. QED
    BY <1>1, <1>2, TypeCorrect, LocksPreserved, PTL DEF Spec

-----------------------------------------------------------------------------
(* What journals, processes and files have to do with each other *)

\* What is exempt stays so.
Grows == withdrawn \subseteq withdrawn' /\ Lost \subseteq Lost'

(* Only a commit that begins, and one that fails when it is durable, exempt   *)
(* anything.                                                                 *)
LEMMA SameLost ==
    ASSUME UNCHANGED <<staged, exempt>>
    PROVE  Lost' = Lost /\ Grows
BY DEF Lost, Grows, exempt

(* A withdrawn transaction answers for none of its files. *)
LEMMA WithdrawnLost ==
    ASSUME NEW t \in withdrawn
    PROVE  DOMAIN staged[t] \subseteq Lost
BY DEF Lost

\* What the journal of a transaction says holds wherever its process dies: the
\* operations are on files of their own, and a file that is in doubt holds what
\* it held before or what it shall hold.
JournalSays(t) ==
    /\ \A i, j \in DOMAIN journal[t].ops : journal[t].ops[i].file = journal[t].ops[j].file => i = j
    /\ \A i \in DOMAIN journal[t].ops : journal[t].ops[i].new \in {t, Absent}
    /\ \A i \in DOMAIN journal[t].ops : journal[t].ops[i].file \in DOMAIN staged[t]
    /\ t \notin withdrawn /\ journal[t].state \notin {"unreadable", "committed"} => fate[t] # "committed"
    /\ dir[t] = "unused" => fate[t] = "open" /\ DOMAIN staged[t] = {}
    /\ \A i \in InDoubt(t) :
           journal[t].ops[i].file \notin Lost =>
               target[journal[t].ops[i].file] \in {journal[t].ops[i].new, Before(journal[t].ops[i])}

\* No file is to be put back by two transactions.
Unconflicted ==
    \A t \in Txns : \A i \in InDoubt(t) :
        journal[t].ops[i].file \notin Lost => Unclaimed(t, journal[t].ops[i].file)

\* A transaction that has no journal yet.
Begins(p, t) ==
    /\ proc[p].ops = <<>> /\ proc[p].at = 0
    /\ journal[t] = NoJournal
    /\ fate[t] = "open" /\ DOMAIN staged[t] = {}

\* On the way to its commit a process has the operations of the journal, and up to
\* the one it is at they have been applied to the files.
Commits(p, t, ops) ==
    /\ fate[t] = "open"
    /\ journal[t].ops = ops
    /\ journal[t].state \in {"staging", "committing"}
    /\ DOMAIN staged[t] = {ops[i].file : i \in DOMAIN ops}
    /\ \A i \in DOMAIN ops : staged[t][ops[i].file] = ops[i].new
    /\ proc[p].pc \in {"staging", "locked"} => proc[p].at = 0
    /\ \A i \in DOMAIN ops :
           /\ ops[i].applied <=> i < proc[p].at \/ (proc[p].pc = "change" /\ i = proc[p].at)
           /\ ops[i].file \notin Lost =>
                  /\ proc[p].pc # "staging" => Unclaimed(t, ops[i].file)
                  /\ i < proc[p].at => target[ops[i].file] = ops[i].new
                  /\ proc[p].pc = "intent" /\ i = proc[p].at => target[ops[i].file] = Before(ops[i])

\* In a rollback the process may hold an operation for applied which the journal
\* does not: one whose intent was never written, whose file is as it was.
Undoes(p, t, ops) ==
    /\ t \notin withdrawn => fate[t] # "committed" /\ journal[t].state # "committed"
    /\ journal[t].state # "unreadable"
    /\ Len(ops) = Len(journal[t].ops)
    /\ \A i \in DOMAIN ops :
           /\ ops[i].file = journal[t].ops[i].file
           /\ ops[i].new = journal[t].ops[i].new
           /\ ops[i].backup = journal[t].ops[i].backup
           /\ journal[t].ops[i].applied => ops[i].applied
           /\ ops[i].applied /\ ops[i].file \notin Lost =>
                  /\ Unclaimed(t, ops[i].file)
                  /\ ~ journal[t].ops[i].applied => target[ops[i].file] = Before(ops[i])
    /\ proc[p].pc = "restored" =>
           /\ Applied(ops) # {}
           /\ \A i \in DOMAIN ops : i = LastApplied(ops) /\ ops[i].file \notin Lost =>
                  target[ops[i].file] = Before(ops[i])

\* What a process relies on at each point of commit, rollback and recovery.
ProcessKnows(p) ==
    /\ proc[p].pc = "idle" => proc[p] = Idle
    /\ proc[p].pc \in Engaged => dir[proc[p].txn] = "present"
    /\ proc[p].pc \in {"created", "owned"} => Begins(p, proc[p].txn)
    /\ proc[p].pc \in {"staging", "locked", "apply", "intent", "change"} =>
           Commits(p, proc[p].txn, proc[p].ops)
    /\ proc[p].pc = "durable" => /\ journal[proc[p].txn].state = "committed"
                                 /\ journal[proc[p].txn].ops = proc[p].ops
    /\ proc[p].pc \in {"undo", "restored"} => Undoes(p, proc[p].txn, proc[p].ops)
    /\ proc[p].pc = "cleanup" => InDoubt(proc[p].txn) = {}
    /\ proc[p].pc = "cleaning" => journal[proc[p].txn] = NoJournal

Truth ==
    /\ DOMAIN staged = Txns
    /\ \A t \in Txns : JournalSays(t)
    /\ Unconflicted
    /\ \A p \in Procs : ProcessKnows(p)

(* Of a step that takes no operation into doubt nor out of it, and changes no  *)
(* file, the other processes notice nothing.                                 *)
LEMMA QuietStep ==
    ASSUME TypeOK, Indices, Truth, NEW p \in Procs, NEW T \in SUBSET Txns,
           \A q \in Procs \ {p} :
               proc'[q] = proc[q] /\ (proc[q].pc \in Engaged => proc[q].txn \notin T),
           \A t \in Txns \ T : /\ journal'[t] = journal[t] /\ dir'[t] = dir[t]
                               /\ fate'[t] = fate[t] /\ staged'[t] = staged[t],
           \A t \in T : /\ InDoubt(t)' = InDoubt(t)
                        /\ \A i \in InDoubt(t) : journal'[t].ops[i] = journal[t].ops[i],
           target' = target, Grows
    PROVE  /\ \A t \in Txns : \A f : Unclaimed(t, f)' <=> Unclaimed(t, f)
           /\ \A t \in Txns : InDoubt(t)' = InDoubt(t)
           /\ \A t \in Txns : \A i \in InDoubt(t) : journal'[t].ops[i] = journal[t].ops[i]
           /\ \A q \in Procs \ {p} : ProcessKnows(q)'
           /\ \A t \in Txns \ T : JournalSays(t)'
           /\ Unconflicted'
<1>. USE DEF Grows
<1>1. \A t \in Txns \ T : InDoubt(t)' = InDoubt(t)
    BY DEF InDoubt, Present, Applied
<1>2. \A t \in Txns : InDoubt(t)' = InDoubt(t)
    BY <1>1
<1>3. \A t \in Txns : \A i \in InDoubt(t) : journal'[t].ops[i] = journal[t].ops[i]
    OBVIOUS
<1>4. \A t \in Txns : \A f : Unclaimed(t, f)' <=> Unclaimed(t, f)
    BY <1>2, <1>3 DEF Unclaimed
<1>5. Unconflicted'
    <2>1. Unconflicted
        BY DEF Truth
    <2>. QED
        BY <1>2, <1>3, <1>4, <2>1 DEF Unconflicted
<1>6. ASSUME NEW t \in Txns \ T
      PROVE  JournalSays(t)'
    <2>1. JournalSays(t)
        BY DEF Truth
    <2>. QED
        BY <1>2, <1>6, <2>1 DEF JournalSays, Before
<1>7. ASSUME NEW q \in Procs \ {p}
      PROVE  ProcessKnows(q)'
    <2>1. ProcessKnows(q) /\ proc'[q] = proc[q]
        BY <1>7 DEF Truth
    <2>2. CASE proc[q].pc \notin Engaged
        BY <2>1, <2>2 DEF ProcessKnows, Engaged, Writing, Undoing
    <2>3. CASE proc[q].pc \in Engaged
        <3>1. PICK t \in Txns \ T : proc[q].txn = t
            BY <2>3 DEF Indices, Engaged
        <3>2. /\ journal'[t] = journal[t] /\ dir'[t] = dir[t]
              /\ fate'[t] = fate[t] /\ staged'[t] = staged[t] /\ target' = target
            BY <3>1
        <3>3. Begins(q, t) => Begins(q, t)'
            BY <2>1, <3>2 DEF Begins
        <3>4. Commits(q, t, proc[q].ops) => Commits(q, t, proc[q].ops)'
            BY <1>4, <2>1, <3>2 DEF Commits, Before
        <3>5. Undoes(q, t, proc[q].ops) => Undoes(q, t, proc[q].ops)'
            <4>1. PICK ops : ops = proc[q].ops /\ ops = proc'[q].ops
                BY <2>1
            <4>2. Undoes(q, t, ops) => Undoes(q, t, ops)'
                BY <1>4, <2>1, <3>2 DEF Undoes, Before
            <4>3. Undoes(q, t, proc[q].ops)' <=> Undoes(q, t, ops)'
                BY <4>1 DEF Undoes
            <4>. QED
                BY <4>1, <4>2, <4>3
        <3>. QED
            BY <1>2, <2>1, <2>3, <3>1, <3>2, <3>3, <3>4, <3>5 DEF ProcessKnows
    <2>. QED
        BY <2>2, <2>3
<1>. QED
    BY <1>2, <1>3, <1>4, <1>5, <1>6, <1>7

(* While a process is in its critical section, what the others rely on is of  *)
(* their own: neither its files nor its journal matter to them.              *)
LEMMA CriticalStep ==
    ASSUME TypeOK, Indices, Locks, Truth, NEW p \in Procs, NEW t \in Txns,
           proc[p].pc \in Critical \cap Engaged, proc[p].txn = t,
           \A q \in Procs \ {p} : proc'[q] = proc[q],
           \A u \in Txns \ {t} : /\ journal'[u] = journal[u] /\ dir'[u] = dir[u]
                                 /\ fate'[u] = fate[u] /\ staged'[u] = staged[u],
           Grows
    PROVE  /\ \A q \in Procs \ {p} : ProcessKnows(q)'
           /\ \A u \in Txns \ {t} : InDoubt(u)' = InDoubt(u)
<1>. USE DEF Grows
<1>1. \A u \in Txns \ {t} : InDoubt(u)' = InDoubt(u)
    BY DEF InDoubt, Present, Applied
<1>2. ASSUME NEW q \in Procs \ {p}
      PROVE  ProcessKnows(q)'
    <2>1. /\ ProcessKnows(q) /\ proc'[q] = proc[q]
          /\ proc[q].pc \notin Critical
          /\ proc[q].pc \in Engaged => proc[q].txn # t
        BY <1>2 DEF Truth, Locks
    <2>2. CASE proc[q].pc \notin Engaged
        BY <2>1, <2>2 DEF ProcessKnows, Engaged, Writing, Undoing
    <2>3. CASE proc[q].pc \in Engaged
        <3>1. PICK u \in Txns \ {t} : proc[q].txn = u
            BY <2>1, <2>3 DEF Indices, Engaged
        <3>2. /\ journal'[u] = journal[u] /\ dir'[u] = dir[u]
              /\ fate'[u] = fate[u] /\ staged'[u] = staged[u]
            BY <3>1
        <3>3. Begins(q, u) => Begins(q, u)'
            BY <2>1, <3>2 DEF Begins
        <3>4. proc[q].pc = "staging" /\ Commits(q, u, proc[q].ops) => Commits(q, u, proc[q].ops)'
            <4>. SUFFICES ASSUME proc[q].pc = "staging", Commits(q, u, proc[q].ops)
                          PROVE  Commits(q, u, proc[q].ops)'
                OBVIOUS
            <4>1. proc[q].at = 0 /\ proc[q].ops \in Seq(Operation)
                BY DEF Commits, TypeOK, Process
            <4>2. \A i \in DOMAIN proc[q].ops : ~ (i < 0)
                BY <4>1
            <4>. QED
                BY <2>1, <3>2, <4>1, <4>2 DEF Commits
        <3>. QED
            BY <2>1, <2>3, <3>1, <3>2, <3>3, <3>4 DEF ProcessKnows, Critical
    <2>. QED
        BY <2>2, <2>3
<1>. QED
    BY <1>1, <1>2

\* A step after which a recovery would find every file as it would have before.
SameView ==
    /\ target' = target
    /\ \A t \in Txns : /\ InDoubt(t)' = InDoubt(t)
                       /\ \A i \in InDoubt(t) : journal'[t].ops[i] = journal[t].ops[i]

(* A step that changes one process, locks and counters only. *)
LEMMA LocalStep ==
    ASSUME TypeOK, Indices, Truth, NEW p \in Procs,
           \A q \in Procs \ {p} : proc'[q] = proc[q],
           UNCHANGED <<target, dir, journal, staged, fate>>, Grows,
           ProcessKnows(p)'
    PROVE  Truth' /\ SameView
<1>1. /\ \A t \in Txns : InDoubt(t)' = InDoubt(t)
      /\ \A t \in Txns : \A i \in InDoubt(t) : journal'[t].ops[i] = journal[t].ops[i]
      /\ \A q \in Procs \ {p} : ProcessKnows(q)'
      /\ \A t \in Txns \ {} : JournalSays(t)'
      /\ Unconflicted'
    <2>1. {} \in SUBSET Txns
        OBVIOUS
    <2>. QED
        BY <2>1, QuietStep
<1>2. DOMAIN staged' = Txns
    BY DEF Truth
<1>. QED
    BY <1>1, <1>2 DEF Truth, SameView

(* The same for a step that journals something of one transaction. *)
LEMMA QuietTxn ==
    ASSUME TypeOK, Indices, Truth, NEW p \in Procs, NEW t \in Txns,
           \A q \in Procs \ {p} :
               proc'[q] = proc[q] /\ (proc[q].pc \in Engaged => proc[q].txn # t),
           \A u \in Txns \ {t} : /\ journal'[u] = journal[u] /\ dir'[u] = dir[u]
                                 /\ fate'[u] = fate[u] /\ staged'[u] = staged[u],
           InDoubt(t)' = InDoubt(t),
           \A i \in InDoubt(t) : journal'[t].ops[i] = journal[t].ops[i],
           target' = target, DOMAIN staged' = Txns, Grows
    PROVE  /\ \A u \in Txns : \A f : Unclaimed(u, f)' <=> Unclaimed(u, f)
           /\ JournalSays(t)' /\ ProcessKnows(p)' => Truth' /\ SameView
<1>. DEFINE T == {t}
<1>1. T \in SUBSET Txns
    OBVIOUS
<1>2. \A q \in Procs \ {p} :
          proc'[q] = proc[q] /\ (proc[q].pc \in Engaged => proc[q].txn \notin T)
    OBVIOUS
<1>3. \A u \in Txns \ T : /\ journal'[u] = journal[u] /\ dir'[u] = dir[u]
                          /\ fate'[u] = fate[u] /\ staged'[u] = staged[u]
    OBVIOUS
<1>4. \A u \in T : /\ InDoubt(u)' = InDoubt(u)
                   /\ \A i \in InDoubt(u) : journal'[u].ops[i] = journal[u].ops[i]
    OBVIOUS
<1>5. \A u \in Txns : u \in T \/ u \in Txns \ T
    OBVIOUS
<1>6. \A u \in T : JournalSays(t)' => JournalSays(u)'
    OBVIOUS
<1>7. /\ \A u \in Txns : \A f : Unclaimed(u, f)' <=> Unclaimed(u, f)
      /\ \A u \in Txns : InDoubt(u)' = InDoubt(u)
      /\ \A u \in Txns : \A i \in InDoubt(u) : journal'[u].ops[i] = journal[u].ops[i]
      /\ \A q \in Procs \ {p} : ProcessKnows(q)'
      /\ \A u \in Txns \ T : JournalSays(u)'
      /\ Unconflicted'
    <2>. HIDE DEF T
    <2>. QED
        BY <1>1, <1>2, <1>3, <1>4, QuietStep
<1>. QED
    BY <1>5, <1>6, <1>7 DEF Truth, SameView

(* What is unchanged is in doubt as it was. *)
LEMMA DoubtUnchanged ==
    ASSUME UNCHANGED <<dir, journal>>
    PROVE  /\ \A t : InDoubt(t)' = InDoubt(t)
           /\ \A t, f : Unclaimed(t, f)' <=> Unclaimed(t, f)
<1>1. \A t : InDoubt(t)' = InDoubt(t)
    BY DEF InDoubt, Present, Applied
<1>. QED
    BY <1>1 DEF Unclaimed

\* A directory that is made has no journal and nothing staged.
LEMMA MakeDirectoryKeeps ==
    ASSUME TypeOK, Indices, Locks, Truth, NEW p \in Procs, NEW t \in Txns, MakeDirectory(p, t)
    PROVE  Truth' /\ SameView
<1>. USE DEF Engaged, Writing, Undoing
<1>. USE DEF Grows
<1>g. Lost' = Lost /\ Grows
    BY SameLost DEF MakeDirectory
<1>1. /\ proc \in [Procs -> Process] /\ dir \in [Txns -> {"unused", "present", "gone"}]
      /\ JournalSays(t) /\ ProcessKnows(p) /\ DOMAIN staged = Txns
    BY DEF TypeOK, Truth
<1>2. /\ dir' = [dir EXCEPT ![t] = "present"] /\ dir[t] = "unused" /\ proc[p].pc = "idle"
      /\ proc' = [proc EXCEPT ![p].pc = "created", ![p].txn = t]
      /\ UNCHANGED <<target, journal, staged, fate>>
    BY DEF MakeDirectory
<1>3. /\ journal[t] = NoJournal /\ InDoubt(t) = {} /\ InDoubt(t)' = {}
      /\ \A q \in Procs : proc[q].pc \in Engaged => proc[q].txn # t
    <2>1. journal[t] = NoJournal /\ \A q \in Procs : proc[q].pc \in Engaged => proc[q].txn # t
        BY <1>2 DEF Locks
    <2>2. journal'[t] = NoJournal
        BY <1>2, <2>1
    <2>. QED
        BY <2>1, <2>2 DEF InDoubt, NoJournal, Applied
<1>4. JournalSays(t)' /\ ProcessKnows(p)' => Truth' /\ SameView
    <2>1. \A q \in Procs \ {p} : proc'[q] = proc[q] /\ (proc[q].pc \in Engaged => proc[q].txn # t)
        BY <1>1, <1>2, <1>3
    <2>2. \A u \in Txns \ {t} : dir'[u] = dir[u]
        BY <1>1, <1>2
    <2>. QED
        BY <1>g, <1>1, <1>2, <1>3, <2>1, <2>2, QuietTxn
<1>5. JournalSays(t)'
    BY <1>g, <1>1, <1>2, <1>3 DEF JournalSays, NoJournal
<1>6. ProcessKnows(p)'
    <2>1. /\ proc'[p].pc = "created" /\ proc'[p].txn = t
          /\ proc'[p].ops = <<>> /\ proc'[p].at = 0
        BY <1>1, <1>2 DEF ProcessKnows, Idle
    <2>2. Begins(p, t)'
        BY <1>1, <1>2, <1>3, <2>1 DEF Begins, JournalSays
    <2>3. dir'[t] = "present"
        BY <1>1, <1>2
    <2>. QED
        BY <2>1, <2>2, <2>3 DEF ProcessKnows
<1>. QED
    BY <1>4, <1>5, <1>6

\* The owner lock is taken before anything is journalled.
LEMMA TakeOwnerLockKeeps ==
    ASSUME TypeOK, Indices, Locks, Truth, NEW p \in Procs, TakeOwnerLock(p)
    PROVE  Truth' /\ SameView
<1>. USE DEF Grows
<1>g. Lost' = Lost /\ Grows
    BY SameLost DEF TakeOwnerLock
<1>1. proc \in [Procs -> Process] /\ ProcessKnows(p)
    BY DEF TypeOK, Truth
<1>2. /\ proc[p].pc = "created" /\ proc' = [proc EXCEPT ![p].pc = "owned"]
      /\ UNCHANGED <<target, dir, journal, staged, fate>>
    BY DEF TakeOwnerLock
<1>3. /\ proc'[p].pc = "owned" /\ proc'[p].txn = proc[p].txn
      /\ proc'[p].ops = proc[p].ops /\ proc'[p].at = proc[p].at
    BY <1>1, <1>2 DEF Process
<1>4. ProcessKnows(p)'
    BY <1>1, <1>2, <1>3 DEF ProcessKnows, Begins, Engaged, Writing
<1>. QED
    BY <1>g, <1>1, <1>2, <1>4, LocalStep

\* Of an empty journal nothing is in doubt.
LEMMA PersistStagingKeeps ==
    ASSUME TypeOK, Indices, Locks, Truth, NEW p \in Procs, PersistStaging(p)
    PROVE  Truth' /\ SameView
<1>. USE DEF Grows
<1>g. Lost' = Lost /\ Grows
    BY SameLost DEF PersistStaging
<1>1. /\ proc \in [Procs -> Process] /\ journal \in [Txns -> Journal]
      /\ DOMAIN staged = Txns /\ ProcessKnows(p)
    BY DEF TypeOK, Truth
<1>2. PICK t \in Txns :
         /\ t = proc[p].txn
         /\ proc[p].pc = "owned" /\ proc' = [proc EXCEPT ![p].pc = "staging"]
         /\ journal' = [journal EXCEPT ![t] = [state |-> "staging", ops |-> <<>>]]
         /\ UNCHANGED <<target, dir, staged, fate>>
    BY DEF PersistStaging, Persist, Indices, Writing
<1>3. JournalSays(t) /\ Begins(p, t) /\ dir[t] = "present"
      /\ \A q \in Procs \ {p} : proc[q].pc \in Engaged => proc[q].txn # t
    BY <1>1, <1>2 DEF Truth, ProcessKnows, Locks, Engaged, Writing
<1>4. InDoubt(t) = {} /\ InDoubt(t)' = {}
    <2>1. journal[t].ops = <<>> /\ journal'[t].ops = <<>>
        BY <1>1, <1>2, <1>3 DEF Begins, NoJournal
    <2>. QED
        BY <2>1 DEF InDoubt, Applied
<1>5. JournalSays(t)' /\ ProcessKnows(p)' => Truth' /\ SameView
    <2>1. \A q \in Procs \ {p} : proc'[q] = proc[q] /\ (proc[q].pc \in Engaged => proc[q].txn # t)
        BY <1>1, <1>2, <1>3
    <2>2. \A u \in Txns \ {t} : journal'[u] = journal[u]
        BY <1>1, <1>2
    <2>. QED
        BY <1>g, <1>1, <1>2, <1>4, <2>1, <2>2, QuietTxn
<1>6. journal'[t].ops = <<>> /\ journal'[t].state = "staging"
    BY <1>1, <1>2
<1>7. JournalSays(t)'
    BY <1>g, <1>2, <1>3, <1>4, <1>6 DEF JournalSays, Begins
<1>8. ProcessKnows(p)'
    <2>1. /\ proc'[p].pc = "staging" /\ proc'[p].txn = t
          /\ proc'[p].ops = <<>> /\ proc'[p].at = 0
        BY <1>1, <1>2, <1>3 DEF Process, Begins
    <2>2. Commits(p, t, <<>>)'
        BY <1>g, <1>2, <1>3, <1>6, <2>1 DEF Commits, Begins
    <2>. QED
        BY <1>2, <1>3, <2>1, <2>2 DEF ProcessKnows
<1>. QED
    BY <1>5, <1>7, <1>8

(* The transaction a process is engaged in is its own. *)
LEMMA OwnTransaction ==
    ASSUME TypeOK, Indices, Locks, Truth, NEW p \in Procs, proc[p].pc \in Engaged
    PROVE  \E t \in Txns :
               /\ t = proc[p].txn /\ JournalSays(t) /\ dir[t] = "present"
               /\ \A q \in Procs \ {p} : proc[q].pc \in Engaged => proc[q].txn # t
               /\ journal[t] \in Journal /\ proc[p] \in Process
               /\ proc[p].ops \in Seq(Operation) /\ journal[t].ops \in Seq(Operation)
BY DEF TypeOK, Indices, Locks, Truth, ProcessKnows, Engaged, Journal, Process

(* Staging exempts at most what its transaction stages. *)
LEMMA StageGrows ==
    ASSUME TypeOK, Indices, DOMAIN staged = Txns, NEW p \in Procs, NEW f \in Files,
           NEW new \in {proc[p].txn, Absent}, Stage(p, f, new)
    PROVE  Grows
<1>1. PICK t \in Txns : t = proc[p].txn
    BY DEF Stage, Indices, Writing
<1>2. staged' = [staged EXCEPT ![t] = [g \in DOMAIN @ \cup {f} |-> IF g = f THEN new ELSE @[g]]]
    BY <1>1 DEF Stage
<1>3. staged'[t] = [g \in DOMAIN staged[t] \cup {f} |-> IF g = f THEN new ELSE staged[t][g]]
    BY <1>2
<1>4. DOMAIN staged[t] \subseteq DOMAIN staged'[t]
    BY <1>3
<1>5. \A u \in Txns : DOMAIN staged[u] \subseteq DOMAIN staged'[u]
    BY <1>2, <1>4
<1>6. overlapped' = overlapped /\ withdrawn' = withdrawn /\ withdrawn \subseteq Txns
    BY DEF Stage, exempt, TypeOK
<1>7. ASSUME NEW g \in Lost PROVE g \in Lost'
    <2>1. CASE g \in overlapped
        BY <1>6, <2>1 DEF Lost
    <2>2. CASE \E u \in withdrawn : g \in DOMAIN staged[u]
        <3>1. PICK u \in withdrawn : g \in DOMAIN staged[u]
            BY <2>2
        <3>2. g \in DOMAIN staged'[u]
            BY <1>5, <1>6, <3>1
        <3>. QED
            BY <1>6, <3>1, <3>2 DEF Lost
    <2>. QED
        BY <1>7, <2>1, <2>2 DEF Lost
<1>. QED
    BY <1>6, <1>7 DEF Grows

\* What is staged joins the journal and is not in doubt.
LEMMA StageKeeps ==
    ASSUME TypeOK, Indices, Locks, Truth, NEW p \in Procs, NEW f \in Files,
           NEW new \in {proc[p].txn, Absent}, Stage(p, f, new)
    PROVE  Truth' /\ SameView
<1>. USE DEF Grows
<1>1. /\ proc \in [Procs -> Process] /\ journal \in [Txns -> Journal]
      /\ DOMAIN staged = Txns /\ ProcessKnows(p) /\ proc[p].pc = "staging"
    BY DEF TypeOK, Truth, Stage
<1>2. PICK t \in Txns :
         /\ t = proc[p].txn /\ JournalSays(t) /\ dir[t] = "present"
         /\ \A q \in Procs \ {p} : proc[q].pc \in Engaged => proc[q].txn # t
         /\ proc[p].ops \in Seq(Operation)
    BY <1>1, OwnTransaction DEF Engaged, Writing
<1>3. PICK old \in Seq(Operation) : old = proc[p].ops
    BY <1>2
<1>4. Commits(p, t, old) /\ journal[t].ops = old /\ proc[p].at = 0
    BY <1>1, <1>2, <1>3 DEF ProcessKnows, Commits
<1>5. PICK op \in Operation : op = [file |-> f, new |-> new, applied |-> FALSE, backup |-> NoBackup]
    BY <1>2 DEF Operation, Content
<1>6. PICK ops \in Seq(Operation) : ops = Append(old, op)
    <2>1. Append(old, op) \in Seq(Operation)
        OBVIOUS
    <2>. QED
        BY <2>1
<1>7. /\ proc' = [proc EXCEPT ![p].ops = ops]
      /\ journal' = [journal EXCEPT ![t] = [state |-> "staging", ops |-> ops]]
      /\ staged' = [staged EXCEPT ![t] =
                       [g \in DOMAIN @ \cup {f} |-> IF g = f THEN new ELSE @[g]]]
      /\ UNCHANGED <<target, dir, fate>>
      /\ \A i \in DOMAIN old : old[i].file # f
    BY <1>2, <1>3, <1>5, <1>6 DEF Stage, Persist
<1>8. /\ Len(ops) = Len(old) + 1 /\ DOMAIN ops = 1..Len(old) + 1 /\ DOMAIN old = 1..Len(old)
      /\ \A i \in DOMAIN old : ops[i] = old[i]
      /\ ops[Len(old) + 1] = op
      /\ op.file = f /\ op.new = new /\ ~ op.applied
    BY <1>5, <1>6
<1>9. \A i \in DOMAIN old : ~ old[i].applied
    BY <1>1, <1>4, <1>8 DEF Commits
<1>10. \A i \in DOMAIN ops : ~ ops[i].applied
    BY <1>8, <1>9
<1>11. journal'[t].ops = ops /\ journal'[t].state = "staging"
    BY <1>1, <1>7
<1>12. InDoubt(t) = {} /\ InDoubt(t)' = {}
    BY <1>4, <1>9, <1>10, <1>11 DEF InDoubt, Applied
<1>g. Grows
    BY <1>1, StageGrows
<1>13. JournalSays(t)' /\ ProcessKnows(p)' => Truth' /\ SameView
    <2>1. \A q \in Procs \ {p} : proc'[q] = proc[q] /\ (proc[q].pc \in Engaged => proc[q].txn # t)
        BY <1>1, <1>2, <1>7
    <2>2. \A u \in Txns \ {t} : journal'[u] = journal[u] /\ staged'[u] = staged[u]
        BY <1>1, <1>7
    <2>3. DOMAIN staged' = Txns /\ target' = target /\ dir' = dir /\ fate' = fate
        BY <1>1, <1>7
    <2>4. InDoubt(t)' = InDoubt(t) /\ \A i \in InDoubt(t) : journal'[t].ops[i] = journal[t].ops[i]
        BY <1>12
    <2>. QED
        BY <1>g, <2>1, <2>2, <2>3, <2>4, QuietTxn
<1>14. JournalSays(t)'
    <2>1. \A i \in DOMAIN ops : ops[i].new \in {t, Absent}
        BY <1>2, <1>4, <1>8 DEF JournalSays
    <2>2. \A i, j \in DOMAIN ops : ops[i].file = ops[j].file => i = j
        BY <1>2, <1>4, <1>7, <1>8 DEF JournalSays
    <2>3. fate'[t] = "open" /\ dir'[t] = "present"
        BY <1>2, <1>4, <1>7 DEF Commits
    <2>4. \A i \in DOMAIN ops : ops[i].file \in DOMAIN staged'[t]
        <3>1. DOMAIN staged'[t] = DOMAIN staged[t] \cup {f}
            BY <1>1, <1>7
        <3>2. \A i \in DOMAIN old : old[i].file \in DOMAIN staged[t]
            BY <1>2, <1>4 DEF JournalSays
        <3>. QED
            BY <1>8, <3>1, <3>2
    <2>. QED
        BY <1>11, <1>12, <2>1, <2>2, <2>3, <2>4 DEF JournalSays
<1>15. ProcessKnows(p)'
    <2>1. /\ proc'[p].pc = "staging" /\ proc'[p].txn = t
          /\ proc'[p].ops = ops /\ proc'[p].at = 0
        BY <1>1, <1>2, <1>4, <1>7 DEF Process
    <2>2. /\ DOMAIN staged'[t] = {ops[i].file : i \in DOMAIN ops}
          /\ \A i \in DOMAIN ops : staged'[t][ops[i].file] = ops[i].new
        <3>1. staged'[t] = [g \in DOMAIN staged[t] \cup {f} |-> IF g = f THEN new ELSE staged[t][g]]
            BY <1>1, <1>7
        <3>2. /\ DOMAIN staged[t] = {old[i].file : i \in DOMAIN old}
              /\ \A i \in DOMAIN old : staged[t][old[i].file] = old[i].new
            BY <1>4 DEF Commits
        <3>3. DOMAIN ops = DOMAIN old \cup {Len(old) + 1}
            BY <1>8
        <3>4. {ops[i].file : i \in DOMAIN ops} = {old[i].file : i \in DOMAIN old} \cup {f}
            BY <1>8, <3>3
        <3>5. ASSUME NEW i \in DOMAIN ops
              PROVE  staged'[t][ops[i].file] = ops[i].new
            <4>1. CASE i \in DOMAIN old
                BY <1>7, <1>8, <3>1, <3>2, <4>1
            <4>2. CASE i = Len(old) + 1
                BY <1>8, <3>1, <4>2
            <4>. QED
                BY <3>3, <4>1, <4>2
        <3>. QED
            BY <3>1, <3>2, <3>4, <3>5
    <2>3. \A i \in DOMAIN ops : ~ (i < 0)
        BY <1>8
    <2>4. Commits(p, t, ops)'
        BY <1>4, <1>7, <1>10, <1>11, <2>1, <2>2, <2>3 DEF Commits
    <2>. QED
        BY <1>2, <1>7, <2>1, <2>4 DEF ProcessKnows
<1>. QED
    BY <1>13, <1>14, <1>15

\* A commit begins when the files it will change are in nobody else's doubt, or
\* are Lost.
LEMMA LockControlKeeps ==
    ASSUME TypeOK, Indices, Locks, Truth, NEW p \in Procs, LockControl(p)
    PROVE  Truth' /\ SameView
<1>1. /\ proc \in [Procs -> Process] /\ ProcessKnows(p) /\ proc[p].pc = "staging"
      /\ proc' = [proc EXCEPT ![p].pc = "locked"]
      /\ UNCHANGED <<target, dir, journal, staged, fate>>
    BY DEF TypeOK, Truth, LockControl
<1>2. PICK t \in Txns, ops \in Seq(Operation) :
         t = proc[p].txn /\ ops = proc[p].ops /\ dir[t] = "present"
    BY <1>1, OwnTransaction DEF Engaged, Writing
<1>3. /\ proc'[p].pc = "locked" /\ proc'[p].txn = t
      /\ proc'[p].ops = ops /\ proc'[p].at = proc[p].at
    BY <1>1, <1>2 DEF Process
<1>g. Grows /\ Overlapping(p) \subseteq Lost'
    BY <1>1 DEF LockControl, Lost, Grows
<1>4. \A i \in DOMAIN ops : ops[i].file \notin Lost' => Unclaimed(t, ops[i].file)'
    <2>1. ASSUME NEW i \in DOMAIN ops, ~ Unclaimed(t, ops[i].file)
          PROVE  ops[i].file \in Overlapping(p)
        <3>1. ops[i] \in Operation
            OBVIOUS
        <3>2. ops[i].file \in Files
            BY <3>1 DEF Operation
        <3>. QED
            BY <1>2, <2>1, <3>2 DEF Overlapping
    <2>. QED
        BY <1>1, <1>g, <2>1, DoubtUnchanged
<1>5. Commits(p, t, ops)'
    <2>1. Commits(p, t, ops)
        BY <1>1, <1>2 DEF ProcessKnows
    <2>. QED
        BY <1>1, <1>3, <1>4, <1>g, <2>1 DEF Commits, Grows
<1>6. ProcessKnows(p)'
    BY <1>1, <1>2, <1>3, <1>5 DEF ProcessKnows
<1>. QED
    BY <1>1, <1>g, <1>6, LocalStep

\* The journal turns from staging to committing with the operations it has.
LEMMA PersistCommittingKeeps ==
    ASSUME TypeOK, Indices, Locks, Truth, NEW p \in Procs, PersistCommitting(p)
    PROVE  Truth' /\ SameView
<1>. USE DEF Grows
<1>g. Lost' = Lost /\ Grows
    BY SameLost DEF PersistCommitting
<1>1. /\ proc \in [Procs -> Process] /\ journal \in [Txns -> Journal]
      /\ DOMAIN staged = Txns /\ ProcessKnows(p) /\ proc[p].pc = "locked"
    BY DEF TypeOK, Truth, PersistCommitting
<1>2. PICK t \in Txns, ops \in Seq(Operation) :
         /\ t = proc[p].txn /\ ops = proc[p].ops /\ JournalSays(t) /\ dir[t] = "present"
         /\ \A q \in Procs \ {p} : proc[q].pc \in Engaged => proc[q].txn # t
    BY <1>1, OwnTransaction DEF Engaged, Writing
<1>3. /\ proc' = [proc EXCEPT ![p].pc = "apply", ![p].at = 1]
      /\ journal' = [journal EXCEPT ![t] = [state |-> "committing", ops |-> ops]]
      /\ UNCHANGED <<target, dir, staged, fate>>
    BY <1>2 DEF PersistCommitting, Persist
<1>4. Commits(p, t, ops) /\ proc[p].at = 0 /\ journal[t].ops = ops
    BY <1>1, <1>2 DEF ProcessKnows, Commits
<1>5. DOMAIN ops = 1..Len(ops) /\ \A i \in DOMAIN ops : ~ ops[i].applied /\ ~ (i < 0) /\ ~ (i < 1)
    BY <1>1, <1>4 DEF Commits
<1>6. journal'[t].ops = ops /\ journal'[t].state = "committing"
    BY <1>1, <1>3
<1>7. InDoubt(t) = {} /\ InDoubt(t)' = {}
    BY <1>4, <1>5, <1>6 DEF InDoubt, Applied
<1>8. /\ \A u \in Txns : \A f : Unclaimed(u, f)' <=> Unclaimed(u, f)
      /\ JournalSays(t)' /\ ProcessKnows(p)' => Truth' /\ SameView
    <2>1. \A q \in Procs \ {p} : proc'[q] = proc[q] /\ (proc[q].pc \in Engaged => proc[q].txn # t)
        BY <1>1, <1>2, <1>3
    <2>2. \A u \in Txns \ {t} : journal'[u] = journal[u]
        BY <1>1, <1>3
    <2>. QED
        BY <1>g, <1>1, <1>3, <1>7, <2>1, <2>2, QuietTxn
<1>9. JournalSays(t)'
    <2>1. journal[t].ops = ops /\ fate[t] = "open"
        BY <1>4 DEF Commits
    <2>2. /\ \A i, j \in DOMAIN ops : ops[i].file = ops[j].file => i = j
          /\ \A i \in DOMAIN ops : ops[i].new \in {t, Absent} /\ ops[i].file \in DOMAIN staged[t]
        BY <1>2, <2>1 DEF JournalSays
    <2>3. fate'[t] = "open" /\ dir'[t] = "present"
        BY <1>2, <1>3, <2>1
    <2>. QED
        BY <1>3, <1>6, <1>7, <2>2, <2>3 DEF JournalSays
<1>10. ProcessKnows(p)'
    <2>1. /\ proc'[p].pc = "apply" /\ proc'[p].txn = t
          /\ proc'[p].ops = ops /\ proc'[p].at = 1
        BY <1>1, <1>2, <1>3 DEF Process
    <2>2. Commits(p, t, ops)'
        BY <1>g, <1>1, <1>3, <1>4, <1>5, <1>6, <1>8, <2>1 DEF Commits
    <2>. QED
        BY <1>2, <1>3, <2>1, <2>2 DEF ProcessKnows
<1>. QED
    BY <1>8, <1>9, <1>10

(* Recording the backup of one operation leaves everything else as it was. *)
LEMMA BackupFields ==
    ASSUME NEW ops \in Seq(Operation), NEW at \in DOMAIN ops, NEW k \in Content \cup {NoBackup}
    PROVE  LET new == [ops EXCEPT ![at].backup = k]
           IN  /\ new \in Seq(Operation) /\ Len(new) = Len(ops) /\ DOMAIN new = DOMAIN ops
               /\ \A i \in DOMAIN ops \ {at} : new[i] = ops[i]
               /\ \A i \in DOMAIN ops : /\ new[i].file = ops[i].file /\ new[i].new = ops[i].new
                                        /\ new[i].applied = ops[i].applied
               /\ new[at].backup = k
<1>. DEFINE new == [ops EXCEPT ![at].backup = k]
<1>1. new \in Seq(Operation) /\ Len(new) = Len(ops)
    BY BackupUpdate
<1>2. DOMAIN new = DOMAIN ops /\ \A i \in DOMAIN ops \ {at} : new[i] = ops[i]
    OBVIOUS
<1>3. ops[at] \in Operation /\ new[at] = [ops[at] EXCEPT !.backup = k]
    OBVIOUS
<1>4. /\ new[at].file = ops[at].file /\ new[at].new = ops[at].new
      /\ new[at].applied = ops[at].applied /\ new[at].backup = k
    BY <1>3 DEF Operation
<1>. QED
    BY <1>1, <1>2, <1>4

(* So does the intent to apply it. *)
LEMMA IntentFields ==
    ASSUME NEW ops \in Seq(Operation), NEW at \in DOMAIN ops
    PROVE  LET new == [ops EXCEPT ![at].applied = TRUE]
           IN  /\ new \in Seq(Operation) /\ Len(new) = Len(ops) /\ DOMAIN new = DOMAIN ops
               /\ \A i \in DOMAIN ops \ {at} : new[i] = ops[i]
               /\ \A i \in DOMAIN ops : /\ new[i].file = ops[i].file /\ new[i].new = ops[i].new
                                        /\ new[i].backup = ops[i].backup
               /\ new[at].applied = TRUE
<1>. DEFINE new == [ops EXCEPT ![at].applied = TRUE]
<1>1. new \in Seq(Operation) /\ Len(new) = Len(ops)
    <2>1. TRUE \in BOOLEAN
        OBVIOUS
    <2>. QED
        BY <2>1, AppliedUpdate
<1>2. DOMAIN new = DOMAIN ops /\ \A i \in DOMAIN ops \ {at} : new[i] = ops[i]
    OBVIOUS
<1>3. ops[at] \in Operation /\ new[at] = [ops[at] EXCEPT !.applied = TRUE]
    OBVIOUS
<1>4. /\ new[at].file = ops[at].file /\ new[at].new = ops[at].new
      /\ new[at].backup = ops[at].backup /\ new[at].applied = TRUE
    BY <1>3 DEF Operation
<1>. QED
    BY <1>1, <1>2, <1>4

(* And so does the mark that it has been undone. *)
LEMMA UndoneFields ==
    ASSUME NEW ops \in Seq(Operation), NEW at \in DOMAIN ops
    PROVE  LET new == [ops EXCEPT ![at].applied = FALSE]
           IN  /\ new \in Seq(Operation) /\ Len(new) = Len(ops) /\ DOMAIN new = DOMAIN ops
               /\ \A i \in DOMAIN ops \ {at} : new[i] = ops[i]
               /\ \A i \in DOMAIN ops : /\ new[i].file = ops[i].file /\ new[i].new = ops[i].new
                                        /\ new[i].backup = ops[i].backup
               /\ new[at].applied = FALSE
<1>. DEFINE new == [ops EXCEPT ![at].applied = FALSE]
<1>1. new \in Seq(Operation) /\ Len(new) = Len(ops)
    <2>1. FALSE \in BOOLEAN
        OBVIOUS
    <2>. QED
        BY <2>1, AppliedUpdate
<1>2. DOMAIN new = DOMAIN ops /\ \A i \in DOMAIN ops \ {at} : new[i] = ops[i]
    OBVIOUS
<1>3. ops[at] \in Operation /\ new[at] = [ops[at] EXCEPT !.applied = FALSE]
    OBVIOUS
<1>4. /\ new[at].file = ops[at].file /\ new[at].new = ops[at].new
      /\ new[at].backup = ops[at].backup /\ new[at].applied = FALSE
    BY <1>3 DEF Operation
<1>. QED
    BY <1>1, <1>2, <1>4

\* The backup is what a rollback would restore: the content the target has.
LEMMA KeepBackupKeeps ==
    ASSUME TypeOK, Indices, Locks, Truth, NEW p \in Procs, KeepBackup(p)
    PROVE  Truth' /\ SameView
<1>. USE DEF Grows
<1>g. Lost' = Lost /\ Grows
    BY SameLost DEF KeepBackup
<1>1. /\ proc \in [Procs -> Process] /\ journal \in [Txns -> Journal]
      /\ DOMAIN staged = Txns /\ ProcessKnows(p) /\ proc[p].pc = "apply"
      /\ target \in [Files -> Content]
    BY DEF TypeOK, Truth, KeepBackup
<1>2. PICK t \in Txns, old \in Seq(Operation) :
         /\ t = proc[p].txn /\ old = proc[p].ops /\ JournalSays(t) /\ dir[t] = "present"
         /\ \A q \in Procs \ {p} : proc[q].pc \in Engaged => proc[q].txn # t
    BY <1>1, OwnTransaction DEF Engaged, Writing
<1>3. PICK at \in DOMAIN old : at = proc[p].at
    <2>1. proc[p].at \in Nat /\ proc[p].at # 0 /\ proc[p].at <= Len(old)
        BY <1>1, <1>2 DEF KeepBackup, Indices, Process
    <2>2. proc[p].at \in 1..Len(old) /\ DOMAIN old = 1..Len(old)
        BY <2>1
    <2>. QED
        BY <2>2
<1>4. /\ old[at].file \in Files
      /\ \E k \in Content \cup {NoBackup} : k = BackupOf(old[at].file)
    <2>1. old[at] \in Operation
        OBVIOUS
    <2>2. old[at].file \in Files
        BY <2>1 DEF Operation
    <2>3. target[old[at].file] \in Content
        BY <1>1, <2>2
    <2>. QED
        BY <2>2, <2>3 DEF BackupOf
<1>5. PICK k \in Content \cup {NoBackup} : k = BackupOf(old[at].file)
    BY <1>4
<1>o. PICK ops : ops = [old EXCEPT ![at].backup = k]
    OBVIOUS
<1>6. /\ ops \in Seq(Operation) /\ Len(ops) = Len(old) /\ DOMAIN ops = DOMAIN old
      /\ \A i \in DOMAIN old \ {at} : ops[i] = old[i]
      /\ \A i \in DOMAIN old : /\ ops[i].file = old[i].file /\ ops[i].new = old[i].new
                               /\ ops[i].applied = old[i].applied
      /\ ops[at].backup = k
    BY <1>o, BackupFields
<1>7. /\ proc' = [proc EXCEPT ![p].pc = "intent", ![p].ops = ops]
      /\ journal' = [journal EXCEPT ![t] = [state |-> "committing", ops |-> ops]]
      /\ UNCHANGED <<target, dir, staged, fate>>
    BY <1>2, <1>3, <1>5, <1>o DEF KeepBackup, Persist, Current
<1>8. Commits(p, t, old) /\ journal[t].ops = old /\ journal[t].state \in {"staging", "committing"}
    BY <1>1, <1>2 DEF ProcessKnows, Commits
<1>9. journal'[t].ops = ops /\ journal'[t].state = "committing"
    BY <1>1, <1>7
<1>10. at \in Nat /\ ~ (at < at) /\ ~ old[at].applied
    BY <1>1, <1>3, <1>8 DEF Commits
<1>11. /\ InDoubt(t)' = InDoubt(t) /\ InDoubt(t) \subseteq DOMAIN old \ {at}
       /\ \A i \in InDoubt(t) : journal'[t].ops[i] = journal[t].ops[i]
    <2>1. InDoubt(t) = {i \in DOMAIN old : old[i].applied}
        BY <1>2, <1>8 DEF InDoubt, Present, Applied
    <2>2. InDoubt(t)' = {i \in DOMAIN ops : ops[i].applied}
        BY <1>2, <1>7, <1>9 DEF InDoubt, Present, Applied
    <2>3. \A i \in DOMAIN old : old[i].applied => i # at
        BY <1>10
    <2>. QED
        BY <1>6, <1>8, <1>9, <2>1, <2>2, <2>3
<1>12. /\ \A u \in Txns : \A f : Unclaimed(u, f)' <=> Unclaimed(u, f)
       /\ JournalSays(t)' /\ ProcessKnows(p)' => Truth' /\ SameView
    <2>1. \A q \in Procs \ {p} : proc'[q] = proc[q] /\ (proc[q].pc \in Engaged => proc[q].txn # t)
        BY <1>1, <1>2, <1>7
    <2>2. \A u \in Txns \ {t} : journal'[u] = journal[u]
        BY <1>1, <1>7
    <2>3. DOMAIN staged' = Txns /\ target' = target /\ dir' = dir /\ fate' = fate /\ staged' = staged
        BY <1>1, <1>7
    <2>. QED
        BY <1>g, <1>11, <2>1, <2>2, <2>3, QuietTxn
<1>13. JournalSays(t)'
    <2>1. /\ \A i, j \in DOMAIN ops : ops[i].file = ops[j].file => i = j
          /\ \A i \in DOMAIN ops : ops[i].new \in {t, Absent} /\ ops[i].file \in DOMAIN staged[t]
        <3>1. /\ \A i, j \in DOMAIN old : old[i].file = old[j].file => i = j
              /\ \A i \in DOMAIN old : old[i].new \in {t, Absent} /\ old[i].file \in DOMAIN staged[t]
            BY <1>2, <1>8 DEF JournalSays
        <3>. QED
            BY <1>6, <3>1
    <2>2. \A i \in InDoubt(t) :
              ops[i] = old[i] /\ (old[i].file \notin Lost => target[old[i].file] \in {old[i].new, Before(old[i])})
        BY <1>2, <1>6, <1>8, <1>11 DEF JournalSays
    <2>3. fate'[t] = "open" /\ dir'[t] = "present" /\ target' = target /\ staged' = staged
        BY <1>2, <1>7, <1>8 DEF Commits
    <2>. QED
        BY <1>g, <1>9, <1>11, <2>1, <2>2, <2>3 DEF JournalSays, Before
<1>14. ProcessKnows(p)'
    <2>1. /\ proc'[p].pc = "intent" /\ proc'[p].txn = t
          /\ proc'[p].ops = ops /\ proc'[p].at = at
        BY <1>1, <1>2, <1>3, <1>7 DEF Process
    <2>2. target[ops[at].file] = Before(ops[at])
        <3>1. target[old[at].file] \in Content
            BY <1>1, <1>4 DEF Operation
        <3>. QED
            BY <1>5, <1>6, <3>1, BackupAssumption DEF Before, BackupOf
    <2>3. {ops[i].file : i \in DOMAIN ops} = {old[i].file : i \in DOMAIN old}
        BY <1>6
    <2>4. Commits(p, t, ops)'
        <3>1. \A i \in DOMAIN ops :
                  /\ ops[i].applied <=> i < at
                  /\ ops[i].file \notin Lost =>
                         /\ Unclaimed(t, ops[i].file)'
                         /\ i < at => target'[ops[i].file] = ops[i].new
            BY <1>1, <1>3, <1>6, <1>7, <1>8, <1>12 DEF Commits
        <3>2. \A i \in DOMAIN ops : staged'[t][ops[i].file] = ops[i].new
            BY <1>6, <1>7, <1>8 DEF Commits
        <3>3. DOMAIN staged'[t] = {ops[i].file : i \in DOMAIN ops} /\ fate'[t] = "open"
            BY <1>7, <1>8, <2>3 DEF Commits
        <3>4. target'[ops[at].file] = Before(ops[at])'
            BY <1>7, <2>2 DEF Before
        <3>. QED
            BY <1>g, <1>9, <2>1, <3>1, <3>2, <3>3, <3>4 DEF Commits, Before
    <2>. QED
        BY <1>2, <1>7, <2>1, <2>4 DEF ProcessKnows
<1>. QED
    BY <1>12, <1>13, <1>14

\* A committed journal leaves nothing in doubt.
LEMMA SyncRootKeeps ==
    ASSUME TypeOK, Indices, Locks, Truth, NEW p \in Procs, SyncRoot(p)
    PROVE  Truth' /\ SameView
<1>. USE DEF Grows
<1>g. Lost' = Lost /\ Grows
    BY SameLost DEF SyncRoot
<1>1. /\ proc \in [Procs -> Process] /\ ProcessKnows(p) /\ proc[p].pc = "durable"
      /\ proc' = [proc EXCEPT ![p].pc = "cleanup"]
      /\ UNCHANGED <<target, dir, journal, staged, fate>>
    BY DEF TypeOK, Truth, SyncRoot
<1>2. PICK t \in Txns : t = proc[p].txn /\ dir[t] = "present"
    BY <1>1, OwnTransaction DEF Engaged, Writing
<1>3. proc'[p].pc = "cleanup" /\ proc'[p].txn = t
    BY <1>1, <1>2 DEF Process
<1>4. journal[t].state = "committed"
    BY <1>1, <1>2 DEF ProcessKnows
<1>5. InDoubt(t)' = {}
    BY <1>1, <1>4 DEF InDoubt
<1>6. ProcessKnows(p)'
    BY <1>1, <1>2, <1>3, <1>5 DEF ProcessKnows
<1>. QED
    BY <1>g, <1>1, <1>6, LocalStep

\* A commit that fails rolls back what it has done, and perhaps one operation more
\* whose intent it only remembers.
LEMMA CommitFaultKeeps ==
    ASSUME TypeOK, Indices, Locks, Truth, NEW p \in Procs, CommitFault(p), proc[p].pc # "durable"
    PROVE  Truth' /\ SameView
<1>. USE DEF Grows
<1>g. Lost' = Lost /\ Grows
    BY SameLost DEF CommitFault, exempt
<1>1. /\ proc \in [Procs -> Process] /\ ProcessKnows(p)
      /\ proc[p].pc \in {"locked", "apply", "intent", "change"}
      /\ UNCHANGED <<target, dir, journal, staged, fate>>
    BY DEF TypeOK, Truth, CommitFault
<1>2. PICK t \in Txns, old \in Seq(Operation) :
         t = proc[p].txn /\ old = proc[p].ops /\ dir[t] = "present"
    BY <1>1, OwnTransaction DEF Engaged, Writing
<1>3. PICK at : at = proc[p].at
    OBVIOUS
<1>4. PICK ops : /\ \/ ops = old
                    \/ proc[p].pc = "intent" /\ ops = [old EXCEPT ![at].applied = TRUE]
                 /\ proc' = [proc EXCEPT ![p].pc = "undo", ![p].ops = ops]
    BY <1>2, <1>3 DEF CommitFault
<1>5. /\ ops \in Seq(Operation) /\ Len(ops) = Len(old) /\ DOMAIN ops = DOMAIN old
      /\ \A i \in DOMAIN old : /\ ops[i].file = old[i].file /\ ops[i].new = old[i].new
                               /\ ops[i].backup = old[i].backup
                               /\ old[i].applied => ops[i].applied
                               /\ ops[i].applied /\ ~ old[i].applied =>
                                      proc[p].pc = "intent" /\ i = at
    <2>1. CASE ops = old
        BY <2>1
    <2>2. CASE proc[p].pc = "intent" /\ ops = [old EXCEPT ![at].applied = TRUE]
        <3>1. at \in DOMAIN old
            BY <1>2, <1>3, <2>2 DEF Indices
        <3>2. /\ ops \in Seq(Operation) /\ Len(ops) = Len(old) /\ DOMAIN ops = DOMAIN old
              /\ \A i \in DOMAIN old \ {at} : ops[i] = old[i]
              /\ \A i \in DOMAIN old : /\ ops[i].file = old[i].file /\ ops[i].new = old[i].new
                                       /\ ops[i].backup = old[i].backup
              /\ ops[at].applied = TRUE
            BY <2>2, <3>1, IntentFields
        <3>. QED
            BY <2>2, <3>2
    <2>. QED
        BY <1>4, <2>1, <2>2
<1>6. Commits(p, t, old) /\ journal[t].ops = old
    BY <1>1, <1>2 DEF ProcessKnows, Commits
<1>7. proc'[p].pc = "undo" /\ proc'[p].txn = t /\ proc'[p].ops = ops
    BY <1>1, <1>2, <1>4 DEF Process
<1>8. Undoes(p, t, ops)'
    <2>1. /\ fate[t] = "open" /\ journal[t].state \in {"staging", "committing"}
          /\ \A i \in DOMAIN old : old[i].file \notin Lost =>
                 /\ Unclaimed(t, old[i].file)
                 /\ proc[p].pc = "intent" /\ i = at => target[old[i].file] = Before(old[i])
        BY <1>1, <1>3, <1>6 DEF Commits
    <2>2. \A i \in DOMAIN ops : ops[i].file \notin Lost => Unclaimed(t, ops[i].file)'
        BY <1>1, <1>5, <2>1, DoubtUnchanged
    <2>3. \A i \in DOMAIN ops : ops[i].file \notin Lost /\ ops[i].applied /\ ~ old[i].applied
                                  => target[ops[i].file] = Before(ops[i])
        BY <1>5, <2>1 DEF Before
    <2>. QED
        BY <1>g, <1>1, <1>5, <1>6, <1>7, <2>1, <2>2, <2>3 DEF Undoes, Before
<1>9. ProcessKnows(p)'
    BY <1>1, <1>2, <1>7, <1>8 DEF ProcessKnows
<1>. QED
    BY <1>g, <1>1, <1>4, <1>9, LocalStep

\* One that fails when it is durable rolls back what is Lost by that.
LEMMA LateFaultKeeps ==
    ASSUME TypeOK, Indices, Locks, Truth, NEW p \in Procs, CommitFault(p), proc[p].pc = "durable"
    PROVE  Truth' /\ SameView
<1>. USE DEF Grows
<1>1. /\ proc \in [Procs -> Process] /\ ProcessKnows(p)
      /\ UNCHANGED <<target, dir, journal, staged, fate>>
    BY DEF TypeOK, Truth, CommitFault
<1>2. PICK t \in Txns, ops \in Seq(Operation) :
         t = proc[p].txn /\ ops = proc[p].ops /\ dir[t] = "present" /\ JournalSays(t)
    BY OwnTransaction DEF Engaged, Writing
<1>3. /\ proc' = [proc EXCEPT ![p].pc = "undo", ![p].ops = ops]
      /\ withdrawn' = withdrawn \cup {t} /\ overlapped' = overlapped
    BY <1>2 DEF CommitFault
<1>4. proc'[p].pc = "undo" /\ proc'[p].txn = t /\ proc'[p].ops = ops
    BY <1>1, <1>2, <1>3 DEF Process
<1>g. Grows /\ DOMAIN staged[t] \subseteq Lost' /\ t \in withdrawn'
    BY <1>1, <1>3 DEF Lost
<1>5. journal[t].ops = ops /\ journal[t].state = "committed"
    BY <1>1, <1>2 DEF ProcessKnows
<1>6. \A i \in DOMAIN ops : ops[i].file \in Lost'
    BY <1>2, <1>5, <1>g DEF JournalSays
<1>7. Undoes(p, t, ops)'
    BY <1>1, <1>4, <1>5, <1>6, <1>g DEF Undoes
<1>8. ProcessKnows(p)'
    BY <1>1, <1>2, <1>4, <1>7 DEF ProcessKnows
<1>. QED
    BY <1>g, <1>1, <1>3, <1>8, LocalStep

\* When nothing is applied in memory, nothing is in the journal.
LEMMA PersistRolledBackKeeps ==
    ASSUME TypeOK, Indices, Locks, Truth, NEW p \in Procs, PersistRolledBack(p)
    PROVE  Truth' /\ SameView
<1>. USE DEF Grows
<1>g. Lost' = Lost /\ Grows
    BY SameLost DEF PersistRolledBack
<1>1. /\ proc \in [Procs -> Process] /\ journal \in [Txns -> Journal]
      /\ fate \in [Txns -> {"open", "committed", "aborted"}]
      /\ DOMAIN staged = Txns /\ ProcessKnows(p) /\ proc[p].pc = "undo"
    BY DEF TypeOK, Truth, PersistRolledBack
<1>2. PICK t \in Txns, ops \in Seq(Operation) :
         /\ t = proc[p].txn /\ ops = proc[p].ops /\ JournalSays(t) /\ dir[t] = "present"
         /\ journal[t].ops \in Seq(Operation)
         /\ \A q \in Procs \ {p} : proc[q].pc \in Engaged => proc[q].txn # t
    BY <1>1, OwnTransaction DEF Engaged, Undoing
<1>3. /\ proc' = [proc EXCEPT ![p].pc = "cleanup"] /\ Applied(ops) = {}
      /\ journal' = [journal EXCEPT ![t] = [state |-> "rolled_back", ops |-> ops]]
      /\ fate' = [fate EXCEPT ![t] = "aborted"]
      /\ UNCHANGED <<target, dir, staged>>
    BY <1>2 DEF PersistRolledBack, Persist
<1>4. Undoes(p, t, ops)
    BY <1>1, <1>2 DEF ProcessKnows
<1>5. journal'[t].ops = ops /\ journal'[t].state = "rolled_back" /\ fate'[t] = "aborted"
    BY <1>1, <1>3
<1>6. InDoubt(t) = {} /\ InDoubt(t)' = {}
    <2>1. DOMAIN journal[t].ops = DOMAIN ops
        BY <1>2, <1>4 DEF Undoes
    <2>2. \A i \in DOMAIN ops : ~ ops[i].applied
        BY <1>3 DEF Applied
    <2>3. \A i \in DOMAIN ops : ~ journal[t].ops[i].applied
        BY <1>4, <2>2 DEF Undoes
    <2>. QED
        BY <1>5, <2>1, <2>2, <2>3 DEF InDoubt, Applied
<1>7. JournalSays(t)' /\ ProcessKnows(p)' => Truth' /\ SameView
    <2>1. \A q \in Procs \ {p} : proc'[q] = proc[q] /\ (proc[q].pc \in Engaged => proc[q].txn # t)
        BY <1>1, <1>2, <1>3
    <2>2. \A u \in Txns \ {t} : journal'[u] = journal[u] /\ fate'[u] = fate[u]
        BY <1>1, <1>3
    <2>3. DOMAIN staged' = Txns /\ target' = target /\ dir' = dir /\ staged' = staged
        BY <1>1, <1>3
    <2>4. InDoubt(t)' = InDoubt(t) /\ \A i \in InDoubt(t) : journal'[t].ops[i] = journal[t].ops[i]
        BY <1>6
    <2>. QED
        BY <1>g, <2>1, <2>2, <2>3, <2>4, QuietTxn
<1>8. JournalSays(t)'
    <2>1. DOMAIN journal[t].ops = DOMAIN ops
        BY <1>2, <1>4 DEF Undoes
    <2>2. /\ \A i, j \in DOMAIN ops : ops[i].file = ops[j].file => i = j
          /\ \A i \in DOMAIN ops : ops[i].new \in {t, Absent} /\ ops[i].file \in DOMAIN staged[t]
        <3>1. \A i \in DOMAIN ops : /\ ops[i].file = journal[t].ops[i].file
                                    /\ ops[i].new = journal[t].ops[i].new
            BY <1>4 DEF Undoes
        <3>2. /\ \A i, j \in DOMAIN journal[t].ops :
                     journal[t].ops[i].file = journal[t].ops[j].file => i = j
              /\ \A i \in DOMAIN journal[t].ops : /\ journal[t].ops[i].new \in {t, Absent}
                                                  /\ journal[t].ops[i].file \in DOMAIN staged[t]
            BY <1>2 DEF JournalSays
        <3>. QED
            BY <2>1, <3>1, <3>2
    <2>3. dir'[t] = "present" /\ staged' = staged
        BY <1>2, <1>3
    <2>. QED
        BY <1>5, <1>6, <2>2, <2>3 DEF JournalSays
<1>9. ProcessKnows(p)'
    <2>1. proc'[p].pc = "cleanup" /\ proc'[p].txn = t
        BY <1>1, <1>2, <1>3 DEF Process
    <2>. QED
        BY <1>2, <1>3, <1>6, <2>1 DEF ProcessKnows
<1>. QED
    BY <1>7, <1>8, <1>9

\* The journal that is removed has nothing in doubt.
LEMMA RemoveJournalKeeps ==
    ASSUME TypeOK, Indices, Locks, Truth, NEW p \in Procs, RemoveJournal(p)
    PROVE  Truth' /\ SameView
<1>. USE DEF Grows
<1>g. Lost' = Lost /\ Grows
    BY SameLost DEF RemoveJournal
<1>1. /\ proc \in [Procs -> Process] /\ journal \in [Txns -> Journal]
      /\ DOMAIN staged = Txns /\ ProcessKnows(p) /\ proc[p].pc = "cleanup"
    BY DEF TypeOK, Truth, RemoveJournal
<1>2. PICK t \in Txns :
         /\ t = proc[p].txn /\ JournalSays(t) /\ dir[t] = "present"
         /\ \A q \in Procs \ {p} : proc[q].pc \in Engaged => proc[q].txn # t
    BY <1>1, OwnTransaction DEF Engaged, Undoing
<1>3. /\ proc' = [proc EXCEPT ![p].pc = "cleaning"]
      /\ journal' = [journal EXCEPT ![t] = NoJournal]
      /\ UNCHANGED <<target, dir, staged, fate>>
    BY <1>2 DEF RemoveJournal
<1>4. journal'[t] = NoJournal /\ journal'[t].ops = <<>> /\ journal'[t].state = "unreadable"
    BY <1>1, <1>3 DEF NoJournal
<1>5. InDoubt(t) = {} /\ InDoubt(t)' = {}
    BY <1>1, <1>2, <1>4 DEF ProcessKnows, InDoubt, Applied
<1>6. JournalSays(t)' /\ ProcessKnows(p)' => Truth' /\ SameView
    <2>1. \A q \in Procs \ {p} : proc'[q] = proc[q] /\ (proc[q].pc \in Engaged => proc[q].txn # t)
        BY <1>1, <1>2, <1>3
    <2>2. \A u \in Txns \ {t} : journal'[u] = journal[u]
        BY <1>1, <1>3
    <2>3. InDoubt(t)' = InDoubt(t) /\ \A i \in InDoubt(t) : journal'[t].ops[i] = journal[t].ops[i]
        BY <1>5
    <2>. QED
        BY <1>g, <1>1, <1>3, <2>1, <2>2, <2>3, QuietTxn
<1>7. JournalSays(t)'
    BY <1>g, <1>2, <1>3, <1>4, <1>5 DEF JournalSays, NoJournal
<1>8. ProcessKnows(p)'
    <2>1. proc'[p].pc = "cleaning" /\ proc'[p].txn = t
        BY <1>1, <1>2, <1>3 DEF Process
    <2>. QED
        BY <1>2, <1>3, <1>4, <2>1 DEF ProcessKnows
<1>. QED
    BY <1>6, <1>7, <1>8

\* With the directory goes an empty journal.
LEMMA RemoveDirectoryKeeps ==
    ASSUME TypeOK, Indices, Locks, Truth, NEW p \in Procs, RemoveDirectory(p)
    PROVE  Truth' /\ SameView
<1>. USE DEF Grows
<1>g. Lost' = Lost /\ Grows
    BY SameLost DEF RemoveDirectory
<1>1. /\ proc \in [Procs -> Process] /\ dir \in [Txns -> {"unused", "present", "gone"}]
      /\ DOMAIN staged = Txns /\ ProcessKnows(p) /\ proc[p].pc = "cleaning"
    BY DEF TypeOK, Truth, RemoveDirectory
<1>2. PICK t \in Txns :
         /\ t = proc[p].txn /\ JournalSays(t) /\ dir[t] = "present"
         /\ \A q \in Procs \ {p} : proc[q].pc \in Engaged => proc[q].txn # t
    BY <1>1, OwnTransaction DEF Engaged, Undoing
<1>3. /\ dir' = [dir EXCEPT ![t] = "gone"]
      /\ \/ proc' = [proc EXCEPT ![p].pc = "scan", ![p].txn = NoTxn, ![p].ops = <<>>]
         \/ proc' = [proc EXCEPT ![p] = Idle]
      /\ UNCHANGED <<target, journal, staged, fate>>
    BY <1>2 DEF RemoveDirectory
<1>4. journal[t] = NoJournal /\ journal'[t] = NoJournal /\ dir'[t] = "gone"
    BY <1>1, <1>2, <1>3 DEF ProcessKnows
<1>5. InDoubt(t) = {} /\ InDoubt(t)' = {}
    BY <1>4 DEF InDoubt, Applied, NoJournal, Present
<1>6. JournalSays(t)' /\ ProcessKnows(p)' => Truth' /\ SameView
    <2>1. \A q \in Procs \ {p} : proc'[q] = proc[q] /\ (proc[q].pc \in Engaged => proc[q].txn # t)
        BY <1>1, <1>2, <1>3
    <2>2. \A u \in Txns \ {t} : dir'[u] = dir[u]
        BY <1>1, <1>3
    <2>3. InDoubt(t)' = InDoubt(t) /\ \A i \in InDoubt(t) : journal'[t].ops[i] = journal[t].ops[i]
        BY <1>5
    <2>. QED
        BY <1>g, <1>1, <1>3, <2>1, <2>2, <2>3, QuietTxn
<1>7. JournalSays(t)'
    BY <1>g, <1>2, <1>3, <1>4, <1>5 DEF JournalSays, NoJournal
<1>8. ProcessKnows(p)'
    <2>1. proc'[p].pc = "scan" \/ proc'[p] = Idle
        <3>1. CASE proc' = [proc EXCEPT ![p].pc = "scan", ![p].txn = NoTxn, ![p].ops = <<>>]
            <4>1. proc'[p] = [proc[p] EXCEPT !.pc = "scan", !.txn = NoTxn, !.ops = <<>>]
                BY <1>1, <3>1
            <4>. QED
                BY <1>1, <4>1 DEF Process
        <3>2. CASE proc' = [proc EXCEPT ![p] = Idle]
            BY <1>1, <3>2
        <3>. QED
            BY <1>3, <3>1, <3>2
    <2>2. proc'[p].pc \in {"scan", "idle"} /\ (proc'[p].pc = "idle" => proc'[p] = Idle)
        BY <2>1 DEF Idle
    <2>. QED
        BY <2>2 DEF ProcessKnows, Engaged, Writing, Undoing
<1>. QED
    BY <1>6, <1>7, <1>8

\* What a rollback leaves when it fails is what its journal says.
LEMMA UndoFaultKeeps ==
    ASSUME TypeOK, Indices, Locks, Truth, NEW p \in Procs, UndoFault(p)
    PROVE  Truth' /\ SameView
<1>. USE DEF Grows
<1>g. Lost' = Lost /\ Grows
    BY SameLost DEF UndoFault
<1>1. /\ proc \in [Procs -> Process] /\ ProcessKnows(p) /\ proc[p].pc \in Undoing
      /\ proc' = [proc EXCEPT ![p].pc = "failed"]
      /\ UNCHANGED <<target, dir, journal, staged, fate>>
    BY DEF TypeOK, Truth, UndoFault, Undoing
<1>2. proc'[p].pc = "failed" /\ proc'[p].txn = proc[p].txn
    BY <1>1 DEF Process
<1>3. ProcessKnows(p)'
    BY <1>1, <1>2 DEF ProcessKnows, Engaged
<1>. QED
    BY <1>g, <1>1, <1>3, LocalStep

\* A recovery begins where the journal says the transaction was.
LEMMA LoadInactiveKeeps ==
    ASSUME TypeOK, Indices, Locks, Truth, NEW p \in Procs, NEW t \in Txns, LoadInactive(p, t)
    PROVE  Truth' /\ SameView
<1>. USE DEF Grows
<1>g. Lost' = Lost /\ Grows
    BY SameLost DEF LoadInactive
<1>1. /\ proc \in [Procs -> Process] /\ journal[t].ops \in Seq(Operation)
      /\ JournalSays(t) /\ Unconflicted
    BY DEF TypeOK, Truth, Journal
<1>2. /\ UNCHANGED <<target, dir, journal, staged, fate>>
      /\ dir[t] = "present" /\ journal[t].state # "unreadable"
      /\ proc' = [proc EXCEPT ![p].pc = NextStep(journal[t].state), ![p].txn = t,
                              ![p].ops = journal[t].ops, ![p].todo = @ \ {t}]
    BY DEF LoadInactive, Inactive, Present, Readable
<1>3. PICK ops \in Seq(Operation) : ops = journal[t].ops
    BY <1>1
<1>4. proc'[p].pc = NextStep(journal[t].state) /\ proc'[p].txn = t /\ proc'[p].ops = ops
    <2>1. proc'[p] = [proc[p] EXCEPT !.pc = NextStep(journal[t].state), !.txn = t,
                                     !.ops = journal[t].ops, !.todo = @ \ {t}]
        BY <1>1, <1>2
    <2>. QED
        BY <1>1, <1>3, <2>1 DEF Process
<1>5. \A q \in Procs \ {p} : proc'[q] = proc[q]
    BY <1>1, <1>2
<1>6. CASE journal[t].state = "committed"
    <2>1. proc'[p].pc = "cleanup"
        BY <1>4, <1>6 DEF NextStep
    <2>2. InDoubt(t)' = {}
        BY <1>2, <1>6 DEF InDoubt
    <2>3. ProcessKnows(p)'
        BY <1>2, <1>4, <2>1, <2>2 DEF ProcessKnows
    <2>. QED
        BY <1>g, <1>2, <1>5, <2>3, LocalStep
<1>7. CASE journal[t].state # "committed"
    <2>1. proc'[p].pc = "undo"
        BY <1>4, <1>7 DEF NextStep
    <2>2. \A i \in DOMAIN ops : ops[i].applied /\ ops[i].file \notin Lost => Unclaimed(t, ops[i].file)'
        <3>1. \A i \in DOMAIN ops : ops[i].applied => i \in InDoubt(t)
            BY <1>2, <1>3, <1>7 DEF InDoubt, Present, Applied
        <3>. QED
            BY <1>1, <1>2, <1>3, <3>1, DoubtUnchanged DEF Unconflicted
    <2>3. t \notin withdrawn => fate[t] # "committed"
        BY <1>1, <1>2, <1>7 DEF JournalSays
    <2>4. Undoes(p, t, ops)'
        BY <1>g, <1>2, <1>3, <1>4, <1>7, <2>1, <2>2, <2>3 DEF Undoes
    <2>5. ProcessKnows(p)'
        BY <1>2, <1>4, <2>1, <2>4 DEF ProcessKnows
    <2>. QED
        BY <1>g, <1>2, <1>5, <2>5, LocalStep
<1>. QED
    BY <1>6, <1>7

\* Previews, scans and the end of a process touch no journal and no file.
LEMMA OtherStepsKeep ==
    ASSUME TypeOK, Indices, Locks, Truth, NEW p \in Procs,
           \/ \E t \in Txns : PreviewRefused(p, t) \/ SkipActive(p, t) \/ LoadRefused(p, t)
           \/ StartRecovery(p) \/ EndRecovery(p) \/ Preview(p) \/ Crash(p) \/ Exit(p)
    PROVE  Truth' /\ SameView
<1>g. Grows
    BY SameLost DEF PreviewRefused, SkipActive, LoadRefused, StartRecovery, EndRecovery, Preview,
       Crash, Exit, Released
<1>1. proc \in [Procs -> Process]
    BY DEF TypeOK
<1>2. /\ UNCHANGED <<target, dir, journal, staged, fate>>
      /\ \A q \in Procs \ {p} : proc'[q] = proc[q]
    BY <1>1 DEF PreviewRefused, SkipActive, LoadRefused, StartRecovery, EndRecovery, Preview,
       Crash, Exit, Released
<1>3. /\ proc'[p].pc \in {"idle", "previewed", "refused", "scan"}
      /\ proc'[p].pc = "idle" => proc'[p] = Idle
    <2>. USE <1>1 DEF Process, Idle
    <2>1. ASSUME NEW t \in Txns, PreviewRefused(p, t)
          PROVE  proc'[p].pc = "refused"
        BY <2>1 DEF PreviewRefused
    <2>2. ASSUME NEW t \in Txns, SkipActive(p, t)
          PROVE  proc'[p].pc = "scan"
        BY <2>2 DEF SkipActive
    <2>3. ASSUME NEW t \in Txns, LoadRefused(p, t)
          PROVE  proc'[p].pc = "refused"
        BY <2>3 DEF LoadRefused
    <2>4. StartRecovery(p) => proc'[p].pc = "scan"
        BY DEF StartRecovery
    <2>5. Preview(p) => proc'[p].pc = "previewed"
        BY DEF Preview
    <2>6. EndRecovery(p) \/ Crash(p) \/ Exit(p) => proc'[p] = Idle
        BY DEF EndRecovery, Crash, Exit, Released
    <2>. QED
        BY <2>1, <2>2, <2>3, <2>4, <2>5, <2>6
<1>4. ProcessKnows(p)'
    BY <1>3 DEF ProcessKnows, Engaged, Writing, Undoing
<1>. QED
    BY <1>g, <1>2, <1>4, LocalStep

-----------------------------------------------------------------------------
(* The steps that put operations in doubt, change files, and decide *)

\* What a reader finds of f after a recovery.
Finds(f, v) ==
    \/ \E t \in Txns : \E i \in InDoubt(t) :
           journal[t].ops[i].file = f /\ v = Before(journal[t].ops[i])
    \/ /\ \A t \in Txns : \A i \in InDoubt(t) : journal[t].ops[i].file # f
       /\ v = target[f]

FindsTheSame == \A f \in Files \ Lost' : \A v : Finds(f, v) => Finds(f, v)'

(* Two transactions never come to put back one file if what one of them gets  *)
(* in doubt is unclaimed by the others.                                      *)
LEMMA ConflictFree ==
    ASSUME Unconflicted, Grows, NEW t \in Txns,
           \A u \in Txns \ {t} : InDoubt(u)' = InDoubt(u) /\ journal'[u] = journal[u],
           \A i \in InDoubt(t)' :
               journal'[t].ops[i].file \notin Lost => Unclaimed(t, journal'[t].ops[i].file)
    PROVE  Unconflicted' /\ \A f : Unclaimed(t, f)' <=> Unclaimed(t, f)
<1>1. \A f : Unclaimed(t, f)' <=> Unclaimed(t, f)
    BY DEF Unclaimed
<1>. USE DEF Grows
<1>2. ASSUME NEW u \in Txns, NEW i \in InDoubt(u)', journal'[u].ops[i].file \notin Lost'
      PROVE  Unclaimed(u, journal[u].ops[i].file)'
    <2>1. CASE u = t
        <3>1. PICK f : f = journal'[t].ops[i].file
            OBVIOUS
        <3>2. Unclaimed(t, f)'
            BY <1>1, <1>2, <2>1, <3>1
        <3>. QED
            BY <2>1, <3>1, <3>2 DEF Unclaimed
    <2>2. CASE u # t
        <3>1. i \in InDoubt(u) /\ journal'[u] = journal[u] /\ Unclaimed(u, journal[u].ops[i].file)
            BY <1>2, <2>2 DEF Unconflicted
        <3>2. \A k \in InDoubt(t)' : journal[u].ops[i].file # journal'[t].ops[k].file
            <4>1. journal[u].ops[i].file \notin Lost
                BY <1>2, <3>1
            <4>2. ASSUME NEW k \in InDoubt(t)', journal[u].ops[i].file = journal'[t].ops[k].file
                  PROVE  FALSE
                <5>1. Unclaimed(t, journal[u].ops[i].file)
                    BY <4>1, <4>2
                <5>. QED
                    BY <2>2, <3>1, <5>1 DEF Unclaimed
            <4>. QED
                BY <4>2
        <3>. QED
            BY <2>2, <3>1, <3>2 DEF Unclaimed
    <2>. QED
        BY <2>1, <2>2
<1>. QED
    BY <1>1, <1>2 DEF Unconflicted

\* When the intent is written, a recovery would restore what the file still holds.
LEMMA PersistIntentKeeps ==
    ASSUME TypeOK, Indices, Locks, Truth, NEW p \in Procs, PersistIntent(p)
    PROVE  Truth' /\ FindsTheSame
<1>. USE DEF Grows
<1>g. Lost' = Lost /\ Grows
    BY SameLost DEF PersistIntent
<1>1. /\ proc \in [Procs -> Process] /\ journal \in [Txns -> Journal]
      /\ DOMAIN staged = Txns /\ ProcessKnows(p) /\ proc[p].pc = "intent" /\ Unconflicted
    BY DEF TypeOK, Truth, PersistIntent
<1>2. PICK t \in Txns, old \in Seq(Operation) :
         /\ t = proc[p].txn /\ old = proc[p].ops /\ JournalSays(t) /\ dir[t] = "present"
         /\ \A q \in Procs \ {p} : proc[q].pc \in Engaged => proc[q].txn # t
    BY <1>1, OwnTransaction DEF Engaged, Writing
<1>3. PICK at \in DOMAIN old : at = proc[p].at
    BY <1>1, <1>2 DEF Indices
<1>4. PICK ops : ops = [old EXCEPT ![at].applied = TRUE]
    OBVIOUS
<1>5. /\ ops \in Seq(Operation) /\ Len(ops) = Len(old) /\ DOMAIN ops = DOMAIN old
      /\ \A i \in DOMAIN old \ {at} : ops[i] = old[i]
      /\ \A i \in DOMAIN old : /\ ops[i].file = old[i].file /\ ops[i].new = old[i].new
                               /\ ops[i].backup = old[i].backup
      /\ ops[at].applied = TRUE
    BY <1>4, IntentFields
<1>6. /\ proc' = [proc EXCEPT ![p].pc = "change", ![p].ops = ops]
      /\ journal' = [journal EXCEPT ![t] = [state |-> "committing", ops |-> ops]]
      /\ UNCHANGED <<target, dir, staged, fate>>
    BY <1>2, <1>3, <1>4 DEF PersistIntent, Persist
<1>7. Commits(p, t, old) /\ journal[t].ops = old /\ journal[t].state \in {"staging", "committing"}
    <2>1. Commits(p, t, old)
        BY <1>1, <1>2 DEF ProcessKnows
    <2>. QED
        BY <2>1 DEF Commits
<1>8. journal'[t].ops = ops /\ journal'[t].state = "committing"
    BY <1>1, <1>6
<1>9. /\ at \in Nat /\ ~ (at < at) /\ ~ old[at].applied
      /\ \A i \in DOMAIN old : old[i].file \notin Lost => Unclaimed(t, old[i].file)
      /\ old[at].file \notin Lost => target[old[at].file] = Before(old[at])
    BY <1>1, <1>3, <1>7 DEF Commits
<1>10. /\ InDoubt(t) \subseteq DOMAIN old \ {at}
       /\ InDoubt(t)' = InDoubt(t) \cup {at}
       /\ \A i \in InDoubt(t) : ops[i] = old[i]
    <2>1. InDoubt(t) = {i \in DOMAIN old : old[i].applied}
        BY <1>2, <1>7 DEF InDoubt, Present, Applied
    <2>2. InDoubt(t)' = {i \in DOMAIN ops : ops[i].applied}
        BY <1>2, <1>6, <1>8 DEF InDoubt, Present, Applied
    <2>3. \A i \in DOMAIN old : old[i].applied => i # at
        BY <1>9
    <2>. QED
        BY <1>5, <2>1, <2>2, <2>3
<1>11. /\ \A q \in Procs \ {p} : ProcessKnows(q)'
       /\ \A u \in Txns \ {t} : InDoubt(u)' = InDoubt(u) /\ journal'[u] = journal[u]
    <2>1. proc[p].pc \in Critical \cap Engaged
        BY <1>1 DEF Critical, Engaged, Writing
    <2>2. /\ \A q \in Procs \ {p} : proc'[q] = proc[q]
          /\ \A u \in Txns \ {t} : journal'[u] = journal[u]
        BY <1>1, <1>6
    <2>3. dir' = dir /\ fate' = fate /\ staged' = staged
        BY <1>6
    <2>. QED
        BY <1>g, <1>2, <2>1, <2>2, <2>3, CriticalStep
<1>12. Unconflicted' /\ \A f : Unclaimed(t, f)' <=> Unclaimed(t, f)
    <2>1. \A i \in InDoubt(t)' :
              journal'[t].ops[i].file \notin Lost => Unclaimed(t, journal'[t].ops[i].file)
        BY <1>5, <1>8, <1>9, <1>10
    <2>. QED
        BY <1>g, <1>1, <1>11, <2>1, ConflictFree
<1>13. JournalSays(t)'
    <2>1. /\ \A i, j \in DOMAIN ops : ops[i].file = ops[j].file => i = j
          /\ \A i \in DOMAIN ops : ops[i].new \in {t, Absent} /\ ops[i].file \in DOMAIN staged[t]
        BY <1>2, <1>5, <1>7 DEF JournalSays
    <2>2. \A i \in InDoubt(t) : ops[i].file \notin Lost => target[ops[i].file] \in {ops[i].new, Before(ops[i])}
        BY <1>2, <1>7, <1>10 DEF JournalSays
    <2>3. ops[at].file \notin Lost => target[ops[at].file] = Before(ops[at])
        BY <1>5, <1>9 DEF Before
    <2>4. fate'[t] = "open" /\ dir'[t] = "present" /\ target' = target /\ staged' = staged
        BY <1>2, <1>6, <1>7 DEF Commits
    <2>. QED
        BY <1>g, <1>8, <1>10, <2>1, <2>2, <2>3, <2>4 DEF JournalSays, Before
<1>14. \A u \in Txns \ {t} : JournalSays(u)'
    BY <1>g, <1>6, <1>11 DEF Truth, JournalSays, Before
<1>15. ProcessKnows(p)'
    <2>1. /\ proc'[p].pc = "change" /\ proc'[p].txn = t
          /\ proc'[p].ops = ops /\ proc'[p].at = at
        BY <1>1, <1>2, <1>3, <1>6 DEF Process
    <2>2. {ops[i].file : i \in DOMAIN ops} = {old[i].file : i \in DOMAIN old}
        BY <1>5
    <2>3. \A i \in DOMAIN ops :
              /\ ops[i].applied <=> i < at \/ i = at
              /\ ops[i].file \notin Lost =>
                     /\ Unclaimed(t, ops[i].file)'
                     /\ i < at => target'[ops[i].file] = ops[i].new
        BY <1>1, <1>3, <1>5, <1>6, <1>7, <1>9, <1>12 DEF Commits
    <2>4. /\ \A i \in DOMAIN ops : staged'[t][ops[i].file] = ops[i].new
          /\ DOMAIN staged'[t] = {ops[i].file : i \in DOMAIN ops} /\ fate'[t] = "open"
        <3>1. /\ \A i \in DOMAIN old : staged[t][old[i].file] = old[i].new
              /\ DOMAIN staged[t] = {old[i].file : i \in DOMAIN old} /\ fate[t] = "open"
            BY <1>7 DEF Commits
        <3>. QED
            BY <1>5, <1>6, <2>2, <3>1
    <2>5. Commits(p, t, ops)'
        BY <1>g, <1>8, <2>1, <2>3, <2>4 DEF Commits
    <2>. QED
        BY <1>2, <1>6, <2>1, <2>5 DEF ProcessKnows
<1>16. ASSUME NEW f \in Files \ Lost, NEW v, Finds(f, v)
       PROVE  Finds(f, v)'
    <2>1. CASE f = old[at].file
        <3>1. \A u \in Txns \ {t} : \A i \in InDoubt(u) : journal[u].ops[i].file # f
            BY <1>9, <1>16, <2>1 DEF Unclaimed
        <3>2. \A i \in InDoubt(t) : journal[t].ops[i].file # f
            BY <1>2, <1>7, <1>10, <2>1 DEF JournalSays
        <3>3. v = target[f]
            BY <1>16, <3>1, <3>2 DEF Finds
        <3>4. at \in InDoubt(t)' /\ journal'[t].ops[at].file = f /\ v = Before(journal'[t].ops[at])
            BY <1>5, <1>8, <1>9, <1>10, <1>16, <2>1, <3>3 DEF Before
        <3>. QED
            BY <3>4 DEF Finds, Before
    <2>2. CASE f # old[at].file
        <3>1. \A u \in Txns : \A i \in InDoubt(u) : i \in InDoubt(u)' /\ journal'[u].ops[i] = journal[u].ops[i]
            BY <1>7, <1>8, <1>10, <1>11
        <3>2. \A u \in Txns : \A i \in InDoubt(u)' :
                  i \in InDoubt(u) \/ journal'[u].ops[i].file # f
            BY <1>5, <1>8, <1>10, <1>11, <2>2
        <3>. QED
            BY <1>6, <1>16, <3>1, <3>2 DEF Finds, Before
    <2>. QED
        BY <2>1, <2>2
<1>. QED
    BY <1>g, <1>1, <1>6, <1>11, <1>12, <1>13, <1>14, <1>15, <1>16 DEF Truth, FindsTheSame

\* The change reaches a file that a recovery would restore.
LEMMA ChangeTargetKeeps ==
    ASSUME TypeOK, Indices, Locks, Truth, NEW p \in Procs, ChangeTarget(p)
    PROVE  Truth' /\ FindsTheSame
<1>. USE DEF Grows
<1>g. Lost' = Lost /\ Grows
    BY SameLost DEF ChangeTarget
<1>1. /\ proc \in [Procs -> Process] /\ target \in [Files -> Content]
      /\ DOMAIN staged = Txns /\ ProcessKnows(p) /\ proc[p].pc = "change" /\ Unconflicted
    BY DEF TypeOK, Truth, ChangeTarget
<1>2. PICK t \in Txns, ops \in Seq(Operation) :
         /\ t = proc[p].txn /\ ops = proc[p].ops /\ JournalSays(t) /\ dir[t] = "present"
    BY <1>1, OwnTransaction DEF Engaged, Writing
<1>3. PICK at \in DOMAIN ops : at = proc[p].at
    BY <1>1, <1>2 DEF Indices
<1>4. PICK f \in Files : f = ops[at].file
    <2>1. ops[at] \in Operation
        OBVIOUS
    <2>. QED
        BY <2>1 DEF Operation
<1>5. /\ proc' = [proc EXCEPT ![p].pc = "apply", ![p].at = at + 1]
      /\ target' = [target EXCEPT ![f] = ops[at].new]
      /\ UNCHANGED <<dir, journal, staged, fate>>
    BY <1>2, <1>3, <1>4 DEF ChangeTarget, Current
<1>6. Commits(p, t, ops) /\ journal[t].ops = ops /\ journal[t].state \in {"staging", "committing"}
    BY <1>1, <1>2 DEF ProcessKnows, Commits
<1>7. /\ target'[f] = ops[at].new
      /\ \A g \in Files \ {f} : target'[g] = target[g]
      /\ \A i \in DOMAIN ops : i # at => ops[i].file # f
      /\ \A i \in DOMAIN ops : ops[i].file \in Files
    <2>1. \A i \in DOMAIN ops : ops[i] \in Operation
        OBVIOUS
    <2>2. \A i \in DOMAIN ops : ops[i].file \in Files
        BY <2>1 DEF Operation
    <2>3. \A i \in DOMAIN ops : i # at => ops[i].file # f
        BY <1>2, <1>4, <1>6 DEF JournalSays
    <2>. QED
        BY <1>1, <1>5, <2>2, <2>3
<1>8. at \in InDoubt(t) /\ InDoubt(t) \subseteq DOMAIN ops
    BY <1>1, <1>2, <1>3, <1>6 DEF InDoubt, Present, Applied, Commits
<1>9. /\ \A u \in Txns : InDoubt(u)' = InDoubt(u)
      /\ \A u, g : Unclaimed(u, g)' <=> Unclaimed(u, g)
      /\ f \notin Lost => \A u \in Txns \ {t} : \A i \in InDoubt(u) : journal[u].ops[i].file # f
    BY <1>1, <1>3, <1>4, <1>5, <1>6, DoubtUnchanged DEF Commits, Unclaimed
<1>10. \A q \in Procs \ {p} : ProcessKnows(q)'
    <2>1. proc[p].pc \in Critical \cap Engaged
        BY <1>1 DEF Critical, Engaged, Writing
    <2>2. \A q \in Procs \ {p} : proc'[q] = proc[q]
        BY <1>1, <1>5
    <2>. QED
        BY <1>g, <1>2, <1>5, <2>1, <2>2, CriticalStep
<1>11. Unconflicted'
    BY <1>g, <1>1, <1>5, <1>9 DEF Unconflicted
<1>12. ASSUME NEW u \in Txns
       PROVE  JournalSays(u)'
    <2>1. JournalSays(u) /\ \A i \in DOMAIN journal[u].ops : journal[u].ops[i].file \in Files
        <3>1. journal[u].ops \in Seq(Operation)
            BY DEF TypeOK, Journal
        <3>2. \A i \in DOMAIN journal[u].ops : journal[u].ops[i] \in Operation
            BY <3>1
        <3>. QED
            BY <3>2 DEF Truth, Operation
    <2>2. InDoubt(u) \subseteq DOMAIN journal[u].ops
        BY DEF InDoubt, Applied
    <2>3. ASSUME NEW i \in InDoubt(u), journal[u].ops[i].file \notin Lost
          PROVE  target'[journal[u].ops[i].file] \in {journal[u].ops[i].new, Before(journal[u].ops[i])}
        <3>1. CASE u = t /\ i = at
            BY <1>4, <1>6, <1>7, <3>1
        <3>2. CASE ~ (u = t /\ i = at)
            <4>1. journal[u].ops[i].file # f /\ journal[u].ops[i].file \in Files
                BY <1>6, <1>7, <1>8, <1>9, <2>1, <2>2, <2>3, <3>2
            <4>. QED
                BY <1>7, <2>1, <2>3, <4>1 DEF JournalSays
        <3>. QED
            BY <3>1, <3>2
    <2>. QED
        BY <1>g, <1>5, <1>9, <2>1, <2>3 DEF JournalSays, Before
<1>13. ProcessKnows(p)'
    <2>1. /\ proc'[p].pc = "apply" /\ proc'[p].txn = t
          /\ proc'[p].ops = ops /\ proc'[p].at = at + 1
        BY <1>1, <1>2, <1>5 DEF Process
    <2>2. ASSUME NEW i \in DOMAIN ops
          PROVE  /\ ops[i].applied <=> i < at + 1
                 /\ ops[i].file \notin Lost =>
                        /\ Unclaimed(t, ops[i].file)'
                        /\ i < at + 1 => target'[ops[i].file] = ops[i].new
        <3>1. i \in Nat /\ at \in Nat /\ (i < at + 1 <=> i < at \/ i = at)
            OBVIOUS
        <3>2. /\ ops[i].applied <=> i < at \/ i = at
              /\ ops[i].file \notin Lost =>
                     /\ Unclaimed(t, ops[i].file)
                     /\ i < at => target[ops[i].file] = ops[i].new
            BY <1>1, <1>3, <1>6 DEF Commits
        <3>3. i < at => i # at
            BY <3>1
        <3>. QED
            BY <1>4, <1>7, <1>9, <3>1, <3>2, <3>3
    <2>3. /\ \A i \in DOMAIN ops : staged'[t][ops[i].file] = ops[i].new
          /\ DOMAIN staged'[t] = {ops[i].file : i \in DOMAIN ops} /\ fate'[t] = "open"
        BY <1>5, <1>6 DEF Commits
    <2>4. Commits(p, t, ops)'
        BY <1>g, <1>5, <1>6, <2>1, <2>2, <2>3 DEF Commits
    <2>. QED
        BY <1>2, <1>5, <2>1, <2>4 DEF ProcessKnows
<1>14. ASSUME NEW g \in Files, NEW v, Finds(g, v)
       PROVE  Finds(g, v)'
    <2>1. CASE g = f
        <3>1. PICK u \in Txns : \E i \in InDoubt(u) :
                  journal[u].ops[i].file = g /\ v = Before(journal[u].ops[i])
            BY <1>4, <1>6, <1>8, <1>14, <2>1 DEF Finds
        <3>. QED
            BY <1>5, <1>9, <3>1 DEF Finds, Before
    <2>2. CASE g # f
        BY <1>5, <1>7, <1>9, <1>14, <2>2 DEF Finds, Before
    <2>. QED
        BY <2>1, <2>2
<1>. QED
    BY <1>g, <1>1, <1>5, <1>10, <1>11, <1>12, <1>13, <1>14 DEF Truth, FindsTheSame

\* A rollback restores what a recovery would restore.
LEMMA RestoreKeeps ==
    ASSUME TypeOK, Indices, Locks, Truth, NEW p \in Procs, Restore(p)
    PROVE  Truth' /\ FindsTheSame
<1>. USE DEF Grows
<1>g. Lost' = Lost /\ Grows
    BY SameLost DEF Restore
<1>1. /\ proc \in [Procs -> Process] /\ target \in [Files -> Content]
      /\ DOMAIN staged = Txns /\ ProcessKnows(p) /\ proc[p].pc = "undo" /\ Unconflicted
    BY DEF TypeOK, Truth, Restore
<1>2. PICK t \in Txns, ops \in Seq(Operation), jops \in Seq(Operation) :
         /\ t = proc[p].txn /\ ops = proc[p].ops /\ JournalSays(t) /\ dir[t] = "present"
         /\ jops = journal[t].ops
    BY <1>1, OwnTransaction DEF Engaged, Undoing
<1>3. PICK k \in DOMAIN ops : k = LastApplied(ops)
    BY <1>2, LastAppliedExists DEF Restore
<1>4. k \in Applied(ops) /\ Applied(ops) # {}
    <2>1. Applied(ops) # {}
        BY <1>2 DEF Restore
    <2>. QED
        BY <1>3, <2>1, LastAppliedExists
<1>5. PICK f \in Files : f = ops[k].file
    <2>1. ops[k] \in Operation
        OBVIOUS
    <2>. QED
        BY <2>1 DEF Operation
<1>6. /\ proc' = [proc EXCEPT ![p].pc = "restored"]
      /\ target' = [target EXCEPT ![f] = Before(ops[k])]
      /\ UNCHANGED <<dir, journal, staged, fate>>
    BY <1>2, <1>3, <1>5 DEF Restore
<1>7. Undoes(p, t, ops)
    BY <1>1, <1>2 DEF ProcessKnows
<1>8. /\ DOMAIN jops = DOMAIN ops
      /\ \A i \in DOMAIN ops : /\ jops[i].file = ops[i].file /\ jops[i].new = ops[i].new
                               /\ jops[i].backup = ops[i].backup /\ Before(jops[i]) = Before(ops[i])
                               /\ ops[i].file \in Files
      /\ \A i \in DOMAIN ops : i # k => ops[i].file # f
      /\ ops[k].applied
      /\ f \notin Lost => Unclaimed(t, f) /\ (~ jops[k].applied => target[f] = Before(ops[k]))
    <2>1. DOMAIN jops = DOMAIN ops /\ ops[k].applied
        BY <1>2, <1>4, <1>7 DEF Undoes, Applied
    <2>2. \A i \in DOMAIN ops : /\ jops[i].file = ops[i].file /\ jops[i].new = ops[i].new
                                /\ jops[i].backup = ops[i].backup
        BY <1>2, <1>7 DEF Undoes
    <2>3. \A i \in DOMAIN ops : ops[i] \in Operation
        OBVIOUS
    <2>4. \A i \in DOMAIN ops : ops[i].file \in Files
        BY <2>3 DEF Operation
    <2>5. \A i, j \in DOMAIN jops : jops[i].file = jops[j].file => i = j
        BY <1>2 DEF JournalSays
    <2>6. f \notin Lost => Unclaimed(t, f) /\ (~ jops[k].applied => target[f] = Before(ops[k]))
        BY <1>2, <1>5, <1>7, <2>1 DEF Undoes
    <2>. QED
        BY <1>5, <2>1, <2>2, <2>4, <2>5, <2>6 DEF Before
<1>9. /\ target'[f] = Before(ops[k])
      /\ \A g \in Files \ {f} : target'[g] = target[g]
    BY <1>1, <1>6
<1>10. /\ InDoubt(t) \subseteq DOMAIN ops
       /\ f \notin Lost => InDoubt(t) = Applied(jops)
    <2>1. f \notin Lost => t \notin withdrawn
        <3>1. f \in DOMAIN staged[t]
            BY <1>2, <1>5, <1>8 DEF JournalSays
        <3>. QED
            BY <3>1, WithdrawnLost
    <2>. QED
        BY <1>2, <1>7, <1>8, <2>1 DEF InDoubt, Present, Applied, Undoes
<1>11. /\ \A u \in Txns : InDoubt(u)' = InDoubt(u)
       /\ \A u, g : Unclaimed(u, g)' <=> Unclaimed(u, g)
       /\ f \notin Lost => \A u \in Txns \ {t} : \A i \in InDoubt(u) : journal[u].ops[i].file # f
    BY <1>6, <1>8, DoubtUnchanged DEF Unclaimed
<1>12. \A q \in Procs \ {p} : ProcessKnows(q)'
    <2>1. proc[p].pc \in Critical \cap Engaged
        BY <1>1 DEF Critical, Engaged, Undoing
    <2>2. \A q \in Procs \ {p} : proc'[q] = proc[q]
        BY <1>1, <1>6
    <2>. QED
        BY <1>g, <1>2, <1>6, <2>1, <2>2, CriticalStep
<1>13. Unconflicted'
    BY <1>g, <1>1, <1>6, <1>11 DEF Unconflicted
<1>14. ASSUME NEW u \in Txns
       PROVE  JournalSays(u)'
    <2>1. JournalSays(u) /\ \A i \in DOMAIN journal[u].ops : journal[u].ops[i].file \in Files
        <3>1. journal[u].ops \in Seq(Operation)
            BY DEF TypeOK, Journal
        <3>2. \A i \in DOMAIN journal[u].ops : journal[u].ops[i] \in Operation
            BY <3>1
        <3>. QED
            BY <3>2 DEF Truth, Operation
    <2>2. InDoubt(u) \subseteq DOMAIN journal[u].ops
        BY DEF InDoubt, Applied
    <2>3. ASSUME NEW i \in InDoubt(u), journal[u].ops[i].file \notin Lost
          PROVE  target'[journal[u].ops[i].file] \in {journal[u].ops[i].new, Before(journal[u].ops[i])}
        <3>1. CASE u = t /\ i = k
            BY <1>2, <1>5, <1>8, <1>9, <3>1
        <3>2. CASE ~ (u = t /\ i = k)
            <4>1. journal[u].ops[i].file # f /\ journal[u].ops[i].file \in Files
                BY <1>2, <1>8, <1>10, <1>11, <2>1, <2>2, <2>3, <3>2
            <4>. QED
                BY <1>9, <2>1, <2>3, <4>1 DEF JournalSays
        <3>. QED
            BY <3>1, <3>2
    <2>. QED
        BY <1>g, <1>6, <1>11, <2>1, <2>3 DEF JournalSays, Before
<1>15. ProcessKnows(p)'
    <2>1. proc'[p].pc = "restored" /\ proc'[p].txn = t /\ proc'[p].ops = ops
        BY <1>1, <1>2, <1>6 DEF Process
    <2>2. ASSUME NEW i \in DOMAIN ops
          PROVE  /\ jops[i].applied => ops[i].applied
                 /\ ops[i].applied /\ ops[i].file \notin Lost =>
                        /\ Unclaimed(t, ops[i].file)'
                        /\ ~ jops[i].applied => target'[ops[i].file] = Before(ops[i])
        <3>1. /\ jops[i].applied => ops[i].applied
              /\ ops[i].applied /\ ops[i].file \notin Lost =>
                     /\ Unclaimed(t, ops[i].file)
                     /\ ~ jops[i].applied => target[ops[i].file] = Before(ops[i])
            BY <1>2, <1>7 DEF Undoes
        <3>. QED
            BY <1>5, <1>8, <1>9, <1>11, <3>1
    <2>3. Undoes(p, t, ops)'
        <3>1. /\ t \notin withdrawn => fate[t] # "committed" /\ journal[t].state # "committed"
              /\ journal[t].state # "unreadable" /\ Len(ops) = Len(jops)
            BY <1>2, <1>7 DEF Undoes
        <3>2. \A i \in DOMAIN ops : i = LastApplied(ops) => target'[ops[i].file] = Before(ops[i])
            BY <1>3, <1>5, <1>9
        <3>. QED
            BY <1>g, <1>2, <1>4, <1>6, <1>8, <2>1, <2>2, <3>1, <3>2 DEF Undoes, Before
    <2>. QED
        BY <1>2, <1>6, <2>1, <2>3 DEF ProcessKnows
<1>16. ASSUME NEW g \in Files \ Lost, NEW v, Finds(g, v)
       PROVE  Finds(g, v)'
    <2>1. CASE g = f /\ k \in InDoubt(t)
        <3>1. PICK u \in Txns : \E i \in InDoubt(u) :
                  journal[u].ops[i].file = g /\ v = Before(journal[u].ops[i])
            BY <1>2, <1>5, <1>8, <1>10, <1>16, <2>1 DEF Finds
        <3>. QED
            BY <1>6, <1>11, <3>1 DEF Finds, Before
    <2>2. CASE g # f \/ k \notin InDoubt(t)
        <3>1. target'[g] = target[g]
            BY <1>8, <1>9, <1>10, <1>16, <2>2 DEF Applied
        <3>. QED
            BY <1>6, <1>11, <1>16, <3>1 DEF Finds, Before
    <2>. QED
        BY <2>1, <2>2
<1>. QED
    BY <1>g, <1>1, <1>6, <1>12, <1>13, <1>14, <1>15, <1>16 DEF Truth, FindsTheSame

\* What the journal no longer holds for applied has been restored; what it now
\* holds for applied and did not before is as it was.
LEMMA PersistRollingBackKeeps ==
    ASSUME TypeOK, Indices, Locks, Truth, NEW p \in Procs, PersistRollingBack(p)
    PROVE  Truth' /\ FindsTheSame
<1>. USE DEF Grows
<1>g. Lost' = Lost /\ Grows
    BY SameLost DEF PersistRollingBack
<1>1. /\ proc \in [Procs -> Process] /\ journal \in [Txns -> Journal]
      /\ DOMAIN staged = Txns /\ ProcessKnows(p) /\ proc[p].pc = "restored" /\ Unconflicted
    BY DEF TypeOK, Truth, PersistRollingBack
<1>2. PICK t \in Txns, old \in Seq(Operation), jops \in Seq(Operation) :
         /\ t = proc[p].txn /\ old = proc[p].ops /\ JournalSays(t) /\ dir[t] = "present"
         /\ jops = journal[t].ops
    BY <1>1, OwnTransaction DEF Engaged, Undoing
<1>3. Undoes(p, t, old)
    BY <1>1, <1>2 DEF ProcessKnows
<1>4. PICK k \in DOMAIN old : k = LastApplied(old)
    BY <1>1, <1>3, LastAppliedExists DEF Undoes
<1>5. PICK ops : ops = [old EXCEPT ![k].applied = FALSE]
    OBVIOUS
<1>6. /\ ops \in Seq(Operation) /\ Len(ops) = Len(old) /\ DOMAIN ops = DOMAIN old
      /\ \A i \in DOMAIN old \ {k} : ops[i] = old[i]
      /\ \A i \in DOMAIN old : /\ ops[i].file = old[i].file /\ ops[i].new = old[i].new
                               /\ ops[i].backup = old[i].backup
      /\ ops[k].applied = FALSE
    BY <1>5, UndoneFields
<1>7. /\ proc' = [proc EXCEPT ![p].pc = "undo", ![p].ops = ops]
      /\ journal' = [journal EXCEPT ![t] = [state |-> "rolling_back", ops |-> ops]]
      /\ UNCHANGED <<target, dir, staged, fate>>
    BY <1>2, <1>4, <1>5 DEF PersistRollingBack, Persist
<1>8. journal'[t].ops = ops /\ journal'[t].state = "rolling_back"
    BY <1>1, <1>7
<1>9. /\ DOMAIN jops = DOMAIN old
      /\ \A i \in DOMAIN old :
             /\ jops[i].file = old[i].file /\ jops[i].new = old[i].new
             /\ Before(jops[i]) = Before(old[i])
             /\ jops[i].applied => old[i].applied
             /\ old[i].applied /\ old[i].file \notin Lost =>
                    /\ Unclaimed(t, old[i].file)
                    /\ ~ jops[i].applied => target[old[i].file] = Before(old[i])
             /\ old[i].file \notin Lost => t \notin withdrawn
      /\ old[k].file \notin Lost => target[old[k].file] = Before(old[k])
      /\ old[k].applied
      /\ t \notin withdrawn => fate[t] # "committed"
    <2>1. DOMAIN jops = DOMAIN old /\ (t \notin withdrawn => fate[t] # "committed")
        BY <1>2, <1>3 DEF Undoes
    <2>2. Applied(old) # {} /\ (old[k].file \notin Lost => target[old[k].file] = Before(old[k]))
        BY <1>1, <1>3, <1>4 DEF Undoes
    <2>3. k \in Applied(old)
        BY <1>4, <2>2, LastAppliedExists
    <2>4. \A i \in DOMAIN old :
             /\ jops[i].file = old[i].file /\ jops[i].new = old[i].new
             /\ jops[i].backup = old[i].backup
             /\ jops[i].applied => old[i].applied
             /\ old[i].applied /\ old[i].file \notin Lost =>
                    /\ Unclaimed(t, old[i].file)
                    /\ ~ jops[i].applied => target[old[i].file] = Before(old[i])
        BY <1>2, <1>3 DEF Undoes
    <2>5. \A i \in DOMAIN old : old[i].file \notin Lost => t \notin withdrawn
        <3>1. \A i \in DOMAIN old : old[i].file \in DOMAIN staged[t]
            BY <1>2, <2>1, <2>4 DEF JournalSays
        <3>. QED
            BY <3>1, WithdrawnLost
    <2>. QED
        BY <2>1, <2>2, <2>3, <2>4, <2>5 DEF Applied, Before
<1>10. /\ InDoubt(t) \subseteq {i \in DOMAIN old : jops[i].applied}
       /\ t \notin withdrawn => InDoubt(t) = {i \in DOMAIN old : jops[i].applied}
       /\ InDoubt(t)' = {i \in DOMAIN old : i # k /\ old[i].applied}
    <2>1. /\ InDoubt(t) \subseteq {i \in DOMAIN old : jops[i].applied}
          /\ t \notin withdrawn => InDoubt(t) = {i \in DOMAIN old : jops[i].applied}
        BY <1>2, <1>3, <1>9 DEF InDoubt, Present, Applied, Undoes
    <2>2. InDoubt(t)' = {i \in DOMAIN ops : ops[i].applied}
        BY <1>2, <1>7, <1>8 DEF InDoubt, Present, Applied
    <2>. QED
        BY <1>6, <2>1, <2>2
<1>11. /\ \A q \in Procs \ {p} : ProcessKnows(q)'
       /\ \A u \in Txns \ {t} : InDoubt(u)' = InDoubt(u) /\ journal'[u] = journal[u]
    <2>1. proc[p].pc \in Critical \cap Engaged
        BY <1>1 DEF Critical, Engaged, Undoing
    <2>2. /\ \A q \in Procs \ {p} : proc'[q] = proc[q]
          /\ \A u \in Txns \ {t} : journal'[u] = journal[u]
        BY <1>1, <1>7
    <2>3. dir' = dir /\ fate' = fate /\ staged' = staged
        BY <1>7
    <2>. QED
        BY <1>g, <1>2, <2>1, <2>2, <2>3, CriticalStep
<1>12. Unconflicted' /\ \A f : Unclaimed(t, f)' <=> Unclaimed(t, f)
    <2>1. \A i \in InDoubt(t)' :
              journal'[t].ops[i].file \notin Lost => Unclaimed(t, journal'[t].ops[i].file)
        BY <1>6, <1>8, <1>9, <1>10
    <2>. QED
        BY <1>g, <1>1, <1>11, <2>1, ConflictFree
<1>13. /\ \A i, j \in DOMAIN old : old[i].file = old[j].file => i = j
       /\ \A i \in DOMAIN old : old[i].new \in {t, Absent} /\ old[i].file \in DOMAIN staged[t]
    <2>1. /\ \A i, j \in DOMAIN jops : jops[i].file = jops[j].file => i = j
          /\ \A i \in DOMAIN jops : jops[i].new \in {t, Absent} /\ jops[i].file \in DOMAIN staged[t]
        BY <1>2 DEF JournalSays
    <2>. QED
        BY <1>9, <2>1
<1>14. JournalSays(t)'
    <2>1. /\ \A i, j \in DOMAIN ops : ops[i].file = ops[j].file => i = j
          /\ \A i \in DOMAIN ops : ops[i].new \in {t, Absent} /\ ops[i].file \in DOMAIN staged[t]
        BY <1>6, <1>13
    <2>2. ASSUME NEW i \in InDoubt(t)', ops[i].file \notin Lost
          PROVE  target[ops[i].file] \in {ops[i].new, Before(ops[i])}
        <3>1. i \in DOMAIN old /\ ops[i] = old[i] /\ old[i].applied /\ t \notin withdrawn
            BY <1>6, <1>9, <1>10, <2>2
        <3>2. CASE jops[i].applied
            <4>1. i \in InDoubt(t) /\ jops[i].file \notin Lost
                BY <1>9, <1>10, <2>2, <3>1, <3>2
            <4>2. target[jops[i].file] \in {jops[i].new, Before(jops[i])}
                BY <1>2, <4>1 DEF JournalSays
            <4>. QED
                BY <1>9, <3>1, <4>2
        <3>3. CASE ~ jops[i].applied
            BY <1>9, <2>2, <3>1, <3>3
        <3>. QED
            BY <3>2, <3>3
    <2>3. /\ t \notin withdrawn => fate'[t] # "committed"
          /\ dir'[t] = "present" /\ target' = target /\ staged' = staged
        BY <1>2, <1>7, <1>9
    <2>. QED
        BY <1>g, <1>8, <1>10, <2>1, <2>2, <2>3 DEF JournalSays, Before
<1>15. \A u \in Txns \ {t} : JournalSays(u)'
    BY <1>g, <1>7, <1>11 DEF Truth, JournalSays, Before
<1>16. ProcessKnows(p)'
    <2>1. proc'[p].pc = "undo" /\ proc'[p].txn = t /\ proc'[p].ops = ops
        BY <1>1, <1>2, <1>7 DEF Process
    <2>2. \A i \in DOMAIN ops : ops[i].applied /\ ops[i].file \notin Lost => Unclaimed(t, ops[i].file)'
        BY <1>6, <1>9, <1>12
    <2>3. Undoes(p, t, ops)'
        BY <1>g, <1>7, <1>8, <1>9, <2>1, <2>2 DEF Undoes
    <2>. QED
        BY <1>2, <1>7, <2>1, <2>3 DEF ProcessKnows
<1>17. ASSUME NEW f \in Files \ Lost, NEW v, Finds(f, v)
       PROVE  Finds(f, v)'
    <2>1. CASE \E i \in DOMAIN old : old[i].applied /\ old[i].file = f
        <3>1. PICK i \in DOMAIN old : old[i].applied /\ old[i].file = f
            BY <2>1
        <3>0. t \notin withdrawn
            BY <1>9, <1>17, <3>1
        <3>2. /\ \A u \in Txns \ {t} : \A j \in InDoubt(u) : journal[u].ops[j].file # f
              /\ \A j \in InDoubt(t) : journal[t].ops[j].file = f => j = i
            <4>1. \A u \in Txns \ {t} : \A j \in InDoubt(u) : journal[u].ops[j].file # f
                BY <1>9, <1>17, <3>1 DEF Unclaimed
            <4>2. \A j \in InDoubt(t) : journal[t].ops[j].file = f => j = i
                <5>1. \A j \in DOMAIN old : old[j].file = f => j = i
                    BY <1>13, <3>1
                <5>. QED
                    BY <1>2, <1>9, <1>10, <5>1
            <4>. QED
                BY <4>1, <4>2
        <3>3. v = Before(old[i])
            <4>1. CASE jops[i].applied
                <5>1. i \in InDoubt(t) /\ journal[t].ops[i].file = f
                    BY <1>2, <1>9, <1>10, <3>0, <3>1, <4>1
                <5>2. PICK u \in Txns : \E j \in InDoubt(u) :
                         journal[u].ops[j].file = f /\ v = Before(journal[u].ops[j])
                    BY <1>17, <5>1 DEF Finds
                <5>3. PICK j \in InDoubt(u) :
                         journal[u].ops[j].file = f /\ v = Before(journal[u].ops[j])
                    BY <5>2
                <5>4. u = t /\ j = i
                    BY <3>2, <5>3
                <5>. QED
                    BY <1>2, <1>9, <5>3, <5>4
            <4>2. CASE ~ jops[i].applied
                <5>1. i \notin InDoubt(t)
                    BY <1>10, <4>2
                <5>2. v = target[f]
                    BY <1>17, <3>2, <5>1 DEF Finds
                <5>. QED
                    BY <1>9, <1>17, <3>1, <4>2, <5>2
            <4>. QED
                BY <4>1, <4>2
        <3>4. CASE i = k
            <4>1. v = target'[f]
                BY <1>7, <1>9, <1>17, <3>1, <3>3, <3>4
            <4>2. \A u \in Txns : \A j \in InDoubt(u)' : journal'[u].ops[j].file # f
                BY <1>6, <1>8, <1>10, <1>11, <1>13, <3>1, <3>2, <3>4
            <4>. QED
                BY <4>1, <4>2 DEF Finds
        <3>5. CASE i # k
            <4>1. i \in InDoubt(t)' /\ journal'[t].ops[i] = old[i]
                BY <1>6, <1>8, <1>10, <3>1, <3>5
            <4>. QED
                BY <3>1, <3>3, <4>1 DEF Finds, Before
        <3>. QED
            BY <3>4, <3>5
    <2>2. CASE ~ \E i \in DOMAIN old : old[i].applied /\ old[i].file = f
        <3>1. /\ \A i \in InDoubt(t) : journal[t].ops[i].file # f
              /\ \A i \in InDoubt(t)' : journal'[t].ops[i].file # f
            <4>1. \A i \in InDoubt(t) : i \in DOMAIN old /\ jops[i].applied
                BY <1>10
            <4>2. \A i \in InDoubt(t) : jops[i].file = old[i].file /\ old[i].applied
                BY <1>9, <4>1
            <4>3. \A i \in InDoubt(t)' : i \in DOMAIN old /\ old[i].applied /\ ops[i].file = old[i].file
                BY <1>6, <1>10
            <4>. QED
                BY <1>2, <1>8, <2>2, <4>1, <4>2, <4>3
        <3>. QED
            BY <1>7, <1>11, <1>17, <3>1 DEF Finds, Before
    <2>. QED
        BY <2>1, <2>2
<1>. QED
    BY <1>g, <1>1, <1>7, <1>11, <1>12, <1>14, <1>15, <1>16, <1>17 DEF Truth, FindsTheSame

\* A reader who finds what the transaction staged, and everything else as it was.
FindsStaged(t) ==
    \A f \in Files \ Lost' : \A v : Finds(f, v) =>
        Finds(f, IF f \in DOMAIN staged[t] THEN staged[t][f] ELSE v)'

\* With the committed journal all of the changes count at once.
LEMMA PersistCommittedKeeps ==
    ASSUME TypeOK, Indices, Locks, Truth, NEW p \in Procs, PersistCommitted(p)
    PROVE  /\ Truth'
           /\ \E t \in Txns : /\ fate[t] = "open" /\ fate' = [fate EXCEPT ![t] = "committed"]
                              /\ staged' = staged
                              /\ FindsStaged(t)
<1>. USE DEF Grows
<1>g. Lost' = Lost /\ Grows
    BY SameLost DEF PersistCommitted
<1>1. /\ proc \in [Procs -> Process] /\ journal \in [Txns -> Journal]
      /\ fate \in [Txns -> {"open", "committed", "aborted"}]
      /\ DOMAIN staged = Txns /\ ProcessKnows(p) /\ proc[p].pc = "apply" /\ Unconflicted
    BY DEF TypeOK, Truth, PersistCommitted
<1>2. PICK t \in Txns, ops \in Seq(Operation) :
         /\ t = proc[p].txn /\ ops = proc[p].ops /\ JournalSays(t) /\ dir[t] = "present"
    BY <1>1, OwnTransaction DEF Engaged, Writing
<1>3. /\ proc' = [proc EXCEPT ![p].pc = "durable"]
      /\ journal' = [journal EXCEPT ![t] = [state |-> "committed", ops |-> ops]]
      /\ fate' = [fate EXCEPT ![t] = "committed"]
      /\ UNCHANGED <<target, dir, staged>>
    BY <1>2 DEF PersistCommitted, Persist
<1>4. Commits(p, t, ops) /\ journal[t].ops = ops /\ journal[t].state \in {"staging", "committing"}
      /\ fate[t] = "open"
    BY <1>1, <1>2 DEF ProcessKnows, Commits
<1>5. \A i \in DOMAIN ops : /\ ops[i].file \notin Lost => /\ target[ops[i].file] = ops[i].new
                                                         /\ Unclaimed(t, ops[i].file)
                            /\ staged[t][ops[i].file] = ops[i].new
    <2>1. proc[p].at \in Nat /\ proc[p].at > Len(ops)
        BY <1>1, <1>2 DEF PersistCommitted, AllApplied, Process
    <2>2. \A i \in DOMAIN ops : i < proc[p].at
        BY <2>1
    <2>. QED
        BY <1>1, <1>4, <2>2 DEF Commits
<1>6. journal'[t].ops = ops /\ journal'[t].state = "committed" /\ fate'[t] = "committed"
    BY <1>1, <1>3
<1>7. InDoubt(t)' = {} /\ InDoubt(t) \subseteq DOMAIN ops
    BY <1>4, <1>6 DEF InDoubt, Applied
<1>8. /\ \A q \in Procs \ {p} : ProcessKnows(q)'
      /\ \A u \in Txns \ {t} : InDoubt(u)' = InDoubt(u) /\ journal'[u] = journal[u]
                               /\ fate'[u] = fate[u]
    <2>1. proc[p].pc \in Critical \cap Engaged
        BY <1>1 DEF Critical, Engaged, Writing
    <2>2. /\ \A q \in Procs \ {p} : proc'[q] = proc[q]
          /\ \A u \in Txns \ {t} : journal'[u] = journal[u] /\ fate'[u] = fate[u]
        BY <1>1, <1>3
    <2>3. dir' = dir /\ staged' = staged
        BY <1>3
    <2>. QED
        BY <1>g, <1>2, <2>1, <2>2, <2>3, CriticalStep
<1>9. Unconflicted'
    <2>1. \A i \in InDoubt(t)' : Unclaimed(t, journal'[t].ops[i].file)
        BY <1>7
    <2>. QED
        BY <1>g, <1>1, <1>8, <2>1, ConflictFree
<1>10. JournalSays(t)'
    <2>1. dir'[t] = "present"
        BY <1>2, <1>3
    <2>2. /\ \A i, j \in DOMAIN ops : ops[i].file = ops[j].file => i = j
          /\ \A i \in DOMAIN ops : ops[i].new \in {t, Absent} /\ ops[i].file \in DOMAIN staged[t]
        BY <1>2, <1>4 DEF JournalSays
    <2>. QED
        BY <1>3, <1>6, <1>7, <2>1, <2>2 DEF JournalSays
<1>11. \A u \in Txns \ {t} : JournalSays(u)'
    BY <1>g, <1>3, <1>8 DEF Truth, JournalSays, Before
<1>12. ProcessKnows(p)'
    <2>1. proc'[p].pc = "durable" /\ proc'[p].txn = t /\ proc'[p].ops = ops
        BY <1>1, <1>2, <1>3 DEF Process
    <2>. QED
        BY <1>2, <1>3, <1>6, <2>1 DEF ProcessKnows
<1>13. FindsStaged(t)
    <2>0. DOMAIN staged[t] = {ops[i].file : i \in DOMAIN ops}
        BY <1>4 DEF Commits
    <2>1. ASSUME NEW f \in Files \ Lost, NEW v, Finds(f, v), f \in DOMAIN staged[t]
          PROVE  Finds(f, staged[t][f])'
        <3>1. PICK i \in DOMAIN ops : f = ops[i].file
            BY <2>0, <2>1
        <3>2. PICK c : c = staged[t][f]
            OBVIOUS
        <3>3. c = target'[f]
            BY <1>3, <1>5, <2>1, <3>1, <3>2
        <3>4. \A u \in Txns : \A j \in InDoubt(u)' : journal'[u].ops[j].file # f
            BY <1>5, <1>7, <1>8, <2>1, <3>1 DEF Unclaimed
        <3>5. Finds(f, c)'
            BY <3>3, <3>4 DEF Finds
        <3>6. staged'[t][f] = c
            BY <1>3, <3>2
        <3>. QED
            BY <3>5, <3>6 DEF Finds
    <2>2. ASSUME NEW f \in Files \ Lost, NEW v, Finds(f, v), f \notin DOMAIN staged[t]
          PROVE  Finds(f, v)'
        <3>1. \A i \in InDoubt(t) : journal[t].ops[i].file # f
            BY <1>4, <1>7, <2>0, <2>2
        <3>. QED
            BY <1>3, <1>7, <1>8, <2>2, <3>1 DEF Finds, Before
    <2>. QED
        BY <1>g, <1>3, <2>1, <2>2 DEF FindsStaged
<1>. QED
    BY <1>1, <1>3, <1>4, <1>8, <1>9, <1>10, <1>11, <1>12, <1>13 DEF Truth

-----------------------------------------------------------------------------
(* Atomicity *)

(* A file in doubt is to be put back by one operation of one transaction: the *)
(* recovery finds one content, whatever order it takes them in.              *)
FindsRecovered == \A f \in Files \ Lost : \A v : Finds(f, v) <=> v = Recovered[f]

LEMMA FindsOne == TypeOK /\ Truth => FindsRecovered
<1>. SUFFICES ASSUME TypeOK, Truth, NEW f \in Files \ Lost, NEW v
              PROVE  Finds(f, v) <=> v = Recovered[f]
    BY DEF FindsRecovered
<1>1. Recovered[f] = IF Undone(f) = {} THEN target[f] ELSE Before(CHOOSE o \in Undone(f) : TRUE)
    BY DEF Recovered
<1>2. CASE \A t \in Txns : \A i \in InDoubt(t) : journal[t].ops[i].file # f
    <2>1. Undone(f) = {}
        BY <1>2 DEF Undone
    <2>. QED
        BY <1>1, <1>2, <2>1 DEF Finds
<1>3. CASE \E t \in Txns : \E i \in InDoubt(t) : journal[t].ops[i].file = f
    <2>1. PICK t \in Txns : \E i \in InDoubt(t) : journal[t].ops[i].file = f
        BY <1>3
    <2>2. PICK i \in InDoubt(t) : journal[t].ops[i].file = f
        BY <2>1
    <2>3. PICK o : o = journal[t].ops[i]
        OBVIOUS
    <2>4. \A u \in Txns : \A j \in InDoubt(u) : journal[u].ops[j].file = f => journal[u].ops[j] = o
        <3>1. ASSUME NEW u \in Txns, NEW j \in InDoubt(u), journal[u].ops[j].file = f
              PROVE  journal[u].ops[j] = o
            <4>1. u = t
                BY <2>2, <3>1 DEF Truth, Unconflicted, Unclaimed
            <4>2. j \in DOMAIN journal[t].ops /\ i \in DOMAIN journal[t].ops
                BY <2>2, <3>1, <4>1 DEF InDoubt, Applied
            <4>3. JournalSays(t)
                BY DEF Truth
            <4>4. j = i
                BY <2>2, <3>1, <4>1, <4>2, <4>3 DEF JournalSays
            <4>. QED
                BY <2>3, <4>1, <4>4
        <3>. QED
            BY <3>1
    <2>5. Undone(f) = {o}
        BY <2>2, <2>3, <2>4 DEF Undone
    <2>6. (CHOOSE x \in Undone(f) : TRUE) = o
        BY <2>5
    <2>7. Recovered[f] = Before(o)
        BY <1>1, <2>5, <2>6
    <2>8. Finds(f, v) => v = Before(o)
        BY <2>2, <2>4 DEF Finds
    <2>9. v = Before(o) => Finds(f, v)
        BY <2>2, <2>3 DEF Finds
    <2>. QED
        BY <2>7, <2>8, <2>9
<1>. QED
    BY <1>2, <1>3

\* A step that keeps the view keeps what a reader finds.
LEMMA ViewFinds == SameView => FindsTheSame
BY DEF SameView, FindsTheSame, Finds, Before

\* What a step is, seen through recovery.
Effect ==
    /\ Grows
    /\ \/ FindsTheSame /\ UNCHANGED <<staged, fate>>
       \/ \E t \in Txns, f \in Files : \E new \in {t, Absent} :
              /\ FindsTheSame
              /\ fate[t] = "open" /\ f \notin DOMAIN staged[t]
              /\ staged' = [staged EXCEPT ![t] =
                               [g \in DOMAIN @ \cup {f} |-> IF g = f THEN new ELSE @[g]]]
              /\ fate' = fate
       \/ \E t \in Txns :
              /\ FindsTheSame
              /\ fate[t] = "open" \/ (fate[t] = "committed" /\ DOMAIN staged[t] \subseteq Lost)
              /\ fate' = [fate EXCEPT ![t] = "aborted"]
              /\ staged' = staged
       \/ \E t \in Txns :
              /\ FindsStaged(t)
              /\ fate[t] = "open" /\ fate' = [fate EXCEPT ![t] = "committed"]
              /\ staged' = staged

(* No step takes back what is exempt. *)
LEMMA OnlyGrows == TypeOK /\ Indices /\ DOMAIN staged = Txns /\ [Next]_vars => Grows
<1>. SUFFICES ASSUME TypeOK, Indices, DOMAIN staged = Txns, [Next]_vars PROVE Grows
    OBVIOUS
<1>1. ASSUME NEW p \in Procs, NEW f \in Files, NEW new \in {proc[p].txn, Absent}, Stage(p, f, new)
      PROVE  Grows
    BY <1>1, StageGrows
<1>2. ASSUME NEW p \in Procs, LockControl(p) \/ CommitFault(p)
      PROVE  Grows
    <2>1. /\ overlapped \subseteq overlapped' /\ withdrawn \subseteq withdrawn'
          /\ staged' = staged
        BY <1>2 DEF LockControl, CommitFault
    <2>. QED
        BY <2>1 DEF Grows, Lost
<1>3. CASE UNCHANGED <<staged, exempt>>
    BY <1>3, SameLost
<1>4. \/ UNCHANGED <<staged, exempt>>
      \/ \E p \in Procs : LockControl(p) \/ CommitFault(p)
      \/ \E p \in Procs, f \in Files : \E new \in {proc[p].txn, Absent} : Stage(p, f, new)
    BY StepCases DEF MakeDirectory, PreviewRefused, SkipActive, LoadInactive,
       LoadRefused, TakeOwnerLock, PersistStaging, PersistCommitting, KeepBackup,
       PersistIntent, ChangeTarget, PersistCommitted, SyncRoot, Restore, PersistRollingBack,
       PersistRolledBack, RemoveJournal, RemoveDirectory, StartRecovery, EndRecovery, Preview,
       PreviewEmpty, UndoFault, Crash, Exit, vars
<1>. QED
    BY <1>1, <1>2, <1>3, <1>4

(* Staging, the decision to commit and the end of a rollback are the steps    *)
(* that show; every other one leaves what a reader would find.               *)
LEMMA StepEffect ==
    ASSUME TypeOK, Indices, Locks, Truth, [Next]_vars
    PROVE  Truth' /\ Effect
<1>g. Grows
    BY OnlyGrows DEF Truth
<1>1. ASSUME NEW p \in Procs, NEW f \in Files, NEW new \in {proc[p].txn, Absent}, Stage(p, f, new)
      PROVE  Truth' /\ Effect
    <2>1. PICK t \in Txns : t = proc[p].txn /\ fate[t] = "open" /\ f \notin DOMAIN staged[t]
        <3>1. proc[p].pc = "staging" /\ ProcessKnows(p)
            BY <1>1 DEF Stage, Truth
        <3>2. PICK t \in Txns : t = proc[p].txn
            BY <3>1 DEF Indices, Writing
        <3>3. /\ fate[t] = "open"
              /\ DOMAIN staged[t] = {proc[p].ops[i].file : i \in DOMAIN proc[p].ops}
            BY <3>1, <3>2 DEF ProcessKnows, Commits
        <3>4. \A i \in DOMAIN proc[p].ops : proc[p].ops[i].file # f
            BY <1>1 DEF Stage
        <3>. QED
            BY <3>2, <3>3, <3>4
    <2>2. /\ staged' = [staged EXCEPT ![t] =
                           [g \in DOMAIN @ \cup {f} |-> IF g = f THEN new ELSE @[g]]]
          /\ fate' = fate
        BY <1>1, <2>1 DEF Stage
    <2>3. Truth' /\ FindsTheSame
        BY <1>1, StageKeeps, ViewFinds
    <2>. QED
        BY <1>g, <2>1, <2>2, <2>3 DEF Effect
<1>2. ASSUME NEW p \in Procs, PersistRolledBack(p)
      PROVE  Truth' /\ Effect
    <2>1. Truth' /\ FindsTheSame
        BY <1>2, PersistRolledBackKeeps, ViewFinds
    <2>2. PICK t \in Txns : /\ t = proc[p].txn /\ fate[t] \in {"open", "aborted", "committed"}
                            /\ fate[t] = "committed" => t \in withdrawn
        <3>1. proc[p].pc = "undo" /\ ProcessKnows(p)
            BY <1>2 DEF PersistRolledBack, Truth
        <3>2. PICK t \in Txns : t = proc[p].txn
            BY <3>1 DEF Indices, Undoing
        <3>. QED
            BY <3>1, <3>2 DEF ProcessKnows, Undoes, TypeOK
    <2>3. fate' = [fate EXCEPT ![t] = "aborted"] /\ staged' = staged
        BY <1>2, <2>2 DEF PersistRolledBack
    <2>4. CASE fate[t] \in {"open", "committed"}
        <3>1. fate[t] = "committed" => DOMAIN staged[t] \subseteq Lost
            BY <2>2, WithdrawnLost
        <3>. QED
            BY <1>g, <2>1, <2>3, <2>4, <3>1 DEF Effect
    <2>5. CASE fate[t] = "aborted"
        <3>1. fate' = fate
            BY <2>3, <2>5 DEF TypeOK
        <3>. QED
            BY <1>g, <2>1, <2>3, <3>1 DEF Effect
    <2>. QED
        BY <2>2, <2>4, <2>5
<1>3. ASSUME NEW p \in Procs, PersistCommitted(p)
      PROVE  Truth' /\ Effect
    BY <1>g, <1>3, PersistCommittedKeeps DEF Effect
<1>4. ASSUME NEW p \in Procs, LockControl(p)
      PROVE  Truth' /\ Effect
    BY <1>g, <1>4, LockControlKeeps, ViewFinds DEF LockControl, Effect
<1>6. ASSUME NEW p \in Procs, NEW t \in Txns, MakeDirectory(p, t) \/ LoadInactive(p, t)
      PROVE  Truth' /\ Effect
    BY <1>g, <1>6, MakeDirectoryKeeps, LoadInactiveKeeps, ViewFinds DEF MakeDirectory, LoadInactive, Effect
<1>7. ASSUME NEW p \in Procs,
             TakeOwnerLock(p) \/ PersistStaging(p) \/ PersistCommitting(p) \/ KeepBackup(p) \/ SyncRoot(p)
      PROVE  Truth' /\ Effect
    <2>1. Truth' /\ FindsTheSame
        BY <1>7, TakeOwnerLockKeeps, PersistStagingKeeps, PersistCommittingKeeps, KeepBackupKeeps,
           SyncRootKeeps, ViewFinds
    <2>2. UNCHANGED <<staged, fate>>
        BY <1>7 DEF TakeOwnerLock, PersistStaging, PersistCommitting, KeepBackup, SyncRoot
    <2>. QED
        BY <1>g, <2>1, <2>2 DEF Effect
<1>8. ASSUME NEW p \in Procs,
             CommitFault(p) \/ RemoveJournal(p) \/ RemoveDirectory(p) \/ UndoFault(p)
      PROVE  Truth' /\ Effect
    <2>1. Truth' /\ FindsTheSame
        BY <1>8, CommitFaultKeeps, LateFaultKeeps, RemoveJournalKeeps, RemoveDirectoryKeeps, UndoFaultKeeps, ViewFinds
    <2>2. UNCHANGED <<staged, fate>>
        BY <1>8 DEF CommitFault, RemoveJournal, RemoveDirectory, UndoFault
    <2>. QED
        BY <1>g, <2>1, <2>2 DEF Effect
<1>9. ASSUME NEW p \in Procs,
             PersistIntent(p) \/ ChangeTarget(p) \/ Restore(p) \/ PersistRollingBack(p)
      PROVE  Truth' /\ Effect
    <2>1. Truth' /\ FindsTheSame
        BY <1>9, PersistIntentKeeps, ChangeTargetKeeps, RestoreKeeps, PersistRollingBackKeeps
    <2>2. UNCHANGED <<staged, fate>>
        BY <1>9 DEF PersistIntent, ChangeTarget, Restore, PersistRollingBack
    <2>. QED
        BY <1>g, <2>1, <2>2 DEF Effect
<1>10. ASSUME NEW p \in Procs,
              \/ \E t \in Txns : PreviewRefused(p, t) \/ SkipActive(p, t) \/ LoadRefused(p, t)
              \/ StartRecovery(p) \/ EndRecovery(p) \/ Preview(p) \/ Crash(p) \/ Exit(p)
       PROVE  Truth' /\ Effect
    <2>1. Truth' /\ FindsTheSame
        BY <1>10, OtherStepsKeep, ViewFinds
    <2>2. UNCHANGED <<staged, fate>>
        BY <1>10 DEF PreviewRefused, SkipActive, LoadRefused, StartRecovery, EndRecovery, Preview,
           Crash, Exit
    <2>. QED
        BY <1>g, <2>1, <2>2 DEF Effect
<1>11. ASSUME UNCHANGED vars
       PROVE  Truth' /\ Effect
    <2>1. UNCHANGED <<target, dir, journal, staged, fate, proc, exempt>>
        BY <1>11 DEF vars
    <2>2. /\ \A t : InDoubt(t)' = InDoubt(t)
          /\ \A t, f : Unclaimed(t, f)' <=> Unclaimed(t, f)
        BY <2>1, DoubtUnchanged
    <2>3. SameView
        BY <2>1, <2>2 DEF SameView
    <2>4. Truth'
        <3>1. CASE Procs = {}
            <4>1. DOMAIN staged' = Txns /\ Unconflicted'
                BY <1>g, <2>1, <2>2 DEF Truth, Unconflicted, Grows
            <4>2. \A t \in Txns : JournalSays(t)'
                BY <1>g, <2>1, <2>2 DEF Truth, JournalSays, Before, Grows
            <4>. QED
                BY <3>1, <4>1, <4>2 DEF Truth
        <3>2. CASE Procs # {}
            <4>1. PICK p \in Procs : TRUE
                BY <3>2
            <4>2. ProcessKnows(p)'
                <5>1. PICK t, ops : t = proc[p].txn /\ ops = proc[p].ops /\ t = proc'[p].txn /\ ops = proc'[p].ops
                    BY <2>1
                <5>2. Begins(p, t) => Begins(p, t)'
                    BY <2>1 DEF Begins
                <5>3. Commits(p, t, ops) => Commits(p, t, ops)'
                    BY <1>g, <2>1, <2>2 DEF Commits, Before, Grows
                <5>4. Undoes(p, t, ops) => Undoes(p, t, ops)'
                    BY <1>g, <2>1, <2>2 DEF Undoes, Before, Grows
                <5>5. ProcessKnows(p)
                    BY <4>1 DEF Truth
                <5>. QED
                    BY <2>1, <2>2, <5>1, <5>2, <5>3, <5>4, <5>5 DEF ProcessKnows
            <4>. QED
                BY <1>g, <2>1, <4>2, LocalStep
        <3>. QED
            BY <3>1, <3>2
    <2>. QED
        BY <1>g, <2>1, <2>3, <2>4, ViewFinds DEF Effect
<1>12. CASE UNCHANGED vars
    BY <1>11, <1>12
<1>. QED
    BY StepCases, <1>1, <1>2, <1>3, <1>4, <1>6, <1>7, <1>8, <1>9, <1>10, <1>12 DEF PreviewEmpty

-----------------------------------------------------------------------------
(* The results *)

(* Journals, files and processes have their types and locks at every step. *)
LEMMA Invariants == Spec => [](TypeOK /\ Indices /\ Locks)
<1>1. Init => Locks
    BY FsAssumption DEF Init, Locks, Engaged, Writing, Undoing, Critical, Idle
<1>. QED
    BY <1>1, TypeCorrect, LocksPreserved, PTL DEF Spec

(* At the start there is no journal, and nothing is in doubt. *)
LEMMA TruthAtFirst ==
    ASSUME Init
    PROVE  Truth /\ Atomic!Init
<1>1. /\ \A t \in Txns : InDoubt(t) = {} /\ journal[t] = NoJournal /\ fate[t] = "open"
                         /\ dir[t] = "unused" /\ DOMAIN staged[t] = {}
      /\ \A p \in Procs : proc[p] = Idle
      /\ DOMAIN staged = Txns
    BY DEF Init, InDoubt, Present
<1>2. ASSUME NEW t \in Txns PROVE JournalSays(t)
    BY <1>1 DEF JournalSays, NoJournal
<1>3. Unconflicted
    BY <1>1 DEF Unconflicted
<1>4. ASSUME NEW p \in Procs PROVE ProcessKnows(p)
    <2>1. proc[p] = Idle
        BY <1>1
    <2>2. proc[p].pc = "idle"
        BY <2>1 DEF Idle
    <2>3. "idle" \notin Engaged
        BY DEF Engaged, Writing, Undoing
    <2>. QED
        BY <2>1, <2>2, <2>3 DEF ProcessKnows
<1>5. Atomic!Init
    <2>1. UNION {{journal[t].ops[i] : i \in InDoubt(t)} : t \in Txns} = {}
        BY <1>1
    <2>2. \A f \in Files : Undone(f) = {}
        BY <2>1 DEF Undone
    <2>3. Recovered = [f \in Files |-> target[f]]
        BY <2>2 DEF Recovered
    <2>4. Recovered \in [Files -> {Original, Absent}]
        BY <2>3 DEF Init
    <2>. QED
        BY <2>4 DEF Init, Atomic!Init, Lost
<1>. QED
    BY <1>1, <1>2, <1>3, <1>4, <1>5 DEF Truth

(* Wherever every process is, whoever is killed and whatever fails then,      *)
(* journals, files and memory agree: a file in doubt that is not Lost holds   *)
(* what it held before its transaction or what that transaction shall put     *)
(* there, its backup is the content before, only one transaction has it in    *)
(* doubt, and a rollback undoes no more than the journal and its own intent   *)
(* say; only a withdrawn transaction is rolled back after it was committed.   *)
THEOREM JournalsTellTheTruth == Spec => []Truth
<1>1. Init => Truth
    BY TruthAtFirst
<1>2. TypeOK /\ Indices /\ Locks /\ Truth /\ [Next]_vars => Truth'
    BY StepEffect
<1>. QED
    BY <1>1, <1>2, Invariants, PTL DEF Spec

\* What a reader finds is what the abstract files hold: a step's effect on the one
\* is a step of the other.
LEMMA EffectIsAtomic ==
    ASSUME FindsRecovered, FindsRecovered', Effect
    PROVE  [Atomic!Next]_(Atomic!vars)
<1>g. Lost \subseteq Lost'
    BY DEF Effect, Grows
<1>2. ASSUME FindsTheSame PROVE Atomic!Holds(Recovered)
    <2>1. ASSUME NEW f \in Files \ Lost' PROVE Recovered'[f] = Recovered[f]
        <3>1. PICK v : v = Recovered[f]
            OBVIOUS
        <3>2. Finds(f, v)
            BY <1>g, <3>1 DEF FindsRecovered
        <3>3. Finds(f, v)'
            BY <1>2, <3>2 DEF FindsTheSame
        <3>. QED
            BY <3>1, <3>3 DEF FindsRecovered
    <2>. QED
        BY <2>1 DEF Atomic!Holds
<1>3. ASSUME NEW t \in Txns, FindsStaged(t), staged' = staged
      PROVE  Atomic!Holds([f \in Files |-> IF f \in DOMAIN staged[t] THEN staged[t][f] ELSE Recovered[f]])
    <2>1. ASSUME NEW f \in Files \ Lost'
          PROVE  Recovered'[f] = IF f \in DOMAIN staged[t] THEN staged[t][f] ELSE Recovered[f]
        <3>1. PICK v : v = Recovered[f]
            OBVIOUS
        <3>2. PICK c : c = IF f \in DOMAIN staged[t] THEN staged[t][f] ELSE v
            OBVIOUS
        <3>3. Finds(f, v)
            BY <1>g, <3>1 DEF FindsRecovered
        <3>4. Finds(f, c)'
            BY <1>3, <3>2, <3>3 DEF FindsStaged
        <3>. QED
            BY <3>1, <3>2, <3>4 DEF FindsRecovered
    <2>. QED
        BY <2>1 DEF Atomic!Holds
<1>4. CASE FindsTheSame /\ UNCHANGED <<staged, fate>>
    BY <1>g, <1>2, <1>4 DEF Atomic!Lose, Atomic!Next
<1>5. ASSUME NEW t \in Txns, NEW f \in Files, NEW new \in {t, Absent},
             FindsTheSame, fate[t] = "open", f \notin DOMAIN staged[t],
             staged' = [staged EXCEPT ![t] =
                           [g \in DOMAIN @ \cup {f} |-> IF g = f THEN new ELSE @[g]]],
             fate' = fate
      PROVE  Atomic!Next
    <2>1. Atomic!Stage(t, f, new)
        BY <1>2, <1>5 DEF Atomic!Stage
    <2>. QED
        BY <1>g, <2>1 DEF Atomic!Next
<1>6. ASSUME NEW t \in Txns, FindsTheSame,
             fate[t] = "open" \/ (fate[t] = "committed" /\ DOMAIN staged[t] \subseteq Lost),
             fate' = [fate EXCEPT ![t] = "aborted"], staged' = staged
      PROVE  Atomic!Next
    BY <1>g, <1>2, <1>6 DEF Atomic!Abort, Atomic!Next
<1>7. ASSUME NEW t \in Txns, FindsStaged(t), fate[t] = "open",
             fate' = [fate EXCEPT ![t] = "committed"], staged' = staged
      PROVE  Atomic!Next
    BY <1>g, <1>3, <1>7 DEF Atomic!Commit, Atomic!Next
<1>. QED
    BY <1>4, <1>5, <1>6, <1>7 DEF Effect

(* ADR-0036: a transaction takes effect in one step or not at all.  Whatever  *)
(* is interrupted or fails when, what everybody would find after recovery of  *)
(* a file that is not Lost changes only when a "committed" journal becomes    *)
(* durable, and then by all that the transaction staged.  A commit is taken   *)
(* back only where all its files are Lost.                                   *)
THEOREM TransactionsAreAtomic == Spec => TransactionsAtomic
<1>1. Init => Atomic!Init
    BY TruthAtFirst
<1>2. TypeOK /\ Indices /\ Locks /\ Truth /\ TypeOK' /\ Truth' /\ [Next]_vars
          => [Atomic!Next]_(Atomic!vars)
    <2>1. TypeOK /\ Truth => FindsRecovered
        BY FindsOne
    <2>2. TypeOK' /\ Truth' => FindsRecovered'
        BY <2>1, PTL
    <2>. QED
        BY <2>1, <2>2, StepEffect, EffectIsAtomic
<1>. QED
    BY <1>1, <1>2, Invariants, JournalsTellTheTruth, PTL
       DEF Spec, TransactionsAtomic, Atomic!Spec

(* A rollback touches no file that holds what a committed transaction wrote  *)
(* and is not Lost: what it would put back is there already.                 *)
LEMMA RestoreSpares ==
    ASSUME TypeOK, Indices, Locks, Truth, NEW p \in Procs, Restore(p), NEW f \in Files \ Lost,
           target[f] \in Txns, fate[target[f]] = "committed"
    PROVE  target'[f] = target[f]
<1>1. /\ target \in [Files -> Content] /\ ProcessKnows(p) /\ proc[p].pc = "undo"
    BY DEF TypeOK, Truth, Restore
<1>2. PICK t \in Txns, ops \in Seq(Operation), jops \in Seq(Operation) :
         /\ t = proc[p].txn /\ ops = proc[p].ops /\ JournalSays(t) /\ dir[t] = "present"
         /\ jops = journal[t].ops
    BY <1>1, OwnTransaction DEF Engaged, Undoing
<1>3. Applied(ops) # {}
    BY <1>2 DEF Restore
<1>4. PICK k \in DOMAIN ops : k = LastApplied(ops) /\ ops[k].applied
    BY <1>3, LastAppliedExists DEF Applied
<1>5. target' = [target EXCEPT ![ops[k].file] = Before(ops[k])]
    BY <1>2, <1>4 DEF Restore
<1>6. /\ k \in DOMAIN jops
      /\ ops[k].file = jops[k].file /\ ops[k].new = jops[k].new
      /\ ops[k].backup = jops[k].backup
      /\ f = ops[k].file =>
             /\ fate[t] # "committed" /\ journal[t].state # "committed"
             /\ ~ jops[k].applied => target[f] = Before(ops[k])
    <2>1. Undoes(p, t, ops)
        BY <1>1, <1>2 DEF ProcessKnows
    <2>2. DOMAIN ops = DOMAIN jops
        BY <1>2, <2>1 DEF Undoes
    <2>3. /\ ops[k].file = jops[k].file /\ ops[k].new = jops[k].new
          /\ ops[k].backup = jops[k].backup
        BY <1>2, <2>1 DEF Undoes
    <2>4. f = ops[k].file => t \notin withdrawn
        <3>1. ops[k].file \in DOMAIN staged[t]
            BY <1>2, <2>2, <2>3 DEF JournalSays
        <3>. QED
            BY <3>1, WithdrawnLost
    <2>5. f = ops[k].file => fate[t] # "committed" /\ journal[t].state # "committed"
        BY <2>1, <2>4 DEF Undoes
    <2>6. f = ops[k].file /\ ~ jops[k].applied => target[f] = Before(ops[k])
        BY <1>2, <1>4, <2>1 DEF Undoes
    <2>. QED
        BY <1>4, <2>2, <2>3, <2>5, <2>6
<1>7. CASE f # ops[k].file
    BY <1>1, <1>5, <1>7
<1>8. CASE f = ops[k].file /\ ~ jops[k].applied
    BY <1>1, <1>5, <1>6, <1>8
<1>9. CASE f = ops[k].file /\ jops[k].applied
    <2>1. k \in InDoubt(t)
        BY <1>2, <1>6, <1>9 DEF InDoubt, Applied, Present
    <2>2. target[f] \in {jops[k].new, Before(jops[k])} /\ jops[k].new \in {t, Absent}
        BY <1>2, <1>6, <1>9, <2>1 DEF JournalSays
    <2>3. target[f] # jops[k].new
        BY <1>6, <1>9, <2>2, FsAssumption
    <2>4. Before(jops[k]) = Before(ops[k])
        BY <1>6 DEF Before
    <2>. QED
        BY <1>1, <1>5, <1>9, <2>2, <2>3, <2>4
<1>. QED
    BY <1>7, <1>8, <1>9

(* ADR-0036, TS-0021: what a committed transaction wrote changes only by the *)
(* commit of another one.  No rollback, by its writer or by recovery, by one *)
(* that was itself interrupted or was retried, takes it back unless the file *)
(* is Lost.                                                                  *)
THEOREM CommittedIsKept == Spec => CommittedContentKept
<1>1. ASSUME TypeOK, Indices, Locks, Truth, [Next]_vars, NEW f \in Files \ Lost,
             target[f] \in Txns, fate[target[f]] = "committed", target'[f] # target[f]
      PROVE  \E p \in Procs : proc[p].pc = "change" /\ Current(p).file = f
    <2>1. ASSUME NEW p \in Procs, ChangeTarget(p)
          PROVE  proc[p].pc = "change" /\ Current(p).file = f
        BY <1>1, <2>1 DEF ChangeTarget, TypeOK
    <2>2. ASSUME NEW p \in Procs, Restore(p)
          PROVE  FALSE
        BY <1>1, <2>2, RestoreSpares
    <2>3. CASE target' = target
        BY <1>1, <2>3
    <2>4. \/ target' = target
          \/ \E p \in Procs : ChangeTarget(p) \/ Restore(p)
        BY <1>1, StepCases DEF MakeDirectory, Stage, PreviewRefused, SkipActive, LoadInactive,
           LoadRefused, TakeOwnerLock, PersistStaging, LockControl, PersistCommitting, KeepBackup,
           PersistIntent, PersistCommitted, SyncRoot, PersistRollingBack, PersistRolledBack,
           RemoveJournal, RemoveDirectory, StartRecovery, EndRecovery, Preview, PreviewEmpty,
           CommitFault, UndoFault, Crash, Exit, vars
    <2>. QED
        BY <2>1, <2>2, <2>3, <2>4
<1>2. TypeOK /\ Indices /\ Locks /\ Truth /\ [Next]_vars
          => [\A f \in Files \ Lost :
                 /\ target[f] \in Txns
                 /\ fate[target[f]] = "committed"
                 /\ target'[f] # target[f]
                 => \E p \in Procs : proc[p].pc = "change" /\ Current(p).file = f]_vars
    BY <1>1
<1>. QED
    BY <1>2, Invariants, JournalsTellTheTruth, PTL DEF Spec, CommittedContentKept

-----------------------------------------------------------------------------
(* Transactions with files of their own *)

Within(ops, t) == \A i \in DOMAIN ops : ops[i].file \in Footprint[t]

\* Neither a journal nor an object in memory leaves its transaction's files.
OwnFiles ==
    /\ \A t \in Txns : Within(journal[t].ops, t)
    /\ \A p \in Procs :
           /\ proc[p].pc = "idle" => proc[p].ops = <<>>
           /\ proc[p].pc \in Engaged => Within(proc[p].ops, proc[p].txn)

(* Updating a field other than the file's name leaves the files. *)
LEMMA WithinUpdate ==
    ASSUME NEW ops \in Seq(Operation), NEW t, Within(ops, t), NEW i, NEW b, NEW k
    PROVE  /\ Within([ops EXCEPT ![i].applied = b], t)
           /\ Within([ops EXCEPT ![i].backup = k], t)
<1>1. \A j \in DOMAIN ops : ops[j] \in Operation
    OBVIOUS
<1>2. ASSUME NEW j \in DOMAIN ops
      PROVE  /\ [ops EXCEPT ![i].applied = b][j].file = ops[j].file
             /\ [ops EXCEPT ![i].backup = k][j].file = ops[j].file
    BY <1>1 DEF Operation
<1>. QED
    BY <1>2 DEF Within

(* A step of one process that journals at most the operations of its own      *)
(* transaction, and these in its files.                                      *)
LEMMA OwnStep ==
    ASSUME TypeOK, OwnFiles, NEW p \in Procs, NEW q, proc' = [proc EXCEPT ![p] = q],
           q.pc = "idle" => q.ops = <<>>,
           q.pc \in Engaged => Within(q.ops, q.txn),
           \A t \in Txns : Within(journal'[t].ops, t)
    PROVE  OwnFiles'
<1>1. proc'[p] = q /\ \A r \in Procs \ {p} : proc'[r] = proc[r]
    BY DEF TypeOK
<1>2. ASSUME NEW r \in Procs
      PROVE  /\ proc'[r].pc = "idle" => proc'[r].ops = <<>>
             /\ proc'[r].pc \in Engaged => Within(proc'[r].ops, proc'[r].txn)
    <2>1. CASE r = p
        BY <1>1, <2>1
    <2>2. CASE r # p
        BY <1>1, <2>2 DEF OwnFiles
    <2>. QED
        BY <2>1, <2>2
<1>. QED
    BY <1>2 DEF OwnFiles, Within

(* Only staging adds an operation, and only on a file of the footprint. *)
LEMMA OwnFilesKept == TypeOK /\ Indices /\ OwnFiles /\ [Next]_vars => OwnFiles'
<1>. SUFFICES ASSUME TypeOK, Indices, OwnFiles, [Next]_vars PROVE OwnFiles'
    OBVIOUS
<1>0. /\ proc \in [Procs -> Process] /\ journal \in [Txns -> Journal]
      /\ \A p \in Procs : proc[p].ops \in Seq(Operation)
      /\ \A t \in Txns : journal[t].ops \in Seq(Operation) /\ Within(journal[t].ops, t)
    BY DEF TypeOK, Process, Journal, OwnFiles
<1>. DEFINE Fits(q) == /\ q.pc = "idle" => q.ops = <<>>
                       /\ q.pc \in Engaged => Within(q.ops, q.txn)
<1>1. ASSUME NEW p \in Procs, NEW q, proc' = [proc EXCEPT ![p] = q], Fits(q), journal' = journal
      PROVE  OwnFiles'
    BY <1>0, <1>1, OwnStep
<1>2. ASSUME NEW p \in Procs, NEW q, proc' = [proc EXCEPT ![p] = q], Fits(q),
             NEW t \in Txns, NEW state, NEW ops, Within(ops, t), Persist(t, state, ops)
      PROVE  OwnFiles'
    <2>1. \A u \in Txns : Within(journal'[u].ops, u)
        BY <1>0, <1>2 DEF Persist
    <2>. QED
        BY <1>2, <2>1, OwnStep
<1>. HIDE DEF Fits
<1>3. \A t : Within(<<>>, t)
    BY DEF Within
<1>4. \A p \in Procs : /\ proc[p].pc \in Engaged => proc[p].txn \in Txns
                                                   /\ Within(proc[p].ops, proc[p].txn)
                       /\ proc[p].pc = "idle" => proc[p].ops = <<>>
    BY DEF OwnFiles, Indices, Engaged
<1>5. ASSUME NEW p \in Procs, NEW f \in Files, NEW new \in {proc[p].txn, Absent}, Stage(p, f, new)
      PROVE  OwnFiles'
    <2>1. PICK t, ops : t = proc[p].txn
                        /\ ops = Append(proc[p].ops, [file |-> f, new |-> new, applied |-> FALSE,
                                                      backup |-> NoBackup])
        OBVIOUS
    <2>2. t \in Txns /\ Within(proc[p].ops, t) /\ f \in Footprint[t]
        BY <1>4, <1>5, <2>1 DEF Stage, Engaged, Writing
    <2>3. Within(ops, t)
        BY <1>0, <2>1, <2>2 DEF Within
    <2>4. PICK q : q = [proc[p] EXCEPT !.ops = ops]
        OBVIOUS
    <2>5. /\ proc' = [proc EXCEPT ![p] = q] /\ Persist(t, "staging", ops)
          /\ q.ops = ops /\ q.txn = t /\ q.pc = "staging"
        BY <1>0, <1>5, <2>1, <2>4 DEF Stage, Process
    <2>. QED
        BY <1>2, <2>2, <2>3, <2>5 DEF Fits
<1>6. ASSUME NEW p \in Procs, NEW t \in Txns, MakeDirectory(p, t)
      PROVE  OwnFiles'
    <2>1. PICK q : q = [proc[p] EXCEPT !.pc = "created", !.txn = t]
        OBVIOUS
    <2>2. proc' = [proc EXCEPT ![p] = q] /\ journal' = journal /\ q.ops = <<>> /\ q.pc = "created"
        BY <1>0, <1>4, <1>6, <2>1 DEF MakeDirectory, Process
    <2>. QED
        BY <1>1, <1>3, <2>2 DEF Fits
<1>7. ASSUME NEW p \in Procs, NEW t \in Txns, LoadInactive(p, t)
      PROVE  OwnFiles'
    <2>1. PICK q : q = [proc[p] EXCEPT !.pc = NextStep(journal[t].state), !.txn = t,
                                       !.ops = journal[t].ops, !.todo = @ \ {t}]
        OBVIOUS
    <2>2. /\ proc' = [proc EXCEPT ![p] = q] /\ journal' = journal
          /\ q.ops = journal[t].ops /\ q.txn = t /\ q.pc \in {"cleanup", "undo"}
        BY <1>0, <1>7, <2>1 DEF LoadInactive, Process, NextStep
    <2>. QED
        BY <1>0, <1>1, <2>2 DEF Fits
<1>8. ASSUME NEW p \in Procs, PersistStaging(p)
      PROVE  OwnFiles'
    <2>1. PICK q, t : q = [proc[p] EXCEPT !.pc = "staging"] /\ t = proc[p].txn
        OBVIOUS
    <2>2. /\ proc' = [proc EXCEPT ![p] = q] /\ Persist(t, "staging", <<>>) /\ t \in Txns
          /\ q.ops = proc[p].ops /\ q.txn = t /\ q.pc = "staging" /\ Within(proc[p].ops, t)
        BY <1>0, <1>4, <1>8, <2>1 DEF PersistStaging, Process, Engaged, Writing
    <2>. QED
        BY <1>2, <1>3, <2>2 DEF Fits
\* The steps that journal the operations they have, one of them updated or not.
<1>9. ASSUME NEW p \in Procs,
             \/ PersistCommitting(p) \/ KeepBackup(p) \/ PersistIntent(p) \/ PersistCommitted(p)
             \/ PersistRollingBack(p) \/ PersistRolledBack(p)
      PROVE  OwnFiles'
    <2>1. PICK t : t = proc[p].txn /\ t \in Txns /\ Within(proc[p].ops, t)
        BY <1>4, <1>9 DEF PersistCommitting, KeepBackup, PersistIntent, PersistCommitted,
           PersistRollingBack, PersistRolledBack, Engaged, Writing, Undoing
    <2>2. \E ops, state, q :
              /\ proc' = [proc EXCEPT ![p] = q] /\ Persist(t, state, ops)
              /\ Within(ops, t) /\ q.txn = t /\ q.pc # "idle" /\ q.ops = ops
        <3>1. CASE PersistCommitting(p)
            <4>1. PICK q : q = [proc[p] EXCEPT !.pc = "apply", !.at = 1]
                OBVIOUS
            <4>2. proc' = [proc EXCEPT ![p] = q] /\ Persist(t, "committing", proc[p].ops)
                BY <1>0, <2>1, <3>1, <4>1 DEF PersistCommitting, Process
            <4>3. q.txn = t /\ q.pc # "idle" /\ q.ops = proc[p].ops
                BY <1>0, <2>1, <4>1 DEF Process
            <4>. QED
                BY <2>1, <4>2, <4>3
        <3>2. CASE KeepBackup(p)
            <4>1. PICK ops : ops = [proc[p].ops EXCEPT ![proc[p].at].backup = BackupOf(Current(p).file)]
                OBVIOUS
            <4>2. PICK q : q = [proc[p] EXCEPT !.pc = "intent", !.ops = ops]
                OBVIOUS
            <4>3. proc' = [proc EXCEPT ![p] = q] /\ Persist(t, "committing", ops)
                BY <1>0, <2>1, <3>2, <4>1, <4>2 DEF KeepBackup, Process
            <4>4. q.txn = t /\ q.pc # "idle" /\ q.ops = ops
                BY <1>0, <2>1, <4>2 DEF Process
            <4>5. Within(ops, t)
                BY <1>0, <2>1, <4>1, WithinUpdate
            <4>. QED
                BY <4>3, <4>4, <4>5
        <3>3. CASE PersistIntent(p)
            <4>1. PICK ops : ops = [proc[p].ops EXCEPT ![proc[p].at].applied = TRUE]
                OBVIOUS
            <4>2. PICK q : q = [proc[p] EXCEPT !.pc = "change", !.ops = ops]
                OBVIOUS
            <4>3. proc' = [proc EXCEPT ![p] = q] /\ Persist(t, "committing", ops)
                BY <1>0, <2>1, <3>3, <4>1, <4>2 DEF PersistIntent, Process
            <4>4. q.txn = t /\ q.pc # "idle" /\ q.ops = ops
                BY <1>0, <2>1, <4>2 DEF Process
            <4>5. Within(ops, t)
                BY <1>0, <2>1, <4>1, WithinUpdate
            <4>. QED
                BY <4>3, <4>4, <4>5
        <3>4. CASE PersistCommitted(p)
            <4>1. PICK q : q = [proc[p] EXCEPT !.pc = "durable"]
                OBVIOUS
            <4>2. proc' = [proc EXCEPT ![p] = q] /\ Persist(t, "committed", proc[p].ops)
                BY <1>0, <2>1, <3>4, <4>1 DEF PersistCommitted, Process
            <4>3. q.txn = t /\ q.pc # "idle" /\ q.ops = proc[p].ops
                BY <1>0, <2>1, <4>1 DEF Process
            <4>. QED
                BY <2>1, <4>2, <4>3
        <3>5. CASE PersistRollingBack(p)
            <4>1. PICK ops : ops = [proc[p].ops EXCEPT ![LastApplied(proc[p].ops)].applied = FALSE]
                OBVIOUS
            <4>2. PICK q : q = [proc[p] EXCEPT !.pc = "undo", !.ops = ops]
                OBVIOUS
            <4>3. proc' = [proc EXCEPT ![p] = q] /\ Persist(t, "rolling_back", ops)
                BY <1>0, <2>1, <3>5, <4>1, <4>2 DEF PersistRollingBack, Process
            <4>4. q.txn = t /\ q.pc # "idle" /\ q.ops = ops
                BY <1>0, <2>1, <4>2 DEF Process
            <4>5. Within(ops, t)
                BY <1>0, <2>1, <4>1, WithinUpdate
            <4>. QED
                BY <4>3, <4>4, <4>5
        <3>6. CASE PersistRolledBack(p)
            <4>1. PICK q : q = [proc[p] EXCEPT !.pc = "cleanup"]
                OBVIOUS
            <4>2. proc' = [proc EXCEPT ![p] = q] /\ Persist(t, "rolled_back", proc[p].ops)
                BY <1>0, <2>1, <3>6, <4>1 DEF PersistRolledBack, Process
            <4>3. q.txn = t /\ q.pc # "idle" /\ q.ops = proc[p].ops
                BY <1>0, <2>1, <4>1 DEF Process
            <4>. QED
                BY <2>1, <4>2, <4>3
        <3>. QED
            BY <1>9, <3>1, <3>2, <3>3, <3>4, <3>5, <3>6
    <2>3. PICK ops, state, q :
              /\ proc' = [proc EXCEPT ![p] = q] /\ Persist(t, state, ops)
              /\ Within(ops, t) /\ q.txn = t /\ q.pc # "idle" /\ q.ops = ops
        BY <2>2
    <2>. QED
        BY <1>2, <2>1, <2>3 DEF Fits
\* The steps that journal nothing and keep their operations.
<1>10. ASSUME NEW p \in Procs,
              \/ TakeOwnerLock(p) \/ LockControl(p) \/ ChangeTarget(p) \/ SyncRoot(p) \/ Restore(p)
              \/ UndoFault(p)
       PROVE  OwnFiles'
    <2>1. /\ proc[p].pc \in Engaged /\ journal' = journal
          /\ \E pc, at : proc' = [proc EXCEPT ![p].pc = pc, ![p].at = at] /\ pc # "idle"
        <3>1. CASE ChangeTarget(p)
            <4>1. PICK at : at = proc[p].at + 1
                OBVIOUS
            <4>2. proc' = [proc EXCEPT ![p].pc = "apply", ![p].at = at]
                BY <1>0, <3>1, <4>1 DEF ChangeTarget
            <4>3. proc[p].pc \in Engaged /\ journal' = journal
                BY <3>1 DEF ChangeTarget, Engaged, Writing
            <4>4. "apply" # "idle"
                OBVIOUS
            <4>. QED
                BY <4>2, <4>3, <4>4
        <3>2. CASE TakeOwnerLock(p) \/ LockControl(p) \/ SyncRoot(p) \/ Restore(p) \/ UndoFault(p)
            <4>1. \E pc : proc' = [proc EXCEPT ![p].pc = pc] /\ pc # "idle"
                BY <3>2 DEF TakeOwnerLock, LockControl, SyncRoot, Restore, UndoFault
            <4>2. PICK pc : proc' = [proc EXCEPT ![p].pc = pc] /\ pc # "idle"
                BY <4>1
            <4>3. [proc[p] EXCEPT !.pc = pc] = [proc[p] EXCEPT !.pc = pc, !.at = proc[p].at]
                BY <1>0 DEF Process
            <4>4. proc' = [proc EXCEPT ![p].pc = pc, ![p].at = proc[p].at]
                BY <1>0, <4>2, <4>3
            <4>. QED
                BY <3>2, <4>2, <4>4 DEF TakeOwnerLock, LockControl, SyncRoot, Restore, UndoFault,
                   Engaged, Writing, Undoing
        <3>. QED
            BY <1>10, <3>1, <3>2
    <2>2. PICK pc, at : proc' = [proc EXCEPT ![p].pc = pc, ![p].at = at] /\ pc # "idle"
        BY <2>1
    <2>3. PICK q : q = [proc[p] EXCEPT !.pc = pc, !.at = at]
        OBVIOUS
    <2>4. proc' = [proc EXCEPT ![p] = q] /\ q.pc = pc /\ q.ops = proc[p].ops /\ q.txn = proc[p].txn
        BY <1>0, <2>2, <2>3 DEF Process
    <2>. QED
        BY <1>1, <1>4, <2>1, <2>2, <2>4 DEF Fits
<1>11. ASSUME NEW p \in Procs, CommitFault(p)
       PROVE  OwnFiles'
    <2>1. PICK t : t = proc[p].txn /\ Within(proc[p].ops, t)
        BY <1>4, <1>11 DEF CommitFault, Engaged, Writing
    <2>2. PICK ops \in {proc[p].ops, [proc[p].ops EXCEPT ![proc[p].at].applied = TRUE]} :
              proc' = [proc EXCEPT ![p].pc = "undo", ![p].ops = ops]
        BY <1>11 DEF CommitFault
    <2>3. Within(ops, t)
        <3>1. Within([proc[p].ops EXCEPT ![proc[p].at].applied = TRUE], t)
            BY <1>0, <2>1, WithinUpdate
        <3>. QED
            BY <2>1, <2>2, <3>1
    <2>4. PICK q : q = [proc[p] EXCEPT !.pc = "undo", !.ops = ops]
        OBVIOUS
    <2>5. proc' = [proc EXCEPT ![p] = q] /\ q.pc = "undo" /\ q.ops = ops /\ q.txn = t
        BY <1>0, <2>1, <2>2, <2>4 DEF Process
    <2>6. journal' = journal
        BY <1>11 DEF CommitFault
    <2>. QED
        BY <1>1, <2>3, <2>5, <2>6 DEF Fits
<1>12. ASSUME NEW p \in Procs, RemoveJournal(p)
       PROVE  OwnFiles'
    <2>1. PICK t, q : t = proc[p].txn /\ q = [proc[p] EXCEPT !.pc = "cleaning"]
        OBVIOUS
    <2>2. /\ proc' = [proc EXCEPT ![p] = q] /\ q.pc = "cleaning" /\ q.ops = proc[p].ops /\ q.txn = t
          /\ t \in Txns /\ Within(proc[p].ops, t) /\ journal' = [journal EXCEPT ![t] = NoJournal]
        BY <1>0, <1>4, <1>12, <2>1 DEF RemoveJournal, Process, Engaged, Undoing
    <2>3. Persist(t, "unreadable", <<>>)
        BY <2>2 DEF Persist, NoJournal
    <2>. QED
        BY <1>2, <1>3, <2>2, <2>3 DEF Fits
\* The steps after which a process has no transaction.
<1>13. ASSUME NEW p \in Procs,
              \/ RemoveDirectory(p) \/ EndRecovery(p) \/ Crash(p) \/ Exit(p)
              \/ \E t \in Txns : LoadRefused(p, t)
       PROVE  OwnFiles'
    <2>1. /\ journal' = journal
          /\ \E q : /\ proc' = [proc EXCEPT ![p] = q] /\ q.ops = <<>>
        <3>1. CASE RemoveDirectory(p) /\ proc[p].recovering
            <4>1. PICK q : q = [proc[p] EXCEPT !.pc = "scan", !.txn = NoTxn, !.ops = <<>>]
                OBVIOUS
            <4>2. proc' = [proc EXCEPT ![p] = q] /\ q.ops = <<>> /\ journal' = journal
                BY <1>0, <3>1, <4>1 DEF RemoveDirectory, Process
            <4>. QED
                BY <4>2
        <3>2. CASE \/ RemoveDirectory(p) /\ ~ proc[p].recovering
                   \/ EndRecovery(p) \/ Crash(p) \/ Exit(p)
            <4>1. proc' = [proc EXCEPT ![p] = Idle] /\ journal' = journal /\ Idle.ops = <<>>
                BY <3>2 DEF RemoveDirectory, EndRecovery, Crash, Exit, Released, Idle
            <4>. QED
                BY <4>1
        <3>3. ASSUME NEW t \in Txns, LoadRefused(p, t)
              PROVE  journal' = journal /\ \E q : proc' = [proc EXCEPT ![p] = q] /\ q.ops = <<>>
            <4>1. PICK q : q = [Idle EXCEPT !.pc = "refused", !.txn = t]
                OBVIOUS
            <4>2. proc' = [proc EXCEPT ![p] = q] /\ q.ops = <<>> /\ journal' = journal
                BY <3>3, <4>1 DEF LoadRefused, Idle
            <4>. QED
                BY <4>2
        <3>. QED
            BY <1>13, <3>1, <3>2, <3>3
    <2>. QED
        BY <1>1, <1>3, <2>1 DEF Fits
\* The steps of a process that has none.
<1>14. ASSUME NEW p \in Procs,
              \/ Preview(p) \/ StartRecovery(p)
              \/ \E t \in Txns : PreviewRefused(p, t) \/ SkipActive(p, t)
       PROVE  OwnFiles'
    <2>1. /\ journal' = journal
          /\ \E q : proc' = [proc EXCEPT ![p] = q] /\ q.pc \in {"previewed", "scan", "refused"}
        <3>1. CASE Preview(p)
            <4>1. [proc[p] EXCEPT !.pc = "previewed"].pc = "previewed"
                BY <1>0 DEF Process
            <4>. QED
                BY <3>1, <4>1 DEF Preview
        <3>2. CASE StartRecovery(p)
            <4>1. PICK q : q = [proc[p] EXCEPT !.pc = "scan", !.recovering = TRUE,
                                               !.todo = {t \in Txns : dir[t] = "present"}]
                OBVIOUS
            <4>2. proc' = [proc EXCEPT ![p] = q] /\ q.pc = "scan" /\ journal' = journal
                BY <1>0, <3>2, <4>1 DEF StartRecovery, Process
            <4>. QED
                BY <4>2
        <3>3. ASSUME NEW t \in Txns, PreviewRefused(p, t) \/ SkipActive(p, t)
              PROVE  /\ journal' = journal
                     /\ \E q : proc' = [proc EXCEPT ![p] = q] /\ q.pc \in {"scan", "refused"}
            <4>1. CASE PreviewRefused(p, t)
                <5>1. PICK q : q = [proc[p] EXCEPT !.pc = "refused", !.txn = t]
                    OBVIOUS
                <5>2. proc' = [proc EXCEPT ![p] = q] /\ q.pc = "refused" /\ journal' = journal
                    BY <1>0, <4>1, <5>1 DEF PreviewRefused, Process
                <5>. QED
                    BY <5>2
            <4>2. CASE SkipActive(p, t)
                <5>1. PICK q : q = [proc[p] EXCEPT !.todo = @ \ {t}]
                    OBVIOUS
                <5>2. proc' = [proc EXCEPT ![p] = q] /\ q.pc = "scan" /\ journal' = journal
                    BY <1>0, <4>2, <5>1 DEF SkipActive, Process
                <5>. QED
                    BY <5>2
            <4>. QED
                BY <3>3, <4>1, <4>2
        <3>. QED
            BY <1>14, <3>1, <3>2, <3>3
    <2>. QED
        BY <1>1, <2>1 DEF Fits, Engaged, Writing, Undoing
<1>15. CASE UNCHANGED vars
    BY <1>15 DEF OwnFiles, Within, vars
<1>. QED
    BY StepCases, <1>5, <1>6, <1>7, <1>8, <1>9, <1>10, <1>11, <1>12, <1>13, <1>14, <1>15
       DEF PreviewEmpty

(* Where no two transactions may change the same file, nobody ever commits to *)
(* a file that an interrupted transaction has changed: nothing is overlapped, *)
(* whatever the operator does, and all that is Lost was withdrawn.           *)
THEOREM OwnFilesNeverOverlap ==
    ASSUME \A t, u \in Txns : t # u => Footprint[t] \cap Footprint[u] = {}
    PROVE  Spec => [](overlapped = {})
<1>1. Init => OwnFiles /\ overlapped = {}
    <2>. SUFFICES ASSUME Init PROVE OwnFiles
        BY DEF Init
    <2>1. \A t \in Txns : journal[t].ops = <<>>
        BY DEF Init, NoJournal
    <2>2. \A p \in Procs : proc[p].pc = "idle" /\ proc[p].ops = <<>>
        BY DEF Init, Idle
    <2>. QED
        BY <2>1, <2>2 DEF OwnFiles, Within
<1>2. TypeOK /\ Indices /\ OwnFiles /\ overlapped = {} /\ [Next]_vars => (overlapped = {})'
    <2>. SUFFICES ASSUME TypeOK, Indices, OwnFiles, overlapped = {}, [Next]_vars
                  PROVE  overlapped' = {}
        OBVIOUS
    <2>1. ASSUME NEW p \in Procs, LockControl(p) PROVE overlapped' = {}
        <3>1. PICK t \in Txns : t = proc[p].txn /\ Within(proc[p].ops, t)
            BY <2>1 DEF LockControl, OwnFiles, Indices, Engaged, Writing
        <3>2. ASSUME NEW i \in DOMAIN proc[p].ops PROVE Unclaimed(t, proc[p].ops[i].file)
            <4>1. ASSUME NEW u \in Txns \ {t}, NEW j \in InDoubt(u)
                  PROVE  journal[u].ops[j].file # proc[p].ops[i].file
                <5>1. j \in DOMAIN journal[u].ops
                    BY <4>1 DEF InDoubt, Applied
                <5>2. journal[u].ops[j].file \in Footprint[u]
                    BY <5>1 DEF OwnFiles, Within
                <5>. QED
                    BY <3>1, <5>2 DEF Within
            <4>. QED
                BY <4>1 DEF Unclaimed
        <3>3. Overlapping(p) = {}
            BY <3>1, <3>2 DEF Overlapping
        <3>. QED
            BY <2>1, <3>3 DEF LockControl
    <2>2. overlapped' = overlapped \/ \E p \in Procs : LockControl(p)
        BY StepCases DEF MakeDirectory, Stage, PreviewRefused, SkipActive, LoadInactive,
           LoadRefused, TakeOwnerLock, PersistStaging, PersistCommitting, KeepBackup,
           PersistIntent, ChangeTarget, PersistCommitted, SyncRoot, Restore, PersistRollingBack,
           PersistRolledBack, RemoveJournal, RemoveDirectory, StartRecovery, EndRecovery, Preview,
           PreviewEmpty, CommitFault, UndoFault, Crash, Exit, vars, exempt
    <2>. QED
        BY <2>1, <2>2
<1>. QED
    BY <1>1, <1>2, OwnFilesKept, TypeCorrect, PTL DEF Spec
=============================================================================
