------------------------- MODULE ArchiveInstallProofs -------------------------
(***************************************************************************)
(* The safety of ArchiveInstall, proved for any number of processes,       *)
(* events and files and for every number of failing calls, killed          *)
(* processes and power losses.                                             *)
(***************************************************************************)
EXTENDS ArchiveInstall, FiniteSetTheorems, TLAPS

(* The steps, one disjunct per system call or mishap. *)
LEMMA StepCases ==
    ASSUME [Next]_vars
    PROVE  \/ \E w \in Writers, e \in Events : Begin(w, e)
           \/ \E w \in Writers : OpenHome(w)
           \/ \E w \in Writers : SyncHome(w)
           \/ \E w \in Writers : TargetMissing(w)
           \/ \E w \in Writers : TargetVerified(w)
           \/ \E w \in Writers : TargetLinkedTwice(w)
           \/ \E w \in Writers : TargetRejected(w)
           \/ \E w \in Writers : ListStaging(w)
           \/ \E w \in Writers : EndScan(w)
           \/ \E w \in Writers : UnlinkMatching(w)
           \/ \E w \in Writers : MatchingVanished(w)
           \/ \E w \in Writers : SyncRepair(w)
           \/ \E w \in Writers : WriteContent(w)
           \/ \E w \in Writers : SyncContent(w)
           \/ \E w \in Writers : LinkTarget(w)
           \/ \E w \in Writers : UnlinkStaging(w)
           \/ \E w \in Writers : SyncDirectory(w)
           \/ \E w \in Writers : Undo(w)
           \/ \E w \in Writers : SyncUndo(w)
           \/ \E w \in Writers : Report(w)
           \/ \E w \in Writers : Fault(w)
           \/ \E w \in Writers : Crash(w)
           \/ \E w \in Writers, i \in Inodes : StatStaging(w, i)
           \/ \E w \in Writers, i \in Inodes : StagingVanished(w, i)
           \/ \E w \in Writers, i \in Inodes : CreateStaging(w, i)
           \/ PowerLoss
           \/ UNCHANGED vars
BY DEF Next, Work

-----------------------------------------------------------------------------
(* Types *)

TypeOK ==
    /\ home \in {"absent", "new", "synced"}
    /\ final \in [Events -> Target]
    /\ stage \in SUBSET Inodes
    /\ synced \in Directory
    /\ file \in [Inodes -> [event : Events \cup {NoEvent}, data : {"partial", "written", "synced"}]]
    /\ writer \in [Writers -> Attempt]
    /\ faults \in 0..MaxFaults
    /\ crashes \in 0..MaxCrashes
    /\ losses \in 0..MaxLosses
    /\ accepted \in SUBSET Events

\* An attempt has an event, and a file of its own while it stages one.
Indices ==
    \A w \in Writers :
        /\ writer[w].pc # "idle" => writer[w].event \in Events
        /\ writer[w].pc \in {"write", "contentSync", "link"} => writer[w].inode \in Inodes

\* Between creating a staging file and linking it.
Live == {"write", "contentSync", "link"}

(* A step of one attempt leaves the others alone. *)
LEMMA OneAttempt ==
    ASSUME TypeOK, Indices, NEW w \in Writers, NEW q \in Attempt,
           writer' = [writer EXCEPT ![w] = q],
           q.pc # "idle" => q.event \in Events,
           q.pc \in Live => q.inode \in Inodes
    PROVE  writer' \in [Writers -> Attempt] /\ Indices'
<1>1. writer \in [Writers -> Attempt]
    BY DEF TypeOK
<1>2. \A v \in Writers : writer'[v] = IF v = w THEN q ELSE writer[v]
    BY <1>1
<1>. QED
    BY <1>1, <1>2 DEF Indices, Live

\* Going to another step of an attempt keeps its type.
LEMMA GotoType ==
    ASSUME TypeOK, Indices, NEW w \in Writers, NEW pc,
           pc \in {"homeSync", "verify", "list", "scan", "repair", "repairSync", "create",
                   "contentSync", "link", "unlink", "undo", "failed"},
           pc \in Live => writer[w].pc \in Live, writer[w].pc # "idle",
           Goto(w, pc)
    PROVE  writer' \in [Writers -> Attempt] /\ Indices'
<1>. DEFINE q == [writer[w] EXCEPT !.pc = pc]
<1>1. writer[w] \in Attempt
    BY DEF TypeOK
<1>2. q \in Attempt /\ q.pc = pc /\ q.event = writer[w].event /\ q.inode = writer[w].inode
    BY <1>1 DEF Attempt
<1>3. writer' = [writer EXCEPT ![w] = q]
    BY DEF Goto
<1>4. writer[w].event \in Events /\ (writer[w].pc \in Live => writer[w].inode \in Inodes)
    BY DEF Indices, Live
<1>. QED
    BY <1>2, <1>3, <1>4, OneAttempt

\* Every call of an attempt, and every kill and loss, keeps the types.  (deliver)
LEMMA TypePreserved == TypeOK /\ Indices /\ [Next]_vars => TypeOK' /\ Indices'
<1>. SUFFICES ASSUME TypeOK, Indices, [Next]_vars
              PROVE  TypeOK' /\ Indices'
    OBVIOUS
<1>0. Idle \in Attempt /\ Idle.pc = "idle" /\ writer \in [Writers -> Attempt]
    BY DEF Idle, Attempt, Target, TypeOK
<1>1. ASSUME NEW w \in Writers, NEW e \in Events, Begin(w, e)
      PROVE  TypeOK' /\ Indices'
    <2>. DEFINE q == [writer[w] EXCEPT !.pc = "home", !.event = e]
    <2>1. q \in Attempt
        BY <1>0, <1>1 DEF Begin, Matches, Existing, TypeOK, Indices, Attempt, Target
    <2>2. writer' = [writer EXCEPT ![w] = q]
        BY <1>0, <1>1 DEF Begin
    <2>3. (q.pc # "idle" => q.event \in Events) /\ (q.pc \in Live => q.inode \in Inodes)
        BY <1>0, <1>1 DEF Begin, Indices, Live, Attempt
    <2>4. writer' \in [Writers -> Attempt] /\ Indices'
        BY <2>1, <2>2, <2>3, OneAttempt
    <2>. QED
        BY <1>1, <2>4 DEF Begin, TypeOK, Indices, Names, Environment, SyncNames, Succeed, Vanished, Directory, Live
<1>2. ASSUME NEW w \in Writers, OpenHome(w)
      PROVE  TypeOK' /\ Indices'
    <2>4. writer' \in [Writers -> Attempt] /\ Indices'
        BY <1>2, GotoType DEF OpenHome, Live
    <2>. QED
        BY <1>2, <2>4 DEF OpenHome, TypeOK, Indices, Names, Environment, SyncNames, Succeed, Vanished, Directory, Live
<1>3. ASSUME NEW w \in Writers, SyncHome(w)
      PROVE  TypeOK' /\ Indices'
    <2>4. writer' \in [Writers -> Attempt] /\ Indices'
        BY <1>3, GotoType DEF SyncHome, Live
    <2>. QED
        BY <1>3, <2>4 DEF SyncHome, TypeOK, Indices, Names, Environment, SyncNames, Succeed, Vanished, Directory, Live
<1>4. ASSUME NEW w \in Writers, TargetMissing(w)
      PROVE  TypeOK' /\ Indices'
    <2>4. writer' \in [Writers -> Attempt] /\ Indices'
        BY <1>4, GotoType DEF TargetMissing, Live
    <2>. QED
        BY <1>4, <2>4 DEF TargetMissing, TypeOK, Indices, Names, Environment, SyncNames, Succeed, Vanished, Directory, Live
<1>5. ASSUME NEW w \in Writers, TargetVerified(w)
      PROVE  TypeOK' /\ Indices'
    <2>. DEFINE q == Idle
    <2>1. q \in Attempt
        BY <1>0, <1>5 DEF TargetVerified, Succeed, Matches, Existing, TypeOK, Indices, Attempt, Target
    <2>2. writer' = [writer EXCEPT ![w] = q]
        BY <1>0, <1>5 DEF TargetVerified, Succeed
    <2>3. (q.pc # "idle" => q.event \in Events) /\ (q.pc \in Live => q.inode \in Inodes)
        BY <1>0, <1>5 DEF TargetVerified, Succeed, Indices, Live, Attempt
    <2>4. writer' \in [Writers -> Attempt] /\ Indices'
        BY <2>1, <2>2, <2>3, OneAttempt
    <2>. QED
        BY <1>5, <2>4 DEF TargetVerified, Matches, Existing, TypeOK, Indices, Names, Environment, SyncNames, Succeed, Vanished, Directory, Live
<1>6. ASSUME NEW w \in Writers, TargetLinkedTwice(w)
      PROVE  TypeOK' /\ Indices'
    <2>. DEFINE q == [writer[w] EXCEPT !.pc = "list", !.target = final[writer[w].event]]
    <2>1. q \in Attempt
        BY <1>0, <1>6 DEF TargetLinkedTwice, Existing, Matches, Existing, TypeOK, Indices, Attempt, Target
    <2>2. writer' = [writer EXCEPT ![w] = q]
        BY <1>0, <1>6 DEF TargetLinkedTwice, Existing
    <2>3. (q.pc # "idle" => q.event \in Events) /\ (q.pc \in Live => q.inode \in Inodes)
        BY <1>0, <1>6 DEF TargetLinkedTwice, Existing, Indices, Live, Attempt
    <2>4. writer' \in [Writers -> Attempt] /\ Indices'
        BY <2>1, <2>2, <2>3, OneAttempt
    <2>. QED
        BY <1>6, <2>4 DEF TargetLinkedTwice, Matches, Existing, Repairable, TypeOK, Indices, Names, Environment, SyncNames, Succeed, Vanished, Directory, Live
<1>7. ASSUME NEW w \in Writers, TargetRejected(w)
      PROVE  TypeOK' /\ Indices'
    <2>4. writer' \in [Writers -> Attempt] /\ Indices'
        BY <1>7, GotoType DEF TargetRejected, Failed, Live
    <2>. QED
        BY <1>7, <2>4 DEF TargetRejected, TypeOK, Indices, Names, Environment, SyncNames, Succeed, Vanished, Directory, Live
<1>8. ASSUME NEW w \in Writers, ListStaging(w)
      PROVE  TypeOK' /\ Indices'
    <2>. DEFINE q == [writer[w] EXCEPT !.pc = "scan", !.seen = stage, !.matched = FALSE]
    <2>1. q \in Attempt
        BY <1>0, <1>8 DEF ListStaging, Matches, Existing, TypeOK, Indices, Attempt, Target
    <2>2. writer' = [writer EXCEPT ![w] = q]
        BY <1>0, <1>8 DEF ListStaging
    <2>3. (q.pc # "idle" => q.event \in Events) /\ (q.pc \in Live => q.inode \in Inodes)
        BY <1>0, <1>8 DEF ListStaging, Indices, Live, Attempt
    <2>4. writer' \in [Writers -> Attempt] /\ Indices'
        BY <2>1, <2>2, <2>3, OneAttempt
    <2>. QED
        BY <1>8, <2>4 DEF ListStaging, TypeOK, Indices, Names, Environment, SyncNames, Succeed, Vanished, Directory, Live
<1>9. ASSUME NEW w \in Writers, EndScan(w)
      PROVE  TypeOK' /\ Indices'
    <2>4. writer' \in [Writers -> Attempt] /\ Indices'
        BY <1>9, GotoType DEF EndScan, Failed, Live
    <2>. QED
        BY <1>9, <2>4 DEF EndScan, TypeOK, Indices, Names, Environment, SyncNames, Succeed, Vanished, Directory, Live
<1>10. ASSUME NEW w \in Writers, UnlinkMatching(w)
      PROVE  TypeOK' /\ Indices'
    <2>4. writer' \in [Writers -> Attempt] /\ Indices'
        BY <1>10, GotoType DEF UnlinkMatching, Live
    <2>. QED
        BY <1>10, <2>4 DEF UnlinkMatching, MatchingStaging, TypeOK, Indices, Names, Environment, SyncNames, Succeed, Vanished, Directory, Live
<1>11. ASSUME NEW w \in Writers, MatchingVanished(w)
      PROVE  TypeOK' /\ Indices'
    <2>. DEFINE q == [writer[w] EXCEPT !.pc = IF writer[w].replay THEN "create" ELSE "undo", !.target = NoInode, !.seen = {}]
    <2>. DEFINE there == IF writer[w].replay THEN "create" ELSE "undo"
    <2>1. q \in Attempt
        <3>1. there \in {"create", "undo"}
            OBVIOUS
        <3>2. NoInode \in Target /\ writer[w] \in Attempt
            BY <1>0 DEF Target
        <3>3. ASSUME NEW x \in {"create", "undo"}
              PROVE  [writer[w] EXCEPT !.pc = x, !.target = NoInode, !.seen = {}] \in Attempt
            BY <3>2 DEF Attempt
        <3>. QED
            BY <3>1, <3>3
    <2>2. writer' = [writer EXCEPT ![w] = q]
        BY <1>0, <1>11 DEF MatchingVanished, Vanished
    <2>3. (q.pc # "idle" => q.event \in Events) /\ (q.pc \in Live => q.inode \in Inodes)
        BY <1>0, <1>11 DEF MatchingVanished, Vanished, Indices, Live, Attempt
    <2>4. writer' \in [Writers -> Attempt] /\ Indices'
        BY <2>1, <2>2, <2>3, OneAttempt
    <2>. QED
        BY <1>11, <2>4 DEF MatchingVanished, TypeOK, Indices, Names, Environment, SyncNames, Succeed, Vanished, Directory, Live
<1>12. ASSUME NEW w \in Writers, SyncRepair(w)
      PROVE  TypeOK' /\ Indices'
    <2>. DEFINE q == Idle
    <2>1. q \in Attempt
        BY <1>0, <1>12 DEF SyncRepair, Succeed, Matches, Existing, TypeOK, Indices, Attempt, Target
    <2>2. writer' = [writer EXCEPT ![w] = q]
        BY <1>0, <1>12 DEF SyncRepair, Succeed
    <2>3. (q.pc # "idle" => q.event \in Events) /\ (q.pc \in Live => q.inode \in Inodes)
        BY <1>0, <1>12 DEF SyncRepair, Succeed, Indices, Live, Attempt
    <2>4. writer' \in [Writers -> Attempt] /\ Indices'
        BY <2>1, <2>2, <2>3, OneAttempt
    <2>. QED
        BY <1>12, <2>4 DEF SyncRepair, TypeOK, Indices, Names, Environment, SyncNames, Succeed, Vanished, Directory, Live
<1>13. ASSUME NEW w \in Writers, WriteContent(w)
      PROVE  TypeOK' /\ Indices'
    <2>4. writer' \in [Writers -> Attempt] /\ Indices'
        BY <1>13, GotoType DEF WriteContent, Live
    <2>. QED
        BY <1>13, <2>4 DEF WriteContent, TypeOK, Indices, Names, Environment, SyncNames, Succeed, Vanished, Directory, Live
<1>14. ASSUME NEW w \in Writers, SyncContent(w)
      PROVE  TypeOK' /\ Indices'
    <2>4. writer' \in [Writers -> Attempt] /\ Indices'
        BY <1>14, GotoType DEF SyncContent, Live
    <2>. QED
        BY <1>14, <2>4 DEF SyncContent, ContentSynced, TypeOK, Indices, Names, Environment, SyncNames, Succeed, Vanished, Directory, Live
<1>15. ASSUME NEW w \in Writers, LinkTarget(w)
      PROVE  TypeOK' /\ Indices'
    <2>1. CASE FreeName(writer[w].event)
        <3>. DEFINE q == [writer[w] EXCEPT !.pc = "unlink", !.installed = TRUE]
        <3>1. q \in Attempt /\ q.pc = "unlink" /\ q.event = writer[w].event
            BY <1>0 DEF Attempt
        <3>2. writer' = [writer EXCEPT ![w] = q] /\ writer[w].event \in Events /\ writer[w].inode \in Inodes
            BY <1>15, <2>1 DEF LinkTarget, Indices
        <3>3. writer' \in [Writers -> Attempt] /\ Indices'
            BY <3>1, <3>2, OneAttempt DEF Live
        <3>4. final' \in [Events -> Target]
            BY <1>15, <2>1, <3>2 DEF LinkTarget, TypeOK, Target
        <3>. QED
            BY <1>15, <3>3, <3>4 DEF LinkTarget, TypeOK, Environment
    <2>2. CASE ~ FreeName(writer[w].event)
        <3>1. writer' \in [Writers -> Attempt] /\ Indices'
            BY <1>15, <2>2, GotoType DEF LinkTarget, Live
        <3>. QED
            BY <1>15, <2>2, <3>1 DEF LinkTarget, TypeOK, Environment
    <2>. QED
        BY <2>1, <2>2
<1>16. ASSUME NEW w \in Writers, UnlinkStaging(w)
      PROVE  TypeOK' /\ Indices'
    <2>. DEFINE q == [writer[w] EXCEPT !.pc = "directorySync", !.inode = NoInode]
    <2>1. q \in Attempt
        BY <1>0, <1>16 DEF UnlinkStaging, Matches, Existing, TypeOK, Indices, Attempt, Target
    <2>2. writer' = [writer EXCEPT ![w] = q]
        BY <1>0, <1>16 DEF UnlinkStaging
    <2>3. (q.pc # "idle" => q.event \in Events) /\ (q.pc \in Live => q.inode \in Inodes)
        BY <1>0, <1>16 DEF UnlinkStaging, Indices, Live, Attempt
    <2>4. writer' \in [Writers -> Attempt] /\ Indices'
        BY <2>1, <2>2, <2>3, OneAttempt
    <2>. QED
        BY <1>16, <2>4 DEF UnlinkStaging, TypeOK, Indices, Names, Environment, SyncNames, Succeed, Vanished, Directory, Live
<1>17. ASSUME NEW w \in Writers, SyncDirectory(w)
      PROVE  TypeOK' /\ Indices'
    <2>. DEFINE q == [writer[w] EXCEPT !.pc = "verify", !.replay = FALSE]
    <2>1. q \in Attempt
        BY <1>0, <1>17 DEF SyncDirectory, Matches, Existing, TypeOK, Indices, Attempt, Target
    <2>2. writer' = [writer EXCEPT ![w] = q]
        BY <1>0, <1>17 DEF SyncDirectory
    <2>3. (q.pc # "idle" => q.event \in Events) /\ (q.pc \in Live => q.inode \in Inodes)
        BY <1>0, <1>17 DEF SyncDirectory, Indices, Live, Attempt
    <2>4. writer' \in [Writers -> Attempt] /\ Indices'
        BY <2>1, <2>2, <2>3, OneAttempt
    <2>. QED
        BY <1>17, <2>4 DEF SyncDirectory, TypeOK, Indices, Names, Environment, SyncNames, Succeed, Vanished, Directory, Live
<1>18. ASSUME NEW w \in Writers, Undo(w)
      PROVE  TypeOK' /\ Indices'
    <2>. DEFINE q == [writer[w] EXCEPT !.pc = AfterUndo(w), !.inode = NoInode]
    <2>1. q \in Attempt
        <3>1. AfterUndo(w) \in {"undoSync", "failed"}
            BY DEF AfterUndo
        <3>2. ASSUME NEW x \in {"undoSync", "failed"}
              PROVE  [writer[w] EXCEPT !.pc = x, !.inode = NoInode] \in Attempt
            BY <1>0 DEF Attempt
        <3>. QED
            BY <3>1, <3>2
    <2>2. writer' = [writer EXCEPT ![w] = q]
        BY <1>0, <1>18 DEF Undo, AfterUndo
    <2>3. (q.pc # "idle" => q.event \in Events) /\ (q.pc \in Live => q.inode \in Inodes)
        BY <1>0, <1>18 DEF Undo, AfterUndo, Indices, Live, Attempt
    <2>4. writer' \in [Writers -> Attempt] /\ Indices'
        BY <2>1, <2>2, <2>3, OneAttempt
    <2>. QED
        BY <1>18, <2>4 DEF Undo, StageUndone, TypeOK, Indices, Names, Environment, SyncNames, Succeed, Vanished, Directory, Live
<1>19. ASSUME NEW w \in Writers, SyncUndo(w)
      PROVE  TypeOK' /\ Indices'
    <2>4. writer' \in [Writers -> Attempt] /\ Indices'
        BY <1>19, GotoType DEF SyncUndo, Live
    <2>. QED
        BY <1>19, <2>4 DEF SyncUndo, TypeOK, Indices, Names, Environment, SyncNames, Succeed, Vanished, Directory, Live
<1>20. ASSUME NEW w \in Writers, Report(w)
      PROVE  TypeOK' /\ Indices'
    <2>. DEFINE q == Idle
    <2>1. q \in Attempt
        BY <1>0, <1>20 DEF Report, Matches, Existing, TypeOK, Indices, Attempt, Target
    <2>2. writer' = [writer EXCEPT ![w] = q]
        BY <1>0, <1>20 DEF Report
    <2>3. (q.pc # "idle" => q.event \in Events) /\ (q.pc \in Live => q.inode \in Inodes)
        BY <1>0, <1>20 DEF Report, Indices, Live, Attempt
    <2>4. writer' \in [Writers -> Attempt] /\ Indices'
        BY <2>1, <2>2, <2>3, OneAttempt
    <2>. QED
        BY <1>20, <2>4 DEF Report, TypeOK, Indices, Names, Environment, SyncNames, Succeed, Vanished, Directory, Live
<1>21. ASSUME NEW w \in Writers, Fault(w)
      PROVE  TypeOK' /\ Indices'
    <2>. DEFINE pc == IF writer[w].pc = "undo" THEN AfterUndo(w)
                      ELSE IF writer[w].pc = "undoSync" THEN "failed" ELSE "undo"
                inode == IF writer[w].pc = "undo" THEN NoInode ELSE writer[w].inode
                q == [writer[w] EXCEPT !.pc = pc, !.inode = inode, !.target = NoInode, !.seen = {}]
    <2>1. pc \in {"undo", "undoSync", "failed"}
        BY DEF AfterUndo
    <2>2. inode \in Inodes \cup {NoInode} /\ writer[w] \in Attempt
        BY <1>0 DEF Attempt
    <2>3. writer' = [writer EXCEPT ![w] = q] /\ writer[w].event \in Events
        BY <1>0, <1>21 DEF Fault, Indices
    <2>4. writer' \in [Writers -> Attempt] /\ Indices'
        <3>. HIDE DEF pc, inode
        <3>1. q \in Attempt /\ q.pc = pc /\ q.event = writer[w].event
            BY <2>1, <2>2 DEF Attempt, Target
        <3>. QED
            BY <2>1, <2>3, <3>1, OneAttempt DEF Live
    <2>5. faults' \in 0..MaxFaults
        BY <1>21, ArchiveAssumption DEF Fault, TypeOK
    <2>. QED
        BY <1>21, <2>4, <2>5 DEF Fault, TypeOK, Names
<1>22. ASSUME NEW w \in Writers, Crash(w)
      PROVE  TypeOK' /\ Indices'
    <2>. DEFINE q == Idle
    <2>1. q \in Attempt
        BY <1>0, <1>22 DEF Crash, Matches, Existing, TypeOK, Indices, Attempt, Target
    <2>2. writer' = [writer EXCEPT ![w] = q]
        BY <1>0, <1>22 DEF Crash
    <2>3. (q.pc # "idle" => q.event \in Events) /\ (q.pc \in Live => q.inode \in Inodes)
        BY <1>0, <1>22 DEF Crash, Indices, Live, Attempt
    <2>4. writer' \in [Writers -> Attempt] /\ Indices'
        BY <2>1, <2>2, <2>3, OneAttempt
    <2>. QED
        BY <1>22, <2>4, ArchiveAssumption DEF Crash, TypeOK, Indices, Names, Environment, SyncNames, Succeed, Vanished, Directory, Live
<1>23. ASSUME NEW w \in Writers, NEW i \in Inodes, StatStaging(w, i)
      PROVE  TypeOK' /\ Indices'
    <2>. DEFINE q == [writer[w] EXCEPT !.seen = @ \ {i}, !.matched = @ \/ i = writer[w].target]
    <2>1. q \in Attempt
        BY <1>0, <1>23 DEF StatStaging, Matches, Existing, TypeOK, Indices, Attempt, Target
    <2>2. writer' = [writer EXCEPT ![w] = q]
        BY <1>0, <1>23 DEF StatStaging
    <2>3. (q.pc # "idle" => q.event \in Events) /\ (q.pc \in Live => q.inode \in Inodes)
        BY <1>0, <1>23 DEF StatStaging, Indices, Live, Attempt
    <2>4. writer' \in [Writers -> Attempt] /\ Indices'
        BY <2>1, <2>2, <2>3, OneAttempt
    <2>. QED
        BY <1>23, <2>4 DEF StatStaging, TypeOK, Indices, Names, Environment, SyncNames, Succeed, Vanished, Directory, Live
<1>24. ASSUME NEW w \in Writers, NEW i \in Inodes, StagingVanished(w, i)
      PROVE  TypeOK' /\ Indices'
    <2>. DEFINE q == [writer[w] EXCEPT !.pc = IF writer[w].replay THEN "create" ELSE "undo", !.target = NoInode, !.seen = {}]
    <2>1. q \in Attempt
        BY <1>0, <1>24 DEF StagingVanished, Vanished, Matches, Existing, TypeOK, Indices, Attempt, Target
    <2>2. writer' = [writer EXCEPT ![w] = q]
        BY <1>0, <1>24 DEF StagingVanished, Vanished
    <2>3. (q.pc # "idle" => q.event \in Events) /\ (q.pc \in Live => q.inode \in Inodes)
        BY <1>0, <1>24 DEF StagingVanished, Vanished, Indices, Live, Attempt
    <2>4. writer' \in [Writers -> Attempt] /\ Indices'
        BY <2>1, <2>2, <2>3, OneAttempt
    <2>. QED
        BY <1>24, <2>4 DEF StagingVanished, TypeOK, Indices, Names, Environment, SyncNames, Succeed, Vanished, Directory, Live
<1>25. ASSUME NEW w \in Writers, NEW i \in Inodes, CreateStaging(w, i)
      PROVE  TypeOK' /\ Indices'
    <2>. DEFINE q == [writer[w] EXCEPT !.pc = "write", !.inode = i]
    <2>1. q \in Attempt
        BY <1>0, <1>25 DEF CreateStaging, Matches, Existing, TypeOK, Indices, Attempt, Target
    <2>2. writer' = [writer EXCEPT ![w] = q]
        BY <1>0, <1>25 DEF CreateStaging
    <2>3. (q.pc # "idle" => q.event \in Events) /\ (q.pc \in Live => q.inode \in Inodes)
        BY <1>0, <1>25 DEF CreateStaging, Indices, Live, Attempt
    <2>4. writer' \in [Writers -> Attempt] /\ Indices'
        BY <2>1, <2>2, <2>3, OneAttempt
    <2>. QED
        BY <1>25, <2>4 DEF CreateStaging, TypeOK, Indices, Names, Environment, SyncNames, Succeed, Vanished, Directory, Live
<1>26. ASSUME PowerLoss
      PROVE  TypeOK' /\ Indices'
    <2>1. writer' = [v \in Writers |-> Idle]
        BY <1>26 DEF PowerLoss
    <2>2. writer' \in [Writers -> Attempt] /\ Indices'
        BY <1>0, <2>1 DEF Indices
    <2>3. file' \in [Inodes -> [event : Events \cup {NoEvent}, data : {"partial", "written", "synced"}]]
        BY <1>26 DEF PowerLoss, TypeOK
    <2>4. home' \in {"absent", "new", "synced"} /\ final' \in [Events -> Target] /\ stage' \in SUBSET Inodes
        BY <1>26, ArchiveAssumption DEF PowerLoss, TypeOK, Directory, Nothing, Target
    <2>. QED
        BY <1>26, <2>2, <2>3, <2>4, ArchiveAssumption DEF PowerLoss, TypeOK, Directory
<1>27. ASSUME UNCHANGED vars
      PROVE  TypeOK' /\ Indices'
    BY <1>27 DEF vars, TypeOK, Indices
<1>. QED
    BY StepCases, <1>1, <1>2, <1>3, <1>4, <1>5, <1>6, <1>7, <1>8, <1>9, <1>10, <1>11, <1>12, <1>13, <1>14, <1>15, <1>16, <1>17, <1>18, <1>19, <1>20, <1>21, <1>22, <1>23, <1>24, <1>25, <1>26, <1>27

-----------------------------------------------------------------------------
(* Files *)

\* Between finding a second link to the target and being done with it.
Repairing == {"list", "scan", "repair", "repairSync"}

Whole(i, e) == file[i].event = e /\ file[i].data = "synced"

\* What has a final name, now or on disk, is whole and belongs there; what an
\* attempt is staging has no final name yet, keeps its staging name, and is
\* nobody else's; what an attempt repairs is the target of its event.
Ownership ==
    /\ \A e \in Events : final[e] \in Inodes => Whole(final[e], e)
    /\ \A e \in Events : synced.final[e] \in Inodes => Whole(synced.final[e], e)
    /\ \A w \in Writers :
           writer[w].pc \in Live =>
               /\ writer[w].inode \in stage
               /\ file[writer[w].inode].event = writer[w].event
               /\ writer[w].pc = "link" => file[writer[w].inode].data = "synced"
               /\ \A e \in Events : final[e] # writer[w].inode /\ synced.final[e] # writer[w].inode
    /\ \A w \in Writers :
           writer[w].pc \in Repairing =>
               /\ writer[w].target \in Inodes
               /\ final[writer[w].event] = writer[w].target
    /\ \A v, w \in Writers :
           v # w /\ writer[v].inode # NoInode => writer[v].inode # writer[w].inode

(* A step that installs nothing and writes nothing: the attempt stages no    *)
(* file after it, and the staging files of others keep their names.          *)
LEMMA NothingInstalled ==
    ASSUME TypeOK, Indices, Ownership, NEW w \in Writers,
           \A v \in Writers \ {w} : writer'[v] = writer[v],
           UNCHANGED <<final, file>>,
           synced' = synced \/ SyncNames,
           \A v \in Writers \ {w} : writer[v].pc \in Live => writer[v].inode \in stage',
           writer'[w].pc \notin Live,
           writer'[w].inode \in {writer[w].inode, NoInode},
           writer'[w].pc \in Repairing =>
               writer'[w].target \in Inodes /\ final[writer'[w].event] = writer'[w].target
    PROVE  Ownership'
<1>1. \A e \in Events : synced'.final[e] = synced.final[e] \/ synced'.final[e] = final[e]
    BY DEF SyncNames
<1>2. \A e \in Events : final[e] \in Inodes => Whole(final[e], e)'
    BY DEF Ownership, Whole
<1>3. ASSUME NEW e \in Events, synced'.final[e] \in Inodes
      PROVE  file'[synced'.final[e]].event = e /\ file'[synced'.final[e]].data = "synced"
    BY <1>1, <1>3 DEF Ownership, Whole
<1>4. \A e \in Events : synced'.final[e] \in Inodes => Whole(synced.final[e], e)'
    BY <1>3 DEF Whole
<1>5. \A v \in Writers :
          writer'[v].pc \in Live =>
              /\ v # w /\ writer'[v] = writer[v]
              /\ \A e \in Events : final[e] # writer[v].inode /\ synced'.final[e] # writer[v].inode
    BY <1>1 DEF Ownership
<1>6. \A v, u \in Writers :
          v # u /\ writer'[v].inode # NoInode => writer'[v].inode # writer'[u].inode
    BY DEF Ownership
<1>7. \A v \in Writers :
          writer'[v].pc \in Live =>
              /\ writer'[v].inode \in stage'
              /\ file'[writer'[v].inode].event = writer'[v].event
              /\ writer'[v].pc = "link" => file'[writer'[v].inode].data = "synced"
              /\ \A e \in Events : final'[e] # writer'[v].inode /\ synced'.final[e] # writer'[v].inode
    BY <1>5 DEF Ownership
<1>8. \A v \in Writers :
          writer'[v].pc \in Repairing =>
              writer'[v].target \in Inodes /\ final'[writer'[v].event] = writer'[v].target
    BY DEF Ownership
<1>. QED
    BY <1>2, <1>4, <1>6, <1>7, <1>8 DEF Ownership

\* Every call, kill and loss keeps files with their owners.  (_install_or_verify)
LEMMA OwnershipPreserved == TypeOK /\ Indices /\ Ownership /\ [Next]_vars => Ownership'
<1>. SUFFICES ASSUME TypeOK, Indices, Ownership, [Next]_vars
              PROVE  Ownership'
    OBVIOUS
<1>0. writer \in [Writers -> Attempt] /\ Idle.pc = "idle" /\ Idle.inode = NoInode
    BY DEF Idle, TypeOK
<1>1. ASSUME NEW w \in Writers, NEW e \in Events, Begin(w, e)
      PROVE  Ownership'
    <2>1. \A v \in Writers \ {w} : writer'[v] = writer[v]
        BY <1>0, <1>1 DEF Begin, Goto
    <2>2. /\ writer'[w].pc \notin Live
          /\ writer'[w].inode \in {writer[w].inode, NoInode}
          /\ writer'[w].pc \in Repairing =>
                 writer'[w].target \in Inodes /\ final[writer'[w].event] = writer'[w].target
        BY <1>0, <1>1 DEF Begin, Goto, Ownership, Live, Repairing, Attempt
    <2>3. \A v \in Writers \ {w} : writer[v].pc \in Live => writer[v].inode \in stage'
        BY <1>1, ArchiveAssumption DEF Begin, Ownership, Names, Indices, Live, Repairing
    <2>4. UNCHANGED <<final, file>> /\ (synced' = synced \/ SyncNames)
        BY <1>1 DEF Begin, Names
    <2>. QED
        BY <2>1, <2>2, <2>3, <2>4, NothingInstalled
<1>2. ASSUME NEW w \in Writers, OpenHome(w)
      PROVE  Ownership'
    <2>1. \A v \in Writers \ {w} : writer'[v] = writer[v]
        BY <1>0, <1>2 DEF OpenHome, Goto
    <2>2. /\ writer'[w].pc \notin Live
          /\ writer'[w].inode \in {writer[w].inode, NoInode}
          /\ writer'[w].pc \in Repairing =>
                 writer'[w].target \in Inodes /\ final[writer'[w].event] = writer'[w].target
        BY <1>0, <1>2 DEF OpenHome, Goto, Ownership, Live, Repairing, Attempt
    <2>3. \A v \in Writers \ {w} : writer[v].pc \in Live => writer[v].inode \in stage'
        BY <1>2, ArchiveAssumption DEF OpenHome, Ownership, Names, Indices, Live, Repairing
    <2>4. UNCHANGED <<final, file>> /\ (synced' = synced \/ SyncNames)
        BY <1>2 DEF OpenHome, Names
    <2>. QED
        BY <2>1, <2>2, <2>3, <2>4, NothingInstalled
<1>3. ASSUME NEW w \in Writers, SyncHome(w)
      PROVE  Ownership'
    <2>1. \A v \in Writers \ {w} : writer'[v] = writer[v]
        BY <1>0, <1>3 DEF SyncHome, Goto
    <2>2. /\ writer'[w].pc \notin Live
          /\ writer'[w].inode \in {writer[w].inode, NoInode}
          /\ writer'[w].pc \in Repairing =>
                 writer'[w].target \in Inodes /\ final[writer'[w].event] = writer'[w].target
        BY <1>0, <1>3 DEF SyncHome, Goto, Ownership, Live, Repairing, Attempt
    <2>3. \A v \in Writers \ {w} : writer[v].pc \in Live => writer[v].inode \in stage'
        BY <1>3, ArchiveAssumption DEF SyncHome, Ownership, Names, Indices, Live, Repairing
    <2>4. UNCHANGED <<final, file>> /\ (synced' = synced \/ SyncNames)
        BY <1>3 DEF SyncHome, Names
    <2>. QED
        BY <2>1, <2>2, <2>3, <2>4, NothingInstalled
<1>4. ASSUME NEW w \in Writers, TargetMissing(w)
      PROVE  Ownership'
    <2>1. \A v \in Writers \ {w} : writer'[v] = writer[v]
        BY <1>0, <1>4 DEF TargetMissing, Goto
    <2>2. /\ writer'[w].pc \notin Live
          /\ writer'[w].inode \in {writer[w].inode, NoInode}
          /\ writer'[w].pc \in Repairing =>
                 writer'[w].target \in Inodes /\ final[writer'[w].event] = writer'[w].target
        BY <1>0, <1>4 DEF TargetMissing, Goto, Ownership, Live, Repairing, Attempt
    <2>3. \A v \in Writers \ {w} : writer[v].pc \in Live => writer[v].inode \in stage'
        BY <1>4, ArchiveAssumption DEF TargetMissing, Ownership, Names, Indices, Live, Repairing
    <2>4. UNCHANGED <<final, file>> /\ (synced' = synced \/ SyncNames)
        BY <1>4 DEF TargetMissing, Names
    <2>. QED
        BY <2>1, <2>2, <2>3, <2>4, NothingInstalled
<1>5. ASSUME NEW w \in Writers, TargetVerified(w)
      PROVE  Ownership'
    <2>1. \A v \in Writers \ {w} : writer'[v] = writer[v]
        BY <1>0, <1>5 DEF TargetVerified, Goto, Succeed
    <2>2. /\ writer'[w].pc \notin Live
          /\ writer'[w].inode \in {writer[w].inode, NoInode}
          /\ writer'[w].pc \in Repairing =>
                 writer'[w].target \in Inodes /\ final[writer'[w].event] = writer'[w].target
        BY <1>0, <1>5 DEF TargetVerified, Goto, Succeed, Ownership, Live, Repairing, Attempt
    <2>3. \A v \in Writers \ {w} : writer[v].pc \in Live => writer[v].inode \in stage'
        BY <1>5, ArchiveAssumption DEF TargetVerified, Succeed, Ownership, Names, Indices, Live, Repairing
    <2>4. UNCHANGED <<final, file>> /\ (synced' = synced \/ SyncNames)
        BY <1>5 DEF TargetVerified, Succeed, Names
    <2>. QED
        BY <2>1, <2>2, <2>3, <2>4, NothingInstalled
<1>6. ASSUME NEW w \in Writers, TargetLinkedTwice(w)
      PROVE  Ownership'
    <2>1. \A v \in Writers \ {w} : writer'[v] = writer[v]
        BY <1>0, <1>6 DEF TargetLinkedTwice, Goto, Matches, Existing
    <2>2. /\ writer'[w].pc \notin Live
          /\ writer'[w].inode \in {writer[w].inode, NoInode}
          /\ writer'[w].pc \in Repairing =>
                 writer'[w].target \in Inodes /\ final[writer'[w].event] = writer'[w].target
        BY <1>0, <1>6 DEF TargetLinkedTwice, Goto, Matches, Existing, Ownership, Live, Repairing, Attempt
    <2>3. \A v \in Writers \ {w} : writer[v].pc \in Live => writer[v].inode \in stage'
        BY <1>6, ArchiveAssumption DEF TargetLinkedTwice, Matches, Existing, Ownership, Names, Indices, Live, Repairing
    <2>4. UNCHANGED <<final, file>> /\ (synced' = synced \/ SyncNames)
        BY <1>6 DEF TargetLinkedTwice, Matches, Existing, Names
    <2>. QED
        BY <2>1, <2>2, <2>3, <2>4, NothingInstalled
<1>7. ASSUME NEW w \in Writers, TargetRejected(w)
      PROVE  Ownership'
    <2>1. \A v \in Writers \ {w} : writer'[v] = writer[v]
        BY <1>0, <1>7 DEF TargetRejected, Goto, Failed
    <2>2. /\ writer'[w].pc \notin Live
          /\ writer'[w].inode \in {writer[w].inode, NoInode}
          /\ writer'[w].pc \in Repairing =>
                 writer'[w].target \in Inodes /\ final[writer'[w].event] = writer'[w].target
        BY <1>0, <1>7 DEF TargetRejected, Goto, Failed, Ownership, Live, Repairing, Attempt
    <2>3. \A v \in Writers \ {w} : writer[v].pc \in Live => writer[v].inode \in stage'
        BY <1>7, ArchiveAssumption DEF TargetRejected, Failed, Ownership, Names, Indices, Live, Repairing
    <2>4. UNCHANGED <<final, file>> /\ (synced' = synced \/ SyncNames)
        BY <1>7 DEF TargetRejected, Failed, Names
    <2>. QED
        BY <2>1, <2>2, <2>3, <2>4, NothingInstalled
<1>8. ASSUME NEW w \in Writers, ListStaging(w)
      PROVE  Ownership'
    <2>1. \A v \in Writers \ {w} : writer'[v] = writer[v]
        BY <1>0, <1>8 DEF ListStaging, Goto
    <2>2. /\ writer'[w].pc \notin Live
          /\ writer'[w].inode \in {writer[w].inode, NoInode}
          /\ writer'[w].pc \in Repairing =>
                 writer'[w].target \in Inodes /\ final[writer'[w].event] = writer'[w].target
        BY <1>0, <1>8 DEF ListStaging, Goto, Ownership, Live, Repairing, Attempt
    <2>3. \A v \in Writers \ {w} : writer[v].pc \in Live => writer[v].inode \in stage'
        BY <1>8, ArchiveAssumption DEF ListStaging, Ownership, Names, Indices, Live, Repairing
    <2>4. UNCHANGED <<final, file>> /\ (synced' = synced \/ SyncNames)
        BY <1>8 DEF ListStaging, Names
    <2>. QED
        BY <2>1, <2>2, <2>3, <2>4, NothingInstalled
<1>9. ASSUME NEW w \in Writers, EndScan(w)
      PROVE  Ownership'
    <2>1. \A v \in Writers \ {w} : writer'[v] = writer[v]
        BY <1>0, <1>9 DEF EndScan, Goto, Failed
    <2>2. /\ writer'[w].pc \notin Live
          /\ writer'[w].inode \in {writer[w].inode, NoInode}
          /\ writer'[w].pc \in Repairing =>
                 writer'[w].target \in Inodes /\ final[writer'[w].event] = writer'[w].target
        BY <1>0, <1>9 DEF EndScan, Goto, Failed, Ownership, Live, Repairing, Attempt
    <2>3. \A v \in Writers \ {w} : writer[v].pc \in Live => writer[v].inode \in stage'
        BY <1>9, ArchiveAssumption DEF EndScan, Failed, Ownership, Names, Indices, Live, Repairing
    <2>4. UNCHANGED <<final, file>> /\ (synced' = synced \/ SyncNames)
        BY <1>9 DEF EndScan, Failed, Names
    <2>. QED
        BY <2>1, <2>2, <2>3, <2>4, NothingInstalled
<1>10. ASSUME NEW w \in Writers, UnlinkMatching(w)
      PROVE  Ownership'
    <2>1. \A v \in Writers \ {w} : writer'[v] = writer[v]
        BY <1>0, <1>10 DEF UnlinkMatching, Goto, MatchingStaging
    <2>2. /\ writer'[w].pc \notin Live
          /\ writer'[w].inode \in {writer[w].inode, NoInode}
          /\ writer'[w].pc \in Repairing =>
                 writer'[w].target \in Inodes /\ final[writer'[w].event] = writer'[w].target
        BY <1>0, <1>10 DEF UnlinkMatching, Goto, MatchingStaging, Ownership, Live, Repairing, Attempt
    <2>3. \A v \in Writers \ {w} : writer[v].pc \in Live => writer[v].inode \in stage'
        BY <1>10, ArchiveAssumption DEF UnlinkMatching, MatchingStaging, Ownership, Names, Indices, Live, Repairing
    <2>4. UNCHANGED <<final, file>> /\ (synced' = synced \/ SyncNames)
        BY <1>10 DEF UnlinkMatching, MatchingStaging, Names
    <2>. QED
        BY <2>1, <2>2, <2>3, <2>4, NothingInstalled
<1>11. ASSUME NEW w \in Writers, MatchingVanished(w)
      PROVE  Ownership'
    <2>1. \A v \in Writers \ {w} : writer'[v] = writer[v]
        BY <1>0, <1>11 DEF MatchingVanished, Goto, Vanished
    <2>2. /\ writer'[w].pc \notin Live
          /\ writer'[w].inode \in {writer[w].inode, NoInode}
          /\ writer'[w].pc \in Repairing =>
                 writer'[w].target \in Inodes /\ final[writer'[w].event] = writer'[w].target
        BY <1>0, <1>11 DEF MatchingVanished, Goto, Vanished, Ownership, Live, Repairing, Attempt
    <2>3. \A v \in Writers \ {w} : writer[v].pc \in Live => writer[v].inode \in stage'
        BY <1>11, ArchiveAssumption DEF MatchingVanished, Vanished, Ownership, Names, Indices, Live, Repairing
    <2>4. UNCHANGED <<final, file>> /\ (synced' = synced \/ SyncNames)
        BY <1>11 DEF MatchingVanished, Vanished, Names
    <2>. QED
        BY <2>1, <2>2, <2>3, <2>4, NothingInstalled
<1>12. ASSUME NEW w \in Writers, SyncRepair(w)
      PROVE  Ownership'
    <2>1. \A v \in Writers \ {w} : writer'[v] = writer[v]
        BY <1>0, <1>12 DEF SyncRepair, Goto, Succeed
    <2>2. /\ writer'[w].pc \notin Live
          /\ writer'[w].inode \in {writer[w].inode, NoInode}
          /\ writer'[w].pc \in Repairing =>
                 writer'[w].target \in Inodes /\ final[writer'[w].event] = writer'[w].target
        BY <1>0, <1>12 DEF SyncRepair, Goto, Succeed, Ownership, Live, Repairing, Attempt
    <2>3. \A v \in Writers \ {w} : writer[v].pc \in Live => writer[v].inode \in stage'
        BY <1>12, ArchiveAssumption DEF SyncRepair, Succeed, Ownership, Names, Indices, Live, Repairing
    <2>4. UNCHANGED <<final, file>> /\ (synced' = synced \/ SyncNames)
        BY <1>12 DEF SyncRepair, Succeed, Names
    <2>. QED
        BY <2>1, <2>2, <2>3, <2>4, NothingInstalled
<1>13. ASSUME NEW w \in Writers, WriteContent(w)
      PROVE  Ownership'
    <2>. DEFINE q == [writer[w] EXCEPT !.pc = "contentSync"]
    <2>1. \A v \in Writers : writer'[v] = IF v = w THEN q ELSE writer[v]
        BY <1>0, <1>13 DEF WriteContent, Goto
    <2>2. writer[w] \in Attempt /\ writer[w].event \in Events /\ writer[w].inode \in Inodes \cup {NoInode}
        BY <1>0, <1>13 DEF WriteContent, Indices, Attempt
    <2>3. q.pc = "contentSync" /\ q.inode = writer[w].inode /\ q.event = writer[w].event
        BY <2>2 DEF Attempt
    <2>4. /\ writer[w].pc = "write" /\ writer[w].inode \in Inodes
          /\ UNCHANGED <<final, synced, stage>>
        BY <1>13 DEF WriteContent, Indices, Names
    <2>5. /\ file'[writer[w].inode].event = file[writer[w].inode].event
          /\ file'[writer[w].inode].data = "written"
          /\ \A i \in Inodes \ {writer[w].inode} : file'[i] = file[i]
        BY <1>13, <2>4 DEF WriteContent, ContentSynced, TypeOK
    <2>. HIDE DEF q
    <2>6. \A e \in Events : /\ final[e] \in Inodes => Whole(final[e], e)'
                            /\ synced.final[e] \in Inodes => Whole(synced.final[e], e)'
        <3>1. \A e \in Events : final[e] # writer[w].inode /\ synced.final[e] # writer[w].inode
            BY <2>4 DEF Ownership, Live
        <3>. QED
            BY <2>4, <2>5, <3>1 DEF Ownership, Whole
    <2>7. \A v \in Writers \ {w} : writer[v].pc \in Live => writer[v].inode \in Inodes \ {writer[w].inode}
        BY <2>4, ArchiveAssumption DEF Ownership, Indices, Live
    <2>8. \A v \in Writers :
              writer'[v].pc \in Live =>
                  /\ writer'[v].inode \in stage
                  /\ file'[writer'[v].inode].event = writer'[v].event
                  /\ writer'[v].pc = "link" => file'[writer'[v].inode].data = "synced"
                  /\ \A e \in Events : final[e] # writer'[v].inode /\ synced.final[e] # writer'[v].inode
        BY <2>1, <2>3, <2>4, <2>5, <2>7 DEF Ownership, Live
    <2>9. \A v \in Writers : writer'[v].inode = writer[v].inode
        BY <2>1, <2>3
    <2>. QED
        BY <2>1, <2>3, <2>4, <2>6, <2>8, <2>9 DEF Ownership, Repairing
<1>14. ASSUME NEW w \in Writers, SyncContent(w)
      PROVE  Ownership'
    <2>. DEFINE q == [writer[w] EXCEPT !.pc = "link"]
    <2>1. \A v \in Writers : writer'[v] = IF v = w THEN q ELSE writer[v]
        BY <1>0, <1>14 DEF SyncContent, Goto
    <2>2. writer[w] \in Attempt /\ writer[w].event \in Events /\ writer[w].inode \in Inodes \cup {NoInode}
        BY <1>0, <1>14 DEF SyncContent, Indices, Attempt
    <2>3. q.pc = "link" /\ q.inode = writer[w].inode /\ q.event = writer[w].event
        BY <2>2 DEF Attempt
    <2>4. /\ writer[w].pc = "contentSync" /\ writer[w].inode \in Inodes
          /\ UNCHANGED <<final, synced, stage>>
        BY <1>14 DEF SyncContent, Indices, Names
    <2>5. /\ file'[writer[w].inode].event = file[writer[w].inode].event
          /\ file'[writer[w].inode].data = "synced"
          /\ \A i \in Inodes \ {writer[w].inode} : file'[i] = file[i]
        BY <1>14, <2>4 DEF SyncContent, ContentSynced, TypeOK
    <2>. HIDE DEF q
    <2>6. \A e \in Events : /\ final[e] \in Inodes => Whole(final[e], e)'
                            /\ synced.final[e] \in Inodes => Whole(synced.final[e], e)'
        <3>1. \A e \in Events : final[e] # writer[w].inode /\ synced.final[e] # writer[w].inode
            BY <2>4 DEF Ownership, Live
        <3>. QED
            BY <2>4, <2>5, <3>1 DEF Ownership, Whole
    <2>7. \A v \in Writers \ {w} : writer[v].pc \in Live => writer[v].inode \in Inodes \ {writer[w].inode}
        BY <2>4, ArchiveAssumption DEF Ownership, Indices, Live
    <2>8. \A v \in Writers :
              writer'[v].pc \in Live =>
                  /\ writer'[v].inode \in stage
                  /\ file'[writer'[v].inode].event = writer'[v].event
                  /\ writer'[v].pc = "link" => file'[writer'[v].inode].data = "synced"
                  /\ \A e \in Events : final[e] # writer'[v].inode /\ synced.final[e] # writer'[v].inode
        BY <2>1, <2>3, <2>4, <2>5, <2>7 DEF Ownership, Live
    <2>9. \A v \in Writers : writer'[v].inode = writer[v].inode
        BY <2>1, <2>3
    <2>. QED
        BY <2>1, <2>3, <2>4, <2>6, <2>8, <2>9 DEF Ownership, Repairing
<1>15. ASSUME NEW w \in Writers, LinkTarget(w)
      PROVE  Ownership'
    <2>1. CASE FreeName(writer[w].event)
        <3>. DEFINE q == [writer[w] EXCEPT !.pc = "unlink", !.installed = TRUE]
        <3>1. \A v \in Writers : writer'[v] = IF v = w THEN q ELSE writer[v]
            BY <1>0, <1>15, <2>1 DEF LinkTarget
        <3>2. q.pc = "unlink" /\ q.inode = writer[w].inode
            BY <1>0 DEF Attempt
        <3>3. /\ writer[w].pc = "link" /\ writer[w].event \in Events /\ writer[w].inode \in Inodes
              /\ final[writer[w].event] = NoInode
              /\ UNCHANGED <<synced, stage, file>>
            BY <1>15, <2>1 DEF LinkTarget, FreeName, Indices
        <3>4. \A e \in Events : final'[e] = IF e = writer[w].event THEN writer[w].inode ELSE final[e]
            BY <1>15, <2>1 DEF LinkTarget, TypeOK
        <3>. HIDE DEF q
        <3>5. Whole(writer[w].inode, writer[w].event)
            BY <3>3 DEF Ownership, Live, Whole
        <3>6. \A e \in Events : /\ final'[e] \in Inodes => Whole(final[e], e)'
                                /\ synced'.final[e] \in Inodes => Whole(synced.final[e], e)'
            BY <3>3, <3>4, <3>5 DEF Ownership, Whole
        <3>7. \A v \in Writers \ {w} : writer[v].pc \in Live => writer[v].inode # writer[w].inode
            BY <3>3, ArchiveAssumption DEF Ownership
        <3>8. \A v \in Writers :
                  writer'[v].pc \in Live =>
                      \A e \in Events : final'[e] # writer'[v].inode
            BY <3>1, <3>2, <3>4, <3>7 DEF Ownership, Live
        <3>9. \A v \in Writers :
                  writer'[v].pc \in Repairing =>
                      /\ v # w /\ writer[v].event \in Events /\ writer[v].event # writer[w].event
                      /\ writer'[v] = writer[v]
            BY <3>1, <3>2, <3>3, ArchiveAssumption DEF Ownership, Repairing, Indices
        <3>10. \A v \in Writers : writer'[v].inode = writer[v].inode
            BY <3>1, <3>2
        <3>11. \A v \in Writers : writer'[v].pc \in Live => v # w /\ writer'[v] = writer[v]
            BY <3>1, <3>2 DEF Live
        <3>. QED
            BY <3>3, <3>4, <3>6, <3>8, <3>9, <3>10, <3>11 DEF Ownership
    <2>2. CASE ~ FreeName(writer[w].event)
        <3>1. \A v \in Writers \ {w} : writer'[v] = writer[v]
            BY <1>0, <1>15, <2>2 DEF LinkTarget, Goto
        <3>2. writer'[w].pc \notin Live \cup Repairing /\ writer'[w].inode = writer[w].inode
            BY <1>0, <1>15, <2>2 DEF LinkTarget, Goto, Live, Repairing, Attempt
        <3>3. UNCHANGED <<final, file, synced, stage>>
            BY <1>15, <2>2 DEF LinkTarget
        <3>4. \A v \in Writers \ {w} : writer[v].pc \in Live => writer[v].inode \in stage'
            BY <3>3 DEF Ownership
        <3>. QED
            BY <3>1, <3>2, <3>3, <3>4, NothingInstalled
    <2>. QED
        BY <2>1, <2>2
<1>16. ASSUME NEW w \in Writers, UnlinkStaging(w)
      PROVE  Ownership'
    <2>1. \A v \in Writers \ {w} : writer'[v] = writer[v]
        BY <1>0, <1>16 DEF UnlinkStaging, Goto
    <2>2. /\ writer'[w].pc \notin Live
          /\ writer'[w].inode \in {writer[w].inode, NoInode}
          /\ writer'[w].pc \in Repairing =>
                 writer'[w].target \in Inodes /\ final[writer'[w].event] = writer'[w].target
        BY <1>0, <1>16 DEF UnlinkStaging, Goto, Ownership, Live, Repairing, Attempt
    <2>3. \A v \in Writers \ {w} : writer[v].pc \in Live => writer[v].inode \in stage'
        BY <1>16, ArchiveAssumption DEF UnlinkStaging, Ownership, Names, Indices, Live, Repairing
    <2>4. UNCHANGED <<final, file>> /\ (synced' = synced \/ SyncNames)
        BY <1>16 DEF UnlinkStaging, Names
    <2>. QED
        BY <2>1, <2>2, <2>3, <2>4, NothingInstalled
<1>17. ASSUME NEW w \in Writers, SyncDirectory(w)
      PROVE  Ownership'
    <2>1. \A v \in Writers \ {w} : writer'[v] = writer[v]
        BY <1>0, <1>17 DEF SyncDirectory, Goto
    <2>2. /\ writer'[w].pc \notin Live
          /\ writer'[w].inode \in {writer[w].inode, NoInode}
          /\ writer'[w].pc \in Repairing =>
                 writer'[w].target \in Inodes /\ final[writer'[w].event] = writer'[w].target
        BY <1>0, <1>17 DEF SyncDirectory, Goto, Ownership, Live, Repairing, Attempt
    <2>3. \A v \in Writers \ {w} : writer[v].pc \in Live => writer[v].inode \in stage'
        BY <1>17, ArchiveAssumption DEF SyncDirectory, Ownership, Names, Indices, Live, Repairing
    <2>4. UNCHANGED <<final, file>> /\ (synced' = synced \/ SyncNames)
        BY <1>17 DEF SyncDirectory, Names
    <2>. QED
        BY <2>1, <2>2, <2>3, <2>4, NothingInstalled
<1>18. ASSUME NEW w \in Writers, Undo(w)
      PROVE  Ownership'
    <2>1. \A v \in Writers \ {w} : writer'[v] = writer[v]
        BY <1>0, <1>18 DEF Undo, Goto, AfterUndo, StageUndone
    <2>2. /\ writer'[w].pc \notin Live
          /\ writer'[w].inode \in {writer[w].inode, NoInode}
          /\ writer'[w].pc \in Repairing =>
                 writer'[w].target \in Inodes /\ final[writer'[w].event] = writer'[w].target
        BY <1>0, <1>18 DEF Undo, Goto, AfterUndo, StageUndone, Ownership, Live, Repairing, Attempt
    <2>3. \A v \in Writers \ {w} : writer[v].pc \in Live => writer[v].inode \in stage'
        BY <1>18, ArchiveAssumption DEF Undo, AfterUndo, StageUndone, Ownership, Names, Indices, Live, Repairing
    <2>4. UNCHANGED <<final, file>> /\ (synced' = synced \/ SyncNames)
        BY <1>18 DEF Undo, AfterUndo, StageUndone, Names
    <2>. QED
        BY <2>1, <2>2, <2>3, <2>4, NothingInstalled
<1>19. ASSUME NEW w \in Writers, SyncUndo(w)
      PROVE  Ownership'
    <2>1. \A v \in Writers \ {w} : writer'[v] = writer[v]
        BY <1>0, <1>19 DEF SyncUndo, Goto
    <2>2. /\ writer'[w].pc \notin Live
          /\ writer'[w].inode \in {writer[w].inode, NoInode}
          /\ writer'[w].pc \in Repairing =>
                 writer'[w].target \in Inodes /\ final[writer'[w].event] = writer'[w].target
        BY <1>0, <1>19 DEF SyncUndo, Goto, Ownership, Live, Repairing, Attempt
    <2>3. \A v \in Writers \ {w} : writer[v].pc \in Live => writer[v].inode \in stage'
        BY <1>19, ArchiveAssumption DEF SyncUndo, Ownership, Names, Indices, Live, Repairing
    <2>4. UNCHANGED <<final, file>> /\ (synced' = synced \/ SyncNames)
        BY <1>19 DEF SyncUndo, Names
    <2>. QED
        BY <2>1, <2>2, <2>3, <2>4, NothingInstalled
<1>20. ASSUME NEW w \in Writers, Report(w)
      PROVE  Ownership'
    <2>1. \A v \in Writers \ {w} : writer'[v] = writer[v]
        BY <1>0, <1>20 DEF Report, Goto
    <2>2. /\ writer'[w].pc \notin Live
          /\ writer'[w].inode \in {writer[w].inode, NoInode}
          /\ writer'[w].pc \in Repairing =>
                 writer'[w].target \in Inodes /\ final[writer'[w].event] = writer'[w].target
        BY <1>0, <1>20 DEF Report, Goto, Ownership, Live, Repairing, Attempt
    <2>3. \A v \in Writers \ {w} : writer[v].pc \in Live => writer[v].inode \in stage'
        BY <1>20, ArchiveAssumption DEF Report, Ownership, Names, Indices, Live, Repairing
    <2>4. UNCHANGED <<final, file>> /\ (synced' = synced \/ SyncNames)
        BY <1>20 DEF Report, Names
    <2>. QED
        BY <2>1, <2>2, <2>3, <2>4, NothingInstalled
<1>21. ASSUME NEW w \in Writers, Fault(w)
      PROVE  Ownership'
    <2>1. \A v \in Writers \ {w} : writer'[v] = writer[v]
        BY <1>0, <1>21 DEF Fault, Goto, AfterUndo
    <2>2. /\ writer'[w].pc \notin Live
          /\ writer'[w].inode \in {writer[w].inode, NoInode}
          /\ writer'[w].pc \in Repairing =>
                 writer'[w].target \in Inodes /\ final[writer'[w].event] = writer'[w].target
        BY <1>0, <1>21 DEF Fault, Goto, AfterUndo, Ownership, Live, Repairing, Attempt
    <2>3. \A v \in Writers \ {w} : writer[v].pc \in Live => writer[v].inode \in stage'
        BY <1>21, ArchiveAssumption DEF Fault, AfterUndo, Ownership, Names, Indices, Live, Repairing
    <2>4. UNCHANGED <<final, file>> /\ (synced' = synced \/ SyncNames)
        BY <1>21 DEF Fault, AfterUndo, Names
    <2>. QED
        BY <2>1, <2>2, <2>3, <2>4, NothingInstalled
<1>22. ASSUME NEW w \in Writers, Crash(w)
      PROVE  Ownership'
    <2>1. \A v \in Writers \ {w} : writer'[v] = writer[v]
        BY <1>0, <1>22 DEF Crash, Goto
    <2>2. /\ writer'[w].pc \notin Live
          /\ writer'[w].inode \in {writer[w].inode, NoInode}
          /\ writer'[w].pc \in Repairing =>
                 writer'[w].target \in Inodes /\ final[writer'[w].event] = writer'[w].target
        BY <1>0, <1>22 DEF Crash, Goto, Ownership, Live, Repairing, Attempt
    <2>3. \A v \in Writers \ {w} : writer[v].pc \in Live => writer[v].inode \in stage'
        BY <1>22, ArchiveAssumption DEF Crash, Ownership, Names, Indices, Live, Repairing
    <2>4. UNCHANGED <<final, file>> /\ (synced' = synced \/ SyncNames)
        BY <1>22 DEF Crash, Names
    <2>. QED
        BY <2>1, <2>2, <2>3, <2>4, NothingInstalled
<1>23. ASSUME NEW w \in Writers, NEW i \in Inodes, StatStaging(w, i)
      PROVE  Ownership'
    <2>1. \A v \in Writers \ {w} : writer'[v] = writer[v]
        BY <1>0, <1>23 DEF StatStaging, Goto
    <2>2. /\ writer'[w].pc \notin Live
          /\ writer'[w].inode \in {writer[w].inode, NoInode}
          /\ writer'[w].pc \in Repairing =>
                 writer'[w].target \in Inodes /\ final[writer'[w].event] = writer'[w].target
        BY <1>0, <1>23 DEF StatStaging, Goto, Ownership, Live, Repairing, Attempt
    <2>3. \A v \in Writers \ {w} : writer[v].pc \in Live => writer[v].inode \in stage'
        BY <1>23, ArchiveAssumption DEF StatStaging, Ownership, Names, Indices, Live, Repairing
    <2>4. UNCHANGED <<final, file>> /\ (synced' = synced \/ SyncNames)
        BY <1>23 DEF StatStaging, Names
    <2>. QED
        BY <2>1, <2>2, <2>3, <2>4, NothingInstalled
<1>24. ASSUME NEW w \in Writers, NEW i \in Inodes, StagingVanished(w, i)
      PROVE  Ownership'
    <2>1. \A v \in Writers \ {w} : writer'[v] = writer[v]
        BY <1>0, <1>24 DEF StagingVanished, Goto, Vanished
    <2>2. /\ writer'[w].pc \notin Live
          /\ writer'[w].inode \in {writer[w].inode, NoInode}
          /\ writer'[w].pc \in Repairing =>
                 writer'[w].target \in Inodes /\ final[writer'[w].event] = writer'[w].target
        BY <1>0, <1>24 DEF StagingVanished, Goto, Vanished, Ownership, Live, Repairing, Attempt
    <2>3. \A v \in Writers \ {w} : writer[v].pc \in Live => writer[v].inode \in stage'
        BY <1>24, ArchiveAssumption DEF StagingVanished, Vanished, Ownership, Names, Indices, Live, Repairing
    <2>4. UNCHANGED <<final, file>> /\ (synced' = synced \/ SyncNames)
        BY <1>24 DEF StagingVanished, Vanished, Names
    <2>. QED
        BY <2>1, <2>2, <2>3, <2>4, NothingInstalled
<1>25. ASSUME NEW w \in Writers, NEW i \in Inodes, CreateStaging(w, i)
      PROVE  Ownership'
    <2>. DEFINE q == [writer[w] EXCEPT !.pc = "write", !.inode = i]
    <2>1. \A v \in Writers : writer'[v] = IF v = w THEN q ELSE writer[v]
        BY <1>0, <1>25 DEF CreateStaging, Goto
    <2>2. writer[w] \in Attempt /\ writer[w].event \in Events /\ writer[w].inode \in Inodes \cup {NoInode}
        BY <1>0, <1>25 DEF CreateStaging, Indices, Attempt
    <2>3. q.pc = "write" /\ q.inode = i /\ q.event = writer[w].event
        BY <2>2 DEF Attempt
    <2>4. /\ UNCHANGED <<final, synced>> /\ stage' = stage \cup {i}
          /\ file'[i].event = writer[w].event
          /\ \A j \in Inodes \ {i} : file'[j] = file[j]
        BY <1>25 DEF CreateStaging, TypeOK
    <2>5. /\ \A e \in Events : final[e] # i /\ synced.final[e] # i
          /\ \A v \in Writers : writer[v].inode # i
          /\ i # NoInode
        BY <1>25, ArchiveAssumption DEF CreateStaging, Unused
    <2>. HIDE DEF q
    <2>6. \A e \in Events : /\ final[e] \in Inodes => Whole(final[e], e)'
                            /\ synced.final[e] \in Inodes => Whole(synced.final[e], e)'
        BY <2>4, <2>5 DEF Ownership, Whole
    <2>7. \A v \in Writers \ {w} : writer[v].pc \in Live => writer[v].inode \in Inodes \ {i}
        BY <2>5 DEF Indices, Live
    <2>8. \A v \in Writers :
              writer'[v].pc \in Live =>
                  /\ writer'[v].inode \in stage'
                  /\ file'[writer'[v].inode].event = writer'[v].event
                  /\ writer'[v].pc = "link" => file'[writer'[v].inode].data = "synced"
                  /\ \A e \in Events : final[e] # writer'[v].inode /\ synced.final[e] # writer'[v].inode
        BY <2>1, <2>3, <2>4, <2>5, <2>7 DEF Ownership
    <2>9. \A v, u \in Writers :
              v # u /\ writer'[v].inode # NoInode => writer'[v].inode # writer'[u].inode
        BY <2>1, <2>3, <2>5 DEF Ownership
    <2>. QED
        BY <2>1, <2>3, <2>4, <2>6, <2>8, <2>9 DEF Ownership, Repairing
<1>26. ASSUME PowerLoss
      PROVE  Ownership'
    <2>1. \A w \in Writers : writer'[w] = Idle
        BY <1>26 DEF PowerLoss
    <2>2. \A i \in Inodes : file[i].data = "synced" => file'[i] = file[i]
        BY <1>26 DEF PowerLoss
    <2>3. \A e \in Events : final'[e] \in {final[e], synced.final[e], Nothing.final[e]}
        BY <1>26 DEF PowerLoss
    <2>4. \A e \in Events : Nothing.final[e] \notin Inodes
        BY ArchiveAssumption DEF Nothing
    <2>5. \A e \in Events : final'[e] \in Inodes => Whole(final[e], e)'
        BY <2>2, <2>3, <2>4 DEF Ownership, Whole
    <2>6. \A e \in Events : synced'.final[e] = final'[e]
        BY <1>26 DEF PowerLoss
    <2>7. \A e \in Events : synced'.final[e] \in Inodes => Whole(synced.final[e], e)'
        BY <2>5, <2>6 DEF Whole
    <2>. QED
        BY <1>0, <2>1, <2>5, <2>7 DEF Ownership, Live, Repairing
<1>27. ASSUME UNCHANGED vars
      PROVE  Ownership'
    BY <1>27 DEF vars, Ownership, Whole
<1>. QED
    BY StepCases, <1>1, <1>2, <1>3, <1>4, <1>5, <1>6, <1>7, <1>8, <1>9, <1>10, <1>11, <1>12, <1>13, <1>14, <1>15, <1>16, <1>17, <1>18, <1>19, <1>20, <1>21, <1>22, <1>23, <1>24, <1>25, <1>26, <1>27

-----------------------------------------------------------------------------
(* Theorems *)

(* Every reachable state has its type, and the files of the archive and of   *)
(* the attempts are told apart as Ownership says.                            *)
THEOREM OwnershipKept == Spec => [](TypeOK /\ Indices /\ Ownership)
<1>1. Init => TypeOK /\ Indices /\ Ownership
    BY ArchiveAssumption
    DEF Init, TypeOK, Indices, Ownership, Nothing, Idle, Attempt, Target, Directory, Live, Repairing
<1>2. TypeOK /\ Indices /\ Ownership /\ [Next]_vars => (TypeOK /\ Indices /\ Ownership)'
    BY TypePreserved, OwnershipPreserved
<1>. QED
    BY <1>1, <1>2, PTL DEF Spec

(* TS-0033: no partial final file is observable, whatever races, fails or    *)
(* loses power: nothing gets a final name before its content is synced.      *)
THEOREM NothingPartial == Spec => []NoPartialFile
<1>1. Ownership => NoPartialFile
    BY DEF Ownership, Whole, NoPartialFile
<1>. QED
    BY <1>1, OwnershipKept, PTL

(* No attempt removes or takes over the staging file of another, although    *)
(* repairs remove staging names that are not their own.                      *)
THEOREM StagingKept == Spec => []LiveStagingKept
<1>1. Ownership => LiveStagingKept
    BY DEF Ownership, Live, LiveStagingKept
<1>. QED
    BY <1>1, OwnershipKept, PTL

(* What has a final name keeps it and is what was acknowledged: of two        *)
(* contenders one installs and the other verifies.                           *)
THEOREM InstalledStays == Spec => InstalledForGood
<1>1. TypeOK /\ Indices /\ Ownership /\ [Next]_vars
          => [\A e \in Events :
                 /\ final[e] # NoInode /\ losses' = losses => final'[e] = final[e]
                 /\ e \in accepted' \ accepted => final[e] \in Inodes]_vars
    <2>. SUFFICES ASSUME TypeOK, Indices, Ownership, [Next]_vars, NEW e \in Events
                  PROVE  /\ final[e] # NoInode /\ losses' = losses => final'[e] = final[e]
                         /\ e \in accepted' \ accepted => final[e] \in Inodes
        OBVIOUS
    <2>1. CASE PowerLoss
        <3>1. losses' # losses
            BY <2>1, ArchiveAssumption DEF PowerLoss, TypeOK
        <3>. QED
            BY <2>1, <3>1 DEF PowerLoss
    <2>2. ASSUME NEW w \in Writers, LinkTarget(w)
          PROVE  accepted' = accepted /\ (final[e] # NoInode => final'[e] = final[e])
        BY <2>2 DEF LinkTarget, FreeName, TypeOK
    <2>3. ASSUME NEW w \in Writers, TargetVerified(w)
          PROVE  final' = final /\ (e \in accepted' \ accepted => final[e] \in Inodes)
        BY <2>3 DEF TargetVerified, Matches, Existing, Succeed
    <2>4. ASSUME NEW w \in Writers, SyncRepair(w)
          PROVE  final' = final /\ (e \in accepted' \ accepted => final[e] \in Inodes)
        <3>1. /\ writer[w].pc = "repairSync" /\ final' = final
              /\ accepted' = accepted \cup {writer[w].event}
            BY <2>4 DEF SyncRepair, Succeed, SyncNames
        <3>2. writer[w].pc \in Repairing
            BY <3>1 DEF Repairing
        <3>3. final[writer[w].event] \in Inodes
            BY <3>2 DEF Ownership
        <3>. QED
            BY <3>1, <3>3
    <2>5. ASSUME \/ \E w \in Writers, d \in Events : Begin(w, d)
                 \/ \E w \in Writers : \/ OpenHome(w) \/ SyncHome(w) \/ TargetMissing(w)
                                       \/ TargetLinkedTwice(w) \/ TargetRejected(w)
                                       \/ ListStaging(w) \/ EndScan(w)
                                       \/ UnlinkMatching(w) \/ MatchingVanished(w)
                                       \/ WriteContent(w) \/ SyncContent(w)
                 \/ UNCHANGED vars
          PROVE  final' = final /\ accepted' = accepted
        BY <2>5 DEF Begin, OpenHome, SyncHome, TargetMissing, TargetLinkedTwice, TargetRejected,
           ListStaging, EndScan, UnlinkMatching, MatchingVanished, Vanished, WriteContent,
           SyncContent, Names, vars
    <2>6. ASSUME \/ \E w \in Writers : \/ UnlinkStaging(w) \/ SyncDirectory(w) \/ Undo(w)
                                       \/ SyncUndo(w) \/ Report(w) \/ Fault(w) \/ Crash(w)
                 \/ \E w \in Writers, i \in Inodes : \/ StatStaging(w, i)
                                                     \/ StagingVanished(w, i)
                                                     \/ CreateStaging(w, i)
          PROVE  final' = final /\ accepted' = accepted
        BY <2>6 DEF UnlinkStaging, SyncDirectory, Undo, SyncUndo, Report, Fault, Crash,
           StatStaging, StagingVanished, Vanished, CreateStaging, Names
    <2>. QED
        BY StepCases, <2>1, <2>2, <2>3, <2>4, <2>5, <2>6
<1>. QED
    BY <1>1, OwnershipKept, PTL DEF Spec, InstalledForGood

-----------------------------------------------------------------------------
(* What attempts leave behind. *)

\* An attempt remembers a file from its creation to the removal of its staging
\* name; the finally block meets one only after a failed call.  The staging
\* names that no attempt remembers are those of killed processes.
Holding == {"write", "contentSync", "link", "unlink", "undo"}
Orphans == stage \ {writer[w].inode : w \in Writers}

Remembered ==
    /\ \A w \in Writers : writer[w].pc \notin Holding => writer[w].inode = NoInode
    /\ faults = 0 => \A w \in Writers : writer[w].pc = "undo" => writer[w].inode = NoInode

Counted ==
    losses = 0 => IsFiniteSet(stage) /\ (faults <= 1 => Cardinality(Orphans) <= crashes)

Books == Remembered /\ Counted

\* An attempt that has given a final name has still to sync it, unless that
\* has failed; so has the creator of the directory its parent.
Obliged(w, e) ==
    /\ writer[w].event = e /\ writer[w].installed
    /\ \/ writer[w].pc \in {"unlink", "directorySync"}
       \/ faults = 1 /\ writer[w].pc \in {"undo", "undoSync"}

HomeKept ==
    \/ home = "synced"
    \/ home = "new" /\ \E w \in Writers : writer[w].pc = "homeSync"
    \/ home = "absent" /\ accepted = {} /\ \A w \in Writers : writer[w].pc \in {"idle", "home"}

Duties ==
    crashes = 0 /\ losses = 0 =>
        /\ faults <= 1 => \A e \in Events :
               synced.final[e] = final[e] \/ \E w \in Writers : Obliged(w, e)
        /\ faults = 0 => HomeKept

(* An attempt's call between the directory and the end, which neither gives  *)
(* a final name nor fails, leaves the others, the names and the counts.      *)
LEMMA OrdinaryCall ==
    ASSUME TypeOK, NEW w \in Writers,
           \/ TargetMissing(w) \/ TargetVerified(w) \/ TargetLinkedTwice(w) \/ TargetRejected(w)
           \/ ListStaging(w) \/ EndScan(w) \/ UnlinkMatching(w) \/ MatchingVanished(w)
           \/ SyncRepair(w) \/ WriteContent(w) \/ SyncContent(w) \/ UnlinkStaging(w)
           \/ SyncDirectory(w) \/ Undo(w) \/ SyncUndo(w) \/ Report(w)
           \/ \E i \in Inodes : StatStaging(w, i) \/ StagingVanished(w, i) \/ CreateStaging(w, i)
    PROVE  /\ \A v \in Writers \ {w} : writer'[v] = writer[v]
           /\ UNCHANGED <<home, final, faults, crashes, losses>>
           /\ synced' = synced \/ SyncNames
           /\ writer[w].pc \notin {"idle", "home", "homeSync"}
<1>0. writer \in [Writers -> Attempt]
    BY DEF TypeOK
<1>1. CASE TargetMissing(w) \/ TargetLinkedTwice(w) \/ TargetRejected(w) \/ ListStaging(w)
           \/ EndScan(w) \/ WriteContent(w) \/ SyncContent(w) \/ Report(w)
    BY <1>0, <1>1 DEF TargetMissing, TargetLinkedTwice, TargetRejected, ListStaging, EndScan,
       WriteContent, SyncContent, Report, Goto, Failed, Names, Environment
<1>2. CASE TargetVerified(w) \/ SyncRepair(w) \/ SyncDirectory(w) \/ SyncUndo(w)
    BY <1>0, <1>2 DEF TargetVerified, SyncRepair, SyncDirectory, SyncUndo, Succeed, Goto, Environment
<1>3. CASE UnlinkMatching(w) \/ MatchingVanished(w) \/ UnlinkStaging(w) \/ Undo(w)
    BY <1>0, <1>3 DEF UnlinkMatching, MatchingVanished, UnlinkStaging, Undo, Vanished, Goto,
       Names, Environment
<1>4. CASE \E i \in Inodes : StatStaging(w, i) \/ StagingVanished(w, i) \/ CreateStaging(w, i)
    BY <1>0, <1>4 DEF StatStaging, StagingVanished, CreateStaging, Vanished, Names, Environment
<1>. QED
    BY <1>1, <1>2, <1>3, <1>4

(* After such a call an attempt that had to sync its final name still has,   *)
(* or has done it.                                                           *)
LEMMA DutiesGoOn ==
    ASSUME TypeOK, NEW w \in Writers, NEW e \in Events, Obliged(w, e),
           \/ TargetMissing(w) \/ TargetVerified(w) \/ TargetLinkedTwice(w) \/ TargetRejected(w)
           \/ ListStaging(w) \/ EndScan(w) \/ UnlinkMatching(w) \/ MatchingVanished(w)
           \/ SyncRepair(w) \/ WriteContent(w) \/ SyncContent(w) \/ UnlinkStaging(w)
           \/ SyncDirectory(w) \/ Undo(w) \/ SyncUndo(w) \/ Report(w)
           \/ \E i \in Inodes : StatStaging(w, i) \/ StagingVanished(w, i) \/ CreateStaging(w, i)
    PROVE  Obliged(w, e)' \/ SyncNames
<1>0. writer \in [Writers -> Attempt] /\ writer[w].pc \in {"unlink", "directorySync", "undo", "undoSync"}
    BY DEF TypeOK, Obliged
<1>1. CASE SyncDirectory(w) \/ SyncUndo(w)
    BY <1>1 DEF SyncDirectory, SyncUndo
<1>2. CASE UnlinkStaging(w)
    BY <1>0, <1>2 DEF UnlinkStaging, Obliged, Environment
<1>3. CASE Undo(w)
    BY <1>0, <1>3 DEF Undo, AfterUndo, Obliged, Environment
<1>. QED
    BY <1>0, <1>1, <1>2, <1>3
       DEF TargetMissing, TargetVerified, TargetLinkedTwice, TargetRejected, ListStaging, EndScan,
           UnlinkMatching, MatchingVanished, SyncRepair, WriteContent, SyncContent, Report,
           StatStaging, StagingVanished, CreateStaging

(* Final names are synced by those who gave them.  (_install_or_verify)      *)
LEMMA DutiesPreserved == TypeOK /\ Duties /\ [Next]_vars => Duties'
<1>. SUFFICES ASSUME TypeOK, Duties, [Next]_vars, crashes' = 0, losses' = 0
              PROVE  /\ faults' <= 1 => \A e \in Events :
                           synced'.final[e] = final'[e] \/ \E w \in Writers : Obliged(w, e)'
                     /\ faults' = 0 => HomeKept'
    BY DEF Duties
<1>0. writer \in [Writers -> Attempt] /\ faults \in Nat /\ crashes \in Nat /\ losses \in Nat
    BY ArchiveAssumption DEF TypeOK
<1>1. ASSUME NEW w \in Writers,
           \/ TargetMissing(w) \/ TargetVerified(w) \/ TargetLinkedTwice(w) \/ TargetRejected(w)
           \/ ListStaging(w) \/ EndScan(w) \/ UnlinkMatching(w) \/ MatchingVanished(w)
           \/ SyncRepair(w) \/ WriteContent(w) \/ SyncContent(w) \/ UnlinkStaging(w)
           \/ SyncDirectory(w) \/ Undo(w) \/ SyncUndo(w) \/ Report(w)
           \/ \E i \in Inodes : StatStaging(w, i) \/ StagingVanished(w, i) \/ CreateStaging(w, i)
      PROVE  /\ faults' <= 1 => \A e \in Events :
                   synced'.final[e] = final'[e] \/ \E v \in Writers : Obliged(v, e)'
             /\ faults' = 0 => HomeKept'
    <2>1. /\ \A v \in Writers \ {w} : writer'[v] = writer[v]
          /\ UNCHANGED <<home, final, faults, crashes, losses>>
          /\ synced' = synced \/ SyncNames
          /\ writer[w].pc \notin {"idle", "home", "homeSync"}
        BY <1>1, OrdinaryCall
    <2>2. ASSUME faults' <= 1, NEW e \in Events, ~SyncNames
          PROVE  synced'.final[e] = final'[e] \/ \E v \in Writers : Obliged(v, e)'
        <3>1. CASE synced.final[e] = final[e]
            BY <2>1, <2>2, <3>1
        <3>2. ASSUME NEW v \in Writers, Obliged(v, e) PROVE Obliged(v, e)'
            <4>1. CASE v = w
                BY <1>1, <2>2, <3>2, <4>1, DutiesGoOn
            <4>2. CASE v # w
                BY <2>1, <3>2, <4>2 DEF Obliged
            <4>. QED BY <4>1, <4>2
        <3>. QED BY <2>1, <2>2, <3>1, <3>2 DEF Duties
    <2>3. ASSUME SyncNames, NEW e \in Events PROVE synced'.final[e] = final'[e]
        BY <2>1, <2>3 DEF SyncNames
    <2>4. faults' = 0 => HomeKept'
        BY <2>1 DEF Duties, HomeKept
    <2>. QED BY <2>2, <2>3, <2>4
<1>2. ASSUME NEW w \in Writers, (\E e \in Events : Begin(w, e)) \/ OpenHome(w) \/ SyncHome(w)
      PROVE  /\ faults' <= 1 => \A e \in Events :
                   synced'.final[e] = final'[e] \/ \E v \in Writers : Obliged(v, e)'
             /\ faults' = 0 => HomeKept'
    <2>1. /\ \A v \in Writers \ {w} : writer'[v] = writer[v]
          /\ UNCHANGED <<final, synced, faults, crashes, losses, accepted>>
          /\ writer[w].pc \in {"idle", "home", "homeSync"}
        BY <1>0, <1>2 DEF Begin, OpenHome, SyncHome, Goto, Names, Environment
    <2>2. ASSUME NEW e \in Events, NEW v \in Writers, Obliged(v, e) PROVE Obliged(v, e)'
        BY <2>1, <2>2 DEF Obliged
    <2>3. ASSUME faults' = 0 PROVE HomeKept'
        <3>1. HomeKept
            BY <2>1, <2>3 DEF Duties
        <3>2. CASE \E e \in Events : Begin(w, e)
            BY <1>0, <2>1, <3>1, <3>2 DEF Begin, Names, HomeKept
        <3>3. CASE OpenHome(w)
            <4>1. CASE home = "absent"
                <5>1. home' = "new" /\ writer'[w].pc = "homeSync"
                    BY <1>0, <3>3, <4>1 DEF OpenHome, Goto, Attempt
                <5>. QED BY <5>1 DEF HomeKept
            <4>2. CASE home # "absent"
                <5>1. UNCHANGED home /\ writer[w].pc = "home"
                    BY <3>3, <4>2 DEF OpenHome
                <5>. QED BY <2>1, <3>1, <4>2, <5>1 DEF HomeKept
            <4>. QED BY <4>1, <4>2
        <3>4. CASE SyncHome(w)
            BY <3>4 DEF SyncHome, HomeKept
        <3>. QED BY <1>2, <3>2, <3>3, <3>4
    <2>. QED BY <2>1, <2>2, <2>3 DEF Duties
<1>3. ASSUME NEW w \in Writers, LinkTarget(w)
      PROVE  /\ faults' <= 1 => \A e \in Events :
                   synced'.final[e] = final'[e] \/ \E v \in Writers : Obliged(v, e)'
             /\ faults' = 0 => HomeKept'
    <2>1. /\ \A v \in Writers \ {w} : writer'[v] = writer[v]
          /\ UNCHANGED <<home, synced, faults, crashes, losses, accepted>>
          /\ writer[w].pc = "link" /\ writer'[w].pc = "unlink" /\ writer'[w].event = writer[w].event
        <3>1. CASE FreeName(writer[w].event)
            BY <1>0, <1>3, <3>1 DEF LinkTarget, Environment, Attempt
        <3>2. CASE ~FreeName(writer[w].event)
            BY <1>0, <1>3, <3>2 DEF LinkTarget, Goto, Environment, Attempt
        <3>. QED BY <3>1, <3>2
    <2>2. ASSUME NEW e \in Events, NEW v \in Writers, Obliged(v, e) PROVE Obliged(v, e)'
        BY <2>1, <2>2 DEF Obliged
    <2>3. ASSUME NEW e \in Events PROVE final'[e] = final[e] \/ Obliged(w, e)'
        <3>1. CASE FreeName(writer[w].event)
            <4>1. writer' = [writer EXCEPT ![w].pc = "unlink", ![w].installed = TRUE]
                BY <1>3, <3>1 DEF LinkTarget
            <4>2. writer'[w].installed
                BY <1>0, <4>1 DEF Attempt
            <4>3. CASE e = writer[w].event
                BY <2>1, <4>2, <4>3 DEF Obliged
            <4>4. CASE e # writer[w].event
                BY <1>3, <3>1, <4>4 DEF LinkTarget, TypeOK
            <4>. QED BY <4>3, <4>4
        <3>2. CASE ~FreeName(writer[w].event)
            BY <1>3, <3>2 DEF LinkTarget
        <3>. QED BY <3>1, <3>2
    <2>4. faults' = 0 => HomeKept'
        BY <2>1 DEF Duties, HomeKept
    <2>. QED BY <2>1, <2>2, <2>3, <2>4 DEF Duties
<1>4. ASSUME NEW w \in Writers, Fault(w)
      PROVE  /\ faults' <= 1 => \A e \in Events :
                   synced'.final[e] = final'[e] \/ \E v \in Writers : Obliged(v, e)'
             /\ faults' = 0 => HomeKept'
    <2>1. /\ \A v \in Writers \ {w} : writer'[v] = writer[v]
          /\ UNCHANGED <<final, synced, crashes, losses>> /\ faults' = faults + 1
        BY <1>0, <1>4 DEF Fault, Names
    <2>2. ASSUME faults' <= 1, NEW e \in Events, NEW v \in Writers, Obliged(v, e)
          PROVE  Obliged(v, e)'
        <3>1. faults = 0 /\ faults' = 1
            BY <1>0, <2>1, <2>2
        <3>2. CASE v # w
            BY <2>1, <2>2, <3>1, <3>2 DEF Obliged
        <3>3. CASE v = w
            <4>1. writer[w].pc \in {"unlink", "directorySync"}
                BY <2>2, <3>1, <3>3 DEF Obliged
            <4>2. writer'[w].pc = "undo" /\ writer'[w].event = writer[w].event
                  /\ writer'[w].installed = writer[w].installed
                BY <1>0, <1>4, <4>1 DEF Fault, Attempt
            <4>. QED BY <2>2, <3>1, <3>3, <4>2 DEF Obliged
        <3>. QED BY <3>2, <3>3
    <2>. QED BY <1>0, <2>1, <2>2 DEF Duties
<1>5. ASSUME (\E w \in Writers : Crash(w)) \/ PowerLoss PROVE FALSE
    BY <1>0, <1>5 DEF Crash, PowerLoss
<1>6. ASSUME UNCHANGED vars
      PROVE  /\ faults' <= 1 => \A e \in Events :
                   synced'.final[e] = final'[e] \/ \E v \in Writers : Obliged(v, e)'
             /\ faults' = 0 => HomeKept'
    BY <1>6 DEF vars, Duties, HomeKept, Obliged
<1>. QED
    BY <1>1, <1>2, <1>3, <1>4, <1>5, <1>6 DEF Next, Work

(* A step of one attempt adds no staging name that it does not remember, and *)
(* forgets its file only with the staging name.                              *)
LEMMA BooksStayInOrder ==
    ASSUME TypeOK, TypeOK', Books, NEW w \in Writers,
           \A v \in Writers \ {w} : writer'[v] = writer[v],
           UNCHANGED <<faults, crashes, losses>>,
           stage' \subseteq stage \cup {writer'[w].inode},
           writer'[w].inode = writer[w].inode \/ writer[w].inode \notin stage',
           writer'[w].pc \notin Holding => writer'[w].inode = NoInode,
           faults = 0 /\ writer'[w].pc = "undo" => writer'[w].inode = NoInode
    PROVE  Books'
<1>1. Remembered'
    BY DEF Books, Remembered
<1>2. ASSUME losses = 0
      PROVE  IsFiniteSet(stage') /\ (faults <= 1 => Cardinality(Orphans') <= crashes)
    <2>1. IsFiniteSet(stage)
        BY <1>2 DEF Books, Counted
    <2>2. PICK i : i = writer'[w].inode
        OBVIOUS
    <2>3. IsFiniteSet(stage \cup {i})
        BY <2>1, FS_AddElement
    <2>4. stage' \in SUBSET (stage \cup {i})
        BY <2>2
    <2>5. IsFiniteSet(stage')
        BY <2>3, <2>4, FS_Subset
    <2>6. Orphans' \in SUBSET Orphans
        BY DEF Orphans
    <2>7. IsFiniteSet(Orphans)
        <3>1. Orphans \in SUBSET stage
            BY DEF Orphans
        <3>. QED BY <2>1, <3>1, FS_Subset
    <2>8. Cardinality(Orphans') <= Cardinality(Orphans)
          /\ Cardinality(Orphans) \in Nat /\ Cardinality(Orphans') \in Nat
        BY <2>6, <2>7, FS_Subset, FS_CardinalityType
    <2>9. crashes \in Nat
        BY ArchiveAssumption DEF TypeOK
    <2>. QED BY <1>2, <2>5, <2>8, <2>9 DEF Books, Counted
<1>3. Counted'
    BY <1>2 DEF Counted
<1>. QED BY <1>1, <1>3 DEF Books

(* Each call leaves the attempt with its file or without the staging name.   *)
LEMMA CallsRemember ==
    ASSUME TypeOK, TypeOK', Books, NEW w \in Writers,
           (\E e \in Events : Begin(w, e)) \/ Work(w)
    PROVE  Books'
<1>0. /\ writer \in [Writers -> Attempt] /\ NoInode \notin stage /\ NoInode \notin stage'
      /\ stage \subseteq Inodes /\ Idle.inode = NoInode /\ Idle.pc = "idle"
    BY ArchiveAssumption DEF TypeOK, Idle
<1>1. CASE \/ \E e \in Events : Begin(w, e)
           \/ OpenHome(w) \/ SyncHome(w) \/ TargetMissing(w) \/ TargetLinkedTwice(w)
           \/ ListStaging(w)
    <2>1. /\ \A v \in Writers \ {w} : writer'[v] = writer[v]
          /\ UNCHANGED <<faults, crashes, losses, stage>>
          /\ writer'[w].inode = writer[w].inode
          /\ writer[w].pc \notin Holding /\ writer'[w].pc \notin Holding
        BY <1>0, <1>1 DEF Begin, OpenHome, SyncHome, TargetMissing, TargetLinkedTwice, ListStaging,
           Goto, Names, Environment, Holding, Attempt
    <2>. QED BY <2>1, BooksStayInOrder DEF Books, Remembered, Holding
<1>2. CASE \/ TargetRejected(w) \/ EndScan(w)
           \/ \E i \in Inodes : StatStaging(w, i)
    <2>1. /\ \A v \in Writers \ {w} : writer'[v] = writer[v]
          /\ UNCHANGED <<faults, crashes, losses, stage>>
          /\ writer'[w].inode = writer[w].inode
          /\ writer[w].pc \notin Holding
        <3>1. CASE TargetRejected(w)
            BY <1>0, <3>1 DEF TargetRejected, Failed, Goto, Names, Environment, Holding, Attempt
        <3>2. CASE EndScan(w)
            BY <1>0, <3>2 DEF EndScan, Failed, Goto, Names, Environment, Holding, Attempt
        <3>3. CASE \E i \in Inodes : StatStaging(w, i)
            BY <1>0, <3>3 DEF StatStaging, Names, Environment, Holding, Attempt
        <3>. QED BY <1>2, <3>1, <3>2, <3>3
    <2>. QED BY <2>1, BooksStayInOrder DEF Books, Remembered
<1>3. CASE MatchingVanished(w) \/ \E i \in Inodes : StagingVanished(w, i)
    <2>1. /\ \A v \in Writers \ {w} : writer'[v] = writer[v]
          /\ UNCHANGED <<faults, crashes, losses, stage>>
          /\ writer'[w].inode = writer[w].inode
          /\ writer[w].pc \notin Holding
        BY <1>0, <1>3 DEF MatchingVanished, StagingVanished, Vanished, Names, Environment,
           Holding, Attempt
    <2>. QED BY <2>1, BooksStayInOrder DEF Books, Remembered
<1>4. CASE UnlinkMatching(w) \/ TargetVerified(w) \/ SyncRepair(w) \/ SyncUndo(w) \/ Report(w)
           \/ SyncDirectory(w)
    <2>1. /\ \A v \in Writers \ {w} : writer'[v] = writer[v]
          /\ UNCHANGED <<faults, crashes, losses>> /\ stage' \subseteq stage
          /\ writer'[w].inode \in {writer[w].inode, NoInode}
          /\ writer[w].pc \notin Holding /\ writer'[w].pc \notin Holding
        BY <1>0, <1>4 DEF UnlinkMatching, TargetVerified, SyncRepair, SyncUndo, Report,
           SyncDirectory, Succeed, Goto, Names, Environment, Holding, Attempt
    <2>2. writer[w].inode = NoInode
        BY <2>1 DEF Books, Remembered
    <2>. QED BY <2>1, <2>2, BooksStayInOrder DEF Holding
<1>5. CASE WriteContent(w) \/ SyncContent(w)
    <2>1. /\ \A v \in Writers \ {w} : writer'[v] = writer[v]
          /\ UNCHANGED <<faults, crashes, losses, stage>>
          /\ writer'[w].inode = writer[w].inode
          /\ writer'[w].pc \in {"contentSync", "link"}
        BY <1>0, <1>5 DEF WriteContent, SyncContent, Goto, Names, Environment, Attempt
    <2>. QED BY <2>1, BooksStayInOrder DEF Holding
<1>6. CASE LinkTarget(w)
    <2>1. /\ \A v \in Writers \ {w} : writer'[v] = writer[v]
          /\ UNCHANGED <<faults, crashes, losses, stage>>
          /\ writer'[w].inode = writer[w].inode /\ writer'[w].pc = "unlink"
        <3>1. CASE FreeName(writer[w].event)
            BY <1>0, <1>6, <3>1 DEF LinkTarget, Environment, Attempt
        <3>2. CASE ~FreeName(writer[w].event)
            BY <1>0, <1>6, <3>2 DEF LinkTarget, Goto, Environment, Attempt
        <3>. QED BY <3>1, <3>2
    <2>. QED BY <2>1, BooksStayInOrder DEF Holding
<1>7. CASE UnlinkStaging(w) \/ Undo(w)
    <2>1. /\ \A v \in Writers \ {w} : writer'[v] = writer[v]
          /\ UNCHANGED <<faults, crashes, losses>> /\ stage' = stage \ {writer[w].inode}
          /\ writer'[w].inode = NoInode
        BY <1>0, <1>7 DEF UnlinkStaging, Undo, StageUndone, Environment, Attempt
    <2>. QED BY <2>1, BooksStayInOrder
<1>8. CASE \E i \in Inodes : CreateStaging(w, i)
    <2>1. /\ \A v \in Writers \ {w} : writer'[v] = writer[v]
          /\ UNCHANGED <<faults, crashes, losses>> /\ stage' = stage \cup {writer'[w].inode}
          /\ writer[w].pc = "create" /\ writer'[w].pc = "write"
        BY <1>0, <1>8 DEF CreateStaging, Environment, Attempt
    <2>2. writer[w].inode = NoInode
        BY <2>1 DEF Books, Remembered, Holding
    <2>. QED BY <1>0, <2>1, <2>2, BooksStayInOrder DEF Holding
<1>. QED BY <1>1, <1>2, <1>3, <1>4, <1>5, <1>6, <1>7, <1>8 DEF Work

(* A failed call keeps the staging name in mind for the finally block, and   *)
(* only a kill forgets one.                                                  *)
LEMMA BooksPreserved == TypeOK /\ TypeOK' /\ Books /\ [Next]_vars => Books'
<1>. SUFFICES ASSUME TypeOK, TypeOK', Books, [Next]_vars
              PROVE  Books'
    OBVIOUS
<1>0. /\ writer \in [Writers -> Attempt] /\ faults \in Nat /\ crashes \in Nat /\ losses \in Nat
      /\ Idle.pc = "idle" /\ Idle.inode = NoInode
    BY ArchiveAssumption DEF TypeOK, Idle
<1>1. ASSUME NEW w \in Writers, (\E e \in Events : Begin(w, e)) \/ Work(w)
      PROVE  Books'
    BY <1>1, CallsRemember
<1>2. ASSUME NEW w \in Writers, Fault(w)
      PROVE  Books'
    <2>1. /\ \A v \in Writers \ {w} : writer'[v] = writer[v]
          /\ UNCHANGED <<stage, crashes, losses>> /\ faults' = faults + 1
        BY <1>0, <1>2 DEF Fault, Names
    <2>2. /\ writer'[w].inode = IF writer[w].pc = "undo" THEN NoInode ELSE writer[w].inode
          /\ writer'[w].pc \in {"undo", "undoSync", "failed"}
          /\ writer[w].pc \in {"undo", "undoSync"} => writer'[w].pc \in {"undoSync", "failed"}
          /\ writer[w].pc \notin {"undo", "undoSync"} => writer'[w].pc = "undo"
        BY <1>0, <1>2 DEF Fault, AfterUndo, Attempt
    <2>3. Remembered'
        BY <1>0, <2>1, <2>2 DEF Books, Remembered, Holding
    <2>4. ASSUME faults' <= 1 PROVE Orphans' = Orphans
        <3>1. faults = 0
            BY <1>0, <2>1, <2>4
        <3>2. writer'[w].inode = writer[w].inode
            BY <2>2, <3>1 DEF Books, Remembered
        <3>3. \A v \in Writers : writer'[v].inode = writer[v].inode
            BY <2>1, <3>2
        <3>. QED BY <2>1, <3>3 DEF Orphans
    <2>5. Counted'
        BY <1>0, <2>1, <2>4 DEF Books, Counted
    <2>. QED BY <2>3, <2>5 DEF Books
<1>3. ASSUME NEW w \in Writers, Crash(w)
      PROVE  Books'
    <2>1. /\ \A v \in Writers \ {w} : writer'[v] = writer[v]
          /\ writer'[w] = Idle
          /\ UNCHANGED <<stage, faults, losses>> /\ crashes' = crashes + 1
        BY <1>0, <1>3 DEF Crash, Names
    <2>2. Remembered'
        BY <1>0, <2>1 DEF Books, Remembered, Holding
    <2>3. ASSUME losses = 0, faults <= 1
          PROVE  Cardinality(Orphans') <= crashes + 1
        <3>1. IsFiniteSet(stage) /\ Cardinality(Orphans) <= crashes
            BY <2>3 DEF Books, Counted
        <3>2. PICK i : i = writer[w].inode
            OBVIOUS
        <3>3. Orphans' \in SUBSET (Orphans \cup {i})
            BY <2>1, <3>2 DEF Orphans
        <3>4. IsFiniteSet(Orphans)
            <4>1. Orphans \in SUBSET stage
                BY DEF Orphans
            <4>. QED BY <3>1, <4>1, FS_Subset
        <3>5. /\ IsFiniteSet(Orphans \cup {i}) /\ Cardinality(Orphans) \in Nat
              /\ Cardinality(Orphans \cup {i}) <= Cardinality(Orphans) + 1
            <4>1. Cardinality(Orphans) \in Nat
                BY <3>4, FS_CardinalityType
            <4>2. /\ IsFiniteSet(Orphans \cup {i})
                  /\ Cardinality(Orphans \cup {i}) =
                         IF i \in Orphans THEN Cardinality(Orphans) ELSE Cardinality(Orphans) + 1
                BY <3>4, FS_AddElement
            <4>. QED BY <4>1, <4>2
        <3>6. /\ Cardinality(Orphans') <= Cardinality(Orphans \cup {i})
              /\ Cardinality(Orphans') \in Nat /\ Cardinality(Orphans \cup {i}) \in Nat
            BY <3>3, <3>5, FS_Subset, FS_CardinalityType
        <3>. QED BY <1>0, <3>1, <3>5, <3>6
    <2>4. Counted'
        BY <2>1, <2>3 DEF Books, Counted
    <2>. QED BY <2>2, <2>4 DEF Books
<1>4. ASSUME PowerLoss
      PROVE  Books'
    <2>1. losses' # 0 /\ \A w \in Writers : writer'[w] = Idle
        BY <1>0, <1>4 DEF PowerLoss
    <2>. QED BY <1>0, <2>1 DEF Books, Remembered, Counted, Holding
<1>5. ASSUME UNCHANGED vars
      PROVE  Books'
    BY <1>5 DEF vars, Books, Remembered, Counted, Orphans
<1>. QED
    BY <1>1, <1>2, <1>3, <1>4, <1>5 DEF Next

(* TS-0033: failed calls leave no staging file, and kills one each, however  *)
(* many processes archive however many events.                               *)
THEOREM StagingIsRemoved == Spec => []StagingRemoved
<1>1. Init => Books
    BY ArchiveAssumption, FS_EmptySet
       DEF Init, Books, Remembered, Counted, Orphans, Idle, Holding
<1>2. (TypeOK /\ Indices /\ Ownership) /\ (TypeOK /\ Indices /\ Ownership)' /\ Books /\ [Next]_vars
          => Books'
    BY BooksPreserved
<1>3. Books => StagingRemoved
    BY DEF Books, Counted, Orphans, StagingRemoved
<1>. QED
    BY <1>1, <1>2, <1>3, OwnershipKept, PTL DEF Spec

(* TS-0033: without kills and power losses, when everybody is done every     *)
(* acknowledged file is under a name the disk holds, for whoever gave it has *)
(* synced it.                                                                *)
THEOREM QuietArchiveIsDurable == Spec => []QuietIsDurable
<1>1. Init => Duties
    BY DEF Init, Duties, HomeKept, Idle, Nothing
<1>2. (TypeOK /\ Indices /\ Ownership) /\ Duties /\ [Next]_vars => Duties'
    BY DutiesPreserved
<1>3. (TypeOK /\ Indices /\ Ownership) /\ Duties => QuietIsDurable
    <2>. SUFFICES ASSUME TypeOK, Duties, \A w \in Writers : writer[w].pc = "idle",
                         crashes = 0, losses = 0, NEW e \in accepted
                  PROVE  /\ faults = 0 => home = "synced"
                         /\ faults <= 1 => synced.final[e] = final[e]
        BY DEF QuietIsDurable
    <2>1. e \in Events
        BY DEF TypeOK
    <2>2. \A w \in Writers : ~Obliged(w, e)
        BY DEF Obliged
    <2>3. faults <= 1 => synced.final[e] = final[e]
        BY <2>1, <2>2 DEF Duties
    <2>4. faults = 0 => home = "synced"
        BY DEF Duties, HomeKept
    <2>. QED BY <2>3, <2>4
<1>. QED
    BY <1>1, <1>2, <1>3, OwnershipKept, PTL DEF Spec
=============================================================================
