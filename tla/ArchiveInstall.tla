---------------------------- MODULE ArchiveInstall ----------------------------
(***************************************************************************)
(* The workspace event archive (infrastructure/event_archive_delivery.py): *)
(* one immutable file per event, installed by linking a synced staging     *)
(* file, or verified if it is already there.  Attempts of several          *)
(* processes interleave between the system calls; a process may be killed, *)
(* a call may fail, and a power loss forgets what was never synced.        *)
(*                                                                         *)
(* The bytes of a file are named by the event they encode; a staging name, *)
(* 128 random bits, is identified with the file created under it.  The     *)
(* four directories above the files are one, "home".                       *)
(***************************************************************************)
EXTENDS Naturals, FiniteSets

CONSTANTS
    Writers,    \* processes that deliver
    Events,     \* events, each with its own final name
    Inodes,     \* files
    Foreign,    \* events whose final name something else occupies at first
    NoInode, NoEvent,
    Stranger,   \* the file that occupies them
    MaxFaults,  \* bound: system calls that fail
    MaxCrashes, \* bound: killed processes
    MaxLosses   \* bound: power losses

ASSUME ArchiveAssumption ==
    /\ NoInode \notin Inodes /\ NoEvent \notin Events
    /\ Stranger \notin Inodes \cup {NoInode}
    /\ Foreign \subseteq Events
    /\ IsFiniteSet(Events)
    /\ MaxFaults \in Nat /\ MaxCrashes \in Nat /\ MaxLosses \in Nat

VARIABLES
    home,     \* the archive directory: "absent", "new", "synced" in its parent
    final,    \* the file under each event's final name
    stage,    \* the files that have a staging name
    synced,   \* final and stage as the disk holds them
    file,     \* the content of each file and how far it got
    writer,   \* the attempt each process makes
    faults, crashes, losses,
    accepted  \* observer: the events an attempt reported as delivered

vars == <<home, final, stage, synced, file, writer, faults, crashes, losses, accepted>>

Names == <<home, final, stage, synced>>
Environment == <<faults, crashes, losses>>

Idle == [pc |-> "idle", event |-> NoEvent, inode |-> NoInode, target |-> NoInode,
         seen |-> {}, matched |-> FALSE, replay |-> TRUE, installed |-> FALSE]

Target == Inodes \cup {NoInode, Stranger}
Directory == [final : [Events -> Target], stage : SUBSET Inodes]

Attempt == [pc : {"idle", "home", "homeSync", "verify", "list", "scan", "repair", "repairSync",
                  "create", "write", "contentSync", "link", "unlink", "directorySync",
                  "undo", "undoSync", "failed"},
            event : Events \cup {NoEvent}, inode : Inodes \cup {NoInode},
            target : Target, seen : SUBSET Inodes,
            matched : BOOLEAN, replay : BOOLEAN, installed : BOOLEAN]

Nothing == [final |-> [e \in Events |-> IF e \in Foreign THEN Stranger ELSE NoInode],
            stage |-> {}]

Init ==
    /\ home = IF Foreign = {} THEN "absent" ELSE "synced"
    /\ final = Nothing.final
    /\ stage = {}
    /\ synced = Nothing
    /\ file = [i \in Inodes |-> [event |-> NoEvent, data |-> "partial"]]
    /\ writer = [w \in Writers |-> Idle]
    /\ faults = 0 /\ crashes = 0 /\ losses = 0
    /\ accepted = {}

Goto(w, pc) == writer' = [writer EXCEPT ![w].pc = pc]

\* Mutant: the directory is not synced.
NamesAsTheyWere == UNCHANGED synced
\* fsync of the archive directory.
SyncNames == synced' = [final |-> final, stage |-> stage]

\* st_nlink of a file.
Links(i) == Cardinality({e \in Events : final[e] = i}) + (IF i \in stage THEN 1 ELSE 0)

\* deliver() returns success.
Succeed(w) ==
    /\ accepted' = accepted \cup {writer[w].event}
    /\ writer' = [writer EXCEPT ![w] = Idle]

\* An exception ends the attempt by way of the finally block.
Failed(w) == Goto(w, "undo")

-----------------------------------------------------------------------------
(* _open_or_create_private_directory() *)

Begin(w, e) ==
    /\ writer[w].pc = "idle"
    /\ writer' = [writer EXCEPT ![w].pc = "home", ![w].event = e]
    /\ UNCHANGED <<Names, file, Environment, accepted>>

OpenHome(w) ==
    /\ writer[w].pc = "home"
    /\ IF home = "absent"
       THEN home' = "new" /\ Goto(w, "homeSync")
       ELSE UNCHANGED home /\ Goto(w, "verify")
    /\ UNCHANGED <<final, stage, synced, file, Environment, accepted>>

\* Only who created the directory syncs its parent.
SyncHome(w) ==
    /\ writer[w].pc = "homeSync"
    /\ home' = "synced"
    /\ Goto(w, "verify")
    /\ UNCHANGED <<final, stage, synced, file, Environment, accepted>>

-----------------------------------------------------------------------------
(* _verify_existing(), as a replay and again after an installation *)

Existing(w) == final[writer[w].event]

Matches(w) ==
    /\ Existing(w) \in Inodes
    /\ file[Existing(w)].event = writer[w].event
    /\ file[Existing(w)].data # "partial"

TargetMissing(w) ==
    /\ writer[w].pc = "verify"
    /\ writer[w].replay
    /\ Existing(w) = NoInode
    /\ Goto(w, "create")
    /\ UNCHANGED <<Names, file, Environment, accepted>>

TargetVerified(w) ==
    /\ writer[w].pc = "verify"
    /\ Matches(w) /\ Links(Existing(w)) = 1
    /\ IF writer[w].installed THEN SyncNames ELSE UNCHANGED synced
    /\ Succeed(w)
    /\ UNCHANGED <<home, final, stage, file, Environment>>

\* Mutant: a file with a second link is taken for unsafe.
NeverRepaired(i) == FALSE
\* Someone's staging name is still there.
Repairable(i) == Links(i) = 2

TargetLinkedTwice(w) ==
    /\ writer[w].pc = "verify"
    /\ Matches(w) /\ Repairable(Existing(w))
    /\ writer' = [writer EXCEPT ![w].pc = "list", ![w].target = Existing(w)]
    /\ UNCHANGED <<Names, file, Environment, accepted>>

TargetRejected(w) ==
    /\ writer[w].pc = "verify"
    /\ Existing(w) # NoInode
    /\ ~ Matches(w)
    /\ Failed(w)
    /\ UNCHANGED <<Names, file, Environment, accepted>>

ListStaging(w) ==
    /\ writer[w].pc = "list"
    /\ writer' = [writer EXCEPT ![w].pc = "scan", ![w].seen = stage, ![w].matched = FALSE]
    /\ UNCHANGED <<Names, file, Environment, accepted>>

StatStaging(w, i) ==
    /\ writer[w].pc = "scan"
    /\ i \in writer[w].seen \cap stage
    /\ writer' = [writer EXCEPT ![w].seen = @ \ {i},
                                ![w].matched = @ \/ i = writer[w].target]
    /\ UNCHANGED <<Names, file, Environment, accepted>>

\* FileNotFoundError: the replay takes it for a missing target.
Vanished(w) ==
    /\ writer' = [writer EXCEPT ![w].pc = IF writer[w].replay THEN "create" ELSE "undo",
                                ![w].target = NoInode, ![w].seen = {}]
    /\ UNCHANGED <<Names, file, Environment, accepted>>

StagingVanished(w, i) ==
    /\ writer[w].pc = "scan"
    /\ i \in writer[w].seen \ stage
    /\ Vanished(w)

EndScan(w) ==
    /\ writer[w].pc = "scan"
    /\ writer[w].seen = {}
    /\ IF writer[w].matched THEN Goto(w, "repair") ELSE Failed(w)
    /\ UNCHANGED <<Names, file, Environment, accepted>>

\* Mutant: staging names are removed without comparing the files.
EveryStaging(w) == stage
\* The one staging name of the target.
MatchingStaging(w) == {writer[w].target}

UnlinkMatching(w) ==
    /\ writer[w].pc = "repair"
    /\ writer[w].target \in stage
    /\ stage' = stage \ MatchingStaging(w)
    /\ Goto(w, "repairSync")
    /\ UNCHANGED <<home, final, synced, file, Environment, accepted>>

MatchingVanished(w) ==
    /\ writer[w].pc = "repair"
    /\ writer[w].target \notin stage
    /\ Vanished(w)

SyncRepair(w) ==
    /\ writer[w].pc = "repairSync"
    /\ SyncNames
    /\ Succeed(w)
    /\ UNCHANGED <<home, final, stage, file, Environment>>

-----------------------------------------------------------------------------
(* _install_or_verify() *)

\* A file that nothing refers to, now or after a power loss.
Unused(i) ==
    /\ i \notin stage \cup synced.stage
    /\ \A e \in Events : final[e] # i /\ synced.final[e] # i
    /\ \A w \in Writers : writer[w].inode # i /\ writer[w].target # i /\ i \notin writer[w].seen

CreateStaging(w, i) ==
    /\ writer[w].pc = "create"
    /\ Unused(i)
    /\ stage' = stage \cup {i}
    /\ file' = [file EXCEPT ![i] = [event |-> writer[w].event, data |-> "partial"]]
    /\ writer' = [writer EXCEPT ![w].pc = "write", ![w].inode = i]
    /\ UNCHANGED <<home, final, synced, Environment, accepted>>

WriteContent(w) ==
    /\ writer[w].pc = "write"
    /\ file' = [file EXCEPT ![writer[w].inode].data = "written"]
    /\ Goto(w, "contentSync")
    /\ UNCHANGED <<Names, Environment, accepted>>

\* Mutant: the content is not synced before it is linked.
ContentUnsynced(content) == content
\* fsync of the file.
ContentSynced(content) == [content EXCEPT !.data = "synced"]

SyncContent(w) ==
    /\ writer[w].pc = "contentSync"
    /\ file' = [file EXCEPT ![writer[w].inode] = ContentSynced(@)]
    /\ Goto(w, "link")
    /\ UNCHANGED <<Names, Environment, accepted>>

\* Mutant: os.replace instead of os.link.
AnyName(e) == TRUE
\* link() fails with FileExistsError where there is a target.
FreeName(e) == final[e] = NoInode

LinkTarget(w) ==
    /\ writer[w].pc = "link"
    /\ IF FreeName(writer[w].event)
       THEN /\ final' = [final EXCEPT ![writer[w].event] = writer[w].inode]
            /\ writer' = [writer EXCEPT ![w].pc = "unlink", ![w].installed = TRUE]
       ELSE UNCHANGED final /\ Goto(w, "unlink")
    /\ UNCHANGED <<home, stage, synced, file, Environment, accepted>>

UnlinkStaging(w) ==
    /\ writer[w].pc = "unlink"
    /\ stage' = stage \ {writer[w].inode}
    /\ writer' = [writer EXCEPT ![w].pc = "directorySync", ![w].inode = NoInode]
    /\ UNCHANGED <<home, final, synced, file, Environment, accepted>>

SyncDirectory(w) ==
    /\ writer[w].pc = "directorySync"
    /\ SyncNames
    /\ writer' = [writer EXCEPT ![w].pc = "verify", ![w].replay = FALSE]
    /\ UNCHANGED <<home, final, stage, file, Environment, accepted>>

\* The finally block, after an error: staging is removed, an installed name synced.
AfterUndo(w) == IF writer[w].installed THEN "undoSync" ELSE "failed"

\* Mutant: the staging file is removed only on success.
StageKept(w) == stage
StageUndone(w) == stage \ {writer[w].inode}

Undo(w) ==
    /\ writer[w].pc = "undo"
    /\ stage' = StageUndone(w)
    /\ writer' = [writer EXCEPT ![w].pc = AfterUndo(w), ![w].inode = NoInode]
    /\ UNCHANGED <<home, final, synced, file, Environment, accepted>>

SyncUndo(w) ==
    /\ writer[w].pc = "undoSync"
    /\ SyncNames
    /\ Goto(w, "failed")
    /\ UNCHANGED <<home, final, stage, file, Environment, accepted>>

\* deliver() has returned ARCHIVE_UNAVAILABLE.
Report(w) ==
    /\ writer[w].pc = "failed"
    /\ writer' = [writer EXCEPT ![w] = Idle]
    /\ UNCHANGED <<Names, file, Environment, accepted>>

-----------------------------------------------------------------------------
(* What goes wrong *)

\* A system call fails; the cleanup goes on in spite of its own failures.
Fault(w) ==
    /\ writer[w].pc \notin {"idle", "failed"}
    /\ faults < MaxFaults
    /\ faults' = faults + 1
    /\ writer' = [writer EXCEPT
           ![w].pc = IF writer[w].pc = "undo" THEN AfterUndo(w)
                     ELSE IF writer[w].pc = "undoSync" THEN "failed" ELSE "undo",
           ![w].inode = IF writer[w].pc = "undo" THEN NoInode ELSE @,
           ![w].target = NoInode, ![w].seen = {}]
    /\ UNCHANGED <<Names, file, crashes, losses, accepted>>

Crash(w) ==
    /\ writer[w].pc \notin {"idle", "failed"}
    /\ crashes < MaxCrashes
    /\ crashes' = crashes + 1
    /\ writer' = [writer EXCEPT ![w] = Idle]
    /\ UNCHANGED <<Names, file, faults, losses, accepted>>

\* Each name is as it was last synced or as it was last seen; a directory that
\* was never synced in its parent may be lost with everything in it.
PowerLoss ==
    /\ losses < MaxLosses
    /\ losses' = losses + 1
    /\ writer' = [w \in Writers |-> Idle]
    /\ file' = [i \in Inodes |-> IF file[i].data = "synced" THEN file[i]
                                 ELSE [file[i] EXCEPT !.data = "partial"]]
    /\ \/ /\ \E kept \in SUBSET Events, left \in SUBSET (stage \cup synced.stage) :
                 /\ final' = [e \in Events |-> IF e \in kept THEN final[e] ELSE synced.final[e]]
                 /\ stage \cap synced.stage \subseteq left
                 /\ stage' = left
          /\ UNCHANGED home
       \/ /\ home = "new"
          /\ home' = "absent"
          /\ final' = Nothing.final
          /\ stage' = {}
    /\ synced' = [final |-> final', stage |-> stage']
    /\ UNCHANGED <<faults, crashes, accepted>>

-----------------------------------------------------------------------------
(* Attempts *)

\* What an attempt does by itself.
Work(w) ==
    \/ OpenHome(w) \/ SyncHome(w)
    \/ TargetMissing(w) \/ TargetVerified(w) \/ TargetLinkedTwice(w) \/ TargetRejected(w)
    \/ ListStaging(w) \/ EndScan(w) \/ UnlinkMatching(w) \/ MatchingVanished(w) \/ SyncRepair(w)
    \/ WriteContent(w) \/ SyncContent(w) \/ LinkTarget(w) \/ UnlinkStaging(w) \/ SyncDirectory(w)
    \/ Undo(w) \/ SyncUndo(w) \/ Report(w)
    \/ \E i \in Inodes : StatStaging(w, i) \/ StagingVanished(w, i) \/ CreateStaging(w, i)

Next ==
    \/ \E w \in Writers : (\E e \in Events : Begin(w, e)) \/ Work(w) \/ Fault(w) \/ Crash(w)
    \/ PowerLoss

Spec == Init /\ [][Next]_vars

\* Attempts end, and the delivery runner tries every event again.
Fairness ==
    \A w \in Writers : WF_vars(Work(w)) /\ \A e \in Events : SF_vars(Begin(w, e))

FairSpec == Spec /\ Fairness

-----------------------------------------------------------------------------
(* What the archive promises *)

(* TS-0033: "No partial final file is observable."  What is found under the  *)
(* final name of an event is the whole envelope of this event, also after a  *)
(* power loss, or what was there before any attempt.                         *)
NoPartialFile ==
    \A e \in Events :
        final[e] \in Inodes => file[final[e]].event = e /\ file[final[e]].data # "partial"

(* TS-0033: a mismatching target "is never overwritten, renamed, truncated,  *)
(* deleted, repaired, or acknowledged as delivered".  Once something is      *)
(* under a final name it stays there for good, whoever races or dies, and    *)
(* only what is there is acknowledged.                                       *)
InstalledForGood ==
    [][\A e \in Events :
           /\ final[e] # NoInode /\ losses' = losses => final'[e] = final[e]
           /\ e \in accepted' \ accepted => final[e] \in Inodes]_vars

(* TS-0033: "The staging file is removed after any recoverable pre-install   *)
(* failure."  A failed call leaves none behind, unless removing it fails as  *)
(* well; a killed process leaves at most one.                                *)
StagingRemoved ==
    losses = 0 /\ faults <= 1 =>
        Cardinality(stage \ {writer[w].inode : w \in Writers}) <= crashes

(* The repair of one attempt does not take away the staging file of another: *)
(* until it is linked, an attempt's staging name is its own.                  *)
LiveStagingKept ==
    \A w \in Writers :
        writer[w].pc \in {"write", "contentSync", "link"} =>
            /\ writer[w].inode \in stage
            /\ file[writer[w].inode].event = writer[w].event

(* TS-0033: delivery "syncs the directory".  If no process was killed, then  *)
(* as soon as nobody is at work a power loss can take away no file that was  *)
(* acknowledged; the names are safe even if one call failed.                 *)
QuietIsDurable ==
    (\A w \in Writers : writer[w].pc = "idle") /\ crashes = 0 /\ losses = 0 =>
        \A e \in accepted :
            /\ faults = 0 => home = "synced"
            /\ faults <= 1 => synced.final[e] = final[e]

(* Wherever an attempt was killed, a later one repairs what it left: every   *)
(* event whose name is free is eventually archived.                          *)
EventuallyArchived == \A e \in Events \ Foreign : <>(e \in accepted)
=============================================================================
