------------------------- MODULE WorkspaceFilesProofs -------------------------
(***************************************************************************)
(* What the commands of a workspace keep of each other's files, proved for *)
(* any number of processes and entries, failures and killed processes.     *)
(***************************************************************************)
EXTENDS WorkspaceFiles, TLAPS

-----------------------------------------------------------------------------
(* The inductive invariant. *)

Places == {"idle", "init", "load", "absent", "create", "write", "open", "new", "check", "script",
           "upgrade", "opened", "invalidate", "read", "intended", "replaced", "recover", "done", "failed", "killed"}
Commands == {"init", "event", "invalidate", "recover"}

TypeOK ==
    /\ directory \in BOOLEAN /\ metadata \in Procs \cup {NoProc}
    /\ database \in Databases \cup {NoFile}
    /\ cache \in SUBSET Entries
    /\ locks \in [outbox : Procs \cup {NoProc}, state : Procs \cup {NoProc}]
    /\ undo \in [Procs -> SUBSET SUBSET Entries]
    /\ clobbered \in BOOLEAN /\ trouble \in Nat
    /\ proc \in [Procs -> [command : Commands \cup {"none"}, at : Places,
                           name : Entries \cup {NoProc}, next : Nat, view : SUBSET Entries]]
    /\ \A p \in Procs : proc[p].at \in {"init", "load"} => proc[p].command \in Commands

\* Between taking a lock and releasing it a process holds it.
Locked ==
    \A p \in Procs :
        /\ proc[p].at \in {"new", "check", "script", "upgrade"} => locks.outbox = p
        /\ proc[p].at \in {"read", "intended", "replaced"} => locks.state = p

\* Only the process that has made the directory writes the metadata.
Created ==
    /\ metadata # NoProc => directory
    /\ \A p \in Procs : At(p, "write") =>
           directory /\ metadata = NoProc /\ \A q \in Procs : At(q, "write") => q = p

\* What the first statements of the script have created.
ScriptParts(next) == UNION {Schema[i] : i \in 1..(next - 1)}

\* What an upgrade need not add, and what its first statements have ensured.
Required == AllParts \ (Consumers \cup {"sequence_state", "counter"})
Ensured == <<"consumers", "sequence_state", "counter",
             "attempt_count", "next_attempt_at", "failure_reason">>
UpgradedParts(next) == Required \cup {Ensured[i] : i \in 1..(next - 1)}

\* The version is there only when the whole script was executed, so a file it
\* was cut short in is never upgraded; a counter never lags behind the events.
Sound(db) ==
    /\ "version" \in db.parts => Required \subseteq db.parts
    /\ "counter" \in db.parts => db.counter = db.last

Opening ==
    /\ database # NoFile => Sound(database)
    /\ \A p \in Procs :
           /\ At(p, "new") => database = NoFile
           /\ proc[p].at \in {"check", "script", "upgrade", "opened"} => database # NoFile
           /\ At(p, "script") =>
                  proc[p].next \in 1..8 /\ database.parts = ScriptParts(proc[p].next)
           /\ At(p, "upgrade") =>
                  proc[p].next \in 1..6 /\ UpgradedParts(proc[p].next) \subseteq database.parts
           /\ At(p, "opened") => AllParts \subseteq database.parts

\* A backup holds all that is in the cache, and the backup of a replacement
\* that is not over is within those of the killed ones before it.  What a
\* reader has seen is there, and nothing else until a recovery comes between.
BackedUp ==
    /\ \A p \in Procs : \A b \in undo[p] : cache \subseteq b
    /\ \A p \in Procs : undo[p] # {} => proc[p].at \in {"intended", "replaced", "killed"}
    /\ \A p, q \in Procs : proc[p].at \in {"intended", "replaced"} /\ q # p =>
           \A b \in undo[p], c \in undo[q] : b \subseteq c
    /\ \A p \in Procs : proc[p].at \in {"read", "intended"} =>
           proc[p].view \subseteq cache /\ (clobbered \/ proc[p].view = cache)

IInv == TypeOK /\ Locked /\ Created /\ Opening /\ BackedUp

-----------------------------------------------------------------------------
(* The schema scripts. *)

\* The statements of the script.  (_SCHEMA)
LEMMA SchemaStatements ==
    /\ DOMAIN Schema = 1..8 /\ Len(Schema) = 8
    /\ Schema[1] = {"metadata"} /\ Schema[2] = {"metadata row"} /\ Schema[3] = {"events"}
    /\ Schema[4] = Consumers /\ Schema[5] = {"sequence_state"} /\ Schema[6] = {"counter"}
    /\ Schema[7] = {"trigger"} /\ Schema[8] = {"version"}
<1>1. DOMAIN Schema = 1..8
  BY DEF Schema
<1>2. QED BY <1>1 DEF Schema

\* The parts of a whole database.  (_SCHEMA)
LEMMA WholeDatabase ==
    AllParts = {"metadata", "metadata row", "events", "sequence_state", "counter",
                "trigger", "version"} \cup Consumers
<1>1. ASSUME NEW part
      PROVE  part \in AllParts <=> \E i \in {1, 2, 3, 4, 5, 6, 7, 8} : part \in Schema[i]
  <2>1. 1..8 = {1, 2, 3, 4, 5, 6, 7, 8}
    OBVIOUS
  <2>2. part \in AllParts <=> \E i \in DOMAIN Schema : part \in Schema[i]
    BY DEF AllParts
  <2>3. QED BY <2>1, <2>2, SchemaStatements
<1>2. ASSUME NEW part
      PROVE  (\E i \in {1, 2, 3, 4, 5, 6, 7, 8} : part \in Schema[i]) <=>
             \/ part \in Schema[1] \/ part \in Schema[2] \/ part \in Schema[3] \/ part \in Schema[4]
             \/ part \in Schema[5] \/ part \in Schema[6] \/ part \in Schema[7] \/ part \in Schema[8]
  OBVIOUS
<1>3. ASSUME NEW part
      PROVE  part \in AllParts <=>
             part \in {"metadata", "metadata row", "events", "sequence_state", "counter",
                       "trigger", "version"} \cup Consumers
  BY <1>1, <1>2, SchemaStatements
<1>4. QED BY <1>3

\* A statement of the script adds its parts to those of the statements before
\* it, the version last.  (_connect, executescript)
LEMMA ScriptStatement ==
    ASSUME NEW next \in 1..8, NEW db \in Databases, db.parts = ScriptParts(next), Sound(db)
    PROVE  /\ Executed(db, Schema[next]) \in Databases
           /\ Executed(db, Schema[next]).parts = ScriptParts(next + 1)
           /\ next = 8 => ScriptParts(next + 1) = AllParts
           /\ Sound(Executed(db, Schema[next]))
<1>1. ScriptParts(next + 1) = ScriptParts(next) \cup Schema[next]
  <2>1. 1..(next + 1 - 1) = (1..(next - 1)) \cup {next}
    OBVIOUS
  <2>2. QED BY <2>1 DEF ScriptParts
<1>2. next = 8 => ScriptParts(next + 1) = AllParts
  <2>1. 1..(8 + 1 - 1) = DOMAIN Schema
    <3>1. 1..(8 + 1 - 1) = 1..8
      OBVIOUS
    <3>2. QED BY <3>1, SchemaStatements
  <2>2. QED BY <2>1 DEF ScriptParts, AllParts
<1>3. /\ "consumers" \in Schema[next] => "consumers" \notin ScriptParts(next)
      /\ "version" \in Schema[next] => next = 8
      /\ "version" \notin ScriptParts(next)
      /\ Schema[next] \subseteq AllParts
  <2>1. \A i \in 1..(next - 1) : i \in 1..8 /\ i # 8 /\ (next = 4 => i # 4)
    OBVIOUS
  <2>2. ASSUME NEW i \in 1..8
        PROVE  ("consumers" \in Schema[i] => i = 4) /\ ("version" \in Schema[i] => i = 8)
    <3>1. i \in {1, 2, 3, 4, 5, 6, 7, 8}
      OBVIOUS
    <3>2. "version" \notin Consumers
      BY DEF Consumers, Columns
    <3>3. CASE i = 4
      BY <3>2, <3>3, SchemaStatements
    <3>4. CASE i # 4
      <4>1. \A j \in {1, 2, 3, 5, 6, 7} : "consumers" \notin Schema[j] /\ "version" \notin Schema[j]
        <5>1. /\ \A part \in Schema[1] : part = "metadata"
              /\ \A part \in Schema[2] : part = "metadata row"
              /\ \A part \in Schema[3] : part = "events"
              /\ \A part \in Schema[5] : part = "sequence_state"
              /\ \A part \in Schema[6] : part = "counter"
              /\ \A part \in Schema[7] : part = "trigger"
          BY SchemaStatements
        <5>2. QED BY <5>1
      <4>2. "consumers" \notin Schema[8]
        BY SchemaStatements
      <4>3. QED BY <3>1, <3>4, <4>1, <4>2
    <3>5. QED BY <3>3, <3>4
  <2>4. "consumers" \in Schema[next] => "consumers" \notin ScriptParts(next)
    BY <2>1, <2>2 DEF ScriptParts
  <2>5. "version" \notin ScriptParts(next)
    BY <2>1, <2>2 DEF ScriptParts
  <2>6. QED BY <2>2, <2>4, <2>5, SchemaStatements DEF AllParts
<1>4. Executed(db, Schema[next]).parts = ScriptParts(next + 1)
  BY <1>1, <1>3 DEF Executed, Added, Databases
<1>5. /\ Executed(db, Schema[next]) \in Databases
      /\ Executed(db, Schema[next]).last = db.last
      /\ Executed(db, Schema[next]).counter =
             IF "counter" \in Schema[next] \ db.parts THEN db.last ELSE db.counter
  BY <1>1, <1>3, <1>4 DEF Executed, Added, Databases
<1>6. Sound(Executed(db, Schema[next]))
  BY <1>1, <1>2, <1>3, <1>4, <1>5 DEF Sound, Required
<1>7. QED BY <1>2, <1>4, <1>5, <1>6

\* The parts the statements of the upgrade are about.
LEMMA UpgradeStatements ==
    /\ Len(Upgrade) = 6 /\ Upgrade[1] = Consumers
    /\ Upgrade[2] = {"sequence_state"} /\ Upgrade[3] = {"counter"} /\ Upgrade[4] = {"attempt_count"}
    /\ Upgrade[5] = {"next_attempt_at"} /\ Upgrade[6] = {"failure_reason"}
    /\ Len(Ensured) = 6 /\ Ensured[1] = "consumers"
    /\ Ensured[2] = "sequence_state" /\ Ensured[3] = "counter" /\ Ensured[4] = "attempt_count"
    /\ Ensured[5] = "next_attempt_at" /\ Ensured[6] = "failure_reason"
BY DEF Upgrade, Ensured

\* A statement of the upgrade ensures its part, takes nothing away and never
\* adds the version; the last one completes the database.  (_connect)
LEMMA UpgradeStatement ==
    ASSUME NEW next \in 1..6, NEW db \in Databases, Sound(db),
           UpgradedParts(next) \subseteq db.parts
    PROVE  /\ Executed(db, Upgrade[next]) \in Databases
           /\ Sound(Executed(db, Upgrade[next]))
           /\ db.parts \subseteq Executed(db, Upgrade[next]).parts
           /\ UpgradedParts(next + 1) \subseteq Executed(db, Upgrade[next]).parts
           /\ next = 6 => UpgradedParts(next + 1) = AllParts
<1>1. UpgradedParts(next + 1) = UpgradedParts(next) \cup {Ensured[next]}
  <2>1. 1..(next + 1 - 1) = (1..(next - 1)) \cup {next}
    OBVIOUS
  <2>2. QED BY <2>1 DEF UpgradedParts
<1>2. Ensured[next] \in Upgrade[next] /\ Upgrade[next] \subseteq AllParts
      /\ "version" \notin Upgrade[next] /\ ("consumers" \in Upgrade[next] => next = 1)
  <2>1. next \in {1, 2, 3, 4, 5, 6}
    OBVIOUS
  <2>2. /\ "version" \notin Consumers /\ "consumers" \in Consumers
        /\ {"attempt_count", "next_attempt_at", "failure_reason"} \subseteq Consumers
    BY DEF Consumers, Columns
  <2>3. {"sequence_state", "counter"} \cup Consumers \subseteq AllParts
    BY WholeDatabase
  <2>4. CASE next = 1
    BY <2>2, <2>3, <2>4, UpgradeStatements
  <2>5. CASE next # 1
    BY <2>1, <2>2, <2>3, <2>5, UpgradeStatements
  <2>6. QED BY <2>4, <2>5
<1>3. LET after == Executed(db, Upgrade[next])
      IN  /\ after \in Databases /\ db.parts \subseteq after.parts
          /\ Ensured[next] \in after.parts
          /\ "version" \in after.parts => "version" \in db.parts
          /\ "counter" \in after.parts => "counter" \in db.parts \/ "counter" \in Upgrade[next]
          /\ after.last = db.last
          /\ after.counter = IF "counter" \in Upgrade[next] \ db.parts THEN db.last ELSE db.counter
  <2>1. next = 1 => Ensured[next] = "consumers"
    BY UpgradeStatements
  <2>2. QED BY <1>2, <2>1 DEF Executed, Added, Databases
<1>4. next = 6 => UpgradedParts(next + 1) = AllParts
  <2>1. 1..6 = {1, 2, 3, 4, 5, 6}
    OBVIOUS
  <2>2. {Ensured[i] : i \in 1..6} = {Ensured[1], Ensured[2], Ensured[3], Ensured[4], Ensured[5], Ensured[6]}
    BY <2>1
  <2>3. {Ensured[i] : i \in 1..6} = Consumers \cup {"sequence_state", "counter"}
    BY <2>2, UpgradeStatements DEF Consumers, Columns
  <2>4. Consumers \cup {"sequence_state", "counter"} \subseteq AllParts
    BY WholeDatabase
  <2>5. UpgradedParts(6 + 1) = Required \cup {Ensured[i] : i \in 1..6}
    BY DEF UpgradedParts
  <2>6. QED BY <2>3, <2>4, <2>5 DEF Required
<1>5. QED BY <1>1, <1>3, <1>4 DEF Sound

-----------------------------------------------------------------------------
(* The steps. *)

State == [command : Commands \cup {"none"}, at : Places,
          name : Entries \cup {NoProc}, next : Nat, view : SUBSET Entries]

\* Where a process holds no lock, has made no directory and is not connected.
Quiet == {"idle", "init", "load", "absent", "create", "open", "invalidate", "recover",
          "done", "failed", "killed"}

\* A process that moves to such a place, keeping or releasing what it holds,
\* preserves the invariant, if it leaves no replacement behind; only one that
\* is killed may.
LEMMA QuietStep ==
    ASSUME IInv, NEW p \in Procs, NEW state \in State, proc' = [proc EXCEPT ![p] = state],
           state.at \in Quiet, state.at \in {"init", "load"} => state.command \in Commands,
           UNCHANGED files, trouble' \in Nat, UNCHANGED <<undo, clobbered>>,
           locks' = locks \/ Released(p),
           proc[p].at \notin {"intended", "replaced", "killed"} \/ state.at = "killed"
    PROVE  IInv'
<1> USE DEF IInv
<1>1. /\ proc'[p] = state /\ \A q \in Procs \ {p} : proc'[q] = proc[q]
      /\ UNCHANGED <<directory, metadata, database, cache>>
  BY DEF TypeOK, State, files
<1>2. /\ locks' \in [outbox : Procs \cup {NoProc}, state : Procs \cup {NoProc}]
      /\ \A q \in Procs \ {p} : /\ locks.outbox = q => locks'.outbox = q
                                /\ locks.state = q => locks'.state = q
  <2>1. CASE locks' = locks
    BY <2>1 DEF TypeOK
  <2>2. CASE Released(p)
    <3>1. locks' = [which \in {"outbox", "state"} |-> IF locks[which] = p THEN NoProc ELSE locks[which]]
      BY <2>2 DEF Released, TypeOK
    <3>2. locks' = [outbox |-> IF locks.outbox = p THEN NoProc ELSE locks.outbox,
                    state |-> IF locks.state = p THEN NoProc ELSE locks.state]
      BY <3>1
    <3>3. QED BY <3>2 DEF TypeOK
  <2>3. QED BY <2>1, <2>2
<1>3. TypeOK'
  <2>1. proc' \in [Procs -> State]
    BY DEF TypeOK, State
  <2>2. \A q \in Procs : proc'[q].at \in {"init", "load"} => proc'[q].command \in Commands
    BY <1>1 DEF TypeOK, At
  <2>3. QED BY <1>1, <1>2, <2>1, <2>2 DEF TypeOK, State, At
<1>4. Locked'
  BY <1>1, <1>2 DEF Locked, Quiet
<1>5. Created'
  BY <1>1 DEF Created, At, Quiet
<1>6. Opening'
  BY <1>1 DEF Opening, At, Quiet
<1>7. BackedUp'
  BY <1>1 DEF BackedUp, At, Quiet, TypeOK
<1>8. QED BY <1>3, <1>4, <1>5, <1>6, <1>7

\* The same for a process of which nothing changes but its place.
LEMMA QuietGoto ==
    ASSUME IInv, NEW p \in Procs, NEW there \in Quiet, Goto(p, there),
           there \in {"init", "load"} => proc[p].command \in Commands,
           UNCHANGED files, trouble' \in Nat, UNCHANGED <<undo, clobbered>>,
           locks' = locks \/ Released(p),
           proc[p].at \notin {"intended", "replaced", "killed"} \/ there = "killed"
    PROVE  IInv'
<1> DEFINE state == [proc[p] EXCEPT !.at = there]
<1>1. /\ proc' = [proc EXCEPT ![p] = state] /\ state \in State
      /\ state.at = there /\ state.command = proc[p].command
  BY DEF Goto, IInv, TypeOK, State, Quiet, Places
<1> HIDE DEF state
<1>2. QED BY <1>1, QuietStep

\* A step of a process is a step of no other.
LEMMA Moved ==
    ASSUME TypeOK, NEW p \in Procs, NEW state \in State, proc' = [proc EXCEPT ![p] = state]
    PROVE  proc' \in [Procs -> State] /\ proc'[p] = state /\ \A q \in Procs \ {p} : proc'[q] = proc[q]
BY DEF TypeOK, State

\* A process of which only the place changes.
LEMMA StateAt ==
    ASSUME NEW old \in State, NEW there \in Places
    PROVE  [old EXCEPT !.at = there] \in State /\ [old EXCEPT !.at = there].at = there
BY DEF State

\* A lock that is taken was free.  (flock)
LEMMA LockTaken ==
    ASSUME TypeOK, NEW p \in Procs, NEW which \in {"outbox", "state"}, Taken(p, which)
    PROVE  /\ locks' \in [outbox : Procs \cup {NoProc}, state : Procs \cup {NoProc}]
           /\ locks'[which] = p
           /\ \A q \in Procs : locks[which] # q
           /\ \A other \in {"outbox", "state"} \ {which} : locks'[other] = locks[other]
BY WorkspaceAssumption DEF TypeOK, Taken

\* A process that ends keeps the others' locks.
LEMMA LockReleased ==
    ASSUME TypeOK, NEW p \in Procs, Released(p)
    PROVE  /\ locks' \in [outbox : Procs \cup {NoProc}, state : Procs \cup {NoProc}]
           /\ \A q \in Procs \ {p} : /\ locks.outbox = q => locks'.outbox = q
                                     /\ locks.state = q => locks'.state = q
<1>1. locks' = [which \in {"outbox", "state"} |-> IF locks[which] = p THEN NoProc ELSE locks[which]]
  BY DEF Released, TypeOK
<1>2. locks' = [outbox |-> IF locks.outbox = p THEN NoProc ELSE locks.outbox,
                state |-> IF locks.state = p THEN NoProc ELSE locks.state]
  BY <1>1
<1>3. QED BY <1>2 DEF TypeOK

\* `workspace init` and the metadata every command loads.
LEMMA InitStep ==
    ASSUME IInv, NEW p \in Procs,
           Start(p) \/ Load(p) \/ FindMetadata(p) \/ FindDirectory(p) \/ MakeDirectory(p)
               \/ WriteMetadata(p)
    PROVE  IInv'
<1>1. CASE Start(p)
  <2>1. PICK command \in Commands, name \in Entries \cup {NoProc} :
             proc' = [proc EXCEPT ![p] = [@ EXCEPT !.command = command, !.name = name,
                          !.at = IF command = "init" THEN "init" ELSE "load"]]
    BY <1>1 DEF Start, Commands
  <2> DEFINE there == IF command = "init" THEN "init" ELSE "load"
             state == [proc[p] EXCEPT !.command = command, !.name = name, !.at = there]
  <2>2. there \in Quiet /\ there \in Places
    BY DEF Quiet, Places
  <2>3. proc' = [proc EXCEPT ![p] = state]
    BY <2>1
  <2> HIDE DEF there
  <2>4. /\ state \in State
        /\ state.at \in Quiet /\ state.command = command
    <3>1. proc[p] \in State
      BY DEF IInv, TypeOK, State
    <3>2. QED BY <2>2, <2>3, <3>1 DEF State
  <2> HIDE DEF state
  <2>5. UNCHANGED files /\ UNCHANGED <<undo, clobbered>> /\ trouble' \in Nat
        /\ locks' = locks /\ At(p, "idle")
    BY <1>1 DEF Start, history, IInv, TypeOK
  <2>6. QED BY <2>3, <2>4, <2>5, QuietStep DEF At
<1>2. CASE Load(p)
  <2>1. PICK there \in Quiet \ {"init", "load"} : Goto(p, there)
    <3>1. proc[p].command \in Commands
      BY <1>2 DEF Load, IInv, TypeOK, At
    <3>2. AfterLoad(p) \in {"open", "invalidate", "recover"}
      BY <3>1 DEF AfterLoad, Commands
    <3>3. QED BY <1>2, <3>2 DEF Load, Quiet
  <2>2. QED BY <1>2, <2>1, QuietGoto DEF Load, history, IInv, TypeOK, At
<1>3. CASE FindMetadata(p)
  <2>1. CASE metadata = NoProc
    <3>1. Goto(p, "absent") /\ "absent" \in Quiet
      BY <1>3, <2>1 DEF FindMetadata, Quiet
    <3>2. QED BY <1>3, <3>1, QuietGoto DEF FindMetadata, history, IInv, TypeOK, At
  <2>2. CASE metadata # NoProc
    <3>1. Goto(p, "load") /\ "load" \in Quiet
      BY <1>3, <2>2 DEF FindMetadata, Quiet
    <3>2. proc[p].command \in Commands
      BY <1>3 DEF FindMetadata, IInv, TypeOK, At
    <3>3. QED BY <1>3, <3>1, <3>2, QuietGoto DEF FindMetadata, history, IInv, TypeOK, At
  <2>3. QED BY <2>1, <2>2
<1>4. CASE FindDirectory(p)
  <2>1. PICK there \in {"create", "failed"} : Goto(p, there)
    BY <1>4 DEF FindDirectory
  <2>2. there \in Quiet /\ there \notin {"init", "load"}
    BY DEF Quiet
  <2>3. QED BY <1>4, <2>1, <2>2, QuietGoto DEF FindDirectory, history, IInv, TypeOK, At
<1>5. CASE MakeDirectory(p)
  <2>1. CASE directory
    <3>1. Goto(p, "failed") /\ "failed" \in Quiet /\ UNCHANGED files
      BY <1>5, <2>1 DEF MakeDirectory, DirectoryFree, Quiet, files
    <3>2. QED BY <1>5, <3>1, QuietGoto DEF MakeDirectory, history, IInv, TypeOK, At
  <2>2. CASE ~directory
    <3> DEFINE state == [proc[p] EXCEPT !.at = "write"]
    <3>1. /\ proc' = [proc EXCEPT ![p] = state] /\ state \in State /\ state.at = "write"
          /\ directory' = TRUE /\ At(p, "create")
          /\ UNCHANGED <<metadata, database, cache, locks, undo, clobbered, trouble>>
      BY <1>5, <2>2 DEF MakeDirectory, DirectoryFree, Goto, history, IInv, TypeOK, State, Places
    <3> HIDE DEF state
    <3>2. proc' \in [Procs -> State] /\ proc'[p] = state /\ \A q \in Procs \ {p} : proc'[q] = proc[q]
      BY <3>1, Moved DEF IInv
    <3>3. TypeOK'
      BY <3>1, <3>2 DEF IInv, TypeOK, State, At
    <3>4. Created'
      BY <2>2, <3>1, <3>2 DEF IInv, Created, At
    <3>5. Locked' /\ Opening'
      BY <3>1, <3>2 DEF IInv, Locked, Opening, At
    <3>6. BackedUp'
      BY <3>1, <3>2 DEF IInv, BackedUp, At
    <3>7. QED BY <3>3, <3>4, <3>5, <3>6 DEF IInv
  <2>3. QED BY <2>1, <2>2 DEF IInv, TypeOK
<1>6. CASE WriteMetadata(p)
  <2> DEFINE state == [proc[p] EXCEPT !.at = "open"]
  <2>1. /\ proc' = [proc EXCEPT ![p] = state] /\ state \in State /\ state.at = "open"
        /\ metadata' = p /\ At(p, "write")
        /\ UNCHANGED <<directory, database, cache, locks, undo, clobbered, trouble>>
    BY <1>6 DEF WriteMetadata, Goto, history, IInv, TypeOK, State, Places
  <2> HIDE DEF state
  <2>2. proc' \in [Procs -> State] /\ proc'[p] = state /\ \A q \in Procs \ {p} : proc'[q] = proc[q]
    BY <2>1, Moved DEF IInv
  <2>3. TypeOK'
    BY <2>1, <2>2 DEF IInv, TypeOK, State, At
  <2>4. Created'
    BY <2>1, <2>2 DEF IInv, Created, At
  <2>5. Locked' /\ Opening'
    BY <2>1, <2>2 DEF IInv, Locked, Opening, At
  <2>6. BackedUp'
    BY <2>1, <2>2 DEF IInv, BackedUp, At
  <2>7. QED BY <2>3, <2>4, <2>5, <2>6 DEF IInv
<1>7. QED BY <1>1, <1>2, <1>3, <1>4, <1>5, <1>6

\* Opening the event database, from its lock to the event that is appended.
LEMMA OpeningStep ==
    ASSUME IInv, NEW p \in Procs,
           LockOutbox(p) \/ CreateFile(p) \/ CheckVersion(p) \/ RunScript(p) \/ RunUpgrade(p)
               \/ AppendEvent(p)
    PROVE  IInv'
<1> USE DEF IInv
<1>1. CASE LockOutbox(p)
  <2>1. PICK there \in {"new", "check"} :
             Goto(p, there) /\ (there = "new" <=> database = NoFile)
    BY <1>1 DEF LockOutbox
  <2> DEFINE state == [proc[p] EXCEPT !.at = there]
  <2>2. /\ proc' = [proc EXCEPT ![p] = state] /\ state \in State /\ state.at = there
        /\ Taken(p, "outbox") /\ At(p, "open")
        /\ UNCHANGED <<directory, metadata, database, cache, undo, clobbered, trouble>>
    <3>1. there \in Places /\ proc[p] \in State
      BY DEF TypeOK, State, Places
    <3>2. state \in State /\ state.at = there
      BY <3>1, StateAt
    <3>3. QED BY <1>1, <2>1, <3>2 DEF LockOutbox, Goto, files, history
  <2> HIDE DEF state
  <2>3. proc' \in [Procs -> State] /\ proc'[p] = state /\ \A q \in Procs \ {p} : proc'[q] = proc[q]
    BY <2>2, Moved
  <2>4. /\ locks' \in [outbox : Procs \cup {NoProc}, state : Procs \cup {NoProc}]
        /\ locks'.outbox = p /\ locks'.state = locks.state /\ \A q \in Procs : locks.outbox # q
    BY <2>2, LockTaken
  <2>5. TypeOK'
    BY <2>1, <2>2, <2>3, <2>4 DEF TypeOK, State, At
  <2>6. Locked'
    BY <2>1, <2>2, <2>3, <2>4 DEF Locked
  <2>7. Created' /\ Opening'
    BY <2>1, <2>2, <2>3 DEF Created, Opening, At
  <2>8. BackedUp'
    BY <2>1, <2>2, <2>3 DEF BackedUp, At
  <2>9. QED BY <2>5, <2>6, <2>7, <2>8
<1>2. CASE CreateFile(p)
  <2> DEFINE state == [proc[p] EXCEPT !.at = "script", !.next = 1]
             db == [parts |-> {}, last |-> 0, counter |-> 0]
  <2>1. /\ proc' = [proc EXCEPT ![p] = state] /\ state \in State /\ state.at = "script"
        /\ state.next = 1 /\ database' = db /\ At(p, "new")
        /\ UNCHANGED <<directory, metadata, cache, locks, undo, clobbered, trouble>>
    <3>1. "script" \in Places /\ proc[p] \in State
      BY DEF TypeOK, State, Places
    <3>2. state \in State /\ state.at = "script" /\ state.next = 1
      BY <3>1 DEF State
    <3>3. proc' = [proc EXCEPT ![p] = state]
      BY <1>2 DEF CreateFile, TypeOK
    <3>4. QED BY <1>2, <3>2, <3>3 DEF CreateFile, history
  <2>2. db \in Databases /\ db # NoFile /\ Sound(db) /\ db.parts = ScriptParts(1)
    <3>1. 1..(1 - 1) = {}
      OBVIOUS
    <3>2. QED BY <3>1, NoFileAssumption DEF Databases, Sound, ScriptParts
  <2> HIDE DEF state, db
  <2>3. proc' \in [Procs -> State] /\ proc'[p] = state /\ \A q \in Procs \ {p} : proc'[q] = proc[q]
    BY <2>1, Moved
  <2>4. \A q \in Procs \ {p} : proc[q].at \notin {"new", "check", "script", "upgrade"}
    BY <2>1 DEF Locked, At
  <2>5. \A q \in Procs \ {p} : ~At(q, "opened")
    BY <2>1 DEF Opening, At
  <2>6. TypeOK'
    BY <2>1, <2>2, <2>3 DEF TypeOK, State, At
  <2>7. Locked' /\ Created' /\ BackedUp'
    BY <2>1, <2>3 DEF Locked, Created, BackedUp, At
  <2>8. Opening'
    BY <2>1, <2>2, <2>3, <2>4, <2>5 DEF Opening, At
  <2>9. QED BY <2>6, <2>7, <2>8
<1>3. CASE CheckVersion(p)
  <2>1. CASE Supported(database)
    <3> DEFINE state == [proc[p] EXCEPT !.at = "upgrade", !.next = 1]
    <3>1. /\ proc' = [proc EXCEPT ![p] = state] /\ state \in State /\ state.at = "upgrade"
          /\ state.next = 1 /\ At(p, "check")
          /\ UNCHANGED <<directory, metadata, database, cache, locks, undo, clobbered, trouble>>
      <4>1. "upgrade" \in Places /\ proc[p] \in State
        BY DEF TypeOK, State, Places
      <4>2. state \in State /\ state.at = "upgrade" /\ state.next = 1
        BY <4>1 DEF State
      <4>3. proc' = [proc EXCEPT ![p] = state]
        BY <1>3, <2>1 DEF CheckVersion, TypeOK
      <4>4. QED BY <1>3, <2>1, <4>2, <4>3 DEF CheckVersion, files, history
    <3> HIDE DEF state
    <3>2. proc' \in [Procs -> State] /\ proc'[p] = state /\ \A q \in Procs \ {p} : proc'[q] = proc[q]
      BY <3>1, Moved
    <3>3. UpgradedParts(1) \subseteq database.parts
      <4>1. 1..(1 - 1) = {}
        OBVIOUS
      <4>2. database # NoFile /\ Sound(database)
        BY <3>1 DEF Opening, At
      <4>3. QED BY <2>1, <4>1, <4>2 DEF Supported, Sound, UpgradedParts
    <3>4. TypeOK' /\ Locked' /\ Created' /\ BackedUp'
      BY <3>1, <3>2 DEF TypeOK, State, Locked, Created, BackedUp, At
    <3>5. Opening'
      BY <3>1, <3>2, <3>3 DEF Opening, At
    <3>6. QED BY <3>4, <3>5
  <2>2. CASE ~Supported(database)
    <3>1. Goto(p, "failed") /\ "failed" \in Quiet
      BY <1>3, <2>2 DEF CheckVersion, Quiet
    <3>2. QED BY <1>3, <2>2, <3>1, QuietGoto DEF CheckVersion, history, TypeOK, At
  <2>3. QED BY <2>1, <2>2
<1>4. CASE RunScript(p)
  <2> DEFINE next == proc[p].next
             db == Executed(database, Schema[next])
  <2>1. /\ At(p, "script") /\ database' = db
        /\ UNCHANGED <<directory, metadata, cache, locks, undo, clobbered, trouble>>
    BY <1>4 DEF RunScript, history
  <2>2. /\ next \in 1..8 /\ database \in Databases /\ Sound(database)
        /\ database.parts = ScriptParts(next)
    BY <2>1 DEF Opening, TypeOK, At
  <2>3. /\ db \in Databases /\ db.parts = ScriptParts(next + 1) /\ Sound(db)
        /\ next = 8 => ScriptParts(next + 1) = AllParts
    BY <2>2, ScriptStatement
  <2>4. \A q \in Procs \ {p} : proc[q].at \notin {"new", "check", "script", "upgrade"}
    BY <2>1 DEF Locked, At
  <2>5. PICK state \in State :
             /\ proc' = [proc EXCEPT ![p] = state]
             /\ \/ next = 8 /\ state.at = "upgrade" /\ state.next = 1
                \/ next # 8 /\ state.at = "script" /\ state.next = next + 1
    <3>1. CASE next = 8
      <4> DEFINE there == [proc[p] EXCEPT !.at = "upgrade", !.next = 1]
      <4>1. proc' = [proc EXCEPT ![p] = there]
        BY <1>4, <3>1, SchemaStatements DEF RunScript, TypeOK
      <4>2. there \in State /\ there.at = "upgrade" /\ there.next = 1
        <5>1. "upgrade" \in Places /\ proc[p] \in State
          BY DEF TypeOK, State, Places
        <5>2. QED BY <5>1 DEF State
      <4>3. QED BY <3>1, <4>1, <4>2
    <3>2. CASE next # 8
      <4> DEFINE there == [proc[p] EXCEPT !.next = next + 1]
      <4>1. proc' = [proc EXCEPT ![p] = there]
        BY <1>4, <3>2, SchemaStatements DEF RunScript, TypeOK
      <4>2. there \in State /\ there.at = "script" /\ there.next = next + 1
        BY <2>1, <2>2 DEF TypeOK, State, At
      <4>3. QED BY <3>2, <4>1, <4>2
    <3>3. QED BY <3>1, <3>2
  <2>6. UpgradedParts(1) \subseteq AllParts
    <3>1. 1..(1 - 1) = {}
      OBVIOUS
    <3>2. QED BY <3>1 DEF UpgradedParts, Required
  <2>7. next # 8 => next + 1 \in 1..8
    BY <2>2
  <2>8. db # NoFile
    BY <2>3, NoFileAssumption
  <2> HIDE DEF next, db
  <2>9. proc' \in [Procs -> State] /\ proc'[p] = state /\ \A q \in Procs \ {p} : proc'[q] = proc[q]
    BY <2>5, Moved
  <2>10. TypeOK'
    BY <2>1, <2>3, <2>5, <2>9 DEF TypeOK, State, At
  <2>11. Locked' /\ Created' /\ BackedUp'
    BY <2>1, <2>5, <2>9 DEF Locked, Created, BackedUp, At
  <2>12. \A q \in Procs \ {p} : At(q, "opened") => AllParts \subseteq db.parts
    <3>1. next \in 1..8 /\ ScriptParts(next) \subseteq ScriptParts(next + 1)
      BY <2>2 DEF ScriptParts
    <3>2. QED BY <2>2, <2>3, <3>1 DEF Opening
  <2>13. Opening'
    BY <2>1, <2>3, <2>4, <2>5, <2>6, <2>7, <2>8, <2>9, <2>12 DEF Opening, At
  <2>14. QED BY <2>10, <2>11, <2>13
<1>5. CASE RunUpgrade(p)
  <2> DEFINE next == proc[p].next
             db == Executed(database, Upgrade[next])
  <2>1. /\ At(p, "upgrade") /\ database' = db
        /\ UNCHANGED <<directory, metadata, cache, undo, clobbered, trouble>>
    BY <1>5 DEF RunUpgrade, history
  <2>2. /\ next \in 1..6 /\ database \in Databases /\ Sound(database)
        /\ UpgradedParts(next) \subseteq database.parts
    BY <2>1 DEF Opening, TypeOK, At
  <2>3. /\ db \in Databases /\ Sound(db) /\ database.parts \subseteq db.parts
        /\ UpgradedParts(next + 1) \subseteq db.parts
        /\ next = 6 => UpgradedParts(next + 1) = AllParts
    BY <2>2, UpgradeStatement
  <2>4. \A q \in Procs \ {p} : proc[q].at \notin {"new", "check", "script", "upgrade"}
    BY <2>1 DEF Locked, At
  <2>5. PICK state \in State :
             /\ proc' = [proc EXCEPT ![p] = state]
             /\ \/ next = 6 /\ state.at = "opened" /\ Released(p)
                \/ next # 6 /\ state.at = "upgrade" /\ state.next = next + 1 /\ locks' = locks
    <3>1. CASE next = 6
      <4> DEFINE there == [proc[p] EXCEPT !.at = "opened"]
      <4>1. proc' = [proc EXCEPT ![p] = there] /\ Released(p)
        BY <1>5, <3>1, UpgradeStatements DEF RunUpgrade, TypeOK, Goto
      <4>2. there \in State /\ there.at = "opened"
        BY DEF TypeOK, State, Places
      <4>3. QED BY <3>1, <4>1, <4>2
    <3>2. CASE next # 6
      <4> DEFINE there == [proc[p] EXCEPT !.next = next + 1]
      <4>1. proc' = [proc EXCEPT ![p] = there] /\ locks' = locks
        BY <1>5, <3>2, UpgradeStatements DEF RunUpgrade, TypeOK
      <4>2. there \in State /\ there.at = "upgrade" /\ there.next = next + 1
        BY <2>1, <2>2 DEF TypeOK, State, At
      <4>3. QED BY <3>2, <4>1, <4>2
    <3>3. QED BY <3>1, <3>2
  <2>6. next # 6 => next + 1 \in 1..6
    BY <2>2
  <2>7. db # NoFile
    BY <2>3, NoFileAssumption
  <2> HIDE DEF next, db
  <2>8. proc' \in [Procs -> State] /\ proc'[p] = state /\ \A q \in Procs \ {p} : proc'[q] = proc[q]
    BY <2>5, Moved
  <2>9. /\ locks' \in [outbox : Procs \cup {NoProc}, state : Procs \cup {NoProc}]
        /\ \A q \in Procs \ {p} : /\ locks.outbox = q => locks'.outbox = q
                                  /\ locks.state = q => locks'.state = q
    BY <2>5, LockReleased DEF TypeOK
  <2>10. TypeOK'
    BY <2>1, <2>3, <2>5, <2>8, <2>9 DEF TypeOK, State, At
  <2>11. Locked'
    BY <2>1, <2>5, <2>8, <2>9 DEF Locked, At
  <2>12. Created' /\ BackedUp'
    BY <2>1, <2>5, <2>8 DEF Created, BackedUp, At
  <2>13. Opening'
    BY <2>1, <2>3, <2>4, <2>5, <2>6, <2>7, <2>8 DEF Opening, At
  <2>14. QED BY <2>10, <2>11, <2>12, <2>13
<1>6. CASE AppendEvent(p)
  <2> DEFINE state == [proc[p] EXCEPT !.at = "done"]
             db == [database EXCEPT !.counter = @ + 1, !.last = database.counter + 1]
  <2>1. /\ proc' = [proc EXCEPT ![p] = state] /\ state \in State /\ state.at = "done"
        /\ database' = db /\ At(p, "opened")
        /\ UNCHANGED <<directory, metadata, cache, locks, undo, clobbered, trouble>>
    BY <1>6 DEF AppendEvent, Goto, history, TypeOK, State, Places
  <2>2. database \in Databases /\ Sound(database)
    BY <2>1 DEF Opening, TypeOK, At
  <2>3. db \in Databases /\ db.parts = database.parts /\ db.counter = db.last
    <3> DEFINE count == database.counter + 1
    <3>1. count \in Nat /\ db = [database EXCEPT !.counter = count, !.last = count]
      BY <2>2 DEF Databases
    <3> HIDE DEF count
    <3>2. QED BY <2>2, <3>1 DEF Databases
  <2>4. Sound(db) /\ db # NoFile
    BY <2>2, <2>3, NoFileAssumption DEF Sound
  <2> HIDE DEF state, db
  <2>5. proc' \in [Procs -> State] /\ proc'[p] = state /\ \A q \in Procs \ {p} : proc'[q] = proc[q]
    BY <2>1, Moved
  <2>6. TypeOK'
    BY <2>1, <2>3, <2>5 DEF TypeOK, State, At
  <2>7. Locked' /\ Created' /\ BackedUp'
    BY <2>1, <2>5 DEF Locked, Created, BackedUp, At
  <2>8. \A q \in Procs : ~At(q, "new")
    BY <2>1 DEF Opening, At
  <2>9. Opening'
    BY <2>1, <2>3, <2>4, <2>5, <2>8 DEF Opening, At
  <2>10. QED BY <2>6, <2>7, <2>9
<1>7. QED BY <1>1, <1>2, <1>3, <1>4, <1>5, <1>6

\* The state cache: reading, replacing and committing its entries, recovery of
\* replacements that were cut short, failures and killed processes.
LEMMA CacheStep ==
    ASSUME IInv, NEW p \in Procs,
           ReadEntries(p) \/ Preview(p) \/ IntendReplace(p) \/ ReplaceEntries(p)
               \/ CommitEntries(p) \/ Recover(p) \/ Fail(p) \/ Kill(p)
    PROVE  IInv'
<1> USE DEF IInv
<1>1. proc[p] \in State
  BY DEF TypeOK, State
<1>2. ASSUME NEW there \in Places, Goto(p, there)
      PROVE  LET state == [proc[p] EXCEPT !.at = there]
             IN  /\ proc' = [proc EXCEPT ![p] = state] /\ state \in State /\ state.at = there
                 /\ proc' \in [Procs -> State] /\ proc'[p] = state
                 /\ \A q \in Procs \ {p} : proc'[q] = proc[q]
  <2> DEFINE state == [proc[p] EXCEPT !.at = there]
  <2>1. proc' = [proc EXCEPT ![p] = state] /\ state \in State /\ state.at = there
    BY <1>1, <1>2, StateAt DEF Goto, TypeOK
  <2> HIDE DEF state
  <2>2. QED BY <2>1, Moved DEF state
<1>3. {"read", "intended", "replaced"} \cup Quiet \subseteq Places
  BY DEF Places, Quiet
<1>4. CASE ReadEntries(p)
  <2> DEFINE state == [proc[p] EXCEPT !.at = "read", !.view = cache]
  <2>1. /\ proc' = [proc EXCEPT ![p] = state] /\ state \in State /\ state.at = "read"
        /\ state.view = cache /\ At(p, "invalidate") /\ Taken(p, "state")
        /\ UNCHANGED <<directory, metadata, database, cache, undo, clobbered, trouble>>
    <3>1. "read" \in Places /\ cache \in SUBSET Entries
      BY DEF TypeOK, Places
    <3>2. state \in State /\ state.at = "read" /\ state.view = cache
      BY <1>1, <3>1 DEF State
    <3>3. proc' = [proc EXCEPT ![p] = state]
      BY <1>4 DEF ReadEntries, TypeOK
    <3>4. QED BY <1>4, <3>2, <3>3 DEF ReadEntries, LockState, files, history
  <2> HIDE DEF state
  <2>2. proc' \in [Procs -> State] /\ proc'[p] = state /\ \A q \in Procs \ {p} : proc'[q] = proc[q]
    BY <2>1, Moved
  <2>3. /\ locks' \in [outbox : Procs \cup {NoProc}, state : Procs \cup {NoProc}]
        /\ locks'.state = p /\ locks'.outbox = locks.outbox /\ \A q \in Procs : locks.state # q
    BY <2>1, LockTaken
  <2>4. TypeOK'
    BY <2>1, <2>2, <2>3 DEF TypeOK, State, At
  <2>5. Locked'
    BY <2>1, <2>2, <2>3 DEF Locked
  <2>6. Created' /\ Opening'
    BY <2>1, <2>2 DEF Created, Opening, At
  <2>7. BackedUp'
    BY <2>1, <2>2 DEF BackedUp, At
  <2>8. QED BY <2>4, <2>5, <2>6, <2>7
<1>5. CASE Preview(p)
  <2>1. Goto(p, "done") /\ "done" \in Quiet
    BY <1>5 DEF Preview, Quiet
  <2>2. QED BY <1>5, <2>1, QuietGoto DEF Preview, history, TypeOK, At
<1>6. CASE IntendReplace(p)
  <2> DEFINE state == [proc[p] EXCEPT !.at = "intended"]
  <2>1. /\ state \in State /\ state.at = "intended" /\ At(p, "read")
        /\ state.view = proc[p].view /\ undo' = [undo EXCEPT ![p] = {cache}]
        /\ UNCHANGED <<directory, metadata, database, cache, locks, clobbered, trouble>>
    BY <1>1, <1>2, <1>3, <1>6 DEF IntendReplace, files, State
  <2>2. proc' \in [Procs -> State] /\ proc'[p] = state /\ \A q \in Procs \ {p} : proc'[q] = proc[q]
    BY <1>2, <1>3, <1>6 DEF IntendReplace
  <2>3. cache \in SUBSET Entries
    BY DEF TypeOK
  <2> HIDE DEF state
  <2>4. undo' \in [Procs -> SUBSET SUBSET Entries]
        /\ undo'[p] = {cache} /\ \A q \in Procs \ {p} : undo'[q] = undo[q]
    BY <2>1, <2>3 DEF TypeOK
  <2>5. \A q \in Procs \ {p} : proc[q].at \notin {"read", "intended", "replaced"}
    BY <2>1 DEF Locked, At
  <2>6. TypeOK'
    BY <2>1, <2>2, <2>3, <2>4 DEF TypeOK, State, At
  <2>7. Locked' /\ Created' /\ Opening'
    BY <2>1, <2>2 DEF Locked, Created, Opening, At
  <2>8. BackedUp'
    BY <2>1, <2>2, <2>3, <2>4, <2>5 DEF BackedUp, At
  <2>9. QED BY <2>6, <2>7, <2>8
<1>7. CASE ReplaceEntries(p)
  <2> DEFINE state == [proc[p] EXCEPT !.at = "replaced"]
             rest == proc[p].view \ {proc[p].name}
  <2>1. /\ state \in State /\ state.at = "replaced" /\ At(p, "intended")
        /\ cache' = rest
        /\ UNCHANGED <<directory, metadata, database, undo, locks, clobbered, trouble>>
    BY <1>2, <1>3, <1>7 DEF ReplaceEntries, history
  <2>2. proc' \in [Procs -> State] /\ proc'[p] = state /\ \A q \in Procs \ {p} : proc'[q] = proc[q]
    BY <1>2, <1>3, <1>7 DEF ReplaceEntries
  <2>3. rest \subseteq cache /\ cache \in SUBSET Entries
    BY <2>1 DEF BackedUp, TypeOK, At
  <2> HIDE DEF state, rest
  <2>5. \A q \in Procs \ {p} : proc[q].at \notin {"read", "intended", "replaced"}
    BY <2>1 DEF Locked, At
  <2>6. TypeOK'
    BY <2>1, <2>2, <2>3 DEF TypeOK, State, At
  <2>7. Locked' /\ Created' /\ Opening'
    BY <2>1, <2>2 DEF Locked, Created, Opening, At
  <2>8. BackedUp'
    BY <2>1, <2>2, <2>3, <2>5 DEF BackedUp, At
  <2>9. QED BY <2>6, <2>7, <2>8
<1>8. CASE CommitEntries(p)
  <2> DEFINE state == [proc[p] EXCEPT !.at = "done"]
  <2>1. /\ state \in State /\ state.at = "done" /\ At(p, "replaced") /\ Released(p)
        /\ undo' = [undo EXCEPT ![p] = {}]
        /\ UNCHANGED <<directory, metadata, database, cache, clobbered, trouble>>
    BY <1>2, <1>3, <1>8 DEF CommitEntries, Quiet, files
  <2>2. proc' \in [Procs -> State] /\ proc'[p] = state /\ \A q \in Procs \ {p} : proc'[q] = proc[q]
    BY <1>2, <1>3, <1>8 DEF CommitEntries, Quiet
  <2> HIDE DEF state
  <2>3. undo' \in [Procs -> SUBSET SUBSET Entries]
        /\ undo'[p] = {} /\ \A q \in Procs \ {p} : undo'[q] = undo[q]
    BY <2>1 DEF TypeOK
  <2>4. /\ locks' \in [outbox : Procs \cup {NoProc}, state : Procs \cup {NoProc}]
        /\ \A q \in Procs \ {p} : /\ locks.outbox = q => locks'.outbox = q
                                  /\ locks.state = q => locks'.state = q
    BY <2>1, LockReleased
  <2>5. TypeOK'
    BY <2>1, <2>2, <2>3, <2>4 DEF TypeOK, State, At
  <2>6. Locked'
    BY <2>1, <2>2, <2>4 DEF Locked
  <2>7. Created' /\ Opening'
    BY <2>1, <2>2 DEF Created, Opening, At
  <2>8. BackedUp'
    BY <2>1, <2>2, <2>3 DEF BackedUp, At
  <2>9. QED BY <2>5, <2>6, <2>7, <2>8
<1>9. CASE Recover(p)
  <2> DEFINE state == [proc[p] EXCEPT !.at = "done"]
  <2>1. /\ state \in State /\ state.at = "done" /\ At(p, "recover")
        /\ \A q \in Procs : ~At(q, "intended") /\ ~At(q, "replaced")
        /\ undo' = [q \in Procs |-> {}]
        /\ clobbered' = (clobbered \/ (cache' # cache /\ \E q \in Procs : At(q, "read")))
        /\ UNCHANGED <<directory, metadata, database, locks, trouble>>
    BY <1>2, <1>3, <1>9 DEF Recover, Quiet
  <2>2. proc' \in [Procs -> State] /\ proc'[p] = state /\ \A q \in Procs \ {p} : proc'[q] = proc[q]
    BY <1>2, <1>3, <1>9 DEF Recover, Quiet
  <2> HIDE DEF state
  <2>3. cache' = cache \/ \E q \in Procs : cache' \in undo[q]
    BY <1>9 DEF Recover
  <2>4. cache \subseteq cache' /\ cache' \in SUBSET Entries
    BY <2>3 DEF BackedUp, TypeOK
  <2>5. TypeOK'
    <3>1. undo' \in [Procs -> SUBSET SUBSET Entries] /\ clobbered' \in BOOLEAN
      BY <2>1 DEF TypeOK
    <3>2. QED BY <2>1, <2>2, <2>4, <3>1 DEF TypeOK, State, At
  <2>6. Locked' /\ Created' /\ Opening'
    BY <2>1, <2>2 DEF Locked, Created, Opening, At
  <2>7. BackedUp'
    <3>1. \A q \in Procs : undo'[q] = {}
      BY <2>1
    <3>2. \A q \in Procs : proc'[q].at \in {"read", "intended"} =>
              At(q, "read") /\ proc'[q] = proc[q]
      BY <2>1, <2>2 DEF At
    <3>3. \A q \in Procs : At(q, "read") =>
              proc[q].view \subseteq cache' /\ (clobbered' \/ proc[q].view = cache')
      BY <2>1, <2>4 DEF BackedUp, At
    <3>4. \A q \in Procs : proc'[q].at \in {"read", "intended"} =>
              proc'[q].view \subseteq cache' /\ (clobbered' \/ proc'[q].view = cache')
      BY <3>2, <3>3
    <3>5. QED BY <3>1, <3>4 DEF BackedUp, At
  <2>8. QED BY <2>5, <2>6, <2>7
<1>10. CASE Fail(p)
  <2> DEFINE state == [proc[p] EXCEPT !.at = "failed"]
  <2>1. /\ state \in State /\ state.at = "failed" /\ ~At(p, "killed") /\ Released(p)
        /\ undo' = [undo EXCEPT ![p] = {}] /\ trouble' = trouble + 1
        /\ cache' \in IF undo[p] = {} THEN {cache} ELSE undo[p]
        /\ UNCHANGED <<directory, metadata, database, clobbered>>
    BY <1>2, <1>3, <1>10 DEF Fail, Working, Quiet, At
  <2>2. proc' \in [Procs -> State] /\ proc'[p] = state /\ \A q \in Procs \ {p} : proc'[q] = proc[q]
    BY <1>2, <1>3, <1>10 DEF Fail, Quiet
  <2> HIDE DEF state
  <2>3. undo' \in [Procs -> SUBSET SUBSET Entries]
        /\ undo'[p] = {} /\ \A q \in Procs \ {p} : undo'[q] = undo[q]
    BY <2>1 DEF TypeOK
  <2>4. /\ locks' \in [outbox : Procs \cup {NoProc}, state : Procs \cup {NoProc}]
        /\ \A q \in Procs \ {p} : /\ locks.outbox = q => locks'.outbox = q
                                  /\ locks.state = q => locks'.state = q
    BY <2>1, LockReleased
  <2>5. cache \subseteq cache' /\ cache' \in SUBSET Entries
    BY <2>1 DEF BackedUp, TypeOK
  <2>6. TypeOK'
    BY <2>1, <2>2, <2>3, <2>4, <2>5 DEF TypeOK, State, At
  <2>7. Locked'
    BY <2>1, <2>2, <2>4 DEF Locked
  <2>8. Created' /\ Opening'
    BY <2>1, <2>2 DEF Created, Opening, At
  <2>9. BackedUp'
    <3>1. CASE undo[p] = {}
      BY <2>1, <2>2, <2>3, <3>1 DEF BackedUp, At
    <3>2. CASE undo[p] # {}
      <4>1. proc[p].at \in {"intended", "replaced"} /\ cache' \in undo[p]
        BY <2>1, <3>2 DEF BackedUp, At
      <4>2. \A q \in Procs \ {p} : proc[q].at \notin {"read", "intended", "replaced"}
        BY <4>1 DEF Locked, At
      <4>3. QED BY <2>1, <2>2, <2>3, <4>1, <4>2 DEF BackedUp, At
    <3>3. QED BY <3>1, <3>2
  <2>10. QED BY <2>6, <2>7, <2>8, <2>9
<1>11. CASE Kill(p)
  <2>1. Goto(p, "killed") /\ "killed" \in Quiet /\ UNCHANGED files /\ UNCHANGED <<undo, clobbered>>
        /\ Released(p) /\ trouble' \in Nat
    BY <1>11 DEF Kill, Quiet, TypeOK
  <2>2. QED BY <2>1, QuietGoto
<1>12. QED BY <1>4, <1>5, <1>6, <1>7, <1>8, <1>9, <1>10, <1>11

-----------------------------------------------------------------------------
(* The theorems. *)

\* The inductive invariant holds in every state, however many processes race,
\* fail or are killed.
THEOREM WorkspaceInvariant == Spec => []IInv
<1>1. Init => IInv
  <2> SUFFICES ASSUME Init PROVE IInv
    OBVIOUS
  <2>1. /\ \A p \in Procs : proc[p].at = "idle" /\ undo[p] = {}
        /\ proc \in [Procs -> [command : Commands \cup {"none"}, at : Places,
                           name : Entries \cup {NoProc}, next : Nat, view : SUBSET Entries]]
    BY DEF Init, Places
  <2>2. \A db \in Earlier : db \in Databases /\ Sound(db)
    <3> SUFFICES ASSUME NEW db \in Earlier PROVE db \in Databases /\ Sound(db)
      OBVIOUS
    <3>1. PICK some \in Optional, counted \in {{}, {"sequence_state", "counter"}} :
               db = [parts |-> (AllParts \ (Consumers \cup {"sequence_state", "counter"}))
                                   \cup some \cup counted,
                     last |-> 1, counter |-> IF counted = {} THEN 0 ELSE 1]
      BY DEF Earlier
    <3>2. some \subseteq Consumers
      BY DEF Optional, Consumers
    <3>3. "counter" \notin Consumers
      BY DEF Consumers, Columns
    <3>4. Consumers \cup {"sequence_state", "counter"} \subseteq AllParts
      BY WholeDatabase
    <3>5. "counter" \in counted <=> counted # {}
      OBVIOUS
    <3>6. QED BY <3>1, <3>2, <3>3, <3>4, <3>5 DEF Databases, Sound, Required
  <2>3. TypeOK
    BY <2>1, <2>2 DEF Init, TypeOK, At
  <2>4. Locked /\ Created
    BY <2>1 DEF Init, Locked, Created, At
  <2>5. Opening
    BY <2>1, <2>2 DEF Init, Opening, At
  <2>6. BackedUp
    BY <2>1 DEF BackedUp, At
  <2>7. QED BY <2>3, <2>4, <2>5, <2>6 DEF IInv
<1>2. IInv /\ [Next]_vars => IInv'
  <2> SUFFICES ASSUME IInv, [Next]_vars PROVE IInv'
    OBVIOUS
  <2>1. CASE Next
    BY <2>1, InitStep, OpeningStep, CacheStep DEF Next, Step
  <2>2. CASE UNCHANGED vars
    <3>1. UNCHANGED <<directory, metadata, database, cache, locks, proc, undo, clobbered, trouble>>
      BY <2>2 DEF vars, files, history
    <3>2. QED BY <3>1 DEF IInv, TypeOK, Locked, Created, Opening, BackedUp, At
  <2>3. QED BY <2>1, <2>2
<1>3. QED BY <1>1, <1>2, PTL DEF Spec

\* Whoever has opened the event database works on a whole one, with a counter
\* at its last event, wherever scripts and upgrades before it were cut short.
\* (SqliteEventOutbox._connect)
THEOREM OpenedDatabasesAreComplete == Spec => []OpenedIsComplete
<1>1. IInv => OpenedIsComplete
  <2> SUFFICES ASSUME IInv, NEW p \in Procs, At(p, "opened")
               PROVE  AllParts \subseteq database.parts /\ database.counter = database.last
    BY DEF OpenedIsComplete
  <2>1. Sound(database) /\ AllParts \subseteq database.parts
    BY DEF IInv, Opening, At
  <2>2. QED BY <2>1, WholeDatabase DEF Sound
<1>2. QED BY <1>1, WorkspaceInvariant, PTL

\* No command undoes what another has done: the metadata is written once, an
\* entry leaves the cache by its own invalidation and comes back by a rollback
\* only.  (LocalWorkspaceStore.initialize, WorkspaceStateStore.invalidate)
THEOREM CommandsKeepChanges == Spec => ChangesKept
<1> DEFINE Kept == /\ metadata # NoProc => metadata' = metadata
                   /\ cache' \subseteq cache \/ \E p \in Procs : cache' \in undo[p] /\ undo'[p] = {}
                   /\ \/ clobbered'
                      \/ \A name \in cache \ cache' :
                            \E p \in Procs :
                                At(p, "intended") /\ proc'[p].at = "replaced" /\ name = proc[p].name
<1>1. IInv /\ [Next]_vars => [Kept]_vars
  <2> SUFFICES ASSUME IInv, Next PROVE Kept
    OBVIOUS
  <2>1. PICK p \in Procs : Step(p) \/ Fail(p) \/ Kill(p)
    BY DEF Next
  <2>2. metadata # NoProc => metadata' = metadata
    <3>1. WriteMetadata(p) => metadata = NoProc
      BY DEF WriteMetadata, IInv, Created
    <3>2. ~WriteMetadata(p) => metadata' = metadata
      BY <2>1 DEF Step, Start, Load, FindMetadata, FindDirectory, MakeDirectory, LockOutbox, CreateFile,
         CheckVersion, RunScript, RunUpgrade, AppendEvent, ReadEntries, Preview, IntendReplace, ReplaceEntries,
         CommitEntries, Recover, Fail, Kill, files, history
    <3>3. QED BY <3>1, <3>2
  <2>3. CASE ReplaceEntries(p)
    <3>1. /\ At(p, "intended") /\ cache' = proc[p].view \ {proc[p].name}
          /\ proc'[p].at = "replaced" /\ clobbered' = clobbered
      BY <2>3 DEF ReplaceEntries, Goto, history, IInv, TypeOK
    <3>2. proc[p].view \subseteq cache /\ (clobbered \/ proc[p].view = cache)
      BY <3>1 DEF IInv, BackedUp, At
    <3>3. QED BY <2>2, <3>1, <3>2
  <2>4. CASE Recover(p)
    <3>1. (cache' = cache \/ \E q \in Procs : cache' \in undo[q]) /\ undo' = [q \in Procs |-> {}]
      BY <2>4 DEF Recover
    <3>2. cache \subseteq cache'
      BY <3>1 DEF IInv, BackedUp
    <3>3. QED BY <2>2, <3>1, <3>2
  <2>5. CASE Fail(p)
    <3>1. /\ cache' \in IF undo[p] = {} THEN {cache} ELSE undo[p]
          /\ undo' = [undo EXCEPT ![p] = {}]
      BY <2>5 DEF Fail
    <3>2. cache \subseteq cache' /\ undo'[p] = {}
      BY <3>1 DEF IInv, BackedUp, TypeOK
    <3>3. QED BY <2>2, <3>1, <3>2
  <2>6. CASE ~(ReplaceEntries(p) \/ Recover(p) \/ Fail(p))
    <3>1. cache' = cache
      BY <2>1, <2>6 DEF Step, Start, Load, FindMetadata, FindDirectory, MakeDirectory, WriteMetadata,
         LockOutbox, CreateFile, CheckVersion, RunScript, RunUpgrade, AppendEvent, ReadEntries,
         Preview, IntendReplace, CommitEntries, Kill, files
    <3>2. QED BY <2>2, <3>1
  <2>7. QED BY <2>3, <2>4, <2>5, <2>6
<1>2. QED BY <1>1, WorkspaceInvariant, PTL DEF Spec, ChangesKept
=============================================================================
