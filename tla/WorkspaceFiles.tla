--------------------------- MODULE WorkspaceFiles ---------------------------
(***************************************************************************)
(* The files under .ansiblectl that a workspace begins with: the metadata  *)
(* `workspace init` writes, the event database every event command opens,  *)
(* creates or upgrades, and the state cache `state invalidate` rewrites.   *)
(*                                                                         *)
(* A process runs one command.  Each statement of the schema scripts       *)
(* commits by itself.  The transaction of an invalidation is               *)
(* FsTransaction's, seen from its single target, as in ExecutionHistory.   *)
(***************************************************************************)
EXTENDS Integers, Sequences, FiniteSets

CONSTANTS
    Procs,       \* processes, each with one command
    Entries,     \* names of cache entries
    NoProc,      \* nobody
    NoFile,      \* there is no database
    MaxTrouble   \* bounds killed processes and failing calls, together

ASSUME WorkspaceAssumption ==
    NoProc \notin Procs /\ MaxTrouble \in Nat

VARIABLES
    directory,   \* .ansiblectl is there
    metadata,    \* who wrote workspace.json
    database,    \* what outbox.sqlite3 holds: its parts, events and counter
    cache,       \* the entries of state.json
    locks,       \* the holders of outbox.lock and of state.lock
    undo,        \* the backup of a replacement of state.json not yet committed, if any
    clobbered,   \* a recovery put back entries beside a reader (history)
    proc,        \* each process: its command and where it is
    trouble      \* what has gone wrong so far

files == <<directory, metadata, database, cache>>
history == <<undo, clobbered, trouble>>
vars == <<files, locks, proc, history>>

-----------------------------------------------------------------------------
(* The database's schema. *)

Columns == {"attempt_count", "next_attempt_at", "failure_reason"}
Consumers == {"consumers"} \cup Columns

\* Mutant: the version comes first.
VersionFirst == <<{"version"}, {"metadata"}, {"metadata row"}, {"events"}, Consumers,
                  {"sequence_state"}, {"counter"}, {"trigger"}>>

\* _SCHEMA, one set of parts for each statement.
Schema == <<{"metadata"}, {"metadata row"}, {"events"}, Consumers,
            {"sequence_state"}, {"counter"}, {"trigger"}, {"version"}>>

AllParts == UNION {Schema[i] : i \in DOMAIN Schema}

\* What every file that is opened goes through; each statement adds what is
\* missing, and a table that is there is left as it is.
Upgrade == <<Consumers, {"sequence_state"}, {"counter"},
             {"attempt_count"}, {"next_attempt_at"}, {"failure_reason"}>>

Added(parts, statement) ==
    IF "consumers" \in statement \cap parts THEN parts ELSE parts \cup statement

\* A new counter continues from the events that are there.
Executed(db, statement) ==
    [db EXCEPT !.parts = Added(@, statement),
               !.counter = IF "counter" \in statement \ db.parts THEN db.last ELSE @]

\* The checks on a file that existed.
Supported(db) == {"metadata row", "version"} \subseteq db.parts

\* Files of earlier releases lack what Upgrade adds.
Optional == {{}, {"consumers"}, Consumers}
Earlier ==
    {[parts |-> (AllParts \ (Consumers \cup {"sequence_state", "counter"})) \cup some \cup counted,
      last |-> 1, counter |-> IF counted = {} THEN 0 ELSE 1] :
        some \in Optional, counted \in {{}, {"sequence_state", "counter"}}}

Databases == [parts : SUBSET AllParts, last : Nat, counter : Nat]

ASSUME NoFileAssumption == NoFile \notin Databases

-----------------------------------------------------------------------------
(* Processes. *)

At(p, there) == proc[p].at = there
Goto(p, there) == proc' = [proc EXCEPT ![p].at = there]

\* Locks are flock() on a descriptor: they end with the process at the latest.
Taken(p, which) == locks[which] = NoProc /\ locks' = [locks EXCEPT ![which] = p]
Released(p) == locks' = [which \in DOMAIN locks |->
                            IF locks[which] = p THEN NoProc ELSE locks[which]]

Start(p) ==
    /\ At(p, "idle")
    /\ \E command \in {"init", "event", "invalidate", "recover"} :
       \E name \in IF command = "invalidate" THEN Entries ELSE {NoProc} :
           proc' = [proc EXCEPT ![p] = [@ EXCEPT !.command = command, !.name = name,
                        !.at = IF command = "init" THEN "init" ELSE "load"]]
    /\ UNCHANGED <<files, locks, history>>

AfterLoad(p) ==
    CASE proc[p].command \in {"init", "event"} -> "open"
      [] proc[p].command = "invalidate" -> "invalidate"
      [] proc[p].command = "recover" -> "recover"

\* LocalWorkspaceStore.load: without metadata there is no workspace.
Load(p) ==
    /\ At(p, "load")
    /\ Goto(p, IF metadata = NoProc THEN "failed" ELSE AfterLoad(p))
    /\ UNCHANGED <<files, locks, history>>

-----------------------------------------------------------------------------
(* workspace init *)

FindMetadata(p) ==
    /\ At(p, "init")
    /\ Goto(p, IF metadata # NoProc THEN "load" ELSE "absent")
    /\ UNCHANGED <<files, locks, history>>

\* A directory without metadata is refused, and mkdir() creates or fails.
DirectoryFree == ~directory

FindDirectory(p) ==
    /\ At(p, "absent") /\ Goto(p, IF DirectoryFree THEN "create" ELSE "failed")
    /\ UNCHANGED <<files, locks, history>>

MakeDirectory(p) ==
    /\ At(p, "create")
    /\ IF DirectoryFree THEN directory' = TRUE /\ Goto(p, "write")
       ELSE Goto(p, "failed") /\ UNCHANGED directory
    /\ UNCHANGED <<metadata, database, cache, locks, history>>

\* A whole temporary file takes the name; then the event is published.
WriteMetadata(p) ==
    /\ At(p, "write") /\ metadata' = p /\ Goto(p, "open")
    /\ UNCHANGED <<directory, database, cache, locks, history>>

-----------------------------------------------------------------------------
(* SqliteEventOutbox._connect *)

LockOutbox(p) ==
    /\ At(p, "open") /\ Taken(p, "outbox")
    /\ Goto(p, IF database = NoFile THEN "new" ELSE "check")
    /\ UNCHANGED <<files, history>>

CreateFile(p) ==
    /\ At(p, "new") /\ database' = [parts |-> {}, last |-> 0, counter |-> 0]
    /\ proc' = [proc EXCEPT ![p].at = "script", ![p].next = 1]
    /\ UNCHANGED <<directory, metadata, cache, locks, history>>

\* A file that is not of this schema is left as it is.
CheckVersion(p) ==
    /\ At(p, "check")
    /\ IF Supported(database)
       THEN proc' = [proc EXCEPT ![p].at = "upgrade", ![p].next = 1] /\ UNCHANGED locks
       ELSE Goto(p, "failed") /\ Released(p)
    /\ UNCHANGED <<files, history>>

RunScript(p) ==
    /\ At(p, "script") /\ database' = Executed(database, Schema[proc[p].next])
    /\ proc' = IF proc[p].next = Len(Schema) THEN [proc EXCEPT ![p].at = "upgrade", ![p].next = 1]
               ELSE [proc EXCEPT ![p].next = @ + 1]
    /\ UNCHANGED <<directory, metadata, cache, locks, history>>

RunUpgrade(p) ==
    /\ At(p, "upgrade") /\ database' = Executed(database, Upgrade[proc[p].next])
    /\ IF proc[p].next = Len(Upgrade) THEN Goto(p, "opened") /\ Released(p)
       ELSE proc' = [proc EXCEPT ![p].next = @ + 1] /\ UNCHANGED locks
    /\ UNCHANGED <<directory, metadata, cache, history>>

\* Appending stands for what is done with the connection (EventOutbox).
AppendEvent(p) ==
    /\ At(p, "opened") /\ Goto(p, "done")
    /\ database' = [database EXCEPT !.counter = @ + 1, !.last = database.counter + 1]
    /\ UNCHANGED <<directory, metadata, cache, locks, history>>

-----------------------------------------------------------------------------
(* WorkspaceStateStore.invalidate *)

\* Mutant: nobody waits for the state lock.
LockNothing(p) == UNCHANGED locks

LockState(p) == Taken(p, "state")

\* A preview ends here, and so does an invalidation of what is not there.
ReadEntries(p) ==
    /\ At(p, "invalidate") /\ LockState(p)
    /\ proc' = [proc EXCEPT ![p].at = "read", ![p].view = cache]
    /\ UNCHANGED <<files, history>>

Preview(p) ==
    /\ At(p, "read") /\ Goto(p, "done") /\ Released(p)
    /\ UNCHANGED <<files, history>>

\* From the durable intent on a recovery puts the backup back ...
IntendReplace(p) ==
    /\ At(p, "read") /\ proc[p].name \in proc[p].view
    /\ undo' = [undo EXCEPT ![p] = {cache}] /\ Goto(p, "intended")
    /\ UNCHANGED <<files, locks, clobbered, trouble>>

\* ... and only then the new content takes the name.
ReplaceEntries(p) ==
    /\ At(p, "intended")
    /\ cache' = proc[p].view \ {proc[p].name} /\ Goto(p, "replaced")
    /\ UNCHANGED <<directory, metadata, database, locks, history>>

CommitEntries(p) ==
    /\ At(p, "replaced") /\ undo' = [undo EXCEPT ![p] = {}]
    /\ Goto(p, "done") /\ Released(p)
    /\ UNCHANGED <<files, clobbered, trouble>>

\* Recovery holds the transactions' lock, not state.lock: no live process is
\* between intent and commit, one may be between read and intent.
Recover(p) ==
    /\ At(p, "recover") /\ \A q \in Procs : ~At(q, "intended") /\ ~At(q, "replaced")
    /\ LET backups == UNION {undo[q] : q \in Procs}
       IN  cache' \in IF backups = {} THEN {cache} ELSE backups
    /\ undo' = [q \in Procs |-> {}] /\ Goto(p, "done")
    /\ clobbered' = (clobbered \/ (cache' # cache /\ \E q \in Procs : At(q, "read")))
    /\ UNCHANGED <<directory, metadata, database, locks, trouble>>

-----------------------------------------------------------------------------
(* Failures. *)

Working(p) == proc[p].at \notin {"idle", "done", "failed", "killed"}

\* A failing call undoes an uncommitted replacement and nothing else.
Fail(p) ==
    /\ Working(p) /\ trouble < MaxTrouble /\ trouble' = trouble + 1
    /\ cache' \in IF undo[p] = {} THEN {cache} ELSE undo[p]
    /\ undo' = [undo EXCEPT ![p] = {}]
    /\ Goto(p, "failed") /\ Released(p)
    /\ UNCHANGED <<directory, metadata, database, clobbered>>

Kill(p) ==
    /\ Working(p) /\ trouble < MaxTrouble /\ trouble' = trouble + 1
    /\ Goto(p, "killed") /\ Released(p)
    /\ UNCHANGED <<files, undo, clobbered>>

Init ==
    /\ directory \in BOOLEAN
    /\ metadata \in IF directory THEN Procs ELSE {NoProc}
    /\ database \in IF directory THEN Earlier \cup {NoFile} ELSE {NoFile}
    /\ cache = IF directory THEN Entries ELSE {}
    /\ locks = [outbox |-> NoProc, state |-> NoProc]
    /\ undo = [p \in Procs |-> {}] /\ clobbered = FALSE /\ trouble = 0
    /\ proc = [p \in Procs |-> [command |-> "none", at |-> "idle", name |-> NoProc,
                                next |-> 0, view |-> {}]]

Step(p) ==
    \/ Start(p) \/ Load(p) \/ FindMetadata(p) \/ FindDirectory(p) \/ MakeDirectory(p)
    \/ WriteMetadata(p) \/ LockOutbox(p) \/ CreateFile(p) \/ CheckVersion(p) \/ RunScript(p)
    \/ RunUpgrade(p) \/ AppendEvent(p) \/ ReadEntries(p) \/ Preview(p)
    \/ IntendReplace(p) \/ ReplaceEntries(p) \/ CommitEntries(p) \/ Recover(p)

Next == \E p \in Procs : Step(p) \/ Fail(p) \/ Kill(p)

Spec == Init /\ [][Next]_vars

-----------------------------------------------------------------------------
(* Properties. *)

\* However often creating or upgrading the database was cut short, a command
\* that opens it finds every table and column, and the next sequence above
\* all events that are there.
OpenedIsComplete ==
    \A p \in Procs : At(p, "opened") =>
        AllParts \subseteq database.parts /\ database.counter = database.last

\* What one command has done another does not undo, whoever races, fails or is
\* killed: workspace.json is written once; an entry leaves the cache only by
\* its own invalidation, and comes back only with the backup of a transaction
\* that is rolled back.  A recovery beside a reader of the cache is excepted.
ChangesKept ==
    [][/\ metadata # NoProc => metadata' = metadata
       /\ cache' \subseteq cache \/ \E p \in Procs : cache' \in undo[p] /\ undo'[p] = {}
       /\ \/ clobbered'
          \/ \A name \in cache \ cache' :
                \E p \in Procs :
                    At(p, "intended") /\ proc'[p].at = "replaced" /\ name = proc[p].name
      ]_vars
=============================================================================
