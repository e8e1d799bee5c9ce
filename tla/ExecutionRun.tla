---------------------------- MODULE ExecutionRun ----------------------------
(***************************************************************************)
(* One command that runs Ansible: `run` in check or apply mode, `run       *)
(* --preflight`, `playbook validate --syntax-check` and `inventory         *)
(* validate`.  A command gathers evidence about the workspace step by      *)
(* step, lets the policies decide, runs Ansible, stores its output and     *)
(* publishes the result to two subscribers: the private event log          *)
(* (ExecutionHistory) and the durable outbox (EventOutbox, of which only   *)
(* the append is seen here).                                               *)
(*                                                                         *)
(* Meanwhile others edit, commit and check out the worktree, among them    *)
(* `repository sync`, which is a process here too.  Contents and commits   *)
(* are numbers: a commit is the playbook it contains, and the worktree is  *)
(* dirty when the playbook is not the one of HEAD.                         *)
(***************************************************************************)
EXTENDS ExecutionHistory

CONSTANTS
    Syncs,      \* processes that run `repository sync`
    Asked,      \* the requests that each command may be given
    None,       \* not known, not there
    MaxVersion  \* bounds the versions of the playbook and of the inventory

Requests ==
    [operation : {"run"}, mode : {"check", "apply"}, confirmed : BOOLEAN,
     limited : BOOLEAN, enforcement : {"report", "warn", "deny"}, preflight : BOOLEAN]
    \cup
    [operation : {"syntax", "inventory"}, mode : {"check"}, confirmed : {FALSE},
     limited : {FALSE}, enforcement : {"report"}, preflight : {FALSE}]

ASSUME RunAssumption ==
    /\ MaxVersion \in Nat
    /\ None \notin Nat \cup BOOLEAN
    /\ None \notin [playbook : Nat \cup {None}, inventory : Nat \cup {None}]
    /\ Runs \cap Syncs = {}
    /\ Asked \in [Runs -> SUBSET Requests]

VARIABLES
    playbook,   \* content of the selected file, None when it is not there
    inventory,  \* content of the inventory file
    head,       \* the commit checked out
    ref,        \* the commit the requested revision resolves to
    step,       \* where each command is
    request,    \* what each command was asked to do
    seen,       \* the evidence it has gathered
    temp,       \* the inventory it has materialised
    ran,        \* what Ansible ran with (history)
    result,     \* how Ansible ended, or why the command stopped
    outbox,     \* executions whose event is in the durable outbox
    diagnosed,  \* subscribers that failed, per command
    disturbed   \* others changed the workspace while the command gathered
                \* its evidence or waited to start Ansible (history)

world == <<playbook, inventory, head, ref>>
command == <<step, request, seen, temp, ran, result, diagnosed>>
vars == <<historyVars, world, command, outbox, disturbed>>

Versions == 0..MaxVersion

Nothing == [digest |-> None, inventory |-> None, dirty |-> None,
            resolved |-> None, head |-> None]

\* The steps of each operation.  A run and an inventory validation publish
\* inside the context that removes the inventory file; a syntax check digests
\* the playbook when Ansible has ended.
RunPath == <<"configure", "select", "digest", "inventory", "status", "resolve", "head",
             "policy", "environment", "materialise", "spawn", "running",
             "persist", "log", "outbox", "leave">>
SyntaxPath == <<"select", "spawn", "running", "persist", "log", "outbox", "digest", "leave">>
InventoryPath == <<"inventory", "materialise", "spawn", "running",
                   "persist", "log", "outbox", "leave">>

PathOf == [run |-> RunPath, syntax |-> SyntaxPath, inventory |-> InventoryPath]

After(path, s) == path[1 + CHOOSE i \in DOMAIN path : path[i] = s]

Is(r, s) == step[r] = s
Op(r) == request[r].operation
Goto(r, s) == step' = [step EXCEPT ![r] = s]
Following(r) == After(PathOf[Op(r)], step[r])
See(r, field, value) == seen' = [seen EXCEPT ![r][field] = value]

Dirty == playbook # head

-----------------------------------------------------------------------------
(* Failure of a command: what it has materialised is removed on the way    *)
(* out, whatever is raised, and only then does the command end.            *)

\* Mutant: the inventory file is removed only by a command that gets through.
StopAtOnce(r, why) ==
    /\ result' = [result EXCEPT ![r] = why]
    /\ Goto(r, "done")

Stop(r, why) ==
    /\ result' = [result EXCEPT ![r] = why]
    /\ Goto(r, "leave")

KeepWorld == UNCHANGED <<world, disturbed>>
KeepHistory == UNCHANGED historyVars

\* Steps that only gather evidence.
Gather(r, field, value, then) ==
    /\ See(r, field, value) /\ Goto(r, then)
    /\ UNCHANGED <<request, temp, ran, result, diagnosed, outbox>>
    /\ KeepWorld /\ KeepHistory

Refuse(r, why) ==
    /\ Stop(r, why)
    /\ UNCHANGED <<request, seen, temp, ran, diagnosed, outbox>>
    /\ KeepWorld /\ KeepHistory

Advance(r, then) ==
    /\ Goto(r, then)
    /\ UNCHANGED <<request, seen, temp, ran, result, diagnosed, outbox>>
    /\ KeepWorld /\ KeepHistory

-----------------------------------------------------------------------------
(* Preparation *)

\* An apply that is not confirmed ends before anything else is looked at.
Confirmed(q) == q.operation # "run" \/ q.mode = "check" \/ q.preflight \/ q.confirmed

Start(r, q) ==
    /\ Is(r, "idle")
    /\ request' = [request EXCEPT ![r] = q]
    /\ IF Confirmed(q) THEN Goto(r, PathOf[q.operation][1]) /\ UNCHANGED result
       ELSE Stop(r, "refused")
    /\ UNCHANGED <<seen, temp, ran, diagnosed, outbox>>
    /\ KeepWorld /\ KeepHistory

\* The effective configuration is resolved, or is not valid.
Configure(r) ==
    /\ Is(r, "configure")
    /\ Advance(r, Following(r)) \/ Refuse(r, "refused")

\* select_playbook: the file must be there.
Select(r) ==
    /\ Is(r, "select")
    /\ IF playbook = None THEN Refuse(r, "refused")
       ELSE Advance(r, Following(r))

\* playbook_digest reads the file again; a run takes it before the policies
\* decide, a syntax check when Ansible has ended.
Digest(r) ==
    /\ Is(r, "digest")
    /\ IF playbook = None THEN Refuse(r, "refused")
       ELSE Gather(r, "digest", playbook, Following(r))

ResolveInventory(r) ==
    /\ Is(r, "inventory")
    /\ Gather(r, "inventory", inventory, Following(r))

\* GitRepositoryAdapter.inspect: three calls of git, one after the other.
Status(r) ==
    /\ Is(r, "status") /\ Gather(r, "dirty", Dirty, Following(r))

Resolve(r) ==
    /\ Is(r, "resolve") /\ Gather(r, "resolved", ref, Following(r))

\* require_checked_out_revision
HeadRevision(r) ==
    /\ Is(r, "head")
    /\ IF head = seen[r].resolved THEN Gather(r, "head", head, Following(r))
       ELSE Refuse(r, "refused")

\* git fails in any of its calls.
GitFails(r) ==
    /\ step[r] \in {"status", "resolve", "head"} /\ Trouble
    /\ Stop(r, "refused")
    /\ UNCHANGED <<request, seen, temp, ran, diagnosed, outbox>> /\ KeepWorld
    /\ UNCHANGED <<log, outputs, lock, pruner, undo, clobbered>>

-----------------------------------------------------------------------------
(* Policy *)

Applies(r) == request[r].mode = "apply"

\* Mutant: the worktree is not looked at.
FindingsOfLimit(r) == Applies(r) /\ ~request[r].limited

\* ANSIBLECTL-APPLY-001 and ANSIBLECTL-APPLY-002
Findings(r) == Applies(r) /\ (~request[r].limited \/ seen[r].dirty = TRUE)

Allowed(r) == ~(request[r].enforcement = "deny" /\ Findings(r))

Decide(r) ==
    /\ Is(r, "policy")
    /\ IF ~Allowed(r) THEN Refuse(r, "denied")
       ELSE IF request[r].preflight THEN Refuse(r, "prepared")
       ELSE Advance(r, Following(r))

\* execution_environment: only a run that is allowed prepares its directories.
PrepareEnvironment(r) ==
    /\ Is(r, "environment")
    /\ \/ Advance(r, Following(r))
       \/ /\ Trouble /\ Stop(r, "refused")
          /\ UNCHANGED <<request, seen, temp, ran, diagnosed, outbox>> /\ KeepWorld
          /\ UNCHANGED <<log, outputs, lock, pruner, undo, clobbered>>

-----------------------------------------------------------------------------
(* Ansible *)

\* The canonical inventory in memory, the one that was digested.
Materialised(r) == seen[r].inventory

\* The private inventory file; a failing write removes it at once.
Materialise(r) ==
    /\ Is(r, "materialise")
    /\ \/ /\ temp' = [temp EXCEPT ![r] = Materialised(r)]
          /\ Goto(r, Following(r)) /\ UNCHANGED <<result, trouble>>
       \/ /\ Trouble /\ Stop(r, "error") /\ UNCHANGED temp
    /\ UNCHANGED <<request, seen, ran, diagnosed, outbox>> /\ KeepWorld
    /\ UNCHANGED <<log, outputs, lock, pruner, undo, clobbered>>

\* Ansible reads the playbook now.  It may not start: that is a result too.
Spawn(r) ==
    /\ Is(r, "spawn")
    /\ \/ /\ ran' = [ran EXCEPT ![r] = [playbook |-> playbook, inventory |-> temp[r]]]
          /\ Goto(r, Following(r)) /\ UNCHANGED <<result, trouble>>
       \/ /\ Trouble /\ UNCHANGED ran
          /\ result' = [result EXCEPT ![r] = "classified"] /\ Goto(r, "log")
    /\ UNCHANGED <<request, seen, temp, diagnosed, outbox>> /\ KeepWorld
    /\ UNCHANGED <<log, outputs, lock, pruner, undo, clobbered>>

\* The process ends, or is killed at its timeout: completed, failed and timed
\* out are results alike.  Output that is not in the
\* locale's encoding raises in subprocess.run: no result is classified.
Finish(r) ==
    /\ Is(r, "running")
    /\ \/ result' = [result EXCEPT ![r] = "classified"] /\ Goto(r, Following(r))
       \/ Stop(r, "undecodable")
    /\ UNCHANGED <<request, seen, temp, ran, diagnosed, outbox>>
    /\ KeepWorld /\ KeepHistory

\* Outputs are stored before they are referred to; empty ones are not stored,
\* and a call that fails may leave a stream behind that no result names.
PersistOutputs(r) ==
    /\ Is(r, "persist")
    /\ \/ outputs' = outputs \cup {r} /\ Goto(r, Following(r)) /\ UNCHANGED trouble
       \/ Goto(r, "logbare") /\ UNCHANGED <<outputs, trouble>>
       \/ Trouble /\ outputs' \in {outputs, outputs \cup {r}} /\ Goto(r, "logbare")
    /\ UNCHANGED <<request, seen, temp, ran, result, diagnosed, outbox>> /\ KeepWorld
    /\ UNCHANGED <<log, lock, pruner, undo, clobbered>>

-----------------------------------------------------------------------------
(* EventBus.publish: each subscriber on its own *)

Diagnose(r, who) == diagnosed' = [diagnosed EXCEPT ![r] = @ \cup {who}]

\* Mutant: a subscriber that raises ends the publication.
AfterFailure == "leave"

\* Whoever fails, the next subscriber is called.
NextSubscriber == "outbox"

PublishToLog(r) ==
    /\ step[r] \in {"log", "logbare"}
    /\ \/ /\ Emit(r, r \in outputs /\ Is(r, "log"))
          /\ Goto(r, "outbox") /\ UNCHANGED <<diagnosed, trouble>>
       \/ Trouble /\ EmitFails /\ Diagnose(r, "log") /\ Goto(r, NextSubscriber)
    /\ UNCHANGED <<request, seen, temp, ran, result, outbox>> /\ KeepWorld
    /\ UNCHANGED <<outputs, pruner, undo, clobbered>>

PublishToOutbox(r) ==
    /\ Is(r, "outbox")
    /\ \/ outbox' = outbox \cup {r} /\ UNCHANGED <<diagnosed, trouble>>
       \/ Trouble /\ Diagnose(r, "outbox") /\ UNCHANGED outbox
    /\ Goto(r, Following(r))
    /\ UNCHANGED <<request, seen, temp, ran, result>> /\ KeepWorld
    /\ UNCHANGED <<log, outputs, lock, pruner, undo, clobbered>>

-----------------------------------------------------------------------------
(* The end *)

\* Evidence about nothing that ran is gone with the command.
Forget(r) == seen' = IF r \in Runs /\ ran[r] # None THEN seen ELSE [seen EXCEPT ![r] = Nothing]

Leave(r) ==
    /\ Is(r, "leave")
    /\ temp' = [temp EXCEPT ![r] = None] /\ Goto(r, "done") /\ Forget(r)
    /\ UNCHANGED <<request, ran, result, diagnosed, outbox>>
    /\ KeepWorld /\ KeepHistory

Ended(r) == step[r] \in {"idle", "done", "killed"}

\* Control-C: what is with-ed is left, what is not yet published is not.
Interrupt(r) ==
    /\ ~Ended(r) /\ ~Is(r, "leave")
    /\ Refuse(r, "interrupted")

Kill(r) ==
    /\ ~Ended(r) /\ Trouble
    /\ Goto(r, "killed") /\ Forget(r)
    /\ UNCHANGED <<request, temp, ran, result, diagnosed, outbox>> /\ KeepWorld
    /\ UNCHANGED <<log, outputs, lock, pruner, undo, clobbered>>

RunStep(r) ==
    \/ Configure(r) \/ Select(r) \/ Digest(r) \/ ResolveInventory(r)
    \/ Status(r) \/ Resolve(r) \/ HeadRevision(r) \/ Decide(r) \/ PrepareEnvironment(r)
    \/ Materialise(r) \/ Spawn(r) \/ Finish(r) \/ PersistOutputs(r)
    \/ PublishToLog(r) \/ PublishToOutbox(r) \/ Leave(r)

-----------------------------------------------------------------------------
(* repository sync: inspect, fetch, check out, inspect again *)

Sync(s, from, then) ==
    /\ Is(s, from) /\ Goto(s, then)
    /\ UNCHANGED <<request, seen, temp, ran, result, diagnosed, outbox>> /\ KeepHistory

\* Others' view of the workspace is no longer what it was.
Disturbs ==
    disturbed' = [r \in Runs |-> disturbed[r] \/
        (~Ended(r) /\ (ran[r] = None \/ Op(r) = "syntax"))]

\* require_clean_worktree; what the revision resolves to is not compared yet.
InspectForSync(s) ==
    /\ Is(s, "idle")
    /\ Trouble
    /\ IF Dirty THEN Stop(s, "refused") ELSE Goto(s, "fetch") /\ UNCHANGED result
    /\ UNCHANGED <<request, seen, temp, ran, diagnosed, outbox>> /\ KeepWorld
    /\ UNCHANGED <<log, outputs, lock, pruner, undo, clobbered>>

Fetch(s) ==
    /\ Sync(s, "fetch", "checkout")
    /\ ref' \in Versions /\ UNCHANGED <<playbook, inventory, head>> /\ Disturbs

\* git keeps local changes, and refuses a checkout that would overwrite them.
Checkout(s) ==
    \/ /\ ~Dirty
       /\ Sync(s, "checkout", "resolve")
       /\ head' = ref /\ playbook' = ref /\ UNCHANGED <<inventory, ref>> /\ Disturbs
    \/ /\ Is(s, "checkout") /\ Dirty
       /\ IF ref = head THEN Advance(s, "resolve") ELSE Refuse(s, "refused")

\* require_checked_out_revision of a second inspection.
InspectAgain(s) ==
    \/ Is(s, "resolve") /\ Gather(s, "resolved", ref, "head")
    \/ /\ Is(s, "head")
       /\ IF head = seen[s].resolved THEN Gather(s, "head", head, "leave")
          ELSE Refuse(s, "refused")

SyncStep(s) ==
    InspectForSync(s) \/ Fetch(s) \/ Checkout(s) \/ InspectAgain(s) \/ Leave(s)

-----------------------------------------------------------------------------
(* Others *)

EditPlaybook ==
    /\ playbook' \in (Versions \cup {None}) \ {playbook}
    /\ UNCHANGED <<inventory, head, ref>>

EditInventory ==
    /\ inventory' \in Versions \ {inventory}
    /\ UNCHANGED <<playbook, head, ref>>

\* A commit moves HEAD, and the requested revision when that is the branch.
CommitEdit ==
    /\ Dirty /\ playbook # None
    /\ head' = playbook /\ ref' \in {ref, playbook}
    /\ UNCHANGED <<playbook, inventory>>

Others ==
    /\ EditPlaybook \/ EditInventory \/ CommitEdit
    /\ Disturbs /\ Trouble
    /\ UNCHANGED <<command, outbox>>
    /\ UNCHANGED <<log, outputs, lock, pruner, undo, clobbered>>

-----------------------------------------------------------------------------

Init ==
    /\ HistoryInit
    /\ playbook = 0 /\ inventory = 0 /\ head = 0 /\ ref = 0
    /\ step = [c \in Runs \cup Syncs |-> IF c \in ToSet(Earlier) THEN "done" ELSE "idle"]
    /\ request = [r \in Runs |-> None]
    /\ seen = [c \in Runs \cup Syncs |-> Nothing]
    /\ temp = [c \in Runs \cup Syncs |-> None]
    /\ ran = [r \in Runs |-> None]
    /\ result = [c \in Runs \cup Syncs |-> "none"]
    /\ outbox = {} /\ diagnosed = [r \in Runs |-> {}]
    /\ disturbed = [r \in Runs |-> FALSE]

CommandNext ==
    \/ \E r \in Runs :
          (\E q \in Asked[r] : Start(r, q)) \/ RunStep(r) \/ GitFails(r) \/ Interrupt(r) \/ Kill(r)
    \/ \E s \in Syncs : SyncStep(s)

Next ==
    \/ CommandNext \/ Others
    \/ HistoryNext /\ UNCHANGED <<world, command, outbox, disturbed>>

Spec == Init /\ [][Next]_vars

\* Ansible is killed at its timeout, so a run goes on from every point; so
\* does a prune, and the kernel gives a free lock to one that waits for it.
FairSpec ==
    /\ Spec
    /\ \A r \in Runs \ ToSet(Earlier) : WF_vars(RunStep(r))
    /\ \A p \in Pruners : WF_vars(PruneStep(p) /\ UNCHANGED <<world, command, outbox, disturbed>>)

-----------------------------------------------------------------------------
(* Properties *)

\* The evidence a command reports is about what Ansible ran with: always for
\* the inventory, which Ansible reads from a private copy; for the playbook
\* and the commit as long as nobody changes the workspace meanwhile.  Then an
\* apply under enforcement ran exactly the commit it names, with a host limit.
EvidenceMatchesRun ==
    \A r \in Runs : ran[r] # None =>
        /\ Op(r) # "syntax" => ran[r].inventory = seen[r].inventory
        /\ ~disturbed[r] /\ seen[r].digest # None => ran[r].playbook = seen[r].digest
        /\ ~disturbed[r] /\ Applies(r) /\ request[r].enforcement = "deny" =>
               request[r].limited /\ ran[r].playbook = seen[r].resolved

\* A result that is reported was published: the outbox got the event, or its
\* own failure is a diagnostic, whatever happened to the event log.
ResultsPublished ==
    \A r \in Runs : Is(r, "done") /\ result[r] = "classified" =>
        r \in outbox \/ "outbox" \in diagnosed[r]

\* The materialised inventory holds the variables of every host.  A command
\* that ends, denied, failed, interrupted or not, leaves none behind.
InventoryRemoved == \A r \in Runs : step[r] \in {"idle", "done"} => temp[r] = None

\* A command ends: it never waits for ever for the event log's lock, though
\* those who hold it fail or are killed.
EveryCommandEnds == \A r \in Runs \ ToSet(Earlier) : ~Ended(r) ~> Ended(r)
=============================================================================
