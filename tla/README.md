# ansiblectl in TLA+

This directory models ansiblectl as a system of processes: the durable event
outbox and its delivery runner with the adapters it calls, the filesystem
transactions, the workspace event archive, the execution of playbooks with its
history, the files a workspace begins with, the dashboard's terminal, and the
command line that reports on all of it. TLC checks each model on small
instances; TLAPS proves their safety properties and refinements for every value of
the constants. What must happen in the end is checked by TLC only.

Paths below are relative to `src/ansiblectl/` in the repository.

## 1. The system

ansiblectl is a command-line program. Every command is a process of its own; no
daemon exists. Processes meet only in the workspace directory: in one SQLite
database, in files changed by journalled transactions, in advisory locks
(`flock`), in the archive directory and in the worktree. So the interleavings that
matter are those of *processes*, the failures are calls that raise `OSError`, processes
that are killed, leases that run out and clocks that were read too early.

| Component | State | Operations | Talks to |
|---|---|---|---|
| Durable event outbox (`infrastructure/event_outbox.py`) | SQLite: events, sequence counter, one row per consumer (cursor, claim, attempts, next attempt) | append, register, claim, acknowledge, record failure, retry, abandon, retain, inspect | runner, operators, event bus |
| Event delivery runner (`application/event_delivery.py`) | local: time read, claim held, deliveries left | run, step | outbox, one adapter |
| Event archive adapter (`infrastructure/event_archive_delivery.py`) | files under two kinds of names | deliver | runner (as its adapter) |
| Unix socket adapter (`infrastructure/unix_socket_delivery.py`) | a connection and a deadline | deliver | runner, a receiver |
| Webhook adapter (`infrastructure/webhook_delivery.py`, transport) | a connection | deliver | runner, a server |
| Filesystem transactions (`infrastructure/transactional_filesystem.py`) | journal directory per transaction, owner lock, control lock, target files | begin, stage, commit, rollback, pending, recover | history, workspace state |
| Playbook execution (`application/run.py`, `execution.py`, `playbook.py`) | evidence, a private inventory file, a result | run, preflight, syntax check, inventory validation | repository, policy, `ansible-playbook`, event bus |
| Execution history (`infrastructure/execution_history.py`, `json_logging.py`) | log file, output directories | append, list, prune | filesystem transactions |
| Workspace, workspace state | metadata file, state cache | init, load, invalidate, preview | outbox, filesystem transactions |
| Repository (`application/repository.py`) | a Git worktree | inspect, sync | `git` |
| Events (`domain/events.py`) | subscribers | publish | history, outbox |
| Policy | none | evaluate | execution |
| Dashboard (`cli/dashboard_terminal.py`) | terminal mode, signal handlers, wake pipe, snapshot, selection | session, restoration | history, outbox |
| Command line (`cli/main.py`, `boundary.py`, ...) | captured output, exit code | one invocation | every service |
| Plugins | loaded plugins | load, shutdown (no command calls them) | none |
| Inventory, configuration, secrets | none that lasts | parse, merge, look up | execution |

`PROJECT.json` lists every component with its sources and its status, and the
hazards of the code line by line.

What makes each one correct:

- **Outbox and runner**: per consumer, events are delivered in order and at
  least once; a claim fences late reporters out; retries are counted and end;
  an exhausted event waits for an operator and can always be recovered;
  abandonment is audited in the same transaction; retention takes nothing that
  is still needed; every event is settled in the end.
- **Transactions**: all of the changes or none, seen through recovery, wherever
  a process dies; recovery can be repeated and is serialised with commits.
- **Archive**: under a final name there is never anything but the whole event;
  what is there stays; staging files do not pile up; a retry repairs what a
  killed attempt left.
- **Unix socket and webhook**: success is reported only on the acknowledgement
  of the very event sent; nothing is sent to a peer that was not checked; an
  exchange over the socket ends by its deadline.
- **Execution**: the evidence reported is about what Ansible ran with; a result is
  published whatever subscriber fails; no command leaves its inventory behind.
- **History, workspace**: a record never names outputs that are gone; only retention
  removes a record; a database that is opened is complete; no command undoes another.
- **Dashboard**: the terminal is restored on every way out; no interrupt is lost;
  the selection is visible.
- **Command line**: exit code and report agree with what became of the operation.

## 2. What is modelled

### EventOutbox: the outbox and its runner

Every store method is one `BEGIN IMMEDIATE` transaction, hence one action. The
runner is cut where it leaves the database: `ReadClock`, `ClaimNext` (or
`ClaimNothing`, `ClaimRefused`), `AdapterDelivers` or `AdapterFails`,
`Acknowledge`, `RecordFailure` or `ReportStale`. Between any two of these other
processes act, time passes (`Tick`) and the process may die (`Crash`). The time
read at the start of a step is kept in `worker[w].time` and used for the lease
and for the retry time, as `step` does with `now`. Operators act at any moment:
`RegisterConsumer`, `Retry`, `Abandon`, `Retain`.

| Code | Model |
|---|---|
| table `events` | `events`, a function on the retained sequences |
| table `sequence_state` | `lastSequence` |
| table `consumers` | `registered`, `consumers` (`next`, `claim`, `attempts`, `due`, `failed`) |
| claim tokens (fresh ULIDs) | members of `Tokens` that no row or process knows |
| local variables of `run` and `step` | `worker` |
| NULL | 0 (`NoToken` for tokens) |

`published`, `trimmed`, `start`, `base`, `accepted` and `abandoned` are
observers: no guard reads them.

A payload is reduced to the consumer and sequence an audit event names. A
consumer's configuration digest, the failure text and time zones are left out.
How `_connect` creates and upgrades the file is WorkspaceFiles; this model starts
from an empty, valid schema.

**OrderedDelivery** is the abstract specification of ADR-0040 and TS-0023: a
log, one cursor per consumer, and three reasons for anything to change. It has no
leases, tokens, clocks, or processes. `DeliversInOrder` states that EventOutbox
implements it under the mapping at the end of `EventOutbox.tla`.

**OutboxProgress** adds fairness and, because a finite clock would stop,
`TranslateClock`: when the clock reaches `MaxTime`, every time in the state
moves one back. The code only compares times with each other, so nothing it does
can tell. Deadlines clipped at 1 have passed for every reading still in use.

### FsTransaction: journalled transactions

A step ends where the code has made something durable: the directory, the owner
lock, each `_persist`, each replacement or removal of a target. A process may be
killed between any two (`Crash`) and then loses its memory and, since the kernel
drops `flock`s, its locks. An `OSError` in the body of `commit` starts the
rollback (`CommitFault`), one in rollback or cleanup ends the command
(`UndoFault`). `_cleanup` removes the journal before the directory
(`RemoveJournal`, `RemoveDirectory`), because `rmtree` does. Recovery is
`Preview` (the service previews first), `StartRecovery`, then per directory
`SkipActive`, `LoadInactive` or `LoadRefused`, and `EndRecovery`.

| Code | Model |
|---|---|
| target files | `target`; a content is named by the transaction that wrote it |
| `transactions/<id>/` | `dir` |
| `journal.json` | `journal` |
| `active.lock` | `owner` |
| the control lock | `control` (exclusive holder; a preview is one step) |
| the transaction object, recovery's loop | `proc` |

`staged`, `fate`, `overlapped` and `withdrawn` are observers. Path checks, symbolic links, modes, fsync
ordering on power loss and the diagnostics are left out. `rollback()` called on
an open transaction has no caller and is left out.

**AtomicFiles** is the abstract specification: staged changes that take effect
in one step or never. `TransactionsAtomic` says FsTransaction implements it, where
the abstract files are `Recovered`: what a reader would find if everybody died
now and recovery ran. Transactions may share files, and nothing is assumed of the
operator or of the calls that fail. The code then breaks the promise in two ways (see
"What the runs leave open"), and the model takes both: a transaction commits to a file
that an interrupted one is still to put back (`overlapped`), or a call fails after the
`committed` journal is durable and the rollback takes the commit back (`withdrawn`).
`Lost` are the files this happens to: the file overlapped, and those the withdrawn
transaction staged. AtomicFiles has a set of lost files for it, of whose contents nothing
is promised from then on; every other file, also of the same transactions, keeps the
promise. `LockControl` and `CommitFault` record the two and no guard reads them.

### ArchiveInstall: one immutable file per event

Each action is one system call of `deliver`, `_install_or_verify`,
`_verify_existing`, `_remove_matching_staging_link` or the `finally` block.
Attempts of several processes interleave between calls; a call fails (`Fault`), a
process is killed (`Crash`), the machine loses power (`PowerLoss`): names then
fall back, each on its own, to what was last synced, and unsynced bytes are
lost. `final` and `stage` are the names as processes see them, `synced` as the
disk holds them. The chain of four private directories is one (`home`), with
the fact that only its creator syncs its parent. Ownership and mode checks,
sizes and the encoding are left out: bytes are named by the event they encode.

### DeliveryCall, UnixSocketExchange, WebhookAttempt: the adapters that talk

**DeliveryCall** is what the runner relies on when it calls an adapter: a success
means that a receiver has acknowledged this event, a code of a check made before
the transport means that nobody has seen it, and anything else says nothing.
**DeliveryAdapters** states (`KeepsPromise`) that both adapters implement it.

**UnixSocketExchange** follows `deliver`: inspect the file, set the deadline,
connect by name, check the peer's credentials, inspect again, send header and
body, look for an early answer, shut down, read the acknowledgement and then the
end of the stream. Only blocking calls take time (`Pass`), each at most what
`_set_remaining_timeout` leaves. The receiver is proper (it acknowledges what it
has read to the end) or anything at all; the name may come to refer to another
file at any moment.

**WebhookAttempt** follows `HttpsWebhookDeliveryAdapter.deliver` and the bound
transport: the checks in their order, resolution with the policy on every
address, the candidates one after the other, and the classes of a status. The
name service answers differently whenever it is asked (`Rebind`). The endpoints are
those the six schema versions can define.

### ExecutionRun and ExecutionHistory: running Ansible and remembering it

**ExecutionRun** has one action per step of a command: the sequences `RunPath`,
`SyntaxPath` and `InventoryPath` are the calls of `_prepare`, `_run`,
`PlaybookValidationService.validate` and `InventoryValidationService.validate`, in
their order. A step adds to the evidence (`seen`), refuses, or goes on; whatever
ends a command passes through `leave`, where the context manager of
`materialize_inventory` removes the file. `ran` is what Ansible found when it
started. Between steps people edit, commit and remove the playbook (`Others`),
and `repository sync` is a process that inspects, fetches, checks out and inspects
again. `disturbed` is an observer: somebody changed the workspace between a command's
start and Ansible's.

**ExecutionHistory** is the log that `JsonLinesLogSink` appends to and `prune`
rewrites. A line is a record or the torn rest of a short write. A prune takes the
lock, reads, makes backup and intent durable, replaces, commits, and removes output
directories one by one; killed after the intent and before the commit it leaves
`undo`, which `Recover` puts back, without `events.lock`, as the code does. So a prune
killed with its intent durable and the log untouched leaves a backup, too, and a
second prune may go on from the very log it holds. ExecutionRun extends it: the first subscriber of a result is the log,
the second the outbox.

### WorkspaceFiles: the files a workspace begins with

A process runs one command: `workspace init`, an event command, `state invalidate`
or `state recover`. Initialisation, `_connect` (create the file, run the schema script,
check the version of a file that was there, upgrade) and `invalidate` are cut at each
call after which a kill leaves something behind, the durable intent of `invalidate`'s
transaction before its replacement included; the statements of a script commit one by
one. A database is the set of its parts, so that files of earlier
releases and files cut short are values like any other.

### CommandLine and DashboardTerminal: what the user sees

**CommandLine** is one invocation. `Begin` and `Parse` refuse, `Serve` is the branch of
`main()`: the service returns one of `Results(command)`, raises one of
`Errors(command)`, fails unexpectedly or is interrupted. `Report` captures what was
printed, reads it back when the format is a machine's (`RenderBuffered`) and ends
with an exit code and a list of documents on stdout. `InterruptReport` is an interrupt while
that is written. `truth`, `mutated` and `interrupted` are observers of what really happened.

**DashboardTerminal** is the session that the command `dashboard` runs. `signals` are
the handlers in place and remembered, the wakeup pipe and the flag; `tty` the
terminal's mode, screen and height; `cleanup` the marks `restore` goes by. A signal
comes between any two actions, its effect depends on the handler in place then,
and `KeyboardInterrupt` may skip a part of the restoration (`Raised`). A snapshot is
a number of rows per table, and a frame the rows it shows.

## 3. The runs

A run whose result is *violation* shows where the code does something else than
a sentence of its docs or a test says; the finding in `PROJECT.json` quotes it.

| Run | Instance | Result and what it shows |
|---|---|---|
| `outbox_workers` | 1 consumer, 2 processes, 3 tokens, 3 events, clock 1..5, 2 attempts, lease 2, 1 kill | pass: order, fencing and retry bookkeeping hold when both processes work with stale clock readings and leases run out |
| `outbox_consumers` | 2 consumers registered at 1, 2 or 4, 1 process, 3 events (audits included), 1 attempt | pass: sequences, audits, retention; the outbox implements OrderedDelivery |
| `outbox_runners` | 2 processes, one restarted for ever, 2 events, lease 2, 1 kill | pass: every event is settled; only a second process and a delivery that outlasts its lease can prevent it |
| `fs_shared_file` | 2 processes, 2 transactions, one file of both and one of the first's own, 2 operations, 1 `OSError` anywhere, late ones included, 2 kills, recovery before or after the other's commit | pass: atomicity as a refinement of AtomicFiles, one worker at a time, committed content kept; for each file until it is `Lost` |
| `fs_recovery` | 2 processes, 2 transactions, 1 operation, 1 `OSError` anywhere, late ones included, 2 kills, fairness | pass: what was interrupted is recovered, though recovery is interrupted too, unless an unreadable journal blocks it |
| `archive_race` | 2 processes on one event, 4 files, 1 fault, 1 kill, 1 power loss | pass: no partial, replaced or forgotten file; no staging file left or taken from another |
| `archive_retry` | 2 processes, 2 events of which one name is taken, 4 files, 1 kill, fairness | pass: every event whose name is free is archived in the end |
| `execution_runs` | 1 command of each of 6 kinds, 1 prune, 1 sync, 2 records, 2 kills, failures or changes, fairness | pass: evidence is about what ran, results are published, records keep their outputs, inventories go, commands end |
| `command_line` | every command, every way to choose a format; sessions with 2 signals and 1 failure or hang-up, fairness | pass: exit code, documents and terminal agree with what happened; an interrupt ends a session |
| `command_line_explicit` | the same, no session | violation of `SuccessReported`: an explicit `--output-format=human` loses to `ANSIBLECTL_OUTPUT=json`, and a success is reported as an internal error |
| `delivery_adapters` | 3 sockets and none, 2 replacements, frame of 3, deadline 2; 4 addresses, 2 changes, every endpoint and status class | pass: both adapters report what is true, in time, and talk only to a peer they checked |
| `workspace_files` | 3 commands, 2 cache entries, 2 kills or failures, files of earlier releases | pass: an opened database is complete, no command undoes another |

Deadlock is checked in every run whose environment can always start another
command: there a deadlock would be a process that waits for ever. It is off
where every command runs once and the instance ends (`execution_runs`,
`command_line`, `delivery_adapters`, `workspace_files`); that nobody waits for ever
is then `EveryCommandEnds`, `InterruptEnds` and `OverByDeadline`.

### Why the bounds suffice

- *Two processes* per component: every conflict in the code is about one row,
  one lock or one name, and compares a holder with one contender. WorkspaceFiles has
  three, so that a recovery meets a reader and a killed writer.
- *Three sequences*: one settled, one at the cursor, one behind it; the third
  lets retention empty the table and allocation go on.
- *`RetryDelays` `<<1, 2>>`, two attempts*: a delay, the last delay that repeats,
  and exhaustion. *Lease 2* is longer than one tick, so a lease can be held,
  expire unnoticed, and be taken over.
- *Two operations per transaction*: the least at which half is possible. *One
  shared file*, there or not at first: the second transaction's backup is then what the
  first one wrote, or what its rollback restored. *Two kills*: the writer's, and then
  that of its recovery.
- *Four files* in the archive: one installed, one being staged by each process,
  one left by a kill.
- *One execution beside a history of two* and a prune that keeps one: a record goes
  and one stays, before and after the new one is appended. `Asked` gives the command
  every path once: confirmed and unconfirmed, with and without a limit, denied,
  preflight, and both validations.
- *Two troubles*: a kill and then what meets its remains, or a change on each
  side of a check. *Two signals*: one that ends the loop, one during the restoration.
- *Heights 23 and 24*: too low for panels, and the lowest that shows them; seven rows
  are more than a panel has lines then.
- *Body 2, acknowledgement 2*: the least of which a part is possible; *deadline 2*:
  a call may use half of it.
- `MaxSequence`, `MaxTime`, `MaxCrashes`, `MaxOps`, `MaxFaults`, `MaxLosses`,
  `MaxTrouble`, `MaxVersion`, `MaxSignals`, `MaxReplacements` and `MaxChanges` only
  bound the exploration. What is proved holds whatever their values.

Symmetry is used for processes, tokens, entries and files in runs without liveness only.

### Fairness

- *Outbox.* `WF(StepForward)`: a runner goes on from every point of a step,
  because each adapter bounds its exchange by a timeout. `WF` on starting a run
  again, for `Runners` only: ADR-0041 leaves running delivery to the caller, and
  an event that nobody delivers is not delivered. `WF(Tick)`: time passes. One
  restriction is an assumption about operators: `PatientNext`. An operator who
  retries a merely delayed event for ever resets its attempts each time.
- *Transactions.* `WF(Work)`: a command goes on while it can. `SF` on `Preview`
  and `StartRecovery`: the operator tries again, though others take the lock in
  between.
- *Archive.* `WF(Work)` and `SF(Begin)` per event: the delivery runner tries an
  event again until it is archived.
- *Execution.* `WF(RunStep)`: Ansible is killed at its timeout, and no other call of a
  command waits for anyone but the lock of the log. `WF(PruneStep)`: a prune goes on, so
  that lock becomes free and stays free until the one waiting process has it.
- *Dashboard.* `WF` on the steps that do not wait for the user: the interpreter
  goes on. Keys and signals are not fair: nobody need press anything.

### What the runs leave open

Each item is behaviour of the code that a property excepts or a bound leaves out.

*Outbox.*
- A consumer registered below the retained prefix (`register_consumer` accepts any
  start) is reported pending and is never offered anything (event_outbox.py:214;
  TS-0023:50). `NeededEventsRetained` covers the others.
- Calls whose process died before its report are not counted, so an adapter may be
  called more often than `max_attempts` says (event_outbox.py:298; TS-0023:65).
- `event retention --apply` with nothing to remove reports `changed: true`
  (event_outbox.py:549, main.py:420); `ChangedIsTrue` excepts retention.

*Adapters.*
- A webhook attempt has timeouts per connection and per read but no deadline for
  the whole, while its lease is 30 s; `OverByDeadline` is about the socket.
- An answer that comes between the last look for an early answer and the last
  piece of the body is accepted (unix_socket_delivery.py:218; TS-0034 says
  otherwise). A socket file renamed away and back escapes the second inspection;
  `OnlyVerifiedPeers` allows for it from the second replacement on.

*Transactions.*
- An `OSError` of the directory sync after the durable `committed` journal starts a
  rollback (transactional_filesystem.py:226); if that is killed, half of the changes
  are left and a journal that says committed, against ADR-0036:57. Both runs reach it;
  the files of such a transaction are `Lost`. Without that exception (`Lost` as
  `overlapped` alone) TLC finds `CommittedContentKept` violated.
- A process killed during `rmtree` of a finished transaction leaves a directory without a
  journal, on which every recovery fails (transactional_filesystem.py:373;
  TS-0021:29). `EventuallyRecovered` excepts what that blocks.
- Nothing keeps a new transaction off a file that an interrupted one has changed.
  The rollback of the older then puts its backup over newer content: a record appended
  since, or an invalidation that was reported. `state recover` takes neither
  `events.lock` nor the state lock, so it may also come between a live command's
  reading and writing. In FsTransaction that file is `Lost` from the later commit on:
  without that exception (`Lost` as the files of `withdrawn` alone) TLC finds
  `TransactionsAtomic` violated. ExecutionHistory and WorkspaceFiles reach it, mark it
  `clobbered` and except it.
- A preview or recovery that comes between the creation of a transaction's
  directory and its owner lock is refused because it finds no journal
  (`PreviewRefused`, `LoadRefused`). Nothing is lost: it can be repeated.
- `invalidate()` converts `OSError` only; a failed transaction leaves it as
  `FilesystemTransactionError` (workspace_state.py:85).

*Archive.*
- A contender that sees the second link, and lists the staging names when it is gone,
  fails although nothing went wrong (event_archive_delivery.py:228). Its retry succeeds.
- `QuietIsDurable` excludes killed processes. A replay accepts a file without
  syncing its directory, so if the attempt that linked it was killed before its
  own sync, a power loss can still take an acknowledged file.

*Workspace.*
- `workspace init` killed or failing between the directory and its metadata leaves a
  directory that every later init refuses (local_workspace_store.py:51; TS-0002:5).
  Of two inits that race, the loser may fail though the workspace then exists.
- A database whose creation was cut short is refused by every later command as
  unsupported.

*Execution.*
- If anybody changes the playbook after it was digested, Ansible runs another one than
  the evidence names (`disturbed`): the file is not copied, unlike the inventory.
- Output that is not in the locale's encoding, or an interrupt, leaves a run that took
  place without a record (local_execution.py:47). A torn line makes the whole
  history unreadable until someone repairs it (json_logging.py:35).
- A kill leaves the materialised inventory behind; `InventoryRemoved` is about commands
  that end.

*Command line and dashboard.*
- An interrupt while a machine report is written leaves two documents on stdout
  (main.py:268-279); `ReportAgrees` is about the last.
- A cancelled inventory or syntax validation exits with 5, not 130.
- SIGHUP, SIGQUIT and SIGSTOP are not handled and leave the terminal raw; the model has
  the three signals that are.

## 4. The proofs

### The outbox

`EventOutboxProofs.tla` proves, for every number of consumers, processes, tokens
and events and every profile that `DeliveryRetryProfile` accepts:

| Theorem | Statement |
|---|---|
| `TypeCorrect` | `Spec => []TypeOK` |
| `SequencesNeverReused` | `Spec => []SequenceIntegrity` |
| `ClaimsConsistent` | `Spec => []ClaimBookkeeping` |
| `NothingSkipped` | `Spec => []NoEventSkipped` |
| `NothingOvertakes` | `Spec => []FirstDeliveryInOrder` |
| `RetriesAccounted` | `Spec => []RetryAccounting` |
| `ExhaustedRecoverable` | `Spec => []ExhaustedIsRecoverable` |
| `ExhaustedWaits` | `Spec => ExhaustedWaitsForOperator` |
| `LeasesProtect` | `Spec => []LeaseProtects` |
| `RetentionSafe` | `Spec => []NeededEventsRetained` |
| `AbandonmentsAudited` | `Spec => []AbandonmentAudited` |
| `Refines` | `Spec => DeliversInOrder` |

*Assumptions.* `ProfileAssumption` (what `DeliveryRetryProfile.__post_init__` and
`_validate_sequence` enforce), `NamesAssumption` (the stand-ins for NULL are not
tokens or consumers), `BoundsAssumption` (the bounds are naturals). TLC evaluates
them in every outbox run.

*The argument.* `TypeOK` is inductive. `SequenceIntegrity` is inductive on top
of it: `InsertKeepsIntegrity` covers the two operations that append, and the
rest leave the log alone. Most of what remains needs to know what a process may
still do with a claim it has lost. That is `ClaimBookkeeping`, the
strengthening found with TLC (it is an invariant of `outbox_workers`):

- `RowsConsistent`: a claim is on the row's cursor, and an event someone works on
  or is blocked on is stored;
- `ProcessesConsistent`: a process works on an event at or behind the cursor, and
  only reports deliveries it has made;
- `TokensUnique`: one token is one claim, whoever knows it.

Without `TokensUnique` a late `Acknowledge` could match a row that was claimed
again, and without `ProcessesConsistent` a stale one could accept an event ahead of
the cursor. The lemmas split the work by actor: `StepCases` names the actions once,
`RowStep`, `ProcessStep` and `HistoryStep` say how a step can change one row, one
process or the observers, `RowCases` and `CursorStep` reduce the row's changes to
seven forms. Each later theorem only looks at those forms. `LeaseKept` adds that a
lease not yet run out is the one in the row. `Refines` maps each form to a step
of OrderedDelivery or to a stutter (`StepRefines`).

### The transactions

`FsTransactionProofs.tla` proves, for every set of processes, transactions and
files, every `Footprint` (shared files included) and every bound:

| Theorem | Statement |
|---|---|
| `TypeCorrect` | `Spec => [](TypeOK /\ Indices)` |
| `OneAtATime` | `Spec => []OneWorker` |
| `JournalsTellTheTruth` | `Spec => []Truth` |
| `TransactionsAreAtomic` | `Spec => TransactionsAtomic` |
| `CommittedIsKept` | `Spec => CommittedContentKept` |
| `OwnFilesNeverOverlap` | disjoint footprints: `Spec => [](overlapped = {})` |

*Assumptions.* `FsAssumption` (each transaction has a set of files, `NoProc`, `NoTxn`,
`Absent` and `Original` are none of what they stand beside, the bounds are
naturals) and `BackupAssumption` (a backup is told from no backup), evaluated by TLC in
every transaction run. Nothing else is assumed: kills and failing calls come at every
step, after the durable `committed` journal and in recoveries too, and operators recover
when they like. What the code then cannot promise is in the statements, as the exception
of the files in `Lost`, which the state records and which grows only by the two steps
section 2 names. `OwnFilesNeverOverlap` bounds it: where no two transactions may change
the same file, only a withdrawn commit loses files (`OwnFiles`: neither a journal nor an
object in memory leaves its transaction's files).

*The argument.* `TypeOK` alone is not inductive: a step reads the operation at
`proc[p].at`, so the index must be one of the transaction's operations. `Indices`
says so for every point of `commit` and of the rollback. That a rollback finds an
operation to begin with (`LastAppliedExists`) is the well-foundedness of the
naturals. `OneWorker` needs `Locks`: a process holds the control lock exactly while
it is in a critical section; a process engaged with a transaction holds its owner
lock, except between the creation of the directory and the lock, when the missing
journal keeps recovery away; and no two are engaged with the same one.
`SameLocks` covers the steps that take and drop no lock.

Atomicity needs `Truth`, an invariant TLC also finds true of the run's instance. An
operation is *in doubt* (`InDoubt`) if its journal is there, not committed, and calls it
applied: a recovery would undo it.

- `JournalSays`: a file in doubt and not lost holds what it held before or what its
  transaction puts there, so a rollback repeated after a kill finds what it needs;
- `Unconflicted`: no file that is not lost is in doubt for two transactions, so the order
  in which a recovery takes them does not matter;
- `ProcessKnows`: at each point of `commit` (`Commits`), of the rollback (`Undoes`) and
  before the first journal (`Begins`), the object in memory is the journal, but for the
  one intent whose write may have failed; applied operations show in their files,
  and every file that is written and not lost is unclaimed by others.

Lost files stay lost (`OnlyGrows`), and a withdrawn transaction answers for none of its
files (`WithdrawnLost`), so the rest of the argument need not look at either.

`LocalStep`, `QuietTxn` and `CriticalStep` say of a step what it leaves of this alone: a
step of one process, on one transaction, in its critical section. For the refinement
`Finds(f, v)` says what a recovery finds of a file without choosing an order, and
`FindsOne` that it finds one value, `Recovered[f]`. `StepEffect` then has four cases: a
step that hides (`FindsTheSame`), staging, the end of a rollback, and the commit, at
which every file that is not lost is found with what was staged (`FindsStaged`). `EffectIsAtomic` maps them to
steps of AtomicFiles. `CommittedIsKept` is `RestoreSpares`: what a rollback restores to a
file that holds committed content, and is not lost, is that content.

### The archive

`ArchiveInstallProofs.tla` proves, for every set of processes, events and files and
every number of failed calls, kills and power losses:

| Theorem | Statement |
|---|---|
| `OwnershipKept` | `Spec => [](TypeOK /\ Indices /\ Ownership)` |
| `NothingPartial` | `Spec => []NoPartialFile` |
| `StagingKept` | `Spec => []LiveStagingKept` |
| `InstalledStays` | `Spec => InstalledForGood` |
| `StagingIsRemoved` | `Spec => []StagingRemoved` |
| `QuietArchiveIsDurable` | `Spec => []QuietIsDurable` |

*Assumption.* `ArchiveAssumption` (the events are finitely many, the stand-ins for
"no file", "no event" and a file of someone else are none of the real ones, the
bounds are naturals), evaluated by TLC in every archive run.

*The argument.* `NoPartialFile` is not inductive: the file an attempt is about to
link must be whole before the link, and nobody may still write to what is linked.
`Ownership` says that a final name, in memory and on the disk, is a whole file of its
event whose bytes are synced; that a file being staged keeps its staging name, has no
final name and is no other attempt's; and that a repair looks at the file under its
own event's name. So `link` can only give a final name to a whole file, a write can
only reach a file without one, a power loss finds only synced bytes under the
names it brings back, and the repair, which removes a second link of its target,
cannot meet a file being staged. `NothingInstalled` covers all the steps that stage
and install nothing.

`StagingRemoved` counts, so it needs the books (`Books`): a file is remembered exactly
by the attempt between creating it and removing its staging name (`Remembered`), and the
staging names that nobody remembers are at most as many as the kills (`Counted`, with the
cardinality theorems for finite sets). `QuietIsDurable` needs the duties (`Duties`): a final
name the disk has not got belongs to an attempt that has still to sync the directory
(`Obliged`), and a directory its parent has not got to its creator (`HomeKept`).
`OrdinaryCall` covers the calls that neither give names nor fail.

### The adapters

`DeliveryAdaptersProofs.tla` proves, for any sockets, addresses and policies, every
deadline and body, and any number of replacements and changes of the name:

| Theorem | Statement |
|---|---|
| `CallsAreSafe` | `Spec => []IInv` |
| `EventsGoToVerifiedPeers` | `Spec => []OnlyVerifiedPeers` |
| `ExchangesEndInTime` | `Spec => []OverByDeadline` |
| `AdaptersKeepPromise` | `Spec => KeepsPromise` |

*Assumptions.* `SocketAssumption` (the sockets that pass the inspections are sockets, body and
deadline are positive) and `WebhookAssumption` (every address is of a kind).

*The argument.* `SocketInv` follows the exchange: until the name has changed it refers to the
file inspected, after one change to another, so that only a second change can deceive
the second inspection (`Inspected`); a blocking call ends by the deadline (`InTime`); what was read is a
prefix of what the receiver answered, and only a complete send is followed by a
read (`Exchanged`). So the acknowledgement and the end of the stream after it are all the
receiver ever said. `WebhookInv` says that what the policy has allowed is what is
connected to, for every candidate of one resolution. The refinement maps each step to one
of DeliveryCall or to a stutter (`SocketStepKeepsPromise`, `WebhookStepKeepsPromise`);
`PreTransportCodes` computes the codes of the early checks, which no later step reports.

### The workspace files

`WorkspaceFilesProofs.tla` proves, for any processes and entries, and any number of kills
and failures:

| Theorem | Statement |
|---|---|
| `WorkspaceInvariant` | `Spec => []IInv` |
| `OpenedDatabasesAreComplete` | `Spec => []OpenedIsComplete` |
| `CommandsKeepChanges` | `Spec => ChangesKept` |

*Assumptions.* `WorkspaceAssumption` (no process is called `NoProc`, the bound is a natural) and
`NoFileAssumption` (no database is the absence of a file).

*The argument.* A file has its version row only if the whole script ran (`Sound`), and a
process in the script or the upgrade has executed the statements before the one it is at
(`Opening`), so an upgrade only meets files that need no more than it adds. One lemma each
(`ScriptStatement`, `UpgradeStatement`) says what a statement adds. For the cache, backups are
ordered: each holds what is there now, and a replacement's is within those of killed ones
before it (`BackedUp`). A recovery therefore puts back entries and removes none.

### Execution and its history

`ExecutionRunProofs.tla` and `ExecutionHistoryProofs.tla` prove, for any number of commands,
syncs, prunes and versions of the workspace, with others changing it at any moment:

| Theorem | Statement |
|---|---|
| `RunInvariant` | `Spec => []IInv` |
| `EvidenceIsAboutTheRun` | `Spec => []EvidenceMatchesRun` |
| `ReportedIsPublished` | `Spec => []ResultsPublished` |
| `NoInventoryStays` | `Spec => []InventoryRemoved` |
| `HistoryInvariant` | `Spec => [](IInv /\ HistoryInv)` |
| `RecordsHaveTheirOutputs` | `Spec => []ReferencesResolve` |
| `RecordsAreKept` | `Spec => RecordsKept` |

*Assumptions.* `RunAssumption` (`None` is no version, truth value or record; commands and syncs
are different processes), `HistoryAssumption` (the log begins with records of different
executions) and `NoUndoAssumption` (no backup is `NoUndo`).

*The argument.* A command is where its path says (`OnPath`), and the path is data, so
`RunPathFollows` and its companions compute the step after each one. `StillTrue` is the heart of the
evidence: from each gathering step to the start, what was gathered is so still unless
`disturbed` is set, and `RanWith` carries that over to what Ansible found. The inventory needs no
such condition: it is a private copy (`PrivateInventory`). For the history, `Sound` says that an
execution has one line (`OneLineEach`), none before it is logged (`Fresh`), that no line is about
outputs that are gone (`AllAlive`), and what a prune that has read, replaced or been killed
holds. The hard part is `CanBeUndone`: several killed prunes may leave backups, recovered
in any order, and a backup must not bring back a line whose outputs another has removed since. A
prune killed between its intent and the replacement leaves a backup of a log that is still in
use; `undo` therefore remembers what the log held when the prune last touched it, and a recovery
that finds another one is `clobbered`, which ends what is promised. Otherwise it holds because
outputs go only after the commit, when the backup does, and two backups share only lines that
one of the replacements kept. The run has one prune, the theorems any
number.

### The command line and the dashboard

`CommandLineProofs.tla` proves, for every set of invocations, snapshot and height, and any
number of signals and failures:

| Theorem | Statement |
|---|---|
| `CommandInvariant` | `Spec => []CommandInv` |
| `ReportsAgree` | `Spec => []ReportAgrees` |
| `ChangesAreTrue` | `Spec => []ChangedIsTrue` |
| `TerminalIsRestored` | `Spec => []TerminalRestored` |
| `SelectionIsShown` | `Spec => []SelectionShown` |

*Assumptions.* `AskedAssumption` (what is asked are invocations) and `DashboardAssumption` (there is a
snapshot and a height; at most 100 rows, as the queries limit them).

*The argument.* When `main()` has ended, `Pending` ties its result to what became of the
operation; the rendering lemmas (`SuccessAgrees`, `ErrorAgrees`, `TextAgrees`) go from there to the
exit code and the last document, in every format. For the terminal `TerminalHeld` says that raw
mode or the other screen is on only where a part of `restore` that undoes it is still to come,
and `HandlersTaken` that there the session's own handlers are in place, so a signal
leads to `restore` and not past it. `WindowHoldsSelection` is the arithmetic of `window_start`.

### Only model-checked

Liveness everywhere (`EventuallySettled`, `EventuallyRecovered`, `EventuallyArchived`,
`EveryCommandEnds`, `InterruptEnds`): fairness and ENABLED are beyond the prover. OutboxProgress adds no safety property of its own. The violation that
`command_line_explicit` shows is a counterexample and has nothing to prove.

## 5. Plan

Modelled: everything in section 2. Proved: every safety property that a passing run checks
and every refinement, each under the assumptions section 4 names. Open:

1. Outbox: that `TranslateClock` changes nothing a guard can tell, so that the fair instance
   stands for an unbounded clock.
2. That ExecutionHistory's prune and WorkspaceFiles' replacement are transactions of
   FsTransaction, cut to the steps their own properties tell apart.

Left to model, if the code comes to need it: `rollback()` of an open transaction and the
state store's `write()`, which no command calls, and the plugin runtime.

## 6. Not modelled, and why

- *Plugins*: no command constructs `PluginRuntime`, so nothing interleaves with it. `load` and
  `shutdown` are sequential; that `shutdown` stops at the first plugin that raises
  (plugins/runtime.py:49) can be read off its three lines. Manifests, permissions, trust
  and provenance are decided by comparing data read once.
- *Operation identifiers*: one function under a mutex whose state is its process's
  own. EventOutbox takes from it that a token is fresh.
- *Argument grammar, wording, layout, redaction, YAML parsing and merging, configuration
  precedence, secrets look-ups*: functions of their inputs without state that
  changes; tests reach all of it.
- *SQLite and the kernel*: external. A transaction is atomic and durable, `flock`
  is dropped with its process, `link` and `rename` are atomic. The capability probe
  (`infrastructure/filesystem_capabilities.py`) refuses filesystems without them.
- *Signatures, TLS, name resolution, git, Ansible*: external; modelled by the outcomes
  the code tells apart.

## 7. Running it

    tlc -workers 2 -config OutboxWorkers.cfg MCEventOutbox.tla
    tlapm EventOutboxProofs.tla
    tlapm FsTransactionProofs.tla
    tlapm ArchiveInstallProofs.tla
    tlapm DeliveryAdaptersProofs.tla
    tlapm WorkspaceFilesProofs.tla
    tlapm ExecutionRunProofs.tla
    tlapm ExecutionHistoryProofs.tla
    tlapm CommandLineProofs.tla

`PROJECT.json` names the module and configuration of every run, the lines of the
source each definition stands for, and, for each property, a plausible bug
(operators marked *Mutant* in the modules) that the property finds.
