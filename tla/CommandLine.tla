---------------------------- MODULE CommandLine ----------------------------
(***************************************************************************)
(* One invocation of `ansiblectl`: how the output format is chosen, what   *)
(* the command's branch of main() does with the outcome of its service,    *)
(* and how cli() turns that into an exit code and one report.  main()      *)
(* still prints for the older --output-format; cli() captures what it      *)
(* prints and, in a machine format, reads it back into an envelope.  The   *)
(* command `dashboard` runs DashboardTerminal instead.                     *)
(*                                                                         *)
(* Services are nondeterministic: each may return or raise what its branch *)
(* provides for, fail unexpectedly, or be interrupted.                     *)
(***************************************************************************)
EXTENDS DashboardTerminal

CONSTANT Asked      \* the invocations considered

Formats == {"text", "json", "yaml"}
Machine == {"json", "yaml"}
Commands == {"status", "workspace init", "config show", "state show", "state invalidate",
    "state recover", "inventory show", "inventory validate", "repository sync",
    "plugin permissions", "playbook validate", "run", "execution list", "execution prune",
    "event deliver", "event consumer", "event retention", "dashboard"}

\* How --output, --output-format and ANSIBLECTL_OUTPUT are given.  The older
\* option may be two arguments or one, "=human" being "--output-format=human".
Invocations ==
    [command : Commands, output : Formats \cup {"none", "bad"},
     legacy : {"none", "human", "json", "=human", "=json"},
     env : Formats \cup {"none", "bad"},
     syntax : {"right", "wrong", "help"}, interactive : BOOLEAN]

ASSUME AskedAssumption == Asked \subseteq Invocations

VARIABLES
    asked,       \* the invocation
    phase,       \* where cli() is
    main,        \* how main() ended
    stdout,      \* what the process printed on stdout
    code,        \* its exit code
    truth,       \* what became of the operation (history)
    mutated,     \* the operation changed something (history)
    interrupted  \* KeyboardInterrupt was raised (history)

commandVars == <<asked, phase, main, stdout, code, truth, mutated, interrupted>>
vars == <<commandVars, terminalVars>>

-----------------------------------------------------------------------------
(* The output format. *)

RequestedFormat(i) ==
    CASE i.output # "none" -> IF i.output \in Formats THEN i.output ELSE "text"
      [] i.output = "none" /\ i.legacy \in {"json", "=json"} -> "json"
      [] i.output = "none" /\ i.legacy = "human" -> "text"
      [] OTHER -> IF i.env \in Formats THEN i.env ELSE "text"

\* --output decides; the environment is looked at when no option is given.
InvalidOutput(i) ==
    \/ i.output = "bad"
    \/ i.output = "none" /\ i.legacy = "none" /\ i.env = "bad"

\* What main() prints: the older option survives unless --output is there, and
\* a machine format adds it when it was not given.
Printed(i) ==
    IF i.output = "none" /\ i.legacy # "none"
    THEN IF i.legacy \in {"json", "=json"} THEN "json" ELSE "human"
    ELSE IF RequestedFormat(i) \in Machine THEN "json" ELSE "human"

Format == RequestedFormat(asked)

-----------------------------------------------------------------------------
(* Errors and exit codes. *)

ExitCode(error) ==
    CASE error = "UsageError" -> 2
      [] error = "ConfigurationError" -> 3
      [] error \in {"ValidationError", "PlaybookError", "InventoryError", "WorkspaceError"} -> 4
      [] error \in {"ExecutionError", "ExternalToolError"} -> 5
      [] error \in {"RepositoryError", "StateError", "PermissionDeniedError",
                    "FilesystemTransactionError", "FilesystemRecoveryError"} -> 6
      [] error = "SecretsError" -> 7
      [] error = "PluginError" -> 8
      [] error = "KeyboardInterrupt" -> 130
      [] OTHER -> 1     \* InternalOperationalError, the dashboard's own errors

Document(status, changed) == [status |-> status, changed |-> changed]
Raw == Document("raw", FALSE)

RenderError(error) ==
    /\ code' = ExitCode(error)
    /\ stdout' = IF Format \in Machine THEN Append(stdout, Document("error", FALSE)) ELSE stdout
    /\ phase' = "done"

RenderSuccess(changed) ==
    /\ code' = 0 /\ stdout' = Append(stdout, Document("success", changed)) /\ phase' = "done"

-----------------------------------------------------------------------------
(* The branches of main(). *)

\* What the services of each branch raise.
StateErrors == {"WorkspaceError", "StateError", "FilesystemRecoveryError",
                "FilesystemTransactionError"}
InventoryErrors == {"WorkspaceError", "ExecutionError", "InventoryError"}
RepositoryErrors == {"WorkspaceError", "RepositoryError"}
PluginErrors == {"WorkspaceError", "PermissionDeniedError", "PluginError"}
PlaybookErrors == {"WorkspaceError", "PlaybookError", "ExecutionError"}
RunErrors == {"WorkspaceError", "ConfigurationError", "InventoryError", "PlaybookError",
              "ExecutionError", "RepositoryError"}
HistoryErrors == {"WorkspaceError", "ExecutionError", "FilesystemTransactionError"}
\* A ValueError becomes a StateError.
EventErrors == {"WorkspaceError", "ConfigurationError", "StateError", "SecretsError"}

Errors(command) ==
    CASE command = "status" -> {}
      [] command = "workspace init" -> {"WorkspaceError"}
      [] command = "config show" -> {"WorkspaceError", "ConfigurationError"}
      [] command \in {"state show", "state invalidate", "state recover"} -> StateErrors
      [] command \in {"inventory show", "inventory validate"} -> InventoryErrors
      [] command = "repository sync" -> RepositoryErrors
      [] command = "plugin permissions" -> PluginErrors
      [] command = "playbook validate" -> PlaybookErrors
      [] command = "run" -> RunErrors
      [] command \in {"execution list", "execution prune"} -> HistoryErrors
      [] command \in {"event deliver", "event consumer", "event retention"} -> EventErrors
      [] command = "dashboard" -> {"WorkspaceError", "DashboardSnapshotError"}

\* A result tells whether it was applied, and whether there was anything to
\* apply it to: an entry that existed, transactions recovered, executions or
\* events removed, events delivered.
Result(applied, found, statuses) == [applied : applied, found : found, status : statuses]
RemovalResults == Result(BOOLEAN, BOOLEAN, {"completed"})
ValidationResults == Result({FALSE}, {FALSE}, {"completed", "failed", "timed_out", "cancelled"})
RunResults ==
    Result({FALSE}, {FALSE}, {"completed", "failed", "timed_out", "cancelled", "denied"})

Results(command) ==
    CASE command \in {"state invalidate", "state recover", "execution prune",
                      "event retention"} -> RemovalResults
      [] command = "event consumer" -> Result(BOOLEAN, {TRUE}, {"completed"})
      [] command = "event deliver" -> Result({TRUE}, BOOLEAN, {"completed"})
      [] command \in {"inventory validate", "playbook validate"} -> ValidationResults
      [] command = "run" -> RunResults
      [] OTHER -> Result({FALSE}, {FALSE}, {"completed"})

\* The commands whose result does not tell whether they changed something.
Silent == {"workspace init", "repository sync", "inventory validate", "playbook validate",
           "run", "event deliver"}

Mutates(command, result) ==
    IF command \in Silent /\ ~(command = "event deliver" /\ result.found)
    THEN BOOLEAN ELSE {result.applied /\ result.found}

Returned(status, result) == [how |-> "returned", status |-> status, result |-> result]
RaisedError(error) == [how |-> "raised", error |-> error]

\* How a branch ends with a result: a run that Ansible reports cancelled is
\* the only one that returns another code than 0; the rest raise.
Ending(command, result) ==
    CASE result.status = "completed" -> Returned(0, result)
      [] command = "run" /\ result.status = "cancelled" -> Returned(3, result)
      [] result.status = "denied" -> RaisedError("PermissionDeniedError")
      [] OTHER -> RaisedError("ExternalToolError")

-----------------------------------------------------------------------------
(* cli() *)

\* The checks before main() runs, in their order.
Begin ==
    /\ phase = "begin"
    /\ IF \/ InvalidOutput(asked)
          \/ asked.command = "dashboard" /\ (Format # "text" \/ ~asked.interactive)
       THEN truth' = "refused" /\ RenderError("UsageError")
       ELSE phase' = "parse" /\ UNCHANGED <<truth, stdout, code>>
    /\ UNCHANGED <<asked, main, mutated, interrupted, terminalVars>>

\* argparse prints help, or its diagnostics, and leaves by SystemExit.
Parse ==
    /\ phase = "parse"
    /\ \/ asked.syntax = "right" /\ phase' = "serve" /\ UNCHANGED <<truth, stdout, code>>
       \/ /\ asked.syntax = "help" /\ truth' = "help"
          /\ IF Format \in Machine THEN RenderSuccess(FALSE)
             ELSE code' = 0 /\ stdout' = Append(stdout, Raw) /\ phase' = "done"
       \/ asked.syntax = "wrong" /\ truth' = "refused" /\ RenderError("UsageError")
    /\ UNCHANGED <<asked, main, mutated, interrupted, terminalVars>>

\* The service returns, raises, or is interrupted, before or after its effect.
Serve ==
    /\ phase = "serve" /\ phase' = "report"
    /\ \/ /\ asked.command # "dashboard"
          /\ \E result \in Results(asked.command) :
                /\ main' = Ending(asked.command, result)
                /\ mutated' \in Mutates(asked.command, result)
                /\ truth' = (IF result.status = "completed" THEN "success" ELSE result.status)
          /\ UNCHANGED interrupted
       \/ \E error \in Errors(asked.command) \cup {"Exception", "KeyboardInterrupt"} :
             /\ main' = RaisedError(error)
             /\ mutated' \in (IF asked.command = "dashboard" THEN {FALSE} ELSE BOOLEAN)
             /\ truth' = "failed" /\ interrupted' = (error = "KeyboardInterrupt")
       \* `run` with --confirm and without --apply, or the other way round.
       \/ /\ asked.command = "run" /\ main' = RaisedError("ValidationError")
          /\ truth' = "refused" /\ UNCHANGED <<mutated, interrupted>>
    /\ UNCHANGED <<asked, stdout, code, terminalVars>>

\* Mutant: whatever was applied counts as a change.
ChangedWhenApplied(command, result) == result.applied

\* _legacy_result_changed
Changed(command, result) ==
    CASE command \in {"state invalidate", "state recover", "execution prune"} ->
             result.applied /\ result.found
      [] command \in {"event consumer", "event retention"} -> result.applied
      [] command = "event deliver" -> result.found
      [] OTHER -> FALSE

\* Mutant: the status of a cancelled run is not looked at.
RenderAnyBuffered ==
    IF Printed(asked) = "json" THEN RenderSuccess(Changed(asked.command, main.result))
    ELSE RenderError("Exception")

\* What main() printed is read back as JSON; text that is not JSON is an
\* unexpected error.
RenderBuffered ==
    CASE main.status = 3 -> RenderError("KeyboardInterrupt")
      [] main.status = 0 /\ Printed(asked) = "json" ->
             RenderSuccess(Changed(asked.command, main.result))
      [] OTHER -> RenderError("Exception")

RenderText ==
    IF main.status = 3 THEN RenderError("KeyboardInterrupt")
    ELSE code' = main.status /\ stdout' = Append(stdout, Raw) /\ phase' = "done"

Report ==
    /\ phase = "report"
    /\ CASE main.how = "raised" -> RenderError(main.error)
         [] main.how = "returned" /\ Format = "text" -> RenderText
         [] OTHER -> RenderBuffered
    /\ UNCHANGED <<asked, main, truth, mutated, interrupted, terminalVars>>

\* An interrupt while a result is written: what is out stays out.  In a machine
\* format the cancellation is reported after it.
InterruptReport ==
    /\ phase = "report" /\ main.how = "returned" /\ main.status = 0
    /\ Printed(asked) = "json" <=> Format \in Machine
    /\ interrupted' = TRUE /\ phase' = "done" /\ code' = ExitCode("KeyboardInterrupt")
    /\ stdout' \in IF Format = "text" THEN {stdout, Append(stdout, Raw)}
                   ELSE {stdout \o <<Document("error", FALSE)>>,
                         stdout \o <<Document("success", Changed(asked.command, main.result)),
                                     Document("error", FALSE)>>}
    /\ UNCHANGED <<asked, main, truth, mutated, terminalVars>>

-----------------------------------------------------------------------------
(* The dashboard. *)

\* The workspace is resolved and a first snapshot taken.
OpenDashboard ==
    /\ phase = "serve" /\ asked.command = "dashboard" /\ phase' = "session" /\ Opened
    /\ UNCHANGED <<asked, main, stdout, code, truth, mutated, interrupted>>

Session ==
    /\ phase = "session"
    /\ SessionStep \/ UserStep \/ WorldStep
    /\ UNCHANGED commandVars

CloseDashboard ==
    /\ phase = "session" /\ life # "running"
    /\ truth' = IF life = "ended" THEN exit ELSE "killed"
    /\ interrupted' = (life = "ended" /\ exit \in {"interrupted", "escaped"})
    /\ CASE life = "killed" -> phase' = "done" /\ UNCHANGED <<code, stdout>>
         [] life = "ended" /\ exit = "quit" -> phase' = "done" /\ code' = 0 /\ UNCHANGED stdout
         [] life = "ended" /\ exit \in {"interrupted", "escaped"} -> RenderError("KeyboardInterrupt")
         [] OTHER -> RenderError("DashboardTerminalError")
    /\ UNCHANGED <<asked, main, mutated, terminalVars>>

-----------------------------------------------------------------------------
Init ==
    /\ DashboardInit
    /\ asked \in Asked /\ phase = "begin" /\ stdout = <<>> /\ code = -1
    /\ main = RaisedError("none")
    /\ truth = "none" /\ mutated = FALSE /\ interrupted = FALSE

Next == Begin \/ Parse \/ Serve \/ Report \/ InterruptReport
            \/ OpenDashboard \/ Session \/ CloseDashboard

Spec == Init /\ [][Next]_vars

\* The interpreter goes on with a session unless it waits for the user.
FairSpec == Spec /\ WF_vars(phase = "session" /\ SessionStep /\ UNCHANGED commandVars)

-----------------------------------------------------------------------------
(* Properties. *)

Ended == phase = "done" /\ truth # "killed"
Succeeded == truth \in {"success", "help", "quit"}

\* --output-format=human while ANSIBLECTL_OUTPUT names a machine format.
Misread(i) == RequestedFormat(i) \in Machine /\ Printed(i) = "human"

\* In every output format the exit code tells what became of the operation: 0
\* exactly for what succeeded uninterrupted, 130 only for a cancellation; and
\* the last document on stdout says the same.
ReportAgrees ==
    Ended =>
        /\ ~Misread(asked) => (code = 0 <=> Succeeded /\ ~interrupted)
        /\ code = 130 => interrupted \/ truth = "cancelled"
        /\ Format \in Machine => /\ stdout # <<>>
                                 /\ stdout[Len(stdout)].status =
                                        IF code = 0 THEN "success" ELSE "error"

\* No report says that something changed when nothing did.  Retention reports
\* what was asked for, also when there was nothing to remove.
ChangedIsTrue ==
    asked.command # "event retention" =>
        \A i \in 1..Len(stdout) : stdout[i].changed => mutated

\* An operation that has succeeded is reported as a success, whatever names
\* the output format.
SuccessReported == Ended /\ Succeeded /\ ~interrupted => code = 0
=============================================================================
