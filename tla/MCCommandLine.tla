--------------------------- MODULE MCCommandLine ---------------------------
\* Values of the constants of CommandLine for model checking.
EXTENDS CommandLine

\* Every way to choose the format of every command but the dashboard, help and
\* wrong arguments for one of them, and the dashboard in a few ways.
EveryInvocation ==
    {i \in Invocations :
        \/ i.command \notin {"dashboard", "status"} /\ i.syntax = "right" /\ i.interactive
        \/ i.command = "status" /\ i.interactive
        \/ i.command = "dashboard" /\ i.legacy = "none" /\ i.output = "text" /\ i.env = "none"
        \/ i.command = "dashboard" /\ i.legacy = "json" /\ i.output = "none" /\ i.env = "none"}

\* More rows than a panel has lines, few rows, and none.
SomeSnapshots == {[executions |-> 7, consumers |-> 1], [executions |-> 2, consumers |-> 0]}
===========================================================================
