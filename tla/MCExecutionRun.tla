-------------------------- MODULE MCExecutionRun --------------------------
\* Values of the constants of ExecutionRun for model checking.
EXTENDS ExecutionRun

Request(operation, mode, confirmed, limited, enforcement, preflight) ==
    [operation |-> operation, mode |-> mode, confirmed |-> confirmed,
     limited |-> limited, enforcement |-> enforcement, preflight |-> preflight]

\* Every way through a command once.
EveryRequest == {
    Request("run", "apply", TRUE, TRUE, "deny", FALSE),
    Request("run", "apply", TRUE, FALSE, "deny", FALSE),
    Request("run", "apply", FALSE, TRUE, "warn", FALSE),
    Request("run", "apply", FALSE, FALSE, "report", TRUE),
    Request("syntax", "check", FALSE, FALSE, "report", FALSE),
    Request("inventory", "check", FALSE, FALSE, "report", FALSE)}

CONSTANTS r0, r1, r2

\* Two executions are in the history when the instance begins.
InHistory == <<r0, r1>>
AnyOf == [r \in {r0, r1, r2} |-> IF r = r2 THEN EveryRequest ELSE {}]
===========================================================================
