----------------------------- MODULE AtomicFiles -----------------------------
(***************************************************************************)
(* What ADR-0036 promises of a filesystem transaction: a set of file       *)
(* changes staged one by one that takes effect in one step or not at all.  *)
(* Files can be lost: from then on nothing is promised of their contents.  *)
(***************************************************************************)
CONSTANTS
    Txns, Files,
    Contents, \* what a file may hold at first, Absent included
    Absent

VARIABLES
    files,    \* the contents every reader after recovery sees
    lost,     \* the files nothing is promised of any more
    staged,   \* the changes of each transaction, a partial function on Files
    fate      \* "open", "committed" or "aborted"

vars == <<files, lost, staged, fate>>

Init ==
    /\ files \in [Files -> Contents]
    /\ lost = {}
    /\ staged = [t \in Txns |-> [f \in {} |-> Absent]]
    /\ fate = [t \in Txns |-> "open"]

\* The promise: every file that is not lost holds what it shall.
Holds(contents) == \A f \in Files \ lost' : files'[f] = contents[f]

Stage(t, f, content) ==
    /\ fate[t] = "open"
    /\ f \notin DOMAIN staged[t]
    /\ staged' = [staged EXCEPT ![t] = [g \in DOMAIN @ \cup {f} |-> IF g = f THEN content ELSE @[g]]]
    /\ Holds(files)
    /\ UNCHANGED fate

Commit(t) ==
    /\ fate[t] = "open"
    /\ fate' = [fate EXCEPT ![t] = "committed"]
    /\ Holds([f \in Files |-> IF f \in DOMAIN staged[t] THEN staged[t][f] ELSE files[f]])
    /\ UNCHANGED staged

\* A commit is for good, but for one whose files are all lost.
Abort(t) ==
    /\ fate[t] = "open" \/ (fate[t] = "committed" /\ DOMAIN staged[t] \subseteq lost)
    /\ fate' = [fate EXCEPT ![t] = "aborted"]
    /\ Holds(files)
    /\ UNCHANGED staged

\* Lost files change, and more of them may be lost.
Lose ==
    /\ Holds(files)
    /\ UNCHANGED <<staged, fate>>

Next ==
    /\ lost \subseteq lost'
    /\ \/ \E t \in Txns :
              \/ \E f \in Files, content \in {t, Absent} : Stage(t, f, content)
              \/ Commit(t)
              \/ Abort(t)
       \/ Lose

Spec == Init /\ [][Next]_vars
=============================================================================
