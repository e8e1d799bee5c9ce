------------------------- MODULE DashboardTerminal -------------------------
(***************************************************************************)
(* One foreground session of the dashboard: how it takes the terminal and  *)
(* the signal handlers, waits for keys and signals, and gives everything   *)
(* back.  A signal whose handler is the session's own sets a flag, and the *)
(* interpreter writes a byte into the wakeup pipe; with the handler that   *)
(* was there before, SIGTERM kills the process and SIGINT raises           *)
(* KeyboardInterrupt wherever the session is.                              *)
(*                                                                         *)
(* A snapshot is the number of rows of each table.  What a cell shows is   *)
(* not modelled; which rows a frame shows is.                              *)
(***************************************************************************)
EXTENDS Integers, Sequences

CONSTANTS
    Snapshots,   \* the snapshots a refresh may return
    Heights,     \* heights of the terminal, in lines
    MaxSignals,  \* bounds the signals
    MaxTrouble   \* bounds the failures of calls, refreshes and the hang-up

Tables == {"executions", "consumers"}

ASSUME DashboardAssumption ==
    /\ Snapshots # {} /\ Snapshots \subseteq [Tables -> 0..100]
    /\ Heights # {} /\ Heights \subseteq Nat
    /\ MaxSignals \in Nat /\ MaxTrouble \in Nat

VARIABLES
    at,        \* where the session is
    tty,       \* the terminal: raw mode, alternate screen, hung up, height
    signals,   \* handlers in place, handlers remembered, wakeup pipe, flag
    cleanup,   \* _active, _registered, and whether exit handlers have begun
    exit,      \* what the session returned or raised
    life,      \* the process
    snapshot,  \* rows of the visible snapshot
    view,      \* DashboardViewState
    spent      \* signals and failures so far

terminalVars == <<at, tty, signals, cleanup, exit, life, snapshot, view, spent>>

Signals == {"SIGINT", "SIGTERM", "SIGWINCH"}
InOrder == <<"SIGINT", "SIGTERM", "SIGWINCH">>

-----------------------------------------------------------------------------
(* What a frame shows. *)

MinRows == 24
LastRow(table) == IF snapshot[table] > 0 THEN snapshot[table] - 1 ELSE 0

\* The rows above a panel's frame and header are its lines for rows.
VisibleRows(table) ==
    LET executionHeight == (tty.height - 7) \div 2
    IN  (IF table = "executions" THEN executionHeight ELSE tty.height - 7 - executionHeight) - 3

\* The selection may be past the end of a snapshot that has shrunk.
Selected(table) == IF view[table] < LastRow(table) THEN view[table] ELSE LastRow(table)

\* Mutant: the window follows one row too late.
WindowStartLate(selected, total, visible) ==
    IF selected - visible > 0 THEN selected - visible ELSE 0

WindowStart(selected, total, visible) ==
    IF visible <= 0 \/ total <= visible THEN 0
    ELSE LET following == IF selected - visible + 1 > 0 THEN selected - visible + 1 ELSE 0
         IN  IF following < total - visible THEN following ELSE total - visible

\* The rows of a table that a frame shows.
Shown(table) ==
    LET start == WindowStart(Selected(table), snapshot[table], VisibleRows(table))
        last == start + VisibleRows(table) - 1
    IN  IF tty.height < MinRows THEN {}
        ELSE start .. (IF last < snapshot[table] - 1 THEN last ELSE snapshot[table] - 1)

\* Tab and the arrows go round the three panels.
Panels == {"status"} \cup Tables
Following(panel) ==
    CASE panel = "status" -> "executions"
      [] panel = "executions" -> "consumers"
      [] panel = "consumers" -> "status"
Preceding(panel) == CHOOSE p \in Panels : Following(p) = panel

\* A row key moves inside the selected table; nothing else uses the index.
MoveRow(delta) ==
    LET table == view.panel
        target == view[table] + delta
    IN  IF table = "status" THEN view
        ELSE [view EXCEPT ![table] = CASE target < 0 -> 0
                                       [] target > LastRow(table) -> LastRow(table)
                                       [] OTHER -> target]

AfterKey(key) ==
    CASE key = "next_panel" -> [view EXCEPT !.panel = Following(@)]
      [] key = "previous_panel" -> [view EXCEPT !.panel = Preceding(@)]
      [] key = "next_row" -> MoveRow(1)
      [] key = "previous_row" -> MoveRow(-1)
      [] OTHER -> view

-----------------------------------------------------------------------------
(* Taking the terminal. *)

Trouble == spent.trouble < MaxTrouble /\ spent' = [spent EXCEPT !.trouble = @ + 1]
Failing == Trouble \/ (tty.lost /\ UNCHANGED spent)   \* a call on the terminal
Goto(there) == at' = there
shown == <<snapshot, view>>

\* The session is created on some terminal with a first snapshot.
Opened ==
    /\ snapshot' \in Snapshots /\ \E h \in Heights : tty' = [tty EXCEPT !.height = h]
    /\ UNCHANGED <<at, signals, cleanup, exit, life, view, spent>>

\* Nothing has been changed yet, so a failure needs no restoration.
Preflight ==
    /\ at = "preflight"
    /\ \/ ~tty.lost /\ Goto("pipe") /\ UNCHANGED <<exit, spent>>
       \/ Failing /\ Goto("returned") /\ exit' = "failed"
    /\ UNCHANGED <<tty, signals, cleanup, life, shown>>

OpenPipe ==
    /\ at = "pipe" /\ Goto("wakeup") /\ signals' = [signals EXCEPT !.pipe = "empty"]
    /\ UNCHANGED <<tty, cleanup, exit, life, shown, spent>>

SetWakeup ==
    /\ at = "wakeup" /\ Goto("handlers") /\ signals' = [signals EXCEPT !.wakeup = TRUE]
    /\ UNCHANGED <<tty, cleanup, exit, life, shown, spent>>

NextOf(some) == InOrder[CHOOSE i \in 1..3 : InOrder[i] \in some
                             /\ \A j \in 1..(i - 1) : InOrder[j] \notin some]

TakeHandler ==
    /\ at = "handlers" /\ signals.saved # Signals
    /\ LET s == NextOf(Signals \ signals.saved)
       IN  signals' = [signals EXCEPT !.saved = @ \cup {s}, !.handler[s] = "session"]
    /\ UNCHANGED <<at, tty, cleanup, exit, life, shown, spent>>

\* Mutant: the session is not marked active before its first mutation.
RegisterOnly ==
    /\ at = "handlers" /\ signals.saved = Signals /\ Goto("raw")
    /\ cleanup' = [cleanup EXCEPT !.registered = TRUE]
    /\ UNCHANGED <<tty, signals, exit, life, shown, spent>>

\* atexit.register, then self._active = True.
Register ==
    /\ at = "handlers" /\ signals.saved = Signals /\ Goto("raw")
    /\ cleanup' = [cleanup EXCEPT !.registered = TRUE, !.active = TRUE]
    /\ UNCHANGED <<tty, signals, exit, life, shown, spent>>

\* A failing call of _install_restoration; restore() returns at once when no
\* handler has been replaced.
InstallFails ==
    /\ at \in {"pipe", "wakeup", "handlers"} /\ Trouble
    /\ Goto(IF signals.saved = {} THEN "returned" ELSE "give back") /\ exit' = "failed"
    /\ UNCHANGED <<tty, signals, cleanup, life, shown>>

SetRaw ==
    /\ at = "raw" /\ ~tty.lost /\ Goto("enter") /\ tty' = [tty EXCEPT !.raw = TRUE]
    /\ UNCHANGED <<signals, cleanup, exit, life, shown, spent>>

Enter ==
    /\ at = "enter" /\ ~tty.lost /\ Goto("render") /\ tty' = [tty EXCEPT !.alternate = TRUE]
    /\ UNCHANGED <<signals, cleanup, exit, life, shown, spent>>

-----------------------------------------------------------------------------
(* The loop.  Leaving it, in whatever way, begins the restoration. *)

Leave(outcome) == Goto("restore") /\ exit' = outcome

Render ==
    /\ at = "render" /\ ~tty.lost /\ Goto("select")
    /\ UNCHANGED <<tty, signals, cleanup, exit, life, shown, spent>>

\* A byte in the wakeup pipe is served before any key.
ReadWake ==
    /\ at = "select" /\ signals.pipe = "byte"
    /\ Goto("woken") /\ signals' = [signals EXCEPT !.pipe = "empty"]
    /\ UNCHANGED <<tty, cleanup, exit, life, shown, spent>>

AfterWake ==
    /\ at = "woken"
    /\ IF signals.interrupt THEN Leave("interrupted") ELSE Goto("render") /\ UNCHANGED exit
    /\ UNCHANGED <<tty, signals, cleanup, life, shown, spent>>

Keys == {"quit", "next_panel", "previous_panel", "next_row", "previous_row", "ignore"}

\* A terminal that has hung up reads as the end of input, which quits.
Key(key) ==
    /\ at = "select" /\ signals.pipe = "empty" /\ (tty.lost => key = "quit")
    /\ IF key = "quit" THEN Leave("quit") /\ UNCHANGED view
       ELSE Goto("render") /\ view' = AfterKey(key) /\ UNCHANGED exit
    /\ UNCHANGED <<tty, signals, cleanup, life, snapshot, spent>>

\* The four queries see other processes' changes between them, so the counts
\* need not belong together; a failing one leaves the whole old snapshot.
Refresh ==
    /\ at = "select" /\ signals.pipe = "empty" /\ ~tty.lost /\ Goto("render")
    /\ \/ snapshot' \in Snapshots /\ view' = [view EXCEPT !.failed = FALSE] /\ UNCHANGED spent
       \/ Trouble /\ view' = [view EXCEPT !.failed = TRUE] /\ UNCHANGED snapshot
    /\ UNCHANGED <<tty, signals, cleanup, exit, life>>

\* A call on the terminal fails; what it was writing may have got through.
TerminalFails ==
    /\ at \in {"raw", "enter", "render", "select"}
    /\ Failing /\ Leave("failed")
    /\ \E wrote \in (IF at = "enter" /\ ~tty.lost THEN BOOLEAN ELSE {tty.alternate}) :
           tty' = [tty EXCEPT !.alternate = wrote]
    /\ UNCHANGED <<signals, cleanup, life, shown>>

-----------------------------------------------------------------------------
(* restore(): from the loop's `finally`, and again at exit if it did not end. *)

\* The terminal is touched only when the session was active; what fails on a
\* terminal that has hung up is suppressed.
RestoreAttributes ==
    /\ at = "restore" /\ Goto("leave")
    /\ cleanup' = [cleanup EXCEPT !.active = FALSE]
    /\ tty' = [tty EXCEPT !.raw = @ /\ (tty.lost \/ ~cleanup.active)]
    /\ UNCHANGED <<signals, exit, life, shown, spent>>

LeaveScreen ==
    /\ at = "leave" /\ Goto("give back")
    /\ tty' = [tty EXCEPT !.alternate = @ /\ tty.lost]
    /\ UNCHANGED <<signals, cleanup, exit, life, shown, spent>>

Taken == {s \in signals.saved : signals.handler[s] = "session"}

\* Original handlers come back in the order they were taken.
GiveBack ==
    /\ at = "give back"
    /\ IF Taken # {}
       THEN signals' = [signals EXCEPT !.handler[NextOf(Taken)] = "original"] /\ UNCHANGED at
       ELSE signals' = [signals EXCEPT !.saved = {}] /\ Goto("unwake")
    /\ UNCHANGED <<tty, cleanup, exit, life, shown, spent>>

ClosePipe ==
    /\ at = "unwake" /\ Goto("unregister")
    /\ signals' = [signals EXCEPT !.wakeup = FALSE, !.pipe = "closed"]
    /\ UNCHANGED <<tty, cleanup, exit, life, shown, spent>>

Unregister ==
    /\ at = "unregister" /\ Goto("returned")
    /\ cleanup' = [cleanup EXCEPT !.registered = FALSE]
    /\ UNCHANGED <<tty, signals, exit, life, shown, spent>>

\* The interpreter runs what is registered once, then the process is gone.
AtExit ==
    /\ at = "returned"
    /\ IF cleanup.registered /\ ~cleanup.exiting
       THEN Goto("give back") /\ cleanup' = [cleanup EXCEPT !.exiting = TRUE] /\ UNCHANGED life
       ELSE life' = "ended" /\ UNCHANGED <<at, cleanup>>
    /\ UNCHANGED <<tty, signals, exit, shown, spent>>

-----------------------------------------------------------------------------
(* Signals and the world. *)

Count == spent.signals < MaxSignals /\ spent' = [spent EXCEPT !.signals = @ + 1]

\* Mutant: no wakeup descriptor; the flag alone does not end a wait.
HandledSilently(s) ==
    /\ signals.handler[s] = "session"
    /\ signals' = [signals EXCEPT !.interrupt = @ \/ s # "SIGWINCH"]
    /\ UNCHANGED <<at, tty, exit, life>>

\* _interrupt and _resize, and the byte the interpreter writes for them.
Handled(s) ==
    /\ signals.handler[s] = "session"
    /\ signals' = [signals EXCEPT
            !.interrupt = @ \/ s # "SIGWINCH",
            !.pipe = IF signals.wakeup /\ @ # "closed" THEN "byte" ELSE @]
    /\ \E h \in (IF s = "SIGWINCH" THEN Heights ELSE {tty.height}) :
           tty' = [tty EXCEPT !.height = h]
    /\ UNCHANGED <<at, exit, life>>

\* KeyboardInterrupt: before the loop and between two parts of restore() it
\* leaves run(); inside a part it is suppressed and that part may be skipped.
Raised ==
    /\ signals.handler["SIGINT"] = "original"
    /\ \/ /\ Goto("returned") /\ exit' = (IF cleanup.exiting THEN exit ELSE "escaped")
          /\ UNCHANGED signals
       \/ /\ at = "give back" /\ Taken # {}
          /\ signals' = [signals EXCEPT !.saved = @ \ {NextOf(Taken)}] /\ UNCHANGED <<at, exit>>
       \/ at = "unwake" /\ Goto("unregister") /\ UNCHANGED <<exit, signals>>
    /\ UNCHANGED <<tty, life>>

Killed ==
    /\ signals.handler["SIGTERM"] = "original" /\ life' = "killed"
    /\ UNCHANGED <<at, tty, signals, exit>>

Signal(s) ==
    /\ Count
    /\ \/ Handled(s)
       \/ s = "SIGINT" /\ Raised
       \/ s = "SIGTERM" /\ Killed
    /\ UNCHANGED <<cleanup, shown>>

HangUp ==
    /\ ~tty.lost /\ Trouble /\ tty' = [tty EXCEPT !.lost = TRUE]
    /\ UNCHANGED <<at, signals, cleanup, exit, life, shown>>

-----------------------------------------------------------------------------
\* The part of a session that does not wait for the user.
SessionStep ==
    /\ life = "running"
    /\ \/ Preflight \/ OpenPipe \/ SetWakeup \/ TakeHandler \/ Register \/ InstallFails
       \/ SetRaw \/ Enter \/ Render \/ ReadWake \/ AfterWake \/ TerminalFails
       \/ RestoreAttributes \/ LeaveScreen \/ GiveBack \/ ClosePipe \/ Unregister \/ AtExit

UserStep == life = "running" /\ ((\E key \in Keys : Key(key)) \/ Refresh)
WorldStep == life = "running" /\ ((\E s \in Signals : Signal(s)) \/ HangUp)

DashboardInit ==
    /\ at = "preflight" /\ exit = "none" /\ life = "running"
    /\ tty = [raw |-> FALSE, alternate |-> FALSE, lost |-> FALSE, height |-> MinRows]
    /\ signals = [handler |-> [s \in Signals |-> "original"], saved |-> {},
                  wakeup |-> FALSE, pipe |-> "closed", interrupt |-> FALSE]
    /\ cleanup = [active |-> FALSE, registered |-> FALSE, exiting |-> FALSE]
    /\ snapshot = [table \in Tables |-> 0]
    /\ view = [panel |-> "status", executions |-> 0, consumers |-> 0, failed |-> FALSE]
    /\ spent = [signals |-> 0, trouble |-> 0]

-----------------------------------------------------------------------------
(* Properties. *)

\* However the process ends, by a key, a failure, an interrupt or SIGTERM, and
\* however often it is interrupted while it restores, the user's terminal is
\* out of raw mode and back on its own screen unless it has hung up.
TerminalRestored == life # "running" /\ ~tty.lost => ~tty.raw /\ ~tty.alternate

\* An interrupt the session has taken ends it: the flag is never left standing
\* with an empty pipe while the loop waits for keys.
InterruptEnds == (signals.interrupt /\ life = "running") ~> (life # "running")

\* The selected row of each table is in the frame, also after the snapshot
\* has shrunk or the terminal was resized.
SelectionShown ==
    tty.height >= MinRows =>
        \A table \in Tables : snapshot[table] > 0 => Selected(table) \in Shown(table)
=============================================================================
