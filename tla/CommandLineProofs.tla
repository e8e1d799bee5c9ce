------------------------- MODULE CommandLineProofs -------------------------
(***************************************************************************)
(* What an invocation reports, and what a session of the dashboard gives   *)
(* back and shows, proved for every set of invocations, every snapshot and *)
(* every height of the terminal, and any number of signals and failures.   *)
(***************************************************************************)
EXTENDS CommandLine, TLAPS

-----------------------------------------------------------------------------
(* The session: its inductive invariant. *)

Places == {"preflight", "pipe", "wakeup", "handlers", "raw", "enter", "render", "select",
           "woken", "restore", "leave", "give back", "unwake", "unregister", "returned"}

Views == [panel : Panels, executions : Nat, consumers : Nat, failed : BOOLEAN]

SessionTypeOK ==
    /\ at \in Places
    /\ tty \in [raw : BOOLEAN, alternate : BOOLEAN, lost : BOOLEAN, height : Nat]
    /\ signals \in [handler : [Signals -> {"original", "session"}], saved : SUBSET Signals,
                    wakeup : BOOLEAN, pipe : {"closed", "empty", "byte"}, interrupt : BOOLEAN]
    /\ cleanup \in [active : BOOLEAN, registered : BOOLEAN, exiting : BOOLEAN]
    /\ exit \in {"none", "quit", "failed", "interrupted", "escaped"}
    /\ life \in {"running", "ended", "killed"}
    /\ snapshot \in [Tables -> 0..100]
    /\ view \in Views

\* Where the terminal may be the session's own: nobody gets past these places
\* but through them, for the handlers are the session's own too.
InLoop == {"raw", "enter", "render", "select", "woken", "restore", "leave"}

HandlersTaken ==
    /\ at \in {"preflight", "pipe", "wakeup"} => signals.saved = {}
    /\ at = "handlers" => \A s \in signals.saved : signals.handler[s] = "session"
    /\ at \in InLoop => signals.handler["SIGINT"] = "session"
                           /\ signals.handler["SIGTERM"] = "session"

\* A terminal that has not hung up is in raw mode, or on the other screen, only
\* where a part of restore() is still to come that undoes it.
TerminalHeld ==
    /\ at \in InLoop \ {"leave"} => cleanup.active
    /\ ~tty.lost /\ tty.raw => at \in InLoop \ {"raw", "leave"}
    /\ ~tty.lost /\ tty.alternate => at \in InLoop \ {"raw", "enter"}
    /\ life # "running" => at \notin InLoop

SessionInv == SessionTypeOK /\ HandlersTaken /\ TerminalHeld

-----------------------------------------------------------------------------
(* Signals and keys. *)

\* The first of some signals, in the order of the session's handlers.
LEMMA NextIsOneOfThem ==
    ASSUME NEW some \in SUBSET Signals, some # {}
    PROVE  NextOf(some) \in some
<1>1. /\ InOrder[1] = "SIGINT" /\ InOrder[2] = "SIGTERM" /\ InOrder[3] = "SIGWINCH"
      /\ 1 \in 1..3 /\ 2 \in 1..3 /\ 3 \in 1..3
  BY DEF InOrder
<1>2. \E i \in 1..3 : InOrder[i] \in some /\ \A j \in 1..(i - 1) : InOrder[j] \notin some
  <2>1. CASE "SIGINT" \in some
    <3>1. InOrder[1] \in some /\ \A j \in 1..(1 - 1) : InOrder[j] \notin some
      BY <1>1, <2>1
    <3>2. QED BY <1>1, <3>1
  <2>2. CASE "SIGINT" \notin some /\ "SIGTERM" \in some
    <3>1. InOrder[2] \in some /\ \A j \in 1..(2 - 1) : InOrder[j] \notin some
      <4>1. \A j \in 1..(2 - 1) : j = 1
        OBVIOUS
      <4>2. QED BY <1>1, <2>2, <4>1
    <3>2. QED BY <1>1, <3>1
  <2>3. CASE "SIGINT" \notin some /\ "SIGTERM" \notin some
    <3>1. InOrder[3] \in some /\ \A j \in 1..(3 - 1) : InOrder[j] \notin some
      <4>1. \A j \in 1..(3 - 1) : j = 1 \/ j = 2
        OBVIOUS
      <4>2. "SIGWINCH" \in some
        BY <2>3 DEF Signals
      <4>3. QED BY <1>1, <2>3, <4>1, <4>2
    <3>2. QED BY <1>1, <3>1
  <2>4. QED BY <2>1, <2>2, <2>3
<1>3. QED BY <1>2 DEF NextOf

\* A key moves the selection to a row or a panel that there is.
LEMMA KeysKeepViews ==
    ASSUME view \in Views, snapshot \in [Tables -> 0..100], NEW key
    PROVE  AfterKey(key) \in Views
<1>1. \A table \in Tables : LastRow(table) \in Nat
  BY DEF LastRow, Tables
<1>2. Following(view.panel) \in Panels
  BY DEF Views, Panels, Tables, Following
<1>3. Preceding(view.panel) \in Panels
  <2>1. /\ Following("status") = "executions" /\ Following("executions") = "consumers"
        /\ Following("consumers") = "status"
    BY DEF Following
  <2>2. \E p \in Panels : Following(p) = view.panel
    BY <2>1 DEF Views, Panels, Tables
  <2>3. QED BY <2>2 DEF Preceding
<1>4. ASSUME NEW delta \in {-1, 1} PROVE MoveRow(delta) \in Views
  <2>1. CASE view.panel = "status"
    BY <2>1 DEF MoveRow
  <2>2. CASE view.panel = "executions"
    <3>1. view["executions"] \in Nat /\ LastRow("executions") \in Nat
      BY <1>1 DEF Views, Tables
    <3>2. PICK row \in Nat : row = CASE view["executions"] + delta < 0 -> 0
                                     [] view["executions"] + delta > LastRow("executions") ->
                                            LastRow("executions")
                                     [] OTHER -> view["executions"] + delta
      BY <3>1
    <3>3. MoveRow(delta) = [view EXCEPT !["executions"] = row]
      BY <2>2, <3>2 DEF MoveRow
    <3>4. QED BY <3>2, <3>3 DEF Views
  <2>3. CASE view.panel = "consumers"
    <3>1. view["consumers"] \in Nat /\ LastRow("consumers") \in Nat
      BY <1>1 DEF Views, Tables
    <3>2. PICK row \in Nat : row = CASE view["consumers"] + delta < 0 -> 0
                                     [] view["consumers"] + delta > LastRow("consumers") ->
                                            LastRow("consumers")
                                     [] OTHER -> view["consumers"] + delta
      BY <3>1
    <3>3. MoveRow(delta) = [view EXCEPT !["consumers"] = row]
      BY <2>3, <3>2 DEF MoveRow
    <3>4. QED BY <3>2, <3>3 DEF Views
  <2>4. QED BY <2>1, <2>2, <2>3 DEF Views, Panels, Tables
<1>5. [view EXCEPT !.panel = Following(@)] \in Views
  BY <1>2 DEF Views
<1>6. [view EXCEPT !.panel = Preceding(@)] \in Views
  BY <1>3 DEF Views
<1>7. QED BY <1>4, <1>5, <1>6 DEF AfterKey

-----------------------------------------------------------------------------
(* The steps of a session. *)

\* Taking the terminal: handlers first, then what they have to undo.
\* (TerminalSession._install_restoration)
LEMMA TakingKeeps ==
    ASSUME SessionInv, life = "running",
           \/ Preflight \/ OpenPipe \/ SetWakeup \/ TakeHandler \/ Register \/ InstallFails
           \/ SetRaw \/ Enter
    PROVE  SessionInv'
<1>1. CASE Preflight
  <2>1. /\ at = "preflight" /\ at' \in {"pipe", "returned"} /\ exit' \in {exit, "failed"}
        /\ at' = "pipe" => signals'.saved = {}
        /\ UNCHANGED <<tty, signals, cleanup, life, snapshot, view>>
    BY <1>1 DEF Preflight, Goto, shown, SessionInv, HandlersTaken
  <2>2. QED
    <3>1. SessionTypeOK'
      <4>1. at' \in Places
        BY <2>1 DEF Places
      <4>2. exit' \in {"none", "quit", "failed", "interrupted", "escaped"}
        BY <2>1 DEF SessionInv, SessionTypeOK
      <4>3. life' \in {"running", "ended", "killed"}
        BY <2>1 DEF SessionInv, SessionTypeOK
      <4>4. QED BY <2>1, <4>1, <4>2, <4>3 DEF SessionInv, SessionTypeOK
    <3>2. HandlersTaken'
      BY <2>1 DEF SessionInv, HandlersTaken, InLoop
    <3>3. TerminalHeld'
      BY <2>1 DEF SessionInv, SessionTypeOK, TerminalHeld, InLoop
    <3>4. QED BY <3>1, <3>2, <3>3 DEF SessionInv
<1>2. CASE OpenPipe \/ SetWakeup
  <2>1. SessionTypeOK'
    BY <1>2 DEF SessionInv, SessionTypeOK, OpenPipe, SetWakeup, Goto, shown, Places
  <2>2. HandlersTaken'
    BY <1>2 DEF SessionInv, SessionTypeOK, HandlersTaken, OpenPipe, SetWakeup, Goto, shown, InLoop
  <2>3. TerminalHeld'
    BY <1>2 DEF SessionInv, SessionTypeOK, TerminalHeld, OpenPipe, SetWakeup, Goto, shown, InLoop
  <2>4. QED BY <2>1, <2>2, <2>3 DEF SessionInv
<1>3. CASE TakeHandler
  <2>1. PICK s \in Signals : s = NextOf(Signals \ signals.saved)
    <3>1. Signals \ signals.saved # {} /\ Signals \ signals.saved \in SUBSET Signals
      BY <1>3 DEF TakeHandler, SessionInv, SessionTypeOK
    <3>2. QED BY <3>1, NextIsOneOfThem
  <2>2. at = "handlers" /\ UNCHANGED <<at, tty, cleanup, exit, life, snapshot, view>>
        /\ signals' = [signals EXCEPT !.saved = @ \cup {s}, !.handler[s] = "session"]
    BY <1>3, <2>1 DEF TakeHandler, shown
  <2>3. /\ signals' \in [handler : [Signals -> {"original", "session"}], saved : SUBSET Signals,
                    wakeup : BOOLEAN, pipe : {"closed", "empty", "byte"}, interrupt : BOOLEAN]
        /\ signals'.saved = signals.saved \cup {s}
        /\ signals'.handler = [signals.handler EXCEPT ![s] = "session"]
    BY <2>2 DEF SessionInv, SessionTypeOK
  <2>4. \A o \in signals'.saved : signals'.handler[o] = "session"
    BY <2>2, <2>3 DEF SessionInv, SessionTypeOK, HandlersTaken
  <2>5. QED BY <2>2, <2>3, <2>4
            DEF SessionInv, SessionTypeOK, HandlersTaken, TerminalHeld, InLoop
<1>4. CASE Register
  <2>1. signals.handler["SIGINT"] = "session" /\ signals.handler["SIGTERM"] = "session"
    BY <1>4 DEF Register, SessionInv, HandlersTaken, Signals
  <2>2. /\ at' = "raw" /\ cleanup' = [cleanup EXCEPT !.registered = TRUE, !.active = TRUE]
        /\ UNCHANGED <<tty, signals, exit, life, snapshot, view>>
    BY <1>4 DEF Register, Goto, shown
  <2>3. SessionTypeOK'
    BY <2>2 DEF SessionInv, SessionTypeOK, Places
  <2>4. HandlersTaken'
    BY <2>1, <2>2 DEF HandlersTaken
  <2>5. TerminalHeld'
    BY <1>4, <2>2 DEF SessionInv, SessionTypeOK, TerminalHeld, Register, InLoop
  <2>6. QED BY <2>3, <2>4, <2>5 DEF SessionInv
<1>5. CASE InstallFails
  <2>1. /\ at \in {"pipe", "wakeup", "handlers"} /\ at' \in {"returned", "give back"}
        /\ exit' = "failed" /\ UNCHANGED <<tty, signals, cleanup, life, snapshot, view>>
    BY <1>5 DEF InstallFails, Goto, shown
  <2>2. QED
    <3>1. SessionTypeOK'
      <4>1. at' \in Places
        BY <2>1 DEF Places
      <4>2. exit' \in {"none", "quit", "failed", "interrupted", "escaped"}
        BY <2>1 DEF SessionInv, SessionTypeOK
      <4>3. life' \in {"running", "ended", "killed"}
        BY <2>1 DEF SessionInv, SessionTypeOK
      <4>4. QED BY <2>1, <4>1, <4>2, <4>3 DEF SessionInv, SessionTypeOK
    <3>2. HandlersTaken'
      BY <2>1 DEF SessionInv, HandlersTaken, InLoop
    <3>3. TerminalHeld'
      BY <2>1 DEF SessionInv, SessionTypeOK, TerminalHeld, InLoop
    <3>4. QED BY <3>1, <3>2, <3>3 DEF SessionInv
<1>6. CASE SetRaw \/ Enter
  <2>1. SessionTypeOK'
    BY <1>6 DEF SessionInv, SessionTypeOK, SetRaw, Enter, Goto, shown, Places
  <2>2. HandlersTaken'
    BY <1>6 DEF SessionInv, HandlersTaken, SetRaw, Enter, Goto, InLoop
  <2>3. TerminalHeld'
    BY <1>6 DEF SessionInv, SessionTypeOK, TerminalHeld, SetRaw, Enter, Goto, InLoop
  <2>4. QED BY <2>1, <2>2, <2>3 DEF SessionInv
<1>7. QED BY <1>1, <1>2, <1>3, <1>4, <1>5, <1>6

\* The loop, until a key, a signal or a failing call leaves it.
LEMMA LoopKeeps ==
    ASSUME SessionInv, life = "running",
           \/ Render \/ ReadWake \/ AfterWake \/ TerminalFails \/ Refresh
           \/ \E key \in Keys : Key(key)
    PROVE  SessionInv'
<1>1. CASE Render \/ ReadWake \/ AfterWake
  <2>1. SessionTypeOK'
    BY <1>1 DEF SessionInv, SessionTypeOK, Render, ReadWake, AfterWake, Leave, Goto, shown, Places
  <2>2. HandlersTaken'
    BY <1>1 DEF SessionInv, SessionTypeOK, HandlersTaken, Render, ReadWake, AfterWake, Leave, Goto,
                shown, InLoop
  <2>3. TerminalHeld'
    BY <1>1 DEF SessionInv, SessionTypeOK, TerminalHeld, Render, ReadWake, AfterWake, Leave, Goto,
                shown, InLoop
  <2>4. QED BY <2>1, <2>2, <2>3 DEF SessionInv
<1>2. CASE TerminalFails
  <2>1. SessionTypeOK'
    <3>1. /\ at' = "restore" /\ exit' = "failed"
          /\ UNCHANGED <<signals, cleanup, life, snapshot, view>>
      BY <1>2 DEF TerminalFails, Leave, Goto, shown
    <3>2. tty' \in [raw : BOOLEAN, alternate : BOOLEAN, lost : BOOLEAN, height : Nat]
      BY <1>2 DEF TerminalFails, SessionInv, SessionTypeOK
    <3>3. at' \in Places
      BY <3>1 DEF Places
    <3>4. QED BY <3>1, <3>2, <3>3 DEF SessionInv, SessionTypeOK
  <2>2. HandlersTaken'
    BY <1>2 DEF SessionInv, HandlersTaken, TerminalFails, Leave, Goto, shown, InLoop
  <2>3. TerminalHeld'
    BY <1>2 DEF SessionInv, SessionTypeOK, TerminalHeld, TerminalFails, Leave, Goto, shown, InLoop
  <2>4. QED BY <2>1, <2>2, <2>3 DEF SessionInv
<1>3. CASE Refresh
  <2>1. snapshot' \in [Tables -> 0..100]
    BY <1>3, DashboardAssumption DEF Refresh, SessionInv, SessionTypeOK
  <2>2. view' \in Views
    BY <1>3 DEF Refresh, SessionInv, SessionTypeOK, Views
  <2>3. QED BY <1>3, <2>1, <2>2
            DEF SessionInv, SessionTypeOK, HandlersTaken, TerminalHeld, Refresh, Goto, Places, InLoop
<1>4. CASE \E key \in Keys : Key(key)
  <2>1. view' \in Views
    BY <1>4, KeysKeepViews DEF Key, SessionInv, SessionTypeOK
  <2>2. QED BY <1>4, <2>1
            DEF SessionInv, SessionTypeOK, HandlersTaken, TerminalHeld, Key, Leave, Goto,
                Places, InLoop
<1>5. QED BY <1>1, <1>2, <1>3, <1>4

\* restore(): the terminal before the handlers.
LEMMA RestoringKeeps ==
    ASSUME SessionInv, life = "running",
           RestoreAttributes \/ LeaveScreen \/ GiveBack \/ ClosePipe \/ Unregister \/ AtExit
    PROVE  SessionInv'
<1>1. CASE RestoreAttributes
  <2>1. SessionTypeOK'
    BY <1>1 DEF SessionInv, SessionTypeOK, RestoreAttributes, Goto, shown, Places
  <2>2. HandlersTaken'
    BY <1>1 DEF SessionInv, HandlersTaken, RestoreAttributes, Goto, shown, InLoop
  <2>3. TerminalHeld'
    BY <1>1 DEF SessionInv, SessionTypeOK, TerminalHeld, RestoreAttributes, Goto, shown, InLoop
  <2>4. QED BY <2>1, <2>2, <2>3 DEF SessionInv
<1>2. CASE LeaveScreen
  <2>1. /\ at = "leave" /\ at' = "give back"
        /\ tty' = [tty EXCEPT !.alternate = @ /\ tty.lost]
        /\ UNCHANGED <<signals, cleanup, exit, life, snapshot, view>>
    BY <1>2 DEF LeaveScreen, Goto, shown
  <2>2. PICK other \in BOOLEAN : other = (tty.alternate /\ tty.lost)
    OBVIOUS
  <2>3. /\ tty' = [tty EXCEPT !.alternate = other]
        /\ tty' \in [raw : BOOLEAN, alternate : BOOLEAN, lost : BOOLEAN, height : Nat]
    BY <2>1, <2>2 DEF SessionInv, SessionTypeOK
  <2>4. tty'.raw = tty.raw /\ tty'.lost = tty.lost /\ tty'.alternate = other
    BY <2>3 DEF SessionInv, SessionTypeOK
  <2>5. QED
    <3>1. SessionTypeOK'
      BY <2>1, <2>2, <2>3, <2>4 DEF SessionInv, SessionTypeOK, Places
    <3>2. HandlersTaken'
      BY <2>1, <2>2, <2>3, <2>4 DEF SessionInv, HandlersTaken, InLoop
    <3>3. TerminalHeld'
      BY <2>1, <2>2, <2>3, <2>4 DEF SessionInv, SessionTypeOK, TerminalHeld, InLoop
    <3>4. QED BY <3>1, <3>2, <3>3 DEF SessionInv
<1>3. CASE GiveBack
  <2>1. at' \in {"give back", "unwake"} /\ UNCHANGED <<tty, cleanup, exit, life, snapshot, view>>
    BY <1>3 DEF GiveBack, Goto, shown
  <2>2. signals' \in [handler : [Signals -> {"original", "session"}], saved : SUBSET Signals,
                    wakeup : BOOLEAN, pipe : {"closed", "empty", "byte"}, interrupt : BOOLEAN]
    <3>1. CASE Taken # {}
      <4>1. PICK s \in Signals : s = NextOf(Taken)
        <5>1. Taken \in SUBSET Signals
          BY DEF Taken, SessionInv, SessionTypeOK
        <5>2. NextOf(Taken) \in Taken
          BY <3>1, <5>1, NextIsOneOfThem
        <5>3. QED BY <5>1, <5>2
      <4>2. signals' = [signals EXCEPT !.handler[s] = "original"]
        BY <1>3, <3>1, <4>1 DEF GiveBack
      <4>3. QED BY <4>2 DEF SessionInv, SessionTypeOK
    <3>2. CASE Taken = {}
      BY <1>3, <3>2 DEF GiveBack, SessionInv, SessionTypeOK
    <3>3. QED BY <3>1, <3>2
  <2>3. at \notin InLoop
    BY <1>3 DEF GiveBack, InLoop
  <2>4. QED BY <2>1, <2>2, <2>3
            DEF SessionInv, SessionTypeOK, HandlersTaken, TerminalHeld, Places, InLoop
<1>4. CASE ClosePipe
  <2>1. signals' \in [handler : [Signals -> {"original", "session"}], saved : SUBSET Signals,
                    wakeup : BOOLEAN, pipe : {"closed", "empty", "byte"}, interrupt : BOOLEAN]
    BY <1>4 DEF ClosePipe, SessionInv, SessionTypeOK
  <2>2. /\ at = "unwake" /\ at' = "unregister"
        /\ UNCHANGED <<tty, cleanup, exit, life, snapshot, view>>
    BY <1>4 DEF ClosePipe, Goto, shown
  <2>3. QED BY <2>1, <2>2
            DEF SessionInv, SessionTypeOK, HandlersTaken, TerminalHeld, Places, InLoop
<1>5. CASE Unregister
  <2>1. SessionTypeOK'
    BY <1>5 DEF SessionInv, SessionTypeOK, Places, Unregister, Goto, shown
  <2>2. HandlersTaken'
    BY <1>5 DEF SessionInv, HandlersTaken, InLoop, Unregister, Goto, shown
  <2>3. TerminalHeld'
    BY <1>5 DEF SessionInv, SessionTypeOK, TerminalHeld, InLoop, Unregister, Goto, shown
  <2>4. QED BY <2>1, <2>2, <2>3 DEF SessionInv
<1>6. CASE AtExit
  <2>1. cleanup' \in [active : BOOLEAN, registered : BOOLEAN, exiting : BOOLEAN]
    BY <1>6 DEF AtExit, SessionInv, SessionTypeOK
  <2>2. /\ at = "returned" /\ at' \in {"returned", "give back"} /\ life' \in {life, "ended"}
        /\ UNCHANGED <<tty, signals, exit, snapshot, view>>
    BY <1>6 DEF AtExit, Goto, shown
  <2>3. QED
    <3>1. SessionTypeOK'
      <4>1. at' \in Places
        BY <2>1, <2>2 DEF Places
      <4>2. exit' \in {"none", "quit", "failed", "interrupted", "escaped"}
        BY <2>1, <2>2 DEF SessionInv, SessionTypeOK
      <4>3. life' \in {"running", "ended", "killed"}
        BY <2>1, <2>2 DEF SessionInv, SessionTypeOK
      <4>4. QED BY <2>1, <2>2, <4>1, <4>2, <4>3 DEF SessionInv, SessionTypeOK
    <3>2. HandlersTaken'
      BY <2>1, <2>2 DEF SessionInv, HandlersTaken, InLoop
    <3>3. TerminalHeld'
      BY <2>1, <2>2 DEF SessionInv, SessionTypeOK, TerminalHeld, InLoop
    <3>4. QED BY <3>1, <3>2, <3>3 DEF SessionInv
<1>7. QED BY <1>1, <1>2, <1>3, <1>4, <1>5, <1>6

\* Signals: in the loop they only set a flag; elsewhere the terminal is free.
LEMMA SignalsKeep ==
    ASSUME SessionInv, life = "running", NEW s \in Signals, Signal(s)
    PROVE  SessionInv'
<1>1. CASE Handled(s)
  <2>1. tty' \in [raw : BOOLEAN, alternate : BOOLEAN, lost : BOOLEAN, height : Nat]
        /\ tty'.raw = tty.raw /\ tty'.alternate = tty.alternate /\ tty'.lost = tty.lost
    BY <1>1, DashboardAssumption DEF Handled, SessionInv, SessionTypeOK
  <2>2. signals' \in [handler : [Signals -> {"original", "session"}], saved : SUBSET Signals,
                    wakeup : BOOLEAN, pipe : {"closed", "empty", "byte"}, interrupt : BOOLEAN]
        /\ signals'.handler = signals.handler /\ signals'.saved = signals.saved
    BY <1>1 DEF Handled, SessionInv, SessionTypeOK
  <2>3. UNCHANGED <<at, exit, life, cleanup, snapshot, view>>
    BY <1>1 DEF Handled, Signal, shown
  <2>4. QED BY <2>1, <2>2, <2>3 DEF SessionInv, SessionTypeOK, HandlersTaken, TerminalHeld
<1>2. CASE Raised
  <2>1. at \notin InLoop
    BY <1>2 DEF Raised, SessionInv, HandlersTaken
  <2>2. /\ at' \in {"returned", "give back", "unregister"}
        /\ exit' \in {exit, "escaped"}
        /\ UNCHANGED <<tty, life, cleanup, snapshot, view>>
    BY <1>2 DEF Raised, Signal, shown, Goto
  <2>3. signals' \in [handler : [Signals -> {"original", "session"}], saved : SUBSET Signals,
                    wakeup : BOOLEAN, pipe : {"closed", "empty", "byte"}, interrupt : BOOLEAN]
    <3>1. signals' = signals \/ \E s2 : signals' = [signals EXCEPT !.saved = @ \ {s2}]
      BY <1>2 DEF Raised
    <3>2. ASSUME NEW s2, signals' = [signals EXCEPT !.saved = @ \ {s2}]
          PROVE  signals' \in [handler : [Signals -> {"original", "session"}], saved : SUBSET Signals,
                    wakeup : BOOLEAN, pipe : {"closed", "empty", "byte"}, interrupt : BOOLEAN]
      BY <3>2 DEF SessionInv, SessionTypeOK
    <3>3. QED BY <3>1, <3>2 DEF SessionInv, SessionTypeOK
  <2>4. SessionTypeOK'
    <3>1. at' \in Places
      BY <2>2 DEF Places
    <3>2. exit' \in {"none", "quit", "failed", "interrupted", "escaped"}
      BY <2>2 DEF SessionInv, SessionTypeOK
    <3>3. QED BY <2>2, <2>3, <3>1, <3>2 DEF SessionInv, SessionTypeOK
  <2>5. HandlersTaken' /\ TerminalHeld'
    BY <2>1, <2>2 DEF SessionInv, HandlersTaken, TerminalHeld, InLoop
  <2>6. QED BY <2>4, <2>5 DEF SessionInv
<1>3. CASE Killed
  BY <1>3 DEF SessionInv, SessionTypeOK, HandlersTaken, TerminalHeld, Killed, Signal, shown
<1>4. QED BY <1>1, <1>2, <1>3 DEF Signal

\* A terminal that has hung up is nobody's to restore.
LEMMA HangUpKeeps ==
    ASSUME SessionInv, HangUp
    PROVE  SessionInv'
<1>1. tty' = [tty EXCEPT !.lost = TRUE]
      /\ UNCHANGED <<at, signals, cleanup, exit, life, snapshot, view>>
  BY DEF HangUp, shown
<1>2. /\ tty' \in [raw : BOOLEAN, alternate : BOOLEAN, lost : BOOLEAN, height : Nat]
      /\ tty'.lost
  BY <1>1 DEF SessionInv, SessionTypeOK
<1>3. QED BY <1>1, <1>2 DEF SessionInv, SessionTypeOK, HandlersTaken, TerminalHeld

\* Whoever moves, the session, its user or the world, keeps the invariant.
LEMMA SessionKeeps ==
    ASSUME SessionInv, SessionStep \/ UserStep \/ WorldStep
    PROVE  SessionInv'
<1>1. life = "running"
  BY DEF SessionStep, UserStep, WorldStep
<1>2. CASE SessionStep
  BY <1>1, <1>2, TakingKeeps, LoopKeeps, RestoringKeeps DEF SessionStep
<1>3. CASE UserStep
  BY <1>1, <1>3, LoopKeeps DEF UserStep
<1>4. CASE WorldStep
  BY <1>1, <1>4, SignalsKeep, HangUpKeeps DEF WorldStep
<1>5. QED BY <1>2, <1>3, <1>4

\* The terminal is opened on some size with a first snapshot.
LEMMA OpeningKeeps ==
    ASSUME SessionInv, Opened
    PROVE  SessionInv'
<1>1. snapshot' \in [Tables -> 0..100]
  BY DashboardAssumption DEF Opened
<1>2. /\ tty' \in [raw : BOOLEAN, alternate : BOOLEAN, lost : BOOLEAN, height : Nat]
      /\ tty'.raw = tty.raw /\ tty'.alternate = tty.alternate /\ tty'.lost = tty.lost
  BY DashboardAssumption DEF Opened, SessionInv, SessionTypeOK
<1>3. UNCHANGED <<at, signals, cleanup, exit, life, view>>
  BY DEF Opened
<1>4. QED BY <1>1, <1>2, <1>3 DEF SessionInv, SessionTypeOK, HandlersTaken, TerminalHeld

\* A session starts with the terminal and the handlers untouched.
LEMMA SessionStarts == DashboardInit => SessionInv
<1>1. SUFFICES ASSUME DashboardInit PROVE SessionInv
  OBVIOUS
<1>2. SessionTypeOK
  BY <1>1 DEF DashboardInit, SessionTypeOK, Places, MinRows, Views, Panels, Tables, Signals
<1>3. QED BY <1>1, <1>2 DEF DashboardInit, SessionInv, HandlersTaken, TerminalHeld, InLoop

-----------------------------------------------------------------------------
(* What a frame shows. *)

\* The window of a panel with lines for rows holds the selected row.
\* (window_start)
LEMMA WindowHoldsSelection ==
    ASSUME NEW selected \in Nat, NEW total \in Nat, NEW visible \in Nat \ {0}, selected < total
    PROVE  /\ WindowStart(selected, total, visible) \in Nat
           /\ WindowStart(selected, total, visible) <= selected
           /\ selected <= WindowStart(selected, total, visible) + visible - 1
<1>1. CASE total <= visible
  BY <1>1 DEF WindowStart
<1>2. CASE ~(total <= visible)
  <2>1. CASE selected - visible + 1 > 0
    BY <1>2, <2>1 DEF WindowStart
  <2>2. CASE ~(selected - visible + 1 > 0)
    BY <1>2, <2>2 DEF WindowStart
  <2>3. QED BY <2>1, <2>2
<1>3. QED BY <1>1, <1>2

\* A terminal high enough for the layout has lines for rows in both panels.
LEMMA PanelsHaveLines ==
    ASSUME tty.height \in Nat, tty.height >= MinRows, NEW table \in Tables
    PROVE  VisibleRows(table) \in Nat \ {0}
<1>1. PICK half \in Nat : half = (tty.height - 7) \div 2 /\ half >= 8 /\ 2 * half <= tty.height - 7
  <2>1. tty.height - 7 \in Nat /\ tty.height - 7 >= 17
    BY DEF MinRows
  <2>2. \A n \in Nat : n >= 17 =>
            n \div 2 \in Nat /\ n \div 2 >= 8 /\ 2 * (n \div 2) <= n
    OBVIOUS
  <2>3. QED BY <2>1, <2>2
<1>2. VisibleRows(table) = (IF table = "executions" THEN half ELSE tty.height - 7 - half) - 3
  BY <1>1 DEF VisibleRows
<1>3. QED BY <1>1, <1>2 DEF MinRows

\* The selected row of a table with rows is one of its rows.
LEMMA SelectionIsARow ==
    ASSUME SessionTypeOK, NEW table \in Tables, snapshot[table] > 0
    PROVE  Selected(table) \in Nat /\ Selected(table) < snapshot[table]
<1>1. snapshot[table] \in Nat /\ LastRow(table) = snapshot[table] - 1
  BY DEF SessionTypeOK, LastRow
<1>2. view[table] \in Nat
  BY DEF SessionTypeOK, Views, Tables
<1>3. QED BY <1>1, <1>2 DEF Selected

\* Whatever the snapshot, the selection and the height, the frame shows the
\* selected rows.
LEMMA FramesShowSelection == SessionTypeOK => SelectionShown
<1>1. SUFFICES ASSUME SessionTypeOK, tty.height >= MinRows,
                      NEW table \in Tables, snapshot[table] > 0
               PROVE  Selected(table) \in Shown(table)
  BY DEF SelectionShown
<1>2. tty.height \in Nat /\ snapshot[table] \in Nat
  BY <1>1 DEF SessionTypeOK
<1>3. PICK selected \in Nat : selected = Selected(table) /\ selected < snapshot[table]
  BY <1>1, SelectionIsARow
<1>4. PICK visible \in Nat \ {0} : visible = VisibleRows(table)
  BY <1>1, <1>2, PanelsHaveLines
<1>5. PICK start \in Nat : /\ start = WindowStart(selected, snapshot[table], visible)
                           /\ start <= selected /\ selected <= start + visible - 1
  BY <1>2, <1>3, <1>4, WindowHoldsSelection
<1>6. Shown(table) = start .. (IF start + visible - 1 < snapshot[table] - 1
                               THEN start + visible - 1 ELSE snapshot[table] - 1)
  BY <1>1, <1>2, <1>3, <1>4, <1>5 DEF Shown, MinRows
<1>7. QED BY <1>2, <1>3, <1>4, <1>5, <1>6

-----------------------------------------------------------------------------
(* The invocation: its inductive invariant. *)

\* What main() has ended with tells what became of the operation: an error
\* that is no success, an interrupt only when there was one, or a result with
\* the change it stands for.
Pending ==
    \/ \E error :
           /\ main = RaisedError(error) /\ ~Succeeded
           /\ interrupted <=> error = "KeyboardInterrupt"
    \/ /\ asked.command # "dashboard" /\ ~interrupted
       /\ \E result \in Results(asked.command) :
              /\ main = Returned(0, result) /\ truth = "success"
              /\ mutated \in Mutates(asked.command, result)
    \/ /\ ~interrupted /\ truth = "cancelled"
       /\ \E result : main = Returned(3, result)

\* Nothing is printed, and nothing is known, before the phase that brings it.
Quiet ==
    /\ phase \in {"begin", "parse", "serve", "session", "report"} => stdout = <<>>
    /\ phase \in {"begin", "parse", "serve", "session"} => ~mutated /\ ~interrupted
    /\ phase \in {"parse", "serve", "session", "report"} /\ asked.command = "dashboard" =>
           Format = "text"
    /\ phase = "session" => asked.command = "dashboard"

CommandInv ==
    /\ SessionInv
    /\ asked \in Invocations
    /\ phase \in {"begin", "parse", "serve", "session", "report", "done"}
    /\ mutated \in BOOLEAN /\ interrupted \in BOOLEAN
    /\ Quiet
    /\ phase = "report" => Pending
    /\ ReportAgrees
    /\ ChangedIsTrue

-----------------------------------------------------------------------------
(* Rendering. *)

\* No error has the exit code of a success, and only an interrupt has its own.
\* (the exit_code of the error classes)
LEMMA ErrorsHaveCodes ==
    ASSUME NEW error
    PROVE  ExitCode(error) # 0 /\ (ExitCode(error) = 130 <=> error = "KeyboardInterrupt")
  BY DEF ExitCode

\* What render_error leaves: no code of a success, one document that says so.
LEMMA ErrorsAreRendered ==
    ASSUME stdout = <<>>, NEW error, RenderError(error)
    PROVE  /\ code' # 0 /\ (code' = 130 <=> error = "KeyboardInterrupt") /\ phase' = "done"
           /\ Format \in Machine => /\ stdout' # <<>>
                                    /\ stdout'[Len(stdout')].status = "error"
           /\ \A i \in 1..Len(stdout') : ~stdout'[i].changed
<1>1. code' # 0 /\ (code' = 130 <=> error = "KeyboardInterrupt") /\ phase' = "done"
  BY ErrorsHaveCodes DEF RenderError
<1>2. CASE Format \in Machine
  <2>1. stdout' = <<Document("error", FALSE)>>
    <3>1. stdout' = Append(<<>>, Document("error", FALSE))
      BY <1>2 DEF RenderError
    <3>2. QED BY <3>1
  <2>2. /\ stdout' # <<>> /\ Len(stdout') = 1 /\ stdout'[1] = Document("error", FALSE)
    BY <2>1
  <2>3. \A i \in 1..Len(stdout') : i = 1
    BY <2>2
  <2>4. QED BY <1>1, <2>2, <2>3 DEF Document
<1>3. CASE Format \notin Machine
  <2>1. stdout' = <<>>
    BY <1>3 DEF RenderError
  <2>2. QED BY <1>1, <1>3, <2>1
<1>4. QED BY <1>2, <1>3

\* What a success leaves in a machine format.
LEMMA SuccessesAreRendered ==
    ASSUME stdout = <<>>, NEW changed \in BOOLEAN, RenderSuccess(changed)
    PROVE  /\ code' = 0 /\ code' # 130 /\ phase' = "done"
           /\ stdout' # <<>> /\ stdout'[Len(stdout')].status = "success"
           /\ \A i \in 1..Len(stdout') : stdout'[i].changed = changed
<1>1. code' = 0 /\ phase' = "done" /\ stdout' = <<Document("success", changed)>>
  BY DEF RenderSuccess, Document
<1>2. /\ stdout' # <<>> /\ Len(stdout') = 1 /\ stdout'[1] = Document("success", changed)
  BY <1>1
<1>3. \A i \in 1..Len(stdout') : i = 1
  BY <1>2
<1>4. QED BY <1>1, <1>2, <1>3 DEF Document

\* But for retention, what is reported as a change is one.
\* (_legacy_result_changed)
LEMMA ChangesAreReal ==
    ASSUME NEW command \in Commands, NEW result \in Results(command), NEW change \in BOOLEAN,
           change \in Mutates(command, result), command # "event retention",
           Changed(command, result)
    PROVE  change
<1>1. CASE command \in {"state invalidate", "state recover", "execution prune"}
  BY <1>1 DEF Changed, Mutates, Silent
<1>2. CASE command = "event consumer"
  <2>1. result.found = TRUE
    BY <1>2 DEF Results, Result
  <2>2. QED BY <1>2, <2>1 DEF Changed, Mutates, Silent
<1>3. CASE command = "event deliver"
  <2>1. result.applied = TRUE
    BY <1>3 DEF Results, Result
  <2>2. QED BY <1>3, <2>1 DEF Changed, Mutates, Silent
<1>4. QED BY <1>1, <1>2, <1>3 DEF Changed

\* A text is one of three formats, and what main() prints one of two.
LEMMA FormatsAreKnown ==
    ASSUME asked \in Invocations
    PROVE  Format \in Formats /\ Printed(asked) \in {"json", "human"}
  BY DEF Format, RequestedFormat, Formats, Printed

-----------------------------------------------------------------------------
(* What a report says, once it is rendered. *)

\* Before the report there is nothing that could disagree.
LEMMA SilenceAgrees ==
    ASSUME stdout' = <<>>, phase' # "done"
    PROVE  ReportAgrees' /\ ChangedIsTrue'
<1>1. ReportAgrees'
  BY DEF ReportAgrees, Ended
<1>2. 1..Len(stdout') = {}
  <2>1. Len(stdout') = 0
    OBVIOUS
  <2>2. QED BY <2>1
<1>3. ChangedIsTrue'
  BY <1>2 DEF ChangedIsTrue
<1>4. QED BY <1>1, <1>3

\* An error agrees with an operation that has not succeeded, and with any when
\* the format was misread.
LEMMA ErrorAgrees ==
    ASSUME stdout = <<>>, NEW error, RenderError(error), UNCHANGED asked,
           Misread(asked) \/ ~(Succeeded' /\ ~interrupted'),
           error = "KeyboardInterrupt" => interrupted' \/ truth' = "cancelled"
    PROVE  ReportAgrees' /\ ChangedIsTrue'
<1>1. /\ code' # 0 /\ (code' = 130 <=> error = "KeyboardInterrupt")
      /\ Format \in Machine => stdout' # <<>> /\ stdout'[Len(stdout')].status = "error"
      /\ \A i \in 1..Len(stdout') : ~stdout'[i].changed
  BY ErrorsAreRendered
<1>2. Format' = Format /\ (Misread(asked))' = Misread(asked)
  BY DEF Format, Misread
<1>3. ReportAgrees'
  BY <1>1, <1>2 DEF ReportAgrees
<1>4. ChangedIsTrue'
  BY <1>1 DEF ChangedIsTrue
<1>5. QED BY <1>3, <1>4

\* A success agrees with an operation that has succeeded, if the change it
\* reports is one.
LEMMA SuccessAgrees ==
    ASSUME stdout = <<>>, NEW changed \in BOOLEAN, RenderSuccess(changed), UNCHANGED asked,
           Succeeded', ~interrupted',
           asked.command # "event retention" /\ changed => mutated'
    PROVE  ReportAgrees' /\ ChangedIsTrue'
<1>1. /\ code' = 0 /\ code' # 130 /\ stdout' # <<>> /\ stdout'[Len(stdout')].status = "success"
      /\ \A i \in 1..Len(stdout') : stdout'[i].changed = changed
  BY SuccessesAreRendered
<1>2. code' = 0 <=> Succeeded' /\ ~interrupted'
  BY <1>1
<1>3. ReportAgrees'
  BY <1>1, <1>2 DEF ReportAgrees
<1>4. ChangedIsTrue'
  BY <1>1 DEF ChangedIsTrue
<1>5. QED BY <1>3, <1>4

\* So does the text a successful command printed itself.
LEMMA TextAgrees ==
    ASSUME stdout = <<>>, stdout' = Append(stdout, Raw), code' = 0, UNCHANGED asked,
           Format \notin Machine, Succeeded', ~interrupted'
    PROVE  ReportAgrees' /\ ChangedIsTrue'
<1>1. Format' = Format
  BY DEF Format
<1>2. ReportAgrees'
  BY <1>1 DEF ReportAgrees
<1>3. ChangedIsTrue'
  <2>1. stdout' = <<Raw>>
    OBVIOUS
  <2>2. Len(stdout') = 1 /\ stdout'[1] = Raw
    BY <2>1
  <2>3. \A i \in 1..Len(stdout') : ~stdout'[i].changed
    BY <2>2 DEF Raw, Document
  <2>4. QED BY <2>3 DEF ChangedIsTrue
<1>4. QED BY <1>2, <1>3

\* What happens outside a session leaves the terminal alone.
LEMMA TerminalLeftAlone ==
    ASSUME SessionInv, UNCHANGED terminalVars
    PROVE  SessionInv'
  BY DEF SessionInv, SessionTypeOK, HandlersTaken, TerminalHeld, terminalVars

-----------------------------------------------------------------------------
(* The phases of an invocation. *)

\* The checks of cli() before main() runs.
LEMMA BeginKeeps ==
    ASSUME CommandInv, Begin
    PROVE  CommandInv'
<1>1. /\ phase = "begin" /\ stdout = <<>> /\ ~mutated /\ ~interrupted
      /\ UNCHANGED <<asked, mutated, interrupted>> /\ SessionInv'
  BY TerminalLeftAlone DEF CommandInv, Begin, Quiet
<1>2. CASE InvalidOutput(asked) \/ (asked.command = "dashboard" /\ (Format # "text" \/ ~asked.interactive))
  <2>1. truth' = "refused" /\ RenderError("UsageError")
    BY <1>2 DEF Begin
  <2>2. phase' = "done"
    BY <2>1 DEF RenderError
  <2>3. ReportAgrees' /\ ChangedIsTrue'
    BY <1>1, <2>1, ErrorAgrees DEF Succeeded
  <2>4. QED BY <1>1, <2>2, <2>3 DEF CommandInv, Quiet
<1>3. CASE ~(InvalidOutput(asked) \/ (asked.command = "dashboard" /\ (Format # "text" \/ ~asked.interactive)))
  <2>1. phase' = "parse" /\ UNCHANGED stdout /\ (asked.command = "dashboard" => Format = "text")
    BY <1>3 DEF Begin
  <2>2. ReportAgrees' /\ ChangedIsTrue'
    BY <1>1, <2>1, SilenceAgrees
  <2>3. Format' = Format
    BY <1>1 DEF Format
  <2>4. QED BY <1>1, <2>1, <2>2, <2>3 DEF CommandInv, Quiet
<1>4. QED BY <1>2, <1>3

\* argparse goes on, helps, or refuses.
LEMMA ParseKeeps ==
    ASSUME CommandInv, Parse
    PROVE  CommandInv'
<1>1. /\ phase = "parse" /\ stdout = <<>> /\ ~mutated /\ ~interrupted
      /\ (asked.command = "dashboard" => Format = "text")
      /\ UNCHANGED <<asked, mutated, interrupted>> /\ SessionInv'
  BY TerminalLeftAlone DEF CommandInv, Parse, Quiet
<1>2. Format' = Format
  BY <1>1 DEF Format
<1>3. CASE phase' = "serve" /\ UNCHANGED <<truth, stdout, code>>
  <2>1. ReportAgrees' /\ ChangedIsTrue'
    BY <1>1, <1>3, SilenceAgrees
  <2>2. QED BY <1>1, <1>2, <1>3, <2>1 DEF CommandInv, Quiet
<1>4. ASSUME phase' = "done", ReportAgrees' /\ ChangedIsTrue' PROVE CommandInv'
  BY <1>1, <1>4 DEF CommandInv, Quiet
<1>5. CASE truth' = "help" /\ Format \in Machine /\ RenderSuccess(FALSE)
  <2>1. phase' = "done"
    BY <1>5 DEF RenderSuccess
  <2>2. ReportAgrees' /\ ChangedIsTrue'
    BY <1>1, <1>5, SuccessAgrees DEF Succeeded
  <2>3. QED BY <1>4, <2>1, <2>2
<1>6. CASE truth' = "help" /\ Format \notin Machine /\ code' = 0 /\ stdout' = Append(stdout, Raw)
           /\ phase' = "done"
  <2>1. ReportAgrees' /\ ChangedIsTrue'
    BY <1>1, <1>6, TextAgrees DEF Succeeded
  <2>2. QED BY <1>4, <1>6, <2>1
<1>7. CASE truth' = "refused" /\ RenderError("UsageError")
  <2>1. phase' = "done"
    BY <1>7 DEF RenderError
  <2>2. ReportAgrees' /\ ChangedIsTrue'
    BY <1>1, <1>7, ErrorAgrees DEF Succeeded
  <2>3. QED BY <1>4, <2>1, <2>2
<1>8. QED BY <1>3, <1>5, <1>6, <1>7 DEF Parse

\* The service's outcome is what main() ends with.
LEMMA ServeKeeps ==
    ASSUME CommandInv, Serve
    PROVE  CommandInv'
<1>1. /\ phase = "serve" /\ phase' = "report" /\ stdout = <<>> /\ stdout' = <<>>
      /\ mutated = FALSE /\ interrupted = FALSE /\ UNCHANGED asked /\ SessionInv'
      /\ (asked.command = "dashboard" => Format = "text")
  BY TerminalLeftAlone DEF CommandInv, Serve, Quiet
<1>2. Format' = Format /\ ReportAgrees' /\ ChangedIsTrue'
  BY <1>1, SilenceAgrees DEF Format
<1>3. ASSUME Pending', mutated' \in BOOLEAN, interrupted' \in BOOLEAN PROVE CommandInv'
  BY <1>1, <1>2, <1>3 DEF CommandInv, Quiet
<1>4. ASSUME NEW result \in Results(asked.command), asked.command # "dashboard",
             main' = Ending(asked.command, result),
             mutated' \in Mutates(asked.command, result),
             truth' = (IF result.status = "completed" THEN "success" ELSE result.status),
             UNCHANGED interrupted
      PROVE  CommandInv'
  <2>1. mutated' \in BOOLEAN
    <3>1. result.applied \in BOOLEAN /\ result.found \in BOOLEAN
      BY DEF Results, Result, RemovalResults, ValidationResults, RunResults
    <3>2. QED BY <1>4, <3>1 DEF Mutates
  <2>2. CASE result.status = "completed"
    <3>1. main' = Returned(0, result) /\ truth' = "success"
      BY <1>4, <2>2 DEF Ending
    <3>2. Pending'
      BY <1>1, <1>4, <3>1 DEF Pending
    <3>3. QED BY <1>1, <1>3, <1>4, <2>1, <3>2
  <2>3. CASE result.status # "completed" /\ asked.command = "run" /\ result.status = "cancelled"
    <3>1. main' = Returned(3, result) /\ truth' = "cancelled"
      BY <1>4, <2>3 DEF Ending
    <3>2. Pending'
      BY <1>1, <1>4, <3>1 DEF Pending
    <3>3. QED BY <1>1, <1>3, <1>4, <2>1, <3>2
  <2>4. CASE result.status # "completed" /\ ~(asked.command = "run" /\ result.status = "cancelled")
    <3>1. PICK error \in {"PermissionDeniedError", "ExternalToolError"} :
              main' = RaisedError(error)
      BY <1>4, <2>4 DEF Ending
    <3>2. truth' \in {"failed", "timed_out", "cancelled", "denied"}
      <4>1. result.status \in {"completed", "failed", "timed_out", "cancelled", "denied"}
        BY DEF Results, Result, RemovalResults, ValidationResults, RunResults
      <4>2. QED BY <1>4, <2>4, <4>1
    <3>3. Pending'
      BY <1>1, <1>4, <3>1, <3>2 DEF Pending, Succeeded
    <3>4. QED BY <1>1, <1>3, <1>4, <2>1, <3>3
  <2>5. QED BY <2>2, <2>3, <2>4
<1>5. ASSUME NEW error, main' = RaisedError(error), truth' = "failed",
             interrupted' = (error = "KeyboardInterrupt"), mutated' \in BOOLEAN
      PROVE  CommandInv'
  <2>1. Pending'
    BY <1>5 DEF Pending, Succeeded
  <2>2. QED BY <1>3, <1>5, <2>1
<1>6. ASSUME main' = RaisedError("ValidationError"), truth' = "refused",
             UNCHANGED <<mutated, interrupted>>
      PROVE  CommandInv'
  <2>1. Pending'
    BY <1>1, <1>6 DEF Pending, Succeeded
  <2>2. QED BY <1>1, <1>3, <1>6, <2>1
<1>7. CASE asked.command # "dashboard" /\ UNCHANGED interrupted
           /\ \E result \in Results(asked.command) :
                /\ main' = Ending(asked.command, result)
                /\ mutated' \in Mutates(asked.command, result)
                /\ truth' = (IF result.status = "completed" THEN "success" ELSE result.status)
  BY <1>4, <1>7
<1>8. CASE \E error \in Errors(asked.command) \cup {"Exception", "KeyboardInterrupt"} :
             /\ main' = RaisedError(error)
             /\ mutated' \in (IF asked.command = "dashboard" THEN {FALSE} ELSE BOOLEAN)
             /\ truth' = "failed" /\ interrupted' = (error = "KeyboardInterrupt")
  BY <1>5, <1>8
<1>9. QED BY <1>6, <1>7, <1>8 DEF Serve

\* cli() renders what main() has ended with.
LEMMA ReportKeeps ==
    ASSUME CommandInv, Report
    PROVE  CommandInv'
<1>1. /\ phase = "report" /\ stdout = <<>> /\ Pending /\ SessionInv'
      /\ UNCHANGED <<asked, main, truth, mutated, interrupted>>
  BY TerminalLeftAlone DEF CommandInv, Report, Quiet
<1>2. ASSUME phase' = "done", ReportAgrees' /\ ChangedIsTrue' PROVE CommandInv'
  BY <1>1, <1>2 DEF CommandInv, Quiet
<1>3. Format \in Formats /\ Printed(asked) \in {"json", "human"}
  BY FormatsAreKnown DEF CommandInv
<1>4. ASSUME NEW error, main = RaisedError(error), ~Succeeded,
             interrupted <=> error = "KeyboardInterrupt"
      PROVE  CommandInv'
  <2>1. RenderError(error)
    BY <1>4 DEF Report, RaisedError
  <2>2. phase' = "done"
    BY <2>1 DEF RenderError
  <2>3. ~Succeeded'
    BY <1>1, <1>4 DEF Succeeded
  <2>4. ReportAgrees' /\ ChangedIsTrue'
    BY <1>1, <1>4, <2>1, <2>3, ErrorAgrees
  <2>5. QED BY <1>2, <2>2, <2>4
<1>5. ASSUME asked.command # "dashboard", ~interrupted, truth = "success",
             NEW result \in Results(asked.command), main = Returned(0, result),
             mutated \in Mutates(asked.command, result)
      PROVE  CommandInv'
  <2>1. Succeeded' /\ ~interrupted'
    BY <1>1, <1>5 DEF Succeeded
  <2>2. /\ main.how = "returned" /\ main.status = 0 /\ main.result = result
    BY <1>5 DEF Returned
  <2>3. CASE Format = "text"
    <3>1. code' = 0 /\ stdout' = Append(stdout, Raw) /\ phase' = "done"
      BY <2>2, <2>3 DEF Report, RenderText
    <3>2. Format \notin Machine
      BY <2>3 DEF Machine
    <3>3. ReportAgrees' /\ ChangedIsTrue'
      BY <1>1, <2>1, <3>1, <3>2, TextAgrees
    <3>4. QED BY <1>2, <3>1, <3>3
  <2>4. CASE Format # "text" /\ Printed(asked) = "json"
    <3>1. RenderSuccess(Changed(asked.command, result))
      BY <2>2, <2>4 DEF Report, RenderBuffered
    <3>2. phase' = "done"
      BY <3>1 DEF RenderSuccess
    <3>3. PICK changed \in BOOLEAN : changed = Changed(asked.command, result)
      BY DEF Changed, Results, Result, RemovalResults
    <3>4. asked.command # "event retention" /\ changed => mutated'
      <4>1. asked.command \in Commands
        BY DEF CommandInv, Invocations
      <4>2. PICK command \in Commands : command = asked.command
        BY <4>1
      <4>3. PICK change \in BOOLEAN : change = mutated
        BY DEF CommandInv
      <4>4. SUFFICES ASSUME command # "event retention", changed PROVE change
        BY <1>1, <4>2, <4>3
      <4>5. result \in Results(command) /\ change \in Mutates(command, result)
            /\ Changed(command, result)
        BY <1>5, <3>3, <4>2, <4>3, <4>4
      <4>6. QED BY <4>4, <4>5, ChangesAreReal
    <3>5. RenderSuccess(changed)
      BY <3>1, <3>3
    <3>6. ReportAgrees' /\ ChangedIsTrue'
      BY <1>1, <2>1, <3>4, <3>5, SuccessAgrees
    <3>7. QED BY <1>2, <3>2, <3>6
  <2>5. CASE Format # "text" /\ Printed(asked) # "json"
    <3>1. RenderError("Exception")
      BY <2>2, <2>5 DEF Report, RenderBuffered
    <3>2. phase' = "done"
      BY <3>1 DEF RenderError
    <3>3. Misread(asked)
      BY <1>3, <2>5 DEF Misread, Format, Formats, Machine
    <3>4. ReportAgrees' /\ ChangedIsTrue'
      BY <1>1, <3>1, <3>3, ErrorAgrees
    <3>5. QED BY <1>2, <3>2, <3>4
  <2>6. QED BY <2>3, <2>4, <2>5
<1>6. ASSUME ~interrupted, truth = "cancelled", NEW result, main = Returned(3, result)
      PROVE  CommandInv'
  <2>1. main.how = "returned" /\ main.status = 3
    BY <1>6 DEF Returned
  <2>2. RenderError("KeyboardInterrupt")
    BY <2>1 DEF Report, RenderText, RenderBuffered
  <2>3. phase' = "done"
    BY <2>2 DEF RenderError
  <2>4. ~Succeeded' /\ truth' = "cancelled"
    BY <1>1, <1>6 DEF Succeeded
  <2>5. ReportAgrees' /\ ChangedIsTrue'
    BY <1>1, <2>2, <2>4, ErrorAgrees
  <2>6. QED BY <1>2, <2>3, <2>5
<1>7. QED BY <1>1, <1>4, <1>5, <1>6 DEF Pending

\* Ctrl-C while a result is written.
LEMMA InterruptReportKeeps ==
    ASSUME CommandInv, InterruptReport
    PROVE  CommandInv'
<1>1. /\ phase = "report" /\ stdout = <<>> /\ SessionInv'
      /\ UNCHANGED <<asked, main, truth, mutated>>
      /\ interrupted' = TRUE /\ phase' = "done"
  BY TerminalLeftAlone DEF CommandInv, InterruptReport, Quiet
<1>2. code' # 0
  BY ErrorsHaveCodes DEF InterruptReport
<1>3. PICK changed \in BOOLEAN : changed = Changed(asked.command, main.result)
                 /\ (asked.command # "event retention" /\ changed => mutated)
  <2>1. \E result \in Results(asked.command) :
            main.result = result /\ mutated \in Mutates(asked.command, result)
    BY <1>1 DEF InterruptReport, CommandInv, Pending, Returned, RaisedError
  <2>2. PICK result \in Results(asked.command) :
            main.result = result /\ mutated \in Mutates(asked.command, result)
    BY <2>1
  <2>3. asked.command \in Commands
    BY DEF CommandInv, Invocations
  <2>4. PICK command \in Commands : command = asked.command
    BY <2>3
  <2>5. PICK change \in BOOLEAN : change = mutated
    BY DEF CommandInv
  <2>6. PICK changed \in BOOLEAN : changed = Changed(command, result)
    BY <2>2, <2>4 DEF Changed, Results, Result, RemovalResults
  <2>7. command # "event retention" /\ changed => change
    BY <2>2, <2>4, <2>5, <2>6, ChangesAreReal
  <2>8. QED BY <2>2, <2>4, <2>5, <2>6, <2>7
<1>4. Format' = Format
  BY <1>1 DEF Format
<1>5. CASE Format = "text"
  <2>1. stdout' = <<>> \/ stdout' = <<Raw>>
    BY <1>1, <1>5 DEF InterruptReport
  <2>2. \A i \in 1..Len(stdout') : ~stdout'[i].changed
    BY <2>1 DEF Raw, Document
  <2>3. ReportAgrees'
    BY <1>1, <1>2, <1>4, <1>5 DEF ReportAgrees, Machine
  <2>4. ChangedIsTrue'
    BY <2>2 DEF ChangedIsTrue
  <2>5. QED BY <1>1, <2>3, <2>4 DEF CommandInv, Quiet
<1>6. CASE Format # "text"
  <2>1. \/ stdout' = <<Document("error", FALSE)>>
        \/ stdout' = <<Document("success", changed), Document("error", FALSE)>>
    <3>1. \/ stdout' = stdout \o <<Document("error", FALSE)>>
          \/ stdout' = stdout \o <<Document("success", changed), Document("error", FALSE)>>
      BY <1>3, <1>6 DEF InterruptReport
    <3>2. \A d : <<>> \o <<d>> = <<d>>
      OBVIOUS
    <3>3. \A d, e : <<>> \o <<d, e>> = <<d, e>>
      OBVIOUS
    <3>4. QED BY <1>1, <3>1, <3>2, <3>3
  <2>2. /\ stdout' # <<>> /\ stdout'[Len(stdout')].status = "error"
        /\ \A i \in 1..Len(stdout') : stdout'[i].changed => changed
    <3>1. CASE stdout' = <<Document("error", FALSE)>>
      <4>1. Len(stdout') = 1 /\ stdout'[1] = Document("error", FALSE) /\ stdout' # <<>>
        BY <3>1
      <4>2. \A i \in 1..Len(stdout') : i = 1
        BY <4>1
      <4>3. QED BY <4>1, <4>2 DEF Document
    <3>2. CASE stdout' = <<Document("success", changed), Document("error", FALSE)>>
      <4>1. /\ Len(stdout') = 2 /\ stdout' # <<>>
            /\ stdout'[1] = Document("success", changed) /\ stdout'[2] = Document("error", FALSE)
        BY <3>2
      <4>2. \A i \in 1..Len(stdout') : i = 1 \/ i = 2
        BY <4>1
      <4>3. QED BY <4>1, <4>2 DEF Document
    <3>3. QED BY <2>1, <3>1, <3>2
  <2>3. ReportAgrees'
    BY <1>1, <1>2, <2>2 DEF ReportAgrees
  <2>4. ChangedIsTrue'
    BY <1>1, <1>3, <2>2 DEF ChangedIsTrue
  <2>5. QED BY <1>1, <2>3, <2>4 DEF CommandInv, Quiet
<1>7. QED BY <1>5, <1>6

\* The dashboard: opened in text only, and its end reported.
LEMMA DashboardKeeps ==
    ASSUME CommandInv, OpenDashboard \/ Session \/ CloseDashboard
    PROVE  CommandInv'
<1>1. CASE OpenDashboard
  <2>1. /\ phase = "serve" /\ phase' = "session" /\ stdout = <<>> /\ stdout' = <<>>
        /\ asked.command = "dashboard" /\ Format = "text" /\ ~mutated /\ ~interrupted
        /\ UNCHANGED <<asked, mutated, interrupted>> /\ SessionInv'
    BY <1>1, OpeningKeeps DEF CommandInv, OpenDashboard, Quiet
  <2>2. Format' = Format /\ ReportAgrees' /\ ChangedIsTrue'
    BY <2>1, SilenceAgrees DEF Format
  <2>3. QED BY <2>1, <2>2 DEF CommandInv, Quiet
<1>2. CASE Session
  <2>1. phase = "session" /\ stdout = <<>> /\ UNCHANGED commandVars /\ SessionInv'
    BY <1>2, SessionKeeps DEF CommandInv, Session, Quiet
  <2>2. ReportAgrees' /\ ChangedIsTrue'
    BY <2>1, SilenceAgrees DEF commandVars
  <2>3. Format' = Format
    BY <2>1 DEF Format, commandVars
  <2>4. QED BY <2>1, <2>2, <2>3 DEF CommandInv, Quiet, commandVars
<1>3. CASE CloseDashboard
  <2>1. /\ phase = "session" /\ stdout = <<>> /\ ~mutated /\ asked.command = "dashboard"
        /\ Format = "text" /\ UNCHANGED <<asked, main, mutated>> /\ SessionInv'
    BY <1>3, TerminalLeftAlone DEF CommandInv, CloseDashboard, Quiet
  <2>2. ASSUME phase' = "done", ReportAgrees' /\ ChangedIsTrue' PROVE CommandInv'
    <3>1. interrupted' \in BOOLEAN
      BY <1>3 DEF CloseDashboard
    <3>2. QED BY <2>1, <2>2, <3>1 DEF CommandInv, Quiet
  <2>3. CASE life = "killed"
    <3>1. phase' = "done" /\ truth' = "killed" /\ stdout' = <<>>
      BY <1>3, <2>1, <2>3 DEF CloseDashboard
    <3>2. ReportAgrees'
      BY <3>1 DEF ReportAgrees, Ended
    <3>3. ChangedIsTrue'
      <4>1. 1..Len(stdout') = {}
        <5>1. Len(stdout') = 0
          BY <3>1
        <5>2. QED BY <5>1
      <4>2. QED BY <4>1 DEF ChangedIsTrue
    <3>4. QED BY <2>2, <3>1, <3>2, <3>3
  <2>4. CASE life = "ended" /\ exit = "quit"
    <3>1. phase' = "done" /\ truth' = "quit" /\ stdout' = <<>> /\ code' = 0 /\ ~interrupted'
      BY <1>3, <2>1, <2>4 DEF CloseDashboard
    <3>2. Format' = Format
      BY <2>1 DEF Format
    <3>3. ReportAgrees'
      BY <2>1, <3>1, <3>2 DEF ReportAgrees, Succeeded, Machine
    <3>4. ChangedIsTrue'
      <4>1. 1..Len(stdout') = {}
        <5>1. Len(stdout') = 0
          BY <3>1
        <5>2. QED BY <5>1
      <4>2. QED BY <4>1 DEF ChangedIsTrue
    <3>5. QED BY <2>2, <3>1, <3>3, <3>4
  <2>5. CASE life = "ended" /\ exit \in {"interrupted", "escaped"}
    <3>1. truth' \in {"interrupted", "escaped"} /\ interrupted' /\ RenderError("KeyboardInterrupt")
      BY <1>3, <2>5 DEF CloseDashboard
    <3>2. phase' = "done"
      BY <3>1 DEF RenderError
    <3>3. ReportAgrees' /\ ChangedIsTrue'
      BY <2>1, <3>1, ErrorAgrees DEF Succeeded
    <3>4. QED BY <2>2, <3>2, <3>3
  <2>6. CASE life = "ended" /\ exit \in {"none", "failed"}
    <3>1. truth' \in {"none", "failed"} /\ RenderError("DashboardTerminalError")
      BY <1>3, <2>6 DEF CloseDashboard
    <3>2. phase' = "done"
      BY <3>1 DEF RenderError
    <3>3. ReportAgrees' /\ ChangedIsTrue'
      BY <2>1, <3>1, ErrorAgrees DEF Succeeded
    <3>4. QED BY <2>2, <3>2, <3>3
  <2>7. QED BY <1>3, <2>3, <2>4, <2>5, <2>6
            DEF CloseDashboard, CommandInv, SessionInv, SessionTypeOK
<1>4. QED BY <1>1, <1>2, <1>3

\* An invocation starts with nothing reported and the terminal its user's.
LEMMA InvocationStarts == Init => CommandInv
<1>1. SUFFICES ASSUME Init PROVE CommandInv
  OBVIOUS
<1>2. SessionInv
  BY <1>1, SessionStarts DEF Init
<1>3. asked \in Invocations
  BY <1>1, AskedAssumption DEF Init
<1>4. ReportAgrees /\ ChangedIsTrue
  BY <1>1 DEF Init, ReportAgrees, Ended, ChangedIsTrue
<1>5. QED BY <1>1, <1>2, <1>3, <1>4 DEF Init, CommandInv, Quiet

-----------------------------------------------------------------------------
(* The results. *)

\* Whatever is asked, whatever the service does, whenever an interrupt comes:
\* the phases of an invocation, and the places of a session, keep the
\* invariant.  (cli, main, TerminalSession.run)
THEOREM CommandInvariant == Spec => []CommandInv
<1>1. Init => CommandInv
  BY InvocationStarts
<1>2. CommandInv /\ [Next]_vars => CommandInv'
  <2>1. SUFFICES ASSUME CommandInv, [Next]_vars PROVE CommandInv'
    OBVIOUS
  <2>2. CASE Next
    BY <2>1, <2>2, BeginKeeps, ParseKeeps, ServeKeeps, ReportKeeps, InterruptReportKeeps,
       DashboardKeeps DEF Next
  <2>3. CASE UNCHANGED vars
    <3>1. UNCHANGED commandVars /\ SessionInv'
      BY <2>1, <2>3, TerminalLeftAlone DEF vars, CommandInv
    <3>2. Format' = Format /\ ReportAgrees' /\ ChangedIsTrue' /\ Quiet'
      <4>1. Format' = Format /\ Ended' = Ended /\ Succeeded' = Succeeded /\ Misread(asked)' = Misread(asked)
        BY <3>1 DEF commandVars, Format, Ended, Succeeded, Misread
      <4>2. ReportAgrees'
        BY <2>1, <3>1, <4>1 DEF CommandInv, commandVars, ReportAgrees
      <4>3. ChangedIsTrue' /\ Quiet'
        BY <2>1, <3>1, <4>1 DEF CommandInv, commandVars, ChangedIsTrue, Quiet
      <4>4. QED BY <4>1, <4>2, <4>3
    <3>3. phase = "report" => Pending'
      BY <2>1, <3>1 DEF CommandInv, commandVars, Pending, Succeeded
    <3>4. QED BY <2>1, <3>1, <3>2, <3>3 DEF CommandInv, commandVars
  <2>4. QED BY <2>1, <2>2, <2>3
<1>3. QED BY <1>1, <1>2, PTL DEF Spec

\* The exit code and the last document on stdout tell what became of the
\* operation, in every output format.  (cli, render_error, render_success)
THEOREM ReportsAgree == Spec => []ReportAgrees
<1>1. CommandInv => ReportAgrees
  BY DEF CommandInv
<1>2. QED BY <1>1, CommandInvariant, PTL

\* Nothing is reported as changed that was not.  (_legacy_result_changed)
THEOREM ChangesAreTrue == Spec => []ChangedIsTrue
<1>1. CommandInv => ChangedIsTrue
  BY DEF CommandInv
<1>2. QED BY <1>1, CommandInvariant, PTL

\* However the process ends, and however many signals and failures it met on
\* the way, the user's terminal has been given back.  (TerminalSession.restore)
THEOREM TerminalIsRestored == Spec => []TerminalRestored
<1>1. CommandInv => TerminalRestored
  BY DEF CommandInv, SessionInv, TerminalHeld, TerminalRestored, InLoop
<1>2. QED BY <1>1, CommandInvariant, PTL

\* A frame shows the selected row of each table, for every snapshot and every
\* height that has room for the layout.  (_build_frame, window_start)
THEOREM SelectionIsShown == Spec => []SelectionShown
<1>1. CommandInv => SelectionShown
  BY FramesShowSelection DEF CommandInv, SessionInv
<1>2. QED BY <1>1, CommandInvariant, PTL
=============================================================================
