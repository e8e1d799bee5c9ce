----------------------- MODULE ExecutionHistoryProofs -----------------------
(***************************************************************************)
(* What the private event log keeps and refers to, proved for any number   *)
(* of executions and prunes, and for kills, failing calls and recoveries   *)
(* at any time, as long as no recovery puts back a log used since.         *)
(***************************************************************************)
EXTENDS ExecutionRunProofs, SequenceTheorems

-----------------------------------------------------------------------------
(* The inductive invariant. *)

\* A backup and a durable intent: they are undone or ended by the prune that
\* has the lock, or left to a recovery.
Interrupted(p) == undo[p] # NoUndo

Locks ==
    \A p \in Pruners :
        /\ pruner[p].step \in Live => lock = p
        /\ pruner[p].step \in {"intended", "replaced"} => Interrupted(p)
        /\ Interrupted(p) => pruner[p].step \in {"intended", "replaced", "killed"}

\* Lines that are in the log, or would be again after a recovery.
Known(line) ==
    line \in ToSet(log) \/ \E p \in Pruners : Interrupted(p) /\ line \in ToSet(undo[p].before)

\* A line whose outputs are gone, or about to be removed.
Dead(line) ==
    /\ line.refs
    /\ \/ line.id \notin outputs
       \/ \E p \in Pruners : At(p, "committed") /\ \E g \in ToSet(pruner[p].gone) : g.id = line.id

UniqueIds(lines) ==
    \A i, j \in DOMAIN lines : lines[i].id = lines[j].id => i = j \/ lines[i] = TornLine

OneLineEach ==
    /\ UniqueIds(log)
    /\ \A k, l \in Line : Known(k) /\ Known(l) /\ k.id = l.id => k = l
    /\ \A k \in Line : Known(k) /\ k.id = NoProc => k = TornLine

\* A prune that has read the log holds it still, its backup is that log, and
\* the lines it removes are not named by the log it puts in its place.
Reads(p) ==
    pruner[p].step \in {"read", "intended"} =>
        ~Torn(log) /\ pruner[p].old = log /\ pruner[p].gone = Removed(log, pruner[p].keep)

Replaces(p) ==
    /\ pruner[p].step \in {"intended", "replaced"} => log = undo[p].left
    /\ At(p, "intended") => log = undo[p].before
    /\ At(p, "replaced") =>
        \A g \in ToSet(pruner[p].gone) :
            g \in ToSet(undo[p].before) /\ \A l \in ToSet(log) : l.id # g.id

\* An interrupted replacement can be taken back.  It only adds lines, and no
\* line of the backup is dead, nor is it one that another replacement has
\* removed, unless it has been in the log all the time.
CanBeUndone(p) ==
    Interrupted(p) =>
        /\ ToSet(undo[p].left) \subseteq ToSet(undo[p].before)
        /\ UniqueIds(undo[p].before)
        /\ TornLine \notin ToSet(undo[p].before)
        /\ ToSet(log) \cap ToSet(undo[p].before) \subseteq ToSet(undo[p].left)
        /\ \A l \in ToSet(undo[p].before) : Dead(l) => l \in ToSet(undo[p].left)
        /\ \A q \in Pruners \ {p} : Interrupted(q) =>
               ToSet(undo[p].before) \cap ToSet(undo[q].before)
                   \subseteq ToSet(undo[p].left) \cup ToSet(undo[q].left)

\* A run writes its record once.
Unlogged(r) ==
    \/ step[r] \in (Preparing \ {"digest"}) \cup {"idle", "running", "persist", "log", "logbare"}
    \/ Is(r, "digest") /\ Op(r) = "run"

Fresh == \A r \in Runs : Unlogged(r) => \A k \in Line : Known(k) => k.id # r

AllAlive == \A l \in ToSet(log) : ~Dead(l)

Sound ==
    /\ OneLineEach /\ Fresh /\ AllAlive
    /\ \A p \in Pruners : Reads(p) /\ Replaces(p) /\ CanBeUndone(p)

HistoryInv == HistoryTypeOK /\ Locks /\ (clobbered \/ Sound)

-----------------------------------------------------------------------------
(* Lines of a log. *)

\* What retention writes back and what it removes are the log, and a log that
\* names each execution once has nothing in both.  (ExecutionHistory.prune)
LEMMA Retention ==
    ASSUME NEW lines \in Seq(Line), NEW keep \in Nat
    PROVE  /\ Excess(lines, keep) \in 0..Len(lines)
           /\ Retained(lines, keep) \in Seq(Line) /\ Removed(lines, keep) \in Seq(Line)
           /\ ToSet(Retained(lines, keep)) \subseteq ToSet(lines)
           /\ ToSet(Removed(lines, keep)) \subseteq ToSet(lines)
           /\ \A i \in DOMAIN lines :
                  i > Excess(lines, keep) => lines[i] \in ToSet(Retained(lines, keep))
           /\ UniqueIds(lines) /\ TornLine \notin ToSet(lines) =>
                  /\ UniqueIds(Retained(lines, keep))
                  /\ \A g \in ToSet(Removed(lines, keep)), l \in ToSet(Retained(lines, keep)) :
                         l.id # g.id
<1> DEFINE x == Excess(lines, keep)
           n == Len(lines)
<1>1. n \in Nat /\ DOMAIN lines = 1..n /\ \A i \in 1..n : lines[i] \in Line
  OBVIOUS
<1>2. x \in 0..n
  BY <1>1 DEF Excess
<1> HIDE DEF x, n
<1>3. /\ Retained(lines, keep) \in Seq(Line)
      /\ Len(Retained(lines, keep)) = n - x
      /\ \A i \in 1..n - x : Retained(lines, keep)[i] = lines[x + i]
  <2>1. x + 1 \in Int /\ n \in Int /\ \A i \in (x + 1)..n : lines[i] \in Line
    BY <1>1, <1>2
  <2>2. /\ SubSeq(lines, x + 1, n) \in Seq(Line)
        /\ Len(SubSeq(lines, x + 1, n)) = IF x + 1 <= n THEN n - (x + 1) + 1 ELSE 0
        /\ \A i \in 1..n - (x + 1) + 1 : SubSeq(lines, x + 1, n)[i] = lines[(x + 1) + i - 1]
    BY <2>1, SubSeqProperties
  <2>3. QED BY <1>1, <1>2, <2>2 DEF Retained, x, n
<1>4. /\ Removed(lines, keep) \in Seq(Line)
      /\ Len(Removed(lines, keep)) = x
      /\ \A i \in 1..x : Removed(lines, keep)[i] = lines[i]
  <2>1. x \in Int /\ \A i \in 1..x : lines[i] \in Line
    BY <1>1, <1>2
  <2>2. /\ SubSeq(lines, 1, x) \in Seq(Line)
        /\ Len(SubSeq(lines, 1, x)) = IF 1 <= x THEN x - 1 + 1 ELSE 0
        /\ \A i \in 1..x - 1 + 1 : SubSeq(lines, 1, x)[i] = lines[1 + i - 1]
    BY <2>1, SubSeqProperties
  <2>3. QED BY <1>1, <1>2, <2>2 DEF Removed, x
<1>5. DOMAIN Retained(lines, keep) = 1..n - x /\ DOMAIN Removed(lines, keep) = 1..x
  BY <1>3, <1>4
<1>6. /\ ToSet(Retained(lines, keep)) \subseteq ToSet(lines)
      /\ ToSet(Removed(lines, keep)) \subseteq ToSet(lines)
  <2>1. ASSUME NEW i \in 1..n - x PROVE x + i \in 1..n
    BY <1>1, <1>2
  <2>2. ASSUME NEW i \in 1..x PROVE i \in 1..n
    BY <1>1, <1>2
  <2>3. QED BY <1>1, <1>3, <1>4, <1>5, <2>1, <2>2 DEF ToSet
<1>7. ASSUME NEW i \in 1..n, i > x PROVE lines[i] \in ToSet(Retained(lines, keep))
  <2>1. i - x \in 1..n - x /\ x + (i - x) = i
    BY <1>1, <1>2, <1>7
  <2>2. Retained(lines, keep)[i - x] = lines[i]
    BY <1>3, <2>1
  <2>3. QED BY <1>5, <2>1, <2>2 DEF ToSet
<1>8. ASSUME UniqueIds(lines), TornLine \notin ToSet(lines)
      PROVE  /\ UniqueIds(Retained(lines, keep))
             /\ \A g \in ToSet(Removed(lines, keep)), l \in ToSet(Retained(lines, keep)) :
                    l.id # g.id
  <2>1. \A i, j \in 1..n : lines[i].id = lines[j].id => i = j
    BY <1>1, <1>8 DEF UniqueIds, ToSet
  <2>2. ASSUME NEW i \in 1..n - x, NEW j \in 1..n - x,
               Retained(lines, keep)[i].id = Retained(lines, keep)[j].id
        PROVE  i = j
    <3>1. x + i \in 1..n /\ x + j \in 1..n /\ lines[x + i].id = lines[x + j].id
      BY <1>1, <1>2, <1>3, <2>2
    <3>2. x + i = x + j
      BY <2>1, <3>1
    <3>3. QED BY <1>2, <3>2
  <2>3. ASSUME NEW g \in ToSet(Removed(lines, keep)), NEW l \in ToSet(Retained(lines, keep)),
               l.id = g.id
        PROVE  FALSE
    <3>1. PICK i \in 1..x : g = lines[i]
      BY <1>4, <1>5 DEF ToSet
    <3>2. PICK j \in 1..n - x : l = lines[x + j]
      BY <1>3, <1>5 DEF ToSet
    <3>3. i \in 1..n /\ x + j \in 1..n /\ i # x + j
      BY <1>1, <1>2
    <3>4. QED BY <2>1, <2>3, <3>1, <3>2, <3>3
  <2>4. QED BY <1>5, <2>2, <2>3 DEF UniqueIds
<1>9. QED BY <1>1, <1>2, <1>3, <1>4, <1>6, <1>7, <1>8 DEF x

\* An append adds its line or is swallowed by a torn one.
LEMMA Appending ==
    ASSUME NEW lines \in Seq(Line), NEW line \in Line
    PROVE  /\ Appended(lines, line) \in Seq(Line)
           /\ ToSet(lines) \subseteq ToSet(Appended(lines, line))
           /\ ToSet(Appended(lines, line)) \subseteq ToSet(lines) \cup {line}
           /\ UniqueIds(lines) /\ (\A k \in ToSet(lines) : k.id = line.id => k = TornLine)
                /\ (line.id = NoProc => line = TornLine)
                => UniqueIds(Appended(lines, line))
<1>1. CASE Torn(lines) /\ Last(lines) = TornLine
  BY <1>1 DEF Appended
<1>2. CASE ~(Torn(lines) /\ Last(lines) = TornLine)
  <2> DEFINE new == Append(lines, line)
             n == Len(lines)
  <2>1. Appended(lines, line) = new
    BY <1>2 DEF Appended
  <2>2. /\ n \in Nat /\ DOMAIN lines = 1..n
        /\ new \in Seq(Line) /\ Len(new) = n + 1 /\ DOMAIN new = 1..n + 1
        /\ \A i \in 1..n : new[i] = lines[i]
        /\ new[n + 1] = line
    BY AppendProperties
  <2> HIDE DEF new, n
  <2>3. \A i \in 1..n + 1 : i \in 1..n \/ i = n + 1
    BY <2>2
  <2>4. \A i \in 1..n : i \in 1..n + 1
    BY <2>2
  <2>5. ToSet(lines) \subseteq ToSet(new) /\ ToSet(new) \subseteq ToSet(lines) \cup {line}
    BY <2>2, <2>3, <2>4 DEF ToSet
  <2>6. ASSUME UniqueIds(lines), \A k \in ToSet(lines) : k.id = line.id => k = TornLine,
               line.id = NoProc => line = TornLine
        PROVE  UniqueIds(new)
    <3>1. ASSUME NEW i \in 1..n + 1, NEW j \in 1..n + 1, new[i].id = new[j].id
          PROVE  i = j \/ new[i] = TornLine
      <4>1. CASE i \in 1..n /\ j \in 1..n
        BY <2>2, <2>6, <3>1, <4>1 DEF UniqueIds
      <4>2. CASE i \in 1..n /\ j = n + 1
        BY <2>2, <2>6, <3>1, <4>2 DEF ToSet
      <4>3. CASE i = n + 1 /\ j \in 1..n
        <5>1. lines[j] = TornLine
          BY <2>2, <2>6, <3>1, <4>3 DEF ToSet
        <5>2. line.id = NoProc
          BY <2>2, <3>1, <4>3, <5>1 DEF TornLine
        <5>3. QED BY <2>2, <2>6, <4>3, <5>2
      <4>4. QED BY <2>3, <4>1, <4>2, <4>3
    <3>2. QED BY <2>2, <3>1 DEF UniqueIds
  <2>7. QED BY <2>1, <2>2, <2>5, <2>6
<1>3. QED BY <1>1, <1>2

-----------------------------------------------------------------------------
(* Steps that leave the log and the replacements alone, and the others. *)

\* The types of what a prune, a replacement and the log hold.
LEMMA HistoryTypes ==
    ASSUME HistoryTypeOK
    PROVE  /\ log \in Seq(Line) /\ ToSet(log) \subseteq Line
           /\ \A p \in Pruners : Interrupted(p) =>
                  /\ undo[p] \in Undo
                  /\ undo[p].before \in Seq(Line) /\ ToSet(undo[p].before) \subseteq Line
                  /\ undo[p].left \in Seq(Line) /\ ToSet(undo[p].left) \subseteq Line
           /\ \A p \in Pruners :
                  /\ pruner[p].old \in Seq(Line) /\ pruner[p].gone \in Seq(Line)
                  /\ ToSet(pruner[p].gone) \subseteq Line
                  /\ pruner[p].keep \in Nat
<1>1. \A s \in Seq(Line) : ToSet(s) \subseteq Line
  BY DEF ToSet
<1>2. \A p \in Pruners : pruner[p].keep \in Nat
  <2>1. \A p \in Pruners : pruner[p].keep \in Keeps \cup {0}
    BY DEF HistoryTypeOK
  <2>2. Keeps \cup {0} \subseteq Nat
    BY HistoryAssumption
  <2>3. QED BY <2>1, <2>2
<1>3. \A p \in Pruners : Interrupted(p) => undo[p] \in Undo
  BY DEF HistoryTypeOK, Interrupted
<1>4. \A p \in Pruners : pruner[p].old \in Seq(Line) /\ pruner[p].gone \in Seq(Line)
  BY DEF HistoryTypeOK
<1>5. \A u \in Undo : u.before \in Seq(Line) /\ u.left \in Seq(Line)
  BY DEF Undo
<1>6. log \in Seq(Line)
  BY DEF HistoryTypeOK
<1>7. QED BY <1>1, <1>2, <1>3, <1>4, <1>5, <1>6

\* A step that neither writes the log nor replaces it, after which no more
\* lines are dead and no more executions are still to be logged.
LEMMA SoundFrame ==
    ASSUME HistoryTypeOK, Sound, UNCHANGED <<log, undo>>,
           \A l \in Line : Dead(l)' => Dead(l),
           \A r \in Runs : Unlogged(r)' => Unlogged(r),
           \A p \in Pruners : Reads(p)' /\ Replaces(p)'
    PROVE  Sound'
<1>1. /\ \A k : Known(k)' <=> Known(k)
      /\ \A p : Interrupted(p)' <=> Interrupted(p)
  BY DEF Known, Interrupted
<1>2. OneLineEach'
  BY <1>1 DEF Sound, OneLineEach, UniqueIds
<1>3. Fresh'
  BY <1>1 DEF Sound, Fresh
<1>4. AllAlive'
  BY HistoryTypes DEF Sound, AllAlive
<1>5. ASSUME NEW p \in Pruners PROVE CanBeUndone(p)'
  <2>1. CanBeUndone(p)
    BY DEF Sound
  <2>2. QED BY <1>1, <2>1, HistoryTypes DEF CanBeUndone, UniqueIds
<1>6. QED BY <1>2, <1>3, <1>4, <1>5 DEF Sound

\* Fewer lines are dead when outputs stay and prunes remove no more.
LEMMA DeadFrame ==
    ASSUME outputs \subseteq outputs',
           \A p \in Pruners : At(p, "committed")' =>
               At(p, "committed") /\ ToSet(pruner'[p].gone) \subseteq ToSet(pruner[p].gone)
    PROVE  \A l \in Line : Dead(l)' => Dead(l)
  BY DEF Dead

\* A replacement is taken back while the log is still what it wrote.
LEMMA TakenBack ==
    ASSUME HistoryTypeOK, Sound, NEW p \in Pruners, Interrupted(p), log = undo[p].left,
           log' = undo[p].before, undo' = [undo EXCEPT ![p] = NoUndo],
           \A l \in Line : Dead(l)' => Dead(l),
           \A r \in Runs : Unlogged(r)' => Unlogged(r),
           \A q \in Pruners : pruner'[q].step \notin {"read", "intended", "replaced"}
    PROVE  Sound'
<1>1. /\ ~Interrupted(p)'
      /\ \A q \in Pruners \ {p} : undo'[q] = undo[q] /\ (Interrupted(q)' <=> Interrupted(q))
  BY DEF HistoryTypeOK, Interrupted
<1>2. \A k \in Line : Known(k)' => Known(k)
  BY <1>1 DEF Known
<1>3. CanBeUndone(p)
  BY DEF Sound
<1>4. OneLineEach'
  <2>1. UniqueIds(log)'
    BY <1>3 DEF CanBeUndone, UniqueIds
  <2>2. QED BY <1>2, <2>1 DEF Sound, OneLineEach
<1>5. Fresh'
  BY <1>2 DEF Sound, Fresh
<1>6. AllAlive'
  <2>1. SUFFICES ASSUME NEW l \in ToSet(undo[p].before), Dead(l) PROVE FALSE
    BY HistoryTypes DEF AllAlive
  <2>2. l \in ToSet(log)
    BY <1>3, <2>1 DEF CanBeUndone
  <2>3. QED BY <2>1, <2>2 DEF Sound, AllAlive
<1>7. ASSUME NEW q \in Pruners PROVE CanBeUndone(q)'
  <2>1. CASE q = p
    BY <1>1, <2>1 DEF CanBeUndone
  <2>2. CASE q # p /\ ~Interrupted(q)
    BY <1>1, <2>2 DEF CanBeUndone
  <2>3. CASE q # p /\ Interrupted(q)
    <3>1. CanBeUndone(q) /\ undo'[q] = undo[q]
      BY <1>1, <2>3 DEF Sound
    <3>2. ToSet(undo[p].before) \cap ToSet(undo[q].before) \subseteq ToSet(log) \cup ToSet(undo[q].left)
      BY <1>3, <2>3 DEF CanBeUndone
    <3>3. ToSet(log) \cap ToSet(undo[q].before) \subseteq ToSet(undo[q].left)
      BY <2>3, <3>1 DEF CanBeUndone
    <3>4. ToSet(log') \cap ToSet(undo'[q].before) \subseteq ToSet(undo'[q].left)
      BY <3>1, <3>2, <3>3
    <3>5. \A l \in ToSet(undo'[q].before) : Dead(l)' => l \in ToSet(undo'[q].left)
      BY <2>3, <3>1, HistoryTypes DEF CanBeUndone
    <3>6. \A o \in Pruners \ {q} : Interrupted(o)' =>
              ToSet(undo'[q].before) \cap ToSet(undo'[o].before)
                  \subseteq ToSet(undo'[q].left) \cup ToSet(undo'[o].left)
      BY <1>1, <2>3, <3>1 DEF CanBeUndone
    <3>7. /\ ToSet(undo'[q].left) \subseteq ToSet(undo'[q].before)
          /\ UniqueIds(undo'[q].before) /\ TornLine \notin ToSet(undo'[q].before)
      BY <2>3, <3>1 DEF CanBeUndone
    <3>8. UniqueIds(undo[q].before)'
      BY <3>7 DEF UniqueIds
    <3>9. QED BY <3>4, <3>5, <3>6, <3>7, <3>8 DEF CanBeUndone
  <2>4. QED BY <2>1, <2>2, <2>3
<1>8. QED BY <1>4, <1>5, <1>6, <1>7 DEF Sound, Reads, Replaces, At

\* A prune that moves stays a prune.
LEMMA MovesOn ==
    ASSUME HistoryTypeOK, NEW p \in Pruners,
           NEW s \in PruneSteps,
           pruner' = [pruner EXCEPT ![p].step = s]
    PROVE  /\ pruner' \in [Pruners ->
                [step : PruneSteps,
                 keep : Keeps \cup {0}, old : Seq(Line), gone : Seq(Line)]]
           /\ pruner'[p].step = s /\ pruner'[p].gone = pruner[p].gone
           /\ \A q \in Pruners \ {p} : pruner'[q] = pruner[q]
  BY DEF HistoryTypeOK

\* A durable intent changes nothing yet: taking it back would put the log where
\* it is.  (_apply, before os.replace)
LEMMA Intending ==
    ASSUME HistoryTypeOK, Locks, Sound, NEW p \in Pruners, IntendReplace(p),
           UNCHANGED <<step, request>>
    PROVE  Sound'
<1>1. /\ At(p, "read") /\ log \in Seq(Line)
      /\ ~Torn(log) /\ pruner[p].old = log /\ pruner[p].gone = Removed(log, pruner[p].keep)
  BY HistoryTypes DEF IntendReplace, Sound, Reads, At
<1>2. /\ undo' = [undo EXCEPT ![p] = [before |-> log, left |-> log]]
      /\ pruner' = [pruner EXCEPT ![p].step = "intended"]
      /\ UNCHANGED <<log, outputs, lock, clobbered, trouble>>
  BY DEF IntendReplace, MoveTo
<1>3. /\ undo'[p] # NoUndo /\ undo'[p].before = log /\ undo'[p].left = log
      /\ \A q \in Pruners \ {p} : undo'[q] = undo[q]
  <2>1. [before |-> log, left |-> log] \in Undo
    BY <1>1 DEF Undo
  <2>2. undo'[p] = [before |-> log, left |-> log] /\ \A q \in Pruners \ {p} : undo'[q] = undo[q]
    BY <1>2 DEF HistoryTypeOK
  <2>3. QED BY <2>1, <2>2, NoUndoAssumption
<1>4. /\ pruner'[p].step = "intended" /\ pruner'[p].old = pruner[p].old
      /\ pruner'[p].gone = pruner[p].gone /\ pruner'[p].keep = pruner[p].keep
      /\ \A q \in Pruners \ {p} : pruner'[q] = pruner[q]
  BY <1>2 DEF HistoryTypeOK
<1>5. UniqueIds(log) /\ TornLine \notin ToSet(log)
  BY <1>1 DEF Sound, OneLineEach, Torn
<1>6. \A l \in Line : Dead(l)' => Dead(l)
  BY <1>2, <1>4 DEF Dead, At
<1>7. \A k \in Line : Known(k)' => Known(k)
  BY <1>2, <1>3 DEF Known, Interrupted
<1>8. OneLineEach'
  BY <1>2, <1>7 DEF Sound, OneLineEach, UniqueIds
<1>9. Fresh'
  <2>1. \A r \in Runs : Unlogged(r)' <=> Unlogged(r)
    BY DEF Unlogged, Is, Op
  <2>2. QED BY <1>7, <2>1 DEF Sound, Fresh
<1>10. AllAlive'
  BY <1>2, <1>6, HistoryTypes DEF Sound, AllAlive
<1>11. ASSUME NEW q \in Pruners PROVE Reads(q)' /\ Replaces(q)'
  <2>1. CASE q = p
    BY <1>1, <1>2, <1>3, <1>4, <2>1 DEF Reads, Replaces, At, Torn
  <2>2. CASE q # p
    <3>1. pruner'[q].step \notin {"read", "intended", "replaced"}
      BY <1>1, <1>4, <2>2 DEF Locks, Live, At
    <3>2. QED BY <3>1 DEF Reads, Replaces, At
  <2>3. QED BY <2>1, <2>2
<1>12. CanBeUndone(p)'
  <2>1. UniqueIds(undo[p].before)'
    BY <1>3, <1>5 DEF UniqueIds
  <2>2. QED BY <1>2, <1>3, <1>5, <2>1 DEF CanBeUndone
<1>13. ASSUME NEW q \in Pruners \ {p} PROVE CanBeUndone(q)'
  <2>1. SUFFICES ASSUME Interrupted(q)' PROVE CanBeUndone(q)'
    BY DEF CanBeUndone
  <2>2. Interrupted(q) /\ CanBeUndone(q) /\ undo'[q] = undo[q]
    BY <1>3, <2>1 DEF Interrupted, Sound
  <2>3. UniqueIds(undo[q].before)'
    BY <2>2 DEF UniqueIds, CanBeUndone
  <2>4. \A l \in ToSet(undo'[q].before) : Dead(l)' => l \in ToSet(undo'[q].left)
    BY <1>6, <2>2, HistoryTypes DEF CanBeUndone
  <2>5. \A o \in Pruners \ {q} : Interrupted(o)' =>
              ToSet(undo'[q].before) \cap ToSet(undo'[o].before)
                  \subseteq ToSet(undo'[q].left) \cup ToSet(undo'[o].left)
    BY <1>3, <2>2 DEF CanBeUndone, Interrupted
  <2>6. QED BY <1>2, <2>2, <2>3, <2>4, <2>5 DEF CanBeUndone
<1>14. QED BY <1>8, <1>9, <1>10, <1>11, <1>12, <1>13 DEF Sound

\* A prune replaces the log: what it removes was in the log until now, so no
\* other replacement has removed it.  (os.replace in _apply)
LEMMA Replacing ==
    ASSUME HistoryTypeOK, Locks, Sound, NEW p \in Pruners, ReplaceLog(p), ~clobbered,
           UNCHANGED <<step, request>>
    PROVE  HistoryTypeOK' /\ Sound'
<1>1. /\ At(p, "intended") /\ log \in Seq(Line) /\ pruner[p].keep \in Nat
      /\ ~Torn(log) /\ pruner[p].old = log /\ pruner[p].gone = Removed(log, pruner[p].keep)
      /\ Interrupted(p) /\ undo[p] \in Undo /\ undo[p].before = log
  BY HistoryTypes DEF ReplaceLog, Sound, Reads, Replaces, Locks, At
<1>2. PICK keep \in Nat : keep = pruner[p].keep
  BY <1>1
<1>3. /\ log' = Retained(log, keep) /\ pruner[p].gone = Removed(log, keep)
      /\ undo' = [undo EXCEPT ![p].left = log']
      /\ pruner' = [pruner EXCEPT ![p].step = "replaced"]
      /\ UNCHANGED <<outputs, lock, clobbered, trouble>>
  BY <1>1, <1>2 DEF ReplaceLog, MoveTo
<1>4. UniqueIds(log) /\ TornLine \notin ToSet(log)
  BY <1>1 DEF Sound, OneLineEach, Torn
<1>5. /\ log' \in Seq(Line) /\ ToSet(log') \subseteq ToSet(log)
      /\ ToSet(pruner[p].gone) \subseteq ToSet(log) /\ UniqueIds(log')
      /\ \A g \in ToSet(pruner[p].gone), l \in ToSet(log') : l.id # g.id
  <2>1. \A lines \in Seq(Line) :
            /\ Retained(lines, keep) \in Seq(Line)
            /\ ToSet(Retained(lines, keep)) \subseteq ToSet(lines)
            /\ ToSet(Removed(lines, keep)) \subseteq ToSet(lines)
            /\ UniqueIds(lines) /\ TornLine \notin ToSet(lines) =>
                   /\ UniqueIds(Retained(lines, keep))
                   /\ \A g \in ToSet(Removed(lines, keep)), l \in ToSet(Retained(lines, keep)) :
                          l.id # g.id
    BY Retention
  <2>2. QED BY <1>1, <1>3, <1>4, <2>1
<1>6. [undo[p] EXCEPT !.left = log'] \in Undo
  BY <1>1, <1>5 DEF Undo
<1>7. /\ undo'[p] # NoUndo /\ undo'[p].before = log /\ undo'[p].left = log'
      /\ \A q \in Pruners \ {p} : undo'[q] = undo[q]
  <2>1. undo'[p] = [undo[p] EXCEPT !.left = log'] /\ \A q \in Pruners \ {p} : undo'[q] = undo[q]
    BY <1>3 DEF HistoryTypeOK
  <2>2. [undo[p] EXCEPT !.left = log'].before = log /\ [undo[p] EXCEPT !.left = log'].left = log'
    BY <1>1 DEF Undo
  <2>3. QED BY <1>6, <2>1, <2>2, NoUndoAssumption
<1>8. HistoryTypeOK'
  <2>1. undo' \in [Pruners -> Undo \cup {NoUndo}]
    BY <1>3, <1>6 DEF HistoryTypeOK
  <2>2. "replaced" \in PruneSteps
    BY DEF PruneSteps, Live
  <2>3. QED BY <1>3, <1>5, <2>1, <2>2, MovesOn DEF HistoryTypeOK
<1>9. /\ pruner'[p].step = "replaced" /\ pruner'[p].gone = pruner[p].gone
      /\ \A q \in Pruners \ {p} : pruner'[q] = pruner[q]
  BY <1>3 DEF HistoryTypeOK
<1>10. \A l \in Line : Dead(l)' => Dead(l)
  BY <1>3, <1>9 DEF Dead, At
<1>11. \A k \in Line : Known(k)' => Known(k)
  BY <1>5, <1>7 DEF Known, Interrupted
<1>12. OneLineEach'
  <2>1. UniqueIds(log)'
    BY <1>5 DEF UniqueIds
  <2>2. QED BY <1>11, <2>1 DEF Sound, OneLineEach
<1>13. Fresh'
  <2>1. \A r \in Runs : Unlogged(r)' <=> Unlogged(r)
    BY DEF Unlogged, Is, Op
  <2>2. QED BY <1>11, <2>1 DEF Sound, Fresh
<1>14. AllAlive'
  BY <1>5, <1>10, HistoryTypes DEF Sound, AllAlive
<1>15. ASSUME NEW q \in Pruners PROVE Reads(q)' /\ Replaces(q)'
  <2>1. CASE q = p
    BY <1>5, <1>7, <1>9, <2>1 DEF Reads, Replaces, At, Interrupted
  <2>2. CASE q # p
    <3>1. pruner'[q].step \notin {"read", "intended", "replaced"}
      BY <1>1, <1>9, <2>2 DEF Locks, Live, At
    <3>2. QED BY <3>1 DEF Reads, Replaces, At
  <2>3. QED BY <2>1, <2>2
<1>16. CanBeUndone(p)'
  <2>1. UniqueIds(undo[p].before)'
    BY <1>4, <1>7 DEF UniqueIds
  <2>2. \A l \in ToSet(undo'[p].before) : ~Dead(l)'
    BY <1>7, <1>10, HistoryTypes DEF Sound, AllAlive
  <2>3. ASSUME NEW q \in Pruners \ {p}, Interrupted(q)'
        PROVE  ToSet(undo'[p].before) \cap ToSet(undo'[q].before) \subseteq ToSet(undo'[q].left)
    BY <1>7, <2>3 DEF Sound, CanBeUndone, Interrupted
  <2>4. QED BY <1>4, <1>5, <1>7, <2>1, <2>2, <2>3 DEF CanBeUndone
<1>17. ASSUME NEW q \in Pruners \ {p} PROVE CanBeUndone(q)'
  <2>1. SUFFICES ASSUME Interrupted(q)' PROVE CanBeUndone(q)'
    BY DEF CanBeUndone
  <2>2. Interrupted(q) /\ CanBeUndone(q) /\ undo'[q] = undo[q]
    BY <1>7, <2>1 DEF Interrupted, Sound
  <2>3. UniqueIds(undo[q].before)'
    BY <2>2 DEF UniqueIds, CanBeUndone
  <2>4. ToSet(log) \cap ToSet(undo'[q].before) \subseteq ToSet(undo'[q].left)
    BY <2>2 DEF CanBeUndone
  <2>5. \A l \in ToSet(undo'[q].before) : Dead(l)' => l \in ToSet(undo'[q].left)
    BY <1>10, <2>2, HistoryTypes DEF CanBeUndone
  <2>6. \A o \in Pruners \ {q} : Interrupted(o)' =>
              ToSet(undo'[q].before) \cap ToSet(undo'[o].before)
                  \subseteq ToSet(undo'[q].left) \cup ToSet(undo'[o].left)
    <3>1. ASSUME NEW o \in Pruners \ {q}, o # p, Interrupted(o)'
          PROVE  ToSet(undo'[q].before) \cap ToSet(undo'[o].before)
                     \subseteq ToSet(undo'[q].left) \cup ToSet(undo'[o].left)
      BY <1>7, <2>2, <3>1 DEF CanBeUndone, Interrupted
    <3>2. QED BY <1>7, <2>4, <3>1
  <2>7. QED BY <1>5, <2>2, <2>3, <2>4, <2>5, <2>6 DEF CanBeUndone
<1>18. QED BY <1>8, <1>12, <1>13, <1>14, <1>15, <1>16, <1>17 DEF Sound

\* The commit of a prune: the lines it has removed lose their outputs from now
\* on, and nobody can bring them back.
LEMMA Committing ==
    ASSUME HistoryTypeOK, Locks, Sound, NEW p \in Pruners, CommitLog(p),
           UNCHANGED <<step, request>>
    PROVE  Sound'
<1>1. /\ Interrupted(p) /\ log = undo[p].left
      /\ \A g \in ToSet(pruner[p].gone) :
             g \in ToSet(undo[p].before) /\ \A l \in ToSet(log) : l.id # g.id
  BY DEF CommitLog, Sound, Replaces, Locks, At
<1>2. /\ undo' = [undo EXCEPT ![p] = NoUndo]
      /\ pruner' = [pruner EXCEPT ![p].step = "committed"]
      /\ UNCHANGED <<log, outputs>>
  BY DEF CommitLog, MoveTo
<1>3. /\ ~Interrupted(p)'
      /\ \A q \in Pruners \ {p} : undo'[q] = undo[q] /\ (Interrupted(q)' <=> Interrupted(q))
  BY <1>2 DEF HistoryTypeOK, Interrupted
<1>4. /\ pruner'[p].step = "committed" /\ pruner'[p].gone = pruner[p].gone
      /\ \A q \in Pruners \ {p} : pruner'[q] = pruner[q]
  BY <1>2 DEF HistoryTypeOK
<1>5. \A k \in Line : Known(k)' => Known(k)
  BY <1>2, <1>3 DEF Known
<1>6. \A l \in Line : Dead(l)' => Dead(l) \/ \E g \in ToSet(pruner[p].gone) : g.id = l.id
  BY <1>2, <1>4 DEF Dead, At
<1>7. OneLineEach'
  BY <1>2, <1>5 DEF Sound, OneLineEach, UniqueIds
<1>8. Fresh'
  <2>1. \A r \in Runs : Unlogged(r)' <=> Unlogged(r)
    BY DEF Unlogged, Is, Op
  <2>2. QED BY <1>5, <2>1 DEF Sound, Fresh
<1>9. AllAlive'
  BY <1>1, <1>2, <1>6, HistoryTypes DEF Sound, AllAlive
<1>10. ASSUME NEW q \in Pruners PROVE Reads(q)' /\ Replaces(q)'
  <2>1. pruner'[q].step \notin {"read", "intended", "replaced"}
    BY <1>4 DEF Locks, Live, At, CommitLog
  <2>2. QED BY <2>1 DEF Reads, Replaces, At
<1>11. ASSUME NEW q \in Pruners PROVE CanBeUndone(q)'
  <2>1. SUFFICES ASSUME Interrupted(q)' PROVE CanBeUndone(q)'
    BY DEF CanBeUndone
  <2>2. q # p /\ Interrupted(q) /\ CanBeUndone(q) /\ undo'[q] = undo[q]
    BY <1>3, <2>1 DEF Sound
  <2>3. UniqueIds(undo[q].before)'
    BY <2>2 DEF UniqueIds, CanBeUndone
  <2>4. ASSUME NEW l \in ToSet(undo[q].before), Dead(l)' PROVE l \in ToSet(undo[q].left)
    <3>1. l \in Line
      BY <2>2, HistoryTypes
    <3>2. CASE Dead(l)
      BY <2>2, <3>2 DEF CanBeUndone
    <3>3. CASE \E g \in ToSet(pruner[p].gone) : g.id = l.id
      <4>1. PICK g \in ToSet(pruner[p].gone) : g.id = l.id
        BY <3>3
      <4>2. g \in Line /\ Known(g) /\ Known(l)
        BY <1>1, <2>2, HistoryTypes DEF Known
      <4>3. g = l
        BY <3>1, <4>1, <4>2 DEF Sound, OneLineEach
      <4>4. l \in ToSet(undo[p].before) /\ l \notin ToSet(undo[p].left)
        BY <1>1, <4>3
      <4>5. ToSet(undo[q].before) \cap ToSet(undo[p].before)
                \subseteq ToSet(undo[q].left) \cup ToSet(undo[p].left)
        BY <1>1, <2>2 DEF CanBeUndone
      <4>6. QED BY <4>4, <4>5
    <3>4. QED BY <1>6, <2>4, <3>1, <3>2, <3>3
  <2>5. \A o \in Pruners \ {q} : Interrupted(o)' =>
              ToSet(undo'[q].before) \cap ToSet(undo'[o].before)
                  \subseteq ToSet(undo'[q].left) \cup ToSet(undo'[o].left)
    BY <1>3, <2>2 DEF CanBeUndone
  <2>6. QED BY <1>2, <2>2, <2>3, <2>4, <2>5 DEF CanBeUndone
<1>12. QED BY <1>7, <1>8, <1>9, <1>10, <1>11 DEF Sound

-----------------------------------------------------------------------------
(* The steps of a prune, and a recovery. *)

\* Only the holder of the lock is in a prune.
LEMMA OneHolder ==
    ASSUME HistoryTypeOK, Locks, NEW p \in Pruners
    PROVE  /\ pruner[p].step \in Live => \A q \in Pruners \ {p} : pruner[q].step \notin Live
           /\ lock = NoProc => \A q \in Pruners : pruner[q].step \notin Live
  BY HistoryAssumption DEF Locks

\* A prune gets the lock, and nobody else is in a prune.
LEMMA TakesLock ==
    ASSUME HistoryInv, NEW p \in Pruners, NEW keep \in Keeps, TakeLock(p, keep),
           UNCHANGED <<step, request>>
    PROVE  HistoryInv'
<1>1. HistoryTypeOK /\ Locks
  BY DEF HistoryInv
<1>2. /\ At(p, "idle") /\ lock = NoProc /\ lock' = p
      /\ pruner' = [pruner EXCEPT ![p] = [Idle EXCEPT !.step = "locked", !.keep = keep]]
      /\ UNCHANGED <<log, outputs, undo, clobbered, trouble>>
  BY DEF TakeLock, LockFree
<1>3. \A q \in Pruners : pruner[q].step \notin Live
  BY <1>1, <1>2, OneHolder
<1>4. /\ pruner' \in [Pruners ->
           [step : PruneSteps,
            keep : Keeps \cup {0}, old : Seq(Line), gone : Seq(Line)]]
      /\ pruner'[p].step = "locked"
      /\ \A q \in Pruners \ {p} : pruner'[q] = pruner[q]
  <2>1. <<>> \in Seq(Line)
    OBVIOUS
  <2>2. PICK new : new = [Idle EXCEPT !.step = "locked", !.keep = keep]
    OBVIOUS
  <2>3. /\ new.step = "locked"
        /\ new \in [step : PruneSteps,
                    keep : Keeps \cup {0}, old : Seq(Line), gone : Seq(Line)]
    BY <2>1, <2>2 DEF Idle, PruneSteps, Live
  <2>4. QED BY <1>1, <1>2, <2>2, <2>3 DEF HistoryTypeOK
<1>5. HistoryTypeOK'
  BY <1>1, <1>2, <1>4 DEF HistoryTypeOK
<1>6. Locks'
  BY <1>1, <1>2, <1>3, <1>4 DEF Locks, Live, Interrupted, At
<1>7. ASSUME ~clobbered PROVE Sound'
  <2>1. Sound
    BY <1>7 DEF HistoryInv
  <2>2. \A q \in Pruners : pruner'[q].step \notin {"read", "intended", "replaced", "committed"}
    BY <1>3, <1>4 DEF Live
  <2>3. \A q \in Pruners : Reads(q)' /\ Replaces(q)'
    BY <2>2 DEF Reads, Replaces, At
  <2>4. \A l \in Line : Dead(l)' => Dead(l)
    BY <1>2, <2>2, DeadFrame DEF At
  <2>5. \A r \in Runs : Unlogged(r)' => Unlogged(r)
    BY DEF Unlogged, Is, Op
  <2>6. QED BY <1>1, <1>2, <2>1, <2>3, <2>4, <2>5, SoundFrame
<1>8. QED BY <1>2, <1>5, <1>6, <1>7 DEF HistoryInv

\* It reads the log, which nobody else writes as long as it has the lock.
LEMMA ReadsLog ==
    ASSUME HistoryInv, NEW p \in Pruners, ReadLog(p), ~Torn(log), UNCHANGED <<step, request>>
    PROVE  HistoryInv'
<1>1. HistoryTypeOK /\ Locks /\ At(p, "locked")
  BY DEF HistoryInv, ReadLog
<1>2. PICK keep \in Nat : keep = pruner[p].keep
  BY <1>1, HistoryTypes
<1>3. /\ pruner' = [pruner EXCEPT ![p] = [@ EXCEPT !.step = "read", !.old = log,
                        !.gone = Removed(log, keep)]]
      /\ UNCHANGED <<log, outputs, lock, undo, clobbered, trouble>>
  BY <1>2 DEF ReadLog
<1>4. log \in Seq(Line) /\ Removed(log, keep) \in Seq(Line)
  <2>1. \A lines \in Seq(Line) : Removed(lines, keep) \in Seq(Line)
    BY Retention
  <2>2. QED BY <1>1, <2>1 DEF HistoryTypeOK
<1>5. /\ pruner' \in [Pruners ->
           [step : PruneSteps,
            keep : Keeps \cup {0}, old : Seq(Line), gone : Seq(Line)]]
      /\ pruner'[p].step = "read" /\ pruner'[p].keep = keep
      /\ pruner'[p].old = log /\ pruner'[p].gone = Removed(log, keep)
      /\ \A q \in Pruners \ {p} : pruner'[q] = pruner[q]
  BY <1>1, <1>2, <1>3, <1>4 DEF HistoryTypeOK, PruneSteps, Live
<1>6. HistoryTypeOK'
  BY <1>1, <1>3, <1>5 DEF HistoryTypeOK
<1>7. Locks'
  BY <1>1, <1>3, <1>5 DEF Locks, Live, Interrupted, At
<1>8. ASSUME ~clobbered PROVE Sound'
  <2>1. Sound
    BY <1>8 DEF HistoryInv
  <2>2. \A q \in Pruners \ {p} : pruner'[q].step \notin {"read", "intended", "replaced", "committed"}
    BY <1>1, <1>5, OneHolder DEF Live, At
  <2>3. Reads(p)'
    BY <1>3, <1>5 DEF Reads, Torn
  <2>4. \A q \in Pruners : Reads(q)' /\ Replaces(q)'
    BY <1>5, <2>2, <2>3 DEF Reads, Replaces, At
  <2>5. \A l \in Line : Dead(l)' => Dead(l)
    BY <1>3, <1>5, <2>2, DeadFrame DEF At
  <2>6. \A r \in Runs : Unlogged(r)' => Unlogged(r)
    BY DEF Unlogged, Is, Op
  <2>7. QED BY <1>1, <1>3, <2>1, <2>4, <2>5, <2>6, SoundFrame
<1>9. QED BY <1>3, <1>6, <1>7, <1>8 DEF HistoryInv

\* It gives the lock back: at its end, at an unreadable line, when it is killed.
LEMMA GivesLockBack ==
    ASSUME HistoryInv, NEW p \in Pruners, NEW s \in {"done", "failed", "killed"},
           pruner[p].step \in Live, Interrupted(p) => s = "killed",
           MoveTo(p, s), ReleaseBy(p), trouble' \in 0..MaxTrouble,
           UNCHANGED <<log, outputs, undo, clobbered>>, UNCHANGED <<step, request>>
    PROVE  HistoryInv'
<1>1. HistoryTypeOK /\ Locks
  BY DEF HistoryInv
<1>2. /\ pruner' \in [Pruners ->
           [step : PruneSteps,
            keep : Keeps \cup {0}, old : Seq(Line), gone : Seq(Line)]]
      /\ pruner'[p].step = s
      /\ \A q \in Pruners \ {p} : pruner'[q] = pruner[q]
  BY <1>1, MovesOn DEF MoveTo, PruneSteps, Live
<1>3. lock = p /\ lock' = NoProc /\ \A q \in Pruners \ {p} : pruner[q].step \notin Live
  BY <1>1, OneHolder DEF Locks, ReleaseBy
<1>4. HistoryTypeOK'
  BY <1>1, <1>2, <1>3 DEF HistoryTypeOK
<1>5. \A q \in Pruners : pruner'[q].step \notin Live
  BY <1>2, <1>3 DEF Live
<1>6. Locks'
  BY <1>1, <1>2, <1>5 DEF Locks, Interrupted
<1>7. ASSUME ~clobbered PROVE Sound'
  <2>1. Sound
    BY <1>7 DEF HistoryInv
  <2>2. \A q \in Pruners : Reads(q)' /\ Replaces(q)'
    BY <1>5 DEF Reads, Replaces, At, Live
  <2>3. \A l \in Line : Dead(l)' => Dead(l)
    BY <1>5, DeadFrame DEF At, Live
  <2>4. \A r \in Runs : Unlogged(r)' => Unlogged(r)
    BY DEF Unlogged, Is, Op
  <2>5. QED BY <1>1, <2>1, <2>2, <2>3, <2>4, SoundFrame
<1>8. QED BY <1>4, <1>6, <1>7 DEF HistoryInv

\* It makes its intent durable, and the log is what its backup is.
LEMMA IntendsReplace ==
    ASSUME HistoryInv, NEW p \in Pruners, IntendReplace(p), UNCHANGED <<step, request>>
    PROVE  HistoryInv'
<1>1. HistoryTypeOK /\ Locks /\ At(p, "read")
  BY DEF HistoryInv, IntendReplace
<1>2. /\ pruner'[p].step = "intended" /\ \A q \in Pruners \ {p} : pruner'[q] = pruner[q]
      /\ pruner' \in [Pruners ->
           [step : PruneSteps,
            keep : Keeps \cup {0}, old : Seq(Line), gone : Seq(Line)]]
  <2>1. "intended" \in PruneSteps
    BY DEF PruneSteps, Live
  <2>2. QED BY <1>1, <2>1, MovesOn DEF IntendReplace, MoveTo
<1>3. /\ undo' = [undo EXCEPT ![p] = [before |-> log, left |-> log]]
      /\ UNCHANGED <<log, outputs, lock, clobbered, trouble>>
  BY DEF IntendReplace
<1>4. [before |-> log, left |-> log] \in Undo
  BY <1>1 DEF Undo, HistoryTypeOK
<1>5. HistoryTypeOK'
  BY <1>1, <1>2, <1>3, <1>4 DEF HistoryTypeOK
<1>6. Locks'
  <2>1. /\ undo'[p] # NoUndo
        /\ \A q \in Pruners \ {p} : undo'[q] = undo[q]
    BY <1>1, <1>3, <1>4, NoUndoAssumption DEF HistoryTypeOK
  <2>2. QED BY <1>1, <1>2, <1>3, <2>1 DEF Locks, Live, Interrupted, At
<1>7. ~clobbered => Sound'
  BY <1>1, Intending DEF HistoryInv
<1>8. QED BY <1>3, <1>5, <1>6, <1>7 DEF HistoryInv

\* It replaces the log.
LEMMA ReplacesLog ==
    ASSUME HistoryInv, NEW p \in Pruners, ReplaceLog(p), UNCHANGED <<step, request>>
    PROVE  HistoryInv'
<1>1. /\ HistoryTypeOK /\ Locks /\ At(p, "intended")
      /\ Interrupted(p) /\ undo[p] \in Undo
  BY HistoryTypes DEF HistoryInv, ReplaceLog, Locks, At
<1>2. /\ pruner'[p].step = "replaced" /\ \A q \in Pruners \ {p} : pruner'[q] = pruner[q]
      /\ pruner' \in [Pruners ->
           [step : PruneSteps,
            keep : Keeps \cup {0}, old : Seq(Line), gone : Seq(Line)]]
  <2>1. "replaced" \in PruneSteps
    BY DEF PruneSteps, Live
  <2>2. QED BY <1>1, <2>1, MovesOn DEF ReplaceLog, MoveTo
<1>3. /\ undo' = [undo EXCEPT ![p].left = log']
      /\ log' = Retained(pruner[p].old, pruner[p].keep)
      /\ UNCHANGED <<outputs, lock, clobbered, trouble>>
  BY DEF ReplaceLog
<1>4. log' \in Seq(Line)
  <2>1. \A lines \in Seq(Line), keep \in Nat : Retained(lines, keep) \in Seq(Line)
    BY Retention
  <2>2. QED BY <1>1, <1>3, <2>1, HistoryTypes
<1>5. [undo[p] EXCEPT !.left = log'] \in Undo
  BY <1>1, <1>4 DEF Undo
<1>6. HistoryTypeOK'
  BY <1>1, <1>2, <1>3, <1>4, <1>5 DEF HistoryTypeOK
<1>7. Locks'
  <2>1. /\ undo'[p] # NoUndo
        /\ \A q \in Pruners \ {p} : undo'[q] = undo[q]
    BY <1>1, <1>3, <1>5, NoUndoAssumption DEF HistoryTypeOK
  <2>2. QED BY <1>1, <1>2, <1>3, <2>1 DEF Locks, Live, Interrupted, At
<1>8. ASSUME ~clobbered PROVE Sound'
  BY <1>1, <1>8, Replacing DEF HistoryInv
<1>9. QED BY <1>3, <1>6, <1>7, <1>8 DEF HistoryInv

\* The commit of a prune makes its replacement of the log final.  (prune)
LEMMA CommitsLog ==
    ASSUME HistoryInv, NEW p \in Pruners, CommitLog(p), UNCHANGED <<step, request>>
    PROVE  HistoryInv'
<1>1. HistoryTypeOK /\ Locks /\ At(p, "replaced")
  BY DEF HistoryInv, CommitLog
<1>2. /\ pruner'[p].step = "committed" /\ \A q \in Pruners \ {p} : pruner'[q] = pruner[q]
      /\ pruner' \in [Pruners ->
           [step : PruneSteps,
            keep : Keeps \cup {0}, old : Seq(Line), gone : Seq(Line)]]
  BY <1>1, MovesOn DEF CommitLog, MoveTo, PruneSteps, Live
<1>3. /\ undo' = [undo EXCEPT ![p] = NoUndo]
      /\ UNCHANGED <<log, outputs, lock, clobbered, trouble>>
  BY DEF CommitLog
<1>4. HistoryTypeOK'
  BY <1>1, <1>2, <1>3 DEF HistoryTypeOK
<1>5. Locks'
  <2>1. undo'[p] = NoUndo /\ \A q \in Pruners \ {p} : undo'[q] = undo[q]
    BY <1>1, <1>3 DEF HistoryTypeOK
  <2>2. QED BY <1>1, <1>2, <1>3, <2>1 DEF Locks, Live, Interrupted, At
<1>6. ~clobbered => Sound'
  BY <1>1, Committing DEF HistoryInv
<1>7. QED BY <1>3, <1>4, <1>5, <1>6 DEF HistoryInv

\* It removes the outputs of a record that nobody can bring back.
LEMMA RemovesOutput ==
    ASSUME HistoryInv, NEW p \in Pruners, RemoveOutput(p), UNCHANGED <<step, request>>
    PROVE  HistoryInv'
<1>1. HistoryTypeOK /\ Locks
  BY DEF HistoryInv
<1>2. PICK gone \in Seq(Line) : gone = pruner[p].gone
  BY <1>1, HistoryTypes
<1>3. /\ At(p, "committed") /\ gone # <<>>
      /\ outputs' = outputs \ {Head(gone).id}
      /\ pruner' = [pruner EXCEPT ![p].gone = Tail(gone)]
      /\ UNCHANGED <<log, lock, undo, clobbered, trouble>>
  BY <1>1, <1>2 DEF RemoveOutput, Removable, HistoryTypeOK
<1>4. Tail(gone) \in Seq(Line) /\ Head(gone) \in ToSet(gone) /\ ToSet(Tail(gone)) \subseteq ToSet(gone)
  <2>1. /\ Len(gone) \in Nat \ {0} /\ DOMAIN gone = 1..Len(gone) /\ Head(gone) = gone[1]
        /\ Tail(gone) \in Seq(Line) /\ Len(Tail(gone)) = Len(gone) - 1
        /\ \A i \in 1..Len(Tail(gone)) : Tail(gone)[i] = gone[i + 1]
    BY <1>3, HeadTailProperties, EmptySeq
  <2>2. DOMAIN Tail(gone) = 1..Len(gone) - 1
    BY <2>1
  <2>3. \A i \in 1..Len(gone) - 1 : i + 1 \in 1..Len(gone)
    BY <2>1
  <2>4. QED BY <2>1, <2>2, <2>3 DEF ToSet
<1>5. /\ pruner' \in [Pruners ->
           [step : PruneSteps,
            keep : Keeps \cup {0}, old : Seq(Line), gone : Seq(Line)]]
      /\ pruner'[p].step = "committed" /\ pruner'[p].gone = Tail(gone)
      /\ \A q \in Pruners \ {p} : pruner'[q] = pruner[q]
  BY <1>1, <1>3, <1>4 DEF HistoryTypeOK, At
<1>6. HistoryTypeOK'
  BY <1>1, <1>3, <1>5 DEF HistoryTypeOK
<1>7. Locks'
  BY <1>1, <1>3, <1>5 DEF Locks, Live, Interrupted, At
<1>8. ASSUME ~clobbered PROVE Sound'
  <2>1. Sound
    BY <1>8 DEF HistoryInv
  <2>2. \A q \in Pruners \ {p} : pruner'[q].step \notin {"read", "intended", "replaced", "committed"}
    BY <1>1, <1>3, <1>5, OneHolder DEF Live, At
  <2>3. \A q \in Pruners : Reads(q)' /\ Replaces(q)'
    BY <1>5, <2>2 DEF Reads, Replaces, At
  <2>4. ASSUME NEW l \in Line, Dead(l)' PROVE Dead(l)
    <3>1. CASE l.id \notin outputs'
      BY <1>2, <1>3, <1>4, <2>4, <3>1 DEF Dead
    <3>2. CASE \E q \in Pruners : At(q, "committed")' /\ \E g \in ToSet(pruner'[q].gone) : g.id = l.id
      <4>1. PICK q \in Pruners : At(q, "committed")' /\ \E g \in ToSet(pruner'[q].gone) : g.id = l.id
        BY <3>2
      <4>2. q = p
        BY <2>2, <4>1 DEF At
      <4>3. \E g \in ToSet(gone) : g.id = l.id
        BY <1>4, <1>5, <4>1, <4>2
      <4>4. QED BY <1>2, <1>3, <2>4, <4>3 DEF Dead
    <3>3. QED BY <2>4, <3>1, <3>2 DEF Dead
  <2>5. \A r \in Runs : Unlogged(r)' => Unlogged(r)
    BY DEF Unlogged, Is, Op
  <2>6. QED BY <1>1, <1>3, <2>1, <2>3, <2>4, <2>5, SoundFrame
<1>9. QED BY <1>3, <1>6, <1>7, <1>8 DEF HistoryInv

\* A prune that fails takes its own replacement back, under the lock; one that
\* fails before or after its replacement leaves the log as it is.
LEMMA FailsInPrune ==
    ASSUME HistoryInv, NEW p \in Pruners, FailPrune(p), UNCHANGED <<step, request>>
    PROVE  HistoryInv'
<1>1. HistoryTypeOK /\ Locks
  BY DEF HistoryInv
<1>2. /\ pruner[p].step \in Live /\ trouble' \in 0..MaxTrouble
      /\ log' = IF Interrupted(p) THEN undo[p].before ELSE log
      /\ undo' = [undo EXCEPT ![p] = NoUndo]
      /\ MoveTo(p, "failed") /\ ReleaseBy(p)
      /\ UNCHANGED <<outputs, clobbered>>
  <2>1. trouble' \in 0..MaxTrouble
    BY <1>1, HistoryAssumption DEF HistoryTypeOK, FailPrune, Trouble
  <2>2. QED BY <2>1 DEF FailPrune, Interrupted, Live
<1>3. CASE ~Interrupted(p)
  <2>1. undo' = undo /\ log' = log
    BY <1>1, <1>2, <1>3 DEF HistoryTypeOK, Interrupted
  <2>2. QED BY <1>2, <1>3, <2>1, GivesLockBack
<1>4. CASE Interrupted(p)
  <2>1. /\ pruner' \in [Pruners ->
             [step : PruneSteps,
              keep : Keeps \cup {0}, old : Seq(Line), gone : Seq(Line)]]
        /\ pruner'[p].step = "failed"
        /\ \A q \in Pruners \ {p} : pruner'[q] = pruner[q]
    BY <1>1, <1>2, MovesOn DEF MoveTo, PruneSteps, Live
  <2>2. pruner[p].step \in {"intended", "replaced"}
    BY <1>1, <1>2, <1>4 DEF Locks, Live
  <2>3. lock' = NoProc /\ \A q \in Pruners \ {p} : pruner[q].step \notin Live
    BY <1>1, <1>2, OneHolder DEF Locks, ReleaseBy
  <2>4. \A q \in Pruners : pruner'[q].step \notin Live
    BY <2>1, <2>3 DEF Live
  <2>5. HistoryTypeOK'
    BY <1>1, <1>2, <1>4, <2>1, <2>3, HistoryTypes DEF HistoryTypeOK
  <2>6. Locks'
    <3>1. undo'[p] = NoUndo /\ \A q \in Pruners \ {p} : undo'[q] = undo[q]
      BY <1>1, <1>2 DEF HistoryTypeOK
    <3>2. QED BY <1>1, <2>1, <2>4, <3>1 DEF Locks, Interrupted
  <2>7. ASSUME ~clobbered PROVE Sound'
    <3>1. Sound
      BY <2>7 DEF HistoryInv
    <3>2. log = undo[p].left
      BY <2>2, <3>1 DEF Sound, Replaces
    <3>3. \A l \in Line : Dead(l)' => Dead(l)
      BY <1>2, <2>4, DeadFrame DEF At, Live
    <3>4. \A r \in Runs : Unlogged(r)' => Unlogged(r)
      BY DEF Unlogged, Is, Op
    <3>5. \A q \in Pruners : pruner'[q].step \notin {"read", "intended", "replaced"}
      BY <2>4 DEF Live
    <3>6. log' = undo[p].before /\ undo' = [undo EXCEPT ![p] = NoUndo]
      BY <1>2, <1>4
    <3>7. QED BY <1>1, <1>4, <3>1, <3>2, <3>3, <3>4, <3>5, <3>6, TakenBack
  <2>8. QED BY <1>2, <2>5, <2>6, <2>7 DEF HistoryInv
<1>5. QED BY <1>3, <1>4

\* A recovery does not ask for events.lock; as long as it finds the log that
\* the killed prune wrote, nothing is lost.  (FilesystemRecovery.apply)
LEMMA Recovers ==
    ASSUME HistoryInv, NEW p \in Pruners, Recover(p), UNCHANGED <<step, request>>
    PROVE  HistoryInv'
<1>1. HistoryTypeOK /\ Locks
  BY DEF HistoryInv
<1>2. /\ At(p, "killed") /\ Interrupted(p)
      /\ \A q \in Pruners : ~At(q, "intended") /\ ~At(q, "replaced")
      /\ log' = undo[p].before
      /\ undo' = [undo EXCEPT ![p] = NoUndo]
      /\ clobbered' = (clobbered \/ log # undo[p].left \/ \E q \in Pruners : At(q, "read"))
      /\ UNCHANGED <<outputs, lock, pruner, trouble>>
  BY DEF Recover, Interrupted
<1>3. HistoryTypeOK'
  BY <1>1, <1>2, HistoryTypes DEF HistoryTypeOK
<1>4. Locks'
  <2>1. undo'[p] = NoUndo /\ \A q \in Pruners \ {p} : undo'[q] = undo[q]
    BY <1>1, <1>2 DEF HistoryTypeOK
  <2>2. QED BY <1>1, <1>2, <2>1 DEF Locks, Interrupted, At
<1>5. ASSUME ~clobbered' PROVE Sound'
  <2>1. Sound /\ log = undo[p].left /\ \A q \in Pruners : ~At(q, "read")
    BY <1>2, <1>5 DEF HistoryInv
  <2>2. \A l \in Line : Dead(l)' => Dead(l)
    BY <1>2, DeadFrame DEF At
  <2>3. \A r \in Runs : Unlogged(r)' => Unlogged(r)
    BY DEF Unlogged, Is, Op
  <2>4. \A q \in Pruners : pruner'[q].step \notin {"read", "intended", "replaced"}
    BY <1>2, <2>1 DEF At
  <2>5. log' = undo[p].before /\ undo' = [undo EXCEPT ![p] = NoUndo]
    BY <1>2
  <2>6. QED BY <1>1, <1>2, <2>1, <2>2, <2>3, <2>4, <2>5, TakenBack
<1>6. QED BY <1>3, <1>4, <1>5 DEF HistoryInv

\* All that prunes and recoveries do.
LEMMA HistoryStep ==
    ASSUME HistoryInv, HistoryNext, UNCHANGED <<step, request>>
    PROVE  HistoryInv'
<1>1. PICK p \in Pruners : PruneStep(p) \/ FailPrune(p) \/ KillPrune(p) \/ Recover(p)
  BY DEF HistoryNext
<1>2. HistoryTypeOK /\ Locks
  BY DEF HistoryInv
<1>3. CASE \E keep \in Keeps : TakeLock(p, keep)
  BY <1>3, TakesLock
<1>4. CASE ReadLog(p)
  <2>1. CASE Torn(log)
    <3>1. pruner[p].step \in Live /\ ~Interrupted(p) /\ trouble' \in 0..MaxTrouble
      BY <1>2, <1>4 DEF ReadLog, At, Live, Locks, HistoryTypeOK
    <3>2. QED BY <1>4, <2>1, <3>1, GivesLockBack DEF ReadLog
  <2>2. QED BY <1>4, <2>1, ReadsLog
<1>5. CASE IntendReplace(p) \/ ReplaceLog(p)
  BY <1>5, IntendsReplace, ReplacesLog
<1>6. CASE CommitLog(p)
  BY <1>6, CommitsLog
<1>7. CASE RemoveOutput(p)
  BY <1>7, RemovesOutput
<1>8. CASE EndPrune(p)
  <2>1. pruner[p].step \in Live /\ ~Interrupted(p) /\ trouble' \in 0..MaxTrouble
    BY <1>2, <1>8 DEF EndPrune, At, Live, Locks, HistoryTypeOK
  <2>2. QED BY <1>8, <2>1, GivesLockBack DEF EndPrune
<1>9. CASE FailPrune(p)
  BY <1>9, FailsInPrune
<1>10. CASE KillPrune(p)
  <2>1. pruner[p].step \in Live /\ trouble' \in 0..MaxTrouble
    BY <1>2, <1>10, HistoryAssumption DEF KillPrune, Trouble, Live, HistoryTypeOK
  <2>2. QED BY <1>10, <2>1, GivesLockBack DEF KillPrune
<1>11. CASE Recover(p)
  BY <1>11, Recovers
<1>12. QED BY <1>1, <1>3, <1>4, <1>5, <1>6, <1>7, <1>8, <1>9, <1>10, <1>11 DEF PruneStep

-----------------------------------------------------------------------------
(* What commands and others do to the history. *)

\* A command moves on: it does not come back to where its record is still to be
\* written.
LEMMA StaysLogged ==
    ASSUME IInv, NEW c \in Runs \cup Syncs, NEW s, Goto(c, s), UNCHANGED request,
           c \in Runs => \/ Unlogged(c) \/ s \in {"leave", "done", "killed"}
                         \/ s = "digest" /\ Op(c) # "run"
    PROVE  \A r \in Runs : Unlogged(r)' => Unlogged(r)
<1>1. step'[c] = s /\ \A r \in (Runs \cup Syncs) \ {c} : step'[r] = step[r]
  BY DEF Goto, IInv, TypeOK
<1>2. ASSUME NEW r \in Runs, r # c PROVE Unlogged(r)' => Unlogged(r)
  BY <1>1, <1>2 DEF Unlogged, Is, Op
<1>3. ASSUME c \in Runs, s \in {"leave", "done", "killed"} \/ (s = "digest" /\ Op(c) # "run")
      PROVE  ~Unlogged(c)'
  BY <1>1, <1>3 DEF Unlogged, Is, Op, Preparing
<1>4. QED BY <1>2, <1>3

\* All that is said of the history by a step that leaves it alone.
Quiet ==
    /\ UNCHANGED <<log, outputs, lock, pruner, undo, clobbered>>
    /\ trouble' \in 0..MaxTrouble
    /\ \A r \in Runs : Unlogged(r)' => Unlogged(r)

\* A step that leaves log, outputs, backup and pruner alone keeps the invariant.
LEMMA QuietStep ==
    ASSUME HistoryInv, Quiet
    PROVE  HistoryInv'
<1>1. HistoryTypeOK' /\ Locks'
  BY DEF HistoryInv, Quiet, HistoryTypeOK, Locks, Interrupted
<1>2. ASSUME ~clobbered PROVE Sound'
  <2>1. HistoryTypeOK /\ Sound
    BY <1>2 DEF HistoryInv
  <2>2. \A p \in Pruners : Reads(p)' /\ Replaces(p)'
    BY <2>1 DEF Quiet, Sound, Reads, Replaces, At, Interrupted, Torn
  <2>3. \A l \in Line : Dead(l)' => Dead(l)
    BY DeadFrame DEF Quiet, At
  <2>4. QED BY <2>1, <2>2, <2>3, SoundFrame DEF Quiet
<1>3. QED BY <1>1, <1>2 DEF HistoryInv, Quiet

\* A call that fails, or nothing that does, stays in its bound.
LEMMA TroubleBound ==
    ASSUME HistoryTypeOK, Trouble \/ UNCHANGED trouble
    PROVE  trouble' \in 0..MaxTrouble
  BY HistoryAssumption DEF HistoryTypeOK, Trouble

\* Steps of a command that are not about its outputs or its record.
LEMMA PreparationIsQuiet ==
    ASSUME IInv, HistoryTypeOK, NEW r \in Runs,
           \/ \E a \in Asked[r] : Start(r, a)
           \/ Configure(r) \/ Select(r) \/ Digest(r) \/ ResolveInventory(r)
           \/ Status(r) \/ Resolve(r) \/ HeadRevision(r) \/ Decide(r) \/ PrepareEnvironment(r)
    PROVE  Quiet
<1>1. UNCHANGED <<log, outputs, lock, pruner, undo, clobbered>> /\ (Trouble \/ UNCHANGED trouble)
  BY DEF Start, Configure, Select, Digest, ResolveInventory, Status, Resolve, HeadRevision,
         Decide, PrepareEnvironment, Advance, Refuse, Gather, KeepHistory, historyVars
<1>2. \A c \in Runs : Unlogged(c)' => Unlogged(c)
  <2>1. CASE \E a \in Asked[r] : Start(r, a)
    <3>1. Is(r, "idle") /\ \A c \in Runs \ {r} : step'[c] = step[c] /\ request'[c] = request[c]
      BY <2>1 DEF Start, Stop, Goto, IInv, TypeOK
    <3>2. QED BY <3>1 DEF Unlogged, Is, Op
  <2>2. CASE Digest(r)
    <3>1. ~Ended(r) /\ ~Is(r, "leave")
      BY <2>2 DEF Digest, Is, Ended
    <3>2. PICK s : s = Following(r)
      OBVIOUS
    <3>3. (Goto(r, s) \/ Goto(r, "leave")) /\ UNCHANGED request
      BY <2>2, <3>2 DEF Digest, Refuse, Stop, Gather, Goto
    <3>4. Op(r) = "run" \/ s = "leave"
      BY <2>2, <3>1, <3>2, FollowingSteps DEF Digest
    <3>5. Op(r) = "run" => Unlogged(r)
      BY <2>2 DEF Digest, Unlogged
    <3>6. QED BY <3>3, <3>4, <3>5, StaysLogged
  <2>3. CASE \/ Configure(r) \/ Select(r) \/ ResolveInventory(r)
             \/ Status(r) \/ Resolve(r) \/ HeadRevision(r) \/ Decide(r) \/ PrepareEnvironment(r)
    <3>1. Unlogged(r)
      BY <2>3 DEF Configure, Select, ResolveInventory, Status, Resolve, HeadRevision,
                  Decide, PrepareEnvironment, Unlogged, Preparing, Is
    <3>2. PICK s : s = Following(r)
      OBVIOUS
    <3>3. (Goto(r, s) \/ Goto(r, "leave")) /\ UNCHANGED request
      BY <2>3, <3>2 DEF Configure, Select, ResolveInventory, Status, Resolve, HeadRevision,
                        Decide, PrepareEnvironment, Advance, Refuse, Stop, Gather, Goto
    <3>4. QED BY <3>1, <3>3, StaysLogged
  <2>4. QED BY <2>1, <2>2, <2>3
<1>3. QED BY <1>1, <1>2, TroubleBound DEF Quiet

\* A step of a command other than its append leaves the history alone.
LEMMA ExecutionIsQuiet ==
    ASSUME IInv, HistoryTypeOK, NEW r \in Runs,
           \/ GitFails(r) \/ Interrupt(r) \/ Kill(r) \/ Materialise(r) \/ Spawn(r) \/ Finish(r)
           \/ PublishToOutbox(r) \/ Leave(r)
    PROVE  Quiet
<1>1. UNCHANGED <<log, outputs, lock, pruner, undo, clobbered>> /\ (Trouble \/ UNCHANGED trouble)
  BY DEF GitFails, Interrupt, Kill, Materialise, Spawn, Finish, PublishToOutbox, Leave,
         Refuse, KeepHistory, historyVars
<1>2. UNCHANGED request
  BY DEF GitFails, Interrupt, Kill, Materialise, Spawn, Finish, PublishToOutbox, Leave, Refuse
<1>3. \A c \in Runs : Unlogged(c)' => Unlogged(c)
  <2>1. CASE GitFails(r) \/ Interrupt(r) \/ Kill(r) \/ Leave(r)
    <3>1. Goto(r, "leave") \/ Goto(r, "killed") \/ Goto(r, "done")
      BY <2>1 DEF GitFails, Interrupt, Kill, Leave, Refuse, Stop
    <3>2. QED BY <1>2, <3>1, StaysLogged
  <2>2. CASE Materialise(r) \/ Spawn(r) \/ Finish(r)
    <3>1. Unlogged(r)
      BY <2>2 DEF Materialise, Spawn, Finish, Unlogged, Preparing, Is
    <3>2. PICK s : s = Following(r)
      OBVIOUS
    <3>3. Goto(r, s) \/ Goto(r, "leave") \/ Goto(r, "log")
      BY <2>2, <3>2 DEF Materialise, Spawn, Finish, Stop, Goto
    <3>4. QED BY <1>2, <3>1, <3>3, StaysLogged
  <2>3. CASE PublishToOutbox(r)
    <3>1. ~Ended(r) /\ ~Is(r, "leave") /\ Is(r, "outbox")
      BY <2>3 DEF PublishToOutbox, Is, Ended
    <3>2. PICK s : s = Following(r)
      OBVIOUS
    <3>3. s = IF Op(r) = "syntax" THEN "digest" ELSE "leave"
      BY <3>1, <3>2, FollowingSteps
    <3>4. Goto(r, s)
      BY <2>3, <3>2 DEF PublishToOutbox, Goto
    <3>5. QED BY <1>2, <3>3, <3>4, StaysLogged
  <2>4. QED BY <2>1, <2>2, <2>3
<1>4. QED BY <1>1, <1>3, TroubleBound DEF Quiet

\* So do the people and the sync beside it.
LEMMA OthersAreQuiet ==
    ASSUME IInv, HistoryTypeOK, Others \/ (\E s \in Syncs : SyncStep(s)) \/ UNCHANGED vars
    PROVE  Quiet
<1>1. CASE Others \/ UNCHANGED vars
  <2>1. /\ UNCHANGED <<log, outputs, lock, pruner, undo, clobbered, step, request>>
        /\ Trouble \/ UNCHANGED trouble
    BY <1>1 DEF Others, vars, command, historyVars
  <2>2. \A c \in Runs : Unlogged(c)' => Unlogged(c)
    BY <2>1 DEF Unlogged, Is, Op
  <2>3. QED BY <2>1, <2>2, TroubleBound DEF Quiet
<1>2. CASE \E s \in Syncs : SyncStep(s)
  <2>1. PICK s \in Syncs : SyncStep(s)
    BY <1>2
  <2>2. /\ UNCHANGED <<log, outputs, lock, pruner, undo, clobbered, request>>
        /\ Trouble \/ UNCHANGED trouble
    BY <2>1 DEF SyncStep, InspectForSync, Fetch, Checkout, InspectAgain, Sync, Leave,
                Advance, Refuse, Gather, KeepHistory, historyVars
  <2>3. PICK t : Goto(s, t)
    <3>1. \/ Goto(s, "fetch") \/ Goto(s, "checkout") \/ Goto(s, "resolve") \/ Goto(s, "head")
          \/ Goto(s, "leave") \/ Goto(s, "done")
      BY <2>1 DEF SyncStep, InspectForSync, Fetch, Checkout, InspectAgain, Sync, Leave,
                  Advance, Refuse, Gather, Stop
    <3>2. QED BY <3>1
  <2>4. s \notin Runs
    BY RunAssumption
  <2>5. \A c \in Runs : Unlogged(c)' => Unlogged(c)
    BY <2>2, <2>3, <2>4, StaysLogged
  <2>6. QED BY <2>2, <2>5, TroubleBound DEF Quiet
<1>3. QED BY <1>1, <1>2

\* A line is appended under the lock, by nobody but its own execution.
LEMMA LogGrows ==
    ASSUME HistoryInv, LockFree, NEW line \in Line, log' = Appended(log, line),
           UNCHANGED <<outputs, lock, pruner, undo, clobbered>>, trouble' \in 0..MaxTrouble,
           \A r \in Runs : Unlogged(r)' => Unlogged(r) /\ line.id # r,
           ~clobbered => /\ line.refs => line.id \in outputs
                         /\ \A k \in Line : Known(k) /\ k.id = line.id => k = TornLine
                         /\ line.id = NoProc => line = TornLine
    PROVE  HistoryInv'
<1>1. HistoryTypeOK /\ Locks
  BY DEF HistoryInv
<1>2. /\ log' \in Seq(Line) /\ ToSet(log) \subseteq ToSet(log')
      /\ ToSet(log') \subseteq ToSet(log) \cup {line}
      /\ UniqueIds(log) /\ (\A k \in ToSet(log) : k.id = line.id => k = TornLine)
            /\ (line.id = NoProc => line = TornLine) => UniqueIds(log')
  <2>1. \A lines \in Seq(Line) :
            /\ Appended(lines, line) \in Seq(Line)
            /\ ToSet(lines) \subseteq ToSet(Appended(lines, line))
            /\ ToSet(Appended(lines, line)) \subseteq ToSet(lines) \cup {line}
            /\ UniqueIds(lines) /\ (\A k \in ToSet(lines) : k.id = line.id => k = TornLine)
                 /\ (line.id = NoProc => line = TornLine)
                 => UniqueIds(Appended(lines, line))
    BY Appending
  <2>2. QED BY <1>1, <2>1 DEF HistoryTypeOK
<1>3. HistoryTypeOK' /\ Locks'
  BY <1>1, <1>2 DEF HistoryTypeOK, Locks, Interrupted
<1>4. \A p \in Pruners : pruner[p].step \notin Live
  BY <1>1, OneHolder DEF LockFree
<1>5. ASSUME ~clobbered PROVE Sound'
  <2>1. Sound
    BY <1>5 DEF HistoryInv
  <2>2. \A k \in Line : Known(k)' => Known(k) \/ k = line
    BY <1>2 DEF Known, Interrupted
  <2>3. OneLineEach'
    <3>1. \A k \in ToSet(log) : k.id = line.id => k = TornLine
      BY <1>1, <1>5, HistoryTypes DEF Known
    <3>2. UniqueIds(log)'
      BY <1>2, <1>5, <2>1, <3>1 DEF Sound, OneLineEach, UniqueIds
    <3>3. ASSUME NEW k \in Line, Known(k), k.id = line.id PROVE k = line
      <4>1. k = TornLine
        BY <1>5, <3>3
      <4>2. line.id = NoProc
        BY <3>3, <4>1 DEF TornLine
      <4>3. QED BY <1>5, <4>1, <4>2
    <3>4. \A k, l \in Line : Known(k)' /\ Known(l)' /\ k.id = l.id => k = l
      BY <2>1, <2>2, <3>3 DEF Sound, OneLineEach
    <3>5. \A k \in Line : Known(k)' /\ k.id = NoProc => k = TornLine
      BY <1>5, <2>1, <2>2 DEF Sound, OneLineEach
    <3>6. QED BY <3>2, <3>4, <3>5 DEF OneLineEach
  <2>4. Fresh'
    BY <2>1, <2>2 DEF Sound, Fresh
  <2>5. \A l \in Line : Dead(l)' => Dead(l)
    BY DeadFrame DEF At
  <2>6. ~Dead(line)
    BY <1>4, <1>5 DEF Dead, At, Live
  <2>7. AllAlive'
    BY <1>1, <1>2, <2>1, <2>5, <2>6, HistoryTypes DEF Sound, AllAlive
  <2>8. \A p \in Pruners : Reads(p)' /\ Replaces(p)'
    BY <1>4 DEF Reads, Replaces, At, Live
  <2>9. ASSUME NEW p \in Pruners PROVE CanBeUndone(p)'
    <3>1. SUFFICES ASSUME Interrupted(p)' PROVE CanBeUndone(p)'
      BY DEF CanBeUndone
    <3>2. Interrupted(p) /\ CanBeUndone(p) /\ undo' = undo
      BY <2>1, <3>1 DEF Sound, Interrupted
    <3>3. line \notin ToSet(undo[p].before)
      <4>1. SUFFICES ASSUME line \in ToSet(undo[p].before) PROVE FALSE
        OBVIOUS
      <4>2. Known(line)
        BY <3>2, <4>1 DEF Known
      <4>3. line = TornLine
        BY <1>5, <4>2
      <4>4. QED BY <3>2, <4>1, <4>3 DEF CanBeUndone
    <3>4. ToSet(log') \cap ToSet(undo[p].before) \subseteq ToSet(undo[p].left)
      BY <1>2, <3>2, <3>3 DEF CanBeUndone
    <3>5. \A l \in ToSet(undo[p].before) : Dead(l)' => l \in ToSet(undo[p].left)
      BY <1>1, <2>5, <3>2, HistoryTypes DEF CanBeUndone
    <3>6. UniqueIds(undo[p].before)'
      BY <3>2 DEF UniqueIds, CanBeUndone
    <3>7. QED BY <3>2, <3>4, <3>5, <3>6 DEF CanBeUndone, Interrupted
  <2>10. QED BY <2>3, <2>4, <2>7, <2>8, <2>9 DEF Sound
<1>6. QED BY <1>3, <1>5 DEF HistoryInv

\* The record of an execution, or what a failing append leaves of it.
LEMMA PublishesToLog ==
    ASSUME IInv, HistoryInv, NEW r \in Runs, PublishToLog(r)
    PROVE  HistoryInv'
<1>1. HistoryTypeOK /\ Unlogged(r) /\ Goto(r, "outbox") /\ UNCHANGED request
  BY DEF HistoryInv, PublishToLog, NextSubscriber, Unlogged
<1>2. /\ step'[r] = "outbox"
      /\ \A c \in Runs : Unlogged(c)' => Unlogged(c) /\ c # r
  <2>1. step'[r] = "outbox" /\ \A c \in Runs \ {r} : step'[c] = step[c]
    BY <1>1 DEF Goto, IInv, TypeOK
  <2>2. ~Unlogged(r)'
    BY <2>1 DEF Unlogged, Is, Preparing
  <2>3. QED BY <1>1, <2>1, <2>2 DEF Unlogged, Is, Op
<1>3. CASE Emit(r, r \in outputs /\ Is(r, "log")) /\ UNCHANGED trouble
  <2>1. PICK refs \in BOOLEAN : refs = (r \in outputs /\ Is(r, "log"))
    OBVIOUS
  <2>2. PICK line \in Line : line = Record(r, refs) /\ line.id = r /\ line.refs = refs
    <3>1. /\ Record(r, refs) \in Line
          /\ Record(r, refs).id = r /\ Record(r, refs).refs = refs
      BY DEF Line, Record
    <3>2. QED BY <3>1
  <2>3. log' = Appended(log, line) /\ LockFree
        /\ UNCHANGED <<outputs, lock, pruner, undo, clobbered>> /\ trouble' \in 0..MaxTrouble
    BY <1>1, <1>3, <2>1, <2>2, TroubleBound DEF PublishToLog, Emit
  <2>4. r # NoProc
    BY HistoryAssumption
  <2>5. ~clobbered => \A k \in Line : Known(k) => k.id # r
    BY <1>1 DEF HistoryInv, Sound, Fresh
  <2>6. line.refs => line.id \in outputs
    BY <2>1, <2>2
  <2>7. QED BY <1>2, <2>2, <2>3, <2>4, <2>5, <2>6, LogGrows
<1>4. CASE Trouble /\ EmitFails
  <2>1. LockFree /\ UNCHANGED <<outputs, lock, pruner, undo, clobbered>> /\ trouble' \in 0..MaxTrouble
    BY <1>1, <1>4, TroubleBound DEF PublishToLog, EmitFails
  <2>2. CASE log' = log
    BY <1>2, <2>1, <2>2, QuietStep DEF Quiet
  <2>3. CASE log' = Appended(log, TornLine)
    <3>1. TornLine \in Line /\ TornLine.id = NoProc /\ ~TornLine.refs /\ NoProc \notin Runs
      BY HistoryAssumption DEF TornLine, Line
    <3>2. ~clobbered => \A k \in Line : Known(k) /\ k.id = TornLine.id => k = TornLine
      BY <3>1 DEF HistoryInv, Sound, OneLineEach
    <3>3. QED BY <1>2, <2>1, <2>3, <3>1, <3>2, LogGrows
  <2>4. QED BY <1>4, <2>2, <2>3 DEF EmitFails
<1>5. QED BY <1>3, <1>4 DEF PublishToLog

\* The outputs of an execution are stored, and then no line is more dead.
LEMMA PersistsOutputs ==
    ASSUME IInv, HistoryInv, NEW r \in Runs, PersistOutputs(r)
    PROVE  HistoryInv'
<1>1. HistoryTypeOK /\ Locks
  BY DEF HistoryInv
<1>2. /\ outputs \subseteq outputs' /\ outputs' \subseteq Runs /\ trouble' \in 0..MaxTrouble
      /\ UNCHANGED <<log, lock, pruner, undo, clobbered, request>>
  BY <1>1, TroubleBound DEF PersistOutputs, HistoryTypeOK
<1>3. HistoryTypeOK' /\ Locks'
  BY <1>1, <1>2 DEF HistoryTypeOK, Locks, Interrupted
<1>4. \A c \in Runs : Unlogged(c)' => Unlogged(c)
  <2>1. PICK s : s = Following(r)
    OBVIOUS
  <2>2. Unlogged(r) /\ (Goto(r, s) \/ Goto(r, "logbare"))
    BY <2>1 DEF PersistOutputs, Unlogged, Is, Goto
  <2>3. QED BY <1>2, <2>2, StaysLogged
<1>5. ASSUME ~clobbered PROVE Sound'
  <2>1. Sound
    BY <1>5 DEF HistoryInv
  <2>2. \A p \in Pruners : Reads(p)' /\ Replaces(p)'
    BY <1>2, <2>1 DEF Sound, Reads, Replaces, At, Interrupted, Torn
  <2>3. \A l \in Line : Dead(l)' => Dead(l)
    BY <1>2, DeadFrame DEF At
  <2>4. QED BY <1>1, <1>2, <1>4, <2>1, <2>2, <2>3, SoundFrame
<1>6. QED BY <1>2, <1>3, <1>5 DEF HistoryInv

-----------------------------------------------------------------------------
(* The theorems. *)

\* The history a workspace is met with has an output for every record.
LEMMA HistoryStarts == Init => HistoryInv
<1>1. SUFFICES ASSUME Init PROVE HistoryInv
  OBVIOUS
<1>2. /\ log = [i \in DOMAIN Earlier |-> Record(Earlier[i], TRUE)]
      /\ outputs = ToSet(Earlier) /\ lock = NoProc
      /\ pruner = [p \in Pruners |-> Idle]
      /\ undo = [p \in Pruners |-> NoUndo]
      /\ clobbered = FALSE /\ trouble = 0
      /\ step = [c \in Runs \cup Syncs |-> IF c \in ToSet(Earlier) THEN "done" ELSE "idle"]
  BY <1>1 DEF Init, HistoryInit
<1>3. /\ Earlier \in Seq(Runs) /\ DOMAIN Earlier = 1..Len(Earlier) /\ Len(Earlier) \in Nat
      /\ \A i \in DOMAIN Earlier : Earlier[i] \in Runs
      /\ \A i, j \in DOMAIN Earlier : Earlier[i] = Earlier[j] => i = j
  BY HistoryAssumption DEF IsInjective
<1>4. /\ DOMAIN log = DOMAIN Earlier
      /\ \A i \in DOMAIN Earlier : log[i].id = Earlier[i] /\ log[i] \in Line
                                     /\ log[i] = Record(Earlier[i], TRUE)
  BY <1>2, <1>3 DEF Record, Line
<1>5. log \in Seq(Line)
  <2>1. log \in [1..Len(Earlier) -> Line]
    BY <1>2, <1>3, <1>4
  <2>2. QED BY <1>3, <2>1, SeqDef
<1>6. ToSet(Earlier) \subseteq Runs
  BY <1>3 DEF ToSet
<1>7. HistoryTypeOK
  <2>1. <<>> \in Seq(Line)
    OBVIOUS
  <2>2. Idle \in [step : PruneSteps,
                  keep : Keeps \cup {0}, old : Seq(Line), gone : Seq(Line)]
    BY <2>1 DEF Idle, PruneSteps, Live
  <2>3. trouble \in 0..MaxTrouble
    BY <1>2, HistoryAssumption
  <2>4. QED BY <1>2, <1>5, <1>6, <2>2, <2>3 DEF HistoryTypeOK
<1>8. \A p \in Pruners : ~Interrupted(p) /\ pruner[p].step = "idle"
  BY <1>2 DEF Interrupted, Idle
<1>9. Locks
  BY <1>8 DEF Locks, Live
<1>10. \A k : Known(k) => \E i \in DOMAIN Earlier : k = Record(Earlier[i], TRUE)
  BY <1>4, <1>8 DEF Known, ToSet
<1>11. OneLineEach
  <2>1. UniqueIds(log)
    BY <1>3, <1>4 DEF UniqueIds
  <2>2. \A k : Known(k) => k.id \in Runs
    BY <1>3, <1>10 DEF Record
  <2>3. ASSUME NEW k \in Line, NEW l \in Line, Known(k), Known(l), k.id = l.id PROVE k = l
    <3>1. PICK i \in DOMAIN Earlier : k = Record(Earlier[i], TRUE)
      BY <1>10, <2>3
    <3>2. PICK j \in DOMAIN Earlier : l = Record(Earlier[j], TRUE)
      BY <1>10, <2>3
    <3>3. QED BY <2>3, <3>1, <3>2 DEF Record
  <2>4. NoProc \notin Runs
    BY HistoryAssumption
  <2>5. QED BY <2>1, <2>2, <2>3, <2>4 DEF OneLineEach
<1>12. Fresh
  <2>1. ASSUME NEW r \in Runs, Unlogged(r), NEW k, Known(k) PROVE k.id # r
    <3>1. r \notin ToSet(Earlier)
      BY <1>2, <2>1 DEF Unlogged, Is, Preparing
    <3>2. k.id \in ToSet(Earlier)
      BY <1>10, <2>1 DEF Record, ToSet
    <3>3. QED BY <3>1, <3>2
  <2>2. QED BY <2>1 DEF Fresh
<1>13. AllAlive
  <2>1. ASSUME NEW l \in ToSet(log) PROVE ~Dead(l)
    <3>1. PICK i \in DOMAIN Earlier : l = log[i]
      BY <1>4 DEF ToSet
    <3>2. l.id \in outputs
      BY <1>2, <1>4, <3>1 DEF ToSet
    <3>3. QED BY <1>8, <3>2 DEF Dead, At
  <2>2. QED BY <2>1 DEF AllAlive
<1>14. \A p \in Pruners : Reads(p) /\ Replaces(p) /\ CanBeUndone(p)
  BY <1>8 DEF Reads, Replaces, CanBeUndone, At
<1>15. QED BY <1>7, <1>9, <1>11, <1>12, <1>13, <1>14 DEF HistoryInv, Sound

\* Appends, prunes, kills and recoveries keep the invariant.  (append, prune)
LEMMA Keeps_HistoryInv == IInv /\ HistoryInv /\ [Next]_vars => HistoryInv'
<1>1. SUFFICES ASSUME IInv, HistoryInv, [Next]_vars PROVE HistoryInv'
  OBVIOUS
<1>2. HistoryTypeOK
  BY <1>1 DEF HistoryInv
<1>3. CASE Others \/ (\E s \in Syncs : SyncStep(s)) \/ UNCHANGED vars
  BY <1>1, <1>2, <1>3, OthersAreQuiet, QuietStep
<1>4. CASE HistoryNext /\ UNCHANGED <<world, command, outbox, disturbed>>
  BY <1>1, <1>4, HistoryStep DEF command
<1>5. ASSUME NEW r \in Runs,
             (\E q \in Asked[r] : Start(r, q)) \/ RunStep(r) \/ GitFails(r) \/ Interrupt(r) \/ Kill(r)
      PROVE  HistoryInv'
  <2>1. CASE PersistOutputs(r)
    BY <1>1, <2>1, PersistsOutputs
  <2>2. CASE PublishToLog(r)
    BY <1>1, <2>2, PublishesToLog
  <2>3. CASE ~PersistOutputs(r) /\ ~PublishToLog(r)
    BY <1>1, <1>2, <1>5, <2>3, PreparationIsQuiet, ExecutionIsQuiet, QuietStep DEF RunStep
  <2>4. QED BY <2>1, <2>2, <2>3
<1>6. QED BY <1>1, <1>3, <1>4, <1>5 DEF Next, CommandNext

\* The event log, the locks and the backups, at every step of everybody.
THEOREM HistoryInvariant == Spec => [](IInv /\ HistoryInv)
<1>1. Init => IInv /\ HistoryInv
  BY Starts, HistoryStarts
<1>2. IInv /\ HistoryInv /\ [Next]_vars => IInv' /\ HistoryInv'
  BY Keeps_IInv, Keeps_HistoryInv
<1>3. QED BY <1>1, <1>2, PTL DEF Spec

\* A record never refers to outputs that are gone, whatever is killed or fails,
\* unless a recovery has put back a log that was used since.
THEOREM RecordsHaveTheirOutputs == Spec => []ReferencesResolve
<1>1. HistoryInv => ReferencesResolve
  BY DEF HistoryInv, Sound, AllAlive, Dead, ReferencesResolve
<1>2. QED BY <1>1, HistoryInvariant, PTL

\* A line is there after a step, or it may go.
LineStays(i) ==
    \/ log[i] \in ToSet(log')
    \/ log[i] = TornLine
    \/ clobbered'
    \/ \E p \in Pruners :
          /\ At(p, "intended") /\ pruner'[p].step = "replaced"
          /\ i <= Excess(log, pruner[p].keep)

\* Only a prune's own replacement takes lines out of the log; what a failing
\* prune and a recovery put back holds all that is there.
LEMMA LinesStay ==
    ASSUME HistoryInv, [Next]_vars, NEW i \in DOMAIN log
    PROVE  LineStays(i)
<1>1. HistoryTypeOK /\ log \in Seq(Line) /\ log[i] \in ToSet(log)
  BY DEF HistoryInv, HistoryTypeOK, ToSet
<1>2. CASE ToSet(log) \subseteq ToSet(log')
  BY <1>1, <1>2 DEF LineStays
<1>3. CASE log' = log
  BY <1>1, <1>3 DEF LineStays
<1>4. CASE \E p \in Pruners : ReplaceLog(p)
  <2>1. PICK p \in Pruners : ReplaceLog(p)
    BY <1>4
  <2>2. CASE clobbered
    BY <2>1, <2>2 DEF ReplaceLog, LineStays
  <2>3. CASE ~clobbered
    <3>1. At(p, "intended") /\ pruner[p].old = log
      BY <2>1, <2>3 DEF ReplaceLog, HistoryInv, Sound, Reads, At
    <3>2. PICK keep \in Nat : keep = pruner[p].keep
      BY <1>1, HistoryTypes
    <3>3. log' = Retained(log, keep) /\ pruner'[p].step = "replaced"
      BY <1>1, <2>1, <3>1, <3>2 DEF ReplaceLog, MoveTo, HistoryTypeOK
    <3>4. Excess(log, keep) \in 0..Len(log) /\ i \in Nat
          /\ (i > Excess(log, keep) => log[i] \in ToSet(Retained(log, keep)))
      <4>1. \A lines \in Seq(Line) :
                /\ Excess(lines, keep) \in 0..Len(lines)
                /\ \A j \in DOMAIN lines :
                       j > Excess(lines, keep) => lines[j] \in ToSet(Retained(lines, keep))
        BY Retention
      <4>2. QED BY <1>1, <4>1
    <3>5. CASE i > Excess(log, keep)
      BY <3>3, <3>4, <3>5 DEF LineStays
    <3>6. CASE ~(i > Excess(log, keep))
      <4>1. i <= Excess(log, pruner[p].keep)
        BY <1>1, <3>2, <3>4, <3>6
      <4>2. QED BY <3>1, <3>3, <4>1 DEF LineStays
    <3>7. QED BY <3>5, <3>6
  <2>4. QED BY <2>2, <2>3
<1>5. CASE \E p \in Pruners : FailPrune(p)
  <2>1. PICK p \in Pruners : FailPrune(p)
    BY <1>5
  <2>2. CASE ~Interrupted(p)
    BY <1>3, <2>1, <2>2 DEF FailPrune, Interrupted
  <2>3. CASE Interrupted(p) /\ clobbered
    BY <2>1, <2>3 DEF FailPrune, LineStays
  <2>4. CASE Interrupted(p) /\ ~clobbered
    <3>1. pruner[p].step \in {"intended", "replaced"}
      BY <2>1, <2>4 DEF FailPrune, HistoryInv, Locks, Live
    <3>2. log = undo[p].left /\ ToSet(undo[p].left) \subseteq ToSet(undo[p].before)
      BY <2>4, <3>1 DEF HistoryInv, Sound, Replaces, CanBeUndone
    <3>3. log' = undo[p].before
      BY <2>1, <2>4 DEF FailPrune, Interrupted
    <3>4. QED BY <1>2, <3>2, <3>3
  <2>5. QED BY <2>2, <2>3, <2>4
<1>6. CASE \E p \in Pruners : Recover(p)
  <2>1. PICK p \in Pruners : Recover(p)
    BY <1>6
  <2>2. CASE clobbered \/ log # undo[p].left
    BY <2>1, <2>2 DEF Recover, LineStays
  <2>3. CASE ~clobbered /\ log = undo[p].left
    <3>1. Interrupted(p) /\ log' = undo[p].before
      BY <2>1 DEF Recover, Interrupted
    <3>2. ToSet(undo[p].left) \subseteq ToSet(undo[p].before)
      BY <2>3, <3>1 DEF HistoryInv, Sound, CanBeUndone
    <3>3. QED BY <1>2, <2>3, <3>1, <3>2
  <2>4. QED BY <2>2, <2>3
<1>7. CASE \E r \in Runs : PublishToLog(r)
  <2>1. PICK r \in Runs : PublishToLog(r)
    BY <1>7
  <2>2. CASE Emit(r, r \in outputs /\ Is(r, "log"))
    <3>1. PICK line \in Line : log' = Appended(log, line)
      <4>1. PICK refs \in BOOLEAN : refs = (r \in outputs /\ Is(r, "log"))
        OBVIOUS
      <4>2. Record(r, refs) \in Line
        BY DEF Line, Record
      <4>3. log' = Appended(log, Record(r, refs))
        BY <2>2, <4>1 DEF Emit
      <4>4. QED BY <4>2, <4>3
    <3>2. QED BY <1>1, <1>2, <3>1, Appending
  <2>3. CASE EmitFails
    <3>1. TornLine \in Line
      BY DEF TornLine, Line
    <3>2. log' = log \/ log' = Appended(log, TornLine)
      BY <2>3 DEF EmitFails
    <3>3. QED BY <1>1, <1>2, <1>3, <3>1, <3>2, Appending
  <2>4. QED BY <2>1, <2>2, <2>3 DEF PublishToLog
<1>8. CASE UNCHANGED log
  BY <1>3, <1>8
<1>9. CASE HistoryNext
  <2>1. PICK p \in Pruners : PruneStep(p) \/ FailPrune(p) \/ KillPrune(p) \/ Recover(p)
    BY <1>9 DEF HistoryNext
  <2>2. CASE (\E keep \in Keeps : TakeLock(p, keep)) \/ ReadLog(p) \/ IntendReplace(p)
             \/ CommitLog(p) \/ RemoveOutput(p) \/ EndPrune(p) \/ KillPrune(p)
    BY <1>8, <2>2 DEF TakeLock, ReadLog, IntendReplace, CommitLog, RemoveOutput, EndPrune, KillPrune
  <2>3. QED BY <1>4, <1>5, <1>6, <2>1, <2>2 DEF PruneStep
<1>10. CASE Others \/ (\E s \in Syncs : SyncStep(s)) \/ UNCHANGED vars
  BY <1>8, <1>10 DEF Others, SyncStep, InspectForSync, Fetch, Checkout, InspectAgain, Sync, Leave,
     Advance, Refuse, Gather, KeepHistory, historyVars, vars
<1>11. CASE \E r \in Runs :
               \/ \E q \in Asked[r] : Start(r, q)
               \/ RunStep(r) \/ GitFails(r) \/ Interrupt(r) \/ Kill(r)
  <2>1. PICK r \in Runs :
               \/ \E q \in Asked[r] : Start(r, q)
               \/ RunStep(r) \/ GitFails(r) \/ Interrupt(r) \/ Kill(r)
    BY <1>11
  <2>2. CASE PublishToLog(r)
    BY <1>7, <2>2
  <2>3. CASE \/ \E a \in Asked[r] : Start(r, a)
             \/ Configure(r) \/ Select(r) \/ Digest(r) \/ ResolveInventory(r)
             \/ Status(r) \/ Resolve(r) \/ HeadRevision(r) \/ Decide(r) \/ PrepareEnvironment(r)
    BY <1>8, <2>3
    DEF Start, Configure, Select, Digest, ResolveInventory, Status, Resolve, HeadRevision,
        Decide, PrepareEnvironment, Advance, Refuse, Gather, KeepHistory, historyVars
  <2>4. CASE \/ GitFails(r) \/ Interrupt(r) \/ Kill(r) \/ Materialise(r) \/ Spawn(r) \/ Finish(r)
             \/ PersistOutputs(r) \/ PublishToOutbox(r) \/ Leave(r)
    BY <1>8, <2>4
    DEF GitFails, Interrupt, Kill, Materialise, Spawn, Finish, PersistOutputs, PublishToOutbox,
        Leave, Refuse, KeepHistory, historyVars
  <2>5. QED BY <2>1, <2>2, <2>3, <2>4 DEF RunStep
<1>12. QED BY <1>9, <1>10, <1>11 DEF Next, CommandNext

\* A record leaves the history only as one of the oldest, by a prune, however
\* appends, prunes, kills, failures and recoveries interleave; or by a recovery
\* that puts back a log others have used since.
THEOREM RecordsAreKept == Spec => RecordsKept
<1>1. HistoryInv /\ [Next]_vars =>
          [\A i \in DOMAIN log :
              \/ log[i] \in ToSet(log')
              \/ log[i] = TornLine
              \/ clobbered'
              \/ \E p \in Pruners :
                    /\ At(p, "intended") /\ pruner'[p].step = "replaced"
                    /\ i <= Excess(log, pruner[p].keep)]_historyVars
  BY LinesStay DEF LineStays
<1>2. QED BY <1>1, HistoryInvariant, PTL DEF Spec, RecordsKept
=============================================================================
