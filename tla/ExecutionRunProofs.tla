------------------------- MODULE ExecutionRunProofs -------------------------
(***************************************************************************)
(* What a command that runs Ansible reports, publishes and leaves behind,  *)
(* proved for any number of commands, syncs, prunes and versions, and for  *)
(* whatever others do to the workspace at any time.                        *)
(***************************************************************************)
EXTENDS ExecutionRun, TLAPS

-----------------------------------------------------------------------------
(* The inductive invariant. *)

Content == Versions \cup {None}

Evidence == [digest : Content, inventory : Content, dirty : BOOLEAN \cup {None},
             resolved : Content, head : Content]

Ran == [playbook : Content, inventory : Content]

\* Where a run, a syntax check and an inventory validation can be.
Preparing == {"configure", "select", "digest", "inventory", "status", "resolve", "head",
              "policy", "environment", "materialise", "spawn"}
Reporting == {"persist", "log", "logbare", "outbox"}
PlacesOf(operation) ==
    IF operation = "run" THEN Preparing \cup {"running"} \cup Reporting
    ELSE IF operation = "syntax" THEN {"select", "spawn", "running", "digest"} \cup Reporting
    ELSE {"inventory", "materialise", "spawn", "running"} \cup Reporting

SyncPlaces == {"fetch", "checkout", "resolve", "head"}
Steps == Preparing \cup {"running"} \cup Reporting \cup SyncPlaces
             \cup {"idle", "leave", "done", "killed"}

Outcomes == {"none", "refused", "denied", "prepared", "error", "undecodable", "interrupted",
             "classified"}

TypeOK ==
    /\ playbook \in Content /\ inventory \in Versions /\ head \in Versions /\ ref \in Versions
    /\ step \in [Runs \cup Syncs -> Steps]
    /\ request \in [Runs -> Requests \cup {None}]
    /\ seen \in [Runs \cup Syncs -> Evidence]
    /\ temp \in [Runs \cup Syncs -> Content]
    /\ ran \in [Runs -> Ran \cup {None}]
    /\ result \in [Runs \cup Syncs -> Outcomes]
    /\ diagnosed \in [Runs -> SUBSET {"log", "outbox"}]
    /\ disturbed \in [Runs -> BOOLEAN]

\* A command that has begun has a request and is somewhere on its path; one
\* that has run Ansible is past it.
OnPath(r) ==
    /\ ~Ended(r) => request[r] \in Requests
    /\ ~Ended(r) /\ ~Is(r, "leave") => step[r] \in PlacesOf(Op(r))
    /\ ran[r] # None => request[r] \in Requests
    /\ ran[r] # None =>
           \/ step[r] \in {"running", "leave", "done", "killed"} \cup Reporting
           \/ Is(r, "digest") /\ Op(r) = "syntax"
    /\ Is(r, "idle") => ran[r] = None /\ seen[r] = Nothing

\* The private inventory is the one that was digested; it goes with the command.
PrivateInventory(r) ==
    /\ step[r] \in {"idle", "done"} => temp[r] = None
    /\ Is(r, "spawn") /\ Op(r) # "syntax" => temp[r] = seen[r].inventory
    /\ ran[r] # None /\ Op(r) # "syntax" => ran[r].inventory = seen[r].inventory

FromStatus == {"resolve", "head", "policy", "environment", "materialise", "spawn"}

\* As long as nobody disturbs a run, what it has gathered still is so, and an
\* allowed apply has been found clean and limited.
StillTrue(r) ==
    ~Ended(r) /\ Op(r) = "run" =>
        /\ ~disturbed[r] =>
               /\ step[r] \in {"inventory", "status"} \cup FromStatus => seen[r].digest = playbook
               /\ step[r] \in FromStatus => seen[r].dirty = Dirty
               /\ step[r] \in {"policy", "environment", "materialise", "spawn"} =>
                      seen[r].resolved = head
        /\ step[r] \in {"environment", "materialise", "spawn"} => Allowed(r)

\* What Ansible ran with, for those nobody has disturbed; a syntax check is
\* open to others until its own digest.
RanWith(r) ==
    /\ ran[r] # None /\ ~disturbed[r] =>
           /\ Op(r) = "run" => ran[r].playbook = seen[r].digest
           /\ Applies(r) /\ request[r].enforcement = "deny" =>
                  request[r].limited /\ ran[r].playbook = seen[r].resolved
           /\ Op(r) = "syntax" /\ seen[r].digest # None => ran[r].playbook = seen[r].digest
           /\ Op(r) = "syntax" /\ ~Ended(r) /\ ~Is(r, "leave") => ran[r].playbook = playbook
    /\ request[r] \in Requests =>
           /\ Op(r) = "syntax" /\ ~Ended(r) /\ ~Is(r, "leave") => seen[r].digest = None
           /\ Op(r) = "inventory" => seen[r].digest = None

\* A classified result stays with the command until both subscribers had it.
Published(r) ==
    result[r] = "classified" =>
        step[r] \in Reporting \cup {"killed"} \/ r \in outbox \/ "outbox" \in diagnosed[r]

RunInv(r) == OnPath(r) /\ PrivateInventory(r) /\ StillTrue(r) /\ RanWith(r) /\ Published(r)

IInv == TypeOK /\ \A r \in Runs : RunInv(r)

-----------------------------------------------------------------------------
(* The paths. *)

\* A step that occurs once on a path is followed by the next one.
LEMMA Follows ==
    ASSUME NEW path, NEW i \in DOMAIN path, \A j \in DOMAIN path : path[j] = path[i] => j = i
    PROVE  After(path, path[i]) = path[1 + i]
<1>1. (CHOOSE j \in DOMAIN path : path[j] = path[i]) = i
  OBVIOUS
<1>2. QED BY <1>1 DEF After

\* The order of a run.  (RunService._prepare, _run)
LEMMA RunPathFollows ==
    /\ After(RunPath, "configure") = "select"
    /\ After(RunPath, "select") = "digest"
    /\ After(RunPath, "digest") = "inventory"
    /\ After(RunPath, "inventory") = "status"
    /\ After(RunPath, "status") = "resolve"
    /\ After(RunPath, "resolve") = "head"
    /\ After(RunPath, "head") = "policy"
    /\ After(RunPath, "policy") = "environment"
    /\ After(RunPath, "environment") = "materialise"
    /\ After(RunPath, "materialise") = "spawn"
    /\ After(RunPath, "spawn") = "running"
    /\ After(RunPath, "running") = "persist"
    /\ After(RunPath, "persist") = "log"
    /\ After(RunPath, "log") = "outbox"
    /\ After(RunPath, "outbox") = "leave"
<1>1. DOMAIN RunPath = 1..16
  BY DEF RunPath
<1>2. /\ RunPath[1] = "configure"
      /\ RunPath[2] = "select"
      /\ RunPath[3] = "digest"
      /\ RunPath[4] = "inventory"
      /\ RunPath[5] = "status"
      /\ RunPath[6] = "resolve"
      /\ RunPath[7] = "head"
      /\ RunPath[8] = "policy"
      /\ RunPath[9] = "environment"
      /\ RunPath[10] = "materialise"
      /\ RunPath[11] = "spawn"
      /\ RunPath[12] = "running"
      /\ RunPath[13] = "persist"
      /\ RunPath[14] = "log"
      /\ RunPath[15] = "outbox"
      /\ RunPath[16] = "leave"
  BY DEF RunPath
<1>3. ASSUME NEW i \in 1..16, NEW j \in 1..16, RunPath[i] = RunPath[j] PROVE i = j
  <2>1. i \in {1, 2, 3, 4, 5, 6, 7, 8, 9, 10, 11, 12, 13, 14, 15, 16} /\ j \in {1, 2, 3, 4, 5, 6, 7, 8, 9, 10, 11, 12, 13, 14, 15, 16}
    OBVIOUS
  <2>2. QED BY <1>2, <1>3, <2>1
<1>4. ASSUME NEW k \in 1..16 PROVE After(RunPath, RunPath[k]) = RunPath[1 + k]
  BY <1>1, <1>3, <1>4, Follows
<1>5. /\ After(RunPath, RunPath[1]) = RunPath[1 + 1]
      /\ After(RunPath, RunPath[2]) = RunPath[1 + 2]
      /\ After(RunPath, RunPath[3]) = RunPath[1 + 3]
      /\ After(RunPath, RunPath[4]) = RunPath[1 + 4]
      /\ After(RunPath, RunPath[5]) = RunPath[1 + 5]
      /\ After(RunPath, RunPath[6]) = RunPath[1 + 6]
      /\ After(RunPath, RunPath[7]) = RunPath[1 + 7]
      /\ After(RunPath, RunPath[8]) = RunPath[1 + 8]
      /\ After(RunPath, RunPath[9]) = RunPath[1 + 9]
      /\ After(RunPath, RunPath[10]) = RunPath[1 + 10]
      /\ After(RunPath, RunPath[11]) = RunPath[1 + 11]
      /\ After(RunPath, RunPath[12]) = RunPath[1 + 12]
      /\ After(RunPath, RunPath[13]) = RunPath[1 + 13]
      /\ After(RunPath, RunPath[14]) = RunPath[1 + 14]
      /\ After(RunPath, RunPath[15]) = RunPath[1 + 15]
  BY <1>4
<1>6. QED BY <1>2, <1>5

\* The order of a syntax check.  (PlaybookValidationService.validate)
LEMMA SyntaxPathFollows ==
    /\ After(SyntaxPath, "select") = "spawn"
    /\ After(SyntaxPath, "spawn") = "running"
    /\ After(SyntaxPath, "running") = "persist"
    /\ After(SyntaxPath, "persist") = "log"
    /\ After(SyntaxPath, "log") = "outbox"
    /\ After(SyntaxPath, "outbox") = "digest"
    /\ After(SyntaxPath, "digest") = "leave"
<1>1. DOMAIN SyntaxPath = 1..8
  BY DEF SyntaxPath
<1>2. /\ SyntaxPath[1] = "select"
      /\ SyntaxPath[2] = "spawn"
      /\ SyntaxPath[3] = "running"
      /\ SyntaxPath[4] = "persist"
      /\ SyntaxPath[5] = "log"
      /\ SyntaxPath[6] = "outbox"
      /\ SyntaxPath[7] = "digest"
      /\ SyntaxPath[8] = "leave"
  BY DEF SyntaxPath
<1>3. ASSUME NEW i \in 1..8, NEW j \in 1..8, SyntaxPath[i] = SyntaxPath[j] PROVE i = j
  <2>1. i \in {1, 2, 3, 4, 5, 6, 7, 8} /\ j \in {1, 2, 3, 4, 5, 6, 7, 8}
    OBVIOUS
  <2>2. QED BY <1>2, <1>3, <2>1
<1>4. ASSUME NEW k \in 1..8 PROVE After(SyntaxPath, SyntaxPath[k]) = SyntaxPath[1 + k]
  BY <1>1, <1>3, <1>4, Follows
<1>5. /\ After(SyntaxPath, SyntaxPath[1]) = SyntaxPath[1 + 1]
      /\ After(SyntaxPath, SyntaxPath[2]) = SyntaxPath[1 + 2]
      /\ After(SyntaxPath, SyntaxPath[3]) = SyntaxPath[1 + 3]
      /\ After(SyntaxPath, SyntaxPath[4]) = SyntaxPath[1 + 4]
      /\ After(SyntaxPath, SyntaxPath[5]) = SyntaxPath[1 + 5]
      /\ After(SyntaxPath, SyntaxPath[6]) = SyntaxPath[1 + 6]
      /\ After(SyntaxPath, SyntaxPath[7]) = SyntaxPath[1 + 7]
  BY <1>4
<1>6. QED BY <1>2, <1>5

\* The order of an inventory validation.  (InventoryValidationService.validate)
LEMMA InventoryPathFollows ==
    /\ After(InventoryPath, "inventory") = "materialise"
    /\ After(InventoryPath, "materialise") = "spawn"
    /\ After(InventoryPath, "spawn") = "running"
    /\ After(InventoryPath, "running") = "persist"
    /\ After(InventoryPath, "persist") = "log"
    /\ After(InventoryPath, "log") = "outbox"
    /\ After(InventoryPath, "outbox") = "leave"
<1>1. DOMAIN InventoryPath = 1..8
  BY DEF InventoryPath
<1>2. /\ InventoryPath[1] = "inventory"
      /\ InventoryPath[2] = "materialise"
      /\ InventoryPath[3] = "spawn"
      /\ InventoryPath[4] = "running"
      /\ InventoryPath[5] = "persist"
      /\ InventoryPath[6] = "log"
      /\ InventoryPath[7] = "outbox"
      /\ InventoryPath[8] = "leave"
  BY DEF InventoryPath
<1>3. ASSUME NEW i \in 1..8, NEW j \in 1..8, InventoryPath[i] = InventoryPath[j] PROVE i = j
  <2>1. i \in {1, 2, 3, 4, 5, 6, 7, 8} /\ j \in {1, 2, 3, 4, 5, 6, 7, 8}
    OBVIOUS
  <2>2. QED BY <1>2, <1>3, <2>1
<1>4. ASSUME NEW k \in 1..8 PROVE After(InventoryPath, InventoryPath[k]) = InventoryPath[1 + k]
  BY <1>1, <1>3, <1>4, Follows
<1>5. /\ After(InventoryPath, InventoryPath[1]) = InventoryPath[1 + 1]
      /\ After(InventoryPath, InventoryPath[2]) = InventoryPath[1 + 2]
      /\ After(InventoryPath, InventoryPath[3]) = InventoryPath[1 + 3]
      /\ After(InventoryPath, InventoryPath[4]) = InventoryPath[1 + 4]
      /\ After(InventoryPath, InventoryPath[5]) = InventoryPath[1 + 5]
      /\ After(InventoryPath, InventoryPath[6]) = InventoryPath[1 + 6]
      /\ After(InventoryPath, InventoryPath[7]) = InventoryPath[1 + 7]
  BY <1>4
<1>6. QED BY <1>2, <1>5
-----------------------------------------------------------------------------
(* Frames: what a step leaves alone. *)

\* A command whose own fields do not change, in a world that does not.
LEMMA OthersStep ==
    ASSUME NEW r \in Runs, RunInv(r), UNCHANGED <<world, disturbed>>,
           step'[r] = step[r], request'[r] = request[r], seen'[r] = seen[r], temp'[r] = temp[r],
           ran'[r] = ran[r], result'[r] = result[r], diagnosed'[r] = diagnosed[r],
           outbox \subseteq outbox'
    PROVE  RunInv(r)'
<1>1. playbook' = playbook /\ head' = head /\ disturbed' = disturbed
  BY DEF world
<1>2. Op(r)' = Op(r) /\ Applies(r)' = Applies(r) /\ Dirty' = Dirty /\ Allowed(r)' = Allowed(r)
  BY <1>1 DEF Op, Applies, Dirty, Allowed, Findings
<1>3. OnPath(r)' /\ PrivateInventory(r)' /\ Published(r)'
  BY <1>2 DEF RunInv, OnPath, PrivateInventory, Published, Ended, Is
<1>4. StillTrue(r)' /\ RanWith(r)'
  BY <1>1, <1>2 DEF RunInv, StillTrue, RanWith, Ended, Is
<1>5. QED BY <1>3, <1>4 DEF RunInv

\* Whatever others change, they disturb every command that still gathers its
\* evidence or has not run Ansible, and nothing else is said of the world.
LEMMA DisturbedStep ==
    ASSUME NEW r \in Runs, RunInv(r), TypeOK, Disturbs,
           step'[r] = step[r], request'[r] = request[r], seen'[r] = seen[r], temp'[r] = temp[r],
           ran'[r] = ran[r], result'[r] = result[r], diagnosed'[r] = diagnosed[r],
           outbox \subseteq outbox'
    PROVE  RunInv(r)'
<1>1. disturbed'[r] = (disturbed[r] \/ (~Ended(r) /\ (ran[r] = None \/ Op(r) = "syntax")))
  BY DEF Disturbs
<1>2. Op(r)' = Op(r) /\ Applies(r)' = Applies(r) /\ Allowed(r)' = Allowed(r)
      /\ Ended(r)' = Ended(r)
  BY DEF Op, Applies, Allowed, Findings, Ended
<1>3. OnPath(r)' /\ PrivateInventory(r)' /\ Published(r)'
  BY <1>2 DEF RunInv, OnPath, PrivateInventory, Published, Ended, Is
<1>4. StillTrue(r)'
  <2>1. SUFFICES ASSUME ~Ended(r), Op(r) = "run", ~disturbed'[r]
                 PROVE  step[r] \notin {"inventory", "status"} \cup FromStatus
    BY <1>2 DEF RunInv, StillTrue, FromStatus
  <2>2. ran[r] # None
    BY <1>1, <2>1
  <2>3. QED BY <2>1, <2>2 DEF RunInv, OnPath, FromStatus, Reporting, Is
<1>5. RanWith(r)'
  BY <1>1, <1>2 DEF RunInv, RanWith, Ended, Is
<1>6. QED BY <1>3, <1>4, <1>5 DEF RunInv

\* A step of one command, by the new values of its fields.
Becomes(r, s, q, e, t, n, w, d) ==
    /\ step' = [step EXCEPT ![r] = s] /\ request' = [request EXCEPT ![r] = q]
    /\ seen' = [seen EXCEPT ![r] = e] /\ temp' = [temp EXCEPT ![r] = t]
    /\ ran' = [ran EXCEPT ![r] = n] /\ result' = [result EXCEPT ![r] = w]
    /\ diagnosed' = [diagnosed EXCEPT ![r] = d]
    /\ outbox \subseteq outbox' /\ UNCHANGED <<world, disturbed>>

\* It leaves the other commands alone.
LEMMA BecomesFrame ==
    ASSUME IInv, NEW r \in Runs, NEW s \in Steps, NEW q \in Requests \cup {None},
           NEW e \in Evidence, NEW t \in Content, NEW n \in Ran \cup {None}, NEW w \in Outcomes,
           NEW d \in SUBSET {"log", "outbox"}, Becomes(r, s, q, e, t, n, w, d)
    PROVE  /\ TypeOK'
           /\ step'[r] = s /\ request'[r] = q /\ seen'[r] = e /\ temp'[r] = t /\ ran'[r] = n
           /\ result'[r] = w /\ diagnosed'[r] = d
           /\ outbox \subseteq outbox' /\ playbook' = playbook /\ head' = head
           /\ disturbed'[r] = disturbed[r]
           /\ \A c \in Runs \ {r} : RunInv(c)'
<1>1. TypeOK'
  BY DEF IInv, TypeOK, Becomes, world, Content, Evidence, Ran
<1>2. /\ step'[r] = s /\ request'[r] = q /\ seen'[r] = e /\ temp'[r] = t /\ ran'[r] = n
      /\ result'[r] = w /\ diagnosed'[r] = d
      /\ outbox \subseteq outbox' /\ playbook' = playbook /\ head' = head
      /\ disturbed'[r] = disturbed[r]
  BY DEF IInv, TypeOK, Becomes, world
<1>3. ASSUME NEW c \in Runs \ {r} PROVE RunInv(c)'
  <2>1. /\ step'[c] = step[c] /\ request'[c] = request[c] /\ seen'[c] = seen[c]
        /\ temp'[c] = temp[c] /\ ran'[c] = ran[c] /\ result'[c] = result[c]
        /\ diagnosed'[c] = diagnosed[c]
    BY <1>3 DEF IInv, TypeOK, Becomes
  <2>2. RunInv(c) /\ UNCHANGED <<world, disturbed>> /\ outbox \subseteq outbox'
    BY <1>3 DEF IInv, Becomes
  <2>3. QED BY <2>1, <2>2, OthersStep
<1>4. QED BY <1>1, <1>2, <1>3

\* Any command may stop; what it has seen and run stays as it was.
\* (the exceptions of the services, KeyboardInterrupt)
LEMMA StopStep ==
    ASSUME IInv, NEW r \in Runs, ~Ended(r), NEW why \in Outcomes \ {"classified"}, Stop(r, why),
           UNCHANGED <<request, seen, temp, ran, diagnosed, outbox>>, KeepWorld
    PROVE  IInv'
<1>0. PICK q \in Requests \cup {None}, e \in Evidence, t \in Content, n \in Ran \cup {None},
           d \in SUBSET {"log", "outbox"} :
        q = request[r] /\ e = seen[r] /\ t = temp[r] /\ n = ran[r] /\ d = diagnosed[r]
  BY DEF IInv, TypeOK
<1>1. Becomes(r, "leave", q, e, t, n, why, d)
  BY <1>0 DEF Stop, Goto, KeepWorld, Becomes, IInv, TypeOK
<1>2. "leave" \in Steps
  BY DEF Steps
<1>3. /\ TypeOK'
      /\ step'[r] = "leave" /\ request'[r] = request[r] /\ seen'[r] = seen[r] /\ temp'[r] = temp[r]
      /\ ran'[r] = ran[r] /\ result'[r] = why /\ diagnosed'[r] = diagnosed[r]
      /\ disturbed'[r] = disturbed[r]
      /\ \A c \in Runs \ {r} : RunInv(c)'
  BY <1>0, <1>1, <1>2, BecomesFrame
<1>4. RunInv(r)
  BY DEF IInv
<1>5. OnPath(r)' /\ PrivateInventory(r)' /\ StillTrue(r)' /\ Published(r)'
  BY <1>3, <1>4 DEF RunInv, OnPath, PrivateInventory, StillTrue, Published, Ended, Is, Op, FromStatus
<1>6. RanWith(r)'
  BY <1>3, <1>4 DEF RunInv, RanWith, Ended, Is, Op, Applies
<1>7. QED BY <1>3, <1>5, <1>6 DEF IInv, RunInv

\* The fields of a command, as values of their types.
LEMMA Fields ==
    ASSUME IInv, NEW r \in Runs
    PROVE  \E q \in Requests \cup {None}, e \in Evidence, t \in Content, n \in Ran \cup {None},
              w \in Outcomes, d \in SUBSET {"log", "outbox"} :
               /\ q = request[r] /\ e = seen[r] /\ t = temp[r] /\ n = ran[r]
               /\ w = result[r] /\ d = diagnosed[r]
  BY DEF IInv, TypeOK

\* A command under way has a request; what it does next is on its path.
LEMMA UnderWay ==
    ASSUME IInv, NEW r \in Runs, ~Ended(r), ~Is(r, "leave")
    PROVE  /\ request[r] \in Requests
           /\ Op(r) \in {"run", "syntax", "inventory"}
           /\ step[r] \in PlacesOf(Op(r))
           /\ Op(r) = "run" => Following(r) = After(RunPath, step[r])
           /\ Op(r) = "syntax" => Following(r) = After(SyntaxPath, step[r])
           /\ Op(r) = "inventory" => Following(r) = After(InventoryPath, step[r])
<1>1. request[r] \in Requests /\ step[r] \in PlacesOf(Op(r))
  BY DEF IInv, RunInv, OnPath
<1>2. Op(r) \in {"run", "syntax", "inventory"}
  BY <1>1 DEF Requests, Op
<1>3. QED BY <1>1, <1>2 DEF Following, PathOf

\* What follows each step, whatever the operation.
LEMMA FollowingSteps ==
    ASSUME IInv, NEW r \in Runs, ~Ended(r), ~Is(r, "leave")
    PROVE  /\ Is(r, "configure") => Following(r) = "select"
           /\ Is(r, "select") => Following(r) = IF Op(r) = "run" THEN "digest" ELSE "spawn"
           /\ Is(r, "digest") => Following(r) = IF Op(r) = "run" THEN "inventory" ELSE "leave"
           /\ Is(r, "inventory") => Following(r) = IF Op(r) = "run" THEN "status" ELSE "materialise"
           /\ Is(r, "status") => Following(r) = "resolve"
           /\ Is(r, "resolve") => Following(r) = "head"
           /\ Is(r, "head") => Following(r) = "policy"
           /\ Is(r, "policy") => Following(r) = "environment"
           /\ Is(r, "environment") => Following(r) = "materialise"
           /\ Is(r, "materialise") => Following(r) = "spawn"
           /\ Is(r, "spawn") => Following(r) = "running"
           /\ Is(r, "running") => Following(r) = "persist"
           /\ Is(r, "persist") => Following(r) = "log"
           /\ Is(r, "outbox") => Following(r) = IF Op(r) = "syntax" THEN "digest" ELSE "leave"
<1>1. CASE Op(r) = "run"
  BY <1>1, UnderWay, RunPathFollows DEF Is
<1>2. CASE Op(r) = "syntax"
  BY <1>2, UnderWay, SyntaxPathFollows DEF Is, PlacesOf, Preparing, Reporting
<1>3. CASE Op(r) = "inventory"
  BY <1>3, UnderWay, InventoryPathFollows DEF Is, PlacesOf, Preparing, Reporting
<1>4. QED BY <1>1, <1>2, <1>3, UnderWay

\* A refusal, an error or an interrupt.
LEMMA RefuseStep ==
    ASSUME IInv, NEW r \in Runs, ~Ended(r), NEW why \in Outcomes \ {"classified"}, Refuse(r, why)
    PROVE  IInv'
  BY StopStep DEF Refuse

\* Steps that only look, at the configuration, the file, the policies or the
\* directories.  (RunService._prepare)
LEMMA AdvanceStep ==
    ASSUME IInv, NEW r \in Runs, step[r] \in {"configure", "select", "policy", "environment"},
           Is(r, "policy") => Allowed(r), Advance(r, Following(r))
    PROVE  IInv'
<1>1. PICK q \in Requests \cup {None}, e \in Evidence, t \in Content, n \in Ran \cup {None},
           w \in Outcomes, d \in SUBSET {"log", "outbox"} :
               /\ q = request[r] /\ e = seen[r] /\ t = temp[r] /\ n = ran[r]
               /\ w = result[r] /\ d = diagnosed[r]
  BY Fields
<1>2. ~Ended(r) /\ ~Is(r, "leave")
  BY DEF Ended, Is
<1>3. PICK s \in {"select", "digest", "spawn", "environment", "materialise"} : s = Following(r)
  BY <1>2, FollowingSteps DEF Is
<1>4. Becomes(r, s, q, e, t, n, w, d)
  BY <1>1, <1>3 DEF Advance, Goto, KeepWorld, Becomes, IInv, TypeOK
<1>5. s \in Steps
  BY DEF Steps, Preparing
<1>6. /\ TypeOK'
      /\ step'[r] = s /\ request'[r] = q /\ seen'[r] = e /\ temp'[r] = t /\ ran'[r] = n
      /\ result'[r] = w /\ diagnosed'[r] = d
      /\ outbox \subseteq outbox' /\ playbook' = playbook /\ head' = head
      /\ disturbed'[r] = disturbed[r]
      /\ \A c \in Runs \ {r} : RunInv(c)'
  BY <1>4, <1>5, BecomesFrame
<1>7. /\ RunInv(r) /\ request[r] \in Requests /\ Op(r) \in {"run", "syntax", "inventory"}
      /\ step[r] \in PlacesOf(Op(r))
  BY <1>2, UnderWay DEF IInv
<1>8. /\ Is(r, "configure") => s = "select"
      /\ Is(r, "select") => s = IF Op(r) = "run" THEN "digest" ELSE "spawn"
      /\ Is(r, "policy") => s = "environment"
      /\ Is(r, "environment") => s = "materialise"
  BY <1>2, <1>3, FollowingSteps
<1>9. OnPath(r)'
  BY <1>1, <1>6, <1>7, <1>8
  DEF RunInv, OnPath, Ended, Is, Op, PlacesOf, Preparing, Reporting
<1>10. PrivateInventory(r)'
  BY <1>1, <1>6, <1>7, <1>8
  DEF RunInv, OnPath, PrivateInventory, Is, Op, PlacesOf, Preparing, Reporting
<1>11. StillTrue(r)'
  BY <1>1, <1>6, <1>7, <1>8
  DEF RunInv, StillTrue, FromStatus, Ended, Is, Op, Dirty, Allowed, Findings, Applies
<1>12. RanWith(r)'
  BY <1>1, <1>6, <1>7 DEF RunInv, RanWith, Ended, Is, Op, Applies
<1>13. Published(r)'
  BY <1>1, <1>6, <1>7 DEF RunInv, Published, Reporting
<1>14. QED BY <1>6, <1>9, <1>10, <1>11, <1>12, <1>13 DEF IInv, RunInv

\* What a step that gathers evidence has seen.
Sees(r, f, v) ==
    \/ Is(r, "digest") /\ f = "digest" /\ v = playbook
    \/ Is(r, "inventory") /\ f = "inventory" /\ v = inventory
    \/ Is(r, "status") /\ f = "dirty" /\ v = Dirty
    \/ Is(r, "resolve") /\ f = "resolved" /\ v = ref
    \/ Is(r, "head") /\ f = "head" /\ v = head /\ head = seen[r].resolved

\* Steps that gather evidence: what they see is what there is, and what was
\* seen before still is, unless others disturbed the command.
LEMMA GatherStep ==
    ASSUME IInv, NEW r \in Runs,
           NEW f \in {"digest", "inventory", "dirty", "resolved", "head"},
           NEW v \in Content \cup BOOLEAN, Sees(r, f, v), Gather(r, f, v, Following(r))
    PROVE  IInv'
<1>1. PICK q \in Requests \cup {None}, e \in Evidence, t \in Content, n \in Ran \cup {None},
           w \in Outcomes, d \in SUBSET {"log", "outbox"} :
               /\ q = request[r] /\ e = seen[r] /\ t = temp[r] /\ n = ran[r]
               /\ w = result[r] /\ d = diagnosed[r]
  BY Fields
<1>2. ~Ended(r) /\ ~Is(r, "leave")
  BY DEF Ended, Is, Sees
<1>3. PICK s \in {"inventory", "leave", "status", "materialise", "resolve", "head", "policy"} :
        s = Following(r)
  BY <1>2, FollowingSteps DEF Is, Sees
<1>4. PICK e2 : e2 = [e EXCEPT ![f] = v]
  OBVIOUS
<1>5. Becomes(r, s, q, e2, t, n, w, d)
  BY <1>1, <1>3, <1>4 DEF Gather, See, Goto, KeepWorld, Becomes, IInv, TypeOK
<1>6. s \in Steps
  BY DEF Steps, Preparing, SyncPlaces
<1>7. /\ f = "dirty" => v \in BOOLEAN
      /\ f # "dirty" => v \in Content
  BY DEF Sees, IInv, TypeOK, Dirty, Content, Is
<1>8. e2 \in Evidence
  BY <1>4, <1>7 DEF Evidence
<1>9. /\ TypeOK'
      /\ step'[r] = s /\ request'[r] = q /\ seen'[r] = e2 /\ temp'[r] = t /\ ran'[r] = n
      /\ result'[r] = w /\ diagnosed'[r] = d
      /\ outbox \subseteq outbox' /\ playbook' = playbook /\ head' = head
      /\ disturbed'[r] = disturbed[r]
      /\ \A c \in Runs \ {r} : RunInv(c)'
  BY <1>5, <1>6, <1>8, BecomesFrame
<1>10. /\ e2.digest = IF f = "digest" THEN v ELSE e.digest
       /\ e2.inventory = IF f = "inventory" THEN v ELSE e.inventory
       /\ e2.dirty = IF f = "dirty" THEN v ELSE e.dirty
       /\ e2.resolved = IF f = "resolved" THEN v ELSE e.resolved
  BY <1>4 DEF Evidence
<1>11. /\ RunInv(r) /\ request[r] \in Requests /\ Op(r) \in {"run", "syntax", "inventory"}
       /\ step[r] \in PlacesOf(Op(r))
  BY <1>2, UnderWay DEF IInv
<1>12. /\ Is(r, "digest") => s = IF Op(r) = "run" THEN "inventory" ELSE "leave"
       /\ Is(r, "inventory") => s = IF Op(r) = "run" THEN "status" ELSE "materialise"
       /\ Is(r, "status") => s = "resolve"
       /\ Is(r, "resolve") => s = "head"
       /\ Is(r, "head") => s = "policy"
  BY <1>2, <1>3, FollowingSteps
<1>13. OnPath(r)'
  BY <1>1, <1>9, <1>11, <1>12
  DEF RunInv, OnPath, Ended, Is, Op, PlacesOf, Preparing, Reporting, Sees
<1>14. PrivateInventory(r)'
  BY <1>1, <1>9, <1>10, <1>11, <1>12
  DEF RunInv, OnPath, PrivateInventory, Is, Op, PlacesOf, Preparing, Reporting, Sees
<1>15. StillTrue(r)'
  BY <1>1, <1>9, <1>10, <1>11, <1>12
  DEF RunInv, StillTrue, FromStatus, Ended, Is, Op, Dirty, Sees
<1>16. RanWith(r)'
  BY <1>1, <1>9, <1>10, <1>11, <1>12
  DEF RunInv, OnPath, RanWith, Ended, Is, Op, Applies, Sees, PlacesOf, Preparing, Reporting
<1>17. Published(r)'
  BY <1>1, <1>9, <1>11 DEF RunInv, Published, Reporting, Sees, Is
<1>18. QED BY <1>9, <1>13, <1>14, <1>15, <1>16, <1>17 DEF IInv, RunInv

\* Leaving the contexts of a command removes its inventory.
LEMMA LeaveStep ==
    ASSUME IInv, NEW r \in Runs, Leave(r)
    PROVE  IInv'
<1>1. PICK q \in Requests \cup {None}, e \in Evidence, t \in Content, n \in Ran \cup {None},
           w \in Outcomes, d \in SUBSET {"log", "outbox"} :
               /\ q = request[r] /\ e = seen[r] /\ t = temp[r] /\ n = ran[r]
               /\ w = result[r] /\ d = diagnosed[r]
  BY Fields
<1>2. PICK e2 \in Evidence : e2 = IF n # None THEN e ELSE Nothing
  BY DEF Evidence, Nothing, Content
<1>3. Becomes(r, "done", q, e2, None, n, w, d)
  BY <1>1, <1>2 DEF Leave, Forget, Goto, KeepWorld, Becomes, IInv, TypeOK
<1>4. "done" \in Steps /\ None \in Content
  BY DEF Steps, Content
<1>5. /\ TypeOK'
      /\ step'[r] = "done" /\ request'[r] = q /\ seen'[r] = e2 /\ temp'[r] = None /\ ran'[r] = n
      /\ result'[r] = w /\ diagnosed'[r] = d
      /\ outbox \subseteq outbox' /\ playbook' = playbook /\ head' = head
      /\ disturbed'[r] = disturbed[r]
      /\ \A c \in Runs \ {r} : RunInv(c)'
  BY <1>3, <1>4, BecomesFrame
<1>6. RunInv(r) /\ Is(r, "leave")
  BY DEF IInv, Leave
<1>7. OnPath(r)' /\ PrivateInventory(r)'
  BY <1>1, <1>2, <1>5, <1>6 DEF RunInv, OnPath, PrivateInventory, Ended, Is, Op
<1>8. StillTrue(r)' /\ Published(r)'
  BY <1>1, <1>5, <1>6 DEF RunInv, StillTrue, Published, Ended, Is, Reporting
<1>9. RanWith(r)'
  BY <1>1, <1>2, <1>5, <1>6 DEF RunInv, RanWith, Ended, Is, Op, Applies, Nothing
<1>10. QED BY <1>5, <1>7, <1>8, <1>9 DEF IInv, RunInv

\* A killed command does nothing more; its inventory file stays.
LEMMA KillStep ==
    ASSUME IInv, NEW r \in Runs, Kill(r)
    PROVE  IInv'
<1>1. PICK q \in Requests \cup {None}, e \in Evidence, t \in Content, n \in Ran \cup {None},
           w \in Outcomes, d \in SUBSET {"log", "outbox"} :
               /\ q = request[r] /\ e = seen[r] /\ t = temp[r] /\ n = ran[r]
               /\ w = result[r] /\ d = diagnosed[r]
  BY Fields
<1>2. PICK e2 \in Evidence : e2 = IF n # None THEN e ELSE Nothing
  BY DEF Evidence, Nothing, Content
<1>3. Becomes(r, "killed", q, e2, t, n, w, d)
  BY <1>1, <1>2 DEF Kill, Forget, Goto, KeepWorld, Becomes, IInv, TypeOK
<1>4. "killed" \in Steps
  BY DEF Steps
<1>5. /\ TypeOK'
      /\ step'[r] = "killed" /\ request'[r] = q /\ seen'[r] = e2 /\ temp'[r] = t /\ ran'[r] = n
      /\ result'[r] = w /\ diagnosed'[r] = d
      /\ outbox \subseteq outbox' /\ playbook' = playbook /\ head' = head
      /\ disturbed'[r] = disturbed[r]
      /\ \A c \in Runs \ {r} : RunInv(c)'
  BY <1>3, <1>4, BecomesFrame
<1>6. RunInv(r) /\ ~Ended(r)
  BY DEF IInv, Kill
<1>7. OnPath(r)' /\ PrivateInventory(r)'
  BY <1>1, <1>2, <1>5, <1>6 DEF RunInv, OnPath, PrivateInventory, Ended, Is, Op
<1>8. StillTrue(r)' /\ Published(r)'
  BY <1>1, <1>5, <1>6 DEF RunInv, StillTrue, Published, Ended, Is, Reporting
<1>9. RanWith(r)'
  BY <1>1, <1>2, <1>5, <1>6 DEF RunInv, RanWith, Ended, Is, Op, Applies, Nothing
<1>10. QED BY <1>5, <1>7, <1>8, <1>9 DEF IInv, RunInv

\* A command begins with one of the requests it may be given.
LEMMA StartStep ==
    ASSUME IInv, NEW r \in Runs, NEW a \in Asked[r], Start(r, a)
    PROVE  IInv'
<1>1. PICK q \in Requests \cup {None}, e \in Evidence, t \in Content, n \in Ran \cup {None},
           w \in Outcomes, d \in SUBSET {"log", "outbox"} :
               /\ q = request[r] /\ e = seen[r] /\ t = temp[r] /\ n = ran[r]
               /\ w = result[r] /\ d = diagnosed[r]
  BY Fields
<1>2. a \in Requests
  BY RunAssumption
<1>3. a.operation \in {"run", "syntax", "inventory"}
  BY <1>2 DEF Requests
<1>4. PICK s \in {"configure", "select", "inventory", "leave"}, w2 \in Outcomes :
        /\ s = IF Confirmed(a) THEN PathOf[a.operation][1] ELSE "leave"
        /\ w2 = IF Confirmed(a) THEN w ELSE "refused"
  BY <1>3 DEF PathOf, RunPath, SyntaxPath, InventoryPath, Outcomes
<1>5. Becomes(r, s, a, e, t, n, w2, d)
  BY <1>1, <1>4 DEF Start, Stop, Goto, KeepWorld, Becomes, IInv, TypeOK
<1>6. s \in Steps
  BY DEF Steps, Preparing
<1>7. /\ TypeOK'
      /\ step'[r] = s /\ request'[r] = a /\ seen'[r] = e /\ temp'[r] = t /\ ran'[r] = n
      /\ result'[r] = w2 /\ diagnosed'[r] = d
      /\ outbox \subseteq outbox' /\ playbook' = playbook /\ head' = head
      /\ disturbed'[r] = disturbed[r]
      /\ \A c \in Runs \ {r} : RunInv(c)'
  BY <1>2, <1>5, <1>6, BecomesFrame
<1>8. RunInv(r) /\ Is(r, "idle")
  BY DEF IInv, Start
<1>9. n = None /\ e = Nothing /\ t = None
  BY <1>1, <1>8 DEF RunInv, OnPath, PrivateInventory, Is
<1>10. s # "leave" => s = CASE a.operation = "run" -> "configure"
                            [] a.operation = "syntax" -> "select"
                            [] OTHER -> "inventory"
  BY <1>3, <1>4 DEF PathOf, RunPath, SyntaxPath, InventoryPath
<1>11. OnPath(r)'
  BY <1>2, <1>3, <1>7, <1>9, <1>10 DEF OnPath, Ended, Is, Op, PlacesOf, Preparing
<1>12. PrivateInventory(r)'
  BY <1>7, <1>9, <1>10 DEF PrivateInventory, Is
<1>13. StillTrue(r)'
  BY <1>3, <1>7, <1>10 DEF StillTrue, FromStatus, Op
<1>14. RanWith(r)'
  BY <1>7, <1>9 DEF RanWith, Nothing
<1>15. Published(r)'
  BY <1>1, <1>4, <1>7, <1>8 DEF RunInv, Published, Reporting, Is
<1>16. QED BY <1>7, <1>11, <1>12, <1>13, <1>14, <1>15 DEF IInv, RunInv

\* Writing the private inventory: of what was digested.
LEMMA MaterialiseStep ==
    ASSUME IInv, NEW r \in Runs, Materialise(r)
    PROVE  IInv'
<1>1. ~Ended(r) /\ Is(r, "materialise")
  BY DEF Ended, Is, Materialise
<1>2. CASE Trouble /\ Stop(r, "error") /\ UNCHANGED temp
  BY <1>1, <1>2, StopStep DEF Materialise, Outcomes
<1>3. CASE /\ temp' = [temp EXCEPT ![r] = Materialised(r)]
           /\ Goto(r, Following(r)) /\ UNCHANGED <<result, trouble>>
  <2>1. PICK q \in Requests \cup {None}, e \in Evidence, t \in Content, n \in Ran \cup {None},
             w \in Outcomes, d \in SUBSET {"log", "outbox"} :
                 /\ q = request[r] /\ e = seen[r] /\ t = temp[r] /\ n = ran[r]
                 /\ w = result[r] /\ d = diagnosed[r]
    BY Fields
  <2>2. PICK t2 \in Content : t2 = e.inventory
    BY DEF Evidence
  <2>3. Following(r) = "spawn"
    BY <1>1, FollowingSteps DEF Is
  <2>4. Becomes(r, "spawn", q, e, t2, n, w, d)
    BY <1>3, <2>1, <2>2, <2>3
    DEF Materialise, Materialised, Goto, KeepWorld, Becomes, IInv, TypeOK
  <2>5. "spawn" \in Steps
    BY DEF Steps, Preparing
  <2>6. /\ TypeOK'
        /\ step'[r] = "spawn" /\ request'[r] = q /\ seen'[r] = e /\ temp'[r] = t2 /\ ran'[r] = n
        /\ result'[r] = w /\ diagnosed'[r] = d
        /\ outbox \subseteq outbox' /\ playbook' = playbook /\ head' = head
        /\ disturbed'[r] = disturbed[r]
        /\ \A c \in Runs \ {r} : RunInv(c)'
    BY <2>4, <2>5, BecomesFrame
  <2>7. /\ RunInv(r) /\ request[r] \in Requests /\ Op(r) \in {"run", "inventory"}
        /\ Is(r, "materialise")
    BY <1>1, UnderWay DEF IInv, Is, PlacesOf, Reporting
  <2>8. OnPath(r)' /\ PrivateInventory(r)'
    BY <2>1, <2>2, <2>6, <2>7
    DEF RunInv, OnPath, PrivateInventory, Ended, Is, Op, PlacesOf, Preparing, Reporting
  <2>9. StillTrue(r)'
    BY <2>1, <2>6, <2>7
    DEF RunInv, StillTrue, FromStatus, Ended, Is, Op, Dirty, Allowed, Findings, Applies
  <2>10. RanWith(r)' /\ Published(r)'
    BY <2>1, <2>6, <2>7
    DEF RunInv, OnPath, RanWith, Published, Ended, Is, Op, Applies, Reporting
  <2>11. QED BY <2>6, <2>8, <2>9, <2>10 DEF IInv, RunInv
<1>4. QED BY <1>2, <1>3 DEF Materialise

\* Ansible starts with the inventory that was digested and with the playbook of
\* this moment, which is the digested one unless others disturbed the command;
\* or it does not start, and that is the result.
LEMMA SpawnStep ==
    ASSUME IInv, NEW r \in Runs, Spawn(r)
    PROVE  IInv'
<1>1. PICK q \in Requests \cup {None}, e \in Evidence, t \in Content, n \in Ran \cup {None},
           w \in Outcomes, d \in SUBSET {"log", "outbox"} :
               /\ q = request[r] /\ e = seen[r] /\ t = temp[r] /\ n = ran[r]
               /\ w = result[r] /\ d = diagnosed[r]
  BY Fields
<1>2. ~Ended(r) /\ Is(r, "spawn")
  BY DEF Ended, Is, Spawn
<1>3. /\ RunInv(r) /\ request[r] \in Requests /\ Op(r) \in {"run", "syntax", "inventory"}
      /\ step[r] \in PlacesOf(Op(r))
      /\ Following(r) = "running"
  BY <1>2, UnderWay, FollowingSteps DEF IInv, Is
<1>4. n = None
  BY <1>1, <1>2, <1>3 DEF RunInv, OnPath, Reporting, Is
<1>5. CASE /\ ran' = [ran EXCEPT ![r] = [playbook |-> playbook, inventory |-> temp[r]]]
           /\ Goto(r, Following(r)) /\ UNCHANGED <<result, trouble>>
  <2>1. PICK n2 \in Ran : n2 = [playbook |-> playbook, inventory |-> t]
    BY DEF Ran, IInv, TypeOK
  <2>2. Becomes(r, "running", q, e, t, n2, w, d)
    BY <1>1, <1>3, <1>5, <2>1 DEF Spawn, Goto, KeepWorld, Becomes, IInv, TypeOK
  <2>3. "running" \in Steps
    BY DEF Steps
  <2>4. /\ TypeOK'
        /\ step'[r] = "running" /\ request'[r] = q /\ seen'[r] = e /\ temp'[r] = t /\ ran'[r] = n2
        /\ result'[r] = w /\ diagnosed'[r] = d
        /\ outbox \subseteq outbox' /\ playbook' = playbook /\ head' = head
        /\ disturbed'[r] = disturbed[r]
        /\ \A c \in Runs \ {r} : RunInv(c)'
    BY <2>2, <2>3, BecomesFrame
  <2>5. n2.playbook = playbook /\ n2.inventory = t
    BY <2>1
  <2>6. OnPath(r)' /\ PrivateInventory(r)'
    BY <1>1, <1>2, <1>3, <2>4, <2>5
    DEF RunInv, OnPath, PrivateInventory, Ended, Is, Op, PlacesOf, Preparing, Reporting
  <2>7. StillTrue(r)' /\ Published(r)'
    BY <1>1, <1>2, <1>3, <2>4 DEF RunInv, StillTrue, Published, FromStatus, Is, Op, Reporting
  <2>8. Op(r) = "run" /\ ~disturbed[r] => e.digest = playbook
    BY <1>1, <1>2, <1>3 DEF RunInv, StillTrue, FromStatus, Is
  <2>9. ~disturbed[r] /\ q.mode = "apply" /\ q.enforcement = "deny" =>
            q.limited /\ e.resolved = playbook
    <3>1. SUFFICES ASSUME ~disturbed[r], q.mode = "apply", q.enforcement = "deny"
                   PROVE  q.limited /\ e.resolved = playbook
      OBVIOUS
    <3>2. Op(r) = "run"
      BY <1>1, <1>3, <3>1 DEF Requests, Op
    <3>3. Allowed(r) /\ e.dirty = Dirty /\ e.resolved = head
      BY <1>1, <1>2, <1>3, <3>1, <3>2 DEF RunInv, StillTrue, FromStatus, Is
    <3>4. q.limited /\ e.dirty # TRUE
      BY <1>1, <3>1, <3>3 DEF Allowed, Findings, Applies
    <3>5. QED BY <3>3, <3>4 DEF Dirty
  <2>10. Op(r) = "syntax" \/ Op(r) = "inventory" => e.digest = None
    BY <1>1, <1>2, <1>3 DEF RunInv, RanWith, Is
  <2>11. RanWith(r)'
    BY <1>1, <1>3, <2>4, <2>5, <2>8, <2>9, <2>10 DEF RanWith, Op, Applies
  <2>12. QED BY <2>4, <2>6, <2>7, <2>11 DEF IInv, RunInv
<1>6. CASE /\ Trouble /\ UNCHANGED ran
           /\ result' = [result EXCEPT ![r] = "classified"] /\ Goto(r, "log")
  <2>1. Becomes(r, "log", q, e, t, n, "classified", d)
    BY <1>1, <1>6 DEF Spawn, Goto, KeepWorld, Becomes, IInv, TypeOK
  <2>2. "log" \in Steps /\ "classified" \in Outcomes
    BY DEF Steps, Reporting, Outcomes
  <2>3. /\ TypeOK'
        /\ step'[r] = "log" /\ request'[r] = q /\ seen'[r] = e /\ temp'[r] = t /\ ran'[r] = n
        /\ result'[r] = "classified" /\ diagnosed'[r] = d
        /\ outbox \subseteq outbox' /\ playbook' = playbook /\ head' = head
        /\ disturbed'[r] = disturbed[r]
        /\ \A c \in Runs \ {r} : RunInv(c)'
    BY <2>1, <2>2, BecomesFrame
  <2>4. OnPath(r)' /\ PrivateInventory(r)' /\ Published(r)'
    BY <1>1, <1>2, <1>3, <1>4, <2>3
    DEF RunInv, OnPath, PrivateInventory, Published, Ended, Is, Op, PlacesOf, Reporting
  <2>5. StillTrue(r)'
    BY <2>3 DEF StillTrue, FromStatus
  <2>6. RanWith(r)'
    BY <1>1, <1>2, <1>3, <1>4, <2>3 DEF RunInv, RanWith, Ended, Is, Op
  <2>7. QED BY <2>3, <2>4, <2>5, <2>6 DEF IInv, RunInv
<1>7. QED BY <1>5, <1>6 DEF Spawn

\* Ansible ends, with a result that is classified or with output that is not text.
LEMMA FinishStep ==
    ASSUME IInv, NEW r \in Runs, Finish(r)
    PROVE  IInv'
<1>1. PICK q \in Requests \cup {None}, e \in Evidence, t \in Content, n \in Ran \cup {None},
           w \in Outcomes, d \in SUBSET {"log", "outbox"} :
               /\ q = request[r] /\ e = seen[r] /\ t = temp[r] /\ n = ran[r]
               /\ w = result[r] /\ d = diagnosed[r]
  BY Fields
<1>2. ~Ended(r) /\ Is(r, "running")
  BY DEF Ended, Is, Finish
<1>3. CASE Stop(r, "undecodable")
  BY <1>2, <1>3, StopStep DEF Finish, Outcomes
<1>4. CASE result' = [result EXCEPT ![r] = "classified"] /\ Goto(r, Following(r))
  <2>1. /\ RunInv(r) /\ request[r] \in Requests /\ Op(r) \in {"run", "syntax", "inventory"}
        /\ step[r] \in PlacesOf(Op(r))
        /\ Following(r) = "persist"
    BY <1>2, UnderWay, FollowingSteps DEF IInv, Is
  <2>2. Becomes(r, "persist", q, e, t, n, "classified", d)
    BY <1>1, <1>4, <2>1 DEF Finish, Goto, KeepWorld, Becomes, IInv, TypeOK
  <2>3. "persist" \in Steps /\ "classified" \in Outcomes
    BY DEF Steps, Reporting, Outcomes
  <2>4. /\ TypeOK'
        /\ step'[r] = "persist" /\ request'[r] = q /\ seen'[r] = e /\ temp'[r] = t /\ ran'[r] = n
        /\ result'[r] = "classified" /\ diagnosed'[r] = d
        /\ outbox \subseteq outbox' /\ playbook' = playbook /\ head' = head
        /\ disturbed'[r] = disturbed[r]
        /\ \A c \in Runs \ {r} : RunInv(c)'
    BY <2>2, <2>3, BecomesFrame
  <2>5. OnPath(r)' /\ PrivateInventory(r)' /\ Published(r)'
    BY <1>1, <1>2, <2>1, <2>4
    DEF RunInv, OnPath, PrivateInventory, Published, Ended, Is, Op, PlacesOf, Reporting
  <2>6. StillTrue(r)'
    BY <2>4 DEF StillTrue, FromStatus
  <2>7. RanWith(r)'
    BY <1>1, <1>2, <2>1, <2>4 DEF RunInv, RanWith, Ended, Is, Op, Applies
  <2>8. QED BY <2>4, <2>5, <2>6, <2>7 DEF IInv, RunInv
<1>5. QED BY <1>3, <1>4 DEF Finish

\* While it reports, a command only moves on: its output is stored and its event
\* is given to one subscriber after the other.
LEMMA ReportStep ==
    ASSUME IInv, NEW r \in Runs, step[r] \in Reporting,
           NEW s \in {"log", "logbare", "outbox"},
           NEW d2 \in SUBSET {"log", "outbox"}, diagnosed[r] \subseteq d2,
           diagnosed' = [diagnosed EXCEPT ![r] = d2], Goto(r, s),
           UNCHANGED <<request, seen, temp, ran, result, outbox>>, KeepWorld
    PROVE  IInv'
<1>1. PICK q \in Requests \cup {None}, e \in Evidence, t \in Content, n \in Ran \cup {None},
           w \in Outcomes, d \in SUBSET {"log", "outbox"} :
               /\ q = request[r] /\ e = seen[r] /\ t = temp[r] /\ n = ran[r]
               /\ w = result[r] /\ d = diagnosed[r]
  BY Fields
<1>2. ~Ended(r) /\ ~Is(r, "leave")
  BY DEF Ended, Is, Reporting
<1>3. /\ RunInv(r) /\ request[r] \in Requests /\ Op(r) \in {"run", "syntax", "inventory"}
      /\ step[r] \in PlacesOf(Op(r))
  BY <1>2, UnderWay DEF IInv
<1>4. Becomes(r, s, q, e, t, n, w, d2)
  BY <1>1 DEF Goto, KeepWorld, Becomes, IInv, TypeOK
<1>5. s \in Steps
  BY DEF Steps, Reporting
<1>6. /\ TypeOK'
      /\ step'[r] = s /\ request'[r] = q /\ seen'[r] = e /\ temp'[r] = t /\ ran'[r] = n
      /\ result'[r] = w /\ diagnosed'[r] = d2
      /\ outbox \subseteq outbox' /\ playbook' = playbook /\ head' = head
      /\ disturbed'[r] = disturbed[r]
      /\ \A c \in Runs \ {r} : RunInv(c)'
  BY <1>4, <1>5, BecomesFrame
<1>7. OnPath(r)' /\ PrivateInventory(r)' /\ Published(r)'
  BY <1>1, <1>3, <1>6
  DEF RunInv, OnPath, PrivateInventory, Published, Ended, Is, Op, PlacesOf, Reporting
<1>8. StillTrue(r)'
  BY <1>6 DEF StillTrue, FromStatus
<1>9. RanWith(r)'
  BY <1>1, <1>2, <1>3, <1>6 DEF RunInv, RanWith, Ended, Is, Op, Applies
<1>10. QED BY <1>6, <1>7, <1>8, <1>9 DEF IInv, RunInv

\* Storing the output.
LEMMA PersistStep ==
    ASSUME IInv, NEW r \in Runs, PersistOutputs(r)
    PROVE  IInv'
<1>1. ~Ended(r) /\ Is(r, "persist") /\ step[r] \in Reporting
  BY DEF Ended, Is, PersistOutputs, Reporting
<1>2. Following(r) = "log"
  BY <1>1, FollowingSteps DEF Is
<1>3. PICK d2 \in SUBSET {"log", "outbox"} : d2 = diagnosed[r]
  BY DEF IInv, TypeOK
<1>4. diagnosed' = [diagnosed EXCEPT ![r] = d2]
  BY <1>3 DEF PersistOutputs, IInv, TypeOK
<1>5. UNCHANGED <<request, seen, temp, ran, result, outbox>> /\ KeepWorld
  BY DEF PersistOutputs
<1>6. Goto(r, "log") \/ Goto(r, "logbare")
  BY <1>2 DEF PersistOutputs, Goto
<1>7. QED BY <1>1, <1>3, <1>4, <1>5, <1>6, ReportStep

\* The event log accepts the record, or its failure becomes a diagnostic.
LEMMA PublishToLogStep ==
    ASSUME IInv, NEW r \in Runs, PublishToLog(r)
    PROVE  IInv'
<1>1. step[r] \in Reporting /\ UNCHANGED <<request, seen, temp, ran, result, outbox>> /\ KeepWorld
      /\ Goto(r, "outbox")
  BY DEF PublishToLog, Reporting, NextSubscriber
<1>2. PICK d2 \in SUBSET {"log", "outbox"} :
        diagnosed[r] \subseteq d2 /\ diagnosed' = [diagnosed EXCEPT ![r] = d2]
  <2>1. CASE diagnosed' = diagnosed
    BY <2>1 DEF IInv, TypeOK
  <2>2. CASE Diagnose(r, "log")
    <3>1. diagnosed[r] \cup {"log"} \in SUBSET {"log", "outbox"}
      BY DEF IInv, TypeOK
    <3>2. diagnosed' = [diagnosed EXCEPT ![r] = diagnosed[r] \cup {"log"}]
      BY <2>2 DEF Diagnose
    <3>3. QED BY <3>1, <3>2
  <2>3. QED BY <2>1, <2>2 DEF PublishToLog
<1>3. QED BY <1>1, <1>2, ReportStep

\* The outbox accepts the event, or its failure becomes a diagnostic.
LEMMA PublishToOutboxStep ==
    ASSUME IInv, NEW r \in Runs, PublishToOutbox(r)
    PROVE  IInv'
<1>1. PICK q \in Requests \cup {None}, e \in Evidence, t \in Content, n \in Ran \cup {None},
           w \in Outcomes, d \in SUBSET {"log", "outbox"} :
               /\ q = request[r] /\ e = seen[r] /\ t = temp[r] /\ n = ran[r]
               /\ w = result[r] /\ d = diagnosed[r]
  BY Fields
<1>2. ~Ended(r) /\ Is(r, "outbox")
  BY DEF Ended, Is, PublishToOutbox
<1>3. /\ RunInv(r) /\ request[r] \in Requests /\ Op(r) \in {"run", "syntax", "inventory"}
      /\ step[r] \in PlacesOf(Op(r))
  BY <1>2, UnderWay DEF IInv, Is
<1>4. PICK s \in {"digest", "leave"} : s = Following(r) /\ s = IF Op(r) = "syntax" THEN "digest" ELSE "leave"
  BY <1>2, FollowingSteps DEF Is
<1>5. PICK d2 \in SUBSET {"log", "outbox"} :
        /\ d \subseteq d2 /\ diagnosed' = [diagnosed EXCEPT ![r] = d2]
        /\ r \in outbox' \/ "outbox" \in d2
  <2>1. CASE outbox' = outbox \cup {r} /\ UNCHANGED <<diagnosed, trouble>>
    BY <1>1, <2>1 DEF IInv, TypeOK
  <2>2. CASE Diagnose(r, "outbox")
    <3>1. d \cup {"outbox"} \in SUBSET {"log", "outbox"}
      OBVIOUS
    <3>2. diagnosed' = [diagnosed EXCEPT ![r] = d \cup {"outbox"}]
      BY <1>1, <2>2 DEF Diagnose
    <3>3. QED BY <3>1, <3>2
  <2>3. QED BY <2>1, <2>2 DEF PublishToOutbox
<1>6. Becomes(r, s, q, e, t, n, w, d2)
  BY <1>1, <1>4, <1>5 DEF PublishToOutbox, Goto, KeepWorld, Becomes, IInv, TypeOK
<1>7. s \in Steps
  BY DEF Steps, Preparing
<1>8. /\ TypeOK'
      /\ step'[r] = s /\ request'[r] = q /\ seen'[r] = e /\ temp'[r] = t /\ ran'[r] = n
      /\ result'[r] = w /\ diagnosed'[r] = d2
      /\ outbox \subseteq outbox' /\ playbook' = playbook /\ head' = head
      /\ disturbed'[r] = disturbed[r]
      /\ \A c \in Runs \ {r} : RunInv(c)'
  BY <1>6, <1>7, BecomesFrame
<1>9. OnPath(r)' /\ PrivateInventory(r)' /\ Published(r)'
  BY <1>1, <1>2, <1>3, <1>4, <1>5, <1>8
  DEF RunInv, OnPath, PrivateInventory, Published, Ended, Is, Op, PlacesOf, Reporting
<1>10. StillTrue(r)'
  BY <1>4, <1>8, <1>1 DEF StillTrue, FromStatus, Op
<1>11. RanWith(r)'
  BY <1>1, <1>2, <1>3, <1>8 DEF RunInv, RanWith, Ended, Is, Op, Applies
<1>12. QED BY <1>8, <1>9, <1>10, <1>11 DEF IInv, RunInv

\* A step of a sync, by the new values of its own fields, in a world that it
\* leaves alone or changes under everybody's eyes.
SyncBecomes(s, p, e, t, w) ==
    /\ step' = [step EXCEPT ![s] = p] /\ seen' = [seen EXCEPT ![s] = e]
    /\ temp' = [temp EXCEPT ![s] = t] /\ result' = [result EXCEPT ![s] = w]
    /\ UNCHANGED <<request, ran, diagnosed, outbox>>
    /\ \/ UNCHANGED world
       \/ /\ playbook' \in Content /\ head' \in Versions /\ ref' \in Versions
          /\ inventory' = inventory
    /\ UNCHANGED <<world, disturbed>> \/ Disturbs

\* A step of a sync that moves as SyncBecomes says keeps the invariant.  (sync)
LEMMA SyncFrame ==
    ASSUME IInv, NEW s \in Syncs, NEW p \in Steps, NEW e \in Evidence, NEW t \in Content,
           NEW w \in Outcomes, SyncBecomes(s, p, e, t, w)
    PROVE  IInv'
<1>1. disturbed' \in [Runs -> BOOLEAN]
  BY DEF SyncBecomes, Disturbs, IInv, TypeOK
<1>2. playbook' \in Content /\ inventory' \in Versions /\ head' \in Versions /\ ref' \in Versions
  BY DEF SyncBecomes, IInv, TypeOK, Content, world
<1>3. TypeOK'
  BY <1>1, <1>2 DEF SyncBecomes, IInv, TypeOK
<1>4. ASSUME NEW r \in Runs PROVE RunInv(r)'
  <2>1. r # s
    BY RunAssumption
  <2>2. /\ step'[r] = step[r] /\ request'[r] = request[r] /\ seen'[r] = seen[r]
        /\ temp'[r] = temp[r] /\ ran'[r] = ran[r] /\ result'[r] = result[r]
        /\ diagnosed'[r] = diagnosed[r] /\ outbox \subseteq outbox'
    BY <2>1 DEF SyncBecomes, IInv, TypeOK
  <2>3. RunInv(r) /\ TypeOK
    BY DEF IInv
  <2>4. CASE UNCHANGED <<world, disturbed>>
    BY <2>2, <2>3, <2>4, OthersStep
  <2>5. CASE Disturbs
    BY <2>2, <2>3, <2>5, DisturbedStep
  <2>6. QED BY <2>4, <2>5 DEF SyncBecomes
<1>5. QED BY <1>3, <1>4 DEF IInv

\* `repository sync` is one of the others for every command.
LEMMA SyncStepKeeps ==
    ASSUME IInv, NEW s \in Syncs, SyncStep(s)
    PROVE  IInv'
<1>1. PICK e \in Evidence, t \in Content, w \in Outcomes :
        e = seen[s] /\ t = temp[s] /\ w = result[s]
  BY DEF IInv, TypeOK
<1>2. /\ {"fetch", "checkout", "resolve", "head", "leave", "done"} \subseteq Steps
      /\ "refused" \in Outcomes /\ None \in Content
  BY DEF Steps, SyncPlaces, Outcomes, Content
<1>3. /\ temp = [temp EXCEPT ![s] = t] /\ result = [result EXCEPT ![s] = w]
     /\ seen = [seen EXCEPT ![s] = e]
  BY <1>1 DEF IInv, TypeOK
<1>4. CASE InspectForSync(s)
  <2>1. SyncBecomes(s, "leave", e, t, "refused") \/ SyncBecomes(s, "fetch", e, t, w)
    BY <1>1, <1>3, <1>4 DEF InspectForSync, SyncBecomes, Stop, Goto, KeepWorld, IInv, TypeOK
  <2>2. QED BY <1>2, <2>1, SyncFrame
<1>5. CASE Fetch(s)
  <2>1. SyncBecomes(s, "checkout", e, t, w)
    <3>1. playbook \in Content /\ head \in Versions /\ inventory \in Versions
      BY DEF IInv, TypeOK
    <3>2. QED BY <1>1, <1>3, <1>5, <3>1 DEF Fetch, Sync, SyncBecomes, Goto, IInv, TypeOK
  <2>2. QED BY <1>2, <2>1, SyncFrame
<1>6. CASE Checkout(s)
  <2>1. ref \in Content
    BY DEF IInv, TypeOK, Content
  <2>2. CASE ~Dirty /\ Sync(s, "checkout", "resolve")
             /\ head' = ref /\ playbook' = ref /\ UNCHANGED <<inventory, ref>> /\ Disturbs
    <3>1. ref \in Versions
      BY DEF IInv, TypeOK
    <3>2. SyncBecomes(s, "resolve", e, t, w)
      BY <1>1, <1>3, <2>1, <2>2, <3>1 DEF Sync, SyncBecomes, Goto
    <3>3. QED BY <1>2, <3>2, SyncFrame
  <2>3. CASE Advance(s, "resolve")
    <3>1. SyncBecomes(s, "resolve", e, t, w)
      BY <1>1, <1>3, <2>3 DEF Advance, SyncBecomes, Goto, KeepWorld, world
    <3>2. QED BY <1>2, <3>1, SyncFrame
  <2>4. CASE Refuse(s, "refused")
    <3>1. SyncBecomes(s, "leave", e, t, "refused")
      BY <1>1, <1>3, <2>4 DEF Refuse, Stop, SyncBecomes, Goto, KeepWorld, world
    <3>2. QED BY <1>2, <3>1, SyncFrame
  <2>5. QED BY <1>6, <2>2, <2>3, <2>4 DEF Checkout
<1>7. CASE InspectAgain(s)
  <2>1. CASE Gather(s, "resolved", ref, "head")
    <3>1. PICK e2 \in Evidence : e2 = [e EXCEPT !.resolved = ref]
      BY DEF Evidence, Content, IInv, TypeOK
    <3>2. SyncBecomes(s, "head", e2, t, w)
      BY <1>1, <1>3, <2>1, <3>1 DEF Gather, See, SyncBecomes, Goto, KeepWorld, world
    <3>3. QED BY <1>2, <3>2, SyncFrame
  <2>2. CASE Gather(s, "head", head, "leave")
    <3>1. PICK e2 \in Evidence : e2 = [e EXCEPT !.head = head]
      BY DEF Evidence, Content, IInv, TypeOK
    <3>2. SyncBecomes(s, "leave", e2, t, w)
      BY <1>1, <1>3, <2>2, <3>1 DEF Gather, See, SyncBecomes, Goto, KeepWorld, world
    <3>3. QED BY <1>2, <3>2, SyncFrame
  <2>3. CASE Refuse(s, "refused")
    <3>1. SyncBecomes(s, "leave", e, t, "refused")
      BY <1>1, <1>3, <2>3 DEF Refuse, Stop, SyncBecomes, Goto, KeepWorld, world
    <3>2. QED BY <1>2, <3>1, SyncFrame
  <2>4. QED BY <1>7, <2>1, <2>2, <2>3 DEF InspectAgain
<1>8. CASE Leave(s)
  <2>1. PICK e2 \in Evidence : e2 = Nothing
    BY DEF Evidence, Content, Nothing
  <2>2. s \notin Runs
    BY RunAssumption
  <2>3. SyncBecomes(s, "done", e2, None, w)
    BY <1>1, <1>3, <1>8, <2>1, <2>2 DEF Leave, Forget, SyncBecomes, Goto, KeepWorld, world
  <2>4. QED BY <1>2, <2>3, SyncFrame
<1>9. QED BY <1>4, <1>5, <1>6, <1>7, <1>8 DEF SyncStep

\* A change of the workspace by anybody else.
LEMMA OthersKeep ==
    ASSUME IInv, Others
    PROVE  IInv'
<1>1. playbook' \in Content /\ inventory' \in Versions /\ head' \in Versions /\ ref' \in Versions
  <2>1. CASE EditPlaybook
    BY <2>1 DEF EditPlaybook, IInv, TypeOK, Content
  <2>2. CASE EditInventory
    BY <2>2 DEF EditInventory, IInv, TypeOK, Content
  <2>3. CASE CommitEdit
    BY <2>3 DEF CommitEdit, IInv, TypeOK, Content
  <2>4. QED BY <2>1, <2>2, <2>3 DEF Others
<1>2. UNCHANGED <<step, request, seen, temp, ran, result, diagnosed, outbox>> /\ Disturbs
  BY DEF Others, command
<1>3. TypeOK'
  BY <1>1, <1>2 DEF IInv, TypeOK, Disturbs
<1>4. ASSUME NEW r \in Runs PROVE RunInv(r)'
  <2>1. RunInv(r) /\ TypeOK
    BY DEF IInv
  <2>2. QED BY <1>2, <2>1, DisturbedStep
<1>5. QED BY <1>3, <1>4 DEF IInv

\* What happens to the event log only: prunes and recoveries, or nothing.
LEMMA HistoryKeeps ==
    ASSUME IInv, UNCHANGED <<world, command, outbox, disturbed>>
    PROVE  IInv'
<1>1. UNCHANGED <<playbook, inventory, head, ref, step, request, seen, temp, ran, result,
                  diagnosed, outbox, disturbed>>
  BY DEF world, command
<1>2. TypeOK'
  BY <1>1 DEF IInv, TypeOK
<1>3. ASSUME NEW r \in Runs PROVE RunInv(r)'
  <2>1. RunInv(r)
    BY DEF IInv
  <2>2. QED BY <1>1, <2>1, OthersStep DEF world
<1>4. QED BY <1>2, <1>3 DEF IInv

\* Every step of a command.
LEMMA CommandStep ==
    ASSUME IInv, NEW r \in Runs,
           (\E a \in Asked[r] : Start(r, a)) \/ RunStep(r) \/ GitFails(r) \/ Interrupt(r) \/ Kill(r)
    PROVE  IInv'
<1>1. CASE \E a \in Asked[r] : Start(r, a)
  BY <1>1, StartStep
<1>2. CASE Configure(r) \/ Select(r) \/ Decide(r) \/ PrepareEnvironment(r)
  <2>1. step[r] \in {"configure", "select", "policy", "environment"} /\ ~Ended(r)
    BY <1>2 DEF Configure, Select, Decide, PrepareEnvironment, Is, Ended
  <2>2. {"refused", "denied", "prepared"} \subseteq Outcomes \ {"classified"}
    BY DEF Outcomes
  <2>3. CASE Advance(r, Following(r)) /\ (Is(r, "policy") => Allowed(r))
    BY <2>1, <2>3, AdvanceStep
  <2>4. CASE Refuse(r, "refused") \/ Refuse(r, "denied") \/ Refuse(r, "prepared")
    BY <2>1, <2>2, <2>4, RefuseStep
  <2>5. CASE PrepareEnvironment(r) /\ Stop(r, "refused")
    BY <2>1, <2>2, <2>5, StopStep DEF PrepareEnvironment, Advance, KeepWorld
  <2>6. QED BY <1>2, <2>3, <2>4, <2>5 DEF Configure, Select, Decide, PrepareEnvironment, Is
<1>3. CASE Digest(r) \/ ResolveInventory(r) \/ Status(r) \/ Resolve(r) \/ HeadRevision(r)
  <2>1. ~Ended(r) /\ "refused" \in Outcomes \ {"classified"}
    BY <1>3 DEF Digest, ResolveInventory, Status, Resolve, HeadRevision, Is, Ended, Outcomes
  <2>2. CASE Refuse(r, "refused")
    BY <2>1, <2>2, RefuseStep
  <2>3. CASE Is(r, "digest") /\ Gather(r, "digest", playbook, Following(r))
    <3>1. PICK v \in Content : v = playbook
      BY DEF IInv, TypeOK
    <3>2. Sees(r, "digest", v) /\ Gather(r, "digest", v, Following(r))
      BY <2>3, <3>1 DEF Sees, Gather, See
    <3>3. QED BY <3>2, GatherStep
  <2>4. CASE Is(r, "inventory") /\ Gather(r, "inventory", inventory, Following(r))
    <3>1. PICK v \in Content : v = inventory
      BY DEF IInv, TypeOK, Content
    <3>2. Sees(r, "inventory", v) /\ Gather(r, "inventory", v, Following(r))
      BY <2>4, <3>1 DEF Sees, Gather, See
    <3>3. QED BY <3>2, GatherStep
  <2>5. CASE Status(r)
    <3>1. PICK v \in BOOLEAN : v = Dirty
      BY DEF Dirty
    <3>2. Sees(r, "dirty", v) /\ Gather(r, "dirty", v, Following(r))
      BY <2>5, <3>1 DEF Sees, Gather, See, Status
    <3>3. QED BY <3>2, GatherStep
  <2>6. CASE Resolve(r)
    <3>1. PICK v \in Content : v = ref
      BY DEF IInv, TypeOK, Content
    <3>2. Sees(r, "resolved", v) /\ Gather(r, "resolved", v, Following(r))
      BY <2>6, <3>1 DEF Sees, Gather, See, Resolve
    <3>3. QED BY <3>2, GatherStep
  <2>7. CASE Is(r, "head") /\ head = seen[r].resolved /\ Gather(r, "head", head, Following(r))
    <3>1. PICK v \in Content : v = head
      BY DEF IInv, TypeOK, Content
    <3>2. Sees(r, "head", v) /\ Gather(r, "head", v, Following(r))
      BY <2>7, <3>1 DEF Sees, Gather, See
    <3>3. QED BY <3>2, GatherStep
  <2>8. QED BY <1>3, <2>2, <2>3, <2>4, <2>5, <2>6, <2>7
            DEF Digest, ResolveInventory, HeadRevision
<1>4. CASE \/ Materialise(r) \/ Spawn(r) \/ Finish(r) \/ PersistOutputs(r)
           \/ PublishToLog(r) \/ PublishToOutbox(r) \/ Leave(r) \/ Kill(r)
  BY <1>4, MaterialiseStep, SpawnStep, FinishStep, PersistStep, PublishToLogStep,
     PublishToOutboxStep, LeaveStep, KillStep
<1>5. CASE GitFails(r)
  BY <1>5, StopStep DEF GitFails, Ended, Outcomes
<1>6. CASE Interrupt(r)
  BY <1>6, RefuseStep DEF Interrupt, Outcomes
<1>7. QED BY <1>1, <1>2, <1>3, <1>4, <1>5, <1>6 DEF RunStep

-----------------------------------------------------------------------------
(* The theorems. *)

\* At the beginning nobody has done anything.
LEMMA Starts == Init => IInv
<1>1. SUFFICES ASSUME Init PROVE IInv
  OBVIOUS
<1>2. TypeOK
  BY <1>1, RunAssumption
  DEF Init, TypeOK, Content, Versions, Nothing, Evidence, Steps, Outcomes
<1>3. ASSUME NEW r \in Runs PROVE RunInv(r)
  <2>1. /\ step[r] \in {"idle", "done"} /\ request[r] = None /\ seen[r] = Nothing
        /\ temp[r] = None /\ ran[r] = None /\ result[r] = "none"
    BY <1>1 DEF Init
  <2>2. QED BY <2>1
            DEF Nothing, RunInv, OnPath, PrivateInventory, StillTrue, RanWith, Published, Ended, Is
<1>4. QED BY <1>2, <1>3 DEF IInv

\* Every step keeps the invariant, whoever takes it.
LEMMA Keeps_IInv == IInv /\ [Next]_vars => IInv'
<1>1. SUFFICES ASSUME IInv, [Next]_vars PROVE IInv'
  OBVIOUS
<1>2. CASE CommandNext
  BY <1>1, <1>2, CommandStep, SyncStepKeeps DEF CommandNext
<1>3. CASE Others
  BY <1>1, <1>3, OthersKeep
<1>4. CASE UNCHANGED <<world, command, outbox, disturbed>>
  BY <1>1, <1>4, HistoryKeeps
<1>5. CASE UNCHANGED vars
  BY <1>1, <1>5, HistoryKeeps DEF vars, world, command
<1>6. QED BY <1>1, <1>2, <1>3, <1>4, <1>5 DEF Next

\* What a command has gathered, materialised, run and published, at every step
\* of every command, whatever syncs, prunes and others do meanwhile.
THEOREM RunInvariant == Spec => []IInv
<1>1. QED BY Starts, Keeps_IInv, PTL DEF Spec

\* The evidence a command reports is about what Ansible ran with: the inventory
\* always, for it is a private copy; the playbook and the commit as long as
\* nobody changed the workspace between the digest and the start.
THEOREM EvidenceIsAboutTheRun == Spec => []EvidenceMatchesRun
<1>1. IInv => EvidenceMatchesRun
  <2>1. SUFFICES ASSUME IInv, NEW r \in Runs, ran[r] # None
                 PROVE  /\ Op(r) # "syntax" => ran[r].inventory = seen[r].inventory
                        /\ ~disturbed[r] /\ seen[r].digest # None => ran[r].playbook = seen[r].digest
                        /\ ~disturbed[r] /\ Applies(r) /\ request[r].enforcement = "deny" =>
                               request[r].limited /\ ran[r].playbook = seen[r].resolved
    BY DEF EvidenceMatchesRun
  <2>2. RunInv(r) /\ request[r] \in Requests
    BY <2>1 DEF IInv, RunInv, OnPath
  <2>3. Op(r) \in {"run", "syntax", "inventory"}
    BY <2>2 DEF Requests, Op
  <2>4. QED BY <2>1, <2>2, <2>3 DEF RunInv, PrivateInventory, RanWith
<1>2. QED BY <1>1, RunInvariant, PTL

\* A result that is reported reached the outbox, or the outbox's own failure is
\* a diagnostic: a failing event log is not in the way.  (EventBus.publish)
THEOREM ReportedIsPublished == Spec => []ResultsPublished
<1>1. IInv => ResultsPublished
  BY DEF IInv, RunInv, Published, Reporting, ResultsPublished, Is
<1>2. QED BY <1>1, RunInvariant, PTL

\* A command that ends, in whatever way but being killed, leaves no inventory
\* file with the variables of the hosts behind.
THEOREM NoInventoryStays == Spec => []InventoryRemoved
<1>1. IInv => InventoryRemoved
  BY DEF IInv, RunInv, PrivateInventory, InventoryRemoved
<1>2. QED BY <1>1, RunInvariant, PTL
=============================================================================
