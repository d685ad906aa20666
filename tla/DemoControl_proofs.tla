------------------------- MODULE DemoControl_proofs -------------------------
(***************************************************************************)
(* Proofs about DemoControl, for any set of requests and any numbers of    *)
(* connections, runs and faults.                                           *)
(*                                                                         *)
(* First EvidenceCannotAbort: no writer of evidence makes a reset fail.    *)
(* What carries it is the lock discipline: a reset past its LOCK TABLE is  *)
(* the one the lock is granted to (HolderIsAlone), so that every write     *)
(* that could disturb its snapshot is still waiting. Nothing is assumed of *)
(* runs and settings for it, but the shape of a request's locals.          *)
(*                                                                         *)
(* Then the types and RestartResumes, by a second invariant (ResumeInv):   *)
(* which run the startup takes up, and what its row holds while a switch   *)
(* or a control is between its write to memory and its write to the table. *)
(*                                                                         *)
(* Last SomeoneReady: where requests wait, for a connection or the locks,  *)
(* one of them waits for neither (QueueInv), and none for a number of a    *)
(* run, which is a bound of the model and not of the code (RoomInv).       *)
(***************************************************************************)
EXTENDS DemoControl, FiniteSetTheorems, WellFoundedInduction, TLAPS

\* The locals of a request are a record with five fields.
Shaped(c) == c \in [op : {c.op}, pc : {c.pc}, run : {c.run}, set : {c.set},
                    alone : {c.alone}]
CallsShaped ==
  call = [t \in Thread |-> call[t]] /\ \A t \in Thread : Shaped(call[t])

HolderIsAlone == \A t \in Thread : call[t].pc \in Locked => lock = t

LockInv == CallsShaped /\ HolderIsAlone /\ EvidenceCannotAbort

-----------------------------------------------------------------------------
\* A request goes on as c.
LEMMA BecomeFacts ==
  ASSUME CallsShaped, NEW t \in Thread, NEW c, Shaped(c), Become(t, c)
  PROVE  /\ CallsShaped' /\ call'[t] = c
         /\ \A u \in Thread : u # t => call'[u] = call[u]
<1>1. call'[t] = c /\ \A u \in Thread : u # t => call'[u] = call[u]
  BY DEF CallsShaped, Become
<1>2. call' = [u \in Thread |-> call'[u]]
  BY DEF CallsShaped, Become
<1>3. \A u \in Thread : Shaped(call'[u])
  BY <1>1 DEF CallsShaped
<1> QED BY <1>1, <1>2, <1>3 DEF CallsShaped, Shaped

LEMMA GoShaped ==
  ASSUME CallsShaped, NEW t \in Thread, NEW p, Go(t, p)
  PROVE  \E c : Become(t, c) /\ Shaped(c) /\ c.pc = p
<1> DEFINE c == [call[t] EXCEPT !.pc = p]
<1>1. Shaped(c) /\ c.pc = p
  BY DEF CallsShaped, Shaped
<1> QED BY <1>1 DEF Go

LEMMA ReturnShaped ==
  ASSUME NEW t \in Thread, Return(t)
  PROVE  \E c : Become(t, c) /\ Shaped(c) /\ c.pc = "idle"
<1>1. Shaped(Idle) /\ Idle.pc = "idle"
  BY DEF Shaped, Idle
<1> QED BY <1>1 DEF Return

\* A request goes on, outside the lock, and the lock and what was committed
\* beside it stay as they are, or the request gives the lock back.
LEMMA FreeKeeps ==
  ASSUME LockInv, NEW t \in Thread,
         \E c : Become(t, c) /\ Shaped(c) /\ c.pc \notin Locked,
         \/ UNCHANGED <<lock, since>>
         \/ lock' = lock /\ "evidence" \notin since'
         \/ lock = t /\ lock' = None /\ since' = {}
  PROVE  LockInv'
<1>1. PICK c : Become(t, c) /\ Shaped(c) /\ c.pc \notin Locked
  OBVIOUS
<1>2. /\ CallsShaped' /\ call'[t] = c
      /\ \A u \in Thread : u # t => call'[u] = call[u]
  BY <1>1, BecomeFacts DEF LockInv
<1>3. HolderIsAlone'
  BY <1>1, <1>2 DEF LockInv, HolderIsAlone, Locked
<1>4. EvidenceCannotAbort'
  BY DEF LockInv, EvidenceCannotAbort
<1> QED BY <1>2, <1>3, <1>4 DEF LockInv

LEMMA CalmKeeps ==
  ASSUME LockInv, NEW t \in Thread,
         \/ Active(t) \/ End(t) \/ Fresh(t) \/ Insert(t) \/ Adopt(t)
         \/ Connect(t) \/ Check(t) \/ Set(t) \/ DagRow(t)
  PROVE  LockInv'
<1>1. UNCHANGED <<lock, since>>
  BY DEF Active, End, Fresh, Insert, Adopt, Connect, Check, Set, DagRow, db
<1> DEFINE Free == \E c : Become(t, c) /\ Shaped(c) /\ c.pc \notin Locked
<1>2. ASSUME NEW p \in PC \ Locked, Go(t, p) PROVE Free
  BY <1>2, GoShaped DEF LockInv
<1>3. ASSUME Return(t) PROVE Free
  BY <1>3, ReturnShaped DEF Locked
<1>4. CASE Active(t)
  <2>1. CASE Go(t, "fresh")
    <3>1. "fresh" \in PC \ Locked
      BY DEF PC, Locked
    <3> QED BY <1>1, <1>2, <2>1, <3>1, FreeKeeps
  <2>2. CASE Become(t, [call[t] EXCEPT !.pc = "end", !.run = Latest(Open)])
    <3>1. PICK c : c = [call[t] EXCEPT !.pc = "end", !.run = Latest(Open)]
      OBVIOUS
    <3>2. Shaped(c) /\ c.pc = "end"
      BY <3>1 DEF LockInv, CallsShaped, Shaped
    <3>3. Free
      BY <2>2, <3>1, <3>2 DEF Locked
    <3> QED BY <1>1, <3>3, FreeKeeps
  <2> QED BY <1>4, <2>1, <2>2 DEF Active
<1>5. CASE End(t)
  <2>1. PICK p \in {"connect", "fresh"} :
          Become(t, [call[t] EXCEPT !.pc = p, !.run = 1])
    BY <1>5 DEF End
  <2>2. Free
    <3>1. PICK c : c = [call[t] EXCEPT !.pc = p, !.run = 1]
      OBVIOUS
    <3>2. Shaped(c) /\ c.pc = p
      BY <3>1 DEF LockInv, CallsShaped, Shaped
    <3> QED BY <2>1, <3>1, <3>2 DEF Locked
  <2> QED BY <1>1, <2>2, FreeKeeps
<1>6. CASE Fresh(t)
  <2>1. PICK s : Become(t, [call[t] EXCEPT !.pc = "insert", !.set = s])
    BY <1>6 DEF Fresh
  <2>2. Free
    <3>1. PICK c : c = [call[t] EXCEPT !.pc = "insert", !.set = s]
      OBVIOUS
    <3>2. Shaped(c) /\ c.pc = "insert"
      BY <3>1 DEF LockInv, CallsShaped, Shaped
    <3> QED BY <2>1, <3>1, <3>2 DEF Locked
  <2> QED BY <1>1, <2>2, FreeKeeps
<1>7. CASE Insert(t)
  <2>1. PICK r : Become(t, [call[t] EXCEPT !.pc = "adopt", !.run = r, !.set = Default])
    BY <1>7 DEF Insert
  <2>2. Free
    <3>1. PICK c : c = [call[t] EXCEPT !.pc = "adopt", !.run = r, !.set = Default]
      OBVIOUS
    <3>2. Shaped(c) /\ c.pc = "adopt"
      BY <3>1 DEF LockInv, CallsShaped, Shaped
    <3> QED BY <2>1, <3>1, <3>2 DEF Locked
  <2> QED BY <1>1, <2>2, FreeKeeps
<1>8. CASE Adopt(t) \/ Set(t) \/ DagRow(t)
  <2>1. Free
    BY <1>3, <1>8 DEF Adopt, Set, DagRow
  <2> QED BY <1>1, <2>1, FreeKeeps
<1>9. CASE Connect(t) \/ Check(t)
  <2>1. Go(t, "lock") \/ Go(t, "set") \/ Go(t, "dagrow") \/ Return(t)
    BY <1>9 DEF Connect, Check
  <2>2. {"lock", "set", "dagrow"} \subseteq PC \ Locked
    BY DEF PC, Locked, Transaction, Writing
  <2>3. Free
    BY <1>2, <1>3, <2>1, <2>2
  <2> QED BY <1>1, <2>3, FreeKeeps
<1> QED BY <1>4, <1>5, <1>6, <1>7, <1>8, <1>9

\* The lock is granted where nobody holds it, and stays with its holder.
LEMMA LockKeeps ==
  ASSUME LockInv, NEW t \in Thread, Lock(t) \/ Snapshot(t)
  PROVE  LockInv'
<1>1. PICK c : Become(t, c) /\ Shaped(c)
  BY GoShaped DEF LockInv, Lock, Snapshot
<1>2. /\ CallsShaped'
      /\ \A u \in Thread : u # t => call'[u] = call[u]
  BY <1>1, BecomeFacts DEF LockInv
<1>3. lock' = t /\ UNCHANGED since
  BY DEF Lock, Snapshot, At, LockInv, HolderIsAlone, Locked
<1>4. \A u \in Thread : u # t => call[u].pc \notin Locked
  BY DemoAssumption DEF Lock, Snapshot, At, LockInv, HolderIsAlone, Locked
<1>5. HolderIsAlone'
  BY <1>2, <1>3, <1>4 DEF HolderIsAlone
<1> QED BY <1>2, <1>3, <1>5 DEF LockInv, EvidenceCannotAbort

LEMMA DeleteKeeps ==
  ASSUME LockInv, NEW t \in Thread, Delete(t)
  PROVE  LockInv'
<1>1. \E c : Become(t, c) /\ Shaped(c) /\ c.pc \notin Locked
  BY GoShaped, ReturnShaped DEF Delete, LockInv, Locked
<1>2. lock = t /\ lock' = None /\ since' = {}
  BY DEF Delete, At, LockInv, HolderIsAlone, Locked
<1> QED BY <1>1, <1>2, FreeKeeps

\* A write goes through only while no reset is past its locks.
LEMMA RecordKeeps ==
  ASSUME LockInv, NEW t \in Thread, Record(t)
  PROVE  LockInv'
<1>1. \E c : Become(t, c) /\ Shaped(c) /\ c.pc \notin Locked
  BY ReturnShaped DEF Record, Locked
<1>2. \A u \in Thread : call[u].pc # "delete"
  BY DemoAssumption DEF Record, Write, LockInv, HolderIsAlone, Locked
<1>3. UNCHANGED <<lock, since>>
  BY <1>2 DEF Record, Commits, At
<1> QED BY <1>1, <1>3, FreeKeeps

LEMMA FailKeeps ==
  ASSUME LockInv, NEW t \in Thread, Fail(t)
  PROVE  LockInv'
<1>1. \E c : Become(t, c) /\ Shaped(c) /\ c.pc \notin Locked
  BY ReturnShaped DEF Fail, Locked
<1>2. UNCHANGED <<lock, since>> \/ (lock = t /\ lock' = None /\ since' = {})
  BY DEF Fail
<1> QED BY <1>1, <1>2, FreeKeeps

\* A request begins outside the lock; a switch beside others marks them.
LEMMA BeginKeeps ==
  ASSUME LockInv, NEW t \in Thread, NEW op \in Op, Begin(t, op)
  PROVE  LockInv'
<1>1. UNCHANGED <<lock, since>>
  BY DEF Begin, db
<1> DEFINE solo == op \notin Switch \/ Switching = {}
           first == CASE op = "mode" -> "active" [] op = "reset" -> "end"
                      [] op = "record" -> "write" [] OTHER -> "check"
<1>2. PICK s, r :
        call' = [[u \in Thread |-> IF solo THEN call[u]
                                   ELSE [call[u] EXCEPT !.alone = FALSE]]
                 EXCEPT ![t] = [op |-> op, pc |-> first, set |-> s,
                                alone |-> solo, run |-> r]]
  BY ZenonT(60) DEF Begin
<1>2a. first \in {"active", "end", "write", "check"}
  OBVIOUS
<1> HIDE DEF solo, first
<1>3. /\ call' = [u \in Thread |-> call'[u]]
      /\ call'[t] = [op |-> op, pc |-> first, set |-> s, alone |-> solo, run |-> r]
      /\ \A u \in Thread : u # t =>
           call'[u] = IF solo THEN call[u] ELSE [call[u] EXCEPT !.alone = FALSE]
  BY <1>2
<1>4. ASSUME NEW u \in Thread PROVE Shaped(call'[u])
  BY <1>3 DEF LockInv, CallsShaped, Shaped
<1>5. ASSUME NEW u \in Thread, u # t PROVE call'[u].pc = call[u].pc
  BY <1>3, <1>5 DEF LockInv, CallsShaped, Shaped
<1>6. CallsShaped'
  BY <1>3, <1>4 DEF CallsShaped, Shaped
<1>7. HolderIsAlone'
  BY <1>1, <1>2a, <1>3, <1>5 DEF LockInv, HolderIsAlone, Locked
<1> QED BY <1>1, <1>6, <1>7 DEF LockInv, EvidenceCannotAbort

LEMMA NextKeeps ==
  ASSUME LockInv, [Next]_vars
  PROVE  LockInv'
<1>1. ASSUME NEW t \in Thread, Step(t) PROVE LockInv'
  <2>1. CASE Wait(t)
    BY <2>1 DEF Wait, LockInv, CallsShaped, Shaped, HolderIsAlone, EvidenceCannotAbort
  <2> QED BY <1>1, <2>1, CalmKeeps, LockKeeps, DeleteKeeps, RecordKeeps DEF Step
<1>2. ASSUME NEW r \in Run, DagProgress(r) PROVE LockInv'
  <2>1. UNCHANGED <<call, lock>> /\ ("evidence" \in since' => "evidence" \in since)
    BY <1>2 DEF DagProgress, Commits
  <2> QED BY <2>1 DEF LockInv, CallsShaped, Shaped, HolderIsAlone, EvidenceCannotAbort
<1>3. CASE Crash
  <2>1. /\ call' = [t \in Thread |-> Idle] /\ since' = {}
        /\ Shaped(Idle) /\ Idle.pc \notin Locked
    BY <1>3 DEF Crash, Idle, Shaped, Locked
  <2> QED BY <2>1 DEF LockInv, CallsShaped, Shaped, HolderIsAlone, EvidenceCannotAbort
<1>4. CASE Boot \/ UNCHANGED vars
  BY <1>4 DEF Boot, vars, db, LockInv, CallsShaped, Shaped, HolderIsAlone,
     EvidenceCannotAbort
<1> QED
  BY <1>1, <1>2, <1>3, <1>4, FailKeeps, BeginKeeps DEF Next

\* The lock discipline holds of every reachable state.
THEOREM LockInvariant == Spec => []LockInv
<1>1. Init => LockInv
  <2>1. ASSUME Init PROVE LockInv
    <3>1. call = [t \in Thread |-> Idle] /\ since = {}
      BY <2>1 DEF Init
    <3>2. Shaped(Idle) /\ Idle.pc \notin Locked
      BY DEF Shaped, Idle, Locked
    <3> QED BY <3>1, <3>2 DEF LockInv, CallsShaped, HolderIsAlone, EvidenceCannotAbort
  <2> QED BY <2>1
<1>2. LockInv /\ [Next]_vars => LockInv'
  BY NextKeeps
<1> QED BY <1>1, <1>2, PTL DEF Spec

\* Whatever writes beside a reset, and whatever fails or restarts, no evidence
\* that its snapshot missed makes its DELETE fail (demo.js:291-304).
THEOREM ResetIsNotDisturbed == Spec => []EvidenceCannotAbort
<1>1. LockInv => EvidenceCannotAbort
  BY DEF LockInv
<1> QED BY <1>1, LockInvariant, PTL

-----------------------------------------------------------------------------
(* What a restart resumes. RestartResumes speaks of a moment without a     *)
(* switch. What carries it through one: a switch that nobody overlaps is    *)
(* alone to its end, so that the run it inserts is still the latest, and    *)
(* under the profile of memory, when it adopts it; and whatever overlaps it *)
(* or makes it fail is noted in `mixed'.                                    *)

Call == [op : Op, pc : PC, run : Run, set : Settings, alone : BOOLEAN]
RunRow == [status : {"none", "running", "completed", "reset", "gone"},
           set : Settings, dag : {"none", "running", "completed"}]

OfSwitch == {"active", "connect", "fresh", "adopt", "end", "insert"} \cup Transaction
Placed(c) ==
  /\ c.pc \in OfSwitch <=> c.op \in Switch
  /\ c.pc = "active" => c.op = "mode"
  /\ c.pc \in {"connect"} \cup Transaction => c.op = "reset"
Places == \A t \in Thread : Placed(call[t])
Overlaps ==
  /\ \A t \in Switching : call[t].alone => Switching = {t}
  /\ \A t \in Switching : ~call[t].alone => mixed = {"mem", "db"}
  /\ ~up => Switching = {}

\* Runs are numbered in order, and nobody ends or adopts one that is not there.
Used(r) == runs[r].status # "none"
RunsInOrder ==
  /\ \A r, s \in Run : Used(s) /\ r <= s => Used(r)
  /\ Used(mem.run)
  /\ \A t \in Switching : call[t].pc \in {"end", "adopt"} => Used(call[t].run)

\* What a switch alone has brought about so far.
Prepared == \A t \in Switching : call[t].alone =>
  /\ call[t].pc = "insert" => call[t].set.profile = mem.set.profile
  /\ call[t].pc = "adopt" =>
       /\ call[t].run \in Open /\ \A r \in Open : r <= call[t].run
       /\ runs[call[t].run].set.profile = mem.set.profile
\* Where the table is right, or is being set right by a reset, one run is open.
Clears(t) == "db" \notin mixed \/ call[t].op = "reset"
OneOpen ==
  /\ "db" \notin mixed => \A r, s \in Open : r = s
  /\ \A t \in Switching : call[t].alone =>
       /\ "db" \notin mixed /\ call[t].op = "mode" /\ call[t].pc = "end" =>
            Open \subseteq {call[t].run}
       /\ Clears(t) /\ call[t].pc \in {"fresh", "insert"} => Open = {}
       /\ Clears(t) /\ call[t].pc = "adopt" => Open = {call[t].run}
MemResumes == up /\ Switching = {} /\ "mem" \notin mixed =>
  /\ mem.run \in Open /\ \A r \in Open : r <= mem.run
  /\ runs[mem.run].set.profile = mem.set.profile

SwitchInv == Overlaps /\ RunsInOrder /\ Prepared /\ OneOpen /\ MemResumes
ResumeInv == TypeOK /\ Places /\ SwitchInv

-----------------------------------------------------------------------------
(* The first and the last of some runs.                                    *)

LEMMA LeastExists ==
  ASSUME NEW S \in SUBSET Nat, S # {}
  PROVE  \E r \in S : \A s \in S : r <= s
<1>1. PICK R : R = OpToRel(<, Nat)
  OBVIOUS
<1>2. IsWellFoundedOn(R, Nat)
  BY <1>1, NatLessThanWellFounded, Zenon
<1>3. \A x, y \in Nat : <<y, x>> \in R <=> y < x
  BY <1>1 DEF OpToRel
<1>4. PICK x \in S : \A y \in S : <<y, x>> \notin R
  BY <1>2, WFMin
<1>5. ASSUME NEW y \in S PROVE x <= y
  <2>1. x \in Nat /\ y \in Nat
    OBVIOUS
  <2>2. ~(y < x)
    BY <1>3, <1>4, <2>1
  <2> QED BY <2>1, <2>2
<1> QED BY <1>5

LEMMA LeastIs ==
  ASSUME NEW S \in SUBSET Run, S # {}
  PROVE  Least(S) \in S /\ \A s \in S : Least(S) <= s
<1>1. \E r \in S : \A s \in S : r <= s
  BY LeastExists, DemoAssumption DEF Run
<1> QED BY <1>1 DEF Least

LEMMA LatestIs ==
  ASSUME NEW S \in SUBSET Run, S # {}
  PROVE  Latest(S) \in S /\ \A s \in S : s <= Latest(S)
<1>0. MaxRun \in Nat /\ \A s \in S : s \in Nat /\ s <= MaxRun
  BY DemoAssumption DEF Run
<1> DEFINE T == {MaxRun - s : s \in S}
<1>1. T \in SUBSET Nat /\ T # {}
  BY <1>0
<1>2. PICK m \in T : \A n \in T : m <= n
  BY <1>1, LeastExists
<1>3. PICK r \in S : m = MaxRun - r
  BY <1>2
<1>4. ASSUME NEW s \in S PROVE r >= s
  <2>1. MaxRun - r <= MaxRun - s
    BY <1>2, <1>3
  <2> QED BY <1>0, <2>1
<1>5. Latest(S) \in S /\ \A s \in S : Latest(S) >= s
  BY <1>4 DEF Latest
<1> QED BY <1>0, <1>5

-----------------------------------------------------------------------------
(* Types, and where a request of each kind stands.                         *)

Acts(t) ==
  call' \in [Thread -> Call] /\ \A u \in Thread : u # t => call'[u] = call[u]
Moves(t, p) ==
  /\ Acts(t) /\ call'[t].pc = p /\ call'[t].op = call[t].op
  /\ call'[t].alone = call[t].alone
Leaves(t) == Acts(t) /\ call'[t] = Idle

LEMMA Typed ==
  ASSUME TypeOK
  PROVE  /\ call \in [Thread -> Call] /\ runs \in [Run -> RunRow]
         /\ mem \in [set : Settings, run : Run] /\ mem.set \in Settings /\ mem.run \in Run
         /\ Idle \in Call /\ Default \in Settings /\ 1 \in Run
BY DemoAssumption
   DEF TypeOK, Call, RunRow, Idle, Op, PC, Run, Default, Settings, Profile, Workflow

LEMMA GoMoves ==
  ASSUME TypeOK, NEW t \in Thread, NEW p \in PC, Go(t, p)
  PROVE  /\ Moves(t, p) /\ call'[t].run = call[t].run /\ call'[t].set = call[t].set
BY Typed DEF Go, Become, Moves, Acts, Call

LEMMA ReturnLeaves ==
  ASSUME TypeOK, NEW t \in Thread, Return(t)
  PROVE  Leaves(t)
BY Typed DEF Return, Become, Leaves, Acts

LEMMA PlacesOn ==
  ASSUME Places, NEW t \in Thread, Acts(t), Placed(call'[t])
  PROVE  Places'
BY DEF Places, Placed, Acts

LEMMA IdlePlaced == Placed(Idle)
BY DEF Placed, Idle, OfSwitch, Transaction, Locked, Op, Switch, None

\* What each step does to the request that takes it.
LEMMA SwitchGoes ==
  ASSUME TypeOK, NEW t \in Thread
  PROVE  /\ Active(t) => \/ Moves(t, "fresh") /\ Open = {}
                         \/ /\ Moves(t, "end") /\ Open # {}
                            /\ call'[t].run = Latest(Open)
         /\ End(t) => Moves(t, IF call[t].op = "reset" THEN "connect" ELSE "fresh")
         /\ Fresh(t) => /\ Moves(t, "insert") /\ call'[t].set = mem'.set
                        /\ mem' \in [set : Settings, run : Run] /\ mem'.run = mem.run
         /\ Insert(t) => /\ Moves(t, "adopt") /\ Unused # {}
                         /\ call'[t].run = Least(Unused)
         /\ Connect(t) => Moves(t, "lock")
         /\ Lock(t) => Moves(t, "snapshot")
         /\ Snapshot(t) => Moves(t, "delete")
         /\ Delete(t) => \/ Aborted /\ Leaves(t)
                         \/ ~Aborted /\ Moves(t, "fresh")
<1>0. /\ call \in [Thread -> Call] /\ mem \in [set : Settings, run : Run]
      /\ call[t] \in Call /\ mem.set \in Settings
  BY Typed
<1>p. {"lock", "snapshot", "delete", "fresh", "end", "connect", "insert", "adopt"}
        \subseteq PC
  BY DEF PC, Transaction, Locked, Writing
<1>1. \A p \in PC : Go(t, p) => Moves(t, p)
  BY GoMoves
<1>2. ASSUME NEW c \in Call, Become(t, c), c.op = call[t].op, c.alone = call[t].alone
      PROVE  Moves(t, c.pc) /\ call'[t] = c
  BY <1>0, <1>2 DEF Become, Moves, Acts
<1>3. ASSUME Active(t)
      PROVE  \/ Moves(t, "fresh") /\ Open = {}
             \/ Moves(t, "end") /\ Open # {} /\ call'[t].run = Latest(Open)
  <2>1. CASE Open = {} BY <1>1, <1>p, <1>3, <2>1 DEF Active
  <2>2. CASE Open # {}
    <3>1. Latest(Open) \in Run BY <2>2, LatestIs DEF Open
    <3>2. PICK r \in Run : r = Latest(Open) BY <3>1
    <3> DEFINE c == [call[t] EXCEPT !.pc = "end", !.run = r]
    <3>3. /\ c \in Call /\ c.op = call[t].op /\ c.alone = call[t].alone
          /\ c.pc = "end" /\ c.run = r
      BY <1>0, <1>p DEF Call
    <3>4. Become(t, c) BY <1>3, <2>2, <3>2 DEF Active
    <3> HIDE DEF c
    <3>5. Moves(t, c.pc) /\ call'[t] = c BY <1>2, <3>3, <3>4
    <3> QED BY <2>2, <3>2, <3>3, <3>5
  <2> QED BY <2>1, <2>2
<1>4. ASSUME End(t)
      PROVE  Moves(t, IF call[t].op = "reset" THEN "connect" ELSE "fresh")
  <2>1. PICK p \in {"connect", "fresh"} :
          p = IF call[t].op = "reset" THEN "connect" ELSE "fresh"
    OBVIOUS
  <2> DEFINE c == [call[t] EXCEPT !.pc = p, !.run = 1]
  <2>2. /\ c \in Call /\ c.op = call[t].op /\ c.alone = call[t].alone /\ c.pc = p
    BY <1>0, <1>p, Typed DEF Call
  <2>3. Become(t, c) BY <1>4, <2>1 DEF End
  <2> HIDE DEF c
  <2> QED BY <1>2, <2>1, <2>2, <2>3
<1>5. ASSUME Fresh(t)
      PROVE  /\ Moves(t, "insert") /\ call'[t].set = mem'.set
             /\ mem' \in [set : Settings, run : Run] /\ mem'.run = mem.run
  <2>1. PICK s : /\ s = [mem.set EXCEPT !.profile =
                           IF call[t].op = "mode" THEN call[t].set.profile ELSE @]
                 /\ mem' = [mem EXCEPT !.set = s]
                 /\ Become(t, [call[t] EXCEPT !.pc = "insert", !.set = s])
    BY <1>5 DEF Fresh
  <2>2. s \in Settings BY <1>0, <2>1 DEF Settings, Call
  <2> DEFINE c == [call[t] EXCEPT !.pc = "insert", !.set = s]
  <2>3. /\ c \in Call /\ c.op = call[t].op /\ c.alone = call[t].alone
        /\ c.pc = "insert" /\ c.set = s
    BY <1>0, <1>p, <2>2 DEF Call
  <2>4. Become(t, c) BY <2>1
  <2> HIDE DEF c
  <2>5. Moves(t, "insert") /\ call'[t] = c BY <1>2, <2>3, <2>4
  <2>6. mem' \in [set : Settings, run : Run] /\ mem'.run = mem.run /\ mem'.set = s
    BY <1>0, <2>1, <2>2
  <2> QED BY <2>3, <2>5, <2>6
<1>6. ASSUME Insert(t)
      PROVE  Moves(t, "adopt") /\ Unused # {} /\ call'[t].run = Least(Unused)
  <2>1. Unused # {} BY <1>6 DEF Insert
  <2>2. PICK r \in Run : r = Least(Unused) BY <2>1, LeastIs DEF Unused
  <2> DEFINE c == [call[t] EXCEPT !.pc = "adopt", !.run = r, !.set = Default]
  <2>3. /\ c \in Call /\ c.op = call[t].op /\ c.alone = call[t].alone
        /\ c.pc = "adopt" /\ c.run = r
    BY <1>0, <1>p, Typed DEF Call
  <2>4. Become(t, c) BY <1>6, <2>2 DEF Insert
  <2> HIDE DEF c
  <2>5. Moves(t, "adopt") /\ call'[t] = c BY <1>2, <2>3, <2>4
  <2> QED BY <2>1, <2>2, <2>3, <2>5
<1>7. /\ Connect(t) => Moves(t, "lock")
      /\ Lock(t) => Moves(t, "snapshot")
      /\ Snapshot(t) => Moves(t, "delete")
  BY <1>1, <1>p DEF Connect, Lock, Snapshot
<1>8. ASSUME Delete(t)
      PROVE  \/ Aborted /\ Leaves(t)
             \/ ~Aborted /\ Moves(t, "fresh")
  BY <1>1, <1>p, <1>8, ReturnLeaves DEF Delete
<1> QED BY <1>3, <1>4, <1>5, <1>6, <1>7, <1>8

LEMMA OtherGoes ==
  ASSUME TypeOK, NEW t \in Thread
  PROVE  /\ Check(t) => Moves(t, "set") \/ Moves(t, "dagrow") \/ Leaves(t)
         /\ Adopt(t) \/ Set(t) \/ DagRow(t) \/ Record(t) \/ Fail(t) => Leaves(t)
<1>1. {"set", "dagrow"} \subseteq PC BY DEF PC, Writing
<1>2. Check(t) => Go(t, "set") \/ Go(t, "dagrow") \/ Return(t) BY DEF Check
<1> QED BY <1>1, <1>2, GoMoves, ReturnLeaves DEF Adopt, Set, DagRow, Record, Fail

\* A request that begins, and what its beginning does to the others.
Begins(t, op) ==
  /\ call' \in [Thread -> Call] /\ call'[t].op = op
  /\ call'[t].pc = (CASE op = "mode" -> "active" [] op = "reset" -> "end"
                      [] op = "record" -> "write" [] OTHER -> "check")
  /\ op = "reset" => call'[t].run = mem.run
  /\ IF op \notin Switch \/ Switching = {}
     THEN /\ call'[t].alone /\ UNCHANGED mixed
          /\ \A u \in Thread : u # t => call'[u] = call[u]
     ELSE /\ ~call'[t].alone /\ mixed' = {"mem", "db"}
          /\ \A u \in Thread : u # t =>
               /\ call'[u].op = call[u].op /\ call'[u].pc = call[u].pc
               /\ call'[u].run = call[u].run /\ ~call'[u].alone

LEMMA BeginGoes ==
  ASSUME TypeOK, NEW t \in Thread, NEW op \in Op \ {None}, Begin(t, op)
  PROVE  Begins(t, op)
<1>0. call \in [Thread -> Call] /\ mem.run \in Run /\ 1 \in Run
  BY Typed
<1> DEFINE solo == op \notin Switch \/ Switching = {}
           first == CASE op = "mode" -> "active" [] op = "reset" -> "end"
                      [] op = "record" -> "write" [] OTHER -> "check"
<1>1. PICK s \in Settings :
        /\ call' = [[u \in Thread |-> IF solo THEN call[u]
                                      ELSE [call[u] EXCEPT !.alone = FALSE]]
                    EXCEPT ![t] = [op |-> op, pc |-> first, set |-> s, alone |-> solo,
                                   run |-> IF op = "mode" THEN 1 ELSE mem.run]]
        /\ mixed' = IF solo THEN mixed ELSE {"mem", "db"}
  BY ZenonT(60) DEF Begin
<1>2. first \in PC BY DEF PC, Writing
<1>2a. first = CASE op = "mode" -> "active" [] op = "reset" -> "end"
                 [] op = "record" -> "write" [] OTHER -> "check"
  OBVIOUS
<1>2b. solo \in BOOLEAN /\ (solo <=> op \notin Switch \/ Switching = {})
  OBVIOUS
<1> HIDE DEF solo, first
<1>3. PICK c : c = [op |-> op, pc |-> first, set |-> s, alone |-> solo,
                    run |-> IF op = "mode" THEN 1 ELSE mem.run]
  OBVIOUS
<1>4. /\ c \in Call /\ c.op = op /\ c.pc = first /\ c.alone = solo
      /\ c.run = IF op = "mode" THEN 1 ELSE mem.run
  BY <1>0, <1>2, <1>2b, <1>3 DEF Call
<1>5. ASSUME NEW u \in Thread
      PROVE  /\ [call[u] EXCEPT !.alone = FALSE] \in Call
             /\ [call[u] EXCEPT !.alone = FALSE].op = call[u].op
             /\ [call[u] EXCEPT !.alone = FALSE].pc = call[u].pc
             /\ [call[u] EXCEPT !.alone = FALSE].run = call[u].run
             /\ [call[u] EXCEPT !.alone = FALSE].alone = FALSE
  BY <1>0 DEF Call
<1>6. /\ call'[t] = c
      /\ \A u \in Thread : u # t =>
           call'[u] = IF solo THEN call[u] ELSE [call[u] EXCEPT !.alone = FALSE]
  BY <1>1, <1>3
<1>7. call' \in [Thread -> Call]
  BY <1>0, <1>1, <1>3, <1>4, <1>5
<1> QED BY <1>1, <1>2a, <1>2b, <1>4, <1>5, <1>6, <1>7 DEF Begins

\* The types but those of the runs and the requests.
OtherTypes ==
  /\ mem \in [set : Settings, run : Run] /\ up \in BOOLEAN
  /\ lock \in Thread \cup {None} /\ waiting \in SUBSET Thread
  /\ since \in SUBSET {"evidence", "dag"}
  /\ mixed \in SUBSET {"mem", "db"} /\ faults \in 0..MaxFault

LEMMA TypesApart ==
  TypeOK <=> OtherTypes /\ call \in [Thread -> Call] /\ runs \in [Run -> RunRow]
BY DEF TypeOK, OtherTypes, Call, RunRow

LEMMA CallsTyped ==
  ASSUME TypeOK, [Next]_vars
  PROVE  call' \in [Thread -> Call]
<1>0. call \in [Thread -> Call] /\ Idle \in Call BY Typed
<1>1. ASSUME NEW t \in Thread, NEW p, Moves(t, p) PROVE call' \in [Thread -> Call]
  BY <1>1 DEF Moves, Acts
<1>2. ASSUME NEW t \in Thread, Leaves(t) PROVE call' \in [Thread -> Call]
  BY <1>2 DEF Leaves, Acts
<1>3. ASSUME NEW t \in Thread, Step(t) \/ Fail(t) PROVE call' \in [Thread -> Call]
  <2>1. CASE Wait(t) BY <1>0, <2>1 DEF Wait
  <2>2. CASE ~Wait(t)
    <3>1. CASE Active(t) \/ End(t) \/ Fresh(t) \/ Insert(t) \/ Connect(t) \/ Lock(t)
                 \/ Snapshot(t) \/ Delete(t)
      BY <1>1, <1>2, <3>1, SwitchGoes
    <3>2. CASE Adopt(t) \/ Check(t) \/ Set(t) \/ DagRow(t) \/ Record(t) \/ Fail(t)
      BY <1>1, <1>2, <3>2, OtherGoes
    <3> QED BY <1>3, <2>2, <3>1, <3>2 DEF Step
  <2> QED BY <2>1, <2>2
<1>4. ASSUME NEW t \in Thread, NEW op \in Op \ {None}, Begin(t, op)
      PROVE  call' \in [Thread -> Call]
  BY <1>4, BeginGoes DEF Begins
<1>5. ASSUME (\E r \in Run : DagProgress(r)) \/ Boot \/ UNCHANGED vars
      PROVE  call' \in [Thread -> Call]
  BY <1>0, <1>5 DEF DagProgress, Boot, vars
<1>6. ASSUME Crash PROVE call' \in [Thread -> Call] BY <1>0, <1>6 DEF Crash
<1> QED BY <1>3, <1>4, <1>5, <1>6 DEF Next

LEMMA RunsTyped ==
  ASSUME TypeOK, [Next]_vars
  PROVE  runs' \in [Run -> RunRow]
<1>0. /\ runs \in [Run -> RunRow] /\ Default \in Settings
      /\ \A t \in Thread : call[t].set \in Settings
  BY Typed DEF Call
<1>1. ASSUME NEW t \in Thread, End(t) \/ DagRow(t) PROVE runs' \in [Run -> RunRow]
  BY <1>0, <1>1 DEF End, DagRow, RunRow
<1>2. ASSUME NEW t \in Thread, Insert(t) PROVE runs' \in [Run -> RunRow]
  <2>1. PICK r : runs' = [runs EXCEPT ![r] =
                   [status |-> "running", set |-> call[t].set, dag |-> "none"]]
    BY <1>2 DEF Insert
  <2>2. [status |-> "running", set |-> call[t].set, dag |-> "none"] \in RunRow
    BY <1>0 DEF RunRow
  <2> QED BY <1>0, <2>1, <2>2
<1>3. ASSUME NEW t \in Thread, Delete(t) PROVE runs' \in [Run -> RunRow]
  <2>1. [status |-> "gone", set |-> Default, dag |-> "none"] \in RunRow
    BY <1>0 DEF RunRow
  <2> QED BY <1>0, <1>3, <2>1 DEF Delete
<1>4. ASSUME NEW r \in Run, DagProgress(r) PROVE runs' \in [Run -> RunRow]
  <2>1. PICK s \in {"running", "completed"} : runs' = [runs EXCEPT ![r].dag = s]
    BY <1>4 DEF DagProgress
  <2> QED BY <1>0, <2>1 DEF RunRow
<1>5. ASSUME Boot PROVE runs' \in [Run -> RunRow]
  <2>1. [status |-> "running", set |-> Default, dag |-> "none"] \in RunRow
    BY <1>0 DEF RunRow
  <2> QED BY <1>0, <1>5, <2>1 DEF Boot
<1>6. ASSUME NEW t \in Thread,
             Wait(t) \/ Active(t) \/ Fresh(t) \/ Adopt(t) \/ Connect(t) \/ Lock(t)
               \/ Snapshot(t) \/ Check(t) \/ Set(t) \/ Record(t) \/ Fail(t)
               \/ \E op \in Op \ {None} : Begin(t, op)
      PROVE  UNCHANGED runs
  <2>1. CASE Fail(t) BY <2>1 DEF Fail
  <2>2. CASE \E op \in Op \ {None} : Begin(t, op) BY <2>2 DEF Begin, db
  <2> QED BY <1>6, <2>1, <2>2 DEF Wait, Active, Fresh, Adopt, Connect, Lock, Snapshot,
          Check, Set, Record, db
<1>7. ASSUME Crash \/ UNCHANGED vars PROVE UNCHANGED runs
  BY <1>7 DEF Crash, vars, db
<1> QED BY <1>0, <1>1, <1>2, <1>3, <1>4, <1>5, <1>6, <1>7 DEF Next, Step

LEMMA OthersTyped ==
  ASSUME TypeOK, [Next]_vars
  PROVE  OtherTypes'
<1>0. /\ OtherTypes /\ call \in [Thread -> Call] /\ runs \in [Run -> RunRow]
      /\ Default \in Settings /\ mem.set \in Settings /\ MaxFault \in Nat
  BY Typed, TypesApart, DemoAssumption
<1> USE DEF OtherTypes
<1>1. ASSUME NEW t \in Thread,
             Wait(t) \/ Active(t) \/ End(t) \/ Insert(t) \/ Connect(t) \/ Lock(t)
               \/ Snapshot(t) \/ Delete(t) \/ Check(t) \/ DagRow(t)
      PROVE  OtherTypes'
  BY <1>0, <1>1 DEF Wait, Active, End, Insert, Connect, Lock, Snapshot, Delete, Check,
     DagRow, Query, Write
<1>2. ASSUME NEW t \in Thread, Fresh(t) PROVE OtherTypes'
  <2>1. mem' \in [set : Settings, run : Run] BY <1>2, SwitchGoes
  <2> QED BY <1>0, <1>2, <2>1 DEF Fresh, db
<1>3. ASSUME NEW t \in Thread, Adopt(t) PROVE OtherTypes'
  <2>1. mem' \in [set : Settings, run : Run] BY <1>0, <1>3 DEF Adopt, Call
  <2> QED BY <1>0, <1>3, <2>1 DEF Adopt, db
<1>4. ASSUME NEW t \in Thread, Set(t) PROVE OtherTypes'
  <2>1. call[t].set.workflow \in Workflow BY <1>0 DEF Call, Settings
  <2>2. mem' \in [set : Settings, run : Run] BY <1>0, <1>4, <2>1 DEF Set, Settings
  <2> QED BY <1>0, <1>4, <2>2 DEF Set, db
<1>5. ASSUME NEW t \in Thread, Record(t) PROVE OtherTypes'
  BY <1>0, <1>5 DEF Record, Commits, Write
<1>6. ASSUME NEW r \in Run, DagProgress(r) PROVE OtherTypes'
  BY <1>0, <1>6 DEF DagProgress, Commits
<1>7. ASSUME NEW t \in Thread, Fail(t) PROVE OtherTypes'
  <2>1. faults' \in 0..MaxFault BY <1>0, <1>7 DEF Fail
  <2>2. mixed' \in SUBSET {"mem", "db"} BY <1>0, <1>7 DEF Fail
  <2>3. /\ lock' \in Thread \cup {None} /\ waiting' \in SUBSET Thread
        /\ since' \in SUBSET {"evidence", "dag"} /\ UNCHANGED <<mem, up>>
    BY <1>0, <1>7 DEF Fail
  <2> QED BY <1>0, <2>1, <2>2, <2>3
<1>8. ASSUME NEW t \in Thread, NEW op \in Op \ {None}, Begin(t, op) PROVE OtherTypes'
  <2>1. mixed' \in SUBSET {"mem", "db"} BY <1>0, <1>8, BeginGoes DEF Begins
  <2> QED BY <1>0, <1>8, <2>1 DEF Begin, db
<1>9. ASSUME Crash PROVE OtherTypes'
  <2>1. faults' \in 0..MaxFault BY <1>0, <1>9 DEF Crash
  <2>2. mixed' \in SUBSET {"mem", "db"} BY <1>0, <1>9 DEF Crash
  <2>3. /\ lock' = None /\ waiting' = {} /\ since' = {} /\ up' = FALSE
        /\ UNCHANGED mem
    BY <1>9 DEF Crash
  <2> QED BY <1>0, <2>1, <2>2, <2>3
<1>10. ASSUME Boot PROVE OtherTypes'
  <2>1. mem' \in [set : Settings, run : Run]
    <3>1. CASE Open # {}
      <4>1. Latest(Open) \in Run BY <3>1, LatestIs DEF Open
      <4> QED BY <1>0, <1>10, <3>1, <4>1 DEF Boot, RunRow
    <3>2. CASE Open = {}
      <4>1. Unused # {} /\ mem' = [set |-> Default, run |-> Least(Unused)]
        BY <1>10, <3>2 DEF Boot
      <4>2. Least(Unused) \in Run BY <4>1, LeastIs DEF Unused
      <4> QED BY <1>0, <4>1, <4>2
    <3> QED BY <3>1, <3>2
  <2> QED BY <1>0, <1>10, <2>1 DEF Boot
<1>11. ASSUME UNCHANGED vars PROVE OtherTypes' BY <1>0, <1>11 DEF vars, db
<1> QED BY <1>1, <1>2, <1>3, <1>4, <1>5, <1>6, <1>7, <1>8, <1>9, <1>10, <1>11
        DEF Next, Step

LEMMA PlacesKept ==
  ASSUME TypeOK, Places, [Next]_vars
  PROVE  Places'
<1> USE DEF Placed, OfSwitch, Transaction, Locked, Switch
<1>0. \A t \in Thread : Placed(call[t]) BY DEF Places
<1>1. ASSUME NEW t \in Thread, Leaves(t) PROVE Places'
  BY <1>1, IdlePlaced, PlacesOn DEF Leaves
<1>2. ASSUME NEW t \in Thread, NEW p, Moves(t, p),
             p \in OfSwitch <=> call[t].op \in Switch,
             p = "active" => call[t].op = "mode",
             p \in {"connect"} \cup Transaction => call[t].op = "reset"
      PROVE  Places'
  <2>1. Placed(call'[t]) BY <1>2 DEF Moves
  <2> QED BY <1>2, <2>1, PlacesOn DEF Moves
<1>3. ASSUME NEW t \in Thread,
             Active(t) \/ End(t) \/ Fresh(t) \/ Insert(t) \/ Connect(t) \/ Lock(t)
               \/ Snapshot(t) \/ Delete(t)
      PROVE  Places'
  <2>1. /\ call[t].op \in Switch
        /\ Connect(t) \/ Lock(t) \/ Snapshot(t) => call[t].op = "reset"
    BY <1>0, <1>3 DEF Active, End, Fresh, Insert, Connect, Lock, Snapshot, Delete, At
  <2>2. \/ Moves(t, "fresh") \/ Moves(t, "end") \/ Moves(t, "insert") \/ Moves(t, "adopt")
        \/ Leaves(t)
        \/ call[t].op = "reset" /\ \/ Moves(t, "connect") \/ Moves(t, "lock")
                                   \/ Moves(t, "snapshot") \/ Moves(t, "delete")
    BY <1>3, <2>1, SwitchGoes
  <2> QED BY <1>1, <1>2, <2>1, <2>2
<1>4. ASSUME NEW t \in Thread,
             Check(t) \/ Adopt(t) \/ Set(t) \/ DagRow(t) \/ Record(t) \/ Fail(t)
      PROVE  Places'
  <2>1. Check(t) => call[t].op \notin Switch BY <1>0 DEF Check, At
  <2> QED BY <1>1, <1>2, <1>4, <2>1, OtherGoes
<1>5. ASSUME NEW t \in Thread, NEW op \in Op \ {None}, Begin(t, op) PROVE Places'
  <2>1. Begins(t, op) BY <1>5, BeginGoes
  <2>2. Placed(call'[t]) BY <2>1 DEF Begins, Op
  <2>3. \A u \in Thread : u # t => call'[u].op = call[u].op /\ call'[u].pc = call[u].pc
    BY <2>1 DEF Begins
  <2> QED BY <1>0, <2>2, <2>3 DEF Places
<1>6. ASSUME Crash PROVE Places'
  BY <1>6, IdlePlaced DEF Crash, Places
<1>7. ASSUME UNCHANGED call PROVE Places' BY <1>7 DEF Places
<1>8. ASSUME (\E t \in Thread : Wait(t)) \/ (\E r \in Run : DagProgress(r)) \/ Boot
               \/ UNCHANGED vars
      PROVE  UNCHANGED call
  BY <1>8 DEF Wait, DagProgress, Boot, vars
<1> QED BY <1>3, <1>4, <1>5, <1>6, <1>7, <1>8 DEF Next, Step

-----------------------------------------------------------------------------
(* The steps that no switch takes.                                         *)

LEMMA QuietKeeps ==
  ASSUME SwitchInv, mem.run \in Run,
         \A r \in Run : runs'[r].status = runs[r].status /\ runs'[r].set = runs[r].set,
         \A u \in Thread : /\ call'[u].op \in Switch <=> call[u].op \in Switch
                           /\ call[u].op \in Switch => call'[u] = call[u],
         \A u \in Thread : call[u].run \in Run,
         UNCHANGED <<up, mixed>>, mem'.run = mem.run, mem'.set.profile = mem.set.profile
  PROVE  SwitchInv'
<1>1. /\ Open' = Open /\ Switching' = Switching
      /\ \A u \in Switching : call'[u] = call[u] /\ u \in Thread
  BY DEF Open, Switching
<1>2. \A r \in Run : Used(r)' <=> Used(r) BY DEF Used
<1>3. Overlaps' BY <1>1 DEF SwitchInv, Overlaps
<1>4. RunsInOrder' BY <1>1, <1>2 DEF SwitchInv, RunsInOrder, Used
<1>5. Prepared' BY <1>1 DEF SwitchInv, Prepared, Open
<1>6. OneOpen' BY <1>1 DEF SwitchInv, OneOpen, Clears
<1>7. MemResumes' BY <1>1 DEF SwitchInv, MemResumes, Open
<1> QED BY <1>3, <1>4, <1>5, <1>6, <1>7 DEF SwitchInv

LEMMA OthersKeep ==
  ASSUME ResumeInv, NEW t \in Thread,
         \/ Wait(t) \/ Check(t) \/ Set(t) \/ DagRow(t) \/ Record(t)
         \/ Fail(t) /\ call[t].op \notin Switch
         \/ \E op \in Op \ {None} : op \notin Switch /\ Begin(t, op)
  PROVE  SwitchInv'
<1>0. /\ TypeOK /\ SwitchInv /\ Places /\ call \in [Thread -> Call]
      /\ runs \in [Run -> RunRow] /\ mem \in [set : Settings, run : Run]
      /\ mem.run \in Run /\ mem.set \in Settings
      /\ \A u \in Thread : call[u].run \in Run /\ call[u].set \in Settings
  BY Typed DEF ResumeInv, Call
<1>1. UNCHANGED <<up, mixed>>
  <2>1. CASE \E op \in Op \ {None} : op \notin Switch /\ Begin(t, op)
    BY <1>0, <2>1, BeginGoes DEF Begin, Begins
  <2>2. CASE Fail(t) /\ call[t].op \notin Switch BY <2>2 DEF Fail
  <2> QED BY <2>1, <2>2 DEF Wait, Check, Set, DagRow, Record
<1>2. mem'.run = mem.run /\ mem'.set.profile = mem.set.profile
  <2>1. CASE Set(t) BY <1>0, <2>1 DEF Set, Settings
  <2>2. CASE ~Set(t)
    <3>1. UNCHANGED mem BY <2>2 DEF Wait, Check, DagRow, Record, Fail, Begin
    <3> QED BY <3>1
  <2> QED BY <2>1, <2>2
<1>3. \A r \in Run : runs'[r].status = runs[r].status /\ runs'[r].set = runs[r].set
  <2>1. CASE DagRow(t)
    <3>1. PICK d : runs' = [runs EXCEPT ![call[t].run].dag = d]
      BY <2>1 DEF DagRow
    <3> QED BY <1>0, <3>1 DEF RunRow
  <2>2. CASE ~DagRow(t)
    <3>1. UNCHANGED runs BY <2>2 DEF Wait, Check, Set, Record, Fail, Begin, db
    <3> QED BY <3>1
  <2> QED BY <2>1, <2>2
<1>4. ASSUME Acts(t), call[t].op \notin Switch, call'[t].op \notin Switch
      PROVE  \A u \in Thread : /\ call'[u].op \in Switch <=> call[u].op \in Switch
                               /\ call[u].op \in Switch => call'[u] = call[u]
  BY <1>4 DEF Acts
<1>5. \A u \in Thread : /\ call'[u].op \in Switch <=> call[u].op \in Switch
                        /\ call[u].op \in Switch => call'[u] = call[u]
  <2>1. CASE Wait(t) BY <2>1 DEF Wait
  <2>2. CASE Check(t) \/ Set(t) \/ DagRow(t) \/ Record(t)
    <3>1. call[t].op \notin Switch
      BY <1>0, <2>2 DEF Check, Set, DagRow, Record, At, Places, Placed, OfSwitch,
         Transaction, Locked
    <3>2. Acts(t) /\ call'[t].op \in {call[t].op, None}
      BY <1>0, <2>2, OtherGoes DEF Moves, Leaves, Idle
    <3> QED BY <1>4, <3>1, <3>2 DEF Switch, None
  <2>3. CASE Fail(t) /\ call[t].op \notin Switch
    <3>1. Leaves(t) BY <1>0, <2>3, OtherGoes
    <3> QED BY <1>4, <2>3, <3>1 DEF Leaves, Idle, Switch, None
  <2>4. ASSUME NEW op \in Op \ {None}, op \notin Switch, Begin(t, op)
        PROVE  /\ Acts(t) /\ call[t].op \notin Switch /\ call'[t].op \notin Switch
    <3>1. Begins(t, op) BY <1>0, <2>4, BeginGoes
    <3>2. call[t].op = None BY <2>4 DEF Begin
    <3> QED BY <2>4, <3>1, <3>2 DEF Begins, Acts, Switch, None
  <2> QED BY <1>4, <2>1, <2>2, <2>3, <2>4
<1> QED BY <1>0, <1>1, <1>2, <1>3, <1>5, QuietKeeps

LEMMA IdleKeep ==
  ASSUME ResumeInv, (\E r \in Run : DagProgress(r)) \/ UNCHANGED vars
  PROVE  SwitchInv'
<1>0. /\ SwitchInv /\ runs \in [Run -> RunRow] /\ mem.run \in Run
      /\ \A u \in Thread : call[u].run \in Run
  BY Typed DEF ResumeInv, Call
<1>1. UNCHANGED <<mem, up, call, mixed>> BY DEF DagProgress, vars
<1>2. \A r \in Run : runs'[r].status = runs[r].status /\ runs'[r].set = runs[r].set
  <2>1. ASSUME NEW r \in Run, DagProgress(r)
        PROVE  \A q \in Run : runs'[q].status = runs[q].status /\ runs'[q].set = runs[q].set
    <3>1. PICK s : runs' = [runs EXCEPT ![r].dag = s] BY <2>1 DEF DagProgress
    <3> QED BY <1>0, <3>1 DEF RunRow
  <2> QED BY <2>1 DEF vars, db
<1> QED BY <1>0, <1>1, <1>2, QuietKeeps

-----------------------------------------------------------------------------
(* Runs stay in order.                                                     *)

UsedSame == \A r \in Run : Used(r)' <=> Used(r)
UsedMore(n) == \A r \in Run : Used(r)' <=> Used(r) \/ r = n

LEMMA UsedKept ==
  ASSUME ResumeInv, NEW t \in Thread, t \in Switching, Step(t) \/ Fail(t)
  PROVE  UsedSame \/ (Insert(t) /\ UsedMore(Least(Unused)))
<1>0. runs \in [Run -> RunRow] /\ call[t].run \in Run BY Typed DEF ResumeInv, Call
<1>1. CASE End(t)
  <2>1. Used(call[t].run)
    BY <1>1 DEF End, At, ResumeInv, SwitchInv, RunsInOrder
  <2>2. PICK s \in {"gone", "reset", "completed"} :
          runs' = [runs EXCEPT ![call[t].run].status = s]
    BY <1>1 DEF End
  <2> QED BY <1>0, <2>1, <2>2 DEF UsedSame, Used, RunRow
<1>2. CASE Insert(t)
  <2>1. PICK row : /\ row.status = "running"
                   /\ runs' = [runs EXCEPT ![Least(Unused)] = row]
    BY <1>2 DEF Insert
  <2> QED BY <1>0, <1>2, <2>1 DEF UsedMore, Used
<1>3. CASE Delete(t)
  BY <1>0, <1>3 DEF Delete, UsedSame, Used, Unused
<1>4. CASE DagRow(t)
  <2>1. PICK d : runs' = [runs EXCEPT ![call[t].run].dag = d] BY <1>4 DEF DagRow
  <2> QED BY <1>0, <2>1 DEF UsedSame, Used, RunRow
<1>5. ASSUME Wait(t) \/ Active(t) \/ Fresh(t) \/ Adopt(t) \/ Connect(t) \/ Lock(t)
               \/ Snapshot(t) \/ Check(t) \/ Set(t) \/ Record(t) \/ Fail(t)
      PROVE  UNCHANGED runs
  BY <1>5 DEF Wait, Active, Fresh, Adopt, Connect, Lock, Snapshot, Check, Set, Record,
     Fail, db
<1> QED BY <1>1, <1>2, <1>3, <1>4, <1>5 DEF Step, UsedSame, Used

\* Runs are left in order where the process and its switches know used ones.
LEMMA OrderOn ==
  ASSUME RunsInOrder, runs \in [Run -> RunRow],
         \/ UsedSame
         \/ Unused # {} /\ UsedMore(Least(Unused)),
         mem'.run \in Run, runs'[mem'.run].status # "none",
         \A u \in Thread : call'[u].op \in Switch /\ call'[u].pc \in {"end", "adopt"} =>
           runs'[call'[u].run].status # "none"
  PROVE  RunsInOrder'
<1>1. \A r, s \in Run : Used(s) /\ r <= s => Used(r)
  BY DEF RunsInOrder
<1>2. ASSUME NEW r \in Run, NEW s \in Run, Used(s)', r <= s PROVE Used(r)'
  <2>1. CASE UsedSame BY <1>1, <1>2, <2>1 DEF UsedSame
  <2>2. CASE Unused # {} /\ UsedMore(Least(Unused))
    <3>1. PICK n \in Run : n = Least(Unused) /\ \A q \in Unused : n <= q
      BY <2>2, LeastIs DEF Unused
    <3>2. Used(r) \/ n <= r BY <3>1 DEF Unused, Used
    <3>3. r \in Nat /\ s \in Nat /\ n \in Nat BY DemoAssumption DEF Run
    <3>4. CASE Used(s) BY <1>1, <1>2, <2>2, <3>4 DEF UsedMore
    <3>5. CASE s = n
      <4>1. Used(r) \/ r = n BY <1>2, <3>2, <3>3, <3>5
      <4> QED BY <2>2, <3>1, <4>1 DEF UsedMore
    <3> QED BY <1>2, <2>2, <3>1, <3>4, <3>5 DEF UsedMore
  <2> QED BY <2>1, <2>2
<1>3. Used(mem.run)' BY DEF Used
<1>4. \A u \in Switching' : call'[u].pc \in {"end", "adopt"} =>
        runs'[call'[u].run].status # "none"
  BY DEF Switching
<1> QED BY <1>2, <1>3, <1>4 DEF RunsInOrder, Used

LEMMA OrderKept ==
  ASSUME ResumeInv, NEW t \in Thread, t \in Switching, Step(t) \/ Fail(t), ~Wait(t)
  PROVE  RunsInOrder'
<1>0. /\ TypeOK /\ RunsInOrder /\ runs \in [Run -> RunRow] /\ call \in [Thread -> Call]
      /\ mem \in [set : Settings, run : Run] /\ mem.run \in Run
      /\ \A u \in Thread : call[u].run \in Run
  BY Typed DEF ResumeInv, SwitchInv, Call
<1>1. UsedSame \/ (Insert(t) /\ UsedMore(Least(Unused))) BY UsedKept
<1>2. \A r \in Run : Used(r) => runs'[r].status # "none"
  BY <1>1 DEF UsedSame, UsedMore, Used
<1>3. UsedSame \/ (Unused # {} /\ UsedMore(Least(Unused)))
  BY <1>1 DEF Insert
<1>4. mem'.run \in Run /\ runs'[mem'.run].status # "none"
  <2>1. CASE Adopt(t)
    <3>1. mem'.run = call[t].run BY <1>0, <2>1 DEF Adopt
    <3>2. Used(call[t].run) BY <1>0, <2>1 DEF Adopt, At, RunsInOrder
    <3> QED BY <1>0, <1>2, <3>1, <3>2
  <2>2. CASE ~Adopt(t)
    <3>1. Fresh(t) \/ Set(t) => mem'.run = mem.run BY <1>0 DEF Fresh, Set
    <3>2. Fresh(t) \/ Set(t) \/ UNCHANGED mem
      BY <2>2 DEF Step, Wait, Active, End, Insert, Connect, Lock, Snapshot,
         Delete, Check, DagRow, Record, Fail
    <3>3. mem'.run = mem.run BY <3>1, <3>2
    <3> QED BY <1>0, <1>2, <3>3 DEF RunsInOrder
  <2> QED BY <2>1, <2>2
<1>5. ASSUME Acts(t),
             call'[t].op \in Switch /\ call'[t].pc \in {"end", "adopt"} =>
               runs'[call'[t].run].status # "none"
      PROVE  RunsInOrder'
  <2>1. \A u \in Thread : call'[u].op \in Switch /\ call'[u].pc \in {"end", "adopt"} =>
          runs'[call'[u].run].status # "none"
    BY <1>0, <1>2, <1>5 DEF Acts, RunsInOrder, Switching
  <2> QED BY <1>0, <1>3, <1>4, <2>1, OrderOn
<1>6. ASSUME Leaves(t) PROVE RunsInOrder'
  BY <1>5, <1>6 DEF Leaves, Idle, Switch, None
<1>7. ASSUME NEW p, Moves(t, p), p \notin {"end", "adopt"} PROVE RunsInOrder'
  BY <1>5, <1>7 DEF Moves
<1>8. CASE Active(t) /\ ~Moves(t, "fresh")
  <2>1. Moves(t, "end") /\ Open # {} /\ call'[t].run = Latest(Open)
    BY <1>0, <1>8, SwitchGoes
  <2>2. Latest(Open) \in Open BY <2>1, LatestIs DEF Open
  <2>3. runs'[call'[t].run].status # "none" BY <1>2, <2>1, <2>2 DEF Open, Used
  <2> QED BY <1>5, <2>1, <2>3 DEF Moves
<1>9. CASE Insert(t)
  <2>1. Moves(t, "adopt") /\ Unused # {} /\ call'[t].run = Least(Unused)
    BY <1>0, <1>9, SwitchGoes
  <2>2. Least(Unused) \in Unused BY <2>1, LeastIs DEF Unused
  <2>3. PICK n \in Run : n = Least(Unused) BY <2>2 DEF Unused
  <2>4. UsedMore(n)
    <3>1. runs'[n].status = "running" BY <1>0, <1>9, <2>3 DEF Insert
    <3>2. ~UsedSame BY <2>2, <2>3, <3>1 DEF UsedSame, Used, Unused
    <3> QED BY <1>1, <2>3, <3>2
  <2>5. runs'[call'[t].run].status # "none" BY <2>1, <2>3, <2>4 DEF UsedMore, Used
  <2> QED BY <1>5, <2>1, <2>5 DEF Moves
<1>10. CASE End(t) \/ Fresh(t) \/ Connect(t) \/ Lock(t) \/ Snapshot(t) \/ Delete(t)
  BY <1>0, <1>6, <1>7, <1>10, SwitchGoes
<1>11. CASE Adopt(t) \/ Check(t) \/ Set(t) \/ DagRow(t) \/ Record(t) \/ Fail(t)
  BY <1>0, <1>6, <1>7, <1>11, OtherGoes
<1> QED BY <1>7, <1>8, <1>9, <1>10, <1>11 DEF Step

-----------------------------------------------------------------------------
(* A switch that has been overlapped.                                      *)

LEMMA SwitchesOnly ==
  ASSUME ResumeInv, NEW t \in Thread, t \in Switching, Step(t) \/ Fail(t), ~Wait(t)
  PROVE  /\ \/ \E p : Moves(t, p)
            \/ Leaves(t) /\ (Adopt(t) \/ (Delete(t) /\ Aborted) \/ Fail(t))
         /\ ~(Check(t) \/ Set(t) \/ DagRow(t) \/ Record(t))
         /\ UNCHANGED up
         /\ mixed' = IF Adopt(t) /\ call[t].alone
                     THEN IF call[t].op = "reset" THEN {} ELSE mixed \ {"mem"}
                     ELSE IF Leaves(t) /\ ~Adopt(t) THEN mixed \cup {"mem"} ELSE mixed
<1>0. TypeOK /\ Placed(call[t]) /\ call[t].op \in Switch
  BY DEF ResumeInv, Places, Switching
<1>1. ~(Check(t) \/ Set(t) \/ DagRow(t) \/ Record(t))
  BY <1>0 DEF Check, Set, DagRow, Record, At, Placed, OfSwitch, Transaction, Locked
<1>2. ASSUME NEW p, Moves(t, p) PROVE ~Leaves(t)
  BY <1>0, <1>2 DEF Moves, Leaves, Idle, Switch, None
<1>3. CASE Adopt(t)
  <2>1. Leaves(t) BY <1>0, <1>3, OtherGoes
  <2>2. UNCHANGED up BY <1>3 DEF Adopt
  <2>3. mixed' = IF call[t].alone
                 THEN IF call[t].op = "reset" THEN {} ELSE mixed \ {"mem"}
                 ELSE mixed
    BY <1>3 DEF Adopt
  <2> QED BY <1>1, <1>3, <2>1, <2>2, <2>3
<1>4. CASE Fail(t)
  <2>1. Leaves(t) BY <1>0, <1>4, OtherGoes
  <2>2. ~Adopt(t)
    <3>1. faults' # faults BY <1>4 DEF Fail, ResumeInv, TypeOK
    <3> QED BY <3>1 DEF Adopt
  <2> QED BY <1>0, <1>1, <1>4, <2>1, <2>2 DEF Fail
<1>5. CASE Delete(t)
  <2>1. (Aborted /\ Leaves(t)) \/ (~Aborted /\ Moves(t, "fresh"))
    BY <1>0, <1>5, SwitchGoes
  <2>2. ~Adopt(t) BY <1>5 DEF Adopt, Delete, At
  <2> QED BY <1>1, <1>2, <1>5, <2>1, <2>2 DEF Delete
<1>6. CASE Active(t) \/ End(t) \/ Fresh(t) \/ Insert(t) \/ Connect(t) \/ Lock(t)
             \/ Snapshot(t)
  <2>1. \E p : Moves(t, p) BY <1>0, <1>6, SwitchGoes
  <2>2. ~Adopt(t)
    BY <1>6 DEF Adopt, Active, End, Fresh, Insert, Connect, Lock, Snapshot, At
  <2>3. UNCHANGED <<up, mixed>>
    BY <1>6 DEF Active, End, Fresh, Insert, Connect, Lock, Snapshot
  <2> QED BY <1>1, <1>2, <2>1, <2>2, <2>3
<1> QED BY <1>1, <1>3, <1>4, <1>5, <1>6 DEF Step

LEMMA OverlapsKept ==
  ASSUME ResumeInv, NEW t \in Thread, t \in Switching, Step(t) \/ Fail(t), ~Wait(t)
  PROVE  Overlaps'
<1>0. Overlaps BY DEF ResumeInv, SwitchInv
<1>1. (\E p : Moves(t, p)) \/ Leaves(t)
  BY SwitchesOnly
<1>2. /\ \A u \in Thread : u # t => call'[u] = call[u]
      /\ call'[t].op \in Switch =>
           call'[t].alone = call[t].alone
  BY <1>1 DEF Moves, Leaves, Acts, Idle, Switch, None
<1>3. Switching' \subseteq Switching BY <1>2 DEF Switching
<1>4. \A u \in Switching' : call'[u].alone = call[u].alone
  BY <1>2 DEF Switching
<1>5. up' /\ up BY <1>0, SwitchesOnly DEF Overlaps, ResumeInv, TypeOK
<1>6. ASSUME NEW u \in Switching', ~call'[u].alone PROVE mixed' = {"mem", "db"}
  <2>1. ~call[u].alone /\ u \in Switching BY <1>3, <1>4, <1>6
  <2>2. mixed = {"mem", "db"} BY <1>0, <2>1 DEF Overlaps
  <2>3. ~call[t].alone
    BY <1>0, <2>1 DEF Overlaps
  <2> QED BY <2>2, <2>3, SwitchesOnly
<1>7. ASSUME NEW u \in Switching', call'[u].alone PROVE Switching' = {u}
  BY <1>0, <1>3, <1>4, <1>7 DEF Overlaps
<1> QED BY <1>5, <1>6, <1>7 DEF Overlaps

LEMMA MixedKeeps ==
  ASSUME ResumeInv, NEW t \in Thread, t \in Switching, Step(t) \/ Fail(t), ~Wait(t),
         ~call[t].alone
  PROVE  SwitchInv'
<1>0. Overlaps BY DEF ResumeInv, SwitchInv
<1>1. mixed' = {"mem", "db"}
  <2>1. mixed = {"mem", "db"} BY <1>0 DEF Overlaps
  <2> QED BY <2>1, SwitchesOnly
<1>2. /\ \A u \in Thread : u # t => call'[u] = call[u]
      /\ call'[t].op \in Switch => ~call'[t].alone
  BY SwitchesOnly DEF Moves, Leaves, Acts, Idle, Switch, None
<1>3. \A u \in Switching : ~call[u].alone BY <1>0 DEF Overlaps
<1>4. \A u \in Switching' : ~call'[u].alone BY <1>2, <1>3 DEF Switching
<1>5. Prepared' BY <1>4 DEF Prepared
<1>6. OneOpen' BY <1>1, <1>4 DEF OneOpen
<1>7. MemResumes' BY <1>1 DEF MemResumes
<1> QED BY <1>5, <1>6, <1>7, OverlapsKept, OrderKept DEF SwitchInv

-----------------------------------------------------------------------------
(* A switch on its own.                                                    *)

\* It goes on, having prepared what it must have from where it stands now.
LEMMA AloneOn ==
  ASSUME ResumeInv, NEW t \in Thread, Switching = {t}, call[t].alone,
         NEW p, Moves(t, p), UNCHANGED <<up, mixed>>, RunsInOrder',
         "db" \notin mixed => \A r, s \in Open' : r = s,
         p = "insert" => call'[t].set.profile = mem'.set.profile,
         p = "adopt" => /\ call'[t].run \in Open'
                        /\ \A r \in Open' : r <= call'[t].run
                        /\ runs'[call'[t].run].set.profile = mem'.set.profile,
         "db" \notin mixed /\ call[t].op = "mode" /\ p = "end" =>
           Open' \subseteq {call'[t].run},
         Clears(t) /\ p \in {"fresh", "insert"} => Open' = {},
         Clears(t) /\ p = "adopt" => Open' = {call'[t].run}
  PROVE  SwitchInv'
<1>1. /\ \A u \in Thread : u # t => call'[u] = call[u]
      /\ call'[t].op = call[t].op /\ call'[t].alone /\ call'[t].pc = p
  BY DEF Moves, Acts
<1>2. Switching' = {t} BY <1>1 DEF Switching
<1>3. Overlaps'
  BY <1>1, <1>2 DEF Overlaps, ResumeInv, SwitchInv
<1>4. Prepared' BY <1>1, <1>2 DEF Prepared
<1>5. OneOpen' BY <1>1, <1>2 DEF OneOpen, Clears
<1>6. MemResumes' BY <1>2 DEF MemResumes
<1> QED BY <1>3, <1>4, <1>5, <1>6 DEF SwitchInv

\* It leaves: its run adopted, or what it left noted.
LEMMA AloneLeaves ==
  ASSUME ResumeInv, NEW t \in Thread, Switching = {t}, call[t].alone,
         Step(t) \/ Fail(t), ~Wait(t), Leaves(t)
  PROVE  SwitchInv'
<1>0. /\ Overlaps /\ Prepared /\ OneOpen /\ runs \in [Run -> RunRow] /\ TypeOK
      /\ mem \in [set : Settings, run : Run]
  BY Typed DEF ResumeInv, SwitchInv
<1>1. Switching' = {}
  BY DEF Leaves, Acts, Idle, Switching, Switch, None
<1>2. /\ Adopt(t) \/ (Delete(t) /\ Aborted) \/ Fail(t)
      /\ UNCHANGED up
      /\ ~Adopt(t) => mixed' = mixed \cup {"mem"}
  <2>1. ASSUME NEW p, Moves(t, p) PROVE FALSE
    BY <2>1 DEF Moves, Leaves, Idle, Switching, Switch, None
  <2> QED BY <2>1, SwitchesOnly
<1>3. UNCHANGED runs BY <1>2 DEF Adopt, Delete, Fail, db
<1>4. Open' = Open BY <1>3 DEF Open
<1>5. Overlaps' BY <1>1 DEF Overlaps
<1>6. Prepared' BY <1>1 DEF Prepared
<1>7. CASE ~Adopt(t)
  <2>1. OneOpen' BY <1>0, <1>1, <1>2, <1>4, <1>7 DEF OneOpen
  <2>2. MemResumes' BY <1>2, <1>7 DEF MemResumes
  <2> QED BY <1>5, <1>6, <2>1, <2>2, OrderKept DEF SwitchInv
<1>8. CASE Adopt(t)
  <2>1. /\ call[t].pc = "adopt" /\ t \in Switching
        /\ mem'.run = call[t].run /\ mem'.set = mem.set
        /\ mixed' = IF call[t].op = "reset" THEN {} ELSE mixed \ {"mem"}
    BY <1>0, <1>8 DEF Adopt, At
  <2>2. /\ call[t].run \in Open /\ \A r \in Open : r <= call[t].run
        /\ runs[call[t].run].set.profile = mem.set.profile
    BY <1>0, <2>1 DEF Prepared
  <2>3. MemResumes' BY <1>3, <1>4, <2>1, <2>2 DEF MemResumes
  <2>4. "db" \notin mixed' => \A r, s \in Open : r = s
    <3>1. CASE call[t].op = "reset"
      <4>1. Open = {call[t].run} BY <1>0, <2>1, <3>1 DEF OneOpen, Clears
      <4> QED BY <4>1
    <3>2. CASE call[t].op # "reset" BY <1>0, <2>1, <3>2 DEF OneOpen
    <3> QED BY <3>1, <3>2
  <2>5. OneOpen' BY <1>1, <1>4, <2>4 DEF OneOpen
  <2> QED BY <1>5, <1>6, <2>3, <2>5, OrderKept DEF SwitchInv
<1> QED BY <1>7, <1>8

LEMMA AloneGoes ==
  ASSUME ResumeInv, NEW t \in Thread, Switching = {t}, call[t].alone,
         Step(t) \/ Fail(t), ~Wait(t), ~Leaves(t)
  PROVE  SwitchInv'
<1>0. /\ TypeOK /\ Placed(call[t]) /\ Prepared /\ OneOpen /\ RunsInOrder
      /\ t \in Switching /\ call[t].op \in Switch
      /\ runs \in [Run -> RunRow] /\ call[t].run \in Run
      /\ mem \in [set : Settings, run : Run]
  BY Typed DEF ResumeInv, SwitchInv, Places, Call, Switching
<1>1. UNCHANGED <<up, mixed>> /\ ~Adopt(t) /\ ~Fail(t) /\ ~(Delete(t) /\ Aborted)
  <2>1. Adopt(t) \/ Fail(t) => Leaves(t) BY <1>0, OtherGoes
  <2>2. Delete(t) /\ Aborted => Leaves(t) BY <1>0, SwitchGoes
  <2> QED BY <1>0, <2>1, <2>2, SwitchesOnly
<1>2. RunsInOrder' BY <1>0, OrderKept
<1>3. "db" \notin mixed => \A r, s \in Open : r = s BY <1>0 DEF OneOpen
<1>4. CASE Active(t)
  <2>1. call[t].op = "mode" BY <1>0, <1>4 DEF Active, At, Placed
  <2>2. Open' = Open BY <1>4 DEF Active, Open
  <2>3. CASE Moves(t, "fresh") /\ Open = {}
    BY <1>1, <1>2, <1>3, <2>2, <2>3, AloneOn
  <2>4. CASE Moves(t, "end") /\ Open # {} /\ call'[t].run = Latest(Open)
    <3>1. Latest(Open) \in Open BY <2>4, LatestIs DEF Open
    <3>2. "db" \notin mixed => Open' \subseteq {call'[t].run}
      BY <1>3, <2>2, <2>4, <3>1
    <3> QED BY <1>1, <1>2, <1>3, <2>2, <2>4, <3>2, AloneOn
  <2> QED BY <1>0, <1>4, <2>3, <2>4, SwitchGoes
<1>5. CASE End(t)
  <2>1. PICK e \in {"gone", "reset", "completed"} :
          runs' = [runs EXCEPT ![call[t].run].status = e]
    BY <1>5 DEF End
  <2>2. Open' = Open \ {call[t].run}
    BY <1>0, <2>1 DEF Open, RunRow
  <2>3. call[t].pc = "end" BY <1>5 DEF End, At
  <2>4. Moves(t, IF call[t].op = "reset" THEN "connect" ELSE "fresh")
    BY <1>0, <1>5, SwitchGoes
  <2>5. "db" \notin mixed => \A r, s \in Open' : r = s BY <1>3, <2>2
  <2>6. CASE call[t].op = "reset"
    <3>1. Moves(t, "connect") BY <2>4, <2>6
    <3> QED BY <1>1, <1>2, <2>5, <3>1, AloneOn
  <2>7. CASE call[t].op = "mode"
    <3>1. Moves(t, "fresh") BY <2>4, <2>7
    <3>2. Clears(t) => Open' = {} BY <1>0, <2>2, <2>3, <2>7 DEF OneOpen, Clears
    <3> QED BY <1>1, <1>2, <2>5, <3>1, <3>2, AloneOn
  <2> QED BY <1>0, <2>6, <2>7 DEF Switch
<1>6. CASE Fresh(t)
  <2>1. Moves(t, "insert") /\ call'[t].set = mem'.set BY <1>0, <1>6, SwitchGoes
  <2>2. Open' = Open /\ call[t].pc = "fresh" BY <1>6 DEF Fresh, db, Open, At
  <2>3. Clears(t) => Open' = {} BY <1>0, <2>2 DEF OneOpen
  <2> QED BY <1>1, <1>2, <1>3, <2>1, <2>2, <2>3, AloneOn
<1>7. CASE Insert(t)
  <2>1. Moves(t, "adopt") /\ Unused # {} /\ call'[t].run = Least(Unused)
    BY <1>0, <1>7, SwitchGoes
  <2>2. PICK n : n = Least(Unused) OBVIOUS
  <2>3. n \in Unused /\ n \in Run BY <2>1, <2>2, LeastIs DEF Unused
  <2>4. /\ runs' = [runs EXCEPT ![n] = [status |-> "running", set |-> call[t].set,
                                        dag |-> "none"]]
        /\ UNCHANGED mem /\ call[t].pc = "insert"
    BY <1>7, <2>2 DEF Insert, At
  <2>5. Open' = Open \cup {n} BY <1>0, <2>3, <2>4 DEF Open
  <2>6. runs'[n].set.profile = mem'.set.profile
    <3>1. call[t].set.profile = mem.set.profile BY <1>0, <2>4 DEF Prepared
    <3> QED BY <1>0, <2>3, <2>4, <3>1
  <2>7. \A r \in Open' : r <= n
    <3>1. ASSUME NEW r \in Open PROVE r <= n
      <4>1. ~(n <= r)
        BY <1>0, <2>3, <3>1 DEF RunsInOrder, Used, Open, Unused
      <4> QED BY <2>3, <3>1, <4>1, DemoAssumption DEF Run, Open
    <3> QED BY <2>3, <2>5, <3>1, DemoAssumption DEF Run
  <2>8. Clears(t) => Open' = {n} BY <1>0, <2>4, <2>5 DEF OneOpen
  <2>9. "db" \notin mixed => \A r, s \in Open' : r = s BY <2>8 DEF Clears
  <2> QED BY <1>1, <1>2, <2>1, <2>2, <2>5, <2>6, <2>7, <2>8, <2>9, AloneOn
<1>8. CASE Connect(t) \/ Lock(t) \/ Snapshot(t)
  <2>1. Moves(t, "lock") \/ Moves(t, "snapshot") \/ Moves(t, "delete")
    BY <1>0, <1>8, SwitchGoes
  <2>2. PICK p \in {"lock", "snapshot", "delete"} : Moves(t, p) BY <2>1
  <2>3. Open' = Open BY <1>8 DEF Connect, Lock, Snapshot, Open
  <2> QED BY <1>1, <1>2, <1>3, <2>2, <2>3, AloneOn
<1>9. CASE Delete(t)
  <2>1. ~Aborted /\ Moves(t, "fresh") BY <1>0, <1>9, SwitchGoes
  <2>2. Open' = {} BY <1>0, <1>9, <2>1 DEF Delete, Open, Unused
  <2> QED BY <1>1, <1>2, <2>1, <2>2, AloneOn
<1>10. ~(Check(t) \/ Set(t) \/ DagRow(t) \/ Record(t)) BY <1>0, SwitchesOnly
<1> QED BY <1>1, <1>4, <1>5, <1>6, <1>7, <1>8, <1>9, <1>10 DEF Step

LEMMA SwitchKeeps ==
  ASSUME ResumeInv, NEW t \in Thread, t \in Switching, Step(t) \/ Fail(t), ~Wait(t)
  PROVE  SwitchInv'
<1>1. CASE ~call[t].alone BY <1>1, MixedKeeps
<1>2. CASE call[t].alone
  <2>1. Switching = {t} BY <1>2 DEF ResumeInv, SwitchInv, Overlaps
  <2> QED BY <1>2, <2>1, AloneLeaves, AloneGoes
<1> QED BY <1>1, <1>2

-----------------------------------------------------------------------------
(* A switch begins; the process crashes and starts again.                  *)

LEMMA SwitchBegins ==
  ASSUME ResumeInv, NEW t \in Thread, NEW op \in Switch, Begin(t, op)
  PROVE  SwitchInv'
<1>0. /\ TypeOK /\ Overlaps /\ RunsInOrder /\ OneOpen /\ op \in Op \ {None}
      /\ runs \in [Run -> RunRow] /\ mem.run \in Run
      /\ \A u \in Thread : call[u].run \in Run
  BY Typed DEF ResumeInv, SwitchInv, Call, Op, Switch, None
<1>1. /\ UNCHANGED <<mem, up, runs>> /\ up /\ call[t].op = None /\ Begins(t, op)
  BY <1>0, BeginGoes DEF Begin, db
<1>2. Open' = Open BY <1>1 DEF Open
<1>3. UsedSame BY <1>1 DEF UsedSame, Used
<1>4. RunsInOrder'
  <2>1. mem'.run \in Run /\ runs'[mem'.run].status # "none"
    BY <1>0, <1>1 DEF RunsInOrder, Used
  <2>2. ASSUME NEW u \in Thread, call'[u].op \in Switch, call'[u].pc \in {"end", "adopt"}
        PROVE  runs'[call'[u].run].status # "none"
    <3>1. CASE u = t
      <4>1. call'[t].run = mem.run BY <1>1, <2>2, <3>1 DEF Begins, Switch
      <4> QED BY <1>1, <2>1, <3>1, <4>1
    <3>2. CASE u # t
      <4>1. /\ call'[u].op = call[u].op /\ call'[u].pc = call[u].pc
            /\ call'[u].run = call[u].run
        BY <1>1, <3>2 DEF Begins
      <4>2. Used(call[u].run) BY <1>0, <2>2, <4>1 DEF RunsInOrder, Switching
      <4> QED BY <1>1, <4>1, <4>2 DEF Used
    <3> QED BY <3>1, <3>2
  <2> QED BY <1>0, <1>3, <2>1, <2>2, OrderOn
<1>5. CASE Switching = {}
  <2>1. /\ call'[t].alone /\ UNCHANGED mixed /\ call'[t].op = op
        /\ call'[t].pc \in {"active", "end"} /\ (op = "mode" => call'[t].pc = "active")
        /\ \A u \in Thread : u # t => call'[u] = call[u]
    BY <1>1, <1>5 DEF Begins, Switch
  <2>2. Switching' = {t} BY <1>5, <2>1 DEF Switching
  <2>3. Overlaps' BY <1>1, <2>1, <2>2 DEF Overlaps
  <2>4. Prepared' BY <2>1, <2>2 DEF Prepared
  <2>5. OneOpen' BY <1>0, <1>2, <2>1, <2>2 DEF OneOpen
  <2>6. MemResumes' BY <2>2 DEF MemResumes
  <2> QED BY <1>4, <2>3, <2>4, <2>5, <2>6 DEF SwitchInv
<1>6. CASE Switching # {}
  <2>1. /\ \A u \in Thread : u \in Switching' => ~call'[u].alone
        /\ mixed' = {"mem", "db"}
    BY <1>1, <1>6 DEF Begins
  <2>2. \A u \in Switching' : ~call'[u].alone BY <2>1 DEF Switching
  <2>3. Overlaps' BY <1>1, <2>1, <2>2 DEF Overlaps
  <2>4. Prepared' BY <2>2 DEF Prepared
  <2>5. OneOpen' BY <2>1, <2>2 DEF OneOpen
  <2>6. MemResumes' BY <2>1 DEF MemResumes
  <2> QED BY <1>4, <2>3, <2>4, <2>5, <2>6 DEF SwitchInv
<1> QED BY <1>5, <1>6

LEMMA CrashKeeps ==
  ASSUME ResumeInv, Crash
  PROVE  SwitchInv'
<1>0. RunsInOrder /\ OneOpen /\ runs \in [Run -> RunRow] /\ mem.run \in Run
  BY Typed DEF ResumeInv, SwitchInv
<1>1. /\ UNCHANGED <<mem, runs>> /\ up' = FALSE /\ mixed' = mixed \ {"mem"}
      /\ \A t \in Thread : call'[t].op = None
  BY DEF Crash, Idle
<1>2. Switching' = {} BY <1>1 DEF Switching, Switch, None
<1>3. Open' = Open BY <1>1 DEF Open
<1>4. RunsInOrder' BY <1>0, <1>1, <1>2 DEF RunsInOrder, Used
<1>5. OneOpen' BY <1>0, <1>1, <1>2, <1>3 DEF OneOpen
<1> QED BY <1>1, <1>2, <1>4, <1>5 DEF SwitchInv, Overlaps, Prepared, MemResumes

LEMMA BootKeeps ==
  ASSUME ResumeInv, Boot
  PROVE  SwitchInv'
<1>0. /\ RunsInOrder /\ OneOpen /\ Overlaps /\ runs \in [Run -> RunRow]
  BY Typed DEF ResumeInv, SwitchInv
<1>1. UNCHANGED <<call, mixed>> /\ up' = TRUE /\ Switching = {}
  BY <1>0 DEF Boot, Overlaps
<1>2. Switching' = {} BY <1>1 DEF Switching
<1>3. Overlaps' /\ Prepared' BY <1>1, <1>2 DEF Overlaps, Prepared
<1>4. \A u \in Thread : call'[u].op \notin Switch BY <1>2 DEF Switching
<1>5. CASE Open # {}
  <2>1. PICK n \in Run : n = Latest(Open) /\ n \in Open /\ \A r \in Open : r <= n
    BY <1>5, LatestIs DEF Open
  <2>2. UNCHANGED runs /\ mem' = [set |-> runs[n].set, run |-> n]
    BY <1>5, <2>1 DEF Boot
  <2>3. Open' = Open /\ UsedSame BY <2>2 DEF Open, UsedSame, Used
  <2>4. RunsInOrder'
    <3>1. mem'.run \in Run /\ runs'[mem'.run].status # "none" BY <2>1, <2>2 DEF Open
    <3> QED BY <1>0, <1>4, <2>3, <3>1, OrderOn
  <2>5. OneOpen' BY <1>0, <1>1, <1>2, <2>3 DEF OneOpen
  <2>6. MemResumes' BY <2>1, <2>2, <2>3 DEF MemResumes
  <2> QED BY <1>3, <2>4, <2>5, <2>6 DEF SwitchInv
<1>6. CASE Open = {}
  <2>1. Unused # {} /\ \A s : s = Least(Unused) => 
          /\ runs' = [runs EXCEPT ![s] = [status |-> "running", set |-> Default,
                                          dag |-> "none"]]
          /\ mem' = [set |-> Default, run |-> s]
    BY <1>6 DEF Boot
  <2>2. PICK n \in Run : n = Least(Unused) BY <2>1, LeastIs DEF Unused
  <2>3. /\ runs' = [runs EXCEPT ![n] = [status |-> "running", set |-> Default,
                                        dag |-> "none"]]
        /\ mem' = [set |-> Default, run |-> n]
    BY <2>1, <2>2
  <2>4. Open' = {n} BY <1>0, <1>6, <2>3 DEF Open
  <2>5. UsedMore(Least(Unused)) BY <1>0, <2>2, <2>3 DEF UsedMore, Used
  <2>6. RunsInOrder'
    <3>1. mem'.run \in Run /\ runs'[mem'.run].status # "none" BY <1>0, <2>2, <2>3
    <3> QED BY <1>0, <1>4, <2>1, <2>5, <3>1, OrderOn
  <2>7. OneOpen' BY <1>2, <2>4 DEF OneOpen
  <2>8. MemResumes'
    BY <1>0, <2>2, <2>3, <2>4, DemoAssumption DEF MemResumes, Run
  <2> QED BY <1>3, <2>6, <2>7, <2>8 DEF SwitchInv
<1> QED BY <1>5, <1>6

-----------------------------------------------------------------------------
LEMMA ResumeKept ==
  ASSUME ResumeInv, [Next]_vars
  PROVE  ResumeInv'
<1>0. TypeOK /\ Places BY DEF ResumeInv
<1>1. TypeOK'
  <2>1. OtherTypes' /\ call' \in [Thread -> Call] /\ runs' \in [Run -> RunRow]
    BY <1>0, CallsTyped, RunsTyped, OthersTyped
  <2> QED BY <2>1 DEF TypeOK, OtherTypes, Call, RunRow
<1>2. Places' BY <1>0, PlacesKept
<1>3. ASSUME NEW t \in Thread, Step(t) \/ Fail(t) PROVE SwitchInv'
  <2>1. CASE t \in Switching /\ ~Wait(t) BY <1>3, <2>1, SwitchKeeps
  <2>2. CASE Wait(t) BY <2>2, OthersKeep
  <2>3. CASE t \notin Switching /\ ~Wait(t)
    <3>1. call[t].op \notin Switch BY <2>3 DEF Switching
    <3>2. ~(Active(t) \/ End(t) \/ Fresh(t) \/ Insert(t) \/ Adopt(t) \/ Connect(t)
              \/ Lock(t) \/ Snapshot(t) \/ Delete(t))
      BY <1>0, <3>1 DEF Active, End, Fresh, Insert, Adopt, Connect, Lock, Snapshot,
         Delete, At, Places, Placed, OfSwitch, Transaction, Locked
    <3> QED BY <1>3, <2>3, <3>1, <3>2, OthersKeep DEF Step
  <2> QED BY <2>1, <2>2, <2>3
<1>4. ASSUME NEW t \in Thread, NEW op \in Op \ {None}, Begin(t, op) PROVE SwitchInv'
  <2>1. CASE op \in Switch BY <1>4, <2>1, SwitchBegins
  <2>2. CASE op \notin Switch BY <1>4, <2>2, OthersKeep
  <2> QED BY <2>1, <2>2
<1>5. SwitchInv'
  BY <1>3, <1>4, CrashKeeps, BootKeeps, IdleKeep DEF Next
<1> QED BY <1>1, <1>2, <1>5 DEF ResumeInv

\* What holds of the current run, in the table and in memory, through every
\* overlap, failure, crash and start.
THEOREM ResumeInvariant == Spec => []ResumeInv
<1>1. ASSUME Init PROVE ResumeInv
  <2>0. /\ 1 \in Run /\ Run \subseteq Nat /\ MaxFault \in Nat
        /\ \A r \in Run : r <= 1 => r = 1
        /\ Default \in Settings /\ Idle.op = None /\ Placed(Idle)
    BY DemoAssumption, IdlePlaced
       DEF Run, Default, Settings, Profile, Workflow, Idle
  <2>1. /\ mem = [set |-> Default, run |-> 1] /\ up = TRUE /\ mixed = {}
        /\ call = [t \in Thread |-> Idle] /\ lock = None /\ waiting = {} /\ since = {}
        /\ faults = 0
        /\ runs = [r \in Run |-> [status |-> IF r = 1 THEN "running" ELSE "none",
                                  set |-> Default, dag |-> "none"]]
    BY <1>1 DEF Init
  <2>2. Switching = {} BY <2>0, <2>1 DEF Switching, Switch, None
  <2>3. Open = {1} BY <2>0, <2>1 DEF Open
  <2>4. Idle \in Call
    BY <2>0 DEF Idle, Call, Op, PC
  <2>5. TypeOK
    <3>1. runs \in [Run -> RunRow] BY <2>0, <2>1 DEF RunRow
    <3>2. OtherTypes BY <2>0, <2>1 DEF OtherTypes
    <3>3. call \in [Thread -> Call] BY <2>1, <2>4
    <3> QED BY <3>1, <3>2, <3>3, TypesApart
  <2>6. Places BY <2>0, <2>1 DEF Places
  <2>7. RunsInOrder BY <2>0, <2>1, <2>2 DEF RunsInOrder, Used
  <2>8. OneOpen BY <2>2, <2>3 DEF OneOpen
  <2>9. MemResumes BY <2>0, <2>1, <2>3 DEF MemResumes
  <2> QED BY <2>1, <2>2, <2>5, <2>6, <2>7, <2>8, <2>9
          DEF ResumeInv, SwitchInv, Overlaps, Prepared
<1> QED BY <1>1, ResumeKept, PTL DEF Spec

\* Every variable keeps its type.
THEOREM TypeCorrect == Spec => []TypeOK
<1>1. ResumeInv => TypeOK BY DEF ResumeInv
<1> QED BY <1>1, ResumeInvariant, PTL

\* However switches overlap, fail and are cut short, with none in flight and
\* memory set right a restart resumes the run and the profile the process has
\* (index.js:85-97), and after a reset on its own that run is the only one open.
THEOREM RestartCorrect == Spec => []RestartResumes
<1>1. ASSUME ResumeInv, up /\ Switching = {} /\ "mem" \notin mixed
      PROVE  /\ Open # {} /\ Latest(Open) = mem.run
             /\ runs[mem.run].set.profile = mem.set.profile
             /\ mixed = {} => Open = {mem.run}
  <2>1. /\ mem.run \in Open /\ \A r \in Open : r <= mem.run
        /\ runs[mem.run].set.profile = mem.set.profile
    BY <1>1 DEF ResumeInv, SwitchInv, MemResumes
  <2>2. Latest(Open) \in Open /\ \A r \in Open : r <= Latest(Open)
    BY <2>1, LatestIs DEF Open
  <2>3. Latest(Open) = mem.run
    BY <2>1, <2>2, DemoAssumption DEF Open, Run
  <2>4. mixed = {} => Open = {mem.run}
    BY <1>1, <2>1 DEF ResumeInv, SwitchInv, OneOpen
  <2> QED BY <2>1, <2>3, <2>4
<1>2. ResumeInv => RestartResumes BY <1>1 DEF RestartResumes
<1> QED BY <1>2, ResumeInvariant, PTL

-----------------------------------------------------------------------------
(* Someone can go on. The holder of the locks needs no connection, who      *)
(* waits for them goes on when they are free, and a switch about to insert  *)
(* its run finds a number for it: the requests are finitely many, and each  *)
(* switch began when there were more unused runs than switches.             *)

QueueInv ==
  /\ \A t \in Thread : call[t].pc = "idle" <=> call[t].op = None
  /\ \A t \in waiting : call[t].pc \in Writing
  /\ lock # None => call[lock].pc \in Locked

\* The switches that have not inserted their run.
Ahead == {t \in Switching : call[t].pc # "adopt"}
RoomInv == Cardinality(Ahead) <= Cardinality(Unused)

ReadyInv == ResumeInv /\ QueueInv /\ RoomInv

LEMMA QueueOn ==
  ASSUME TypeOK, QueueInv, NEW t \in Thread, Acts(t),
         call'[t].pc = "idle" <=> call'[t].op = None,
         waiting' \subseteq waiting \ {t},
         lock' # None => (lock' = lock /\ lock # t) \/ (lock' = t /\ call'[t].pc \in Locked)
  PROVE  QueueInv'
<1>1. lock # None => lock \in Thread
  BY DEF TypeOK
<1>2. \A u \in waiting : u \in Thread
  BY DEF TypeOK
<1> QED BY <1>1, <1>2 DEF QueueInv, Acts

LEMMA QueueStep ==
  ASSUME TypeOK, Places, QueueInv, [Next]_vars
  PROVE  QueueInv'
<1> USE DEF Locked, Writing
<1>0. Idle.pc = "idle" /\ Idle.op = None /\ call \in [Thread -> Call] /\ None \notin Thread
  BY Typed, DemoAssumption DEF Idle
<1>1. ASSUME NEW t \in Thread, NEW p, Moves(t, p), p # "idle", call[t].pc # "idle",
             waiting' \subseteq waiting \ {t},
             lock' # None => (lock' = lock /\ lock # t) \/ (lock' = t /\ p \in Locked)
      PROVE  QueueInv'
  <2>1. call'[t].pc # "idle" /\ call'[t].op # None
    BY <1>1 DEF Moves, QueueInv
  <2> QED BY <1>1, <2>1, QueueOn DEF Moves
<1>2. ASSUME NEW t \in Thread, Leaves(t), waiting' \subseteq waiting \ {t},
             lock' # None => lock' = lock /\ lock # t
      PROVE  QueueInv'
  BY <1>0, <1>2, QueueOn DEF Leaves
\* What a request does not wait with, and what it does not hold.
<1>3. ASSUME NEW t \in Thread
      PROVE  /\ call[t].pc \notin Writing => t \notin waiting
             /\ call[t].pc \notin Locked => lock # t
  BY <1>0 DEF QueueInv
<1>4. ASSUME NEW t \in Thread, Active(t) \/ End(t) \/ Fresh(t) \/ Insert(t) \/ Connect(t)
      PROVE  QueueInv'
  <2>1. /\ lock' = lock /\ call[t].pc \notin Locked /\ call[t].pc # "idle"
        /\ call[t].pc \notin Writing => waiting' = waiting
        /\ call[t].pc \in Writing => waiting' = waiting \ {t}
    BY <1>4 DEF Active, End, Fresh, Insert, Connect, At, Query, Write, db
  <2>2. waiting' \subseteq waiting \ {t} /\ lock # t
    BY <1>3, <2>1
  <2>3. \E p \in {"fresh", "end", "connect", "insert", "adopt", "lock"} : Moves(t, p)
    BY <1>4, SwitchGoes
  <2> QED BY <1>1, <2>1, <2>2, <2>3
<1>5. ASSUME NEW t \in Thread, Lock(t) \/ Snapshot(t) PROVE QueueInv'
  <2>1. waiting' = waiting /\ call[t].pc \in {"lock", "snapshot"}
        /\ (lock' = t \/ lock' = lock)
    BY <1>5 DEF Lock, Snapshot, At
  <2>2. \E p \in Locked : Moves(t, p)
    BY <1>5, SwitchGoes
  <2>3. waiting' \subseteq waiting \ {t}
    BY <1>3, <2>1
  <2> QED BY <1>1, <2>1, <2>2, <2>3
<1>6. ASSUME NEW t \in Thread, Delete(t) PROVE QueueInv'
  <2>1. waiting' = waiting /\ lock' = None /\ call[t].pc = "delete"
    BY <1>6 DEF Delete, At
  <2>2. waiting' \subseteq waiting \ {t}
    BY <1>3, <2>1
  <2> QED BY <1>1, <1>2, <1>6, <2>1, <2>2, SwitchGoes
<1>7. ASSUME NEW t \in Thread, Check(t) \/ Adopt(t) \/ Set(t) \/ DagRow(t) \/ Record(t)
      PROVE  QueueInv'
  <2>1. /\ lock' = lock /\ call[t].pc \notin Locked /\ call[t].pc # "idle"
        /\ call[t].pc \notin Writing => waiting' = waiting
        /\ call[t].pc \in Writing => waiting' = waiting \ {t}
    BY <1>7 DEF Check, Adopt, Set, DagRow, Record, At, Query, Write, db
  <2>2. waiting' \subseteq waiting \ {t} /\ lock # t
    BY <1>3, <2>1
  <2>3. Moves(t, "set") \/ Moves(t, "dagrow") \/ Leaves(t)
    BY <1>7, OtherGoes
  <2> QED BY <1>1, <1>2, <2>1, <2>2, <2>3
<1>8. ASSUME NEW t \in Thread, Fail(t) PROVE QueueInv'
  <2>1. Leaves(t) /\ waiting' = waiting \ {t} /\ (lock' = None \/ (lock' = lock /\ lock # t))
    BY <1>8, OtherGoes DEF Fail
  <2> QED BY <1>2, <2>1
<1>9. ASSUME NEW t \in Thread, NEW op \in Op \ {None}, Begin(t, op) PROVE QueueInv'
  <2>1. Begins(t, op) /\ call[t].pc = "idle" /\ UNCHANGED <<lock, waiting>>
    BY <1>9, BeginGoes DEF Begin, QueueInv, db
  <2>2. /\ call'[t].op # None /\ call'[t].pc # "idle"
        /\ \A u \in Thread : u # t => call'[u].op = call[u].op /\ call'[u].pc = call[u].pc
    BY <2>1 DEF Begins
  <2>3. t \notin waiting /\ lock # t
    BY <1>3, <2>1
  <2>4. waiting \subseteq Thread /\ (lock # None => lock \in Thread)
    BY DEF TypeOK
  <2> QED BY <2>1, <2>2, <2>3, <2>4 DEF QueueInv
<1>10. ASSUME NEW t \in Thread, Wait(t) PROVE QueueInv'
  BY <1>10 DEF Wait, QueueInv
<1>11. ASSUME Crash PROVE QueueInv'
  BY <1>0, <1>11 DEF Crash, QueueInv
<1>12. ASSUME (\E r \in Run : DagProgress(r)) \/ Boot \/ UNCHANGED vars PROVE QueueInv'
  BY <1>12 DEF DagProgress, Boot, vars, db, QueueInv
<1> QED BY <1>4, <1>5, <1>6, <1>7, <1>8, <1>9, <1>10, <1>11, <1>12 DEF Next, Step

LEMMA RoomFacts ==
  ASSUME TypeOK
  PROVE  /\ IsFiniteSet(Switching) /\ IsFiniteSet(Ahead) /\ IsFiniteSet(Unused)
         /\ Cardinality(Ahead) \in Nat /\ Cardinality(Unused) \in Nat
         /\ Cardinality(Switching) \in Nat /\ Cardinality(Ahead) <= Cardinality(Switching)
<1>1. IsFiniteSet(Thread) /\ Switching \in SUBSET Thread /\ Ahead \in SUBSET Switching
  BY DemoAssumption DEF Switching, Ahead
<1>2. IsFiniteSet(Run) /\ Unused \in SUBSET Run
  BY DemoAssumption, FS_Interval DEF Run, Unused
<1>3. IsFiniteSet(Switching) /\ IsFiniteSet(Unused)
  BY <1>1, <1>2, FS_Subset
<1>4. IsFiniteSet(Ahead) /\ Cardinality(Ahead) <= Cardinality(Switching)
  BY <1>1, <1>3, FS_Subset
<1> QED BY <1>3, <1>4, FS_CardinalityType

LEMMA UnusedFacts ==
  IsFiniteSet(Unused') /\ Cardinality(Unused') \in Nat
<1>1. IsFiniteSet(Run) /\ Unused' \in SUBSET Run
  BY DemoAssumption, FS_Interval DEF Run, Unused
<1> QED BY <1>1, FS_Subset, FS_CardinalityType

\* No run is used up, and no switch comes to be ahead.
LEMMA RoomKept ==
  ASSUME TypeOK, RoomInv, Unused \subseteq Unused', Ahead' \subseteq Ahead
  PROVE  RoomInv'
<1>1. /\ IsFiniteSet(Ahead) /\ IsFiniteSet(Unused') /\ Cardinality(Ahead) \in Nat
      /\ Cardinality(Unused) \in Nat
  BY RoomFacts, UnusedFacts
<1>2. Cardinality(Ahead') \in Nat /\ Cardinality(Ahead') <= Cardinality(Ahead)
  BY <1>1, FS_Subset, FS_CardinalityType
<1>3. Cardinality(Unused') \in Nat /\ Cardinality(Unused) <= Cardinality(Unused')
  BY <1>1, FS_Subset, FS_CardinalityType
<1> QED BY <1>1, <1>2, <1>3 DEF RoomInv

\* A switch that inserts its run uses one up and is no longer ahead.
LEMMA RoomInsert ==
  ASSUME ResumeInv, RoomInv, NEW t \in Thread, Insert(t)
  PROVE  RoomInv'
<1>0. TypeOK /\ Places
  BY DEF ResumeInv
<1>1. /\ Moves(t, "adopt") /\ Unused # {} /\ call[t].pc = "insert"
  BY <1>0, SwitchGoes DEF Insert, At
<1>2. t \in Ahead /\ t \in Switching
  BY <1>0, <1>1 DEF Ahead, Switching, Places, Placed, OfSwitch
<1>3. Ahead' = Ahead \ {t}
  BY <1>1, <1>2 DEF Ahead, Switching, Moves, Acts
<1>4. PICK r \in Unused : r = Least(Unused)
  BY <1>1, LeastIs DEF Unused
<1>5. Unused' = Unused \ {r}
  <2>1. \A q \in Run : runs'[q].status = "none" <=> q # r /\ runs[q].status = "none"
    <3>1. runs \in [Run -> RunRow] /\ r \in Run
      BY <1>0, <1>4, Typed DEF Unused
    <3>2. PICK row : row.status = "running" /\ runs' = [runs EXCEPT ![r] = row]
      BY <1>4 DEF Insert
    <3> QED BY <3>1, <3>2
  <2> QED BY <2>1 DEF Unused
<1>6. Cardinality(Ahead') = Cardinality(Ahead) - 1
  BY <1>0, <1>2, <1>3, RoomFacts, FS_RemoveElement
<1>7. Cardinality(Unused') = Cardinality(Unused) - 1
  BY <1>0, <1>4, <1>5, RoomFacts, FS_RemoveElement
<1> QED BY <1>0, <1>6, <1>7, RoomFacts DEF RoomInv

LEMMA RoomBegin ==
  ASSUME ResumeInv, RoomInv, NEW t \in Thread, NEW op \in Op \ {None}, Begin(t, op)
  PROVE  RoomInv'
<1>0. TypeOK /\ Begins(t, op) /\ UNCHANGED runs /\ call[t].op = None
  BY BeginGoes DEF ResumeInv, Begin, db
<1>1. Unused' = Unused
  BY <1>0 DEF Unused
<1>2. \A u \in Thread : u # t => call'[u].op = call[u].op /\ call'[u].pc = call[u].pc
  BY <1>0 DEF Begins
<1>3. CASE op \notin Switch
  <2>1. Ahead' \subseteq Ahead
    BY <1>0, <1>2, <1>3 DEF Ahead, Switching, Begins
  <2> QED BY <1>0, <1>1, <2>1, RoomKept
<1>4. CASE op \in Switch
  <2>1. Cardinality(Unused) > Cardinality(Switching)
    BY <1>4 DEF Begin
  <2>2. Ahead' \subseteq Ahead \cup {t}
    BY <1>2 DEF Ahead, Switching
  <2>3. t \notin Ahead
    BY <1>0 DEF Ahead, Switching, Switch, None
  <2>4. IsFiniteSet(Ahead \cup {t}) /\ Cardinality(Ahead \cup {t}) = Cardinality(Ahead) + 1
    BY <1>0, <2>3, RoomFacts, FS_AddElement
  <2>5. Cardinality(Ahead') \in Nat /\ Cardinality(Ahead') <= Cardinality(Ahead) + 1
    BY <2>2, <2>4, FS_Subset, FS_CardinalityType
  <2> QED BY <1>0, <1>1, <2>1, <2>5, RoomFacts DEF RoomInv
<1> QED BY <1>3, <1>4

LEMMA RoomStep ==
  ASSUME ResumeInv, RoomInv, [Next]_vars
  PROVE  RoomInv'
<1>0. TypeOK /\ Places /\ runs \in [Run -> RunRow] /\ Overlaps
  BY Typed DEF ResumeInv, SwitchInv
<1>1. ASSUME NEW t \in Thread, t \in Switching, Step(t) \/ Fail(t), ~Wait(t), ~Insert(t)
      PROVE  RoomInv'
  <2>1. UsedSame
    BY <1>1, UsedKept
  <2>2. Unused' = Unused
    BY <2>1 DEF UsedSame, Used, Unused
  <2>3. (\E p : Moves(t, p)) \/ Leaves(t)
    BY <1>1, SwitchesOnly
  <2>4. call[t].pc = "adopt" => Leaves(t)
    BY <1>0, <1>1, OtherGoes DEF Step, Active, End, Fresh, Insert, Connect, Lock, Snapshot,
       Delete, Check, Set, DagRow, Record, At
  <2>5. call[t].pc # "adopt" => t \in Ahead
    BY <1>1 DEF Ahead
  <2>6. Leaves(t) => t \notin Switching'
    BY DEF Leaves, Idle, Switching, Switch, None
  <2>7. Ahead' \subseteq Ahead
    BY <2>3, <2>4, <2>5, <2>6 DEF Ahead, Switching, Moves, Leaves, Acts
  <2> QED BY <1>0, <2>2, <2>7, RoomKept
<1>2. ASSUME UNCHANGED <<call, runs>> PROVE RoomInv'
  BY <1>2 DEF RoomInv, Ahead, Switching, Unused
<1>3. ASSUME NEW t \in Thread, t \notin Switching, Step(t) \/ Fail(t), ~Wait(t)
      PROVE  RoomInv'
  <2>1. call[t].op \notin Switch
    BY <1>3 DEF Switching
  <2>2. ~(Active(t) \/ End(t) \/ Fresh(t) \/ Insert(t) \/ Adopt(t) \/ Connect(t)
            \/ Lock(t) \/ Snapshot(t) \/ Delete(t))
    BY <1>0, <2>1 DEF Active, End, Fresh, Insert, Adopt, Connect, Lock, Snapshot,
       Delete, At, Places, Placed, OfSwitch, Transaction, Locked
  <2>3. CASE Check(t) \/ Set(t) \/ Record(t) \/ Fail(t)
    <3>1. UNCHANGED runs
      BY <2>3 DEF Check, Set, Record, Fail, db
    <3>2. (\E p : Moves(t, p)) \/ Leaves(t)
      BY <1>0, <2>3, OtherGoes
    <3>3. t \notin Switching'
      BY <2>1, <3>2 DEF Moves, Leaves, Idle, Switching, Switch, None
    <3>4. Ahead' \subseteq Ahead
      BY <3>2, <3>3 DEF Ahead, Switching, Moves, Leaves, Acts
    <3>5. Unused' = Unused
      BY <3>1 DEF Unused
    <3> QED BY <1>0, <3>4, <3>5, RoomKept
  <2>4. CASE DagRow(t)
    <3>1. PICK d : runs' = [runs EXCEPT ![call[t].run].dag = d]
      BY <2>4 DEF DagRow
    <3>2. Unused' = Unused
      BY <1>0, <3>1 DEF Unused, RunRow
    <3>3. Leaves(t)
      BY <1>0, <2>4, OtherGoes
    <3>4. Ahead' \subseteq Ahead
      BY <3>3 DEF Ahead, Switching, Leaves, Acts, Idle, Switch, None
    <3> QED BY <1>0, <3>2, <3>4, RoomKept
  <2> QED BY <1>3, <2>2, <2>3, <2>4 DEF Step
<1>4. ASSUME NEW r \in Run, DagProgress(r) PROVE RoomInv'
  <2>1. UNCHANGED call /\ \E s : runs' = [runs EXCEPT ![r].dag = s]
    BY <1>4 DEF DagProgress
  <2>2. Unused' = Unused /\ Ahead' = Ahead
    BY <1>0, <2>1 DEF Unused, RunRow, Ahead, Switching
  <2> QED BY <1>0, <2>2, RoomKept
<1>5. ASSUME Crash PROVE RoomInv'
  <2>1. Unused' = Unused /\ Ahead' = {}
    BY <1>5 DEF Crash, Unused, Ahead, Switching, Idle, Switch, None
  <2> QED BY <1>0, <2>1, RoomKept
<1>6. ASSUME Boot PROVE RoomInv'
  <2>1. Ahead' = {}
    BY <1>0, <1>6 DEF Boot, Overlaps, Ahead, Switching
  <2>2. Cardinality(Ahead') = 0
    BY <2>1, FS_EmptySet
  <2>3. Cardinality(Unused') \in Nat
    BY UnusedFacts
  <2> QED BY <2>2, <2>3 DEF RoomInv
<1>7. ASSUME NEW t \in Thread, Wait(t) PROVE RoomInv'
  BY <1>2, <1>7 DEF Wait
<1>8. CASE UNCHANGED vars
  BY <1>2, <1>8 DEF vars, db
<1> QED BY <1>1, <1>3, <1>4, <1>5, <1>6, <1>7, <1>8, RoomInsert, RoomBegin DEF Next, Step

LEMMA ReadySomeone ==
  ASSUME ReadyInv
  PROVE  SomeoneReady
<1> USE DEF ReadyInv, ResumeInv
<1> SUFFICES ASSUME NEW t \in Thread, call[t].op # None
             PROVE  \E u \in Thread : Ready(u)
  BY DEF SomeoneReady
<1>1. CASE lock # None
  <2>1. lock \in Thread /\ call[lock].pc \in Locked
    BY <1>1 DEF TypeOK, QueueInv
  <2> QED BY <2>1 DEF Ready
<1>2. CASE lock = None
  <2>1. ASSUME NEW u \in Thread, call[u].pc = "insert" PROVE Unused # {}
    <3>1. u \in Ahead
      BY <2>1 DEF Ahead, Switching, Places, Placed, OfSwitch
    <3>2. Cardinality(Ahead) # 0
      BY <3>1, RoomFacts, FS_EmptySet
    <3>3. Cardinality(Unused) # 0
      BY <3>2, RoomFacts DEF RoomInv
    <3> QED BY <3>3, FS_EmptySet
  <2>2. CASE \E u \in waiting : TRUE
    <3>1. PICK u \in waiting : u \in Thread /\ call[u].pc \in Writing
      BY <2>2 DEF QueueInv, TypeOK
    <3> QED BY <1>2, <2>1, <3>1 DEF Ready
  <2>3. CASE \E u \in Thread : call[u].pc \in Transaction
    BY <1>2, <2>3 DEF Ready, Transaction
  <2>4. CASE waiting = {} /\ \A u \in Thread : call[u].pc \notin Transaction
    <3>1. Connected = {}
      BY <2>4 DEF Connected
    <3>2. FreeConn
      BY <3>1, FS_EmptySet, DemoAssumption DEF FreeConn
    <3>3. call[t].pc \in PC /\ call[t].pc # "idle"
      BY DEF QueueInv, TypeOK
    <3>4. call[t].pc \in {"active", "connect", "fresh", "adopt", "check", "set"} \cup Writing
      BY <2>4, <3>3 DEF PC
    <3> QED BY <1>2, <2>1, <3>2, <3>4 DEF Ready
  <2> QED BY <2>2, <2>3, <2>4
<1> QED BY <1>1, <1>2

\* While requests are in flight the next step of one of them waits for nothing,
\* whatever the numbers of requests and connections: a reset that holds the table locks
\* needs no connection, and who waits for the locks keeps the one it has
\* (demo.js:287-318, db.js:49).
THEOREM NobodyIsWedged == Spec => []SomeoneReady
<1>1. ASSUME Init PROVE QueueInv /\ RoomInv
  <2>1. /\ call = [t \in Thread |-> Idle] /\ waiting = {} /\ lock = None
        /\ Idle.pc = "idle" /\ Idle.op = None
    BY <1>1 DEF Init, Idle
  <2>2. Ahead = {}
    BY <2>1 DEF Ahead, Switching, Switch, None
  <2>3. Unused \in SUBSET Run /\ IsFiniteSet(Run)
    BY DemoAssumption, FS_Interval DEF Unused, Run
  <2>4. Cardinality(Unused) \in Nat /\ Cardinality(Ahead) = 0
    BY <2>2, <2>3, FS_Subset, FS_CardinalityType, FS_EmptySet
  <2> QED BY <2>1, <2>4 DEF QueueInv, RoomInv
<1>2. QueueInv /\ RoomInv /\ ResumeInv /\ [Next]_vars
        => (QueueInv /\ RoomInv)'
  BY QueueStep, RoomStep DEF ResumeInv
<1>3. QueueInv /\ RoomInv /\ ResumeInv => SomeoneReady
  BY ReadySomeone DEF ReadyInv
<1> QED BY <1>1, <1>2, <1>3, ResumeInvariant, PTL DEF Spec

=============================================================================
