-------------------------- MODULE FixedChain_proofs --------------------------
(***************************************************************************)
(* Proofs about FixedChain, for any numbers of tasks, runs, turns and      *)
(* faults.                                                                 *)
(*                                                                         *)
(* Main results: PointerIsOpen and AnnouncedIsCurrent hold always, and no  *)
(* step violates NewerTaskSurvives. AnnouncedIsCurrent is not inductive: a *)
(* request that is still to write its rows may have begun before a switch  *)
(* or in the middle of a reset. What carries it is that an open task is of *)
(* the current run or of a deleted one (OpenIsCurrentOrGone), that during  *)
(* a reset the current run is a deleted one, and that no row is ever       *)
(* written for a deleted run (AnnouncedHasRun).                            *)
(*                                                                         *)
(* Then AuthorityNeverGrows and ContextIsAccurate, along the line of       *)
(* descent of the tasks (Lineage): while no actor was given a second task, *)
(* one task of an actor is live at a time, its pointer names it while it   *)
(* is open, and a delegated task has the parent, the trace and the run of  *)
(* the task whose loop delegated it.                                       *)
(***************************************************************************)
EXTENDS FixedChain, TLAPS

OpenIsCurrentOrGone ==
  \A t \in Task : Open(t) => task[t].run = run \/ task[t].run \in gone
ResetRunIsGone == phase = "reset" => run \in gone
AnnouncedHasRun == \A t \in announced : Open(t) => task[t].run \notin gone
RoomForRun == phase # "none" => run < MaxRun
NamedExist == \A t \in Task : t \in unsaid \/ t \in announced => task[t].status # "none"

BoardInv ==
  /\ TypeOK /\ RoomForRun
  /\ PointerIsOpen
  /\ OpenIsCurrentOrGone
  /\ ResetRunIsGone
  /\ AnnouncedHasRun
  /\ NamedExist

-----------------------------------------------------------------------------
(* Types.                                                                  *)

LEMMA CeilingType ==
  ASSUME NEW a \in Actor, NEW p \in Profile
  PROVE  effectiveAuthorityFor(a, p) \in SUBSET Authority
<1>1. CASE a = "agent-c"
  BY <1>1 DEF effectiveAuthorityFor, Authority, AGENT_C_AUTHORITY
<1>2. CASE a # "agent-c"
  <2>1. a \in DOMAIN BASE_AUTHORITY
    BY <1>2 DEF Actor, BASE_AUTHORITY
  <2>2. effectiveAuthorityFor(a, p) = BASE_AUTHORITY[a]
    BY <1>2 DEF effectiveAuthorityFor
  <2> QED BY <2>1, <2>2 DEF Authority
<1> QED BY <1>1, <1>2

TaskRecord == [status : Status, actor : Actor, parent : Task \cup {NoTask},
               trace : Task \cup {NoTask}, run : 1..MaxRun,
               by : Task \cup {NoTask}, authority : SUBSET Authority]
LoopRecord == [pc : PC, turn : 0..MaxTurn, child : Task \cup {NoTask}]

LEMMA CreateFacts ==
  ASSUME TypeOK, NEW t \in Task, NEW r \in TaskRecord, createTask(t, r)
  PROVE  /\ task' \in [Task -> TaskRecord] /\ task'[t] = r
         /\ \A u \in Task : u # t => task'[u] = task[u]
         /\ current' \in [Actor -> Task \cup {NoTask}] /\ current'[r.actor] = t
         /\ \A a \in Actor : a # r.actor => current'[a] = current[a]
         /\ unsaid' = unsaid \cup {t} /\ unsaid' \in SUBSET Task
         /\ announced' = announced
         /\ crossed' \in BOOLEAN
<1>1. task \in [Task -> TaskRecord] BY DEF TypeOK, TaskRecord
<1>2. r.actor \in Actor BY DEF TaskRecord
<1>3. crossed' \in BOOLEAN BY DEF createTask
<1> QED BY <1>1, <1>2, <1>3 DEF createTask, TypeOK

LEMMA GoFacts ==
  ASSUME TypeOK, NEW t \in Task, NEW p \in PC, Go(t, p)
  PROVE  loop' \in [Task -> LoopRecord]
<1>1. loop \in [Task -> LoopRecord] BY DEF TypeOK, LoopRecord
<1>2. Ended \in LoopRecord
  BY ChainAssumption DEF Ended, LoopRecord, PC
<1>3. [loop[t] EXCEPT !.pc = p] \in LoopRecord BY <1>1 DEF LoopRecord
<1> QED BY <1>1, <1>2, <1>3 DEF Go

LEMMA ClearFacts ==
  ASSUME TypeOK, clearTasks
  PROVE  /\ task' \in [Task -> TaskRecord]
         /\ \A t \in Task : task'[t].status # "open"
         /\ \A t \in Task : task[t].status # "none" => task'[t].status # "none"
         /\ current' \in [Actor -> Task \cup {NoTask}]
         /\ \A a \in Actor : current'[a] = NoTask
         /\ UNCHANGED <<unsaid, announced, crossed>>
<1>1. task \in [Task -> TaskRecord] BY DEF TypeOK, TaskRecord
<1>2. \A t \in Task : t # NoTask BY DEF Task, NoTask
<1>3. \A t \in Task : [task[t] EXCEPT !.status = "cleared"] \in TaskRecord
  BY <1>1 DEF TaskRecord, Status
<1>4. task' \in [Task -> TaskRecord]
  BY <1>1, <1>3 DEF clearTasks
<1>5. \A t \in Task : /\ task'[t].status # "open"
                      /\ task[t].status # "none" => task'[t].status # "none"
  BY <1>1, <1>2 DEF clearTasks, Open, TaskRecord
<1> QED BY <1>4, <1>5 DEF clearTasks, TypeOK

LEMMA CompleteFacts ==
  ASSUME TypeOK, NEW t \in Task, completeTask(t)
  PROVE  /\ task' \in [Task -> TaskRecord]
         /\ task'[t].status = "done" /\ task'[t].run = task[t].run
         /\ \A u \in Task : u # t => task'[u] = task[u]
         /\ \A u \in Task : task'[u].actor = task[u].actor
         /\ current' \in [Actor -> Task \cup {NoTask}]
         /\ \A a \in Actor : current'[a] = current[a] \/ current'[a] = NoTask
         /\ current'[Owner(t)] # t
         /\ \A a \in Actor : current'[a] # current[a] => a = Owner(t) /\ current[a] = t
         /\ UNCHANGED <<unsaid, announced, crossed>>
<1>1. task \in [Task -> TaskRecord] BY DEF TypeOK, TaskRecord
<1>2. Owner(t) \in Actor BY <1>1 DEF Owner, TaskRecord
<1>3. [task[t] EXCEPT !.status = "done"] \in TaskRecord
  BY <1>1 DEF TaskRecord, Status
<1>4. t # NoTask BY DEF Task, NoTask
<1> QED BY <1>1, <1>2, <1>3, <1>4 DEF completeTask, TypeOK, TaskRecord

LEMMA StartRecord ==
  ASSUME TypeOK, NEW t \in Task
  PROVE  [status |-> "open", actor |-> "agent-a", parent |-> NoTask,
          trace |-> t, run |-> run, by |-> NoTask,
          authority |-> effectiveAuthorityFor("agent-a", profile)] \in TaskRecord
<1>1. effectiveAuthorityFor("agent-a", profile) \in SUBSET Authority
  BY CeilingType DEF Actor, TypeOK
<1> QED BY <1>1 DEF Actor, Status, TaskRecord, TypeOK

\* The task that a delegation creates.
Delegated(t, n, requested) ==
  LET to == ALLOWED_DELEGATIONS[Owner(t)]
      ceiling == effectiveAuthorityFor(to, profile)
      parent == current[Owner(t)] IN
  [status |-> "open", actor |-> to, parent |-> parent,
   trace |-> IF parent = NoTask THEN n ELSE task[parent].trace,
   run |-> run, by |-> t,
   authority |-> IF to = "agent-c" /\ profile = "bad" THEN ceiling
                 ELSE intersectEnvelope(Envelope(t, requested), ceiling)]

LEMMA DelegatedFacts ==
  ASSUME TypeOK, NEW t \in Task, NEW n \in Task, NEW requested \in Requested,
         Delegate(t, n, requested)
  PROVE  LET r == Delegated(t, n, requested) IN
         /\ createTask(n, r) /\ r \in TaskRecord /\ r.status = "open"
         /\ r.run = run /\ r.by = t /\ r.parent = current[Owner(t)]
         /\ r.parent # NoTask => r.trace = task[r.parent].trace
         /\ r.authority \subseteq effectiveAuthorityFor(r.actor, profile)
         /\ \/ r.authority \subseteq task[t].authority
            \/ r.actor = "agent-c" /\ r.authority = AGENT_C_AUTHORITY["bad"]
<1> DEFINE to == ALLOWED_DELEGATIONS[Owner(t)]
           ceiling == effectiveAuthorityFor(to, profile)
           parent == current[Owner(t)]
           trace == IF parent = NoTask THEN n ELSE task[parent].trace
           authority == IF to = "agent-c" /\ profile = "bad" THEN ceiling
                        ELSE intersectEnvelope(Envelope(t, requested), ceiling)
           r == [status |-> "open", actor |-> to, parent |-> parent,
                 trace |-> trace, run |-> run, by |-> t, authority |-> authority]
<1>0. /\ task \in [Task -> TaskRecord] /\ run \in 1..MaxRun
      /\ profile \in Profile /\ Owner(t) \in Actor
  BY DEF TypeOK, TaskRecord, Owner
<1>1. to \in Actor
  BY DEF Delegate, MayDelegate, ALLOWED_DELEGATIONS, Actor
<1>2. parent \in Task \cup {NoTask} BY <1>0 DEF TypeOK
<1>3. trace \in Task \cup {NoTask} BY <1>0, <1>2 DEF TaskRecord
<1>4. ceiling \in SUBSET Authority BY <1>0, <1>1, CeilingType
<1>5. authority \subseteq ceiling BY DEF intersectEnvelope
<1>6. \/ authority \subseteq task[t].authority
      \/ to = "agent-c" /\ authority = AGENT_C_AUTHORITY["bad"]
  <2>1. CASE to = "agent-c" /\ profile = "bad"
    BY <2>1 DEF effectiveAuthorityFor
  <2>2. CASE ~(to = "agent-c" /\ profile = "bad")
    <3>1. Envelope(t, requested) \subseteq task[t].authority BY DEF Envelope
    <3> QED BY <2>2, <3>1 DEF intersectEnvelope
  <2> QED BY <2>1, <2>2
<1>7. createTask(n, r) /\ r = Delegated(t, n, requested)
  BY DEF Delegate, Delegated
<1>8. /\ r.status = "open" /\ r.run = run /\ r.by = t /\ r.parent = parent
      /\ r.trace = trace /\ r.authority = authority /\ r.actor = to
  OBVIOUS
<1>9. parent # NoTask => trace = task[parent].trace
  OBVIOUS
<1> HIDE DEF to, ceiling, trace, authority
<1>10. r \in TaskRecord
  BY <1>0, <1>1, <1>2, <1>3, <1>4, <1>5 DEF Status, TaskRecord
<1>11. r.authority \subseteq effectiveAuthorityFor(r.actor, profile)
  BY <1>5, <1>8 DEF ceiling
<1> HIDE DEF parent, r
<1>12. /\ r.parent = current[Owner(t)]
       /\ r.parent # NoTask => r.trace = task[r.parent].trace
  BY <1>8, <1>9 DEF parent
<1> QED BY <1>6, <1>7, <1>8, <1>10, <1>11, <1>12

LEMMA DelegateRecord ==
  ASSUME TypeOK, NEW t \in Task, NEW n \in Task, NEW requested \in Requested,
         Delegate(t, n, requested)
  PROVE  \E r \in TaskRecord : createTask(n, r) /\ r.status = "open" /\ r.run = run
BY DelegatedFacts

LEMMA TypeStep ==
  ASSUME TypeOK, RoomForRun, [Next]_vars
  PROVE  TypeOK' /\ RoomForRun'
<1> USE DEF TaskRecord, LoopRecord
<1>0. /\ task \in [Task -> TaskRecord] /\ loop \in [Task -> LoopRecord]
      /\ \A t \in Task : Owner(t) \in Actor
      /\ run \in 1..MaxRun /\ profile \in Profile /\ gone \in SUBSET (1..MaxRun)
      /\ faults \in 0..MaxFault /\ current \in [Actor -> Task \cup {NoTask}]
      /\ token \in [Actor -> [task : Task \cup {NoTask}, live : BOOLEAN]]
  BY DEF TypeOK, Owner
<1>1. ASSUME NEW t \in Task, StartTask(t) PROVE TypeOK' /\ RoomForRun'
  <2>1. PICK r \in TaskRecord : createTask(t, r) BY <1>1, StartRecord DEF StartTask
  <2> QED BY <1>1, <2>1, CreateFacts DEF StartTask, RoomForRun, TypeOK, control, agents
<1>2. ASSUME NEW t \in Task, NEW n \in Task, NEW requested \in Requested,
             Delegate(t, n, requested)
      PROVE  TypeOK' /\ RoomForRun'
  <2>1. PICK r \in TaskRecord : createTask(n, r) BY <1>2, DelegateRecord
  <2>2. loop[t].turn + 1 \in 0..MaxTurn
    BY <1>0, <1>2, ChainAssumption DEF Delegate
  <2>3. [loop[t] EXCEPT !.pc = "delegating", !.child = n, !.turn = @ + 1] \in LoopRecord
    <3>1. ASSUME NEW l \in LoopRecord, NEW k \in 0..MaxTurn
          PROVE  [l EXCEPT !.pc = "delegating", !.child = n, !.turn = k] \in LoopRecord
      BY DEF PC
    <3>2. loop[t] \in LoopRecord BY <1>0
    <3> QED BY <2>2, <3>1, <3>2
  <2>4. loop' \in [Task -> LoopRecord] BY <1>0, <1>2, <2>3 DEF Delegate
  <2> QED BY <1>2, <2>1, <2>4, CreateFacts DEF Delegate, RoomForRun, TypeOK, control
<1>3. ASSUME NEW t \in Task, Announce(t) PROVE TypeOK' /\ RoomForRun'
  <2>1. Ended \in LoopRecord BY ChainAssumption DEF Ended, PC
  <2>2. loop' \in [Task -> LoopRecord] BY <1>0, <1>3, <2>1 DEF Announce
  <2>3. inbox' \in [Actor -> SUBSET Task] BY <1>3 DEF Announce, RoomForRun, TypeOK
  <2> QED BY <1>3, <2>2, <2>3 DEF Announce, RoomForRun, TypeOK, control
<1>4. ASSUME NEW t \in Task, AnnounceFails(t) PROVE TypeOK' /\ RoomForRun'
  <2>1. \A u \in Task : [loop[u] EXCEPT !.pc = "loop", !.child = NoTask] \in LoopRecord
    BY <1>0 DEF PC
  <2>2. loop' \in [Task -> LoopRecord] BY <1>0, <1>4, <2>1 DEF AnnounceFails
  <2>3. faults' \in 0..MaxFault
    <3>1. /\ task[t].run \in gone \/ faults < MaxFault
          /\ faults' = IF task[t].run \in gone THEN faults ELSE faults + 1
      BY <1>4 DEF AnnounceFails
    <3>2. faults \in 0..MaxFault BY <1>0
    <3> QED BY <3>1, <3>2, ChainAssumption
  <2> QED BY <1>4, <2>2, <2>3 DEF AnnounceFails, RoomForRun, TypeOK, control
<1>5. ASSUME NEW t \in Task, Deliver(t) PROVE TypeOK' /\ RoomForRun'
  <2>1. "bootstrap" \in PC BY DEF PC
  <2>2. loop' \in [Task -> LoopRecord] BY <1>0, <1>5, <2>1, GoFacts DEF Deliver
  <2> QED BY <1>5, <2>2 DEF Deliver, RoomForRun, TypeOK, control, board
<1>6. ASSUME NEW t \in Task, Bootstrap(t) PROVE TypeOK' /\ RoomForRun'
  <2>1. {"ended", "fetch", "complete"} \subseteq PC BY DEF PC
  <2>2. loop' \in [Task -> LoopRecord] BY <1>6, <2>1, GoFacts DEF Bootstrap
  <2>3. token' \in [Actor -> [task : Task \cup {NoTask}, live : BOOLEAN]]
    <3>1. \/ token' = token
          \/ token' = [token EXCEPT ![Owner(t)] = [task |-> current[Owner(t)], live |-> TRUE]]
      BY <1>6 DEF Bootstrap
    <3>2. [task |-> current[Owner(t)], live |-> TRUE]
             \in [task : Task \cup {NoTask}, live : BOOLEAN] BY <1>0
    <3> HIDE DEF TaskRecord, LoopRecord
    <3> QED BY <1>0, <3>1, <3>2
  <2> QED BY <1>6, <2>2, <2>3 DEF Bootstrap, RoomForRun, TypeOK, control, board
<1>7. ASSUME NEW t \in Task, Fetch(t) \/ Stop(t) PROVE TypeOK' /\ RoomForRun'
  <2>1. {"loop", "ended", "rebootstrap"} \subseteq PC BY DEF PC
  <2>2. loop' \in [Task -> LoopRecord] BY <1>7, <2>1, GoFacts DEF Fetch, Stop
  <2> QED BY <1>7, <2>2 DEF Fetch, Stop, RoomForRun, TypeOK, control, board
<1>8. ASSUME NEW t \in Task, Turn(t) PROVE TypeOK' /\ RoomForRun'
  <2>1. loop[t].turn + 1 \in 0..MaxTurn BY <1>0, <1>8, ChainAssumption DEF Turn
  <2>2. loop' \in [Task -> LoopRecord] BY <1>0, <1>8, <2>1 DEF Turn
  <2> QED BY <1>8, <2>2 DEF Turn, RoomForRun, TypeOK, control, board
<1>9. ASSUME NEW t \in Task, Complete(t) PROVE TypeOK' /\ RoomForRun'
  <2>1. "ended" \in PC BY DEF PC
  <2>2. loop' \in [Task -> LoopRecord] BY <1>9, <2>1, GoFacts DEF Complete
  <2>3. CASE completeTask(t)
    BY <1>9, <2>2, <2>3, CompleteFacts DEF Complete, RoomForRun, TypeOK, control
  <2>4. CASE UNCHANGED board
    BY <1>9, <2>2, <2>4 DEF Complete, RoomForRun, TypeOK, control, board
  <2> QED BY <1>9, <2>3, <2>4 DEF Complete
<1>10. ASSUME NEW a \in Actor, TokenExpires(a) PROVE TypeOK' /\ RoomForRun'
  BY <1>10 DEF TokenExpires, RoomForRun, TypeOK, control, board
<1>11. ASSUME NEW a \in Actor, Disconnect(a) \/ Reconnect(a) PROVE TypeOK' /\ RoomForRun'
  <2>1. faults' \in 0..MaxFault
    BY <1>0, <1>11, ChainAssumption DEF Disconnect, Reconnect
  <2> QED BY <1>11, <2>1 DEF Disconnect, Reconnect, RoomForRun, TypeOK, control, board
<1>12. ASSUME NEW a \in Actor, RestartAgent(a) PROVE TypeOK' /\ RoomForRun'
  <2>1. Ended \in LoopRecord BY ChainAssumption DEF Ended, PC
  <2>2. loop' \in [Task -> LoopRecord] BY <1>0, <1>12, <2>1 DEF RestartAgent
  <2>3. faults' \in 0..MaxFault BY <1>0, <1>12, ChainAssumption DEF RestartAgent
  <2> QED BY <1>12, <2>2, <2>3 DEF RestartAgent, RoomForRun, TypeOK, control, board
<1>13. ASSUME NEW p \in Profile, SwitchProfile(p) PROVE TypeOK' /\ RoomForRun'
  BY <1>13 DEF SwitchProfile, RoomForRun, TypeOK, board, agents
<1>14. CASE SwitchRun
  <2>1. run' \in 1..MaxRun
    BY <1>0, <1>14, ChainAssumption DEF SwitchRun, RoomForRun
  <2> QED BY <1>14, <2>1, ClearFacts DEF SwitchRun, RoomForRun, TypeOK, agents
<1>15. CASE ResetBoard
  <2>1. gone' \in SUBSET (1..MaxRun)
    BY <1>0, <1>15, ChainAssumption DEF ResetBoard
  <2> QED BY <1>15, <2>1, ClearFacts DEF ResetBoard, RoomForRun, TypeOK, agents
<1>16. CASE ResetRun
  <2>1. run' \in 1..MaxRun
    BY <1>0, <1>16, ChainAssumption DEF ResetRun, RoomForRun
  <2> QED BY <1>16, <2>1 DEF ResetRun, RoomForRun, TypeOK, board, agents
<1>17. CASE UNCHANGED vars
  BY <1>17 DEF vars, control, board, agents, RoomForRun, TypeOK
<1> QED
  BY <1>1, <1>2, <1>3, <1>4, <1>5, <1>6, <1>7, <1>8, <1>9, <1>10, <1>11, <1>12,
     <1>13, <1>14, <1>15, <1>16, <1>17 DEF Next, Requests, Runtime

-----------------------------------------------------------------------------
(* The board.                                                              *)

\* What BoardInv says beyond the types.
Board == /\ PointerIsOpen /\ OpenIsCurrentOrGone /\ ResetRunIsGone
         /\ AnnouncedHasRun /\ NamedExist

\* Nothing happens to the board.
LEMMA BoardIdle ==
  ASSUME BoardInv, UNCHANGED <<board, run, gone>>, phase' = "reset" => phase = "reset"
  PROVE  Board'
BY DEF BoardInv, Board, board, PointerIsOpen, OpenIsCurrentOrGone, ResetRunIsGone,
       AnnouncedHasRun, NamedExist, Open, Owner

\* A task is created under the current run: nobody knows it yet.
LEMMA BoardCreate ==
  ASSUME BoardInv, NEW t \in Task, NEW r \in TaskRecord, createTask(t, r),
         Fresh(t), r.status = "open", r.run = run, UNCHANGED control
  PROVE  Board'
<1> DEFINE Facts == /\ \A u \in Task : u # t => task'[u] = task[u]
                    /\ task'[t] = r /\ current'[r.actor] = t /\ r.actor \in Actor
                    /\ \A a \in Actor : a # r.actor => current'[a] = current[a]
                    /\ unsaid' = unsaid \cup {t} /\ announced' = announced
                    /\ run' = run /\ gone' = gone /\ phase' = phase
<1>1. Facts BY CreateFacts DEF BoardInv, TaskRecord, control
<1> HIDE DEF Facts
<1>2. task[t].status = "none" /\ t # NoTask BY DEF Fresh, Task, NoTask
<1>3. \A a \in Actor : current[a] \in Task \cup {NoTask} BY DEF BoardInv, TypeOK
<1>4. PointerIsOpen'
  <2> SUFFICES ASSUME NEW a \in Actor, current'[a] # NoTask
               PROVE  /\ current'[a] # NoTask /\ task'[current'[a]].status = "open"
                      /\ task'[current'[a]].actor = a
    BY DEF PointerIsOpen, Open, Owner
  <2>1. CASE a = r.actor BY <1>1, <1>2, <2>1 DEF Facts
  <2>2. CASE a # r.actor
    <3>1. current'[a] = current[a] BY <1>1, <2>2 DEF Facts
    <3>2. Open(current[a]) /\ Owner(current[a]) = a
      BY <3>1 DEF BoardInv, PointerIsOpen
    <3>3. current[a] # t BY <1>2, <3>2 DEF Open
    <3> QED BY <1>1, <1>3, <3>1, <3>2, <3>3 DEF Facts, Open, Owner
  <2> QED BY <2>1, <2>2
<1>5. OpenIsCurrentOrGone'
  BY <1>1 DEF Facts, BoardInv, OpenIsCurrentOrGone, Open
<1>6. ResetRunIsGone' BY <1>1 DEF Facts, BoardInv, ResetRunIsGone
<1>7. announced \subseteq Task /\ unsaid \subseteq Task BY DEF BoardInv, TypeOK
<1>8. t \notin announced BY <1>2 DEF BoardInv, NamedExist
<1>9. AnnouncedHasRun'
  BY <1>1, <1>7, <1>8 DEF Facts, BoardInv, AnnouncedHasRun, Open
<1>10. NamedExist'
  BY <1>1, <1>7 DEF Facts, BoardInv, NamedExist
<1> QED BY <1>4, <1>5, <1>6, <1>9, <1>10 DEF Board

\* A task is completed, possibly long after its actor was given another.
LEMMA BoardComplete ==
  ASSUME BoardInv, NEW t \in Task, completeTask(t), UNCHANGED control
  PROVE  Board'
<1> DEFINE Facts ==
      /\ task'[t].status = "done" /\ task'[t].run = task[t].run
      /\ \A u \in Task : u # t => task'[u] = task[u]
      /\ \A a \in Actor : current'[a] = current[a] \/ current'[a] = NoTask
      /\ current'[Owner(t)] # t
      /\ UNCHANGED <<unsaid, announced, crossed>>
      /\ run' = run /\ gone' = gone /\ phase' = phase
<1>1. Facts BY CompleteFacts DEF BoardInv, control
<1> HIDE DEF Facts
<1>2. \A a \in Actor : current[a] \in Task \cup {NoTask} BY DEF BoardInv, TypeOK
<1>3. announced \subseteq Task BY DEF BoardInv, TypeOK
<1>4. PointerIsOpen'
  <2> SUFFICES ASSUME NEW a \in Actor, current'[a] # NoTask
               PROVE  /\ task'[current'[a]].status = "open"
                      /\ task'[current'[a]].actor = a
    BY DEF PointerIsOpen, Open, Owner
  <2>1. current'[a] = current[a] BY <1>1 DEF Facts
  <2>2. Open(current[a]) /\ Owner(current[a]) = a
    BY <2>1 DEF BoardInv, PointerIsOpen
  <2>3. current[a] # t BY <1>1, <2>1, <2>2 DEF Facts
  <2> QED BY <1>1, <1>2, <2>1, <2>2, <2>3 DEF Facts, Open, Owner
<1>5. OpenIsCurrentOrGone'
  BY <1>1 DEF Facts, BoardInv, OpenIsCurrentOrGone, Open
<1>6. ResetRunIsGone' BY <1>1 DEF Facts, BoardInv, ResetRunIsGone
<1>7. AnnouncedHasRun'
  BY <1>1, <1>3 DEF Facts, BoardInv, AnnouncedHasRun, Open
<1>8. NamedExist' BY <1>1 DEF Facts, BoardInv, NamedExist
<1> QED BY <1>4, <1>5, <1>6, <1>7, <1>8 DEF Board

\* The board is cleared: no task is open, no pointer set.
LEMMA BoardClear ==
  ASSUME BoardInv, clearTasks, phase' = "reset" => run' \in gone'
  PROVE  Board'
<1> DEFINE Facts ==
      /\ \A t \in Task : task'[t].status # "open"
      /\ \A t \in Task : task[t].status # "none" => task'[t].status # "none"
      /\ \A a \in Actor : current'[a] = NoTask
      /\ UNCHANGED <<unsaid, announced, crossed>>
<1>1. Facts BY ClearFacts DEF BoardInv
<1> HIDE DEF Facts
<1>2. announced \subseteq Task BY DEF BoardInv, TypeOK
<1>3. PointerIsOpen' BY <1>1 DEF Facts, PointerIsOpen
<1>4. OpenIsCurrentOrGone' BY <1>1 DEF Facts, OpenIsCurrentOrGone, Open
<1>5. ResetRunIsGone' BY DEF ResetRunIsGone
<1>6. AnnouncedHasRun' BY <1>1, <1>2 DEF Facts, AnnouncedHasRun, Open
<1>7. NamedExist' BY <1>1 DEF Facts, BoardInv, NamedExist
<1> QED BY <1>3, <1>4, <1>5, <1>6, <1>7 DEF Board

LEMMA BoardStep ==
  ASSUME BoardInv, [Next]_vars
  PROVE  BoardInv'
<1>0. TypeOK' /\ RoomForRun' BY TypeStep DEF BoardInv
<1>1. ASSUME NEW t \in Task, StartTask(t) PROVE Board'
  <2> DEFINE r == [status |-> "open", actor |-> "agent-a", parent |-> NoTask,
                    trace |-> t, run |-> run, by |-> NoTask,
                    authority |-> effectiveAuthorityFor("agent-a", profile)]
  <2>1. r \in TaskRecord BY StartRecord DEF BoardInv
  <2>2. createTask(t, r) /\ Fresh(t) /\ UNCHANGED control BY <1>1 DEF StartTask
  <2>3. r.status = "open" /\ r.run = run OBVIOUS
  <2> HIDE DEF r
  <2> QED BY <2>1, <2>2, <2>3, BoardCreate
<1>2. ASSUME NEW t \in Task, NEW n \in Task, NEW requested \in Requested,
             Delegate(t, n, requested)
      PROVE  Board'
  <2>1. PICK r \in TaskRecord :
          createTask(n, r) /\ r.status = "open" /\ r.run = run
    BY <1>2, DelegateRecord DEF BoardInv
  <2>2. Fresh(n) /\ UNCHANGED control BY <1>2 DEF Delegate
  <2> QED BY <2>1, <2>2, BoardCreate
<1>3. ASSUME NEW t \in Task, Announce(t) PROVE Board'
  <2>1. task[t].status # "none" BY <1>3 DEF Announce, BoardInv, NamedExist
  <2> QED BY <1>3, <2>1 DEF Announce, control, BoardInv, Board, PointerIsOpen,
        OpenIsCurrentOrGone, ResetRunIsGone, AnnouncedHasRun, NamedExist, Open, Owner
<1>4. ASSUME NEW t \in Task, AnnounceFails(t) PROVE Board'
  BY <1>4 DEF AnnounceFails, control, BoardInv, Board, PointerIsOpen,
     OpenIsCurrentOrGone, ResetRunIsGone, AnnouncedHasRun, NamedExist, Open, Owner
<1>5. ASSUME NEW t \in Task, Complete(t) PROVE Board'
  <2>1. UNCHANGED control BY <1>5 DEF Complete
  <2>2. CASE completeTask(t) BY <2>1, <2>2, BoardComplete
  <2>3. CASE UNCHANGED board BY <2>1, <2>3, BoardIdle DEF control
  <2> QED BY <1>5, <2>2, <2>3 DEF Complete
<1>6. ASSUME NEW t \in Task,
             Deliver(t) \/ Bootstrap(t) \/ Fetch(t) \/ Turn(t) \/ Stop(t)
      PROVE  Board'
  <2>1. UNCHANGED <<control, board>>
    BY <1>6 DEF Deliver, Bootstrap, Fetch, Turn, Stop
  <2> QED BY <2>1, BoardIdle DEF control
<1>7. ASSUME NEW a \in Actor,
             TokenExpires(a) \/ Disconnect(a) \/ Reconnect(a) \/ RestartAgent(a)
      PROVE  Board'
  <2>1. UNCHANGED <<control, board>>
    BY <1>7 DEF TokenExpires, Disconnect, Reconnect, RestartAgent
  <2> QED BY <2>1, BoardIdle DEF control
<1>8. ASSUME NEW p \in Profile, SwitchProfile(p) PROVE Board'
  BY <1>8, BoardIdle DEF SwitchProfile
<1>9. ASSUME SwitchRun PROVE Board'
  BY <1>9, BoardClear DEF SwitchRun
<1>10. ASSUME ResetBoard PROVE Board'
  <2>1. run' \in gone' BY <1>10, ChainAssumption DEF ResetBoard, BoardInv, TypeOK
  <2> QED BY <1>10, <2>1, BoardClear DEF ResetBoard
<1>11. ASSUME ResetRun PROVE Board'
  <2>1. run \in gone /\ UNCHANGED board /\ gone' = gone /\ phase' = "none"
    BY <1>11 DEF ResetRun, BoardInv, ResetRunIsGone
  <2>2. OpenIsCurrentOrGone'
    BY <2>1 DEF BoardInv, OpenIsCurrentOrGone, Open, board
  <2>3. PointerIsOpen' /\ ResetRunIsGone' /\ AnnouncedHasRun' /\ NamedExist'
    BY <2>1 DEF BoardInv, PointerIsOpen, ResetRunIsGone, AnnouncedHasRun,
       NamedExist, Open, Owner, board
  <2> QED BY <2>2, <2>3 DEF Board
<1>12. ASSUME UNCHANGED vars PROVE Board'
  BY <1>12, BoardIdle DEF vars, control
<1>13. Board'
  BY <1>1, <1>2, <1>3, <1>4, <1>5, <1>6, <1>7, <1>8, <1>9, <1>10, <1>11, <1>12
     DEF Next, Requests, Runtime
<1> QED BY <1>0, <1>13 DEF Board, BoardInv

LEMMA BoardInit == Init => BoardInv
<1> SUFFICES ASSUME Init PROVE BoardInv
  OBVIOUS
<1>1. NoRecord \in TaskRecord
  BY ChainAssumption DEF NoRecord, TaskRecord, Status, Actor, Authority
<1>2. TypeOK
  <2>1. /\ profile \in Profile /\ run \in 1..MaxRun /\ faults \in 0..MaxFault
        /\ phase \in {"none", "switch", "reset"} /\ gone \in SUBSET (1..MaxRun)
    BY ChainAssumption DEF Init, Profile
  <2>2. task \in [Task -> TaskRecord] BY <1>1 DEF Init
  <2>3. loop \in [Task -> LoopRecord] BY ChainAssumption DEF Init, LoopRecord, PC
  <2> QED BY <2>1, <2>2, <2>3 DEF Init, TypeOK, TaskRecord, LoopRecord
<1> QED BY <1>2 DEF Init, BoardInv, RoomForRun, PointerIsOpen, OpenIsCurrentOrGone,
     ResetRunIsGone, AnnouncedHasRun, NamedExist, NoRecord, Open

THEOREM BoardCorrect == Spec => []BoardInv
BY BoardInit, BoardStep, PTL DEF Spec

\* The types, for any bounds.
THEOREM TypeCorrect == Spec => []TypeOK
<1>1. BoardInv => TypeOK BY DEF BoardInv
<1> QED BY <1>1, BoardCorrect, PTL

\* A token is never bound to a task that is over (state.js).
THEOREM PointerCorrect == Spec => []PointerIsOpen
<1>1. BoardInv => PointerIsOpen BY DEF BoardInv
<1> QED BY <1>1, BoardCorrect, PTL

\* No announced task outlives its run on the board (demo.js against tasks.js
\* and delegations.js).
THEOREM AnnouncedCorrect == Spec => []AnnouncedIsCurrent
<1>1. BoardInv => AnnouncedIsCurrent
  BY DEF BoardInv, TypeOK, AnnouncedIsCurrent, AnnouncedHasRun, OpenIsCurrentOrGone
<1> QED BY <1>1, BoardCorrect, PTL

\* A pointer is lost only with its task (state.js completeTask).
THEOREM PointerSurvives == Spec => NewerTaskSurvives
<1> DEFINE Kept(a) == current[a] # NoTask /\ current'[a] = NoTask =>
                        task'[current[a]].status # "open"
<1>1. ASSUME BoardInv, [Next]_vars
      PROVE  \A a \in Actor : Kept(a)
  <2> SUFFICES ASSUME NEW a \in Actor, current[a] # NoTask, current'[a] = NoTask
               PROVE  task'[current[a]].status # "open"
    OBVIOUS
  <2>0. current[a] \in Task BY <1>1 DEF BoardInv, TypeOK
  <2>1. ASSUME NEW t \in Task, NEW r \in TaskRecord, createTask(t, r) PROVE FALSE
    <3>1. current'[a] = current[a] \/ current'[a] = t
      BY <1>1, <2>1, CreateFacts DEF BoardInv
    <3> QED BY <3>1 DEF Task, NoTask
  <2>2. ASSUME NEW t \in Task, StartTask(t) PROVE FALSE
    BY <1>1, <2>1, <2>2, StartRecord DEF StartTask, BoardInv
  <2>3. ASSUME NEW t \in Task, NEW n \in Task, NEW requested \in Requested,
               Delegate(t, n, requested)
        PROVE  FALSE
    BY <1>1, <2>1, <2>3, DelegateRecord DEF BoardInv
  <2>4. ASSUME NEW t \in Task, completeTask(t) PROVE task'[current[a]].status # "open"
    <3>1. current[a] = t /\ task'[t].status = "done"
      BY <1>1, <2>4, CompleteFacts DEF BoardInv
    <3> QED BY <3>1
  <2>5. CASE clearTasks
    BY <1>1, <2>0, <2>5, ClearFacts DEF BoardInv
  <2>6. CASE current' = current
    BY <2>6
  <2> QED
    BY <1>1, <2>2, <2>3, <2>4, <2>5, <2>6
       DEF Next, Requests, Runtime, Announce, AnnounceFails, Deliver, Bootstrap, Fetch,
           Turn, Stop, Complete, TokenExpires, Disconnect, Reconnect, RestartAgent,
           SwitchProfile, SwitchRun, ResetBoard, ResetRun, vars, board
<1>2. BoardInv /\ [Next]_vars => [\A a \in Actor : Kept(a)]_vars BY <1>1
<1> QED BY <1>2, BoardCorrect, PTL DEF Spec, NewerTaskSurvives
-----------------------------------------------------------------------------
(* What a task inherits. A task is delegated by the loop of another, and    *)
(* only announced tasks have loops; while no actor was given a second task, *)
(* one task of an actor is live, and its pointer names it while it is open. *)

LoopsAreAnnounced ==
  /\ \A t \in Task : ~At(t, "none") => t \in announced
  /\ \A a \in Actor : inbox[a] \subseteq announced
DelegatorsExist ==
  \A t \in Task : task[t].by # NoTask => task[task[t].by].status # "none"
OneIsLive == ~crossed =>
  \A t, u \in Task : Live(t) /\ Live(u) /\ Owner(t) = Owner(u) => t = u
OpenIsPointedTo == ~crossed => \A t \in Task : Open(t) => current[Owner(t)] = t
Inherits(t) == /\ task[t].parent = task[t].by
               /\ task[t].trace = task[task[t].by].trace
               /\ task[t].run = task[task[t].by].run
HopsAreAccurate == ~crossed => \A t \in Task : task[t].by # NoTask => Inherits(t)

Lineage == /\ LoopsAreAnnounced /\ DelegatorsExist /\ AuthorityNeverGrows
           /\ OneIsLive /\ OpenIsPointedTo /\ HopsAreAccurate
ChainInv == BoardInv /\ Lineage

\* Something is live only when the agents, or a request, know of it.
LEMMA LiveIsKnown ==
  ASSUME BoardInv, LoopsAreAnnounced, NEW t \in Task, Live(t)
  PROVE  task[t].status # "none"
<1>1. Owner(t) \in Actor BY DEF BoardInv, TypeOK, Owner
<1>2. Open(t) \/ t \in unsaid \/ t \in announced
  BY <1>1 DEF Live, LoopsAreAnnounced, At, Busy
<1> QED BY <1>2 DEF BoardInv, NamedExist, Open

\* A record is never rewritten; its status only goes from open to an end.
TaskFades == \A t \in Task :
  /\ task'[t].actor = task[t].actor /\ task'[t].parent = task[t].parent
  /\ task'[t].trace = task[t].trace /\ task'[t].run = task[t].run
  /\ task'[t].by = task[t].by /\ task'[t].authority = task[t].authority
  /\ task[t].status # "none" => task'[t].status # "none"
  /\ task'[t].status = "open" => task[t].status = "open"
\* No loop starts.
LoopsFade == \A t \in Task :
  /\ loop'[t].pc \in Busy => loop[t].pc \in Busy
  /\ ~At(t, "none")' => ~At(t, "none")

LEMMA CompleteFades ==
  ASSUME BoardInv, Lineage, NEW t \in Task, completeTask(t)
  PROVE  /\ TaskFades /\ OpenIsPointedTo'
         /\ UNCHANGED <<unsaid, announced, crossed>>
<1>1. task \in [Task -> TaskRecord] /\ current \in [Actor -> Task \cup {NoTask}]
  BY DEF BoardInv, TypeOK, TaskRecord
<1>2. task' = [task EXCEPT ![t].status = "done"] BY DEF completeTask
<1>3. TaskFades BY <1>1, <1>2 DEF TaskFades, TaskRecord
<1>4. /\ UNCHANGED <<unsaid, announced, crossed>>
      /\ task'[t].status = "done"
      /\ \A a \in Actor : current'[a] # current[a] => current[a] = t
  BY CompleteFacts DEF BoardInv
<1>5. OpenIsPointedTo'
  <2> SUFFICES ASSUME ~crossed, NEW u \in Task, task'[u].status = "open"
               PROVE  current'[task'[u].actor] = u
    BY <1>4 DEF OpenIsPointedTo, Open, Owner
  <2>1. Open(u) /\ u # t BY <1>3, <1>4 DEF TaskFades, Open, Task, NoTask
  <2>2. current[Owner(u)] = u /\ Owner(u) \in Actor
    BY <1>1, <2>1 DEF Lineage, OpenIsPointedTo, Owner, TaskRecord
  <2> QED BY <1>3, <1>4, <2>1, <2>2 DEF TaskFades, Owner
<1> QED BY <1>3, <1>4, <1>5

LEMMA ClearFades ==
  ASSUME BoardInv, clearTasks
  PROVE  /\ TaskFades /\ OpenIsPointedTo'
         /\ UNCHANGED <<unsaid, announced, crossed>>
<1>1. task \in [Task -> TaskRecord]
  BY DEF BoardInv, TypeOK, TaskRecord
<1>2. \A t \in Task :
        task'[t] = IF Open(t) THEN [task[t] EXCEPT !.status = "cleared"] ELSE task[t]
  BY DEF clearTasks
<1>3. TaskFades BY <1>1, <1>2 DEF TaskFades, TaskRecord, Open
<1>4. OpenIsPointedTo' BY ClearFacts DEF BoardInv, OpenIsPointedTo, Open
<1> QED BY <1>3, <1>4 DEF clearTasks

\* A step that creates nothing and after which no more is live.
LEMMA LineageFades ==
  ASSUME BoardInv, Lineage, TaskFades, UNCHANGED crossed,
         \A t \in Task : Live(t)' => Live(t),
         LoopsAreAnnounced', OpenIsPointedTo'
  PROVE  Lineage'
<1>1. task \in [Task -> TaskRecord] BY DEF BoardInv, TypeOK, TaskRecord
<1>2. \A t \in Task : task[t].by # NoTask => task[t].by \in Task
  BY <1>1 DEF TaskRecord
<1>3. DelegatorsExist'
  BY <1>2 DEF Lineage, DelegatorsExist, TaskFades
<1>4. AuthorityNeverGrows'
  BY <1>2 DEF Lineage, AuthorityNeverGrows, TaskFades, Owner
<1>5. OneIsLive'
  <2> SUFFICES ASSUME ~crossed, NEW t \in Task, NEW u \in Task,
                      Live(t)', Live(u)', Owner(t)' = Owner(u)'
               PROVE  t = u
    BY DEF OneIsLive
  <2>1. Live(t) /\ Live(u) /\ Owner(t) = Owner(u) BY DEF TaskFades, Owner
  <2> QED BY <2>1 DEF Lineage, OneIsLive
<1>6. HopsAreAccurate'
  BY <1>2 DEF Lineage, HopsAreAccurate, Inherits, TaskFades
<1> QED BY <1>3, <1>4, <1>5, <1>6 DEF Lineage

\* Nor does anything become known to an agent.
LEMMA LineageQuiet ==
  ASSUME BoardInv, Lineage, TaskFades, LoopsFade, UNCHANGED <<announced, crossed>>,
         unsaid' \subseteq unsaid, \A a \in Actor : inbox'[a] \subseteq inbox[a],
         OpenIsPointedTo'
  PROVE  Lineage'
<1>1. \A t \in Task : Owner(t) \in Actor BY DEF BoardInv, TypeOK, Owner
<1>2. ASSUME NEW t \in Task, Live(t)' PROVE Live(t)
  <2>1. Owner(t)' = Owner(t) BY DEF TaskFades, Owner
  <2>2. Open(t)' => Open(t) BY DEF TaskFades, Open
  <2>3. loop'[t].pc \in Busy => loop[t].pc \in Busy BY DEF LoopsFade
  <2> QED BY <1>1, <1>2, <2>1, <2>2, <2>3 DEF Live
<1>3. LoopsAreAnnounced' BY DEF Lineage, LoopsAreAnnounced, LoopsFade
<1> QED BY <1>2, <1>3, LineageFades

\* A task is created, by nobody or by a task that exists, with no more than
\* its authority, and, while nothing has crossed, with its context.
LEMMA LineageCreate ==
  ASSUME BoardInv, Lineage, NEW n \in Task, NEW r \in TaskRecord,
         createTask(n, r), Fresh(n), LoopsFade, UNCHANGED inbox,
         r.by # NoTask =>
           /\ task[r.by].status # "none"
           /\ r.authority \subseteq effectiveAuthorityFor(r.actor, profile)
           /\ \/ r.authority \subseteq task[r.by].authority
              \/ r.actor = "agent-c" /\ r.authority = AGENT_C_AUTHORITY["bad"],
         ~crossed /\ r.by # NoTask =>
           /\ r.parent = r.by
           /\ r.trace = task[r.by].trace /\ r.run = task[r.by].run
  PROVE  Lineage'
<1>0. /\ task \in [Task -> TaskRecord] /\ profile \in Profile
      /\ r.by \in Task \cup {NoTask} /\ n # NoTask
      /\ \A t \in Task : Owner(t) \in Actor
      /\ \A t \in Task : task[t].by # NoTask => task[t].by \in Task
  BY DEF BoardInv, TypeOK, TaskRecord, Owner, Task, NoTask
<1>1. /\ task'[n] = r /\ \A t \in Task : t # n => task'[t] = task[t]
      /\ current'[r.actor] = n /\ r.actor \in Actor
      /\ \A a \in Actor : a # r.actor => current'[a] = current[a]
      /\ unsaid' = unsaid \cup {n} /\ announced' = announced
  BY CreateFacts DEF BoardInv, TaskRecord
<1>2. /\ task[n].status = "none"
      /\ \A t \in Task : task[t].by # NoTask => task[t].by # n
      /\ r.by # n
  BY <1>0 DEF Fresh, Lineage, DelegatorsExist
<1>3. ~crossed' => /\ ~crossed
                   /\ \A u \in Task : u # n /\ Owner(u) = r.actor => ~Live(u)
  <2>1. \A u \in Task : Live(u) => task[u].status # "none"
    BY LiveIsKnown DEF Lineage
  <2> QED BY <2>1 DEF createTask
<1>4. ASSUME NEW t \in Task, t # n
      PROVE  Owner(t)' = Owner(t) /\ (Open(t)' => Open(t)) /\ (Live(t)' => Live(t))
  <2>1. Owner(t)' = Owner(t) /\ (Open(t)' => Open(t))
    BY <1>1, <1>4 DEF Owner, Open
  <2>2. loop'[t].pc \in Busy => loop[t].pc \in Busy BY DEF LoopsFade
  <2> QED BY <1>1, <1>4, <2>1, <2>2 DEF Live
<1>5. LoopsAreAnnounced'
  BY <1>1 DEF Lineage, LoopsAreAnnounced, LoopsFade
<1>6. DelegatorsExist'
  BY <1>0, <1>1, <1>2 DEF Lineage, DelegatorsExist
<1>7. AuthorityNeverGrows'
  <2> SUFFICES ASSUME NEW t \in Task, task'[t].by # NoTask
               PROVE  /\ \E p \in Profile : task'[t].authority
                           \subseteq effectiveAuthorityFor(task'[t].actor, p)
                      /\ \/ task'[t].authority \subseteq task'[task'[t].by].authority
                         \/ /\ task'[t].actor = "agent-c"
                            /\ task'[t].authority = AGENT_C_AUTHORITY["bad"]
    BY DEF AuthorityNeverGrows, Owner
  <2>1. CASE t = n
    BY <1>0, <1>1, <1>2, <2>1
  <2>2. CASE t # n
    BY <1>0, <1>1, <1>2, <2>2 DEF Lineage, AuthorityNeverGrows, Owner
  <2> QED BY <2>1, <2>2
<1>8. OneIsLive'
  <2> SUFFICES ASSUME ~crossed', NEW t \in Task, NEW u \in Task,
                      Live(t)', Live(u)', Owner(t)' = Owner(u)', t # u
               PROVE  FALSE
    BY DEF OneIsLive
  <2>1. Owner(n)' = r.actor BY <1>1 DEF Owner
  <2>2. CASE t # n /\ u # n
    BY <1>3, <1>4, <2>2 DEF Lineage, OneIsLive
  <2>3. CASE t = n
    BY <1>3, <1>4, <2>1, <2>3
  <2>4. CASE u = n
    BY <1>3, <1>4, <2>1, <2>4
  <2> QED BY <2>2, <2>3, <2>4
<1>9. OpenIsPointedTo'
  <2> SUFFICES ASSUME ~crossed', NEW t \in Task, Open(t)'
               PROVE  current'[Owner(t)'] = t
    BY DEF OpenIsPointedTo
  <2>1. CASE t = n BY <1>1, <2>1 DEF Owner
  <2>2. CASE t # n
    <3>1. Open(t) /\ Owner(t)' = Owner(t) BY <1>4, <2>2
    <3>2. Live(t) BY <3>1 DEF Live
    <3>3. Owner(t) # r.actor BY <1>3, <2>2, <3>2
    <3>4. current[Owner(t)] = t
      BY <1>3, <3>1 DEF Lineage, OpenIsPointedTo
    <3> QED BY <1>0, <1>1, <3>1, <3>3, <3>4
  <2> QED BY <2>1, <2>2
<1>10. HopsAreAccurate'
  <2> SUFFICES ASSUME ~crossed', NEW t \in Task, task'[t].by # NoTask
               PROVE  /\ task'[t].parent = task'[t].by
                      /\ task'[t].trace = task'[task'[t].by].trace
                      /\ task'[t].run = task'[task'[t].by].run
    BY DEF HopsAreAccurate, Inherits
  <2>1. CASE t = n BY <1>0, <1>1, <1>2, <1>3, <2>1
  <2>2. CASE t # n
    BY <1>0, <1>1, <1>2, <1>3, <2>2 DEF Lineage, HopsAreAccurate, Inherits
  <2> QED BY <2>1, <2>2
<1> QED BY <1>5, <1>6, <1>7, <1>8, <1>9, <1>10 DEF Lineage

LEMMA GoFades ==
  ASSUME BoardInv, NEW t \in Task, NEW p \in PC, Go(t, p), loop[t].pc \in Busy
  PROVE  LoopsFade
<1>1. loop \in [Task -> LoopRecord] BY DEF BoardInv, TypeOK, LoopRecord
<1>2. \A u \in Task : u # t => loop'[u] = loop[u] BY <1>1 DEF Go
<1> QED BY <1>2 DEF LoopsFade, At, Busy

LEMMA LineageStart ==
  ASSUME BoardInv, Lineage, NEW t \in Task, StartTask(t)
  PROVE  Lineage'
<1> DEFINE r == [status |-> "open", actor |-> "agent-a", parent |-> NoTask,
                  trace |-> t, run |-> run, by |-> NoTask,
                  authority |-> effectiveAuthorityFor("agent-a", profile)]
<1>1. r \in TaskRecord /\ r.by = NoTask BY StartRecord DEF BoardInv
<1>2. createTask(t, r) /\ Fresh(t) BY DEF StartTask
<1>3. LoopsFade /\ UNCHANGED inbox
  BY DEF StartTask, agents, LoopsFade, At
<1> HIDE DEF r
<1> QED BY <1>1, <1>2, <1>3, LineageCreate

\* A delegating loop works under its own task while nothing has crossed, and
\* its task is the current run's, since it was announced.
LEMMA LineageDelegate ==
  ASSUME BoardInv, Lineage, NEW t \in Task, NEW n \in Task,
         NEW requested \in Requested, Delegate(t, n, requested)
  PROVE  Lineage'
<1> DEFINE r == Delegated(t, n, requested)
           a == Owner(t)
<1>0. /\ loop \in [Task -> LoopRecord] /\ profile \in Profile /\ a \in Actor
      /\ token[a].task \in Task \cup {NoTask} /\ t # NoTask
  BY DEF BoardInv, TypeOK, LoopRecord, Owner, Task, NoTask
<1>1. /\ createTask(n, r) /\ r \in TaskRecord /\ r.by = t
      /\ r.run = run /\ r.parent = current[a]
      /\ r.parent # NoTask => r.trace = task[r.parent].trace
      /\ r.authority \subseteq effectiveAuthorityFor(r.actor, profile)
      /\ \/ r.authority \subseteq task[t].authority
         \/ r.actor = "agent-c" /\ r.authority = AGENT_C_AUTHORITY["bad"]
  BY DelegatedFacts DEF BoardInv
<1>2. Fresh(n) /\ At(t, "loop") /\ Authentic(a) /\ UNCHANGED inbox
  BY DEF Delegate
<1>3. LoopsFade
  <2>1. \A u \in Task : u # t => loop'[u] = loop[u]
    BY <1>0 DEF Delegate
  <2> QED BY <1>2, <2>1 DEF LoopsFade, At, Busy, PC
<1>4. Live(t) BY <1>2 DEF Live, At, Busy, PC
<1>5. t \in announced /\ task[t].status # "none"
  BY <1>2, <1>4, LiveIsKnown DEF Lineage, LoopsAreAnnounced, At
<1>6. ASSUME ~crossed
      PROVE  current[a] = t /\ task[t].run = run
  <2>1. token[a].task \in Task /\ Open(token[a].task) /\ Owner(token[a].task) = a
    BY <1>0, <1>2 DEF Authentic, Open
  <2>2. token[a].task = t
    BY <1>4, <1>6, <2>1 DEF Lineage, OneIsLive, Live
  <2>3. Open(t) BY <2>1, <2>2
  <2> QED BY <1>5, <1>6, <2>3 DEF Lineage, OpenIsPointedTo, BoardInv,
             AnnouncedHasRun, OpenIsCurrentOrGone
<1> HIDE DEF r, a
<1>7. ~crossed => /\ r.parent = r.by
                  /\ r.trace = task[r.by].trace /\ r.run = task[r.by].run
  BY <1>0, <1>1, <1>6
<1> QED BY <1>1, <1>2, <1>3, <1>5, <1>7, LineageCreate

LEMMA LineageStep ==
  ASSUME BoardInv, Lineage, [Next]_vars
  PROVE  Lineage'
<1>0. /\ loop \in [Task -> LoopRecord] /\ inbox \in [Actor -> SUBSET Task]
      /\ \A t \in Task : Owner(t) \in Actor
      /\ {"bootstrap", "fetch", "loop", "rebootstrap", "complete"} \subseteq Busy
      /\ Busy \subseteq PC /\ "ended" \in PC
  BY DEF BoardInv, TypeOK, LoopRecord, Owner, Busy, PC
<1>1. UNCHANGED task => TaskFades
  BY DEF TaskFades
<1>2. UNCHANGED <<task, current, crossed>> => OpenIsPointedTo'
  BY DEF Lineage, OpenIsPointedTo, Open, Owner
<1>3. UNCHANGED loop => LoopsFade
  BY DEF LoopsFade, At
<1>4. ASSUME NEW t \in Task, Announce(t) PROVE Lineage'
  <2>1. /\ UNCHANGED <<task, current, crossed>> /\ t \in unsaid
        /\ unsaid' = unsaid \ {t} /\ announced' = announced \cup {t}
    BY <1>4 DEF Announce
  <2>2. LoopsFade
    BY <1>4 DEF Announce, LoopsFade, At, Ended, Busy
  <2>3. \A a \in Actor : \/ inbox'[a] = inbox[a]
                         \/ a = Owner(t) /\ inbox'[a] = inbox[a] \cup {t}
    BY <1>4 DEF Announce
  <2>4. LoopsAreAnnounced'
    BY <2>1, <2>2, <2>3 DEF Lineage, LoopsAreAnnounced, LoopsFade
  <2>5. ASSUME NEW u \in Task, Live(u)' PROVE Live(u)
    <3>1. /\ Owner(u)' = Owner(u) /\ (Open(u)' <=> Open(u))
          /\ loop'[u].pc \in Busy => loop[u].pc \in Busy
      BY <2>1, <2>2 DEF Owner, Open, LoopsFade
    <3>2. u \in inbox'[Owner(u)] => u \in inbox[Owner(u)] \/ u \in unsaid
      BY <1>0, <2>1, <2>3
    <3> QED BY <2>1, <2>5, <3>1, <3>2 DEF Live
  <2> QED BY <1>1, <1>2, <2>1, <2>4, <2>5, LineageFades
<1>5. ASSUME NEW t \in Task, AnnounceFails(t) PROVE Lineage'
  <2>1. /\ UNCHANGED <<task, current, crossed, announced, inbox>>
        /\ unsaid' \subseteq unsaid
    BY <1>5 DEF AnnounceFails
  <2>2. \A u \in Task : \/ loop'[u] = loop[u]
                        \/ loop[u].pc = "delegating" /\ loop'[u].pc = "loop"
    BY <1>0, <1>5 DEF AnnounceFails, At, LoopRecord
  <2>3. LoopsFade BY <2>2 DEF LoopsFade, At, Busy, PC
  <2> QED BY <1>1, <1>2, <2>1, <2>3, LineageQuiet
<1>6. ASSUME NEW t \in Task, Deliver(t) PROVE Lineage'
  <2>1. /\ UNCHANGED <<task, current, crossed, announced, unsaid>>
        /\ t \in inbox[Owner(t)]
    BY <1>6 DEF Deliver, board
  <2>2. \A a \in Actor : inbox'[a] \subseteq inbox[a]
    BY <1>0, <1>6 DEF Deliver
  <2>3. \A u \in Task : u # t => loop'[u] = loop[u]
    BY <1>0, <1>6 DEF Deliver, Go
  <2>4. t \in announced BY <1>0, <2>1 DEF Lineage, LoopsAreAnnounced
  <2>5. LoopsAreAnnounced'
    BY <2>1, <2>2, <2>3, <2>4 DEF Lineage, LoopsAreAnnounced, At
  <2>6. ASSUME NEW u \in Task, Live(u)' PROVE Live(u)
    <3>1. CASE u = t BY <2>1, <3>1 DEF Live
    <3>2. CASE u # t
      <4>1. /\ Owner(u)' = Owner(u) /\ (Open(u)' <=> Open(u))
            /\ loop'[u] = loop[u] /\ inbox'[Owner(u)] \subseteq inbox[Owner(u)]
        BY <1>0, <2>1, <2>2, <2>3, <3>2 DEF Owner, Open
      <4> QED BY <2>1, <2>6, <4>1 DEF Live
    <3> QED BY <3>1, <3>2
  <2> QED BY <1>1, <1>2, <2>1, <2>5, <2>6, LineageFades
<1>7. ASSUME NEW t \in Task, Bootstrap(t) \/ Fetch(t) \/ Stop(t) PROVE Lineage'
  <2>1. /\ loop[t].pc \in Busy
        /\ UNCHANGED <<task, current, crossed, announced, unsaid, inbox>>
    BY <1>0, <1>7 DEF Bootstrap, Fetch, Stop, board, At
  <2>2. PICK p \in PC : Go(t, p)
    BY <1>0, <1>7 DEF Bootstrap, Fetch, Stop
  <2>3. LoopsFade BY <2>1, <2>2, GoFades
  <2> QED BY <1>1, <1>2, <2>1, <2>3, LineageQuiet
<1>8. ASSUME NEW t \in Task, Turn(t) PROVE Lineage'
  <2>1. UNCHANGED <<task, current, crossed, announced, unsaid, inbox>>
    BY <1>8 DEF Turn, board
  <2>2. \A u \in Task : loop'[u].pc = loop[u].pc
    BY <1>0, <1>8 DEF Turn, LoopRecord
  <2>3. LoopsFade BY <2>2 DEF LoopsFade, At
  <2> QED BY <1>1, <1>2, <2>1, <2>3, LineageQuiet
<1>9. ASSUME NEW t \in Task, Complete(t) PROVE Lineage'
  <2>1. loop[t].pc \in Busy /\ Go(t, "ended") /\ UNCHANGED inbox
    BY <1>0, <1>9 DEF Complete, At
  <2>2. LoopsFade BY <1>0, <2>1, GoFades
  <2>3. CASE completeTask(t)
    BY <2>1, <2>2, <2>3, CompleteFades, LineageQuiet
  <2>4. CASE UNCHANGED board
    BY <1>1, <1>2, <2>1, <2>2, <2>4, LineageQuiet DEF board
  <2> QED BY <1>9, <2>3, <2>4 DEF Complete
<1>10. ASSUME NEW a \in Actor,
              TokenExpires(a) \/ Disconnect(a) \/ Reconnect(a) \/ RestartAgent(a)
       PROVE  Lineage'
  <2>1. UNCHANGED <<task, current, crossed, announced, unsaid>>
    BY <1>10 DEF TokenExpires, Disconnect, Reconnect, RestartAgent, board
  <2>2. \A b \in Actor : inbox'[b] \subseteq inbox[b]
    BY <1>0, <1>10 DEF TokenExpires, Disconnect, Reconnect, RestartAgent
  <2>3. \A u \in Task : \/ loop'[u] = loop[u]
                        \/ loop[u].pc \in Busy /\ loop'[u] = Ended
    BY <1>0, <1>10 DEF TokenExpires, Disconnect, Reconnect, RestartAgent
  <2>4. LoopsFade BY <2>3 DEF LoopsFade, At, Ended, Busy
  <2> QED BY <1>1, <1>2, <2>1, <2>2, <2>4, LineageQuiet
<1>11. ASSUME NEW p \in Profile, SwitchProfile(p) PROVE Lineage'
  BY <1>1, <1>2, <1>3, <1>11, LineageQuiet DEF SwitchProfile, board, agents
<1>12. ASSUME SwitchRun \/ ResetBoard PROVE Lineage'
  <2>1. clearTasks /\ UNCHANGED agents BY <1>12 DEF SwitchRun, ResetBoard
  <2> QED BY <1>3, <2>1, ClearFades, LineageQuiet DEF agents
<1>13. ASSUME ResetRun \/ UNCHANGED vars PROVE Lineage'
  BY <1>1, <1>2, <1>3, <1>13, LineageQuiet DEF ResetRun, vars, board, agents
<1> QED
  BY <1>4, <1>5, <1>6, <1>7, <1>8, <1>9, <1>10, <1>11, <1>12, <1>13,
     LineageStart, LineageDelegate DEF Next, Requests, Runtime

LEMMA LineageInit == Init => Lineage
<1> SUFFICES ASSUME Init PROVE Lineage
  OBVIOUS
<1>1. \A t \in Task : /\ task[t] = NoRecord /\ ~Live(t) /\ At(t, "none")
  BY DEF Init, Live, Open, Owner, NoRecord, Actor, Busy, PC, At
<1> QED BY <1>1 DEF Init, Lineage, LoopsAreAnnounced, DelegatorsExist,
     AuthorityNeverGrows, OneIsLive, OpenIsPointedTo, HopsAreAccurate, NoRecord,
     Open, NoTask

\* Where every task comes from, for any bounds.
THEOREM ChainCorrect == Spec => []ChainInv
<1>1. Init => ChainInv BY BoardInit, LineageInit DEF ChainInv
<1>2. ChainInv /\ [Next]_vars => ChainInv'
  BY BoardStep, LineageStep DEF ChainInv
<1> QED BY <1>1, <1>2, PTL DEF Spec

\* Authority does not grow across a hop, whatever the model asks for and
\* whatever switch or reset comes between (delegations.js, policy.js).
THEOREM AuthorityCorrect == Spec => []AuthorityNeverGrows
<1>1. ChainInv => AuthorityNeverGrows BY DEF ChainInv, Lineage
<1> QED BY <1>1, ChainCorrect, PTL

\* While no actor has two tasks at a time, a call is attributed to the task
\* whose loop made it, and a child to the task that delegated it (state.js).
THEOREM ContextCorrect == Spec => []ContextIsAccurate
<1>1. ASSUME ChainInv PROVE ContextIsAccurate
  <2> SUFFICES ASSUME ~crossed, NEW t \in Task
               PROVE  /\ loop[t].pc \in Busy /\ Authentic(Owner(t))
                           => token[Owner(t)].task = t
                      /\ task[t].by # NoTask => Inherits(t)
    BY DEF ContextIsAccurate, Inherits
  <2>1. Owner(t) \in Actor /\ token[Owner(t)].task \in Task \cup {NoTask}
    BY <1>1 DEF ChainInv, BoardInv, TypeOK, Owner
  <2>2. ASSUME loop[t].pc \in Busy, Authentic(Owner(t))
        PROVE  token[Owner(t)].task = t
    BY <1>1, <2>1, <2>2 DEF ChainInv, Lineage, OneIsLive, Live, Authentic, Open
  <2> QED BY <1>1, <2>2 DEF ChainInv, Lineage, HopsAreAccurate
<1> QED BY <1>1, ChainCorrect, PTL
=============================================================================
