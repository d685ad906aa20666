-------------------------- MODULE DagEngine_proofs --------------------------
(* What holds of DagEngine for every topology and any number of attempts.    *)
(* The types, the fence, the freshness of authority and the completed run    *)
(* are proved of any requests in flight, cut short anywhere.  Evidence is    *)
(* proved of requests served one at a time, cut short anywhere; the order    *)
(* of the nodes, the end of authority, the agreement of the tables and the   *)
(* refinement of RecoverableWorkflow of requests served one at a time and to *)
(* their end.                                                                *)
EXTENDS DagEngine, TLAPS

AttemptRow == Node \X (1..MaxAttempt)

\* The types, and what a request in flight knows of the rows it is about to
\* write. An attempt, once inserted, is never deleted, so it stays true while
\* other requests run.
RowsExist(c) ==
  /\ c.pc \in {"exec", "number", "insert", "logic", "settle"}
       => c.cur[1] \in Backend
  /\ c.pc = "promote" => c.op # "sweep"
  /\ c.pc = "check" => c.cur \in AttemptRow
  /\ c.pc \in {"endAttempt", "sweepAttempt"}
       => c.cur \in AttemptRow /\ Created(c.cur)
  /\ c.op = "sweep" => /\ c.pc \in {"sweepNode", "sweepAttempt", "revoke"}
                       /\ \A a \in c.todo : a \in AttemptRow /\ Created(a)
  /\ c.pc \in {"sweepNode", "sweepAttempt"} => c.op = "sweep"

CallsAreGrounded == \A t \in Thread : RowsExist(call[t])

FenceInv == TypeOK /\ CallsAreGrounded /\ FenceNamesAttempt

-----------------------------------------------------------------------------
(* Types.                                                                  *)

\* What a handler holds: rows, and records of the type Call.
LEMMA RowFacts ==
  /\ NoRow \in Row
  /\ \A S \in SUBSET Node : S \X {0} \in SUBSET Row
  /\ AttemptRow \subseteq Row
  /\ \A n \in Node, k \in 0..MaxAttempt : <<n, k>> \in Row
  /\ \A r \in Row : r[1] \in Node /\ r[2] \in 0..MaxAttempt
BY TopologyAssumption, BoundAssumption DEF Row, NoRow, AttemptRow

LEMMA CallFacts ==
  /\ Idle \in Call /\ Evaluate \in Call /\ Closing \in Call
  /\ \A t \in Thread, rest \in SUBSET Row : Promoting(t, rest) \in Call
BY TopologyAssumption, RowFacts
   DEF Idle, Evaluate, Closing, Promoting, Call, PC, Op

LEMMA AfterRevokeTyped ==
  ASSUME NEW t \in Thread, call[t] \in Call
  PROVE  AfterRevoke(t) \in Call
<1> DEFINE c == call[t]
<1>1. [c EXCEPT !.pc = "sweepNode", !.cur = NoRow, !.revokes = {}] \in Call
  BY RowFacts DEF Call, PC
<1>2. [c EXCEPT !.pc = IF c.todo = {} THEN "reset" ELSE "invalidate",
                !.cur = NoRow, !.revokes = {}] \in Call
  BY RowFacts DEF Call, PC
<1>3. c.op \in Op
  BY DEF Call
<1> QED BY <1>1, <1>2, <1>3, CallFacts DEF AfterRevoke, Op

LEMMA BecomeTyped ==
  ASSUME NEW t \in Thread, call \in [Thread -> Call],
         NEW c \in Call, Become(t, c)
  PROVE  call' \in [Thread -> Call]
BY DEF Become

LEMMA SetStatusTyped ==
  ASSUME status \in [Node -> NodeStatus], NEW n \in Node,
         NEW s \in NodeStatus, SetStatus(n, s)
  PROVE  status' \in [Node -> NodeStatus]
BY DEF SetStatus

LEMMA AttemptTyped ==
  ASSUME attempt \in [AttemptRow -> Attempt], NEW a
  PROVE  /\ \A e \in ExecStatus :
              [attempt EXCEPT ![a].exec = e] \in [AttemptRow -> Attempt]
         /\ \A u \in AuthStatus :
              [attempt EXCEPT ![a].auth = u] \in [AttemptRow -> Attempt]
         /\ [attempt EXCEPT ![a] = [exec |-> "running", auth |-> "active"]]
              \in [AttemptRow -> Attempt]
BY DEF Attempt, ExecStatus, AuthStatus

\* One statement of a handler keeps the types. The number a backend node is
\* about to take is bounded by the guard of BackendStart.
LEMMA HandlerTyped ==
  ASSUME TypeOK, NEW t \in Thread, Handler(t)
  PROVE  TypeOK'
<1>0. /\ call \in [Thread -> Call] /\ call[t] \in Call
      /\ call[t].cur \in Row /\ call[t].cur[1] \in Node
      /\ call[t].cur[2] \in 0..MaxAttempt
      /\ call[t].todo \in SUBSET Row /\ call[t].revokes \in SUBSET Row
      /\ call[t].target \in Node
      /\ attempt \in [AttemptRow -> Attempt]
      /\ status \in [Node -> NodeStatus]
      /\ attemptNo \in [Node -> 0..MaxAttempt]
  BY RowFacts DEF TypeOK, Call, AttemptRow
<1> DEFINE c == call[t]
           TypedCall == call' \in [Thread -> Call]
<1>1. CASE Scan(t)
  <2>1. Promotable \X {0} \in SUBSET Row
    BY RowFacts DEF Promotable
  <2>2. [c EXCEPT !.pc = "promote", !.todo = Promotable \X {0}] \in Call
    BY <1>0, <2>1 DEF Call, PC
  <2>3. TypedCall
    BY <1>0, <1>1, <2>2, CallFacts, BecomeTyped DEF Scan
  <2> QED BY <1>1, <2>3 DEF Scan, TypeOK, rows, workers
<1>2. CASE Promote(t)
  <2>1. PICK r \in c.todo :
          LET rest == c.todo \ {r} IN
          /\ SetStatus(r[1], "runnable")
          /\ Become(t, IF r[1] \in Backend
                THEN [Promoting(t, rest) EXCEPT !.pc = "exec", !.cur = r]
                ELSE Promoting(t, rest))
    BY <1>2 DEF Promote
  <2>2. r \in Row /\ r[1] \in Node /\ c.todo \ {r} \in SUBSET Row
    BY <1>0, RowFacts
  <2>3. Promoting(t, c.todo \ {r}) \in Call
    BY <2>2, CallFacts
  <2>4. [Promoting(t, c.todo \ {r}) EXCEPT !.pc = "exec", !.cur = r] \in Call
    BY <2>2, <2>3 DEF Call, PC
  <2>5. TypedCall
    BY <1>0, <2>1, <2>3, <2>4, BecomeTyped
  <2>6. status' \in [Node -> NodeStatus]
    BY <1>0, <2>1, <2>2, SetStatusTyped DEF NodeStatus
  <2> QED BY <1>2, <2>5, <2>6 DEF Promote, TypeOK, workers
<1>3. CASE BackendStart(t)
  <2> DEFINE n == c.cur[1]
  <2>1. CASE /\ status[n] = "runnable" /\ attemptNo[n] < MaxAttempt
             /\ SetStatus(n, "running")
             /\ Become(t, [c EXCEPT !.pc = "number",
                                    !.cur = <<n, attemptNo[n] + 1>>])
    <3>1. attemptNo[n] + 1 \in 0..MaxAttempt
      BY <1>0, <2>1, BoundAssumption
    <3>2. <<n, attemptNo[n] + 1>> \in Row
      BY <1>0, <3>1, RowFacts
    <3>3. [c EXCEPT !.pc = "number", !.cur = <<n, attemptNo[n] + 1>>] \in Call
      BY <1>0, <3>2 DEF Call, PC
    <3>4. TypedCall
      BY <1>0, <2>1, <3>3, BecomeTyped
    <3>5. status' \in [Node -> NodeStatus]
      BY <1>0, <2>1, SetStatusTyped DEF NodeStatus
    <3> QED BY <1>3, <3>4, <3>5 DEF BackendStart, TypeOK, workers
  <2>2. CASE Become(t, Promoting(t, c.todo)) /\ UNCHANGED status
    <3>1. TypedCall
      BY <1>0, <2>2, CallFacts, BecomeTyped
    <3> QED BY <1>3, <2>2, <3>1 DEF BackendStart, TypeOK, workers
  <2> QED BY <1>3, <2>1, <2>2 DEF BackendStart
<1>4. CASE BackendNumber(t)
  <2>1. [c EXCEPT !.pc = "insert"] \in Call
    BY <1>0 DEF Call, PC
  <2>2. TypedCall
    BY <1>0, <1>4, <2>1, BecomeTyped DEF BackendNumber
  <2>3. attemptNo' \in [Node -> 0..MaxAttempt]
    BY <1>0, <1>4 DEF BackendNumber
  <2> QED BY <1>4, <2>2, <2>3 DEF BackendNumber, TypeOK, workers
<1>5. CASE BackendInsert(t)
  <2>1. [c EXCEPT !.pc = "logic"] \in Call
    BY <1>0 DEF Call, PC
  <2>2. TypedCall
    BY <1>0, <1>5, <2>1, CallFacts, BecomeTyped DEF BackendInsert
  <2>3. attempt' \in [AttemptRow -> Attempt]
    BY <1>0, <1>5, AttemptTyped DEF BackendInsert
  <2> QED BY <1>5, <2>2, <2>3 DEF BackendInsert, TypeOK, workers, AttemptRow
<1>6. CASE BackendLogic(t)
  <2>1. PICK o \in {"complete", "fail"} :
          /\ SetExec(c.cur, IF o = "complete" THEN "completed" ELSE "failed")
          /\ Become(t, [c EXCEPT !.pc = "settle", !.op = o])
    BY <1>6 DEF BackendLogic
  <2>2. [c EXCEPT !.pc = "settle", !.op = o] \in Call
    BY <1>0 DEF Call, PC, Op
  <2>3. TypedCall
    BY <1>0, <2>1, <2>2, BecomeTyped
  <2>4. attempt' \in [AttemptRow -> Attempt]
    BY <1>0, <2>1, AttemptTyped DEF SetExec, ExecStatus
  <2> QED BY <1>6, <2>3, <2>4 DEF BackendLogic, TypeOK, workers, AttemptRow
<1>7. CASE BackendSettle(t)
  <2>1. TypedCall
    BY <1>0, <1>7, CallFacts, BecomeTyped DEF BackendSettle
  <2>2. status' \in [Node -> NodeStatus]
    BY <1>0, <1>7 DEF BackendSettle, SetStatus, NodeStatus
  <2> QED BY <1>7, <2>1, <2>2 DEF BackendSettle, TypeOK, workers
<1>8. CASE Close(t)
  <2>1. \A o \in Op : [Idle EXCEPT !.pc = "stamp", !.op = o] \in Call
    BY CallFacts DEF Call, PC
  <2>2. TypedCall
    BY <1>0, <1>8, <2>1, CallFacts, BecomeTyped DEF Close, Op
  <2> QED BY <1>8, <2>2 DEF Close, TypeOK, rows, workers
<1>9. CASE Stamp(t)
  <2>1. TypedCall
    BY <1>0, <1>9, CallFacts, BecomeTyped DEF Stamp
  <2> QED BY <1>9, <2>1 DEF Stamp, TypeOK, workers, RunStatus
<1>10. CASE Check(t)
  <2>1. [c EXCEPT !.pc = "endAttempt"] \in Call
    BY <1>0 DEF Call, PC
  <2>2. TypedCall
    BY <1>0, <1>10, <2>1, CallFacts, BecomeTyped DEF Check
  <2> QED BY <1>10, <2>2 DEF Check, TypeOK, rows, workers
<1>11. CASE EndAttempt(t)
  <2>1. [c EXCEPT !.pc = "endNode"] \in Call
    BY <1>0 DEF Call, PC
  <2>2. TypedCall
    BY <1>0, <1>11, <2>1, BecomeTyped DEF EndAttempt
  <2>3. attempt' \in [AttemptRow -> Attempt]
    BY <1>0, <1>11, AttemptTyped DEF EndAttempt, SetExec, ExecStatus
  <2> QED BY <1>11, <2>2, <2>3 DEF EndAttempt, TypeOK, workers, AttemptRow
<1>12. CASE EndNode(t)
  <2>1. [c EXCEPT !.pc = "revoke", !.revokes = {c.cur}] \in Call
    BY <1>0 DEF Call, PC
  <2>2. TypedCall
    BY <1>0, <1>12, <2>1, BecomeTyped DEF EndNode
  <2>3. status' \in [Node -> NodeStatus]
    BY <1>0, <1>12 DEF EndNode, SetStatus, NodeStatus
  <2> QED BY <1>12, <2>2, <2>3 DEF EndNode, TypeOK, workers
<1>13. CASE Revoke(t)
  <2>1. PICK a \in c.revokes :
          /\ attempt' = [attempt EXCEPT ![a].auth = "revoked"]
          /\ Become(t, IF c.revokes = {a} THEN AfterRevoke(t)
                       ELSE [c EXCEPT !.revokes = @ \ {a}])
    BY <1>13 DEF Revoke
  <2>2. [c EXCEPT !.revokes = @ \ {a}] \in Call
    BY <1>0 DEF Call
  <2>3. TypedCall
    BY <1>0, <2>1, <2>2, AfterRevokeTyped, BecomeTyped
  <2>4. attempt' \in [AttemptRow -> Attempt]
    BY <1>0, <2>1, AttemptTyped DEF AuthStatus
  <2> QED BY <1>13, <2>3, <2>4 DEF Revoke, TypeOK, workers, AttemptRow
<1>14. CASE SelectDownstream(t)
  <2> DEFINE hit == {m \in Downstream(c.target) :
                      status[m] \in {"completed", "running", "runnable"}}
  <2>1. hit \X {0} \in SUBSET Row
    <3>1. hit \in SUBSET Node
      BY DEF Downstream
    <3> QED BY <3>1, RowFacts
  <2> HIDE DEF hit
  <2>2. [c EXCEPT !.pc = IF hit = {} THEN "reset" ELSE "invalidate",
                  !.todo = hit \X {0}] \in Call
    BY <1>0, <2>1 DEF Call, PC
  <2>3. Become(t, [c EXCEPT !.pc = IF hit = {} THEN "reset" ELSE "invalidate",
                            !.todo = hit \X {0}])
    BY <1>14 DEF SelectDownstream, hit
  <2>4. TypedCall
    BY <1>0, <2>2, <2>3, BecomeTyped
  <2> QED BY <1>14, <2>4 DEF SelectDownstream, TypeOK, rows, workers
<1>15. CASE Invalidate(t)
  <2>1. PICK r \in c.todo :
          /\ SetStatus(r[1], "invalidated")
          /\ Become(t, [c EXCEPT !.pc = "actives", !.cur = r,
                                 !.todo = @ \ {r}])
    BY <1>15 DEF Invalidate
  <2>2. [c EXCEPT !.pc = "actives", !.cur = r, !.todo = @ \ {r}] \in Call
    BY <1>0 DEF Call, PC
  <2>3. TypedCall
    BY <1>0, <2>1, <2>2, BecomeTyped
  <2>4. status' \in [Node -> NodeStatus]
    BY <1>0, <2>1, RowFacts DEF SetStatus, NodeStatus
  <2> QED BY <1>15, <2>3, <2>4 DEF Invalidate, TypeOK, workers
<1>16. CASE SelectActives(t)
  <2> DEFINE act == {a \in DOMAIN attempt : /\ a[1] = c.cur[1]
                                            /\ attempt[a].auth = "active"}
  <2>1. act \in SUBSET Row
    BY <1>0, RowFacts
  <2> HIDE DEF act
  <2>2. [c EXCEPT !.pc = "revoke", !.revokes = act] \in Call
    BY <1>0, <2>1 DEF Call, PC
  <2>3. Become(t, IF act = {} THEN AfterRevoke(t)
                  ELSE [c EXCEPT !.pc = "revoke", !.revokes = act])
    BY <1>16 DEF SelectActives, act
  <2>4. TypedCall
    BY <1>0, <2>2, <2>3, AfterRevokeTyped, BecomeTyped
  <2> QED BY <1>16, <2>4 DEF SelectActives, TypeOK, rows, workers
<1>17. CASE ResetTarget(t)
  <2>1. [c EXCEPT !.pc = "rerun"] \in Call
    BY <1>0 DEF Call, PC
  <2>2. TypedCall
    BY <1>0, <1>17, <2>1, BecomeTyped DEF ResetTarget
  <2>3. status' \in [Node -> NodeStatus]
    BY <1>0, <1>17 DEF ResetTarget, SetStatus, NodeStatus
  <2> QED BY <1>17, <2>2, <2>3 DEF ResetTarget, TypeOK, workers
<1>18. CASE Rerun(t)
  <2>1. TypedCall
    BY <1>0, <1>18, CallFacts, BecomeTyped DEF Rerun
  <2> QED BY <1>18, <2>1 DEF Rerun, TypeOK, workers, RunStatus
<1>19. CASE SweepNode(t)
  <2>1. PICK a \in c.todo :
          /\ SetStatus(a[1], "failed")
          /\ Become(t, [c EXCEPT !.pc = "sweepAttempt", !.cur = a,
                                 !.todo = @ \ {a}])
    BY <1>19 DEF SweepNode
  <2>2. [c EXCEPT !.pc = "sweepAttempt", !.cur = a, !.todo = @ \ {a}] \in Call
    BY <1>0 DEF Call, PC
  <2>3. TypedCall
    BY <1>0, <2>1, <2>2, BecomeTyped
  <2>4. status' \in [Node -> NodeStatus]
    BY <1>0, <2>1, RowFacts DEF SetStatus, NodeStatus
  <2> QED BY <1>19, <2>3, <2>4 DEF SweepNode, TypeOK, workers
<1>20. CASE SweepAttempt(t)
  <2>1. [c EXCEPT !.pc = "revoke", !.revokes = {c.cur}] \in Call
    BY <1>0 DEF Call, PC
  <2>2. TypedCall
    BY <1>0, <1>20, <2>1, BecomeTyped DEF SweepAttempt
  <2>3. attempt' \in [AttemptRow -> Attempt]
    BY <1>0, <1>20, AttemptTyped DEF SweepAttempt, SetExec, ExecStatus
  <2> QED BY <1>20, <2>2, <2>3 DEF SweepAttempt, TypeOK, workers, AttemptRow
<1> QED
  BY <1>1, <1>2, <1>3, <1>4, <1>5, <1>6, <1>7, <1>8, <1>9, <1>10, <1>11,
     <1>12, <1>13, <1>14, <1>15, <1>16, <1>17, <1>18, <1>19, <1>20, Handler(t)
     DEF Handler

\* A request that starts, a sweep, a restart and a worker keep them too.
LEMMA StepTyped == TypeOK /\ [Next]_vars => TypeOK'
<1> SUFFICES ASSUME TypeOK, [Next]_vars PROVE TypeOK'
  OBVIOUS
<1>0. /\ call \in [Thread -> Call]
      /\ attempt \in [AttemptRow -> Attempt]
      /\ status \in [Node -> NodeStatus]
      /\ attemptNo \in [Node -> 0..MaxAttempt]
      /\ beat \in [Node -> {"none", "live", "past"}]
      /\ work \in [Node -> 0..MaxAttempt]
      /\ sent \in [Node -> {"none", "complete", "fail"}]
  BY DEF TypeOK, AttemptRow
<1>1. ASSUME NEW t \in Thread, Handler(t) PROVE TypeOK'
  BY <1>1, HandlerTyped
<1>2. ASSUME NEW t \in Thread, Start(t) PROVE TypeOK'
  <2>1. call' \in [Thread -> Call]
    BY <1>0, <1>2, CallFacts, BecomeTyped DEF Start
  <2> QED BY <1>2, <2>1 DEF Start, TypeOK, workers, RunStatus
<1>3. ASSUME NEW t \in Thread, Sweep(t) PROVE TypeOK'
  <2>1. TimedOut \in SUBSET Row
    BY <1>0, RowFacts DEF TimedOut
  <2>2. [Idle EXCEPT !.pc = "sweepNode", !.op = "sweep", !.todo = TimedOut]
          \in Call
    BY <2>1, CallFacts DEF Call, PC, Op
  <2>3. call' \in [Thread -> Call]
    BY <1>0, <1>3, <2>2, BecomeTyped DEF Sweep
  <2> QED BY <1>3, <2>3 DEF Sweep, TypeOK, rows, workers
<1>4. ASSUME NEW t \in Thread, Interrupt(t) PROVE TypeOK'
  <2>1. call' \in [Thread -> Call]
    BY <1>0, <1>4, CallFacts, BecomeTyped DEF Interrupt
  <2>2. interrupts' \in 0..MaxInterrupt
    BY <1>4, BoundAssumption DEF Interrupt, TypeOK
  <2> QED BY <1>4, <2>1, <2>2 DEF Interrupt, TypeOK, rows, workers
<1>5. ASSUME NEW t \in Thread, NEW n \in Node, Retry(t, n) PROVE TypeOK'
  <2>1. [Idle EXCEPT !.pc = "downstream", !.op = "retry", !.target = n] \in Call
    BY CallFacts DEF Call, PC, Op
  <2>2. call' \in [Thread -> Call]
    BY <1>0, <1>5, <2>1, BecomeTyped DEF Retry
  <2> QED BY <1>5, <2>2 DEF Retry, TypeOK, rows, workers
<1>6. ASSUME NEW n \in Node, Claim(n) PROVE TypeOK'
  <2>1. attemptNo[n] + 1 \in 0..MaxAttempt
    BY <1>0, <1>6, BoundAssumption DEF Claim
  <2>2. attemptNo' \in [Node -> 0..MaxAttempt] /\ work' \in [Node -> 0..MaxAttempt]
    BY <1>0, <1>6, <2>1 DEF Claim
  <2>3. attempt' \in [AttemptRow -> Attempt]
    BY <1>0, <1>6, AttemptTyped DEF Claim
  <2>4. status' \in [Node -> NodeStatus]
    BY <1>0, <1>6, SetStatusTyped DEF Claim, NodeStatus
  <2> QED BY <1>0, <1>6, <2>2, <2>3, <2>4 DEF Claim, TypeOK, AttemptRow
<1>7. ASSUME NEW n \in Node, Heartbeat(n) \/ Expire(n) PROVE TypeOK'
  BY <1>0, <1>7 DEF Heartbeat, Expire, TypeOK, workers
<1>8. ASSUME NEW n \in Node, NEW t \in Thread, SendComplete(t, n) \/ SendFail(t, n)
      PROVE  TypeOK'
  <2>1. <<n, work[n]>> \in Row
    BY <1>0, RowFacts
  <2>2. \A o \in {"complete", "fail"} :
          [Idle EXCEPT !.pc = "check", !.op = o, !.cur = <<n, work[n]>>] \in Call
    BY <2>1, CallFacts DEF Call, PC, Op
  <2>3. call' \in [Thread -> Call]
    BY <1>0, <1>8, <2>2, BecomeTyped DEF SendComplete, SendFail
  <2> QED BY <1>0, <1>8, <2>3 DEF SendComplete, SendFail, TypeOK, rows
<1>9. ASSUME NEW n \in Node, WorkerLeaves(n) PROVE TypeOK'
  BY <1>0, <1>9, BoundAssumption DEF WorkerLeaves, TypeOK, rows
<1>10. CASE UNCHANGED vars
  BY <1>10 DEF TypeOK, vars, rows, workers
<1> QED
  BY <1>1, <1>2, <1>3, <1>4, <1>5, <1>6, <1>7, <1>8, <1>9, <1>10
     DEF Next, Report

\* Every variable keeps its type: in particular no fence and no attempt
\* number of a row or of a handler leaves its range, whatever overlaps.
THEOREM TypeCorrect == Spec => []TypeOK
<1>1. Init => TypeOK
  BY TopologyAssumption, BoundAssumption, CallFacts
     DEF Init, TypeOK, NodeStatus, RunStatus, Attempt, ExecStatus, AuthStatus
<1> QED BY <1>1, StepTyped, PTL DEF Spec

-----------------------------------------------------------------------------
(* The fence names the attempts.                                           *)

\* No statement deletes an attempt.
LEMMA CreatedStays ==
  ASSUME TypeOK, [Next]_vars, NEW a \in AttemptRow, Created(a)
  PROVE  Created(a)'
<1> USE DEF TypeOK, Created, AttemptRow
<1>1. ASSUME NEW t \in Thread, Handler(t) PROVE Created(a)'
  <2>1. ASSUME NEW b, NEW e \in {"completed", "failed", "timed_out"}, SetExec(b, e)
        PROVE  Created(a)'
    BY <2>1 DEF SetExec
  <2>2. CASE BackendLogic(t) \/ EndAttempt(t) \/ SweepAttempt(t)
    BY <2>1, <2>2 DEF BackendLogic, EndAttempt, SweepAttempt
  <2>3. CASE BackendInsert(t)
    BY <2>3 DEF BackendInsert
  <2>4. CASE Revoke(t)
    BY <2>4 DEF Revoke, Attempt
  <2> QED
    BY <1>1, <2>2, <2>3, <2>4 DEF Handler, Scan, Promote, BackendStart,
       BackendNumber, BackendSettle, Close, Stamp, Check, EndNode,
       SelectDownstream, Invalidate, SelectActives, ResetTarget, Rerun,
       SweepNode, rows
<1>2. ASSUME NEW n \in Node, Claim(n) PROVE Created(a)'
  BY <1>2 DEF Claim
<1> QED
  BY <1>1, <1>2 DEF Next, Report, Start, Sweep, Interrupt, Retry, Heartbeat,
     Expire, SendComplete, SendFail, WorkerLeaves, vars, rows

LEMMA GroundedStep ==
  FenceInv /\ [Next]_vars => CallsAreGrounded'
<1> SUFFICES ASSUME FenceInv, [Next]_vars, NEW u \in Thread
             PROVE  RowsExist(call[u])'
  BY DEF CallsAreGrounded
<1>0. /\ TypeOK /\ TypeOK' /\ \A t \in Thread : RowsExist(call[t])
      /\ call \in [Thread -> Call]
      /\ \A a \in AttemptRow : Created(a) => Created(a)'
  BY StepTyped, CreatedStays DEF FenceInv, CallsAreGrounded, TypeOK
<1>1. CASE call'[u] = call[u]
  BY <1>0, <1>1 DEF RowsExist
<1>2. CASE call'[u] \in {Idle, Evaluate, Closing}
  BY <1>2 DEF RowsExist, Idle, Evaluate, Closing
<1> DEFINE c == call[u]
<1>3. RowsExist(c)
  BY <1>0
<1>4. ASSUME Handler(u) PROVE RowsExist(call[u])'
  <2>0. ASSUME NEW T PROVE RowsExist(Promoting(u, T))'
    BY DEF RowsExist, Promoting, Idle
  <2>1. CASE Scan(u)
    <3>1. CASE Promotable = {}
      BY <1>0, <2>1, <3>1, <1>2 DEF Scan, Become
    <3>2. CASE Promotable # {}
      <4>1. call'[u] = [c EXCEPT !.pc = "promote", !.todo = Promotable \X {0}]
        BY <1>0, <2>1, <3>2 DEF Scan, Become
      <4>2. c.pc = "scan" /\ c \in Call
        BY <1>0, <2>1 DEF Scan, At
      <4>3. call'[u].pc = "promote" /\ call'[u].op = c.op
        BY <4>1, <4>2 DEF Call
      <4> QED BY <1>3, <4>2, <4>3 DEF RowsExist
    <3> QED BY <3>1, <3>2
  <2>2. CASE Promote(u)
    BY <1>0, <2>2 DEF Promote, Become, RowsExist, Promoting, Idle
  <2>3. CASE BackendStart(u)
    <3>1. CASE call'[u] = Promoting(u, c.todo)
      BY <2>0, <3>1 DEF RowsExist
    <3>2. CASE call'[u] = [c EXCEPT !.pc = "number",
                                    !.cur = <<c.cur[1], attemptNo[c.cur[1]] + 1>>]
      <4>1. c.pc = "exec" /\ c \in Call
        BY <1>0, <2>3 DEF BackendStart, At
      <4>2. /\ call'[u].pc = "number" /\ call'[u].op = c.op
            /\ call'[u].cur[1] = c.cur[1]
        BY <3>2, <4>1 DEF Call
      <4> QED BY <1>3, <4>1, <4>2 DEF RowsExist
    <3> QED BY <1>0, <2>3, <3>1, <3>2 DEF BackendStart, Become
  <2>4. CASE BackendNumber(u)
    BY <1>0, <2>4, <1>3 DEF BackendNumber, At, Become, RowsExist
  <2>5. CASE BackendInsert(u)
    <3>1. CASE call'[u] = Idle
      BY <3>1, <1>2
    <3>2. CASE call'[u] = [c EXCEPT !.pc = "logic"]
      BY <1>0, <2>5, <1>3, <3>2 DEF BackendInsert, At, RowsExist, Call
    <3> QED BY <1>0, <2>5, <3>1, <3>2 DEF BackendInsert, Become
  <2>6. CASE BackendLogic(u)
    BY <1>0, <2>6, <1>3 DEF BackendLogic, At, Become, RowsExist
  <2>7. CASE BackendSettle(u)
    BY <1>0, <2>7 DEF BackendSettle, Become, RowsExist, Promoting, Idle
  <2>8. CASE Close(u)
    BY <1>0, <2>8 DEF Close, Become, RowsExist, Idle
  <2>9. CASE Stamp(u) \/ Rerun(u)
    BY <1>0, <2>9, <1>2 DEF Stamp, Rerun, Become
  <2>10. CASE Check(u)
    BY <1>0, <2>10, <1>3
       DEF Check, At, Become, RowsExist, Idle, Current, Created, rows
  <2>11. CASE EndAttempt(u)
    BY <1>0, <2>11, <1>3 DEF EndAttempt, At, Become, RowsExist
  <2>12. CASE EndNode(u)
    BY <1>0, <2>12, <1>3 DEF EndNode, At, Become, RowsExist
  <2>13. CASE Revoke(u) \/ SelectActives(u)
    <3>1. c \in Call /\ c.pc \in {"revoke", "actives"}
      BY <1>0, <2>13 DEF Revoke, SelectActives, At
    <3>2. CASE call'[u] = AfterRevoke(u)
      BY <1>0, <1>2, <1>3, <3>1, <3>2 DEF AfterRevoke, RowsExist, Call
    <3>3. CASE /\ call'[u].pc = "revoke"
               /\ call'[u].op = c.op /\ call'[u].todo = c.todo
      BY <1>0, <1>3, <3>1, <3>3 DEF RowsExist
    <3>4. CASE Revoke(u)
      BY <1>0, <3>1, <3>2, <3>3, <3>4 DEF Revoke, Become, Call, At
    <3>5. CASE SelectActives(u)
      BY <1>0, <3>1, <3>2, <3>3, <3>5 DEF SelectActives, Become, Call
    <3> QED BY <2>13, <3>4, <3>5
  <2>14. CASE SelectDownstream(u) \/ Invalidate(u) \/ ResetTarget(u)
    <3>1. /\ c \in Call
          /\ c.pc \in {"downstream", "invalidate", "reset"}
      BY <1>0, <2>14 DEF SelectDownstream, Invalidate, ResetTarget, At
    <3>2. /\ call'[u].pc \in {"reset", "invalidate", "actives", "rerun"}
          /\ call'[u].op = c.op
      <4>1. CASE SelectDownstream(u)
        BY <1>0, <3>1, <4>1 DEF SelectDownstream, Become, Call
      <4>2. CASE Invalidate(u)
        BY <1>0, <3>1, <4>2 DEF Invalidate, Become, Call
      <4>3. CASE ResetTarget(u)
        BY <1>0, <3>1, <4>3 DEF ResetTarget, Become, Call
      <4> QED BY <2>14, <4>1, <4>2, <4>3
    <3> QED BY <1>3, <3>1, <3>2 DEF RowsExist
  <2>15. CASE SweepNode(u)
    BY <1>0, <2>15, <1>3 DEF SweepNode, At, Become, RowsExist
  <2>16. CASE SweepAttempt(u)
    BY <1>0, <2>16, <1>3 DEF SweepAttempt, At, Become, RowsExist
  <2> QED
    BY <1>4, <2>1, <2>2, <2>3, <2>4, <2>5, <2>6, <2>7, <2>8, <2>9, <2>10,
       <2>11, <2>12, <2>13, <2>14, <2>15, <2>16 DEF Handler
<1>5. ASSUME Sweep(u) PROVE RowsExist(call[u])'
  BY <1>0, <1>5 DEF Sweep, Become, RowsExist, TimedOut, Idle, TypeOK, AttemptRow
<1>6. ASSUME NEW n \in Node, SendComplete(u, n) \/ SendFail(u, n)
      PROVE  RowsExist(call[u])'
  <2>1. <<n, work[n]>> \in AttemptRow
    BY <1>0, <1>6 DEF SendComplete, SendFail, AttemptRow, TypeOK
  <2>2. /\ call'[u].pc = "check" /\ call'[u].op \in {"complete", "fail"}
        /\ call'[u].cur = <<n, work[n]>>
    BY <1>0, <1>6 DEF SendComplete, SendFail, Become, Idle
  <2> QED BY <2>1, <2>2 DEF RowsExist
<1>7. ASSUME NEW n \in Node, Retry(u, n) PROVE RowsExist(call[u])'
  BY <1>0, <1>7 DEF Retry, Become, RowsExist, Idle
<1>8. ASSUME Start(u) \/ Interrupt(u) PROVE RowsExist(call[u])'
  BY <1>0, <1>8, <1>2 DEF Start, Interrupt, Become
<1>9. ASSUME NEW n \in Node,
             Claim(n) \/ Heartbeat(n) \/ Expire(n) \/ WorkerLeaves(n)
      PROVE  call' = call
  BY <1>9 DEF Claim, Heartbeat, Expire, WorkerLeaves
<1>10. ASSUME NEW t \in Thread \ {u}, NEW n \in Node,
              \/ Handler(t) \/ Start(t) \/ Sweep(t) \/ Interrupt(t)
              \/ Retry(t, n) \/ SendComplete(t, n) \/ SendFail(t, n)
       PROVE  call'[u] = call[u]
  BY <1>0, <1>10 DEF Handler, Scan, Promote, BackendStart, BackendNumber,
     BackendInsert, BackendLogic, BackendSettle, Close, Stamp, Check,
     EndAttempt, EndNode, Revoke, SelectDownstream, Invalidate, SelectActives,
     ResetTarget, Rerun, SweepNode, SweepAttempt, Start, Sweep, Interrupt,
     Retry, SendComplete, SendFail, Become
<1>11. CASE UNCHANGED vars
  BY <1>1, <1>11 DEF vars
<1> QED
  BY <1>1, <1>4, <1>5, <1>6, <1>7, <1>8, <1>9, <1>10, <1>11, TopologyAssumption
     DEF Next, Report

\* What a step does to the attempts of the agent nodes: nothing, a new one at
\* the fence it advances (Claim), the end of one that exists, a revocation.
LEMMA AttemptChange ==
  ASSUME FenceInv, [Next]_vars
  PROVE  \/ /\ \A n \in Agent : attemptNo'[n] = attemptNo[n]
            /\ \A n \in Agent, k \in 1..MaxAttempt :
                 /\ Created(<<n, k>>)' <=> Created(<<n, k>>)
                 /\ attempt'[<<n, k>>].auth = "active"
                      => attempt[<<n, k>>].auth = "active"
         \/ \E n \in Agent : Claim(n)
<1>0. /\ TypeOK /\ \A t \in Thread : RowsExist(call[t])
      /\ attempt \in [AttemptRow -> Attempt]
      /\ \A n \in Agent, k \in 1..MaxAttempt : <<n, k>> \in AttemptRow
  BY DEF FenceInv, CallsAreGrounded, TypeOK, AttemptRow, Agent
<1> DEFINE Same == /\ \A n \in Agent : attemptNo'[n] = attemptNo[n]
                   /\ \A n \in Agent, k \in 1..MaxAttempt :
                        /\ Created(<<n, k>>)' <=> Created(<<n, k>>)
                        /\ attempt'[<<n, k>>].auth = "active"
                             => attempt[<<n, k>>].auth = "active"
<1>1. ASSUME UNCHANGED <<attemptNo, attempt>> PROVE Same
  BY <1>1 DEF Created
<1>2. ASSUME NEW t \in Thread, BackendNumber(t) PROVE Same
  <2>1. call[t].cur[1] \in Backend
    BY <1>0, <1>2 DEF BackendNumber, At, RowsExist
  <2> QED BY <1>0, <1>2, <2>1 DEF BackendNumber, TypeOK, Agent, Created
<1>3. ASSUME NEW t \in Thread, BackendInsert(t) \/ BackendLogic(t) PROVE Same
  <2>1. call[t].cur[1] \in Backend
    BY <1>0, <1>3 DEF BackendInsert, BackendLogic, At, RowsExist
  <2>2. \A n \in Agent, k \in 1..MaxAttempt : <<n, k>> # call[t].cur
    BY <2>1 DEF Agent
  <2>3. \A n \in Agent, k \in 1..MaxAttempt :
          attempt'[<<n, k>>] = attempt[<<n, k>>]
    BY <1>0, <1>3, <2>2 DEF BackendInsert, BackendLogic, SetExec
  <2> QED BY <1>3, <2>3 DEF BackendInsert, BackendLogic, Created
<1>4. ASSUME NEW t \in Thread, EndAttempt(t) \/ SweepAttempt(t) PROVE Same
  <2>1. call[t].cur \in AttemptRow /\ Created(call[t].cur)
    BY <1>0, <1>4 DEF EndAttempt, SweepAttempt, At, RowsExist
  <2>2. PICK e \in {"completed", "failed", "timed_out"} :
          attempt' = [attempt EXCEPT ![call[t].cur].exec = e]
    BY <1>4 DEF EndAttempt, SweepAttempt, SetExec
  <2>3. \A a \in AttemptRow : /\ Created(a)' <=> Created(a)
                              /\ attempt'[a].auth = attempt[a].auth
    BY <1>0, <2>1, <2>2 DEF Created, Attempt
  <2> QED BY <1>0, <1>4, <2>3 DEF EndAttempt, SweepAttempt
<1>5. ASSUME NEW t \in Thread, Revoke(t) PROVE Same
  <2>1. PICK a : attempt' = [attempt EXCEPT ![a].auth = "revoked"]
    BY <1>5 DEF Revoke
  <2>2. \A b \in AttemptRow : /\ Created(b)' <=> Created(b)
                              /\ attempt'[b].auth = "active"
                                   => attempt[b].auth = "active"
    BY <1>0, <2>1 DEF Created, Attempt
  <2> QED BY <1>0, <1>5, <2>2 DEF Revoke
<1>6. ASSUME NEW t \in Thread, Handler(t) PROVE Same
  <2>1. \/ UNCHANGED <<attemptNo, attempt>>
        \/ BackendNumber(t) \/ BackendInsert(t) \/ BackendLogic(t)
        \/ EndAttempt(t) \/ SweepAttempt(t) \/ Revoke(t)
    BY <1>6 DEF Handler, Scan, Promote, BackendStart, BackendSettle, Close,
       Stamp, Check, EndNode, SelectDownstream, Invalidate, SelectActives,
       ResetTarget, Rerun, SweepNode, rows
  <2> QED BY <1>1, <1>2, <1>3, <1>4, <1>5, <2>1
<1>7. ASSUME NEW t \in Thread, NEW n \in Node,
             \/ Start(t) \/ Sweep(t) \/ Interrupt(t) \/ Retry(t, n)
             \/ SendComplete(t, n) \/ SendFail(t, n)
      PROVE  UNCHANGED <<attemptNo, attempt>>
  BY <1>7 DEF Start, Sweep, Interrupt, Retry, SendComplete, SendFail, rows
<1>8. ASSUME NEW n \in Node, Heartbeat(n) \/ Expire(n) \/ WorkerLeaves(n)
      PROVE  UNCHANGED <<attemptNo, attempt>>
  BY <1>8 DEF Heartbeat, Expire, WorkerLeaves, rows
<1>9. CASE UNCHANGED vars
  BY <1>1, <1>9 DEF vars, rows
<1>10. ASSUME NEW n \in Node, Claim(n) PROVE n \in Agent
  BY <1>10 DEF Claim
<1> QED
  BY <1>1, <1>6, <1>7, <1>8, <1>9, <1>10, TopologyAssumption DEF Next, Report

LEMMA FenceStep == FenceInv /\ [Next]_vars => FenceInv'
<1> SUFFICES ASSUME FenceInv, [Next]_vars PROVE FenceNamesAttempt'
  BY StepTyped, GroundedStep DEF FenceInv
<1>0. /\ attemptNo \in [Node -> 0..MaxAttempt]
      /\ attempt \in [AttemptRow -> Attempt]
      /\ FenceNamesAttempt /\ Agent \subseteq Node /\ MaxAttempt \in Nat
      /\ \A n \in Agent, k \in 1..MaxAttempt : <<n, k>> \in AttemptRow
  BY BoundAssumption DEF FenceInv, TypeOK, Agent, AttemptRow
<1>1. ASSUME NEW n \in Agent, Claim(n) PROVE FenceNamesAttempt'
  <2> DEFINE new == attemptNo[n] + 1
  <2>1. /\ new \in 1..MaxAttempt
        /\ attemptNo' = [attemptNo EXCEPT ![n] = new]
        /\ attempt' = [attempt EXCEPT ![<<n, new>>] =
                         [exec |-> "running", auth |-> "active"]]
    BY <1>0, <1>1 DEF Claim
  <2> SUFFICES ASSUME NEW m \in Agent, NEW k \in 1..MaxAttempt
               PROVE  Created(<<m, k>>)' <=> k <= attemptNo'[m]
    BY DEF FenceNamesAttempt
  <2>2. CASE m = n /\ k = new
    <3>1. attempt'[<<n, new>>].exec = "running"
      BY <1>0, <2>1
    <3> QED BY <1>0, <2>1, <2>2, <3>1 DEF Created
  <2>3. CASE m = n /\ k # new
    <3>1. attempt'[<<m, k>>] = attempt[<<m, k>>]
      BY <1>0, <2>1, <2>3
    <3>2. attemptNo'[m] = attemptNo[m] + 1
      BY <1>0, <2>1, <2>3
    <3>3. Created(<<m, k>>) <=> k <= attemptNo[m]
      BY <1>0 DEF FenceNamesAttempt
    <3>4. attemptNo[m] \in Nat /\ k \in Nat /\ k # attemptNo[m] + 1
      BY <1>0, <2>3
    <3> QED BY <3>1, <3>2, <3>3, <3>4 DEF Created
  <2>4. CASE m # n
    <3>1. attempt'[<<m, k>>] = attempt[<<m, k>>] /\ attemptNo'[m] = attemptNo[m]
      BY <1>0, <2>1, <2>4
    <3> QED BY <1>0, <3>1 DEF Created, FenceNamesAttempt
  <2> QED BY <2>2, <2>3, <2>4
<1> QED BY <1>0, <1>1, AttemptChange DEF FenceNamesAttempt, Created

LEMMA FenceInitial == Init => FenceInv
BY TopologyAssumption, BoundAssumption, CallFacts
   DEF Init, FenceInv, TypeOK, NodeStatus, RunStatus, Attempt, ExecStatus,
       AuthStatus, CallsAreGrounded, RowsExist, FenceNamesAttempt, Created,
       Idle, Agent

LEMMA FenceInvariant == Spec => []FenceInv
BY FenceInitial, FenceStep, PTL DEF Spec

\* The fence of an agent node names its attempts one to one, in every run of
\* any topology: overlapping claims, retries, sweeps and restarts never skip
\* a number, reuse one, or leave one without its row.
THEOREM FenceCorrect == Spec => []FenceNamesAttempt
BY FenceInvariant, PTL DEF FenceInv

\* Authority is only ever granted with a fresh attempt: no agent attempt is
\* granted it twice, and none below an existing one.
THEOREM AuthorityIsFresh == Spec => FreshAuthority
<1>1. FenceInv /\ [Next]_vars =>
        [\A n \in Agent, k \in 1..MaxAttempt :
           attempt'[<<n, k>>].auth = "active" /\ attempt[<<n, k>>].auth # "active"
             => \A j \in k..MaxAttempt : ~Created(<<n, j>>)]_vars
  <2> SUFFICES ASSUME FenceInv, [Next]_vars,
                      NEW n \in Agent, NEW k \in 1..MaxAttempt,
                      attempt'[<<n, k>>].auth = "active",
                      attempt[<<n, k>>].auth # "active",
                      NEW j \in k..MaxAttempt
               PROVE  ~Created(<<n, j>>)
    OBVIOUS
  <2>0. /\ attemptNo \in [Node -> 0..MaxAttempt] /\ n \in Node
        /\ attempt \in [AttemptRow -> Attempt]
        /\ <<n, k>> \in AttemptRow /\ MaxAttempt \in Nat
    BY BoundAssumption DEF FenceInv, TypeOK, Agent, AttemptRow
  <2>1. PICK m \in Agent : Claim(m)
    BY AttemptChange
  <2>2. attempt' = [attempt EXCEPT ![<<m, attemptNo[m] + 1>>] =
                      [exec |-> "running", auth |-> "active"]]
    BY <2>1 DEF Claim
  <2>3. m = n /\ k = attemptNo[n] + 1
    BY <2>0, <2>2
  <2>4. j \in 1..MaxAttempt /\ ~(j <= attemptNo[n])
    BY <2>0, <2>3
  <2> QED BY <2>4 DEF FenceInv, FenceNamesAttempt
<1> QED BY <1>1, FenceInvariant, PTL DEF Spec, FreshAuthority

\* A completed run is never failed by a stale evaluation, whatever overlaps:
\* the guard of the UPDATE is in the statement that writes.
THEOREM CompletedRunKept == Spec => CompletedRunNeverFails
<1>1. [Next]_vars =>
        [runStatus = "completed" => runStatus' \in {"completed", "running"}]_vars
  <2> SUFFICES ASSUME [Next]_vars, runStatus = "completed"
               PROVE  runStatus' \in {"completed", "running"}
    OBVIOUS
  <2>1. ASSUME NEW t \in Thread, Handler(t)
        PROVE  runStatus' \in {"completed", "running"}
    BY <2>1 DEF Handler, Scan, Promote, BackendStart, BackendNumber,
       BackendInsert, BackendLogic, BackendSettle, Close, Stamp, Check,
       EndAttempt, EndNode, Revoke, SelectDownstream, Invalidate,
       SelectActives, ResetTarget, Rerun, SweepNode, SweepAttempt, rows
  <2> QED
    BY <2>1 DEF Next, Report, Start, Sweep, Interrupt, Retry, Claim,
       Heartbeat, Expire, SendComplete, SendFail, WorkerLeaves, vars, rows
<1> QED BY <1>1, PTL DEF Spec, CompletedRunNeverFails

-----------------------------------------------------------------------------
(* One request at a time. What follows is proved of a process that answers  *)
(* its requests one after the other: no handler is in a transaction, and    *)
(* none of it holds of overlapping ones. Workers and time go on between the *)
(* statements.                                                              *)

OneThread == \E t : Thread = {t}
Req == CHOOSE t : t \in Thread
Doing == call[Req]

\* What the statements do to the rows and to the locals of the one request.
Going(p) ==
  /\ Doing'.pc = p /\ Doing'.op = Doing.op /\ Doing'.target = Doing.target
  /\ Doing'.cur = Doing.cur /\ Doing'.todo = Doing.todo
  /\ Doing'.revokes = Doing.revokes
Looping == /\ Doing'.pc = IF Doing'.todo = {} THEN "scan" ELSE "promote"
           /\ Doing'.op = "none"
OnlyStatus(n, s) ==
  /\ status' = [status EXCEPT ![n] = s]
  /\ UNCHANGED <<runStatus, attemptNo, beat, attempt, workers>>
OnlyAttempt(a, r) ==
  /\ attempt' = [attempt EXCEPT ![a] = r]
  /\ UNCHANGED <<runStatus, status, attemptNo, beat, workers>>
Result(o) == IF o = "complete" THEN "completed" ELSE "failed"
Ends(a, e) == OnlyAttempt(a, [exec |-> e, auth |-> attempt[a].auth])

Scans ==
  /\ Doing.pc = "scan" /\ UNCHANGED <<rows, workers>>
  /\ \/ Promotable = {} /\ Doing' = Closing
     \/ /\ Promotable # {} /\ Doing'.pc = "promote" /\ Doing'.op = Doing.op
        /\ Doing'.todo = Promotable \X {0}
Promotes == Doing.pc = "promote" /\ \E r \in Doing.todo :
  /\ r[1] \in Node /\ OnlyStatus(r[1], "runnable")
  /\ Doing'.todo = Doing.todo \ {r}
  /\ \/ Doing'.pc = "exec" /\ Doing'.op = "none" /\ Doing'.cur = r
     \/ Looping
StartsNode ==
  /\ Doing.pc = "exec" /\ Doing'.todo = Doing.todo
  /\ \/ /\ status[Doing.cur[1]] = "runnable" /\ OnlyStatus(Doing.cur[1], "running")
        /\ Doing'.pc = "number" /\ Doing'.op = Doing.op
        /\ Doing'.cur = <<Doing.cur[1], attemptNo[Doing.cur[1]] + 1>>
     \/ UNCHANGED <<rows, workers>> /\ Looping
Numbers ==
  /\ Doing.pc = "number" /\ Going("insert")
  /\ attemptNo' = [attemptNo EXCEPT ![Doing.cur[1]] = Doing.cur[2]]
  /\ UNCHANGED <<runStatus, status, beat, attempt, workers>>
Inserts ==
  /\ Doing.pc = "insert"
  /\ \/ /\ ~Created(Doing.cur) /\ Going("logic")
        /\ OnlyAttempt(Doing.cur, [exec |-> "running", auth |-> "active"])
     \/ Created(Doing.cur) /\ Doing' = Idle /\ UNCHANGED <<rows, workers>>
Computes ==
  /\ Doing.pc = "logic" /\ Doing'.pc = "settle"
  /\ Doing'.cur = Doing.cur /\ Doing'.todo = Doing.todo
  /\ Doing'.op \in {"complete", "fail"} /\ Ends(Doing.cur, Result(Doing'.op))
Settles ==
  /\ Doing.pc = "settle" /\ OnlyStatus(Doing.cur[1], Result(Doing.op))
  /\ Looping /\ Doing'.todo = Doing.todo
Closes ==
  /\ Doing.pc = "closing" /\ UNCHANGED <<rows, workers>>
  /\ \/ /\ status[Sink] = "completed"
        /\ Doing'.pc = "stamp" /\ Doing'.op = "complete"
     \/ /\ status[Sink] # "completed" /\ Blocked
        /\ Doing'.pc = "stamp" /\ Doing'.op = "fail"
     \/ status[Sink] # "completed" /\ ~Blocked /\ Doing' = Idle
Stamps ==
  /\ Doing.pc = "stamp" /\ Doing' = Idle
  /\ runStatus' = IF Doing.op = "complete" \/ runStatus = "completed"
                    THEN "completed" ELSE "failed"
  /\ UNCHANGED <<status, attemptNo, beat, attempt, workers>>
Begins ==
  /\ \/ /\ Doing.pc = "idle"
        /\ runStatus' = IF runStatus = "none" THEN "running" ELSE runStatus
     \/ Doing.pc = "rerun" /\ runStatus' = "running"
  /\ Doing' = Evaluate /\ UNCHANGED <<status, attemptNo, beat, attempt, workers>>
Checks ==
  /\ Doing.pc = "check" /\ UNCHANGED <<rows, workers>>
  /\ \/ Current(Doing.cur) /\ Going("endAttempt")
     \/ Doing' = Idle
EndsAttempt ==
  /\ Doing.pc = "endAttempt" /\ Going("endNode")
  /\ Ends(Doing.cur, Result(Doing.op))
\* The node is settled; an ended attempt is to be revoked.
Revoking ==
  /\ Doing'.pc = "revoke" /\ Doing'.op = Doing.op /\ Doing'.cur = Doing.cur
  /\ Doing'.todo = Doing.todo /\ Doing'.revokes = {Doing.cur}
EndsNode ==
  /\ Doing.pc = "endNode" /\ Revoking
  /\ OnlyStatus(Doing.cur[1], Result(Doing.op))
\* Where the last revocation of a node leads.
Revoked ==
  \/ Doing.op = "complete" /\ Doing' = Evaluate
  \/ Doing.op = "fail" /\ Doing' = Closing
  \/ Doing.op = "sweep" /\ Doing' = Evaluate
  \/ /\ Doing.op = "sweep" /\ Doing'.pc = "sweepNode" /\ Doing'.op = "sweep"
     /\ Doing'.todo = Doing.todo
  \/ /\ Doing.op \in {"none", "retry"} /\ Doing'.pc \in {"reset", "invalidate"}
     /\ Doing'.op = Doing.op /\ Doing'.target = Doing.target
     /\ Doing'.todo = Doing.todo
Revokes == Doing.pc = "revoke" /\ \E a \in Doing.revokes :
  /\ a \in AttemptRow => OnlyAttempt(a, [exec |-> attempt[a].exec, auth |-> "revoked"])
  /\ a \notin AttemptRow => UNCHANGED <<rows, workers>>
  /\ \/ Doing.revokes = {a} /\ Revoked
     \/ /\ Doing.revokes # {a} /\ Doing'.pc = "revoke" /\ Doing'.op = Doing.op
        /\ Doing'.target = Doing.target /\ Doing'.cur = Doing.cur
        /\ Doing'.todo = Doing.todo /\ Doing'.revokes = Doing.revokes \ {a}
Retries == \E n \in Node :
  /\ Doing.pc = "idle" /\ runStatus # "none" /\ status[n] = "failed"
  /\ Doing'.pc = "downstream" /\ Doing'.op = "retry" /\ Doing'.target = n
  /\ Doing'.todo = {} /\ UNCHANGED <<rows, workers>>
Started == {"completed", "running", "runnable"}
Selects ==
  /\ Doing.pc = "downstream" /\ UNCHANGED <<rows, workers>>
  /\ Doing'.op = Doing.op /\ Doing'.target = Doing.target
  /\ Doing'.todo = {m \in Downstream(Doing.target) : status[m] \in Started} \X {0}
  /\ Doing'.pc = IF Doing'.todo = {} THEN "reset" ELSE "invalidate"
Invalidates == Doing.pc = "invalidate" /\ \E r \in Doing.todo :
  /\ r[1] \in Node /\ OnlyStatus(r[1], "invalidated")
  /\ Doing'.pc = "actives" /\ Doing'.op = Doing.op /\ Doing'.cur = r
  /\ Doing'.target = Doing.target /\ Doing'.todo = Doing.todo \ {r}
Collects ==
  /\ Doing.pc = "actives" /\ UNCHANGED <<rows, workers>>
  /\ \/ Revoked
     \/ /\ Doing'.pc = "revoke" /\ Doing'.op = Doing.op
        /\ Doing'.target = Doing.target /\ Doing'.todo = Doing.todo
Resets ==
  /\ Doing.pc = "reset" /\ Going("rerun")
  /\ OnlyStatus(Doing.target, "pending")
BeginsSweep ==
  /\ Doing.pc = "idle" /\ TimedOut # {} /\ UNCHANGED <<rows, workers>>
  /\ Doing'.pc = "sweepNode" /\ Doing'.op = "sweep" /\ Doing'.todo = TimedOut
SweepsNode == Doing.pc = "sweepNode" /\ \E a \in Doing.todo :
  /\ a[1] \in Node /\ OnlyStatus(a[1], "failed")
  /\ Doing'.pc = "sweepAttempt" /\ Doing'.op = Doing.op /\ Doing'.cur = a
  /\ Doing'.todo = Doing.todo \ {a}
SweepsAttempt ==
  /\ Doing.pc = "sweepAttempt" /\ Revoking /\ Ends(Doing.cur, "timed_out")
Reports == \E n \in Node :
  /\ Doing.pc = "idle" /\ work[n] # 0 /\ UNCHANGED <<rows, work>>
  /\ Doing'.pc = "check" /\ Doing'.op \in {"complete", "fail"}
  /\ Doing'.cur = <<n, work[n]>>
Breaks == /\ interrupts < MaxInterrupt /\ Doing' = Idle /\ UNCHANGED <<rows, workers>>
\* What workers and time do, or nobody does.
Waits ==
  /\ call' = call /\ UNCHANGED <<runStatus, status, attemptNo, attempt>>
  /\ \A n \in Node :
       /\ work'[n] \in {0, work[n]}
       /\ beat'[n] = beat[n] \/ work[n] # 0 \/ beat[n] # "none"
Claims == call' = call /\ \E n \in Agent : Claim(n)

LEMMA ReqFacts ==
  ASSUME OneThread, TypeOK
  PROVE  /\ Thread = {Req}
         /\ Doing \in Call /\ Doing.cur \in Row /\ Doing.cur[1] \in Node
         /\ Doing.cur[2] \in 0..MaxAttempt
         /\ Doing.todo \in SUBSET Row /\ Doing.revokes \in SUBSET Row
         /\ Doing.target \in Node /\ Doing.op \in Op /\ Doing.pc \in PC
         /\ \A d : Become(Req, d) => Doing' = d
<1>1. Thread = {Req}
  <2>1. PICK t : Thread = {t} BY DEF OneThread
  <2>2. Req \in Thread BY <2>1 DEF Req
  <2> QED BY <2>1, <2>2
<1>2. call \in [Thread -> Call] /\ Doing \in Call
  BY <1>1 DEF TypeOK, Doing
<1>3. /\ Doing.cur \in Row /\ Doing.todo \in SUBSET Row /\ Doing.revokes \in SUBSET Row
      /\ Doing.target \in Node /\ Doing.op \in Op /\ Doing.pc \in PC
  BY <1>2 DEF Call
<1>4. \A d : Become(Req, d) => Doing' = d
  BY <1>1, <1>2 DEF Become, Doing
<1> QED BY <1>1, <1>2, <1>3, <1>4, RowFacts

LEMMA EndsFacts ==
  ASSUME TypeOK, NEW a, NEW e, SetExec(a, e),
         UNCHANGED <<runStatus, status, attemptNo, beat, workers>>
  PROVE  Ends(a, e)
<1>1. attempt \in [AttemptRow -> Attempt] BY DEF TypeOK, AttemptRow
<1>2. CASE a \in AttemptRow
  <2>1. [attempt[a] EXCEPT !.exec = e] = [exec |-> e, auth |-> attempt[a].auth]
    BY <1>1, <1>2 DEF Attempt
  <2> QED BY <2>1 DEF SetExec, Ends, OnlyAttempt
<1>3. CASE a \notin AttemptRow
  BY <1>1, <1>3 DEF SetExec, Ends, OnlyAttempt
<1> QED BY <1>2, <1>3

LEMMA RevokedFacts ==
  ASSUME OneThread, TypeOK, Doing' = AfterRevoke(Req)
  PROVE  Revoked
<1>1. Doing = call[Req] /\ Doing \in Call /\ Doing.op \in Op
  BY ReqFacts DEF Doing
<1>2. CASE Doing.op = "complete" BY <1>1, <1>2 DEF AfterRevoke, Revoked
<1>3. CASE Doing.op = "fail" BY <1>1, <1>3 DEF AfterRevoke, Revoked
<1>4. CASE Doing.op = "sweep"
  <2>1. CASE Doing.todo = {} BY <1>1, <1>4, <2>1 DEF AfterRevoke, Revoked
  <2>2. CASE Doing.todo # {}
    <3>1. Doing' = [Doing EXCEPT !.pc = "sweepNode", !.cur = NoRow, !.revokes = {}]
      BY <1>1, <1>4, <2>2 DEF AfterRevoke
    <3>2. Doing'.pc = "sweepNode" /\ Doing'.op = "sweep" /\ Doing'.todo = Doing.todo
      BY <1>1, <1>4, <3>1 DEF Call
    <3> QED BY <1>4, <3>2 DEF Revoked
  <2> QED BY <2>1, <2>2
<1>5. CASE Doing.op \in {"none", "retry"}
  <2> DEFINE p == IF Doing.todo = {} THEN "reset" ELSE "invalidate"
  <2>1. Doing' = [Doing EXCEPT !.pc = p, !.cur = NoRow, !.revokes = {}]
    BY <1>1, <1>5 DEF AfterRevoke
  <2>2. p \in {"reset", "invalidate"} OBVIOUS
  <2> HIDE DEF p
  <2>3. /\ Doing'.pc = p /\ Doing'.op = Doing.op /\ Doing'.target = Doing.target
        /\ Doing'.todo = Doing.todo
    BY <1>1, <2>1 DEF Call
  <2> QED BY <1>5, <2>2, <2>3 DEF Revoked
<1> QED BY <1>1, <1>2, <1>3, <1>4, <1>5 DEF Op

LEMMA LoopFacts ==
  ASSUME OneThread, TypeOK
  PROVE  /\ Evaluate.pc = "scan" /\ Evaluate.op = "none" /\ Evaluate.todo = {}
         /\ Closing.pc = "closing" /\ Closing.op = "none" /\ Closing.todo = {}
         /\ Idle.pc = "idle" /\ Idle.op = "none" /\ Idle.todo = {}
         /\ \A S : Doing' = Promoting(Req, S) => Looping /\ Doing'.todo = S
BY DEF Evaluate, Closing, Idle, Promoting, Looping

\* The statements of the engine's loop and of its verdict.
LEMMA LoopFlat ==
  ASSUME OneThread, TypeOK
  PROVE  /\ Scan(Req) => Scans
         /\ Promote(Req) => Promotes
         /\ BackendStart(Req) => StartsNode
         /\ BackendNumber(Req) => Numbers
         /\ BackendInsert(Req) => Inserts
         /\ BackendLogic(Req) => Computes
         /\ BackendSettle(Req) => Settles
         /\ Close(Req) => Closes
         /\ Stamp(Req) => Stamps
<1>0. /\ Doing = call[Req] /\ Doing \in Call /\ \A d : Become(Req, d) => Doing' = d
      /\ \A r \in Doing.todo : r[1] \in Node
  BY ReqFacts, RowFacts DEF Doing
<1>1. ASSUME Scan(Req) PROVE Scans
  <2>1. CASE Promotable = {} BY <1>0, <1>1, <2>1 DEF Scan, Scans, At
  <2>2. CASE Promotable # {}
    <3> DEFINE S == Promotable \X {0}
    <3>1. Doing' = [Doing EXCEPT !.pc = "promote", !.todo = S]
      BY <1>0, <1>1, <2>2 DEF Scan
    <3> HIDE DEF S
    <3>2. Doing'.pc = "promote" /\ Doing'.op = Doing.op /\ Doing'.todo = S
      BY <1>0, <3>1 DEF Call
    <3> QED BY <1>0, <1>1, <2>2, <3>2 DEF Scan, Scans, At, S
  <2> QED BY <2>1, <2>2
<1>2. ASSUME Promote(Req) PROVE Promotes
  <2>1. PICK r \in Doing.todo :
          /\ SetStatus(r[1], "runnable")
          /\ Become(Req, IF r[1] \in Backend
               THEN [Promoting(Req, Doing.todo \ {r}) EXCEPT !.pc = "exec", !.cur = r]
               ELSE Promoting(Req, Doing.todo \ {r}))
    BY <1>0, <1>2 DEF Promote
  <2> DEFINE S == Doing.todo \ {r}
  <2>2. CASE Doing' = Promoting(Req, S)
    BY <1>0, <1>2, <2>1, <2>2, LoopFacts
       DEF Promotes, Promote, At, SetStatus, OnlyStatus
  <2>3. CASE Doing' = [Promoting(Req, S) EXCEPT !.pc = "exec", !.cur = r]
    <3> HIDE DEF S
    <3>1. Doing'.pc = "exec" /\ Doing'.op = "none" /\ Doing'.cur = r /\ Doing'.todo = S
      BY <2>3 DEF Promoting, Idle
    <3> QED BY <1>0, <1>2, <2>1, <3>1 DEF Promotes, Promote, At, SetStatus, OnlyStatus, S
  <2> QED BY <1>0, <2>1, <2>2, <2>3
<1>3. ASSUME BackendStart(Req) PROVE StartsNode
  <2> DEFINE n == Doing.cur[1]
             k == attemptNo[n] + 1
  <2>1. CASE /\ status[n] = "runnable" /\ SetStatus(n, "running")
             /\ Become(Req, [Doing EXCEPT !.pc = "number", !.cur = <<n, k>>])
    <3>1. Doing' = [Doing EXCEPT !.pc = "number", !.cur = <<n, k>>] BY <1>0, <2>1
    <3> HIDE DEF n, k
    <3>2. /\ Doing'.pc = "number" /\ Doing'.op = Doing.op /\ Doing'.todo = Doing.todo
          /\ Doing'.cur = <<n, k>>
      BY <1>0, <3>1 DEF Call
    <3> QED BY <1>0, <1>3, <2>1, <3>2 DEF StartsNode, BackendStart, At, SetStatus, OnlyStatus, n, k
  <2>2. CASE Become(Req, Promoting(Req, Doing.todo)) /\ UNCHANGED status
    <3>1. Looping /\ Doing'.todo = Doing.todo BY <1>0, <2>2, LoopFacts
    <3> QED BY <1>0, <1>3, <2>2, <3>1 DEF StartsNode, BackendStart, At, rows
  <2> QED BY <1>0, <1>3, <2>1, <2>2 DEF BackendStart
<1>4. ASSUME BackendNumber(Req) PROVE Numbers
  <2>1. Doing' = [Doing EXCEPT !.pc = "insert"] BY <1>0, <1>4 DEF BackendNumber
  <2>2. Going("insert") BY <1>0, <2>1 DEF Call, Going
  <2> QED BY <1>0, <1>4, <2>2 DEF BackendNumber, Numbers, At
<1>5. ASSUME BackendInsert(Req) PROVE Inserts
  <2>1. CASE /\ ~Created(Doing.cur)
             /\ attempt' = [attempt EXCEPT ![Doing.cur] = [exec |-> "running",
                                                           auth |-> "active"]]
             /\ Become(Req, [Doing EXCEPT !.pc = "logic"])
    <3>1. Doing' = [Doing EXCEPT !.pc = "logic"] BY <1>0, <2>1
    <3>2. Going("logic") BY <1>0, <3>1 DEF Call, Going
    <3> QED BY <1>0, <1>5, <2>1, <3>2 DEF BackendInsert, Inserts, At, OnlyAttempt
  <2>2. CASE Created(Doing.cur) /\ Become(Req, Idle) /\ UNCHANGED attempt
    BY <1>0, <1>5, <2>2 DEF BackendInsert, Inserts, At, rows
  <2> QED BY <1>0, <1>5, <2>1, <2>2 DEF BackendInsert
<1>6. ASSUME BackendLogic(Req) PROVE Computes
  <2>1. PICK o \in {"complete", "fail"} :
          /\ SetExec(Doing.cur, Result(o))
          /\ Become(Req, [Doing EXCEPT !.pc = "settle", !.op = o])
    BY <1>0, <1>6 DEF BackendLogic, Result
  <2>2. Doing' = [Doing EXCEPT !.pc = "settle", !.op = o] BY <1>0, <2>1
  <2>3. /\ Doing'.pc = "settle" /\ Doing'.op = o /\ Doing'.cur = Doing.cur
        /\ Doing'.todo = Doing.todo
    BY <1>0, <2>2 DEF Call
  <2>4. Ends(Doing.cur, Result(o))
    BY <1>6, <2>1, EndsFacts DEF BackendLogic
  <2> QED BY <1>0, <1>6, <2>3, <2>4 DEF BackendLogic, Computes, At
<1>7. ASSUME BackendSettle(Req) PROVE Settles
  BY <1>0, <1>7, LoopFacts DEF BackendSettle, Settles, At, SetStatus, OnlyStatus, Result
<1>8. ASSUME Close(Req) PROVE Closes
  <2> DEFINE d(o) == [Idle EXCEPT !.pc = "stamp", !.op = o]
  <2>1. \A o : d(o).pc = "stamp" /\ d(o).op = o BY DEF Idle
  <2>2. Doing' = IF status[Sink] = "completed" THEN d("complete")
                 ELSE IF Blocked THEN d("fail") ELSE Idle
    BY <1>0, <1>8 DEF Close
  <2> HIDE DEF d
  <2> QED BY <1>0, <1>8, <2>1, <2>2 DEF Close, Closes, At
<1>9. ASSUME Stamp(Req) PROVE Stamps
  BY <1>0, <1>9 DEF Stamp, Stamps, At
<1> QED BY <1>1, <1>2, <1>3, <1>4, <1>5, <1>6, <1>7, <1>8, <1>9

\* The statements of a report, a retry and a sweep.
LEMMA RequestFlat ==
  ASSUME OneThread, TypeOK
  PROVE  /\ Check(Req) => Checks
         /\ EndAttempt(Req) => EndsAttempt
         /\ EndNode(Req) => EndsNode
         /\ Revoke(Req) => Revokes
         /\ SelectDownstream(Req) => Selects
         /\ Invalidate(Req) => Invalidates
         /\ SelectActives(Req) => Collects
         /\ ResetTarget(Req) => Resets
         /\ SweepNode(Req) => SweepsNode
         /\ SweepAttempt(Req) => SweepsAttempt
         /\ Start(Req) \/ Rerun(Req) => Begins
<1>0. /\ Doing = call[Req] /\ Doing \in Call /\ \A d : Become(Req, d) => Doing' = d
      /\ \A r \in Doing.todo : r[1] \in Node
  BY ReqFacts, RowFacts DEF Doing
<1>1. ASSUME Check(Req) PROVE Checks
  <2>1. CASE Current(Doing.cur)
    <3>1. Doing' = [Doing EXCEPT !.pc = "endAttempt"] BY <1>0, <1>1, <2>1 DEF Check
    <3>2. Going("endAttempt") BY <1>0, <3>1 DEF Call, Going
    <3> QED BY <1>0, <1>1, <2>1, <3>2 DEF Check, Checks, At
  <2>2. CASE ~Current(Doing.cur) BY <1>0, <1>1, <2>2 DEF Check, Checks, At
  <2> QED BY <2>1, <2>2
<1>2. ASSUME EndAttempt(Req) PROVE EndsAttempt
  <2>1. Doing' = [Doing EXCEPT !.pc = "endNode"] BY <1>0, <1>2 DEF EndAttempt
  <2>2. Going("endNode") BY <1>0, <2>1 DEF Call, Going
  <2>3. Ends(Doing.cur, Result(Doing.op))
    BY <1>0, <1>2, EndsFacts DEF EndAttempt, Result
  <2> QED BY <1>0, <1>2, <2>2, <2>3 DEF EndAttempt, EndsAttempt, At
<1>3. ASSUME EndNode(Req) PROVE EndsNode
  <2> DEFINE S == {Doing.cur}
  <2>1. Doing' = [Doing EXCEPT !.pc = "revoke", !.revokes = S]
    BY <1>0, <1>3 DEF EndNode
  <2> HIDE DEF S
  <2>2. /\ Doing'.pc = "revoke" /\ Doing'.op = Doing.op /\ Doing'.cur = Doing.cur
        /\ Doing'.todo = Doing.todo /\ Doing'.revokes = S
    BY <1>0, <2>1 DEF Call
  <2> QED BY <1>0, <1>3, <2>2
          DEF EndNode, EndsNode, Revoking, At, SetStatus, OnlyStatus, Result, S
<1>4. ASSUME Revoke(Req) PROVE Revokes
  <2>1. PICK a \in Doing.revokes :
          /\ attempt' = [attempt EXCEPT ![a].auth = "revoked"]
          /\ Become(Req, IF Doing.revokes = {a} THEN AfterRevoke(Req)
                         ELSE [Doing EXCEPT !.revokes = @ \ {a}])
    BY <1>0, <1>4 DEF Revoke
  <2>2. attempt \in [AttemptRow -> Attempt] BY DEF TypeOK, AttemptRow
  <2>3. ASSUME a \in AttemptRow
        PROVE  OnlyAttempt(a, [exec |-> attempt[a].exec, auth |-> "revoked"])
    <3>1. [attempt[a] EXCEPT !.auth = "revoked"]
            = [exec |-> attempt[a].exec, auth |-> "revoked"]
      BY <2>2, <2>3 DEF Attempt
    <3> QED BY <1>4, <2>1, <3>1 DEF Revoke, OnlyAttempt
  <2>4. ASSUME a \notin AttemptRow PROVE UNCHANGED <<rows, workers>>
    BY <1>4, <2>1, <2>2, <2>4 DEF Revoke, rows
  <2>5. CASE Doing.revokes = {a}
    BY <1>0, <1>4, <2>1, <2>3, <2>4, <2>5, RevokedFacts DEF Revoke, Revokes, At
  <2>6. CASE Doing.revokes # {a}
    <3> DEFINE S == Doing.revokes \ {a}
    <3>1. Doing' = [Doing EXCEPT !.revokes = S] BY <1>0, <2>1, <2>6
    <3> HIDE DEF S
    <3>2. /\ Doing'.pc = Doing.pc /\ Doing'.op = Doing.op /\ Doing'.cur = Doing.cur
          /\ Doing'.todo = Doing.todo /\ Doing'.revokes = S
          /\ Doing'.target = Doing.target
      BY <1>0, <3>1 DEF Call
    <3> QED BY <1>0, <1>4, <2>1, <2>3, <2>4, <2>6, <3>2 DEF Revoke, Revokes, At, S
  <2> QED BY <2>5, <2>6
<1>5. ASSUME SelectDownstream(Req) PROVE Selects
  <2> DEFINE hit == {m \in Downstream(Doing.target) : status[m] \in Started}
             S == hit \X {0}
             p == IF hit = {} THEN "reset" ELSE "invalidate"
  <2>1. Doing' = [Doing EXCEPT !.pc = p, !.todo = S]
    BY <1>0, <1>5 DEF SelectDownstream, Started
  <2>2. S = {} <=> hit = {}
    <3>1. ASSUME NEW m \in hit PROVE <<m, 0>> \in S OBVIOUS
    <3>2. ASSUME NEW s \in S PROVE hit # {} OBVIOUS
    <3> QED BY <3>1, <3>2
  <2> HIDE DEF p, S
  <2>3. /\ Doing'.pc = p /\ Doing'.todo = S /\ Doing'.op = Doing.op
        /\ Doing'.target = Doing.target
    BY <1>0, <2>1 DEF Call
  <2>4. p = IF S = {} THEN "reset" ELSE "invalidate" BY <2>2 DEF p
  <2>5. S = hit \X {0} BY DEF S
  <2>6. UNCHANGED <<rows, workers>> /\ Doing.pc = "downstream"
    BY <1>0, <1>5 DEF SelectDownstream, At
  <2> HIDE DEF hit
  <2>7. Doing'.pc = IF Doing'.todo = {} THEN "reset" ELSE "invalidate" BY <2>3, <2>4
  <2> QED BY <2>3, <2>5, <2>6, <2>7 DEF Selects, hit
<1>6. ASSUME Invalidate(Req) PROVE Invalidates
  <2>1. PICK r \in Doing.todo :
          /\ SetStatus(r[1], "invalidated")
          /\ Become(Req, [Doing EXCEPT !.pc = "actives", !.cur = r, !.todo = @ \ {r}])
    BY <1>0, <1>6 DEF Invalidate
  <2> DEFINE S == Doing.todo \ {r}
  <2>2. Doing' = [Doing EXCEPT !.pc = "actives", !.cur = r, !.todo = S] BY <1>0, <2>1
  <2> HIDE DEF S
  <2>3. /\ Doing'.pc = "actives" /\ Doing'.op = Doing.op /\ Doing'.cur = r
        /\ Doing'.target = Doing.target /\ Doing'.todo = S
    BY <1>0, <2>2 DEF Call
  <2> QED BY <1>0, <1>6, <2>1, <2>3
          DEF Invalidate, Invalidates, At, SetStatus, OnlyStatus, S
<1>7. ASSUME SelectActives(Req) PROVE Collects
  <2> DEFINE act == {a \in DOMAIN attempt : /\ a[1] = Doing.cur[1]
                                            /\ attempt[a].auth = "active"}
  <2>1. Become(Req, IF act = {} THEN AfterRevoke(Req)
                    ELSE [Doing EXCEPT !.pc = "revoke", !.revokes = act])
    BY <1>0, <1>7 DEF SelectActives
  <2> HIDE DEF act
  <2>2. CASE act = {}
    BY <1>0, <1>7, <2>1, <2>2, RevokedFacts DEF SelectActives, Collects, At
  <2>3. CASE act # {}
    <3>1. Doing' = [Doing EXCEPT !.pc = "revoke", !.revokes = act] BY <1>0, <2>1, <2>3
    <3>2. /\ Doing'.pc = "revoke" /\ Doing'.op = Doing.op
          /\ Doing'.target = Doing.target /\ Doing'.todo = Doing.todo
      BY <1>0, <3>1 DEF Call
    <3> QED BY <1>0, <1>7, <3>2 DEF SelectActives, Collects, At
  <2> QED BY <2>2, <2>3
<1>8. ASSUME ResetTarget(Req) PROVE Resets
  <2>1. Doing' = [Doing EXCEPT !.pc = "rerun"] BY <1>0, <1>8 DEF ResetTarget
  <2>2. Going("rerun") BY <1>0, <2>1 DEF Call, Going
  <2> QED BY <1>0, <1>8, <2>2 DEF ResetTarget, Resets, At, SetStatus, OnlyStatus
<1>9. ASSUME SweepNode(Req) PROVE SweepsNode
  <2>1. PICK a \in Doing.todo :
          /\ SetStatus(a[1], "failed")
          /\ Become(Req, [Doing EXCEPT !.pc = "sweepAttempt", !.cur = a,
                                       !.todo = @ \ {a}])
    BY <1>0, <1>9 DEF SweepNode
  <2> DEFINE S == Doing.todo \ {a}
  <2>2. Doing' = [Doing EXCEPT !.pc = "sweepAttempt", !.cur = a, !.todo = S]
    BY <1>0, <2>1
  <2> HIDE DEF S
  <2>3. /\ Doing'.pc = "sweepAttempt" /\ Doing'.op = Doing.op /\ Doing'.cur = a
        /\ Doing'.todo = S
    BY <1>0, <2>2 DEF Call
  <2> QED BY <1>0, <1>9, <2>1, <2>3
          DEF SweepNode, SweepsNode, At, SetStatus, OnlyStatus, S
<1>10. ASSUME SweepAttempt(Req) PROVE SweepsAttempt
  <2> DEFINE S == {Doing.cur}
  <2>1. Doing' = [Doing EXCEPT !.pc = "revoke", !.revokes = S]
    BY <1>0, <1>10 DEF SweepAttempt
  <2> HIDE DEF S
  <2>2. /\ Doing'.pc = "revoke" /\ Doing'.op = Doing.op /\ Doing'.cur = Doing.cur
        /\ Doing'.todo = Doing.todo /\ Doing'.revokes = S
    BY <1>0, <2>1 DEF Call
  <2>3. Ends(Doing.cur, "timed_out") BY <1>0, <1>10, EndsFacts DEF SweepAttempt
  <2> QED BY <1>0, <1>10, <2>2, <2>3 DEF SweepAttempt, SweepsAttempt, Revoking, At, S
<1>11. ASSUME Start(Req) \/ Rerun(Req) PROVE Begins
  BY <1>0, <1>11 DEF Start, Rerun, Begins, At
<1> QED BY <1>1, <1>2, <1>3, <1>4, <1>5, <1>6, <1>7, <1>8, <1>9, <1>10, <1>11

\* The engine's part of a step, the requests' and what is left.
Engine == \/ Scans \/ Promotes \/ StartsNode \/ Numbers \/ Inserts \/ Computes
          \/ Settles \/ Closes \/ Stamps
Requested == \/ Checks \/ EndsAttempt \/ EndsNode \/ Revokes \/ Selects
             \/ Invalidates \/ Collects \/ Resets \/ SweepsNode \/ SweepsAttempt
             \/ Begins \/ Retries \/ BeginsSweep \/ Reports \/ Breaks

LEMMA StepFlat ==
  ASSUME OneThread, TypeOK, [Next]_vars
  PROVE  Engine \/ Requested \/ Claims \/ Waits
<1>0. /\ Doing = call[Req] /\ Doing \in Call /\ \A d : Become(Req, d) => Doing' = d
      /\ Thread = {Req}
  BY ReqFacts DEF Doing
<1>1. ASSUME Handler(Req) PROVE Engine \/ Requested
  BY <1>1, LoopFlat, RequestFlat DEF Handler, Engine, Requested
<1>2. ASSUME NEW n \in Node, Retry(Req, n) PROVE Retries
  <2>1. Doing' = [Idle EXCEPT !.pc = "downstream", !.op = "retry", !.target = n]
    BY <1>0, <1>2 DEF Retry
  <2>2. /\ Doing'.pc = "downstream" /\ Doing'.op = "retry" /\ Doing'.target = n
        /\ Doing'.todo = {}
    BY <2>1 DEF Idle
  <2> QED BY <1>0, <1>2, <2>2 DEF Retry, Retries, At
<1>3. ASSUME Sweep(Req) PROVE BeginsSweep
  <2> DEFINE S == TimedOut
  <2>1. Doing' = [Idle EXCEPT !.pc = "sweepNode", !.op = "sweep", !.todo = S]
    BY <1>0, <1>3 DEF Sweep
  <2> HIDE DEF S
  <2>2. Doing'.pc = "sweepNode" /\ Doing'.op = "sweep" /\ Doing'.todo = S
    BY <2>1 DEF Idle
  <2> QED BY <1>0, <1>3, <2>2 DEF Sweep, BeginsSweep, At, S
<1>4. ASSUME NEW n \in Node, SendComplete(Req, n) \/ SendFail(Req, n) PROVE Reports
  <2>1. PICK o \in {"complete", "fail"} :
          Become(Req, [Idle EXCEPT !.pc = "check", !.op = o, !.cur = <<n, work[n]>>])
    BY <1>4 DEF SendComplete, SendFail
  <2> DEFINE r == <<n, work[n]>>
  <2>2. Doing' = [Idle EXCEPT !.pc = "check", !.op = o, !.cur = r] BY <1>0, <2>1
  <2> HIDE DEF r
  <2>3. Doing'.pc = "check" /\ Doing'.op = o /\ Doing'.cur = r BY <2>2 DEF Idle
  <2> QED BY <1>0, <1>4, <2>3 DEF SendComplete, SendFail, Reports, At, r
<1>5. ASSUME Interrupt(Req) PROVE Breaks
  BY <1>0, <1>5 DEF Interrupt, Breaks
<1>6. ASSUME NEW n \in Node, Heartbeat(n) \/ Expire(n) \/ WorkerLeaves(n) PROVE Waits
  BY <1>6 DEF Heartbeat, Expire, WorkerLeaves, Waits, TypeOK, rows, workers
<1>7. ASSUME NEW n \in Node, Claim(n) PROVE Claims
  BY <1>7 DEF Claim, Claims
<1>8. CASE UNCHANGED vars BY <1>8 DEF vars, rows, workers, Waits
<1> QED BY <1>0, <1>1, <1>2, <1>3, <1>4, <1>5, <1>6, <1>7, <1>8, RequestFlat
        DEF Next, Report, Requested

-----------------------------------------------------------------------------
(* Evidence. A node that was promoted had all its dependencies completed;   *)
(* the attempt that completed one is overwritten by nothing afterwards:     *)
(* what sweeps and late reports write to is an attempt still running, or a  *)
(* newest one whose node is.                                                *)

Evidence(m) ==
  \E k \in 1..attemptNo[m] :
    /\ attempt[<<m, k>>].exec = "completed"
    /\ k = attemptNo[m] => status[m] \in {"completed", "invalidated"}
StartedHaveEvidence ==
  \A n \in Node : attemptNo[n] > 0 \/ status[n] \in {"runnable", "running"} =>
    \A m \in Upstream(n) : Evidence(m)
CompletedHaveEvidence == \A n \in Node : status[n] = "completed" => Evidence(n)

Newest(a) == attemptNo[a[1]] = a[2]

\* What the request that is served knows of the rows it works on.
Busy == {"number", "insert", "logic", "settle"}
LoopKnows ==
  /\ Doing.pc \in {"promote", "exec"} \cup Busy =>
       \A r \in Doing.todo : r[2] = 0 /\ r[1] \in Promotable
  /\ Doing.pc \in Busy => status[Doing.cur[1]] = "running"
  /\ Doing.pc = "number" => Doing.cur[2] = attemptNo[Doing.cur[1]] + 1
  /\ Doing.pc \in Busy \ {"number"} => Doing.cur \in AttemptRow /\ Newest(Doing.cur)
  /\ Doing.pc = "logic" => attempt[Doing.cur].exec = "running"
  /\ Doing.pc = "settle" => attempt[Doing.cur].exec = Result(Doing.op)
ReportKnows ==
  /\ Doing.pc \in {"check", "endAttempt", "endNode"} => Doing.op \in {"complete", "fail"}
  /\ Doing.pc \in {"endAttempt", "endNode"} =>
       \/ Newest(Doing.cur)
       \/ /\ Doing.cur[2] < attemptNo[Doing.cur[1]]
          /\ attempt[<<Doing.cur[1], attemptNo[Doing.cur[1]]>>].exec = "running"
  /\ Doing.pc = "endAttempt" => attempt[Doing.cur].exec = "running"
  /\ Doing.pc = "endNode" => /\ Doing.cur \in AttemptRow
                             /\ attempt[Doing.cur].exec = Result(Doing.op)
SweepKnows ==
  /\ Doing.op = "sweep" => \A a \in Doing.todo : status[a[1]] = "running" /\ Newest(a)
  /\ Doing.pc = "sweepAttempt" => status[Doing.cur[1]] = "failed" /\ Newest(Doing.cur)
RetryKnows ==
  /\ Doing.pc \in {"downstream", "invalidate", "actives", "reset"} => Doing.op = "retry"
  /\ Doing.pc = "revoke" => Doing.op # "none"
  /\ Doing.op = "retry" => Doing.pc \in {"downstream", "invalidate", "actives",
                                       "revoke", "reset", "rerun"}
  /\ Doing.op = "retry" /\ Doing.pc # "rerun" =>
       status[Doing.target] = "failed" /\ \A r \in Doing.todo : r[1] # Doing.target

RequestKnows == LoopKnows /\ ReportKnows /\ SweepKnows /\ RetryKnows
EvidenceInv ==
  FenceInv /\ StartedHaveEvidence /\ CompletedHaveEvidence /\ RequestKnows

LEMMA RowTypes ==
  ASSUME TypeOK
  PROVE  /\ status \in [Node -> NodeStatus] /\ attemptNo \in [Node -> 0..MaxAttempt]
         /\ attempt \in [AttemptRow -> Attempt] /\ MaxAttempt \in Nat \ {0}
         /\ \A n \in Node, k \in 1..MaxAttempt : <<n, k>> \in AttemptRow
         /\ \A a \in AttemptRow : /\ a[1] \in Node /\ a[2] \in 1..MaxAttempt
                                  /\ a = <<a[1], a[2]>>
BY BoundAssumption DEF TypeOK, AttemptRow

LEMMA StatusKeeps ==
  ASSUME TypeOK, NEW n \in Node, NEW s, OnlyStatus(n, s),
         \/ status[n] \notin {"completed", "invalidated"}
         \/ s \in {"completed", "invalidated"}
         \/ \A k \in 1..MaxAttempt : k = attemptNo[n] => attempt[<<n, k>>].exec # "completed",
         NEW m \in Node, Evidence(m)
  PROVE  Evidence(m)'
<1>1. PICK k \in 1..attemptNo[m] :
        /\ attempt[<<m, k>>].exec = "completed"
        /\ k = attemptNo[m] => status[m] \in {"completed", "invalidated"}
  BY DEF Evidence
<1>2. k \in 1..MaxAttempt BY <1>1, RowTypes
<1>3. k = attemptNo[m] => status'[m] \in {"completed", "invalidated"}
  BY <1>1, <1>2, RowTypes DEF OnlyStatus
<1>4. attempt' = attempt /\ attemptNo' = attemptNo BY DEF OnlyStatus
<1> QED BY <1>1, <1>3, <1>4 DEF Evidence

LEMMA AttemptKeeps ==
  ASSUME TypeOK, NEW a \in AttemptRow, NEW r, OnlyAttempt(a, r),
         \/ attempt[a].exec # "completed"
         \/ r.exec = "completed"
         \/ Newest(a) /\ status[a[1]] \notin {"completed", "invalidated"},
         NEW m \in Node, Evidence(m)
  PROVE  Evidence(m)'
<1>1. PICK k \in 1..attemptNo[m] :
        /\ attempt[<<m, k>>].exec = "completed"
        /\ k = attemptNo[m] => status[m] \in {"completed", "invalidated"}
  BY DEF Evidence
<1>2. k \in 1..MaxAttempt /\ <<m, k>> \in AttemptRow BY <1>1, RowTypes
<1>3. attempt'[<<m, k>>].exec = "completed"
  <2>1. CASE a = <<m, k>>
    <3>1. attempt'[a] = r BY <1>2, <2>1, RowTypes DEF OnlyAttempt
    <3>2. r.exec = "completed" BY <1>1, <2>1 DEF Newest
    <3> QED BY <2>1, <3>1, <3>2
  <2>2. CASE a # <<m, k>> BY <1>1, <1>2, <2>2, RowTypes DEF OnlyAttempt
  <2> QED BY <2>1, <2>2
<1>4. status' = status /\ attemptNo' = attemptNo BY DEF OnlyAttempt
<1> QED BY <1>1, <1>3, <1>4 DEF Evidence

LEMMA ClaimFlat ==
  ASSUME FenceInv, NEW n \in Agent, Claim(n)
  PROVE  LET k == attemptNo[n] + 1 IN
         /\ n \in Node /\ k \in 1..MaxAttempt /\ status[n] = "runnable"
         /\ status' = [status EXCEPT ![n] = "running"]
         /\ attemptNo' = [attemptNo EXCEPT ![n] = k]
         /\ ~Created(<<n, k>>)
         /\ attempt' = [attempt EXCEPT ![<<n, k>>] = [exec |-> "running",
                                                      auth |-> "active"]]
         /\ runStatus' = runStatus
<1>1. attemptNo[n] + 1 \in 1..MaxAttempt /\ n \in Node
  BY RowTypes DEF FenceInv, Claim, Agent
<1> QED BY <1>1 DEF Claim, SetStatus

LEMMA ClaimKeeps ==
  ASSUME FenceInv, NEW n \in Agent, Claim(n), NEW m \in Node, Evidence(m)
  PROVE  Evidence(m)'
<1> DEFINE j == attemptNo[n] + 1
<1>0. TypeOK BY DEF FenceInv
<1>1. PICK k \in 1..attemptNo[m] :
        /\ attempt[<<m, k>>].exec = "completed"
        /\ k = attemptNo[m] => status[m] \in {"completed", "invalidated"}
  BY DEF Evidence
<1>2. k \in 1..MaxAttempt /\ <<m, k>> \in AttemptRow BY <1>0, <1>1, RowTypes
<1>3. <<m, k>> # <<n, j>> BY <1>0, <1>1, RowTypes
<1>4. attempt'[<<m, k>>].exec = "completed"
  BY <1>0, <1>1, <1>2, <1>3, RowTypes, ClaimFlat
<1>5. CASE m = n
  <2>1. attemptNo'[m] = attemptNo[m] + 1 /\ attemptNo[m] \in Nat
    <3>1. n \in Node /\ attemptNo' = [attemptNo EXCEPT ![n] = attemptNo[n] + 1]
      BY ClaimFlat
    <3>2. attemptNo \in [Node -> 0..MaxAttempt] /\ MaxAttempt \in Nat BY <1>0, RowTypes
    <3> QED BY <1>5, <3>1, <3>2
  <2>2. k < attemptNo'[m] /\ k \in 1..attemptNo'[m]
    BY <1>1, <2>1
  <2> QED BY <1>4, <2>2 DEF Evidence
<1>6. CASE m # n
  <2>1. attemptNo'[m] = attemptNo[m] /\ status'[m] = status[m]
    BY <1>0, <1>6, RowTypes, ClaimFlat
  <2> QED BY <1>1, <1>4, <2>1 DEF Evidence
<1> QED BY <1>5, <1>6

\* No step takes evidence away.
LEMMA EvidenceKept ==
  ASSUME OneThread, EvidenceInv, [Next]_vars, NEW m \in Node, Evidence(m)
  PROVE  Evidence(m)'
<1>0. /\ FenceInv /\ TypeOK /\ RequestKnows /\ RowsExist(Doing)
      /\ Doing \in Call /\ Doing.cur[1] \in Node /\ Doing.target \in Node
  BY ReqFacts DEF EvidenceInv, FenceInv, CallsAreGrounded, Doing
<1>1. CASE UNCHANGED <<status, attemptNo, attempt>>
  BY <1>1 DEF Evidence
<1>2. CASE Promotes
  <2>1. PICK r \in Doing.todo : r[1] \in Node /\ OnlyStatus(r[1], "runnable")
    BY <1>2 DEF Promotes
  <2>2. status[r[1]] = "pending"
    BY <1>0, <1>2, <2>1 DEF Promotes, RequestKnows, LoopKnows, Promotable
  <2> QED BY <1>0, <2>1, <2>2, StatusKeeps
<1>3. CASE StartsNode
  BY <1>0, <1>1, <1>3, StatusKeeps DEF StartsNode, rows
<1>4. CASE Numbers
  <2> DEFINE n == Doing.cur[1]
  <2>1. /\ status[n] = "running" /\ Doing.cur[2] = attemptNo[n] + 1
        /\ attemptNo' = [attemptNo EXCEPT ![n] = Doing.cur[2]]
        /\ status' = status /\ attempt' = attempt
    BY <1>0, <1>4 DEF Numbers, RequestKnows, LoopKnows, Busy
  <2>2. PICK k \in 1..attemptNo[m] :
          /\ attempt[<<m, k>>].exec = "completed"
          /\ k = attemptNo[m] => status[m] \in {"completed", "invalidated"}
    BY DEF Evidence
  <2>3. CASE m = n
    <3>1. attemptNo'[m] = attemptNo[m] + 1 /\ attemptNo[m] \in Nat
      BY <1>0, <2>1, <2>3, RowTypes
    <3>2. k < attemptNo'[m] /\ k \in 1..attemptNo'[m] BY <2>2, <3>1
    <3> QED BY <2>1, <2>2, <3>2 DEF Evidence
  <2>4. CASE m # n
    <3>1. attemptNo'[m] = attemptNo[m] BY <1>0, <2>1, <2>4, RowTypes
    <3> QED BY <2>1, <2>2, <3>1 DEF Evidence
  <2> QED BY <2>3, <2>4
<1>5. CASE Inserts
  <2>1. CASE Created(Doing.cur) BY <1>1, <1>5, <2>1 DEF Inserts, rows
  <2>2. CASE ~Created(Doing.cur)
    BY <1>0, <1>5, <2>2, AttemptKeeps
       DEF Inserts, RequestKnows, LoopKnows, Busy, Created
  <2> QED BY <2>1, <2>2
<1>6. CASE Computes
  BY <1>0, <1>6, AttemptKeeps DEF Computes, Ends, RequestKnows, LoopKnows, Busy
<1>7. CASE Settles
  <2>1. /\ status[Doing.cur[1]] = "running" /\ OnlyStatus(Doing.cur[1], Result(Doing.op))
    BY <1>0, <1>7 DEF Settles, RequestKnows, LoopKnows, Busy
  <2> QED BY <1>0, <2>1, StatusKeeps
<1>8. CASE EndsAttempt
  <2>1. /\ Doing.cur \in AttemptRow /\ attempt[Doing.cur].exec = "running"
        /\ Ends(Doing.cur, Result(Doing.op))
    BY <1>0, <1>8 DEF EndsAttempt, RequestKnows, ReportKnows, RowsExist
  <2> QED BY <1>0, <2>1, AttemptKeeps DEF Ends
<1>9. CASE EndsNode
  <2> DEFINE n == Doing.cur[1]
  <2>1. /\ OnlyStatus(n, Result(Doing.op)) /\ Doing.cur \in AttemptRow
        /\ attempt[Doing.cur].exec = Result(Doing.op)
        /\ \/ Newest(Doing.cur)
           \/ attempt[<<n, attemptNo[n]>>].exec = "running"
    BY <1>0, <1>9 DEF EndsNode, RequestKnows, ReportKnows
  <2>2. CASE Result(Doing.op) = "completed" BY <1>0, <2>1, <2>2, StatusKeeps
  <2>3. CASE Result(Doing.op) # "completed"
    <3>1. \A k \in 1..MaxAttempt : k = attemptNo[n] => attempt[<<n, k>>].exec # "completed"
      BY <1>0, <2>1, <2>3, RowTypes DEF Newest
    <3> QED BY <1>0, <2>1, <3>1, StatusKeeps
  <2> QED BY <2>2, <2>3
<1>10. CASE Revokes
  <2>1. PICK a \in Doing.revokes :
          /\ a \in AttemptRow => OnlyAttempt(a, [exec |-> attempt[a].exec, auth |-> "revoked"])
          /\ a \notin AttemptRow => UNCHANGED <<rows, workers>>
    BY <1>10 DEF Revokes
  <2>2. CASE a \in AttemptRow BY <1>0, <2>1, <2>2, AttemptKeeps
  <2> QED BY <1>1, <2>1, <2>2 DEF rows
<1>11. CASE Invalidates
  BY <1>0, <1>11, StatusKeeps DEF Invalidates
<1>12. CASE Resets
  <2>1. status[Doing.target] = "failed" /\ OnlyStatus(Doing.target, "pending")
    BY <1>0, <1>12 DEF Resets, RequestKnows, RetryKnows
  <2> QED BY <1>0, <2>1, StatusKeeps
<1>13. CASE SweepsNode
  <2>1. PICK a \in Doing.todo : a[1] \in Node /\ OnlyStatus(a[1], "failed")
    BY <1>13 DEF SweepsNode
  <2>2. status[a[1]] = "running"
    BY <1>0, <1>13, <2>1 DEF SweepsNode, RequestKnows, SweepKnows, RowsExist
  <2> QED BY <1>0, <2>1, <2>2, StatusKeeps
<1>14. CASE SweepsAttempt
  <2>1. /\ Doing.cur \in AttemptRow /\ Newest(Doing.cur)
        /\ status[Doing.cur[1]] = "failed" /\ Ends(Doing.cur, "timed_out")
    BY <1>0, <1>14 DEF SweepsAttempt, RequestKnows, SweepKnows, RowsExist
  <2> QED BY <1>0, <2>1, AttemptKeeps DEF Ends
<1>15. CASE Claims BY <1>0, <1>15, ClaimKeeps DEF Claims
<1>16. CASE \/ Scans \/ Closes \/ Stamps \/ Checks \/ Selects \/ Collects \/ Begins
            \/ Retries \/ BeginsSweep \/ Reports \/ Breaks \/ Waits
  <2>1. UNCHANGED <<status, attemptNo, attempt>>
    BY <1>16 DEF Scans, Closes, Stamps, Checks, Selects, Collects, Begins, Retries,
       BeginsSweep, Reports, Breaks, Waits, rows
  <2> QED BY <1>1, <2>1
<1> QED BY <1>0, <1>2, <1>3, <1>4, <1>5, <1>6, <1>7, <1>8, <1>9, <1>10, <1>11, <1>12,
           <1>13, <1>14, <1>15, <1>16, StepFlat DEF Engine, Requested

\* A node starts on the evidence it was promoted on, or a later one.
LEMMA StartedKept ==
  ASSUME OneThread, EvidenceInv, [Next]_vars
  PROVE  StartedHaveEvidence'
<1>0. /\ TypeOK /\ RequestKnows /\ RowsExist(Doing)
      /\ Doing \in Call /\ Doing.cur[1] \in Node /\ Doing.target \in Node
      /\ StartedHaveEvidence /\ CompletedHaveEvidence
  BY ReqFacts DEF EvidenceInv, FenceInv, CallsAreGrounded, Doing
<1>1. SUFFICES ASSUME NEW n \in Node,
                      attemptNo'[n] > 0 \/ status'[n] \in {"runnable", "running"},
                      NEW m \in Upstream(n)
               PROVE  Evidence(m)
  BY EvidenceKept DEF StartedHaveEvidence, Upstream
<1>2. SUFFICES ASSUME ~(attemptNo[n] > 0 \/ status[n] \in {"runnable", "running"})
               PROVE  Evidence(m)
  BY <1>0 DEF StartedHaveEvidence
<1>3. CASE Promotes
  <2>1. PICK r \in Doing.todo : r[1] \in Node /\ OnlyStatus(r[1], "runnable")
    BY <1>3 DEF Promotes
  <2>2. n = r[1] BY <1>0, <1>1, <1>2, <2>1, RowTypes DEF OnlyStatus
  <2>3. \A u \in Upstream(n) : status[u] = "completed"
    BY <1>0, <1>3, <2>1, <2>2 DEF Promotes, RequestKnows, LoopKnows, Promotable
  <2> QED BY <1>0, <2>3 DEF CompletedHaveEvidence, Upstream
<1>4. CASE StartsNode
  BY <1>0, <1>1, <1>2, <1>4, RowTypes DEF StartsNode, OnlyStatus, rows
<1>5. CASE Numbers
  <2>1. status[Doing.cur[1]] = "running"
    BY <1>0, <1>5 DEF Numbers, RequestKnows, LoopKnows, Busy
  <2> QED BY <1>0, <1>1, <1>2, <1>5, <2>1, RowTypes DEF Numbers
<1>6. CASE Claims
  <2>1. PICK a \in Agent : Claim(a) BY <1>6 DEF Claims
  <2>2. /\ a \in Node /\ status[a] = "runnable"
        /\ status' = [status EXCEPT ![a] = "running"]
        /\ attemptNo' = [attemptNo EXCEPT ![a] = attemptNo[a] + 1]
    BY <2>1, ClaimFlat DEF EvidenceInv
  <2> QED BY <1>0, <1>1, <1>2, <2>2, RowTypes
<1>7. CASE Settles \/ EndsNode \/ Invalidates \/ Resets \/ SweepsNode
  <2>1. PICK u \in Node, s \in {"completed", "failed", "invalidated", "pending"} :
          OnlyStatus(u, s)
    BY <1>0, <1>7 DEF Settles, EndsNode, Invalidates, Resets, SweepsNode, Result
  <2> QED BY <1>0, <1>1, <1>2, <2>1, RowTypes DEF OnlyStatus
<1>8. CASE \/ Scans \/ Inserts \/ Computes \/ Closes \/ Stamps \/ Checks \/ EndsAttempt
           \/ Revokes \/ Selects \/ Collects \/ SweepsAttempt \/ Begins
           \/ Retries \/ BeginsSweep \/ Reports \/ Breaks \/ Waits
  <2>1. UNCHANGED <<status, attemptNo>>
    BY <1>8 DEF Scans, Inserts, Computes, Closes, Stamps, Checks, EndsAttempt, Revokes,
       Selects, Collects, SweepsAttempt, Begins, Retries, BeginsSweep, Reports, Breaks,
       Waits, Ends, OnlyAttempt, rows
  <2> QED BY <1>1, <1>2, <2>1
<1> QED BY <1>0, <1>3, <1>4, <1>5, <1>6, <1>7, <1>8, StepFlat DEF Engine, Requested

LEMMA CompletedKept ==
  ASSUME OneThread, EvidenceInv, [Next]_vars
  PROVE  CompletedHaveEvidence'
<1>0. /\ TypeOK /\ RequestKnows /\ RowsExist(Doing) /\ FenceInv
      /\ Doing \in Call /\ Doing.cur[1] \in Node /\ Doing.target \in Node
      /\ CompletedHaveEvidence
  BY ReqFacts DEF EvidenceInv, FenceInv, CallsAreGrounded, Doing
<1>1. SUFFICES ASSUME NEW n \in Node, status'[n] = "completed", status[n] # "completed"
               PROVE  Evidence(n)'
  BY <1>0, EvidenceKept DEF CompletedHaveEvidence
<1>2. ASSUME OnlyStatus(Doing.cur[1], Result(Doing.op)), Doing.cur \in AttemptRow,
             attempt[Doing.cur].exec = Result(Doing.op),
             Doing.cur[2] <= attemptNo[Doing.cur[1]]
      PROVE  Evidence(n)'
  <2>1. n = Doing.cur[1] /\ Result(Doing.op) = "completed"
    BY <1>0, <1>1, <1>2, RowTypes DEF OnlyStatus
  <2> DEFINE k == Doing.cur[2]
  <2>2. k \in 1..attemptNo'[n] /\ <<n, k>> = Doing.cur
    BY <1>0, <1>2, <2>1, RowTypes DEF OnlyStatus
  <2>3. attempt'[<<n, k>>].exec = "completed" BY <1>2, <2>1, <2>2 DEF OnlyStatus
  <2> QED BY <1>1, <2>2, <2>3 DEF Evidence
<1>3. CASE Settles
  <2>1. /\ Doing.cur \in AttemptRow /\ Newest(Doing.cur)
        /\ attempt[Doing.cur].exec = Result(Doing.op)
    BY <1>0, <1>3 DEF Settles, RequestKnows, LoopKnows, Busy
  <2>2. Doing.cur[2] <= attemptNo[Doing.cur[1]] BY <1>0, <2>1, RowTypes DEF Newest
  <2> QED BY <1>2, <1>3, <2>1, <2>2 DEF Settles
<1>4. CASE EndsNode
  <2>1. /\ Doing.cur \in AttemptRow
        /\ Newest(Doing.cur) \/ Doing.cur[2] < attemptNo[Doing.cur[1]]
        /\ attempt[Doing.cur].exec = Result(Doing.op)
    BY <1>0, <1>4 DEF EndsNode, RequestKnows, ReportKnows
  <2>2. Doing.cur[2] <= attemptNo[Doing.cur[1]] BY <1>0, <2>1, RowTypes DEF Newest
  <2> QED BY <1>2, <1>4, <2>1, <2>2 DEF EndsNode
<1>5. CASE Promotes \/ StartsNode \/ Invalidates \/ Resets \/ SweepsNode
  <2>1. \/ UNCHANGED status
        \/ \E u \in Node, s \in {"runnable", "running", "failed", "invalidated", "pending"} :
             OnlyStatus(u, s)
    BY <1>0, <1>5 DEF Promotes, StartsNode, Invalidates, Resets, SweepsNode, rows
  <2> QED BY <1>0, <1>1, <2>1, RowTypes DEF OnlyStatus
<1>6. CASE Claims
  <2>1. PICK a \in Agent : Claim(a) BY <1>6 DEF Claims
  <2>2. status' = [status EXCEPT ![a] = "running"] BY <1>0, <2>1, ClaimFlat
  <2> QED BY <1>0, <1>1, <2>2, RowTypes
<1>7. CASE \/ Scans \/ Numbers \/ Inserts \/ Computes \/ Closes \/ Stamps \/ Checks
           \/ EndsAttempt \/ Revokes \/ Selects \/ Collects \/ SweepsAttempt \/ Begins
           \/ Retries \/ BeginsSweep \/ Reports \/ Breaks \/ Waits
  <2>1. UNCHANGED status
    BY <1>7 DEF Scans, Numbers, Inserts, Computes, Closes, Stamps, Checks, EndsAttempt,
       Revokes, Selects, Collects, SweepsAttempt, Begins, Retries, BeginsSweep, Reports,
       Breaks, Waits, Ends, OnlyAttempt, rows
  <2> QED BY <1>1, <2>1
<1> QED BY <1>0, <1>3, <1>4, <1>5, <1>6, <1>7, StepFlat DEF Engine, Requested

\* What is promotable stays so while other nodes are started or settled.
LEMMA PromotableOn ==
  ASSUME TypeOK, NEW n \in Node, NEW s, status' = [status EXCEPT ![n] = s],
         status[n] \notin {"pending", "completed"}
  PROVE  \A m \in Promotable : m \in Promotable'
BY RowTypes DEF Promotable, Upstream

LEMMA LoopKnowsKept ==
  ASSUME OneThread, EvidenceInv, [Next]_vars
  PROVE  LoopKnows'
<1>0. /\ TypeOK /\ TypeOK' /\ LoopKnows /\ RowsExist(Doing) /\ FenceInv
      /\ Doing \in Call /\ Doing.cur[1] \in Node /\ Doing.todo \in SUBSET Row
  BY ReqFacts, StepTyped
     DEF EvidenceInv, FenceInv, CallsAreGrounded, Doing, RequestKnows
<1>1. ASSUME Doing'.pc \notin {"promote", "exec"} \cup Busy PROVE LoopKnows'
  BY <1>1 DEF LoopKnows, Busy
<1>2. CASE Scans
  <2>1. CASE Doing' = Closing BY <1>0, <1>1, <2>1, LoopFacts DEF Busy
  <2>2. CASE Doing' # Closing
    <3>1. /\ Doing'.pc = "promote" /\ Doing'.todo = Promotable \X {0}
          /\ status' = status
      BY <1>2, <2>2 DEF Scans, rows
    <3>2. Promotable' = Promotable BY <3>1 DEF Promotable
    <3> QED BY <3>1, <3>2 DEF LoopKnows, Busy
  <2> QED BY <2>1, <2>2
<1>3. CASE Promotes
  <2>1. PICK r \in Doing.todo :
          /\ r[1] \in Node /\ OnlyStatus(r[1], "runnable")
          /\ Doing'.todo = Doing.todo \ {r} /\ Doing'.pc \in {"exec", "scan", "promote"}
    BY <1>3 DEF Promotes, Looping
  <2>2. \A u \in Doing.todo : u[2] = 0 /\ u[1] \in Promotable
    BY <1>0, <1>3 DEF Promotes, LoopKnows
  <2>3. ASSUME NEW u \in Doing'.todo PROVE u[2] = 0 /\ u[1] \in Promotable'
    <3>1. u[1] # r[1] /\ u[2] = 0 /\ u[1] \in Promotable
      BY <1>0, <2>1, <2>2 DEF Row
    <3>2. status[r[1]] = "pending" BY <2>2 DEF Promotable
    <3> QED BY <1>0, <2>1, <3>1, <3>2, RowTypes DEF OnlyStatus, Promotable, Upstream
  <2> QED BY <2>1, <2>3 DEF LoopKnows, Busy
<1>4. CASE StartsNode
  <2> DEFINE n == Doing.cur[1]
  <2>1. CASE UNCHANGED <<rows, workers>> /\ Looping
    BY <1>0, <1>4, <2>1 DEF StartsNode, Looping, LoopKnows, Busy, Promotable, Upstream, rows
  <2>2. CASE /\ status[n] = "runnable" /\ OnlyStatus(n, "running")
             /\ Doing'.pc = "number" /\ Doing'.cur = <<n, attemptNo[n] + 1>>
    <3>1. \A m \in Promotable : m \in Promotable'
      BY <1>0, <2>2, PromotableOn DEF OnlyStatus
    <3>2. status'[n] = "running" /\ attemptNo' = attemptNo
      BY <1>0, <2>2, RowTypes DEF OnlyStatus
    <3>3. \A r \in Doing.todo : r[2] = 0 /\ r[1] \in Promotable
      BY <1>0, <1>4 DEF StartsNode, LoopKnows
    <3> QED BY <1>4, <2>2, <3>1, <3>2, <3>3 DEF StartsNode, LoopKnows, Busy
  <2> QED BY <1>4, <2>1, <2>2 DEF StartsNode
<1>5. CASE Numbers
  <2>1. Doing.cur[2] = attemptNo[Doing.cur[1]] + 1 /\ Doing'.cur = Doing.cur
    BY <1>0, <1>5 DEF Numbers, LoopKnows, Busy, Going
  <2>2. Doing.cur \in AttemptRow
    <3>1. Doing.cur \in Row BY <1>0 DEF Call
    <3>2. Doing.cur[2] \in 1..MaxAttempt BY <1>0, <2>1, <3>1, RowTypes, RowFacts
    <3> QED BY <3>1, <3>2 DEF Row, AttemptRow
  <2>3. Newest(Doing.cur)' BY <1>0, <1>5, <2>1, RowTypes DEF Numbers, Newest
  <2> QED BY <1>0, <1>5, <2>1, <2>2, <2>3
          DEF Numbers, LoopKnows, Busy, Going, Newest, Promotable, Upstream
<1>6. CASE Inserts
  <2>1. CASE Created(Doing.cur) BY <1>1, <1>6, <2>1 DEF Inserts, Idle, Busy
  <2>2. CASE ~Created(Doing.cur)
    <3>1. /\ Doing.cur \in AttemptRow /\ Going("logic")
          /\ attempt'[Doing.cur].exec = "running" /\ UNCHANGED <<status, attemptNo>>
      BY <1>0, <1>6, <2>2, RowTypes DEF Inserts, LoopKnows, Busy, OnlyAttempt
    <3> QED BY <1>0, <1>6, <3>1
            DEF Inserts, LoopKnows, Busy, Going, Newest, Promotable, Upstream
  <2> QED BY <2>1, <2>2
<1>7. CASE Computes
  <2>1. /\ Doing.cur \in AttemptRow /\ Doing'.cur = Doing.cur /\ Doing'.pc = "settle"
        /\ attempt'[Doing.cur].exec = Result(Doing'.op) /\ UNCHANGED <<status, attemptNo>>
    BY <1>0, <1>7, RowTypes DEF Computes, LoopKnows, Busy, OnlyAttempt, Ends
  <2>2. Result(Doing'.op) = Result(Doing.op)' BY DEF Result
  <2> QED BY <1>0, <1>7, <2>1, <2>2 DEF Computes, LoopKnows, Busy, Newest, Promotable, Upstream
<1>8. CASE Settles
  <2>1. /\ status[Doing.cur[1]] = "running" /\ OnlyStatus(Doing.cur[1], Result(Doing.op))
        /\ \A r \in Doing.todo : r[2] = 0 /\ r[1] \in Promotable
    BY <1>0, <1>8 DEF Settles, LoopKnows, Busy
  <2>2. \A m \in Promotable : m \in Promotable'
    BY <1>0, <2>1, PromotableOn DEF OnlyStatus
  <2> QED BY <1>8, <2>1, <2>2 DEF Settles, Looping, LoopKnows, Busy
<1>9. CASE Claims
  <2>1. PICK n \in Agent : Claim(n) BY <1>9 DEF Claims
  <2> DEFINE k == attemptNo[n] + 1
  <2>2. /\ n \in Node /\ k \in 1..MaxAttempt /\ status[n] = "runnable"
        /\ status' = [status EXCEPT ![n] = "running"]
        /\ attemptNo' = [attemptNo EXCEPT ![n] = k]
        /\ attempt' = [attempt EXCEPT ![<<n, k>>] = [exec |-> "running",
                                                     auth |-> "active"]]
    BY <1>0, <2>1, ClaimFlat
  <2>3. Doing' = Doing BY <1>9 DEF Claims, Doing
  <2>4. \A m \in Promotable : m \in Promotable' BY <1>0, <2>2, PromotableOn
  <2>5. ASSUME Doing.pc \in Busy
        PROVE  /\ Doing.cur[1] # n /\ status'[Doing.cur[1]] = "running"
               /\ attemptNo'[Doing.cur[1]] = attemptNo[Doing.cur[1]]
    BY <1>0, <2>2, <2>5, RowTypes DEF LoopKnows
  <2>6. ASSUME Doing.pc \in Busy \ {"number"}
        PROVE  attempt'[Doing.cur] = attempt[Doing.cur]
    BY <1>0, <2>2, <2>5, <2>6, RowTypes DEF LoopKnows
  <2> HIDE DEF k
  <2>7. Result(Doing.op)' = Result(Doing.op) BY <2>3 DEF Result
  <2> QED BY <1>0, <2>3, <2>4, <2>5, <2>6, <2>7 DEF LoopKnows, Busy, Newest
<1>10. CASE Waits
  BY <1>0, <1>10 DEF Waits, LoopKnows, Doing, Busy, Newest, Result, Promotable, Upstream
<1>11. CASE \/ Closes \/ Stamps \/ Checks \/ EndsAttempt \/ EndsNode \/ Revokes \/ Selects
            \/ Invalidates \/ Collects \/ Resets \/ SweepsNode \/ SweepsAttempt \/ Begins
            \/ Retries \/ BeginsSweep \/ Reports \/ Breaks
  <2>1. Doing'.pc \notin {"promote", "exec"} \cup Busy
    BY <1>0, <1>11, LoopFacts
       DEF Closes, Stamps, Checks, EndsAttempt, EndsNode, Revokes, Selects, Invalidates,
       Collects, Resets, SweepsNode, SweepsAttempt, Begins, Retries, BeginsSweep, Reports,
       Breaks, Revoking, Revoked, Going, Busy
  <2> QED BY <1>1, <2>1
<1> QED BY <1>0, <1>2, <1>3, <1>4, <1>5, <1>6, <1>7, <1>8, <1>9, <1>10, <1>11, StepFlat
        DEF Engine, Requested

LEMMA ReportKnowsKept ==
  ASSUME OneThread, EvidenceInv, [Next]_vars
  PROVE  ReportKnows'
<1>0. /\ TypeOK /\ ReportKnows /\ RowsExist(Doing) /\ FenceInv
      /\ Doing \in Call /\ Doing.cur \in Row /\ Doing.cur[1] \in Node
  BY ReqFacts DEF EvidenceInv, FenceInv, CallsAreGrounded, Doing, RequestKnows
<1> DEFINE At3 == {"check", "endAttempt", "endNode"}
<1>1. ASSUME Doing'.pc \notin At3 PROVE ReportKnows'
  BY <1>1 DEF ReportKnows
<1>2. CASE Reports
  BY <1>2 DEF Reports, ReportKnows
<1>3. CASE Checks
  <2>1. CASE Doing' = Idle BY <1>0, <1>1, <2>1, LoopFacts
  <2>2. CASE Doing' # Idle
    BY <1>0, <1>3, <2>2 DEF Checks, ReportKnows, Current, Newest, Going, rows
  <2> QED BY <2>1, <2>2
<1>4. CASE EndsAttempt
  <2>1. /\ Doing.cur \in AttemptRow /\ Doing.op \in {"complete", "fail"}
        /\ Doing'.pc = "endNode" /\ Doing'.cur = Doing.cur /\ Doing'.op = Doing.op
        /\ UNCHANGED attemptNo
    BY <1>0, <1>4 DEF EndsAttempt, RowsExist, ReportKnows, Going, Ends, OnlyAttempt
  <2>2. attempt'[Doing.cur].exec = Result(Doing.op)
    BY <1>0, <1>4, <2>1, RowTypes DEF EndsAttempt, Ends, OnlyAttempt
  <2>3. Result(Doing.op)' = Result(Doing.op) BY <2>1 DEF Result
  <2>4. CASE Newest(Doing.cur)
    BY <2>1, <2>2, <2>3, <2>4 DEF ReportKnows, Newest
  <2>5. CASE /\ Doing.cur[2] < attemptNo[Doing.cur[1]]
             /\ attempt[<<Doing.cur[1], attemptNo[Doing.cur[1]]>>].exec = "running"
    <3> DEFINE b == <<Doing.cur[1], attemptNo[Doing.cur[1]]>>
    <3>1. b # Doing.cur BY <1>0, <2>5, RowTypes
    <3>2. attempt'[b] = attempt[b]
      BY <1>0, <1>4, <2>1, <3>1, RowTypes DEF EndsAttempt, Ends, OnlyAttempt
    <3> QED BY <2>1, <2>2, <2>3, <2>5, <3>2 DEF ReportKnows
  <2> QED BY <1>0, <1>4, <2>4, <2>5 DEF EndsAttempt, ReportKnows
<1>5. CASE Claims
  <2>1. PICK n \in Agent : Claim(n) BY <1>5 DEF Claims
  <2> DEFINE k == attemptNo[n] + 1
  <2>2. /\ n \in Node /\ k \in 1..MaxAttempt /\ ~Created(<<n, k>>)
        /\ attemptNo' = [attemptNo EXCEPT ![n] = k]
        /\ attempt' = [attempt EXCEPT ![<<n, k>>] = [exec |-> "running",
                                                     auth |-> "active"]]
    BY <1>0, <2>1, ClaimFlat
  <2>3. Doing' = Doing BY <1>5 DEF Claims, Doing
  <2>4. Result(Doing.op)' = Result(Doing.op) BY <2>3 DEF Result
  <2>5. attempt'[<<n, k>>].exec = "running" /\ attemptNo'[n] = attemptNo[n] + 1
        /\ attemptNo[n] \in Nat
    BY <1>0, <2>2, RowTypes
  <2>6. ASSUME NEW a \in AttemptRow, a[2] <= attemptNo[a[1]]
        PROVE  attempt'[a] = attempt[a]
    BY <1>0, <2>2, <2>6, RowTypes
  <2>7. ASSUME Doing.pc \in {"endAttempt", "endNode"}
        PROVE  /\ Doing.cur \in AttemptRow /\ Doing.cur[2] <= attemptNo[Doing.cur[1]]
               /\ attempt'[Doing.cur] = attempt[Doing.cur]
    <3>1. Doing.cur \in AttemptRow BY <1>0, <2>7 DEF RowsExist, ReportKnows
    <3>2. Doing.cur[2] <= attemptNo[Doing.cur[1]]
      BY <1>0, <2>7, <3>1, RowTypes DEF ReportKnows, Newest
    <3> QED BY <2>6, <3>1, <3>2
  <2>8. CASE Doing.pc \in {"endAttempt", "endNode"} /\ Doing.cur[1] = n
    <3>0. attemptNo'[Doing.cur[1]] = k BY <2>5, <2>8
    <3>1. Doing.cur[2] < k
      <4>1. Doing.cur[2] <= attemptNo[n] BY <2>7, <2>8
      <4>2. Doing.cur[2] \in Nat BY <1>0, <2>7, <2>8, RowTypes
      <4> QED BY <2>5, <4>1, <4>2
    <3> HIDE DEF k
    <3> QED BY <1>0, <2>3, <2>4, <2>5, <2>7, <2>8, <3>0, <3>1 DEF ReportKnows
  <2>9. CASE Doing.pc \in {"endAttempt", "endNode"} /\ Doing.cur[1] # n
    <3> DEFINE b == <<Doing.cur[1], attemptNo[Doing.cur[1]]>>
    <3>1. attemptNo'[Doing.cur[1]] = attemptNo[Doing.cur[1]]
      BY <1>0, <2>2, <2>9, RowTypes
    <3>2. b \in AttemptRow /\ attempt'[b] = attempt[b]
      BY <1>0, <2>2, <2>7, <2>9, RowTypes
    <3> QED BY <1>0, <2>3, <2>4, <2>7, <2>9, <3>1, <3>2 DEF ReportKnows, Newest
  <2> QED BY <1>0, <2>3, <2>8, <2>9 DEF ReportKnows
<1>6. CASE Waits
  BY <1>0, <1>6 DEF Waits, ReportKnows, Doing, Newest, Result
<1>7. CASE \/ Engine \/ EndsNode \/ Revokes \/ Selects \/ Invalidates \/ Collects \/ Resets
           \/ SweepsNode \/ SweepsAttempt \/ Begins \/ Retries \/ BeginsSweep \/ Breaks
  <2>1. Doing'.pc \notin At3
    BY <1>0, <1>7, LoopFacts
       DEF Engine, Scans, Promotes, StartsNode, Numbers, Inserts, Computes, Settles, Closes,
       Stamps, EndsNode, Revokes, Selects, Invalidates, Collects, Resets, SweepsNode,
       SweepsAttempt, Begins, Retries, BeginsSweep, Breaks, Revoking, Revoked, Going, Looping
  <2> QED BY <1>1, <2>1
<1> QED BY <1>0, <1>2, <1>3, <1>4, <1>5, <1>6, <1>7, StepFlat DEF Requested

LEMMA SweepKnowsKept ==
  ASSUME OneThread, EvidenceInv, [Next]_vars
  PROVE  SweepKnows'
<1>0. /\ TypeOK /\ SweepKnows /\ RowsExist(Doing) /\ FenceInv
      /\ Doing \in Call /\ Doing.cur \in Row /\ Doing.cur[1] \in Node
  BY ReqFacts DEF EvidenceInv, FenceInv, CallsAreGrounded, Doing, RequestKnows
<1>1. ASSUME Doing'.op # "sweep", Doing'.pc # "sweepAttempt" PROVE SweepKnows'
  BY <1>1 DEF SweepKnows
<1>2. CASE BeginsSweep
  BY <1>2 DEF BeginsSweep, SweepKnows, TimedOut, Newest, rows
<1>3. CASE SweepsNode
  <2>1. PICK a \in Doing.todo :
          /\ a[1] \in Node /\ OnlyStatus(a[1], "failed")
          /\ Doing'.pc = "sweepAttempt" /\ Doing'.cur = a /\ Doing'.todo = Doing.todo \ {a}
    BY <1>3 DEF SweepsNode
  <2>2. \A b \in Doing.todo : b \in AttemptRow /\ status[b[1]] = "running" /\ Newest(b)
    BY <1>0, <1>3 DEF SweepsNode, RowsExist, SweepKnows
  <2>3. attemptNo' = attemptNo /\ status'[a[1]] = "failed"
    BY <1>0, <2>1, RowTypes DEF OnlyStatus
  <2>4. ASSUME NEW b \in Doing'.todo PROVE status'[b[1]] = "running" /\ Newest(b)
    <3>1. b[1] # a[1] /\ status[b[1]] = "running" /\ Newest(b)
      BY <2>1, <2>2, RowTypes, <1>0 DEF Newest
    <3> QED BY <1>0, <2>1, <2>2, <3>1, RowTypes DEF OnlyStatus
  <2> QED BY <2>1, <2>2, <2>3, <2>4 DEF SweepKnows, Newest
<1>4. CASE SweepsAttempt
  BY <1>0, <1>4 DEF SweepsAttempt, Revoking, Ends, OnlyAttempt, SweepKnows, Newest
<1>5. CASE Revokes
  <2>1. /\ UNCHANGED <<status, attemptNo>> /\ Doing'.pc # "sweepAttempt"
        /\ Doing'.op = "sweep" => Doing.op = "sweep" /\ Doing'.todo \subseteq Doing.todo
    BY <1>0, <1>5, LoopFacts DEF Revokes, Revoked, OnlyAttempt, rows
  <2> QED BY <1>0, <2>1 DEF SweepKnows, Newest
<1>6. CASE Claims
  <2>1. PICK n \in Agent : Claim(n) BY <1>6 DEF Claims
  <2>2. /\ n \in Node /\ status[n] = "runnable"
        /\ status' = [status EXCEPT ![n] = "running"]
        /\ attemptNo' = [attemptNo EXCEPT ![n] = attemptNo[n] + 1]
    BY <1>0, <2>1, ClaimFlat
  <2>3. Doing' = Doing BY <1>6 DEF Claims, Doing
  <2>4. \A m \in Node : status[m] # "runnable" =>
          status'[m] = status[m] /\ attemptNo'[m] = attemptNo[m]
    BY <1>0, <2>2, RowTypes
  <2>5. \A a \in Doing.todo : a[1] \in Node BY <1>0, RowFacts DEF Call
  <2> QED BY <1>0, <2>3, <2>4, <2>5 DEF SweepKnows, Newest
<1>7. CASE Waits
  BY <1>0, <1>7 DEF Waits, SweepKnows, Doing, Newest
<1>8. CASE \/ Engine \/ Checks \/ EndsAttempt \/ EndsNode \/ Selects \/ Invalidates
           \/ Collects \/ Resets \/ Begins \/ Retries \/ Reports \/ Breaks
  <2>1. Doing.pc \notin {"sweepNode", "sweepAttempt", "revoke"} => Doing.op # "sweep"
    BY <1>0 DEF RowsExist
  <2>2. Doing'.op # "sweep" /\ Doing'.pc # "sweepAttempt"
    BY <1>0, <1>8, <2>1, LoopFacts
       DEF Engine, Scans, Promotes, StartsNode, Numbers, Inserts, Computes, Settles, Closes,
       Stamps, Checks, EndsAttempt, EndsNode, Selects, Invalidates, Collects, Resets,
       Begins, Retries, Reports, Breaks, Revoking, Revoked, Going, Looping
  <2> QED BY <1>1, <2>2
<1> QED BY <1>2, <1>3, <1>4, <1>5, <1>6, <1>7, <1>8, <1>0, StepFlat DEF Requested

LEMMA RetryKnowsKept ==
  ASSUME OneThread, EvidenceInv, [Next]_vars
  PROVE  RetryKnows'
<1>0. /\ TypeOK /\ RequestKnows /\ RowsExist(Doing) /\ FenceInv
      /\ Doing \in Call /\ Doing.target \in Node /\ Doing.todo \in SUBSET Row
  BY ReqFacts DEF EvidenceInv, FenceInv, CallsAreGrounded, Doing
<1> DEFINE Cascade == {"downstream", "invalidate", "actives", "reset"}
<1>1. ASSUME Doing'.op # "retry", Doing'.pc \notin Cascade,
             Doing'.pc = "revoke" => Doing'.op # "none"
      PROVE  RetryKnows'
  BY <1>1 DEF RetryKnows
<1>2. ASSUME Doing.op = "retry", Doing'.op = "retry", Doing'.target = Doing.target,
             status'[Doing.target] = status[Doing.target], Doing.pc # "rerun",
             Doing'.pc \in Cascade \cup {"revoke"}, Doing'.todo \subseteq Doing.todo
      PROVE  RetryKnows'
  BY <1>0, <1>2 DEF RequestKnows, RetryKnows
<1>3. CASE Retries
  BY <1>3 DEF Retries, RetryKnows, rows
<1>4. CASE Selects
  <2>1. /\ Doing.op = "retry" /\ status[Doing.target] = "failed"
    BY <1>0, <1>4 DEF Selects, RequestKnows, RetryKnows
  <2>2. \A r \in Doing'.todo : r[1] # Doing.target
    BY <1>4, <2>1 DEF Selects, Started
  <2> QED BY <1>4, <2>1, <2>2 DEF Selects, RetryKnows, rows
<1>5. CASE Invalidates
  <2>1. PICK r \in Doing.todo :
          /\ r[1] \in Node /\ OnlyStatus(r[1], "invalidated")
          /\ Doing'.pc = "actives" /\ Doing'.op = Doing.op
          /\ Doing'.target = Doing.target /\ Doing'.todo = Doing.todo \ {r}
    BY <1>5 DEF Invalidates
  <2>2. Doing.op = "retry" /\ r[1] # Doing.target
    BY <1>0, <1>5 DEF Invalidates, RequestKnows, RetryKnows
  <2>3. status'[Doing.target] = status[Doing.target]
    BY <1>0, <2>1, <2>2, RowTypes DEF OnlyStatus
  <2> QED BY <1>2, <1>5, <2>1, <2>2, <2>3 DEF Invalidates
<1>6. CASE Collects \/ Revokes
  <2>1. status' = status /\ Doing.op # "none" /\ Doing.pc \in {"actives", "revoke"}
    BY <1>0, <1>6 DEF Collects, Revokes, RequestKnows, RetryKnows, OnlyAttempt, rows
  <2>2. CASE Doing.op = "retry"
    <3>1. /\ Doing'.op = Doing.op /\ Doing'.target = Doing.target
          /\ Doing'.todo = Doing.todo /\ Doing'.pc \in Cascade \cup {"revoke"}
      BY <1>6, <2>2 DEF Collects, Revokes, Revoked
    <3> QED BY <1>2, <2>1, <2>2, <3>1
  <2>3. CASE Doing.op # "retry"
    BY <1>0, <1>1, <1>6, <2>1, <2>3, LoopFacts
       DEF Collects, Revokes, Revoked, RequestKnows, RetryKnows
  <2> QED BY <2>2, <2>3
<1>7. CASE Resets
  BY <1>0, <1>7 DEF Resets, Going, RequestKnows, RetryKnows
<1>8. CASE Claims
  <2>1. PICK n \in Agent : Claim(n) BY <1>8 DEF Claims
  <2>2. /\ n \in Node /\ status[n] = "runnable"
        /\ status' = [status EXCEPT ![n] = "running"]
    BY <1>0, <2>1, ClaimFlat
  <2>3. Doing' = Doing BY <1>8 DEF Claims, Doing
  <2>4. status[Doing.target] = "failed" => status'[Doing.target] = "failed"
    BY <1>0, <2>2, RowTypes
  <2> QED BY <1>0, <2>3, <2>4 DEF RequestKnows, RetryKnows
<1>9. CASE Waits
  BY <1>0, <1>9 DEF Waits, RequestKnows, RetryKnows, Doing
<1>10. CASE \/ Engine \/ Checks \/ EndsAttempt \/ EndsNode \/ SweepsNode \/ SweepsAttempt
            \/ Begins \/ BeginsSweep \/ Reports \/ Breaks
  <2>1. /\ Doing.pc = "endNode" => Doing.op \in {"complete", "fail"}
        /\ Doing.pc \notin Cascade \cup {"revoke", "rerun"} => Doing.op # "retry"
        /\ Doing.pc \in {"sweepNode", "sweepAttempt"} => Doing.op = "sweep"
    BY <1>0 DEF RequestKnows, ReportKnows, RetryKnows, RowsExist
  <2>2. /\ Doing'.op # "retry" /\ Doing'.pc \notin Cascade
        /\ Doing'.pc = "revoke" => Doing'.op # "none"
    BY <1>10, <2>1, <1>0, LoopFacts
       DEF Engine, Scans, Promotes, StartsNode, Numbers, Inserts, Computes, Settles, Closes,
       Stamps, Checks, EndsAttempt, EndsNode, SweepsNode, SweepsAttempt, Begins,
       BeginsSweep, Reports, Breaks, Revoking, Going, Looping
  <2> QED BY <1>1, <2>2
<1> QED BY <1>0, <1>3, <1>4, <1>5, <1>6, <1>7, <1>8, <1>9, <1>10, StepFlat DEF Requested

LEMMA EvidenceInitial ==
  ASSUME OneThread, Init
  PROVE  EvidenceInv
<1>1. FenceInv BY FenceInitial
<1>2. StartedHaveEvidence /\ CompletedHaveEvidence
  BY DEF Init, StartedHaveEvidence, CompletedHaveEvidence
<1>3. Doing = Idle BY <1>1, ReqFacts DEF Init, Doing, FenceInv
<1>4. RequestKnows
  BY <1>1, <1>3, LoopFacts
     DEF RequestKnows, LoopKnows, ReportKnows, SweepKnows, RetryKnows, Busy, FenceInv
<1> QED BY <1>1, <1>2, <1>4 DEF EvidenceInv

LEMMA EvidenceStep ==
  ASSUME OneThread, EvidenceInv, [Next]_vars
  PROVE  EvidenceInv'
BY FenceStep, StartedKept, CompletedKept, LoopKnowsKept, ReportKnowsKept,
   SweepKnowsKept, RetryKnowsKept DEF EvidenceInv, RequestKnows

LEMMA EvidenceInvariant ==
  ASSUME OneThread
  PROVE  Spec => []EvidenceInv
<1>1. Init => EvidenceInv BY EvidenceInitial
<1>2. EvidenceInv /\ [Next]_vars => EvidenceInv' BY EvidenceStep
<1> QED BY <1>1, <1>2, PTL DEF Spec

\* Requests served one after the other, each cut short anywhere: a node that
\* ever started had, of each dependency, an attempt that completed, and has
\* it still, whatever was retried, swept or reported late since.
THEOREM EvidenceFirst ==
  ASSUME OneThread
  PROVE  Spec => []StartedOnEvidence
<1>1. EvidenceInv => StartedOnEvidence
  <2> SUFFICES ASSUME EvidenceInv, NEW n \in Node, attemptNo[n] > 0, NEW m \in Upstream(n)
               PROVE  \E k \in 1..MaxAttempt : attempt[<<m, k>>].exec = "completed"
    BY DEF StartedOnEvidence
  <2>1. TypeOK /\ m \in Node BY DEF EvidenceInv, FenceInv, Upstream
  <2>2. Evidence(m) BY DEF EvidenceInv, StartedHaveEvidence
  <2> QED BY <2>1, <2>2, RowTypes DEF Evidence
<1> QED BY <1>1, EvidenceInvariant, PTL

-----------------------------------------------------------------------------
(* One request at a time, and none cut short. The retry cascade then finds  *)
(* no node to invalidate: nothing that started depends on a failed node.    *)

CallsSerially ==
  /\ Doing.pc \notin {"invalidate", "actives"}
  /\ Doing.pc = "revoke" => /\ Doing.revokes = {Doing.cur}
                            /\ Doing.cur \in AttemptRow
                            /\ Doing.op \in {"complete", "fail", "sweep"}
  /\ Doing.pc \in {"endAttempt", "endNode"} =>
       Newest(Doing.cur) /\ status[Doing.cur[1]] = "running"

\* A node and its newest attempt say the same, except for the node whose two
\* rows the handler is in the middle of writing.
Unsettled == {"number", "insert", "settle", "endNode", "sweepAttempt"}
Exec(n) == attempt[<<n, attemptNo[n]>>].exec
Agrees(n) ==
  /\ status[n] = "running" <=> attemptNo[n] > 0 /\ Exec(n) = "running"
  /\ status[n] = "completed" <=> attemptNo[n] > 0 /\ Exec(n) = "completed"
  /\ status[n] = "failed" /\ attemptNo[n] > 0 => Exec(n) \in {"failed", "timed_out"}
NodesAgree ==
  \A n \in Node : Agrees(n) \/ (Doing.pc \in Unsettled /\ Doing.cur[1] = n)

BackendFence ==
  \A n \in Backend, k \in 1..MaxAttempt :
    Created(<<n, k>>)
      <=> (k <= attemptNo[n] /\ ~(Doing.pc = "insert" /\ Doing.cur = <<n, k>>))

AuthorityEnds ==
  \A a \in AttemptRow : a[1] \in Agent /\ attempt[a].exec \in Ended =>
    \/ attempt[a].auth = "revoked"
    \/ Doing.pc \in {"endNode", "revoke"} /\ Doing.cur = a

SerialInv == /\ EvidenceInv /\ CallsSerially /\ NodesAgree /\ BackendFence
             /\ AuthorityEnds /\ DependencyOrder

LEMMA SerialFacts ==
  ASSUME OneThread, SerialInv
  PROVE  /\ TypeOK /\ FenceInv /\ RowsExist(Doing) /\ EvidenceInv
         /\ LoopKnows /\ ReportKnows /\ SweepKnows /\ RetryKnows
         /\ CallsSerially /\ NodesAgree /\ BackendFence /\ AuthorityEnds
         /\ DependencyOrder
         /\ Doing \in Call /\ Doing.cur \in Row /\ Doing.cur[1] \in Node
         /\ Doing.todo \in SUBSET Row /\ Doing.target \in Node
BY ReqFacts DEF SerialInv, EvidenceInv, FenceInv, CallsAreGrounded, Doing, RequestKnows

LEMMA AgreesOn ==
  ASSUME TypeOK, NEW n \in Node, Agrees(n), status'[n] = status[n],
         attemptNo'[n] = attemptNo[n],
         attemptNo[n] > 0 =>
           attempt'[<<n, attemptNo[n]>>].exec = attempt[<<n, attemptNo[n]>>].exec
  PROVE  Agrees(n)'
BY DEF Agrees, Exec

LEMMA AgreesStill ==
  ASSUME TypeOK, NodesAgree, UNCHANGED <<status, attemptNo>>,
         \A a \in AttemptRow : attempt'[a].exec = attempt[a].exec,
         Doing' = Doing \/ Doing.pc \notin Unsettled
  PROVE  NodesAgree'
<1>1. SUFFICES ASSUME NEW n \in Node, ~(Doing.pc \in Unsettled /\ Doing.cur[1] = n)
               PROVE  Agrees(n)'
  BY DEF NodesAgree
<1>2. Agrees(n) BY <1>1 DEF NodesAgree
<1>3. attemptNo[n] > 0 => <<n, attemptNo[n]>> \in AttemptRow BY RowTypes
<1> QED BY <1>2, <1>3, AgreesOn

LEMMA AgreesButOne ==
  ASSUME TypeOK, NodesAgree, NEW u \in Node,
         \A n \in Node \ {u} : status'[n] = status[n] /\ attemptNo'[n] = attemptNo[n],
         \A a \in AttemptRow : a[1] # u => attempt'[a] = attempt[a],
         Doing' = Doing \/ (Doing.pc \in Unsettled => Doing.cur[1] = u),
         Agrees(u)' \/ (Doing'.pc \in Unsettled /\ Doing'.cur[1] = u)
  PROVE  NodesAgree'
<1>1. SUFFICES ASSUME NEW n \in Node, n # u,
                      ~(Doing'.pc \in Unsettled /\ Doing'.cur[1] = n)
               PROVE  Agrees(n)'
  BY DEF NodesAgree
<1>2. Agrees(n) BY <1>1 DEF NodesAgree
<1>3. attemptNo[n] > 0 => /\ <<n, attemptNo[n]>> \in AttemptRow
                          /\ <<n, attemptNo[n]>>[1] = n
  BY RowTypes
<1> QED BY <1>1, <1>2, <1>3, AgreesOn

\* The steps that are left of them.
Records ==
  /\ Doing.pc = "insert" /\ Going("logic")
  /\ OnlyAttempt(Doing.cur, [exec |-> "running", auth |-> "active"])
Frees ==
  /\ Doing.pc = "revoke" /\ Doing.cur \in AttemptRow
  /\ OnlyAttempt(Doing.cur, [exec |-> attempt[Doing.cur].exec, auth |-> "revoked"])
  /\ \/ Doing.op \in {"complete", "sweep"} /\ Doing' = Evaluate
     \/ Doing.op = "fail" /\ Doing' = Closing
     \/ Doing.op = "sweep" /\ Doing'.pc = "sweepNode" /\ Doing'.op = "sweep"
SelectsNone ==
  /\ Doing.pc = "downstream" /\ Doing'.pc = "reset" /\ UNCHANGED <<rows, workers>>

SerialStep ==
  \/ Scans \/ Promotes \/ StartsNode \/ Numbers \/ Records \/ Computes \/ Settles
  \/ Closes \/ Stamps \/ Checks \/ EndsAttempt \/ EndsNode \/ Frees \/ SelectsNone
  \/ Resets \/ SweepsNode \/ SweepsAttempt \/ Begins \/ Retries \/ BeginsSweep
  \/ Reports \/ Claims \/ Waits

\* A failed node has no descendant that started: the nodes that did not start
\* are closed under the edges.
LEMMA NothingToInvalidate ==
  ASSUME TypeOK, DependencyOrder, NEW n \in Node, status[n] \notin {"completed"},
         NEW m \in Downstream(n)
  PROVE  status[m] \notin Started
<1> DEFINE S == {x \in Node : status[x] \notin Started}
<1>1. ASSUME NEW e \in Edge, e[1] \in S \cup {n} PROVE e[2] \in S
  <2>1. e[1] \in Node /\ e[2] \in Node /\ e[1] \in Upstream(e[2])
    BY TopologyAssumption DEF Upstream
  <2>2. status[e[1]] # "completed" BY <1>1 DEF Started
  <2> QED BY <2>1, <2>2 DEF DependencyOrder, Started
<1>2. S \in SUBSET Node OBVIOUS
<1>3. m \in S
  <2> HIDE DEF S
  <2> QED BY <1>1, <1>2 DEF Downstream
<1> QED BY <1>3

LEMMA SerialFlat ==
  ASSUME OneThread, MaxInterrupt = 0, SerialInv, [Next]_vars
  PROVE  SerialStep
<1>0. /\ TypeOK /\ RowsExist(Doing) /\ LoopKnows /\ RetryKnows /\ CallsSerially
      /\ BackendFence /\ DependencyOrder /\ Doing.target \in Node
  BY SerialFacts
<1>1. ~Breaks BY <1>0 DEF Breaks, TypeOK
<1>2. ~Invalidates /\ ~Collects BY <1>0 DEF Invalidates, Collects, CallsSerially
<1>3. ASSUME Inserts PROVE Records
  <2>1. /\ Doing.cur \in AttemptRow /\ Doing.cur[1] \in Backend
        /\ Doing.pc = "insert"
    BY <1>0, <1>3 DEF Inserts, RowsExist, LoopKnows, Busy
  <2>2. ~Created(Doing.cur)
    <3>1. Doing.cur = <<Doing.cur[1], Doing.cur[2]>> /\ Doing.cur[2] \in 1..MaxAttempt
      BY <1>0, <2>1, RowTypes
    <3> QED BY <1>0, <2>1, <3>1 DEF BackendFence
  <2> QED BY <1>3, <2>2 DEF Inserts, Records
<1>4. ASSUME Revokes PROVE Frees
  <2>1. /\ Doing.revokes = {Doing.cur} /\ Doing.cur \in AttemptRow
        /\ Doing.op \in {"complete", "fail", "sweep"}
    BY <1>0, <1>4 DEF Revokes, CallsSerially
  <2> QED BY <1>4, <2>1 DEF Revokes, Revoked, Frees
<1>5. ASSUME Selects PROVE SelectsNone
  <2>1. status[Doing.target] = "failed"
    BY <1>0, <1>5 DEF Selects, RetryKnows
  <2>2. {m \in Downstream(Doing.target) : status[m] \in Started} = {}
    BY <1>0, <2>1, NothingToInvalidate
  <2>3. Doing'.todo = {} BY <1>5, <2>2 DEF Selects
  <2> QED BY <1>5, <2>3 DEF Selects, SelectsNone
<1> QED BY <1>0, <1>1, <1>2, <1>3, <1>4, <1>5, StepFlat DEF Engine, Requested, SerialStep

\* What a step leaves to be shown of the statements of the request.
LEMMA CallsSeriallyKept ==
  ASSUME OneThread, MaxInterrupt = 0, SerialInv, [Next]_vars
  PROVE  CallsSerially'
<1>0. /\ TypeOK /\ FenceInv /\ RowsExist(Doing) /\ LoopKnows /\ ReportKnows
      /\ CallsSerially /\ NodesAgree /\ Doing.cur \in Row /\ Doing.cur[1] \in Node
  BY SerialFacts
<1>1. ASSUME Doing'.pc \notin {"invalidate", "actives", "revoke", "endAttempt", "endNode"}
      PROVE  CallsSerially'
  BY <1>1 DEF CallsSerially
<1>2. CASE Checks
  <2>1. CASE Doing' = Idle BY <1>0, <1>1, <2>1, LoopFacts
  <2>2. CASE Current(Doing.cur) /\ Going("endAttempt")
    <3>1. Doing.cur \in AttemptRow BY <1>0, <1>2 DEF Checks, RowsExist
    <3>2. Agrees(Doing.cur[1]) /\ Doing.pc = "check"
      BY <1>0, <1>2 DEF Checks, NodesAgree, Unsettled
    <3>3. status[Doing.cur[1]] = "running"
      BY <1>0, <2>2, <3>1, <3>2, RowTypes DEF Agrees, Exec, Current
    <3> QED BY <1>2, <2>2, <3>3 DEF Checks, CallsSerially, Going, Current, Newest, rows
  <2> QED BY <1>2, <2>1, <2>2 DEF Checks
<1>3. CASE EndsAttempt
  BY <1>0, <1>3 DEF EndsAttempt, CallsSerially, Going, Ends, OnlyAttempt, Newest
<1>4. CASE EndsNode
  BY <1>0, <1>4 DEF EndsNode, Revoking, CallsSerially, ReportKnows
<1>5. CASE SweepsAttempt
  BY <1>0, <1>5 DEF SweepsAttempt, Revoking, CallsSerially, RowsExist
<1>6. CASE Claims
  <2>1. PICK n \in Agent : Claim(n) BY <1>6 DEF Claims
  <2>2. /\ n \in Node /\ status[n] = "runnable"
        /\ status' = [status EXCEPT ![n] = "running"]
        /\ attemptNo' = [attemptNo EXCEPT ![n] = attemptNo[n] + 1]
    BY <1>0, <2>1, ClaimFlat
  <2>3. Doing' = Doing BY <1>6 DEF Claims, Doing
  <2>4. status[Doing.cur[1]] = "running" =>
          status'[Doing.cur[1]] = "running"
          /\ attemptNo'[Doing.cur[1]] = attemptNo[Doing.cur[1]]
    BY <1>0, <2>2, RowTypes
  <2> QED BY <1>0, <2>3, <2>4 DEF CallsSerially, Newest
<1>7. CASE Waits
  BY <1>0, <1>7 DEF Waits, CallsSerially, Doing, Newest
<1>8. CASE \/ Scans \/ Promotes \/ StartsNode \/ Numbers \/ Records \/ Computes \/ Settles
           \/ Closes \/ Stamps \/ Frees \/ SelectsNone \/ Resets \/ SweepsNode \/ Begins
           \/ Retries \/ BeginsSweep \/ Reports
  <2>1. Doing'.pc \notin {"invalidate", "actives", "revoke", "endAttempt", "endNode"}
    BY <1>0, <1>8, LoopFacts
       DEF Scans, Promotes, StartsNode, Numbers, Records, Computes, Settles, Closes, Stamps,
       Frees, SelectsNone, Resets, SweepsNode, Begins, Retries, BeginsSweep, Reports,
       Going, Looping
  <2> QED BY <1>1, <2>1
<1> QED BY <1>2, <1>3, <1>4, <1>5, <1>6, <1>7, <1>8, SerialFlat DEF SerialStep

LEMMA NodesAgreeKept ==
  ASSUME OneThread, MaxInterrupt = 0, SerialInv, [Next]_vars
  PROVE  NodesAgree'
<1>0. /\ TypeOK /\ FenceInv /\ RowsExist(Doing) /\ LoopKnows /\ ReportKnows
      /\ SweepKnows /\ RetryKnows /\ CallsSerially /\ NodesAgree
      /\ Doing.cur \in Row /\ Doing.cur[1] \in Node /\ Doing.target \in Node
  BY SerialFacts
\* A statement that writes the status of one node.
<1>1. ASSUME NEW u \in Node, NEW s, OnlyStatus(u, s),
             Doing.pc \in Unsettled => Doing.cur[1] = u,
             Agrees(u)' \/ (Doing'.pc \in Unsettled /\ Doing'.cur[1] = u)
      PROVE  NodesAgree'
  <2>1. \A n \in Node \ {u} : status'[n] = status[n] /\ attemptNo'[n] = attemptNo[n]
    BY <1>0, <1>1, RowTypes DEF OnlyStatus
  <2> QED BY <1>0, <1>1, <2>1, AgreesButOne DEF OnlyStatus
\* A statement that writes one attempt of the node the request works on.
<1>2. ASSUME NEW r, Doing.cur \in AttemptRow, OnlyAttempt(Doing.cur, r),
             NEW u \in Node, u = Doing.cur[1],
             Agrees(u)' \/ (Doing'.pc \in Unsettled /\ Doing'.cur = Doing.cur)
      PROVE  NodesAgree'
  <2>1. \A a \in AttemptRow : a[1] # u => attempt'[a] = attempt[a]
    BY <1>0, <1>2, RowTypes DEF OnlyAttempt
  <2> QED BY <1>0, <1>2, <2>1, AgreesButOne DEF OnlyAttempt
\* One that overwrites a status no attempt contradicts.
<1>3. ASSUME NEW u \in Node, NEW s \in {"runnable", "pending"}, OnlyStatus(u, s),
             status[u] \in {"pending", "failed"}, Doing.pc \notin Unsettled
      PROVE  NodesAgree'
  <2>1. Agrees(u) BY <1>0, <1>3 DEF NodesAgree
  <2>2. status'[u] = s /\ attemptNo' = attemptNo /\ attempt' = attempt
    BY <1>0, <1>3, RowTypes DEF OnlyStatus
  <2>3. Agrees(u)' BY <1>3, <2>1, <2>2 DEF Agrees, Exec
  <2> QED BY <1>1, <1>3, <2>3
<1>4. CASE Promotes
  <2>1. PICK r \in Doing.todo : r[1] \in Node /\ OnlyStatus(r[1], "runnable")
    BY <1>4 DEF Promotes
  <2>2. status[r[1]] = "pending" /\ Doing.pc = "promote"
    BY <1>0, <1>4, <2>1 DEF Promotes, LoopKnows, Promotable
  <2> QED BY <1>3, <2>1, <2>2 DEF Unsettled
<1>5. CASE StartsNode
  <2>1. CASE UNCHANGED <<rows, workers>>
    BY <1>0, <1>5, <2>1, AgreesStill DEF StartsNode, Unsettled, rows
  <2>2. CASE OnlyStatus(Doing.cur[1], "running") /\ Doing'.pc = "number"
             /\ Doing'.cur = <<Doing.cur[1], attemptNo[Doing.cur[1]] + 1>>
    BY <1>0, <1>1, <1>5, <2>2 DEF StartsNode, Unsettled
  <2> QED BY <1>5, <2>1, <2>2 DEF StartsNode
<1>6. CASE Numbers
  <2>1. \A n \in Node \ {Doing.cur[1]} : attemptNo'[n] = attemptNo[n]
    BY <1>0, <1>6, RowTypes DEF Numbers
  <2> QED BY <1>0, <1>6, <2>1, AgreesButOne DEF Numbers, Going, Unsettled
<1>7. CASE Records
  <2>1. /\ Doing.cur \in AttemptRow /\ Newest(Doing.cur) /\ status[Doing.cur[1]] = "running"
    BY <1>0, <1>7 DEF Records, LoopKnows, Busy
  <2>2. attempt'[Doing.cur].exec = "running" /\ UNCHANGED <<status, attemptNo>>
    BY <1>0, <1>7, <2>1, RowTypes DEF Records, OnlyAttempt
  <2>3. PICK u \in Node : u = Doing.cur[1] BY <1>0
  <2>4. attemptNo[u] > 0 /\ <<u, attemptNo[u]>> = Doing.cur
    BY <1>0, <2>1, <2>3, RowTypes DEF Newest
  <2>5. Agrees(u)' BY <2>1, <2>2, <2>3, <2>4 DEF Agrees, Exec
  <2> QED BY <1>2, <1>7, <2>1, <2>3, <2>5 DEF Records
<1>8. CASE Computes
  <2>1. Doing.cur \in AttemptRow BY <1>0, <1>8 DEF Computes, LoopKnows, Busy
  <2> QED BY <1>0, <1>2, <1>8, <2>1 DEF Computes, Ends, Unsettled
<1>9. CASE Settles \/ EndsNode
  <2>1. /\ Doing.cur \in AttemptRow /\ Newest(Doing.cur)
        /\ attempt[Doing.cur].exec = Result(Doing.op)
        /\ OnlyStatus(Doing.cur[1], Result(Doing.op))
    BY <1>0, <1>9 DEF Settles, EndsNode, LoopKnows, Busy, CallsSerially, ReportKnows
  <2>2. PICK u \in Node : u = Doing.cur[1] BY <1>0
  <2>3. attemptNo[u] > 0 /\ <<u, attemptNo[u]>> = Doing.cur
    BY <1>0, <2>1, <2>2, RowTypes DEF Newest
  <2>4. status'[u] = Result(Doing.op) /\ UNCHANGED <<attemptNo, attempt>>
    BY <1>0, <2>1, <2>2, RowTypes DEF OnlyStatus
  <2>5. Agrees(u)' BY <2>1, <2>3, <2>4 DEF Agrees, Exec, Result
  <2> QED BY <1>1, <2>1, <2>2, <2>5
<1>10. CASE EndsAttempt
  <2>1. Doing.cur \in AttemptRow BY <1>0, <1>10 DEF EndsAttempt, RowsExist
  <2> QED BY <1>0, <1>2, <1>10, <2>1 DEF EndsAttempt, Ends, Going, Unsettled
<1>11. CASE Frees
  <2>1. \A a \in AttemptRow : attempt'[a].exec = attempt[a].exec
    BY <1>0, <1>11, RowTypes DEF Frees, OnlyAttempt
  <2> QED BY <1>0, <1>11, <2>1, AgreesStill DEF Frees, OnlyAttempt, Unsettled
<1>12. CASE Resets
  <2>1. status[Doing.target] = "failed" /\ Doing.pc = "reset"
    BY <1>0, <1>12 DEF Resets, RetryKnows
  <2> QED BY <1>0, <1>3, <1>12, <2>1 DEF Resets, Unsettled
<1>13. CASE SweepsNode
  <2>1. PICK a \in Doing.todo :
          /\ a[1] \in Node /\ OnlyStatus(a[1], "failed")
          /\ Doing'.pc = "sweepAttempt" /\ Doing'.cur = a /\ Doing.pc = "sweepNode"
    BY <1>13 DEF SweepsNode
  <2> QED BY <1>1, <2>1 DEF Unsettled
<1>14. CASE SweepsAttempt
  <2>1. /\ Doing.cur \in AttemptRow /\ Newest(Doing.cur) /\ status[Doing.cur[1]] = "failed"
    BY <1>0, <1>14 DEF SweepsAttempt, RowsExist, SweepKnows
  <2>2. attempt'[Doing.cur].exec = "timed_out" /\ UNCHANGED <<status, attemptNo>>
    BY <1>0, <1>14, <2>1, RowTypes DEF SweepsAttempt, Ends, OnlyAttempt
  <2>3. PICK u \in Node : u = Doing.cur[1] BY <1>0
  <2>4. attemptNo[u] > 0 /\ <<u, attemptNo[u]>> = Doing.cur
    BY <1>0, <2>1, <2>3, RowTypes DEF Newest
  <2>5. Agrees(u)' BY <2>1, <2>2, <2>3, <2>4 DEF Agrees, Exec
  <2> QED BY <1>2, <1>14, <2>1, <2>3, <2>5 DEF SweepsAttempt, Ends
<1>15. CASE Claims
  <2>1. PICK n \in Agent : Claim(n) BY <1>15 DEF Claims
  <2> DEFINE k == attemptNo[n] + 1
  <2>2. /\ n \in Node /\ k \in 1..MaxAttempt
        /\ status' = [status EXCEPT ![n] = "running"]
        /\ attemptNo' = [attemptNo EXCEPT ![n] = k]
        /\ attempt' = [attempt EXCEPT ![<<n, k>>] = [exec |-> "running",
                                                     auth |-> "active"]]
    BY <1>0, <2>1, ClaimFlat
  <2>3. Doing' = Doing BY <1>15 DEF Claims, Doing
  <2>4. /\ status'[n] = "running" /\ attemptNo'[n] = k /\ k > 0
        /\ attempt'[<<n, k>>].exec = "running"
        /\ \A m \in Node \ {n} : status'[m] = status[m] /\ attemptNo'[m] = attemptNo[m]
        /\ \A a \in AttemptRow : a[1] # n => attempt'[a] = attempt[a]
    BY <1>0, <2>2, RowTypes
  <2> HIDE DEF k
  <2>5. Agrees(n)' BY <2>4 DEF Agrees, Exec
  <2> QED BY <1>0, <2>2, <2>3, <2>4, <2>5, AgreesButOne
<1>16. CASE Waits
  BY <1>0, <1>16, AgreesStill DEF Waits, Doing
<1>17. CASE \/ Scans \/ Closes \/ Stamps \/ Checks \/ SelectsNone \/ Begins \/ Retries
            \/ BeginsSweep \/ Reports
  <2>1. Doing.pc \notin Unsettled /\ UNCHANGED <<status, attemptNo, attempt>>
    BY <1>17 DEF Scans, Closes, Stamps, Checks, SelectsNone, Begins, Retries, BeginsSweep,
       Reports, Unsettled, rows
  <2> QED BY <1>0, <2>1, AgreesStill
<1> QED BY <1>4, <1>5, <1>6, <1>7, <1>8, <1>9, <1>10, <1>11, <1>12, <1>13, <1>14, <1>15,
           <1>16, <1>17, SerialFlat DEF SerialStep

\* The rows of a backend node are numbered like those of an agent's, except
\* between the statement that advances the number and the one that inserts.
LEMMA BackendFenceKept ==
  ASSUME OneThread, MaxInterrupt = 0, SerialInv, [Next]_vars
  PROVE  BackendFence'
<1>0. /\ TypeOK /\ FenceInv /\ RowsExist(Doing) /\ LoopKnows /\ BackendFence
      /\ Doing.cur \in Row /\ Doing.cur[1] \in Node
  BY SerialFacts
<1>1. SUFFICES ASSUME NEW n \in Backend, NEW k \in 1..MaxAttempt
               PROVE  Created(<<n, k>>)'
                        <=> (k <= attemptNo'[n]
                             /\ ~(Doing'.pc = "insert" /\ Doing'.cur = <<n, k>>))
  BY DEF BackendFence
<1>2. /\ n \in Node /\ <<n, k>> \in AttemptRow /\ attemptNo[n] \in 0..MaxAttempt
      /\ MaxAttempt \in Nat
      /\ Created(<<n, k>>)
           <=> (k <= attemptNo[n] /\ ~(Doing.pc = "insert" /\ Doing.cur = <<n, k>>))
  BY <1>0, <1>1, RowTypes, TopologyAssumption DEF BackendFence
<1>3. ASSUME Created(<<n, k>>)' <=> Created(<<n, k>>), attemptNo'[n] = attemptNo[n],
             \/ Doing' = Doing
             \/ Doing.pc # "insert" /\ Doing'.pc # "insert"
      PROVE  Created(<<n, k>>)'
               <=> (k <= attemptNo'[n]
                    /\ ~(Doing'.pc = "insert" /\ Doing'.cur = <<n, k>>))
  BY <1>2, <1>3
\* A statement that ends an attempt leaves its row where it is.
<1>4. ASSUME NEW a \in AttemptRow, NEW r, OnlyAttempt(a, r), Created(a), r.exec # "none"
      PROVE  Created(<<n, k>>)' <=> Created(<<n, k>>)
  BY <1>0, <1>2, <1>4, RowTypes DEF OnlyAttempt, Created
<1>5. CASE Numbers
  <2>1. /\ Doing.cur[2] = attemptNo[Doing.cur[1]] + 1 /\ Doing.cur[1] \in Backend
        /\ attemptNo' = [attemptNo EXCEPT ![Doing.cur[1]] = Doing.cur[2]]
        /\ attempt' = attempt /\ Doing'.cur = Doing.cur /\ Doing'.pc = "insert"
        /\ Doing.pc = "number"
        /\ Doing.cur = <<Doing.cur[1], Doing.cur[2]>>
    BY <1>0, <1>5 DEF Numbers, Going, LoopKnows, RowsExist, Row
  <2>2. Created(<<n, k>>)' <=> Created(<<n, k>>) BY <2>1 DEF Created
  <2>3. CASE n = Doing.cur[1]
    <3>1. attemptNo'[n] = attemptNo[n] + 1 /\ Doing.cur = <<n, attemptNo[n] + 1>>
      BY <1>0, <1>2, <2>1, <2>3, RowTypes
    <3>2. k <= attemptNo'[n] /\ k # attemptNo[n] + 1 <=> k <= attemptNo[n]
      BY <1>2, <3>1
    <3> QED BY <1>2, <2>1, <2>2, <3>1, <3>2
  <2>4. CASE n # Doing.cur[1]
    <3>1. attemptNo'[n] = attemptNo[n] BY <1>0, <1>2, <2>1, <2>4, RowTypes
    <3> QED BY <1>2, <2>1, <2>2, <2>4, <3>1
  <2> QED BY <2>3, <2>4
<1>6. CASE Records
  <2>1. /\ Doing.cur \in AttemptRow /\ Newest(Doing.cur) /\ Doing.pc = "insert"
        /\ Doing'.pc = "logic" /\ attemptNo' = attemptNo
    BY <1>0, <1>6 DEF Records, Going, OnlyAttempt, LoopKnows, Busy
  <2>2. CASE Doing.cur = <<n, k>>
    <3>1. k = attemptNo[n] BY <2>1, <2>2 DEF Newest
    <3>2. Created(<<n, k>>)'
      BY <1>0, <1>2, <1>6, <2>2, RowTypes DEF Records, OnlyAttempt, Created
    <3> QED BY <1>2, <2>1, <3>1, <3>2
  <2>3. CASE Doing.cur # <<n, k>>
    <3>1. Created(<<n, k>>)' <=> Created(<<n, k>>)
      BY <1>0, <1>2, <1>6, <2>1, <2>3, RowTypes DEF Records, OnlyAttempt, Created
    <3> QED BY <1>2, <2>1, <2>3, <3>1
  <2> QED BY <2>2, <2>3
<1>7. CASE Computes
  <2>1. /\ Doing.cur \in AttemptRow /\ Created(Doing.cur)
        /\ Result(Doing'.op) # "none" /\ attemptNo' = attemptNo
    BY <1>0, <1>7 DEF Computes, LoopKnows, Busy, Created, Result, Ends, OnlyAttempt
  <2> QED BY <1>3, <1>4, <1>7, <2>1 DEF Computes, Ends
<1>8. CASE EndsAttempt \/ SweepsAttempt
  <2>1. /\ Doing.cur \in AttemptRow /\ Created(Doing.cur) /\ attemptNo' = attemptNo
        /\ Doing.pc # "insert" /\ Doing'.pc # "insert"
    BY <1>0, <1>8 DEF EndsAttempt, SweepsAttempt, RowsExist, Ends, OnlyAttempt, Going, Revoking
  <2>2. PICK e \in {"completed", "failed", "timed_out"} : Ends(Doing.cur, e)
    BY <1>8 DEF EndsAttempt, SweepsAttempt, Result
  <2> QED BY <1>3, <1>4, <2>1, <2>2 DEF Ends
<1>9. CASE Frees
  <2>1. Created(<<n, k>>)' <=> Created(<<n, k>>)
    BY <1>0, <1>2, <1>9, RowTypes DEF Frees, OnlyAttempt, Created
  <2> QED BY <1>3, <1>9, <2>1, LoopFacts, <1>0 DEF Frees, OnlyAttempt
<1>10. CASE Claims
  <2>1. PICK m \in Agent : Claim(m) BY <1>10 DEF Claims
  <2>2. /\ m \in Node /\ attemptNo[m] + 1 \in 1..MaxAttempt
        /\ attemptNo' = [attemptNo EXCEPT ![m] = attemptNo[m] + 1]
        /\ attempt' = [attempt EXCEPT ![<<m, attemptNo[m] + 1>>] =
                         [exec |-> "running", auth |-> "active"]]
    BY <1>0, <2>1, ClaimFlat
  <2>3. Doing' = Doing /\ m # n BY <1>10, <1>1 DEF Claims, Doing, Agent
  <2>4. attemptNo'[n] = attemptNo[n] /\ attempt'[<<n, k>>] = attempt[<<n, k>>]
    BY <1>0, <1>2, <2>2, <2>3, RowTypes
  <2> QED BY <1>3, <2>3, <2>4 DEF Created
<1>11. CASE Waits
  BY <1>3, <1>11 DEF Waits, Doing, Created
<1>12. CASE \/ Scans \/ Promotes \/ StartsNode \/ Settles \/ Closes \/ Stamps \/ Checks
            \/ EndsNode \/ SelectsNone \/ Resets \/ SweepsNode \/ Begins \/ Retries
            \/ BeginsSweep \/ Reports
  <2>1. /\ Doing.pc # "insert" /\ Doing'.pc # "insert" /\ UNCHANGED <<attemptNo, attempt>>
    BY <1>0, <1>12, LoopFacts
       DEF Scans, Promotes, StartsNode, Settles, Closes, Stamps, Checks, EndsNode,
       SelectsNone, Resets, SweepsNode, Begins, Retries, BeginsSweep, Reports, Looping,
       Going, Revoking, OnlyStatus, rows
  <2> QED BY <1>3, <2>1 DEF Created
<1> QED BY <1>5, <1>6, <1>7, <1>8, <1>9, <1>10, <1>11, <1>12, SerialFlat DEF SerialStep

\* An attempt that ended is revoked by the request that ended it.
LEMMA AuthorityEndsKept ==
  ASSUME OneThread, MaxInterrupt = 0, SerialInv, [Next]_vars
  PROVE  AuthorityEnds'
<1>0. /\ TypeOK /\ FenceInv /\ RowsExist(Doing) /\ LoopKnows /\ ReportKnows /\ AuthorityEnds
      /\ CallsSerially /\ Doing.cur \in Row
  BY SerialFacts
<1>1. SUFFICES ASSUME NEW a \in AttemptRow, a[1] \in Agent, attempt'[a].exec \in Ended
               PROVE  \/ attempt'[a].auth = "revoked"
                      \/ Doing'.pc \in {"endNode", "revoke"} /\ Doing'.cur = a
  BY DEF AuthorityEnds
<1>2. attempt[a].exec \in Ended =>
        \/ attempt[a].auth = "revoked"
        \/ Doing.pc \in {"endNode", "revoke"} /\ Doing.cur = a
  BY <1>1, <1>0 DEF AuthorityEnds
<1>3. ASSUME attempt'[a] = attempt[a],
             \/ Doing' = Doing
             \/ Doing.pc \notin {"endNode", "revoke"}
             \/ Doing'.pc = "revoke" /\ Doing'.cur = Doing.cur
      PROVE  \/ attempt'[a].auth = "revoked"
             \/ Doing'.pc \in {"endNode", "revoke"} /\ Doing'.cur = a
  BY <1>1, <1>2, <1>3
<1>4. CASE Records \/ Computes
  <2>1. PICK r : OnlyAttempt(Doing.cur, r)
    BY <1>4 DEF Records, Computes, Ends
  <2>2. Doing.cur # a /\ Doing.pc \in {"insert", "logic"}
    BY <1>0, <1>1, <1>4 DEF Records, Computes, RowsExist, Agent
  <2> QED BY <1>0, <1>3, <2>1, <2>2, RowTypes DEF OnlyAttempt
<1>5. CASE EndsAttempt
  <2>1. CASE Doing.cur = a BY <1>5, <2>1 DEF EndsAttempt, Going
  <2>2. CASE Doing.cur # a
    BY <1>0, <1>3, <1>5, <2>2, RowTypes DEF EndsAttempt, Ends, OnlyAttempt
  <2> QED BY <2>1, <2>2
<1>6. CASE SweepsAttempt
  <2>1. CASE Doing.cur = a BY <1>6, <2>1 DEF SweepsAttempt, Revoking
  <2>2. CASE Doing.cur # a
    BY <1>0, <1>3, <1>6, <2>2, RowTypes DEF SweepsAttempt, Ends, OnlyAttempt
  <2> QED BY <2>1, <2>2
<1>7. CASE EndsNode
  BY <1>3, <1>7 DEF EndsNode, Revoking, OnlyStatus
<1>8. CASE Frees
  <2>1. CASE Doing.cur = a
    <3>1. attempt'[a].auth = "revoked"
      BY <1>0, <1>8, <2>1, RowTypes DEF Frees, OnlyAttempt
    <3> QED BY <3>1
  <2>2. CASE Doing.cur # a
    <3>1. attempt'[a] = attempt[a] BY <1>0, <1>8, <2>2, RowTypes DEF Frees, OnlyAttempt
    <3> QED BY <1>1, <1>2, <2>2, <3>1
  <2> QED BY <2>1, <2>2
<1>9. CASE Claims
  <2>1. PICK n \in Agent : Claim(n) BY <1>9 DEF Claims
  <2> DEFINE b == <<n, attemptNo[n] + 1>>
  <2>2. attempt' = [attempt EXCEPT ![b] = [exec |-> "running", auth |-> "active"]]
        /\ b \in AttemptRow
    BY <1>0, <2>1, ClaimFlat, RowTypes
  <2> HIDE DEF b
  <2>3. a # b
    <3>1. ASSUME a = b PROVE FALSE
      <4>1. attempt'[a].exec = "running" BY <1>0, <2>2, <3>1, RowTypes
      <4> QED BY <1>1, <4>1 DEF Ended
    <3> QED BY <3>1
  <2>4. attempt'[a] = attempt[a] BY <1>0, <2>2, <2>3, RowTypes
  <2> QED BY <1>3, <1>9, <2>4 DEF Claims, Doing
<1>10. CASE Waits
  BY <1>3, <1>10 DEF Waits, Doing
<1>11. CASE \/ Scans \/ Promotes \/ StartsNode \/ Numbers \/ Settles \/ Closes \/ Stamps
            \/ Checks \/ SelectsNone \/ Resets \/ SweepsNode \/ Begins \/ Retries
            \/ BeginsSweep \/ Reports
  <2>1. Doing.pc \notin {"endNode", "revoke"} /\ UNCHANGED attempt
    BY <1>11 DEF Scans, Promotes, StartsNode, Numbers, Settles, Closes, Stamps, Checks,
       SelectsNone, Resets, SweepsNode, Begins, Retries, BeginsSweep, Reports, OnlyStatus,
       rows
  <2> QED BY <1>3, <2>1
<1> QED BY <1>4, <1>5, <1>6, <1>7, <1>8, <1>9, <1>10, <1>11, SerialFlat DEF SerialStep

\* A dependency that completed and, if an agent ran it, lost its authority.
Settled(m) ==
  /\ status[m] = "completed"
  /\ m \in Agent => attemptNo[m] > 0 /\ attempt[<<m, attemptNo[m]>>].auth = "revoked"

LEMMA OrderIsSettled ==
  DependencyOrder <=>
    \A n \in Node : status[n] \in Started => \A m \in Upstream(n) : Settled(m)
BY DEF DependencyOrder, Settled, Started

\* Only a node that is not completed is written, and it starts only on
\* dependencies that are settled.
LEMMA OrderKeeps ==
  ASSUME TypeOK, DependencyOrder, NEW u \in Node, status[u] # "completed",
         \A n \in Node \ {u} : status'[n] = status[n],
         \A m \in Node \ {u} : Settled(m) => Settled(m)',
         status'[u] \in Started =>
           status[u] \in Started \/ \A m \in Upstream(u) : Settled(m)
  PROVE  DependencyOrder'
<1>1. SUFFICES ASSUME NEW n \in Node, status'[n] \in Started, NEW m \in Upstream(n)
               PROVE  Settled(m)'
  BY DEF DependencyOrder, Settled, Started
<1>2. Settled(m)
  BY <1>1, OrderIsSettled
<1>3. m \in Node \ {u} BY <1>2 DEF Settled, Upstream
<1> QED BY <1>2, <1>3

LEMMA DependencyOrderKept ==
  ASSUME OneThread, MaxInterrupt = 0, SerialInv, [Next]_vars
  PROVE  DependencyOrder'
<1>0. /\ TypeOK /\ FenceInv /\ RowsExist(Doing) /\ LoopKnows /\ ReportKnows /\ AuthorityEnds
      /\ SweepKnows /\ RetryKnows /\ CallsSerially /\ DependencyOrder /\ NodesAgree
      /\ Doing.cur \in Row /\ Doing.cur[1] \in Node /\ Doing.target \in Node
  BY SerialFacts
<1>1. ASSUME NEW u \in Node, NEW s, OnlyStatus(u, s), status[u] # "completed",
             s \in Started => status[u] \in Started \/ \A m \in Upstream(u) : Settled(m)
      PROVE  DependencyOrder'
  <2>1. /\ \A n \in Node \ {u} : status'[n] = status[n]
        /\ status'[u] = s /\ attemptNo' = attemptNo /\ attempt' = attempt
    BY <1>0, <1>1, RowTypes DEF OnlyStatus
  <2>2. \A m \in Node \ {u} : Settled(m) => Settled(m)' BY <2>1 DEF Settled
  <2> QED BY <1>0, <1>1, <2>1, <2>2, OrderKeeps
\* Writing an attempt moves no node and revives no authority.
<1>2. ASSUME UNCHANGED <<status, attemptNo>>,
             \A a \in AttemptRow : a[1] \in Agent /\ attempt[a].auth = "revoked" =>
               attempt'[a].auth = "revoked"
      PROVE  DependencyOrder'
  <2>1. ASSUME NEW m \in Node, Settled(m) PROVE Settled(m)'
    <3>1. m \in Agent => /\ <<m, attemptNo[m]>> \in AttemptRow
                         /\ <<m, attemptNo[m]>>[1] = m
      BY <1>0, <2>1, RowTypes DEF Settled
    <3> QED BY <1>2, <2>1, <3>1 DEF Settled
  <2> QED BY <1>0, <1>2, <2>1 DEF DependencyOrder, Settled, Upstream
<1>3. CASE Promotes
  <2>1. PICK r \in Doing.todo : r[1] \in Node /\ OnlyStatus(r[1], "runnable")
    BY <1>3 DEF Promotes
  <2>2. Doing.pc = "promote" /\ status[r[1]] = "pending"
        /\ \A m \in Upstream(r[1]) : status[m] = "completed"
    BY <1>0, <1>3, <2>1 DEF Promotes, LoopKnows, Promotable
  <2>3. ASSUME NEW m \in Upstream(r[1]) PROVE Settled(m)
    <3>1. Agrees(m) /\ m \in Node /\ status[m] = "completed"
      BY <1>0, <2>2, <2>3 DEF NodesAgree, Unsettled, Upstream
    <3>2. /\ attemptNo[m] > 0 /\ <<m, attemptNo[m]>> \in AttemptRow
          /\ <<m, attemptNo[m]>>[1] = m /\ attempt[<<m, attemptNo[m]>>].exec = "completed"
      BY <1>0, <3>1, RowTypes DEF Agrees, Exec
    <3> QED BY <1>0, <2>2, <3>1, <3>2 DEF Settled, AuthorityEnds, Ended
  <2> QED BY <1>1, <2>1, <2>2, <2>3
<1>4. CASE StartsNode
  <2>1. CASE UNCHANGED <<rows, workers>> BY <1>2, <2>1 DEF rows
  <2>2. CASE OnlyStatus(Doing.cur[1], "running") /\ status[Doing.cur[1]] = "runnable"
    BY <1>0, <1>1, <2>2 DEF Started
  <2> QED BY <1>4, <2>1, <2>2 DEF StartsNode
<1>5. CASE Settles \/ EndsNode
  <2>1. status[Doing.cur[1]] = "running" /\ OnlyStatus(Doing.cur[1], Result(Doing.op))
    BY <1>0, <1>5 DEF Settles, EndsNode, LoopKnows, Busy, CallsSerially
  <2> QED BY <1>0, <1>1, <2>1 DEF Started
<1>6. CASE Resets
  <2>1. status[Doing.target] = "failed" BY <1>0, <1>6 DEF Resets, RetryKnows
  <2> QED BY <1>0, <1>1, <1>6, <2>1 DEF Resets, Started
<1>7. CASE SweepsNode
  <2>1. PICK a \in Doing.todo : a[1] \in Node /\ OnlyStatus(a[1], "failed")
    BY <1>7 DEF SweepsNode
  <2>2. status[a[1]] = "running" BY <1>0, <1>7, <2>1 DEF SweepsNode, RowsExist, SweepKnows
  <2> QED BY <1>1, <2>1, <2>2 DEF Started
<1>8. CASE Numbers
  <2>1. PICK u \in Node : u = Doing.cur[1] BY <1>0
  <2>2. /\ u \notin Agent /\ status' = status /\ attempt' = attempt
        /\ \A m \in Node \ {u} : attemptNo'[m] = attemptNo[m]
    BY <1>0, <1>8, <2>1, RowTypes DEF Numbers, RowsExist, Agent
  <2>3. status[u] # "completed" /\ (status'[u] \in Started => status[u] \in Started)
    BY <1>0, <1>8, <2>1, <2>2 DEF Numbers, LoopKnows, Busy
  <2>4. \A m \in Node \ {u} : Settled(m) => Settled(m)' BY <2>2 DEF Settled
  <2> QED BY <1>0, <2>2, <2>3, <2>4, OrderKeeps
<1>9. CASE Claims
  <2>1. PICK n \in Agent : Claim(n) BY <1>9 DEF Claims
  <2> DEFINE k == attemptNo[n] + 1
  <2>2. /\ n \in Node /\ k \in 1..MaxAttempt /\ status[n] = "runnable"
        /\ status' = [status EXCEPT ![n] = "running"]
        /\ attemptNo' = [attemptNo EXCEPT ![n] = k]
        /\ attempt' = [attempt EXCEPT ![<<n, k>>] = [exec |-> "running",
                                                     auth |-> "active"]]
    BY <1>0, <2>1, ClaimFlat
  <2>3. /\ \A m \in Node \ {n} : status'[m] = status[m] /\ attemptNo'[m] = attemptNo[m]
        /\ \A a \in AttemptRow : a[1] # n => attempt'[a] = attempt[a]
    BY <1>0, <2>2, RowTypes
  <2>4. ASSUME NEW m \in Node \ {n}, Settled(m) PROVE Settled(m)'
    <3>1. m \in Agent => /\ <<m, attemptNo[m]>> \in AttemptRow
                         /\ <<m, attemptNo[m]>>[1] = m
      BY <1>0, <2>4, RowTypes DEF Settled
    <3> QED BY <2>3, <2>4, <3>1 DEF Settled
  <2> QED BY <1>0, <2>2, <2>3, <2>4, OrderKeeps DEF Started
<1>10. CASE Records \/ Computes
  <2>1. PICK r : OnlyAttempt(Doing.cur, r)
    BY <1>10 DEF Records, Computes, Ends
  <2>2. Doing.cur[1] \notin Agent
    BY <1>0, <1>10 DEF Records, Computes, RowsExist, Agent
  <2> QED BY <1>0, <1>2, <2>1, <2>2, RowTypes DEF OnlyAttempt
<1>11. CASE EndsAttempt \/ SweepsAttempt
  <2>1. PICK e : Ends(Doing.cur, e) BY <1>11 DEF EndsAttempt, SweepsAttempt
  <2>2. \A a \in AttemptRow : attempt'[a].auth = attempt[a].auth
    BY <1>0, <2>1, RowTypes DEF Ends, OnlyAttempt
  <2> QED BY <1>2, <2>1, <2>2 DEF Ends, OnlyAttempt
<1>12. CASE Frees
  <2>1. \A a \in AttemptRow : attempt'[a].auth \in {attempt[a].auth, "revoked"}
    BY <1>0, <1>12, RowTypes DEF Frees, OnlyAttempt
  <2> QED BY <1>2, <1>12, <2>1 DEF Frees, OnlyAttempt
<1>13. CASE \/ Scans \/ Closes \/ Stamps \/ Checks \/ SelectsNone \/ Begins \/ Retries
            \/ BeginsSweep \/ Reports \/ Waits
  <2>1. UNCHANGED <<status, attemptNo, attempt>>
    BY <1>13 DEF Scans, Closes, Stamps, Checks, SelectsNone, Begins, Retries, BeginsSweep,
       Reports, Waits, rows
  <2> QED BY <1>2, <2>1
<1> QED BY <1>3, <1>4, <1>5, <1>6, <1>7, <1>8, <1>9, <1>10, <1>11, <1>12, <1>13,
           SerialFlat DEF SerialStep

LEMMA SerialInitial ==
  ASSUME OneThread, Init
  PROVE  SerialInv
<1>1. EvidenceInv BY EvidenceInitial
<1>2. TypeOK BY <1>1 DEF EvidenceInv, FenceInv
<1>3. Doing.pc = "idle" BY <1>2, ReqFacts, LoopFacts DEF Init, Doing
<1>4. /\ \A n \in Node : status[n] = "pending" /\ attemptNo[n] = 0
      /\ \A a \in AttemptRow : attempt[a].exec = "none"
  BY DEF Init, AttemptRow
<1>5. CallsSerially BY <1>3 DEF CallsSerially
<1>6. NodesAgree BY <1>4 DEF NodesAgree, Agrees
<1>7. BackendFence
  <2>1. ASSUME NEW n \in Backend, NEW k \in 1..MaxAttempt
        PROVE  ~Created(<<n, k>>) /\ ~(k <= attemptNo[n])
    <3>1. n \in Node /\ <<n, k>> \in AttemptRow
      BY <1>2, RowTypes, TopologyAssumption
    <3>2. ~Created(<<n, k>>) BY <1>4, <3>1 DEF Created
    <3>3. attemptNo[n] = 0 BY <1>4, <3>1
    <3> QED BY <3>2, <3>3
  <2> QED BY <2>1 DEF BackendFence
<1>8. AuthorityEnds BY <1>4 DEF AuthorityEnds, Ended
<1>9. DependencyOrder BY <1>4 DEF DependencyOrder
<1> QED BY <1>1, <1>5, <1>6, <1>7, <1>8, <1>9 DEF SerialInv

LEMMA SerialKept ==
  ASSUME OneThread, MaxInterrupt = 0, SerialInv, [Next]_vars
  PROVE  SerialInv'
BY EvidenceStep, CallsSeriallyKept, NodesAgreeKept, BackendFenceKept, AuthorityEndsKept,
   DependencyOrderKept DEF SerialInv

\* What requests served one after the other and to their end leave true at
\* each of their statements: the cascade of a retry finds no node to take
\* back, nodes and newest attempts agree, and what ended was revoked.
THEOREM SerialInvariant ==
  ASSUME OneThread, MaxInterrupt = 0
  PROVE  Spec => []SerialInv
<1>1. Init => SerialInv BY SerialInitial
<1>2. SerialInv /\ [Next]_vars => SerialInv' BY SerialKept
<1> QED BY <1>1, <1>2, PTL DEF Spec

\* Requests served one after the other, to their end: a node starts only on
\* dependencies that completed and lost their authority, and none is taken
\* back under it; the cascade of a retry has nothing to invalidate.
THEOREM OrderCorrect ==
  ASSUME OneThread, MaxInterrupt = 0
  PROVE  Spec => []DependencyOrder
<1>1. SerialInv => DependencyOrder BY DEF SerialInv
<1> QED BY <1>1, SerialInvariant, PTL

\* And when no request is in progress every agent attempt that ended has been
\* revoked, whichever of report and sweep ended it.
THEOREM AuthorityCorrect ==
  ASSUME OneThread, MaxInterrupt = 0
  PROVE  Spec => []AuthorityEndsWithAttempt
<1>1. SerialInv => AuthorityEndsWithAttempt
  <2> SUFFICES ASSUME SerialInv, Quiet, NEW a \in Agent \X (1..MaxAttempt),
                      attempt[a].exec \in Ended
               PROVE  attempt[a].auth = "revoked"
    BY DEF AuthorityEndsWithAttempt
  <2>1. TypeOK /\ AuthorityEnds BY SerialFacts
  <2>2. Doing.pc = "idle" BY <2>1, ReqFacts DEF Quiet, At, Doing
  <2>3. a \in AttemptRow /\ a[1] \in Agent BY DEF AttemptRow, Agent
  <2> QED BY <2>1, <2>2, <2>3 DEF AuthorityEnds
<1> QED BY <1>1, SerialInvariant, PTL

-----------------------------------------------------------------------------
(* The run. Every node leads to the sink, so that a completed sink leaves    *)
(* nothing to do; while a handler moves a node the run is 'running', and the *)
(* verdict of evaluateRunCompletion still holds when it is stamped.         *)

SinkIsLast == \A n \in Node \ {Sink} : Sink \in Downstream(n)

RunAgrees ==
  /\ runStatus = "completed" <=> status[Sink] = "completed"
  /\ runStatus = "failed" <=> Blocked
Changing == {"promote", "exec", "endAttempt", "endNode", "revoke", "sweepNode",
             "sweepAttempt"} \cup Busy
Evaluated == \/ Doing.pc \in {"idle", "check", "closing", "stamp", "endAttempt", "endNode"}
             \/ Doing.pc = "revoke" /\ Doing.op = "fail"
RunKnows ==
  /\ runStatus = "none" =>
       Doing.pc = "idle" /\ \A n \in Node : status[n] = "pending" /\ work[n] = 0
  /\ Doing.pc \in Changing => runStatus = "running"
  /\ Doing.pc \in {"idle", "check"} => runStatus = "none" \/ RunAgrees
  /\ Doing.pc \in {"scan", "closing", "stamp"} => runStatus = "running" \/ RunAgrees
  /\ Evaluated => runStatus = "none" \/ Promotable = {}
  /\ Doing.pc = "scan" => runStatus = "running" \/ Promotable = {}
  /\ Doing.pc = "stamp" =>
       IF Doing.op = "complete" THEN status[Sink] = "completed"
                                ELSE status[Sink] # "completed" /\ Blocked

LEMMA AllCompleted ==
  ASSUME TypeOK, DependencyOrder, SinkIsLast, status[Sink] = "completed", NEW n \in Node
  PROVE  status[n] = "completed"
<1>1. SUFFICES ASSUME status[n] # "completed" PROVE FALSE OBVIOUS
<1>2. Sink \in Downstream(n) BY <1>1 DEF SinkIsLast
<1> QED BY <1>1, <1>2, NothingToInvalidate DEF Started

LEMMA RunningNodeRuns ==
  ASSUME TypeOK, DependencyOrder, SinkIsLast, RunAgrees, runStatus # "none",
         NEW n \in Node, status[n] \in {"running", "runnable"}
  PROVE  runStatus = "running"
<1>1. runStatus # "completed" BY AllCompleted DEF RunAgrees
<1>2. runStatus # "failed" BY DEF RunAgrees, Blocked
<1> QED BY <1>1, <1>2 DEF TypeOK, RunStatus

LEMMA PromotableSame ==
  ASSUME TypeOK, NEW n \in Node, NEW s \in {"running", "failed"},
         status' = [status EXCEPT ![n] = s], status[n] \in {"running", "runnable"}
  PROVE  Promotable' = Promotable
<1>1. \A m \in Node : /\ status'[m] = "pending" <=> status[m] = "pending"
                      /\ status'[m] = "completed" <=> status[m] = "completed"
  BY RowTypes
<1> QED BY <1>1 DEF Promotable, Upstream

LEMMA RunKnowsKept ==
  ASSUME OneThread, MaxInterrupt = 0, SinkIsLast, SerialInv, RunKnows, [Next]_vars
  PROVE  RunKnows'
<1>0. /\ TypeOK /\ FenceInv /\ RowsExist(Doing) /\ LoopKnows /\ ReportKnows
      /\ SweepKnows /\ CallsSerially /\ CallsSerially' /\ DependencyOrder
      /\ Doing.cur[1] \in Node /\ RunKnows
  BY SerialFacts, CallsSeriallyKept
<1>1. ASSUME runStatus' = "running",
             Doing'.pc \in {"promote", "exec", "sweepNode", "sweepAttempt", "scan"} \cup Busy
      PROVE  RunKnows'
  BY <1>1 DEF RunKnows, Evaluated, Busy
<1>2. ASSUME runStatus' # "none", Doing'.pc \in {"downstream", "reset", "rerun"}
      PROVE  RunKnows'
  BY <1>2 DEF RunKnows, Evaluated, Changing, Busy
<1>3. Doing.pc # "idle" => runStatus # "none" BY <1>0 DEF RunKnows
<1>4. ASSUME status' = status PROVE Promotable' = Promotable /\ Blocked' = Blocked
  BY <1>4 DEF Promotable, Blocked
<1>5. CASE Scans
  <2>1. runStatus' = runStatus /\ status' = status /\ Doing.pc = "scan"
    BY <1>5 DEF Scans, rows
  <2>2. CASE Promotable = {} /\ Doing' = Closing
    BY <1>0, <1>3, <1>4, <2>1, <2>2, LoopFacts
       DEF RunKnows, Evaluated, Changing, Busy, RunAgrees
  <2>3. CASE Promotable # {} /\ Doing'.pc = "promote"
    BY <1>0, <1>1, <2>1, <2>3 DEF RunKnows
  <2> QED BY <1>5, <2>2, <2>3 DEF Scans
<1>6. CASE Promotes \/ StartsNode \/ Numbers \/ Records \/ Computes \/ Settles \/ SweepsNode
  <2>1. Doing.pc \in Changing /\ runStatus' = runStatus
    BY <1>6 DEF Promotes, StartsNode, Numbers, Records, Computes, Settles, SweepsNode,
       Changing, Busy, OnlyStatus, OnlyAttempt, Ends, rows
  <2>2. Doing'.pc \in {"promote", "exec", "sweepNode", "sweepAttempt", "scan"} \cup Busy
    BY <1>6 DEF Promotes, StartsNode, Numbers, Records, Computes, Settles, SweepsNode,
       Looping, Going, Busy
  <2> QED BY <1>0, <1>1, <2>1, <2>2 DEF RunKnows
<1>7. CASE Closes
  <2>1. /\ runStatus' = runStatus /\ status' = status /\ Doing.pc = "closing"
        /\ runStatus \in RunStatus
    BY <1>0, <1>7 DEF Closes, rows, TypeOK
  <2>2. /\ runStatus # "none" /\ Promotable' = {} /\ Blocked' = Blocked
        /\ runStatus = "running" \/ RunAgrees
    BY <1>0, <1>3, <1>4, <2>1 DEF RunKnows, Evaluated
  <2>3. CASE Doing'.pc = "stamp"
    <3>1. IF Doing'.op = "complete" THEN status'[Sink] = "completed"
                                    ELSE status'[Sink] # "completed" /\ Blocked'
      <4>1. \/ status[Sink] = "completed" /\ Doing'.op = "complete"
            \/ status[Sink] # "completed" /\ Blocked /\ Doing'.op = "fail"
        BY <1>0, <1>7, <2>3, LoopFacts DEF Closes
      <4> QED BY <2>1, <2>2, <4>1
    <3>2. runStatus' = "running" \/ RunAgrees' BY <2>1, <2>2 DEF RunAgrees
    <3> QED BY <2>1, <2>2, <2>3, <3>1, <3>2 DEF RunKnows, Evaluated, Changing, Busy
  <2>4. CASE status[Sink] # "completed" /\ ~Blocked /\ Doing' = Idle
    <3>1. Doing'.pc = "idle" BY <1>0, <2>4, LoopFacts
    <3>2. RunAgrees' BY <2>1, <2>2, <2>4 DEF RunAgrees
    <3> QED BY <2>1, <2>2, <3>1, <3>2 DEF RunKnows, Evaluated, Changing, Busy
  <2> QED BY <1>7, <2>3, <2>4 DEF Closes
<1>8. CASE Stamps
  <2>1. /\ status' = status /\ Doing.pc = "stamp" /\ Doing'.pc = "idle"
        /\ runStatus' = IF Doing.op = "complete" \/ runStatus = "completed"
                          THEN "completed" ELSE "failed"
    BY <1>0, <1>8, LoopFacts DEF Stamps
  <2>2. /\ Promotable' = {} /\ Blocked' = Blocked
        /\ runStatus = "running" \/ RunAgrees
    BY <1>0, <1>3, <1>4, <2>1 DEF RunKnows, Evaluated
  <2>3. RunAgrees'
    <3>1. CASE Doing.op = "complete"
      <4>1. status[Sink] = "completed" BY <1>0, <2>1, <3>1 DEF RunKnows
      <4>2. ~Blocked BY <1>0, <4>1, AllCompleted DEF Blocked
      <4> QED BY <2>1, <2>2, <3>1, <4>1, <4>2 DEF RunAgrees
    <3>2. CASE Doing.op # "complete"
      <4>1. status[Sink] # "completed" /\ Blocked BY <1>0, <2>1, <3>2 DEF RunKnows
      <4>2. runStatus' = "failed" BY <2>1, <2>2, <3>2, <4>1 DEF RunAgrees
      <4> QED BY <2>1, <2>2, <4>1, <4>2 DEF RunAgrees
    <3> QED BY <3>1, <3>2
  <2>4. runStatus' # "none" BY <2>1
  <2> QED BY <2>1, <2>2, <2>3, <2>4 DEF RunKnows, Evaluated, Changing, Busy
<1>9. CASE Begins
  <2>1. Doing'.pc = "scan" /\ status' = status BY <1>0, <1>9, LoopFacts DEF Begins
  <2>2. CASE runStatus' = "running" BY <1>1, <2>1, <2>2
  <2>3. CASE runStatus' # "running"
    <3>1. Doing.pc = "idle" /\ runStatus # "none" /\ runStatus' = runStatus
      BY <1>9, <2>3 DEF Begins
    <3>2. RunAgrees /\ Promotable = {} BY <1>0, <3>1 DEF RunKnows, Evaluated
    <3> QED BY <1>4, <2>1, <3>1, <3>2 DEF RunKnows, RunAgrees, Evaluated, Changing, Busy
  <2> QED BY <2>2, <2>3
<1>10. CASE Checks \/ Reports
  <2>1. /\ Doing.pc \in {"idle", "check"} /\ UNCHANGED <<runStatus, status, attemptNo>>
        /\ Doing'.pc \in {"idle", "check", "endAttempt"}
    BY <1>0, <1>10, LoopFacts DEF Checks, Reports, Going, rows
  <2>2. runStatus # "none"
    BY <1>0, <1>3, <1>10 DEF Checks, Reports, RunKnows
  <2>3. RunAgrees /\ Promotable = {} BY <1>0, <2>1, <2>2 DEF RunKnows, Evaluated
  <2>4. CASE Doing'.pc = "endAttempt"
    <3>1. Doing.cur[1] \in Node /\ status[Doing.cur[1]] = "running"
      BY <1>0, <1>10, <2>1, <2>4 DEF CallsSerially, Checks, Reports, Going, Idle
    <3>2. runStatus = "running" BY <1>0, <2>2, <2>3, <3>1, RunningNodeRuns
    <3> QED BY <1>4, <2>1, <2>3, <2>4, <3>2 DEF RunKnows, Evaluated
  <2>5. CASE Doing'.pc \in {"idle", "check"}
    BY <1>4, <2>1, <2>2, <2>3, <2>5 DEF RunKnows, RunAgrees, Evaluated, Changing, Busy
  <2> QED BY <2>1, <2>4, <2>5
<1>11. CASE EndsAttempt
  BY <1>0, <1>4, <1>11
     DEF EndsAttempt, Ends, OnlyAttempt, Going, RunKnows, Evaluated, Changing
<1>12. CASE EndsNode
  <2>1. /\ Doing.pc = "endNode" /\ Doing'.pc = "revoke" /\ Doing'.op = Doing.op
        /\ OnlyStatus(Doing.cur[1], Result(Doing.op)) /\ status[Doing.cur[1]] = "running"
    BY <1>0, <1>12 DEF EndsNode, Revoking, CallsSerially
  <2>2. runStatus' = "running" /\ Promotable = {}
    BY <1>0, <2>1 DEF RunKnows, Changing, Evaluated, OnlyStatus
  <2>3. Doing.op = "fail" => Promotable' = {}
    BY <1>0, <2>1, <2>2, PromotableSame DEF OnlyStatus, Result
  <2> QED BY <2>1, <2>2, <2>3 DEF RunKnows, Evaluated
<1>13. CASE Frees
  <2>1. Doing.pc = "revoke" /\ runStatus' = runStatus /\ status' = status
    BY <1>13 DEF Frees, OnlyAttempt
  <2>2. runStatus' = "running" BY <1>0, <2>1 DEF RunKnows, Changing
  <2>3. CASE Doing'.pc \in {"scan", "sweepNode"} BY <1>1, <2>2, <2>3
  <2>4. CASE Doing.op = "fail" /\ Doing'.pc = "closing"
    <3>1. Promotable' = {} BY <1>0, <1>4, <2>1, <2>2, <2>4 DEF RunKnows, Evaluated
    <3> QED BY <2>2, <2>4, <3>1 DEF RunKnows, Evaluated, Changing, Busy
  <2> QED BY <1>0, <1>13, <2>3, <2>4, LoopFacts DEF Frees
<1>14. CASE SweepsAttempt
  <2>1. Doing'.pc = "revoke" /\ Doing'.op = "sweep" /\ runStatus' = "running"
    BY <1>0, <1>14 DEF SweepsAttempt, Revoking, RowsExist, RunKnows, Changing, Ends, OnlyAttempt
  <2> QED BY <2>1 DEF RunKnows, Evaluated
<1>15. CASE SelectsNone \/ Resets \/ Retries
  <2>1. runStatus' = runStatus /\ Doing'.pc \in {"downstream", "reset", "rerun"}
    BY <1>15 DEF SelectsNone, Resets, Retries, Going, OnlyStatus, rows
  <2>2. runStatus # "none" BY <1>3, <1>15 DEF SelectsNone, Resets, Retries
  <2> QED BY <1>2, <2>1, <2>2
<1>16. CASE BeginsSweep
  <2>1. PICK a \in AttemptRow : status[a[1]] = "running"
    BY <1>0, <1>16, RowTypes DEF BeginsSweep, TimedOut
  <2>2. a[1] \in Node /\ Doing.pc = "idle" /\ Doing'.pc = "sweepNode"
        /\ runStatus' = runStatus
    BY <1>0, <1>16, RowTypes DEF BeginsSweep, rows
  <2>3. runStatus # "none" BY <1>0, <2>1, <2>2 DEF RunKnows
  <2>4. RunAgrees BY <1>0, <2>2, <2>3 DEF RunKnows
  <2>5. runStatus = "running" BY <1>0, <2>1, <2>2, <2>3, <2>4, RunningNodeRuns
  <2> QED BY <1>1, <2>2, <2>5
<1>17. CASE Claims
  <2>1. PICK n \in Agent : Claim(n) BY <1>17 DEF Claims
  <2>2. /\ n \in Node /\ status[n] = "runnable" /\ runStatus' = runStatus
        /\ status' = [status EXCEPT ![n] = "running"]
    BY <1>0, <2>1, ClaimFlat
  <2>3. Doing' = Doing BY <1>17 DEF Claims, Doing
  <2>4. runStatus # "none" BY <1>0, <2>2 DEF RunKnows
  <2>5. Promotable' = Promotable BY <1>0, <2>2, PromotableSame
  <2>6. /\ status'[Sink] = "completed" <=> status[Sink] = "completed"
        /\ status'[n] = "running"
    BY <1>0, <2>2, RowTypes, TopologyAssumption
  <2>7. ~Blocked /\ ~Blocked' BY <2>2, <2>6 DEF Blocked
  <2>8. RunAgrees => RunAgrees' BY <2>2, <2>6, <2>7 DEF RunAgrees
  <2>9. Evaluated' = Evaluated BY <2>3 DEF Evaluated
  <2> QED BY <1>0, <2>2, <2>3, <2>4, <2>5, <2>6, <2>7, <2>8, <2>9 DEF RunKnows
<1>18. CASE Waits
  <2>1. /\ Doing' = Doing /\ runStatus' = runStatus /\ status' = status
        /\ \A n \in Node : work'[n] \in {0, work[n]}
    BY <1>18 DEF Waits, Doing
  <2>2. /\ Evaluated' = Evaluated /\ Promotable' = Promotable /\ Blocked' = Blocked
        /\ RunAgrees' = RunAgrees
    BY <1>4, <2>1 DEF Evaluated, RunAgrees
  <2> QED BY <1>0, <2>1, <2>2 DEF RunKnows
<1> QED BY <1>5, <1>6, <1>7, <1>8, <1>9, <1>10, <1>11, <1>12, <1>13, <1>14, <1>15, <1>16,
           <1>17, <1>18, SerialFlat DEF SerialStep

\* Of a topology in which every node leads to the sink: whenever no request
\* is in progress the attempts, the nodes and the run tell the same story.
THEOREM TablesCorrect ==
  ASSUME OneThread, MaxInterrupt = 0, SinkIsLast
  PROVE  Spec => []TablesAgree
<1>1. Init => SerialInv /\ RunKnows
  <2> SUFFICES ASSUME Init PROVE SerialInv /\ RunKnows OBVIOUS
  <2>1. SerialInv BY SerialInitial
  <2>2. Doing.pc = "idle" BY <2>1, SerialFacts, ReqFacts, LoopFacts DEF Init, Doing
  <2>3. RunKnows BY <2>2 DEF Init, RunKnows, Changing, Busy
  <2> QED BY <2>1, <2>3
<1>2. SerialInv /\ RunKnows /\ [Next]_vars => (SerialInv /\ RunKnows)'
  BY SerialKept, RunKnowsKept
<1>3. SerialInv /\ RunKnows => TablesAgree
  <2> SUFFICES ASSUME SerialInv, RunKnows, Quiet PROVE TablesAgree
    BY DEF TablesAgree
  <2>1. TypeOK /\ NodesAgree BY SerialFacts
  <2>2. Doing.pc = "idle" BY <2>1, ReqFacts DEF Quiet, At, Doing
  <2>3. \A n \in Node : Agrees(n) BY <2>1, <2>2 DEF NodesAgree, Unsettled
  <2>4. runStatus # "none" => RunAgrees BY <2>2 DEF RunKnows
  <2>5. ASSUME NEW n \in Node, attemptNo[n] > 0
        PROVE  /\ status[n] = "running" <=> attempt[<<n, attemptNo[n]>>].exec = "running"
               /\ status[n] = "completed" <=> attempt[<<n, attemptNo[n]>>].exec = "completed"
               /\ status[n] = "failed" =>
                    attempt[<<n, attemptNo[n]>>].exec \in {"failed", "timed_out"}
    BY <2>3, <2>5 DEF Agrees, Exec
  <2>6. Blocked <=> /\ {n \in Node : status[n] \in {"failed"}} # {}
                    /\ {n \in Node : status[n] \in {"runnable", "running"}} = {}
    BY DEF Blocked
  <2>7. runStatus # "none" =>
          /\ runStatus = "completed" <=> status[Sink] = "completed"
          /\ runStatus = "failed" <=>
               /\ {n \in Node : status[n] \in {"failed"}} # {}
               /\ {n \in Node : status[n] \in {"runnable", "running"}} = {}
    BY <2>4, <2>6 DEF RunAgrees
  <2> QED BY <2>5, <2>7 DEF TablesAgree
<1> QED BY <1>1, <1>2, <1>3, PTL DEF Spec

-----------------------------------------------------------------------------
(* The promise. Requests served one after the other and to their end         *)
(* implement RecoverableWorkflow. For that it must be known that authority   *)
(* is held by nobody but the newest attempt of a node (OlderEnded, with      *)
(* AuthorityEnds), whose attempt a request revokes (RevokesNewest), and how  *)
(* the run stands while a node is taken back for a retry (ReopenKnows).      *)

OlderEnded ==
  \A a \in AttemptRow : a[1] \in Agent /\ a[2] < attemptNo[a[1]] =>
    attempt[a].exec \in Ended
Unborn == \A a \in AttemptRow : ~Created(a) => attempt[a].auth # "active"
RevokesNewest ==
  Doing.pc = "revoke" => /\ Newest(Doing.cur)
                         /\ status[Doing.cur[1]] \in {"completed", "failed"}
ReopenKnows ==
  /\ Doing.pc \in {"downstream", "reset", "rerun"} =>
       \/ runStatus = "running"
       \/ /\ runStatus = "failed"
          /\ \A n \in Node : status[n] \notin {"runnable", "running"}
  /\ Doing.pc = "rerun" => status[Doing.target] = "pending"

NoneInvalidated == \A n \in Node : status[n] # "invalidated"

PromiseInv == /\ SerialInv /\ RunKnows /\ OlderEnded /\ Unborn
              /\ RevokesNewest /\ ReopenKnows /\ NoneInvalidated

LEMMA PromiseFacts ==
  ASSUME OneThread, PromiseInv
  PROVE  /\ TypeOK /\ FenceInv /\ RowsExist(Doing) /\ LoopKnows /\ ReportKnows
         /\ SweepKnows /\ RetryKnows /\ CallsSerially /\ NodesAgree /\ AuthorityEnds
         /\ DependencyOrder /\ RunKnows /\ OlderEnded /\ Unborn /\ RevokesNewest
         /\ ReopenKnows /\ NoneInvalidated /\ SerialInv
         /\ Doing.cur[1] \in Node /\ Doing.target \in Node
BY SerialFacts DEF PromiseInv

\* A node that is neither running nor failed is not being written.
LEMMA AgreesUnlessBusy ==
  ASSUME OneThread, SerialInv, NEW n \in Node, status[n] \notin {"running", "failed"}
  PROVE  Agrees(n)
<1>1. /\ LoopKnows /\ SweepKnows /\ CallsSerially /\ NodesAgree
  BY SerialFacts
<1>2. Doing.pc \in Unsettled => status[Doing.cur[1]] \in {"running", "failed"}
  BY <1>1 DEF LoopKnows, SweepKnows, CallsSerially, Unsettled, Busy
<1> QED BY <1>1, <1>2 DEF NodesAgree

\* An attempt that was inserted and does not run has ended.
LEMMA NewestEnded ==
  ASSUME OneThread, SerialInv, NEW n \in Agent, Agrees(n), status[n] # "running",
         attemptNo[n] > 0
  PROVE  /\ <<n, attemptNo[n]>> \in AttemptRow
         /\ attempt[<<n, attemptNo[n]>>].exec \in Ended
<1>1. TypeOK /\ FenceNamesAttempt /\ n \in Node
  BY SerialFacts DEF FenceInv, Agent
<1>2. attemptNo[n] \in 1..MaxAttempt /\ <<n, attemptNo[n]>> \in AttemptRow
  BY <1>1, RowTypes
<1>3. attempt[<<n, attemptNo[n]>>].exec \notin {"none", "running"}
  BY <1>1, <1>2 DEF FenceNamesAttempt, Created, Agrees, Exec
<1>4. attempt[<<n, attemptNo[n]>>].exec \in ExecStatus
  BY <1>1, <1>2, RowTypes DEF Attempt
<1> QED BY <1>2, <1>3, <1>4 DEF ExecStatus, Ended

LEMMA OlderEndedKept ==
  ASSUME OneThread, MaxInterrupt = 0, SerialInv, OlderEnded, [Next]_vars
  PROVE  OlderEnded'
<1>0. /\ TypeOK /\ FenceInv /\ RowsExist(Doing) /\ LoopKnows /\ CallsSerially
      /\ Doing.cur \in Row /\ Doing.cur[1] \in Node
  BY SerialFacts
<1>1. SUFFICES ASSUME NEW a \in AttemptRow, a[1] \in Agent, a[2] < attemptNo'[a[1]]
               PROVE  attempt'[a].exec \in Ended
  BY DEF OlderEnded
<1>2. /\ a[1] \in Node /\ a[2] \in 1..MaxAttempt /\ a = <<a[1], a[2]>>
      /\ attemptNo[a[1]] \in 0..MaxAttempt /\ MaxAttempt \in Nat
  BY <1>0, RowTypes
<1>3. a[2] < attemptNo[a[1]] => attempt[a].exec \in Ended BY <1>1 DEF OlderEnded
<1>4. ASSUME attemptNo'[a[1]] = attemptNo[a[1]], attempt'[a].exec = attempt[a].exec
      PROVE  attempt'[a].exec \in Ended
  BY <1>1, <1>3, <1>4
<1>5. CASE Numbers
  <2>1. Doing.cur[1] # a[1] BY <1>0, <1>1, <1>5 DEF Numbers, RowsExist, Agent
  <2>2. attemptNo'[a[1]] = attemptNo[a[1]] /\ attempt' = attempt
    BY <1>0, <1>2, <1>5, <2>1, RowTypes DEF Numbers
  <2> QED BY <1>4, <2>2
<1>6. CASE Records
  <2>1. Doing.cur[1] # a[1] BY <1>0, <1>1, <1>6 DEF Records, RowsExist, Agent
  <2>2. attemptNo' = attemptNo /\ attempt'[a] = attempt[a]
    BY <1>0, <1>6, <2>1, RowTypes DEF Records, OnlyAttempt
  <2> QED BY <1>4, <2>2
<1>7. CASE Computes \/ EndsAttempt \/ SweepsAttempt
  <2>1. PICK e \in Ended : Ends(Doing.cur, e)
    BY <1>7 DEF Computes, EndsAttempt, SweepsAttempt, Result, Ended
  <2>2. attemptNo' = attemptNo /\ attempt'[a].exec \in {attempt[a].exec, e}
    BY <1>0, <2>1, RowTypes DEF Ends, OnlyAttempt
  <2> QED BY <1>1, <1>3, <2>1, <2>2
<1>8. CASE Frees
  <2>1. attemptNo' = attemptNo /\ attempt'[a].exec = attempt[a].exec
    BY <1>0, <1>8, RowTypes DEF Frees, OnlyAttempt
  <2> QED BY <1>4, <2>1
<1>9. CASE Claims
  <2>1. PICK m \in Agent : Claim(m) BY <1>9 DEF Claims
  <2>2. /\ m \in Node /\ attemptNo[m] + 1 \in 1..MaxAttempt /\ status[m] = "runnable"
        /\ attemptNo' = [attemptNo EXCEPT ![m] = attemptNo[m] + 1]
        /\ attempt' = [attempt EXCEPT ![<<m, attemptNo[m] + 1>>] =
                         [exec |-> "running", auth |-> "active"]]
    BY <1>0, <2>1, ClaimFlat
  <2>3. CASE a[1] = m
    <3>1. a[2] <= attemptNo[m] BY <1>0, <1>1, <1>2, <2>2, <2>3, RowTypes
    <3>2. attempt'[a] = attempt[a] BY <1>0, <1>2, <2>2, <3>1, RowTypes
    <3>3. a[2] = attemptNo[m] => attempt[a].exec \in Ended
      BY <1>1, <1>2, <2>2, <2>3, AgreesUnlessBusy, NewestEnded
    <3> QED BY <1>2, <1>3, <2>3, <3>1, <3>2, <3>3
  <2>4. CASE a[1] # m
    <3>1. attemptNo'[a[1]] = attemptNo[a[1]] /\ attempt'[a] = attempt[a]
      BY <1>0, <1>2, <2>2, <2>4, RowTypes
    <3> QED BY <1>4, <3>1
  <2> QED BY <2>3, <2>4
<1>10. CASE Waits BY <1>4, <1>10 DEF Waits
<1>11. CASE \/ Scans \/ Promotes \/ StartsNode \/ Settles \/ Closes \/ Stamps \/ Checks
            \/ EndsNode \/ SelectsNone \/ Resets \/ SweepsNode \/ Begins \/ Retries
            \/ BeginsSweep \/ Reports
  <2>1. UNCHANGED <<attemptNo, attempt>>
    BY <1>11 DEF Scans, Promotes, StartsNode, Settles, Closes, Stamps, Checks, EndsNode,
       SelectsNone, Resets, SweepsNode, Begins, Retries, BeginsSweep, Reports, OnlyStatus,
       rows
  <2> QED BY <1>4, <2>1
<1> QED BY <1>5, <1>6, <1>7, <1>8, <1>9, <1>10, <1>11, SerialFlat DEF SerialStep

LEMMA UnbornKept ==
  ASSUME OneThread, MaxInterrupt = 0, SerialInv, Unborn, [Next]_vars
  PROVE  Unborn'
<1>0. TypeOK /\ FenceInv BY SerialFacts
<1>1. SUFFICES ASSUME NEW a \in AttemptRow, attempt'[a].exec = "none"
               PROVE  attempt'[a].auth # "active"
  BY DEF Unborn, Created
<1>2. attempt[a].exec = "none" => attempt[a].auth # "active" BY DEF Unborn, Created
<1>3. CASE Records
  BY <1>0, <1>1, <1>2, <1>3, RowTypes DEF Records, OnlyAttempt
<1>4. CASE Computes \/ EndsAttempt \/ SweepsAttempt
  <2>1. PICK e \in Ended : Ends(Doing.cur, e)
    BY <1>4 DEF Computes, EndsAttempt, SweepsAttempt, Result, Ended
  <2> QED BY <1>0, <1>1, <1>2, <2>1, RowTypes DEF Ends, OnlyAttempt, Ended
<1>5. CASE Frees
  BY <1>0, <1>1, <1>2, <1>5, RowTypes DEF Frees, OnlyAttempt
<1>6. CASE Claims
  <2>1. PICK m \in Agent : Claim(m) BY <1>6 DEF Claims
  <2>2. attempt' = [attempt EXCEPT ![<<m, attemptNo[m] + 1>>] =
                      [exec |-> "running", auth |-> "active"]]
    BY <1>0, <2>1, ClaimFlat
  <2>3. attempt'[a] = attempt[a] BY <1>0, <1>1, <2>2, RowTypes
  <2> QED BY <1>1, <1>2, <2>3
<1>7. CASE \/ Scans \/ Promotes \/ StartsNode \/ Settles \/ Closes \/ Stamps \/ Checks
           \/ EndsNode \/ SelectsNone \/ Resets \/ SweepsNode \/ Begins \/ Retries
           \/ BeginsSweep \/ Reports \/ Numbers \/ Waits
  <2>1. attempt' = attempt
    BY <1>7 DEF Scans, Promotes, StartsNode, Settles, Closes, Stamps, Checks, EndsNode,
       SelectsNone, Resets, SweepsNode, Begins, Retries, BeginsSweep, Reports, OnlyStatus,
       Numbers, Waits, rows
  <2> QED BY <1>1, <1>2, <2>1
<1> QED BY <1>3, <1>4, <1>5, <1>6, <1>7, SerialFlat DEF SerialStep

LEMMA RevokesNewestKept ==
  ASSUME OneThread, MaxInterrupt = 0, SerialInv, RevokesNewest, [Next]_vars
  PROVE  RevokesNewest'
<1>0. /\ TypeOK /\ FenceInv /\ SweepKnows /\ CallsSerially /\ Doing.cur[1] \in Node
  BY SerialFacts
<1>1. SUFFICES ASSUME Doing'.pc = "revoke"
               PROVE  /\ attemptNo'[Doing'.cur[1]] = Doing'.cur[2]
                      /\ status'[Doing'.cur[1]] \in {"completed", "failed"}
  BY DEF RevokesNewest, Newest
<1>2. CASE EndsNode
  <2>1. /\ Newest(Doing.cur) /\ Doing'.cur = Doing.cur /\ attemptNo' = attemptNo
        /\ status' = [status EXCEPT ![Doing.cur[1]] = Result(Doing.op)]
    BY <1>0, <1>2 DEF EndsNode, Revoking, OnlyStatus, CallsSerially
  <2> QED BY <1>0, <2>1, RowTypes DEF Newest, Result
<1>3. CASE SweepsAttempt
  BY <1>0, <1>3 DEF SweepsAttempt, Revoking, Ends, OnlyAttempt, SweepKnows, Newest
<1>4. CASE Claims
  <2>1. PICK m \in Agent : Claim(m) BY <1>4 DEF Claims
  <2>2. /\ m \in Node /\ status[m] = "runnable"
        /\ status' = [status EXCEPT ![m] = "running"]
        /\ attemptNo' = [attemptNo EXCEPT ![m] = attemptNo[m] + 1]
    BY <1>0, <2>1, ClaimFlat
  <2>3. Doing' = Doing BY <1>4 DEF Claims, Doing
  <2>4. /\ Newest(Doing.cur) /\ status[Doing.cur[1]] \in {"completed", "failed"}
    BY <1>1, <2>3 DEF RevokesNewest
  <2>5. Doing.cur[1] # m BY <2>2, <2>4
  <2> QED BY <1>0, <2>2, <2>3, <2>4, <2>5, RowTypes DEF Newest
<1>5. CASE Waits
  BY <1>1, <1>5 DEF Waits, Doing, RevokesNewest, Newest
<1>6. CASE \/ Scans \/ Promotes \/ StartsNode \/ Settles \/ Closes \/ Stamps \/ Checks
           \/ SelectsNone \/ Resets \/ SweepsNode \/ Begins \/ Retries \/ EndsAttempt
           \/ BeginsSweep \/ Reports \/ Numbers \/ Records \/ Computes \/ Frees
  <2>1. Doing'.pc # "revoke"
    BY <1>0, <1>6, LoopFacts
       DEF Scans, Promotes, StartsNode, Settles, Closes, Stamps, Checks, SelectsNone,
       Resets, SweepsNode, Begins, Retries, EndsAttempt, BeginsSweep, Reports, Numbers,
       Records, Computes, Frees, Looping, Going
  <2> QED BY <1>1, <2>1
<1> QED BY <1>2, <1>3, <1>4, <1>5, <1>6, SerialFlat DEF SerialStep

LEMMA ReopenKnowsKept ==
  ASSUME OneThread, MaxInterrupt = 0, SinkIsLast, SerialInv, RunKnows, ReopenKnows,
         [Next]_vars
  PROVE  ReopenKnows'
<1>0. /\ TypeOK /\ FenceInv /\ RetryKnows /\ RetryKnows' /\ DependencyOrder
      /\ Doing.target \in Node
  BY SerialFacts, EvidenceStep DEF SerialInv, EvidenceInv, RequestKnows
<1>1. CASE Retries
  <2>1. PICK n \in Node : status[n] = "failed" BY <1>1 DEF Retries
  <2>2. /\ Doing.pc = "idle" /\ runStatus # "none" /\ Doing'.pc = "downstream"
        /\ UNCHANGED <<runStatus, status>>
    BY <1>1 DEF Retries, rows
  <2>3. RunAgrees BY <2>2 DEF RunKnows
  <2>4. runStatus # "completed" BY <1>0, <2>1, <2>3, AllCompleted DEF RunAgrees
  <2>5. runStatus = "failed" => \A m \in Node : status[m] \notin {"runnable", "running"}
    BY <2>3 DEF RunAgrees, Blocked
  <2>6. runStatus \in {"running", "failed"} BY <1>0, <2>2, <2>4 DEF TypeOK, RunStatus
  <2> QED BY <2>2, <2>5, <2>6 DEF ReopenKnows
<1>2. CASE SelectsNone
  BY <1>2 DEF SelectsNone, ReopenKnows, rows
<1>3. CASE Resets
  <2>1. /\ Doing.pc = "reset" /\ Doing'.pc = "rerun" /\ Doing'.target = Doing.target
        /\ status' = [status EXCEPT ![Doing.target] = "pending"] /\ runStatus' = runStatus
    BY <1>3 DEF Resets, Going, OnlyStatus
  <2>2. status'[Doing.target] = "pending" BY <1>0, <2>1, RowTypes
  <2>3. \A n \in Node : status'[n] \in {status[n], "pending"} BY <1>0, <2>1, RowTypes
  <2> QED BY <2>1, <2>2, <2>3 DEF ReopenKnows
<1>4. CASE Claims
  <2>1. PICK m \in Agent : Claim(m) BY <1>4 DEF Claims
  <2>2. /\ m \in Node /\ status[m] = "runnable" /\ runStatus' = runStatus
        /\ status' = [status EXCEPT ![m] = "running"]
    BY <1>0, <2>1, ClaimFlat
  <2>3. Doing' = Doing BY <1>4 DEF Claims, Doing
  <2>4. status[Doing.target] = "pending" => status'[Doing.target] = "pending"
    BY <1>0, <2>2, RowTypes
  <2> QED BY <2>2, <2>3, <2>4 DEF ReopenKnows
<1>5. CASE Waits
  BY <1>5 DEF Waits, Doing, ReopenKnows
<1>6. CASE \/ Scans \/ Promotes \/ StartsNode \/ Settles \/ Closes \/ Stamps \/ Checks
           \/ EndsNode \/ SweepsAttempt \/ SweepsNode \/ Begins \/ EndsAttempt
           \/ BeginsSweep \/ Reports \/ Numbers \/ Records \/ Computes \/ Frees
  <2>1. Doing'.pc \notin {"downstream", "reset", "rerun"}
    BY <1>0, <1>6, LoopFacts
       DEF Scans, Promotes, StartsNode, Settles, Closes, Stamps, Checks, EndsNode,
       SweepsAttempt, SweepsNode, Begins, EndsAttempt, BeginsSweep, Reports, Numbers,
       Records, Computes, Frees, Looping, Going, Revoking
  <2> QED BY <2>1 DEF ReopenKnows
<1> QED BY <1>1, <1>2, <1>3, <1>4, <1>5, <1>6, SerialFlat DEF SerialStep

LEMMA NoneInvalidatedKept ==
  ASSUME OneThread, MaxInterrupt = 0, SerialInv, NoneInvalidated, [Next]_vars
  PROVE  NoneInvalidated'
<1>0. TypeOK /\ FenceInv BY SerialFacts
<1>1. ASSUME NEW u, NEW s, OnlyStatus(u, s), s # "invalidated"
      PROVE  NoneInvalidated'
  BY <1>0, <1>1, RowTypes DEF OnlyStatus, NoneInvalidated
<1>2. CASE Promotes BY <1>1, <1>2 DEF Promotes
<1>3. CASE Settles \/ EndsNode BY <1>1, <1>3 DEF Settles, EndsNode, Result
<1>4. CASE SweepsNode BY <1>1, <1>4 DEF SweepsNode
<1>5. CASE Resets BY <1>1, <1>5 DEF Resets
<1>6. CASE StartsNode
  BY <1>1, <1>6 DEF StartsNode, rows, NoneInvalidated
<1>7. CASE Claims
  <2>1. PICK m \in Agent : Claim(m) BY <1>7 DEF Claims
  <2>2. status' = [status EXCEPT ![m] = "running"] BY <1>0, <2>1, ClaimFlat
  <2> QED BY <1>0, <2>2, RowTypes DEF NoneInvalidated
<1>8. CASE \/ Scans \/ Closes \/ Stamps \/ Checks \/ SelectsNone \/ Begins \/ Retries
           \/ BeginsSweep \/ Reports \/ Numbers \/ Waits \/ Records \/ Computes
           \/ EndsAttempt \/ SweepsAttempt \/ Frees
  <2>1. status' = status
    BY <1>8 DEF Scans, Closes, Stamps, Checks, SelectsNone, Begins, Retries, BeginsSweep,
       Reports, Numbers, Waits, Records, Computes, EndsAttempt, SweepsAttempt, Frees,
       Ends, OnlyAttempt, rows
  <2> QED BY <2>1 DEF NoneInvalidated
<1> QED BY <1>2, <1>3, <1>4, <1>5, <1>6, <1>7, <1>8, SerialFlat DEF SerialStep

LEMMA PromiseInvKept ==
  ASSUME OneThread, MaxInterrupt = 0, SinkIsLast, PromiseInv, [Next]_vars
  PROVE  PromiseInv'
BY SerialKept, RunKnowsKept, OlderEndedKept, UnbornKept, RevokesNewestKept,
   ReopenKnowsKept, NoneInvalidatedKept DEF PromiseInv

-----------------------------------------------------------------------------
(* How the rows show in the promise.                                         *)

\* Authority is held in the name of a node by its newest attempt or by none.
LEMMA OlderRevoked ==
  ASSUME OneThread, PromiseInv, NEW a \in AttemptRow, a[1] \in Agent,
         a[2] < attemptNo[a[1]]
  PROVE  attempt[a].auth = "revoked"
<1>1. attempt[a].exec \in Ended BY PromiseFacts DEF OlderEnded
<1>2. TypeOK /\ attemptNo[a[1]] \in Nat /\ a[2] \in Nat
  BY PromiseFacts, RowTypes DEF Agent
<1>3. ~Newest(a) BY <1>2 DEF Newest
<1>4. Doing.pc \in {"endNode", "revoke"} => Newest(Doing.cur)
  BY PromiseFacts DEF CallsSerially, RevokesNewest
<1> QED BY <1>1, <1>3, <1>4, PromiseFacts DEF AuthorityEnds

LEMMA NotArmed ==
  ASSUME OneThread, PromiseInv, NEW n \in Agent,
         attemptNo[n] > 0 => attempt[<<n, attemptNo[n]>>].auth # "active"
  PROVE  n \notin Armed
<1>0. TypeOK /\ FenceNamesAttempt /\ Unborn /\ n \in Node
  BY PromiseFacts DEF FenceInv, Agent
<1>1. SUFFICES ASSUME NEW k \in 1..MaxAttempt, attempt[<<n, k>>].auth = "active"
               PROVE  FALSE
  BY DEF Armed
<1>2. <<n, k>> \in AttemptRow /\ attemptNo[n] \in 0..MaxAttempt
  BY <1>0, RowTypes
<1>3. k <= attemptNo[n] BY <1>0, <1>1, <1>2 DEF Unborn, FenceNamesAttempt
<1>4. k # attemptNo[n] BY <1>1, <1>2
<1>5. k < attemptNo[n] BY <1>2, <1>3, <1>4
<1>6. attempt[<<n, k>>].auth = "revoked" BY <1>2, <1>5, OlderRevoked
<1> QED BY <1>1, <1>6

LEMMA SettledIsDisarmed ==
  ASSUME OneThread, PromiseInv, NEW m \in Node, Settled(m)
  PROVE  State[m] = "done" /\ m \notin Armed
<1>1. m \in Agent => m \notin Armed
  BY NotArmed DEF Settled
<1> QED BY <1>1 DEF Settled, State, StateOf, Armed

\* A node that waits, or failed while its request is past the revocation.
LEMMA StoppedIsDisarmed ==
  ASSUME OneThread, PromiseInv, NEW n \in Agent, Agrees(n), status[n] # "running",
         Doing.pc \in {"endNode", "revoke"} => Doing.cur[1] # n
  PROVE  n \notin Armed
<1>1. SUFFICES ASSUME attemptNo[n] > 0
               PROVE  attempt[<<n, attemptNo[n]>>].auth # "active"
  BY NotArmed
<1>2. /\ <<n, attemptNo[n]>> \in AttemptRow
      /\ attempt[<<n, attemptNo[n]>>].exec \in Ended
  BY <1>1, PromiseFacts, NewestEnded
<1> QED BY <1>2, PromiseFacts DEF AuthorityEnds

LEMMA StateSame ==
  ASSUME TypeOK, NEW u \in Node, NEW s \in NodeStatus,
         status' = [status EXCEPT ![u] = s]
  PROVE  State' = [State EXCEPT ![u] = StateOf(s)]
<1>1. \A n \in Node : status'[n] = IF n = u THEN s ELSE status[n] BY RowTypes
<1>2. State' = [n \in Node |-> StateOf(status'[n])] BY DEF State, StateOf
<1>3. \A n \in Node : StateOf(status'[n]) = IF n = u THEN StateOf(s) ELSE StateOf(status[n])
  BY <1>1
<1>4. State' = [n \in Node |-> IF n = u THEN StateOf(s) ELSE StateOf(status[n])]
  BY <1>2, <1>3
<1>5. [State EXCEPT ![u] = StateOf(s)]
        = [n \in Node |-> IF n = u THEN StateOf(s) ELSE StateOf(status[n])]
  BY DEF State
<1> QED BY <1>4, <1>5

LEMMA ArmedSame ==
  ASSUME TypeOK, \A a \in AttemptRow : a[1] \in Agent => attempt'[a].auth = attempt[a].auth
  PROVE  Armed' = Armed
<1>1. \A n \in Agent, k \in 1..MaxAttempt : attempt'[<<n, k>>].auth = attempt[<<n, k>>].auth
  BY RowTypes DEF Agent
<1> QED BY <1>1 DEF Armed

\* A node that changes within waiting leaves the states as they are.
LEMMA StateWaits ==
  ASSUME TypeOK, NEW u \in Node, NEW s \in NodeStatus,
         status' = [status EXCEPT ![u] = s], StateOf(s) = StateOf(status[u])
  PROVE  State' = State
<1>1. State' = [State EXCEPT ![u] = StateOf(s)] BY StateSame
<1>2. State[u] = StateOf(s) /\ State = [n \in Node |-> State[n]] BY DEF State
<1> QED BY <1>1, <1>2

Stutters == UNCHANGED Promise!workflowVars

LEMMA StatementsStutter ==
  ASSUME OneThread, PromiseInv,
         \/ Scans \/ Promotes \/ Numbers \/ Records \/ Computes \/ Closes \/ Checks
         \/ EndsAttempt \/ SelectsNone \/ SweepsAttempt \/ Retries \/ BeginsSweep
         \/ Reports \/ Waits
  PROVE  Stutters
<1>0. TypeOK /\ RowsExist(Doing) /\ LoopKnows /\ Doing.cur[1] \in Node
  BY PromiseFacts
<1>1. ASSUME UNCHANGED <<runStatus, status, attempt>> PROVE Stutters
  BY <1>1 DEF Stutters, Promise!workflowVars, State, StateOf, Armed
<1>2. ASSUME UNCHANGED <<runStatus, status>>,
             \A a \in AttemptRow : a[1] \in Agent => attempt'[a].auth = attempt[a].auth
      PROVE  Stutters
  <2>1. Armed' = Armed BY <1>0, <1>2, ArmedSame
  <2>2. State' = State BY <1>2 DEF State, StateOf
  <2> QED BY <1>2, <2>1, <2>2 DEF Stutters, Promise!workflowVars
<1>3. CASE Promotes
  <2>1. PICK r \in Doing.todo : r[1] \in Node /\ OnlyStatus(r[1], "runnable")
    BY <1>3 DEF Promotes
  <2>2. status[r[1]] = "pending" BY <1>0, <1>3, <2>1 DEF Promotes, LoopKnows, Promotable
  <2>3. State' = State BY <1>0, <2>1, <2>2, StateWaits DEF OnlyStatus, StateOf, NodeStatus
  <2>4. Armed' = Armed BY <2>1 DEF OnlyStatus, Armed
  <2> QED BY <2>1, <2>3, <2>4 DEF Stutters, Promise!workflowVars, OnlyStatus
<1>4. CASE Records
  <2>1. Doing.cur[1] \notin Agent BY <1>0, <1>4 DEF Records, RowsExist, Agent
  <2>2. \A a \in AttemptRow : a[1] \in Agent => attempt'[a].auth = attempt[a].auth
    BY <1>0, <1>4, <2>1, RowTypes DEF Records, OnlyAttempt
  <2> QED BY <1>2, <1>4, <2>2 DEF Records, OnlyAttempt
<1>5. CASE Computes \/ EndsAttempt \/ SweepsAttempt
  <2>1. PICK e \in Ended : Ends(Doing.cur, e)
    BY <1>5 DEF Computes, EndsAttempt, SweepsAttempt, Result, Ended
  <2>2. \A a \in AttemptRow : attempt'[a].auth = attempt[a].auth
    BY <1>0, <2>1, RowTypes DEF Ends, OnlyAttempt
  <2> QED BY <1>2, <2>1, <2>2 DEF Ends, OnlyAttempt
<1>6. CASE Numbers BY <1>1, <1>6 DEF Numbers
<1>7. CASE Waits BY <1>1, <1>7 DEF Waits
<1>8. CASE \/ Scans \/ Closes \/ Checks \/ SelectsNone \/ Retries \/ BeginsSweep \/ Reports
  BY <1>1, <1>8 DEF Scans, Closes, Checks, SelectsNone, Retries, BeginsSweep, Reports, rows
<1> QED BY <1>3, <1>4, <1>5, <1>6, <1>7, <1>8

\* A node begins when it is runnable in a running run.
LEMMA BeginsOnSettled ==
  ASSUME OneThread, PromiseInv, NEW n \in Node, status[n] = "runnable",
         runStatus = "running", n \in Agent => n \notin Armed,
         status' = [status EXCEPT ![n] = "running"], runStatus' = runStatus,
         Armed' = Armed \cup ({n} \cap Agent)
  PROVE  Promise!Begin(n)
<1>0. TypeOK /\ DependencyOrder BY PromiseFacts
<1>1. \A m \in Upstream(n) : State[m] = "done" /\ m \notin Armed
  BY <1>0, OrderIsSettled, SettledIsDisarmed DEF Started, Upstream
<1>2. Promise!Needs(n) = Upstream(n) BY DEF Promise!Needs, Upstream
<1>3. State[n] = "waiting" BY DEF State, StateOf
<1>4. State' = [State EXCEPT ![n] = "working"]
  BY <1>0, StateSame DEF StateOf, NodeStatus
<1>5. n \notin Armed BY DEF Armed
<1> QED BY <1>1, <1>2, <1>3, <1>4, <1>5 DEF Promise!Begin, Promise!Ready

LEMMA StartBegins ==
  ASSUME OneThread, PromiseInv, StartsNode
  PROVE  Stutters \/ \E n \in Node : Promise!Begin(n)
<1>0. TypeOK /\ RowsExist(Doing) /\ RunKnows /\ Doing.cur[1] \in Node
  BY PromiseFacts
<1>1. CASE UNCHANGED <<rows, workers>>
  BY <1>1 DEF rows, Stutters, Promise!workflowVars, State, StateOf, Armed
<1>2. CASE ~UNCHANGED <<rows, workers>>
  <2>1. /\ status[Doing.cur[1]] = "runnable" /\ OnlyStatus(Doing.cur[1], "running")
        /\ Doing.pc = "exec"
    BY <1>2 DEF StartsNode
  <2>2. Doing.cur[1] \notin Agent BY <1>0, <2>1 DEF RowsExist, Agent
  <2>3. runStatus = "running" BY <1>0, <2>1 DEF RunKnows, Changing
  <2>4. Armed' = Armed \cup ({Doing.cur[1]} \cap Agent)
    BY <2>1, <2>2 DEF OnlyStatus, Armed
  <2>5. Promise!Begin(Doing.cur[1])
    BY <1>0, <2>1, <2>2, <2>3, <2>4, BeginsOnSettled DEF OnlyStatus
  <2> QED BY <1>0, <2>5
<1> QED BY <1>1, <1>2

LEMMA ClaimBegins ==
  ASSUME OneThread, SinkIsLast, PromiseInv, Claims
  PROVE  \E n \in Node : Promise!Begin(n)
<1>0. /\ TypeOK /\ FenceInv /\ RunKnows /\ ReopenKnows /\ DependencyOrder /\ SerialInv
      /\ CallsSerially /\ RevokesNewest /\ Doing.pc \in PC
  BY PromiseFacts, ReqFacts
<1>1. PICK n \in Agent : Claim(n) BY DEF Claims
<1>2. /\ n \in Node /\ attemptNo[n] + 1 \in 1..MaxAttempt /\ status[n] = "runnable"
      /\ status' = [status EXCEPT ![n] = "running"]
      /\ attempt' = [attempt EXCEPT ![<<n, attemptNo[n] + 1>>] =
                       [exec |-> "running", auth |-> "active"]]
      /\ runStatus' = runStatus
  BY <1>0, <1>1, ClaimFlat
<1>3. n \notin Armed
  <2>1. Agrees(n) BY <1>0, <1>2, AgreesUnlessBusy
  <2>2. Doing.pc \in {"endNode", "revoke"} => Doing.cur[1] # n
    BY <1>0, <1>2 DEF CallsSerially, RevokesNewest
  <2> QED BY <1>2, <2>1, <2>2, StoppedIsDisarmed
<1>4. runStatus = "running"
  <2>1. runStatus # "none" BY <1>0, <1>2 DEF RunKnows
  <2>2. ASSUME RunAgrees PROVE runStatus = "running"
    BY <1>0, <1>2, <2>1, <2>2, RunningNodeRuns
  <2>3. CASE Doing.pc \in Changing BY <1>0, <2>3 DEF RunKnows
  <2>4. CASE Doing.pc \in {"downstream", "reset", "rerun"}
    BY <1>0, <1>2, <2>4 DEF ReopenKnows
  <2>5. CASE Doing.pc \in {"idle", "check", "scan", "closing", "stamp"}
    BY <1>0, <2>1, <2>2, <2>5 DEF RunKnows
  <2>6. Doing.pc \notin {"invalidate", "actives"} BY <1>0 DEF CallsSerially
  <2> QED BY <1>0, <2>3, <2>4, <2>5, <2>6 DEF PC, Changing, Busy
<1>5. Armed' = Armed \cup ({n} \cap Agent)
  <2>1. ASSUME NEW m \in Agent, NEW k \in 1..MaxAttempt
        PROVE  attempt'[<<m, k>>].auth = "active" <=>
                 \/ attempt[<<m, k>>].auth = "active"
                 \/ m = n /\ k = attemptNo[n] + 1
    BY <1>0, <1>2, <2>1, RowTypes DEF Agent
  <2> QED BY <1>2, <2>1 DEF Armed
<1> QED BY <1>2, <1>3, <1>4, <1>5, BeginsOnSettled

LEMMA EndFinishes ==
  ASSUME OneThread, PromiseInv, Settles \/ EndsNode \/ SweepsNode
  PROVE  \E n \in Node : Promise!Finish(n)
<1>0. /\ TypeOK /\ LoopKnows /\ SweepKnows /\ RowsExist(Doing) /\ RunKnows
      /\ CallsSerially /\ Doing.cur[1] \in Node
  BY PromiseFacts
<1>1. PICK n \in Node, s \in {"completed", "failed"} :
        status[n] = "running" /\ OnlyStatus(n, s)
  <2>1. CASE Settles
    BY <1>0, <2>1 DEF Settles, LoopKnows, Busy, Result
  <2>2. CASE EndsNode
    BY <1>0, <2>2 DEF EndsNode, CallsSerially, Result
  <2>3. CASE SweepsNode
    <3>1. PICK a \in Doing.todo : a[1] \in Node /\ OnlyStatus(a[1], "failed")
      BY <2>3 DEF SweepsNode
    <3>2. status[a[1]] = "running" BY <1>0, <2>3, <3>1 DEF SweepsNode, RowsExist, SweepKnows
    <3> QED BY <3>1, <3>2
  <2> QED BY <2>1, <2>2, <2>3
<1>2. runStatus = "running"
  BY <1>0 DEF RunKnows, Changing, Busy, Settles, EndsNode, SweepsNode
<1>3. State[n] = "working" BY <1>1 DEF State, StateOf
<1>4. State' = [State EXCEPT ![n] = StateOf(s)]
  <2>1. s \in NodeStatus BY DEF NodeStatus
  <2>2. status' = [status EXCEPT ![n] = s] BY <1>1 DEF OnlyStatus
  <2> QED BY <1>0, <2>1, <2>2, StateSame
<1>5. StateOf(s) \in {"done", "failed"} BY <1>1 DEF StateOf
<1>6. Armed' = Armed /\ runStatus' = runStatus BY <1>1 DEF OnlyStatus, Armed
<1>7. Promise!Finish(n) BY <1>2, <1>3, <1>4, <1>5, <1>6 DEF Promise!Finish
<1> QED BY <1>7

LEMMA RevocationDisarms ==
  ASSUME OneThread, PromiseInv, Frees
  PROVE  Stutters \/ \E n \in Node : Promise!Disarm(n)
<1> DEFINE a == Doing.cur
           n == Doing.cur[1]
<1>0. /\ TypeOK /\ RevokesNewest /\ n \in Node
  BY PromiseFacts
<1>1. /\ a \in AttemptRow /\ Newest(a) /\ status[n] \in {"completed", "failed"}
      /\ attempt' = [attempt EXCEPT ![a] = [exec |-> attempt[a].exec, auth |-> "revoked"]]
      /\ UNCHANGED <<runStatus, status>>
  BY <1>0 DEF Frees, OnlyAttempt, RevokesNewest
<1>2. State' = State BY <1>1 DEF State, StateOf
<1>3. \A m \in Agent, k \in 1..MaxAttempt :
        attempt'[<<m, k>>].auth = "active" <=>
          attempt[<<m, k>>].auth = "active" /\ <<m, k>> # a
  BY <1>0, <1>1, RowTypes DEF Agent
<1>4. CASE attempt[a].auth = "active" /\ n \in Agent
  <2>1. a[2] \in 1..MaxAttempt /\ a = <<n, a[2]>> BY <1>0, <1>1, RowTypes
  <2>2. n \in Armed BY <1>4, <2>1 DEF Armed
  <2>3. \A k \in 1..MaxAttempt : <<n, k>> # a => attempt[<<n, k>>].auth # "active"
    <3>1. SUFFICES ASSUME NEW k \in 1..MaxAttempt, <<n, k>> # a,
                          attempt[<<n, k>>].auth = "active"
                   PROVE  FALSE
      OBVIOUS
    <3>2. <<n, k>> \in AttemptRow /\ attemptNo[n] = a[2] /\ k # a[2]
      BY <1>0, <1>1, <2>1, <3>1, RowTypes DEF Newest
    <3>3. FenceNamesAttempt /\ Unborn BY PromiseFacts DEF FenceInv
    <3>4. k <= attemptNo[n] BY <1>4, <3>1, <3>2, <3>3 DEF FenceNamesAttempt, Unborn
    <3>5. k < attemptNo[n] BY <2>1, <3>2, <3>4
    <3> QED BY <1>4, <3>1, <3>2, <3>5, OlderRevoked
  <2>4. Armed' = Armed \ {n}
    <3>1. \A m \in Agent : m # n => \A k \in 1..MaxAttempt : <<m, k>> # a BY <2>1
    <3>2. n \notin Armed' BY <1>3, <2>3 DEF Armed
    <3>3. \A m \in Agent \ {n} : m \in Armed' <=> m \in Armed
      BY <1>3, <3>1 DEF Armed
    <3> QED BY <3>2, <3>3 DEF Armed
  <2>5. State[n] \in {"done", "failed"} BY <1>0, <1>1 DEF State, StateOf
  <2>6. Promise!Disarm(n) BY <1>1, <1>2, <2>2, <2>4, <2>5 DEF Promise!Disarm
  <2> QED BY <1>0, <2>6
<1>5. CASE ~(attempt[a].auth = "active" /\ n \in Agent)
  <2>1. \A m \in Agent, k \in 1..MaxAttempt :
          attempt'[<<m, k>>].auth = "active" <=> attempt[<<m, k>>].auth = "active"
    <3>1. ASSUME NEW m \in Agent, NEW k \in 1..MaxAttempt, <<m, k>> = a
          PROVE  attempt[a].auth # "active"
      <4>1. m = a[1] BY <3>1
      <4> QED BY <1>5, <3>1, <4>1
    <3> QED BY <1>3, <3>1
  <2>2. Armed' = Armed BY <2>1 DEF Armed
  <2> QED BY <1>1, <1>2, <2>2 DEF Stutters, Promise!workflowVars
<1> QED BY <1>4, <1>5

LEMMA ResetRetries ==
  ASSUME OneThread, PromiseInv, Resets
  PROVE  \E n \in Node : Promise!Retry(n)
<1> DEFINE n == Doing.target
<1>0. /\ TypeOK /\ RetryKnows /\ ReopenKnows /\ NodesAgree /\ n \in Node
  BY PromiseFacts
<1>1. /\ Doing.pc = "reset" /\ runStatus' = runStatus /\ attempt' = attempt
      /\ status' = [status EXCEPT ![n] = "pending"]
  BY DEF Resets, OnlyStatus
<1>2. status[n] = "failed" BY <1>0, <1>1 DEF RetryKnows
<1>3. n \notin Armed
  <2>1. Agrees(n) BY <1>0, <1>1 DEF NodesAgree, Unsettled
  <2>2. CASE n \in Agent BY <1>1, <1>2, <2>1, <2>2, StoppedIsDisarmed
  <2>3. CASE n \notin Agent BY <2>3 DEF Armed
  <2> QED BY <2>2, <2>3
<1>4. runStatus \in {"running", "failed"} BY <1>0, <1>1 DEF ReopenKnows
<1>5. State' = [State EXCEPT ![n] = "waiting"]
  BY <1>0, <1>1, StateSame DEF StateOf, NodeStatus
<1>6. State[n] = "failed" /\ Armed' = Armed
  BY <1>0, <1>1, <1>2 DEF State, StateOf, Armed
<1>7. Promise!Retry(n) BY <1>1, <1>3, <1>4, <1>5, <1>6 DEF Promise!Retry
<1> QED BY <1>0, <1>7

LEMMA EvaluationOpens ==
  ASSUME OneThread, PromiseInv, Begins
  PROVE  Stutters \/ Promise!Open \/ Promise!Reopen
<1>0. TypeOK /\ ReopenKnows /\ Doing.target \in Node BY PromiseFacts
<1>1. UNCHANGED <<State, Armed>> BY DEF Begins, State, StateOf, Armed
<1>2. CASE runStatus' = runStatus
  BY <1>1, <1>2 DEF Stutters, Promise!workflowVars
<1>3. CASE runStatus = "none" /\ runStatus' = "running"
  BY <1>1, <1>3 DEF Promise!Open
<1>4. CASE Doing.pc = "rerun" /\ runStatus' = "running" /\ runStatus' # runStatus
  <2>1. runStatus = "failed" /\ status[Doing.target] = "pending"
    BY <1>0, <1>4 DEF ReopenKnows
  <2>2. State[Doing.target] = "waiting" BY <1>0, <2>1 DEF State, StateOf
  <2> QED BY <1>0, <1>1, <1>4, <2>1, <2>2 DEF Promise!Reopen
<1> QED BY <1>2, <1>3, <1>4 DEF Begins

\* Where nothing runs or is runnable and nothing can be promoted, no node is
\* ready: what is left waits for one that failed.
LEMMA VerdictCloses ==
  ASSUME OneThread, SinkIsLast, PromiseInv, Stamps
  PROVE  Stutters \/ Promise!Succeed \/ Promise!GiveUp
<1>0. TypeOK /\ RunKnows /\ DependencyOrder /\ NoneInvalidated BY PromiseFacts
<1>1. UNCHANGED <<State, Armed>> BY DEF Stamps, State, StateOf, Armed
<1>2. /\ Doing.pc = "stamp"
      /\ runStatus # "none" /\ Promotable = {}
      /\ runStatus = "running" \/ RunAgrees
      /\ IF Doing.op = "complete" THEN status[Sink] = "completed"
                                  ELSE status[Sink] # "completed" /\ Blocked
  BY <1>0 DEF Stamps, RunKnows, Evaluated
<1>3. CASE runStatus' = runStatus
  BY <1>1, <1>3 DEF Stutters, Promise!workflowVars
<1>4. CASE runStatus' # runStatus /\ Doing.op = "complete"
  <2>1. status[Sink] = "completed" /\ runStatus' = "completed"
    BY <1>2, <1>4 DEF Stamps
  <2>2. runStatus = "running" BY <1>2, <1>4, <2>1 DEF RunAgrees
  <2>3. \A n \in Node : State[n] = "done"
    BY <1>0, <2>1, AllCompleted DEF State, StateOf
  <2> QED BY <1>1, <2>1, <2>2, <2>3 DEF Promise!Succeed
<1>5. CASE runStatus' # runStatus /\ Doing.op # "complete"
  <2>1. Blocked /\ runStatus' = "failed" BY <1>2, <1>5 DEF Stamps
  <2>2. runStatus = "running"
    BY <1>2, <1>5, <2>1 DEF RunAgrees
  <2>3. \E n \in Node : State[n] = "failed" BY <2>1 DEF Blocked, State, StateOf
  <2>4. ASSUME NEW n \in Node PROVE State[n] # "working" /\ ~Promise!Ready(n)
    <3>1. status[n] \notin {"runnable", "running"} BY <2>1 DEF Blocked
    <3>2. State[n] # "working" BY <3>1 DEF State, StateOf
    <3>3. ASSUME Promise!Ready(n) PROVE FALSE
      <4>1. status[n] = "pending"
        BY <1>0, <3>1, <3>3, RowTypes
           DEF Promise!Ready, State, StateOf, NodeStatus, NoneInvalidated
      <4>2. \A m \in Upstream(n) : status[m] = "completed"
        BY <3>3 DEF Promise!Ready, Promise!Needs, Upstream, State, StateOf
      <4>3. status[n] # "pending" BY <1>2, <4>2 DEF Promotable
      <4> QED BY <4>1, <4>3
    <3> QED BY <3>2, <3>3
  <2> QED BY <1>1, <2>1, <2>2, <2>3, <2>4 DEF Promise!GiveUp
<1> QED BY <1>3, <1>4, <1>5

LEMMA PromiseInitial ==
  ASSUME OneThread, Init
  PROVE  PromiseInv /\ Promise!Init
<1>1. SerialInv BY SerialInitial
<1>2. TypeOK /\ Doing.pc = "idle"
  BY <1>1, SerialFacts, ReqFacts, LoopFacts DEF Init, Doing
<1>3. RunKnows BY <1>2 DEF Init, RunKnows, Changing, Busy
<1>4. OlderEnded
  BY <1>2, RowTypes DEF Init, OlderEnded
<1>5. Unborn BY DEF Init, Unborn, AttemptRow
<1>6. RevokesNewest /\ ReopenKnows BY <1>2 DEF RevokesNewest, ReopenKnows
<1>7. NoneInvalidated BY DEF Init, NoneInvalidated
<1>8. State = [n \in Node |-> "waiting"] BY DEF Init, State, StateOf
<1>9. Armed = {} BY <1>2, RowTypes DEF Init, Armed, Agent
<1> QED BY <1>1, <1>3, <1>4, <1>5, <1>6, <1>7, <1>8, <1>9
     DEF PromiseInv, Promise!Init, Init

LEMMA PromiseStep ==
  ASSUME OneThread, MaxInterrupt = 0, SinkIsLast, PromiseInv, [Next]_vars
  PROVE  Promise!Next \/ UNCHANGED Promise!workflowVars
<1>1. SerialInv BY DEF PromiseInv
<1>2. \/ Stutters \/ Promise!Open \/ Promise!Reopen \/ Promise!Succeed \/ Promise!GiveUp
      \/ \E n \in Node : \/ Promise!Begin(n) \/ Promise!Finish(n)
                         \/ Promise!Disarm(n) \/ Promise!Retry(n)
  BY <1>1, SerialFlat, StatementsStutter, StartBegins, ClaimBegins, EndFinishes,
     RevocationDisarms, ResetRetries, EvaluationOpens, VerdictCloses
     DEF SerialStep
<1> QED BY <1>2 DEF Stutters, Promise!Next

\* The engine keeps the operator's promise, of a topology in which every node
\* leads to the sink: served one after the other and to their end, reports,
\* sweeps, retries and evaluations implement the abstract workflow. No node
\* begins on anything unfinished or still authorised, none is disarmed before
\* its end or begun while an earlier try is armed, what is done stays done,
\* and a run is given up only when no node is ready or at work.
THEOREM WorkflowRefined ==
  ASSUME OneThread, MaxInterrupt = 0, SinkIsLast
  PROVE  Spec => WorkflowIsKept
<1>1. Init => PromiseInv /\ Promise!Init BY PromiseInitial
<1>2. PromiseInv /\ [Next]_vars => PromiseInv' BY PromiseInvKept
<1>3. PromiseInv /\ [Next]_vars => [Promise!Next]_(Promise!workflowVars)
  BY PromiseStep
<1> QED BY <1>1, <1>2, <1>3, PTL DEF Spec, WorkflowIsKept, Promise!Spec

-----------------------------------------------------------------------------
(* One attempt after the other. AttemptCredential reduces the engine to an   *)
(* attempt that begins when the one before it has ended, and ends once; that *)
(* the engine is like this takes what a sweep knows of the attempt it ends   *)
(* (SweepsRunning), since its UPDATE asks nothing.                           *)

SweepsRunning ==
  Doing.pc = "sweepAttempt" => attempt[Doing.cur].exec = "running"

LEMMA SweepsRunningKept ==
  ASSUME OneThread, MaxInterrupt = 0, SerialInv, SweepsRunning, [Next]_vars
  PROVE  SweepsRunning'
<1>0. /\ TypeOK /\ FenceInv /\ SweepKnows /\ RowsExist(Doing) /\ NodesAgree
      /\ Doing.todo \in SUBSET Row
  BY SerialFacts
<1>1. CASE SweepsNode
  <2>1. PICK a \in Doing.todo : OnlyStatus(a[1], "failed") /\ Doing'.cur = a
    BY <1>1 DEF SweepsNode
  <2>2. /\ Doing.pc = "sweepNode" /\ Doing.op = "sweep" /\ a \in AttemptRow
        /\ status[a[1]] = "running" /\ Newest(a)
    BY <1>0, <1>1, <2>1 DEF SweepsNode, RowsExist, SweepKnows
  <2>3. a[1] \in Node /\ a = <<a[1], attemptNo[a[1]]>>
    BY <1>0, <2>2, RowTypes DEF Newest
  <2>4. Agrees(a[1]) BY <1>0, <2>2, <2>3 DEF NodesAgree, Unsettled
  <2>5. attempt[a].exec = "running" BY <2>2, <2>3, <2>4 DEF Agrees, Exec
  <2>6. attempt' = attempt BY <2>1 DEF OnlyStatus
  <2> QED BY <2>1, <2>5, <2>6 DEF SweepsRunning
<1>2. CASE Claims
  <2>1. PICK m \in Agent : Claim(m) BY <1>2 DEF Claims
  <2>2. /\ ~Created(<<m, attemptNo[m] + 1>>)
        /\ attempt' = [attempt EXCEPT ![<<m, attemptNo[m] + 1>>] =
                         [exec |-> "running", auth |-> "active"]]
    BY <1>0, <2>1, ClaimFlat
  <2>3. Doing' = Doing BY <1>2 DEF Claims, Doing
  <2>4. Doing.pc = "sweepAttempt" => Doing.cur \in AttemptRow /\ Created(Doing.cur)
    BY <1>0 DEF RowsExist
  <2>5. Doing.pc = "sweepAttempt" => attempt'[Doing.cur] = attempt[Doing.cur]
    BY <1>0, <2>2, <2>4, RowTypes
  <2> QED BY <2>3, <2>5 DEF SweepsRunning
<1>3. CASE Waits
  BY <1>3 DEF Waits, Doing, SweepsRunning
<1>4. CASE \/ Scans \/ Promotes \/ StartsNode \/ Settles \/ Closes \/ Stamps \/ Checks
           \/ SelectsNone \/ Resets \/ SweepsAttempt \/ Begins \/ Retries \/ EndsAttempt
           \/ BeginsSweep \/ Reports \/ Numbers \/ Records \/ Computes \/ Frees \/ EndsNode
  <2>1. Doing'.pc # "sweepAttempt"
    BY <1>0, <1>4, LoopFacts, ReqFacts
       DEF Scans, Promotes, StartsNode, Settles, Closes, Stamps, Checks, SelectsNone,
       Resets, SweepsAttempt, Begins, Retries, EndsAttempt, BeginsSweep, Reports, Numbers,
       Records, Computes, Frees, EndsNode, Looping, Going, Revoking
  <2> QED BY <2>1 DEF SweepsRunning
<1> QED BY <1>1, <1>2, <1>3, <1>4, SerialFlat DEF SerialStep

SuccessionInv == SerialInv /\ OlderEnded /\ RevokesNewest /\ SweepsRunning

\* What a step may do to one attempt of an agent node.
Succeeds(n, k) ==
  LET was == attempt[<<n, k>>]
      is  == attempt'[<<n, k>>]
  IN /\ was.exec = "none" /\ is.exec # "none" =>
          \A j \in 1..(k - 1) : attempt[<<n, j>>].exec \in Ended
     /\ was.exec \in Ended => is.exec = was.exec
     /\ was.auth = "active" /\ is.auth # "active" => was.exec \in Ended

\* The attempt a request revokes is one that ended.
LEMMA RevokesEnded ==
  ASSUME OneThread, SerialInv, RevokesNewest, Frees, Doing.cur[1] \in Agent
  PROVE  attempt[Doing.cur].exec \in Ended
<1>0. TypeOK /\ NodesAgree /\ Doing.pc = "revoke" /\ Doing.cur \in AttemptRow
  BY SerialFacts DEF Frees
<1>1. Newest(Doing.cur) /\ status[Doing.cur[1]] # "running"
  BY <1>0 DEF RevokesNewest
<1>2. /\ Doing.cur[1] \in Node /\ Doing.cur = <<Doing.cur[1], attemptNo[Doing.cur[1]]>>
      /\ attemptNo[Doing.cur[1]] > 0
  BY <1>0, <1>1, RowTypes DEF Newest
<1>3. Agrees(Doing.cur[1]) BY <1>0, <1>2 DEF NodesAgree, Unsettled
<1> QED BY <1>1, <1>2, <1>3, NewestEnded

LEMMA SuccessionStep ==
  ASSUME OneThread, MaxInterrupt = 0, SuccessionInv, [Next]_vars,
         NEW n \in Agent, NEW k \in 1..MaxAttempt
  PROVE  Succeeds(n, k)
<1>0. /\ SerialInv /\ TypeOK /\ FenceInv /\ LoopKnows /\ ReportKnows /\ RowsExist(Doing)
      /\ OlderEnded /\ RevokesNewest /\ SweepsRunning /\ n \in Node
      /\ <<n, k>> \in AttemptRow
  BY SerialFacts, RowTypes DEF SuccessionInv, Agent
<1>1. ASSUME attempt'[<<n, k>>] = attempt[<<n, k>>] PROVE Succeeds(n, k)
  BY <1>1 DEF Succeeds, Ended
<1>2. CASE Computes \/ EndsAttempt \/ SweepsAttempt
  <2>1. PICK e : Ends(Doing.cur, e)
    BY <1>2 DEF Computes, EndsAttempt, SweepsAttempt
  <2>2. attempt[Doing.cur].exec = "running"
    BY <1>0, <1>2 DEF Computes, EndsAttempt, SweepsAttempt, LoopKnows, ReportKnows,
       SweepsRunning, Busy
  <2>3. CASE Doing.cur = <<n, k>>
    <3>1. attempt'[<<n, k>>] = [exec |-> e, auth |-> attempt[<<n, k>>].auth]
      BY <1>0, <2>1, <2>3, RowTypes DEF Ends, OnlyAttempt
    <3> QED BY <2>2, <2>3, <3>1 DEF Succeeds, Ended
  <2>4. CASE Doing.cur # <<n, k>>
    BY <1>0, <1>1, <2>1, <2>4, RowTypes DEF Ends, OnlyAttempt
  <2> QED BY <2>3, <2>4
<1>3. CASE Records
  <2>1. Doing.cur # <<n, k>> BY <1>0, <1>3 DEF Records, RowsExist, Agent
  <2> QED BY <1>0, <1>1, <1>3, <2>1, RowTypes DEF Records, OnlyAttempt
<1>4. CASE Frees
  <2>1. CASE Doing.cur = <<n, k>>
    <3>1. attempt[<<n, k>>].exec \in Ended BY <1>0, <1>4, <2>1, RevokesEnded
    <3>2. attempt'[<<n, k>>].exec = attempt[<<n, k>>].exec
      BY <1>0, <1>4, <2>1, RowTypes DEF Frees, OnlyAttempt
    <3> QED BY <3>1, <3>2 DEF Succeeds, Ended
  <2>2. CASE Doing.cur # <<n, k>>
    BY <1>0, <1>1, <1>4, <2>2, RowTypes DEF Frees, OnlyAttempt
  <2> QED BY <2>1, <2>2
<1>5. CASE Claims
  <2>1. PICK m \in Agent : Claim(m) BY <1>5 DEF Claims
  <2>2. /\ m \in Node /\ attemptNo[m] + 1 \in 1..MaxAttempt /\ status[m] = "runnable"
        /\ ~Created(<<m, attemptNo[m] + 1>>)
        /\ attempt' = [attempt EXCEPT ![<<m, attemptNo[m] + 1>>] =
                         [exec |-> "running", auth |-> "active"]]
    BY <1>0, <2>1, ClaimFlat
  <2>3. CASE m = n /\ k = attemptNo[n] + 1
    <3>1. attemptNo[n] \in 0..MaxAttempt /\ MaxAttempt \in Nat BY <1>0, RowTypes
    <3>2. ASSUME NEW j \in 1..(k - 1) PROVE attempt[<<n, j>>].exec \in Ended
      <4>1. <<n, j>> \in AttemptRow /\ j \in Nat /\ j <= attemptNo[n]
        BY <1>0, <2>3, <3>1, RowTypes
      <4>2. CASE j = attemptNo[n]
        <5>1. attemptNo[n] > 0 /\ Agrees(n)
          BY <1>0, <2>2, <2>3, <3>1, <4>2, AgreesUnlessBusy
        <5> QED BY <1>0, <2>2, <2>3, <4>2, <5>1, NewestEnded
      <4>3. CASE j < attemptNo[n] BY <1>0, <4>1, <4>3 DEF OlderEnded
      <4> QED BY <3>1, <4>1, <4>2, <4>3
    <3>3. attempt[<<n, k>>].exec = "none" BY <2>2, <2>3 DEF Created
    <3>4. attempt'[<<n, k>>].auth = "active" BY <1>0, <2>2, <2>3, RowTypes
    <3> QED BY <3>2, <3>3, <3>4 DEF Succeeds, Ended
  <2>4. CASE ~(m = n /\ k = attemptNo[n] + 1)
    BY <1>0, <1>1, <2>2, <2>4, RowTypes
  <2> QED BY <2>3, <2>4
<1>6. CASE \/ Scans \/ Promotes \/ StartsNode \/ Settles \/ Closes \/ Stamps \/ Checks
           \/ EndsNode \/ SelectsNone \/ Resets \/ SweepsNode \/ Begins \/ Retries
           \/ BeginsSweep \/ Reports \/ Numbers \/ Waits
  <2>1. attempt' = attempt
    BY <1>6 DEF Scans, Promotes, StartsNode, Settles, Closes, Stamps, Checks, EndsNode,
       SelectsNone, Resets, SweepsNode, Begins, Retries, BeginsSweep, Reports, OnlyStatus,
       Numbers, Waits, rows
  <2> QED BY <1>1, <2>1
<1> QED BY <1>0, <1>2, <1>3, <1>4, <1>5, <1>6, SerialFlat DEF SerialStep

\* Served one after the other and to their end, the attempts of a node follow
\* one another: the next begins when those before it have ended, no late
\* report or sweep rewrites what one came to, and authority lasts to the end.
\* It is what AttemptCredential assumes of the engine.
THEOREM AttemptsInSuccession ==
  ASSUME OneThread, MaxInterrupt = 0
  PROVE  Spec => AttemptsSucceed
<1>1. Init => SuccessionInv
  <2> SUFFICES ASSUME Init PROVE SuccessionInv OBVIOUS
  <2>1. SerialInv BY SerialInitial
  <2>2. TypeOK /\ Doing.pc = "idle"
    BY <2>1, SerialFacts, ReqFacts, LoopFacts DEF Init, Doing
  <2>3. OlderEnded BY <2>2, RowTypes DEF Init, OlderEnded
  <2> QED BY <2>1, <2>2, <2>3 DEF SuccessionInv, RevokesNewest, SweepsRunning
<1>2. SuccessionInv /\ [Next]_vars => SuccessionInv'
  BY SerialKept, OlderEndedKept, RevokesNewestKept, SweepsRunningKept DEF SuccessionInv
<1>3. SuccessionInv /\ [Next]_vars => \A n \in Agent, k \in 1..MaxAttempt : Succeeds(n, k)
  BY SuccessionStep
<1>4. (\A n \in Agent, k \in 1..MaxAttempt : Succeeds(n, k)) =>
        [\A n \in Agent, k \in 1..MaxAttempt :
           LET was == attempt[<<n, k>>]
               is  == attempt'[<<n, k>>]
           IN /\ was.exec = "none" /\ is.exec # "none" =>
                   \A j \in 1..(k - 1) : attempt[<<n, j>>].exec \in Ended
              /\ was.exec \in Ended => is.exec = was.exec
              /\ was.auth = "active" /\ is.auth # "active" => was.exec \in Ended]_vars
  BY DEF Succeeds
<1> QED BY <1>1, <1>2, <1>3, <1>4, PTL DEF Spec, AttemptsSucceed

-----------------------------------------------------------------------------
(* What follows from the promise.                                            *)

OneAuthority ==
  \A n \in Agent : \A j, k \in 1..MaxAttempt :
    attempt[<<n, j>>].auth = "active" /\ attempt[<<n, k>>].auth = "active" => j = k

\* An active attempt is the newest, so that no two of a node hold authority,
\* not even while one is swept or retried (revokeAttempt precedes the retry).
THEOREM AuthorityIsSingle ==
  ASSUME OneThread, MaxInterrupt = 0, SinkIsLast
  PROVE  Spec => []OneAuthority
<1>1. Init => PromiseInv BY PromiseInitial
<1>2. PromiseInv /\ [Next]_vars => PromiseInv' BY PromiseInvKept
<1>3. PromiseInv => OneAuthority
  <2> SUFFICES ASSUME PromiseInv, NEW n \in Agent, NEW k \in 1..MaxAttempt,
                      attempt[<<n, k>>].auth = "active"
               PROVE  k = attemptNo[n]
    BY DEF OneAuthority
  <2>1. /\ TypeOK /\ FenceNamesAttempt /\ Unborn /\ n \in Node /\ <<n, k>> \in AttemptRow
    BY PromiseFacts, RowTypes DEF FenceInv, Agent
  <2>2. k <= attemptNo[n] BY <2>1 DEF Unborn, FenceNamesAttempt
  <2>3. attemptNo[n] \in 0..MaxAttempt /\ MaxAttempt \in Nat BY <2>1, RowTypes
  <2>4. ~(k < attemptNo[n]) BY <2>1, OlderRevoked
  <2> QED BY <2>2, <2>3, <2>4
<1> QED BY <1>1, <1>2, <1>3, PTL DEF Spec

Final == /\ runStatus = "completed" => runStatus' = "completed"
         /\ \A n \in Node : status[n] = "completed" => status'[n] = "completed"

\* What is done stays done: no retry, sweep or verdict takes back a completed
\* node or reopens a completed run, although retryNode has a cascade for it
\* and sets the run to 'running' without looking at it.
THEOREM DoneIsFinal ==
  ASSUME OneThread, MaxInterrupt = 0, SinkIsLast
  PROVE  Spec => [][Final]_vars
<1>1. Init => PromiseInv BY PromiseInitial
<1>2. PromiseInv /\ [Next]_vars => PromiseInv' BY PromiseInvKept
<1>3. PromiseInv /\ [Next]_vars => Final
  <2> SUFFICES ASSUME PromiseInv, [Next]_vars PROVE Final OBVIOUS
  <2>1. Promise!Next \/ UNCHANGED Promise!workflowVars BY PromiseStep
  <2>2. runStatus = "completed" => runStatus' = "completed"
    BY <2>1 DEF Promise!Next, Promise!workflowVars, Promise!Open, Promise!Reopen,
       Promise!Succeed, Promise!GiveUp, Promise!Begin, Promise!Finish, Promise!Disarm,
       Promise!Retry
  <2>3. ASSUME NEW n \in Node, status[n] = "completed" PROVE status'[n] = "completed"
    <3>1. State[n] = "done" /\ State = [m \in Node |-> State[m]]
      BY <2>3 DEF State, StateOf
    <3>2. State'[n] = "done"
      BY <2>1, <3>1
         DEF Promise!Next, Promise!workflowVars, Promise!Open, Promise!Reopen,
         Promise!Succeed, Promise!GiveUp, Promise!Begin, Promise!Ready, Promise!Finish,
         Promise!Disarm, Promise!Retry
    <3>3. State'[n] = StateOf(status'[n]) BY DEF State, StateOf
    <3> QED BY <3>2, <3>3 DEF StateOf
  <2> QED BY <2>2, <2>3 DEF Final
<1> QED BY <1>1, <1>2, <1>3, PTL DEF Spec

=============================================================================
