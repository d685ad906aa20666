----------------------------- MODULE DagEngine -----------------------------
(***************************************************************************)
(* The recoverable micro-DAG engine of the factory API:                    *)
(*   backend/src/orchestrator/dag-engine.js   the engine,                  *)
(*   backend/src/services/watchdog.js         its heartbeat sweep,         *)
(*   backend/src/routes/dag.js                the requests that reach it,  *)
(*   agents/src/dagWorker.js                  the workers that call it.    *)
(*                                                                         *)
(* The API is one Node.js process. A handler runs until its next `await    *)
(* pool.query(...)`, so one SQL statement is one atomic step and any other *)
(* request may run between two statements of a handler. No statement here  *)
(* is inside a transaction. Thread is the set of requests in flight.       *)
(*                                                                         *)
(* Abstractions. current_attempt_number and current_fencing_token are      *)
(* written together, by the same increment, in the two places that write   *)
(* them (claimNode, executeBackendNode): attemptNo stands for both.        *)
(* Evidence payloads, events and spans are left out. One run is modelled;  *)
(* nodes of different runs share no row.                                   *)
(***************************************************************************)
EXTENDS Integers, FiniteSets

CONSTANTS Node,         \* the nodes of the topology
          Edge,         \* its dependency edges, <<from, to>>
          Sink,         \* the node whose completion completes the run
          Backend,      \* the nodes with agent_role "backend-internal"
          Thread,       \* requests the process can have in flight at once
          MaxAttempt,   \* bound: attempts of one node
          MaxInterrupt, \* bound: handlers cut short by a restart or a DB error
          Reposts       \* whether POST /dag/runs is sent again for a run

ASSUME TopologyAssumption ==
  /\ Edge \subseteq Node \X Node
  /\ Sink \in Node
  /\ Backend \subseteq Node

ASSUME BoundAssumption ==
  /\ MaxAttempt \in Nat \ {0}
  /\ MaxInterrupt \in Nat
  /\ Reposts \in BOOLEAN

Agent == Node \ Backend

Upstream(n) == {m \in Node : <<m, n>> \in Edge}

\* The strict descendants of n: the least set closed under the edges.
Downstream(n) ==
  {m \in Node : \A S \in SUBSET Node :
     (\A e \in Edge : e[1] \in S \cup {n} => e[2] \in S) => m \in S}

NodeStatus == {"pending", "runnable", "running", "completed", "failed",
               "invalidated"}
RunStatus  == {"none", "running", "completed", "failed"}
ExecStatus == {"none", "running", "completed", "failed", "timed_out"}
AuthStatus == {"none", "active", "revoked"}
Attempt    == [exec : ExecStatus, auth : AuthStatus]
Ended      == {"completed", "failed", "timed_out"}

\* A row a handler works on: a node, with the number of one of its attempts
\* (0 when the statement read the node alone).
Row == Node \X (0..MaxAttempt)
NoRow == <<Sink, 0>>

PC == {"idle", "scan", "promote", "exec", "number", "insert", "logic",
       "settle", "closing", "stamp", "check", "endAttempt", "endNode",
       "revoke", "downstream", "invalidate", "actives", "reset", "rerun",
       "sweepNode", "sweepAttempt"}
Op == {"none", "complete", "fail", "retry", "sweep"}

Call == [pc : PC, op : Op, target : Node, cur : Row, todo : SUBSET Row,
         revokes : SUBSET Row]

Idle == [pc |-> "idle", op |-> "none", target |-> Sink, cur |-> NoRow,
         todo |-> {}, revokes |-> {}]
Evaluate == [Idle EXCEPT !.pc = "scan"]   \* evaluateRunnableNodes(runId)
Closing  == [Idle EXCEPT !.pc = "closing"] \* evaluateRunCompletion(runId)

VARIABLES
  runStatus,  \* dag_runs.status, "none" before the rows exist
  status,     \* dag_nodes.status
  attemptNo,  \* dag_nodes.current_attempt_number / current_fencing_token
  beat,       \* dag_nodes.heartbeat_expires_at: NULL, in the future, past
  attempt,    \* dag_node_attempts: execution_status and authority_status
  work,       \* the attempt the worker of an agent node is handling, 0: none
  sent,       \* the last report it sent for that attempt
  call,       \* the locals of each request in flight
  interrupts  \* handlers cut short so far

rows == <<runStatus, status, attemptNo, beat, attempt>>
workers == <<work, sent>>
vars == <<rows, workers, call, interrupts>>

TypeOK ==
  /\ runStatus \in RunStatus
  /\ status \in [Node -> NodeStatus]
  /\ attemptNo \in [Node -> 0..MaxAttempt]
  /\ beat \in [Node -> {"none", "live", "past"}]
  /\ attempt \in [Node \X (1..MaxAttempt) -> Attempt]
  /\ work \in [Node -> 0..MaxAttempt]
  /\ sent \in [Node -> {"none", "complete", "fail"}]
  /\ call \in [Thread -> Call]
  /\ interrupts \in 0..MaxInterrupt

Init ==
  /\ runStatus = "none"
  /\ status = [n \in Node |-> "pending"]
  /\ attemptNo = [n \in Node |-> 0]
  /\ beat = [n \in Node |-> "none"]
  /\ attempt = [a \in Node \X (1..MaxAttempt) |->
                  [exec |-> "none", auth |-> "none"]]
  /\ work = [n \in Node |-> 0]
  /\ sent = [n \in Node |-> "none"]
  /\ call = [t \in Thread |-> Idle]
  /\ interrupts = 0

-----------------------------------------------------------------------------
(* Helpers.                                                                *)

Become(t, locals) == call' = [call EXCEPT ![t] = locals]
SetStatus(n, s) == status' = [status EXCEPT ![n] = s]
SetExec(a, e) == attempt' = [attempt EXCEPT ![a].exec = e]

At(t, p) == call[t].pc = p

Created(a) == attempt[a].exec # "none"

-----------------------------------------------------------------------------
(* evaluateRunnableNodes, executeBackendNode and evaluateRunCompletion.    *)

\* Mutant: one completed dependency is enough.
PromotableEager ==
  {n \in Node : /\ status[n] = "pending"
                /\ \/ Upstream(n) = {}
                   \/ \E m \in Upstream(n) : status[m] = "completed"}

Promotable ==
  {n \in Node : /\ status[n] = "pending"
                /\ \A m \in Upstream(n) : status[m] = "completed"}

\* The SELECT at the head of the loop; an empty result leaves the loop.
Scan(t) ==
  /\ At(t, "scan")
  /\ IF Promotable = {}
       THEN Become(t, Closing)
       ELSE Become(t, [call[t] EXCEPT !.pc = "promote",
                                      !.todo = Promotable \X {0}])
  /\ UNCHANGED <<rows, workers, interrupts>>

\* Where the for loop goes once the rows of `rest` are left.
Promoting(t, rest) ==
  [Idle EXCEPT !.pc = IF rest = {} THEN "scan" ELSE "promote", !.todo = rest]

\* The UPDATE to 'runnable' has no guard on the status it overwrites.
Promote(t) ==
  /\ At(t, "promote")
  /\ \E r \in call[t].todo :
       LET rest == call[t].todo \ {r} IN
       /\ SetStatus(r[1], "runnable")
       /\ Become(t, IF r[1] \in Backend
                      THEN [Promoting(t, rest) EXCEPT !.pc = "exec", !.cur = r]
                      ELSE Promoting(t, rest))
  /\ UNCHANGED <<runStatus, attemptNo, beat, attempt, workers, interrupts>>

\* UPDATE ... SET status = 'running' WHERE status = 'runnable' RETURNING the
\* next attempt number; no row: the node is already being handled.
BackendStart(t) ==
  /\ At(t, "exec")
  /\ LET n == call[t].cur[1] IN
     \/ /\ status[n] = "runnable"
        /\ attemptNo[n] < MaxAttempt
        /\ SetStatus(n, "running")
        /\ Become(t, [call[t] EXCEPT !.pc = "number",
                                     !.cur = <<n, attemptNo[n] + 1>>])
     \/ /\ status[n] # "runnable"
        /\ Become(t, Promoting(t, call[t].todo))
        /\ UNCHANGED status
  /\ UNCHANGED <<runStatus, attemptNo, beat, attempt, workers, interrupts>>

\* The number read above is written back by a second statement.
BackendNumber(t) ==
  /\ At(t, "number")
  /\ attemptNo' = [attemptNo EXCEPT ![call[t].cur[1]] = call[t].cur[2]]
  /\ Become(t, [call[t] EXCEPT !.pc = "insert"])
  /\ UNCHANGED <<runStatus, status, beat, attempt, workers, interrupts>>

\* A second row for the same number breaks uq_dag_node_attempt_num: the
\* statement throws and the request ends with it.
BackendInsert(t) ==
  /\ At(t, "insert")
  /\ LET a == call[t].cur IN
     \/ /\ ~Created(a)
        /\ attempt' = [attempt EXCEPT ![a] = [exec |-> "running",
                                              auth |-> "active"]]
        /\ Become(t, [call[t] EXCEPT !.pc = "logic"])
     \/ /\ Created(a)
        /\ Become(t, Idle)
        /\ UNCHANGED attempt
  /\ UNCHANGED <<runStatus, status, attemptNo, beat, workers, interrupts>>

\* runBackendNodeLogic returns or throws; the attempt is marked accordingly.
BackendLogic(t) ==
  /\ At(t, "logic")
  /\ \E o \in {"complete", "fail"} :
       /\ SetExec(call[t].cur, IF o = "complete" THEN "completed" ELSE "failed")
       /\ Become(t, [call[t] EXCEPT !.pc = "settle", !.op = o])
  /\ UNCHANGED <<runStatus, status, attemptNo, beat, workers, interrupts>>

BackendSettle(t) ==
  /\ At(t, "settle")
  /\ SetStatus(call[t].cur[1],
               IF call[t].op = "complete" THEN "completed" ELSE "failed")
  /\ Become(t, Promoting(t, call[t].todo))
  /\ UNCHANGED <<runStatus, attemptNo, beat, attempt, workers, interrupts>>

Blocked ==
  /\ \E n \in Node : status[n] = "failed"
  /\ \A n \in Node : status[n] \notin {"runnable", "running"}

\* The SELECT of evaluateRunCompletion and the verdict drawn from it.
Close(t) ==
  /\ At(t, "closing")
  /\ Become(t, IF status[Sink] = "completed"
                 THEN [Idle EXCEPT !.pc = "stamp", !.op = "complete"]
               ELSE IF Blocked
                 THEN [Idle EXCEPT !.pc = "stamp", !.op = "fail"]
               ELSE Idle)
  /\ UNCHANGED <<rows, workers, interrupts>>

\* The guarded UPDATE of dag_runs with that verdict.
Stamp(t) ==
  /\ At(t, "stamp")
  /\ runStatus' = IF call[t].op = "complete" THEN "completed"
                  ELSE IF runStatus = "completed" THEN "completed"
                  ELSE "failed"
  /\ Become(t, Idle)
  /\ UNCHANGED <<status, attemptNo, beat, attempt, workers, interrupts>>

-----------------------------------------------------------------------------
(* POST /dag/runs: initializeRun. Its inserts are idempotent and nothing   *)
(* can act on a node before the evaluation that follows them, so the rows  *)
(* appear in one step.                                                     *)

Start(t) ==
  /\ At(t, "idle")
  /\ runStatus = "none" \/ Reposts
  /\ runStatus' = IF runStatus = "none" THEN "running" ELSE runStatus
  /\ Become(t, Evaluate)
  /\ UNCHANGED <<status, attemptNo, beat, attempt, workers, interrupts>>

-----------------------------------------------------------------------------
(* The worker of an agent node and the requests it sends. A worker handles *)
(* one attempt at a time.                                                  *)

\* Mutant: the claim takes over the last attempt instead of opening one.
ClaimAgain(n) ==
  /\ n \in Agent
  /\ work[n] = 0
  /\ status[n] = "runnable"
  /\ LET k == IF attemptNo[n] = 0 THEN 1 ELSE attemptNo[n] IN
     /\ SetStatus(n, "running")
     /\ attemptNo' = [attemptNo EXCEPT ![n] = k]
     /\ attempt' = [attempt EXCEPT ![<<n, k>>] = [exec |-> "running",
                                                  auth |-> "active"]]
     /\ work' = [work EXCEPT ![n] = k]
  /\ beat' = [beat EXCEPT ![n] = "live"]
  /\ sent' = [sent EXCEPT ![n] = "none"]
  /\ UNCHANGED <<runStatus, call, interrupts>>

\* POST /dag/tasks/claim: one statement locks a runnable node, advances its
\* number and fence, starts its heartbeat and inserts the attempt.
Claim(n) ==
  /\ n \in Agent
  /\ work[n] = 0
  /\ status[n] = "runnable"
  /\ attemptNo[n] < MaxAttempt
  /\ LET k == attemptNo[n] + 1 IN
     /\ ~Created(<<n, k>>)
     /\ SetStatus(n, "running")
     /\ attemptNo' = [attemptNo EXCEPT ![n] = k]
     /\ attempt' = [attempt EXCEPT ![<<n, k>>] = [exec |-> "running",
                                                  auth |-> "active"]]
     /\ work' = [work EXCEPT ![n] = k]
  /\ beat' = [beat EXCEPT ![n] = "live"]
  /\ sent' = [sent EXCEPT ![n] = "none"]
  /\ UNCHANGED <<runStatus, call, interrupts>>

\* POST .../heartbeat: renewHeartbeat's guarded UPDATE. A refusal (409) is
\* swallowed by the worker's timer and changes nothing.
Heartbeat(n) ==
  /\ work[n] # 0
  /\ attemptNo[n] = work[n]
  /\ status[n] = "running"
  /\ beat' = [beat EXCEPT ![n] = "live"]
  /\ UNCHANGED <<runStatus, status, attemptNo, attempt, workers, call,
                 interrupts>>

\* Fifteen seconds pass without a renewal.
Expire(n) ==
  /\ status[n] = "running"
  /\ beat[n] = "live"
  /\ beat' = [beat EXCEPT ![n] = "past"]
  /\ UNCHANGED <<runStatus, status, attemptNo, attempt, workers, call,
                 interrupts>>

\* POST .../complete. The worker sends it once.
SendComplete(t, n) ==
  /\ At(t, "idle")
  /\ work[n] # 0 /\ sent[n] = "none"
  /\ sent' = [sent EXCEPT ![n] = "complete"]
  /\ Become(t, [Idle EXCEPT !.pc = "check", !.op = "complete",
                            !.cur = <<n, work[n]>>])
  /\ UNCHANGED <<rows, work, interrupts>>

\* POST .../fail: the loop threw, or the complete call itself did, which it
\* may while the API still serves it.
SendFail(t, n) ==
  /\ At(t, "idle")
  /\ work[n] # 0 /\ sent[n] # "fail"
  /\ sent' = [sent EXCEPT ![n] = "fail"]
  /\ Become(t, [Idle EXCEPT !.pc = "check", !.op = "fail",
                            !.cur = <<n, work[n]>>])
  /\ UNCHANGED <<rows, work, interrupts>>

\* The worker polls again: its last report was answered, or it restarted.
WorkerLeaves(n) ==
  /\ work[n] # 0
  /\ work' = [work EXCEPT ![n] = 0]
  /\ sent' = [sent EXCEPT ![n] = "none"]
  /\ UNCHANGED <<rows, call, interrupts>>

-----------------------------------------------------------------------------
(* completeAttempt and failAttempt.                                        *)

\* Mutant: the fence alone decides, a second report of the attempt passes.
CurrentByFence(a) == attemptNo[a[1]] = a[2]

\* assertCurrentFencingToken; agentAttemptJwtAuth's own check of the fence
\* alone, one await earlier, refuses nothing that this one would accept.
Current(a) == attemptNo[a[1]] = a[2] /\ attempt[a].exec = "running"

Check(t) ==
  /\ At(t, "check")
  /\ Become(t, IF Current(call[t].cur)
                 THEN [call[t] EXCEPT !.pc = "endAttempt"] ELSE Idle)
  /\ UNCHANGED <<rows, workers, interrupts>>

EndAttempt(t) ==
  /\ At(t, "endAttempt")
  /\ SetExec(call[t].cur,
             IF call[t].op = "complete" THEN "completed" ELSE "failed")
  /\ Become(t, [call[t] EXCEPT !.pc = "endNode"])
  /\ UNCHANGED <<runStatus, status, attemptNo, beat, workers, interrupts>>

\* Mutant: the cascade runs without the revocation that should precede it.
EndNodeUnrevoked(t) ==
  /\ At(t, "endNode")
  /\ SetStatus(call[t].cur[1],
               IF call[t].op = "complete" THEN "completed" ELSE "failed")
  /\ Become(t, IF call[t].op = "complete" THEN Evaluate ELSE Closing)
  /\ UNCHANGED <<runStatus, attemptNo, beat, attempt, workers, interrupts>>

EndNode(t) ==
  /\ At(t, "endNode")
  /\ SetStatus(call[t].cur[1],
               IF call[t].op = "complete" THEN "completed" ELSE "failed")
  /\ Become(t, [call[t] EXCEPT !.pc = "revoke", !.revokes = {call[t].cur}])
  /\ UNCHANGED <<runStatus, attemptNo, beat, attempt, workers, interrupts>>

\* What follows the last revokeAttempt of a call (of one row, for a loop).
AfterRevoke(t) ==
  LET c == call[t] IN
  CASE c.op = "complete" -> Evaluate
    [] c.op = "fail"     -> Closing
    [] c.op = "sweep"    -> IF c.todo = {} THEN Evaluate
                            ELSE [c EXCEPT !.pc = "sweepNode", !.cur = NoRow,
                                           !.revokes = {}]
    [] OTHER             -> [c EXCEPT !.pc = IF c.todo = {} THEN "reset"
                                             ELSE "invalidate",
                                      !.cur = NoRow, !.revokes = {}]

\* revokeAttempt as far as this module's rows go: idempotent, ends in
\* authority_status = 'revoked'.
Revoke(t) ==
  /\ At(t, "revoke")
  /\ \E a \in call[t].revokes :
       /\ attempt' = [attempt EXCEPT ![a].auth = "revoked"]
       /\ Become(t, IF call[t].revokes = {a} THEN AfterRevoke(t)
                    ELSE [call[t] EXCEPT !.revokes = @ \ {a}])
  /\ UNCHANGED <<runStatus, status, attemptNo, beat, workers, interrupts>>

-----------------------------------------------------------------------------
(* POST /dag/runs/:id/nodes/:nodeKey/retry: retryNode.                     *)

\* Mutant: a node at work can be retried as well.
RetryWorking(t, n) ==
  /\ At(t, "idle")
  /\ runStatus # "none"
  /\ status[n] \in {"failed", "running"}
  /\ attemptNo[n] < MaxAttempt
  /\ Become(t, [Idle EXCEPT !.pc = "downstream", !.op = "retry",
                            !.target = n])
  /\ UNCHANGED <<rows, workers, interrupts>>

\* The SELECT of the target; any status but 'failed' is refused (409).
Retry(t, n) ==
  /\ At(t, "idle")
  /\ runStatus # "none"
  /\ status[n] = "failed"
  /\ attemptNo[n] < MaxAttempt
  /\ Become(t, [Idle EXCEPT !.pc = "downstream", !.op = "retry",
                            !.target = n])
  /\ UNCHANGED <<rows, workers, interrupts>>

\* The SELECT of the descendants, with their status at this moment.
SelectDownstream(t) ==
  /\ At(t, "downstream")
  /\ LET hit == {m \in Downstream(call[t].target) :
                   status[m] \in {"completed", "running", "runnable"}} IN
     Become(t, [call[t] EXCEPT !.pc = IF hit = {} THEN "reset"
                                      ELSE "invalidate",
                               !.todo = hit \X {0}])
  /\ UNCHANGED <<rows, workers, interrupts>>

Invalidate(t) ==
  /\ At(t, "invalidate")
  /\ \E r \in call[t].todo :
       /\ SetStatus(r[1], "invalidated")
       /\ Become(t, [call[t] EXCEPT !.pc = "actives", !.cur = r,
                                    !.todo = @ \ {r}])
  /\ UNCHANGED <<runStatus, attemptNo, beat, attempt, workers, interrupts>>

\* The SELECT of the attempts of that node that still hold authority.
SelectActives(t) ==
  /\ At(t, "actives")
  /\ LET act == {a \in DOMAIN attempt : /\ a[1] = call[t].cur[1]
                                        /\ attempt[a].auth = "active"} IN
     Become(t, IF act = {} THEN AfterRevoke(t)
               ELSE [call[t] EXCEPT !.pc = "revoke", !.revokes = act])
  /\ UNCHANGED <<rows, workers, interrupts>>

ResetTarget(t) ==
  /\ At(t, "reset")
  /\ SetStatus(call[t].target, "pending")
  /\ Become(t, [call[t] EXCEPT !.pc = "rerun"])
  /\ UNCHANGED <<runStatus, attemptNo, beat, attempt, workers, interrupts>>

Rerun(t) ==
  /\ At(t, "rerun")
  /\ runStatus' = "running"
  /\ Become(t, Evaluate)
  /\ UNCHANGED <<status, attemptNo, beat, attempt, workers, interrupts>>

-----------------------------------------------------------------------------
(* The watchdog's sweep, every five seconds.                               *)

\* Mutant: no node is ever found expired.
NeverTimedOut == {a \in DOMAIN attempt : beat[a[1]] = "expired"}

TimedOut ==
  {a \in DOMAIN attempt : /\ status[a[1]] = "running"
                          /\ beat[a[1]] = "past"
                          /\ attemptNo[a[1]] = a[2]
                          /\ Created(a)}

\* A sweep that finds nothing changes nothing.
Sweep(t) ==
  /\ At(t, "idle")
  /\ TimedOut # {}
  /\ Become(t, [Idle EXCEPT !.pc = "sweepNode", !.op = "sweep",
                            !.todo = TimedOut])
  /\ UNCHANGED <<rows, workers, interrupts>>

\* Neither UPDATE of the sweep has a guard on what it overwrites.
SweepNode(t) ==
  /\ At(t, "sweepNode")
  /\ \E a \in call[t].todo :
       /\ SetStatus(a[1], "failed")
       /\ Become(t, [call[t] EXCEPT !.pc = "sweepAttempt", !.cur = a,
                                    !.todo = @ \ {a}])
  /\ UNCHANGED <<runStatus, attemptNo, beat, attempt, workers, interrupts>>

\* Mutant: the node is failed, its attempt left as it was.
SweepNodeOnly(t) ==
  /\ At(t, "sweepAttempt")
  /\ Become(t, [call[t] EXCEPT !.pc = "revoke", !.revokes = {call[t].cur}])
  /\ UNCHANGED <<rows, workers, interrupts>>

\* Mutant: the attempt is marked but keeps its authority.
SweepUnrevoked(t) ==
  /\ At(t, "sweepAttempt")
  /\ SetExec(call[t].cur, "timed_out")
  /\ Become(t, AfterRevoke(t))
  /\ UNCHANGED <<runStatus, status, attemptNo, beat, workers, interrupts>>

SweepAttempt(t) ==
  /\ At(t, "sweepAttempt")
  /\ SetExec(call[t].cur, "timed_out")
  /\ Become(t, [call[t] EXCEPT !.pc = "revoke", !.revokes = {call[t].cur}])
  /\ UNCHANGED <<runStatus, status, attemptNo, beat, workers, interrupts>>

-----------------------------------------------------------------------------
\* A query of the handler is rejected, or the process restarts: the rest of
\* the handler never runs, and nothing resumes it.
Interrupt(t) ==
  /\ ~At(t, "idle")
  /\ interrupts < MaxInterrupt
  /\ interrupts' = interrupts + 1
  /\ Become(t, Idle)
  /\ UNCHANGED <<rows, workers>>

-----------------------------------------------------------------------------
\* The next statement of the handler of request t.
Handler(t) ==
  \/ Scan(t) \/ Promote(t)
  \/ BackendStart(t) \/ BackendNumber(t) \/ BackendInsert(t)
  \/ BackendLogic(t) \/ BackendSettle(t)
  \/ Close(t) \/ Stamp(t)
  \/ Check(t) \/ EndAttempt(t) \/ EndNode(t) \/ Revoke(t)
  \/ SelectDownstream(t) \/ Invalidate(t) \/ SelectActives(t)
  \/ ResetTarget(t) \/ Rerun(t)
  \/ SweepNode(t) \/ SweepAttempt(t)

Report(n) == \E t \in Thread : SendComplete(t, n) \/ SendFail(t, n)

Next ==
  \/ \E t \in Thread : Handler(t) \/ Start(t) \/ Sweep(t) \/ Interrupt(t)
  \/ \E t \in Thread, n \in Node : Retry(t, n)
  \/ \E n \in Node : Claim(n) \/ Heartbeat(n) \/ Expire(n)
  \/ \E n \in Node : Report(n) \/ WorkerLeaves(n)

Spec == Init /\ [][Next]_vars

(***************************************************************************)
(* Fairness. The event loop runs every started handler to its end; the run *)
(* is started; workers poll every three seconds; a worker that holds an    *)
(* attempt reports it (its loop is bounded by maxIterations) unless it     *)
(* restarts; a heartbeat nobody renews expires; the watchdog sweeps every  *)
(* five seconds. Operators owe nothing: no fairness on Retry, nor on a     *)
(* second Start. Sweep and Report are strongly fair: the process accepts   *)
(* any number of requests, only the model makes them wait for a Thread.    *)
(***************************************************************************)
Abandoned(n) == status[n] = "running" /\ work[n] # attemptNo[n]

Fairness ==
  /\ \A t \in Thread : WF_vars(Handler(t))
  /\ WF_vars(runStatus = "none" /\ \E t \in Thread : Start(t))
  /\ SF_vars(\E t \in Thread : Sweep(t))
  /\ \A n \in Agent :
       /\ WF_vars(Claim(n))
       /\ SF_vars(Report(n))
       /\ WF_vars(sent[n] # "none" /\ WorkerLeaves(n))
       /\ WF_vars(Abandoned(n) /\ Expire(n))

FairSpec == Spec /\ Fairness

-----------------------------------------------------------------------------
(* Properties.                                                             *)

\* No request is between two of its statements.
Quiet == \A t \in Thread : At(t, "idle")

\* A node runs only on completed dependencies, and only after those have
\* lost their authority ("retry the work, not the authority"):
\* evaluateRunnableNodes promotes nothing else, and no retry, timeout or late
\* report takes a dependency back under a node that already uses its evidence.
DependencyOrder ==
  \A n \in Node : status[n] \in {"runnable", "running", "completed"} =>
    \A m \in Upstream(n) :
      /\ status[m] = "completed"
      /\ m \in Agent => /\ attemptNo[m] > 0
                        /\ attempt[<<m, attemptNo[m]>>].auth = "revoked"

\* Authority does not outlive the attempt: once no request is in progress,
\* an agent attempt that ended has been revoked (revokeAttempt is reached by
\* completeAttempt, failAttempt and the watchdog alike).
AuthorityEndsWithAttempt == Quiet =>
  \A a \in Agent \X (1..MaxAttempt) :
    attempt[a].exec \in Ended => attempt[a].auth = "revoked"

\* The three tables are written by separate statements and agree whenever no
\* request is in progress: a node says what its newest attempt does, and the
\* run is completed with the sink, failed when a node failed and none can
\* progress, running otherwise.
TablesAgree == Quiet =>
  LET exec(n) == attempt[<<n, attemptNo[n]>>].exec
      nodes(s) == {n \in Node : status[n] \in s} IN
  /\ \A n \in Node : attemptNo[n] > 0 =>
       /\ status[n] = "running" <=> exec(n) = "running"
       /\ status[n] = "completed" <=> exec(n) = "completed"
       /\ status[n] = "failed" => exec(n) \in {"failed", "timed_out"}
  /\ runStatus # "none" =>
       /\ runStatus = "completed" <=> status[Sink] = "completed"
       /\ runStatus = "failed" <=>
            nodes({"failed"}) # {} /\ nodes({"runnable", "running"}) = {}

\* The fence of an agent node names its attempts exactly: the attempts 1 to
\* current_fencing_token exist and no other, whatever requests overlap.
FenceNamesAttempt ==
  \A n \in Agent, k \in 1..MaxAttempt :
    Created(<<n, k>>) <=> k <= attemptNo[n]

\* "A retried attempt is a completely fresh authority grant": an agent
\* attempt gains authority only as the newest attempt of its node, and
\* revoked authority never returns.
FreshAuthority ==
  [][\A n \in Agent, k \in 1..MaxAttempt :
       attempt'[<<n, k>>].auth = "active" /\ attempt[<<n, k>>].auth # "active"
         => \A j \in k..MaxAttempt : ~Created(<<n, j>>)]_vars

\* A completed run is never overwritten by the stale verdict of another
\* evaluation; only a retry reopens it.
CompletedRunNeverFails ==
  [][runStatus = "completed" => runStatus' \in {"completed", "running"}]_vars

\* A worker that died loses its node: the heartbeat expires and a sweep
\* takes the node out of 'running', also when handlers are cut short.
AbandonedIsRecovered ==
  \A n \in Agent : Abandoned(n) ~> status[n] # "running"

\* A run does not stay 'running' for ever: it completes, or fails and waits
\* for the operator.
RunSettles == runStatus = "running" ~> runStatus \in {"completed", "failed"}

\* A node that ever started had evidence to start from: each dependency has
\* an attempt that completed, also when handlers are cut short.
StartedOnEvidence ==
  \A n \in Node : attemptNo[n] > 0 =>
    \A m \in Upstream(n) :
      \E k \in 1..MaxAttempt : attempt[<<m, k>>].exec = "completed"

\* The attempts of an agent node follow one another, which is what
\* AttemptCredential takes the engine to be: the next begins when all before
\* it have ended, what an attempt came to is never rewritten by a late report
\* or a sweep, and it keeps its authority to its end.
AttemptsSucceed ==
  [][\A n \in Agent, k \in 1..MaxAttempt :
       LET was == attempt[<<n, k>>]
           is  == attempt'[<<n, k>>]
       IN /\ was.exec = "none" /\ is.exec # "none" =>
               \A j \in 1..(k - 1) : attempt[<<n, j>>].exec \in Ended
          /\ was.exec \in Ended => is.exec = was.exec
          /\ was.auth = "active" /\ is.auth # "active" => was.exec \in Ended]_vars

\* What the engine promises an operator (RecoverableWorkflow), when requests do not
\* overlap: the writes of the three tables, of reports, sweeps, retries and
\* evaluations, together take each node from waiting to work and to its end,
\* authority with it, and the run to the one outcome its nodes admit.
StateOf(s) == CASE s = "running" -> "working" [] s = "completed" -> "done"
                [] s = "failed" -> "failed" [] OTHER -> "waiting"
State == [n \in Node |-> StateOf(status[n])]
Armed == {n \in Agent : \E k \in 1..MaxAttempt :
                          attempt[<<n, k>>].auth = "active"}
Promise == INSTANCE RecoverableWorkflow WITH
             outcome <- runStatus, state <- State, armed <- Armed

WorkflowIsKept == Promise!Spec

(* What the documentation says and overlapping requests do not respect.    *)

\* "A superseded first attempt cannot claim success ... and cannot silently
\* overwrite a retried attempt's outcome" (security/threat-model.md): a
\* report settles the node only for the attempt that is current.
SupersededNeverSettles ==
  [][\A t \in Thread : EndNode(t) => attemptNo[call[t].cur[1]] = call[t].cur[2]]_vars

=============================================================================
