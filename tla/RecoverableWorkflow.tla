------------------------- MODULE RecoverableWorkflow -------------------------
(***************************************************************************)
(* What the recoverable DAG promises an operator, with nothing of tables,  *)
(* attempts, fences, reports and sweeps: a node begins when everything it  *)
(* depends on is done and holds no authority any more, and then with       *)
(* authority of its own that no earlier try still has; it ends done or     *)
(* failed, and is disarmed only then; what is done stays done; what failed *)
(* can be retried, disarmed; the run is over when all is done, and it has  *)
(* failed only when nothing can go on. DagEngine implements it as long as  *)
(* requests do not overlap and are not cut short.                          *)
(***************************************************************************)
CONSTANTS Node, Edge,
          Agent    \* the nodes that need authority to do their work

VARIABLES
  outcome,  \* of the run
  state,    \* of each node
  armed     \* the nodes in whose name somebody holds authority

workflowVars == <<outcome, state, armed>>

Init ==
  /\ outcome = "none"
  /\ state = [n \in Node |-> "waiting"]
  /\ armed = {}

Needs(n) == {m \in Node : <<m, n>> \in Edge}
Ready(n) == state[n] = "waiting" /\ \A m \in Needs(n) : state[m] = "done"

Open ==
  /\ outcome = "none"
  /\ outcome' = "running"
  /\ UNCHANGED <<state, armed>>

Begin(n) ==
  /\ outcome = "running"
  /\ Ready(n) /\ armed \cap (Needs(n) \cup {n}) = {}
  /\ state' = [state EXCEPT ![n] = "working"]
  /\ armed' = armed \cup ({n} \cap Agent)
  /\ UNCHANGED outcome

Finish(n) ==
  /\ outcome = "running"
  /\ state[n] = "working"
  /\ \E s \in {"done", "failed"} : state' = [state EXCEPT ![n] = s]
  /\ UNCHANGED <<outcome, armed>>

Disarm(n) ==
  /\ n \in armed /\ state[n] \in {"done", "failed"}
  /\ armed' = armed \ {n}
  /\ UNCHANGED <<outcome, state>>

Retry(n) ==
  /\ outcome \in {"running", "failed"}
  /\ state[n] = "failed" /\ n \notin armed
  /\ state' = [state EXCEPT ![n] = "waiting"]
  /\ UNCHANGED <<outcome, armed>>

Reopen ==
  /\ outcome = "failed"
  /\ \E n \in Node : state[n] = "waiting"
  /\ outcome' = "running"
  /\ UNCHANGED <<state, armed>>

Succeed ==
  /\ outcome = "running"
  /\ \A n \in Node : state[n] = "done"
  /\ outcome' = "completed"
  /\ UNCHANGED <<state, armed>>

GiveUp ==
  /\ outcome = "running"
  /\ \E n \in Node : state[n] = "failed"
  /\ \A n \in Node : state[n] # "working" /\ ~Ready(n)
  /\ outcome' = "failed"
  /\ UNCHANGED <<state, armed>>

Next ==
  \/ Open \/ Reopen \/ Succeed \/ GiveUp
  \/ \E n \in Node : Begin(n) \/ Finish(n) \/ Disarm(n) \/ Retry(n)

Spec == Init /\ [][Next]_workflowVars
=============================================================================
