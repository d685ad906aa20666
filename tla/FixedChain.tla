------------------------------ MODULE FixedChain ------------------------------
(***************************************************************************)
(* The fixed chain agent-a -> agent-b -> agent-c: the task board the API   *)
(* keeps in memory (backend/src/state.js, routes/tasks.js,                 *)
(* routes/delegations.js), the tokens bound to it (routes/agentToken.js,   *)
(* auth/agentJwt.js, middleware/agentJwtAuth.js) and the agent containers  *)
(* that work on it (agents/src/runtime.js, backendClient.js, tools.js).    *)
(*                                                                         *)
(* A container learns of its task from one event, runs one loop per task,  *)
(* and all its loops share one token slot. What the model is asked and     *)
(* answers is left out: a turn of a loop ends in one tool call, in a       *)
(* delegation, or in a stop. AGENT_TASK_TIMEOUT_MS ends nothing: the race  *)
(* in handleTask only logs and the loop goes on. Module ControlGroup has   *)
(* the credentials of the chain; a profile switch and a reset are here     *)
(* only what they do to the board.                                         *)
(***************************************************************************)
EXTENDS Naturals, FiniteSets

CONSTANTS DefaultProfile, \* config.demo.defaultProfile
          MaxTask,   \* bound: tasks ever created
          MaxRun,    \* bound: runs, and so switches and resets
          MaxTurn,   \* config.maxIterations of the agents
          MaxFault   \* bound: failed inserts, dropped streams, agent restarts

ASSUME ChainAssumption ==
  /\ DefaultProfile \in {"bad", "good"}
  /\ MaxTask \in Nat \ {0} /\ MaxRun \in Nat \ {0}
  /\ MaxTurn \in Nat /\ MaxFault \in Nat

Actor == {"agent-a", "agent-b", "agent-c"}
Profile == {"bad", "good"}
Task == 1..MaxTask
NoTask == 0

ALLOWED_DELEGATIONS == [a \in {"agent-a", "agent-b"} |->
                          IF a = "agent-a" THEN "agent-b" ELSE "agent-c"]
MayDelegate(a) == a \in DOMAIN ALLOWED_DELEGATIONS

\* policy.js, the actions that tell the roles apart.
BASE_AUTHORITY == [a \in {"agent-a", "agent-b"} |->
  IF a = "agent-a" THEN {"orders.read", "delegation.create"}
                   ELSE {"orders.read", "service.restart", "delegation.create"}]
AGENT_C_AUTHORITY == [p \in Profile |->
  IF p = "bad" THEN {"orders.read", "orders.delete", "credential.request"}
               ELSE {"orders.read", "credential.request"}]
Authority == (UNION {BASE_AUTHORITY[a] : a \in DOMAIN BASE_AUTHORITY})
             \cup (UNION {AGENT_C_AUTHORITY[p] : p \in Profile})
effectiveAuthorityFor(a, p) ==
  IF a = "agent-c" THEN AGENT_C_AUTHORITY[p] ELSE BASE_AUTHORITY[a]

\* What a model may put in authority_envelope: nothing of use, or some of it.
Requested == {{}, {"orders.read", "orders.delete"}}

Status == {"none", "open", "done", "cleared"}
PC == {"none", "bootstrap", "fetch", "loop", "delegating", "rebootstrap",
       "complete", "ended"}
Busy == PC \ {"none", "ended"}

VARIABLES
  profile,   \* state.js currentProfile
  run,       \* state.js currentRunId
  phase,     \* a switch or reset between its two effects on the board
  gone,      \* runs whose demo_runs row a reset has deleted
  task,      \* state.js tasks, with what became of each
  current,   \* state.js actorToTaskId
  unsaid,    \* tasks whose creating request has not written its rows yet
  announced, \* tasks whose audit event was written and published
  connected, \* containers with an open event stream
  inbox,     \* published events a container has not read yet
  token,     \* the container's currentAgentToken: its task, and is it unexpired
  loop,      \* handleTask/runLoop of each task
  crossed,   \* history: has an actor had two tasks at a time?
  faults

board == <<task, current, unsaid, announced, crossed>>
agents == <<connected, inbox, token, loop>>
control == <<profile, run, phase, gone>>
vars == <<control, board, agents, faults>>

NoRecord == [status |-> "none", actor |-> "agent-a", parent |-> NoTask,
             trace |-> NoTask, run |-> 1, by |-> NoTask, authority |-> {}]

TypeOK ==
  /\ profile \in Profile /\ run \in 1..MaxRun
  /\ phase \in {"none", "switch", "reset"}
  /\ gone \in SUBSET (1..MaxRun)
  /\ task \in [Task -> [status : Status, actor : Actor, parent : Task \cup {NoTask},
                        trace : Task \cup {NoTask}, run : 1..MaxRun,
                        by : Task \cup {NoTask}, authority : SUBSET Authority]]
  /\ current \in [Actor -> Task \cup {NoTask}]
  /\ unsaid \in SUBSET Task /\ announced \in SUBSET Task
  /\ connected \in SUBSET Actor
  /\ inbox \in [Actor -> SUBSET Task]
  /\ token \in [Actor -> [task : Task \cup {NoTask}, live : BOOLEAN]]
  /\ loop \in [Task -> [pc : PC, turn : 0..MaxTurn, child : Task \cup {NoTask}]]
  /\ crossed \in BOOLEAN /\ faults \in 0..MaxFault

Init ==
  /\ profile = DefaultProfile /\ run = 1 /\ phase = "none" /\ gone = {}
  /\ task = [t \in Task |-> NoRecord]
  /\ current = [a \in Actor |-> NoTask]
  /\ unsaid = {} /\ announced = {}
  /\ connected = Actor
  /\ inbox = [a \in Actor |-> {}]
  /\ token = [a \in Actor |-> [task |-> NoTask, live |-> FALSE]]
  /\ loop = [t \in Task |-> [pc |-> "none", turn |-> 0, child |-> NoTask]]
  /\ crossed = FALSE /\ faults = 0

-----------------------------------------------------------------------------
(* The board and its tokens.                                               *)

Open(t) == t # NoTask /\ task[t].status = "open"
Owner(t) == task[t].actor
At(t, p) == loop[t].pc = p
Ended == [pc |-> "ended", turn |-> 0, child |-> NoTask]
Go(t, p) == loop' = [loop EXCEPT ![t] = IF p = "ended" THEN Ended
                                          ELSE [@ EXCEPT !.pc = p]]
\* randomUUID: identifiers are never reused.
Fresh(t) == task[t].status = "none" /\ \A u \in 1..(t - 1) : task[u].status # "none"

\* Something is still to come of the task: it is on the board, its event or
\* the request that writes it is on the way, or its loop runs.
Live(t) == Open(t) \/ loop[t].pc \in Busy \/ t \in unsaid \/ t \in inbox[Owner(t)]

createTask(t, r) ==
  /\ task' = [task EXCEPT ![t] = r]
  /\ current' = [current EXCEPT ![r.actor] = t]
  /\ unsaid' = unsaid \cup {t}
  /\ crossed' = (crossed \/ \E u \in Task \ {t} :
                   /\ Owner(u) = r.actor /\ task[u].status # "none"
                   /\ Live(u))
  /\ UNCHANGED announced

\* agentJwtAuth: the token's task is still on the board and is the caller's.
Authentic(a) ==
  /\ token[a].live /\ Open(token[a].task) /\ Owner(token[a].task) = a

intersectEnvelopeCeiling(envelope, ceiling) == ceiling
intersectEnvelope(envelope, ceiling) == envelope \cap ceiling

\* The delegate_task tool: what the caller holds, if nothing valid was asked for.
Envelope(t, requested) ==
  LET held == task[t].authority IN
  IF requested \cap held = {} THEN held ELSE requested \cap held

-----------------------------------------------------------------------------
(* Requests to the board.                                                  *)

\* POST /agents/agent-a/tasks up to its first await.
StartTask(t) ==
  /\ Fresh(t)
  /\ createTask(t, [status |-> "open", actor |-> "agent-a", parent |-> NoTask,
                    trace |-> t, run |-> run, by |-> NoTask,
                    authority |-> effectiveAuthorityFor("agent-a", profile)])
  /\ UNCHANGED <<control, agents, faults>>

\* A trace of its own for every hop, as the first version of the route had it.
DelegateFresh(t, n, requested) ==
  LET a == Owner(t)
      to == ALLOWED_DELEGATIONS[a]
      ceiling == effectiveAuthorityFor(to, profile) IN
  /\ At(t, "loop") /\ loop[t].turn < MaxTurn /\ MayDelegate(a)
  /\ Authentic(a) /\ Fresh(n)
  /\ createTask(n, [status |-> "open", actor |-> to, parent |-> NoTask,
                    trace |-> n, run |-> run, by |-> t,
                    authority |-> IF to = "agent-c" /\ profile = "bad" THEN ceiling
                      ELSE intersectEnvelope(Envelope(t, requested), ceiling)])
  /\ loop' = [loop EXCEPT ![t].pc = "delegating", ![t].child = n,
                          ![t].turn = @ + 1]
  /\ UNCHANGED <<control, connected, inbox, token, faults>>

\* POST /delegations up to its first await. The parent is the pointer's task.
Delegate(t, n, requested) ==
  LET a == Owner(t)
      to == ALLOWED_DELEGATIONS[a]
      ceiling == effectiveAuthorityFor(to, profile)
      parent == current[a] IN
  /\ At(t, "loop") /\ loop[t].turn < MaxTurn /\ MayDelegate(a)
  /\ Authentic(a) /\ Fresh(n)
  /\ createTask(n, [status |-> "open", actor |-> to, parent |-> parent,
                    trace |-> IF parent = NoTask THEN n ELSE task[parent].trace,
                    run |-> run, by |-> t,
                    authority |-> IF to = "agent-c" /\ profile = "bad" THEN ceiling
                      ELSE intersectEnvelope(Envelope(t, requested), ceiling)])
  /\ loop' = [loop EXCEPT ![t].pc = "delegating", ![t].child = n,
                          ![t].turn = @ + 1]
  /\ UNCHANGED <<control, connected, inbox, token, faults>>

\* The rows are written: whoever is connected gets the event, and the
\* delegating agent its answer, which ends its own part.
Announce(t) ==
  /\ t \in unsaid /\ task[t].run \notin gone
  /\ unsaid' = unsaid \ {t} /\ announced' = announced \cup {t}
  /\ inbox' = [a \in Actor |-> IF a = Owner(t) /\ a \in connected
                                 THEN inbox[a] \cup {t} ELSE inbox[a]]
  /\ loop' = [u \in Task |-> IF At(u, "delegating") /\ loop[u].child = t
                               THEN Ended ELSE loop[u]]
  /\ UNCHANGED <<control, task, current, crossed, connected, token, faults>>

\* An insert is refused, always when the run's row is gone: the caller gets an
\* error and its loop goes on, but the task stays on the board.
AnnounceFails(t) ==
  /\ t \in unsaid
  /\ task[t].run \in gone \/ faults < MaxFault
  /\ faults' = IF task[t].run \in gone THEN faults ELSE faults + 1
  /\ unsaid' = unsaid \ {t}
  /\ loop' = [u \in Task |-> IF At(u, "delegating") /\ loop[u].child = t
                               THEN [loop[u] EXCEPT !.pc = "loop", !.child = NoTask]
                               ELSE loop[u]]
  /\ UNCHANGED <<control, task, current, announced, crossed, connected, inbox,
                 token>>

\* Without the pointer.
completeTaskOnly(t) ==
  /\ task' = [task EXCEPT ![t].status = "done"]
  /\ UNCHANGED <<current, unsaid, announced, crossed>>

completeTask(t) ==
  /\ task' = [task EXCEPT ![t].status = "done"]
  /\ current' = IF current[Owner(t)] = t
                  THEN [current EXCEPT ![Owner(t)] = NoTask] ELSE current
  /\ UNCHANGED <<unsaid, announced, crossed>>

clearTasks ==
  /\ task' = [t \in Task |-> IF Open(t) THEN [task[t] EXCEPT !.status = "cleared"]
                                        ELSE task[t]]
  /\ current' = [a \in Actor |-> NoTask]
  /\ UNCHANGED <<unsaid, announced, crossed>>

-----------------------------------------------------------------------------
(* The agents.                                                             *)

\* startTaskRuntime: an event starts a loop unless its task has been seen.
Deliver(t) ==
  LET a == Owner(t) IN
  /\ t \in inbox[a]
  /\ inbox' = [inbox EXCEPT ![a] = @ \ {t}]
  /\ IF At(t, "none") THEN Go(t, "bootstrap") ELSE UNCHANGED loop
  /\ UNCHANGED <<control, board, connected, token, faults>>

\* POST /agents/token: bound to the actor's current task, whatever asked for it.
Bootstrap(t) ==
  LET a == Owner(t) IN
  /\ At(t, "bootstrap") \/ At(t, "rebootstrap")
  /\ IF current[a] = NoTask
       THEN Go(t, "ended") /\ UNCHANGED token
       ELSE /\ token' = [token EXCEPT ![a] = [task |-> current[a], live |-> TRUE]]
            /\ Go(t, IF At(t, "bootstrap") THEN "fetch" ELSE "complete")
  /\ UNCHANGED <<control, board, connected, inbox, faults>>

\* GET /tasks/:taskId takes any unexpired agent token (auth/index.js).
Fetch(t) ==
  /\ At(t, "fetch")
  /\ Go(t, IF token[Owner(t)].live /\ Open(t) THEN "loop" ELSE "ended")
  /\ UNCHANGED <<control, board, connected, inbox, token, faults>>

\* A nudge, a tool call, or one that is refused.
Turn(t) ==
  /\ At(t, "loop") /\ loop[t].turn < MaxTurn
  /\ loop' = [loop EXCEPT ![t].turn = @ + 1]
  /\ UNCHANGED <<control, board, connected, inbox, token, faults>>

\* Reports with the token the task began with.
StopStale(t) ==
  /\ At(t, "loop")
  /\ Go(t, "complete")
  /\ UNCHANGED <<control, board, connected, inbox, token, faults>>

\* No further tool call, or AGENT_MAX_ITERATIONS: report with a new token.
Stop(t) ==
  /\ At(t, "loop")
  /\ Go(t, "rebootstrap")
  /\ UNCHANGED <<control, board, connected, inbox, token, faults>>

\* POST /tasks/:taskId/complete. A token of another task is refused.
Complete(t) ==
  /\ At(t, "complete")
  /\ Go(t, "ended")
  /\ IF Authentic(Owner(t)) /\ token[Owner(t)].task = t
       THEN completeTask(t) ELSE UNCHANGED board
  /\ UNCHANGED <<control, connected, inbox, token, faults>>

\* FACTORY_AGENT_JWT_TTL_SECONDS, which outlasts a call but perhaps not a loop.
\* A token whose task is over is refused whether it has expired or not.
TokenExpires(a) ==
  /\ token[a].live /\ Open(token[a].task)
  /\ \E t \in Task : Owner(t) = a /\ At(t, "loop")
  /\ \A t \in Task : Owner(t) = a => ~At(t, "fetch") /\ ~At(t, "complete")
  /\ token' = [token EXCEPT ![a].live = FALSE]
  /\ UNCHANGED <<control, board, connected, inbox, loop, faults>>

\* The stream drops: what it held is lost and nothing replays it.
Disconnect(a) ==
  /\ a \in connected /\ faults < MaxFault
  /\ connected' = connected \ {a} /\ inbox' = [inbox EXCEPT ![a] = {}]
  /\ faults' = faults + 1
  /\ UNCHANGED <<control, board, token, loop>>
Reconnect(a) ==
  /\ a \notin connected
  /\ connected' = connected \cup {a}
  /\ UNCHANGED <<control, board, inbox, token, loop, faults>>

\* A container restarts: its loops, its token and processedTaskIds are lost.
RestartAgent(a) ==
  /\ faults < MaxFault /\ faults' = faults + 1
  /\ connected' = connected \ {a} /\ inbox' = [inbox EXCEPT ![a] = {}]
  /\ token' = [token EXCEPT ![a] = [task |-> NoTask, live |-> FALSE]]
  /\ loop' = [t \in Task |-> IF Owner(t) = a /\ loop[t].pc \in Busy
                               THEN Ended ELSE loop[t]]
  /\ UNCHANGED <<control, board>>

-----------------------------------------------------------------------------
(* A profile switch sets the profile, then awaits, then starts its run and *)
(* clears the board in one go. A reset deletes every run and clears the    *)
(* board, then awaits, then starts its run.                                *)

SwitchProfile(p) ==
  /\ phase = "none" /\ run < MaxRun
  /\ profile' = p /\ phase' = "switch"
  /\ UNCHANGED <<run, gone, board, agents, faults>>
SwitchRun ==
  /\ phase = "switch"
  /\ run' = run + 1 /\ phase' = "none" /\ clearTasks
  /\ UNCHANGED <<profile, gone, agents, faults>>
\* The rows of the old runs are kept.
ResetBoardKeepsRuns ==
  /\ phase = "none" /\ run < MaxRun
  /\ phase' = "reset" /\ clearTasks
  /\ UNCHANGED <<profile, run, gone, agents, faults>>
ResetBoard ==
  /\ phase = "none" /\ run < MaxRun
  /\ gone' = 1..run /\ phase' = "reset" /\ clearTasks
  /\ UNCHANGED <<profile, run, agents, faults>>
ResetRun ==
  /\ phase = "reset"
  /\ run' = run + 1 /\ phase' = "none"
  /\ UNCHANGED <<profile, gone, board, agents, faults>>

Requests(t) == Announce(t) \/ AnnounceFails(t)
Runtime(t) ==
  \/ Deliver(t) \/ Bootstrap(t) \/ Fetch(t) \/ Turn(t) \/ Stop(t) \/ Complete(t)
  \/ \E n \in Task, requested \in Requested : Delegate(t, n, requested)

Next ==
  \/ \E t \in Task : StartTask(t) \/ Requests(t) \/ Runtime(t)
  \/ \E a \in Actor : TokenExpires(a) \/ Disconnect(a) \/ Reconnect(a)
                      \/ RestartAgent(a)
  \/ \E p \in Profile : SwitchProfile(p)
  \/ SwitchRun \/ ResetBoard \/ ResetRun

\* Handlers run to their end, a stream is read, the model answers, the
\* container's own code goes on; nobody owes a task, a switch or a fault.
Fairness == \A t \in Task : WF_vars(Requests(t) \/ Runtime(t))

Spec == Init /\ [][Next]_vars
FairSpec == Spec /\ Fairness

-----------------------------------------------------------------------------
(* Properties.                                                             *)

\* The task an actor's pointer names is on the board and is that actor's: a
\* token is never bound to a completed task or to somebody else's
\* (state.js completeTask, late completion of an older task included).
PointerIsOpen ==
  \A a \in Actor : current[a] # NoTask =>
    Open(current[a]) /\ Owner(current[a]) = a

\* An actor loses its pointer only with the task it points to: the late
\* completion of an older task leaves the newer one alone.
NewerTaskSurvives ==
  [][\A a \in Actor : current[a] # NoTask /\ current'[a] = NoTask =>
       task'[current[a]].status # "open"]_vars

\* A task the agents were told of belongs to the current run while it is on
\* the board: no switch or reset lets an announced task into the next run,
\* although requests that began before it write their rows after it.
AnnouncedIsCurrent ==
  \A t \in announced : Open(t) => task[t].run = run

\* While no actor has two tasks at a time, the pointer is as good as a task
\* id in the call (the claim of state.js on actorToTaskId): what a loop does
\* is done under its own task, and a child's parent is the task whose loop
\* delegated it, on the human task's trace.
ContextIsAccurate ==
  ~crossed => \A t \in Task :
    /\ loop[t].pc \in Busy /\ Authentic(Owner(t)) => token[Owner(t)].task = t
    /\ task[t].by # NoTask => /\ task[t].parent = task[t].by
                              /\ task[t].trace = task[task[t].by].trace
                              /\ task[t].run = task[task[t].by].run

\* Authority does not grow across a hop: agent-b gets nothing agent-a's task
\* does not hold, nor agent-c in the good profile beyond agent-b's, and nobody
\* more than the role's ceiling (delegations.js; the bad role is the exception).
AuthorityNeverGrows ==
  \A t \in Task : task[t].by # NoTask =>
    /\ \E p \in Profile : task[t].authority \subseteq effectiveAuthorityFor(Owner(t), p)
    /\ \/ task[t].authority \subseteq task[task[t].by].authority
       \/ Owner(t) = "agent-c" /\ task[t].authority = AGENT_C_AUTHORITY["bad"]

\* A remediation task that agent-c was told of ends: unless something failed
\* or an actor had two tasks at a time, its loop reports completion, with a
\* token that may have expired on the way (runtime.js reportCompletion).
RemediationEnds ==
  \A t \in Task :
    (Open(t) /\ Owner(t) = "agent-c") ~> (~Open(t) \/ crossed \/ faults > 0)
=============================================================================
