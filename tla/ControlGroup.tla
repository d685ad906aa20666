----------------------------- MODULE ControlGroup -----------------------------
(***************************************************************************)
(* The credentials of the fixed chain (backend/src/routes/credentials.js,  *)
(* services/revocation.js, vault.js, state.js): agent-c's first request of *)
(* a run is answered by Vault at once, a later one and one that asks for a *)
(* change outside its mandate only after an operator has authorised it     *)
(* through a Control Group, and the root-scoped OAuth path beside both.    *)
(* One process-wide slot holds the active credential and one interval      *)
(* renews it; completion, denial and the end of the run take it back.      *)
(*                                                                         *)
(* A step is the code between two awaits. A renewal tick is one step here; *)
(* module AttemptCredential has its two halves, and the attempt path of    *)
(* the same route.                                                         *)
(***************************************************************************)
EXTENDS Naturals, FiniteSets

CONSTANTS Thread,     \* bound: requests in flight, agent-c's and operators'
          Profile,    \* state.js currentProfile
          MaxTask, MaxRun, MaxLease, MaxApproval \* bounds: how many there ever are

ASSUME ControlAssumption ==
  /\ Profile \in {"bad", "good"}
  /\ {MaxTask, MaxRun, MaxLease, MaxApproval} \subseteq Nat \ {0}

Lease == 1..MaxLease
Approval == 1..MaxApproval
None == 0

Via == {"direct", "approved", "oauth"}
Installing == {"row", "renew"}
Revoking == {"revoke", "mark", "accessor"}
PC == {"idle", "decide", "wrap", "issue", "bind", "oauthslot",
       "approve", "unwrap", "select", "sweep", "newrun", "denied"} \cup Installing \cup Revoking
\* Where an error ends the request; revocation swallows its own.
MayFail == {"decide", "wrap", "issue", "bind", "row", "approve",
            "unwrap"}

VARIABLES
  task,      \* agent-c's open task
  tasks,     \* tasks ever delegated to it
  run,       \* currentRunId
  lease,     \* Vault's leases, with the mandate bound to each one's username
  rows,      \* credential_events: open or revoked
  slot,      \* state.js activeAgentCCredential; `late' and `raced' say how it got there:
             \* for a task that was over, or not as the only one or not to the end
  timer,     \* the lease the renewal interval serves
  approval,  \* Control-Group requests in Vault
  pending,   \* state.js pendingApprovals
  call,      \* the requests in flight
  loose      \* history: might a lease have escaped, because a request and a
             \* switch overlapped or a step failed?

board == <<task, tasks, run>>
vault == <<lease, approval>>
held == <<slot, timer, pending>>
vars == <<board, vault, rows, held, call, loose>>

NoSlot == [lease |-> None, task |-> None,
           late |-> FALSE, raced |-> FALSE]
Idle == [pc |-> "idle", op |-> "none", task |-> None, run |-> 1, lease |-> None,
         approval |-> None, exception |-> FALSE, after |-> FALSE,
         then |-> "idle", todo |-> {}]

SlotRow == [lease : 0..MaxLease, task : 0..MaxTask, late : BOOLEAN, raced : BOOLEAN]
LeaseRow == [status : {"none", "live", "ended"}, task : 0..MaxTask, run : 1..MaxRun,
             via : Via, approval : 0..MaxApproval, after : BOOLEAN,
             mandate : SUBSET {"standard", "exception"}]
ApprovalRow == [status : {"none", "waiting", "approved", "unwrapped", "spent"},
                task : 0..MaxTask, run : 1..MaxRun, exception : BOOLEAN]
Call == [pc : PC, op : {"none", "request", "authorize", "complete", "deny", "switch"},
         task : 0..MaxTask, run : 1..MaxRun, lease : 0..MaxLease,
         approval : 0..MaxApproval, exception : BOOLEAN, after : BOOLEAN, then : PC,
         todo : SUBSET Lease]

TypeOK ==
  /\ task \in 0..MaxTask /\ tasks \in 0..MaxTask /\ run \in 1..MaxRun
  /\ lease \in [Lease -> LeaseRow]
  /\ rows \in [Lease -> {"none", "open", "revoked"}]
  /\ slot \in SlotRow /\ timer \in 0..MaxLease
  /\ approval \in [Approval -> ApprovalRow]
  /\ pending \in SUBSET Approval
  /\ call \in [Thread -> Call]
  /\ loose \in BOOLEAN

Init ==
  /\ task = None /\ tasks = 0 /\ run = 1
  /\ lease = [l \in Lease |-> [status |-> "none", task |-> None, run |-> 1,
                               via |-> "direct", approval |-> None, after |-> FALSE,
                               mandate |-> {}]]
  /\ rows = [l \in Lease |-> "none"]
  /\ slot = NoSlot /\ timer = None /\ pending = {}
  /\ approval = [a \in Approval |-> [status |-> "none", task |-> None, run |-> 1,
                                     exception |-> FALSE]]
  /\ call = [t \in Thread |-> Idle]
  /\ loose = FALSE

-----------------------------------------------------------------------------
At(t, p) == call[t].pc = p
Become(t, c) == call' = [call EXCEPT ![t] = c]
Go(t, p) == Become(t, [call[t] EXCEPT !.pc = p])
Return(t) == Become(t, Idle)
Live(l) == lease[l].status = "live"
Held(l) == slot.lease = l
Recorded(l, r) == rows[l] # "none" /\ lease[l].run = r
InFlight(ops) == \E u \in Thread : call[u].op \in ops

\* Vault answers with a new lease, for the task the request was made under.
VaultIssues(t, via) ==
  \E l \in Lease :
    /\ \A k \in Lease : lease[k].status = "none" <=> k >= l
    /\ lease' = [lease EXCEPT ![l] = [status |-> "live", task |-> call[t].task,
                   run |-> call[t].run, via |-> via, approval |-> call[t].approval,
                   after |-> call[t].after, mandate |-> {}]]
    /\ Become(t, [call[t] EXCEPT !.lease = l,
                                 !.pc = IF via = "oauth" THEN "row" ELSE "bind"])

-----------------------------------------------------------------------------
(* POST /credentials.                                                      *)

Request(t, exception) ==
  /\ At(t, "idle") /\ task # None
  /\ Become(t, [Idle EXCEPT !.pc = "decide", !.op = "request", !.task = task,
                            !.run = run, !.exception = exception,
                            !.after = \E l \in Lease : Recorded(l, run)])
  /\ loose' = (loose \/ InFlight({"switch"}))
  /\ UNCHANGED <<board, vault, rows, held>>

\* Once the authority decision is written the mechanism is read, which
\* PUT /demo/authority-mechanism may change at any time: a request may find
\* either. Each alternative is the next thing the handler waits for.
OauthIssue(t) ==
  /\ At(t, "decide") /\ VaultIssues(t, "oauth")
  /\ UNCHANGED <<board, approval, rows, held, loose>>

\* An exception is a matter of the good profile, and always of a human.
Exception(t) ==
  /\ At(t, "decide") /\ call[t].exception
  /\ IF Profile = "good" THEN Go(t, "wrap") ELSE Return(t)
  /\ UNCHANGED <<board, vault, rows, held, loose>>

\* hasPriorCredentialInRun, which forgets nothing: a revoked credential counts.
PriorOpen(t) ==
  /\ At(t, "decide") /\ ~call[t].exception
  /\ Go(t, IF \E l \in Lease : Recorded(l, call[t].run) /\ rows[l] = "open"
             THEN "wrap" ELSE "issue")
  /\ UNCHANGED <<board, vault, rows, held, loose>>
Prior(t) ==
  /\ At(t, "decide") /\ ~call[t].exception
  /\ Go(t, IF \E l \in Lease : Recorded(l, call[t].run) THEN "wrap" ELSE "issue")
  /\ UNCHANGED <<board, vault, rows, held, loose>>

\* issueSupervisedDatabaseCredential: Vault withholds the lease, and the
\* backend keeps the wrapping token of the request.
Wrap(t) ==
  /\ At(t, "wrap")
  /\ \E a \in Approval :
       /\ \A b \in Approval : approval[b].status = "none" <=> b >= a
       /\ approval' = [approval EXCEPT ![a] = [status |-> "waiting",
             task |-> call[t].task, run |-> call[t].run,
             exception |-> call[t].exception]]
       /\ pending' = pending \cup {a}
  /\ Return(t)
  /\ UNCHANGED <<board, lease, rows, slot, timer, loose>>

Issue(t) ==
  /\ At(t, "issue") /\ VaultIssues(t, "direct")
  /\ UNCHANGED <<board, approval, rows, held, loose>>

\* setActiveAgentCCredential, over whatever was there.
Install(t) ==
  LET c == call[t] IN
  slot' = [lease |-> c.lease, task |-> c.task, late |-> c.task # task,
           raced |-> \E u \in Thread \ {t} : call[u].pc \in Installing]

\* bindCredentialMandate of a good credential, and the slot.
BindAfter(t) ==
  /\ At(t, "bind") /\ Install(t) /\ Go(t, "row")
  /\ UNCHANGED <<board, vault, rows, timer, pending, loose>>
Bind(t) ==
  LET c == call[t] IN
  /\ At(t, "bind")
  /\ lease' = [lease EXCEPT ![c.lease].mandate =
                 IF Profile = "bad" THEN {}
                 ELSE {"standard"} \cup (IF c.exception THEN {"exception"} ELSE {})]
  /\ Install(t)
  /\ Go(t, "row")
  /\ UNCHANGED <<board, approval, rows, timer, pending, loose>>

\* recordCredentialEvent.
Row(t) ==
  /\ At(t, "row")
  /\ rows' = [rows EXCEPT ![call[t].lease] = "open"]
  /\ Go(t, IF lease[call[t].lease].via = "oauth" THEN "oauthslot" ELSE "renew")
  /\ UNCHANGED <<board, vault, held, loose>>

\* The OAuth credential is installed after its event and is not renewed.
OauthSlot(t) ==
  /\ At(t, "oauthslot") /\ Install(t) /\ Return(t)
  /\ UNCHANGED <<board, vault, rows, timer, pending, loose>>

\* startCredentialRenewal; an authorised approval is struck off the list.
RenewalOfFirst(t) ==
  /\ At(t, "renew")
  /\ timer' = (IF timer = None THEN call[t].lease ELSE timer)
  /\ pending' = pending \ {call[t].approval} /\ Return(t)
  /\ UNCHANGED <<board, vault, rows, slot, loose>>
Renewal(t) ==
  /\ At(t, "renew")
  /\ timer' = call[t].lease
  /\ pending' = pending \ {call[t].approval}
  /\ Return(t)
  /\ UNCHANGED <<board, vault, rows, slot, loose>>

-----------------------------------------------------------------------------
(* POST /credentials/pending/:approvalId/authorize. It is struck off last, *)
(* so two operators can both be at it.                                     *)

Authorize(t, a) ==
  /\ At(t, "idle") /\ a \in pending
  /\ Become(t, [Idle EXCEPT !.pc = "approve", !.op = "authorize", !.approval = a,
                  !.task = approval[a].task, !.run = approval[a].run,
                  !.exception = approval[a].exception])
  /\ loose' = (loose \/ InFlight({"switch"}))
  /\ UNCHANGED <<board, vault, rows, held>>

\* authorizeControlGroupRequest: Vault says no once the wrapping token was used,
\* and (Fails) once SUPERVISED_APPROVAL_WINDOW_SECONDS are over.
Approve(t) ==
  LET a == call[t].approval IN
  /\ At(t, "approve")
  /\ IF approval[a].status \in {"waiting", "approved"}
       THEN approval' = [approval EXCEPT ![a].status = "approved"] /\ Go(t, "unwrap")
       ELSE UNCHANGED approval /\ Return(t)
  /\ UNCHANGED <<board, lease, rows, held, loose>>

\* unwrapCredential: a wrapping token works once.
Unwrap(t) ==
  LET a == call[t].approval IN
  /\ At(t, "unwrap")
  /\ IF approval[a].status = "approved"
       THEN /\ approval' = [approval EXCEPT ![a].status = "unwrapped"]
            /\ VaultIssues(t, "approved")
       ELSE UNCHANGED vault /\ Return(t)
  /\ UNCHANGED <<board, rows, held, loose>>

-----------------------------------------------------------------------------
(* Revocation: at the end of a task, on a denial, at the end of a run.     *)

\* cleanupTaskCredentials up to its first await: the slot, if it is the task's.
CleanupTask(t, op, owner) ==
  IF slot.lease # None /\ slot.task \in {None, owner}
    THEN Become(t, [Idle EXCEPT !.pc = "revoke", !.op = op, !.lease = slot.lease,
                      !.then = "accessor"])
    ELSE IF op = "deny" THEN Become(t, [Idle EXCEPT !.pc = "denied", !.lease = slot.lease])
    ELSE UNCHANGED call

\* POST /tasks/:taskId/complete.
CompleteFirst(t) ==
  /\ At(t, "idle") /\ task # None
  /\ task' = None /\ CleanupTask(t, "complete", task')
  /\ UNCHANGED <<tasks, run, vault, rows, held, loose>>
Complete(t) ==
  /\ At(t, "idle") /\ task # None
  /\ task' = None
  /\ CleanupTask(t, "complete", task)
  /\ UNCHANGED <<tasks, run, vault, rows, held, loose>>

\* A tool call outside agent-c's authority: authorize in routes/actions.js,
\* and its 403.
Deny(t) ==
  /\ At(t, "idle") /\ task # None
  /\ CleanupTask(t, "deny", None)
  /\ UNCHANGED <<board, vault, rows, held, loose>>
Denied(t) ==
  /\ At(t, "denied") /\ Return(t)
  /\ UNCHANGED <<board, vault, rows, held, loose>>

\* revokeLease, or Vault's refusal of it, after which nothing is marked. The
\* OAuth lease lives outside the backend's namespace: it is marked and not
\* revoked, and left to expire.
Revoke(t) ==
  LET l == call[t].lease IN
  /\ At(t, "revoke")
  /\ \/ /\ lease' = IF lease[l].via = "oauth" THEN lease
                        ELSE [lease EXCEPT ![l].status = "ended"]
        /\ Go(t, "mark") /\ UNCHANGED loose
     \/ Go(t, call[t].then) /\ loose' = TRUE /\ UNCHANGED lease
  /\ UNCHANGED <<board, approval, rows, held>>

\* markCredentialRevoked: an UPDATE, which finds no row before Row has run.
Mark(t) ==
  LET l == call[t].lease IN
  /\ At(t, "mark")
  /\ rows' = [rows EXCEPT ![l] = IF @ = "none" THEN "none" ELSE "revoked"]
  /\ Go(t, call[t].then)
  /\ UNCHANGED <<board, vault, held, loose>>

\* revokeTokenAccessor takes the token's leases along; a refusal is swallowed.
\* Then clearActiveAgentCCredential, whoever is in the slot by now.
Clear(t) ==
  LET c == call[t]
      accessor == lease[c.lease].via = "direct" IN
  /\ At(t, "accessor")
  /\ \/ /\ lease' = IF accessor THEN [lease EXCEPT ![c.lease].status = "ended"]
                                  ELSE lease
        /\ UNCHANGED loose
     \/ accessor /\ loose' = TRUE /\ UNCHANGED lease
  /\ slot' = NoSlot /\ timer' = None
  /\ IF c.op = "switch" THEN Go(t, "newrun")
     ELSE IF c.op = "deny" THEN Go(t, "denied") ELSE Return(t)
  /\ UNCHANGED <<board, approval, rows, pending>>

\* PUT /demo/mode: cleanupRunCredentials of the run, then the next run.
Switch(t) ==
  /\ At(t, "idle") /\ run < MaxRun
  /\ ~InFlight({"switch"})
  /\ Become(t, [Idle EXCEPT !.pc = "select", !.op = "switch", !.run = run])
  /\ loose' = (loose \/ InFlight({"request", "authorize"}))
  /\ UNCHANGED <<board, vault, rows, held>>

Select(t) ==
  /\ At(t, "select")
  /\ Become(t, [call[t] EXCEPT !.pc = "sweep",
       !.todo = {l \in Lease : rows[l] = "open" /\ lease[l].run = call[t].run}])
  /\ UNCHANGED <<board, vault, rows, held, loose>>

\* One lease after the other, and the slot last.
SweepSlotOnly(t) ==
  LET c == call[t] IN
  /\ At(t, "sweep")
  /\ \/ /\ slot.lease # None
        /\ Become(t, [c EXCEPT !.pc = "revoke", !.lease = slot.lease, !.then = "accessor"])
     \/ slot.lease = None /\ Go(t, "newrun")
  /\ UNCHANGED <<board, vault, rows, held, loose>>
Sweep(t) ==
  LET c == call[t] IN
  /\ At(t, "sweep")
  /\ \/ \E l \in c.todo :
          Become(t, [c EXCEPT !.pc = "revoke", !.lease = l, !.then = "sweep",
                              !.todo = @ \ {l}])
     \/ /\ c.todo = {} /\ slot.lease # None
        /\ Become(t, [c EXCEPT !.pc = "revoke", !.lease = slot.lease, !.then = "accessor"])
     \/ c.todo = {} /\ slot.lease = None /\ Go(t, "newrun")
  /\ UNCHANGED <<board, vault, rows, held, loose>>

\* endRun, setProfile and startRun, then the in-memory state in one go.
NewRun(t) ==
  /\ At(t, "newrun")
  /\ run' = run + 1 /\ task' = None
  /\ slot' = NoSlot /\ timer' = None /\ pending' = {}
  /\ Return(t)
  /\ UNCHANGED <<tasks, vault, rows, loose>>

-----------------------------------------------------------------------------
(* Everything else.                                                        *)

\* agent-b delegates: module FixedChain has the tasks in full.
Delegated ==
  /\ task = None /\ tasks < MaxTask
  /\ task' = tasks + 1 /\ tasks' = tasks + 1
  /\ UNCHANGED <<run, vault, rows, held, call, loose>>

\* A statement or a call is refused, and the request ends where it stands:
\* with its lease in hand, or with a credential installed and not renewed, or
\* with an approval used up and still listed.
Fails(t) ==
  LET c == call[t] IN
  /\ c.pc \in MayFail /\ Return(t)
  /\ loose' = (loose \/ c.pc \in {"bind", "row"})
  /\ slot' = IF c.pc = "row" /\ Held(c.lease) THEN [slot EXCEPT !.raced = TRUE] ELSE slot
  /\ approval' = IF c.op = "authorize" /\ c.lease # None
                   THEN [approval EXCEPT ![c.approval].status = "spent"] ELSE approval
  /\ UNCHANGED <<board, lease, rows, timer, pending>>

\* The interval finds another credential in the slot and stops; or Vault no
\* longer honours the lease and the slot is given up. (A lease that runs out
\* unnoticed stays `live' here, which the properties only make harder.)
Tick ==
  /\ timer # None /\ timer' = None
  /\ IF Held(timer)
       THEN slot' = NoSlot /\ lease' = [lease EXCEPT ![timer].status = "ended"]
       ELSE UNCHANGED <<slot, lease>>
  /\ UNCHANGED <<board, approval, rows, pending, call, loose>>

AgentStep(t) ==
  \/ \E e \in BOOLEAN : Request(t, e)
  \/ Complete(t) \/ Deny(t)
OperatorStep(t) == Switch(t) \/ \E a \in Approval : Authorize(t, a)
Handler(t) ==
  \/ OauthIssue(t) \/ Exception(t) \/ Prior(t) \/ Wrap(t) \/ Issue(t) \/ Bind(t)
  \/ Row(t) \/ OauthSlot(t) \/ Renewal(t) \/ Approve(t) \/ Unwrap(t)
  \/ Revoke(t) \/ Mark(t) \/ Clear(t) \/ Select(t) \/ Sweep(t) \/ NewRun(t)
  \/ Denied(t)

Next ==
  \/ \E t \in Thread : AgentStep(t) \/ OperatorStep(t) \/ Handler(t) \/ Fails(t)
  \/ Delegated \/ Tick

Spec == Init /\ [][Next]_vars

-----------------------------------------------------------------------------
(* Properties.                                                             *)

\* A request made once a credential of the run has been recorded, revoked since
\* or not, gets its credential from a human only (hasPriorCredentialInRun);
\* two requests made before that may both be served at once.
SecondNeedsHuman == \A l \in Lease : lease[l].after => lease[l].via # "direct"

\* A credential in the slot carries its mandate already, and the exception in
\* it only if an operator authorised a request for that exception.
SlotIsBound ==
  slot.lease # None /\ Profile = "good" =>
    LET l == lease[slot.lease] IN
    /\ l.via # "oauth" => "standard" \in l.mandate
    /\ "exception" \in l.mandate => /\ l.approval # None
                                    /\ approval[l.approval].exception
                                    /\ approval[l.approval].status \in {"unwrapped", "spent"}

\* The active credential is the one under renewal, unless two requests
\* installed theirs at once, one failed half-way, or it is the OAuth one.
SlotIsRenewed ==
  /\ slot.lease # None /\ lease[slot.lease].via # "oauth"
  /\ ~slot.raced /\ \A t \in Thread : call[t].pc \notin Installing
  => timer = slot.lease

\* The slot of a task that is over is emptied by its completion, unless it
\* was installed only then: an approval may outlive its task.
EndedTaskHoldsNothing ==
  slot.lease # None /\ slot.task # task =>
    \/ slot.late
    \/ \E t \in Thread : call[t].pc \in Revoking

\* Where no credential is asked for during a switch and nothing is refused, no
\* credential of an earlier run opens the database in the next one, but for
\* the read-only OAuth one that is left to expire.
SwitchLeavesNothing ==
  ~loose => \A l \in Lease : Live(l) /\ lease[l].via # "oauth" => lease[l].run = run
=============================================================================
