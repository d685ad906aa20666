------------------------- MODULE AttemptCredential -------------------------
(***************************************************************************)
(* The database credentials of a recoverable-DAG run, from issue to end:   *)
(*   backend/src/routes/credentials.js    POST /credentials of an attempt, *)
(*   backend/src/services/revocation.js   revokeAttempt, the renewal timer *)
(*                                        and cleanupRunCredentials,       *)
(*   backend/src/state.js                 the one active-credential slot,  *)
(*   backend/src/routes/actions.js        the tool calls that use the slot,*)
(*   backend/src/routes/demo.js, index.js reset, profile switch, startup.  *)
(*                                                                         *)
(* A credential is known in four places that separate statements write:    *)
(* Vault (the lease), dag_node_attempts (vault_lease_id), the slot and its *)
(* timer in memory, and credential_events. The engine is reduced to what   *)
(* it does to the attempts of the one node that asks for credentials       *)
(* (`remediate`): attempt k + 1 starts after k has ended. A child token is *)
(* counted with its lease: revoking its accessor ends the lease.           *)
(***************************************************************************)
EXTENDS Integers, FiniteSets

CONSTANTS MaxAttempt,  \* bound: attempts of the node
          MaxRequest,  \* bound: credentials issued to one attempt
          Thread,      \* requests the process can have in flight at once
          MaxRefusal,  \* bound: Vault calls that fail
          MaxRestart   \* bound: restarts of the API process

ASSUME CredentialBounds ==
  /\ MaxAttempt \in Nat \ {0} /\ MaxRequest \in Nat \ {0}
  /\ MaxRefusal \in Nat /\ MaxRestart \in Nat

Attempt == 1..MaxAttempt
\* The i-th credential of attempt a is the lease <<a, i>>.
Lease   == Attempt \X (1..MaxRequest)
NoLease == <<0, 0>>
Owner(l) == l[1]

PC == {"idle", "context", "issue", "record", "install", "event", "renewal",
       "read", "lease", "mark", "accessor", "update",
       "fence", "take", "mutate",
       "leases", "cleanLease", "cleanMark", "cleanSlot", "cleanAccessor",
       "wipe", "finish"}
Op == {"none", "reset", "switch"}
Call == [pc : PC, op : Op, attempt : Attempt \cup {0},
         lease : Lease \cup {NoLease}, todo : SUBSET Lease]
Idle == [pc |-> "idle", op |-> "none", attempt |-> 0, lease |-> NoLease,
         todo |-> {}]

VARIABLES
  run,       \* the run: live; ended and then replaced by a profile switch;
             \* or its rows deleted by a reset
  exec,      \* dag_node_attempts.execution_status: none, running, ended
  auth,      \* dag_node_attempts.authority_status
  rowLease,  \* dag_node_attempts.vault_lease_id
  event,     \* credential_events: none, open, revoked (revoked_at set)
  vault,     \* the lease in Vault: none, valid, gone
  slot,      \* state.js activeAgentCCredential
  timer,     \* the lease of the live renewal interval
  ticks,     \* the leases whose renewal is awaiting Vault
  call,      \* the locals of each request in flight
  refusals, restarts

memory == <<slot, timer, ticks>>
rows == <<exec, auth, rowLease>>
counts == <<refusals, restarts>>
vars == <<run, rows, event, vault, memory, call, counts>>

TypeOK ==
  /\ run \in {"live", "ended", "switched", "reset"}
  /\ exec \in [Attempt -> {"none", "running", "ended"}]
  /\ auth \in [Attempt -> {"none", "active", "revoked"}]
  /\ rowLease \in [Attempt -> Lease \cup {NoLease}]
  /\ event \in [Lease -> {"none", "open", "revoked"}]
  /\ vault \in [Lease -> {"none", "valid", "gone"}]
  /\ {slot, timer} \subseteq Lease \cup {NoLease} /\ ticks \subseteq Lease
  /\ call \in [Thread -> Call]
  /\ refusals \in 0..MaxRefusal /\ restarts \in 0..MaxRestart

Init ==
  /\ run = "live"
  /\ exec = [a \in Attempt |-> "none"] /\ auth = [a \in Attempt |-> "none"]
  /\ rowLease = [a \in Attempt |-> NoLease]
  /\ event = [l \in Lease |-> "none"] /\ vault = [l \in Lease |-> "none"]
  /\ slot = NoLease /\ timer = NoLease /\ ticks = {}
  /\ call = [t \in Thread |-> Idle]
  /\ refusals = 0 /\ restarts = 0

-----------------------------------------------------------------------------
(* Helpers.                                                                *)

At(t, p) == call[t].pc = p
Become(t, locals) == call' = [call EXCEPT ![t] = locals]
Go(t, p) == Become(t, [call[t] EXCEPT !.pc = p])
Valid(l) == l # NoLease /\ vault[l] = "valid"
Current(a) == exec[a] # "none" /\ \A b \in Attempt : b > a => exec[b] = "none"

\* A Vault call that ends lease l: 400 and 404 count as success.
VaultEnds(l) ==
  /\ vault' = IF Valid(l) THEN [vault EXCEPT ![l] = "gone"] ELSE vault
  /\ UNCHANGED refusals
VaultFails ==
  /\ refusals < MaxRefusal
  /\ refusals' = refusals + 1
  /\ UNCHANGED vault

\* clearActiveAgentCCredential: the slot and, with it, the interval.
Forget == slot' = NoLease /\ timer' = NoLease

-----------------------------------------------------------------------------
(* The engine, as far as it reaches the attempts of the node.              *)

\* Mutant: the retry does not wait for the end of the attempt before it.
StartAttemptEarly(a) ==
  /\ run = "live"
  /\ \E t \in Thread : At(t, "idle")
  /\ exec[a] = "none"
  /\ a > 1 => exec[a - 1] # "none"
  /\ exec' = [exec EXCEPT ![a] = "running"]
  /\ auth' = [auth EXCEPT ![a] = "active"]
  /\ UNCHANGED <<run, rowLease, event, vault, memory, call, counts>>

\* A claim; the retry that made the node claimable again was a request of
\* its own, so some request slot is free by now.
StartAttempt(a) ==
  /\ run = "live"
  /\ \E t \in Thread : At(t, "idle")
  /\ exec[a] = "none"
  /\ a > 1 => exec[a - 1] = "ended"
  /\ exec' = [exec EXCEPT ![a] = "running"]
  /\ auth' = [auth EXCEPT ![a] = "active"]
  /\ UNCHANGED <<run, rowLease, event, vault, memory, call, counts>>

\* completeAttempt, failAttempt or the watchdog ends attempt a and calls
\* revokeAttempt.
EndAttempt(t, a) ==
  /\ run # "reset"
  /\ At(t, "idle")
  /\ exec[a] = "running"
  /\ exec' = [exec EXCEPT ![a] = "ended"]
  /\ Become(t, [Idle EXCEPT !.pc = "read", !.attempt = a])
  /\ UNCHANGED <<run, auth, rowLease, event, vault, memory, counts>>

-----------------------------------------------------------------------------
(* POST /credentials with the JWT of an attempt.                           *)

Issued(a) == {l \in Lease : Owner(l) = a /\ vault[l] # "none"}
Asking(a) ==
  {t \in Thread : call[t].attempt = a /\ call[t].pc \in {"context", "issue"}}

\* agentJwtAuth lets the current attempt of the node pass; the request is for
\* the current run, or no context is found.
RequestCredential(t, a) ==
  /\ At(t, "idle")
  /\ run \in {"live", "ended"}
  /\ Current(a)
  /\ Cardinality(Issued(a)) + Cardinality(Asking(a)) < MaxRequest
  /\ Become(t, [Idle EXCEPT !.pc = "context", !.attempt = a])
  /\ UNCHANGED <<run, rows, event, vault, memory, counts>>

\* getAttemptDagContext. Without a context the request falls through to the
\* fixed-chain path, where Vault's Sentinel policy refuses a token that
\* carries no task: nothing is issued.
Context(t) ==
  /\ At(t, "context")
  /\ LET a == call[t].attempt IN
     IF run # "reset" /\ exec[a] = "running" /\ auth[a] = "active"
       THEN Go(t, "issue") ELSE Become(t, Idle)
  /\ UNCHANGED <<run, rows, event, vault, memory, counts>>

\* issueDatabaseCredential: a child token and a fresh lease, or an exception.
Issue(t) ==
  /\ At(t, "issue")
  /\ \/ \E l \in Lease :
          /\ Owner(l) = call[t].attempt /\ vault[l] = "none"
          /\ vault' = [vault EXCEPT ![l] = "valid"]
          /\ Become(t, [call[t] EXCEPT !.pc = "record", !.lease = l])
          /\ UNCHANGED refusals
     \/ VaultFails /\ Become(t, Idle)
  /\ UNCHANGED <<run, rows, event, memory, restarts>>

\* Mutant: the lease is not written to the attempt's row.
RecordNothing(t) ==
  /\ At(t, "record")
  /\ Go(t, "install")
  /\ UNCHANGED <<run, rows, event, vault, memory, counts>>

\* UPDATE dag_node_attempts SET vault_lease_id: no condition on the status
\* of the attempt, and it replaces the lease of an earlier request.
Record(t) ==
  /\ At(t, "record")
  /\ rowLease' = IF run = "reset" THEN rowLease
                 ELSE [rowLease EXCEPT ![call[t].attempt] = call[t].lease]
  /\ Go(t, "install")
  /\ UNCHANGED <<run, exec, auth, event, vault, memory, counts>>

\* After the mandate is bound: setActiveAgentCCredential. The interval of the
\* credential it replaces is left alone. Under the GOOD profile a mandate is
\* recorded first, which fails once a reset has deleted the run.
Install(t) ==
  /\ At(t, "install")
  /\ \/ slot' = call[t].lease /\ Go(t, "event")
     \/ run = "reset" /\ Become(t, Idle) /\ UNCHANGED slot
  /\ UNCHANGED <<run, rows, event, vault, timer, ticks, counts>>

\* Mutant: no evidence is kept for an attempt that has ended meanwhile.
EventUnlessEnded(t) ==
  /\ At(t, "event")
  /\ event' = IF run = "reset" \/ exec[call[t].attempt] # "running" THEN event
              ELSE [event EXCEPT ![call[t].lease] = "open"]
  /\ Go(t, "renewal")
  /\ UNCHANGED <<run, rows, vault, memory, counts>>

\* recordCredentialEvent; after a reset its foreign key fails.
Event(t) ==
  /\ At(t, "event")
  /\ IF run = "reset"
       THEN /\ Become(t, Idle) /\ UNCHANGED event
       ELSE /\ event' = [event EXCEPT ![call[t].lease] = "open"]
            /\ Go(t, "renewal")
  /\ UNCHANGED <<run, rows, vault, memory, counts>>

\* startCredentialRenewal: setRenewalTimer stops the interval before it.
Renewal(t) ==
  /\ At(t, "renewal")
  /\ timer' = call[t].lease
  /\ Become(t, Idle)
  /\ UNCHANGED <<run, rows, event, vault, slot, ticks, counts>>

-----------------------------------------------------------------------------
(* The renewal interval.                                                   *)

\* The callback first looks whether its credential is still the active one.
Tick ==
  /\ timer \notin ticks \cup {NoLease}
  /\ IF slot = timer
       THEN ticks' = ticks \cup {timer} /\ UNCHANGED timer
       ELSE timer' = NoLease /\ UNCHANGED ticks
  /\ UNCHANGED <<run, rows, event, vault, slot, call, counts>>

\* Mutant: a failed renewal is only logged.
TickDoneLogged(l) ==
  /\ l \in ticks
  /\ ticks' = ticks \ {l}
  /\ \/ UNCHANGED refusals
     \/ VaultFails
  /\ UNCHANGED <<run, rows, event, vault, slot, timer, call, restarts>>

\* The renewal of l is answered: granted, or the slot is cleared, whatever
\* credential it holds by then.
TickDone(l) ==
  /\ l \in ticks
  /\ ticks' = ticks \ {l}
  /\ \/ Valid(l) /\ UNCHANGED <<slot, timer, refusals>>
     \/ ~Valid(l) /\ Forget /\ UNCHANGED refusals
     \/ VaultFails /\ Forget
  /\ UNCHANGED <<run, rows, event, vault, call, restarts>>

\* A lease ends by itself: at its TTL or, renewed, at its max_ttl.
Expire(l) ==
  /\ Valid(l)
  /\ vault' = [vault EXCEPT ![l] = "gone"]
  /\ UNCHANGED <<run, rows, event, memory, call, counts>>

-----------------------------------------------------------------------------
(* revokeAttempt.                                                          *)

ReadAttempt(t) ==
  /\ At(t, "read")
  /\ LET a == call[t].attempt IN
     IF run = "reset" \/ auth[a] = "revoked" THEN Become(t, Idle)
     ELSE Become(t, [call[t] EXCEPT
            !.pc = IF rowLease[a] = NoLease THEN "update" ELSE "lease",
            !.lease = rowLease[a]])
  /\ UNCHANGED <<run, rows, event, vault, memory, counts>>

\* Mutant: the evidence row is marked before Vault has answered.
RevokeLeaseMarked(t) ==
  /\ At(t, "lease")
  /\ VaultEnds(call[t].lease) \/ VaultFails
  /\ Go(t, "mark")
  /\ UNCHANGED <<run, rows, event, memory, restarts>>

\* revokeCredentialLease: what Vault throws is swallowed.
RevokeLease(t) ==
  /\ At(t, "lease")
  /\ \/ VaultEnds(call[t].lease) /\ Go(t, "mark")
     \/ VaultFails /\ Go(t, "accessor")
  /\ UNCHANGED <<run, rows, event, memory, restarts>>

\* markCredentialRevoked updates the row of the lease, if there is one.
MarkedRevoked(l) ==
  IF event[l] = "none" THEN event ELSE [event EXCEPT ![l] = "revoked"]

MarkRevoked(t) ==
  /\ At(t, "mark")
  /\ event' = MarkedRevoked(call[t].lease)
  /\ Go(t, "accessor")
  /\ UNCHANGED <<run, rows, vault, memory, counts>>

RevokeAccessor(t) ==
  /\ At(t, "accessor")
  /\ VaultEnds(call[t].lease) \/ VaultFails
  /\ Go(t, "update")
  /\ UNCHANGED <<run, rows, event, memory, restarts>>

UpdateRevoked(t) ==
  /\ At(t, "update")
  /\ auth' = IF run = "reset" THEN auth
             ELSE [auth EXCEPT ![call[t].attempt] = "revoked"]
  /\ Become(t, Idle)
  /\ UNCHANGED <<run, exec, rowLease, event, vault, memory, counts>>

-----------------------------------------------------------------------------
(* A mutating tool call of an attempt.                                     *)

CallTool(t, a) ==
  /\ At(t, "idle")
  /\ exec[a] # "none"
  /\ Become(t, [Idle EXCEPT !.pc = "fence", !.attempt = a])
  /\ UNCHANGED <<run, rows, event, vault, memory, counts>>

\* agentJwtAuth: the attempt must be the current one of its node.
Fence(t) ==
  /\ At(t, "fence")
  /\ IF run # "reset" /\ Current(call[t].attempt)
       THEN Go(t, "take") ELSE Become(t, Idle)
  /\ UNCHANGED <<run, rows, event, vault, memory, counts>>

\* requireActiveCredential, after the decision is recorded: the slot, with no
\* question of which attempt it was issued to.
Take(t) ==
  /\ At(t, "take")
  /\ IF slot = NoLease THEN Become(t, Idle)
     ELSE Become(t, [call[t] EXCEPT !.pc = "mutate", !.lease = slot])
  /\ UNCHANGED <<run, rows, event, vault, memory, counts>>

\* withAgentCredential: PostgreSQL accepts the login while the lease lives.
Mutate(t) ==
  /\ At(t, "mutate")
  /\ Become(t, Idle)
  /\ UNCHANGED <<run, rows, event, vault, memory, counts>>

-----------------------------------------------------------------------------
(* POST /demo/reset and PUT /demo/mode.                                    *)

EndRun(t, op) ==
  /\ At(t, "idle") /\ run = "live"
  /\ Become(t, [Idle EXCEPT !.pc = "leases", !.op = op])
  /\ UNCHANGED <<run, rows, event, vault, memory, counts>>

Open == {l \in Lease : event[l] = "open"}

\* The next step of the loop over the leases that are left.
Cleaning(t, rest) ==
  [call[t] EXCEPT !.pc = IF rest = {} THEN "cleanSlot" ELSE "cleanLease",
                  !.todo = rest, !.lease = NoLease]

\* Mutant: the cleanup trusts the slot to hold all there is to revoke.
SelectNothing(t) ==
  /\ At(t, "leases")
  /\ Become(t, Cleaning(t, {}))
  /\ UNCHANGED <<run, rows, event, vault, memory, counts>>

\* getUnrevokedLeases.
SelectLeases(t) ==
  /\ At(t, "leases")
  /\ Become(t, Cleaning(t, Open))
  /\ UNCHANGED <<run, rows, event, vault, memory, counts>>

CleanLease(t) ==
  /\ At(t, "cleanLease")
  /\ \E l \in call[t].todo :
       LET rest == call[t].todo \ {l} IN
       \/ /\ VaultEnds(l)
          /\ Become(t, [call[t] EXCEPT !.pc = "cleanMark", !.todo = rest,
                                       !.lease = l])
       \/ VaultFails /\ Become(t, Cleaning(t, rest))
  /\ UNCHANGED <<run, rows, event, memory, restarts>>

CleanMark(t) ==
  /\ At(t, "cleanMark")
  /\ event' = MarkedRevoked(call[t].lease)
  /\ Become(t, Cleaning(t, call[t].todo))
  /\ UNCHANGED <<run, rows, vault, memory, counts>>

\* The active credential, if any, is read into a local: lease and accessor
\* are revoked before the slot is cleared.
CleanSlot(t) ==
  /\ At(t, "cleanSlot")
  /\ IF slot = NoLease
       THEN Go(t, "wipe") /\ UNCHANGED <<vault, event, refusals>>
       ELSE /\ Become(t, [call[t] EXCEPT !.pc = "cleanAccessor", !.lease = slot])
            /\ \/ VaultEnds(slot) /\ event' = MarkedRevoked(slot)
               \/ VaultFails /\ UNCHANGED event
  /\ UNCHANGED <<run, rows, memory, restarts>>

CleanAccessor(t) ==
  /\ At(t, "cleanAccessor")
  /\ VaultEnds(call[t].lease) \/ VaultFails
  /\ Forget
  /\ Go(t, "wipe")
  /\ UNCHANGED <<run, rows, event, ticks, restarts>>

\* endRun; the transaction of a reset then deletes the run and, by cascade,
\* its attempts.
Wipe(t) ==
  /\ At(t, "wipe")
  /\ \/ /\ call[t].op = "reset"
        /\ run' = "reset" /\ event' = [l \in Lease |-> "none"]
     \/ /\ call[t].op = "switch"
        /\ run' = (IF run = "live" THEN "ended" ELSE run) /\ UNCHANGED event
  /\ Go(t, "finish")
  /\ UNCHANGED <<rows, vault, memory, counts>>

\* The new run becomes the current one, and the slot is cleared once more.
Finish(t) ==
  /\ At(t, "finish")
  /\ run' = IF run = "ended" THEN "switched" ELSE run
  /\ Forget
  /\ Become(t, Idle)
  /\ UNCHANGED <<rows, event, vault, ticks, counts>>

\* The process restarts: requests, slot and timers are lost. Before it
\* listens again it revokes the open leases of the active run; a lease whose
\* revocation fails stays open.
Restart ==
  /\ restarts < MaxRestart /\ run = "live"
  /\ restarts' = restarts + 1
  /\ call' = [t \in Thread |-> Idle]
  /\ Forget /\ ticks' = {}
  /\ \E failed \in SUBSET Open :
       /\ refusals' = refusals + Cardinality(failed) /\ refusals' <= MaxRefusal
       /\ vault' = [l \in Lease |->
                     IF l \in Open \ failed THEN "gone" ELSE vault[l]]
       /\ event' = [l \in Lease |->
                     IF l \in Open \ failed THEN "revoked" ELSE event[l]]
  /\ UNCHANGED <<run, rows>>

-----------------------------------------------------------------------------
Handler(t) ==
  \/ Context(t) \/ Issue(t) \/ Record(t) \/ Install(t) \/ Event(t)
  \/ Renewal(t)
  \/ ReadAttempt(t) \/ RevokeLease(t) \/ MarkRevoked(t) \/ RevokeAccessor(t)
  \/ UpdateRevoked(t)
  \/ Fence(t) \/ Take(t) \/ Mutate(t)
  \/ SelectLeases(t) \/ CleanLease(t) \/ CleanMark(t) \/ CleanSlot(t)
  \/ CleanAccessor(t) \/ Wipe(t) \/ Finish(t)

Next ==
  \/ \E t \in Thread : Handler(t)
  \/ \E a \in Attempt : StartAttempt(a)
  \/ \E t \in Thread, a \in Attempt :
       EndAttempt(t, a) \/ RequestCredential(t, a) \/ CallTool(t, a)
  \/ \E t \in Thread, op \in {"reset", "switch"} : EndRun(t, op)
  \/ \E l \in Lease : Expire(l)
  \/ Tick \/ (\E l \in Lease : TickDone(l)) \/ Restart

Spec == Init /\ [][Next]_vars

\* The event loop runs started handlers to their end, the interval fires and
\* its calls are answered. Nothing is owed by agents, operators or Vault's
\* clock.
FairSpec ==
  /\ Spec
  /\ \A t \in Thread : WF_vars(Handler(t))
  /\ WF_vars(Tick) /\ \A l \in Lease : WF_vars(TickDone(l))

-----------------------------------------------------------------------------
(* Properties.                                                             *)

Quiet == \A t \in Thread : At(t, "idle")

\* "An attempt's authority never outlives the attempt", as far as the code
\* can reach: once no request is in progress, no live lease of an ended
\* attempt is left in the slot that tool calls read or in the row that
\* revocation reads (issueAndRecordAttemptCredential against revokeAttempt).
\* A lease that a second request of the same attempt displaced from the row
\* is beyond it, until its run is cleaned up or it lapses.
HeldLeaseEnds == Quiet /\ run = "live" =>
  \A l \in Lease :
    Valid(l) /\ l \in {slot, rowLease[Owner(l)]} => auth[Owner(l)] = "active"

\* "Not a skipped revocation or a reused lease": a change is made with a
\* lease that lives only by the attempt it was issued to, although the slot
\* outlives the attempt (requireActiveCredential does not compare them).
NoLeaseReuse ==
  [][\A t \in Thread : Mutate(t) /\ Valid(call[t].lease) =>
       Owner(call[t].lease) = call[t].attempt]_vars

\* After a reset nothing the old run was issued still opens the database.
ResetLeavesNothing == Quiet /\ run = "reset" => \A l \in Lease : ~Valid(l)

\* The evidence is true: no lease is recorded as revoked while it still opens
\* the database, although revocations race with issues, expiry, renewals and
\* each other, and Vault may refuse any of them.
RevokedIsGone == \A l \in Lease : event[l] = "revoked" => ~Valid(l)

\* "Clean up any abandoned Vault leases": with no request in progress, a lease
\* that still opens the database is one the cleanup of its run will list,
\* unless a restart came between its issue and its credential_events row.
ValidIsListed == Quiet /\ run # "reset" /\ restarts = 0 =>
  \A l \in Lease : Valid(l) => event[l] = "open"

\* A slot whose lease is gone is emptied, by the interval's failed renewal
\* if by nothing else: agents are told to ask again instead of failing on a
\* dead login for ever.
DeadSlotIsCleared ==
  \A l \in Lease : slot = l /\ vault[l] = "gone" ~> slot # l

=============================================================================
