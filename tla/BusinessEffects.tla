--------------------------- MODULE BusinessEffects ---------------------------
(***************************************************************************)
(* The five mutating tool routes of a recoverable-DAG run, statement by    *)
(* statement (backend/src/routes/actions.js): the answer cache of an       *)
(* attempt, the business-effect ledger dag_business_effects, the mandate   *)
(* check and the injected faults (mandate.js, migration 013), around one   *)
(* mutation that runs on the agent's own database login.                   *)
(*                                                                         *)
(* The routes share one shape, so an effect stands for an (operation,      *)
(* target, payload) of any of them. Calls the policy denies or that find   *)
(* no active credential end in Admit and change nothing here. The fixed    *)
(* chain, whose calls carry no attempt, is another workflow.               *)
(***************************************************************************)
EXTENDS Integers

CONSTANTS Effect,      \* the business effects the agent may ask for
          Mandate,     \* those the mandate of a bounded credential lists
          NoEffect,
          Thread,      \* calls the process can have in flight at once
          MaxAttempt,  \* bound: attempts of the node
          MaxError,    \* bound: calls that end in an unexpected exception
          MaxOutside,  \* bound: changes made to the orders by somebody else
          MaxRestart   \* bound: restarts of the API process

ASSUME EffectAssumption ==
  /\ Mandate \subseteq Effect /\ NoEffect \notin Effect
  /\ MaxAttempt \in Nat \ {0}
  /\ MaxError \in Nat /\ MaxOutside \in Nat /\ MaxRestart \in Nat

Attempt == 1..MaxAttempt
Profile == {"bad", "good"}
FaultMode == {"none", "fail_before_mutation", "lock_timeout",
              "fail_after_mutation"}
PC == {"idle", "fence", "admit", "before", "claim", "replay", "mandate",
       "release", "read", "mutate", "after", "audit", "record"}
Call == [pc : PC, attempt : Attempt, effect : Effect \cup {NoEffect}]
Idle == [pc |-> "idle", attempt |-> 1, effect |-> NoEffect]

VARIABLES
  profile,   \* state.js profile when the run's credential was issued
  fault,     \* demo_runs.fault_injection_mode
  attempt,   \* the attempt the node's fencing token names
  order,     \* is the record still in the status the mandate starts from?
  ledger,    \* dag_business_effects: no row, a row, a row with its result
  evidence,  \* database_changes rows written for the effect
  applied,   \* times the mutation was committed
  cache,     \* attemptCallCache: the effect whose answer is kept
  call,      \* the locals of each call in flight
  errors, outside, restarts

config == <<profile, fault>>
counts == <<errors, outside, restarts>>
vars == <<config, attempt, order, ledger, evidence, applied, cache, call,
          counts>>

TypeOK ==
  /\ profile \in Profile /\ fault \in FaultMode
  /\ attempt \in Attempt
  /\ order \in [Effect -> {"from", "moved"}]
  /\ ledger \in [Effect -> {"none", "claimed", "done"}]
  /\ evidence \in [Effect -> BOOLEAN]
  /\ applied \in [Effect -> Nat]
  /\ cache \in [Attempt -> Effect \cup {NoEffect}]
  /\ call \in [Thread -> Call]
  /\ errors \in 0..MaxError /\ outside \in 0..MaxOutside
  /\ restarts \in 0..MaxRestart

Init ==
  /\ profile \in Profile /\ fault \in FaultMode
  /\ attempt = 1
  /\ order = [e \in Effect |-> "from"]
  /\ ledger = [e \in Effect |-> "none"]
  /\ evidence = [e \in Effect |-> FALSE]
  /\ applied = [e \in Effect |-> 0]
  /\ cache = [a \in Attempt |-> NoEffect]
  /\ call = [t \in Thread |-> Idle]
  /\ errors = 0 /\ outside = 0 /\ restarts = 0

-----------------------------------------------------------------------------
(* Helpers.                                                                *)

At(t, p) == call[t].pc = p
Go(t, p) == call' = [call EXCEPT ![t].pc = p]
\* The call is answered or has thrown.
Return(t) == call' = [call EXCEPT ![t] = Idle]
Faulty(t, modes) == call[t].attempt = 1 /\ fault \in modes

\* The wrapped res.json keeps every answer below 300 under the attempt's key.
Answer(t) ==
  /\ cache' = [cache EXCEPT ![call[t].attempt] = call[t].effect]
  /\ Return(t)

\* A bounded login makes exactly the listed transitions; the other one any.
Allowed(e) == profile = "good" => e \in Mandate /\ order[e] = "from"
Commit(e) ==
  /\ applied' = [applied EXCEPT ![e] = @ + 1]
  /\ order' = [order EXCEPT ![e] = "moved"]

-----------------------------------------------------------------------------
(* The environment: the agent's calls, a retry, a change from elsewhere.   *)

Send(t, a, e) ==
  /\ At(t, "idle") /\ a <= attempt
  /\ call' = [call EXCEPT ![t] = [pc |-> "fence", attempt |-> a, effect |-> e]]
  /\ UNCHANGED <<config, attempt, order, ledger, evidence, applied, cache,
                 counts>>

\* The node's attempt failed and a retry was claimed (module DagEngine).
NextAttempt ==
  /\ attempt < MaxAttempt
  /\ attempt' = attempt + 1
  /\ UNCHANGED <<config, order, ledger, evidence, applied, cache, call, counts>>

\* A reseed, or a human, changes the record behind e.
ChangeOutside(e) ==
  /\ outside < MaxOutside
  /\ outside' = outside + 1
  /\ order' = [order EXCEPT ![e] = IF @ = "from" THEN "moved" ELSE "from"]
  /\ UNCHANGED <<config, attempt, ledger, evidence, applied, cache, call,
                 errors, restarts>>

-----------------------------------------------------------------------------
(* One call.                                                               *)

\* agentJwtAuth compares the fence in the token with the node's.
Fence(t) ==
  /\ At(t, "fence")
  /\ IF call[t].attempt = attempt THEN Go(t, "admit") ELSE Return(t)
  /\ UNCHANGED <<config, attempt, order, ledger, evidence, applied, cache,
                 counts>>

\* attemptIdempotency, then authorize and requireActiveCredential.
Hit(t) == cache[call[t].attempt] # NoEffect
Admit(t) ==
  /\ At(t, "admit")
  /\ \/ Hit(t) /\ Return(t)
     \/ ~Hit(t) /\ (Go(t, "before") \/ Return(t))
  /\ UNCHANGED <<config, attempt, order, ledger, evidence, applied, cache,
                 counts>>

\* Mutant: the ledger is claimed before the injected fault is looked at.
FaultBeforeLate(t) ==
  /\ At(t, "before")
  /\ IF Faulty(t, {"fail_before_mutation", "lock_timeout"})
       THEN /\ Return(t)
            /\ ledger' = [ledger EXCEPT ![call[t].effect] =
                           IF @ = "none" THEN "claimed" ELSE @]
       ELSE Go(t, "claim") /\ UNCHANGED ledger
  /\ UNCHANGED <<config, attempt, order, evidence, applied, cache, counts>>

\* checkFaultInjection before the claim; only attempt 1 is ever hit.
FaultBefore(t) ==
  /\ At(t, "before")
  /\ IF Faulty(t, {"fail_before_mutation", "lock_timeout"})
       THEN Return(t) ELSE Go(t, "claim")
  /\ UNCHANGED <<config, attempt, order, ledger, evidence, applied, cache,
                 counts>>

\* claimBusinessEffect: INSERT ... ON CONFLICT DO NOTHING. The key holds the
\* run, the node and the effect, and not the attempt.
Claim(t) ==
  /\ At(t, "claim")
  /\ LET e == call[t].effect IN
     IF ledger[e] = "none"
       THEN /\ ledger' = [ledger EXCEPT ![e] = "claimed"]
            /\ Go(t, IF profile = "good" THEN "mandate" ELSE "read")
       ELSE Go(t, "replay") /\ UNCHANGED ledger
  /\ UNCHANGED <<config, attempt, order, evidence, applied, cache, counts>>

\* The row's result is answered or, while it is NULL, the note "already
\* applied by a prior attempt".
Replay(t) ==
  /\ At(t, "replay")
  /\ Answer(t)
  /\ UNCHANGED <<config, attempt, order, ledger, evidence, applied, counts>>

\* checkMandate, by the backend.
CheckMandate(t) ==
  /\ At(t, "mandate")
  /\ Go(t, IF Allowed(call[t].effect) THEN "read" ELSE "release")
  /\ UNCHANGED <<config, attempt, order, ledger, evidence, applied, cache,
                 counts>>

\* A refused change gives its claim back: DELETE ... AND result IS NULL.
Release(t) ==
  /\ At(t, "release")
  /\ ledger' = [ledger EXCEPT ![call[t].effect] =
                 IF @ = "claimed" THEN "none" ELSE @]
  /\ Return(t)
  /\ UNCHANGED <<config, attempt, order, evidence, applied, cache, counts>>

\* SELECT ... the record before the change.
ReadBefore(t) ==
  /\ At(t, "read")
  /\ Go(t, "mutate")
  /\ UNCHANGED <<config, attempt, order, ledger, evidence, applied, cache,
                 counts>>

\* withAgentCredential: PostgreSQL checks the mandate again and raises 42501.
Mutate(t) ==
  /\ At(t, "mutate")
  /\ IF Allowed(call[t].effect)
       THEN Commit(call[t].effect) /\ Go(t, "after")
       ELSE Go(t, "release") /\ UNCHANGED <<order, applied>>
  /\ UNCHANGED <<config, attempt, ledger, evidence, cache, counts>>

FaultAfter(t) ==
  /\ At(t, "after")
  /\ IF Faulty(t, {"fail_after_mutation"}) THEN Return(t) ELSE Go(t, "audit")
  /\ UNCHANGED <<config, attempt, order, ledger, evidence, applied, cache,
                 counts>>

\* recordDatabaseChange, recordToolCall.
Audit(t) ==
  /\ At(t, "audit")
  /\ evidence' = [evidence EXCEPT ![call[t].effect] = TRUE]
  /\ Go(t, "record")
  /\ UNCHANGED <<config, attempt, order, ledger, applied, cache, counts>>

\* recordBusinessEffectResult, and the answer.
Record(t) ==
  /\ At(t, "record")
  /\ ledger' = [ledger EXCEPT ![call[t].effect] =
                 IF @ = "none" THEN @ ELSE "done"]
  /\ Answer(t)
  /\ UNCHANGED <<config, attempt, order, evidence, applied, counts>>

\* Mutant: any exception gives the claim back.
ThrowReleases(t) ==
  /\ ~At(t, "idle") /\ errors < MaxError
  /\ errors' = errors + 1
  /\ ledger' = [ledger EXCEPT ![call[t].effect] =
                 IF @ = "claimed" THEN "none" ELSE @]
  /\ Return(t)
  /\ \/ UNCHANGED <<order, applied>>
     \/ At(t, "mutate") /\ Allowed(call[t].effect) /\ Commit(call[t].effect)
  /\ UNCHANGED <<config, attempt, evidence, cache, outside, restarts>>

\* A statement throws: the lease has ended, a connection is lost. A mutation
\* whose answer is lost may have been committed. Nothing is given back.
Throw(t) ==
  /\ ~At(t, "idle") /\ errors < MaxError
  /\ errors' = errors + 1
  /\ Return(t)
  /\ \/ UNCHANGED <<order, applied>>
     \/ At(t, "mutate") /\ Allowed(call[t].effect) /\ Commit(call[t].effect)
  /\ UNCHANGED <<config, attempt, ledger, evidence, cache, outside, restarts>>

\* Mutant: the ledger is kept in memory, like the cache.
RestartForgets ==
  /\ restarts < MaxRestart
  /\ restarts' = restarts + 1
  /\ call' = [t \in Thread |-> Idle]
  /\ cache' = [a \in Attempt |-> NoEffect]
  /\ ledger' = [e \in Effect |-> "none"]
  /\ UNCHANGED <<config, attempt, order, evidence, applied, errors, outside>>

\* The process restarts: its calls and the cache are lost.
Restart ==
  /\ restarts < MaxRestart
  /\ restarts' = restarts + 1
  /\ call' = [t \in Thread |-> Idle]
  /\ cache' = [a \in Attempt |-> NoEffect]
  /\ UNCHANGED <<config, attempt, order, ledger, evidence, applied, errors,
                 outside>>

-----------------------------------------------------------------------------
Step(t) ==
  \/ Fence(t) \/ Admit(t) \/ FaultBefore(t) \/ Claim(t) \/ Replay(t)
  \/ CheckMandate(t) \/ Release(t) \/ ReadBefore(t) \/ Mutate(t)
  \/ FaultAfter(t) \/ Audit(t) \/ Record(t) \/ Throw(t)

Next ==
  \/ \E t \in Thread : Step(t)
  \/ \E t \in Thread, a \in Attempt, e \in Effect : Send(t, a, e)
  \/ \E e \in Effect : ChangeOutside(e)
  \/ NextAttempt \/ Restart

Spec == Init /\ [][Next]_vars

-----------------------------------------------------------------------------
(* Properties.                                                             *)

\* "A retried node must not double-apply a mutation that already succeeded
\* before the attempt was reported as failed" (docs/security-model.md), and
\* no crash, lost answer or overlap of attempts makes it.
AppliedOnce == \A e \in Effect : applied[e] <= 1

\* A recorded result stands for a change that was made and is in evidence:
\* the ledger row is completed last (recordBusinessEffectResult).
DoneHasEvidence ==
  \A e \in Effect : ledger[e] = "done" => applied[e] > 0 /\ evidence[e]

\* What the ledger answers is true: "already applied by a prior attempt" is
\* said of every row that is there, and a row whose claimant is no longer at
\* work stands for a change that was made, whatever the profile, the
\* injected fault and the outside changes (the ordering of the fault check,
\* the claim and its release in the five routes).
AtWork(e) == \E t \in Thread :
  call[t].effect = e /\ call[t].pc \in {"mandate", "release", "read", "mutate"}

ReplayIsTrue == errors = 0 /\ restarts = 0 =>
  \A e \in Effect : ledger[e] # "none" /\ ~AtWork(e) => applied[e] > 0

\* The routes implement what the ledger promises (EffectLedger): the steps
\* of all calls, exceptions and restarts together make each effect at most
\* once, then show it, then record it, and take nothing back.
Shown == {e \in Effect : evidence[e]}
Recorded == {e \in Effect : ledger[e] = "done"}
Once == INSTANCE EffectLedger WITH
          made <- applied, shown <- Shown, recorded <- Recorded

LedgerIsKept == Once!Spec

=============================================================================
