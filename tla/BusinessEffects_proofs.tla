----------------------- MODULE BusinessEffects_proofs -----------------------
(***************************************************************************)
(* Proofs about BusinessEffects, for any sets of effects and threads and   *)
(* any number of attempts, exceptions, outside changes and restarts.       *)
(*                                                                         *)
(* Main results: Spec => []AppliedOnce, no business effect is applied      *)
(* twice, and Spec => []DoneHasEvidence. AppliedOnce is not inductive: it  *)
(* says nothing of the ledger. What carries it is that a call between its  *)
(* claim and its mutation owns the row of its effect alone (OneOwner),     *)
(* that the row is there and the change not yet made (OwnersHold), and     *)
(* that an effect without a row was never applied (UnclaimedIsUnapplied).  *)
(***************************************************************************)
EXTENDS BusinessEffects, TLAPS

\* Between a claim and the mutation, or the claim's release.
Owns(t) == call[t].pc \in {"mandate", "release", "read", "mutate"}
\* Past the mutation.
Finishes(t) == call[t].pc \in {"after", "audit", "record"}

CallsHaveEffects ==
  \A t \in Thread : call[t].pc # "idle" => call[t].effect \in Effect
OwnersHold ==
  \A t \in Thread : Owns(t) =>
    /\ ledger[call[t].effect] = "claimed"
    /\ applied[call[t].effect] = 0
OneOwner ==
  \A t, u \in Thread :
    Owns(t) /\ Owns(u) /\ call[t].effect = call[u].effect => t = u
UnclaimedIsUnapplied ==
  \A e \in Effect : ledger[e] = "none" => applied[e] = 0
FinishersApplied ==
  \A t \in Thread : Finishes(t) =>
    /\ applied[call[t].effect] > 0
    /\ call[t].pc = "record" => evidence[call[t].effect]

LedgerInv ==
  /\ TypeOK
  /\ CallsHaveEffects
  /\ OwnersHold
  /\ OneOwner
  /\ UnclaimedIsUnapplied
  /\ FinishersApplied
  /\ AppliedOnce
  /\ DoneHasEvidence

\* What the calls know and the rows hold, the part that says more than types.
Facts ==
  /\ OwnersHold /\ OneOwner /\ UnclaimedIsUnapplied /\ FinishersApplied
  /\ AppliedOnce /\ DoneHasEvidence

-----------------------------------------------------------------------------
(* Types.                                                                  *)

LEMMA GoFacts ==
  ASSUME call \in [Thread -> Call], NEW t \in Thread, NEW p \in PC, Go(t, p)
  PROVE  /\ call' \in [Thread -> Call]
         /\ call'[t].pc = p /\ call'[t].effect = call[t].effect
         /\ \A u \in Thread : u # t => call'[u] = call[u]
BY DEF Go, Call

LEMMA ReturnFacts ==
  ASSUME call \in [Thread -> Call], NEW t \in Thread, Return(t)
  PROVE  /\ call' \in [Thread -> Call]
         /\ call'[t].pc = "idle"
         /\ \A u \in Thread : u # t => call'[u] = call[u]
BY EffectAssumption DEF Return, Call, Idle, PC, Attempt

LEMMA CommitFacts ==
  ASSUME TypeOK, NEW e \in Effect, Commit(e)
  PROVE  /\ applied' \in [Effect -> Nat] /\ order' \in [Effect -> {"from", "moved"}]
         /\ applied'[e] = applied[e] + 1
         /\ \A f \in Effect : f # e => applied'[f] = applied[f]
BY DEF Commit, TypeOK

\* The two kinds of move a call makes: it goes on to a named statement with
\* its effect unchanged, or it returns.
Moves(t, p) ==
  /\ call' \in [Thread -> Call]
  /\ call'[t].pc = p
  /\ p # "idle" => call'[t].effect = call[t].effect
  /\ \A u \in Thread : u # t => call'[u] = call[u]

LEMMA GoMoves ==
  ASSUME call \in [Thread -> Call], NEW t \in Thread, NEW p \in PC, Go(t, p)
  PROVE  Moves(t, p)
BY GoFacts DEF Moves

LEMMA ReturnMoves ==
  ASSUME call \in [Thread -> Call], NEW t \in Thread, Return(t)
  PROVE  Moves(t, "idle")
BY ReturnFacts DEF Moves

\* What each statement of a call does to the call.
LEMMA StepMoves ==
  ASSUME TypeOK, NEW t \in Thread
  PROVE  /\ Fence(t) => Moves(t, "admit") \/ Moves(t, "idle")
         /\ Admit(t) => Moves(t, "before") \/ Moves(t, "idle")
         /\ FaultBefore(t) => Moves(t, "claim") \/ Moves(t, "idle")
         /\ Replay(t) \/ Release(t) \/ Record(t) \/ Throw(t) => Moves(t, "idle")
         /\ CheckMandate(t) => Moves(t, "read") \/ Moves(t, "release")
         /\ ReadBefore(t) => Moves(t, "mutate")
         /\ FaultAfter(t) => Moves(t, "audit") \/ Moves(t, "idle")
         /\ Audit(t) => Moves(t, "record")
<1>1. call \in [Thread -> Call]
  BY DEF TypeOK
<1>2. {"admit", "before", "claim", "read", "release", "mutate", "audit",
       "record"} \subseteq PC
  BY DEF PC
<1>3. Fence(t) => Moves(t, "admit") \/ Moves(t, "idle")
  BY <1>1, <1>2, GoMoves, ReturnMoves DEF Fence
<1>4. Admit(t) => Moves(t, "before") \/ Moves(t, "idle")
  BY <1>1, <1>2, GoMoves, ReturnMoves DEF Admit
<1>5. FaultBefore(t) => Moves(t, "claim") \/ Moves(t, "idle")
  BY <1>1, <1>2, GoMoves, ReturnMoves DEF FaultBefore
<1>6. Replay(t) \/ Release(t) \/ Record(t) \/ Throw(t) => Moves(t, "idle")
  BY <1>1, ReturnMoves DEF Replay, Release, Record, Throw, Answer
<1>7. CheckMandate(t) => Moves(t, "read") \/ Moves(t, "release")
  BY <1>1, <1>2, GoMoves DEF CheckMandate
<1>8. ReadBefore(t) => Moves(t, "mutate")
  BY <1>1, <1>2, GoMoves DEF ReadBefore
<1>9. FaultAfter(t) => Moves(t, "audit") \/ Moves(t, "idle")
  BY <1>1, <1>2, GoMoves, ReturnMoves DEF FaultAfter
<1>10. Audit(t) => Moves(t, "record")
  BY <1>1, <1>2, GoMoves DEF Audit
<1> QED
  BY <1>3, <1>4, <1>5, <1>6, <1>7, <1>8, <1>9, <1>10
-----------------------------------------------------------------------------
(* A step keeps the types, and a call that is not idle has an effect.      *)

LEMMA CallTyped ==
  ASSUME TypeOK, CallsHaveEffects, NEW t \in Thread, NEW p \in PC, Moves(t, p)
  PROVE  /\ call' \in [Thread -> Call]
         /\ CallsHaveEffects' \/ (p # "idle" /\ call[t].pc = "idle")
BY DEF Moves, TypeOK, CallsHaveEffects

LEMMA StepTyped ==
  ASSUME TypeOK, CallsHaveEffects, NEW t \in Thread, Step(t)
  PROVE  TypeOK' /\ CallsHaveEffects'
<1>1. /\ call \in [Thread -> Call] /\ call[t].attempt \in Attempt
      /\ call[t].pc # "idle"
      /\ call[t].effect \in Effect
  BY DEF TypeOK, Call, CallsHaveEffects, Step, At, Fence, Admit, FaultBefore,
         Claim, Replay, CheckMandate, Release, ReadBefore, Mutate, FaultAfter,
         Audit, Record, Throw
<1> DEFINE e == call[t].effect
           Kept == call' \in [Thread -> Call] /\ CallsHaveEffects'
<1>2. ASSUME NEW p \in PC, Moves(t, p) PROVE Kept
  BY <1>1, <1>2, CallTyped
<1>3. {"idle", "admit", "before", "claim", "replay", "mandate", "release",
       "read", "mutate", "after", "audit", "record"} \subseteq PC
  BY DEF PC
<1>4. ASSUME Answer(t)
      PROVE  Kept /\ cache' \in [Attempt -> Effect \cup {NoEffect}]
  <2>1. Kept
    BY <1>1, <1>2, <1>3, <1>4, ReturnMoves DEF Answer
  <2> QED BY <1>1, <1>4, <2>1 DEF Answer, TypeOK
<1>5. CASE Fence(t) \/ Admit(t) \/ FaultBefore(t) \/ CheckMandate(t)
             \/ ReadBefore(t) \/ FaultAfter(t)
  <2>1. Kept
    BY <1>2, <1>3, <1>5, StepMoves
  <2> QED BY <1>5, <2>1 DEF Fence, Admit, FaultBefore, CheckMandate,
             ReadBefore, FaultAfter, TypeOK, config, counts
<1>6. CASE Claim(t)
  <2>1. Kept
    BY <1>1, <1>2, <1>3, <1>6, GoMoves DEF Claim
  <2>2. ledger' \in [Effect -> {"none", "claimed", "done"}]
    BY <1>1, <1>6 DEF Claim, TypeOK
  <2> QED BY <1>6, <2>1, <2>2 DEF Claim, TypeOK, config, counts
<1>7. CASE Replay(t)
  <2>1. Answer(t)
    BY <1>7 DEF Replay
  <2> QED BY <1>4, <1>7, <2>1 DEF Replay, TypeOK, config, counts
<1>8. CASE Release(t)
  <2>1. Kept
    BY <1>2, <1>3, <1>8, StepMoves
  <2>2. ledger' \in [Effect -> {"none", "claimed", "done"}]
    BY <1>1, <1>8 DEF Release, TypeOK
  <2> QED BY <1>8, <2>1, <2>2 DEF Release, TypeOK, config, counts
<1>9. CASE Mutate(t)
  <2>1. Kept
    BY <1>1, <1>2, <1>3, <1>9, GoMoves DEF Mutate
  <2>2. /\ applied' \in [Effect -> Nat]
        /\ order' \in [Effect -> {"from", "moved"}]
    BY <1>1, <1>9, CommitFacts DEF Mutate, TypeOK
  <2> QED BY <1>9, <2>1, <2>2 DEF Mutate, TypeOK, config, counts
<1>10. CASE Audit(t)
  <2>1. Kept
    BY <1>2, <1>3, <1>10, StepMoves
  <2>2. evidence' \in [Effect -> BOOLEAN]
    BY <1>1, <1>10 DEF Audit, TypeOK
  <2> QED BY <1>10, <2>1, <2>2 DEF Audit, TypeOK, config, counts
<1>11. CASE Record(t)
  <2>1. Answer(t)
    BY <1>11 DEF Record
  <2>2. ledger' \in [Effect -> {"none", "claimed", "done"}]
    BY <1>1, <1>11 DEF Record, TypeOK
  <2> QED BY <1>4, <1>11, <2>1, <2>2 DEF Record, TypeOK, config, counts
<1>12. CASE Throw(t)
  <2>1. Kept
    BY <1>2, <1>3, <1>12, StepMoves
  <2>2. /\ applied' \in [Effect -> Nat]
        /\ order' \in [Effect -> {"from", "moved"}]
    BY <1>1, <1>12, CommitFacts DEF Throw, TypeOK
  <2>3. errors' \in 0..MaxError
    BY <1>12, EffectAssumption DEF Throw, TypeOK
  <2> QED BY <1>12, <2>1, <2>2, <2>3 DEF Throw, TypeOK, config
<1> QED
  BY <1>5, <1>6, <1>7, <1>8, <1>9, <1>10, <1>11, <1>12 DEF Step

LEMMA NextTyped ==
  ASSUME TypeOK, CallsHaveEffects, [Next]_vars
  PROVE  TypeOK' /\ CallsHaveEffects'
<1>1. CASE \E t \in Thread : Step(t)
  BY <1>1, StepTyped
<1>2. CASE \E t \in Thread, a \in Attempt, e \in Effect : Send(t, a, e)
  <2>1. PICK t \in Thread, a \in Attempt, e \in Effect : Send(t, a, e)
    BY <1>2
  <2>2. [pc |-> "fence", attempt |-> a, effect |-> e] \in Call
    BY DEF Call, PC
  <2>3. call' \in [Thread -> Call] /\ CallsHaveEffects'
    BY <2>1, <2>2 DEF Send, TypeOK, CallsHaveEffects
  <2> QED BY <2>1, <2>3 DEF Send, TypeOK, config, counts
<1>3. CASE \E e \in Effect : ChangeOutside(e)
  <2>1. PICK e \in Effect : ChangeOutside(e)
    BY <1>3
  <2>2. order' \in [Effect -> {"from", "moved"}]
    BY <2>1 DEF ChangeOutside, TypeOK
  <2>3. outside' \in 0..MaxOutside
    BY <2>1, EffectAssumption DEF ChangeOutside, TypeOK
  <2>4. CallsHaveEffects'
    BY <2>1 DEF ChangeOutside, CallsHaveEffects
  <2> QED BY <2>1, <2>2, <2>3, <2>4 DEF ChangeOutside, TypeOK, config
<1>4. CASE NextAttempt
  <2>1. attempt' \in Attempt
    BY <1>4, EffectAssumption DEF NextAttempt, TypeOK, Attempt
  <2>2. CallsHaveEffects'
    BY <1>4 DEF NextAttempt, CallsHaveEffects
  <2> QED BY <1>4, <2>1, <2>2 DEF NextAttempt, TypeOK, config, counts
<1>5. CASE Restart
  <2>1. Idle \in Call
    BY EffectAssumption DEF Idle, Call, PC, Attempt
  <2>2. call' \in [Thread -> Call] /\ CallsHaveEffects'
    BY <1>5, <2>1 DEF Restart, CallsHaveEffects, Idle
  <2>3. restarts' \in 0..MaxRestart
    BY <1>5, EffectAssumption DEF Restart, TypeOK
  <2>4. cache' \in [Attempt -> Effect \cup {NoEffect}]
    BY <1>5 DEF Restart
  <2> QED BY <1>5, <2>2, <2>3, <2>4 DEF Restart, TypeOK, config
<1>6. CASE UNCHANGED vars
  BY <1>6 DEF vars, config, counts, TypeOK, CallsHaveEffects
<1> QED
  BY <1>1, <1>2, <1>3, <1>4, <1>5, <1>6 DEF Next
-----------------------------------------------------------------------------
(* A step keeps the facts.                                                 *)

\* A step that writes none of the three tables and makes no call an owner or
\* a finisher that was none before.
LEMMA HarmlessKeeps ==
  ASSUME Facts, UNCHANGED <<ledger, applied, evidence>>,
         \A u \in Thread : Owns(u)' =>
           Owns(u) /\ call'[u].effect = call[u].effect,
         \A u \in Thread : Finishes(u)' =>
           /\ Finishes(u) /\ call'[u].effect = call[u].effect
           /\ call'[u].pc = "record" => call[u].pc = "record"
  PROVE  Facts'
<1>1. OwnersHold'
  BY DEF Facts, OwnersHold
<1>2. OneOwner'
  BY DEF Facts, OneOwner
<1>3. UnclaimedIsUnapplied' /\ AppliedOnce' /\ DoneHasEvidence'
  BY DEF Facts, UnclaimedIsUnapplied, AppliedOnce, DoneHasEvidence
<1>4. FinishersApplied'
  BY DEF Facts, FinishersApplied
<1> QED BY <1>1, <1>2, <1>3, <1>4 DEF Facts

\* One call moved within its own phase, or left the protocol.
LEMMA MoveKeeps ==
  ASSUME Facts, UNCHANGED <<ledger, applied, evidence>>,
         NEW t \in Thread, NEW p, Moves(t, p),
         p \in {"mandate", "release", "read", "mutate"} => Owns(t),
         p \in {"after", "audit"} => Finishes(t),
         p # "record"
  PROVE  Facts'
BY HarmlessKeeps DEF Moves, Owns, Finishes

LEMMA ClaimKeeps ==
  ASSUME TypeOK, CallsHaveEffects, Facts, NEW t \in Thread, Claim(t)
  PROVE  Facts'
<1> DEFINE e == call[t].effect
<1>0. /\ call \in [Thread -> Call] /\ e \in Effect /\ call[t].pc = "claim"
      /\ ledger \in [Effect -> {"none", "claimed", "done"}]
      /\ UNCHANGED <<applied, evidence>>
  BY DEF TypeOK, CallsHaveEffects, Claim, At
<1>1. CASE ledger[e] = "none"
  <2>1. /\ ledger' = [ledger EXCEPT ![e] = "claimed"]
        /\ Moves(t, "mandate") \/ Moves(t, "read")
    BY <1>0, <1>1, GoMoves DEF Claim, PC
  <2>2. applied[e] = 0
    BY <1>0, <1>1 DEF Facts, UnclaimedIsUnapplied
  <2>3. \A u \in Thread : Owns(u) => call[u].effect # e
    BY <1>0, <1>1 DEF Facts, OwnersHold
  <2>4. \A u \in Thread : u # t => call'[u] = call[u]
    BY <2>1 DEF Moves
  <2>5. call'[t].effect = e /\ ~Finishes(t)'
    BY <2>1 DEF Moves, Finishes
  <2>6. \A u \in Thread : Owns(u) => call[u].effect \in Effect
    BY DEF CallsHaveEffects, Owns
  <2>7. OwnersHold'
    BY <1>0, <2>1, <2>2, <2>4, <2>5, <2>6 DEF Facts, OwnersHold, Owns
  <2>8. OneOwner'
    BY <2>3, <2>4, <2>5 DEF Facts, OneOwner, Owns
  <2>9. UnclaimedIsUnapplied' /\ AppliedOnce' /\ DoneHasEvidence'
    BY <1>0, <2>1 DEF Facts, UnclaimedIsUnapplied, AppliedOnce,
       DoneHasEvidence
  <2>10. FinishersApplied'
    BY <1>0, <2>4, <2>5 DEF Facts, FinishersApplied, Finishes
  <2> QED BY <2>7, <2>8, <2>9, <2>10 DEF Facts
<1>2. CASE ledger[e] # "none"
  <2>1. UNCHANGED <<ledger, applied, evidence>> /\ Moves(t, "replay")
    BY <1>0, <1>2, GoMoves DEF Claim, PC
  <2> QED BY <2>1, MoveKeeps
<1> QED BY <1>1, <1>2

LEMMA ReleaseKeeps ==
  ASSUME TypeOK, CallsHaveEffects, Facts, NEW t \in Thread, Release(t)
  PROVE  Facts'
<1> DEFINE e == call[t].effect
<1>1. /\ e \in Effect /\ Owns(t)
      /\ ledger \in [Effect -> {"none", "claimed", "done"}]
      /\ UNCHANGED <<applied, evidence>>
  BY DEF TypeOK, CallsHaveEffects, Release, At, Owns
<1>2. ledger' = [ledger EXCEPT ![e] = "none"] /\ applied[e] = 0
  BY <1>1 DEF Release, Facts, OwnersHold
<1>3. Moves(t, "idle")
  BY StepMoves
<1>4. /\ \A u \in Thread : u # t => call'[u] = call[u]
      /\ ~Owns(t)' /\ ~Finishes(t)'
  BY <1>3 DEF Moves, Owns, Finishes
<1>5. \A u \in Thread : Owns(u) => call[u].effect \in Effect
  BY DEF CallsHaveEffects, Owns
<1>6. OwnersHold'
  BY <1>1, <1>2, <1>4, <1>5 DEF Facts, OwnersHold, OneOwner, Owns
<1>7. OneOwner'
  BY <1>4 DEF Facts, OneOwner, Owns
<1>8. UnclaimedIsUnapplied' /\ AppliedOnce' /\ DoneHasEvidence'
  BY <1>1, <1>2 DEF Facts, UnclaimedIsUnapplied, AppliedOnce, DoneHasEvidence
<1>9. FinishersApplied'
  BY <1>1, <1>4 DEF Facts, FinishersApplied, Finishes
<1> QED BY <1>6, <1>7, <1>8, <1>9 DEF Facts

\* The commit of an owner, whether the owner then goes on or has lost the
\* answer and throws.
LEMMA CommitKeeps ==
  ASSUME TypeOK, CallsHaveEffects, Facts, NEW t \in Thread, Owns(t),
         Commit(call[t].effect), UNCHANGED <<ledger, evidence>>,
         Moves(t, "after") \/ Moves(t, "idle")
  PROVE  Facts'
<1> DEFINE e == call[t].effect
<1>1. /\ e \in Effect /\ ledger[e] = "claimed" /\ applied[e] = 0
      /\ applied \in [Effect -> Nat]
  BY DEF TypeOK, CallsHaveEffects, Owns, Facts, OwnersHold
<1>2. /\ applied' \in [Effect -> Nat] /\ applied'[e] = 1
      /\ \A f \in Effect : f # e => applied'[f] = applied[f]
  BY <1>1, CommitFacts
<1>3. /\ \A u \in Thread : u # t => call'[u] = call[u]
      /\ ~Owns(t)' /\ (Finishes(t)' => call'[t].effect = e)
      /\ call'[t].pc # "record"
  BY DEF Moves, Owns, Finishes
<1>4. \A u \in Thread : Owns(u) \/ Finishes(u) => call[u].effect \in Effect
  BY DEF CallsHaveEffects, Owns, Finishes
<1>5. OwnersHold'
  BY <1>1, <1>2, <1>3, <1>4 DEF Facts, OwnersHold, OneOwner, Owns
<1>6. OneOwner'
  BY <1>3 DEF Facts, OneOwner, Owns
<1>7. UnclaimedIsUnapplied' /\ AppliedOnce'
  BY <1>1, <1>2 DEF Facts, UnclaimedIsUnapplied, AppliedOnce
<1>8. DoneHasEvidence'
  BY <1>1, <1>2 DEF Facts, DoneHasEvidence
<1>9. FinishersApplied'
  BY <1>1, <1>2, <1>3, <1>4 DEF Facts, FinishersApplied, Finishes
<1> QED BY <1>5, <1>6, <1>7, <1>8, <1>9 DEF Facts
LEMMA AuditKeeps ==
  ASSUME TypeOK, CallsHaveEffects, Facts, NEW t \in Thread, Audit(t)
  PROVE  Facts'
<1> DEFINE e == call[t].effect
<1>1. /\ e \in Effect /\ Finishes(t)
      /\ evidence \in [Effect -> BOOLEAN]
      /\ evidence' = [evidence EXCEPT ![e] = TRUE]
      /\ UNCHANGED <<ledger, applied>>
  BY DEF TypeOK, CallsHaveEffects, Audit, At, Finishes
<1>2. \A f \in Effect : evidence[f] => evidence'[f]
  BY <1>1
<1>3. /\ \A u \in Thread : u # t => call'[u] = call[u]
      /\ ~Owns(t)' /\ call'[t].effect = e
  BY StepMoves DEF Moves, Owns
<1>4. \A u \in Thread : Finishes(u) => call[u].effect \in Effect
  BY DEF CallsHaveEffects, Finishes
<1>5. OwnersHold' /\ OneOwner'
  BY <1>1, <1>3 DEF Facts, OwnersHold, OneOwner, Owns
<1>6. UnclaimedIsUnapplied' /\ AppliedOnce'
  BY <1>1 DEF Facts, UnclaimedIsUnapplied, AppliedOnce
<1>7. DoneHasEvidence'
  BY <1>1, <1>2 DEF Facts, DoneHasEvidence
<1>8. evidence'[e]
  BY <1>1
<1>9. FinishersApplied'
  BY <1>1, <1>2, <1>3, <1>4, <1>8 DEF Facts, FinishersApplied, Finishes
<1> QED BY <1>5, <1>6, <1>7, <1>9 DEF Facts

LEMMA RecordKeeps ==
  ASSUME TypeOK, CallsHaveEffects, Facts, NEW t \in Thread, Record(t)
  PROVE  Facts'
<1> DEFINE e == call[t].effect
<1>1. /\ e \in Effect /\ call[t].pc = "record"
      /\ ledger \in [Effect -> {"none", "claimed", "done"}]
      /\ applied \in [Effect -> Nat]
      /\ UNCHANGED <<applied, evidence>>
  BY DEF TypeOK, CallsHaveEffects, Record, At
<1>2. applied[e] > 0 /\ evidence[e] /\ ledger[e] # "none"
  BY <1>1 DEF Facts, FinishersApplied, Finishes, UnclaimedIsUnapplied
<1>3. ledger' = [ledger EXCEPT ![e] = "done"]
  BY <1>1, <1>2 DEF Record
<1>4. /\ \A u \in Thread : u # t => call'[u] = call[u]
      /\ ~Owns(t)' /\ ~Finishes(t)'
  BY StepMoves DEF Moves, Owns, Finishes
<1>5. \A u \in Thread : Owns(u) => call[u].effect \in Effect \ {e}
  BY <1>1, <1>2 DEF CallsHaveEffects, Owns, Facts, OwnersHold
<1>6. OwnersHold' /\ OneOwner'
  BY <1>1, <1>3, <1>4, <1>5 DEF Facts, OwnersHold, OneOwner, Owns
<1>7. UnclaimedIsUnapplied' /\ AppliedOnce' /\ DoneHasEvidence'
  BY <1>1, <1>2, <1>3
     DEF Facts, UnclaimedIsUnapplied, AppliedOnce, DoneHasEvidence
<1>8. FinishersApplied'
  BY <1>1, <1>4 DEF Facts, FinishersApplied, Finishes
<1> QED BY <1>6, <1>7, <1>8 DEF Facts

LEMMA StepKeeps ==
  ASSUME TypeOK, CallsHaveEffects, Facts, NEW t \in Thread, Step(t)
  PROVE  Facts'
<1>1. call \in [Thread -> Call]
  BY DEF TypeOK
<1>2. CASE Fence(t) \/ Admit(t) \/ FaultBefore(t) \/ Replay(t)
  <2>1. UNCHANGED <<ledger, applied, evidence>>
    BY <1>2 DEF Fence, Admit, FaultBefore, Replay
  <2>2. PICK p \in {"admit", "before", "claim", "idle"} : Moves(t, p)
    BY <1>2, StepMoves
  <2> QED BY <2>1, <2>2, MoveKeeps
<1>3. CASE CheckMandate(t) \/ ReadBefore(t)
  <2>1. UNCHANGED <<ledger, applied, evidence>> /\ Owns(t)
    BY <1>3 DEF CheckMandate, ReadBefore, At, Owns
  <2>2. PICK p \in {"read", "release", "mutate"} : Moves(t, p)
    BY <1>3, StepMoves
  <2> QED BY <2>1, <2>2, MoveKeeps
<1>4. CASE Mutate(t)
  <2>1. Owns(t) /\ UNCHANGED <<ledger, evidence>>
    BY <1>4 DEF Mutate, At, Owns
  <2>2. CASE Commit(call[t].effect) /\ Go(t, "after")
    <3>1. Moves(t, "after")
      BY <1>1, <2>2, GoMoves DEF PC
    <3> QED BY <2>1, <2>2, <3>1, CommitKeeps
  <2>3. CASE Go(t, "release") /\ UNCHANGED <<order, applied>>
    <3>1. Moves(t, "release")
      BY <1>1, <2>3, GoMoves DEF PC
    <3> QED BY <2>1, <2>3, <3>1, MoveKeeps
  <2> QED BY <1>4, <2>2, <2>3 DEF Mutate
<1>5. CASE FaultAfter(t)
  <2>1. UNCHANGED <<ledger, applied, evidence>> /\ Finishes(t)
    BY <1>5 DEF FaultAfter, At, Finishes
  <2>2. PICK p \in {"audit", "idle"} : Moves(t, p)
    BY <1>5, StepMoves
  <2> QED BY <2>1, <2>2, MoveKeeps
<1>6. CASE Throw(t)
  <2>1. Moves(t, "idle") /\ UNCHANGED <<ledger, evidence>>
    BY <1>6, StepMoves DEF Throw
  <2>2. CASE UNCHANGED applied
    BY <2>1, <2>2, MoveKeeps
  <2>3. CASE At(t, "mutate") /\ Commit(call[t].effect)
    <3>1. Owns(t)
      BY <2>3 DEF At, Owns
    <3> QED BY <2>1, <2>3, <3>1, CommitKeeps
  <2> QED BY <1>6, <2>2, <2>3 DEF Throw
<1> QED
  BY <1>2, <1>3, <1>4, <1>5, <1>6, ClaimKeeps, ReleaseKeeps, AuditKeeps,
     RecordKeeps DEF Step

LEMMA NextKeeps ==
  ASSUME TypeOK, CallsHaveEffects, Facts, [Next]_vars
  PROVE  Facts'
<1>1. CASE \E t \in Thread : Step(t)
  BY <1>1, StepKeeps
<1>2. CASE \E t \in Thread, a \in Attempt, e \in Effect : Send(t, a, e)
  <2>1. PICK t \in Thread, a \in Attempt, e \in Effect : Send(t, a, e)
    BY <1>2
  <2>2. call'[t].pc = "fence" /\ \A u \in Thread : u # t => call'[u] = call[u]
    BY <2>1 DEF Send, TypeOK
  <2>3. UNCHANGED <<ledger, applied, evidence>>
    BY <2>1 DEF Send
  <2> QED BY <2>2, <2>3, HarmlessKeeps DEF Owns, Finishes
<1>3. CASE (\E e \in Effect : ChangeOutside(e)) \/ NextAttempt
  <2>1. UNCHANGED <<ledger, applied, evidence, call>>
    BY <1>3 DEF ChangeOutside, NextAttempt
  <2> QED BY <2>1, HarmlessKeeps DEF Owns, Finishes
<1>4. CASE Restart
  <2>1. /\ UNCHANGED <<ledger, applied, evidence>>
        /\ \A t \in Thread : call'[t].pc = "idle"
    BY <1>4 DEF Restart, Idle
  <2> QED BY <2>1, HarmlessKeeps DEF Owns, Finishes
<1>5. CASE UNCHANGED vars
  <2>1. UNCHANGED <<ledger, applied, evidence, call>>
    BY <1>5 DEF vars
  <2> QED BY <2>1, HarmlessKeeps DEF Owns, Finishes
<1> QED BY <1>1, <1>2, <1>3, <1>4, <1>5 DEF Next

-----------------------------------------------------------------------------
(* The theorems.                                                           *)

LEMMA InitHolds ==
  ASSUME Init
  PROVE  LedgerInv
<1>1. Idle \in Call
  BY EffectAssumption DEF Idle, Call, PC, Attempt
<1>2. TypeOK
  BY <1>1, EffectAssumption DEF Init, TypeOK, Attempt
<1>3. \A t \in Thread : call[t].pc = "idle"
  BY DEF Init, Idle
<1>4. CallsHaveEffects /\ OwnersHold /\ OneOwner /\ FinishersApplied
  BY <1>3 DEF CallsHaveEffects, OwnersHold, OneOwner, FinishersApplied,
     Owns, Finishes
<1>5. UnclaimedIsUnapplied /\ AppliedOnce /\ DoneHasEvidence
  BY DEF Init, UnclaimedIsUnapplied, AppliedOnce, DoneHasEvidence
<1> QED BY <1>2, <1>4, <1>5 DEF LedgerInv

\* The ledger invariant holds of every reachable state.
THEOREM LedgerInvariant == Spec => []LedgerInv
<1>1. Init => LedgerInv
  BY InitHolds
<1>2. LedgerInv /\ [Next]_vars => LedgerInv'
  BY NextTyped, NextKeeps DEF LedgerInv, Facts
<1> QED BY <1>1, <1>2, PTL DEF Spec

\* Every variable keeps its type.
THEOREM TypeCorrect == Spec => []TypeOK
<1>1. LedgerInv => TypeOK
  BY DEF LedgerInv
<1> QED BY <1>1, LedgerInvariant, PTL

\* No business effect is applied twice, whatever overlaps, fails, is retried
\* or restarts (claimBusinessEffect and the order of the five routes).
THEOREM AppliedAtMostOnce == Spec => []AppliedOnce
<1>1. LedgerInv => AppliedOnce
  BY DEF LedgerInv
<1> QED BY <1>1, LedgerInvariant, PTL

\* A ledger row with a result stands for a change that was made and that
\* database_changes shows.
THEOREM ResultsHaveEvidence == Spec => []DoneHasEvidence
<1>1. LedgerInv => DoneHasEvidence
  BY DEF LedgerInv
<1> QED BY <1>1, LedgerInvariant, PTL

-----------------------------------------------------------------------------
(* What the ledger answers is true. Only a call that throws, or a restart,  *)
(* leaves a row behind for which nobody is at work and nothing was applied. *)

Stands(e) == ledger[e] # "none" /\ ~AtWork(e) => applied[e] > 0

\* A step that gives no row, unapplies nothing, and after which a call that
\* was at work still is, keeps every row standing.
LEMMA StandsOn ==
  ASSUME NEW e \in Effect, Stands(e), applied[e] > 0 => applied'[e] > 0,
         ledger'[e] # "none" => ledger[e] # "none",
         AtWork(e) => AtWork(e)' \/ ledger'[e] = "none" \/ applied'[e] > 0
  PROVE  Stands(e)'
BY DEF Stands

\* A call that moves disturbs no other call, and its own effect only when it
\* leaves the statements between the claim and the mutation.
LEMMA WorkGoesOn ==
  ASSUME NEW e, NEW t \in Thread, NEW p, Moves(t, p), AtWork(e),
         p \in {"mandate", "release", "read", "mutate"} \/ ~Owns(t)
           \/ call[t].effect # e
  PROVE  AtWork(e)'
<1>1. PICK u \in Thread : call[u].effect = e /\ Owns(u)
  BY DEF AtWork, Owns
<1>2. CASE u = t
  <2>1. p \in {"mandate", "release", "read", "mutate"}
    BY <1>1, <1>2
  <2> QED BY <1>1, <1>2, <2>1 DEF AtWork, Moves
<1>3. CASE u # t
  BY <1>1, <1>3 DEF AtWork, Moves, Owns
<1> QED BY <1>2, <1>3

LEMMA StepStands ==
  ASSUME LedgerInv, NEW t \in Thread, Step(t), ~Throw(t),
         NEW e \in Effect, Stands(e)
  PROVE  Stands(e)'
<1>0. TypeOK
  BY DEF LedgerInv
<1>1. /\ call \in [Thread -> Call] /\ applied \in [Effect -> Nat]
      /\ ledger \in [Effect -> {"none", "claimed", "done"}]
  BY DEF LedgerInv, TypeOK
<1>2. CASE \/ Fence(t) \/ Admit(t) \/ FaultBefore(t) \/ Replay(t)
           \/ FaultAfter(t) \/ Audit(t)
  <2>1. ~Owns(t) /\ UNCHANGED <<ledger, applied>>
    BY <1>2 DEF Fence, Admit, FaultBefore, Replay, FaultAfter, Audit, At, Owns
  <2>2. PICK p : Moves(t, p)
    BY <1>2, <1>0, StepMoves
  <2> QED BY <2>1, <2>2, StandsOn, WorkGoesOn
<1>3. CASE CheckMandate(t) \/ ReadBefore(t)
  <2>1. UNCHANGED <<ledger, applied>>
    BY <1>3 DEF CheckMandate, ReadBefore
  <2>2. PICK p \in {"read", "release", "mutate"} : Moves(t, p)
    BY <1>3, <1>0, StepMoves
  <2> QED BY <2>1, <2>2, StandsOn, WorkGoesOn
<1>4. CASE Claim(t)
  <2>1. call[t].pc = "claim" /\ UNCHANGED applied
    BY <1>4 DEF Claim, At
  <2>2. CASE ledger[call[t].effect] = "none"
    <3>1. PICK p \in {"mandate", "read"} : Moves(t, p)
      BY <1>1, <1>4, <2>2, GoMoves DEF Claim, PC
    <3>2. CASE call[t].effect = e
      BY <3>1, <3>2 DEF Moves, Stands, AtWork
    <3>3. CASE call[t].effect # e
      <4>1. ledger'[e] = ledger[e]
        BY <1>1, <1>4, <3>3 DEF Claim
      <4> QED BY <2>1, <3>1, <4>1, StandsOn, WorkGoesOn
    <3> QED BY <3>2, <3>3
  <2>3. CASE ledger[call[t].effect] # "none"
    <3>1. UNCHANGED ledger /\ Moves(t, "replay") /\ ~Owns(t)
      BY <1>1, <1>4, <2>1, <2>3, GoMoves DEF Claim, PC, Owns
    <3> QED BY <2>1, <3>1, StandsOn, WorkGoesOn
  <2> QED BY <2>2, <2>3
<1>5. CASE Release(t)
  <2>1. Owns(t) /\ Moves(t, "idle") /\ UNCHANGED applied
    BY <1>5, <1>0, StepMoves DEF Release, At, Owns
  <2>2. ledger[call[t].effect] = "claimed"
    BY <2>1 DEF LedgerInv, OwnersHold
  <2>3. ledger' = [ledger EXCEPT ![call[t].effect] = "none"]
    BY <1>5, <2>2 DEF Release
  <2>4. ledger'[e] = IF e = call[t].effect THEN "none" ELSE ledger[e]
    BY <1>1, <2>3
  <2> QED BY <2>1, <2>4, StandsOn, WorkGoesOn
<1>6. CASE Mutate(t)
  <2>1. UNCHANGED ledger /\ Owns(t)
    BY <1>6 DEF Mutate, At, Owns
  <2>2. call[t].effect \in Effect
    BY <2>1 DEF LedgerInv, CallsHaveEffects, Owns
  <2>3. CASE Commit(call[t].effect) /\ Go(t, "after")
    <3>1. Moves(t, "after")
      BY <1>1, <2>3, GoMoves DEF PC
    <3>2. applied'[call[t].effect] = applied[call[t].effect] + 1
          /\ (e # call[t].effect => applied'[e] = applied[e])
      BY <2>2, <2>3, CommitFacts DEF LedgerInv
    <3>3. applied[e] > 0 \/ e = call[t].effect => applied'[e] > 0
      BY <1>1, <3>2
    <3> QED BY <2>1, <3>1, <3>3, StandsOn, WorkGoesOn
  <2>4. CASE Go(t, "release") /\ UNCHANGED applied
    <3>1. Moves(t, "release")
      BY <1>1, <2>4, GoMoves DEF PC
    <3> QED BY <2>1, <2>4, <3>1, StandsOn, WorkGoesOn
  <2> QED BY <1>6, <2>3, <2>4 DEF Mutate
<1>7. CASE Record(t)
  <2>1. /\ call[t].pc = "record" /\ ~Owns(t) /\ Moves(t, "idle")
        /\ UNCHANGED applied
    BY <1>7, <1>0, StepMoves DEF Record, At, Owns
  <2>2. ledger'[e] # "none" => ledger[e] # "none"
    BY <1>1, <1>7 DEF Record
  <2> QED BY <2>1, <2>2, StandsOn, WorkGoesOn
<1> QED BY <1>2, <1>3, <1>4, <1>5, <1>6, <1>7 DEF Step

LEMMA ReplayKept ==
  ASSUME LedgerInv, ReplayIsTrue, [Next]_vars
  PROVE  ReplayIsTrue'
<1>1. SUFFICES ASSUME errors' = 0, restarts' = 0, NEW e \in Effect
               PROVE  Stands(e)'
  BY DEF ReplayIsTrue, Stands
<1>2. errors \in Nat /\ restarts \in Nat
  BY EffectAssumption DEF LedgerInv, TypeOK
<1>3. ~Restart /\ \A t \in Thread : ~Throw(t)
  BY <1>1, <1>2 DEF Restart, Throw
<1>4. errors = 0 /\ restarts = 0
  <2>1. UNCHANGED <<errors, restarts>>
    BY <1>3 DEF Next, Step, vars, counts, Send, ChangeOutside, NextAttempt,
       Fence, Admit, FaultBefore, Claim, Replay, CheckMandate, Release,
       ReadBefore, Mutate, FaultAfter, Audit, Record
  <2> QED BY <1>1, <2>1
<1>5. Stands(e)
  BY <1>4 DEF ReplayIsTrue, Stands
<1>6. CASE \E t \in Thread : Step(t)
  BY <1>3, <1>5, <1>6, StepStands
<1>7. CASE \E t \in Thread, a \in Attempt, f \in Effect : Send(t, a, f)
  <2>1. PICK t \in Thread, a \in Attempt, f \in Effect : Send(t, a, f)
    BY <1>7
  <2>2. /\ call[t].pc = "idle" /\ UNCHANGED <<ledger, applied>>
        /\ \A u \in Thread : u # t => call'[u] = call[u]
    BY <2>1 DEF Send, At, LedgerInv, TypeOK
  <2>3. AtWork(e) => AtWork(e)'
    BY <2>2 DEF AtWork
  <2> QED BY <1>5, <2>2, <2>3, StandsOn
<1>8. CASE (\E f \in Effect : ChangeOutside(f)) \/ NextAttempt \/ UNCHANGED vars
  <2>1. UNCHANGED <<ledger, applied, call>>
    BY <1>8 DEF ChangeOutside, NextAttempt, vars
  <2>2. AtWork(e) => AtWork(e)'
    BY <2>1 DEF AtWork
  <2> QED BY <1>5, <2>1, <2>2, StandsOn
<1> QED BY <1>3, <1>6, <1>7, <1>8 DEF Next

\* While no call has thrown and the process has not restarted, "already
\* applied by a prior attempt" is true of every row whose claimant is no
\* longer at work (the claim, its release and the order of the five routes).
THEOREM ReplaysAreTrue == Spec => []ReplayIsTrue
<1>1. Init => ReplayIsTrue
  BY DEF Init, ReplayIsTrue
<1>2. LedgerInv /\ ReplayIsTrue /\ [Next]_vars => ReplayIsTrue'
  BY ReplayKept
<1> QED BY <1>1, <1>2, LedgerInvariant, PTL DEF Spec

-----------------------------------------------------------------------------
(* The refinement: every step of the routes is a step of the abstract      *)
(* ledger, or leaves it alone.                                             *)

\* What a step must do to be a step of the abstract ledger.
LEMMA LedgerStutters ==
  ASSUME UNCHANGED <<applied, evidence>>, Recorded' = Recorded
  PROVE  UNCHANGED Once!ledgerVars
BY DEF Once!ledgerVars, Recorded, Shown

\* The commit of an owner makes its effect for the first time.
LEMMA CommitMakes ==
  ASSUME LedgerInv, NEW t \in Thread, Owns(t), Commit(call[t].effect),
         UNCHANGED <<ledger, evidence>>
  PROVE  Once!Next
<1> DEFINE e == call[t].effect
<1>1. e \in Effect /\ applied[e] = 0
  BY DEF LedgerInv, CallsHaveEffects, OwnersHold, Owns
<1>2. applied' = [applied EXCEPT ![e] = 1]
  BY <1>1 DEF Commit
<1>3. Once!Make(e)
  BY <1>1, <1>2 DEF Once!Make, Shown, Recorded
<1> QED BY <1>1, <1>3 DEF Once!Next

\* The audit row shows an effect that was made.
LEMMA AuditShows ==
  ASSUME LedgerInv, NEW t \in Thread, Audit(t)
  PROVE  Once!Next
<1> DEFINE e == call[t].effect
<1>1. /\ e \in Effect /\ applied[e] > 0 /\ applied[e] <= 1
      /\ applied[e] \in Nat /\ evidence \in [Effect -> BOOLEAN]
  BY DEF LedgerInv, TypeOK, CallsHaveEffects, FinishersApplied, Finishes,
     AppliedOnce, Audit, At
<1>2. applied[e] = 1
  BY <1>1
<1>3. evidence' = [evidence EXCEPT ![e] = TRUE] /\ UNCHANGED <<applied, ledger>>
  BY DEF Audit
<1>4. Shown' = Shown \cup {e}
  BY <1>1, <1>3 DEF Shown
<1>5. Once!Show(e)
  BY <1>2, <1>3, <1>4 DEF Once!Show, Recorded
<1>6. e \in Effect
  BY <1>1
<1> HIDE DEF e
<1> QED BY <1>5, <1>6 DEF Once!Next

\* The result is recorded of an effect that evidence shows.
LEMMA ResultRecords ==
  ASSUME LedgerInv, NEW t \in Thread, Record(t)
  PROVE  Once!Next
<1> DEFINE e == call[t].effect
<1>1. /\ e \in Effect /\ applied[e] > 0 /\ evidence[e]
      /\ ledger \in [Effect -> {"none", "claimed", "done"}]
  BY DEF LedgerInv, TypeOK, CallsHaveEffects, FinishersApplied, Finishes,
     Record, At
<1>2. ledger[e] # "none"
  BY <1>1 DEF LedgerInv, UnclaimedIsUnapplied
<1>3. ledger' = [ledger EXCEPT ![e] = "done"] /\ UNCHANGED <<applied, evidence>>
  BY <1>1, <1>2 DEF Record
<1>4. Recorded' = Recorded \cup {e}
  BY <1>1, <1>3 DEF Recorded
<1>5. Once!Record(e)
  BY <1>1, <1>3, <1>4 DEF Once!Record, Shown
<1>6. e \in Effect
  BY <1>1
<1> HIDE DEF e
<1> QED BY <1>5, <1>6 DEF Once!Next

LEMMA StepImplements ==
  ASSUME LedgerInv, NEW t \in Thread, Step(t)
  PROVE  Once!Next \/ UNCHANGED Once!ledgerVars
<1>1. CASE Fence(t) \/ Admit(t) \/ FaultBefore(t) \/ Replay(t)
             \/ CheckMandate(t) \/ ReadBefore(t) \/ FaultAfter(t)
  <2>1. UNCHANGED <<ledger, applied, evidence>>
    BY <1>1 DEF Fence, Admit, FaultBefore, Replay, CheckMandate, ReadBefore,
       FaultAfter
  <2> QED BY <2>1, LedgerStutters DEF Recorded
<1>2. CASE Claim(t) \/ Release(t)
  <2>1. /\ ledger \in [Effect -> {"none", "claimed", "done"}]
        /\ call[t].effect \in Effect
    BY <1>2 DEF LedgerInv, TypeOK, CallsHaveEffects, Claim, Release, At
  <2>2. /\ UNCHANGED <<applied, evidence>>
        /\ \A e \in Effect : ledger'[e] = "done" <=> ledger[e] = "done"
    BY <1>2, <2>1 DEF Claim, Release
  <2> QED BY <2>2, LedgerStutters DEF Recorded
<1>3. CASE Mutate(t)
  <2>1. Owns(t) /\ UNCHANGED <<ledger, evidence>>
    BY <1>3 DEF Mutate, At, Owns
  <2>2. CASE UNCHANGED applied
    BY <2>1, <2>2, LedgerStutters DEF Recorded
  <2> QED BY <1>3, <2>1, <2>2, CommitMakes DEF Mutate
<1>4. CASE Throw(t)
  <2>1. UNCHANGED <<ledger, evidence>>
    BY <1>4 DEF Throw
  <2>2. CASE UNCHANGED applied
    BY <2>1, <2>2, LedgerStutters DEF Recorded
  <2>3. CASE At(t, "mutate") /\ Commit(call[t].effect)
    BY <2>1, <2>3, CommitMakes DEF At, Owns
  <2> QED BY <1>4, <2>2, <2>3 DEF Throw
<1> QED
  BY <1>1, <1>2, <1>3, <1>4, AuditShows, ResultRecords DEF Step

LEMMA NextImplements ==
  ASSUME LedgerInv, [Next]_vars
  PROVE  Once!Next \/ UNCHANGED Once!ledgerVars
<1>1. CASE \E t \in Thread : Step(t)
  BY <1>1, StepImplements
<1>2. CASE \/ \E t \in Thread, a \in Attempt, e \in Effect : Send(t, a, e)
           \/ \E e \in Effect : ChangeOutside(e)
           \/ NextAttempt \/ Restart \/ UNCHANGED vars
  <2>1. UNCHANGED <<ledger, applied, evidence>>
    BY <1>2 DEF Send, ChangeOutside, NextAttempt, Restart, vars
  <2> QED BY <2>1, LedgerStutters DEF Recorded
<1> QED BY <1>1, <1>2 DEF Next

\* The routes implement the abstract ledger: whatever overlaps, throws or
\* restarts, an effect is made at most once, then shown, then recorded, and
\* neither evidence nor result is taken back (the five mutating routes).
THEOREM LedgerRefined == Spec => LedgerIsKept
<1>1. Init => Once!Init
  BY DEF Init, Once!Init, Shown, Recorded
<1>2. LedgerInv /\ [Next]_vars => [Once!Next]_(Once!ledgerVars)
  BY NextImplements
<1> QED BY <1>1, <1>2, LedgerInvariant, PTL DEF Spec, LedgerIsKept, Once!Spec

=============================================================================
