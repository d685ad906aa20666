------------------------ MODULE PoolRenewal_proofs ------------------------
(***************************************************************************)
(* Proofs about PoolRenewal, for any set of handlers and any lease, margin *)
(* and outage within PoolAssumption.                                       *)
(*                                                                         *)
(* Main results: no pool is leaked, the credential never expires under the *)
(* pool, and a revoked one is replaced within Longest minutes.  None is    *)
(* inductive.  What carries the first is the shape of a renewal at each of *)
(* its statements (CallsAreShaped), and that there is one at most, which   *)
(* is the one `renewing' tells of.  What carries the other two is that a   *)
(* call which gets no answer was made in an outage and does not outlast it *)
(* by more than Hang (LostEnds), that a renewal past its swap has a young  *)
(* credential (EndsSoon), and so that a minute in which every call is      *)
(* answered does not end with a heartbeat or a failed probe unheeded       *)
(* (HeartbeatHeeded, ProbeHeeded).                                         *)
(***************************************************************************)
EXTENDS PoolRenewal, TLAPS

Renews(t) == call[t].pc \in {"issue", "check", "end"}
Quick == reachable /\ minutes > Hang \* every call made is answered in its minute

CallsAreShaped ==
  \A t \in Trigger :
    /\ call[t].pc \in {"idle", "failed"} => call[t].old = None /\ call[t].new = None
    /\ ~Awaited(t) => ~call[t].lost
    /\ At(t, "issue") => call[t].old = pool /\ call[t].new = None
    /\ At(t, "check") => /\ call[t].old = pool
                         /\ call[t].new \in Pool \ {pool}
                         /\ made[call[t].new].status = "new"
    /\ At(t, "end") => /\ call[t].new = pool
                       /\ call[t].old \in Pool \ {pool}
                       /\ made[call[t].old].status = "ending"
OneRenewal ==
  \A t, u \in Trigger : Renews(t) /\ Renews(u) => t = u
RenewingIsTrue == renewing <=> \E t \in Trigger : Renews(t)
HeartbeatNeverFailed == ~At("heartbeat", "failed")

ShapeInv ==
  /\ CallsAreShaped
  /\ OneRenewal
  /\ RenewingIsTrue
  /\ HeartbeatNeverFailed
  /\ NoPoolIsLeaked

NewIsFresh ==
  \A t \in Trigger : At(t, "check") => /\ made[call[t].new].ok
                                       /\ ~call[t].lost => made[call[t].new].age = 0
AgeIsKnown == made[pool].age = believed
LostEnds ==
  \A t \in Trigger : call[t].lost /\ reachable => minutes <= call[t].minutes
EndsSoon ==
  \A t \in Trigger : At(t, "end") =>
    /\ believed <= 1
    /\ \A h \in Handler : Uses(h, call[t].old) /\ believed = 1 => handler[h].busy = 2
HeartbeatHeeded ==
  Quick /\ "heartbeat" \notin due /\ Due => \E t \in Trigger : Awaited(t)
AgeIsBounded ==
  /\ ~reachable => believed <= RenewAt + minutes
  /\ reachable /\ minutes < Gap => believed <= RenewAt + MaxOutage + minutes
  /\ reachable /\ minutes = Gap => believed <= RenewAt

AgeInv ==
  /\ NewIsFresh
  /\ AgeIsKnown
  /\ LostEnds
  /\ EndsSoon
  /\ HeartbeatHeeded
  /\ AgeIsBounded

DeadIsRevoked == dead > 0 => ~made[pool].ok /\ dead <= believed
ProbeHeeded ==
  Quick /\ "health" \notin due /\ dead >= 2 =>
    At("health", "failed") \/ \E t \in Trigger : Awaited(t)
DeadIsBounded ==
  /\ ~reachable => dead <= 2 + minutes
  /\ reachable /\ minutes < Gap => dead <= 2 + MaxOutage + minutes
  /\ reachable /\ minutes = Gap => dead <= 2

DeadInv ==
  /\ DeadIsRevoked
  /\ ProbeHeeded
  /\ DeadIsBounded

PoolInv == TypeOK /\ ShapeInv /\ AgeInv /\ DeadInv

LEMMA BoundsFacts ==
  /\ Ttl \in Nat /\ RenewAt \in Nat /\ Hang \in Nat /\ MaxOutage \in Nat
  /\ RenewAt > 1 /\ Hang > 0 /\ MaxOutage > 0
  /\ RenewAt + MaxOutage + Hang + 1 < Ttl
BY PoolAssumption

LEMMA LeastFacts ==
  ASSUME NEW a \in Nat, NEW b \in Nat
  PROVE  /\ Least(a, b) \in Nat /\ Least(a, b) <= b /\ Least(a, b) <= a
         /\ a <= b => Least(a, b) = a
BY DEF Least

-----------------------------------------------------------------------------
(* Types, and what the steps of a renewal do to the calls.                 *)

PoolType == [status : {"none", "new", "open", "ending"}, age : 0..Ttl, ok : BOOLEAN]
CallType == [pc : {"idle", "failed", "issue", "check", "end"}, old : Pool \cup {None},
             new : Pool \cup {None}, lost : BOOLEAN, minutes : 0..Hang]
UserType == [pool : Pool \cup {None}, busy : 0..2]

\* The bounds of the two counters of minutes.
Counted ==
  /\ minutes \in 0..(IF reachable THEN Gap ELSE MaxOutage)
  /\ dead \in 0..(Longest + 1)

LEMMA TypeFacts ==
  TypeOK <=> /\ pool \in Pool /\ believed \in 0..Ttl /\ renewing \in BOOLEAN
             /\ made \in [Pool -> PoolType] /\ call \in [Trigger -> CallType]
             /\ due \in SUBSET Trigger /\ handler \in [Handler -> UserType]
             /\ reachable \in BOOLEAN /\ Counted
BY DEF TypeOK, PoolType, CallType, UserType, Counted

LEMMA ConstantFacts ==
  /\ NoPool \in PoolType /\ NoPool.status = "none"
  /\ Quiet \in CallType /\ Quiet.pc = "idle" /\ Quiet.old = None /\ Quiet.new = None
  /\ Quiet.lost = FALSE /\ Quiet.minutes = 0
  /\ None \notin Pool
BY BoundsFacts DEF NoPool, Quiet, PoolType, CallType, None, Pool

\* Only the call of t changes.
Only(t) == \A u \in Trigger : u # t => call'[u] = call[u]

LEMMA IssuingFacts ==
  ASSUME pool \in Pool, reachable \in BOOLEAN
  PROVE  /\ Issuing \in CallType
         /\ Issuing.pc = "issue" /\ Issuing.old = pool /\ Issuing.new = None
         /\ Issuing.lost = ~reachable /\ Issuing.minutes = 0
<1>1. 0 \in 0..Hang
  BY BoundsFacts
<1>2. (~reachable) \in BOOLEAN
  BY SMT
<1> QED BY <1>1, <1>2, Zenon DEF Issuing, CallType

LEMMA StartFacts ==
  ASSUME TypeOK, NEW t \in Trigger, Start(t)
  PROVE  /\ call' \in [Trigger -> CallType] /\ renewing' = TRUE /\ Only(t)
         /\ renewing => call'[t] = Quiet
         /\ ~renewing => /\ call'[t].pc = "issue" /\ call'[t].old = pool
                         /\ call'[t].new = None /\ call'[t].lost = ~reachable
                         /\ call'[t].minutes = 0
<1>1. pool \in Pool /\ call \in [Trigger -> CallType] /\ reachable \in BOOLEAN
      /\ renewing \in BOOLEAN
  BY TypeFacts
<1>2. CASE renewing
  BY <1>1, <1>2, ConstantFacts DEF Start, Only
<1>3. CASE ~renewing
  BY <1>1, <1>3, IssuingFacts DEF Start, Only
<1> QED BY <1>2, <1>3

LEMMA IssueFacts ==
  ASSUME TypeOK, NEW t \in Trigger, Issue(t)
  PROVE  \E p \in Pool :
           /\ made[p].status = "none"
           /\ made' \in [Pool -> PoolType] /\ made'[p].status = "new"
           /\ made'[p].age = 0 /\ made'[p].ok
           /\ \A q \in Pool \ {p} : made'[q] = made[q]
           /\ call' \in [Trigger -> CallType] /\ Only(t)
           /\ call'[t].pc = "check" /\ call'[t].old = call[t].old
           /\ call'[t].new = p /\ call'[t].lost = call[t].lost
           /\ call'[t].minutes = call[t].minutes
<1>1. made \in [Pool -> PoolType] /\ call \in [Trigger -> CallType]
  BY TypeFacts
<1>2. PICK p \in Pool :
        /\ made[p].status = "none"
        /\ made' = [made EXCEPT ![p] = [status |-> "new", age |-> 0, ok |-> TRUE]]
        /\ call' = [call EXCEPT ![t].pc = "check", ![t].new = p]
  BY DEF Issue, Unknown
<1>3. [status |-> "new", age |-> 0, ok |-> TRUE] \in PoolType
  BY BoundsFacts DEF PoolType
<1>4. /\ call' \in [Trigger -> CallType] /\ Only(t)
      /\ call'[t].pc = "check" /\ call'[t].old = call[t].old
      /\ call'[t].new = p /\ call'[t].lost = call[t].lost
      /\ call'[t].minutes = call[t].minutes
  BY <1>1, <1>2 DEF CallType, Only
<1> QED BY <1>1, <1>2, <1>3, <1>4

LEMMA SwapFacts ==
  ASSUME TypeOK, CallsAreShaped, NEW t \in Trigger, Swap(t)
  PROVE  /\ call[t].old = pool /\ call[t].new \in Pool /\ call[t].new # pool
         /\ pool' = call[t].new /\ made[pool'].status = "new"
         /\ made' \in [Pool -> PoolType]
         /\ made'[pool'].status = "open" /\ made'[pool'].age = made[pool'].age
         /\ made'[pool'].ok = made[pool'].ok
         /\ made'[pool].status = "ending"
         /\ \A p \in Pool \ {pool, pool'} : made'[p] = made[p]
         /\ call' \in [Trigger -> CallType] /\ Only(t)
         /\ call'[t].pc = "end" /\ call'[t].old = call[t].old
         /\ call'[t].new = call[t].new /\ call'[t].lost = call[t].lost
<1>1. made \in [Pool -> PoolType] /\ call \in [Trigger -> CallType] /\ pool \in Pool
  BY TypeFacts
<1>2. /\ call[t].old = pool /\ call[t].new \in Pool /\ call[t].new # pool
      /\ made[call[t].new].status = "new"
  BY DEF CallsAreShaped, Swap, At
<1>3. /\ made' = [made EXCEPT ![call[t].new].status = "open", ![call[t].old].status = "ending"]
      /\ call' = [call EXCEPT ![t].pc = "end"]
      /\ pool' = call[t].new
  BY DEF Swap
<1>4. /\ made' \in [Pool -> PoolType]
      /\ made'[pool'].status = "open" /\ made'[pool'].age = made[pool'].age
      /\ made'[pool'].ok = made[pool'].ok
      /\ made'[pool].status = "ending"
      /\ \A p \in Pool \ {pool, pool'} : made'[p] = made[p]
  BY <1>1, <1>2, <1>3 DEF PoolType
<1>5. /\ call' \in [Trigger -> CallType] /\ Only(t)
      /\ call'[t].pc = "end" /\ call'[t].old = call[t].old
      /\ call'[t].new = call[t].new /\ call'[t].lost = call[t].lost
  BY <1>1, <1>3 DEF CallType, Only
<1> QED BY <1>2, <1>3, <1>4, <1>5

\* A renewal is over, well or not.
Over(t) ==
  /\ call' \in [Trigger -> CallType] /\ Only(t) /\ call'[t] = Quiet
  /\ made' \in [Pool -> PoolType] /\ renewing' = FALSE

LEMMA EndOldFacts ==
  ASSUME TypeOK, CallsAreShaped, NEW t \in Trigger, EndOld(t)
  PROVE  /\ Over(t) /\ call[t].old \in Pool \ {pool}
         /\ made'[call[t].old] = NoPool
         /\ \A p \in Pool \ {call[t].old} : made'[p] = made[p]
BY TypeFacts, ConstantFacts DEF EndOld, Over, Only, CallsAreShaped, At

LEMMA FailFacts ==
  ASSUME TypeOK, CallsAreShaped, NEW t \in Trigger, Fail(t)
  PROVE  /\ Over(t) /\ call[t].new # pool
         /\ call[t].new \in Pool => made'[call[t].new] = NoPool
         /\ \A p \in Pool \ {call[t].new} : made'[p] = made[p]
<1>1. call[t].new \in Pool \cup {None} /\ call[t].new # pool /\ pool \in Pool
  BY TypeFacts, ConstantFacts DEF Fail, CallsAreShaped, At, Awaited, CallType
<1> QED BY <1>1, TypeFacts, ConstantFacts DEF Fail, Over, Only

LEMMA TickFacts ==
  ASSUME TypeOK, Tick
  PROVE  /\ made' \in [Pool -> PoolType]
         /\ \A p \in Pool : /\ made'[p].status = made[p].status
                            /\ made[p].status # "none" =>
                                 /\ made'[p].ok = made[p].ok
                                 /\ made'[p].age = Least(made[p].age + 1, Ttl)
         /\ call' \in [Trigger -> CallType]
         /\ \A t \in Trigger :
              /\ call'[t].pc = call[t].pc /\ call'[t].old = call[t].old
              /\ call'[t].new = call[t].new /\ call'[t].lost = call[t].lost
              /\ Awaited(t) => call'[t].minutes = call[t].minutes + 1
<1>1. made \in [Pool -> PoolType] /\ call \in [Trigger -> CallType]
  BY TypeFacts
<1>2. ASSUME NEW p \in Pool
      PROVE  /\ made'[p] \in PoolType /\ made'[p].status = made[p].status
             /\ made[p].status # "none" =>
                  /\ made'[p].ok = made[p].ok
                  /\ made'[p].age = Least(made[p].age + 1, Ttl)
  <2>1. made'[p] = IF made[p].status = "none" THEN NoPool
                   ELSE [made[p] EXCEPT !.age = Least(@ + 1, Ttl)]
    BY DEF Tick
  <2>2. Least(made[p].age + 1, Ttl) \in 0..Ttl
    BY <1>1, BoundsFacts, LeastFacts DEF PoolType
  <2> QED BY <1>1, <2>1, <2>2, ConstantFacts DEF PoolType
<1>3. ASSUME NEW t \in Trigger
      PROVE  /\ call'[t] \in CallType
             /\ call'[t].pc = call[t].pc /\ call'[t].old = call[t].old
             /\ call'[t].new = call[t].new /\ call'[t].lost = call[t].lost
             /\ Awaited(t) => call'[t].minutes = call[t].minutes + 1
  <2>1. call'[t] = [call[t] EXCEPT !.minutes = IF Awaited(t) THEN @ + 1 ELSE 0]
    BY DEF Tick
  <2>2. Awaited(t) => call[t].minutes + 1 \in 0..Hang
    BY <1>1, BoundsFacts DEF Tick, Settled, At, Awaited, CallType
  <2>3. 0 \in 0..Hang
    BY BoundsFacts
  <2> QED BY <1>1, <2>1, <2>2, <2>3 DEF CallType
<1>4. /\ made' = [p \in Pool |-> made'[p]] /\ call' = [t \in Trigger |-> call'[t]]
  BY DEF Tick
<1> QED BY <1>2, <1>3, <1>4

LEMMA HeartbeatFacts ==
  ASSUME TypeOK, Heartbeat
  PROVE  \/ UNCHANGED <<call, renewing>> /\ (Due => ~At("heartbeat", "idle"))
         \/ At("heartbeat", "idle") /\ Due /\ Start("heartbeat")
BY DEF Heartbeat

LEMMA ProbeFacts ==
  ASSUME TypeOK, Probe
  PROVE  /\ call' \in [Trigger -> CallType] /\ Only("health")
         /\ \/ UNCHANGED call /\ (At("health", "idle") => Healthy)
            \/ /\ At("health", "idle") /\ call'["health"].pc = "failed"
               /\ call'["health"].old = call["health"].old
               /\ call'["health"].new = call["health"].new
               /\ call'["health"].lost = call["health"].lost
BY TypeFacts DEF Probe, Only, Trigger, CallType

LEMMA OutageFacts ==
  ASSUME TypeOK, Outage
  PROVE  /\ call' \in [Trigger -> CallType]
         /\ \A t \in Trigger :
              /\ call'[t].pc = call[t].pc /\ call'[t].old = call[t].old
              /\ call'[t].new = call[t].new
              /\ call'[t].lost <=> call[t].lost \/ Awaited(t)
<1>1. call \in [Trigger -> CallType]
  BY TypeFacts
<1>2. \A t \in Trigger : (call[t].lost \/ Awaited(t)) \in BOOLEAN
  BY SMT
<1>3. ASSUME NEW t \in Trigger
      PROVE  /\ call'[t] \in CallType
             /\ call'[t].pc = call[t].pc /\ call'[t].old = call[t].old
             /\ call'[t].new = call[t].new
             /\ call'[t].lost <=> call[t].lost \/ Awaited(t)
  <2>1. call'[t] = [call[t] EXCEPT !.lost = @ \/ Awaited(t)]
    BY DEF Outage
  <2> QED BY <1>1, <1>2, <2>1 DEF CallType
<1>4. call' = [t \in Trigger |-> call'[t]]
  BY DEF Outage
<1> QED BY <1>3, <1>4

\* Revoked bars the current credential and changes nothing else.
LEMMA RevokedFacts ==
  ASSUME TypeOK, Revoked
  PROVE  /\ made' \in [Pool -> PoolType]
         /\ ~made'[pool].ok /\ made'[pool].age = made[pool].age
         /\ \A p \in Pool : made'[p].status = made[p].status
         /\ \A p \in Pool \ {pool} : made'[p] = made[p]
BY TypeFacts DEF Revoked, PoolType

LEMMA NextTypeFacts ==
  TypeOK' <=> /\ pool' \in Pool /\ believed' \in 0..Ttl /\ renewing' \in BOOLEAN
              /\ made' \in [Pool -> PoolType] /\ call' \in [Trigger -> CallType]
              /\ due' \in SUBSET Trigger /\ handler' \in [Handler -> UserType]
              /\ reachable' \in BOOLEAN /\ Counted'
BY DEF TypeOK, PoolType, CallType, UserType, Counted

LEMMA TypeStep ==
  ASSUME TypeOK, CallsAreShaped, [Next]_vars
  PROVE  TypeOK'
<1> USE DEF Counted
<1>1. /\ pool \in Pool /\ believed \in 0..Ttl /\ renewing \in BOOLEAN
      /\ made \in [Pool -> PoolType] /\ call \in [Trigger -> CallType]
      /\ due \in SUBSET Trigger /\ handler \in [Handler -> UserType]
      /\ reachable \in BOOLEAN /\ Counted
  BY TypeFacts
<1>2. Gap \in Nat /\ Longest \in Nat
  BY BoundsFacts DEF Gap, Longest
<1>3. CASE Tick
  <2>1. believed' \in 0..Ttl
    BY <1>1, <1>3, BoundsFacts DEF Tick, Least
  <2>2. dead' \in 0..(Longest + 1)
    BY <1>1, <1>2, <1>3 DEF Tick, Least
  <2>4. minutes' \in 0..(IF reachable THEN Gap ELSE MaxOutage)
    BY <1>1, <1>2, <1>3, BoundsFacts DEF Tick, Least
  <2>3. handler' \in [Handler -> UserType]
    BY <1>1, <1>3 DEF Tick, UserType
  <2> QED BY <1>1, <1>3, <2>1, <2>2, <2>3, <2>4, TickFacts, NextTypeFacts DEF Tick
<1>4. CASE Heartbeat
  BY <1>1, <1>4, HeartbeatFacts, StartFacts, NextTypeFacts DEF Heartbeat, Trigger
<1>5. CASE Probe
  BY <1>1, <1>5, ProbeFacts, NextTypeFacts DEF Probe
<1>6. CASE Recover
  BY <1>1, <1>6, StartFacts, NextTypeFacts DEF Recover, Trigger
<1>7. ASSUME NEW t \in Trigger, Issue(t) PROVE TypeOK'
  BY <1>1, <1>7, IssueFacts, NextTypeFacts DEF Issue
<1>8. ASSUME NEW t \in Trigger, Swap(t) PROVE TypeOK'
  <2>1. dead' \in 0..(Longest + 1) /\ believed' \in 0..Ttl
    BY <1>1, <1>2, <1>8, BoundsFacts DEF Swap
  <2> QED BY <1>1, <1>8, <2>1, SwapFacts, NextTypeFacts DEF Swap
<1>9. ASSUME NEW t \in Trigger, EndOld(t) PROVE TypeOK'
  <2>1. handler' \in [Handler -> UserType]
    BY <1>1, <1>9 DEF EndOld, UserType
  <2> QED BY <1>1, <1>9, <2>1, EndOldFacts, NextTypeFacts DEF EndOld, Over
<1>10. ASSUME NEW t \in Trigger, Fail(t) PROVE TypeOK'
  BY <1>1, <1>10, FailFacts, NextTypeFacts DEF Fail, Over
<1>11. CASE Revoked
  BY <1>1, <1>11, RevokedFacts, NextTypeFacts DEF Revoked
<1>12. CASE Outage
  <2>1. reachable' = FALSE /\ minutes' = 0 /\ dead' = dead
    BY <1>12 DEF Outage
  <2>2. Counted'
    BY <1>1, <2>1, BoundsFacts
  <2> QED BY <1>1, <1>12, <2>1, <2>2, OutageFacts, NextTypeFacts DEF Outage
<1>13. CASE Repair
  BY <1>1, <1>2, <1>13, BoundsFacts, NextTypeFacts DEF Repair
<1>14. ASSUME NEW h \in Handler, Take(h) \/ Query(h) \/ Answer(h) PROVE TypeOK'
  <2>1. handler' \in [Handler -> UserType]
    BY <1>1, <1>14 DEF Take, Query, Answer, UserType
  <2> QED BY <1>1, <1>14, <2>1, NextTypeFacts DEF Take, Query, Answer
<1>15. CASE UNCHANGED vars
  BY <1>1, <1>15, NextTypeFacts DEF vars
<1> QED
  BY <1>3, <1>4, <1>5, <1>6, <1>7, <1>8, <1>9, <1>10, <1>11, <1>12, <1>13, <1>14,
     <1>15 DEF Next, Work

-----------------------------------------------------------------------------
(* The shape of a renewal, and that no pool is leaked.                     *)

\* The pools keep their status and the renewals their statement.
Still ==
  /\ pool' = pool /\ renewing' = renewing
  /\ \A p \in Pool : made'[p].status = made[p].status
  /\ \A t \in Trigger :
       /\ call'[t].pc = call[t].pc /\ call'[t].old = call[t].old
       /\ call'[t].new = call[t].new
       /\ call'[t].lost => call[t].lost \/ Awaited(t)

LEMMA StillShape ==
  ASSUME TypeOK, ShapeInv, Still
  PROVE  ShapeInv'
<1>1. pool \in Pool
  BY TypeFacts
<1>2. \A t \in Trigger : \A p : At(t, p)' <=> At(t, p)
  BY DEF At, Still
<1>3. \A t \in Trigger : (Renews(t)' <=> Renews(t)) /\ (Awaited(t)' <=> Awaited(t))
  BY DEF Renews, Awaited, Still
<1>4. CallsAreShaped'
  BY <1>2, <1>3 DEF ShapeInv, CallsAreShaped, Still
<1>5. OneRenewal' /\ RenewingIsTrue'
  BY <1>3 DEF ShapeInv, OneRenewal, RenewingIsTrue, Still
<1>6. HeartbeatNeverFailed'
  BY <1>2 DEF ShapeInv, HeartbeatNeverFailed, Trigger
<1>7. NoPoolIsLeaked'
  BY <1>1, <1>2 DEF ShapeInv, NoPoolIsLeaked, Still
<1> QED BY <1>4, <1>5, <1>6, <1>7 DEF ShapeInv

\* A pool that is neither current nor ended belongs to the renewal that runs.
LEMMA OthersAreEnded ==
  ASSUME TypeOK, ShapeInv, NEW t \in Trigger, Renews(t),
         NEW p \in Pool \ {pool, call[t].old, call[t].new}
  PROVE  made[p].status = "none"
<1>1. SUFFICES ASSUME made[p].status # "none" PROVE FALSE
  OBVIOUS
<1>2. PICK u \in Trigger : ~At(u, "idle") /\ p \in {call[u].old, call[u].new}
  BY <1>1 DEF ShapeInv, NoPoolIsLeaked
<1>3. p # None
  BY ConstantFacts
<1>4. call[u].pc \notin {"idle", "failed"}
  BY <1>2, <1>3 DEF ShapeInv, CallsAreShaped
<1>5. Renews(u)
  BY <1>4, TypeFacts DEF Renews, CallType
<1> QED BY <1>2, <1>5 DEF ShapeInv, OneRenewal

LEMMA NoneRenews ==
  ASSUME TypeOK, ShapeInv, ~renewing, NEW p \in Pool \ {pool}
  PROVE  made[p].status = "none"
<1>1. SUFFICES ASSUME made[p].status # "none" PROVE FALSE
  OBVIOUS
<1>2. PICK u \in Trigger : ~At(u, "idle") /\ p \in {call[u].old, call[u].new}
  BY <1>1 DEF ShapeInv, NoPoolIsLeaked
<1>3. call[u].pc \notin {"idle", "failed"}
  BY <1>2, ConstantFacts DEF ShapeInv, CallsAreShaped
<1> QED BY <1>3, TypeFacts DEF ShapeInv, RenewingIsTrue, Renews, CallType

LEMMA StartShape ==
  ASSUME TypeOK, ShapeInv, NEW t \in Trigger, call[t].pc \in {"idle", "failed"},
         Start(t), UNCHANGED <<pool, made>>
  PROVE  ShapeInv'
<1>1. pool \in Pool /\ call \in [Trigger -> CallType]
  BY TypeFacts
<1>2. CASE renewing
  <2>1. call'[t] = Quiet /\ Only(t) /\ renewing' = renewing
    BY <1>2, StartFacts
  <2>2. ~Renews(t) /\ ~Renews(t)' /\ \A u \in Trigger : Renews(u)' <=> Renews(u)
    BY <2>1, ConstantFacts DEF Renews, Only
  <2>3. CallsAreShaped'
    BY <2>1, ConstantFacts DEF ShapeInv, CallsAreShaped, At, Awaited, Only
  <2>4. OneRenewal' /\ RenewingIsTrue'
    BY <2>1, <2>2 DEF ShapeInv, OneRenewal, RenewingIsTrue
  <2>5. HeartbeatNeverFailed'
    BY <2>1, ConstantFacts DEF ShapeInv, HeartbeatNeverFailed, At, Only, Trigger
  <2>6. NoPoolIsLeaked'
    BY <1>1, <2>1, ConstantFacts DEF ShapeInv, NoPoolIsLeaked, CallsAreShaped, At, Only
  <2> QED BY <2>3, <2>4, <2>5, <2>6 DEF ShapeInv
<1>3. CASE ~renewing
  <2>1. /\ call'[t].pc = "issue" /\ call'[t].old = pool /\ call'[t].new = None
        /\ Only(t) /\ renewing'
    BY <1>3, StartFacts
  <2>2. \A u \in Trigger : ~Renews(u)
    BY <1>3 DEF ShapeInv, RenewingIsTrue
  <2>3. \A u \in Trigger : Renews(u)' <=> u = t
    BY <2>1, <2>2 DEF Renews, Only
  <2>4. CallsAreShaped'
    BY <2>1 DEF ShapeInv, CallsAreShaped, At, Awaited, Only
  <2>5. OneRenewal' /\ RenewingIsTrue'
    BY <2>1, <2>3 DEF OneRenewal, RenewingIsTrue
  <2>6. HeartbeatNeverFailed'
    BY <2>1 DEF ShapeInv, HeartbeatNeverFailed, At, Only, Trigger
  <2>7. NoPoolIsLeaked'
    BY <1>1, <1>3, NoneRenews DEF ShapeInv, NoPoolIsLeaked
  <2> QED BY <2>4, <2>5, <2>6, <2>7 DEF ShapeInv
<1> QED BY <1>1, <1>2, <1>3, TypeFacts

LEMMA IssueShape ==
  ASSUME TypeOK, ShapeInv, NEW t \in Trigger, Issue(t)
  PROVE  ShapeInv'
<1>1. pool \in Pool /\ pool' = pool /\ renewing' = renewing
  BY TypeFacts DEF Issue
<1>2. PICK p \in Pool :
        /\ made[p].status = "none" /\ made'[p].status = "new"
        /\ \A q \in Pool \ {p} : made'[q] = made[q]
        /\ Only(t) /\ call'[t].pc = "check" /\ call'[t].old = call[t].old
        /\ call'[t].new = p /\ call'[t].lost = call[t].lost
  BY IssueFacts
<1>3. call[t].pc = "issue" /\ call[t].old = pool /\ Renews(t) /\ Renews(t)' /\ p # pool
  BY <1>2 DEF Issue, At, ShapeInv, CallsAreShaped, Renews, NoPoolIsLeaked
<1>4. \A u \in Trigger : u # t => ~Renews(u)
  BY <1>3 DEF ShapeInv, OneRenewal
<1>5. \A u \in Trigger : Renews(u)' <=> u = t
  BY <1>2, <1>3, <1>4 DEF Renews, Only
<1>6. CallsAreShaped'
  BY <1>1, <1>2, <1>3, <1>4 DEF ShapeInv, CallsAreShaped, At, Awaited, Only, Renews
<1>7. OneRenewal' /\ RenewingIsTrue'
  BY <1>1, <1>3, <1>5 DEF ShapeInv, OneRenewal, RenewingIsTrue
<1>8. HeartbeatNeverFailed'
  BY <1>2 DEF ShapeInv, HeartbeatNeverFailed, At, Only, Trigger
<1>9. NoPoolIsLeaked'
  <2>1. made'[pool'].status = "open"
    BY <1>1, <1>2, <1>3 DEF ShapeInv, NoPoolIsLeaked
  <2>2. ASSUME NEW q \in Pool \ {pool}, q # p PROVE made'[q].status = "none"
    <3>1. call[t].new = None
      BY <1>3 DEF ShapeInv, CallsAreShaped, At
    <3> QED BY <1>2, <1>3, <2>2, <3>1, OthersAreEnded, ConstantFacts
  <2> QED BY <1>1, <1>2, <2>1, <2>2 DEF NoPoolIsLeaked, At
<1> QED BY <1>6, <1>7, <1>8, <1>9 DEF ShapeInv

LEMMA SwapShape ==
  ASSUME TypeOK, ShapeInv, NEW t \in Trigger, Swap(t)
  PROVE  ShapeInv'
<1>1. CallsAreShaped /\ pool \in Pool /\ renewing' = renewing
  BY TypeFacts DEF ShapeInv, Swap
<1>2. /\ call[t].old = pool /\ call[t].new \in Pool /\ call[t].new # pool
      /\ pool' = call[t].new
      /\ made'[pool'].status = "open" /\ made'[pool].status = "ending"
      /\ \A p \in Pool \ {pool, pool'} : made'[p] = made[p]
      /\ Only(t) /\ call'[t].pc = "end" /\ call'[t].old = call[t].old
      /\ call'[t].new = call[t].new /\ call'[t].lost = call[t].lost
  BY <1>1, SwapFacts
<1>3. call[t].pc = "check" /\ ~call[t].lost /\ Renews(t) /\ Renews(t)'
  BY <1>2 DEF Swap, At, Renews
<1>4. \A u \in Trigger : u # t => ~Renews(u)
  BY <1>3 DEF ShapeInv, OneRenewal
<1>5. \A u \in Trigger : Renews(u)' <=> u = t
  BY <1>2, <1>3, <1>4 DEF Renews, Only
<1>6. CallsAreShaped'
  BY <1>1, <1>2, <1>3, <1>4 DEF CallsAreShaped, At, Awaited, Only, Renews
<1>7. OneRenewal' /\ RenewingIsTrue'
  BY <1>1, <1>3, <1>5 DEF ShapeInv, OneRenewal, RenewingIsTrue
<1>8. HeartbeatNeverFailed'
  BY <1>2 DEF ShapeInv, HeartbeatNeverFailed, At, Only, Trigger
<1>9. NoPoolIsLeaked'
  <2>1. ASSUME NEW q \in Pool \ {pool'}, q # pool PROVE made'[q].status = "none"
    BY <1>2, <1>3, <2>1, OthersAreEnded
  <2> QED BY <1>1, <1>2, <2>1 DEF NoPoolIsLeaked, At
<1> QED BY <1>6, <1>7, <1>8, <1>9 DEF ShapeInv

\* A renewal is over, and its pool that is not the current one is gone.
LEMMA OverShape ==
  ASSUME TypeOK, ShapeInv, NEW t \in Trigger, Renews(t), Over(t), pool' = pool,
         made'[pool] = made[pool],
         \A p \in Pool \ {pool} : made'[p] \in {made[p], NoPool},
         \A p \in {call[t].old, call[t].new} \cap Pool : p # pool => made'[p] = NoPool
  PROVE  ShapeInv'
<1>1. pool \in Pool /\ call'[t] = Quiet /\ Only(t) /\ renewing' = FALSE
  BY TypeFacts DEF Over
<1>2. \A u \in Trigger : u # t => ~Renews(u)
  BY DEF ShapeInv, OneRenewal
<1>3. \A u \in Trigger : ~Renews(u)'
  BY <1>1, <1>2, ConstantFacts DEF Renews, Only
<1>4. CallsAreShaped'
  BY <1>1, <1>2, ConstantFacts DEF ShapeInv, CallsAreShaped, At, Awaited, Only, Renews
<1>5. OneRenewal' /\ RenewingIsTrue'
  BY <1>1, <1>3 DEF OneRenewal, RenewingIsTrue
<1>6. HeartbeatNeverFailed'
  BY <1>1, ConstantFacts DEF ShapeInv, HeartbeatNeverFailed, At, Only, Trigger
<1>7. NoPoolIsLeaked'
  <2>1. ASSUME NEW q \in Pool \ {pool} PROVE made'[q].status = "none"
    BY OthersAreEnded, ConstantFacts
  <2> QED BY <1>1, <2>1 DEF ShapeInv, NoPoolIsLeaked
<1> QED BY <1>4, <1>5, <1>6, <1>7 DEF ShapeInv

LEMMA ShapeStep ==
  ASSUME TypeOK, ShapeInv, [Next]_vars
  PROVE  ShapeInv'
<1>1. CallsAreShaped
  BY DEF ShapeInv
<1>2. CASE Tick
  <2>1. Still
    BY <1>2, TickFacts DEF Still, Tick
  <2> QED BY <2>1, StillShape
<1>3. CASE Heartbeat
  <2>1. UNCHANGED <<pool, made>>
    BY <1>3 DEF Heartbeat
  <2>2. CASE UNCHANGED <<call, renewing>>
    <3>1. Still
      BY <2>1, <2>2 DEF Still
    <3> QED BY <3>1, StillShape
  <2>3. CASE At("heartbeat", "idle") /\ Start("heartbeat")
    BY <2>1, <2>3, StartShape DEF At, Trigger
  <2> QED BY <1>3, <2>2, <2>3, HeartbeatFacts
<1>4. CASE Probe
  <2>1. UNCHANGED <<pool, made, renewing>>
    BY <1>4 DEF Probe
  <2>2. CASE UNCHANGED call
    <3>1. Still
      BY <2>1, <2>2 DEF Still
    <3> QED BY <3>1, StillShape
  <2>3. CASE ~UNCHANGED call
    <3>1. /\ Only("health") /\ call["health"].pc = "idle"
          /\ call'["health"].pc = "failed" /\ call'["health"].old = call["health"].old
          /\ call'["health"].new = call["health"].new
          /\ call'["health"].lost = call["health"].lost
      BY <1>4, <2>3, ProbeFacts DEF At
    <3>2. \A t \in Trigger : Renews(t)' <=> Renews(t)
      BY <3>1 DEF Renews, Only
    <3>3. CallsAreShaped'
      BY <2>1, <3>1 DEF CallsAreShaped, ShapeInv, At, Awaited, Only
    <3>4. OneRenewal' /\ RenewingIsTrue'
      BY <2>1, <3>2 DEF ShapeInv, OneRenewal, RenewingIsTrue
    <3>5. HeartbeatNeverFailed'
      BY <3>1 DEF ShapeInv, HeartbeatNeverFailed, At, Only, Trigger
    <3>6. NoPoolIsLeaked'
      BY <2>1, <3>1 DEF ShapeInv, NoPoolIsLeaked, At, Only
    <3> QED BY <3>3, <3>4, <3>5, <3>6 DEF ShapeInv
  <2> QED BY <2>2, <2>3
<1>5. CASE Recover
  BY <1>5, StartShape DEF Recover, At, Trigger
<1>6. ASSUME NEW t \in Trigger, Issue(t) PROVE ShapeInv'
  BY <1>6, IssueShape
<1>7. ASSUME NEW t \in Trigger, Swap(t) PROVE ShapeInv'
  BY <1>7, SwapShape
<1>8. ASSUME NEW t \in Trigger, EndOld(t) PROVE ShapeInv'
  <2>1. Renews(t) /\ call[t].new = pool /\ pool' = pool /\ pool \in Pool
    BY <1>1, <1>8, TypeFacts DEF EndOld, At, Renews, CallsAreShaped
  <2> QED BY <1>1, <1>8, <2>1, EndOldFacts, OverShape
<1>9. ASSUME NEW t \in Trigger, Fail(t) PROVE ShapeInv'
  <2>1. Renews(t) /\ call[t].old = pool /\ pool' = pool /\ pool \in Pool
    BY <1>1, <1>9, TypeFacts DEF Fail, At, Awaited, Renews, CallsAreShaped
  <2> QED BY <1>1, <1>9, <2>1, FailFacts, OverShape
<1>10. CASE Revoked
  <2>1. Still
    BY <1>10, RevokedFacts DEF Still, Revoked
  <2> QED BY <2>1, StillShape
<1>11. CASE Outage
  <2>1. Still
    BY <1>11, OutageFacts DEF Still, Outage
  <2> QED BY <2>1, StillShape
<1>12. CASE Repair \/ UNCHANGED vars
       \/ \E h \in Handler : Take(h) \/ Query(h) \/ Answer(h)
  <2>1. Still
    BY <1>12 DEF Still, Repair, Take, Query, Answer, vars
  <2> QED BY <2>1, StillShape
<1> QED
  BY <1>2, <1>3, <1>4, <1>5, <1>6, <1>7, <1>8, <1>9, <1>10, <1>11, <1>12
     DEF Next, Work

-----------------------------------------------------------------------------
(* The age of the credential.                                              *)

LEMMA NumberFacts ==
  ASSUME TypeOK
  PROVE  /\ believed \in Nat /\ minutes \in Nat /\ dead \in Nat
         /\ reachable => minutes <= Hang + 2
         /\ ~reachable => minutes <= MaxOutage
         /\ \A t \in Trigger : call[t].minutes \in Nat /\ call[t].minutes <= Hang
BY TypeFacts, BoundsFacts DEF Counted, Gap, Longest, CallType

LEMMA AgeIsSmall ==
  ASSUME TypeOK, AgeIsBounded
  PROVE  believed <= RenewAt + MaxOutage + Hang + 1 /\ believed < Ttl
BY NumberFacts, BoundsFacts DEF AgeIsBounded, Gap

\* When a minute ends, a call that is awaited will get no answer; in a quick minute
\* there is none.
LEMMA TickWaits ==
  ASSUME TypeOK, LostEnds, Tick
  PROVE  /\ \A t \in Trigger : /\ call[t].pc # "failed"
                               /\ Awaited(t) => call[t].lost /\ ~Quick
         /\ due = {}
<1>1. \A t \in Trigger : Settled(t) /\ call[t].pc # "failed"
  BY DEF Tick, Settled, At, Awaited
<1>2. \A t \in Trigger : Awaited(t) => call[t].lost /\ call[t].minutes < Hang
  BY <1>1 DEF Settled, At, Awaited
<1> QED BY <1>1, <1>2, NumberFacts, BoundsFacts DEF LostEnds, Quick, Tick

LEMMA TickAge ==
  ASSUME TypeOK, ShapeInv, AgeInv, Tick
  PROVE  AgeInv' /\ believed' = believed + 1
<1>1. NewIsFresh /\ AgeIsKnown /\ LostEnds /\ EndsSoon /\ HeartbeatHeeded /\ AgeIsBounded
      /\ CallsAreShaped /\ NoPoolIsLeaked
  BY DEF AgeInv, ShapeInv
<1>2. believed' = believed + 1
  BY <1>1, AgeIsSmall, NumberFacts, BoundsFacts DEF Tick, Least
<1>3. NewIsFresh'
  <2>1. SUFFICES ASSUME NEW t \in Trigger, At(t, "check")'
                 PROVE  made'[call'[t].new].ok /\ call'[t].lost
    BY DEF NewIsFresh
  <2>2. At(t, "check") /\ Awaited(t) /\ call'[t].new = call[t].new
    BY <2>1, TickFacts DEF At, Awaited
  <2>3. call[t].new \in Pool /\ made[call[t].new].status = "new" /\ made[call[t].new].ok
    BY <1>1, <2>2 DEF CallsAreShaped, NewIsFresh
  <2> QED BY <1>1, <2>2, <2>3, TickFacts, TickWaits
<1>4. AgeIsKnown'
  <2>1. pool' = pool /\ pool \in Pool /\ made[pool].status = "open"
    BY <1>1, TypeFacts DEF Tick, NoPoolIsLeaked
  <2>2. made'[pool].age = Least(made[pool].age + 1, Ttl)
    BY <2>1, TickFacts
  <2> QED BY <1>1, <2>1, <2>2 DEF AgeIsKnown, Tick
<1>5. LostEnds'
  <2>1. SUFFICES ASSUME NEW t \in Trigger, call'[t].lost, reachable'
                 PROVE  minutes' <= call'[t].minutes
    BY DEF LostEnds
  <2>2. call[t].lost /\ reachable /\ Awaited(t)
    BY <1>1, <2>1, TickFacts DEF Tick, CallsAreShaped
  <2>3. call'[t].minutes = call[t].minutes + 1 /\ minutes <= call[t].minutes
    BY <1>1, <2>2, TickFacts DEF LostEnds
  <2>4. minutes' <= minutes + 1
    BY <2>2, NumberFacts, BoundsFacts DEF Tick, Least, Gap
  <2>5. minutes' \in Nat
    BY <2>2, NumberFacts, BoundsFacts DEF Tick, Least, Gap
  <2> QED BY <2>3, <2>4, <2>5, NumberFacts
<1>6. EndsSoon'
  <2>1. SUFFICES ASSUME NEW t \in Trigger, At(t, "end")'
                 PROVE  /\ believed' <= 1
                        /\ \A h \in Handler : Uses(h, call[t].old)' => handler'[h].busy = 2
    BY TickFacts DEF EndsSoon, Uses
  <2>2. At(t, "end") /\ Settled(t)
    BY <2>1, TickFacts DEF At, Tick
  <2>3. PICK h \in Handler : Uses(h, call[t].old) /\ handler[h].busy # 2
    BY <2>2 DEF Settled, At, Awaited, Tick
  <2>4. believed = 0
    BY <1>1, <2>2, <2>3, NumberFacts DEF EndsSoon
  <2>5. ASSUME NEW k \in Handler, Uses(k, call[t].old)' PROVE handler'[k].busy = 2
    <3>1. handler'[k] = [handler[k] EXCEPT !.busy = IF @ = 0 THEN 0 ELSE 2]
      BY DEF Tick
    <3>2. handler'[k].busy = IF handler[k].busy = 0 THEN 0 ELSE 2
      BY <3>1, TypeFacts DEF UserType
    <3> QED BY <2>5, <3>2 DEF Uses
  <2>6. \A u \in Trigger : call'[u].old = call[u].old
    BY TickFacts
  <2> QED BY <1>2, <2>4, <2>5
<1>7. HeartbeatHeeded'
  BY DEF HeartbeatHeeded, Tick, Trigger
<1>8. AgeIsBounded'
  <2>1. Quick => believed < RenewAt
    BY <1>1, TickWaits, NumberFacts, BoundsFacts DEF HeartbeatHeeded, Due
  <2>2. CASE ~reachable
    <3>1. ~reachable' /\ minutes' = minutes + 1
      BY <2>2 DEF Tick
    <3> QED BY <1>1, <1>2, <2>2, <3>1, NumberFacts, BoundsFacts DEF AgeIsBounded
  <2>3. CASE reachable /\ minutes <= Hang
    <3>1. reachable' /\ minutes' = minutes + 1 /\ minutes' # Gap
      BY <2>3, NumberFacts, BoundsFacts DEF Tick, Least, Gap
    <3> QED BY <1>1, <1>2, <2>3, <3>1, NumberFacts, BoundsFacts DEF AgeIsBounded, Gap
  <2>4. CASE Quick
    <3>1. reachable' /\ minutes' = Gap
      BY <2>4, NumberFacts, BoundsFacts DEF Tick, Least, Gap, Quick
    <3> QED BY <1>2, <2>1, <2>4, <3>1, NumberFacts, BoundsFacts DEF AgeIsBounded, Gap
  <2> QED BY <2>2, <2>3, <2>4, NumberFacts, BoundsFacts DEF Quick
<1> QED BY <1>2, <1>3, <1>4, <1>5, <1>6, <1>7, <1>8 DEF AgeInv

\* A renewal under way when the credential is two minutes old is before its swap.
LEMMA RunningIsAwaited ==
  ASSUME TypeOK, EndsSoon, believed >= 2, NEW t \in Trigger, Renews(t)
  PROVE  Awaited(t)
BY NumberFacts DEF EndsSoon, Renews, Awaited, At

LEMMA DueIsOld ==
  ASSUME TypeOK, Due
  PROVE  believed >= 2
BY NumberFacts, BoundsFacts DEF Due

\* The clocks stand still, and nobody takes a client out.
Timeless ==
  /\ believed' = believed /\ pool' = pool /\ reachable' = reachable
  /\ minutes' = minutes /\ handler' = handler

LEMMA TimelessBound ==
  ASSUME AgeIsBounded, Timeless
  PROVE  AgeIsBounded'
BY DEF AgeIsBounded, Timeless

LEMMA StartAge ==
  ASSUME TypeOK, ShapeInv, AgeInv, NEW t \in Trigger, call[t].pc \in {"idle", "failed"},
         Start(t), Timeless, made' = made
  PROVE  AgeInv' /\ (believed >= 2 => \E u \in Trigger : Awaited(u)')
<1>1. NewIsFresh /\ AgeIsKnown /\ LostEnds /\ EndsSoon /\ AgeIsBounded
  BY DEF AgeInv
<1>2. /\ Only(t) /\ renewing \in BOOLEAN
      /\ renewing => call'[t] = Quiet
      /\ ~renewing => call'[t].pc = "issue" /\ call'[t].lost = ~reachable
  BY StartFacts, TypeFacts
<1>3. call'[t].pc \in {"idle", "issue"}
  BY <1>2, ConstantFacts
<1>4. NewIsFresh' /\ EndsSoon'
  BY <1>1, <1>2, <1>3 DEF NewIsFresh, EndsSoon, Only, At, Timeless, Uses
<1>5. AgeIsKnown'
  BY <1>1 DEF AgeIsKnown, Timeless
<1>6. LostEnds'
  BY <1>1, <1>2, ConstantFacts DEF LostEnds, Only, Timeless
<1>7. ASSUME believed >= 2 PROVE \E u \in Trigger : Awaited(u)'
  <2>1. CASE renewing
    <3>1. PICK u \in Trigger : Renews(u)
      BY <2>1 DEF ShapeInv, RenewingIsTrue
    <3>2. u # t
      BY <3>1 DEF Renews
    <3>3. Awaited(u)
      BY <1>1, <1>7, <3>1, RunningIsAwaited
    <3> QED BY <1>2, <3>2, <3>3 DEF Awaited, Only
  <2>2. CASE ~renewing
    BY <1>2, <2>2 DEF Awaited
  <2> QED BY <2>1, <2>2
<1>8. HeartbeatHeeded'
  BY <1>7, DueIsOld DEF HeartbeatHeeded, Due, Timeless
<1> QED BY <1>1, <1>4, <1>5, <1>6, <1>7, <1>8, TimelessBound DEF AgeInv

\* Steps that leave the calls and the pools' credentials alone.
LEMMA StillAge ==
  ASSUME TypeOK, AgeInv, Timeless, call' = call, made' = made, HeartbeatHeeded'
  PROVE  AgeInv'
<1>1. NewIsFresh' /\ AgeIsKnown' /\ LostEnds'
  BY DEF AgeInv, NewIsFresh, AgeIsKnown, LostEnds, Timeless, At
<1>2. EndsSoon'
  BY DEF AgeInv, EndsSoon, Timeless, At, Uses
<1> QED BY <1>1, <1>2, TimelessBound DEF AgeInv

LEMMA HeartbeatAge ==
  ASSUME TypeOK, ShapeInv, AgeInv, Heartbeat
  PROVE  AgeInv'
<1>1. Timeless /\ made' = made
  BY DEF Heartbeat, Timeless
<1>2. CASE At("heartbeat", "idle") /\ Start("heartbeat")
  BY <1>1, <1>2, StartAge DEF At, Trigger
<1>3. CASE UNCHANGED call /\ (Due => ~At("heartbeat", "idle"))
  <2>1. ASSUME Due PROVE Awaited("heartbeat")
    <3>1. Renews("heartbeat")
      BY <1>3, <2>1, TypeFacts
         DEF ShapeInv, HeartbeatNeverFailed, Renews, At, CallType, Trigger
    <3> QED BY <2>1, <3>1, DueIsOld, RunningIsAwaited DEF AgeInv, Trigger
  <2>2. HeartbeatHeeded'
    BY <1>1, <1>3, <2>1 DEF HeartbeatHeeded, Due, Timeless, Awaited, Trigger
  <2> QED BY <1>1, <1>3, <2>2, StillAge
<1> QED BY <1>2, <1>3, HeartbeatFacts

LEMMA ProbeAge ==
  ASSUME TypeOK, AgeInv, Probe
  PROVE  AgeInv'
<1>1. Timeless /\ made' = made /\ ("heartbeat" \in due' <=> "heartbeat" \in due)
  BY DEF Probe, Timeless
<1>2. NewIsFresh /\ AgeIsKnown /\ LostEnds /\ EndsSoon /\ AgeIsBounded /\ HeartbeatHeeded
  BY DEF AgeInv
<1>3. \/ call' = call
      \/ /\ Only("health") /\ call["health"].pc = "idle"
         /\ call'["health"].pc = "failed"
         /\ call'["health"].lost = call["health"].lost
         /\ call'["health"].minutes = call["health"].minutes
  <2>1. CASE call' = [call EXCEPT !["health"].pc = "failed"]
    BY <2>1, ProbeFacts, TypeFacts DEF Only, At, CallType, Trigger, Probe
  <2> QED BY <2>1 DEF Probe
<1>4. NewIsFresh' /\ EndsSoon' /\ AgeIsKnown' /\ LostEnds'
  BY <1>1, <1>2, <1>3
     DEF NewIsFresh, EndsSoon, AgeIsKnown, LostEnds, Only, At, Timeless, Uses
<1>5. \A u \in Trigger : Awaited(u) => Awaited(u)'
  BY <1>3 DEF Awaited, Only
<1>6. HeartbeatHeeded'
  BY <1>1, <1>2, <1>5 DEF HeartbeatHeeded, Quick, Due, Timeless
<1> QED BY <1>1, <1>2, <1>4, <1>6, TimelessBound DEF AgeInv

LEMMA IssueAge ==
  ASSUME TypeOK, ShapeInv, AgeInv, NEW t \in Trigger, Issue(t)
  PROVE  AgeInv'
<1>1. Timeless /\ due' = due /\ pool \in Pool
  BY TypeFacts DEF Issue, Timeless
<1>2. NewIsFresh /\ AgeIsKnown /\ LostEnds /\ EndsSoon /\ AgeIsBounded /\ HeartbeatHeeded
  BY DEF AgeInv
<1>3. PICK p \in Pool :
        /\ made[p].status = "none" /\ made'[p].age = 0 /\ made'[p].ok
        /\ \A q \in Pool \ {p} : made'[q] = made[q]
        /\ Only(t) /\ call'[t].pc = "check" /\ call'[t].new = p
        /\ call'[t].lost = call[t].lost /\ call'[t].minutes = call[t].minutes
  BY IssueFacts
<1>4. call[t].pc = "issue" /\ p # pool /\ Renews(t)
  BY <1>3 DEF Issue, At, ShapeInv, NoPoolIsLeaked, Renews
<1>5. \A u \in Trigger : u # t => ~Renews(u)
  BY <1>4 DEF ShapeInv, OneRenewal
<1>6. NewIsFresh'
  BY <1>3, <1>5 DEF NewIsFresh, Only, At, Renews
<1>7. AgeIsKnown' /\ LostEnds' /\ EndsSoon'
  BY <1>1, <1>2, <1>3, <1>4 DEF AgeIsKnown, LostEnds, EndsSoon, Timeless, Only, At, Uses
<1>8. HeartbeatHeeded'
  BY <1>3 DEF HeartbeatHeeded, Awaited
<1> QED BY <1>1, <1>2, <1>6, <1>7, <1>8, TimelessBound DEF AgeInv

LEMMA SwapAge ==
  ASSUME TypeOK, ShapeInv, AgeInv, NEW t \in Trigger, Swap(t)
  PROVE  AgeInv'
<1>1. NewIsFresh /\ LostEnds /\ EndsSoon /\ CallsAreShaped
  BY DEF AgeInv, ShapeInv
<1>2. /\ pool' = call[t].new /\ pool' \in Pool
      /\ made'[pool'].age = made[pool'].age
      /\ Only(t) /\ call'[t].pc = "end" /\ call'[t].lost = call[t].lost
  BY <1>1, SwapFacts
<1>3. /\ call[t].pc = "check" /\ ~call[t].lost /\ believed' = 0
      /\ reachable' = reachable /\ minutes' = minutes /\ Renews(t)
  BY DEF Swap, At, Renews
<1>4. \A u \in Trigger : u # t => ~Renews(u)
  BY <1>3 DEF ShapeInv, OneRenewal
<1>5. NewIsFresh'
  BY <1>2, <1>4 DEF NewIsFresh, Only, At, Renews
<1>6. AgeIsKnown'
  BY <1>1, <1>2, <1>3 DEF AgeIsKnown, NewIsFresh, At
<1>7. LostEnds'
  BY <1>1, <1>2, <1>3 DEF LostEnds, Only
<1>8. EndsSoon' /\ HeartbeatHeeded'
  BY <1>3, BoundsFacts DEF EndsSoon, HeartbeatHeeded, Due
<1>9. AgeIsBounded'
  BY <1>3, NumberFacts, BoundsFacts DEF AgeIsBounded
<1> QED BY <1>5, <1>6, <1>7, <1>8, <1>9 DEF AgeInv

LEMMA OverAge ==
  ASSUME TypeOK, ShapeInv, AgeInv, NEW t \in Trigger, Renews(t), Over(t),
         made'[pool] = made[pool],
         UNCHANGED <<pool, believed, due, reachable, minutes>>, Due => ~Quick
  PROVE  AgeInv'
<1>1. AgeIsKnown /\ LostEnds /\ AgeIsBounded
  BY DEF AgeInv
<1>2. call'[t] = Quiet /\ Only(t)
  BY DEF Over
<1>3. \A u \in Trigger : u # t => ~Renews(u)
  BY DEF ShapeInv, OneRenewal
<1>4. NewIsFresh' /\ EndsSoon'
  BY <1>2, <1>3, ConstantFacts DEF NewIsFresh, EndsSoon, Only, At, Renews
<1>5. AgeIsKnown' /\ LostEnds' /\ AgeIsBounded'
  BY <1>1, <1>2, ConstantFacts DEF AgeIsKnown, LostEnds, AgeIsBounded, Only
<1>6. HeartbeatHeeded'
  BY DEF HeartbeatHeeded, Quick, Due
<1> QED BY <1>4, <1>5, <1>6 DEF AgeInv

\* A handler's step takes no client of a pool that is told to end.
LEMMA HandlerAge ==
  ASSUME TypeOK, ShapeInv, AgeInv, NEW h \in Handler, Take(h) \/ Query(h) \/ Answer(h)
  PROVE  AgeInv'
<1>1. UNCHANGED <<pool, believed, made, call, due, reachable, minutes>>
  BY DEF Take, Query, Answer
<1>2. EndsSoon'
  <2>1. SUFFICES ASSUME NEW t \in Trigger, At(t, "end"), NEW k \in Handler,
                        Uses(k, call[t].old)'
                 PROVE  Uses(k, call[t].old) /\ handler'[k].busy = handler[k].busy
    BY <1>1 DEF AgeInv, EndsSoon, At, Uses
  <2>2. CASE k # h
    BY <2>1, <2>2, TypeFacts DEF Take, Query, Answer, Uses
  <2>3. CASE k = h
    <3>1. call[t].old # pool /\ made[call[t].old].status # "open"
          /\ call[t].old # None
      BY <2>1, ConstantFacts DEF ShapeInv, CallsAreShaped, NoPoolIsLeaked
    <3>2. handler \in [Handler -> UserType]
      BY TypeFacts
    <3>3. ~Take(h)
      BY <2>1, <2>3, <3>1, <3>2 DEF Take, Uses, UserType
    <3>4. ~Answer(h)
      BY <2>1, <2>3, <3>2 DEF Answer, Uses, UserType
    <3>5. ~Query(h)
      BY <2>1, <2>3, <3>1, <3>2 DEF Query, Uses, UserType
    <3> QED BY <3>3, <3>4, <3>5
  <2> QED BY <2>2, <2>3
<1>3. NewIsFresh' /\ AgeIsKnown' /\ LostEnds' /\ AgeIsBounded' /\ HeartbeatHeeded'
  BY <1>1 DEF AgeInv, NewIsFresh, AgeIsKnown, LostEnds, AgeIsBounded, HeartbeatHeeded,
              At, Quick, Due, Awaited
<1> QED BY <1>2, <1>3 DEF AgeInv

LEMMA AgeStep ==
  ASSUME TypeOK, ShapeInv, AgeInv, [Next]_vars
  PROVE  AgeInv'
<1>1. NewIsFresh /\ AgeIsKnown /\ LostEnds /\ EndsSoon /\ HeartbeatHeeded /\ AgeIsBounded
      /\ CallsAreShaped
  BY DEF AgeInv, ShapeInv
<1>2. CASE Tick
  BY <1>2, TickAge
<1>3. CASE Heartbeat
  BY <1>3, HeartbeatAge
<1>4. CASE Probe
  BY <1>4, ProbeAge
<1>5. CASE Recover
  BY <1>5, StartAge DEF Recover, At, Timeless, Trigger
<1>6. ASSUME NEW t \in Trigger, Issue(t) PROVE AgeInv'
  BY <1>6, IssueAge
<1>7. ASSUME NEW t \in Trigger, Swap(t) PROVE AgeInv'
  BY <1>7, SwapAge
<1>8. ASSUME NEW t \in Trigger, EndOld(t) PROVE AgeInv'
  <2>1. Renews(t) /\ pool \in Pool /\ At(t, "end")
    BY <1>8, TypeFacts DEF EndOld, At, Renews
  <2>2. ~Due
    BY <1>1, <2>1, DueIsOld, NumberFacts DEF EndsSoon
  <2>3. UNCHANGED <<pool, believed, due, reachable, minutes>>
    BY <1>8 DEF EndOld
  <2> QED BY <1>1, <1>8, <2>1, <2>2, <2>3, EndOldFacts, OverAge
<1>9. ASSUME NEW t \in Trigger, Fail(t) PROVE AgeInv'
  <2>1. Renews(t) /\ pool \in Pool /\ call[t].lost
    BY <1>9, TypeFacts DEF Fail, Awaited, Renews
  <2>2. ~Quick
    BY <1>1, <2>1, NumberFacts, BoundsFacts DEF LostEnds, Quick
  <2>3. UNCHANGED <<pool, believed, due, reachable, minutes>>
    BY <1>9 DEF Fail
  <2> QED BY <1>1, <1>9, <2>1, <2>2, <2>3, FailFacts, OverAge
<1>10. CASE Revoked
  <2>1. /\ made'[pool].age = made[pool].age
        /\ \A p \in Pool \ {pool} : made'[p] = made[p]
    BY <1>10, RevokedFacts
  <2>2. UNCHANGED <<pool, believed, call, due, handler, reachable, minutes>>
    BY <1>10 DEF Revoked
  <2>3. NewIsFresh' /\ AgeIsKnown'
    BY <1>1, <2>1, <2>2 DEF NewIsFresh, AgeIsKnown, CallsAreShaped, At
  <2>4. LostEnds' /\ EndsSoon' /\ HeartbeatHeeded' /\ AgeIsBounded'
    BY <1>1, <2>2 DEF LostEnds, EndsSoon, HeartbeatHeeded, AgeIsBounded, At, Uses,
                      Quick, Due, Awaited
  <2> QED BY <2>3, <2>4 DEF AgeInv
<1>11. CASE Outage
  <2>1. /\ reachable /\ minutes = Gap /\ ~reachable' /\ minutes' = 0
        /\ UNCHANGED <<pool, believed, made, due, handler>>
    BY <1>11 DEF Outage
  <2>2. NewIsFresh' /\ EndsSoon'
    BY <1>1, <1>11, <2>1, OutageFacts DEF NewIsFresh, EndsSoon, At, Uses
  <2>3. AgeIsKnown' /\ LostEnds' /\ HeartbeatHeeded'
    BY <1>1, <2>1 DEF AgeIsKnown, LostEnds, HeartbeatHeeded, Quick
  <2>4. AgeIsBounded'
    BY <1>1, <2>1, NumberFacts, BoundsFacts DEF AgeIsBounded
  <2> QED BY <2>2, <2>3, <2>4 DEF AgeInv
<1>12. CASE Repair
  <2>1. /\ ~reachable /\ reachable' /\ minutes' = 0
        /\ UNCHANGED <<pool, believed, made, call, due, handler>>
    BY <1>12 DEF Repair
  <2>2. NewIsFresh' /\ EndsSoon' /\ AgeIsKnown'
    BY <1>1, <2>1 DEF NewIsFresh, EndsSoon, AgeIsKnown, At, Uses
  <2>3. LostEnds'
    BY <2>1, NumberFacts DEF LostEnds
  <2>4. HeartbeatHeeded'
    BY <2>1, BoundsFacts DEF HeartbeatHeeded, Quick
  <2>5. AgeIsBounded'
    BY <1>1, <2>1, NumberFacts, BoundsFacts DEF AgeIsBounded, Gap
  <2> QED BY <2>2, <2>3, <2>4, <2>5 DEF AgeInv
<1>13. ASSUME NEW h \in Handler, Take(h) \/ Query(h) \/ Answer(h) PROVE AgeInv'
  BY <1>13, HandlerAge
<1>14. CASE UNCHANGED vars
  <2>1. Timeless /\ call' = call /\ made' = made /\ due' = due
    BY <1>14 DEF vars, Timeless
  <2>2. HeartbeatHeeded'
    BY <1>1, <2>1 DEF HeartbeatHeeded, Quick, Due, Timeless, Awaited
  <2> QED BY <2>1, <2>2, StillAge
<1> QED
  BY <1>2, <1>3, <1>4, <1>5, <1>6, <1>7, <1>8, <1>9, <1>10, <1>11, <1>12, <1>13, <1>14
     DEF Next, Work

-----------------------------------------------------------------------------
(* For how long a revoked credential is kept.                              *)

LEMMA TickDead ==
  ASSUME TypeOK, ShapeInv, AgeInv, DeadInv, Tick
  PROVE  DeadInv'
<1>1. /\ CallsAreShaped /\ NoPoolIsLeaked /\ AgeIsKnown /\ LostEnds /\ AgeIsBounded
      /\ DeadIsRevoked /\ ProbeHeeded /\ DeadIsBounded
  BY DEF ShapeInv, AgeInv, DeadInv
<1>2. believed' = believed + 1 /\ believed < Ttl
  BY <1>1, TickAge, AgeIsSmall
<1>3. /\ dead' \in Nat /\ dead' <= dead + 1
      /\ made[pool].ok => dead' = 0
  <2>1. Valid(pool) <=> made[pool].ok
    BY <1>1, <1>2 DEF Valid, AgeIsKnown
  <2>2. Longest \in Nat
    BY BoundsFacts DEF Longest
  <2> QED BY <2>1, <2>2, NumberFacts DEF Tick, Least
<1>4. DeadIsRevoked'
  <2>1. pool' = pool /\ pool \in Pool /\ made'[pool].ok = made[pool].ok
    BY <1>1, TickFacts, TypeFacts DEF Tick, NoPoolIsLeaked
  <2>2. dead' <= believed'
    BY <1>1, <1>2, <1>3, NumberFacts DEF DeadIsRevoked
  <2> QED BY <1>3, <2>1, <2>2 DEF DeadIsRevoked
<1>5. ProbeHeeded'
  BY DEF ProbeHeeded, Tick, Trigger
<1>6. DeadIsBounded'
  <2>1. Quick => dead <= 1
    BY <1>1, TickWaits, NumberFacts DEF ProbeHeeded, At, Trigger
  <2>2. CASE ~reachable
    <3>1. ~reachable' /\ minutes' = minutes + 1
      BY <2>2 DEF Tick
    <3> QED BY <1>1, <1>3, <2>2, <3>1, NumberFacts DEF DeadIsBounded
  <2>3. CASE reachable /\ minutes <= Hang
    <3>1. reachable' /\ minutes' = minutes + 1 /\ minutes' # Gap
      BY <2>3, NumberFacts, BoundsFacts DEF Tick, Least, Gap
    <3> QED BY <1>1, <1>3, <2>3, <3>1, NumberFacts, BoundsFacts DEF DeadIsBounded, Gap
  <2>4. CASE Quick
    <3>1. reachable' /\ minutes' = Gap
      BY <2>4, NumberFacts, BoundsFacts DEF Tick, Least, Gap, Quick
    <3> QED BY <1>3, <2>1, <2>4, <3>1, NumberFacts, BoundsFacts DEF DeadIsBounded, Gap
  <2> QED BY <2>2, <2>3, <2>4, NumberFacts, BoundsFacts DEF Quick
<1> QED BY <1>4, <1>5, <1>6 DEF DeadInv

\* The pool keeps its credential, or loses it.
LEMMA StillDead ==
  ASSUME DeadInv, UNCHANGED <<pool, believed, reachable, minutes, dead>>,
         made'[pool].ok => made[pool].ok, ProbeHeeded'
  PROVE  DeadInv'
BY DEF DeadInv, DeadIsRevoked, DeadIsBounded

LEMMA DeadStep ==
  ASSUME TypeOK, ShapeInv, AgeInv, DeadInv, [Next]_vars
  PROVE  DeadInv'
<1>1. /\ CallsAreShaped /\ NoPoolIsLeaked /\ NewIsFresh /\ LostEnds /\ EndsSoon
      /\ DeadIsRevoked /\ ProbeHeeded /\ DeadIsBounded
  BY DEF ShapeInv, AgeInv, DeadInv
<1>2. pool \in Pool /\ (dead >= 2 => believed >= 2)
  BY <1>1, NumberFacts, TypeFacts DEF DeadIsRevoked
<1>3. CASE Tick
  BY <1>3, TickDead
<1>4. CASE Heartbeat
  <2>1. UNCHANGED <<pool, believed, made, handler, reachable, minutes, dead>>
        /\ ("health" \in due' <=> "health" \in due)
    BY <1>4 DEF Heartbeat
  <2>2. CASE At("heartbeat", "idle") /\ Start("heartbeat")
    <3>1. believed >= 2 => \E u \in Trigger : Awaited(u)'
      BY <2>1, <2>2, StartAge DEF At, Timeless, Trigger
    <3>2. ProbeHeeded'
      BY <1>2, <2>1, <3>1 DEF ProbeHeeded
    <3> QED BY <2>1, <3>2, StillDead
  <2>3. CASE UNCHANGED call
    <3>1. ProbeHeeded'
      BY <1>1, <2>1, <2>3 DEF ProbeHeeded, Quick, At, Awaited
    <3> QED BY <2>1, <3>1, StillDead
  <2> QED BY <1>4, <2>2, <2>3, HeartbeatFacts
<1>5. CASE Probe
  <2>1. UNCHANGED <<pool, believed, made, reachable, minutes, dead>>
    BY <1>5 DEF Probe
  <2>2. ASSUME dead >= 2, UNCHANGED call
        PROVE  At("health", "failed") \/ Awaited("health")
    <3>0. ~Healthy
      BY <1>1, <2>2, NumberFacts DEF DeadIsRevoked, Healthy, Valid
    <3>1. ~At("health", "idle")
      BY <1>5, <2>2, <3>0, ProbeFacts DEF At
    <3>2. At("health", "failed") \/ Renews("health")
      BY <3>1, TypeFacts DEF At, Renews, CallType, Trigger
    <3> QED BY <1>1, <1>2, <2>2, <3>2, RunningIsAwaited DEF Trigger
  <2>3. ProbeHeeded'
    BY <1>5, <2>1, <2>2, ProbeFacts DEF ProbeHeeded, At, Awaited, Trigger
  <2> QED BY <2>1, <2>3, StillDead
<1>6. CASE Recover
  <2>1. UNCHANGED <<pool, believed, made, handler, reachable, minutes, dead>>
    BY <1>6 DEF Recover
  <2>2. believed >= 2 => \E u \in Trigger : Awaited(u)'
    BY <1>6, <2>1, StartAge DEF Recover, At, Timeless, Trigger
  <2>3. ProbeHeeded'
    BY <1>2, <2>1, <2>2 DEF ProbeHeeded
  <2> QED BY <2>1, <2>3, StillDead
<1>7. ASSUME NEW t \in Trigger, Issue(t) PROVE DeadInv'
  <2>1. PICK p \in Pool : /\ made[p].status = "none" /\ call'[t].pc = "check"
                          /\ \A q \in Pool \ {p} : made'[q] = made[q]
    BY <1>7, IssueFacts
  <2>2. made'[pool] = made[pool]
    BY <1>1, <1>2, <2>1 DEF NoPoolIsLeaked
  <2>3. ProbeHeeded'
    BY <2>1 DEF ProbeHeeded, Awaited
  <2>4. UNCHANGED <<pool, believed, reachable, minutes, dead>>
    BY <1>7 DEF Issue
  <2> QED BY <2>2, <2>3, <2>4, StillDead
<1>8. ASSUME NEW t \in Trigger, Swap(t) PROVE DeadInv'
  <2>1. dead' = 0
    BY <1>1, <1>8 DEF Swap, NewIsFresh
  <2> QED BY <2>1, <1>8, NumberFacts, BoundsFacts
          DEF DeadInv, DeadIsRevoked, ProbeHeeded, DeadIsBounded, Swap
<1>9. ASSUME NEW t \in Trigger, EndOld(t) PROVE DeadInv'
  <2>1. At(t, "end") /\ UNCHANGED <<pool, believed, reachable, minutes, dead>>
    BY <1>9 DEF EndOld
  <2>2. made'[pool] = made[pool]
    BY <1>1, <1>2, <1>9, EndOldFacts
  <2>3. ProbeHeeded'
    BY <1>1, <1>2, <2>1, NumberFacts DEF ProbeHeeded, EndsSoon
  <2> QED BY <2>1, <2>2, <2>3, StillDead
<1>10. ASSUME NEW t \in Trigger, Fail(t) PROVE DeadInv'
  <2>1. call[t].lost /\ UNCHANGED <<pool, believed, reachable, minutes, dead>>
    BY <1>10 DEF Fail
  <2>2. made'[pool] = made[pool]
    BY <1>1, <1>2, <1>10, FailFacts
  <2>3. ~Quick
    BY <1>1, <2>1, NumberFacts, BoundsFacts DEF LostEnds, Quick
  <2>4. ProbeHeeded'
    BY <2>1, <2>3 DEF ProbeHeeded, Quick
  <2> QED BY <2>1, <2>2, <2>4, StillDead
<1>11. CASE Revoked
  <2>1. UNCHANGED <<pool, believed, call, due, reachable, minutes, dead>>
    BY <1>11 DEF Revoked
  <2>2. ProbeHeeded'
    BY <1>1, <2>1 DEF ProbeHeeded, Quick, At, Awaited
  <2> QED BY <1>11, <2>1, <2>2, RevokedFacts, StillDead
<1>12. CASE Outage
  BY <1>1, <1>12, NumberFacts, BoundsFacts
     DEF DeadInv, DeadIsRevoked, ProbeHeeded, DeadIsBounded, Outage, Quick, Gap
<1>13. CASE Repair
  BY <1>1, <1>13, NumberFacts, BoundsFacts
     DEF DeadInv, DeadIsRevoked, ProbeHeeded, DeadIsBounded, Repair, Quick, Gap
<1>14. CASE UNCHANGED vars \/ \E h \in Handler : Take(h) \/ Query(h) \/ Answer(h)
  <2>1. UNCHANGED <<pool, believed, made, call, due, reachable, minutes, dead>>
    BY <1>14 DEF vars, Take, Query, Answer
  <2>2. ProbeHeeded'
    BY <1>1, <2>1 DEF ProbeHeeded, Quick, At, Awaited
  <2> QED BY <2>1, <2>2, StillDead
<1> QED
  BY <1>3, <1>4, <1>5, <1>6, <1>7, <1>8, <1>9, <1>10, <1>11, <1>12, <1>13, <1>14
     DEF Next, Work

-----------------------------------------------------------------------------
(* The inductive invariant and what follows from it.                       *)

LEMMA PoolInit == Init => PoolInv
<1> SUFFICES ASSUME Init PROVE PoolInv
  OBVIOUS
<1>1. TypeOK
  <2>1. Counted
    BY BoundsFacts DEF Init, Counted, Gap, Longest
  <2>2. made \in [Pool -> PoolType]
    BY ConstantFacts, BoundsFacts DEF Init, PoolType
  <2>3. call \in [Trigger -> CallType]
    BY ConstantFacts DEF Init
  <2>4. handler \in [Handler -> UserType]
    BY DEF Init, UserType
  <2>5. pool \in Pool /\ believed \in 0..Ttl /\ due \in SUBSET Trigger
    BY BoundsFacts DEF Init, Pool
  <2>6. renewing \in BOOLEAN /\ reachable \in BOOLEAN
    BY DEF Init
  <2> QED BY <2>1, <2>2, <2>3, <2>4, <2>5, <2>6, TypeFacts
<1>2. \A t \in Trigger : call[t] = Quiet
  BY DEF Init
<1>3. ShapeInv
  BY <1>2, ConstantFacts
     DEF Init, ShapeInv, CallsAreShaped, OneRenewal, RenewingIsTrue, HeartbeatNeverFailed,
         NoPoolIsLeaked, At, Awaited, Renews, Trigger, Pool
<1>4. AgeInv
  BY <1>2, ConstantFacts, BoundsFacts
     DEF Init, AgeInv, NewIsFresh, AgeIsKnown, LostEnds, EndsSoon, HeartbeatHeeded,
         AgeIsBounded, At, Trigger, Pool, Due
<1>5. DeadInv
  BY BoundsFacts DEF Init, DeadInv, DeadIsRevoked, ProbeHeeded, DeadIsBounded
<1> QED BY <1>1, <1>3, <1>4, <1>5 DEF PoolInv

LEMMA PoolStep == PoolInv /\ [Next]_vars => PoolInv'
BY TypeStep, ShapeStep, AgeStep, DeadStep DEF PoolInv, ShapeInv

THEOREM PoolInvariant == Spec => []PoolInv
BY PoolInit, PoolStep, PTL DEF Spec

\* Every variable keeps its type, the counters within their bounds.
THEOREM TypeCorrect == Spec => []TypeOK
<1>1. PoolInv => TypeOK
  BY DEF PoolInv
<1> QED BY <1>1, PoolInvariant, PTL

\* getPool() hands out an open pool, and a pool that is neither current nor ended is one
\* that the running renewal makes or ends (db.js:104-131).
THEOREM NoLeak == Spec => []NoPoolIsLeaked
<1>1. PoolInv => NoPoolIsLeaked
  BY DEF PoolInv, ShapeInv
<1> QED BY <1>1, PoolInvariant, PTL

\* The credential never expires under the pool: the margin between RenewAt and Ttl is
\* enough for every outage of at most MaxOutage (db.js:26-31, 95-102, 141-148).
THEOREM MarginIsEnough == Spec => []NeverExpires
<1>1. PoolInv => NeverExpires
  BY AgeIsSmall DEF PoolInv, AgeInv, AgeIsKnown, NeverExpires
<1> QED BY <1>1, PoolInvariant, PTL

\* A credential revoked behind the backend's back is replaced within Longest minutes
\* (health.js:15-31, db.js:131-152).
THEOREM RevokedIsReplaced == Spec => []DeadOnlyBriefly
<1>1. PoolInv => DeadOnlyBriefly
  BY NumberFacts, BoundsFacts
     DEF PoolInv, DeadInv, DeadIsBounded, DeadOnlyBriefly, Longest, Gap
<1> QED BY <1>1, PoolInvariant, PTL

=============================================================================
