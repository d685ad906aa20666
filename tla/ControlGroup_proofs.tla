------------------------ MODULE ControlGroup_proofs ------------------------
(***************************************************************************)
(* Proofs about ControlGroup, for any set of requests, either profile and  *)
(* any numbers of tasks, runs, leases and approvals.                       *)
(*                                                                         *)
(* First SecondNeedsHuman. It is not inductive: it speaks of leases, and   *)
(* the decision is taken in a request, before Vault is asked. What carries *)
(* it is that a request which began after a credential of its run was      *)
(* recorded still finds that record when it decides (AskedAfter), whatever *)
(* is revoked or switched meanwhile, so that none of those asks Vault for  *)
(* a lease of its own (CallFits). The types need one fact more: a run is   *)
(* followed by the next one only within a switch, and there is one switch  *)
(* at a time (OneSwitch).                                                  *)
(*                                                                         *)
(* Then the slot and the switch: SlotIsBound, SlotIsRenewed,               *)
(* EndedTaskHoldsNothing and SwitchLeavesNothing, from what each statement *)
(* of an installation, a cleanup and a switch leaves true until the next   *)
(* one (SlotInv, SwitchIsCurrent, TightInv).                               *)
(***************************************************************************)
EXTENDS ControlGroup, TLAPS

\* What a request in flight knows.
HasLease(c) ==
  c.pc \in {"bind", "row"} => c.lease # None /\ lease[c.lease].status # "none"
AskedAfter(c) ==
  c.pc = "decide" /\ c.after => \E l \in Lease : Recorded(l, c.run)
CallFits(c) ==
  /\ HasLease(c) /\ AskedAfter(c)
  /\ c.pc = "issue" => ~c.after
  /\ c.then \in {"idle", "sweep", "accessor"}
  /\ c.pc \in {"select", "sweep", "newrun"} \/ c.then = "sweep" => c.op = "switch"

CallsFit == \A t \in Thread : CallFits(call[t])
OneSwitch ==
  \A t \in Thread : call[t].op = "switch" =>
    /\ run < MaxRun
    /\ \A u \in Thread : call[u].op = "switch" => u = t
RecordedIsIssued == \A l \in Lease : rows[l] # "none" => lease[l].status # "none"

ControlInv ==
  /\ TypeOK /\ OneSwitch /\ CallsFit /\ RecordedIsIssued /\ SecondNeedsHuman

-----------------------------------------------------------------------------
(* Moves of one request.                                                   *)

\* A request goes on as c; it does not become a switch by going on.
Moved(t, c) ==
  /\ c \in Call /\ call' = [call EXCEPT ![t] = c]
  /\ c.op = "switch" => call[t].op = "switch"

\* What is never taken back: a lease exists for its run, and a record is kept.
Kept ==
  /\ \A l \in Lease : lease[l].status # "none" =>
       lease'[l].status # "none" /\ lease'[l].run = lease[l].run
  /\ \A l \in Lease : rows[l] # "none" => rows'[l] # "none"

LEMMA FitsLater ==
  ASSUME RecordedIsIssued, Kept, NEW c \in Call, CallFits(c)
  PROVE  CallFits(c)'
<1>1. HasLease(c)'
  BY DEF CallFits, HasLease, Kept, Call, Lease, None
<1>2. AskedAfter(c)'
  BY DEF CallFits, AskedAfter, Kept, Recorded, RecordedIsIssued
<1> QED BY <1>1, <1>2 DEF CallFits

LEMMA SameFits ==
  ASSUME NEW u \in Thread, NEW c \in Call, call'[u] = c, CallFits(c)'
  PROVE  CallFits(call[u])'
BY DEF CallFits, HasLease, AskedAfter, Recorded

LEMMA OthersFit ==
  ASSUME TypeOK, RecordedIsIssued, CallsFit, Kept, NEW t \in Thread,
         NEW c \in Call, Moved(t, c), CallFits(c)'
  PROVE  CallsFit'
<1>1. ASSUME NEW u \in Thread PROVE CallFits(call[u])'
  <2>1. CASE u = t
    <3>1. call'[u] = c
      BY <2>1 DEF Moved, TypeOK
    <3> QED BY <3>1, SameFits
  <2>2. CASE u # t
    <3>1. PICK d \in Call : d = call[u]
      BY DEF TypeOK
    <3>2. CallFits(d)
      BY <3>1 DEF CallsFit
    <3>3. CallFits(d)'
      BY <3>2, FitsLater
    <3>4. call'[u] = d
      BY <2>2, <3>1 DEF Moved, TypeOK
    <3> QED BY <3>3, <3>4, SameFits
  <2> QED BY <2>1, <2>2
<1> QED BY <1>1 DEF CallsFit

\* The same where no request moves.
LEMMA AllFit ==
  ASSUME TypeOK, RecordedIsIssued, CallsFit, Kept, UNCHANGED call
  PROVE  CallsFit'
<1>1. ASSUME NEW u \in Thread PROVE CallFits(call[u])'
  <2>1. PICK d \in Call : d = call[u]
    BY DEF TypeOK
  <2>2. CallFits(d)'
    BY <2>1, FitsLater DEF CallsFit
  <2> QED BY <2>1, <2>2, SameFits
<1> QED BY <1>1 DEF CallsFit

LEMMA OneSwitchStays ==
  ASSUME TypeOK, OneSwitch, NEW t \in Thread, NEW c \in Call, Moved(t, c),
         UNCHANGED run
  PROVE  OneSwitch'
BY DEF OneSwitch, Moved, TypeOK

-----------------------------------------------------------------------------
(* Types and facts, action by action.                                      *)

\* A step that moves one request and leaves leases, records and runs alone.
Plain(t, c) ==
  Moved(t, c) /\ UNCHANGED <<lease, rows, run>>

LEMMA PlainKeeps ==
  ASSUME ControlInv, NEW t \in Thread, NEW c \in Call, Plain(t, c),
         CallFits(c)'
  PROVE  /\ call' \in [Thread -> Call] /\ OneSwitch' /\ CallsFit'
         /\ RecordedIsIssued' /\ SecondNeedsHuman'
         /\ lease' \in [Lease -> LeaseRow]
         /\ rows' \in [Lease -> {"none", "open", "revoked"}]
         /\ run' \in 1..MaxRun
<1>1. Kept
  BY DEF Plain, Kept
<1>2. call' \in [Thread -> Call]
  BY DEF Plain, Moved, ControlInv, TypeOK
<1>3. OneSwitch'
  BY OneSwitchStays DEF Plain, ControlInv
<1>4. CallsFit'
  BY <1>1, OthersFit DEF Plain, ControlInv
<1>5. RecordedIsIssued' /\ SecondNeedsHuman'
  BY DEF Plain, ControlInv, RecordedIsIssued, SecondNeedsHuman
<1> QED BY <1>2, <1>3, <1>4, <1>5 DEF Plain, ControlInv, TypeOK

\* The rest of the types.
RestTyped ==
  /\ task \in 0..MaxTask /\ tasks \in 0..MaxTask
  /\ slot \in SlotRow /\ timer \in 0..MaxLease
  /\ approval \in [Approval -> ApprovalRow]
  /\ pending \in SUBSET Approval /\ loose \in BOOLEAN

\* Nothing is expected of a request that stands anywhere else than these.
Harmless(c) ==
  /\ c.pc \notin {"bind", "row", "decide", "issue"}
  /\ c.then \in {"idle", "sweep", "accessor"}
  /\ c.pc \in {"select", "sweep", "newrun"} \/ c.then = "sweep" => c.op = "switch"

LEMMA HarmlessFits ==
  ASSUME NEW c \in Call, Harmless(c)
  PROVE  CallFits(c)'
BY DEF Harmless, CallFits, HasLease, AskedAfter

LEMMA Typed ==
  ASSUME TypeOK
  PROVE  /\ RestTyped /\ run \in 1..MaxRun
         /\ lease \in [Lease -> LeaseRow] /\ call \in [Thread -> Call]
         /\ rows \in [Lease -> {"none", "open", "revoked"}]
BY DEF TypeOK, RestTyped

LEMMA IdleTyped == Idle \in Call /\ Harmless(Idle)
BY ControlAssumption DEF Idle, Call, PC, Installing, Revoking, Harmless, None

LEMMA NoSlotTyped == NoSlot \in SlotRow
BY ControlAssumption DEF NoSlot, SlotRow, None

\* The two common ways on: to a harmless statement, and out.
LEMMA GoMoves ==
  ASSUME ControlInv, NEW t \in Thread, NEW p \in PC, Go(t, p),
         p \notin {"bind", "row", "decide", "issue"},
         p \in {"select", "sweep", "newrun"} => call[t].op = "switch"
  PROVE  \E c \in Call : Moved(t, c) /\ Harmless(c)
<1> DEFINE c == [call[t] EXCEPT !.pc = p]
<1>1. call[t] \in Call /\ CallFits(call[t])
  BY DEF ControlInv, TypeOK, CallsFit
<1>2. c \in Call /\ c.pc = p /\ c.then = call[t].then /\ c.op = call[t].op
  BY <1>1 DEF Call
<1>3. Moved(t, c)
  BY <1>2 DEF Moved, Go, Become
<1>4. Harmless(c)
  BY <1>1, <1>2 DEF Harmless, CallFits
<1> QED BY <1>2, <1>3, <1>4

LEMMA ReturnMoves ==
  ASSUME ControlInv, NEW t \in Thread, Return(t)
  PROVE  \E c \in Call : Moved(t, c) /\ Harmless(c)
<1>1. Moved(t, Idle)
  BY IdleTyped DEF Return, Become, Moved, Idle
<1> QED BY <1>1, IdleTyped

\* A request moves on harmlessly and nothing else of the invariant moves.
LEMMA QuietKeeps ==
  ASSUME ControlInv, NEW t \in Thread, \E c \in Call : Moved(t, c) /\ Harmless(c),
         UNCHANGED <<lease, rows, run>>, RestTyped'
  PROVE  ControlInv'
<1>1. PICK c \in Call : Moved(t, c) /\ Harmless(c)
  OBVIOUS
<1>2. CallFits(c)' /\ Plain(t, c)
  BY <1>1, HarmlessFits DEF Plain
<1> HIDE DEF Harmless, Moved
<1> QED BY <1>2, PlainKeeps DEF ControlInv, TypeOK, RestTyped

-----------------------------------------------------------------------------
(* The steps that leave leases and records alone.                          *)

LEMMA InstallTyped ==
  ASSUME TypeOK, NEW t \in Thread, Install(t)
  PROVE  slot' \in SlotRow
BY Typed DEF Install, SlotRow, Call

LEMMA WaitingKeeps ==
  ASSUME ControlInv, NEW t \in Thread,
         Exception(t) \/ Wrap(t) \/ Approve(t) \/ Denied(t)
  PROVE  ControlInv'
<1>1. TypeOK /\ call[t] \in Call /\ {"wrap", "unwrap"} \subseteq PC
  BY Typed DEF ControlInv, PC
<1>2. CASE Exception(t)
  <2>1. \E c \in Call : Moved(t, c) /\ Harmless(c)
    BY <1>1, <1>2, GoMoves, ReturnMoves DEF Exception
  <2> QED BY <1>1, <1>2, <2>1, Typed, QuietKeeps
          DEF Exception, RestTyped, board, vault, held
<1>3. CASE Wrap(t)
  <2>1. \E c \in Call : Moved(t, c) /\ Harmless(c)
    BY <1>3, ReturnMoves DEF Wrap
  <2>2. PICK a \in Approval :
          /\ approval' = [approval EXCEPT ![a] = [status |-> "waiting",
               task |-> call[t].task, run |-> call[t].run,
               exception |-> call[t].exception]]
          /\ pending' = pending \cup {a}
    BY <1>3 DEF Wrap
  <2>3. [status |-> "waiting", task |-> call[t].task, run |-> call[t].run,
         exception |-> call[t].exception] \in ApprovalRow
    BY <1>1 DEF Call, ApprovalRow
  <2>4. RestTyped'
    BY <1>1, <1>3, <2>2, <2>3, Typed DEF Wrap, RestTyped, board
  <2> QED BY <1>3, <2>1, <2>4, QuietKeeps DEF Wrap, board
<1>4. CASE Approve(t)
  <2>1. \E c \in Call : Moved(t, c) /\ Harmless(c)
    BY <1>1, <1>4, GoMoves, ReturnMoves DEF Approve
  <2>2. approval' \in [Approval -> ApprovalRow]
    BY <1>1, <1>4, Typed DEF Approve, RestTyped, ApprovalRow
  <2>3. RestTyped'
    BY <1>1, <1>4, <2>2, Typed DEF Approve, RestTyped, board, held
  <2> QED BY <1>4, <2>1, <2>3, QuietKeeps DEF Approve, board
<1>5. CASE Denied(t)
  <2>1. \E c \in Call : Moved(t, c) /\ Harmless(c)
    BY <1>5, ReturnMoves DEF Denied
  <2> QED BY <1>1, <1>5, <2>1, Typed, QuietKeeps
          DEF Denied, RestTyped, board, vault, held
<1> QED BY <1>2, <1>3, <1>4, <1>5

LEMMA InstallingKeeps ==
  ASSUME ControlInv, NEW t \in Thread, OauthSlot(t) \/ Renewal(t)
  PROVE  ControlInv'
<1>1. TypeOK /\ call[t] \in Call
  BY Typed DEF ControlInv
<1>2. \E c \in Call : Moved(t, c) /\ Harmless(c)
  BY ReturnMoves DEF OauthSlot, Renewal
<1>3. CASE OauthSlot(t)
  <2>1. slot' \in SlotRow
    BY <1>1, <1>3, InstallTyped DEF OauthSlot
  <2> QED BY <1>1, <1>2, <1>3, <2>1, Typed, QuietKeeps
          DEF OauthSlot, RestTyped, board, vault
<1>4. CASE Renewal(t)
  <2>1. timer' \in 0..MaxLease /\ pending' \in SUBSET Approval
    BY <1>1, <1>4, Typed DEF Renewal, RestTyped, Call
  <2> QED BY <1>1, <1>2, <1>4, <2>1, Typed, QuietKeeps
          DEF Renewal, RestTyped, board, vault
<1> QED BY <1>3, <1>4

\* A request that begins harmlessly.
LEMMA BeginMoves ==
  ASSUME ControlInv, NEW t \in Thread, NEW c \in Call, Become(t, c),
         c.op # "switch", Harmless(c)
  PROVE  \E d \in Call : Moved(t, d) /\ Harmless(d)
BY DEF Moved, Become

LEMMA AuthorizeKeeps ==
  ASSUME ControlInv, NEW t \in Thread, NEW a \in Approval, Authorize(t, a)
  PROVE  ControlInv'
<1> DEFINE c == [Idle EXCEPT !.pc = "approve", !.op = "authorize", !.approval = a,
                  !.task = approval[a].task, !.run = approval[a].run,
                  !.exception = approval[a].exception]
<1>1. TypeOK /\ approval[a] \in ApprovalRow
  BY Typed DEF ControlInv, RestTyped
<1>1a. /\ a \in 0..MaxApproval /\ approval[a].task \in 0..MaxTask
       /\ approval[a].run \in 1..MaxRun /\ approval[a].exception \in BOOLEAN
  BY <1>1, ControlAssumption DEF ApprovalRow, Approval
<1>2. c \in Call
  BY <1>1a, IdleTyped DEF Call, PC
<1>3. c.op = "authorize" /\ c.pc = "approve" /\ c.then = "idle"
  BY DEF Idle
<1>4. c.op # "switch" /\ Harmless(c)
  BY <1>3 DEF Harmless
<1>5. Become(t, c)
  BY DEF Authorize
<1>6. \E d \in Call : Moved(t, d) /\ Harmless(d)
  <2> HIDE DEF c
  <2> QED BY <1>2, <1>4, <1>5, BeginMoves
<1>7. RestTyped'
  BY <1>1, Typed DEF Authorize, RestTyped, board, vault, held
<1> QED BY <1>6, <1>7, QuietKeeps DEF Authorize, board, vault

LEMMA CleanupMoves ==
  ASSUME ControlInv, NEW t \in Thread, NEW owner, NEW op \in {"complete", "deny"},
         CleanupTask(t, op, owner)
  PROVE  \/ \E d \in Call : Moved(t, d) /\ Harmless(d)
         \/ UNCHANGED call
<1>1. slot.lease \in 0..MaxLease
  BY Typed DEF ControlInv, RestTyped, SlotRow
<1> DEFINE c == [Idle EXCEPT !.pc = "revoke", !.op = op, !.lease = slot.lease,
                   !.then = "accessor"]
           d == [Idle EXCEPT !.pc = "denied", !.lease = slot.lease]
<1>2. c \in Call /\ d \in Call
  BY <1>1, IdleTyped DEF Call, PC, Revoking
<1>3. /\ c.op = op /\ c.pc = "revoke" /\ c.then = "accessor"
      /\ d.op = "none" /\ d.pc = "denied" /\ d.then = "idle"
  BY DEF Idle
<1>4. c.op # "switch" /\ Harmless(c) /\ d.op # "switch" /\ Harmless(d)
  BY <1>3 DEF Harmless
<1>5. Become(t, c) \/ Become(t, d) \/ UNCHANGED call
  BY DEF CleanupTask
<1> HIDE DEF c, d
<1> QED BY <1>2, <1>4, <1>5, BeginMoves

\* No request moves, and nothing of leases, records and runs.
LEMMA StillKeeps ==
  ASSUME ControlInv, UNCHANGED <<call, lease, rows, run>>, RestTyped'
  PROVE  ControlInv'
<1>1. Kept
  BY DEF Kept
<1>2. CallsFit'
  BY <1>1, AllFit DEF ControlInv
<1>3. OneSwitch' /\ RecordedIsIssued' /\ SecondNeedsHuman'
  BY DEF ControlInv, OneSwitch, RecordedIsIssued, SecondNeedsHuman
<1>4. TypeOK'
  BY DEF ControlInv, TypeOK, RestTyped
<1> QED BY <1>2, <1>3, <1>4 DEF ControlInv

LEMMA EndingKeeps ==
  ASSUME ControlInv, NEW t \in Thread, Complete(t) \/ Deny(t)
  PROVE  ControlInv'
<1>1. \/ \E d \in Call : Moved(t, d) /\ Harmless(d)
      \/ UNCHANGED call
  BY CleanupMoves DEF Complete, Deny
<1>2. TypeOK
  BY DEF ControlInv
<1>3. RestTyped'
  BY <1>2, Typed, ControlAssumption
     DEF Complete, Deny, RestTyped, board, vault, held, None
<1>4. UNCHANGED <<lease, rows, run>>
  BY DEF Complete, Deny, board, vault
<1> QED BY <1>1, <1>3, <1>4, QuietKeeps, StillKeeps

LEMMA SweepingKeeps ==
  ASSUME ControlInv, NEW t \in Thread, Select(t) \/ Sweep(t)
  PROVE  ControlInv'
<1>1. /\ TypeOK /\ call[t] \in Call /\ CallFits(call[t])
      /\ slot.lease \in 0..MaxLease
  BY Typed DEF ControlInv, CallsFit, RestTyped, SlotRow
<1>2. call[t].op = "switch"
  BY <1>1 DEF Select, Sweep, At, CallFits
<1>3. \E c \in Call : Moved(t, c) /\ Harmless(c)
  <2>1. CASE Select(t)
    <3> DEFINE c == [call[t] EXCEPT !.pc = "sweep",
             !.todo = {l \in Lease : rows[l] = "open" /\ lease[l].run = call[t].run}]
    <3>1. c \in Call /\ c.pc = "sweep" /\ c.op = "switch" /\ c.then = call[t].then
      BY <1>1, <1>2 DEF Call, PC
    <3>2. Harmless(c)
      BY <1>1, <3>1 DEF Harmless, CallFits
    <3>3. Moved(t, c)
      BY <1>2, <2>1, <3>1 DEF Select, Become, Moved
    <3> QED BY <3>1, <3>2, <3>3
  <2>2. ASSUME NEW l \in Lease,
               Become(t, [call[t] EXCEPT !.pc = "revoke", !.lease = l,
                            !.then = "sweep", !.todo = @ \ {l}])
        PROVE  \E c \in Call : Moved(t, c) /\ Harmless(c)
    <3> DEFINE c == [call[t] EXCEPT !.pc = "revoke", !.lease = l,
                       !.then = "sweep", !.todo = @ \ {l}]
    <3>1. l \in 0..MaxLease
      BY ControlAssumption DEF Lease
    <3>2. c \in Call /\ c.pc = "revoke" /\ c.op = "switch" /\ c.then = "sweep"
      BY <1>1, <1>2, <3>1 DEF Call, PC, Revoking
    <3>3. Harmless(c) /\ Moved(t, c)
      BY <1>2, <2>2, <3>2 DEF Become, Moved, Harmless
    <3> QED BY <3>2, <3>3
  <2>3. ASSUME Become(t, [call[t] EXCEPT !.pc = "revoke", !.lease = slot.lease,
                            !.then = "accessor"])
        PROVE  \E c \in Call : Moved(t, c) /\ Harmless(c)
    <3> DEFINE c == [call[t] EXCEPT !.pc = "revoke", !.lease = slot.lease,
                       !.then = "accessor"]
    <3>1. c \in Call /\ c.pc = "revoke" /\ c.op = "switch" /\ c.then = "accessor"
      BY <1>1, <1>2 DEF Call, PC, Revoking
    <3>2. Harmless(c) /\ Moved(t, c)
      BY <1>2, <2>3, <3>1 DEF Become, Moved, Harmless
    <3> QED BY <3>1, <3>2
  <2>4. CASE Go(t, "newrun")
    BY <1>2, <2>4, GoMoves DEF PC
  <2>5. CASE Sweep(t)
    <3>1. call[t].todo \subseteq Lease
      BY <1>1 DEF Call
    <3>2. CASE \E l \in call[t].todo :
                 Become(t, [call[t] EXCEPT !.pc = "revoke", !.lease = l,
                              !.then = "sweep", !.todo = @ \ {l}])
      BY <2>2, <3>1, <3>2
    <3> QED BY <2>3, <2>4, <2>5, <3>2 DEF Sweep
  <2> QED BY <2>1, <2>5
<1>4. RestTyped' /\ UNCHANGED <<lease, rows, run>>
  BY <1>1, Typed DEF Select, Sweep, RestTyped, board, vault, held
<1> QED BY <1>3, <1>4, QuietKeeps

\* A switch begins only where none is under way, and not after the last run.
LEMMA SwitchKeeps ==
  ASSUME ControlInv, NEW t \in Thread, Switch(t)
  PROVE  ControlInv'
<1> DEFINE begun == [Idle EXCEPT !.pc = "select", !.op = "switch", !.run = run]
<1>1. TypeOK /\ run < MaxRun /\ \A u \in Thread : call[u].op # "switch"
  BY DEF ControlInv, Switch, InFlight
<1>2. begun \in Call
  BY <1>1, Typed, IdleTyped DEF Call, PC
<1>3. begun.pc = "select" /\ begun.op = "switch" /\ begun.then = "idle"
  BY DEF Idle
<1> HIDE DEF begun
<1>4. PICK c \in Call : c = begun
  BY <1>2
<1>4a. Harmless(c)
  BY <1>3, <1>4 DEF Harmless
<1>4b. CallFits(c)'
  BY <1>4a, HarmlessFits
<1>5. call' = [call EXCEPT ![t] = c] /\ UNCHANGED <<lease, rows, run>>
  BY <1>4 DEF Switch, Become, board, vault, begun
<1>6. call' \in [Thread -> Call] /\ call'[t] = c
      /\ \A u \in Thread : u # t => call'[u] = call[u]
  BY <1>1, <1>4, <1>5, Typed
<1>7. OneSwitch'
  BY <1>1, <1>3, <1>4, <1>5, <1>6 DEF OneSwitch
<1>8. CallsFit'
  <2>1. ASSUME NEW u \in Thread PROVE CallFits(call[u])'
    <3>1. CASE u = t
      BY <1>4b, <1>6, <3>1, SameFits
    <3>2. CASE u # t
      <4>1. PICK d \in Call : d = call[u]
        BY <1>1, Typed
      <4>2. CallFits(d)'
        BY <1>5, <4>1, FitsLater DEF ControlInv, CallsFit, Kept
      <4> QED BY <1>6, <3>2, <4>1, <4>2, SameFits
    <3> QED BY <3>1, <3>2
  <2> QED BY <2>1 DEF CallsFit
<1>9. RecordedIsIssued' /\ SecondNeedsHuman'
  BY <1>5 DEF ControlInv, RecordedIsIssued, SecondNeedsHuman
<1>10. TypeOK'
  BY <1>1, <1>5, <1>6 DEF TypeOK, Switch, board, vault, held
<1> QED BY <1>7, <1>8, <1>9, <1>10 DEF ControlInv

\* The next run begins with the only switch's last step.
LEMMA NewRunKeeps ==
  ASSUME ControlInv, NEW t \in Thread, NewRun(t)
  PROVE  ControlInv'
<1>1. TypeOK /\ call[t].op = "switch"
  BY DEF ControlInv, CallsFit, CallFits, NewRun, At
<1>2. run < MaxRun /\ \A u \in Thread : call[u].op = "switch" => u = t
  BY <1>1 DEF ControlInv, OneSwitch
<1>3. /\ call' = [call EXCEPT ![t] = Idle] /\ UNCHANGED <<lease, rows>>
      /\ run' = run + 1
  BY DEF NewRun, Return, Become, vault
<1>4. Moved(t, Idle) /\ Kept /\ CallFits(Idle)'
  BY <1>3, IdleTyped, HarmlessFits DEF Moved, Idle, Kept
<1>5. CallsFit'
  BY <1>4, IdleTyped, OthersFit DEF ControlInv
<1>6. \A u \in Thread : call'[u].op # "switch"
  BY <1>1, <1>2, <1>3, Typed DEF Idle
<1>7. OneSwitch'
  BY <1>6 DEF OneSwitch
<1>8. RecordedIsIssued' /\ SecondNeedsHuman'
  BY <1>3 DEF ControlInv, RecordedIsIssued, SecondNeedsHuman
<1>9. run' \in 1..MaxRun
  BY <1>1, <1>2, <1>3, Typed, ControlAssumption
<1>10. TypeOK'
  BY <1>1, <1>3, <1>9, Typed, IdleTyped, NoSlotTyped, ControlAssumption
     DEF TypeOK, NewRun, vault, None
<1> QED BY <1>5, <1>7, <1>8, <1>10 DEF ControlInv

-----------------------------------------------------------------------------
(* The steps that change leases or records.                                *)

\* What such a step has to show.
LEMMA MoveKeeps ==
  ASSUME ControlInv, NEW t \in Thread, NEW c \in Call, Moved(t, c),
         CallFits(c)', Kept, UNCHANGED run, RestTyped',
         lease' \in [Lease -> LeaseRow],
         rows' \in [Lease -> {"none", "open", "revoked"}],
         RecordedIsIssued', SecondNeedsHuman'
  PROVE  ControlInv'
<1>1. OneSwitch' /\ CallsFit'
  BY OneSwitchStays, OthersFit DEF ControlInv
<1>2. call' \in [Thread -> Call]
  BY DEF Moved, ControlInv, TypeOK
<1>3. TypeOK'
  BY <1>2 DEF RestTyped, ControlInv, TypeOK
<1> QED BY <1>1, <1>3 DEF ControlInv

\* A lease may end.
MayEnd(l) == lease' = lease \/ lease' = [lease EXCEPT ![l].status = "ended"]

LEMMA EndFacts ==
  ASSUME ControlInv, NEW l, MayEnd(l), UNCHANGED rows
  PROVE  /\ Kept /\ RecordedIsIssued' /\ SecondNeedsHuman'
         /\ lease' \in [Lease -> LeaseRow]
         /\ rows' \in [Lease -> {"none", "open", "revoked"}]
<1>1. /\ lease \in [Lease -> LeaseRow]
      /\ rows \in [Lease -> {"none", "open", "revoked"}]
  BY Typed DEF ControlInv
<1>2. lease' \in [Lease -> LeaseRow]
  BY <1>1 DEF MayEnd, LeaseRow
<1>3. \A k \in Lease :
        /\ lease'[k].status = lease[k].status \/ lease'[k].status = "ended"
        /\ lease'[k].run = lease[k].run /\ lease'[k].after = lease[k].after
        /\ lease'[k].via = lease[k].via
  BY <1>1 DEF MayEnd, LeaseRow
<1>4. Kept /\ RecordedIsIssued' /\ SecondNeedsHuman'
  BY <1>3 DEF ControlInv, Kept, RecordedIsIssued, SecondNeedsHuman
<1> QED BY <1>1, <1>2, <1>4

LEMMA RevokeKeeps ==
  ASSUME ControlInv, NEW t \in Thread, Revoke(t)
  PROVE  ControlInv'
<1>1. /\ TypeOK /\ call[t] \in Call /\ CallFits(call[t])
      /\ call[t].then \in {"idle", "sweep", "accessor"}
  BY Typed DEF ControlInv, CallsFit, CallFits
<1>2. /\ MayEnd(call[t].lease) /\ UNCHANGED <<rows, run>>
      /\ Go(t, "mark") \/ Go(t, call[t].then)
  BY DEF Revoke, MayEnd, board
<1>3. \E c \in Call : Moved(t, c) /\ Harmless(c)
  <2>1. call[t].then = "sweep" => call[t].op = "switch"
    BY <1>1 DEF CallFits
  <2>2. {"mark", "idle", "sweep", "accessor"} \subseteq PC
    BY DEF PC, Revoking
  <2> QED BY <1>1, <1>2, <2>1, <2>2, GoMoves
<1>4. RestTyped'
  BY <1>1, Typed DEF Revoke, RestTyped, board, held
<1>5. PICK c \in Call : Moved(t, c) /\ Harmless(c)
  BY <1>3
<1>6. CallFits(c)'
  BY <1>5, HarmlessFits
<1> QED BY <1>2, <1>4, <1>5, <1>6, EndFacts, MoveKeeps

LEMMA ClearKeeps ==
  ASSUME ControlInv, NEW t \in Thread, Clear(t)
  PROVE  ControlInv'
<1>1. TypeOK
  BY DEF ControlInv
<1>2. /\ MayEnd(call[t].lease) /\ UNCHANGED <<rows, run>>
      /\ \/ Return(t) \/ Go(t, "denied")
         \/ call[t].op = "switch" /\ Go(t, "newrun")
  BY DEF Clear, MayEnd, board
<1>3. \E c \in Call : Moved(t, c) /\ Harmless(c)
  BY <1>2, GoMoves, ReturnMoves DEF PC
<1>4. RestTyped'
  <2>1. slot' = NoSlot /\ timer' = 0 /\ UNCHANGED <<task, tasks, approval, pending>>
    BY DEF Clear, board, None
  <2>2. loose' \in BOOLEAN
    BY <1>1, Typed DEF Clear, RestTyped
  <2> QED BY <1>1, <2>1, <2>2, Typed, NoSlotTyped, ControlAssumption DEF RestTyped
<1>5. PICK c \in Call : Moved(t, c) /\ Harmless(c)
  BY <1>3
<1>6. CallFits(c)'
  BY <1>5, HarmlessFits
<1> QED BY <1>2, <1>4, <1>5, <1>6, EndFacts, MoveKeeps

\* The renewal tick moves no request.
LEMMA TickKeeps ==
  ASSUME ControlInv, Tick
  PROVE  ControlInv'
<1>1. TypeOK /\ MayEnd(timer) /\ UNCHANGED <<rows, run, call>>
  BY DEF ControlInv, Tick, MayEnd, board
<1>2. RestTyped'
  BY <1>1, Typed, NoSlotTyped, ControlAssumption DEF Tick, RestTyped, board, None
<1>3. CallsFit'
  BY <1>1, EndFacts, AllFit DEF ControlInv
<1>4. OneSwitch'
  BY <1>1 DEF ControlInv, OneSwitch
<1>5. TypeOK'
  BY <1>1, <1>2, EndFacts DEF TypeOK, RestTyped
<1> QED BY <1>1, <1>3, <1>4, <1>5, EndFacts DEF ControlInv

\* A request goes on with its lease in hand.
LEMMA MarkKeeps ==
  ASSUME ControlInv, NEW t \in Thread, Mark(t)
  PROVE  ControlInv'
<1>1. /\ TypeOK /\ call[t] \in Call /\ CallFits(call[t])
      /\ call[t].then \in {"idle", "sweep", "accessor"}
  BY Typed DEF ControlInv, CallsFit, CallFits
<1>2. /\ UNCHANGED <<lease, run>> /\ Go(t, call[t].then)
      /\ rows' = [rows EXCEPT ![call[t].lease] =
                    IF @ = "none" THEN "none" ELSE "revoked"]
  BY DEF Mark, board, vault
<1>3. PICK c \in Call : Moved(t, c) /\ Harmless(c)
  <2>1. call[t].then = "sweep" => call[t].op = "switch"
    BY <1>1 DEF CallFits
  <2>2. {"idle", "sweep", "accessor"} \subseteq PC
    BY DEF PC, Revoking
  <2> QED BY <1>1, <1>2, <2>1, <2>2, GoMoves
<1>4. CallFits(c)'
  BY <1>3, HarmlessFits
<1>5. /\ rows' \in [Lease -> {"none", "open", "revoked"}]
      /\ \A l \in Lease : rows'[l] = "none" <=> rows[l] = "none"
  BY <1>1, <1>2, Typed
<1>6. Kept /\ RecordedIsIssued' /\ SecondNeedsHuman'
  BY <1>2, <1>5 DEF ControlInv, Kept, RecordedIsIssued, SecondNeedsHuman
<1>7. RestTyped'
  BY <1>1, Typed DEF Mark, RestTyped, board, vault, held
<1> QED BY <1>1, <1>2, <1>3, <1>4, <1>5, <1>6, <1>7, Typed, MoveKeeps

LEMMA BindKeeps ==
  ASSUME ControlInv, NEW t \in Thread, Bind(t)
  PROVE  ControlInv'
<1>1. /\ TypeOK /\ call[t] \in Call /\ CallFits(call[t])
      /\ call[t].lease \in Lease /\ call[t].lease # None
      /\ lease[call[t].lease].status # "none"
  BY Typed, ControlAssumption
     DEF ControlInv, CallsFit, CallFits, HasLease, Bind, At, Call, Lease, None
<1>2. /\ UNCHANGED <<rows, run>> /\ Go(t, "row") /\ Install(t)
      /\ \E s \in SUBSET {"standard", "exception"} :
           lease' = [lease EXCEPT ![call[t].lease].mandate = s]
  BY DEF Bind, board
<1>3. /\ lease' \in [Lease -> LeaseRow]
      /\ \A l \in Lease : /\ lease'[l].status = lease[l].status
                          /\ lease'[l].run = lease[l].run
                          /\ lease'[l].after = lease[l].after
                          /\ lease'[l].via = lease[l].via
  BY <1>1, <1>2, Typed DEF LeaseRow
<1>4. Kept /\ RecordedIsIssued' /\ SecondNeedsHuman'
  BY <1>2, <1>3 DEF ControlInv, Kept, RecordedIsIssued, SecondNeedsHuman
<1>5. PICK c : c = [call[t] EXCEPT !.pc = "row"]
  OBVIOUS
<1>6. /\ c \in Call /\ c.pc = "row" /\ c.lease = call[t].lease
      /\ c.then = call[t].then /\ c.op = call[t].op
  BY <1>1, <1>5 DEF Call, PC, Installing
<1>7. Moved(t, c)
  BY <1>2, <1>5, <1>6 DEF Moved, Go, Become
<1>8. CallFits(c)'
  BY <1>1, <1>3, <1>6 DEF CallFits, HasLease, AskedAfter
<1>9. RestTyped'
  BY <1>1, <1>2, Typed, InstallTyped DEF Bind, RestTyped, board
<1> QED BY <1>1, <1>2, <1>3, <1>4, <1>6, <1>7, <1>8, <1>9, Typed, MoveKeeps

LEMMA RowKeeps ==
  ASSUME ControlInv, NEW t \in Thread, Row(t)
  PROVE  ControlInv'
<1>1. /\ TypeOK /\ call[t] \in Call
      /\ call[t].lease \in Lease /\ lease[call[t].lease].status # "none"
  BY Typed, ControlAssumption
     DEF ControlInv, CallsFit, CallFits, HasLease, Row, At, Call, Lease, None
<1>2. /\ UNCHANGED <<lease, run>>
      /\ Go(t, "oauthslot") \/ Go(t, "renew")
      /\ rows' = [rows EXCEPT ![call[t].lease] = "open"]
  BY DEF Row, board, vault
<1>3. PICK c \in Call : Moved(t, c) /\ Harmless(c)
  BY <1>2, GoMoves DEF PC, Installing
<1>4. CallFits(c)'
  BY <1>3, HarmlessFits
<1>5. /\ rows' \in [Lease -> {"none", "open", "revoked"}]
      /\ \A l \in Lease : rows'[l] # rows[l] => l = call[t].lease /\ rows'[l] = "open"
  BY <1>1, <1>2, Typed
<1>6. Kept /\ RecordedIsIssued' /\ SecondNeedsHuman'
  BY <1>1, <1>2, <1>5 DEF ControlInv, Kept, RecordedIsIssued, SecondNeedsHuman
<1>7. RestTyped'
  BY <1>1, Typed DEF Row, RestTyped, board, vault, held
<1> QED BY <1>1, <1>2, <1>3, <1>4, <1>5, <1>6, <1>7, Typed, MoveKeeps

\* Vault issues a lease that did not exist.
LEMMA IssuedKeeps ==
  ASSUME ControlInv, NEW t \in Thread, NEW via \in Via, VaultIssues(t, via),
         via = "direct" => ~call[t].after, UNCHANGED <<rows, run>>, RestTyped'
  PROVE  ControlInv'
<1>1. /\ TypeOK /\ call[t] \in Call /\ CallFits(call[t])
  BY Typed DEF ControlInv, CallsFit
<1>2. PICK l \in Lease :
        /\ \A k \in Lease : lease[k].status = "none" <=> k >= l
        /\ lease' = [lease EXCEPT ![l] = [status |-> "live", task |-> call[t].task,
             run |-> call[t].run, via |-> via, approval |-> call[t].approval,
             after |-> call[t].after, mandate |-> {}]]
        /\ Become(t, [call[t] EXCEPT !.lease = l,
                        !.pc = IF via = "oauth" THEN "row" ELSE "bind"])
  BY DEF VaultIssues
<1>3. /\ lease[l].status = "none" /\ l # None /\ l \in 0..MaxLease
  BY <1>2, ControlAssumption DEF Lease, None
<1>4. [status |-> "live", task |-> call[t].task, run |-> call[t].run, via |-> via,
       approval |-> call[t].approval, after |-> call[t].after,
       mandate |-> {}] \in LeaseRow
  BY <1>1 DEF Call, LeaseRow
<1>5. /\ lease' \in [Lease -> LeaseRow]
      /\ \A k \in Lease : k # l => lease'[k] = lease[k]
      /\ lease'[l].status = "live" /\ lease'[l].via = via
      /\ lease'[l].after = call[t].after
  BY <1>1, <1>2, <1>4, Typed
<1>6. Kept
  BY <1>3, <1>5 DEF Kept
<1>7. RecordedIsIssued'
  BY <1>5 DEF ControlInv, RecordedIsIssued
<1>8. SecondNeedsHuman'
  BY <1>5 DEF ControlInv, SecondNeedsHuman
<1>9. PICK c : c = [call[t] EXCEPT !.lease = l,
                      !.pc = IF via = "oauth" THEN "row" ELSE "bind"]
  OBVIOUS
<1>10. /\ c \in Call /\ c.pc \in {"row", "bind"} /\ c.lease = l
       /\ c.then = call[t].then /\ c.op = call[t].op
  BY <1>1, <1>3, <1>9 DEF Call, PC, Installing
<1>11. Moved(t, c)
  BY <1>2, <1>9, <1>10 DEF Moved, Become
<1>12. CallFits(c)'
  BY <1>1, <1>3, <1>5, <1>10 DEF CallFits, HasLease, AskedAfter
<1> QED BY <1>1, <1>5, <1>6, <1>7, <1>8, <1>10, <1>11, <1>12, Typed, MoveKeeps

LEMMA IssueKeeps ==
  ASSUME ControlInv, NEW t \in Thread, OauthIssue(t) \/ Issue(t) \/ Unwrap(t)
  PROVE  ControlInv'
<1>1. TypeOK
  BY DEF ControlInv
<1>2. CASE OauthIssue(t)
  <2>1. RestTyped'
    BY <1>1, <1>2, Typed DEF OauthIssue, RestTyped, board, held
  <2> QED BY <1>2, <2>1, IssuedKeeps DEF OauthIssue, board, Via
<1>3. CASE Issue(t)
  <2>1. RestTyped'
    BY <1>1, <1>3, Typed DEF Issue, RestTyped, board, held
  <2>2. ~call[t].after
    BY <1>3 DEF Issue, At, ControlInv, CallsFit, CallFits
  <2> QED BY <1>3, <2>1, <2>2, IssuedKeeps DEF Issue, board, Via
<1>4. CASE Unwrap(t)
  <2>1. UNCHANGED <<task, tasks, run, rows, slot, timer, pending, loose>>
    BY <1>4 DEF Unwrap, board, held
  <2>2. approval' \in [Approval -> ApprovalRow]
    BY <1>1, <1>4, Typed DEF Unwrap, RestTyped, ApprovalRow, vault
  <2>3. RestTyped'
    BY <1>1, <2>1, <2>2, Typed DEF RestTyped
  <2>4. CASE VaultIssues(t, "approved")
    BY <2>1, <2>3, <2>4, IssuedKeeps DEF Via
  <2>5. CASE UNCHANGED lease /\ Return(t)
    BY <2>1, <2>3, <2>5, ReturnMoves, QuietKeeps
  <2> QED BY <1>4, <2>4, <2>5 DEF Unwrap, vault
<1> QED BY <1>2, <1>3, <1>4

-----------------------------------------------------------------------------
(* The decision.                                                           *)

\* A request remembers truly whether a credential of its run was recorded.
LEMMA RequestKeeps ==
  ASSUME ControlInv, NEW t \in Thread, NEW e \in BOOLEAN, Request(t, e)
  PROVE  ControlInv'
<1> DEFINE asked == [Idle EXCEPT !.pc = "decide", !.op = "request", !.task = task,
                       !.run = run, !.exception = e,
                       !.after = \E l \in Lease : Recorded(l, run)]
<1>1. TypeOK /\ RestTyped /\ run \in 1..MaxRun
  BY Typed DEF ControlInv
<1>2. asked \in Call
  BY <1>1, IdleTyped DEF RestTyped, Call, PC
<1>3. /\ asked.pc = "decide" /\ asked.op = "request" /\ asked.then = "idle"
      /\ asked.run = run
      /\ asked.after => \E l \in Lease : Recorded(l, run)
  BY DEF Idle
<1>4. Become(t, asked) /\ UNCHANGED <<lease, rows, run>>
  BY DEF Request, board, vault
<1> HIDE DEF asked
<1>5. PICK c \in Call : c = asked
  BY <1>2
<1>6. Plain(t, c)
  BY <1>3, <1>4, <1>5 DEF Plain, Moved, Become
<1>7. CallFits(c)
  BY <1>3, <1>5 DEF CallFits, HasLease, AskedAfter
<1>8. CallFits(c)'
  BY <1>4, <1>7, FitsLater DEF ControlInv, Kept
<1>9. RestTyped'
  BY <1>1 DEF Request, RestTyped, board, vault, held
<1> QED BY <1>6, <1>8, <1>9, PlainKeeps DEF ControlInv, TypeOK, RestTyped

\* The record it remembers is still there when it decides.
LEMMA PriorKeeps ==
  ASSUME ControlInv, NEW t \in Thread, Prior(t)
  PROVE  ControlInv'
<1>1. /\ TypeOK /\ call[t] \in Call /\ CallFits(call[t]) /\ call[t].pc = "decide"
  BY Typed DEF ControlInv, CallsFit, Prior, At
<1>2. UNCHANGED <<lease, rows, run>> /\ RestTyped'
  BY <1>1, Typed DEF Prior, RestTyped, board, vault, held
<1>3. CASE Go(t, "wrap")
  <2>1. \E c \in Call : Moved(t, c) /\ Harmless(c)
    BY <1>3, GoMoves DEF PC
  <2> QED BY <1>2, <2>1, QuietKeeps
<1>4. CASE Go(t, "issue") /\ ~\E l \in Lease : Recorded(l, call[t].run)
  <2>1. ~call[t].after
    BY <1>1, <1>4 DEF CallFits, AskedAfter
  <2>2. PICK c : c = [call[t] EXCEPT !.pc = "issue"]
    OBVIOUS
  <2>3. /\ c \in Call /\ c.pc = "issue" /\ ~c.after
        /\ c.then = call[t].then /\ c.op = call[t].op
    BY <1>1, <2>1, <2>2 DEF Call, PC
  <2>4. Plain(t, c)
    BY <1>2, <1>4, <2>2, <2>3 DEF Plain, Moved, Go, Become
  <2>5. CallFits(c)'
    BY <1>1, <2>3 DEF CallFits, HasLease, AskedAfter
  <2> QED BY <1>2, <2>3, <2>4, <2>5, PlainKeeps DEF ControlInv, TypeOK, RestTyped
<1> QED BY <1>3, <1>4 DEF Prior

-----------------------------------------------------------------------------
(* Everything else, and the theorems.                                      *)

LEMMA FailsKeeps ==
  ASSUME ControlInv, NEW t \in Thread, Fails(t)
  PROVE  ControlInv'
<1>1. TypeOK
  BY DEF ControlInv
<1>2. \E c \in Call : Moved(t, c) /\ Harmless(c)
  BY ReturnMoves DEF Fails
<1>3. slot' \in SlotRow
  BY <1>1, Typed DEF Fails, RestTyped, SlotRow
<1>4. approval' \in [Approval -> ApprovalRow]
  BY <1>1, Typed DEF Fails, RestTyped, ApprovalRow
<1>5. RestTyped'
  BY <1>1, <1>3, <1>4, Typed DEF Fails, RestTyped, board
<1> QED BY <1>2, <1>5, QuietKeeps DEF Fails, board

LEMMA DelegatedKeeps ==
  ASSUME ControlInv, Delegated
  PROVE  ControlInv'
<1>1. TypeOK
  BY DEF ControlInv
<1>2. RestTyped'
  BY <1>1, Typed, ControlAssumption DEF Delegated, RestTyped, vault, held
<1> QED BY <1>2, StillKeeps DEF Delegated, vault

LEMMA NextKeeps ==
  ASSUME ControlInv, [Next]_vars
  PROVE  ControlInv'
<1>1. ASSUME NEW t \in Thread, AgentStep(t) PROVE ControlInv'
  BY <1>1, RequestKeeps, EndingKeeps DEF AgentStep
<1>2. ASSUME NEW t \in Thread, OperatorStep(t) PROVE ControlInv'
  BY <1>2, SwitchKeeps, AuthorizeKeeps DEF OperatorStep
<1>3. ASSUME NEW t \in Thread, Handler(t) PROVE ControlInv'
  BY <1>3, WaitingKeeps, PriorKeeps, IssueKeeps, BindKeeps, RowKeeps,
     InstallingKeeps, RevokeKeeps, MarkKeeps, ClearKeeps, SweepingKeeps,
     NewRunKeeps DEF Handler
<1>4. CASE UNCHANGED vars
  <2>1. RestTyped'
    BY <1>4, Typed DEF ControlInv, RestTyped, vars, board, vault, held
  <2> QED BY <1>4, <2>1, StillKeeps DEF vars, board, vault
<1> QED
  BY <1>1, <1>2, <1>3, <1>4, FailsKeeps, DelegatedKeeps, TickKeeps DEF Next

LEMMA InitHolds ==
  ASSUME Init
  PROVE  ControlInv
<1>1. TypeOK
  <2>1. \A l \in Lease : lease[l] \in LeaseRow
    BY ControlAssumption DEF Init, LeaseRow, Via, None
  <2>2. \A a \in Approval : approval[a] \in ApprovalRow
    BY ControlAssumption DEF Init, ApprovalRow, None
  <2>3. /\ lease \in [Lease -> LeaseRow] /\ approval \in [Approval -> ApprovalRow]
        /\ rows \in [Lease -> {"none", "open", "revoked"}]
        /\ call \in [Thread -> Call] /\ slot \in SlotRow
    BY <2>1, <2>2, IdleTyped, NoSlotTyped DEF Init
  <2>4. /\ task \in 0..MaxTask /\ tasks \in 0..MaxTask /\ run \in 1..MaxRun
        /\ timer \in 0..MaxLease /\ pending \in SUBSET Approval /\ loose \in BOOLEAN
    <3>1. /\ task = 0 /\ tasks = 0 /\ run = 1 /\ timer = 0 /\ pending = {}
          /\ loose = FALSE
      BY DEF Init, None
    <3>2. /\ MaxTask \in Nat /\ MaxLease \in Nat
          /\ MaxRun \in Nat /\ MaxRun # 0
      BY ControlAssumption
    <3>3. task \in 0..MaxTask /\ tasks \in 0..MaxTask /\ run \in 1..MaxRun
      BY <3>1, <3>2
    <3>4. timer \in 0..MaxLease
      BY <3>1, <3>2
    <3>5. pending \in SUBSET Approval /\ loose \in BOOLEAN
      BY <3>1
    <3> QED BY <3>3, <3>4, <3>5
  <2> QED BY <2>3, <2>4 DEF TypeOK
<1>2. \A t \in Thread : call[t] = Idle
  BY DEF Init
<1>3. CallsFit /\ OneSwitch
  BY <1>2 DEF CallsFit, CallFits, HasLease, AskedAfter, OneSwitch, Idle
<1>4. RecordedIsIssued /\ SecondNeedsHuman
  BY DEF Init, RecordedIsIssued, SecondNeedsHuman
<1> QED BY <1>1, <1>3, <1>4 DEF ControlInv

\* The control-group invariant holds of every reachable state.
THEOREM ControlInvariant == Spec => []ControlInv
<1>1. Init => ControlInv
  BY InitHolds
<1>2. ControlInv /\ [Next]_vars => ControlInv'
  BY NextKeeps
<1> QED BY <1>1, <1>2, PTL DEF Spec

\* Every variable keeps its type.
THEOREM TypeCorrect == Spec => []TypeOK
<1>1. ControlInv => TypeOK
  BY DEF ControlInv
<1> QED BY <1>1, ControlInvariant, PTL

\* No request made once a credential of the run was recorded is ever served
\* without a human, whatever is revoked, fails, overlaps or is switched
\* meanwhile (hasPriorCredentialInRun and the branches of POST /credentials).
THEOREM SecondCredentialNeedsHuman == Spec => []SecondNeedsHuman
<1>1. ControlInv => SecondNeedsHuman
  BY DEF ControlInv
<1> QED BY <1>1, ControlInvariant, PTL

-----------------------------------------------------------------------------
(* The slot, its renewal and the end of a run. None of the four properties *)
(* of the slot is inductive: they say what the slot holds, and it is a      *)
(* request in flight that is about to fill, serve or empty it. What carries *)
(* them is what such a request knows of its lease and its approval (Knows). *)

Asks == {"request", "authorize"}
InRequest == {"decide", "wrap", "issue", "bind", "row", "renew", "oauthslot",
              "approve", "unwrap"}
WithLease == {"bind", "row", "renew", "oauthslot"} \cup Revoking
Issued(l) == l \in Lease /\ lease[l].status # "none"
ByOauth(l) == lease[l].via = "oauth"
\* An operator authorised a request for an exception, and its token was used.
Authorised(a) == /\ a \in Approval /\ approval[a].exception
                 /\ approval[a].status \in {"unwrapped", "spent"}
\* An approval that is being worked on is the one that was asked for.
Approves(c) == /\ c.approval \in Approval /\ approval[c.approval].status # "none"
               /\ approval[c.approval].exception = c.exception

Knows(c) ==
  /\ c.pc \in InRequest => c.op \in Asks
  /\ c.op \in Asks => c.task # None
  /\ c.pc = "issue" => ~c.exception
  /\ c.pc \in {"approve", "unwrap"} => c.op = "authorize"
  /\ c.op = "authorize" => Approves(c)
  /\ c.pc \in WithLease => Issued(c.lease)
  /\ c.pc = "bind" => /\ ~ByOauth(c.lease)
                      /\ c.exception => Authorised(lease[c.lease].approval)
  /\ c.pc = "renew" => ~ByOauth(c.lease)
  /\ c.pc = "oauthslot" => ByOauth(c.lease)
  /\ c.pc \in Revoking => c.then \in {"sweep", "accessor"}
  /\ c.pc = "accessor" => c.then = "accessor"
  /\ c.pc = "mark" => ~Live(c.lease) \/ ByOauth(c.lease)
  /\ c.pc = "select" => c.then = "idle"
  /\ c.op = "switch" => \A l \in c.todo : Issued(l)
  /\ c.pc = "newrun" \/ (c.op = "switch" /\ c.then = "accessor") => c.todo = {}

CallsKnow == \A t \in Thread : Knows(call[t])
ApprovalsAreAsked ==
  \A a \in Approval : approval[a].status # "none" => approval[a].task # None
PendingExist == \A a \in pending : approval[a].status # "none"
ExceptionsAuthorised ==
  \A l \in Lease : Issued(l) /\ "exception" \in lease[l].mandate =>
    Authorised(lease[l].approval)
SlotIsHeld == slot.lease # None =>
  /\ Issued(slot.lease) /\ slot.task # None
  /\ Profile = "good" /\ ~ByOauth(slot.lease) =>
       "standard" \in lease[slot.lease].mandate

\* The slot is under renewal, or the request that filled it is about to see
\* to that, and no other request will.
WillRenew(t) == call[t].pc \in Installing /\ ~ByOauth(call[t].lease)
SlotIsServed == slot.lease # None /\ ~ByOauth(slot.lease) /\ ~slot.raced =>
  /\ \/ timer = slot.lease
     \/ \E t \in Thread : WillRenew(t) /\ call[t].lease = slot.lease
  /\ \A t \in Thread : WillRenew(t) => call[t].lease = slot.lease

\* Whoever ended the task of the slot is on the way to empty it.
WillEmpty(t) == call[t].pc \in Revoking /\ call[t].then = "accessor"
EndedIsRevoked == slot.lease # None /\ slot.task # task =>
  slot.late \/ \E t \in Thread : WillEmpty(t)

SlotInv ==
  /\ CallsKnow /\ ApprovalsAreAsked /\ PendingExist /\ ExceptionsAuthorised
  /\ SlotIsHeld /\ SlotIsServed /\ EndedIsRevoked

\* While nothing is loose, a request is of the current run and a switch finds
\* every lease of it: on record, since no request has it in hand, then on its
\* list, then in the revocation under way.
Opens(l) == Live(l) /\ ~ByOauth(l)
NoOverlap == \A t, u \in Thread : call[t].op \in Asks => call[u].op # "switch"
AskedInRun ==
  /\ \A t \in Thread : call[t].op \in Asks => call[t].run = run
  /\ \A a \in pending : approval[a].run = run
OpenIsOnRecord == \A l \in Lease : Opens(l) =>
  \/ rows[l] = "open"
  \/ \E t \in Thread : call[t].pc \in {"bind", "row"} /\ call[t].lease = l
SwitchFinds == \A t \in Thread : call[t].op = "switch" /\ call[t].pc # "select" =>
  \A l \in Lease : Opens(l) =>
    l \in call[t].todo \/ (call[t].pc = "revoke" /\ call[t].lease = l)

TightInv == ~loose =>
  /\ NoOverlap /\ AskedInRun /\ OpenIsOnRecord /\ SwitchFinds
  /\ SwitchLeavesNothing
SwitchIsCurrent == \A t \in Thread : call[t].op = "switch" => call[t].run = run

CredentialInv == ControlInv /\ SlotInv /\ SwitchIsCurrent /\ TightInv

-----------------------------------------------------------------------------
(* What a step does to the request that takes it.                          *)

Acts(t) ==
  call' \in [Thread -> Call] /\ \A u \in Thread : u # t => call'[u] = call[u]
SameRequest(c, d) ==
  /\ c.op = d.op /\ c.task = d.task /\ c.run = d.run /\ c.approval = d.approval
  /\ c.exception = d.exception /\ c.then = d.then /\ c.todo = d.todo
Going(t, p) ==
  /\ Acts(t) /\ call'[t].pc = p
  /\ SameRequest(call'[t], call[t]) /\ call'[t].lease = call[t].lease
Leaving(t) == Acts(t) /\ call'[t] = Idle
\* Vault's answer is a lease that did not exist.
Issues(t, l, via) ==
  /\ Acts(t) /\ SameRequest(call'[t], call[t])
  /\ call'[t].lease = l /\ call'[t].pc = (IF via = "oauth" THEN "row" ELSE "bind")
  /\ lease[l].status = "none"
  /\ \A k \in Lease : k # l => lease'[k] = lease[k]
  /\ lease'[l].status = "live" /\ lease'[l].run = call[t].run
  /\ lease'[l].via = via /\ lease'[l].approval = call[t].approval
  /\ lease'[l].mandate = {}

LEMMA GoGoes ==
  ASSUME TypeOK, NEW t \in Thread, NEW p \in PC, Go(t, p)
  PROVE  Going(t, p)
BY Typed DEF Go, Become, Going, Acts, SameRequest, Call

LEMMA ReturnLeaves ==
  ASSUME TypeOK, NEW t \in Thread, Return(t)
  PROVE  Leaving(t)
BY Typed, IdleTyped DEF Return, Become, Leaving, Acts

LEMMA IssuesGoes ==
  ASSUME TypeOK, NEW t \in Thread, NEW via \in Via, VaultIssues(t, via)
  PROVE  \E l \in Lease : Issues(t, l, via)
<1>1. lease \in [Lease -> LeaseRow] /\ call \in [Thread -> Call]
  BY Typed
<1>2. PICK l \in Lease :
        /\ \A k \in Lease : lease[k].status = "none" <=> k >= l
        /\ lease' = [lease EXCEPT ![l] = [status |-> "live", task |-> call[t].task,
             run |-> call[t].run, via |-> via, approval |-> call[t].approval,
             after |-> call[t].after, mandate |-> {}]]
        /\ Become(t, [call[t] EXCEPT !.lease = l,
                        !.pc = IF via = "oauth" THEN "row" ELSE "bind"])
  BY DEF VaultIssues
<1>3. lease[l].status = "none" /\ l \in 0..MaxLease
  BY <1>2, ControlAssumption DEF Lease
<1> DEFINE c == [call[t] EXCEPT !.lease = l,
                   !.pc = IF via = "oauth" THEN "row" ELSE "bind"]
<1>4. /\ c \in Call /\ SameRequest(c, call[t]) /\ c.lease = l
      /\ c.pc = (IF via = "oauth" THEN "row" ELSE "bind")
  <2>1. call[t] \in Call /\ {"row", "bind"} \subseteq PC
    BY <1>1 DEF PC, Installing
  <2>2. c \in Call BY <1>3, <2>1 DEF Call
  <2>3. /\ SameRequest(c, call[t]) /\ c.lease = l
        /\ c.pc = (IF via = "oauth" THEN "row" ELSE "bind")
    BY <2>1 DEF Call, SameRequest
  <2> QED BY <2>2, <2>3
<1>5. call' = [call EXCEPT ![t] = c]
  BY <1>2 DEF Become
<1> HIDE DEF c
<1>6. Acts(t) /\ call'[t] = c
  BY <1>1, <1>4, <1>5 DEF Acts
<1>7. /\ \A k \in Lease : k # l => lease'[k] = lease[k]
      /\ lease'[l].status = "live" /\ lease'[l].run = call[t].run
      /\ lease'[l].via = via /\ lease'[l].approval = call[t].approval
      /\ lease'[l].mandate = {}
  BY <1>1, <1>2
<1>8. Issues(t, l, via)
  BY <1>3, <1>4, <1>6, <1>7 DEF Issues
<1> QED BY <1>8

\* A revocation that starts: the first step of a completion or a denial.
Begins(t, op) ==
  /\ Acts(t) /\ call'[t].op = op /\ call'[t].pc = "revoke"
  /\ call'[t].lease = slot.lease /\ call'[t].then = "accessor"
  /\ slot.lease # None
\* A denial that finds nothing to revoke.
Answers(t) == Acts(t) /\ call'[t].op = "none" /\ call'[t].pc = "denied"

LEMMA CleanupGoes ==
  ASSUME TypeOK, NEW t \in Thread, NEW owner, NEW op \in {"complete", "deny"},
         CleanupTask(t, op, owner)
  PROVE  \/ Begins(t, op)
         \/ UNCHANGED call /\ ~(slot.lease # None /\ slot.task \in {None, owner})
         \/ Answers(t) /\ op = "deny"
<1>1. slot.lease \in 0..MaxLease /\ call \in [Thread -> Call]
  BY Typed DEF RestTyped, SlotRow
<1> DEFINE c == [Idle EXCEPT !.pc = "revoke", !.op = op, !.lease = slot.lease,
                   !.then = "accessor"]
           d == [Idle EXCEPT !.pc = "denied", !.lease = slot.lease]
<1>2. c \in Call /\ d \in Call
  BY <1>1, IdleTyped DEF Call, PC, Revoking
<1>3. /\ c.op = op /\ c.pc = "revoke" /\ c.then = "accessor" /\ c.lease = slot.lease
      /\ d.op = "none" /\ d.pc = "denied"
  BY DEF Idle
<1> HIDE DEF c, d
<1>4. ASSUME NEW e \in Call, Become(t, e) PROVE Acts(t) /\ call'[t] = e
  BY <1>1, <1>4 DEF Become, Acts
<1>5. \/ slot.lease # None /\ slot.task \in {None, owner} /\ Become(t, c)
      \/ Become(t, d) /\ op = "deny"
      \/ UNCHANGED call /\ ~(slot.lease # None /\ slot.task \in {None, owner})
  BY DEF CleanupTask, c, d
<1> QED BY <1>2, <1>3, <1>4, <1>5 DEF Begins, Answers

\* What each statement of a request does to the request.
LEMMA HandlerGoes ==
  ASSUME ControlInv, NEW t \in Thread
  PROVE  /\ Exception(t) => Going(t, "wrap") \/ Leaving(t)
         /\ Prior(t) => Going(t, "wrap") \/ Going(t, "issue")
         /\ Bind(t) => Going(t, "row")
         /\ Row(t) => Going(t, "oauthslot") \/ Going(t, "renew")
         /\ Approve(t) => Going(t, "unwrap") \/ Leaving(t)
         /\ Revoke(t) => Going(t, "mark") \/ Going(t, call[t].then)
         /\ Mark(t) => Going(t, call[t].then)
         /\ Clear(t) => \/ call[t].op = "switch" /\ Going(t, "newrun")
                        \/ Going(t, "denied") \/ Leaving(t)
         /\ Wrap(t) \/ OauthSlot(t) \/ Renewal(t) \/ Denied(t) \/ NewRun(t)
              \/ Fails(t) => Leaving(t)
<1>1. TypeOK /\ call[t].then \in PC
  BY Typed DEF ControlInv, Call
<1>2. {"wrap", "issue", "row", "oauthslot", "renew", "unwrap", "mark", "newrun",
       "denied"} \subseteq PC
  BY DEF PC, Installing, Revoking
<1>3. \A p \in PC : Go(t, p) => Going(t, p)
  BY <1>1, GoGoes
<1>4. Return(t) => Leaving(t)
  BY <1>1, ReturnLeaves
<1> QED
  BY <1>1, <1>2, <1>3, <1>4 DEF Exception, Prior, Bind, Row, Approve, Revoke, Mark,
     Clear, Wrap, OauthSlot, Renewal, Denied, NewRun, Fails

-----------------------------------------------------------------------------
(* What no step takes back.                                                *)

LeaseGrows(l) ==
  IF lease[l].status = "none"
  THEN lease'[l].status = "none" \/ lease'[l].mandate = {}
  ELSE /\ lease'[l].status # "none"
       /\ lease'[l].status = "live" => lease[l].status = "live"
       /\ lease'[l].via = lease[l].via /\ lease'[l].run = lease[l].run
       /\ lease'[l].approval = lease[l].approval
       /\ Profile = "good" /\ "standard" \in lease[l].mandate =>
            "standard" \in lease'[l].mandate
       /\ "exception" \in lease'[l].mandate =>
            "exception" \in lease[l].mandate \/ Authorised(lease[l].approval)
ApprovalGrows(a) == approval[a].status # "none" =>
  /\ approval'[a].status # "none"
  /\ approval'[a].exception = approval[a].exception
  /\ approval'[a].task = approval[a].task /\ approval'[a].run = approval[a].run
  /\ approval[a].status \in {"unwrapped", "spent"} =>
       approval'[a].status \in {"unwrapped", "spent"}
Grows ==
  (\A l \in Lease : LeaseGrows(l)) /\ (\A a \in Approval : ApprovalGrows(a))

LEMMA SameGrows ==
  ASSUME TypeOK
  PROVE  /\ UNCHANGED lease => \A l \in Lease : LeaseGrows(l)
         /\ UNCHANGED approval => \A a \in Approval : ApprovalGrows(a)
BY DEF LeaseGrows, ApprovalGrows

LEMMA EndGrows ==
  ASSUME TypeOK, NEW k, MayEnd(k), k \in Lease => lease[k].status # "none"
  PROVE  \A l \in Lease : LeaseGrows(l)
<1>1. \A l \in Lease :
        /\ lease'[l].status = lease[l].status
             \/ (lease'[l].status = "ended" /\ lease[l].status # "none")
        /\ lease'[l].run = lease[l].run /\ lease'[l].approval = lease[l].approval
        /\ lease'[l].via = lease[l].via /\ lease'[l].mandate = lease[l].mandate
  BY Typed DEF MayEnd, LeaseRow
<1> QED BY <1>1 DEF LeaseGrows

LEMMA IssueGrows ==
  ASSUME TypeOK, NEW t \in Thread, NEW l \in Lease, NEW via, Issues(t, l, via)
  PROVE  \A k \in Lease : LeaseGrows(k)
BY DEF Issues, LeaseGrows

LEMMA BindGrows ==
  ASSUME ControlInv, CallsKnow, NEW t \in Thread, Bind(t)
  PROVE  /\ \A l \in Lease : LeaseGrows(l)
         /\ \A l \in Lease : lease'[l].status = lease[l].status
         /\ Profile = "good" => "standard" \in lease'[call[t].lease].mandate
<1> DEFINE k == call[t].lease
<1>1. /\ TypeOK /\ k \in Lease /\ lease[k].status # "none"
      /\ call[t].exception => Authorised(lease[k].approval)
  BY DEF ControlInv, CallsKnow, Knows, WithLease, Issued, Bind, At
<1>2. lease' = [lease EXCEPT ![k].mandate =
                 IF Profile = "bad" THEN {}
                 ELSE {"standard"} \cup (IF call[t].exception THEN {"exception"} ELSE {})]
  BY DEF Bind
<1> HIDE DEF k
<1>3. /\ \A l \in Lease : l # k => lease'[l] = lease[l]
      /\ lease'[k].status = lease[k].status /\ lease'[k].via = lease[k].via
      /\ lease'[k].run = lease[k].run /\ lease'[k].approval = lease[k].approval
      /\ lease'[k].mandate = IF Profile = "bad" THEN {}
           ELSE {"standard"} \cup (IF call[t].exception THEN {"exception"} ELSE {})
  BY <1>1, <1>2, Typed DEF LeaseRow
<1>4. Profile = "good" => "standard" \in lease'[k].mandate
  BY <1>3
<1>5. "exception" \in lease'[k].mandate => call[t].exception
  BY <1>3
<1>6. LeaseGrows(k)
  BY <1>1, <1>3, <1>4, <1>5 DEF LeaseGrows
<1>7. ASSUME NEW l \in Lease PROVE LeaseGrows(l)
  BY <1>3, <1>6 DEF LeaseGrows
<1> QED BY <1>3, <1>4, <1>7 DEF k

LEMMA ApprovalStepGrows ==
  ASSUME ControlInv, CallsKnow, NEW t \in Thread,
         Wrap(t) \/ Approve(t) \/ Unwrap(t) \/ Fails(t)
  PROVE  \A a \in Approval : ApprovalGrows(a)
<1>1. approval \in [Approval -> ApprovalRow]
  BY Typed DEF ControlInv, RestTyped
<1>2. CASE Wrap(t)
  <2>1. PICK a \in Approval :
          /\ \A b \in Approval : approval[b].status = "none" <=> b >= a
          /\ \A b \in Approval : b # a => approval'[b] = approval[b]
    BY <1>1, <1>2 DEF Wrap
  <2>2. approval[a].status = "none" BY <2>1 DEF Approval
  <2> QED BY <2>1, <2>2 DEF ApprovalGrows
<1>3. CASE Approve(t)
  <2>1. \A a \in Approval : \/ approval'[a] = approval[a]
                            \/ /\ approval[a].status \in {"waiting", "approved"}
                               /\ approval'[a] = [approval[a] EXCEPT !.status = "approved"]
    BY <1>1, <1>3 DEF Approve
  <2> QED BY <1>1, <2>1 DEF ApprovalGrows, ApprovalRow
<1>4. CASE Unwrap(t)
  <2>1. \A a \in Approval : \/ approval'[a] = approval[a]
                            \/ approval'[a] = [approval[a] EXCEPT !.status = "unwrapped"]
    BY <1>1, <1>4 DEF Unwrap, vault
  <2>2. ASSUME NEW a \in Approval PROVE ApprovalGrows(a)
    <3>1. CASE approval'[a] = approval[a] BY <3>1 DEF ApprovalGrows
    <3>2. CASE approval'[a] = [approval[a] EXCEPT !.status = "unwrapped"]
      <4>1. /\ approval'[a].status = "unwrapped"
            /\ approval'[a].exception = approval[a].exception
            /\ approval'[a].task = approval[a].task /\ approval'[a].run = approval[a].run
        BY <1>1, <3>2 DEF ApprovalRow
      <4> QED BY <4>1 DEF ApprovalGrows
    <3> QED BY <2>1, <3>1, <3>2
  <2> QED BY <2>2
<1>5. CASE Fails(t)
  <2>1. \A a \in Approval : \/ approval'[a] = approval[a]
                            \/ approval'[a] = [approval[a] EXCEPT !.status = "spent"]
    BY <1>1, <1>5 DEF Fails
  <2>2. ASSUME NEW a \in Approval PROVE ApprovalGrows(a)
    <3>1. CASE approval'[a] = approval[a] BY <3>1 DEF ApprovalGrows
    <3>2. CASE approval'[a] = [approval[a] EXCEPT !.status = "spent"]
      <4>1. /\ approval'[a].status = "spent"
            /\ approval'[a].exception = approval[a].exception
            /\ approval'[a].task = approval[a].task /\ approval'[a].run = approval[a].run
        BY <1>1, <3>2 DEF ApprovalRow
      <4> QED BY <4>1 DEF ApprovalGrows
    <3> QED BY <2>1, <3>1, <3>2
  <2> QED BY <2>2
<1> QED BY <1>2, <1>3, <1>4, <1>5

LEMMA StepGrows ==
  ASSUME ControlInv, CallsKnow, SlotIsHeld, [Next]_vars
  PROVE  Grows
<1> DEFINE LG == \A l \in Lease : LeaseGrows(l)
           AG == \A a \in Approval : ApprovalGrows(a)
<1>0. TypeOK BY DEF ControlInv
<1>1. (UNCHANGED lease => LG) /\ (UNCHANGED approval => AG)
  BY <1>0, SameGrows
<1>2. ASSUME NEW t \in Thread,
             Wrap(t) \/ Approve(t) \/ Unwrap(t) \/ Fails(t)
      PROVE  LG /\ AG
  <2>1. AG BY <1>2, ApprovalStepGrows
  <2>2. ASSUME VaultIssues(t, "approved") PROVE LG
    BY <1>0, <2>2, IssuesGoes, IssueGrows DEF Via
  <2>3. UNCHANGED lease \/ VaultIssues(t, "approved")
    BY <1>2 DEF Wrap, Approve, Unwrap, Fails, vault
  <2> QED BY <1>1, <2>1, <2>2, <2>3
<1>3. ASSUME NEW t \in Thread, OauthIssue(t) \/ Issue(t)
      PROVE  LG /\ AG
  <2>1. PICK via \in Via : VaultIssues(t, via)
    BY <1>3 DEF OauthIssue, Issue, Via
  <2>2. LG BY <1>0, <2>1, IssuesGoes, IssueGrows
  <2>3. UNCHANGED approval BY <1>3 DEF OauthIssue, Issue
  <2> QED BY <1>1, <2>2, <2>3
<1>4. ASSUME NEW t \in Thread, Bind(t) PROVE LG /\ AG
  BY <1>1, <1>4, BindGrows DEF Bind
<1>5. ASSUME NEW t \in Thread, Revoke(t) \/ Clear(t) PROVE LG /\ AG
  <2>1. MayEnd(call[t].lease) /\ UNCHANGED approval
    BY <1>5 DEF Revoke, Clear, MayEnd
  <2>2. lease[call[t].lease].status # "none"
    BY <1>5 DEF Revoke, Clear, At, CallsKnow, Knows, WithLease, Revoking, Issued
  <2> QED BY <1>0, <1>1, <2>1, <2>2, EndGrows
<1>6. ASSUME Tick PROVE LG /\ AG
  <2>1. UNCHANGED approval BY <1>6 DEF Tick
  <2>2. CASE UNCHANGED lease BY <1>1, <2>1, <2>2
  <2>3. CASE Held(timer) /\ lease' = [lease EXCEPT ![timer].status = "ended"]
    <3>1. MayEnd(timer) BY <2>3 DEF MayEnd
    <3>2. lease[timer].status # "none"
      BY <1>6, <2>3 DEF Tick, Held, SlotIsHeld, Issued
    <3> QED BY <1>0, <1>1, <2>1, <3>1, <3>2, EndGrows
  <2> QED BY <1>6, <2>2, <2>3 DEF Tick
<1>7. ASSUME NEW t \in Thread, AgentStep(t) \/ OperatorStep(t) \/ Exception(t)
               \/ Prior(t) \/ Row(t) \/ OauthSlot(t) \/ Renewal(t) \/ Mark(t)
               \/ Select(t) \/ Sweep(t) \/ NewRun(t) \/ Denied(t)
      PROVE  UNCHANGED <<lease, approval>>
  BY <1>7 DEF AgentStep, Request, Complete, Deny, OperatorStep, Switch, Authorize,
     Exception, Prior, Row, OauthSlot, Renewal, Mark, Select, Sweep, NewRun, Denied,
     vault
<1>8. ASSUME Delegated \/ UNCHANGED vars PROVE UNCHANGED <<lease, approval>>
  BY <1>8 DEF Delegated, vars, vault
<1>9. LG /\ AG
  <2>1. CASE \E t \in Thread : AgentStep(t) \/ OperatorStep(t) \/ Handler(t) \/ Fails(t)
    <3>1. PICK t \in Thread : AgentStep(t) \/ OperatorStep(t) \/ Handler(t) \/ Fails(t)
      BY <2>1
    <3> HIDE DEF LG, AG
    <3> QED BY <1>1, <1>2, <1>3, <1>4, <1>5, <1>7, <3>1 DEF Handler
  <2>2. CASE Delegated \/ Tick \/ UNCHANGED vars
    BY <1>1, <1>6, <1>8, <2>2
  <2> QED BY <2>1, <2>2 DEF Next
<1> QED BY <1>9 DEF Grows

-----------------------------------------------------------------------------
(* What a request knows stays true while others act.                       *)

LEMMA KnowsLater ==
  ASSUME Grows, NEW c \in Call, Knows(c)
  PROVE  Knows(c)'
<1>1. \A a : Authorised(a) => Authorised(a)'
  BY DEF Grows, ApprovalGrows, Authorised
<1>2. Issued(c.lease) => /\ Issued(c.lease)'
                         /\ lease'[c.lease].via = lease[c.lease].via
                         /\ lease'[c.lease].approval = lease[c.lease].approval
                         /\ (Live(c.lease)' => Live(c.lease))
  BY DEF Grows, LeaseGrows, Issued, Live
<1>3. Approves(c) => Approves(c)'
  BY DEF Grows, ApprovalGrows, Approves
<1>4. {"bind", "renew", "oauthslot", "mark"} \subseteq WithLease
  BY DEF WithLease, Revoking
<1>5. (\A l \in c.todo : Issued(l)) => \A l \in c.todo : Issued(l)'
  BY DEF Grows, LeaseGrows, Issued
<1> QED BY <1>1, <1>2, <1>3, <1>4, <1>5 DEF Knows, ByOauth

\* The others know what they knew, so that the one that acts decides.
LEMMA OthersKnow ==
  ASSUME ControlInv, CallsKnow, Grows, NEW t \in Thread, Acts(t), Knows(call[t])'
  PROVE  CallsKnow'
<1>1. ASSUME NEW u \in Thread, u # t PROVE Knows(call[u])'
  <2>1. PICK c \in Call : c = call[u] BY Typed DEF ControlInv
  <2>2. Knows(c)' BY <2>1, KnowsLater DEF CallsKnow
  <2>3. call'[u] = c BY <1>1, <2>1 DEF Acts
  <2> QED BY <2>2, <2>3 DEF Knows, ByOauth, Authorised, Approves, Issued, Live
<1> QED BY <1>1 DEF CallsKnow

LEMMA AllKnow ==
  ASSUME ControlInv, CallsKnow, Grows, UNCHANGED call
  PROVE  CallsKnow'
<1>1. ASSUME NEW u \in Thread PROVE Knows(call[u])'
  <2>1. PICK c \in Call : c = call[u] BY Typed DEF ControlInv
  <2>2. Knows(c)' BY <2>1, KnowsLater DEF CallsKnow
  <2>3. call'[u] = c BY <2>1
  <2> QED BY <2>2, <2>3 DEF Knows, ByOauth, Authorised, Approves, Issued, Live
<1> QED BY <1>1 DEF CallsKnow

LEMMA IdleKnows ==
  ASSUME ControlInv, CallsKnow, Grows, NEW t \in Thread, Leaving(t)
  PROVE  CallsKnow'
<1>1. Knows(call[t])'
  BY DEF Leaving, Idle, Knows, InRequest, WithLease, Revoking, Asks
<1> QED BY <1>1, OthersKnow DEF Leaving

\* What a request must know to go on to p.
LEMMA GoKnows ==
  ASSUME ControlInv, CallsKnow, Grows, NEW t \in Thread, NEW p, Going(t, p),
         p \notin {"bind", "select"},
         p \in InRequest => call[t].op \in Asks,
         p = "issue" => ~call[t].exception,
         p \in {"approve", "unwrap"} => call[t].op = "authorize",
         p \in WithLease => Issued(call[t].lease),
         p = "renew" => ~ByOauth(call[t].lease),
         p = "oauthslot" => ByOauth(call[t].lease),
         p \in Revoking => call[t].then \in {"sweep", "accessor"},
         p = "accessor" => call[t].then = "accessor",
         p = "mark" => ~Live(call[t].lease)' \/ ByOauth(call[t].lease),
         p = "newrun" => call[t].todo = {}
  PROVE  CallsKnow'
<1>1. PICK c \in Call : c = call[t] BY Typed DEF ControlInv
<1>2. Knows(c) /\ Knows(c)' BY <1>1, KnowsLater DEF CallsKnow
<1>3. /\ call'[t].pc = p /\ SameRequest(call'[t], c) /\ call'[t].lease = c.lease
  BY <1>1 DEF Going
<1>4. p \in WithLease => /\ Issued(c.lease)'
                         /\ (ByOauth(c.lease)' <=> ByOauth(c.lease))
  BY <1>1 DEF Grows, LeaseGrows, Issued, ByOauth
<1>5. {"renew", "oauthslot", "mark"} \subseteq WithLease
  BY DEF WithLease, Revoking
<1>6. Knows(call[t])'
  BY <1>1, <1>2, <1>3, <1>4, <1>5
     DEF Knows, SameRequest, Approves, Authorised, Issued, ByOauth, Live
<1> QED BY <1>6, OthersKnow DEF Going

LEMMA IssuesKnows ==
  ASSUME ControlInv, CallsKnow, Grows, NEW t \in Thread, NEW l \in Lease,
         NEW via \in Via, Issues(t, l, via), call[t].op \in Asks,
         via # "oauth" /\ call[t].exception => Authorised(call[t].approval)'
  PROVE  CallsKnow'
<1>1. PICK c \in Call : c = call[t] BY Typed DEF ControlInv
<1>2. Knows(c) /\ Knows(c)' BY <1>1, KnowsLater DEF CallsKnow
<1>3. /\ call'[t].lease = l /\ SameRequest(call'[t], c)
      /\ call'[t].pc = (IF via = "oauth" THEN "row" ELSE "bind")
      /\ lease'[l].status = "live" /\ lease'[l].via = via
      /\ lease'[l].approval = c.approval
  BY <1>1 DEF Issues
<1>4. Knows(call[t])'
  BY <1>1, <1>2, <1>3 DEF Knows, SameRequest, Approves, Authorised, Issued, ByOauth,
     Live, Asks, Revoking
<1> QED BY <1>4, OthersKnow DEF Issues

LEMMA BeginKnows ==
  ASSUME ControlInv, CallsKnow, Grows, SlotIsHeld, NEW t \in Thread,
         NEW op \in {"complete", "deny"}, Begins(t, op) \/ Answers(t)
  PROVE  CallsKnow'
<1>1. CASE Begins(t, op)
  <2>1. /\ slot.lease \in Lease /\ lease'[slot.lease].status # "none"
        /\ slot.lease # None
    BY <1>1 DEF Begins, SlotIsHeld, Grows, LeaseGrows, Issued
  <2>2. Knows(call[t])'
    BY <1>1, <2>1 DEF Begins, Knows, Issued, InRequest, Asks, Revoking
  <2> QED BY <1>1, <2>2, OthersKnow DEF Begins
<1>2. CASE Answers(t)
  <2>1. Knows(call[t])'
    BY <1>2 DEF Answers, Knows, InRequest, WithLease, Asks, Revoking
  <2> QED BY <1>2, <2>1, OthersKnow DEF Answers
<1> QED BY <1>1, <1>2

\* The requests that begin.
Asking(t) ==
  /\ Acts(t) /\ call'[t].op \in Asks /\ call'[t].task # None
  /\ \/ call'[t].op = "request" /\ call'[t].pc = "decide" /\ call'[t].run = run
     \/ /\ call'[t].op = "authorize" /\ call'[t].pc = "approve"
        /\ call'[t].approval \in pending
        /\ call'[t].exception = approval[call'[t].approval].exception
        /\ call'[t].run = approval[call'[t].approval].run
  /\ ~InFlight({"switch"}) \/ loose'
  /\ call[t].pc = "idle"
Switching(t) ==
  /\ Acts(t) /\ call'[t].op = "switch" /\ call'[t].pc = "select"
  /\ call'[t].run = run /\ call'[t].then = "idle" /\ call'[t].todo = {}
  /\ ~InFlight({"switch"}) /\ (~InFlight(Asks) \/ loose')
  /\ call[t].pc = "idle"

LEMMA AskGoes ==
  ASSUME ControlInv, ApprovalsAreAsked, PendingExist, NEW t \in Thread,
         (\E e \in BOOLEAN : Request(t, e)) \/ (\E a \in Approval : Authorize(t, a))
  PROVE  /\ Asking(t) /\ (loose => loose')
         /\ UNCHANGED <<board, vault, rows, held>>
<1>1. /\ TypeOK /\ RestTyped /\ run \in 1..MaxRun /\ Idle \in Call
      /\ call \in [Thread -> Call]
  BY Typed, IdleTyped DEF ControlInv
<1>2. ASSUME NEW c \in Call, Become(t, c) PROVE Acts(t) /\ call'[t] = c
  BY <1>1, <1>2 DEF Become, Acts
<1>3. ASSUME NEW e \in BOOLEAN, Request(t, e) PROVE Asking(t)
  <2> DEFINE c == [Idle EXCEPT !.pc = "decide", !.op = "request", !.task = task,
                     !.run = run, !.exception = e,
                     !.after = \E l \in Lease : Recorded(l, run)]
  <2>1. c \in Call BY <1>1 DEF RestTyped, Call, PC
  <2>2. c.op = "request" /\ c.pc = "decide" /\ c.run = run /\ c.task = task
    BY DEF Idle
  <2>3. Become(t, c) BY <1>3 DEF Request
  <2> HIDE DEF c
  <2>4. Acts(t) /\ call'[t] = c BY <1>2, <2>1, <2>3
  <2> QED BY <1>3, <2>2, <2>4 DEF Asking, Asks, Request, At
<1>4. ASSUME NEW a \in Approval, Authorize(t, a) PROVE Asking(t)
  <2> DEFINE c == [Idle EXCEPT !.pc = "approve", !.op = "authorize", !.approval = a,
                     !.task = approval[a].task, !.run = approval[a].run,
                     !.exception = approval[a].exception]
  <2>1. /\ a \in 0..MaxApproval /\ approval[a].task \in 0..MaxTask
        /\ approval[a].run \in 1..MaxRun /\ approval[a].exception \in BOOLEAN
    BY <1>1, ControlAssumption DEF RestTyped, ApprovalRow, Approval
  <2>2. c \in Call BY <1>1, <2>1 DEF Call, PC
  <2>3. /\ c.op = "authorize" /\ c.pc = "approve" /\ c.run = approval[a].run
        /\ c.task = approval[a].task /\ c.approval = a
        /\ c.exception = approval[a].exception
    BY DEF Idle
  <2>4. Become(t, c) /\ a \in pending BY <1>4 DEF Authorize
  <2>5. approval[a].task # None BY <2>4 DEF ApprovalsAreAsked, PendingExist
  <2> HIDE DEF c
  <2>6. Acts(t) /\ call'[t] = c BY <1>2, <2>2, <2>4
  <2> QED BY <1>4, <2>3, <2>4, <2>5, <2>6 DEF Asking, Asks, Authorize, At
<1> QED BY <1>3, <1>4 DEF Request, Authorize

LEMMA SwitchGoes ==
  ASSUME ControlInv, NEW t \in Thread, Switch(t)
  PROVE  /\ Switching(t) /\ (loose => loose')
         /\ UNCHANGED <<board, vault, rows, held>>
<1> DEFINE c == [Idle EXCEPT !.pc = "select", !.op = "switch", !.run = run]
<1>1. run \in 1..MaxRun /\ Idle \in Call /\ call \in [Thread -> Call]
  BY Typed, IdleTyped DEF ControlInv
<1>2. c \in Call BY <1>1 DEF Call, PC
<1>3. /\ c.op = "switch" /\ c.pc = "select" /\ c.run = run /\ c.then = "idle"
      /\ c.todo = {}
  BY DEF Idle
<1>4. Become(t, c) BY DEF Switch
<1> HIDE DEF c
<1>5. Acts(t) /\ call'[t] = c BY <1>1, <1>2, <1>4 DEF Become, Acts
<1> QED BY <1>3, <1>5 DEF Switching, Switch, At, Asks

LEMMA AskKnows ==
  ASSUME ControlInv, CallsKnow, Grows, PendingExist, NEW t \in Thread,
         Asking(t) \/ Switching(t)
  PROVE  CallsKnow'
<1>1. CASE Switching(t)
  <2>1. Knows(call[t])'
    BY <1>1 DEF Switching, Knows, InRequest, WithLease, Asks, Revoking
  <2> QED BY <1>1, <2>1, OthersKnow DEF Switching
<1>2. CASE Asking(t)
  <2>1. call'[t].op = "authorize" => Approves(call[t])'
    <3>1. \A a \in pending : /\ a \in Approval /\ approval'[a].status # "none"
                             /\ approval'[a].exception = approval[a].exception
      BY Typed DEF ControlInv, RestTyped, PendingExist, Grows, ApprovalGrows
    <3> QED BY <1>2, <3>1 DEF Asking, Approves
  <2>2. Knows(call[t])'
    BY <1>2, <2>1 DEF Asking, Knows, InRequest, WithLease, Asks, Revoking
  <2> QED BY <1>2, <2>2, OthersKnow DEF Asking
<1> QED BY <1>1, <1>2

\* A switch works through its list.
Takes(t, l) ==
  /\ Acts(t) /\ call'[t].op = "switch" /\ call'[t].run = call[t].run
  /\ call'[t].pc = "revoke" /\ call'[t].lease = l
  /\ \/ /\ l \in call[t].todo
        /\ call'[t].then = "sweep" /\ call'[t].todo = call[t].todo \ {l}
     \/ /\ l = slot.lease /\ slot.lease # None
        /\ call'[t].then = "accessor" /\ call'[t].todo = {} /\ call[t].todo = {}
Lists(t) ==
  /\ Acts(t) /\ call'[t].op = "switch" /\ call'[t].run = call[t].run
  /\ call'[t].pc = "sweep" /\ call'[t].then = call[t].then
  /\ call'[t].todo = {l \in Lease : rows[l] = "open" /\ lease[l].run = call[t].run}

LEMMA SweepGoes ==
  ASSUME ControlInv, NEW t \in Thread
  PROVE  /\ Select(t) => Lists(t)
         /\ Sweep(t) => \/ \E l \in Lease \cup {slot.lease} : Takes(t, l)
                        \/ Going(t, "newrun") /\ call[t].todo = {}
         /\ Select(t) \/ Sweep(t) => call[t].op = "switch"
<1>1. /\ TypeOK /\ call \in [Thread -> Call] /\ slot.lease \in 0..MaxLease
      /\ Lease \subseteq 0..MaxLease
      /\ call[t].pc \in {"select", "sweep"} => call[t].op = "switch"
  BY Typed, ControlAssumption
     DEF ControlInv, CallsFit, CallFits, RestTyped, SlotRow, Lease
<1>2. ASSUME NEW c \in Call, Become(t, c) PROVE Acts(t) /\ call'[t] = c
  BY <1>1, <1>2 DEF Become, Acts
<1>3. ASSUME Select(t) PROVE Lists(t)
  <2> DEFINE S == {l \in Lease : rows[l] = "open" /\ lease[l].run = call[t].run}
             c == [call[t] EXCEPT !.pc = "sweep", !.todo = S]
  <2>0. call[t] \in Call /\ "sweep" \in PC /\ S \in SUBSET Lease BY <1>1 DEF PC
  <2>1. Become(t, c) /\ call[t].op = "switch" BY <1>1, <1>3 DEF Select, At
  <2>2. /\ c \in Call /\ c.pc = "sweep" /\ c.op = call[t].op /\ c.run = call[t].run
        /\ c.then = call[t].then /\ c.todo = S
    <3> HIDE DEF S
    <3> QED BY <2>0 DEF Call
  <2> HIDE DEF c
  <2> QED BY <1>2, <2>1, <2>2 DEF Lists
<1>4. ASSUME Sweep(t)
      PROVE  \/ \E l \in Lease \cup {slot.lease} : Takes(t, l)
             \/ Going(t, "newrun") /\ call[t].todo = {}
  <2>0. call[t].op = "switch" /\ call[t] \in Call /\ call[t].todo \subseteq Lease
    BY <1>1, <1>4 DEF Sweep, At, Call
  <2>1. ASSUME NEW l \in call[t].todo,
               Become(t, [call[t] EXCEPT !.pc = "revoke", !.lease = l,
                            !.then = "sweep", !.todo = @ \ {l}])
        PROVE  Takes(t, l) /\ l \in Lease
    <3> DEFINE c == [call[t] EXCEPT !.pc = "revoke", !.lease = l, !.then = "sweep",
                       !.todo = @ \ {l}]
    <3>0. l \in 0..MaxLease BY <1>1, <2>0
    <3>1. /\ c \in Call /\ c.pc = "revoke" /\ c.lease = l /\ c.then = "sweep"
          /\ c.todo = call[t].todo \ {l} /\ c.op = call[t].op /\ c.run = call[t].run
      BY <2>0, <3>0 DEF Call, PC, Revoking
    <3> HIDE DEF c
    <3>2. Acts(t) /\ call'[t] = c BY <1>2, <2>1, <3>1 DEF c
    <3> QED BY <2>0, <3>1, <3>2 DEF Takes
  <2>2. ASSUME call[t].todo = {}, slot.lease # None,
               Become(t, [call[t] EXCEPT !.pc = "revoke", !.lease = slot.lease,
                            !.then = "accessor"])
        PROVE  Takes(t, slot.lease)
    <3> DEFINE c == [call[t] EXCEPT !.pc = "revoke", !.lease = slot.lease,
                       !.then = "accessor"]
    <3>1. /\ c \in Call /\ c.pc = "revoke" /\ c.lease = slot.lease
          /\ c.then = "accessor" /\ c.todo = call[t].todo /\ c.op = call[t].op
          /\ c.run = call[t].run
      BY <1>1, <2>0 DEF Call, PC, Revoking
    <3> HIDE DEF c
    <3>2. Acts(t) /\ call'[t] = c BY <1>2, <2>2, <3>1 DEF c
    <3> QED BY <2>0, <2>2, <3>1, <3>2 DEF Takes
  <2>3. ASSUME Go(t, "newrun") PROVE Going(t, "newrun")
    BY <1>1, <2>3, GoGoes DEF PC
  <2>4. CASE \E l \in call[t].todo :
               Become(t, [call[t] EXCEPT !.pc = "revoke", !.lease = l,
                            !.then = "sweep", !.todo = @ \ {l}])
    BY <2>1, <2>4
  <2> QED BY <1>4, <2>2, <2>3, <2>4 DEF Sweep
<1> QED BY <1>1, <1>3, <1>4 DEF Select, Sweep, At

LEMMA SweepKnows ==
  ASSUME ControlInv, CallsKnow, Grows, SlotIsHeld, NEW t \in Thread,
         Select(t) \/ Sweep(t)
  PROVE  CallsKnow'
<1>0. /\ call[t].op = "switch" /\ (Select(t) => Lists(t)) /\ Knows(call[t])
      /\ \A l \in Lease : lease[l].status # "none" => lease'[l].status # "none"
  BY SweepGoes DEF ControlInv, CallsKnow, Grows, LeaseGrows
<1>1. CASE Select(t)
  <2>1. call[t].then = "idle" BY <1>0, <1>1 DEF Knows, Select, At
  <2>2. \A l \in call'[t].todo : Issued(l)'
    BY <1>0, <1>1 DEF Lists, Issued, ControlInv, RecordedIsIssued
  <2>3. Knows(call[t])'
    BY <1>0, <1>1, <2>1, <2>2 DEF Lists, Knows, InRequest, WithLease, Asks, Revoking
  <2> QED BY <1>0, <1>1, <2>3, OthersKnow DEF Lists
<1>2. ASSUME NEW l, Takes(t, l) PROVE CallsKnow'
  <2>1. l \in Lease /\ lease'[l].status # "none"
    BY <1>0, <1>2 DEF Takes, Knows, Issued, SlotIsHeld
  <2>2. \A k \in call[t].todo : Issued(k)'
    BY <1>0 DEF Knows, Issued
  <2>3. Knows(call[t])'
    BY <1>0, <1>2, <2>1, <2>2
       DEF Takes, Knows, Issued, InRequest, WithLease, Asks, Revoking
  <2> QED BY <1>2, <2>3, OthersKnow DEF Takes
<1>3. CASE Going(t, "newrun") /\ call[t].todo = {}
  BY <1>3, GoKnows DEF InRequest, WithLease, Revoking
<1> QED BY <1>1, <1>2, <1>3, SweepGoes

\* Every step leaves every request with what it must know.
LEMMA StepKnows ==
  ASSUME ControlInv, SlotInv, [Next]_vars
  PROVE  Grows /\ CallsKnow'
<1>0. /\ TypeOK /\ CallsKnow /\ SlotIsHeld /\ ApprovalsAreAsked /\ PendingExist
      /\ \A t \in Thread : Knows(call[t])
  BY DEF ControlInv, SlotInv, CallsKnow
<1>1. Grows BY <1>0, StepGrows
<1> USE DEF InRequest, WithLease, Revoking, Asks, At
<1>2. ASSUME NEW t \in Thread,
             Exception(t) \/ Prior(t) \/ Approve(t) \/ Bind(t) \/ Row(t)
               \/ Revoke(t) \/ Mark(t) \/ Clear(t)
      PROVE  CallsKnow'
  <2>1. CASE Exception(t)
    BY <1>0, <1>1, <2>1, HandlerGoes, IdleKnows, GoKnows DEF Exception, Knows
  <2>2. CASE Prior(t)
    BY <1>0, <1>1, <2>2, HandlerGoes, GoKnows DEF Prior, Knows
  <2>3. CASE Approve(t)
    BY <1>0, <1>1, <2>3, HandlerGoes, IdleKnows, GoKnows DEF Approve, Knows
  <2>4. CASE Bind(t)
    BY <1>0, <1>1, <2>4, HandlerGoes, GoKnows DEF Bind, Knows
  <2>5. CASE Row(t)
    <3>1. \/ Go(t, "oauthslot") /\ ByOauth(call[t].lease)
          \/ Go(t, "renew") /\ ~ByOauth(call[t].lease)
      BY <2>5 DEF Row, ByOauth
    <3>2. \/ Going(t, "oauthslot") /\ ByOauth(call[t].lease)
          \/ Going(t, "renew") /\ ~ByOauth(call[t].lease)
      BY <1>0, <3>1, GoGoes DEF PC, Installing
    <3> QED BY <1>0, <1>1, <2>5, <3>2, GoKnows DEF Row, Knows
  <2>6. CASE Revoke(t)
    <3>1. /\ call[t].then \in {"sweep", "accessor"} /\ Issued(call[t].lease)
          /\ call[t].then = "accessor" /\ call[t].op = "switch" => call[t].todo = {}
      BY <1>0, <2>6 DEF Revoke, Knows
    <3>2. CASE Going(t, call[t].then)
      BY <1>0, <1>1, <3>1, <3>2, GoKnows
    <3>3. CASE Go(t, "mark") /\ lease' = (IF ByOauth(call[t].lease) THEN lease
                       ELSE [lease EXCEPT ![call[t].lease].status = "ended"])
      <4>1. ~Live(call[t].lease)' \/ ByOauth(call[t].lease)
        <5>1. Going(t, "mark") BY <1>0, <3>3, GoGoes DEF PC
        <5>2. call'[t].lease = call[t].lease BY <5>1 DEF Going
        <5> QED BY <1>0, <3>1, <3>3, <5>2, Typed DEF Live, Issued, LeaseRow
      <4>2. Going(t, "mark") BY <1>0, <3>3, GoGoes DEF PC
      <4> QED BY <1>0, <1>1, <3>1, <4>1, <4>2, GoKnows
    <3>4. Go(t, call[t].then) => Going(t, call[t].then)
      BY <1>0, <3>1, GoGoes DEF PC
    <3> QED BY <2>6, <3>2, <3>3, <3>4 DEF Revoke, ByOauth
  <2>7. CASE Mark(t)
    <3>1. call[t].then \in {"sweep", "accessor"} /\ Issued(call[t].lease)
      BY <1>0, <2>7 DEF Mark, Knows
    <3> QED BY <1>0, <1>1, <2>7, <3>1, HandlerGoes, GoKnows
  <2>8. CASE Clear(t)
    <3>1. call[t].op = "switch" => call[t].todo = {}
      BY <1>0, <2>8 DEF Clear, Knows
    <3> QED BY <1>0, <1>1, <2>8, <3>1, HandlerGoes, IdleKnows, GoKnows
  <2> QED BY <1>2, <2>1, <2>2, <2>3, <2>4, <2>5, <2>6, <2>7, <2>8
<1>3. ASSUME NEW t \in Thread, OauthIssue(t) PROVE CallsKnow'
  <2>1. PICK l \in Lease : Issues(t, l, "oauth")
    BY <1>0, <1>3, IssuesGoes DEF OauthIssue, Via
  <2> QED BY <1>0, <1>1, <1>3, <2>1, IssuesKnows DEF OauthIssue, Knows, Via
<1>4. ASSUME NEW t \in Thread, Issue(t) PROVE CallsKnow'
  <2>1. PICK l \in Lease : Issues(t, l, "direct")
    BY <1>0, <1>4, IssuesGoes DEF Issue, Via
  <2> QED BY <1>0, <1>1, <1>4, <2>1, IssuesKnows DEF Issue, Knows, Via
<1>5. ASSUME NEW t \in Thread, Unwrap(t) PROVE CallsKnow'
  <2>1. CASE VaultIssues(t, "approved")
              /\ approval' = [approval EXCEPT ![call[t].approval].status = "unwrapped"]
    <3>1. PICK l \in Lease : Issues(t, l, "approved")
      BY <1>0, <2>1, IssuesGoes DEF Via
    <3>2. call[t].op = "authorize" /\ Approves(call[t])
      BY <1>0, <1>5 DEF Unwrap, Knows
    <3>3. /\ approval'[call[t].approval].status = "unwrapped"
          /\ approval'[call[t].approval].exception = call[t].exception
      BY <1>0, <2>1, <3>2, Typed DEF RestTyped, ApprovalRow, Approves
    <3>4. call[t].exception => Authorised(call[t].approval)'
      <4>1. SameRequest(call'[t], call[t]) BY <3>1 DEF Issues
      <4> QED BY <3>2, <3>3, <4>1 DEF Authorised, Approves, SameRequest
    <3> QED BY <1>0, <1>1, <3>1, <3>2, <3>4, IssuesKnows DEF Via
  <2>2. CASE Return(t)
    BY <1>0, <1>1, <2>2, ReturnLeaves, IdleKnows
  <2> QED BY <1>5, <2>1, <2>2 DEF Unwrap
<1>6. ASSUME NEW t \in Thread, Select(t) \/ Sweep(t) PROVE CallsKnow'
  BY <1>0, <1>1, <1>6, SweepKnows
<1>7. ASSUME NEW t \in Thread,
             Wrap(t) \/ OauthSlot(t) \/ Renewal(t) \/ Denied(t) \/ NewRun(t) \/ Fails(t)
      PROVE  CallsKnow'
  BY <1>0, <1>1, <1>7, HandlerGoes, IdleKnows
<1>8. ASSUME NEW t \in Thread, AgentStep(t) \/ OperatorStep(t) PROVE CallsKnow'
  <2>1. CASE Complete(t) \/ Deny(t)
    <3>1. UNCHANGED call \/ (\E op \in {"complete", "deny"} : Begins(t, op)) \/ Answers(t)
      BY <1>0, <2>1, CleanupGoes DEF Complete, Deny
    <3> QED BY <1>0, <1>1, <3>1, AllKnow, BeginKnows
  <2>2. CASE (\E e \in BOOLEAN : Request(t, e)) \/ (\E a \in Approval : Authorize(t, a))
              \/ Switch(t)
    BY <1>0, <1>1, <2>2, AskGoes, SwitchGoes, AskKnows
  <2> QED BY <1>8, <2>1, <2>2 DEF AgentStep, OperatorStep
<1>9. ASSUME Delegated \/ Tick \/ UNCHANGED vars PROVE CallsKnow'
  BY <1>0, <1>1, <1>9, AllKnow DEF Delegated, Tick, vars
<1>10. CallsKnow'
  BY <1>2, <1>3, <1>4, <1>5, <1>6, <1>7, <1>8, <1>9 DEF Next, Handler
<1> QED BY <1>1, <1>10

-----------------------------------------------------------------------------
(* Approvals and mandates.                                                 *)

LEMMA ApprovalsKept ==
  ASSUME ControlInv, SlotInv, Grows, [Next]_vars
  PROVE  ApprovalsAreAsked' /\ PendingExist'
<1>0. /\ approval \in [Approval -> ApprovalRow] /\ pending \subseteq Approval
      /\ \A t \in Thread : Knows(call[t])
  BY Typed DEF ControlInv, SlotInv, RestTyped, CallsKnow
<1>1. ASSUME pending' \subseteq pending PROVE PendingExist'
  BY <1>0, <1>1 DEF SlotInv, PendingExist, Grows, ApprovalGrows
<1>2. ASSUME \A a \in Approval : approval'[a].status = "none" \/ approval[a].status # "none"
      PROVE  ApprovalsAreAsked'
  BY <1>2 DEF SlotInv, ApprovalsAreAsked, Grows, ApprovalGrows
<1>3. ASSUME NEW t \in Thread, Wrap(t) PROVE ApprovalsAreAsked' /\ PendingExist'
  <2>1. PICK a \in Approval :
          /\ approval' = [approval EXCEPT ![a] = [status |-> "waiting",
               task |-> call[t].task, run |-> call[t].run,
               exception |-> call[t].exception]]
          /\ pending' = pending \cup {a}
    BY <1>3 DEF Wrap
  <2>2. call[t].task # None
    BY <1>0, <1>3 DEF Wrap, At, Knows, InRequest
  <2>3. /\ approval'[a].status = "waiting" /\ approval'[a].task # None
        /\ \A b \in Approval : b # a => approval'[b] = approval[b]
    BY <1>0, <2>1, <2>2
  <2> QED BY <1>0, <2>1, <2>3 DEF SlotInv, ApprovalsAreAsked, PendingExist
<1>4. ASSUME NEW t \in Thread, Approve(t) \/ Unwrap(t) \/ Fails(t)
      PROVE  ApprovalsAreAsked' /\ PendingExist'
  <2>1. UNCHANGED pending
    BY <1>4 DEF Approve, Unwrap, Fails, held
  <2>2. \/ UNCHANGED approval
        \/ \E st \in {"approved", "unwrapped", "spent"} :
             approval' = [approval EXCEPT ![call[t].approval].status = st]
    BY <1>4 DEF Approve, Unwrap, Fails, vault
  <2>3. \/ UNCHANGED approval
        \/ approval[call[t].approval].status # "none"
    BY <1>0, <1>4 DEF Approve, Unwrap, Fails, vault, At, Knows, Approves
  <2>4. \A a \in Approval : approval'[a].status = "none" \/ approval[a].status # "none"
    BY <1>0, <2>2, <2>3
  <2> QED BY <1>1, <1>2, <2>1, <2>4
<1>5. ASSUME UNCHANGED approval, pending' \subseteq pending
      PROVE  ApprovalsAreAsked' /\ PendingExist'
  BY <1>1, <1>2, <1>5
<1>6. ASSUME NEW t \in Thread, AgentStep(t) \/ OperatorStep(t) \/ OauthIssue(t)
               \/ Exception(t) \/ Prior(t) \/ Issue(t) \/ Bind(t) \/ Row(t)
               \/ OauthSlot(t) \/ Renewal(t) \/ Revoke(t) \/ Mark(t) \/ Clear(t)
               \/ Select(t) \/ Sweep(t) \/ NewRun(t) \/ Denied(t)
      PROVE  UNCHANGED approval /\ pending' \subseteq pending
  BY <1>6 DEF AgentStep, Request, Complete, Deny, OperatorStep, Switch, Authorize,
     OauthIssue, Exception, Prior, Issue, Bind, Row, OauthSlot, Renewal, Revoke, Mark,
     Clear, Select, Sweep, NewRun, Denied, vault, held
<1>7. ASSUME Delegated \/ Tick \/ UNCHANGED vars
      PROVE  UNCHANGED approval /\ pending' \subseteq pending
  BY <1>7 DEF Delegated, Tick, vars, vault, held
<1> QED BY <1>3, <1>4, <1>5, <1>6, <1>7 DEF Next, Handler

LEMMA MandatesKept ==
  ASSUME SlotInv, Grows
  PROVE  ExceptionsAuthorised'
<1>1. ASSUME NEW l \in Lease, lease'[l].status # "none",
             "exception" \in lease'[l].mandate
      PROVE  /\ Authorised(lease[l].approval)
             /\ lease'[l].approval = lease[l].approval
  <2>1. LeaseGrows(l) BY DEF Grows
  <2>2. lease[l].status # "none" BY <1>1, <2>1 DEF LeaseGrows
  <2> QED BY <1>1, <2>1, <2>2 DEF LeaseGrows, SlotInv, ExceptionsAuthorised, Issued
<1>2. ASSUME NEW a, Authorised(a)
      PROVE  /\ a \in Approval /\ approval'[a].exception
             /\ approval'[a].status \in {"unwrapped", "spent"}
  <2>1. ApprovalGrows(a) BY <1>2 DEF Grows, Authorised
  <2> QED BY <1>2, <2>1 DEF ApprovalGrows, Authorised
<1>3. ASSUME NEW l \in Lease, lease'[l].status # "none",
             "exception" \in lease'[l].mandate
      PROVE  LET a == lease'[l].approval IN
             /\ a \in Approval /\ approval'[a].exception
             /\ approval'[a].status \in {"unwrapped", "spent"}
  BY <1>1, <1>2, <1>3
<1> QED BY <1>3 DEF ExceptionsAuthorised, Issued, Authorised

-----------------------------------------------------------------------------
(* The slot.                                                               *)

\* Everybody else leaves the slot and the renewal alone.
Touches(t) == Bind(t) \/ OauthSlot(t) \/ Renewal(t) \/ Clear(t) \/ NewRun(t) \/ Fails(t)

LEMMA SlotRests ==
  ASSUME [Next]_vars
  PROVE  UNCHANGED <<slot, timer>> \/ Tick \/ \E t \in Thread : Touches(t)
<1>1. ASSUME NEW t \in Thread, AgentStep(t) \/ OperatorStep(t) \/ OauthIssue(t)
               \/ Exception(t) \/ Prior(t) \/ Wrap(t) \/ Issue(t) \/ Row(t)
               \/ Approve(t) \/ Unwrap(t) \/ Revoke(t) \/ Mark(t)
               \/ Select(t) \/ Sweep(t) \/ Denied(t)
      PROVE  UNCHANGED <<slot, timer>>
  BY <1>1 DEF AgentStep, Request, Complete, Deny, OperatorStep, Switch, Authorize,
     OauthIssue, Exception, Prior, Wrap, Issue, Row, Approve, Unwrap, Revoke, Mark,
     Select, Sweep, Denied, held
<1>2. ASSUME Delegated \/ UNCHANGED vars PROVE UNCHANGED <<slot, timer>>
  BY <1>2 DEF Delegated, vars, held
<1> QED BY <1>1, <1>2 DEF Next, Handler, Touches

LEMMA SlotHeldOn ==
  ASSUME SlotInv, Grows,
         slot'.lease = None \/ (slot'.lease = slot.lease /\ slot'.task = slot.task)
  PROVE  SlotIsHeld'
<1> SUFFICES ASSUME slot'.lease # None
             PROVE  /\ slot'.lease \in Lease /\ lease'[slot'.lease].status # "none"
                    /\ slot'.task # None
                    /\ Profile = "good" /\ lease'[slot'.lease].via # "oauth" =>
                         "standard" \in lease'[slot'.lease].mandate
  BY DEF SlotIsHeld, Issued, ByOauth
<1>1. /\ slot.lease \in Lease /\ lease[slot.lease].status # "none"
      /\ slot.task # None /\ slot'.lease = slot.lease /\ slot'.task = slot.task
      /\ Profile = "good" /\ lease[slot.lease].via # "oauth" =>
           "standard" \in lease[slot.lease].mandate
  BY DEF SlotInv, SlotIsHeld, Issued, ByOauth
<1>2. LeaseGrows(slot.lease) BY <1>1 DEF Grows
<1> QED BY <1>1, <1>2 DEF LeaseGrows

\* What the request that installs a lease knows of it.
LEMMA InstallHolds ==
  ASSUME ControlInv, SlotInv, Grows, NEW t \in Thread, Bind(t) \/ OauthSlot(t)
  PROVE  /\ SlotIsHeld' /\ slot'.lease = call[t].lease /\ slot'.task = call[t].task
         /\ slot'.late = (call[t].task # task)
         /\ slot'.raced = \E u \in Thread \ {t} : call[u].pc \in Installing
         /\ Issued(call[t].lease)
<1>1. Knows(call[t]) BY DEF SlotInv, CallsKnow
<1>2. /\ slot'.lease = call[t].lease /\ slot'.task = call[t].task
      /\ slot'.late = (call[t].task # task)
      /\ slot'.raced = \E u \in Thread \ {t} : call[u].pc \in Installing
  <2>1. Install(t) BY DEF Bind, OauthSlot
  <2> QED BY <2>1 DEF Install
<1>3. Issued(call[t].lease) /\ call[t].task # None
  BY <1>1 DEF Bind, OauthSlot, At, Knows, InRequest, WithLease
<1>4. LeaseGrows(call[t].lease) BY <1>3 DEF Grows, Issued
<1>5. \/ lease'[call[t].lease].via = "oauth"
      \/ Profile = "good" => "standard" \in lease'[call[t].lease].mandate
  <2>1. CASE Bind(t) BY <2>1, BindGrows DEF SlotInv
  <2>2. CASE OauthSlot(t)
    <3>1. lease[call[t].lease].via = "oauth"
      BY <1>1, <2>2 DEF OauthSlot, At, Knows, ByOauth
    <3> QED BY <1>3, <1>4, <3>1 DEF LeaseGrows, Issued
  <2> QED BY <2>1, <2>2
<1>6. SlotIsHeld'
  BY <1>2, <1>3, <1>4, <1>5 DEF SlotIsHeld, Issued, ByOauth, LeaseGrows
<1> QED BY <1>2, <1>3, <1>6

LEMMA SlotHeldKept ==
  ASSUME ControlInv, SlotInv, Grows, [Next]_vars
  PROVE  SlotIsHeld'
<1>1. CASE UNCHANGED <<slot, timer>> BY <1>1, SlotHeldOn
<1>2. CASE Tick
  BY <1>2, SlotHeldOn DEF Tick, NoSlot
<1>3. ASSUME NEW t \in Thread, Touches(t) PROVE SlotIsHeld'
  <2>1. CASE Bind(t) \/ OauthSlot(t) BY <2>1, InstallHolds
  <2>2. CASE Renewal(t) BY <2>2, SlotHeldOn DEF Renewal
  <2>3. CASE Clear(t) \/ NewRun(t) BY <2>3, SlotHeldOn DEF Clear, NewRun, NoSlot
  <2>4. CASE Fails(t)
    <3>1. slot' = slot \/ slot' = [slot EXCEPT !.raced = TRUE] BY <2>4 DEF Fails
    <3>2. slot'.lease = slot.lease /\ slot'.task = slot.task
      BY <3>1, Typed DEF ControlInv, RestTyped, SlotRow
    <3> QED BY <3>2, SlotHeldOn
  <2> QED BY <1>3, <2>1, <2>2, <2>3, <2>4 DEF Touches
<1> QED BY <1>1, <1>2, <1>3, SlotRests

\* The requests that will see to a renewal are the same ones after the step.
RenewersStay ==
  \A u \in Thread : /\ WillRenew(u)' <=> WillRenew(u)
                    /\ WillRenew(u) => call'[u].lease = call[u].lease

LEMMA OthersRenew ==
  ASSUME CallsKnow, Grows, NEW u \in Thread, call'[u] = call[u]
  PROVE  WillRenew(u)' <=> WillRenew(u)
<1>1. call[u].pc \in Installing => Issued(call[u].lease)
  BY DEF CallsKnow, Knows, WithLease, Installing
<1>2. ASSUME call[u].pc \in Installing
      PROVE  lease'[call[u].lease].via = lease[call[u].lease].via
  <2>1. Issued(call[u].lease) BY <1>1, <1>2
  <2>2. LeaseGrows(call[u].lease) BY <2>1 DEF Grows, Issued
  <2> QED BY <2>1, <2>2 DEF LeaseGrows, Issued
<1> QED BY <1>2 DEF WillRenew, ByOauth

LEMMA RenewersStayOn ==
  ASSUME CallsKnow, Grows, NEW t \in Thread, Acts(t),
         WillRenew(t)' <=> WillRenew(t),
         WillRenew(t) => call'[t].lease = call[t].lease
  PROVE  RenewersStay
<1>1. ASSUME NEW u \in Thread, u # t
      PROVE  (WillRenew(u)' <=> WillRenew(u)) /\ call'[u] = call[u]
  BY <1>1, OthersRenew DEF Acts
<1> QED BY <1>1 DEF RenewersStay

\* Whoever is elsewhere before and after has nothing to do with it.
LEMMA ElsewhereStays ==
  ASSUME CallsKnow, Grows, NEW t \in Thread, Acts(t),
         call[t].pc \notin Installing, call'[t].pc \notin Installing
  PROVE  RenewersStay
BY RenewersStayOn DEF WillRenew

LEMMA ServedOn ==
  ASSUME SlotInv, Grows, UNCHANGED <<slot, timer>>, RenewersStay
  PROVE  SlotIsServed'
<1>1. ASSUME slot.lease # None
      PROVE  lease'[slot.lease].via = lease[slot.lease].via
  <2>1. Issued(slot.lease) BY <1>1 DEF SlotInv, SlotIsHeld
  <2>2. LeaseGrows(slot.lease) BY <2>1 DEF Grows, Issued
  <2> QED BY <2>1, <2>2 DEF LeaseGrows, Issued
<1> SUFFICES ASSUME slot.lease # None, ~ByOauth(slot.lease), ~slot.raced
             PROVE  /\ \/ timer = slot.lease
                       \/ \E t \in Thread : WillRenew(t)' /\ call'[t].lease = slot.lease
                    /\ \A t \in Thread : WillRenew(t)' => call'[t].lease = slot.lease
  BY <1>1 DEF SlotIsServed, ByOauth, WillRenew
<1>2. /\ \/ timer = slot.lease
         \/ \E t \in Thread : WillRenew(t) /\ call[t].lease = slot.lease
      /\ \A t \in Thread : WillRenew(t) => call[t].lease = slot.lease
  BY DEF SlotInv, SlotIsServed
<1> QED BY <1>2 DEF RenewersStay

LEMMA RestingStays ==
  ASSUME ControlInv, SlotInv, Grows, [Next]_vars,
         ~\E t \in Thread : Touches(t), ~Tick
  PROVE  RenewersStay
<1>0. /\ TypeOK /\ CallsKnow /\ ApprovalsAreAsked /\ PendingExist
      /\ {"idle", "decide", "wrap", "issue", "bind", "oauthslot", "approve", "unwrap",
          "select", "sweep", "newrun", "denied", "revoke", "mark", "accessor"}
           \cap Installing = {}
  BY DEF ControlInv, SlotInv, Installing
<1>1. ASSUME NEW t \in Thread,
             Exception(t) \/ Prior(t) \/ Approve(t) \/ Wrap(t) \/ Denied(t)
      PROVE  RenewersStay
  <2>1. /\ Acts(t)
        /\ call[t].pc \in {"decide", "approve", "wrap", "denied"}
        /\ call'[t].pc \in {"wrap", "issue", "unwrap", "idle"}
    BY <1>1, HandlerGoes
       DEF Exception, Prior, Approve, Wrap, Denied, At, Going, Leaving, Idle
  <2> QED BY <1>0, <2>1, ElsewhereStays
<1>2. ASSUME NEW t \in Thread, Revoke(t) \/ Mark(t)
      PROVE  RenewersStay
  <2>1. call[t].pc \in Revoking /\ call[t].then \in {"sweep", "accessor"}
    BY <1>0, <1>2 DEF Revoke, Mark, At, CallsKnow, Knows, Revoking
  <2>2. Acts(t) /\ call'[t].pc \in {"mark", "sweep", "accessor"}
    BY <1>2, <2>1, HandlerGoes DEF Going
  <2> QED BY <1>0, <2>1, <2>2, ElsewhereStays DEF Revoking
<1>3. ASSUME NEW t \in Thread, Select(t) \/ Sweep(t)
      PROVE  RenewersStay
  <2>1. call[t].pc \in {"select", "sweep"} BY <1>3 DEF Select, Sweep, At
  <2>2. Acts(t) /\ call'[t].pc \in {"sweep", "revoke", "newrun"}
    BY <1>3, SweepGoes DEF Lists, Takes, Going
  <2> QED BY <1>0, <2>1, <2>2, ElsewhereStays
<1>4. ASSUME NEW t \in Thread, Issue(t) \/ Unwrap(t)
      PROVE  RenewersStay
  <2>1. call[t].pc \in {"issue", "unwrap"} BY <1>4 DEF Issue, Unwrap, At
  <2>2. CASE \E via \in {"direct", "approved"} : VaultIssues(t, via)
    <3>1. PICK via \in {"direct", "approved"}, l \in Lease : Issues(t, l, via)
      BY <1>0, <2>2, IssuesGoes DEF Via
    <3> QED BY <1>0, <2>1, <3>1, ElsewhereStays DEF Issues
  <2>3. CASE Return(t)
    BY <1>0, <2>1, <2>3, ReturnLeaves, ElsewhereStays DEF Leaving, Idle
  <2> QED BY <1>4, <2>2, <2>3 DEF Issue, Unwrap
<1>5. ASSUME NEW t \in Thread, OauthIssue(t)
      PROVE  RenewersStay
  <2>1. PICK l \in Lease : Issues(t, l, "oauth")
    BY <1>0, <1>5, IssuesGoes DEF OauthIssue, Via
  <2>2. ~WillRenew(t) BY <1>0, <1>5 DEF OauthIssue, At, WillRenew
  <2>3. ~WillRenew(t)' BY <2>1 DEF Issues, WillRenew, ByOauth
  <2> QED BY <1>0, <2>1, <2>2, <2>3, RenewersStayOn DEF Issues
<1>6. ASSUME NEW t \in Thread, Row(t)
      PROVE  RenewersStay
  <2>1. /\ call[t].pc = "row" /\ UNCHANGED lease
        /\ \/ Go(t, "oauthslot") /\ ByOauth(call[t].lease)
           \/ Go(t, "renew") /\ ~ByOauth(call[t].lease)
    BY <1>6 DEF Row, At, vault, ByOauth
  <2>2. \/ Going(t, "oauthslot") /\ ByOauth(call[t].lease)
        \/ Going(t, "renew") /\ ~ByOauth(call[t].lease)
    BY <1>0, <2>1, GoGoes DEF PC, Installing
  <2>3. /\ Acts(t) /\ call'[t].lease = call[t].lease
        /\ WillRenew(t)' <=> WillRenew(t)
    BY <2>1, <2>2 DEF Going, WillRenew, Installing, ByOauth
  <2> QED BY <1>0, <2>3, RenewersStayOn
<1>7. ASSUME NEW t \in Thread, AgentStep(t) \/ OperatorStep(t)
      PROVE  RenewersStay
  <2>1. call[t].pc = "idle"
    BY <1>7 DEF AgentStep, OperatorStep, Request, Complete, Deny, Switch, Authorize, At
  <2>2. CASE UNCHANGED call
    <3>1. Acts(t) BY <1>0, <2>2, Typed DEF Acts
    <3> QED BY <1>0, <2>1, <2>2, <3>1, ElsewhereStays
  <2>3. CASE (\E op : Begins(t, op)) \/ Answers(t) \/ Asking(t) \/ Switching(t)
    BY <1>0, <2>1, <2>3, ElsewhereStays DEF Begins, Answers, Asking, Switching
  <2>4. CASE Complete(t) \/ Deny(t)
    BY <1>0, <2>2, <2>3, <2>4, CleanupGoes DEF Complete, Deny
  <2> QED BY <1>0, <1>7, <2>3, <2>4, AskGoes, SwitchGoes DEF AgentStep, OperatorStep
<1>8. ASSUME UNCHANGED call PROVE RenewersStay
  BY <1>0, <1>8, OthersRenew DEF RenewersStay
<1>9. CASE Delegated \/ UNCHANGED vars BY <1>8, <1>9 DEF Delegated, vars
<1> QED BY <1>1, <1>2, <1>3, <1>4, <1>5, <1>6, <1>7, <1>9 DEF Next, Handler, Touches

LEMMA ServedKept ==
  ASSUME ControlInv, SlotInv, Grows, [Next]_vars
  PROVE  SlotIsServed'
<1>0. /\ TypeOK /\ CallsKnow /\ SlotIsServed /\ SlotIsHeld
      /\ \A t \in Thread : Knows(call[t])
      /\ slot \in SlotRow /\ timer \in 0..MaxLease
      /\ call \in [Thread -> Call] /\ lease \in [Lease -> LeaseRow]
  BY Typed DEF ControlInv, SlotInv, RestTyped, CallsKnow
<1>1. CASE UNCHANGED <<slot, timer>> /\ RenewersStay
  BY <1>1, ServedOn
<1>2. CASE slot' = NoSlot
  BY <1>2 DEF SlotIsServed, NoSlot
<1>3. CASE Tick
  <2>1. CASE Held(timer) BY <1>2, <1>3, <2>1 DEF Tick
  <2>2. CASE ~Held(timer)
    <3>1. UNCHANGED <<slot, lease, call>> /\ slot.lease # timer
      BY <1>3, <2>2 DEF Tick, Held
    <3> QED BY <1>0, <3>1 DEF SlotIsServed, WillRenew, ByOauth
  <2> QED BY <2>1, <2>2
<1>4. ASSUME NEW t \in Thread, Bind(t) PROVE SlotIsServed'
  <2>1. /\ slot'.lease = call[t].lease
        /\ slot'.raced = \E u \in Thread \ {t} : call[u].pc \in Installing
    BY <1>4, InstallHolds
  <2>2. Going(t, "row") BY <1>4, HandlerGoes
  <2>3. \A u \in Thread \ {t} : call'[u] = call[u] BY <2>2 DEF Going, Acts
  <2>4. call'[t].lease = call[t].lease /\ call'[t].pc \in Installing
    BY <2>2 DEF Going, Installing
  <2>5. ASSUME lease'[slot'.lease].via # "oauth"
        PROVE  WillRenew(t)'
    BY <2>1, <2>4, <2>5 DEF WillRenew, ByOauth
  <2>6. ASSUME ~slot'.raced, NEW u \in Thread, WillRenew(u)'
        PROVE  u = t
    BY <2>1, <2>3, <2>6 DEF WillRenew
  <2> QED BY <2>1, <2>4, <2>5, <2>6 DEF SlotIsServed, ByOauth
<1>5. ASSUME NEW t \in Thread, OauthSlot(t) PROVE SlotIsServed'
  <2>1. slot'.lease = call[t].lease BY <1>5, InstallHolds
  <2>2. ByOauth(call[t].lease) BY <1>0, <1>5 DEF OauthSlot, At, Knows
  <2>3. UNCHANGED lease BY <1>5 DEF OauthSlot, vault
  <2> QED BY <2>1, <2>2, <2>3 DEF SlotIsServed, ByOauth
<1>6. ASSUME NEW t \in Thread, Renewal(t) PROVE SlotIsServed'
  <2>1. /\ call[t].pc = "renew" /\ timer' = call[t].lease
        /\ UNCHANGED <<slot, lease>> /\ Leaving(t)
    BY <1>6, HandlerGoes DEF Renewal, At, vault
  <2>2. WillRenew(t)
    BY <1>0, <2>1 DEF Knows, WillRenew, Installing
  <2>3. \A u \in Thread : WillRenew(u)' => u # t /\ call'[u] = call[u]
    BY <2>1 DEF Leaving, Acts, Idle, WillRenew, Installing
  <2>4. \A u \in Thread : WillRenew(u)' => WillRenew(u) /\ call'[u].lease = call[u].lease
    BY <2>1, <2>3 DEF WillRenew, ByOauth
  <2> QED BY <1>0, <2>1, <2>2, <2>4 DEF SlotIsServed, ByOauth
<1>7. ASSUME NEW t \in Thread, Fails(t) PROVE SlotIsServed'
  <2>1. /\ call[t].pc \in MayFail /\ Leaving(t) /\ UNCHANGED <<timer, lease>>
        /\ slot' = IF call[t].pc = "row" /\ Held(call[t].lease)
                     THEN [slot EXCEPT !.raced = TRUE] ELSE slot
    BY <1>7, HandlerGoes DEF Fails
  <2>2. CASE call[t].pc = "row" /\ Held(call[t].lease)
    <3>1. slot'.raced BY <1>0, <2>1, <2>2 DEF SlotRow
    <3> QED BY <3>1 DEF SlotIsServed
  <2>3. CASE ~(call[t].pc = "row" /\ Held(call[t].lease))
    <3>1. slot' = slot BY <2>1, <2>3
    <3>2. SUFFICES ASSUME slot.lease # None, ~ByOauth(slot.lease), ~slot.raced
                   PROVE  /\ \/ timer = slot.lease
                             \/ \E u \in Thread : WillRenew(u)' /\ call'[u].lease = slot.lease
                          /\ \A u \in Thread : WillRenew(u)' => call'[u].lease = slot.lease
      BY <2>1, <3>1 DEF SlotIsServed, ByOauth, WillRenew
    <3>3. /\ \/ timer = slot.lease
             \/ \E u \in Thread : WillRenew(u) /\ call[u].lease = slot.lease
          /\ \A u \in Thread : WillRenew(u) => call[u].lease = slot.lease
      BY <1>0, <3>2 DEF SlotIsServed
    <3>4. ~WillRenew(t)
      BY <2>1, <2>3, <3>3 DEF WillRenew, Installing, MayFail, Held
    <3>5. call'[t].pc \notin Installing BY <2>1 DEF Leaving, Idle, Installing
    <3>6. \A u \in Thread : WillRenew(u)' <=> WillRenew(u) /\ u # t
      BY <2>1, <3>4, <3>5 DEF Leaving, Acts, WillRenew, ByOauth
    <3>7. \A u \in Thread : u # t => call'[u] = call[u]
      BY <2>1 DEF Leaving, Acts
    <3> QED BY <3>3, <3>4, <3>6, <3>7
  <2> QED BY <2>2, <2>3
<1>8. ASSUME NEW t \in Thread, Clear(t) \/ NewRun(t) PROVE SlotIsServed'
  BY <1>2, <1>8 DEF Clear, NewRun
<1>9. CASE ~(\E t \in Thread : Touches(t)) /\ ~Tick
  BY <1>1, <1>9, SlotRests, RestingStays
<1> QED BY <1>3, <1>4, <1>5, <1>6, <1>7, <1>8, <1>9 DEF Touches

-----------------------------------------------------------------------------
(* The end of a task.                                                      *)

LEMMA EndedOn ==
  ASSUME SlotInv, UNCHANGED task,
         slot'.lease = slot.lease, slot'.task = slot.task, slot'.late = slot.late,
         \A u \in Thread : WillEmpty(u) => WillEmpty(u)'
  PROVE  EndedIsRevoked'
BY DEF SlotInv, EndedIsRevoked

\* Only the one that acts could forget to empty the slot.
LEMMA EmptiersStay ==
  ASSUME NEW t \in Thread, Acts(t), WillEmpty(t) => WillEmpty(t)'
  PROVE  \A u \in Thread : WillEmpty(u) => WillEmpty(u)'
BY DEF Acts, WillEmpty

LEMMA BusyStays ==
  ASSUME NEW t \in Thread, Acts(t), call[t].pc \notin Revoking
  PROVE  \A u \in Thread : WillEmpty(u) => WillEmpty(u)'
BY EmptiersStay DEF WillEmpty

LEMMA EndedKept ==
  ASSUME ControlInv, SlotInv, Grows, [Next]_vars
  PROVE  EndedIsRevoked'
<1>0. /\ TypeOK /\ CallsKnow /\ EndedIsRevoked /\ SlotIsHeld
      /\ ApprovalsAreAsked /\ PendingExist
      /\ \A t \in Thread : Knows(call[t])
      /\ slot \in SlotRow /\ task \in 0..MaxTask /\ tasks \in 0..MaxTask
      /\ call \in [Thread -> Call]
  BY Typed DEF ControlInv, SlotInv, RestTyped, CallsKnow
<1>1. CASE slot' = NoSlot
  BY <1>1 DEF EndedIsRevoked, NoSlot
<1>2. ASSUME NEW t \in Thread, Bind(t) \/ OauthSlot(t) PROVE EndedIsRevoked'
  <2>1. slot'.task = call[t].task /\ slot'.late = (call[t].task # task)
    BY <1>2, InstallHolds
  <2>2. UNCHANGED task BY <1>2 DEF Bind, OauthSlot, board
  <2> QED BY <2>1, <2>2 DEF EndedIsRevoked
<1>3. ASSUME NEW t \in Thread, Clear(t) \/ NewRun(t) PROVE EndedIsRevoked'
  BY <1>1, <1>3 DEF Clear, NewRun
<1>4. ASSUME Tick PROVE EndedIsRevoked'
  <2>1. CASE slot' = NoSlot BY <1>1, <2>1
  <2>2. CASE UNCHANGED slot
    <3>1. UNCHANGED <<task, call>> BY <1>4 DEF Tick, board
    <3> QED BY <1>0, <2>2, <3>1 DEF EndedIsRevoked, WillEmpty
  <2> QED BY <1>4, <2>1, <2>2 DEF Tick
<1>5. ASSUME NEW t \in Thread, Fails(t) PROVE EndedIsRevoked'
  <2>1. /\ Leaving(t) /\ UNCHANGED task /\ call[t].pc \notin Revoking
        /\ slot' = slot \/ slot' = [slot EXCEPT !.raced = TRUE]
    BY <1>5, HandlerGoes DEF Fails, board, MayFail, Revoking
  <2>2. slot'.lease = slot.lease /\ slot'.task = slot.task /\ slot'.late = slot.late
    BY <1>0, <2>1 DEF SlotRow
  <2> QED BY <2>1, <2>2, BusyStays, EndedOn DEF Leaving
<1>6. ASSUME NEW t \in Thread, Revoke(t) \/ Mark(t) PROVE EndedIsRevoked'
  <2>1. call[t].then \in {"sweep", "accessor"}
    BY <1>0, <1>6 DEF Revoke, Mark, At, Knows, Revoking
  <2>2. Going(t, "mark") \/ Going(t, call[t].then) BY <1>6, HandlerGoes
  <2>3. Acts(t) /\ (WillEmpty(t) => WillEmpty(t)')
    BY <2>1, <2>2 DEF Going, SameRequest, WillEmpty, Revoking
  <2>4. UNCHANGED <<task, slot>> BY <1>6 DEF Revoke, Mark, board, held
  <2> QED BY <2>3, <2>4, EmptiersStay, EndedOn
<1>7. ASSUME NEW t \in Thread,
             Exception(t) \/ Prior(t) \/ Wrap(t) \/ Row(t) \/ Renewal(t)
               \/ Approve(t) \/ Denied(t)
      PROVE  EndedIsRevoked'
  <2>1. Acts(t) BY <1>7, HandlerGoes DEF Going, Leaving
  <2>2. call[t].pc \notin Revoking
    BY <1>7 DEF Exception, Prior, Wrap, Row, Renewal, Approve, Denied, At, Revoking
  <2>3. UNCHANGED <<task, slot>>
    BY <1>7 DEF Exception, Prior, Wrap, Row, Renewal, Approve, Denied, board, held
  <2> QED BY <2>1, <2>2, <2>3, BusyStays, EndedOn
<1>8. ASSUME NEW t \in Thread, OauthIssue(t) \/ Issue(t) \/ Unwrap(t)
      PROVE  EndedIsRevoked'
  <2>1. Acts(t)
    <3>1. CASE \E via \in Via : VaultIssues(t, via)
      BY <1>0, <3>1, IssuesGoes DEF Issues
    <3>2. CASE Return(t) BY <1>0, <3>2, ReturnLeaves DEF Leaving
    <3> QED BY <1>8, <3>1, <3>2 DEF OauthIssue, Issue, Unwrap, Via
  <2>2. call[t].pc \notin Revoking BY <1>8 DEF OauthIssue, Issue, Unwrap, At, Revoking
  <2>3. UNCHANGED <<task, slot>> BY <1>8 DEF OauthIssue, Issue, Unwrap, board, held
  <2> QED BY <2>1, <2>2, <2>3, BusyStays, EndedOn
<1>9. ASSUME NEW t \in Thread, Select(t) \/ Sweep(t) PROVE EndedIsRevoked'
  <2>1. Acts(t) BY <1>9, SweepGoes DEF Lists, Takes, Going
  <2>2. call[t].pc \notin Revoking BY <1>9 DEF Select, Sweep, At, Revoking
  <2>3. UNCHANGED <<task, slot>> BY <1>9 DEF Select, Sweep, board, held
  <2> QED BY <2>1, <2>2, <2>3, BusyStays, EndedOn
<1>10. ASSUME NEW t \in Thread, OperatorStep(t) \/ \E e \in BOOLEAN : Request(t, e)
       PROVE  EndedIsRevoked'
  <2>1. Acts(t)
    BY <1>0, <1>10, AskGoes, SwitchGoes DEF OperatorStep, Asking, Switching
  <2>2. call[t].pc \notin Revoking
    BY <1>10 DEF OperatorStep, Request, Switch, Authorize, At, Revoking
  <2>3. UNCHANGED <<task, slot>>
    BY <1>10 DEF OperatorStep, Request, Switch, Authorize, board, held
  <2> QED BY <2>1, <2>2, <2>3, BusyStays, EndedOn
<1>11. ASSUME NEW t \in Thread, Deny(t) PROVE EndedIsRevoked'
  <2>1. (\E op : Begins(t, op)) \/ UNCHANGED call \/ Answers(t)
    BY <1>0, <1>11, CleanupGoes DEF Deny
  <2>2. call[t].pc \notin Revoking BY <1>11 DEF Deny, At, Revoking
  <2>3. UNCHANGED <<task, slot>> BY <1>11 DEF Deny, board, held
  <2>4. Acts(t) BY <1>0, <2>1 DEF Begins, Answers, Acts
  <2> QED BY <2>2, <2>3, <2>4, BusyStays, EndedOn
\* The completion of the task the slot belongs to begins to empty it.
<1>12. ASSUME NEW t \in Thread, Complete(t) PROVE EndedIsRevoked'
  <2>1. UNCHANGED slot BY <1>12 DEF Complete, held
  <2>2. \/ Begins(t, "complete")
        \/ UNCHANGED call /\ ~(slot.lease # None /\ slot.task \in {None, task})
    BY <1>0, <1>12, CleanupGoes DEF Complete
  <2>3. CASE Begins(t, "complete")
    <3>1. WillEmpty(t)' BY <2>3 DEF Begins, WillEmpty, Revoking
    <3> QED BY <3>1 DEF EndedIsRevoked
  <2>4. CASE UNCHANGED call /\ ~(slot.lease # None /\ slot.task \in {None, task})
    BY <1>0, <2>1, <2>4 DEF EndedIsRevoked, WillEmpty
  <2> QED BY <2>2, <2>3, <2>4
\* The next task is another one than the slot's, which was over before.
<1>13. ASSUME Delegated PROVE EndedIsRevoked'
  BY <1>0, <1>13 DEF Delegated, held, EndedIsRevoked, SlotIsHeld, WillEmpty
<1>14. ASSUME UNCHANGED vars PROVE EndedIsRevoked'
  BY <1>0, <1>14 DEF vars, board, held, EndedIsRevoked, WillEmpty
<1> QED BY <1>2, <1>3, <1>4, <1>5, <1>6, <1>7, <1>8, <1>9, <1>10, <1>11, <1>12, <1>13,
        <1>14 DEF Next, Handler, AgentStep

-----------------------------------------------------------------------------
(* The end of a run.                                                       *)

\* A lease that opens the database did so before, or Vault has just answered
\* a request with it.
LEMMA NewIsAnswered ==
  ASSUME ControlInv, SlotInv, [Next]_vars, NEW l \in Lease,
         lease[l].status = "none", lease'[l].status # "none"
  PROVE  \E t \in Thread, via \in Via :
           Issues(t, l, via) /\ call[t].op \in Asks /\ UNCHANGED <<run, rows, pending>>
<1>0. /\ TypeOK /\ CallsKnow /\ SlotIsHeld /\ lease \in [Lease -> LeaseRow]
      /\ \A t \in Thread : Knows(call[t])
  BY Typed DEF ControlInv, SlotInv, CallsKnow
<1>1. ASSUME NEW k, MayEnd(k), k \in Lease => lease[k].status # "none" PROVE FALSE
  <2>1. k # l => lease'[l] = lease[l] BY <1>0, <1>1 DEF MayEnd
  <2> QED BY <1>1, <2>1
<1>2. ASSUME NEW t \in Thread, Revoke(t) \/ Clear(t) PROVE FALSE
  <2>1. MayEnd(call[t].lease) BY <1>2 DEF Revoke, Clear, MayEnd
  <2>2. lease[call[t].lease].status # "none"
    BY <1>0, <1>2 DEF Revoke, Clear, At, Knows, WithLease, Revoking, Issued
  <2> QED BY <1>1, <2>1, <2>2
<1>3. ASSUME Tick PROVE FALSE
  <2>1. CASE UNCHANGED lease BY <2>1
  <2>2. CASE Held(timer) /\ lease' = [lease EXCEPT ![timer].status = "ended"]
    BY <1>0, <1>1, <1>3, <2>2 DEF Tick, Held, SlotIsHeld, Issued, MayEnd
  <2> QED BY <1>3, <2>1, <2>2 DEF Tick
<1>4. ASSUME NEW t \in Thread, Bind(t) PROVE FALSE
  BY <1>0, <1>4, BindGrows
<1>5. ASSUME NEW t \in Thread, AgentStep(t) \/ OperatorStep(t) \/ Exception(t)
               \/ Prior(t) \/ Wrap(t) \/ Row(t) \/ OauthSlot(t) \/ Renewal(t)
               \/ Approve(t) \/ Mark(t) \/ Select(t) \/ Sweep(t) \/ NewRun(t)
               \/ Denied(t) \/ Fails(t)
      PROVE  UNCHANGED lease
  BY <1>5 DEF AgentStep, Request, Complete, Deny, OperatorStep, Switch, Authorize,
     Exception, Prior, Wrap, Row, OauthSlot, Renewal, Approve, Mark, Select, Sweep,
     NewRun, Denied, Fails, vault
<1>6. ASSUME Delegated \/ UNCHANGED vars PROVE UNCHANGED lease
  BY <1>6 DEF Delegated, vars, vault
<1>7. PICK t \in Thread : OauthIssue(t) \/ Issue(t) \/ Unwrap(t)
  BY <1>2, <1>3, <1>4, <1>5, <1>6 DEF Next, Handler
<1>8. call[t].op \in Asks /\ UNCHANGED <<run, rows, pending>>
  BY <1>0, <1>7 DEF OauthIssue, Issue, Unwrap, At, Knows, InRequest, board, held
<1>9. \E via \in Via : VaultIssues(t, via)
  BY <1>7 DEF OauthIssue, Issue, Unwrap, Via, vault
<1>10. PICK via \in Via, k \in Lease : Issues(t, k, via)
  BY <1>0, <1>9, IssuesGoes
<1>11. k = l BY <1>10 DEF Issues
<1> QED BY <1>8, <1>10, <1>11

LEMMA OpenBefore ==
  ASSUME Grows, NEW l \in Lease, lease[l].status # "none",
         lease'[l].status = "live", lease'[l].via # "oauth"
  PROVE  Opens(l) /\ lease'[l].run = lease[l].run
<1>1. LeaseGrows(l) BY DEF Grows
<1> QED BY <1>1 DEF LeaseGrows, Opens, Live, ByOauth

\* Nobody becomes a request or a switch, or moves to another run, by going on.
Fades(t) ==
  /\ call'[t].op \in Asks => call[t].op \in Asks /\ call'[t].run = call[t].run
  /\ call'[t].op = "switch" => call[t].op = "switch" /\ call'[t].run = call[t].run
OpsFade == \A u \in Thread : Fades(u)

LEMMA FadesOn ==
  ASSUME NEW t \in Thread, Acts(t), Fades(t)
  PROVE  OpsFade
BY DEF Acts, Fades, OpsFade

LEMMA StepFades ==
  ASSUME ControlInv, SlotInv, [Next]_vars
  PROVE  OpsFade \/ \E t \in Thread : Asking(t) \/ Switching(t)
<1>0. /\ TypeOK /\ CallsKnow /\ ApprovalsAreAsked /\ PendingExist
  BY DEF ControlInv, SlotInv
<1>1. ASSUME NEW t \in Thread, NEW p, Going(t, p) PROVE OpsFade
  BY <1>1, FadesOn DEF Going, SameRequest, Fades
<1>2. ASSUME NEW t \in Thread, Leaving(t) \/ Answers(t) PROVE OpsFade
  BY <1>2, FadesOn DEF Leaving, Answers, Idle, Fades, Asks
<1>3. ASSUME NEW t \in Thread, NEW op \in {"complete", "deny"}, Begins(t, op)
      PROVE  OpsFade
  BY <1>3, FadesOn DEF Begins, Fades, Asks
<1>4. ASSUME NEW t \in Thread, NEW l, NEW via, Issues(t, l, via) PROVE OpsFade
  BY <1>4, FadesOn DEF Issues, SameRequest, Fades
<1>5. ASSUME UNCHANGED call PROVE OpsFade
  BY <1>5 DEF OpsFade, Fades
<1>6. ASSUME NEW t \in Thread, Select(t) \/ Sweep(t) PROVE OpsFade
  <2>1. call[t].op = "switch" BY <1>6, SweepGoes
  <2>2. ASSUME Lists(t) \/ \E l : Takes(t, l) PROVE OpsFade
    BY <2>1, <2>2, FadesOn DEF Lists, Takes, Fades, Asks
  <2> QED BY <1>1, <1>6, <2>2, SweepGoes
<1>7. ASSUME NEW t \in Thread, OauthIssue(t) \/ Issue(t) \/ Unwrap(t) PROVE OpsFade
  <2>1. CASE \E via \in Via : VaultIssues(t, via)
    BY <1>0, <1>4, <2>1, IssuesGoes
  <2>2. CASE Return(t) BY <1>0, <1>2, <2>2, ReturnLeaves
  <2> QED BY <1>7, <2>1, <2>2 DEF OauthIssue, Issue, Unwrap, Via
<1>8. ASSUME NEW t \in Thread, Complete(t) \/ Deny(t) PROVE OpsFade
  BY <1>0, <1>2, <1>3, <1>5, <1>8, CleanupGoes DEF Complete, Deny
<1>9. ASSUME NEW t \in Thread,
             Exception(t) \/ Prior(t) \/ Bind(t) \/ Row(t) \/ Approve(t) \/ Revoke(t)
               \/ Mark(t) \/ Clear(t) \/ Wrap(t) \/ OauthSlot(t) \/ Renewal(t)
               \/ Denied(t) \/ NewRun(t) \/ Fails(t)
      PROVE  OpsFade
  BY <1>1, <1>2, <1>9, HandlerGoes
<1>10. ASSUME Delegated \/ Tick \/ UNCHANGED vars PROVE OpsFade
  BY <1>5, <1>10 DEF Delegated, Tick, vars
<1>11. ASSUME NEW t \in Thread,
              (\E e \in BOOLEAN : Request(t, e)) \/ (\E a \in Approval : Authorize(t, a))
                \/ Switch(t)
       PROVE  Asking(t) \/ Switching(t)
  BY <1>0, <1>11, AskGoes, SwitchGoes
<1> QED BY <1>6, <1>7, <1>8, <1>9, <1>10, <1>11
        DEF Next, Handler, AgentStep, OperatorStep

\* Only the last step of a switch begins a run, and it has the record to itself.
LEMMA RunStays ==
  ASSUME [Next]_vars
  PROVE  UNCHANGED run \/ \E t \in Thread : NewRun(t)
<1>1. ASSUME NEW t \in Thread,
             AgentStep(t) \/ OperatorStep(t) \/ Fails(t) \/ OauthIssue(t) \/ Exception(t)
               \/ Prior(t) \/ Wrap(t) \/ Issue(t) \/ Bind(t) \/ Row(t) \/ OauthSlot(t)
               \/ Renewal(t) \/ Approve(t) \/ Unwrap(t) \/ Revoke(t) \/ Mark(t)
               \/ Clear(t) \/ Select(t) \/ Sweep(t) \/ Denied(t)
      PROVE  UNCHANGED run
  BY <1>1 DEF AgentStep, Request, Complete, Deny, OperatorStep, Switch, Authorize,
     Fails, OauthIssue, Exception, Prior, Wrap, Issue, Bind, Row, OauthSlot, Renewal,
     Approve, Unwrap, Revoke, Mark, Clear, Select, Sweep, Denied, board
<1>2. ASSUME Delegated \/ Tick \/ UNCHANGED vars PROVE UNCHANGED run
  BY <1>2 DEF Delegated, Tick, vars, board
<1> QED BY <1>1, <1>2 DEF Next, Handler

LEMMA LooseStays ==
  ASSUME ControlInv, SlotInv, [Next]_vars, loose
  PROVE  loose'
<1>1. ASSUME NEW t \in Thread, AgentStep(t) \/ OperatorStep(t) PROVE loose'
  BY <1>1 DEF AgentStep, Request, Complete, Deny, OperatorStep, Switch, Authorize
<1>2. ASSUME NEW t \in Thread, Handler(t) \/ Fails(t) PROVE loose'
  BY <1>2 DEF Handler, Fails, OauthIssue, Exception, Prior, Wrap, Issue, Bind, Row,
     OauthSlot, Renewal, Approve, Unwrap, Revoke, Mark, Clear, Select, Sweep, NewRun,
     Denied
<1>3. ASSUME Delegated \/ Tick \/ UNCHANGED vars PROVE loose'
  BY <1>3 DEF Delegated, Tick, vars
<1> QED BY <1>1, <1>2, <1>3 DEF Next

LEMMA CurrentKept ==
  ASSUME ControlInv, SlotInv, SwitchIsCurrent, [Next]_vars
  PROVE  SwitchIsCurrent'
<1>1. ASSUME NEW t \in Thread, NewRun(t) PROVE SwitchIsCurrent'
  <2>1. Leaving(t) /\ call[t].op = "switch"
    BY <1>1, HandlerGoes DEF NewRun, At, ControlInv, CallsFit, CallFits
  <2>2. \A u \in Thread : call'[u].op # "switch"
    BY <2>1 DEF Leaving, Acts, Idle, ControlInv, OneSwitch
  <2> QED BY <2>2 DEF SwitchIsCurrent
<1>2. CASE UNCHANGED run
  <2>1. CASE OpsFade BY <1>2, <2>1 DEF OpsFade, Fades, SwitchIsCurrent
  <2>2. ASSUME NEW t \in Thread, Asking(t) \/ Switching(t) PROVE SwitchIsCurrent'
    BY <1>2, <2>2 DEF Asking, Switching, Acts, Asks, SwitchIsCurrent
  <2> QED BY <2>1, <2>2, StepFades
<1> QED BY <1>1, <1>2, RunStays

\* What holds before a step after which nothing is loose.
Tight ==
  /\ ControlInv /\ SlotInv /\ SwitchIsCurrent /\ Grows
  /\ NoOverlap /\ AskedInRun /\ OpenIsOnRecord /\ SwitchFinds
  /\ \A l \in Lease : Opens(l) => lease[l].run = run

LEMMA NoOverlapKept ==
  ASSUME Tight, ~loose', [Next]_vars
  PROVE  NoOverlap'
<1>1. CASE OpsFade BY <1>1 DEF OpsFade, Fades, Tight, NoOverlap
<1>2. ASSUME NEW t \in Thread, Asking(t) PROVE NoOverlap'
  <2>1. \A u \in Thread : call[u].op # "switch" BY <1>2 DEF Asking, InFlight
  <2> QED BY <1>2, <2>1 DEF Asking, Acts, Asks, NoOverlap
<1>3. ASSUME NEW t \in Thread, Switching(t) PROVE NoOverlap'
  <2>1. \A u \in Thread : call[u].op \notin Asks BY <1>3 DEF Switching, InFlight
  <2> QED BY <1>3, <2>1 DEF Switching, Acts, Asks, NoOverlap
<1> QED BY <1>1, <1>2, <1>3, StepFades DEF Tight

\* The only switch is over with its last step.
LEMMA NewRunIsAlone ==
  ASSUME Tight, NEW t \in Thread, NewRun(t)
  PROVE  \A u \in Thread : call'[u].op \notin Asks \cup {"switch"}
<1>1. Leaving(t) /\ call[t].op = "switch"
  BY HandlerGoes DEF Tight, NewRun, At, ControlInv, CallsFit, CallFits
<1>2. \A u \in Thread : u # t => call[u].op \notin Asks \cup {"switch"}
  BY <1>1 DEF Tight, NoOverlap, ControlInv, OneSwitch
<1> QED BY <1>1, <1>2 DEF Leaving, Acts, Idle, Asks

LEMMA PendingGrows ==
  ASSUME [Next]_vars
  PROVE  pending' \subseteq pending \/ \E t \in Thread : Wrap(t)
<1>1. ASSUME NEW t \in Thread,
             AgentStep(t) \/ OperatorStep(t) \/ OauthIssue(t) \/ Exception(t) \/ Prior(t)
               \/ Issue(t) \/ Bind(t) \/ Row(t) \/ OauthSlot(t) \/ Renewal(t)
               \/ Approve(t) \/ Unwrap(t) \/ Revoke(t) \/ Mark(t) \/ Clear(t)
               \/ Select(t) \/ Sweep(t) \/ NewRun(t) \/ Denied(t) \/ Fails(t)
      PROVE  pending' \subseteq pending
  BY <1>1 DEF AgentStep, Request, Complete, Deny, OperatorStep, Switch, Authorize,
     OauthIssue, Exception, Prior, Issue, Bind, Row, OauthSlot, Renewal, Approve,
     Unwrap, Revoke, Mark, Clear, Select, Sweep, NewRun, Denied, Fails, held
<1>2. ASSUME Delegated \/ Tick \/ UNCHANGED vars PROVE pending' \subseteq pending
  BY <1>2 DEF Delegated, Tick, vars, held
<1> QED BY <1>1, <1>2 DEF Next, Handler

LEMMA AskedInRunKept ==
  ASSUME Tight, ~loose', [Next]_vars
  PROVE  AskedInRun'
<1>0. /\ approval \in [Approval -> ApprovalRow] /\ pending \subseteq Approval
      /\ \A t \in Thread : Knows(call[t])
      /\ \A a \in pending : approval[a].run = run /\ approval'[a].run = run
  <2>1. approval \in [Approval -> ApprovalRow] /\ pending \subseteq Approval
    BY Typed DEF Tight, ControlInv, RestTyped
  <2>2. \A a \in pending : ApprovalGrows(a) /\ approval[a].status # "none"
    BY <2>1 DEF Tight, Grows, SlotInv, PendingExist
  <2> QED BY <2>1, <2>2 DEF Tight, AskedInRun, ApprovalGrows, SlotInv, CallsKnow
<1>1. ASSUME NEW t \in Thread, NewRun(t) PROVE AskedInRun'
  BY <1>1, NewRunIsAlone DEF NewRun, AskedInRun
<1>2. ASSUME UNCHANGED run
      PROVE  \A t \in Thread : call'[t].op \in Asks => call'[t].run = run
  <2>1. CASE OpsFade BY <2>1 DEF OpsFade, Fades, Tight, AskedInRun
  <2>2. ASSUME NEW t \in Thread, Asking(t) \/ Switching(t)
        PROVE  \A u \in Thread : call'[u].op \in Asks => call'[u].run = run
    BY <1>0, <2>2 DEF Asking, Switching, Acts, Asks, Tight, AskedInRun
  <2> QED BY <2>1, <2>2, StepFades DEF Tight
<1>3. ASSUME UNCHANGED run
      PROVE  \A a \in pending' : approval'[a].run = run
  <2>1. CASE pending' \subseteq pending BY <1>0, <2>1
  <2>2. ASSUME NEW t \in Thread, Wrap(t)
        PROVE  \A a \in pending' : approval'[a].run = run
    <3>1. call[t].run = run
      BY <1>0, <2>2 DEF Wrap, At, Knows, InRequest, Tight, AskedInRun
    <3>2. PICK a \in Approval :
            /\ approval' = [approval EXCEPT ![a] = [status |-> "waiting",
                 task |-> call[t].task, run |-> call[t].run,
                 exception |-> call[t].exception]]
            /\ pending' = pending \cup {a}
      BY <2>2 DEF Wrap
    <3>3. approval'[a].run = run BY <1>0, <3>1, <3>2
    <3> QED BY <1>0, <3>2, <3>3
  <2> QED BY <2>1, <2>2, PendingGrows
<1> QED BY <1>1, <1>2, <1>3, RunStays DEF AskedInRun

\* What is on record stays there while it opens anything.
LEMMA RowsKept ==
  ASSUME Tight, [Next]_vars, NEW l \in Lease, Opens(l), rows[l] = "open"
  PROVE  rows'[l] = "open"
<1>0. rows \in [Lease -> {"none", "open", "revoked"}] /\ \A t \in Thread : Knows(call[t])
  BY Typed DEF Tight, ControlInv, SlotInv, CallsKnow
<1>1. ASSUME NEW t \in Thread, Row(t) PROVE rows'[l] = "open"
  BY <1>0, <1>1 DEF Row
<1>2. ASSUME NEW t \in Thread, Mark(t) PROVE rows'[l] = "open"
  <2>1. call[t].lease # l
    BY <1>0, <1>2 DEF Mark, At, Knows, Opens
  <2> QED BY <1>0, <1>2, <2>1 DEF Mark
<1>3. ASSUME NEW t \in Thread,
             AgentStep(t) \/ OperatorStep(t) \/ OauthIssue(t) \/ Exception(t) \/ Prior(t)
               \/ Wrap(t) \/ Issue(t) \/ Bind(t) \/ OauthSlot(t) \/ Renewal(t)
               \/ Approve(t) \/ Unwrap(t) \/ Revoke(t) \/ Clear(t)
               \/ Select(t) \/ Sweep(t) \/ NewRun(t) \/ Denied(t) \/ Fails(t)
      PROVE  UNCHANGED rows
  BY <1>3 DEF AgentStep, Request, Complete, Deny, OperatorStep, Switch, Authorize,
     OauthIssue, Exception, Prior, Wrap, Issue, Bind, OauthSlot, Renewal, Approve,
     Unwrap, Revoke, Clear, Select, Sweep, NewRun, Denied, Fails
<1>4. ASSUME Delegated \/ Tick \/ UNCHANGED vars PROVE UNCHANGED rows
  BY <1>4 DEF Delegated, Tick, vars
<1> QED BY <1>1, <1>2, <1>3, <1>4 DEF Next, Handler

\* A step is one request's.
LEMMA OneActs ==
  ASSUME ControlInv, SlotInv, NEW u \in Thread,
         Handler(u) \/ AgentStep(u) \/ OperatorStep(u) \/ Fails(u)
  PROVE  Acts(u) \/ UNCHANGED call
<1>0. TypeOK /\ ApprovalsAreAsked /\ PendingExist
  BY DEF ControlInv, SlotInv
<1>1. ASSUME Leaving(u) \/ \E p : Going(u, p) PROVE Acts(u)
  BY <1>1 DEF Leaving, Going
<1>2. ASSUME OauthIssue(u) \/ Issue(u) \/ Unwrap(u) PROVE Acts(u)
  <2>1. CASE \E via \in Via : VaultIssues(u, via)
    BY <1>0, <2>1, IssuesGoes DEF Issues
  <2>2. CASE Return(u) BY <1>0, <1>1, <2>2, ReturnLeaves
  <2> QED BY <1>2, <2>1, <2>2 DEF OauthIssue, Issue, Unwrap, Via
<1>3. ASSUME Select(u) \/ Sweep(u) PROVE Acts(u)
  BY <1>1, <1>3, SweepGoes DEF Lists, Takes
<1>4. ASSUME Complete(u) \/ Deny(u) PROVE Acts(u) \/ UNCHANGED call
  BY <1>0, <1>4, CleanupGoes DEF Complete, Deny, Begins, Answers
<1>5. ASSUME (\E e \in BOOLEAN : Request(u, e))
               \/ (\E a \in Approval : Authorize(u, a)) \/ Switch(u)
      PROVE  Acts(u)
  BY <1>0, <1>5, AskGoes, SwitchGoes DEF Asking, Switching
<1>6. ASSUME Exception(u) \/ Prior(u) \/ Bind(u) \/ Row(u) \/ Approve(u) \/ Revoke(u)
               \/ Mark(u) \/ Clear(u) \/ Wrap(u) \/ OauthSlot(u) \/ Renewal(u)
               \/ Denied(u) \/ NewRun(u) \/ Fails(u)
      PROVE  Acts(u)
  BY <1>1, <1>6, HandlerGoes
<1> QED BY <1>2, <1>3, <1>4, <1>5, <1>6 DEF Handler, AgentStep, OperatorStep

\* A request that has a lease in hand puts it on record, or something is loose.
LEMMA HandKept ==
  ASSUME Tight, ~loose', [Next]_vars, NEW t \in Thread,
         call[t].pc \in {"bind", "row"}
  PROVE  \/ call'[t].pc \in {"bind", "row"} /\ call'[t].lease = call[t].lease
         \/ rows'[call[t].lease] = "open"
<1>0. /\ TypeOK /\ rows \in [Lease -> {"none", "open", "revoked"}]
      /\ call \in [Thread -> Call] /\ call[t].lease \in Lease
  BY Typed DEF Tight, ControlInv, SlotInv, CallsKnow, Knows, WithLease, Issued
<1>1. CASE Bind(t) BY <1>1, HandlerGoes DEF Tight, Going
<1>2. CASE Row(t) BY <1>0, <1>2 DEF Row
<1>3. CASE Fails(t) BY <1>3 DEF Fails
<1>4. ASSUME NEW u \in Thread, Handler(u) \/ AgentStep(u) \/ OperatorStep(u) \/ Fails(u),
             u # t
      PROVE  call'[t] = call[t]
  BY <1>4, OneActs DEF Tight, Acts
<1>5. ASSUME Handler(t) \/ AgentStep(t) \/ OperatorStep(t)
      PROVE  Bind(t) \/ Row(t)
  BY <1>5 DEF Handler, AgentStep, Request, Complete, Deny, OperatorStep, Switch,
     Authorize, OauthIssue, Exception, Prior, Wrap, Issue, OauthSlot, Renewal, Approve,
     Unwrap, Revoke, Mark, Clear, Select, Sweep, NewRun, Denied, At
<1>6. ASSUME Delegated \/ Tick \/ UNCHANGED vars PROVE UNCHANGED call
  BY <1>6 DEF Delegated, Tick, vars
<1> QED BY <1>1, <1>2, <1>3, <1>4, <1>5, <1>6 DEF Next

LEMMA OnRecordKept ==
  ASSUME Tight, ~loose', [Next]_vars
  PROVE  OpenIsOnRecord'
<1>1. ASSUME NEW l \in Lease, lease'[l].status = "live", lease'[l].via # "oauth"
      PROVE  \/ rows'[l] = "open"
             \/ \E t \in Thread : call'[t].pc \in {"bind", "row"} /\ call'[t].lease = l
  <2>1. CASE lease[l].status = "none"
    <3>1. PICK t \in Thread, via \in Via : Issues(t, l, via)
      BY <1>1, <2>1, NewIsAnswered DEF Tight
    <3> QED BY <3>1 DEF Issues
  <2>2. CASE lease[l].status # "none"
    <3>1. Opens(l) BY <1>1, <2>2, OpenBefore DEF Tight
    <3>2. CASE rows[l] = "open" BY <3>1, <3>2, RowsKept
    <3>3. ASSUME NEW t \in Thread, call[t].pc \in {"bind", "row"}, call[t].lease = l
          PROVE  \/ rows'[l] = "open"
                 \/ call'[t].pc \in {"bind", "row"} /\ call'[t].lease = l
      BY <3>3, HandKept
    <3> QED BY <3>1, <3>2, <3>3 DEF Tight, OpenIsOnRecord
  <2> QED BY <2>1, <2>2
<1> QED BY <1>1 DEF OpenIsOnRecord, Opens, Live, ByOauth

\* A switch lists what is on record, and drops from its list what it ends.
LEMMA FindsKept ==
  ASSUME Tight, ~loose', [Next]_vars
  PROVE  SwitchFinds'
<1> SUFFICES ASSUME NEW t \in Thread, call'[t].op = "switch", call'[t].pc # "select",
                    NEW l \in Lease, lease'[l].status = "live", lease'[l].via # "oauth"
             PROVE  l \in call'[t].todo \/ (call'[t].pc = "revoke" /\ call'[t].lease = l)
  BY DEF SwitchFinds, Opens, Live, ByOauth
<1>0. /\ ControlInv /\ SlotInv /\ Knows(call[t]) /\ TypeOK
      /\ lease \in [Lease -> LeaseRow]
  BY Typed DEF Tight, ControlInv, SlotInv, CallsKnow
<1>1. call[t].op = "switch"
  <2>1. CASE OpsFade BY <2>1 DEF OpsFade, Fades
  <2>2. ASSUME NEW u \in Thread, Asking(u) \/ Switching(u) PROVE call[t].op = "switch"
    BY <2>2 DEF Asking, Switching, Acts, Asks
  <2> QED BY <1>0, <2>1, <2>2, StepFades
<1>2. \A u \in Thread : call[u].op \notin Asks BY <1>1 DEF Tight, NoOverlap
<1>3. lease[l].status # "none" BY <1>0, <1>2, NewIsAnswered
<1>4. Opens(l) BY <1>3, OpenBefore DEF Tight
<1>5. call[t].pc # "select" =>
        l \in call[t].todo \/ (call[t].pc = "revoke" /\ call[t].lease = l)
  BY <1>1, <1>4 DEF Tight, SwitchFinds
<1>6. CASE call'[t] = call[t] BY <1>5, <1>6
<1>7. ASSUME AgentStep(t) \/ OperatorStep(t) PROVE call'[t] = call[t]
  <2>1. (\E op \in {"complete", "deny"} : Begins(t, op)) \/ Answers(t) \/ UNCHANGED call
          \/ Asking(t) \/ Switching(t)
    <3>1. CASE Complete(t) \/ Deny(t)
      BY <1>0, <3>1, CleanupGoes DEF Complete, Deny
    <3>2. CASE (\E e \in BOOLEAN : Request(t, e)) \/ (\E a \in Approval : Authorize(t, a))
                 \/ Switch(t)
      BY <1>0, <3>2, AskGoes, SwitchGoes DEF SlotInv
    <3> QED BY <1>7, <3>1, <3>2 DEF AgentStep, OperatorStep
  <2> QED BY <2>1 DEF Begins, Answers, Asking, Switching, Asks
<1>8. ASSUME Handler(t) \/ Fails(t)
      PROVE  Revoke(t) \/ Mark(t) \/ Clear(t) \/ Select(t) \/ Sweep(t)
  <2>1. call[t].pc \notin InRequest BY <1>0, <1>2 DEF Knows
  <2>2. ~(Denied(t) \/ NewRun(t)) BY <1>0, HandlerGoes DEF Leaving, Idle
  <2> QED BY <1>8, <2>1, <2>2 DEF Handler, Fails, MayFail, InRequest, OauthIssue,
          Exception, Prior, Wrap, Issue, Bind, Row, OauthSlot, Renewal, Approve, Unwrap, At
<1>9. CASE Revoke(t)
  <2>1. Go(t, "mark") /\ lease' = (IF ByOauth(call[t].lease) THEN lease
                       ELSE [lease EXCEPT ![call[t].lease].status = "ended"])
    BY <1>9 DEF Revoke, ByOauth
  <2>2. call[t].lease # l
    BY <1>0, <1>4, <2>1 DEF Opens, LeaseRow
  <2>3. Going(t, "mark") BY <1>0, <2>1, GoGoes DEF PC, Revoking
  <2> QED BY <1>5, <1>9, <2>2, <2>3 DEF Going, SameRequest, Revoke, At
<1>10. CASE Mark(t) \/ Clear(t)
  <2>1. l \in call[t].todo BY <1>5, <1>10 DEF Mark, Clear, At
  <2>2. Leaving(t) \/ \E p : Going(t, p) BY <1>0, <1>10, HandlerGoes
  <2> QED BY <2>1, <2>2 DEF Leaving, Idle, Going, SameRequest
<1>11. CASE Select(t)
  <2>1. rows[l] = "open"
    <3>1. \A u \in Thread : call[u].pc \notin {"bind", "row"}
      BY <1>0, <1>2 DEF SlotInv, CallsKnow, Knows, InRequest
    <3> QED BY <1>4, <3>1 DEF Tight, OpenIsOnRecord
  <2>2. lease[l].run = call[t].run BY <1>1, <1>4 DEF Tight, SwitchIsCurrent
  <2> QED BY <1>0, <1>11, <2>1, <2>2, SweepGoes DEF Lists
<1>12. CASE Sweep(t)
  <2>1. l \in call[t].todo BY <1>5, <1>12 DEF Sweep, At
  <2> QED BY <1>0, <1>12, <2>1, SweepGoes DEF Takes, Going, SameRequest
<1>13. ASSUME NEW u \in Thread, u # t,
              Handler(u) \/ AgentStep(u) \/ OperatorStep(u) \/ Fails(u)
       PROVE  call'[t] = call[t]
  BY <1>0, <1>13, OneActs DEF Acts
<1>14. ASSUME Delegated \/ Tick \/ UNCHANGED vars PROVE UNCHANGED call
  BY <1>14 DEF Delegated, Tick, vars
<1> QED BY <1>6, <1>7, <1>8, <1>9, <1>10, <1>11, <1>12, <1>13, <1>14 DEF Next

\* The next run begins when nothing of the last one opens the database.
LEMMA NothingLeft ==
  ASSUME Tight, ~loose', [Next]_vars
  PROVE  \A l \in Lease : lease'[l].status = "live" /\ lease'[l].via # "oauth" =>
           lease'[l].run = run'
<1> SUFFICES ASSUME NEW l \in Lease, lease'[l].status = "live", lease'[l].via # "oauth"
             PROVE  lease'[l].run = run'
  OBVIOUS
<1>1. CASE UNCHANGED run
  <2>1. CASE lease[l].status = "none"
    <3>1. PICK t \in Thread, via \in Via : Issues(t, l, via) /\ call[t].op \in Asks
      BY <2>1, NewIsAnswered DEF Tight
    <3> QED BY <1>1, <3>1 DEF Issues, Tight, AskedInRun
  <2>2. CASE lease[l].status # "none"
    BY <1>1, <2>2, OpenBefore DEF Tight
  <2> QED BY <2>1, <2>2
<1>2. ASSUME NEW t \in Thread, NewRun(t) PROVE FALSE
  <2>1. /\ call[t].pc = "newrun" /\ UNCHANGED lease /\ call[t].op = "switch"
        /\ call[t].todo = {}
    BY <1>2 DEF NewRun, At, vault, Tight, ControlInv, CallsFit, CallFits, SlotInv,
       CallsKnow, Knows
  <2>2. Opens(l) BY <2>1 DEF Opens, Live, ByOauth
  <2> QED BY <2>1, <2>2 DEF Tight, SwitchFinds
<1> QED BY <1>1, <1>2, RunStays

LEMMA TightKept ==
  ASSUME ControlInv, SlotInv, SwitchIsCurrent, TightInv, Grows, [Next]_vars
  PROVE  TightInv'
<1> SUFFICES ASSUME ~loose'
             PROVE  /\ NoOverlap' /\ AskedInRun' /\ OpenIsOnRecord' /\ SwitchFinds'
                    /\ SwitchLeavesNothing'
  BY DEF TightInv
<1>1. ~loose BY LooseStays
<1>2. Tight
  BY <1>1 DEF TightInv, Tight, SwitchLeavesNothing, Opens, ByOauth
<1>3. SwitchLeavesNothing'
  BY <1>2, NothingLeft DEF SwitchLeavesNothing, Live
<1> QED BY <1>2, <1>3, NoOverlapKept, AskedInRunKept, OnRecordKept, FindsKept

-----------------------------------------------------------------------------
(* The theorems about the slot.                                            *)

LEMMA CredentialKept ==
  ASSUME CredentialInv, [Next]_vars
  PROVE  CredentialInv'
<1>1. ControlInv /\ SlotInv /\ SwitchIsCurrent /\ TightInv BY DEF CredentialInv
<1>2. ControlInv' BY <1>1, NextKeeps
<1>3. Grows /\ CallsKnow' BY <1>1, StepKnows
<1>4. ApprovalsAreAsked' /\ PendingExist' BY <1>1, <1>3, ApprovalsKept
<1>5. ExceptionsAuthorised' BY <1>1, <1>3, MandatesKept
<1>6. SlotIsHeld' BY <1>1, <1>3, SlotHeldKept
<1>7. SlotIsServed' BY <1>1, <1>3, ServedKept
<1>8. EndedIsRevoked' BY <1>1, <1>3, EndedKept
<1>9. SwitchIsCurrent' BY <1>1, CurrentKept
<1>10. TightInv' BY <1>1, <1>3, TightKept
<1> QED BY <1>2, <1>3, <1>4, <1>5, <1>6, <1>7, <1>8, <1>9, <1>10
        DEF CredentialInv, SlotInv

LEMMA CredentialInit ==
  ASSUME Init
  PROVE  CredentialInv
<1>1. ControlInv BY InitHolds
<1>2. /\ \A t \in Thread : call[t] = Idle
      /\ \A l \in Lease : lease[l].status = "none"
      /\ \A a \in Approval : approval[a].status = "none"
      /\ slot.lease = None /\ pending = {}
  BY DEF Init, NoSlot
<1>3. CallsKnow
  BY <1>2 DEF CallsKnow, Knows, Idle, InRequest, WithLease, Revoking, Asks
<1>4. SlotInv
  BY <1>2, <1>3 DEF SlotInv, ApprovalsAreAsked, PendingExist, ExceptionsAuthorised,
     Issued, SlotIsHeld, SlotIsServed, EndedIsRevoked
<1>5. SwitchIsCurrent BY <1>2 DEF SwitchIsCurrent, Idle
<1>6. TightInv
  BY <1>2 DEF TightInv, NoOverlap, AskedInRun, OpenIsOnRecord, SwitchFinds, Opens,
     Live, SwitchLeavesNothing, Idle, Asks
<1> QED BY <1>1, <1>4, <1>5, <1>6 DEF CredentialInv

\* The invariant of the slot and of the switch holds of every reachable state.
THEOREM CredentialInvariant == Spec => []CredentialInv
<1>1. Init => CredentialInv BY CredentialInit
<1>2. CredentialInv /\ [Next]_vars => CredentialInv' BY CredentialKept
<1> QED BY <1>1, <1>2, PTL DEF Spec

\* A credential in the slot carries its mandate, and an exception only where an
\* operator authorised a request for one (bindCredentialMandate runs before
\* setActiveAgentCCredential, on what unwrapCredential returned).
THEOREM SlotCorrect == Spec => []SlotIsBound
<1>1. CredentialInv => SlotIsBound
  BY DEF CredentialInv, SlotInv, SlotIsHeld, ExceptionsAuthorised, Authorised, Issued,
     ByOauth, SlotIsBound, Approval, None
<1> QED BY <1>1, CredentialInvariant, PTL

\* The active credential is the one under renewal, unless two requests installed
\* theirs at once or one failed half-way (startCredentialRenewal).
THEOREM RenewalCorrect == Spec => []SlotIsRenewed
<1>1. CredentialInv => SlotIsRenewed
  BY DEF CredentialInv, SlotInv, SlotIsServed, SlotIsRenewed, ByOauth, WillRenew
<1> QED BY <1>1, CredentialInvariant, PTL

\* Completion empties the slot of its task, unless an approval that outlived the
\* task filled it (cleanupTaskCredentials).
THEOREM EndedTaskIsCleared == Spec => []EndedTaskHoldsNothing
<1>1. CredentialInv => EndedTaskHoldsNothing
  BY DEF CredentialInv, SlotInv, EndedIsRevoked, EndedTaskHoldsNothing, WillEmpty
<1> QED BY <1>1, CredentialInvariant, PTL

\* Where no credential is asked for during a switch and nothing is refused, the
\* next run finds nothing of the last one open (cleanupRunCredentials).
THEOREM SwitchCorrect == Spec => []SwitchLeavesNothing
<1>1. CredentialInv => SwitchLeavesNothing
  BY DEF CredentialInv, TightInv, SwitchLeavesNothing
<1> QED BY <1>1, CredentialInvariant, PTL

============================================================================
