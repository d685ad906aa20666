---------------------- MODULE AttemptCredential_proofs ----------------------
(***************************************************************************)
(* What holds of the credentials for any number of attempts, credentials,  *)
(* requests in flight, refusals of Vault and restarts.                     *)
(*                                                                         *)
(* RevokedIsGone and ValidIsListed hold whatever overlaps. HeldLeaseEnds,  *)
(* ResetLeavesNothing and NoLeaseReuse are proved of requests that do not  *)
(* overlap while Vault refuses nothing (Serially), since overlapping ones  *)
(* do break them: two statements of one request leave the slot, the row    *)
(* and Vault apart, and SerialInv says how far apart at each of them.      *)
(***************************************************************************)
EXTENDS AttemptCredential, FiniteSetTheorems, TLAPS

VaultType == [Lease -> {"none", "valid", "gone"}]

\* A lease is never issued twice and never revived.
Grows(v, w) ==
  \A l \in Lease : /\ v[l] # "none" => w[l] # "none"
                   /\ v[l] = "gone" => w[l] = "gone"

\* What a request in flight knows of the leases it names: they were issued,
\* and one it is about to record as revoked is gone.
Fits(c, v) ==
  /\ c.lease \in Lease => v[c.lease] # "none"
  /\ \A l \in c.todo : v[l] # "none"
  /\ c.pc = "read" => c.attempt \in Attempt
  /\ c.pc = "lease" => c.lease \in Lease
  /\ c.pc \in {"mark", "cleanMark"} => c.lease \in Lease /\ v[c.lease] = "gone"

CallsFit == \A t \in Thread : Fits(call[t], vault)

\* The rows and the slot name issued leases only, and the evidence is true.
EvidenceFits ==
  \A l \in Lease : /\ event[l] # "none" => vault[l] # "none"
                   /\ event[l] = "revoked" => vault[l] = "gone"
HoldersFit ==
  /\ slot \in Lease => vault[slot] # "none"
  /\ \A a \in Attempt : rowLease[a] \in Lease => vault[rowLease[a]] # "none"

CredInv == TypeOK /\ CallsFit /\ EvidenceFits /\ HoldersFit

\* The types of what a handler's locals and Vault do not cover.
RestTyped ==
  /\ run \in {"live", "ended", "switched", "reset"}
  /\ exec \in [Attempt -> {"none", "running", "ended"}]
  /\ auth \in [Attempt -> {"none", "active", "revoked"}]
  /\ rowLease \in [Attempt -> Lease \cup {NoLease}]
  /\ event \in [Lease -> {"none", "open", "revoked"}]
  /\ {slot, timer} \subseteq Lease \cup {NoLease} /\ ticks \subseteq Lease
  /\ refusals \in 0..MaxRefusal /\ restarts \in 0..MaxRestart

LEMMA TypeParts ==
  TypeOK <=> RestTyped /\ vault \in VaultType /\ call \in [Thread -> Call]
BY DEF TypeOK, RestTyped, VaultType

-----------------------------------------------------------------------------
(* Helpers.                                                                *)

LEMMA NoLeaseIsNone == NoLease \notin Lease
BY DEF NoLease, Lease, Attempt

LEMMA CallFacts ==
  ASSUME NEW c \in Call
  PROVE  /\ c.pc \in PC /\ c.op \in Op /\ c.attempt \in Attempt \cup {0}
         /\ c.lease \in Lease \cup {NoLease} /\ c.todo \subseteq Lease
         /\ \A p \in PC : [c EXCEPT !.pc = p] \in Call
BY DEF Call

LEMMA IdleFacts == Idle \in Call /\ \A v : Fits(Idle, v)
BY NoLeaseIsNone DEF Idle, Call, PC, Op, Fits

LEMMA GrowsReflexive == \A v : Grows(v, v)
BY DEF Grows

LEMMA FitsGrows ==
  ASSUME NEW c \in Call, NEW v, NEW w, Fits(c, v), Grows(v, w)
  PROVE  Fits(c, w)
BY CallFacts DEF Fits, Grows

\* Going on to a statement that says nothing of its attempt or its lease.
Plain == PC \ {"read", "lease", "mark", "cleanMark"}

LEMMA GoFits ==
  ASSUME NEW c \in Call, NEW v, NEW w, Fits(c, v), Grows(v, w), NEW p \in Plain
  PROVE  [c EXCEPT !.pc = p] \in Call /\ Fits([c EXCEPT !.pc = p], w)
<1>1. [c EXCEPT !.pc = p] \in Call
  BY CallFacts DEF Plain
<1>2. /\ [c EXCEPT !.pc = p].pc = p
      /\ [c EXCEPT !.pc = p].lease = c.lease
      /\ [c EXCEPT !.pc = p].todo = c.todo
  BY DEF Call
<1>3. Fits(c, w)
  BY FitsGrows
<1> QED BY <1>1, <1>2, <1>3 DEF Fits, Plain

\* How the requests in flight change: not at all, or one of them moves on.
Moves ==
  \/ UNCHANGED call
  \/ \E t \in Thread, c \in Call : Become(t, c) /\ Fits(c, vault')

LEMMA CallsKept ==
  ASSUME TypeOK, CallsFit, Grows(vault, vault'), Moves
  PROVE  call' \in [Thread -> Call] /\ CallsFit'
<1>0. call \in [Thread -> Call]
  BY DEF TypeOK
<1>1. \A t \in Thread : Fits(call[t], vault')
  BY <1>0, FitsGrows DEF CallsFit
<1>2. CASE UNCHANGED call
  BY <1>0, <1>1, <1>2 DEF CallsFit
<1>3. CASE \E t \in Thread, c \in Call : Become(t, c) /\ Fits(c, vault')
  <2>1. PICK t \in Thread, c \in Call : Become(t, c) /\ Fits(c, vault')
    BY <1>3
  <2>2. call' = [call EXCEPT ![t] = c]
    BY <2>1 DEF Become
  <2>3. \A u \in Thread : call'[u] = IF u = t THEN c ELSE call[u]
    BY <1>0, <2>2
  <2>4. call' \in [Thread -> Call]
    BY <1>0, <2>2
  <2> QED BY <1>1, <2>1, <2>3, <2>4 DEF CallsFit
<1> QED BY <1>2, <1>3 DEF Moves

\* The holders and the evidence stay true when leases only end.
LEMMA HoldersKept ==
  ASSUME HoldersFit, Grows(vault, vault'), slot' \in {slot, NoLease},
         UNCHANGED rowLease
  PROVE  HoldersFit'
BY NoLeaseIsNone DEF HoldersFit, Grows

LEMMA EvidenceKept ==
  ASSUME EvidenceFits, Grows(vault, vault'), UNCHANGED event
  PROVE  EvidenceFits'
BY DEF EvidenceFits, Grows

LEMMA VaultEndsFacts ==
  ASSUME vault \in VaultType, NEW l \in Lease \cup {NoLease}, VaultEnds(l)
  PROVE  /\ vault' \in VaultType /\ Grows(vault, vault') /\ UNCHANGED refusals
         /\ l \in Lease /\ vault[l] # "none" => vault'[l] = "gone"
<1>1. CASE Valid(l)
  <2>1. l \in Lease /\ vault' = [vault EXCEPT ![l] = "gone"] /\ vault[l] = "valid"
    BY <1>1 DEF Valid, VaultEnds
  <2> QED BY <2>1 DEF VaultEnds, Grows, VaultType
<1>2. CASE ~Valid(l)
  <2>1. UNCHANGED <<vault, refusals>>
    BY <1>2 DEF VaultEnds
  <2> QED BY <1>2, <2>1, GrowsReflexive, NoLeaseIsNone DEF Valid, VaultType
<1> QED BY <1>1, <1>2

LEMMA VaultFailsFacts ==
  ASSUME refusals \in 0..MaxRefusal, VaultFails
  PROVE  refusals' \in 0..MaxRefusal /\ UNCHANGED vault
BY CredentialBounds DEF VaultFails

\* Either way Vault answers.
LEMMA AnswerFacts ==
  ASSUME TypeOK, NEW l \in Lease \cup {NoLease}, VaultEnds(l) \/ VaultFails
  PROVE  /\ vault' \in VaultType /\ Grows(vault, vault')
         /\ refusals' \in 0..MaxRefusal
<1>1. vault \in VaultType /\ refusals \in 0..MaxRefusal
  BY DEF TypeOK, VaultType
<1> QED BY <1>1, VaultEndsFacts, VaultFailsFacts, GrowsReflexive

\* Recording the end of a lease that is gone.
LEMMA MarkFacts ==
  ASSUME TypeOK, EvidenceFits, Grows(vault, vault'), NEW l \in Lease,
         vault'[l] = "gone", event' = MarkedRevoked(l)
  PROVE  event' \in [Lease -> {"none", "open", "revoked"}] /\ EvidenceFits'
<1>1. event \in [Lease -> {"none", "open", "revoked"}]
  BY DEF TypeOK
<1> QED BY <1>1 DEF MarkedRevoked, EvidenceFits, Grows

-----------------------------------------------------------------------------
(* One lemma per kind of step. Keeps says what a step must do to preserve   *)
(* the invariant.                                                           *)

Keeps ==
  /\ vault' \in VaultType /\ Grows(vault, vault') /\ Moves
  /\ RestTyped' /\ EvidenceFits' /\ HoldersFit'

LEMMA KeepsInv ==
  ASSUME CredInv, Keeps
  PROVE  CredInv'
<1>1. call' \in [Thread -> Call] /\ CallsFit'
  BY CallsKept DEF CredInv, Keeps
<1>2. TypeOK'
  BY <1>1 DEF Keeps, TypeOK, RestTyped, VaultType
<1> QED BY <1>1, <1>2 DEF CredInv, Keeps

\* A statement that only moves its handler on.
LEMMA LocalKeeps ==
  ASSUME CredInv, Moves, UNCHANGED <<run, rows, event, vault, memory, counts>>
  PROVE  Keeps
<1>1. Grows(vault, vault')
  BY GrowsReflexive
<1>2. UNCHANGED <<run, exec, auth, rowLease, event, vault, slot, timer, ticks,
                  refusals, restarts>>
  BY DEF rows, memory, counts
<1>3. EvidenceFits' /\ HoldersFit'
  BY <1>1, <1>2, EvidenceKept, HoldersKept DEF CredInv
<1>4. vault' \in VaultType /\ RestTyped'
  BY <1>2 DEF CredInv, TypeOK, RestTyped, VaultType
<1> QED BY <1>1, <1>3, <1>4 DEF Keeps

LEMMA CallOf ==
  ASSUME CredInv, NEW t \in Thread
  PROVE  call[t] \in Call /\ Fits(call[t], vault)
BY DEF CredInv, TypeOK, CallsFit

LEMMA IdleMoves ==
  ASSUME NEW t \in Thread, Become(t, Idle)
  PROVE  Moves
BY IdleFacts DEF Moves

LEMMA GoMoves ==
  ASSUME CredInv, NEW t \in Thread, NEW p \in Plain, Go(t, p),
         Grows(vault, vault')
  PROVE  Moves
<1>1. [call[t] EXCEPT !.pc = p] \in Call
      /\ Fits([call[t] EXCEPT !.pc = p], vault')
  BY CallOf, GoFits
<1> QED BY <1>1 DEF Moves, Go

\* A request that begins names no lease yet.
LEMMA BeginMoves ==
  ASSUME NEW t \in Thread, NEW c \in Call, Become(t, c),
         c.lease = NoLease, c.todo = {}, c.pc \in Plain \cup {"read"},
         c.pc = "read" => c.attempt \in Attempt
  PROVE  Moves
BY NoLeaseIsNone DEF Moves, Fits, Plain

-----------------------------------------------------------------------------
(* POST /credentials and the tool calls.                                   *)

LEMMA IssueKeeps ==
  ASSUME CredInv, NEW t \in Thread, Issue(t)
  PROVE  Keeps
<1>0. TypeOK /\ EvidenceFits /\ HoldersFit /\ UNCHANGED <<rows, event, memory>>
  BY DEF CredInv, Issue
<1>1. CASE VaultFails /\ Become(t, Idle)
  <2>1. Grows(vault, vault') /\ UNCHANGED vault /\ refusals' \in 0..MaxRefusal
    BY <1>0, <1>1, VaultFailsFacts, GrowsReflexive DEF TypeOK
  <2>2. Moves
    BY <1>1, IdleMoves
  <2>3. EvidenceFits' /\ HoldersFit'
    BY <1>0, <2>1, EvidenceKept, HoldersKept DEF rows, memory
  <2>4. vault' \in VaultType /\ RestTyped'
    BY <1>0, <2>1 DEF Issue, TypeOK, RestTyped, VaultType, rows, memory
  <2> QED BY <2>1, <2>2, <2>3, <2>4 DEF Keeps
<1>2. CASE \E l \in Lease :
             /\ Owner(l) = call[t].attempt /\ vault[l] = "none"
             /\ vault' = [vault EXCEPT ![l] = "valid"]
             /\ Become(t, [call[t] EXCEPT !.pc = "record", !.lease = l])
             /\ UNCHANGED refusals
  <2>1. PICK l \in Lease :
             /\ vault[l] = "none" /\ vault' = [vault EXCEPT ![l] = "valid"]
             /\ Become(t, [call[t] EXCEPT !.pc = "record", !.lease = l])
             /\ UNCHANGED refusals
    BY <1>2
  <2>2. vault' \in VaultType /\ Grows(vault, vault') /\ vault'[l] = "valid"
    BY <1>0, <2>1 DEF TypeOK, VaultType, Grows
  <2> DEFINE c == [call[t] EXCEPT !.pc = "record", !.lease = l]
  <2>3. c \in Call /\ c.pc = "record" /\ c.lease = l /\ c.todo = call[t].todo
    BY CallOf DEF Call, PC
  <2>4. Fits(c, vault')
    BY <2>2, <2>3, CallOf, CallFacts DEF Fits, Grows
  <2>5. Moves
    BY <2>1, <2>3, <2>4 DEF Moves
  <2>6. EvidenceFits' /\ HoldersFit'
    BY <1>0, <2>2, EvidenceKept, HoldersKept DEF rows, memory
  <2>7. RestTyped'
    BY <1>0, <2>1 DEF Issue, TypeOK, RestTyped, rows, memory
  <2> QED BY <2>2, <2>5, <2>6, <2>7 DEF Keeps
<1> QED BY <1>1, <1>2 DEF Issue

\* The statements that write the issued lease down: its row, the slot, its
\* evidence, its interval.
LEMMA RecordKeeps ==
  ASSUME CredInv, NEW t \in Thread,
         Record(t) \/ Install(t) \/ Event(t) \/ Renewal(t)
  PROVE  Keeps
<1>0. /\ TypeOK /\ EvidenceFits /\ HoldersFit
      /\ call[t].lease \in Lease \cup {NoLease}
      /\ call[t].lease \in Lease => vault[call[t].lease] # "none"
  BY CallOf, CallFacts DEF CredInv, Fits
<1>1. UNCHANGED <<run, vault, exec, auth, refusals, restarts, ticks>>
  BY DEF Record, Install, Event, Renewal, rows, memory, counts
<1>2. Grows(vault, vault') /\ vault' \in VaultType
  BY <1>0, <1>1, GrowsReflexive DEF TypeOK, VaultType
<1>3. Moves
  <2>1. {"install", "event", "renewal"} \subseteq Plain
    BY DEF Plain, PC
  <2> QED BY <1>2, <2>1, GoMoves, IdleMoves DEF Record, Install, Event, Renewal
<1>4. /\ event' \in [Lease -> {"none", "open", "revoked"}] /\ EvidenceFits'
  <2>1. CASE UNCHANGED event
    BY <1>0, <1>2, <2>1, EvidenceKept DEF TypeOK
  <2>2. CASE event' = [event EXCEPT ![call[t].lease] = "open"]
    BY <1>0, <1>1, <2>2 DEF TypeOK, EvidenceFits
  <2> QED BY <2>1, <2>2 DEF Record, Install, Event, Renewal
<1>5. /\ slot' \in Lease \cup {NoLease} /\ HoldersFit'
      /\ rowLease' \in [Attempt -> Lease \cup {NoLease}]
  <2>1. CASE UNCHANGED <<slot, rowLease>>
    BY <1>0, <1>2, <2>1, HoldersKept DEF TypeOK
  <2>2. CASE slot' = call[t].lease /\ UNCHANGED rowLease
    BY <1>0, <1>1, <2>2 DEF TypeOK, HoldersFit
  <2>3. CASE rowLease' = [rowLease EXCEPT ![call[t].attempt] = call[t].lease]
             /\ UNCHANGED slot
    BY <1>0, <1>1, <2>3 DEF TypeOK, HoldersFit
  <2> QED BY <2>1, <2>2, <2>3
          DEF Record, Install, Event, Renewal, rows, memory
<1>6. timer' \in Lease \cup {NoLease}
  BY <1>0 DEF Record, Install, Event, Renewal, memory, TypeOK
<1>7. RestTyped'
  BY <1>0, <1>1, <1>4, <1>5, <1>6 DEF RestTyped, TypeOK
<1> QED BY <1>2, <1>3, <1>4, <1>5, <1>7 DEF Keeps

\* The statements of the issue and of a tool call that only decide how to go
\* on, and the requests that begin.
LEMMA DecideKeeps ==
  ASSUME CredInv, NEW t \in Thread, NEW a \in Attempt,
         \/ Context(t) \/ Fence(t) \/ Take(t) \/ Mutate(t)
         \/ RequestCredential(t, a) \/ CallTool(t, a)
         \/ \E op \in {"reset", "switch"} : EndRun(t, op)
         \/ SelectLeases(t)
  PROVE  Keeps
<1>1. UNCHANGED <<run, rows, event, vault, memory, counts>>
  BY DEF Context, Fence, Take, Mutate, RequestCredential, CallTool, EndRun,
         SelectLeases
<1>2. Grows(vault, vault')
  BY <1>1, GrowsReflexive
<1>3. {"context", "issue", "fence", "take", "mutate", "leases"} \subseteq Plain
  BY DEF Plain, PC
<1>4. ASSUME Context(t) \/ Fence(t) \/ Mutate(t)
      PROVE  Moves
  BY <1>2, <1>3, <1>4, GoMoves, IdleMoves DEF Context, Fence, Mutate
<1>5. ASSUME Take(t)
      PROVE  Moves
  <2>1. CASE slot = NoLease
    BY <1>5, <2>1, IdleMoves DEF Take
  <2>2. CASE slot # NoLease
    <3> DEFINE c == [call[t] EXCEPT !.pc = "mutate", !.lease = slot]
    <3>1. slot \in Lease /\ vault'[slot] # "none"
      BY <1>1, <2>2 DEF CredInv, TypeOK, HoldersFit
    <3>2. c \in Call /\ c.pc = "mutate" /\ c.lease = slot /\ c.todo = call[t].todo
      BY <3>1, CallOf DEF Call, PC
    <3>3. Fits(c, vault')
      BY <1>1, <3>1, <3>2, CallOf DEF Fits
    <3> QED BY <1>5, <2>2, <3>2, <3>3 DEF Take, Moves
  <2> QED BY <2>1, <2>2
<1>6. ASSUME RequestCredential(t, a) \/ CallTool(t, a)
      PROVE  Moves
  <2>1. PICK p \in Plain : Become(t, [Idle EXCEPT !.pc = p, !.attempt = a])
    BY <1>3, <1>6 DEF RequestCredential, CallTool
  <2> DEFINE c == [Idle EXCEPT !.pc = p, !.attempt = a]
  <2>2. c \in Call /\ c.pc = p /\ c.lease = NoLease /\ c.todo = {}
    BY IdleFacts DEF Idle, Call, Plain
  <2> QED BY <2>1, <2>2, BeginMoves DEF Plain
<1>7. ASSUME \E op \in {"reset", "switch"} : EndRun(t, op)
      PROVE  Moves
  <2>1. PICK op \in {"reset", "switch"} :
          Become(t, [Idle EXCEPT !.pc = "leases", !.op = op])
    BY <1>7 DEF EndRun
  <2> DEFINE c == [Idle EXCEPT !.pc = "leases", !.op = op]
  <2>2. c \in Call /\ c.pc = "leases" /\ c.lease = NoLease /\ c.todo = {}
    BY IdleFacts DEF Idle, Call, PC, Op
  <2> QED BY <1>3, <2>1, <2>2, BeginMoves
<1>8. ASSUME SelectLeases(t)
      PROVE  Moves
  <2>1. Open \subseteq Lease /\ \A l \in Open : vault'[l] # "none"
    BY <1>1 DEF Open, CredInv, EvidenceFits
  <2>2. Cleaning(t, Open) \in Call /\ Fits(Cleaning(t, Open), vault')
    BY <2>1, CallOf, NoLeaseIsNone DEF Cleaning, Call, PC, Fits
  <2> QED BY <1>8, <2>2 DEF SelectLeases, Moves
<1>9. Moves
  BY <1>4, <1>5, <1>6, <1>7, <1>8
<1> QED BY <1>1, <1>9, LocalKeeps

-----------------------------------------------------------------------------
(* The end of an attempt, the cleanup of a run, and the environment.       *)

\* A Vault call that may end lease l, with nothing written beside it.
LEMMA AnswerKeeps ==
  ASSUME CredInv, NEW l \in Lease \cup {NoLease}, VaultEnds(l) \/ VaultFails,
         Moves, UNCHANGED <<run, rows, event, memory, restarts>>
  PROVE  Keeps
<1>0. TypeOK /\ EvidenceFits /\ HoldersFit
  BY DEF CredInv
<1>1. vault' \in VaultType /\ Grows(vault, vault') /\ refusals' \in 0..MaxRefusal
  BY <1>0, AnswerFacts
<1>2. EvidenceFits' /\ HoldersFit'
  BY <1>0, <1>1, EvidenceKept, HoldersKept DEF rows, memory
<1>3. RestTyped'
  BY <1>0, <1>1 DEF TypeOK, RestTyped, rows, memory
<1> QED BY <1>1, <1>2, <1>3 DEF Keeps

LEMMA RevokeKeeps ==
  ASSUME CredInv, NEW t \in Thread,
         ReadAttempt(t) \/ RevokeLease(t) \/ RevokeAccessor(t)
  PROVE  Keeps
<1>0. TypeOK /\ call[t] \in Call /\ Fits(call[t], vault)
      /\ call[t].lease \in Lease \cup {NoLease} /\ call[t].todo \subseteq Lease
  BY CallOf, CallFacts DEF CredInv
<1>1. CASE ReadAttempt(t)
  <2>1. UNCHANGED <<run, rows, event, vault, memory, counts>>
    BY <1>1 DEF ReadAttempt
  <2>2. CASE Become(t, Idle)
    BY <2>1, <2>2, IdleMoves, LocalKeeps
  <2>3. CASE ~Become(t, Idle)
    <3> DEFINE a == call[t].attempt
               c == [call[t] EXCEPT
                       !.pc = IF rowLease[a] = NoLease THEN "update" ELSE "lease",
                       !.lease = rowLease[a]]
    <3>1. Become(t, c) /\ a \in Attempt
      BY <1>0, <1>1, <2>3 DEF ReadAttempt, At, Fits
    <3>2. rowLease[a] \in Lease \cup {NoLease}
          /\ (rowLease[a] \in Lease => vault'[rowLease[a]] # "none")
      BY <1>0, <2>1, <3>1 DEF TypeOK, CredInv, HoldersFit
    <3>3. /\ c \in Call /\ c.lease = rowLease[a] /\ c.todo = call[t].todo
          /\ c.pc = IF rowLease[a] = NoLease THEN "update" ELSE "lease"
      BY <1>0, <3>2 DEF Call, PC
    <3>4. Fits(c, vault')
      BY <1>0, <2>1, <3>2, <3>3, NoLeaseIsNone DEF Fits
    <3>5. Moves
      BY <3>1, <3>3, <3>4 DEF Moves
    <3> QED BY <2>1, <3>5, LocalKeeps
  <2> QED BY <2>2, <2>3
<1>2. CASE RevokeLease(t)
  <2>1. UNCHANGED <<run, rows, event, memory, restarts>>
        /\ call[t].lease \in Lease /\ vault[call[t].lease] # "none"
    BY <1>0, <1>2 DEF RevokeLease, At, Fits
  <2>2. CASE VaultEnds(call[t].lease) /\ Go(t, "mark")
    <3> DEFINE c == [call[t] EXCEPT !.pc = "mark"]
    <3>1. vault'[call[t].lease] = "gone" /\ Grows(vault, vault')
      BY <1>0, <2>1, <2>2, VaultEndsFacts DEF TypeOK, VaultType
    <3>2. /\ c \in Call /\ c.pc = "mark" /\ c.lease = call[t].lease
          /\ c.todo = call[t].todo
      BY <1>0 DEF Call, PC
    <3>3. Fits(c, vault')
      BY <1>0, <2>1, <3>1, <3>2 DEF Fits, Grows
    <3>4. Moves
      BY <2>2, <3>2, <3>3 DEF Moves, Go
    <3> QED BY <2>1, <2>2, <3>4, AnswerKeeps
  <2>3. CASE VaultFails /\ Go(t, "accessor")
    <3>1. Grows(vault, vault') /\ "accessor" \in Plain
      BY <2>3, GrowsReflexive DEF VaultFails, Plain, PC
    <3> QED BY <2>1, <2>3, <3>1, GoMoves, AnswerKeeps
  <2> QED BY <1>2, <2>2, <2>3 DEF RevokeLease
<1>3. CASE RevokeAccessor(t)
  <2>1. Grows(vault, vault') /\ "update" \in Plain
    BY <1>0, <1>3, AnswerFacts DEF RevokeAccessor, Plain, PC
  <2> QED BY <1>0, <1>3, <2>1, GoMoves, AnswerKeeps DEF RevokeAccessor
<1> QED BY <1>1, <1>2, <1>3

\* The two places where the end of a lease is recorded.
LEMMA MarkKeeps ==
  ASSUME CredInv, NEW t \in Thread, MarkRevoked(t) \/ CleanMark(t)
  PROVE  Keeps
<1>0. /\ TypeOK /\ EvidenceFits /\ HoldersFit
      /\ call[t] \in Call /\ Fits(call[t], vault) /\ call[t].todo \subseteq Lease
  BY CallOf, CallFacts DEF CredInv
<1>1. /\ UNCHANGED <<run, rows, vault, memory, counts>>
      /\ event' = MarkedRevoked(call[t].lease)
      /\ call[t].lease \in Lease /\ vault[call[t].lease] = "gone"
  BY <1>0 DEF MarkRevoked, CleanMark, At, Fits
<1>2. Grows(vault, vault') /\ vault' \in VaultType
  BY <1>0, <1>1, GrowsReflexive DEF TypeOK, VaultType
<1>3. event' \in [Lease -> {"none", "open", "revoked"}] /\ EvidenceFits'
  BY <1>0, <1>1, <1>2, MarkFacts
<1>4. HoldersFit'
  BY <1>0, <1>1, <1>2, HoldersKept DEF rows, memory
<1>5. Moves
  <2>1. CASE Go(t, "accessor")
    BY <1>2, <2>1, GoMoves DEF Plain, PC
  <2>2. CASE Become(t, Cleaning(t, call[t].todo))
    <3>1. Cleaning(t, call[t].todo) \in Call /\ Fits(Cleaning(t, call[t].todo), vault')
      BY <1>0, <1>1, NoLeaseIsNone DEF Cleaning, Call, PC, Fits
    <3> QED BY <2>2, <3>1 DEF Moves
  <2> QED BY <2>1, <2>2 DEF MarkRevoked, CleanMark
<1>6. RestTyped'
  BY <1>0, <1>1, <1>3 DEF TypeOK, RestTyped, rows, memory, counts
<1> QED BY <1>2, <1>3, <1>4, <1>5, <1>6 DEF Keeps

LEMMA CleanLeaseKeeps ==
  ASSUME CredInv, NEW t \in Thread, CleanLease(t)
  PROVE  Keeps
<1>0. TypeOK /\ call[t] \in Call /\ Fits(call[t], vault)
      /\ call[t].todo \subseteq Lease
  BY CallOf, CallFacts DEF CredInv
<1>1. UNCHANGED <<run, rows, event, memory, restarts>>
  BY DEF CleanLease
<1>2. PICK l \in call[t].todo :
        LET rest == call[t].todo \ {l} IN
        \/ /\ VaultEnds(l)
           /\ Become(t, [call[t] EXCEPT !.pc = "cleanMark", !.todo = rest,
                                        !.lease = l])
        \/ VaultFails /\ Become(t, Cleaning(t, rest))
  BY DEF CleanLease
<1> DEFINE rest == call[t].todo \ {l}
<1>3. l \in Lease /\ vault[l] # "none" /\ rest \subseteq Lease
  BY <1>0 DEF Fits
<1>4. CASE /\ VaultEnds(l)
           /\ Become(t, [call[t] EXCEPT !.pc = "cleanMark", !.todo = rest,
                                        !.lease = l])
  <2> DEFINE c == [call[t] EXCEPT !.pc = "cleanMark", !.todo = rest, !.lease = l]
  <2>1. vault'[l] = "gone" /\ Grows(vault, vault')
    BY <1>0, <1>3, <1>4, VaultEndsFacts DEF TypeOK, VaultType
  <2>2. c \in Call /\ c.pc = "cleanMark" /\ c.lease = l /\ c.todo = rest
    BY <1>0, <1>3 DEF Call, PC
  <2>3. Fits(c, vault')
    BY <1>0, <1>3, <2>1, <2>2 DEF Fits, Grows
  <2>4. Moves
    BY <1>4, <2>2, <2>3 DEF Moves
  <2> QED BY <1>1, <1>3, <1>4, <2>4, AnswerKeeps
<1>5. CASE VaultFails /\ Become(t, Cleaning(t, rest))
  <2>1. UNCHANGED vault
    BY <1>5 DEF VaultFails
  <2>2. Cleaning(t, rest) \in Call /\ Fits(Cleaning(t, rest), vault')
    BY <1>0, <1>3, <2>1, NoLeaseIsNone DEF Cleaning, Call, PC, Fits
  <2>3. Moves
    BY <1>5, <2>2 DEF Moves
  <2> QED BY <1>1, <1>3, <1>5, <2>3, AnswerKeeps
<1> QED BY <1>2, <1>4, <1>5

\* The slot and the accessor at the end of a cleanup, and the rows it deletes.
LEMMA CleanSlotKeeps ==
  ASSUME CredInv, NEW t \in Thread, CleanSlot(t)
  PROVE  Keeps
<1>0. /\ TypeOK /\ EvidenceFits /\ HoldersFit
      /\ call[t] \in Call /\ Fits(call[t], vault) /\ call[t].todo \subseteq Lease
  BY CallOf, CallFacts DEF CredInv
<1>1. UNCHANGED <<run, rows, memory, restarts>>
  BY DEF CleanSlot
<1>2. CASE slot = NoLease
  <2>1. UNCHANGED <<vault, event, refusals>> /\ Go(t, "wipe")
    BY <1>2 DEF CleanSlot
  <2>2. Grows(vault, vault') /\ "wipe" \in Plain
    BY <2>1, GrowsReflexive DEF Plain, PC
  <2> QED BY <1>1, <2>1, <2>2, GoMoves, LocalKeeps DEF counts
<1>3. CASE slot # NoLease
  <2> DEFINE c == [call[t] EXCEPT !.pc = "cleanAccessor", !.lease = slot]
  <2>1. slot \in Lease /\ vault[slot] # "none" /\ Become(t, c)
    BY <1>0, <1>3 DEF CleanSlot, TypeOK, HoldersFit
  <2>2. /\ c \in Call /\ c.pc = "cleanAccessor" /\ c.lease = slot
        /\ c.todo = call[t].todo
    BY <1>0, <2>1 DEF Call, PC
  <2>3. VaultEnds(slot) \/ VaultFails
    BY <1>3 DEF CleanSlot
  <2>4. vault' \in VaultType /\ Grows(vault, vault') /\ refusals' \in 0..MaxRefusal
    BY <1>0, <2>1, <2>3, AnswerFacts
  <2>5. Moves
    BY <1>0, <2>1, <2>2, <2>4 DEF Moves, Fits, Grows
  <2>6. event' \in [Lease -> {"none", "open", "revoked"}] /\ EvidenceFits'
    <3>1. CASE VaultEnds(slot) /\ event' = MarkedRevoked(slot)
      <4>1. vault'[slot] = "gone"
        BY <1>0, <2>1, <3>1, VaultEndsFacts DEF TypeOK, VaultType
      <4> QED BY <1>0, <2>1, <2>4, <3>1, <4>1, MarkFacts
    <3>2. CASE UNCHANGED event
      BY <1>0, <2>4, <3>2, EvidenceKept DEF TypeOK
    <3> QED BY <1>3, <3>1, <3>2 DEF CleanSlot
  <2>7. HoldersFit'
    BY <1>0, <1>1, <2>4, HoldersKept DEF rows, memory
  <2>8. RestTyped'
    BY <1>0, <1>1, <2>4, <2>6 DEF TypeOK, RestTyped, rows, memory
  <2> QED BY <2>4, <2>5, <2>6, <2>7, <2>8 DEF Keeps
<1> QED BY <1>2, <1>3

LEMMA CleanEndKeeps ==
  ASSUME CredInv, NEW t \in Thread,
         CleanAccessor(t) \/ Wipe(t) \/ Finish(t) \/ UpdateRevoked(t)
  PROVE  Keeps
<1>0. /\ TypeOK /\ EvidenceFits /\ HoldersFit
      /\ call[t] \in Call /\ call[t].lease \in Lease \cup {NoLease}
  BY CallOf, CallFacts DEF CredInv
<1>1. UNCHANGED <<rowLease, ticks, restarts>> /\ slot' \in {slot, NoLease}
  BY DEF CleanAccessor, Wipe, Finish, UpdateRevoked, rows, memory, counts, Forget
<1>2. vault' \in VaultType /\ Grows(vault, vault') /\ refusals' \in 0..MaxRefusal
  <2>1. CASE CleanAccessor(t)
    BY <1>0, <2>1, AnswerFacts DEF CleanAccessor
  <2>2. CASE UNCHANGED <<vault, refusals>>
    BY <1>0, <2>2, GrowsReflexive DEF TypeOK, VaultType
  <2> QED BY <2>1, <2>2 DEF Wipe, Finish, UpdateRevoked, counts
<1>3. Moves
  <2>1. {"wipe", "finish"} \subseteq Plain
    BY DEF Plain, PC
  <2> QED BY <1>2, <2>1, GoMoves, IdleMoves
          DEF CleanAccessor, Wipe, Finish, UpdateRevoked
<1>4. event' \in [Lease -> {"none", "open", "revoked"}] /\ EvidenceFits'
  <2>1. CASE UNCHANGED event
    BY <1>0, <1>2, <2>1, EvidenceKept DEF TypeOK
  <2>2. CASE event' = [l \in Lease |-> "none"]
    BY <2>2 DEF EvidenceFits
  <2> QED BY <2>1, <2>2 DEF CleanAccessor, Wipe, Finish, UpdateRevoked
<1>5. HoldersFit'
  BY <1>0, <1>1, <1>2, HoldersKept
<1>6. /\ run' \in {"live", "ended", "switched", "reset"}
      /\ exec' \in [Attempt -> {"none", "running", "ended"}]
      /\ auth' \in [Attempt -> {"none", "active", "revoked"}]
      /\ timer' \in Lease \cup {NoLease}
  BY <1>0 DEF CleanAccessor, Wipe, Finish, UpdateRevoked, TypeOK, rows, memory,
     Forget
<1>7. RestTyped'
  BY <1>0, <1>1, <1>2, <1>4, <1>6 DEF TypeOK, RestTyped
<1> QED BY <1>2, <1>3, <1>4, <1>5, <1>7 DEF Keeps

\* Attempts start and end.
LEMMA AttemptKeeps ==
  ASSUME CredInv, NEW a \in Attempt,
         StartAttempt(a) \/ \E t \in Thread : EndAttempt(t, a)
  PROVE  Keeps
<1>0. TypeOK /\ EvidenceFits /\ HoldersFit
  BY DEF CredInv
<1>1. UNCHANGED <<run, rowLease, event, vault, memory, counts>>
  BY DEF StartAttempt, EndAttempt
<1>2. vault' \in VaultType /\ Grows(vault, vault')
  BY <1>0, <1>1, GrowsReflexive DEF TypeOK, VaultType
<1>3. Moves
  <2>1. CASE StartAttempt(a)
    BY <2>1 DEF StartAttempt, Moves
  <2>2. CASE \E t \in Thread : EndAttempt(t, a)
    <3> DEFINE c == [Idle EXCEPT !.pc = "read", !.attempt = a]
    <3>1. PICK t \in Thread : Become(t, c)
      BY <2>2 DEF EndAttempt
    <3>2. /\ c \in Call /\ c.pc = "read" /\ c.lease = NoLease /\ c.todo = {}
          /\ c.attempt = a
      BY IdleFacts DEF Idle, Call, PC
    <3> QED BY <3>1, <3>2, BeginMoves
  <2> QED BY <2>1, <2>2
<1>4. EvidenceFits' /\ HoldersFit'
  BY <1>0, <1>1, <1>2, EvidenceKept, HoldersKept DEF memory
<1>5. RestTyped'
  BY <1>0, <1>1 DEF StartAttempt, EndAttempt, TypeOK, RestTyped, memory, counts
<1> QED BY <1>2, <1>3, <1>4, <1>5 DEF Keeps

\* The renewal interval and the clock of Vault.
LEMMA ClockKeeps ==
  ASSUME CredInv, Tick \/ \E l \in Lease : TickDone(l) \/ Expire(l)
  PROVE  Keeps
<1>0. TypeOK /\ EvidenceFits /\ HoldersFit
  BY DEF CredInv
<1>1. /\ UNCHANGED <<run, exec, auth, rowLease, event, call, restarts>>
      /\ slot' \in {slot, NoLease}
  BY DEF Tick, TickDone, Expire, rows, memory, counts, Forget
<1>2. vault' \in VaultType /\ Grows(vault, vault')
  <2>1. CASE UNCHANGED vault
    BY <1>0, <2>1, GrowsReflexive DEF TypeOK, VaultType
  <2>2. CASE \E l \in Lease : Expire(l)
    BY <1>0, <2>2 DEF Expire, TypeOK, VaultType, Grows
  <2> QED BY <2>1, <2>2 DEF Tick, TickDone, VaultFails
<1>3. refusals' \in 0..MaxRefusal
  BY <1>0, VaultFailsFacts DEF Tick, TickDone, Expire, counts, TypeOK
<1>4. timer' \in Lease \cup {NoLease} /\ ticks' \subseteq Lease
  BY <1>0 DEF Tick, TickDone, Expire, TypeOK, memory, Forget
<1>5. Moves
  BY <1>1 DEF Moves
<1>6. EvidenceFits' /\ HoldersFit'
  BY <1>0, <1>1, <1>2, EvidenceKept, HoldersKept
<1>7. RestTyped'
  BY <1>0, <1>1, <1>3, <1>4 DEF TypeOK, RestTyped
<1> QED BY <1>2, <1>5, <1>6, <1>7 DEF Keeps

-----------------------------------------------------------------------------
(* A restart: every handler is lost, the leases recovery ends are gone.    *)

LEMMA RestartKeeps ==
  ASSUME CredInv, Restart
  PROVE  CredInv'
<1>0. TypeOK /\ EvidenceFits /\ HoldersFit
  BY DEF CredInv
<1>1. PICK failed \in SUBSET Open :
        /\ refusals' = refusals + Cardinality(failed) /\ refusals' <= MaxRefusal
        /\ vault' = [l \in Lease |->
                      IF l \in Open \ failed THEN "gone" ELSE vault[l]]
        /\ event' = [l \in Lease |->
                      IF l \in Open \ failed THEN "revoked" ELSE event[l]]
  BY DEF Restart
<1>2. /\ UNCHANGED <<run, exec, auth, rowLease>>
      /\ slot' = NoLease /\ timer' = NoLease /\ ticks' = {}
      /\ call' = [t \in Thread |-> Idle] /\ restarts' \in 0..MaxRestart
  BY <1>0, CredentialBounds DEF Restart, Forget, rows, TypeOK
<1>3. refusals' \in 0..MaxRefusal
  <2>1. IsFiniteSet(Lease)
    <3>1. IsFiniteSet(1..MaxAttempt)
      BY FS_Interval, CredentialBounds
    <3>2. IsFiniteSet(1..MaxRequest)
      BY FS_Interval, CredentialBounds
    <3> QED BY <3>1, <3>2, FS_Product DEF Lease, Attempt
  <2>2. IsFiniteSet(failed)
    BY <1>1, <2>1, FS_Subset DEF Open
  <2>3. Cardinality(failed) \in Nat
    BY <2>2, FS_CardinalityType
  <2> QED BY <1>0, <1>1, <2>3, CredentialBounds DEF TypeOK
<1>4. vault' \in VaultType /\ Grows(vault, vault')
  BY <1>0, <1>1 DEF TypeOK, VaultType, Grows
<1>5. event' \in [Lease -> {"none", "open", "revoked"}] /\ EvidenceFits'
  BY <1>0, <1>1 DEF TypeOK, EvidenceFits
<1>6. HoldersFit'
  BY <1>0, <1>2, <1>4, HoldersKept
<1>7. call' \in [Thread -> Call] /\ CallsFit'
  BY <1>2, IdleFacts DEF CallsFit
<1>8. TypeOK'
  BY <1>0, <1>2, <1>3, <1>4, <1>5, <1>7 DEF TypeOK, VaultType
<1> QED BY <1>5, <1>6, <1>7, <1>8 DEF CredInv

-----------------------------------------------------------------------------
(* The theorems.                                                           *)

LEMMA InitHolds ==
  ASSUME Init
  PROVE  CredInv
<1>1. TypeOK
  BY CredentialBounds, IdleFacts DEF Init, TypeOK
<1>2. CallsFit
  BY IdleFacts DEF Init, CallsFit
<1>3. EvidenceFits /\ HoldersFit
  BY NoLeaseIsNone DEF Init, EvidenceFits, HoldersFit
<1> QED BY <1>1, <1>2, <1>3 DEF CredInv

LEMMA NextKeeps ==
  ASSUME CredInv, [Next]_vars
  PROVE  CredInv'
<1>1. ASSUME NEW t \in Thread, Handler(t)
      PROVE  Keeps
  <2>1. 1 \in Attempt
    BY CredentialBounds DEF Attempt
  <2>2. CASE Context(t) \/ Fence(t) \/ Take(t) \/ Mutate(t) \/ SelectLeases(t)
    BY <2>1, <2>2, DecideKeeps
  <2>3. CASE Issue(t)
    BY <2>3, IssueKeeps
  <2>4. CASE Record(t) \/ Install(t) \/ Event(t) \/ Renewal(t)
    BY <2>4, RecordKeeps
  <2>5. CASE ReadAttempt(t) \/ RevokeLease(t) \/ RevokeAccessor(t)
    BY <2>5, RevokeKeeps
  <2>6. CASE MarkRevoked(t) \/ CleanMark(t)
    BY <2>6, MarkKeeps
  <2>7. CASE CleanLease(t)
    BY <2>7, CleanLeaseKeeps
  <2>8. CASE CleanSlot(t)
    BY <2>8, CleanSlotKeeps
  <2>9. CASE CleanAccessor(t) \/ Wipe(t) \/ Finish(t) \/ UpdateRevoked(t)
    BY <2>9, CleanEndKeeps
  <2> QED BY <1>1, <2>2, <2>3, <2>4, <2>5, <2>6, <2>7, <2>8, <2>9 DEF Handler
<1>2. ASSUME NEW a \in Attempt,
             StartAttempt(a) \/ \E t \in Thread : EndAttempt(t, a)
      PROVE  Keeps
  BY <1>2, AttemptKeeps
<1>3. ASSUME NEW t \in Thread, NEW a \in Attempt,
             RequestCredential(t, a) \/ CallTool(t, a)
      PROVE  Keeps
  BY <1>3, DecideKeeps
<1>4. ASSUME NEW t \in Thread, \E op \in {"reset", "switch"} : EndRun(t, op)
      PROVE  Keeps
  <2>1. 1 \in Attempt
    BY CredentialBounds DEF Attempt
  <2> QED BY <1>4, <2>1, DecideKeeps
<1>5. ASSUME Tick \/ \E l \in Lease : TickDone(l) \/ Expire(l)
      PROVE  Keeps
  BY <1>5, ClockKeeps
<1>6. ASSUME UNCHANGED vars
      PROVE  Keeps
  <2>1. UNCHANGED <<run, rows, event, vault, memory, counts>> /\ UNCHANGED call
    BY <1>6 DEF vars
  <2> QED BY <2>1, LocalKeeps DEF Moves
<1> QED
  BY <1>1, <1>2, <1>3, <1>4, <1>5, <1>6, KeepsInv, RestartKeeps DEF Next

\* What requests, rows and memory know of the leases is true in every
\* reachable state.
THEOREM CredentialInvariant == Spec => []CredInv
<1>1. Init => CredInv
  BY InitHolds
<1>2. CredInv /\ [Next]_vars => CredInv'
  BY NextKeeps
<1> QED BY <1>1, <1>2, PTL DEF Spec

\* Every variable keeps its type.
THEOREM TypeCorrect == Spec => []TypeOK
<1>1. CredInv => TypeOK
  BY DEF CredInv
<1> QED BY <1>1, CredentialInvariant, PTL

\* No lease is recorded as revoked while it opens the database, whatever
\* overlaps, is refused by Vault or is cut short by a restart
\* (revokeCredentialLease, cleanupRunCredentials, startup recovery).
THEOREM EvidenceIsTrue == Spec => []RevokedIsGone
<1>1. CredInv => RevokedIsGone
  BY DEF CredInv, EvidenceFits, RevokedIsGone, Valid
<1> QED BY <1>1, CredentialInvariant, PTL

-----------------------------------------------------------------------------
(* What a cleanup will list. Between its issue and its evidence a lease is  *)
(* known to the request that was granted it, and to nobody else.            *)

Lists(c, l) == c.lease = l /\ c.pc \in {"record", "install", "event"}
Listing == run # "reset" /\ restarts = 0 =>
  \A l \in Lease : Valid(l) => event[l] = "open" \/ \E t \in Thread : Lists(call[t], l)

LEMMA BecomeFacts ==
  ASSUME CredInv, NEW t \in Thread, NEW c, Become(t, c)
  PROVE  call'[t] = c /\ \A u \in Thread : u # t => call'[u] = call[u]
BY DEF CredInv, TypeOK, Become

LEMMA GoFacts ==
  ASSUME CredInv, NEW t \in Thread, NEW p, Go(t, p)
  PROVE  /\ call'[t].pc = p /\ call'[t].lease = call[t].lease
         /\ call'[t].attempt = call[t].attempt /\ call'[t].todo = call[t].todo
         /\ call'[t].op = call[t].op
         /\ \A u \in Thread : u # t => call'[u] = call[u]
<1>1. call[t] \in Call BY CallOf
<1>2. call'[t] = [call[t] EXCEPT !.pc = p] /\ \A u \in Thread : u # t => call'[u] = call[u]
  BY BecomeFacts DEF Go
<1> QED BY <1>1, <1>2 DEF Call

\* A step keeps the leases listed that are valid before and after it.
LEMMA ListingOn ==
  ASSUME Listing, run' # "reset" => run # "reset", restarts' = 0 => restarts = 0,
         \A l \in Lease : run' # "reset" /\ Valid(l)' =>
           Valid(l) /\ (event[l] = "open" => event'[l] = "open"),
         \A t \in Thread, l \in Lease : run' # "reset" /\ Lists(call[t], l) =>
           Lists(call'[t], l) \/ event'[l] = "open"
  PROVE  Listing'
<1> SUFFICES ASSUME run' # "reset", restarts' = 0, NEW l \in Lease, Valid(l)'
             PROVE  event'[l] = "open" \/ \E t \in Thread : Lists(call'[t], l)
  BY DEF Listing, Lists
<1>1. event[l] = "open" \/ \E t \in Thread : Lists(call[t], l) BY DEF Listing
<1> QED BY <1>1

\* Leases only end, and what is marked revoked has ended.
LEMMA EndsOnly ==
  ASSUME CredInv, NEW l \in Lease \cup {NoLease}, VaultEnds(l) \/ VaultFails
  PROVE  \A m \in Lease : Valid(m)' => Valid(m)
<1>1. CASE VaultFails BY <1>1 DEF VaultFails, Valid
<1>2. CASE VaultEnds(l)
  BY <1>2 DEF CredInv, TypeOK, VaultEnds, Valid
<1> QED BY <1>1, <1>2

LEMMA ListingHandler ==
  ASSUME CredInv, Listing, NEW t \in Thread, Handler(t)
  PROVE  Listing'
<1>0. /\ TypeOK /\ call[t] \in Call /\ Fits(call[t], vault)
      /\ call[t].lease \in Lease \cup {NoLease} /\ call[t].todo \subseteq Lease
  BY CallOf, CallFacts DEF CredInv
<1>1. ASSUME \E c : Become(t, c), call[t].pc \notin {"record", "install", "event"}
      PROVE  \A u \in Thread, l \in Lease : Lists(call[u], l) => Lists(call'[u], l)
  BY <1>1, BecomeFacts DEF Lists
<1>2. CASE Context(t) \/ Renewal(t) \/ ReadAttempt(t) \/ UpdateRevoked(t) \/ Fence(t)
             \/ Take(t) \/ Mutate(t) \/ SelectLeases(t)
  <2>1. /\ \E c : Become(t, c)
        /\ call[t].pc \notin {"record", "install", "event"}
    BY <1>2 DEF Context, Renewal, ReadAttempt, UpdateRevoked, Fence, Take, Mutate,
       SelectLeases, Go, At
  <2>2. UNCHANGED <<run, restarts, vault, event>>
    BY <1>2 DEF Context, Renewal, ReadAttempt, UpdateRevoked, Fence, Take, Mutate,
       SelectLeases, counts
  <2> QED BY <1>1, <2>1, <2>2, ListingOn DEF Valid
<1>3. CASE Issue(t)
  <2>1. UNCHANGED <<run, restarts, event>> /\ call[t].pc = "issue"
    BY <1>3 DEF Issue, At
  <2>2. CASE VaultFails /\ Become(t, Idle)
    BY <1>1, <2>1, <2>2, ListingOn DEF Valid, VaultFails
  <2>3. CASE ~(VaultFails /\ Become(t, Idle))
    <3>1. PICK l \in Lease :
            /\ vault' = [vault EXCEPT ![l] = "valid"]
            /\ Become(t, [call[t] EXCEPT !.pc = "record", !.lease = l])
      BY <1>3, <2>3 DEF Issue
    <3>2. call'[t] = [call[t] EXCEPT !.pc = "record", !.lease = l]
          /\ \A u \in Thread : u # t => call'[u] = call[u]
      BY <3>1, BecomeFacts
    <3>3. Lists(call'[t], l) BY <1>0, <3>2 DEF Lists, Call
    <3>4. \A u \in Thread, m \in Lease : Lists(call[u], m) => Lists(call'[u], m)
      BY <2>1, <3>2 DEF Lists
    <3>5. \A m \in Lease : Valid(m)' => Valid(m) \/ m = l
      BY <1>0, <3>1 DEF Valid, TypeOK
    <3>6. ASSUME run' # "reset", restarts' = 0, NEW m \in Lease, Valid(m)'
          PROVE  event'[m] = "open" \/ \E u \in Thread : Lists(call'[u], m)
      <4>1. CASE m = l BY <3>3, <4>1
      <4>2. CASE m # l
        <5>1. event[m] = "open" \/ \E u \in Thread : Lists(call[u], m)
          BY <2>1, <3>5, <3>6, <4>2 DEF Listing
        <5> QED BY <2>1, <3>4, <5>1
      <4> QED BY <4>1, <4>2
    <3> QED BY <3>6 DEF Listing, Lists
  <2> QED BY <2>2, <2>3
<1>4. CASE Record(t) \/ Install(t) \/ Event(t)
  <2>1. UNCHANGED <<run, restarts, vault>>
    BY <1>4 DEF Record, Install, Event, counts
  <2>2. \A l \in Lease : event[l] = "open" => event'[l] = "open"
    BY <1>0, <1>4 DEF Record, Install, Event, TypeOK
  <2>3. ASSUME NEW l \in Lease, run # "reset", Lists(call[t], l)
        PROVE  Lists(call'[t], l) \/ event'[l] = "open"
    <3>1. CASE Event(t) BY <1>0, <2>3, <3>1 DEF Event, Lists, TypeOK
    <3>2. CASE Record(t) \/ Install(t)
      <4>1. Go(t, "install") \/ Go(t, "event")
        BY <2>3, <3>2 DEF Record, Install
      <4> QED BY <2>3, <4>1, GoFacts DEF Lists
    <3> QED BY <1>4, <3>1, <3>2
  <2>4. \A u \in Thread : u # t => call'[u] = call[u]
    <3>1. \E c : Become(t, c) BY <1>4 DEF Record, Install, Event, Go
    <3> QED BY <3>1, BecomeFacts
  <2> QED BY <2>1, <2>2, <2>3, <2>4, ListingOn DEF Valid
<1>5. CASE RevokeLease(t) \/ RevokeAccessor(t) \/ CleanLease(t) \/ CleanAccessor(t)
  <2>1. UNCHANGED <<run, restarts, event>>
    BY <1>5 DEF RevokeLease, RevokeAccessor, CleanLease, CleanAccessor
  <2>2. /\ \E c : Become(t, c)
        /\ call[t].pc \notin {"record", "install", "event"}
    BY <1>5 DEF RevokeLease, RevokeAccessor, CleanLease, CleanAccessor, Go, At
  <2>3. \E l \in Lease \cup {NoLease} : VaultEnds(l) \/ VaultFails
    BY <1>0, <1>5 DEF RevokeLease, RevokeAccessor, CleanLease, CleanAccessor
  <2>4. \A m \in Lease : Valid(m)' => Valid(m) BY <2>3, EndsOnly
  <2> QED BY <1>1, <2>1, <2>2, <2>4, ListingOn
<1>6. CASE MarkRevoked(t) \/ CleanMark(t)
  <2>1. /\ UNCHANGED <<run, restarts, vault>> /\ event' = MarkedRevoked(call[t].lease)
        /\ call[t].lease \in Lease /\ vault[call[t].lease] = "gone"
    BY <1>0, <1>6 DEF MarkRevoked, CleanMark, counts, At, Fits
  <2>2. /\ \E c : Become(t, c)
        /\ call[t].pc \notin {"record", "install", "event"}
    BY <1>6 DEF MarkRevoked, CleanMark, Go, At
  <2>3. \A l \in Lease : Valid(l) => event'[l] = event[l]
    BY <1>0, <2>1 DEF MarkedRevoked, Valid, TypeOK
  <2> QED BY <1>1, <2>1, <2>2, <2>3, ListingOn DEF Valid
<1>7. CASE CleanSlot(t)
  <2>1. UNCHANGED <<run, restarts>> BY <1>7 DEF CleanSlot
  <2>2. /\ \E c : Become(t, c)
        /\ call[t].pc \notin {"record", "install", "event"}
    BY <1>7 DEF CleanSlot, Go, At
  <2>3. \A l \in Lease : Valid(l)' => Valid(l) /\ event'[l] = event[l]
    <3>1. CASE VaultEnds(slot) /\ event' = MarkedRevoked(slot) /\ slot # NoLease
      <4>1. slot \in Lease /\ vault'[slot] = "gone"
        BY <1>0, <3>1, VaultEndsFacts DEF CredInv, TypeOK, VaultType, HoldersFit
      <4>2. \A l \in Lease : l # slot => event'[l] = event[l]
        BY <1>0, <3>1 DEF MarkedRevoked, TypeOK
      <4> QED BY <3>1, <4>1, <4>2, EndsOnly DEF Valid
    <3>2. CASE UNCHANGED <<vault, event>> BY <3>2 DEF Valid
    <3> QED BY <1>7, <3>1, <3>2 DEF CleanSlot, VaultFails
  <2> QED BY <1>1, <2>1, <2>2, <2>3, ListingOn
<1>8. CASE Wipe(t) \/ Finish(t)
  <2>1. /\ UNCHANGED <<restarts, vault>> /\ (run = "reset" => run' = "reset")
        /\ run' # "reset" => UNCHANGED event
    BY <1>8 DEF Wipe, Finish, counts
  <2>2. /\ \E c : Become(t, c)
        /\ call[t].pc \notin {"record", "install", "event"}
    BY <1>8 DEF Wipe, Finish, Go, At
  <2> QED BY <1>1, <2>1, <2>2, ListingOn DEF Valid
<1> QED BY <1>2, <1>3, <1>4, <1>5, <1>6, <1>7, <1>8 DEF Handler

LEMMA ListingNext ==
  ASSUME CredInv, Listing, [Next]_vars
  PROVE  Listing'
<1>1. ASSUME NEW t \in Thread, NEW a \in Attempt,
             \/ EndAttempt(t, a) \/ RequestCredential(t, a) \/ CallTool(t, a)
             \/ \E op \in {"reset", "switch"} : EndRun(t, op)
      PROVE  Listing'
  <2>1. UNCHANGED <<run, restarts, vault, event>> /\ call[t].pc = "idle"
        /\ \E c : Become(t, c)
    BY <1>1 DEF EndAttempt, RequestCredential, CallTool, EndRun, counts, At
  <2>2. \A u \in Thread, l \in Lease : Lists(call[u], l) => Lists(call'[u], l)
    BY <2>1, BecomeFacts DEF Lists
  <2> QED BY <2>1, <2>2, ListingOn DEF Valid
<1>2. ASSUME Tick \/ (\E l \in Lease : TickDone(l) \/ Expire(l))
               \/ (\E a \in Attempt : StartAttempt(a)) \/ UNCHANGED vars
      PROVE  Listing'
  <2>1. UNCHANGED <<run, restarts, event, call>>
    BY <1>2 DEF Tick, TickDone, Expire, StartAttempt, counts, vars
  <2>2. \A m \in Lease : Valid(m)' => Valid(m)
    <3>1. CASE \E l \in Lease : Expire(l)
      BY <3>1 DEF Expire, Valid, CredInv, TypeOK
    <3>2. CASE UNCHANGED vault BY <3>2 DEF Valid
    <3> QED BY <1>2, <3>1, <3>2 DEF Tick, TickDone, StartAttempt, VaultFails, vars
  <2> QED BY <2>1, <2>2, ListingOn
<1>3. ASSUME Restart PROVE Listing'
  <2>1. restarts' # 0
    BY <1>3, CredentialBounds DEF Restart, CredInv, TypeOK
  <2> QED BY <2>1 DEF Listing
<1>4. 1 \in Attempt BY CredentialBounds DEF Attempt
<1> QED BY <1>1, <1>2, <1>3, <1>4, ListingHandler DEF Next

LEMMA ListingInvariant == Spec => [](CredInv /\ Listing)
<1>1. Init => CredInv /\ Listing
  <2>1. Init => \A l \in Lease : ~Valid(l) BY DEF Init, Valid
  <2> QED BY <2>1, InitHolds DEF Listing
<1>2. CredInv /\ Listing /\ [Next]_vars => (CredInv /\ Listing)'
  BY NextKeeps, ListingNext
<1> QED BY <1>1, <1>2, PTL DEF Spec

\* Without a restart, a lease that opens the database while no request is in
\* progress is one that the cleanup of its run lists (credentials.js records
\* the evidence of each lease it issues, getUnrevokedLeases reads it), whatever
\* overlapped, was refused by Vault or lapsed.
THEOREM LeasesAreListed == Spec => []ValidIsListed
<1>1. CredInv /\ Listing => ValidIsListed
  BY DEF Listing, ValidIsListed, Quiet, At, Lists
<1> QED BY <1>1, ListingInvariant, PTL

-----------------------------------------------------------------------------
(* One request at a time. Where requests are served one after the other and *)
(* Vault refuses nothing, the slot, the row and the status of an attempt    *)
(* agree whenever no request is in progress. Restarts may come at any step. *)

Serially == (\A t, u \in Thread : t = u) /\ MaxRefusal = 0

Granting == {"issue", "record", "install", "event", "renewal"}
Revoking == {"read", "lease", "mark", "accessor", "update"}

\* An attempt starts when those before it have ended.
InTurn ==
  /\ \A a \in Attempt : exec[a] = "none" <=> auth[a] = "none"
  /\ \A a, b \in Attempt : a < b /\ exec[b] # "none" => exec[a] = "ended"
RowsAreOwn == \A a \in Attempt :
  /\ rowLease[a] \in Lease => Owner(rowLease[a]) = a /\ auth[a] # "none"
  /\ auth[a] = "revoked" => ~Valid(rowLease[a])
\* The slot holds the lease of its owner's row, dead unless the owner is running.
SlotIsOwn == slot \in Lease =>
  /\ \/ slot = rowLease[Owner(slot)]
     \/ \E t \in Thread : At(t, "install") /\ call[t].attempt = Owner(slot)
  /\ Valid(slot) /\ exec[Owner(slot)] # "running" =>
       \E t \in Thread : call[t].pc \in Revoking /\ call[t].attempt = Owner(slot)

Grants(c) ==
  /\ c.pc \in {"context"} \cup Granting => c.attempt \in Attempt /\ run # "reset"
  /\ c.pc \in Granting => exec[c.attempt] = "running" /\ auth[c.attempt] = "active"
  /\ c.pc \in Granting \ {"issue"} => c.lease \in Lease /\ Owner(c.lease) = c.attempt
  /\ c.pc = "install" => rowLease[c.attempt] = c.lease
Revokes(c) ==
  /\ c.pc \in Revoking => /\ c.attempt \in Attempt /\ run # "reset"
                          /\ exec[c.attempt] = "ended"
  /\ c.pc = "lease" => rowLease[c.attempt] = c.lease
  /\ c.pc \in {"mark", "accessor", "update"} => ~Valid(rowLease[c.attempt])
Uses(c) ==
  /\ c.pc = "fence" => c.attempt \in Attempt
  /\ c.pc \in {"take", "mutate"} => c.attempt \in Attempt /\ Current(c.attempt)
  /\ c.pc = "mutate" /\ Valid(c.lease) => Owner(c.lease) = c.attempt
Cleans(c) == restarts = 0 =>
  /\ c.pc \in {"cleanLease", "cleanMark"} => \A l \in Lease : Valid(l) => l \in c.todo
  /\ c.pc \in {"cleanSlot", "cleanAccessor", "wipe"} => \A l \in Lease : ~Valid(l)
SerialCalls == \A t \in Thread :
  Grants(call[t]) /\ Revokes(call[t]) /\ Uses(call[t]) /\ Cleans(call[t])

ResetIsClean == restarts = 0 /\ run = "reset" => \A l \in Lease : ~Valid(l)

SerialInv == InTurn /\ RowsAreOwn /\ SlotIsOwn /\ SerialCalls /\ ResetIsClean

LEMMA NoRefusal ==
  ASSUME CredInv, Serially
  PROVE  ~VaultFails
BY DEF CredInv, TypeOK, Serially, VaultFails

\* Leases only end.
Ends == \A l \in Lease : Valid(l)' => Valid(l)

LEMMA RowsOn ==
  ASSUME CredInv, SerialInv, UNCHANGED <<run, exec, auth, rowLease>>, Ends,
         restarts' = 0 => restarts = 0
  PROVE  InTurn' /\ RowsAreOwn' /\ ResetIsClean'
<1>1. InTurn' BY DEF SerialInv, InTurn
<1>2. RowsAreOwn'
  BY DEF SerialInv, RowsAreOwn, CredInv, TypeOK, Ends, Valid
<1>3. ResetIsClean' BY DEF SerialInv, ResetIsClean, Ends
<1> QED BY <1>1, <1>2, <1>3

LEMMA SlotOn ==
  ASSUME CredInv, SerialInv, UNCHANGED <<exec, rowLease>>, Ends,
         slot' \in {slot, NoLease},
         NEW t \in Thread, \A u \in Thread : u = t, call[t].pc # "install",
         call[t].pc \in Revoking =>
           \/ call'[t].pc \in Revoking /\ call'[t].attempt = call[t].attempt
           \/ rowLease[call[t].attempt] = NoLease
           \/ vault'[rowLease[call[t].attempt]] # "valid"
  PROVE  SlotIsOwn'
<1> SUFFICES ASSUME slot' \in Lease PROVE SlotIsOwn'
  BY DEF SlotIsOwn
<1>1. slot' = slot /\ slot \in Lease BY NoLeaseIsNone
<1>2. slot = rowLease[Owner(slot)] BY <1>1 DEF SerialInv, SlotIsOwn, At
<1>3. ASSUME Valid(slot)', exec[Owner(slot)] # "running"
      PROVE  call'[t].pc \in Revoking /\ call'[t].attempt = Owner(slot)
  <2>1. Valid(slot) BY <1>1, <1>3 DEF Ends, Valid
  <2>2. call[t].pc \in Revoking /\ call[t].attempt = Owner(slot)
    BY <1>1, <1>3, <2>1 DEF SerialInv, SlotIsOwn
  <2>3. slot = rowLease[call[t].attempt] /\ slot # NoLease /\ vault'[slot] = "valid"
    BY <1>1, <1>2, <1>3, <2>2 DEF Valid
  <2> QED BY <2>2, <2>3
<1> QED BY <1>1, <1>2, <1>3 DEF SlotIsOwn, Owner

\* Where nothing is required of a request.
LEMMA FreeCalls ==
  ASSUME NEW t \in Thread, \A u \in Thread : u = t,
         call'[t].pc \in {"idle", "leases", "finish"}
  PROVE  SerialCalls'
BY DEF SerialCalls, Grants, Revokes, Uses, Cleans, Granting, Revoking

LEMMA OneCall ==
  ASSUME CredInv, SerialInv, NEW t \in Thread
  PROVE  /\ Grants(call[t]) /\ Revokes(call[t]) /\ Uses(call[t]) /\ Cleans(call[t])
         /\ call[t] \in Call /\ Fits(call[t], vault)
         /\ call[t].lease \in Lease \cup {NoLease} /\ call[t].todo \subseteq Lease
BY CallOf, CallFacts DEF SerialInv, SerialCalls

LEMMA SerialIssue ==
  ASSUME CredInv, SerialInv, Serially, NEW t \in Thread,
         Context(t) \/ Issue(t) \/ Record(t) \/ Install(t) \/ Event(t) \/ Renewal(t)
  PROVE  SerialInv'
<1>0. /\ Grants(call[t]) /\ call[t] \in Call /\ call[t].lease \in Lease \cup {NoLease}
      /\ TypeOK /\ HoldersFit /\ \A u \in Thread : u = t
  BY OneCall DEF CredInv, Serially
<1>s. InTurn /\ RowsAreOwn /\ SlotIsOwn /\ ResetIsClean BY DEF SerialInv
<1>1. CASE Context(t)
  <2>1. UNCHANGED <<run, exec, auth, rowLease, slot, vault, restarts>>
    BY <1>1 DEF Context, rows, memory, counts
  <2>2. call[t].pc = "context" /\ call[t].attempt \in Attempt /\ run # "reset"
    BY <1>0, <1>1 DEF Context, At, Grants
  <2>3. \/ call'[t] = Idle
        \/ /\ call'[t].pc = "issue" /\ call'[t].attempt = call[t].attempt
           /\ exec[call[t].attempt] = "running" /\ auth[call[t].attempt] = "active"
    BY <1>1, GoFacts, BecomeFacts DEF Context
  <2>4. Ends BY <2>1 DEF Ends, Valid
  <2>5. SlotIsOwn' BY <1>0, <2>1, <2>2, <2>4, SlotOn DEF Revoking
  <2>6. SerialCalls'
    <3>1. CASE call'[t] = Idle BY <1>0, <3>1, FreeCalls DEF Idle
    <3>2. CASE call'[t] # Idle
      BY <1>0, <2>1, <2>2, <2>3, <3>2
         DEF SerialCalls, Grants, Revokes, Uses, Cleans, Granting, Revoking
    <3> QED BY <3>1, <3>2
  <2> QED BY <2>1, <2>4, <2>5, <2>6, RowsOn DEF SerialInv
<1>2. CASE Issue(t)
  <2>1. UNCHANGED <<run, exec, auth, rowLease, slot, restarts>> /\ call[t].pc = "issue"
    BY <1>2 DEF Issue, rows, memory, At
  <2>2. PICK l \in Lease :
          /\ Owner(l) = call[t].attempt /\ vault[l] = "none"
          /\ vault' = [vault EXCEPT ![l] = "valid"]
          /\ Become(t, [call[t] EXCEPT !.pc = "record", !.lease = l])
    BY <1>2, NoRefusal DEF Issue
  <2>3. call'[t] = [call[t] EXCEPT !.pc = "record", !.lease = l] BY <2>2, BecomeFacts
  <2>4. /\ call'[t].pc = "record" /\ call'[t].lease = l
        /\ call'[t].attempt = call[t].attempt
    BY <1>0, <2>3 DEF Call
  <2>5. /\ \A m \in Lease : m # l => (Valid(m)' <=> Valid(m))
        /\ slot # l /\ \A a \in Attempt : rowLease[a] # l
    BY <1>0, <2>2 DEF TypeOK, Valid, HoldersFit
  <2>6. /\ run # "reset" /\ call[t].attempt \in Attempt
        /\ exec[call[t].attempt] = "running" /\ auth[call[t].attempt] = "active"
    BY <1>0, <2>1 DEF Grants, Granting
  <2>7. InTurn' BY <1>s, <2>1 DEF InTurn
  <2>8. RowsAreOwn' BY <1>0, <1>s, <2>1, <2>5 DEF RowsAreOwn, TypeOK, Valid
  <2>9. SlotIsOwn'
    <3>1. \A u \in Thread : call[u].pc \notin Revoking /\ ~At(u, "install")
      BY <1>0, <2>1 DEF Revoking, At
    <3> QED BY <1>s, <2>1, <2>5, <3>1 DEF SlotIsOwn
  <2>10. SerialCalls'
    BY <1>0, <2>1, <2>2, <2>4, <2>6
       DEF SerialCalls, Grants, Revokes, Uses, Cleans, Granting, Revoking
  <2>11. ResetIsClean' BY <2>1, <2>6 DEF ResetIsClean
  <2> QED BY <2>7, <2>8, <2>9, <2>10, <2>11 DEF SerialInv
<1>3. CASE Record(t)
  <2>1. /\ UNCHANGED <<run, exec, auth, slot, vault, restarts>> /\ call[t].pc = "record"
        /\ Go(t, "install")
    BY <1>3 DEF Record, memory, counts, At
  <2>2. /\ run # "reset" /\ call[t].attempt \in Attempt
        /\ exec[call[t].attempt] = "running" /\ auth[call[t].attempt] = "active"
        /\ call[t].lease \in Lease /\ Owner(call[t].lease) = call[t].attempt
    BY <1>0, <2>1 DEF Grants, Granting
  <2>3. rowLease' = [rowLease EXCEPT ![call[t].attempt] = call[t].lease]
    BY <1>3, <2>2 DEF Record
  <2>4. /\ call'[t].pc = "install" /\ call'[t].lease = call[t].lease
        /\ call'[t].attempt = call[t].attempt
    BY <2>1, GoFacts
  <2>5. InTurn' /\ ResetIsClean'
    BY <1>s, <2>1 DEF InTurn, ResetIsClean, Valid
  <2>6. RowsAreOwn'
    BY <1>0, <1>s, <2>1, <2>2, <2>3 DEF RowsAreOwn, TypeOK, Valid
  <2>7. SlotIsOwn'
    <3> SUFFICES ASSUME slot \in Lease PROVE SlotIsOwn'
      BY <2>1 DEF SlotIsOwn
    <3>1. /\ slot = rowLease[Owner(slot)] /\ Owner(slot) \in Attempt
          /\ Valid(slot) => exec[Owner(slot)] = "running"
      BY <1>0, <1>s, <2>1 DEF SlotIsOwn, Revoking, At, Owner, Lease
    <3>2. CASE Owner(slot) = call[t].attempt
      BY <2>1, <2>2, <2>4, <3>2 DEF SlotIsOwn, At
    <3>3. CASE Owner(slot) # call[t].attempt
      <4>1. rowLease'[Owner(slot)] = slot BY <1>0, <2>3, <3>1, <3>3 DEF TypeOK
      <4>2. Valid(slot)' => Valid(slot) BY <2>1 DEF Valid
      <4> QED BY <2>1, <3>1, <4>1, <4>2 DEF SlotIsOwn
    <3> QED BY <3>2, <3>3
  <2>8. SerialCalls'
    <3>1. rowLease'[call[t].attempt] = call[t].lease BY <1>0, <2>2, <2>3 DEF TypeOK
    <3> QED BY <1>0, <2>1, <2>2, <2>4, <3>1
       DEF SerialCalls, Grants, Revokes, Uses, Cleans, Granting, Revoking
  <2> QED BY <2>5, <2>6, <2>7, <2>8 DEF SerialInv
<1>4. CASE Install(t)
  <2>1. /\ UNCHANGED <<run, exec, auth, rowLease, vault, restarts>>
        /\ call[t].pc = "install"
    BY <1>4 DEF Install, rows, counts, At
  <2>2. /\ run # "reset" /\ call[t].attempt \in Attempt
        /\ exec[call[t].attempt] = "running" /\ auth[call[t].attempt] = "active"
        /\ call[t].lease \in Lease /\ Owner(call[t].lease) = call[t].attempt
        /\ rowLease[call[t].attempt] = call[t].lease
    BY <1>0, <2>1 DEF Grants, Granting
  <2>3. slot' = call[t].lease /\ Go(t, "event") BY <1>4, <2>2 DEF Install
  <2>4. /\ call'[t].pc = "event" /\ call'[t].lease = call[t].lease
        /\ call'[t].attempt = call[t].attempt
    BY <2>3, GoFacts
  <2>5. SlotIsOwn' BY <2>1, <2>2, <2>3 DEF SlotIsOwn
  <2>6. SerialCalls'
    BY <1>0, <2>1, <2>2, <2>4
       DEF SerialCalls, Grants, Revokes, Uses, Cleans, Granting, Revoking
  <2>7. Ends BY <2>1 DEF Ends, Valid
  <2> QED BY <2>1, <2>5, <2>6, <2>7, RowsOn DEF SerialInv
<1>5. CASE Event(t) \/ Renewal(t)
  <2>1. /\ UNCHANGED <<run, exec, auth, rowLease, slot, vault, restarts>>
        /\ call[t].pc \in {"event", "renewal"}
    BY <1>5 DEF Event, Renewal, rows, memory, counts, At
  <2>2. /\ run # "reset" /\ call[t].attempt \in Attempt
        /\ exec[call[t].attempt] = "running" /\ auth[call[t].attempt] = "active"
        /\ call[t].lease \in Lease /\ Owner(call[t].lease) = call[t].attempt
    BY <1>0, <2>1 DEF Grants, Granting
  <2>3. \/ call'[t] = Idle
        \/ /\ call'[t].pc = "renewal" /\ call'[t].lease = call[t].lease
           /\ call'[t].attempt = call[t].attempt
    BY <1>5, GoFacts, BecomeFacts DEF Event, Renewal
  <2>4. Ends BY <2>1 DEF Ends, Valid
  <2>5. SlotIsOwn' BY <1>0, <2>1, <2>4, SlotOn DEF Revoking
  <2>6. SerialCalls'
    <3>1. CASE call'[t] = Idle BY <1>0, <3>1, FreeCalls DEF Idle
    <3>2. CASE call'[t] # Idle
      BY <1>0, <2>1, <2>2, <2>3, <3>2
         DEF SerialCalls, Grants, Revokes, Uses, Cleans, Granting, Revoking
    <3> QED BY <3>1, <3>2
  <2> QED BY <2>1, <2>4, <2>5, <2>6, RowsOn DEF SerialInv
<1> QED BY <1>1, <1>2, <1>3, <1>4, <1>5

LEMMA SerialRevoke ==
  ASSUME CredInv, SerialInv, Serially, NEW t \in Thread,
         ReadAttempt(t) \/ RevokeLease(t) \/ MarkRevoked(t) \/ RevokeAccessor(t)
           \/ UpdateRevoked(t)
  PROVE  SerialInv'
<1>0. /\ Revokes(call[t]) /\ call[t] \in Call /\ call[t].lease \in Lease \cup {NoLease}
      /\ Fits(call[t], vault) /\ TypeOK /\ \A u \in Thread : u = t
  BY OneCall DEF CredInv, Serially
<1>s. InTurn /\ RowsAreOwn /\ SlotIsOwn /\ ResetIsClean BY DEF SerialInv
<1>1. /\ call[t].pc \in Revoking /\ call[t].attempt \in Attempt /\ run # "reset"
      /\ exec[call[t].attempt] = "ended"
  BY <1>0 DEF ReadAttempt, RevokeLease, MarkRevoked, RevokeAccessor, UpdateRevoked, At,
     Revoking, Revokes
<1>2. UNCHANGED <<run, exec, rowLease, slot, restarts>>
  BY DEF ReadAttempt, RevokeLease, MarkRevoked, RevokeAccessor, UpdateRevoked, rows,
     memory, counts
<1>3. Ends
  <2>1. CASE RevokeLease(t) \/ RevokeAccessor(t)
    BY <1>0, <2>1, EndsOnly DEF RevokeLease, RevokeAccessor, Ends
  <2>2. CASE UNCHANGED vault BY <2>2 DEF Ends, Valid
  <2> QED BY <2>1, <2>2 DEF ReadAttempt, MarkRevoked, UpdateRevoked
<1>4. ASSUME UNCHANGED auth,
             call'[t].pc \in Revoking /\ call'[t].attempt = call[t].attempt,
             call'[t].pc = "lease" => rowLease[call[t].attempt] = call'[t].lease,
             call'[t].pc \in {"mark", "accessor", "update"} =>
               \/ rowLease[call[t].attempt] = NoLease
               \/ vault'[rowLease[call[t].attempt]] # "valid"
      PROVE  SerialInv'
  <2>1. SlotIsOwn' BY <1>0, <1>1, <1>2, <1>3, <1>4, SlotOn DEF Revoking
  <2>2. SerialCalls'
    BY <1>0, <1>1, <1>2, <1>4
       DEF SerialCalls, Grants, Revokes, Uses, Cleans, Granting, Revoking, Valid
  <2> QED BY <1>2, <1>3, <1>4, <2>1, <2>2, RowsOn DEF SerialInv
<1>5. ASSUME call'[t] = Idle, UNCHANGED vault,
             auth' \in {auth, [auth EXCEPT ![call[t].attempt] = "revoked"]},
             ~Valid(rowLease[call[t].attempt])
      PROVE  SerialInv'
  <2>1. SlotIsOwn' BY <1>0, <1>1, <1>2, <1>3, <1>5, SlotOn DEF Revoking, Valid
  <2>2. SerialCalls' BY <1>0, <1>5, FreeCalls DEF Idle
  <2>3. InTurn' BY <1>0, <1>1, <1>2, <1>s, <1>5 DEF InTurn, TypeOK
  <2>4. RowsAreOwn'
    BY <1>0, <1>1, <1>2, <1>s, <1>5 DEF RowsAreOwn, TypeOK, Valid
  <2>5. ResetIsClean' BY <1>1, <1>2 DEF ResetIsClean
  <2> QED BY <2>1, <2>2, <2>3, <2>4, <2>5 DEF SerialInv
<1>6. CASE ReadAttempt(t)
  <2>1. UNCHANGED <<auth, vault>> BY <1>6 DEF ReadAttempt, rows
  <2>2. CASE auth[call[t].attempt] = "revoked"
    <3>1. call'[t] = Idle BY <1>6, <2>2, BecomeFacts DEF ReadAttempt
    <3>2. ~Valid(rowLease[call[t].attempt]) BY <1>1, <1>s, <2>2 DEF RowsAreOwn
    <3> QED BY <1>5, <2>1, <3>1, <3>2
  <2>3. CASE auth[call[t].attempt] # "revoked"
    <3> DEFINE p == IF rowLease[call[t].attempt] = NoLease THEN "update" ELSE "lease"
               c == [call[t] EXCEPT !.pc = p, !.lease = rowLease[call[t].attempt]]
    <3>1. call'[t] = c
      <4>1. Become(t, c) BY <1>1, <1>6, <2>3 DEF ReadAttempt
      <4> QED BY <4>1, BecomeFacts
    <3>2. /\ c.pc = p /\ c.lease = rowLease[call[t].attempt]
          /\ c.attempt = call[t].attempt
      BY <1>0 DEF Call
    <3>3. p \in {"update", "lease"} /\ (p = "update" => rowLease[call[t].attempt] = NoLease)
      OBVIOUS
    <3> HIDE DEF c, p
    <3> QED BY <1>4, <2>1, <3>1, <3>2, <3>3 DEF Revoking
  <2> QED BY <2>2, <2>3
<1>7. CASE RevokeLease(t)
  <2>1. UNCHANGED auth /\ VaultEnds(call[t].lease) /\ Go(t, "mark") /\ call[t].pc = "lease"
    BY <1>7, NoRefusal DEF RevokeLease, rows, At
  <2>2. call[t].lease \in Lease /\ rowLease[call[t].attempt] = call[t].lease
    BY <1>0, <2>1 DEF Fits, Revokes
  <2>3. vault'[call[t].lease] # "valid"
    BY <1>0, <2>1, <2>2, NoLeaseIsNone DEF VaultEnds, Valid, TypeOK
  <2>4. call'[t].pc = "mark" /\ call'[t].attempt = call[t].attempt BY <2>1, GoFacts
  <2> QED BY <1>4, <2>1, <2>2, <2>3, <2>4 DEF Revoking
<1>8. CASE MarkRevoked(t) \/ RevokeAccessor(t)
  <2>1. /\ UNCHANGED auth /\ call[t].pc \in {"mark", "accessor"}
        /\ Go(t, "accessor") \/ Go(t, "update")
    BY <1>8 DEF MarkRevoked, RevokeAccessor, rows, At
  <2>2. ~Valid(rowLease[call[t].attempt]) BY <1>0, <2>1 DEF Revokes
  <2>3. rowLease[call[t].attempt] = NoLease
          \/ vault'[rowLease[call[t].attempt]] # "valid"
    BY <1>0, <1>1, <1>3, <2>2 DEF Ends, Valid, TypeOK
  <2>4. call'[t].pc \in {"accessor", "update"} /\ call'[t].attempt = call[t].attempt
    BY <2>1, GoFacts
  <2> QED BY <1>4, <2>1, <2>3, <2>4 DEF Revoking
<1>9. CASE UpdateRevoked(t)
  <2>1. /\ call[t].pc = "update" /\ UNCHANGED vault /\ call'[t] = Idle
        /\ auth' = [auth EXCEPT ![call[t].attempt] = "revoked"]
    BY <1>1, <1>9, BecomeFacts DEF UpdateRevoked, At
  <2>2. ~Valid(rowLease[call[t].attempt]) BY <1>0, <2>1 DEF Revokes
  <2> QED BY <1>5, <2>1, <2>2
<1> QED BY <1>6, <1>7, <1>8, <1>9

LEMMA SerialTool ==
  ASSUME CredInv, SerialInv, Serially, NEW t \in Thread, Fence(t) \/ Take(t) \/ Mutate(t)
  PROVE  SerialInv'
<1>0. /\ Uses(call[t]) /\ call[t] \in Call /\ TypeOK /\ \A u \in Thread : u = t
  BY OneCall DEF CredInv, Serially
<1>s. InTurn /\ RowsAreOwn /\ SlotIsOwn BY DEF SerialInv
<1>1. /\ UNCHANGED <<run, exec, auth, rowLease, slot, vault, restarts>>
      /\ call[t].pc \in {"fence", "take", "mutate"}
  BY DEF Fence, Take, Mutate, rows, memory, counts, At
<1>2. Ends BY <1>1 DEF Ends, Valid
<1>3. SlotIsOwn' BY <1>0, <1>1, <1>2, SlotOn DEF Revoking
<1>4. ASSUME NEW c, call'[t] = c, c.pc \in {"take", "mutate"},
             c.attempt \in Attempt /\ Current(c.attempt),
             c.pc = "mutate" /\ Valid(c.lease) => Owner(c.lease) = c.attempt
      PROVE  SerialCalls'
  BY <1>0, <1>1, <1>4
     DEF SerialCalls, Grants, Revokes, Uses, Cleans, Granting, Revoking, Valid, Current
<1>5. SerialCalls'
  <2>1. CASE call'[t] = Idle BY <1>0, <2>1, FreeCalls DEF Idle
  <2>2. CASE Fence(t) /\ call'[t] # Idle
    <3>1. Go(t, "take") /\ Current(call[t].attempt) /\ call[t].attempt \in Attempt
      BY <1>0, <2>2, BecomeFacts DEF Fence, Uses, At
    <3>2. call'[t].pc = "take" /\ call'[t].attempt = call[t].attempt BY <3>1, GoFacts
    <3> QED BY <1>4, <3>1, <3>2
  <2>3. CASE Take(t) /\ call'[t] # Idle
    <3>1. /\ call[t].pc = "take" /\ slot # NoLease
          /\ Become(t, [call[t] EXCEPT !.pc = "mutate", !.lease = slot])
      BY <2>3, BecomeFacts DEF Take, At
    <3>2. call'[t] = [call[t] EXCEPT !.pc = "mutate", !.lease = slot] BY <3>1, BecomeFacts
    <3>3. /\ call'[t].pc = "mutate" /\ call'[t].lease = slot
          /\ call'[t].attempt = call[t].attempt
      BY <1>0, <3>2 DEF Call
    <3>4. call[t].attempt \in Attempt /\ Current(call[t].attempt)
      BY <1>0, <3>1 DEF Uses
    <3>5. ASSUME Valid(slot) PROVE Owner(slot) = call[t].attempt
      <4>1. slot \in Lease /\ Owner(slot) \in Attempt /\ Attempt \subseteq Nat
        BY <1>0, <3>1, CredentialBounds DEF TypeOK, Owner, Lease, Attempt
      <4>2. exec[Owner(slot)] = "running"
        BY <1>0, <1>1, <1>s, <3>1, <3>5, <4>1 DEF SlotIsOwn, Revoking
      <4>3. /\ ~(Owner(slot) < call[t].attempt)
            /\ ~(call[t].attempt < Owner(slot))
        BY <1>s, <3>4, <4>1, <4>2 DEF InTurn, Current
      <4>4. PICK a \in Nat, b \in Nat : a = Owner(slot) /\ b = call[t].attempt
        BY <3>4, <4>1
      <4> QED BY <4>3, <4>4
    <3> QED BY <1>4, <3>3, <3>4, <3>5
  <2>4. Mutate(t) => call'[t] = Idle BY BecomeFacts DEF Mutate
  <2> QED BY <2>1, <2>2, <2>3, <2>4
<1> QED BY <1>1, <1>2, <1>3, <1>5, RowsOn DEF SerialInv

LEMMA SerialClean ==
  ASSUME CredInv, Listing, SerialInv, Serially, NEW t \in Thread,
         SelectLeases(t) \/ CleanLease(t) \/ CleanMark(t) \/ CleanSlot(t)
           \/ CleanAccessor(t) \/ Wipe(t) \/ Finish(t)
  PROVE  SerialInv'
<1>0. /\ Cleans(call[t]) /\ call[t] \in Call /\ call[t].lease \in Lease \cup {NoLease}
      /\ call[t].todo \subseteq Lease /\ TypeOK /\ \A u \in Thread : u = t
  BY OneCall DEF CredInv, Serially
<1>s. InTurn /\ RowsAreOwn /\ SlotIsOwn /\ ResetIsClean BY DEF SerialInv
<1>1. /\ UNCHANGED <<exec, auth, rowLease, restarts>> /\ slot' \in {slot, NoLease}
      /\ call[t].pc \in {"leases", "cleanLease", "cleanMark", "cleanSlot", "cleanAccessor",
                         "wipe", "finish"}
  BY DEF SelectLeases, CleanLease, CleanMark, CleanSlot, CleanAccessor, Wipe, Finish, rows,
     memory, counts, Forget, At
<1>2. Ends
  <2>1. CASE CleanLease(t) \/ CleanSlot(t) \/ CleanAccessor(t)
    <3>1. UNCHANGED vault \/ \E l \in Lease \cup {NoLease} : VaultEnds(l) \/ VaultFails
      BY <1>0, <2>1 DEF CleanLease, CleanSlot, CleanAccessor, TypeOK
    <3> QED BY <3>1, EndsOnly DEF Ends, Valid
  <2>2. CASE UNCHANGED vault BY <2>2 DEF Ends, Valid
  <2> QED BY <2>1, <2>2 DEF SelectLeases, CleanMark, Wipe, Finish
<1>3. SlotIsOwn' BY <1>0, <1>1, <1>2, SlotOn DEF Revoking
<1>4. ASSUME call'[t].pc \in {"cleanLease", "cleanMark", "cleanSlot", "cleanAccessor", "wipe"},
             UNCHANGED run,
             restarts = 0 /\ call'[t].pc \in {"cleanLease", "cleanMark"} =>
               \A l \in Lease : vault'[l] = "valid" => l \in call'[t].todo,
             restarts = 0 /\ call'[t].pc \notin {"cleanLease", "cleanMark"} =>
               \A l \in Lease : vault'[l] # "valid"
      PROVE  SerialInv'
  <2>1. SerialCalls'
    BY <1>0, <1>1, <1>4
       DEF SerialCalls, Grants, Revokes, Uses, Cleans, Granting, Revoking, Valid
  <2> QED BY <1>1, <1>2, <1>3, <1>4, <2>1, RowsOn DEF SerialInv
\* The loop goes on with the leases that are left.
<1>5. ASSUME NEW rest \in SUBSET Lease, call'[t] = Cleaning(t, rest), UNCHANGED run,
             restarts = 0 => \A l \in Lease : vault'[l] = "valid" => l \in rest
      PROVE  SerialInv'
  <2>1. /\ call'[t].todo = rest
        /\ call'[t].pc = IF rest = {} THEN "cleanSlot" ELSE "cleanLease"
    BY <1>0, <1>5 DEF Cleaning, Call
  <2> QED BY <1>4, <1>5, <2>1
<1>6. CASE SelectLeases(t)
  <2>1. UNCHANGED <<run, vault>> /\ call[t].pc = "leases" /\ call'[t] = Cleaning(t, Open)
    BY <1>6, BecomeFacts DEF SelectLeases, At
  <2>2. ASSUME restarts = 0, NEW l \in Lease, vault[l] = "valid" PROVE l \in Open
    <3>1. run # "reset" BY <1>s, <2>2, NoLeaseIsNone DEF ResetIsClean, Valid
    <3>2. Valid(l) BY <2>2, NoLeaseIsNone DEF Valid
    <3>3. \A u \in Thread : ~Lists(call[u], l) BY <1>0, <2>1 DEF Lists
    <3> QED BY <2>2, <3>1, <3>2, <3>3 DEF Listing, Open
  <2>3. Open \in SUBSET Lease BY DEF Open
  <2> QED BY <1>5, <2>1, <2>2, <2>3
<1>7. CASE CleanLease(t)
  <2>1. UNCHANGED run /\ call[t].pc = "cleanLease" BY <1>7 DEF CleanLease, At
  <2>2. PICK l \in call[t].todo :
          /\ VaultEnds(l)
          /\ Become(t, [call[t] EXCEPT !.pc = "cleanMark", !.todo = call[t].todo \ {l},
                                       !.lease = l])
    BY <1>7, NoRefusal DEF CleanLease
  <2>3. call'[t].pc = "cleanMark" /\ call'[t].todo = call[t].todo \ {l}
    <3>1. call'[t] = [call[t] EXCEPT !.pc = "cleanMark", !.todo = call[t].todo \ {l},
                                     !.lease = l]
      BY <2>2, BecomeFacts
    <3> QED BY <1>0, <3>1 DEF Call
  <2>4. vault'[l] # "valid" /\ \A m \in Lease : vault'[m] = "valid" => vault[m] = "valid"
    BY <1>0, <2>2, NoLeaseIsNone DEF VaultEnds, Valid, TypeOK
  <2>5. restarts = 0 => \A m \in Lease : vault[m] = "valid" => m \in call[t].todo
    BY <1>0, <2>1, NoLeaseIsNone DEF Cleans, Valid
  <2> QED BY <1>4, <2>1, <2>3, <2>4, <2>5
<1>8. CASE CleanMark(t)
  <2>1. /\ UNCHANGED <<run, vault>> /\ call[t].pc = "cleanMark"
        /\ call'[t] = Cleaning(t, call[t].todo)
    BY <1>8, BecomeFacts DEF CleanMark, At
  <2>2. restarts = 0 => \A m \in Lease : vault[m] = "valid" => m \in call[t].todo
    BY <1>0, <2>1, NoLeaseIsNone DEF Cleans, Valid
  <2> QED BY <1>0, <1>5, <2>1, <2>2
<1>9. CASE CleanSlot(t) \/ CleanAccessor(t)
  <2>1. UNCHANGED run /\ call[t].pc \in {"cleanSlot", "cleanAccessor"}
    BY <1>9 DEF CleanSlot, CleanAccessor, At
  <2>2. restarts = 0 => \A m \in Lease : vault'[m] # "valid"
    BY <1>0, <1>2, <2>1, NoLeaseIsNone DEF Cleans, Valid, Ends
  <2>3. call'[t].pc \in {"cleanAccessor", "wipe"}
    <3>1. CASE Go(t, "wipe") BY <3>1, GoFacts
    <3>2. CASE Become(t, [call[t] EXCEPT !.pc = "cleanAccessor", !.lease = slot])
      <4>1. call'[t] = [call[t] EXCEPT !.pc = "cleanAccessor", !.lease = slot]
        BY <3>2, BecomeFacts
      <4> QED BY <1>0, <4>1 DEF Call
    <3> QED BY <1>9, <3>1, <3>2 DEF CleanSlot, CleanAccessor
  <2> QED BY <1>4, <2>1, <2>2, <2>3
<1>10. CASE Wipe(t) \/ Finish(t)
  <2>1. /\ call'[t].pc \in {"finish", "idle"} /\ UNCHANGED vault
    BY <1>10, GoFacts, BecomeFacts DEF Wipe, Finish, Idle
  <2>2. SerialCalls' BY <1>0, <2>1, FreeCalls
  <2>3. InTurn' /\ RowsAreOwn'
    BY <1>1, <1>s, <2>1 DEF InTurn, RowsAreOwn, Valid
  <2>4. ResetIsClean'
    <3>1. CASE Wipe(t)
      <4>1. call[t].pc = "wipe" BY <3>1 DEF Wipe, At
      <4> QED BY <1>0, <1>1, <2>1, <4>1 DEF ResetIsClean, Cleans, Valid
    <3>2. CASE Finish(t)
      <4>1. run' = "reset" => run = "reset" BY <3>2 DEF Finish
      <4> QED BY <1>1, <1>s, <2>1, <4>1 DEF ResetIsClean, Valid
    <3> QED BY <1>10, <3>1, <3>2
  <2> QED BY <1>3, <2>2, <2>3, <2>4 DEF SerialInv
<1> QED BY <1>6, <1>7, <1>8, <1>9, <1>10

LEMMA SerialBegins ==
  ASSUME CredInv, SerialInv, Serially, NEW t \in Thread, NEW a \in Attempt,
         \/ EndAttempt(t, a) \/ RequestCredential(t, a) \/ CallTool(t, a)
         \/ \E op \in {"reset", "switch"} : EndRun(t, op)
  PROVE  SerialInv'
<1>0. TypeOK /\ (\A u \in Thread : u = t) /\ call[t].pc = "idle"
  BY DEF CredInv, Serially, EndAttempt, RequestCredential, CallTool, EndRun, At
<1>s. InTurn /\ RowsAreOwn /\ SlotIsOwn /\ ResetIsClean BY DEF SerialInv
<1>1. UNCHANGED <<run, auth, rowLease, slot, vault, restarts>>
  BY DEF EndAttempt, RequestCredential, CallTool, EndRun, rows, memory, counts
<1>2. Ends BY <1>1 DEF Ends, Valid
<1>3. CASE EndAttempt(t, a)
  <2>1. /\ run # "reset" /\ exec[a] = "running" /\ exec' = [exec EXCEPT ![a] = "ended"]
        /\ call'[t] = [Idle EXCEPT !.pc = "read", !.attempt = a]
    BY <1>3, BecomeFacts DEF EndAttempt
  <2>2. call'[t].pc = "read" /\ call'[t].attempt = a BY <2>1 DEF Idle
  <2>3. exec'[a] = "ended" /\ \A b \in Attempt : b # a => exec'[b] = exec[b]
    BY <1>0, <2>1 DEF TypeOK
  <2>4. InTurn' BY <1>1, <1>s, <2>1, <2>3 DEF InTurn
  <2>5. RowsAreOwn' /\ ResetIsClean' BY <1>1, <1>s DEF RowsAreOwn, ResetIsClean, Valid
  <2>6. SlotIsOwn'
    <3> SUFFICES ASSUME slot \in Lease PROVE SlotIsOwn' BY <1>1 DEF SlotIsOwn
    <3>1. /\ slot = rowLease[Owner(slot)] /\ Owner(slot) \in Attempt
          /\ Valid(slot) => exec[Owner(slot)] = "running"
      BY <1>0, <1>s DEF SlotIsOwn, Revoking, At, Owner, Lease
    <3>2. CASE Owner(slot) = a
      BY <1>1, <2>2, <3>1, <3>2 DEF SlotIsOwn, Revoking
    <3>3. CASE Owner(slot) # a
      <4>1. Valid(slot)' => Valid(slot) BY <1>1 DEF Valid
      <4> QED BY <1>1, <2>3, <3>1, <3>3, <4>1 DEF SlotIsOwn
    <3> QED BY <3>2, <3>3
  <2>7. SerialCalls'
    BY <1>0, <1>1, <2>1, <2>2, <2>3
       DEF SerialCalls, Grants, Revokes, Uses, Cleans, Granting, Revoking
  <2> QED BY <2>4, <2>5, <2>6, <2>7 DEF SerialInv
<1>4. CASE ~EndAttempt(t, a)
  <2>1. UNCHANGED exec
    BY <1>4 DEF RequestCredential, CallTool, EndRun, rows
  <2>2. SlotIsOwn' BY <1>0, <1>1, <1>2, <2>1, SlotOn DEF Revoking
  <2>3. CASE RequestCredential(t, a)
    <3>1. run # "reset" /\ call'[t] = [Idle EXCEPT !.pc = "context", !.attempt = a]
      BY <2>3, BecomeFacts DEF RequestCredential
    <3>2. SerialCalls'
      BY <1>0, <1>1, <3>1
         DEF SerialCalls, Grants, Revokes, Uses, Cleans, Granting, Revoking, Idle
    <3> QED BY <1>1, <1>2, <2>1, <2>2, <3>2, RowsOn DEF SerialInv
  <2>4. CASE CallTool(t, a)
    <3>1. call'[t] = [Idle EXCEPT !.pc = "fence", !.attempt = a]
      BY <2>4, BecomeFacts DEF CallTool
    <3>2. SerialCalls'
      BY <1>0, <3>1
         DEF SerialCalls, Grants, Revokes, Uses, Cleans, Granting, Revoking, Idle
    <3> QED BY <1>1, <1>2, <2>1, <2>2, <3>2, RowsOn DEF SerialInv
  <2>5. CASE \E op \in {"reset", "switch"} : EndRun(t, op)
    <3>1. PICK op, c : Become(t, c) /\ c = [Idle EXCEPT !.pc = "leases", !.op = op]
      BY <2>5 DEF EndRun
    <3>2. c.pc = "leases" BY <3>1 DEF Idle
    <3>3. call'[t].pc = "leases" BY <3>1, <3>2, BecomeFacts
    <3>4. SerialCalls' BY <1>0, <3>3, FreeCalls
    <3> QED BY <1>1, <1>2, <2>1, <2>2, <3>4, RowsOn DEF SerialInv
  <2> QED BY <1>4, <2>3, <2>4, <2>5
<1> QED BY <1>3, <1>4

LEMMA SerialStart ==
  ASSUME CredInv, SerialInv, Serially, NEW a \in Attempt, StartAttempt(a)
  PROVE  SerialInv'
<1>0. TypeOK /\ \A u \in Thread : call[u].pc = "idle"
  BY DEF CredInv, Serially, StartAttempt, At
<1>s. InTurn /\ RowsAreOwn /\ SlotIsOwn /\ ResetIsClean BY DEF SerialInv
<1>1. /\ UNCHANGED <<run, rowLease, slot, vault, restarts, call>>
      /\ exec[a] = "none" /\ (a > 1 => exec[a - 1] = "ended")
      /\ exec' = [exec EXCEPT ![a] = "running"] /\ auth' = [auth EXCEPT ![a] = "active"]
  BY DEF StartAttempt, memory, counts
<1>2. /\ exec'[a] = "running" /\ auth'[a] = "active"
      /\ \A b \in Attempt : b # a => exec'[b] = exec[b] /\ auth'[b] = auth[b]
  BY <1>0, <1>1 DEF TypeOK
<1>3. \A b \in Attempt : b < a => exec[b] = "ended"
  <2>1. ASSUME NEW b \in Attempt, b < a PROVE exec[b] = "ended"
    <3>1. a \in Nat /\ b \in Nat /\ b >= 1 /\ a > 1 /\ a - 1 \in Attempt
      BY <2>1, CredentialBounds DEF Attempt
    <3>2. exec[a - 1] = "ended" BY <1>1, <3>1
    <3>3. b < a - 1 \/ b = a - 1 BY <2>1, <3>1
    <3>4. CASE b = a - 1 BY <3>2, <3>4
    <3>5. CASE b < a - 1 BY <1>s, <3>1, <3>2, <3>5 DEF InTurn
    <3> QED BY <3>3, <3>4, <3>5
  <2> QED BY <2>1
<1>4. \A b \in Attempt : a < b => exec[b] = "none"
  BY <1>1, <1>s DEF InTurn
<1>5. InTurn'
  <2>1. \A b \in Attempt : exec'[b] = "none" <=> auth'[b] = "none"
    BY <1>2, <1>s DEF InTurn
  <2>2. ASSUME NEW b \in Attempt, NEW c \in Attempt, b < c, exec'[c] # "none"
        PROVE  exec'[b] = "ended"
    <3>1. b # a
      BY <1>2, <1>4, <2>2, CredentialBounds DEF Attempt
    <3>2. exec[b] = "ended" BY <1>2, <1>3, <1>s, <2>2 DEF InTurn
    <3> QED BY <1>2, <3>1, <3>2
  <2> QED BY <2>1, <2>2 DEF InTurn
<1>6. RowsAreOwn' BY <1>1, <1>2, <1>s DEF RowsAreOwn, Valid
<1>7. SlotIsOwn'
  <2> SUFFICES ASSUME slot \in Lease PROVE SlotIsOwn' BY <1>1 DEF SlotIsOwn
  <2>1. /\ slot = rowLease[Owner(slot)] /\ Owner(slot) \in Attempt
        /\ Valid(slot) => exec[Owner(slot)] = "running"
    BY <1>0, <1>s DEF SlotIsOwn, Revoking, At, Owner, Lease
  <2>2. Valid(slot)' => Valid(slot) BY <1>1 DEF Valid
  <2> QED BY <1>1, <1>2, <2>1, <2>2 DEF SlotIsOwn
<1>8. SerialCalls'
  BY <1>0, <1>1 DEF SerialCalls, Grants, Revokes, Uses, Cleans, Granting, Revoking
<1>9. ResetIsClean' BY <1>1, <1>s DEF ResetIsClean, Valid
<1> QED BY <1>5, <1>6, <1>7, <1>8, <1>9 DEF SerialInv

\* The interval, the clock of Vault, and a restart.
LEMMA SerialBeside ==
  ASSUME CredInv, SerialInv,
         Tick \/ (\E l \in Lease : TickDone(l) \/ Expire(l)) \/ Restart \/ UNCHANGED vars
  PROVE  SerialInv'
<1>0. TypeOK BY DEF CredInv
<1>1. /\ UNCHANGED <<run, exec, auth, rowLease>> /\ slot' \in {slot, NoLease}
      /\ (restarts' = 0 => restarts = 0)
  BY <1>0, CredentialBounds
     DEF Tick, TickDone, Expire, Restart, vars, rows, memory, counts, Forget, TypeOK
<1>2. Ends
  <2>1. CASE \E l \in Lease : Expire(l) BY <1>0, <2>1 DEF Expire, Ends, Valid, TypeOK
  <2>2. CASE Restart BY <1>0, <2>2 DEF Restart, Ends, Valid, TypeOK
  <2>3. CASE UNCHANGED vault BY <2>3 DEF Ends, Valid
  <2> QED BY <2>1, <2>2, <2>3 DEF Tick, TickDone, VaultFails, vars
<1>3. InTurn' /\ RowsAreOwn' /\ ResetIsClean' BY <1>1, <1>2, RowsOn
<1>4. CASE Restart
  <2>1. slot' = NoLease /\ \A u \in Thread : call'[u].pc = "idle"
    BY <1>4 DEF Restart, Forget, Idle
  <2>2. SlotIsOwn' BY <2>1, NoLeaseIsNone DEF SlotIsOwn
  <2>3. SerialCalls'
    BY <2>1 DEF SerialCalls, Grants, Revokes, Uses, Cleans, Granting, Revoking
  <2> QED BY <1>3, <2>2, <2>3 DEF SerialInv
<1>5. CASE ~Restart
  <2>1. UNCHANGED <<call, restarts>>
    BY <1>5 DEF Tick, TickDone, Expire, vars, counts
  <2>2. SlotIsOwn'
    BY <1>1, <1>2, <2>1, NoLeaseIsNone DEF SerialInv, SlotIsOwn, At, Ends
  <2>3. ASSUME NEW t \in Thread
        PROVE  (Grants(call[t]) /\ Revokes(call[t]) /\ Uses(call[t]) /\ Cleans(call[t]))'
    <3>1. /\ Grants(call[t]) /\ Revokes(call[t]) /\ Uses(call[t]) /\ Cleans(call[t])
          /\ call[t].lease \in Lease \cup {NoLease} /\ call[t].todo \subseteq Lease
      BY OneCall
    <3>2. (Grants(call[t]))' BY <1>1, <2>1, <3>1 DEF Grants
    <3>3. (Revokes(call[t]))'
      <4>1. ASSUME NEW a \in Attempt, ~Valid(rowLease[a])
            PROVE  ~(Valid(rowLease[a])')
        BY <1>0, <1>1, <1>2, <4>1 DEF Ends, Valid, TypeOK
      <4>2. call[t].pc \in Revoking => call[t].attempt \in Attempt BY <3>1 DEF Revokes
      <4> QED BY <1>1, <2>1, <3>1, <4>1, <4>2 DEF Revokes, Revoking
    <3>4. (Uses(call[t]))'
      BY <1>1, <1>2, <2>1, <3>1 DEF Uses, Current, Ends, Valid
    <3>5. (Cleans(call[t]))' BY <1>2, <2>1, <3>1 DEF Cleans, Ends
    <3> QED BY <3>2, <3>3, <3>4, <3>5
  <2>4. SerialCalls' BY <2>3 DEF SerialCalls
  <2> QED BY <1>3, <2>2, <2>4 DEF SerialInv
<1> QED BY <1>4, <1>5

\* What one request at a time keeps of the slot, the rows and the attempts.
THEOREM SerialInvariant ==
  ASSUME Serially
  PROVE  Spec => [](CredInv /\ Listing /\ SerialInv)
<1>1. ASSUME Init PROVE CredInv /\ Listing /\ SerialInv
  <2>1. CredInv BY <1>1, InitHolds
  <2>2. \A l \in Lease : ~Valid(l) BY <1>1 DEF Init, Valid
  <2>3. /\ \A t \in Thread : call[t].pc = "idle"
        /\ \A a \in Attempt : rowLease[a] = NoLease /\ exec[a] = "none" /\ auth[a] = "none"
        /\ slot = NoLease
    BY <1>1 DEF Init, Idle
  <2>4. InTurn BY <2>3 DEF InTurn
  <2>5. RowsAreOwn BY <2>3, NoLeaseIsNone DEF RowsAreOwn
  <2>6. SlotIsOwn BY <2>3, NoLeaseIsNone DEF SlotIsOwn
  <2>7. SerialCalls
    BY <2>3 DEF SerialCalls, Grants, Revokes, Uses, Cleans, Granting, Revoking
  <2> QED BY <2>1, <2>2, <2>4, <2>5, <2>6, <2>7 DEF SerialInv, Listing, ResetIsClean
<1>2. ASSUME CredInv, Listing, SerialInv, [Next]_vars
      PROVE  SerialInv'
  <2>1. ASSUME NEW t \in Thread, Handler(t) PROVE SerialInv'
    BY <1>2, <2>1, SerialIssue, SerialRevoke, SerialTool, SerialClean DEF Handler
  <2>2. 1 \in Attempt BY CredentialBounds DEF Attempt
  <2>3. ASSUME NEW t \in Thread, \E op \in {"reset", "switch"} : EndRun(t, op)
        PROVE  SerialInv'
    BY <1>2, <2>2, <2>3, SerialBegins
  <2> QED BY <1>2, <2>1, <2>3, SerialBegins, SerialStart, SerialBeside DEF Next
<1>3. CredInv /\ Listing /\ SerialInv /\ [Next]_vars => (CredInv /\ Listing /\ SerialInv)'
  BY <1>2, NextKeeps, ListingNext
<1> QED BY <1>1, <1>3, PTL DEF Spec

\* One request at a time, and Vault up: no live lease of an ended attempt is left
\* in the slot or in its row once a request is through, for any number of
\* attempts, credentials and restarts (issueAndRecordAttemptCredential,
\* revokeAttempt).
THEOREM HeldLeasesEnd ==
  ASSUME Serially
  PROVE  Spec => []HeldLeaseEnds
<1>1. ASSUME CredInv, SerialInv, Quiet, NEW l \in Lease, Valid(l),
             l \in {slot, rowLease[Owner(l)]}
      PROVE  auth[Owner(l)] = "active"
  <2>1. Owner(l) \in Attempt BY DEF Owner, Lease
  <2>2. l = rowLease[Owner(l)]
    BY <1>1 DEF SerialInv, SlotIsOwn, Quiet, At
  <2>3. auth[Owner(l)] \notin {"none", "revoked"}
    BY <1>1, <2>1, <2>2 DEF SerialInv, RowsAreOwn
  <2> QED BY <1>1, <2>1, <2>3 DEF CredInv, TypeOK
<1>2. CredInv /\ SerialInv => HeldLeaseEnds BY <1>1 DEF HeldLeaseEnds
<1> QED BY <1>2, SerialInvariant, PTL

\* One request at a time, with Vault and the process up: a reset leaves nothing of
\* its run that opens the database (cleanupRunCredentials).
THEOREM ResetsLeaveNothing ==
  ASSUME Serially, MaxRestart = 0
  PROVE  Spec => []ResetLeavesNothing
<1>1. CredInv /\ SerialInv => ResetLeavesNothing
  BY DEF CredInv, TypeOK, SerialInv, ResetIsClean, ResetLeavesNothing
<1> QED BY <1>1, SerialInvariant, PTL

\* One request at a time: a change is made with a live lease only by the attempt it
\* was issued to, although the slot outlives the attempt (requireActiveCredential).
THEOREM LeasesAreNotReused ==
  ASSUME Serially
  PROVE  Spec => NoLeaseReuse
<1>1. CredInv /\ SerialInv =>
        \A t \in Thread : Mutate(t) /\ Valid(call[t].lease) =>
          Owner(call[t].lease) = call[t].attempt
  BY DEF SerialInv, SerialCalls, Uses, Mutate, At
<1> QED BY <1>1, SerialInvariant, PTL DEF NoLeaseReuse

=============================================================================
