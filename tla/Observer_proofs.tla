-------------------------- MODULE Observer_proofs --------------------------
(***************************************************************************)
(* Proofs about Observer, for any attempts, kinds of event and bounds.     *)
(*                                                                         *)
(* Main results: findings are recorded in the order of the events, a lease *)
(* is watched until its end is seen, a finding of the current run is       *)
(* refused only after an older token was put back, and the risk agent-d    *)
(* holds is the one the findings tell.  None is inductive: all rest on the *)
(* order in which the loop works the log off (WorkedInOrder), the first on *)
(* what the findings were recorded for (FindingsAreWorked), the second on  *)
(* when the events of an attempt are published (LeaseIsIssuedOnce,         *)
(* IssuedIsFirst), the third on the run that the token in hand was minted  *)
(* for (TokenIsCurrent), the last on how far agent-d's risk is ahead of    *)
(* the findings while a signal is in hand (RiskFollows).                   *)
(***************************************************************************)
EXTENDS Observer, SequenceTheorems, WellFoundedInduction, TLAPS

Waits(i) == i \in DOMAIN log /\ log[i].fate \in {"queued", "busy"}
Worked(i) == i \in DOMAIN log /\ log[i].fate \notin {"queued", "busy", "lost"}

\* A busy event is the one the loop is at; an idle loop is at none.
HandlerIsBusy ==
  /\ handler.pc = "idle" <=> handler.ev = 0
  /\ handler.pc # "idle" => handler.ev \in DOMAIN log
  /\ handler.pc \in {"narrate", "record"} => IsSignal(log[handler.ev].kind)
  /\ handler.pc = "minted" => handler.minted # 0

\* What is queued is later than what the loop is at, and that than what it did.
WorkedInOrder ==
  \A i, j \in DOMAIN log :
    /\ Worked(i) /\ Waits(j) => i < j
    /\ log[i].fate = "busy" /\ log[j].fate = "queued" => i < j

\* An event about a lease names its attempt, and the other events none.
EventsAreAbout ==
  \A i \in DOMAIN log :
    /\ log[i].att \in Attempt <=> log[i].kind \in LeaseKind
    /\ log[i].run <= run

WritesAreLeases == \A w \in inflight : w.ev = 0

FindingsAreWorked ==
  \A k \in DOMAIN findings : findings[k].ev # 0 => Worked(findings[k].ev)

LeaseIsIssuedOnce ==
  \A i, j \in DOMAIN log :
    log[i].kind = "issued" /\ log[j].kind = "issued" /\ log[i].att = log[j].att => i = j
IssuedIsFirst ==
  \A j \in DOMAIN log : log[j].kind \in {"lease_revoked", "timed_out"} =>
    \E i \in DOMAIN log : i < j /\ log[i].kind = "issued" /\ log[i].att = log[j].att

\* The token was minted for the run of the event in hand, if that is current.
TokenIsCurrent ==
  /\ {known, refresh} \subseteq 0..run /\ token <= run
  /\ known = run => token = run \/ overtaken
  /\ handler.pc = "minted" => log[handler.ev].run <= handler.minted /\ handler.minted <= run
  /\ handler.pc \in {"narrate", "record"} => log[handler.ev].run = known

ObserverInv ==
  /\ TypeOK
  /\ HandlerIsBusy
  /\ EventsAreAbout
  /\ WorkedInOrder
  /\ WritesAreLeases
  /\ FindingsAreWorked
  /\ FindingsInOrder
  /\ LeaseIsIssuedOnce
  /\ IssuedIsFirst
  /\ WatchMatchesLease
  /\ TokenIsCurrent
  /\ CurrentIsAccepted

-----------------------------------------------------------------------------
(* Sequences and the least event of the queue.                             *)

LEMMA LeastFacts ==
  ASSUME NEW S \in SUBSET Nat, S # {}
  PROVE  Min(S) \in S /\ \A i \in S : Min(S) <= i
<1> DEFINE R == OpToRel(<, Nat)
<1>1. IsWellFoundedOn(R, Nat)
  BY NatLessThanWellFounded
<1>2. \A x, y \in Nat : y < x => <<y, x>> \in R
  BY DEF OpToRel
<1> HIDE DEF R
<1>3. PICK x \in S : \A y \in S : ~(<<y, x>> \in R)
  BY <1>1, WFMin
<1>4. ASSUME NEW y \in S PROVE x <= y
  <2>1. x \in Nat /\ y \in Nat
    OBVIOUS
  <2>2. ~(y < x)
    BY <1>2, <1>3, <2>1
  <2> QED BY <2>1, <2>2
<1> QED BY <1>4 DEF Min

LEMMA AppendFacts ==
  ASSUME NEW S, NEW seq \in Seq(S), NEW e \in S
  PROVE  /\ Append(seq, e) \in Seq(S) /\ Len(Append(seq, e)) = Len(seq) + 1
         /\ DOMAIN Append(seq, e) = DOMAIN seq \cup {Len(seq) + 1}
         /\ \A i \in DOMAIN seq : Append(seq, e)[i] = seq[i] /\ i < Len(seq) + 1
         /\ Append(seq, e)[Len(seq) + 1] = e /\ Len(seq) + 1 \notin DOMAIN seq
         /\ Len(seq) \in Nat
BY AppendProperties, LenProperties

LEMMA MapFacts ==
  ASSUME NEW S, NEW seq \in Seq(S), NEW T, NEW f \in [DOMAIN seq -> T]
  PROVE  f \in Seq(T) /\ Len(f) = Len(seq) /\ DOMAIN f = DOMAIN seq
<1>1. Len(seq) \in Nat /\ DOMAIN seq = 1..Len(seq)
  BY LenProperties
<1>2. f \in Seq(T)
  BY <1>1, SeqDef
<1> QED BY <1>1, <1>2, LenProperties

-----------------------------------------------------------------------------
(* Types, and what the steps do to the log.                                *)

EventType == [kind : Kind \cup LeaseKind, run : 1 .. MaxRun,
              att : Attempt \cup {NoAttempt}, fate : Fates]
HandlerType == [pc : {"idle", "boot", "minted", "narrate", "record"},
                ev : 0 .. MaxEvent, minted : 0 .. MaxRun]
WriteType == [ev : 0 .. MaxEvent, att : Attempt \cup {NoAttempt}]
FindingType == [ev : 0 .. MaxEvent, att : Attempt \cup {NoAttempt}, run : 1 .. MaxRun]

Busy == {i \in DOMAIN log : log[i].fate = "busy"}

\* The variables that count or remember, and are never read but by a guard.
Counters ==
  /\ fired \in SUBSET Attempt /\ born \in 0 .. Len(findings) /\ overtaken \in BOOLEAN
  /\ faults \in 0 .. MaxFault /\ refreshes \in 0 .. MaxRefresh
Agent ==
  /\ conn \in {"up", "down"} /\ handler \in HandlerType
  /\ token \in 1 .. MaxRun /\ known \in 0 .. MaxRun /\ refresh \in 0 .. MaxRun
  /\ timers \in SUBSET Attempt /\ inflight \in SUBSET WriteType /\ risk \in DOMAIN Rank

LEMMA TypeFacts ==
  TypeOK <=> /\ run \in 1 .. MaxRun /\ log \in Seq(EventType) /\ Len(log) <= MaxEvent
             /\ findings \in Seq(FindingType) /\ Agent /\ Counters
             /\ Busy = {handler.ev} \ {0}
BY DEF TypeOK, EventType, HandlerType, WriteType, FindingType, Agent, Counters, Busy

LEMMA NextTypeFacts ==
  TypeOK' <=> /\ run' \in 1 .. MaxRun /\ log' \in Seq(EventType) /\ Len(log') <= MaxEvent
              /\ findings' \in Seq(FindingType) /\ Agent' /\ Counters'
              /\ Busy' = {handler'.ev} \ {0}
BY DEF TypeOK, EventType, HandlerType, WriteType, FindingType, Agent, Counters, Busy

LEMMA BoundsFacts ==
  /\ MaxEvent \in Nat /\ MaxRun \in Nat /\ MaxRun >= 1 /\ MaxFault \in Nat
  /\ MaxRefresh \in Nat /\ NoAttempt \notin Attempt /\ Kind \cap LeaseKind = {}
BY ObserverBounds

LEMMA IdleFacts ==
  Idle \in HandlerType /\ Idle.pc = "idle" /\ Idle.ev = 0 /\ Idle.minted = 0
BY BoundsFacts DEF Idle, HandlerType

LEMMA LogFacts ==
  ASSUME TypeOK
  PROVE  /\ Len(log) \in Nat /\ Len(log) <= MaxEvent /\ DOMAIN log = 1 .. Len(log)
         /\ \A i \in DOMAIN log : /\ log[i] \in EventType /\ i \in 1 .. MaxEvent
                                  /\ i \in Nat /\ i # 0
<1>1. log \in Seq(EventType) /\ Len(log) <= MaxEvent
  BY TypeFacts
<1>2. Len(log) \in Nat /\ DOMAIN log = 1 .. Len(log)
  BY <1>1, LenProperties
<1>3. \A i \in DOMAIN log : log[i] \in EventType
  BY <1>1, <1>2, ElementOfSeq
<1> QED BY <1>1, <1>2, <1>3, BoundsFacts

LEMMA FindingFacts ==
  ASSUME TypeOK
  PROVE  /\ Len(findings) \in Nat /\ DOMAIN findings = 1 .. Len(findings)
         /\ \A k \in DOMAIN findings : findings[k] \in FindingType
<1>1. findings \in Seq(FindingType)
  BY TypeFacts
<1>2. Len(findings) \in Nat /\ DOMAIN findings = 1 .. Len(findings)
  BY <1>1, LenProperties
<1> QED BY <1>1, <1>2, ElementOfSeq

\* The log keeps its events, whose fates alone may change.
Relabels ==
  /\ log' \in Seq(EventType) /\ Len(log') = Len(log) /\ DOMAIN log' = DOMAIN log
  /\ \A i \in DOMAIN log :
       log'[i].kind = log[i].kind /\ log'[i].run = log[i].run /\ log'[i].att = log[i].att

LEMMA FateFacts ==
  ASSUME TypeOK, NEW i \in DOMAIN log, NEW f \in Fates, Fate(i, f)
  PROVE  /\ Relabels /\ log'[i].fate = f
         /\ \A j \in DOMAIN log : j # i => log'[j] = log[j]
<1>1. \A j \in DOMAIN log : log[j] \in EventType
  BY LogFacts
<1>2. log' = [log EXCEPT ![i].fate = f]
  BY DEF Fate
<1>3. log \in Seq(EventType)
  BY TypeFacts
<1>4. DOMAIN log' = DOMAIN log /\ log' = [j \in DOMAIN log |-> log'[j]]
  BY <1>2
<1>5. log'[i] = [log[i] EXCEPT !.fate = f] /\ \A j \in DOMAIN log : j # i => log'[j] = log[j]
  BY <1>2
<1>6. log'[i] \in EventType /\ log'[i].fate = f /\ log'[i].kind = log[i].kind
      /\ log'[i].run = log[i].run /\ log'[i].att = log[i].att
  BY <1>1, <1>5 DEF EventType
<1>7. log' \in [DOMAIN log -> EventType]
  BY <1>1, <1>4, <1>5, <1>6
<1>8. log' \in Seq(EventType) /\ Len(log') = Len(log)
  BY <1>3, <1>7, MapFacts
<1> QED BY <1>4, <1>5, <1>6, <1>8 DEF Relabels

\* An event is published: the log grows by it.
Grows(kind, r, a) ==
  LET n == Len(log) + 1 IN
  /\ log' \in Seq(EventType) /\ Len(log') = n /\ n <= MaxEvent
  /\ DOMAIN log' = DOMAIN log \cup {n} /\ n \notin DOMAIN log
  /\ \A i \in DOMAIN log : log'[i] = log[i] /\ i < n
  /\ log'[n].kind = kind /\ log'[n].run = r /\ log'[n].att = a
  /\ log'[n].fate \in {"queued", "lost"}

LEMMA PublishFacts ==
  ASSUME TypeOK, NEW kind \in Kind \cup LeaseKind, NEW r \in 1 .. MaxRun,
         NEW a \in Attempt \cup {NoAttempt}, PublishEvent(kind, r, a)
  PROVE  Grows(kind, r, a)
<1> DEFINE e == [kind |-> kind, run |-> r, att |-> a,
                 fate |-> IF conn = "up" THEN "queued" ELSE "lost"]
<1>1. e \in EventType /\ e.kind = kind /\ e.run = r /\ e.att = a
      /\ e.fate \in {"queued", "lost"}
  BY DEF EventType, Fates
<1>2. log' = Append(log, e) /\ Len(log) < MaxEvent
  BY DEF PublishEvent
<1>3. log \in Seq(EventType)
  BY TypeFacts
<1> HIDE DEF e
<1> QED BY <1>1, <1>2, <1>3, AppendFacts, BoundsFacts DEF Grows

\* A fate may be rewritten in all of the log at once.
LEMMA RewriteFacts ==
  ASSUME TypeOK, NEW F \in [DOMAIN log -> Fates],
         log' = [i \in DOMAIN log |-> [log[i] EXCEPT !.fate = F[i]]]
  PROVE  Relabels /\ \A i \in DOMAIN log : log'[i].fate = F[i]
<1>1. log \in Seq(EventType) /\ \A i \in DOMAIN log : log[i] \in EventType
  BY LogFacts, TypeFacts
<1>2. ASSUME NEW i \in DOMAIN log
      PROVE  /\ log'[i] \in EventType /\ log'[i].fate = F[i]
             /\ log'[i].kind = log[i].kind /\ log'[i].run = log[i].run
             /\ log'[i].att = log[i].att
  <2>1. log'[i] = [log[i] EXCEPT !.fate = F[i]] /\ F[i] \in Fates
    OBVIOUS
  <2> QED BY <1>1, <2>1 DEF EventType
<1>3. log' \in [DOMAIN log -> EventType] /\ DOMAIN log' = DOMAIN log
  BY <1>2
<1>4. log' \in Seq(EventType) /\ Len(log') = Len(log)
  BY <1>1, <1>3, MapFacts
<1> QED BY <1>2, <1>3, <1>4 DEF Relabels

LEMMA CutFacts ==
  ASSUME TypeOK, CutConnection
  PROVE  /\ Relabels
         /\ \A i \in DOMAIN log : \/ log'[i].fate = log[i].fate
                                  \/ log[i].fate = "queued" /\ log'[i].fate = "lost"
<1>1. PICK kept \in SUBSET Queued :
        log' = [i \in DOMAIN log |-> IF i \in Queued \ kept
                                       THEN [log[i] EXCEPT !.fate = "lost"] ELSE log[i]]
  BY DEF CutConnection
<1> DEFINE F == [i \in DOMAIN log |-> IF i \in Queued \ kept THEN "lost" ELSE log[i].fate]
<1>2. \A i \in DOMAIN log : log[i] \in EventType
  BY LogFacts
<1>3. F \in [DOMAIN log -> Fates]
  BY <1>2 DEF EventType, Fates
<1>4. ASSUME NEW i \in DOMAIN log
      PROVE  log'[i] = [log[i] EXCEPT !.fate = F[i]]
  BY <1>1, <1>2 DEF EventType
<1>5. log' = [i \in DOMAIN log |-> [log[i] EXCEPT !.fate = F[i]]]
  BY <1>1, <1>4
<1>6. \A i \in DOMAIN log : \/ F[i] = log[i].fate
                            \/ log[i].fate = "queued" /\ F[i] = "lost"
  BY DEF Queued
<1> HIDE DEF F
<1> QED BY <1>3, <1>5, <1>6, RewriteFacts

\* The fate of an event after a restart.
Restarted(f) == CASE f \in {"queued", "busy"} -> "lost"
                  [] f = "handled"            -> "forgotten"
                  [] OTHER                    -> f

LEMMA RestartFacts ==
  ASSUME TypeOK, Restart
  PROVE  /\ Relabels
         /\ \A i \in DOMAIN log : log'[i].fate = Restarted(log[i].fate)
<1> DEFINE F == [i \in DOMAIN log |-> Restarted(log[i].fate)]
<1>1. \A i \in DOMAIN log : log[i].fate \in Fates
  BY LogFacts DEF EventType
<1>2. \A f \in Fates : Restarted(f) \in Fates
  BY DEF Restarted, Fates
<1>3. F \in [DOMAIN log -> Fates]
  BY <1>1, <1>2
<1>4. log' = [i \in DOMAIN log |-> [log[i] EXCEPT !.fate = F[i]]]
  BY DEF Restart, Restarted
<1>5. \A i \in DOMAIN log : F[i] = Restarted(log[i].fate)
  OBVIOUS
<1> HIDE DEF F
<1> QED BY <1>3, <1>4, <1>5, RewriteFacts

\* No event about a lease is a signal.
LEMMA SignalFacts ==
  \A k : IsSignal(k) => k \notin LeaseKind
BY DEF IsSignal, Code, LeaseKind

LEMMA RiskFacts ==
  ASSUME NEW current \in DOMAIN Rank, NEW code
  PROVE  NextState(current, code) \in DOMAIN Rank
<1>1. Severity(code) \in {"NORMAL", "CRITICAL", "CONTAINED", "ELEVATED"}
  BY DEF Severity
<1>2. DOMAIN Rank = {"NORMAL", "CRITICAL", "CONTAINED", "ELEVATED"}
  BY DEF Rank
<1> QED BY <1>1, <1>2 DEF NextState

LEMMA OnEventFacts ==
  ASSUME TypeOK, EventsAreAbout, NEW i \in DOMAIN log, OnEvent(i)
  PROVE  /\ timers' = Watched(log[i]) /\ timers' \in SUBSET Attempt
         /\ inflight' = inflight /\ risk' \in DOMAIN Rank /\ handler' \in HandlerType
         /\ IsSignal(log[i].kind) =>
              /\ handler'.pc \in {"narrate", "record"} /\ handler'.ev = i
              /\ handler'.minted = 0 /\ Fate(i, "busy") /\ timers' = timers
         /\ ~IsSignal(log[i].kind) => handler' = Idle /\ Fate(i, "handled")
<1>1. timers \in SUBSET Attempt /\ risk \in DOMAIN Rank
  BY TypeFacts DEF Agent
<1>2. log[i].kind = "issued" => log[i].att \in Attempt
  BY DEF EventsAreAbout, LeaseKind
<1>3. timers' = Watched(log[i]) /\ timers' \in SUBSET Attempt
  BY <1>1, <1>2 DEF OnEvent, Watched
<1>4. inflight' = inflight
  BY DEF OnEvent
<1>5. risk' \in DOMAIN Rank
  BY <1>1, RiskFacts DEF OnEvent, RiskAfter
<1>6. CASE IsSignal(log[i].kind)
  <2>1. timers' = timers
    BY <1>3, <1>6, SignalFacts DEF Watched, LeaseKind
  <2>2. PICK p \in {"narrate", "record"} : handler' = [Idle EXCEPT !.ev = i, !.pc = p]
    BY <1>6 DEF OnEvent
  <2>3. i \in 1 .. MaxEvent
    BY LogFacts
  <2>4. handler' \in HandlerType /\ handler'.pc = p /\ handler'.ev = i /\ handler'.minted = 0
    <3>1. handler' = [pc |-> p, ev |-> i, minted |-> 0]
      BY <2>2 DEF Idle
    <3> QED BY <2>3, <3>1, BoundsFacts DEF HandlerType
  <2>5. Fate(i, "busy")
    BY <1>6 DEF OnEvent
  <2> QED BY <1>3, <1>4, <1>5, <1>6, <2>1, <2>4, <2>5
<1>7. CASE ~IsSignal(log[i].kind)
  BY <1>3, <1>4, <1>5, <1>7, IdleFacts DEF OnEvent
<1> QED BY <1>6, <1>7

LEMMA TakenFacts ==
  ASSUME TypeOK, Queued # {}
  PROVE  /\ Min(Queued) \in DOMAIN log /\ log[Min(Queued)].fate = "queued"
         /\ \A i \in DOMAIN log : log[i].fate = "queued" => Min(Queued) <= i
<1>1. Queued \in SUBSET Nat
  BY LogFacts DEF Queued
<1>2. Min(Queued) \in Queued /\ \A i \in Queued : Min(Queued) <= i
  BY <1>1, LeastFacts
<1> QED BY <1>2 DEF Queued

LEMMA FateBusy ==
  ASSUME TypeOK, NEW i \in DOMAIN log, NEW f \in Fates, Fate(i, f), Busy \subseteq {i}
  PROVE  Busy' = IF f = "busy" THEN {i} ELSE {}
BY FateFacts DEF Busy, Relabels

\* The loop takes an event that it is to handle, or is done with it.
Handles(i) ==
  /\ handler' \in HandlerType /\ Relabels
  /\ \/ /\ handler'.pc # "idle" /\ handler'.ev = i /\ Busy' = {i}
        /\ handler'.pc \in {"narrate", "record"} => IsSignal(log[i].kind)
        /\ handler'.pc # "minted"
     \/ handler' = Idle /\ Busy' = {}

LEMMA HandlesTypes ==
  ASSUME TypeOK, NEW i \in DOMAIN log, Handles(i)
  PROVE  HandlerIsBusy' /\ Busy' = {handler'.ev} \ {0}
<1>1. i # 0 /\ i \in DOMAIN log'
  BY LogFacts DEF Handles, Relabels
<1> QED BY <1>1, IdleFacts DEF HandlerIsBusy, Handles, Relabels

\* What the loop holds is busy, and nothing when it is idle.
LEMMA HeldFacts ==
  ASSUME TypeOK, HandlerIsBusy
  PROVE  /\ handler.pc = "idle" => Busy = {}
         /\ handler.pc # "idle" => /\ handler.ev \in DOMAIN log
                                   /\ log[handler.ev].fate = "busy"
                                   /\ Busy = {handler.ev}
<1>1. Busy = {handler.ev} \ {0}
  BY TypeFacts
<1>2. \A i \in DOMAIN log : i # 0
  BY LogFacts
<1> QED BY <1>1, <1>2 DEF HandlerIsBusy, Busy

LEMMA TakeHandles ==
  ASSUME TypeOK, HandlerIsBusy, EventsAreAbout, TakeEvent
  PROVE  /\ Min(Queued) \in DOMAIN log /\ Handles(Min(Queued))
         /\ timers' \in SUBSET Attempt /\ inflight' = inflight /\ risk' \in DOMAIN Rank
<1> DEFINE i == Min(Queued)
<1>1. i \in DOMAIN log
  BY TakenFacts DEF TakeEvent
<1>2. Busy = {}
  BY HeldFacts DEF TakeEvent, Free
<1>3. CASE NamesNewRun(i)
  <2>1. handler' = [Idle EXCEPT !.ev = i, !.pc = "boot"] /\ Fate(i, "busy")
        /\ UNCHANGED <<timers, risk, inflight>>
    BY <1>3 DEF TakeEvent
  <2>2. i \in 1 .. MaxEvent /\ "busy" \in Fates
    BY <1>1, LogFacts DEF Fates
  <2>3. handler' \in HandlerType /\ handler'.pc = "boot" /\ handler'.ev = i
    <3>1. handler' = [pc |-> "boot", ev |-> i, minted |-> 0]
      BY <2>1 DEF Idle
    <3> QED BY <2>2, <3>1, BoundsFacts DEF HandlerType
  <2> HIDE DEF i
  <2>4. Relabels /\ Busy' = {i}
    BY <1>1, <1>2, <2>1, <2>2, FateFacts, FateBusy
  <2> QED BY <1>1, <2>1, <2>3, <2>4, TypeFacts DEF Handles, Agent, i
<1>4. CASE ~NamesNewRun(i)
  <2>1. OnEvent(i) /\ {"busy", "handled"} \subseteq Fates
    BY <1>4 DEF TakeEvent, Fates
  <2> HIDE DEF i
  <2>2. Relabels /\ (IsSignal(log[i].kind) => Busy' = {i})
        /\ (~IsSignal(log[i].kind) => Busy' = {})
    BY <1>1, <1>2, <2>1, OnEventFacts, FateFacts, FateBusy
  <2> QED BY <1>1, <2>1, <2>2, OnEventFacts DEF Handles, i
<1> QED BY <1>3, <1>4

LEMMA StoreHandles ==
  ASSUME TypeOK, HandlerIsBusy, EventsAreAbout, StoreToken
  PROVE  /\ handler.ev \in DOMAIN log /\ Handles(handler.ev)
         /\ timers' \in SUBSET Attempt /\ inflight' = inflight /\ risk' \in DOMAIN Rank
<1>1. /\ handler.ev \in DOMAIN log /\ Busy = {handler.ev} /\ OnEvent(handler.ev)
      /\ {"busy", "handled"} \subseteq Fates
  BY HeldFacts DEF StoreToken, Fates
<1>2. /\ Relabels /\ (IsSignal(log[handler.ev].kind) => Busy' = {handler.ev})
      /\ (~IsSignal(log[handler.ev].kind) => Busy' = {})
  BY <1>1, OnEventFacts, FateFacts, FateBusy
<1> QED BY <1>1, <1>2, OnEventFacts DEF Handles

\* The loop is done with its event, one way or the other.
LEMMA DoneHandles ==
  ASSUME TypeOK, HandlerIsBusy, handler.pc # "idle", handler' = Idle,
         NEW f \in Fates \ {"busy"}, Fate(handler.ev, f)
  PROVE  handler.ev \in DOMAIN log /\ Handles(handler.ev)
BY HeldFacts, FateFacts, FateBusy, IdleFacts DEF Handles

LEMMA RecordDone ==
  ASSUME TypeOK, Record
  PROVE  \E f \in {"recorded", "refused", "stale"} : Fate(handler.ev, f)
BY DEF Record

LEMMA GrowsTypes ==
  ASSUME TypeOK, HandlerIsBusy, NEW kind, NEW r, NEW a, Grows(kind, r, a),
         UNCHANGED <<obs, run, refresh, inflight, findings, fired, born,
                     overtaken, faults, refreshes>>
  PROVE  TypeOK' /\ HandlerIsBusy'
<1>1. Busy' = Busy
  BY DEF Busy, Grows
<1>2. Agent' /\ Counters'
  BY TypeFacts DEF Agent, Counters, obs
<1>3. HandlerIsBusy'
  BY DEF HandlerIsBusy, Grows, obs
<1> QED BY <1>1, <1>2, <1>3, TypeFacts, NextTypeFacts DEF Grows, obs

LEMMA RunOfFacts ==
  ASSUME TypeOK, EventsAreAbout, NEW a, Published(a, "issued")
  PROVE  RunOf(a) \in 1 .. MaxRun /\ RunOf(a) <= run
<1> DEFINE j == CHOOSE i \in DOMAIN log : log[i].att = a /\ log[i].kind = "issued"
<1>1. j \in DOMAIN log /\ RunOf(a) = log[j].run
  BY DEF Published, RunOf
<1> HIDE DEF j
<1> QED BY <1>1, LogFacts DEF EventType, EventsAreAbout

\* The steps that publish.
Publishes ==
  \/ \E kind \in Kind, r \in 1 .. MaxRun : Publish(kind, r)
  \/ \E a \in Attempt : IssueLease(a)
  \/ \E a \in Attempt, kind \in {"lease_revoked", "timed_out"} : EndLease(a, kind)

LEMMA PublishesGrows ==
  ASSUME TypeOK, EventsAreAbout, Publishes
  PROVE  /\ UNCHANGED <<obs, run, refresh, inflight, findings, fired, born,
                        overtaken, faults, refreshes>>
         /\ \E kind \in Kind \cup LeaseKind, r \in 1 .. MaxRun,
               a \in Attempt \cup {NoAttempt} :
              /\ Grows(kind, r, a) /\ r <= run
              /\ a \in Attempt <=> kind \in LeaseKind
              /\ kind = "issued" => ~Published(a, "issued")
              /\ kind \in {"lease_revoked", "timed_out"} =>
                   Published(a, "issued") /\ ~Published(a, "lease_revoked")
<1>0. run \in 1 .. MaxRun
  BY TypeFacts
<1>1. CASE \E kind \in Kind, r \in 1 .. MaxRun : Publish(kind, r)
  <2>1. PICK kind \in Kind, r \in 1 .. MaxRun : Publish(kind, r)
    BY <1>1
  <2>2. Grows(kind, r, NoAttempt) /\ r <= run
    BY <1>0, <2>1, PublishFacts DEF Publish
  <2>3. kind \notin LeaseKind /\ NoAttempt \notin Attempt
    BY BoundsFacts
  <2> QED BY <2>1, <2>2, <2>3 DEF Publish, LeaseKind
<1>2. CASE \E a \in Attempt : IssueLease(a)
  <2>1. PICK a \in Attempt : IssueLease(a)
    BY <1>2
  <2>2. "issued" \in LeaseKind
    BY DEF LeaseKind
  <2>3. Grows("issued", run, a)
    BY <1>0, <2>1, <2>2, PublishFacts DEF IssueLease
  <2> QED BY <1>0, <2>1, <2>2, <2>3 DEF IssueLease
<1>3. CASE \E a \in Attempt, kind \in {"lease_revoked", "timed_out"} : EndLease(a, kind)
  <2>1. PICK a \in Attempt, kind \in {"lease_revoked", "timed_out"} : EndLease(a, kind)
    BY <1>3
  <2>2. kind \in LeaseKind /\ kind # "issued"
    BY DEF LeaseKind
  <2>3. RunOf(a) \in 1 .. MaxRun /\ RunOf(a) <= run
    BY <2>1, RunOfFacts DEF EndLease
  <2>4. Grows(kind, RunOf(a), a)
    BY <2>1, <2>2, <2>3, PublishFacts DEF EndLease
  <2> QED BY <2>1, <2>2, <2>3, <2>4 DEF EndLease
<1> QED BY <1>1, <1>2, <1>3 DEF Publishes

LEMMA NextIsOneOf ==
  ASSUME Next
  PROVE  \/ Publishes \/ SwitchRun \/ CutConnection \/ Restart \/ CallFails
         \/ RefreshToken \/ StoreRefresh \/ Connect \/ TakeEvent \/ MintToken
         \/ StoreToken \/ Narrate \/ Record
         \/ \E a \in Attempt : ReportLingering(a)
         \/ \E w \in inflight : WriteArrives(w)
BY DEF Next, Loop, Publishes

LEMMA RecordsFacts ==
  ASSUME TypeOK, NEW ev \in 0 .. MaxEvent, NEW a \in Attempt \cup {NoAttempt},
         RecordFinding(ev, a)
  PROVE  /\ findings' \in Seq(FindingType) /\ Len(findings') = Len(findings) + 1
         /\ DOMAIN findings' = DOMAIN findings \cup {Len(findings) + 1}
         /\ \A k \in DOMAIN findings : findings'[k] = findings[k] /\ k < Len(findings) + 1
         /\ findings'[Len(findings) + 1].ev = ev
         /\ Len(findings) \in Nat /\ Len(findings) + 1 \notin DOMAIN findings
<1> DEFINE f == [ev |-> ev, att |-> a, run |-> token]
<1>1. f \in FindingType /\ f.ev = ev
  BY TypeFacts DEF FindingType, Agent
<1>2. findings' = Append(findings, f) /\ findings \in Seq(FindingType)
  BY TypeFacts DEF RecordFinding
<1> HIDE DEF f
<1> QED BY <1>1, <1>2, AppendFacts

LEMMA TypeStep ==
  ASSUME TypeOK, HandlerIsBusy, EventsAreAbout, [Next]_vars
  PROVE  TypeOK' /\ HandlerIsBusy'
<1>1. /\ run \in 1 .. MaxRun /\ log \in Seq(EventType) /\ Len(log) <= MaxEvent
      /\ findings \in Seq(FindingType) /\ Agent /\ Counters /\ Busy = {handler.ev} \ {0}
      /\ Len(findings) \in Nat
  BY TypeFacts, FindingFacts
<1>2. CASE Publishes
  BY <1>2, PublishesGrows, GrowsTypes
<1>3. CASE SwitchRun
  <2>1. run' \in 1 .. MaxRun
    BY <1>1, <1>3, BoundsFacts DEF SwitchRun
  <2> QED BY <1>1, <1>3, <2>1, NextTypeFacts
          DEF SwitchRun, obs, Agent, Counters, Busy, HandlerIsBusy
<1>4. CASE CutConnection
  <2>1. Relabels /\ Busy' = Busy /\ HandlerIsBusy'
    BY <1>4, CutFacts DEF Relabels, Busy, HandlerIsBusy, CutConnection
  <2>2. Agent' /\ Counters'
    BY <1>1, <1>4, BoundsFacts DEF Agent, Counters, CutConnection
  <2> QED BY <1>1, <1>4, <2>1, <2>2, NextTypeFacts DEF CutConnection, Relabels
<1>5. CASE Restart
  <2>1. Relabels /\ Busy' = {}
    BY <1>5, RestartFacts DEF Relabels, Busy, Restarted
  <2>2. HandlerIsBusy' /\ handler'.ev = 0 /\ handler' \in HandlerType
    BY <1>5, IdleFacts DEF HandlerIsBusy, Restart
  <2>3. Agent'
    BY <1>1, <1>5, <2>2, BoundsFacts DEF Agent, Restart, Rank
  <2>4. Counters'
    BY <1>1, <1>5, BoundsFacts DEF Counters, Restart
  <2> QED BY <1>1, <1>5, <2>1, <2>2, <2>3, <2>4, NextTypeFacts DEF Restart, Relabels
<1>6. CASE CallFails
  <2>1. handler.ev \in DOMAIN log /\ Handles(handler.ev)
    BY <1>6, DoneHandles DEF CallFails, Fates
  <2>2. HandlerIsBusy' /\ Busy' = {handler'.ev} \ {0} /\ handler' \in HandlerType /\ Relabels
    BY <2>1, HandlesTypes DEF Handles
  <2>3. Agent' /\ Counters'
    BY <1>1, <1>6, <2>2, BoundsFacts DEF Agent, Counters, CallFails
  <2> QED BY <1>1, <1>6, <2>2, <2>3, NextTypeFacts DEF CallFails, Relabels
<1>7. CASE RefreshToken \/ StoreRefresh \/ Connect
  <2>1. Agent'
    BY <1>1, <1>7, BoundsFacts DEF Agent, RefreshToken, StoreRefresh, Connect, obs
  <2>2. overtaken' \in BOOLEAN
    <3>1. CASE StoreRefresh
      <4>1. overtaken' = (overtaken \/ refresh < token)
        BY <3>1 DEF StoreRefresh
      <4>2. (overtaken \/ refresh < token) \in BOOLEAN
        BY SMT
      <4> QED BY <4>1, <4>2
    <3>2. CASE RefreshToken \/ Connect
      BY <1>1, <3>2 DEF Counters, RefreshToken, Connect
    <3> QED BY <1>7, <3>1, <3>2
  <2>3. /\ UNCHANGED <<fired, born, findings, faults>>
        /\ refreshes' \in 0 .. MaxRefresh
    BY <1>1, <1>7, BoundsFacts DEF Counters, RefreshToken, StoreRefresh, Connect
  <2>4. Counters'
    BY <1>1, <2>2, <2>3 DEF Counters
  <2> QED BY <1>1, <1>7, <2>1, <2>4, NextTypeFacts
          DEF RefreshToken, StoreRefresh, Connect, Busy, HandlerIsBusy, obs
<1>8. CASE TakeEvent
  <2>1. /\ HandlerIsBusy' /\ Busy' = {handler'.ev} \ {0} /\ handler' \in HandlerType
        /\ Relabels
    BY <1>8, TakeHandles, HandlesTypes DEF Handles
  <2>2. Agent' /\ Counters'
    BY <1>1, <1>8, <2>1, TakeHandles DEF Agent, Counters, TakeEvent
  <2> QED BY <1>1, <1>8, <2>1, <2>2, NextTypeFacts DEF TakeEvent, Relabels
<1>9. CASE StoreToken
  <2>1. /\ HandlerIsBusy' /\ Busy' = {handler'.ev} \ {0} /\ handler' \in HandlerType
        /\ Relabels
    BY <1>9, StoreHandles, HandlesTypes DEF Handles
  <2>2. known' \in 0 .. MaxRun
    BY <1>9, StoreHandles, LogFacts DEF StoreToken, EventType
  <2>3. token' \in 1 .. MaxRun
    BY <1>1, <1>9 DEF StoreToken, Agent, HandlerType, HandlerIsBusy
  <2>4. Agent' /\ Counters'
    BY <1>1, <1>9, <2>1, <2>2, <2>3, StoreHandles DEF Agent, Counters, StoreToken
  <2> QED BY <1>1, <1>9, <2>1, <2>4, NextTypeFacts DEF StoreToken, Relabels
<1>10. CASE MintToken
  <2>1. handler' = [handler EXCEPT !.pc = "minted", !.minted = run]
        /\ handler \in HandlerType
    BY <1>1, <1>10 DEF MintToken, Agent
  <2>2. /\ handler' \in HandlerType /\ handler'.pc = "minted" /\ handler'.ev = handler.ev
        /\ handler'.minted = run
    <3>1. run \in 0 .. MaxRun
      BY <1>1, BoundsFacts
    <3>2. handler' = [pc |-> "minted", ev |-> handler.ev, minted |-> run]
      BY <2>1 DEF HandlerType
    <3> QED BY <2>1, <3>1, <3>2 DEF HandlerType
  <2>3. Agent' /\ Counters' /\ HandlerIsBusy'
    BY <1>1, <1>10, <2>2 DEF Agent, Counters, HandlerIsBusy, MintToken
  <2> QED BY <1>1, <1>10, <2>2, <2>3, NextTypeFacts DEF MintToken, Busy
<1>11. CASE Narrate
  <2>1. /\ handler' \in HandlerType /\ handler'.pc = "record" /\ handler'.ev = handler.ev
    BY <1>1, <1>11 DEF Agent, HandlerType, Narrate
  <2>2. Agent' /\ Counters' /\ HandlerIsBusy'
    BY <1>1, <1>11, <2>1 DEF Agent, Counters, HandlerIsBusy, Narrate
  <2> QED BY <1>1, <1>11, <2>1, <2>2, NextTypeFacts DEF Narrate, Busy
<1>12. CASE Record
  <2>1. PICK f \in {"recorded", "refused", "stale"} : Fate(handler.ev, f)
    BY <1>12, RecordDone
  <2>2. handler.ev \in DOMAIN log /\ Handles(handler.ev)
    BY <1>12, <2>1, DoneHandles DEF Record, Fates
  <2>3. HandlerIsBusy' /\ Busy' = {handler'.ev} \ {0} /\ handler' \in HandlerType /\ Relabels
    BY <2>2, HandlesTypes DEF Handles
  <2>4. findings' \in Seq(FindingType) /\ Len(findings') \in Nat
        /\ Len(findings') >= Len(findings)
    <3>1. CASE RecordFinding(handler.ev, NoAttempt)
      BY <1>1, <2>2, <3>1, RecordsFacts, LogFacts
    <3> QED BY <1>1, <1>12, <3>1 DEF Record
  <2>5. Agent' /\ Counters'
    BY <1>1, <1>12, <2>3, <2>4 DEF Agent, Counters, Record
  <2> QED BY <1>1, <1>12, <2>3, <2>4, <2>5, NextTypeFacts DEF Record, Relabels
<1>13. ASSUME NEW a \in Attempt, ReportLingering(a) PROVE TypeOK' /\ HandlerIsBusy'
  <2>1. [ev |-> 0, att |-> a] \in WriteType
    BY BoundsFacts DEF WriteType
  <2>2. Agent' /\ Counters'
    BY <1>1, <1>13, <2>1 DEF Agent, Counters, ReportLingering
  <2> QED BY <1>1, <1>13, <2>2, NextTypeFacts DEF ReportLingering, Busy, HandlerIsBusy
<1>14. ASSUME NEW w \in inflight, WriteArrives(w) PROVE TypeOK' /\ HandlerIsBusy'
  <2>1. w.ev \in 0 .. MaxEvent /\ w.att \in Attempt \cup {NoAttempt}
    BY <1>1 DEF Agent, WriteType
  <2>2. findings' \in Seq(FindingType) /\ Len(findings') \in Nat
        /\ Len(findings') >= Len(findings)
    <3>1. CASE RecordFinding(w.ev, w.att)
      BY <1>1, <2>1, <3>1, RecordsFacts
    <3> QED BY <1>1, <1>14, <3>1 DEF WriteArrives
  <2>3. Agent' /\ Counters'
    BY <1>1, <1>14, <2>2 DEF Agent, Counters, WriteArrives, obs
  <2> QED BY <1>1, <1>14, <2>2, <2>3, NextTypeFacts
          DEF WriteArrives, Busy, HandlerIsBusy, obs
<1>15. CASE UNCHANGED vars
  BY <1>1, <1>15, NextTypeFacts DEF vars, obs, Agent, Counters, Busy, HandlerIsBusy
<1> QED
  BY <1>2, <1>3, <1>4, <1>5, <1>6, <1>7, <1>8, <1>9, <1>10, <1>11, <1>12, <1>13, <1>14,
     <1>15, NextIsOneOf

-----------------------------------------------------------------------------
(* What the log says of leases.                                            *)

LEMMA SameLog ==
  ASSUME TypeOK, UNCHANGED log
  PROVE  Relabels
BY TypeFacts DEF Relabels

LEMMA LogStep ==
  ASSUME TypeOK, HandlerIsBusy, EventsAreAbout, [Next]_vars
  PROVE  Publishes \/ (Relabels /\ run' >= run)
<1>1. run \in Nat
  BY TypeFacts, BoundsFacts
<1>2. CASE UNCHANGED log /\ run' \in {run, run + 1}
  BY <1>1, <1>2, SameLog
<1>3. CASE CutConnection \/ Restart
  <2>1. Relabels
    BY <1>3, CutFacts, RestartFacts
  <2>2. run' = run
    BY <1>3 DEF CutConnection, Restart
  <2> QED BY <1>1, <2>1, <2>2
<1>4. CASE CallFails
  BY <1>1, <1>4, DoneHandles DEF CallFails, Handles, Fates
<1>5. CASE TakeEvent \/ StoreToken
  BY <1>1, <1>5, TakeHandles, StoreHandles DEF TakeEvent, StoreToken, Handles
<1>6. CASE Record
  <2>1. PICK f \in {"recorded", "refused", "stale"} : Fate(handler.ev, f)
    BY <1>6, RecordDone
  <2>2. Relabels
    BY <1>6, <2>1, DoneHandles DEF Record, Handles, Fates
  <2> QED BY <1>1, <1>6, <2>2 DEF Record
<1>7. CASE \/ SwitchRun \/ RefreshToken \/ StoreRefresh \/ Connect \/ MintToken \/ Narrate
           \/ \E a \in Attempt : ReportLingering(a)
           \/ \E w \in inflight : WriteArrives(w)
           \/ UNCHANGED vars
  BY <1>2, <1>7 DEF SwitchRun, RefreshToken, StoreRefresh, Connect, MintToken, Narrate,
                    ReportLingering, WriteArrives, vars
<1> QED BY <1>3, <1>4, <1>5, <1>6, <1>7, NextIsOneOf

LEMMA EventsStep ==
  ASSUME TypeOK, HandlerIsBusy, EventsAreAbout, LeaseIsIssuedOnce, IssuedIsFirst,
         [Next]_vars
  PROVE  EventsAreAbout' /\ LeaseIsIssuedOnce' /\ IssuedIsFirst'
<1>0. run \in Nat /\ run' \in Nat
  <2>1. run' \in 1 .. MaxRun
    BY TypeStep, NextTypeFacts
  <2> QED BY <2>1, TypeFacts, BoundsFacts
<1>1. CASE Relabels /\ run' >= run
  <2>1. EventsAreAbout'
    <3>1. \A i \in DOMAIN log : log[i].run \in Nat
      BY LogFacts, BoundsFacts DEF EventType
    <3> QED BY <1>0, <1>1, <3>1 DEF EventsAreAbout, Relabels
  <2>2. LeaseIsIssuedOnce'
    BY <1>1 DEF LeaseIsIssuedOnce, Relabels
  <2>3. IssuedIsFirst'
    BY <1>1 DEF IssuedIsFirst, Relabels
  <2> QED BY <2>1, <2>2, <2>3
<1>2. CASE Publishes
  <2>1. PICK kind \in Kind \cup LeaseKind, r \in 1 .. MaxRun,
             a \in Attempt \cup {NoAttempt} :
          /\ Grows(kind, r, a) /\ r <= run
          /\ a \in Attempt <=> kind \in LeaseKind
          /\ kind = "issued" => ~Published(a, "issued")
          /\ kind \in {"lease_revoked", "timed_out"} => Published(a, "issued")
    BY <1>2, PublishesGrows
  <2>2. run' = run
    BY <1>2, PublishesGrows
  <2> DEFINE n == Len(log) + 1
  <2>3. /\ DOMAIN log' = DOMAIN log \cup {n} /\ n \notin DOMAIN log
        /\ \A i \in DOMAIN log : log'[i] = log[i] /\ i < n
        /\ log'[n].kind = kind /\ log'[n].run = r /\ log'[n].att = a
    BY <2>1 DEF Grows
  <2> HIDE DEF n
  <2>4. EventsAreAbout'
    BY <2>1, <2>2, <2>3 DEF EventsAreAbout
  <2>5. LeaseIsIssuedOnce'
    BY <2>1, <2>3 DEF LeaseIsIssuedOnce, Published
  <2>6. IssuedIsFirst'
    BY <2>1, <2>3 DEF IssuedIsFirst, Published
  <2> QED BY <2>4, <2>5, <2>6
<1> QED BY <1>1, <1>2, LogStep

-----------------------------------------------------------------------------
(* The order of the work, and of the findings.                             *)

\* How the fates move: nothing is queued or busy that was not queued or busy before;
\* an event is busy that was, or that was the first of the queue when none was; and
\* what is worked was worked, or busy, or the first of the queue when none was busy.
First(i) ==
  /\ i \in DOMAIN log /\ log[i].fate = "queued" /\ Busy = {}
  /\ \A j \in DOMAIN log : log[j].fate = "queued" => i <= j
Advances ==
  /\ Relabels
  /\ \A i \in DOMAIN log :
       /\ log'[i].fate = "queued" => log[i].fate = "queued"
       /\ log'[i].fate = "busy" => log[i].fate = "busy" \/ First(i)
       /\ log'[i].fate \notin {"queued", "busy", "lost"} =>
            Worked(i) \/ log[i].fate = "busy" \/ First(i)
       /\ Worked(i) => log'[i].fate \notin {"queued", "busy", "lost"}

LEMMA FateAdvances ==
  ASSUME TypeOK, NEW i \in DOMAIN log, log[i].fate = "busy" \/ First(i),
         NEW f \in Fates \ {"queued", "lost"}, Fate(i, f)
  PROVE  Advances
<1>1. /\ Relabels /\ log'[i].fate = f
      /\ \A j \in DOMAIN log : j # i => log'[j] = log[j]
  BY FateFacts
<1>2. ASSUME NEW j \in DOMAIN log
      PROVE  /\ log'[j].fate = "queued" => log[j].fate = "queued"
             /\ log'[j].fate = "busy" => log[j].fate = "busy" \/ First(j)
             /\ log'[j].fate \notin {"queued", "busy", "lost"} =>
                  Worked(j) \/ log[j].fate = "busy" \/ First(j)
             /\ Worked(j) => log'[j].fate \notin {"queued", "busy", "lost"}
  <2>1. CASE j = i
    BY <1>1, <2>1 DEF Worked, First
  <2>2. CASE j # i
    BY <1>1, <2>2 DEF Worked
  <2> QED BY <2>1, <2>2
<1> QED BY <1>1, <1>2 DEF Advances

LEMMA AdvancesOrder ==
  ASSUME TypeOK, WorkedInOrder, Advances
  PROVE  WorkedInOrder'
<1>1. \A i \in DOMAIN log : i \in Nat
  BY LogFacts
<1>2. Busy = {handler.ev} \ {0}
  BY TypeFacts
<1>3. ASSUME NEW i \in DOMAIN log, NEW j \in DOMAIN log, Worked(i)', Waits(j)'
      PROVE  i < j
  <2>1. i # j /\ Waits(j)
    BY <1>3 DEF Worked, Waits, Advances, First
  <2>2. CASE Worked(i)
    BY <2>1, <2>2 DEF WorkedInOrder
  <2>3. CASE log[i].fate = "busy"
    <3>1. log[j].fate = "queued"
      BY <1>2, <2>1, <2>3 DEF Waits, Busy
    <3> QED BY <2>3, <3>1 DEF WorkedInOrder
  <2>4. CASE First(i)
    <3>1. log[j].fate = "queued"
      BY <2>1, <2>4 DEF Waits, First, Busy
    <3> QED BY <1>1, <2>1, <2>4, <3>1 DEF First
  <2> QED BY <1>3, <2>2, <2>3, <2>4 DEF Advances, Worked
<1>4. ASSUME NEW i \in DOMAIN log, NEW j \in DOMAIN log, log'[i].fate = "busy",
             log'[j].fate = "queued"
      PROVE  i < j
  <2>1. i # j /\ log[j].fate = "queued"
    BY <1>4 DEF Advances
  <2>2. CASE log[i].fate = "busy"
    BY <2>1, <2>2 DEF WorkedInOrder
  <2>3. CASE First(i)
    BY <1>1, <2>1, <2>3 DEF First
  <2> QED BY <1>4, <2>2, <2>3 DEF Advances
<1>5. DOMAIN log' = DOMAIN log
  BY DEF Advances, Relabels
<1> QED BY <1>3, <1>4, <1>5 DEF WorkedInOrder

LEMMA SameAdvances ==
  ASSUME TypeOK, UNCHANGED log
  PROVE  Advances
BY SameLog DEF Advances, Worked

LEMMA LogAdvances ==
  ASSUME TypeOK, HandlerIsBusy, EventsAreAbout, [Next]_vars
  PROVE  Publishes \/ Advances
<1>1. CASE CutConnection
  BY <1>1, CutFacts DEF Advances, Worked
<1>2. CASE Restart
  <2>1. Relabels /\ \A i \in DOMAIN log : log'[i].fate = Restarted(log[i].fate)
    BY <1>2, RestartFacts
  <2> QED BY <2>1 DEF Advances, Worked, Restarted
<1>3. CASE CallFails
  BY <1>3, HeldFacts, FateAdvances DEF CallFails, Fates
<1>4. CASE Record
  BY <1>4, RecordDone, HeldFacts, FateAdvances DEF Record, Fates
<1>5. CASE StoreToken
  <2>1. handler.ev \in DOMAIN log /\ log[handler.ev].fate = "busy" /\ OnEvent(handler.ev)
    BY <1>5, HeldFacts DEF StoreToken
  <2> QED BY <2>1, OnEventFacts, FateAdvances DEF Fates
<1>6. CASE TakeEvent
  <2> DEFINE i == Min(Queued)
  <2>1. First(i)
    BY <1>6, TakenFacts, HeldFacts DEF First, TakeEvent, Free
  <2>2. Fate(i, "busy") \/ OnEvent(i)
    BY <1>6 DEF TakeEvent
  <2>3. i \in DOMAIN log
    BY <2>1 DEF First
  <2> HIDE DEF i
  <2>4. Fate(i, "busy") \/ Fate(i, "handled")
    BY <2>2, <2>3, OnEventFacts
  <2> QED BY <2>1, <2>3, <2>4, FateAdvances DEF Fates
<1>7. CASE \/ SwitchRun \/ RefreshToken \/ StoreRefresh \/ Connect \/ MintToken \/ Narrate
           \/ \E a \in Attempt : ReportLingering(a)
           \/ \E w \in inflight : WriteArrives(w)
           \/ UNCHANGED vars
  <2>1. UNCHANGED log
    BY <1>7 DEF SwitchRun, RefreshToken, StoreRefresh, Connect, MintToken, Narrate,
                ReportLingering, WriteArrives, vars
  <2> QED BY <2>1, SameAdvances
<1> QED BY <1>1, <1>2, <1>3, <1>4, <1>5, <1>6, <1>7, NextIsOneOf

\* A finding is recorded about the event in hand, or about none.
LEMMA FindingsStep ==
  ASSUME TypeOK, HandlerIsBusy, WritesAreLeases, [Next]_vars
  PROVE  \/ UNCHANGED findings
         \/ \E ev \in 0 .. MaxEvent :
              /\ ev # 0 => ev \in DOMAIN log /\ log[ev].fate = "busy" /\ Fate(ev, "recorded")
              /\ DOMAIN findings' = DOMAIN findings \cup {Len(findings) + 1}
              /\ \A k \in DOMAIN findings :
                   findings'[k] = findings[k] /\ k < Len(findings) + 1
              /\ findings'[Len(findings) + 1].ev = ev
<1>1. CASE Record /\ Accepted
  <2>1. handler.ev \in 0 .. MaxEvent /\ handler.ev \in DOMAIN log
        /\ log[handler.ev].fate = "busy"
    BY <1>1, HeldFacts, TypeFacts DEF Record, Agent, HandlerType
  <2>2. RecordFinding(handler.ev, NoAttempt) /\ Fate(handler.ev, "recorded")
    BY <1>1 DEF Record
  <2> QED BY <2>1, <2>2, RecordsFacts
<1>2. ASSUME NEW w \in inflight, WriteArrives(w), Accepted
      PROVE  \E ev \in 0 .. MaxEvent :
               /\ ev = 0
               /\ DOMAIN findings' = DOMAIN findings \cup {Len(findings) + 1}
               /\ \A k \in DOMAIN findings :
                    findings'[k] = findings[k] /\ k < Len(findings) + 1
               /\ findings'[Len(findings) + 1].ev = ev
  <2>1. w.ev = 0 /\ w.ev \in 0 .. MaxEvent /\ w.att \in Attempt \cup {NoAttempt}
    BY <1>2, TypeFacts DEF WritesAreLeases, Agent, WriteType
  <2>2. RecordFinding(w.ev, w.att)
    BY <1>2 DEF WriteArrives
  <2> QED BY <2>1, <2>2, RecordsFacts
<1>3. CASE UNCHANGED findings
  BY <1>3
<1>4. CASE Record /\ ~Accepted
  BY <1>4 DEF Record
<1>5. CASE Publishes
  BY <1>5 DEF Publishes, Publish, IssueLease, EndLease
<1>6. CASE \/ SwitchRun \/ CutConnection \/ Restart \/ CallFails \/ RefreshToken
           \/ StoreRefresh \/ Connect \/ TakeEvent \/ MintToken \/ StoreToken \/ Narrate
           \/ \E a \in Attempt : ReportLingering(a)
           \/ UNCHANGED vars
  BY <1>6 DEF SwitchRun, CutConnection, Restart, CallFails, RefreshToken, StoreRefresh,
              Connect, TakeEvent, MintToken, StoreToken, Narrate, ReportLingering, vars
<1>7. ASSUME NEW w \in inflight, WriteArrives(w), ~Accepted PROVE UNCHANGED findings
  BY <1>7 DEF WriteArrives
<1> QED BY <1>1, <1>2, <1>4, <1>5, <1>6, <1>7, NextIsOneOf

LEMMA WritesStep ==
  ASSUME TypeOK, HandlerIsBusy, EventsAreAbout, WritesAreLeases, [Next]_vars
  PROVE  WritesAreLeases'
<1>1. CASE TakeEvent \/ StoreToken
  BY <1>1, TakeHandles, StoreHandles DEF WritesAreLeases
<1>2. CASE Publishes
  BY <1>2, PublishesGrows DEF WritesAreLeases
<1>3. CASE \/ SwitchRun \/ CutConnection \/ Restart \/ CallFails \/ RefreshToken
           \/ StoreRefresh \/ Connect \/ MintToken \/ Narrate \/ Record
           \/ \E a \in Attempt : ReportLingering(a)
           \/ \E w \in inflight : WriteArrives(w)
           \/ UNCHANGED vars
  BY <1>3 DEF WritesAreLeases, SwitchRun, CutConnection, Restart, CallFails, RefreshToken,
              StoreRefresh, Connect, MintToken, Narrate, Record, ReportLingering,
              WriteArrives, vars, obs
<1> QED BY <1>1, <1>2, <1>3, NextIsOneOf

LEMMA OrderStep ==
  ASSUME TypeOK, HandlerIsBusy, EventsAreAbout, WorkedInOrder, WritesAreLeases,
         FindingsAreWorked, FindingsInOrder, [Next]_vars
  PROVE  WorkedInOrder' /\ FindingsAreWorked' /\ FindingsInOrder'
<1>1. WorkedInOrder' /\ \A i : Worked(i) => Worked(i)'
  <2>1. CASE Advances
    BY <2>1, AdvancesOrder DEF Advances, Relabels, Worked
  <2>2. CASE Publishes
    <3>1. PICK kind, r, a : Grows(kind, r, a)
      BY <2>2, PublishesGrows
    <3> DEFINE n == Len(log) + 1
    <3>2. /\ DOMAIN log' = DOMAIN log \cup {n} /\ n \notin DOMAIN log
          /\ \A i \in DOMAIN log : log'[i] = log[i] /\ i < n
          /\ log'[n].fate \in {"queued", "lost"}
      BY <3>1 DEF Grows
    <3> HIDE DEF n
    <3> QED BY <3>2 DEF WorkedInOrder, Worked, Waits
  <2> QED BY <2>1, <2>2, LogAdvances
<1>2. CASE UNCHANGED findings
  BY <1>1, <1>2 DEF FindingsAreWorked, FindingsInOrder
<1>3. CASE ~UNCHANGED findings
  <2> DEFINE n == Len(findings) + 1
  <2>1. PICK ev \in 0 .. MaxEvent :
          /\ ev # 0 => ev \in DOMAIN log /\ log[ev].fate = "busy" /\ Fate(ev, "recorded")
          /\ DOMAIN findings' = DOMAIN findings \cup {n}
          /\ \A k \in DOMAIN findings : findings'[k] = findings[k] /\ k < n
          /\ findings'[n].ev = ev
    BY <1>3, FindingsStep
  <2>2. n \in Nat /\ \A k \in DOMAIN findings : k \in Nat
    BY FindingFacts
  <2> HIDE DEF n
  <2>3. ev # 0 => Worked(ev)'
    BY <2>1, FateFacts DEF Worked, Relabels, Fates
  <2>4. FindingsAreWorked'
    BY <1>1, <2>1, <2>3 DEF FindingsAreWorked
  <2>5. \A k \in DOMAIN findings : findings[k].ev # 0 /\ ev # 0 => findings[k].ev < ev
    BY <2>1 DEF FindingsAreWorked, WorkedInOrder, Waits, Worked
  <2>6. FindingsInOrder'
    BY <2>1, <2>2, <2>5 DEF FindingsInOrder
  <2> QED BY <1>1, <2>4, <2>6
<1> QED BY <1>2, <1>3

-----------------------------------------------------------------------------
(* The lease timers.                                                       *)

\* The events handled stay so, and no other becomes so.
SameHandled == \A a, k : Handled(a, k)' <=> Handled(a, k)

LEMMA WatchKept ==
  ASSUME WatchMatchesLease, SameHandled, timers' \cup fired' = timers \cup fired,
         timers' \subseteq timers
  PROVE  WatchMatchesLease'
<1>1. SUFFICES ASSUME NEW a \in Attempt
               PROVE  /\ Handled(a, "lease_revoked")' => a \notin timers'
                      /\ Handled(a, "issued")' /\ ~Handled(a, "timed_out")'
                           /\ ~Handled(a, "lease_revoked")'
                         => a \in timers' \cup fired'
  BY DEF WatchMatchesLease
<1> QED BY DEF WatchMatchesLease, SameHandled

LEMMA FateHandled ==
  ASSUME TypeOK, NEW i \in DOMAIN log, log[i].fate # "handled",
         NEW f \in Fates \ {"handled"}, Fate(i, f)
  PROVE  SameHandled
BY FateFacts DEF SameHandled, Handled, Relabels

LEMMA OnEventWatch ==
  ASSUME TypeOK, EventsAreAbout, WorkedInOrder, LeaseIsIssuedOnce, IssuedIsFirst,
         WatchMatchesLease, NEW i \in DOMAIN log, Waits(i), OnEvent(i), fired' = fired
  PROVE  WatchMatchesLease'
<1> DEFINE e == log[i]
<1>1. CASE IsSignal(log[i].kind)
  <2>1. Fate(i, "busy") /\ timers' = timers
    BY <1>1, OnEventFacts
  <2>2. SameHandled
    BY <2>1, FateHandled DEF Waits, Fates
  <2> QED BY <2>1, <2>2, WatchKept
<1>2. CASE ~IsSignal(log[i].kind)
  <2>1. Fate(i, "handled") /\ timers' = Watched(e)
    BY <1>2, OnEventFacts
  <2>2. /\ Relabels /\ log'[i].fate = "handled"
        /\ \A j \in DOMAIN log : j # i => log'[j] = log[j]
    BY <2>1, FateFacts DEF Fates
  <2>3. \A a, k : Handled(a, k)' <=> Handled(a, k) \/ (e.att = a /\ e.kind = k)
    BY <2>2 DEF Handled, Relabels
  <2>4. e.kind = "issued" => ~Handled(e.att, "lease_revoked")
    <3>1. SUFFICES ASSUME e.kind = "issued", NEW j \in DOMAIN log, log[j].att = e.att,
                          log[j].kind = "lease_revoked", log[j].fate = "handled"
                   PROVE  FALSE
      BY DEF Handled
    <3>2. PICK k \in DOMAIN log : k < j /\ log[k].kind = "issued" /\ log[k].att = log[j].att
      BY <3>1 DEF IssuedIsFirst
    <3>3. k = i
      BY <3>1, <3>2 DEF LeaseIsIssuedOnce
    <3>4. j < i
      BY <3>1 DEF WorkedInOrder, Worked
    <3> QED BY <3>2, <3>3, <3>4, LogFacts
  <2> HIDE DEF e
  <2>5. ASSUME NEW a \in Attempt
        PROVE  /\ Handled(a, "lease_revoked")' => a \notin timers'
               /\ Handled(a, "issued")' /\ ~Handled(a, "timed_out")'
                    /\ ~Handled(a, "lease_revoked")'
                  => a \in timers' \cup fired'
    <3>1. /\ Handled(a, "lease_revoked") => a \notin timers
          /\ Handled(a, "issued") /\ ~Handled(a, "timed_out")
               /\ ~Handled(a, "lease_revoked")
             => a \in timers \cup fired
      BY DEF WatchMatchesLease
    <3>2. CASE e.kind = "issued"
      <4>1. timers' = timers \cup {e.att}
        BY <2>1, <3>2 DEF Watched
      <4>2. Handled(a, "lease_revoked")' => Handled(a, "lease_revoked") /\ a # e.att
        BY <2>3, <2>4, <3>2
      <4>3. ~Handled(a, "timed_out")' => ~Handled(a, "timed_out")
        BY <2>3
      <4>4. ~Handled(a, "lease_revoked")' => ~Handled(a, "lease_revoked")
        BY <2>3
      <4>5. Handled(a, "issued")' => Handled(a, "issued") \/ a = e.att
        BY <2>3
      <4> QED BY <3>1, <4>1, <4>2, <4>3, <4>4, <4>5
    <3>3. CASE e.kind \in {"lease_revoked", "timed_out"}
      <4>1. timers' = timers \ {e.att}
        BY <2>1, <3>3 DEF Watched
      <4>2. Handled(a, "lease_revoked")' => Handled(a, "lease_revoked") \/ a = e.att
        BY <2>3
      <4>3. ~Handled(a, "timed_out")' /\ ~Handled(a, "lease_revoked")' =>
              ~Handled(a, "timed_out") /\ ~Handled(a, "lease_revoked") /\ a # e.att
        BY <2>3, <3>3
      <4>4. Handled(a, "issued")' => Handled(a, "issued")
        BY <2>3, <3>3
      <4> QED BY <3>1, <4>1, <4>2, <4>3, <4>4
    <3>4. CASE e.kind \notin {"issued", "lease_revoked", "timed_out"}
      <4>1. timers' = timers
        BY <2>1, <3>4 DEF Watched
      <4>2. \A k \in {"issued", "lease_revoked", "timed_out"} :
              Handled(a, k)' <=> Handled(a, k)
        BY <2>3, <3>4
      <4> QED BY <3>1, <4>1, <4>2
    <3> QED BY <3>2, <3>3, <3>4
  <2> QED BY <2>5 DEF WatchMatchesLease
<1> QED BY <1>1, <1>2

LEMMA WatchStep ==
  ASSUME TypeOK, HandlerIsBusy, EventsAreAbout, WorkedInOrder, LeaseIsIssuedOnce,
         IssuedIsFirst, WatchMatchesLease, [Next]_vars
  PROVE  WatchMatchesLease'
<1>1. CASE Publishes
  <2>1. PICK kind, r, a : Grows(kind, r, a)
    BY <1>1, PublishesGrows
  <2>2. SameHandled
    BY <2>1 DEF Grows, SameHandled, Handled
  <2>3. timers' = timers /\ fired' = fired
    BY <1>1, PublishesGrows DEF obs
  <2> QED BY <2>2, <2>3, WatchKept
<1>2. CASE CutConnection
  <2>1. SameHandled
    BY <1>2, CutFacts DEF SameHandled, Handled, Relabels
  <2> QED BY <1>2, <2>1, WatchKept DEF CutConnection
<1>3. CASE Restart
  <2>1. \A i \in DOMAIN log' : log'[i].fate # "handled"
    BY <1>3, RestartFacts DEF Relabels, Restarted
  <2> QED BY <1>3, <2>1 DEF WatchMatchesLease, Handled, Restart
<1>4. CASE CallFails
  <2>1. SameHandled
    BY <1>4, HeldFacts, FateHandled DEF CallFails, Fates
  <2> QED BY <1>4, <2>1, WatchKept DEF CallFails
<1>5. CASE Record
  <2>1. SameHandled
    BY <1>5, RecordDone, HeldFacts, FateHandled DEF Record, Fates
  <2> QED BY <1>5, <2>1, WatchKept DEF Record
<1>6. CASE TakeEvent
  <2> DEFINE i == Min(Queued)
  <2>1. i \in DOMAIN log /\ log[i].fate = "queued" /\ fired' = fired
    BY <1>6, TakenFacts DEF TakeEvent
  <2>2. \/ Fate(i, "busy") /\ timers' = timers
        \/ OnEvent(i)
    BY <1>6 DEF TakeEvent
  <2> HIDE DEF i
  <2>3. CASE Fate(i, "busy") /\ timers' = timers
    <3>1. SameHandled
      BY <2>1, <2>3, FateHandled DEF Fates
    <3> QED BY <2>1, <2>3, <3>1, WatchKept
  <2>4. CASE OnEvent(i)
    BY <2>1, <2>4, OnEventWatch DEF Waits
  <2> QED BY <2>2, <2>3, <2>4
<1>7. CASE StoreToken
  <2>1. /\ handler.ev \in DOMAIN log /\ Waits(handler.ev) /\ OnEvent(handler.ev)
        /\ fired' = fired
    BY <1>7, HeldFacts DEF StoreToken, Waits
  <2> QED BY <2>1, OnEventWatch
<1>8. CASE \/ SwitchRun \/ RefreshToken \/ StoreRefresh \/ Connect \/ MintToken \/ Narrate
           \/ \E w \in inflight : WriteArrives(w)
           \/ UNCHANGED vars
  <2>1. UNCHANGED <<log, timers, fired>>
    BY <1>8 DEF SwitchRun, RefreshToken, StoreRefresh, Connect, MintToken, Narrate,
                WriteArrives, vars, obs
  <2>2. SameHandled
    BY <2>1 DEF SameHandled, Handled
  <2> QED BY <2>1, <2>2, WatchKept
<1>9. ASSUME NEW a \in Attempt, ReportLingering(a) PROVE WatchMatchesLease'
  <2>1. SameHandled
    BY <1>9 DEF ReportLingering, SameHandled, Handled
  <2> QED BY <1>9, <2>1, WatchKept DEF ReportLingering
<1> QED BY <1>1, <1>2, <1>3, <1>4, <1>5, <1>6, <1>7, <1>8, <1>9, NextIsOneOf

-----------------------------------------------------------------------------
(* The token in hand.                                                      *)

LEMMA NumberFacts ==
  ASSUME TypeOK
  PROVE  /\ run \in Nat /\ run >= 1 /\ token \in Nat /\ known \in Nat /\ refresh \in Nat
         /\ handler.minted \in Nat
         /\ \A i \in DOMAIN log : log[i].run \in Nat
BY TypeFacts, LogFacts, BoundsFacts DEF Agent, HandlerType, EventType

LEMMA OnEventToken ==
  ASSUME TypeOK, EventsAreAbout, NEW i \in DOMAIN log, OnEvent(i)
  PROVE  /\ handler'.pc \in {"idle", "narrate", "record"} /\ Relabels
         /\ handler'.pc \in {"narrate", "record"} => handler'.ev = i /\ IsSignal(log[i].kind)
<1>1. CASE IsSignal(log[i].kind)
  BY <1>1, OnEventFacts, FateFacts DEF Fates
<1>2. CASE ~IsSignal(log[i].kind)
  BY <1>2, OnEventFacts, FateFacts, IdleFacts DEF Fates
<1> QED BY <1>1, <1>2

LEMMA TokenStep ==
  ASSUME TypeOK, HandlerIsBusy, EventsAreAbout, TokenIsCurrent, [Next]_vars
  PROVE  TokenIsCurrent'
<1>0. handler.pc # "idle" => handler.ev \in DOMAIN log
  BY DEF HandlerIsBusy
<1>1. CASE Publishes
  <2>1. PICK kind, r, a : Grows(kind, r, a)
    BY <1>1, PublishesGrows
  <2>2. UNCHANGED <<obs, run, refresh, overtaken>>
    BY <1>1, PublishesGrows
  <2>3. handler.pc # "idle" => log'[handler.ev] = log[handler.ev]
    BY <1>0, <2>1 DEF Grows
  <2> QED BY <2>2, <2>3 DEF TokenIsCurrent, obs
<1>2. CASE SwitchRun
  BY <1>0, <1>2, NumberFacts DEF TokenIsCurrent, SwitchRun, obs
<1>3. CASE CutConnection
  BY <1>0, <1>3, CutFacts DEF TokenIsCurrent, CutConnection, Relabels
<1>4. CASE Restart
  BY <1>4, NumberFacts, IdleFacts DEF TokenIsCurrent, Restart
<1>5. CASE CallFails \/ Record
  BY <1>5, IdleFacts DEF TokenIsCurrent, CallFails, Record
<1>6. CASE RefreshToken
  BY <1>6, NumberFacts DEF TokenIsCurrent, RefreshToken, obs
<1>7. CASE StoreRefresh
  <2>1. /\ token' = refresh /\ refresh' = 0
        /\ overtaken' <=> (overtaken \/ refresh < token)
        /\ UNCHANGED <<run, log, handler, known>>
    BY <1>7 DEF StoreRefresh
  <2>2. refresh <= run /\ token <= run /\ known <= run
    BY NumberFacts DEF TokenIsCurrent
  <2>3. known = run => refresh = run \/ overtaken'
    BY <2>1, <2>2, NumberFacts DEF TokenIsCurrent
  <2> QED BY <2>1, <2>2, <2>3, NumberFacts DEF TokenIsCurrent
<1>8. CASE \/ Connect
           \/ \E a \in Attempt : ReportLingering(a)
           \/ \E w \in inflight : WriteArrives(w)
           \/ UNCHANGED vars
  BY <1>8 DEF TokenIsCurrent, Connect, ReportLingering, WriteArrives, vars, obs
<1>9. CASE TakeEvent
  <2> DEFINE i == Min(Queued)
  <2>1. i \in DOMAIN log /\ UNCHANGED <<run, known, token, refresh, overtaken>>
    BY <1>9, TakenFacts DEF TakeEvent
  <2>2. CASE NamesNewRun(i)
    <3>1. handler'.pc = "boot"
      BY <1>9, <2>2 DEF TakeEvent, Idle
    <3> QED BY <2>1, <3>1 DEF TokenIsCurrent
  <2>3. CASE ~NamesNewRun(i)
    <3>1. OnEvent(i)
      BY <1>9, <2>3 DEF TakeEvent
    <3> HIDE DEF i
    <3>2. IsSignal(log[i].kind) => log[i].run = known
      BY <2>3, SignalFacts DEF NamesNewRun, LeaseKind
    <3> QED BY <2>1, <3>1, <3>2, OnEventToken DEF TokenIsCurrent, Relabels
  <2> QED BY <2>2, <2>3
<1>10. CASE MintToken
  <2>1. /\ handler'.pc = "minted" /\ handler'.ev = handler.ev /\ handler'.minted = run
        /\ handler.ev \in DOMAIN log
    BY <1>0, <1>10, TypeFacts DEF MintToken, Agent, HandlerType
  <2> QED BY <1>10, <2>1, NumberFacts DEF TokenIsCurrent, MintToken, EventsAreAbout
<1>11. CASE StoreToken
  <2>1. /\ handler.ev \in DOMAIN log /\ OnEvent(handler.ev)
        /\ token' = handler.minted /\ known' = log[handler.ev].run
        /\ UNCHANGED <<run, refresh, overtaken>>
        /\ log[handler.ev].run <= handler.minted /\ handler.minted <= run
    BY <1>0, <1>11 DEF StoreToken, TokenIsCurrent
  <2>2. known' \in 0 .. run /\ token' <= run /\ (known' = run => token' = run)
    BY <2>1, NumberFacts
  <2> QED BY <2>1, <2>2, OnEventToken DEF TokenIsCurrent, Relabels
<1>12. CASE Narrate
  <2>1. handler'.pc = "record" /\ handler'.ev = handler.ev
    BY <1>12, TypeFacts DEF Narrate, Agent, HandlerType
  <2> QED BY <1>12, <2>1 DEF TokenIsCurrent, Narrate
<1> QED
  BY <1>1, <1>2, <1>3, <1>4, <1>5, <1>6, <1>7, <1>8, <1>9, <1>10, <1>11, <1>12,
     NextIsOneOf

\* No event is newly refused.
NoneRefused == \A i \in DOMAIN log' : log'[i].fate = "refused" =>
                 i \in DOMAIN log /\ log[i].fate = "refused"

LEMMA FateNotRefused ==
  ASSUME TypeOK, NEW i \in DOMAIN log, NEW f \in Fates \ {"refused"}, Fate(i, f)
  PROVE  NoneRefused
BY FateFacts DEF NoneRefused, Relabels

LEMMA RefusedStep ==
  ASSUME TypeOK, HandlerIsBusy, EventsAreAbout, TokenIsCurrent, CurrentIsAccepted,
         [Next]_vars
  PROVE  CurrentIsAccepted'
<1>1. CASE Record
  <2>1. PICK f \in {"recorded", "refused", "stale"} : Fate(handler.ev, f)
    BY <1>1, RecordDone
  <2>2. handler.ev \in DOMAIN log /\ overtaken' = overtaken
    BY <1>1, HeldFacts DEF Record
  <2>3. /\ log'[handler.ev].fate = f /\ Relabels
        /\ \A j \in DOMAIN log : j # handler.ev => log'[j] = log[j]
    BY <2>1, <2>2, FateFacts DEF Fates
  <2>4. CASE f = "refused"
    <3>1. log'[handler.ev].fate \in {"recorded", "stale"}
          \/ (token # run /\ log[handler.ev].run = run)
      <4>1. CASE Accepted
        BY <1>1, <2>2, <4>1, FateFacts DEF Record, Fates
      <4>2. CASE ~Accepted /\ log[handler.ev].run # run
        BY <1>1, <2>2, <4>2, FateFacts DEF Record, Fates
      <4> QED BY <4>1, <4>2 DEF Accepted
    <3>2. overtaken
      BY <1>1, <2>3, <2>4, <3>1 DEF TokenIsCurrent, Record
    <3> QED BY <2>2, <3>2 DEF CurrentIsAccepted
  <2>5. CASE f # "refused"
    BY <2>2, <2>3, <2>5 DEF CurrentIsAccepted, Relabels
  <2> QED BY <2>4, <2>5
<1>2. CASE ~Record
  <2>1. overtaken => overtaken'
    BY <1>2 DEF Next, Loop, vars, Publish, IssueLease, EndLease, SwitchRun, CutConnection,
                Restart, CallFails, RefreshToken, StoreRefresh, Connect, TakeEvent,
                MintToken, StoreToken, Narrate, ReportLingering, WriteArrives
  <2>2. CASE Publishes
    <3>1. PICK kind, r, a : Grows(kind, r, a)
      BY <2>2, PublishesGrows
    <3>2. NoneRefused
      BY <3>1 DEF Grows, NoneRefused
    <3> QED BY <2>1, <3>2 DEF CurrentIsAccepted, NoneRefused
  <2>3. CASE CutConnection
    BY <2>1, <2>3, CutFacts DEF CurrentIsAccepted, Relabels
  <2>4. CASE Restart
    BY <2>1, <2>4, RestartFacts DEF CurrentIsAccepted, Relabels, Restarted
  <2>5. CASE CallFails
    <3>1. NoneRefused
      BY <2>5, HeldFacts, FateNotRefused DEF CallFails, Fates
    <3> QED BY <2>1, <3>1 DEF CurrentIsAccepted, NoneRefused
  <2>6. CASE TakeEvent
    <3> DEFINE i == Min(Queued)
    <3>1. i \in DOMAIN log /\ (Fate(i, "busy") \/ OnEvent(i))
      BY <2>6, TakenFacts DEF TakeEvent
    <3> HIDE DEF i
    <3>2. Fate(i, "busy") \/ Fate(i, "handled")
      BY <3>1, OnEventFacts
    <3>3. NoneRefused
      BY <3>1, <3>2, FateNotRefused DEF Fates
    <3> QED BY <2>1, <3>3 DEF CurrentIsAccepted, NoneRefused
  <2>7. CASE StoreToken
    <3>1. handler.ev \in DOMAIN log /\ OnEvent(handler.ev)
      BY <2>7, HeldFacts DEF StoreToken
    <3>2. Fate(handler.ev, "busy") \/ Fate(handler.ev, "handled")
      BY <3>1, OnEventFacts
    <3>3. NoneRefused
      BY <3>1, <3>2, FateNotRefused DEF Fates
    <3> QED BY <2>1, <3>3 DEF CurrentIsAccepted, NoneRefused
  <2>8. CASE \/ SwitchRun \/ RefreshToken \/ StoreRefresh \/ Connect \/ MintToken \/ Narrate
             \/ \E a \in Attempt : ReportLingering(a)
             \/ \E w \in inflight : WriteArrives(w)
             \/ UNCHANGED vars
    <3>1. UNCHANGED log
      BY <2>8 DEF SwitchRun, RefreshToken, StoreRefresh, Connect, MintToken, Narrate,
                  ReportLingering, WriteArrives, vars
    <3> QED BY <2>1, <3>1 DEF CurrentIsAccepted
  <2> QED
    BY <1>2, <2>2, <2>3, <2>4, <2>5, <2>6, <2>7, <2>8, NextIsOneOf
<1> QED BY <1>1, <1>2

-----------------------------------------------------------------------------
(* The inductive invariant and what follows from it.                       *)

LEMMA ObserverInit == Init => ObserverInv
<1> SUFFICES ASSUME Init PROVE ObserverInv
  OBVIOUS
<1>1. log = <<>> /\ findings = <<>> /\ DOMAIN log = {} /\ DOMAIN findings = {}
      /\ Len(log) = 0 /\ Len(findings) = 0
  BY DEF Init
<1>2. log \in Seq(EventType) /\ findings \in Seq(FindingType)
  BY <1>1, EmptySeq
<1>3. Agent
  BY BoundsFacts, IdleFacts DEF Init, Agent, Rank
<1>4. Counters /\ Busy = {handler.ev} \ {0}
  <2>1. Busy = {handler.ev} \ {0}
    BY <1>1, IdleFacts DEF Init, Busy
  <2>2. born = 0 /\ faults = 0 /\ refreshes = 0 /\ fired = {}
    BY DEF Init
  <2>3. overtaken \in BOOLEAN
    BY DEF Init
  <2>4. born \in 0 .. Len(findings)
    BY <1>1, <2>2
  <2>5. faults \in 0 .. MaxFault /\ refreshes \in 0 .. MaxRefresh
    BY <2>2, BoundsFacts
  <2> QED BY <2>1, <2>2, <2>3, <2>4, <2>5 DEF Counters
<1>5. TypeOK
  BY <1>1, <1>2, <1>3, <1>4, BoundsFacts, TypeFacts DEF Init
<1>6. HandlerIsBusy
  BY IdleFacts DEF Init, HandlerIsBusy
<1>7. EventsAreAbout /\ WorkedInOrder /\ LeaseIsIssuedOnce /\ IssuedIsFirst
      /\ FindingsAreWorked /\ FindingsInOrder /\ WatchMatchesLease /\ CurrentIsAccepted
  BY <1>1 DEF EventsAreAbout, WorkedInOrder, LeaseIsIssuedOnce, IssuedIsFirst,
              FindingsAreWorked, FindingsInOrder, WatchMatchesLease, Handled,
              CurrentIsAccepted
<1>8. WritesAreLeases /\ TokenIsCurrent
  BY IdleFacts DEF Init, WritesAreLeases, TokenIsCurrent
<1> QED BY <1>5, <1>6, <1>7, <1>8 DEF ObserverInv

LEMMA ObserverStep == ObserverInv /\ [Next]_vars => ObserverInv'
BY TypeStep, EventsStep, OrderStep, WritesStep, WatchStep, TokenStep, RefusedStep
   DEF ObserverInv

THEOREM ObserverInvariant == Spec => []ObserverInv
BY ObserverInit, ObserverStep, PTL DEF Spec

\* Every variable keeps its type, and an event is busy exactly while the loop is at it.
THEOREM TypeCorrect == Spec => []TypeOK
<1>1. ObserverInv => TypeOK
  BY DEF ObserverInv
<1> QED BY <1>1, ObserverInvariant, PTL

\* Findings about events are recorded in the order of the events, through slow
\* narration, cut connections, refused calls and restarts
\* (agents/identities/agent-d.js:427-436).
THEOREM RecordedInOrder == Spec => []FindingsInOrder
<1>1. ObserverInv => FindingsInOrder
  BY DEF ObserverInv
<1> QED BY <1>1, ObserverInvariant, PTL

\* A lease that was seen given is watched or reported until its end is seen, and never
\* watched after it (scheduleRevocationCheck, clearPendingRevocationCheck).
THEOREM LeasesAreWatched == Spec => []WatchMatchesLease
<1>1. ObserverInv => WatchMatchesLease
  BY DEF ObserverInv
<1> QED BY <1>1, ObserverInvariant, PTL

\* Unless an older token was put back, no finding of the current run is refused
\* (agents/src/observerRuntime.js:59-68).
THEOREM CurrentAccepted == Spec => []CurrentIsAccepted
<1>1. ObserverInv => CurrentIsAccepted
  BY DEF ObserverInv
<1> QED BY <1>1, ObserverInvariant, PTL

-----------------------------------------------------------------------------
(* The risk that a dashboard derives. A run's findings since agent-d was     *)
(* started are the last rows, so that their readings can be followed from    *)
(* the row of its task; agent-d's own state is one signal ahead of them      *)
(* while it narrates or records.                                             *)

Level == DOMAIN Rank

LEMMA MaxFacts ==
  ASSUME NEW a \in Nat, NEW b \in Nat, a <= b
  PROVE  Max(a .. b) = b
<1>1. b \in a .. b /\ \A y \in a .. b : b >= y
  OBVIOUS
<1>2. \A x \in a .. b : (\A y \in a .. b : x >= y) => x = b
  OBVIOUS
<1> QED BY <1>1, <1>2 DEF Max

LEMMA EarlierFacts ==
  ASSUME NEW s \in Nat, NEW n \in Nat, NEW k \in s .. n
  PROVE  /\ {j \in s .. n : j < k} = {} <=> k = s
         /\ k # s => Max({j \in s .. n : j < k}) = k - 1 /\ k - 1 \in s .. n
<1>1. {j \in s .. n : j < k} = s .. (k - 1)
  OBVIOUS
<1>2. k # s => k - 1 \in Nat /\ s <= k - 1 /\ s \in s .. (k - 1)
  OBVIOUS
<1>3. k = s => s .. (k - 1) = {}
  OBVIOUS
<1>4. ASSUME k # s PROVE Max(s .. (k - 1)) = k - 1
  <2>1. k - 1 \in Nat /\ s <= k - 1
    BY <1>2, <1>4
  <2> QED BY <2>1, MaxFacts
<1>5. {j \in s .. n : j < k} = {} <=> k = s
  BY <1>1, <1>2, <1>3
<1>6. k # s => Max({j \in s .. n : j < k}) = k - 1
  BY <1>1, <1>4
<1>7. k # s => k - 1 \in s .. n
  OBVIOUS
<1> QED BY <1>5, <1>6, <1>7

\* Over an interval of rows a reading goes from each row to the next.
Follows(shown, s, k, code) ==
  shown[k] = ApplyFinding(IF k = s THEN "NORMAL" ELSE shown[k - 1], code)

LEMMA ReadingFacts ==
  ASSUME NEW s \in Nat, NEW n \in Nat, NEW shown
  PROVE  /\ IsReading(shown, s .. n) <=>
              \A k \in s .. n : Follows(shown, s, k, CodeOf(k))
         /\ IsReading(shown, s .. n)' <=>
              \A k \in s .. n : Follows(shown, s, k, CodeOf(k)')
<1>1. ASSUME NEW k \in s .. n
      PROVE  (IF {j \in s .. n : j < k} = {} THEN "NORMAL"
                ELSE shown[Max({j \in s .. n : j < k})])
             = IF k = s THEN "NORMAL" ELSE shown[k - 1]
  BY EarlierFacts
<1> QED BY <1>1 DEF IsReading, Follows

LEMMA RuleFacts ==
  ASSUME NEW level \in Level, NEW code
  PROVE  /\ ApplyFinding(level, code) \in Level
         /\ code \notin {"D-001", "D-010"} =>
              ApplyFinding(level, code) = NextState(level, code)
         /\ NextState(level, "D-001") = "NORMAL" /\ "NORMAL" \in Level
         /\ ApplyFinding("NORMAL", "D-001") = "NORMAL"
<1>1. Level = {"NORMAL", "ELEVATED", "CONTAINED", "CRITICAL"}
  BY DEF Level, Rank
<1>2. RiskByCode(code) \in Level
  BY <1>1 DEF RiskByCode
<1>3. code # "D-010" => RiskByCode(code) = Severity(code)
  BY DEF RiskByCode, Severity
<1>4. ApplyFinding(level, code) \in Level
  BY <1>2 DEF ApplyFinding
<1>5. code \notin {"D-001", "D-010"} => ApplyFinding(level, code) = NextState(level, code)
  BY <1>3 DEF ApplyFinding, NextState
<1>6. NextState(level, "D-001") = "NORMAL" /\ ApplyFinding("NORMAL", "D-001") = "NORMAL"
  BY DEF ApplyFinding, NextState, Severity, RiskByCode, Rank
<1> QED BY <1>1, <1>4, <1>5, <1>6

LEMMA CodeFacts ==
  ASSUME NEW kind, IsSignal(kind), kind # "mandate_denied"
  PROVE  Code[kind] # "D-010"
BY DEF IsSignal, Code

Pending == handler.pc \in {"narrate", "record"}
PendingCode == Code[log[handler.ev].kind]

\* The task of a run was reported in row s, and nothing later than it but signals.
Starts(s) == \A k \in s .. Len(findings) :
               findings[k].ev # 0 /\ (CodeOf(k) = "D-001" <=> k = s)
Reads(s, level) ==
  \E shown \in [s .. Len(findings) -> Level] :
    IsReading(shown, s .. Len(findings)) /\ shown[Len(findings)] = level

RunsInOrder ==
  /\ \A k \in DOMAIN findings : findings[k].run <= run
  /\ \A j, k \in DOMAIN findings : j <= k => findings[j].run <= findings[k].run

RiskFollows == Clean =>
  /\ Pending /\ PendingCode = "D-001" => risk = "NORMAL"
  /\ \A s \in born + 1 .. Len(findings) : Starts(s) =>
       \E level \in Level :
         Reads(s, level) /\ risk = IF Pending THEN NextState(level, PendingCode) ELSE level

LEMMA RowFacts ==
  ASSUME TypeOK
  PROVE  /\ Len(findings) \in Nat /\ born \in Nat
         /\ \A s \in born + 1 .. Len(findings) :
              s \in Nat /\ s <= Len(findings) /\ s \in DOMAIN findings
<1>1. born \in 0 .. Len(findings)
  BY TypeFacts DEF Counters
<1> QED BY <1>1, FindingFacts

\* Findings that keep their rows and events that keep their kind are read as before.
LEMMA ReadsKept ==
  ASSUME TypeOK, FindingsAreWorked, UNCHANGED findings,
         \A i \in DOMAIN log : log'[i].kind = log[i].kind,
         NEW s \in born + 1 .. Len(findings), Starts(s)'
  PROVE  Starts(s) /\ \A level : Reads(s, level) => Reads(s, level)'
<1>1. \A k \in s .. Len(findings) : findings[k].ev # 0 => CodeOf(k)' = CodeOf(k)
  <2>1. \A k \in s .. Len(findings) : k \in DOMAIN findings
    BY RowFacts, FindingFacts
  <2> QED BY <2>1 DEF CodeOf, FindingsAreWorked, Worked
<1>2. Starts(s)
  BY <1>1 DEF Starts
<1>3. \A shown : IsReading(shown, s .. Len(findings)) => IsReading(shown, s .. Len(findings))'
  <2>1. s \in Nat /\ Len(findings) \in Nat
    BY RowFacts
  <2>2. \A k \in s .. Len(findings) : CodeOf(k)' = CodeOf(k)
    BY <1>1, <1>2 DEF Starts
  <2> QED BY <2>1, <2>2, ReadingFacts
<1> QED BY <1>2, <1>3 DEF Reads

\* No event that could make agent-d's state run ahead of the findings comes off again.
LEMMA CleanKept ==
  ASSUME TypeOK, HandlerIsBusy, EventsAreAbout, [Next]_vars, Clean'
  PROVE  Clean
<1>1. SUFFICES ASSUME NEW i \in DOMAIN log, log[i].fate \in {"refused", "stale", "failed"}
               PROVE  i \in DOMAIN log' /\ log'[i].fate = log[i].fate
  BY DEF Clean
<1>2. ASSUME NEW j \in DOMAIN log, log[j].fate \in {"queued", "busy"}, NEW f \in Fates, Fate(j, f)
      PROVE  i \in DOMAIN log' /\ log'[i].fate = log[i].fate
  BY <1>1, <1>2, FateFacts DEF Relabels
<1>3. CASE Publishes
  BY <1>3, PublishesGrows DEF Grows
<1>4. CASE CutConnection
  BY <1>1, <1>4, CutFacts DEF Relabels
<1>5. CASE Restart
  BY <1>1, <1>5, RestartFacts DEF Relabels, Restarted
<1>6. CASE CallFails
  BY <1>2, <1>6, HeldFacts DEF CallFails, Fates
<1>7. CASE Record
  BY <1>2, <1>7, RecordDone, HeldFacts DEF Record, Fates
<1>8. CASE StoreToken
  <2>1. handler.ev \in DOMAIN log /\ log[handler.ev].fate = "busy" /\ OnEvent(handler.ev)
    BY <1>8, HeldFacts DEF StoreToken
  <2> QED BY <1>2, <2>1, OnEventFacts DEF Fates
<1>9. CASE TakeEvent
  <2> DEFINE j == Min(Queued)
  <2>1. j \in DOMAIN log /\ log[j].fate = "queued" /\ (Fate(j, "busy") \/ OnEvent(j))
    BY <1>9, TakenFacts DEF TakeEvent
  <2> HIDE DEF j
  <2> QED BY <1>2, <2>1, OnEventFacts DEF Fates
<1>10. CASE \/ SwitchRun \/ RefreshToken \/ StoreRefresh \/ Connect \/ MintToken \/ Narrate
            \/ \E a \in Attempt : ReportLingering(a)
            \/ \E w \in inflight : WriteArrives(w)
            \/ UNCHANGED vars
  <2>1. UNCHANGED log
    BY <1>10 DEF SwitchRun, RefreshToken, StoreRefresh, Connect, MintToken, Narrate,
                 ReportLingering, WriteArrives, vars
  <2> QED BY <2>1
<1> QED BY <1>3, <1>4, <1>5, <1>6, <1>7, <1>8, <1>9, <1>10, NextIsOneOf

\* Events keep their kind.
LEMMA KindsKept ==
  ASSUME TypeOK, HandlerIsBusy, EventsAreAbout, [Next]_vars
  PROVE  \A i \in DOMAIN log : i \in DOMAIN log' /\ log'[i].kind = log[i].kind
<1>1. CASE Advances
  BY <1>1 DEF Advances, Relabels
<1>2. CASE Publishes
  BY <1>2, PublishesGrows DEF Grows
<1> QED BY <1>1, <1>2, LogAdvances

\* A finding is the row of the current run.
LEMMA RunsStep ==
  ASSUME TypeOK, HandlerIsBusy, RunsInOrder, WritesAreLeases, [Next]_vars
  PROVE  RunsInOrder'
<1>0. run \in Nat /\ \A k \in DOMAIN findings : findings[k].run \in Nat
  BY NumberFacts, FindingFacts, BoundsFacts DEF FindingType
<1>1. ASSUME NEW ev \in 0 .. MaxEvent, NEW a \in Attempt \cup {NoAttempt},
             RecordFinding(ev, a), Accepted, run' = run
      PROVE  RunsInOrder'
  <2> DEFINE n == Len(findings) + 1
  <2>1. /\ DOMAIN findings' = DOMAIN findings \cup {n}
        /\ \A k \in DOMAIN findings : findings'[k] = findings[k] /\ k < n
    BY <1>1, RecordsFacts
  <2>2. findings'[n].run = run
    <3>1. findings \in Seq(FindingType)
      BY TypeFacts
    <3>2. findings' = Append(findings, [ev |-> ev, att |-> a, run |-> token])
      BY <1>1 DEF RecordFinding
    <3>3. [ev |-> ev, att |-> a, run |-> token] \in FindingType
      BY TypeFacts DEF FindingType, Agent
    <3>4. findings'[n] = [ev |-> ev, att |-> a, run |-> token]
      BY <3>1, <3>2, <3>3, AppendFacts
    <3> QED BY <1>1, <3>4 DEF Accepted
  <2>3. n \in Nat /\ \A k \in DOMAIN findings : k \in Nat
    BY FindingFacts
  <2> HIDE DEF n
  <2> QED BY <1>0, <1>1, <2>1, <2>2, <2>3 DEF RunsInOrder
<1>2. CASE Record /\ Accepted
  <2>1. handler.ev \in 0 .. MaxEvent
    BY TypeFacts DEF Agent, HandlerType
  <2> QED BY <1>1, <1>2, <2>1 DEF Record
<1>3. ASSUME NEW w \in inflight, WriteArrives(w), Accepted PROVE RunsInOrder'
  <2>1. w.ev \in 0 .. MaxEvent /\ w.att \in Attempt \cup {NoAttempt}
    BY <1>3, TypeFacts DEF Agent, WriteType
  <2> QED BY <1>1, <1>3, <2>1 DEF WriteArrives
<1>4. CASE SwitchRun
  BY <1>0, <1>4 DEF SwitchRun, RunsInOrder
<1>5. CASE UNCHANGED <<findings, run>>
  BY <1>5 DEF RunsInOrder
<1>6. CASE \/ Publishes \/ CutConnection \/ Restart \/ CallFails \/ RefreshToken
           \/ StoreRefresh \/ Connect \/ TakeEvent \/ MintToken \/ StoreToken \/ Narrate
           \/ (Record /\ ~Accepted)
           \/ (\E a \in Attempt : ReportLingering(a))
           \/ (\E w \in inflight : WriteArrives(w) /\ ~Accepted)
           \/ UNCHANGED vars
  <2>1. UNCHANGED <<findings, run>>
    BY <1>6 DEF Publishes, Publish, IssueLease, EndLease, CutConnection, Restart, CallFails,
                RefreshToken, StoreRefresh, Connect, TakeEvent, MintToken, StoreToken,
                Narrate, Record, ReportLingering, WriteArrives, vars
  <2> QED BY <1>5, <2>1
<1> QED BY <1>2, <1>3, <1>4, <1>6, NextIsOneOf

\* A finding that is recorded of the signal in hand is read as agent-d took the signal.
LEMMA RecordReads ==
  ASSUME TypeOK, HandlerIsBusy, FindingsAreWorked, RiskFollows, Clean, Pending,
         IsSignal(log[handler.ev].kind), log[handler.ev].kind # "mandate_denied",
         \A i \in DOMAIN log : log'[i].kind = log[i].kind,
         DOMAIN findings' = DOMAIN findings \cup {Len(findings) + 1},
         Len(findings') = Len(findings) + 1,
         \A k \in DOMAIN findings : findings'[k] = findings[k],
         findings'[Len(findings) + 1].ev = handler.ev, born' = born, risk' = risk,
         NEW s \in born + 1 .. Len(findings'), Starts(s)'
  PROVE  Reads(s, risk)' /\ risk \in Level
<1> DEFINE code == PendingCode
<1>0. PICK n \in Nat, level1 \in Level : n = Len(findings) + 1 /\ level1 = risk
  BY FindingFacts, TypeFacts DEF Agent, Level
<1>1. /\ n \in Nat /\ s \in Nat /\ s <= n /\ n \notin DOMAIN findings /\ n - 1 = Len(findings)
      /\ born \in Nat /\ risk \in Level
  BY <1>0, RowFacts, FindingFacts, TypeFacts DEF Agent, Level
<1>2. \A k \in s .. Len(findings) : k \in DOMAIN findings
  BY <1>1, FindingFacts, RowFacts
<1>3. \A k \in s .. Len(findings) : findings[k].ev # 0 /\ CodeOf(k)' = CodeOf(k)
  <2>1. \A k \in s .. Len(findings) : k \in s .. n /\ findings[k].ev # 0
    BY <1>0, <1>1, <1>2 DEF Starts
  <2> QED BY <1>2, <2>1 DEF CodeOf, FindingsAreWorked, Worked
<1>4. CodeOf(n)' = code
  <2>1. handler.ev \in DOMAIN log
    BY DEF HandlerIsBusy, Pending
  <2> QED BY <1>0, <2>1 DEF CodeOf, PendingCode
<1>5. code # "D-010"
  BY CodeFacts DEF PendingCode
<1>6. code = "D-001" <=> n = s
  BY <1>0, <1>1, <1>4 DEF Starts
<1> HIDE DEF code
<1>7. CASE s = n
  <2> DEFINE shown == [k \in s .. n |-> "NORMAL"]
  <2>1. risk = "NORMAL"
    BY <1>6, <1>7 DEF RiskFollows, code
  <2>2. shown \in [s .. n -> Level] /\ shown[n] = level1
    BY <1>0, <1>1, <1>7, <2>1, RuleFacts
  <2>3. \A k \in s .. n : k = s
    BY <1>1, <1>7
  <2>4. \A k \in s .. n : Follows(shown, s, k, CodeOf(k)')
    <3>1. ApplyFinding("NORMAL", "D-001") = "NORMAL"
      BY <1>1, RuleFacts
    <3> QED BY <1>4, <1>6, <1>7, <2>3, <3>1 DEF Follows
  <2>5. IsReading(shown, s .. n)'
    BY <1>1, <2>4, ReadingFacts
  <2> HIDE DEF shown
  <2> QED BY <1>0, <1>1, <2>2, <2>5 DEF Reads
<1>8. CASE s # n
  <2>1. s \in born + 1 .. Len(findings) /\ Len(findings) \in s .. n
    BY <1>1, <1>8
  <2>2. Starts(s)
    <3>1. \A k \in s .. Len(findings) : k \in s .. n
      BY <1>1
    <3> QED BY <1>0, <1>3, <3>1 DEF Starts
  <2>3. PICK level \in Level : Reads(s, level) /\ risk = NextState(level, code)
    BY <2>1, <2>2 DEF RiskFollows, code
  <2>4. PICK old \in [s .. Len(findings) -> Level] :
          IsReading(old, s .. Len(findings)) /\ old[Len(findings)] = level
    BY <2>3 DEF Reads
  <2>5. \A k \in s .. Len(findings) : Follows(old, s, k, CodeOf(k))
    BY <1>1, <2>4, RowFacts, ReadingFacts
  <2> DEFINE shown == [k \in s .. n |-> IF k = n THEN level1 ELSE old[k]]
  <2>6. /\ \A k \in s .. Len(findings) : k \in s .. n /\ k # n
        /\ \A k \in s .. n : k # n => k \in s .. Len(findings)
        /\ \A k \in s .. Len(findings) : k # s => k - 1 \in s .. Len(findings)
        /\ n \in s .. n
    BY <1>1
  <2>7. shown \in [s .. n -> Level] /\ shown[n] = level1
    BY <1>0, <1>1, <2>4, <2>6
  <2>8. \A k \in s .. Len(findings) : shown[k] = old[k]
    BY <2>6
  <2> HIDE DEF shown
  <2>9. \A k \in s .. Len(findings) : Follows(shown, s, k, CodeOf(k)')
    BY <1>3, <2>5, <2>6, <2>8 DEF Follows
  <2>10. Follows(shown, s, n, CodeOf(n)')
    <3>1. ApplyFinding(level, code) = NextState(level, code)
      BY <1>5, <1>6, <1>8, RuleFacts
    <3>2. shown[n - 1] = level
      BY <1>1, <2>1, <2>4, <2>8
    <3> QED BY <1>0, <1>4, <1>8, <2>3, <2>7, <3>1, <3>2 DEF Follows
  <2>11. IsReading(shown, s .. n)'
    BY <1>1, <2>6, <2>9, <2>10, ReadingFacts
  <2> QED BY <1>0, <1>1, <2>7, <2>11 DEF Reads
<1> QED BY <1>7, <1>8

\* Steps that leave agent-d's risk, its findings and its signal in hand as they are.
LEMMA SameRisk ==
  ASSUME TypeOK, FindingsAreWorked, RiskFollows, Clean, UNCHANGED <<findings, born, risk>>,
         \A i \in DOMAIN log : log'[i].kind = log[i].kind,
         Pending' <=> Pending, Pending => PendingCode' = PendingCode
  PROVE  RiskFollows'
<1>1. ASSUME NEW s \in born + 1 .. Len(findings), Starts(s)'
      PROVE  \E level \in Level : /\ Reads(s, level)'
                                  /\ risk' = IF Pending' THEN NextState(level, PendingCode')
                                                         ELSE level
  <2>1. Starts(s) /\ \A level : Reads(s, level) => Reads(s, level)'
    BY <1>1, ReadsKept
  <2>2. PICK level \in Level :
          Reads(s, level) /\ risk = IF Pending THEN NextState(level, PendingCode) ELSE level
    BY <2>1 DEF RiskFollows
  <2> QED BY <2>1, <2>2
<1>2. Pending' /\ PendingCode' = "D-001" => risk' = "NORMAL"
  BY DEF RiskFollows
<1> QED BY <1>1, <1>2 DEF RiskFollows, Level

\* A signal moves agent-d's risk, and any other event leaves it alone.
LEMMA RiskTaken ==
  ASSUME TypeOK, EventsAreAbout, FindingsAreWorked, RiskFollows, Clean, ~Pending,
         UNCHANGED <<findings, born>>, \A i \in DOMAIN log : log'[i].kind = log[i].kind,
         NEW i \in DOMAIN log, OnEvent(i)
  PROVE  RiskFollows'
<1>1. CASE ~IsSignal(log[i].kind)
  <2>1. risk' = risk /\ handler' = Idle
    BY <1>1 DEF OnEvent
  <2>2. ~Pending'
    BY <2>1 DEF Pending, Idle
  <2> QED BY <2>1, <2>2, SameRisk
<1>2. CASE IsSignal(log[i].kind)
  <2>1. Pending' /\ handler'.ev = i
    BY <1>2, OnEventFacts DEF Pending
  <2>2. PendingCode' = Code[log[i].kind]
    BY <2>1 DEF PendingCode
  <2>3. risk' = NextState(risk, PendingCode')
    BY <1>2, <2>2 DEF OnEvent, RiskAfter
  <2>4. risk \in Level
    BY TypeFacts DEF Agent, Level
  <2>5. PendingCode' = "D-001" => risk' = "NORMAL"
    BY <2>3, <2>4, RuleFacts
  <2>6. ASSUME NEW s \in born + 1 .. Len(findings), Starts(s)'
        PROVE  \E level \in Level : Reads(s, level)' /\ risk' = NextState(level, PendingCode')
    <3>1. Starts(s) /\ \A level : Reads(s, level) => Reads(s, level)'
      BY <2>6, ReadsKept
    <3>2. Reads(s, risk)
      BY <3>1 DEF RiskFollows
    <3> QED BY <2>3, <2>4, <3>1, <3>2
  <2> QED BY <2>1, <2>5, <2>6 DEF RiskFollows, Level
<1> QED BY <1>1, <1>2

\* A row that is about no event ends what can be derived from the rows before it.
LEMMA LingeringEnds ==
  ASSUME TypeOK, RiskFollows, Clean, UNCHANGED <<log, handler, born, risk>>,
         Len(findings') = Len(findings) + 1, findings'[Len(findings) + 1].ev = 0
  PROVE  RiskFollows'
<1>1. ASSUME NEW s \in born + 1 .. Len(findings'), Starts(s)' PROVE FALSE
  <2>1. s \in Nat /\ Len(findings) + 1 \in s .. Len(findings')
    BY RowFacts
  <2> QED BY <1>1, <2>1 DEF Starts
<1>2. Pending' /\ PendingCode' = "D-001" => risk' = "NORMAL"
  BY DEF RiskFollows, Pending, PendingCode
<1> QED BY <1>1, <1>2 DEF RiskFollows

LEMMA RiskStep ==
  ASSUME "mandate_denied" \notin Kind, ObserverInv, RiskFollows, [Next]_vars
  PROVE  RiskFollows'
<1> USE DEF ObserverInv
<1>1. SUFFICES ASSUME Clean' PROVE RiskFollows'
  BY DEF RiskFollows
<1>2. Clean /\ \A i \in DOMAIN log : i \in DOMAIN log' /\ log'[i].kind = log[i].kind
  BY <1>1, CleanKept, KindsKept
<1>3. Pending => handler.ev \in DOMAIN log
  BY HeldFacts DEF Pending
<1>4. ASSUME UNCHANGED <<findings, born, risk, handler>> PROVE RiskFollows'
  <2>1. (Pending' <=> Pending) /\ (Pending => PendingCode' = PendingCode)
    BY <1>2, <1>3, <1>4 DEF Pending, PendingCode
  <2> QED BY <1>2, <1>4, <2>1, SameRisk
<1>5. CASE Publishes
  BY <1>4, <1>5, PublishesGrows DEF obs
<1>6. CASE \/ SwitchRun \/ CutConnection \/ RefreshToken \/ StoreRefresh \/ Connect
           \/ \E a \in Attempt : ReportLingering(a)
           \/ UNCHANGED vars
  <2>1. UNCHANGED <<findings, born, risk, handler>>
    BY <1>6 DEF SwitchRun, CutConnection, RefreshToken, StoreRefresh, Connect,
                ReportLingering, vars, obs
  <2> QED BY <1>4, <2>1
<1>7. CASE MintToken
  <2>1. ~Pending /\ ~Pending' /\ UNCHANGED <<findings, born, risk>>
    BY <1>7 DEF MintToken, Pending
  <2> QED BY <1>2, <2>1, SameRisk
<1>8. CASE Narrate
  <2>1. UNCHANGED <<findings, born, risk>> /\ handler'.pc = "record"
        /\ handler'.ev = handler.ev /\ handler.pc = "narrate"
    BY <1>8, TypeFacts DEF Narrate, Agent, HandlerType
  <2>2. Pending /\ Pending' /\ PendingCode' = PendingCode
    BY <1>2, <1>3, <2>1 DEF Pending, PendingCode
  <2> QED BY <1>2, <2>1, <2>2, SameRisk
<1>9. CASE TakeEvent
  <2>1. PICK i \in DOMAIN log : i = Min(Queued)
    BY <1>9, TakenFacts DEF TakeEvent
  <2>2. ~Pending /\ UNCHANGED <<findings, born>>
    BY <1>9 DEF TakeEvent, Free, Pending
  <2>3. CASE NamesNewRun(i)
    <3>1. handler' = [Idle EXCEPT !.ev = i, !.pc = "boot"] /\ UNCHANGED risk
      BY <1>9, <2>1, <2>3 DEF TakeEvent
    <3>2. ~Pending'
      BY <3>1 DEF Pending, Idle
    <3> QED BY <1>2, <2>2, <3>1, <3>2, SameRisk
  <2>4. CASE ~NamesNewRun(i)
    <3>1. OnEvent(i)
      BY <1>9, <2>1, <2>4 DEF TakeEvent
    <3> QED BY <1>2, <2>2, <3>1, RiskTaken
  <2> QED BY <2>3, <2>4
<1>10. CASE StoreToken
  <2>1. handler.ev \in DOMAIN log /\ ~Pending /\ UNCHANGED <<findings, born>>
        /\ OnEvent(handler.ev)
    BY <1>10, HeldFacts DEF StoreToken, Pending
  <2> QED BY <1>2, <2>1, RiskTaken
<1>11. CASE Restart
  <2>1. findings' = findings /\ born' = Len(findings) /\ ~Pending'
    BY <1>11 DEF Restart, Pending, Idle
  <2>2. \A n \in Nat : n + 1 .. n = {}
    OBVIOUS
  <2>3. born' + 1 .. Len(findings') = {}
    BY <2>1, <2>2, RowFacts
  <2> QED BY <2>1, <2>3 DEF RiskFollows
<1>12. CASE CallFails
  <2>1. handler.ev \in DOMAIN log /\ Fate(handler.ev, "failed")
    BY <1>12, HeldFacts DEF CallFails
  <2>2. log'[handler.ev].fate = "failed" /\ handler.ev \in DOMAIN log'
    BY <2>1, FateFacts DEF Fates, Relabels
  <2> QED BY <1>1, <2>2 DEF Clean
<1>13. CASE Record /\ ~Accepted
  <2>1. PICK f \in {"refused", "stale"} : Fate(handler.ev, f)
    BY <1>13 DEF Record
  <2>2. handler.ev \in DOMAIN log
    BY <1>13, HeldFacts DEF Record
  <2>3. log'[handler.ev].fate = f /\ handler.ev \in DOMAIN log'
    BY <2>1, <2>2, FateFacts DEF Fates, Relabels
  <2> QED BY <1>1, <2>3 DEF Clean
<1>14. CASE Record /\ Accepted
  <2>1. /\ Pending /\ ~Pending' /\ UNCHANGED <<born, risk>>
        /\ RecordFinding(handler.ev, NoAttempt)
    BY <1>14, IdleFacts DEF Record, Pending
  <2>2. handler.ev \in 0 .. MaxEvent
    BY TypeFacts DEF Agent, HandlerType
  <2>3. /\ DOMAIN findings' = DOMAIN findings \cup {Len(findings) + 1}
        /\ Len(findings') = Len(findings) + 1
        /\ \A k \in DOMAIN findings : findings'[k] = findings[k]
        /\ findings'[Len(findings) + 1].ev = handler.ev
    BY <2>1, <2>2, RecordsFacts
  <2>4. IsSignal(log[handler.ev].kind) /\ log[handler.ev].kind # "mandate_denied"
    <3>1. IsSignal(log[handler.ev].kind) /\ log[handler.ev] \in EventType
      BY <1>3, <2>1, LogFacts DEF HandlerIsBusy, Pending
    <3>2. "mandate_denied" \notin LeaseKind
      BY DEF LeaseKind
    <3> QED BY <3>1, <3>2 DEF EventType
  <2>5. \A s \in born + 1 .. Len(findings') : Starts(s)' => Reads(s, risk)' /\ risk \in Level
    BY <1>2, <2>1, <2>3, <2>4, RecordReads
  <2> QED BY <2>1, <2>5 DEF RiskFollows
<1>15. ASSUME NEW w \in inflight, WriteArrives(w) PROVE RiskFollows'
  <2>1. CASE ~Accepted
    BY <1>4, <1>15, <2>1 DEF WriteArrives, obs
  <2>2. CASE Accepted
    <3>1. w.ev = 0 /\ w.ev \in 0 .. MaxEvent /\ w.att \in Attempt \cup {NoAttempt}
      BY <1>15, TypeFacts DEF WritesAreLeases, Agent, WriteType
    <3>2. RecordFinding(w.ev, w.att) /\ UNCHANGED <<log, handler, born, risk>>
      BY <1>15, <2>2 DEF WriteArrives, obs
    <3>3. Len(findings') = Len(findings) + 1 /\ findings'[Len(findings) + 1].ev = 0
      BY <3>1, <3>2, RecordsFacts
    <3> QED BY <1>2, <3>2, <3>3, LingeringEnds
  <2> QED BY <2>1, <2>2
<1> QED BY <1>5, <1>6, <1>7, <1>8, <1>9, <1>10, <1>11, <1>12, <1>13, <1>14, <1>15, NextIsOneOf

\* The findings of the run since the start are the last rows of the table.
LEMMA MineFacts ==
  ASSUME TypeOK, RunsInOrder, Mine # {}
  PROVE  /\ Min(Mine) \in born + 1 .. Len(findings)
         /\ Mine = Min(Mine) .. Len(findings) /\ Max(Mine) = Len(findings)
<1>1. Mine \in SUBSET Nat /\ Len(findings) \in Nat /\ born \in Nat
  BY RowFacts DEF Mine
<1>2. PICK s \in Mine : s = Min(Mine) /\ \A k \in Mine : s <= k
  BY <1>1, LeastFacts
<1>3. s \in born + 1 .. Len(findings) /\ s \in Nat /\ s <= Len(findings)
      /\ findings[s].run = run
  BY <1>2, RowFacts DEF Mine
<1>4. ASSUME NEW k \in s .. Len(findings) PROVE k \in Mine
  <2>1. k \in born + 1 .. Len(findings) /\ s <= k
    BY <1>1, <1>3
  <2>2. k \in DOMAIN findings /\ s \in DOMAIN findings
    BY <1>3, <2>1, RowFacts
  <2>3. findings[k].run = run
    <3>1. findings[k].run <= run /\ run <= findings[k].run
      BY <1>3, <2>1, <2>2 DEF RunsInOrder
    <3>2. run \in Nat /\ findings[k].run \in Nat
      BY <2>2, NumberFacts, FindingFacts, BoundsFacts DEF FindingType
    <3> QED BY <3>1, <3>2
  <2> QED BY <2>1, <2>3 DEF Mine
<1>5. \A k \in Mine : k \in s .. Len(findings)
  BY <1>1, <1>2 DEF Mine
<1>6. Mine = s .. Len(findings)
  BY <1>4, <1>5
<1> QED BY <1>1, <1>2, <1>3, <1>6, MaxFacts

LEMMA FollowsDerives ==
  ASSUME TypeOK, RunsInOrder, RiskFollows
  PROVE  RiskIsDerivable
<1> SUFFICES ASSUME ~Pending, Clean, Mine # {},
                    \A k \in Mine : /\ findings[k].ev # 0
                                    /\ CodeOf(k) = "D-001" <=> k = Min(Mine)
             PROVE  \E shown \in [Mine -> DOMAIN Rank] :
                      IsReading(shown, Mine) /\ risk = shown[Max(Mine)]
  BY DEF RiskIsDerivable, Pending
<1>1. PICK s \in born + 1 .. Len(findings) :
        s = Min(Mine) /\ Mine = s .. Len(findings) /\ Max(Mine) = Len(findings)
  BY MineFacts
<1>2. Starts(s)
  BY <1>1 DEF Starts
<1>3. Reads(s, risk)
  BY <1>2 DEF RiskFollows
<1> QED BY <1>1, <1>3 DEF Reads, Level

LEMMA DerivedInit == Init => RunsInOrder /\ RiskFollows
<1> SUFFICES ASSUME Init PROVE RunsInOrder /\ RiskFollows
  OBVIOUS
<1>1. findings = <<>> /\ Len(findings) = 0 /\ DOMAIN findings = {} /\ born = 0 /\ ~Pending
  BY DEF Init, Pending, Idle
<1>2. born + 1 .. Len(findings) = {}
  BY <1>1
<1> QED BY <1>1, <1>2 DEF RunsInOrder, RiskFollows

\* A reloaded dashboard derives the risk agent-d holds from the findings of the current
\* run, when the first of them is that the run's task was created, agent-d was not
\* restarted since, and none was refused, failed or was about a lingering lease
\* (ui/app/composables/useEventStream.ts:225-247). A refused mandate is excepted: its
\* code is the one that the dashboard's table lacks and agent-d's has.
THEOREM RiskDerived ==
  ASSUME "mandate_denied" \notin Kind
  PROVE  Spec => []RiskIsDerivable
<1>1. Init => ObserverInv /\ RunsInOrder /\ RiskFollows
  BY ObserverInit, DerivedInit
<1>2. ObserverInv /\ RunsInOrder /\ RiskFollows /\ [Next]_vars
        => (ObserverInv /\ RunsInOrder /\ RiskFollows)'
  <2>1. ObserverInv /\ RunsInOrder /\ [Next]_vars => RunsInOrder'
    BY RunsStep DEF ObserverInv
  <2> QED BY ObserverStep, RiskStep, <2>1
<1>3. ObserverInv /\ RunsInOrder /\ RiskFollows => RiskIsDerivable
  BY FollowsDerives DEF ObserverInv
<1> QED BY <1>1, <1>2, <1>3, PTL DEF Spec

=============================================================================
