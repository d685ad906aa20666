------------------------------ MODULE Observer ------------------------------
(***************************************************************************)
(* The event stream and agent-d, the observer that narrates it             *)
(* (backend/src/events.js, agents/src/observerRuntime.js, subscribeEvents  *)
(* and the token calls of agents/src/backendClient.js,                     *)
(* agents/identities/agent-d.js).                                          *)
(*                                                                         *)
(* The backend writes every event to each open connection; nothing is      *)
(* replayed.  agent-d takes one event at a time: it mints a new token when *)
(* the event names another run than the last one did, classifies the       *)
(* event, has a model narrate it if the risk state moved, and records a    *)
(* finding with the token it holds.  The backend refuses a token minted    *)
(* for another run than the current one.  Beside that loop run a refresh   *)
(* of the token and one timer per attempt that was given a lease, which    *)
(* reports the lease as lingering if it fires.  An event keeps here the    *)
(* fate it met, so the queue of a connection is the events still "queued". *)
(* The dashboard appears only as the reading it makes of the findings.     *)
(***************************************************************************)
EXTENDS Integers, Sequences, FiniteSetsExt

CONSTANTS
  Attempt,      \* attempts of DAG nodes that are given a credential
  NoAttempt,    \* an event or a finding that is about no attempt
  Kind,         \* the events published that are about no attempt's lease
  MaxEvent,     \* how many events are published
  MaxRun,       \* how many runs there are
  MaxFault,     \* cut connections, restarts of agent-d and failed calls
  MaxRefresh    \* how many times the refresh timer finds an old token

LeaseKind == {"issued", "lease_revoked", "timed_out"}

ASSUME ObserverBounds ==
  /\ MaxEvent \in Nat /\ MaxRun \in Nat \ {0}
  /\ MaxFault \in Nat /\ MaxRefresh \in Nat
  /\ NoAttempt \notin Attempt /\ Kind \cap LeaseKind = {}

VARIABLES
  run,          \* the backend's current run (state.js)
  log,          \* every event published, in order, with its fate
  conn,         \* is agent-d's connection "up" or "down"?
  handler,      \* where the loop over events is (awaited end to end)
  token,        \* the run agent-d's token was minted for
  known,        \* lastKnownRunId; 0 is null
  refresh,      \* the run of a refreshed token on its way back, or 0
  timers,       \* attempts with a pending revocation check
  inflight,     \* finding writes nobody awaits
  risk,         \* agent-d's riskState
  findings,     \* rows of findings, in order of created_at
  fired,        \* attempts reported as lingering since agent-d started
  born,         \* how many findings there were when agent-d last started
  overtaken,    \* did a refreshed token ever replace one of a later run?
  faults, refreshes

obs  == <<conn, handler, token, known, timers, risk>>
vars == <<run, log, conn, handler, token, known, refresh, timers, inflight,
          risk, findings, fired, born, overtaken, faults, refreshes>>

-----------------------------------------------------------------------------
\* classify(): the code and the severity of an event, if it is a signal.

Code == [task           |-> "D-001", delegate_b |-> "D-002",
         delegate_c     |-> "D-003", request    |-> "D-004",
         good_issued    |-> "D-004b", bad_issued |-> "D-005",
         mutation       |-> "D-006", denied     |-> "D-007",
         revoked        |-> "D-008", off_path   |-> "D-009",
         mandate_denied |-> "D-010", retry      |-> "D-101",
         invalidated    |-> "D-102"]

Severity(code) ==
  CASE code \in {"D-001", "D-002", "D-008"} -> "NORMAL"
    [] code \in {"D-005", "D-006"}          -> "CRITICAL"
    [] code \in {"D-007", "D-010"}          -> "CONTAINED"
    [] OTHER                                -> "ELEVATED"

IsSignal(kind) == kind \in DOMAIN Code

Rank == [NORMAL |-> 0, ELEVATED |-> 1, CONTAINED |-> 1, CRITICAL |-> 2]

\* The rule of nextState: a new task resets the state, a refusal contains
\* it, and any other signal only raises it.
NextState(current, code) ==
  LET severity == Severity(code) IN
  IF code = "D-001" \/ severity = "CONTAINED" \/ Rank[severity] >= Rank[current]
    THEN severity ELSE current

-----------------------------------------------------------------------------
\* The dashboard's reading of the findings of a run (useEventStream.ts): a
\* table of codes, where a code it does not list counts as ELEVATED, and
\* the rule applyEntry folds over the rows.

RiskByCode(code) ==
  CASE code \in {"D-001", "D-002", "D-008"} -> "NORMAL"
    [] code \in {"D-005", "D-006"}          -> "CRITICAL"
    [] code = "D-007"                       -> "CONTAINED"
    [] OTHER                                -> "ELEVATED"

ApplyFinding(shown, code) ==
  LET next == RiskByCode(code) IN
  IF next = "CONTAINED" \/ Rank[next] >= Rank[shown] THEN next ELSE shown

CodeOf(k) == Code[log[findings[k].ev].kind]

\* What the dashboard shows after each of the rows it reads: it begins at
\* NORMAL and applies them in order.
IsReading(shown, rows) ==
  \A k \in rows :
    LET earlier == {j \in rows : j < k}
        last    == IF earlier = {} THEN "NORMAL" ELSE shown[Max(earlier)]
    IN  shown[k] = ApplyFinding(last, CodeOf(k))

-----------------------------------------------------------------------------
\* The backend: publishing, and recording a finding.

Idle  == [pc |-> "idle", ev |-> 0, minted |-> 0]
Fates == {"queued", "lost", "busy", "handled", "forgotten", "recorded",
          "refused", "stale", "failed"}

Queued == {i \in DOMAIN log : log[i].fate = "queued"}

\* publishEvent: written to the connections open now, lost to the others.
PublishEvent(kind, r, a) ==
  /\ Len(log) < MaxEvent
  /\ log' = Append(log, [kind |-> kind, run |-> r, att |-> a,
                         fate |-> IF conn = "up" THEN "queued" ELSE "lost"])

Fate(i, f) == log' = [log EXCEPT ![i].fate = f]

Init ==
  /\ run = 1 /\ log = <<>> /\ conn = "down" /\ handler = Idle
  /\ token = 1 /\ known = 0 /\ refresh = 0
  /\ timers = {} /\ inflight = {} /\ risk = "NORMAL" /\ findings = <<>>
  /\ fired = {} /\ born = 0 /\ overtaken = FALSE
  /\ faults = 0 /\ refreshes = 0

\* An evidence row is written.  A handler that was under way when the run
\* was switched still writes rows of the run before.
Publish(kind, r) ==
  /\ r \in {run - 1, run} \cap 1 .. MaxRun
  /\ kind = "task" => r = run
  /\ PublishEvent(kind, r, NoAttempt)
  /\ UNCHANGED <<obs, run, refresh, inflight, findings, fired, born,
                 overtaken, faults, refreshes>>

Published(a, kind) == \E i \in DOMAIN log :
                        log[i].att = a /\ log[i].kind = kind

\* issueDatabaseCredential for an attempt, the watchdog's timeout of it and
\* the revocation of its lease.  The revocation may never come: it throws
\* when Vault fails, and the sweep that found the attempt does not return.
RunOf(a) == LET i == CHOOSE i \in DOMAIN log :
                       log[i].att = a /\ log[i].kind = "issued"
            IN  log[i].run

IssueLease(a) ==
  /\ ~Published(a, "issued")
  /\ PublishEvent("issued", run, a)
  /\ UNCHANGED <<obs, run, refresh, inflight, findings, fired, born,
                 overtaken, faults, refreshes>>

EndLease(a, kind) ==
  /\ Published(a, "issued") /\ ~Published(a, "lease_revoked")
  /\ \/ kind = "lease_revoked"
     \/ kind = "timed_out" /\ ~Published(a, "timed_out")
  /\ PublishEvent(kind, RunOf(a), a)
  /\ UNCHANGED <<obs, run, refresh, inflight, findings, fired, born,
                 overtaken, faults, refreshes>>

SwitchRun ==
  /\ run < MaxRun
  /\ run' = run + 1
  /\ UNCHANGED <<obs, log, refresh, inflight, findings, fired, born,
                 overtaken, faults, refreshes>>

\* agentJwtAuth on a token that is bound to no task.
Accepted == token = run

\* POST /findings; the row carries the run of the token.
RecordFinding(ev, a) ==
  findings' = Append(findings, [ev |-> ev, att |-> a, run |-> token])

-----------------------------------------------------------------------------
\* agent-d: the connection.

\* subscribeEvents (re)connects once the stream it read has ended, two
\* seconds later; until then it works off the frames it already has.
Connect ==
  /\ conn = "down" /\ Queued = {} /\ handler.pc = "idle"
  /\ conn' = "up"
  /\ UNCHANGED <<run, log, handler, token, known, refresh, timers, inflight,
                 risk, findings, fired, born, overtaken, faults, refreshes>>

\* The connection is cut; of what was sent, only the first k frames came.
CutConnection ==
  /\ conn = "up" /\ faults < MaxFault
  /\ conn' = "down"
  /\ \E kept \in SUBSET Queued :
       /\ \A i \in kept : \A j \in Queued : j < i => j \in kept
       /\ log' = [i \in DOMAIN log |->
                    IF i \in Queued \ kept
                      THEN [log[i] EXCEPT !.fate = "lost"] ELSE log[i]]
  /\ faults' = faults + 1
  /\ UNCHANGED <<run, handler, token, known, refresh, timers, inflight, risk,
                 findings, fired, born, overtaken, refreshes>>

\* The container is restarted: the module's variables start afresh.
Restart ==
  /\ faults < MaxFault
  /\ log' = [i \in DOMAIN log |-> [log[i] EXCEPT !.fate =
               CASE @ \in {"queued", "busy"} -> "lost"
                 [] @ = "handled"            -> "forgotten"
                 [] OTHER                    -> @]]
  /\ conn' = "down" /\ handler' = Idle /\ token' = run /\ known' = 0
  /\ refresh' = 0 /\ timers' = {} /\ inflight' = {} /\ risk' = "NORMAL"
  /\ fired' = {} /\ born' = Len(findings)
  /\ faults' = faults + 1
  /\ UNCHANGED <<run, findings, overtaken, refreshes>>

-----------------------------------------------------------------------------
\* agent-d: one event, from the frame to its finding.

\* Mutant: one check per node, so a new attempt takes over the check of the
\* one before.
WatchedPerNode(e) ==
  CASE e.kind = "issued"                         -> {e.att}
    [] e.kind \in {"lease_revoked", "timed_out"} -> timers \ {e.att}
    [] OTHER                                     -> timers

\* trackLeaseLifecycle.
Watched(e) ==
  CASE e.kind = "issued"                           -> timers \cup {e.att}
    [] e.kind \in {"lease_revoked", "timed_out"}   -> timers \ {e.att}
    [] OTHER                                       -> timers

\* Mutant: the risk state of the run before is carried into a new run.
RiskKept(e) == IF e.kind = "task" THEN risk ELSE NextState(risk, Code[e.kind])

RiskAfter(e) == NextState(risk, Code[e.kind])

\* Mutant: narration and finding are left to themselves, as they once were.
OnEventUnawaited(i) ==
  LET e == log[i]
  IN  /\ timers' = Watched(e)
      /\ handler' = Idle
      /\ Fate(i, "handled")
      /\ IF IsSignal(e.kind)
           THEN /\ risk' = RiskAfter(e)
                /\ inflight' = inflight \cup {[ev |-> i, att |-> NoAttempt]}
           ELSE UNCHANGED <<risk, inflight>>

\* onEvent up to its first await: nothing to say, a finding to narrate
\* because the risk state moved, or one to record at once.
OnEvent(i) ==
  LET e == log[i]
  IN  /\ timers' = Watched(e)
      /\ UNCHANGED inflight
      /\ IF IsSignal(e.kind)
           THEN /\ risk' = RiskAfter(e)
                /\ handler' = [Idle EXCEPT !.ev = i,
                     !.pc = IF RiskAfter(e) # risk THEN "narrate" ELSE "record"]
                /\ Fate(i, "busy")
           ELSE /\ handler' = Idle
                /\ Fate(i, "handled")
                /\ UNCHANGED risk

\* Mutant: a token for the first event is thought to be enough.
NamesFirstRun(i) == log[i].kind # "issued" /\ known = 0

\* The row published with a lease names no run.
NamesNewRun(i) == log[i].kind # "issued" /\ log[i].run # known

\* Mutant: what came before the connection was cut waits for the next one.
FreeWhileUp == handler.pc = "idle" /\ conn = "up"

\* subscribeEvents awaits onEvent before it takes the next frame.
Free == handler.pc = "idle"

TakeEvent ==
  /\ Free /\ Queued # {}
  /\ LET i == Min(Queued) IN
     IF NamesNewRun(i)
       THEN /\ handler' = [Idle EXCEPT !.ev = i, !.pc = "boot"]
            /\ Fate(i, "busy")
            /\ UNCHANGED <<timers, risk, inflight>>
       ELSE OnEvent(i)
  /\ UNCHANGED <<run, conn, token, known, refresh, findings, fired, born,
                 overtaken, faults, refreshes>>

\* bootstrapToken: the backend signs a token for its current run ...
MintToken ==
  /\ handler.pc = "boot"
  /\ handler' = [handler EXCEPT !.pc = "minted", !.minted = run]
  /\ UNCHANGED <<run, log, conn, token, known, refresh, timers, inflight,
                 risk, findings, fired, born, overtaken, faults, refreshes>>

\* ... and the event is handled once the answer is there.
StoreToken ==
  /\ handler.pc = "minted"
  /\ token' = handler.minted
  /\ known' = log[handler.ev].run
  /\ OnEvent(handler.ev)
  /\ UNCHANGED <<run, conn, refresh, findings, fired, born, overtaken, faults,
                 refreshes>>

\* A call fails: the loop logs it and goes on with the next event.
CallFails ==
  /\ handler.pc \in {"boot", "minted", "record"} /\ faults < MaxFault
  /\ Fate(handler.ev, "failed")
  /\ handler' = Idle
  /\ faults' = faults + 1
  /\ UNCHANGED <<run, conn, token, known, refresh, timers, inflight, risk,
                 findings, fired, born, overtaken, refreshes>>

\* narrate: an answer or an error, it makes no difference to the finding.
Narrate ==
  /\ handler.pc = "narrate"
  /\ handler' = [handler EXCEPT !.pc = "record"]
  /\ UNCHANGED <<run, log, conn, token, known, refresh, timers, inflight,
                 risk, findings, fired, born, overtaken, faults, refreshes>>

Record ==
  /\ handler.pc = "record"
  /\ handler' = Idle
  /\ IF Accepted
       THEN /\ RecordFinding(handler.ev, NoAttempt)
            /\ Fate(handler.ev, "recorded")
       ELSE /\ Fate(handler.ev, IF log[handler.ev].run = run THEN "refused"
                                                             ELSE "stale")
            /\ UNCHANGED findings
  /\ UNCHANGED <<run, conn, token, known, refresh, timers, inflight, risk,
                 fired, born, overtaken, faults, refreshes>>

-----------------------------------------------------------------------------
\* agent-d: what runs beside that loop.

\* ensureFreshToken finds the token past half its life.
RefreshToken ==
  /\ refresh = 0 /\ refreshes < MaxRefresh
  /\ refresh' = run
  /\ refreshes' = refreshes + 1
  /\ UNCHANGED <<obs, run, log, inflight, findings, fired, born, overtaken,
                 faults>>

StoreRefresh ==
  /\ refresh # 0
  /\ token' = refresh /\ refresh' = 0
  /\ overtaken' = (overtaken \/ refresh < token)
  /\ UNCHANGED <<run, log, conn, handler, known, timers, inflight, risk,
                 findings, fired, born, faults, refreshes>>

\* The revocation check of an attempt comes due.
ReportLingering(a) ==
  /\ a \in timers
  /\ timers' = timers \ {a}
  /\ fired' = fired \cup {a}
  /\ inflight' = inflight \cup {[ev |-> 0, att |-> a]}
  /\ UNCHANGED <<run, log, conn, handler, token, known, refresh, risk,
                 findings, born, overtaken, faults, refreshes>>

\* A write nobody waits for arrives; its refusal is swallowed.
WriteArrives(w) ==
  /\ w \in inflight
  /\ inflight' = inflight \ {w}
  /\ IF Accepted THEN RecordFinding(w.ev, w.att) ELSE UNCHANGED findings
  /\ UNCHANGED <<obs, run, log, refresh, fired, born, overtaken, faults,
                 refreshes>>

Loop == \/ Connect \/ TakeEvent \/ MintToken \/ StoreToken \/ Narrate
        \/ Record

Next ==
  \/ \E kind \in Kind, r \in 1 .. MaxRun : Publish(kind, r)
  \/ \E a \in Attempt : IssueLease(a) \/ ReportLingering(a)
  \/ \E a \in Attempt, kind \in {"lease_revoked", "timed_out"} :
       EndLease(a, kind)
  \/ SwitchRun \/ CutConnection \/ Restart \/ CallFails
  \/ RefreshToken \/ StoreRefresh
  \/ \E w \in inflight : WriteArrives(w)
  \/ Loop

Spec == Init /\ [][Next]_vars

\* Every call ends, and the loop runs on: nothing in it waits for ever.
FairSpec == Spec /\ WF_vars(Loop)

-----------------------------------------------------------------------------
\* Every variable has its type; an event is busy exactly while the loop is
\* at it.
TypeOK ==
  /\ run \in 1 .. MaxRun
  /\ log \in Seq([kind : Kind \cup LeaseKind, run : 1 .. MaxRun,
                  att : Attempt \cup {NoAttempt}, fate : Fates])
  /\ Len(log) <= MaxEvent
  /\ conn \in {"up", "down"}
  /\ handler \in [pc : {"idle", "boot", "minted", "narrate", "record"},
                   ev : 0 .. MaxEvent, minted : 0 .. MaxRun]
  /\ token \in 1 .. MaxRun
  /\ {known, refresh} \subseteq 0 .. MaxRun
  /\ timers \in SUBSET Attempt /\ fired \in SUBSET Attempt
  /\ inflight \in SUBSET [ev : 0 .. MaxEvent, att : Attempt \cup {NoAttempt}]
  /\ risk \in DOMAIN Rank
  /\ findings \in Seq([ev : 0 .. MaxEvent, att : Attempt \cup {NoAttempt},
                       run : 1 .. MaxRun])
  /\ born \in 0 .. Len(findings) /\ overtaken \in BOOLEAN
  /\ faults \in 0 .. MaxFault /\ refreshes \in 0 .. MaxRefresh
  /\ {i \in DOMAIN log : log[i].fate = "busy"} = {handler.ev} \ {0}

\* Findings about events are recorded in the order of the events, slow
\* narration, lost connections and refused calls notwithstanding: what the
\* comment on onEvent says the whole agent exists for
\* (agents/identities/agent-d.js:427-436).
FindingsInOrder ==
  \A i, j \in DOMAIN findings :
    i < j /\ 0 \notin {findings[i].ev, findings[j].ev}
      => findings[i].ev < findings[j].ev

Mine  == {k \in born + 1 .. Len(findings) : findings[k].run = run}
Clean == \A i \in DOMAIN log : log[i].fate \notin {"refused", "stale", "failed"}

\* A dashboard that is reloaded derives the risk agent-d holds from the
\* current run's findings alone, by a table and a rule of its own that
\* "mirrors" agent-d's (ui/app/composables/useEventStream.ts:225-247): when
\* the run's first finding is that its task was created, agent-d has not
\* been restarted since, and no finding was refused, failed or was about a
\* lingering lease.
RiskIsDerivable ==
  /\ handler.pc \notin {"narrate", "record"} /\ Clean /\ Mine # {}
  /\ \A k \in Mine : /\ findings[k].ev # 0
                     /\ CodeOf(k) = "D-001" <=> k = Min(Mine)
  => \E shown \in [Mine -> DOMAIN Rank] :
       IsReading(shown, Mine) /\ risk = shown[Max(Mine)]

Handled(a, kind) == \E i \in DOMAIN log :
  log[i].att = a /\ log[i].kind = kind /\ log[i].fate = "handled"

\* An attempt agent-d has seen given a lease is watched or was reported
\* until agent-d sees the lease revoked or the attempt timed out, and is
\* never watched after it, however the events of several attempts
\* interleave (scheduleRevocationCheck, clearPendingRevocationCheck).
WatchMatchesLease ==
  \A a \in Attempt :
    /\ Handled(a, "lease_revoked") => a \notin timers
    /\ Handled(a, "issued") /\ ~Handled(a, "timed_out")
         /\ ~Handled(a, "lease_revoked")
       => a \in timers \cup fired

\* A finding about an event of the current run is refused only after a
\* refresh put back a token of an earlier run: the token minted at the
\* first event of a run "closes that window precisely"
\* (agents/src/observerRuntime.js:59-68).
CurrentIsAccepted ==
  (\E i \in DOMAIN log : log[i].fate = "refused") => overtaken

\* Every signal written to a connection that stays up is recorded, unless
\* the call fails or its run is over: a slow or failing narration holds a
\* finding up and never loses it.
Settled == \A i \in DOMAIN log : log[i].fate \notin {"queued", "busy"}

SignalIsWitnessed == []<>Settled
=============================================================================
