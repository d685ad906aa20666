----------------------------- MODULE PoolRenewal -----------------------------
(***************************************************************************)
(* The backend's own database pool (backend/src/db.js): a credential from  *)
(* Vault that lives Ttl minutes, replaced with its pool when a heartbeat   *)
(* finds it old or a health check (routes/health.js) finds it dead, while  *)
(* handlers go on with the pool they took.                                 *)
(*                                                                         *)
(* Time is counted in heartbeats.  Vault and PostgreSQL answer within one; *)
(* in an outage a call fails, or hangs for at most Hang of them.           *)
(***************************************************************************)
EXTENDS Naturals, FiniteSets

CONSTANTS Handler,        \* bound: handlers that use the pool
          Ttl,            \* the credential's lease
          RenewAt,        \* the age from which it is replaced: 80% of Ttl
          Hang,           \* how long a call that gets no answer can last
          MaxOutage       \* bound: how long Vault or PostgreSQL stays away

Trigger == {"heartbeat", "health"}
Pool == 1..4              \* bound: pools not ended yet
None == 0
Gap == Hang + 2           \* bound: outages do not follow on each other faster
Longest == MaxOutage + Hang + 3

\* The old pool is ended by the time that the new credential is due (1 < RenewAt).
ASSUME PoolAssumption ==
  /\ {Ttl, RenewAt, Hang, MaxOutage} \subseteq Nat \ {0} /\ 1 < RenewAt
  /\ RenewAt + MaxOutage + Hang + 1 < Ttl

VARIABLES
  pool,       \* db.js pool
  believed,   \* age of poolCredential by credentialIssuedAt
  renewing,   \* db.js renewing
  made,       \* the pools made, and the credential of each
  call,       \* the renewal each trigger runs; `lost' if it will get no answer
  due,        \* triggers whose turn in this minute is still to come
  handler,    \* the pool each handler took, and since when a client of it is out:
              \* this minute (1) or the one before (2)
  reachable,  \* do Vault and PostgreSQL answer?
  minutes,    \* since they do, or do not
  dead        \* history: for how many minutes has the pool had no valid credential?

vars == <<pool, believed, renewing, made, call, due, handler, reachable, minutes, dead>>

NoPool == [status |-> "none", age |-> 0, ok |-> FALSE]
Quiet == [pc |-> "idle", old |-> None, new |-> None, lost |-> FALSE, minutes |-> 0]

TypeOK ==
  /\ pool \in Pool /\ believed \in 0..Ttl /\ renewing \in BOOLEAN
  /\ made \in [Pool -> [status : {"none", "new", "open", "ending"}, age : 0..Ttl,
                        ok : BOOLEAN]]
  /\ call \in [Trigger -> [pc : {"idle", "failed", "issue", "check", "end"},
                           old : Pool \cup {None}, new : Pool \cup {None},
                           lost : BOOLEAN, minutes : 0..Hang]]
  /\ due \in SUBSET Trigger
  /\ handler \in [Handler -> [pool : Pool \cup {None}, busy : 0..2]]
  /\ reachable \in BOOLEAN
  /\ minutes \in 0..(IF reachable THEN Gap ELSE MaxOutage) /\ dead \in 0..(Longest + 1)

\* initDbPool: the first pool is made before the process listens.
Init ==
  /\ pool = 1 /\ believed = 0 /\ renewing = FALSE
  /\ made = [p \in Pool |-> IF p = 1 THEN [status |-> "open", age |-> 0, ok |-> TRUE]
                            ELSE NoPool]
  /\ call = [t \in Trigger |-> Quiet]
  /\ due = Trigger
  /\ handler = [h \in Handler |-> [pool |-> None, busy |-> 0]]
  /\ reachable = TRUE /\ minutes = 0 /\ dead = 0

-----------------------------------------------------------------------------
At(t, p) == call[t].pc = p
Valid(p) == made[p].ok /\ made[p].age < Ttl
Awaited(t) == call[t].pc \in {"issue", "check"}
Uses(h, p) == handler[h].pool = p /\ handler[h].busy > 0
Settled(t) == \/ At(t, "idle")
              \/ At(t, "end") /\ \E h \in Handler : Uses(h, call[t].old)
              \/ Awaited(t) /\ call[t].lost /\ call[t].minutes < Hang
Unknown(p) == made[p].status = "none" /\ \A t \in Trigger : call[t].old # p
Least(a, b) == IF a < b THEN a ELSE b

\* A minute passes, once all that takes less has happened in it.
Tick ==
  /\ due = {} /\ \A t \in Trigger : Settled(t)
  /\ \A h \in Handler : handler[h].busy # 2
  /\ handler' = [h \in Handler |-> [handler[h] EXCEPT !.busy = IF @ = 0 THEN 0 ELSE 2]]
  /\ reachable \/ minutes < MaxOutage
  /\ believed' = Least(believed + 1, Ttl)
  /\ made' = [p \in Pool |-> IF made[p].status = "none" THEN NoPool
                             ELSE [made[p] EXCEPT !.age = Least(@ + 1, Ttl)]]
  /\ call' = [t \in Trigger |-> [call[t] EXCEPT !.minutes = IF Awaited(t) THEN @ + 1 ELSE 0]]
  /\ minutes' = IF reachable THEN Least(minutes + 1, Gap) ELSE minutes + 1
  /\ dead' = IF Valid(pool) THEN 0 ELSE Least(dead + 1, Longest + 1)
  /\ due' = Trigger
  /\ UNCHANGED <<pool, renewing, reachable>>

Issuing == [pc |-> "issue", old |-> pool, new |-> None, lost |-> ~reachable, minutes |-> 0]

StartAlways(t) == \* renewNow without its guard
  /\ call' = [call EXCEPT ![t] = Issuing]
  /\ renewing' = TRUE

\* renewNow: one renewal at a time; a trigger that finds one running is done.
Start(t) ==
  IF renewing THEN call' = [call EXCEPT ![t] = Quiet] /\ UNCHANGED renewing
  ELSE call' = [call EXCEPT ![t] = Issuing] /\ renewing' = TRUE

DueAtExpiry == believed >= Ttl \* the age is compared with the whole lease

\* checkAndRenewIfDue.
Due == believed >= RenewAt

\* startRenewalHeartbeat's interval; a renewal of its own may still be running.
Heartbeat ==
  LET t == "heartbeat" IN
  /\ t \in due /\ due' = due \ {t}
  /\ IF Due /\ At(t, "idle") THEN Start(t) ELSE UNCHANGED <<call, renewing>>
  /\ UNCHANGED <<pool, believed, made, handler, reachable, minutes, dead>>

HealthyByPool == reachable \* SELECT 1 on a connection the pool already has

\* verifyCredentialFresh: a new connection with the current credential.
Healthy == reachable /\ Valid(pool)

\* GET /health probes once a minute here, and asks for a renewal when that failed.
Probe ==
  LET t == "health" IN
  /\ t \in due /\ due' = due \ {t}
  /\ IF At(t, "idle") /\ ~Healthy
     THEN call' = [call EXCEPT ![t].pc = "failed"] ELSE UNCHANGED call
  /\ UNCHANGED <<pool, believed, renewing, made, handler, reachable, minutes, dead>>

Recover ==
  /\ At("health", "failed") /\ Start("health")
  /\ UNCHANGED <<pool, believed, made, due, handler, reachable, minutes, dead>>

-----------------------------------------------------------------------------
(* One renewal.                                                            *)

\* issueDatabaseCredential("factory-backend-role"), and a Pool on the credential.
Issue(t) ==
  /\ At(t, "issue") /\ ~call[t].lost
  /\ \E p \in Pool :
       /\ Unknown(p) /\ \A q \in Pool : Unknown(q) => p <= q
       /\ made' = [made EXCEPT ![p] = [status |-> "new", age |-> 0, ok |-> TRUE]]
       /\ call' = [call EXCEPT ![t].pc = "check", ![t].new = p]
  /\ UNCHANGED <<pool, believed, renewing, due, handler, reachable, minutes, dead>>

\* SELECT 1 answers; the new pool is taken, then the old one told to end.
Swap(t) ==
  LET c == call[t] IN
  /\ At(t, "check") /\ ~c.lost
  /\ pool' = c.new /\ believed' = 0
  /\ made' = [made EXCEPT ![c.new].status = "open", ![c.old].status = "ending"]
  /\ call' = [call EXCEPT ![t].pc = "end"]
  /\ dead' = IF made[c.new].ok THEN 0 ELSE dead
  /\ UNCHANGED <<renewing, due, handler, reachable, minutes>>

\* pool.end() resolves when the last client that was out has come back.
EndOld(t) ==
  LET old == call[t].old IN
  /\ At(t, "end")
  /\ \A h \in Handler : ~Uses(h, old)
  /\ made' = [made EXCEPT ![old] = NoPool]
  /\ handler' = [h \in Handler |-> IF handler[h].pool = old
                                   THEN [pool |-> None, busy |-> 0] ELSE handler[h]]
  /\ renewing' = FALSE
  /\ call' = [call EXCEPT ![t] = Quiet]
  /\ UNCHANGED <<pool, believed, due, reachable, minutes, dead>>

\* The catch: the pool and its date stay, so that the next heartbeat tries again.  A
\* pool whose check failed has no connection and is dropped.
Fail(t) ==
  /\ Awaited(t) /\ call[t].lost
  /\ made' = IF call[t].new = None THEN made ELSE [made EXCEPT ![call[t].new] = NoPool]
  /\ renewing' = FALSE
  /\ call' = [call EXCEPT ![t] = Quiet]
  /\ UNCHANGED <<pool, believed, due, handler, reachable, minutes, dead>>

-----------------------------------------------------------------------------
(* Its users and its environment.                                          *)

\* const pool = getPool().
Take(h) ==
  /\ handler[h].busy = 0
  /\ handler' = [handler EXCEPT ![h].pool = pool]
  /\ UNCHANGED <<pool, believed, renewing, made, call, due, reachable, minutes, dead>>

\* pool.query(): a client goes out; a pool told to end refuses, and the handler fails.
Query(h) ==
  LET p == handler[h].pool IN
  /\ handler[h].busy = 0 /\ p # None
  /\ handler' = [handler EXCEPT ![h] =
                   IF made[p].status = "open" /\ reachable THEN [@ EXCEPT !.busy = 1]
                   ELSE [pool |-> None, busy |-> 0]]
  /\ UNCHANGED <<pool, believed, renewing, made, call, due, reachable, minutes, dead>>

Answer(h) ==
  /\ handler[h].busy > 0
  /\ \E p \in {None, handler[h].pool} : \* the handler is over, or goes on with it
       handler' = [handler EXCEPT ![h] = [pool |-> p, busy |-> 0]]
  /\ UNCHANGED <<pool, believed, renewing, made, call, due, reachable, minutes, dead>>

\* The lease is revoked, or its role barred, behind the backend's back.
Revoked ==
  /\ made[pool].ok
  /\ made' = [made EXCEPT ![pool].ok = FALSE]
  /\ UNCHANGED <<pool, believed, renewing, call, due, handler, reachable, minutes, dead>>

Outage ==
  /\ reachable /\ minutes = Gap
  /\ reachable' = FALSE /\ minutes' = 0
  /\ call' = [t \in Trigger |-> [call[t] EXCEPT !.lost = @ \/ Awaited(t)]]
  /\ UNCHANGED <<pool, believed, renewing, made, due, handler, dead>>

Repair ==
  /\ ~reachable
  /\ reachable' = TRUE /\ minutes' = 0
  /\ UNCHANGED <<pool, believed, renewing, made, call, due, handler, dead>>

Work ==
  \/ Heartbeat \/ Probe \/ Recover
  \/ \E t \in Trigger : Issue(t) \/ Swap(t) \/ EndOld(t) \/ Fail(t)

Next ==
  \/ Tick \/ Work \/ Revoked \/ Outage \/ Repair
  \/ \E h \in Handler : Take(h) \/ Query(h) \/ Answer(h)

Spec == Init /\ [][Next]_vars

-----------------------------------------------------------------------------
(* Properties.                                                             *)

\* getPool() hands out an open pool, and two renewals never race: each pool that is
\* neither current nor ended is one that a running renewal is making or ending, so none
\* is leaked and no slower renewal puts an older credential back (db.js:104-131).
NoPoolIsLeaked ==
  /\ made[pool].status = "open"
  /\ \A p \in Pool \ {pool} : made[p].status # "none" =>
       \E t \in Trigger : ~At(t, "idle") /\ p \in {call[t].old, call[t].new}

\* The margin holds: unless it is revoked, the credential never expires under the
\* pool, through any outage of at most MaxOutage (db.js:26-31, 95-102, 141-148).
NeverExpires == made[pool].age < Ttl

\* A credential revoked behind the backend's back is replaced soon, although the
\* heartbeat thinks it young and the pool's own connections still work: the first
\* health check that is answered asks for it (health.js:15-31), a renewal that failed
\* leaves the way free for the next, and the end of the old pool does not wait for
\* handlers that only keep it (db.js:131-152).
DeadOnlyBriefly == dead <= Longest

=============================================================================
