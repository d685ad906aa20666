----------------------------- MODULE DemoControl -----------------------------
(***************************************************************************)
(* The operator's controls (backend/src/routes/demo.js, audit.js) and what *)
(* startup recovers (index.js): switching the profile and resetting the    *)
(* demo replace the current run in two places, the table demo_runs and the *)
(* process's memory (state.js), over several awaits; the other controls    *)
(* change memory only, for the next run, and are refused while a DAG runs. *)
(*                                                                         *)
(* A step is the code between two awaits, or one statement in PostgreSQL.  *)
(* The reset's transaction deletes what its snapshot holds and commits in  *)
(* one step, Delete; the lock it takes first makes the writers of other    *)
(* requests wait, each on a connection of the pool.  Credentials and tasks *)
(* are the subject of ControlGroup, AttemptCredential and FixedChain.      *)
(***************************************************************************)
EXTENDS Naturals, FiniteSets

CONSTANTS Thread,                 \* bound: requests in flight
          MaxConn,                \* connections of the operational pool
          MaxRun,                 \* bound: runs ever
          MaxFault                \* bound: crashes of the process and failing steps

None == "none"

ASSUME DemoAssumption ==
  /\ MaxConn \in Nat \ {0} /\ MaxRun \in Nat \ {0}
  /\ MaxFault \in Nat /\ None \notin Thread /\ IsFiniteSet(Thread)

Run == 1..MaxRun

Profile == {"bad", "good"}
\* Stands for fault_injection_mode too, which is set, recorded and restored alike;
\* authority_mechanism is set and recorded alike but not restored.
Workflow == {"fixed_chain", "recoverable_dag"}
Settings == [profile : Profile, workflow : Workflow]
Default == [profile |-> "bad", workflow |-> "fixed_chain"]

Switch == {"mode", "reset"}        \* the requests that replace the current run
Op == {None, "workflow", "start", "record"} \cup Switch
Locked == {"snapshot", "delete"}   \* where a reset holds the lock
Transaction == {"lock"} \cup Locked \* where it holds its own connection
Writing == {"end", "insert", "dagrow", "write"}
PC == {"idle", "active", "connect", "fresh", "adopt", "check", "set"}
      \cup Transaction \cup Writing

VARIABLES
  mem,      \* state.js: settings of the next run, and the current run's id
  up,       \* is the process listening?
  runs,     \* demo_runs, with the status of each one's dag_runs row
  lock,     \* the reset whose EXCLUSIVE table locks are granted
  waiting,  \* requests whose statement waits for that lock, on a connection
  since,    \* rows committed since the open reset took its snapshot
  call,     \* the requests in flight; `alone' as long as no other switch overlapped
  mixed,    \* history: have switches overlapped or failed, and memory ("mem") or
            \* demo_runs ("db") not been set right since?
  faults

db == <<runs, lock, waiting, since>>
vars == <<mem, up, db, call, mixed, faults>>

Idle == [op |-> None, pc |-> "idle", run |-> 1, set |-> Default, alone |-> TRUE]

TypeOK ==
  /\ mem \in [set : Settings, run : Run] /\ up \in BOOLEAN
  /\ runs \in [Run -> [status : {"none", "running", "completed", "reset", "gone"},
                       set : Settings, dag : {"none", "running", "completed"}]]
  /\ lock \in Thread \cup {None} /\ waiting \in SUBSET Thread
  /\ since \in SUBSET {"evidence", "dag"}
  /\ call \in [Thread -> [op : Op, pc : PC, run : Run, set : Settings, alone : BOOLEAN]]
  /\ mixed \in SUBSET {"mem", "db"}
  /\ faults \in 0..MaxFault

\* The first start: no run to recover, so one with the defaults is opened.
Init ==
  /\ mem = [set |-> Default, run |-> 1] /\ up = TRUE
  /\ runs = [r \in Run |-> [status |-> IF r = 1 THEN "running" ELSE "none",
                            set |-> Default, dag |-> "none"]]
  /\ lock = None /\ waiting = {} /\ since = {}
  /\ call = [t \in Thread |-> Idle]
  /\ mixed = {} /\ faults = 0

-----------------------------------------------------------------------------
At(t, p) == call[t].pc = p
Become(t, c) == call' = [call EXCEPT ![t] = c]
Go(t, p) == Become(t, [call[t] EXCEPT !.pc = p])
Switching == {t \in Thread : call[t].op \in Switch}
Open == {r \in Run : runs[r].status = "running"}
Unused == {r \in Run : runs[r].status = "none"}
Least(S) == CHOOSE r \in S : \A s \in S : r <= s
Latest(S) == CHOOSE r \in S : \A s \in S : r >= s

\* getPool().query() needs a connection; a write to a locked table, or one whose
\* foreign key leads to it, then waits on it until the reset is through.
Connected == {t \in Thread : call[t].pc \in Transaction} \cup waiting
FreeConn == Cardinality(Connected) < MaxConn
Query(t) == FreeConn /\ UNCHANGED waiting
Write(t) == lock = None /\ (t \in waiting \/ FreeConn) /\ waiting' = waiting \ {t}
Wait(t) ==
  /\ call[t].pc \in Writing /\ lock # None /\ t \notin waiting /\ FreeConn
  /\ waiting' = waiting \cup {t}
  /\ UNCHANGED <<mem, up, runs, lock, since, call, mixed, faults>>

Return(t) == Become(t, Idle)
Commits(rows) == since' = IF \E t \in Thread : At(t, "delete") THEN since \cup rows ELSE since

\* A handler begins: it reads the current run, or has it from a token.
Begin(t, op) ==
  /\ up /\ call[t].op = None
  /\ \E set \in Settings :
       LET first == CASE op = "mode" -> "active" [] op = "reset" -> "end"
                      [] op = "record" -> "write"
                      [] OTHER -> "check"
           solo == op \notin Switch \/ Switching = {}
           others == [u \in Thread |-> IF solo THEN call[u]
                                       ELSE [call[u] EXCEPT !.alone = FALSE]]
           field == IF op = "mode" THEN "profile" ELSE op
       IN /\ \A f \in DOMAIN Default \ {field} : set[f] = Default[f]
          /\ op \in Switch => Cardinality(Unused) > Cardinality(Switching)
          /\ call' = [others EXCEPT ![t] =
                         [op |-> op, pc |-> first, set |-> set, alone |-> solo,
                          run |-> IF op = "mode" THEN 1 ELSE mem.run]]
          /\ mixed' = IF solo THEN mixed ELSE {"mem", "db"}
  /\ UNCHANGED <<mem, up, db, faults>>

Active(t) ==
  /\ At(t, "active") /\ Query(t)
  /\ IF Open = {} THEN Go(t, "fresh")
     ELSE Become(t, [call[t] EXCEPT !.pc = "end", !.run = Latest(Open)])
  /\ UNCHANGED <<mem, up, runs, lock, since, mixed, faults>>

\* endRun, after cleanupRunCredentials; of a deleted run it updates no row.
End(t) ==
  LET c == call[t]
      status == IF c.op = "reset" THEN "reset" ELSE "completed"
  IN /\ At(t, "end") /\ Write(t)
     /\ runs' = [runs EXCEPT ![c.run].status = IF @ = "gone" THEN @ ELSE status]
     /\ Become(t, [c EXCEPT !.pc = IF c.op = "reset" THEN "connect" ELSE "fresh", !.run = 1])
     /\ UNCHANGED <<mem, up, lock, since, mixed, faults>>

\* The mode's handler sets the profile before it has a run with it.
Fresh(t) ==
  LET c == call[t]
      set == [mem.set EXCEPT !.profile = IF c.op = "mode" THEN c.set.profile ELSE @]
  IN /\ At(t, "fresh")
     /\ mem' = [mem EXCEPT !.set = set]
     /\ Become(t, [c EXCEPT !.pc = "insert", !.set = set])
     /\ UNCHANGED <<up, db, mixed, faults>>

Insert(t) ==
  LET c == call[t] IN
  /\ At(t, "insert") /\ Write(t) /\ Unused # {}
  /\ LET r == Least(Unused) IN
       /\ runs' = [runs EXCEPT ![r] = [status |-> "running", set |-> c.set, dag |-> "none"]]
       /\ Become(t, [c EXCEPT !.pc = "adopt", !.run = r, !.set = Default])
  /\ UNCHANGED <<mem, up, lock, since, mixed, faults>>

\* setCurrentRunId; an undisturbed switch makes memory right, an undisturbed reset
\* the table too.
Adopt(t) ==
  LET c == call[t] IN
  /\ At(t, "adopt")
  /\ mem' = [mem EXCEPT !.run = c.run]
  /\ mixed' = IF ~c.alone THEN mixed ELSE IF c.op = "reset" THEN {} ELSE mixed \ {"mem"}
  /\ Return(t)
  /\ UNCHANGED <<up, db, faults>>

-----------------------------------------------------------------------------
(* The reset's transaction.                                                *)

Connect(t) ==
  /\ At(t, "connect") /\ Query(t)
  /\ Go(t, "lock")
  /\ UNCHANGED <<mem, up, runs, lock, since, mixed, faults>>

LockRows(t) == \* REPEATABLE READ alone, as before the locks
  /\ At(t, "lock") /\ lock = None
  /\ Go(t, "snapshot")
  /\ UNCHANGED <<mem, up, runs, lock, waiting, since, mixed, faults>>

Lock(t) ==
  /\ At(t, "lock") /\ lock = None
  /\ lock' = t
  /\ Go(t, "snapshot")
  /\ UNCHANGED <<mem, up, runs, waiting, since, mixed, faults>>

SnapshotByPool(t) == \* the statements go through the pool, not the held client
  /\ At(t, "snapshot") /\ FreeConn
  /\ Go(t, "delete")
  /\ UNCHANGED <<mem, up, runs, lock, waiting, since, mixed, faults>>

\* The first DELETE takes the snapshot of the REPEATABLE READ transaction.
Snapshot(t) ==
  /\ At(t, "snapshot")
  /\ Go(t, "delete")
  /\ UNCHANGED <<mem, up, runs, lock, waiting, since, mixed, faults>>

\* DELETE FROM demo_runs fails on evidence its snapshot missed (a foreign key) and
\* on DAG rows changed since (its cascade could not serialize); else all runs go.
Aborted == since # {}
Delete(t) ==
  /\ At(t, "delete") /\ lock' = None /\ since' = {}
  /\ IF Aborted
     THEN /\ Return(t) /\ UNCHANGED runs
          /\ mixed' = mixed \cup {"mem"}
     ELSE /\ runs' = [r \in Run |-> IF r \in Unused THEN runs[r]
                                    ELSE [status |-> "gone", set |-> Default, dag |-> "none"]]
          /\ Go(t, "fresh") /\ UNCHANGED mixed
  /\ UNCHANGED <<mem, up, waiting, faults>>

-----------------------------------------------------------------------------
(* The requests beside it.                                                 *)

\* The controls are refused while the run's DAG runs; a DAG only starts for a run
\* recorded under its workflow mode.
Check(t) ==
  LET c == call[t] IN
  /\ At(t, "check") /\ Query(t)
  /\ CASE c.op = "workflow" /\ runs[c.run].dag # "running" -> Go(t, "set")
       [] c.op = "start" /\ runs[c.run].status # "gone"
          /\ runs[c.run].set.workflow = "recoverable_dag" -> Go(t, "dagrow")
       [] OTHER -> Return(t)
  /\ UNCHANGED <<mem, up, runs, lock, since, mixed, faults>>

Set(t) ==
  /\ At(t, "set")
  /\ mem' = [mem EXCEPT !.set.workflow = call[t].set.workflow]
  /\ Return(t)
  /\ UNCHANGED <<up, db, mixed, faults>>

\* initializeRun's first statement: ON CONFLICT DO NOTHING, and none for a run that
\* is gone.
DagRow(t) ==
  LET r == call[t].run IN
  /\ At(t, "dagrow") /\ Write(t)
  /\ runs' = [runs EXCEPT ![r].dag = IF @ = "none" /\ runs[r].status # "gone"
                                     THEN "running" ELSE @]
  /\ Return(t)
  /\ UNCHANGED <<mem, up, lock, since, mixed, faults>>

\* A record* insert of the evidence tables.
Record(t) ==
  /\ At(t, "write") /\ Write(t)
  /\ Commits(IF runs[call[t].run].status = "gone" THEN {} ELSE {"evidence"})
  /\ Return(t)
  /\ UNCHANGED <<mem, up, runs, lock, mixed, faults>>

\* The DAG engine updates its rows, which the reset does not lock, and ends the DAG.
DagProgress(r) ==
  /\ up /\ FreeConn /\ runs[r].dag = "running"
  /\ Commits({"dag"})
  /\ \E s \in {"running", "completed"} : runs' = [runs EXCEPT ![r].dag = s]
  /\ UNCHANGED <<mem, up, lock, waiting, call, mixed, faults>>

-----------------------------------------------------------------------------
FailKeepsLock(t) == \* no ROLLBACK: the client goes back to the pool with its locks
  /\ call[t].op # None /\ call[t].pc \notin {"fresh", "set"} /\ faults < MaxFault
  /\ faults' = faults + 1
  /\ waiting' = waiting \ {t} /\ UNCHANGED <<lock, since>>
  /\ mixed' = mixed \cup IF call[t].op \in Switch THEN {"mem"} ELSE {}
  /\ Return(t)
  /\ UNCHANGED <<mem, up, runs>>

\* A statement or its connection fails: 500, the transaction rolled back.
Fail(t) ==
  LET c == call[t] IN
  /\ c.op # None /\ c.pc \notin {"fresh", "set"} /\ faults < MaxFault
  /\ faults' = faults + 1
  /\ IF lock = t THEN lock' = None /\ since' = {} ELSE UNCHANGED <<lock, since>>
  /\ waiting' = waiting \ {t}
  /\ mixed' = mixed \cup IF c.op \in Switch THEN {"mem"} ELSE {}
  /\ Return(t)
  /\ UNCHANGED <<mem, up, runs>>

Crash ==
  /\ up /\ faults < MaxFault
  /\ faults' = faults + 1 /\ up' = FALSE
  /\ call' = [t \in Thread |-> Idle] /\ lock' = None /\ waiting' = {} /\ since' = {}
  /\ mixed' = mixed \ {"mem"}
  /\ UNCHANGED <<mem, runs>>

BootProfile == \* the run is adopted, its settings are not
  /\ ~up /\ up' = TRUE
  /\ IF Open # {}
     THEN mem' = [set |-> Default, run |-> Latest(Open)] /\ UNCHANGED runs
     ELSE /\ Unused # {}
          /\ LET r == Least(Unused) IN
               /\ runs' = [runs EXCEPT ![r].status = "running"]
               /\ mem' = [set |-> Default, run |-> r]
  /\ UNCHANGED <<lock, waiting, since, call, mixed, faults>>

\* main: an active run and its settings are restored; without one a run with the
\* process's defaults is opened.
Boot ==
  /\ ~up /\ up' = TRUE
  /\ IF Open # {}
     THEN /\ mem' = [set |-> runs[Latest(Open)].set, run |-> Latest(Open)]
          /\ UNCHANGED runs
     ELSE /\ Unused # {}
          /\ LET r == Least(Unused) IN
               /\ runs' = [runs EXCEPT ![r] = [status |-> "running", set |-> Default,
                                               dag |-> "none"]]
               /\ mem' = [set |-> Default, run |-> r]
  /\ UNCHANGED <<lock, waiting, since, call, mixed, faults>>

Step(t) ==
  \/ Wait(t) \/ Active(t) \/ End(t) \/ Fresh(t) \/ Insert(t) \/ Adopt(t)
  \/ Connect(t) \/ Lock(t) \/ Snapshot(t) \/ Delete(t)
  \/ Check(t) \/ Set(t) \/ DagRow(t) \/ Record(t)

Next ==
  \/ \E t \in Thread : Step(t) \/ Fail(t) \/ \E op \in Op \ {None} : Begin(t, op)
  \/ \E r \in Run : DagProgress(r)
  \/ Crash \/ Boot

Spec == Init /\ [][Next]_vars

-----------------------------------------------------------------------------
(* Properties.                                                             *)

\* What agent-d or any other writer commits while a reset deletes never makes the
\* reset fail: the FK check of DELETE FROM demo_runs sees the latest rows, so only
\* the table locks keep evidence away (demo.js:291-304).
EvidenceCannotAbort == "evidence" \notin since

\* With no switch in flight, and memory set right since the last one that was
\* overlapped or failed, a restart would resume the run and the profile the process
\* has now (index.js:85-97); and if a reset has cleaned up after switches that
\* overlapped, that run is the only one running in the table.
RestartResumes ==
  (up /\ Switching = {} /\ "mem" \notin mixed) =>
    /\ Open # {} /\ Latest(Open) = mem.run /\ runs[mem.run].set.profile = mem.set.profile
    /\ mixed = {} => Open = {mem.run}

\* What the next step of a request waits for: nothing, a connection or the locks.
Ready(t) ==
  LET pc == call[t].pc IN
  \/ pc \in {"fresh", "adopt", "set"} \cup Locked
  \/ pc \in {"active", "connect", "check"} /\ FreeConn
  \/ pc = "lock" /\ lock = None
  \/ pc \in Writing /\ lock # None /\ t \notin waiting /\ FreeConn
  \/ /\ pc \in Writing /\ lock = None /\ (t \in waiting \/ FreeConn)
     /\ pc = "insert" => Unused # {}

\* No wedge: while requests are in flight one of them can go on. A reset that holds
\* the locks never needs a connection that the requests waiting for those locks have
\* taken (demo.js:287-318, db.js:49).
SomeoneReady == (\E t \in Thread : call[t].op # None) => \E t \in Thread : Ready(t)

\* The same, of the steps themselves.
SomeoneProceeds == SomeoneReady /\ \A t \in Thread : Ready(t) => ENABLED Step(t)

=============================================================================
