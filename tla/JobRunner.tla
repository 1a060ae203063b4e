----------------------------- MODULE JobRunner -----------------------------
(***************************************************************************)
(* Background jobs: run_job_now (jobs/runner.py) called by the scheduler   *)
(* of every instance and by POST /api/admin/jobs/{job_key}/run.            *)
(*                                                                         *)
(* A run is one call of run_job_now.  It takes up to three connections of  *)
(* its instance's pool: the request's own session (manual runs keep the    *)
(* one get_current_user queried with), lock_conn, whose open transaction   *)
(* holds the advisory lock, and the session of the phase it is in.  The    *)
(* sessions of the skip, phase 1 and phase 3 are opened, committed and     *)
(* closed in one step; phase 2 keeps its session while the job runs.       *)
(***************************************************************************)
EXTENDS Integers, FiniteSets

CONSTANTS
    Runs,       \* calls of run_job_now
    Manual,     \* those made by the admin endpoint; the scheduler made the rest
    Jobs,       \* registered job keys
    Enabled,    \* jobs with enabled = True
    JobOf,      \* the job_key of each run
    LockKey,    \* _job_lock_key: the advisory lock of each job
    Instances,  \* processes sharing the database
    HomeOf,     \* the instance of each run
    PoolSize    \* pool_size + max_overflow

ASSUME JobRunnerAssumption ==
    /\ Manual \subseteq Runs
    /\ Enabled \subseteq Jobs
    /\ JobOf \in [Runs -> Jobs]
    /\ HomeOf \in [Runs -> Instances]
    /\ DOMAIN LockKey = Jobs
    /\ PoolSize \in Nat

VARIABLES
    pc,       \* where each run is
    rec,      \* status of its job_runs row
    holders,  \* runs whose transaction holds their advisory lock
    lost      \* runs whose lock_conn was dropped while they were inside

vars == <<pc, rec, holders, lost>>

Key(r) == LockKey[JobOf[r]]

(***************************************************************************)
(* "connect" before lock_conn, "skip" when the lock was taken, "insert",   *)
(* "start" and the two "finish" before phases 1, 2 and 3, "fn" inside the  *)
(* job, "release" before the lock transaction ends, "done" when the call   *)
(* returned and "raised" when it did not.                                  *)
(***************************************************************************)
Finishing == {"finishOk", "finishFailed"}
Running == {"start", "fn"} \cup Finishing             \* between phases 1 and 3
Inside == {"insert", "release"} \cup Running          \* the lock was acquired
Active == {"connect", "skip"} \cup Inside
Over == {"done", "raised"}

Final == {"succeeded", "failed", "skipped"}

Init ==
    /\ pc = [r \in Runs |-> "idle"]
    /\ rec = [r \in Runs |-> "none"]
    /\ holders = {}
    /\ lost = {}

-----------------------------------------------------------------------------
Held(r) ==
    {c \in {"request", "lock", "phase"} :
        \/ c = "request" /\ r \in Manual /\ pc[r] \in Active
        \/ c = "lock" /\ pc[r] \in Active \ {"connect"}
        \/ c = "phase" /\ pc[r] = "fn"}

PoolHasRoom(i) ==
    Cardinality(UNION {{r} \X Held(r) : r \in {q \in Runs : HomeOf[q] = i}})
        < PoolSize

Goto(r, from, to) == pc[r] = from /\ pc' = [pc EXCEPT ![r] = to]

\* A step that needs a connection of the pool.
Connect(r, from, to) == PoolHasRoom(HomeOf[r]) /\ Goto(r, from, to)

Leave(r, from, to) == Goto(r, from, to) /\ holders' = holders \ {r}

-----------------------------------------------------------------------------
(* Variants of actions below, each with a mistake; Next uses none of them. *)

\* The lock transaction ends with the phase 1 block.
InsertUnlocks(r) ==
    /\ Connect(r, "insert", "start")
    /\ rec' = [rec EXCEPT ![r] = "running"]
    /\ holders' = holders \ {r}
    /\ UNCHANGED lost

\* A session-level lock, returned to the pool with its connection.
DiesLeaksLock(r) ==
    /\ pc[r] \in Active
    /\ pc' = [pc EXCEPT ![r] = "raised"]
    /\ UNCHANGED <<rec, holders, lost>>

\* A job that raises propagates past phase 3 to the return statement.
FnFailsReturns(r) ==
    /\ Goto(r, "fn", "release")
    /\ UNCHANGED <<rec, holders, lost>>

\* A timeout for the first connection only.
PoolTimeoutFirst(r) ==
    /\ ~PoolHasRoom(HomeOf[r])
    /\ Leave(r, "connect", "raised")
    /\ UNCHANGED <<rec, lost>>

-----------------------------------------------------------------------------
\* A disabled job returns at once.  The scheduler starts no second run of a
\* job of its own instance (max_instances=1); the endpoint has no such test,
\* but its request has queried the database first.
Call(r) ==
    /\ JobOf[r] \in Enabled
    /\ IF r \in Manual
       THEN PoolHasRoom(HomeOf[r])
       ELSE \A q \in Runs \ Manual :
                JobOf[q] = JobOf[r] /\ HomeOf[q] = HomeOf[r]
                    => pc[q] \notin Active
    /\ Goto(r, "idle", "connect")
    /\ UNCHANGED <<rec, holders, lost>>

Acquire(r) ==
    /\ \A q \in holders : Key(q) # Key(r)
    /\ Connect(r, "connect", "insert")
    /\ holders' = holders \cup {r}
    /\ UNCHANGED <<rec, lost>>

LockTaken(r) ==
    /\ \E q \in holders : Key(q) = Key(r)
    /\ Connect(r, "connect", "skip")
    /\ UNCHANGED <<rec, holders, lost>>

RecordSkip(r) ==
    /\ Connect(r, "skip", "done")
    /\ rec' = [rec EXCEPT ![r] = "skipped"]
    /\ UNCHANGED <<holders, lost>>

Insert(r) ==                                                     \* phase 1
    /\ Connect(r, "insert", "start")
    /\ rec' = [rec EXCEPT ![r] = "running"]
    /\ UNCHANGED <<holders, lost>>

Start(r) ==                                                      \* phase 2
    /\ Connect(r, "start", "fn")
    /\ UNCHANGED <<rec, holders, lost>>

FnSucceeds(r) ==
    /\ Goto(r, "fn", "finishOk")
    /\ UNCHANGED <<rec, holders, lost>>

FnFails(r) ==
    /\ Goto(r, "fn", "finishFailed")
    /\ UNCHANGED <<rec, holders, lost>>

Finish(r) ==                                                     \* phase 3
    /\ \/ /\ Connect(r, "finishOk", "release")
          /\ rec' = [rec EXCEPT ![r] = "succeeded"]
       \/ /\ Connect(r, "finishFailed", "release")
          /\ rec' = [rec EXCEPT ![r] = "failed"]
    /\ UNCHANGED <<holders, lost>>

\* The commit of a lock_conn that was dropped raises.
Release(r) ==
    /\ Leave(r, "release", IF r \in lost THEN "raised" ELSE "done")
    /\ UNCHANGED <<rec, lost>>

\* No connection came free in time.  The session of phase 2 connects inside
\* the job's try, so there the timeout is the job's failure; elsewhere it
\* leaves run_job_now.
StartTimeout(r) ==
    /\ ~PoolHasRoom(HomeOf[r])
    /\ Goto(r, "start", "finishFailed")
    /\ UNCHANGED <<rec, holders, lost>>

PoolTimeout(r) ==
    /\ ~PoolHasRoom(HomeOf[r])
    /\ \E from \in {"connect", "skip", "insert"} \cup Finishing :
            Leave(r, from, "raised")
    /\ UNCHANGED <<rec, lost>>

\* The process dies, the scheduler's shutdown cancels the task, or a
\* statement outside the job's try raises: the transaction ends with it.
Dies(r) ==
    /\ \E from \in Active : Leave(r, from, "raised")
    /\ UNCHANGED <<rec, lost>>

\* Only lock_conn is dropped; the job works on in its own session.
LoseLock(r) ==
    /\ r \in holders
    /\ holders' = holders \ {r}
    /\ lost' = lost \cup {r}
    /\ UNCHANGED <<pc, rec>>

Continue(r) ==
    \/ Acquire(r) \/ LockTaken(r) \/ RecordSkip(r)
    \/ Insert(r) \/ Start(r) \/ FnSucceeds(r) \/ FnFails(r) \/ Finish(r)
    \/ Release(r) \/ StartTimeout(r) \/ PoolTimeout(r)

Next == \E r \in Runs : Call(r) \/ Continue(r) \/ Dies(r) \/ LoseLock(r)

Spec == Init /\ [][Next]_vars

\* Every await of a run completes or times out; a job's function ends.
FairSpec == Spec /\ \A r \in Runs : WF_vars(Continue(r))

-----------------------------------------------------------------------------
\* The variables have the types of the columns and locals they stand for.
TypeOK ==
    /\ pc \in [Runs -> {"idle"} \cup Active \cup Over]
    /\ rec \in [Runs -> {"none", "running"} \cup Final]
    /\ holders \subseteq Runs
    /\ lost \subseteq Runs

\* Two runs are inside the lock of one job at a time, between acquiring it and
\* the end of run_job_now, only if one of them lost its lock connection: no
\* crash, timeout or exhausted pool lets a second run in.
OneRunner ==
    \A r, q \in Runs :
        /\ r # q /\ JobOf[r] = JobOf[q]
        /\ pc[r] \in Inside /\ pc[q] \in Inside
        => r \in lost \/ q \in lost

\* The history tells what happened: a call that returned left a final row, a
\* row stays 'running' only while its run is between phases 1 and 3 or died
\* there, and a run still waiting for the lock has no row.
RowTellsTheRun ==
    \A r \in Runs :
        /\ pc[r] \in {"release", "done"} => rec[r] \in Final
        /\ rec[r] = "running" => pc[r] \in Running \cup {"raised"}
        /\ rec[r] # "none" => pc[r] \in Running \cup {"release"} \cup Over

\* A run is skipped only while another run with its lock key is inside: no
\* failed, crashed or cancelled run leaves the lock behind.
SkipsOnlyBehindARun ==
    [][\A r \in Runs : pc[r] = "connect" /\ pc'[r] = "skip" =>
        \E q \in Runs \ {r} : Key(q) = Key(r) /\ pc[q] \in Inside]_vars

\* Every call ends, although runs wait for connections while they hold some:
\* when all hold lock_conn and wait for a session, the pool's timeout ends it.
CallsEnd == \A r \in Runs : pc[r] \in Active ~> pc[r] \in Over

\* A run as the jobs see it: waiting, inside the lock, in the job's function,
\* recording its outcome, or over.
StageOf(r) ==
    CASE pc[r] \in {"idle", "connect", "skip"} -> "outside"
      [] pc[r] \in {"insert", "start"} -> "entered"
      [] pc[r] = "fn" -> "working"
      [] pc[r] \in Finishing \cup {"release"} -> "recording"
      [] OTHER -> "over"

Lock == INSTANCE JobLock WITH
    LockOf <- [r \in Runs |-> Key(r)],
    stage <- [r \in Runs |-> StageOf(r)],
    exposed <- lost

\* The runner, with its phases, pool, rows and crashes, keeps the promise of
\* JobLock: a job's function works inside the lock, alone in it but for runs
\* whose lock connection dropped.
ImplementsLock == Lock!LockSpec

-----------------------------------------------------------------------------
\* The inductive invariant: whoever is inside holds the lock or lost it.
IInv ==
    /\ TypeOK
    /\ RowTellsTheRun
    /\ \A r \in Runs : pc[r] \in Inside => r \in holders \cup lost
    /\ \A r \in holders : pc[r] \in Inside
    /\ \A r, q \in holders : Key(r) = Key(q) => r = q

=============================================================================
