------------------------------ MODULE JobLock ------------------------------
(***************************************************************************)
(* What jobs/runner.py promises the jobs it runs: run_job_now keeps other  *)
(* runs of a job out from before the job's function begins until its       *)
(* outcome is recorded, on every instance, as long as the connection that  *)
(* holds the lock lives.  JobRunner implements this specification; the     *)
(* jobs' own effects (AlertJobs) are added to its steps.                   *)
(***************************************************************************)
EXTENDS FiniteSets

CONSTANTS
    Runs,   \* calls of run_job_now
    LockOf  \* the advisory lock of each run's job

ASSUME JobLockAssumption == DOMAIN LockOf = Runs

VARIABLES
    stage,   \* where each run is
    exposed  \* runs whose lock connection dropped

lockVars == <<stage, exposed>>

Inside == {"entered", "working", "recording"}

LockInit ==
    /\ stage = [r \in Runs |-> "outside"]
    /\ exposed = {}

Move(r, from, to) == stage[r] = from /\ stage' = [stage EXCEPT ![r] = to]

\* A variant with a mistake, which no specification uses: the lock is not tried.
EnterAnyway(r) == Move(r, "outside", "entered") /\ UNCHANGED exposed

\* The lock was acquired: whoever else is inside lost it.
Enter(r) ==
    /\ \A q \in Runs :
          stage[q] \in Inside /\ LockOf[q] = LockOf[r] => q \in exposed
    /\ Move(r, "outside", "entered")
    /\ UNCHANGED exposed

\* The job's session opens, and commits or rolls back.
BeginWork(r) == Move(r, "entered", "working") /\ UNCHANGED exposed
EndWork(r) == Move(r, "working", "recording") /\ UNCHANGED exposed

\* The session of the job never opened: no connection came free.
NeverWork(r) == Move(r, "entered", "recording") /\ UNCHANGED exposed

\* The call ends, wherever it was: it returned, was skipped, raised or died.
Quit(r) ==
    /\ stage[r] # "over"
    /\ stage' = [stage EXCEPT ![r] = "over"]
    /\ UNCHANGED exposed

Expose(r) ==
    /\ stage[r] \in Inside
    /\ exposed' = exposed \cup {r}
    /\ UNCHANGED stage

LockNext ==
    \E r \in Runs :
        \/ Enter(r) \/ BeginWork(r) \/ EndWork(r) \/ NeverWork(r)
        \/ Quit(r) \/ Expose(r)

LockSpec == LockInit /\ [][LockNext]_lockVars
=============================================================================
