-------------------------- MODULE JobRunnerProofs --------------------------
(* Theorems about JobRunner, for any runs, jobs, instances and pool size.  *)
EXTENDS JobRunner, TLAPS

\* Before the first call nobody is inside and nobody holds a lock.
LEMMA InitEstablishes == Init => IInv
BY DEF Init, IInv, TypeOK, RowTellsTheRun, Inside, Running, Finishing, Final,
       Active, Over

\* Every step, and every stutter, keeps the inductive invariant: one case per
\* action of the runner.
LEMMA StepPreserves == IInv /\ [Next]_vars => IInv'
<1> SUFFICES ASSUME IInv, [Next]_vars PROVE IInv'
  OBVIOUS
<1> USE DEF IInv, TypeOK, RowTellsTheRun, Inside, Running, Finishing, Final,
            Active, Over, Goto, Connect, Leave
<1>1. CASE UNCHANGED vars
  BY <1>1 DEF vars, Key
<1>2. ASSUME NEW r \in Runs, Call(r) PROVE IInv'
  BY <1>2 DEF Call, Key
<1>3. ASSUME NEW r \in Runs, Acquire(r) PROVE IInv'
  BY <1>3 DEF Acquire, Key
<1>4. ASSUME NEW r \in Runs, LockTaken(r) PROVE IInv'
  BY <1>4 DEF LockTaken, Key
<1>5. ASSUME NEW r \in Runs, RecordSkip(r) PROVE IInv'
  BY <1>5 DEF RecordSkip, Key
<1>6. ASSUME NEW r \in Runs, Insert(r) PROVE IInv'
  BY <1>6 DEF Insert, Key
<1>7. ASSUME NEW r \in Runs, Start(r) PROVE IInv'
  BY <1>7 DEF Start, Key
<1>8. ASSUME NEW r \in Runs, FnSucceeds(r) PROVE IInv'
  BY <1>8 DEF FnSucceeds, Key
<1>9. ASSUME NEW r \in Runs, FnFails(r) PROVE IInv'
  BY <1>9 DEF FnFails, Key
<1>10. ASSUME NEW r \in Runs, Finish(r) PROVE IInv'
  BY <1>10 DEF Finish, Key
<1>11. ASSUME NEW r \in Runs, Release(r) PROVE IInv'
  BY <1>11 DEF Release, Key
<1>12. ASSUME NEW r \in Runs, StartTimeout(r) PROVE IInv'
  BY <1>12 DEF StartTimeout, Key
<1>13. ASSUME NEW r \in Runs, PoolTimeout(r) PROVE IInv'
  BY <1>13 DEF PoolTimeout, Key
<1>14. ASSUME NEW r \in Runs, Dies(r) PROVE IInv'
  BY <1>14 DEF Dies, Key
<1>15. ASSUME NEW r \in Runs, LoseLock(r) PROVE IInv'
  BY <1>15 DEF LoseLock, Key
<1>16. QED
  BY <1>1, <1>2, <1>3, <1>4, <1>5, <1>6, <1>7, <1>8, <1>9, <1>10, <1>11,
     <1>12, <1>13, <1>14, <1>15 DEF Next, Continue

\* Every reachable state satisfies the inductive invariant.
THEOREM Invariance == Spec => []IInv
BY InitEstablishes, StepPreserves, PTL DEF Spec

\* Type correctness of the job runner.
THEOREM TypeCorrect == Spec => []TypeOK
<1>1. IInv => TypeOK
  BY DEF IInv
<1>2. QED
  BY <1>1, Invariance, PTL

\* A job has one run inside its lock on all instances together, until a run
\* loses its lock connection.
THEOREM Exclusion == Spec => []OneRunner
<1>1. IInv => OneRunner
  BY DEF IInv, OneRunner, Key
<1>2. QED
  BY <1>1, Invariance, PTL

\* The job_runs row of a call tells where the call is or how it ended.
THEOREM HistoryIsTrue == Spec => []RowTellsTheRun
<1>1. IInv => RowTellsTheRun
  BY DEF IInv
<1>2. QED
  BY <1>1, Invariance, PTL

\* A run is skipped only behind another run that is inside: the lock never
\* outlives the call that took it.
THEOREM SkipIsJustified == Spec => SkipsOnlyBehindARun
<1> DEFINE Behind ==
      \A r \in Runs : pc[r] = "connect" /\ pc'[r] = "skip" =>
          \E q \in Runs \ {r} : Key(q) = Key(r) /\ pc[q] \in Inside
<1>1. ASSUME IInv, [Next]_vars PROVE [Behind]_vars
  <2>1. SUFFICES ASSUME NEW r \in Runs, pc[r] = "connect", pc'[r] = "skip"
                 PROVE \E q \in Runs \ {r} : Key(q) = Key(r) /\ pc[q] \in Inside
    OBVIOUS
  <2>2. LockTaken(r)
    BY <1>1, <2>1 DEF Next, Continue, vars, IInv, TypeOK, Call, Acquire,
       RecordSkip, Insert, Start, FnSucceeds, FnFails, Finish, Release,
       StartTimeout, PoolTimeout, Dies, LoseLock, Goto, Connect, Leave,
       LockTaken, Finishing
  <2>3. PICK q \in holders : Key(q) = Key(r)
    BY <2>2 DEF LockTaken
  <2>4. q \in Runs /\ pc[q] \in Inside
    BY <1>1 DEF IInv, TypeOK
  <2>5. "connect" \notin Inside
    BY DEF Inside, Running, Finishing
  <2>6. QED
    BY <2>1, <2>3, <2>4, <2>5
<1>2. QED
  BY <1>1, Invariance, PTL DEF Spec, SkipsOnlyBehindARun

-----------------------------------------------------------------------------
(* The runner keeps the promise of JobLock *)

\* The stage of a run, by where its call is.
LEMMA Stages ==
    ASSUME NEW r \in Runs
    PROVE  /\ pc[r] \in {"idle", "connect", "skip"} => StageOf(r) = "outside"
           /\ pc[r] \in {"insert", "start"} => StageOf(r) = "entered"
           /\ pc[r] = "fn" => StageOf(r) = "working"
           /\ pc[r] \in Finishing \cup {"release"} => StageOf(r) = "recording"
           /\ pc[r] \in Over => StageOf(r) = "over"
  BY DEF StageOf, Finishing, Over

\* A step of one call moves the stage of that run alone.
LEMMA StageMoves ==
    ASSUME NEW r \in Runs, NEW from, NEW to, TypeOK, Goto(r, from, to)
    PROVE  [q \in Runs |-> StageOf(q)]' =
               [[q \in Runs |-> StageOf(q)] EXCEPT ![r] = StageOf(r)']
  <1>1. ASSUME NEW q \in Runs, q # r
        PROVE  StageOf(q)' = StageOf(q)
    <2>1. pc'[q] = pc[q]
      BY <1>1 DEF TypeOK, Goto
    <2> QED
      BY <2>1 DEF StageOf
  <1> QED
    BY <1>1

\* Where a step takes the call it is about.
LEMMA PcMoves ==
    ASSUME NEW r \in Runs, NEW from, NEW to, TypeOK, Goto(r, from, to)
    PROVE  pc[r] = from /\ pc'[r] = to
  BY DEF TypeOK, Goto

\* run_job_now, with its phases, its pool, its rows, its timeouts and crashes,
\* gives every job the lock that JobLock specifies.
THEOREM RunnerImplementsLock == Spec => ImplementsLock
<1> DEFINE st == [q \in Runs |-> StageOf(q)]
<1> USE DEF Lock!Move
<1>1. Init => Lock!LockInit
  BY Stages DEF Init, Lock!LockInit
<1>2. ASSUME IInv, [Next]_vars PROVE [Lock!LockNext]_<<st, lost>>
  <2> TypeOK
    BY <1>2 DEF IInv
  <2>1. ASSUME NEW r \in Runs, Call(r) \/ LockTaken(r) \/ Insert(r) \/ Finish(r)
        PROVE  UNCHANGED <<st, lost>>
    <3>1. PICK from, to : /\ Goto(r, from, to)
                          /\ \/ from = "idle" /\ to = "connect"
                             \/ from = "connect" /\ to = "skip"
                             \/ from = "insert" /\ to = "start"
                             \/ from \in Finishing /\ to = "release"
      BY <2>1 DEF Call, LockTaken, Insert, Finish, Connect, Finishing
    <3>2. StageOf(r)' = StageOf(r)
      BY <3>1, PcMoves DEF StageOf, Finishing
    <3>3. st' = [st EXCEPT ![r] = StageOf(r)]
      BY <3>1, <3>2, StageMoves
    <3>4. st' = st
      BY <3>3
    <3> QED
      BY <2>1, <3>4 DEF Call, LockTaken, Insert, Finish
  <2>2. ASSUME NEW r \in Runs, Acquire(r)
        PROVE  Lock!Enter(r)
    <3>1. Goto(r, "connect", "insert") /\ lost' = lost
      BY <2>2 DEF Acquire, Connect
    <3>2. StageOf(r) = "outside" /\ StageOf(r)' = "entered"
      BY <3>1, PcMoves DEF StageOf, Finishing
    <3>3. st' = [st EXCEPT ![r] = "entered"]
      BY <3>1, <3>2, StageMoves
    <3>4. ASSUME NEW q \in Runs, st[q] \in Lock!Inside, Key(q) = Key(r)
          PROVE  q \in lost
      <4>1. pc[q] \in Inside
        BY <3>4, Stages
        DEF TypeOK, Lock!Inside, Inside, Running, Finishing, Active, Over
      <4>2. q \notin holders
        BY <2>2, <3>4 DEF Acquire
      <4> QED
        BY <4>1, <4>2, <1>2 DEF IInv
    <3> QED
      BY <3>1, <3>2, <3>3, <3>4 DEF Lock!Enter
  <2>3. ASSUME NEW r \in Runs, Start(r)
        PROVE  Lock!BeginWork(r)
    <3>1. Goto(r, "start", "fn") /\ lost' = lost
      BY <2>3 DEF Start, Connect
    <3>2. StageOf(r) = "entered" /\ StageOf(r)' = "working"
      BY <3>1, PcMoves DEF StageOf, Finishing
    <3> QED
      BY <3>1, <3>2, StageMoves DEF Lock!BeginWork
  <2>4. ASSUME NEW r \in Runs, FnSucceeds(r) \/ FnFails(r)
        PROVE  Lock!EndWork(r)
    <3>1. PICK to \in Finishing : Goto(r, "fn", to) /\ lost' = lost
      BY <2>4 DEF FnSucceeds, FnFails, Finishing
    <3>2. StageOf(r) = "working" /\ StageOf(r)' = "recording"
      BY <3>1, PcMoves DEF StageOf, Finishing
    <3> QED
      BY <3>1, <3>2, StageMoves DEF Lock!EndWork
  <2>5. ASSUME NEW r \in Runs, StartTimeout(r)
        PROVE  Lock!NeverWork(r)
    <3>1. Goto(r, "start", "finishFailed") /\ lost' = lost
      BY <2>5 DEF StartTimeout
    <3>2. StageOf(r) = "entered" /\ StageOf(r)' = "recording"
      BY <3>1, PcMoves DEF StageOf, Finishing
    <3> QED
      BY <3>1, <3>2, StageMoves DEF Lock!NeverWork
  <2>6. ASSUME NEW r \in Runs,
               RecordSkip(r) \/ Release(r) \/ PoolTimeout(r) \/ Dies(r)
        PROVE  Lock!Quit(r)
    <3>1. PICK from \in Active, to \in Over : Goto(r, from, to) /\ lost' = lost
      BY <2>6 DEF RecordSkip, Release, PoolTimeout, Dies, Connect, Leave,
                  Active, Inside, Running, Finishing, Over
    <3>2. StageOf(r) # "over" /\ StageOf(r)' = "over"
      BY <3>1, PcMoves
      DEF StageOf, Active, Inside, Running, Finishing, Over
    <3> QED
      BY <3>1, <3>2, StageMoves DEF Lock!Quit
  <2>7. ASSUME NEW r \in Runs, LoseLock(r)
        PROVE  Lock!Expose(r)
    <3>1. pc[r] \in Inside
      BY <2>7, <1>2 DEF LoseLock, IInv
    <3>2. st[r] \in Lock!Inside
      BY <3>1, Stages DEF Lock!Inside, Inside, Running
    <3>3. st' = st
      BY <2>7 DEF LoseLock, StageOf
    <3> QED
      BY <2>7, <3>2, <3>3 DEF LoseLock, Lock!Expose
  <2>8. CASE UNCHANGED vars
    BY <2>8 DEF vars, StageOf
  <2> QED
    BY <1>2, <2>1, <2>2, <2>3, <2>4, <2>5, <2>6, <2>7, <2>8
    DEF Next, Continue, Lock!LockNext
<1>3. IInv /\ [Next]_vars => [Lock!LockNext]_Lock!lockVars
  BY <1>2 DEF Lock!lockVars
<1> QED
  BY <1>1, <1>3, Invariance, PTL DEF Spec, ImplementsLock, Lock!LockSpec
=============================================================================
