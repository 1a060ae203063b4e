----------------------------- MODULE TaskTools -----------------------------
(***************************************************************************)
(* The action queue together with what its task tools do to rex.tasks:     *)
(* create_task, update_task_status and delete_task (services/ai/tools),    *)
(* while people edit the same tasks through PATCH /api/tasks.              *)
(*                                                                         *)
(* A handler reads, awaits, then writes, on a connection that commits each *)
(* statement; a compensator is one statement built from the result its     *)
(* handler returned.  The other undoable tools have one of these three     *)
(* shapes: an INSERT undone by a DELETE (create_note, create_alert,        *)
(* create_decision, save_draft), a column written and written back         *)
(* (save_meeting_packet), a snapshot deleted and inserted again            *)
(* (delete_note).                                                          *)
(*                                                                         *)
(* A new task's id is a fresh uuid per run of the handler: the worker that *)
(* runs it names it.                                                       *)
(***************************************************************************)
EXTENDS ActionQueue, FiniteSetsExt

CONSTANTS
    Seeds,      \* tasks that exist before the assistant is used
    Projects,   \* rex.projects
    Allowed,    \* the statuses rex.tasks.status may hold
    Suggested,  \* the statuses the model passes to update_task_status
    SeedNumbers,\* task numbers the existing tasks may have
    MaxEdits    \* bound on the edits by people

ASSUME TaskToolsAssumption ==
    /\ Seeds \cap Workers = {}
    /\ IsFiniteSet(Seeds \cup Workers) /\ "people" \notin Workers
    /\ Projects # {} /\ Allowed # {} /\ "none" \notin Projects \cup Allowed
    /\ SeedNumbers \subseteq Nat
    /\ MaxEdits \in Nat

VARIABLES
    args,   \* the tool and the arguments of each action
    tasks,  \* rex.tasks, by id
    look,   \* what each handler read before it wrote
    since,  \* tasks somebody else wrote after that read (a history variable)
    edits   \* edits by people so far

taskVars == <<args, tasks, look, since, edits>>
allVars == <<vars, taskVars>>

Tasks == Seeds \cup Workers

NoTask == [project |-> "none", number |-> 0, status |-> "none"]
Live(t) == tasks[t] # NoTask

\* What the model passes: a task it names is one it was shown.  With any other
\* id the handler raises, as it may in any case.
Args == LET shown == {t \in Tasks : Live(t)}
        IN  [tool : {"create_task"}, project : Projects]
            \cup [tool : {"update_task_status"}, task : shown, status : Suggested]
            \cup [tool : {"delete_task"}, task : shown]

NoArgs == [tool |-> "none"]
NotRead == [read |-> FALSE, task |-> NoTask]

TaskInit ==
    /\ Init
    /\ args = [a \in Actions |-> NoArgs]
    /\ \E known \in [Seeds -> [project : Projects, number : SeedNumbers,
                              status : {"open"}]] :
            tasks = [t \in Tasks |-> IF t \in Seeds THEN known[t] ELSE NoTask]
    /\ look = [w \in Workers |-> NotRead]
    /\ since = [w \in Workers |-> {}]
    /\ edits = 0

\* The task a worker's handler is about.
Subject(w) == LET arg == args[job[w].target]
              IN  IF arg.tool = "create_task" THEN w ELSE arg.task

-----------------------------------------------------------------------------
\* The tasks whose later state a worker's read says something about: its own,
\* and for a new number every task until it is inserted.
Watches(w) ==
    IF ~look[w].read THEN {}
    ELSE IF args[job[w].target].tool = "create_task" /\ pc[w] = "handler"
    THEN Tasks ELSE {Subject(w)}

\* One statement of v (a worker, or "people") on task t.
Write(v, t, new) ==
    /\ tasks' = [tasks EXCEPT ![t] = new]
    /\ since' = [w \in Workers |->
                    IF w # v THEN since[w] \cup ({t} \cap Watches(w)) ELSE since[w]]

-----------------------------------------------------------------------------
(* Variants with a mistake, used to show that a property can fail. *)

\* COUNT(*) + 1 instead of MAX + 1.
NextNumberCounts(p) == Cardinality({t \in Tasks : tasks[t].project = p}) + 1

\* The undo of a status change writes the initial status.
RestoreResets(r, t, before) ==
    /\ IF Live(t) THEN Write(r, t, [before EXCEPT !.status = "open"])
                  ELSE UNCHANGED <<tasks, since>>

\* The undo of a status change inserts the task again when it is gone.
RestoreUpserts(r, t, before) == Write(r, t, before)

-----------------------------------------------------------------------------
(* The handlers: the read *)

\* COALESCE(MAX(task_number), 0) + 1 over the project's tasks; rex.tasks has
\* no unique key on it.
NextNumber(p) ==
    Max({tasks[t].number : t \in {u \in Tasks : tasks[u].project = p}} \cup {0}) + 1

\* The row the handler will write or the one it snapshots.
Reading(w) ==
    LET arg == args[job[w].target]
    IN  IF arg.tool = "create_task"
        THEN [project |-> arg.project, number |-> NextNumber(arg.project),
              status |-> "open"]
        ELSE tasks[arg.task]

HandlerReads(w) ==
    /\ pc[w] = "handler"
    /\ ~look[w].read
    /\ args[job[w].target].tool # "create_task" => Live(Subject(w))
    /\ look' = [look EXCEPT ![w] = [read |-> TRUE, task |-> Reading(w)]]
    /\ UNCHANGED <<vars, args, tasks, since, edits>>

-----------------------------------------------------------------------------
(* The handlers: the write *)

InsertsTask(w) == Write(w, w, look[w].task)

\* UPDATE ... WHERE id: a status outside the CHECK raises, a task that has
\* gone meanwhile matches no row and the handler succeeds all the same.
SetsStatus(w, t, status) ==
    /\ status \in Allowed
    /\ IF Live(t) THEN Write(w, t, [tasks[t] EXCEPT !.status = status])
                  ELSE UNCHANGED <<tasks, since>>

DeletesTask(w, t) ==
    IF Live(t) THEN Write(w, t, NoTask) ELSE UNCHANGED <<tasks, since>>

HandlerWrites(w) ==
    LET arg == args[job[w].target]
    IN  /\ look[w].read
        /\ HandlerApplies(w)
        /\ CASE arg.tool = "create_task" -> InsertsTask(w)
             [] arg.tool = "update_task_status" -> SetsStatus(w, arg.task, arg.status)
             [] arg.tool = "delete_task" -> DeletesTask(w, arg.task)
        /\ UNCHANGED <<args, look, edits>>

-----------------------------------------------------------------------------
(* The compensators.  before is what the handler of the action returned.   *)

UndoCreate(r, t) ==
    IF Live(t) THEN Write(r, t, NoTask) ELSE UNCHANGED <<tasks, since>>

\* The status read before the change goes back, whatever it is now.
RestoreStatus(r, t, before) ==
    IF Live(t) THEN Write(r, t, [tasks[t] EXCEPT !.status = before.status])
               ELSE UNCHANGED <<tasks, since>>

\* INSERT with the old id: it raises when the id is taken.
Reinsert(r, t, before) == ~Live(t) /\ Write(r, t, before)

CompensatorWrites(r) ==
    LET a == job[r].target
    IN  /\ CompensatorApplies(r)
        /\ CASE args[a].tool = "create_task" -> UndoCreate(r, a)
             [] args[a].tool = "update_task_status" ->
                    RestoreStatus(r, args[a].task, look[a].task)
             [] args[a].tool = "delete_task" ->
                    Reinsert(r, args[a].task, look[a].task)
        /\ UNCHANGED <<args, look, edits>>

-----------------------------------------------------------------------------
\* PATCH /api/tasks/{id}: TaskUpdate carries no task_number.
PatchTask(t, status) ==
    /\ Live(t)
    /\ tasks[t].status # status
    /\ edits < MaxEdits
    /\ edits' = edits + 1
    /\ Write("people", t, [tasks[t] EXCEPT !.status = status])
    /\ UNCHANGED <<vars, args, look>>

\* The model names a tool and its arguments.  Only create_task's classify ever
\* asks for approval (the assignee is external).
EnqueueTool(a) ==
    /\ \E arg \in Args :
        /\ args' = [args EXCEPT ![a] = arg]
        /\ IF arg.tool = "create_task" THEN EnqueuePending(a) \/ EnqueueAuto(a)
                                        ELSE EnqueueAuto(a)
    /\ UNCHANGED <<tasks, look, since, edits>>

\* Every step of the queue that does not touch rex.tasks.  The clock stands
\* still, so the window of an undo never closes.
QueueStep ==
    /\ \/ \E r \in Requests : Receive(r)
       \/ \E w \in Workers :
            \/ HandlerRaises(w) \/ RecordSuccess(w) \/ RecordRaises(w)
            \/ RecordFailure(w) \/ CompensatorRaises(w) \/ FailUndo(w)
            \/ CloseUndo(w) \/ CloseOriginal(w) \/ Cancel(w)
    /\ UNCHANGED taskVars

TaskNext ==
    \/ \E a \in Actions : EnqueueTool(a)
    \/ \E w \in Workers : HandlerReads(w) \/ HandlerWrites(w) \/ CompensatorWrites(w)
    \/ \E t \in Tasks, status \in Allowed : PatchTask(t, status)
    \/ QueueStep

TaskSpec == TaskInit /\ [][TaskNext]_allVars

-----------------------------------------------------------------------------
(* Properties *)

\* An undo whose task nobody else wrote since the handler read it puts the
\* task back exactly as it was: the snapshot and the previous status are
\* complete, and neither is applied to a row in another state.  (With such a
\* write in between, update_task_status overwrites it.)
LoneUndoRestores ==
    [][\A r \in Requests :
        pc[r] = "compensate" /\ pc'[r] = "closeUndo" =>
            LET a == job[r].target
                t == IF args[a].tool = "create_task" THEN a ELSE args[a].task
                before == IF args[a].tool = "create_task" THEN NoTask
                                                          ELSE look[a].task
            IN  t \notin since[a] => tasks'[t] = before]_allVars

\* create_task gives a number that is taken only when the task that has it
\* was written after the MAX was read.
NumberIsTakenOnlyByARace ==
    [][\A w \in Workers, t \in Tasks :
        /\ pc[w] = "handler" /\ pc'[w] = "record"
        /\ args[job[w].target].tool = "create_task"
        /\ Live(t) /\ t # w
        /\ tasks[t].project = tasks'[w].project
        /\ tasks[t].number = tasks'[w].number
        => t \in since[w]]_allVars

\* A created task whose creation was undone is gone, unless the undo of a
\* deletion brought it back: no other tool and no edit recreates a task.
UndoneCreationStaysGone ==
    \A a \in Actions :
        /\ args[a].tool = "create_task"
        /\ row[a].status = "undone"
        /\ Live(a)
        => \E d \in Actions : /\ args[d] = [tool |-> "delete_task", task |-> a]
                              /\ reverted[d] > 0

-----------------------------------------------------------------------------
(* The inductive invariant behind these properties, on top of the queue's *)

TaskRow == [project : Projects \cup {"none"}, number : Nat,
            status : Allowed \cup {"none", "open"}]

ToolArgs == [tool : {"none"}]
            \cup [tool : {"create_task"}, project : Projects]
            \cup [tool : {"update_task_status"}, task : Tasks, status : Suggested]
            \cup [tool : {"delete_task"}, task : Tasks]

TaskTypeOK ==
    /\ args \in [Actions -> ToolArgs]
    /\ tasks \in [Tasks -> TaskRow]
    /\ look \in [Workers -> [read : BOOLEAN, task : TaskRow]]
    /\ since \in [Workers -> SUBSET Tasks]
    /\ edits \in Nat

\* An action that was enqueued has a tool; only a creation asks for approval.
ToolInv(a) ==
    /\ job[a].target = a
    /\ pc[a] # "idle" =>
        /\ args[a].tool # "none"
        /\ args[a].tool # "create_task" => ~row[a].approval

\* A created task whose creation was compensated is gone or was reinserted.
CreateInv(a) ==
    args[a].tool = "create_task" /\ reverted[a] > 0 /\ Live(a) =>
        \E d \in Actions : /\ args[d] = [tool |-> "delete_task", task |-> a]
                          /\ reverted[d] > 0

\* Where a status change stands with a task that nobody else wrote.
StatusInv(a) ==
    args[a].tool = "update_task_status" =>
        /\ applied[a] > 0 => look[a].read /\ args[a].status \in Allowed
        /\ look[a].read => look[a].task # NoTask
        /\ look[a].read /\ args[a].task \notin since[a] =>
            /\ pc[a] = "handler" => tasks[args[a].task] = look[a].task
            /\ applied[a] > 0 => tasks[args[a].task] =
                   [look[a].task EXCEPT !.status = args[a].status]

\* A number about to be given is above those of the tasks nobody wrote since.
NumberInv(w) ==
    /\ pc[w] = "idle" => ~look[w].read
    /\ pc[w] = "handler" /\ look[w].read
       /\ args[job[w].target].tool = "create_task" =>
        \A t \in Tasks \ since[w] :
            tasks[t].project = look[w].task.project =>
                tasks[t].number < look[w].task.number

TaskInv ==
    /\ IInv /\ TaskTypeOK
    /\ \A a \in Actions : ToolInv(a) /\ CreateInv(a) /\ StatusInv(a)
    /\ \A w \in Workers : NumberInv(w)

=============================================================================
