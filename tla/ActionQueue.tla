---------------------------- MODULE ActionQueue ----------------------------
(***************************************************************************)
(* The assistant's action queue: rows of rex.action_queue and the requests *)
(* that move them (services/ai/action_queue_service.py, through            *)
(* repositories/action_queue_repository.py and routes/actions.py).         *)
(*                                                                         *)
(* A worker is one running coroutine: the chat stream that enqueued an     *)
(* action (named by the action itself) or one HTTP request.  The           *)
(* repository commits after every call and the tools write through a       *)
(* second, autocommitting connection, so each await that reaches the       *)
(* database or Procore is a step of its own and anything may interleave    *)
(* between two of them.  Row ids: an action's own row, and for an undo     *)
(* request the correction row it inserts (correction_of_id is the          *)
(* request's target).                                                      *)
(*                                                                         *)
(* An early return that writes nothing (not found, wrong status, window    *)
(* expired, not undoable) is the absence of a step.                        *)
(***************************************************************************)
EXTENDS Integers

CONSTANTS
    Actions,      \* tool_use blocks the model may emit
    Requests,     \* approve / discard / undo requests that may arrive
    Registered,   \* actions whose slug is in the tool registry
    Compensable,  \* actions whose tool has a compensator (the internal tools)
    UndoWindow,   \* UNDO_WINDOW_SECONDS, in clock ticks
    MaxTime       \* bound on the clock

ASSUME ActionQueueAssumption ==
    /\ Actions \cap Requests = {}
    /\ Compensable \subseteq Registered
    /\ Registered \subseteq Actions
    /\ UndoWindow \in Nat
    /\ MaxTime \in Nat

VARIABLES
    row,       \* rex.action_queue, by id
    pc,        \* what each worker does next
    job,       \* what each worker was asked, and what it read when it began
    applied,   \* how often the handler's effect took place
    reverted,  \* how often the compensator's effect took place
    now        \* the clock

vars == <<row, pc, job, applied, reverted, now>>

Workers == Actions \cup Requests

Never == -1
Time == 0 .. MaxTime

\* 'pending_retry', the seventh value the table allows, is written by no code.
Statuses == {"auto_committed", "pending_approval", "committed", "dismissed",
             "undone", "failed"}

Row == [status : Statuses \cup {"absent"},
        approval : BOOLEAN,             \* requires_approval
        committedAt : Time \cup {Never},
        result : BOOLEAN]               \* result_payload is set

NoRow == [status |-> "absent", approval |-> FALSE,
          committedAt |-> Never, result |-> FALSE]

Exists(i) == row[i].status # "absent"

(***************************************************************************)
(* pc values: "handler" before spec.handler, "record" after it returned,   *)
(* "fail" in the except branch; "compensate" before spec.compensator,      *)
(* "failUndo" in its except branch, "closeUndo" and "closeOriginal" before *)
(* the two updates that end an undo.                                       *)
(***************************************************************************)
HandlerPCs == {"handler", "record", "fail"}
UndoPCs == {"compensate", "failUndo", "closeUndo", "closeOriginal"}
Open == HandlerPCs \cup UndoPCs
PCs == Open \cup {"idle", "done", "cancelled"}

Kinds == {"none", "enqueue", "approve", "discard", "undo"}
Job == [kind : Kinds, target : Workers,
        seen : BOOLEAN,     \* the row read had a result_payload
        at : Time]          \* when the request was accepted

Init ==
    /\ row = [i \in Workers |-> NoRow]
    /\ pc = [w \in Workers |-> "idle"]
    /\ job = [w \in Workers |-> [kind |-> "none", target |-> w,
                                 seen |-> FALSE, at |-> 0]]
    /\ applied = [a \in Actions |-> 0]
    /\ reverted = [a \in Actions |-> 0]
    /\ now = 0

-----------------------------------------------------------------------------
\* The repository's two writes.  update_status is UPDATE ... WHERE id = :id:
\* it never looks at the status it overwrites.
Insert(i, status, approval, committedAt) ==
    row' = [row EXCEPT ![i] = [status |-> status, approval |-> approval,
                               committedAt |-> committedAt, result |-> FALSE]]

SetStatus(i, status) == row' = [row EXCEPT ![i].status = status]

SetCommitted(i, status) ==
    row' = [row EXCEPT ![i].status = status, ![i].committedAt = now,
                       ![i].result = TRUE]

Begin(w, kind, i, next) ==
    /\ pc[w] = "idle"
    /\ pc' = [pc EXCEPT ![w] = next]
    /\ job' = [job EXCEPT ![w] = [kind |-> kind, target |-> i,
                                  seen |-> row[i].result, at |-> now]]

Goto(w, from, to) == pc[w] = from /\ pc' = [pc EXCEPT ![w] = to]

-----------------------------------------------------------------------------
(* Variants: each is a definition below with a mistake the code could have *)
(* made.  Next uses none of them; they show that a property can fail.      *)

\* Parking an action without returning: the handler runs unapproved.
EnqueuePendingRunsOn(a) ==
    /\ a \in Registered
    /\ Begin(a, "enqueue", a, "handler")
    /\ Insert(a, "pending_approval", TRUE, Never)
    /\ UNCHANGED <<applied, reverted, now>>

\* commit accepting the auto-pass actions as well.
ApproveAnyOpen(r, a) ==
    /\ row[a].status \in {"pending_approval", "auto_committed"}
    /\ Begin(r, "approve", a, "handler")
    /\ UNCHANGED <<row, applied, reverted, now>>

\* The window test off by one tick.
InUndoWindowLate(a) ==
    \/ row[a].committedAt = Never
    \/ now - row[a].committedAt <= UndoWindow + 1

\* A failed handler puts the action back in the queue.
RecordFailureRequeues(w) ==
    /\ Goto(w, "fail", "done")
    /\ SetStatus(job[w].target, "pending_approval")
    /\ UNCHANGED <<job, applied, reverted, now>>

\* A success update that raises is swallowed.
RecordRaisesSilently(w) ==
    /\ Goto(w, "record", "done")
    /\ UNCHANGED <<row, job, applied, reverted, now>>

\* A compensator that falls back to the arguments when there is no result.
CompensatorNeedsNoResult(r) ==
    /\ Goto(r, "compensate", "closeUndo")
    /\ reverted' = [reverted EXCEPT ![job[r].target] = @ + 1]
    /\ UNCHANGED <<row, job, applied, now>>

\* The compensator's exception is swallowed and the undo closed.
CompensatorSwallows(r) ==
    /\ Goto(r, "compensate", "closeUndo")
    /\ UNCHANGED <<row, job, applied, reverted, now>>

\* An undo that returns after closing its own row.
CloseUndoForgetsOriginal(r) ==
    /\ Goto(r, "closeUndo", "done")
    /\ SetCommitted(r, "committed")
    /\ UNCHANGED <<job, applied, reverted, now>>

\* A status the table's CHECK does not allow.
CloseOriginalReversed(r) ==
    /\ Goto(r, "closeOriginal", "done")
    /\ SetStatus(job[r].target, "reversed")
    /\ UNCHANGED <<job, applied, reverted, now>>

-----------------------------------------------------------------------------
(* enqueue *)

\* Unknown slug: the row is inserted as failed and then updated to failed.
EnqueueUnknown(a) ==
    /\ a \notin Registered
    /\ Begin(a, "enqueue", a, "fail")
    /\ Insert(a, "failed", FALSE, Never)
    /\ UNCHANGED <<applied, reverted, now>>

\* classify asked for approval (or raised, which counts as external).
EnqueuePending(a) ==
    /\ a \in Registered
    /\ Begin(a, "enqueue", a, "done")
    /\ Insert(a, "pending_approval", TRUE, Never)
    /\ UNCHANGED <<applied, reverted, now>>

\* Auto-pass: the row says auto_committed before the handler has run.  Every
\* tool without a compensator declares an external effect, so it never gets
\* here.
EnqueueAuto(a) ==
    /\ a \in Compensable
    /\ Begin(a, "enqueue", a, "handler")
    /\ Insert(a, "auto_committed", FALSE, Never)
    /\ UNCHANGED <<applied, reverted, now>>

-----------------------------------------------------------------------------
(* commit, discard, undo *)

Approve(r, a) ==
    /\ row[a].status = "pending_approval"
    /\ Begin(r, "approve", a, "handler")
    /\ UNCHANGED <<row, applied, reverted, now>>

\* Whatever the status: only commit and undo test it.
Discard(r, i) ==
    /\ Exists(i)
    /\ Begin(r, "discard", i, "done")
    /\ SetStatus(i, "dismissed")
    /\ UNCHANGED <<applied, reverted, now>>

\* committed_at is NULL until the handler's outcome is recorded, and a NULL
\* skips the window test.
InUndoWindow(a) ==
    \/ row[a].committedAt = Never
    \/ now - row[a].committedAt <= UndoWindow

Undo(r, a) ==
    /\ row[a].status = "auto_committed"
    /\ InUndoWindow(a)
    /\ a \in Compensable
    /\ Begin(r, "undo", a, "compensate")
    /\ Insert(r, "auto_committed", FALSE, now)
    /\ UNCHANGED <<applied, reverted, now>>

-----------------------------------------------------------------------------
(* _run_handler *)

HandlerApplies(w) ==
    /\ Goto(w, "handler", "record")
    /\ applied' = [applied EXCEPT ![job[w].target] = @ + 1]
    /\ UNCHANGED <<row, job, reverted, now>>

HandlerRaises(w) ==
    /\ Goto(w, "handler", "fail")
    /\ UNCHANGED <<row, job, applied, reverted, now>>

\* Only the external tools do something after their effect that can raise:
\* answer_rfi updates rex.rfis after the Procore PATCH.
HandlerAppliesThenRaises(w) ==
    /\ job[w].target \notin Compensable
    /\ Goto(w, "handler", "fail")
    /\ applied' = [applied EXCEPT ![job[w].target] = @ + 1]
    /\ UNCHANGED <<row, job, reverted, now>>

RecordSuccess(w) ==
    /\ Goto(w, "record", "done")
    /\ SetCommitted(job[w].target, IF job[w].kind = "enqueue"
                                   THEN "auto_committed" ELSE "committed")
    /\ UNCHANGED <<job, applied, reverted, now>>

\* The success update is inside the try: when it raises (a result that is not
\* JSON), the except branch marks the action failed although it took effect.
RecordRaises(w) ==
    /\ Goto(w, "record", "fail")
    /\ UNCHANGED <<row, job, applied, reverted, now>>

RecordFailure(w) ==
    /\ Goto(w, "fail", "done")
    /\ SetStatus(job[w].target, "failed")
    /\ UNCHANGED <<job, applied, reverted, now>>

-----------------------------------------------------------------------------
(* the rest of undo *)

\* A compensator indexes the result it was given, so with none (the row read
\* had no result_payload) it can only raise.
CompensatorApplies(r) ==
    /\ job[r].seen
    /\ Goto(r, "compensate", "closeUndo")
    /\ reverted' = [reverted EXCEPT ![job[r].target] = @ + 1]
    /\ UNCHANGED <<row, job, applied, now>>

CompensatorRaises(r) ==
    /\ Goto(r, "compensate", "failUndo")
    /\ UNCHANGED <<row, job, applied, reverted, now>>

FailUndo(r) ==
    /\ Goto(r, "failUndo", "done")
    /\ SetStatus(r, "failed")
    /\ UNCHANGED <<job, applied, reverted, now>>

CloseUndo(r) ==
    /\ Goto(r, "closeUndo", "closeOriginal")
    /\ SetCommitted(r, "committed")
    /\ UNCHANGED <<job, applied, reverted, now>>

CloseOriginal(r) ==
    /\ Goto(r, "closeOriginal", "done")
    /\ SetStatus(job[r].target, "undone")
    /\ UNCHANGED <<job, applied, reverted, now>>

-----------------------------------------------------------------------------
\* The coroutine never resumes: the process dies, the client of the stream
\* disconnects (CancelledError is not an Exception), or an update outside a
\* try raises.
Cancel(w) ==
    /\ pc[w] \in Open
    /\ pc' = [pc EXCEPT ![w] = "cancelled"]
    /\ UNCHANGED <<row, job, applied, reverted, now>>

Tick ==
    /\ now < MaxTime
    /\ now' = now + 1
    /\ UNCHANGED <<row, pc, job, applied, reverted>>

Enqueue(a) == EnqueueUnknown(a) \/ EnqueuePending(a) \/ EnqueueAuto(a)

Receive(r) ==
    \/ \E a \in Actions : Approve(r, a) \/ Undo(r, a)
    \/ \E i \in Workers : Discard(r, i)

Continue(w) ==
    \/ HandlerApplies(w) \/ HandlerRaises(w) \/ HandlerAppliesThenRaises(w)
    \/ RecordSuccess(w) \/ RecordRaises(w) \/ RecordFailure(w)
    \/ CompensatorApplies(w) \/ CompensatorRaises(w) \/ FailUndo(w)
    \/ CloseUndo(w) \/ CloseOriginal(w)

Next ==
    \/ \E a \in Actions : Enqueue(a)
    \/ \E r \in Requests : Receive(r)
    \/ \E w \in Workers : Continue(w) \/ Cancel(w)
    \/ Tick

Spec == Init /\ [][Next]_vars

\* The event loop resumes every coroutine whose await has completed.
FairSpec == Spec /\ \A w \in Workers : WF_vars(Continue(w))

-----------------------------------------------------------------------------
(* Invariants *)

\* Every variable has the type its table column or local variable has; in
\* particular status stays inside the CHECK of migrations/028.
TypeOK ==
    /\ row \in [Workers -> Row]
    /\ pc \in [Workers -> PCs]
    /\ job \in [Workers -> Job]
    /\ applied \in [Actions -> Nat]
    /\ reverted \in [Actions -> Nat]
    /\ now \in Time

\* No row claims what did not happen: a committed action, or an auto-committed
\* one with a committed_at, has taken effect; an undone action, and one whose
\* correction row is committed, has been compensated.  (The reverse fails by
\* design: a row is auto_committed before its handler runs.)
NoFalseClaim ==
    /\ \A a \in Actions :
        /\ row[a].status = "committed" => applied[a] > 0
        /\ row[a].committedAt # Never => applied[a] > 0
        /\ row[a].status = "undone" => reverted[a] > 0
    /\ \A r \in Requests :
        row[r].status = "committed" => reverted[job[r].target] > 0

\* Only an auto-pass action whose handler's result was recorded is ever
\* compensated, even by an undo that read the row while the handler was still
\* running.
UndoFollowsRecord ==
    \A a \in Actions : reverted[a] > 0 =>
        row[a].result /\ ~row[a].approval /\ applied[a] > 0

\* A compensation that takes effect belongs to an undo accepted within the
\* window after committed_at, although a NULL committed_at skips the test and
\* updates are unconditional.
UndoInWindow ==
    \A r \in Requests : pc[r] \in {"closeUndo", "closeOriginal"} =>
        LET a == job[r].target
        IN  /\ row[a].committedAt # Never
            /\ job[r].at - row[a].committedAt <= UndoWindow

\* An auto-pass action takes effect at most once, whatever is approved,
\* discarded, undone or cancelled around it.
AutoRunsOnce ==
    \A a \in Actions : ~row[a].approval => applied[a] <= 1

\* Some request of this kind on a has got this far.
Unrecorded(a, kind, pcs) ==
    \E r \in Requests : job[r].kind = kind /\ job[r].target = a /\ pc[r] \in pcs

ApprovalIsOwed(a) ==
    applied[a] > 0 /\ row[a].status = "pending_approval" =>
        Unrecorded(a, "approve", {"record", "fail", "cancelled"})

UndoIsOwed(a) ==
    reverted[a] > 0 /\ row[a].status = "auto_committed" =>
        Unrecorded(a, "undo", {"closeUndo", "closeOriginal", "cancelled"})

\* An action that took effect is on offer again (pending, or auto-committed
\* although it was compensated) only on account of a request that has not
\* written its outcome: one still at work, or one that died before it wrote.
\* A late or failing update of another request never puts it back on offer.
RepeatsAreUnrecorded ==
    \A a \in Actions : ApprovalIsOwed(a) /\ UndoIsOwed(a)

-----------------------------------------------------------------------------
(* Action properties *)

RunIsApproved(a) ==
    applied'[a] # applied[a] /\ row[a].approval =>
        \E r \in Requests : /\ job[r].target = a
                           /\ job[r].kind = "approve"
                           /\ pc[r] \in Open

\* The handler of an action that needs approval only ever runs inside a
\* request that approved it; in particular nothing runs an action that is
\* dismissed, failed or committed unless such a request was already open.
RunsOnlyWhenApproved == [][\A a \in Actions : RunIsApproved(a)]_vars

-----------------------------------------------------------------------------
(* Liveness *)

\* An action whose handler was started is settled: its outcome (result or
\* failure) reaches the row unless the coroutine was cancelled.
StartedIsSettled ==
    \A w \in Workers :
        pc[w] = "handler" ~>
            \/ pc[w] = "cancelled"
            \/ row[job[w].target].result
            \/ row[job[w].target].status = "failed"

\* An undo that began is settled, whatever discards and other undos race it:
\* its correction row records that it failed, or that it took effect, and
\* then the original is undone; unless the coroutine was cancelled.
UndoIsSettled ==
    \A r \in Requests :
        pc[r] = "compensate" ~>
            \/ pc[r] = "cancelled"
            \/ row[r].status = "failed"
            \/ row[r].result /\ row[job[r].target].status = "undone"

-----------------------------------------------------------------------------
(* The inductive invariant behind the safety properties *)

\* What is known of an action's row and effects.
ActionInv(a) ==
    /\ pc[a] = "idle" => row[a] = NoRow /\ applied[a] = 0 /\ reverted[a] = 0
    /\ row[a].status = "absent" => pc[a] = "idle"
    /\ row[a].result <=> row[a].committedAt # Never
    /\ row[a].result => applied[a] > 0 /\ pc[a] = "done"
    /\ row[a].approval => pc[a] = "done"
    /\ ~row[a].approval => applied[a] <= 1
    /\ ~row[a].approval /\ pc[a] \in {"idle", "handler"} => applied[a] = 0
    /\ row[a].status = "pending_approval" => row[a].approval
    /\ row[a].status = "auto_committed" => ~row[a].approval
    /\ row[a].status = "committed" => applied[a] > 0
    /\ row[a].status = "undone" => reverted[a] > 0
    /\ reverted[a] > 0 => row[a].result /\ ~row[a].approval

\* Who may be inside _run_handler, and for what.
HandlerInv(w) ==
    /\ pc[w] = "idle" => job[w].kind = "none"
    /\ pc[w] \in HandlerPCs =>
        /\ job[w].target \in Actions
        /\ pc[job[w].target] # "idle"
        /\ w \in Actions => /\ job[w].target = w
                            /\ job[w].kind = "enqueue"
                            /\ ~row[w].approval
        /\ w \in Requests => /\ job[w].kind = "approve"
                             /\ row[job[w].target].approval
        /\ pc[w] = "record" => applied[job[w].target] > 0
    /\ job[w].kind = "approve" =>
        /\ job[w].target \in Actions
        /\ pc[job[w].target] # "idle"
        /\ pc[w] = "done" => row[job[w].target].status # "pending_approval"

\* What an undo request carries from its first read to its last write.
UndoInv(w) ==
    /\ pc[w] \in UndoPCs => job[w].kind = "undo"
    /\ w \in Requests /\ Exists(w) => job[w].kind = "undo"
    /\ job[w].kind = "undo" =>
        /\ w \in Requests
        /\ job[w].target \in Actions
        /\ pc[job[w].target] # "idle"
        /\ ~row[job[w].target].approval
        /\ job[w].seen =>
            /\ row[job[w].target].result
            /\ job[w].at - row[job[w].target].committedAt <= UndoWindow
        /\ \/ pc[w] \in {"closeUndo", "closeOriginal"}
           \/ row[w].status = "committed"
           \/ row[w].result
           => job[w].seen /\ reverted[job[w].target] > 0
        /\ row[w].result => pc[w] \in {"closeOriginal", "cancelled", "done"}
        /\ row[w].result /\ pc[w] = "done" =>
            row[job[w].target].status \in {"undone", "dismissed"}
    /\ w \in Requests /\ ~Exists(w) => ~row[w].result

IInv ==
    /\ TypeOK
    /\ \A a \in Actions : ActionInv(a)
    /\ \A w \in Workers : HandlerInv(w) /\ UndoInv(w)

=============================================================================
