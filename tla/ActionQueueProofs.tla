------------------------ MODULE ActionQueueProofs ------------------------
(***************************************************************************)
(* TLAPS proofs about ActionQueue, for any actions, requests, undo window  *)
(* and clock bound.                                                        *)
(***************************************************************************)
EXTENDS ActionQueue, TLAPS

\* An update of the status touches nothing else of the row and no other row.
LEMMA SetStatusFrame ==
  ASSUME row \in [Workers -> Row], NEW i \in Workers,
         NEW s \in Statuses, SetStatus(i, s)
  PROVE  /\ row' \in [Workers -> Row]
         /\ row'[i].status = s
         /\ \A j \in Workers : /\ row'[j].approval = row[j].approval
                               /\ row'[j].committedAt = row[j].committedAt
                               /\ row'[j].result = row[j].result
                               /\ j # i => row'[j] = row[j]
  BY DEF SetStatus, Row

\* A successful outcome sets the status, the time and the result, and leaves
\* requires_approval and every other row alone.
LEMMA SetCommittedFrame ==
  ASSUME row \in [Workers -> Row], NEW i \in Workers, now \in Time,
         NEW s \in Statuses, SetCommitted(i, s)
  PROVE  /\ row' \in [Workers -> Row]
         /\ row'[i].status = s
         /\ row'[i].approval = row[i].approval
         /\ row'[i].committedAt = now
         /\ row'[i].result = TRUE
         /\ \A j \in Workers : j # i => row'[j] = row[j]
  BY DEF SetCommitted, Row

\* With no request received and no action enqueued the invariant holds.
LEMMA InitEstablishes == Init => IInv
  <1> SUFFICES ASSUME Init PROVE IInv
    OBVIOUS
  <1> USE ActionQueueAssumption DEF Init, Workers, NoRow, Never
  <1>1. TypeOK
    BY DEF TypeOK, Row, Statuses, Time, PCs, Job, Kinds
  <1>2. \A a \in Actions : ActionInv(a)
    <2> SUFFICES ASSUME NEW a \in Actions PROVE ActionInv(a)
      OBVIOUS
    <2>1. row[a] = NoRow /\ pc[a] = "idle" /\ applied[a] = 0 /\ reverted[a] = 0
      OBVIOUS
    <2>2. QED
      BY <2>1 DEF ActionInv
  <1>3. \A w \in Workers : HandlerInv(w)
    BY DEF HandlerInv, HandlerPCs
  <1>4. \A w \in Workers : UndoInv(w)
    BY DEF UndoInv, UndoPCs, Exists
  <1>5. QED
    BY <1>1, <1>2, <1>3, <1>4 DEF IInv

\* Every action of the queue keeps the invariant: one step per action.
LEMMA StepPreserves == IInv /\ [Next]_vars => IInv'
  <1> SUFFICES ASSUME IInv, [Next]_vars
               PROVE  IInv'
    OBVIOUS
  <1> USE ActionQueueAssumption
      DEF IInv, TypeOK, ActionInv, HandlerInv, UndoInv, Row, NoRow, PCs, Open,
          HandlerPCs, UndoPCs, Job, Kinds, Time, Never, Statuses, Workers,
          Begin, Goto, Insert, SetStatus, SetCommitted, Exists, InUndoWindow
  <1>1. ASSUME NEW a \in Actions, EnqueueUnknown(a)
        PROVE  IInv'
    <2>1. TypeOK'
      BY <1>1 DEF EnqueueUnknown
    <2>2. \A x \in Actions : ActionInv(x)'
      BY <1>1 DEF EnqueueUnknown
    <2>3. \A x \in Workers : HandlerInv(x)'
      BY <1>1 DEF EnqueueUnknown
    <2>4. \A x \in Workers : UndoInv(x)'
      BY <1>1 DEF EnqueueUnknown
    <2>5. QED
      BY <2>1, <2>2, <2>3, <2>4 DEF IInv
  <1>2. ASSUME NEW a \in Actions, EnqueuePending(a)
        PROVE  IInv'
    <2>1. TypeOK'
      BY <1>2 DEF EnqueuePending
    <2>2. \A x \in Actions : ActionInv(x)'
      BY <1>2 DEF EnqueuePending
    <2>3. \A x \in Workers : HandlerInv(x)'
      BY <1>2 DEF EnqueuePending
    <2>4. \A x \in Workers : UndoInv(x)'
      BY <1>2 DEF EnqueuePending
    <2>5. QED
      BY <2>1, <2>2, <2>3, <2>4 DEF IInv
  <1>3. ASSUME NEW a \in Actions, EnqueueAuto(a)
        PROVE  IInv'
    <2>1. TypeOK'
      BY <1>3 DEF EnqueueAuto
    <2>2. \A x \in Actions : ActionInv(x)'
      BY <1>3 DEF EnqueueAuto
    <2>3. \A x \in Workers : HandlerInv(x)'
      BY <1>3 DEF EnqueueAuto
    <2>4. \A x \in Workers : UndoInv(x)'
      BY <1>3 DEF EnqueueAuto
    <2>5. QED
      BY <2>1, <2>2, <2>3, <2>4 DEF IInv
  <1>4. ASSUME NEW r \in Requests, NEW a \in Actions, Approve(r, a)
        PROVE  IInv'
    <2>1. TypeOK'
      BY <1>4 DEF Approve
    <2>2. \A x \in Actions : ActionInv(x)'
      BY <1>4 DEF Approve
    <2>3. \A x \in Workers : HandlerInv(x)'
      BY <1>4 DEF Approve
    <2>4. \A x \in Workers : UndoInv(x)'
      BY <1>4 DEF Approve
    <2>5. QED
      BY <2>1, <2>2, <2>3, <2>4 DEF IInv
  <1>5. ASSUME NEW r \in Requests, NEW a \in Actions, Undo(r, a)
        PROVE  IInv'
    <2>1. TypeOK'
      BY <1>5 DEF Undo
    <2>2. \A x \in Actions : ActionInv(x)'
      BY <1>5 DEF Undo
    <2>3. \A x \in Workers : HandlerInv(x)'
      BY <1>5 DEF Undo
    <2>4. \A x \in Workers : UndoInv(x)'
      BY <1>5 DEF Undo
    <2>5. QED
      BY <2>1, <2>2, <2>3, <2>4 DEF IInv
  <1>6. ASSUME NEW r \in Requests, NEW i \in Workers, Discard(r, i)
        PROVE  IInv'
    <2>8. /\ i \in Workers /\ "dismissed" \in Statuses /\ SetStatus(i, "dismissed")
          /\ row \in [Workers -> Row] /\ now \in Time
      BY <1>6 DEF Discard
    <2> HIDE DEF SetStatus
    <2>9. /\ row' \in [Workers -> Row]
          /\ row'[i].status = "dismissed"
          /\ \A j \in Workers : /\ row'[j].approval = row[j].approval
                                /\ row'[j].committedAt = row[j].committedAt
                                /\ row'[j].result = row[j].result
                                /\ j # i => row'[j] = row[j]
      BY <2>8, SetStatusFrame
    <2>1. TypeOK'
      BY <1>6, <2>8, <2>9 DEF Discard
    <2>2. \A x \in Actions : ActionInv(x)'
      BY <1>6, <2>8, <2>9 DEF Discard
    <2>3. \A x \in Workers : HandlerInv(x)'
      <3> SUFFICES ASSUME NEW x \in Workers PROVE HandlerInv(x)'
        OBVIOUS
      <3>1. CASE x = r
        BY <3>1, <1>6, <2>8, <2>9 DEF Discard
      <3>2. CASE x # r
        <4>1. /\ job'[x] = job[x] /\ pc'[x] = pc[x] /\ HandlerInv(x)
              /\ job[x] \in Job
              /\ applied' = applied /\ reverted' = reverted
          BY <3>2, <1>6 DEF Discard
        <4>2. \A j \in Workers : pc'[j] # pc[j] => pc'[j] = "done"
          BY <1>6 DEF Discard
        <4>3. \A j \in Workers : /\ row'[j].approval = row[j].approval
                                /\ row'[j].committedAt = row[j].committedAt
                                /\ row'[j].result = row[j].result
                                /\ \/ row'[j].status = row[j].status
                                   \/ /\ row'[j].status = "dismissed"
                                      /\ row[j].status # "absent"
          <5>1. row[i].status # "absent"
            BY <1>6 DEF Discard
          <5>2. row'[i].status = "dismissed"
            BY <2>9
          <5>3. \A j \in Workers : j # i => row'[j].status = row[j].status
            BY <2>9
          <5>4. \A j \in Workers : /\ row'[j].approval = row[j].approval
                                  /\ row'[j].committedAt = row[j].committedAt
                                  /\ row'[j].result = row[j].result
            BY <2>9
          <5>5. QED
            BY <5>1, <5>2, <5>3, <5>4, Zenon
        <4>4. QED
          BY <4>1, <4>2, <4>3
      <3>3. QED
        BY <3>1, <3>2
    <2>4. \A x \in Workers : UndoInv(x)'
      <3> SUFFICES ASSUME NEW x \in Workers PROVE UndoInv(x)'
        OBVIOUS
      <3>1. CASE x = r
        BY <3>1, <1>6, <2>8, <2>9 DEF Discard
      <3>2. CASE x # r
        <4>1. /\ job'[x] = job[x] /\ pc'[x] = pc[x] /\ UndoInv(x)
              /\ job[x] \in Job
              /\ applied' = applied /\ reverted' = reverted
          BY <3>2, <1>6 DEF Discard
        <4>2. \A j \in Workers : pc'[j] # pc[j] => pc'[j] = "done"
          BY <1>6 DEF Discard
        <4>3. \A j \in Workers : /\ row'[j].approval = row[j].approval
                                /\ row'[j].committedAt = row[j].committedAt
                                /\ row'[j].result = row[j].result
                                /\ \/ row'[j].status = row[j].status
                                   \/ /\ row'[j].status = "dismissed"
                                      /\ row[j].status # "absent"
          <5>1. row[i].status # "absent"
            BY <1>6 DEF Discard
          <5>2. row'[i].status = "dismissed"
            BY <2>9
          <5>3. \A j \in Workers : j # i => row'[j].status = row[j].status
            BY <2>9
          <5>4. \A j \in Workers : /\ row'[j].approval = row[j].approval
                                  /\ row'[j].committedAt = row[j].committedAt
                                  /\ row'[j].result = row[j].result
            BY <2>9
          <5>5. QED
            BY <5>1, <5>2, <5>3, <5>4, Zenon
        <4>4. QED
          BY <4>1, <4>2, <4>3
      <3>3. QED
        BY <3>1, <3>2
    <2>5. QED
      BY <2>1, <2>2, <2>3, <2>4 DEF IInv
  <1>7. ASSUME NEW w \in Workers, HandlerApplies(w)
        PROVE  IInv'
    <2>1. TypeOK'
      BY <1>7 DEF HandlerApplies
    <2>2. \A x \in Actions : ActionInv(x)'
      BY <1>7 DEF HandlerApplies
    <2>3. \A x \in Workers : HandlerInv(x)'
      BY <1>7 DEF HandlerApplies
    <2>4. \A x \in Workers : UndoInv(x)'
      BY <1>7 DEF HandlerApplies
    <2>5. QED
      BY <2>1, <2>2, <2>3, <2>4 DEF IInv
  <1>8. ASSUME NEW w \in Workers, HandlerRaises(w)
        PROVE  IInv'
    <2>1. TypeOK'
      BY <1>8 DEF HandlerRaises
    <2>2. \A x \in Actions : ActionInv(x)'
      BY <1>8 DEF HandlerRaises
    <2>3. \A x \in Workers : HandlerInv(x)'
      BY <1>8 DEF HandlerRaises
    <2>4. \A x \in Workers : UndoInv(x)'
      BY <1>8 DEF HandlerRaises
    <2>5. QED
      BY <2>1, <2>2, <2>3, <2>4 DEF IInv
  <1>9. ASSUME NEW w \in Workers, HandlerAppliesThenRaises(w)
        PROVE  IInv'
    <2>1. TypeOK'
      BY <1>9 DEF HandlerAppliesThenRaises
    <2>2. \A x \in Actions : ActionInv(x)'
      BY <1>9 DEF HandlerAppliesThenRaises
    <2>3. \A x \in Workers : HandlerInv(x)'
      BY <1>9 DEF HandlerAppliesThenRaises
    <2>4. \A x \in Workers : UndoInv(x)'
      BY <1>9 DEF HandlerAppliesThenRaises
    <2>5. QED
      BY <2>1, <2>2, <2>3, <2>4 DEF IInv
  <1>10. ASSUME NEW w \in Workers, RecordSuccess(w)
        PROVE  IInv'
    <2> DEFINE t == job[w].target
               s == IF job[w].kind = "enqueue" THEN "auto_committed"
                                               ELSE "committed"
    <2>8. /\ t \in Actions /\ t \in Workers /\ s \in Statuses
          /\ SetCommitted(t, s)
          /\ row \in [Workers -> Row] /\ now \in Time
      BY <1>10 DEF RecordSuccess
    <2>9. /\ row' \in [Workers -> Row]
          /\ row'[t].status = s
          /\ row'[t].approval = row[t].approval
          /\ row'[t].committedAt = now
          /\ row'[t].result = TRUE
          /\ \A j \in Workers : j # t => row'[j] = row[j]
      <3> DEFINE c == [row[t] EXCEPT !.status = s, !.committedAt = now, !.result = TRUE]
      <3>1. row' = [row EXCEPT ![t] = c]
        BY <2>8
      <3>2. row[t] \in Row
        BY <2>8
      <3>3. /\ c \in Row /\ c.status = s /\ c.approval = row[t].approval
            /\ c.committedAt = now /\ c.result = TRUE
        BY <2>8, <3>2
      <3>4. t \in Workers /\ row \in [Workers -> Row]
        BY <2>8
      <3> HIDE DEF c, s, t, Row, SetCommitted
      <3> QED
        BY <3>1, <3>3, <3>4
    <2> HIDE DEF s, SetCommitted
    <2>1. TypeOK'
      BY <1>10, <2>8, <2>9 DEF RecordSuccess
    <2>2. \A x \in Actions : ActionInv(x)'
      <3> SUFFICES ASSUME NEW x \in Actions PROVE ActionInv(x)'
        OBVIOUS
      <3>1. CASE x = t
        BY <3>1, <1>10, <2>8, <2>9 DEF RecordSuccess, s
      <3>2. CASE x # t
        BY <3>2, <1>10, <2>8, <2>9 DEF RecordSuccess
      <3>3. QED
        BY <3>1, <3>2
    <2>3. \A x \in Workers : HandlerInv(x)'
      <3> SUFFICES ASSUME NEW x \in Workers PROVE HandlerInv(x)'
        OBVIOUS
      <3>1. s # "pending_approval"
        BY DEF s
      <3>2. CASE x = w
        BY <3>1, <3>2, <1>10, <2>8, <2>9 DEF RecordSuccess
      <3>3. CASE x # w
        BY <3>1, <3>3, <1>10, <2>8, <2>9 DEF RecordSuccess
      <3>4. QED
        BY <3>2, <3>3
    <2>4. \A x \in Workers : UndoInv(x)'
      <3> SUFFICES ASSUME NEW x \in Workers PROVE UndoInv(x)'
        OBVIOUS
      <3>1. /\ job' = job /\ reverted' = reverted /\ UndoInv(x)
            /\ pc' = [pc EXCEPT ![w] = "done"] /\ pc[w] = "record"
            /\ t \in Actions /\ HandlerInv(w)
        BY <1>10, <2>8 DEF RecordSuccess
      <3>2. job[x].kind = "undo" /\ job[x].target = t => ~row[t].result
        BY <3>1, <2>8
      <3>3. CASE x = w
        BY <3>1, <3>3, <2>8, <2>9
      <3>4. CASE x # w
        BY <3>1, <3>2, <3>4, <2>8, <2>9
      <3>5. QED
        BY <3>3, <3>4
    <2>5. QED
      BY <2>1, <2>2, <2>3, <2>4 DEF IInv
  <1>11. ASSUME NEW w \in Workers, RecordRaises(w)
        PROVE  IInv'
    <2>1. TypeOK'
      BY <1>11 DEF RecordRaises
    <2>2. \A x \in Actions : ActionInv(x)'
      BY <1>11 DEF RecordRaises
    <2>3. \A x \in Workers : HandlerInv(x)'
      BY <1>11 DEF RecordRaises
    <2>4. \A x \in Workers : UndoInv(x)'
      BY <1>11 DEF RecordRaises
    <2>5. QED
      BY <2>1, <2>2, <2>3, <2>4 DEF IInv
  <1>12. ASSUME NEW w \in Workers, RecordFailure(w)
        PROVE  IInv'
    <2>8. /\ job[w].target \in Workers /\ "failed" \in Statuses /\ SetStatus(job[w].target, "failed")
          /\ row \in [Workers -> Row] /\ now \in Time
      BY <1>12 DEF RecordFailure
    <2> HIDE DEF SetStatus
    <2>9. /\ row' \in [Workers -> Row]
          /\ row'[job[w].target].status = "failed"
          /\ \A j \in Workers : /\ row'[j].approval = row[j].approval
                                /\ row'[j].committedAt = row[j].committedAt
                                /\ row'[j].result = row[j].result
                                /\ j # job[w].target => row'[j] = row[j]
      BY <2>8, SetStatusFrame
    <2>1. TypeOK'
      BY <1>12, <2>8, <2>9 DEF RecordFailure
    <2>2. \A x \in Actions : ActionInv(x)'
      BY <1>12, <2>8, <2>9 DEF RecordFailure
    <2>3. \A x \in Workers : HandlerInv(x)'
      BY <1>12, <2>8, <2>9 DEF RecordFailure
    <2>4. \A x \in Workers : UndoInv(x)'
      BY <1>12, <2>8, <2>9 DEF RecordFailure
    <2>5. QED
      BY <2>1, <2>2, <2>3, <2>4 DEF IInv
  <1>13. ASSUME NEW w \in Workers, CompensatorApplies(w)
        PROVE  IInv'
    <2>1. TypeOK'
      BY <1>13 DEF CompensatorApplies
    <2>2. \A x \in Actions : ActionInv(x)'
      BY <1>13 DEF CompensatorApplies
    <2>3. \A x \in Workers : HandlerInv(x)'
      BY <1>13 DEF CompensatorApplies
    <2>4. \A x \in Workers : UndoInv(x)'
      BY <1>13 DEF CompensatorApplies
    <2>5. QED
      BY <2>1, <2>2, <2>3, <2>4 DEF IInv
  <1>14. ASSUME NEW w \in Workers, CompensatorRaises(w)
        PROVE  IInv'
    <2>1. TypeOK'
      BY <1>14 DEF CompensatorRaises
    <2>2. \A x \in Actions : ActionInv(x)'
      BY <1>14 DEF CompensatorRaises
    <2>3. \A x \in Workers : HandlerInv(x)'
      BY <1>14 DEF CompensatorRaises
    <2>4. \A x \in Workers : UndoInv(x)'
      <3> SUFFICES ASSUME NEW x \in Workers PROVE UndoInv(x)'
        OBVIOUS
      <3>1. CASE x = w
        BY <3>1, <1>14 DEF CompensatorRaises
      <3>2. CASE x # w
        BY <3>2, <1>14 DEF CompensatorRaises
      <3>3. QED
        BY <3>1, <3>2
    <2>5. QED
      BY <2>1, <2>2, <2>3, <2>4 DEF IInv
  <1>15. ASSUME NEW w \in Workers, FailUndo(w)
        PROVE  IInv'
    <2>1. TypeOK'
      BY <1>15 DEF FailUndo
    <2>2. \A x \in Actions : ActionInv(x)'
      BY <1>15 DEF FailUndo
    <2>3. \A x \in Workers : HandlerInv(x)'
      BY <1>15 DEF FailUndo
    <2>4. \A x \in Workers : UndoInv(x)'
      BY <1>15 DEF FailUndo
    <2>5. QED
      BY <2>1, <2>2, <2>3, <2>4 DEF IInv
  <1>16. ASSUME NEW w \in Workers, CloseUndo(w)
        PROVE  IInv'
    <2>8. /\ w \in Workers /\ "committed" \in Statuses /\ SetCommitted(w, "committed")
          /\ row \in [Workers -> Row] /\ now \in Time
      BY <1>16 DEF CloseUndo
    <2> HIDE DEF SetCommitted
    <2>9. /\ row' \in [Workers -> Row]
          /\ row'[w].status = "committed"
          /\ row'[w].approval = row[w].approval
          /\ row'[w].committedAt = now
          /\ row'[w].result = TRUE
          /\ \A j \in Workers : j # w => row'[j] = row[j]
      BY <2>8, SetCommittedFrame
    <2>1. TypeOK'
      BY <1>16, <2>8, <2>9 DEF CloseUndo
    <2>2. \A x \in Actions : ActionInv(x)'
      BY <1>16, <2>8, <2>9 DEF CloseUndo
    <2>3. \A x \in Workers : HandlerInv(x)'
      BY <1>16, <2>8, <2>9 DEF CloseUndo
    <2>4. \A x \in Workers : UndoInv(x)'
      BY <1>16, <2>8, <2>9 DEF CloseUndo
    <2>5. QED
      BY <2>1, <2>2, <2>3, <2>4 DEF IInv
  <1>17. ASSUME NEW w \in Workers, CloseOriginal(w)
        PROVE  IInv'
    <2>8. /\ job[w].target \in Workers /\ "undone" \in Statuses /\ SetStatus(job[w].target, "undone")
          /\ row \in [Workers -> Row] /\ now \in Time
      BY <1>17 DEF CloseOriginal
    <2> HIDE DEF SetStatus
    <2>9. /\ row' \in [Workers -> Row]
          /\ row'[job[w].target].status = "undone"
          /\ \A j \in Workers : /\ row'[j].approval = row[j].approval
                                /\ row'[j].committedAt = row[j].committedAt
                                /\ row'[j].result = row[j].result
                                /\ j # job[w].target => row'[j] = row[j]
      BY <2>8, SetStatusFrame
    <2>1. TypeOK'
      BY <1>17, <2>8, <2>9 DEF CloseOriginal
    <2>2. \A x \in Actions : ActionInv(x)'
      BY <1>17, <2>8, <2>9 DEF CloseOriginal
    <2>3. \A x \in Workers : HandlerInv(x)'
      BY <1>17, <2>8, <2>9 DEF CloseOriginal
    <2>4. \A x \in Workers : UndoInv(x)'
      <3> SUFFICES ASSUME NEW x \in Workers PROVE UndoInv(x)'
        OBVIOUS
      <3>1. /\ job[w].kind = "undo" /\ w \in Requests /\ job[w].target \in Actions
            /\ job' = job /\ reverted' = reverted /\ UndoInv(x)
            /\ pc' = [pc EXCEPT ![w] = "done"] /\ pc[w] = "closeOriginal"
        BY <1>17 DEF CloseOriginal
      <3>2. CASE x = w
        BY <3>1, <3>2, <2>8, <2>9
      <3>3. CASE x # w
        <4>1. /\ pc'[x] = pc[x] /\ job'[x] = job[x] /\ UndoInv(x)
              /\ job[x] \in Job
              /\ reverted' = reverted
              /\ \A j \in Workers : pc'[j] # pc[j] => pc'[j] = "done"
          BY <3>1, <3>3
        <4>2. \A a \in Actions : /\ row'[a].approval = row[a].approval
                                /\ row'[a].committedAt = row[a].committedAt
                                /\ row'[a].result = row[a].result
                                /\ \/ row'[a].status = row[a].status
                                   \/ row'[a].status = "undone"
          BY <2>9
        <4>3. x \in Requests => row'[x] = row[x]
          BY <3>1, <2>9
        <4>4. QED
          BY <4>1, <4>2, <4>3
      <3>4. QED
        BY <3>2, <3>3
    <2>5. QED
      BY <2>1, <2>2, <2>3, <2>4 DEF IInv
  <1>18. ASSUME NEW w \in Workers, Cancel(w)
        PROVE  IInv'
    <2>1. TypeOK'
      BY <1>18 DEF Cancel
    <2>2. \A x \in Actions : ActionInv(x)'
      BY <1>18 DEF Cancel
    <2>3. \A x \in Workers : HandlerInv(x)'
      BY <1>18 DEF Cancel
    <2>4. \A x \in Workers : UndoInv(x)'
      BY <1>18 DEF Cancel
    <2>5. QED
      BY <2>1, <2>2, <2>3, <2>4 DEF IInv
  <1>19. CASE Tick
    BY <1>19 DEF Tick
  <1>20. CASE UNCHANGED vars
    BY <1>20 DEF vars
  <1> HIDE DEF IInv, TypeOK, ActionInv, HandlerInv, UndoInv, Begin, Goto, Insert,
           SetStatus, SetCommitted, Exists, InUndoWindow
  <1>21. QED
    BY <1>1, <1>2, <1>3, <1>4, <1>5, <1>6, <1>7, <1>8, <1>9, <1>10, <1>11,
       <1>12, <1>13, <1>14, <1>15, <1>16, <1>17, <1>18, <1>19, <1>20
    DEF Next, Enqueue, Receive, Continue

\* The conjuncts of IInv hold in every reachable state.
THEOREM Invariance == Spec => []IInv
  BY InitEstablishes, StepPreserves, PTL DEF Spec

-----------------------------------------------------------------------------
\* Every row, worker and counter keeps its type; status stays in the CHECK.
THEOREM TypeCorrect == Spec => []TypeOK
  <1>1. IInv => TypeOK
    BY DEF IInv
  <1>2. QED
    BY Invariance, <1>1, PTL

\* A status of committed or undone, or a committed_at, is never set on an
\* action that did not take effect (or was not compensated).
THEOREM ClaimsAreTrue == Spec => []NoFalseClaim
  <1>1. IInv => NoFalseClaim
    <2> SUFFICES ASSUME IInv PROVE NoFalseClaim
      OBVIOUS
    <2>1. ASSUME NEW a \in Actions
          PROVE  /\ row[a].status = "committed" => applied[a] > 0
                 /\ row[a].committedAt # Never => applied[a] > 0
                 /\ row[a].status = "undone" => reverted[a] > 0
      BY DEF IInv, ActionInv
    <2>2. ASSUME NEW r \in Requests, row[r].status = "committed"
          PROVE  reverted[job[r].target] > 0
      BY <2>2 DEF IInv, UndoInv, Exists, Workers
    <2>3. QED
      BY <2>1, <2>2 DEF NoFalseClaim
  <1>2. QED
    BY Invariance, <1>1, PTL

\* Only recorded auto-pass actions are ever compensated.
THEOREM UndoAfterRecord == Spec => []UndoFollowsRecord
  <1>1. IInv => UndoFollowsRecord
    BY DEF IInv, ActionInv, UndoFollowsRecord
  <1>2. QED
    BY Invariance, <1>1, PTL

\* A compensation belongs to an undo accepted inside the window.
THEOREM UndoTimely == Spec => []UndoInWindow
  <1>1. IInv => UndoInWindow
    <2> SUFFICES ASSUME IInv, NEW r \in Requests,
                        pc[r] \in {"closeUndo", "closeOriginal"}
                 PROVE  /\ row[job[r].target].committedAt # Never
                        /\ job[r].at - row[job[r].target].committedAt
                               <= UndoWindow
      BY DEF UndoInWindow
    <2>1. UndoInv(r)
      BY DEF IInv, Workers
    <2>2. job[r].seen /\ row[job[r].target].result
          /\ job[r].target \in Actions
          /\ job[r].at - row[job[r].target].committedAt <= UndoWindow
      BY <2>1 DEF UndoInv, UndoPCs
    <2>3. QED
      BY <2>2 DEF IInv, ActionInv
  <1>2. QED
    BY Invariance, <1>1, PTL

\* An auto-pass action takes effect at most once.
THEOREM AutoAtMostOnce == Spec => []AutoRunsOnce
  <1>1. IInv => AutoRunsOnce
    BY DEF IInv, ActionInv, AutoRunsOnce
  <1>2. QED
    BY Invariance, <1>1, PTL

\* The handler of an action that needs approval runs only inside a request
\* that approved it.
THEOREM ApprovedBeforeRun == Spec => RunsOnlyWhenApproved
  <1>1. ASSUME IInv, [Next]_vars, NEW a \in Actions,
               applied'[a] # applied[a], row[a].approval
        PROVE  \E r \in Requests : /\ job[r].target = a
                                  /\ job[r].kind = "approve"
                                  /\ pc[r] \in Open
    <2>1. applied \in [Actions -> Nat]
      BY <1>1 DEF IInv, TypeOK
    <2>2. PICK w \in Workers : /\ pc[w] = "handler"
                              /\ applied' = [applied EXCEPT ![job[w].target] = @ + 1]
      BY <1>1 DEF Next, Enqueue, EnqueueUnknown, EnqueuePending, EnqueueAuto,
                  Receive, Approve, Undo, Discard, Continue, HandlerApplies,
                  HandlerRaises, HandlerAppliesThenRaises, RecordSuccess,
                  RecordRaises, RecordFailure, CompensatorApplies,
                  CompensatorRaises, FailUndo, CloseUndo, CloseOriginal,
                  Cancel, Tick, Goto, vars
    <2>3. HandlerInv(w) /\ pc[w] \in HandlerPCs /\ pc[w] \in Open
      BY <1>1, <2>2 DEF IInv, HandlerPCs, Open
    <2>4. job[w].target = a
      BY <1>1, <2>1, <2>2, <2>3 DEF HandlerInv
    <2>5. w \in Requests /\ job[w].kind = "approve"
      BY <1>1, <2>3, <2>4 DEF HandlerInv, Workers
    <2>6. QED
      BY <2>3, <2>4, <2>5
  <1>2. IInv /\ [Next]_vars =>
          [\A a \in Actions : RunIsApproved(a)]_vars
    BY <1>1 DEF RunIsApproved
  <1>3. QED
    BY Invariance, <1>2, PTL DEF Spec, RunsOnlyWhenApproved

\* What a step needs to keep to leave a request that owes its outcome in place.
LEMMA DebtorStays ==
  ASSUME NEW a \in Actions, NEW kind, NEW pcs, Unrecorded(a, kind, pcs),
         \A r \in Requests :
             job[r].kind = kind /\ job[r].target = a /\ pc[r] \in pcs =>
                 job'[r] = job[r] /\ pc'[r] \in pcs
  PROVE  Unrecorded(a, kind, pcs)'
  BY DEF Unrecorded

\* Every step keeps a repeat tied to a request that owes its outcome.
LEMMA RepeatsPreserved ==
  IInv /\ RepeatsAreUnrecorded /\ [Next]_vars => RepeatsAreUnrecorded'
  <1> SUFFICES ASSUME IInv, RepeatsAreUnrecorded, [Next]_vars, NEW a \in Actions
               PROVE  ApprovalIsOwed(a)' /\ UndoIsOwed(a)'
    BY DEF RepeatsAreUnrecorded
  <1> USE ActionQueueAssumption
      DEF Workers, Goto, Begin, ApprovalIsOwed, UndoIsOwed
  <1>1. /\ row \in [Workers -> Row] /\ pc \in [Workers -> PCs] /\ job \in [Workers -> Job]
        /\ applied \in [Actions -> Nat] /\ reverted \in [Actions -> Nat]
    BY DEF IInv, TypeOK
  <1>2. ApprovalIsOwed(a) /\ UndoIsOwed(a)
    BY DEF RepeatsAreUnrecorded
  <1>3. ActionInv(a)
    BY DEF IInv
  <1>4. ASSUME NEW b \in Actions, Enqueue(b)
        PROVE  ApprovalIsOwed(a)' /\ UndoIsOwed(a)'
    <2>1. /\ applied' = applied /\ reverted' = reverted /\ pc[b] = "idle"
          /\ \A r \in Requests : job'[r] = job[r] /\ pc'[r] = pc[r]
          /\ b # a => row'[a] = row[a]
      BY <1>1, <1>4 DEF Enqueue, EnqueueUnknown, EnqueuePending, EnqueueAuto, Insert
    <2>2. CASE b = a
      BY <2>1, <2>2, <1>3 DEF ActionInv
    <2>3. CASE b # a
      BY <2>1, <2>3, <1>2, DebtorStays
    <2>4. QED
      BY <2>2, <2>3
  <1>5. ASSUME NEW q \in Requests, Receive(q)
        PROVE  ApprovalIsOwed(a)' /\ UndoIsOwed(a)'
    <2>1. /\ applied' = applied /\ reverted' = reverted /\ pc[q] = "idle"
          /\ \A r \in Requests : r # q => job'[r] = job[r] /\ pc'[r] = pc[r]
      BY <1>1, <1>5 DEF Receive, Approve, Undo, Discard
    <2>2. row'[a] = row[a] \/ row'[a].status = "dismissed"
      BY <1>1, <1>5 DEF Receive, Approve, Undo, Discard, Insert, SetStatus, Row
    <2>3. QED
      BY <2>1, <2>2, <1>2, DebtorStays
  <1>6. ASSUME NEW w \in Workers, HandlerApplies(w) \/ HandlerAppliesThenRaises(w)
        PROVE  ApprovalIsOwed(a)' /\ UndoIsOwed(a)'
    <2>1. /\ row' = row /\ job' = job /\ reverted' = reverted /\ pc[w] = "handler"
          /\ pc'[w] \in {"record", "fail"}
          /\ \A r \in Requests : r # w => pc'[r] = pc[r]
          /\ job[w].target # a => applied'[a] = applied[a]
      BY <1>1, <1>6 DEF HandlerApplies, HandlerAppliesThenRaises
    <2>2. CASE job[w].target = a /\ row[a].status = "pending_approval"
      <3>1. w \in Requests /\ job[w].kind = "approve"
        BY <2>1, <2>2, <1>3 DEF IInv, HandlerInv, HandlerPCs, ActionInv
      <3>2. QED
        BY <3>1, <2>1, <2>2 DEF Unrecorded
    <2>3. ApprovalIsOwed(a)'
      BY <2>1, <2>2, <1>2, DebtorStays
    <2>4. UndoIsOwed(a)'
      BY <2>1, <1>2, DebtorStays
    <2>5. QED
      BY <2>3, <2>4
  <1>7. ASSUME NEW w \in Workers, CompensatorApplies(w)
        PROVE  ApprovalIsOwed(a)' /\ UndoIsOwed(a)'
    <2>1. /\ row' = row /\ job' = job /\ applied' = applied /\ pc[w] = "compensate"
          /\ pc'[w] = "closeUndo"
          /\ \A r \in Requests : r # w => pc'[r] = pc[r]
          /\ job[w].target # a => reverted'[a] = reverted[a]
      BY <1>1, <1>7 DEF CompensatorApplies
    <2>2. w \in Requests /\ job[w].kind = "undo"
      BY <2>1 DEF IInv, UndoInv, UndoPCs
    <2>3. ApprovalIsOwed(a)'
      BY <2>1, <1>2, DebtorStays
    <2>4. UndoIsOwed(a)'
      BY <2>1, <2>2, <1>2, DebtorStays DEF Unrecorded
    <2>5. QED
      BY <2>3, <2>4
  <1>8. ASSUME NEW w \in Workers,
               HandlerRaises(w) \/ CompensatorRaises(w) \/ RecordRaises(w) \/ Cancel(w)
        PROVE  ApprovalIsOwed(a)' /\ UndoIsOwed(a)'
    <2>1. /\ row' = row /\ job' = job /\ applied' = applied /\ reverted' = reverted
          /\ \A r \in Requests : r # w => pc'[r] = pc[r]
          /\ \/ pc[w] = "handler" \/ pc[w] = "compensate" \/ pc'[w] = "cancelled"
             \/ pc[w] = "record" /\ pc'[w] = "fail"
      BY <1>1, <1>8 DEF HandlerRaises, CompensatorRaises, RecordRaises, Cancel
    <2>2. QED
      BY <2>1, <1>2, DebtorStays
  <1>9. ASSUME NEW w \in Workers, RecordSuccess(w) \/ RecordFailure(w)
        PROVE  ApprovalIsOwed(a)' /\ UndoIsOwed(a)'
    <2>1. /\ job' = job /\ applied' = applied /\ reverted' = reverted
          /\ pc[w] \in {"record", "fail"}
          /\ \A r \in Requests : r # w => pc'[r] = pc[r]
          /\ job[w].target # a => row'[a] = row[a]
      BY <1>1, <1>9 DEF RecordSuccess, RecordFailure, SetCommitted, SetStatus
    <2>2. CASE job[w].target # a
      BY <2>1, <2>2, <1>2, DebtorStays
    <2>3. CASE job[w].target = a
      <3>1. /\ row'[a].status \in {"committed", "auto_committed", "failed"}
            /\ row'[a].status = "auto_committed" =>
                   job[w].kind = "enqueue" /\ pc[w] = "record"
        BY <2>3, <1>1, <1>9 DEF RecordSuccess, RecordFailure, SetCommitted,
             SetStatus, Row
      <3>2. row'[a].status = "auto_committed" => reverted[a] = 0
        <4>1. HandlerInv(w)
          BY DEF IInv
        <4>2. row'[a].status = "auto_committed" => w = a
          BY <3>1, <4>1, <2>1, <2>3 DEF HandlerInv, HandlerPCs
        <4>3. QED
          BY <4>2, <2>1, <1>1, <1>3 DEF ActionInv
      <3>3. QED
        BY <3>1, <3>2, <2>1
    <2>4. QED
      BY <2>2, <2>3
  <1>10. ASSUME NEW w \in Workers, FailUndo(w) \/ CloseUndo(w)
         PROVE  ApprovalIsOwed(a)' /\ UndoIsOwed(a)'
    <2>1. /\ job' = job /\ applied' = applied /\ reverted' = reverted
          /\ pc[w] \in {"failUndo", "closeUndo"}
          /\ pc[w] = "closeUndo" => pc'[w] = "closeOriginal"
          /\ \A r \in Requests : r # w => pc'[r] = pc[r]
      BY <1>1, <1>10 DEF FailUndo, CloseUndo
    <2>2. w \in Requests
      BY <2>1 DEF IInv, UndoInv, UndoPCs
    <2>3. row'[a] = row[a]
      BY <2>2, <1>1, <1>10 DEF FailUndo, CloseUndo, SetCommitted, SetStatus
    <2>4. QED
      BY <2>1, <2>3, <1>2, DebtorStays
  <1>11. ASSUME NEW w \in Workers, CloseOriginal(w)
         PROVE  ApprovalIsOwed(a)' /\ UndoIsOwed(a)'
    <2>1. /\ job' = job /\ applied' = applied /\ reverted' = reverted
          /\ pc[w] = "closeOriginal"
          /\ \A r \in Requests : r # w => pc'[r] = pc[r]
          /\ IF job[w].target = a THEN row'[a].status = "undone" ELSE row'[a] = row[a]
      BY <1>1, <1>11 DEF CloseOriginal, SetStatus, Row
    <2>2. QED
      BY <2>1, <1>2, DebtorStays
  <1>12. CASE Tick \/ UNCHANGED vars
    <2>1. /\ row' = row /\ pc' = pc /\ job' = job
          /\ applied' = applied /\ reverted' = reverted
      BY <1>12 DEF Tick, vars
    <2>2. QED
      BY <2>1, <1>2, DebtorStays
  <1>13. ApprovalIsOwed(a)' /\ UndoIsOwed(a)'
    BY <1>4, <1>5, <1>6, <1>7, <1>8, <1>9, <1>10, <1>11, <1>12
    DEF Next, Continue
  <1>14. QED
    BY <1>13

\* An action that took effect is on offer again only on account of a request
\* that has not written, or died before it wrote, its outcome.
THEOREM RepeatNeedsADebtor == Spec => []RepeatsAreUnrecorded
  <1>1. Init => RepeatsAreUnrecorded
    <2> SUFFICES ASSUME Init, NEW a \in Actions
                 PROVE  ApprovalIsOwed(a) /\ UndoIsOwed(a)
      BY Zenon DEF RepeatsAreUnrecorded
    <2>1. applied[a] = 0 /\ reverted[a] = 0
      BY DEF Init
    <2>2. QED
      BY <2>1 DEF ApprovalIsOwed, UndoIsOwed
  <1>2. QED
    BY Invariance, <1>1, RepeatsPreserved, PTL DEF Spec

=============================================================================
