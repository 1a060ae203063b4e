-------------------------- MODULE QueueClientsProofs --------------------------
(***************************************************************************)
(* TLAPS proofs about the two modules around the action queue, for any     *)
(* actions and requests: ActionCards, the browser tab that sends it the    *)
(* requests, and TaskTools, what its handlers and compensators do to       *)
(* rex.tasks.  The specification of each implements the queue's, so the    *)
(* theorems of ActionQueueProofs hold under both; no theorem is about both *)
(* at once.                                                                *)
(***************************************************************************)
EXTENDS ActionCards, TaskTools, ActionQueueProofs, FiniteSetTheorems

-----------------------------------------------------------------------------
(* ActionCards.  The cards drive the queue only through its own actions,   *)
(* so every theorem about the queue holds under them; and one tab keeps    *)
(* apart the requests that the queue would let overlap.                    *)

\* A request that was sent names an action and a button.
SentInv ==
    \A r \in Requests : asked[r].server # "new" =>
        asked[r].action \in Actions /\ asked[r].kind \in Kind

\* No press, no request.
LEMMA NothingSent == CardsInit => CardsTypeOK /\ SentInv
BY ActionQueueAssumption
   DEF CardsInit, CardsTypeOK, SentInv, Card, States, Time, Asked, Kind

\* A patch that ends a card's busy time leaves a card.
LEMMA SettleTypes ==
    ASSUME card \in [Actions -> Card], now \in Time,
           NEW a \in Actions, NEW state \in States, Settle(a, state)
    PROVE  card' \in [Actions -> Card]
<1>1. card[a] \in Card
  OBVIOUS
<1> DEFINE c == [card[a] EXCEPT !.state = state, !.busy = FALSE,
                   !.since = IF state = "committed" THEN now ELSE @]
<1>2. c \in Card
  BY <1>1 DEF Card
<1>3. card' = [card EXCEPT ![a] = c]
  BY DEF Settle
<1>4. QED
  BY <1>2, <1>3

\* An answer, or its loss, settles a card of the action the request names.
LEMMA AnswerTypes ==
    ASSUME TypeOK, CardsTypeOK, SentInv,
           NEW r \in Requests, Answer(r) \/ Drop(r)
    PROVE  CardsTypeOK' /\ SentInv'
<1> DEFINE a == asked[r].action
<1>1. asked[r].server # "new"
  BY DEF Answer, Drop, Pending
<1>2. a \in Actions /\ now \in Time /\ card[a].state \in States
  BY <1>1 DEF SentInv, TypeOK, CardsTypeOK, Card
<1>3. OnOk(asked[r].kind) \in States /\ OnError(asked[r].kind, card[a].state) \in States
  BY <1>2 DEF OnOk, OnError, States
<1>4. card' \in [Actions -> Card]
  <2>1. CASE UNCHANGED card
    BY <2>1 DEF CardsTypeOK
  <2>2. ASSUME NEW state \in States, Settle(a, state)
        PROVE  card' \in [Actions -> Card]
    BY <1>2, <2>2, SettleTypes DEF CardsTypeOK
  <2>3. UNCHANGED card \/ \E state \in States : Settle(a, state)
    BY <1>3 DEF Answer, Drop
  <2>4. QED
    BY <2>1, <2>2, <2>3
<1>5. asked' = [asked EXCEPT ![r].answered = TRUE]
  BY DEF Answer, Drop
<1> DEFINE q == [asked[r] EXCEPT !.answered = TRUE]
<1>6. asked' \in [Requests -> Asked] /\ SentInv'
  <2> HIDE DEF a
  <2>0. asked[r] \in Asked
    BY DEF CardsTypeOK
  <2>1. q \in Asked /\ q.action = asked[r].action /\ q.kind = asked[r].kind
    BY <2>0 DEF Asked
  <2>2. asked' = [asked EXCEPT ![r] = q]
    BY <1>5
  <2>3. asked' \in [Requests -> Asked]
    BY <2>1, <2>2 DEF CardsTypeOK
  <2>4. \A k \in Requests : /\ asked'[k].action = asked[k].action
                            /\ asked'[k].kind = asked[k].kind
                            /\ k # r => asked'[k] = asked[k]
    BY <2>1, <2>2 DEF CardsTypeOK
  <2>5. QED
    BY <1>1, <2>3, <2>4 DEF SentInv
<1>7. dropped' \subseteq Actions
  BY <1>2 DEF Answer, Drop, CardsTypeOK
<1>8. QED
  BY <1>4, <1>6, <1>7 DEF CardsTypeOK

\* Only Press sets the action and the kind, and it sets both.
LEMMA SentPreserved ==
    TypeOK /\ CardsTypeOK /\ SentInv /\ [CardsNext]_tabVars
        => CardsTypeOK' /\ SentInv'
<1> SUFFICES ASSUME TypeOK, CardsTypeOK, SentInv, [CardsNext]_tabVars
             PROVE CardsTypeOK' /\ SentInv'
  OBVIOUS
<1>1. ASSUME NEW r \in Requests, Press(r) PROVE CardsTypeOK' /\ SentInv'
  <2>1. PICK a \in Actions, kind \in Kind :
          /\ card' = [card EXCEPT ![a].busy = TRUE]
          /\ asked' = [asked EXCEPT ![r] = [kind |-> kind, action |-> a,
                                           server |-> "sent", answered |-> FALSE]]
    BY <1>1 DEF Press
  <2>2. card' \in [Actions -> Card]
    <3> DEFINE c == [card[a] EXCEPT !.busy = TRUE]
    <3>1. card[a] \in Card
      BY DEF CardsTypeOK
    <3>2. c \in Card
      BY <3>1 DEF Card
    <3>3. card' = [card EXCEPT ![a] = c]
      BY <2>1
    <3>4. QED
      BY <3>2, <3>3 DEF CardsTypeOK
  <2>3. asked' \in [Requests -> Asked] /\ SentInv'
    BY <2>1 DEF CardsTypeOK, SentInv, Asked, Kind
  <2>4. QED
    BY <1>1, <2>2, <2>3 DEF Press, CardsTypeOK
<1>2. ASSUME NEW a \in Actions, Show(a) \/ Dismiss(a)
      PROVE  CardsTypeOK' /\ SentInv'
  <2>1. PICK state \in States : Settle(a, state)
    BY <1>2 DEF Show, Dismiss, States
  <2>2. card' \in [Actions -> Card]
    BY <2>1, SettleTypes DEF CardsTypeOK, TypeOK
  <2>3. UNCHANGED <<asked, dropped>>
    BY <1>2 DEF Show, Dismiss
  <2>4. QED
    BY <2>2, <2>3 DEF CardsTypeOK, SentInv
<1>3. ASSUME NEW r \in Requests, Accept(r) \/ Refuse(r)
      PROVE  CardsTypeOK' /\ SentInv'
  <2>1. PICK state \in {"accepted", "refused"} :
          asked' = [asked EXCEPT ![r].server = state]
    BY <1>3 DEF Accept, Refuse
  <2>2. asked[r].server = "sent"
    BY <1>3 DEF Accept, Refuse
  <2> DEFINE q == [asked[r] EXCEPT !.server = state]
  <2>3. q \in Asked /\ q.action = asked[r].action /\ q.kind = asked[r].kind
    BY DEF CardsTypeOK, Asked
  <2>4. asked' = [asked EXCEPT ![r] = q]
    BY <2>1
  <2>5. asked' \in [Requests -> Asked] /\ SentInv'
    BY <2>2, <2>3, <2>4 DEF CardsTypeOK, SentInv
  <2>6. UNCHANGED <<card, dropped>>
    BY <1>3 DEF Accept, Refuse
  <2>7. QED
    BY <2>5, <2>6 DEF CardsTypeOK
<1>4. ASSUME NEW r \in Requests, Answer(r) \/ Drop(r)
      PROVE  CardsTypeOK' /\ SentInv'
  BY <1>4, AnswerTypes
<1>5. CASE ServerStep \/ UNCHANGED tabVars
  BY <1>5 DEF ServerStep, cardVars, tabVars, CardsTypeOK, SentInv
<1>6. QED
  BY <1>1, <1>2, <1>3, <1>4, <1>5 DEF CardsNext, ClientStep

\* Every step of the tab is a step of the queue or leaves the queue alone.
LEMMA StepMaps == SentInv /\ [CardsNext]_tabVars => [Next]_vars
<1> SUFFICES ASSUME SentInv, [CardsNext]_tabVars PROVE [Next]_vars
  OBVIOUS
<1>1. ASSUME NEW r \in Requests, Accept(r) PROVE Next
  <2>1. asked[r].action \in Actions /\ asked[r].kind \in Kind
    BY <1>1 DEF Accept, SentInv
  <2>2. Receive(r)
    BY <1>1, <2>1 DEF Accept, Kind, Receive, Workers
  <2>3. QED
    BY <2>2 DEF Next
<1>2. CASE ServerStep
  BY <1>2 DEF ServerStep, Next
<1>3. ASSUME NEW r \in Requests, Press(r) \/ Refuse(r) \/ Answer(r) \/ Drop(r)
      PROVE UNCHANGED vars
  BY <1>3 DEF Press, Refuse, Answer, Drop
<1>4. ASSUME NEW a \in Actions, Show(a) \/ Dismiss(a) PROVE UNCHANGED vars
  BY <1>4 DEF Show, Dismiss
<1>5. QED
  BY <1>1, <1>2, <1>3, <1>4 DEF CardsNext, ClientStep, tabVars

\* The tab and the queue together implement the queue's specification.
THEOREM CardsImplementQueue == CardsSpec => DrivesTheQueue
<1>1. IInv /\ CardsTypeOK /\ SentInv /\ [CardsNext]_tabVars
        => IInv' /\ CardsTypeOK' /\ SentInv'
  <2>1. IInv => TypeOK
    BY DEF IInv
  <2>2. QED
    BY <2>1, StepMaps, StepPreserves, SentPreserved
<1>2. CardsInit => Init /\ IInv /\ CardsTypeOK /\ SentInv
  BY NothingSent, InitEstablishes DEF CardsInit
<1>3. QED
  BY <1>1, <1>2, StepMaps, PTL DEF CardsSpec, DrivesTheQueue, Spec

\* The cards and the requests keep their types.
THEOREM CardsTypeCorrect == CardsSpec => []CardsTypeOK
<1>1. CardsSpec => []TypeOK
  BY CardsImplementQueue, TypeCorrect, PTL DEF DrivesTheQueue
<1>2. QED
  BY <1>1, NothingSent, SentPreserved, PTL DEF CardsSpec

\* What the queue promises about claims holds whatever is pressed.
THEOREM ClaimsAreTrueInATab == CardsSpec => []NoFalseClaim
BY CardsImplementQueue, ClaimsAreTrue, PTL DEF DrivesTheQueue

\* An auto-pass action takes effect at most once, whatever is pressed.
THEOREM AutoAtMostOnceInATab == CardsSpec => []AutoRunsOnce
BY CardsImplementQueue, AutoAtMostOnce, PTL DEF DrivesTheQueue

-----------------------------------------------------------------------------
(* One request at a time *)

Asks(r, a) == asked[r].action = a /\ Pending(r)

\* What a request is in the queue, as seen from its press.
Carried(r) ==
    /\ asked[r].server = "new" => ~asked[r].answered
    /\ asked[r].server \in {"new", "sent", "refused"} => pc[r] = "idle"
    /\ asked[r].server = "accepted" =>
        /\ pc[r] # "idle"
        /\ job[r].kind = asked[r].kind /\ job[r].target = asked[r].action
    /\ asked[r].server # "new" => card[asked[r].action].state # "none"
    /\ asked[r].answered =>
        \/ asked[r].action \in dropped
        \/ asked[r].server = "refused"
        \/ asked[r].server = "accepted" /\ pc[r] \in {"done", "cancelled"}
    /\ job[r].kind = "discard" => pc[r] = "done"

\* A card appears when its enqueue is over, and until a response is lost its
\* busy flag stands for one request.
Exclusive(a) ==
    /\ card[a].state # "none" => pc[a] = "done"
    /\ a \notin dropped =>
        /\ \A r, q \in Requests : Asks(r, a) /\ Asks(q, a) => r = q
        /\ card[a].busy <=> \E r \in Requests : Asks(r, a)
        /\ card[a].state = "approval" /\ ~card[a].busy =>
                row[a].status = "pending_approval"

\* No coroutine on the action died and no response was lost.
Clean(a) ==
    /\ a \notin dropped
    /\ \A w \in Workers : job[w].target = a => pc[w] # "cancelled"

\* While an effect is missing it is still to come, once it happened the row
\* offers it no more, but for the request that is about to say so.
Once(a) ==
    Clean(a) =>
        /\ applied[a] <= 1 /\ reverted[a] <= 1
        /\ \A r \in Requests : job[r].target = a =>
            /\ pc[r] = "handler" => applied[a] = 0
            /\ pc[r] = "compensate" => reverted[a] = 0
        /\ row[a].status = "pending_approval" /\ applied[a] > 0 =>
            \E r \in Requests : job[r].target = a /\ pc[r] \in {"record", "fail"}
        /\ row[a].status = "auto_committed" /\ reverted[a] > 0 =>
            \E r \in Requests :
                job[r].target = a /\ pc[r] \in {"closeUndo", "closeOriginal"}

TabInv ==
    /\ \A r \in Requests : Carried(r)
    /\ \A a \in Actions : Exclusive(a) /\ Once(a)

\* An empty tab shows nothing it should not.
LEMMA TabStarts == CardsInit => TabInv
<1> SUFFICES ASSUME CardsInit PROVE TabInv
  OBVIOUS
<1> USE ActionQueueAssumption DEF CardsInit, Init, Workers
<1>1. ASSUME NEW r \in Requests PROVE Carried(r)
  BY DEF Carried
<1>2. ASSUME NEW a \in Actions PROVE Exclusive(a)
  BY DEF Exclusive, Asks, Pending
<1>3. ASSUME NEW a \in Actions PROVE Once(a)
  BY DEF Once, NoRow
<1>4. QED
  BY <1>1, <1>2, <1>3 DEF TabInv

\* A request at work on an action is the one its card waits for.
LEMMA Lone ==
    ASSUME CardsTypeOK, TabInv, NEW a \in Actions, a \notin dropped,
           NEW r \in Requests, pc[r] \in Open, job[r].target = a
    PROVE  /\ Asks(r, a) /\ asked[r].server = "accepted"
           /\ card[a].busy /\ card[a].state # "none" /\ pc[a] = "done"
           /\ \A q \in Requests : Asks(q, a) => q = r
<1>1. Carried(r) /\ Exclusive(a)
  BY DEF TabInv
<1>2. asked[r].server = "accepted" /\ asked[r].action = a
  <2>1. pc[r] # "idle"
    BY DEF Open, HandlerPCs, UndoPCs
  <2>2. asked[r].server \in {"new", "sent", "refused", "accepted"}
    BY DEF CardsTypeOK, Asked
  <2>3. QED
    BY <1>1, <2>1, <2>2 DEF Carried
<1>3. Asks(r, a)
  BY <1>1, <1>2 DEF Carried, Asks, Pending, Open, HandlerPCs, UndoPCs
<1>4. QED
  BY <1>1, <1>2, <1>3 DEF Exclusive, Carried

\* A step of a coroutine concerns its action only.
LEMMA ContinueFrame ==
    ASSUME IInv, NEW w \in Workers, Continue(w)
    PROVE  /\ pc[w] \in Open /\ pc'[w] \in Open \cup {"done"}
           /\ \A v \in Workers : v # w => pc'[v] = pc[v]
           /\ job' = job
           /\ \A a \in Actions : a # job[w].target =>
                /\ row'[a] = row[a] /\ applied'[a] = applied[a]
                /\ reverted'[a] = reverted[a]
<1> USE ActionQueueAssumption
    DEF IInv, TypeOK, UndoInv, PCs, Open, HandlerPCs, UndoPCs, Goto, Workers
<1>1. CASE HandlerApplies(w)
  BY <1>1 DEF HandlerApplies
<1>2. CASE HandlerRaises(w)
  BY <1>2 DEF HandlerRaises
<1>3. CASE HandlerAppliesThenRaises(w)
  BY <1>3 DEF HandlerAppliesThenRaises
<1>4. CASE RecordSuccess(w)
  BY <1>4 DEF RecordSuccess, SetCommitted
<1>5. CASE RecordRaises(w)
  BY <1>5 DEF RecordRaises
<1>6. CASE RecordFailure(w)
  BY <1>6 DEF RecordFailure, SetStatus
<1>7. CASE CompensatorApplies(w)
  BY <1>7 DEF CompensatorApplies
<1>8. CASE CompensatorRaises(w)
  BY <1>8 DEF CompensatorRaises
<1>9. CASE FailUndo(w)
  BY <1>9 DEF FailUndo, SetStatus
<1>10. CASE CloseUndo(w)
  BY <1>10 DEF CloseUndo, SetCommitted
<1>11. CASE CloseOriginal(w)
  BY <1>11 DEF CloseOriginal, SetStatus
<1>12. QED
  BY <1>1, <1>2, <1>3, <1>4, <1>5, <1>6, <1>7, <1>8, <1>9, <1>10, <1>11
     DEF Continue

\* The coroutine of the stream works on an action nobody has seen yet.
LEMMA StreamKeepsOnce ==
    ASSUME IInv, IInv', CardsTypeOK, SentInv, TabInv,
           NEW a \in Actions, Continue(a)
    PROVE  Once(a)'
<1>1. pc[a] \in Open /\ job' = job /\ \A v \in Workers : v # a => pc'[v] = pc[v]
  BY ContinueFrame DEF Workers
<1>2. pc[a] \in HandlerPCs /\ ~row[a].approval /\ ~row'[a].approval
  <2>1. /\ pc[a] \in HandlerPCs /\ job[a].target = a /\ ~row[a].approval
        /\ row[a] \in Row /\ a \in Workers
    BY <1>1, ActionQueueAssumption
       DEF IInv, TypeOK, HandlerInv, UndoInv, Workers, Open, HandlerPCs, UndoPCs
  <2>2. row'[a].approval = row[a].approval
    BY <2>1 DEF Continue, HandlerApplies, HandlerRaises, HandlerAppliesThenRaises,
          RecordSuccess, RecordRaises, RecordFailure, CompensatorApplies,
          CompensatorRaises, FailUndo, CloseUndo, CloseOriginal, Goto, HandlerPCs,
          SetStatus, SetCommitted, Row, IInv, TypeOK
  <2>3. QED
    BY <2>1, <2>2
<1>3. applied'[a] <= 1 /\ row'[a].status # "pending_approval"
  BY <1>2 DEF IInv, ActionInv
<1>4. reverted'[a] = 0
  <2>1. reverted[a] = 0
    BY <1>2 DEF IInv, ActionInv, TypeOK, HandlerPCs
  <2>2. reverted' = reverted
    BY <1>2 DEF Continue, HandlerApplies, HandlerRaises, HandlerAppliesThenRaises,
          RecordSuccess, RecordRaises, RecordFailure, CompensatorApplies,
          CompensatorRaises, FailUndo, CloseUndo, CloseOriginal, Goto, HandlerPCs
  <2>3. QED
    BY <2>1, <2>2
<1>5. \A r \in Requests : job[r].target = a => asked[r].server # "accepted"
  <2>1. pc[a] # "done" /\ card[a].state = "none"
    BY <1>2 DEF TabInv, Exclusive, HandlerPCs
  <2>2. QED
    BY <2>1 DEF TabInv, Carried
<1>6. \A r \in Requests : job[r].target = a => pc'[r] = "idle"
  <2>1. \A r \in Requests : asked[r].server \in {"new", "sent", "refused", "accepted"}
    BY DEF CardsTypeOK, Asked
  <2>2. \A r \in Requests : r # a /\ r \in Workers
    BY ActionQueueAssumption DEF Workers
  <2>3. QED
    BY <1>1, <1>5, <2>1, <2>2 DEF TabInv, Carried
<1>7. QED
  BY <1>1, <1>3, <1>4, <1>6 DEF Once

\* A request at work: its own effects, and what its end does to the row.
LEMMA RequestKeepsOnce ==
    ASSUME IInv, CardsTypeOK, SentInv, TabInv,
           NEW r \in Requests, NEW a \in Actions, job[r].target = a, Continue(r),
           a \notin dropped, dropped' = dropped
    PROVE  Once(a)'
<1>1. /\ pc[r] \in Open /\ job' = job
      /\ \A v \in Workers : v # r => pc'[v] = pc[v]
      /\ pc'[r] \in Open \cup {"done"}
  BY ContinueFrame DEF Workers
<1>2. \A q \in Requests : job[q].target = a /\ q # r => pc'[q] \notin Open
  BY <1>1, Lone DEF Workers
<1>3. Clean(a)' => Clean(a)
  BY <1>1 DEF Clean, Open, HandlerPCs, UndoPCs
<1> SUFFICES ASSUME Clean(a)' PROVE Once(a)'
  BY DEF Once
<1>4. /\ applied[a] \in Nat /\ reverted[a] \in Nat
      /\ applied[a] <= 1 /\ reverted[a] <= 1
      /\ pc[r] = "handler" => applied[a] = 0
      /\ pc[r] = "compensate" => reverted[a] = 0
      /\ row[a].status = "pending_approval" /\ applied[a] > 0 =>
            pc[r] \in {"record", "fail"}
      /\ row[a].status = "auto_committed" /\ reverted[a] > 0 =>
            pc[r] \in {"closeUndo", "closeOriginal"}
  <2>1. \A q \in Requests : job[q].target = a /\ pc[q] \in Open => q = r
    BY <1>1, Lone
  <2>2. Once(a) /\ Clean(a)
    BY <1>3 DEF TabInv
  <2>3. applied[a] \in Nat /\ reverted[a] \in Nat
    BY DEF IInv, TypeOK
  <2>4. QED
    BY <2>1, <2>2, <2>3 DEF Once, Open, HandlerPCs, UndoPCs
<1>5. /\ pc[r] \in HandlerPCs => job[r].kind = "approve"
      /\ row \in [Workers -> Row] /\ a # r /\ a \in Workers /\ r \in Workers
      /\ applied \in [Actions -> Nat] /\ reverted \in [Actions -> Nat]
      /\ pc \in [Workers -> PCs]
  BY ActionQueueAssumption DEF IInv, HandlerInv, Workers, TypeOK
<1> DEFINE Effects ==
        /\ applied'[a] <= 1 /\ reverted'[a] <= 1
        /\ pc'[r] = "handler" => applied'[a] = 0
        /\ pc'[r] = "compensate" => reverted'[a] = 0
        /\ row'[a].status = "pending_approval" /\ applied'[a] > 0 =>
              pc'[r] \in {"record", "fail"}
        /\ row'[a].status = "auto_committed" /\ reverted'[a] > 0 =>
              pc'[r] \in {"closeUndo", "closeOriginal"}
<1>6. Effects
  <2> USE <1>4, <1>5 DEF Goto, HandlerPCs, Row
  <2>1. CASE HandlerApplies(r)
    BY <2>1 DEF HandlerApplies
  <2>2. CASE HandlerRaises(r)
    BY <2>2 DEF HandlerRaises
  <2>3. CASE HandlerAppliesThenRaises(r)
    BY <2>3 DEF HandlerAppliesThenRaises
  <2>4. CASE RecordSuccess(r)
    BY <2>4 DEF RecordSuccess, SetCommitted
  <2>5. CASE RecordRaises(r)
    BY <2>5 DEF RecordRaises
  <2>6. CASE RecordFailure(r)
    BY <2>6 DEF RecordFailure, SetStatus
  <2>7. CASE CompensatorApplies(r)
    BY <2>7 DEF CompensatorApplies
  <2>8. CASE CompensatorRaises(r)
    BY <2>8 DEF CompensatorRaises
  <2>9. CASE FailUndo(r)
    BY <2>9 DEF FailUndo, SetStatus
  <2>10. CASE CloseUndo(r)
    BY <2>10 DEF CloseUndo, SetCommitted
  <2>11. CASE CloseOriginal(r)
    BY <2>11 DEF CloseOriginal, SetStatus
  <2>12. QED
    BY <2>1, <2>2, <2>3, <2>4, <2>5, <2>6, <2>7, <2>8, <2>9, <2>10, <2>11
       DEF Continue
<1>7. QED
  BY <1>1, <1>2, <1>6 DEF Once, Open, HandlerPCs, UndoPCs

\* What happens to other actions' coroutines does not touch this one.
LEMMA OthersKeepOnce ==
    ASSUME NEW a \in Actions, Once(a), dropped \subseteq dropped',
           NEW w \in Workers, pc[w] # "cancelled",
           w \in Requests /\ pc[w] \in Open \cup {"done"} => job[w].target # a,
           \A v \in Workers : v # w => pc'[v] = pc[v] /\ job'[v] = job[v],
           w \in Requests => job'[w].target # a \/ pc'[w] \notin {"handler", "compensate"},
           row'[a].status = row[a].status,
           applied'[a] = applied[a], reverted'[a] = reverted[a]
    PROVE  Once(a)'
  BY DEF Once, Clean, Open, HandlerPCs, UndoPCs, Workers

\* The steps of the queue that no press causes.
LEMMA QueueKeepsTab ==
    ASSUME IInv, IInv', CardsTypeOK, SentInv, TabInv, ServerStep
    PROVE  TabInv'
<1>1. UNCHANGED <<card, asked, dropped>>
  BY DEF ServerStep, cardVars
<1>2. ASSUME NEW b \in Actions, Enqueue(b) PROVE TabInv'
  <2>1. /\ pc[b] = "idle" /\ pc'[b] # "idle" /\ pc'[b] # "cancelled"
        /\ \A v \in Workers : v # b => pc'[v] = pc[v] /\ job'[v] = job[v]
        /\ \A a \in Actions : a # b => row'[a] = row[a]
        /\ applied' = applied /\ reverted' = reverted
    BY <1>2 DEF Enqueue, EnqueueUnknown, EnqueuePending, EnqueueAuto, Begin, Insert,
       IInv, TypeOK, Workers
  <2>2. card[b].state = "none"
    BY <2>1 DEF TabInv, Exclusive
  <2>3. \A r \in Requests : r # b /\ r \in Workers
    BY ActionQueueAssumption DEF Workers
  <2>4. ASSUME NEW r \in Requests PROVE Carried(r)'
    BY <1>1, <2>1, <2>3 DEF TabInv, Carried
  <2>5. ASSUME NEW a \in Actions PROVE Exclusive(a)'
    BY <1>1, <2>1, <2>2 DEF TabInv, Exclusive, Asks, Pending, Workers
  <2>6. ASSUME NEW a \in Actions PROVE Once(a)'
    <3>1. CASE a = b
      <4>1. applied'[a] = 0 /\ reverted'[a] = 0
        BY <2>1, <3>1 DEF IInv, ActionInv
      <4>2. QED
        BY <4>1 DEF Once
    <3>2. CASE a # b
      BY <1>1, <2>1, <2>3, <3>2, OthersKeepOnce DEF TabInv, Workers
    <3>3. QED
      BY <3>1, <3>2
  <2>7. QED
    BY <2>4, <2>5, <2>6 DEF TabInv
<1>3. ASSUME NEW w \in Workers, Continue(w) PROVE TabInv'
  <2>1. /\ pc[w] \in Open /\ pc'[w] \in Open \cup {"done"}
        /\ \A v \in Workers : v # w => pc'[v] = pc[v]
        /\ job' = job
        /\ \A a \in Actions : a # job[w].target =>
             /\ row'[a] = row[a] /\ applied'[a] = applied[a]
             /\ reverted'[a] = reverted[a]
    BY <1>3, ContinueFrame
  <2> USE DEF Open, HandlerPCs, UndoPCs
  <2>2. job[w].target \in Actions /\ (w \in Actions => job[w].target = w)
    BY <2>1, ActionQueueAssumption DEF IInv, HandlerInv, UndoInv, Workers
  <2>3. ASSUME NEW r \in Requests PROVE Carried(r)'
    BY <1>1, <2>1 DEF TabInv, Carried, Workers
  <2>4. ASSUME NEW a \in Actions PROVE Exclusive(a)'
    <3>1. CASE job[w].target # a
      BY <1>1, <2>1, <2>2, <3>1 DEF TabInv, Exclusive, Asks, Pending, Workers
    <3>2. CASE job[w].target = a /\ w \in Actions
      <4>1. card[a].state = "none"
        BY <2>1, <2>2, <3>2 DEF TabInv, Exclusive
      <4>2. QED
        BY <1>1, <2>1, <2>2, <3>2, <4>1 DEF TabInv, Exclusive, Asks, Pending
    <3>3. CASE job[w].target = a /\ w \in Requests
      <4>1. a \in Workers /\ a # w
        BY <3>3, ActionQueueAssumption DEF Workers
      <4>2. a \notin dropped => card[a].busy
        BY <2>1, <3>3, Lone
      <4>3. QED
        BY <1>1, <2>1, <4>1, <4>2 DEF TabInv, Exclusive, Asks, Pending
    <3>4. QED
      BY <3>1, <3>2, <3>3 DEF Workers
  <2>5. ASSUME NEW a \in Actions PROVE Once(a)'
    <3>1. CASE job[w].target # a
      BY <1>1, <2>1, <3>1, OthersKeepOnce DEF TabInv
    <3>2. CASE job[w].target = a /\ w \in Actions
      BY <1>3, <2>2, <3>2, StreamKeepsOnce
    <3>3. CASE job[w].target = a /\ w \in Requests
      <4>1. CASE a \in dropped
        BY <1>1, <4>1 DEF Once, Clean
      <4>2. QED
        BY <1>1, <1>3, <3>3, <4>1, RequestKeepsOnce
    <3>4. QED
      BY <3>1, <3>2, <3>3 DEF Workers
  <2>6. QED
    BY <2>3, <2>4, <2>5 DEF TabInv
<1>4. ASSUME NEW w \in Workers, Cancel(w) PROVE TabInv'
  <2>1. /\ pc[w] \in Open /\ pc'[w] = "cancelled"
        /\ \A v \in Workers : v # w => pc'[v] = pc[v]
        /\ UNCHANGED <<row, job, applied, reverted>>
    BY <1>4 DEF Cancel, IInv, TypeOK
  <2> USE DEF Open, HandlerPCs, UndoPCs
  <2>2. ASSUME NEW r \in Requests PROVE Carried(r)'
    BY <1>1, <2>1 DEF TabInv, Carried, Workers
  <2>3. ASSUME NEW a \in Actions PROVE Exclusive(a)'
    BY <1>1, <2>1 DEF TabInv, Exclusive, Asks, Pending, Workers
  <2>4. ASSUME NEW a \in Actions PROVE Once(a)'
    <3>1. CASE job[w].target = a
      BY <2>1, <3>1 DEF Once, Clean
    <3>2. CASE job[w].target # a
      BY <1>1, <2>1, <3>2, OthersKeepOnce DEF TabInv
    <3>3. QED
      BY <3>1, <3>2
  <2>5. QED
    BY <2>2, <2>3, <2>4 DEF TabInv
<1>5. CASE Tick
  BY <1>1, <1>5 DEF Tick, TabInv, Carried, Exclusive, Asks, Pending, Once, Clean
<1>6. QED
  BY <1>2, <1>3, <1>4, <1>5 DEF ServerStep

-----------------------------------------------------------------------------
(* The steps of the tab *)

\* An answer settles its own card and leaves the others alone.
LEMMA SettleFrame ==
    ASSUME card \in [Actions -> Card], NEW a \in Actions, NEW state, Settle(a, state)
    PROVE  /\ card'[a].state = state /\ card'[a].busy = FALSE
           /\ \A b \in Actions : b # a => card'[b] = card[b]
  BY DEF Settle, Card

\* What only the cards and the answers change leaves the effects alone.
LEMMA TabKeepsOnce ==
    ASSUME NEW a \in Actions, Once(a), UNCHANGED vars, dropped \subseteq dropped'
    PROVE  Once(a)'
  BY DEF Once, Clean, vars

\* A card that is shown or dismissed belongs to a chat stream that has ended.
LEMMA ShowKeepsTab ==
    ASSUME CardsTypeOK, SentInv, TabInv, NEW b \in Actions, Show(b) \/ Dismiss(b)
    PROVE  TabInv'
<1>1. UNCHANGED <<asked, dropped>> /\ UNCHANGED vars
  BY DEF Show, Dismiss
<1>2. /\ card'[b].busy = FALSE /\ pc[b] = "done"
      /\ \A a \in Actions : a # b => card'[a] = card[a]
      /\ card'[b].state # "none"
      /\ card'[b].state = "approval" => row[b].status = "pending_approval"
  <2>1. CASE Show(b)
    <3>1. PICK state : Settle(b, state) /\ state # "none"
                       /\ (state = "approval" => row[b].status = "pending_approval")
      BY <2>1 DEF Show
    <3>2. QED
      BY <2>1, <3>1, SettleFrame DEF Show, CardsTypeOK
  <2>2. CASE Dismiss(b)
    <3>1. Settle(b, "undone") /\ card[b].state # "none"
      BY <2>2 DEF Dismiss
    <3>2. pc[b] = "done" /\ card \in [Actions -> Card]
      BY <3>1 DEF TabInv, Exclusive, CardsTypeOK
    <3>3. QED
      BY <3>1, <3>2 DEF Settle, Card
  <2>3. QED
    BY <2>1, <2>2
<1>3. \/ \A r \in Requests : ~Asks(r, b)
      \/ b \in dropped
  <2>1. CASE Show(b)
    BY <2>1 DEF Show, TabInv, Carried, Asks, Pending
  <2>2. CASE Dismiss(b)
    BY <2>2 DEF Dismiss, TabInv, Exclusive
  <2>3. QED
    BY <2>1, <2>2
<1>4. ASSUME NEW r \in Requests PROVE Carried(r)'
  <2>1. asked[r].server # "new" => card'[asked[r].action].state # "none"
    <3>1. CASE asked[r].action = b
      BY <1>2, <3>1
    <3>2. CASE asked[r].action # b
      BY <1>2, <3>2 DEF SentInv, TabInv, Carried
    <3>3. QED
      BY <3>1, <3>2
  <2>2. QED
    BY <1>1, <2>1 DEF TabInv, Carried, vars
<1>5. ASSUME NEW a \in Actions PROVE Exclusive(a)'
  BY <1>1, <1>2, <1>3 DEF TabInv, Exclusive, Asks, Pending, vars
<1>6. ASSUME NEW a \in Actions PROVE Once(a)'
  BY <1>1, TabKeepsOnce DEF TabInv
<1>7. QED
  BY <1>4, <1>5, <1>6 DEF TabInv

\* A press asks of a card what its state offers, and one press at a time.
LEMMA PressKeepsTab ==
    ASSUME CardsTypeOK, SentInv, TabInv, NEW q \in Requests, Press(q)
    PROVE  TabInv'
<1>1. PICK b \in Actions, kind \in Kind :
          /\ Offered(kind, b) /\ ~card[b].busy
          /\ card' = [card EXCEPT ![b].busy = TRUE]
          /\ asked' = [asked EXCEPT ![q] = [kind |-> kind, action |-> b,
                                           server |-> "sent", answered |-> FALSE]]
  BY DEF Press
<1>2. /\ UNCHANGED vars /\ dropped' = dropped /\ asked[q].server = "new"
  BY DEF Press
<1>3. /\ card'[b].busy = TRUE
      /\ \A a \in Actions : card'[a].state = card[a].state
                            /\ (a # b => card'[a] = card[a])
  BY <1>1 DEF CardsTypeOK, Card
<1>4. card[b].state # "none"
  BY <1>1 DEF Offered, Kind
<1>5. /\ asked'[q] = [kind |-> kind, action |-> b, server |-> "sent", answered |-> FALSE]
      /\ \A r \in Requests : r # q => asked'[r] = asked[r]
  BY <1>1 DEF CardsTypeOK
<1>6. ASSUME NEW r \in Requests PROVE Carried(r)'
  <2>1. CASE r = q
    BY <1>2, <1>3, <1>4, <1>5, <2>1 DEF TabInv, Carried, vars
  <2>2. CASE r # q
    BY <1>2, <1>3, <1>5, <2>2 DEF TabInv, Carried, vars, SentInv
  <2>3. QED
    BY <2>1, <2>2
<1>7. /\ Pending(q)' /\ ~Pending(q)
      /\ \A r \in Requests : r # q => (Pending(r)' <=> Pending(r))
  BY <1>2, <1>5 DEF Pending
<1>8. ASSUME NEW a \in Actions PROVE Exclusive(a)'
  <2>1. CASE a = b
    BY <1>1, <1>2, <1>3, <1>5, <1>7, <2>1 DEF TabInv, Exclusive, Asks, vars
  <2>2. CASE a # b
    BY <1>1, <1>2, <1>3, <1>5, <1>7, <2>2 DEF TabInv, Exclusive, Asks, vars
  <2>3. QED
    BY <2>1, <2>2
<1>9. ASSUME NEW a \in Actions PROVE Once(a)'
  BY <1>2, TabKeepsOnce DEF TabInv
<1>10. QED
  BY <1>6, <1>8, <1>9 DEF TabInv

\* Accepting and refusing change what the request is, not whose it is.
LEMMA ServedFrame ==
    ASSUME CardsTypeOK, NEW q \in Requests, NEW server \in {"accepted", "refused"},
           asked[q].server = "sent",
           asked' = [asked EXCEPT ![q].server = server]
    PROVE  /\ \A r \in Requests : r # q => asked'[r] = asked[r]
           /\ asked'[q].server = server
           /\ \A r \in Requests : /\ asked'[r].action = asked[r].action
                                  /\ asked'[r].kind = asked[r].kind
                                  /\ asked'[r].answered = asked[r].answered
                                  /\ \A a \in Actions : Asks(r, a)' <=> Asks(r, a)
  BY DEF CardsTypeOK, Asked, Asks, Pending

\* A request the server never saw leaves the queue's rows alone.
LEMMA RefuseKeepsTab ==
    ASSUME CardsTypeOK, SentInv, TabInv, NEW q \in Requests, Refuse(q)
    PROVE  TabInv'
<1>1. /\ UNCHANGED vars /\ card' = card /\ dropped' = dropped
      /\ asked[q].server = "sent"
      /\ asked' = [asked EXCEPT ![q].server = "refused"]
  BY DEF Refuse
<1>2. /\ \A r \in Requests : r # q => asked'[r] = asked[r]
      /\ asked'[q].server = "refused"
      /\ \A r \in Requests : /\ asked'[r].action = asked[r].action
                             /\ asked'[r].answered = asked[r].answered
                             /\ \A a \in Actions : Asks(r, a)' <=> Asks(r, a)
  BY <1>1, ServedFrame
<1>3. ASSUME NEW r \in Requests PROVE Carried(r)'
  <2>1. CASE r = q
    BY <1>1, <1>2, <2>1 DEF TabInv, Carried, vars
  <2>2. CASE r # q
    BY <1>1, <1>2, <2>2 DEF TabInv, Carried, vars
  <2>3. QED
    BY <2>1, <2>2
<1>4. ASSUME NEW a \in Actions PROVE Exclusive(a)'
  BY <1>1, <1>2 DEF TabInv, Exclusive, vars
<1>5. ASSUME NEW a \in Actions PROVE Once(a)'
  BY <1>1, TabKeepsOnce DEF TabInv
<1>6. QED
  BY <1>3, <1>4, <1>5 DEF TabInv

\* What a request does to the queue when it is accepted.
LEMMA AcceptFrame ==
    ASSUME IInv, CardsTypeOK, SentInv, TabInv, NEW q \in Requests, Accept(q)
    PROVE  LET b == asked[q].action
           IN  /\ b \in Actions /\ asked[q].server = "sent"
               /\ asked' = [asked EXCEPT ![q].server = "accepted"]
               /\ UNCHANGED <<card, dropped, applied, reverted>>
               /\ pc[q] = "idle"
               /\ \A v \in Workers : v # q => pc'[v] = pc[v] /\ job'[v] = job[v]
               /\ job'[q].kind = asked[q].kind /\ job'[q].target = b
               /\ \A a \in Actions : a # b => row'[a] = row[a]
               /\ \/ /\ asked[q].kind = "approve" /\ pc'[q] = "handler"
                     /\ row' = row /\ row[b].status = "pending_approval"
                  \/ /\ asked[q].kind = "discard" /\ pc'[q] = "done"
                     /\ row'[b].status = "dismissed"
                  \/ /\ asked[q].kind = "undo" /\ pc'[q] = "compensate"
                     /\ row'[b] = row[b] /\ row[b].status = "auto_committed"
<1> DEFINE b == asked[q].action
<1>1. asked[q].server = "sent" /\ b \in Actions /\ asked[q].kind \in Kind
  BY DEF Accept, SentInv
<1>2. /\ pc \in [Workers -> PCs] /\ job \in [Workers -> Job] /\ row \in [Workers -> Row]
      /\ q \in Workers /\ b \in Workers
      /\ \A a \in Actions : a # q /\ a \in Workers
  BY <1>1, ActionQueueAssumption DEF IInv, TypeOK, Workers
<1>3. /\ asked' = [asked EXCEPT ![q].server = "accepted"]
      /\ UNCHANGED <<card, dropped>>
  BY DEF Accept
<1>4. CASE asked[q].kind = "approve" /\ Approve(q, b)
  BY <1>1, <1>2, <1>3, <1>4 DEF Approve, Begin
<1>5. CASE asked[q].kind = "discard" /\ Discard(q, b)
  BY <1>1, <1>2, <1>3, <1>5 DEF Discard, Begin, SetStatus, Row
<1>6. CASE asked[q].kind = "undo" /\ Undo(q, b)
  BY <1>1, <1>2, <1>3, <1>6 DEF Undo, Begin, Insert
<1>7. QED
  BY <1>1, <1>4, <1>5, <1>6 DEF Accept, Kind

\* An accepted request finds the row as the invariant of the queue says.
LEMMA AcceptKeepsTab ==
    ASSUME IInv, CardsTypeOK, SentInv, TabInv, NEW q \in Requests, Accept(q)
    PROVE  TabInv'
<1>0. PICK b \in Actions : b = asked[q].action
  BY DEF Accept, SentInv
<1>1. /\ b \in Actions /\ asked[q].server = "sent"
      /\ asked' = [asked EXCEPT ![q].server = "accepted"]
      /\ UNCHANGED <<card, dropped, applied, reverted>>
      /\ pc[q] = "idle"
      /\ \A v \in Workers : v # q => pc'[v] = pc[v] /\ job'[v] = job[v]
      /\ job'[q].kind = asked[q].kind /\ job'[q].target = b
      /\ \A a \in Actions : a # b => row'[a] = row[a]
  BY <1>0, AcceptFrame
<1>2. \/ /\ asked[q].kind = "approve" /\ pc'[q] = "handler"
         /\ row' = row /\ row[b].status = "pending_approval"
      \/ /\ asked[q].kind = "discard" /\ pc'[q] = "done"
         /\ row'[b].status = "dismissed"
      \/ /\ asked[q].kind = "undo" /\ pc'[q] = "compensate"
         /\ row'[b] = row[b] /\ row[b].status = "auto_committed"
  BY <1>0, AcceptFrame
<1>3. /\ \A r \in Requests : r # q => asked'[r] = asked[r]
      /\ asked'[q].server = "accepted"
      /\ \A r \in Requests : /\ asked'[r].action = asked[r].action
                             /\ asked'[r].kind = asked[r].kind
                             /\ asked'[r].answered = asked[r].answered
                             /\ \A a \in Actions : Asks(r, a)' <=> Asks(r, a)
  BY <1>1, ServedFrame
<1>4. /\ card[b].state # "none" /\ pc[b] = "done"
      /\ b \notin dropped => Asks(q, b) /\ card[b].busy
  <2>1. Carried(q) /\ asked[q].server = "sent" /\ pc[q] = "idle"
    BY <1>1 DEF TabInv
  <2>2. card[b].state # "none" /\ (b \notin dropped => Asks(q, b))
    BY <1>0, <2>1 DEF Carried, Asks, Pending
  <2>3. QED
    BY <1>1, <2>2 DEF TabInv, Exclusive
<1>5. \A a \in Actions : a \in Workers /\ a # q
  BY ActionQueueAssumption DEF Workers
<1>6. ASSUME NEW r \in Requests PROVE Carried(r)'
  <2>1. CASE r = q
    BY <1>0, <1>1, <1>2, <1>3, <1>4, <2>1 DEF TabInv, Carried
  <2>2. CASE r # q
    BY <1>1, <1>3, <2>2 DEF TabInv, Carried, Workers
  <2>3. QED
    BY <2>1, <2>2
<1>7. ASSUME NEW a \in Actions PROVE Exclusive(a)'
  <2>1. CASE a = b
    BY <1>1, <1>3, <1>4, <1>5, <2>1 DEF TabInv, Exclusive
  <2>2. CASE a # b
    BY <1>1, <1>3, <1>5, <2>2 DEF TabInv, Exclusive
  <2>3. QED
    BY <2>1, <2>2
<1>8. ASSUME NEW a \in Actions PROVE Once(a)'
  <2>1. CASE a # b
    BY <1>1, <2>1, OthersKeepOnce
       DEF TabInv, Workers, Open, HandlerPCs, UndoPCs
  <2>2. CASE a = b /\ a \in dropped
    BY <1>1, <2>2 DEF Once, Clean
  <2>3. CASE a = b /\ a \notin dropped
    <3>1. \A r \in Requests : r # q /\ job[r].target = b => pc[r] \notin Open
      BY <1>3, <1>4, <2>3, Lone DEF Exclusive, TabInv
    <3>2. \A r \in Requests : r # q => pc'[r] = pc[r] /\ job'[r] = job[r]
      BY <1>1 DEF Workers
    <3>3. Clean(b)' => Clean(b)
      <4>1. pc[q] # "cancelled" /\ \A v \in Workers : v # q => pc'[v] = pc[v] /\ job'[v] = job[v]
        BY <1>1
      <4>2. QED
        BY <1>1, <4>1 DEF Clean
    <3> SUFFICES ASSUME Clean(b)' PROVE Once(b)'
      BY <2>3 DEF Once
    <3>4. /\ Once(b) /\ Clean(b)
          /\ applied[b] \in Nat /\ reverted[b] \in Nat
      BY <2>3, <3>3 DEF TabInv, IInv, TypeOK
    <3>5. /\ applied[b] <= 1 /\ reverted[b] <= 1
          /\ row[b].status = "pending_approval" => applied[b] = 0
          /\ row[b].status = "auto_committed" => reverted[b] = 0
      <4>1. \A r \in Requests : job[r].target = b => pc[r] \notin Open
        BY <1>1, <3>1 DEF Open, HandlerPCs, UndoPCs
      <4>2. QED
        BY <3>4, <4>1 DEF Once, Open, HandlerPCs, UndoPCs
    <3>6. /\ row'[b].status = "pending_approval" => row[b].status = "pending_approval"
          /\ row'[b].status = "auto_committed" => row[b].status = "auto_committed"
          /\ pc'[q] = "handler" => row[b].status = "pending_approval"
          /\ pc'[q] = "compensate" => row[b].status = "auto_committed"
      BY <1>2
    <3>7. QED
      BY <1>1, <3>1, <3>2, <3>4, <3>5, <3>6 DEF Once, Open, HandlerPCs, UndoPCs
  <2>4. QED
    BY <2>1, <2>2, <2>3
<1>9. QED
  BY <1>6, <1>7, <1>8 DEF TabInv

\* A response, or its loss, ends the request and the busy time of its card.
LEMMA AnswerKeepsTab ==
    ASSUME CardsTypeOK, SentInv, TabInv, NEW q \in Requests, Answer(q) \/ Drop(q)
    PROVE  TabInv'
<1>0. PICK b \in Actions : b = asked[q].action
  BY DEF Answer, Drop, Pending, SentInv
<1>1. /\ Pending(q) /\ b \in Actions /\ asked[q].kind \in Kind
      /\ asked' = [asked EXCEPT ![q].answered = TRUE]
      /\ UNCHANGED vars /\ dropped \subseteq dropped'
      /\ dropped' \subseteq dropped \cup {b}
  BY <1>0 DEF Answer, Drop, Pending, SentInv
<1>2. /\ \A r \in Requests : r # q => asked'[r] = asked[r]
      /\ asked'[q] = [asked[q] EXCEPT !.answered = TRUE]
      /\ asked'[q].answered /\ asked'[q].server = asked[q].server
      /\ asked'[q].action = b /\ asked'[q].kind = asked[q].kind
      /\ \A a \in Actions : ~Asks(q, a)'
      /\ \A r \in Requests, a \in Actions : r # q => (Asks(r, a)' <=> Asks(r, a))
  BY <1>0, <1>1 DEF CardsTypeOK, Asked, Asks, Pending
<1>3. card[b].state # "none"
  BY <1>0, <1>1 DEF TabInv, Carried, Pending
<1>4. /\ card'[b].state # "none"
      /\ b \notin dropped' =>
            /\ ~card'[b].busy
            /\ card'[b].state # "approval"
            /\ \/ asked[q].server = "refused"
               \/ asked[q].server = "accepted" /\ pc[q] \in {"done", "cancelled"}
      /\ \A a \in Actions : a # b => card'[a] = card[a]
  <2>1. CASE Answer(q)
    <3>1. CASE /\ \/ asked[q].server = "refused"
                  \/ asked[q].server = "accepted" /\ pc[q] = "done"
               /\ Settle(b, OnOk(asked[q].kind))
      <4>1. OnOk(asked[q].kind) \in {"committed", "undone"}
        BY DEF OnOk
      <4>2. QED
        BY <1>1, <3>1, <4>1 DEF Settle, Card, CardsTypeOK
    <3>2. CASE /\ asked[q].server = "accepted" /\ pc[q] = "cancelled"
               /\ Settle(b, OnError(asked[q].kind, card[b].state))
      <4>1. asked[q].kind # "discard"
        BY <3>2 DEF TabInv, Carried
      <4>2. OnError(asked[q].kind, card[b].state) = "failed"
        BY <4>1 DEF OnError
      <4>3. QED
        BY <1>1, <3>2, <4>2, SettleFrame DEF CardsTypeOK
    <3>3. QED
      BY <1>0, <2>1, <3>1, <3>2 DEF Answer
  <2>2. CASE Drop(q)
    <3>1. b \in dropped'
      BY <1>0, <2>2 DEF Drop
    <3>2. CASE UNCHANGED card
      BY <1>3, <3>1, <3>2
    <3>3. CASE Settle(b, OnError(asked[q].kind, card[b].state))
      <4>1. OnError(asked[q].kind, card[b].state) # "none"
        BY <1>3 DEF OnError
      <4>2. QED
        BY <1>1, <3>1, <3>3, <4>1, SettleFrame DEF CardsTypeOK
    <3>4. QED
      BY <1>0, <2>2, <3>2, <3>3 DEF Drop
  <2>3. QED
    BY <2>1, <2>2
<1>5. ASSUME NEW r \in Requests PROVE Carried(r)'
  <2>1. \A a \in Actions : card[a].state # "none" => card'[a].state # "none"
    BY <1>4
  <2>2. CASE r = q
    <3>1. \/ b \in dropped'
          \/ asked[q].server = "refused"
          \/ asked[q].server = "accepted" /\ pc[q] \in {"done", "cancelled"}
      BY <1>4
    <3>2. Carried(q) /\ asked[q].server # "new"
      BY <1>0, <1>1 DEF TabInv, Pending
    <3>3. QED
      BY <1>0, <1>1, <1>2, <1>4, <2>2, <3>1, <3>2 DEF Carried, vars
  <2>3. CASE r # q
    <3>1. Carried(r) /\ (asked[r].server # "new" => asked[r].action \in Actions)
      BY DEF TabInv, SentInv
    <3>2. QED
      BY <1>1, <1>2, <2>1, <2>3, <3>1 DEF Carried, vars
  <2>4. QED
    BY <2>2, <2>3
<1>6. ASSUME NEW a \in Actions PROVE Exclusive(a)'
  <2>1. CASE a = b
    <3>1. Asks(q, b) /\ Exclusive(b)
      BY <1>0, <1>1 DEF TabInv, Asks
    <3>2. b \notin dropped' => \A r \in Requests : ~Asks(r, b)'
      BY <1>1, <1>2, <3>1 DEF Exclusive
    <3>3. (card'[b].state # "none" => pc'[b] = "done")
      BY <1>1, <1>3, <3>1 DEF Exclusive, vars
    <3>4. QED
      BY <1>4, <2>1, <3>2, <3>3 DEF Exclusive
  <2>2. CASE a # b
    <3>1. ~Asks(q, a) /\ Exclusive(a) /\ card'[a] = card[a]
          /\ (a \in dropped' <=> a \in dropped)
      BY <1>0, <1>1, <1>4, <2>2 DEF TabInv, Asks
    <3>2. \A r \in Requests : Asks(r, a)' <=> Asks(r, a)
      BY <1>2, <3>1
    <3>3. QED
      BY <1>1, <3>1, <3>2 DEF Exclusive, vars
  <2>3. QED
    BY <2>1, <2>2
<1>7. ASSUME NEW a \in Actions PROVE Once(a)'
  BY <1>1, TabKeepsOnce DEF TabInv
<1>8. QED
  BY <1>5, <1>6, <1>7 DEF TabInv

-----------------------------------------------------------------------------
(* What one tab guarantees *)

\* Every step keeps the tab's invariant, given the queue's before and after.
LEMMA TabPreserved ==
    IInv /\ IInv' /\ CardsTypeOK /\ SentInv /\ TabInv /\ [CardsNext]_tabVars => TabInv'
<1> SUFFICES ASSUME IInv, IInv', CardsTypeOK, SentInv, TabInv, [CardsNext]_tabVars
             PROVE  TabInv'
  OBVIOUS
<1>1. CASE ServerStep
  BY <1>1, QueueKeepsTab
<1>2. ASSUME NEW a \in Actions, Show(a) \/ Dismiss(a) PROVE TabInv'
  BY <1>2, ShowKeepsTab
<1>3. ASSUME NEW r \in Requests, ClientStep(r) PROVE TabInv'
  BY <1>3, PressKeepsTab, AcceptKeepsTab, RefuseKeepsTab, AnswerKeepsTab DEF ClientStep
<1>4. CASE UNCHANGED tabVars
  BY <1>4 DEF tabVars, cardVars, vars, TabInv, Carried, Exclusive, Once, Clean,
              Asks, Pending
<1>5. QED
  BY <1>1, <1>2, <1>3, <1>4 DEF CardsNext

\* The cards keep their type and the tab its invariant.
LEMMA TabInvariance == CardsSpec => [](CardsTypeOK /\ TabInv)
<1>1. CardsInit => IInv /\ CardsTypeOK /\ SentInv /\ TabInv
  BY NothingSent, InitEstablishes, TabStarts DEF CardsInit
<1>2. IInv /\ CardsTypeOK /\ SentInv /\ TabInv /\ [CardsNext]_tabVars
        => IInv' /\ CardsTypeOK' /\ SentInv' /\ TabInv'
  <2>1. IInv => TypeOK
    BY DEF IInv
  <2>2. QED
    BY <2>1, StepMaps, StepPreserves, SentPreserved, TabPreserved
<1>3. QED
  BY <1>1, <1>2, PTL DEF CardsSpec

\* One tab that loses no response and whose requests run to their end makes an
\* action take effect, and be undone, at most once.
THEOREM OneTabActsOnce == CardsSpec => []OnceFromOneTab
<1>1. CardsTypeOK /\ TabInv => OnceFromOneTab
  BY DEF TabInv, Once, Clean, OnceFromOneTab
<1>2. QED
  BY <1>1, TabInvariance, PTL

\* A busy card has one request out and an idle one none, unless a response of
\* it was lost.
THEOREM OneRequestPerCard == CardsSpec => []BusyIsOneRequest
<1>1. CardsTypeOK /\ TabInv => BusyIsOneRequest
  <2> SUFFICES ASSUME TabInv, NEW a \in Actions, a \notin dropped
               PROVE  Cardinality({r \in Requests : asked[r].action = a /\ Pending(r)})
                        = IF card[a].busy THEN 1 ELSE 0
    BY DEF BusyIsOneRequest
  <2> DEFINE Out == {r \in Requests : asked[r].action = a /\ Pending(r)}
  <2>1. /\ \A r, q \in Out : r = q
        /\ card[a].busy <=> Out # {}
    BY DEF TabInv, Exclusive, Asks
  <2>2. CASE card[a].busy
    <3>1. PICK r \in Out : Out = {r}
      BY <2>1, <2>2
    <3>2. QED
      BY <2>2, <3>1, FS_Singleton
  <2>3. CASE ~card[a].busy
    BY <2>1, <2>3, FS_EmptySet
  <2>4. QED
    BY <2>2, <2>3
<1>2. QED
  BY <1>1, TabInvariance, PTL

\* A card that offers to approve shows a row that can be approved.
THEOREM OfferedIsPending == CardsSpec => []ApprovalCardIsPending
<1>1. CardsTypeOK /\ TabInv => ApprovalCardIsPending
  BY DEF TabInv, Exclusive, ApprovalCardIsPending
<1>2. QED
  BY <1>1, TabInvariance, PTL

-----------------------------------------------------------------------------
(* TaskTools, for any tasks, projects and statuses.  The tools drive the   *)
(* queue too, so its invariant holds here, and with it three properties of *)
(* what the handlers and their compensators do to rex.tasks.               *)

(* Data *)

\* A finite set of integers that is not empty has a largest element: its sets
\* of larger elements have a smallest one under inclusion.
LEMMA Largest ==
  ASSUME NEW T \in SUBSET Int, T # {}, IsFiniteSet(T)
  PROVE  \E m \in T : \A n \in T : n <= m
  <1> DEFINE Above(m) == {x \in T : x > m}
             Uppers == {Above(m) : m \in T}
  <1>1. Uppers \subseteq FiniteSubsetsOf(T) /\ Uppers # {}
    <2>1. FiniteSubsetsOf(T) = SUBSET T
      BY FS_FiniteSubsetsOfFinite
    <2>2. \A U \in Uppers : U \in SUBSET T
      OBVIOUS
    <2>3. PICK m \in T : TRUE
      OBVIOUS
    <2>4. Above(m) \in Uppers
      OBVIOUS
    <2> HIDE DEF Uppers
    <2>5. QED
      BY <2>1, <2>2, <2>4
  <1>2. PICK U \in Uppers :
             \A V \in Uppers : <<V, U>> \notin StrictSubsetOrdering(T)
    <2>1. IsWellFoundedOn(StrictSubsetOrdering(T), FiniteSubsetsOf(T))
      BY FS_StrictSubsetOrderingWellFounded
    <2> HIDE DEF Uppers
    <2>2. QED
      BY <1>1, <2>1, WFMin
  <1>3. PICK m \in T : U = Above(m)
    BY <1>2
  <1>4. ASSUME NEW n \in T, n > m
        PROVE  FALSE
    <2>1. n \in Int /\ m \in Int /\ \A x \in T : x \in Int
      OBVIOUS
    <2>2. (\A x \in T : x > n => x > m) /\ ~(n > n)
      BY <2>1, <1>4
    <2>3. /\ Above(n) \subseteq Above(m) /\ n \in Above(m) /\ n \notin Above(n)
          /\ Above(n) \in SUBSET T /\ Above(m) \in SUBSET T
          /\ Above(n) \in Uppers
      BY <2>2, <1>4
    <2> HIDE DEF Above, Uppers
    <2>4. <<Above(n), Above(m)>> \in StrictSubsetOrdering(T)
      BY <2>3 DEF StrictSubsetOrdering
    <2>5. QED
      BY <2>3, <2>4, <1>2, <1>3
  <1>5. \A n \in T : n \in Int /\ m \in Int
    OBVIOUS
  <1>6. QED
    BY <1>4, <1>5

\* The number a new task gets is above those of its project's tasks.
LEMMA NextNumberIsNext ==
  ASSUME tasks \in [Tasks -> TaskRow], NEW p
  PROVE  /\ NextNumber(p) \in Nat
         /\ \A t \in Tasks : tasks[t].project = p => tasks[t].number < NextNumber(p)
  <1> DEFINE Of == {u \in Tasks : tasks[u].project = p}
             Numbers == {tasks[t].number : t \in Of}
             f == [t \in Of |-> tasks[t].number]
  <1>1. IsFiniteSet(Of)
    BY FS_Subset, TaskToolsAssumption DEF Tasks
  <1>2. f \in Surjection(Of, Numbers)
    BY DEF Surjection
  <1>3. IsFiniteSet(Numbers)
    BY <1>1, <1>2, FS_Surjection
  <1>4. IsFiniteSet(Numbers \cup {0})
    <2> HIDE DEF Numbers
    <2>1. QED
      BY <1>3, FS_AddElement
  <1>5. \A t \in Tasks : tasks[t].number \in Nat
    BY DEF TaskRow
  <1>6. \A n \in Numbers \cup {0} : n \in Nat
    BY <1>5
  <1>7. \A t \in Of : tasks[t].number \in Numbers
    OBVIOUS
  <1> DEFINE All == Numbers \cup {0}
  <1> HIDE DEF Numbers
  <1>8. All \in SUBSET Int /\ All # {} /\ \A n \in All : n \in Nat
    BY <1>6
  <1>9. \E m \in All : \A n \in All : n <= m
    <2>1. IsFiniteSet(All)
      BY <1>4
    <2> HIDE DEF All
    <2>2. QED
      BY <1>8, <2>1, Largest
  <1>10. \E m \in All : \A n \in All : m >= n
    <2> HIDE DEF All
    <2>1. QED
      BY <1>8, <1>9
  <1>11. Max(All) \in All /\ \A n \in All : Max(All) >= n
    BY <1>10 DEF Max
  <1>12. NextNumber(p) = Max(All) + 1
    BY DEF NextNumber, Numbers
  <1>13. \A t \in Of : tasks[t].number \in All
    BY <1>7
  <1> HIDE DEF All
  <1>14. Max(All) \in Nat
    BY <1>8, <1>11
  <1>15. ASSUME NEW t \in Tasks, tasks[t].project = p
         PROVE  tasks[t].number < NextNumber(p)
    <2>1. Max(All) >= tasks[t].number
      BY <1>11, <1>13, <1>15
    <2>2. QED
      BY <1>5, <1>12, <1>14, <2>1
  <1>16. QED
    BY <1>12, <1>14, <1>15

\* What the arguments of each tool hold.
LEMMA ArgFields ==
  ASSUME NEW x \in ToolArgs
  PROVE  /\ x.tool \in {"none", "create_task", "update_task_status", "delete_task"}
         /\ x.tool = "create_task" => x.project \in Projects
         /\ x.tool \in {"update_task_status", "delete_task"} => x.task \in Tasks
         /\ x.tool = "delete_task" => x = [tool |-> "delete_task", task |-> x.task]
  <1>1. CASE x \in [tool : {"none"}]
    BY <1>1
  <1>2. CASE x \in [tool : {"create_task"}, project : Projects]
    BY <1>2
  <1>3. CASE x \in [tool : {"update_task_status"}, task : Tasks, status : Suggested]
    BY <1>3
  <1>4. CASE x \in [tool : {"delete_task"}, task : Tasks]
    BY <1>4
  <1>5. QED
    BY <1>1, <1>2, <1>3, <1>4 DEF ToolArgs

\* What a model may pass is of the type.
LEMMA ArgsType == Args \subseteq ToolArgs /\ \A x \in Args : x.tool # "none"
  <1> DEFINE shown == {t \in Tasks : Live(t)}
             C == [tool : {"create_task"}, project : Projects]
             U == [tool : {"update_task_status"}, task : shown, status : Suggested]
             D == [tool : {"delete_task"}, task : shown]
  <1>1. shown \subseteq Tasks
    OBVIOUS
  <1> HIDE DEF shown
  <1>2. /\ U \subseteq [tool : {"update_task_status"}, task : Tasks, status : Suggested]
        /\ D \subseteq [tool : {"delete_task"}, task : Tasks]
    BY <1>1
  <1>3. \A x \in C \cup U \cup D : x.tool # "none"
    OBVIOUS
  <1>4. Args = C \cup U \cup D
    BY DEF Args, shown
  <1> HIDE DEF C, U, D
  <1>5. QED
    BY <1>2, <1>3, <1>4 DEF ToolArgs, C

-----------------------------------------------------------------------------
(* The queue underneath *)

\* Every step of the tools is a step of the queue, or leaves it alone.
LEMMA QueueStepOrStutter == [TaskNext]_allVars => [Next]_vars
  <1> SUFFICES ASSUME [TaskNext]_allVars PROVE [Next]_vars
    OBVIOUS
  <1>1. ASSUME NEW a \in Actions, EnqueueTool(a) PROVE Next
    <2>1. EnqueuePending(a) \/ EnqueueAuto(a)
      BY <1>1 DEF EnqueueTool
    <2>2. QED
      BY <2>1 DEF Next, Enqueue
  <1>2. ASSUME NEW w \in Workers, HandlerReads(w) PROVE UNCHANGED vars
    BY <1>2 DEF HandlerReads
  <1>3. ASSUME NEW w \in Workers, HandlerWrites(w) PROVE Next
    <2>1. HandlerApplies(w)
      BY <1>3 DEF HandlerWrites
    <2>2. QED
      BY <2>1 DEF Next, Continue
  <1>4. ASSUME NEW w \in Workers, CompensatorWrites(w) PROVE Next
    <2>1. CompensatorApplies(w)
      BY <1>4 DEF CompensatorWrites
    <2>2. QED
      BY <2>1 DEF Next, Continue
  <1>5. ASSUME NEW t \in Tasks, NEW status \in Allowed, PatchTask(t, status)
        PROVE  UNCHANGED vars
    BY <1>5 DEF PatchTask
  <1>6. ASSUME QueueStep PROVE Next
    BY <1>6 DEF QueueStep, Next, Continue
  <1>7. CASE UNCHANGED allVars
    BY <1>7 DEF allVars
  <1>8. QED
    BY <1>1, <1>2, <1>3, <1>4, <1>5, <1>6, <1>7 DEF TaskNext

\* What every step of the queue leaves alone: a started worker keeps its job,
\* only an idle one starts, the approval a row asks for is decided when it is
\* inserted, and no effect is taken off the record.
LEMMA QueueFrame ==
  ASSUME IInv, [Next]_vars
  PROVE  /\ \A w \in Workers : pc[w] # "idle" => job'[w] = job[w] /\ pc'[w] # "idle"
         /\ \A w \in Workers : pc'[w] = "handler" => pc[w] \in {"idle", "handler"}
         /\ \A a \in Actions : pc[a] # "idle" => row'[a].approval = row[a].approval
         /\ \A a \in Actions : reverted[a] > 0 => reverted'[a] > 0
         /\ \A a \in Actions : job[a].target = a => job'[a].target = a
  <1> DEFINE P == \A w \in Workers :
                    /\ pc[w] # "idle" => job'[w] = job[w] /\ pc'[w] # "idle"
                    /\ pc'[w] = "handler" => pc[w] \in {"idle", "handler"}
                    /\ w \in Actions /\ job[w].target = w => job'[w].target = w
             A == \A a \in Actions : pc[a] # "idle" => row'[a].approval = row[a].approval
             R == \A a \in Actions : reverted[a] > 0 => reverted'[a] > 0
  <1> USE ActionQueueAssumption
  <1>0. /\ row \in [Workers -> Row] /\ pc \in [Workers -> PCs]
        /\ job \in [Workers -> Job] /\ reverted \in [Actions -> Nat] /\ now \in Time
    BY DEF IInv, TypeOK
  <1>a. ASSUME NEW w \in Workers, NEW from, NEW to, Goto(w, from, to),
               from # "idle", to # "idle", to # "handler", job' = job
        PROVE  P
    BY <1>0, <1>a DEF Goto
  <1>b. ASSUME NEW w \in Workers, NEW kind, NEW i \in Workers, NEW next,
               Begin(w, kind, i, next), next # "idle", w \in Actions => i = w
        PROVE  P
    BY <1>0, <1>b DEF Begin
  <1>c. ASSUME reverted' = reverted PROVE R
    BY <1>c
  <1>d. ASSUME row' = row PROVE A
    BY <1>d
  <1>e. ASSUME NEW i \in Workers, NEW s \in Statuses, SetStatus(i, s) PROVE A
    BY <1>0, <1>e, SetStatusFrame DEF Workers
  <1>f. ASSUME NEW i \in Workers, NEW s \in Statuses, SetCommitted(i, s) PROVE A
    BY <1>0, <1>f, SetCommittedFrame DEF Workers
  <1>g. ASSUME NEW i \in Workers, NEW status, NEW approval, NEW at,
               Insert(i, status, approval, at), i \in Actions => pc[i] = "idle"
        PROVE  A
    BY <1>0, <1>g DEF Insert, Workers
  <1>1. ASSUME NEW a \in Actions, Enqueue(a) PROVE P /\ A /\ R
    <2>1. P
      BY <1>1, <1>b DEF Enqueue, EnqueueUnknown, EnqueuePending, EnqueueAuto, Workers
    <2>2. A
      BY <1>1, <1>g DEF Enqueue, EnqueueUnknown, EnqueuePending, EnqueueAuto,
                        Workers, Begin
    <2>3. QED
      BY <1>1, <2>1, <2>2, <1>c
      DEF Enqueue, EnqueueUnknown, EnqueuePending, EnqueueAuto
  <1>2. ASSUME NEW r \in Requests, NEW a \in Actions, Approve(r, a) PROVE P /\ A /\ R
    <2>1. P
      BY <1>2, <1>b DEF Approve, Workers
    <2>2. QED
      BY <1>2, <2>1, <1>c, <1>d DEF Approve
  <1>3. ASSUME NEW r \in Requests, NEW i \in Workers, Discard(r, i) PROVE P /\ A /\ R
    <2>1. P
      BY <1>3, <1>b DEF Discard, Workers
    <2>2. A
      BY <1>3, <1>e DEF Discard, Statuses
    <2>3. QED
      BY <1>3, <2>1, <2>2, <1>c DEF Discard
  <1>4. ASSUME NEW r \in Requests, NEW a \in Actions, Undo(r, a) PROVE P /\ A /\ R
    <2>1. P
      BY <1>4, <1>b DEF Undo, Workers
    <2>2. A
      BY <1>4, <1>g DEF Undo, Workers
    <2>3. QED
      BY <1>4, <2>1, <2>2, <1>c DEF Undo
  <1>5. ASSUME NEW w \in Workers,
               \/ HandlerApplies(w) \/ HandlerRaises(w) \/ HandlerAppliesThenRaises(w)
               \/ RecordRaises(w) \/ CompensatorRaises(w)
        PROVE  P /\ A /\ R
    <2>1. P
      BY <1>5, <1>a DEF HandlerApplies, HandlerRaises, HandlerAppliesThenRaises,
                        RecordRaises, CompensatorRaises
    <2>2. QED
      BY <1>5, <2>1, <1>c, <1>d
      DEF HandlerApplies, HandlerRaises, HandlerAppliesThenRaises, RecordRaises,
          CompensatorRaises
  <1>6. ASSUME NEW w \in Workers, CompensatorApplies(w) PROVE P /\ A /\ R
    <2>1. P
      BY <1>6, <1>a DEF CompensatorApplies
    <2>2. R
      <3>1. reverted' = [reverted EXCEPT ![job[w].target] = @ + 1]
        BY <1>6 DEF CompensatorApplies
      <3>2. QED
        BY <1>0, <3>1
    <2>3. QED
      BY <1>6, <2>1, <2>2, <1>d DEF CompensatorApplies
  <1>7. ASSUME NEW w \in Workers,
               \/ RecordSuccess(w) \/ RecordFailure(w) \/ FailUndo(w)
               \/ CloseUndo(w) \/ CloseOriginal(w)
        PROVE  P /\ A /\ R
    <2>1. P
      BY <1>7, <1>a DEF RecordSuccess, RecordFailure, FailUndo, CloseUndo,
                        CloseOriginal
    <2>2. job[w].target \in Workers
      BY <1>0 DEF Job
    <2>3. A
      BY <1>7, <2>2, <1>e, <1>f DEF RecordSuccess, RecordFailure, FailUndo,
                                   CloseUndo, CloseOriginal, Statuses
    <2>4. QED
      BY <1>7, <2>1, <2>3, <1>c DEF RecordSuccess, RecordFailure, FailUndo,
                                   CloseUndo, CloseOriginal
  <1>8. ASSUME NEW w \in Workers, Cancel(w) PROVE P /\ A /\ R
    <2>1. P
      BY <1>0, <1>8 DEF Cancel, Open, HandlerPCs, UndoPCs
    <2>2. QED
      BY <1>8, <2>1, <1>c, <1>d DEF Cancel
  <1>9. CASE Tick \/ UNCHANGED vars
    <2>1. UNCHANGED <<row, pc, job, applied, reverted>>
      BY <1>9 DEF Tick, vars
    <2>2. QED
      BY <2>1
  <1>10. P /\ A /\ R
    BY <1>1, <1>2, <1>3, <1>4, <1>5, <1>6, <1>7, <1>8, <1>9
    DEF Next, Receive, Continue
  <1>11. QED
    BY <1>10 DEF Workers

-----------------------------------------------------------------------------
(* What a step does to rex.tasks *)

\* What a worker other than v watches stays, or the write is on its record.
Others(v) ==
  /\ \A w \in Workers : since[w] \subseteq since'[w]
  /\ \A w \in Workers \ {v} : \A t \in Watches(w) \ since'[w] : tasks'[t] = tasks[t]

\* The table keeps its type.
Typed == tasks' \in [Tasks -> TaskRow] /\ since' \in [Workers -> SUBSET Tasks]

\* No task comes into being.
NoBirth == \A u \in Tasks : tasks'[u] # NoTask => tasks[u] # NoTask

\* A change of the status keeps a row in its type and can be taken back.
LEMMA StatusUpdate ==
  ASSUME NEW x \in TaskRow, NEW s \in Allowed \cup {"none", "open"}
  PROVE  /\ [x EXCEPT !.status = s] \in TaskRow
         /\ [[x EXCEPT !.status = s] EXCEPT !.status = x.status] = x
         /\ [x EXCEPT !.status = s].status = s
         /\ [x EXCEPT !.status = s].project = x.project
         /\ [x EXCEPT !.status = s].number = x.number
         /\ x.status \in Allowed \cup {"none", "open"}
  BY DEF TaskRow

\* An absent task is of the row's type, and no allowed status is absent.
LEMMA NoTaskType == NoTask \in TaskRow /\ NoTask.status = "none" /\ "none" \notin Allowed
  BY TaskToolsAssumption DEF NoTask, TaskRow

\* One statement, seen by the others.
LEMMA WriteEffect ==
  ASSUME TaskTypeOK, NEW v, NEW t \in Tasks, NEW new \in TaskRow, Write(v, t, new)
  PROVE  /\ Others(v) /\ Typed
         /\ tasks'[t] = new
         /\ \A u \in Tasks : u # t => tasks'[u] = tasks[u]
         /\ \A w \in Workers : w = v => since'[w] = since[w]
  <1>1. /\ tasks \in [Tasks -> TaskRow] /\ since \in [Workers -> SUBSET Tasks]
        /\ tasks' = [tasks EXCEPT ![t] = new]
        /\ since' = [w \in Workers |->
              IF w # v THEN since[w] \cup ({t} \cap Watches(w)) ELSE since[w]]
    BY DEF TaskTypeOK, Write
  <1>2. Typed
    BY <1>1 DEF Typed
  <1>3. tasks'[t] = new /\ \A u \in Tasks : u # t => tasks'[u] = tasks[u]
    BY <1>1
  <1>4. ASSUME NEW w \in Workers
        PROVE  /\ w = v => since'[w] = since[w]
               /\ w # v => since'[w] = since[w] \cup ({t} \cap Watches(w))
    BY <1>1
  <1>5. tasks \in [Tasks -> TaskRow] /\ \A u : u # t => tasks'[u] = tasks[u]
    BY <1>1
  <1>6. Others(v)
    BY <1>4, <1>5 DEF Others
  <1>7. QED
    BY <1>2, <1>3, <1>4, <1>6

\* A statement that matches no row.
LEMMA NoWriteEffect ==
  ASSUME TaskTypeOK, UNCHANGED <<tasks, since>>
  PROVE  Typed /\ NoBirth /\ \A v : Others(v)
  BY DEF TaskTypeOK, Typed, NoBirth, Others

\* A worker inside its handler: its action has a tool, and reaches it alone
\* unless it asked for approval.
LEMMA HandlerTarget ==
  ASSUME TaskInv, NEW w \in Workers, pc[w] = "handler"
  PROVE  /\ job[w].target \in Actions
         /\ args[job[w].target] \in ToolArgs
         /\ args[job[w].target].tool # "none"
         /\ w \in Actions => job[w].target = w /\ applied[w] = 0
         /\ args[job[w].target].tool # "create_task" => job[w].target = w
         /\ pc[job[w].target] # "idle"
  <1> USE ActionQueueAssumption
  <1>1. HandlerInv(w)
    BY DEF TaskInv, IInv
  <1>2. /\ job[w].target \in Actions /\ pc[job[w].target] # "idle"
        /\ w \in Actions => job[w].target = w /\ ~row[w].approval
        /\ w \in Requests => row[job[w].target].approval
    BY <1>1 DEF HandlerInv, HandlerPCs
  <1>3. /\ args[job[w].target].tool # "none"
        /\ args[job[w].target].tool # "create_task" => ~row[job[w].target].approval
    BY <1>2 DEF TaskInv, ToolInv
  <1>4. args[job[w].target] \in ToolArgs
    BY <1>2 DEF TaskInv, TaskTypeOK
  <1>5. w \in Actions => applied[w] = 0
    BY <1>2 DEF TaskInv, IInv, ActionInv
  <1>6. QED
    BY <1>2, <1>3, <1>4, <1>5 DEF Workers

\* The write of a handler.
LEMMA HandlerEffect ==
  ASSUME TaskInv, NEW w \in Workers, HandlerWrites(w), NEW a, a = job[w].target
  PROVE  /\ pc[w] = "handler" /\ pc'[w] = "record" /\ look[w].read
         /\ applied' = [applied EXCEPT ![a] = @ + 1]
         /\ UNCHANGED <<args, look, edits, reverted, job>>
         /\ Typed /\ Others(w)
         /\ args[a].tool = "create_task" =>
              tasks'[w] = look[w].task /\ \A u \in Tasks : u # w => tasks'[u] = tasks[u]
         /\ args[a].tool # "create_task" => NoBirth
         /\ args[a].tool = "update_task_status" =>
              /\ args[a].status \in Allowed
              /\ since'[w] = since[w]
              /\ Live(args[a].task) => tasks'[args[a].task] =
                    [tasks[args[a].task] EXCEPT !.status = args[a].status]
  <1>1. /\ pc[w] = "handler" /\ pc'[w] = "record" /\ look[w].read
        /\ applied' = [applied EXCEPT ![a] = @ + 1]
        /\ UNCHANGED <<args, look, edits, reverted, job>>
    BY DEF HandlerWrites, HandlerApplies, Goto, TaskInv, IInv, TypeOK
  <1>2. a \in Actions /\ args[a] \in ToolArgs /\ args[a].tool # "none"
    BY <1>1, HandlerTarget
  <1>3. TaskTypeOK
    BY DEF TaskInv
  <1>4. CASE args[a].tool = "create_task"
    <2>1. Write(w, w, look[w].task)
      BY <1>4 DEF HandlerWrites, InsertsTask
    <2>2. look[w].task \in TaskRow /\ w \in Tasks
      BY <1>3 DEF TaskTypeOK, Tasks
    <2>3. QED
      BY <1>1, <1>3, <1>4, <2>1, <2>2, WriteEffect
  <1>5. CASE args[a].tool = "update_task_status"
    <2> DEFINE t == args[a].task
               new == [tasks[t] EXCEPT !.status = args[a].status]
    <2>1. SetsStatus(w, t, args[a].status)
      BY <1>5 DEF HandlerWrites
    <2>2. t \in Tasks
      BY <1>2, <1>5, ArgFields
    <2>3. args[a].status \in Allowed
      BY <2>1 DEF SetsStatus
    <2>4. new \in TaskRow
      <3>1. tasks[t] \in TaskRow
        BY <1>3, <2>2 DEF TaskTypeOK
      <3>2. QED
        BY <2>3, <3>1, StatusUpdate
    <2>5. CASE Live(t)
      <3>1. Write(w, t, new)
        BY <2>1, <2>5 DEF SetsStatus
      <3> HIDE DEF new
      <3>2. /\ Others(w) /\ Typed /\ tasks'[t] = new /\ since'[w] = since[w]
            /\ \A u \in Tasks : u # t => tasks'[u] = tasks[u]
        BY <1>3, <2>2, <2>4, <3>1, WriteEffect
      <3>3. NoBirth
        BY <2>5, <3>2 DEF NoBirth, Live
      <3>4. QED
        BY <1>1, <1>5, <2>3, <3>2, <3>3 DEF new
    <2>6. CASE ~Live(t)
      <3>1. UNCHANGED <<tasks, since>>
        BY <2>1, <2>6 DEF SetsStatus
      <3>2. QED
        BY <1>1, <1>3, <1>5, <2>3, <2>6, <3>1, NoWriteEffect
    <2>7. QED
      BY <2>5, <2>6
  <1>6. CASE args[a].tool = "delete_task"
    <2> DEFINE t == args[a].task
    <2>1. DeletesTask(w, t)
      BY <1>6 DEF HandlerWrites
    <2>2. t \in Tasks
      BY <1>2, <1>6, ArgFields
    <2>3. CASE Live(t)
      <3>1. Write(w, t, NoTask)
        BY <2>1, <2>3 DEF DeletesTask
      <3>2. /\ Others(w) /\ Typed /\ tasks'[t] = NoTask
            /\ \A u \in Tasks : u # t => tasks'[u] = tasks[u]
        BY <1>3, <2>2, <3>1, NoTaskType, WriteEffect
      <3>3. NoBirth
        BY <3>2 DEF NoBirth
      <3>4. QED
        BY <1>1, <1>6, <3>2, <3>3
    <2>4. CASE ~Live(t)
      <3>1. UNCHANGED <<tasks, since>>
        BY <2>1, <2>4 DEF DeletesTask
      <3>2. QED
        BY <1>1, <1>3, <1>6, <3>1, NoWriteEffect
    <2>5. QED
      BY <2>3, <2>4
  <1>7. QED
    BY <1>2, <1>4, <1>5, <1>6, ArgFields

\* The write of a compensator, in a request whose action had its result
\* recorded.
LEMMA CompensatorEffect ==
  ASSUME TaskInv, NEW r \in Workers, CompensatorWrites(r), NEW a, a = job[r].target
  PROVE  /\ r \in Requests /\ a \in Actions /\ applied[a] > 0
         /\ pc[r] = "compensate" /\ pc'[r] = "closeUndo" /\ pc[a] = "done"
         /\ reverted' = [reverted EXCEPT ![a] = @ + 1]
         /\ UNCHANGED <<args, look, edits, applied, job>>
         /\ Typed /\ Others(r)
         /\ args[a].tool = "create_task" => tasks'[a] = NoTask /\ NoBirth
         /\ args[a].tool = "update_task_status" =>
              /\ NoBirth
              /\ Live(args[a].task) => tasks'[args[a].task] =
                    [tasks[args[a].task] EXCEPT !.status = look[a].task.status]
         /\ args[a].tool = "delete_task" =>
              /\ args[a] = [tool |-> "delete_task", task |-> args[a].task]
              /\ tasks'[args[a].task] = look[a].task
              /\ \A u \in Tasks : u # args[a].task => tasks'[u] = tasks[u]
  <1>1. /\ pc[r] = "compensate" /\ pc'[r] = "closeUndo" /\ job[r].seen
        /\ reverted' = [reverted EXCEPT ![a] = @ + 1]
        /\ UNCHANGED <<args, look, edits, applied, job>>
    BY DEF CompensatorWrites, CompensatorApplies, Goto, TaskInv, IInv, TypeOK
  <1>2. r \in Requests /\ a \in Actions /\ row[a].result
    <2>1. UndoInv(r)
      BY DEF TaskInv, IInv
    <2>2. QED
      BY <1>1, <2>1 DEF UndoInv, UndoPCs
  <1>3. applied[a] > 0 /\ pc[a] = "done"
    BY <1>2 DEF TaskInv, IInv, ActionInv
  <1>4. args[a] \in ToolArgs /\ args[a].tool # "none"
    BY <1>2, <1>3 DEF TaskInv, ToolInv, TaskTypeOK
  <1>5. TaskTypeOK /\ a \in Tasks /\ a \in Workers
    BY <1>2 DEF TaskInv, Tasks, Workers
  <1>6. look[a].task \in TaskRow
    BY <1>5 DEF TaskTypeOK
  <1>7. CASE args[a].tool = "create_task"
    <2>1. UndoCreate(r, a)
      BY <1>7 DEF CompensatorWrites
    <2>2. CASE Live(a)
      <3>1. Write(r, a, NoTask)
        BY <2>1, <2>2 DEF UndoCreate
      <3>2. /\ Others(r) /\ Typed /\ tasks'[a] = NoTask
            /\ \A u \in Tasks : u # a => tasks'[u] = tasks[u]
        BY <1>5, <3>1, NoTaskType, WriteEffect
      <3>3. NoBirth
        BY <3>2 DEF NoBirth
      <3>4. QED
        BY <1>1, <1>2, <1>3, <1>7, <3>2, <3>3
    <2>3. CASE ~Live(a)
      <3>1. UNCHANGED <<tasks, since>>
        BY <2>1, <2>3 DEF UndoCreate
      <3>2. tasks'[a] = NoTask
        BY <2>3, <3>1 DEF Live
      <3>3. QED
        BY <1>1, <1>2, <1>3, <1>5, <1>7, <3>1, <3>2, NoWriteEffect
    <2>4. QED
      BY <2>2, <2>3
  <1>8. CASE args[a].tool = "update_task_status"
    <2> DEFINE t == args[a].task
               new == [tasks[t] EXCEPT !.status = look[a].task.status]
    <2>1. RestoreStatus(r, t, look[a].task)
      BY <1>8 DEF CompensatorWrites
    <2>2. t \in Tasks
      BY <1>4, <1>8, ArgFields
    <2>3. new \in TaskRow
      <3>1. tasks[t] \in TaskRow /\ look[a].task.status \in Allowed \cup {"none", "open"}
        BY <1>5, <1>6, <2>2, StatusUpdate DEF TaskTypeOK, TaskRow
      <3>2. QED
        BY <3>1, StatusUpdate
    <2>4. CASE Live(t)
      <3>1. Write(r, t, new)
        BY <2>1, <2>4 DEF RestoreStatus
      <3> HIDE DEF new
      <3>2. /\ Others(r) /\ Typed /\ tasks'[t] = new
            /\ \A u \in Tasks : u # t => tasks'[u] = tasks[u]
        BY <1>5, <2>2, <2>3, <3>1, WriteEffect
      <3>3. NoBirth
        BY <2>4, <3>2 DEF NoBirth, Live
      <3>4. QED
        BY <1>1, <1>2, <1>3, <1>8, <3>2, <3>3 DEF new
    <2>5. CASE ~Live(t)
      <3>1. UNCHANGED <<tasks, since>>
        BY <2>1, <2>5 DEF RestoreStatus
      <3>2. QED
        BY <1>1, <1>2, <1>3, <1>5, <1>8, <2>5, <3>1, NoWriteEffect
    <2>6. QED
      BY <2>4, <2>5
  <1>9. CASE args[a].tool = "delete_task"
    <2> DEFINE t == args[a].task
    <2>1. Write(r, t, look[a].task)
      BY <1>9 DEF CompensatorWrites, Reinsert
    <2>2. t \in Tasks /\ args[a] = [tool |-> "delete_task", task |-> t]
      BY <1>4, <1>9, ArgFields
    <2>3. /\ Others(r) /\ Typed /\ tasks'[t] = look[a].task
          /\ \A u \in Tasks : u # t => tasks'[u] = tasks[u]
      BY <1>5, <1>6, <2>1, <2>2, WriteEffect
    <2>4. QED
      BY <1>1, <1>2, <1>3, <1>9, <2>2, <2>3
  <1>10. QED
    BY <1>4, <1>7, <1>8, <1>9, ArgFields

\* An edit by people.
LEMMA PatchEffect ==
  ASSUME TaskInv, NEW t \in Tasks, NEW status \in Allowed, PatchTask(t, status)
  PROVE  Typed /\ NoBirth /\ Others("people") /\ UNCHANGED <<vars, args, look>>
  <1>1. /\ Live(t) /\ Write("people", t, [tasks[t] EXCEPT !.status = status])
        /\ UNCHANGED <<vars, args, look>>
    BY DEF PatchTask
  <1>2. TaskTypeOK /\ tasks[t] \in TaskRow
    BY DEF TaskInv, TaskTypeOK
  <1> DEFINE new == [tasks[t] EXCEPT !.status = status]
  <1>3. new \in TaskRow
    BY <1>2, StatusUpdate
  <1> HIDE DEF new
  <1>4. /\ Others("people") /\ Typed
        /\ \A u \in Tasks : u # t => tasks'[u] = tasks[u]
    <2>1. Write("people", t, new)
      BY <1>1 DEF new
    <2>2. QED
      BY <1>2, <1>3, <2>1, WriteEffect
  <1>5. NoBirth
    BY <1>1, <1>4 DEF NoBirth, Live
  <1>6. QED
    BY <1>1, <1>4, <1>5

\* The read of a handler.
LEMMA ReadEffect ==
  ASSUME TaskInv, NEW w \in Workers, HandlerReads(w), NEW a, a = job[w].target
  PROVE  /\ pc[w] = "handler" /\ ~look[w].read
         /\ UNCHANGED <<vars, args, tasks, since, edits>>
         /\ look'[w].read /\ look'[w].task = Reading(w) /\ Reading(w) \in TaskRow
         /\ \A u \in Workers : u # w => look'[u] = look[u]
         /\ look' \in [Workers -> [read : BOOLEAN, task : TaskRow]]
         /\ args[a].tool # "create_task" => Reading(w) = tasks[args[a].task] /\ Live(args[a].task)
         /\ args[a].tool = "create_task" =>
               /\ Reading(w).number = NextNumber(args[a].project)
               /\ Reading(w).project = args[a].project
  <1>1. /\ pc[w] = "handler" /\ ~look[w].read
        /\ UNCHANGED <<vars, args, tasks, since, edits>>
        /\ look' = [look EXCEPT ![w] = [read |-> TRUE, task |-> Reading(w)]]
        /\ args[a].tool # "create_task" => Live(Subject(w))
    BY DEF HandlerReads
  <1>2. a \in Actions /\ args[a] \in ToolArgs /\ args[a].tool # "none"
    BY <1>1, HandlerTarget
  <1>3. TaskTypeOK
    BY DEF TaskInv
  <1>4. ASSUME args[a].tool = "create_task"
        PROVE  /\ Reading(w) \in TaskRow
               /\ Reading(w).number = NextNumber(args[a].project)
               /\ Reading(w).project = args[a].project
    <2> DEFINE new == [project |-> args[a].project, number |-> NextNumber(args[a].project),
                       status |-> "open"]
    <2>1. Reading(w) = new
      BY <1>4 DEF Reading
    <2>2. NextNumber(args[a].project) \in Nat
      BY <1>3, NextNumberIsNext DEF TaskTypeOK
    <2>3. args[a].project \in Projects
      BY <1>2, <1>4, ArgFields
    <2>4. new \in TaskRow
      BY <2>2, <2>3 DEF TaskRow
    <2>5. new.number = NextNumber(args[a].project) /\ new.project = args[a].project
      OBVIOUS
    <2> HIDE DEF new
    <2>6. QED
      BY <1>4, <2>1, <2>4, <2>5
  <1>5. ASSUME args[a].tool # "create_task"
        PROVE  /\ Reading(w) \in TaskRow
               /\ Reading(w) = tasks[args[a].task] /\ Live(args[a].task)
    <2>1. Reading(w) = tasks[args[a].task] /\ Live(args[a].task)
      BY <1>1, <1>5 DEF Reading, Subject
    <2>2. args[a].task \in Tasks
      BY <1>2, <1>5, ArgFields
    <2>3. tasks[args[a].task] \in TaskRow
      BY <1>3, <2>2 DEF TaskTypeOK
    <2>4. QED
      BY <1>5, <2>1, <2>3
  <1>6. Reading(w) \in TaskRow
    BY <1>4, <1>5
  <1>7. /\ look'[w] = [read |-> TRUE, task |-> Reading(w)]
        /\ \A u \in Workers : u # w => look'[u] = look[u]
    BY <1>1, <1>3 DEF TaskTypeOK
  <1>8. look' \in [Workers -> [read : BOOLEAN, task : TaskRow]]
    <2>1. [read |-> TRUE, task |-> Reading(w)] \in [read : BOOLEAN, task : TaskRow]
      BY <1>6
    <2>2. QED
      BY <1>1, <1>3, <2>1 DEF TaskTypeOK
  <1>9. look'[w].read /\ look'[w].task = Reading(w)
    BY <1>7
  <1>10. QED
    BY <1>1, <1>4, <1>5, <1>6, <1>7, <1>8, <1>9

\* The model's tool call.
LEMMA EnqueueEffect ==
  ASSUME TaskInv, NEW a \in Actions, EnqueueTool(a)
  PROVE  /\ pc[a] = "idle" /\ args'[a] \in ToolArgs /\ args'[a].tool # "none"
         /\ args' \in [Actions -> ToolArgs]
         /\ \A b \in Actions : b # a => args'[b] = args[b] /\ pc'[b] = pc[b]
         /\ args'[a].tool # "create_task" => ~row'[a].approval
         /\ applied[a] = 0 /\ reverted[a] = 0 /\ ~look[a].read
         /\ UNCHANGED <<tasks, look, since, edits, applied, reverted>>
  <1>0. args \in [Actions -> ToolArgs] /\ pc \in [Workers -> PCs] /\ row \in [Workers -> Row]
        /\ a \in Workers
    BY DEF TaskInv, TaskTypeOK, IInv, TypeOK, Workers
  <1>1. PICK arg \in Args : args' = [args EXCEPT ![a] = arg]
                           /\ IF arg.tool = "create_task" THEN EnqueuePending(a) \/ EnqueueAuto(a)
                                                          ELSE EnqueueAuto(a)
    BY DEF EnqueueTool
  <1>2. arg \in ToolArgs /\ arg.tool # "none"
    BY ArgsType
  <1>3. EnqueuePending(a) \/ EnqueueAuto(a)
    BY <1>1
  <1>4. /\ pc[a] = "idle" /\ UNCHANGED <<applied, reverted>>
        /\ \A b \in Actions : b # a => pc'[b] = pc[b]
    <2>1. /\ pc[a] = "idle" /\ UNCHANGED <<applied, reverted>>
          /\ \E next : pc' = [pc EXCEPT ![a] = next]
      BY <1>3 DEF EnqueuePending, EnqueueAuto, Begin
    <2>2. QED
      BY <1>0, <2>1 DEF Workers
  <1>5. applied[a] = 0 /\ reverted[a] = 0 /\ ~look[a].read
    BY <1>0, <1>4 DEF TaskInv, IInv, ActionInv, NumberInv
  <1>6. args'[a] = arg /\ \A b \in Actions : b # a => args'[b] = args[b]
    BY <1>0, <1>1
  <1>7. arg.tool # "create_task" => ~row'[a].approval
    <2> SUFFICES ASSUME arg.tool # "create_task" PROVE ~row'[a].approval
      OBVIOUS
    <2>1. Insert(a, "auto_committed", FALSE, Never)
      BY <1>1 DEF EnqueueAuto
    <2>2. QED
      BY <1>0, <2>1 DEF Insert
  <1>8. args' \in [Actions -> ToolArgs]
    BY <1>0, <1>1, <1>2
  <1>9. UNCHANGED <<tasks, look, since, edits>>
    BY DEF EnqueueTool
  <1>10. QED
    BY <1>2, <1>4, <1>5, <1>6, <1>7, <1>8, <1>9

\* The steps of the queue that the tools take no part in.
LEMMA RestEffect ==
  ASSUME TaskInv, QueueStep \/ UNCHANGED allVars
  PROVE  /\ UNCHANGED taskVars /\ UNCHANGED <<applied, reverted>>
         /\ \A a \in Actions : pc[a] = "idle" => pc'[a] = "idle"
  <1> USE ActionQueueAssumption
  <1>0. pc \in [Workers -> PCs] /\ Actions \subseteq Workers
    BY DEF TaskInv, IInv, TypeOK, Workers
  <1>1. CASE UNCHANGED allVars
    BY <1>1 DEF allVars, vars, taskVars
  <1>2. ASSUME NEW r \in Requests, Receive(r), UNCHANGED taskVars
        PROVE  /\ UNCHANGED <<applied, reverted>>
               /\ \A a \in Actions : pc[a] = "idle" => pc'[a] = "idle"
    <2>1. UNCHANGED <<applied, reverted>>
      BY <1>2 DEF Receive, Approve, Undo, Discard
    <2>2. PICK next : pc' = [pc EXCEPT ![r] = next]
      BY <1>2 DEF Receive, Approve, Undo, Discard, Begin
    <2>3. \A w \in Workers : w # r => pc'[w] = pc[w]
      BY <1>0, <2>2
    <2>4. QED
      BY <1>0, <2>1, <2>3
  <1>3. ASSUME NEW w \in Workers,
               \/ HandlerRaises(w) \/ RecordSuccess(w) \/ RecordRaises(w)
               \/ RecordFailure(w) \/ CompensatorRaises(w) \/ FailUndo(w)
               \/ CloseUndo(w) \/ CloseOriginal(w)
        PROVE  /\ UNCHANGED <<applied, reverted>>
               /\ \A a \in Actions : pc[a] = "idle" => pc'[a] = "idle"
    <2>1. UNCHANGED <<applied, reverted>>
      BY <1>3 DEF HandlerRaises, RecordSuccess, RecordRaises, RecordFailure,
                  CompensatorRaises, FailUndo, CloseUndo, CloseOriginal
    <2>2. ASSUME NEW from, NEW to, Goto(w, from, to), from # "idle"
          PROVE  pc[w] # "idle" /\ \A v \in Workers : v # w => pc'[v] = pc[v]
      BY <1>0, <2>2 DEF Goto
    <2>3. pc[w] # "idle" /\ \A v \in Workers : v # w => pc'[v] = pc[v]
      BY <1>3, <2>2 DEF HandlerRaises, RecordSuccess, RecordRaises, RecordFailure,
                        CompensatorRaises, FailUndo, CloseUndo, CloseOriginal
    <2>4. QED
      BY <1>0, <2>1, <2>3
  <1>4. ASSUME NEW w \in Workers, Cancel(w)
        PROVE  /\ UNCHANGED <<applied, reverted>>
               /\ \A a \in Actions : pc[a] = "idle" => pc'[a] = "idle"
    BY <1>0, <1>4 DEF Cancel, Open, HandlerPCs, UndoPCs
  <1>5. QED
    BY <1>1, <1>2, <1>3, <1>4 DEF QueueStep

-----------------------------------------------------------------------------
(* Each part of the invariant is kept *)

\* Every step keeps the types.
LEMMA TaskTypeStep == TaskInv /\ [TaskNext]_allVars => TaskTypeOK'
  <1> SUFFICES ASSUME TaskInv, [TaskNext]_allVars PROVE TaskTypeOK'
    OBVIOUS
  <1>0. TaskTypeOK
    BY DEF TaskInv
  <1>1. ASSUME NEW a \in Actions, EnqueueTool(a) PROVE TaskTypeOK'
    <2>1. args' \in [Actions -> ToolArgs] /\ UNCHANGED <<tasks, look, since, edits>>
      BY <1>1, EnqueueEffect
    <2>2. QED
      BY <1>0, <2>1 DEF TaskTypeOK
  <1>2. ASSUME NEW w \in Workers, HandlerReads(w) PROVE TaskTypeOK'
    <2>1. /\ UNCHANGED <<args, tasks, since, edits>>
          /\ look' \in [Workers -> [read : BOOLEAN, task : TaskRow]]
      BY <1>2, ReadEffect
    <2>2. QED
      BY <1>0, <2>1 DEF TaskTypeOK
  <1>3. ASSUME NEW w \in Workers, HandlerWrites(w) \/ CompensatorWrites(w) PROVE TaskTypeOK'
    <2>1. Typed /\ UNCHANGED <<args, look, edits>>
      BY <1>3, HandlerEffect, CompensatorEffect
    <2>2. QED
      BY <1>0, <2>1 DEF TaskTypeOK, Typed
  <1>4. ASSUME NEW t \in Tasks, NEW status \in Allowed, PatchTask(t, status)
        PROVE  TaskTypeOK'
    <2>1. Typed /\ UNCHANGED <<args, look>>
      BY <1>4, PatchEffect
    <2>2. edits' \in Nat
      BY <1>0, <1>4 DEF PatchTask, TaskTypeOK
    <2>3. QED
      BY <1>0, <2>1, <2>2 DEF TaskTypeOK, Typed
  <1>5. CASE QueueStep \/ UNCHANGED allVars
    <2>1. UNCHANGED taskVars
      BY <1>5, RestEffect
    <2>2. QED
      BY <1>0, <2>1 DEF TaskTypeOK, taskVars
  <1>6. QED
    BY <1>1, <1>2, <1>3, <1>4, <1>5 DEF TaskNext

\* The arguments of a started action stay.
LEMMA ArgsStay ==
  ASSUME TaskInv, [TaskNext]_allVars
  PROVE  \A a \in Actions : pc[a] # "idle" => args'[a] = args[a]
  <1>1. ASSUME NEW a \in Actions, EnqueueTool(a)
        PROVE  \A b \in Actions : pc[b] # "idle" => args'[b] = args[b]
    BY <1>1, EnqueueEffect
  <1>2. CASE args' = args
    BY <1>2
  <1>3. ASSUME NEW w \in Workers,
               HandlerReads(w) \/ HandlerWrites(w) \/ CompensatorWrites(w)
        PROVE  args' = args
    BY <1>3 DEF HandlerReads, HandlerWrites, CompensatorWrites
  <1>4. ASSUME NEW t \in Tasks, NEW status \in Allowed, PatchTask(t, status)
        PROVE  args' = args
    BY <1>4 DEF PatchTask
  <1>5. CASE QueueStep \/ UNCHANGED allVars
    BY <1>2, <1>5, RestEffect DEF taskVars
  <1>6. QED
    BY <1>1, <1>2, <1>3, <1>4, <1>5 DEF TaskNext

\* Every step keeps what is known of an action's tool.
LEMMA ToolStep ==
  TaskInv /\ [TaskNext]_allVars => \A a \in Actions : ToolInv(a)'
  <1> SUFFICES ASSUME TaskInv, [TaskNext]_allVars, NEW a \in Actions
               PROVE  ToolInv(a)'
    OBVIOUS
  <1>1. [Next]_vars /\ IInv
    BY QueueStepOrStutter DEF TaskInv
  <1>2. /\ job'[a].target = a
        /\ pc[a] # "idle" => row'[a].approval = row[a].approval
    BY <1>1, QueueFrame DEF TaskInv, ToolInv
  <1>3. CASE pc[a] # "idle"
    <2>1. args'[a] = args[a]
      BY <1>3, ArgsStay
    <2>2. args[a].tool # "none" /\ (args[a].tool # "create_task" => ~row[a].approval)
      BY <1>3 DEF TaskInv, ToolInv
    <2>3. QED
      BY <1>2, <1>3, <2>1, <2>2 DEF ToolInv
  <1>4. ASSUME pc[a] = "idle", pc'[a] = "idle" PROVE ToolInv(a)'
    BY <1>2, <1>4 DEF ToolInv
  <1>5. ASSUME pc[a] = "idle", EnqueueTool(a) PROVE ToolInv(a)'
    <2>1. args'[a].tool # "none" /\ (args'[a].tool # "create_task" => ~row'[a].approval)
      BY <1>5, EnqueueEffect
    <2>2. QED
      BY <1>2, <2>1 DEF ToolInv
  <1>6. ASSUME pc[a] = "idle", ~EnqueueTool(a) PROVE pc'[a] = "idle"
    <2>0. a \in Workers /\ pc \in [Workers -> PCs]
      BY <1>1 DEF Workers, IInv, TypeOK
    <2>1. ASSUME NEW b \in Actions, EnqueueTool(b) PROVE pc'[a] = pc[a]
      BY <1>6, <2>1, EnqueueEffect
    <2>2. ASSUME NEW w \in Workers, HandlerReads(w) PROVE pc'[a] = pc[a]
      BY <2>2 DEF HandlerReads, vars
    <2>3. ASSUME NEW w \in Workers, HandlerWrites(w) \/ CompensatorWrites(w)
          PROVE  pc'[a] = pc[a]
      BY <1>6, <2>0, <2>3 DEF HandlerWrites, HandlerApplies, CompensatorWrites,
                         CompensatorApplies, Goto
    <2>4. ASSUME NEW t \in Tasks, NEW status \in Allowed, PatchTask(t, status)
          PROVE  pc'[a] = pc[a]
      BY <2>4 DEF PatchTask, vars
    <2>5. CASE QueueStep \/ UNCHANGED allVars
      BY <1>6, <2>5, RestEffect
    <2>6. QED
      BY <1>6, <2>1, <2>2, <2>3, <2>4, <2>5 DEF TaskNext
  <1>7. QED
    BY <1>3, <1>4, <1>5, <1>6

\* What the invariant says of a worker that has not begun.
LEMMA IdleFacts ==
  ASSUME TaskInv, NEW a \in Actions
  PROVE  /\ pc[a] = "idle" => applied[a] = 0 /\ reverted[a] = 0 /\ ~look[a].read
         /\ reverted[a] \in Nat /\ applied[a] \in Nat
         /\ reverted[a] > 0 => pc[a] = "done"
         /\ a \in Workers /\ a \in Tasks /\ job[a].target = a
  <1>1. a \in Workers /\ a \in Tasks
    BY DEF Workers, Tasks
  <1>2. reverted[a] \in Nat /\ applied[a] \in Nat /\ ActionInv(a) /\ job[a].target = a
    BY DEF TaskInv, IInv, TypeOK, ToolInv
  <1>3. pc[a] = "idle" => applied[a] = 0 /\ reverted[a] = 0
    BY <1>2 DEF ActionInv
  <1>4. pc[a] = "idle" => ~look[a].read
    BY <1>1 DEF TaskInv, NumberInv
  <1>5. reverted[a] > 0 => pc[a] = "done"
    BY <1>2 DEF ActionInv
  <1>6. QED
    BY <1>1, <1>2, <1>3, <1>4, <1>5

\* A compensated creation: only the handler of the action itself inserts its
\* task, and that is over; the undo of a deletion is its own witness.
LEMMA CreateStep ==
  TaskInv /\ [TaskNext]_allVars => \A a \in Actions : CreateInv(a)'
  <1> DEFINE Back(a) == \E d \in Actions :
                          /\ args[d] = [tool |-> "delete_task", task |-> a]
                          /\ reverted[d] > 0
  <1> SUFFICES ASSUME TaskInv, [TaskNext]_allVars, NEW a \in Actions,
                      args'[a].tool = "create_task", reverted'[a] > 0,
                      tasks'[a] # NoTask
               PROVE  \E d \in Actions :
                          /\ args'[d] = [tool |-> "delete_task", task |-> a]
                          /\ reverted'[d] > 0
    BY DEF CreateInv, Live
  <1>1. [Next]_vars /\ IInv
    BY QueueStepOrStutter DEF TaskInv
  <1>2. \A d \in Actions : reverted[d] > 0 =>
            reverted'[d] > 0 /\ args'[d] = args[d]
    BY <1>1, QueueFrame, ArgsStay, IdleFacts
  <1>3. ASSUME reverted[a] > 0, tasks[a] # NoTask
        PROVE  \E d \in Actions :
                   /\ args'[d] = [tool |-> "delete_task", task |-> a]
                   /\ reverted'[d] > 0
    <2>1. Back(a)
      BY <1>2, <1>3 DEF TaskInv, CreateInv, Live
    <2>2. QED
      BY <1>2, <2>1
  <1>4. ASSUME NoBirth, reverted'[a] = reverted[a]
        PROVE  reverted[a] > 0 /\ tasks[a] # NoTask
    BY <1>4, IdleFacts DEF NoBirth
  <1>5. ASSUME NEW b \in Actions, EnqueueTool(b)
        PROVE  reverted[a] > 0 /\ tasks[a] # NoTask
    BY <1>5, EnqueueEffect
  <1>6. ASSUME NEW w \in Workers, HandlerReads(w)
        PROVE  reverted[a] > 0 /\ tasks[a] # NoTask
    BY <1>6 DEF HandlerReads, vars
  <1>7. ASSUME NEW w \in Workers, HandlerWrites(w)
        PROVE  reverted[a] > 0 /\ tasks[a] # NoTask
    <2>1. /\ pc[w] = "handler" /\ reverted' = reverted
          /\ args[job[w].target].tool # "create_task" => NoBirth
          /\ args[job[w].target].tool = "create_task" =>
                \A u \in Tasks : u # w => tasks'[u] = tasks[u]
      BY <1>7, HandlerEffect
    <2>2. reverted[a] > 0 /\ pc[a] = "done" /\ a \in Tasks
      BY <2>1, IdleFacts
    <2>3. QED
      BY <1>4, <2>1, <2>2
  <1>8. ASSUME NEW t \in Tasks, NEW status \in Allowed, PatchTask(t, status)
        PROVE  reverted[a] > 0 /\ tasks[a] # NoTask
    BY <1>4, <1>8, PatchEffect DEF vars
  <1>9. ASSUME QueueStep \/ UNCHANGED allVars
        PROVE  reverted[a] > 0 /\ tasks[a] # NoTask
    BY <1>9, RestEffect DEF taskVars
  <1>10. ASSUME NEW r \in Workers, CompensatorWrites(r), NEW b, b = job[r].target
         PROVE  \E d \in Actions :
                   /\ args'[d] = [tool |-> "delete_task", task |-> a]
                   /\ reverted'[d] > 0
    <2>1. /\ b \in Actions /\ reverted' = [reverted EXCEPT ![b] = @ + 1]
          /\ args' = args
      BY <1>10, CompensatorEffect
    <2>2. /\ args[b].tool \in {"create_task", "update_task_status", "delete_task"}
          /\ args[b].tool = "delete_task" =>
                args[b] = [tool |-> "delete_task", task |-> args[b].task]
      <3>1. pc[b] = "done"
        BY <1>10, CompensatorEffect, ZenonT(60)
      <3>2. args[b] \in ToolArgs /\ args[b].tool # "none"
        BY <2>1, <3>1 DEF TaskInv, TaskTypeOK, ToolInv
      <3>3. QED
        BY <3>2, ArgFields
    <2>8. args[b].tool = "create_task" => tasks'[b] = NoTask /\ NoBirth
      BY <1>10, CompensatorEffect
    <2>9. ASSUME args[b].tool = "update_task_status" PROVE NoBirth
      BY <1>10, <2>9, CompensatorEffect, ZenonT(60)
    <2>10. ASSUME args[b].tool = "delete_task", NEW u \in Tasks, u # args[b].task
           PROVE  tasks'[u] = tasks[u]
      <3>1. \E t, new : tasks' = [tasks EXCEPT ![t] = new] /\ t = args[b].task
        BY <1>10, <2>10 DEF CompensatorWrites, Reinsert, Write
      <3>2. tasks \in [Tasks -> TaskRow]
        BY DEF TaskInv, TaskTypeOK
      <3>3. QED
        BY <2>10, <3>1, <3>2
    <2>3. reverted \in [Actions -> Nat]
      BY <1>1 DEF IInv, TypeOK
    <2>4. CASE args[b].tool = "create_task"
      <3>1. a # b /\ NoBirth
        BY <2>4, <2>8
      <3>2. reverted'[a] = reverted[a]
        BY <2>1, <2>3, <3>1
      <3>3. QED
        BY <1>3, <1>4, <3>1, <3>2
    <2>5. CASE args[b].tool = "update_task_status"
      <3>1. a # b
        BY <2>1, <2>5
      <3>2. reverted'[a] = reverted[a]
        BY <2>1, <2>3, <3>1
      <3>3. QED
        BY <1>3, <1>4, <2>5, <2>9, <3>2
    <2>6. CASE args[b].tool = "delete_task"
      <3>1. a # b
        BY <2>1, <2>6
      <3>2. reverted'[a] = reverted[a] /\ reverted'[b] > 0
        BY <2>1, <2>3, <3>1
      <3>3. CASE args[b].task = a
        BY <2>1, <2>2, <2>6, <3>2, <3>3
      <3>4. CASE args[b].task # a
        BY <1>3, <2>10, <2>6, <3>2, <3>4, IdleFacts
      <3>5. QED
        BY <3>3, <3>4
    <2>7. QED
      BY <2>2, <2>4, <2>5, <2>6
  <1>11. QED
    BY <1>3, <1>5, <1>6, <1>7, <1>8, <1>9, <1>10 DEF TaskNext

\* A step by another worker or by people, as an action's status change sees it.
LEMMA StatusOthers ==
  ASSUME TaskInv, NEW a \in Actions, NEW v, v # a, Others(v),
         args'[a] = args[a], look'[a] = look[a], applied'[a] = applied[a],
         pc'[a] = "handler" => pc[a] = "handler"
  PROVE  StatusInv(a)'
  <1> DEFINE t == args[a].task
  <1>1. StatusInv(a) /\ a \in Workers /\ job[a].target = a
    BY IdleFacts DEF TaskInv
  <1>2. since[a] \subseteq since'[a]
    BY <1>1 DEF Others
  <1>3. ASSUME args[a].tool = "update_task_status", look[a].read, t \notin since'[a]
        PROVE  tasks'[t] = tasks[t] /\ t \notin since[a]
    <2>1. t \in Watches(a)
      BY <1>1, <1>3 DEF Watches, Subject
    <2>2. QED
      BY <1>1, <1>2, <1>3, <2>1 DEF Others
  <1>4. QED
    BY <1>1, <1>3 DEF StatusInv

\* Between a handler's read and its write, and from the write on, the task is
\* as the handler left it, unless somebody else wrote it.
LEMMA StatusStep ==
  TaskInv /\ [TaskNext]_allVars => \A a \in Actions : StatusInv(a)'
  <1> SUFFICES ASSUME TaskInv, [TaskNext]_allVars, NEW a \in Actions
               PROVE  StatusInv(a)'
    OBVIOUS
  <1> USE ActionQueueAssumption
  <1>0. /\ StatusInv(a) /\ a \in Workers /\ a \in Tasks /\ job[a].target = a
        /\ pc \in [Workers -> PCs] /\ applied \in [Actions -> Nat] /\ TaskTypeOK
        /\ "people" # a
    BY IdleFacts, TaskToolsAssumption DEF TaskInv, IInv, TypeOK, Workers
  <1>1. ASSUME NEW b \in Actions, EnqueueTool(b) PROVE StatusInv(a)'
    <2>1. /\ UNCHANGED <<tasks, look, since, applied>>
          /\ applied[b] = 0 /\ ~look[b].read
          /\ b # a => args'[a] = args[a] /\ pc'[a] = pc[a]
      BY <1>1, EnqueueEffect
    <2>2. CASE b = a
      BY <2>1, <2>2 DEF StatusInv
    <2>3. CASE b # a
      BY <1>0, <2>1, <2>3 DEF StatusInv
    <2>4. QED
      BY <2>2, <2>3
  <1>2. ASSUME NEW w \in Workers, HandlerReads(w) PROVE StatusInv(a)'
    <2>1. /\ pc[w] = "handler" /\ UNCHANGED <<applied, pc, args, tasks, since>>
          /\ look'[w].read /\ look'[w].task = Reading(w)
          /\ \A u \in Workers : u # w => look'[u] = look[u]
          /\ args[job[w].target].tool # "create_task" =>
               Reading(w) = tasks[args[job[w].target].task]
               /\ Live(args[job[w].target].task)
      BY <1>2, ReadEffect DEF vars
    <2>2. CASE w = a
      <3>1. applied[a] = 0
        BY <2>1, <2>2, HandlerTarget
      <3> SUFFICES ASSUME args[a].tool = "update_task_status"
                   PROVE  look'[a].task = tasks[args[a].task] /\ Live(args[a].task)
        BY <2>1, <3>1 DEF StatusInv, Live
      <3>2. QED
        BY <1>0, <2>1, <2>2
    <2>3. CASE w # a
      BY <1>0, <2>1, <2>3 DEF StatusInv
    <2>4. QED
      BY <2>2, <2>3
  <1>3. ASSUME NEW w \in Workers, HandlerWrites(w) PROVE StatusInv(a)'
    <2> DEFINE b == job[w].target
    <2>1. /\ pc[w] = "handler" /\ pc'[w] = "record" /\ look[w].read
          /\ applied' = [applied EXCEPT ![b] = @ + 1]
          /\ UNCHANGED <<args, look>> /\ Others(w)
      BY <1>3, HandlerEffect
    <2>2. b \in Actions /\ (args[b].tool # "create_task" => b = w)
      BY <2>1, HandlerTarget
    <2>3. CASE w # a
      <3>1. CASE args[a].tool = "update_task_status"
        <4>1. b # a
          BY <2>2, <2>3, <3>1
        <4>2. applied'[a] = applied[a]
          BY <1>0, <2>1, <4>1
        <4>3. pc'[a] = pc[a]
          BY <1>0, <1>3, <2>3 DEF HandlerWrites, HandlerApplies, Goto
        <4>4. QED
          BY <2>1, <2>3, <4>2, <4>3, StatusOthers
      <3>2. CASE args[a].tool # "update_task_status"
        BY <2>1, <3>2 DEF StatusInv
      <3>3. QED
        BY <3>1, <3>2
    <2>4. CASE w = a /\ args[a].tool = "update_task_status"
      <3> DEFINE t == args[a].task
      <3>1. b = a
        BY <1>0, <2>4
      <3>2. /\ args[a].status \in Allowed /\ since'[a] = since[a]
            /\ Live(t) => tasks'[t] = [tasks[t] EXCEPT !.status = args[a].status]
        BY <1>3, <2>4, <3>1, HandlerEffect
      <3>3. look[a].task # NoTask /\ (t \notin since[a] => tasks[t] = look[a].task)
        BY <1>0, <2>1, <2>4 DEF StatusInv
      <3>4. t \notin since'[a] =>
               tasks'[t] = [look[a].task EXCEPT !.status = args[a].status]
        BY <3>2, <3>3 DEF Live
      <3>5. QED
        BY <2>1, <2>4, <3>2, <3>3, <3>4 DEF StatusInv
    <2>5. CASE args[a].tool # "update_task_status"
      BY <2>1, <2>5 DEF StatusInv
    <2>6. QED
      BY <2>3, <2>4, <2>5
  <1>4. ASSUME NEW r \in Workers, CompensatorWrites(r) PROVE StatusInv(a)'
    <2>1. /\ r \in Requests /\ UNCHANGED <<args, look, applied>> /\ Others(r)
          /\ pc'[r] = "closeUndo"
      BY <1>4, CompensatorEffect
    <2>2. r # a
      BY <2>1
    <2>3. pc'[a] = pc[a]
      BY <1>0, <1>4, <2>2 DEF CompensatorWrites, CompensatorApplies, Goto
    <2>4. QED
      BY <2>1, <2>2, <2>3, StatusOthers
  <1>5. ASSUME NEW t \in Tasks, NEW status \in Allowed, PatchTask(t, status)
        PROVE  StatusInv(a)'
    <2>1. Others("people") /\ UNCHANGED <<applied, pc, args, look>>
      BY <1>5, PatchEffect DEF vars
    <2>2. QED
      BY <1>0, <2>1, StatusOthers
  <1>6. CASE QueueStep \/ UNCHANGED allVars
    <2>1. UNCHANGED <<tasks, since, args, look, applied>>
          /\ (pc[a] = "idle" => pc'[a] = "idle")
      BY <1>6, RestEffect DEF taskVars
    <2>2. pc'[a] = "handler" => pc[a] = "handler"
      <3>1. pc'[a] = "handler" => pc[a] \in {"idle", "handler"}
        BY <1>0, QueueStepOrStutter, QueueFrame DEF TaskInv
      <3>2. QED
        BY <2>1, <3>1
    <2>3. QED
      BY <1>0, <2>1, <2>2 DEF StatusInv
  <1>7. QED
    BY <1>1, <1>2, <1>3, <1>4, <1>5, <1>6 DEF TaskNext

\* The number read stays above those of the tasks that were not written since.
LEMMA NumberStep ==
  TaskInv /\ [TaskNext]_allVars => \A w \in Workers : NumberInv(w)'
  <1> SUFFICES ASSUME TaskInv, [TaskNext]_allVars, NEW w \in Workers
               PROVE  NumberInv(w)'
    OBVIOUS
  <1> DEFINE a == job[w].target
  <1>0. /\ NumberInv(w) /\ TaskTypeOK /\ "people" # w
        /\ pc \in [Workers -> PCs]
    BY TaskToolsAssumption DEF TaskInv, IInv, TypeOK
  <1>1. /\ pc[w] # "idle" => job'[w] = job[w] /\ pc'[w] # "idle"
        /\ pc'[w] = "handler" => pc[w] \in {"idle", "handler"}
    BY QueueStepOrStutter, QueueFrame DEF TaskInv
  <1>2. ASSUME HandlerReads(w) PROVE NumberInv(w)'
    <2>1. /\ pc[w] = "handler" /\ pc' = pc /\ job' = job
          /\ UNCHANGED <<args, tasks>>
          /\ look'[w].task = Reading(w)
          /\ args[a].tool = "create_task" =>
               /\ Reading(w).number = NextNumber(args[a].project)
               /\ Reading(w).project = args[a].project
      BY <1>2, ReadEffect DEF vars
    <2>2. /\ a \in Actions
          /\ \A t \in Tasks : tasks[t].project = args[a].project =>
                tasks[t].number < NextNumber(args[a].project)
      BY <1>0, <2>1, HandlerTarget, NextNumberIsNext DEF TaskTypeOK
    <2>3. QED
      BY <2>1, <2>2 DEF NumberInv
  <1>3. ASSUME ~HandlerReads(w) PROVE look'[w] = look[w]
    <2>1. ASSUME NEW u \in Workers, HandlerReads(u) PROVE look'[w] = look[w]
      BY <1>3, <2>1, ReadEffect
    <2>2. ASSUME NEW u \in Workers, HandlerWrites(u) \/ CompensatorWrites(u)
          PROVE  look'[w] = look[w]
      BY <2>2 DEF HandlerWrites, CompensatorWrites
    <2>3. ASSUME NEW b \in Actions, EnqueueTool(b) PROVE look'[w] = look[w]
      BY <2>3 DEF EnqueueTool
    <2>4. ASSUME NEW t \in Tasks, NEW status \in Allowed, PatchTask(t, status)
          PROVE  look'[w] = look[w]
      BY <2>4 DEF PatchTask
    <2>5. CASE QueueStep \/ UNCHANGED allVars
      BY <2>5, RestEffect DEF taskVars
    <2>6. QED
      BY <2>1, <2>2, <2>3, <2>4, <2>5 DEF TaskNext
  <1>4. ASSUME pc[w] = "handler", pc'[w] = "handler"
        PROVE  \E v : v # w /\ Others(v)
    <2>1. ASSUME NEW u \in Workers, HandlerReads(u) PROVE \A v : Others(v)
      BY <1>0, <2>1, NoWriteEffect DEF HandlerReads
    <2>2. ASSUME NEW u \in Workers, HandlerWrites(u) PROVE u # w /\ Others(u)
      BY <1>4, <2>2, HandlerEffect
    <2>3. ASSUME NEW u \in Workers, CompensatorWrites(u) PROVE u # w /\ Others(u)
      BY <1>4, <2>3, CompensatorEffect
    <2>4. ASSUME NEW b \in Actions, EnqueueTool(b) PROVE \A v : Others(v)
      BY <1>0, <2>4, NoWriteEffect DEF EnqueueTool
    <2>5. ASSUME NEW t \in Tasks, NEW status \in Allowed, PatchTask(t, status)
          PROVE  "people" # w /\ Others("people")
      BY <1>0, <2>5, PatchEffect
    <2>6. ASSUME QueueStep \/ UNCHANGED allVars PROVE \A v : Others(v)
      BY <1>0, <2>6, RestEffect, NoWriteEffect DEF taskVars
    <2>7. QED
      BY <1>0, <2>1, <2>2, <2>3, <2>4, <2>5, <2>6 DEF TaskNext
  <1>5. ASSUME ~HandlerReads(w) PROVE NumberInv(w)'
    <2>1. pc'[w] = "idle" => ~look'[w].read
      BY <1>0, <1>1, <1>3, <1>5 DEF NumberInv
    <2>2. ASSUME pc'[w] = "handler", look'[w].read,
                 args'[job'[w].target].tool = "create_task",
                 NEW t \in Tasks \ since'[w], tasks'[t].project = look'[w].task.project
          PROVE  tasks'[t].number < look'[w].task.number
      <3>1. pc[w] = "handler" /\ look'[w] = look[w] /\ job'[w] = job[w]
        BY <1>0, <1>1, <1>3, <1>5, <2>2 DEF NumberInv
      <3>2. args'[a] = args[a]
        BY <3>1, HandlerTarget, ArgsStay
      <3>3. PICK v : v # w /\ Others(v)
        BY <1>4, <2>2, <3>1
      <3>4. Watches(w) = Tasks
        BY <2>2, <3>1, <3>2 DEF Watches
      <3>5. t \notin since[w] /\ tasks'[t] = tasks[t]
        BY <2>2, <3>3, <3>4 DEF Others
      <3>6. args[a].tool = "create_task"
        BY <2>2, <3>1, <3>2
      <3>7. QED
        BY <1>0, <2>2, <3>1, <3>5, <3>6 DEF NumberInv
    <2>3. QED
      BY <2>1, <2>2 DEF NumberInv
  <1>6. QED
    BY <1>2, <1>5

-----------------------------------------------------------------------------
(* The invariant as a whole *)

\* The invariant holds before the first action.
LEMMA TaskInitEstablishes == TaskInit => TaskInv
  <1> SUFFICES ASSUME TaskInit PROVE TaskInv
    OBVIOUS
  <1> USE ActionQueueAssumption, TaskToolsAssumption
  <1>1. IInv
    BY InitEstablishes DEF TaskInit
  <1>2. /\ args = [a \in Actions |-> NoArgs]
        /\ look = [w \in Workers |-> NotRead]
        /\ since = [w \in Workers |-> {}]
        /\ edits = 0
        /\ pc = [w \in Workers |-> "idle"]
        /\ \A w \in Workers : job[w].target = w
        /\ reverted = [a \in Actions |-> 0]
    BY DEF TaskInit, Init
  <1>3. tasks \in [Tasks -> TaskRow]
    <2>1. PICK known \in [Seeds -> [project : Projects, number : SeedNumbers,
                                    status : {"open"}]] :
             tasks = [t \in Tasks |-> IF t \in Seeds THEN known[t] ELSE NoTask]
      BY DEF TaskInit
    <2>2. \A t \in Seeds : known[t] \in TaskRow
      <3> SUFFICES ASSUME NEW t \in Seeds PROVE known[t] \in TaskRow
        OBVIOUS
      <3>1. known[t] \in [project : Projects, number : SeedNumbers, status : {"open"}]
        OBVIOUS
      <3>2. SeedNumbers \subseteq Nat
        OBVIOUS
      <3>3. QED
        BY <3>1, <3>2 DEF TaskRow
    <2>3. NoTask \in TaskRow
      BY NoTaskType
    <2>4. QED
      BY <2>1, <2>2, <2>3
  <1>4. NoArgs \in ToolArgs /\ NoArgs.tool = "none"
    BY DEF NoArgs, ToolArgs
  <1>5. NotRead \in [read : BOOLEAN, task : TaskRow] /\ ~NotRead.read
    BY NoTaskType DEF NotRead
  <1>6. TaskTypeOK
    BY <1>2, <1>3, <1>4, <1>5 DEF TaskTypeOK
  <1>7. ASSUME NEW a \in Actions PROVE ToolInv(a) /\ CreateInv(a) /\ StatusInv(a)
    BY <1>2, <1>4 DEF ToolInv, CreateInv, StatusInv, Workers
  <1>8. ASSUME NEW w \in Workers PROVE NumberInv(w)
    BY <1>2, <1>5 DEF NumberInv
  <1>9. QED
    BY <1>1, <1>6, <1>7, <1>8 DEF TaskInv

\* Every step keeps the invariant: the queue's own part by its proof, the
\* rest part by part.
LEMMA TaskInvStep == TaskInv /\ [TaskNext]_allVars => TaskInv'
  <1>1. TaskInv /\ [TaskNext]_allVars => IInv'
    BY QueueStepOrStutter, StepPreserves DEF TaskInv
  <1>2. QED
    BY <1>1, TaskTypeStep, ToolStep, CreateStep, StatusStep, NumberStep DEF TaskInv

-----------------------------------------------------------------------------
\* The tools keep to the queue: whatever they and the people do to the tasks,
\* the rows of rex.action_queue move as ActionQueue says, so every theorem of
\* ActionQueueProofs holds with them.
THEOREM ToolsKeepToTheQueue == TaskSpec => Spec
  <1>1. TaskInit => Init
    BY DEF TaskInit
  <1>2. QED
    BY <1>1, QueueStepOrStutter, PTL DEF TaskSpec, Spec

\* Tasks, arguments and what the handlers read keep their types.
THEOREM TaskInvariance == TaskSpec => []TaskInv
  BY TaskInitEstablishes, TaskInvStep, PTL DEF TaskSpec

\* A created task whose creation was undone is gone for good, unless the undo
\* of a deletion put it back.
THEOREM UndoneTasksStayGone == TaskSpec => []UndoneCreationStaysGone
  <1>1. TaskInv => UndoneCreationStaysGone
    <2> SUFFICES ASSUME TaskInv, NEW a \in Actions, args[a].tool = "create_task",
                        row[a].status = "undone", Live(a)
                 PROVE  \E d \in Actions :
                           /\ args[d] = [tool |-> "delete_task", task |-> a]
                           /\ reverted[d] > 0
      BY DEF UndoneCreationStaysGone
    <2>1. reverted[a] > 0
      BY DEF TaskInv, IInv, ActionInv
    <2>2. QED
      BY <2>1 DEF TaskInv, CreateInv
  <1>2. QED
    BY <1>1, TaskInvariance, PTL

\* A coroutine that passes its handler's or its compensator's await with
\* success has taken the write of that handler or compensator.
LEMMA SuccessIsAWrite ==
  ASSUME TaskInv, [TaskNext]_allVars, NEW w \in Workers
  PROVE  /\ pc[w] = "handler" /\ pc'[w] = "record" => HandlerWrites(w)
         /\ pc[w] = "compensate" /\ pc'[w] = "closeUndo" => CompensatorWrites(w)
  <1> DEFINE Success == \/ pc[w] = "handler" /\ pc'[w] = "record"
                        \/ pc[w] = "compensate" /\ pc'[w] = "closeUndo"
  <1> SUFFICES ASSUME Success
               PROVE  \/ HandlerWrites(w) /\ pc[w] = "handler"
                      \/ CompensatorWrites(w) /\ pc[w] = "compensate"
    OBVIOUS
  <1>0. pc \in [Workers -> PCs] /\ Actions \subseteq Workers /\ Requests \subseteq Workers
    BY DEF TaskInv, IInv, TypeOK, Workers
  <1>1. ASSUME NEW v \in Workers, NEW from, NEW to, Goto(v, from, to)
        PROVE  v = w /\ pc[w] = from /\ pc'[w] = to
    BY <1>0, <1>1 DEF Goto
  <1>2. ASSUME NEW v \in Workers, NEW kind, NEW i, NEW next, Begin(v, kind, i, next)
        PROVE  FALSE
    BY <1>0, <1>2 DEF Begin
  <1>3. ASSUME NEW a \in Actions, EnqueueTool(a) PROVE FALSE
    <2>1. EnqueuePending(a) \/ EnqueueAuto(a)
      BY <1>3 DEF EnqueueTool
    <2>2. Begin(a, "enqueue", a, "done") \/ Begin(a, "enqueue", a, "handler")
      BY <2>1 DEF EnqueuePending, EnqueueAuto
    <2>3. QED
      BY <1>0, <1>2, <2>2
  <1>4. ASSUME UNCHANGED pc PROVE FALSE
    BY <1>4
  <1>5. ASSUME NEW v \in Workers, HandlerWrites(v)
        PROVE  HandlerWrites(w) /\ pc[w] = "handler"
    <2>1. Goto(v, "handler", "record")
      BY <1>5 DEF HandlerWrites, HandlerApplies
    <2>2. QED
      BY <1>1, <1>5, <2>1
  <1>6. ASSUME NEW v \in Workers, CompensatorWrites(v)
        PROVE  CompensatorWrites(w) /\ pc[w] = "compensate"
    <2>1. Goto(v, "compensate", "closeUndo")
      BY <1>6 DEF CompensatorWrites, CompensatorApplies
    <2>2. QED
      BY <1>1, <1>6, <2>1
  <1>7. ASSUME NEW v \in Workers,
               \/ HandlerRaises(v) \/ RecordSuccess(v) \/ RecordRaises(v)
               \/ RecordFailure(v) \/ CompensatorRaises(v) \/ FailUndo(v)
               \/ CloseUndo(v) \/ CloseOriginal(v) \/ Cancel(v)
        PROVE  FALSE
    <2>1. CASE Cancel(v)
      BY <1>0, <2>1 DEF Cancel
    <2>2. CASE ~Cancel(v)
      <3>1. \E from \in PCs, to \in PCs \ {"record", "closeUndo"} : Goto(v, from, to)
        BY <1>7, <2>2 DEF HandlerRaises, RecordSuccess, RecordRaises, RecordFailure,
             CompensatorRaises, FailUndo, CloseUndo, CloseOriginal,
             PCs, Open, HandlerPCs, UndoPCs
      <3>2. QED
        BY <1>1, <3>1
    <2>3. QED
      BY <2>1, <2>2
  <1>8. ASSUME NEW r \in Requests, Receive(r) PROVE FALSE
    <2>1. ASSUME NEW a \in Actions, Approve(r, a) PROVE FALSE
      BY <1>0, <1>2, <2>1 DEF Approve
    <2>2. ASSUME NEW a \in Actions, Undo(r, a) PROVE FALSE
      BY <1>0, <1>2, <2>2 DEF Undo
    <2>3. ASSUME NEW i \in Workers, Discard(r, i) PROVE FALSE
      BY <1>0, <1>2, <2>3 DEF Discard
    <2>4. QED
      BY <1>8, <2>1, <2>2, <2>3 DEF Receive
  <1>9. ASSUME NEW v \in Workers, HandlerReads(v) PROVE FALSE
    BY <1>4, <1>9 DEF HandlerReads, vars
  <1>10. ASSUME NEW t \in Tasks, NEW status \in Allowed, PatchTask(t, status)
         PROVE  FALSE
    BY <1>4, <1>10 DEF PatchTask, vars
  <1>11. ASSUME UNCHANGED allVars PROVE FALSE
    BY <1>4, <1>11 DEF allVars, vars
  <1>12. ASSUME QueueStep PROVE FALSE
    BY <1>7, <1>8, <1>12 DEF QueueStep
  <1>13. QED
    BY <1>3, <1>5, <1>6, <1>9, <1>10, <1>11, <1>12 DEF TaskNext

\* An undo whose task nobody else wrote since the handler read it puts the
\* task back exactly as the handler found it.
THEOREM UndoRestores == TaskSpec => LoneUndoRestores
  <1> DEFINE Restored(r) ==
        pc[r] = "compensate" /\ pc'[r] = "closeUndo" =>
            LET a == job[r].target
                t == IF args[a].tool = "create_task" THEN a ELSE args[a].task
                before == IF args[a].tool = "create_task" THEN NoTask
                                                          ELSE look[a].task
            IN  t \notin since[a] => tasks'[t] = before
  <1>1. TaskInv /\ [TaskNext]_allVars => \A r \in Requests : Restored(r)
    <2> SUFFICES ASSUME TaskInv, [TaskNext]_allVars, NEW r \in Requests,
                        pc[r] = "compensate", pc'[r] = "closeUndo",
                        NEW a, a = job[r].target
                 PROVE  /\ args[a].tool = "create_task" => tasks'[a] = NoTask
                        /\ args[a].tool # "create_task" /\ args[a].task \notin since[a]
                              => tasks'[args[a].task] = look[a].task
      OBVIOUS
    <2>1. r \in Workers /\ CompensatorWrites(r)
      BY SuccessIsAWrite DEF Workers
    <2>2. /\ a \in Actions /\ applied[a] > 0 /\ pc[a] = "done"
          /\ args[a].tool = "create_task" => tasks'[a] = NoTask
          /\ args[a].tool = "update_task_status" /\ Live(args[a].task) =>
               tasks'[args[a].task] =
                   [tasks[args[a].task] EXCEPT !.status = look[a].task.status]
          /\ args[a].tool = "delete_task" => tasks'[args[a].task] = look[a].task
      BY <2>1, CompensatorEffect
    <2>3. args[a].tool \in {"create_task", "update_task_status", "delete_task"}
      <3>1. args[a] \in ToolArgs /\ args[a].tool # "none"
        BY <2>2 DEF TaskInv, TaskTypeOK, ToolInv
      <3>2. QED
        BY <3>1, ArgFields
    <2>4. ASSUME args[a].tool = "update_task_status", args[a].task \notin since[a]
          PROVE  tasks'[args[a].task] = look[a].task
      <3> DEFINE t == args[a].task
      <3>1. /\ args[a].status \in Allowed
            /\ tasks[t] = [look[a].task EXCEPT !.status = args[a].status]
        BY <2>2, <2>4 DEF TaskInv, StatusInv
      <3>2. look[a].task \in TaskRow
        BY <2>2, IdleFacts DEF TaskInv, TaskTypeOK
      <3>3. tasks[t].status = args[a].status
        BY <3>1, <3>2 DEF TaskRow
      <3>4. Live(t)
        BY <3>1, <3>3, NoTaskType DEF Live
      <3>5. tasks'[t] = [[look[a].task EXCEPT !.status = args[a].status]
                            EXCEPT !.status = look[a].task.status]
        BY <2>2, <2>4, <3>1, <3>4
      <3>6. QED
        BY <3>1, <3>2, <3>5, StatusUpdate
    <2>5. QED
      BY <2>2, <2>3, <2>4
  <1>2. QED
    BY <1>1, TaskInvariance, PTL DEF TaskSpec, LoneUndoRestores

\* create_task gives a number another task of the project has only when that
\* task was written after the handler read the highest number.
THEOREM NumbersAreFresh == TaskSpec => NumberIsTakenOnlyByARace
  <1> DEFINE Fresh(w, t) ==
        /\ pc[w] = "handler" /\ pc'[w] = "record"
        /\ args[job[w].target].tool = "create_task"
        /\ Live(t) /\ t # w
        /\ tasks[t].project = tasks'[w].project
        /\ tasks[t].number = tasks'[w].number
        => t \in since[w]
  <1>1. TaskInv /\ [TaskNext]_allVars => \A w \in Workers, t \in Tasks : Fresh(w, t)
    <2> SUFFICES ASSUME TaskInv, [TaskNext]_allVars, NEW w \in Workers, NEW t \in Tasks,
                        pc[w] = "handler", pc'[w] = "record",
                        args[job[w].target].tool = "create_task",
                        tasks[t].project = tasks'[w].project,
                        tasks[t].number = tasks'[w].number
                 PROVE  t \in since[w]
      OBVIOUS
    <2>1. look[w].read /\ tasks'[w] = look[w].task
      BY SuccessIsAWrite, HandlerEffect
    <2>2. t \notin since[w] => tasks[t].number < look[w].task.number
      BY <2>1 DEF TaskInv, NumberInv
    <2>3. tasks[t].number \in Nat
      BY DEF TaskInv, TaskTypeOK, TaskRow
    <2>4. QED
      BY <2>1, <2>2, <2>3
  <1>2. QED
    BY <1>1, TaskInvariance, PTL DEF TaskSpec, NumberIsTakenOnlyByARace
=============================================================================
