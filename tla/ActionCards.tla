---------------------------- MODULE ActionCards ----------------------------
(***************************************************************************)
(* The assistant's action cards in one browser tab, on top of the queue:   *)
(* what useAssistantState.js, ActionCard.jsx and the handlers of           *)
(* ChatThread.jsx show and send, through lib/actionsApi.js and             *)
(* routes/actions.py, while the requests run in ActionQueue.               *)
(*                                                                         *)
(* Each press of a button is a request of its own.  The routes answer 200  *)
(* whatever the service did: also when it refused, when the handler failed *)
(* and when the compensator failed.                                        *)
(***************************************************************************)
EXTENDS ActionQueue, FiniteSets

CONSTANT MayDrop    \* whether the network may lose a response

ASSUME ActionCardsAssumption == MayDrop \in BOOLEAN

VARIABLES
    card,      \* the card of each action in activeConversation.messages
    asked,     \* the request each press made, as the client and the route see it
    dropped    \* actions for which some response was lost

cardVars == <<card, asked, dropped>>
tabVars == <<vars, cardVars>>

States == {"none", "approval", "committed", "failed", "undone"}
Card == [state : States, since : Time, busy : BOOLEAN]
Kind == {"approve", "discard", "undo"}

\* A request is "sent" until the service accepts it (then its pc runs) or
\* refuses it, and "answered" when the client has its response or lost it.
Asked == [kind : Kind \cup {"none"}, action : Actions \cup Requests,
          server : {"new", "sent", "accepted", "refused"}, answered : BOOLEAN]

CardsInit ==
    /\ Init
    /\ card = [a \in Actions |-> [state |-> "none", since |-> 0, busy |-> FALSE]]
    /\ asked = [r \in Requests |-> [kind |-> "none", action |-> r,
                                    server |-> "new", answered |-> FALSE]]
    /\ dropped = {}

-----------------------------------------------------------------------------
\* A variant of Settle: a discarded card goes on offering its action.
SettleKeepsOffer(a, state) ==
    card' = [card EXCEPT
                ![a].state = IF state = "undone" /\ @ = "approval" THEN @ ELSE state,
                ![a].busy = FALSE,
                ![a].since = IF state = "committed" THEN now ELSE @]

\* ACTION_STATE_UPDATED: a patch of the card that ends its busy time.
Settle(a, state) ==
    card' = [card EXCEPT ![a].state = state, ![a].busy = FALSE,
                         ![a].since = IF state = "committed" THEN now ELSE @]

Pending(r) == asked[r].server # "new" /\ ~asked[r].answered

\* The buttons of ActionCard.jsx.  Retry is the approve handler.
Offered(kind, a) ==
    CASE kind = "approve" -> card[a].state \in {"approval", "failed"}
      [] kind = "discard" -> card[a].state = "approval"
      [] kind = "undo"    -> /\ card[a].state = "committed"
                             /\ now - card[a].since < UndoWindow

\* What the handler shows for a 200, and for anything else that arrives.
OnOk(kind) == IF kind = "approve" THEN "committed" ELSE "undone"

OnError(kind, state) == IF kind = "discard" THEN state ELSE "failed"

-----------------------------------------------------------------------------
(* Variants of definitions below, each with a mistake the code could have. *)

\* Buttons that stay enabled during the round trip.
PressTwice(r) ==
    /\ asked[r].server = "new"
    /\ \E a \in Actions, kind \in Kind :
          /\ Offered(kind, a)
          /\ card' = [card EXCEPT ![a].busy = TRUE]
          /\ asked' = [asked EXCEPT ![r] = [kind |-> kind, action |-> a,
                                            server |-> "sent", answered |-> FALSE]]
    /\ UNCHANGED <<vars, dropped>>

\* Retry that puts the action back without looking at its status.
AcceptRetries(r) ==
    /\ asked[r].server = "sent" /\ asked[r].kind = "approve"
    /\ Begin(r, "approve", asked[r].action, "handler")
    /\ asked' = [asked EXCEPT ![r].server = "accepted"]
    /\ UNCHANGED <<row, applied, reverted, now, card, dropped>>

\* A handler that only knows what to do with a 200.
AnswerOkOnly(r) ==
    LET a == asked[r].action
    IN  /\ Pending(r)
        /\ \/ asked[r].server = "refused"
           \/ asked[r].server = "accepted" /\ pc[r] = "done"
        /\ Settle(a, OnOk(asked[r].kind))
        /\ asked' = [asked EXCEPT ![r].answered = TRUE]
        /\ UNCHANGED <<vars, dropped>>

-----------------------------------------------------------------------------
\* The frame _dispatch_tool_use yields once enqueue returned, and the reducer
\* turns into a card.  (When enqueue raised, the card has no action_id and its
\* buttons reach no row.)
Show(a) ==
    /\ pc[a] = "done" /\ card[a].state = "none"
    /\ Settle(a, CASE row[a].status = "pending_approval" -> "approval"
                   [] row[a].status = "auto_committed"   -> "committed"
                   [] OTHER                              -> "failed")
    /\ UNCHANGED <<vars, asked, dropped>>

Press(r) ==
    /\ asked[r].server = "new"
    /\ \E a \in Actions, kind \in Kind :
          /\ Offered(kind, a) /\ ~card[a].busy
          /\ card' = [card EXCEPT ![a].busy = TRUE]
          /\ asked' = [asked EXCEPT ![r] = [kind |-> kind, action |-> a,
                                            server |-> "sent", answered |-> FALSE]]
    /\ UNCHANGED <<vars, dropped>>

\* Dismiss a failed card: nothing is sent.
Dismiss(a) ==
    /\ card[a].state = "failed" /\ ~card[a].busy
    /\ Settle(a, "undone")
    /\ UNCHANGED <<vars, asked, dropped>>

Accept(r) ==
    LET a == asked[r].action
    IN  /\ asked[r].server = "sent"
        /\ CASE asked[r].kind = "approve" -> Approve(r, a)
             [] asked[r].kind = "discard" -> Discard(r, a)
             [] asked[r].kind = "undo"    -> Undo(r, a)
        /\ asked' = [asked EXCEPT ![r].server = "accepted"]
        /\ UNCHANGED <<card, dropped>>

\* The early returns of commit and undo.
Refuse(r) ==
    LET a == asked[r].action
    IN  /\ asked[r].server = "sent"
        /\ \/ /\ asked[r].kind = "approve"
              /\ row[a].status # "pending_approval"
           \/ /\ asked[r].kind = "undo"
              /\ \/ row[a].status # "auto_committed"
                 \/ ~InUndoWindow(a)
                 \/ a \notin Compensable
        /\ asked' = [asked EXCEPT ![r].server = "refused"]
        /\ UNCHANGED <<vars, card, dropped>>

\* A request that was cancelled or raised answers 500.
Answer(r) ==
    LET a == asked[r].action
    IN  /\ Pending(r)
        /\ \/ /\ \/ asked[r].server = "refused"
                 \/ asked[r].server = "accepted" /\ pc[r] = "done"
              /\ Settle(a, OnOk(asked[r].kind))
           \/ /\ asked[r].server = "accepted" /\ pc[r] = "cancelled"
              /\ Settle(a, OnError(asked[r].kind, card[a].state))
        /\ asked' = [asked EXCEPT ![r].answered = TRUE]
        /\ UNCHANGED <<vars, dropped>>

\* fetch rejects while the request goes on.  approve and discard catch it;
\* undoAction and handleUndo do not.
Drop(r) ==
    LET a == asked[r].action
    IN  /\ MayDrop
        /\ Pending(r)
        /\ IF asked[r].kind = "undo" THEN UNCHANGED card
           ELSE Settle(a, OnError(asked[r].kind, card[a].state))
        /\ asked' = [asked EXCEPT ![r].answered = TRUE]
        /\ dropped' = dropped \cup {a}
        /\ UNCHANGED vars

ServerStep ==
    /\ \/ \E a \in Actions : Enqueue(a)
       \/ \E w \in Workers : Continue(w) \/ Cancel(w)
       \/ Tick
    /\ UNCHANGED cardVars

ClientStep(r) == Press(r) \/ Accept(r) \/ Refuse(r) \/ Answer(r) \/ Drop(r)

CardsNext ==
    \/ ServerStep
    \/ \E a \in Actions : Show(a) \/ Dismiss(a)
    \/ \E r \in Requests : ClientStep(r)

CardsSpec == CardsInit /\ [][CardsNext]_tabVars

\* A request that was sent is received, its coroutine runs on, and a response
\* that is not lost arrives.
CardsFairSpec ==
    /\ CardsSpec
    /\ \A w \in Workers : WF_tabVars(Continue(w) /\ UNCHANGED cardVars)
    /\ \A r \in Requests : /\ WF_tabVars(Accept(r) \/ Refuse(r))
                           /\ WF_tabVars(Answer(r))

-----------------------------------------------------------------------------
\* The cards and requests have the types the reducer and the routes give them.
CardsTypeOK ==
    /\ card \in [Actions -> Card]
    /\ asked \in [Requests -> Asked]
    /\ dropped \subseteq Actions

\* Seen from one tab, an action takes effect at most once and is undone at
\* most once, unless a response was lost or a request died: the queue lets two
\* overlapping requests both run, and only the cards keep them apart.
OnceFromOneTab ==
    \A a \in Actions :
        \/ applied[a] <= 1 /\ reverted[a] <= 1
        \/ a \in dropped
        \/ \E w \in Workers : pc[w] = "cancelled" /\ job[w].target = a

\* A card is busy while its request is out, and only then, unless a response
\* was lost.
BusyIsOneRequest ==
    \A a \in Actions :
        \/ Cardinality({r \in Requests : asked[r].action = a /\ Pending(r)})
              = IF card[a].busy THEN 1 ELSE 0
        \/ a \in dropped

\* A card does not offer an action that is off the queue's table, and while
\* it waits for approval the row does: nothing but this tab moves the row.
ApprovalCardIsPending ==
    \A a \in Actions :
        card[a].state = "approval" /\ ~card[a].busy /\ a \notin dropped
            => row[a].status = "pending_approval"

\* A busy card becomes usable again, whatever the service answers, unless a
\* response was lost.
BusyClears == \A a \in Actions : card[a].busy ~> ~card[a].busy \/ a \in dropped

\* Cards only drive the queue through its own actions.
DrivesTheQueue == Spec

=============================================================================
