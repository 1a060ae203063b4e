--------------------------- MODULE MCActionCards ---------------------------
(* Instances of ActionCards for TLC. *)
EXTENDS ActionCards, TLC

CONSTANTS task, rfi,       \* actions: create_task (undoable), answer_rfi
          r1, r2, r3       \* presses of a button

BothActions == {task, rfi}
OneAction == {task}
ThreeRequests == {r1, r2, r3}
TwoRequests == {r1, r2}
Symmetric3 == Permutations(ThreeRequests)
=============================================================================
