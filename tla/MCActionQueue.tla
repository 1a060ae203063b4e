--------------------------- MODULE MCActionQueue ---------------------------
\* Instances of ActionQueue for TLC.
EXTENDS ActionQueue, TLC

CONSTANTS task, rfi, bogus,   \* actions: create_task, answer_rfi, no such tool
          r1, r2, r3          \* requests

AllActions == {task, rfi, bogus}
TwoActions == {task, rfi}
OneAction == {task}

TwoRequests == {r1, r2}
ThreeRequests == {r1, r2, r3}

Symmetric3 == Permutations(ThreeRequests)

=============================================================================
