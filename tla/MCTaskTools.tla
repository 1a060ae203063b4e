---------------------------- MODULE MCTaskTools ----------------------------
\* Instances of TaskTools for TLC.
EXTENDS TaskTools, TLC

CONSTANTS a1, a2, r1, r2, r3, seed, p, q

TwoActions == {a1, a2}
TwoRequests == {r1, r2}
OneSeed == {seed}
OneProject == {p}
TwoProjects == {p, q}

\* The CHECK of rex.tasks, and the words of the tool's schema.
TableStatuses == {"open", "complete"}
ToolStatuses == {"complete", "blocked"}

\* A number other than 1: the numbers of a project have gaps.
FirstNumbers == {2}

Interchangeable == Permutations(TwoActions) \cup Permutations(TwoRequests)

=============================================================================
