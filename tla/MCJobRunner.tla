---------------------------- MODULE MCJobRunner ----------------------------
(* Instances of JobRunner for TLC. *)
EXTENDS JobRunner, TLC

CONSTANTS m1, s1, s2, here, there

\* One job: an admin runs it by hand on an instance that also schedules it,
\* and the other instance schedules it too.
ThreeRuns == {m1, s1, s2}
ThreeJobOf == [r \in ThreeRuns |-> "snapshot"]
ThreeHomeOf == [r \in ThreeRuns |-> IF r = s2 THEN there ELSE here]

LockKeys == "snapshot" :> 1 @@ "purge" :> 2
=============================================================================
