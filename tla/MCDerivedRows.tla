--------------------------- MODULE MCDerivedRows ---------------------------
(* Instances of DerivedRows for TLC. *)
EXTENDS DerivedRows, TLC

CONSTANTS list, hold, co, i1, i2, i3, line, punch1, ann, bob, r1, r2

Types == hold :> "holdback_release" @@ co :> "final_co"
Triggers == hold :> "45_days_post_final_co" @@ co :> None
TwoPrimaries == {[person |-> ann, is_active |-> TRUE, is_primary |-> TRUE],
                 [person |-> bob, is_active |-> TRUE, is_primary |-> FALSE]}
\* The final certificate of occupancy has been received long ago.
FirstOnes ==
    hold :> [status |-> "pending"] @@
    co :> [status |-> "achieved", is_evidence_complete |-> TRUE,
           actual_date |-> 0]
Symmetry == Permutations({i1, i2, i3}) \cup Permutations({r1, r2})
MilestonePatches ==
    {[status |-> "overdue"], [actual_date |-> 0], [scheduled_date |-> 10],
     [status |-> "achieved", is_evidence_complete |-> TRUE]}
ListCounters == {[completed_items |-> 1], [percent_complete |-> 10000]}
WarrantySets == {{"active"}, {"claimed"}}
Punch == {[open |-> <<>>, closed |-> TRUE], [open |-> <<2>>, closed |-> FALSE]}
LineEdits ==
    {[original_budget |-> 5], [committed_costs |-> 3], [over_under |-> 9],
     [status |-> "closed", closed_date |-> 1]}
=============================================================================
