---------------------------- MODULE DerivedRows ----------------------------
(***************************************************************************)
(* The closeout and the refreshable rows of one project behind the same    *)
(* sessions: a request of either kind loads and saves through RowWriters.  *)
(***************************************************************************)
EXTENDS Closeout, Refreshes

CONSTANT FirstMilestones  \* the milestones as they may be at first

ASSUME DerivedAssumption ==
    /\ DOMAIN FirstMilestones = Milestones
    /\ Lines \cap Punches = {}
    /\ (Lines \cup Punches) \cap ({List} \cup Items \cup Milestones) = {}

derivedVars == <<rowVars, calls, closeoutVars, day>>

NewLine ==
    [original_budget |-> 1, approved_changes |-> 0, committed_costs |-> 0,
     direct_costs |-> 0, pending_changes |-> 0,
     revised_budget |-> 0, projected_cost |-> 0, over_under |-> 0]

NewPunch == [status |-> "open", created_at |-> 0, closed_date |-> None,
             days_open |-> None]

DerivedInit ==
    /\ RowInit([k \in Rows |->
            CASE k \in Milestones -> Patched(NewMilestone, FirstMilestones[k])
              [] k \in Lines -> NewLine
              [] k \in Punches -> NewPunch
              [] OTHER -> None])
    /\ CloseoutInit /\ RefreshInit

DerivedNext ==
    \/ CloseoutNext /\ UNCHANGED day
    \/ RefreshNext /\ UNCHANGED closeoutVars

DerivedSpec == DerivedInit /\ [][DerivedNext]_derivedVars

-----------------------------------------------------------------------------
(* The inductive invariant behind the properties of Closeout and Refreshes *)

ColumnsOf(k) ==
    CASE k = List -> {"total_items", "completed_items", "percent_complete"}
      [] k \in Items -> {"status", "assignee"}
      [] k \in Milestones -> DOMAIN NewMilestone
      [] k \in Lines -> DOMAIN NewLine
      [] k \in Punches -> DOMAIN NewPunch

Kept == {List} \cup Items \cup Milestones \cup Lines \cup Punches

Has(x, columns) == x = [c \in columns |-> x[c]]

\* Every row that is there has the columns of its table, as loaded and as it
\* is, and no row that was loaded is gone.
RowTypes ==
    /\ \A k \in Kept : row[k] = None \/ Has(row[k], ColumnsOf(k))
    /\ held = [r \in Requests |-> held[r]]
    /\ \A r \in Requests : \A k \in DOMAIN held[r] :
        k \in Kept /\ row[k] # None /\ Has(held[r][k], ColumnsOf(k))

DoingTypes ==
    /\ doing = [r \in Requests |-> doing[r]]
    /\ \A r \in Requests : doing[r] # None =>
        /\ Has(doing[r], {"item", "to", "committed", "count"})
        /\ doing[r].item \in Items
        /\ doing[r].count # None => Has(doing[r].count, ColumnsOf(List))

\* Whoever knows a percentage of 100, be it the row, a session that loaded it
\* or a rollup under way, got it when every item was complete, or by hand.
Earned(counters) == counters.percent_complete >= 10000 => finished \/ byHand

PercentInv ==
    /\ Present # {} /\ Done = Present => finished
    /\ row[List] # None => Earned(row[List])
    /\ \A r \in Requests :
        /\ List \in DOMAIN held[r] => Earned(held[r][List])
        /\ doing[r] # None /\ doing[r].count # None => Earned(doing[r].count)

\* The amounts of a line are numbers, as loaded and as they are.
Whole(line) == \A c \in Amounts : line[c] \in Int

AmountTypes ==
    \A k \in Lines :
        /\ row[k] # None => Whole(row[k])
        /\ \A r \in Requests : k \in DOMAIN held[r] => Whole(held[r][k])

DerivedInv ==
    RowTypes /\ HeldIsCurrent /\ DoingTypes /\ AmountTypes /\ PercentInv
=============================================================================
