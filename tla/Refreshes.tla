----------------------------- MODULE Refreshes -----------------------------
(***************************************************************************)
(* Columns computed from other columns of their row, by a refresh endpoint *)
(* for one row and one for a whole project: the rollup of a budget line    *)
(* (services/financials.py) and days_open of a punch item                  *)
(* (services/field_ops.py).  The other columns are changed by PATCH, which *)
(* refreshes nothing and may set the computed columns too.  Amounts are    *)
(* whole, hence exact as floats.                                           *)
(***************************************************************************)
EXTENDS RowWriters, Integers, FiniteSets, FiniteSetsExt

CONSTANTS
    Lines,    \* budget lines of the project
    Punches,  \* its punch items
    Edits     \* what a PATCH of a line or a punch item sets

Amounts ==
    {"original_budget", "approved_changes", "committed_costs", "direct_costs",
     "pending_changes", "revised_budget", "projected_cost", "over_under"}

ASSUME RefreshesAssumption ==
    /\ Lines \cup Punches \subseteq Rows
    /\ IsFiniteSet(Lines)
    /\ \A e \in Edits : \A c \in DOMAIN e \cap Amounts : e[c] \in Int

VARIABLES day

-----------------------------------------------------------------------------
\* The difference is taken of the columns as they are stored.
RollupOfStored(line) ==
    [line EXCEPT !.revised_budget = line.original_budget + line.approved_changes,
                 !.projected_cost = line.committed_costs + line.direct_costs
                                        + line.pending_changes,
                 !.over_under = line.revised_budget - line.projected_cost]

\* compute_budget_line_item_rollup
Rollup(line) ==
    LET revised == line.original_budget + line.approved_changes
        projected == line.committed_costs + line.direct_costs
                        + line.pending_changes
    IN  [line EXCEPT !.revised_budget = revised,
                     !.projected_cost = projected,
                     !.over_under = revised - projected]

\* compute_punch_days_open: until it was closed, or today.
DaysOpen(p, today) ==
    LET end == IF p.status = "closed" /\ p.closed_date # None
               THEN p.closed_date ELSE today
    IN  IF end > p.created_at THEN end - p.created_at ELSE 0

Aged(p, today) == [p EXCEPT !.days_open = DaysOpen(p, today)]

Recomputed(k, was, today) ==
    IF k \in Lines THEN Rollup(was) ELSE Aged(was, today)

\* get_project_budget_summary adds the columns up as they are stored.
Total(column) == SumFunction([k \in Lines |-> row[k][column]])

-----------------------------------------------------------------------------
\* GET before PATCH or before the refresh of one row.
LoadOne(r) ==
    /\ Call /\ ~Busy(r)
    /\ \E k \in Lines \cup Punches : Load(r, {k})
    /\ UNCHANGED day

\* The SELECT of a project's lines, or of its punch items.
LoadAll(r) ==
    /\ Call /\ ~Busy(r)
    /\ \E ks \in {Lines, Punches} : Load(r, ks)
    /\ UNCHANGED day

Works(r) == Busy(r) /\ DOMAIN held[r] \subseteq Lines \cup Punches

\* refresh_..._rollup, refresh_..._rollups_for_project, refresh_punch_days_open
\* and its project variant: rows that would not change are left alone.
Refresh(r) ==
    /\ Works(r)
    /\ LET now == [k \in DOMAIN held[r] |-> Recomputed(k, held[r][k], day)]
           changed == {k \in DOMAIN now : now[k] # held[r][k]}
       IN  Save(r, [k \in changed |-> now[k]], {})
    /\ UNCHANGED <<calls, day>>

Edit(r) ==
    /\ Works(r)
    /\ \E k \in DOMAIN held[r], e \in Edits :
        /\ DOMAIN held[r] = {k} /\ DOMAIN e \subseteq DOMAIN held[r][k]
        /\ Save(r, [j \in {k} |-> Patched(held[r][k], e)], {})
    /\ UNCHANGED <<calls, day>>

RefreshDies(r) == Works(r) /\ Abandon(r) /\ UNCHANGED <<calls, day>>

NightFalls == Call /\ day' = day + 1 /\ RowsIdle

RefreshInit == day = 0

RefreshNext ==
    \/ \E r \in Requests :
        LoadOne(r) \/ LoadAll(r) \/ Refresh(r) \/ Edit(r) \/ RefreshDies(r)
    \/ NightFalls

-----------------------------------------------------------------------------
\* A refresh whose rows nobody else wrote meanwhile leaves every one of them
\* computed from its own columns, however wrong it was before; so the budget
\* page, which adds the stored columns up, agrees with itself.
LoneRefreshAddsUp ==
    [][\A r \in Requests :
        Refresh(r) /\ (\A k \in DOMAIN held[r] : <<r, k>> \notin stale) =>
            /\ \A k \in DOMAIN held[r] : row'[k] = Recomputed(k, row'[k], day)
            /\ DOMAIN held[r] = Lines =>
                Total("over_under")'
                    = Total("revised_budget")' - Total("projected_cost")'
      ]_<<rowVars, day>>
=============================================================================
