------------------------------ MODULE Closeout ------------------------------
(***************************************************************************)
(* Project closeout (services/closeout.py): a checklist whose row carries  *)
(* the count of its items, milestones that are evidenced and certified,    *)
(* and the gates and the readiness that are computed from both whenever    *)
(* somebody asks.                                                          *)
(*                                                                         *)
(* A PATCH of an item loads the item and the checklist, commits the item,  *)
(* counts the items in a transaction of its own and writes the count into  *)
(* the checklist as it was loaded at first.                                *)
(***************************************************************************)
EXTENDS RowWriters, Integers, FiniteSets, FiniteSetsExt

CONSTANTS
    List,        \* the project's checklist
    Items,
    Milestones,
    TypeOf,      \* each milestone's milestone_type
    Trigger,     \* its trigger_condition
    Members,     \* project members with the role the template asks for
    Patches,     \* what a PATCH of a milestone sets
    Counters,    \* the counters a POST or a PATCH of the checklist sets
    Today,
    Warranties,  \* the sets of warranty statuses the project may have
    PunchLists   \* its punch items: ages of the open ones, whether any is closed

ASSUME CloseoutAssumption ==
    /\ List \in Rows /\ Items \cup Milestones \subseteq Rows \ {List}
    /\ Items \cap Milestones = {}
    /\ TypeOf \in [Milestones -> STRING]
    /\ Today \in Int

VARIABLES
    doing,     \* the PATCH of an item each request carries out, None else
    warranty,  \* statuses of the project's warranties
    punch,     \* the project's punch list
    byHand,    \* somebody set the checklist's percentage
    finished   \* every item was complete at some moment

closeoutVars == <<doing, warranty, punch, byHand, finished>>

ItemStatuses == {"not_started", "in_progress", "complete", "n_a"}

Present == {i \in Items : row[i] # None}
Done == {i \in Present : row[i].status = "complete"}

-----------------------------------------------------------------------------
(* Counting *)

\* round(a / b, 0), halves to even.
Rounded(a, b) ==
    LET q == a \div b
        rest == 2 * (a % b)
    IN  IF rest > b \/ (rest = b /\ q % 2 = 1) THEN q + 1 ELSE q

\* percent_complete, in hundredths of a percent.
Percent(done, total) == IF total > 0 THEN Rounded(10000 * done, total) ELSE 0

\* The float is compared with the loaded Decimal: equal only when exact.
Inexact(percent) == IF percent % 25 = 0 THEN {} ELSE {"percent_complete"}

Counted(total, done) ==
    [total_items |-> total, completed_items |-> done,
     percent_complete |-> Percent(done, total)]

\* What the checklist's row should say.
Truth == Counted(Cardinality(Present), Cardinality(Done))

\* resolve_project_member_for_role: the only active one, or the only primary.
Resolved ==
    LET active == {m \in Members : m.is_active}
        primary == {m \in active : m.is_primary}
        TheOne(ms) == (CHOOSE m \in ms : TRUE).person
    IN  IF Cardinality(active) = 1 THEN TheOne(active)
        ELSE IF Cardinality(primary) = 1 THEN TheOne(primary)
        ELSE None

-----------------------------------------------------------------------------
(* Gates and readiness, computed when asked *)

Worst(results) ==
    IF "fail" \in results THEN "fail"
    ELSE IF "warning" \in results THEN "warning" ELSE "pass"

ListGate ==
    IF row[List] = None THEN "warning"
    ELSE IF row[List].percent_complete >= 10000 THEN "pass"
    ELSE IF row[List].percent_complete >= 8000 THEN "warning"
    ELSE "fail"

WarrantyGate ==
    IF warranty = {} THEN "warning"
    ELSE IF "claimed" \in warranty THEN "fail" ELSE "pass"

\* Ages in days of the open items, as a sequence; the average is rounded to a
\* tenth of a day before it is compared.
PunchGate ==
    LET n == Cardinality(DOMAIN punch.open)
        total == MapThenSumSet(LAMBDA i : punch.open[i], DOMAIN punch.open)
        aged == Cardinality({i \in DOMAIN punch.open : punch.open[i] > 30})
    IN  IF n = 0 THEN IF punch.closed THEN "pass" ELSE "warning"
        ELSE IF n > 10 \/ 10 * aged > n \/ Rounded(10 * total, n) > 210
        THEN "fail" ELSE "warning"

\* 45 days after the final certificate of occupancy, or after the opening.
BaseDates(m) ==
    IF Trigger[m] = "45_days_post_final_co"
    THEN {row[k].actual_date : k \in {k \in Milestones : TypeOf[k] = "final_co"}}
    ELSE {row[m].actual_date}

TimeGate(m) ==
    LET dates == BaseDates(m) \ {None}
    IN  IF Trigger[m] = None THEN {}
        ELSE IF dates = {} THEN {"warning"}
        ELSE {IF \A d \in dates : Today - d >= 45 THEN "pass" ELSE "fail"}

Gates(m) ==
    {IF row[m].status = "achieved" THEN "pass" ELSE "fail",
     IF row[m].is_evidence_complete THEN "pass" ELSE "fail",
     ListGate}
    \cup (IF TypeOf[m] = "holdback_release"
          THEN {WarrantyGate, PunchGate} ELSE {})
    \cup TimeGate(m)

GateStatus(m) == Worst(Gates(m))

ListIssue ==
    IF row[List] = None \/ row[List].percent_complete >= 10000 THEN {}
    ELSE IF row[List].percent_complete >= 8000 THEN {"warning"}
    ELSE {"fail"}

\* A holdback whose gates only warn is no issue.
IssuesOnFailure ==
    ListIssue
    \cup {"warning" : m \in {m \in Milestones :
              row[m].status = "pending" \/ ~row[m].is_evidence_complete}}
    \cup {GateStatus(m) : m \in {m \in Milestones :
              TypeOf[m] = "holdback_release" /\ GateStatus(m) = "fail"}}
    \cup {"fail" : s \in warranty \cap {"claimed"}}
    \cup {"warning" : s \in warranty \cap {"expiring_soon"}}

\* Severities of the open issues.
Issues ==
    ListIssue
    \cup {"warning" : m \in {m \in Milestones :
              row[m].status = "pending" \/ ~row[m].is_evidence_complete}}
    \cup {GateStatus(m) : m \in {m \in Milestones :
                                    TypeOf[m] = "holdback_release"}}
    \cup {"fail" : s \in warranty \cap {"claimed"}}
    \cup {"warning" : s \in warranty \cap {"expiring_soon"}}

Readiness ==
    IF row[List] = None /\ Milestones = {} THEN "not_started" ELSE Worst(Issues)

-----------------------------------------------------------------------------
(* Requests *)

Remember == finished' = (finished \/ (Present' # {} /\ Done' = Present'))

RowsOnly == UNCHANGED closeoutVars

\* create_checklist_from_template: checklist and items in one commit.
FromTemplate ==
    /\ Call
    /\ \E chosen \in SUBSET Items :
        Insert([k \in {List} \cup chosen |->
            IF k = List THEN Counted(Cardinality(chosen), 0)
            ELSE [status |-> "not_started", assignee |-> Resolved]])
    /\ RowsOnly

\* The counters are plain columns of the schemas of POST and PATCH.
SetsByHand(p) == byHand' = (byHand \/ "percent_complete" \in DOMAIN p)

\* POST of a checklist without items.
PostList ==
    /\ Call
    /\ \E p \in Counters :
        /\ Insert([k \in {List} |-> Patched(Counted(0, 0), p)])
        /\ SetsByHand(p)
    /\ UNCHANGED <<doing, warranty, punch, finished>>

\* POST of an item: a plain INSERT, the checklist is not counted again.
AddItem(i, st) ==
    /\ Call
    /\ row[List] # None
    /\ Insert([k \in {i} |-> [status |-> st, assignee |-> None]])
    /\ Remember
    /\ UNCHANGED <<doing, warranty, punch, byHand>>

\* PATCH of an item: the item, and then its checklist, are loaded.
ReadItem(r, i, st) ==
    /\ Call /\ ~Busy(r)
    /\ Load(r, {i})
    /\ doing' = [doing EXCEPT ![r] =
            [item |-> i, to |-> st, committed |-> FALSE, count |-> None]]
    /\ UNCHANGED <<warranty, punch, byHand, finished>>

ReadParent(r) ==
    /\ doing[r] # None /\ List \notin DOMAIN held[r]
    /\ Load(r, {List})
    /\ RowsOnly /\ UNCHANGED calls

CommitItem(r) ==
    /\ doing[r] # None /\ List \in DOMAIN held[r] /\ ~doing[r].committed
    /\ Commit(r, [k \in {doing[r].item} |->
                    [held[r][k] EXCEPT !.status = doing[r].to]], {})
    /\ doing' = [doing EXCEPT ![r].committed = TRUE]
    /\ Remember
    /\ UNCHANGED <<warranty, punch, byHand, calls>>

\* An item that does not apply counts as done.
CountSkippingNA(r) ==
    /\ doing[r] # None /\ doing[r].committed /\ doing[r].count = None
    /\ LET done == {i \in Present : row[i].status \in {"complete", "n_a"}} IN
        doing' = [doing EXCEPT ![r].count =
            Counted(Cardinality(Present), Cardinality(done))]
    /\ RowsIdle /\ UNCHANGED <<warranty, punch, byHand, finished, calls>>

\* rollup_checklist: the SELECT of the counts.
Count(r) ==
    /\ doing[r] # None /\ doing[r].committed /\ doing[r].count = None
    /\ doing' = [doing EXCEPT ![r].count = Truth]
    /\ RowsIdle /\ UNCHANGED <<warranty, punch, byHand, finished, calls>>

\* The total is left as it was: a PATCH adds no item.
WriteRollupKeepsTotal(r) ==
    /\ doing[r] # None /\ doing[r].count # None
    /\ Save(r, [k \in {List} |-> [doing[r].count EXCEPT
                    !.total_items = held[r][List].total_items]],
            Inexact(doing[r].count.percent_complete))
    /\ doing' = [doing EXCEPT ![r] = None]
    /\ UNCHANGED <<warranty, punch, byHand, finished, calls>>

\* db.get finds the checklist as it was loaded before the item was written.
WriteRollup(r) ==
    /\ doing[r] # None /\ doing[r].count # None
    /\ Save(r, [k \in {List} |-> doing[r].count],
            Inexact(doing[r].count.percent_complete))
    /\ doing' = [doing EXCEPT ![r] = None]
    /\ UNCHANGED <<warranty, punch, byHand, finished, calls>>

\* Loading a row for one of the requests below.
Open(r) ==
    /\ Call /\ ~Busy(r)
    /\ \E k \in {List} \cup Milestones : Load(r, {k})
    /\ RowsOnly

\* A request other than the PATCH of an item, with its one row k.
Holds(r, k) == doing[r] = None /\ k \in DOMAIN held[r]

PatchList(r) ==
    /\ Holds(r, List)
    /\ \E p \in Counters :
        /\ Save(r, [k \in {List} |-> Patched(held[r][k], p)],
                IF "percent_complete" \in DOMAIN p
                THEN Inexact(p.percent_complete) ELSE {})
        /\ SetsByHand(p)
    /\ UNCHANGED <<doing, warranty, punch, finished, calls>>

PatchMilestone(r, m) ==
    /\ Holds(r, m)
    /\ \E p \in Patches :
        Save(r, [k \in {m} |-> Patched(held[r][k], p)], {})
    /\ RowsOnly /\ UNCHANGED calls

Evaluate(r, m) ==
    /\ Holds(r, m)
    /\ \E complete \in BOOLEAN :
        Save(r, [k \in {m} |-> [held[r][k] EXCEPT
                    !.is_evidence_complete = complete]], {})
    /\ RowsOnly /\ UNCHANGED calls

Variance(actual, scheduled, old) ==
    IF None \in {actual, scheduled} THEN old ELSE actual - scheduled

\* The variance is computed from the actual date before the request's.
CertifiedLate(was, actual) ==
    [was EXCEPT !.status = "achieved", !.certified_by = TRUE,
        !.actual_date = IF actual = None THEN @ ELSE actual,
        !.variance_days = Variance(was.actual_date, was.scheduled_date, @)]

Certified(was, actual) ==
    LET date == IF actual = None THEN was.actual_date ELSE actual
    IN  [was EXCEPT !.status = "achieved", !.certified_by = TRUE,
            !.actual_date = date,
            !.variance_days = Variance(date, was.scheduled_date, @)]

\* certify_milestone goes on whatever the evidence; the answer warns.
Warns(r, m) == ~held[r][m].is_evidence_complete

Certify(r, m) ==
    /\ Holds(r, m)
    /\ \E actual \in {None, Today} :
        Save(r, [k \in {m} |-> Certified(held[r][k], actual)], {})
    /\ RowsOnly /\ UNCHANGED calls

\* A request dies, between any two of its steps.
Dies(r) ==
    /\ Abandon(r)
    /\ doing' = [doing EXCEPT ![r] = None]
    /\ UNCHANGED <<warranty, punch, byHand, finished, calls>>

\* Warranties and punch items change by requests of their own.
OthersChange ==
    /\ Call
    /\ warranty' \in Warranties /\ punch' \in PunchLists
    /\ <<warranty, punch>>' # <<warranty, punch>>
    /\ RowsIdle /\ UNCHANGED <<doing, byHand, finished>>

CloseoutInit ==
    /\ doing = [r \in Requests |-> None]
    /\ warranty \in Warranties /\ punch \in PunchLists
    /\ byHand = FALSE /\ finished = FALSE

NewMilestone ==
    [status |-> "pending", is_evidence_complete |-> FALSE, certified_by |-> FALSE,
     actual_date |-> None, scheduled_date |-> None, variance_days |-> None]

CloseoutNext ==
    \/ \E r \in Requests :
        \/ ReadParent(r) \/ CommitItem(r) \/ Count(r)
        \/ WriteRollup(r) \/ Open(r) \/ PatchList(r) \/ Dies(r)
        \/ \E i \in Items, st \in ItemStatuses : ReadItem(r, i, st)
        \/ \E m \in Milestones :
            PatchMilestone(r, m) \/ Evaluate(r, m) \/ Certify(r, m)
    \/ \E i \in Items, st \in ItemStatuses : AddItem(i, st)
    \/ FromTemplate \/ PostList \/ OthersChange

-----------------------------------------------------------------------------
\* A rollup whose checklist nobody else wrote meanwhile leaves the row as the
\* items were when it counted them, whatever the row said before: the loaded
\* row and the write of changed columns only do not keep an old value alive.
LoneRollupHeals ==
    [][\A r \in Requests :
        WriteRollup(r) /\ <<r, List>> \notin stale
            => row'[List] = doing[r].count]_<<rowVars, closeoutVars>>

\* A certificate that nobody overlapped carries the variance of its own dates,
\* and its answer warns exactly when the certified row lacks its evidence.
LoneCertificateIsTrue ==
    [][\A r \in Requests, m \in Milestones :
        Certify(r, m) /\ <<r, m>> \notin stale =>
            /\ row'[m].variance_days =
                Variance(row'[m].actual_date, row'[m].scheduled_date,
                         row[m].variance_days)
            /\ Warns(r, m) <=> ~row'[m].is_evidence_complete
      ]_<<rowVars, closeoutVars>>

\* However rollups race and whatever dies, the checklist's gate passes only if
\* every item was complete at some moment, or its percentage was set by hand.
GatePassedOnce ==
    row[List] # None /\ ListGate = "pass" => finished \/ byHand

\* The two places that grade a project agree: a project that is ready has no
\* gate of an achieved milestone that fails but the passing of time, and a
\* holdback that may be released.
ReadyMeansGatesAgree ==
    Readiness = "pass" =>
        \A m \in Milestones :
            /\ row[m].status = "achieved" => "fail" \notin Gates(m) \ TimeGate(m)
            /\ TypeOf[m] = "holdback_release" => GateStatus(m) = "pass"
=============================================================================
