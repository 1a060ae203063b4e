---------------------------- MODULE ProcoreRows ----------------------------
(***************************************************************************)
(* What becomes of one Procore row on its way to a rex table: the payload  *)
(* builders (connectors/procore/payloads.py), the mappers (mapper.py) and  *)
(* the constraints of the tables (migrations/rex2_canonical_ddl.sql,       *)
(* 024-027, 031-034).                                                      *)
(*                                                                         *)
(* A value is what these tell apart: "absent" (null or empty), "listed" (a *)
(* word of the column's CHECK, or any well-formed value of a column        *)
(* without one), "alias" (a word only the mapper knows), "foreign"         *)
(* (anything else), and after a conversion "default".  A number is itself  *)
(* or "absent".  Columns no conversion or constraint can refuse are left   *)
(* out.                                                                    *)
(***************************************************************************)

Values == {"absent", "listed", "alias", "foreign"}

Root == {"projects", "users", "vendors"}

Resources == Root \cup {"rfis", "submittals", "daily_logs",
                        "schedule_activities", "change_events", "inspections"}

-----------------------------------------------------------------------------
(* Conversions *)

\* dict.get(word, default) after lower() and replace().
Classified(v) == IF v \in {"listed", "alias"} THEN "listed" ELSE "default"

\* value or "(untitled ...)".
OrPlaceholder(v) == IF v = "absent" THEN "default" ELSE v

\* The first of two source fields that is not empty.
Either(v, w) == IF v # "absent" THEN v ELSE w

\* _iso and _iso_date: a text that is no ISO date raises ValueError.
DateRaises(v) == v = "foreign"

-----------------------------------------------------------------------------
(* The mappers: the constrained columns of the row *)

\* Nothing is normalised, and a status is written even when it is absent.
MapRfi(p) ==
    [rfi_number |-> p.number, subject |-> p.subject, question |-> p.question,
     status |-> p.status, cost_impact |-> p.cost_impact,
     schedule_impact |-> p.schedule_impact]

MapProject(p) == [name |-> OrPlaceholder(p.name), status |-> Classified(p.status)]

\* A user with neither name gets the two parts of full_name.
MapUser(p) ==
    LET nameless == p.first_name = "absent" /\ p.last_name = "absent"
    IN  [first_name |-> OrPlaceholder(IF nameless THEN p.full_first ELSE p.first_name),
         last_name |-> OrPlaceholder(IF nameless THEN p.full_rest ELSE p.last_name)]

MapVendor(p) == [name |-> OrPlaceholder(p.number)]

MapSubmittal(p) ==
    [submittal_number |-> p.number, title |-> p.title,
     status |-> Classified(p.status), submittal_type |-> Classified(p.type)]

\* Without a known status, is_published decides.
MapDailyLog(p) == [log_date |-> p.number, status |-> Classified(p.status)]

MapScheduleActivity(p) ==
    [name |-> p.name, start_date |-> p.start_date,
     end_date |-> Either(p.finish_date, p.end_date),
     percent_complete |-> OrPlaceholder(p.percent_complete)]

MapChangeEvent(p) ==
    [title |-> OrPlaceholder(p.title), status |-> Classified(p.status),
     change_reason |-> Classified(p.change_reason),
     event_type |-> Classified(p.event_type), scope |-> Classified(p.scope)]

MapInspection(p) ==
    [title |-> OrPlaceholder(Either(p.title, p.name)),
     inspection_type |-> Classified(p.type), status |-> Classified(p.status),
     scheduled_date |-> OrPlaceholder(Either(p.scheduled_date, p.start_date))]

\* The text columns of each payload that are parsed as dates.
RfiDates(p) == {p.due_date, p.closed_at}
ProjectDates(p) == {p.start_date, p.completion_date}
VendorDates(p) == {Either(p.insurance_gl, p.insurance)}
SubmittalDates(p) ==
    {p.due_date, Either(p.submit_by, p.submitted_date), p.approved_date}
ActivityDates(p) == {p.start_date, Either(p.finish_date, p.end_date)}
InspectionDates(p) == {Either(p.scheduled_date, p.start_date),
                       Either(p.completed_date, p.end_date)}

DatesOf(resource, p) ==
    CASE resource = "rfis"                -> RfiDates(p)
      [] resource = "projects"            -> ProjectDates(p)
      [] resource = "vendors"             -> VendorDates(p)
      [] resource = "submittals"          -> SubmittalDates(p)
      [] resource = "daily_logs"          -> {p.number}     \* its date
      [] resource = "schedule_activities" -> ActivityDates(p)
      [] resource = "inspections"         -> InspectionDates(p)
      [] OTHER -> {}

MapperRaises(resource, p) == \E v \in DatesOf(resource, p) : DateRaises(v)

-----------------------------------------------------------------------------
(* The tables *)

NotNull(v) == v # "absent"

\* A CHECK (column IN ...) or a range accepts NULL.
Check(v) == v \in {"absent", "listed", "default"}

AcceptsRfi(row) ==
    /\ NotNull(row.rfi_number) /\ NotNull(row.subject) /\ NotNull(row.question)
    /\ NotNull(row.status) /\ Check(row.status)
    /\ Check(row.cost_impact) /\ Check(row.schedule_impact)

AcceptsProject(row) == NotNull(row.name) /\ NotNull(row.status) /\ Check(row.status)

AcceptsPerson(row) == NotNull(row.first_name) /\ NotNull(row.last_name)

AcceptsCompany(row) == NotNull(row.name)

AcceptsSubmittal(row) ==
    /\ NotNull(row.submittal_number) /\ NotNull(row.title)
    /\ NotNull(row.status) /\ Check(row.status)
    /\ NotNull(row.submittal_type) /\ Check(row.submittal_type)

AcceptsDailyLog(row) ==
    NotNull(row.log_date) /\ NotNull(row.status) /\ Check(row.status)

AcceptsActivity(row) ==
    /\ NotNull(row.name) /\ NotNull(row.start_date) /\ NotNull(row.end_date)
    /\ NotNull(row.percent_complete) /\ Check(row.percent_complete)

AcceptsChangeEvent(row) ==
    /\ NotNull(row.title)
    /\ NotNull(row.status) /\ Check(row.status)
    /\ NotNull(row.change_reason) /\ Check(row.change_reason)
    /\ NotNull(row.event_type) /\ Check(row.event_type)
    /\ NotNull(row.scope) /\ Check(row.scope)

AcceptsInspection(row) ==
    /\ NotNull(row.title)
    /\ NotNull(row.inspection_type) /\ Check(row.inspection_type)
    /\ NotNull(row.status) /\ Check(row.status)
    /\ NotNull(row.scheduled_date)

\* The INSERT of the mapped row violates no constraint.
TableAccepts(resource, p) ==
    /\ resource = "rfis" => AcceptsRfi(MapRfi(p))
    /\ resource = "projects" => AcceptsProject(MapProject(p))
    /\ resource = "users" => AcceptsPerson(MapUser(p))
    /\ resource = "vendors" => AcceptsCompany(MapVendor(p))
    /\ resource = "submittals" => AcceptsSubmittal(MapSubmittal(p))
    /\ resource = "daily_logs" => AcceptsDailyLog(MapDailyLog(p))
    /\ resource = "schedule_activities" => AcceptsActivity(MapScheduleActivity(p))
    /\ resource = "change_events" => AcceptsChangeEvent(MapChangeEvent(p))
    /\ resource = "inspections" => AcceptsInspection(MapInspection(p))

-----------------------------------------------------------------------------
(* The natural keys of the upserts *)

\* The resources whose number falls back to the Procore id, so that each
\* source row has a key of its own.
FallBackOnId == {"users", "schedule_activities", "change_events", "inspections"}

\* The value ON CONFLICT compares, within the project.  Vendors without a name
\* share one; for the others an absent number is refused by the table, except
\* for projects, where it is NULL and equals nothing.
KeyOf(resource, id, p) ==
    IF p.number # "absent" THEN p.number
    ELSE IF resource \in FallBackOnId THEN id
    ELSE "default"

=============================================================================
