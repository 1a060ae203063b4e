------------------------------- MODULE Tables --------------------------------
(***************************************************************************)
(* The tables of rex, one per ORM class of app/models.  Of a table the     *)
(* model keeps                                                             *)
(*   refs   its columns that hold the id of a row of a project, and the    *)
(*          table each points into (declared foreign keys and those the    *)
(*          classes call deferred);                                        *)
(*   needs  its columns that are NOT NULL and get no value by themselves.  *)
(* References to companies, people, templates and accounts are left out:   *)
(* those rows belong to no project.                                        *)
(***************************************************************************)

Table(refs, needs) == [refs |-> refs, needs |-> needs]

(* A table whose rows point to no row of a project. *)
NoRefs == <<>>

(* models/foundation.py *)
ProjectTable == Table(NoRefs, {"name", "status"})
CompanyTable == Table(NoRefs, {"name", "company_type"})
PersonTable == Table(NoRefs, {"first_name", "last_name", "role_type"})
RoleTemplateTable == Table(NoRefs, {"name", "slug", "default_access_level"})
ProjectMemberTable == Table([project_id |-> "projects"],
    {"project_id", "person_id"})
ConnectorMappingTable == Table(NoRefs,
    {"rex_table", "rex_id", "connector", "external_id"})
InsuranceCertificateTable == Table(NoRefs, {"company_id", "policy_type"})

(* models/schedule.py *)
ScheduleTable == Table([project_id |-> "projects"],
    {"project_id", "name", "schedule_type", "start_date"})
ScheduleActivityTable == Table(
    [schedule_id |-> "schedules",
     parent_id |-> "schedule_activities",
     cost_code_id |-> "cost_codes"],
    {"schedule_id", "name", "activity_type", "start_date", "end_date"})
ActivityLinkTable == Table(
    [schedule_id |-> "schedules",
     from_activity_id |-> "schedule_activities",
     to_activity_id |-> "schedule_activities"],
    {"schedule_id", "from_activity_id", "to_activity_id"})
ScheduleConstraintTable == Table([activity_id |-> "schedule_activities"],
    {"activity_id", "constraint_type", "source_type", "severity"})
ScheduleSnapshotTable == Table([activity_id |-> "schedule_activities"],
    {"activity_id", "snapshot_date", "start_date", "end_date"})

(* models/field_ops.py *)
DailyLogTable == Table([project_id |-> "projects"], {"project_id", "log_date"})
ManpowerEntryTable == Table([daily_log_id |-> "daily_logs"],
    {"daily_log_id", "company_id", "worker_count", "hours"})
PunchItemTable == Table(
    [project_id |-> "projects",
     drawing_id |-> "drawings",
     cost_code_id |-> "cost_codes"],
    {"project_id", "punch_number", "title"})
InspectionTable == Table(
    [project_id |-> "projects",
     activity_id |-> "schedule_activities"],
    {"project_id", "inspection_number", "title", "inspection_type",
     "scheduled_date"})
InspectionItemTable == Table(
    [inspection_id |-> "inspections",
     punch_item_id |-> "punch_items"],
    {"inspection_id", "item_number", "description", "result"})
ObservationTable == Table([project_id |-> "projects"],
    {"project_id", "observation_number", "title", "observation_type",
     "description"})
SafetyIncidentTable == Table([project_id |-> "projects"],
    {"project_id", "incident_number", "title", "incident_type", "severity",
     "incident_date", "description"})
PhotoAlbumTable == Table([project_id |-> "projects"], {"project_id", "name"})
PhotoTable == Table(
    [project_id |-> "projects",
     photo_album_id |-> "photo_albums"],
    {"project_id", "filename", "file_size", "content_type", "storage_url",
     "storage_key"})
TaskTable == Table([project_id |-> "projects"],
    {"project_id", "task_number", "title", "due_date"})
MeetingTable == Table([project_id |-> "projects"],
    {"project_id", "meeting_type", "title", "meeting_date"})
MeetingActionItemTable == Table(
    [meeting_id |-> "meetings",
     task_id |-> "tasks"],
    {"meeting_id", "item_number", "description"})

(* models/document_management.py *)
DrawingAreaTable == Table([project_id |-> "projects"], {"project_id", "name"})
DrawingTable == Table(
    [project_id |-> "projects",
     drawing_area_id |-> "drawing_areas"],
    {"project_id", "drawing_area_id", "drawing_number", "title", "discipline"})
DrawingRevisionTable == Table([drawing_id |-> "drawings"],
    {"drawing_id", "revision_number", "revision_date", "image_url"})
SpecificationTable == Table(
    [project_id |-> "projects",
     attachment_id |-> "attachments"],
    {"project_id", "section_number", "title", "division"})
RfiTable == Table(
    [project_id |-> "projects",
     cost_code_id |-> "cost_codes",
     drawing_id |-> "drawings"],
    {"project_id", "rfi_number", "subject", "question"})
SubmittalPackageTable == Table([project_id |-> "projects"],
    {"project_id", "package_number", "title"})
SubmittalTable == Table(
    [project_id |-> "projects",
     submittal_package_id |-> "submittal_packages",
     cost_code_id |-> "cost_codes",
     schedule_activity_id |-> "schedule_activities"],
    {"project_id", "submittal_number", "title", "submittal_type"})
AttachmentTable == Table([project_id |-> "projects"],
    {"project_id", "source_type", "source_id", "filename", "file_size",
     "content_type", "storage_url", "storage_key"})
CorrespondenceTable == Table([project_id |-> "projects"],
    {"project_id", "correspondence_number", "subject", "correspondence_type"})

(* models/closeout.py *)
CloseoutTemplateTable == Table(NoRefs, {"name", "project_type"})
CloseoutTemplateItemTable == Table(NoRefs,
    {"template_id", "category", "item_number", "name"})
CloseoutChecklistTable == Table([project_id |-> "projects"], {"project_id"})
CloseoutChecklistItemTable == Table([checklist_id |-> "closeout_checklists"],
    {"checklist_id", "category", "item_number", "name"})
WarrantyTable == Table(
    [project_id |-> "projects",
     commitment_id |-> "commitments",
     cost_code_id |-> "cost_codes"],
    {"project_id", "company_id", "scope_description", "warranty_type",
     "duration_months", "start_date", "expiration_date"})
WarrantyClaimTable == Table([warranty_id |-> "warranties"],
    {"warranty_id", "claim_number", "title", "description", "reported_date"})
WarrantyAlertTable == Table([warranty_id |-> "warranties"],
    {"warranty_id", "alert_type", "alert_date"})
CompletionMilestoneTable == Table([project_id |-> "projects"],
    {"project_id", "milestone_type", "milestone_name"})
OmManualTable == Table([project_id |-> "projects"],
    {"project_id", "spec_section"})

(* models/financials.py *)
CostCodeTable == Table([project_id |-> "projects", parent_id |-> "cost_codes"],
    {"project_id", "code", "name", "cost_type"})
BudgetLineItemTable == Table(
    [project_id |-> "projects",
     cost_code_id |-> "cost_codes"],
    {"project_id", "cost_code_id"})
BudgetSnapshotTable == Table(
    [project_id |-> "projects",
     budget_line_item_id |-> "budget_line_items"],
    {"project_id", "budget_line_item_id", "snapshot_date", "revised_budget",
     "projected_cost", "over_under", "committed_costs"})
PrimeContractTable == Table([project_id |-> "projects"],
    {"project_id", "contract_number", "title"})
CommitmentTable == Table([project_id |-> "projects"],
    {"project_id", "vendor_id", "commitment_number", "title", "contract_type"})
CommitmentLineItemTable == Table(
    [commitment_id |-> "commitments",
     cost_code_id |-> "cost_codes"],
    {"commitment_id", "cost_code_id", "description"})
ChangeEventTable == Table(
    [project_id |-> "projects",
     prime_contract_id |-> "prime_contracts",
     rfi_id |-> "rfis"],
    {"project_id", "event_number", "title", "change_reason", "event_type"})
PotentialChangeOrderTable == Table(
    [change_event_id |-> "change_events",
     commitment_id |-> "commitments",
     cost_code_id |-> "cost_codes"],
    {"change_event_id", "commitment_id", "pco_number", "title"})
CommitmentChangeOrderTable == Table([commitment_id |-> "commitments"],
    {"commitment_id", "cco_number", "title"})
PcoCcoLinkTable == Table(
    [pco_id |-> "potential_change_orders",
     cco_id |-> "commitment_change_orders"],
    {"pco_id", "cco_id"})
BillingPeriodTable == Table([project_id |-> "projects"],
    {"project_id", "period_number", "start_date", "end_date", "due_date"})
DirectCostTable == Table(
    [project_id |-> "projects",
     cost_code_id |-> "cost_codes"],
    {"project_id", "cost_code_id", "description", "direct_cost_date"})
PaymentApplicationTable == Table(
    [commitment_id |-> "commitments",
     billing_period_id |-> "billing_periods"],
    {"commitment_id", "billing_period_id", "pay_app_number", "period_start",
     "period_end"})
LienWaiverTable == Table(
    [payment_application_id |-> "payment_applications",
     attachment_id |-> "attachments"],
    {"payment_application_id", "vendor_id", "waiver_type", "through_date"})
ChangeEventLineItemTable == Table(
    [change_event_id |-> "change_events",
     cost_code_id |-> "cost_codes"],
    {"change_event_id", "description"})
=============================================================================
