------------------------------ MODULE Payloads -------------------------------
(***************************************************************************)
(* The request bodies of the resources: the Create and the Update class of *)
(* app/schemas.  Of a body the model keeps                                 *)
(*   must     the columns a POST has to carry (the fields of the Create    *)
(*            class without a default);                                    *)
(*   patches  the references a PATCH may set (the fields of the Update     *)
(*            class that are references of the table).                     *)
(* Every reference of a table is a field of its Create class; no Update    *)
(* class has a project_id.                                                 *)
(***************************************************************************)

Body(must, patches) == [must |-> must, patches |-> patches]

(* schemas/foundation.py *)
ProjectBody == Body({"name"}, {})
CompanyBody == Body({"name", "company_type"}, {})
PersonBody == Body({"first_name", "last_name", "role_type"}, {})
RoleTemplateBody == Body({"name", "slug", "default_access_level"}, {})
ProjectMemberBody == Body({"project_id", "person_id"}, {})
ConnectorMappingBody == Body(
    {"rex_table", "rex_id", "connector", "external_id"}, {})
InsuranceCertificateBody == Body({"company_id", "policy_type"}, {})

(* schemas/schedule.py *)
ScheduleBody == Body({"project_id", "name", "schedule_type", "start_date"}, {})
(* A variant with a mistake: an activity moves to another schedule. *)
ScheduleActivityBodyMoves == Body(
    {"schedule_id", "name", "activity_type", "start_date", "end_date"},
    {"schedule_id", "parent_id", "cost_code_id"})

ScheduleActivityBody == Body(
    {"schedule_id", "name", "activity_type", "start_date", "end_date"},
    {"parent_id", "cost_code_id"})
ActivityLinkBody == Body(
    {"schedule_id", "from_activity_id", "to_activity_id"}, {})
ScheduleConstraintBody == Body(
    {"activity_id", "constraint_type", "source_type", "severity"}, {})
ScheduleSnapshotBody == Body(
    {"activity_id", "snapshot_date", "start_date", "end_date"}, {})

(* schemas/field_ops.py *)
DailyLogBody == Body({"project_id", "log_date"}, {})
(* A variant with a mistake: an entry moves to another log. *)
ManpowerEntryBodyMoves == Body(
    {"daily_log_id", "company_id", "worker_count", "hours"},
    {"daily_log_id"})

ManpowerEntryBody == Body(
    {"daily_log_id", "company_id", "worker_count", "hours"}, {})
PunchItemBody == Body(
    {"project_id", "punch_number", "title"}, {"drawing_id", "cost_code_id"})
InspectionBody == Body(
    {"project_id", "inspection_number", "title", "inspection_type",
     "scheduled_date"}, {})
InspectionItemBody == Body(
    {"inspection_id", "item_number", "description", "result"},
    {"punch_item_id"})
ObservationBody == Body(
    {"project_id", "observation_number", "title", "observation_type",
     "description"}, {})
SafetyIncidentBody == Body(
    {"project_id", "incident_number", "title", "incident_type", "severity",
     "incident_date", "description"}, {})
PhotoAlbumBody == Body({"project_id", "name"}, {})
PhotoBody == Body(
    {"project_id", "filename", "file_size", "content_type", "storage_url",
     "storage_key"}, {"photo_album_id"})
TaskBody == Body({"project_id", "task_number", "title", "due_date"}, {})
MeetingBody == Body(
    {"project_id", "meeting_type", "title", "meeting_date"}, {})
MeetingActionItemBody == Body(
    {"meeting_id", "item_number", "description"}, {"task_id"})

(* schemas/document_management.py *)
DrawingAreaBody == Body({"project_id", "name"}, {})
DrawingBody == Body(
    {"project_id", "drawing_area_id", "drawing_number", "title", "discipline"},
    {})
DrawingRevisionBody == Body(
    {"drawing_id", "revision_number", "revision_date", "image_url"}, {})
SpecificationBody == Body(
    {"project_id", "section_number", "title", "division"}, {"attachment_id"})
RfiBody == Body({"project_id", "rfi_number", "subject", "question"}, {})
SubmittalPackageBody == Body({"project_id", "package_number", "title"}, {})
SubmittalBody == Body(
    {"project_id", "submittal_number", "title", "submittal_type"}, {})
AttachmentBody == Body(
    {"project_id", "source_type", "source_id", "filename", "file_size",
     "content_type", "storage_url", "storage_key"}, {})
CorrespondenceBody == Body(
    {"project_id", "correspondence_number", "subject", "correspondence_type"},
    {})

(* schemas/closeout.py *)
CloseoutTemplateBody == Body({"name", "project_type"}, {})
CloseoutTemplateItemBody == Body(
    {"template_id", "category", "item_number", "name"}, {})
CloseoutChecklistBody == Body({"project_id"}, {})
CloseoutChecklistItemBody == Body(
    {"checklist_id", "category", "item_number", "name"}, {})
WarrantyBody == Body(
    {"project_id", "company_id", "scope_description", "warranty_type",
     "duration_months", "start_date"}, {})
WarrantyClaimBody == Body(
    {"warranty_id", "claim_number", "title", "description", "reported_date"},
    {})
WarrantyAlertBody == Body({"warranty_id", "alert_type", "alert_date"}, {})
CompletionMilestoneBody == Body(
    {"project_id", "milestone_type", "milestone_name"}, {})
OmManualBody == Body({"project_id", "spec_section"}, {})

(* schemas/financials.py *)
CostCodeBody == Body(
    {"project_id", "code", "name", "cost_type"}, {"parent_id"})
BudgetLineItemBody == Body({"project_id", "cost_code_id"}, {})
BudgetSnapshotBody == Body(
    {"project_id", "budget_line_item_id", "snapshot_date", "revised_budget",
     "projected_cost", "over_under", "committed_costs"}, {})
PrimeContractBody == Body({"project_id", "contract_number", "title"}, {})
CommitmentBody == Body(
    {"project_id", "vendor_id", "commitment_number", "title", "contract_type"},
    {})
CommitmentLineItemBody == Body(
    {"commitment_id", "cost_code_id", "description"}, {})
ChangeEventBody == Body(
    {"project_id", "event_number", "title", "change_reason", "event_type"},
    {"prime_contract_id", "rfi_id"})
PotentialChangeOrderBody == Body(
    {"change_event_id", "commitment_id", "pco_number", "title"},
    {"cost_code_id"})
CommitmentChangeOrderBody == Body({"commitment_id", "cco_number", "title"}, {})
PcoCcoLinkBody == Body({"pco_id", "cco_id"}, {})
BillingPeriodBody == Body(
    {"project_id", "period_number", "start_date", "end_date", "due_date"}, {})
DirectCostBody == Body(
    {"project_id", "cost_code_id", "description", "direct_cost_date"}, {})
PaymentApplicationBody == Body(
    {"commitment_id", "billing_period_id", "pay_app_number", "period_start",
     "period_end"}, {})
LienWaiverBody == Body(
    {"payment_application_id", "vendor_id", "waiver_type", "through_date"},
    {"attachment_id"})
ChangeEventLineItemBody == Body(
    {"change_event_id", "description"}, {"cost_code_id"})
=============================================================================
