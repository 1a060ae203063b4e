------------------------------- MODULE Routes --------------------------------
(***************************************************************************)
(* The resources of the HTTP interface: one definition per file of         *)
(* app/routes that serves a table, and the lists of app/services.  A route *)
(* says to which project a row belongs (the references its GET, POST and   *)
(* PATCH follow) and which access level writing asks for; a list says by   *)
(* which joins it finds that project.                                      *)
(***************************************************************************)
EXTENDS Tables, Payloads, Sequences

(* Write levels: two of ACCESS_LEVEL_RANK, and what needs no membership. *)
Standard == "standard"
Field    == "field_only"
Anyone  == "any authenticated user"
Bosses  == "admin or vp"
NoRoute == "no route"

(* Who reads a row: those who read the project its references lead to      *)
(* (via), those who share a readable project with it, or everybody.        *)
InProject(via) == [by |-> "project", via |-> via]
Own            == InProject(<<"project_id">>)
Via(parents)   == InProject(parents \o <<"project_id">>)
Itself         == InProject(<<>>)
Colleagues     == [by |-> "colleagues", via |-> <<>>]
Open           == [by |-> "everyone", via |-> <<>>]

(* fills: columns the service computes before it inserts. *)
Resource(table, body, scope, level) ==
    [table |-> table, body |-> body, scope |-> scope,
     post |-> level, patch |-> level, fills |-> {}]
Appended(table, body, scope, level) ==
    [Resource(table, body, scope, level) EXCEPT !.patch = NoRoute]

(* foundation.py *)
ProjectsRoute == Resource(ProjectTable, ProjectBody, Itself, Anyone)
CompaniesRoute == Resource(CompanyTable, CompanyBody, Colleagues, Anyone)
PeopleRoute == Resource(PersonTable, PersonBody, Colleagues, Anyone)
RoleTemplatesRoute ==
    Resource(RoleTemplateTable, RoleTemplateBody, Open, Anyone)
ProjectMembersRoute ==
    Resource(ProjectMemberTable, ProjectMemberBody, Own, Anyone)
ConnectorMappingsRoute ==
    Resource(ConnectorMappingTable, ConnectorMappingBody, Open, Anyone)
InsuranceCertificatesRoute ==
    Resource(InsuranceCertificateTable, InsuranceCertificateBody, Open, Bosses)

(* schedule.py *)
SchedulesRoute == Resource(ScheduleTable, ScheduleBody, Own, Standard)
ScheduleActivitiesRoute ==
    Resource(ScheduleActivityTable, ScheduleActivityBody,
        Via(<<"schedule_id">>), Standard)
ActivityLinksRoute ==
    Resource(ActivityLinkTable, ActivityLinkBody,
        Via(<<"schedule_id">>), Standard)
ScheduleConstraintsRoute ==
    Resource(ScheduleConstraintTable, ScheduleConstraintBody,
        Via(<<"activity_id", "schedule_id">>), Standard)
ScheduleSnapshotsRoute ==
    Appended(ScheduleSnapshotTable, ScheduleSnapshotBody,
        Via(<<"activity_id", "schedule_id">>), Standard)

(* field_ops.py *)
DailyLogsRoute == Resource(DailyLogTable, DailyLogBody, Own, Field)
ManpowerEntriesRoute ==
    Resource(ManpowerEntryTable, ManpowerEntryBody,
        Via(<<"daily_log_id">>), Field)
PunchItemsRoute == Resource(PunchItemTable, PunchItemBody, Own, Field)
InspectionsRoute == Resource(InspectionTable, InspectionBody, Own, Field)
InspectionItemsRoute ==
    Resource(InspectionItemTable, InspectionItemBody,
        Via(<<"inspection_id">>), Field)
ObservationsRoute == Resource(ObservationTable, ObservationBody, Own, Field)
SafetyIncidentsRoute ==
    Resource(SafetyIncidentTable, SafetyIncidentBody, Own, Field)
PhotoAlbumsRoute == Resource(PhotoAlbumTable, PhotoAlbumBody, Own, Field)
PhotosRoute == Resource(PhotoTable, PhotoBody, Own, Field)
TasksRoute == Resource(TaskTable, TaskBody, Own, Field)
MeetingsRoute == Resource(MeetingTable, MeetingBody, Own, Field)
MeetingActionItemsRoute ==
    Resource(MeetingActionItemTable, MeetingActionItemBody,
        Via(<<"meeting_id">>), Field)

(* document_management.py *)
DrawingAreasRoute == Resource(DrawingAreaTable, DrawingAreaBody, Own, Standard)
DrawingsRoute == Resource(DrawingTable, DrawingBody, Own, Standard)
DrawingRevisionsRoute ==
    Appended(DrawingRevisionTable, DrawingRevisionBody,
        Via(<<"drawing_id">>), Standard)
SpecificationsRoute ==
    Resource(SpecificationTable, SpecificationBody, Own, Standard)
RfisRoute == Resource(RfiTable, RfiBody, Own, Standard)
SubmittalPackagesRoute ==
    Resource(SubmittalPackageTable, SubmittalPackageBody, Own, Standard)
SubmittalsRoute == Resource(SubmittalTable, SubmittalBody, Own, Standard)
AttachmentsRoute == Resource(AttachmentTable, AttachmentBody, Own, Standard)
CorrespondenceRoute ==
    Resource(CorrespondenceTable, CorrespondenceBody, Own, Standard)

(* closeout.py *)
CloseoutTemplatesRoute ==
    Resource(CloseoutTemplateTable, CloseoutTemplateBody, Open, Anyone)
CloseoutTemplateItemsRoute ==
    Resource(CloseoutTemplateItemTable, CloseoutTemplateItemBody, Open, Anyone)
CloseoutChecklistsRoute ==
    Resource(CloseoutChecklistTable, CloseoutChecklistBody, Own, Standard)
CloseoutChecklistItemsRoute ==
    Resource(CloseoutChecklistItemTable, CloseoutChecklistItemBody,
        Via(<<"checklist_id">>), Standard)
WarrantiesRoute ==
    [Resource(WarrantyTable, WarrantyBody, Own, Standard)
     EXCEPT !.fills = {"expiration_date"}]
WarrantyClaimsRoute ==
    Resource(WarrantyClaimTable, WarrantyClaimBody,
        Via(<<"warranty_id">>), Standard)
WarrantyAlertsRoute ==
    Resource(WarrantyAlertTable, WarrantyAlertBody,
        Via(<<"warranty_id">>), Standard)
CompletionMilestonesRoute ==
    Resource(CompletionMilestoneTable, CompletionMilestoneBody, Own, Standard)
OmManualsRoute == Resource(OmManualTable, OmManualBody, Own, Standard)

(* financials.py *)
CostCodesRoute == Resource(CostCodeTable, CostCodeBody, Own, Standard)
BudgetLineItemsRoute ==
    Resource(BudgetLineItemTable, BudgetLineItemBody, Own, Standard)
BudgetSnapshotsRoute ==
    Appended(BudgetSnapshotTable, BudgetSnapshotBody, Own, Standard)
PrimeContractsRoute ==
    Resource(PrimeContractTable, PrimeContractBody, Own, Standard)
CommitmentsRoute == Resource(CommitmentTable, CommitmentBody, Own, Standard)
CommitmentLineItemsRoute ==
    Resource(CommitmentLineItemTable, CommitmentLineItemBody,
        Via(<<"commitment_id">>), Standard)
ChangeEventsRoute == Resource(ChangeEventTable, ChangeEventBody, Own, Anyone)
PotentialChangeOrdersRoute ==
    Resource(PotentialChangeOrderTable, PotentialChangeOrderBody,
        Via(<<"change_event_id">>), Standard)
CommitmentChangeOrdersRoute ==
    Resource(CommitmentChangeOrderTable, CommitmentChangeOrderBody,
        Via(<<"commitment_id">>), Standard)
PcoCcoLinksRoute ==
    Appended(PcoCcoLinkTable, PcoCcoLinkBody,
        Via(<<"pco_id", "change_event_id">>), Standard)
BillingPeriodsRoute ==
    Resource(BillingPeriodTable, BillingPeriodBody, Own, Standard)
DirectCostsRoute == Resource(DirectCostTable, DirectCostBody, Own, Standard)

(* A variant with a mistake: the detail routes look the project up     *)
(* through the other parent.                                               *)
PaymentApplicationsRouteByPeriod ==
    Resource(PaymentApplicationTable, PaymentApplicationBody,
        Via(<<"billing_period_id">>), Standard)

PaymentApplicationsRoute ==
    Resource(PaymentApplicationTable, PaymentApplicationBody,
        Via(<<"commitment_id">>), Standard)
LienWaiversRoute ==
    Resource(LienWaiverTable, LienWaiverBody,
        Via(<<"payment_application_id", "commitment_id">>), Standard)
ChangeEventLineItemsRoute ==
    Resource(ChangeEventLineItemTable, ChangeEventLineItemBody,
        Via(<<"change_event_id">>), Standard)

(* The routers the application includes. *)
Routes == [
    projects |-> ProjectsRoute,
    companies |-> CompaniesRoute,
    people |-> PeopleRoute,
    role_templates |-> RoleTemplatesRoute,
    project_members |-> ProjectMembersRoute,
    connector_mappings |-> ConnectorMappingsRoute,
    insurance_certificates |-> InsuranceCertificatesRoute,
    schedules |-> SchedulesRoute,
    schedule_activities |-> ScheduleActivitiesRoute,
    activity_links |-> ActivityLinksRoute,
    schedule_constraints |-> ScheduleConstraintsRoute,
    schedule_snapshots |-> ScheduleSnapshotsRoute,
    daily_logs |-> DailyLogsRoute,
    manpower_entries |-> ManpowerEntriesRoute,
    punch_items |-> PunchItemsRoute,
    inspections |-> InspectionsRoute,
    inspection_items |-> InspectionItemsRoute,
    observations |-> ObservationsRoute,
    safety_incidents |-> SafetyIncidentsRoute,
    photo_albums |-> PhotoAlbumsRoute,
    photos |-> PhotosRoute,
    tasks |-> TasksRoute,
    meetings |-> MeetingsRoute,
    meeting_action_items |-> MeetingActionItemsRoute,
    drawing_areas |-> DrawingAreasRoute,
    drawings |-> DrawingsRoute,
    drawing_revisions |-> DrawingRevisionsRoute,
    specifications |-> SpecificationsRoute,
    rfis |-> RfisRoute,
    submittal_packages |-> SubmittalPackagesRoute,
    submittals |-> SubmittalsRoute,
    attachments |-> AttachmentsRoute,
    correspondence |-> CorrespondenceRoute,
    closeout_templates |-> CloseoutTemplatesRoute,
    closeout_template_items |-> CloseoutTemplateItemsRoute,
    closeout_checklists |-> CloseoutChecklistsRoute,
    closeout_checklist_items |-> CloseoutChecklistItemsRoute,
    warranties |-> WarrantiesRoute,
    warranty_claims |-> WarrantyClaimsRoute,
    warranty_alerts |-> WarrantyAlertsRoute,
    completion_milestones |-> CompletionMilestonesRoute,
    om_manuals |-> OmManualsRoute,
    cost_codes |-> CostCodesRoute,
    budget_line_items |-> BudgetLineItemsRoute,
    budget_snapshots |-> BudgetSnapshotsRoute,
    prime_contracts |-> PrimeContractsRoute,
    commitments |-> CommitmentsRoute,
    commitment_line_items |-> CommitmentLineItemsRoute,
    change_events |-> ChangeEventsRoute,
    potential_change_orders |-> PotentialChangeOrdersRoute,
    commitment_change_orders |-> CommitmentChangeOrdersRoute,
    pco_cco_links |-> PcoCcoLinksRoute,
    billing_periods |-> BillingPeriodsRoute,
    direct_costs |-> DirectCostsRoute,
    payment_applications |-> PaymentApplicationsRoute,
    lien_waivers |-> LienWaiversRoute,
    change_event_line_items |-> ChangeEventLineItemsRoute]

-----------------------------------------------------------------------------
(* The list functions of app/services (and of two routers). *)
FoundationLists == [
    projects |-> Itself, companies |-> Colleagues, people |-> Colleagues,
    role_templates |-> Open, project_members |-> Own,
    connector_mappings |-> Open]

ScheduleLists == [
    schedules |-> Own, schedule_activities |-> Via(<<"schedule_id">>),
    activity_links |-> Via(<<"schedule_id">>),
    schedule_constraints |-> Via(<<"activity_id", "schedule_id">>),
    schedule_snapshots |-> Via(<<"activity_id", "schedule_id">>)]

FieldOpsLists == [
    daily_logs |-> Own, manpower_entries |-> Via(<<"daily_log_id">>),
    punch_items |-> Own, inspections |-> Own,
    inspection_items |-> Via(<<"inspection_id">>), observations |-> Own,
    safety_incidents |-> Own, photo_albums |-> Own, photos |-> Own,
    tasks |-> Own, meetings |-> Own,
    meeting_action_items |-> Via(<<"meeting_id">>)]

DocumentLists == [
    drawing_areas |-> Own, drawings |-> Own,
    drawing_revisions |-> Via(<<"drawing_id">>), specifications |-> Own,
    rfis |-> Own, submittal_packages |-> Own, submittals |-> Own,
    attachments |-> Own, correspondence |-> Own]

CloseoutLists == [
    closeout_templates |-> Open, closeout_template_items |-> Open,
    closeout_checklists |-> Own,
    closeout_checklist_items |-> Via(<<"checklist_id">>), warranties |-> Own,
    warranty_claims |-> Via(<<"warranty_id">>),
    warranty_alerts |-> Via(<<"warranty_id">>), completion_milestones |-> Own]

FinancialLists == [
    cost_codes |-> Own, budget_line_items |-> Own, budget_snapshots |-> Own,
    prime_contracts |-> Own, commitments |-> Own,
    commitment_line_items |-> Via(<<"commitment_id">>), change_events |-> Own,
    potential_change_orders |-> Via(<<"change_event_id">>),
    commitment_change_orders |-> Via(<<"commitment_id">>),
    pco_cco_links |-> Via(<<"pco_id", "change_event_id">>),
    billing_periods |-> Own, direct_costs |-> Own,
    payment_applications |-> Via(<<"commitment_id">>),
    lien_waivers |-> Via(<<"payment_application_id", "commitment_id">>),
    change_event_line_items |-> Via(<<"change_event_id">>)]

InsuranceLists == [insurance_certificates |-> Open]

OmManualLists == [om_manuals |-> Own]

Lists == [k \in DOMAIN Routes |->
    CASE k \in DOMAIN FoundationLists -> FoundationLists[k]
      [] k \in DOMAIN ScheduleLists   -> ScheduleLists[k]
      [] k \in DOMAIN FieldOpsLists   -> FieldOpsLists[k]
      [] k \in DOMAIN DocumentLists   -> DocumentLists[k]
      [] k \in DOMAIN CloseoutLists   -> CloseoutLists[k]
      [] k \in DOMAIN FinancialLists  -> FinancialLists[k]
      [] k \in DOMAIN InsuranceLists  -> InsuranceLists[k]
      [] k \in DOMAIN OmManualLists   -> OmManualLists[k]]
=============================================================================
