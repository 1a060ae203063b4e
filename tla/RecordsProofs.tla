----------------------------- MODULE RecordsProofs -----------------------------
(***************************************************************************)
(* TLAPS proofs about Records, for any users, levels and memberships and   *)
(* any family of tables with any numbers of rows.  Facts about the 57      *)
(* resources come first, one step per resource: no PATCH sets a reference  *)
(* that a scope follows, and every list has the scope of its table.  From  *)
(* the first, what a handler checked holds when it writes, and no row      *)
(* changes its project; the second makes the lists agree with the detail   *)
(* routes.                                                                 *)
(***************************************************************************)
EXTENDS Records, TLAPS

-----------------------------------------------------------------------------
(* The resources *)

\* What a resource is made of can be read off it.
LEMMA ResourceFields ==
    ASSUME NEW table, NEW body, NEW scope, NEW level
    PROVE  LET r == Resource(table, body, scope, level)
           IN  r.table = table /\ r.body = body /\ r.scope = scope
  BY DEF Resource

\* The variants of a resource differ in who may patch or in what is filled.
LEMMA ChangedFields ==
    ASSUME NEW r, r = [f \in DOMAIN r |-> r[f]],
           DOMAIN r = {"table", "body", "scope", "post", "patch", "fills"},
           NEW x, NEW y,
           NEW s \in {[r EXCEPT !.patch = x], [r EXCEPT !.fills = y]}
    PROVE  s.table = r.table /\ s.body = r.body /\ s.scope = r.scope
  OBVIOUS

\* A resource as a function, for the lemma before.
LEMMA ResourceIsARecord ==
    ASSUME NEW table, NEW body, NEW scope, NEW level
    PROVE  LET r == Resource(table, body, scope, level)
           IN  /\ r = [f \in DOMAIN r |-> r[f]]
               /\ DOMAIN r = {"table", "body", "scope",
                               "post", "patch", "fills"}
  BY DEF Resource

\* Resources without a PATCH route have a table, a body and a scope too.
LEMMA AppendedFields ==
    ASSUME NEW table, NEW body, NEW scope, NEW level
    PROVE  LET r == Appended(table, body, scope, level)
           IN  r.table = table /\ r.body = body /\ r.scope = scope
  BY ChangedFields, ResourceIsARecord, ResourceFields DEF Appended

\* So have the warranties, whose service computes a column.
LEMMA WarrantiesFields ==
    /\ WarrantiesRoute.table = WarrantyTable
    /\ WarrantiesRoute.body = WarrantyBody
    /\ WarrantiesRoute.scope = Own
  BY ChangedFields, ResourceIsARecord, ResourceFields DEF WarrantiesRoute
-----------------------------------------------------------------------------
(* What no PATCH sets, and what the lists follow *)

\* No PATCH of the kind sets the reference.
Pinned(k, col) == col \notin Routes[k].body.patches

\* No PATCH sets a reference that the kind's scope follows, on any row along
\* the way, and there are at most three of them.
ScopeIsPinned(k) ==
    LET via == Routes[k].scope.via
        k1  == Parent(k, via[1])
        k2  == Parent(k1, via[2])
    IN  /\ Len(via) \in 0..3
        /\ Len(via) > 0 => Pinned(k, via[1])
        /\ Len(via) > 1 => Pinned(k1, via[2])
        /\ Len(via) > 2 => Pinned(k2, via[3])

\* Scopes of one reference: the project_id of the row.
LEMMA OwnIsPinned ==
    ASSUME NEW k, Routes[k].scope.via = <<"project_id">>, Pinned(k, "project_id")
    PROVE  ScopeIsPinned(k)
<1> DEFINE via == <<"project_id">>
<1>1. Routes[k].scope.via = via
  OBVIOUS
<1>2. Len(via) = 1 /\ via[1] = "project_id"
  OBVIOUS
<1> HIDE DEF via
<1> QED BY <1>1, <1>2 DEF ScopeIsPinned

\* Scopes of two: those of the rows whose parent has the project_id.
LEMMA ViaOneIsPinned ==
    ASSUME NEW k, NEW c, Routes[k].scope.via = <<c, "project_id">>,
           Pinned(k, c), Pinned(Parent(k, c), "project_id")
    PROVE  ScopeIsPinned(k)
<1> DEFINE via == <<c, "project_id">>
<1>1. Routes[k].scope.via = via
  OBVIOUS
<1>2. Len(via) = 2 /\ via[1] = c /\ via[2] = "project_id"
  OBVIOUS
<1> HIDE DEF via
<1> QED BY <1>1, <1>2 DEF ScopeIsPinned

\* Scopes of three.
LEMMA ViaTwoIsPinned ==
    ASSUME NEW k, NEW c, NEW d,
           Routes[k].scope.via = <<c, d, "project_id">>,
           Pinned(k, c), Pinned(Parent(k, c), d),
           Pinned(Parent(Parent(k, c), d), "project_id")
    PROVE  ScopeIsPinned(k)
<1> DEFINE via == <<c, d, "project_id">>
<1>1. Routes[k].scope.via = via
  OBVIOUS
<1>2. Len(via) = 3 /\ via[1] = c /\ via[2] = d /\ via[3] = "project_id"
  OBVIOUS
<1> HIDE DEF via
<1> QED BY <1>1, <1>2 DEF ScopeIsPinned

\* The Update classes, all of them: none lets a client re-point a reference
\* that a route of app/routes follows to find the project.
LEMMA ScopesArePinned == \A k \in Kinds : ScopeIsPinned(k)
<1> SUFFICES ASSUME NEW k \in Kinds PROVE ScopeIsPinned(k)
  OBVIOUS
<1>1. CASE k = "projects"
  BY <1>1, ResourceFields DEF Routes, ProjectsRoute, Itself, InProject,
     ScopeIsPinned
<1>2. CASE k = "companies"
  BY <1>2, ResourceFields DEF Routes, CompaniesRoute, Colleagues,
     ScopeIsPinned
<1>3. CASE k = "people"
  BY <1>3, ResourceFields DEF Routes, PeopleRoute, Colleagues, ScopeIsPinned
<1>4. CASE k = "role_templates"
  BY <1>4, ResourceFields DEF Routes, RoleTemplatesRoute, Open, ScopeIsPinned
<1>5. CASE k = "project_members"
  BY <1>5, OwnIsPinned, ResourceFields DEF Routes, ProjectMembersRoute,
     ProjectMemberBody, Body, Pinned, Own, InProject
<1>6. CASE k = "connector_mappings"
  BY <1>6, ResourceFields DEF Routes, ConnectorMappingsRoute, Open,
     ScopeIsPinned
<1>7. CASE k = "insurance_certificates"
  BY <1>7, ResourceFields DEF Routes, InsuranceCertificatesRoute, Open,
     ScopeIsPinned
<1>8. CASE k = "schedules"
  BY <1>8, OwnIsPinned, ResourceFields DEF Routes, SchedulesRoute,
     ScheduleBody, Body, Pinned, Own, InProject
<1>9. CASE k = "schedule_activities"
  <2>1. /\ Routes[k].scope.via = <<"schedule_id", "project_id">>
        /\ Pinned(k, "schedule_id") /\ Parent(k, "schedule_id") = "schedules"
        /\ Pinned("schedules", "project_id")
    BY <1>9, ResourceFields DEF Routes, ScheduleActivitiesRoute,
       ScheduleActivityBody, Body, Via, InProject, Parent, Pinned,
       ScheduleActivityTable, Table, SchedulesRoute, ScheduleBody
  <2> QED BY <2>1, ViaOneIsPinned
<1>10. CASE k = "activity_links"
  <2>1. /\ Routes[k].scope.via = <<"schedule_id", "project_id">>
        /\ Pinned(k, "schedule_id") /\ Parent(k, "schedule_id") = "schedules"
        /\ Pinned("schedules", "project_id")
    BY <1>10, ResourceFields DEF Routes, ActivityLinksRoute, ActivityLinkBody,
       Body, Via, InProject, Parent, Pinned, ActivityLinkTable, Table,
       SchedulesRoute, ScheduleBody
  <2> QED BY <2>1, ViaOneIsPinned
<1>11. CASE k = "schedule_constraints"
  <2>1. /\ Routes[k].scope.via = <<"activity_id", "schedule_id", "project_id">>
        /\ Pinned(k, "activity_id")
        /\ Parent(k, "activity_id") = "schedule_activities"
        /\ Pinned("schedule_activities", "schedule_id")
        /\ Parent("schedule_activities", "schedule_id") = "schedules"
        /\ Pinned("schedules", "project_id")
    BY <1>11, ResourceFields DEF Routes, ScheduleConstraintsRoute,
       ScheduleConstraintBody, Body, Via, InProject, Parent, Pinned,
       ScheduleConstraintTable, Table, ScheduleActivitiesRoute,
       ScheduleActivityBody, ScheduleActivityTable, SchedulesRoute,
       ScheduleBody
  <2> QED BY <2>1, ViaTwoIsPinned
<1>12. CASE k = "schedule_snapshots"
  <2>1. /\ Routes[k].scope.via = <<"activity_id", "schedule_id", "project_id">>
        /\ Pinned(k, "activity_id")
        /\ Parent(k, "activity_id") = "schedule_activities"
        /\ Pinned("schedule_activities", "schedule_id")
        /\ Parent("schedule_activities", "schedule_id") = "schedules"
        /\ Pinned("schedules", "project_id")
    BY <1>12, AppendedFields, ResourceFields DEF Routes,
       ScheduleSnapshotsRoute, ScheduleSnapshotBody, Body, Via, InProject,
       Parent, Pinned, ScheduleSnapshotTable, Table, ScheduleActivitiesRoute,
       ScheduleActivityBody, ScheduleActivityTable, SchedulesRoute,
       ScheduleBody
  <2> QED BY <2>1, ViaTwoIsPinned
<1>13. CASE k = "daily_logs"
  BY <1>13, OwnIsPinned, ResourceFields DEF Routes, DailyLogsRoute,
     DailyLogBody, Body, Pinned, Own, InProject
<1>14. CASE k = "manpower_entries"
  <2>1. /\ Routes[k].scope.via = <<"daily_log_id", "project_id">>
        /\ Pinned(k, "daily_log_id") /\ Parent(k, "daily_log_id") = "daily_logs"
        /\ Pinned("daily_logs", "project_id")
    BY <1>14, ResourceFields DEF Routes, ManpowerEntriesRoute,
       ManpowerEntryBody, Body, Via, InProject, Parent, Pinned,
       ManpowerEntryTable, Table, DailyLogsRoute, DailyLogBody
  <2> QED BY <2>1, ViaOneIsPinned
<1>15. CASE k = "punch_items"
  BY <1>15, OwnIsPinned, ResourceFields DEF Routes, PunchItemsRoute,
     PunchItemBody, Body, Pinned, Own, InProject
<1>16. CASE k = "inspections"
  BY <1>16, OwnIsPinned, ResourceFields DEF Routes, InspectionsRoute,
     InspectionBody, Body, Pinned, Own, InProject
<1>17. CASE k = "inspection_items"
  <2>1. /\ Routes[k].scope.via = <<"inspection_id", "project_id">>
        /\ Pinned(k, "inspection_id")
        /\ Parent(k, "inspection_id") = "inspections"
        /\ Pinned("inspections", "project_id")
    BY <1>17, ResourceFields DEF Routes, InspectionItemsRoute,
       InspectionItemBody, Body, Via, InProject, Parent, Pinned,
       InspectionItemTable, Table, InspectionsRoute, InspectionBody
  <2> QED BY <2>1, ViaOneIsPinned
<1>18. CASE k = "observations"
  BY <1>18, OwnIsPinned, ResourceFields DEF Routes, ObservationsRoute,
     ObservationBody, Body, Pinned, Own, InProject
<1>19. CASE k = "safety_incidents"
  BY <1>19, OwnIsPinned, ResourceFields DEF Routes, SafetyIncidentsRoute,
     SafetyIncidentBody, Body, Pinned, Own, InProject
<1>20. CASE k = "photo_albums"
  BY <1>20, OwnIsPinned, ResourceFields DEF Routes, PhotoAlbumsRoute,
     PhotoAlbumBody, Body, Pinned, Own, InProject
<1>21. CASE k = "photos"
  BY <1>21, OwnIsPinned, ResourceFields DEF Routes, PhotosRoute, PhotoBody,
     Body, Pinned, Own, InProject
<1>22. CASE k = "tasks"
  BY <1>22, OwnIsPinned, ResourceFields DEF Routes, TasksRoute, TaskBody,
     Body, Pinned, Own, InProject
<1>23. CASE k = "meetings"
  BY <1>23, OwnIsPinned, ResourceFields DEF Routes, MeetingsRoute,
     MeetingBody, Body, Pinned, Own, InProject
<1>24. CASE k = "meeting_action_items"
  <2>1. /\ Routes[k].scope.via = <<"meeting_id", "project_id">>
        /\ Pinned(k, "meeting_id") /\ Parent(k, "meeting_id") = "meetings"
        /\ Pinned("meetings", "project_id")
    BY <1>24, ResourceFields DEF Routes, MeetingActionItemsRoute,
       MeetingActionItemBody, Body, Via, InProject, Parent, Pinned,
       MeetingActionItemTable, Table, MeetingsRoute, MeetingBody
  <2> QED BY <2>1, ViaOneIsPinned
<1>25. CASE k = "drawing_areas"
  BY <1>25, OwnIsPinned, ResourceFields DEF Routes, DrawingAreasRoute,
     DrawingAreaBody, Body, Pinned, Own, InProject
<1>26. CASE k = "drawings"
  BY <1>26, OwnIsPinned, ResourceFields DEF Routes, DrawingsRoute,
     DrawingBody, Body, Pinned, Own, InProject
<1>27. CASE k = "drawing_revisions"
  <2>1. /\ Routes[k].scope.via = <<"drawing_id", "project_id">>
        /\ Pinned(k, "drawing_id") /\ Parent(k, "drawing_id") = "drawings"
        /\ Pinned("drawings", "project_id")
    BY <1>27, AppendedFields, ResourceFields DEF Routes,
       DrawingRevisionsRoute, DrawingRevisionBody, Body, Via, InProject,
       Parent, Pinned, DrawingRevisionTable, Table, DrawingsRoute, DrawingBody
  <2> QED BY <2>1, ViaOneIsPinned
<1>28. CASE k = "specifications"
  BY <1>28, OwnIsPinned, ResourceFields DEF Routes, SpecificationsRoute,
     SpecificationBody, Body, Pinned, Own, InProject
<1>29. CASE k = "rfis"
  BY <1>29, OwnIsPinned, ResourceFields DEF Routes, RfisRoute, RfiBody, Body,
     Pinned, Own, InProject
<1>30. CASE k = "submittal_packages"
  BY <1>30, OwnIsPinned, ResourceFields DEF Routes, SubmittalPackagesRoute,
     SubmittalPackageBody, Body, Pinned, Own, InProject
<1>31. CASE k = "submittals"
  BY <1>31, OwnIsPinned, ResourceFields DEF Routes, SubmittalsRoute,
     SubmittalBody, Body, Pinned, Own, InProject
<1>32. CASE k = "attachments"
  BY <1>32, OwnIsPinned, ResourceFields DEF Routes, AttachmentsRoute,
     AttachmentBody, Body, Pinned, Own, InProject
<1>33. CASE k = "correspondence"
  BY <1>33, OwnIsPinned, ResourceFields DEF Routes, CorrespondenceRoute,
     CorrespondenceBody, Body, Pinned, Own, InProject
<1>34. CASE k = "closeout_templates"
  BY <1>34, ResourceFields DEF Routes, CloseoutTemplatesRoute, Open,
     ScopeIsPinned
<1>35. CASE k = "closeout_template_items"
  BY <1>35, ResourceFields DEF Routes, CloseoutTemplateItemsRoute, Open,
     ScopeIsPinned
<1>36. CASE k = "closeout_checklists"
  BY <1>36, OwnIsPinned, ResourceFields DEF Routes, CloseoutChecklistsRoute,
     CloseoutChecklistBody, Body, Pinned, Own, InProject
<1>37. CASE k = "closeout_checklist_items"
  <2>1. /\ Routes[k].scope.via = <<"checklist_id", "project_id">>
        /\ Pinned(k, "checklist_id")
        /\ Parent(k, "checklist_id") = "closeout_checklists"
        /\ Pinned("closeout_checklists", "project_id")
    BY <1>37, ResourceFields DEF Routes, CloseoutChecklistItemsRoute,
       CloseoutChecklistItemBody, Body, Via, InProject, Parent, Pinned,
       CloseoutChecklistItemTable, Table, CloseoutChecklistsRoute,
       CloseoutChecklistBody
  <2> QED BY <2>1, ViaOneIsPinned
<1>38. CASE k = "warranties"
  BY <1>38, OwnIsPinned, WarrantiesFields DEF Routes, WarrantyBody, Body,
     Pinned, Own, InProject
<1>39. CASE k = "warranty_claims"
  <2>1. /\ Routes[k].scope.via = <<"warranty_id", "project_id">>
        /\ Pinned(k, "warranty_id") /\ Parent(k, "warranty_id") = "warranties"
        /\ Pinned("warranties", "project_id")
    BY <1>39, ResourceFields, WarrantiesFields DEF Routes,
       WarrantyClaimsRoute, WarrantyClaimBody, Body, Via, InProject, Parent,
       Pinned, WarrantyClaimTable, Table, WarrantyBody
  <2> QED BY <2>1, ViaOneIsPinned
<1>40. CASE k = "warranty_alerts"
  <2>1. /\ Routes[k].scope.via = <<"warranty_id", "project_id">>
        /\ Pinned(k, "warranty_id") /\ Parent(k, "warranty_id") = "warranties"
        /\ Pinned("warranties", "project_id")
    BY <1>40, ResourceFields, WarrantiesFields DEF Routes,
       WarrantyAlertsRoute, WarrantyAlertBody, Body, Via, InProject, Parent,
       Pinned, WarrantyAlertTable, Table, WarrantyBody
  <2> QED BY <2>1, ViaOneIsPinned
<1>41. CASE k = "completion_milestones"
  BY <1>41, OwnIsPinned, ResourceFields DEF Routes, CompletionMilestonesRoute,
     CompletionMilestoneBody, Body, Pinned, Own, InProject
<1>42. CASE k = "om_manuals"
  BY <1>42, OwnIsPinned, ResourceFields DEF Routes, OmManualsRoute,
     OmManualBody, Body, Pinned, Own, InProject
<1>43. CASE k = "cost_codes"
  BY <1>43, OwnIsPinned, ResourceFields DEF Routes, CostCodesRoute,
     CostCodeBody, Body, Pinned, Own, InProject
<1>44. CASE k = "budget_line_items"
  BY <1>44, OwnIsPinned, ResourceFields DEF Routes, BudgetLineItemsRoute,
     BudgetLineItemBody, Body, Pinned, Own, InProject
<1>45. CASE k = "budget_snapshots"
  BY <1>45, OwnIsPinned, AppendedFields DEF Routes, BudgetSnapshotsRoute,
     BudgetSnapshotBody, Body, Pinned, Own, InProject
<1>46. CASE k = "prime_contracts"
  BY <1>46, OwnIsPinned, ResourceFields DEF Routes, PrimeContractsRoute,
     PrimeContractBody, Body, Pinned, Own, InProject
<1>47. CASE k = "commitments"
  BY <1>47, OwnIsPinned, ResourceFields DEF Routes, CommitmentsRoute,
     CommitmentBody, Body, Pinned, Own, InProject
<1>48. CASE k = "commitment_line_items"
  <2>1. /\ Routes[k].scope.via = <<"commitment_id", "project_id">>
        /\ Pinned(k, "commitment_id")
        /\ Parent(k, "commitment_id") = "commitments"
        /\ Pinned("commitments", "project_id")
    BY <1>48, ResourceFields DEF Routes, CommitmentLineItemsRoute,
       CommitmentLineItemBody, Body, Via, InProject, Parent, Pinned,
       CommitmentLineItemTable, Table, CommitmentsRoute, CommitmentBody
  <2> QED BY <2>1, ViaOneIsPinned
<1>49. CASE k = "change_events"
  BY <1>49, OwnIsPinned, ResourceFields DEF Routes, ChangeEventsRoute,
     ChangeEventBody, Body, Pinned, Own, InProject
<1>50. CASE k = "potential_change_orders"
  <2>1. /\ Routes[k].scope.via = <<"change_event_id", "project_id">>
        /\ Pinned(k, "change_event_id")
        /\ Parent(k, "change_event_id") = "change_events"
        /\ Pinned("change_events", "project_id")
    BY <1>50, ResourceFields DEF Routes, PotentialChangeOrdersRoute,
       PotentialChangeOrderBody, Body, Via, InProject, Parent, Pinned,
       PotentialChangeOrderTable, Table, ChangeEventsRoute, ChangeEventBody
  <2> QED BY <2>1, ViaOneIsPinned
<1>51. CASE k = "commitment_change_orders"
  <2>1. /\ Routes[k].scope.via = <<"commitment_id", "project_id">>
        /\ Pinned(k, "commitment_id")
        /\ Parent(k, "commitment_id") = "commitments"
        /\ Pinned("commitments", "project_id")
    BY <1>51, ResourceFields DEF Routes, CommitmentChangeOrdersRoute,
       CommitmentChangeOrderBody, Body, Via, InProject, Parent, Pinned,
       CommitmentChangeOrderTable, Table, CommitmentsRoute, CommitmentBody
  <2> QED BY <2>1, ViaOneIsPinned
<1>52. CASE k = "pco_cco_links"
  <2>1. /\ Routes[k].scope.via = <<"pco_id", "change_event_id", "project_id">>
        /\ Pinned(k, "pco_id")
        /\ Parent(k, "pco_id") = "potential_change_orders"
        /\ Pinned("potential_change_orders", "change_event_id")
        /\ Parent("potential_change_orders", "change_event_id") = "change_events"
        /\ Pinned("change_events", "project_id")
    BY <1>52, AppendedFields, ResourceFields DEF Routes, PcoCcoLinksRoute,
       PcoCcoLinkBody, Body, Via, InProject, Parent, Pinned, PcoCcoLinkTable,
       Table, PotentialChangeOrdersRoute, PotentialChangeOrderBody,
       PotentialChangeOrderTable, ChangeEventsRoute, ChangeEventBody
  <2> QED BY <2>1, ViaTwoIsPinned
<1>53. CASE k = "billing_periods"
  BY <1>53, OwnIsPinned, ResourceFields DEF Routes, BillingPeriodsRoute,
     BillingPeriodBody, Body, Pinned, Own, InProject
<1>54. CASE k = "direct_costs"
  BY <1>54, OwnIsPinned, ResourceFields DEF Routes, DirectCostsRoute,
     DirectCostBody, Body, Pinned, Own, InProject
<1>55. CASE k = "payment_applications"
  <2>1. /\ Routes[k].scope.via = <<"commitment_id", "project_id">>
        /\ Pinned(k, "commitment_id")
        /\ Parent(k, "commitment_id") = "commitments"
        /\ Pinned("commitments", "project_id")
    BY <1>55, ResourceFields DEF Routes, PaymentApplicationsRoute,
       PaymentApplicationBody, Body, Via, InProject, Parent, Pinned,
       PaymentApplicationTable, Table, CommitmentsRoute, CommitmentBody
  <2> QED BY <2>1, ViaOneIsPinned
<1>56. CASE k = "lien_waivers"
  <2>1. /\ Routes[k].scope.via =
              <<"payment_application_id", "commitment_id", "project_id">>
        /\ Pinned(k, "payment_application_id")
        /\ Parent(k, "payment_application_id") = "payment_applications"
        /\ Pinned("payment_applications", "commitment_id")
        /\ Parent("payment_applications", "commitment_id") = "commitments"
        /\ Pinned("commitments", "project_id")
    BY <1>56, ResourceFields DEF Routes, LienWaiversRoute, LienWaiverBody,
       Body, Via, InProject, Parent, Pinned, LienWaiverTable, Table,
       PaymentApplicationsRoute, PaymentApplicationBody,
       PaymentApplicationTable, CommitmentsRoute, CommitmentBody
  <2> QED BY <2>1, ViaTwoIsPinned
<1>57. CASE k = "change_event_line_items"
  <2>1. /\ Routes[k].scope.via = <<"change_event_id", "project_id">>
        /\ Pinned(k, "change_event_id")
        /\ Parent(k, "change_event_id") = "change_events"
        /\ Pinned("change_events", "project_id")
    BY <1>57, ResourceFields DEF Routes, ChangeEventLineItemsRoute,
       ChangeEventLineItemBody, Body, Via, InProject, Parent, Pinned,
       ChangeEventLineItemTable, Table, ChangeEventsRoute, ChangeEventBody
  <2> QED BY <2>1, ViaOneIsPinned
<1> QED
  BY <1>1, <1>2, <1>3, <1>4, <1>5, <1>6, <1>7, <1>8, <1>9, <1>10, <1>11,
     <1>12, <1>13, <1>14, <1>15, <1>16, <1>17, <1>18, <1>19, <1>20, <1>21,
     <1>22, <1>23, <1>24, <1>25, <1>26, <1>27, <1>28, <1>29, <1>30, <1>31,
     <1>32, <1>33, <1>34, <1>35, <1>36, <1>37, <1>38, <1>39, <1>40, <1>41,
     <1>42, <1>43, <1>44, <1>45, <1>46, <1>47, <1>48, <1>49, <1>50, <1>51,
     <1>52, <1>53, <1>54, <1>55, <1>56, <1>57 DEF Kinds, Routes

\* The lists of the eight services have no table in common: each is the list
\* of its table.
LEMMA ListsOfServices ==
    /\ \A k \in DOMAIN FoundationLists : Lists[k] = FoundationLists[k]
    /\ \A k \in DOMAIN ScheduleLists : Lists[k] = ScheduleLists[k]
    /\ \A k \in DOMAIN FieldOpsLists : Lists[k] = FieldOpsLists[k]
    /\ \A k \in DOMAIN DocumentLists : Lists[k] = DocumentLists[k]
    /\ \A k \in DOMAIN CloseoutLists : Lists[k] = CloseoutLists[k]
    /\ \A k \in DOMAIN FinancialLists : Lists[k] = FinancialLists[k]
    /\ \A k \in DOMAIN InsuranceLists : Lists[k] = InsuranceLists[k]
    /\ \A k \in DOMAIN OmManualLists : Lists[k] = OmManualLists[k]
<1>1. \A k \in DOMAIN FoundationLists : Lists[k] = FoundationLists[k]
  BY DEF Lists, Routes, FoundationLists, ScheduleLists, FieldOpsLists,
     DocumentLists, CloseoutLists, FinancialLists, InsuranceLists,
     OmManualLists
<1>2. \A k \in DOMAIN ScheduleLists : Lists[k] = ScheduleLists[k]
  BY DEF Lists, Routes, FoundationLists, ScheduleLists, FieldOpsLists,
     DocumentLists, CloseoutLists, FinancialLists, InsuranceLists,
     OmManualLists
<1>3. \A k \in DOMAIN FieldOpsLists : Lists[k] = FieldOpsLists[k]
  BY DEF Lists, Routes, FoundationLists, ScheduleLists, FieldOpsLists,
     DocumentLists, CloseoutLists, FinancialLists, InsuranceLists,
     OmManualLists
<1>4. \A k \in DOMAIN DocumentLists : Lists[k] = DocumentLists[k]
  BY DEF Lists, Routes, FoundationLists, ScheduleLists, FieldOpsLists,
     DocumentLists, CloseoutLists, FinancialLists, InsuranceLists,
     OmManualLists
<1>5. \A k \in DOMAIN CloseoutLists : Lists[k] = CloseoutLists[k]
  BY DEF Lists, Routes, FoundationLists, ScheduleLists, FieldOpsLists,
     DocumentLists, CloseoutLists, FinancialLists, InsuranceLists,
     OmManualLists
<1>6. \A k \in DOMAIN FinancialLists : Lists[k] = FinancialLists[k]
  BY DEF Lists, Routes, FoundationLists, ScheduleLists, FieldOpsLists,
     DocumentLists, CloseoutLists, FinancialLists, InsuranceLists,
     OmManualLists
<1>7. \A k \in DOMAIN InsuranceLists : Lists[k] = InsuranceLists[k]
  BY DEF Lists, Routes, FoundationLists, ScheduleLists, FieldOpsLists,
     DocumentLists, CloseoutLists, FinancialLists, InsuranceLists,
     OmManualLists
<1>8. \A k \in DOMAIN OmManualLists : Lists[k] = OmManualLists[k]
  BY DEF Lists, Routes, FoundationLists, ScheduleLists, FieldOpsLists,
     DocumentLists, CloseoutLists, FinancialLists, InsuranceLists,
     OmManualLists
<1> QED BY <1>1, <1>2, <1>3, <1>4, <1>5, <1>6, <1>7, <1>8

\* Every list finds the project along the references that the detail routes
\* of the same table follow.
LEMMA ListsAreScopes == \A k \in Kinds : Lists[k] = Routes[k].scope
<1> SUFFICES ASSUME NEW k \in Kinds PROVE Lists[k] = Routes[k].scope
  OBVIOUS
<1>1. CASE k = "projects"
  BY <1>1, ListsOfServices, ResourceFields DEF FoundationLists, Routes,
     ProjectsRoute
<1>2. CASE k = "companies"
  BY <1>2, ListsOfServices, ResourceFields DEF FoundationLists, Routes,
     CompaniesRoute
<1>3. CASE k = "people"
  BY <1>3, ListsOfServices, ResourceFields DEF FoundationLists, Routes,
     PeopleRoute
<1>4. CASE k = "role_templates"
  BY <1>4, ListsOfServices, ResourceFields DEF FoundationLists, Routes,
     RoleTemplatesRoute
<1>5. CASE k = "project_members"
  BY <1>5, ListsOfServices, ResourceFields DEF FoundationLists, Routes,
     ProjectMembersRoute
<1>6. CASE k = "connector_mappings"
  BY <1>6, ListsOfServices, ResourceFields DEF FoundationLists, Routes,
     ConnectorMappingsRoute
<1>7. CASE k = "insurance_certificates"
  BY <1>7, ListsOfServices, ResourceFields DEF InsuranceLists, Routes,
     InsuranceCertificatesRoute
<1>8. CASE k = "schedules"
  BY <1>8, ListsOfServices, ResourceFields DEF ScheduleLists, Routes,
     SchedulesRoute
<1>9. CASE k = "schedule_activities"
  BY <1>9, ListsOfServices, ResourceFields DEF ScheduleLists, Routes,
     ScheduleActivitiesRoute
<1>10. CASE k = "activity_links"
  BY <1>10, ListsOfServices, ResourceFields DEF ScheduleLists, Routes,
     ActivityLinksRoute
<1>11. CASE k = "schedule_constraints"
  BY <1>11, ListsOfServices, ResourceFields DEF ScheduleLists, Routes,
     ScheduleConstraintsRoute
<1>12. CASE k = "schedule_snapshots"
  BY <1>12, ListsOfServices, AppendedFields DEF ScheduleLists, Routes,
     ScheduleSnapshotsRoute
<1>13. CASE k = "daily_logs"
  BY <1>13, ListsOfServices, ResourceFields DEF FieldOpsLists, Routes,
     DailyLogsRoute
<1>14. CASE k = "manpower_entries"
  BY <1>14, ListsOfServices, ResourceFields DEF FieldOpsLists, Routes,
     ManpowerEntriesRoute
<1>15. CASE k = "punch_items"
  BY <1>15, ListsOfServices, ResourceFields DEF FieldOpsLists, Routes,
     PunchItemsRoute
<1>16. CASE k = "inspections"
  BY <1>16, ListsOfServices, ResourceFields DEF FieldOpsLists, Routes,
     InspectionsRoute
<1>17. CASE k = "inspection_items"
  BY <1>17, ListsOfServices, ResourceFields DEF FieldOpsLists, Routes,
     InspectionItemsRoute
<1>18. CASE k = "observations"
  BY <1>18, ListsOfServices, ResourceFields DEF FieldOpsLists, Routes,
     ObservationsRoute
<1>19. CASE k = "safety_incidents"
  BY <1>19, ListsOfServices, ResourceFields DEF FieldOpsLists, Routes,
     SafetyIncidentsRoute
<1>20. CASE k = "photo_albums"
  BY <1>20, ListsOfServices, ResourceFields DEF FieldOpsLists, Routes,
     PhotoAlbumsRoute
<1>21. CASE k = "photos"
  BY <1>21, ListsOfServices, ResourceFields DEF FieldOpsLists, Routes,
     PhotosRoute
<1>22. CASE k = "tasks"
  BY <1>22, ListsOfServices, ResourceFields DEF FieldOpsLists, Routes,
     TasksRoute
<1>23. CASE k = "meetings"
  BY <1>23, ListsOfServices, ResourceFields DEF FieldOpsLists, Routes,
     MeetingsRoute
<1>24. CASE k = "meeting_action_items"
  BY <1>24, ListsOfServices, ResourceFields DEF FieldOpsLists, Routes,
     MeetingActionItemsRoute
<1>25. CASE k = "drawing_areas"
  BY <1>25, ListsOfServices, ResourceFields DEF DocumentLists, Routes,
     DrawingAreasRoute
<1>26. CASE k = "drawings"
  BY <1>26, ListsOfServices, ResourceFields DEF DocumentLists, Routes,
     DrawingsRoute
<1>27. CASE k = "drawing_revisions"
  BY <1>27, ListsOfServices, AppendedFields DEF DocumentLists, Routes,
     DrawingRevisionsRoute
<1>28. CASE k = "specifications"
  BY <1>28, ListsOfServices, ResourceFields DEF DocumentLists, Routes,
     SpecificationsRoute
<1>29. CASE k = "rfis"
  BY <1>29, ListsOfServices, ResourceFields DEF DocumentLists, Routes,
     RfisRoute
<1>30. CASE k = "submittal_packages"
  BY <1>30, ListsOfServices, ResourceFields DEF DocumentLists, Routes,
     SubmittalPackagesRoute
<1>31. CASE k = "submittals"
  BY <1>31, ListsOfServices, ResourceFields DEF DocumentLists, Routes,
     SubmittalsRoute
<1>32. CASE k = "attachments"
  BY <1>32, ListsOfServices, ResourceFields DEF DocumentLists, Routes,
     AttachmentsRoute
<1>33. CASE k = "correspondence"
  BY <1>33, ListsOfServices, ResourceFields DEF DocumentLists, Routes,
     CorrespondenceRoute
<1>34. CASE k = "closeout_templates"
  BY <1>34, ListsOfServices, ResourceFields DEF CloseoutLists, Routes,
     CloseoutTemplatesRoute
<1>35. CASE k = "closeout_template_items"
  BY <1>35, ListsOfServices, ResourceFields DEF CloseoutLists, Routes,
     CloseoutTemplateItemsRoute
<1>36. CASE k = "closeout_checklists"
  BY <1>36, ListsOfServices, ResourceFields DEF CloseoutLists, Routes,
     CloseoutChecklistsRoute
<1>37. CASE k = "closeout_checklist_items"
  BY <1>37, ListsOfServices, ResourceFields DEF CloseoutLists, Routes,
     CloseoutChecklistItemsRoute
<1>38. CASE k = "warranties"
  BY <1>38, ListsOfServices, WarrantiesFields DEF CloseoutLists, Routes
<1>39. CASE k = "warranty_claims"
  BY <1>39, ListsOfServices, ResourceFields DEF CloseoutLists, Routes,
     WarrantyClaimsRoute
<1>40. CASE k = "warranty_alerts"
  BY <1>40, ListsOfServices, ResourceFields DEF CloseoutLists, Routes,
     WarrantyAlertsRoute
<1>41. CASE k = "completion_milestones"
  BY <1>41, ListsOfServices, ResourceFields DEF CloseoutLists, Routes,
     CompletionMilestonesRoute
<1>42. CASE k = "om_manuals"
  BY <1>42, ListsOfServices, ResourceFields DEF OmManualLists, Routes,
     OmManualsRoute
<1>43. CASE k = "cost_codes"
  BY <1>43, ListsOfServices, ResourceFields DEF FinancialLists, Routes,
     CostCodesRoute
<1>44. CASE k = "budget_line_items"
  BY <1>44, ListsOfServices, ResourceFields DEF FinancialLists, Routes,
     BudgetLineItemsRoute
<1>45. CASE k = "budget_snapshots"
  BY <1>45, ListsOfServices, AppendedFields DEF FinancialLists, Routes,
     BudgetSnapshotsRoute
<1>46. CASE k = "prime_contracts"
  BY <1>46, ListsOfServices, ResourceFields DEF FinancialLists, Routes,
     PrimeContractsRoute
<1>47. CASE k = "commitments"
  BY <1>47, ListsOfServices, ResourceFields DEF FinancialLists, Routes,
     CommitmentsRoute
<1>48. CASE k = "commitment_line_items"
  BY <1>48, ListsOfServices, ResourceFields DEF FinancialLists, Routes,
     CommitmentLineItemsRoute
<1>49. CASE k = "change_events"
  BY <1>49, ListsOfServices, ResourceFields DEF FinancialLists, Routes,
     ChangeEventsRoute
<1>50. CASE k = "potential_change_orders"
  BY <1>50, ListsOfServices, ResourceFields DEF FinancialLists, Routes,
     PotentialChangeOrdersRoute
<1>51. CASE k = "commitment_change_orders"
  BY <1>51, ListsOfServices, ResourceFields DEF FinancialLists, Routes,
     CommitmentChangeOrdersRoute
<1>52. CASE k = "pco_cco_links"
  BY <1>52, ListsOfServices, AppendedFields DEF FinancialLists, Routes,
     PcoCcoLinksRoute
<1>53. CASE k = "billing_periods"
  BY <1>53, ListsOfServices, ResourceFields DEF FinancialLists, Routes,
     BillingPeriodsRoute
<1>54. CASE k = "direct_costs"
  BY <1>54, ListsOfServices, ResourceFields DEF FinancialLists, Routes,
     DirectCostsRoute
<1>55. CASE k = "payment_applications"
  BY <1>55, ListsOfServices, ResourceFields DEF FinancialLists, Routes,
     PaymentApplicationsRoute
<1>56. CASE k = "lien_waivers"
  BY <1>56, ListsOfServices, ResourceFields DEF FinancialLists, Routes,
     LienWaiversRoute
<1>57. CASE k = "change_event_line_items"
  BY <1>57, ListsOfServices, ResourceFields DEF FinancialLists, Routes,
     ChangeEventLineItemsRoute
<1> QED
  BY <1>1, <1>2, <1>3, <1>4, <1>5, <1>6, <1>7, <1>8, <1>9, <1>10, <1>11,
     <1>12, <1>13, <1>14, <1>15, <1>16, <1>17, <1>18, <1>19, <1>20, <1>21,
     <1>22, <1>23, <1>24, <1>25, <1>26, <1>27, <1>28, <1>29, <1>30, <1>31,
     <1>32, <1>33, <1>34, <1>35, <1>36, <1>37, <1>38, <1>39, <1>40, <1>41,
     <1>42, <1>43, <1>44, <1>45, <1>46, <1>47, <1>48, <1>49, <1>50, <1>51,
     <1>52, <1>53, <1>54, <1>55, <1>56, <1>57 DEF Kinds, Routes

-----------------------------------------------------------------------------
(* The invariant *)

(* A row that a reference may hold: none, or one that is stored. *)
KnownRow(k, i) == i = Null \/ (k \in DOMAIN rows /\ i \in DOMAIN rows[k])

(* The rows of table k, with values in the ranges of the behaviour. *)
RowsOf(k) == Filled(k, DOMAIN Routes[k].table.refs, {})

\* A table holds rows with the references of its class and never more than the
\* behaviour has room for.
RecordsTypeOK ==
    /\ room \in Rooms
    /\ DOMAIN rows = DOMAIN room
    /\ \A k \in DOMAIN room :
          rows[k] \in Seq(RowsOf(k)) /\ Len(rows[k]) <= room[k]
    /\ member \in [Users \ Chiefs -> [Projects -> Levels \cup {NoMember}]]
    /\ crew \in [Projects -> SUBSET (Shared \X Nat)]
    /\ DOMAIN call = Users

\* Referential integrity, declared or kept by the services: every reference of
\* a stored row is empty or leads to a stored row.
KeysHold ==
    \A k \in DOMAIN rows : \A i \in DOMAIN rows[k] :
        \A c \in DOMAIN rows[k][i] : KnownRow(Parent(k, c), rows[k][i][c])

\* A pending POST carries a whole row, a pending PATCH references of its body
\* for a row that is stored.
Wellformed(q) ==
    \/ /\ q.op = "post"
       /\ q.kind \in DOMAIN room
       /\ q.to \in RowsOf(q.kind)
    \/ /\ q.op = "patch"
       /\ q.kind \in DOMAIN rows
       /\ q.id \in DOMAIN rows[q.kind]
       /\ \E cols \in SUBSET Routes[q.kind].body.patches :
             q.to \in Filled(q.kind, cols, {})

\* What is true of a checked write until it reaches the table.
Holds(q) ==
    /\ Wellformed(q)
    /\ Routes[q.kind].scope.via # <<>> => q.checked # Null
    /\ Follow(q.kind, q.id, Target(q), Routes[q.kind].scope.via) = q.checked

\* Every checked write, until it is made.
CallsHold == \A u \in Users : call[u] # Idle => Holds(call[u])

\* The inductive invariant.  That a check holds is not inductive alone: a
\* reference to a row that is not there yet would lead somewhere else when it
\* is created, so the stored references have to lead to stored rows.
IInv == RecordsTypeOK /\ KeysHold /\ CallsHold

\* Ids start at 1.
LEMMA NullIsNoRow ==
    ASSUME RecordsTypeOK, NEW k \in DOMAIN rows
    PROVE  Null \notin DOMAIN rows[k] /\ DOMAIN rows[k] = 1..Len(rows[k])
  BY DEF RecordsTypeOK, Null

\* A stored row leads to a stored row or nowhere.
LEMMA LeadsToKnownRow ==
    ASSUME RecordsTypeOK, KeysHold, NEW k, NEW i, NEW c
    PROVE  KnownRow(Parent(k, c), Value(References(k, i), c))
<1>1. CASE k \in DOMAIN rows /\ i \in DOMAIN rows[k]
  BY <1>1 DEF KeysHold, References, Value, KnownRow
<1>2. CASE ~(k \in DOMAIN rows /\ i \in DOMAIN rows[k])
  BY <1>2 DEF References, Value, KnownRow, NoRefs
<1> QED BY <1>1, <1>2

\* A missing row has no references.
LEMMA NoRowLeadsNowhere ==
    ASSUME NEW k, NEW i, NEW c, ~(k \in DOMAIN rows /\ i \in DOMAIN rows[k])
    PROVE  Value(References(k, i), c) = Null
  BY DEF References, Value, NoRefs

\* A check that found a project beyond the first reference found the row the
\* first reference names, even if a client made the id up.
LEMMA CheckedPathIsStored ==
    ASSUME RecordsTypeOK, NEW k, NEW id, NEW to, NEW via,
           Len(via) \in 2..3, Follow(k, id, to, via) # Null
    PROVE  KnownRow(Parent(k, via[1]), Value(to, via[1]))
<1> DEFINE k1 == Parent(k, via[1])
           i1 == Value(to, via[1])
           i2 == Value(References(k1, i1), via[2])
           k2 == Parent(k1, via[2])
           i3 == Value(References(k2, i2), via[3])
<1> SUFFICES ASSUME ~(k1 \in DOMAIN rows /\ i1 \in DOMAIN rows[k1]) PROVE FALSE
  BY DEF KnownRow
<1>1. i2 = Null
  BY NoRowLeadsNowhere
<1>2. ~(k2 \in DOMAIN rows /\ i2 \in DOMAIN rows[k2])
  BY <1>1, NullIsNoRow
<1>3. i3 = Null
  BY <1>2, NoRowLeadsNowhere
<1>4. Follow(k, id, to, via) \in {i2, i3}
  BY DEF Follow
<1> QED BY <1>1, <1>3, <1>4

-----------------------------------------------------------------------------
(* Paths, over a step *)

\* What no step does to the tables: drop a row, or change what a scope follows.
RowsKept ==
    /\ DOMAIN rows' = DOMAIN rows
    /\ \A k \in DOMAIN rows : Null \notin DOMAIN rows'[k]
    /\ \A k \in DOMAIN rows : \A i \in DOMAIN rows[k] :
          /\ i \in DOMAIN rows'[k]
          /\ \A c : Pinned(k, c) => Value(rows'[k][i], c) = Value(rows[k][i], c)

\* One reference along a path of stored rows.
LEMMA ValueStays ==
    ASSUME RecordsTypeOK, RowsKept,
           NEW k, NEW i, KnownRow(k, i), NEW c, Pinned(k, c)
    PROVE  Value(References(k, i), c)' = Value(References(k, i), c)
<1>1. CASE k \in DOMAIN rows /\ i \in DOMAIN rows[k]
  BY <1>1 DEF RowsKept, References
<1>2. CASE ~(k \in DOMAIN rows /\ i \in DOMAIN rows[k])
  <2>1. ~(k \in DOMAIN rows /\ i \in DOMAIN rows'[k])
    BY <1>2 DEF RowsKept, KnownRow
  <2> QED BY <1>2, <2>1 DEF References, RowsKept
<1> QED BY <1>1, <1>2

\* The whole path: after a step it leads where it led before, if its first
\* reference was kept.
LEMMA FollowStays ==
    ASSUME RecordsTypeOK, KeysHold, RowsKept,
           NEW k, ScopeIsPinned(k), NEW via, via = Routes[k].scope.via,
           NEW id, NEW to, NEW new,
           Len(via) > 0 => Value(new, via[1]) = Value(to, via[1]),
           Len(via) > 1 => KnownRow(Parent(k, via[1]), Value(to, via[1]))
    PROVE  Follow(k, id, new, via)' = Follow(k, id, to, via)
<1> DEFINE k1 == Parent(k, via[1])
           i1 == Value(to, via[1])
           i2 == Value(References(k1, i1), via[2])
           k2 == Parent(k1, via[2])
           i3 == Value(References(k2, i2), via[3])
<1>1. Len(via) \in 0..3
  BY DEF ScopeIsPinned
<1>2. CASE Len(via) = 0
  BY <1>2 DEF Follow
<1>3. CASE Len(via) = 1
  BY <1>3 DEF Follow
<1>4. ASSUME Len(via) > 1
      PROVE  /\ i2' = i2
             /\ KnownRow(k2, i2)
  BY <1>4, ValueStays, LeadsToKnownRow DEF ScopeIsPinned
<1>5. CASE Len(via) = 2
  BY <1>4, <1>5 DEF Follow
<1>6. CASE Len(via) = 3
  <2>1. Pinned(k2, via[3])
    BY <1>6 DEF ScopeIsPinned
  <2>2. Value(References(k2, i2), via[3])' = i3
    BY <1>4, <1>6, <2>1, ValueStays
  <2> QED BY <1>4, <1>6, <2>2 DEF Follow
<1> QED BY <1>1, <1>2, <1>3, <1>5, <1>6
-----------------------------------------------------------------------------
(* Writes *)

\* The NOT NULL columns only narrow what a body may hold.
LEMMA PatchesFill ==
    ASSUME NEW k, NEW must, NEW cols, NEW to \in Filled(k, cols, must)
    PROVE  to \in Filled(k, cols, {})
  BY DEF Filled, Values

\* Each value of a body is in the range of its column.
LEMMA FilledValue ==
    ASSUME NEW k, NEW cols, NEW to \in Filled(k, cols, {}), NEW c \in cols
    PROVE  to[c] \in Values(k, c, TRUE) /\ DOMAIN to = cols
  BY DEF Filled

\* A patched row is a row of its table.
LEMMA PatchedRow ==
    ASSUME NEW k, NEW row \in RowsOf(k), NEW cols,
           NEW to \in Filled(k, cols, {})
    PROVE  Patched(row, to) \in RowsOf(k)
<1> DEFINE all == DOMAIN Routes[k].table.refs
<1>1. /\ row \in [all -> UNION {Values(k, c, TRUE) : c \in all}]
      /\ \A c \in all : row[c] \in Values(k, c, TRUE)
  BY DEF RowsOf, Filled
<1>2. \A c \in cols : to[c] \in Values(k, c, TRUE)
  BY FilledValue
<1>3. DOMAIN to = cols
  BY DEF Filled
<1>4. \A c \in all : Patched(row, to)[c] \in Values(k, c, TRUE)
  BY <1>1, <1>2, <1>3 DEF Patched
<1>5. Patched(row, to) \in [all -> UNION {Values(k, c, TRUE) : c \in all}]
  BY <1>1, <1>4 DEF Patched
<1> QED BY <1>4, <1>5 DEF RowsOf, Filled

\* crud.create appends: the rows there were, and a row whose references the
\* database looked up.
LEMMA CreateKeeps ==
    ASSUME IInv, NEW u \in Users, Create(u)
    PROVE  RowsKept /\ RecordsTypeOK' /\ KeysHold'
<1> DEFINE q == call[u]
           k == q.kind
<1>1. q # Idle /\ q.op = "post"
  BY DEF Create, Idle
<1>2. k \in DOMAIN room /\ q.to \in RowsOf(k)
  BY <1>1 DEF IInv, CallsHold, Holds, Wellformed
<1>3. /\ DOMAIN rows = DOMAIN room
      /\ \A j \in DOMAIN room : rows[j] \in Seq(RowsOf(j)) /\ Len(rows[j]) <= room[j]
      /\ \A j \in DOMAIN room : room[j] \in Nat
  BY RecordsAssumption DEF IInv, RecordsTypeOK
<1>4. rows' = [rows EXCEPT ![k] = Append(rows[k], q.to)] /\ room' = room
  BY DEF Create
<1>5. /\ rows'[k] = Append(rows[k], q.to)
      /\ \A j \in DOMAIN rows : j # k => rows'[j] = rows[j]
      /\ DOMAIN rows' = DOMAIN rows
  BY <1>4, <1>2, <1>3
<1>6. /\ rows'[k] \in Seq(RowsOf(k)) /\ Len(rows'[k]) = Len(rows[k]) + 1
      /\ \A i \in DOMAIN rows[k] : i \in DOMAIN rows'[k] /\ rows'[k][i] = rows[k][i]
      /\ \A i \in DOMAIN rows'[k] : i \in DOMAIN rows[k] \/ rows'[k][i] = q.to
  BY <1>2, <1>3, <1>5
<1>7. \A j \in DOMAIN rows : Null \notin DOMAIN rows'[j]
  BY <1>3, <1>5, <1>6, <1>2 DEF Null
<1>8. RowsKept
  BY <1>2, <1>3, <1>5, <1>6, <1>7 DEF RowsKept
<1>9. \A j : RowsOf(j)' = RowsOf(j)
  BY <1>4 DEF RowsOf, Filled, Values
<1>10. RecordsTypeOK'
  <2>1. Len(rows[k]) < room[k]
    BY DEF Create
  <2>2. \A j \in DOMAIN room' : rows'[j] \in Seq(RowsOf(j)') /\ Len(rows'[j]) <= room'[j]
    BY <2>1, <1>2, <1>3, <1>4, <1>5, <1>6, <1>9
  <2>3. DOMAIN call' = Users /\ member' = member /\ crew' = crew
    BY DEF Create, IInv, RecordsTypeOK
  <2> QED BY <2>2, <2>3, <1>3, <1>4, <1>5 DEF IInv, RecordsTypeOK, Projects
<1>11. \A j, i : KnownRow(j, i) =>
            i = Null \/ (j \in DOMAIN rows' /\ i \in DOMAIN rows'[j])
  BY <1>8 DEF KnownRow, RowsKept
<1>12. \A c \in DOMAIN q.to : KnownRow(Parent(k, c), q.to[c])
  <2> TAKE c \in DOMAIN q.to
  <2>1. q.to[c] \in Values(k, c, TRUE)
    BY <1>2, FilledValue DEF RowsOf, Filled
  <2>2. q.to[c] # Null => Parent(k, c) \in DOMAIN rows
    BY <2>1, <1>3 DEF Values, Parent, Null
  <2>3. q.to[c] # Null => q.to[c] \in DOMAIN rows[Parent(k, c)]
    BY DEF Create, Acceptable, Parent
  <2> QED BY <2>2, <2>3 DEF KnownRow
<1>13. KeysHold'
  <2> SUFFICES ASSUME NEW j \in DOMAIN rows', NEW i \in DOMAIN rows'[j],
                      NEW c \in DOMAIN rows'[j][i]
               PROVE  \/ rows'[j][i][c] = Null
                      \/ /\ Parent(j, c) \in DOMAIN rows'
                         /\ rows'[j][i][c] \in DOMAIN rows'[Parent(j, c)]
    BY DEF KeysHold, KnownRow
  <2>1. CASE j # k \/ i \in DOMAIN rows[k]
    <3>1. i \in DOMAIN rows[j] /\ rows'[j][i] = rows[j][i] /\ j \in DOMAIN rows
      BY <2>1, <1>5, <1>6
    <3>2. KnownRow(Parent(j, c), rows[j][i][c])
      BY <3>1 DEF IInv, KeysHold
    <3> QED BY <3>1, <3>2, <1>11
  <2>2. CASE j = k /\ rows'[k][i] = q.to
    BY <2>2, <1>11, <1>12
  <2> QED BY <2>1, <2>2, <1>6
<1> QED BY <1>8, <1>10, <1>13

\* crud.update replaces references the body may set, none that a scope follows.
LEMMA UpdateKeeps ==
    ASSUME IInv, NEW u \in Users, Update(u)
    PROVE  RowsKept /\ RecordsTypeOK' /\ KeysHold'
<1> DEFINE q == call[u]
           k == q.kind
           n == q.id
           row == rows[k][n]
<1>1. q # Idle /\ q.op = "patch"
  BY DEF Update, Idle
<1>2. /\ k \in DOMAIN rows /\ n \in DOMAIN rows[k]
      /\ \E cols \in SUBSET Routes[k].body.patches : q.to \in Filled(k, cols, {})
  BY <1>1 DEF IInv, CallsHold, Holds, Wellformed
<1>3. PICK cols \in SUBSET Routes[k].body.patches : q.to \in Filled(k, cols, {})
  BY <1>2
<1>4. /\ DOMAIN rows = DOMAIN room
      /\ \A j \in DOMAIN room : rows[j] \in Seq(RowsOf(j)) /\ Len(rows[j]) <= room[j]
  BY DEF IInv, RecordsTypeOK
<1>5. rows' = [rows EXCEPT ![k][n] = Patched(row, q.to)] /\ room' = room
  BY DEF Update
<1>6. row \in RowsOf(k) /\ Patched(row, q.to) \in RowsOf(k)
  <2>1. row \in RowsOf(k)
    BY <1>2, <1>4
  <2> QED BY <2>1, <1>3, PatchedRow
<1> DEFINE after == Patched(row, q.to)
<1>7. /\ DOMAIN rows' = DOMAIN rows
      /\ \A j \in DOMAIN rows : j # k => rows'[j] = rows[j]
      /\ rows'[k] = [rows[k] EXCEPT ![n] = after]
  BY <1>2, <1>5
<1> HIDE DEF after
<1>8. /\ rows'[k] \in Seq(RowsOf(k)) /\ Len(rows'[k]) = Len(rows[k])
      /\ DOMAIN rows'[k] = DOMAIN rows[k]
      /\ rows'[k][n] = after
      /\ \A i \in DOMAIN rows[k] : i # n => rows'[k][i] = rows[k][i]
  <2>1. rows[k] \in Seq(RowsOf(k)) /\ after \in RowsOf(k)
    BY <1>2, <1>4, <1>6 DEF after
  <2> QED BY <2>1, <1>2, <1>7
<1>9. \A j \in DOMAIN rows : Null \notin DOMAIN rows'[j]
  BY <1>7, <1>8, NullIsNoRow DEF IInv
<1>10. \A c : Pinned(k, c) => Value(after, c) = Value(row, c)
  <2>1. DOMAIN q.to = cols
    BY <1>3 DEF Filled
  <2> QED BY <2>1 DEF after, Patched, Value, Pinned
<1>11. RowsKept
  BY <1>7, <1>8, <1>9, <1>10 DEF RowsKept
<1>12. \A j : RowsOf(j)' = RowsOf(j)
  BY <1>5 DEF RowsOf, Filled, Values
<1>13. RecordsTypeOK'
  <2>1. \A j \in DOMAIN room' : rows'[j] \in Seq(RowsOf(j)') /\ Len(rows'[j]) <= room'[j]
    BY <1>2, <1>4, <1>5, <1>7, <1>8, <1>12
  <2>2. DOMAIN call' = Users /\ member' = member /\ crew' = crew
    BY DEF Update, IInv, RecordsTypeOK
  <2> QED BY <2>1, <2>2, <1>4, <1>5, <1>7 DEF IInv, RecordsTypeOK, Projects
<1>14. \A j, i : KnownRow(j, i) =>
            i = Null \/ (j \in DOMAIN rows' /\ i \in DOMAIN rows'[j])
  BY <1>11 DEF KnownRow, RowsKept
<1>15. \A c \in cols : KnownRow(Parent(k, c), q.to[c])
  <2> TAKE c \in cols
  <2>1. q.to[c] \in Values(k, c, TRUE) /\ DOMAIN q.to = cols
    BY <1>3, FilledValue
  <2>2. q.to[c] # Null => Parent(k, c) \in DOMAIN rows
    BY <2>1, <1>4 DEF Values, Parent, Null
  <2>3. q.to[c] # Null => q.to[c] \in DOMAIN rows[Parent(k, c)]
    BY <2>1 DEF Update, Acceptable, Parent
  <2> QED BY <2>2, <2>3 DEF KnownRow
<1>16. \A c \in DOMAIN after : KnownRow(Parent(k, c), after[c])
  <2> TAKE c \in DOMAIN after
  <2>1. DOMAIN q.to = cols
    BY <1>3 DEF Filled
  <2>2. c \in DOMAIN row /\ after[c] = (IF c \in cols THEN q.to[c] ELSE row[c])
    BY <2>1 DEF after, Patched
  <2>3. KnownRow(Parent(k, c), row[c])
    BY <2>2, <1>2 DEF IInv, KeysHold
  <2> QED BY <2>2, <2>3, <1>15
<1>17. KeysHold'
  <2> SUFFICES ASSUME NEW j \in DOMAIN rows', NEW i \in DOMAIN rows'[j],
                      NEW c \in DOMAIN rows'[j][i]
               PROVE  \/ rows'[j][i][c] = Null
                      \/ /\ Parent(j, c) \in DOMAIN rows'
                         /\ rows'[j][i][c] \in DOMAIN rows'[Parent(j, c)]
    BY DEF KeysHold, KnownRow
  <2>1. CASE j = k /\ i = n
    BY <2>1, <1>8, <1>14, <1>16
  <2>2. CASE ~(j = k /\ i = n)
    <3>1. j \in DOMAIN rows /\ i \in DOMAIN rows[j] /\ rows'[j][i] = rows[j][i]
      BY <2>2, <1>7, <1>8
    <3>2. KnownRow(Parent(j, c), rows[j][i][c])
      BY <3>1 DEF IInv, KeysHold
    <3> QED BY <3>1, <3>2, <1>14
  <2> QED BY <2>1, <2>2
<1> QED BY <1>11, <1>13, <1>17

\* Nobody's write moves the place another's check was made for.
LEMMA HoldsStays ==
    ASSUME IInv, RowsKept, room' = room, NEW q, Holds(q)
    PROVE  Holds(q)'
<1> DEFINE k   == q.kind
           via == Routes[k].scope.via
<1>1. k \in Kinds /\ k \in DOMAIN rows /\ k \in DOMAIN room
  BY RecordsAssumption DEF Holds, Wellformed, IInv, RecordsTypeOK
<1>2. ScopeIsPinned(k)
  BY <1>1, ScopesArePinned
<1>3. \A j : RowsOf(j)' = RowsOf(j)
  BY DEF RowsOf, Filled, Values
<1>4. Wellformed(q)'
  <2>1. \A j, cols, must : Filled(j, cols, must)' = Filled(j, cols, must)
    BY DEF Filled, Values
  <2>2. CASE q.op = "post"
    BY <2>2, <1>3 DEF Holds, Wellformed
  <2>3. CASE q.op = "patch"
    <3>1. /\ q.kind \in DOMAIN rows' /\ q.id \in DOMAIN rows'[q.kind]
          /\ \E cols \in SUBSET Routes[q.kind].body.patches :
                q.to \in Filled(q.kind, cols, {})
      BY <2>3, <1>1 DEF Holds, Wellformed, RowsKept
    <3> QED BY <3>1, <2>1, <2>3 DEF Wellformed
  <2> QED BY <2>2, <2>3 DEF Holds, Wellformed
<1>5. CASE q.op = "post"
  <2>1. Len(via) > 1 => KnownRow(Parent(k, via[1]), Value(q.to, via[1]))
    <3> SUFFICES ASSUME Len(via) > 1
                 PROVE  KnownRow(Parent(k, via[1]), Value(q.to, via[1]))
      OBVIOUS
    <3>1. Len(via) \in 2..3 /\ via # <<>>
      BY <1>2 DEF ScopeIsPinned
    <3>2. Follow(k, q.id, q.to, via) # Null
      BY <3>1, <1>5 DEF Holds, Target
    <3> QED BY <3>1, <3>2, CheckedPathIsStored DEF IInv
  <2>2. Follow(k, q.id, q.to, via)' = Follow(k, q.id, q.to, via)
    BY <2>1, <1>2, FollowStays DEF IInv
  <2>3. Target(q) = q.to /\ Target(q)' = q.to
    BY <1>5 DEF Target
  <2> QED BY <1>4, <2>2, <2>3 DEF Holds
<1>6. CASE q.op = "patch"
  <2> DEFINE row == rows[k][q.id]
             new == rows'[k][q.id]
  <2>1. q.id \in DOMAIN rows[k]
    BY <1>6 DEF Holds, Wellformed
  <2>2. Len(via) > 0 => Value(new, via[1]) = Value(row, via[1])
    BY <2>1, <1>1, <1>2 DEF RowsKept, ScopeIsPinned
  <2>3. KnownRow(Parent(k, via[1]), Value(row, via[1]))
    <3>1. References(k, q.id) = row
      BY <2>1, <1>1 DEF References
    <3> QED BY <3>1, LeadsToKnownRow DEF IInv
  <2>4. \A x : x = rows'[k][q.id] =>
                  Follow(k, q.id, x, via)' = Follow(k, q.id, row, via)
    BY <2>2, <2>3, <1>2, FollowStays DEF IInv
  <2>5. Target(q) = row /\ Target(q)' = rows'[k][q.id]
    BY <1>6 DEF Target
  <2>6. Follow(k, q.id, Target(q), via)' = Follow(k, q.id, row, via)
    BY <2>4, <2>5 DEF Follow, References
  <2> QED BY <1>4, <2>5, <2>6 DEF Holds
<1> QED BY <1>5, <1>6 DEF Holds, Wellformed

\* Nor of any pending write, when calls only end.
LEMMA CallsHoldStays ==
    ASSUME IInv, RowsKept, room' = room,
           \A u \in Users : call'[u] = Idle \/ call'[u] = call[u]
    PROVE  CallsHold'
<1> SUFFICES ASSUME NEW u \in Users, call'[u] # Idle PROVE Holds(call[u])'
  BY DEF CallsHold
<1> DEFINE q == call[u]
<1>1. call'[u] = q /\ q # Idle
  OBVIOUS
<1>2. Holds(q)
  BY <1>1 DEF IInv, CallsHold
<1>3. \A x : x = q => Holds(x)'
  BY <1>2, HoldsStays
<1> QED
  BY <1>1, <1>3 DEF Holds, Wellformed, Target, Follow, References, RowsOf,
                    Filled, Values
-----------------------------------------------------------------------------
(* The invariant holds *)

\* The seeded projects refer to nothing.
LEMMA InitEstablishes == Init => IInv
<1> SUFFICES ASSUME Init PROVE IInv
  OBVIOUS
<1>1. /\ room \in Rooms /\ DOMAIN rows = DOMAIN room
      /\ room \in [DOMAIN room -> Nat] /\ "projects" \in DOMAIN room
      /\ Seeded \in 1..room["projects"]
  BY RecordsAssumption DEF Init
<1>2. \A k \in DOMAIN room : k # "projects" => rows[k] = <<>>
  BY DEF Init
<1>3. rows["projects"] = [p \in 1..Seeded |-> NoRefs]
  BY <1>1 DEF Init
<1>4. DOMAIN NoRefs = {} /\ Routes["projects"].table.refs = NoRefs
  BY ResourceFields DEF Routes, ProjectsRoute, ProjectTable, Table, NoRefs
<1>5. NoRefs \in RowsOf("projects")
  BY <1>4 DEF RowsOf, Filled, NoRefs
<1>6. \A k \in DOMAIN room :
        rows[k] \in Seq(RowsOf(k)) /\ Len(rows[k]) <= room[k]
  <2> SUFFICES ASSUME NEW k \in DOMAIN room
               PROVE  rows[k] \in Seq(RowsOf(k)) /\ Len(rows[k]) <= room[k]
    OBVIOUS
  <2>1. CASE k = "projects"
    BY <2>1, <1>1, <1>3, <1>5
  <2>2. CASE k # "projects"
    <3>1. rows[k] = <<>> /\ room[k] \in Nat
      BY <2>2, <1>1, <1>2
    <3>2. <<>> \in Seq(RowsOf(k)) /\ Len(<<>>) = 0
      OBVIOUS
    <3> QED BY <3>1, <3>2
  <2> QED BY <2>1, <2>2
<1>7. RecordsTypeOK
  BY <1>1, <1>6 DEF Init, RecordsTypeOK
<1>8. KeysHold
  <2> SUFFICES ASSUME NEW k \in DOMAIN rows, NEW i \in DOMAIN rows[k],
                      NEW c \in DOMAIN rows[k][i]
               PROVE  FALSE
    BY DEF KeysHold
  <2>1. k = "projects"
    BY <1>1, <1>2
  <2> QED BY <2>1, <1>3, <1>4
<1>9. CallsHold
  BY DEF Init, CallsHold
<1> QED BY <1>7, <1>8, <1>9 DEF IInv

\* A step that writes no row keeps them all.
LEMMA QuietKeeps ==
    ASSUME IInv, UNCHANGED <<room, rows>>
    PROVE  RowsKept /\ KeysHold'
<1>1. RowsKept
  BY NullIsNoRow DEF RowsKept, IInv
<1>2. KeysHold'
  BY DEF IInv, KeysHold, KnownRow
<1> QED BY <1>1, <1>2

\* What a handler just checked holds.
LEMMA AskHolds ==
    ASSUME IInv, NEW u \in Users, NEW q \in Posts \cup Patches, Ask(u, q)
    PROVE  Holds([q EXCEPT !.checked = Follow(q.kind, q.id, Target(q),
                                              Routes[q.kind].scope.via)])
<1> DEFINE via == Routes[q.kind].scope.via
           p   == Follow(q.kind, q.id, Target(q), via)
           asked == [q EXCEPT !.checked = p]
<1>1. q \in [op : {q.op}, kind : {q.kind}, id : {q.id}, to : {q.to},
             sent : {q.sent}, checked : {q.checked}]
  BY DEF Posts, Patches
<1>2. /\ asked.op = q.op /\ asked.kind = q.kind /\ asked.id = q.id
      /\ asked.to = q.to /\ asked.checked = p
  BY <1>1
<1>3. Target(asked) = Target(q)
  BY <1>2 DEF Target
<1>4. via # <<>> => p # Null
  BY DEF Ask
<1>5. Wellformed(q)
  <2>1. CASE q \in Posts
    <3>1. /\ q.op = "post" /\ q.kind \in DOMAIN room
          /\ \E must : q.to \in Filled(q.kind,
                                 DOMAIN Routes[q.kind].table.refs, must)
      BY <2>1 DEF Posts
    <3> QED BY <3>1, PatchesFill DEF Wellformed, RowsOf
  <2>2. CASE q \in Patches
    <3>1. /\ q.op = "patch" /\ q.kind \in Stored /\ q.id \in DOMAIN rows[q.kind]
          /\ \E cols \in SUBSET Routes[q.kind].body.patches : \E must :
                q.to \in Filled(q.kind, cols, must)
      BY <2>2 DEF Patches
    <3> QED BY <3>1, PatchesFill DEF Wellformed, Stored, IInv, RecordsTypeOK
  <2> QED BY <2>1, <2>2
<1>6. Wellformed(asked)
  BY <1>2, <1>5 DEF Wellformed
<1> HIDE DEF asked
<1>7. Holds(asked)
  BY <1>2, <1>3, <1>4, <1>6 DEF Holds
<1> QED BY <1>7 DEF asked

\* A step that writes no row leaves the tables typed.
LEMMA TypesKept ==
    ASSUME IInv, UNCHANGED <<room, rows>>,
           member' \in [Users \ Chiefs -> [Projects -> Levels \cup {NoMember}]],
           crew' \in [Projects -> SUBSET (Shared \X Nat)],
           DOMAIN call' = Users
    PROVE  RecordsTypeOK'
<1>1. \A k : RowsOf(k)' = RowsOf(k)
  BY DEF RowsOf, Filled, Values
<1>2. Projects' = Projects
  BY DEF Projects
<1> QED BY <1>1, <1>2 DEF IInv, RecordsTypeOK

\* The check of one handler, and the calls of the others.
LEMMA AskKeeps ==
    ASSUME IInv, NEW u \in Users, NEW q \in Posts \cup Patches, Ask(u, q)
    PROVE  IInv'
<1> DEFINE asked == [q EXCEPT !.checked = Follow(q.kind, q.id, Target(q),
                                                 Routes[q.kind].scope.via)]
<1>1. Holds(asked)
  BY AskHolds
<1> HIDE DEF asked
<1>2. /\ call' = [call EXCEPT ![u] = asked]
      /\ UNCHANGED <<room, rows, member, crew>>
  BY DEF Ask, asked
<1>3. /\ call'[u] = asked /\ DOMAIN call' = Users
      /\ \A v \in Users : v # u => call'[v] = call[v]
  BY <1>2 DEF IInv, RecordsTypeOK
<1>4. RowsKept /\ KeysHold'
  BY <1>2, QuietKeeps
<1>5. RecordsTypeOK'
  BY <1>2, <1>3, TypesKept DEF IInv, RecordsTypeOK
<1>6. \A x : Holds(x) => Holds(x)'
  BY <1>2, <1>4, HoldsStays
<1>7. CallsHold'
  <2> SUFFICES ASSUME NEW v \in Users, call'[v] # Idle PROVE Holds(call[v])'
    BY DEF CallsHold
  <2>1. \A x : x = call'[v] => Holds(x)'
    <3>1. CASE v = u
      BY <3>1, <1>1, <1>3, <1>6
    <3>2. CASE v # u
      BY <3>2, <1>3, <1>6 DEF IInv, CallsHold
    <3> QED BY <3>1, <3>2
  <2> QED
    BY <2>1 DEF Holds, Wellformed, Target, Follow, References, RowsOf,
                Filled, Values
<1> QED BY <1>4, <1>5, <1>7 DEF IInv

(* A step that leaves rows and calls alone, but for a call that ends. *)
LEMMA QuietStep ==
    ASSUME IInv, UNCHANGED <<room, rows>>, RecordsTypeOK',
           \A u \in Users : call'[u] = Idle \/ call'[u] = call[u]
    PROVE  IInv'
  BY QuietKeeps, CallsHoldStays DEF IInv

\* One step per action.
LEMMA StepPreserves == IInv /\ [Next]_vars => IInv'
<1> SUFFICES ASSUME IInv, [Next]_vars PROVE IInv'
  OBVIOUS
<1>1. ASSUME NEW u \in Users, NEW q \in Posts \cup Patches, Ask(u, q)
      PROVE  IInv'
  BY <1>1, AskKeeps
<1>2. ASSUME NEW u \in Users, Create(u) PROVE IInv'
  <2>1. room' = room /\ \A v \in Users : call'[v] = Idle \/ call'[v] = call[v]
    BY <1>2 DEF Create, IInv, RecordsTypeOK
  <2> QED BY <1>2, <2>1, CreateKeeps, CallsHoldStays DEF IInv
<1>3. ASSUME NEW u \in Users, Update(u) PROVE IInv'
  <2>1. room' = room /\ \A v \in Users : call'[v] = Idle \/ call'[v] = call[v]
    BY <1>3 DEF Update, IInv, RecordsTypeOK
  <2> QED BY <1>3, <2>1, UpdateKeeps, CallsHoldStays DEF IInv
<1>4. ASSUME NEW u \in Users, Fail(u) PROVE IInv'
  <2>1. RecordsTypeOK'
    BY <1>4, TypesKept DEF Fail, IInv, RecordsTypeOK
  <2>2. \A v \in Users : call'[v] = Idle \/ call'[v] = call[v]
    BY <1>4 DEF Fail, IInv, RecordsTypeOK
  <2>3. UNCHANGED <<room, rows>>
    BY <1>4 DEF Fail
  <2> QED BY <2>1, <2>2, <2>3, QuietStep
<1>5. ASSUME NEW u \in Users \ Chiefs, NEW p \in Projects,
             NEW l \in Levels \cup {NoMember}, SetMember(u, p, l)
      PROVE  IInv'
  <2>1. UNCHANGED <<room, rows, crew, call>>
    BY <1>5 DEF SetMember
  <2>2. member' \in [Users \ Chiefs -> [Projects -> Levels \cup {NoMember}]]
    BY <1>5 DEF SetMember, IInv, RecordsTypeOK
  <2>3. RecordsTypeOK'
    BY <2>1, <2>2, TypesKept DEF IInv, RecordsTypeOK
  <2> QED BY <2>1, <2>3, QuietStep
<1>6. ASSUME NEW p \in Projects, NEW k \in Shared \cap Stored,
             NEW i \in DOMAIN rows[k], SetCrew(p, <<k, i>>)
      PROVE  IInv'
  <2>1. UNCHANGED <<room, rows, member, call>>
    BY <1>6 DEF SetCrew
  <2>2. <<k, i>> \in Shared \X Nat
    BY NullIsNoRow DEF Stored, IInv, RecordsTypeOK
  <2>3. crew' \in [Projects -> SUBSET (Shared \X Nat)]
    BY <1>6, <2>2 DEF SetCrew, IInv, RecordsTypeOK
  <2>4. RecordsTypeOK'
    BY <2>1, <2>3, TypesKept DEF IInv, RecordsTypeOK
  <2> QED BY <2>1, <2>4, QuietStep
<1>7. CASE UNCHANGED vars
  <2>1. RecordsTypeOK'
    BY <1>7, TypesKept DEF vars, IInv, RecordsTypeOK
  <2> QED BY <1>7, <2>1, QuietStep DEF vars
<1> QED BY <1>1, <1>2, <1>3, <1>4, <1>5, <1>6, <1>7 DEF Next

\* The inductive invariant holds for every family of tables.
THEOREM Invariance == Spec => []IInv
  BY InitEstablishes, StepPreserves, PTL DEF Spec

\* The tables, memberships and calls keep their shapes.
THEOREM TypeCorrect == Spec => []RecordsTypeOK
<1>1. IInv => RecordsTypeOK
  BY DEF IInv
<1> QED BY <1>1, Invariance, PTL

\* Whatever is posted and patched, and in whichever order, a stored reference
\* leads to a stored row.
THEOREM ReferencesLead == Spec => []KeysHold
<1>1. IInv => KeysHold
  BY DEF IInv
<1> QED BY <1>1, Invariance, PTL

\* The project that was checked is the project that is written to, whatever the
\* other requests store between get_by_id and crud.create or crud.update.
THEOREM ChecksHold == Spec => []CheckHoldsAtWrite
<1>1. IInv => CheckHoldsAtWrite
  BY DEF IInv, CallsHold, Holds, CheckHoldsAtWrite
<1> QED BY <1>1, Invariance, PTL

\* A user finds a row in the list of its table if and only if its detail route
\* shows it, for all the resources at once.
THEOREM ListsAgree == Spec => []ListAgreesWithGet
<1>1. IInv => ListAgreesWithGet
  <2> SUFFICES ASSUME IInv, NEW u \in Users, NEW k \in Stored
               PROVE  Listed(u, k) = Gets(u, k)
    BY DEF ListAgreesWithGet
  <2>1. k \in Kinds
    BY RecordsAssumption DEF Stored, IInv, RecordsTypeOK
  <2>2. Lists[k] = Routes[k].scope
    BY <2>1, ListsAreScopes
  <2> QED BY <2>2 DEF Listed, Gets
<1> QED BY <1>1, Invariance, PTL

\* A row keeps its project when the rows along its path keep their references.
LEMMA HomeStays ==
    ASSUME IInv, RowsKept, NEW k \in DOMAIN rows, NEW i \in DOMAIN rows[k]
    PROVE  Home(k, i)' = Home(k, i)
<1> DEFINE via == Routes[k].scope.via
           row == rows[k][i]
<1>1. ScopeIsPinned(k)
  BY ScopesArePinned, RecordsAssumption DEF IInv, RecordsTypeOK
<1>2. Len(via) > 0 => Value(rows'[k][i], via[1]) = Value(row, via[1])
  BY <1>1 DEF RowsKept, ScopeIsPinned
<1>3. KnownRow(Parent(k, via[1]), Value(row, via[1]))
  <2>1. References(k, i) = row
    BY DEF References
  <2> QED BY <2>1, LeadsToKnownRow DEF IInv
<1>4. \A x : x = rows'[k][i] =>
               Follow(k, i, x, via)' = Follow(k, i, row, via)
  BY <1>1, <1>2, <1>3, FollowStays DEF IInv
<1> QED BY <1>4 DEF Home, Follow, References

\* No step moves a stored row to another project.
THEOREM RowsStay == Spec => RowStaysInItsProject
<1>1. IInv /\ [Next]_vars =>
        [\A k \in DOMAIN rows : \A i \in DOMAIN rows[k] :
            Home(k, i)' = Home(k, i)]_vars
  <2> SUFFICES ASSUME IInv, Next,
                      NEW k \in DOMAIN rows, NEW i \in DOMAIN rows[k]
               PROVE  Home(k, i)' = Home(k, i)
    OBVIOUS
  <2>1. RowsKept
    <3>1. CASE UNCHANGED <<room, rows>>
      BY <3>1, QuietKeeps
    <3>2. CASE \E u \in Users : Create(u) \/ Update(u)
      BY <3>2, CreateKeeps, UpdateKeeps
    <3> QED BY <3>1, <3>2 DEF Next, Ask, Fail, SetMember, SetCrew
  <2> QED BY <2>1, HomeStays
<1> QED BY <1>1, Invariance, PTL DEF Spec, RowStaysInItsProject
=============================================================================
