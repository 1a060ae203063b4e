------------------------------- MODULE MCRecords -------------------------------
(* Families of tables that refer to each other, each with two projects. *)
EXTENDS Records

Family(kinds, twice) ==
    [k \in kinds \cup {"projects"} |->
        IF k \in twice \cup {"projects"} THEN 2 ELSE 1]

MCRooms == {
    Family({"commitments", "billing_periods", "payment_applications",
            "lien_waivers"}, {}),
    Family({"change_events", "commitments", "potential_change_orders",
            "commitment_change_orders", "pco_cco_links"}, {}),
    Family({"prime_contracts", "change_events", "change_event_line_items"},
           {}),
    Family({"commitments", "cost_codes", "commitment_line_items"}, {}),
    Family({"cost_codes", "budget_line_items", "budget_snapshots"}, {}),
    Family({"cost_codes", "direct_costs"}, {}),
    Family({"schedules", "schedule_activities", "schedule_snapshots"},
           {"schedules"}),
    Family({"schedules", "schedule_activities", "activity_links",
            "schedule_constraints"}, {}),
    Family({"inspections", "punch_items", "inspection_items"}, {}),
    Family({"meetings", "tasks", "meeting_action_items"}, {}),
    Family({"daily_logs", "manpower_entries"}, {"daily_logs"}),
    Family({"photo_albums", "photos"}, {}),
    Family({"observations", "safety_incidents"}, {}),
    Family({"drawing_areas", "drawings", "drawing_revisions"}, {}),
    Family({"rfis", "cost_codes"}, {}),
    Family({"attachments", "specifications"}, {}),
    Family({"submittal_packages", "submittals"}, {}),
    Family({"closeout_checklists", "closeout_checklist_items"},
           {"closeout_checklists"}),
    Family({"warranties", "warranty_claims", "warranty_alerts"}, {}),
    Family({"completion_milestones", "om_manuals"}, {}),
    Family({"companies", "insurance_certificates"}, {}),
    Family({"people", "correspondence"}, {}),
    Family({"closeout_templates", "closeout_template_items"}, {}),
    Family({"role_templates", "connector_mappings", "project_members"}, {}),
    [projects |-> 3]}
=============================================================================
