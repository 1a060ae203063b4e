---------------------------- MODULE MCProcoreJob ---------------------------
\* Instances of ProcoreJob for TLC.
EXTENDS ProcoreJob, TLC

CONSTANTS sub, ev, ev2

\* A submittal that fits, one without a title, one with a garbled date.
Submittal == [number |-> "7", title |-> "listed", status |-> "alias",
              type |-> "foreign", due_date |-> "absent", submit_by |-> "listed",
              submitted_date |-> "absent", approved_date |-> "absent"]
Submittals == {Submittal, [Submittal EXCEPT !.title = "absent"],
               [Submittal EXCEPT !.due_date = "foreign"]}

\* A change event with and without a number.
ChangeEvent(number, status) ==
    [number |-> number, title |-> "absent", status |-> status,
     change_reason |-> "alias", event_type |-> "absent", scope |-> "foreign"]
ChangeEvents == {ChangeEvent("7", "listed"), ChangeEvent("absent", "foreign")}

JobItems == {sub, ev, ev2}
JobResourceOf == sub :> "submittals" @@ ev :> "change_events" @@ ev2 :> "change_events"
JobProjectOf == sub :> "p" @@ ev :> "p" @@ ev2 :> "p"
JobIdOf == sub :> "s" @@ ev :> "e" @@ ev2 :> "f"
JobPayloads == sub :> Submittals @@ ev :> ChangeEvents
               @@ ev2 :> {ChangeEvent("7", "alias")}
JobSessions == {<<"submittals", "change_events">>}

\* The assistant proposes the number of ev and ev2.
OneProposal == {<<"change_events", "p", "7">>}

=============================================================================
