----------------------------- MODULE ProcoreJob ----------------------------
(***************************************************************************)
(* Everything one database session syncs from Procore: the 30 minute job   *)
(* (connectors/procore/scheduler_job.py), which runs sync_resource for     *)
(* each account and resource on the session it is handed, or one request   *)
(* of the admin endpoint.  Beside it the assistant's create_change_event   *)
(* inserts into the same rex.change_events.                                *)
(*                                                                         *)
(* The five resources of the job are read from Procore's own API, whole    *)
(* and without a cursor.  ProcoreSync is the view of one resource with its *)
(* cursor, staging and crashes between two writes; here the subject is     *)
(* what a row that a mapper or a table refuses does to the others.         *)
(***************************************************************************)
EXTENDS Integers, Sequences, ProcoreRows

CONSTANTS
    Items,       \* Procore rows
    ResourceOf,  \* the resource of each
    ProjectOf,   \* its project ("root" for the root resources)
    IdOf,        \* its Procore id
    Payloads,    \* what each item may hold
    Sessions,    \* the lists of resources a session may sync
    Proposals,   \* keys of change events the assistant may propose
    MaxChanges,  \* bound on the source's changes
    MaxFailures  \* bound on HTTP errors and crashes

ASSUME ProcoreJobAssumption ==
    /\ ResourceOf \in [Items -> Resources]
    /\ {"nobody", "tool"} \cap Items = {}     \* whom a row may be by
    /\ MaxChanges \in Nat /\ MaxFailures \in Nat

VARIABLES
    src,       \* what Procore holds for each item
    table,     \* the rex tables: per key the payload written last
    link,      \* rex.connector_mappings: the key of the row an item is linked to
    job,       \* the session at work
    run,       \* the sync_runs row of each of its resources
    tool,      \* the proposals: "proposed", "committed" or "failed"
    changes, failures

vars == <<src, table, link, job, run, tool, changes, failures>>

Gone == [number |-> "gone"]      \* not in the source

\* A key of a table; a row's id stands for it, as no row is ever deleted.
KeysOf(i) == {<<ResourceOf[i], ProjectOf[i], KeyOf(ResourceOf[i], IdOf[i], p)>> :
                p \in Payloads[i]}
Keys == (UNION {KeysOf(i) : i \in Items}) \cup Proposals

Key(i, p) == <<ResourceOf[i], ProjectOf[i], KeyOf(ResourceOf[i], IdOf[i], p)>>

\* by: the item the payload came from, or "tool".
NoRow == [by |-> "nobody", holds |-> Gone]

Nothing == [i \in Items |-> Gone]
\* read: what the run has read (a history variable); failed: what the loop
\* counts as fail.
Idle == [pc |-> "idle", list |-> <<>>, at |-> 1, page |-> Nothing,
         read |-> Nothing, aborted |-> FALSE, failed |-> {}]

Init ==
    /\ src = Nothing
    /\ table = [k \in Keys |-> NoRow]
    /\ link = [i \in Items |-> <<>>]
    /\ job = Idle
    /\ run = <<>>
    /\ tool = [k \in Proposals |-> "none"]
    /\ changes = 0
    /\ failures = 0

-----------------------------------------------------------------------------
\* The session moves to its next resource.
NextResource == [job EXCEPT !.pc = "start", !.at = @ + 1, !.page = Nothing,
                            !.read = Nothing]

\* sync_resource raised: the loop counts it and goes on, on the same session.
Failed == [NextResource EXCEPT !.failed = @ \cup {job.at}]

InPage == {i \in Items : job.page[i] # Gone}

Resource == job.list[job.at]

Upsert(k, i, p) ==
    table' = [table EXCEPT ![k] = [by |-> i, holds |-> p]]

-----------------------------------------------------------------------------
(* Variants with a mistake, used to show that a property can fail. *)

\* A refused row is logged and skipped.
RowIsSkipped(i) ==
    /\ job.pc = "rows" /\ i \in InPage
    /\ ~MapperRaises(Resource, job.page[i])
    /\ ~TableAccepts(Resource, job.page[i])
    /\ job' = [job EXCEPT !.page[i] = Gone]
    /\ UNCHANGED <<src, table, link, run, tool, changes, failures>>

\* The tool upserts as the sync does.
ToolUpserts(k) ==
    /\ tool[k] = "proposed"
    /\ tool' = [tool EXCEPT ![k] = "committed"]
    /\ table' = [table EXCEPT ![k] = [by |-> "tool", holds |-> Gone]]
    /\ UNCHANGED <<src, link, job, run, changes, failures>>

\* The next tick continues on the session the last one left.
BeginOnOldSession(list) ==
    /\ job.pc = "idle"
    /\ job' = [Idle EXCEPT !.pc = "start", !.list = list, !.aborted = job.aborted]
    /\ run' = [n \in 1 .. Len(list) |-> "none"]
    /\ UNCHANGED <<src, table, link, tool, changes, failures>>

-----------------------------------------------------------------------------
(* Procore and the assistant *)

SourceChanges(i, p) ==
    /\ changes < MaxChanges
    /\ changes' = changes + 1
    /\ src' = [src EXCEPT ![i] = p]
    /\ UNCHANGED <<table, link, job, run, tool, failures>>

\* The model proposes a change event; it waits for approval.
ToolProposes(k) ==
    /\ tool[k] = "none"
    /\ tool' = [tool EXCEPT ![k] = "proposed"]
    /\ UNCHANGED <<src, table, link, job, run, changes, failures>>

\* Approved: a plain INSERT, which a row with that number refuses.
ToolInserts(k) ==
    /\ tool[k] = "proposed"
    /\ IF table[k] = NoRow
       THEN /\ tool' = [tool EXCEPT ![k] = "committed"]
            /\ table' = [table EXCEPT ![k] = [by |-> "tool", holds |-> Gone]]
       ELSE /\ tool' = [tool EXCEPT ![k] = "failed"]
            /\ UNCHANGED table
    /\ UNCHANGED <<src, link, job, run, changes, failures>>

-----------------------------------------------------------------------------
(* One session *)

\* A tick, or a request, gets a session of its own.
Begin(list) ==
    /\ job.pc = "idle"
    /\ job' = [Idle EXCEPT !.pc = "start", !.list = list]
    /\ run' = [n \in 1 .. Len(list) |-> "none"]
    /\ UNCHANGED <<src, table, link, tool, changes, failures>>

\* start_sync_run is outside sync_resource's try: on an aborted transaction
\* it raises before there is a sync_runs row.
StartRun ==
    /\ job.pc = "start" /\ job.at <= Len(job.list)
    /\ IF job.aborted
       THEN job' = Failed /\ UNCHANGED run
       ELSE /\ job' = [job EXCEPT !.pc = "fetch"]
            /\ run' = [run EXCEPT ![job.at] = "running"]
    /\ UNCHANGED <<src, table, link, tool, changes, failures>>

\* The pages of the resource, and their staging.
Fetch ==
    /\ job.pc = "fetch"
    /\ LET page == [i \in Items |-> IF ResourceOf[i] = Resource THEN src[i] ELSE Gone]
       IN  job' = [job EXCEPT !.pc = "rows", !.page = page, !.read = page]
    /\ UNCHANGED <<src, table, link, run, tool, changes, failures>>

\* An HTTP error leaves the session usable: the run is marked failed.
FetchRaises ==
    /\ job.pc = "fetch"
    /\ failures < MaxFailures
    /\ failures' = failures + 1
    /\ job' = Failed
    /\ run' = [run EXCEPT ![job.at] = "failed"]
    /\ UNCHANGED <<src, table, link, tool, changes>>

\* Map, upsert, link.
RowIsStored(i) ==
    /\ job.pc = "rows" /\ i \in InPage
    /\ ~MapperRaises(Resource, job.page[i])
    /\ TableAccepts(Resource, job.page[i])
    /\ Upsert(Key(i, job.page[i]), i, job.page[i])
    /\ link' = [link EXCEPT ![i] = Key(i, job.page[i])]
    /\ job' = [job EXCEPT !.page[i] = Gone]
    /\ UNCHANGED <<src, run, tool, changes, failures>>

\* An exception of Python: the run is marked failed, the session lives on.
MapperRefuses(i) ==
    /\ job.pc = "rows" /\ i \in InPage
    /\ MapperRaises(Resource, job.page[i])
    /\ job' = Failed
    /\ run' = [run EXCEPT ![job.at] = "failed"]
    /\ UNCHANGED <<src, table, link, tool, changes, failures>>

\* A constraint: nobody rolls the session back, so marking the run failed
\* raises as well and its row stays 'running'.
TableRefuses(i) ==
    /\ job.pc = "rows" /\ i \in InPage
    /\ ~MapperRaises(Resource, job.page[i])
    /\ ~TableAccepts(Resource, job.page[i])
    /\ job' = [Failed EXCEPT !.aborted = TRUE]
    /\ UNCHANGED <<src, table, link, run, tool, changes, failures>>

FinishRun ==
    /\ job.pc = "rows" /\ InPage = {}
    /\ job' = NextResource
    /\ run' = [run EXCEPT ![job.at] = "succeeded"]
    /\ UNCHANGED <<src, table, link, tool, changes, failures>>

End ==
    /\ job.pc = "start" /\ job.at > Len(job.list)
    /\ job' = [job EXCEPT !.pc = "idle"]
    /\ UNCHANGED <<src, table, link, run, tool, changes, failures>>

Crash ==
    /\ job.pc # "idle"
    /\ failures < MaxFailures
    /\ failures' = failures + 1
    /\ job' = [job EXCEPT !.pc = "idle"]
    /\ UNCHANGED <<src, table, link, run, tool, changes>>

Row(i) == RowIsStored(i) \/ MapperRefuses(i) \/ TableRefuses(i)

Work == StartRun \/ Fetch \/ (\E i \in Items : Row(i)) \/ FinishRun \/ End

Next ==
    \/ \E i \in Items : \E p \in Payloads[i] : SourceChanges(i, p)
    \/ \E k \in Proposals : ToolProposes(k) \/ ToolInserts(k)
    \/ \E list \in Sessions : Begin(list)
    \/ Work \/ FetchRaises \/ Crash

Spec == Init /\ [][Next]_vars

\* Every list is due again and again (cron */30, or the operator).
FairSpec == /\ Spec
            /\ WF_vars(Work)
            /\ \A list \in Sessions : SF_vars(Begin(list))

-----------------------------------------------------------------------------
(* Properties *)

\* The row a payload of item i belongs in holds what `from` says of one of the
\* items with its key, and i is linked to it.
InPlace(i, from) ==
    LET k == Key(i, from[i])
    IN  /\ link[i] = k
        /\ \E j \in Items : from[j] # Gone /\ Key(j, from[j]) = k
                            /\ table[k].holds = from[j]

\* When a run is marked succeeded, every row it read is in place: linked to the
\* row of its own number, which holds this run's payload of it or, where two
\* Procore rows have one key, of the other one.
SucceededMeansStored ==
    [][run # run' /\ job.at \in DOMAIN run' /\ run'[job.at] = "succeeded" =>
        \A i \in Items : job.read[i] # Gone => InPlace(i, job.read)]_vars

\* A change event that Procore wrote is never set back to what the assistant
\* proposed, however late the approval comes.
ProcoreWins ==
    [][\A k \in Keys : table[k].by \in Items => table'[k].by \in Items]_vars

Blocks(i) == src[i] # Gone /\ ~MapperRaises(ResourceOf[i], src[i])
                          /\ ~TableAccepts(ResourceOf[i], src[i])

\* A session reaches i: no table refuses a row of the resources before its own,
\* and nothing refuses a row of its own.
Reached(i) ==
    \E list \in Sessions : \E n \in DOMAIN list :
        /\ list[n] = ResourceOf[i]
        /\ \A j \in Items :
            /\ (\E m \in 1 .. n : list[m] = ResourceOf[j]) => ~Blocks(j)
            /\ ResourceOf[j] = list[n] /\ src[j] # Gone =>
                    ~MapperRaises(list[n], src[j])

\* Once Procore stops changing, the ticks bring every row of a session's clean
\* part into place, whatever failed or crashed before and whatever the
\* assistant inserted first: an aborted transaction ends with its session.
CleanPartConverges ==
    <>[](\A i \in Items : src[i] # Gone /\ Reached(i) => InPlace(i, src))

=============================================================================
