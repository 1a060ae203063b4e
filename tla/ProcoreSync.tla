---------------------------- MODULE ProcoreSync ----------------------------
(***************************************************************************)
(* One Procore resource of one connector account: sync_resource            *)
(* (services/connectors/procore/orchestrator.py) over the adapter, the     *)
(* staging writer and sync_service.                                        *)
(*                                                                         *)
(* A sync is one caller of sync_resource at a time: the admin endpoint or  *)
(* the 30 minute job, again and again.  Every write of the pipeline        *)
(* commits by itself, so a failure or a crash leaves what was written.     *)
(* The content of a source row is its version, which is also its           *)
(* updated_at.  A root resource (projects, users, vendors) has one scope   *)
(* that is always linked; the scopes of the others are the projects in     *)
(* rex.connector_mappings.                                                 *)
(***************************************************************************)
EXTENDS Integers, FiniteSets

CONSTANTS
    Items,        \* source rows
    Scopes,       \* Procore projects, or the root
    ScopeOf,      \* the scope of each item
    ExternalId,   \* procore_id of each item
    CursorCol,    \* "updated_at" (rfis), "procore_id" (root resources) or
                  \* "none" (the five resources of the direct API)
    PageSize,     \* DEFAULT_PAGE_SIZE
    Syncs,        \* concurrent callers
    LinkedFirst,  \* scopes linked from the start
    Batches,      \* sets of items the source may change in one instant
    MaxTime,      \* bound on the source's clock
    MaxFailures   \* bound on failures and crashes

ASSUME ProcoreSyncAssumption ==
    /\ IsFiniteSet(Items)
    /\ ScopeOf \in [Items -> Scopes]
    /\ ExternalId \in [Items -> Nat \ {0}]
    /\ CursorCol \in {"updated_at", "procore_id", "none"}
    /\ PageSize \in Nat \ {0}
    /\ LinkedFirst \subseteq Scopes
    /\ Batches \subseteq SUBSET Items
    /\ MaxTime \in Nat
    /\ MaxFailures \in Nat

VARIABLES
    src,       \* version of each item in the source; 0 before it exists
    clock,     \* the source's clock
    linked,    \* scopes with a connector mapping
    staged,    \* version in connector_procore.<resource>_raw
    canon,     \* version in the canonical table
    links,     \* items with a source link
    cursor,    \* rex.sync_cursors; 0 when there is no row
    sync,      \* what each sync is doing and its sync_runs row
    seen,      \* history: the newest version any sync fetched
    failures

vars == <<src, clock, linked, staged, canon, links, cursor, sync, seen, failures>>

Time == 0 .. MaxTime

\* The position of version v of item i on the cursor's axis.
Mark(i, v) == IF CursorCol = "procore_id" THEN ExternalId[i] ELSE v

Marks == {0} \cup {Mark(i, v) : i \in Items, v \in Time}

NoPage == [i \in Items |-> 0]

Init ==
    /\ src = [i \in Items |-> 0]
    /\ clock = 0
    /\ linked = LinkedFirst
    /\ staged = [i \in Items |-> 0]
    /\ canon = [i \in Items |-> 0]
    /\ links = {}
    /\ cursor = 0
    /\ sync = [s \in Syncs |-> [pc |-> "idle", run |-> "none", from |-> 0,
                                todo |-> {}, page |-> NoPage, written |-> {},
                                next |-> 0]]
    /\ seen = [i \in Items |-> 0]
    /\ failures = 0

-----------------------------------------------------------------------------
\* sync[s] is at pc `from` and continues at `to`.
Goto(s, from, to) ==
    /\ sync[s].pc = from
    /\ sync' = [sync EXCEPT ![s].pc = to]

InPage(page) == {i \in Items : page[i] # 0}

\* The rows of a scope past the cursor: fetch_rows compares strictly, and the
\* direct API is never given a cursor.
PastCursor(scope, from) ==
    {i \in Items : /\ ScopeOf[i] = scope
                   /\ src[i] # 0
                   /\ CursorCol # "none" => Mark(i, src[i]) > from}

\* ORDER BY the cursor column LIMIT PageSize: the first rows, ties cut off
\* anywhere.  The direct API's client follows every page.
FirstPage(items, S) ==
    /\ S \subseteq items
    /\ IF CursorCol = "none" \/ Cardinality(items) <= PageSize
       THEN S = items
       ELSE /\ Cardinality(S) = PageSize
            /\ \A i \in S, j \in items \ S : Mark(i, src[i]) <= Mark(j, src[j])

\* next_cursor of a page, and the smallest of those seen (0: none yet).
LastMark(page) ==
    CHOOSE m \in {Mark(i, page[i]) : i \in InPage(page)} :
        \A i \in InPage(page) : Mark(i, page[i]) <= m

Earliest(next, page) ==
    IF CursorCol = "none" THEN 0
    ELSE IF next = 0 \/ LastMark(page) < next THEN LastMark(page)
    ELSE next

\* The rows of a page are written in its order.
Oldest(page, i) ==
    /\ i \in InPage(page)
    /\ CursorCol = "none"
       \/ \A j \in InPage(page) : Mark(i, page[i]) <= Mark(j, page[j])

-----------------------------------------------------------------------------
(* Variants of actions below, each with a mistake; Next uses none of them. *)

\* The failure path sets the cursor the loop had reached.
StopsAdvanced(s) ==
    /\ sync[s].pc # "idle"
    /\ failures < MaxFailures
    /\ failures' = failures + 1
    /\ cursor' = IF sync[s].next # 0 THEN sync[s].next ELSE cursor
    /\ sync' = [sync EXCEPT ![s].pc = "idle", ![s].run = "failed"]
    /\ UNCHANGED <<src, clock, linked, staged, canon, links, seen>>

\* A row whose canonical write fails is skipped.
WriteSkips(s) ==
    /\ \E i \in Items :
          /\ Oldest(sync[s].page, i)
          /\ sync[s].pc = "write"
          /\ sync' = [sync EXCEPT ![s].pc = "link", ![s].written = {i}]
    /\ UNCHANGED <<src, clock, linked, staged, canon, links, cursor, seen, failures>>

\* No guard against a run without any next_cursor.
AdvanceResets(s) ==
    /\ sync[s].todo = {}
    /\ Goto(s, "fetch", "finish")
    /\ cursor' = sync[s].next
    /\ UNCHANGED <<src, clock, linked, staged, canon, links, seen, failures>>

-----------------------------------------------------------------------------
(* The world outside *)

\* The source changes a batch of rows at one instant.
SourceChanges(S) ==
    /\ clock < MaxTime
    /\ clock' = clock + 1
    /\ src' = [i \in Items |-> IF i \in S THEN clock + 1 ELSE src[i]]
    /\ UNCHANGED <<linked, staged, canon, links, cursor, sync, seen, failures>>

\* A sync of "projects" links a project.
LinkScope(scope) ==
    /\ scope \notin linked
    /\ linked' = linked \cup {scope}
    /\ UNCHANGED <<src, clock, staged, canon, links, cursor, sync, seen, failures>>

-----------------------------------------------------------------------------
(* sync_resource *)

\* The sync_runs row, the cursor and the scopes.  Nothing looks for another
\* run of the same resource.
Begin(s) ==
    /\ sync[s].pc = "idle"
    /\ sync' = [sync EXCEPT ![s] = [pc |-> "fetch", run |-> "running",
                                    from |-> cursor, todo |-> linked,
                                    page |-> NoPage, written |-> {},
                                    next |-> 0]]
    /\ UNCHANGED <<src, clock, linked, staged, canon, links, cursor, seen, failures>>

\* An empty page leaves no next_cursor behind.
Fetch(s) ==
    /\ sync[s].pc = "fetch"
    /\ \E scope \in sync[s].todo :
          \E S \in SUBSET PastCursor(scope, sync[s].from) :
            /\ FirstPage(PastCursor(scope, sync[s].from), S)
            /\ sync' = [sync EXCEPT
                  ![s].todo = @ \ {scope},
                  ![s].pc = IF S = {} THEN "fetch" ELSE "stage",
                  ![s].page = [i \in Items |-> IF i \in S THEN src[i] ELSE 0]]
            /\ seen' = [i \in Items |-> IF i \in S THEN src[i] ELSE seen[i]]
    /\ UNCHANGED <<src, clock, linked, staged, canon, links, cursor, failures>>

\* upsert_raw stages the whole page.  A row with the same checksum is left
\* alone; any other is overwritten, also by an older one.
Stage(s) ==
    LET page == sync[s].page
    IN  /\ sync[s].pc = "stage"
        /\ staged' = [i \in Items |-> IF page[i] # 0 THEN page[i] ELSE staged[i]]
        /\ sync' = [sync EXCEPT ![s].pc = "write",
                                ![s].next = Earliest(@, page)]
        /\ UNCHANGED <<src, clock, linked, canon, links, cursor, seen, failures>>

\* The next row of the page: map, INSERT ... ON CONFLICT DO UPDATE, commit.
Write(s) ==
    /\ \E i \in Items :
          /\ Oldest(sync[s].page, i)
          /\ sync[s].pc = "write"
          /\ canon' = [canon EXCEPT ![i] = sync[s].page[i]]
          /\ sync' = [sync EXCEPT ![s].pc = "link", ![s].written = {i}]
    /\ UNCHANGED <<src, clock, linked, staged, links, cursor, seen, failures>>

Link(s) ==
    /\ sync[s].pc = "link"
    /\ \E i \in sync[s].written :
          /\ links' = links \cup {i}
          /\ sync' = [sync EXCEPT ![s].page[i] = 0, ![s].written = {},
                ![s].pc = IF InPage(sync[s].page) = {i} THEN "fetch" ELSE "write"]
    /\ UNCHANGED <<src, clock, linked, staged, canon, cursor, seen, failures>>

\* After the last scope the shared cursor moves to the earliest next_cursor.
Advance(s) ==
    /\ sync[s].todo = {}
    /\ Goto(s, "fetch", "finish")
    /\ cursor' = IF sync[s].next \in {0, sync[s].from} THEN cursor
                 ELSE sync[s].next
    /\ UNCHANGED <<src, clock, linked, staged, canon, links, seen, failures>>

Finish(s) ==
    /\ sync[s].pc = "finish"
    /\ sync' = [sync EXCEPT ![s].pc = "idle", ![s].run = "succeeded"]
    /\ UNCHANGED <<src, clock, linked, staged, canon, links, cursor, seen, failures>>

\* An exception marks the run failed; a crash, or an exception that left the
\* session unusable for that update, leaves it running.
Stops(s) ==
    /\ sync[s].pc # "idle"
    /\ failures < MaxFailures
    /\ failures' = failures + 1
    /\ \E run \in {"failed", "running"} :
          sync' = [sync EXCEPT ![s].pc = "idle", ![s].run = run]
    /\ UNCHANGED <<src, clock, linked, staged, canon, links, cursor, seen>>

Continue(s) ==
    \/ Begin(s) \/ Fetch(s) \/ Stage(s) \/ Write(s) \/ Link(s)
    \/ Advance(s) \/ Finish(s)

Next ==
    \/ \E S \in Batches : SourceChanges(S)
    \/ \E scope \in Scopes : LinkScope(scope)
    \/ \E s \in Syncs : Continue(s) \/ Stops(s)

Spec == Init /\ [][Next]_vars

\* The resource is synced again and again (cron */30, or the operator), and
\* failures stop at their bound.
FairSpec ==
    /\ Spec
    /\ \A s \in Syncs : WF_vars(Continue(s))
    /\ \A scope \in Scopes : WF_vars(LinkScope(scope))

-----------------------------------------------------------------------------
\* Item i was fetched, and its newest fetched version or its link is missing.
Pending(i) == seen[i] > canon[i] \/ (seen[i] > 0 /\ i \notin links)

\* orchestrator.py:52, "Idempotent replay catches up the rest": a version that
\* some sync fetched and that did not reach the canonical table with its link
\* is still past the cursor, so a later sync fetches its item again, wherever
\* the first one failed or crashed.
NothingFetchedIsDropped ==
    \A i \in Items : Pending(i) => Mark(i, src[i]) > cursor

\* The cursor never moves back, although it is overwritten with the minimum
\* over whatever pages a run happened to see.
CursorNeverGoesBack == [][cursor' >= cursor]_vars

\* Once the source stops changing, repeated syncs bring every row of every
\* linked scope to its last version, with its link.
Converges ==
    <>[](\A i \in Items : src[i] # 0 /\ ScopeOf[i] \in linked =>
            canon[i] = src[i] /\ i \in links)

-----------------------------------------------------------------------------
(* The inductive invariant behind NothingFetchedIsDropped *)

\* One caller at a time moves a cursor.
OneCaller == CursorCol # "none" => \A s, t \in Syncs : s = t

\* No two rows share a place on the cursor's axis.
NoTies ==
    /\ CursorCol = "updated_at" => \A S \in Batches : \A i, j \in S : i = j
    /\ CursorCol = "procore_id" =>
        \A i, j \in Items : ExternalId[i] = ExternalId[j] => i = j

PCs == {"idle", "fetch", "stage", "write", "link", "finish"}

Run == [pc : PCs, run : {"none", "running", "failed", "succeeded"},
        from : Nat, todo : SUBSET Scopes, page : [Items -> Time],
        written : SUBSET Items, next : Nat]

TypeOK ==
    /\ src \in [Items -> Time] /\ staged \in [Items -> Time]
    /\ canon \in [Items -> Time] /\ seen \in [Items -> Time]
    /\ clock \in Time /\ cursor \in Nat /\ failures \in Nat
    /\ linked \subseteq Scopes /\ links \subseteq Items
    /\ sync \in [Syncs -> Run]

\* No copy of a row is newer than where it came from, and only rows of linked
\* scopes are fetched.
RowProvenance(i) ==
    /\ canon[i] <= seen[i] /\ seen[i] <= src[i] /\ src[i] <= clock
    /\ seen[i] > 0 => ScopeOf[i] \in linked

\* The same for the page in hand, which has rows when it is to be staged.
RunProvenance(s) ==
    /\ sync[s].todo \subseteq linked
    /\ \A i \in Items : sync[s].page[i] <= seen[i]
    /\ sync[s].pc = "stage" => \E i \in Items : sync[s].page[i] # 0

Provenance ==
    /\ \A i \in Items : RowProvenance(i)
    /\ \A s \in Syncs : RunProvenance(s)

\* Without a cursor column the cursor stays where it was.
NoCursor ==
    CursorCol = "none" => cursor = 0 /\ \A s \in Syncs : sync[s].next = 0

\* Rows are told apart by their place on the cursor's axis.
Apart ==
    CursorCol # "none" =>
        \A i, j \in Items :
            src[i] # 0 /\ src[j] # 0 /\ Mark(i, src[i]) = Mark(j, src[j]) => i = j

\* What a sync under way read lies past the cursor, and so does the place it is
\* going to move the cursor to.
CursorInv(s) ==
    sync[s].pc \notin {"idle", "finish"} =>
        /\ sync[s].from = cursor
        /\ sync[s].next # 0 => sync[s].next > cursor
        /\ \A i \in InPage(sync[s].page) : Mark(i, sync[s].page[i]) > cursor

\* Its page is the newest that was fetched of its rows, and empty before a
\* fetch; the row to be linked is written.
PageInv(s) ==
    /\ CursorInv(s)
    /\ sync[s].pc \notin {"idle", "finish"} =>
        \A i \in InPage(sync[s].page) : sync[s].page[i] = seen[i]
    /\ sync[s].pc = "fetch" => InPage(sync[s].page) = {}
    /\ sync[s].pc = "link" =>
        \A i \in sync[s].written : i \in InPage(sync[s].page) /\ canon[i] = seen[i]

\* What is pending when a sync is under way it will still fetch, has in its
\* page, or leaves in front of the place it is going to move the cursor to.
Covered(s, i) ==
    \/ ScopeOf[i] \in sync[s].todo
    \/ i \in InPage(sync[s].page)
    \/ sync[s].next # 0 /\ Mark(i, src[i]) > sync[s].next
    \/ /\ sync[s].pc = "stage"
       /\ \A j \in InPage(sync[s].page) :
            Mark(j, sync[s].page[j]) < Mark(i, src[i])

CoverInv(s) ==
    sync[s].pc \notin {"idle", "finish"} =>
        \A i \in Items : Pending(i) => Covered(s, i)

SyncInv == CursorCol # "none" => \A s \in Syncs : PageInv(s) /\ CoverInv(s)

IInv ==
    /\ TypeOK /\ Provenance /\ NoCursor /\ Apart /\ SyncInv
    /\ NothingFetchedIsDropped

-----------------------------------------------------------------------------
(* What the documentation says and the code does not do *)

\* orchestrator.py:25-27, the cursor advances to the minimum over projects that
\* returned non-empty pages "(ensures no project is starved)": no row of a
\* linked project falls behind the cursor before it was synced.
NoProjectIsStarved ==
    \A i \in Items :
        /\ src[i] # 0 /\ ScopeOf[i] \in linked
        /\ Mark(i, src[i]) <= cursor
        /\ \A s \in Syncs : sync[s].pc = "idle"
        => canon[i] = src[i]

=============================================================================
