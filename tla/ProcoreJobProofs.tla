-------------------------- MODULE ProcoreJobProofs -------------------------
(***************************************************************************)
(* Which Procore rows a rex table can refuse, whatever they hold, and what  *)
(* a run that is marked succeeded has stored, for any rows and resources.  *)
(***************************************************************************)
EXTENDS ProcoreJob, TLAPS

\* The resources whose mapper repairs every constrained column.
Tolerant == Root \cup {"change_events", "inspections"}

\* Classified and OrPlaceholder leave neither NULL nor a foreign word.
LEMMA ClassifiedIsListed ==
    ASSUME NEW v
    PROVE  NotNull(Classified(v)) /\ Check(Classified(v))
  BY DEF Classified, NotNull, Check

\* A column with a placeholder is never NULL.
LEMMA PlaceholderIsNotNull ==
    ASSUME NEW v
    PROVE  NotNull(OrPlaceholder(v))
  BY DEF OrPlaceholder, NotNull

\* No constraint of rex.projects, people, companies, change_events or
\* inspections refuses a mapped row, whatever Procore holds: for these only a
\* garbled date fails a sync (mapper.py, _iso_date).
THEOREM TolerantRowsAreAccepted ==
    ASSUME NEW resource \in Tolerant, NEW p
    PROVE  TableAccepts(resource, p)
  <1>1. AcceptsProject(MapProject(p))
    BY ClassifiedIsListed, PlaceholderIsNotNull DEF AcceptsProject, MapProject
  <1>2. AcceptsPerson(MapUser(p))
    <2> DEFINE nameless == p.first_name = "absent" /\ p.last_name = "absent"
    <2>1. /\ NotNull(OrPlaceholder(IF nameless THEN p.full_first ELSE p.first_name))
          /\ NotNull(OrPlaceholder(IF nameless THEN p.full_rest ELSE p.last_name))
      BY PlaceholderIsNotNull
    <2> QED
      BY <2>1 DEF AcceptsPerson, MapUser
  <1>3. AcceptsCompany(MapVendor(p))
    BY PlaceholderIsNotNull DEF AcceptsCompany, MapVendor
  <1>4. AcceptsChangeEvent(MapChangeEvent(p))
    BY ClassifiedIsListed, PlaceholderIsNotNull
    DEF AcceptsChangeEvent, MapChangeEvent
  <1>5. AcceptsInspection(MapInspection(p))
    BY ClassifiedIsListed, PlaceholderIsNotNull
    DEF AcceptsInspection, MapInspection
  <1> QED
    BY <1>1, <1>2, <1>3, <1>4, <1>5 DEF TableAccepts, Tolerant, Root

-----------------------------------------------------------------------------
(* Types *)

HeldBy(i) == Payloads[i] \cup {Gone}
Held == UNION {HeldBy(i) : i \in Items}

Lists == Sessions \cup {<<>>}

JobRec == [pc : {"idle", "start", "fetch", "rows"}, list : Lists,
           at : Nat, page : [Items -> Held], read : [Items -> Held],
           aborted : BOOLEAN, failed : SUBSET Nat]

Types ==
    /\ src \in [Items -> Held]
    /\ table = [k \in Keys |-> table[k]]
    /\ link = [i \in Items |-> link[i]]
    /\ job \in JobRec
    /\ \A i \in Items : src[i] \in HeldBy(i) /\ job.read[i] \in HeldBy(i)

\* What a run has read and no longer has before it is in place, in a row that
\* a sync wrote; what it still has is what it read.
Stored ==
    job.pc = "rows" =>
        \A i \in Items :
            /\ job.page[i] \in {Gone, job.read[i]}
            /\ job.page[i] = Gone /\ job.read[i] # Gone =>
                    /\ InPlace(i, job.read)
                    /\ table[Key(i, job.read[i])].by \in Items

IInv == Types /\ Stored

\* The natural key of a payload is one of the keys.
LEMMA KeyIsAKey ==
    ASSUME NEW i \in Items, NEW q \in Payloads[i]
    PROVE  Key(i, q) \in Keys
  BY DEF Key, KeysOf, Keys

\* A session that is not between its rows has nothing to show for them.
LEMMA NextResourceTypes ==
    ASSUME Types
    PROVE  /\ NextResource \in JobRec /\ Failed \in JobRec
           /\ [Failed EXCEPT !.aborted = TRUE] \in JobRec
           /\ NextResource.pc = "start" /\ Failed.pc = "start"
           /\ [Failed EXCEPT !.aborted = TRUE].pc = "start"
           /\ NextResource.read = Nothing /\ Failed.read = Nothing
           /\ [Failed EXCEPT !.aborted = TRUE].read = Nothing
  <1>1. job \in JobRec
    BY DEF Types
  <1>2. Nothing \in [Items -> Held]
    BY DEF Nothing, Held, HeldBy
  <1> DEFINE n == [job EXCEPT !.pc = "start", !.at = @ + 1, !.page = Nothing,
                              !.read = Nothing]
             f == [n EXCEPT !.failed = @ \cup {job.at}]
             d == [f EXCEPT !.aborted = TRUE]
  <1>3. n \in JobRec /\ n.pc = "start" /\ n.read = Nothing
    <2>1. job.at + 1 \in Nat
      BY <1>1 DEF JobRec
    <2> DEFINE b == [job EXCEPT !.pc = "start"]
               c == [b EXCEPT !.at = job.at + 1]
               e == [c EXCEPT !.page = Nothing]
               g == [e EXCEPT !.read = Nothing]
    <2>2. b \in JobRec /\ b.pc = "start"
      BY <1>1 DEF JobRec
    <2> HIDE DEF b
    <2>3. c \in JobRec /\ c.pc = "start"
      BY <2>1, <2>2 DEF JobRec
    <2> HIDE DEF c
    <2>4. e \in JobRec /\ e.pc = "start"
      BY <1>2, <2>3 DEF JobRec
    <2> HIDE DEF e
    <2>5. g \in JobRec /\ g.pc = "start" /\ g.read = Nothing
      BY <1>2, <2>4 DEF JobRec
    <2> USE DEF b, c, e
    <2>6. n = g
      OBVIOUS
    <2> QED
      BY <2>5, <2>6
  <1>4. f \in JobRec /\ f.pc = "start" /\ f.read = Nothing
    <2> HIDE DEF n
    <2> QED
      BY <1>1, <1>3 DEF JobRec
  <1>5. d \in JobRec /\ d.pc = "start" /\ d.read = Nothing
    <2> HIDE DEF f
    <2> QED
      BY <1>4 DEF JobRec
  <1>6. NextResource = n /\ Failed = f
    BY DEF NextResource, Failed
  <1> QED
    BY <1>3, <1>4, <1>5, <1>6

\* The invariant where the session is not between its rows afterwards.
LEMMA OutOfRows ==
    ASSUME Types, src' = src \/ src' \in [Items -> Held],
           \A i \in Items : src'[i] \in HeldBy(i),
           UNCHANGED <<table, link>>, job' \in JobRec, job'.pc # "rows",
           job'.read = job.read \/ job'.read = Nothing
    PROVE  IInv'
  <1>1. \A i \in Items : Nothing[i] \in HeldBy(i)
    BY DEF Nothing, HeldBy
  <1>2. Types'
    BY <1>1 DEF Types
  <1> QED
    BY <1>2 DEF IInv, Stored

\* The invariant holds before the first job.
LEMMA InitIInv == Init => IInv
  <1> SUFFICES ASSUME Init
               PROVE  IInv
    OBVIOUS
  <1>1. Nothing \in [Items -> Held] /\ \A i \in Items : Nothing[i] \in HeldBy(i)
    BY DEF Nothing, Held, HeldBy
  <1>2. Idle \in JobRec /\ Idle.pc = "idle" /\ Idle.read = Nothing
    BY <1>1 DEF Idle, JobRec, Lists
  <1>3. Types
    BY <1>1, <1>2 DEF Types, Init
  <1> QED
    BY <1>2, <1>3 DEF IInv, Stored, Init

-----------------------------------------------------------------------------
(* The steps that keep or enter a session's rows *)

\* Fetching a page keeps the invariant.
LEMMA FetchKeepsIInv == IInv /\ Fetch => IInv'
  <1> SUFFICES ASSUME IInv, Fetch
               PROVE  IInv'
    OBVIOUS
  <1> DEFINE page == [i \in Items |-> IF ResourceOf[i] = Resource THEN src[i] ELSE Gone]
             b == [job EXCEPT !.pc = "rows"]
             c == [b EXCEPT !.page = page]
             d == [c EXCEPT !.read = page]
  <1>1. page \in [Items -> Held] /\ \A i \in Items : page[i] \in HeldBy(i)
    BY DEF IInv, Types, Held, HeldBy
  <1> HIDE DEF page
  <1>2. b \in JobRec
    BY DEF IInv, Types, JobRec
  <1> HIDE DEF b
  <1>3. c \in JobRec /\ c.page = page
    BY <1>1, <1>2 DEF JobRec
  <1> HIDE DEF c
  <1>4. d \in JobRec /\ d.page = page /\ d.read = page
    BY <1>1, <1>3 DEF JobRec
  <1> USE DEF b, c
  <1>5. job' = d
    BY DEF Fetch, page
  <1> HIDE DEF b, c, d
  <1>6. Types'
    BY <1>1, <1>4, <1>5 DEF IInv, Types, Fetch
  <1>7. Stored'
    BY <1>1, <1>4, <1>5 DEF Stored
  <1> QED
    BY <1>6, <1>7 DEF IInv

\* Storing a row keeps the invariant.
LEMMA RowKeepsIInv ==
    ASSUME NEW i \in Items, IInv, RowIsStored(i)
    PROVE  IInv'
  <1> DEFINE page == [job.page EXCEPT ![i] = Gone]
             c == [job EXCEPT !.page = page]
             q == job.page[i]
             k == Key(i, q)
  <1>1. /\ job.pc = "rows" /\ q # Gone /\ q = job.read[i]
        /\ q \in Payloads[i] /\ k \in Keys
    <2>1. job.pc = "rows" /\ q # Gone
      BY DEF RowIsStored, InPage
    <2>2. q = job.read[i]
      BY <2>1 DEF IInv, Stored
    <2>3. q \in Payloads[i]
      BY <2>1, <2>2 DEF IInv, Types, HeldBy
    <2> QED
      BY <2>1, <2>2, <2>3, KeyIsAKey
  <1>2. page \in [Items -> Held] /\ page[i] = Gone
        /\ \A j \in Items : j # i => page[j] = job.page[j]
    <2>1. Gone \in Held
      BY DEF Held, HeldBy
    <2>2. job.page \in [Items -> Held]
      BY DEF IInv, Types, JobRec
    <2> QED
      BY <2>1, <2>2
  <1> HIDE DEF page
  <1>3. c \in JobRec /\ c.page = page /\ c.read = job.read
    BY <1>2 DEF IInv, Types, JobRec
  <1> HIDE DEF c
  <1>4. job' = c
    BY DEF RowIsStored, c, page
  <1>5. link' = [link EXCEPT ![i] = k] /\ link'[i] = k
        /\ \A j \in Items : j # i => link'[j] = link[j]
    BY DEF IInv, Types, RowIsStored
  <1>6. table' = [table EXCEPT ![k] = [by |-> i, holds |-> q]]
    BY DEF RowIsStored, Upsert
  <1>7. /\ table'[k].by = i /\ table'[k].holds = q
        /\ \A l \in Keys : l # k => table'[l] = table[l]
        /\ table' = [l \in Keys |-> table'[l]]
    BY <1>1, <1>6 DEF IInv, Types
  <1>8. Types'
    <2>1. link' = [j \in Items |-> link'[j]]
      BY <1>5 DEF IInv, Types
    <2> QED
      BY <1>3, <1>4, <1>7, <2>1 DEF IInv, Types, RowIsStored
  <1>9. ASSUME NEW j \in Items
        PROVE  /\ job'.page[j] \in {Gone, job'.read[j]}
               /\ job'.page[j] = Gone /\ job'.read[j] # Gone =>
                    /\ InPlace(j, job.read)'
                    /\ table'[Key(j, job'.read[j])].by \in Items
    <2>1. job'.page[j] \in {Gone, job'.read[j]}
      BY <1>1, <1>2, <1>3, <1>4 DEF IInv, Stored
    <2>0. job'.page = page /\ job'.read = job.read
      BY <1>3, <1>4
    <2> SUFFICES ASSUME page[j] = Gone, job.read[j] # Gone
                 PROVE  /\ InPlace(j, job.read)'
                        /\ table'[Key(j, job.read[j])].by \in Items
      BY <2>0, <2>1
    <2> DEFINE l == Key(j, job.read[j])
    <2>2. l \in Keys
      <3>1. job.read[j] \in Payloads[j]
        BY DEF IInv, Types, HeldBy
      <3> QED
        BY <3>1, KeyIsAKey
    <2>3. link'[j] = l
      <3>1. CASE j = i
        BY <3>1, <1>1, <1>5
      <3>2. CASE j # i
        BY <3>2, <1>1, <1>2, <1>3, <1>5 DEF IInv, Stored, InPlace
      <3> QED
        BY <3>1, <3>2
    <2>4. CASE l = k
      <3>1. table'[l].by \in Items /\ table'[l].holds = job.read[i]
            /\ job.read[i] # Gone /\ Key(i, job.read[i]) = l
        BY <2>4, <1>1, <1>7
      <3> QED
        BY <3>1, <2>0, <2>3 DEF InPlace, Key
    <2>5. CASE l # k
      <3>1. j # i
        BY <2>5, <1>1
      <3>2. InPlace(j, job.read) /\ table[l].by \in Items
        BY <3>1, <1>1, <1>2, <1>3 DEF IInv, Stored
      <3>3. table'[l] = table[l]
        BY <2>2, <2>5, <1>7
      <3> QED
        BY <3>2, <3>3, <2>0, <2>3 DEF InPlace, Key
    <2> QED
      BY <2>4, <2>5
  <1>10. Stored'
    BY <1>9 DEF Stored
  <1> QED
    BY <1>8, <1>10 DEF IInv

\* The assistant inserts only where there is no row.
LEMMA ToolKeepsIInv ==
    ASSUME NEW k \in Proposals, IInv, ToolInserts(k)
    PROVE  IInv'
  <1>1. "nobody" \notin Items
    BY ProcoreJobAssumption
  <1>2. /\ table' = [l \in Keys |-> table'[l]]
        /\ \A l \in Keys : table[l].by \in Items => table'[l] = table[l]
    <2>1. k \in Keys
      BY DEF Keys
    <2>2. CASE table[k] = NoRow
      <3>1. table[k].by = "nobody"
        BY <2>2 DEF NoRow
      <3>2. table' = [table EXCEPT ![k] = [by |-> "tool", holds |-> Gone]]
        BY <2>2 DEF ToolInserts
      <3> QED
        BY <3>1, <3>2, <1>1 DEF IInv, Types
    <2>3. CASE table[k] # NoRow
      BY <2>3 DEF ToolInserts, IInv, Types
    <2> QED
      BY <2>2, <2>3
  <1>3. UNCHANGED <<src, link, job>>
    BY DEF ToolInserts
  <1>4. Types'
    BY <1>2, <1>3 DEF IInv, Types
  <1>5. ASSUME NEW j \in Items, job.pc = "rows", job.page[j] = Gone, job.read[j] # Gone
        PROVE  InPlace(j, job.read)' /\ table'[Key(j, job.read[j])].by \in Items
    <2>1. InPlace(j, job.read) /\ table[Key(j, job.read[j])].by \in Items
      BY <1>5 DEF IInv, Stored
    <2>2. Key(j, job.read[j]) \in Keys
      BY <1>5, KeyIsAKey DEF IInv, Types, HeldBy
    <2>3. table'[Key(j, job.read[j])] = table[Key(j, job.read[j])]
      BY <2>1, <2>2, <1>2
    <2> QED
      BY <2>1, <2>3, <1>3 DEF InPlace, Key
  <1>6. Stored'
    BY <1>3, <1>5 DEF IInv, Stored
  <1> QED
    BY <1>4, <1>6 DEF IInv

\* Starting the job keeps the invariant.
LEMMA BeginKeepsIInv ==
    ASSUME NEW list \in Sessions, IInv, Begin(list)
    PROVE  IInv'
  <1> DEFINE b == [Idle EXCEPT !.pc = "start"]
             c == [b EXCEPT !.list = list]
  <1>1. Nothing \in [Items -> Held] /\ \A i \in Items : Nothing[i] \in HeldBy(i)
    BY DEF Nothing, Held, HeldBy
  <1>2. b \in JobRec /\ b.pc = "start" /\ b.read = Nothing
    BY <1>1 DEF Idle, JobRec, Lists
  <1> HIDE DEF b
  <1>3. c \in JobRec /\ c.pc = "start" /\ c.read = Nothing
    BY <1>2 DEF JobRec, Lists
  <1> USE DEF b
  <1>4. job' = c
    BY DEF Begin
  <1> HIDE DEF b, c
  <1> QED
    BY <1>3, <1>4, OutOfRows DEF IInv, Begin, Types

\* Every step keeps the invariant.
LEMMA StepIInv == IInv /\ [Next]_vars => IInv'
  <1> SUFFICES ASSUME IInv, [Next]_vars
               PROVE  IInv'
    OBVIOUS
  <1> USE DEF IInv
  <1>1. ASSUME NEW i \in Items, NEW q \in Payloads[i], SourceChanges(i, q)
        PROVE  IInv'
    <2>1. q \in Held /\ q \in HeldBy(i)
      BY DEF Held, HeldBy
    <2>2. src' = [src EXCEPT ![i] = q] /\ UNCHANGED <<table, link, job>>
      BY <1>1 DEF SourceChanges
    <2>3. src' \in [Items -> Held] /\ \A j \in Items : src'[j] \in HeldBy(j)
      BY <2>1, <2>2 DEF Types
    <2> QED
      BY <2>2, <2>3 DEF Types, Stored, InPlace, Key
  <1>2. ASSUME NEW k \in Proposals, ToolProposes(k)
        PROVE  IInv'
    BY <1>2 DEF ToolProposes, Types, Stored, InPlace, Key
  <1>3. ASSUME NEW k \in Proposals, ToolInserts(k)
        PROVE  IInv'
    BY <1>3, ToolKeepsIInv
  <1>4. ASSUME NEW list \in Sessions, Begin(list)
        PROVE  IInv'
    BY <1>4, BeginKeepsIInv
  <1>5. CASE StartRun
    <2>1. CASE job.aborted
      <3>1. job' = Failed
        BY <1>5, <2>1 DEF StartRun
      <3> QED
        BY <1>5, <3>1, NextResourceTypes, OutOfRows DEF StartRun, Types
    <2>2. CASE ~job.aborted
      <3> DEFINE c == [job EXCEPT !.pc = "fetch"]
      <3>1. c \in JobRec /\ c.pc = "fetch" /\ c.read = job.read
        BY DEF Types, JobRec
      <3>2. job' = c
        BY <1>5, <2>2 DEF StartRun
      <3> HIDE DEF c
      <3> QED
        BY <1>5, <3>1, <3>2, OutOfRows DEF StartRun, Types
    <2> QED
      BY <2>1, <2>2
  <1>6. CASE Fetch
    BY <1>6, FetchKeepsIInv
  <1>7. ASSUME NEW i \in Items, RowIsStored(i)
        PROVE  IInv'
    BY <1>7, RowKeepsIInv
  <1>8. ASSUME NEW i \in Items, MapperRefuses(i)
        PROVE  IInv'
    BY <1>8, NextResourceTypes, OutOfRows DEF MapperRefuses, Types
  <1>9. ASSUME NEW i \in Items, TableRefuses(i)
        PROVE  IInv'
    BY <1>9, NextResourceTypes, OutOfRows DEF TableRefuses, Types
  <1>10. CASE FinishRun
    BY <1>10, NextResourceTypes, OutOfRows DEF FinishRun, Types
  <1>11. CASE FetchRaises
    BY <1>11, NextResourceTypes, OutOfRows DEF FetchRaises, Types
  <1>12. CASE End \/ Crash
    <2> DEFINE c == [job EXCEPT !.pc = "idle"]
    <2>1. c \in JobRec /\ c.pc = "idle" /\ c.read = job.read
      BY DEF Types, JobRec
    <2>2. job' = c /\ UNCHANGED <<src, table, link>>
      BY <1>12 DEF End, Crash
    <2> HIDE DEF c
    <2> QED
      BY <2>1, <2>2, OutOfRows DEF Types
  <1>13. CASE UNCHANGED vars
    BY <1>13 DEF vars, Types, Stored, InPlace, Key
  <1> QED
    BY <1>1, <1>2, <1>3, <1>4, <1>5, <1>6, <1>7, <1>8, <1>9, <1>10, <1>11, <1>12, <1>13
    DEF Next, Work, Row

\* The inductive invariant holds in every state.
LEMMA InvariantHolds == Spec => []IInv
  BY InitIInv, StepIInv, PTL DEF Spec

-----------------------------------------------------------------------------
(* The properties *)

\* Whatever the rows, resources and sessions are: a sync_runs row that says
\* succeeded has every row its run read in place (orchestrator.py,
\* sync_resource), beside any refusals, failures, crashes and insertions.
THEOREM SucceededIsTrue == Spec => SucceededMeansStored
  <1>1. ASSUME IInv, Next, run # run', job.at \in DOMAIN run',
               run'[job.at] = "succeeded", NEW i \in Items, job.read[i] # Gone
        PROVE  InPlace(i, job.read)
    <2>1. CASE FinishRun
      <3>1. job.pc = "rows" /\ job.page[i] = Gone
        BY <2>1 DEF FinishRun, InPage
      <3> QED
        BY <1>1, <3>1 DEF IInv, Stored
    <2>2. CASE StartRun \/ FetchRaises \/ \E j \in Items : MapperRefuses(j)
      BY <1>1, <2>2 DEF StartRun, FetchRaises, MapperRefuses
    <2>3. CASE \E list \in Sessions : Begin(list)
      BY <1>1, <2>3 DEF Begin
    <2>4. ASSUME ~FinishRun, ~(StartRun \/ FetchRaises \/ \E j \in Items : MapperRefuses(j)),
                 ~\E list \in Sessions : Begin(list)
          PROVE  run' = run
      BY <1>1, <2>4
      DEF Next, Work, Row, SourceChanges, ToolProposes, ToolInserts, Fetch,
          RowIsStored, TableRefuses, End, Crash
    <2> QED
      BY <1>1, <2>1, <2>2, <2>3, <2>4
  <1>2. IInv /\ [Next]_vars =>
            [run # run' /\ job.at \in DOMAIN run' /\ run'[job.at] = "succeeded" =>
                \A i \in Items : job.read[i] # Gone => InPlace(i, job.read)]_vars
    BY <1>1 DEF vars
  <1> QED
    BY <1>2, InvariantHolds, PTL DEF Spec, SucceededMeansStored

\* A change event Procore wrote stays Procore's, however late an approval of
\* the assistant's create_change_event comes (tools/create_change_event.py).
THEOREM SyncIsNeverUndone == Spec => ProcoreWins
  <1>1. ASSUME IInv, Next, NEW k \in Keys, table[k].by \in Items
        PROVE  table'[k].by \in Items
    <2>1. CASE \E i \in Items : RowIsStored(i)
      <3>1. PICK i \in Items : RowIsStored(i)
        BY <2>1
      <3>2. PICK l : table' = [table EXCEPT ![l] =
                                 [by |-> i, holds |-> job.page[i]]]
        BY <3>1 DEF RowIsStored, Upsert
      <3> QED
        BY <1>1, <3>2 DEF IInv, Types
    <2>2. CASE \E l \in Proposals : ToolInserts(l)
      <3>1. PICK l \in Proposals : ToolInserts(l)
        BY <2>2
      <3>2. "nobody" \notin Items
        BY ProcoreJobAssumption
      <3>3. table[k] # NoRow
        BY <1>1, <3>2 DEF NoRow
      <3> QED
        BY <1>1, <3>1, <3>3 DEF ToolInserts, IInv, Types
    <2>3. CASE UNCHANGED table
      BY <1>1, <2>3
    <2> QED
      BY <1>1, <2>1, <2>2, <2>3
      DEF Next, Work, Row, SourceChanges, ToolProposes, Begin, StartRun, Fetch,
          MapperRefuses, TableRefuses, FinishRun, End, FetchRaises, Crash
  <1>2. IInv /\ [Next]_vars =>
            [\A k \in Keys : table[k].by \in Items => table'[k].by \in Items]_vars
    BY <1>1
  <1> QED
    BY <1>2, InvariantHolds, PTL DEF Spec, ProcoreWins

=============================================================================
