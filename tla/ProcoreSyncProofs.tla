------------------------ MODULE ProcoreSyncProofs ------------------------
(***************************************************************************)
(* TLAPS proofs about ProcoreSync, for any source rows, scopes, page size, *)
(* callers and bounds.                                                     *)
(***************************************************************************)
EXTENDS ProcoreSync, FiniteSetTheorems, TLAPS

-----------------------------------------------------------------------------
(* Marks and pages *)

\* A finite set of integers that is not empty has a largest element: its sets
\* of larger elements have a smallest one under inclusion.
LEMMA Largest ==
  ASSUME NEW T \in SUBSET Int, T # {}, IsFiniteSet(T)
  PROVE  \E m \in T : \A n \in T : n <= m
  <1> DEFINE Above(m) == {x \in T : x > m}
             Uppers == {Above(m) : m \in T}
  <1>1. Uppers \subseteq FiniteSubsetsOf(T) /\ Uppers # {}
    <2>1. FiniteSubsetsOf(T) = SUBSET T
      BY FS_FiniteSubsetsOfFinite
    <2>2. \A U \in Uppers : U \in SUBSET T
      OBVIOUS
    <2>3. PICK m \in T : TRUE
      OBVIOUS
    <2>4. Above(m) \in Uppers
      OBVIOUS
    <2> HIDE DEF Uppers
    <2>5. QED
      BY <2>1, <2>2, <2>4
  <1>2. PICK U \in Uppers :
             \A V \in Uppers : <<V, U>> \notin StrictSubsetOrdering(T)
    <2>1. IsWellFoundedOn(StrictSubsetOrdering(T), FiniteSubsetsOf(T))
      BY FS_StrictSubsetOrderingWellFounded
    <2> HIDE DEF Uppers
    <2>2. QED
      BY <1>1, <2>1, WFMin
  <1>3. PICK m \in T : U = Above(m)
    BY <1>2
  <1>4. ASSUME NEW n \in T, n > m
        PROVE  FALSE
    <2>1. n \in Int /\ m \in Int /\ \A x \in T : x \in Int
      OBVIOUS
    <2>2. (\A x \in T : x > n => x > m) /\ ~(n > n)
      BY <2>1, <1>4
    <2>3. /\ Above(n) \subseteq Above(m) /\ n \in Above(m) /\ n \notin Above(n)
          /\ Above(n) \in SUBSET T /\ Above(m) \in SUBSET T
          /\ Above(n) \in Uppers
      BY <2>2, <1>4
    <2> HIDE DEF Above, Uppers
    <2>4. <<Above(n), Above(m)>> \in StrictSubsetOrdering(T)
      BY <2>3 DEF StrictSubsetOrdering
    <2>5. QED
      BY <2>3, <2>4, <1>2, <1>3
  <1>5. \A n \in T : n \in Int /\ m \in Int
    OBVIOUS
  <1>6. QED
    BY <1>4, <1>5

\* A mark is a natural number and never falls when a row changes.
LEMMA MarkType ==
  ASSUME NEW i \in Items, NEW v \in Nat, NEW w \in Nat, v <= w
  PROVE  /\ Mark(i, v) \in Nat /\ Mark(i, w) \in Nat
         /\ Mark(i, v) <= Mark(i, w)
         /\ v # 0 => Mark(i, v) > 0
  BY ProcoreSyncAssumption DEF Mark

\* LastMark is the mark of a row of the page, and of the last one.
LEMMA LastMarkIsLast ==
  ASSUME NEW page \in [Items -> Time], InPage(page) # {}
  PROVE  /\ \E i \in InPage(page) : LastMark(page) = Mark(i, page[i])
         /\ \A i \in InPage(page) : Mark(i, page[i]) <= LastMark(page)
         /\ LastMark(page) \in Nat
  <1> DEFINE f == [i \in InPage(page) |-> Mark(i, page[i])]
             M == {Mark(i, page[i]) : i \in InPage(page)}
  <1>1. InPage(page) \in SUBSET Items
    BY DEF InPage
  <1>2. IsFiniteSet(InPage(page))
    BY <1>1, ProcoreSyncAssumption, FS_Subset
  <1>3. \A i \in InPage(page) : Mark(i, page[i]) \in Nat
    BY <1>1, ProcoreSyncAssumption, MarkType DEF Time
  <1>4. f \in Surjection(InPage(page), M)
    BY DEF Surjection
  <1>5. IsFiniteSet(M)
    BY <1>2, <1>4, FS_Surjection
  <1>6. M \in SUBSET Int /\ M # {}
    BY <1>3
  <1>7. \E m \in M : \A n \in M : n <= m
    <2> HIDE DEF M
    <2>1. QED
      BY <1>5, <1>6, Largest
  <1>8. \E m \in M : \A i \in InPage(page) : Mark(i, page[i]) <= m
    BY <1>7
  <1>9. LastMark(page) \in M
        /\ \A i \in InPage(page) : Mark(i, page[i]) <= LastMark(page)
    BY <1>8 DEF LastMark
  <1>10. QED
    BY <1>9, <1>3

\* What Earliest makes of the smallest mark so far and a page.
LEMMA EarliestOfPage ==
  ASSUME NEW page \in [Items -> Time], InPage(page) # {}, NEW next \in Nat
  PROVE  /\ Earliest(next, page) \in Nat
         /\ CursorCol = "none" => Earliest(next, page) = 0
         /\ CursorCol # "none" =>
              /\ Earliest(next, page) \in {next, LastMark(page)}
              /\ Earliest(next, page) <= LastMark(page)
              /\ next # 0 => Earliest(next, page) <= next
              /\ Earliest(next, page) # 0
  <1>1. LastMark(page) \in Nat /\ LastMark(page) > 0
    <2>1. PICK i \in InPage(page) : LastMark(page) = Mark(i, page[i])
      BY LastMarkIsLast
    <2>2. i \in Items /\ page[i] # 0 /\ page[i] \in Nat
      BY ProcoreSyncAssumption DEF InPage, Time
    <2>3. QED
      BY <2>1, <2>2, MarkType
  <1>2. QED
    BY <1>1 DEF Earliest

-----------------------------------------------------------------------------
(* What one step does to a sync: its fields, with the other syncs' left    *)
(* alone.                                                                  *)

\* The record of sync s becomes new, and the others stay.
Becomes(s, new) ==
  /\ sync' = [sync EXCEPT ![s] = new]
  /\ sync'[s] = new
  /\ \A t \in Syncs : t # s => sync'[t] = sync[t]

\* A run starts from the cursor with every linked scope to do.
LEMMA BeginEffect ==
  ASSUME TypeOK, NEW s \in Syncs, Begin(s)
  PROVE  /\ sync[s].pc = "idle"
         /\ Becomes(s, [pc |-> "fetch", run |-> "running", from |-> cursor,
                        todo |-> linked, page |-> NoPage, written |-> {},
                        next |-> 0])
  BY DEF Begin, TypeOK, Becomes

\* The page S of a scope is what a Fetch takes.
Takes(s, scope, S) ==
  /\ sync[s].pc = "fetch"
  /\ FirstPage(PastCursor(scope, sync[s].from), S)
  /\ sync' = [sync EXCEPT
        ![s].todo = @ \ {scope},
        ![s].pc = IF S = {} THEN "fetch" ELSE "stage",
        ![s].page = [i \in Items |-> IF i \in S THEN src[i] ELSE 0]]
  /\ seen' = [i \in Items |-> IF i \in S THEN src[i] ELSE seen[i]]

\* A fetch takes some rows of a scope that is still to do.
LEMMA FetchTakes ==
  ASSUME TypeOK, NEW s \in Syncs, Fetch(s)
  PROVE  \E scope \in Scopes, S \in SUBSET Items :
            scope \in sync[s].todo /\ Takes(s, scope, S)
  <1>1. PICK scope \in sync[s].todo :
          \E S \in SUBSET PastCursor(scope, sync[s].from) : Takes(s, scope, S)
    BY DEF Fetch, Takes
  <1>2. PICK S \in SUBSET PastCursor(scope, sync[s].from) : Takes(s, scope, S)
    BY <1>1
  <1>3. scope \in Scopes
    BY DEF TypeOK, Run
  <1>4. S \in SUBSET Items
    BY DEF PastCursor
  <1>5. QED
    BY <1>2, <1>3, <1>4

\* What a fetch leaves in the run: the page's stamps, and one scope fewer.
LEMMA FetchEffect ==
  ASSUME TypeOK, NEW s \in Syncs, NEW scope \in Scopes, NEW S \in SUBSET Items,
         Takes(s, scope, S)
  PROVE  /\ Becomes(s, [sync[s] EXCEPT !.todo = @ \ {scope},
                !.pc = IF S = {} THEN "fetch" ELSE "stage",
                !.page = [i \in Items |-> IF i \in S THEN src[i] ELSE 0]])
         /\ sync'[s].page \in [Items -> Time]
         /\ S = {} => sync'[s].pc = "fetch"
         /\ S # {} => sync'[s].pc = "stage"
         /\ InPage(sync'[s].page) \subseteq S
  <1> DEFINE page == [i \in Items |-> IF i \in S THEN src[i] ELSE 0]
  <1>1. page \in [Items -> Time]
    BY ProcoreSyncAssumption DEF TypeOK, Time
  <1>2. InPage(page) \subseteq S
    BY DEF InPage
  <1>3. sync' = [sync EXCEPT ![s].todo = @ \ {scope},
                ![s].pc = IF S = {} THEN "fetch" ELSE "stage",
                ![s].page = page]
    BY DEF Takes
  <1> HIDE DEF page
  <1>4. /\ Becomes(s, [sync[s] EXCEPT !.todo = @ \ {scope},
                !.pc = IF S = {} THEN "fetch" ELSE "stage", !.page = page])
        /\ sync'[s].page = page
        /\ sync'[s].pc = IF S = {} THEN "fetch" ELSE "stage"
    BY <1>3 DEF TypeOK, Run, Becomes
  <1>5. QED
    BY <1>1, <1>2, <1>4 DEF page

\* Staging remembers the lowest of the pages' last stamps.
LEMMA StageEffect ==
  ASSUME TypeOK, NEW s \in Syncs, Stage(s)
  PROVE  /\ sync[s].pc = "stage"
         /\ Becomes(s, [sync[s] EXCEPT !.pc = "write",
                           !.next = Earliest(sync[s].next, sync[s].page)])
  BY DEF Stage, TypeOK, Becomes

\* A write stores one row of the page with the stamp it was fetched with.
LEMMA WriteEffect ==
  ASSUME TypeOK, NEW s \in Syncs, Write(s)
  PROVE  \E i \in Items :
           /\ sync[s].pc = "write"
           /\ i \in InPage(sync[s].page)
           /\ canon' = [canon EXCEPT ![i] = sync[s].page[i]]
           /\ Becomes(s, [sync[s] EXCEPT !.pc = "link", !.written = {i}])
  BY DEF Write, Oldest, TypeOK, Becomes

\* Linking ends a row: it leaves the page.
LEMMA LinkEffect ==
  ASSUME TypeOK, NEW s \in Syncs, Link(s)
  PROVE  \E i \in sync[s].written :
           /\ sync[s].pc = "link"
           /\ links' = links \cup {i}
           /\ Becomes(s, [sync[s] EXCEPT !.page = [@ EXCEPT ![i] = 0],
                  !.written = {},
                  !.pc = IF InPage(sync[s].page) = {i} THEN "fetch" ELSE "write"])
  BY DEF Link, TypeOK, Becomes

\* The cursor stays or becomes what the run remembered.
LEMMA AdvanceEffect ==
  ASSUME TypeOK, NEW s \in Syncs, Advance(s)
  PROVE  /\ sync[s].pc = "fetch" /\ sync[s].todo = {}
         /\ Becomes(s, [sync[s] EXCEPT !.pc = "finish"])
         /\ cursor' = cursor \/ (sync[s].next # 0 /\ cursor' = sync[s].next)
  BY DEF Advance, Goto, TypeOK, Becomes

\* A run that ends, or dies, changes only its pc and what sync_runs says of it.
LEMMA EndEffect ==
  ASSUME TypeOK, NEW s \in Syncs, Finish(s) \/ Stops(s)
  PROVE  \E run \in {"succeeded", "failed", "running"} :
           Becomes(s, [sync[s] EXCEPT !.pc = "idle", !.run = run])
  BY DEF Finish, Stops, TypeOK, Becomes

\* The updates of the actions leave a record in its type.
LEMMA RunUpdates ==
  ASSUME NEW r \in Run, NEW pc \in PCs
  PROVE  /\ [r EXCEPT !.pc = pc] \in Run
         /\ \A run \in {"succeeded", "failed", "running"} :
               [r EXCEPT !.pc = pc, !.run = run] \in Run
         /\ \A next \in Nat : [r EXCEPT !.pc = pc, !.next = next] \in Run
         /\ \A written \in SUBSET Items :
               [r EXCEPT !.pc = pc, !.written = written] \in Run
         /\ \A written \in SUBSET Items, page \in [Items -> Time] :
               [r EXCEPT !.page = page, !.written = written, !.pc = pc] \in Run
         /\ \A todo \in SUBSET Scopes, page \in [Items -> Time] :
               [r EXCEPT !.todo = todo, !.pc = pc, !.page = page] \in Run
  <1>1. [r EXCEPT !.pc = pc] \in Run
    BY DEF Run
  <1>2. ASSUME NEW run \in {"succeeded", "failed", "running"}
        PROVE  [r EXCEPT !.pc = pc, !.run = run] \in Run
    BY DEF Run
  <1>3. ASSUME NEW next \in Nat
        PROVE  [r EXCEPT !.pc = pc, !.next = next] \in Run
    BY DEF Run
  <1>4. ASSUME NEW written \in SUBSET Items
        PROVE  [r EXCEPT !.pc = pc, !.written = written] \in Run
    BY DEF Run
  <1>5. ASSUME NEW written \in SUBSET Items, NEW page \in [Items -> Time]
        PROVE  [r EXCEPT !.page = page, !.written = written, !.pc = pc] \in Run
    BY DEF Run
  <1>6. ASSUME NEW todo \in SUBSET Scopes, NEW page \in [Items -> Time]
        PROVE  [r EXCEPT !.todo = todo, !.pc = pc, !.page = page] \in Run
    BY DEF Run
  <1>7. QED
    BY <1>1, <1>2, <1>3, <1>4, <1>5, <1>6

\* The syncs keep their type when one of them becomes a record of theirs.
LEMMA BecomesType ==
  ASSUME TypeOK, NEW s \in Syncs, NEW new \in Run, Becomes(s, new)
  PROVE  sync' \in [Syncs -> Run]
  BY DEF Becomes, TypeOK

\* Every variable keeps its type.
LEMMA TypeStep == TypeOK /\ Provenance /\ [Next]_vars => TypeOK'
  <1> SUFFICES ASSUME TypeOK, Provenance, [Next]_vars PROVE TypeOK'
    OBVIOUS
  <1> USE ProcoreSyncAssumption
  <1>0. \A s \in Syncs : sync[s] \in Run
    BY DEF TypeOK
  <1>1. ASSUME NEW S \in Batches, SourceChanges(S) PROVE TypeOK'
    BY <1>1 DEF SourceChanges, TypeOK, Time
  <1>2. ASSUME NEW scope \in Scopes, LinkScope(scope) PROVE TypeOK'
    BY <1>2 DEF LinkScope, TypeOK
  <1>3. ASSUME NEW s \in Syncs, Begin(s) PROVE TypeOK'
    <2>1. sync' \in [Syncs -> Run]
      <3>1. [pc |-> "fetch", run |-> "running", from |-> cursor,
             todo |-> linked, page |-> NoPage, written |-> {}, next |-> 0] \in Run
        BY DEF Run, PCs, NoPage, Time, TypeOK
      <3>2. QED
        BY <1>3, <3>1, BeginEffect, BecomesType
    <2>2. QED
      BY <1>3, <2>1 DEF Begin, TypeOK
  <1>4. ASSUME NEW s \in Syncs, Fetch(s) PROVE TypeOK'
    <2>1. PICK scope \in Scopes, S \in SUBSET Items : Takes(s, scope, S)
      BY <1>4, FetchTakes
    <2>2. seen' \in [Items -> Time]
      BY <2>1 DEF TypeOK, Takes
    <2> DEFINE page == [i \in Items |-> IF i \in S THEN src[i] ELSE 0]
               new == [sync[s] EXCEPT !.todo = @ \ {scope},
                         !.pc = IF S = {} THEN "fetch" ELSE "stage",
                         !.page = page]
    <2>3. page \in [Items -> Time]
      BY DEF TypeOK, Time
    <2>4. Becomes(s, new)
      BY <2>1, FetchEffect
    <2>5. new \in Run
      <3>1. /\ sync[s].todo \ {scope} \in SUBSET Scopes
            /\ "fetch" \in PCs /\ "stage" \in PCs
            /\ (IF S = {} THEN "fetch" ELSE "stage") \in PCs
        BY <1>0 DEF Run, PCs
      <3> HIDE DEF page
      <3>2. QED
        BY <1>0, <2>3, <3>1, RunUpdates
    <2> HIDE DEF new
    <2>6. sync' \in [Syncs -> Run]
      BY <2>4, <2>5, BecomesType
    <2>7. QED
      BY <1>4, <2>2, <2>6 DEF Fetch, TypeOK
  <1>5. ASSUME NEW s \in Syncs, Stage(s) PROVE TypeOK'
    <2>1. staged' \in [Items -> Time]
      <3>1. sync[s].page \in [Items -> Time]
        BY <1>0 DEF Run
      <3>2. QED
        BY <1>5, <3>1 DEF Stage, TypeOK
    <2> DEFINE next == Earliest(sync[s].next, sync[s].page)
               new == [sync[s] EXCEPT !.pc = "write", !.next = next]
    <2>2. next \in Nat
      <3>1. sync[s].next \in Nat /\ sync[s].page \in [Items -> Time]
        BY <1>0 DEF Run
      <3>2. InPage(sync[s].page) # {}
        BY <1>5 DEF Stage, Provenance, RunProvenance, InPage
      <3>3. QED
        BY <3>1, <3>2, EarliestOfPage
    <2>3. Becomes(s, new)
      BY <1>5, StageEffect
    <2>4. new \in Run
      <3>1. "write" \in PCs
        BY DEF PCs
      <3> HIDE DEF next
      <3>2. QED
        BY <1>0, <2>2, <3>1, RunUpdates
    <2> HIDE DEF new
    <2>5. sync' \in [Syncs -> Run]
      BY <2>3, <2>4, BecomesType
    <2>6. QED
      BY <1>5, <2>1, <2>5 DEF Stage, TypeOK
  <1>6. ASSUME NEW s \in Syncs, Write(s) PROVE TypeOK'
    <2>1. PICK i \in Items :
             /\ canon' = [canon EXCEPT ![i] = sync[s].page[i]]
             /\ Becomes(s, [sync[s] EXCEPT !.pc = "link", !.written = {i}])
      BY <1>6, WriteEffect
    <2>2. [sync[s] EXCEPT !.pc = "link", !.written = {i}] \in Run
      <3>1. "link" \in PCs /\ {i} \in SUBSET Items
        BY DEF PCs
      <3>2. QED
        BY <1>0, <3>1, RunUpdates
    <2>3. sync' \in [Syncs -> Run]
      BY <2>1, <2>2, BecomesType
    <2>4. canon' \in [Items -> Time]
      <3>1. sync[s].page \in [Items -> Time]
        BY <1>0 DEF Run
      <3>2. QED
        BY <2>1, <3>1 DEF TypeOK
    <2>5. QED
      BY <1>6, <2>3, <2>4 DEF Write, TypeOK
  <1>7. ASSUME NEW s \in Syncs, Link(s) PROVE TypeOK'
    <2>1. PICK i \in sync[s].written :
             /\ links' = links \cup {i}
             /\ Becomes(s, [sync[s] EXCEPT !.page = [@ EXCEPT ![i] = 0],
                  !.written = {},
                  !.pc = IF InPage(sync[s].page) = {i} THEN "fetch" ELSE "write"])
      BY <1>7, LinkEffect
    <2> DEFINE page == [sync[s].page EXCEPT ![i] = 0]
    <2>2. page \in [Items -> Time] /\ i \in Items
      BY <1>0 DEF Run, Time
    <2> HIDE DEF page
    <2>3. [sync[s] EXCEPT !.page = page, !.written = {},
             !.pc = IF InPage(sync[s].page) = {i} THEN "fetch" ELSE "write"] \in Run
      <3>1. /\ {} \in SUBSET Items
            /\ (IF InPage(sync[s].page) = {i} THEN "fetch" ELSE "write") \in PCs
        BY DEF PCs
      <3>2. QED
        BY <1>0, <2>2, <3>1, RunUpdates
    <2>4. sync' \in [Syncs -> Run]
      BY <2>1, <2>3, BecomesType DEF page
    <2>5. QED
      BY <1>7, <2>1, <2>2, <2>4 DEF Link, TypeOK
  <1>8. ASSUME NEW s \in Syncs, Advance(s) PROVE TypeOK'
    <2>1. [sync[s] EXCEPT !.pc = "finish"] \in Run /\ sync[s].next \in Nat
      BY <1>0 DEF Run, PCs
    <2>2. sync' \in [Syncs -> Run]
      BY <1>8, <2>1, AdvanceEffect, BecomesType
    <2>3. cursor' \in Nat
      BY <1>8, <2>1, AdvanceEffect DEF TypeOK
    <2>4. QED
      BY <1>8, <2>2, <2>3 DEF Advance, TypeOK
  <1>9. ASSUME NEW s \in Syncs, Finish(s) \/ Stops(s) PROVE TypeOK'
    <2>1. PICK run \in {"succeeded", "failed", "running"} :
             Becomes(s, [sync[s] EXCEPT !.pc = "idle", !.run = run])
      BY <1>9, EndEffect
    <2>2. [sync[s] EXCEPT !.pc = "idle", !.run = run] \in Run
      <3>1. "idle" \in PCs
        BY DEF PCs
      <3>2. QED
        BY <1>0, <3>1, RunUpdates
    <2>3. sync' \in [Syncs -> Run]
      BY <2>1, <2>2, BecomesType
    <2>4. QED
      BY <1>9, <2>3 DEF Finish, Stops, TypeOK
  <1>10. CASE UNCHANGED vars
    BY <1>10 DEF vars, TypeOK
  <1>11. QED
    BY <1>1, <1>2, <1>3, <1>4, <1>5, <1>6, <1>7, <1>8, <1>9, <1>10
    DEF Next, Continue

-----------------------------------------------------------------------------
(* The same, field by field. *)

\* The fields of a sync's record that the invariant reads.
Has(r, pc, from, todo, page, next, written) ==
  /\ r.pc = pc /\ r.from = from /\ r.todo = todo
  /\ r.page = page /\ r.next = next /\ r.written = written

\* A record keeps the fields an update leaves alone.
LEMMA UpdatedFields ==
  ASSUME NEW r \in Run, NEW pc, NEW todo, NEW page, NEW next, NEW written, NEW run
  PROVE  /\ Has([r EXCEPT !.pc = pc], pc, r.from, r.todo, r.page, r.next, r.written)
         /\ Has([r EXCEPT !.pc = pc, !.run = run],
                pc, r.from, r.todo, r.page, r.next, r.written)
         /\ Has([r EXCEPT !.pc = pc, !.next = next],
                pc, r.from, r.todo, r.page, next, r.written)
         /\ Has([r EXCEPT !.pc = pc, !.written = written],
                pc, r.from, r.todo, r.page, r.next, written)
         /\ Has([r EXCEPT !.page = page, !.written = written, !.pc = pc],
                pc, r.from, r.todo, page, r.next, written)
         /\ Has([r EXCEPT !.todo = todo, !.pc = pc, !.page = page],
                pc, r.from, todo, page, r.next, r.written)
  <1>1. Has([r EXCEPT !.pc = pc], pc, r.from, r.todo, r.page, r.next, r.written)
    BY DEF Run, Has
  <1>2. Has([r EXCEPT !.pc = pc, !.run = run],
            pc, r.from, r.todo, r.page, r.next, r.written)
    BY DEF Run, Has
  <1>3. Has([r EXCEPT !.pc = pc, !.next = next],
            pc, r.from, r.todo, r.page, next, r.written)
    BY DEF Run, Has
  <1>4. Has([r EXCEPT !.pc = pc, !.written = written],
            pc, r.from, r.todo, r.page, r.next, written)
    BY DEF Run, Has
  <1>5. Has([r EXCEPT !.page = page, !.written = written, !.pc = pc],
            pc, r.from, r.todo, page, r.next, written)
    BY DEF Run, Has
  <1>6. Has([r EXCEPT !.todo = todo, !.pc = pc, !.page = page],
            pc, r.from, todo, page, r.next, r.written)
    BY DEF Run, Has
  <1>7. QED
    BY <1>1, <1>2, <1>3, <1>4, <1>5, <1>6

\* A sync goes on at pc with these fields; the others stay.
Moves(s, pc, todo, page, next) ==
  /\ sync'[s].pc = pc
  /\ sync'[s].from = sync[s].from
  /\ sync'[s].todo = todo
  /\ sync'[s].page = page
  /\ sync'[s].next = next
  /\ \A t \in Syncs : t # s => sync'[t] = sync[t]

\* The same effects field by field: a record that has the fields moves so.
LEMMA BecomesMoves ==
  ASSUME NEW s \in Syncs, NEW new, NEW pc, NEW todo, NEW page, NEW next, NEW written,
         Becomes(s, new), Has(new, pc, sync[s].from, todo, page, next, written)
  PROVE  Moves(s, pc, todo, page, next) /\ sync'[s].written = written
  <1>1. sync'[s] = new /\ \A t \in Syncs : t # s => sync'[t] = sync[t]
    BY DEF Becomes
  <1>2. Has(sync'[s], pc, sync[s].from, todo, page, next, written)
    BY <1>1
  <1>3. QED
    BY <1>1, <1>2, Zenon DEF Has, Moves

\* A fetch, field by field.
LEMMA FetchMoves ==
  ASSUME TypeOK, NEW s \in Syncs, NEW scope \in Scopes, NEW S \in SUBSET Items,
         Takes(s, scope, S)
  PROVE  Moves(s, IF S = {} THEN "fetch" ELSE "stage", sync[s].todo \ {scope},
               [i \in Items |-> IF i \in S THEN src[i] ELSE 0], sync[s].next)
  <1> DEFINE page == [i \in Items |-> IF i \in S THEN src[i] ELSE 0]
             pc == IF S = {} THEN "fetch" ELSE "stage"
             todo == sync[s].todo \ {scope}
  <1>1. Becomes(s, [sync[s] EXCEPT !.todo = todo, !.pc = pc, !.page = page])
    BY FetchEffect
  <1>2. sync[s] \in Run
    BY DEF TypeOK
  <1> HIDE DEF page, pc, todo
  <1> DEFINE new == [sync[s] EXCEPT !.todo = todo, !.pc = pc, !.page = page]
  <1>3. Has(new, pc, sync[s].from, todo, page, sync[s].next, sync[s].written)
    BY <1>2, UpdatedFields
  <1> HIDE DEF new
  <1>4. Moves(s, pc, todo, page, sync[s].next)
    BY <1>1, <1>3, BecomesMoves DEF new
  <1>5. QED
    BY <1>4 DEF page, pc, todo

\* Staging, field by field.
LEMMA StageMoves ==
  ASSUME TypeOK, NEW s \in Syncs, Stage(s)
  PROVE  Moves(s, "write", sync[s].todo, sync[s].page,
               Earliest(sync[s].next, sync[s].page))
  <1> DEFINE next == Earliest(sync[s].next, sync[s].page)
  <1>1. Becomes(s, [sync[s] EXCEPT !.pc = "write", !.next = next])
    BY StageEffect
  <1>2. sync[s] \in Run
    BY DEF TypeOK
  <1> DEFINE new == [sync[s] EXCEPT !.pc = "write", !.next = next]
  <1> HIDE DEF next
  <1>3. Has(new, "write", sync[s].from, sync[s].todo, sync[s].page, next,
            sync[s].written)
    BY <1>2, UpdatedFields
  <1> HIDE DEF new
  <1>4. Moves(s, "write", sync[s].todo, sync[s].page, next)
    BY <1>1, <1>3, BecomesMoves DEF new
  <1>5. QED
    BY <1>4 DEF next

\* A write, field by field.
LEMMA WriteMoves ==
  ASSUME TypeOK, NEW s \in Syncs, Write(s)
  PROVE  \E i \in Items :
           /\ sync[s].pc = "write"
           /\ i \in InPage(sync[s].page)
           /\ canon' = [canon EXCEPT ![i] = sync[s].page[i]]
           /\ sync'[s].written = {i}
           /\ Moves(s, "link", sync[s].todo, sync[s].page, sync[s].next)
  <1>1. PICK i \in Items :
           /\ sync[s].pc = "write"
           /\ i \in InPage(sync[s].page)
           /\ canon' = [canon EXCEPT ![i] = sync[s].page[i]]
           /\ Becomes(s, [sync[s] EXCEPT !.pc = "link", !.written = {i}])
    BY WriteEffect
  <1>2. sync[s] \in Run
    BY DEF TypeOK
  <1> DEFINE new == [sync[s] EXCEPT !.pc = "link", !.written = {i}]
  <1>3. Has(new, "link", sync[s].from, sync[s].todo, sync[s].page,
            sync[s].next, {i})
    BY <1>2, UpdatedFields
  <1> HIDE DEF new
  <1>4. /\ sync'[s].written = {i}
        /\ Moves(s, "link", sync[s].todo, sync[s].page, sync[s].next)
    BY <1>1, <1>3, BecomesMoves DEF new
  <1>5. QED
    BY <1>1, <1>4

\* Linking, field by field.
LEMMA LinkMoves ==
  ASSUME TypeOK, NEW s \in Syncs, Link(s)
  PROVE  \E i \in sync[s].written :
           /\ sync[s].pc = "link"
           /\ links' = links \cup {i}
           /\ Moves(s, IF InPage(sync[s].page) = {i} THEN "fetch" ELSE "write",
                    sync[s].todo, [sync[s].page EXCEPT ![i] = 0], sync[s].next)
  <1>1. PICK i \in sync[s].written :
           /\ sync[s].pc = "link"
           /\ links' = links \cup {i}
           /\ Becomes(s, [sync[s] EXCEPT !.page = [@ EXCEPT ![i] = 0],
                  !.written = {},
                  !.pc = IF InPage(sync[s].page) = {i} THEN "fetch" ELSE "write"])
    BY LinkEffect
  <1>2. sync[s] \in Run
    BY DEF TypeOK
  <1> DEFINE pc == IF InPage(sync[s].page) = {i} THEN "fetch" ELSE "write"
             page == [sync[s].page EXCEPT ![i] = 0]
  <1>3. Becomes(s, [sync[s] EXCEPT !.page = page, !.written = {}, !.pc = pc])
    BY <1>1
  <1> DEFINE new == [sync[s] EXCEPT !.page = page, !.written = {}, !.pc = pc]
  <1> HIDE DEF pc, page
  <1>4. Has(new, pc, sync[s].from, sync[s].todo, page, sync[s].next, {})
    BY <1>2, UpdatedFields
  <1> HIDE DEF new
  <1>5. Moves(s, pc, sync[s].todo, page, sync[s].next)
    BY <1>3, <1>4, BecomesMoves DEF new
  <1>6. QED
    BY <1>1, <1>5 DEF pc, page

\* The advance of the cursor, field by field.
LEMMA AdvanceMoves ==
  ASSUME TypeOK, NEW s \in Syncs, Advance(s)
  PROVE  Moves(s, "finish", sync[s].todo, sync[s].page, sync[s].next)
  <1>1. Becomes(s, [sync[s] EXCEPT !.pc = "finish"]) /\ sync[s] \in Run
    BY AdvanceEffect DEF TypeOK
  <1> DEFINE new == [sync[s] EXCEPT !.pc = "finish"]
  <1>2. Has(new, "finish", sync[s].from, sync[s].todo, sync[s].page,
            sync[s].next, sync[s].written)
    BY <1>1, UpdatedFields
  <1> HIDE DEF new
  <1>3. QED
    BY <1>1, <1>2, BecomesMoves DEF new

\* The end of a run, field by field.
LEMMA EndMoves ==
  ASSUME TypeOK, NEW s \in Syncs, Finish(s) \/ Stops(s)
  PROVE  Moves(s, "idle", sync[s].todo, sync[s].page, sync[s].next)
  <1>1. PICK run \in {"succeeded", "failed", "running"} :
           Becomes(s, [sync[s] EXCEPT !.pc = "idle", !.run = run])
    BY EndEffect
  <1>2. sync[s] \in Run
    BY DEF TypeOK
  <1> DEFINE new == [sync[s] EXCEPT !.pc = "idle", !.run = run]
  <1>3. Has(new, "idle", sync[s].from, sync[s].todo, sync[s].page,
            sync[s].next, sync[s].written)
    BY <1>2, UpdatedFields
  <1> HIDE DEF new
  <1>4. QED
    BY <1>1, <1>3, BecomesMoves DEF new

-----------------------------------------------------------------------------
\* A step of one sync leaves the provenance of the others' pages alone.
LEMMA OthersProvenance ==
  ASSUME TypeOK, Provenance, NEW s \in Syncs, RunProvenance(s)',
         \A t \in Syncs : t # s => sync'[t] = sync[t],
         linked' = linked, seen' \in [Items -> Nat],
         \A i \in Items : seen[i] <= seen'[i]
  PROVE  \A t \in Syncs : RunProvenance(t)'
  <1> SUFFICES ASSUME NEW t \in Syncs, t # s PROVE RunProvenance(t)'
    OBVIOUS
  <1>1. sync'[t] = sync[t] /\ RunProvenance(t)
    BY DEF Provenance
  <1>2. \A i \in Items : sync[t].page[i] \in Nat /\ seen[i] \in Nat /\ seen'[i] \in Nat
    BY ProcoreSyncAssumption DEF TypeOK, Run, Time
  <1>3. \A i \in Items : sync[t].page[i] <= seen[i]
    BY <1>1 DEF RunProvenance
  <1>4. \A i \in Items : sync'[t].page[i] <= seen'[i]
    BY <1>1, <1>2, <1>3
  <1>5. /\ sync'[t].todo \subseteq linked'
        /\ sync'[t].pc = "stage" => \E i \in Items : sync'[t].page[i] # 0
    BY <1>1 DEF RunProvenance
  <1>6. QED
    BY <1>4, <1>5 DEF RunProvenance

\* Versions only travel from the source to the page, to the canonical table.
LEMMA ProvenanceStep ==
  TypeOK /\ Provenance /\ [Next]_vars => Provenance'
  <1> SUFFICES ASSUME TypeOK, Provenance, [Next]_vars PROVE Provenance'
    OBVIOUS
  <1> USE ProcoreSyncAssumption
  <1>0. /\ \A s \in Syncs : sync[s] \in Run /\ RunProvenance(s)
        /\ \A i \in Items : /\ src[i] \in Nat /\ canon[i] \in Nat /\ seen[i] \in Nat
                            /\ \A s \in Syncs : sync[s].page[i] \in Nat
                            /\ RowProvenance(i)
        /\ clock \in Nat /\ seen \in [Items -> Nat]
    BY DEF TypeOK, Run, Time, Provenance
  <1> DEFINE Frame == UNCHANGED <<src, clock, linked, canon, seen>>
             Same(s) == \A t \in Syncs : t # s => sync'[t] = sync[t]
             Rows == \A i \in Items : RowProvenance(i)'
  <1>a. ASSUME Frame PROVE Rows
    BY <1>0, <1>a DEF RowProvenance
  <1>b. ASSUME NEW s \in Syncs, RunProvenance(s)', Same(s), Rows,
               linked' = linked, seen' = seen
        PROVE  Provenance'
    <2>1. \A t \in Syncs : RunProvenance(t)'
      BY <1>0, <1>b, OthersProvenance
    <2>2. QED
      BY <1>b, <2>1 DEF Provenance
  <1>c. ASSUME NEW s \in Syncs, Frame, Same(s), sync'[s].pc # "stage",
               sync'[s].todo = sync[s].todo, sync'[s].page = sync[s].page
        PROVE  Provenance'
    <2>1. RunProvenance(s)'
      BY <1>0, <1>c DEF RunProvenance
    <2>2. QED
      BY <1>a, <1>b, <1>c, <2>1
  <1>1. ASSUME NEW S \in Batches, SourceChanges(S) PROVE Provenance'
    <2>1. Rows
      BY <1>0, <1>1 DEF SourceChanges, RowProvenance
    <2>2. \A t \in Syncs : RunProvenance(t)'
      BY <1>0, <1>1 DEF SourceChanges, RunProvenance
    <2>3. QED
      BY <2>1, <2>2 DEF Provenance
  <1>2. ASSUME NEW scope \in Scopes, LinkScope(scope) PROVE Provenance'
    <2>1. Rows
      BY <1>0, <1>2 DEF LinkScope, RowProvenance
    <2>2. \A t \in Syncs : RunProvenance(t)'
      BY <1>0, <1>2 DEF LinkScope, RunProvenance
    <2>3. QED
      BY <2>1, <2>2 DEF Provenance
  <1>3. ASSUME NEW s \in Syncs, Begin(s) PROVE Provenance'
    <2>1. /\ sync'[s].pc = "fetch" /\ sync'[s].todo = linked
          /\ sync'[s].page = NoPage /\ Same(s)
      BY <1>3, BeginEffect DEF Becomes
    <2>2. Frame
      BY <1>3 DEF Begin
    <2>3. RunProvenance(s)'
      BY <1>0, <2>1, <2>2 DEF RunProvenance, NoPage
    <2>4. QED
      BY <1>a, <1>b, <2>1, <2>2, <2>3
  <1>4. ASSUME NEW s \in Syncs, Fetch(s) PROVE Provenance'
    <2>1. PICK scope \in Scopes, S \in SUBSET Items :
              scope \in sync[s].todo /\ Takes(s, scope, S)
      BY <1>4, FetchTakes
    <2>2. \A i \in S : src[i] # 0 /\ ScopeOf[i] = scope
      BY <2>1 DEF Takes, FirstPage, PastCursor
    <2> DEFINE page == [i \in Items |-> IF i \in S THEN src[i] ELSE 0]
               pc == IF S = {} THEN "fetch" ELSE "stage"
    <2>3. /\ sync'[s].todo = sync[s].todo \ {scope} /\ sync'[s].page = page
          /\ sync'[s].pc = pc /\ Same(s)
      <3>1. Moves(s, pc, sync[s].todo \ {scope}, page, sync[s].next)
        BY <2>1, FetchMoves
      <3> HIDE DEF page, pc
      <3>2. QED
        BY <3>1 DEF Moves
    <2>4. /\ src' = src /\ linked' = linked /\ clock' = clock /\ canon' = canon
          /\ seen' = [i \in Items |-> IF i \in S THEN src[i] ELSE seen[i]]
      BY <1>4, <2>1 DEF Fetch, Takes
    <2>5. RunProvenance(s)'
      <3>1. sync'[s].todo \subseteq linked'
        BY <1>0, <2>3, <2>4 DEF RunProvenance
      <3>2. \A i \in Items : page[i] <= seen'[i]
        BY <1>0, <2>4
      <3>3. pc = "stage" => \E i \in Items : page[i] # 0
        BY <2>2
      <3> HIDE DEF page, pc
      <3>4. QED
        BY <2>3, <3>1, <3>2, <3>3 DEF RunProvenance
    <2>6. Rows
      BY <1>0, <2>1, <2>2, <2>4 DEF RowProvenance, RunProvenance
    <2>7. seen' \in [Items -> Nat] /\ \A i \in Items : seen[i] <= seen'[i]
      BY <1>0, <2>4 DEF RowProvenance
    <2>8. \A t \in Syncs : RunProvenance(t)'
      BY <2>3, <2>4, <2>5, <2>7, OthersProvenance
    <2>9. QED
      BY <2>6, <2>8 DEF Provenance
  <1>5. ASSUME NEW s \in Syncs, Stage(s) PROVE Provenance'
    <2>1. /\ sync'[s].pc = "write" /\ sync'[s].todo = sync[s].todo
          /\ sync'[s].page = sync[s].page /\ Same(s)
      BY <1>5, StageMoves DEF Moves
    <2>2. Frame
      BY <1>5 DEF Stage
    <2>3. QED
      BY <1>c, <2>1, <2>2
  <1>6. ASSUME NEW s \in Syncs, Write(s) PROVE Provenance'
    <2>1. PICK i \in Items :
             /\ canon' = [canon EXCEPT ![i] = sync[s].page[i]]
             /\ Moves(s, "link", sync[s].todo, sync[s].page, sync[s].next)
      BY <1>6, WriteMoves
    <2>2. /\ sync'[s].pc = "link" /\ sync'[s].todo = sync[s].todo
          /\ sync'[s].page = sync[s].page /\ Same(s)
      BY <2>1 DEF Moves
    <2>3. /\ src' = src /\ linked' = linked /\ clock' = clock /\ seen' = seen
      BY <1>6 DEF Write
    <2>4. \A j \in Items : canon'[j] <= seen[j]
      BY <1>0, <2>1 DEF RowProvenance, RunProvenance, TypeOK
    <2>5. Rows
      BY <1>0, <2>3, <2>4 DEF RowProvenance
    <2>6. RunProvenance(s)'
      BY <1>0, <2>2, <2>3 DEF RunProvenance
    <2>7. QED
      BY <1>b, <2>2, <2>3, <2>5, <2>6
  <1>7. ASSUME NEW s \in Syncs, Link(s) PROVE Provenance'
    <2>1. PICK i \in sync[s].written :
             Moves(s, IF InPage(sync[s].page) = {i} THEN "fetch" ELSE "write",
                   sync[s].todo, [sync[s].page EXCEPT ![i] = 0], sync[s].next)
      BY <1>7, LinkMoves
    <2>2. /\ sync'[s].pc # "stage" /\ sync'[s].todo = sync[s].todo
          /\ sync'[s].page = [sync[s].page EXCEPT ![i] = 0] /\ Same(s)
      BY <2>1 DEF Moves
    <2>3. Frame
      BY <1>7 DEF Link
    <2>4. \A j \in Items : sync'[s].page[j] <= seen[j]
      BY <1>0, <2>2 DEF RunProvenance, Run
    <2>5. RunProvenance(s)'
      BY <1>0, <2>2, <2>3, <2>4 DEF RunProvenance
    <2>6. QED
      BY <1>a, <1>b, <2>2, <2>3, <2>5
  <1>8. ASSUME NEW s \in Syncs, Advance(s) PROVE Provenance'
    <2>1. /\ sync'[s].pc = "finish" /\ sync'[s].todo = sync[s].todo
          /\ sync'[s].page = sync[s].page /\ Same(s)
      BY <1>8, AdvanceMoves DEF Moves
    <2>2. Frame
      BY <1>8 DEF Advance
    <2>3. QED
      BY <1>c, <2>1, <2>2
  <1>9. ASSUME NEW s \in Syncs, Finish(s) \/ Stops(s) PROVE Provenance'
    <2>1. /\ sync'[s].pc = "idle" /\ sync'[s].todo = sync[s].todo
          /\ sync'[s].page = sync[s].page /\ Same(s)
      BY <1>9, EndMoves DEF Moves
    <2>2. Frame
      BY <1>9 DEF Finish, Stops
    <2>3. QED
      BY <1>c, <2>1, <2>2
  <1>10. CASE UNCHANGED vars
    <2>1. Rows /\ \A t \in Syncs : RunProvenance(t)'
      BY <1>0, <1>10 DEF vars, RowProvenance, RunProvenance
    <2>2. QED
      BY <2>1 DEF Provenance
  <1>11. QED
    BY <1>1, <1>2, <1>3, <1>4, <1>5, <1>6, <1>7, <1>8, <1>9, <1>10
    DEF Next, Continue

\* The direct API's syncs never move the cursor.
LEMMA NoCursorStep ==
  TypeOK /\ Provenance /\ NoCursor /\ [Next]_vars => NoCursor'
  <1> SUFFICES ASSUME TypeOK, Provenance, NoCursor, CursorCol = "none", [Next]_vars
               PROVE  cursor' = 0 /\ \A s \in Syncs : sync'[s].next = 0
    BY DEF NoCursor
  <1>0. /\ \A s \in Syncs : sync[s] \in Run /\ sync[s].next = 0
        /\ cursor = 0
    BY DEF TypeOK, NoCursor
  <1>1. ASSUME NEW s \in Syncs, sync'[s].next = 0,
               \A t \in Syncs : t # s => sync'[t] = sync[t]
        PROVE  \A t \in Syncs : sync'[t].next = 0
    BY <1>0, <1>1
  <1>2. CASE UNCHANGED <<sync, cursor>>
    BY <1>0, <1>2
  <1>3. ASSUME NEW s \in Syncs, Begin(s)
        PROVE  cursor' = 0 /\ \A t \in Syncs : sync'[t].next = 0
    BY <1>0, <1>1, <1>3, BeginEffect DEF Begin, Becomes
  <1>4. ASSUME NEW s \in Syncs, Fetch(s)
        PROVE  cursor' = 0 /\ \A t \in Syncs : sync'[t].next = 0
    <2>1. PICK scope \in Scopes, S \in SUBSET Items : Takes(s, scope, S)
      BY <1>4, FetchTakes
    <2>2. sync'[s].next = 0 /\ \A t \in Syncs : t # s => sync'[t] = sync[t]
      BY <1>0, <2>1, FetchMoves DEF Moves
    <2>3. QED
      BY <1>0, <1>1, <1>4, <2>2 DEF Fetch
  <1>5. ASSUME NEW s \in Syncs, Stage(s)
        PROVE  cursor' = 0 /\ \A t \in Syncs : sync'[t].next = 0
    <2>1. sync'[s].next = 0 /\ \A t \in Syncs : t # s => sync'[t] = sync[t]
      BY <1>0, <1>5, StageMoves DEF Moves, Earliest
    <2>2. QED
      BY <1>0, <1>1, <1>5, <2>1 DEF Stage
  <1>6. ASSUME NEW s \in Syncs, Write(s)
        PROVE  cursor' = 0 /\ \A t \in Syncs : sync'[t].next = 0
    <2>1. sync'[s].next = 0 /\ \A t \in Syncs : t # s => sync'[t] = sync[t]
      BY <1>0, <1>6, WriteMoves DEF Moves
    <2>2. QED
      BY <1>0, <1>1, <1>6, <2>1 DEF Write
  <1>7. ASSUME NEW s \in Syncs, Link(s)
        PROVE  cursor' = 0 /\ \A t \in Syncs : sync'[t].next = 0
    <2>1. sync'[s].next = 0 /\ \A t \in Syncs : t # s => sync'[t] = sync[t]
      BY <1>0, <1>7, LinkMoves DEF Moves
    <2>2. QED
      BY <1>0, <1>1, <1>7, <2>1 DEF Link
  <1>8. ASSUME NEW s \in Syncs, Advance(s)
        PROVE  cursor' = 0 /\ \A t \in Syncs : sync'[t].next = 0
    <2>1. sync'[s].next = 0 /\ \A t \in Syncs : t # s => sync'[t] = sync[t]
      BY <1>0, <1>8, AdvanceMoves DEF Moves
    <2>2. QED
      BY <1>0, <1>1, <1>8, <2>1 DEF Advance
  <1>9. ASSUME NEW s \in Syncs, Finish(s) \/ Stops(s)
        PROVE  cursor' = 0 /\ \A t \in Syncs : sync'[t].next = 0
    <2>1. sync'[s].next = 0 /\ \A t \in Syncs : t # s => sync'[t] = sync[t]
      BY <1>0, <1>9, EndMoves DEF Moves
    <2>2. QED
      BY <1>0, <1>1, <1>9, <2>1 DEF Finish, Stops
  <1>10. QED
    BY <1>2, <1>3, <1>4, <1>5, <1>6, <1>7, <1>8, <1>9
    DEF Next, Continue, SourceChanges, LinkScope, vars

\* A change gives its row a place of its own on the cursor's axis.
LEMMA ApartStep ==
  ASSUME NoTies
  PROVE  TypeOK /\ Provenance /\ Apart /\ [Next]_vars => Apart'
  <1> SUFFICES ASSUME TypeOK, Provenance, Apart, [Next]_vars PROVE Apart'
    OBVIOUS
  <1> USE ProcoreSyncAssumption
  <1>1. ASSUME NEW S \in Batches, SourceChanges(S) PROVE Apart'
    <2> SUFFICES ASSUME CursorCol # "none", NEW i \in Items, NEW j \in Items,
                        src'[i] # 0, src'[j] # 0,
                        Mark(i, src'[i]) = Mark(j, src'[j])
                 PROVE  i = j
      BY DEF Apart, Mark
    <2>1. CASE CursorCol = "procore_id"
      BY <2>1 DEF Mark, NoTies
    <2>2. CASE CursorCol = "updated_at"
      <3>1. src'[i] = src'[j]
        BY <2>2 DEF Mark
      <3>2. /\ src'[i] = (IF i \in S THEN clock + 1 ELSE src[i])
            /\ src'[j] = (IF j \in S THEN clock + 1 ELSE src[j])
        BY <1>1 DEF SourceChanges
      <3>3. /\ src[i] <= clock /\ src[j] <= clock /\ clock \in Nat
            /\ src[i] \in Nat /\ src[j] \in Nat
        BY DEF Provenance, RowProvenance, TypeOK, Time
      <3>4. CASE i \in S /\ j \in S
        BY <3>4, <2>2 DEF NoTies
      <3>5. CASE i \notin S /\ j \notin S
        BY <3>1, <3>2, <3>5, <2>2 DEF Apart, Mark
      <3>6. QED
        <4>1. (i \in S) = (j \in S)
          <5>1. (i \in S => j \in S) /\ (j \in S => i \in S)
            <6>1. ASSUME i \in S, j \notin S PROVE FALSE
              <7>1. clock + 1 = src[j]
                BY <3>1, <3>2, <6>1
              <7>2. QED
                BY <7>1, <3>3
            <6>2. ASSUME j \in S, i \notin S PROVE FALSE
              <7>1. clock + 1 = src[i]
                BY <3>1, <3>2, <6>2
              <7>2. QED
                BY <7>1, <3>3
            <6>3. QED
              BY <6>1, <6>2
          <5>2. QED
            BY <5>1
        <4>2. QED
          BY <4>1, <3>4, <3>5
    <2>3. QED
      BY <2>1, <2>2
  <1>2. CASE UNCHANGED src
    BY <1>2 DEF Apart, Mark
  <1>3. QED
    BY <1>1, <1>2 DEF Next, Continue, LinkScope, Begin, Fetch, Stage, Write,
                      Link, Advance, Finish, Stops, vars
-----------------------------------------------------------------------------
(* The steps of the one sync that moves a cursor *)

\* What the proof of each step starts from.
Ready(s) ==
  /\ IInv /\ TypeOK' /\ Provenance' /\ NoTies /\ CursorCol # "none"
  /\ PageInv(s) /\ CoverInv(s)

\* What it ends with.
Kept(s) == PageInv(s)' /\ CoverInv(s)' /\ NothingFetchedIsDropped'

\* The numbers and the marks that the steps compare.
LEMMA Numbers ==
  ASSUME IInv, NEW s \in Syncs, NEW i \in Items
  PROVE  /\ src[i] \in Nat /\ seen[i] \in Nat /\ canon[i] \in Nat
         /\ sync[s].page[i] \in Nat /\ sync[s].page \in [Items -> Time]
         /\ sync[s].next \in Nat /\ sync[s].from \in Nat /\ cursor \in Nat
         /\ Mark(i, src[i]) \in Nat /\ Mark(i, sync[s].page[i]) \in Nat
         /\ seen[i] <= src[i] /\ canon[i] <= seen[i]
         /\ sync[s].page[i] <= seen[i]
         /\ seen[i] > 0 => ScopeOf[i] \in linked
         /\ sync[s] \in Run
  <1> USE ProcoreSyncAssumption
  <1>1. /\ src[i] \in Nat /\ seen[i] \in Nat /\ canon[i] \in Nat
        /\ sync[s] \in Run /\ cursor \in Nat
    BY DEF IInv, TypeOK, Time
  <1>2. /\ sync[s].page[i] \in Nat /\ sync[s].page \in [Items -> Time]
        /\ sync[s].next \in Nat /\ sync[s].from \in Nat
    BY <1>1 DEF Run, Time
  <1>3. Mark(i, src[i]) \in Nat /\ Mark(i, sync[s].page[i]) \in Nat
    BY <1>1, <1>2, MarkType
  <1>4. RowProvenance(i) /\ RunProvenance(s)
    BY DEF IInv, Provenance
  <1>5. QED
    BY <1>1, <1>2, <1>3, <1>4 DEF RowProvenance, RunProvenance

\* A sync begins with an empty page and every scope in front of it.
LEMMA BeginKeeps ==
  ASSUME NEW s \in Syncs, Ready(s), Begin(s)
  PROVE  Kept(s)
  <1>1. /\ sync'[s].pc = "fetch" /\ sync'[s].from = cursor
        /\ sync'[s].todo = linked /\ sync'[s].page = NoPage /\ sync'[s].next = 0
    BY BeginEffect DEF Ready, IInv, Becomes
  <1>2. UNCHANGED <<src, linked, canon, links, cursor, seen>>
    BY DEF Begin
  <1>3. InPage(sync'[s].page) = {}
    BY <1>1 DEF InPage, NoPage
  <1>4. PageInv(s)'
    BY <1>1, <1>2, <1>3 DEF PageInv, CursorInv, InPage
  <1>5. ASSUME NEW i \in Items, Pending(i) PROVE ScopeOf[i] \in sync'[s].todo
    BY <1>1, <1>5, Numbers DEF Ready, Pending
  <1>6. CoverInv(s)'
    BY <1>2, <1>5 DEF CoverInv, Covered, Pending
  <1>7. NothingFetchedIsDropped'
    BY <1>2 DEF Ready, IInv, NothingFetchedIsDropped, Pending, Mark
  <1>8. QED
    BY <1>4, <1>6, <1>7 DEF Kept

\* What a page leaves behind of its scope lies after its last row.
LEMMA FetchKeeps ==
  ASSUME NEW s \in Syncs, Ready(s), Fetch(s)
  PROVE  Kept(s)
  <1>1. PICK scope \in Scopes, S \in SUBSET Items :
            scope \in sync[s].todo /\ Takes(s, scope, S)
    BY FetchTakes DEF Ready, IInv
  <1> DEFINE page == [i \in Items |-> IF i \in S THEN src[i] ELSE 0]
             pc == IF S = {} THEN "fetch" ELSE "stage"
             past == PastCursor(scope, sync[s].from)
  <1>2. /\ sync'[s].pc = pc /\ sync'[s].from = sync[s].from
        /\ sync'[s].todo = sync[s].todo \ {scope}
        /\ sync'[s].page = page /\ sync'[s].next = sync[s].next
    <2>1. Moves(s, pc, sync[s].todo \ {scope}, page, sync[s].next)
      BY <1>1, FetchMoves DEF Ready, IInv
    <2> HIDE DEF page, pc
    <2>2. QED
      BY <2>1 DEF Moves
  <1>3. /\ UNCHANGED <<src, canon, links, cursor>>
        /\ seen' = [i \in Items |-> IF i \in S THEN src[i] ELSE seen[i]]
        /\ FirstPage(past, S) /\ sync[s].pc = "fetch"
    BY <1>1 DEF Fetch, Takes
  <1>4. /\ sync[s].from = cursor
        /\ sync[s].next # 0 => sync[s].next > cursor
        /\ InPage(sync[s].page) = {}
    BY <1>3 DEF Ready, PageInv, CursorInv
  <1>5. \A i \in S : i \in past /\ src[i] # 0 /\ Mark(i, src[i]) > cursor
    BY <1>3, <1>4 DEF FirstPage, PastCursor, Ready
  <1>6. \A i \in Items : /\ page[i] = (IF i \in S THEN src[i] ELSE 0)
                         /\ seen'[i] = (IF i \in S THEN src[i] ELSE seen[i])
    BY <1>3
  <1>7. InPage(page) = S
    BY <1>5, <1>6 DEF InPage
  <1> HIDE DEF page
  <1>8. PageInv(s)'
    <2>1. \A i \in S : page[i] = seen'[i] /\ Mark(i, page[i]) > cursor
      BY <1>5, <1>6
    <2>2. /\ sync'[s].from = cursor' /\ sync'[s].pc \in {"fetch", "stage"}
          /\ sync'[s].next # 0 => sync'[s].next > cursor'
          /\ sync'[s].pc = "fetch" => S = {}
      BY <1>2, <1>3, <1>4
    <2>3. InPage(sync'[s].page) = S
      BY <1>2, <1>7
    <2>4. \A i \in S : /\ sync'[s].page[i] = seen'[i]
                       /\ Mark(i, sync'[s].page[i]) > cursor'
      BY <1>2, <1>3, <2>1
    <2>5. QED
      BY <2>2, <2>3, <2>4 DEF PageInv, CursorInv, InPage, Mark
  <1>9. ASSUME NEW i \in Items, i \notin S, Pending(i) PROVE Mark(i, src[i]) > cursor
    BY <1>9 DEF Ready, IInv, NothingFetchedIsDropped
  <1>10. \A i \in Items : Pending(i)' /\ i \notin S => Pending(i)
    BY <1>3, <1>6 DEF Pending
  <1>11. ASSUME NEW i \in Items, i \notin S, Pending(i)
         PROVE  \/ ScopeOf[i] \in sync'[s].todo
                \/ sync'[s].next # 0 /\ Mark(i, src[i]) > sync'[s].next
                \/ /\ sync'[s].pc = "stage"
                   /\ \A j \in S : Mark(j, page[j]) < Mark(i, src[i])
    <2>1. Covered(s, i)
      BY <1>3, <1>11 DEF Ready, CoverInv
    <2>2. CASE ScopeOf[i] = scope
      <3>1. src[i] # 0
        BY <1>11, Numbers DEF Ready, Pending
      <3>2. i \in past
        BY <1>4, <1>9, <1>11, <2>2, <3>1 DEF PastCursor
      <3>3. /\ Cardinality(S) = PageSize
            /\ \A j \in S : Mark(j, src[j]) <= Mark(i, src[i])
        BY <1>3, <1>11, <3>2 DEF FirstPage, Ready
      <3>4. S # {}
        BY <3>3, FS_EmptySet, ProcoreSyncAssumption
      <3>5. \A j \in S : Mark(j, src[j]) # Mark(i, src[i])
        BY <1>5, <1>11, <3>1 DEF Ready, IInv, Apart
      <3>6. \A j \in S : Mark(j, src[j]) \in Nat /\ Mark(i, src[i]) \in Nat
        BY Numbers DEF Ready
      <3>7. \A j \in S : Mark(j, page[j]) < Mark(i, src[i])
        BY <1>6, <3>3, <3>5, <3>6
      <3>8. QED
        BY <1>2, <3>4, <3>7
    <2>3. CASE ScopeOf[i] # scope
      BY <1>2, <1>3, <1>4, <2>1, <2>3 DEF Covered
    <2>4. QED
      BY <2>2, <2>3
  <1>12. CoverInv(s)'
    <2> SUFFICES ASSUME NEW i \in Items, Pending(i)' PROVE Covered(s, i)'
      BY DEF CoverInv
    <2>1. InPage(sync'[s].page) = S
      BY <1>2, <1>7
    <2>2. CASE i \in S
      BY <2>1, <2>2 DEF Covered, InPage
    <2>3. CASE i \notin S
      <3>1. Pending(i)
        BY <1>10, <2>3
      <3>2. \/ ScopeOf[i] \in sync'[s].todo
            \/ sync'[s].next # 0 /\ Mark(i, src'[i]) > sync'[s].next
            \/ /\ sync'[s].pc = "stage"
               /\ \A j \in InPage(sync'[s].page) :
                     Mark(j, sync'[s].page[j]) < Mark(i, src'[i])
        BY <1>2, <1>3, <1>11, <2>1, <2>3, <3>1
      <3>3. QED
        BY <3>2 DEF Covered, InPage, Mark
    <2>4. QED
      BY <2>2, <2>3
  <1>13. NothingFetchedIsDropped'
    <2> SUFFICES ASSUME NEW i \in Items, Pending(i)'
                 PROVE  Mark(i, src'[i]) > cursor'
      BY DEF NothingFetchedIsDropped, Mark
    <2>1. QED
      BY <1>3, <1>5, <1>9, <1>10
  <1>14. QED
    BY <1>8, <1>12, <1>13 DEF Kept

\* Staging a page can only bring the next cursor down, never to the page's rows.
LEMMA StageKeeps ==
  ASSUME NEW s \in Syncs, Ready(s), Stage(s)
  PROVE  Kept(s)
  <1> DEFINE next == Earliest(sync[s].next, sync[s].page)
             last == LastMark(sync[s].page)
  <1>1. /\ sync'[s].pc = "write" /\ sync'[s].from = sync[s].from
        /\ sync'[s].todo = sync[s].todo
        /\ sync'[s].page = sync[s].page /\ sync'[s].next = next
    BY StageMoves DEF Moves, Ready, IInv
  <1>2. /\ UNCHANGED <<src, canon, links, cursor, seen>> /\ sync[s].pc = "stage"
    BY DEF Stage
  <1>3. InPage(sync[s].page) # {} /\ sync[s].page \in [Items -> Time]
        /\ sync[s].next \in Nat
    <2>1. RunProvenance(s) /\ sync[s] \in Run
      BY DEF Ready, IInv, Provenance, TypeOK
    <2>2. QED
      BY <1>2, <2>1 DEF RunProvenance, InPage, Run
  <1>4. /\ next \in Nat /\ next \in {sync[s].next, last} /\ next <= last /\ next # 0
        /\ sync[s].next # 0 => next <= sync[s].next
    BY <1>3, EarliestOfPage DEF Ready
  <1>5. /\ last \in Nat
        /\ \E i \in InPage(sync[s].page) : last = Mark(i, sync[s].page[i])
        /\ \A i \in InPage(sync[s].page) : Mark(i, sync[s].page[i]) <= last
    BY <1>3, LastMarkIsLast
  <1>6. /\ sync[s].from = cursor
        /\ sync[s].next # 0 => sync[s].next > cursor
        /\ \A i \in InPage(sync[s].page) : /\ sync[s].page[i] = seen[i]
                                           /\ Mark(i, sync[s].page[i]) > cursor
    BY <1>2 DEF Ready, PageInv, CursorInv
  <1> HIDE DEF next, last
  <1>7. PageInv(s)'
    <2>1. next > cursor
      BY <1>4, <1>5, <1>6
    <2>2. /\ sync'[s].from = cursor' /\ sync'[s].pc = "write"
          /\ sync'[s].next > cursor' /\ InPage(sync'[s].page) = InPage(sync[s].page)
          /\ \A i \in InPage(sync[s].page) : /\ sync'[s].page[i] = seen'[i]
                                             /\ Mark(i, sync'[s].page[i]) > cursor'
      BY <1>1, <1>2, <1>6, <2>1
    <2>3. QED
      BY <2>2 DEF PageInv, CursorInv, InPage, Mark
  <1>8. ASSUME NEW i \in Items, Pending(i)
        PROVE  \/ ScopeOf[i] \in sync'[s].todo \/ i \in InPage(sync[s].page)
               \/ sync'[s].next # 0 /\ Mark(i, src[i]) > sync'[s].next
    <2>1. Covered(s, i)
      BY <1>2, <1>8 DEF Ready, CoverInv
    <2>2. Mark(i, src[i]) \in Nat
      BY Numbers DEF Ready
    <2>3. CASE sync[s].next # 0 /\ Mark(i, src[i]) > sync[s].next
      BY <1>1, <1>3, <1>4, <2>2, <2>3
    <2>4. CASE \A j \in InPage(sync[s].page) :
                 Mark(j, sync[s].page[j]) < Mark(i, src[i])
      BY <1>1, <1>4, <1>5, <2>2, <2>4
    <2>5. QED
      BY <1>1, <2>1, <2>3, <2>4 DEF Covered
  <1>9. CoverInv(s)'
    <2> SUFFICES ASSUME NEW i \in Items, Pending(i)' PROVE Covered(s, i)'
      BY DEF CoverInv
    <2>1. Pending(i)
      BY <1>2 DEF Pending
    <2>2. InPage(sync'[s].page) = InPage(sync[s].page) /\ Mark(i, src'[i]) = Mark(i, src[i])
      BY <1>1, <1>2
    <2>3. QED
      BY <1>8, <2>1, <2>2 DEF Covered, InPage, Mark
  <1>10. NothingFetchedIsDropped'
    BY <1>2 DEF Ready, IInv, NothingFetchedIsDropped, Pending, Mark
  <1>11. QED
    BY <1>7, <1>9, <1>10 DEF Kept

\* The row written is the newest fetched version of its item.
LEMMA WriteKeeps ==
  ASSUME NEW s \in Syncs, Ready(s), Write(s)
  PROVE  Kept(s)
  <1>1. PICK k \in Items :
           /\ sync[s].pc = "write"
           /\ k \in InPage(sync[s].page)
           /\ canon' = [canon EXCEPT ![k] = sync[s].page[k]]
           /\ sync'[s].written = {k}
           /\ Moves(s, "link", sync[s].todo, sync[s].page, sync[s].next)
    BY WriteMoves DEF Ready, IInv
  <1>2. /\ sync'[s].pc = "link" /\ sync'[s].from = sync[s].from
        /\ sync'[s].todo = sync[s].todo
        /\ sync'[s].page = sync[s].page /\ sync'[s].next = sync[s].next
    BY <1>1 DEF Moves
  <1>3. UNCHANGED <<src, links, cursor, seen>>
    BY DEF Write
  <1>4. /\ sync[s].from = cursor
        /\ sync[s].next # 0 => sync[s].next > cursor
        /\ \A i \in InPage(sync[s].page) : /\ sync[s].page[i] = seen[i]
                                           /\ Mark(i, sync[s].page[i]) > cursor
    BY <1>1 DEF Ready, PageInv, CursorInv
  <1>5. \A i \in Items : canon'[i] = IF i = k THEN seen[i] ELSE canon[i]
    BY <1>1, <1>4 DEF Ready, IInv, TypeOK
  <1>6. PageInv(s)'
    <2>1. InPage(sync'[s].page) = InPage(sync[s].page) /\ canon'[k] = seen'[k]
      BY <1>2, <1>3, <1>5
    <2>2. \A i \in InPage(sync[s].page) : /\ sync'[s].page[i] = seen'[i]
                                         /\ Mark(i, sync'[s].page[i]) > cursor'
      BY <1>2, <1>3, <1>4
    <2>3. sync'[s].from = cursor' /\ (sync'[s].next # 0 => sync'[s].next > cursor')
      BY <1>2, <1>3, <1>4
    <2>4. QED
      BY <1>1, <1>2, <2>1, <2>2, <2>3 DEF PageInv, CursorInv, InPage, Mark
  <1>7. \A i \in Items : Pending(i)' => Pending(i)
    <2> TAKE i \in Items
    <2>1. seen[i] \in Nat /\ canon[i] \in Nat
      BY Numbers DEF Ready
    <2>2. QED
      BY <1>3, <1>5, <2>1 DEF Pending
  <1>8. CoverInv(s)'
    <2> SUFFICES ASSUME NEW i \in Items, Pending(i)' PROVE Covered(s, i)'
      BY DEF CoverInv
    <2>1. Covered(s, i)
      BY <1>1, <1>7 DEF Ready, CoverInv
    <2>2. \/ ScopeOf[i] \in sync[s].todo \/ i \in InPage(sync[s].page)
          \/ sync[s].next # 0 /\ Mark(i, src[i]) > sync[s].next
      BY <1>1, <2>1 DEF Covered
    <2>3. QED
      BY <1>2, <1>3, <2>2 DEF Covered, InPage, Mark
  <1>9. NothingFetchedIsDropped'
    BY <1>3, <1>7 DEF Ready, IInv, NothingFetchedIsDropped, Mark
  <1>10. QED
    BY <1>6, <1>8, <1>9 DEF Kept

\* The link is the last thing its row was waiting for.
LEMMA LinkKeeps ==
  ASSUME NEW s \in Syncs, Ready(s), Link(s)
  PROVE  Kept(s)
  <1>1. PICK k \in sync[s].written :
           /\ sync[s].pc = "link"
           /\ links' = links \cup {k}
           /\ Moves(s, IF InPage(sync[s].page) = {k} THEN "fetch" ELSE "write",
                    sync[s].todo, [sync[s].page EXCEPT ![k] = 0], sync[s].next)
    BY LinkMoves DEF Ready, IInv
  <1> DEFINE pc == IF InPage(sync[s].page) = {k} THEN "fetch" ELSE "write"
             page == [sync[s].page EXCEPT ![k] = 0]
  <1>2. /\ sync'[s].pc = pc /\ sync'[s].from = sync[s].from
        /\ sync'[s].todo = sync[s].todo
        /\ sync'[s].page = page /\ sync'[s].next = sync[s].next
    <2> HIDE DEF pc, page
    <2>1. QED
      BY <1>1 DEF Moves, pc, page
  <1>3. UNCHANGED <<src, canon, cursor, seen>>
    BY DEF Link
  <1>4. /\ sync[s].from = cursor
        /\ sync[s].next # 0 => sync[s].next > cursor
        /\ k \in InPage(sync[s].page) /\ canon[k] = seen[k]
        /\ \A i \in InPage(sync[s].page) : /\ sync[s].page[i] = seen[i]
                                           /\ Mark(i, sync[s].page[i]) > cursor
    BY <1>1 DEF Ready, PageInv, CursorInv
  <1>5. InPage(page) = InPage(sync[s].page) \ {k}
        /\ \A i \in InPage(page) : page[i] = sync[s].page[i]
    <2>1. sync[s].page \in [Items -> Time]
      BY DEF Ready, IInv, TypeOK, Run
    <2>2. QED
      BY <2>1 DEF InPage
  <1> HIDE DEF page
  <1>6. PageInv(s)'
    <2>1. InPage(sync'[s].page) = InPage(sync[s].page) \ {k}
      BY <1>2, <1>5
    <2>2. \A i \in InPage(sync'[s].page) : /\ sync'[s].page[i] = seen'[i]
                                           /\ Mark(i, sync'[s].page[i]) > cursor'
      BY <1>2, <1>3, <1>4, <1>5, <2>1
    <2>3. /\ sync'[s].from = cursor' /\ (sync'[s].next # 0 => sync'[s].next > cursor')
          /\ sync'[s].pc \in {"fetch", "write"}
          /\ sync'[s].pc = "fetch" => InPage(sync'[s].page) = {}
      BY <1>2, <1>3, <1>4, <2>1
    <2>4. QED
      BY <2>2, <2>3 DEF PageInv, CursorInv, InPage, Mark
  <1>7. \A i \in Items : Pending(i)' => i # k /\ Pending(i)
    <2> TAKE i \in Items
    <2>1. seen[i] \in Nat /\ canon[i] \in Nat
      BY Numbers DEF Ready
    <2>2. QED
      BY <1>1, <1>3, <1>4, <2>1 DEF Pending
  <1>8. CoverInv(s)'
    <2> SUFFICES ASSUME NEW i \in Items, Pending(i)' PROVE Covered(s, i)'
      BY DEF CoverInv
    <2>1. Covered(s, i) /\ i # k
      BY <1>1, <1>7 DEF Ready, CoverInv
    <2>2. \/ ScopeOf[i] \in sync[s].todo \/ i \in InPage(page)
          \/ sync[s].next # 0 /\ Mark(i, src[i]) > sync[s].next
      BY <1>1, <1>5, <2>1 DEF Covered
    <2>3. QED
      BY <1>2, <1>3, <2>2 DEF Covered, InPage, Mark
  <1>9. NothingFetchedIsDropped'
    BY <1>3, <1>7 DEF Ready, IInv, NothingFetchedIsDropped, Mark
  <1>10. QED
    BY <1>6, <1>8, <1>9 DEF Kept

\* With no scope left, what is pending lies past the place the cursor moves to.
LEMMA AdvanceKeeps ==
  ASSUME NEW s \in Syncs, Ready(s), Advance(s)
  PROVE  Kept(s)
  <1>1. /\ sync[s].pc = "fetch" /\ sync[s].todo = {} /\ sync'[s].pc = "finish"
        /\ cursor' = cursor \/ (sync[s].next # 0 /\ cursor' = sync[s].next)
    BY AdvanceEffect, AdvanceMoves DEF Ready, IInv, Moves
  <1>2. UNCHANGED <<src, canon, links, seen>>
    BY DEF Advance
  <1>3. InPage(sync[s].page) = {}
    BY <1>1 DEF Ready, PageInv, CursorInv
  <1>4. ASSUME NEW i \in Items, Pending(i) PROVE Mark(i, src[i]) > cursor'
    <2>1. sync[s].next # 0 /\ Mark(i, src[i]) > sync[s].next
      BY <1>1, <1>3, <1>4 DEF Ready, CoverInv, Covered
    <2>2. Mark(i, src[i]) > cursor
      BY <1>4 DEF Ready, IInv, NothingFetchedIsDropped
    <2>3. QED
      BY <1>1, <2>1, <2>2
  <1>5. NothingFetchedIsDropped'
    BY <1>2, <1>4 DEF NothingFetchedIsDropped, Pending, Mark
  <1>6. PageInv(s)' /\ CoverInv(s)'
    BY <1>1 DEF PageInv, CursorInv, CoverInv
  <1>7. QED
    BY <1>5, <1>6 DEF Kept

\* A sync that is over, however it ended, leaves the cursor where it was.
LEMMA EndKeeps ==
  ASSUME NEW s \in Syncs, Ready(s), Finish(s) \/ Stops(s)
  PROVE  Kept(s)
  <1>1. sync'[s].pc = "idle"
    BY EndMoves DEF Ready, IInv, Moves
  <1>2. UNCHANGED <<src, canon, links, cursor, seen>>
    BY DEF Finish, Stops
  <1>3. PageInv(s)' /\ CoverInv(s)'
    BY <1>1 DEF PageInv, CursorInv, CoverInv
  <1>4. NothingFetchedIsDropped'
    BY <1>2 DEF Ready, IInv, NothingFetchedIsDropped, Pending, Mark
  <1>5. QED
    BY <1>3, <1>4 DEF Kept

\* A change at the source only moves rows further past the cursor.
LEMMA WorldKeeps ==
  ASSUME NEW s \in Syncs, Ready(s), UNCHANGED <<canon, links, cursor, sync, seen>>,
         src' \in [Items -> Nat], \A i \in Items : src[i] <= src'[i]
  PROVE  Kept(s)
  <1>1. ASSUME NEW i \in Items
        PROVE  /\ Mark(i, src[i]) \in Nat /\ Mark(i, src'[i]) \in Nat
               /\ Mark(i, src[i]) <= Mark(i, src'[i])
               /\ sync[s].next \in Nat /\ cursor \in Nat
               /\ Mark(i, sync[s].page[i]) \in Nat
    BY MarkType, Numbers DEF Ready
  <1>2. PageInv(s)'
    BY DEF Ready, PageInv, CursorInv, InPage, Mark
  <1>3. ASSUME NEW i \in Items, Covered(s, i) PROVE Covered(s, i)'
    <2>1. CASE ScopeOf[i] \in sync[s].todo \/ i \in InPage(sync[s].page)
      BY <2>1 DEF Covered, InPage
    <2>2. CASE sync[s].next # 0 /\ Mark(i, src[i]) > sync[s].next
      <3>1. sync'[s].next # 0 /\ Mark(i, src'[i]) > sync'[s].next
        BY <1>1, <2>2
      <3>2. QED
        BY <3>1 DEF Covered, Mark
    <2>3. CASE /\ sync[s].pc = "stage"
               /\ \A j \in InPage(sync[s].page) :
                     Mark(j, sync[s].page[j]) < Mark(i, src[i])
      <3>1. \A j \in InPage(sync[s].page) : Mark(j, sync[s].page[j]) < Mark(i, src'[i])
        <4>1. \A j \in InPage(sync[s].page) : j \in Items
          BY DEF InPage
        <4>2. QED
          BY <1>1, <2>3, <4>1
      <3>2. InPage(sync'[s].page) = InPage(sync[s].page) /\ sync' = sync
        OBVIOUS
      <3>3. \A j \in InPage(sync'[s].page) : Mark(j, sync'[s].page[j]) < Mark(i, src'[i])
        BY <3>1, <3>2
      <3>4. QED
        BY <2>3, <3>2, <3>3 DEF Covered, InPage, Mark
    <2>4. QED
      BY <1>3, <2>1, <2>2, <2>3 DEF Covered
  <1>4. CoverInv(s)'
    BY <1>3 DEF Ready, CoverInv, Pending
  <1>5. NothingFetchedIsDropped'
    <2> SUFFICES ASSUME NEW i \in Items, Pending(i)' PROVE Mark(i, src'[i]) > cursor'
      BY DEF NothingFetchedIsDropped, Mark
    <2>1. Mark(i, src[i]) > cursor
      BY DEF Ready, IInv, NothingFetchedIsDropped, Pending
    <2>2. QED
      BY <1>1, <2>1
  <1>6. QED
    BY <1>2, <1>4, <1>5 DEF Kept

-----------------------------------------------------------------------------
(* The cursor under one caller *)

\* Everything the one sync under way read lies past the cursor.
AllPast == CursorCol # "none" => \A s \in Syncs : CursorInv(s)

\* With one caller, what the run under way read stays past the cursor.
LEMMA PastStep ==
  ASSUME OneCaller
  PROVE  TypeOK /\ Provenance /\ AllPast /\ [Next]_vars => AllPast'
  <1> SUFFICES ASSUME TypeOK, Provenance, CursorCol # "none", [Next]_vars,
                      \A s \in Syncs : CursorInv(s)
               PROVE  \A s \in Syncs : CursorInv(s)'
    BY DEF AllPast
  <1>0. \A s, t \in Syncs : s = t
    BY DEF OneCaller
  <1>a. ASSUME NEW s \in Syncs, sync'[s].pc \in {"idle", "finish"}
        PROVE  CursorInv(s)'
    BY <1>a DEF CursorInv
  <1>b. ASSUME NEW s \in Syncs, cursor' = cursor, sync'[s].from = cursor,
               sync'[s].next # 0 => sync'[s].next > cursor,
               \A i \in InPage(sync'[s].page) : Mark(i, sync'[s].page[i]) > cursor
        PROVE  CursorInv(s)'
    BY <1>b DEF CursorInv, InPage, Mark
  <1>c. ASSUME NEW s \in Syncs, sync[s].pc \notin {"idle", "finish"}
        PROVE  /\ sync[s].from = cursor
               /\ sync[s].next # 0 => sync[s].next > cursor
               /\ \A i \in InPage(sync[s].page) : Mark(i, sync[s].page[i]) > cursor
    BY <1>c DEF CursorInv
  <1>1. CASE UNCHANGED <<sync, cursor>>
    <2> SUFFICES ASSUME NEW s \in Syncs PROVE CursorInv(s)'
      OBVIOUS
    <2>1. sync'[s] = sync[s] /\ cursor' = cursor
      BY <1>1
    <2>2. QED
      BY <1>a, <1>b, <1>c, <2>1
  <1>2. ASSUME NEW s \in Syncs, Begin(s) PROVE CursorInv(s)'
    <2>1. /\ sync'[s].from = cursor /\ sync'[s].next = 0
          /\ sync'[s].page = NoPage
      BY <1>2, BeginEffect DEF Becomes
    <2>2. InPage(sync'[s].page) = {}
      BY <2>1 DEF InPage, NoPage
    <2>3. cursor' = cursor
      BY <1>2 DEF Begin
    <2>4. QED
      BY <1>b, <2>1, <2>2, <2>3
  <1>3. ASSUME NEW s \in Syncs, Fetch(s) PROVE CursorInv(s)'
    <2>1. PICK scope \in Scopes, S \in SUBSET Items : Takes(s, scope, S)
      BY <1>3, FetchTakes
    <2> DEFINE page == [i \in Items |-> IF i \in S THEN src[i] ELSE 0]
               pc == IF S = {} THEN "fetch" ELSE "stage"
    <2>2. /\ sync'[s].from = sync[s].from /\ sync'[s].page = page
          /\ sync'[s].next = sync[s].next
      <3>1. Moves(s, pc, sync[s].todo \ {scope}, page, sync[s].next)
        BY <2>1, FetchMoves
      <3> HIDE DEF page, pc
      <3>2. QED
        BY <3>1 DEF Moves
    <2>3. cursor' = cursor /\ sync[s].pc = "fetch"
      BY <1>3 DEF Fetch
    <2>4. \A i \in S : Mark(i, src[i]) > sync[s].from
      BY <2>1 DEF Takes, FirstPage, PastCursor
    <2>5. \A i \in InPage(page) : i \in S /\ page[i] = src[i]
      BY DEF InPage
    <2> HIDE DEF page
    <2>6. QED
      BY <1>b, <1>c, <2>2, <2>3, <2>4, <2>5
  <1>4. ASSUME NEW s \in Syncs, Stage(s) PROVE CursorInv(s)'
    <2> DEFINE next == Earliest(sync[s].next, sync[s].page)
    <2>1. /\ sync'[s].from = sync[s].from /\ sync'[s].page = sync[s].page
          /\ sync'[s].next = next
      BY <1>4, StageMoves DEF Moves
    <2>2. cursor' = cursor /\ sync[s].pc = "stage"
      BY <1>4 DEF Stage
    <2>3. InPage(sync[s].page) # {} /\ sync[s].page \in [Items -> Time]
          /\ sync[s].next \in Nat
      <3>1. RunProvenance(s) /\ sync[s] \in Run
        BY DEF Provenance, TypeOK
      <3>2. QED
        BY <2>2, <3>1 DEF RunProvenance, InPage, Run
    <2>4. next \in {sync[s].next, LastMark(sync[s].page)} /\ next # 0
      BY <2>3, EarliestOfPage
    <2>5. LastMark(sync[s].page) > cursor
      <3>1. PICK i \in InPage(sync[s].page) :
                LastMark(sync[s].page) = Mark(i, sync[s].page[i])
        BY <2>3, LastMarkIsLast
      <3>2. QED
        BY <1>c, <2>2, <3>1
    <2> HIDE DEF next
    <2>6. QED
      BY <1>b, <1>c, <2>1, <2>2, <2>4, <2>5
  <1>5. ASSUME NEW s \in Syncs, Write(s) PROVE CursorInv(s)'
    <2>1. /\ sync'[s].from = sync[s].from /\ sync'[s].page = sync[s].page
          /\ sync'[s].next = sync[s].next
      BY <1>5, WriteMoves DEF Moves
    <2>2. cursor' = cursor /\ sync[s].pc = "write"
      BY <1>5 DEF Write
    <2>3. QED
      BY <1>b, <1>c, <2>1, <2>2
  <1>6. ASSUME NEW s \in Syncs, Link(s) PROVE CursorInv(s)'
    <2>1. PICK k \in sync[s].written :
             Moves(s, IF InPage(sync[s].page) = {k} THEN "fetch" ELSE "write",
                   sync[s].todo, [sync[s].page EXCEPT ![k] = 0], sync[s].next)
      BY <1>6, LinkMoves
    <2>2. /\ sync'[s].from = sync[s].from
          /\ sync'[s].page = [sync[s].page EXCEPT ![k] = 0]
          /\ sync'[s].next = sync[s].next
      BY <2>1 DEF Moves
    <2>3. cursor' = cursor /\ sync[s].pc = "link"
      BY <1>6 DEF Link
    <2>4. \A i \in InPage(sync'[s].page) :
              i \in InPage(sync[s].page) /\ sync'[s].page[i] = sync[s].page[i]
      <3>1. sync[s].page \in [Items -> Time]
        BY DEF TypeOK, Run
      <3>2. QED
        BY <2>2, <3>1 DEF InPage
    <2>5. QED
      BY <1>b, <1>c, <2>2, <2>3, <2>4
  <1>7. ASSUME NEW s \in Syncs, Advance(s) PROVE CursorInv(s)'
    BY <1>7, <1>a, AdvanceMoves DEF Moves
  <1>8. ASSUME NEW s \in Syncs, Finish(s) \/ Stops(s) PROVE CursorInv(s)'
    BY <1>8, <1>a, EndMoves DEF Moves
  <1>9. CASE \E s \in Syncs : Continue(s) \/ Stops(s)
    <2>1. PICK s \in Syncs : Continue(s) \/ Stops(s)
      BY <1>9
    <2>2. CursorInv(s)'
      BY <2>1, <1>2, <1>3, <1>4, <1>5, <1>6, <1>7, <1>8 DEF Continue
    <2>3. \A t \in Syncs : t = s
      BY <1>0
    <2>4. QED
      BY <2>2, <2>3
  <1>10. QED
    BY <1>1, <1>9 DEF Next, SourceChanges, LinkScope, vars

\* One step takes the cursor forward or leaves it.
LEMMA CursorStep ==
  TypeOK /\ AllPast /\ NoCursor /\ NoCursor' /\ [Next]_vars => cursor' >= cursor
  <1> SUFFICES ASSUME TypeOK, AllPast, NoCursor, NoCursor', [Next]_vars
               PROVE  cursor' >= cursor
    OBVIOUS
  <1>1. cursor \in Nat
    BY DEF TypeOK
  <1>2. CASE CursorCol = "none"
    BY <1>2 DEF NoCursor
  <1>3. ASSUME CursorCol # "none", NEW s \in Syncs, Advance(s)
        PROVE  cursor' >= cursor
    <2>1. /\ sync[s].pc = "fetch"
          /\ cursor' = cursor \/ (sync[s].next # 0 /\ cursor' = sync[s].next)
      BY <1>3, AdvanceEffect
    <2>2. sync[s].next # 0 => sync[s].next > cursor
      BY <1>3, <2>1 DEF AllPast, CursorInv
    <2>3. sync[s].next \in Nat
      BY DEF TypeOK, Run
    <2>4. QED
      BY <1>1, <2>1, <2>2, <2>3
  <1>4. CASE UNCHANGED cursor
    BY <1>1, <1>4
  <1>5. QED
    BY <1>2, <1>3, <1>4 DEF Next, Continue, SourceChanges, LinkScope, Begin,
                            Fetch, Stage, Write, Link, Finish, Stops, vars

-----------------------------------------------------------------------------
(* The invariant as a whole *)

\* The invariants hold before the first run.
LEMMA InitEstablishes == Init => IInv /\ AllPast
  <1> SUFFICES ASSUME Init PROVE IInv /\ AllPast
    OBVIOUS
  <1> USE ProcoreSyncAssumption
  <1>1. 0 \in Time
    BY DEF Time
  <1>2. \A s \in Syncs : /\ sync[s].pc = "idle" /\ sync[s].run = "none"
                         /\ sync[s].from = 0 /\ sync[s].todo = {}
                         /\ sync[s].page = NoPage /\ sync[s].written = {}
                         /\ sync[s].next = 0
    BY DEF Init
  <1>3. /\ NoPage \in [Items -> Time] /\ "idle" \in PCs
        /\ \A i \in Items : NoPage[i] = 0
    BY <1>1 DEF NoPage, PCs
  <1>4. TypeOK
    <2>1. [pc |-> "idle", run |-> "none", from |-> 0, todo |-> {},
           page |-> NoPage, written |-> {}, next |-> 0] \in Run
      BY <1>3 DEF Run
    <2>2. sync \in [Syncs -> Run]
      BY <2>1 DEF Init
    <2>3. QED
      BY <1>1, <2>2 DEF Init, TypeOK
  <1>5. Provenance
    BY <1>2, <1>3 DEF Init, Provenance, RowProvenance, RunProvenance
  <1>6. NoCursor /\ Apart
    BY <1>2 DEF Init, NoCursor, Apart
  <1>7. SyncInv /\ AllPast
    BY <1>2 DEF SyncInv, PageInv, CursorInv, CoverInv, AllPast
  <1>8. NothingFetchedIsDropped
    BY DEF Init, NothingFetchedIsDropped, Pending
  <1>9. QED
    BY <1>4, <1>5, <1>6, <1>7, <1>8 DEF IInv

\* Without a cursor column every row there is lies past the cursor.
LEMMA NoCursorNoDrop ==
  ASSUME CursorCol = "none"
  PROVE  TypeOK /\ Provenance /\ NoCursor => NothingFetchedIsDropped
  <1> SUFFICES ASSUME TypeOK, Provenance, NoCursor PROVE NothingFetchedIsDropped
    OBVIOUS
  <1> SUFFICES ASSUME NEW i \in Items, Pending(i) PROVE Mark(i, src[i]) > cursor
    BY DEF NothingFetchedIsDropped
  <1>1. /\ seen[i] \in Nat /\ canon[i] \in Nat /\ src[i] \in Nat
        /\ seen[i] <= src[i]
    BY ProcoreSyncAssumption DEF TypeOK, Time, Provenance, RowProvenance
  <1>2. src[i] > 0
    BY <1>1 DEF Pending
  <1>3. QED
    BY <1>1, <1>2 DEF Mark, NoCursor

\* Without a cursor nothing fetched is dropped, said of the next state.
LEMMA NoCursorNoDropNext ==
  ASSUME CursorCol = "none"
  PROVE  (TypeOK /\ Provenance /\ NoCursor)' => NothingFetchedIsDropped'
  <1>1. TypeOK /\ Provenance /\ NoCursor => NothingFetchedIsDropped
    BY NoCursorNoDrop
  <1>2. QED
    BY <1>1, PTL

\* With one caller and no ties every step keeps the invariant.
LEMMA InvStep ==
  ASSUME OneCaller, NoTies
  PROVE  IInv /\ [Next]_vars => IInv'
  <1> SUFFICES ASSUME IInv, [Next]_vars PROVE IInv'
    OBVIOUS
  <1>1. TypeOK' /\ Provenance' /\ NoCursor' /\ Apart'
    BY TypeStep, ProvenanceStep, NoCursorStep, ApartStep DEF IInv
  <1>2. CASE CursorCol = "none"
    <2>1. SyncInv'
      BY <1>2 DEF SyncInv
    <2>2. NothingFetchedIsDropped'
      BY <1>1, <1>2, NoCursorNoDropNext
    <2>3. QED
      BY <1>1, <2>1, <2>2 DEF IInv
  <1>3. CASE CursorCol # "none"
    <2>1. ASSUME NEW s \in Syncs PROVE Ready(s)
      BY <1>1, <1>3 DEF Ready, IInv, SyncInv
    <2>2. ASSUME NEW s \in Syncs, Kept(s) PROVE SyncInv' /\ NothingFetchedIsDropped'
      <3>1. \A t \in Syncs : t = s
        BY <1>3 DEF OneCaller
      <3>2. QED
        BY <2>2, <3>1 DEF SyncInv, Kept
    <2>3. ASSUME UNCHANGED <<canon, links, cursor, sync, seen>>,
                 \A i \in Items : src[i] <= src'[i], src' \in [Items -> Nat]
          PROVE  SyncInv' /\ NothingFetchedIsDropped'
      <3>1. CASE Syncs = {}
        <4>1. SyncInv'
          BY <3>1 DEF SyncInv
        <4>2. ASSUME NEW i \in Items, Pending(i)' PROVE Mark(i, src'[i]) > cursor'
          <5>1. Mark(i, src[i]) > cursor
            BY <2>3, <4>2 DEF IInv, NothingFetchedIsDropped, Pending
          <5>2. /\ Mark(i, src[i]) \in Nat /\ Mark(i, src'[i]) \in Nat
                /\ Mark(i, src[i]) <= Mark(i, src'[i]) /\ cursor \in Nat
            BY <2>3, MarkType DEF IInv, TypeOK, Time
          <5>3. QED
            BY <2>3, <5>1, <5>2
        <4>3. QED
          BY <4>1, <4>2 DEF NothingFetchedIsDropped, Mark
      <3>2. CASE Syncs # {}
        <4>1. PICK s \in Syncs : TRUE
          BY <3>2
        <4>2. Kept(s)
          BY <2>1, <2>3, WorldKeeps
        <4>3. QED
          BY <2>2, <4>2
      <3>3. QED
        BY <3>1, <3>2
    <2>4. /\ src \in [Items -> Nat] /\ src' \in [Items -> Nat]
          /\ \A i \in Items : src[i] <= clock
          /\ clock \in Nat
      BY <1>1, ProcoreSyncAssumption
      DEF IInv, TypeOK, Time, Provenance, RowProvenance
    <2>5. ASSUME NEW S \in Batches, SourceChanges(S)
          PROVE  SyncInv' /\ NothingFetchedIsDropped'
      <3>1. \A i \in Items : src[i] <= src'[i]
        BY <2>4, <2>5 DEF SourceChanges
      <3>2. QED
        BY <2>3, <2>4, <2>5, <3>1 DEF SourceChanges
    <2>6. ASSUME src' = src, UNCHANGED <<canon, links, cursor, sync, seen>>
          PROVE  SyncInv' /\ NothingFetchedIsDropped'
      BY <2>3, <2>4, <2>6
    <2>7. ASSUME NEW s \in Syncs, Continue(s) \/ Stops(s)
          PROVE  SyncInv' /\ NothingFetchedIsDropped'
      <3>1. Kept(s)
        BY <2>1, <2>7, BeginKeeps, FetchKeeps, StageKeeps, WriteKeeps, LinkKeeps,
           AdvanceKeeps, EndKeeps DEF Continue
      <3>2. QED
        BY <2>2, <3>1
    <2>8. SyncInv' /\ NothingFetchedIsDropped'
      BY <2>5, <2>6, <2>7 DEF Next, LinkScope, vars
    <2>9. QED
      BY <1>1, <2>8 DEF IInv
  <1>4. QED
    BY <1>2, <1>3

-----------------------------------------------------------------------------
\* The state has the shape the code gives it, copies are never newer than
\* their source, and only rows of linked scopes are fetched.
THEOREM TypeCorrect == Spec => [](TypeOK /\ Provenance)
  <1>1. Init => TypeOK /\ Provenance
    BY InitEstablishes DEF IInv
  <1>2. TypeOK /\ Provenance /\ [Next]_vars => (TypeOK /\ Provenance)'
    BY TypeStep, ProvenanceStep
  <1>3. QED
    BY <1>1, <1>2, PTL DEF Spec

\* What one caller's syncs fetched and did not finish writing stays past the
\* cursor, so that a later sync fetches it again, whatever failed in between.
THEOREM FetchedRowsAreNotDropped ==
  ASSUME OneCaller, NoTies
  PROVE  Spec => []NothingFetchedIsDropped
  <1>1. Init => IInv
    BY InitEstablishes
  <1>2. IInv /\ [Next]_vars => IInv'
    BY InvStep
  <1>3. IInv => NothingFetchedIsDropped
    BY DEF IInv
  <1>4. QED
    BY <1>1, <1>2, <1>3, PTL DEF Spec

\* The five resources of the direct API, with no cursor to lose, drop nothing
\* however many callers there are and however many rows change at once.
THEOREM DirectRowsAreNotDropped ==
  ASSUME CursorCol = "none"
  PROVE  Spec => []NothingFetchedIsDropped
  <1>1. Init => TypeOK /\ Provenance /\ NoCursor
    BY InitEstablishes DEF IInv
  <1>2. TypeOK /\ Provenance /\ NoCursor /\ [Next]_vars
        => (TypeOK /\ Provenance /\ NoCursor)'
    BY TypeStep, ProvenanceStep, NoCursorStep
  <1>3. TypeOK /\ Provenance /\ NoCursor => NothingFetchedIsDropped
    BY NoCursorNoDrop
  <1>4. QED
    BY <1>1, <1>2, <1>3, PTL DEF Spec

\* One caller's syncs never move the cursor back, also when rows tie.
THEOREM CursorIsMonotone ==
  ASSUME OneCaller
  PROVE  Spec => CursorNeverGoesBack
  <1> DEFINE Inv == TypeOK /\ Provenance /\ NoCursor /\ AllPast
  <1>1. Init => Inv
    BY InitEstablishes DEF IInv
  <1>2. Inv /\ [Next]_vars => Inv'
    BY TypeStep, ProvenanceStep, NoCursorStep, PastStep
  <1>3. Inv /\ Inv' /\ [Next]_vars => [cursor' >= cursor]_vars
    BY CursorStep
  <1>4. QED
    BY <1>1, <1>2, <1>3, PTL DEF Spec, CursorNeverGoesBack
=============================================================================
