------------------------- MODULE DerivedRowsProofs -------------------------
(***************************************************************************)
(* Proofs about DerivedRows: the stale-row bookkeeping of RowWriters is    *)
(* sound under every request of the closeout and of the refreshes, the     *)
(* checklist's gate is earned, the two gradings of a project agree, and a  *)
(* request that nobody overlapped leaves its row right.                    *)
(***************************************************************************)
EXTENDS DerivedRows, FiniteSetTheorems, TLAPS

\* The absence of a row (or of a value) is not a row.
NoneIsNoRow == \A x, columns : Has(x, columns) => x # None

\* Lists long enough for round(done / total * 100, 2) to say 100 before the
\* last item is complete are left out.
ShortList == IsFiniteSet(Items) /\ Cardinality(Items) < 20000

-----------------------------------------------------------------------------
(* Arithmetic: the rounded percentage *)

\* Below 20000 items the rounded percentage is 100 only when all are done.
LEMMA RoundedBelowFull ==
  ASSUME NEW d \in Nat, NEW t \in Nat, d < t, t < 20000
  PROVE  Rounded(10000 * d, t) < 10000
  <1>0. PICK a \in Nat : a = 10000 * d
    OBVIOUS
  <1>1. PICK q : q = a \div t
    OBVIOUS
  <1>2. PICK m : m = a % t
    OBVIOUS
  <1>3. q \in Nat /\ m \in 0 .. (t - 1) /\ 10000 * d = t * q + m
    <2>1. t \in Nat \ {0}
      OBVIOUS
    <2>2. q \in Nat /\ m \in 0 .. (t - 1) /\ a = t * q + m
      BY <1>1, <1>2, <2>1
    <2> QED
      BY <1>0, <2>2
  <1>4. Rounded(10000 * d, t) = IF 2 * m > t \/ (2 * m = t /\ q % 2 = 1) THEN q + 1 ELSE q
    BY <1>0, <1>1, <1>2 DEF Rounded
  <1>5. q <= 9999
    <2> SUFFICES ASSUME q >= 10000 PROVE FALSE
      BY <1>3
    <2>1. t * q >= t * 10000
      BY <1>3
    <2> QED
      BY <1>3, <2>1
  <1>6. CASE q = 9999
    <2>1. 10000 * d = 9999 * t + m
      BY <1>3, <1>6
    <2>2. 2 * m < t
      BY <1>3, <2>1
    <2> QED
      BY <1>3, <1>4, <1>6, <2>2
  <1>7. CASE q < 9999
    BY <1>3, <1>4, <1>7
  <1> QED
    BY <1>3, <1>5, <1>6, <1>7

\* A count of the items that says 100 percent means that all are complete.
LEMMA FullMeansComplete ==
  ASSUME ShortList, Truth.percent_complete >= 10000
  PROVE  Present # {} /\ Done = Present
  <1> DEFINE t == Cardinality(Present)
             d == Cardinality(Done)
  <1>1. IsFiniteSet(Present) /\ IsFiniteSet(Done) /\ Done \subseteq Present
        /\ Present \subseteq Items
    <2>1. Done \subseteq Present /\ Present \subseteq Items
      BY DEF Done, Present
    <2>2. IsFiniteSet(Present)
      BY <2>1, FS_Subset DEF ShortList
    <2> QED
      BY <2>1, <2>2, FS_Subset
  <1>2. t \in Nat /\ d \in Nat /\ Cardinality(Items) \in Nat
        /\ d <= t /\ t <= Cardinality(Items)
    BY <1>1, FS_CardinalityType, FS_Subset DEF ShortList
  <1>3. t < 20000
    BY <1>2 DEF ShortList
  <1>4. Truth.percent_complete = IF t > 0 THEN Rounded(10000 * d, t) ELSE 0
    BY DEF Truth, Counted, Percent
  <1> HIDE DEF t, d
  <1>5. t > 0
    BY <1>2, <1>4
  <1>6. ~(d < t)
    <2> SUFFICES ASSUME d < t PROVE FALSE
      OBVIOUS
    <2>1. Rounded(10000 * d, t) < 10000
      BY <1>2, <1>3, RoundedBelowFull
    <2>2. Rounded(10000 * d, t) \in Int
      BY <1>2, <1>5 DEF Rounded
    <2> QED
      BY <1>4, <1>5, <2>1, <2>2
  <1>7. Done = Present
    BY <1>1, <1>2, <1>6, FS_Subset DEF t, d
  <1>8. Present # {}
    BY <1>5, FS_EmptySet DEF t
  <1> QED
    BY <1>7, <1>8

-----------------------------------------------------------------------------
(* Sums over a finite set *)

\* The member of a set that a fold takes first.
Chosen(s) == CHOOSE x \in s : TRUE

\* g[s] is the sum of f over s, for every subset s of T.
AddedUp(g, f, T) ==
  g = [s \in SUBSET T |->
        IF s = {} THEN 0
        ELSE f[Chosen(s)] + g[s \ {Chosen(s)}]]

\* A set of subsets of a finite set has a smallest one under inclusion.
LEMMA Smallest ==
  ASSUME NEW S, IsFiniteSet(S), NEW B \in SUBSET SUBSET S, B # {}
  PROVE  \E T \in B : \A U \in B : U \subseteq T => U = T
  <1>1. B \subseteq FiniteSubsetsOf(S)
    BY FS_FiniteSubsetsOfFinite
  <1>2. PICK T \in B : \A U \in B : <<U, T>> \notin StrictSubsetOrdering(S)
    BY <1>1, FS_StrictSubsetOrderingWellFounded, WFMin
  <1> QED
    BY <1>2 DEF StrictSubsetOrdering

\* The sum over a part.
LEMMA SumOfPart ==
  ASSUME NEW f, NEW T, NEW g, AddedUp(g, f, T), NEW s \in SUBSET T,
         NEW x, x = Chosen(s)
  PROVE  g[s] = IF s = {} THEN 0 ELSE f[x] + g[s \ {x}]
  BY DEF AddedUp

\* The parts of a sum do not depend on the set that is summed over.
LEMMA SumsAgree ==
  ASSUME NEW f, NEW S, IsFiniteSet(S), NEW T \in SUBSET S, NEW U \in SUBSET S,
         NEW g, AddedUp(g, f, T), NEW h, AddedUp(h, f, U)
  PROVE  \A s \in SUBSET (T \cap U) : g[s] = h[s]
  <1> DEFINE Bad == {s \in SUBSET (T \cap U) : g[s] # h[s]}
  <1> SUFFICES ASSUME Bad # {} PROVE FALSE
    OBVIOUS
  <1>1. Bad \in SUBSET SUBSET S
    OBVIOUS
  <1>2. PICK s \in Bad : \A u \in Bad : u \subseteq s => u = s
    <2> HIDE DEF Bad
    <2> QED
      BY <1>1, Smallest
  <1>3. s \in SUBSET T /\ s \in SUBSET U
    OBVIOUS
  <1>4. PICK x : x = Chosen(s)
    OBVIOUS
  <1>5. /\ g[s] = IF s = {} THEN 0 ELSE f[x] + g[s \ {x}]
        /\ h[s] = IF s = {} THEN 0 ELSE f[x] + h[s \ {x}]
    BY <1>3, <1>4, SumOfPart
  <1>6. s # {} /\ x \in s
    BY <1>4, <1>5 DEF Chosen
  <1>7. s \ {x} \notin Bad /\ s \ {x} \in SUBSET (T \cap U)
    BY <1>2, <1>6
  <1> QED
    BY <1>5, <1>7

\* Every finite set has its sums.
LEMMA SumsExist ==
  ASSUME NEW f, NEW S, IsFiniteSet(S)
  PROVE  \E g : AddedUp(g, f, S)
  <1> DEFINE Bad == {T \in SUBSET S : ~ \E g : AddedUp(g, f, T)}
  <1> SUFFICES ASSUME Bad # {} PROVE FALSE
    OBVIOUS
  <1>1. Bad \in SUBSET SUBSET S
    OBVIOUS
  <1>2. PICK T \in Bad : \A U \in Bad : U \subseteq T => U = T
    <2> HIDE DEF Bad
    <2> QED
      BY <1>1, Smallest
  <1> DEFINE h(U) == CHOOSE g : AddedUp(g, f, U)
  <1>3. ASSUME NEW U \in SUBSET T, U # T PROVE AddedUp(h(U), f, U)
    <2>1. U \notin Bad /\ U \in SUBSET S
      BY <1>2, <1>3
    <2> QED
      BY <2>1
  <1> HIDE DEF h
  <1>4. ASSUME NEW s, s # {} PROVE Chosen(s) \in s
    BY <1>4 DEF Chosen
  <1> DEFINE g == [s \in SUBSET T |->
                    IF s = {} THEN 0 ELSE f[Chosen(s)] + h(s \ {Chosen(s)})[s \ {Chosen(s)}]]
  <1>5. ASSUME NEW s \in SUBSET T, s # T PROVE g[s] = h(s)[s]
    <2>1. AddedUp(h(s), f, s)
      BY <1>3, <1>5
    <2>2. h(s)[s] = IF s = {} THEN 0 ELSE f[Chosen(s)] + h(s)[s \ {Chosen(s)}]
      BY <2>1 DEF AddedUp
    <2>3. CASE s = {}
      BY <2>2, <2>3
    <2>4. CASE s # {}
      <3>1. Chosen(s) \in s
        BY <1>4, <2>4
      <3> DEFINE u == s \ {Chosen(s)}
      <3>2. u \in SUBSET T /\ u # T /\ u \in SUBSET s /\ s \in SUBSET S
        BY <3>1
      <3>3. AddedUp(h(u), f, u)
        BY <1>3, <3>2
      <3>4. h(s)[u] = h(u)[u]
        <4>1. u \in SUBSET S /\ u \in SUBSET (s \cap u)
          BY <3>2
        <4> HIDE DEF u
        <4> QED
          BY <2>1, <3>2, <3>3, <4>1, SumsAgree
      <3> QED
        BY <2>2, <2>4, <3>4
    <2> QED
      BY <2>3, <2>4
  <1>6. AddedUp(g, f, T)
    <2>1. ASSUME NEW s \in SUBSET T, s # {}
          PROVE  h(s \ {Chosen(s)})[s \ {Chosen(s)}] = g[s \ {Chosen(s)}]
      <3>1. Chosen(s) \in s
        BY <1>4, <2>1
      <3> HIDE DEF g
      <3>2. s \ {Chosen(s)} \in SUBSET T /\ s \ {Chosen(s)} # T
        BY <3>1
      <3> QED
        BY <1>5, <3>2
    <2> DEFINE part(s) == IF s = {} THEN 0 ELSE f[Chosen(s)] + g[s \ {Chosen(s)}]
    <2>2. ASSUME NEW s \in SUBSET T PROVE g[s] = part(s)
      <3>1. g[s] = IF s = {} THEN 0 ELSE f[Chosen(s)] + h(s \ {Chosen(s)})[s \ {Chosen(s)}]
        OBVIOUS
      <3> HIDE DEF g
      <3> QED
        BY <2>1, <3>1
    <2>3. g = [s \in SUBSET T |-> g[s]]
      OBVIOUS
    <2>4. g = [s \in SUBSET T |-> part(s)]
      <3> HIDE DEF g, part
      <3> QED
        BY <2>2, <2>3
    <2> HIDE DEF g
    <2> QED
      BY <2>4 DEF AddedUp
  <1> HIDE DEF g
  <1> QED
    BY <1>6

\* SumFunction is such a sum.
LEMMA SumIsASum ==
  ASSUME NEW f, IsFiniteSet(DOMAIN f)
  PROVE  \E g : AddedUp(g, f, DOMAIN f) /\ SumFunction(f) = g[DOMAIN f]
  <1> DEFINE g == CHOOSE h : AddedUp(h, f, DOMAIN f)
  <1>1. AddedUp(g, f, DOMAIN f)
    BY SumsExist
  <1>2. SumFunction(f) = g[DOMAIN f]
    BY DEF Chosen, AddedUp, SumFunction, SumFunctionOnSet, FoldFunctionOnSet, MapThenFoldSet
  <1> HIDE DEF g
  <1> QED
    BY <1>1, <1>2

\* The sum of differences is the difference of the sums.
LEMMA SumOfDifferences ==
  ASSUME NEW S, IsFiniteSet(S),
         NEW a \in [S -> Int], NEW b \in [S -> Int], NEW d \in [S -> Int],
         \A x \in S : d[x] = a[x] - b[x]
  PROVE  SumFunction(d) = SumFunction(a) - SumFunction(b)
  <1>1. PICK A : AddedUp(A, a, S) /\ SumFunction(a) = A[S]
    BY SumIsASum
  <1>2. PICK B : AddedUp(B, b, S) /\ SumFunction(b) = B[S]
    BY SumIsASum
  <1>3. PICK D : AddedUp(D, d, S) /\ SumFunction(d) = D[S]
    BY SumIsASum
  <1> DEFINE Good(s) == A[s] \in Int /\ B[s] \in Int /\ D[s] = A[s] - B[s]
             Bad == {s \in SUBSET S : ~Good(s)}
  <1>4. Bad = {}
    <2> SUFFICES ASSUME Bad # {} PROVE FALSE
      OBVIOUS
    <2>1. Bad \in SUBSET SUBSET S
      OBVIOUS
    <2>2. PICK s \in Bad : \A u \in Bad : u \subseteq s => u = s
      <3> HIDE DEF Bad
      <3> QED
        BY <2>1, Smallest
    <2>3. PICK x : x = Chosen(s)
      OBVIOUS
    <2>4. /\ A[s] = IF s = {} THEN 0 ELSE a[x] + A[s \ {x}]
          /\ B[s] = IF s = {} THEN 0 ELSE b[x] + B[s \ {x}]
          /\ D[s] = IF s = {} THEN 0 ELSE d[x] + D[s \ {x}]
      <3>1. s \in SUBSET S
        OBVIOUS
      <3> HIDE DEF Bad
      <3> QED
        BY <1>1, <1>2, <1>3, <2>3, <3>1, SumOfPart
    <2>5. s # {}
      BY <2>4
    <2>6. x \in s /\ x \in S
      BY <2>3, <2>5 DEF Chosen
    <2>7. Good(s \ {x})
      BY <2>2, <2>6
    <2>8. a[x] \in Int /\ b[x] \in Int /\ d[x] = a[x] - b[x]
      BY <2>6
    <2>9. Good(s)
      BY <2>4, <2>5, <2>7, <2>8
    <2> QED
      BY <2>9
  <1>5. Good(S)
    BY <1>4
  <1> QED
    BY <1>1, <1>2, <1>3, <1>5

-----------------------------------------------------------------------------
(* The two gradings *)

\* A list of grades passes when it has neither a failure nor a warning.
LEMMA WorstIsPass ==
  ASSUME NEW S
  PROVE  /\ Worst(S) = "pass" <=> "fail" \notin S /\ "warning" \notin S
         /\ Worst(S) \in {"pass", "warning", "fail"}
  BY DEF Worst

\* Whatever the rows hold, a project that readiness calls ready has no
\* achieved milestone whose gates (but for time) fail, and no holdback whose
\* gates do not pass.
LEMMA GradesAgree == ReadyMeansGatesAgree
  <1> SUFFICES ASSUME Readiness = "pass", NEW m \in Milestones
               PROVE  /\ row[m].status = "achieved" => "fail" \notin Gates(m) \ TimeGate(m)
                      /\ TypeOf[m] = "holdback_release" => GateStatus(m) = "pass"
    BY DEF ReadyMeansGatesAgree
  <1>1. "fail" \notin Issues /\ "warning" \notin Issues
    BY WorstIsPass DEF Readiness
  <1>2. TypeOf[m] = "holdback_release" => GateStatus(m) = "pass"
    <2>1. TypeOf[m] = "holdback_release" => GateStatus(m) \in Issues
      BY DEF Issues
    <2>2. GateStatus(m) \in {"pass", "warning", "fail"}
      BY WorstIsPass DEF GateStatus
    <2> QED
      BY <1>1, <2>1, <2>2
  <1>3. ASSUME row[m].status = "achieved" PROVE "fail" \notin Gates(m) \ TimeGate(m)
    <2>1. ListGate # "fail"
      BY <1>1 DEF ListGate, Issues, ListIssue
    <2>2. row[m].is_evidence_complete
      BY <1>1 DEF Issues
    <2>3. CASE TypeOf[m] = "holdback_release"
      <3>1. "fail" \notin Gates(m)
        BY <1>2, <2>3, WorstIsPass DEF GateStatus
      <3> QED
        BY <3>1
    <2>4. CASE TypeOf[m] # "holdback_release"
      BY <1>3, <2>1, <2>2, <2>4 DEF Gates
    <2> QED
      BY <2>3, <2>4
  <1> QED
    BY <1>2, <1>3

-----------------------------------------------------------------------------
(* Rows and columns *)

\* An UPDATE keeps the columns of the row, writes into each of them the new
\* value or none, and writes all that differ when the row is as it was loaded.
LEMMA FlushEffect ==
  ASSUME NEW columns, NEW now, Has(now, columns), NEW was, NEW new, NEW always
  PROVE  /\ Has(Flush(now, was, new, always), columns)
         /\ \A c \in columns : Flush(now, was, new, always)[c] \in {new[c], now[c]}
         /\ was = now /\ Has(new, columns) => Flush(now, was, new, always) = new
         /\ was = now => \A c \in columns : Flush(now, was, new, always)[c] = new[c]
  <1>1. DOMAIN now = columns
    BY DEF Has
  <1>2. Flush(now, was, new, always) =
          [c \in columns |-> IF new[c] # was[c] \/ c \in always THEN new[c] ELSE now[c]]
    BY <1>1 DEF Flush
  <1> QED
    BY <1>2 DEF Has

\* A PATCH keeps the columns.
LEMMA PatchedEffect ==
  ASSUME NEW columns, NEW was, Has(was, columns), NEW patch
  PROVE  /\ Has(Patched(was, patch), columns)
         /\ \A c \in columns : c \notin DOMAIN patch => Patched(was, patch)[c] = was[c]
  BY DEF Has, Patched

\* Every row the module speaks of is a row of its own table.
LEMMA Tables ==
  /\ Kept \subseteq Rows
  /\ ColumnsOf(List) = {"total_items", "completed_items", "percent_complete"}
  /\ \A i \in Items : i # List /\ ColumnsOf(i) = {"status", "assignee"}
  /\ \A m \in Milestones :
        m # List /\ m \notin Items /\ ColumnsOf(m) = DOMAIN NewMilestone
  /\ \A k \in Lines :
        k # List /\ k \notin Items \cup Milestones /\ ColumnsOf(k) = DOMAIN NewLine
  /\ \A k \in Punches :
        k # List /\ k \notin Items \cup Milestones \cup Lines
        /\ ColumnsOf(k) = DOMAIN NewPunch
  BY CloseoutAssumption, RefreshesAssumption, DerivedAssumption DEF Kept, ColumnsOf

-----------------------------------------------------------------------------
(* Sessions and rows *)

\* Loading gives a session the rows as they are, and none it had anew.
LEMMA LoadEffect ==
  ASSUME RowTypes, NEW r \in Requests, NEW ks, Load(r, ks)
  PROVE  /\ UNCHANGED <<row, stale>>
         /\ held' = [q \in Requests |-> held'[q]]
         /\ \A q \in Requests : q # r => held'[q] = held[q]
         /\ DOMAIN held'[r] = ks \cup DOMAIN held[r]
         /\ \A k \in DOMAIN held'[r] :
              \/ k \in DOMAIN held[r] /\ held'[r][k] = held[r][k]
              \/ k \in ks /\ row[k] # None /\ held'[r][k] = row[k]
  BY DEF Load, RowTypes

\* The UPDATEs of one commit.
LEMMA WrittenEffect ==
  ASSUME RowTypes, NEW r \in Requests, NEW new, NEW always, Written(r, new, always)
  PROVE  /\ DOMAIN new \subseteq DOMAIN held[r]
         /\ \A k \in Kept :
              /\ k \notin DOMAIN new => row'[k] = row[k]
              /\ k \in DOMAIN new =>
                   /\ row[k] # None /\ Has(row[k], ColumnsOf(k))
                   /\ row'[k] = Flush(row[k], held[r][k], new[k], always)
                   /\ Has(row'[k], ColumnsOf(k))
  <1>1. DOMAIN new \subseteq DOMAIN held[r]
    BY DEF Written
  <1>2. ASSUME NEW k \in Kept
        PROVE  /\ k \notin DOMAIN new => row'[k] = row[k]
               /\ k \in DOMAIN new =>
                    row'[k] = Flush(row[k], held[r][k], new[k], always)
    BY Tables DEF Written
  <1>3. ASSUME NEW k \in DOMAIN new PROVE row[k] # None /\ Has(row[k], ColumnsOf(k))
    BY <1>1 DEF RowTypes
  <1> QED
    BY <1>1, <1>2, <1>3, FlushEffect

\* A commit that ends the request.
LEMMA SaveEffect ==
  ASSUME RowTypes, NEW r \in Requests, NEW new, NEW always, Save(r, new, always)
  PROVE  /\ Written(r, new, always)
         /\ held' = [q \in Requests |-> held'[q]]
         /\ \A q \in Requests : q # r => held'[q] = held[q]
         /\ DOMAIN held'[r] = {}
         /\ stale' = {w \in stale : w[1] # r} \cup Readers(r, DOMAIN new)
  BY DEF Save, Nothing, RowTypes

\* A commit after which the request goes on.
LEMMA CommitEffect ==
  ASSUME RowTypes, NEW r \in Requests, NEW new, NEW always, Commit(r, new, always)
  PROVE  /\ Written(r, new, always)
         /\ held' = [q \in Requests |-> held'[q]]
         /\ \A q \in Requests : q # r => held'[q] = held[q]
         /\ DOMAIN held'[r] = DOMAIN held[r]
         /\ \A k \in DOMAIN held[r] :
              held'[r][k] = IF k \in DOMAIN new THEN row'[k] ELSE held[r][k]
         /\ stale' = {w \in stale : w[1] # r \/ w[2] \notin DOMAIN new}
                        \cup Readers(r, DOMAIN new)
  BY DEF Commit, RowTypes

\* The INSERTs of one commit.
LEMMA InsertEffect ==
  ASSUME RowTypes, NEW new, Insert(new)
  PROVE  /\ UNCHANGED <<held, stale>>
         /\ \A k \in DOMAIN new : row[k] = None
         /\ \A k \in Kept : row'[k] = IF k \in DOMAIN new THEN new[k] ELSE row[k]
  BY Tables DEF Insert

\* A rollback.
LEMMA AbandonEffect ==
  ASSUME RowTypes, NEW r \in Requests, Abandon(r)
  PROVE  /\ UNCHANGED row
         /\ held' = [q \in Requests |-> held'[q]]
         /\ \A q \in Requests : q # r => held'[q] = held[q]
         /\ DOMAIN held'[r] = {}
         /\ stale' = {w \in stale : w[1] # r}
  BY DEF Abandon, Nothing, RowTypes

\* What a step may do to the rows.
RowStep ==
  \/ \E r \in Requests, ks \in SUBSET Kept : Load(r, ks)
  \/ \E r \in Requests : \E new, always : Save(r, new, always)
  \/ \E r \in Requests : \E new, always : Commit(r, new, always)
  \/ \E new : /\ \A k \in DOMAIN new : k \in Kept /\ Has(new[k], ColumnsOf(k))
              /\ Insert(new)
  \/ \E r \in Requests : Abandon(r)
  \/ RowsIdle

\* Rows keep their columns, and a row stays as a session loaded it unless it
\* is marked stale: a commit marks every other session that has loaded what it
\* writes, and a session's own commit loads what it wrote anew.
LEMMA RowStepKeeps ==
  ASSUME NoneIsNoRow, RowTypes, HeldIsCurrent, RowStep
  PROVE  RowTypes' /\ HeldIsCurrent'
  <1> DEFINE Rest ==
        /\ \A k \in Kept : row'[k] = None \/ Has(row'[k], ColumnsOf(k))
        /\ held' = [r \in Requests |-> held'[r]]
        /\ \A r \in Requests : \A k \in DOMAIN held'[r] :
             /\ k \in Kept /\ row'[k] # None /\ Has(held'[r][k], ColumnsOf(k))
             /\ held'[r][k] = row'[k] \/ <<r, k>> \in stale'
  <1> SUFFICES Rest
    BY DEF RowTypes, HeldIsCurrent
  <1>0. /\ \A k \in Kept : row[k] = None \/ Has(row[k], ColumnsOf(k))
        /\ held = [r \in Requests |-> held[r]]
        /\ \A r \in Requests : \A k \in DOMAIN held[r] :
             /\ k \in Kept /\ row[k] # None /\ Has(held[r][k], ColumnsOf(k))
             /\ held[r][k] = row[k] \/ <<r, k>> \in stale
    BY DEF RowTypes, HeldIsCurrent
  <1>1. ASSUME NEW r \in Requests, NEW ks \in SUBSET Kept, Load(r, ks) PROVE Rest
    <2>1. /\ UNCHANGED <<row, stale>> /\ held' = [q \in Requests |-> held'[q]]
          /\ \A q \in Requests : q # r => held'[q] = held[q]
          /\ \A k \in DOMAIN held'[r] :
               \/ k \in DOMAIN held[r] /\ held'[r][k] = held[r][k]
               \/ k \in ks /\ row[k] # None /\ held'[r][k] = row[k]
      BY <1>1, LoadEffect
    <2>2. ASSUME NEW q \in Requests, NEW k \in DOMAIN held'[q]
          PROVE  /\ k \in Kept /\ row'[k] # None /\ Has(held'[q][k], ColumnsOf(k))
                 /\ held'[q][k] = row'[k] \/ <<q, k>> \in stale'
      <3>1. CASE q # r
        BY <1>0, <2>1, <3>1
      <3>2. CASE q = r
        BY <1>0, <2>1, <3>2
      <3> QED
        BY <3>1, <3>2
    <2> QED
      BY <1>0, <2>1, <2>2
  <1>2. ASSUME NEW r \in Requests, NEW new, NEW always, Written(r, new, always)
        PROVE  /\ \A k \in Kept : row'[k] = None \/ Has(row'[k], ColumnsOf(k))
               /\ \A k \in Kept : row[k] # None => row'[k] # None
               /\ \A k \in Kept : k \notin DOMAIN new => row'[k] = row[k]
    <2>1. \A k \in Kept :
            /\ k \notin DOMAIN new => row'[k] = row[k]
            /\ k \in DOMAIN new => Has(row'[k], ColumnsOf(k))
      BY <1>2, WrittenEffect
    <2>2. \A k \in Kept : k \in DOMAIN new => row'[k] # None
      BY <2>1 DEF NoneIsNoRow
    <2> QED
      BY <1>0, <2>1, <2>2
  <1>3. ASSUME NEW r \in Requests, NEW new, NEW always, Written(r, new, always),
               Readers(r, DOMAIN new) \subseteq stale',
               {w \in stale : w[1] # r} \subseteq stale',
               NEW q \in Requests, q # r, held'[q] = held[q], NEW k \in DOMAIN held'[q]
        PROVE  /\ k \in Kept /\ row'[k] # None /\ Has(held'[q][k], ColumnsOf(k))
               /\ held'[q][k] = row'[k] \/ <<q, k>> \in stale'
    <2>1. k \in Kept /\ row[k] # None /\ Has(held[q][k], ColumnsOf(k))
          /\ (held[q][k] = row[k] \/ <<q, k>> \in stale)
      BY <1>0, <1>3
    <2>2. k \in DOMAIN new => <<q, k>> \in Readers(r, DOMAIN new)
      BY <1>3 DEF Readers
    <2>3. <<q, k>> \in stale => <<q, k>> \in {w \in stale : w[1] # r}
      BY <1>3
    <2> QED
      BY <1>2, <1>3, <2>1, <2>2, <2>3
  <1>4. ASSUME NEW r \in Requests, NEW new, NEW always, Save(r, new, always) PROVE Rest
    <2>1. /\ Written(r, new, always) /\ held' = [q \in Requests |-> held'[q]]
          /\ \A q \in Requests : q # r => held'[q] = held[q]
          /\ DOMAIN held'[r] = {}
          /\ stale' = {w \in stale : w[1] # r} \cup Readers(r, DOMAIN new)
      BY <1>4, SaveEffect
    <2>2. ASSUME NEW q \in Requests, NEW k \in DOMAIN held'[q]
          PROVE  /\ k \in Kept /\ row'[k] # None /\ Has(held'[q][k], ColumnsOf(k))
                 /\ held'[q][k] = row'[k] \/ <<q, k>> \in stale'
      <3>1. q # r
        BY <2>1, <2>2
      <3> QED
        BY <1>3, <2>1, <3>1
    <2> QED
      BY <1>2, <2>1, <2>2
  <1>5. ASSUME NEW r \in Requests, NEW new, NEW always, Commit(r, new, always) PROVE Rest
    <2>1. /\ Written(r, new, always) /\ held' = [q \in Requests |-> held'[q]]
          /\ \A q \in Requests : q # r => held'[q] = held[q]
          /\ DOMAIN held'[r] = DOMAIN held[r]
          /\ \A k \in DOMAIN held[r] :
               held'[r][k] = IF k \in DOMAIN new THEN row'[k] ELSE held[r][k]
          /\ stale' = {w \in stale : w[1] # r \/ w[2] \notin DOMAIN new}
                        \cup Readers(r, DOMAIN new)
      BY <1>5, CommitEffect
    <2>2. /\ Readers(r, DOMAIN new) \subseteq stale'
          /\ {w \in stale : w[1] # r} \subseteq stale'
          /\ \A k : <<r, k>> \in stale /\ k \notin DOMAIN new => <<r, k>> \in stale'
      BY <2>1
    <2>3. ASSUME NEW k \in DOMAIN held'[r]
          PROVE  /\ k \in Kept /\ row'[k] # None /\ Has(held'[r][k], ColumnsOf(k))
                 /\ held'[r][k] = row'[k] \/ <<r, k>> \in stale'
      <3>1. k \in Kept /\ row[k] # None /\ Has(held[r][k], ColumnsOf(k))
            /\ (held[r][k] = row[k] \/ <<r, k>> \in stale)
        BY <1>0, <2>1, <2>3
      <3>2. CASE k \in DOMAIN new
        <4>1. row'[k] # None
          BY <1>2, <2>1, <3>1
        <4>2. held'[r][k] = row'[k]
          BY <2>1, <2>3, <3>2
        <4>3. Has(row'[k], ColumnsOf(k))
          BY <1>2, <2>1, <3>1, <4>1
        <4> QED
          BY <3>1, <4>1, <4>2, <4>3
      <3>3. CASE k \notin DOMAIN new
        <4>1. held'[r][k] = held[r][k] /\ row'[k] = row[k]
          BY <1>2, <2>1, <2>3, <3>1, <3>3
        <4> QED
          BY <2>2, <3>1, <3>3, <4>1
      <3> QED
        BY <3>2, <3>3
    <2>4. ASSUME NEW q \in Requests, NEW k \in DOMAIN held'[q]
          PROVE  /\ k \in Kept /\ row'[k] # None /\ Has(held'[q][k], ColumnsOf(k))
                 /\ held'[q][k] = row'[k] \/ <<q, k>> \in stale'
      <3>1. CASE q = r
        BY <2>3, <2>4, <3>1
      <3>2. CASE q # r
        BY <1>3, <2>1, <2>2, <2>4, <3>2
      <3> QED
        BY <3>1, <3>2
    <2> QED
      BY <1>2, <2>1, <2>4
  <1>6. ASSUME NEW new, \A k \in DOMAIN new : k \in Kept /\ Has(new[k], ColumnsOf(k)),
               Insert(new)
        PROVE  Rest
    <2>1. /\ UNCHANGED <<held, stale>>
          /\ \A k \in DOMAIN new : row[k] = None
          /\ \A k \in Kept : row'[k] = IF k \in DOMAIN new THEN new[k] ELSE row[k]
      BY <1>6, InsertEffect
    <2> QED
      BY <1>0, <1>6, <2>1
  <1>7. ASSUME NEW r \in Requests, Abandon(r) PROVE Rest
    <2>1. /\ UNCHANGED row /\ held' = [q \in Requests |-> held'[q]]
          /\ \A q \in Requests : q # r => held'[q] = held[q]
          /\ DOMAIN held'[r] = {}
          /\ stale' = {w \in stale : w[1] # r}
      BY <1>7, AbandonEffect
    <2>2. ASSUME NEW q \in Requests, NEW k \in DOMAIN held'[q]
          PROVE  /\ k \in Kept /\ row'[k] # None /\ Has(held'[q][k], ColumnsOf(k))
                 /\ held'[q][k] = row'[k] \/ <<q, k>> \in stale'
      <3>1. q # r /\ held'[q] = held[q]
        BY <2>1, <2>2
      <3> QED
        BY <1>0, <2>1, <2>2, <3>1
    <2> QED
      BY <1>0, <2>1, <2>2
  <1>8. CASE RowsIdle
    BY <1>0, <1>8 DEF RowsIdle, rowVars
  <1> QED
    BY <1>1, <1>4, <1>5, <1>6, <1>7, <1>8 DEF RowStep

-----------------------------------------------------------------------------
(* Every request goes through the sessions *)

\* The first rows have the columns of their tables.
LEMMA RowsStart == DerivedInit => RowTypes /\ HeldIsCurrent /\ DoingTypes
  <1> SUFFICES ASSUME DerivedInit PROVE RowTypes /\ HeldIsCurrent /\ DoingTypes
    OBVIOUS
  <1> DEFINE first(k) ==
        CASE k \in Milestones -> Patched(NewMilestone, FirstMilestones[k])
          [] k \in Lines -> NewLine
          [] k \in Punches -> NewPunch
          [] OTHER -> None
  <1>1. /\ row = [k \in Rows |-> first(k)]
        /\ held = [r \in Requests |-> Nothing] /\ stale = {}
        /\ doing = [r \in Requests |-> None]
    BY DEF DerivedInit, RowInit, CloseoutInit
  <1>2. ASSUME NEW k \in Kept PROVE row[k] = None \/ Has(row[k], ColumnsOf(k))
    <2>1. row[k] = first(k)
      BY <1>1, Tables
    <2> HIDE DEF first
    <2>2. CASE k \in Milestones
      <3>1. first(k) = Patched(NewMilestone, FirstMilestones[k])
        BY <2>2, Tables DEF first
      <3>2. Has(NewMilestone, DOMAIN NewMilestone)
        BY DEF Has, NewMilestone
      <3> QED
        BY <2>1, <2>2, <3>1, <3>2, PatchedEffect, Tables
    <2>3. CASE k \in Lines
      <3>1. first(k) = NewLine
        BY <2>3, Tables DEF first
      <3>2. Has(NewLine, DOMAIN NewLine)
        BY DEF Has, NewLine
      <3> QED
        BY <2>1, <2>3, <3>1, <3>2, Tables
    <2>4. CASE k \in Punches
      <3>1. first(k) = NewPunch
        BY <2>4, Tables DEF first
      <3>2. Has(NewPunch, DOMAIN NewPunch)
        BY DEF Has, NewPunch
      <3> QED
        BY <2>1, <2>4, <3>1, <3>2, Tables
    <2>5. CASE k \notin Milestones \cup Lines \cup Punches
      <3>1. first(k) = None
        BY <2>5 DEF first
      <3> QED
        BY <2>1, <3>1
    <2> QED
      BY <2>2, <2>3, <2>4, <2>5
  <1>3. \A r \in Requests : DOMAIN held[r] = {}
    BY <1>1 DEF Nothing
  <1> QED
    BY <1>1, <1>2, <1>3 DEF RowTypes, HeldIsCurrent, DoingTypes

\* A checklist's counters as they are made have its columns.
LEMMA CountedIsARow ==
  ASSUME NEW total, NEW done
  PROVE  Has(Counted(total, done), ColumnsOf(List))
  BY Tables DEF Has, Counted

\* Rows are inserted with the columns of their table.
LEMMA InsertsAreRowSteps ==
  FromTemplate \/ PostList \/ (\E i \in Items, st \in ItemStatuses : AddItem(i, st))
    => RowStep
  <1>1. ASSUME FromTemplate PROVE RowStep
    <2>1. PICK chosen \in SUBSET Items :
            Insert([k \in {List} \cup chosen |->
                IF k = List THEN Counted(Cardinality(chosen), 0)
                ELSE [status |-> "not_started", assignee |-> Resolved]])
      BY <1>1 DEF FromTemplate
    <2> DEFINE new == [k \in {List} \cup chosen |->
                IF k = List THEN Counted(Cardinality(chosen), 0)
                ELSE [status |-> "not_started", assignee |-> Resolved]]
    <2>2. ASSUME NEW k \in DOMAIN new PROVE k \in Kept /\ Has(new[k], ColumnsOf(k))
      <3>1. CASE k = List
        BY <3>1, CountedIsARow DEF Kept
      <3>2. CASE k \in Items
        <4>1. Has([status |-> "not_started", assignee |-> Resolved], ColumnsOf(k))
          BY <3>2, Tables DEF Has
        <4> QED
          BY <2>2, <3>2, <4>1, Tables DEF Kept
      <3> QED
        BY <2>2, <3>1, <3>2
    <2> QED
      BY <2>1, <2>2 DEF RowStep
  <1>2. ASSUME PostList PROVE RowStep
    <2>1. PICK p \in Counters : Insert([k \in {List} |-> Patched(Counted(0, 0), p)])
      BY <1>2 DEF PostList
    <2>2. Has(Patched(Counted(0, 0), p), ColumnsOf(List))
      BY CountedIsARow, PatchedEffect
    <2> QED
      BY <2>1, <2>2 DEF RowStep, Kept
  <1>3. ASSUME NEW i \in Items, NEW st \in ItemStatuses, AddItem(i, st) PROVE RowStep
    <2>1. Insert([k \in {i} |-> [status |-> st, assignee |-> None]])
      BY <1>3 DEF AddItem
    <2>2. Has([status |-> st, assignee |-> None], ColumnsOf(i))
      BY Tables DEF Has
    <2> QED
      BY <2>1, <2>2 DEF RowStep, Kept
  <1> QED
    BY <1>1, <1>2, <1>3

\* Every step of the closeout or of the refreshes is one of the sessions.
LEMMA EveryStepIsARowStep == [DerivedNext]_derivedVars => RowStep
  <1> SUFFICES ASSUME [DerivedNext]_derivedVars PROVE RowStep
    OBVIOUS
  <1>1. ASSUME NEW r \in Requests, NEW ks \in SUBSET Kept, Load(r, ks) PROVE RowStep
    BY <1>1 DEF RowStep
  <1>2. ASSUME NEW r \in Requests, NEW new, NEW always, Save(r, new, always)
        PROVE  RowStep
    BY <1>2 DEF RowStep
  <1>3. ASSUME NEW r \in Requests, NEW new, NEW always, Commit(r, new, always)
        PROVE  RowStep
    BY <1>3 DEF RowStep
  <1>4. ASSUME RowsIdle \/ (\E r \in Requests : Abandon(r)) PROVE RowStep
    BY <1>4 DEF RowStep
  <1>5. ASSUME NEW r \in Requests, ReadParent(r) \/ Open(r) PROVE RowStep
    BY <1>1, <1>5 DEF ReadParent, Open, Kept
  <1>6. ASSUME NEW r \in Requests, NEW i \in Items, NEW st \in ItemStatuses,
               ReadItem(r, i, st)
        PROVE  RowStep
    BY <1>1, <1>6 DEF ReadItem, Kept
  <1>7. ASSUME NEW r \in Requests, CommitItem(r) PROVE RowStep
    BY <1>3, <1>7 DEF CommitItem
  <1>8. ASSUME NEW r \in Requests, WriteRollup(r) \/ PatchList(r) PROVE RowStep
    BY <1>2, <1>8 DEF WriteRollup, PatchList
  <1>9. ASSUME NEW r \in Requests, NEW m \in Milestones,
               PatchMilestone(r, m) \/ Evaluate(r, m) \/ Certify(r, m)
        PROVE  RowStep
    BY <1>2, <1>9 DEF PatchMilestone, Evaluate, Certify
  <1>10. ASSUME NEW r \in Requests, Dies(r) \/ Count(r) PROVE RowStep
    BY <1>4, <1>10 DEF Dies, Count
  <1>11. ASSUME NEW r \in Requests, LoadOne(r) \/ LoadAll(r) PROVE RowStep
    BY <1>1, <1>11 DEF LoadOne, LoadAll, Kept
  <1>12. ASSUME NEW r \in Requests, Refresh(r) \/ Edit(r) PROVE RowStep
    BY <1>2, <1>12 DEF Refresh, Edit
  <1>13. ASSUME NEW r \in Requests, RefreshDies(r) PROVE RowStep
    BY <1>4, <1>13 DEF RefreshDies
  <1>14. CASE OthersChange \/ NightFalls \/ UNCHANGED derivedVars
    BY <1>4, <1>14 DEF OthersChange, NightFalls, derivedVars, RowsIdle
  <1> QED
    BY <1>5, <1>6, <1>7, <1>8, <1>9, <1>10, <1>11, <1>12, <1>13, <1>14,
       InsertsAreRowSteps DEF DerivedNext, CloseoutNext, RefreshNext

-----------------------------------------------------------------------------
(* The PATCH of an item *)

\* A request that carries out a PATCH of an item knows which, and its count is
\* a count.
LEMMA DoingStep ==
  ASSUME NoneIsNoRow, DoingTypes, [DerivedNext]_derivedVars
  PROVE  DoingTypes'
  <1> DEFINE fields == {"item", "to", "committed", "count"}
             Good(d) == d # None => /\ Has(d, fields) /\ d.item \in Items
                                    /\ d.count # None => Has(d.count, ColumnsOf(List))
  <1> SUFFICES doing' = [r \in Requests |-> doing'[r]]
               /\ \A q \in Requests : Good(doing'[q])
    BY DEF DoingTypes
  <1>0. doing = [r \in Requests |-> doing[r]] /\ \A q \in Requests : Good(doing[q])
    BY DEF DoingTypes
  <1>1. ASSUME NEW r \in Requests, NEW d, Good(d), doing' = [doing EXCEPT ![r] = d]
        PROVE  doing' = [q \in Requests |-> doing'[q]]
               /\ \A q \in Requests : Good(doing'[q])
    <2> HIDE DEF Good
    <2> QED
      BY <1>0, <1>1
  <1>2. CASE UNCHANGED doing
    BY <1>0, <1>2
  <1>3. ASSUME NEW r \in Requests, NEW i \in Items, NEW st \in ItemStatuses,
               ReadItem(r, i, st)
        PROVE  doing' = [q \in Requests |-> doing'[q]]
               /\ \A q \in Requests : Good(doing'[q])
    <2> DEFINE d == [item |-> i, to |-> st, committed |-> FALSE, count |-> None]
    <2>1. Good(d)
      BY DEF Has
    <2>2. doing' = [doing EXCEPT ![r] = d]
      BY <1>3 DEF ReadItem
    <2> QED
      BY <1>1, <2>1, <2>2
  <1>4. ASSUME NEW r \in Requests, CommitItem(r)
        PROVE  doing' = [q \in Requests |-> doing'[q]]
               /\ \A q \in Requests : Good(doing'[q])
    <2> DEFINE d == [doing[r] EXCEPT !.committed = TRUE]
    <2>1. doing[r] # None /\ doing' = [doing EXCEPT ![r] = d]
      BY <1>0, <1>4 DEF CommitItem
    <2>2. Good(d)
      BY <1>0, <2>1 DEF Has
    <2> QED
      BY <1>1, <2>1, <2>2
  <1>5. ASSUME NEW r \in Requests, Count(r)
        PROVE  doing' = [q \in Requests |-> doing'[q]]
               /\ \A q \in Requests : Good(doing'[q])
    <2> DEFINE d == [doing[r] EXCEPT !.count = Truth]
    <2>1. doing[r] # None /\ doing' = [doing EXCEPT ![r] = d]
      BY <1>0, <1>5 DEF Count
    <2>2. Has(Truth, ColumnsOf(List))
      BY CountedIsARow DEF Truth
    <2>3. Good(d)
      BY <1>0, <2>1, <2>2 DEF Has
    <2> QED
      BY <1>1, <2>1, <2>3
  <1>6. ASSUME NEW r \in Requests, WriteRollup(r) \/ Dies(r)
        PROVE  doing' = [q \in Requests |-> doing'[q]]
               /\ \A q \in Requests : Good(doing'[q])
    <2>1. doing' = [doing EXCEPT ![r] = None]
      BY <1>6 DEF WriteRollup, Dies
    <2> QED
      BY <1>1, <2>1
  <1>7. ASSUME NEW r \in Requests, NEW m \in Milestones,
               PatchMilestone(r, m) \/ Evaluate(r, m) \/ Certify(r, m)
        PROVE  UNCHANGED doing
    BY <1>7 DEF PatchMilestone, Evaluate, Certify, RowsOnly, closeoutVars
  <1>8. ASSUME NEW r \in Requests, ReadParent(r) \/ Open(r) \/ PatchList(r)
        PROVE  UNCHANGED doing
    BY <1>8 DEF ReadParent, Open, PatchList, RowsOnly, closeoutVars
  <1>9. ASSUME \/ \E i \in Items, st \in ItemStatuses : AddItem(i, st)
               \/ FromTemplate \/ PostList \/ OthersChange
        PROVE  UNCHANGED doing
    BY <1>9 DEF AddItem, FromTemplate, PostList, OthersChange, RowsOnly, closeoutVars
  <1>10. ASSUME (RefreshNext /\ UNCHANGED closeoutVars) \/ UNCHANGED derivedVars
         PROVE  UNCHANGED doing
    BY <1>10 DEF derivedVars, closeoutVars
  <1> HIDE DEF Good
  <1> QED
    BY <1>2, <1>3, <1>4, <1>5, <1>6, <1>7, <1>8, <1>9, <1>10
       DEF DerivedNext, CloseoutNext

-----------------------------------------------------------------------------
(* Who knows a percentage *)

\* No session learns of a percentage but by loading the checklist's row.
HeldKept ==
  \A q \in Requests : List \in DOMAIN held'[q] =>
      \/ List \in DOMAIN held[q] /\ held'[q][List] = held[q][List]
      \/ row[List] # None /\ held'[q][List] = row[List]

\* No rollup has a new count.
DoingKept ==
  \A q \in Requests : doing'[q] # None /\ doing'[q].count # None =>
      /\ doing[q] # None /\ doing[q].count # None
      /\ doing'[q].count = doing[q].count

\* Neither the checklist nor an item is written.
Untouched == row'[List] = row[List] /\ \A i \in Items : row'[i] = row[i]

\* The moment of completion is noticed.
Noticed == Present' # {} /\ Done' = Present' => finished'

\* Items that stay as they are complete nothing.
LEMMA SameItems ==
  ASSUME PercentInv, \A i \in Items : row'[i] = row[i], finished => finished'
  PROVE  Noticed
  BY DEF Noticed, PercentInv, Present, Done

\* The invariant from what a step does to those who know a percentage.
LEMMA PercentFrame ==
  ASSUME PercentInv, Noticed, HeldKept, finished => finished', byHand => byHand',
         row'[List] # None => row'[List] = row[List] \/ Earned(row[List])',
         \A q \in Requests : doing'[q] # None /\ doing'[q].count # None =>
            \/ /\ doing[q] # None /\ doing[q].count # None
               /\ doing'[q].count = doing[q].count
            \/ Earned(doing[q].count)'
  PROVE  PercentInv'
  <1>1. Present' # {} /\ Done' = Present' => finished'
    BY DEF Noticed
  <1>2. row'[List] # None => Earned(row[List])'
    BY DEF PercentInv, Earned
  <1>3. ASSUME NEW q \in Requests, List \in DOMAIN held'[q]
        PROVE  Earned(held[q][List])'
    BY <1>3 DEF HeldKept, PercentInv, Earned
  <1>4. ASSUME NEW q \in Requests, doing'[q] # None, doing'[q].count # None
        PROVE  Earned(doing[q].count)'
    BY <1>4 DEF PercentInv, Earned
  <1> QED
    BY <1>1, <1>2, <1>3, <1>4 DEF PercentInv

\* A step that writes neither checklist nor items.
LEMMA PercentSame ==
  ASSUME PercentInv, Untouched, HeldKept, DoingKept, UNCHANGED <<finished, byHand>>
  PROVE  PercentInv'
  <1>1. Noticed
    BY SameItems DEF Untouched
  <1> QED
    BY <1>1, PercentFrame DEF Untouched, DoingKept

\* A request that loads rows.
LEMMA LoadsKnow ==
  ASSUME RowTypes, NEW r \in Requests, NEW ks, Load(r, ks)
  PROVE  HeldKept /\ Untouched
  <1>1. /\ row' = row
        /\ \A q \in Requests : q # r => held'[q] = held[q]
        /\ \A k \in DOMAIN held'[r] :
              \/ k \in DOMAIN held[r] /\ held'[r][k] = held[r][k]
              \/ k \in ks /\ row[k] # None /\ held'[r][k] = row[k]
    BY LoadEffect
  <1> QED
    BY <1>1 DEF HeldKept, Untouched

\* A request that ends with a commit.
LEMMA SavesForget ==
  ASSUME RowTypes, NEW r \in Requests, NEW new, NEW always, Save(r, new, always)
  PROVE  /\ HeldKept
         /\ (\A k \in DOMAIN new : k \notin {List} \cup Items) => Untouched
         /\ \A i \in Items : i \notin DOMAIN new => row'[i] = row[i]
  <1>1. /\ Written(r, new, always)
        /\ \A q \in Requests : q # r => held'[q] = held[q]
        /\ DOMAIN held'[r] = {}
    BY SaveEffect
  <1>2. \A k \in Kept : k \notin DOMAIN new => row'[k] = row[k]
    BY <1>1, WrittenEffect
  <1> QED
    BY <1>1, <1>2 DEF HeldKept, Untouched, Kept

\* A request that ends without.
LEMMA AbandonForgets ==
  ASSUME RowTypes, NEW r \in Requests, Abandon(r)
  PROVE  HeldKept /\ Untouched
  <1>1. /\ row' = row
        /\ \A q \in Requests : q # r => held'[q] = held[q]
        /\ DOMAIN held'[r] = {}
    BY AbandonEffect
  <1> QED
    BY <1>1 DEF HeldKept, Untouched

\* The percentage in a checklist's row after one UPDATE of it is the one
\* written or the one that was there.
LEMMA ListWritten ==
  ASSUME RowTypes, NEW r \in Requests, NEW c, NEW always,
         Save(r, [k \in {List} |-> c], always)
  PROVE  /\ row[List] # None /\ List \in DOMAIN held[r]
         /\ Has(held[r][List], ColumnsOf(List))
         /\ row'[List].percent_complete \in {c.percent_complete, row[List].percent_complete}
         /\ HeldKept /\ \A i \in Items : row'[i] = row[i]
  <1> DEFINE new == [k \in {List} |-> c]
  <1>1. Written(r, new, always) /\ HeldKept
        /\ \A i \in Items : i \notin DOMAIN new => row'[i] = row[i]
    BY SaveEffect, SavesForget
  <1>2. /\ List \in DOMAIN held[r]
        /\ row[List] # None /\ Has(row[List], ColumnsOf(List))
        /\ row'[List] = Flush(row[List], held[r][List], c, always)
    BY <1>1, WrittenEffect DEF Kept
  <1>3. \A x \in ColumnsOf(List) : row'[List][x] \in {c[x], row[List][x]}
    BY <1>2, FlushEffect
  <1>4. row'[List].percent_complete \in {c.percent_complete, row[List].percent_complete}
    BY <1>3, Tables
  <1>5. \A i \in Items : row'[i] = row[i]
    BY <1>1, Tables
  <1>6. Has(held[r][List], ColumnsOf(List))
    BY <1>2 DEF RowTypes
  <1> QED
    BY <1>1, <1>2, <1>4, <1>5, <1>6

-----------------------------------------------------------------------------
(* The percentage under each request *)

\* What FromTemplate and PostList start from.
LEMMA NothingDone ==
  ASSUME NEW n \in Nat
  PROVE  Counted(n, 0).percent_complete = 0
  <1>1. ASSUME n > 0 PROVE Rounded(10000 * 0, n) = 0
    <2>1. 0 \div n = 0 /\ 0 % n = 0
      BY <1>1
    <2> QED
      BY <1>1, <2>1 DEF Rounded
  <1> QED
    BY <1>1 DEF Counted, Percent

\* A checklist from a template starts with nothing done.
LEMMA TemplatePercent ==
  ASSUME ShortList, RowTypes, PercentInv, FromTemplate
  PROVE  PercentInv'
  <1>1. PICK chosen \in SUBSET Items :
          Insert([k \in {List} \cup chosen |->
              IF k = List THEN Counted(Cardinality(chosen), 0)
              ELSE [status |-> "not_started", assignee |-> Resolved]])
    BY DEF FromTemplate
  <1>2. /\ UNCHANGED <<held, doing, finished, byHand>>
        /\ \A k \in {List} \cup chosen : row[k] = None
        /\ row'[List] = Counted(Cardinality(chosen), 0)
        /\ \A i \in Items : row'[i] =
              IF i \in chosen THEN [status |-> "not_started", assignee |-> Resolved]
                              ELSE row[i]
    BY <1>1, InsertEffect, Tables DEF Kept, FromTemplate, RowsOnly, closeoutVars
  <1>3. Cardinality(chosen) \in Nat
    BY FS_Subset, FS_CardinalityType DEF ShortList
  <1>4. Earned(row[List])'
    BY <1>2, <1>3, NothingDone DEF Earned
  <1>5. Noticed
    <2>1. CASE \E i \in chosen : row'[i] # None
      BY <1>2, <2>1 DEF Noticed, Present, Done
    <2>2. CASE \A i \in chosen : row'[i] = None
      <3>1. \A i \in Items : row'[i] = row[i]
        BY <1>2, <2>2
      <3> QED
        BY <1>2, <3>1, SameItems
    <2> QED
      BY <2>1, <2>2
  <1> QED
    BY <1>2, <1>4, <1>5, PercentFrame DEF HeldKept

\* A checklist made by hand has the percentage it was given, or none.
LEMMA PostPercent ==
  ASSUME RowTypes, PercentInv, PostList
  PROVE  PercentInv'
  <1>1. PICK p \in Counters : /\ Insert([k \in {List} |-> Patched(Counted(0, 0), p)])
                              /\ SetsByHand(p)
    BY DEF PostList
  <1>2. /\ UNCHANGED <<held, doing, finished>> /\ (byHand => byHand')
        /\ row'[List] = Patched(Counted(0, 0), p)
        /\ \A i \in Items : row'[i] = row[i]
        /\ ("percent_complete" \in DOMAIN p => byHand')
    <2> DEFINE new == [k \in {List} |-> Patched(Counted(0, 0), p)]
    <2>1. Insert(new) /\ DOMAIN new = {List} /\ new[List] = Patched(Counted(0, 0), p)
      BY <1>1
    <2> HIDE DEF new
    <2>2. /\ held' = held
          /\ row'[List] = new[List]
          /\ \A i \in Items : row'[i] = row[i]
      BY <2>1, InsertEffect, Tables DEF Kept
    <2>3. UNCHANGED <<doing, finished>>
      BY DEF PostList
    <2>4. (byHand => byHand') /\ ("percent_complete" \in DOMAIN p => byHand')
      BY <1>1 DEF SetsByHand
    <2> QED
      BY <2>1, <2>2, <2>3, <2>4
  <1>3. "percent_complete" \notin DOMAIN p => row'[List].percent_complete = 0
    BY <1>2, CountedIsARow, PatchedEffect, NothingDone, Tables
  <1>4. Earned(row[List])'
    BY <1>2, <1>3 DEF Earned
  <1>5. Noticed
    BY <1>2, SameItems
  <1> QED
    BY <1>2, <1>4, <1>5, PercentFrame DEF HeldKept

\* A new item, and one that is patched, are looked at when they are written.
LEMMA ItemPercent ==
  ASSUME RowTypes, DoingTypes, PercentInv,
         \/ \E i \in Items, st \in ItemStatuses : AddItem(i, st)
         \/ \E r \in Requests : CommitItem(r)
  PROVE  PercentInv'
  <1>1. ASSUME Remember PROVE Noticed /\ (finished => finished')
    BY <1>1 DEF Remember, Noticed
  <1>2. ASSUME NEW i \in Items, NEW st \in ItemStatuses, AddItem(i, st)
        PROVE  PercentInv'
    <2>1. /\ UNCHANGED <<held, doing, byHand>> /\ row'[List] = row[List] /\ Remember
      BY <1>2, InsertEffect, Tables DEF Kept, AddItem
    <2> QED
      BY <1>1, <2>1, PercentFrame DEF HeldKept
  <1>3. ASSUME NEW r \in Requests, CommitItem(r) PROVE PercentInv'
    <2> DEFINE i == doing[r].item
               new == [k \in {i} |-> [held[r][k] EXCEPT !.status = doing[r].to]]
    <2>1. /\ doing[r] # None /\ Commit(r, new, {}) /\ Remember /\ UNCHANGED byHand
          /\ doing' = [doing EXCEPT ![r].committed = TRUE]
      BY <1>3 DEF CommitItem
    <2>2. i # List /\ DOMAIN new = {i}
      BY <2>1, Tables DEF DoingTypes
    <2> HIDE DEF new
    <2>3. /\ \A q \in Requests : q # r => held'[q] = held[q]
          /\ DOMAIN held'[r] = DOMAIN held[r]
          /\ \A k \in DOMAIN held[r] : k # i => held'[r][k] = held[r][k]
          /\ \A k \in Kept : k # i => row'[k] = row[k]
      BY <2>1, <2>2, CommitEffect, WrittenEffect
    <2>4. row'[List] = row[List] /\ HeldKept
      BY <2>2, <2>3 DEF HeldKept, Kept
    <2>5. DoingKept
      <3>1. \A q \in Requests : q # r => doing'[q] = doing[q]
        BY <2>1 DEF DoingTypes
      <3>2. doing'[r] = [doing[r] EXCEPT !.committed = TRUE]
        BY <2>1 DEF DoingTypes
      <3>3. doing'[r].count = doing[r].count
        BY <2>1, <3>2 DEF DoingTypes, Has
      <3> QED
        BY <2>1, <3>1, <3>3 DEF DoingKept
    <2> QED
      BY <1>1, <2>1, <2>4, <2>5, PercentFrame DEF DoingKept
  <1> QED
    BY <1>2, <1>3

\* The SELECT of the counts says 100 percent only when all is complete.
LEMMA CountPercent ==
  ASSUME ShortList, RowTypes, DoingTypes, PercentInv, NEW r \in Requests, Count(r)
  PROVE  PercentInv'
  <1>1. /\ doing[r] # None /\ UNCHANGED <<row, held, finished, byHand>>
        /\ doing' = [doing EXCEPT ![r].count = Truth]
    BY DEF Count, RowsIdle, rowVars
  <1>2. \A q \in Requests : q # r => doing'[q] = doing[q]
    BY <1>1 DEF DoingTypes
  <1>3. doing'[r].count = Truth
    <2>1. doing'[r] = [doing[r] EXCEPT !.count = Truth]
      BY <1>1 DEF DoingTypes
    <2> QED
      BY <1>1, <2>1 DEF DoingTypes, Has
  <1>4. Truth.percent_complete >= 10000 => finished
    BY FullMeansComplete DEF PercentInv
  <1>5. Earned(doing[r].count)'
    BY <1>1, <1>3, <1>4 DEF Earned
  <1>6. Noticed
    BY <1>1, SameItems
  <1> QED
    BY <1>1, <1>2, <1>5, <1>6, PercentFrame DEF HeldKept

\* The rollup writes the percentage it counted, or leaves the one it finds.
LEMMA RollupPercent ==
  ASSUME RowTypes, DoingTypes, PercentInv, NEW r \in Requests, WriteRollup(r)
  PROVE  PercentInv'
  <1>1. /\ doing[r] # None /\ doing[r].count # None /\ UNCHANGED <<finished, byHand>>
        /\ Save(r, [k \in {List} |-> doing[r].count],
                Inexact(doing[r].count.percent_complete))
        /\ doing' = [doing EXCEPT ![r] = None]
    BY DEF WriteRollup
  <1>2. /\ row[List] # None /\ HeldKept /\ \A i \in Items : row'[i] = row[i]
        /\ row'[List].percent_complete \in
              {doing[r].count.percent_complete, row[List].percent_complete}
    BY <1>1, ListWritten
  <1>3. Earned(row[List])'
    BY <1>1, <1>2 DEF Earned, PercentInv
  <1>4. DoingKept
    BY <1>1 DEF DoingKept, DoingTypes
  <1>5. Noticed
    BY <1>1, <1>2, SameItems
  <1> QED
    BY <1>1, <1>2, <1>3, <1>4, <1>5, PercentFrame DEF DoingKept

\* A PATCH of the checklist leaves the percentage or sets it by hand.
LEMMA PatchPercent ==
  ASSUME RowTypes, DoingTypes, PercentInv, NEW r \in Requests, PatchList(r)
  PROVE  PercentInv'
  <1>1. PICK p \in Counters :
          /\ Save(r, [k \in {List} |-> Patched(held[r][k], p)],
                  IF "percent_complete" \in DOMAIN p
                  THEN Inexact(p.percent_complete) ELSE {})
          /\ SetsByHand(p)
    BY DEF PatchList
  <1>2. UNCHANGED <<doing, finished>> /\ (byHand => byHand')
        /\ ("percent_complete" \in DOMAIN p => byHand')
    BY <1>1 DEF PatchList, SetsByHand
  <1> DEFINE c == Patched(held[r][List], p)
  <1>3. PICK always : Save(r, [k \in {List} |-> c], always)
    <2>1. [k \in {List} |-> Patched(held[r][k], p)] = [k \in {List} |-> c]
      OBVIOUS
    <2> QED
      BY <1>1, <2>1
  <1> HIDE DEF c
  <1>4. /\ row[List] # None /\ HeldKept /\ \A i \in Items : row'[i] = row[i]
        /\ List \in DOMAIN held[r] /\ Has(held[r][List], ColumnsOf(List))
        /\ row'[List].percent_complete \in
              {c.percent_complete, row[List].percent_complete}
    BY <1>3, ListWritten
  <1>5. "percent_complete" \notin DOMAIN p =>
            c.percent_complete = held[r][List].percent_complete
    BY <1>4, PatchedEffect, Tables DEF c
  <1>6. Earned(row[List])'
    BY <1>2, <1>4, <1>5 DEF Earned, PercentInv
  <1>7. Noticed
    BY <1>2, <1>4, SameItems
  <1> QED
    BY <1>2, <1>4, <1>6, <1>7, PercentFrame

-----------------------------------------------------------------------------
(* The amounts of a line *)

\* Every step treats the lines in one of these ways.
LineStep ==
  \/ \E r \in Requests : \E ks : Load(r, ks)
  \/ \E r \in Requests : \E new, always :
        /\ Save(r, new, always) \/ Commit(r, new, always)
        /\ \A k \in DOMAIN new : k \in Lines => Whole(new[k])
  \/ \E new : Insert(new) /\ \A k \in DOMAIN new : k \notin Lines
  \/ \E r \in Requests : Abandon(r)
  \/ RowsIdle

\* The rollup of a line with whole amounts has whole amounts, and so has a
\* line that was patched.
LEMMA AmountsStayWhole ==
  ASSUME NEW k \in Lines, NEW was, Has(was, ColumnsOf(k)), Whole(was)
  PROVE  /\ \A today : Whole(Recomputed(k, was, today))
         /\ \A e \in Edits : Whole(Patched(was, e))
  <1>1. ColumnsOf(k) = Amounts
    BY Tables DEF NewLine, Amounts
  <1>2. Whole(Rollup(was))
    <2> DEFINE revised == was.original_budget + was.approved_changes
               projected == was.committed_costs + was.direct_costs + was.pending_changes
    <2>1. revised \in Int /\ projected \in Int /\ revised - projected \in Int
      BY DEF Whole, Amounts
    <2>2. Rollup(was) = [was EXCEPT !.revised_budget = revised,
                                    !.projected_cost = projected,
                                    !.over_under = revised - projected]
      BY DEF Rollup
    <2> HIDE DEF revised, projected
    <2> QED
      BY <1>1, <2>1, <2>2 DEF Has, Whole, Amounts
  <1>3. ASSUME NEW e \in Edits PROVE Whole(Patched(was, e))
    BY <1>1, RefreshesAssumption DEF Patched, Has, Whole
  <1> QED
    BY <1>2, <1>3 DEF Recomputed

\* Such a step keeps the amounts whole.
LEMMA LineStepKeeps ==
  ASSUME RowTypes, AmountTypes, LineStep
  PROVE  AmountTypes'
  <1> DEFINE Known(q, k) ==
        k \in DOMAIN held'[q] =>
          \/ k \in DOMAIN held[q] /\ held'[q][k] = held[q][k]
          \/ row[k] # None /\ held'[q][k] = row[k]
          \/ Whole(held'[q][k])
  <1>1. SUFFICES ASSUME NEW k \in Lines
                 PROVE  /\ row'[k] # None => row'[k] = row[k] \/ Whole(row'[k])
                        /\ \A q \in Requests : Known(q, k)
    BY DEF AmountTypes, Whole
  <1>2. k \in Kept /\ ColumnsOf(k) = Amounts
    BY Tables DEF Kept, NewLine, Amounts
  <1>3. ASSUME NEW r \in Requests, NEW ks, Load(r, ks)
        PROVE  row'[k] = row[k] /\ \A q \in Requests : Known(q, k)
    <2>1. /\ row' = row
          /\ \A q \in Requests : q # r => held'[q] = held[q]
          /\ \A j \in DOMAIN held'[r] :
                \/ j \in DOMAIN held[r] /\ held'[r][j] = held[r][j]
                \/ j \in ks /\ row[j] # None /\ held'[r][j] = row[j]
      BY <1>3, LoadEffect
    <2> QED
      BY <2>1
  <1>4. ASSUME NEW r \in Requests, NEW new, NEW always, Written(r, new, always),
               k \in DOMAIN new => Whole(new[k])
        PROVE  IF k \in DOMAIN new THEN Whole(row'[k]) ELSE row'[k] = row[k]
    <2>1. CASE k \notin DOMAIN new
      BY <1>2, <1>4, <2>1, WrittenEffect
    <2>2. CASE k \in DOMAIN new
      <3>1. /\ row[k] # None /\ Has(row[k], Amounts)
            /\ row'[k] = Flush(row[k], held[r][k], new[k], always)
        BY <1>2, <1>4, <2>2, WrittenEffect
      <3>2. \A c \in Amounts : row'[k][c] \in {new[k][c], row[k][c]}
        BY <3>1, FlushEffect
      <3>3. Whole(row[k])
        BY <3>1 DEF AmountTypes
      <3> QED
        BY <1>4, <2>2, <3>2, <3>3 DEF Whole
    <2> QED
      BY <2>1, <2>2
  <1>5. ASSUME NEW r \in Requests, NEW new, NEW always, Save(r, new, always),
               k \in DOMAIN new => Whole(new[k])
        PROVE  /\ row'[k] # None => row'[k] = row[k] \/ Whole(row'[k])
               /\ \A q \in Requests : Known(q, k)
    BY <1>4, <1>5, SaveEffect
  <1>6. ASSUME NEW r \in Requests, NEW new, NEW always, Commit(r, new, always),
               k \in DOMAIN new => Whole(new[k])
        PROVE  /\ row'[k] # None => row'[k] = row[k] \/ Whole(row'[k])
               /\ \A q \in Requests : Known(q, k)
    <2>1. /\ Written(r, new, always)
          /\ \A q \in Requests : q # r => held'[q] = held[q]
          /\ DOMAIN held'[r] = DOMAIN held[r]
          /\ \A j \in DOMAIN held[r] :
               held'[r][j] = IF j \in DOMAIN new THEN row'[j] ELSE held[r][j]
      BY <1>6, CommitEffect
    <2>2. IF k \in DOMAIN new THEN Whole(row'[k]) ELSE row'[k] = row[k]
      BY <1>4, <1>6, <2>1
    <2> QED
      BY <2>1, <2>2
  <1>7. ASSUME NEW new, Insert(new), k \notin DOMAIN new
        PROVE  row'[k] = row[k] /\ \A q \in Requests : Known(q, k)
    BY <1>2, <1>7, InsertEffect
  <1>8. ASSUME NEW r \in Requests, Abandon(r)
        PROVE  row'[k] = row[k] /\ \A q \in Requests : Known(q, k)
    BY <1>8, AbandonEffect
  <1>9. ASSUME RowsIdle
        PROVE  row'[k] = row[k] /\ \A q \in Requests : Known(q, k)
    BY <1>9 DEF RowsIdle, rowVars
  <1> QED
    BY <1>3, <1>5, <1>6, <1>7, <1>8, <1>9 DEF LineStep

\* A step of the closeout or of the refreshes treats the lines so.
LEMMA EveryStepIsALineStep ==
  ASSUME RowTypes, DoingTypes, AmountTypes, [DerivedNext]_derivedVars
  PROVE  LineStep
  <1>1. ASSUME NEW r \in Requests, NEW ks, Load(r, ks) PROVE LineStep
    BY <1>1 DEF LineStep
  <1>2. ASSUME NEW r \in Requests, NEW new, NEW always,
               Save(r, new, always) \/ Commit(r, new, always),
               \A k \in DOMAIN new : k \in Lines => Whole(new[k])
        PROVE  LineStep
    BY <1>2 DEF LineStep
  <1>3. ASSUME RowsIdle \/ (\E r \in Requests : Abandon(r)) PROVE LineStep
    BY <1>3 DEF LineStep
  <1>4. ASSUME NEW new, Insert(new), \A k \in DOMAIN new : k \notin Lines PROVE LineStep
    BY <1>4 DEF LineStep
  <1>5. CASE FromTemplate \/ PostList
    <2>1. CASE FromTemplate
      <3>1. PICK chosen \in SUBSET Items :
              Insert([k \in {List} \cup chosen |->
                  IF k = List THEN Counted(Cardinality(chosen), 0)
                  ELSE [status |-> "not_started", assignee |-> Resolved]])
        BY <2>1 DEF FromTemplate
      <3> QED
        BY <1>4, <3>1, Tables
    <2>2. CASE PostList
      <3>1. PICK p \in Counters : Insert([k \in {List} |-> Patched(Counted(0, 0), p)])
        BY <2>2 DEF PostList
      <3> QED
        BY <1>4, <3>1, Tables
    <2> QED
      BY <1>5, <2>1, <2>2
  <1>6. ASSUME NEW i \in Items, NEW st \in ItemStatuses, AddItem(i, st)
        PROVE  LineStep
    <2>1. \E new : Insert(new) /\ DOMAIN new = {i}
      BY <1>6 DEF AddItem
    <2> QED
      BY <1>4, <2>1, Tables
  <1>7. ASSUME NEW r \in Requests,
               \/ ReadParent(r) \/ Open(r) \/ LoadOne(r) \/ LoadAll(r)
               \/ \E i \in Items, st \in ItemStatuses : ReadItem(r, i, st)
        PROVE  LineStep
    BY <1>1, <1>7 DEF ReadParent, Open, LoadOne, LoadAll, ReadItem
  <1>8. ASSUME NEW r \in Requests, CommitItem(r) PROVE LineStep
    <2>1. \E new : Commit(r, new, {}) /\ DOMAIN new = {doing[r].item}
      BY <1>8 DEF CommitItem
    <2>2. doing[r].item \in Items
      BY <1>8 DEF CommitItem, DoingTypes
    <2> QED
      BY <1>2, <2>1, <2>2, Tables
  <1>9. ASSUME NEW r \in Requests, WriteRollup(r) \/ PatchList(r) PROVE LineStep
    <2>1. \E new, always : Save(r, new, always) /\ DOMAIN new = {List}
      <3>1. CASE WriteRollup(r)
        BY <3>1 DEF WriteRollup
      <3>2. CASE PatchList(r)
        <4>1. PICK p \in Counters :
                \E always : Save(r, [k \in {List} |-> Patched(held[r][k], p)], always)
          BY <3>2 DEF PatchList
        <4> QED
          BY <4>1
      <3> QED
        BY <1>9, <3>1, <3>2
    <2> QED
      BY <1>2, <2>1, Tables
  <1>10. ASSUME NEW r \in Requests, NEW m \in Milestones,
                PatchMilestone(r, m) \/ Evaluate(r, m) \/ Certify(r, m)
         PROVE  LineStep
    <2>1. ASSUME NEW new, Save(r, new, {}), DOMAIN new = {m} PROVE LineStep
      BY <1>2, <2>1, Tables
    <2>2. CASE PatchMilestone(r, m)
      <3>1. PICK p \in Patches : Save(r, [k \in {m} |-> Patched(held[r][k], p)], {})
        BY <2>2 DEF PatchMilestone
      <3> QED
        BY <2>1, <3>1
    <2>3. CASE Evaluate(r, m)
      <3>1. PICK complete \in BOOLEAN :
              Save(r, [k \in {m} |->
                    [held[r][k] EXCEPT !.is_evidence_complete = complete]], {})
        BY <2>3 DEF Evaluate
      <3> QED
        BY <2>1, <3>1
    <2>4. CASE Certify(r, m)
      <3>1. PICK actual \in {None, Today} :
              Save(r, [k \in {m} |-> Certified(held[r][k], actual)], {})
        BY <2>4 DEF Certify
      <3> QED
        BY <2>1, <3>1
    <2> QED
      BY <1>10, <2>2, <2>3, <2>4
  <1>11. ASSUME NEW r \in Requests, Dies(r) \/ Count(r) \/ RefreshDies(r)
         PROVE  LineStep
    BY <1>3, <1>11 DEF Dies, Count, RefreshDies
  <1>12. ASSUME NEW r \in Requests, NEW k \in DOMAIN held[r], k \in Lines
         PROVE  Has(held[r][k], ColumnsOf(k)) /\ Whole(held[r][k])
    BY <1>12 DEF RowTypes, AmountTypes
  <1>13. ASSUME NEW r \in Requests, Refresh(r) PROVE LineStep
    <2> DEFINE now == [k \in DOMAIN held[r] |-> Recomputed(k, held[r][k], day)]
               changed == {k \in DOMAIN now : now[k] # held[r][k]}
               new == [k \in changed |-> now[k]]
    <2>1. Save(r, new, {})
      BY <1>13 DEF Refresh
    <2>2. \A k \in DOMAIN new : k \in Lines => Whole(new[k])
      BY <1>12, AmountsStayWhole
    <2> HIDE DEF new
    <2> QED
      BY <1>2, <2>1, <2>2
  <1>14. ASSUME NEW r \in Requests, Edit(r) PROVE LineStep
    <2>1. PICK k \in DOMAIN held[r], e \in Edits :
            Save(r, [j \in {k} |-> Patched(held[r][k], e)], {})
      BY <1>14 DEF Edit
    <2> DEFINE new == [j \in {k} |-> Patched(held[r][k], e)]
    <2>2. \A j \in DOMAIN new : j \in Lines => Whole(new[j])
      BY <1>12, AmountsStayWhole
    <2> HIDE DEF new
    <2> QED
      BY <1>2, <2>1, <2>2 DEF new
  <1>15. CASE OthersChange \/ NightFalls \/ UNCHANGED derivedVars
    BY <1>3, <1>15 DEF OthersChange, NightFalls, derivedVars, RowsIdle
  <1> QED
    BY <1>5, <1>6, <1>7, <1>8, <1>9, <1>10, <1>11, <1>13, <1>14, <1>15
       DEF DerivedNext, CloseoutNext, RefreshNext

\* The first amounts are whole.
LEMMA AmountsStart == DerivedInit => AmountTypes
  <1> SUFFICES ASSUME DerivedInit, NEW k \in Lines
               PROVE  Whole(row[k]) /\ \A r \in Requests : k \notin DOMAIN held[r]
    BY DEF AmountTypes
  <1>1. k \in Rows /\ k \notin Milestones /\ k \notin Punches
    BY Tables DEF Kept
  <1>2. row[k] = NewLine /\ \A r \in Requests : held[r] = Nothing
    BY <1>1 DEF DerivedInit, RowInit
  <1> QED
    BY <1>2 DEF Nothing, NewLine, Whole, Amounts

-----------------------------------------------------------------------------
(* The invariant and the theorems *)

\* A step of a request that holds lines or punch items only, or of none.
LEMMA RefreshPercent ==
  ASSUME RowTypes, PercentInv, RefreshNext, UNCHANGED closeoutVars
  PROVE  PercentInv'
  <1>1. UNCHANGED <<doing, finished, byHand>> /\ DoingKept
    BY DEF closeoutVars, DoingKept
  <1>2. SUFFICES HeldKept /\ Untouched
    BY <1>1, PercentSame
  <1>3. ASSUME NEW r \in Requests, LoadOne(r) \/ LoadAll(r) PROVE HeldKept /\ Untouched
    <2>1. PICK ks : Load(r, ks)
      BY <1>3 DEF LoadOne, LoadAll
    <2> QED
      BY <2>1, LoadsKnow
  <1>4. ASSUME NEW r \in Requests, Works(r), NEW new, NEW always,
               Save(r, new, always)
        PROVE  HeldKept /\ Untouched
    <2>1. \A k \in DOMAIN new : k \in Lines \cup Punches
      BY <1>4, SaveEffect, WrittenEffect DEF Works
    <2>2. \A k \in DOMAIN new : k \notin {List} \cup Items
      BY <2>1, Tables
    <2> QED
      BY <1>4, <2>2, SavesForget
  <1>5. ASSUME NEW r \in Requests, Refresh(r) PROVE HeldKept /\ Untouched
    <2>1. Works(r) /\ \E new, always : Save(r, new, always)
      BY <1>5 DEF Refresh
    <2> QED
      BY <1>4, <2>1
  <1>6. ASSUME NEW r \in Requests, Edit(r) PROVE HeldKept /\ Untouched
    <2>1. Works(r) /\ \E new, always : Save(r, new, always)
      BY <1>6 DEF Edit
    <2> QED
      BY <1>4, <2>1
  <1>7. ASSUME NEW r \in Requests, RefreshDies(r) PROVE HeldKept /\ Untouched
    BY <1>7, AbandonForgets DEF RefreshDies
  <1>8. ASSUME NightFalls PROVE HeldKept /\ Untouched
    BY <1>8 DEF NightFalls, RowsIdle, rowVars, HeldKept, Untouched
  <1> QED
    BY <1>3, <1>5, <1>6, <1>7, <1>8 DEF RefreshNext

\* A request for a milestone, or one that only loads rows.
LEMMA CalmPercent ==
  ASSUME RowTypes, DoingTypes, PercentInv, NEW r \in Requests,
         \/ ReadParent(r) \/ Open(r) \/ Dies(r)
         \/ \E i \in Items, st \in ItemStatuses : ReadItem(r, i, st)
         \/ \E m \in Milestones :
              PatchMilestone(r, m) \/ Evaluate(r, m) \/ Certify(r, m)
  PROVE  PercentInv'
  <1>1. ASSUME ReadParent(r) \/ Open(r) PROVE PercentInv'
    <2>1. UNCHANGED <<doing, finished, byHand>> /\ \E ks : Load(r, ks)
      BY <1>1 DEF ReadParent, Open, RowsOnly, closeoutVars
    <2> QED
      BY <2>1, LoadsKnow, PercentSame DEF DoingKept
  <1>2. ASSUME NEW i \in Items, NEW st \in ItemStatuses, ReadItem(r, i, st)
        PROVE  PercentInv'
    <2>1. /\ Load(r, {i}) /\ UNCHANGED <<finished, byHand>>
          /\ doing' = [doing EXCEPT ![r] =
                [item |-> i, to |-> st, committed |-> FALSE, count |-> None]]
      BY <1>2 DEF ReadItem
    <2>2. DoingKept
      BY <2>1 DEF DoingKept, DoingTypes
    <2> QED
      BY <2>1, <2>2, LoadsKnow, PercentSame
  <1>3. ASSUME NEW m \in Milestones, PatchMilestone(r, m) \/ Evaluate(r, m) \/ Certify(r, m)
        PROVE  PercentInv'
    <2>1. UNCHANGED <<doing, finished, byHand>>
      BY <1>3 DEF PatchMilestone, Evaluate, Certify, RowsOnly, closeoutVars
    <2>2. ASSUME NEW new, DOMAIN new = {m}, NEW always, Save(r, new, always)
          PROVE  PercentInv'
      <3>1. \A k \in DOMAIN new : k \notin {List} \cup Items
        BY <2>2, Tables
      <3> QED
        BY <2>1, <2>2, <3>1, SavesForget, PercentSame DEF DoingKept
    <2>3. CASE PatchMilestone(r, m)
      <3>1. PICK p \in Patches : Save(r, [k \in {m} |-> Patched(held[r][k], p)], {})
        BY <2>3 DEF PatchMilestone
      <3> QED
        BY <2>2, <3>1
    <2>4. CASE Evaluate(r, m)
      <3>1. PICK complete \in BOOLEAN :
              Save(r, [k \in {m} |->
                    [held[r][k] EXCEPT !.is_evidence_complete = complete]], {})
        BY <2>4 DEF Evaluate
      <3> QED
        BY <2>2, <3>1
    <2>5. CASE Certify(r, m)
      <3>1. PICK actual \in {None, Today} :
              Save(r, [k \in {m} |-> Certified(held[r][k], actual)], {})
        BY <2>5 DEF Certify
      <3> QED
        BY <2>2, <3>1
    <2> QED
      BY <1>3, <2>3, <2>4, <2>5
  <1>4. ASSUME Dies(r) PROVE PercentInv'
    <2>1. /\ Abandon(r) /\ UNCHANGED <<finished, byHand>>
          /\ doing' = [doing EXCEPT ![r] = None]
      BY <1>4 DEF Dies
    <2>2. DoingKept
      BY <2>1 DEF DoingKept, DoingTypes
    <2> QED
      BY <2>1, <2>2, AbandonForgets, PercentSame
  <1> QED
    BY <1>1, <1>2, <1>3, <1>4

\* No step makes a percentage of 100 that was not earned.
LEMMA PercentStep ==
  ASSUME ShortList, RowTypes, DoingTypes, PercentInv, [DerivedNext]_derivedVars
  PROVE  PercentInv'
  <1>1. CASE UNCHANGED derivedVars
    BY <1>1, PercentSame
       DEF derivedVars, rowVars, closeoutVars, HeldKept, DoingKept, Untouched
  <1>2. CASE OthersChange
    BY <1>2, PercentSame
       DEF OthersChange, RowsIdle, rowVars, HeldKept, DoingKept, Untouched
  <1>3. CASE FromTemplate
    BY <1>3, TemplatePercent
  <1>4. CASE PostList
    BY <1>4, PostPercent
  <1>5. CASE \/ \E i \in Items, st \in ItemStatuses : AddItem(i, st)
             \/ \E r \in Requests : CommitItem(r)
    BY <1>5, ItemPercent
  <1>6. ASSUME NEW r \in Requests, Count(r) PROVE PercentInv'
    BY <1>6, CountPercent
  <1>7. ASSUME NEW r \in Requests, WriteRollup(r) PROVE PercentInv'
    BY <1>7, RollupPercent
  <1>8. ASSUME NEW r \in Requests, PatchList(r) PROVE PercentInv'
    BY <1>8, PatchPercent
  <1>9. ASSUME NEW r \in Requests,
               \/ ReadParent(r) \/ Open(r) \/ Dies(r)
               \/ \E i \in Items, st \in ItemStatuses : ReadItem(r, i, st)
               \/ \E m \in Milestones :
                    PatchMilestone(r, m) \/ Evaluate(r, m) \/ Certify(r, m)
        PROVE  PercentInv'
    BY <1>9, CalmPercent
  <1>10. CASE RefreshNext /\ UNCHANGED closeoutVars
    BY <1>10, RefreshPercent
  <1> QED
    BY <1>1, <1>2, <1>3, <1>4, <1>5, <1>6, <1>7, <1>8, <1>9, <1>10
       DEF DerivedNext, CloseoutNext

\* At first there is neither a checklist nor an item.
LEMMA PercentStart == DerivedInit => PercentInv
  <1> SUFFICES ASSUME DerivedInit PROVE PercentInv
    OBVIOUS
  <1>1. /\ held = [r \in Requests |-> Nothing] /\ doing = [r \in Requests |-> None]
    BY DEF DerivedInit, RowInit, CloseoutInit
  <1>2. ASSUME NEW k \in {List} \cup Items PROVE row[k] = None
    <2>1. k \in Rows /\ k \notin Milestones /\ k \notin Lines /\ k \notin Punches
      BY Tables DEF Kept
    <2> QED
      BY <2>1 DEF DerivedInit, RowInit
  <1> QED
    BY <1>1, <1>2 DEF PercentInv, Present, Nothing

\* Rows keep the columns of their tables and lines their whole amounts, no row
\* that was loaded disappears, and whatever a session holds is the row as it is
\* or is marked stale.
THEOREM RowsAreCurrent ==
  ASSUME NoneIsNoRow
  PROVE  DerivedSpec => [](RowTypes /\ HeldIsCurrent /\ DoingTypes /\ AmountTypes)
  <1> DEFINE Inv == RowTypes /\ HeldIsCurrent /\ DoingTypes /\ AmountTypes
  <1>1. DerivedInit => Inv
    BY RowsStart, AmountsStart
  <1>2. Inv /\ [DerivedNext]_derivedVars => Inv'
    BY EveryStepIsARowStep, RowStepKeeps, DoingStep, EveryStepIsALineStep, LineStepKeeps
  <1> QED
    BY <1>1, <1>2, PTL DEF DerivedSpec

\* The inductive invariant: rows and sessions as above, and whoever knows a
\* percentage of 100 got it when every item was complete, or by hand.
THEOREM DerivedInvariance ==
  ASSUME NoneIsNoRow, ShortList
  PROVE  DerivedSpec => []DerivedInv
  <1>1. DerivedInit => DerivedInv
    BY RowsStart, AmountsStart, PercentStart DEF DerivedInv
  <1>2. DerivedInv /\ [DerivedNext]_derivedVars => DerivedInv'
    BY EveryStepIsARowStep, RowStepKeeps, DoingStep, EveryStepIsALineStep,
       LineStepKeeps, PercentStep DEF DerivedInv
  <1> QED
    BY <1>1, <1>2, PTL DEF DerivedSpec

\* However many rollups race and die, on however many items (below 20000), the
\* checklist's gate passes only if every item was complete at some moment, or
\* somebody set the percentage by hand.
THEOREM GateIsEarned ==
  ASSUME NoneIsNoRow, ShortList
  PROVE  DerivedSpec => []GatePassedOnce
  <1>1. DerivedInv => GatePassedOnce
    <2> SUFFICES ASSUME DerivedInv, row[List] # None, ListGate = "pass"
                 PROVE  finished \/ byHand
      BY DEF GatePassedOnce
    <2>1. row[List].percent_complete >= 10000
      BY DEF ListGate
    <2> QED
      BY <2>1 DEF DerivedInv, PercentInv, Earned
  <1> QED
    BY <1>1, DerivedInvariance, PTL

\* In every state a ready project has no achieved milestone with a failing
\* gate other than time, and no holdback whose gates do not pass.
THEOREM GradingsAgree == DerivedSpec => []ReadyMeansGatesAgree
  <1>1. ReadyMeansGatesAgree
    BY GradesAgree
  <1> QED
    BY <1>1, PTL

\* What a commit writes is what the request computed, when nobody else wrote
\* the row since it was loaded.
LEMMA FreshWrite ==
  ASSUME RowTypes, HeldIsCurrent, NEW r \in Requests, NEW new, NEW always,
         Save(r, new, always), NEW k \in DOMAIN new, Has(new[k], ColumnsOf(k)),
         <<r, k>> \notin stale
  PROVE  row'[k] = new[k] /\ held[r][k] = row[k]
  <1>1. k \in DOMAIN held[r] /\ k \in Kept
    BY SaveEffect, WrittenEffect DEF RowTypes
  <1>2. held[r][k] = row[k]
    BY <1>1 DEF HeldIsCurrent
  <1>3. Has(row[k], ColumnsOf(k)) /\ row'[k] = Flush(row[k], held[r][k], new[k], always)
    BY <1>1, SaveEffect, WrittenEffect
  <1> QED
    BY <1>2, <1>3, FlushEffect

\* A rollup whose checklist nobody else wrote leaves the row as it counted.
THEOREM RollupHeals ==
  ASSUME NoneIsNoRow
  PROVE  DerivedSpec => LoneRollupHeals
  <1>1. ASSUME RowTypes, HeldIsCurrent, DoingTypes, NEW r \in Requests,
               WriteRollup(r), <<r, List>> \notin stale
        PROVE  row'[List] = doing[r].count
    <2> DEFINE new == [k \in {List} |-> doing[r].count]
    <2>1. PICK always : Save(r, new, always)
      BY <1>1 DEF WriteRollup
    <2>2. Has(doing[r].count, ColumnsOf(List))
      BY <1>1 DEF WriteRollup, DoingTypes
    <2>3. List \in DOMAIN new /\ new[List] = doing[r].count
      OBVIOUS
    <2> HIDE DEF new
    <2> QED
      BY <1>1, <2>1, <2>2, <2>3, FreshWrite
  <1>2. RowTypes /\ HeldIsCurrent /\ DoingTypes
          => \A r \in Requests : WriteRollup(r) /\ <<r, List>> \notin stale
                => row'[List] = doing[r].count
    BY <1>1
  <1> QED
    BY <1>2, RowsAreCurrent, PTL DEF LoneRollupHeals

\* A certificate that nobody overlapped carries the variance of its own dates
\* and warns exactly when the row it certified lacks its evidence.
THEOREM CertificateIsTrue ==
  ASSUME NoneIsNoRow
  PROVE  DerivedSpec => LoneCertificateIsTrue
  <1> DEFINE True(r, m) ==
        /\ row'[m].variance_days =
             Variance(row'[m].actual_date, row'[m].scheduled_date, row[m].variance_days)
        /\ Warns(r, m) <=> ~row'[m].is_evidence_complete
  <1>1. ASSUME RowTypes, HeldIsCurrent, NEW r \in Requests, NEW m \in Milestones,
               Certify(r, m), <<r, m>> \notin stale
        PROVE  True(r, m)
    <2>1. m \in DOMAIN held[r] /\ m \in Kept
      BY <1>1 DEF Certify, Holds, Kept
    <2>2. PICK actual : Save(r, [k \in {m} |-> Certified(held[r][k], actual)], {})
      BY <1>1 DEF Certify
    <2> DEFINE was == held[r][m]
               new == [k \in {m} |-> Certified(held[r][k], actual)]
    <2>3. Has(was, DOMAIN NewMilestone)
      BY <1>1, <2>1, Tables DEF RowTypes
    <2>4. new[m] = Certified(was, actual) /\ m \in DOMAIN new
      OBVIOUS
    <2>5. DOMAIN NewMilestone = {"status", "is_evidence_complete", "certified_by",
                                 "actual_date", "scheduled_date", "variance_days"}
      BY DEF NewMilestone
    <2>6. /\ Has(Certified(was, actual), DOMAIN NewMilestone)
          /\ Certified(was, actual).scheduled_date = was.scheduled_date
          /\ Certified(was, actual).is_evidence_complete = was.is_evidence_complete
          /\ Certified(was, actual).variance_days =
                Variance(Certified(was, actual).actual_date, was.scheduled_date,
                         was.variance_days)
      BY <2>3, <2>5 DEF Has, Certified
    <2>7. Save(r, new, {})
      BY <2>2
    <2> HIDE DEF new
    <2>8. row'[m] = Certified(was, actual) /\ was = row[m]
      BY <1>1, <2>4, <2>6, <2>7, Tables, FreshWrite
    <2> QED
      BY <2>6, <2>8 DEF Warns
  <1>2. RowTypes /\ HeldIsCurrent
          => \A r \in Requests, m \in Milestones :
                Certify(r, m) /\ <<r, m>> \notin stale => True(r, m)
    BY <1>1
  <1> QED
    BY <1>2, RowsAreCurrent, PTL DEF LoneCertificateIsTrue

\* A computed row has the columns of its table, and computing it again changes
\* nothing.
LEMMA RecomputedTwice ==
  ASSUME NEW k \in Lines \cup Punches, NEW was, Has(was, ColumnsOf(k)), NEW today
  PROVE  /\ Has(Recomputed(k, was, today), ColumnsOf(k))
         /\ Recomputed(k, Recomputed(k, was, today), today) = Recomputed(k, was, today)
  <1>1. CASE k \in Lines
    <2> DEFINE revised == was.original_budget + was.approved_changes
               projected == was.committed_costs + was.direct_costs + was.pending_changes
               now == [was EXCEPT !.revised_budget = revised,
                                  !.projected_cost = projected,
                                  !.over_under = revised - projected]
    <2>1. Has(was, {"original_budget", "approved_changes", "committed_costs",
                    "direct_costs", "pending_changes", "revised_budget",
                    "projected_cost", "over_under"})
      BY <1>1, Tables DEF NewLine
    <2>2. Rollup(was) = now
      BY DEF Rollup
    <2> HIDE DEF revised, projected
    <2>3. /\ Has(now, ColumnsOf(k))
          /\ now.original_budget = was.original_budget
          /\ now.approved_changes = was.approved_changes
          /\ now.committed_costs = was.committed_costs
          /\ now.direct_costs = was.direct_costs
          /\ now.pending_changes = was.pending_changes
          /\ now.revised_budget = revised
          /\ now.projected_cost = projected
          /\ now.over_under = revised - projected
      BY <1>1, <2>1, Tables DEF Has, NewLine
    <2> HIDE DEF now
    <2>4. Rollup(now) = [now EXCEPT !.revised_budget = revised,
                                    !.projected_cost = projected,
                                    !.over_under = revised - projected]
      BY <2>3 DEF Rollup, revised, projected
    <2>5. Rollup(now) = now
      BY <2>3, <2>4 DEF Has
    <2> QED
      BY <1>1, <2>2, <2>3, <2>5 DEF Recomputed
  <1>2. CASE k \in Punches /\ k \notin Lines
    <2> DEFINE now == [was EXCEPT !.days_open = DaysOpen(was, today)]
    <2>1. Has(was, {"status", "created_at", "closed_date", "days_open"})
      BY <1>2, Tables DEF NewPunch
    <2>2. /\ Has(now, ColumnsOf(k))
          /\ now.status = was.status /\ now.created_at = was.created_at
          /\ now.closed_date = was.closed_date
          /\ now.days_open = DaysOpen(was, today)
      BY <1>2, <2>1, Tables DEF Has, NewPunch
    <2> HIDE DEF now
    <2>3. DaysOpen(now, today) = DaysOpen(was, today)
      BY <2>2 DEF DaysOpen
    <2>4. Aged(was, today) = now
      BY DEF Aged, now
    <2>5. Aged(now, today) = now
      BY <2>2, <2>3 DEF Aged, Has
    <2> QED
      BY <1>2, <2>2, <2>4, <2>5 DEF Recomputed
  <1> QED
    BY <1>1, <1>2

\* A refresh whose rows nobody else wrote leaves every one of them computed
\* from its own columns.
LEMMA RefreshRecomputes ==
  ASSUME RowTypes, HeldIsCurrent, NEW r \in Requests, Refresh(r),
         \A k \in DOMAIN held[r] : <<r, k>> \notin stale,
         NEW k \in DOMAIN held[r]
  PROVE  /\ row'[k] = Recomputed(k, row'[k], day)
         /\ row'[k] = Recomputed(k, row[k], day) /\ Has(row[k], ColumnsOf(k))
  <1> DEFINE now == [j \in DOMAIN held[r] |-> Recomputed(j, held[r][j], day)]
             changed == {j \in DOMAIN now : now[j] # held[r][j]}
             new == [j \in changed |-> now[j]]
  <1>1. Works(r) /\ Save(r, new, {})
    BY DEF Refresh
  <1>2. k \in Lines \cup Punches /\ Has(held[r][k], ColumnsOf(k)) /\ k \in Kept
    BY <1>1 DEF Works, RowTypes
  <1>3. now[k] = Recomputed(k, held[r][k], day)
    OBVIOUS
  <1>4. Has(now[k], ColumnsOf(k)) /\ Recomputed(k, now[k], day) = now[k]
    BY <1>2, <1>3, RecomputedTwice
  <1>5. held[r][k] = row[k]
    BY DEF HeldIsCurrent
  <1>6. CASE k \in changed
    <2>1. k \in DOMAIN new /\ new[k] = now[k]
      BY <1>6
    <2> HIDE DEF new, now
    <2>2. row'[k] = now[k]
      BY <1>1, <1>4, <2>1, FreshWrite
    <2> QED
      BY <1>2, <1>3, <1>4, <1>5, <2>2
  <1>7. CASE k \notin changed
    <2>1. k \notin DOMAIN new /\ now[k] = held[r][k]
      BY <1>7
    <2> HIDE DEF new, now
    <2>2. row'[k] = row[k]
      BY <1>1, <1>2, <2>1, SaveEffect, WrittenEffect
    <2> QED
      BY <1>2, <1>3, <1>4, <1>5, <2>1, <2>2
  <1> QED
    BY <1>6, <1>7

\* A line that was computed shows the difference of its other two columns.
LEMMA RollupAddsUp ==
  ASSUME NEW k \in Lines, NEW was, Has(was, ColumnsOf(k)), Whole(was), NEW today
  PROVE  LET line == Recomputed(k, was, today) IN
         /\ Whole(line)
         /\ line.over_under = line.revised_budget - line.projected_cost
  <1> DEFINE revised == was.original_budget + was.approved_changes
             projected == was.committed_costs + was.direct_costs + was.pending_changes
             line == [was EXCEPT !.revised_budget = revised,
                                 !.projected_cost = projected,
                                 !.over_under = revised - projected]
  <1>1. Recomputed(k, was, today) = line
    BY DEF Recomputed, Rollup
  <1>2. Has(was, Amounts)
    BY Tables DEF NewLine, Amounts
  <1> HIDE DEF revised, projected
  <1>3. line.over_under = line.revised_budget - line.projected_cost
    BY <1>2 DEF Has, Amounts
  <1> HIDE DEF line
  <1> QED
    BY <1>1, <1>3, AmountsStayWhole

\* A refresh whose rows nobody else wrote leaves every one of them computed
\* from its own columns; and when they were the lines of the project, however
\* many, the totals of the budget page agree with each other.
THEOREM RefreshAddsUp ==
  ASSUME NoneIsNoRow
  PROVE  DerivedSpec => LoneRefreshAddsUp
  <1> DEFINE Fresh(r) == \A k \in DOMAIN held[r] : <<r, k>> \notin stale
             AddsUp(r) ==
               /\ \A k \in DOMAIN held[r] : row'[k] = Recomputed(k, row'[k], day)
               /\ DOMAIN held[r] = Lines =>
                    Total("over_under")'
                      = Total("revised_budget")' - Total("projected_cost")'
             Inv == RowTypes /\ HeldIsCurrent /\ AmountTypes
  <1>1. ASSUME Inv, NEW r \in Requests, Refresh(r), Fresh(r) PROVE AddsUp(r)
    <2>1. ASSUME NEW k \in DOMAIN held[r]
          PROVE  /\ row'[k] = Recomputed(k, row'[k], day)
                 /\ row'[k] = Recomputed(k, row[k], day) /\ Has(row[k], ColumnsOf(k))
      BY <1>1, <2>1, RefreshRecomputes
    <2>2. ASSUME DOMAIN held[r] = Lines
          PROVE  Total("over_under")'
                   = Total("revised_budget")' - Total("projected_cost")'
      <3>1. ASSUME NEW k \in Lines
            PROVE  /\ Whole(row'[k])
                   /\ row'[k].over_under = row'[k].revised_budget - row'[k].projected_cost
        <4>1. Whole(row[k])
          BY <1>1, <2>2, <3>1 DEF RowTypes, AmountTypes
        <4> QED
          BY <2>1, <2>2, <4>1, RollupAddsUp
      <3> DEFINE d == [k \in Lines |-> row'[k]["over_under"]]
                 a == [k \in Lines |-> row'[k]["revised_budget"]]
                 b == [k \in Lines |-> row'[k]["projected_cost"]]
      <3>2. a \in [Lines -> Int] /\ b \in [Lines -> Int] /\ d \in [Lines -> Int]
        BY <3>1 DEF Whole, Amounts
      <3>3. \A k \in Lines : d[k] = a[k] - b[k]
        BY <3>1
      <3>4. /\ Total("over_under")' = SumFunction(d)
            /\ Total("revised_budget")' = SumFunction(a)
            /\ Total("projected_cost")' = SumFunction(b)
        BY DEF Total
      <3> HIDE DEF a, b, d
      <3> QED
        BY <3>2, <3>3, <3>4, SumOfDifferences, RefreshesAssumption
    <2> QED
      BY <2>1, <2>2
  <1>2. Inv => \A r \in Requests : Refresh(r) /\ Fresh(r) => AddsUp(r)
    BY <1>1
  <1> QED
    BY <1>2, RowsAreCurrent, PTL DEF LoneRefreshAddsUp
=============================================================================
