-------------------------- MODULE AlertJobsProofs --------------------------
(***************************************************************************)
(* Theorems about AlertJobs, for any runs, subjects, users and days.       *)
(***************************************************************************)
EXTENDS AlertJobs, TLAPS

Txns == [left : SUBSET Subjects, at : Subjects \cup {None},
         missing : SUBSET (Users \X Keys), day : Nat,
         seen : [Subjects -> Statuses], value : [Subjects -> Nat],
         written : SUBSET (Subjects \X Statuses),
         inserts : SUBSET (Users \X Keys), keep : SUBSET Keys]

Types ==
    /\ stage \in [Runs -> {"outside", "entered", "working", "recording", "over"}]
    /\ exposed \subseteq Runs /\ clashed \subseteq Runs
    /\ today \in Nat
    /\ measure \in [Subjects -> Nat]
    /\ status \in [Subjects -> Statuses]
    /\ members \subseteq Users
    /\ alert \in [Users \X Keys -> {"none", "unread", "read"}]
    /\ txn \in [Runs -> Txns]
    /\ refresh \in {None} \cup (Subjects \X Statuses)

\* The runner's promise.
Exclusive ==
    exposed = {} =>
        \A q, r \in Runs :
            stage[q] \in Inside /\ stage[r] \in Inside /\ LockOf[q] = LockOf[r]
                => q = r

\* The run has looked at s.
Visited(r, s) == s \in Watched(r) /\ (s \notin txn[r].left \/ s = txn[r].at)

NewStatus(r, s) == JobStatus(s, txn[r].value[s], txn[r].seen[s], txn[r].day)

\* What a transaction holds follows from what its run has visited: at most one
\* tier of each subject to keep, and every status that is to change.
OwnTxn(r) ==
    /\ stage[r] # "working" => txn[r] = NoTxn
    /\ txn[r].at # None => txn[r].at \in txn[r].left
    /\ txn[r].left \subseteq Watched(r)
    /\ \A k \in txn[r].keep :
        /\ Visited(r, k[1])
        /\ Dated(k[1]) =>
             k[2] \in TiersOf(k[1], txn[r].value[k[1]], txn[r].day)
    /\ \A k1, k2 \in txn[r].keep : k1[1] = k2[1] => k1 = k2
    /\ \A a \in txn[r].missing \cup txn[r].inserts : a[2] \in txn[r].keep
    /\ \A w \in txn[r].written : Visited(r, w[1]) /\ w[2] = NewStatus(r, w[1])
    /\ stage[r] = "working" =>
        \A s \in Subjects :
            Visited(r, s) /\ NewStatus(r, s) # txn[r].seen[s]
                => <<s, NewStatus(r, s)>> \in txn[r].written

\* Nobody else opened what the run is about to insert.
StillMissing(r) ==
    exposed = {} =>
        \A a \in txn[r].missing \cup txn[r].inserts : alert[a] = "none"

IInv ==
    /\ Types
    /\ Exclusive
    /\ \A r \in Runs : OwnTxn(r) /\ StillMissing(r)
    /\ ClashesOnlyWithoutLock
    /\ OneTierPerUser
-----------------------------------------------------------------------------
\* A subject has at most one tier, whatever its dates and counts are.
LEMMA OneTier ==
    ASSUME NEW s \in Subjects, NEW value \in Nat, NEW day \in Nat
    PROVE  /\ TiersOf(s, value, day) \subseteq Tiers
           /\ \A t1, t2 \in TiersOf(s, value, day) : t1 = t2
  <1>1. CASE JobFor[s] = "warranty_refresh"
    BY <1>1 DEF TiersOf, WarrantyTiers, Between, Tiers
  <1>2. CASE JobFor[s] = "insurance_refresh"
    BY <1>2 DEF TiersOf, InsuranceTiers, Between, Tiers
  <1>3. CASE JobFor[s] = "schedule_snapshot"
    BY <1>3 DEF TiersOf, DriftTiers, Between, Tiers
  <1>4. CASE JobFor[s] \notin {"warranty_refresh", "insurance_refresh",
                              "schedule_snapshot"}
    BY <1>4 DEF TiersOf, AgingTiers, Tiers
  <1>5. QED
    BY <1>1, <1>2, <1>3, <1>4

\* The job writes a status, and changes none of a subject without a date.
LEMMA StatusIsOne ==
    ASSUME NEW s \in Subjects, NEW value, NEW old \in Statuses, NEW day
    PROVE  /\ JobStatus(s, value, old, day) \in Statuses
           /\ ~Dated(s) => JobStatus(s, value, old, day) = old
  BY DEF JobStatus, Statuses

\* The alert "expired" and the status "expired" are one condition.
LEMMA TierMatchesStatus ==
    ASSUME NEW s \in Subjects, Dated(s), NEW value \in Nat, NEW day \in Nat,
           NEW old, old # "claimed"
    PROVE  \A t \in TiersOf(s, value, day) :
              t = "expired" <=> JobStatus(s, value, old, day) = "expired"
  <1>1. CASE JobFor[s] = "warranty_refresh"
    BY <1>1 DEF TiersOf, WarrantyTiers, Between, JobStatus, Dated
  <1>2. CASE JobFor[s] = "insurance_refresh"
    BY <1>2 DEF TiersOf, InsuranceTiers, Between, JobStatus, Dated
  <1>3. QED
    BY <1>1, <1>2 DEF Dated

\* The two status rules differ on the day of expiry only.
LEMMA RulesDiffer ==
    ASSUME NEW s \in Subjects, JobFor[s] = "warranty_refresh",
           NEW value \in Nat, NEW day \in Nat, day # value, NEW old
    PROVE  JobStatus(s, value, old, day) = ServiceStatus(value, old, day)
  BY DEF JobStatus, ServiceStatus, Dated
-----------------------------------------------------------------------------
\* With no run begun the invariant holds.
LEMMA InitEstablishes == AlertInit => IInv
<1> SUFFICES ASSUME AlertInit PROVE IInv
  OBVIOUS
<1> USE DEF AlertInit, LockInit
<1>1. Types
  <2>1. NoTxn \in Txns
    BY DEF NoTxn, Txns, Statuses
  <2>2. QED
    BY <2>1, AlertJobsAssumption DEF Types, Statuses
<1>2. Exclusive
  BY DEF Exclusive, Inside
<1>3. ASSUME NEW r \in Runs PROVE OwnTxn(r) /\ StillMissing(r)
  BY DEF OwnTxn, StillMissing, NoTxn
<1>4. ClashesOnlyWithoutLock /\ OneTierPerUser
  BY DEF ClashesOnlyWithoutLock, OneTierPerUser, Keys
<1>5. QED
  BY <1>1, <1>2, <1>3, <1>4 DEF IInv

\* What a run finds out of a subject is well formed.
LEMMA FindingTyped ==
    ASSUME NEW r \in Runs, Types, NEW s \in Subjects
    PROVE  /\ ValueFor(r, s) \in Nat /\ txn[r].day \in Nat
           /\ StatusFor(r, s) \in Statuses
           /\ KeysFor(r, s) \subseteq Keys
           /\ \A k \in KeysFor(r, s) : k[1] = s
           /\ \A k1, k2 \in KeysFor(r, s) : k1 = k2
           /\ Recipients(s) \subseteq Users
<1>1. txn[r] \in Txns
  BY DEF Types
<1>2. /\ ValueFor(r, s) \in Nat /\ txn[r].day \in Nat
      /\ txn[r].seen[s] \in Statuses
  BY <1>1 DEF Types, Txns, ValueFor
<1>3. StatusFor(r, s) \in Statuses
  BY <1>2, StatusIsOne DEF StatusFor
<1>4. /\ TiersOf(s, ValueFor(r, s), txn[r].day) \subseteq Tiers
      /\ \A t1, t2 \in TiersOf(s, ValueFor(r, s), txn[r].day) : t1 = t2
  BY <1>2, OneTier
<1>5. /\ KeysFor(r, s) \subseteq Keys
      /\ \A k \in KeysFor(r, s) : k[1] = s
      /\ \A k1, k2 \in KeysFor(r, s) : k1 = k2
  BY <1>4 DEF KeysFor, Keys
<1>6. Recipients(s) \subseteq Users
  BY AlertJobsAssumption DEF Recipients, Types
<1>7. QED
  BY <1>2, <1>3, <1>5, <1>6

\* Looking at a subject leaves a well-typed transaction.
LEMMA LookedAtTyped ==
    ASSUME NEW r \in Runs, Types, NEW s \in Subjects
    PROVE  LookedAt(r, s) \in Txns
<1>1. txn[r] \in Txns
  BY DEF Types
<1>2. {<<s, StatusFor(r, s)>>} \ {<<s, txn[r].seen[s]>>}
        \subseteq Subjects \X Statuses
  BY FindingTyped
<1>3. (IF Recipients(s) = {} THEN {} ELSE KeysFor(r, s)) \subseteq Keys
  BY FindingTyped
<1>4. {a \in Recipients(s) \X KeysFor(r, s) : alert[a] = "none"}
        \subseteq Users \X Keys
  BY FindingTyped
<1>5. QED
  BY <1>1, <1>2, <1>3, <1>4 DEF LookedAt, Txns
-----------------------------------------------------------------------------
\* A transaction that has done nothing is well typed.
LEMMA NoTxnTyped == NoTxn \in Txns
  BY DEF NoTxn, Txns, Statuses

\* The stages the steps of a run lead through.
LEMMA StageSteps ==
    ASSUME Types, NEW r \in Runs, JobNext(r)
    PROVE  /\ stage' \in [Runs -> {"outside", "entered", "working",
                                     "recording", "over"}]
           /\ exposed' \subseteq Runs /\ exposed \subseteq exposed'
           /\ \A q \in Runs \ {r} : stage'[q] = stage[q]
<1> USE DEF Types, Move, Quit, EndWork
<1>1. CASE JobBegins(r)
  BY <1>1 DEF JobBegins, BeginWork
<1>2. CASE Look(r) \/ Raise(r)
  BY <1>2 DEF Look, Raise
<1>3. CASE Clash(r)
  BY <1>3 DEF Clash
<1>4. CASE JobCommits(r)
  BY <1>4 DEF JobCommits
<1>5. CASE JobRollsBack(r)
  BY <1>5 DEF JobRollsBack
<1>6. CASE RunnerMoves(r)
  BY <1>6 DEF RunnerMoves, Enter, NeverWork, Expose
<1>7. QED
  BY <1>1, <1>2, <1>3, <1>4, <1>5, <1>6 DEF JobNext

\* A step of a job keeps the types.
LEMMA RunKeepsTypes ==
    ASSUME Types, NEW r \in Runs, OwnTxn(r), JobNext(r)
    PROVE  Types'
<1>1. /\ stage' \in [Runs -> {"outside", "entered", "working", "recording", "over"}]
      /\ exposed' \subseteq Runs
  BY StageSteps
<1>2. UsersIdle
  BY DEF JobNext, JobBegins, Look, Raise, Clash, JobCommits, JobRollsBack,
         RunnerMoves
<1>3. clashed' \subseteq Runs
  BY DEF Types, JobNext, JobBegins, Look, Raise, Clash, JobCommits, JobRollsBack,
         RunnerMoves
<1>4. txn[r] \in Txns
  BY DEF Types
<1>5. txn' \in [Runs -> Txns]
  <2>1. CASE JobBegins(r)
    <3>1. [NoTxn EXCEPT !.left = Watched(r), !.day = today, !.seen = status,
                        !.value = measure] \in Txns
      BY NoTxnTyped DEF Types, Txns, Watched, NoTxn
    <3>2. QED
      BY <2>1, <3>1 DEF JobBegins, Types
  <2>2. CASE Look(r)
    <3>1. PICK s \in txn[r].left : txn' = [txn EXCEPT ![r] = LookedAt(r, s)]
      BY <2>2 DEF Look
    <3>2. s \in Subjects
      BY <1>4 DEF Txns
    <3>3. QED
      BY <3>1, <3>2, LookedAtTyped DEF Types
  <2>3. CASE Raise(r)
    <3>1. [txn[r] EXCEPT !.at = None, !.missing = {}, !.left = @ \ {txn[r].at},
                         !.inserts = @ \cup txn[r].missing] \in Txns
      BY <1>4 DEF Txns
    <3>2. txn' = [txn EXCEPT ![r] = [txn[r] EXCEPT
                    !.at = None, !.missing = {}, !.left = @ \ {txn[r].at},
                    !.inserts = @ \cup txn[r].missing]]
      BY <2>3 DEF Raise, Types, Txns
    <3>3. QED
      BY <3>1, <3>2 DEF Types
  <2>4. CASE Clash(r) \/ JobCommits(r) \/ JobRollsBack(r)
    BY <2>4, NoTxnTyped DEF Clash, JobCommits, JobRollsBack, Types
  <2>5. CASE RunnerMoves(r)
    BY <2>5 DEF RunnerMoves, Types
  <2>6. QED
    BY <2>1, <2>2, <2>3, <2>4, <2>5 DEF JobNext
<1>6. status' \in [Subjects -> Statuses]
      /\ alert' \in [Users \X Keys -> {"none", "unread", "read"}]
  <2>1. CASE JobCommits(r)
    <3>1. ASSUME NEW s \in Subjects PROVE StatusWritten(r, s) \in Statuses
      BY <1>4 DEF StatusWritten, Types, Txns
    <3>2. QED
      BY <2>1, <3>1 DEF JobCommits, Types
  <2>2. CASE ~JobCommits(r)
    BY <2>2 DEF Types, JobNext, JobBegins, Look, Raise, Clash, JobRollsBack,
                RunnerMoves
  <2>3. QED
    BY <2>1, <2>2
<1>7. QED
  BY <1>1, <1>2, <1>3, <1>5, <1>6 DEF Types, UsersIdle

\* A step of a user keeps the types.
LEMMA UsersKeepTypes ==
    ASSUME Types, UserNext
    PROVE  Types'
<1> USE AlertJobsAssumption DEF Types, Act, RunsIdle
<1>1. ASSUME NEW a \in Users \X Keys, MarkRead(a) \/ Dismiss(a) PROVE Types'
  BY <1>1 DEF MarkRead, Dismiss
<1>2. ASSUME NEW u \in Users, MarkAllRead(u) PROVE Types'
  BY <1>2 DEF MarkAllRead
<1>3. ASSUME NEW u \in Users, MembershipChanges(u) PROVE Types'
  BY <1>3 DEF MembershipChanges
<1>4. ASSUME NEW s \in Subjects, RefreshReads(s) PROVE Types'
  <2>1. ServiceStatus(measure[s], status[s], today) \in Statuses
    BY DEF ServiceStatus, Statuses
  <2>2. QED
    BY <1>4, <2>1 DEF RefreshReads
<1>5. ASSUME NEW s \in Subjects, NEW st \in Statuses, NEW m \in Measures,
             Edit(s, st, m)
      PROVE Types'
  BY <1>5 DEF Edit
<1>6. CASE RefreshWrites
  BY <1>6 DEF RefreshWrites
<1>7. CASE DayPasses
  BY <1>7 DEF DayPasses
<1>8. QED
  BY <1>1, <1>2, <1>3, <1>4, <1>5, <1>6, <1>7 DEF UserNext
-----------------------------------------------------------------------------
\* A run enters only when the lock is free.
LEMMA RunKeepsExclusive ==
    ASSUME Types, Exclusive, NEW r \in Runs, JobNext(r)
    PROVE  Exclusive'
<1>1. CASE RunnerMoves(r) /\ Enter(r)
  BY <1>1 DEF Enter, Move, Exclusive, Types, Inside
<1>2. CASE ~(RunnerMoves(r) /\ Enter(r))
  <2>1. /\ stage'[r] \in Inside => stage[r] \in Inside
        /\ \A q \in Runs \ {r} : stage'[q] = stage[q]
        /\ exposed \subseteq exposed'
    <3> USE DEF Types, Move, Quit, EndWork, Inside
    <3>1. CASE JobBegins(r)
      BY <3>1 DEF JobBegins, BeginWork
    <3>2. CASE Look(r) \/ Raise(r)
      BY <3>2 DEF Look, Raise
    <3>3. CASE Clash(r) \/ JobCommits(r) \/ JobRollsBack(r)
      BY <3>3 DEF Clash, JobCommits, JobRollsBack
    <3>4. CASE RunnerMoves(r)
      BY <1>2, <3>4 DEF RunnerMoves, NeverWork, Expose
    <3>5. QED
      BY <3>1, <3>2, <3>3, <3>4 DEF JobNext
  <2>2. QED
    BY <2>1 DEF Exclusive
<1>3. QED
  BY <1>1, <1>2

-----------------------------------------------------------------------------
\* A step of another run or of a user leaves what a run knows alone.
LEMMA OthersKeepOwn ==
    ASSUME Types, NEW q \in Runs, OwnTxn(q),
           stage'[q] = stage[q], txn'[q] = txn[q]
    PROVE  OwnTxn(q)'
  BY DEF OwnTxn, Visited, NewStatus

\* A run that does nothing in its job has an empty transaction.
LEMMA NoTxnIsOwn ==
    ASSUME NEW r \in Runs, txn'[r] = NoTxn, stage'[r] # "working"
    PROVE  OwnTxn(r)'
  BY DEF OwnTxn, NoTxn

\* For a subject without a date the job has nothing to write.
LEMMA FindingIsNew ==
    ASSUME Types, NEW r \in Runs, NEW s \in Subjects
    PROVE  /\ StatusFor(r, s) = NewStatus(r, s)
           /\ Dated(s) => ValueFor(r, s) = txn[r].value[s]
<1>1. CASE Dated(s)
  BY <1>1 DEF StatusFor, NewStatus, ValueFor
<1>2. CASE ~Dated(s)
  BY <1>2 DEF StatusFor, NewStatus, JobStatus
<1>3. QED
  BY <1>1, <1>2

\* A step of a run keeps what its transaction says of it.
LEMMA RunKeepsOwn ==
    ASSUME Types, Types', NEW r \in Runs, OwnTxn(r), JobNext(r)
    PROVE  OwnTxn(r)'
<1>1. txn[r] \in Txns
  BY DEF Types
<1>2. CASE JobBegins(r)
  <2>1. /\ txn'[r].at = None /\ txn'[r].left = Watched(r)
        /\ txn'[r].missing = {} /\ txn'[r].inserts = {}
        /\ txn'[r].written = {} /\ txn'[r].keep = {}
        /\ stage'[r] = "working"
    BY <1>2 DEF JobBegins, BeginWork, Move, Types, NoTxn
  <2>2. QED
    BY <2>1, AlertJobsAssumption DEF OwnTxn, Visited, Watched
<1>3. CASE Look(r)
  <2>1. PICK s \in txn[r].left : txn' = [txn EXCEPT ![r] = LookedAt(r, s)]
    BY <1>3 DEF Look
  <2>2. s \in Watched(r) /\ s \in Subjects /\ txn[r].at = None
    BY <1>3 DEF OwnTxn, Watched, Look
  <2> DEFINE found == IF Recipients(s) = {} THEN {} ELSE KeysFor(r, s)
  <2>3. /\ txn'[r].at = s /\ txn'[r].left = txn[r].left
        /\ txn'[r].seen = txn[r].seen /\ txn'[r].value = txn[r].value
        /\ txn'[r].day = txn[r].day /\ txn'[r].inserts = txn[r].inserts
        /\ txn'[r].keep = txn[r].keep \cup found
        /\ txn'[r].written = txn[r].written
                \cup ({<<s, StatusFor(r, s)>>} \ {<<s, txn[r].seen[s]>>})
        /\ txn'[r].missing = {a \in Recipients(s) \X KeysFor(r, s) :
                                alert[a] = "none"}
        /\ stage'[r] = "working"
    BY <1>1, <1>3, <2>1 DEF Look, LookedAt, Types, Txns
  <2>4. /\ \A k \in found : k[1] = s /\ k[2] \in TiersOf(s, ValueFor(r, s), txn[r].day)
        /\ \A k1, k2 \in found : k1 = k2
    BY <2>2, FindingTyped DEF KeysFor
  <2>5. \A q \in Subjects : Visited(r, q)' <=> Visited(r, q) \/ q = s
    BY <2>2, <2>3, AlertJobsAssumption DEF Visited, Watched
  <2>6. ~Visited(r, s)
    BY <2>2, AlertJobsAssumption DEF Visited
  <2>7. \A q \in Subjects : NewStatus(r, q)' = NewStatus(r, q)
    BY <2>3 DEF NewStatus
  <2>8. \A k \in txn'[r].keep :
            /\ Visited(r, k[1])'
            /\ Dated(k[1]) =>
                  k[2] \in TiersOf(k[1], txn'[r].value[k[1]], txn'[r].day)
    BY <1>1, <2>2, <2>3, <2>4, <2>5, FindingIsNew DEF OwnTxn, Txns, Keys
  <2>9. \A k1, k2 \in txn'[r].keep : k1[1] = k2[1] => k1 = k2
    BY <2>3, <2>4, <2>6 DEF OwnTxn
  <2>10. \A a \in txn'[r].missing \cup txn'[r].inserts : a[2] \in txn'[r].keep
    BY <2>3 DEF OwnTxn
  <2>11. \A w \in txn'[r].written :
            Visited(r, w[1])' /\ w[2] = NewStatus(r, w[1])'
    BY <1>1, <2>2, <2>3, <2>5, <2>7, FindingIsNew DEF OwnTxn, Txns
  <2>12. \A q \in Subjects :
            Visited(r, q)' /\ NewStatus(r, q)' # txn'[r].seen[q]
                => <<q, NewStatus(r, q)'>> \in txn'[r].written
    BY <1>3, <2>2, <2>3, <2>5, <2>7, FindingIsNew DEF OwnTxn, Look
  <2>13. QED
    BY <2>2, <2>3, <2>8, <2>9, <2>10, <2>11, <2>12 DEF OwnTxn
<1>4. CASE Raise(r)
  <2>1. /\ txn'[r].at = None /\ txn'[r].left = txn[r].left \ {txn[r].at}
        /\ txn'[r].seen = txn[r].seen /\ txn'[r].value = txn[r].value
        /\ txn'[r].day = txn[r].day /\ txn'[r].keep = txn[r].keep
        /\ txn'[r].written = txn[r].written /\ txn'[r].missing = {}
        /\ txn'[r].inserts = txn[r].inserts \cup txn[r].missing
        /\ stage'[r] = "working"
    BY <1>1, <1>4 DEF Raise, Types, Txns
  <2>2. \A q \in Subjects : Visited(r, q)' <=> Visited(r, q)
    BY <1>4, <2>1, AlertJobsAssumption DEF Visited, Watched, Raise, OwnTxn
  <2>3. \A q \in Subjects : NewStatus(r, q)' = NewStatus(r, q)
    BY <2>1 DEF NewStatus
  <2>4. txn'[r].left \subseteq Watched(r)
    BY <2>1 DEF OwnTxn
  <2>5. \A k \in txn[r].keep : k[1] \in Subjects
    BY <1>1 DEF Txns, Keys
  <2>6. \A w \in txn[r].written : w[1] \in Subjects
    BY <1>1 DEF Txns
  <2>7. \A k \in txn'[r].keep :
            /\ Visited(r, k[1])'
            /\ Dated(k[1]) =>
                  k[2] \in TiersOf(k[1], txn'[r].value[k[1]], txn'[r].day)
    BY <2>1, <2>2, <2>5 DEF OwnTxn
  <2>8. \A a \in txn'[r].missing \cup txn'[r].inserts : a[2] \in txn'[r].keep
    BY <2>1 DEF OwnTxn
  <2>9. \A w \in txn'[r].written :
            Visited(r, w[1])' /\ w[2] = NewStatus(r, w[1])'
    BY <2>1, <2>2, <2>3, <2>6 DEF OwnTxn
  <2>10. \A q \in Subjects :
            Visited(r, q)' /\ NewStatus(r, q)' # txn'[r].seen[q]
                => <<q, NewStatus(r, q)'>> \in txn'[r].written
    BY <1>4, <2>1, <2>2, <2>3 DEF OwnTxn, Raise
  <2>11. \A k1, k2 \in txn'[r].keep : k1[1] = k2[1] => k1 = k2
    BY <2>1 DEF OwnTxn
  <2>12. QED
    BY <2>1, <2>4, <2>7, <2>8, <2>9, <2>10, <2>11 DEF OwnTxn
<1>5. CASE Clash(r) \/ JobCommits(r) \/ JobRollsBack(r)
  <2>1. txn'[r] = NoTxn /\ stage'[r] # "working"
    BY <1>5 DEF Clash, JobCommits, JobRollsBack, EndWork, Quit, Move, Types
  <2>2. QED
    BY <2>1, NoTxnIsOwn
<1>6. CASE RunnerMoves(r)
  <2>1. CASE Expose(r)
    BY <1>6, <2>1, OthersKeepOwn DEF RunnerMoves, Expose
  <2>2. CASE ~Expose(r)
    <3>1. stage[r] # "working" /\ stage'[r] # "working" /\ txn'[r] = txn[r]
      BY <1>6, <2>2 DEF RunnerMoves, Enter, NeverWork, Quit, Move, Types
    <3>2. QED
      BY <3>1, NoTxnIsOwn DEF OwnTxn
  <2>3. QED
    BY <2>1, <2>2
<1>7. QED
  BY <1>2, <1>3, <1>4, <1>5, <1>6 DEF JobNext
-----------------------------------------------------------------------------
\* What a transaction is about to insert is about its own subjects.
LEMMA InsertsAreOwn ==
    ASSUME Types, NEW r \in Runs, OwnTxn(r),
           NEW a \in txn[r].missing \cup txn[r].inserts
    PROVE  /\ a \in Users \X Keys /\ a[2] \in txn[r].keep
           /\ a[2][1] \in Watched(r) /\ stage[r] = "working"
<1>1. txn[r] \in Txns
  BY DEF Types
<1>2. a \in Users \X Keys /\ a[2] \in txn[r].keep
  BY <1>1 DEF Txns, OwnTxn
<1>3. a[2][1] \in Watched(r)
  BY <1>2 DEF OwnTxn, Visited
<1>4. stage[r] = "working"
  BY DEF OwnTxn, NoTxn
<1>5. QED
  BY <1>2, <1>3, <1>4

\* A commit opens alerts of its own subjects only, so two transactions that
\* hold different locks do not get in each other's way.
LEMMA RunKeepsMissing ==
    ASSUME IInv, Types', NEW r \in Runs, NEW q \in Runs, JobNext(r),
           OwnTxn(q)'
    PROVE  StillMissing(q)'
<1> SUFFICES ASSUME exposed' = {},
                    NEW a \in txn'[q].missing \cup txn'[q].inserts
             PROVE  alert'[a] = "none"
  BY DEF StillMissing
<1>1. exposed = {} /\ \A p \in Runs \ {r} : stage'[p] = stage[p]
  BY StageSteps DEF IInv
<1>2. txn[q] \in Txns /\ OwnTxn(q) /\ StillMissing(q) /\ Types
  BY DEF IInv, Types
<1>3. /\ a \in Users \X Keys
      /\ a[2][1] \in Watched(q) /\ stage'[q] = "working"
  <2>1. txn'[q] \in Txns
    BY DEF Types
  <2>2. a \in Users \X Keys /\ a[2] \in txn'[q].keep
    BY <2>1 DEF Txns, OwnTxn
  <2>3. a[2][1] \in Watched(q)
    BY <2>2 DEF OwnTxn, Visited, Watched
  <2>4. stage'[q] = "working"
    BY DEF OwnTxn, NoTxn
  <2>5. QED
    BY <2>2, <2>3, <2>4
<1>4. CASE JobCommits(r)
  <2>1. q # r
    BY <1>3, <1>4 DEF JobCommits, EndWork, Move, IInv, Types
  <2>2. txn'[q] = txn[q] /\ stage[q] = "working" /\ stage[r] = "working"
    BY <1>1, <1>3, <1>4, <2>1 DEF JobCommits, IInv, Types
  <2>3. LockOf[q] # LockOf[r]
    BY <1>1, <2>1, <2>2 DEF IInv, Exclusive, Inside
  <2>4. a \notin txn[r].inserts
    BY <1>3, <2>3, InsertsAreOwn DEF Watched, IInv
  <2>5. alert[a] = "none"
    BY <1>1, <1>2, <2>2 DEF StillMissing
  <2>6. QED
    BY <1>3, <1>4, <2>4, <2>5 DEF JobCommits
<1>5. CASE ~JobCommits(r)
  <2>1. alert' = alert
    BY <1>5 DEF JobNext, JobBegins, Look, Raise, Clash, JobRollsBack, RunnerMoves
  <2>2. CASE txn'[q] = txn[q]
    BY <1>1, <1>2, <2>1, <2>2 DEF StillMissing
  <2>3. CASE txn'[q] # txn[q]
    <3>1. q = r /\ stage'[r] = "working"
      BY <1>3, <1>5, <2>3 DEF JobNext, JobBegins, Look, Raise, Clash, JobRollsBack,
            RunnerMoves, IInv, Types
    <3>2. CASE JobBegins(r)
      BY <3>1, <3>2 DEF JobBegins, NoTxn, IInv, Types
    <3>3. CASE Look(r)
      <4>1. PICK s \in txn[r].left : txn' = [txn EXCEPT ![r] = LookedAt(r, s)]
        BY <3>3 DEF Look
      <4>2. /\ txn'[r].inserts = txn[r].inserts
            /\ \A b \in txn'[r].missing : alert[b] = "none"
        BY <1>2, <3>1, <4>1 DEF LookedAt, IInv, Types, Txns
      <4>3. QED
        BY <1>1, <1>2, <2>1, <3>1, <4>2 DEF StillMissing
    <3>4. CASE Raise(r)
      <4>1. /\ txn'[r].missing = {}
            /\ txn'[r].inserts = txn[r].inserts \cup txn[r].missing
        BY <1>2, <3>1, <3>4 DEF Raise, IInv, Types, Txns
      <4>2. QED
        BY <1>1, <1>2, <2>1, <3>1, <4>1 DEF StillMissing
    <3>5. QED
      BY <1>5, <2>3, <3>1, <3>2, <3>3, <3>4 DEF JobNext, Clash, JobRollsBack,
         RunnerMoves, EndWork, Quit, Move, IInv, Types
  <2>4. QED
    BY <2>2, <2>3
<1>6. QED
  BY <1>4, <1>5

\* A commit leaves the tiers of its own subjects that its run found, one each,
\* and the others as they were.
LEMMA CommitKeepsOneTier ==
    ASSUME IInv, NEW r \in Runs, JobCommits(r)
    PROVE  OneTierPerUser'
<1> SUFFICES ASSUME exposed' = {}, NEW u \in Users, NEW s \in Subjects,
                    NEW t1 \in Tiers, NEW t2 \in Tiers,
                    alert'[<<u, <<s, t1>>>>] # "none",
                    alert'[<<u, <<s, t2>>>>] # "none"
             PROVE  t1 = t2
  BY DEF OneTierPerUser
<1>1. exposed = {}
  BY DEF JobCommits, EndWork
<1>2. <<u, <<s, t1>>>> \in Users \X Keys /\ <<u, <<s, t2>>>> \in Users \X Keys
  BY DEF Keys
<1>3. CASE s \in Watched(r)
  <2>1. ASSUME NEW t \in Tiers, alert'[<<u, <<s, t>>>>] # "none"
        PROVE  <<s, t>> \in txn[r].keep
    <3>1. <<u, <<s, t>>>> \in Users \X Keys
      BY DEF Keys
    <3>2. CASE <<u, <<s, t>>>> \in txn[r].inserts
      BY <3>2, InsertsAreOwn DEF IInv
    <3>3. CASE <<u, <<s, t>>>> \notin txn[r].inserts
      BY <1>3, <2>1, <3>1, <3>3 DEF JobCommits
    <3>4. QED
      BY <3>2, <3>3
  <2>2. OwnTxn(r)
    BY DEF IInv
  <2>3. QED
    BY <2>1, <2>2 DEF OwnTxn
<1>4. CASE s \notin Watched(r)
  <2>1. \A t \in Tiers : <<u, <<s, t>>>> \notin txn[r].inserts
    BY <1>4, InsertsAreOwn DEF IInv
  <2>2. /\ alert[<<u, <<s, t1>>>>] # "none"
        /\ alert[<<u, <<s, t2>>>>] # "none"
    BY <1>2, <1>4, <2>1 DEF JobCommits
  <2>3. QED
    BY <1>1, <2>2 DEF IInv, OneTierPerUser
<1>5. QED
  BY <1>3, <1>4
-----------------------------------------------------------------------------
\* Users open no alert, and leave the jobs' transactions alone.
LEMMA UserSteps ==
    ASSUME Types, UserNext
    PROVE  /\ RunsIdle
           /\ \A a \in Users \X Keys :
                  alert'[a] = "none" \/ alert[a] # "none"
           /\ \A a \in Users \X Keys : alert[a] = "none" => alert'[a] = "none"
<1> USE DEF Types, Act, RunsIdle
<1>1. ASSUME NEW a \in Users \X Keys, MarkRead(a)
      PROVE  /\ RunsIdle
             /\ \A b \in Users \X Keys : alert[b] = "none" <=> alert'[b] = "none"
  BY <1>1 DEF MarkRead
<1>2. ASSUME NEW a \in Users \X Keys, Dismiss(a)
      PROVE  /\ RunsIdle
             /\ \A b \in Users \X Keys : alert[b] = "none" => alert'[b] = "none"
  BY <1>2 DEF Dismiss
<1>3. ASSUME NEW u \in Users, MarkAllRead(u)
      PROVE  /\ RunsIdle
             /\ \A b \in Users \X Keys : alert[b] = "none" <=> alert'[b] = "none"
  BY <1>3 DEF MarkAllRead
<1>4. ASSUME NEW u \in Users, MembershipChanges(u)
      PROVE  RunsIdle /\ alert' = alert
  BY <1>4 DEF MembershipChanges
<1>5. ASSUME NEW s \in Subjects, RefreshReads(s)
      PROVE  RunsIdle /\ alert' = alert
  BY <1>5 DEF RefreshReads
<1>6. ASSUME NEW s \in Subjects, NEW st \in Statuses, NEW m \in Measures,
             Edit(s, st, m)
      PROVE  RunsIdle /\ alert' = alert
  BY <1>6 DEF Edit
<1>7. CASE RefreshWrites \/ DayPasses
  BY <1>7 DEF RefreshWrites, DayPasses
<1>8. QED
  BY <1>1, <1>2, <1>3, <1>4, <1>5, <1>6, <1>7 DEF UserNext

\* A step of a user keeps the invariant.
LEMMA UserPreserves == IInv /\ UserNext => IInv'
<1> SUFFICES ASSUME IInv, UserNext PROVE IInv'
  OBVIOUS
<1>1. Types /\ Types'
  BY UsersKeepTypes DEF IInv
<1>2. /\ stage' = stage /\ exposed' = exposed /\ txn' = txn /\ clashed' = clashed
      /\ \A a \in Users \X Keys : alert[a] = "none" => alert'[a] = "none"
  BY <1>1, UserSteps DEF RunsIdle
<1>3. Exclusive'
  BY <1>2 DEF IInv, Exclusive
<1>4. ASSUME NEW r \in Runs PROVE OwnTxn(r)'
  BY <1>1, <1>2, OthersKeepOwn DEF IInv
<1>5. ASSUME NEW r \in Runs PROVE StillMissing(r)'
  <2>1. \A a \in txn[r].missing \cup txn[r].inserts : a \in Users \X Keys
    BY <1>1 DEF Types, Txns
  <2>2. QED
    BY <1>2, <2>1 DEF IInv, StillMissing
<1>6. ClashesOnlyWithoutLock'
  BY <1>2 DEF IInv, ClashesOnlyWithoutLock
<1>7. OneTierPerUser'
  BY <1>2 DEF IInv, OneTierPerUser, Keys
<1>8. QED
  BY <1>1, <1>3, <1>4, <1>5, <1>6, <1>7 DEF IInv

\* A step of a job keeps the invariant.
LEMMA RunPreserves ==
    ASSUME IInv, NEW r \in Runs, JobNext(r)
    PROVE  IInv'
<1>1. Types /\ Types' /\ OwnTxn(r)
  BY RunKeepsTypes DEF IInv
<1>2. Exclusive'
  BY <1>1, RunKeepsExclusive DEF IInv
<1>3. ASSUME NEW q \in Runs PROVE OwnTxn(q)'
  <2>1. CASE q = r
    BY <1>1, <2>1, RunKeepsOwn
  <2>2. CASE q # r
    <3>1. stage'[q] = stage[q]
      BY <1>1, <2>2, StageSteps
    <3>2. txn'[q] = txn[q]
      BY <1>1, <2>2 DEF Types, JobNext, JobBegins, Look, Raise, Clash, JobCommits,
            JobRollsBack, RunnerMoves
    <3>3. QED
      BY <1>1, <3>1, <3>2, OthersKeepOwn DEF IInv
  <2>3. QED
    BY <2>1, <2>2
<1>4. ASSUME NEW q \in Runs PROVE StillMissing(q)'
  BY <1>1, <1>3, RunKeepsMissing
<1>5. ClashesOnlyWithoutLock'
  <2>1. exposed \subseteq exposed'
    BY <1>1, StageSteps
  <2>2. CASE Clash(r)
    BY <2>1, <2>2 DEF IInv, StillMissing, Clash, ClashesOnlyWithoutLock
  <2>3. CASE ~Clash(r)
    <3>1. clashed' = clashed
      BY <2>3 DEF JobNext, JobBegins, Look, Raise, JobCommits, JobRollsBack,
            RunnerMoves
    <3>2. QED
      BY <2>1, <3>1 DEF IInv, ClashesOnlyWithoutLock
  <2>4. QED
    BY <2>2, <2>3
<1>6. OneTierPerUser'
  <2>1. CASE JobCommits(r)
    BY <2>1, CommitKeepsOneTier
  <2>2. CASE ~JobCommits(r)
    <3>1. alert' = alert
      BY <2>2 DEF JobNext, JobBegins, Look, Raise, Clash, JobRollsBack, RunnerMoves
    <3>2. exposed \subseteq exposed'
      BY <1>1, StageSteps
    <3>3. QED
      BY <3>1, <3>2 DEF IInv, OneTierPerUser
  <2>3. QED
    BY <2>1, <2>2
<1>7. QED
  BY <1>1, <1>2, <1>3, <1>4, <1>5, <1>6 DEF IInv

\* Every step keeps the invariant.
LEMMA StepPreserves == IInv /\ [AlertNext]_jobVars => IInv'
<1> SUFFICES ASSUME IInv, [AlertNext]_jobVars PROVE IInv'
  OBVIOUS
<1>1. CASE AlertNext
  BY <1>1, RunPreserves, UserPreserves DEF AlertNext
<1>2. CASE UNCHANGED jobVars
  <2>1. Types'
    BY <1>2 DEF IInv, Types, jobVars
  <2>2. ASSUME NEW r \in Runs PROVE OwnTxn(r)' /\ StillMissing(r)'
    BY <1>2, OthersKeepOwn DEF IInv, jobVars, StillMissing
  <2>3. Exclusive' /\ ClashesOnlyWithoutLock' /\ OneTierPerUser'
    BY <1>2 DEF IInv, jobVars, Exclusive, ClashesOnlyWithoutLock, OneTierPerUser
  <2>4. QED
    BY <2>1, <2>2, <2>3 DEF IInv
<1>3. QED
  BY <1>1, <1>2

-----------------------------------------------------------------------------
(* Theorems *)

\* Every reachable state satisfies the inductive invariant.
THEOREM Invariance == AlertSpec => []IInv
  BY InitEstablishes, StepPreserves, PTL DEF AlertSpec

\* While every lock connection lives, no job fails on the unique index of the
\* open alerts (upsert_notification selects, then inserts).
THEOREM LockKeepsJobsApart == AlertSpec => []ClashesOnlyWithoutLock
<1>1. IInv => ClashesOnlyWithoutLock
  BY DEF IInv
<1>2. QED
  BY <1>1, Invariance, PTL

\* No user has alerts of two tiers of one subject open.
THEOREM OneTierIsOpen == AlertSpec => []OneTierPerUser
<1>1. IInv => OneTierPerUser
  BY DEF IInv
<1>2. QED
  BY <1>1, Invariance, PTL

\* The job's status rule and the endpoint's agree but for the day of expiry, on
\* all dates there are.
THEOREM RulesAgreeElsewhere == AlertSpec => []RulesDifferOnLastDay
<1>1. IInv => RulesDifferOnLastDay
  BY RulesDiffer DEF IInv, Types, RulesDifferOnLastDay
<1>2. QED
  BY <1>1, Invariance, PTL

\* A status the job writes to an untouched row is the one its tiers mean.
LEMMA WrittenIsNew ==
    ASSUME IInv, NEW r \in Runs, JobCommits(r), NEW s \in Watched(r),
           status[s] = txn[r].seen[s]
    PROVE  status'[s] = NewStatus(r, s)
<1>1. s \in Subjects /\ OwnTxn(r) /\ stage[r] = "working" /\ Visited(r, s)
  BY DEF IInv, Watched, JobCommits, EndWork, Move, Visited
<1>2. status'[s] = StatusWritten(r, s)
  BY <1>1 DEF JobCommits
<1>3. CASE \E w \in txn[r].written : w[1] = s
  <2>1. \A w \in txn[r].written : w[1] = s => w[2] = NewStatus(r, s)
    BY <1>1 DEF OwnTxn
  <2>2. QED
    BY <1>2, <1>3, <2>1 DEF StatusWritten
<1>4. CASE ~ \E w \in txn[r].written : w[1] = s
  <2>1. NewStatus(r, s) = txn[r].seen[s]
    BY <1>1, <1>4 DEF OwnTxn
  <2>2. QED
    BY <1>2, <1>4, <2>1 DEF StatusWritten
<1>5. QED
  BY <1>3, <1>4

\* An alert that a commit leaves open is of the tier its run found.
LEMMA OpenIsFound ==
    ASSUME IInv, NEW r \in Runs, JobCommits(r), NEW s \in Watched(r), Dated(s),
           NEW u \in Users, NEW t \in Tiers, alert'[<<u, <<s, t>>>>] # "none"
    PROVE  t \in TiersOf(s, txn[r].value[s], txn[r].day)
<1>1. s \in Subjects /\ OwnTxn(r)
  BY DEF IInv, Watched
<1>2. <<u, <<s, t>>>> \in Users \X Keys
  BY <1>1 DEF Keys
<1>3. <<s, t>> \in txn[r].keep
  <2>1. CASE <<u, <<s, t>>>> \in txn[r].inserts
    BY <1>1, <2>1 DEF OwnTxn
  <2>2. CASE <<u, <<s, t>>>> \notin txn[r].inserts
    BY <1>2, <2>2 DEF JobCommits
  <2>3. QED
    BY <2>1, <2>2
<1>4. QED
  BY <1>1, <1>3 DEF OwnTxn

\* In one commit the alerts and the statuses of untouched rows say the same of
\* what has expired.
THEOREM CommitsAgree == AlertSpec => CommitAgrees
<1> DEFINE Agrees ==
    \A r \in Runs : JobCommits(r) =>
        \A s \in Watched(r), u \in Users, t \in Tiers :
            /\ Dated(s) /\ status[s] \notin {"claimed"}
            /\ measure[s] = txn[r].value[s] /\ status[s] = txn[r].seen[s]
            /\ alert'[<<u, <<s, t>>>>] # "none"
            => (t = "expired" <=> status'[s] = "expired")
<1>1. IInv /\ [AlertNext]_jobVars => [Agrees]_jobVars
  <2> SUFFICES ASSUME IInv, NEW r \in Runs, JobCommits(r), NEW s \in Watched(r),
                      NEW u \in Users, NEW t \in Tiers,
                      Dated(s), status[s] # "claimed", status[s] = txn[r].seen[s],
                      alert'[<<u, <<s, t>>>>] # "none"
               PROVE  t = "expired" <=> status'[s] = "expired"
    OBVIOUS
  <2>1. /\ s \in Subjects
        /\ txn[r].value[s] \in Nat /\ txn[r].day \in Nat
    BY DEF IInv, Types, Txns, Watched
  <2>2. t \in TiersOf(s, txn[r].value[s], txn[r].day)
    BY OpenIsFound
  <2>3. status'[s] = NewStatus(r, s)
    BY WrittenIsNew
  <2>4. QED
    BY <2>1, <2>2, <2>3, TierMatchesStatus DEF NewStatus
<1>2. QED
  BY <1>1, Invariance, PTL DEF AlertSpec, CommitAgrees
=============================================================================
