----------------------------- MODULE AlertJobs -----------------------------
(***************************************************************************)
(* The jobs that raise alerts (jobs/warranty_refresh.py,                   *)
(* insurance_refresh.py, aging_alerts.py, schedule_snapshot.py) over the   *)
(* runner's lock, and the users who read and dismiss the alerts while the  *)
(* jobs run (services/notifications.py, routes/notifications.py), edit     *)
(* warranties and refresh their status by hand (services/closeout.py).     *)
(*                                                                         *)
(* A job is one transaction, read committed: it loads its subjects first,  *)
(* then visits them one by one, each time reading the recipients and their *)
(* open alerts as committed by then, and resolves what is stale at the     *)
(* end.  Only open alerts are kept: a row that was resolved or dismissed   *)
(* is never opened again.                                                  *)
(***************************************************************************)
EXTENDS JobLock, Integers

CONSTANTS
    Subjects,  \* warranties, certificates, schedules, projects
    JobFor,    \* the job that watches each subject
    Users,
    Admins,    \* active admins and VPs
    Days,      \* the days on which something happens
    Measures,  \* expiry dates, drifts in days, overdue counts
    MaxActs,   \* bound on what users do in all
    None

ASSUME AlertJobsAssumption ==
    /\ JobFor \in [Subjects -> {LockOf[r] : r \in Runs}]
    /\ Admins \subseteq Users
    /\ None \notin Subjects
    /\ Days \subseteq Nat /\ Measures \subseteq Nat /\ MaxActs \in Nat

VARIABLES
    today,
    measure,  \* each subject's expiration_date, worst drift or overdue count
    status,   \* its status column
    members,  \* active members of the subjects' project
    alert,    \* the open alerts of each user and dedupe_key: none, unread, read
    txn,      \* each run's transaction
    refresh,  \* an admin's refresh-status request between read and commit
    clashed,  \* runs whose INSERT failed on uq_notif_dedupe
    acts      \* what users did so far

jobVars == <<stage, exposed, today, measure, status, members, alert, txn,
             refresh, clashed, acts>>

Tiers == {"expired", "30_day", "60_day", "90_day",
          "critical_drift", "warning_drift", "aging"}
Statuses == {"active", "expiring_soon", "expired", "claimed"}
Keys == Subjects \X Tiers

\* Subjects with an expiry date and a status the job refreshes.
Dated(s) == JobFor[s] \in {"warranty_refresh", "insurance_refresh"}

Watched(r) == {s \in Subjects : JobFor[s] = LockOf[r]}

NoTxn == [left |-> {}, at |-> None, missing |-> {}, day |-> 0,
          seen |-> [s \in Subjects |-> "active"],
          value |-> [s \in Subjects |-> 0],
          written |-> {}, inserts |-> {}, keep |-> {}]

-----------------------------------------------------------------------------
(* The rules *)

Between(days, low, high) == low <= days /\ days <= high

\* A warranty that expires today counts as expired.
WarrantyTiersToday(days) ==
    {t \in {"expired", "30_day", "90_day"} :
        \/ t = "expired" /\ days <= 0
        \/ t = "30_day" /\ Between(days, 1, 30)
        \/ t = "90_day" /\ Between(days, 31, 90)}

WarrantyTiers(days) ==
    {t \in {"expired", "30_day", "90_day"} :
        \/ t = "expired" /\ days < 0
        \/ t = "30_day" /\ Between(days, 0, 30)
        \/ t = "90_day" /\ Between(days, 31, 90)}

InsuranceTiers(days) ==
    {t \in {"expired", "30_day", "60_day", "90_day"} :
        \/ t = "expired" /\ days < 0
        \/ t = "30_day" /\ Between(days, 0, 30)
        \/ t = "60_day" /\ Between(days, 31, 60)
        \/ t = "90_day" /\ Between(days, 61, 90)}

DriftTiers(drift) ==
    {t \in {"critical_drift", "warning_drift"} :
        \/ t = "critical_drift" /\ drift >= 5
        \/ t = "warning_drift" /\ Between(drift, 2, 4)}

AgingTiers(overdue) == {t \in {"aging"} : overdue > 0}

\* The tier of a subject, at most one, none when nothing is to be said.
TiersOf(s, value, day) ==
    CASE JobFor[s] = "warranty_refresh" -> WarrantyTiers(value - day)
      [] JobFor[s] = "insurance_refresh" -> InsuranceTiers(value - day)
      [] JobFor[s] = "schedule_snapshot" -> DriftTiers(value)
      [] OTHER -> AgingTiers(value)

\* The day the window opens is left out.
JobStatusLate(s, value, old, day) ==
    IF ~Dated(s) \/ (JobFor[s] = "warranty_refresh" /\ old = "claimed") THEN old
    ELSE IF value < day THEN "expired"
    ELSE IF value - day < 90 THEN "expiring_soon"
    ELSE "active"

\* Certificates have no 'claimed', and are expiring_soon for 60 days only.
JobStatus(s, value, old, day) ==
    LET window == IF JobFor[s] = "insurance_refresh" THEN 60 ELSE 90
    IN  IF ~Dated(s) \/ (JobFor[s] = "warranty_refresh" /\ old = "claimed") THEN old
        ELSE IF value < day THEN "expired"
        ELSE IF value - day <= window THEN "expiring_soon"
        ELSE "active"

\* compute_warranty_status_for_date, the rule of the refresh endpoints.
ServiceStatus(value, old, day) ==
    IF old = "claimed" THEN old
    ELSE IF day >= value THEN "expired"
    ELSE IF day >= value - 90 THEN "expiring_soon"
    ELSE "active"

Recipients(s) ==
    IF JobFor[s] = "insurance_refresh" THEN Admins ELSE Admins \cup members

-----------------------------------------------------------------------------
AlertInit ==
    /\ LockInit
    /\ today \in {d \in Days : \A e \in Days : d <= e}
    /\ measure \in [Subjects -> Measures]
    /\ status = [s \in Subjects |-> "active"]
    /\ members = Users
    /\ alert = [a \in Users \X Keys |-> "none"]
    /\ txn = [r \in Runs |-> NoTxn]
    /\ refresh = None
    /\ clashed = {}
    /\ acts = 0

UsersIdle == UNCHANGED <<today, measure, members, refresh, acts>>

\* SELECT of the subjects.
JobBegins(r) ==
    /\ BeginWork(r)
    /\ txn' = [txn EXCEPT ![r] =
            [NoTxn EXCEPT !.left = Watched(r), !.day = today,
                          !.seen = status, !.value = measure]]
    /\ UsersIdle /\ UNCHANGED <<status, alert, clashed>>

\* Drifts and overdue rows are counted when the run gets to them, expiry dates
\* were loaded at first.
ValueFor(r, s) == IF Dated(s) THEN txn[r].value[s] ELSE measure[s]

StatusFor(r, s) == JobStatus(s, ValueFor(r, s), txn[r].seen[s], txn[r].day)

KeysFor(r, s) == {s} \X TiersOf(s, ValueFor(r, s), txn[r].day)

\* The next subject: its recipients, and who of them has no open alert.
LookedAt(r, s) ==
    [txn[r] EXCEPT !.at = s,
        !.written = @ \cup ({<<s, StatusFor(r, s)>>} \ {<<s, txn[r].seen[s]>>}),
        !.keep = @ \cup IF Recipients(s) = {} THEN {} ELSE KeysFor(r, s),
        !.missing = {a \in Recipients(s) \X KeysFor(r, s) : alert[a] = "none"}]

\* The first query after the assignment flushes the status, which locks the row.
Look(r) ==
    /\ stage[r] = "working" /\ txn[r].at = None
    /\ \E s \in txn[r].left :
        /\ StatusFor(r, s) # txn[r].seen[s] =>
              \A q \in Runs \ {r} : \A w \in txn[q].written : w[1] # s
        /\ txn' = [txn EXCEPT ![r] = LookedAt(r, s)]
    /\ UsersIdle /\ UNCHANGED <<stage, exposed, status, alert, clashed>>

\* INSERT of the missing alerts; it waits for a transaction that has inserted
\* one of them and has not ended.
Raise(r) ==
    /\ stage[r] = "working" /\ txn[r].at # None
    /\ \A q \in Runs \ {r} : txn[q].inserts \cap txn[r].missing = {}
    /\ \A a \in txn[r].missing : alert[a] = "none"
    /\ txn' = [txn EXCEPT ![r].at = None, ![r].missing = {},
            ![r].left = @ \ {txn[r].at},
            ![r].inserts = @ \cup txn[r].missing]
    /\ UsersIdle /\ UNCHANGED <<stage, exposed, status, alert, clashed>>

\* The unique index refuses an alert that was committed meanwhile.
Clash(r) ==
    /\ stage[r] = "working"
    /\ \E a \in txn[r].missing : alert[a] # "none"
    /\ EndWork(r)
    /\ clashed' = clashed \cup {r}
    /\ txn' = [txn EXCEPT ![r] = NoTxn]
    /\ UsersIdle /\ UNCHANGED <<status, alert>>

StatusWritten(r, s) ==
    IF \E w \in txn[r].written : w[1] = s
    THEN (CHOOSE w \in txn[r].written : w[1] = s)[2]
    ELSE status[s]

\* A stale alert is one whose subject has none any more.
JobCommitsBySubject(r) ==
    /\ stage[r] = "working" /\ txn[r].left = {}
    /\ EndWork(r)
    /\ status' = [s \in Subjects |-> StatusWritten(r, s)]
    /\ alert' = [a \in Users \X Keys |->
            IF a \in txn[r].inserts THEN "unread"
            ELSE IF /\ a[2][1] \in Watched(r)
                    /\ \A k \in txn[r].keep : k[1] # a[2][1]
                 THEN "none"
            ELSE alert[a]]
    /\ txn' = [txn EXCEPT ![r] = NoTxn]
    /\ UsersIdle /\ UNCHANGED clashed

\* resolve_notifications_by_dedupe_prefix, and the commit.
JobCommits(r) ==
    /\ stage[r] = "working" /\ txn[r].left = {}
    /\ EndWork(r)
    /\ status' = [s \in Subjects |-> StatusWritten(r, s)]
    /\ alert' = [a \in Users \X Keys |->
            IF a \in txn[r].inserts THEN "unread"
            ELSE IF a[2][1] \in Watched(r) /\ a[2] \notin txn[r].keep THEN "none"
            ELSE alert[a]]
    /\ txn' = [txn EXCEPT ![r] = NoTxn]
    /\ UsersIdle /\ UNCHANGED clashed

\* The job raises, or the run dies inside it: everything is rolled back.
JobRollsBack(r) ==
    /\ stage[r] = "working"
    /\ EndWork(r) \/ Quit(r)
    /\ txn' = [txn EXCEPT ![r] = NoTxn]
    /\ UsersIdle /\ UNCHANGED <<status, alert, clashed>>

\* The runner's steps outside the job.
RunnerMoves(r) ==
    /\ \/ Enter(r) \/ NeverWork(r) \/ Expose(r)
       \/ stage[r] # "working" /\ Quit(r)
    /\ UsersIdle /\ UNCHANGED <<status, alert, txn, clashed>>

-----------------------------------------------------------------------------
(* Users *)

RunsIdle == UNCHANGED <<stage, exposed, txn, clashed>>

Act == RunsIdle /\ acts < MaxActs /\ acts' = acts + 1

\* A row some transaction has written is locked until it ends.
Unlocked(s) == \A r \in Runs : \A w \in txn[r].written : w[1] # s

MarkRead(a) ==
    /\ alert[a] = "unread"
    /\ alert' = [alert EXCEPT ![a] = "read"]
    /\ Act /\ UNCHANGED <<today, measure, members, refresh, status>>

MarkAllRead(u) ==
    /\ \E k \in Keys : alert[<<u, k>>] = "unread"
    /\ alert' = [a \in Users \X Keys |->
            IF a[1] = u /\ alert[a] = "unread" THEN "read" ELSE alert[a]]
    /\ Act /\ UNCHANGED <<today, measure, members, refresh, status>>

Dismiss(a) ==
    /\ alert[a] # "none"
    /\ alert' = [alert EXCEPT ![a] = "none"]
    /\ Act /\ UNCHANGED <<today, measure, members, refresh, status>>

\* PATCH of a warranty or certificate (status, expiry date), or of the rows a
\* drift or an overdue count is computed from.
Edit(s, st, m) ==
    /\ Unlocked(s)
    /\ <<st, m>> # <<status[s], measure[s]>>
    /\ st # status[s] => Dated(s)
    /\ st = "claimed" => JobFor[s] = "warranty_refresh"
    /\ status' = [status EXCEPT ![s] = st]
    /\ measure' = [measure EXCEPT ![s] = m]
    /\ Act /\ UNCHANGED <<today, members, alert, refresh>>

\* refresh_warranty_status: read, then write when it differs.
RefreshReads(s) ==
    /\ JobFor[s] = "warranty_refresh" /\ refresh = None
    /\ ServiceStatus(measure[s], status[s], today) # status[s]
    /\ refresh' = <<s, ServiceStatus(measure[s], status[s], today)>>
    /\ Act /\ UNCHANGED <<today, measure, members, status, alert>>

RefreshWrites ==
    /\ refresh # None /\ Unlocked(refresh[1])
    /\ status' = [status EXCEPT ![refresh[1]] = refresh[2]]
    /\ refresh' = None
    /\ RunsIdle /\ UNCHANGED <<today, measure, members, alert, acts>>

MembershipChanges(u) ==
    /\ members' = IF u \in members THEN members \ {u} ELSE members \cup {u}
    /\ Act /\ UNCHANGED <<today, measure, refresh, status, alert>>

DayPasses ==
    /\ \E d \in Days : d > today /\ today' = d
    /\ RunsIdle /\ UNCHANGED <<measure, members, refresh, status, alert, acts>>

JobNext(r) ==
    \/ JobBegins(r) \/ Look(r) \/ Raise(r) \/ Clash(r) \/ JobCommits(r)
    \/ JobRollsBack(r) \/ RunnerMoves(r)

UserNext ==
    \/ \E a \in Users \X Keys : MarkRead(a) \/ Dismiss(a)
    \/ \E u \in Users : MarkAllRead(u)
    \/ \E u \in Users \ Admins : MembershipChanges(u)
    \/ \E s \in Subjects : RefreshReads(s)
    \/ \E s \in Subjects, st \in Statuses, m \in Measures : Edit(s, st, m)
    \/ RefreshWrites \/ DayPasses

AlertNext == (\E r \in Runs : JobNext(r)) \/ UserNext

AlertSpec == AlertInit /\ [][AlertNext]_jobVars

-----------------------------------------------------------------------------
\* The runner's lock is all that keeps two transactions from inserting one
\* alert twice, since upsert_notification selects first and inserts later: no
\* run fails on the unique index unless a lock connection dropped.
ClashesOnlyWithoutLock == clashed # {} => exposed # {}

\* Nobody is told two things of one subject: when it moves to the next tier,
\* the alert of the last one is closed in the same commit, also for users who
\* have left the project since (unless a lock was lost).
OneTierPerUser ==
    exposed = {} =>
        \A u \in Users, s \in Subjects, t1, t2 \in Tiers :
            alert[<<u, <<s, t1>>>>] # "none" /\ alert[<<u, <<s, t2>>>>] # "none"
                => t1 = t2

\* The nightly job and the refresh endpoints write one column by two rules:
\* they differ on the day of expiry and on no other.
RulesDifferOnLastDay ==
    \A s \in Subjects :
        JobFor[s] = "warranty_refresh" /\ today # measure[s]
        => JobStatus(s, measure[s], status[s], today)
             = ServiceStatus(measure[s], status[s], today)

\* One commit carries the statuses and the alerts: unless somebody edited the
\* row while the run was on, an open alert says "expired" exactly when the
\* status column does.
CommitAgrees ==
    [][\A r \in Runs : JobCommits(r) =>
        \A s \in Watched(r), u \in Users, t \in Tiers :
            /\ Dated(s) /\ status[s] \notin {"claimed"}
            /\ measure[s] = txn[r].value[s] /\ status[s] = txn[r].seen[s]
            /\ alert'[<<u, <<s, t>>>>] # "none"
            => (t = "expired" <=> status'[s] = "expired")]_jobVars

=============================================================================
