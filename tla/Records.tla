-------------------------------- MODULE Records --------------------------------
(***************************************************************************)
(* The records of the projects behind the HTTP interface: rows that users  *)
(* post and patch and read, alone and in lists, under their memberships    *)
(* (app/dependencies.py, app/services/crud.py).  A write is two steps, as  *)
(* the handlers await between them: the handler follows the references of  *)
(* the body or of the row to a project and checks the user's level there;  *)
(* later crud.create or crud.update writes.  What else a row holds is left *)
(* out.                                                                    *)
(***************************************************************************)
EXTENDS Routes, Integers, FiniteSets

CONSTANTS
    Users,      \* the accounts
    Chiefs,     \* those that are admin or have global_role "vp"
    Levels,     \* the access levels that memberships get
    Seeded,     \* the number of projects there are from the start
    Rooms       \* bound: a family of tables is a function from kinds to
                \* the number of rows a run may store in each

Kinds == DOMAIN Routes

ACCESS_LEVEL_RANK ==
    [read_only |-> 1, field_only |-> 2, standard |-> 3, admin |-> 4]

(* A membership row without a level (the column is nullable) ranks 0. *)
NoLevel == "NULL"
Ranked(level) ==
    IF level \in DOMAIN ACCESS_LEVEL_RANK THEN ACCESS_LEVEL_RANK[level] ELSE 0

ASSUME RecordsAssumption ==
    /\ Chiefs \subseteq Users
    /\ Levels \subseteq DOMAIN ACCESS_LEVEL_RANK \cup {NoLevel}
    /\ \A r \in Rooms : /\ r \in [DOMAIN r -> Nat]
                       /\ "projects" \in DOMAIN r /\ DOMAIN r \subseteq Kinds
                       /\ Seeded \in 1..r["projects"]

NoMember == "not a member"
Idle     == [op |-> "idle"]
Null     == 0

VARIABLES
    room,     \* the family of this behaviour
    rows,     \* rows[k]: the rows of table k, each its references' values
    member,   \* member[u][p]: the level of u's active membership of p
    crew,     \* crew[p]: companies and people with an active membership of p
    call      \* call[u]: the checked write of u that has not reached the table

vars == <<room, rows, member, crew, call>>

Projects == 1..room["projects"]
Stored   == {k \in DOMAIN room : rows[k] # <<>>}
Shared   == {"companies", "people"}

-----------------------------------------------------------------------------
(* Where a row, or a body that is to become one, belongs. *)

(* get_by_id: a missing row has no references. *)
References(k, i) ==
    IF k \in DOMAIN rows /\ i \in DOMAIN rows[k] THEN rows[k][i] ELSE NoRefs

Value(to, col) == IF col \in DOMAIN to THEN to[col] ELSE Null

Parent(k, col) == Routes[k].table.refs[col]

(* The id at the end of the references via, from row id of a kind with the *)
(* references to.  No route and no list follows more than three.           *)
Follow(kind, id, to, via) ==
    LET k1 == Parent(kind, via[1])
        i1 == Value(to, via[1])
        k2 == Parent(k1, via[2])
        i2 == Value(References(k1, i1), via[2])
        i3 == Value(References(k2, i2), via[3])
    IN  CASE Len(via) = 0 -> id
          [] Len(via) = 1 -> i1
          [] Len(via) = 2 -> i2
          [] Len(via) = 3 -> i3

Home(k, i) == Follow(k, i, rows[k][i], Routes[k].scope.via)

-----------------------------------------------------------------------------
(* Who may. *)

(* get_readable_project_ids *)
Readable(u) ==
    IF u \in Chiefs THEN Projects
    ELSE {p \in Projects : member[u][p] # NoMember}

(* assert_project_access, with assert_project_write and _field_write *)
Access(u, p, level) ==
    IF u \in Chiefs THEN TRUE
    ELSE /\ p \in Projects
         /\ member[u][p] # NoMember
         /\ Ranked(member[u][p]) >= Ranked(level)

(* What a route asks of a writer. *)
MayWrite(u, p, level) ==
    CASE level = Anyone  -> TRUE
      [] level = Bosses  -> u \in Chiefs
      [] level = NoRoute -> FALSE
      [] OTHER           -> Access(u, p, level)

(* A row behind a scope: what GET asks before it answers, and the filter   *)
(* that a list puts on its table.                                          *)
Visible(u, k, i, scope) ==
    \/ u \in Chiefs
    \/ scope.by = "everyone"
    \/ /\ scope.by = "project"
       /\ Follow(k, i, rows[k][i], scope.via) \in Readable(u)
    \/ /\ scope.by = "colleagues"
       /\ \E p \in Readable(u) : <<k, i>> \in crew[p]

Gets(u, k) == {i \in DOMAIN rows[k] : Visible(u, k, i, Routes[k].scope)}

Listed(u, k) == {i \in DOMAIN rows[k] : Visible(u, k, i, Lists[k])}

-----------------------------------------------------------------------------
(* The requests a client can send. *)

Values(k, col, optional) ==
    LET target == Routes[k].table.refs[col] IN
    (IF optional THEN {Null} ELSE {})
        \cup (IF target \in DOMAIN room THEN 1..room[target] ELSE {})

Filled(k, cols, must) ==
    {to \in [cols -> UNION {Values(k, c, TRUE) : c \in cols}] :
        \A c \in cols : to[c] \in Values(k, c, c \notin must)}

Needs(k) == Routes[k].table.needs \ Routes[k].fills

(* The columns the table demands and the schema lets a client leave out. *)
Optional(k) == Needs(k) \ Routes[k].body.must

Posts ==
    UNION {{[op |-> "post", kind |-> k, id |-> Null, to |-> to,
             sent |-> Routes[k].body.must \cup sent, checked |-> Null] :
              to \in Filled(k, DOMAIN Routes[k].table.refs,
                            Routes[k].body.must),
              sent \in SUBSET Optional(k)} :
           k \in {j \in DOMAIN room : Len(rows[j]) < room[j]}}

Patches ==
    UNION {{[op |-> "patch", kind |-> k, id |-> i, to |-> to, sent |-> {},
             checked |-> Null] :
              i \in DOMAIN rows[k],
              to \in UNION {Filled(k, cols, Routes[k].table.needs) :
                            cols \in (SUBSET Routes[k].body.patches) \ {{}}}} :
           k \in Stored}

-----------------------------------------------------------------------------
Init ==
    /\ room \in Rooms
    /\ rows = [k \in DOMAIN room |->
                 IF k = "projects" THEN [p \in 1..Seeded |-> NoRefs] ELSE <<>>]
    /\ member = [u \in Users \ Chiefs |-> [p \in Projects |-> NoMember]]
    /\ crew = [p \in Projects |-> {}]
    /\ call = [u \in Users |-> Idle]

(* The references of the row as the write will leave it. *)
Target(q) == IF q.op = "post" THEN q.to ELSE rows[q.kind][q.id]

(* The first half of a POST or PATCH handler: find the project, check.     *)
(* A missing parent is a 404, a caller without the level gets a 403: then  *)
(* nothing happens.                                                        *)
Ask(u, q) ==
    LET route == Routes[q.kind]
        p     == Follow(q.kind, q.id, Target(q), route.scope.via)
    IN  /\ call[u] = Idle
        /\ route.scope.via # <<>> => p # Null
        /\ MayWrite(u, p, IF q.op = "post" THEN route.post ELSE route.patch)
        /\ call' = [call EXCEPT ![u] = [q EXCEPT !.checked = p]]
        /\ UNCHANGED <<room, rows, member, crew>>

(* The foreign keys of the table, and its NOT NULL columns. *)
Acceptable(q) ==
    /\ \A c \in {d \in DOMAIN q.to : q.to[d] # Null} :
          q.to[c] \in DOMAIN rows[Routes[q.kind].table.refs[c]]
    /\ q.op = "post" => Needs(q.kind) \subseteq q.sent

(* crud.create: an id of its own, whatever was stored since the check *)
Create(u) ==
    LET q == call[u] IN
    /\ q.op = "post"
    /\ Acceptable(q)
    /\ Len(rows[q.kind]) < room[q.kind]
    /\ rows' = [rows EXCEPT ![q.kind] = Append(@, q.to)]
    /\ call' = [call EXCEPT ![u] = Idle]
    /\ UNCHANGED <<room, member, crew>>

Patched(row, to) ==
    [c \in DOMAIN row |-> IF c \in DOMAIN to THEN to[c] ELSE row[c]]

(* crud.update: only the columns the body sets *)
Update(u) ==
    LET q == call[u] IN
    /\ q.op = "patch"
    /\ Acceptable(q)
    /\ rows' = [rows EXCEPT ![q.kind][q.id] = Patched(@, q.to)]
    /\ call' = [call EXCEPT ![u] = Idle]
    /\ UNCHANGED <<room, member, crew>>

(* The database refuses (a key, a check, a missing reference or column),   *)
(* or the process dies before the commit: nothing is stored.               *)
Fail(u) ==
    /\ call[u] # Idle
    /\ call' = [call EXCEPT ![u] = Idle]
    /\ UNCHANGED <<room, rows, member, crew>>

(* A membership row is posted, patched or deactivated. *)
SetMember(u, p, level) ==
    /\ p \in DOMAIN rows["projects"]
    /\ member[u][p] # level
    /\ member' = [member EXCEPT ![u][p] = level]
    /\ UNCHANGED <<room, rows, crew, call>>

(* The same for somebody else: a person, and the company of the row. *)
SetCrew(p, x) ==
    /\ p \in DOMAIN rows["projects"]
    /\ crew' = [crew EXCEPT ![p] = IF x \in @ THEN @ \ {x} ELSE @ \cup {x}]
    /\ UNCHANGED <<room, rows, member, call>>

Next ==
    \/ \E u \in Users, q \in Posts \cup Patches : Ask(u, q)
    \/ \E u \in Users : Create(u) \/ Update(u) \/ Fail(u)
    \/ \E u \in Users \ Chiefs, p \in Projects, l \in Levels \cup {NoMember} :
          SetMember(u, p, l)
    \/ \E p \in Projects, k \in Shared \cap Stored :
          \E i \in DOMAIN rows[k] : SetCrew(p, <<k, i>>)

Spec == Init /\ [][Next]_vars

-----------------------------------------------------------------------------
(* A record is bound to its project for life: whatever is patched, in this *)
(* row or in the rows its references lead through, no step moves a stored  *)
(* row to another project.                                                 *)
RowStaysInItsProject ==
    [][\A k \in DOMAIN rows : \A i \in DOMAIN rows[k] :
          Home(k, i)' = Home(k, i)]_vars

(* Between the check of a write and the write itself other requests run;   *)
(* none of them moves the place the check was made for: when the write     *)
(* comes, its references still lead to the project that was checked.       *)
CheckHoldsAtWrite ==
    \A u \in {v \in Users : call[v] # Idle} :
        LET q == call[u]
        IN  Follow(q.kind, q.id, Target(q), Routes[q.kind].scope.via) =
                q.checked

(* The joins of the lists and the look-ups of the detail routes, written   *)
(* apart in services and routers, show a user the same rows.               *)
ListAgreesWithGet ==
    \A u \in Users, k \in Stored : Listed(u, k) = Gets(u, k)

=============================================================================
