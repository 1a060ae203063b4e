----------------------------- MODULE RowWriters -----------------------------
(***************************************************************************)
(* How a request changes rows (services/crud.py, update): db.get loads the *)
(* row into the request's session, the request computes new values from    *)
(* what it loaded, and the commit writes the columns whose value differs   *)
(* from the loaded one.  expire_on_commit is off (database.py), so a row   *)
(* stays as loaded for the whole request, over several commits if need be. *)
(*                                                                         *)
(* Nothing compares the row with what was loaded.  `stale` records which   *)
(* rows another request has written since a session loaded them.           *)
(***************************************************************************)
EXTENDS Naturals

CONSTANTS
    Requests, Rows, None,
    MaxCalls  \* bound on the requests that begin

VARIABLES
    row,    \* each row's columns, None before it is inserted
    held,   \* the rows each request's session has loaded, as loaded
    stale,  \* <<request, row>> written by another request since
    calls   \* requests begun

rowVars == <<row, held, stale>>

Call == calls < MaxCalls /\ calls' = calls + 1

\* A session that has loaded nothing.
Nothing == [k \in {} |-> None]

Busy(r) == held[r] # Nothing

\* The UPDATE of one row.  Columns in `always` are written even when the new
\* value looks the same: a float is never equal to the Decimal that was loaded
\* for it unless it is exact in binary.
Flush(now, was, new, always) ==
    [c \in DOMAIN now |->
        IF new[c] # was[c] \/ c \in always THEN new[c] ELSE now[c]]

\* exclude_unset: a PATCH sets the columns it names.
Patched(was, patch) ==
    [c \in DOMAIN was |-> IF c \in DOMAIN patch THEN patch[c] ELSE was[c]]

-----------------------------------------------------------------------------
RowInit(first) ==
    /\ row = first
    /\ held = [r \in Requests |-> Nothing]
    /\ stale = {}
    /\ calls = 0

\* One SELECT loads rows; a row that is loaded already stays as it was.
Load(r, ks) ==
    /\ ks # {} /\ \A k \in ks : row[k] # None
    /\ held' = [held EXCEPT ![r] =
            [k \in ks \cup DOMAIN held[r] |->
                IF k \in DOMAIN held[r] THEN held[r][k] ELSE row[k]]]
    /\ UNCHANGED <<row, stale>>

\* The other sessions that have loaded one of the rows ks.
Readers(r, ks) ==
    {w \in (Requests \ {r}) \X ks : w[2] \in DOMAIN held[w[1]]}

\* The UPDATEs of some of the loaded rows.
Written(r, new, always) ==
    /\ DOMAIN new \subseteq DOMAIN held[r]
    /\ row' = [k \in Rows |->
            IF k \in DOMAIN new
            THEN Flush(row[k], held[r][k], new[k], always) ELSE row[k]]

\* One commit writes some of the loaded rows, and the request ends.
Save(r, new, always) ==
    /\ Written(r, new, always)
    /\ held' = [held EXCEPT ![r] = Nothing]
    /\ stale' = {w \in stale : w[1] # r} \cup Readers(r, DOMAIN new)

\* A commit after which the request goes on: the rows it wrote are loaded
\* anew (db.refresh), the others stay as they were loaded.
Commit(r, new, always) ==
    /\ Written(r, new, always)
    /\ held' = [held EXCEPT ![r] =
            [k \in DOMAIN held[r] |->
                IF k \in DOMAIN new THEN row'[k] ELSE held[r][k]]]
    /\ stale' = {w \in stale : w[1] # r \/ w[2] \notin DOMAIN new}
                 \cup Readers(r, DOMAIN new)

\* INSERTs in one commit.
Insert(new) ==
    /\ \A k \in DOMAIN new : row[k] = None
    /\ row' = [k \in Rows |-> IF k \in DOMAIN new THEN new[k] ELSE row[k]]
    /\ UNCHANGED <<held, stale>>

\* The request ends, or dies, without a commit: the session rolls back.
Abandon(r) ==
    /\ Busy(r)
    /\ held' = [held EXCEPT ![r] = Nothing]
    /\ stale' = {w \in stale : w[1] # r}
    /\ UNCHANGED row

RowsIdle == UNCHANGED rowVars

-----------------------------------------------------------------------------
\* What a session holds is the row as it is, unless it is marked stale: the
\* mark is what the properties of the modules that extend this one rely on.
HeldIsCurrent ==
    \A r \in Requests : \A k \in DOMAIN held[r] :
        held[r][k] = row[k] \/ <<r, k>> \in stale
=============================================================================
