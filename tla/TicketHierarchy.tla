-------------------------- MODULE TicketHierarchy --------------------------
(***************************************************************************)
(* Parents and epics of tickets: create, update with a new parent, and     *)
(* delete, each in a transaction of its own.  The service reads the parent *)
(* chain row by row without locks; what holds when it commits is kept by   *)
(* the foreign keys, parent_id with ON DELETE RESTRICT and epic_id with ON *)
(* DELETE SET NULL, and by the row locks of their checks.                  *)
(***************************************************************************)
EXTENDS Naturals, FiniteSets

CONSTANTS
    Tickets, Projects, None, Absent,
    Sessions,      \* database sessions, one request at a time
    Kinds          \* the types the clients create

VARIABLES
    rows,          \* committed tickets
    pc,            \* where the request of a session stands
    req,           \* the request
    cursor,        \* where its walk up the parent chain stands
    epic,          \* the epic its walk found
    locks,         \* row locks it holds, <<ticket, mode>>
    nulled         \* rows whose epic_id its delete has cleared

local == <<pc, req, cursor, epic, locks, nulled>>
vars == <<rows, local>>

Forest == INSTANCE TicketForest

ASSUME HierarchyAssumption ==
    /\ None \notin Tickets /\ Absent \notin Forest!Node
    /\ Kinds \subseteq Forest!Types

Exists(t) == rows[t] # Absent

Request == [op : {"create", "update", "delete"}, ticket : Tickets,
            type : Forest!Types, project : Projects, parent : Tickets \cup {None}]
NoRequest == [op |-> "none"]

PCs == {"idle", "load", "check", "climb", "walk", "refer_parent", "refer_epic",
        "count", "remove", "restrict", "nullify", "commit"}
LockModes == {"share", "update", "exclusive"}

HierarchyTypeOK ==
    /\ rows \in [Tickets -> Forest!Node \cup {Absent}]
    /\ pc \in [Sessions -> PCs]
    /\ req \in [Sessions -> Request \cup {NoRequest}]
    /\ cursor \in [Sessions -> Tickets \cup {None}]
    /\ epic \in [Sessions -> Tickets \cup {None}]
    /\ locks \in [Sessions -> SUBSET (Tickets \X LockModes)]
    /\ nulled \in [Sessions -> SUBSET Tickets]

Init ==
    /\ rows = [t \in Tickets |-> Absent]
    /\ pc = [s \in Sessions |-> "idle"]
    /\ req = [s \in Sessions |-> NoRequest]
    /\ cursor = [s \in Sessions |-> None]
    /\ epic = [s \in Sessions |-> None]
    /\ locks = [s \in Sessions |-> {}]
    /\ nulled = [s \in Sessions |-> {}]

T(s) == req[s].ticket

-----------------------------------------------------------------------------
(* Row locks.                                                              *)

\* FOR KEY SHARE is taken on a referenced row, NO KEY UPDATE by an UPDATE of
\* epic_id, "exclusive" is FOR UPDATE and the lock of a DELETE.
Conflict(m, n) == "exclusive" \in {m, n} \/ (m = "update" /\ n = "update")

Blocks(o, t, m) == \E l \in locks[o] : l[1] = t /\ Conflict(m, l[2])
Free(s, t, m) == \A o \in Sessions \ {s} : ~Blocks(o, t, m)

Children(t) == {c \in Tickets : Exists(c) /\ rows[c].parent = t}

\* Rows of the epic t that the ON DELETE SET NULL of s has yet to clear.
Referring(s, t) == {c \in Tickets : Exists(c) /\ rows[c].epic = t} \ nulled[s]

\* The foreign-key check looks at a reference that is new.
NewParent(s) ==
    /\ req[s].parent # None
    /\ req[s].op = "update" => req[s].parent # rows[T(s)].parent
NewEpic(s) ==
    /\ epic[s] # None
    /\ req[s].op = "update" => epic[s] # rows[T(s)].epic

\* The locks that the next statement of s asks for.
Wants(s) ==
    CASE pc[s] \in {"load", "remove"} -> {<<T(s), "exclusive">>}
      [] pc[s] = "refer_parent" /\ NewParent(s) -> {<<req[s].parent, "share">>}
      [] pc[s] = "refer_epic" /\ NewEpic(s) -> {<<epic[s], "share">>}
      [] pc[s] = "restrict" -> Children(T(s)) \X {"share"}
      [] pc[s] = "nullify" -> Referring(s, T(s)) \X {"update"}
      [] OTHER -> {}

WaitsFor(s, o) == s # o /\ \E w \in Wants(s) : Blocks(o, w[1], w[2])

\* s belongs to sessions that wait for one another.
Deadlocked(s) ==
    \E C \in SUBSET Sessions :
        s \in C /\ \A a \in C : \E b, c \in C : WaitsFor(a, b) /\ WaitsFor(c, a)

Go(s, next) == pc' = [pc EXCEPT ![s] = next]
Take(s, t, m) == Free(s, t, m) /\ locks' = [locks EXCEPT ![s] = @ \cup {<<t, m>>}]

-----------------------------------------------------------------------------
(* Begin and end of a request.                                             *)

\* The id of a ticket that is gone, and that nobody mentions any more, is as
\* good as a new one.
New(t) ==
    /\ ~Exists(t)
    /\ \A s \in Sessions :
        /\ t \notin {cursor[s], epic[s]}
        /\ req[s] # NoRequest => t \notin {req[s].ticket, req[s].parent}

BeginCreate(s) ==
    /\ pc[s] = "idle"
    /\ \E t \in Tickets, k \in Kinds, j \in Projects, p \in Tickets \cup {None} :
        /\ New(t) /\ p # t
        /\ req' = [req EXCEPT ![s] = [op |-> "create", ticket |-> t, type |-> k,
                                      project |-> j, parent |-> p]]
    /\ Go(s, "check")
    /\ UNCHANGED <<rows, cursor, epic, locks, nulled>>

\* update with parent_id, or delete.
BeginChange(s) ==
    /\ pc[s] = "idle"
    /\ \E t \in Tickets, p \in Tickets \cup {None}, op \in {"update", "delete"} :
        /\ Exists(t)
        /\ op = "delete" => p = None
        /\ req' = [req EXCEPT ![s] = [op |-> op, ticket |-> t, type |-> rows[t].type,
                                      project |-> rows[t].project, parent |-> p]]
        /\ Go(s, IF op = "update" THEN "load" ELSE "count")
    /\ UNCHANGED <<rows, cursor, epic, locks, nulled>>

Release(s) ==
    /\ Go(s, "idle")
    /\ req' = [req EXCEPT ![s] = NoRequest]
    /\ cursor' = [cursor EXCEPT ![s] = None]
    /\ epic' = [epic EXCEPT ![s] = None]
    /\ locks' = [locks EXCEPT ![s] = {}]
    /\ nulled' = [nulled EXCEPT ![s] = {}]

Refuse(s) == Release(s) /\ UNCHANGED rows

-----------------------------------------------------------------------------
(* create and update.                                                      *)

\* _load(for_update=True)
LoadForUpdate(s) ==
    /\ pc[s] = "load" /\ Exists(T(s))
    /\ Take(s, T(s), "exclusive")
    /\ Go(s, "check")
    /\ UNCHANGED <<rows, req, cursor, epic, nulled>>

FitsAnyProject(s) ==
    \/ req[s].parent = None /\ ~Forest!NeedsParent(req[s].type)
    \/ /\ req[s].parent # None /\ Exists(req[s].parent)
       /\ rows[req[s].parent].type \in Forest!ParentTypes(req[s].type)
ParentFits(s) == Forest!Fits(req[s].type, req[s].project, req[s].parent)

\* _validate_hierarchy: the parent's row.  A create walks to the epic and then
\* inserts.  An update climbs to look for a cycle; the query of its walk flushes
\* the new parent first.
AfterCheck(s) ==
    IF req[s].op = "create" THEN "walk"
    ELSE IF req[s].parent # None THEN "climb" ELSE "refer_parent"

CheckParent(s) ==
    /\ pc[s] = "check" /\ ParentFits(s)
    /\ cursor' = [cursor EXCEPT ![s] = req[s].parent]
    /\ Go(s, AfterCheck(s))
    /\ UNCHANGED <<rows, req, epic, locks, nulled>>

\* One row of the climb; a cursor whose row is gone ends it.
Climb(s) ==
    /\ pc[s] = "climb" /\ cursor[s] # T(s)
    /\ IF cursor[s] # None
       THEN /\ cursor' = [cursor EXCEPT ![s] =
                   IF Exists(@) THEN rows[@].parent ELSE None]
            /\ UNCHANGED pc
       ELSE cursor' = [cursor EXCEPT ![s] = req[s].parent] /\ Go(s, "refer_parent")
    /\ UNCHANGED <<rows, req, epic, locks, nulled>>

\* One row of _walk_to_epic.  (The chain has five tickets at most, its cap is
\* 50.)
WalkOn(s) ==
    /\ pc[s] = "walk"
    /\ cursor[s] # None /\ Exists(cursor[s]) /\ rows[cursor[s]].type # "epic"
    /\ cursor' = [cursor EXCEPT ![s] = rows[@].parent]
    /\ UNCHANGED <<rows, pc, req, epic, locks, nulled>>

\* At an epic, or at the end.
WalkEnds(s) ==
    /\ pc[s] = "walk"
    /\ cursor[s] # None /\ Exists(cursor[s]) => rows[cursor[s]].type = "epic"
    /\ epic' = [epic EXCEPT ![s] =
           IF cursor[s] # None /\ Exists(cursor[s]) THEN cursor[s] ELSE None]
    /\ Go(s, IF req[s].op = "create" THEN "refer_parent" ELSE "refer_epic")
    /\ UNCHANGED <<rows, req, cursor, locks, nulled>>

\* INSERT or UPDATE: the check of fk_tickets_parent_id, and that of
\* fk_tickets_epic_id.
ReferToParent(s) ==
    /\ pc[s] = "refer_parent"
    /\ IF NewParent(s)
       THEN Exists(req[s].parent) /\ Take(s, req[s].parent, "share")
       ELSE UNCHANGED locks
    /\ Go(s, IF req[s].op = "create" THEN "refer_epic" ELSE "walk")
    /\ UNCHANGED <<rows, req, cursor, epic, nulled>>

ReferToEpic(s) ==
    /\ pc[s] = "refer_epic"
    /\ IF NewEpic(s)
       THEN Exists(epic[s]) /\ Take(s, epic[s], "share")
       ELSE UNCHANGED locks
    /\ Go(s, "commit")
    /\ UNCHANGED <<rows, req, cursor, epic, nulled>>

-----------------------------------------------------------------------------
(* delete.                                                                 *)

\* Loaded, and no children counted.
CountChildren(s) ==
    /\ pc[s] = "count" /\ Exists(T(s)) /\ Children(T(s)) = {}
    /\ Go(s, "remove")
    /\ UNCHANGED <<rows, req, cursor, epic, locks, nulled>>

\* DELETE; it finds no row when somebody else was faster, and goes on.
RemoveRow(s) ==
    /\ pc[s] = "remove"
    /\ IF Exists(T(s))
       THEN Take(s, T(s), "exclusive") /\ Go(s, "restrict")
       ELSE UNCHANGED locks /\ Go(s, "commit")
    /\ UNCHANGED <<rows, req, cursor, epic, nulled>>

\* ON DELETE RESTRICT
NoRestriction(s) == TRUE
Unrestricted(s) == Children(T(s)) = {}

RestrictOK(s) ==
    /\ pc[s] = "restrict" /\ Unrestricted(s)
    /\ Go(s, "nullify")
    /\ UNCHANGED <<rows, req, cursor, epic, locks, nulled>>

\* ON DELETE SET NULL, one row at a time.
ClearEpic(s) ==
    /\ pc[s] = "nullify"
    /\ \E c \in Referring(s, T(s)) :
        /\ Take(s, c, "update")
        /\ nulled' = [nulled EXCEPT ![s] = @ \cup {c}]
    /\ UNCHANGED <<rows, pc, req, cursor, epic>>

EpicsCleared(s) ==
    /\ pc[s] = "nullify" /\ Referring(s, T(s)) = {}
    /\ Go(s, "commit")
    /\ UNCHANGED <<rows, req, cursor, epic, locks, nulled>>

-----------------------------------------------------------------------------

\* TicketNotFoundError, HierarchyError, CrossProjectParentError, a foreign key
\* that fails, HasChildrenError.
Refused(s) ==
    /\ \/ pc[s] \in {"load", "count"} /\ ~Exists(T(s))
       \/ pc[s] = "check" /\ ~ParentFits(s)
       \/ pc[s] = "climb" /\ cursor[s] = T(s)
       \/ pc[s] = "refer_parent" /\ NewParent(s) /\ ~Exists(req[s].parent)
       \/ pc[s] = "refer_epic" /\ NewEpic(s) /\ ~Exists(epic[s])
       \/ pc[s] = "count" /\ Children(T(s)) # {}
       \/ /\ pc[s] = "restrict" /\ ~Unrestricted(s)
          /\ \E c \in Children(T(s)) : Free(s, c, "share")
    /\ Refuse(s)

DeadlockVictim(s) == Deadlocked(s) /\ Refuse(s)

PlacedUnderNoEpic(s) ==
    [type |-> req[s].type, project |-> req[s].project, parent |-> req[s].parent]
Placed(s) == [type |-> req[s].type, project |-> req[s].project,
              parent |-> req[s].parent, epic |-> epic[s]]

Written(s) ==
    IF req[s].op = "delete"
    THEN [u \in Tickets |->
             IF u = T(s) THEN Absent
             ELSE IF u \in nulled[s] THEN [rows[u] EXCEPT !.epic = None] ELSE rows[u]]
    ELSE [rows EXCEPT ![T(s)] = Placed(s)]

Commit(s) ==
    /\ pc[s] = "commit"
    /\ rows' = Written(s)
    /\ Release(s)

Place(s) ==
    \/ LoadForUpdate(s) \/ CheckParent(s) \/ Climb(s) \/ WalkOn(s) \/ WalkEnds(s)
    \/ ReferToParent(s) \/ ReferToEpic(s)
Delete(s) ==
    \/ CountChildren(s) \/ RemoveRow(s) \/ RestrictOK(s) \/ ClearEpic(s) \/ EpicsCleared(s)

Step(s) ==
    \/ BeginCreate(s) \/ BeginChange(s) \/ Place(s) \/ Delete(s)
    \/ Refused(s) \/ DeadlockVictim(s) \/ Commit(s)

Next == \E s \in Sessions : Step(s)

Spec == Init /\ [][Next]_vars

-----------------------------------------------------------------------------
(* Properties.                                                             *)

\* Although the parent is checked without a lock, every parent exists and is
\* one that its child may have, whatever was moved or deleted meanwhile.
ParentsFit ==
    \A t \in Tickets :
        Exists(t) => Forest!Fits(rows[t].type, rows[t].project, rows[t].parent)

\* No tickets are each other's ancestors, although two updates may each look
\* for a cycle before the other has written.
NoCycles ==
    \A C \in SUBSET {t \in Tickets : Exists(t)} :
        C # {} => \E t \in C : rows[t].parent \notin C

\* epic_id names an epic of the same project that is there.
EpicsExist ==
    \A t \in Tickets : Exists(t) => Forest!IsEpic(rows[t].epic, rows[t].project)

\* The rows under concurrent transactions are the forest of TicketForest.
ForestSpec == Forest!Spec
=============================================================================
