----------------------- MODULE TicketHierarchyProofs -----------------------
(***************************************************************************)
(* Parents fit, there is no cycle, epics exist, and the rows are a forest, *)
(* for any tickets, projects and sessions.  The inductive invariant says   *)
(* what a session has learnt without locks that deletions and other moves  *)
(* cannot make wrong, and which locks it holds for the rest.               *)
(***************************************************************************)
EXTENDS TicketHierarchy, TLAPS

\* Some request is about to create t.
Pending(t) == \E o \in Sessions : req[o].op = "create" /\ req[o].ticket = t

\* What was read of t stays true as long as t is there.
IsIn(t, project) == ~Pending(t) /\ (Exists(t) => rows[t].project = project)

PlaceOps == {"create", "update"}

\* Where a request stands.
AtPC(s) ==
    /\ pc[s] = "idle" <=> req[s] = NoRequest
    /\ pc[s] = "idle" => epic[s] = None
    /\ pc[s] \in {"load", "climb"} => req[s].op = "update"
    /\ pc[s] \in {"check", "walk", "refer_parent", "refer_epic"} => req[s].op \in PlaceOps
    /\ pc[s] \in {"count", "remove", "restrict", "nullify"} => req[s].op = "delete"

\* A ticket that is being created is nobody else's.
CreatePrivate ==
    \A o, s \in Sessions :
        req[o].op = "create" =>
            /\ ~Exists(req[o].ticket)
            /\ s # o /\ req[s] # NoRequest => req[s].ticket # req[o].ticket

Checked(s) ==
    pc[s] \in {"climb", "walk", "refer_parent", "refer_epic"}
    \/ (pc[s] = "commit" /\ req[s].op \in PlaceOps)

\* What s has learnt.
TicketKnown(s) ==
    req[s].op \in {"update", "delete"} /\ Exists(T(s)) =>
        rows[T(s)].type = req[s].type /\ rows[T(s)].project = req[s].project
ParentKnown(s) ==
    Checked(s) =>
        IF req[s].parent = None THEN ~Forest!NeedsParent(req[s].type)
        ELSE /\ IsIn(req[s].parent, req[s].project)
             /\ Exists(req[s].parent) =>
                    rows[req[s].parent].type \in Forest!ParentTypes(req[s].type)
CursorKnown(s) ==
    /\ pc[s] = "refer_parent" /\ req[s].op = "update" => cursor[s] = req[s].parent
    /\ pc[s] = "walk" /\ cursor[s] # None => IsIn(cursor[s], req[s].project)
EpicKnown(s) ==
    epic[s] # None =>
        IsIn(epic[s], req[s].project) /\ (Exists(epic[s]) => rows[epic[s]].type = "epic")

Known(s) ==
    AtPC(s) /\ TicketKnown(s) /\ ParentKnown(s) /\ CursorKnown(s) /\ EpicKnown(s)

\* s refers to its parent, and to its epic.
Parented(s) ==
    \/ req[s].op = "create" /\ pc[s] \in {"refer_epic", "commit"}
    \/ req[s].op = "update" /\ pc[s] \in {"walk", "refer_epic", "commit"}
Placing(s) == req[s].op \in PlaceOps /\ pc[s] = "commit"

Has(s, t, m) == <<t, m>> \in locks[s]

\* What s holds.
RowHeld(s) ==
    req[s].op = "update" /\ pc[s] # "load" => Exists(T(s)) /\ Has(s, T(s), "exclusive")
ParentHeld(s) ==
    Parented(s) /\ req[s].parent # None =>
        /\ Exists(req[s].parent)
        /\ \/ Has(s, req[s].parent, "share")
           \/ req[s].op = "update" /\ rows[T(s)].parent = req[s].parent
EpicHeld(s) ==
    Placing(s) /\ epic[s] # None =>
        /\ Exists(epic[s])
        /\ \/ Has(s, epic[s], "share")
           \/ req[s].op = "update" /\ rows[T(s)].epic = epic[s]

\* A delete that found its row, and how far it is.
Deleting(s) == req[s].op = "delete" /\ Exists(T(s)) /\ pc[s] \in {"restrict", "nullify", "commit"}
DeleteHeld(s) ==
    /\ Deleting(s) => Has(s, T(s), "exclusive")
    /\ req[s].op = "delete" /\ pc[s] \in {"restrict", "nullify"} => Exists(T(s))
    /\ Deleting(s) /\ pc[s] # "restrict" => Children(T(s)) = {}
    /\ Deleting(s) /\ pc[s] = "commit" => Referring(s, T(s)) = {}
    /\ nulled[s] # {} => Deleting(s)
    /\ \A c \in nulled[s] :
           Exists(c) /\ rows[c].epic = T(s) /\ Has(s, c, "update")

Held(s) == RowHeld(s) /\ ParentHeld(s) /\ EpicHeld(s) /\ DeleteHeld(s)

LocksCompatible ==
    \A s, o \in Sessions : \A t \in Tickets : \A m, n \in LockModes :
        s # o /\ Has(s, t, m) /\ Has(o, t, n) => ~Conflict(m, n)

HierarchyInv ==
    /\ HierarchyTypeOK /\ ParentsFit /\ EpicsExist
    /\ LocksCompatible /\ CreatePrivate
    /\ \A s \in Sessions : Known(s) /\ Held(s)

-----------------------------------------------------------------------------
(* Facts about requests and locks.                                         *)

\* The fields of a request, when there is one.
LEMMA RequestFields ==
    ASSUME HierarchyTypeOK, NEW s \in Sessions, req[s] # NoRequest
    PROVE  /\ req[s] \in Request
           /\ req[s].op \in {"create", "update", "delete"} /\ T(s) \in Tickets
           /\ req[s].type \in Forest!Types /\ req[s].project \in Projects
           /\ req[s].parent \in Tickets \cup {None}
  BY DEF HierarchyTypeOK, Request, T

\* The fields of a row, when there is one.
LEMMA RowFields ==
    ASSUME HierarchyTypeOK, NEW t \in Tickets, Exists(t)
    PROVE  /\ rows[t] \in Forest!Node
           /\ rows[t].type \in Forest!Types /\ rows[t].project \in Projects
           /\ rows[t].parent \in Tickets \cup {None}
           /\ rows[t].epic \in Tickets \cup {None}
  BY DEF HierarchyTypeOK, Exists, Forest!Node

\* A session without a request has no op that matters.
LEMMA NoOp ==
    NoRequest.op = "none"
  BY DEF NoRequest

\* A lock that was free for s goes together with those of the others.
LEMMA TakeCompatible ==
    ASSUME HierarchyTypeOK, LocksCompatible, NEW s \in Sessions,
           NEW t \in Tickets, NEW m \in LockModes, Take(s, t, m)
    PROVE  LocksCompatible' /\ locks' \in [Sessions -> SUBSET (Tickets \X LockModes)]
  <1>1. locks' = [locks EXCEPT ![s] = @ \cup {<<t, m>>}]
        /\ locks \in [Sessions -> SUBSET (Tickets \X LockModes)]
    BY DEF Take, HierarchyTypeOK
  <1>2. locks'[s] = locks[s] \cup {<<t, m>>} /\ \A o \in Sessions \ {s} : locks'[o] = locks[o]
    BY <1>1
  <1>3. \A o \in Sessions \ {s}, n \in LockModes : Has(o, t, n) => ~Conflict(m, n)
    BY DEF Take, Free, Blocks, Has
  <1>4. ASSUME NEW a \in Sessions, NEW b \in Sessions, NEW u \in Tickets,
               NEW k \in LockModes, NEW n \in LockModes,
               a # b, Has(a, u, k)', Has(b, u, n)'
        PROVE  ~Conflict(k, n)
    <2>1. CASE a # s /\ b # s
      BY <2>1, <1>2, <1>4 DEF Has, LocksCompatible
    <2>2. CASE a = s
      <3>1. Has(b, u, n)
        BY <2>2, <1>2, <1>4 DEF Has
      <3>2. Has(a, u, k) \/ (u = t /\ k = m)
        BY <2>2, <1>2, <1>4 DEF Has
      <3> QED BY <3>1, <3>2, <1>3, <1>4, <2>2 DEF LocksCompatible
    <2>3. CASE b = s
      <3>1. Has(a, u, k)
        BY <2>3, <1>2, <1>4 DEF Has
      <3>2. Has(b, u, n) \/ (u = t /\ n = m)
        BY <2>3, <1>2, <1>4 DEF Has
      <3>3. Conflict(k, n) <=> Conflict(n, k)
        BY DEF Conflict
      <3> QED BY <3>1, <3>2, <3>3, <1>3, <1>4, <2>3 DEF LocksCompatible
    <2> QED BY <2>1, <2>2, <2>3
  <1> QED BY <1>1, <1>2, <1>4 DEF LocksCompatible, Conflict

-----------------------------------------------------------------------------
(* Steps that write no row.                                                *)

\* What a session has learnt and holds is not disturbed by another session that
\* writes no row and creates nothing the first one mentions.
LEMMA OthersKeep ==
    ASSUME HierarchyInv, NEW o \in Sessions, rows' = rows,
           pc'[o] = pc[o], req'[o] = req[o], cursor'[o] = cursor[o], epic'[o] = epic[o],
           locks'[o] = locks[o], nulled'[o] = nulled[o],
           \A t \in Tickets : Pending(t)' => Pending(t) \/ New(t)
    PROVE  Known(o)' /\ Held(o)'
  <1>1. Known(o) /\ Held(o) /\ HierarchyTypeOK
    BY DEF HierarchyInv
  <1>2. AtPC(o)' /\ TicketKnown(o)'
    BY <1>1 DEF Known, AtPC, TicketKnown, T, Exists
  <1>3. ASSUME NEW t \in Tickets, NEW j, IsIn(t, j), ~New(t)
        PROVE  ~Pending(t)' /\ (Exists(t) => rows[t].project = j)
    BY <1>3 DEF IsIn
  <1>4. ParentKnown(o)'
    <2>1. CASE Checked(o) /\ req[o].parent # None
      <3>1. req[o] # NoRequest
        BY <2>1, <1>1, NoOp DEF Known, AtPC, Checked, PlaceOps
      <3>2. req[o].parent \in Tickets /\ ~New(req[o].parent)
        BY <3>1, <2>1, <1>1, RequestFields DEF New
      <3>3. \A p : p = req[o].parent => ~Pending(p)'
        BY <3>2, <1>3, <2>1, <1>1 DEF Known, ParentKnown
      <3> QED BY <3>3, <2>1, <1>1 DEF Known, ParentKnown, IsIn, Pending, Exists, Checked
    <2>2. CASE ~(Checked(o) /\ req[o].parent # None)
      BY <2>2, <1>1 DEF Known, ParentKnown, Checked
    <2> QED BY <2>1, <2>2
  <1>5. CursorKnown(o)'
    <2>1. CASE pc[o] = "walk" /\ cursor[o] # None
      <3>1. cursor[o] \in Tickets /\ ~New(cursor[o])
        BY <2>1, <1>1 DEF New, HierarchyTypeOK
      <3>2. \A c : c = cursor[o] => ~Pending(c)'
        BY <3>1, <1>3, <2>1, <1>1 DEF Known, CursorKnown
      <3> QED BY <3>2, <2>1, <1>1 DEF Known, CursorKnown, IsIn, Pending, Exists
    <2>2. CASE ~(pc[o] = "walk" /\ cursor[o] # None)
      BY <2>2, <1>1 DEF Known, CursorKnown
    <2> QED BY <2>1, <2>2
  <1>6. EpicKnown(o)'
    <2>1. CASE epic[o] # None
      <3>1. epic[o] \in Tickets /\ ~New(epic[o])
        BY <2>1, <1>1 DEF New, HierarchyTypeOK
      <3>2. \A c : c = epic[o] => ~Pending(c)'
        BY <3>1, <1>3, <2>1, <1>1 DEF Known, EpicKnown
      <3> QED BY <3>2, <2>1, <1>1 DEF Known, EpicKnown, IsIn, Pending, Exists
    <2>2. CASE epic[o] = None
      BY <2>2 DEF EpicKnown
    <2> QED BY <2>1, <2>2
  <1>7. RowHeld(o)' /\ ParentHeld(o)' /\ EpicHeld(o)'
    BY <1>1 DEF Held, RowHeld, ParentHeld, EpicHeld, Parented, Placing, Exists, Has, T
  <1>8. DeleteHeld(o)'
    BY <1>1 DEF Held, DeleteHeld, Deleting, Children, Referring, Exists, Has, T
  <1> QED BY <1>2, <1>4, <1>5, <1>6, <1>7, <1>8 DEF Known, Held

\* What is true of s makes the invariant when s takes a step within its request.
LEMMA Progress ==
    ASSUME HierarchyInv, NEW s \in Sessions, rows' = rows, req' = req,
           HierarchyTypeOK', LocksCompatible',
           \A o \in Sessions \ {s} :
               /\ pc'[o] = pc[o] /\ cursor'[o] = cursor[o] /\ epic'[o] = epic[o]
               /\ locks'[o] = locks[o] /\ nulled'[o] = nulled[o],
           Known(s)', Held(s)'
    PROVE  HierarchyInv'
  <1>1. \A t \in Tickets : Pending(t)' => Pending(t)
    BY DEF Pending
  <1>2. ASSUME NEW o \in Sessions \ {s}
        PROVE  Known(o)' /\ Held(o)'
    BY <1>1, <1>2, OthersKeep
  <1>3. ParentsFit' /\ EpicsExist' /\ CreatePrivate'
    BY DEF HierarchyInv, ParentsFit, EpicsExist, CreatePrivate, Exists,
           Forest!Fits, Forest!IsEpic, Forest!Exists
  <1> QED BY <1>2, <1>3 DEF HierarchyInv

LEMMA GoTo ==
    ASSUME HierarchyTypeOK, NEW s \in Sessions, NEW next \in PCs, Go(s, next)
    PROVE  /\ pc' \in [Sessions -> PCs] /\ pc'[s] = next
           /\ \A o \in Sessions \ {s} : pc'[o] = pc[o]
  BY DEF HierarchyTypeOK, Go

LEMMA TakeGives ==
    ASSUME HierarchyTypeOK, NEW s \in Sessions, NEW t, NEW m, Take(s, t, m)
    PROVE  /\ locks'[s] = locks[s] \cup {<<t, m>>}
           /\ \A o \in Sessions \ {s} : locks'[o] = locks[o]
  BY DEF HierarchyTypeOK, Take

\* What the invariant says of the session that moves.
LEMMA Mover ==
    ASSUME HierarchyInv, NEW s \in Sessions
    PROVE  /\ HierarchyTypeOK /\ LocksCompatible
           /\ AtPC(s) /\ TicketKnown(s) /\ ParentKnown(s) /\ CursorKnown(s) /\ EpicKnown(s)
           /\ RowHeld(s) /\ ParentHeld(s) /\ EpicHeld(s) /\ DeleteHeld(s)
           /\ pc[s] # "idle" =>
                /\ req[s] # NoRequest /\ req[s].op \in {"create", "update", "delete"}
                /\ T(s) \in Tickets /\ req[s].parent \in Tickets \cup {None}
           /\ cursor[s] \in Tickets \cup {None} /\ epic[s] \in Tickets \cup {None}
  <1>1. HierarchyTypeOK /\ LocksCompatible /\ Known(s) /\ Held(s)
    BY DEF HierarchyInv
  <1>2. pc[s] # "idle" => req[s] # NoRequest
    BY <1>1 DEF Known, AtPC
  <1>3. cursor[s] \in Tickets \cup {None} /\ epic[s] \in Tickets \cup {None}
    BY <1>1 DEF HierarchyTypeOK
  <1> QED BY <1>1, <1>2, <1>3, RequestFields DEF Known, Held

LEMMA LoadStep ==
    ASSUME HierarchyInv, NEW s \in Sessions, LoadForUpdate(s)
    PROVE  HierarchyInv'
  <1> USE Mover
  <1>1. /\ Go(s, "check") /\ Take(s, T(s), "exclusive") /\ pc[s] = "load" /\ Exists(T(s))
        /\ UNCHANGED <<rows, req, cursor, epic, nulled>> /\ T(s) \in Tickets
    BY DEF LoadForUpdate
  <1>2. /\ LocksCompatible' /\ HierarchyTypeOK' /\ pc'[s] = "check"
        /\ \A o \in Sessions \ {s} : pc'[o] = pc[o]
    BY <1>1, GoTo, TakeCompatible DEF PCs, LockModes, HierarchyTypeOK
  <1>3. /\ locks'[s] = locks[s] \cup {<<T(s), "exclusive">>}
        /\ \A o \in Sessions \ {s} : locks'[o] = locks[o]
    BY <1>1, TakeGives
  <1>4. Known(s)'
    BY <1>1, <1>2 DEF Known, AtPC, TicketKnown, ParentKnown, CursorKnown, EpicKnown,
                      Checked, PlaceOps, IsIn, Pending, Exists, T
  <1>5. Held(s)'
    BY <1>1, <1>2, <1>3 DEF Held, RowHeld, ParentHeld, EpicHeld, DeleteHeld, Parented,
                            Placing, Deleting, Has, Exists, T, AtPC
  <1> QED BY <1>1, <1>2, <1>3, <1>4, <1>5, Progress

LEMMA CheckStep ==
    ASSUME HierarchyInv, NEW s \in Sessions, CheckParent(s)
    PROVE  HierarchyInv'
  <1> USE Mover
  <1>1. /\ pc[s] = "check" /\ ParentFits(s) /\ req[s].op \in PlaceOps
        /\ UNCHANGED <<rows, req, epic, locks, nulled>> /\ T(s) \in Tickets
        /\ cursor' = [cursor EXCEPT ![s] = req[s].parent]
    BY DEF CheckParent, AtPC
  <1>2. PICK next \in {"walk", "climb", "refer_parent"} :
            /\ Go(s, next)
            /\ next = "walk" <=> req[s].op = "create"
            /\ next = "climb" => req[s].op = "update"
    <2> DEFINE next == AfterCheck(s)
    <2>1. /\ next \in {"walk", "climb", "refer_parent"}
          /\ next = "walk" <=> req[s].op = "create"
          /\ next = "climb" => req[s].op = "update"
      BY <1>1 DEF AfterCheck, PlaceOps
    <2>2. Go(s, next)
      BY DEF CheckParent
    <2> QED BY <2>1, <2>2
  <1>3. /\ HierarchyTypeOK' /\ pc'[s] = next
        /\ \A o \in Sessions \ {s} : pc'[o] = pc[o]
    BY <1>1, <1>2, GoTo DEF PCs, HierarchyTypeOK
  <1>4. cursor'[s] = req[s].parent /\ \A o \in Sessions \ {s} : cursor'[o] = cursor[o]
    BY <1>1 DEF HierarchyTypeOK
  <1>5. LocksCompatible'
    BY <1>1 DEF LocksCompatible, Has
  <1>6. IF req[s].parent = None THEN ~Forest!NeedsParent(req[s].type)
        ELSE /\ Exists(req[s].parent) /\ rows[req[s].parent].project = req[s].project
             /\ rows[req[s].parent].type \in Forest!ParentTypes(req[s].type)
    BY <1>1, HierarchyAssumption DEF ParentFits, Forest!Fits, Forest!Exists, Exists
  <1>7. req[s].parent # None => ~Pending(req[s].parent)
    BY <1>6 DEF Pending, HierarchyInv, CreatePrivate
  <1>8. Known(s)'
    BY <1>1, <1>2, <1>3, <1>4, <1>6, <1>7
    DEF Known, AtPC, TicketKnown, ParentKnown, CursorKnown, EpicKnown,
        Checked, PlaceOps, IsIn, Pending, Exists, T
  <1>9. Held(s)'
    BY <1>1, <1>2, <1>3 DEF Held, RowHeld, ParentHeld, EpicHeld, DeleteHeld, Parented,
                            Placing, Deleting, Has, Exists, T, AtPC
  <1> QED BY <1>1, <1>3, <1>4, <1>5, <1>8, <1>9, Progress

LEMMA ClimbStep ==
    ASSUME HierarchyInv, NEW s \in Sessions, Climb(s)
    PROVE  HierarchyInv'
  <1> USE Mover
  <1>1. /\ pc[s] = "climb" /\ req[s].op = "update" /\ pc \in [Sessions -> PCs]
        /\ cursor \in [Sessions -> Tickets \cup {None}]
        /\ UNCHANGED <<rows, req, epic, locks, nulled>> /\ T(s) \in Tickets
    BY DEF Climb, AtPC, HierarchyTypeOK
  <1>2. PICK c \in Tickets \cup {None} : cursor' = [cursor EXCEPT ![s] = c]
    <2>1. CASE cursor[s] # None
      <3>1. Exists(cursor[s]) => rows[cursor[s]].parent \in Tickets \cup {None}
        BY <2>1, <1>1, RowFields
      <3> QED BY <2>1, <3>1 DEF Climb
    <2>2. CASE cursor[s] = None
      BY <2>2, <1>1 DEF Climb
    <2> QED BY <2>1, <2>2
  <1>3. \A o \in Sessions \ {s} : cursor'[o] = cursor[o]
    BY <1>1, <1>2
  <1>4. \/ pc' = pc
        \/ /\ pc' = [pc EXCEPT ![s] = "refer_parent"]
           /\ cursor'[s] = req[s].parent
    BY <1>1 DEF Climb, Go
  <1>5. /\ pc' \in [Sessions -> PCs] /\ \A o \in Sessions \ {s} : pc'[o] = pc[o]
        /\ pc'[s] = "climb" \/ (pc'[s] = "refer_parent" /\ cursor'[s] = req[s].parent)
    BY <1>1, <1>4 DEF PCs
  <1>6. HierarchyTypeOK' /\ LocksCompatible'
    BY <1>1, <1>2, <1>5 DEF HierarchyTypeOK, LocksCompatible, Has
  <1>7. Known(s)'
    BY <1>1, <1>5
    DEF Known, AtPC, TicketKnown, ParentKnown, CursorKnown, EpicKnown,
        Checked, PlaceOps, IsIn, Pending, Exists, T
  <1>8. Held(s)'
    BY <1>1, <1>5 DEF Held, RowHeld, ParentHeld, EpicHeld, DeleteHeld, Parented,
                      Placing, Deleting, Has, Exists, T
  <1> QED BY <1>1, <1>3, <1>5, <1>6, <1>7, <1>8, Progress

\* One row further up: the parent of a ticket is in the project of its child.
LEMMA WalkOnStep ==
    ASSUME HierarchyInv, NEW s \in Sessions, WalkOn(s)
    PROVE  HierarchyInv'
  <1> USE Mover
  <1>1. /\ pc[s] = "walk" /\ req[s].op \in PlaceOps
        /\ cursor[s] \in Tickets /\ Exists(cursor[s])
        /\ UNCHANGED <<rows, pc, req, epic, locks, nulled>> /\ T(s) \in Tickets
        /\ cursor' = [cursor EXCEPT ![s] = rows[cursor[s]].parent]
    BY DEF WalkOn, AtPC
  <1>2. PICK c \in Tickets \cup {None} :
            c = rows[cursor[s]].parent /\ cursor' = [cursor EXCEPT ![s] = c]
    BY <1>1, RowFields
  <1>3. cursor'[s] = c /\ \A o \in Sessions \ {s} : cursor'[o] = cursor[o]
    BY <1>2 DEF HierarchyTypeOK
  <1>4. c # None =>
            /\ Exists(c) /\ rows[c].project = rows[cursor[s]].project
            /\ rows[cursor[s]].project = req[s].project
    BY <1>1, <1>2, HierarchyAssumption
    DEF HierarchyInv, ParentsFit, Forest!Fits, Forest!Exists, Exists, CursorKnown, IsIn
  <1>5. c # None => ~Pending(c)
    BY <1>4 DEF Pending, HierarchyInv, CreatePrivate
  <1>6. HierarchyTypeOK' /\ LocksCompatible'
    BY <1>1, <1>2 DEF HierarchyTypeOK, LocksCompatible, Has
  <1>7. Known(s)'
    BY <1>1, <1>3, <1>4, <1>5
    DEF Known, AtPC, TicketKnown, ParentKnown, CursorKnown, EpicKnown,
        Checked, PlaceOps, IsIn, Pending, Exists, T
  <1>8. Held(s)'
    BY <1>1 DEF Held, RowHeld, ParentHeld, EpicHeld, DeleteHeld, Parented,
                Placing, Deleting, Has, Exists, T, Children, Referring
  <1> QED BY <1>1, <1>3, <1>6, <1>7, <1>8, Progress

LEMMA WalkEndsStep ==
    ASSUME HierarchyInv, NEW s \in Sessions, WalkEnds(s)
    PROVE  HierarchyInv'
  <1> USE Mover
  <1>1. /\ pc[s] = "walk" /\ req[s].op \in PlaceOps
        /\ UNCHANGED <<rows, req, cursor, locks, nulled>> /\ T(s) \in Tickets
        /\ Go(s, IF req[s].op = "create" THEN "refer_parent" ELSE "refer_epic")
    BY DEF WalkEnds, AtPC
  <1>2. PICK e \in Tickets \cup {None} :
            /\ epic' = [epic EXCEPT ![s] = e]
            /\ e # None => e = cursor[s] /\ Exists(e) /\ rows[e].type = "epic"
    BY DEF WalkEnds
  <1>3. epic'[s] = e /\ \A o \in Sessions \ {s} : epic'[o] = epic[o]
    BY <1>2 DEF HierarchyTypeOK
  <1>4. /\ pc' \in [Sessions -> PCs] /\ \A o \in Sessions \ {s} : pc'[o] = pc[o]
        /\ pc'[s] = IF req[s].op = "create" THEN "refer_parent" ELSE "refer_epic"
    BY <1>1, GoTo DEF PCs
  <1>5. e # None => IsIn(e, req[s].project)
    BY <1>1, <1>2 DEF CursorKnown
  <1>6. HierarchyTypeOK' /\ LocksCompatible'
    BY <1>1, <1>2, <1>4 DEF HierarchyTypeOK, LocksCompatible, Has
  <1>7. Known(s)'
    BY <1>1, <1>2, <1>3, <1>4, <1>5
    DEF Known, AtPC, TicketKnown, ParentKnown, CursorKnown, EpicKnown,
        Checked, PlaceOps, IsIn, Pending, Exists, T
  <1>8. Held(s)'
    BY <1>1, <1>4 DEF Held, RowHeld, ParentHeld, EpicHeld, DeleteHeld, Parented, PlaceOps,
                Placing, Deleting, Has, Exists, T
  <1> QED BY <1>1, <1>3, <1>4, <1>6, <1>7, <1>8, Progress

\* A reference that is checked takes a share lock on a row that is there.
LEMMA ReferStep ==
    ASSUME HierarchyTypeOK, LocksCompatible, NEW s \in Sessions, NEW t \in Tickets,
           Exists(t), Take(s, t, "share"), rows' = rows
    PROVE  /\ LocksCompatible' /\ locks' \in [Sessions -> SUBSET (Tickets \X LockModes)]
           /\ Has(s, t, "share")' /\ locks[s] \subseteq locks'[s]
           /\ \A o \in Sessions \ {s} : locks'[o] = locks[o]
  <1>1. "share" \in LockModes
    BY DEF LockModes
  <1> QED BY <1>1, TakeCompatible, TakeGives DEF Has

LEMMA ReferToParentStep ==
    ASSUME HierarchyInv, NEW s \in Sessions, ReferToParent(s)
    PROVE  HierarchyInv'
  <1> USE Mover
  <1> DEFINE next == IF req[s].op = "create" THEN "refer_epic" ELSE "walk"
  <1>1. /\ pc[s] = "refer_parent" /\ req[s].op \in PlaceOps /\ Go(s, next)
        /\ UNCHANGED <<rows, req, cursor, epic, nulled>> /\ T(s) \in Tickets
        /\ req[s].parent \in Tickets \cup {None}
    BY DEF ReferToParent, AtPC
  <1>2. /\ pc' \in [Sessions -> PCs] /\ \A o \in Sessions \ {s} : pc'[o] = pc[o]
        /\ pc'[s] = next
    BY <1>1, GoTo DEF PCs
  <1>3. CASE NewParent(s)
    <2>1. /\ req[s].parent \in Tickets /\ Exists(req[s].parent)
          /\ Take(s, req[s].parent, "share")
      BY <1>1, <1>3 DEF ReferToParent, NewParent
    <2>2. /\ LocksCompatible' /\ locks' \in [Sessions -> SUBSET (Tickets \X LockModes)]
          /\ Has(s, req[s].parent, "share")' /\ locks[s] \subseteq locks'[s]
          /\ \A o \in Sessions \ {s} : locks'[o] = locks[o]
      BY <1>1, <2>1, ReferStep
    <2>3. HierarchyTypeOK'
      BY <1>1, <1>2, <2>2 DEF HierarchyTypeOK
    <2>4. Known(s)'
      BY <1>1, <1>2
      DEF Known, AtPC, TicketKnown, ParentKnown, CursorKnown, EpicKnown,
          Checked, PlaceOps, IsIn, Pending, Exists, T
    <2>5. Held(s)'
      BY <1>1, <1>2, <2>1, <2>2
      DEF Held, RowHeld, ParentHeld, EpicHeld, DeleteHeld, Parented, PlaceOps,
          Placing, Deleting, Has, Exists, T
    <2> QED BY <1>1, <1>2, <2>2, <2>3, <2>4, <2>5, Progress
  <1>4. CASE ~NewParent(s)
    <2>1. locks' = locks
      BY <1>4 DEF ReferToParent
    <2>2. req[s].parent # None => req[s].op = "update" /\ req[s].parent = rows[T(s)].parent
      BY <1>1, <1>4 DEF NewParent, PlaceOps
    <2>3. req[s].parent # None => Exists(req[s].parent)
      <3>1. req[s].op = "update" => Exists(T(s))
        BY <1>1 DEF RowHeld
      <3> QED BY <1>1, <2>2, <3>1, HierarchyAssumption
              DEF HierarchyInv, ParentsFit, Forest!Fits, Forest!Exists, Exists
    <2>4. HierarchyTypeOK' /\ LocksCompatible'
      BY <1>1, <1>2, <2>1 DEF HierarchyTypeOK, LocksCompatible, Has
    <2>5. Known(s)'
      BY <1>1, <1>2
      DEF Known, AtPC, TicketKnown, ParentKnown, CursorKnown, EpicKnown,
          Checked, PlaceOps, IsIn, Pending, Exists, T
    <2>6. Held(s)'
      BY <1>1, <1>2, <2>1, <2>2, <2>3
      DEF Held, RowHeld, ParentHeld, EpicHeld, DeleteHeld, Parented, PlaceOps,
          Placing, Deleting, Has, Exists, T
    <2> QED BY <1>1, <1>2, <2>1, <2>4, <2>5, <2>6, Progress
  <1> QED BY <1>3, <1>4

LEMMA ReferToEpicStep ==
    ASSUME HierarchyInv, NEW s \in Sessions, ReferToEpic(s)
    PROVE  HierarchyInv'
  <1> USE Mover
  <1>1. /\ pc[s] = "refer_epic" /\ req[s].op \in PlaceOps /\ Go(s, "commit")
        /\ UNCHANGED <<rows, req, cursor, epic, nulled>> /\ T(s) \in Tickets
    BY DEF ReferToEpic, AtPC
  <1>2. /\ pc' \in [Sessions -> PCs] /\ \A o \in Sessions \ {s} : pc'[o] = pc[o]
        /\ pc'[s] = "commit"
    BY <1>1, GoTo DEF PCs
  <1>3. CASE NewEpic(s)
    <2>1. epic[s] \in Tickets /\ Exists(epic[s]) /\ Take(s, epic[s], "share")
      BY <1>1, <1>3 DEF ReferToEpic, NewEpic
    <2>2. /\ LocksCompatible' /\ locks' \in [Sessions -> SUBSET (Tickets \X LockModes)]
          /\ Has(s, epic[s], "share")' /\ locks[s] \subseteq locks'[s]
          /\ \A o \in Sessions \ {s} : locks'[o] = locks[o]
      BY <1>1, <2>1, ReferStep
    <2>3. HierarchyTypeOK'
      BY <1>1, <1>2, <2>2 DEF HierarchyTypeOK
    <2>4. Known(s)'
      BY <1>1, <1>2
      DEF Known, AtPC, TicketKnown, ParentKnown, CursorKnown, EpicKnown,
          Checked, PlaceOps, IsIn, Pending, Exists, T
    <2>5. Held(s)'
      BY <1>1, <1>2, <2>1, <2>2
      DEF Held, RowHeld, ParentHeld, EpicHeld, DeleteHeld, Parented, PlaceOps,
          Placing, Deleting, Has, Exists, T
    <2> QED BY <1>1, <1>2, <2>2, <2>3, <2>4, <2>5, Progress
  <1>4. CASE ~NewEpic(s)
    <2>1. locks' = locks
      BY <1>4 DEF ReferToEpic
    <2>2. epic[s] # None => req[s].op = "update" /\ epic[s] = rows[T(s)].epic
      BY <1>1, <1>4 DEF NewEpic, PlaceOps
    <2>3. epic[s] # None => Exists(epic[s])
      <3>1. req[s].op = "update" => Exists(T(s))
        BY <1>1 DEF RowHeld
      <3> QED BY <1>1, <2>2, <3>1, HierarchyAssumption
              DEF HierarchyInv, EpicsExist, Forest!IsEpic, Forest!Exists, Exists
    <2>4. HierarchyTypeOK' /\ LocksCompatible'
      BY <1>1, <1>2, <2>1 DEF HierarchyTypeOK, LocksCompatible, Has
    <2>5. Known(s)'
      BY <1>1, <1>2
      DEF Known, AtPC, TicketKnown, ParentKnown, CursorKnown, EpicKnown,
          Checked, PlaceOps, IsIn, Pending, Exists, T
    <2>6. Held(s)'
      BY <1>1, <1>2, <2>1, <2>2, <2>3
      DEF Held, RowHeld, ParentHeld, EpicHeld, DeleteHeld, Parented, PlaceOps,
          Placing, Deleting, Has, Exists, T
    <2> QED BY <1>1, <1>2, <2>1, <2>4, <2>5, <2>6, Progress
  <1> QED BY <1>3, <1>4

LEMMA CountStep ==
    ASSUME HierarchyInv, NEW s \in Sessions, CountChildren(s)
    PROVE  HierarchyInv'
  <1> USE Mover
  <1>1. /\ pc[s] = "count" /\ req[s].op = "delete" /\ Go(s, "remove")
        /\ UNCHANGED <<rows, req, cursor, epic, locks, nulled>> /\ T(s) \in Tickets
    BY DEF CountChildren, AtPC
  <1>2. /\ pc' \in [Sessions -> PCs] /\ \A o \in Sessions \ {s} : pc'[o] = pc[o]
        /\ pc'[s] = "remove"
    BY <1>1, GoTo DEF PCs
  <1>3. HierarchyTypeOK' /\ LocksCompatible'
    BY <1>1, <1>2 DEF HierarchyTypeOK, LocksCompatible, Has
  <1>4. Known(s)'
    BY <1>1, <1>2
    DEF Known, AtPC, TicketKnown, ParentKnown, CursorKnown, EpicKnown,
        Checked, PlaceOps, IsIn, Pending, Exists, T
  <1>5. Held(s)'
    BY <1>1, <1>2
    DEF Held, RowHeld, ParentHeld, EpicHeld, DeleteHeld, Parented, PlaceOps,
        Placing, Deleting, Children, Referring, Has, Exists, T
  <1> QED BY <1>1, <1>2, <1>3, <1>4, <1>5, Progress

\* A DELETE that finds its row holds it from now on; one that does not holds
\* nothing, and the row stays away.
LEMMA RemoveStep ==
    ASSUME HierarchyInv, NEW s \in Sessions, RemoveRow(s)
    PROVE  HierarchyInv'
  <1> USE Mover
  <1>1. /\ pc[s] = "remove" /\ req[s].op = "delete"
        /\ UNCHANGED <<rows, req, cursor, epic, nulled>> /\ T(s) \in Tickets
    BY DEF RemoveRow, AtPC
  <1>2. CASE Exists(T(s))
    <2>1. Take(s, T(s), "exclusive") /\ Go(s, "restrict")
      BY <1>2 DEF RemoveRow
    <2>2. /\ pc' \in [Sessions -> PCs] /\ \A o \in Sessions \ {s} : pc'[o] = pc[o]
          /\ pc'[s] = "restrict"
      BY <2>1, GoTo DEF PCs
    <2>3. LocksCompatible' /\ locks' \in [Sessions -> SUBSET (Tickets \X LockModes)]
      BY <1>1, <2>1, TakeCompatible DEF LockModes
    <2>4. /\ locks'[s] = locks[s] \cup {<<T(s), "exclusive">>}
          /\ \A o \in Sessions \ {s} : locks'[o] = locks[o]
      BY <2>1, TakeGives
    <2>5. HierarchyTypeOK'
      BY <1>1, <2>2, <2>3 DEF HierarchyTypeOK
    <2>6. Known(s)'
      BY <1>1, <2>2
      DEF Known, AtPC, TicketKnown, ParentKnown, CursorKnown, EpicKnown,
        Checked, PlaceOps, IsIn, Pending, Exists, T
    <2>7. Held(s)'
      BY <1>1, <1>2, <2>2, <2>4
      DEF Held, RowHeld, ParentHeld, EpicHeld, DeleteHeld, Parented, PlaceOps,
        Placing, Deleting, Children, Referring, Has, Exists, T
    <2> QED BY <1>1, <2>2, <2>3, <2>4, <2>5, <2>6, <2>7, Progress
  <1>3. CASE ~Exists(T(s))
    <2>1. locks' = locks /\ Go(s, "commit")
      BY <1>3 DEF RemoveRow
    <2>2. /\ pc' \in [Sessions -> PCs] /\ \A o \in Sessions \ {s} : pc'[o] = pc[o]
          /\ pc'[s] = "commit"
      BY <2>1, GoTo DEF PCs
    <2>3. HierarchyTypeOK' /\ LocksCompatible'
      BY <1>1, <2>1, <2>2 DEF HierarchyTypeOK, LocksCompatible, Has
    <2>4. Known(s)'
      BY <1>1, <2>2
      DEF Known, AtPC, TicketKnown, ParentKnown, CursorKnown, EpicKnown,
        Checked, PlaceOps, IsIn, Pending, Exists, T
    <2>5. Held(s)'
      BY <1>1, <1>3, <2>1, <2>2
      DEF Held, RowHeld, ParentHeld, EpicHeld, DeleteHeld, Parented, PlaceOps,
        Placing, Deleting, Children, Referring, Has, Exists, T
    <2> QED BY <1>1, <2>1, <2>2, <2>3, <2>4, <2>5, Progress
  <1> QED BY <1>2, <1>3

LEMMA RestrictStep ==
    ASSUME HierarchyInv, NEW s \in Sessions, RestrictOK(s)
    PROVE  HierarchyInv'
  <1> USE Mover
  <1>1. /\ pc[s] = "restrict" /\ req[s].op = "delete" /\ Go(s, "nullify")
        /\ UNCHANGED <<rows, req, cursor, epic, locks, nulled>> /\ T(s) \in Tickets /\ Children(T(s)) = {}
    BY DEF RestrictOK, AtPC, Unrestricted
  <1>2. /\ pc' \in [Sessions -> PCs] /\ \A o \in Sessions \ {s} : pc'[o] = pc[o]
        /\ pc'[s] = "nullify"
    BY <1>1, GoTo DEF PCs
  <1>3. HierarchyTypeOK' /\ LocksCompatible'
    BY <1>1, <1>2 DEF HierarchyTypeOK, LocksCompatible, Has
  <1>4. Known(s)'
    BY <1>1, <1>2
    DEF Known, AtPC, TicketKnown, ParentKnown, CursorKnown, EpicKnown,
        Checked, PlaceOps, IsIn, Pending, Exists, T
  <1>5. Held(s)'
    BY <1>1, <1>2, ZenonT(60)
    DEF Held, RowHeld, ParentHeld, EpicHeld, DeleteHeld, Parented, PlaceOps,
        Placing, Deleting, Children, Referring, Has, Exists, T
  <1> QED BY <1>1, <1>2, <1>3, <1>4, <1>5, Progress

LEMMA ClearEpicStep ==
    ASSUME HierarchyInv, NEW s \in Sessions, ClearEpic(s)
    PROVE  HierarchyInv'
  <1> USE Mover
  <1>1. /\ pc[s] = "nullify" /\ req[s].op = "delete" /\ Exists(T(s))
        /\ UNCHANGED <<rows, pc, req, cursor, epic>> /\ T(s) \in Tickets
    BY DEF ClearEpic, AtPC, DeleteHeld
  <1>2. PICK c \in Referring(s, T(s)) :
            Take(s, c, "update") /\ nulled' = [nulled EXCEPT ![s] = @ \cup {c}]
    BY DEF ClearEpic
  <1>3. c \in Tickets /\ Exists(c) /\ rows[c].epic = T(s)
    BY <1>2 DEF Referring
  <1>4. LocksCompatible' /\ locks' \in [Sessions -> SUBSET (Tickets \X LockModes)]
    BY <1>2, <1>3, TakeCompatible DEF LockModes
  <1>5. /\ locks'[s] = locks[s] \cup {<<c, "update">>}
        /\ \A o \in Sessions \ {s} : locks'[o] = locks[o]
    BY <1>2, TakeGives
  <1>6. /\ nulled'[s] = nulled[s] \cup {c} /\ nulled' \in [Sessions -> SUBSET Tickets]
        /\ \A o \in Sessions \ {s} : nulled'[o] = nulled[o]
    BY <1>2, <1>3 DEF HierarchyTypeOK
  <1>7. HierarchyTypeOK'
    BY <1>1, <1>4, <1>6 DEF HierarchyTypeOK
  <1>8. Known(s)'
    BY <1>1
    DEF Known, AtPC, TicketKnown, ParentKnown, CursorKnown, EpicKnown,
        Checked, PlaceOps, IsIn, Pending, Exists, T
  <1>9. Held(s)'
    BY <1>1, <1>3, <1>5, <1>6
    DEF Held, RowHeld, ParentHeld, EpicHeld, DeleteHeld, Parented, PlaceOps,
        Placing, Deleting, Children, Referring, Has, Exists, T
  <1> QED BY <1>1, <1>4, <1>5, <1>6, <1>7, <1>8, <1>9, Progress

LEMMA ClearedStep ==
    ASSUME HierarchyInv, NEW s \in Sessions, EpicsCleared(s)
    PROVE  HierarchyInv'
  <1> USE Mover
  <1>1. /\ pc[s] = "nullify" /\ req[s].op = "delete" /\ Go(s, "commit")
        /\ UNCHANGED <<rows, req, cursor, epic, locks, nulled>> /\ T(s) \in Tickets /\ Referring(s, T(s)) = {}
    BY DEF EpicsCleared, AtPC
  <1>2. /\ pc' \in [Sessions -> PCs] /\ \A o \in Sessions \ {s} : pc'[o] = pc[o]
        /\ pc'[s] = "commit"
    BY <1>1, GoTo DEF PCs
  <1>3. HierarchyTypeOK' /\ LocksCompatible'
    BY <1>1, <1>2 DEF HierarchyTypeOK, LocksCompatible, Has
  <1>4. Known(s)'
    BY <1>1, <1>2
    DEF Known, AtPC, TicketKnown, ParentKnown, CursorKnown, EpicKnown,
        Checked, PlaceOps, IsIn, Pending, Exists, T
  <1>5. Held(s)'
    BY <1>1, <1>2
    DEF Held, RowHeld, ParentHeld, EpicHeld, DeleteHeld, Parented, PlaceOps,
        Placing, Deleting, Children, Referring, Has, Exists, T
  <1> QED BY <1>1, <1>2, <1>3, <1>4, <1>5, Progress

-----------------------------------------------------------------------------
(* Requests begin and are refused.                                         *)

\* A request that is taken up by an idle session.
LEMMA BeginStep ==
    ASSUME HierarchyInv, NEW s \in Sessions, pc[s] = "idle",
           NEW q \in Request, req' = [req EXCEPT ![s] = q],
           NEW next \in {"check", "load", "count"}, Go(s, next),
           UNCHANGED <<rows, cursor, epic, locks, nulled>>,
           \/ q.op = "create" /\ next = "check" /\ New(q.ticket)
           \/ /\ <<q.op, next>> \in {<<"update", "load">>, <<"delete", "count">>}
              /\ Exists(q.ticket) /\ q.type = rows[q.ticket].type
              /\ q.project = rows[q.ticket].project
    PROVE  HierarchyInv'
  <1> USE Mover, NoOp
  <1>1. /\ pc' \in [Sessions -> PCs] /\ pc'[s] = next
        /\ \A o \in Sessions \ {s} : pc'[o] = pc[o]
    BY GoTo DEF PCs
  <1>2. /\ req' \in [Sessions -> Request \cup {NoRequest}] /\ req'[s] = q
        /\ \A o \in Sessions \ {s} : req'[o] = req[o]
        /\ q # NoRequest /\ req[s] = NoRequest /\ q.ticket \in Tickets
    BY DEF HierarchyTypeOK, Request, AtPC
  <1>3. HierarchyTypeOK' /\ LocksCompatible' /\ ParentsFit' /\ EpicsExist'
    BY <1>1, <1>2 DEF HierarchyInv, HierarchyTypeOK, LocksCompatible, Has, ParentsFit,
        EpicsExist, Exists, Forest!Fits, Forest!IsEpic, Forest!Exists
  <1>4. \A t \in Tickets : Pending(t)' => Pending(t) \/ New(t)
    BY <1>2 DEF Pending
  <1>5. ASSUME NEW o \in Sessions \ {s} PROVE Known(o)' /\ Held(o)'
    BY <1>1, <1>2, <1>4, <1>5, OthersKeep
  <1>6. CreatePrivate'
    <2>1. CreatePrivate
      BY DEF HierarchyInv
    <2>2. ASSUME NEW o \in Sessions \ {s}, req[o] # NoRequest,
                 q.op = "create" \/ req[o].op = "create"
          PROVE  req[o].ticket # q.ticket
      BY <2>1, <2>2 DEF New, CreatePrivate
    <2>3. q.op = "create" => ~Exists(q.ticket)
      BY DEF New
    <2> QED BY <1>2, <2>1, <2>2, <2>3 DEF CreatePrivate, Exists
  <1>7. AtPC(s)' /\ TicketKnown(s)'
    BY <1>1, <1>2 DEF AtPC, TicketKnown, PlaceOps, Exists, T
  <1>8. ParentKnown(s)' /\ CursorKnown(s)' /\ EpicKnown(s)'
    BY <1>1, <1>2 DEF ParentKnown, CursorKnown, EpicKnown, Checked, AtPC
  <1>9. Held(s)'
    <2>1. nulled[s] = {}
      BY <1>2 DEF DeleteHeld, Deleting
    <2> QED BY <1>1, <1>2, <2>1
      DEF Held, RowHeld, ParentHeld, EpicHeld, DeleteHeld, Parented, PlaceOps,
        Placing, Deleting, Children, Referring, Has, Exists, T
  <1> QED BY <1>3, <1>5, <1>6, <1>7, <1>8, <1>9 DEF HierarchyInv, Known

LEMMA BeginCreateStep ==
    ASSUME HierarchyInv, NEW s \in Sessions, BeginCreate(s)
    PROVE  HierarchyInv'
  <1>1. PICK t \in Tickets, k \in Kinds, j \in Projects, p \in Tickets \cup {None} :
            /\ New(t)
            /\ req' = [req EXCEPT ![s] = [op |-> "create", ticket |-> t, type |-> k,
                                          project |-> j, parent |-> p]]
    BY DEF BeginCreate
  <1>2. PICK q \in Request : req' = [req EXCEPT ![s] = q] /\ q.op = "create" /\ q.ticket = t
    <2> DEFINE r == [op |-> "create", ticket |-> t, type |-> k, project |-> j, parent |-> p]
    <2>1. r \in Request
      BY HierarchyAssumption DEF Request
    <2>2. r.op = "create" /\ r.ticket = t /\ req' = [req EXCEPT ![s] = r]
      BY <1>1
    <2> HIDE DEF r
    <2> QED BY <2>1, <2>2
  <1> QED BY <1>1, <1>2, BeginStep DEF BeginCreate

LEMMA BeginChangeStep ==
    ASSUME HierarchyInv, NEW s \in Sessions, BeginChange(s)
    PROVE  HierarchyInv'
  <1>1. PICK t \in Tickets, p \in Tickets \cup {None}, op \in {"update", "delete"} :
            /\ Exists(t)
            /\ req' = [req EXCEPT ![s] = [op |-> op, ticket |-> t, type |-> rows[t].type,
                                          project |-> rows[t].project, parent |-> p]]
            /\ Go(s, IF op = "update" THEN "load" ELSE "count")
    BY DEF BeginChange
  <1>2. rows[t].type \in Forest!Types /\ rows[t].project \in Projects
    BY <1>1, RowFields DEF HierarchyInv
  <1>3. PICK q \in Request :
            /\ req' = [req EXCEPT ![s] = q] /\ q.op = op /\ q.ticket = t
            /\ q.type = rows[t].type /\ q.project = rows[t].project
    <2> DEFINE r == [op |-> op, ticket |-> t, type |-> rows[t].type,
                     project |-> rows[t].project, parent |-> p]
    <2>1. r \in Request
      BY <1>2 DEF Request
    <2>2. /\ req' = [req EXCEPT ![s] = r] /\ r.op = op /\ r.ticket = t
          /\ r.type = rows[t].type /\ r.project = rows[t].project
      BY <1>1
    <2> HIDE DEF r
    <2> QED BY <2>1, <2>2
  <1>4. UNCHANGED <<rows, cursor, epic, locks, nulled>> /\ pc[s] = "idle"
    BY DEF BeginChange
  <1>5. CASE op = "update"
    BY <1>1, <1>3, <1>4, <1>5, BeginStep
  <1>6. CASE op = "delete"
    BY <1>1, <1>3, <1>4, <1>6, BeginStep
  <1> QED BY <1>5, <1>6

\* A session that has let go of everything.
LEMMA Released ==
    ASSUME HierarchyInv, NEW s \in Sessions, Release(s)
    PROVE  /\ pc' \in [Sessions -> PCs]
           /\ req' \in [Sessions -> Request \cup {NoRequest}]
           /\ cursor' \in [Sessions -> Tickets \cup {None}]
           /\ epic' \in [Sessions -> Tickets \cup {None}]
           /\ locks' \in [Sessions -> SUBSET (Tickets \X LockModes)]
           /\ nulled' \in [Sessions -> SUBSET Tickets]
           /\ pc'[s] = "idle" /\ req'[s] = NoRequest /\ epic'[s] = None
           /\ locks'[s] = {} /\ nulled'[s] = {}
           /\ \A o \in Sessions \ {s} :
                 /\ pc'[o] = pc[o] /\ req'[o] = req[o] /\ cursor'[o] = cursor[o]
                 /\ epic'[o] = epic[o] /\ locks'[o] = locks[o] /\ nulled'[o] = nulled[o]
           /\ Known(s)' /\ Held(s)' /\ LocksCompatible'
           /\ \A t \in Tickets : Pending(t)' => Pending(t)
  <1> USE NoOp
  <1>1. HierarchyTypeOK /\ LocksCompatible
    BY DEF HierarchyInv
  <1>2. /\ pc' \in [Sessions -> PCs] /\ pc'[s] = "idle"
        /\ req' \in [Sessions -> Request \cup {NoRequest}] /\ req'[s] = NoRequest
        /\ cursor' \in [Sessions -> Tickets \cup {None}]
        /\ epic' \in [Sessions -> Tickets \cup {None}] /\ epic'[s] = None
    BY <1>1 DEF Release, Go, HierarchyTypeOK, PCs
  <1>3. /\ locks' \in [Sessions -> SUBSET (Tickets \X LockModes)] /\ locks'[s] = {}
        /\ nulled' \in [Sessions -> SUBSET Tickets] /\ nulled'[s] = {}
    BY <1>1 DEF Release, HierarchyTypeOK
  <1>4. \A o \in Sessions \ {s} :
            /\ pc'[o] = pc[o] /\ req'[o] = req[o] /\ cursor'[o] = cursor[o]
            /\ epic'[o] = epic[o] /\ locks'[o] = locks[o] /\ nulled'[o] = nulled[o]
    BY <1>1 DEF Release, Go, HierarchyTypeOK
  <1>5. Known(s)' /\ Held(s)'
    BY <1>2, <1>3
    DEF Known, AtPC, TicketKnown, ParentKnown, CursorKnown, EpicKnown, Checked, PlaceOps,
        Held, RowHeld, ParentHeld, EpicHeld, DeleteHeld, Parented, Placing, Deleting
  <1>6. LocksCompatible'
    BY <1>1, <1>3, <1>4 DEF LocksCompatible, Has
  <1>7. \A t \in Tickets : Pending(t)' => Pending(t)
    BY <1>2, <1>4 DEF Pending
  <1> QED BY <1>2, <1>3, <1>4, <1>5, <1>6, <1>7

LEMMA RefuseStep ==
    ASSUME HierarchyInv, NEW s \in Sessions, Refuse(s)
    PROVE  HierarchyInv'
  <1>1. Release(s) /\ rows' = rows
    BY DEF Refuse
  <1>2. HierarchyTypeOK' /\ ParentsFit' /\ EpicsExist'
    BY <1>1, Released DEF HierarchyInv, HierarchyTypeOK, ParentsFit, EpicsExist, Exists,
        Forest!Fits, Forest!IsEpic, Forest!Exists
  <1>3. ASSUME NEW o \in Sessions \ {s} PROVE Known(o)' /\ Held(o)'
    BY <1>1, <1>3, Released, OthersKeep
  <1>4. CreatePrivate'
    BY <1>1, Released, NoOp DEF HierarchyInv, CreatePrivate, Exists
  <1> QED BY <1>1, <1>2, <1>3, <1>4, Released DEF HierarchyInv

-----------------------------------------------------------------------------
(* Commits.                                                                *)

\* Two sessions do not hold a row exclusively, nor do both update it.
LEMMA Excludes ==
    ASSUME LocksCompatible, NEW s \in Sessions, NEW o \in Sessions, s # o,
           NEW t \in Tickets, NEW m \in LockModes
    PROVE  /\ ~(Has(s, t, "exclusive") /\ Has(o, t, m))
           /\ ~(Has(o, t, "exclusive") /\ Has(s, t, m))
           /\ ~(Has(s, t, "update") /\ Has(o, t, "update"))
  BY DEF LocksCompatible, Conflict, LockModes

\* What a create or an update commits: one row, whose parent and epic are there.
LEMMA CommitPlaces ==
    ASSUME HierarchyInv, NEW s \in Sessions, Commit(s), req[s].op \in PlaceOps
    PROVE  /\ T(s) \in Tickets
           /\ rows' = [rows EXCEPT ![T(s)] = Placed(s)] /\ rows'[T(s)] = Placed(s)
           /\ \A t \in Tickets : t # T(s) => rows'[t] = rows[t]
           /\ Placed(s) \in Forest!Node /\ Placed(s) # Absent
           /\ Placed(s).type = req[s].type /\ Placed(s).project = req[s].project
           /\ Placed(s).parent = req[s].parent /\ Placed(s).epic = epic[s]
           /\ Exists(T(s)) <=> req[s].op = "update"
           /\ Exists(T(s)) =>
                rows[T(s)].type = req[s].type /\ rows[T(s)].project = req[s].project
           /\ Forest!Fits(req[s].type, req[s].project, req[s].parent)
           /\ Forest!IsEpic(epic[s], req[s].project)
  <1> USE Mover
  <1>1. /\ pc[s] = "commit" /\ req[s] # NoRequest /\ T(s) \in Tickets
        /\ req[s].parent \in Tickets \cup {None} /\ epic[s] \in Tickets \cup {None}
        /\ req[s].type \in Forest!Types /\ req[s].project \in Projects
    BY RequestFields DEF Commit
  <1>2. Placed(s) \in Forest!Node
    BY <1>1 DEF Placed, Forest!Node
  <1>3. Placed(s) # Absent
    BY <1>2, HierarchyAssumption
  <1>4. rows' = [rows EXCEPT ![T(s)] = Placed(s)]
    BY DEF Commit, Written, PlaceOps
  <1>5. rows'[T(s)] = Placed(s) /\ \A t \in Tickets : t # T(s) => rows'[t] = rows[t]
    BY <1>1, <1>4 DEF HierarchyTypeOK
  <1>6. /\ Placed(s).type = req[s].type /\ Placed(s).project = req[s].project
        /\ Placed(s).parent = req[s].parent /\ Placed(s).epic = epic[s]
    BY DEF Placed
  <1>7. Exists(T(s)) <=> req[s].op = "update"
    BY <1>1 DEF RowHeld, HierarchyInv, CreatePrivate, PlaceOps, T
  <1>8. Exists(T(s)) =>
            rows[T(s)].type = req[s].type /\ rows[T(s)].project = req[s].project
    BY <1>7 DEF TicketKnown
  <1>9. Forest!Fits(req[s].type, req[s].project, req[s].parent)
    BY <1>1 DEF Forest!Fits, Forest!Exists, Exists, ParentKnown, ParentHeld, Parented,
                Checked, IsIn, PlaceOps
  <1>10. Forest!IsEpic(epic[s], req[s].project)
    BY <1>1 DEF Forest!IsEpic, Forest!Exists, Exists, EpicKnown, EpicHeld, Placing, IsIn
  <1> QED BY <1>1, <1>2, <1>3, <1>4, <1>5, <1>6, <1>7, <1>8, <1>9, <1>10

\* What a delete commits: the row is gone, and what named it as an epic is
\* cleared; or nothing, when the row had gone before.
LEMMA CommitRemoves ==
    ASSUME HierarchyInv, NEW s \in Sessions, Commit(s), req[s].op = "delete"
    PROVE  /\ T(s) \in Tickets /\ rows'[T(s)] = Absent
           /\ rows' = [u \in Tickets |->
                  IF u = T(s) THEN Absent
                  ELSE IF Exists(u) /\ rows[u].epic = T(s)
                       THEN [rows[u] EXCEPT !.epic = None] ELSE rows[u]]
           /\ Exists(T(s)) =>
                /\ Has(s, T(s), "exclusive")
                /\ \A u \in Tickets : Exists(u) => rows[u].parent # T(s)
           /\ ~Exists(T(s)) => rows' = rows
           /\ \A u \in Tickets : u # T(s) =>
                /\ Exists(u)' <=> Exists(u)
                /\ Exists(u) =>
                     /\ rows'[u].type = rows[u].type /\ rows'[u].project = rows[u].project
                     /\ rows'[u].parent = rows[u].parent
                     /\ rows[u].epic = T(s) => rows'[u].epic = None /\ Has(s, u, "update")
                     /\ rows[u].epic # T(s) => rows'[u] = rows[u]
  <1> USE Mover
  <1>1. /\ pc[s] = "commit" /\ T(s) \in Tickets
        /\ rows' = [u \in Tickets |->
               IF u = T(s) THEN Absent
               ELSE IF u \in nulled[s] THEN [rows[u] EXCEPT !.epic = None] ELSE rows[u]]
    BY DEF Commit, Written
  <1>2. \A u \in nulled[s] : Exists(u) /\ rows[u].epic = T(s) /\ Has(s, u, "update")
    BY DEF DeleteHeld
  <1>3. Exists(T(s)) =>
            /\ Has(s, T(s), "exclusive")
            /\ \A u \in Tickets : Exists(u) => rows[u].parent # T(s)
            /\ \A u \in Tickets : Exists(u) /\ rows[u].epic = T(s) => u \in nulled[s]
    BY <1>1 DEF DeleteHeld, Deleting, Children, Referring
  <1>4. ~Exists(T(s)) => /\ nulled[s] = {}
                        /\ \A u \in Tickets : Exists(u) => rows[u].epic # T(s)
    <2>1. ~Exists(T(s)) => nulled[s] = {}
      BY DEF DeleteHeld, Deleting
    <2>2. \A u \in Tickets : Exists(u) /\ rows[u].epic = T(s) => Exists(T(s))
      BY <1>1, HierarchyAssumption
      DEF HierarchyInv, EpicsExist, Forest!IsEpic, Forest!Exists, Exists
    <2> QED BY <2>1, <2>2
  <1>5. \A u \in Tickets : u \in nulled[s] <=> Exists(u) /\ rows[u].epic = T(s)
    BY <1>2, <1>3, <1>4
  <1>6. rows' = [u \in Tickets |->
            IF u = T(s) THEN Absent
            ELSE IF Exists(u) /\ rows[u].epic = T(s)
                 THEN [rows[u] EXCEPT !.epic = None] ELSE rows[u]]
    BY <1>1, <1>5
  <1>7. ~Exists(T(s)) => rows' = rows
    <2> SUFFICES ASSUME ~Exists(T(s)) PROVE rows' = rows
      OBVIOUS
    <2>1. \A u \in Tickets : rows'[u] = rows[u]
      BY <1>1, <1>4 DEF Exists
    <2>2. rows' = [u \in Tickets |-> rows'[u]] /\ rows = [u \in Tickets |-> rows[u]]
      BY <1>1 DEF HierarchyTypeOK
    <2> QED BY <2>1, <2>2
  <1>8. ASSUME NEW u \in Tickets, u # T(s)
        PROVE  /\ Exists(u)' <=> Exists(u)
               /\ Exists(u) =>
                    /\ rows'[u].type = rows[u].type /\ rows'[u].project = rows[u].project
                    /\ rows'[u].parent = rows[u].parent
                    /\ rows[u].epic = T(s) => rows'[u].epic = None /\ Has(s, u, "update")
                    /\ rows[u].epic # T(s) => rows'[u] = rows[u]
    <2>1. CASE Exists(u) /\ rows[u].epic = T(s)
      <3>1. rows'[u] = [rows[u] EXCEPT !.epic = None] /\ Has(s, u, "update")
        BY <1>1, <1>2, <1>5, <1>8, <2>1
      <3>2. rows[u] \in Forest!Node
        BY <2>1, RowFields
      <3>3. [rows[u] EXCEPT !.epic = None] \in Forest!Node
        BY <3>2 DEF Forest!Node
      <3>4. /\ rows'[u].type = rows[u].type /\ rows'[u].project = rows[u].project
            /\ rows'[u].parent = rows[u].parent /\ rows'[u].epic = None
        BY <3>1, <3>2 DEF Forest!Node
      <3>5. rows'[u] # Absent
        BY <3>1, <3>3, HierarchyAssumption
      <3> QED BY <2>1, <3>1, <3>4, <3>5 DEF Exists
    <2>2. CASE ~(Exists(u) /\ rows[u].epic = T(s))
      BY <1>1, <1>5, <1>8, <2>2 DEF Exists
    <2> QED BY <2>1, <2>2
  <1> QED BY <1>1, <1>3, <1>6, <1>7, <1>8

\* No commit makes a ticket that is not being created, or changes its kind.
LEMMA CommitKeepsKinds ==
    ASSUME HierarchyInv, NEW s \in Sessions, Commit(s),
           NEW t \in Tickets, Exists(t)', ~Pending(t)
    PROVE  /\ Exists(t)
           /\ rows'[t].type = rows[t].type /\ rows'[t].project = rows[t].project
  <1> USE Mover
  <1>1. req[s].op \in PlaceOps \/ req[s].op = "delete"
    BY DEF Commit, PlaceOps
  <1>2. CASE req[s].op \in PlaceOps
    <2>1. req[s].op = "create" => t # T(s)
      BY DEF Pending, T
    <2> QED BY <1>2, <2>1, CommitPlaces DEF Exists, PlaceOps
  <1>3. CASE req[s].op = "delete"
    BY <1>3, CommitRemoves DEF Exists
  <1> QED BY <1>1, <1>2, <1>3

\* What another session has learnt stays true.
LEMMA CommitKeepsKnown ==
    ASSUME HierarchyInv, NEW s \in Sessions, Commit(s), NEW o \in Sessions \ {s}
    PROVE  Known(o)'
  <1>1. /\ Release(s) /\ HierarchyTypeOK /\ Known(o)
    BY DEF Commit, HierarchyInv
  <1>2. /\ pc'[o] = pc[o] /\ req'[o] = req[o] /\ cursor'[o] = cursor[o]
        /\ epic'[o] = epic[o] /\ T(o)' = T(o)
        /\ \A t \in Tickets : Pending(t)' => Pending(t)
    BY <1>1, Released DEF T
  <1>3. AtPC(o)'
    BY <1>1, <1>2 DEF Known, AtPC
  <1>4. TicketKnown(o)'
    <2> SUFFICES ASSUME req[o].op \in {"update", "delete"}, Exists(T(o))'
                 PROVE  rows'[T(o)].type = req[o].type /\ rows'[T(o)].project = req[o].project
      BY <1>2 DEF TicketKnown
    <2>1. T(o) \in Tickets /\ req[o] # NoRequest
      BY <1>1, RequestFields, NoOp
    <2>2. \A x \in Sessions : req[x].op = "create" => req[x].ticket # T(o)
      BY <2>1 DEF HierarchyInv, CreatePrivate, T
    <2>3. ~Pending(T(o))
      BY <2>2 DEF Pending
    <2>4. \A t : t = T(o) => Exists(t)'
      BY <1>2 DEF Exists
    <2>5. /\ Exists(T(o))
          /\ rows'[T(o)].type = rows[T(o)].type /\ rows'[T(o)].project = rows[T(o)].project
      BY <2>1, <2>3, <2>4, CommitKeepsKinds
    <2> QED BY <2>5, <1>1 DEF Known, TicketKnown
  <1>5. ASSUME NEW t \in Tickets, NEW j, IsIn(t, j)
        PROVE  /\ ~Pending(t)' /\ (Exists(t)' => rows'[t].project = j)
               /\ Exists(t)' => Exists(t) /\ rows'[t].type = rows[t].type
    BY <1>2, <1>5, CommitKeepsKinds DEF IsIn
  <1>6. ParentKnown(o)'
    <2>1. CASE Checked(o) /\ req[o].parent # None
      <3>1. req[o].parent \in Tickets
        BY <2>1, <1>1, RequestFields, NoOp DEF Known, AtPC, Checked, PlaceOps
      <3>2. \A t : t = req[o].parent =>
                /\ ~Pending(t)' /\ (Exists(t)' => rows'[t].project = req[o].project)
                /\ Exists(t)' => rows'[t].type \in Forest!ParentTypes(req[o].type)
        BY <3>1, <2>1, <1>1, <1>5 DEF Known, ParentKnown
      <3> QED BY <3>2, <2>1, <1>2 DEF ParentKnown, IsIn, Checked, Exists, Pending
    <2>2. CASE ~(Checked(o) /\ req[o].parent # None)
      BY <2>2, <1>1, <1>2 DEF Known, ParentKnown, Checked
    <2> QED BY <2>1, <2>2
  <1>7. CursorKnown(o)'
    <2>1. CASE pc[o] = "walk" /\ cursor[o] # None
      <3>1. cursor[o] \in Tickets
        BY <2>1, <1>1 DEF HierarchyTypeOK
      <3>2. \A t : t = cursor[o] =>
                ~Pending(t)' /\ (Exists(t)' => rows'[t].project = req[o].project)
        BY <3>1, <2>1, <1>1, <1>5 DEF Known, CursorKnown
      <3> QED BY <3>2, <2>1, <1>2 DEF CursorKnown, IsIn, Exists, Pending
    <2>2. CASE ~(pc[o] = "walk" /\ cursor[o] # None)
      BY <2>2, <1>1, <1>2 DEF Known, CursorKnown
    <2> QED BY <2>1, <2>2
  <1>8. EpicKnown(o)'
    <2>1. CASE epic[o] # None
      <3>1. epic[o] \in Tickets
        BY <2>1, <1>1 DEF HierarchyTypeOK
      <3>2. \A t : t = epic[o] =>
                /\ ~Pending(t)' /\ (Exists(t)' => rows'[t].project = req[o].project)
                /\ Exists(t)' => rows'[t].type = "epic"
        BY <3>1, <2>1, <1>1, <1>5 DEF Known, EpicKnown
      <3> QED BY <3>2, <2>1, <1>2 DEF EpicKnown, IsIn, Exists, Pending
    <2>2. CASE epic[o] = None
      BY <2>2, <1>2 DEF EpicKnown
    <2> QED BY <2>1, <2>2
  <1> QED BY <1>3, <1>4, <1>6, <1>7, <1>8 DEF Known

\* What another session holds stays there: a row under an exclusive lock is not
\* written, one under a share lock does not go, and one that is about to go is
\* not referred to.
LEMMA PlacingKeepsHeld ==
    ASSUME HierarchyInv, NEW s \in Sessions, Commit(s), req[s].op \in PlaceOps,
           NEW o \in Sessions \ {s}
    PROVE  Held(o)'
  <1> USE Mover
  <1>1. /\ Release(s) /\ pc[s] = "commit" /\ T(s) \in Tickets
        /\ req[s].parent \in Tickets \cup {None}
    BY DEF Commit
  <1>2. /\ pc'[o] = pc[o] /\ req'[o] = req[o] /\ epic'[o] = epic[o]
        /\ locks'[o] = locks[o] /\ nulled'[o] = nulled[o] /\ T(o)' = T(o)
    BY <1>1, Released DEF T
  <1>3. \A t \in Tickets : t # T(s) => rows'[t] = rows[t]
    BY CommitPlaces
  <1>4. /\ rows'[T(s)].parent = req[s].parent /\ rows'[T(s)].epic = epic[s]
        /\ rows'[T(s)] # Absent
        /\ Exists(T(s)) <=> req[s].op = "update"
        /\ \A t \in Tickets : rows[t] # Absent => rows'[t] # Absent
    BY CommitPlaces DEF Exists
  <1>5. req[s].op = "update" => Has(s, T(s), "exclusive")
    BY <1>1 DEF RowHeld
  <1>6. LockModes = {"share", "update", "exclusive"} /\ LocksCompatible
    BY DEF LockModes
  <1>7. /\ req[o].op \in {"create", "update", "delete"} => T(o) \in Tickets
        /\ req[o].op \in {"create", "update", "delete"} /\ T(o) = T(s) => Exists(T(s))
    <2>1. req[o].op \in {"create", "update", "delete"} => req[o] # NoRequest /\ T(o) \in Tickets
      BY RequestFields, NoOp
    <2> QED BY <2>1, <1>4 DEF HierarchyInv, CreatePrivate, PlaceOps, T
  <1>8. ASSUME NEW t \in Tickets, Has(o, t, "exclusive") \/ Has(o, t, "update"), Exists(t)
        PROVE  t # T(s)
    BY <1>4, <1>5, <1>6, <1>8, Excludes DEF PlaceOps
  <1>9. RowHeld(o)'
    BY <1>2, <1>3, <1>7, <1>8 DEF RowHeld, Exists, Has
  <1>10. ParentHeld(o)'
    <2> SUFFICES ASSUME Parented(o), req[o].parent # None
                 PROVE  /\ rows'[req[o].parent] # Absent
                        /\ \/ Has(o, req[o].parent, "share")
                           \/ req[o].op = "update" /\ rows'[T(o)].parent = req[o].parent
      BY <1>2 DEF ParentHeld, Parented, Exists, Has
    <2>1. req[o].parent \in Tickets
      BY RequestFields, NoOp DEF Parented
    <2>2. Exists(req[o].parent)
      BY DEF ParentHeld
    <2>3. rows'[req[o].parent] # Absent
      BY <2>1, <2>2, <1>3, <1>4 DEF Exists
    <2>4. req[o].op = "update" => rows'[T(o)] = rows[T(o)]
      BY <1>3, <1>7, <1>8 DEF RowHeld, Parented
    <2> QED BY <2>3, <2>4 DEF ParentHeld
  <1>11. EpicHeld(o)'
    <2> SUFFICES ASSUME Placing(o), epic[o] # None
                 PROVE  /\ rows'[epic[o]] # Absent
                        /\ \/ Has(o, epic[o], "share")
                           \/ req[o].op = "update" /\ rows'[T(o)].epic = epic[o]
      BY <1>2 DEF EpicHeld, Placing, Exists, Has
    <2>1. epic[o] \in Tickets /\ Exists(epic[o])
      BY DEF EpicHeld
    <2>2. rows'[epic[o]] # Absent
      BY <2>1, <1>3, <1>4 DEF Exists
    <2>3. req[o].op = "update" => rows'[T(o)] = rows[T(o)]
      BY <1>3, <1>7, <1>8 DEF RowHeld, Placing
    <2> QED BY <2>2, <2>3 DEF EpicHeld
  <1>12. DeleteHeld(o)'
    <2>1. Deleting(o)' => Deleting(o) /\ T(o) \in Tickets /\ T(o) # T(s)
      <3>1. Deleting(o)' => req[o].op = "delete" /\ pc[o] \in {"restrict", "nullify", "commit"}
        BY <1>2 DEF Deleting
      <3>2. Deleting(o)' => Exists(T(o))
        BY <3>1, <1>2, <1>3, <1>7 DEF Deleting, Exists
      <3> QED BY <3>1, <3>2, <1>7, <1>8 DEF Deleting, DeleteHeld
    <2>2. req[o].op = "delete" /\ pc[o] \in {"restrict", "nullify"} => rows'[T(o)] # Absent
      BY <1>3, <1>4, <1>7 DEF DeleteHeld, Exists
    <2>3. ASSUME Deleting(o), pc[o] # "restrict"
          PROVE  \A c \in Tickets : rows'[c] # Absent => rows'[c].parent # T(o)
      <3>1. Has(o, T(o), "exclusive") /\ T(o) \in Tickets
            /\ \A c \in Tickets : Exists(c) => rows[c].parent # T(o)
        BY <2>3, <1>7 DEF DeleteHeld, Deleting, Children
      <3>2. req[s].parent # T(o)
        <4> SUFFICES ASSUME req[s].parent = T(o) PROVE FALSE
          OBVIOUS
        <4>1. req[s].parent # None
          BY <3>1, HierarchyAssumption
        <4>2. Has(s, T(o), "share") \/ (req[s].op = "update" /\ rows[T(s)].parent = T(o))
          BY <4>1, <1>1 DEF ParentHeld, Parented, PlaceOps
        <4> QED BY <4>2, <3>1, <1>1, <1>4, <1>6, Excludes
      <3> QED BY <3>1, <3>2, <1>1, <1>3, <1>4 DEF Exists
    <2>4. ASSUME Deleting(o), pc[o] = "commit"
          PROVE  \A c \in Tickets : rows'[c] # Absent /\ rows'[c].epic = T(o) => c \in nulled[o]
      <3>1. Has(o, T(o), "exclusive") /\ T(o) \in Tickets
            /\ \A c \in Tickets : Exists(c) /\ rows[c].epic = T(o) => c \in nulled[o]
        BY <2>4, <1>7 DEF DeleteHeld, Deleting, Referring
      <3>2. epic[s] # T(o)
        <4> SUFFICES ASSUME epic[s] = T(o) PROVE FALSE
          OBVIOUS
        <4>1. epic[s] # None
          BY <3>1, HierarchyAssumption
        <4>2. Has(s, T(o), "share") \/ (req[s].op = "update" /\ rows[T(s)].epic = T(o))
          BY <4>1, <1>1 DEF EpicHeld, Placing
        <4>3. CASE Has(s, T(o), "share")
          BY <4>3, <3>1, <1>6, Excludes
        <4>4. CASE req[s].op = "update" /\ rows[T(s)].epic = T(o)
          <5>1. T(s) \in nulled[o] /\ Exists(T(s))
            BY <4>4, <3>1, <1>1, <1>4
          <5>2. Has(o, T(s), "update")
            BY <5>1 DEF DeleteHeld
          <5> QED BY <5>1, <5>2, <1>1, <1>8
        <4> QED BY <4>2, <4>3, <4>4
      <3> QED BY <3>1, <3>2, <1>1, <1>3, <1>4 DEF Exists
    <2>5. ASSUME NEW c \in nulled[o]
          PROVE  rows'[c] = rows[c] /\ Exists(c) /\ rows[c].epic = T(o) /\ Has(o, c, "update")
      <3>1. c \in Tickets
        BY DEF HierarchyTypeOK
      <3>2. Exists(c) /\ rows[c].epic = T(o) /\ Has(o, c, "update")
        BY <2>5 DEF DeleteHeld
      <3> QED BY <3>1, <3>2, <1>3, <1>8
    <2>6. Deleting(o) => Deleting(o)'
      BY <1>2, <1>3, <1>4, <1>7 DEF Deleting, Exists
    <2>7. Deleting(o) => Has(o, T(o), "exclusive")
      BY DEF DeleteHeld
    <2>8. nulled[o] # {} => Deleting(o)
      BY DEF DeleteHeld
    <2> HIDE Mover
    <2> QED BY <1>2, <2>1, <2>2, <2>3, <2>4, <2>5, <2>6, <2>7, <2>8
            DEF DeleteHeld, Children, Referring, Exists, Has
  <1> QED BY <1>9, <1>10, <1>11, <1>12 DEF Held

LEMMA RemovingKeepsHeld ==
    ASSUME HierarchyInv, NEW s \in Sessions, Commit(s), req[s].op = "delete",
           NEW o \in Sessions \ {s}
    PROVE  Held(o)'
  <1> USE Mover
  <1>1. /\ Release(s) /\ pc[s] = "commit" /\ T(s) \in Tickets
        /\ LockModes = {"share", "update", "exclusive"} /\ LocksCompatible
    BY DEF Commit, LockModes
  <1>2. /\ pc'[o] = pc[o] /\ req'[o] = req[o] /\ epic'[o] = epic[o]
        /\ locks'[o] = locks[o] /\ nulled'[o] = nulled[o] /\ T(o)' = T(o)
    BY <1>1, Released DEF T
  <1>3. \A u \in Tickets : u # T(s) =>
            /\ rows'[u] # Absent <=> rows[u] # Absent
            /\ Exists(u) =>
                 /\ rows'[u].parent = rows[u].parent
                 /\ rows[u].epic = T(s) => rows'[u].epic = None /\ Has(s, u, "update")
                 /\ rows[u].epic # T(s) => rows'[u] = rows[u]
    BY CommitRemoves DEF Exists
  <1>4. /\ rows'[T(s)] = Absent
        /\ Exists(T(s)) => /\ Has(s, T(s), "exclusive")
                           /\ \A u \in Tickets : Exists(u) => rows[u].parent # T(s)
    BY CommitRemoves
  <1>5. req[o].op \in {"create", "update", "delete"} => T(o) \in Tickets
    BY RequestFields, NoOp
  \* Whatever o has locked and is there is not T(s).
  <1>6. ASSUME NEW t \in Tickets, NEW m \in LockModes, Has(o, t, m), Exists(t)
        PROVE  t # T(s)
    BY <1>1, <1>4, <1>6, Excludes
  <1>7. ASSUME NEW t \in Tickets, Has(o, t, "exclusive") \/ Has(o, t, "update"), Exists(t)
        PROVE  rows'[t] = rows[t] /\ rows[t].epic # T(s)
    <2>1. t # T(s)
      BY <1>1, <1>6, <1>7
    <2>2. rows[t].epic # T(s)
      BY <2>1, <1>1, <1>3, <1>7, Excludes
    <2> QED BY <2>1, <2>2, <1>3, <1>7
  <1>8. RowHeld(o)'
    BY <1>2, <1>5, <1>7 DEF RowHeld, Exists, Has
  <1>9. ParentHeld(o)'
    <2> SUFFICES ASSUME Parented(o), req[o].parent # None
                 PROVE  /\ rows'[req[o].parent] # Absent
                        /\ \/ Has(o, req[o].parent, "share")
                           \/ req[o].op = "update" /\ rows'[T(o)].parent = req[o].parent
      BY <1>2 DEF ParentHeld, Parented, Exists, Has
    <2>1. req[o].parent \in Tickets /\ Exists(req[o].parent)
      BY RequestFields, NoOp DEF Parented, ParentHeld
    <2>2. req[o].op = "update" => Exists(T(o)) /\ rows'[T(o)] = rows[T(o)]
      BY <1>5, <1>7 DEF RowHeld, Parented
    <2>3. CASE Has(o, req[o].parent, "share")
      BY <2>1, <2>3, <1>1, <1>3, <1>6 DEF Exists
    <2>4. CASE req[o].op = "update" /\ rows[T(o)].parent = req[o].parent
      <3>1. req[o].parent # T(s)
        BY <2>1, <2>2, <2>4, <1>4, <1>5
      <3> QED BY <3>1, <2>1, <2>2, <2>4, <1>3 DEF Exists
    <2> QED BY <2>3, <2>4 DEF ParentHeld
  <1>10. EpicHeld(o)'
    <2> SUFFICES ASSUME Placing(o), epic[o] # None
                 PROVE  /\ rows'[epic[o]] # Absent
                        /\ \/ Has(o, epic[o], "share")
                           \/ req[o].op = "update" /\ rows'[T(o)].epic = epic[o]
      BY <1>2 DEF EpicHeld, Placing, Exists, Has
    <2>1. epic[o] \in Tickets /\ Exists(epic[o])
      BY DEF EpicHeld
    <2>2. req[o].op = "update" =>
              Exists(T(o)) /\ rows'[T(o)] = rows[T(o)] /\ rows[T(o)].epic # T(s)
      BY <1>5, <1>7 DEF RowHeld, Placing
    <2>3. CASE Has(o, epic[o], "share")
      BY <2>1, <2>3, <1>1, <1>3, <1>6 DEF Exists
    <2>4. CASE req[o].op = "update" /\ rows[T(o)].epic = epic[o]
      BY <2>1, <2>2, <2>4, <1>3 DEF Exists
    <2> QED BY <2>3, <2>4 DEF EpicHeld
  <1>11. DeleteHeld(o)'
    <2>1. req[o].op = "delete" /\ pc[o] \in {"restrict", "nullify"} =>
              Exists(T(o)) /\ Deleting(o)
      BY DEF DeleteHeld, Deleting
    <2>2. Deleting(o) => /\ T(o) \in Tickets /\ Exists(T(o))
                         /\ Has(o, T(o), "exclusive") /\ T(o) # T(s)
      BY <1>1, <1>5, <1>6 DEF Deleting, DeleteHeld
    <2>3. Deleting(o)' <=> Deleting(o)
      <3>1. req[o].op = "delete" /\ rows'[T(o)] # Absent => Exists(T(o))
        BY <1>3, <1>4, <1>5 DEF Exists
      <3>2. Deleting(o) => rows'[T(o)] # Absent
        BY <2>2, <1>3 DEF Exists
      <3> QED BY <3>1, <3>2, <1>2 DEF Deleting, Exists
    <2>4. ASSUME NEW c \in Tickets, rows'[c] # Absent
          PROVE  /\ Exists(c) /\ rows'[c].parent = rows[c].parent
                 /\ rows'[c].epic = None \/ rows'[c].epic = rows[c].epic
      BY <2>4, <1>3, <1>4 DEF Exists
    <2>5. ASSUME Deleting(o), pc[o] # "restrict"
          PROVE  \A c \in Tickets : rows'[c] # Absent => rows'[c].parent # T(o)
      BY <2>4, <2>5 DEF DeleteHeld, Children
    <2>6. ASSUME Deleting(o), pc[o] = "commit"
          PROVE  \A c \in Tickets : rows'[c] # Absent /\ rows'[c].epic = T(o) => c \in nulled[o]
      BY <2>2, <2>4, <2>6, HierarchyAssumption DEF DeleteHeld, Referring
    <2>7. ASSUME NEW c \in nulled[o]
          PROVE  rows'[c] = rows[c] /\ Exists(c) /\ rows[c].epic = T(o) /\ Has(o, c, "update")
      <3>1. c \in Tickets
        BY DEF HierarchyTypeOK
      <3>2. Exists(c) /\ rows[c].epic = T(o) /\ Has(o, c, "update")
        BY <2>7 DEF DeleteHeld
      <3> QED BY <3>1, <3>2, <1>7
    <2>8. nulled[o] # {} => Deleting(o)
      BY DEF DeleteHeld
    <2> HIDE Mover
    <2> QED BY <1>2, <2>1, <2>2, <2>3, <2>5, <2>6, <2>7, <2>8
            DEF DeleteHeld, Deleting, Children, Referring, Exists, Has
  <1> QED BY <1>8, <1>9, <1>10, <1>11 DEF Held

\* Parents and epics after a commit.
LEMMA CommitFits ==
    ASSUME HierarchyInv, NEW s \in Sessions, Commit(s)
    PROVE  ParentsFit' /\ EpicsExist'
  <1>1. req[s].op \in PlaceOps \/ req[s].op = "delete"
    BY Mover DEF Commit, PlaceOps
  <1>2. ParentsFit /\ EpicsExist /\ HierarchyTypeOK
    BY DEF HierarchyInv
  <1>3. CASE req[s].op \in PlaceOps
    <2>1. \A t \in Tickets : Exists(t) =>
              /\ rows'[t] # Absent
              /\ rows'[t].type = rows[t].type /\ rows'[t].project = rows[t].project
      BY <1>3, CommitPlaces DEF Exists
    <2>2. ASSUME NEW t \in Tickets, rows'[t] # Absent
          PROVE  /\ Forest!Fits(rows'[t].type, rows'[t].project, rows'[t].parent)
                 /\ Forest!IsEpic(rows'[t].epic, rows'[t].project)
      <3>1. CASE t = T(s)
        BY <3>1, <1>3, CommitPlaces
      <3>2. CASE t # T(s)
        BY <3>2, <2>2, <1>2, <1>3, CommitPlaces DEF ParentsFit, EpicsExist, Exists
      <3> QED BY <3>1, <3>2
    <2> QED BY <2>1, <2>2 DEF ParentsFit, EpicsExist, Exists,
                Forest!Fits, Forest!IsEpic, Forest!Exists
  <1>4. CASE req[s].op = "delete"
    <2>1. CASE ~Exists(T(s))
      BY <2>1, <1>2, <1>4, CommitRemoves DEF ParentsFit, EpicsExist, Exists,
         Forest!Fits, Forest!IsEpic, Forest!Exists
    <2>2. CASE Exists(T(s))
      <3>1. \A u \in Tickets : Exists(u) => rows[u].parent # T(s)
        BY <2>2, <1>4, CommitRemoves
      <3>2. \A u \in Tickets : u # T(s) /\ Exists(u) =>
                /\ rows'[u] # Absent
                /\ rows'[u].type = rows[u].type /\ rows'[u].project = rows[u].project
                /\ rows'[u].parent = rows[u].parent
                /\ rows'[u].epic = None \/ (rows'[u].epic = rows[u].epic /\ rows[u].epic # T(s))
        BY <1>4, CommitRemoves DEF Exists
      <3>3. \A u \in Tickets : rows'[u] # Absent => u # T(s) /\ Exists(u)
        BY <1>4, CommitRemoves DEF Exists
      <3>4. ParentsFit'
        BY <3>1, <3>2, <3>3, <1>2 DEF ParentsFit, Exists, Forest!Fits, Forest!Exists
      <3>5. EpicsExist'
        BY <3>2, <3>3, <1>2 DEF EpicsExist, Exists, Forest!IsEpic, Forest!Exists
      <3> QED BY <3>4, <3>5
    <2> QED BY <2>1, <2>2
  <1> QED BY <1>1, <1>3, <1>4

LEMMA CommitStep ==
    ASSUME HierarchyInv, NEW s \in Sessions, Commit(s)
    PROVE  HierarchyInv'
  <1>1. req[s].op \in PlaceOps \/ req[s].op = "delete"
    BY Mover DEF Commit, PlaceOps
  <1>2. Release(s) /\ HierarchyTypeOK
    BY DEF Commit, HierarchyInv
  <1>3. rows' \in [Tickets -> Forest!Node \cup {Absent}]
    <2>1. CASE req[s].op \in PlaceOps
      BY <2>1, <1>2, CommitPlaces DEF HierarchyTypeOK
    <2>2. CASE req[s].op = "delete"
      <3>1. ASSUME NEW u \in Tickets
            PROVE  (IF u = T(s) THEN Absent
                    ELSE IF Exists(u) /\ rows[u].epic = T(s)
                         THEN [rows[u] EXCEPT !.epic = None] ELSE rows[u])
                   \in Forest!Node \cup {Absent}
        BY <1>2, RowFields DEF HierarchyTypeOK, Forest!Node
      <3>2. rows' = [u \in Tickets |->
                       IF u = T(s) THEN Absent
                       ELSE IF Exists(u) /\ rows[u].epic = T(s)
                            THEN [rows[u] EXCEPT !.epic = None] ELSE rows[u]]
        BY <2>2, CommitRemoves
      <3> HIDE DEF HierarchyInv, Commit
      <3> QED BY <3>1, <3>2, Zenon
    <2> QED BY <1>1, <2>1, <2>2
  <1>4. HierarchyTypeOK'
    BY <1>2, <1>3, Released DEF HierarchyTypeOK
  <1>5. CreatePrivate'
    <2> SUFFICES ASSUME NEW o \in Sessions, req'[o].op = "create"
                 PROVE  /\ rows'[req'[o].ticket] = Absent
                        /\ \A x \in Sessions : x # o /\ req'[x] # NoRequest =>
                               req'[x].ticket # req'[o].ticket
      BY DEF CreatePrivate, Exists
    <2>1. o # s /\ req'[o] = req[o]
      BY <1>2, Released, NoOp
    <2>2. T(o) \in Tickets /\ T(o) # T(s) /\ ~Exists(T(o))
      <3>1. req[o] # NoRequest /\ req[s] # NoRequest
        BY <2>1, <1>1, NoOp DEF PlaceOps
      <3> QED BY <2>1, <3>1, <1>2, RequestFields DEF HierarchyInv, CreatePrivate, T
    <2>3. rows'[T(o)] = Absent
      BY <2>2, <1>1, CommitPlaces, CommitRemoves DEF Exists
    <2> QED BY <2>1, <2>3, <1>2, Released DEF HierarchyInv, CreatePrivate, T
  <1>6. ASSUME NEW o \in Sessions \ {s} PROVE Known(o)' /\ Held(o)'
    BY <1>1, <1>6, CommitKeepsKnown, PlacingKeepsHeld, RemovingKeepsHeld
  <1> QED BY <1>2, <1>4, <1>5, <1>6, CommitFits, Released DEF HierarchyInv

-----------------------------------------------------------------------------
(* The theorems.                                                           *)

LEMMA InitHolds == Init => HierarchyInv
  <1> SUFFICES ASSUME Init PROVE HierarchyInv
    OBVIOUS
  <1> USE NoOp
  <1>1. HierarchyTypeOK /\ ParentsFit /\ EpicsExist /\ LocksCompatible /\ CreatePrivate
    BY DEF Init, HierarchyTypeOK, PCs, ParentsFit, EpicsExist, LocksCompatible, Has,
           CreatePrivate, Exists
  <1>2. ASSUME NEW s \in Sessions PROVE Known(s) /\ Held(s)
    BY DEF Init, Known, AtPC, TicketKnown, ParentKnown, CursorKnown, EpicKnown, Checked,
           PlaceOps, Held, RowHeld, ParentHeld, EpicHeld, DeleteHeld, Parented, Placing, Deleting
  <1> QED BY <1>1, <1>2 DEF HierarchyInv

LEMMA StepHolds == HierarchyInv /\ [Next]_vars => HierarchyInv'
  <1> SUFFICES ASSUME HierarchyInv, [Next]_vars PROVE HierarchyInv'
    OBVIOUS
  <1>1. CASE UNCHANGED vars
    <2>1. /\ rows' = rows /\ pc' = pc /\ req' = req /\ cursor' = cursor
          /\ epic' = epic /\ locks' = locks /\ nulled' = nulled
      BY <1>1 DEF vars, local
    <2>2. \A t \in Tickets : Pending(t)' => Pending(t)
      BY <2>1 DEF Pending
    <2>3. ASSUME NEW o \in Sessions PROVE Known(o)' /\ Held(o)'
      BY <2>1, <2>2, OthersKeep
    <2>4. /\ HierarchyTypeOK' /\ ParentsFit' /\ EpicsExist'
          /\ LocksCompatible' /\ CreatePrivate'
      BY <2>1 DEF HierarchyInv, HierarchyTypeOK, ParentsFit, EpicsExist, LocksCompatible,
          CreatePrivate, Has, Exists, Forest!Fits, Forest!IsEpic, Forest!Exists
    <2> QED BY <2>3, <2>4 DEF HierarchyInv
  <1>2. ASSUME NEW s \in Sessions, Step(s) PROVE HierarchyInv'
    <2>1. CASE BeginCreate(s) \/ BeginChange(s)
      BY <2>1, BeginCreateStep, BeginChangeStep
    <2>2. CASE Place(s)
      BY <2>2, LoadStep, CheckStep, ClimbStep, WalkOnStep, WalkEndsStep,
         ReferToParentStep, ReferToEpicStep DEF Place
    <2>3. CASE Delete(s)
      BY <2>3, CountStep, RemoveStep, RestrictStep, ClearEpicStep, ClearedStep DEF Delete
    <2>4. CASE Refused(s) \/ DeadlockVictim(s)
      BY <2>4, RefuseStep DEF Refused, DeadlockVictim
    <2>5. CASE Commit(s)
      BY <2>5, CommitStep
    <2> QED BY <1>2, <2>1, <2>2, <2>3, <2>4, <2>5 DEF Step
  <1> QED BY <1>1, <1>2 DEF Next

\* The invariant of the rows, of what sessions know and of the locks they hold.
THEOREM HierarchyInvariant == Spec => []HierarchyInv
  BY InitHolds, StepHolds, PTL DEF Spec

\* Requests, locks and rows are of the kinds the code has.
THEOREM HierarchyTypes == Spec => []HierarchyTypeOK
  <1>1. HierarchyInv => HierarchyTypeOK
    BY DEF HierarchyInv
  <1> QED BY <1>1, HierarchyInvariant, PTL

\* Every parent is there and is one its child may have: the unlocked check of
\* _validate_hierarchy and the foreign key suffice together.
THEOREM ParentsAlwaysFit == Spec => []ParentsFit
  <1>1. HierarchyInv => ParentsFit
    BY DEF HierarchyInv
  <1> QED BY <1>1, HierarchyInvariant, PTL

\* epic_id always names an epic of the project, under ON DELETE SET NULL.
THEOREM EpicsAlwaysExist == Spec => []EpicsExist
  <1>1. HierarchyInv => EpicsExist
    BY DEF HierarchyInv
  <1> QED BY <1>1, HierarchyInvariant, PTL

\* There is never a cycle: along a chain of parents that fit, types only rise.
\* The climb of _validate_hierarchy, which reads without locks, is not needed.
THEOREM NeverACycle == Spec => []NoCycles
  <1>1. HierarchyInv => NoCycles
    <2> SUFFICES ASSUME HierarchyInv,
                        NEW C \in SUBSET {t \in Tickets : Exists(t)}, C # {},
                        \A t \in C : rows[t].parent \in C
                 PROVE  FALSE
      BY DEF NoCycles
    <2>1. \A t \in C : /\ t \in Tickets /\ Exists(t) /\ rows[t].type \in Forest!Types
                       /\ rows[t].parent \in C
      BY RowFields DEF HierarchyInv
    <2>2. \A t \in C : rows[rows[t].parent].type \in Forest!ParentTypes(rows[t].type)
      BY <2>1, HierarchyAssumption
      DEF HierarchyInv, ParentsFit, Forest!Fits, Forest!Exists, Exists
    <2>3. \A t \in C : rows[t].type # "workpackage"
      BY <2>2 DEF Forest!ParentTypes
    <2>4. \A t \in C : rows[t].type # "epic"
      BY <2>1, <2>2, <2>3 DEF Forest!ParentTypes
    <2>5. \A t \in C : rows[t].type # "story"
      BY <2>1, <2>2, <2>3, <2>4 DEF Forest!ParentTypes
    <2>6. \A t \in C : rows[t].type \notin {"task", "bug"}
      BY <2>1, <2>2, <2>3, <2>4, <2>5 DEF Forest!ParentTypes
    <2>7. \A t \in C : rows[t].type # "subtask"
      BY <2>1, <2>2, <2>5, <2>6 DEF Forest!ParentTypes
    <2> QED BY <2>1, <2>3, <2>4, <2>5, <2>6, <2>7 DEF Forest!Types
  <1> QED BY <1>1, HierarchyInvariant, PTL

\* A commit is a step of the forest, or changes nothing.
LEMMA CommitIsForestStep ==
    ASSUME HierarchyInv, NEW s \in Sessions, Commit(s)
    PROVE  Forest!Next \/ UNCHANGED rows
  <1>1. req[s].op \in PlaceOps \/ req[s].op = "delete"
    BY Mover DEF Commit, PlaceOps
  <1>2. CASE req[s].op \in PlaceOps
    <2>1. Forest!Put(T(s), Placed(s))
      BY <1>2, CommitPlaces DEF Forest!Put, Forest!Exists, Exists
    <2> QED BY <2>1, <1>2, CommitPlaces DEF Forest!Next
  <1>3. CASE req[s].op = "delete"
    <2>1. CASE ~Exists(T(s))
      BY <2>1, <1>3, CommitRemoves
    <2>2. CASE Exists(T(s))
      <3>1. Forest!Childless(T(s))
        BY <2>2, <1>3, CommitRemoves DEF Forest!Childless, Forest!Exists, Exists
      <3>2. Forest!Remove(T(s))
        BY <3>1, <1>3, CommitRemoves DEF Forest!Remove, Forest!Exists, Exists
      <3> QED BY <3>2, <1>3, CommitRemoves DEF Forest!Next
    <2> QED BY <2>1, <2>2
  <1> QED BY <1>1, <1>2, <1>3

\* Only commits write rows.
LEMMA OnlyCommits ==
    ASSUME [Next]_vars
    PROVE  (\E s \in Sessions : Commit(s)) \/ UNCHANGED rows
  BY DEF vars, Next, Step, BeginCreate, BeginChange, Place, LoadForUpdate, CheckParent,
         Climb, WalkOn, WalkEnds, ReferToParent, ReferToEpic, Delete, CountChildren,
         RemoveRow, RestrictOK, ClearEpic, EpicsCleared, Refused, DeadlockVictim, Refuse

\* The tickets under concurrent creates, moves and deletes are the forest.
THEOREM RowsAreForest == Spec => ForestSpec
  <1>1. Init => Forest!Init
    BY DEF Init, Forest!Init
  <1>2. HierarchyInv /\ [Next]_vars => [Forest!Next]_rows
    BY OnlyCommits, CommitIsForestStep
  <1> QED BY <1>1, <1>2, HierarchyInvariant, PTL DEF Spec, ForestSpec, Forest!Spec
=============================================================================
