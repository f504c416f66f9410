----------------------- MODULE TicketWorkflowProofs -----------------------
(***************************************************************************)
(* A ticket row is a versioned register, its history of transitions is     *)
(* unbroken, and nothing is replaced unseen, for any tickets, sessions and *)
(* people.  The inductive invariant says what a session that is about to   *)
(* commit knows: the row it holds locked is still the one it loaded.       *)
(* A second one, InboxInv, follows the notices: the inboxes fit the        *)
(* histories, and a transition in hand knows whom it has told, whom it has *)
(* yet to tell and which row of theirs each of its notices extends.        *)
(***************************************************************************)
EXTENDS TicketWorkflow, SequenceTheorems, FiniteSetTheorems, TLAPS

Ready(s) ==
    LET r == tickets[T(s)] IN
    /\ req[s].op = "edit" =>
         mode[s] = "exclusive" /\ VersionMatches(s) /\ view[s] = Edited(s, r)
    /\ req[s].op = "assign" =>
         mode[s] = "exclusive" /\ VersionMatches(s) /\ view[s] = Assigned(s, r)
    /\ req[s].op = "claim" =>
         mode[s] = "update" /\ Claimable(s) /\ view[s] = Claimed(s, r)
    /\ req[s].op = "move" =>
         mode[s] = "exclusive" /\ Legal(s) /\ view[s] = Moved(s, r)
    /\ req[s].op = "comment" =>
         /\ mode[s] = "update"
         /\ \E l \in Stamp : CheckHolds(l) /\ view[s] = Stamped(s, l)

\* Where the request of a session stands, and what it holds there.
SessionOK(s) ==
    /\ pc[s] = "idle" => mode[s] = "none"
    /\ pc[s] # "idle" => req[s] \in Requests
    /\ pc[s] \in Ops => req[s].op = pc[s]
    /\ pc[s] \in {"insert", "stamp"} => req[s].op = "comment" /\ view[s] \in Row
    /\ pc[s] \in {"find", "write"} => req[s].op = "move"
    /\ pc[s] \in {"find", "write", "commit"} => Ready(s)

LocalTypes ==
    /\ pc \in [Sessions -> PCs]
    /\ req \in [Sessions -> Requests \cup {NoRequest}]
    /\ base \in [Sessions -> Nat]
    /\ mode \in [Sessions -> LockModes]
    /\ view \in [Sessions -> Row \cup {NoView}]

RowsOK ==
    /\ tickets \in [Tickets -> Row]
    /\ \A t \in Tickets : CheckHolds(tickets[t].last)
    /\ history \in [Tickets -> Seq(Move)]

WorkflowInv ==
    /\ RowsOK
    /\ HistoryUnbroken
    /\ LocalTypes
    /\ LocksCompatible
    /\ \A s \in Sessions : SessionOK(s)

-----------------------------------------------------------------------------
(* Facts about rows and requests.                                          *)

\* What a request says is of the expected kind.
LEMMA RequestFields ==
    ASSUME NEW q \in Requests
    PROVE  /\ q.op \in Ops /\ q.ticket \in Tickets /\ q.actor \in People
           /\ q.stepped \in BOOLEAN /\ q.to \in Statuses
           /\ q.assignee \in People \cup {Nobody}
           /\ q.op = "claim" => q.actor \in Agents
           /\ q.stepped => q.actor \in Agents
           /\ q # NoRequest
  BY DEF Requests, NoRequest, Ops

\* What _stamp_last_activity writes satisfies the CHECK constraint.
LEMMA StampFields ==
    ASSUME NEW s \in Sessions, req[s] \in Requests
    PROVE  StampOf(s) \in Stamp /\ CheckHolds(StampOf(s))
  BY RequestFields DEF StampOf, Stamp, CheckHolds, KindOf

\* Each operation makes a row of a row.
LEMMA RowsOfOps ==
    ASSUME WorkflowAssumption, NEW s \in Sessions, req[s] \in Requests, NEW r \in Row
    PROVE  /\ Edited(s, r) \in Row /\ Assigned(s, r) \in Row
           /\ Claimed(s, r) \in Row /\ Moved(s, r) \in Row
           /\ \A l \in Stamp : [r EXCEPT !.last = l] \in Row
  <1>1. StampOf(s) \in Stamp
    BY StampFields
  <1>2. /\ r.version \in Nat \ {0} /\ r.version + 1 \in Nat \ {0}
        /\ r.status \in Statuses /\ r.resolved \in BOOLEAN
        /\ r.assignee \in People \cup {Nobody} /\ r.text \in Texts /\ r.last \in Stamp
    BY DEF Row
  <1>3. /\ s \in Texts /\ req[s].assignee \in People \cup {Nobody}
        /\ req[s].actor \in People /\ req[s].to \in Statuses
    BY RequestFields DEF Texts
  <1>4. Edited(s, r) \in Row
    BY <1>1, <1>2, <1>3 DEF Edited, Row
  <1>5. Assigned(s, r) \in Row
    BY <1>1, <1>2, <1>3 DEF Assigned, Row
  <1>6. Claimed(s, r) \in Row
    BY <1>1, <1>2, <1>3 DEF Claimed, Row
  <1>7. Moved(s, r) \in Row
    BY <1>1, <1>2, <1>3 DEF Moved, Row
  <1>8. \A l \in Stamp : [r EXCEPT !.last = l] \in Row
    BY <1>2 DEF Row
  <1> QED BY <1>4, <1>5, <1>6, <1>7, <1>8

-----------------------------------------------------------------------------
(* Steps that leave the rows alone.                                        *)

\* What a session knows depends on its own state and on the rows only.
LEMMA OthersKeepTheirs ==
    ASSUME NEW o \in Sessions, SessionOK(o),
           pc[o] \in {"find", "write", "commit"} => tickets'[T(o)] = tickets[T(o)],
           pc'[o] = pc[o], req'[o] = req[o], base'[o] = base[o],
           mode'[o] = mode[o], view'[o] = view[o]
    PROVE  SessionOK(o)'
  <1>1. T(o)' = T(o) /\ StampOf(o)' = StampOf(o)
    BY DEF T, StampOf
  <1>2. ASSUME tickets'[T(o)] = tickets[T(o)]
        PROVE  Ready(o)' <=> Ready(o)
    <2>1. /\ Edited(o, tickets[T(o)])' = Edited(o, tickets[T(o)])
          /\ Assigned(o, tickets[T(o)])' = Assigned(o, tickets[T(o)])
          /\ Claimed(o, tickets[T(o)])' = Claimed(o, tickets[T(o)])
          /\ Moved(o, tickets[T(o)])' = Moved(o, tickets[T(o)])
          /\ \A l \in Stamp : Stamped(o, l)' = Stamped(o, l)
      BY <1>1, <1>2 DEF Edited, Assigned, Claimed, Moved, Stamped
    <2>2. VersionMatches(o)' = VersionMatches(o) /\ Claimable(o)' = Claimable(o)
          /\ Legal(o)' = Legal(o)
      BY <1>1, <1>2 DEF VersionMatches, Claimable, Legal
    <2> QED BY <1>1, <1>2, <2>1, <2>2 DEF Ready
  <1> QED BY <1>2 DEF SessionOK

\* One session moves; the rows stay.
LEMMA OneSessionMoves ==
    ASSUME WorkflowInv, NEW s \in Sessions, UNCHANGED <<tickets, history>>, LocalTypes',
           \A o \in Sessions \ {s} : /\ pc'[o] = pc[o] /\ req'[o] = req[o] /\ base'[o] = base[o]
                                    /\ mode'[o] = mode[o] /\ view'[o] = view[o],
           SessionOK(s)',
           \A o \in Sessions \ {s} :
               req'[s] # NoRequest /\ req[o] # NoRequest /\ req[o].ticket = req'[s].ticket
                   => ~Conflict(mode'[s], mode[o])
    PROVE  WorkflowInv'
  <1>1. RowsOK' /\ HistoryUnbroken'
    BY DEF WorkflowInv, RowsOK, HistoryUnbroken
  <1>2. \A o \in Sessions : SessionOK(o)'
    BY OthersKeepTheirs DEF WorkflowInv
  <1>3. LocksCompatible'
    <2> SUFFICES ASSUME NEW a \in Sessions, NEW b \in Sessions, a # b,
                        req'[a] # NoRequest, req'[b] # NoRequest, T(a)' = T(b)'
                 PROVE  ~Conflict(mode'[a], mode'[b])
      BY DEF LocksCompatible
    <2>1. CASE a = s
      BY <2>1 DEF T
    <2>2. CASE b = s
      <3>1. ~Conflict(mode'[s], mode[a])
        BY <2>2 DEF T
      <3> QED BY <3>1, <2>2 DEF Conflict
    <2>3. CASE a # s /\ b # s
      BY <2>3 DEF WorkflowInv, LocksCompatible, T
    <2> QED BY <2>1, <2>2, <2>3
  <1> QED BY <1>1, <1>2, <1>3 DEF WorkflowInv

\* What the invariant says of a session whose request is running.
LEMMA Running ==
    ASSUME WorkflowInv, NEW s \in Sessions, pc[s] # "idle"
    PROVE  /\ req[s] \in Requests /\ T(s) \in Tickets
           /\ tickets[T(s)] \in Row /\ CheckHolds(tickets[T(s)].last)
           /\ SessionOK(s) /\ LocalTypes
  BY RequestFields DEF WorkflowInv, SessionOK, RowsOK, T

LEMMA BeginKeeps ==
    ASSUME WorkflowInv, NEW s \in Sessions, Begin(s)
    PROVE  WorkflowInv'
  <1>1. PICK q \in Requests : req' = [req EXCEPT ![s] = q] /\ pc' = [pc EXCEPT ![s] = q.op]
    BY DEF Begin
  <1>2. q.op \in Ops /\ q.op # "idle" /\ q.op \in PCs
        /\ q.op \notin {"insert", "stamp", "find", "write", "commit"}
    BY RequestFields DEF Ops, PCs
  <1>3. pc[s] = "idle" /\ mode[s] = "none" /\ LocalTypes
        /\ UNCHANGED <<tickets, history, mode, view>>
    BY DEF Begin, WorkflowInv, SessionOK, db
  <1>9. base' \in [Sessions -> Nat] /\ \A o \in Sessions \ {s} : base'[o] = base[o]
    <2>1. PICK v \in Nat : base' = [base EXCEPT ![s] = v]
      BY RequestFields DEF Begin, WorkflowInv, RowsOK, Row
    <2> QED BY <2>1, <1>3 DEF LocalTypes
  <1>4. pc'[s] = q.op /\ req'[s] = q
    BY <1>1, <1>3 DEF LocalTypes
  <1>5. \A o \in Sessions \ {s} : /\ pc'[o] = pc[o] /\ req'[o] = req[o] /\ base'[o] = base[o]
                                 /\ mode'[o] = mode[o] /\ view'[o] = view[o]
    BY <1>1, <1>3, <1>9 DEF LocalTypes
  <1>6. LocalTypes'
    BY <1>1, <1>2, <1>3, <1>9 DEF LocalTypes
  <1>7. SessionOK(s)'
    BY <1>2, <1>3, <1>4 DEF SessionOK
  <1>8. \A o \in Sessions \ {s} : ~Conflict(mode'[s], mode[o])
    BY <1>3 DEF Conflict
  <1> QED BY <1>3, <1>5, <1>6, <1>7, <1>8, OneSessionMoves

\* The row is loaded: the session holds its lock and knows what it will write.
LEMMA LoadedKeeps ==
    ASSUME WorkflowInv, NEW s \in Sessions, NEW r \in Row, NEW next \in {"find", "commit"},
           NEW m \in LockModes, pc[s] # "idle", CanTake(s, m),
           mode' = [mode EXCEPT ![s] = m], view' = [view EXCEPT ![s] = r],
           pc' = [pc EXCEPT ![s] = next], UNCHANGED <<tickets, history, req, base>>,
           next = "find" => req[s].op = "move",
           Ready(s)'
    PROVE  WorkflowInv'
  <1>1. LocalTypes /\ req[s] \in Requests /\ T(s) = req[s].ticket
    BY Running DEF T
  <1>2. LocalTypes'
    BY <1>1 DEF LocalTypes, PCs
  <1>3. \A o \in Sessions \ {s} : /\ pc'[o] = pc[o] /\ req'[o] = req[o] /\ base'[o] = base[o]
                                 /\ mode'[o] = mode[o] /\ view'[o] = view[o]
    BY <1>1 DEF LocalTypes
  <1>4. pc'[s] = next /\ req'[s] = req[s] /\ mode'[s] = m
    BY <1>1 DEF LocalTypes
  <1>5. next \notin Ops /\ next # "idle" /\ next \notin {"insert", "stamp", "write"}
    BY DEF Ops
  <1>6. SessionOK(s)'
    BY <1>1, <1>4, <1>5 DEF SessionOK
  <1>7. \A o \in Sessions \ {s} :
            req[o] # NoRequest /\ req[o].ticket = req'[s].ticket => ~Conflict(mode'[s], mode[o])
    BY <1>4 DEF CanTake
  <1> QED BY <1>2, <1>3, <1>6, <1>7, OneSessionMoves

LEMMA EditKeeps ==
    ASSUME WorkflowAssumption, WorkflowInv, NEW s \in Sessions, Edit(s)
    PROVE  WorkflowInv'
  <1> DEFINE r == Edited(s, tickets[T(s)])
  <1>1. pc[s] = "edit" /\ req[s].op = "edit" /\ LocalTypes /\ r \in Row
    BY Running, RowsOfOps DEF Edit, SessionOK, Ops
  <1>2. /\ CanTake(s, "exclusive") /\ mode' = [mode EXCEPT ![s] = "exclusive"]
        /\ view' = [view EXCEPT ![s] = r] /\ pc' = [pc EXCEPT ![s] = "commit"]
        /\ UNCHANGED <<tickets, history, req, base>> /\ VersionMatches(s)
    BY <1>1 DEF Edit, Loaded, LoadMode, db
  <1>3. Ready(s)'
    BY <1>1, <1>2 DEF Ready, LocalTypes, T, Edited, StampOf, VersionMatches
  <1> HIDE DEF r
  <1> QED BY <1>1, <1>2, <1>3, LoadedKeeps DEF LockModes

LEMMA AssignKeeps ==
    ASSUME WorkflowAssumption, WorkflowInv, NEW s \in Sessions, Assign(s)
    PROVE  WorkflowInv'
  <1> DEFINE r == Assigned(s, tickets[T(s)])
  <1>1. pc[s] = "assign" /\ req[s].op = "assign" /\ LocalTypes /\ r \in Row
    BY Running, RowsOfOps DEF Assign, SessionOK, Ops
  <1>2. /\ CanTake(s, "exclusive") /\ mode' = [mode EXCEPT ![s] = "exclusive"]
        /\ view' = [view EXCEPT ![s] = r] /\ pc' = [pc EXCEPT ![s] = "commit"]
        /\ UNCHANGED <<tickets, history, req, base>> /\ VersionMatches(s)
    BY <1>1 DEF Assign, Loaded, LoadMode, db
  <1>3. Ready(s)'
    BY <1>1, <1>2 DEF Ready, LocalTypes, T, Assigned, StampOf, VersionMatches
  <1> HIDE DEF r
  <1> QED BY <1>1, <1>2, <1>3, LoadedKeeps DEF LockModes

LEMMA ClaimKeeps ==
    ASSUME WorkflowAssumption, WorkflowInv, NEW s \in Sessions, Claim(s)
    PROVE  WorkflowInv'
  <1> DEFINE r == Claimed(s, tickets[T(s)])
  <1>1. pc[s] = "claim" /\ req[s].op = "claim" /\ LocalTypes /\ r \in Row
    BY Running, RowsOfOps DEF Claim, SessionOK, Ops
  <1>2. /\ CanTake(s, "update") /\ mode' = [mode EXCEPT ![s] = "update"]
        /\ view' = [view EXCEPT ![s] = r] /\ pc' = [pc EXCEPT ![s] = "commit"]
        /\ UNCHANGED <<tickets, history, req, base>> /\ Claimable(s)
    BY DEF Claim, db
  <1>3. Ready(s)'
    BY <1>1, <1>2 DEF Ready, LocalTypes, T, Claimed, StampOf, Claimable
  <1> HIDE DEF r
  <1> QED BY <1>1, <1>2, <1>3, LoadedKeeps DEF LockModes

LEMMA TransitionKeeps ==
    ASSUME WorkflowAssumption, WorkflowInv, NEW s \in Sessions, Transition(s)
    PROVE  WorkflowInv'
  <1> DEFINE r == Moved(s, tickets[T(s)])
  <1>1. pc[s] = "move" /\ req[s].op = "move" /\ LocalTypes /\ r \in Row
    BY Running, RowsOfOps DEF Transition, SessionOK, Ops
  <1>2. /\ CanTake(s, "exclusive") /\ mode' = [mode EXCEPT ![s] = "exclusive"]
        /\ view' = [view EXCEPT ![s] = r] /\ pc' = [pc EXCEPT ![s] = "find"]
        /\ UNCHANGED <<tickets, history, req, base>> /\ Legal(s)
    BY <1>1 DEF Transition, Loaded, LoadMode, db
  <1>3. Ready(s)'
    BY <1>1, <1>2 DEF Ready, LocalTypes, T, Moved, StampOf, Legal
  <1> HIDE DEF r
  <1> QED BY <1>1, <1>2, <1>3, LoadedKeeps DEF LockModes

LEMMA StampKeeps ==
    ASSUME WorkflowAssumption, WorkflowInv, NEW s \in Sessions, StampRow(s)
    PROVE  WorkflowInv'
  <1> DEFINE r == Stamped(s, Merged(s))
  <1>1. /\ pc[s] = "stamp" /\ req[s].op = "comment" /\ LocalTypes /\ req[s] \in Requests
        /\ view[s] \in Row /\ tickets[T(s)] \in Row
    BY Running DEF StampRow, SessionOK
  <1>2. Merged(s) \in Stamp
    <2>1. /\ view[s].last \in Stamp /\ tickets[T(s)].last \in Stamp /\ StampOf(s) \in Stamp
      BY <1>1, StampFields DEF Row
    <2> QED BY <2>1 DEF Merged, Stamp
  <1>3. r \in Row
    BY <1>1, <1>2, RowsOfOps DEF Stamped
  <1>4. /\ CanTake(s, "update") /\ mode' = [mode EXCEPT ![s] = "update"]
        /\ view' = [view EXCEPT ![s] = r] /\ pc' = [pc EXCEPT ![s] = "commit"]
        /\ UNCHANGED <<tickets, history, req, base>> /\ CheckHolds(Merged(s))
    BY DEF StampRow, db
  <1>5. Ready(s)'
    <2>1. view'[s] = r /\ mode'[s] = "update" /\ req'[s] = req[s] /\ tickets' = tickets
      BY <1>1, <1>4 DEF LocalTypes
    <2>2. \A l \in Stamp : Stamped(s, l)' = Stamped(s, l)
      BY <2>1 DEF Stamped, T
    <2>3. \E l \in Stamp : CheckHolds(l) /\ view'[s] = Stamped(s, l)'
      BY <1>2, <1>4, <2>1, <2>2
    <2> QED BY <1>1, <2>1, <2>3 DEF Ready
  <1> HIDE DEF r
  <1> QED BY <1>1, <1>3, <1>4, <1>5, LoadedKeeps DEF LockModes

-----------------------------------------------------------------------------
(* Steps in which a session gives up, or goes on without a new row.        *)

LEMMA ReleaseKeeps ==
    ASSUME WorkflowInv, NEW s \in Sessions, Release(s), UNCHANGED <<tickets, history>>
    PROVE  WorkflowInv'
  <1>1. LocalTypes
    BY DEF WorkflowInv
  <1>2. LocalTypes'
    BY <1>1 DEF LocalTypes, Release, PCs, LockModes
  <1>3. \A o \in Sessions \ {s} : /\ pc'[o] = pc[o] /\ req'[o] = req[o] /\ base'[o] = base[o]
                                 /\ mode'[o] = mode[o] /\ view'[o] = view[o]
    BY <1>1 DEF LocalTypes, Release
  <1>4. pc'[s] = "idle" /\ mode'[s] = "none" /\ req'[s] = NoRequest
    BY <1>1 DEF LocalTypes, Release
  <1>5. SessionOK(s)'
    BY <1>4 DEF SessionOK, Ops
  <1> QED BY <1>2, <1>3, <1>4, <1>5, OneSessionMoves

\* Between the load and the commit of a transition only its notices change.
LEMMA FanOutKeeps ==
    ASSUME WorkflowInv, NEW s \in Sessions, NEW next \in {"find", "write", "commit"},
           pc[s] \in {"find", "write"}, pc' = [pc EXCEPT ![s] = next],
           UNCHANGED <<tickets, history, req, base, mode, view>>
    PROVE  WorkflowInv'
  <1>1. LocalTypes /\ SessionOK(s) /\ req[s].op = "move" /\ Ready(s) /\ req[s] \in Requests
    BY Running DEF SessionOK
  <1>2. LocalTypes'
    BY <1>1 DEF LocalTypes, PCs
  <1>3. \A o \in Sessions \ {s} : /\ pc'[o] = pc[o] /\ req'[o] = req[o] /\ base'[o] = base[o]
                                 /\ mode'[o] = mode[o] /\ view'[o] = view[o]
    BY <1>1 DEF LocalTypes
  <1>4. pc'[s] = next /\ req'[s] = req[s] /\ mode'[s] = mode[s] /\ view'[s] = view[s]
    BY <1>1 DEF LocalTypes
  <1>5. Ready(s)'
    BY <1>1, <1>4 DEF Ready, T, Moved, StampOf, Legal
  <1>6. SessionOK(s)'
    BY <1>1, <1>4, <1>5 DEF SessionOK, Ops
  <1>7. \A o \in Sessions \ {s} :
            req'[s] # NoRequest /\ req[o] # NoRequest /\ req[o].ticket = req'[s].ticket
                => ~Conflict(mode'[s], mode[o])
    BY <1>4 DEF WorkflowInv, LocksCompatible, T
  <1> QED BY <1>2, <1>3, <1>6, <1>7, OneSessionMoves

LEMMA TransitionFanOutKeeps ==
    ASSUME WorkflowInv, NEW s \in Sessions,
           FindNotice(s) \/ WriteNotice(s) \/ NoticeLost(s) \/ FanOutDone(s)
    PROVE  WorkflowInv'
  <1>1. CASE FindNotice(s)
    <2>1. /\ pc[s] = "find" /\ pc' = [pc EXCEPT ![s] = "write"]
          /\ UNCHANGED <<tickets, history, req, base, mode, view>>
      BY <1>1 DEF FindNotice, db
    <2> QED BY <2>1, FanOutKeeps
  <1>2. CASE WriteNotice(s) \/ NoticeLost(s)
    <2>1. /\ pc[s] = "write" /\ pc' = [pc EXCEPT ![s] = "find"]
          /\ UNCHANGED <<tickets, history, req, base, mode, view>>
      BY <1>2 DEF WriteNotice, NoticeLost, db
    <2> QED BY <2>1, FanOutKeeps
  <1>3. CASE FanOutDone(s)
    <2>1. /\ pc[s] = "find" /\ pc' = [pc EXCEPT ![s] = "commit"]
          /\ UNCHANGED <<tickets, history, req, base, mode, view>>
      BY <1>3 DEF FanOutDone, db
    <2> QED BY <2>1, FanOutKeeps
  <1> QED BY <1>1, <1>2, <1>3

LEMMA LoadForCommentKeeps ==
    ASSUME WorkflowInv, NEW s \in Sessions, LoadForComment(s)
    PROVE  WorkflowInv'
  <1>1. /\ LocalTypes /\ pc[s] = "comment" /\ req[s].op = "comment"
        /\ req[s] \in Requests /\ tickets[T(s)] \in Row
    BY Running DEF LoadForComment, SessionOK, Ops
  <1>2. /\ view' = [view EXCEPT ![s] = tickets[T(s)]] /\ pc' = [pc EXCEPT ![s] = "insert"]
        /\ UNCHANGED <<tickets, history, req, base, mode>>
    BY DEF LoadForComment, db
  <1>3. LocalTypes'
    BY <1>1, <1>2 DEF LocalTypes, PCs
  <1>4. \A o \in Sessions \ {s} : /\ pc'[o] = pc[o] /\ req'[o] = req[o] /\ base'[o] = base[o]
                                 /\ mode'[o] = mode[o] /\ view'[o] = view[o]
    BY <1>1, <1>2 DEF LocalTypes
  <1>5. pc'[s] = "insert" /\ req'[s] = req[s] /\ view'[s] \in Row /\ mode'[s] = mode[s]
    BY <1>1, <1>2 DEF LocalTypes
  <1>6. SessionOK(s)'
    BY <1>1, <1>5 DEF SessionOK, Ops
  <1>7. \A o \in Sessions \ {s} :
            req'[s] # NoRequest /\ req[o] # NoRequest /\ req[o].ticket = req'[s].ticket
                => ~Conflict(mode'[s], mode[o])
    BY <1>5 DEF WorkflowInv, LocksCompatible, T
  <1> QED BY <1>2, <1>3, <1>4, <1>6, <1>7, OneSessionMoves

LEMMA InsertCommentKeeps ==
    ASSUME WorkflowInv, NEW s \in Sessions, InsertComment(s)
    PROVE  WorkflowInv'
  <1>1. /\ LocalTypes /\ pc[s] = "insert" /\ req[s].op = "comment"
        /\ req[s] \in Requests /\ view[s] \in Row
    BY Running DEF InsertComment, SessionOK
  <1>2. /\ mode' = [mode EXCEPT ![s] = "share"] /\ pc' = [pc EXCEPT ![s] = "stamp"]
        /\ CanTake(s, "share") /\ UNCHANGED <<tickets, history, req, base, view>>
    BY DEF InsertComment, db
  <1>3. LocalTypes'
    BY <1>1, <1>2 DEF LocalTypes, PCs, LockModes
  <1>4. \A o \in Sessions \ {s} : /\ pc'[o] = pc[o] /\ req'[o] = req[o] /\ base'[o] = base[o]
                                 /\ mode'[o] = mode[o] /\ view'[o] = view[o]
    BY <1>1, <1>2 DEF LocalTypes
  <1>5. pc'[s] = "stamp" /\ req'[s] = req[s] /\ view'[s] = view[s] /\ mode'[s] = "share"
    BY <1>1, <1>2 DEF LocalTypes
  <1>6. SessionOK(s)'
    BY <1>1, <1>5 DEF SessionOK, Ops
  <1>7. \A o \in Sessions \ {s} :
            req[o] # NoRequest /\ req[o].ticket = req'[s].ticket => ~Conflict(mode'[s], mode[o])
    BY <1>2, <1>5 DEF CanTake
  <1> QED BY <1>2, <1>3, <1>4, <1>6, <1>7, OneSessionMoves

-----------------------------------------------------------------------------
(* Histories.                                                              *)

\* HistoryUnbroken, of one history and the row it belongs to.
Unbroken(h, r) ==
    /\ h # << >> /\ h[1].from = "none"
    /\ \A i \in 2..Len(h) : /\ h[i].from = h[i - 1].to
                           /\ h[i].to \in Register!Allowed(h[i].from)
                           /\ h[i - 1].version < h[i].version
    /\ h[Len(h)].to = r.status
    /\ h[Len(h)].version <= r.version
    /\ r.resolved <=> \E i \in DOMAIN h : h[i].to \in Terminal

LEMMA HistoryByTicket ==
    HistoryUnbroken <=> \A t \in Tickets : Unbroken(history[t], tickets[t])
  BY DEF HistoryUnbroken, Unbroken

\* A write that leaves the status alone leaves the history unbroken.
LEMMA UnbrokenWhenKept ==
    ASSUME NEW h \in Seq(Move), NEW r \in Row, NEW n \in Row, Unbroken(h, r),
           n.status = r.status, n.resolved = r.resolved, r.version <= n.version
    PROVE  Unbroken(h, n)
  <1>1. h # << >> /\ h[Len(h)] \in Move
    BY DEF Unbroken
  <1>2. h[Len(h)].version \in Nat /\ r.version \in Nat /\ n.version \in Nat
    BY <1>1 DEF Move, Row
  <1>3. h[Len(h)].version <= n.version
    BY <1>2 DEF Unbroken
  <1> QED BY <1>3 DEF Unbroken

\* A legal move, recorded, leaves the history unbroken.
LEMMA UnbrokenWhenMoved ==
    ASSUME NEW h \in Seq(Move), NEW r \in Row, NEW n \in Row, NEW m \in Move,
           Unbroken(h, r), m.from = r.status, m.to \in Register!Allowed(r.status),
           m.version = r.version + 1,
           n.status = m.to, n.version = m.version,
           n.resolved <=> r.resolved \/ m.to \in Terminal
    PROVE  h \o <<m>> \in Seq(Move) /\ Unbroken(h \o <<m>>, n)
  <1> DEFINE g == h \o <<m>>
  <1>1. /\ g \in Seq(Move) /\ Len(g) = Len(h) + 1 /\ Len(h) \in Nat \ {0}
        /\ \A i \in 1..Len(h) : g[i] = h[i]
        /\ g[Len(h) + 1] = m
    BY DEF Unbroken
  <1>2. /\ h[Len(h)] \in Move /\ h[Len(h)].version \in Nat /\ r.version \in Nat
        /\ m.version \in Nat /\ h[Len(h)].version < m.version
    <2>1. h[Len(h)] \in Move
      BY <1>1
    <2>2. h[Len(h)].version \in Nat /\ m.version \in Nat
      BY <2>1 DEF Move
    <2>3. r.version \in Nat
      BY DEF Row
    <2>4. h[Len(h)].version <= r.version
      BY DEF Unbroken
    <2> QED BY <2>1, <2>2, <2>3, <2>4
  <1>3. g # << >> /\ g[1].from = "none"
    BY <1>1 DEF Unbroken
  <1>4. ASSUME NEW i \in 2..Len(g)
        PROVE  /\ g[i].from = g[i - 1].to
               /\ g[i].to \in Register!Allowed(g[i].from)
               /\ g[i - 1].version < g[i].version
    <2>1. CASE i \in 2..Len(h)
      <3>1. i - 1 \in 1..Len(h) /\ i \in 1..Len(h)
        BY <2>1, <1>1
      <3> QED BY <3>1, <2>1, <1>1 DEF Unbroken
    <2>2. CASE i = Len(h) + 1
      <3>1. g[i] = m /\ g[i - 1] = h[Len(h)] /\ h[Len(h)].to = r.status
        BY <2>2, <1>1 DEF Unbroken
      <3> QED BY <3>1, <1>2
    <2> QED BY <2>1, <2>2, <1>1
  <1>5. g[Len(g)] = m
    BY <1>1
  <1>6. (\E i \in DOMAIN g : g[i].to \in Terminal)
        <=> (\E i \in DOMAIN h : h[i].to \in Terminal) \/ m.to \in Terminal
    <2>1. DOMAIN g = 1..(Len(h) + 1) /\ DOMAIN h = 1..Len(h)
      BY <1>1
    <2> HIDE DEF g
    <2>2. ASSUME NEW i \in DOMAIN h, h[i].to \in Terminal
          PROVE  \E j \in DOMAIN g : g[j].to \in Terminal
      BY <2>1, <2>2, <1>1
    <2>3. m.to \in Terminal => \E j \in DOMAIN g : g[j].to \in Terminal
      BY <2>1, <1>1
    <2>4. ASSUME NEW j \in DOMAIN g, g[j].to \in Terminal, m.to \notin Terminal
          PROVE  \E i \in DOMAIN h : h[i].to \in Terminal
      <3>1. j \in 1..Len(h)
        BY <2>1, <2>4, <1>1
      <3> QED BY <3>1, <2>1, <2>4, <1>1
    <2> QED BY <2>2, <2>3, <2>4
  <1> HIDE DEF g
  <1>7. n.resolved <=> \E i \in DOMAIN g : g[i].to \in Terminal
    BY <1>6 DEF Unbroken
  <1>8. g[Len(g)].to = n.status /\ g[Len(g)].version <= n.version
    BY <1>5, <1>2
  <1>9. Unbroken(g, n)
    BY <1>3, <1>4, <1>7, <1>8 DEF Unbroken
  <1> QED BY <1>1, <1>9 DEF g

-----------------------------------------------------------------------------
(* The commit.                                                             *)

\* What a session that commits puts in place of the row.
LEMMA CommitWrites ==
    ASSUME WorkflowAssumption, WorkflowInv, NEW s \in Sessions, pc[s] = "commit"
    PROVE  /\ view[s] \in Row /\ CheckHolds(view[s].last)
           /\ mode[s] \in {"update", "exclusive"}
           /\ req[s].op # "move" =>
                /\ view[s].status = tickets[T(s)].status
                /\ view[s].resolved = tickets[T(s)].resolved
                /\ tickets[T(s)].version <= view[s].version
           /\ req[s].op = "move" =>
                /\ view[s].status = req[s].to
                /\ req[s].to \in Register!Allowed(tickets[T(s)].status)
                /\ view[s].version = tickets[T(s)].version + 1
                /\ view[s].resolved <=> tickets[T(s)].resolved \/ req[s].to \in Terminal
  <1> DEFINE r == tickets[T(s)]
  <1>1. Ready(s) /\ req[s] \in Requests /\ r \in Row /\ req[s].op \in Ops
    BY Running, RequestFields DEF SessionOK
  <1>2. /\ r.version \in Nat /\ r.version <= r.version + 1 /\ r.version <= r.version
        /\ r.resolved \in BOOLEAN
    BY <1>1 DEF Row
  <1>3. StampOf(s) \in Stamp /\ CheckHolds(StampOf(s))
    BY <1>1, StampFields
  <1> HIDE DEF r
  <1>4. CASE req[s].op = "edit"
    <2>1. mode[s] = "exclusive" /\ view[s] = Edited(s, r)
      BY <1>1, <1>4 DEF Ready, r
    <2>2. view[s] \in Row
      BY <1>1, <2>1, RowsOfOps
    <2>3. /\ view[s].status = r.status /\ view[s].resolved = r.resolved
          /\ view[s].version = r.version + 1 /\ view[s].last = StampOf(s)
      BY <1>1, <2>1 DEF Edited, Row
    <2> QED BY <1>2, <1>3, <1>4, <2>1, <2>2, <2>3 DEF r
  <1>5. CASE req[s].op = "assign"
    <2>1. mode[s] = "exclusive" /\ view[s] = Assigned(s, r)
      BY <1>1, <1>5 DEF Ready, r
    <2>2. view[s] \in Row
      BY <1>1, <2>1, RowsOfOps
    <2>3. /\ view[s].status = r.status /\ view[s].resolved = r.resolved
          /\ view[s].version = r.version + 1 /\ view[s].last = StampOf(s)
      BY <1>1, <2>1 DEF Assigned, Row
    <2> QED BY <1>2, <1>3, <1>5, <2>1, <2>2, <2>3 DEF r
  <1>6. CASE req[s].op = "claim"
    <2>1. mode[s] = "update" /\ view[s] = Claimed(s, r)
      BY <1>1, <1>6 DEF Ready, r
    <2>2. view[s] \in Row
      BY <1>1, <2>1, RowsOfOps
    <2>3. /\ view[s].status = r.status /\ view[s].resolved = r.resolved
          /\ view[s].version = r.version + 1 /\ view[s].last = StampOf(s)
      BY <1>1, <2>1 DEF Claimed, Row
    <2> QED BY <1>2, <1>3, <1>6, <2>1, <2>2, <2>3 DEF r
  <1>7. CASE req[s].op = "move"
    <2>1. mode[s] = "exclusive" /\ view[s] = Moved(s, r) /\ Legal(s)
      BY <1>1, <1>7 DEF Ready, r
    <2>2. view[s] \in Row
      BY <1>1, <2>1, RowsOfOps
    <2>3. /\ view[s].status = req[s].to /\ view[s].last = StampOf(s)
          /\ view[s].version = r.version + 1
          /\ view[s].resolved = (r.resolved \/ req[s].to \in Terminal)
      BY <1>1, <2>1 DEF Moved, Row
    <2> QED BY <1>3, <1>7, <2>1, <2>2, <2>3 DEF r, Legal
  <1>8. CASE req[s].op = "comment"
    <2>1. PICK l \in Stamp : CheckHolds(l) /\ view[s] = Stamped(s, l) /\ mode[s] = "update"
      BY <1>1, <1>8 DEF Ready
    <2>2. view[s] = [r EXCEPT !.last = l]
      BY <2>1 DEF Stamped, r
    <2>3. view[s] \in Row
      BY <1>1, <2>2, RowsOfOps
    <2>4. /\ view[s].status = r.status /\ view[s].resolved = r.resolved
          /\ view[s].version = r.version /\ view[s].last = l
      BY <1>1, <2>2 DEF Row
    <2> QED BY <1>2, <1>8, <2>1, <2>3, <2>4 DEF r
  <1> QED BY <1>1, <1>4, <1>5, <1>6, <1>7, <1>8 DEF Ops

LEMMA CommitKeeps ==
    ASSUME WorkflowAssumption, WorkflowInv, NEW s \in Sessions, Commit(s)
    PROVE  WorkflowInv'
  <1> DEFINE t == T(s)
             n == view[s]
  <1>1. pc[s] = "commit" /\ Release(s)
    BY DEF Commit
  <1>2. /\ tickets' = [tickets EXCEPT ![t] = n]
        /\ history' = [history EXCEPT ![t] = @ \o Recorded(s)]
    BY DEF Commit
  <1>3. /\ t \in Tickets /\ req[s] \in Requests /\ LocalTypes /\ SessionOK(s)
        /\ tickets[t] \in Row /\ RowsOK
    BY <1>1, Running DEF WorkflowInv
  <1>4. n \in Row /\ CheckHolds(n.last) /\ mode[s] \in {"update", "exclusive"}
    BY <1>1, CommitWrites
  <1>5. /\ tickets' \in [Tickets -> Row] /\ tickets'[t] = n
        /\ \A u \in Tickets \ {t} : tickets'[u] = tickets[u] /\ history'[u] = history[u]
    BY <1>2, <1>3, <1>4 DEF RowsOK
  <1>6. \A u \in Tickets : history[u] \in Seq(Move) /\ Unbroken(history[u], tickets[u])
    BY <1>3, HistoryByTicket DEF RowsOK, WorkflowInv
  <1>7. history'[t] \in Seq(Move) /\ Unbroken(history'[t], n)
    <2>1. CASE req[s].op # "move"
      <3>1. history'[t] = history[t]
        BY <1>2, <1>3, <1>6, <2>1, ConcatEmptySeq DEF Recorded, RowsOK
      <3>2. Unbroken(history[t], n)
        BY <1>1, <1>3, <1>4, <1>6, <2>1, CommitWrites, UnbrokenWhenKept
      <3> QED BY <3>1, <3>2, <1>3, <1>6
    <2>2. CASE req[s].op = "move"
      <3> DEFINE m == [from |-> tickets[t].status, to |-> n.status, version |-> n.version,
                       by |-> req[s].actor, assignee |-> n.assignee]
      <3>1. m \in Move
        BY <1>3, <1>4, RequestFields DEF Move, Row
      <3>2. history'[t] = history[t] \o <<m>>
        BY <1>2, <1>3, <2>2 DEF Recorded, RowsOK
      <3>3. /\ m.from = tickets[t].status /\ m.to \in Register!Allowed(tickets[t].status)
            /\ m.version = tickets[t].version + 1
            /\ n.status = m.to /\ n.version = m.version
            /\ n.resolved <=> tickets[t].resolved \/ m.to \in Terminal
        BY <1>1, <2>2, CommitWrites
      <3>4. Unbroken(history[t], tickets[t]) /\ history[t] \in Seq(Move)
        BY <1>3, <1>6
      <3> HIDE DEF m, n, t
      <3>5. history[t] \o <<m>> \in Seq(Move) /\ Unbroken(history[t] \o <<m>>, n)
        BY <1>3, <1>4, <3>1, <3>3, <3>4, UnbrokenWhenMoved
      <3> QED BY <3>2, <3>5
    <2> QED BY <2>1, <2>2
  <1>8. RowsOK'
    <2>1. history' \in [Tickets -> Seq(Move)]
      BY <1>2, <1>3, <1>6, <1>7 DEF RowsOK
    <2>2. \A u \in Tickets : CheckHolds(tickets'[u].last)
      BY <1>3, <1>4, <1>5 DEF RowsOK
    <2> QED BY <2>1, <2>2, <1>5 DEF RowsOK, CheckHolds
  <1>9. HistoryUnbroken'
    <2>1. \A u \in Tickets : Unbroken(history'[u], tickets'[u])
      BY <1>5, <1>6, <1>7
    <2> QED BY <2>1 DEF HistoryUnbroken, Unbroken
  <1>10. LocalTypes'
    BY <1>1, <1>3 DEF LocalTypes, Release, PCs, LockModes
  <1>11. /\ pc'[s] = "idle" /\ mode'[s] = "none" /\ req'[s] = NoRequest
         /\ \A o \in Sessions \ {s} : /\ pc'[o] = pc[o] /\ req'[o] = req[o] /\ base'[o] = base[o]
                                      /\ mode'[o] = mode[o] /\ view'[o] = view[o]
    BY <1>1, <1>3 DEF LocalTypes, Release
  <1>12. ASSUME NEW o \in Sessions
         PROVE  SessionOK(o)'
    <2>1. CASE o = s
      BY <2>1, <1>11 DEF SessionOK, Ops
    <2>2. CASE o # s
      <3>1. SessionOK(o)
        BY DEF WorkflowInv
      <3>2. ASSUME pc[o] \in {"find", "write", "commit"}
            PROVE  tickets'[T(o)] = tickets[T(o)]
        <4>1. req[o] \in Requests /\ Ready(o) /\ req[o].op \in Ops /\ T(o) \in Tickets
          BY <3>1, <3>2, RequestFields DEF SessionOK, T
        <4>2. mode[o] \in {"update", "exclusive"}
          BY <4>1 DEF Ready, Ops
        <4>3. req[o] # NoRequest /\ req[s] # NoRequest
          BY <4>1, <1>3, RequestFields
        <4>4. T(o) # t
          BY <2>2, <4>2, <4>3, <1>4 DEF WorkflowInv, LocksCompatible, Conflict
        <4> QED BY <4>1, <4>4, <1>5
      <3> QED BY <2>2, <3>1, <3>2, <1>11, OthersKeepTheirs
    <2> QED BY <2>1, <2>2
  <1>13. LocksCompatible'
    <2> SUFFICES ASSUME NEW a \in Sessions, NEW b \in Sessions, a # b,
                        req'[a] # NoRequest, req'[b] # NoRequest, T(a)' = T(b)'
                 PROVE  ~Conflict(mode'[a], mode'[b])
      BY DEF LocksCompatible
    <2>1. a # s /\ b # s
      BY <1>11
    <2> QED BY <2>1, <1>11 DEF WorkflowInv, LocksCompatible, T
  <1> QED BY <1>8, <1>9, <1>10, <1>12, <1>13 DEF WorkflowInv

-----------------------------------------------------------------------------
(* The invariant, and what follows from it.                                *)

LEMMA InitHolds ==
    ASSUME WorkflowAssumption, Init
    PROVE  WorkflowInv
  <1>1. PICK owner \in [Tickets -> People \cup {Nobody}] :
            /\ tickets = [t \in Tickets |-> Created(t, owner[t])]
            /\ history = [t \in Tickets |-> <<FirstMove(t, owner[t])>>]
    BY DEF Init
  <1>2. ASSUME NEW t \in Tickets
        PROVE  /\ tickets[t] \in Row /\ CheckHolds(tickets[t].last)
               /\ history[t] \in Seq(Move) /\ Unbroken(history[t], tickets[t])
    <2> DEFINE r == tickets[t]
               m == FirstMove(t, owner[t])
    <2>1. r = Created(t, owner[t]) /\ history[t] = <<m>>
      BY <1>1
    <2>2. /\ FirstStatus[t] \in {"backlog", "todo"} /\ ReporterOf[t] \in People
          /\ owner[t] \in People \cup {Nobody}
      BY DEF WorkflowAssumption
    <2>3. FirstStatus[t] \in Statuses \ Terminal
      BY <2>2 DEF Statuses, Terminal, Register!Statuses, Register!Active, Register!Terminal
    <2>4. r \in Row /\ CheckHolds(r.last)
      BY <2>1, <2>2, <2>3 DEF Created, Row, Stamp, CheckHolds, KindOf, Texts
    <2>5. m \in Move /\ m.from = "none" /\ m.to = r.status /\ m.version = r.version
      BY <2>1, <2>2, <2>3 DEF FirstMove, Created, Move
    <2>6. r.resolved = FALSE /\ r.status \notin Terminal /\ r.version = 1
      BY <2>1, <2>3 DEF Created
    <2> HIDE DEF r, m
    <2>7. /\ <<m>> \in Seq(Move) /\ Len(<<m>>) = 1 /\ <<m>>[1] = m /\ DOMAIN <<m>> = 1..1
          /\ <<m>> # << >>
      BY <2>5
    <2>8. Unbroken(<<m>>, r)
      BY <2>5, <2>6, <2>7 DEF Unbroken
    <2> QED BY <2>1, <2>4, <2>7, <2>8 DEF r
  <1>3. RowsOK
    <2>1. DOMAIN tickets = Tickets /\ DOMAIN history = Tickets
      BY <1>1
    <2>2. tickets \in [Tickets -> Row] /\ history \in [Tickets -> Seq(Move)]
      BY <1>1, <1>2, <2>1
    <2> QED BY <1>2, <2>2 DEF RowsOK
  <1>4. HistoryUnbroken
    BY <1>2, HistoryByTicket
  <1>5. LocalTypes /\ LocksCompatible /\ \A s \in Sessions : SessionOK(s)
    <2>1. \A s \in Sessions : pc[s] = "idle" /\ mode[s] = "none" /\ req[s] = NoRequest
      BY DEF Init
    <2>2. LocalTypes
      BY DEF Init, LocalTypes, PCs, LockModes
    <2>3. LocksCompatible /\ \A s \in Sessions : SessionOK(s)
      BY <2>1 DEF LocksCompatible, SessionOK, Ops
    <2> QED BY <2>2, <2>3
  <1> QED BY <1>3, <1>4, <1>5 DEF WorkflowInv

LEMMA StepKeeps ==
    ASSUME WorkflowAssumption, WorkflowInv, [Next]_vars
    PROVE  WorkflowInv'
  <1>1. ASSUME UNCHANGED <<tickets, history, pc, req, base, mode, view>>
        PROVE  WorkflowInv'
    <2>1. RowsOK' /\ HistoryUnbroken' /\ LocalTypes' /\ LocksCompatible'
      BY <1>1 DEF WorkflowInv, RowsOK, HistoryUnbroken, LocalTypes, LocksCompatible, T
    <2>2. \A o \in Sessions : SessionOK(o)'
      BY <1>1, OthersKeepTheirs DEF WorkflowInv
    <2> QED BY <2>1, <2>2 DEF WorkflowInv
  <1>2. CASE UNCHANGED vars
    <2>1. UNCHANGED <<tickets, history, pc, req, base, mode, view>>
      BY <1>2 DEF vars, db, local
    <2> QED BY <1>1, <2>1
  <1>3. ASSUME NEW s \in Sessions,
               Begin(s) \/ Update(s) \/ ClaimTicket(s) \/ TransitionTicket(s)
                   \/ AddComment(s) \/ Commit(s) \/ StatementFails(s)
        PROVE  WorkflowInv'
    <2>1. CASE Begin(s)
      BY <2>1, BeginKeeps
    <2>2. CASE Edit(s) \/ Assign(s)
      BY <2>2, EditKeeps, AssignKeeps
    <2>3. CASE Claim(s) \/ Transition(s)
      BY <2>3, ClaimKeeps, TransitionKeeps
    <2>4. CASE StaleVersion(s) \/ AlreadyClaimed(s) \/ IllegalTransition(s)
               \/ StampRejected(s) \/ StatementFails(s)
      <3>1. Release(s) /\ UNCHANGED <<tickets, history>>
        BY <2>4 DEF StaleVersion, AlreadyClaimed, IllegalTransition, StampRejected,
                    StatementFails, Refuse, db
      <3> QED BY <3>1, ReleaseKeeps
    <2>5. CASE FindNotice(s) \/ WriteNotice(s) \/ NoticeLost(s) \/ FanOutDone(s)
      BY <2>5, TransitionFanOutKeeps
    <2>6. CASE LoadForComment(s) \/ InsertComment(s) \/ StampRow(s)
      BY <2>6, LoadForCommentKeeps, InsertCommentKeeps, StampKeeps
    <2>7. CASE Commit(s)
      BY <2>7, CommitKeeps
    <2> QED BY <1>3, <2>1, <2>2, <2>3, <2>4, <2>5, <2>6, <2>7
            DEF Update, ClaimTicket, TransitionTicket, AddComment
  <1>4. ASSUME NEW t \in Tickets, NEW p \in People, MarkRead(t, p) \/ Age(t, p)
        PROVE  WorkflowInv'
    <2>1. UNCHANGED <<tickets, history, pc, req, base, mode, view>>
      BY <1>4 DEF MarkRead, Age, local
    <2> QED BY <1>1, <2>1
  <1>5. ASSUME NEW p \in People, MarkAllRead(p)
        PROVE  WorkflowInv'
    <2>1. UNCHANGED <<tickets, history, pc, req, base, mode, view>>
      BY <1>5 DEF MarkAllRead, local
    <2> QED BY <1>1, <2>1
  <1> QED BY <1>2, <1>3, <1>4, <1>5 DEF Next

\* The invariant: rows and histories are well formed, row locks exclude each
\* other, and a session that holds one commits what it computed from the row.
THEOREM WorkflowInvariant ==
    ASSUME WorkflowAssumption
    PROVE  Spec => []WorkflowInv
  <1>1. Init => WorkflowInv
    BY InitHolds
  <1>2. WorkflowInv /\ [Next]_vars => WorkflowInv'
    BY StepKeeps
  <1> QED BY <1>1, <1>2, PTL DEF Spec

\* ticket_transitions always tells the whole way from creation to the status
\* that the row has now, in legal moves (transition, create).
THEOREM HistoryHolds ==
    ASSUME WorkflowAssumption
    PROVE  Spec => []HistoryUnbroken
  <1>1. WorkflowInv => HistoryUnbroken
    BY DEF WorkflowInv
  <1> QED BY <1>1, WorkflowInvariant, PTL

\* Only a commit writes a row, and only the row of its ticket.
LEMMA OnlyCommitWrites ==
    ASSUME WorkflowInv, [Next]_vars, tickets' # tickets
    PROVE  \E s \in Sessions : Commit(s)
  <1>1. ASSUME NEW s \in Sessions,
               Begin(s) \/ Update(s) \/ ClaimTicket(s) \/ TransitionTicket(s)
                   \/ AddComment(s) \/ StatementFails(s)
        PROVE  UNCHANGED tickets
    <2>1. CASE Begin(s) \/ StatementFails(s)
      BY <2>1 DEF Begin, StatementFails, db
    <2>2. CASE Update(s)
      BY <2>2 DEF Update, Edit, Assign, StaleVersion, Loaded, Refuse, db
    <2>3. CASE ClaimTicket(s)
      BY <2>3 DEF ClaimTicket, Claim, AlreadyClaimed, Refuse, db
    <2>4. CASE Transition(s) \/ IllegalTransition(s)
      BY <2>4 DEF Transition, IllegalTransition, Loaded, Refuse, db
    <2>5. CASE FindNotice(s) \/ WriteNotice(s) \/ NoticeLost(s) \/ FanOutDone(s)
      BY <2>5 DEF FindNotice, WriteNotice, NoticeLost, FanOutDone, db
    <2>6. CASE AddComment(s)
      BY <2>6 DEF AddComment, LoadForComment, InsertComment, StampRow, StampRejected, Refuse, db
    <2> QED BY <1>1, <2>1, <2>2, <2>3, <2>4, <2>5, <2>6 DEF TransitionTicket
  <1>2. ASSUME NEW t \in Tickets, NEW p \in People, MarkRead(t, p) \/ Age(t, p)
        PROVE  UNCHANGED tickets
    BY <1>2 DEF MarkRead, Age
  <1>3. ASSUME NEW p \in People, MarkAllRead(p)
        PROVE  UNCHANGED tickets
    BY <1>3 DEF MarkAllRead
  <1>4. ~UNCHANGED vars
    BY DEF vars, db
  <1> QED BY <1>1, <1>2, <1>3, <1>4 DEF Next

\* update and assign compare expected_version under the lock, claim asks for a
\* ticket nobody has, and the others touch neither text nor assignee.
THEOREM ReplacementsKnown ==
    ASSUME WorkflowAssumption
    PROVE  Spec => ReplacedKnowingly
  <1>1. ASSUME WorkflowInv, [Next]_vars, NEW t \in Tickets,
               \/ tickets'[t].text # tickets[t].text
               \/ tickets[t].assignee # Nobody /\ tickets'[t].assignee # tickets[t].assignee
        PROVE  \E s \in Sessions : /\ pc[s] = "commit" /\ req[s].ticket = t
                                  /\ base[s] = tickets[t].version
    <2>1. PICK s \in Sessions : Commit(s)
      BY <1>1, OnlyCommitWrites
    <2>2. pc[s] = "commit" /\ tickets' = [tickets EXCEPT ![T(s)] = view[s]]
      BY <2>1 DEF Commit
    <2>3. /\ T(s) \in Tickets /\ req[s] \in Requests /\ Ready(s)
          /\ tickets[t] \in Row /\ tickets \in [Tickets -> Row]
      BY <1>1, <2>2, Running DEF SessionOK, WorkflowInv, RowsOK
    <2>4. t = T(s) /\ tickets'[t] = view[s]
      BY <1>1, <2>2, <2>3
    <2>5. req[s].op \notin {"move", "comment"}
      <3>1. ASSUME req[s].op = "move"
            PROVE  view[s].text = tickets[t].text /\ view[s].assignee = tickets[t].assignee
        BY <2>3, <2>4, <3>1 DEF Ready, Moved, Row
      <3>2. ASSUME req[s].op = "comment"
            PROVE  view[s].text = tickets[t].text /\ view[s].assignee = tickets[t].assignee
        BY <2>3, <2>4, <3>2 DEF Ready, Stamped, Row
      <3> QED BY <1>1, <2>4, <3>1, <3>2
    <2>6. req[s].op # "claim"
      <3>1. ASSUME req[s].op = "claim"
            PROVE  view[s].text = tickets[t].text /\ tickets[t].assignee = Nobody
        BY <2>3, <2>4, <3>1 DEF Ready, Claimed, Claimable, Row
      <3> QED BY <1>1, <2>4, <3>1
    <2>7. req[s].op \in {"edit", "assign"}
      BY <2>3, <2>5, <2>6, RequestFields DEF Ops
    <2>8. base[s] = tickets[t].version
      BY <2>3, <2>4, <2>7 DEF Ready, VersionMatches
    <2> QED BY <2>2, <2>4, <2>8 DEF T
  <1>2. WorkflowInv /\ [Next]_vars =>
          [\A t \in Tickets :
            \/ tickets'[t].text # tickets[t].text
            \/ tickets[t].assignee # Nobody /\ tickets'[t].assignee # tickets[t].assignee
            => \E s \in Sessions : /\ pc[s] = "commit" /\ req[s].ticket = t
                                   /\ base[s] = tickets[t].version]_vars
    BY <1>1
  <1> QED BY <1>2, WorkflowInvariant, PTL DEF Spec, ReplacedKnowingly

-----------------------------------------------------------------------------
(* The rows implement the register.                                        *)

Cards == [t \in Tickets |-> Card(tickets[t])]

\* What a commit does to the card of its ticket.
LEMMA CommitIsWrite ==
    ASSUME WorkflowAssumption, WorkflowInv, NEW s \in Sessions, Commit(s)
    PROVE  Register!Next \/ UNCHANGED Cards
  <1> SUFFICES ASSUME NEW t, t = T(s)
               PROVE  Register!Next \/ UNCHANGED Cards
    OBVIOUS
  <1> DEFINE r == tickets[t]
             n == view[s]
  <1>1. pc[s] = "commit" /\ tickets' = [tickets EXCEPT ![t] = n]
    BY DEF Commit
  <1>2. /\ t \in Tickets /\ req[s] \in Requests /\ Ready(s) /\ r \in Row /\ n \in Row
        /\ tickets \in [Tickets -> Row]
    BY <1>1, Running, CommitWrites DEF SessionOK, WorkflowInv, RowsOK
  <1>3. /\ Cards[t] = Card(r) /\ Cards'[t] = Card(n)
        /\ \A u \in Tickets \ {t} : Cards'[u] = Cards[u]
    BY <1>1, <1>2 DEF Cards
  <1>4. Cards' \in [Tickets -> Register!Card]
    <2>1. \A u \in Tickets : tickets'[u] \in Row
      BY <1>1, <1>2
    <2> QED BY <2>1 DEF Cards, Card, Row, Register!Card, Statuses
  <1>5. /\ Cards[t].status = r.status /\ Cards[t].resolved = r.resolved
        /\ Cards[t].assignee = r.assignee /\ Cards[t].version = r.version
        /\ Cards[t].text = r.text
        /\ Cards'[t].status = n.status /\ Cards'[t].resolved = n.resolved
        /\ Cards'[t].assignee = n.assignee /\ Cards'[t].version = n.version
        /\ Cards'[t].text = n.text
    BY <1>3 DEF Card
  <1>6. n.version = r.version + 1 => Register!Write(t)
    BY <1>3, <1>4, <1>5 DEF Register!Write, Cards
  <1>7. req[s].op \in Ops /\ (req[s].op = "claim" => req[s].actor \in Agents)
    BY <1>2, RequestFields
  <1>8. CASE req[s].op = "edit"
    <2>1. n = Edited(s, r)
      BY <1>2, <1>8 DEF Ready
    <2>2. /\ n.version = r.version + 1 /\ n.status = r.status
          /\ n.resolved = r.resolved /\ n.assignee = r.assignee
      BY <1>2, <2>1 DEF Edited, Row
    <2>3. Register!Edit(t)
      BY <1>5, <1>6, <2>2 DEF Register!Edit, Cards
    <2> QED BY <1>2, <2>3 DEF Register!Next
  <1>9. CASE req[s].op = "assign"
    <2>1. n = Assigned(s, r)
      BY <1>2, <1>9 DEF Ready
    <2>2. /\ n.version = r.version + 1 /\ n.status = r.status
          /\ n.resolved = r.resolved /\ n.text = r.text
      BY <1>2, <2>1 DEF Assigned, Row
    <2>3. Register!Assign(t)
      BY <1>5, <1>6, <2>2 DEF Register!Assign, Cards
    <2> QED BY <1>2, <2>3 DEF Register!Next
  <1>10. CASE req[s].op = "claim"
    <2>1. n = Claimed(s, r) /\ r.assignee = Nobody
      BY <1>2, <1>10 DEF Ready, Claimable
    <2>2. /\ n.version = r.version + 1 /\ n.status = r.status /\ n.resolved = r.resolved
          /\ n.text = r.text /\ n.assignee \in Agents
      BY <1>2, <1>7, <1>10, <2>1 DEF Claimed, Row
    <2>3. Register!Claim(t)
      BY <1>5, <1>6, <2>1, <2>2 DEF Register!Claim, Register!Assign, Cards
    <2> QED BY <1>2, <2>3 DEF Register!Next
  <1>11. CASE req[s].op = "move"
    <2>1. n = Moved(s, r)
      BY <1>2, <1>11 DEF Ready
    <2>2. n.assignee = r.assignee /\ n.text = r.text
      BY <1>2, <2>1 DEF Moved, Row
    <2>3. /\ n.version = r.version + 1 /\ n.status \in Register!Allowed(r.status)
          /\ n.resolved <=> r.resolved \/ n.status \in Register!Terminal
      BY <1>1, <1>11, CommitWrites DEF Terminal
    <2>4. Register!Move(t)
      BY <1>5, <1>6, <2>2, <2>3 DEF Register!Move, Cards
    <2> QED BY <1>2, <2>4 DEF Register!Next
  <1>12. CASE req[s].op = "comment"
    <2>1. PICK l \in Stamp : n = Stamped(s, l)
      BY <1>2, <1>12 DEF Ready
    <2>2. Card(n) = Card(r)
      BY <1>2, <2>1 DEF Stamped, Card, Row
    <2>3. Cards' = Cards
      BY <1>3, <2>2 DEF Cards
    <2> QED BY <2>3
  <1> QED BY <1>7, <1>8, <1>9, <1>10, <1>11, <1>12 DEF Ops

\* A ticket row under update, assign, claim, transition and add_comment is the
\* versioned register of TicketRegister.
THEOREM RowIsRegister ==
    ASSUME WorkflowAssumption
    PROVE  Spec => RegisterSpec
  <1>1. Init => Register!Init
    <2> SUFFICES ASSUME Init PROVE Register!Init
      OBVIOUS
    <2>1. WorkflowInv
      BY InitHolds
    <2>2. PICK owner \in [Tickets -> People \cup {Nobody}] :
              tickets = [t \in Tickets |-> Created(t, owner[t])]
      BY DEF Init
    <2>3. ASSUME NEW t \in Tickets
          PROVE  /\ Card(tickets[t]) \in Register!Card
                 /\ Card(tickets[t]).status = FirstStatus[t]
                 /\ Card(tickets[t]).resolved = FALSE /\ Card(tickets[t]).version = 1
      <3>1. tickets[t] \in Row /\ tickets[t] = Created(t, owner[t])
        BY <2>1, <2>2 DEF WorkflowInv, RowsOK
      <3> QED BY <3>1 DEF Card, Row, Created, Register!Card, Statuses
    <2> QED BY <2>3 DEF Register!Init
  <1>2. WorkflowInv /\ [Next]_vars => [Register!Next]_Cards
    <2> SUFFICES ASSUME WorkflowInv, [Next]_vars
                 PROVE  Register!Next \/ UNCHANGED Cards
      OBVIOUS
    <2>1. CASE UNCHANGED tickets
      BY <2>1 DEF Cards
    <2>2. CASE ~UNCHANGED tickets
      BY <2>2, OnlyCommitWrites, CommitIsWrite
    <2> QED BY <2>1, <2>2
  <1>3. WorkflowInv /\ [Next]_vars => [Register!Next]_([t \in Tickets |-> Card(tickets[t])])
    BY <1>2 DEF Cards
  <1> QED BY <1>1, <1>3, WorkflowInvariant, PTL DEF Spec, RegisterSpec, Register!Spec

-----------------------------------------------------------------------------
(* What recipients are told.  The inbox of a recipient on a ticket and the *)
(* history of that ticket fit together; a transition in hand knows whom it *)
(* has told, whom it has yet to tell, and which row each of its notices    *)
(* will extend: the only live one, if there is one.                        *)

Single(S) == \A x, y \in S : x = y

LiveIn(box) == {i \in DOMAIN box : box[i].kind = "state_change" /\ box[i].fresh /\ ~box[i].read}
CoversIn(box, v) == {i \in DOMAIN box : box[i].kind = "state_change" /\ v \in box[i].covers}

\* OneLiveNotice and ToldOnce, of one recipient and one ticket.
Fits(box, h, t, p, clean) ==
    /\ Window => Single(LiveIn(box))
    /\ \A i \in 2..Len(h) :
         LET told == CoversIn(box, h[i].version)
         IN  /\ Single(told)
             /\ told # {} => p # h[i].by /\ p \in WatchersOf[t] \cup {h[i].assignee}
             /\ clean /\ p # h[i].by /\ p \in WatchersOf[t] \cup {h[i].assignee} => told # {}

\* Nothing tells of a version that the ticket has yet to reach.
Dated(box, v) ==
    \A i \in DOMAIN box : box[i].kind = "state_change" => \A w \in box[i].covers : w <= v
Recent(h, v) == \A i \in DOMAIN h : h[i].version <= v

StateDrafts(s) == {d \in drafts[s] : d.kind = "state_change"}
Told(s, p) == \E d \in StateDrafts(s) : d.to = p
InMove(s) == pc[s] \in {"find", "write", "commit"} /\ req[s].op = "move"

\* A notice of s to p that will extend row i of p's inbox (0: will be inserted).
Pending(s, p, i) ==
    /\ Window => LiveIn(inbox[T(s)][p]) \subseteq {i}
    /\ i # 0 => i \in DOMAIN inbox[T(s)][p] /\ inbox[T(s)][p][i].kind = "state_change"

FanOut(s) ==
    LET audience == Recipients(s, tickets[T(s)]) IN
    /\ todo[s] \subseteq audience
    /\ pc[s] = "commit" => todo[s] = {}
    /\ pc[s] = "write" => /\ found[s].who \in audience \ todo[s] /\ ~Told(s, found[s].who)
                          /\ Pending(s, found[s].who, found[s].row)
    /\ \A d \in StateDrafts(s) : d.to \in audience \ todo[s] /\ Pending(s, d.to, d.row)
    /\ \A d, e \in StateDrafts(s) : d.to = e.to => d = e
    /\ faults = 0 => \A p \in audience : \/ p \in todo[s] \/ Told(s, p)
                                         \/ pc[s] = "write" /\ p = found[s].who

Telling(s) ==
    /\ InMove(s) => FanOut(s)
    /\ ~InMove(s) => StateDrafts(s) = {}

InboxTypes ==
    /\ inbox \in [Tickets -> [People -> Seq(Notice)]]
    /\ remarks \in [Tickets -> Nat]
    /\ todo \in [Sessions -> SUBSET People]
    /\ found \in [Sessions -> [who : People \cup {Nobody}, row : Nat]]
    /\ drafts \in [Sessions -> SUBSET Draft]
    /\ faults \in 0..MaxFaults

InboxInv ==
    /\ InboxTypes
    /\ \A t \in Tickets : Recent(history[t], tickets[t].version)
    /\ \A t \in Tickets, p \in People :
         /\ Dated(inbox[t][p], tickets[t].version)
         /\ Fits(inbox[t][p], history[t], t, p, faults = 0)
    /\ \A s \in Sessions : Telling(s)

-----------------------------------------------------------------------------
(* Inboxes that recipients read and time passes over.                      *)

\* The same rows, none of them live that was not.
Thinner(b, c) ==
    /\ c \in Seq(Notice) /\ DOMAIN c = DOMAIN b
    /\ \A i \in DOMAIN b : c[i].kind = b[i].kind /\ c[i].covers = b[i].covers
    /\ LiveIn(c) \subseteq LiveIn(b)

LEMMA ThinnerFits ==
    ASSUME NEW b, NEW c, Thinner(b, c)
    PROVE  /\ \A h, t, p, clean : Fits(b, h, t, p, clean) => Fits(c, h, t, p, clean)
           /\ \A v : Dated(b, v) => Dated(c, v)
  <1>1. \A v : CoversIn(c, v) = CoversIn(b, v)
    BY DEF Thinner, CoversIn
  <1>2. Single(LiveIn(b)) => Single(LiveIn(c))
    BY DEF Thinner, Single
  <1>3. \A v : Dated(b, v) => Dated(c, v)
    BY DEF Thinner, Dated
  <1>4. ASSUME NEW h, NEW t, NEW p, NEW clean, Fits(b, h, t, p, clean)
        PROVE  Fits(c, h, t, p, clean)
    <2>1. \A i \in 2..Len(h) : CoversIn(c, h[i].version) = CoversIn(b, h[i].version)
      BY <1>1
    <2>2. Window => Single(LiveIn(c))
      BY <1>2, <1>4 DEF Fits
    <2> QED BY ONLY <1>4, <2>1, <2>2 DEF Fits
  <1> QED BY ONLY <1>3, <1>4

LEMMA ReadersKeep ==
    ASSUME InboxInv, UNCHANGED <<tickets, history, remarks, local, faults>>,
           inbox' \in [Tickets -> [People -> Seq(Notice)]],
           \A t \in Tickets, p \in People : Thinner(inbox[t][p], inbox'[t][p]),
           \A s \in Sessions : pc[s] # "idle" => T(s) \in Tickets
    PROVE  InboxInv'
  <1>1. InboxTypes'
    BY DEF InboxInv, InboxTypes, local
  <1>2. \A t \in Tickets : Recent(history[t], tickets[t].version)'
    BY DEF InboxInv, Recent
  <1>3. \A t \in Tickets, p \in People :
          /\ Dated(inbox'[t][p], tickets[t].version)
          /\ Fits(inbox'[t][p], history[t], t, p, faults = 0)
    BY ThinnerFits DEF InboxInv
  <1>4. \A t \in Tickets, p \in People :
          /\ Dated(inbox[t][p], tickets[t].version)'
          /\ Fits(inbox[t][p], history[t], t, p, faults = 0)'
    BY <1>3 DEF Dated, Fits, CoversIn, LiveIn, Single
  <1>5. ASSUME NEW s \in Sessions
        PROVE  Telling(s)'
    <2>1. /\ InMove(s)' <=> InMove(s)
          /\ StateDrafts(s)' = StateDrafts(s) /\ T(s)' = T(s)
          /\ todo'[s] = todo[s] /\ found'[s] = found[s] /\ pc'[s] = pc[s]
          /\ Recipients(s, tickets[T(s)])' = Recipients(s, tickets[T(s)])
      BY DEF InMove, StateDrafts, T, Recipients, local
    <2>2. \A p : Told(s, p)' <=> Told(s, p)
      BY <2>1 DEF Told
    <2>3. ASSUME NEW p \in People, NEW i, T(s) \in Tickets, Pending(s, p, i)
          PROVE  Pending(s, p, i)'
      <3>1. Thinner(inbox[T(s)][p], inbox'[T(s)][p])
        BY <2>3
      <3> QED BY <2>1, <2>3, <3>1 DEF Pending, Thinner
    <2>4. CASE InMove(s)
      <3>1. FanOut(s) /\ T(s) \in Tickets
        BY <2>4 DEF InboxInv, Telling, InMove
      <3>2. Recipients(s, tickets[T(s)]) \subseteq People
        BY WorkflowAssumption, <3>1 DEF Recipients
      <3>3. FanOut(s)'
        BY <2>1, <2>2, <2>3, <3>1, <3>2 DEF FanOut
      <3> QED BY <2>1, <2>4, <3>3 DEF Telling
    <2>5. CASE ~InMove(s)
      BY <2>1, <2>5 DEF InboxInv, Telling
    <2> QED BY <2>4, <2>5
  <1> QED BY <1>1, <1>2, <1>4, <1>5 DEF InboxInv

LEMMA SameIsThinner ==
    ASSUME NEW b \in Seq(Notice)
    PROVE  Thinner(b, b)
  BY DEF Thinner

\* One row of an inbox is replaced by one that tells of the same and is not live.
LEMMA OneRowThinned ==
    ASSUME NEW b \in Seq(Notice), NEW i \in DOMAIN b, NEW n \in Notice,
           n.kind = b[i].kind, n.covers = b[i].covers, n.read \/ ~n.fresh
    PROVE  Thinner(b, [b EXCEPT ![i] = n])
  <1> DEFINE c == [b EXCEPT ![i] = n]
  <1>1. c \in Seq(Notice) /\ DOMAIN c = DOMAIN b /\ c[i] = n
        /\ \A j \in DOMAIN b : j # i => c[j] = b[j]
    OBVIOUS
  <1> HIDE DEF c
  <1>2. LiveIn(c) \subseteq LiveIn(b)
    <2> SUFFICES ASSUME NEW j \in LiveIn(c) PROVE j \in LiveIn(b)
      OBVIOUS
    <2>1. j \in DOMAIN b /\ c[j].kind = "state_change" /\ c[j].fresh /\ ~c[j].read
      BY <1>1 DEF LiveIn
    <2>2. j # i
      BY <2>1, <1>1
    <2> QED BY <2>1, <2>2, <1>1 DEF LiveIn
  <1>3. Thinner(b, c)
    BY <1>1, <1>2 DEF Thinner
  <1> QED BY <1>3 DEF c

\* Somebody's inbox on one ticket is thinned; the others stay.
LEMMA OneBoxThinned ==
    ASSUME InboxTypes, NEW t \in Tickets, NEW p \in People, NEW c,
           Thinner(inbox[t][p], c), inbox' = [inbox EXCEPT ![t][p] = c]
    PROVE  /\ inbox' \in [Tickets -> [People -> Seq(Notice)]]
           /\ \A u \in Tickets, q \in People : Thinner(inbox[u][q], inbox'[u][q])
  <1>1. c \in Seq(Notice)
    BY DEF Thinner
  <1>2. inbox \in [Tickets -> [People -> Seq(Notice)]]
    BY DEF InboxTypes
  <1>3. inbox' = [inbox EXCEPT ![t] = [inbox[t] EXCEPT ![p] = c]]
    BY <1>2
  <1>4. [inbox[t] EXCEPT ![p] = c] \in [People -> Seq(Notice)]
    BY <1>1, <1>2
  <1>5. inbox' \in [Tickets -> [People -> Seq(Notice)]]
    BY <1>2, <1>3, <1>4
  <1>6. ASSUME NEW u \in Tickets, NEW q \in People
        PROVE  Thinner(inbox[u][q], inbox'[u][q])
    <2>1. CASE u = t /\ q = p
      BY <1>2, <1>3, <2>1
    <2>2. CASE ~(u = t /\ q = p)
      <3>1. inbox'[u][q] = inbox[u][q] /\ inbox[u][q] \in Seq(Notice)
        BY <1>2, <1>3, <2>2
      <3> QED BY <3>1, SameIsThinner
    <2> QED BY <2>1, <2>2
  <1> QED BY <1>5, <1>6

LEMMA MarkReadThins ==
    ASSUME InboxTypes, NEW t \in Tickets, NEW p \in People, MarkRead(t, p)
    PROVE  /\ inbox' \in [Tickets -> [People -> Seq(Notice)]]
           /\ \A u \in Tickets, q \in People : Thinner(inbox[u][q], inbox'[u][q])
  <1>1. PICK i \in Unread(t, p) : inbox' = [inbox EXCEPT ![t][p][i].read = TRUE]
    BY DEF MarkRead
  <1> DEFINE b == inbox[t][p]
             n == [b[i] EXCEPT !.read = TRUE]
  <1>2. b \in Seq(Notice) /\ i \in DOMAIN b /\ b[i] \in Notice
    BY <1>1 DEF InboxTypes, Unread
  <1>3. n \in Notice /\ n.kind = b[i].kind /\ n.covers = b[i].covers /\ n.read
    BY <1>2 DEF Notice
  <1>4. inbox' = [inbox EXCEPT ![t][p] = [b EXCEPT ![i] = n]]
    BY <1>1, <1>2 DEF InboxTypes
  <1> HIDE DEF b, n
  <1>5. Thinner(b, [b EXCEPT ![i] = n])
    BY <1>2, <1>3, OneRowThinned
  <1> QED BY <1>4, <1>5, OneBoxThinned DEF b

LEMMA AgeThins ==
    ASSUME InboxTypes, NEW t \in Tickets, NEW p \in People, Age(t, p)
    PROVE  /\ inbox' \in [Tickets -> [People -> Seq(Notice)]]
           /\ \A u \in Tickets, q \in People : Thinner(inbox[u][q], inbox'[u][q])
  <1>1. PICK i \in Live(t, p) : inbox' = [inbox EXCEPT ![t][p][i].fresh = FALSE]
    BY DEF Age
  <1> DEFINE b == inbox[t][p]
             n == [b[i] EXCEPT !.fresh = FALSE]
  <1>2. b \in Seq(Notice) /\ i \in DOMAIN b /\ b[i] \in Notice
    BY <1>1 DEF InboxTypes, Live
  <1>3. n \in Notice /\ n.kind = b[i].kind /\ n.covers = b[i].covers /\ ~n.fresh
    BY <1>2 DEF Notice
  <1>4. inbox' = [inbox EXCEPT ![t][p] = [b EXCEPT ![i] = n]]
    BY <1>1, <1>2 DEF InboxTypes
  <1> HIDE DEF b, n
  <1>5. Thinner(b, [b EXCEPT ![i] = n])
    BY <1>2, <1>3, OneRowThinned
  <1> QED BY <1>4, <1>5, OneBoxThinned DEF b

LEMMA MarkAllReadThins ==
    ASSUME InboxTypes, NEW p \in People, MarkAllRead(p)
    PROVE  /\ inbox' \in [Tickets -> [People -> Seq(Notice)]]
           /\ \A u \in Tickets, q \in People : Thinner(inbox[u][q], inbox'[u][q])
  <1> DEFINE Seen(b) == [i \in DOMAIN b |-> [b[i] EXCEPT !.read = TRUE]]
  <1>1. inbox' = [t \in Tickets |-> [inbox[t] EXCEPT ![p] = Seen(inbox[t][p])]]
    BY DEF MarkAllRead
  <1>2. ASSUME NEW b \in Seq(Notice)
        PROVE  Thinner(b, Seen(b))
    <2> DEFINE c == Seen(b)
    <2>1. DOMAIN c = DOMAIN b /\ DOMAIN b = 1..Len(b) /\ Len(b) \in Nat
      OBVIOUS
    <2>2. ASSUME NEW i \in DOMAIN b
          PROVE  c[i] \in Notice /\ c[i].kind = b[i].kind /\ c[i].covers = b[i].covers /\ c[i].read
      <3>1. b[i] \in Notice /\ c[i] = [b[i] EXCEPT !.read = TRUE]
        OBVIOUS
      <3> QED BY <3>1 DEF Notice
    <2> HIDE DEF c
    <2>3. c \in Seq(Notice)
      <3>1. c \in [1..Len(b) -> Notice]
        <4>1. c = [i \in DOMAIN b |-> c[i]]
          BY DEF c
        <4> QED BY <2>1, <2>2, <4>1
      <3> QED BY <3>1, <2>1
    <2>4. LiveIn(c) = {}
      BY <2>1, <2>2 DEF LiveIn
    <2>5. Thinner(b, c)
      BY <2>1, <2>2, <2>3, <2>4 DEF Thinner
    <2> QED BY <2>5 DEF c
  <1>3. inbox \in [Tickets -> [People -> Seq(Notice)]]
    BY DEF InboxTypes
  <1> HIDE DEF Seen
  <1>4. \A b \in Seq(Notice) : Seen(b) \in Seq(Notice)
    BY <1>2 DEF Thinner
  <1>5. inbox' \in [Tickets -> [People -> Seq(Notice)]]
    BY <1>1, <1>3, <1>4
  <1>6. ASSUME NEW u \in Tickets, NEW q \in People
        PROVE  Thinner(inbox[u][q], inbox'[u][q])
    <2>1. inbox[u][q] \in Seq(Notice)
      BY <1>3
    <2>2. inbox'[u][q] = IF q = p THEN Seen(inbox[u][p]) ELSE inbox[u][q]
      BY <1>1, <1>3
    <2>3. CASE q = p
      BY <1>2, <2>1, <2>2, <2>3
    <2>4. CASE q # p
      BY <2>1, <2>2, <2>4, SameIsThinner
    <2> QED BY <2>3, <2>4
  <1> QED BY <1>5, <1>6

\* Marking notices read, one or all, and the passing of the window.
LEMMA ReadingKeeps ==
    ASSUME WorkflowInv, InboxInv, NEW p \in People,
           MarkAllRead(p) \/ \E t \in Tickets : MarkRead(t, p) \/ Age(t, p)
    PROVE  InboxInv'
  <1>1. InboxTypes /\ \A s \in Sessions : pc[s] # "idle" => T(s) \in Tickets
    BY Running DEF InboxInv
  <1>2. UNCHANGED <<tickets, history, remarks, local, faults>>
    BY DEF MarkAllRead, MarkRead, Age
  <1>3. /\ inbox' \in [Tickets -> [People -> Seq(Notice)]]
        /\ \A u \in Tickets, q \in People : Thinner(inbox[u][q], inbox'[u][q])
    BY <1>1, MarkAllReadThins, MarkReadThins, AgeThins
  <1> QED BY <1>1, <1>2, <1>3, ReadersKeep

-----------------------------------------------------------------------------
(* Requests on their way to the commit.                                    *)

\* What a session knows of its fan-out depends on its own state, its ticket's
\* row and the inboxes on it.
LEMMA TellingKept ==
    ASSUME NEW o, Telling(o), faults' = 0 => faults = 0,
           pc'[o] = pc[o], req'[o] = req[o], todo'[o] = todo[o], found'[o] = found[o],
           drafts'[o] = drafts[o],
           InMove(o) => tickets'[T(o)] = tickets[T(o)] /\ inbox'[T(o)] = inbox[T(o)]
    PROVE  Telling(o)'
  <1>1. /\ InMove(o)' <=> InMove(o)
        /\ StateDrafts(o)' = StateDrafts(o) /\ T(o)' = T(o)
    BY DEF InMove, StateDrafts, T
  <1>2. \A p : Told(o, p)' <=> Told(o, p)
    BY <1>1 DEF Told
  <1>3. ASSUME InMove(o)
        PROVE  FanOut(o)'
    <2>1. Recipients(o, tickets[T(o)])' = Recipients(o, tickets[T(o)])
      BY <1>1, <1>3 DEF Recipients
    <2>2. \A p, i : Pending(o, p, i)' <=> Pending(o, p, i)
      BY <1>1, <1>3 DEF Pending
    <2>3. FanOut(o)
      BY <1>3 DEF Telling
    <2> QED BY <1>1, <1>2, <2>1, <2>2, <2>3 DEF FanOut
  <1> QED BY <1>1, <1>3 DEF Telling

\* One session moves; rows, histories and inboxes stay.
LEMMA OneSessionTells ==
    ASSUME InboxInv, NEW s \in Sessions, UNCHANGED db, InboxTypes', faults' >= faults,
           \A o \in Sessions \ {s} :
               /\ pc'[o] = pc[o] /\ req'[o] = req[o] /\ todo'[o] = todo[o]
               /\ found'[o] = found[o] /\ drafts'[o] = drafts[o],
           Telling(s)'
    PROVE  InboxInv'
  <1>1. faults \in Nat /\ faults' \in Nat /\ (faults' = 0 => faults = 0)
    BY WorkflowAssumption DEF InboxInv, InboxTypes
  <1>2. \A t \in Tickets : Recent(history[t], tickets[t].version)'
    BY DEF InboxInv, Recent, db
  <1>3. \A t \in Tickets, p \in People :
          /\ Dated(inbox[t][p], tickets[t].version)'
          /\ Fits(inbox[t][p], history[t], t, p, faults = 0)'
    BY <1>1 DEF InboxInv, Dated, Fits, LiveIn, CoversIn, Single, db
  <1>4. ASSUME NEW o \in Sessions, o # s
        PROVE  Telling(o)'
    <2>1. Telling(o) /\ UNCHANGED <<tickets, inbox>>
      BY DEF InboxInv, db
    <2> QED BY <1>1, <1>4, <2>1, TellingKept
  <1> QED BY <1>2, <1>3, <1>4 DEF InboxInv

\* A session gives up: it holds no notices any more.
LEMMA ReleaseTells ==
    ASSUME LocalTypes, InboxInv, NEW s \in Sessions, Release(s), UNCHANGED db,
           faults' \in 0..MaxFaults, faults' >= faults
    PROVE  InboxInv'
  <1>1. InboxTypes'
    <2>1. NoOneFound \in [who : People \cup {Nobody}, row : Nat]
      BY DEF NoOneFound
    <2>2. todo' \in [Sessions -> SUBSET People] /\ drafts' \in [Sessions -> SUBSET Draft]
      BY DEF Release, InboxInv, InboxTypes
    <2>3. found' \in [Sessions -> [who : People \cup {Nobody}, row : Nat]]
      BY <2>1 DEF Release, InboxInv, InboxTypes
    <2> QED BY <2>2, <2>3 DEF InboxInv, InboxTypes, db
  <1>2. StateDrafts(s)' = {}
    BY DEF Release, StateDrafts, InboxInv, InboxTypes
  <1>3. ~InMove(s)'
    BY DEF Release, InMove, LocalTypes
  <1>4. \A o \in Sessions \ {s} :
          /\ pc'[o] = pc[o] /\ req'[o] = req[o] /\ todo'[o] = todo[o]
          /\ found'[o] = found[o] /\ drafts'[o] = drafts[o]
    BY DEF Release, LocalTypes, InboxInv, InboxTypes
  <1> QED BY <1>1, <1>2, <1>3, <1>4, OneSessionTells DEF Telling

\* A step that is not one of a transition's fan-out, nor starts one.
LEMMA QuietKeeps ==
    ASSUME InboxInv, LocalTypes, NEW s \in Sessions, UNCHANGED <<db, faults>>,
           NEW next \in PCs, pc' = [pc EXCEPT ![s] = next],
           req' = req \/ \E q \in Requests : req' = [req EXCEPT ![s] = q],
           next \in {"find", "write", "commit"} => req[s].op # "move" /\ req' = req,
           todo' \in {todo, [todo EXCEPT ![s] = {}]}, found' = found,
           NEW D \in SUBSET Draft, drafts' = [drafts EXCEPT ![s] = D],
           \A d \in D : d.kind # "state_change"
    PROVE  InboxInv'
  <1>1. InboxTypes'
    BY DEF InboxInv, InboxTypes, db
  <1>2. ~InMove(s)'
    BY DEF InMove, LocalTypes
  <1>3. StateDrafts(s)' = {}
    BY DEF StateDrafts, InboxInv, InboxTypes
  <1>4. \A o \in Sessions \ {s} :
          /\ pc'[o] = pc[o] /\ req'[o] = req[o] /\ todo'[o] = todo[o]
          /\ found'[o] = found[o] /\ drafts'[o] = drafts[o]
    BY DEF LocalTypes, InboxInv, InboxTypes
  <1>5. faults' >= faults
    BY WorkflowAssumption DEF InboxInv, InboxTypes
  <1> QED BY <1>1, <1>2, <1>3, <1>4, <1>5, OneSessionTells DEF Telling

\* Outside a fan-out a session's notices are not changes of status.
LEMMA QuietDrafts ==
    ASSUME InboxInv, NEW s \in Sessions, ~InMove(s)
    PROVE  /\ drafts[s] \in SUBSET Draft /\ drafts = [drafts EXCEPT ![s] = drafts[s]]
           /\ \A d \in drafts[s] : d.kind # "state_change"
  BY DEF InboxInv, InboxTypes, Telling, StateDrafts

LEMMA QuietStepsKeep ==
    ASSUME WorkflowInv, InboxInv, NEW s \in Sessions,
           \/ Begin(s) \/ Edit(s) \/ Assign(s) \/ Claim(s)
           \/ LoadForComment(s) \/ InsertComment(s) \/ StampRow(s)
    PROVE  InboxInv'
  <1>1. LocalTypes /\ SessionOK(s)
    BY DEF WorkflowInv
  <1>2. CASE Begin(s)
    <2>1. PICK q \in Requests : req' = [req EXCEPT ![s] = q] /\ pc' = [pc EXCEPT ![s] = q.op]
      BY <1>2 DEF Begin
    <2>2. q.op \in PCs \ {"find", "write", "commit"}
      BY RequestFields DEF Ops, PCs
    <2>3. ~InMove(s) /\ UNCHANGED <<db, faults, todo, found, drafts>>
      BY <1>2 DEF Begin, InMove
    <2>4. drafts' = [drafts EXCEPT ![s] = drafts[s]]
      BY <2>3, QuietDrafts
    <2> QED BY <1>1, <2>1, <2>2, <2>3, <2>4, QuietDrafts, QuietKeeps
  <1>3. CASE Edit(s) \/ Assign(s)
    <2>1. req[s].op \in {"edit", "assign"} /\ req[s] \in Requests
      BY <1>1, <1>3 DEF Edit, Assign, SessionOK, Ops
    <2>2. AssignNotices(s) \in SUBSET Draft /\ \A d \in AssignNotices(s) : d.kind # "state_change"
      BY DEF AssignNotices, Draft, Kinds
    <2>3. /\ UNCHANGED <<db, faults>> /\ pc' = [pc EXCEPT ![s] = "commit"] /\ req' = req
          /\ todo' = [todo EXCEPT ![s] = {}] /\ found' = found
      BY <1>3 DEF Edit, Assign, Loaded
    <2>4. \E D \in {{}, AssignNotices(s)} : drafts' = [drafts EXCEPT ![s] = D]
      BY <1>3 DEF Edit, Assign, Loaded
    <2>5. PICK D \in SUBSET Draft : /\ drafts' = [drafts EXCEPT ![s] = D]
                                    /\ \A d \in D : d.kind # "state_change"
      BY <2>2, <2>4
    <2> QED BY <1>1, <2>1, <2>3, <2>5, QuietKeeps DEF PCs
  <1>4. CASE Claim(s)
    <2>1. req[s].op = "claim" /\ ~InMove(s)
      BY <1>1, <1>4 DEF Claim, SessionOK, Ops, InMove
    <2>2. /\ UNCHANGED <<db, faults, req, todo, found, drafts>>
          /\ pc' = [pc EXCEPT ![s] = "commit"]
      BY <1>4 DEF Claim
    <2>3. drafts' = [drafts EXCEPT ![s] = drafts[s]]
      BY <2>1, <2>2, QuietDrafts
    <2> QED BY <1>1, <2>1, <2>2, <2>3, QuietDrafts, QuietKeeps DEF PCs
  <1>5. CASE LoadForComment(s) \/ InsertComment(s) \/ StampRow(s)
    <2>1. req[s].op = "comment" /\ ~InMove(s)
      BY <1>1, <1>5 DEF LoadForComment, InsertComment, StampRow, SessionOK, Ops, InMove
    <2>2. /\ UNCHANGED <<db, faults, req, todo, found, drafts>>
          /\ \E next \in {"insert", "stamp", "commit"} : pc' = [pc EXCEPT ![s] = next]
      BY <1>5 DEF LoadForComment, InsertComment, StampRow
    <2>3. drafts' = [drafts EXCEPT ![s] = drafts[s]]
      BY <2>1, <2>2, QuietDrafts
    <2>4. PICK next \in {"insert", "stamp", "commit"} : pc' = [pc EXCEPT ![s] = next]
      BY <2>2
    <2> QED BY <1>1, <2>1, <2>2, <2>3, <2>4, QuietDrafts, QuietKeeps DEF PCs
  <1> QED BY <1>2, <1>3, <1>4, <1>5

LEMMA GivingUpKeeps ==
    ASSUME WorkflowInv, InboxInv, NEW s \in Sessions,
           \/ StaleVersion(s) \/ AlreadyClaimed(s) \/ IllegalTransition(s)
           \/ StampRejected(s) \/ StatementFails(s)
    PROVE  InboxInv'
  <1>1. Release(s) /\ UNCHANGED db
    BY DEF StaleVersion, AlreadyClaimed, IllegalTransition, StampRejected, StatementFails, Refuse
  <1>2. faults' = faults \/ (faults < MaxFaults /\ faults' = faults + 1)
    BY DEF StaleVersion, AlreadyClaimed, IllegalTransition, StampRejected, StatementFails, Refuse
  <1>3. faults' \in 0..MaxFaults /\ faults' >= faults
    BY <1>2, WorkflowAssumption DEF InboxInv, InboxTypes
  <1>4. LocalTypes
    BY DEF WorkflowInv
  <1> QED BY <1>1, <1>3, <1>4, ReleaseTells

-----------------------------------------------------------------------------
(* The fan-out of a transition.                                            *)

\* Where there is one live row at most, the newest live row is it.
LEMMA NewestOfSingle ==
    ASSUME NEW S \in SUBSET (Nat \ {0}), Single(S)
    PROVE  S \subseteq {Newest(S)} /\ (Newest(S) # 0 => Newest(S) \in S) /\ Newest(S) \in Nat
  <1>1. \E i \in S \cup {0} : \A j \in S : j <= i
    <2>1. CASE S = {}
      BY <2>1
    <2>2. CASE S # {}
      <3>1. PICK x \in S : TRUE
        BY <2>2
      <3> QED BY <3>1 DEF Single
    <2> QED BY <2>1, <2>2
  <1>2. Newest(S) \in S \cup {0} /\ \A j \in S : j <= Newest(S)
    BY <1>1 DEF Newest
  <1>3. PICK n : n = Newest(S)
    OBVIOUS
  <1>4. n \in S \cup {0} /\ \A j \in S : j <= n
    BY ONLY <1>2, <1>3
  <1>5. n \in Nat /\ \A j \in S : j \in Nat \ {0}
    BY <1>4
  <1>6. ASSUME NEW j \in S
        PROVE  j = n
    <2>1. j <= n /\ j \in Nat \ {0}
      BY <1>4, <1>5
    <2>2. n # 0
      BY <2>1
    <2> QED BY <1>4, <2>2 DEF Single
  <1> QED BY <1>3, <1>4, <1>5, <1>6

\* The row found for a recipient is the live one, if there is one.
LEMMA FoundIsPending ==
    ASSUME InboxInv, NEW s \in Sessions, T(s) \in Tickets, NEW p \in People,
           NEW r, r = (IF Window THEN Newest(Live(T(s), p)) ELSE 0)
    PROVE  r \in Nat /\ Pending(s, p, r)
  <1> DEFINE box == inbox[T(s)][p]
  <1>1. box \in Seq(Notice) /\ Live(T(s), p) = LiveIn(box)
    BY DEF InboxInv, InboxTypes, Live, LiveIn
  <1>2. Window => Single(LiveIn(box))
    BY DEF InboxInv, Fits
  <1>3. LiveIn(box) \in SUBSET (Nat \ {0})
    BY <1>1 DEF LiveIn
  <1> HIDE DEF box
  <1>4. Window => /\ LiveIn(box) \subseteq {r} /\ (r # 0 => r \in LiveIn(box)) /\ r \in Nat
    BY <1>1, <1>2, <1>3, NewestOfSingle
  <1>5. r # 0 => r \in LiveIn(box)
    BY <1>4
  <1> QED BY <1>4, <1>5 DEF Pending, LiveIn, box

\* Of finitely many recipients finitely many notices are lost.
LEMMA FinitelyManyLost ==
    ASSUME NEW s \in Sessions, T(s) \in Tickets, NEW lost \in SUBSET OutcomeNotices(s)
    PROVE  Cardinality(lost) \in Nat
  <1>1. ASSUME NEW k, NEW R \in SUBSET People
        PROVE  IsFiniteSet([kind : {k}, to : R, row : {0}])
    <2> DEFINE N == [kind : {k}, to : R, row : {0}]
               f == [p \in R |-> [kind |-> k, to |-> p, row |-> 0]]
    <2>1. IsFiniteSet(R)
      BY WorkflowAssumption, FS_Subset
    <2>2. f \in [R -> N]
      OBVIOUS
    <2>3. ASSUME NEW n \in N
          PROVE  \E p \in R : f[p] = n
      <3>1. n.to \in R /\ n = [kind |-> k, to |-> n.to, row |-> 0]
        OBVIOUS
      <3> QED BY <3>1
    <2>4. f \in Surjection(R, N)
      BY <2>2, <2>3 DEF Surjection
    <2> QED BY <2>1, <2>4, FS_Surjection
  <1>2. IsFiniteSet(OutcomeNotices(s))
    <2> DEFINE extra == IF req[s].to \in Terminal THEN {ReporterOf[T(s)]} \ {req[s].actor} ELSE {}
               R == Recipients(s, view[s]) \cup extra
    <2>1. R \in SUBSET People
      BY WorkflowAssumption DEF Recipients
    <2>2. OutcomeNotices(s) \in {[kind : {OutcomeKind(req[s].to)}, to : R, row : {0}], {}}
      BY DEF OutcomeNotices
    <2> HIDE DEF R
    <2>3. IsFiniteSet([kind : {OutcomeKind(req[s].to)}, to : R, row : {0}])
      BY <1>1, <2>1
    <2> QED BY <2>2, <2>3, FS_EmptySet
  <1>3. IsFiniteSet(lost)
    BY <1>2, FS_Subset
  <1> QED BY <1>3, FS_CardinalityType

\* Notices of a block or an end are rows of their own.
LEMMA OutcomesAreOthers ==
    ASSUME NEW s \in Sessions, T(s) \in Tickets
    PROVE  OutcomeNotices(s) \in SUBSET Draft /\ \A d \in OutcomeNotices(s) : d.kind # "state_change"
  <1>1. ASSUME req[s].to \in Terminal \cup {"blocked"}
        PROVE  OutcomeKind(req[s].to) \in Kinds \ {"state_change"}
    BY <1>1 DEF OutcomeKind, Kinds, Terminal, Register!Terminal
  <1>2. Recipients(s, view[s]) \in SUBSET People /\ ReporterOf[T(s)] \in People
    BY WorkflowAssumption DEF Recipients
  <1> QED BY <1>1, <1>2 DEF OutcomeNotices, Draft

\* What a transition in hand rests on, while the rows stay.
LEMMA FanOutFrame ==
    ASSUME NEW s \in Sessions, UNCHANGED db, req' = req
    PROVE  /\ T(s)' = T(s)
           /\ Recipients(s, tickets[T(s)])' = Recipients(s, tickets[T(s)])
           /\ \A p, i : Pending(s, p, i)' <=> Pending(s, p, i)
  BY DEF T, Recipients, Pending, LiveIn, db

LEMMA AudienceIsPeople ==
    ASSUME NEW s, T(s) \in Tickets, NEW r
    PROVE  Recipients(s, r) \in SUBSET People
  BY WorkflowAssumption DEF Recipients

\* The steps of the fan-out share their frame.
LEMMA FanOutTells ==
    ASSUME InboxInv, LocalTypes, NEW s \in Sessions, UNCHANGED db, req' = req,
           faults' \in 0..MaxFaults, faults' >= faults,
           NEW next \in {"find", "write", "commit"}, pc' = [pc EXCEPT ![s] = next],
           NEW left \in SUBSET People, todo' = [todo EXCEPT ![s] = left],
           NEW f \in [who : People \cup {Nobody}, row : Nat], found' = [found EXCEPT ![s] = f],
           NEW D \in SUBSET Draft, drafts' = [drafts EXCEPT ![s] = D],
           FanOut(s)', req[s].op = "move"
    PROVE  InboxInv'
  <1>1. InboxTypes'
    BY DEF InboxInv, InboxTypes, db
  <1>2. \A o \in Sessions \ {s} :
          /\ pc'[o] = pc[o] /\ req'[o] = req[o] /\ todo'[o] = todo[o]
          /\ found'[o] = found[o] /\ drafts'[o] = drafts[o]
    BY DEF LocalTypes, InboxInv, InboxTypes
  <1>3. Telling(s)'
    BY DEF Telling, InMove, LocalTypes
  <1> QED BY <1>1, <1>2, <1>3, OneSessionTells

LEMMA FanOutStepsKeep ==
    ASSUME WorkflowInv, InboxInv, NEW s \in Sessions,
           Transition(s) \/ FindNotice(s) \/ WriteNotice(s) \/ NoticeLost(s) \/ FanOutDone(s)
    PROVE  InboxInv'
  <1> DEFINE audience == Recipients(s, tickets[T(s)])
  <1>1. /\ LocalTypes /\ InboxTypes /\ T(s) \in Tickets /\ req[s].op = "move"
        /\ audience \in SUBSET People
    <2>1. pc[s] # "idle"
      BY DEF Transition, FindNotice, WriteNotice, NoticeLost, FanOutDone
    <2>2. LocalTypes /\ SessionOK(s) /\ T(s) \in Tickets
      BY <2>1, Running
    <2>3. req[s].op = "move"
      BY <2>2 DEF Transition, FindNotice, WriteNotice, NoticeLost, FanOutDone, SessionOK, Ops
    <2> QED BY <2>2, <2>3, AudienceIsPeople DEF InboxInv
  <1>2. UNCHANGED db /\ req' = req
    BY DEF Transition, Loaded, FindNotice, WriteNotice, NoticeLost, FanOutDone
  <1>3. /\ Recipients(s, tickets[T(s)])' = audience
        /\ \A p, i : Pending(s, p, i)' <=> Pending(s, p, i)
    BY <1>2, FanOutFrame
  <1>4. /\ todo[s] \in SUBSET People /\ drafts[s] \in SUBSET Draft
        /\ found[s] \in [who : People \cup {Nobody}, row : Nat]
        /\ faults \in 0..MaxFaults /\ MaxFaults \in Nat /\ faults <= faults
    BY <1>1, WorkflowAssumption DEF InboxTypes
  <1>5. ASSUME pc[s] \in {"find", "write", "commit"}
        PROVE  FanOut(s)
    BY <1>1, <1>5 DEF InboxInv, Telling, InMove
  <1> HIDE DEF audience
  <1>6. CASE Transition(s)
    <2>1. /\ pc' = [pc EXCEPT ![s] = "find"] /\ todo' = [todo EXCEPT ![s] = audience]
          /\ drafts' = [drafts EXCEPT ![s] = {}] /\ found' = found /\ faults' = faults
      BY <1>6 DEF Transition, Loaded, audience
    <2>2. found' = [found EXCEPT ![s] = found[s]]
      BY <2>1, <1>1 DEF InboxTypes
    <2>3. pc'[s] = "find" /\ todo'[s] = audience /\ StateDrafts(s)' = {}
      BY <2>1, <1>1 DEF InboxTypes, LocalTypes, StateDrafts
    <2>4. FanOut(s)'
      BY <1>3, <2>3 DEF FanOut
    <2>5. {} \in SUBSET Draft /\ faults' \in 0..MaxFaults /\ faults' >= faults
      BY <1>4, <2>1
    <2> QED BY <1>1, <1>2, <1>4, <2>1, <2>2, <2>4, <2>5, FanOutTells
  <1>7. CASE FindNotice(s)
    <2>1. PICK p \in todo[s] :
            /\ todo' = [todo EXCEPT ![s] = @ \ {p}]
            /\ found' = [found EXCEPT ![s] =
                 [who |-> p, row |-> IF Window THEN Newest(Live(T(s), p)) ELSE 0]]
      BY <1>7 DEF FindNotice
    <2>2. pc[s] = "find" /\ pc' = [pc EXCEPT ![s] = "write"] /\ drafts' = drafts /\ faults' = faults
      BY <1>7 DEF FindNotice
    <2>3. PICK r : r = (IF Window THEN Newest(Live(T(s), p)) ELSE 0)
      OBVIOUS
    <2>4. p \in People /\ r \in Nat /\ Pending(s, p, r)
      BY <1>1, <1>4, <2>1, <2>3, FoundIsPending
    <2>5. FanOut(s)
      BY <1>5, <2>2
    <2>6. /\ pc'[s] = "write" /\ todo'[s] = todo[s] \ {p} /\ drafts'[s] = drafts[s]
          /\ found'[s] = [who |-> p, row |-> r]
      BY <1>1, <2>1, <2>2, <2>3 DEF InboxTypes, LocalTypes
    <2>7. /\ StateDrafts(s)' = StateDrafts(s) /\ (\A q : Told(s, q)' <=> Told(s, q))
          /\ ~Told(s, p) /\ p \in audience
      BY <2>1, <2>5, <2>6 DEF StateDrafts, Told, FanOut, audience
    <2>8. FanOut(s)'
      <3>1. found'[s].who = p /\ found'[s].row = r
        BY <2>6
      <3>2. todo'[s] \subseteq audience /\ found'[s].who \in audience \ todo'[s]
        BY <2>5, <2>6, <2>7, <3>1 DEF FanOut, audience
      <3>3. \A d \in StateDrafts(s) : d.to \in audience \ todo'[s] /\ Pending(s, d.to, d.row)
        BY <2>5, <2>6 DEF FanOut, audience
      <3>4. \A d, e \in StateDrafts(s) : d.to = e.to => d = e
        BY <2>5 DEF FanOut
      <3>5. faults = 0 => \A q \in audience : q \in todo'[s] \/ Told(s, q) \/ q = p
        BY <2>2, <2>5, <2>6 DEF FanOut, audience
      <3> QED BY <1>3, <2>2, <2>4, <2>6, <2>7, <3>1, <3>2, <3>3, <3>4, <3>5 DEF FanOut
    <2>9. /\ todo[s] \ {p} \in SUBSET People /\ todo' = [todo EXCEPT ![s] = todo[s] \ {p}]
          /\ [who |-> p, row |-> r] \in [who : People \cup {Nobody}, row : Nat]
          /\ found' = [found EXCEPT ![s] = [who |-> p, row |-> r]]
          /\ drafts' = [drafts EXCEPT ![s] = drafts[s]]
      BY <1>1, <1>4, <2>1, <2>2, <2>3, <2>4 DEF InboxTypes
    <2> QED BY <1>1, <1>2, <1>4, <2>2, <2>8, <2>9, FanOutTells
  <1>8. CASE WriteNotice(s)
    <2> DEFINE n == [kind |-> "state_change", to |-> found[s].who, row |-> found[s].row]
    <2>1. /\ pc[s] = "write" /\ pc' = [pc EXCEPT ![s] = "find"]
          /\ drafts' = [drafts EXCEPT ![s] = @ \cup {n}]
          /\ found' = [found EXCEPT ![s] = NoOneFound] /\ todo' = todo /\ faults' = faults
      BY <1>8 DEF WriteNotice
    <2>2. FanOut(s)
      BY <1>5, <2>1
    <2>3. /\ found[s].who \in audience \ todo[s] /\ ~Told(s, found[s].who)
          /\ Pending(s, found[s].who, found[s].row)
      BY <2>1, <2>2 DEF FanOut, audience
    <2>4. n \in Draft /\ n.kind = "state_change" /\ n.to = found[s].who /\ n.row = found[s].row
      BY <1>1, <1>4, <2>3 DEF Draft, Kinds
    <2> HIDE DEF n
    <2>5. pc'[s] = "find" /\ todo'[s] = todo[s] /\ drafts'[s] = drafts[s] \cup {n}
      BY <1>1, <2>1 DEF InboxTypes, LocalTypes
    <2>6. StateDrafts(s)' = StateDrafts(s) \cup {n}
      BY <2>4, <2>5 DEF StateDrafts
    <2>7. \A q : Told(s, q)' <=> Told(s, q) \/ q = found[s].who
      BY <2>4, <2>6 DEF Told
    <2>8. FanOut(s)'
      <3>1. \A d \in StateDrafts(s) \cup {n} :
              d.to \in audience \ todo[s] /\ Pending(s, d.to, d.row)
        BY <2>2, <2>3, <2>4 DEF FanOut, audience
      <3>2. \A d, e \in StateDrafts(s) \cup {n} : d.to = e.to => d = e
        BY <2>2, <2>3, <2>4 DEF FanOut, Told
      <3>3. faults = 0 => \A q \in audience : q \in todo[s] \/ Told(s, q) \/ q = found[s].who
        BY <2>2 DEF FanOut, audience
      <3>4. todo[s] \subseteq audience
        BY <2>2 DEF FanOut, audience
      <3> QED BY <1>3, <2>1, <2>5, <2>6, <2>7, <3>1, <3>2, <3>3, <3>4 DEF FanOut
    <2>9. /\ todo' = [todo EXCEPT ![s] = todo[s]] /\ drafts[s] \cup {n} \in SUBSET Draft
          /\ drafts' = [drafts EXCEPT ![s] = drafts[s] \cup {n}]
          /\ NoOneFound \in [who : People \cup {Nobody}, row : Nat]
      BY <1>1, <1>4, <2>1, <2>4 DEF InboxTypes, NoOneFound
    <2> QED BY <1>1, <1>2, <1>4, <2>1, <2>8, <2>9, FanOutTells
  <1>9. CASE NoticeLost(s)
    <2>1. /\ pc[s] = "write" /\ pc' = [pc EXCEPT ![s] = "find"]
          /\ found' = [found EXCEPT ![s] = NoOneFound] /\ todo' = todo /\ drafts' = drafts
          /\ faults < MaxFaults /\ faults' = faults + 1
      BY <1>9 DEF NoticeLost
    <2>2. FanOut(s)
      BY <1>5, <2>1
    <2>3. /\ pc'[s] = "find" /\ todo'[s] = todo[s] /\ drafts'[s] = drafts[s]
          /\ StateDrafts(s)' = StateDrafts(s)
      BY <1>1, <2>1 DEF InboxTypes, LocalTypes, StateDrafts
    <2>4. faults' \in 0..MaxFaults /\ faults' >= faults /\ faults' # 0
      BY <1>4, <2>1
    <2>5. FanOut(s)'
      <3>1. \A d \in StateDrafts(s) : d.to \in audience \ todo[s] /\ Pending(s, d.to, d.row)
        BY <2>2 DEF FanOut, audience
      <3>2. \A d, e \in StateDrafts(s) : d.to = e.to => d = e
        BY <2>2 DEF FanOut
      <3>3. todo[s] \subseteq audience
        BY <2>2 DEF FanOut, audience
      <3> QED BY <1>3, <2>3, <2>4, <3>1, <3>2, <3>3 DEF FanOut
    <2>6. /\ todo' = [todo EXCEPT ![s] = todo[s]] /\ drafts' = [drafts EXCEPT ![s] = drafts[s]]
          /\ NoOneFound \in [who : People \cup {Nobody}, row : Nat]
      BY <1>1, <2>1 DEF InboxTypes, NoOneFound
    <2> QED BY <1>1, <1>2, <1>4, <2>1, <2>4, <2>5, <2>6, FanOutTells
  <1>10. CASE FanOutDone(s)
    <2>1. PICK lost \in SUBSET OutcomeNotices(s) :
            /\ faults + Cardinality(lost) <= MaxFaults
            /\ faults' = faults + Cardinality(lost)
            /\ drafts' = [drafts EXCEPT ![s] = @ \cup (OutcomeNotices(s) \ lost)]
      BY <1>10 DEF FanOutDone
    <2>2. /\ pc[s] = "find" /\ todo[s] = {} /\ pc' = [pc EXCEPT ![s] = "commit"]
          /\ todo' = todo /\ found' = found
      BY <1>10 DEF FanOutDone
    <2>3. Cardinality(lost) \in Nat
      BY <1>1, FinitelyManyLost
    <2>4. faults' \in 0..MaxFaults /\ faults' >= faults /\ (faults' = 0 => faults = 0)
      BY <1>4, <2>1, <2>3
    <2>5. FanOut(s)
      BY <1>5, <2>2
    <2>6. drafts[s] \cup (OutcomeNotices(s) \ lost) \in SUBSET Draft
      BY <1>1, <1>4, OutcomesAreOthers
    <2>7. /\ pc'[s] = "commit" /\ todo'[s] = {}
          /\ drafts'[s] = drafts[s] \cup (OutcomeNotices(s) \ lost)
      BY <1>1, <2>1, <2>2 DEF InboxTypes, LocalTypes
    <2>8. StateDrafts(s)' = StateDrafts(s)
      BY <1>1, <2>7, OutcomesAreOthers DEF StateDrafts
    <2>9. FanOut(s)'
      <3>1. \A d \in StateDrafts(s) : d.to \in audience \ {} /\ Pending(s, d.to, d.row)
        BY <2>5 DEF FanOut, audience
      <3>2. \A d, e \in StateDrafts(s) : d.to = e.to => d = e
        BY <2>5 DEF FanOut
      <3>3. faults' = 0 => \A q \in audience : Told(s, q)
        BY <2>2, <2>4, <2>5 DEF FanOut, audience
      <3>4. \A q : Told(s, q)' <=> Told(s, q)
        BY <2>8 DEF Told
      <3> QED BY <1>3, <2>7, <2>8, <3>1, <3>2, <3>3, <3>4 DEF FanOut
    <2>10. /\ todo' = [todo EXCEPT ![s] = todo[s]] /\ found' = [found EXCEPT ![s] = found[s]]
           /\ drafts' = [drafts EXCEPT ![s] = drafts[s] \cup (OutcomeNotices(s) \ lost)]
      BY <1>1, <2>1, <2>2 DEF InboxTypes
    <2> QED BY <1>1, <1>2, <1>4, <2>2, <2>4, <2>6, <2>9, <2>10, FanOutTells
  <1> QED BY <1>6, <1>7, <1>8, <1>9, <1>10

-----------------------------------------------------------------------------
(* The commit of a transition reaches the inboxes.                         *)

\* A row of another kind at the end of an inbox.
OthersAdded(b, c) ==
    /\ c \in Seq(Notice) /\ Len(b) <= Len(c)
    /\ \A i \in 1..Len(b) : c[i] = b[i]
    /\ \A i \in 1..Len(c) : i > Len(b) => c[i].kind # "state_change"

LEMMA AddingOthers ==
    ASSUME NEW b \in Seq(Notice), NEW c, OthersAdded(b, c), NEW more \in Seq(Notice),
           \A i \in 1..Len(more) : more[i].kind # "state_change"
    PROVE  OthersAdded(b, c \o more)
  <1> DEFINE d == c \o more
  <1>1. c \in Seq(Notice) /\ Len(b) <= Len(c) /\ Len(b) \in Nat /\ Len(c) \in Nat
        /\ Len(more) \in Nat
    BY DEF OthersAdded
  <1>2. /\ d \in Seq(Notice) /\ Len(d) = Len(c) + Len(more)
        /\ \A i \in 1..Len(c) : d[i] = c[i]
        /\ \A i \in 1..Len(d) : i > Len(c) => d[i] = more[i - Len(c)] /\ i - Len(c) \in 1..Len(more)
    BY <1>1
  <1> HIDE DEF d
  <1>3. \A i \in 1..Len(d) : i > Len(b) => d[i].kind # "state_change"
    <2> SUFFICES ASSUME NEW i \in 1..Len(d), i > Len(b) PROVE d[i].kind # "state_change"
      OBVIOUS
    <2>1. CASE i > Len(c)
      <3>1. d[i] = more[i - Len(c)] /\ i - Len(c) \in 1..Len(more)
        BY <1>2, <2>1
      <3> QED BY <3>1
    <2>2. CASE ~(i > Len(c))
      <3>1. i \in 1..Len(c)
        BY <1>1, <2>2
      <3> QED BY <1>2, <3>1 DEF OthersAdded
    <2> QED BY <2>1, <2>2
  <1>4. \A i \in 1..Len(b) : d[i] = b[i]
    BY <1>1, <1>2 DEF OthersAdded
  <1>5. OthersAdded(b, d)
    BY <1>1, <1>2, <1>3, <1>4 DEF OthersAdded
  <1> QED BY <1>5 DEF d

\* Two lists of rows, one after the other.
LEMMA RowsConcatenated ==
    ASSUME NEW a \in Seq(Notice), NEW b \in Seq(Notice)
    PROVE  /\ a \o b \in Seq(Notice) /\ Len(a \o b) = Len(a) + Len(b)
           /\ Len(a) \in Nat /\ Len(b) \in Nat
           /\ \A i \in 1..Len(a) : (a \o b)[i] = a[i]
           /\ Len(b) = 1 => (a \o b)[Len(a) + 1] = b[1]
  OBVIOUS

\* The versions that the notices of a session tell of.
News(s) == IF req[s].op = "move" THEN {view[s].version} ELSE {}
ToldBy(s, p, i) == \E d \in StateDrafts(s) : d.to = p /\ d.row = i

\* Old rows keep their kind and what they tell of, except that rows being extended
\* tell of the change too; at most one new row tells of a change of status.
LEMMA DeliveredRows ==
    ASSUME NEW s \in Sessions, NEW p \in People, NEW box \in Seq(Notice),
           box = inbox[T(s)][p], News(s) \in SUBSET Nat
    PROVE  /\ Delivered(s, p) \in Seq(Notice)
           /\ Len(box) <= Len(Delivered(s, p))
           /\ \A i \in 1..Len(box) :
                /\ Delivered(s, p)[i].kind = box[i].kind
                /\ ToldBy(s, p, i) => Delivered(s, p)[i].covers = box[i].covers \cup News(s)
                /\ ~ToldBy(s, p, i) => Delivered(s, p)[i] = box[i]
           /\ \A i \in 1..Len(Delivered(s, p)) :
                i > Len(box) /\ Delivered(s, p)[i].kind = "state_change" =>
                    i = Len(box) + 1 /\ ToldBy(s, p, 0)
           /\ ToldBy(s, p, 0) =>
                /\ Len(box) + 1 \in 1..Len(Delivered(s, p))
                /\ Delivered(s, p)[Len(box) + 1].kind = "state_change"
                /\ Delivered(s, p)[Len(box) + 1].covers = News(s)
  <1> DEFINE v == IF req[s].op = "move" THEN {view[s].version} ELSE {}
             Mine(k) == {d \in drafts[s] : d.to = p /\ d.kind = k}
             extended == [i \in DOMAIN box |->
                 IF \E d \in Mine("state_change") : d.row = i
                 THEN [box[i] EXCEPT !.covers = @ \cup v, !.fresh = TRUE] ELSE box[i]]
             new(k) == IF \E d \in Mine(k) : d.row = 0
                       THEN <<[kind |-> k, covers |-> v, read |-> FALSE,
                              fresh |-> k = "state_change"]>>
                       ELSE << >>
             first == extended \o new("state_change")
  <1>1. Delivered(s, p) = first \o new("blocked") \o new("resolved")
                              \o new("cancelled") \o new("assigned")
    BY DEF Delivered
  <1>2. \A i : ToldBy(s, p, i) <=> \E d \in Mine("state_change") : d.row = i
    BY DEF ToldBy, StateDrafts
  <1>3. v = News(s) /\ v \in SUBSET Nat
    BY DEF News
  <1>4. DOMAIN box = 1..Len(box) /\ Len(box) \in Nat /\ \A i \in 1..Len(box) : box[i] \in Notice
    OBVIOUS
  <1> HIDE DEF v, Mine
  <1>5. ASSUME NEW i \in 1..Len(box)
        PROVE  /\ extended[i] \in Notice /\ extended[i].kind = box[i].kind
               /\ ToldBy(s, p, i) => extended[i].covers = box[i].covers \cup v
               /\ ~ToldBy(s, p, i) => extended[i] = box[i]
    <2>1. box[i] \in Notice
      BY <1>4
    <2>2. CASE ToldBy(s, p, i)
      <3>1. extended[i] = [box[i] EXCEPT !.covers = @ \cup v, !.fresh = TRUE]
        BY <1>2, <1>4, <2>2
      <3> HIDE DEF extended
      <3> QED BY <1>3, <2>1, <2>2, <3>1 DEF Notice
    <2>3. CASE ~ToldBy(s, p, i)
      <3>1. extended[i] = box[i]
        BY <1>2, <1>4, <2>3
      <3> HIDE DEF extended
      <3> QED BY <2>1, <2>3, <3>1
    <2> QED BY <2>2, <2>3
  <1>6. extended \in Seq(Notice) /\ Len(extended) = Len(box)
    <2>1. extended = [i \in 1..Len(box) |-> extended[i]]
      BY <1>4
    <2>2. extended \in [1..Len(box) -> Notice]
      BY <1>5, <2>1
    <2> HIDE DEF extended
    <2> QED BY <1>4, <2>2
  <1> HIDE DEF extended
  <1>7. ASSUME NEW k \in Kinds
        PROVE  /\ new(k) \in Seq(Notice) /\ \A i \in 1..Len(new(k)) : new(k)[i].kind = k
               /\ (\E d \in Mine(k) : d.row = 0) =>
                     Len(new(k)) = 1 /\ new(k)[1].kind = k /\ new(k)[1].covers = v
               /\ ~(\E d \in Mine(k) : d.row = 0) => new(k) = << >>
    <2> DEFINE n == [kind |-> k, covers |-> v, read |-> FALSE, fresh |-> k = "state_change"]
    <2>1. n \in Notice /\ n.kind = k /\ n.covers = v
      <3>1. (k = "state_change") \in BOOLEAN
        OBVIOUS
      <3> QED BY <1>3, <3>1 DEF Notice
    <2>2. CASE \E d \in Mine(k) : d.row = 0
      <3>1. new(k) = <<n>>
        BY <2>2
      <3> HIDE DEF n, new
      <3>2. /\ <<n>> \in Seq(Notice) /\ Len(<<n>>) = 1 /\ <<n>>[1] = n
        BY <2>1
      <3> QED BY <2>1, <2>2, <3>1, <3>2
    <2>3. CASE ~\E d \in Mine(k) : d.row = 0
      <3>1. new(k) = << >>
        BY <2>3
      <3> HIDE DEF new
      <3> QED BY <2>3, <3>1
    <2> QED BY <2>2, <2>3
  <1> HIDE DEF new
  <1>8. "state_change" \in Kinds /\ \A k \in {"blocked", "resolved", "cancelled", "assigned"} :
            k \in Kinds /\ k # "state_change"
    BY DEF Kinds
  <1>9. /\ first \in Seq(Notice) /\ Len(box) <= Len(first)
        /\ \A i \in 1..Len(box) : first[i] = extended[i]
        /\ ~ToldBy(s, p, 0) => Len(first) = Len(box)
        /\ ToldBy(s, p, 0) => /\ Len(first) = Len(box) + 1
                              /\ first[Len(box) + 1].kind = "state_change"
                              /\ first[Len(box) + 1].covers = v
    <2> DEFINE more == new("state_change")
    <2>1. /\ more \in Seq(Notice) /\ (~ToldBy(s, p, 0) => more = << >>)
          /\ ToldBy(s, p, 0) => Len(more) = 1 /\ more[1].kind = "state_change" /\ more[1].covers = v
      BY <1>2, <1>7, <1>8
    <2> HIDE DEF more
    <2>2. first = extended \o more
      BY DEF more
    <2> HIDE DEF first
    <2>3. /\ first \in Seq(Notice) /\ Len(first) = Len(box) + Len(more) /\ Len(more) \in Nat
          /\ \A i \in 1..Len(box) : first[i] = extended[i]
          /\ Len(more) = 1 => first[Len(box) + 1] = more[1]
      BY <1>6, <2>1, <2>2, RowsConcatenated
    <2>4. CASE ToldBy(s, p, 0)
      <3>1. Len(more) = 1 /\ more[1].kind = "state_change" /\ more[1].covers = v
        BY <2>1, <2>4
      <3>2. first[Len(box) + 1] = more[1] /\ Len(first) = Len(box) + 1
        BY <2>3, <3>1
      <3>3. Len(box) <= Len(first)
        BY <1>4, <3>2
      <3> QED BY <2>3, <2>4, <3>1, <3>2, <3>3
    <2>5. CASE ~ToldBy(s, p, 0)
      <3>1. Len(more) = 0
        BY <2>1, <2>5
      <3> QED BY <1>4, <2>3, <2>5, <3>1
    <2> QED BY <2>4, <2>5
  <1> HIDE DEF first
  <1>10. OthersAdded(first, Delivered(s, p))
    <2>1. OthersAdded(first, first)
      BY <1>9 DEF OthersAdded
    <2>2. \A k \in {"blocked", "resolved", "cancelled", "assigned"} :
            new(k) \in Seq(Notice) /\ \A i \in 1..Len(new(k)) : new(k)[i].kind # "state_change"
      BY <1>7, <1>8
    <2>3. OthersAdded(first, first \o new("blocked"))
      BY <1>9, <2>1, <2>2, AddingOthers
    <2>4. OthersAdded(first, first \o new("blocked") \o new("resolved"))
      BY <1>9, <2>2, <2>3, AddingOthers
    <2>5. OthersAdded(first, first \o new("blocked") \o new("resolved") \o new("cancelled"))
      BY <1>9, <2>2, <2>4, AddingOthers
    <2>6. OthersAdded(first, first \o new("blocked") \o new("resolved") \o new("cancelled")
                                 \o new("assigned"))
      BY <1>9, <2>2, <2>5, AddingOthers
    <2> QED BY <1>1, <2>6
  <1>11. PICK D : D = Delivered(s, p)
    OBVIOUS
  <1>12. /\ D \in Seq(Notice) /\ Len(first) <= Len(D) /\ Len(first) \in Nat /\ Len(D) \in Nat
         /\ \A i \in 1..Len(first) : D[i] = first[i]
         /\ \A i \in 1..Len(D) : i > Len(first) => D[i].kind # "state_change"
    BY <1>9, <1>10, <1>11 DEF OthersAdded
  <1>13. \A i \in 1..Len(box) : D[i] = extended[i]
    BY <1>4, <1>9, <1>12
  <1>14. \A i \in 1..Len(D) : i > Len(box) /\ D[i].kind = "state_change" =>
             i = Len(box) + 1 /\ ToldBy(s, p, 0)
    <2> SUFFICES ASSUME NEW i \in 1..Len(D), i > Len(box), D[i].kind = "state_change"
                 PROVE  i = Len(box) + 1 /\ ToldBy(s, p, 0)
      OBVIOUS
    <2>1. ~(i > Len(first))
      BY <1>12
    <2> QED BY <1>4, <1>9, <1>12, <2>1
  <1>15. ToldBy(s, p, 0) => /\ Len(box) + 1 \in 1..Len(D)
                            /\ D[Len(box) + 1].kind = "state_change"
                            /\ D[Len(box) + 1].covers = v
    <2> SUFFICES ASSUME ToldBy(s, p, 0)
                 PROVE  /\ Len(box) + 1 \in 1..Len(D) /\ D[Len(box) + 1] = first[Len(box) + 1]
      BY <1>9
    <2> QED BY <1>4, <1>9, <1>12
  <1>16. \A i \in 1..Len(box) : /\ D[i].kind = box[i].kind
                                /\ ToldBy(s, p, i) => D[i].covers = box[i].covers \cup v
                                /\ ~ToldBy(s, p, i) => D[i] = box[i]
    BY <1>5, <1>13
  <1>17. Len(box) <= Len(D)
    BY <1>4, <1>9, <1>12
  <1> QED BY <1>3, <1>11, <1>12, <1>14, <1>15, <1>16, <1>17

\* A row that tells of nothing new: nothing in it changes for its recipient.
LEMMA NothingToldFits ==
    ASSUME InboxInv, NEW s \in Sessions, T(s) \in Tickets, NEW p \in People,
           News(s) = {}, StateDrafts(s) = {}
    PROVE  /\ Delivered(s, p) \in Seq(Notice)
           /\ \A v : Dated(inbox[T(s)][p], v) => Dated(Delivered(s, p), v)
           /\ \A h, t, clean : Fits(inbox[T(s)][p], h, t, p, clean) =>
                                   Fits(Delivered(s, p), h, t, p, clean)
  <1>1. PICK box : box = inbox[T(s)][p]
    OBVIOUS
  <1>2. PICK D : D = Delivered(s, p)
    OBVIOUS
  <1>3. box \in Seq(Notice) /\ DOMAIN box = 1..Len(box) /\ Len(box) \in Nat
    BY <1>1 DEF InboxInv, InboxTypes
  <1>4. \A i : ~ToldBy(s, p, i)
    BY DEF ToldBy
  <1>5. /\ D \in Seq(Notice) /\ Len(box) <= Len(D)
        /\ \A i \in 1..Len(box) : D[i] = box[i]
        /\ \A i \in 1..Len(D) : i > Len(box) => D[i].kind # "state_change"
    BY <1>1, <1>2, <1>3, <1>4, DeliveredRows
  <1>6. DOMAIN D = 1..Len(D) /\ Len(D) \in Nat
    BY <1>5
  <1>7. \A i \in DOMAIN D : D[i].kind = "state_change" => i \in DOMAIN box /\ D[i] = box[i]
    BY <1>3, <1>5, <1>6
  <1>8. \A i \in DOMAIN box : i \in DOMAIN D /\ D[i] = box[i]
    BY <1>3, <1>5, <1>6
  <1>9. LiveIn(D) = LiveIn(box) /\ \A v : CoversIn(D, v) = CoversIn(box, v)
    BY <1>7, <1>8 DEF LiveIn, CoversIn
  <1>10. \A v : Dated(box, v) => Dated(D, v)
    BY <1>7 DEF Dated
  <1>11. \A h, t, clean : Fits(box, h, t, p, clean) => Fits(D, h, t, p, clean)
    BY <1>9 DEF Fits
  <1> QED BY <1>1, <1>2, <1>5, <1>10, <1>11

\* A change of status reaches one recipient: told in one row, or not at all.
LEMMA ChangeToldFits ==
    ASSUME InboxInv, NEW s \in Sessions, T(s) \in Tickets, NEW p \in People,
           NEW was \in Nat, NEW now \in Nat, now = was + 1, News(s) = {now},
           FanOut(s), Dated(inbox[T(s)][p], was)
    PROVE  /\ Delivered(s, p) \in Seq(Notice)
           /\ Dated(Delivered(s, p), now)
           /\ Window /\ Single(LiveIn(inbox[T(s)][p])) => Single(LiveIn(Delivered(s, p)))
           /\ \A v \in Nat : v <= was =>
                CoversIn(Delivered(s, p), v) = CoversIn(inbox[T(s)][p], v)
           /\ Single(CoversIn(Delivered(s, p), now))
           /\ CoversIn(Delivered(s, p), now) # {} <=> Told(s, p)
  <1>1. PICK box : box = inbox[T(s)][p]
    OBVIOUS
  <1>2. PICK D : D = Delivered(s, p)
    OBVIOUS
  <1>3. /\ box \in Seq(Notice) /\ DOMAIN box = 1..Len(box) /\ Len(box) \in Nat
        /\ \A i \in DOMAIN box : box[i].covers \in SUBSET Nat
    <2>1. box \in Seq(Notice)
      BY <1>1 DEF InboxInv, InboxTypes
    <2>2. DOMAIN box = 1..Len(box) /\ Len(box) \in Nat /\ \A i \in DOMAIN box : box[i] \in Notice
      BY <2>1
    <2>3. \A i \in DOMAIN box : box[i].covers \in SUBSET Nat
      BY <2>2 DEF Notice
    <2> QED BY <2>1, <2>2, <2>3
  <1>4. /\ D \in Seq(Notice) /\ Len(box) <= Len(D)
        /\ \A i \in 1..Len(box) : /\ D[i].kind = box[i].kind
                                  /\ ToldBy(s, p, i) => D[i].covers = box[i].covers \cup {now}
                                  /\ ~ToldBy(s, p, i) => D[i] = box[i]
        /\ \A i \in 1..Len(D) : i > Len(box) /\ D[i].kind = "state_change" =>
               i = Len(box) + 1 /\ ToldBy(s, p, 0)
        /\ ToldBy(s, p, 0) => /\ Len(box) + 1 \in 1..Len(D)
                              /\ D[Len(box) + 1].kind = "state_change"
                              /\ D[Len(box) + 1].covers = {now}
    <2>1. News(s) \in SUBSET Nat
      OBVIOUS
    <2>2. /\ D \in Seq(Notice) /\ Len(box) <= Len(D)
          /\ \A i \in 1..Len(box) :
                 /\ D[i].kind = box[i].kind
                 /\ ToldBy(s, p, i) => D[i].covers = box[i].covers \cup News(s)
                 /\ ~ToldBy(s, p, i) => D[i] = box[i]
          /\ \A i \in 1..Len(D) : i > Len(box) /\ D[i].kind = "state_change" =>
                 i = Len(box) + 1 /\ ToldBy(s, p, 0)
          /\ ToldBy(s, p, 0) => /\ Len(box) + 1 \in 1..Len(D)
                                /\ D[Len(box) + 1].kind = "state_change"
                                /\ D[Len(box) + 1].covers = News(s)
      BY <1>1, <1>2, <1>3, <2>1, DeliveredRows
    <2> QED BY <2>2
  <1>5. DOMAIN D = 1..Len(D) /\ Len(D) \in Nat
    BY <1>4
  <1>6. \A i, j : ToldBy(s, p, i) /\ ToldBy(s, p, j) => i = j
    BY DEF FanOut, ToldBy
  <1>7. \A i : ToldBy(s, p, i) => /\ Window => LiveIn(box) \subseteq {i}
                                  /\ i # 0 => i \in DOMAIN box /\ box[i].kind = "state_change"
    BY <1>1 DEF FanOut, ToldBy, Pending
  <1>8. Told(s, p) <=> \E i : ToldBy(s, p, i)
    BY DEF Told, ToldBy
  <1>9. \A i \in DOMAIN D : D[i].kind = "state_change" =>
            \/ i \in DOMAIN box /\ box[i].kind = "state_change"
            \/ i = Len(box) + 1 /\ ToldBy(s, p, 0)
    BY <1>3, <1>4, <1>5
  <1>10. Len(box) + 1 \notin DOMAIN box /\ 0 \notin DOMAIN box /\ \A i \in DOMAIN box : i \in DOMAIN D
    BY <1>3, <1>4, <1>5
  <1>11. \A i \in DOMAIN box : \A w \in box[i].covers :
             box[i].kind = "state_change" => w <= was /\ w # now /\ w <= now
    <2> SUFFICES ASSUME NEW i \in DOMAIN box, NEW w \in box[i].covers, box[i].kind = "state_change"
                 PROVE  w <= was /\ w # now /\ w <= now
      OBVIOUS
    <2>1. w <= was /\ w \in Nat
      BY <1>1, <1>3 DEF Dated
    <2> QED BY <2>1
  <1>12. Dated(D, now)
    <2> SUFFICES ASSUME NEW i \in DOMAIN D, D[i].kind = "state_change", NEW w \in D[i].covers
                 PROVE  w <= now
      BY DEF Dated
    <2>1. CASE i \in DOMAIN box /\ box[i].kind = "state_change"
      <3>1. w \in box[i].covers \/ w = now
        BY <1>3, <1>4, <2>1
      <3> QED BY <1>11, <2>1, <3>1
    <2>2. CASE i = Len(box) + 1 /\ ToldBy(s, p, 0)
      <3>1. w = now
        BY <1>4, <2>2
      <3> QED BY <3>1
    <2> QED BY <1>9, <2>1, <2>2
  <1>13. ASSUME Window, Single(LiveIn(box))
         PROVE  Single(LiveIn(D))
    <2>1. ASSUME NEW i \in LiveIn(D), NEW k, ToldBy(s, p, k), k # 0
          PROVE  i = k
      <3>1. i \in DOMAIN D /\ D[i].kind = "state_change" /\ D[i].fresh /\ ~D[i].read
        BY DEF LiveIn
      <3>2. i \in DOMAIN box /\ (i # k => ~ToldBy(s, p, i))
        BY <1>6, <1>9, <2>1, <3>1
      <3>3. i # k => i \in LiveIn(box)
        <4>1. i # k => D[i] = box[i]
          BY <1>3, <1>4, <3>2
        <4> QED BY <3>1, <3>2, <4>1 DEF LiveIn
      <3> QED BY <1>7, <1>13, <2>1, <3>3
    <2>2. ASSUME NEW i \in LiveIn(D), ToldBy(s, p, 0)
          PROVE  i = Len(box) + 1
      <3>1. i \in DOMAIN D /\ D[i].kind = "state_change" /\ D[i].fresh /\ ~D[i].read
        BY DEF LiveIn
      <3>2. i \in DOMAIN box => D[i] = box[i]
        BY <1>3, <1>4, <1>6, <1>10, <2>2
      <3>3. i \in DOMAIN box => i \in LiveIn(box) /\ i # 0
        BY <1>10, <3>1, <3>2 DEF LiveIn
      <3> QED BY <1>7, <1>9, <1>13, <2>2, <3>1, <3>3
    <2>3. ASSUME NEW i \in LiveIn(D), ~Told(s, p)
          PROVE  i \in LiveIn(box)
      <3>1. i \in DOMAIN D /\ D[i].kind = "state_change" /\ D[i].fresh /\ ~D[i].read
        BY DEF LiveIn
      <3>2. i \in DOMAIN box /\ D[i] = box[i]
        BY <1>3, <1>4, <1>8, <1>9, <2>3, <3>1
      <3> QED BY <3>1, <3>2 DEF LiveIn
    <2>4. CASE Told(s, p)
      <3>1. PICK k : ToldBy(s, p, k)
        BY <1>8, <2>4
      <3> QED BY <2>1, <2>2, <3>1 DEF Single
    <2>5. CASE ~Told(s, p)
      BY <1>13, <2>3, <2>5 DEF Single
    <2> QED BY <2>4, <2>5
  <1>14. ASSUME NEW v \in Nat, v <= was
         PROVE  CoversIn(D, v) = CoversIn(box, v)
    <2>1. v # now
      BY <1>14
    <2>2. \A i \in DOMAIN box : v \in D[i].covers <=> v \in box[i].covers
      BY <1>3, <1>4, <2>1
    <2>3. \A i \in DOMAIN box : D[i].kind = box[i].kind /\ i \in DOMAIN D
      BY <1>3, <1>4, <1>10
    <2>4. ToldBy(s, p, 0) => v \notin D[Len(box) + 1].covers
      BY <1>4, <2>1
    <2> QED BY <1>9, <2>2, <2>3, <2>4 DEF CoversIn
  <1>15. \A i : i \in CoversIn(D, now) <=>
                 (i # 0 /\ ToldBy(s, p, i)) \/ (i = Len(box) + 1 /\ ToldBy(s, p, 0))
    <2>1. ASSUME NEW i \in CoversIn(D, now)
          PROVE  \/ i # 0 /\ ToldBy(s, p, i)
                 \/ i = Len(box) + 1 /\ ToldBy(s, p, 0)
      <3>1. i \in DOMAIN D /\ D[i].kind = "state_change" /\ now \in D[i].covers
        BY DEF CoversIn
      <3>2. CASE i \in DOMAIN box /\ box[i].kind = "state_change"
        <4>1. now \notin box[i].covers /\ i # 0
          BY <1>10, <1>11, <3>2
        <4> QED BY <1>3, <1>4, <3>1, <3>2, <4>1
      <3> QED BY <1>9, <3>1, <3>2
    <2>2. ASSUME NEW i, i # 0, ToldBy(s, p, i)
          PROVE  i \in CoversIn(D, now)
      <3>1. i \in DOMAIN box /\ box[i].kind = "state_change" /\ i \in DOMAIN D
        BY <1>7, <1>10, <2>2
      <3>2. D[i].kind = "state_change" /\ D[i].covers = box[i].covers \cup {now}
        BY <1>3, <1>4, <2>2, <3>1
      <3> QED BY <3>1, <3>2 DEF CoversIn
    <2>3. ASSUME ToldBy(s, p, 0)
          PROVE  Len(box) + 1 \in CoversIn(D, now)
      BY <1>4, <1>5, <2>3 DEF CoversIn
    <2> QED BY <2>1, <2>2, <2>3
  <1>16. Single(CoversIn(D, now))
    BY <1>6, <1>15 DEF Single
  <1>17. CoversIn(D, now) # {} <=> Told(s, p)
    <2>1. ASSUME NEW i \in CoversIn(D, now)
          PROVE  Told(s, p)
      BY <1>8, <1>15
    <2>2. ASSUME Told(s, p)
          PROVE  CoversIn(D, now) # {}
      <3>1. PICK k : ToldBy(s, p, k)
        BY <1>8, <2>2
      <3>2. k \in CoversIn(D, now) \/ Len(box) + 1 \in CoversIn(D, now)
        BY <1>15, <3>1
      <3> QED BY <3>2
    <2> QED BY <2>1, <2>2
  <1> QED BY <1>1, <1>2, <1>4, <1>12, <1>13, <1>14, <1>16, <1>17


-----------------------------------------------------------------------------
(* The commit, and the theorems.                                           *)

\* The history grows by a move whose notices are in.
LEMMA MoveRecorded ==
    ASSUME NEW h \in Seq(Move), NEW m \in Move, NEW was \in Nat, m.version = was + 1,
           Recent(h, was)
    PROVE  /\ Recent(h \o <<m>>, m.version)
           /\ \A i \in 2..Len(h \o <<m>>) :
                \/ i \in 2..Len(h) /\ (h \o <<m>>)[i] = h[i] /\ h[i].version \in Nat
                       /\ h[i].version <= was
                \/ (h \o <<m>>)[i] = m
  <1> DEFINE g == h \o <<m>>
  <1>1. /\ DOMAIN h = 1..Len(h) /\ DOMAIN g = 1..(Len(h) + 1) /\ Len(g) = Len(h) + 1
        /\ Len(h) \in Nat /\ g[Len(h) + 1] = m
        /\ \A i \in 1..Len(h) : g[i] = h[i] /\ h[i] \in Move
    OBVIOUS
  <1>2. \A i \in 1..Len(h) : h[i].version \in Nat /\ h[i].version <= was
    BY <1>1 DEF Recent, Move
  <1>3. m.version \in Nat /\ \A v \in Nat : v <= was => v <= m.version
    OBVIOUS
  <1> HIDE DEF g
  <1>4. \A i \in 1..Len(g) : i \in 1..Len(h) \/ i = Len(h) + 1
    BY <1>1
  <1>5. \A i \in DOMAIN g : g[i].version <= m.version
    BY <1>1, <1>2, <1>3, <1>4
  <1>6. \A i \in 2..Len(g) : i \in 1..Len(g) /\ (i \in 1..Len(h) => i \in 2..Len(h))
    BY <1>1
  <1>7. \A i \in 2..Len(g) :
            (i \in 2..Len(h) /\ g[i] = h[i] /\ h[i].version \in Nat /\ h[i].version <= was)
                \/ g[i] = m
    BY <1>1, <1>2, <1>4, <1>6
  <1> QED BY <1>5, <1>7 DEF Recent, g

LEMMA MoveFits ==
    ASSUME NEW box, NEW D, NEW h \in Seq(Move), NEW m \in Move, NEW was \in Nat,
           m.version = was + 1, Recent(h, was), NEW t, NEW p, NEW clean,
           Fits(box, h, t, p, clean),
           Window /\ Single(LiveIn(box)) => Single(LiveIn(D)),
           \A v \in Nat : v <= was => CoversIn(D, v) = CoversIn(box, v),
           Single(CoversIn(D, m.version)),
           CoversIn(D, m.version) # {} => p # m.by /\ p \in WatchersOf[t] \cup {m.assignee},
           clean /\ p # m.by /\ p \in WatchersOf[t] \cup {m.assignee}
               => CoversIn(D, m.version) # {}
    PROVE  Fits(D, h \o <<m>>, t, p, clean)
  <1>1. PICK g : g = h \o <<m>>
    OBVIOUS
  <1>2. ASSUME NEW i \in 2..Len(g)
        PROVE  /\ Single(CoversIn(D, g[i].version))
               /\ CoversIn(D, g[i].version) # {} =>
                      p # g[i].by /\ p \in WatchersOf[t] \cup {g[i].assignee}
               /\ clean /\ p # g[i].by /\ p \in WatchersOf[t] \cup {g[i].assignee}
                      => CoversIn(D, g[i].version) # {}
    <2>1. CASE i \in 2..Len(h) /\ g[i] = h[i] /\ h[i].version \in Nat /\ h[i].version <= was
      <3>1. CoversIn(D, g[i].version) = CoversIn(box, h[i].version)
        BY <2>1
      <3> QED BY <2>1, <3>1 DEF Fits
    <2>2. CASE g[i] = m
      BY <2>2
    <2> QED BY <1>1, <2>1, <2>2, MoveRecorded
  <1>3. Window => Single(LiveIn(D))
    BY DEF Fits
  <1>4. Fits(D, g, t, p, clean)
    BY <1>2, <1>3 DEF Fits
  <1> QED BY <1>1, <1>4

\* What a commit does to the rows, and what it leaves to the other sessions.
LEMMA CommitFrame ==
    ASSUME WorkflowInv, InboxInv, NEW s \in Sessions, Commit(s)
    PROVE  /\ T(s) \in Tickets /\ req[s] \in Requests /\ faults' = faults
           /\ inbox' = [inbox EXCEPT ![T(s)] = [p \in People |-> Delivered(s, p)]]
           /\ tickets'[T(s)] = view[s]
           /\ history'[T(s)] = history[T(s)] \o Recorded(s)
           /\ \A u \in Tickets \ {T(s)} : tickets'[u] = tickets[u] /\ history'[u] = history[u]
           /\ \A o \in Sessions \ {s} :
                /\ pc'[o] = pc[o] /\ req'[o] = req[o] /\ todo'[o] = todo[o]
                /\ found'[o] = found[o] /\ drafts'[o] = drafts[o]
                /\ InMove(o) => T(o) \in Tickets \ {T(s)}
           /\ Telling(s)'
           /\ remarks' \in [Tickets -> Nat] /\ todo' \in [Sessions -> SUBSET People]
           /\ found' \in [Sessions -> [who : People \cup {Nobody}, row : Nat]]
           /\ drafts' \in [Sessions -> SUBSET Draft]
  <1>1. pc[s] = "commit" /\ Release(s) /\ faults' = faults
    BY DEF Commit
  <1>2. /\ T(s) \in Tickets /\ req[s] \in Requests /\ LocalTypes /\ RowsOK /\ InboxTypes
    BY <1>1, Running DEF WorkflowInv, InboxInv
  <1>3. /\ tickets'[T(s)] = view[s] /\ history'[T(s)] = history[T(s)] \o Recorded(s)
        /\ \A u \in Tickets \ {T(s)} : tickets'[u] = tickets[u] /\ history'[u] = history[u]
    BY <1>2 DEF Commit, RowsOK
  <1>4. ASSUME NEW o \in Sessions \ {s}
        PROVE  /\ pc'[o] = pc[o] /\ req'[o] = req[o] /\ todo'[o] = todo[o]
               /\ found'[o] = found[o] /\ drafts'[o] = drafts[o]
    BY <1>1, <1>2 DEF Release, LocalTypes, InboxTypes
  <1>5. ASSUME NEW o \in Sessions \ {s}, InMove(o)
        PROVE  T(o) \in Tickets \ {T(s)}
    <2>1. req[o] \in Requests /\ T(o) \in Tickets /\ Ready(o)
      BY <1>5, Running DEF InMove, SessionOK
    <2>2. mode[o] = "exclusive" /\ mode[s] \in {"update", "exclusive"}
      BY <1>1, <1>5, <2>1, CommitWrites, WorkflowAssumption DEF InMove, Ready
    <2>3. req[o] # NoRequest /\ req[s] # NoRequest
      BY <1>2, <2>1, RequestFields
    <2> QED BY <2>1, <2>2, <2>3 DEF WorkflowInv, LocksCompatible, Conflict
  <1>6. Telling(s)'
    BY <1>1, <1>2 DEF Release, LocalTypes, InboxTypes, Telling, InMove, StateDrafts
  <1>7. remarks' \in [Tickets -> Nat]
    BY <1>2 DEF Commit, InboxTypes
  <1>8. todo' \in [Sessions -> SUBSET People] /\ drafts' \in [Sessions -> SUBSET Draft]
    BY <1>1, <1>2 DEF Release, InboxTypes
  <1>9. found' \in [Sessions -> [who : People \cup {Nobody}, row : Nat]]
    <2>1. NoOneFound \in [who : People \cup {Nobody}, row : Nat]
      BY DEF NoOneFound
    <2> QED BY <1>1, <1>2, <2>1 DEF Release, InboxTypes
  <1>10. inbox' = [inbox EXCEPT ![T(s)] = [p \in People |-> Delivered(s, p)]]
    BY DEF Commit
  <1> QED BY <1>1, <1>2, <1>3, <1>4, <1>5, <1>6, <1>7, <1>8, <1>9, <1>10


\* Versions only grow: what was recent or dated before is so after.
LEMMA RecentLater ==
    ASSUME NEW h \in Seq(Move), NEW v \in Nat, NEW w \in Nat, v <= w, Recent(h, v)
    PROVE  Recent(h, w)
  <1>1. \A i \in DOMAIN h : h[i] \in Move
    OBVIOUS
  <1>2. \A i \in DOMAIN h : h[i].version \in Nat
    BY <1>1 DEF Move
  <1> QED BY <1>2 DEF Recent

LEMMA DatedLater ==
    ASSUME NEW box \in Seq(Notice), NEW v \in Nat, NEW w \in Nat, v <= w, Dated(box, v)
    PROVE  Dated(box, w)
  <1>1. \A i \in DOMAIN box : box[i] \in Notice
    OBVIOUS
  <1>2. \A i \in DOMAIN box : box[i].covers \in SUBSET Nat
    BY <1>1 DEF Notice
  <1>3. \A i \in DOMAIN box : \A x \in box[i].covers : x \in Nat
    BY <1>2
  <1> QED BY <1>3 DEF Dated

\* A commit delivers, and the boxes fit the history that it extends.
LEMMA DeliveryFits ==
    ASSUME WorkflowInv, InboxInv, NEW s \in Sessions, Commit(s), NEW p \in People
    PROVE  /\ Delivered(s, p) \in Seq(Notice)
           /\ Dated(Delivered(s, p), view[s].version)
           /\ Recent(history[T(s)] \o Recorded(s), view[s].version)
           /\ Fits(Delivered(s, p), history[T(s)] \o Recorded(s), T(s), p, faults = 0)
  <1> DEFINE t == T(s)
             r == tickets[t]
             n == view[s]
  <1>1. /\ pc[s] = "commit" /\ t \in Tickets /\ req[s] \in Requests /\ RowsOK
        /\ r \in Row /\ n \in Row /\ history[t] \in Seq(Move) /\ Ready(s)
    BY Running, CommitFrame, CommitWrites, WorkflowAssumption
       DEF Commit, WorkflowInv, RowsOK, SessionOK
  <1>2. r.version \in Nat /\ n.version \in Nat
    BY <1>1 DEF Row
  <1>3. /\ Recent(history[t], r.version) /\ Dated(inbox[t][p], r.version)
        /\ Fits(inbox[t][p], history[t], t, p, faults = 0)
        /\ inbox[t][p] \in Seq(Notice)
    BY <1>1 DEF InboxInv, InboxTypes
  <1>4. CASE req[s].op # "move"
    <2>1. r.version <= n.version
      BY <1>1, <1>4, CommitWrites, WorkflowAssumption
    <2>2. Recorded(s) = << >> /\ history[t] \o << >> = history[t]
      BY <1>1, <1>4, ConcatEmptySeq DEF Recorded
    <2>3. News(s) = {} /\ StateDrafts(s) = {}
      BY <1>4 DEF News, InboxInv, Telling, InMove
    <2>4. Recent(history[t], n.version)
      BY <1>1, <1>2, <1>3, <2>1, RecentLater
    <2>5. Dated(inbox[t][p], n.version)
      BY <1>2, <1>3, <2>1, DatedLater
    <2>6. /\ Delivered(s, p) \in Seq(Notice)
          /\ Dated(inbox[t][p], n.version) => Dated(Delivered(s, p), n.version)
          /\ Fits(inbox[t][p], history[t], t, p, faults = 0) =>
                 Fits(Delivered(s, p), history[t], t, p, faults = 0)
      BY <1>1, <2>3, NothingToldFits
    <2> QED BY <1>3, <2>2, <2>4, <2>5, <2>6
  <1>5. CASE req[s].op = "move"
    <2> DEFINE m == [from |-> r.status, to |-> n.status, version |-> n.version,
                     by |-> req[s].actor, assignee |-> n.assignee]
    <2>1. n.version = r.version + 1 /\ n = Moved(s, r)
      BY <1>1, <1>5, CommitWrites, WorkflowAssumption DEF Ready
    <2>2. n.assignee = r.assignee
      BY <1>1, <2>1 DEF Moved, Row
    <2>3. m \in Move /\ m.version = r.version + 1 /\ m.by = req[s].actor
          /\ m.assignee = r.assignee /\ Recorded(s) = <<m>>
      BY <1>1, <1>5, <2>1, <2>2, RequestFields DEF Move, Row, Recorded
    <2>4. News(s) = {n.version} /\ FanOut(s) /\ todo[s] = {} /\ pc[s] # "write"
      BY <1>1, <1>5 DEF News, InboxInv, Telling, InMove, FanOut
    <2>5. p \in Recipients(s, r) <=> p # m.by /\ p \in WatchersOf[t] \cup {m.assignee}
      BY <2>3 DEF Recipients
    <2>6. Told(s, p) => p \in Recipients(s, r)
      BY <2>4 DEF Told, FanOut
    <2>7. faults = 0 /\ p \in Recipients(s, r) => Told(s, p)
      BY <2>4 DEF FanOut
    <2>8. /\ Delivered(s, p) \in Seq(Notice)
          /\ Dated(Delivered(s, p), n.version)
          /\ Window /\ Single(LiveIn(inbox[t][p])) => Single(LiveIn(Delivered(s, p)))
          /\ \A v \in Nat : v <= r.version =>
               CoversIn(Delivered(s, p), v) = CoversIn(inbox[t][p], v)
          /\ Single(CoversIn(Delivered(s, p), n.version))
          /\ CoversIn(Delivered(s, p), n.version) # {} <=> Told(s, p)
      BY <1>1, <1>2, <1>3, <2>1, <2>4, ChangeToldFits
    <2>9. m.version = n.version
      OBVIOUS
    <2> HIDE DEF m, n, r, t
    <2>10. Recent(history[t] \o <<m>>, n.version)
      BY <1>1, <1>2, <1>3, <2>3, <2>9, MoveRecorded
    <2>11. Fits(Delivered(s, p), history[t] \o <<m>>, t, p, faults = 0)
      <3>1. PICK box, D, was, clean :
                /\ box = inbox[t][p] /\ D = Delivered(s, p) /\ was = r.version
                /\ clean = (faults = 0)
        OBVIOUS
      <3>2. /\ history[t] \in Seq(Move) /\ m \in Move /\ was \in Nat /\ m.version = was + 1
            /\ Recent(history[t], was) /\ Fits(box, history[t], t, p, clean)
        BY <1>1, <1>2, <1>3, <2>3, <3>1
      <3>3. /\ Window /\ Single(LiveIn(box)) => Single(LiveIn(D))
            /\ \A v \in Nat : v <= was => CoversIn(D, v) = CoversIn(box, v)
            /\ Single(CoversIn(D, m.version))
            /\ CoversIn(D, m.version) # {} <=> Told(s, p)
        BY <2>8, <2>9, <3>1
      <3>4. /\ CoversIn(D, m.version) # {} => p # m.by /\ p \in WatchersOf[t] \cup {m.assignee}
            /\ clean /\ p # m.by /\ p \in WatchersOf[t] \cup {m.assignee}
                   => CoversIn(D, m.version) # {}
        BY <2>5, <2>6, <2>7, <3>1, <3>3
      <3>5. Fits(D, history[t] \o <<m>>, t, p, clean)
        BY <3>2, <3>3, <3>4, MoveFits
      <3> QED BY <3>1, <3>5
    <2>12. /\ Dated(Delivered(s, p), n.version)
           /\ Recent(history[t] \o Recorded(s), n.version)
           /\ Fits(Delivered(s, p), history[t] \o Recorded(s), t, p, faults = 0)
      BY <2>3, <2>8, <2>10, <2>11
    <2> QED BY <2>8, <2>12 DEF n, t
  <1> QED BY <1>4, <1>5

LEMMA CommitTells ==
    ASSUME WorkflowInv, InboxInv, NEW s \in Sessions, Commit(s)
    PROVE  InboxInv'
  <1>1. /\ T(s) \in Tickets /\ faults' = faults /\ InboxTypes
        /\ inbox' = [inbox EXCEPT ![T(s)] = [p \in People |-> Delivered(s, p)]]
        /\ tickets'[T(s)] = view[s] /\ history'[T(s)] = history[T(s)] \o Recorded(s)
        /\ \A u \in Tickets \ {T(s)} : tickets'[u] = tickets[u] /\ history'[u] = history[u]
    BY CommitFrame DEF InboxInv
  <1>2. /\ inbox'[T(s)] = [p \in People |-> Delivered(s, p)]
        /\ \A u \in Tickets \ {T(s)} : inbox'[u] = inbox[u]
        /\ \A p \in People : inbox'[T(s)][p] = Delivered(s, p)
    BY <1>1 DEF InboxTypes
  <1>3. InboxTypes'
    <2>1. [p \in People |-> Delivered(s, p)] \in [People -> Seq(Notice)]
      BY DeliveryFits
    <2>2. inbox' \in [Tickets -> [People -> Seq(Notice)]]
      BY <1>1, <2>1 DEF InboxTypes
    <2> QED BY <1>1, <2>2, CommitFrame DEF InboxTypes
  <1>4. ASSUME NEW t \in Tickets
        PROVE  Recent(history'[t], tickets'[t].version)
    <2>1. CASE t # T(s)
      BY <1>1, <2>1 DEF InboxInv
    <2>2. CASE t = T(s)
      <3>1. PICK q : q \in People
        BY CommitFrame, RequestFields
      <3>2. Recent(history[T(s)] \o Recorded(s), view[s].version)
        BY <3>1, DeliveryFits
      <3> QED BY <1>1, <2>2, <3>2
    <2> QED BY <2>1, <2>2
  <1>5. ASSUME NEW t \in Tickets, NEW p \in People
        PROVE  /\ Dated(inbox'[t][p], tickets'[t].version)
               /\ Fits(inbox'[t][p], history'[t], t, p, faults' = 0)
    <2>1. CASE t # T(s)
      BY <1>1, <1>2, <2>1 DEF InboxInv
    <2>2. CASE t = T(s)
      <3>1. /\ Dated(Delivered(s, p), view[s].version)
            /\ Fits(Delivered(s, p), history[T(s)] \o Recorded(s), T(s), p, faults = 0)
        BY DeliveryFits
      <3> QED BY <1>1, <1>2, <2>2, <3>1
    <2> QED BY <2>1, <2>2
  <1>6. ASSUME NEW o \in Sessions
        PROVE  Telling(o)'
    <2>1. CASE o = s
      BY <2>1, CommitFrame
    <2>2. CASE o # s
      <3>1. /\ pc'[o] = pc[o] /\ req'[o] = req[o] /\ todo'[o] = todo[o]
            /\ found'[o] = found[o] /\ drafts'[o] = drafts[o]
            /\ InMove(o) => T(o) \in Tickets \ {T(s)}
        BY <2>2, CommitFrame
      <3>2. InMove(o) => tickets'[T(o)] = tickets[T(o)] /\ inbox'[T(o)] = inbox[T(o)]
        BY <1>1, <1>2, <3>1
      <3>3. Telling(o)
        BY DEF InboxInv
      <3> QED BY <1>1, <3>1, <3>2, <3>3, TellingKept
    <2> QED BY <2>1, <2>2
  <1> QED BY <1>3, <1>4, <1>5, <1>6 DEF InboxInv


LEMMA InboxInit ==
    ASSUME Init
    PROVE  InboxInv
  <1>1. PICK owner \in [Tickets -> People \cup {Nobody}] :
            /\ tickets = [t \in Tickets |-> Created(t, owner[t])]
            /\ history = [t \in Tickets |-> <<FirstMove(t, owner[t])>>]
    BY DEF Init
  <1>2. InboxTypes
    <2>1. << >> \in Seq(Notice) /\ NoOneFound \in [who : People \cup {Nobody}, row : Nat]
      BY DEF NoOneFound
    <2>2. 0 \in 0..MaxFaults
      BY WorkflowAssumption
    <2>3. inbox \in [Tickets -> [People -> Seq(Notice)]] /\ remarks \in [Tickets -> Nat]
      BY <2>1 DEF Init
    <2>4. /\ todo \in [Sessions -> SUBSET People]
          /\ found \in [Sessions -> [who : People \cup {Nobody}, row : Nat]]
          /\ drafts \in [Sessions -> SUBSET Draft]
      BY <2>1 DEF Init
    <2> QED BY <2>2, <2>3, <2>4 DEF InboxTypes, Init
  <1>3. ASSUME NEW t \in Tickets
        PROVE  Recent(history[t], tickets[t].version) /\ 2..Len(history[t]) = {}
    <2>1. PICK m : m = FirstMove(t, owner[t])
      OBVIOUS
    <2>2. history[t] = <<m>> /\ m.version = 1 /\ tickets[t].version = 1
      BY <1>1, <2>1 DEF FirstMove, Created
    <2>3. DOMAIN <<m>> = 1..1 /\ <<m>>[1] = m /\ Len(<<m>>) = 1
      OBVIOUS
    <2> QED BY <2>2, <2>3 DEF Recent
  <1>4. ASSUME NEW t \in Tickets, NEW p \in People
        PROVE  /\ Dated(inbox[t][p], tickets[t].version)
               /\ Fits(inbox[t][p], history[t], t, p, faults = 0)
    <2>1. inbox[t][p] = << >> /\ DOMAIN << >> = {}
      BY DEF Init
    <2> QED BY <1>3, <2>1 DEF Dated, Fits, LiveIn, Single
  <1>5. \A s \in Sessions : Telling(s)
    BY DEF Init, Telling, InMove, StateDrafts
  <1> QED BY <1>2, <1>3, <1>4, <1>5 DEF InboxInv

LEMMA InboxStep ==
    ASSUME WorkflowInv, InboxInv, [Next]_vars
    PROVE  InboxInv'
  <1>1. CASE UNCHANGED vars
    <2>1. UNCHANGED <<db, local, faults>>
      BY <1>1 DEF vars
    <2>2. /\ UNCHANGED <<tickets, history, inbox, remarks>>
          /\ UNCHANGED <<pc, req, todo, found, drafts, faults>>
      BY <2>1 DEF db, local
    <2>3. InboxTypes'
      BY <2>2 DEF InboxInv, InboxTypes
    <2>4. \A t \in Tickets : Recent(history[t], tickets[t].version)'
      BY <2>2 DEF InboxInv, Recent
    <2>5. \A t \in Tickets, p \in People :
            /\ Dated(inbox[t][p], tickets[t].version)'
            /\ Fits(inbox[t][p], history[t], t, p, faults = 0)'
      BY <2>2 DEF InboxInv, Dated, Fits, LiveIn, CoversIn, Single
    <2>6. ASSUME NEW o \in Sessions
          PROVE  Telling(o)'
      BY <2>2, TellingKept DEF InboxInv
    <2> QED BY <2>3, <2>4, <2>5, <2>6 DEF InboxInv
  <1>2. ASSUME NEW s \in Sessions,
               Begin(s) \/ Update(s) \/ ClaimTicket(s) \/ TransitionTicket(s)
                   \/ AddComment(s) \/ Commit(s) \/ StatementFails(s)
        PROVE  InboxInv'
    <2>1. CASE \/ Begin(s) \/ Edit(s) \/ Assign(s) \/ Claim(s)
               \/ LoadForComment(s) \/ InsertComment(s) \/ StampRow(s)
      BY <2>1, QuietStepsKeep
    <2>2. CASE \/ StaleVersion(s) \/ AlreadyClaimed(s) \/ IllegalTransition(s)
               \/ StampRejected(s) \/ StatementFails(s)
      BY <2>2, GivingUpKeeps
    <2>3. CASE Transition(s) \/ FindNotice(s) \/ WriteNotice(s) \/ NoticeLost(s) \/ FanOutDone(s)
      BY <2>3, FanOutStepsKeep
    <2>4. CASE Commit(s)
      BY <2>4, CommitTells
    <2> QED BY <1>2, <2>1, <2>2, <2>3, <2>4
            DEF Update, ClaimTicket, TransitionTicket, AddComment
  <1>3. ASSUME NEW p \in People,
               MarkAllRead(p) \/ \E t \in Tickets : MarkRead(t, p) \/ Age(t, p)
        PROVE  InboxInv'
    BY <1>3, ReadingKeeps
  <1> QED BY <1>1, <1>2, <1>3 DEF Next

\* The inbox invariant: what recipients have been told fits the history, and a
\* transition in hand knows whom it has told and whom it has yet to tell.
THEOREM InboxInvariant ==
    ASSUME WorkflowAssumption
    PROVE  Spec => []InboxInv
  <1>1. Init => InboxInv
    BY InboxInit
  <1>2. WorkflowInv /\ InboxInv /\ [Next]_vars => InboxInv'
    BY InboxStep
  <1> QED BY <1>1, <1>2, WorkflowInvariant, PTL DEF Spec

\* Rows, histories, inboxes and sessions keep their types, and no row names a
\* step of an actor that is not an agent (ck_tickets_last_agent_step_id).
THEOREM WorkflowTypes ==
    ASSUME WorkflowAssumption
    PROVE  Spec => []WorkflowTypeOK
  <1>1. WorkflowInv /\ InboxInv => WorkflowTypeOK
    BY DEF WorkflowInv, RowsOK, LocalTypes, InboxInv, InboxTypes, WorkflowTypeOK
  <1> QED BY <1>1, WorkflowInvariant, InboxInvariant, PTL

\* How many rows a set of at most one row has.
LEMMA SingleCounts ==
    ASSUME NEW box \in Seq(Notice), NEW S \in SUBSET (DOMAIN box), Single(S)
    PROVE  /\ Cardinality(S) \in Nat /\ Cardinality(S) <= 1
           /\ S = {} => Cardinality(S) = 0
           /\ S # {} => Cardinality(S) = 1
  <1>1. CASE S = {}
    BY <1>1, FS_EmptySet
  <1>2. CASE S # {}
    <2>1. PICK x : x \in S
      BY <1>2
    <2>2. S = {x}
      BY <2>1 DEF Single
    <2>3. Cardinality({x}) = 1
      BY FS_Singleton
    <2> QED BY <1>2, <2>2, <2>3
  <1> QED BY <1>1, <1>2

\* Each change of status is told once to each of its recipients, and to nobody
\* else, in one notice that grows while it is unread and recent, however
\* transitions, readers and failing inserts interleave
\* (_coalesce_or_insert_state_change, fanout_state_change).
THEOREM InboxMatchesHistory ==
    ASSUME WorkflowAssumption
    PROVE  Spec => []InboxFitsHistory
  <1>1. ASSUME InboxInv
        PROVE  InboxFitsHistory
    <2>1. ASSUME NEW t \in Tickets, NEW p \in People
          PROVE  inbox[t][p] \in Seq(Notice) /\ Fits(inbox[t][p], history[t], t, p, faults = 0)
      BY <1>1 DEF InboxInv, InboxTypes
    <2>2. OneLiveNotice
      <3> SUFFICES ASSUME Window, NEW t \in Tickets, NEW p \in People
                   PROVE  Cardinality(Live(t, p)) <= 1
        BY DEF OneLiveNotice
      <3>1. Live(t, p) = LiveIn(inbox[t][p])
        BY DEF Live, LiveIn
      <3>2. Single(Live(t, p)) /\ Live(t, p) \in SUBSET (DOMAIN inbox[t][p])
        BY <2>1, <3>1 DEF Fits, LiveIn
      <3> QED BY <2>1, <3>2, SingleCounts
    <2>3. ToldOnce
      <3> SUFFICES ASSUME NEW t \in Tickets, NEW p \in People, NEW i \in 2..Len(history[t])
                   PROVE  LET m == history[t][i]
                              n == Cardinality(Covering(t, p, m.version))
                          IN  IF p # m.by /\ p \in WatchersOf[t] \cup {m.assignee}
                              THEN n <= 1 /\ (faults = 0 => n = 1)
                              ELSE n = 0
        BY DEF ToldOnce
      <3> DEFINE m == history[t][i]
                 told == Covering(t, p, m.version)
      <3>1. told = CoversIn(inbox[t][p], m.version)
        BY DEF Covering, CoversIn
      <3>2. /\ Single(told)
            /\ told # {} => p # m.by /\ p \in WatchersOf[t] \cup {m.assignee}
            /\ faults = 0 /\ p # m.by /\ p \in WatchersOf[t] \cup {m.assignee} => told # {}
        <4>1. PICK box, clean : box = inbox[t][p] /\ clean = (faults = 0)
          OBVIOUS
        <4>2. Fits(box, history[t], t, p, clean)
          BY <2>1, <4>1
        <4>3. LET here == CoversIn(box, m.version)
              IN  /\ Single(here)
                  /\ here # {} => p # m.by /\ p \in WatchersOf[t] \cup {m.assignee}
                  /\ clean /\ p # m.by /\ p \in WatchersOf[t] \cup {m.assignee} => here # {}
          BY <4>2 DEF Fits
        <4> QED BY <3>1, <4>1, <4>3
      <3>3. told \in SUBSET (DOMAIN inbox[t][p])
        BY DEF Covering
      <3> HIDE DEF told, m
      <3>4. /\ Cardinality(told) \in Nat /\ Cardinality(told) <= 1
            /\ told = {} => Cardinality(told) = 0
            /\ told # {} => Cardinality(told) = 1
        BY <2>1, <3>2, <3>3, SingleCounts
      <3>5. IF p # m.by /\ p \in WatchersOf[t] \cup {m.assignee}
            THEN Cardinality(told) <= 1 /\ (faults = 0 => Cardinality(told) = 1)
            ELSE Cardinality(told) = 0
        BY <3>2, <3>4
      <3> QED BY <3>5 DEF told, m
    <2> QED BY <2>2, <2>3 DEF InboxFitsHistory
  <1> QED BY <1>1, InboxInvariant, PTL
================================================================================
