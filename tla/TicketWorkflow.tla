-------------------------- MODULE TicketWorkflow --------------------------
(***************************************************************************)
(* Writes to ticket rows: update (without a new parent, see                *)
(* TicketHierarchy), assign, claim, transition with its notification       *)
(* fan-outs, and add_comment, each in a transaction of its own.  Edits and *)
(* transitions lock the row FOR UPDATE; a claim is one conditional UPDATE; *)
(* a comment reads the row without a lock and stamps it later.  Recipients *)
(* mark their notices as read at any time.                                 *)
(***************************************************************************)
EXTENDS Naturals, Sequences, FiniteSets

CONSTANTS
    Tickets,       \* tickets, as create() left them
    Sessions,      \* database sessions, one request at a time
    People,        \* users and agents
    Agents,        \* the people that are agents
    Nobody,        \* no assignee
    NoSession,     \* whose text a ticket has that nobody edited
    FirstStatus,   \* the status create() gives a ticket, by its type
    ReporterOf,    \* who created a ticket
    WatchersOf,    \* who watches a ticket
    Window,        \* whether the project's coalescing window is above 0 s
    Targets,       \* statuses the clients ask for
    MaxVersion,    \* bound per operation: no request starts above this version
    MaxRemarks,    \* bound: no comment starts at this count or above
    MaxFaults      \* bound on failed statements

ASSUME WorkflowAssumption ==
    /\ IsFiniteSet(People) /\ Agents \subseteq People
    /\ Nobody \notin People
    /\ NoSession \notin Sessions
    /\ FirstStatus \in [Tickets -> {"backlog", "todo"}]
    /\ ReporterOf \in [Tickets -> People]
    /\ WatchersOf \in [Tickets -> SUBSET People]
    /\ Window \in BOOLEAN
    /\ MaxFaults \in Nat

VARIABLES
    tickets,       \* committed rows
    history,       \* committed ticket_transitions of a ticket, oldest first
    inbox,         \* committed ticket_notifications of a recipient on a ticket
    remarks,       \* how many comments a ticket has
    pc,            \* where the request of a session stands
    req,           \* the request
    base,          \* the version its client had on the screen
    mode,          \* the strongest lock it holds on its ticket's row
    view,          \* its version of the row
    todo,          \* recipients it has yet to tell of the new status
    found,         \* the recipient in hand, and the row to extend (0: insert)
    drafts,        \* its uncommitted notices
    faults         \* failed statements so far

db == <<tickets, history, inbox, remarks>>
local == <<pc, req, base, mode, view, todo, found, drafts>>
vars == <<db, local, faults>>

\* The contents of the editable fields are told apart by who wrote them.
Texts == Sessions \cup {NoSession}

Card(r) == [status |-> r.status, resolved |-> r.resolved, assignee |-> r.assignee,
            version |-> r.version, text |-> r.text]
Register == INSTANCE TicketRegister
                WITH card <- [t \in Tickets |-> Card(tickets[t])]
Statuses == Register!Statuses
Terminal == Register!Terminal

\* last_actor_type, last_actor_id and last_agent_step_id
KindOf(p) == IF p \in Agents THEN "agent" ELSE "user"
\* (set or not: every request that has one has its own).
Stamp == [kind : {"user", "agent"}, who : People, step : BOOLEAN]
CheckHolds(l) == l.step => l.kind = "agent"

Row == [status : Statuses, resolved : BOOLEAN, assignee : People \cup {Nobody},
        version : Nat \ {0}, text : Texts, last : Stamp]

Ops == {"edit", "assign", "claim", "move", "comment"}

\* to and assignee: the status or the assignee asked for, fixed where the
\* operation has none.  stepped: the request carries X-Agent-Step-Id.  Only
\* agents may claim (ForbiddenError), and only their steps are recorded.
Requests ==
    {q \in [op : Ops, ticket : Tickets, actor : People, stepped : BOOLEAN,
            to : Statuses, assignee : People \cup {Nobody}] :
        /\ q.op = "claim" \/ q.stepped => q.actor \in Agents
        /\ q.op = "move" => q.to \in Targets
        /\ q.op # "move" => q.to = "todo"
        /\ q.op # "assign" => q.assignee = Nobody}

Kinds == {"state_change", "blocked", "resolved", "cancelled", "assigned"}

\* covers: the ticket versions whose change of status the row tells of.
\* fresh: a change of status whose created_at is within the coalescing window.
Notice == [kind : Kinds, covers : SUBSET Nat, read : BOOLEAN, fresh : BOOLEAN]

Draft == [kind : Kinds, to : People, row : Nat]
NoOneFound == [who |-> Nobody, row |-> 0]

Move == [from : Statuses \cup {"none"}, to : Statuses, version : Nat,
         by : People, assignee : People \cup {Nobody}]

PCs == {"idle", "insert", "stamp", "find", "write", "commit"} \cup Ops
LockModes == {"none", "share", "update", "exclusive"}

NoRequest == [op |-> "none"]
NoView == [version |-> 0]

WorkflowTypeOK ==
    /\ tickets \in [Tickets -> Row]
    /\ \A t \in Tickets : CheckHolds(tickets[t].last)
    /\ history \in [Tickets -> Seq(Move)]
    /\ inbox \in [Tickets -> [People -> Seq(Notice)]]
    /\ remarks \in [Tickets -> Nat]
    /\ pc \in [Sessions -> PCs]
    /\ req \in [Sessions -> Requests \cup {NoRequest}]
    /\ base \in [Sessions -> Nat]
    /\ mode \in [Sessions -> LockModes]
    /\ view \in [Sessions -> Row \cup {NoView}]
    /\ todo \in [Sessions -> SUBSET People]
    /\ found \in [Sessions -> [who : People \cup {Nobody}, row : Nat]]
    /\ drafts \in [Sessions -> SUBSET Draft]
    /\ faults \in 0..MaxFaults

\* The row and the first transition that create() writes; it may come assigned.
Created(t, p) ==
    [status |-> FirstStatus[t], resolved |-> FALSE, assignee |-> p, version |-> 1,
     text |-> NoSession,
     last |-> [kind |-> KindOf(ReporterOf[t]), who |-> ReporterOf[t], step |-> FALSE]]

FirstMove(t, p) ==
    [from |-> "none", to |-> FirstStatus[t], version |-> 1,
     by |-> ReporterOf[t], assignee |-> p]

Init ==
    \E owner \in [Tickets -> People \cup {Nobody}] :
    /\ tickets = [t \in Tickets |-> Created(t, owner[t])]
    /\ history = [t \in Tickets |-> <<FirstMove(t, owner[t])>>]
    /\ inbox = [t \in Tickets |-> [p \in People |-> << >>]]
    /\ remarks = [t \in Tickets |-> 0]
    /\ pc = [s \in Sessions |-> "idle"]
    /\ req = [s \in Sessions |-> NoRequest]
    /\ base = [s \in Sessions |-> 0]
    /\ mode = [s \in Sessions |-> "none"]
    /\ view = [s \in Sessions |-> NoView]
    /\ todo = [s \in Sessions |-> {}]
    /\ found = [s \in Sessions |-> NoOneFound]
    /\ drafts = [s \in Sessions |-> {}]
    /\ faults = 0

-----------------------------------------------------------------------------
(* Locks and requests.                                                     *)

\* PostgreSQL row locks: "share" is FOR KEY SHARE, taken by the foreign-key
\* check of a comment, "update" the lock of an UPDATE, "exclusive" FOR UPDATE.
Conflict(m, n) ==
    /\ m # "none" /\ n # "none"
    /\ "exclusive" \in {m, n} \/ (m = "update" /\ n = "update")

\* The lock under which an operation loads the row (and two that forget one).
LoadEditUnlocked(op) == IF op \in {"assign", "move"} THEN "exclusive" ELSE "none"
LoadMoveUnlocked(op) == IF op \in {"edit", "assign"} THEN "exclusive" ELSE "none"
LoadMode(op) == IF op \in {"edit", "assign", "move"} THEN "exclusive" ELSE "none"

CanTake(s, m) ==
    \A o \in Sessions \ {s} :
        req[o] # NoRequest /\ req[o].ticket = req[s].ticket => ~Conflict(m, mode[o])

T(s) == req[s].ticket

\* _stamp_last_activity
StampOf(s) ==
    [kind |-> KindOf(req[s].actor), who |-> req[s].actor, step |-> req[s].stepped]

\* The request starts, with what its client knows.
Begin(s) ==
    /\ pc[s] = "idle"
    /\ \E q \in Requests :
        /\ tickets[q.ticket].version <= MaxVersion[q.op]
        /\ q.op = "comment" => remarks[q.ticket] < MaxRemarks
        /\ req' = [req EXCEPT ![s] = q]
        /\ base' = [base EXCEPT ![s] = tickets[q.ticket].version]
        /\ pc' = [pc EXCEPT ![s] = q.op]
    /\ UNCHANGED <<db, mode, view, todo, found, drafts, faults>>

\* The session ends: its locks go, and what it did not commit is forgotten.
Release(s) ==
    /\ pc' = [pc EXCEPT ![s] = "idle"]
    /\ req' = [req EXCEPT ![s] = NoRequest]
    /\ base' = [base EXCEPT ![s] = 0]
    /\ mode' = [mode EXCEPT ![s] = "none"]
    /\ view' = [view EXCEPT ![s] = NoView]
    /\ todo' = [todo EXCEPT ![s] = {}]
    /\ found' = [found EXCEPT ![s] = NoOneFound]
    /\ drafts' = [drafts EXCEPT ![s] = {}]

Refuse(s) == Release(s) /\ UNCHANGED <<db, faults>>

\* _load(for_update=True) returns and the service goes on with row r.
Loaded(s, r, next, recipients, notices) ==
    /\ CanTake(s, LoadMode(req[s].op))
    /\ mode' = [mode EXCEPT ![s] = LoadMode(req[s].op)]
    /\ view' = [view EXCEPT ![s] = r]
    /\ todo' = [todo EXCEPT ![s] = recipients]
    /\ drafts' = [drafts EXCEPT ![s] = notices]
    /\ pc' = [pc EXCEPT ![s] = next]
    /\ UNCHANGED <<db, req, base, found, faults>>

-----------------------------------------------------------------------------
(* update and assign: optimistic version under the row lock.               *)

VersionMatches(s) == tickets[T(s)].version = base[s]

Edited(s, r) == [r EXCEPT !.text = s, !.version = @ + 1, !.last = StampOf(s)]

Edit(s) ==
    /\ pc[s] = "edit" /\ VersionMatches(s)
    /\ Loaded(s, Edited(s, tickets[T(s)]), "commit", {}, {})

\* fanout_assigned: a new assignee other than the actor is told.
AssignNotices(s) ==
    IF req[s].assignee \in People \ {req[s].actor, tickets[T(s)].assignee}
    THEN {[kind |-> "assigned", to |-> req[s].assignee, row |-> 0]}
    ELSE {}

Assigned(s, r) ==
    [r EXCEPT !.assignee = req[s].assignee, !.version = @ + 1, !.last = StampOf(s)]

Assign(s) ==
    /\ pc[s] = "assign" /\ VersionMatches(s)
    /\ Loaded(s, Assigned(s, tickets[T(s)]), "commit", {}, AssignNotices(s))

\* OptimisticConcurrencyError
StaleVersion(s) ==
    /\ pc[s] \in {"edit", "assign"} /\ CanTake(s, "exclusive") /\ ~VersionMatches(s)
    /\ Refuse(s)

-----------------------------------------------------------------------------
(* claim: UPDATE ... WHERE assignee_id IS NULL.                            *)

\* The row the UPDATE meets once it has the lock.
ClaimableAnyway(s) == TRUE
Claimable(s) == tickets[T(s)].assignee = Nobody

Claimed(s, r) ==
    [r EXCEPT !.assignee = req[s].actor, !.version = @ + 1, !.last = StampOf(s)]

Claim(s) ==
    /\ pc[s] = "claim" /\ Claimable(s) /\ CanTake(s, "update")
    /\ mode' = [mode EXCEPT ![s] = "update"]
    /\ view' = [view EXCEPT ![s] = Claimed(s, tickets[T(s)])]
    /\ pc' = [pc EXCEPT ![s] = "commit"]
    /\ UNCHANGED <<db, req, base, todo, found, drafts, faults>>

\* AlreadyClaimedError: a row that does not match is not waited for.
AlreadyClaimed(s) == pc[s] = "claim" /\ ~Claimable(s) /\ Refuse(s)

-----------------------------------------------------------------------------
(* transition and its fan-outs.                                            *)

RecipientsWithActor(s, r) == ({r.assignee} \cap People) \cup WatchersOf[T(s)]
Recipients(s, r) == (({r.assignee} \cap People) \cup WatchersOf[T(s)]) \ {req[s].actor}

Legal(s) == req[s].to \in Register!Allowed(tickets[T(s)].status)

Moved(s, r) ==
    [r EXCEPT !.status = req[s].to, !.version = @ + 1, !.last = StampOf(s),
              !.resolved = @ \/ req[s].to \in Terminal]

Transition(s) ==
    /\ pc[s] = "move" /\ Legal(s)
    /\ Loaded(s, Moved(s, tickets[T(s)]), "find", Recipients(s, tickets[T(s)]), {})

\* InvalidTransitionError
IllegalTransition(s) ==
    /\ pc[s] = "move" /\ ~Legal(s)
    /\ CanTake(s, "exclusive")
    /\ Refuse(s)

\* Rows that a new change of status would be appended to.
Live(t, p) ==
    {i \in DOMAIN inbox[t][p] :
        /\ inbox[t][p][i].kind = "state_change"
        /\ inbox[t][p][i].fresh /\ ~inbox[t][p][i].read}

Newest(S) == CHOOSE i \in S \cup {0} : \A j \in S : j <= i

\* The SELECT of _coalesce_or_insert_state_change.
FindNotice(s) ==
    /\ pc[s] = "find"
    /\ \E p \in todo[s] :
        /\ todo' = [todo EXCEPT ![s] = @ \ {p}]
        /\ found' = [found EXCEPT ![s] =
               [who |-> p, row |-> IF Window THEN Newest(Live(T(s), p)) ELSE 0]]
    /\ pc' = [pc EXCEPT ![s] = "write"]
    /\ UNCHANGED <<db, req, base, mode, view, drafts, faults>>

\* Its UPDATE by id, or its INSERT.
WriteNotice(s) ==
    /\ pc[s] = "write"
    /\ drafts' = [drafts EXCEPT ![s] = @ \cup
           {[kind |-> "state_change", to |-> found[s].who, row |-> found[s].row]}]
    /\ found' = [found EXCEPT ![s] = NoOneFound]
    /\ pc' = [pc EXCEPT ![s] = "find"]
    /\ UNCHANGED <<db, req, base, mode, view, todo, faults>>

\* The INSERT runs in a savepoint whose failure is swallowed.
NoticeLost(s) ==
    /\ pc[s] = "write" /\ found[s].row = 0
    /\ faults < MaxFaults /\ faults' = faults + 1
    /\ found' = [found EXCEPT ![s] = NoOneFound]
    /\ pc' = [pc EXCEPT ![s] = "find"]
    /\ UNCHANGED <<db, req, base, mode, view, todo, drafts>>

\* fanout_blocked, fanout_resolved and fanout_cancelled: inserts only, each in
\* a savepoint of its own.  The reporter is told of an end too.
OutcomeUnnamed(to) == to
OutcomeKind(to) ==
    CASE to = "blocked" -> "blocked" [] to = "done" -> "resolved"
      [] to = "cancelled" -> "cancelled" [] OTHER -> "state_change"

OutcomeNotices(s) ==
    LET to == req[s].to
        extra == IF to \in Terminal THEN {ReporterOf[T(s)]} \ {req[s].actor} ELSE {}
    IN  IF to \in Terminal \cup {"blocked"}
        THEN [kind : {OutcomeKind(to)}, to : Recipients(s, view[s]) \cup extra, row : {0}]
        ELSE {}

FanOutDone(s) ==
    /\ pc[s] = "find" /\ todo[s] = {}
    /\ \E lost \in SUBSET OutcomeNotices(s) :
        /\ faults + Cardinality(lost) <= MaxFaults
        /\ faults' = faults + Cardinality(lost)
        /\ drafts' = [drafts EXCEPT ![s] = @ \cup (OutcomeNotices(s) \ lost)]
    /\ pc' = [pc EXCEPT ![s] = "commit"]
    /\ UNCHANGED <<db, req, base, mode, view, todo, found>>

-----------------------------------------------------------------------------
(* add_comment: the row is read without a lock and stamped after the       *)
(* comment is in.  (link stamps its source ticket in the same way.)        *)

LoadForComment(s) ==
    /\ pc[s] = "comment"
    /\ view' = [view EXCEPT ![s] = tickets[T(s)]]
    /\ pc' = [pc EXCEPT ![s] = "insert"]
    /\ UNCHANGED <<db, req, base, mode, todo, found, drafts, faults>>

InsertComment(s) ==
    /\ pc[s] = "insert" /\ CanTake(s, "share")
    /\ mode' = [mode EXCEPT ![s] = "share"]
    /\ pc' = [pc EXCEPT ![s] = "stamp"]
    /\ UNCHANGED <<db, req, base, view, todo, found, drafts, faults>>

\* The UPDATE names the columns whose value differs from the one loaded; the
\* others keep what the row holds by then.
Merged(s) ==
    LET was == view[s].last
        new == StampOf(s)
        now == tickets[T(s)].last
    IN  [kind |-> IF new.kind = was.kind THEN now.kind ELSE new.kind,
         who  |-> IF new.who  = was.who  THEN now.who  ELSE new.who,
         step |-> IF new.step \/ was.step THEN new.step ELSE now.step]

Stamped(s, l) == [tickets[T(s)] EXCEPT !.last = l]

StampRow(s) ==
    /\ pc[s] = "stamp" /\ CanTake(s, "update") /\ CheckHolds(Merged(s))
    /\ mode' = [mode EXCEPT ![s] = "update"]
    /\ view' = [view EXCEPT ![s] = Stamped(s, Merged(s))]
    /\ pc' = [pc EXCEPT ![s] = "commit"]
    /\ UNCHANGED <<db, req, base, todo, found, drafts, faults>>

\* ck_tickets_last_agent_step_id
StampRejected(s) ==
    /\ pc[s] = "stamp" /\ CanTake(s, "update") /\ ~CheckHolds(Merged(s))
    /\ Refuse(s)

-----------------------------------------------------------------------------
(* The end of a request, and the reader.                                   *)

\* The inbox of p on t once the drafts of s are in.
Delivered(s, p) ==
    LET box == inbox[T(s)][p]
        v == IF req[s].op = "move" THEN {view[s].version} ELSE {}
        Mine(k) == {d \in drafts[s] : d.to = p /\ d.kind = k}
        extended == [i \in DOMAIN box |->
            IF \E d \in Mine("state_change") : d.row = i
            THEN [box[i] EXCEPT !.covers = @ \cup v, !.fresh = TRUE] ELSE box[i]]
        new(k) == IF \E d \in Mine(k) : d.row = 0
                  THEN <<[kind |-> k, covers |-> v, read |-> FALSE,
                         fresh |-> k = "state_change"]>>
                  ELSE << >>
    IN  extended \o new("state_change") \o new("blocked") \o new("resolved")
            \o new("cancelled") \o new("assigned")

Recorded(s) ==
    IF req[s].op = "move"
    THEN <<[from |-> tickets[T(s)].status, to |-> view[s].status, version |-> view[s].version,
            by |-> req[s].actor, assignee |-> view[s].assignee]>>
    ELSE << >>

Commit(s) ==
    /\ pc[s] = "commit"
    /\ tickets' = [tickets EXCEPT ![T(s)] = view[s]]
    /\ history' = [history EXCEPT ![T(s)] = @ \o Recorded(s)]
    /\ inbox' = [inbox EXCEPT ![T(s)] = [p \in People |-> Delivered(s, p)]]
    /\ remarks' = [remarks EXCEPT ![T(s)] = IF req[s].op = "comment" THEN @ + 1 ELSE @]
    /\ Release(s)
    /\ UNCHANGED faults

\* A statement fails, or the connection is lost: the transaction is rolled back.
StatementFails(s) ==
    /\ pc[s] # "idle"
    /\ faults < MaxFaults /\ faults' = faults + 1
    /\ Release(s)
    /\ UNCHANGED db

\* A notice somebody is extending is locked until that transaction ends.
Held(t, p, i) ==
    \E s \in Sessions : \E d \in drafts[s] :
        T(s) = t /\ d.to = p /\ d.kind = "state_change" /\ d.row = i

Unread(t, p) == {i \in DOMAIN inbox[t][p] : ~inbox[t][p][i].read}

MarkRead(t, p) ==
    /\ \E i \in Unread(t, p) :
        /\ ~Held(t, p, i)
        /\ inbox' = [inbox EXCEPT ![t][p][i].read = TRUE]
    /\ UNCHANGED <<tickets, history, remarks, local, faults>>

\* One UPDATE over the rows of all tickets.
MarkAllRead(p) ==
    /\ \A t \in Tickets : \A i \in Unread(t, p) : ~Held(t, p, i)
    /\ inbox' = [t \in Tickets |-> [inbox[t] EXCEPT ![p] =
           [i \in DOMAIN @ |-> [@[i] EXCEPT !.read = TRUE]]]]
    /\ UNCHANGED <<tickets, history, remarks, local, faults>>

\* The coalescing window of a notice passes (once it is read, that is the same).
Age(t, p) ==
    /\ \E i \in Live(t, p) :
        inbox' = [inbox EXCEPT ![t][p][i].fresh = FALSE]
    /\ UNCHANGED <<tickets, history, remarks, local, faults>>

Update(s) == Edit(s) \/ Assign(s) \/ StaleVersion(s)
ClaimTicket(s) == Claim(s) \/ AlreadyClaimed(s)
TransitionTicket(s) ==
    \/ Transition(s) \/ IllegalTransition(s) \/ FindNotice(s) \/ WriteNotice(s)
    \/ NoticeLost(s) \/ FanOutDone(s)
AddComment(s) ==
    LoadForComment(s) \/ InsertComment(s) \/ StampRow(s) \/ StampRejected(s)

Next ==
    \/ \E s \in Sessions :
        \/ Begin(s) \/ Update(s) \/ ClaimTicket(s) \/ TransitionTicket(s)
        \/ AddComment(s) \/ Commit(s) \/ StatementFails(s)
    \/ \E t \in Tickets, p \in People : MarkRead(t, p) \/ Age(t, p)
    \/ \E p \in People : MarkAllRead(p)

Spec == Init /\ [][Next]_vars

-----------------------------------------------------------------------------
(* Properties.                                                             *)

\* The row and its transitions agree: the history starts at creation, every
\* entry starts where the one before ended and is a legal move, the newest one
\* ends at the row's status, and resolved_at is set iff one was an end.
HistoryUnbroken ==
    \A t \in Tickets :
        LET h == history[t]
        IN  /\ h # << >> /\ h[1].from = "none"
            /\ \A i \in 2..Len(h) : /\ h[i].from = h[i - 1].to
                                   /\ h[i].to \in Register!Allowed(h[i].from)
                                   /\ h[i - 1].version < h[i].version
            /\ h[Len(h)].to = tickets[t].status
            /\ h[Len(h)].version <= tickets[t].version
            /\ tickets[t].resolved <=> \E i \in DOMAIN h : h[i].to \in Terminal

\* Nobody's text and nobody's assignment is replaced by a request whose client
\* had not seen it: only an edit or an assignment replaces them, and only from
\* the version that its client read (the promise of expected_version).
ReplacedKnowingly ==
    [][\A t \in Tickets :
        \/ tickets'[t].text # tickets[t].text
        \/ tickets[t].assignee # Nobody /\ tickets'[t].assignee # tickets[t].assignee
        => \E s \in Sessions : /\ pc[s] = "commit" /\ req[s].ticket = t
                               /\ base[s] = tickets[t].version]_vars

\* However transactions interleave, a ticket row is the versioned register of
\* TicketRegister: no write is lost or applied to a row it did not see.
RegisterSpec == Register!Spec

\* A recipient has one notice about a ticket that grows, never two, although
\* _coalesce_or_insert_state_change looks before it inserts.
OneLiveNotice ==
    Window => \A t \in Tickets, p \in People : Cardinality(Live(t, p)) <= 1

Covering(t, p, v) ==
    {i \in DOMAIN inbox[t][p] :
        inbox[t][p][i].kind = "state_change" /\ v \in inbox[t][p][i].covers}

\* Each change of status is told to the assignee and the watchers of that time
\* other than its actor, in one notice each, and to nobody else; a failed
\* insert may lose a notice but never doubles it.
ToldOnce ==
    \A t \in Tickets, p \in People : \A i \in 2..Len(history[t]) :
        LET m == history[t][i]
            n == Cardinality(Covering(t, p, m.version))
        IN  IF p # m.by /\ p \in WatchersOf[t] \cup {m.assignee}
            THEN n <= 1 /\ (faults = 0 => n = 1)
            ELSE n = 0

\* The inbox and the history say the same: both of the above, while two
\* transitions, a reader and a failing insert race.
InboxFitsHistory == OneLiveNotice /\ ToldOnce

\* Locks exclude each other.
LocksCompatible ==
    \A s, o \in Sessions :
        s # o /\ req[s] # NoRequest /\ req[o] # NoRequest /\ T(s) = T(o)
            => ~Conflict(mode[s], mode[o])
=============================================================================
