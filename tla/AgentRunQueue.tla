--------------------------- MODULE AgentRunQueue ---------------------------
(***************************************************************************)
(* The agent-run queue: rows of table agent_run, enqueued by ticket        *)
(* assignment and by @agent mentions, and claimed by process_one under     *)
(* SELECT ... FOR UPDATE SKIP LOCKED.  A session is one database           *)
(* transaction: what it writes is visible to itself at once and to the     *)
(* others when it commits (READ COMMITTED), and the rows it wrote or       *)
(* locked stay locked until it ends.                                       *)
(*                                                                         *)
(* A key stands for an idempotency key, the digest of (agent, ticket,      *)
(* prompt); the UNIQUE constraint makes it the identity of a row.          *)
(***************************************************************************)
EXTENDS Naturals

CONSTANTS
    Keys,        \* idempotency keys
    Tickets,     \* tickets that exist at the start
    TicketOf,    \* the ticket a key names
    Sessions,    \* database sessions, each running one transaction at a time
    Pollers,     \* sessions an operator keeps using for process-next
    Modes,       \* the callers each session may be, subsets of AllModes
    NoKey,       \* "no row is being handled"
    MaxFaults    \* bound on failed statements

AllModes == {"writer", "worker", "drain", "drop"}

ASSUME QueueAssumption ==
    /\ TicketOf \in [Keys -> Tickets]
    /\ NoKey \notin Keys
    /\ Pollers \subseteq Sessions
    /\ Modes \in [Sessions -> SUBSET AllModes]
    /\ MaxFaults \in Nat

Statuses == {"none", "pending", "running", "done", "error"}

\* What a successful run leaves behind: the response comment, the notice to the
\* agent's owner, the notice that somebody else invoked the agent, the lesson.
Effects == {"comment", "responded", "invoked", "lesson"}

\* failed: row.error is set.  byOther: the comment that asked for the run was
\* written by somebody other than the agent's owner.
Row == [status : Statuses, failed : BOOLEAN, byOther : BOOLEAN]
NoRow == [status |-> "none", failed |-> FALSE, byOther |-> FALSE]

VARIABLES
    rows,        \* committed agent_run rows, NoRow where there is none
    ahead,       \* ahead[k]: the rows enqueued before k (enqueued_at, id)
    posted,      \* how many of each effect of each run were ever committed
    tickets,     \* committed tickets
    mode,        \* the caller a session is running
    pc,          \* where its transaction stands
    cur,         \* the row in its hands
    local,       \* its uncommitted versions of the rows it holds
    holds,       \* the rows it inserted, locked or deleted
    out,         \* its uncommitted effects
    drops,       \* tickets it is deleting
    scan,        \* candidates its claiming SELECT has yet to examine
    faults       \* failed statements so far

db == <<rows, posted, tickets>>
work == <<local, holds, out, drops>>
vars == <<db, ahead, mode, pc, cur, work, scan, faults>>

PCs == {"idle", "open", "insert", "scan", "provider", "comment", "notify",
        "lesson", "finish", "end", "cascade", "aborted"}
SideEffects == {"comment", "notify", "lesson"}

TypeOK ==
    /\ rows \in [Keys -> Row]
    /\ ahead \in [Keys -> SUBSET Keys]
    /\ posted \in [Keys -> [Effects -> Nat]]
    /\ tickets \in SUBSET Tickets
    /\ mode \in [Sessions -> AllModes]
    /\ pc \in [Sessions -> PCs]
    /\ cur \in [Sessions -> Keys \cup {NoKey}]
    /\ local \in [Sessions -> [Keys -> Row]]
    /\ holds \in [Sessions -> SUBSET Keys]
    /\ out \in [Sessions -> [Keys -> SUBSET Effects]]
    /\ drops \in [Sessions -> SUBSET Tickets]
    /\ scan \in [Sessions -> SUBSET Keys]
    /\ faults \in Nat

NoEffects == [k \in Keys |-> {}]
NoRows == [k \in Keys |-> NoRow]

Init ==
    /\ rows = NoRows
    /\ ahead = [k \in Keys |-> {}]
    /\ posted = [k \in Keys |-> [e \in Effects |-> 0]]
    /\ tickets = Tickets
    /\ mode = [s \in Sessions |-> "worker"]
    /\ pc = [s \in Sessions |-> "idle"]
    /\ cur = [s \in Sessions |-> NoKey]
    /\ local = [s \in Sessions |-> NoRows]
    /\ holds = [s \in Sessions |-> {}]
    /\ out = [s \in Sessions |-> NoEffects]
    /\ drops = [s \in Sessions |-> {}]
    /\ scan = [s \in Sessions |-> {}]
    /\ faults = 0

-----------------------------------------------------------------------------
(* What a session sees, and what makes it wait.                            *)

Visible(s, k) == IF k \in holds[s] THEN local[s][k] ELSE rows[k]

HeldByOther(s, k) == \E t \in Sessions \ {s} : k \in holds[t]
DroppedByOther(s, tk) == \E t \in Sessions \ {s} : tk \in drops[t]

\* The foreign-key checks of an inserted run or comment lock the ticket row
\* FOR KEY SHARE until the transaction ends.
Shares(t, tk) ==
    \E k \in holds[t] : /\ TicketOf[k] = tk
                        /\ rows[k].status = "none" \/ "comment" \in out[t][k]

RowsOf(tks) == {k \in Keys : TicketOf[k] \in tks}
Existing == {k \in Keys : rows[k].status # "none" \/ \E t \in Sessions : k \in holds[t]}

\* t has to end before the pending statement of s can run.
WaitsFor(s, t) ==
    /\ s # t
    /\ \/ pc[s] = "insert" /\ (cur[s] \in holds[t] \/ TicketOf[cur[s]] \in drops[t])
       \/ pc[s] = "comment" /\ TicketOf[cur[s]] \in drops[t]
       \/ pc[s] = "cascade" /\ \E k \in RowsOf(drops[s]) : k \in holds[t]

\* s belongs to a set of sessions that all wait for one another.
Deadlocked(s) ==
    \E C \in SUBSET Sessions :
        s \in C /\ \A t \in C : \E u, w \in C : WaitsFor(t, u) /\ WaitsFor(w, t)

-----------------------------------------------------------------------------
\* A request, or a pass of the demo drain script, opens its transaction.
Begin(s, m) ==
    /\ pc[s] = "idle"
    /\ mode' = [mode EXCEPT ![s] = m]
    /\ pc' = [pc EXCEPT ![s] = "open"]
    /\ UNCHANGED <<db, ahead, cur, work, scan, faults>>

-----------------------------------------------------------------------------
(* enqueue                                                                 *)

\* SELECT by idempotency key.  A visible row, whatever its status, ends the call
\* with its id and no change; otherwise the INSERT follows.  The drain script
\* enqueues before it starts processing.
EnqueueLookup(s, k) ==
    /\ pc[s] = "open" /\ mode[s] \in {"writer", "drain"}
    /\ \A j \in holds[s] : local[s][j].status = "pending"
    /\ Visible(s, k).status = "none"
    /\ cur' = [cur EXCEPT ![s] = k]
    /\ pc' = [pc EXCEPT ![s] = "insert"]
    /\ UNCHANGED <<db, ahead, mode, work, scan, faults>>

\* The UNIQUE constraint on idempotency_key.
KeyUnchecked(k) == FALSE
KeyTaken(k) == rows[k].status # "none"

\* The INSERT waits for an uncommitted row with the same key and for a pending
\* deletion of the ticket; then the UNIQUE key and the ticket are checked.
InsertMayRun(s, k) == ~HeldByOther(s, k) /\ ~DroppedByOther(s, TicketOf[k])

EnqueueInsert(s) ==
    LET k == cur[s] IN
    /\ pc[s] = "insert" /\ InsertMayRun(s, k)
    /\ ~KeyTaken(k) /\ TicketOf[k] \in tickets
    /\ \E o \in BOOLEAN :
         local' = [local EXCEPT ![s][k] =
                     [status |-> "pending", failed |-> FALSE, byOther |-> o]]
    /\ holds' = [holds EXCEPT ![s] = @ \cup {k}]
    /\ ahead' = [ahead EXCEPT ![k] = Existing \ {k}]
    /\ cur' = [cur EXCEPT ![s] = NoKey]
    /\ pc' = [pc EXCEPT ![s] = "open"]
    /\ UNCHANGED <<db, mode, out, drops, scan, faults>>

\* IntegrityError: another transaction committed the key after the lookup, or
\* the ticket is gone.  The exception leaves the request.
EnqueueRejected(s) ==
    LET k == cur[s] IN
    /\ pc[s] = "insert" /\ InsertMayRun(s, k)
    /\ KeyTaken(k) \/ TicketOf[k] \notin tickets
    /\ pc' = [pc EXCEPT ![s] = "aborted"]
    /\ UNCHANGED <<db, ahead, mode, cur, work, scan, faults>>

-----------------------------------------------------------------------------
(* process_one                                                             *)

\* The SELECT takes its snapshot: the pending rows visible to s.
ProcessScan(s) ==
    /\ pc[s] = "open" /\ mode[s] \in {"worker", "drain"}
    /\ scan' = [scan EXCEPT ![s] = {k \in Keys : Visible(s, k).status = "pending"}]
    /\ pc' = [pc EXCEPT ![s] = "scan"]
    /\ UNCHANGED <<db, ahead, mode, cur, work, faults>>

\* The oldest candidate left, ORDER BY enqueued_at, id.
Oldest(s, k) == k \in scan[s] /\ ahead[k] \cap scan[s] = {}

\* SKIP LOCKED, and the re-check of status = 'pending' on the row's current
\* version once its lock is free.
ClaimableStale(s, k) == ~HeldByOther(s, k) /\ rows[k].status # "none"
Claimable(s, k) == ~HeldByOther(s, k) /\ Visible(s, k).status = "pending"

ScanSkip(s, k) ==
    /\ pc[s] = "scan" /\ Oldest(s, k) /\ ~Claimable(s, k)
    /\ scan' = [scan EXCEPT ![s] = @ \ {k}]
    /\ UNCHANGED <<db, ahead, mode, pc, cur, work, faults>>

\* The row is locked, marked running, and flushed.
Claim(s, k) ==
    /\ pc[s] = "scan" /\ Oldest(s, k) /\ Claimable(s, k)
    /\ holds' = [holds EXCEPT ![s] = @ \cup {k}]
    /\ local' = [local EXCEPT ![s][k] = [Visible(s, k) EXCEPT !.status = "running"]]
    /\ cur' = [cur EXCEPT ![s] = k]
    /\ scan' = [scan EXCEPT ![s] = {}]
    /\ pc' = [pc EXCEPT ![s] = "provider"]
    /\ UNCHANGED <<db, ahead, mode, out, drops, faults>>

\* No candidate left: process_one returns None.
ScanEmpty(s) ==
    /\ pc[s] = "scan" /\ scan[s] = {}
    /\ pc' = [pc EXCEPT ![s] = "end"]
    /\ UNCHANGED <<db, ahead, mode, cur, work, scan, faults>>

\* The provider answers ok; the row is done before any side effect is tried.
RowDone(r) == [r EXCEPT !.status = "done"]

ProviderOk(s) ==
    /\ pc[s] = "provider"
    /\ local' = [local EXCEPT ![s][cur[s]] = RowDone(@)]
    /\ pc' = [pc EXCEPT ![s] = "comment"]
    /\ UNCHANGED <<db, ahead, mode, cur, holds, out, drops, scan, faults>>

\* The provider raises or answers with an error.
RowMisspelt(r) == [r EXCEPT !.status = "failed", !.failed = TRUE]
RowLeftRunning(r) == [r EXCEPT !.failed = TRUE]
RowInError(r) == [r EXCEPT !.status = "error", !.failed = TRUE]

ProviderFails(s) ==
    /\ pc[s] = "provider"
    /\ local' = [local EXCEPT ![s][cur[s]] = RowInError(@)]
    /\ pc' = [pc EXCEPT ![s] = "finish"]
    /\ UNCHANGED <<db, ahead, mode, cur, holds, out, drops, scan, faults>>

\* The response comment; its foreign key waits for a pending ticket deletion.
PostComment(s) ==
    /\ pc[s] = "comment" /\ ~DroppedByOther(s, TicketOf[cur[s]])
    /\ out' = [out EXCEPT ![s][cur[s]] = @ \cup {"comment"}]
    /\ pc' = [pc EXCEPT ![s] = "notify"]
    /\ UNCHANGED <<db, ahead, mode, cur, local, holds, drops, scan, faults>>

\* The owner is told, and told again when somebody else's comment was the cause.
Notices(byOther) == {"responded"} \cup (IF byOther THEN {"invoked"} ELSE {})

NotifyOwner(s) ==
    /\ pc[s] = "notify"
    /\ out' = [out EXCEPT ![s][cur[s]] = @ \cup Notices(local[s][cur[s]].byOther)]
    /\ pc' = [pc EXCEPT ![s] = "lesson"]
    /\ UNCHANGED <<db, ahead, mode, cur, local, holds, drops, scan, faults>>

EmitLesson(s) ==
    /\ pc[s] = "lesson"
    /\ out' = [out EXCEPT ![s][cur[s]] = @ \cup {"lesson"}]
    /\ pc' = [pc EXCEPT ![s] = "finish"]
    /\ UNCHANGED <<db, ahead, mode, cur, local, holds, drops, scan, faults>>

\* A side effect raises in Python: what was written so far stays, row.error says so.
RowUnmarked(r) == r
RowSideEffectsFailed(r) == [r EXCEPT !.failed = TRUE]

SideEffectRaises(s) ==
    /\ pc[s] \in SideEffects /\ faults < MaxFaults
    /\ local' = [local EXCEPT ![s][cur[s]] = RowSideEffectsFailed(@)]
    /\ pc' = [pc EXCEPT ![s] = "finish"]
    /\ faults' = faults + 1
    /\ UNCHANGED <<db, ahead, mode, cur, holds, out, drops, scan>>

\* finished_at and the last flush; process-next returns, the drain loop goes on.
Finish(s) ==
    /\ pc[s] = "finish"
    /\ pc' = [pc EXCEPT ![s] = IF mode[s] = "drain" THEN "open" ELSE "end"]
    /\ cur' = [cur EXCEPT ![s] = NoKey]
    /\ UNCHANGED <<db, ahead, mode, work, scan, faults>>

-----------------------------------------------------------------------------
(* Deleting a ticket: its runs go with it (ON DELETE CASCADE).             *)

DropTicket(s, tk) ==
    /\ pc[s] = "open" /\ mode[s] = "drop" /\ tk \in tickets
    /\ ~DroppedByOther(s, tk)
    /\ \A t \in Sessions : ~Shares(t, tk)
    /\ drops' = [drops EXCEPT ![s] = {tk}]
    /\ pc' = [pc EXCEPT ![s] = "cascade"]
    /\ UNCHANGED <<db, ahead, mode, cur, local, holds, out, scan, faults>>

DropCascade(s) ==
    LET gone == {k \in RowsOf(drops[s]) : rows[k].status # "none"} IN
    /\ pc[s] = "cascade"
    /\ \A k \in gone : ~HeldByOther(s, k)
    /\ holds' = [holds EXCEPT ![s] = gone]
    /\ local' = [local EXCEPT ![s] = NoRows]
    /\ pc' = [pc EXCEPT ![s] = "end"]
    /\ UNCHANGED <<db, ahead, mode, cur, out, drops, scan, faults>>

-----------------------------------------------------------------------------
(* Ending a transaction.                                                   *)

\* The session's work is dropped and its locks are released; the rows in gone
\* leave the queue order.
Release(s, gone) ==
    /\ pc' = [pc EXCEPT ![s] = "idle"]
    /\ cur' = [cur EXCEPT ![s] = NoKey]
    /\ local' = [local EXCEPT ![s] = NoRows]
    /\ holds' = [holds EXCEPT ![s] = {}]
    /\ out' = [out EXCEPT ![s] = NoEffects]
    /\ drops' = [drops EXCEPT ![s] = {}]
    /\ scan' = [scan EXCEPT ![s] = {}]
    /\ ahead' = [k \in Keys |-> IF k \in gone THEN {} ELSE ahead[k] \ gone]

Inserted(s) == {k \in holds[s] : rows[k].status = "none"}

\* A lesson that exists already is skipped (ON CONFLICT DO NOTHING).
Delivered(n, e) == IF e = "lesson" /\ n > 0 THEN n ELSE n + 1

MayCommit(s) == pc[s] = "end" \/ (pc[s] = "open" /\ mode[s] \in {"writer", "drop"})

Commit(s) ==
    /\ MayCommit(s)
    /\ rows' = [k \in Keys |-> Visible(s, k)]
    /\ posted' = [k \in Keys |-> [e \in Effects |->
                    IF e \in out[s][k] THEN Delivered(posted[k][e], e) ELSE posted[k][e]]]
    /\ tickets' = tickets \ drops[s]
    /\ Release(s, {k \in holds[s] : local[s][k].status = "none"})
    /\ UNCHANGED <<mode, faults>>

\* A statement fails or the connection is lost.  Inside the side effects the
\* exception is caught and written to the row, but the transaction is already
\* in error, so the final flush raises as well.
Abort(s) ==
    /\ local' = IF pc[s] \in SideEffects
                THEN [local EXCEPT ![s][cur[s]] = RowSideEffectsFailed(@)]
                ELSE local
    /\ pc' = [pc EXCEPT ![s] = "aborted"]
    /\ UNCHANGED <<db, ahead, mode, cur, holds, out, drops, scan>>

StatementFails(s) ==
    /\ pc[s] \notin {"idle", "aborted"} /\ faults < MaxFaults
    /\ faults' = faults + 1
    /\ Abort(s)

\* PostgreSQL's deadlock detector fails the waiting statement of one session.
DeadlockVictim(s) == Deadlocked(s) /\ Abort(s) /\ UNCHANGED faults

\* get_db's except branch.
Rollback(s) ==
    /\ pc[s] = "aborted"
    /\ Release(s, Inserted(s))
    /\ UNCHANGED <<db, mode, faults>>

-----------------------------------------------------------------------------
Enqueue(s) == (\E k \in Keys : EnqueueLookup(s, k)) \/ EnqueueInsert(s) \/ EnqueueRejected(s)

ProcessOne(s) ==
    \/ ProcessScan(s) \/ ScanEmpty(s)
    \/ \E k \in Keys : ScanSkip(s, k) \/ Claim(s, k)
    \/ ProviderOk(s) \/ ProviderFails(s)
    \/ PostComment(s) \/ NotifyOwner(s) \/ EmitLesson(s)
    \/ Finish(s)

Drop(s) == (\E tk \in Tickets : DropTicket(s, tk)) \/ DropCascade(s)

Next ==
    \E s \in Sessions :
        \/ \E m \in Modes[s] : Begin(s, m)
        \/ Enqueue(s)
        \/ ProcessOne(s)
        \/ SideEffectRaises(s)
        \/ Drop(s)
        \/ Commit(s) \/ Rollback(s)
        \/ StatementFails(s) \/ DeadlockVictim(s)

Spec == Init /\ [][Next]_vars

\* Statements that may have to wait for a lock, and the steps a session takes by
\* itself once its transaction is open.
Waiting(s) == EnqueueInsert(s) \/ PostComment(s) \/ DropCascade(s)
Proceed(s) ==
    EnqueueRejected(s) \/ ProcessOne(s) \/ Commit(s) \/ Rollback(s) \/ DeadlockVictim(s)

\* A transaction that was opened runs to its end, PostgreSQL wakes the first
\* waiter of a lock and resolves deadlocks, and the pollers keep calling
\* process-next.  Nothing makes a client enqueue or delete.
FairSpec ==
    /\ Spec
    /\ \A s \in Sessions : WF_vars(Proceed(s)) /\ SF_vars(Waiting(s))
    /\ \A s \in Pollers : SF_vars(Begin(s, "worker"))

-----------------------------------------------------------------------------
(* Properties.                                                             *)

\* Two open transactions never hold the same row, and nobody deletes a ticket
\* that another transaction is adding a run or a comment to: FOR UPDATE SKIP
\* LOCKED, the UNIQUE key and the foreign keys of process_one and enqueue.
LocksExclusive ==
    \A s, t \in Sessions : s # t =>
        /\ holds[s] \cap holds[t] = {}
        /\ drops[s] \cap drops[t] = {}
        /\ \A tk \in drops[s] : ~Shares(t, tk)

\* "So that even multi-process callers don't double-dispatch" (process_one): over
\* the whole life of the queue a run posts at most one response comment, one
\* notice of each kind and one lesson.
AtMostOnce == \A k \in Keys, e \in Effects : posted[k][e] <= 1

\* A committed row tells the truth about its run: pending and error rows have
\* done nothing, a done row without row.error has done everything that was asked
\* for, and a done row with row.error stopped somewhere on the way.
Expected(byOther) == {"comment", "lesson"} \cup Notices(byOther)
Had(k) == {e \in Effects : posted[k][e] > 0}

RowsTellTheTruth ==
    \A k \in Keys :
        /\ rows[k].status \in {"pending", "error"} => Had(k) = {}
        /\ rows[k].status = "done" /\ ~rows[k].failed => Had(k) = Expected(rows[k].byOther)
        /\ rows[k].status = "done" /\ rows[k].failed =>
              Had(k) \subseteq Expected(rows[k].byOther) \ {"lesson"}

\* 'running' is flushed but never committed: another session, or a restarted
\* server, finds the row pending or decided, and no row is stuck in 'running'.
RunningIsPrivate == \A k \in Keys : rows[k].status # "running"

\* While process-next keeps being called and only MaxFaults statements fail, a
\* pending run is decided or deleted.
EveryRunIsDecided ==
    \A k \in Keys :
        rows[k].status = "pending" ~> rows[k].status \in {"none", "done", "error"}

\* The queue implements AgentDispatch: the committed rows are the runs.
Dispatch == INSTANCE AgentDispatch WITH
    state <- [k \in Keys |-> IF rows[k].status = "none" THEN "absent" ELSE rows[k].status],
    effects <- [k \in Keys |-> Had(k)],
    removed <- {k \in Keys : TicketOf[k] \notin tickets}

DispatchSpec == Dispatch!Spec
-----------------------------------------------------------------------------
(* The inductive invariant behind the safety properties.                   *)

\* What an open transaction may have in its hands, by the step it has reached.
SessionShape(s) ==
    /\ pc[s] = "idle" =>
         holds[s] = {} /\ drops[s] = {} /\ out[s] = NoEffects /\ local[s] = NoRows
    /\ pc[s] \in {"insert", "provider", "finish"} \cup SideEffects => cur[s] \in Keys
    /\ pc[s] = "insert" => cur[s] \notin holds[s]
    /\ pc[s] \in {"provider", "finish"} \cup SideEffects => cur[s] \in holds[s]
    /\ mode[s] = "drop" =>
         /\ pc[s] \in {"idle", "open", "cascade", "end", "aborted"}
         /\ local[s] = NoRows
         /\ holds[s] \subseteq RowsOf(drops[s])
         /\ pc[s] = "open" => drops[s] = {}
         /\ pc[s] = "end" => \A k \in RowsOf(drops[s]) :
                                rows[k].status # "none" => k \in holds[s]
    /\ mode[s] # "drop" => drops[s] = {} /\ pc[s] # "cascade"
    /\ \A k \in Keys : k \notin holds[s] \/ mode[s] = "drop" => out[s][k] = {}

\* A held row is new or was pending, and its uncommitted version and effects
\* agree with the step that the transaction has reached.
HeldRow(s, k) ==
    LET r == local[s][k]
        here == k = cur[s]
        whole == Expected(r.byOther)
    IN  /\ rows[k].status \in {"none", "pending"} /\ TicketOf[k] \in tickets
        /\ r.status # "none"
        /\ r.status = "running" => here /\ pc[s] \in {"provider", "aborted"}
        /\ r.status # "done" => out[s][k] = {}
        /\ r.status \in {"pending", "running"} => ~r.failed
        /\ here /\ pc[s] = "provider" => r.status = "running"
        /\ here /\ pc[s] \in SideEffects => r.status = "done" /\ ~r.failed
        /\ here /\ pc[s] = "comment" => out[s][k] = {}
        /\ here /\ pc[s] = "notify" => out[s][k] = {"comment"}
        /\ here /\ pc[s] = "lesson" => out[s][k] = whole \ {"lesson"}
        /\ r.status = "done" /\ r.failed => out[s][k] \subseteq whole \ {"lesson"}
        /\ r.status = "done" /\ ~r.failed =>
             out[s][k] = whole \/ (here /\ pc[s] \in SideEffects \cup {"aborted"})

\* A committed row and the effects that were ever committed for it.
SettledRow(k) ==
    /\ rows[k].status # "running"
    /\ rows[k].status # "none" => TicketOf[k] \in tickets
    /\ rows[k].status = "pending" => ~rows[k].failed
    /\ rows[k].status = "none" /\ TicketOf[k] \in tickets => Had(k) = {}

QueueInv ==
    /\ TypeOK
    /\ LocksExclusive
    /\ AtMostOnce
    /\ RowsTellTheTruth
    /\ \A k \in Keys : SettledRow(k)
    /\ \A s \in Sessions : SessionShape(s)
    /\ \A s \in Sessions : mode[s] # "drop" => \A k \in holds[s] : HeldRow(s, k)
=============================================================================
