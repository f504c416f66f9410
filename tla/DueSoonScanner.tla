-------------------------- MODULE DueSoonScanner --------------------------
(***************************************************************************)
(* The due-soon scanner: every process runs run_loop, which takes the      *)
(* advisory lock, writes one ticket_due_soon notice per (ticket,           *)
(* recipient) that has none in the last 24 hours, gives the lock back and  *)
(* then commits.  Time is counted in hours or any coarser unit; the loop's *)
(* sleep is the freedom not to wake.                                       *)
(***************************************************************************)
EXTENDS AdvisoryLock, FiniteSets

CONSTANTS
    Reminders,   \* (ticket, recipient) pairs: assignee, reporter, watchers
    Lookahead,   \* DUE_SOON_LOOKAHEAD_HOURS
    Window,      \* _DEDUP_HOURS
    MaxTime,     \* bound on the clock
    MaxFaults    \* bound on failures

ASSUME ScannerAssumption ==
    Lookahead \in Nat /\ Window \in Nat /\ MaxTime \in Nat /\ MaxFaults \in Nat

VARIABLES
    clock,
    due,         \* when the ticket of a reminder is due; 0 where it is not or is closed
    notices,     \* committed ticket_due_soon rows
    pc,          \* where a process's pass stands
    now,         \* the time its pass began
    todo,        \* reminders it has yet to examine
    out,         \* reminders whose notice it inserted in its transaction
    faults

pass == <<now, todo, out>>
vars == <<lockVars, clock, due, notices, pc, pass, faults>>

Notice == [of : Reminders, at : 0..MaxTime, by : Processes]
PCs == {"asleep", "load", "scan", "unlock", "commit", "raised", "broken", "close"}

\* Between a granted lock and its release.
Scanning(p) == pc[p] \in {"load", "scan", "unlock", "raised"}

ScannerTypeOK ==
    /\ LockTypeOK
    /\ clock \in 0..MaxTime
    /\ due \in [Reminders -> 0..MaxTime + Lookahead]
    /\ notices \in SUBSET Notice
    /\ pc \in [Processes -> PCs]
    /\ now \in [Processes -> 0..MaxTime]
    /\ todo \in [Processes -> SUBSET Reminders]
    /\ out \in [Processes -> SUBSET Reminders]
    /\ faults \in 0..MaxFaults

Init ==
    /\ LockInit
    /\ clock = 0
    /\ due \in [Reminders -> 0..Lookahead]
    /\ notices = {}
    /\ pc = [p \in Processes |-> "asleep"]
    /\ now = [p \in Processes |-> 0]
    /\ todo = [p \in Processes |-> {}]
    /\ out = [p \in Processes |-> {}]
    /\ faults = 0

-----------------------------------------------------------------------------
Goto(p, l) == pc' = [pc EXCEPT ![p] = l]

\* A new session tries the lock; the pass's now is read when it is granted.
Acquire(p, c) ==
    /\ pc[p] = "asleep" /\ Usable(p, c) /\ Grants(c)
    /\ conn' = [conn EXCEPT ![p] = c]
    /\ LockOn(c)
    /\ now' = [now EXCEPT ![p] = clock]
    /\ Goto(p, "load")
    /\ UNCHANGED <<clock, due, notices, todo, out, faults>>

\* Another process is scanning: nothing is done.
Contended(p, c) ==
    /\ pc[p] = "asleep" /\ Usable(p, c) /\ ~Grants(c)
    /\ conn' = [conn EXCEPT ![p] = c]
    /\ Goto(p, "commit")
    /\ UNCHANGED <<depth, clock, due, notices, pass, faults>>

DueSoon(p) == {r \in Reminders : now[p] < due[r] /\ due[r] < now[p] + Lookahead}

LoadTickets(p) ==
    /\ pc[p] = "load"
    /\ todo' = [todo EXCEPT ![p] = DueSoon(p)]
    /\ Goto(p, "scan")
    /\ UNCHANGED <<lockVars, clock, due, notices, now, out, faults>>

\* The rows the existence check of p finds: committed, at most Window old.
RecentStrictly(p, r) == {n \in notices : n.of = r /\ n.at + Window > now[p]}
Recent(p, r) == {n \in notices : n.of = r /\ n.at + Window >= now[p]}

Remind(p, r) ==
    /\ pc[p] = "scan" /\ r \in todo[p] /\ Recent(p, r) = {}
    /\ out' = [out EXCEPT ![p] = @ \cup {r}]
    /\ todo' = [todo EXCEPT ![p] = @ \ {r}]
    /\ UNCHANGED <<lockVars, clock, due, notices, pc, now, faults>>

AlreadyReminded(p, r) ==
    /\ pc[p] = "scan" /\ r \in todo[p] /\ Cardinality(Recent(p, r)) = 1
    /\ todo' = [todo EXCEPT ![p] = @ \ {r}]
    /\ UNCHANGED <<lockVars, clock, due, notices, pc, now, out, faults>>

\* scalar_one_or_none raises MultipleResultsFound: the pass ends in an exception,
\* with its transaction still usable.
FoundTwo(p, r) ==
    /\ pc[p] = "scan" /\ r \in todo[p] /\ Cardinality(Recent(p, r)) > 1
    /\ Goto(p, "raised")
    /\ UNCHANGED <<lockVars, clock, due, notices, pass, faults>>

\* The insert fails inside its savepoint: this reminder is skipped.
InsertFails(p, r) ==
    /\ pc[p] = "scan" /\ r \in todo[p] /\ Recent(p, r) = {} /\ faults < MaxFaults
    /\ todo' = [todo EXCEPT ![p] = @ \ {r}]
    /\ faults' = faults + 1
    /\ UNCHANGED <<lockVars, clock, due, notices, pc, now, out>>

\* A SELECT fails: the transaction is in error, and so is the unlock that follows;
\* it is logged and the lock stays with the connection.
StatementFails(p) ==
    /\ pc[p] \in {"load", "scan"} /\ faults < MaxFaults
    /\ faults' = faults + 1
    /\ Goto(p, "broken")
    /\ UNCHANGED <<lockVars, clock, due, notices, pass>>

ScanDone(p) ==
    /\ pc[p] = "scan" /\ todo[p] = {}
    /\ Goto(p, "unlock")
    /\ UNCHANGED <<lockVars, clock, due, notices, pass, faults>>

Unlock(p) ==
    /\ pc[p] \in {"unlock", "raised"}
    /\ UnlockOn(conn[p])
    /\ Goto(p, IF pc[p] = "raised" THEN "close" ELSE "commit")
    /\ UNCHANGED <<conn, clock, due, notices, pass, faults>>

\* run_loop commits after scan_once has returned, and the session closes.
WrittenAtDueDate(p) == {[of |-> r, at |-> due[r], by |-> p] : r \in out[p]}
Written(p) == {[of |-> r, at |-> now[p], by |-> p] : r \in out[p]}

EndPass(p) ==
    /\ Returned(p, conn[p])
    /\ now' = [now EXCEPT ![p] = 0]
    /\ todo' = [todo EXCEPT ![p] = {}]
    /\ out' = [out EXCEPT ![p] = {}]
    /\ Goto(p, "asleep")

Commit(p) ==
    /\ pc[p] = "commit"
    /\ notices' = notices \cup Written(p)
    /\ EndPass(p)
    /\ UNCHANGED <<clock, due, faults>>

\* The exception leaves the session, which rolls back; run_loop logs it.
Close(p) ==
    /\ pc[p] \in {"broken", "close"}
    /\ EndPass(p)
    /\ UNCHANGED <<clock, due, notices, faults>>

\* The process dies and is started again.
Restart(p) ==
    /\ faults < MaxFaults
    /\ faults' = faults + 1
    /\ Disconnected(p)
    /\ now' = [now EXCEPT ![p] = 0]
    /\ todo' = [todo EXCEPT ![p] = {}]
    /\ out' = [out EXCEPT ![p] = {}]
    /\ Goto(p, "asleep")
    /\ UNCHANGED <<clock, due, notices>>

-----------------------------------------------------------------------------
Tick ==
    /\ clock < MaxTime
    /\ clock' = clock + 1
    /\ UNCHANGED <<lockVars, due, notices, pc, pass, faults>>

\* A user sets the due date, or closes the ticket.
Reschedule(r) ==
    /\ due' \in {[due EXCEPT ![r] = d] : d \in {0} \cup clock + 1..clock + Lookahead}
    /\ UNCHANGED <<lockVars, clock, notices, pc, pass, faults>>

ScanOnce(p) ==
    \/ \E c \in Conns : Acquire(p, c) \/ Contended(p, c)
    \/ LoadTickets(p) \/ ScanDone(p) \/ Unlock(p) \/ Commit(p) \/ Close(p)
    \/ \E r \in Reminders :
         Remind(p, r) \/ AlreadyReminded(p, r) \/ FoundTwo(p, r) \/ InsertFails(p, r)

Next ==
    \/ \E p \in Processes : ScanOnce(p) \/ StatementFails(p) \/ Restart(p)
    \/ \E r \in Reminders : Reschedule(r)
    \/ Tick

Spec == Init /\ [][Next]_vars

-----------------------------------------------------------------------------
\* The advisory lock of scan_once: two processes never scan at the same time,
\* whatever fails and whichever connections the sessions get.
ScanExclusive == \A p, q \in Processes : Scanning(p) /\ Scanning(q) => p = q

\* The existence check of _scan_body: notices that one process wrote for the same
\* reminder are more than Window apart, over failures, restarts and re-scheduling.
OwnRemindersSpaced ==
    \A m, n \in notices :
        m.of = n.of /\ m.by = n.by /\ m # n => m.at + Window < n.at \/ n.at + Window < m.at

=============================================================================
