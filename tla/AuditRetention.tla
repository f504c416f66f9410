-------------------------- MODULE AuditRetention --------------------------
(***************************************************************************)
(* Audit-log retention: prune_once deletes the rows of activity_audit_log  *)
(* that are past their cutoff, bucket by bucket, under an advisory lock.   *)
(* With the archiver on, archive_then_prune handles a bucket in batches,   *)
(* each a transaction of its own: lock some rows, append their lines to    *)
(* the bucket's file, delete them, commit.  With it off, all buckets are   *)
(* deleted in one transaction.  A pass that pruned something adds a        *)
(* summary row, which ages like the others and is not followed further.    *)
(***************************************************************************)
EXTENDS AdvisoryLock, FiniteSets, Sequences

CONSTANTS
    Entries,     \* audit rows
    Buckets,     \* the overridden events and the global rest
    BucketOf,    \* the bucket whose predicate selects an entry
    Retention,   \* the days a bucket's entries are kept
    Oldest,      \* bound on the ages
    PassOrder,   \* the order in which a pass takes the buckets
    BatchSize,   \* AUDIT_LOG_ARCHIVE_BATCH_SIZE
    MaxFaults    \* bound on failures

ASSUME RetentionAssumption ==
    /\ BucketOf \in [Entries -> Buckets]
    /\ Retention \in [Buckets -> Nat] /\ Oldest \in Nat
    /\ PassOrder \in Seq(Buckets)
    /\ BatchSize \in Nat \ {0} /\ MaxFaults \in Nat

VARIABLES
    table,       \* entries in the table, as committed
    age,         \* days since an entry was written
    lines,       \* whole lines of each entry that reached a file
    readable,    \* entries with a line that stands alone in its file
    torn,        \* files that end in the middle of a line
    archiving,   \* AUDIT_LOG_ARCHIVE_ENABLED with a directory
    pc,          \* where a process's pass stands
    todo,        \* buckets it has not finished, the one in hand first
    batch,       \* entries it holds FOR UPDATE or has deleted
    faults

files == <<lines, readable, torn>>
pass == <<todo, batch>>
vars == <<lockVars, table, age, files, archiving, pc, pass, faults>>

PCs == {"asleep", "buckets", "append", "delete", "committed", "raised", "close"}

RetentionTypeOK ==
    /\ LockTypeOK
    /\ table \in SUBSET Entries
    /\ age \in [Entries -> 0..Oldest]
    /\ lines \in [Entries -> Nat]
    /\ readable \in SUBSET Entries
    /\ torn \in SUBSET Buckets
    /\ archiving \in BOOLEAN
    /\ pc \in [Processes -> PCs]
    /\ todo \in [Processes -> Seq(Buckets)]
    /\ batch \in [Processes -> SUBSET Entries]
    /\ faults \in Nat

Init ==
    /\ LockInit
    /\ table = Entries
    /\ age = [e \in Entries |-> 0]
    /\ lines = [e \in Entries |-> 0]
    /\ readable = {}
    /\ torn = {}
    /\ archiving \in BOOLEAN
    /\ pc = [p \in Processes |-> "asleep"]
    /\ todo = [p \in Processes |-> <<>>]
    /\ batch = [p \in Processes |-> {}]
    /\ faults = 0

-----------------------------------------------------------------------------
Goto(p, l) == pc' = [pc EXCEPT ![p] = l]

Grow(e) ==
    /\ age[e] < Oldest
    /\ age' = [age EXCEPT ![e] = @ + 1]
    /\ UNCHANGED <<lockVars, table, files, archiving, pc, pass, faults>>

\* A new session tries the lock; where another process has it, the session closes.
StartPass(p, c) ==
    /\ pc[p] = "asleep" /\ Usable(p, c)
    /\ conn' = [conn EXCEPT ![p] = c]
    /\ IF Grants(c)
       THEN /\ LockOn(c)
            /\ todo' = [todo EXCEPT ![p] = PassOrder]
            /\ Goto(p, "buckets")
       ELSE Goto(p, "close") /\ UNCHANGED <<depth, todo>>
    /\ UNCHANGED <<table, age, files, archiving, batch, faults>>

LockedByOther(p, e) == \E q \in Processes \ {p} : e \in batch[q]

\* The rows a bucket's predicate selects now.
Due(b) == {e \in table : BucketOf[e] = b /\ age[e] > Retention[b]}

-----------------------------------------------------------------------------
(* The archiving path.                                                     *)

\* A session whose last statement committed runs the next one on a connection of
\* its choice.
Resume(p, c) == Usable(p, c) /\ conn' = [conn EXCEPT ![p] = c]

\* FOR UPDATE SKIP LOCKED LIMIT BatchSize.
BatchesUnlocked(p, b) ==
    {S \in SUBSET Due(b) : S # {} /\ Cardinality(S) <= BatchSize}
Batches(p, b) ==
    LET free == {e \in Due(b) : ~LockedByOther(p, e)}
    IN {S \in SUBSET free :
          /\ S # {} /\ Cardinality(S) <= BatchSize
          /\ Cardinality(S) = BatchSize \/ S = free}

\* The bucket in hand.
Working(p, l) == pc[p] = l /\ todo[p] # <<>>
InHand(p) == Head(todo[p])
NextBucket(p) == todo' = [todo EXCEPT ![p] = Tail(@)]

SelectBatch(p, c) ==
    /\ archiving /\ Working(p, "buckets") /\ Resume(p, c)
    /\ \E S \in Batches(p, InHand(p)) : batch' = [batch EXCEPT ![p] = S]
    /\ Goto(p, "append")
    /\ UNCHANGED <<depth, table, age, files, archiving, todo, faults>>

\* Nothing left to lock: rollback, and on to the next bucket.
BucketEmpty(p, c) ==
    /\ archiving /\ Working(p, "buckets") /\ Usable(p, c)
    /\ Batches(p, InHand(p)) = {}
    /\ NextBucket(p)
    /\ Returned(p, c)
    /\ UNCHANGED <<table, age, files, archiving, pc, batch, faults>>

\* The lines are appended and fsynced.  After a torn end of file the first of
\* them continues the broken line.
Appended(b, S) ==
    /\ lines' = [e \in Entries |-> IF e \in S THEN lines[e] + 1 ELSE lines[e]]
    /\ IF b \in torn
       THEN \E first \in S : readable' = readable \cup (S \ {first})
       ELSE readable' = readable \cup S

AppendLines(p) ==
    /\ Working(p, "append")
    /\ Appended(InHand(p), batch[p])
    /\ torn' = torn \ {InHand(p)}
    /\ Goto(p, "delete")
    /\ UNCHANGED <<lockVars, table, age, archiving, pass, faults>>

\* The write stops somewhere: nothing was written, or some lines are whole, or the
\* file ends in a piece of the next one; the fsync may fail after all of them.
PartOf(p, b) ==
    \/ UNCHANGED files
    \/ \E S \in SUBSET batch[p] :
         /\ IF S = {} THEN UNCHANGED <<lines, readable>> ELSE Appended(b, S)
         /\ torn' \in {torn \ {b}} \cup {torn \cup {b} : x \in batch[p] \ S}
         /\ S = {} => b \in torn'

\* The exception rolls the batch back and leaves prune_once.
DeletedAnyway(p) == Goto(p, "delete") /\ UNCHANGED <<lockVars, batch>>
BatchAborted(p) ==
    /\ batch' = [batch EXCEPT ![p] = {}]
    /\ Returned(p, conn[p])
    /\ Goto(p, "raised")

AppendFails(p) ==
    /\ Working(p, "append") /\ faults < MaxFaults
    /\ faults' = faults + 1
    /\ PartOf(p, InHand(p))
    /\ BatchAborted(p)
    /\ UNCHANGED <<table, age, archiving, todo>>

\* DELETE by primary key, and COMMIT.  A batch below BatchSize ends the bucket.
DeleteBatch(p) ==
    /\ Working(p, "delete")
    /\ table' = table \ batch[p]
    /\ batch' = [batch EXCEPT ![p] = {}]
    /\ IF Cardinality(batch[p]) < BatchSize THEN NextBucket(p) ELSE UNCHANGED todo
    /\ Returned(p, conn[p])
    /\ Goto(p, "buckets")
    /\ UNCHANGED <<age, files, archiving, faults>>

-----------------------------------------------------------------------------
(* The plain path: one DELETE per bucket, one commit.                      *)

PlainDelete(p) ==
    /\ ~archiving /\ Working(p, "buckets")
    /\ \A e \in Due(InHand(p)) : ~LockedByOther(p, e)
    /\ batch' = [batch EXCEPT ![p] = @ \cup Due(InHand(p))]
    /\ NextBucket(p)
    /\ UNCHANGED <<lockVars, table, age, files, archiving, pc, faults>>

\* The pass is over: the plain path commits here, and both commit the summary row
\* where there is one; without it an archiving session has nothing open.
BucketsDone(p, c) ==
    /\ pc[p] = "buckets" /\ todo[p] = <<>> /\ Usable(p, c)
    /\ table' = table \ batch[p]
    /\ batch' = [batch EXCEPT ![p] = {}]
    /\ Returned(p, c)
    /\ Goto(p, "committed")
    /\ UNCHANGED <<age, files, archiving, todo, faults>>

-----------------------------------------------------------------------------
\* A statement fails outside the file write, or the server process is killed.
StatementFails(p) ==
    /\ pc[p] \in {"buckets", "delete"} /\ faults < MaxFaults
    /\ faults' = faults + 1
    /\ batch' = [batch EXCEPT ![p] = {}]
    /\ Goto(p, "close")
    /\ UNCHANGED <<lockVars, table, age, files, archiving, todo>>

\* The finally clause: the unlock runs on whatever connection the session gets.
Unlock(p, c) ==
    /\ pc[p] \in {"committed", "raised"} /\ Resume(p, c)
    /\ UnlockOn(c)
    /\ Goto(p, "close")
    /\ UNCHANGED <<table, age, files, archiving, pass, faults>>

\* The session closes.
EndPass(p) ==
    /\ pc[p] = "close"
    /\ Returned(p, conn[p])
    /\ todo' = [todo EXCEPT ![p] = <<>>]
    /\ Goto(p, "asleep")
    /\ UNCHANGED <<table, age, files, archiving, batch, faults>>

\* The process dies, also in the middle of a file write, and is started again.
Restart(p) ==
    /\ faults < MaxFaults
    /\ faults' = faults + 1
    /\ IF pc[p] = "append" THEN PartOf(p, InHand(p)) ELSE UNCHANGED files
    /\ Disconnected(p)
    /\ todo' = [todo EXCEPT ![p] = <<>>]
    /\ batch' = [batch EXCEPT ![p] = {}]
    /\ Goto(p, "asleep")
    /\ UNCHANGED <<table, age, archiving>>

-----------------------------------------------------------------------------
PruneOnce(p) ==
    \/ \E c \in Conns :
         \/ StartPass(p, c) \/ SelectBatch(p, c) \/ BucketEmpty(p, c)
         \/ BucketsDone(p, c) \/ Unlock(p, c)
    \/ AppendLines(p) \/ DeleteBatch(p) \/ PlainDelete(p) \/ EndPass(p)

Next ==
    \/ \E p \in Processes :
         PruneOnce(p) \/ AppendFails(p) \/ StatementFails(p) \/ Restart(p)
    \/ \E e \in Entries : Grow(e)

Spec == Init /\ [][Next]_vars

-----------------------------------------------------------------------------
\* "Never DELETE without a successful file append": an entry that has left the
\* table was appended, over failures, restarts and overlapping passes.
DeletedWereAppended == archiving => \A e \in Entries \ table : lines[e] > 0

\* An override and the global retention do not touch each other's rows: no entry
\* leaves the table before its own bucket's cutoff.
OnlyExpiredPruned == \A e \in Entries \ table : age[e] > Retention[BucketOf[e]]

\* Rows that are being archived are locked: an entry is appended a second time
\* only where a pass failed after appending it.
ArchivedOncePerFailure == \A e \in Entries : lines[e] <= 1 + faults

=============================================================================
