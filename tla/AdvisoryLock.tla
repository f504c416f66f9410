--------------------------- MODULE AdvisoryLock ---------------------------
(***************************************************************************)
(* with_advisory_lock: a PostgreSQL session-level advisory lock, taken by  *)
(* a background loop on whatever connection its AsyncSession has checked   *)
(* out of the process's pool.  The lock belongs to the connection, is      *)
(* re-entrant, and outlives transactions; a session returns its connection *)
(* at every commit and rollback and checks one out for the next statement. *)
(***************************************************************************)
EXTENDS Integers

CONSTANTS
    Processes,   \* server processes, each running the loop once
    Conns,       \* pooled connections
    PoolOf,      \* the process whose pool a connection belongs to
    MaxDepth,    \* bound on the holds that pile up on one connection
    NoConn       \* "no connection checked out"

ASSUME LockAssumption ==
    /\ PoolOf \in [Conns -> Processes]
    /\ NoConn \notin Conns
    /\ MaxDepth \in Nat

VARIABLES
    conn,        \* the connection the loop's session has checked out
    depth        \* how often a connection holds the lock

lockVars == <<conn, depth>>

LockTypeOK ==
    /\ conn \in [Processes -> Conns \cup {NoConn}]
    /\ depth \in [Conns -> Nat]

LockInit ==
    /\ conn = [p \in Processes |-> NoConn]
    /\ depth = [c \in Conns |-> 0]

Pool(p) == {c \in Conns : PoolOf[c] = p}

\* The connection the next statement of p's session runs on: the one it has, or
\* any idle one of the pool.
Usable(p, c) == c = conn[p] \/ (conn[p] = NoConn /\ c \in Pool(p))

\* pg_try_advisory_lock on connection c: granted unless another one holds it.
GrantsAlways(c) == TRUE
Grants(c) == \A d \in Conns \ {c} : depth[d] = 0
LockOn(c) == depth[c] < MaxDepth /\ depth' = [depth EXCEPT ![c] = @ + 1]

\* pg_advisory_unlock on connection c: a warning and no effect where c does not
\* hold the lock.
UnlockBlindly(c) == depth' = [depth EXCEPT ![c] = @ - 1]
UnlockOn(c) == depth' = [depth EXCEPT ![c] = IF @ = 0 THEN 0 ELSE @ - 1]

\* Connection c goes back to the pool, which closes it (and so frees its locks)
\* when it is an overflow connection.
Returned(p, c) ==
    /\ conn' = [conn EXCEPT ![p] = NoConn]
    /\ depth' \in {depth} \cup {[depth EXCEPT ![d] = 0] : d \in {c} \ {NoConn}}

\* The process dies: its connections close and their locks are free.
Disconnected(p) ==
    /\ conn' = [conn EXCEPT ![p] = NoConn]
    /\ depth' = [c \in Conns |-> IF c \in Pool(p) THEN 0 ELSE depth[c]]

=============================================================================
