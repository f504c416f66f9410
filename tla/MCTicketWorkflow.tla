-------------------------- MODULE MCTicketWorkflow --------------------------
(* Instances of TicketWorkflow for TLC. *)
EXTENDS TicketWorkflow, TLC

CONSTANTS t1, s1, s2, u1, a1

TodoFirst == t1 :> "todo"
ByU1 == t1 :> u1
WatchedByBoth == t1 :> {u1, a1}

\* Everything races on a new ticket; transitions go on for longer.
Bounds == [op \in Ops |-> IF op = "move" THEN 2 ELSE 1]

Writers == Permutations({s1, s2})
=============================================================================
