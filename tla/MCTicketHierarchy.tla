------------------------- MODULE MCTicketHierarchy -------------------------
(* An instance of TicketHierarchy for TLC. *)
EXTENDS TicketHierarchy, TLC

CONSTANTS t1, t2, t3, s1, s2

Symmetry == Permutations({t1, t2, t3}) \cup Permutations({s1, s2})
=============================================================================
