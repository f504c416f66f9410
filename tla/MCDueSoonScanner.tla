------------------------- MODULE MCDueSoonScanner -------------------------
(* Instances of DueSoonScanner for TLC. *)
EXTENDS DueSoonScanner, TLC

CONSTANTS p1, p2, c1, c2, c3, r1

\* Process p1 has a pool of two connections, p2 a pool of one.
Pools == (c1 :> p1) @@ (c2 :> p1) @@ (c3 :> p2)
=============================================================================
