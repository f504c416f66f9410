------------------------- MODULE MCAuditRetention -------------------------
(* Instances of AuditRetention for TLC. *)
EXTENDS AuditRetention, TLC

CONSTANTS p1, p2, c1, c2, c3, e1, e2, e3, login, rest

\* Process p1 has a pool of two connections, p2 a pool of one.
Pools == (c1 :> p1) @@ (c2 :> p1) @@ (c3 :> p2)

\* One overridden event with one row, and two rows in the global rest.
BucketMap == (e1 :> login) @@ (e2 :> rest) @@ (e3 :> rest)
Days == (login :> 1) @@ (rest :> 0)
Order == <<login, rest>>
=============================================================================
