----------------------------- MODULE MCReading -----------------------------
(* Instances of Reading: three rows in two arms, and every list. *)
EXTENDS Reading

MCIds == 0..2
MCArmOf == (0 :> "tickets") @@ (1 :> "tickets") @@ (2 :> "people")
MCWeight == ("tickets" :> 2) @@ ("people" :> 1)
MCMine == {1}

(* The lists that rank with _ilike_rank. *)
LowLists == {l \in SearchLists("all") : l.low}

(* Hits of the lowest rank are shown once too, as the comment on the seek  *)
(* clause has it: "Seek on (rank DESC, name ASC, id ASC)"                  *)
(* (services/search_multi.py, _search_components).                         *)
LowHitsSeenOnce ==
    \A id \in steady : LowHit(id) => Times(id) <= 1
=============================================================================
