------------------------------- MODULE Reading -------------------------------
(***************************************************************************)
(* One reader pages through one of the lists of ReadingLists while         *)
(* other requests make, drop, move and pin its rows.                       *)
(*                                                                         *)
(* A row's time is the start of the transaction that made it, so a row may *)
(* appear with any time, an older one than rows already read included; and *)
(* a row that starts or stops passing the list's filter is made or         *)
(* dropped as far as the list is concerned.                                *)
(***************************************************************************)
EXTENDS ReadingLists, FiniteSets, SequencesExt

CONSTANTS Lists,       \* the lists of this instance
          Ids,         \* ids of rows, ordered as integers
          MaxKey, MaxRank,
          ArmOf,       \* the arm of a merged list a row is found by
          Weight,      \* the weight of an arm in the typeahead
          Mine,        \* rows whose assignee or reporter is the reader
          ArmCap,      \* rows an arm of the typeahead gives
          Surplus,     \* times the limit that a search of people reads
          PageSizes,   \* limits a request asks for
          MaxChanges,  \* bound on the commits of others
          MaxPages,    \* bound on the pages read
          Absent

Row == [key : 1..MaxKey, rank : 1..MaxRank, pinned : BOOLEAN]

ASSUME ReadingAssumption ==
    /\ Lists \subseteq ServedLists
    /\ Ids \subseteq Nat /\ IsFiniteSet(Ids)
    /\ MaxKey \in Nat \ {0} /\ MaxRank \in Nat \ {0}
    /\ Mine \subseteq Ids
    /\ ArmCap \in Nat \ {0} /\ Surplus \in Nat \ {0}
    /\ PageSizes \subseteq Nat \ {0}
    /\ MaxChanges \in Nat /\ MaxPages \in Nat \ {0}
    /\ Absent \notin Row

VARIABLES list,    \* the list that is read
          rows,    \* its rows
          next,    \* what the next request sends: << >> at first, then the
                   \* cursor, the offset, or the ids of a tree
          open,    \* there is a next page
          pages,   \* the pages read
          seen,    \* the ids of their rows, in the order they were shown
          steady,  \* rows of the first page's time that nobody changed since
          changes

readingVars == <<list, rows, next, open, pages, seen, steady, changes>>

-----------------------------------------------------------------------------
(* The order of a list. *)

Final(id) ==
    ((rows[id].rank * (MaxKey + rows[id].key)) + (IF id \in Mine THEN 1 ELSE 0))
        * Weight[ArmOf[id]]

(* Ranks are doubled to leave room between them, see Bound. *)
Column(id, column) ==
    CASE column = "key"   -> rows[id].key
      [] column = "-key"  -> -rows[id].key
      [] column = "rank"  -> 2 * rows[id].rank
      [] column = "-rank" -> -2 * rows[id].rank
      [] column = "id"    -> id
      [] column = "-id"   -> -id
      [] column = "final" -> Final(id)

Values(id, columns) == [i \in DOMAIN columns |-> Column(id, columns[i])]

(* Tuple p comes before tuple q: the first column that differs is larger. *)
Precedes(p, q) ==
    \E i \in DOMAIN p : p[i] > q[i] /\ \A j \in 1..i-1 : p[j] = q[j]

(* The orders a sort may give a set of rows: it is free where they tie. *)
Sorted(ids, columns) ==
    {s \in SetToSeqs(ids) :
        \A i \in DOMAIN s : \A j \in 1..i-1 :
            ~Precedes(Values(s[i], columns), Values(s[j], columns))}

FirstOf(s, n) == SubSeq(s, 1, IF n < Len(s) THEN n ELSE Len(s))

Listed == {id \in Ids : rows[id] # Absent}

Pinned == {id \in Listed : list.pins /\ rows[id].pinned}

-----------------------------------------------------------------------------
(* Cursors. *)

(* Mutant: only the last column is put in the cursor. *)
CursorOfId(id) == <<Column(id, Last(list.seek))>>

CursorOf(id) == Values(id, list.seek)

(* The rank travels as a float and is bound to a numeric parameter; the    *)
(* driver gives the float's exact value, and that of 0.1 is above 0.1.     *)
Bound(cursor) ==
    IF list.low /\ cursor[1] = 2 THEN [cursor EXCEPT ![1] = 3] ELSE cursor

(* Mutant: rows that tie in the first column are taken for read. *)
AfterNoTies(ids, cursor) ==
    {id \in ids : Bound(cursor)[1] > Values(id, list.seek)[1]}

After(ids, cursor) ==
    {id \in ids : Precedes(Bound(cursor), Values(id, list.seek))}

-----------------------------------------------------------------------------
(* Pages. *)

Page(shown, live, refresh, total, authority, last) ==
    [shown |-> shown, live |-> live, refresh |-> refresh,
     total |-> total, authority |-> authority, last |-> last]

Bare(shown) == Page(shown, 0, FALSE, 0, "snapshot", 0)

Show(page) == pages' = Append(pages, page) /\ seen' = seen \o page.shown

Start ==
    /\ open
    /\ Len(pages) < MaxPages
    /\ steady' = IF pages = << >> THEN Listed ELSE steady
    /\ UNCHANGED <<list, rows, changes>>

(* A page of a list with a cursor, after the rows the pins put above it.  *)
ReadKeyset(limit) ==
    /\ list.resume = "cursor" /\ ~list.pinned
    /\ Start
    /\ LET rest == IF next = << >> THEN Listed \ Pinned
                                   ELSE After(Listed \ Pinned, next)
           above == IF next = << >> THEN Pinned ELSE {}
       IN  \E s \in Sorted(rest, list.order), top \in Sorted(above, <<"key">>) :
             LET items == FirstOf(s, limit)
                 more  == Len(s) > limit
             IN  /\ Show([Bare(top \o items) EXCEPT
                            !.last = IF items = << >> THEN 0
                                     ELSE rows[Last(items)].key])
                 /\ open' = more
                 /\ next' = IF more THEN CursorOf(Last(items)) ELSE next

(* The total and its authority on the page that follows the pages read.    *)
TotalFromCursor == IF pages = << >> THEN 0 ELSE Last(pages).total

AuthorityFromCursor ==
    IF pages = << >> THEN "snapshot" ELSE Last(pages).authority

(* Mutant: a new count is called live though the page had no rows. *)
ReadArmLive(limit, refresh) ==
    /\ list.pinned
    /\ Start
    /\ LET rest == IF next = << >> THEN Listed ELSE After(Listed, next)
           live == Cardinality(Listed)
           counted == next = << >> \/ refresh
       IN  \E s \in Sorted(rest, list.order) :
             LET items == FirstOf(s, limit)
                 more  == Len(items) >= limit
                 total == IF items # << >> /\ counted THEN live
                          ELSE TotalFromCursor
                 authority == IF ~counted THEN AuthorityFromCursor
                              ELSE IF refresh THEN "live" ELSE "snapshot"
             IN  /\ Show(Page(items, live, refresh, total, authority, 0))
                 /\ open' = more
                 /\ next' = IF more THEN CursorOf(Last(items)) ELSE next

(* A page of an arm of the search: the live count is read with the rows,   *)
(* and shown on the first page or when the request refreshes it.           *)
ReadArm(limit, refresh) ==
    /\ list.pinned
    /\ Start
    /\ LET rest == IF next = << >> THEN Listed ELSE After(Listed, next)
           live == Cardinality(Listed)
           counted == next = << >> \/ refresh
       IN  \E s \in Sorted(rest, list.order) :
             LET items == FirstOf(s, limit)
                 more  == Len(items) >= limit
                 total == IF items # << >> /\ counted THEN live
                          ELSE TotalFromCursor
                 authority == IF items = << >> \/ ~counted THEN AuthorityFromCursor
                              ELSE IF refresh THEN "live" ELSE "snapshot"
             IN  /\ Show(Page(items, live, refresh, total, authority, 0))
                 /\ open' = more
                 /\ next' = IF more THEN CursorOf(Last(items)) ELSE next

(* Mutant: the next offset counts a row read ahead. *)
ReadOffsetAhead(limit) ==
    /\ list.resume = "offset"
    /\ Start
    /\ LET skip == IF next = << >> THEN 0 ELSE next[1]
       IN  \E s \in Sorted(Listed, list.order) :
             LET items == FirstOf(SubSeq(s, skip + 1, Len(s)), limit)
             IN  /\ Show(Bare(items))
                 /\ open' = (Len(items) = limit)
                 /\ next' = <<skip + Len(items) + 1>>

(* A page of a list that skips rows: the client goes on until one is short. *)
ReadOffset(limit) ==
    /\ list.resume = "offset"
    /\ Start
    /\ LET skip == IF next = << >> THEN 0 ELSE next[1]
       IN  \E s \in Sorted(Listed, list.order) :
             LET items == FirstOf(SubSeq(s, skip + 1, Len(s)), limit)
             IN  /\ Show(Bare(items))
                 /\ open' = (Len(items) = limit)
                 /\ next' = <<skip + Len(items)>>

(* A list of one page. *)
ReadOnce(limit) ==
    /\ list.resume = "none" /\ list.cut = << >>
    /\ Start
    /\ \E s \in Sorted(Listed, list.order) :
          Show(Bare(FirstOf(s, limit)))
    /\ open' = FALSE
    /\ UNCHANGED next

(* A merged list: each arm is cut, then all are sorted and cut again. *)
Arms == {ArmOf[id] : id \in Ids}

CapFor(limit) ==
    CASE list.cap = "limit"   -> limit
      [] list.cap = "surplus" -> limit * Surplus
      [] list.cap = "fixed"   -> ArmCap

(* Mutant: the merged rows keep the order of the arms. *)
ReadUnmerged(limit) ==
    /\ list.cut # << >>
    /\ Start
    /\ \E cut \in [Arms -> SUBSET Listed] :
          /\ \A arm \in Arms :
                \E s \in Sorted({id \in Listed : ArmOf[id] = arm}, list.cut) :
                    cut[arm] = Range(FirstOf(s, CapFor(limit)))
          /\ \E s \in Sorted(UNION {cut[arm] : arm \in Arms}, list.cut) :
                Show(Bare(FirstOf(s, limit)))
    /\ open' = FALSE
    /\ UNCHANGED next

ReadMerged(limit) ==
    /\ list.cut # << >>
    /\ Start
    /\ \E cut \in [Arms -> SUBSET Listed] :
          /\ \A arm \in Arms :
                \E s \in Sorted({id \in Listed : ArmOf[id] = arm}, list.cut) :
                    cut[arm] = Range(FirstOf(s, CapFor(limit)))
          /\ \E s \in Sorted(UNION {cut[arm] : arm \in Arms}, list.order) :
                Show(Bare(FirstOf(s, limit)))
    /\ open' = FALSE
    /\ UNCHANGED next

(* A tree: the first statement reads ids with their depths, the second the *)
(* rows; one that is gone by then is left out.                             *)

StillIn(s, S) ==
    {t \in SetToSeqs(Range(s) \cap S) :
        \A j \in DOMAIN t : \A i \in 1..j-1 :
            \E k, l \in DOMAIN s : k < l /\ s[k] = t[i] /\ s[l] = t[j]}

ReadIds ==
    /\ list.resume = "ids" /\ next = << >>
    /\ open
    /\ Listed # {}
    /\ \E s \in Sorted(Listed, list.order) : next' = s
    /\ steady' = Listed
    /\ UNCHANGED <<list, rows, open, pages, seen, changes>>

ReadRows ==
    /\ list.resume = "ids" /\ next # << >>
    /\ open
    /\ \E s \in StillIn(next, Listed) : Show(Bare(s))
    /\ open' = FALSE
    /\ UNCHANGED <<list, rows, next, steady, changes>>

-----------------------------------------------------------------------------
(* Commits of other requests between two statements of the reader. *)

Other ==
    /\ open /\ next # << >>
    /\ changes < MaxChanges
    /\ changes' = changes + 1
    /\ UNCHANGED <<list, next, open, pages, seen>>

Shape ==
    {r \in Row :
        /\ list.pins \/ ~r.pinned
        /\ r.rank = 1 \/ "rank" \in Range(list.order \o list.cut)
                      \/ "-rank" \in Range(list.order)
        /\ r.key = 1 \/ Range(list.order \o list.cut) \cap {"key", "-key", "final"} # {}}

Make ==
    /\ Other
    /\ \E id \in Ids \ Listed, r \in Shape : rows' = [rows EXCEPT ![id] = r]
    /\ UNCHANGED steady

Drop ==
    /\ Other
    /\ \E id \in Listed :
          /\ rows' = [rows EXCEPT ![id] = Absent]
          /\ steady' = steady \ {id}

(* Activity, a vote, a comment, an edit or a move of the ticket. *)
Move ==
    /\ Other
    /\ \E id \in Listed, r \in 1..MaxRank :
          /\ r # rows[id].rank
          /\ [rows[id] EXCEPT !.rank = r] \in Shape
          /\ rows' = [rows EXCEPT ![id].rank = r]
          /\ steady' = steady \ {id}

Pin ==
    /\ Other
    /\ list.pins
    /\ \E id \in Listed :
          /\ rows' = [rows EXCEPT ![id].pinned = ~@]
          /\ steady' = steady \ {id}

-----------------------------------------------------------------------------
ReadingInit ==
    /\ list \in Lists
    /\ rows \in [Ids -> Shape \cup {Absent}]
    /\ next = << >>
    /\ open = TRUE
    /\ pages = << >>
    /\ seen = << >>
    /\ steady = {}
    /\ changes = 0

ReadingNext ==
    \/ \E limit \in PageSizes :
          \/ ReadKeyset(limit)
          \/ \E refresh \in BOOLEAN : ReadArm(limit, refresh)
          \/ ReadOffset(limit)
          \/ ReadOnce(limit)
          \/ ReadMerged(limit)
    \/ ReadIds
    \/ ReadRows
    \/ Make
    \/ Drop
    \/ Move
    \/ Pin

ReadingSpec == ReadingInit /\ [][ReadingNext]_readingVars

-----------------------------------------------------------------------------
ReadingTypeOK ==
    /\ list \in Lists
    /\ rows \in [Ids -> Row \cup {Absent}]
    /\ open \in BOOLEAN
    /\ steady \subseteq Listed
    /\ changes \in 0..MaxChanges
    /\ Len(pages) <= MaxPages
    /\ \A i \in DOMAIN pages : Range(pages[i].shown) \subseteq Ids
    /\ next # << >> =>
          CASE list.resume = "cursor" -> Len(next) = Len(list.seek)
            [] list.resume = "offset" -> next \in Seq(Nat) /\ Len(next) = 1
            [] list.resume = "ids"    -> IsInjective(next) /\ Range(next) \subseteq Ids
            [] OTHER                  -> FALSE

Times(id) == Cardinality({i \in DOMAIN seen : seen[i] = id})

(* Each row has a place of its own in the list, and the next page finds it. *)
Whole ==
    \/ list.resume = "ids"
    \/ list.resume = "cursor" /\ Last(list.seek) \in {"id", "-id"}

(* Hits of the lowest rank in a list whose cursor cannot carry that rank.  *)
LowHit(id) == list.low /\ rows[id].rank = 1

(***************************************************************************)
(* A row that nobody changes while the list is read is shown once, however *)
(* the pages are sized and whatever is made, dropped, moved or pinned      *)
(* around it: the cursor compares exactly what the list is ordered by      *)
(* (services/feed.py _apply_cursor, the keyset lists of tickets, notices   *)
(* and the audit log, and the seek clauses of the search).                 *)
(***************************************************************************)
SeenOnce ==
    Whole => \A id \in steady :
        \/ LowHit(id)
        \/ IF open THEN Times(id) <= 1 ELSE Times(id) = 1

(***************************************************************************)
(* What is shown of such rows is in the order of the list across pages,    *)
(* the pinned problems above the others.                                   *)
(***************************************************************************)
PagesOrdered ==
    (Whole \/ list.resume = "cursor") =>
        \A j \in DOMAIN seen : \A i \in 1..j-1 :
            {seen[i], seen[j]} \subseteq steady =>
                \/ LowHit(seen[i]) \/ LowHit(seen[j])
                \/ seen[i] \in Pinned /\ seen[j] \notin Pinned
                \/ /\ seen[i] \in Pinned <=> seen[j] \in Pinned
                   /\ LET columns == IF seen[i] \in Pinned THEN <<"key">>
                                     ELSE list.order
                      IN  ~Precedes(Values(seen[j], columns), Values(seen[i], columns))

(***************************************************************************)
(* Paging through a list neither repeats, misses nor reorders what nobody  *)
(* touches.                                                                *)
(***************************************************************************)
ReadOnceInOrder == SeenOnce /\ PagesOrdered

(***************************************************************************)
(* A list that skips rows by their number misses or repeats at most one    *)
(* row for each commit of others between its pages                         *)
(* (services/share_posts.py list_posts, services/bounties.py               *)
(* list_bounties), provided its order is total.                            *)
(***************************************************************************)
ShiftedByChanges ==
    list.resume = "offset" /\ Last(list.order) = "id" =>
        LET repeated == {i \in DOMAIN seen :
                            /\ seen[i] \in steady
                            /\ \E j \in 1..i-1 : seen[j] = seen[i]}
            missed == IF open THEN {} ELSE {id \in steady : Times(id) = 0}
        IN  Cardinality(repeated) + Cardinality(missed) <= changes

(***************************************************************************)
(* The older notifications: what a reader misses was made at the time of   *)
(* the last row of a page (routes/notifications.py list_notifications).    *)
(***************************************************************************)
MissedOnlyTies ==
    list.seek = <<"key">> =>
        \A id \in steady :
            /\ Times(id) <= 1
            /\ ~open /\ Times(id) = 0 =>
                  \E i \in DOMAIN pages : pages[i].last = rows[id].key

(***************************************************************************)
(* What the weaker lists promise: an offset is out by no more rows than    *)
(* were made or dropped, a cursor without an id passes over ties alone.    *)
(***************************************************************************)
LossIsBounded == ShiftedByChanges /\ MissedOnlyTies

(***************************************************************************)
(* The total of a page of the search is what was counted on the last page  *)
(* that had rows and was the first or asked for a new count, and is called *)
(* live only when that page asked for one (services/search_multi.py).      *)
(***************************************************************************)
TotalsHonest ==
    list.pinned => \A i \in DOMAIN pages :
        LET counted == {j \in 1..i : /\ pages[j].shown # << >>
                                     /\ j = 1 \/ pages[j].refresh}
            latest  == CHOOSE j \in counted : \A k \in counted : k <= j
        IN  IF counted = {} THEN pages[i].total = 0 /\ pages[i].authority = "snapshot"
            ELSE /\ pages[i].total = pages[latest].live
                 /\ (pages[i].authority = "live") <=> pages[latest].refresh

(***************************************************************************)
(* A merged list is in its final order, and a row it leaves out has its    *)
(* arm's places taken by rows no worse in the arm's order, or all the      *)
(* places of the list taken by rows no worse in the final one              *)
(* (services/search_typeahead.py, services/people.py).                     *)
(***************************************************************************)
BestFirst ==
    list.cut # << >> /\ pages # << >> =>
        LET shown == pages[1].shown
            NoWorse(x, y, columns) == ~Precedes(Values(y, columns), Values(x, columns))
        IN  /\ \A j \in DOMAIN shown : \A i \in 1..j-1 :
                  NoWorse(shown[i], shown[j], list.order)
            /\ \A id \in Listed \ Range(shown) :
                  \/ /\ shown # << >>
                     /\ \A x \in Range(shown) : NoWorse(x, id, list.order)
                  \/ \E n \in PageSizes :
                        Cardinality({x \in Listed \ {id} :
                            ArmOf[x] = ArmOf[id] /\ NoWorse(x, id, list.cut)})
                                >= CapFor(n)
=============================================================================
