---------------------------- MODULE ReadingProofs ----------------------------
(***************************************************************************)
(* Proofs about Reading, and at the end about DueSoonScanner, which has    *)
(* nothing in common with it.                                              *)
(*                                                                         *)
(* FlowOK is the type of the reader's state together with where a request  *)
(* goes on from.  ShapeOK says, of a list with a cursor, which untouched   *)
(* rows the cursor has passed and that those are the rows shown; of a      *)
(* tree, that the ids read first hold them all.  OffsetOK counts the       *)
(* untouched rows whose place is on the other side of the offset from      *)
(* where the reader met them.  All rest on the order of a list being one   *)
(* of tuples compared from the left, total when its last column is an id.  *)
(*                                                                         *)
(* Of the scanner: while a process scans it holds the advisory lock on a   *)
(* connection of its own pool, and what it has inserted but not committed  *)
(* is far enough from everything it committed before.                      *)
(***************************************************************************)
EXTENDS Reading, DueSoonScanner, FiniteSetTheorems, TLAPS

-----------------------------------------------------------------------------
(* What every list that is served has in common.                           *)

Columns == {"key", "-key", "rank", "-rank", "id", "-id"}

WellFormed(l) ==
    /\ l.resume \in {"cursor", "offset", "none", "ids"}
    /\ l.cap \in {"limit", "surplus", "fixed"}
    /\ l.resume # "none" => l.order \in Seq(Columns) /\ Len(l.order) > 0
    /\ l.resume = "cursor" =>
          /\ l.seek = l.order
          /\ l.order[Len(l.order)] \in {"id", "-id"} \/ l.seek = <<"key">>
    /\ l.resume # "cursor" => l.seek = << >> /\ ~l.pins /\ ~l.pinned /\ ~l.low
    /\ l.pins => ~l.low /\ ~l.pinned
    /\ l.pinned => l.order[Len(l.order)] \in {"id", "-id"}
    /\ l.low => l.order[1] = "rank"
    /\ l.cut # << >> => l.resume = "none"

LEMMA KeysetForm ==
    ASSUME NEW order \in Seq(Columns), Len(order) > 0,
           order[Len(order)] \in {"id", "-id"} \/ order = <<"key">>
    PROVE  /\ WellFormed(Keyset(order, order))
           /\ WellFormed([Keyset(order, order) EXCEPT !.pins = TRUE])
           /\ order # <<"key">> => WellFormed(Arm(order, order))
           /\ order # <<"key">> /\ order[1] = "rank" => WellFormed(Low(Arm(order, order)))
  BY DEF WellFormed, Plain, Keyset, Arm, Low

LEMMA OtherForms ==
    /\ \A order \in Seq(Columns) :
          Len(order) > 0 => WellFormed(Offset(order)) /\ WellFormed(Outline(order))
    /\ \A order : WellFormed(Plain(order))
    /\ \A cut, order : \A cap \in {"limit", "surplus", "fixed"} :
          WellFormed(Merged(cut, cap, order))
  BY DEF WellFormed, Plain, Offset, Outline, Merged

LEMMA ColumnNames ==
    /\ "key" \in Columns /\ "-key" \in Columns
    /\ "rank" \in Columns /\ "-rank" \in Columns
    /\ "id" \in Columns /\ "-id" \in Columns
  BY DEF Columns

LEMMA Pairs ==
    ASSUME NEW c \in Columns, NEW d \in {"id", "-id"}
    PROVE  /\ WellFormed(Keyset(<<c, d>>, <<c, d>>))
           /\ WellFormed([Keyset(<<c, d>>, <<c, d>>) EXCEPT !.pins = TRUE])
           /\ WellFormed(Arm(<<c, d>>, <<c, d>>))
  <1> DEFINE order == <<c, d>>
  <1>1. /\ order \in Seq(Columns) /\ Len(order) > 0
        /\ order[Len(order)] \in {"id", "-id"} /\ order # <<"key">>
    BY ColumnNames
  <1> HIDE DEF order
  <1>2. /\ WellFormed(Keyset(order, order))
        /\ WellFormed([Keyset(order, order) EXCEPT !.pins = TRUE])
        /\ WellFormed(Arm(order, order))
    BY <1>1, KeysetForm
  <1> QED BY <1>2 DEF order

LEMMA Triples ==
    ASSUME NEW c \in Columns, NEW d \in {"id", "-id"}
    PROVE  /\ WellFormed(Arm(<<"rank", c, d>>, <<"rank", c, d>>))
           /\ WellFormed(Low(Arm(<<"rank", c, d>>, <<"rank", c, d>>)))
  <1> DEFINE order == <<"rank", c, d>>
  <1>1. /\ order \in Seq(Columns) /\ Len(order) > 0
        /\ order[Len(order)] \in {"id", "-id"} /\ order[1] = "rank" /\ order # <<"key">>
    BY ColumnNames
  <1> HIDE DEF order
  <1>2. WellFormed(Arm(order, order)) /\ WellFormed(Low(Arm(order, order)))
    BY <1>1, KeysetForm
  <1> QED BY <1>2 DEF order

LEMMA ServedWellFormed == \A l \in ServedLists : WellFormed(l)
<1>1. \A sort \in {"new", "top", "active", "discussed"} : WellFormed(Feed(sort))
  <2>1. ASSUME NEW sort \in {"new", "top", "active", "discussed"} PROVE WellFormed(Feed(sort))
    <3>1. SortColumn(sort) \in Columns /\ SeekColumn(sort) = SortColumn(sort)
      BY ColumnNames DEF SortColumn, SeekColumn
    <3> QED BY <3>1, Pairs DEF Feed
  <2> QED BY <2>1
<1>2. \A o : WellFormed(TicketPage(o))
  BY Pairs, ColumnNames DEF TicketPage
<1>3. /\ \A k : WellFormed(Notices(k))
      /\ WellFormed(TicketActivity) /\ WellFormed(AuditEntries)
  BY Pairs, ColumnNames
  DEF Notices, UserNotices, AgentNotices, TicketActivity, AuditEntries
<1>4. WellFormed(OldNotifications)
  <2> DEFINE order == <<"key">>
  <2>1. order \in Seq(Columns) /\ Len(order) > 0
    BY ColumnNames
  <2> QED BY <2>1, KeysetForm DEF OldNotifications
<1>5. \A l \in SearchLists("all") : WellFormed(l)
  <2>1. /\ WellFormed(ProblemHits) /\ WellFormed(TicketHits)
        /\ WellFormed(ComponentHits) /\ WellFormed(LabelHits)
        /\ WellFormed(PeopleHits) /\ WellFormed(ShareHits) /\ WellFormed(BountyHits)
    BY Pairs, Triples, ColumnNames
    DEF ProblemHits, TicketHits, ComponentHits, LabelHits, PeopleHits, ShareHits,
        BountyHits
  <2>2. \A l \in SearchLists("all") :
          l \in {ProblemHits, TicketHits, ComponentHits, LabelHits, PeopleHits,
                 ShareHits, BountyHits}
    BY ONLY DEF SearchLists
  <2> QED BY ONLY <2>1, <2>2
<1>6. /\ \A query \in BOOLEAN : WellFormed(TicketSearch(query))
      /\ WellFormed(SharePosts) /\ WellFormed(Bounties) /\ WellFormed(ProblemSearch)
      /\ WellFormed(AgentActivity)
      /\ WellFormed(Subtree) /\ WellFormed(Hierarchy)
  <2> DEFINE Good(order) == order \in Seq(Columns) /\ Len(order) > 0
  <2>1. /\ Good(<<"key", "id">>) /\ Good(<<"rank">>) /\ Good(<<"key">>)
        /\ Good(<<"-rank", "-id">>) /\ Good(<<"-rank", "-key">>)
    BY ColumnNames
  <2>2. \A order : Good(order) => WellFormed(Offset(order)) /\ WellFormed(Outline(order))
    BY OtherForms
  <2> HIDE DEF Good
  <2> QED
    BY <2>1, <2>2
    DEF TicketSearch, SharePosts, Bounties, ProblemSearch, AgentActivity, Subtree,
        Hierarchy
<1>7. /\ WellFormed(AgentRuns) /\ WellFormed(SimilarProblems) /\ WellFormed(Inbox)
      /\ WellFormed(TopSolvers) /\ WellFormed(TopReporters)
      /\ WellFormed(ProblemsAhead) /\ WellFormed(TicketsAhead)
      /\ WellFormed(ComponentsAhead) /\ WellFormed(LabelsAhead)
      /\ WellFormed(PeopleAhead) /\ WellFormed(PeopleSearch)
      /\ WellFormed(MentionChoices)
  BY OtherForms
  DEF AgentRuns, SimilarProblems, Inbox, TopSolvers, TopReporters, ProblemsAhead,
      TicketsAhead, ComponentsAhead, LabelsAhead, PeopleAhead, PeopleSearch,
      MentionChoices
<1> QED BY ONLY <1>1, <1>2, <1>3, <1>4, <1>5, <1>6, <1>7 DEF ServedLists

-----------------------------------------------------------------------------
(* Tuples of column values, compared from the left.                        *)

LEMMA LeastNatural ==
    ASSUME NEW N \in SUBSET Nat, N # {}
    PROVE  \E n \in N : \A m \in N : n <= m
<1> DEFINE R == OpToRel(<, Nat)
<1>1. IsWellFoundedOn(R, Nat)
  BY NatLessThanWellFounded
<1>2. \A m, n \in N : m < n => <<m, n>> \in R
  BY DEF OpToRel
<1> HIDE DEF R
<1>3. PICK n \in N : \A m \in N : <<m, n>> \notin R
  BY <1>1, WFMin
<1>4. \A m \in N : ~(m < n)
  BY <1>2, <1>3
<1>5. \A m \in N : n <= m
  BY <1>4
<1> QED
  BY <1>5

Tuples(n) == [1..n -> Int]

LEMMA PrecedesTransitive ==
    ASSUME NEW n \in Nat, NEW p \in Tuples(n), NEW q \in Tuples(n), NEW r \in Tuples(n),
           Precedes(p, q), Precedes(q, r)
    PROVE  Precedes(p, r)
<1>1. PICK i \in 1..n : p[i] > q[i] /\ \A k \in 1..i-1 : p[k] = q[k]
  BY DEF Precedes, Tuples
<1>2. PICK j \in 1..n : q[j] > r[j] /\ \A k \in 1..j-1 : q[k] = r[k]
  BY DEF Precedes, Tuples
<1>3. CASE i < j
  BY <1>1, <1>2, <1>3 DEF Precedes, Tuples
<1>4. CASE i = j
  <2>1. p[i] > r[i] /\ \A k \in 1..i-1 : p[k] = r[k]
    BY <1>1, <1>2, <1>4 DEF Tuples
  <2> QED
    BY <2>1 DEF Precedes, Tuples
<1>5. CASE j < i
  BY <1>1, <1>2, <1>5 DEF Precedes, Tuples
<1> QED
  BY <1>3, <1>4, <1>5

LEMMA PrecedesIrreflexive ==
    ASSUME NEW n \in Nat, NEW p \in Tuples(n)
    PROVE  ~Precedes(p, p)
  BY DEF Precedes, Tuples

LEMMA PrecedesTotal ==
    ASSUME NEW n \in Nat, NEW p \in Tuples(n), NEW q \in Tuples(n), p # q
    PROVE  Precedes(p, q) \/ Precedes(q, p)
<1> DEFINE N == {i \in 1..n : p[i] # q[i]}
<1>1. N \in SUBSET Nat /\ N # {}
  BY DEF Tuples
<1>2. PICK i \in N : \A j \in N : i <= j
  BY <1>1, LeastNatural
<1>3. \A j \in 1..i-1 : p[j] = q[j]
  BY <1>2
<1>4. \A j \in 1..i-1 : q[j] = p[j]
  BY <1>3
<1>5. DOMAIN p = 1..n /\ DOMAIN q = 1..n /\ i \in 1..n
  BY DEF Tuples
<1>6. p[i] > q[i] \/ q[i] > p[i]
  BY <1>2, <1>5 DEF Tuples
<1> HIDE DEF N
<1> QED
  BY <1>3, <1>4, <1>5, <1>6 DEF Precedes

-----------------------------------------------------------------------------
(* Sorted sets, and what a page takes of them.                             *)

LEMMA SortedIs ==
    ASSUME NEW ids, IsFiniteSet(ids), NEW columns, NEW s \in Sorted(ids, columns)
    PROVE  /\ s \in Seq(ids) /\ Len(s) = Cardinality(ids)
           /\ \A i, j \in 1..Len(s) : s[i] = s[j] => i = j
           /\ Range(s) = ids
           /\ \A i, j \in 1..Len(s) :
                i < j => ~Precedes(Values(s[j], columns), Values(s[i], columns))
<1> DEFINE n == Cardinality(ids)
<1>1. n \in Nat /\ IsFiniteSet(1..n) /\ Cardinality(1..n) = n
  BY FS_CardinalityType, FS_Interval
<1>2. s \in [1..n -> ids] /\ \A i, j \in 1..n : i # j => s[i] # s[j]
  BY DEF Sorted, SetToSeqs
<1>3. s \in Seq(ids) /\ Len(s) = n /\ DOMAIN s = 1..n
  BY <1>1, <1>2
<1>4. s \in Injection(1..n, ids)
  BY <1>2 DEF Injection, IsInjective
<1>5. s \in Surjection(1..n, ids)
  BY <1>1, <1>4, FS_Injection
<1>6. Range(s) = ids
  BY <1>2, <1>5 DEF Surjection, Range
<1>7. \A i \in 1..n : \A j \in 1..i-1 :
        ~Precedes(Values(s[i], columns), Values(s[j], columns))
  BY <1>3 DEF Sorted
<1> QED
  BY <1>1, <1>2, <1>3, <1>6, <1>7

LEMMA FirstOfIs ==
    ASSUME NEW S, NEW s \in Seq(S), NEW n \in Nat
    PROVE  /\ FirstOf(s, n) \in Seq(S)
           /\ Len(FirstOf(s, n)) = IF n < Len(s) THEN n ELSE Len(s)
           /\ \A i \in 1..Len(FirstOf(s, n)) : FirstOf(s, n)[i] = s[i]
  BY DEF FirstOf

-----------------------------------------------------------------------------
(* The type of the reader's state.                                         *)

PageRecord ==
    [shown : Seq(Ids), live : Nat, refresh : BOOLEAN, total : Nat,
     authority : {"live", "snapshot"}, last : Nat]

\* A list that goes on has pages exactly when it has something to go on from.
FlowOK ==
    /\ list \in Lists
    /\ rows \in [Ids -> Row \cup {Absent}]
    /\ open \in BOOLEAN
    /\ steady \subseteq Listed
    /\ changes \in 0..MaxChanges
    /\ pages \in Seq(PageRecord) /\ Len(pages) <= MaxPages
    /\ seen \in Seq(Ids)
    /\ pages = << >> => open /\ seen = << >>
    /\ pages = << >> /\ next = << >> => steady = {}
    /\ list.resume \in {"cursor", "offset"} /\ open => (next = << >> <=> pages = << >>)
    /\ list.resume \in {"none", "ids"} /\ open => pages = << >>
    /\ next # << >> =>
          /\ list.resume = "cursor" => next \in Tuples(Len(list.order))
          /\ list.resume = "offset" => next \in Seq(Nat) /\ Len(next) = 1
          /\ list.resume = "ids" => next \in Seq(Ids) /\ IsInjective(next)
          /\ list.resume # "none"

-----------------------------------------------------------------------------
(* Every state is a page boundary of a list that is served.                *)

\* What the list orders a row by.
Rank(id) == Values(id, list.order)

LEMMA ListForm == FlowOK => WellFormed(list)
  BY ReadingAssumption, ServedWellFormed DEF FlowOK

LEMMA ListedIs ==
    /\ IsFiniteSet(Listed) /\ Listed \subseteq Ids
    /\ FlowOK => \A id \in Listed : rows[id] \in Row
<1>1. Listed \in SUBSET Ids
  BY DEF Listed
<1>2. IsFiniteSet(Listed)
  BY <1>1, FS_Subset, ReadingAssumption
<1> QED
  BY <1>1, <1>2 DEF Listed, FlowOK

LEMMA ValuesTyped ==
    ASSUME FlowOK, NEW columns \in Seq(Columns), NEW id \in Listed
    PROVE  Values(id, columns) \in Tuples(Len(columns))
<1>1. rows[id] \in Row /\ id \in Nat /\ MaxKey \in Nat /\ MaxRank \in Nat
  BY ListedIs, ReadingAssumption
<1>2. rows[id].key \in Int /\ rows[id].rank \in Int /\ id \in Int
  BY <1>1 DEF Row
<1>3. \A c \in Columns : Column(id, c) \in Int
  <2>1. \A k \in Int : -k \in Int /\ 2 * k \in Int /\ -2 * k \in Int
    OBVIOUS
  <2> QED
    BY <1>2, <2>1 DEF Columns, Column
<1>4. \A i \in 1..Len(columns) : columns[i] \in Columns
  OBVIOUS
<1>5. DOMAIN columns = 1..Len(columns)
  OBVIOUS
<1> QED
  BY <1>3, <1>4, <1>5 DEF Values, Tuples

\* What a page takes of the rows that are left.
Taken(items, s, rest, limit) ==
    /\ s \in Seq(rest) /\ items \in Seq(rest)
    /\ Len(items) = IF limit < Len(s) THEN limit ELSE Len(s)
    /\ \A i \in 1..Len(items) : items[i] = s[i]
    /\ \A i, j \in 1..Len(s) : s[i] = s[j] => i = j
    /\ Range(s) = rest

LEMMA PageTaken ==
    ASSUME NEW rest \in SUBSET Listed, NEW columns, NEW s \in Sorted(rest, columns),
           NEW limit \in PageSizes
    PROVE  /\ Taken(FirstOf(s, limit), s, rest, limit)
           /\ Len(s) = Cardinality(rest)
           /\ \A i, j \in 1..Len(s) :
                i < j => ~Precedes(Values(s[j], columns), Values(s[i], columns))
<1>1. IsFiniteSet(rest) /\ limit \in Nat
  BY ListedIs, FS_Subset, ReadingAssumption
<1>2. s \in Seq(rest)
  BY <1>1, SortedIs
<1> QED
  BY <1>1, <1>2, SortedIs, FirstOfIs DEF Taken

LEMMA TakenLast ==
    ASSUME NEW rest, NEW s, NEW items, NEW limit \in PageSizes,
           Taken(items, s, rest, limit)
    PROVE  /\ items # << >> => Last(items) \in rest
           /\ Len(items) >= limit => items # << >>
           /\ Len(s) > limit => items # << >> /\ Len(items) = limit
           /\ items # << >> => Last(items) = s[Len(items)] /\ Len(items) \in 1..Len(s)
  BY ReadingAssumption DEF Taken, Last

LEMMA ShowIs ==
    ASSUME FlowOK, NEW page \in PageRecord, Show(page), Len(pages) < MaxPages
    PROVE  /\ pages' \in Seq(PageRecord) /\ Len(pages') <= MaxPages /\ pages' # << >>
           /\ seen' \in Seq(Ids)
           /\ Len(pages') = Len(pages) + 1
           /\ \A i \in 1..Len(pages) : pages'[i] = pages[i]
           /\ pages'[Len(pages) + 1] = page
           /\ Len(seen') = Len(seen) + Len(page.shown)
           /\ \A i \in 1..Len(seen) : seen'[i] = seen[i]
           /\ \A i \in 1..Len(page.shown) : seen'[Len(seen) + i] = page.shown[i]
<1>1. pages \in Seq(PageRecord) /\ seen \in Seq(Ids) /\ page.shown \in Seq(Ids)
  BY DEF FlowOK, PageRecord
<1>2. Len(pages) \in Nat /\ MaxPages \in Nat
  BY <1>1, ReadingAssumption
<1> QED
  BY <1>1, <1>2 DEF Show

LEMMA FlowInitially == ReadingInit => FlowOK
<1> SUFFICES ASSUME ReadingInit PROVE FlowOK
  OBVIOUS
<1>1. rows \in [Ids -> Row \cup {Absent}]
  BY DEF ReadingInit, Shape
<1> QED
  BY <1>1, ReadingAssumption DEF ReadingInit, FlowOK

\* Only the reader's requests touch what it keeps.
LEMMA OtherFlow ==
    ASSUME FlowOK, Other, Make \/ Drop \/ Move \/ Pin
    PROVE  /\ FlowOK'
           /\ steady' \subseteq steady
           /\ \A id \in steady' : id \in Listed /\ rows'[id] = rows[id]
<1> USE DEF FlowOK
<1>1. Absent \notin Row /\ Shape \subseteq Row /\ MaxChanges \in Nat
  BY ReadingAssumption DEF Shape
<1>2. \A id \in Ids : id \in Listed <=> rows[id] \in Row
  BY <1>1 DEF Listed
<1>3. /\ rows' \in [Ids -> Row \cup {Absent}]
      /\ steady' \subseteq steady
      /\ \A id \in steady' : id \in Listed /\ rows'[id] = rows[id]
  <2>1. CASE Make
    BY <1>1, <1>2, <2>1 DEF Make, Listed
  <2>2. CASE Drop
    BY <1>1, <1>2, <2>2 DEF Drop, Listed
  <2>3. CASE Move
    <3>1. PICK id \in Listed, r \in 1..MaxRank :
            /\ rows' = [rows EXCEPT ![id].rank = r]
            /\ steady' = steady \ {id}
      BY <2>3 DEF Move
    <3>2. id \in Ids /\ [rows[id] EXCEPT !.rank = r] \in Row
      BY <1>2 DEF Listed, Row
    <3> QED
      BY <3>1, <3>2
  <2>4. CASE Pin
    <3>1. PICK id \in Listed :
            /\ rows' = [rows EXCEPT ![id].pinned = ~@]
            /\ steady' = steady \ {id}
      BY <2>4 DEF Pin
    <3>2. id \in Ids /\ [rows[id] EXCEPT !.pinned = ~rows[id].pinned] \in Row
      BY <1>2 DEF Listed, Row
    <3> QED
      BY <3>1, <3>2
  <2> QED
    BY <2>1, <2>2, <2>3, <2>4
<1>4. steady' \subseteq Listed'
  BY <1>3 DEF Listed
<1>5. changes' \in 0..MaxChanges
  BY <1>1 DEF Other
<1>6. UNCHANGED <<list, next, open, pages, seen>> /\ open /\ next # << >>
  BY DEF Other
<1> QED
  BY <1>3, <1>4, <1>5, <1>6

LEMMA BarePage ==
    ASSUME NEW shown \in Seq(Ids), NEW last \in Nat
    PROVE  /\ Bare(shown) \in PageRecord
           /\ Bare(shown).shown = shown
           /\ [Bare(shown) EXCEPT !.last = last] \in PageRecord
           /\ [Bare(shown) EXCEPT !.last = last].shown = shown
           /\ [Bare(shown) EXCEPT !.last = last].last = last
  BY DEF Bare, Page, PageRecord

\* A page of a list with a cursor: rest is what follows the cursor, s how it is
\* sorted, items what the page takes of it, top the pinned rows above.
CursorPage(limit, s, top, items, page) ==
    /\ Show(page) /\ Len(pages) < MaxPages
    /\ page \in PageRecord /\ page.shown = top \o items
    /\ list.seek = <<"key">> /\ items # << >> => page.last = rows[Last(items)].key
    /\ s \in Sorted(IF next = << >> THEN Listed \ Pinned
                    ELSE After(Listed \ Pinned, next), list.order)
    /\ top \in Sorted(IF next = << >> THEN Pinned ELSE {}, <<"key">>)
    /\ items = FirstOf(s, limit)
    /\ open
    /\ open' \in BOOLEAN
    /\ open' => items # << >> /\ next' = CursorOf(Last(items))
    /\ ~open' => next' = next /\ Len(items) = Len(s)
    /\ steady' = IF pages = << >> THEN Listed ELSE steady
    /\ UNCHANGED <<list, rows, changes>>

LEMMA KeysetRead ==
    ASSUME FlowOK, NEW limit \in PageSizes, ReadKeyset(limit)
    PROVE  \E s, top, items, page : CursorPage(limit, s, top, items, page)
<1> DEFINE rest == IF next = << >> THEN Listed \ Pinned ELSE After(Listed \ Pinned, next)
           above == IF next = << >> THEN Pinned ELSE {}
<1>1. rest \in SUBSET Listed /\ above \in SUBSET Listed
  BY DEF After, Pinned
<1> HIDE DEF rest, above
<1>2. PICK s \in Sorted(rest, list.order), top \in Sorted(above, <<"key">>) :
        /\ Show([Bare(top \o FirstOf(s, limit)) EXCEPT
                    !.last = IF FirstOf(s, limit) = << >> THEN 0
                             ELSE rows[Last(FirstOf(s, limit))].key])
        /\ open' = (Len(s) > limit)
        /\ next' = IF Len(s) > limit THEN CursorOf(Last(FirstOf(s, limit))) ELSE next
  BY DEF ReadKeyset, rest, above
<1> DEFINE items == FirstOf(s, limit)
           last == IF items = << >> THEN 0 ELSE rows[Last(items)].key
           page == [Bare(top \o items) EXCEPT !.last = last]
<1>3. Taken(items, s, rest, limit)
  BY <1>1, PageTaken
<1>4. top \in Seq(Ids) /\ items \in Seq(Ids)
  <2>1. top \in Seq(above)
    BY <1>1, ListedIs, FS_Subset, SortedIs
  <2>2. items \in Seq(rest)
    BY <1>3 DEF Taken
  <2> HIDE DEF items
  <2> QED
    BY <1>1, <2>1, <2>2, ListedIs
<1> HIDE DEF items
<1>5. last \in Nat
  <2>1. CASE items # << >>
    <3>1. Last(items) \in Listed
      BY <1>1, <1>3, <2>1, TakenLast
    <3>2. rows[Last(items)].key \in 1..MaxKey
      BY <3>1, ListedIs DEF Row
    <3> QED
      BY <2>1, <3>2, ReadingAssumption
  <2> QED
    BY <2>1
<1> HIDE DEF last
<1>6. page \in PageRecord /\ page.shown = top \o items /\ page.last = last
  <2>1. top \o items \in Seq(Ids)
    BY <1>4
  <2> QED
    BY <1>5, <2>1, BarePage
<1>7. Len(s) \in Nat /\ Len(items) \in Nat /\ limit \in Nat
  BY <1>3, ReadingAssumption DEF Taken
<1>8. /\ Len(s) > limit => items # << >>
      /\ ~(Len(s) > limit) => Len(items) = Len(s)
  BY <1>3, <1>7, TakenLast DEF Taken
<1>9. /\ open /\ Len(pages) < MaxPages
      /\ steady' = IF pages = << >> THEN Listed ELSE steady
      /\ UNCHANGED <<list, rows, changes>>
  BY DEF ReadKeyset, Start
<1>10. Show(page)
  BY <1>2 DEF last, items
<1>11. items # << >> => page.last = rows[Last(items)].key
  BY <1>6 DEF last
<1> HIDE DEF page
<1>12. /\ open' \in BOOLEAN
       /\ open' => items # << >> /\ next' = CursorOf(Last(items))
       /\ ~open' => next' = next /\ Len(items) = Len(s)
  <2> DEFINE more == Len(s) > limit
  <2>1. open' = more /\ next' = IF more THEN CursorOf(Last(items)) ELSE next
    BY <1>2 DEF items
  <2>2. more \in BOOLEAN /\ (more => items # << >>) /\ (~more => Len(items) = Len(s))
    BY <1>8
  <2> HIDE DEF more
  <2> QED
    BY ONLY <2>1, <2>2
<1>13. items = FirstOf(s, limit)
  BY DEF items
<1>14. CursorPage(limit, s, top, items, page)
  BY <1>2, <1>6, <1>9, <1>10, <1>11, <1>12, <1>13 DEF CursorPage, rest, above
<1> QED
  BY <1>14

LEMMA NothingSorted ==
    ASSUME NEW columns PROVE << >> \in Sorted({}, columns)
<1>1. Cardinality({}) = 0 /\ 1..0 = {}
  BY FS_EmptySet
<1> QED
  BY <1>1 DEF Sorted, SetToSeqs

LEMMA ArmRead ==
    ASSUME FlowOK, NEW limit \in PageSizes, NEW refresh \in BOOLEAN, ReadArm(limit, refresh)
    PROVE  \E s, items, page :
              /\ CursorPage(limit, s, << >>, items, page)
              /\ LET counted == next = << >> \/ refresh
                 IN  /\ page.shown = items
                     /\ page.refresh = refresh
                     /\ page.total = IF items # << >> /\ counted THEN page.live
                                     ELSE TotalFromCursor
                     /\ page.authority =
                          IF items = << >> \/ ~counted THEN AuthorityFromCursor
                          ELSE IF refresh THEN "live" ELSE "snapshot"
<1>1. Pinned = {} /\ list.seek # <<"key">> /\ list.resume = "cursor"
  <2>1. list.pinned
    BY DEF ReadArm
  <2>2. /\ ~list.pins /\ list.resume = "cursor" /\ list.seek = list.order
        /\ list.order[Len(list.order)] \in {"id", "-id"}
    BY <2>1, ListForm DEF WellFormed
  <2>3. list.order # <<"key">>
    <3>1. Len(<<"key">>) = 1 /\ <<"key">>[1] = "key"
      OBVIOUS
    <3> QED
      BY ONLY <2>2, <3>1
  <2> QED
    BY <2>2, <2>3 DEF Pinned
<1> DEFINE rest == IF next = << >> THEN Listed ELSE After(Listed, next)
           counted == next = << >> \/ refresh
<1>2. rest \in SUBSET Listed
  BY DEF After
<1> HIDE DEF rest
<1> DEFINE total(items) == IF items # << >> /\ counted THEN Cardinality(Listed)
                           ELSE TotalFromCursor
           authority(items) == IF items = << >> \/ ~counted THEN AuthorityFromCursor
                               ELSE IF refresh THEN "live" ELSE "snapshot"
           pageOf(items) == Page(items, Cardinality(Listed), refresh, total(items),
                                 authority(items), 0)
<1>3. PICK s \in Sorted(rest, list.order) :
        /\ Show(pageOf(FirstOf(s, limit)))
        /\ open' = (Len(FirstOf(s, limit)) >= limit)
        /\ next' = IF Len(FirstOf(s, limit)) >= limit
                   THEN CursorOf(Last(FirstOf(s, limit))) ELSE next
  BY DEF ReadArm, rest
<1> DEFINE items == FirstOf(s, limit)
           page == pageOf(items)
<1>4. Taken(items, s, rest, limit)
  BY <1>2, PageTaken
<1>5. items \in Seq(Ids)
  BY <1>2, <1>4, ListedIs DEF Taken
<1>6. TotalFromCursor \in Nat /\ AuthorityFromCursor \in {"live", "snapshot"}
  <2>1. CASE pages # << >>
    <3>1. Last(pages) \in PageRecord
      BY <2>1 DEF FlowOK, Last
    <3> QED
      BY <2>1, <3>1 DEF TotalFromCursor, AuthorityFromCursor, PageRecord
  <2> QED
    BY <2>1 DEF TotalFromCursor, AuthorityFromCursor
<1>7. Cardinality(Listed) \in Nat
  BY ListedIs, FS_CardinalityType
<1>8. total(items) \in Nat /\ authority(items) \in {"live", "snapshot"}
  BY <1>6, <1>7
<1>9. /\ page \in PageRecord
      /\ page.shown = items /\ page.refresh = refresh /\ page.live = Cardinality(Listed)
      /\ page.total = total(items) /\ page.authority = authority(items)
  <2> HIDE DEF items, total, authority
  <2> QED
    BY <1>5, <1>7, <1>8 DEF Page, PageRecord
<1>10. Len(s) \in Nat /\ Len(items) \in Nat /\ limit \in Nat
  BY <1>4, ReadingAssumption DEF Taken
<1>11. /\ Len(items) >= limit => items # << >>
       /\ ~(Len(items) >= limit) => Len(items) = Len(s)
  BY <1>4, <1>10, TakenLast DEF Taken
<1>12. /\ open /\ Len(pages) < MaxPages
       /\ steady' = IF pages = << >> THEN Listed ELSE steady
       /\ UNCHANGED <<list, rows, changes>>
  BY DEF ReadArm, Start
<1>13. page.shown = << >> \o items
  BY <1>5, <1>9
<1>14. rest = IF next = << >> THEN Listed \ Pinned ELSE After(Listed \ Pinned, next)
  BY <1>1 DEF rest
<1>15. << >> \in Sorted(IF next = << >> THEN Pinned ELSE {}, <<"key">>)
  BY <1>1, NothingSorted
<1>16. Show(page)
  BY <1>3
<1> HIDE DEF page, total, authority
<1>17. /\ open' \in BOOLEAN
       /\ open' => items # << >> /\ next' = CursorOf(Last(items))
       /\ ~open' => next' = next /\ Len(items) = Len(s)
  <2> DEFINE more == Len(items) >= limit
  <2>1. open' = more /\ next' = IF more THEN CursorOf(Last(items)) ELSE next
    BY <1>3
  <2>2. more \in BOOLEAN /\ (more => items # << >>) /\ (~more => Len(items) = Len(s))
    BY <1>11
  <2> HIDE DEF more, items
  <2> QED
    BY ONLY <2>1, <2>2
<1>18. items = FirstOf(s, limit)
  OBVIOUS
<1> HIDE DEF items
<1>19. CursorPage(limit, s, << >>, items, page)
  BY <1>1, <1>3, <1>9, <1>12, <1>13, <1>14, <1>15, <1>16, <1>17, <1>18 DEF CursorPage
<1> QED
  BY <1>9, <1>19 DEF total, authority

LEMMA CursorPageIs ==
    ASSUME FlowOK, list.resume = "cursor",
           NEW limit \in PageSizes, NEW s, NEW top, NEW items, NEW page,
           CursorPage(limit, s, top, items, page)
    PROVE  \E rest, above \in SUBSET Listed :
              /\ rest = IF next = << >> THEN Listed \ Pinned ELSE After(Listed \ Pinned, next)
              /\ above = IF next = << >> THEN Pinned ELSE {}
              /\ Taken(items, s, rest, limit)
              /\ top \in Seq(above) /\ Range(top) = above
              /\ \A i, j \in 1..Len(top) : top[i] = top[j] => i = j
              /\ \A i, j \in 1..Len(top) :
                    i < j => ~Precedes(Values(top[j], <<"key">>), Values(top[i], <<"key">>))
              /\ \A i, j \in 1..Len(s) : i < j => ~Precedes(Rank(s[j]), Rank(s[i]))
              /\ items # << >> => Last(items) \in rest /\ Last(items) = s[Len(items)]
                                  /\ Len(items) \in 1..Len(s)
<1> DEFINE rest == IF next = << >> THEN Listed \ Pinned ELSE After(Listed \ Pinned, next)
           above == IF next = << >> THEN Pinned ELSE {}
<1>1. rest \in SUBSET Listed /\ above \in SUBSET Listed
  BY DEF After, Pinned
<1>2. s \in Sorted(rest, list.order) /\ top \in Sorted(above, <<"key">>)
      /\ items = FirstOf(s, limit)
  BY DEF CursorPage
<1> HIDE DEF rest, above
<1>3. /\ Taken(items, s, rest, limit)
      /\ \A i, j \in 1..Len(s) :
            i < j => ~Precedes(Values(s[j], list.order), Values(s[i], list.order))
  BY <1>1, <1>2, PageTaken
<1>4. IsFiniteSet(above)
  BY <1>1, ListedIs, FS_Subset
<1>5. /\ top \in Seq(above) /\ Range(top) = above
      /\ \A i, j \in 1..Len(top) : top[i] = top[j] => i = j
      /\ \A i, j \in 1..Len(top) :
            i < j => ~Precedes(Values(top[j], <<"key">>), Values(top[i], <<"key">>))
  BY <1>2, <1>4, SortedIs
<1>6. items # << >> => Last(items) \in rest /\ Last(items) = s[Len(items)]
                       /\ Len(items) \in 1..Len(s)
  BY <1>3, TakenLast
<1>7. \A i, j \in 1..Len(s) : i < j => ~Precedes(Rank(s[j]), Rank(s[i]))
  BY <1>3 DEF Rank
<1>8. /\ rest = IF next = << >> THEN Listed \ Pinned ELSE After(Listed \ Pinned, next)
      /\ above = IF next = << >> THEN Pinned ELSE {}
  BY DEF rest, above
<1> USE <1>1
<1> WITNESS rest \in SUBSET Listed, above \in SUBSET Listed
<1> QED
  BY ONLY <1>3, <1>5, <1>6, <1>7, <1>8

LEMMA CursorFlow ==
    ASSUME FlowOK, list.resume = "cursor",
           NEW limit \in PageSizes, NEW s, NEW top, NEW items, NEW page,
           CursorPage(limit, s, top, items, page)
    PROVE  FlowOK'
<1> USE DEF CursorPage
<1>1. PICK rest \in SUBSET Listed : items # << >> => Last(items) \in rest
  BY CursorPageIs
<1>2. /\ pages' \in Seq(PageRecord) /\ Len(pages') <= MaxPages /\ pages' # << >>
      /\ seen' \in Seq(Ids)
  BY ShowIs
<1>3. open' => next' \in Tuples(Len(list.order)) /\ next' # << >>
  <2> SUFFICES ASSUME open' PROVE next' \in Tuples(Len(list.order)) /\ next' # << >>
    OBVIOUS
  <2>1. /\ list.order \in Seq(Columns) /\ Len(list.order) > 0 /\ list.seek = list.order
    BY ListForm DEF WellFormed
  <2>2. next' = Values(Last(items), list.order) /\ Last(items) \in Listed
    BY <1>1, <2>1 DEF CursorOf
  <2>3. next' \in Tuples(Len(list.order))
    BY <2>1, <2>2, ValuesTyped
  <2> HIDE DEF CursorPage
  <2>4. next' # << >>
    BY <2>1, <2>3 DEF Tuples
  <2> QED
    BY <2>3, <2>4
<1>4. steady' \subseteq Listed'
  BY DEF FlowOK, Listed
<1>5. ~open' => next' = next
  OBVIOUS
<1>6. UNCHANGED <<list, rows, changes>> /\ open' \in BOOLEAN
  OBVIOUS
<1> HIDE DEF CursorPage
<1> QED
  BY <1>2, <1>3, <1>4, <1>5, <1>6 DEF FlowOK

LEMMA BareFlow ==
    ASSUME FlowOK, NEW shown \in Seq(Ids), Len(pages) < MaxPages, Show(Bare(shown)),
           steady' \subseteq Listed, UNCHANGED <<list, rows, changes>>,
           list.resume # "cursor", open' \in BOOLEAN,
           list.resume \in {"none", "ids"} => ~open' /\ next' = next,
           list.resume = "offset" => next' \in Seq(Nat) /\ Len(next') = 1
    PROVE  FlowOK'
<1>1. Bare(shown) \in PageRecord /\ Bare(shown).shown = shown
  BY BarePage
<1>2. /\ pages' \in Seq(PageRecord) /\ Len(pages') <= MaxPages /\ pages' # << >>
      /\ seen' \in Seq(Ids)
  BY <1>1, ShowIs
<1>3. steady' \subseteq Listed'
  BY DEF Listed
<1>4. list.resume \in {"cursor", "offset", "none", "ids"}
  BY ListForm DEF WellFormed
<1>5. list.resume = "offset" => next' # << >>
  <2>1. Len(<< >>) = 0
    OBVIOUS
  <2> QED
    BY ONLY <2>1, list.resume = "offset" => next' \in Seq(Nat) /\ Len(next') = 1
<1> QED
  BY <1>2, <1>3, <1>4, <1>5 DEF FlowOK

\* The rows that the next page skips.
Skipped == IF next = << >> THEN 0 ELSE next[1]

\* Of the rows in order, those after the ones that are skipped.
OffsetPage(limit, s, items) ==
    /\ Show(Bare(items)) /\ Len(pages) < MaxPages
    /\ s \in Sorted(Listed, list.order)
    /\ items \in Seq(Ids)
    /\ \A i \in 1..Len(items) : items[i] = s[Skipped + i]
    /\ Len(items) <= limit
    /\ Skipped + Len(items) <= Len(s) \/ (items = << >> /\ Skipped >= Len(s))
    /\ Len(items) < limit => Skipped + Len(items) >= Len(s)
    /\ open' = (Len(items) = limit)
    /\ next' = <<Skipped + Len(items)>>
    /\ steady' = IF pages = << >> THEN Listed ELSE steady
    /\ UNCHANGED <<list, rows, changes>>

LEMMA SkippedIs == FlowOK /\ list.resume = "offset" => Skipped \in Nat
  BY DEF FlowOK, Skipped

LEMMA OffsetRead ==
    ASSUME FlowOK, NEW limit \in PageSizes, ReadOffset(limit)
    PROVE  \E s, items : OffsetPage(limit, s, items)
<1>1. list.resume = "offset" /\ Skipped \in Nat /\ limit \in Nat
  BY SkippedIs, ReadingAssumption DEF ReadOffset
<1>2. PICK s \in Sorted(Listed, list.order) :
        LET items == FirstOf(SubSeq(s, Skipped + 1, Len(s)), limit)
        IN  /\ Show(Bare(items))
            /\ open' = (Len(items) = limit)
            /\ next' = <<Skipped + Len(items)>>
  BY DEF ReadOffset, Skipped
<1> DEFINE left == SubSeq(s, Skipped + 1, Len(s))
           items == FirstOf(left, limit)
<1>3. s \in Seq(Listed)
  BY ListedIs, SortedIs
<1>4. /\ left \in Seq(Listed)
      /\ Len(left) = IF Skipped < Len(s) THEN Len(s) - Skipped ELSE 0
      /\ \A i \in 1..Len(left) : left[i] = s[Skipped + i]
  BY <1>1, <1>3
<1>5. /\ items \in Seq(Listed)
      /\ Len(items) = IF limit < Len(left) THEN limit ELSE Len(left)
      /\ \A i \in 1..Len(items) : items[i] = left[i]
  <2> HIDE DEF left
  <2> QED
    BY <1>1, <1>4, FirstOfIs
<1>6. items \in Seq(Ids)
  BY <1>5, ListedIs
<1>7. Len(s) \in Nat
  BY <1>3
<1>8. /\ Show(Bare(items)) /\ open' = (Len(items) = limit)
      /\ next' = <<Skipped + Len(items)>>
  BY <1>2
<1>9. /\ Len(pages) < MaxPages
      /\ steady' = IF pages = << >> THEN Listed ELSE steady
      /\ UNCHANGED <<list, rows, changes>>
  BY DEF ReadOffset, Start
<1> HIDE DEF items, left
<1>10. Len(left) \in Nat /\ Len(items) \in Nat
  BY <1>4, <1>5
<1>11. \A i \in 1..Len(items) : items[i] = s[Skipped + i]
  BY <1>4, <1>5, <1>10
<1>12. /\ Len(items) <= limit
       /\ Skipped + Len(items) <= Len(s) \/ (Len(items) = 0 /\ Skipped >= Len(s))
       /\ Len(items) < limit => Skipped + Len(items) >= Len(s)
  <2>1. Skipped \in Nat /\ limit \in Nat /\ limit # 0
    BY <1>1, ReadingAssumption
  <2>2. Len(left) = IF Skipped < Len(s) THEN Len(s) - Skipped ELSE 0
    BY ONLY <1>4
  <2>3. Len(items) = IF limit < Len(left) THEN limit ELSE Len(left)
    BY ONLY <1>5
  <2> QED
    BY ONLY <1>7, <1>10, <2>1, <2>2, <2>3
<1>13. Len(items) = 0 => items = << >>
  BY <1>5
<1>14. OffsetPage(limit, s, items)
  BY <1>6, <1>8, <1>9, <1>11, <1>12, <1>13 DEF OffsetPage
<1> QED
  BY <1>14

LEMMA OffsetFlow ==
    ASSUME FlowOK, list.resume = "offset",
           NEW limit \in PageSizes, NEW s, NEW items, OffsetPage(limit, s, items)
    PROVE  FlowOK'
<1>1. Skipped \in Nat
  BY SkippedIs
<1>2. next' \in Seq(Nat) /\ Len(next') = 1
  BY <1>1 DEF OffsetPage
<1>3. open' \in BOOLEAN
  BY DEF OffsetPage
<1>4. steady' \subseteq Listed
  BY DEF OffsetPage, FlowOK
<1> QED
  BY <1>2, <1>3, <1>4, BareFlow DEF OffsetPage

LEMMA OnceFlow ==
    ASSUME FlowOK, NEW limit \in PageSizes, ReadOnce(limit)
    PROVE  FlowOK'
<1>1. PICK s \in Sorted(Listed, list.order) : Show(Bare(FirstOf(s, limit)))
  BY DEF ReadOnce
<1>2. Taken(FirstOf(s, limit), s, Listed, limit)
  BY PageTaken
<1>3. FirstOf(s, limit) \in Seq(Ids)
  BY <1>2, ListedIs DEF Taken
<1>4. /\ Len(pages) < MaxPages /\ steady' \subseteq Listed
      /\ UNCHANGED <<list, rows, changes, next>> /\ open' = FALSE
      /\ list.resume = "none"
  BY DEF ReadOnce, Start, FlowOK
<1> QED
  BY <1>1, <1>3, <1>4, BareFlow

\* The arms are cut, and what is left of them is sorted and cut.
MergedPage(limit, cut, s) ==
    /\ Show(Bare(FirstOf(s, limit)))
    /\ cut \in [Arms -> SUBSET Listed]
    /\ \A arm \in Arms :
          \E t \in Sorted({id \in Listed : ArmOf[id] = arm}, list.cut) :
              cut[arm] = Range(FirstOf(t, CapFor(limit)))
    /\ s \in Sorted(UNION {cut[arm] : arm \in Arms}, list.order)
    /\ list.cut # << >> /\ open /\ open' = FALSE /\ Len(pages) < MaxPages
    /\ steady' = IF pages = << >> THEN Listed ELSE steady
    /\ UNCHANGED <<list, rows, changes, next>>

LEMMA MergedRead ==
    ASSUME NEW limit \in PageSizes, ReadMerged(limit)
    PROVE  \E cut, s : MergedPage(limit, cut, s)
  BY DEF ReadMerged, MergedPage, Start

LEMMA MergedFlow ==
    ASSUME FlowOK, NEW limit \in PageSizes, NEW cut, NEW s, MergedPage(limit, cut, s)
    PROVE  FlowOK'
<1> DEFINE rest == UNION {cut[arm] : arm \in Arms}
<1>1. rest \in SUBSET Listed
  BY DEF MergedPage
<1>2. s \in Sorted(rest, list.order)
  BY DEF MergedPage
<1> HIDE DEF rest
<1>3. Taken(FirstOf(s, limit), s, rest, limit)
  BY <1>1, <1>2, PageTaken
<1>4. FirstOf(s, limit) \in Seq(Ids)
  BY <1>1, <1>3, ListedIs DEF Taken
<1>5. list.resume = "none"
  BY ListForm DEF MergedPage, WellFormed
<1>6. steady' \subseteq Listed
  BY DEF MergedPage, FlowOK
<1> QED
  BY <1>4, <1>5, <1>6, BareFlow DEF MergedPage

LEMMA IdsFlow ==
    ASSUME FlowOK, ReadIds
    PROVE  FlowOK'
<1>1. PICK s \in Sorted(Listed, list.order) : next' = s
  BY DEF ReadIds
<1>2. /\ s \in Seq(Listed) /\ Range(s) = Listed
      /\ \A i, j \in 1..Len(s) : s[i] = s[j] => i = j
  BY ListedIs, SortedIs
<1>3. s \in Seq(Ids) /\ IsInjective(s) /\ s # << >>
  <2>1. Range(<< >>) = {}
    BY DEF Range
  <2>2. s # << >>
    BY <1>2, <2>1 DEF ReadIds
  <2> QED
    BY <1>2, <2>2, ListedIs DEF IsInjective
<1>4. list.resume = "ids" /\ UNCHANGED <<list, rows, open, pages, seen, changes>> /\ open
  BY DEF ReadIds
<1>5. steady' \subseteq Listed'
  BY <1>4 DEF ReadIds, Listed
<1> QED
  BY <1>1, <1>3, <1>4, <1>5 DEF FlowOK

LEMMA StillInIs ==
    ASSUME NEW S, IsFiniteSet(S), NEW s, NEW t \in StillIn(s, S)
    PROVE  /\ t \in Seq(S) /\ IsInjective(t) /\ Range(t) = Range(s) \cap S
           /\ \A i, j \in DOMAIN t :
                 i < j => \E k, l \in DOMAIN s : k < l /\ s[k] = t[i] /\ s[l] = t[j]
<1> DEFINE ids == Range(s) \cap S
           n == Cardinality(ids)
<1>1. IsFiniteSet(ids)
  BY FS_Intersection
<1>2. n \in Nat /\ IsFiniteSet(1..n) /\ Cardinality(1..n) = n
  BY <1>1, FS_CardinalityType, FS_Interval
<1>3. t \in [1..n -> ids] /\ \A i, j \in 1..n : i # j => t[i] # t[j]
  BY DEF StillIn, SetToSeqs
<1>4. \A j \in DOMAIN t : \A i \in 1..j-1 :
        \E k, l \in DOMAIN s : k < l /\ s[k] = t[i] /\ s[l] = t[j]
  BY DEF StillIn
<1> HIDE DEF ids, n
<1>5. t \in Injection(1..n, ids)
  BY <1>3 DEF Injection, IsInjective
<1>6. t \in Surjection(1..n, ids)
  BY <1>1, <1>2, <1>5, FS_Injection DEF n
<1>7. Range(t) = ids
  BY <1>3, <1>6 DEF Surjection, Range
<1>8. t \in Seq(S)
  BY <1>2, <1>3 DEF ids
<1>9. \A i, j \in DOMAIN t : i < j => i \in 1..j-1
  BY <1>2, <1>3
<1> QED
  BY <1>3, <1>4, <1>5, <1>7, <1>8, <1>9 DEF Injection, ids

LEMMA RowsFlow ==
    ASSUME FlowOK, ReadRows
    PROVE  FlowOK'
<1>1. PICK t \in StillIn(next, Listed) : Show(Bare(t))
  BY DEF ReadRows
<1>2. t \in Seq(Ids)
  BY StillInIs, ListedIs
<1>3. /\ list.resume = "ids" /\ UNCHANGED <<list, rows, next, steady, changes>>
      /\ open /\ open' = FALSE
  BY DEF ReadRows
<1>4. Len(pages) < MaxPages /\ steady \subseteq Listed
  BY <1>3, ReadingAssumption DEF FlowOK
<1> QED
  BY <1>1, <1>2, <1>3, <1>4, BareFlow

LEMMA FlowStep == FlowOK /\ [ReadingNext]_readingVars => FlowOK'
<1> SUFFICES ASSUME FlowOK, [ReadingNext]_readingVars PROVE FlowOK'
  OBVIOUS
<1>1. ASSUME NEW limit \in PageSizes, ReadKeyset(limit) PROVE FlowOK'
  BY <1>1, KeysetRead, CursorFlow DEF ReadKeyset
<1>2. ASSUME NEW limit \in PageSizes, NEW refresh \in BOOLEAN, ReadArm(limit, refresh)
      PROVE  FlowOK'
  <2>1. list.resume = "cursor"
    BY <1>2, ListForm DEF ReadArm, WellFormed
  <2> QED
    BY <1>2, <2>1, ArmRead, CursorFlow
<1>3. ASSUME NEW limit \in PageSizes, ReadOffset(limit) PROVE FlowOK'
  BY <1>3, OffsetRead, OffsetFlow DEF ReadOffset
<1>4. ASSUME NEW limit \in PageSizes, ReadOnce(limit) PROVE FlowOK'
  BY <1>4, OnceFlow
<1>5. ASSUME NEW limit \in PageSizes, ReadMerged(limit) PROVE FlowOK'
  BY <1>5, MergedRead, MergedFlow
<1>6. CASE ReadIds
  BY <1>6, IdsFlow
<1>7. CASE ReadRows
  BY <1>7, RowsFlow
<1>8. CASE Make \/ Drop \/ Move \/ Pin
  BY <1>8, OtherFlow DEF Make, Drop, Move, Pin
<1>9. CASE UNCHANGED readingVars
  BY <1>9 DEF readingVars, FlowOK, Listed
<1> QED
  BY <1>1, <1>2, <1>3, <1>4, <1>5, <1>6, <1>7, <1>8, <1>9 DEF ReadingNext

LEMMA FlowAlways == ReadingSpec => []FlowOK
  BY FlowInitially, FlowStep, PTL DEF ReadingSpec

(* The reader's state has its type: a cursor has a value for each column   *)
(* it is compared by, an offset is a number, a tree's ids differ.          *)
THEOREM ReadingTypes == ReadingSpec => []ReadingTypeOK
<1>1. FlowOK => ReadingTypeOK
  <2> SUFFICES ASSUME FlowOK PROVE ReadingTypeOK
    OBVIOUS
  <2>1. \A i \in DOMAIN pages : Range(pages[i].shown) \subseteq Ids
    <3>1. \A i \in DOMAIN pages : pages[i] \in PageRecord
      BY DEF FlowOK
    <3> HIDE DEF FlowOK
    <3>4. \A i \in DOMAIN pages : pages[i].shown \in Seq(Ids)
      BY ONLY <3>1 DEF PageRecord
    <3>2. \A s \in Seq(Ids) : Range(s) \subseteq Ids
      BY DEF Range
    <3> QED
      BY <3>2, <3>4
  <2>2. list.resume \in {"cursor", "offset", "none", "ids"}
        /\ (list.resume = "cursor" => list.seek = list.order /\ list.order \in Seq(Columns))
    BY ListForm DEF WellFormed
  <2>3. next # << >> /\ list.resume = "cursor" => Len(next) = Len(list.seek)
    BY <2>2 DEF FlowOK, Tuples
  <2>4. next # << >> /\ list.resume = "ids" => IsInjective(next) /\ Range(next) \subseteq Ids
    BY DEF FlowOK, Range
  <2> QED
    BY <2>1, <2>2, <2>3, <2>4 DEF FlowOK, ReadingTypeOK
<1> QED
  BY <1>1, FlowAlways, PTL

-----------------------------------------------------------------------------
(* Totals.                                                                 *)

Counted(i) == {j \in 1..i : pages[j].shown # << >> /\ (j = 1 \/ pages[j].refresh)}
Latest(i)  == CHOOSE j \in Counted(i) : \A k \in Counted(i) : k <= j

HonestPage(i) ==
    IF Counted(i) = {} THEN pages[i].total = 0 /\ pages[i].authority = "snapshot"
    ELSE /\ pages[i].total = pages[Latest(i)].live
         /\ (pages[i].authority = "live") <=> pages[Latest(i)].refresh

LEMMA TotalsAre == TotalsHonest <=> (list.pinned => \A i \in DOMAIN pages : HonestPage(i))
  BY DEF TotalsHonest, HonestPage, Counted, Latest

LEMMA GreatestNatural ==
    ASSUME NEW n \in Nat, NEW N \in SUBSET (1..n), N # {}
    PROVE  \E k \in N : \A j \in N : j <= k
<1> DEFINE D == {n - k : k \in N}
<1>1. D \in SUBSET Nat /\ D # {}
  <2>1. \A k \in N : n - k \in Nat
    OBVIOUS
  <2> QED
    BY <2>1
<1>2. PICK d \in D : \A e \in D : d <= e
  BY <1>1, LeastNatural
<1>3. PICK k \in N : d = n - k
  OBVIOUS
<1>4. ASSUME NEW j \in N PROVE j <= k
  <2>1. n - k <= n - j
    BY <1>2, <1>3
  <2> QED
    BY <2>1
<1> QED
  BY <1>4

LEMMA LatestIs ==
    ASSUME NEW i \in Nat, Counted(i) # {}
    PROVE  Latest(i) \in Counted(i) /\ Latest(i) \in 1..i
<1>1. Counted(i) \in SUBSET (1..i)
  BY DEF Counted
<1>2. \E j \in Counted(i) : \A k \in Counted(i) : k <= j
  BY <1>1, GreatestNatural
<1> QED
  BY <1>1, <1>2 DEF Latest

\* Later pages do not change what was counted.
LEMMA CountedBefore ==
    ASSUME NEW i \in Nat, \A j \in 1..i : pages'[j] = pages[j]
    PROVE  Counted(i)' = Counted(i) /\ Latest(i)' = Latest(i)
  BY DEF Counted, Latest

LEMMA TotalsStep ==
    ASSUME FlowOK, TotalsHonest, list.pinned,
           NEW limit \in PageSizes, NEW refresh \in BOOLEAN, ReadArm(limit, refresh)
    PROVE  \A i \in DOMAIN pages' : HonestPage(i)'
<1>1. PICK s, items, page :
        /\ CursorPage(limit, s, << >>, items, page)
        /\ LET counted == next = << >> \/ refresh
           IN  /\ page.shown = items
               /\ page.refresh = refresh
               /\ page.total = IF items # << >> /\ counted THEN page.live
                               ELSE TotalFromCursor
               /\ page.authority =
                    IF items = << >> \/ ~counted THEN AuthorityFromCursor
                    ELSE IF refresh THEN "live" ELSE "snapshot"
  BY ArmRead
<1>2. list.resume = "cursor" /\ open
  BY <1>1, ListForm DEF WellFormed, CursorPage
<1>11. PICK n \in Nat : n = Len(pages)
  BY DEF FlowOK
<1>3. n \in Nat /\ DOMAIN pages = 1..n
  BY <1>11 DEF FlowOK
<1>4. /\ Len(pages') = n + 1 /\ pages' \in Seq(PageRecord)
      /\ \A i \in 1..n : pages'[i] = pages[i]
      /\ pages'[n + 1] = page
  BY <1>1, <1>11, ShowIs DEF CursorPage
<1>5. DOMAIN pages' = 1..n+1
  BY <1>4
<1>6. next = << >> <=> n = 0
  <2>1. pages = << >> <=> n = 0
    BY <1>11 DEF FlowOK
  <2> QED
    BY <1>2, <2>1 DEF FlowOK
<1>7. \A i \in 1..n : HonestPage(i)
  BY <1>3, TotalsAre
<1>8. ASSUME NEW i \in 1..n PROVE HonestPage(i)'
  <2>1. i \in Nat /\ \A j \in 1..i : pages'[j] = pages[j]
    BY <1>3, <1>4
  <2>2. Counted(i)' = Counted(i) /\ Latest(i)' = Latest(i)
    BY <2>1, CountedBefore
  <2>3. Counted(i) # {} => Latest(i) \in 1..i
    BY <2>1, LatestIs
  <2>4. HonestPage(i) /\ pages'[i] = pages[i]
    BY <1>4, <1>7
  <2> QED
    BY <2>1, <2>2, <2>3, <2>4 DEF HonestPage
<1>9. HonestPage(n + 1)'
  <2>1. CASE items # << >> /\ (n = 0 \/ refresh)
    <3>1. n + 1 \in Counted(n + 1)' /\ Counted(n + 1)' \subseteq 1..n+1
      BY <1>1, <1>3, <1>4, <2>1 DEF Counted
    <3>2. \A k \in Counted(n + 1)' : k <= n + 1
      BY <1>3, <3>1
    <3>3. Latest(n + 1)' \in Counted(n + 1)' /\ n + 1 <= Latest(n + 1)'
      BY <3>1, <3>2 DEF Latest
    <3>4. Latest(n + 1)' = n + 1
      BY <1>3, <3>1, <3>3
    <3>5. /\ page.total = page.live
          /\ page.authority = IF refresh THEN "live" ELSE "snapshot"
          /\ page.refresh = refresh
      BY <1>1, <1>6, <2>1
    <3> QED
      BY <1>4, <3>1, <3>4, <3>5 DEF HonestPage
  <2>2. CASE ~(items # << >> /\ (n = 0 \/ refresh))
    <3>1. page.total = TotalFromCursor /\ page.authority = AuthorityFromCursor
      BY <1>1, <1>6, <2>2
    <3>2. n + 1 \notin Counted(n + 1)'
      BY <1>1, <1>3, <1>4, <2>2 DEF Counted
    <3>3. Counted(n + 1)' = Counted(n)
      <4>1. \A j \in 1..n+1 : j = n + 1 \/ j \in 1..n
        BY <1>3
      <4>2. \A j \in 1..n : j \in 1..n+1
        BY <1>3
      <4> QED
        BY <1>4, <3>2, <4>1, <4>2 DEF Counted
    <3>4. Latest(n + 1)' = Latest(n)
      BY <3>3 DEF Latest
    <3>5. CASE n = 0
      <4>1. Counted(n) = {} /\ pages = << >>
        BY <1>2, <1>6, <3>5 DEF Counted, FlowOK
      <4> QED
        BY <1>4, <3>1, <3>3, <4>1 DEF HonestPage, TotalFromCursor, AuthorityFromCursor
    <3>6. CASE n # 0
      <4>1. n \in 1..n /\ pages # << >> /\ Last(pages) = pages[n]
        BY <1>2, <1>3, <1>6, <1>11, <3>6 DEF Last, FlowOK
      <4>2. HonestPage(n) /\ page.total = pages[n].total
            /\ page.authority = pages[n].authority
        BY <1>7, <3>1, <4>1 DEF TotalFromCursor, AuthorityFromCursor
      <4>3. Counted(n) # {} => Latest(n) \in 1..n
        BY <1>3, LatestIs
      <4> QED
        BY <1>4, <3>3, <3>4, <4>2, <4>3 DEF HonestPage
    <3> QED
      BY <3>5, <3>6
  <2> QED
    BY <2>1, <2>2
<1>10. \A i \in 1..n+1 : i = n + 1 \/ i \in 1..n
  BY <1>3
<1> QED
  BY <1>5, <1>8, <1>9, <1>10

(* The totals of a search: what a page carries on is what was counted on   *)
(* the last page that had rows and was to count (search_multi.py).         *)
THEOREM TotalsAreCounted == ReadingSpec => []TotalsHonest
<1>1. ReadingInit => TotalsHonest
  BY DEF ReadingInit, TotalsHonest
<1>2. FlowOK /\ TotalsHonest /\ [ReadingNext]_readingVars => TotalsHonest'
  <2> SUFFICES ASSUME FlowOK, TotalsHonest, [ReadingNext]_readingVars
               PROVE  TotalsHonest'
    OBVIOUS
  <2>1. ASSUME NEW limit \in PageSizes, NEW refresh \in BOOLEAN, ReadArm(limit, refresh)
        PROVE  TotalsHonest'
    <3>1. list.pinned
      BY <2>1 DEF ReadArm
    <3>2. (list.pinned => \A i \in DOMAIN pages : HonestPage(i))'
      BY <2>1, <3>1, TotalsStep
    <3> QED
      BY <3>2, TotalsAre, PTL
  <2>2. ASSUME UNCHANGED <<list, pages>> PROVE TotalsHonest'
    <3>1. \A i : HonestPage(i)' <=> HonestPage(i)
      BY <2>2 DEF HonestPage, Counted, Latest
    <3>2. (list.pinned => \A i \in DOMAIN pages : HonestPage(i))'
      BY <2>2, <3>1, TotalsAre
    <3> QED
      BY <3>2, TotalsAre, PTL
  <2>3. ASSUME UNCHANGED list, ~list.pinned PROVE TotalsHonest'
    BY <2>3 DEF TotalsHonest
  <2>4. \A limit : ReadKeyset(limit) \/ ReadOffset(limit) \/ ReadOnce(limit) \/ ReadMerged(limit)
            \/ ReadRows => UNCHANGED list /\ ~list.pinned
    BY ListForm
    DEF ReadKeyset, ReadOffset, ReadOnce, ReadMerged, ReadRows, Start, WellFormed
  <2>5. ReadIds \/ Make \/ Drop \/ Move \/ Pin \/ UNCHANGED readingVars
            => UNCHANGED <<list, pages>>
    BY DEF ReadIds, Make, Drop, Move, Pin, Other, readingVars
  <2> QED
    BY <2>1, <2>2, <2>3, <2>4, <2>5 DEF ReadingNext
<1> QED
  BY <1>1, <1>2, FlowAlways, PTL DEF ReadingSpec

-----------------------------------------------------------------------------
(* Merged lists.                                                           *)

NoWorse(x, y, columns) == ~Precedes(Values(y, columns), Values(x, columns))

Rivals(id) == {x \in Listed \ {id} : ArmOf[x] = ArmOf[id] /\ NoWorse(x, id, list.cut)}

Best(shown) ==
    /\ \A j \in DOMAIN shown : \A i \in 1..j-1 : NoWorse(shown[i], shown[j], list.order)
    /\ \A id \in Listed \ Range(shown) :
          \/ shown # << >> /\ \A x \in Range(shown) : NoWorse(x, id, list.order)
          \/ \E n \in PageSizes : Cardinality(Rivals(id)) >= CapFor(n)

LEMMA BestFirstIs == BestFirst <=> (list.cut # << >> /\ pages # << >> => Best(pages[1].shown))
  BY DEF BestFirst, Best, Rivals, NoWorse

LEMMA ValuesKept ==
    ASSUME NEW id, rows'[id] = rows[id], UNCHANGED list
    PROVE  \A columns : Values(id, columns)' = Values(id, columns)
  BY DEF Values, Column, Final

LEMMA BestKept == UNCHANGED <<list, rows>> => \A shown : Best(shown)' <=> Best(shown)
<1> SUFFICES ASSUME UNCHANGED <<list, rows>> PROVE \A shown : Best(shown)' <=> Best(shown)
  OBVIOUS
<1>1. \A id, columns : Values(id, columns)' = Values(id, columns)
  BY ValuesKept
<1>2. Listed' = Listed
  BY DEF Listed
<1>3. \A id : Rivals(id)' = Rivals(id)
  BY <1>1, <1>2 DEF Rivals, NoWorse
<1>4. \A x, y : NoWorse(x, y, list.order)' <=> NoWorse(x, y, list.order)
  BY <1>1 DEF NoWorse
<1>5. \A n : CapFor(n)' = CapFor(n)
  BY DEF CapFor
<1> QED
  BY <1>2, <1>3, <1>4, <1>5 DEF Best

\* A row that its arm cuts off has as many rivals as the arm keeps.
LEMMA CutOff ==
    ASSUME FlowOK, NEW cap \in Nat, NEW id \in Listed,
           NEW s \in Sorted({x \in Listed : ArmOf[x] = ArmOf[id]}, list.cut),
           id \notin Range(FirstOf(s, cap))
    PROVE  Cardinality(Rivals(id)) >= cap
<1> DEFINE arm == {x \in Listed : ArmOf[x] = ArmOf[id]}
           items == FirstOf(s, cap)
<1>1. IsFiniteSet(arm) /\ id \in arm /\ arm \subseteq Listed
  BY ListedIs, FS_Subset
<1> HIDE DEF arm
<1>2. /\ s \in Seq(arm) /\ Range(s) = arm
      /\ \A i, j \in 1..Len(s) : s[i] = s[j] => i = j
      /\ \A i, j \in 1..Len(s) :
            i < j => ~Precedes(Values(s[j], list.cut), Values(s[i], list.cut))
  BY <1>1, SortedIs DEF arm
<1>3. /\ items \in Seq(arm)
      /\ Len(items) = IF cap < Len(s) THEN cap ELSE Len(s)
      /\ \A i \in 1..Len(items) : items[i] = s[i]
  BY <1>2, FirstOfIs
<1> HIDE DEF items
<1>4. PICK k \in 1..Len(s) : s[k] = id
  BY <1>1, <1>2 DEF Range
<1>5. ~(k \in 1..Len(items))
  <2>1. k \in 1..Len(items) => items[k] = id /\ k \in DOMAIN items
    BY <1>3, <1>4
  <2> QED
    BY <2>1 DEF Range, items
<1>6. cap < k /\ cap < Len(s)
  BY <1>2, <1>3, <1>4, <1>5
<1>7. \A i \in 1..cap : s[i] \in Rivals(id)
  <2> SUFFICES ASSUME NEW i \in 1..cap PROVE s[i] \in Rivals(id)
    OBVIOUS
  <2>1. i \in 1..Len(s) /\ i < k /\ i # k
    BY <1>2, <1>6
  <2>2. s[i] \in arm /\ s[i] # id
    BY <1>2, <1>4, <2>1
  <2>3. ~Precedes(Values(id, list.cut), Values(s[i], list.cut))
    BY <1>2, <1>4, <2>1
  <2> QED
    BY <2>2, <2>3 DEF Rivals, NoWorse, arm
<1>8. IsFiniteSet(Rivals(id)) /\ IsFiniteSet(1..cap) /\ Cardinality(1..cap) = cap
  BY ListedIs, FS_Subset, FS_Interval DEF Rivals
<1>9. [i \in 1..cap |-> s[i]] \in Injection(1..cap, Rivals(id))
  <2>1. \A i, j \in 1..cap : s[i] = s[j] => i = j
    BY <1>2, <1>6
  <2> QED
    BY <1>7, <2>1 DEF Injection, IsInjective
<1> QED
  BY <1>8, <1>9, FS_Injection

LEMMA CapIs ==
    ASSUME FlowOK, NEW limit \in PageSizes PROVE CapFor(limit) \in Nat
<1>1. list.cap \in {"limit", "surplus", "fixed"}
  BY ListForm DEF WellFormed
<1> QED
  BY <1>1, ReadingAssumption DEF CapFor

LEMMA MergedBest ==
    ASSUME FlowOK, NEW limit \in PageSizes, NEW cut, NEW s, MergedPage(limit, cut, s)
    PROVE  Best(FirstOf(s, limit))
<1> DEFINE rest == UNION {cut[arm] : arm \in Arms}
           shown == FirstOf(s, limit)
<1>1. rest \in SUBSET Listed
  BY DEF MergedPage
<1>2. s \in Sorted(rest, list.order)
  BY DEF MergedPage
<1> HIDE DEF rest
<1>3. /\ Taken(shown, s, rest, limit)
      /\ \A i, j \in 1..Len(s) :
            i < j => ~Precedes(Values(s[j], list.order), Values(s[i], list.order))
  BY <1>1, <1>2, PageTaken
<1>4. /\ s \in Seq(rest) /\ shown \in Seq(rest) /\ limit \in Nat /\ limit # 0
      /\ Len(shown) = IF limit < Len(s) THEN limit ELSE Len(s)
      /\ \A i \in 1..Len(shown) : shown[i] = s[i]
      /\ Range(s) = rest
  BY <1>3, ReadingAssumption DEF Taken
<1> HIDE DEF shown
<1>5. /\ DOMAIN shown = 1..Len(shown) /\ Len(shown) \in Nat /\ Len(s) \in Nat
      /\ DOMAIN s = 1..Len(s)
  BY <1>4
<1>6. \A i \in 1..Len(shown) : i \in 1..Len(s)
  BY <1>4, <1>5
<1>7. \A j \in DOMAIN shown : \A i \in 1..j-1 : NoWorse(shown[i], shown[j], list.order)
  <2> SUFFICES ASSUME NEW j \in DOMAIN shown, NEW i \in 1..j-1
               PROVE  NoWorse(shown[i], shown[j], list.order)
    OBVIOUS
  <2>1. i \in 1..Len(shown) /\ j \in 1..Len(shown) /\ i < j
    BY <1>5
  <2> QED
    BY <1>3, <1>4, <1>6, <2>1 DEF NoWorse
<1>8. ASSUME NEW id \in Listed \ Range(shown), id \in rest
      PROVE  shown # << >> /\ \A x \in Range(shown) : NoWorse(x, id, list.order)
  <2>1. PICK k \in 1..Len(s) : s[k] = id
    BY <1>4, <1>5, <1>8 DEF Range
  <2>2. ~(k \in 1..Len(shown))
    BY <1>4, <1>5, <2>1 DEF Range
  <2>3. Len(shown) < k /\ Len(shown) = limit
    <3>1. Len(shown) < k
      BY <1>5, <2>2
    <3>2. k <= Len(s) /\ k \in Nat /\ Len(s) \in Nat /\ Len(shown) \in Nat
      BY <1>5
    <3>4. Len(shown) # Len(s)
      BY ONLY <3>1, <3>2
    <3> QED
      BY ONLY <1>4, <3>1, <3>4
  <2>4. ASSUME NEW x \in Range(shown) PROVE NoWorse(x, id, list.order)
    <3>1. PICK i \in 1..Len(shown) : shown[i] = x
      BY <1>5 DEF Range
    <3>2. i < k /\ s[i] = x
      BY <1>4, <1>5, <2>3, <3>1
    <3> QED
      BY <1>3, <1>6, <2>1, <3>2 DEF NoWorse
  <2> QED
    BY <1>4, <2>3, <2>4
<1>9. ASSUME NEW id \in Listed \ Range(shown), id \notin rest
      PROVE  \E n \in PageSizes : Cardinality(Rivals(id)) >= CapFor(n)
  <2>1. ArmOf[id] \in Arms
    BY ListedIs DEF Arms
  <2>2. PICK t \in Sorted({x \in Listed : ArmOf[x] = ArmOf[id]}, list.cut) :
          cut[ArmOf[id]] = Range(FirstOf(t, CapFor(limit)))
    BY <2>1 DEF MergedPage
  <2>3. id \notin Range(FirstOf(t, CapFor(limit)))
    BY <1>9, <2>1, <2>2 DEF rest
  <2> QED
    BY <2>3, CutOff, CapIs
<1>10. Best(shown)
  BY <1>7, <1>8, <1>9 DEF Best
<1> QED
  BY <1>10 DEF shown

MergedInv == list.cut # << >> /\ pages # << >> => ~open /\ BestFirst

(* A merged list is in its final order, and what it leaves out was cut for *)
(* rows no worse (services/search_typeahead.py, services/people.py).       *)
THEOREM BestAreFirst == ReadingSpec => []BestFirst
<1>1. ReadingInit => MergedInv
  BY DEF ReadingInit, MergedInv
<1>2. FlowOK /\ MergedInv /\ [ReadingNext]_readingVars => MergedInv'
  <2> SUFFICES ASSUME FlowOK, MergedInv, [ReadingNext]_readingVars PROVE MergedInv'
    OBVIOUS
  <2>1. ASSUME NEW limit \in PageSizes, ReadMerged(limit) PROVE MergedInv'
    <3>1. PICK cut, s : MergedPage(limit, cut, s)
      BY <2>1, MergedRead
    <3>2. Best(FirstOf(s, limit))'
      BY <3>1, MergedBest, BestKept DEF MergedPage
    <3>3. pages = << >> /\ ~open' /\ Show(Bare(FirstOf(s, limit)))
      BY <3>1, ListForm DEF MergedPage, FlowOK, WellFormed
    <3>4. pages'[1] = Bare(FirstOf(s, limit))
      BY <3>3 DEF Show
    <3>5. pages'[1].shown = FirstOf(s, limit)
      BY <3>4 DEF Bare, Page
    <3>6. (list.cut # << >> /\ pages # << >> => Best(pages[1].shown))'
      BY <3>2, <3>5
    <3> QED
      BY <3>3, <3>6, BestFirstIs, PTL DEF MergedInv
  <2>2. ASSUME list.cut = << >>, UNCHANGED list PROVE MergedInv'
    BY <2>2 DEF MergedInv
  <2>3. \A limit : ReadKeyset(limit) \/ (\E refresh : ReadArm(limit, refresh))
                   \/ ReadOffset(limit) \/ ReadOnce(limit) \/ ReadRows \/ ReadIds
            => list.cut = << >> /\ UNCHANGED list
    BY ListForm
    DEF ReadKeyset, ReadArm, ReadOffset, ReadOnce, ReadRows, ReadIds, Start, WellFormed
  <2>4. Make \/ Drop \/ Move \/ Pin => list.cut = << >> /\ UNCHANGED list
    BY ListForm DEF Make, Drop, Move, Pin, Other, WellFormed, FlowOK
  <2>5. ASSUME UNCHANGED readingVars PROVE MergedInv'
    <3>1. \A shown : Best(shown)' <=> Best(shown)
      BY <2>5, BestKept DEF readingVars
    <3>2. MergedInv => (list.cut # << >> /\ pages # << >> => ~open /\ Best(pages[1].shown))
      BY BestFirstIs DEF MergedInv
    <3>3. (list.cut # << >> /\ pages # << >> => ~open /\ Best(pages[1].shown))'
      BY <2>5, <3>1, <3>2 DEF readingVars
    <3> QED
      BY <3>3, BestFirstIs, PTL DEF MergedInv
  <2> QED
    BY <2>1, <2>2, <2>3, <2>4, <2>5 DEF ReadingNext
<1>3. MergedInv => BestFirst
  BY DEF MergedInv, BestFirst
<1> QED
  BY <1>1, <1>2, <1>3, FlowAlways, PTL DEF ReadingSpec

-----------------------------------------------------------------------------
(* What is shown of rows that nobody touched.                              *)

InOrder(x, y) ==
    \/ LowHit(x) \/ LowHit(y)
    \/ x \in Pinned /\ y \notin Pinned
    \/ /\ x \in Pinned <=> y \in Pinned
       /\ LET columns == IF x \in Pinned THEN <<"key">> ELSE list.order
          IN  ~Precedes(Values(y, columns), Values(x, columns))

ShownInOrder ==
    \A i, j \in DOMAIN seen :
        i < j /\ seen[i] \in steady /\ seen[j] \in steady => InOrder(seen[i], seen[j])

LEMMA OrderIs ==
    ASSUME FlowOK
    PROVE  /\ ShownInOrder => PagesOrdered
           /\ PagesOrdered /\ list.resume \in {"cursor", "ids"} => ShownInOrder
<1>1. DOMAIN seen = 1..Len(seen) /\ Len(seen) \in Nat
  BY DEF FlowOK
<1>2. \A j \in DOMAIN seen : \A i \in 1..j-1 : i \in DOMAIN seen /\ i < j
  BY <1>1
<1>3. \A i, j \in DOMAIN seen : i < j => i \in 1..j-1
  BY <1>1
<1>4. PagesOrdered <=>
        (Whole \/ list.resume = "cursor" =>
            \A j \in DOMAIN seen : \A i \in 1..j-1 :
                {seen[i], seen[j]} \subseteq steady => InOrder(seen[i], seen[j]))
  BY DEF PagesOrdered, InOrder
<1>5. \A i, j : {seen[i], seen[j]} \subseteq steady <=> seen[i] \in steady /\ seen[j] \in steady
  OBVIOUS
<1>6. list.resume \in {"cursor", "ids"} => Whole \/ list.resume = "cursor"
  BY DEF Whole
<1> QED
  BY ONLY <1>2, <1>3, <1>4, <1>5, <1>6 DEF ShownInOrder

\* As long as nobody touches a row, it keeps its place.
LEMMA PlaceKept ==
    ASSUME UNCHANGED list, NEW id \in Listed, rows'[id] = rows[id]
    PROVE  /\ \A columns : Values(id, columns)' = Values(id, columns)
           /\ Rank(id)' = Rank(id)
           /\ id \in Pinned' <=> id \in Pinned
           /\ LowHit(id)' <=> LowHit(id)
<1>1. \A columns : Values(id, columns)' = Values(id, columns)
  BY ValuesKept
<1>2. id \in Listed'
  BY DEF Listed
<1> QED
  BY <1>1, <1>2 DEF Rank, Pinned, LowHit

LEMMA InOrderKept ==
    ASSUME UNCHANGED list, NEW x \in Listed, NEW y \in Listed,
           rows'[x] = rows[x], rows'[y] = rows[y]
    PROVE  InOrder(x, y)' <=> InOrder(x, y)
<1>1. /\ \A columns : Values(x, columns)' = Values(x, columns)
      /\ \A columns : Values(y, columns)' = Values(y, columns)
      /\ x \in Pinned' <=> x \in Pinned
      /\ y \in Pinned' <=> y \in Pinned
      /\ LowHit(x)' <=> LowHit(x)
      /\ LowHit(y)' <=> LowHit(y)
  BY PlaceKept
<1> QED
  BY <1>1 DEF InOrder

LEMMA ShownOrderKept ==
    ASSUME ShownInOrder, UNCHANGED <<list, seen>>, steady' \subseteq steady,
           \A id \in steady' : id \in Listed /\ rows'[id] = rows[id]
    PROVE  ShownInOrder'
<1> SUFFICES ASSUME NEW i \in DOMAIN seen, NEW j \in DOMAIN seen, i < j,
                    seen[i] \in steady', seen[j] \in steady'
             PROVE  InOrder(seen[i], seen[j])'
  BY DEF ShownInOrder
<1>1. InOrder(seen[i], seen[j])
  BY DEF ShownInOrder
<1>2. PICK x, y : x = seen[i] /\ y = seen[j]
  OBVIOUS
<1>3. x \in Listed /\ y \in Listed /\ rows'[x] = rows[x] /\ rows'[y] = rows[y]
  BY <1>2
<1>4. InOrder(x, y)'
  BY <1>1, <1>2, <1>3, InOrderKept
<1>5. x = seen'[i] /\ y = seen'[j]
  BY <1>2
<1> QED
  BY <1>4, <1>5

LEMMA TimesAre ==
    ASSUME FlowOK, NEW id
    PROVE  /\ id \notin Range(seen) => Times(id) = 0
           /\ /\ id \in Range(seen)
              /\ \A i, j \in DOMAIN seen : seen[i] = id /\ seen[j] = id => i = j
              => Times(id) = 1
<1> DEFINE places == {i \in DOMAIN seen : seen[i] = id}
<1>1. id \notin Range(seen) => places = {}
  BY DEF Range
<1>2. ASSUME id \in Range(seen), \A i, j \in DOMAIN seen : seen[i] = id /\ seen[j] = id => i = j
      PROVE  \E i : places = {i}
  <2>1. PICK i \in DOMAIN seen : seen[i] = id
    BY <1>2 DEF Range
  <2>2. places = {i}
    BY <1>2, <2>1
  <2> QED
    BY <2>2
<1>3. Times(id) = Cardinality(places)
  BY DEF Times
<1> HIDE DEF places
<1> QED
  BY <1>1, <1>2, <1>3, FS_EmptySet, FS_Singleton

-----------------------------------------------------------------------------
(* Trees.                                                                  *)

\* The ids of the first statement, in order; the rows of the second one.
TreeShape ==
    /\ pages = << >> /\ next # << >> =>
          /\ steady \subseteq Range(next)
          /\ \A i, j \in DOMAIN next :
                i < j /\ next[i] \in steady /\ next[j] \in steady =>
                    ~Precedes(Rank(next[j]), Rank(next[i]))
    /\ IsInjective(seen)
    /\ ~open => steady \subseteq Range(seen)
    /\ ShownInOrder

LEMMA NoPins == FlowOK /\ list.resume # "cursor" => Pinned = {}
  BY ListForm DEF WellFormed, Pinned

LEMMA TreeIds ==
    ASSUME FlowOK, ReadIds PROVE TreeShape'
<1>1. PICK s \in Sorted(Listed, list.order) : next' = s
  BY DEF ReadIds
<1>2. /\ s \in Seq(Listed) /\ Range(s) = Listed
      /\ \A i, j \in 1..Len(s) :
            i < j => ~Precedes(Values(s[j], list.order), Values(s[i], list.order))
  BY ListedIs, SortedIs
<1>3. /\ list.resume = "ids" /\ UNCHANGED <<list, rows, open, pages, seen, changes>> /\ open
      /\ steady' = Listed
  BY DEF ReadIds
<1>4. seen' = << >> /\ DOMAIN seen' = {}
  BY <1>3 DEF FlowOK
<1>5. \A id : Rank(id)' = Rank(id)
  BY <1>3, ValuesKept DEF Rank
<1>6. \A i, j \in DOMAIN s : i < j => ~Precedes(Rank(s[j])', Rank(s[i])')
  <2>1. DOMAIN s = 1..Len(s)
    BY <1>2
  <2>2. \A i, j \in DOMAIN s : i < j => ~Precedes(Rank(s[j]), Rank(s[i]))
    BY <1>2, <2>1 DEF Rank
  <2> QED
    BY <1>5, <2>2
<1>7. (\A i, j \in DOMAIN next : i < j => ~Precedes(Rank(next[j]), Rank(next[i])))'
  BY <1>1, <1>6
<1>8. (steady \subseteq Range(next))'
  BY <1>1, <1>2, <1>3
<1>9. IsInjective(seen)' /\ ShownInOrder'
  BY <1>4 DEF IsInjective, ShownInOrder
<1> QED
  BY <1>3, <1>7, <1>8, <1>9 DEF TreeShape

LEMMA TreeRows ==
    ASSUME FlowOK, TreeShape, ReadRows PROVE TreeShape'
<1>1. PICK t \in StillIn(next, Listed) : Show(Bare(t))
  BY DEF ReadRows
<1>2. /\ t \in Seq(Listed) /\ IsInjective(t) /\ Range(t) = Range(next) \cap Listed
      /\ \A i, j \in DOMAIN t :
            i < j => \E k, l \in DOMAIN next : k < l /\ next[k] = t[i] /\ next[l] = t[j]
  BY ListedIs, StillInIs
<1>3. /\ list.resume = "ids" /\ UNCHANGED <<list, rows, next, steady, changes>>
      /\ open /\ open' = FALSE /\ next # << >>
  BY DEF ReadRows
<1>4. pages = << >> /\ seen = << >>
  BY <1>3 DEF FlowOK
<1>5. t \in Seq(Ids)
  BY <1>2, ListedIs
<1>6. Bare(t).shown = t /\ Bare(t) \in PageRecord
  BY <1>5, BarePage
<1>7. seen' = t
  BY <1>1, <1>4, <1>5, <1>6 DEF Show
<1>8. pages' # << >>
  BY <1>1, <1>4 DEF Show
<1>9. steady \subseteq Range(t)
  BY <1>2, <1>3, <1>4 DEF TreeShape, FlowOK
<1>10. \A id : Rank(id)' = Rank(id) /\ (id \in Pinned' <=> id \in Pinned)
  BY <1>3, ValuesKept DEF Rank, Pinned, Listed
<1>11. ASSUME NEW i \in DOMAIN t, NEW j \in DOMAIN t, i < j, t[i] \in steady, t[j] \in steady
       PROVE  InOrder(t[i], t[j])
  <2>1. PICK k, l \in DOMAIN next : k < l /\ next[k] = t[i] /\ next[l] = t[j]
    BY <1>2, <1>11
  <2>2. ~Precedes(Rank(t[j]), Rank(t[i]))
    BY <1>3, <1>4, <1>11, <2>1 DEF TreeShape
  <2> QED
    BY <1>3, <2>2, NoPins DEF InOrder, Rank
<1>12. ShownInOrder'
  <2>1. \A i, j \in DOMAIN t : t[i] \in Listed /\ t[j] \in Listed
    BY <1>2
  <2>2. \A i, j \in DOMAIN t :
          i < j /\ t[i] \in steady /\ t[j] \in steady => InOrder(t[i], t[j])'
    BY <1>3, <1>11, <2>1, InOrderKept
  <2>3. DOMAIN seen' = DOMAIN t /\ \A i : seen'[i] = t[i]
    BY <1>7
  <2> QED
    BY <1>3, <1>7, <2>2 DEF ShownInOrder
<1> QED
  BY <1>2, <1>3, <1>7, <1>8, <1>9, <1>12 DEF TreeShape

LEMMA TreeOther ==
    ASSUME FlowOK, list.resume = "ids", TreeShape, Other, Make \/ Drop \/ Move \/ Pin
    PROVE  TreeShape'
<1>1. /\ steady' \subseteq steady
      /\ \A id \in steady' : id \in Listed /\ rows'[id] = rows[id]
  BY OtherFlow
<1>2. UNCHANGED <<list, next, open, pages, seen>> /\ open /\ next # << >>
  BY DEF Other
<1>3. ShownInOrder'
  BY <1>1, <1>2, ShownOrderKept DEF TreeShape
<1>4. \A id \in steady' : Rank(id)' = Rank(id)
  BY <1>1, <1>2, PlaceKept
<1>5. pages = << >>
  BY <1>2 DEF FlowOK
<1>6. (\A i, j \in DOMAIN next :
          i < j /\ next[i] \in steady /\ next[j] \in steady =>
              ~Precedes(Rank(next[j]), Rank(next[i])))'
  <2> SUFFICES ASSUME NEW i \in DOMAIN next, NEW j \in DOMAIN next, i < j,
                      next[i] \in steady', next[j] \in steady'
               PROVE  ~Precedes(Rank(next[j])', Rank(next[i])')
    BY <1>2
  <2>1. PICK x, y : x = next[i] /\ y = next[j]
    OBVIOUS
  <2>2. Rank(x)' = Rank(x) /\ Rank(y)' = Rank(y)
    BY <1>4, <2>1
  <2>3. ~Precedes(Rank(y), Rank(x))
    BY <1>1, <1>2, <1>5, <2>1 DEF TreeShape
  <2>4. next' = next
    BY <1>2
  <2> QED
    BY <2>1, <2>2, <2>3, <2>4
<1> QED
  BY <1>1, <1>2, <1>3, <1>5, <1>6 DEF TreeShape

-----------------------------------------------------------------------------
(* Cursors.                                                                *)

\* Rows at or before the cursor, and rows after it.
Passed(id) == ~Precedes(Bound(next), Rank(id))

Tied(id) ==
    list.seek = <<"key">> /\ \E i \in DOMAIN pages : pages[i].last = rows[id].key

\* A row that nobody touched has been shown if the cursor passed it, is yet to
\* be shown otherwise, or had the time of a page's last row.
Settled(id) ==
    \/ LowHit(id)
    \/ /\ id \in Range(seen)
       /\ open /\ next # << >> => (id \in Pinned \/ Passed(id))
    \/ id \notin Range(seen) /\ Tied(id)
    \/ id \notin Range(seen) /\ open /\ id \notin Pinned /\ ~Passed(id)

CursorShape ==
    /\ \A i, j \in DOMAIN seen :
          seen[i] = seen[j] /\ seen[i] \in steady /\ ~LowHit(seen[i]) => i = j
    /\ \A id \in steady : Settled(id)
    /\ ShownInOrder

LEMMA RankTyped ==
    ASSUME FlowOK, list.resume # "none"
    PROVE  /\ Len(list.order) \in Nat \ {0}
           /\ \A id \in Listed : Rank(id) \in Tuples(Len(list.order))
<1>1. list.order \in Seq(Columns) /\ Len(list.order) > 0
  BY ListForm DEF WellFormed
<1>2. Len(list.order) \in Nat
  BY <1>1
<1>3. \A id \in Listed : Rank(id) \in Tuples(Len(list.order))
  BY <1>1, ValuesTyped DEF Rank
<1> QED
  BY <1>1, <1>2, <1>3

LEMMA CursorTyped ==
    ASSUME FlowOK, list.resume = "cursor"
    PROVE  /\ Len(list.order) \in Nat \ {0}
           /\ \A id \in Listed : Rank(id) \in Tuples(Len(list.order))
           /\ \A id \in Listed : CursorOf(id) = Rank(id)
           /\ next # << >> => Bound(next) \in Tuples(Len(list.order))
<1>1. /\ list.order \in Seq(Columns) /\ Len(list.order) > 0 /\ list.seek = list.order
  BY ListForm DEF WellFormed
<1>2. Len(list.order) \in Nat
  BY <1>1
<1>3. \A id \in Listed : Rank(id) \in Tuples(Len(list.order))
  BY <1>1, ValuesTyped DEF Rank
<1>4. next # << >> => next \in Tuples(Len(list.order))
  BY DEF FlowOK
<1>5. next # << >> => Bound(next) \in Tuples(Len(list.order))
  BY <1>2, <1>4 DEF Bound, Tuples
<1> QED
  BY <1>1, <1>2, <1>3, <1>5 DEF CursorOf, Rank

LEMMA RankDiffers ==
    ASSUME FlowOK, list.resume # "none", list.order[Len(list.order)] \in {"id", "-id"},
           NEW x \in Listed, NEW y \in Listed, x # y
    PROVE  Rank(x) # Rank(y)
<1>1. list.order \in Seq(Columns) /\ Len(list.order) > 0
  BY ListForm DEF WellFormed
<1>2. Len(list.order) \in DOMAIN list.order
  BY <1>1
<1>3. x \in Nat /\ y \in Nat
  BY ListedIs, ReadingAssumption
<1>4. Column(x, list.order[Len(list.order)]) # Column(y, list.order[Len(list.order)])
  BY <1>3 DEF Column
<1> QED
  BY <1>2, <1>4 DEF Rank, Values

\* The rank that the driver binds is no other to rows above the lowest hits.
LEMMA BoundExact ==
    ASSUME FlowOK, list.resume = "cursor", NEW last \in Listed, NEW id \in Listed, ~LowHit(id)
    PROVE  Precedes(Bound(Rank(last)), Rank(id)) <=> Precedes(Rank(last), Rank(id))
<1> DEFINE n == Len(list.order)
           p == Rank(last)
           q == Rank(id)
<1>1. n \in Nat \ {0} /\ p \in Tuples(n) /\ q \in Tuples(n)
  BY CursorTyped
<1>2. CASE ~(list.low /\ p[1] = 2)
  BY <1>2 DEF Bound
<1>3. CASE list.low /\ p[1] = 2
  <2>1. list.order[1] = "rank" /\ 1 \in DOMAIN list.order
    BY <1>1, <1>3, ListForm DEF WellFormed
  <2>2. q[1] = 2 * rows[id].rank
    BY <2>1 DEF Rank, Values, Column
  <2>3. rows[id].rank \in 1..MaxRank /\ MaxRank \in Nat
    BY ListedIs, ReadingAssumption DEF Row
  <2>4. rows[id].rank # 1
    BY <1>3 DEF LowHit
  <2>5. q[1] > 3
    BY <2>2, <2>3, <2>4
  <2>6. Bound(p) \in Tuples(n) /\ Bound(p)[1] = 3
    BY <1>1, <1>3 DEF Bound, Tuples
  <2> HIDE DEF p, q, n
  <2>7. \A r \in Tuples(n) : r[1] < q[1] => ~Precedes(r, q)
    <3> SUFFICES ASSUME NEW r \in Tuples(n), r[1] < q[1], Precedes(r, q) PROVE FALSE
      OBVIOUS
    <3>1. PICK i \in 1..n : r[i] > q[i] /\ \A j \in 1..i-1 : r[j] = q[j]
      BY DEF Precedes, Tuples
    <3>2. i = 1 \/ 1 \in 1..i-1
      BY <1>1
    <3>3. r[1] \in Int /\ q[1] \in Int
      BY <1>1 DEF Tuples
    <3> QED
      BY <3>1, <3>2, <3>3
  <2>8. p[1] < q[1] /\ Bound(p)[1] < q[1]
    <3>1. q[1] \in Int
      BY <1>1 DEF Tuples
    <3> QED
      BY <1>3, <2>5, <2>6, <3>1
  <2>9. ~Precedes(p, q) /\ ~Precedes(Bound(p), q)
    BY <1>1, <2>6, <2>7, <2>8
  <2> QED
    BY <2>9 DEF p, q
<1> QED
  BY <1>2, <1>3

LEMMA RangeOfJoin ==
    ASSUME NEW S, NEW a \in Seq(S), NEW b \in Seq(S)
    PROVE  /\ Range(a \o b) = Range(a) \cup Range(b)
           /\ DOMAIN (a \o b) = 1..Len(a) + Len(b)
           /\ \A i \in DOMAIN (a \o b) :
                \/ i \in 1..Len(a) /\ (a \o b)[i] = a[i]
                \/ i > Len(a) /\ i - Len(a) \in 1..Len(b) /\ (a \o b)[i] = b[i - Len(a)]
<1>1. /\ DOMAIN (a \o b) = 1..Len(a) + Len(b) /\ Len(a) \in Nat /\ Len(b) \in Nat
      /\ \A i \in 1..Len(a) + Len(b) : (a \o b)[i] = IF i <= Len(a) THEN a[i] ELSE b[i - Len(a)]
  OBVIOUS
<1>2. \A i \in DOMAIN (a \o b) :
        \/ i \in 1..Len(a) /\ (a \o b)[i] = a[i]
        \/ i > Len(a) /\ i - Len(a) \in 1..Len(b) /\ (a \o b)[i] = b[i - Len(a)]
  BY <1>1
<1>3. DOMAIN a = 1..Len(a) /\ DOMAIN b = 1..Len(b)
  OBVIOUS
<1>4. Range(a \o b) \subseteq Range(a) \cup Range(b)
  BY <1>2, <1>3 DEF Range
<1>5. \A i \in 1..Len(a) : i \in DOMAIN (a \o b) /\ (a \o b)[i] = a[i]
  BY <1>1
<1>6. \A i \in 1..Len(b) : Len(a) + i \in DOMAIN (a \o b) /\ (a \o b)[Len(a) + i] = b[i]
  BY <1>1
<1>7. Range(a) \cup Range(b) \subseteq Range(a \o b)
  BY <1>3, <1>5, <1>6 DEF Range
<1> QED
  BY <1>1, <1>2, <1>4, <1>7

\* The rows of a page, the pinned ones first.
Block(B, above, items) ==
    /\ B \in Seq(Listed)
    /\ Range(B) = above \cup Range(items)
    /\ \A i, j \in DOMAIN B : B[i] = B[j] => i = j
    /\ \A i, j \in DOMAIN B : i < j => InOrder(B[i], B[j])

LEMMA BlockOf ==
    ASSUME FlowOK, list.resume = "cursor",
           NEW rest \in SUBSET Listed, NEW above \in SUBSET Listed,
           above \subseteq Pinned, rest \cap Pinned = {},
           NEW limit, NEW s, NEW top, NEW items,
           Taken(items, s, rest, limit), limit \in Nat,
           \A i, j \in 1..Len(s) : i < j => ~Precedes(Rank(s[j]), Rank(s[i])),
           top \in Seq(above), Range(top) = above,
           \A i, j \in 1..Len(top) : top[i] = top[j] => i = j,
           \A i, j \in 1..Len(top) :
              i < j => ~Precedes(Values(top[j], <<"key">>), Values(top[i], <<"key">>))
    PROVE  Block(top \o items, above, items)
<1> DEFINE B == top \o items
<1>1. top \in Seq(Listed) /\ items \in Seq(Listed)
  BY DEF Taken
<1>2. B \in Seq(Listed) /\ Range(B) = above \cup Range(items)
  BY <1>1, RangeOfJoin
<1>3. \A i \in DOMAIN B :
        \/ i \in 1..Len(top) /\ B[i] = top[i]
        \/ i > Len(top) /\ i - Len(top) \in 1..Len(items) /\ B[i] = items[i - Len(top)]
  BY <1>1, RangeOfJoin
<1>4. DOMAIN B \subseteq Nat /\ Len(top) \in Nat
  BY <1>1
<1>5. \A i \in 1..Len(top) : top[i] \in Pinned
  OBVIOUS
<1>6. \A i \in 1..Len(items) : items[i] \notin Pinned /\ i \in 1..Len(s) /\ items[i] = s[i]
  <2>1. Len(s) \in Nat /\ Len(items) \in Nat
    BY DEF Taken
  <2>2. \A i \in 1..Len(items) : items[i] \in rest
    BY DEF Taken
  <2> QED
    BY <2>1, <2>2 DEF Taken
<1> HIDE DEF B
<1>7. ASSUME NEW i \in DOMAIN B, NEW j \in DOMAIN B, B[i] = B[j] PROVE i = j
  <2>1. CASE i \in 1..Len(top) /\ B[i] = top[i] /\ j \in 1..Len(top) /\ B[j] = top[j]
    BY <1>7, <2>1
  <2>2. CASE /\ i > Len(top) /\ i - Len(top) \in 1..Len(items) /\ B[i] = items[i - Len(top)]
             /\ j > Len(top) /\ j - Len(top) \in 1..Len(items) /\ B[j] = items[j - Len(top)]
    <3>1. i - Len(top) = j - Len(top)
      BY <1>6, <1>7, <2>2 DEF Taken
    <3> QED
      BY <1>4, <3>1
  <2> QED
    BY <1>3, <1>5, <1>6, <1>7, <2>1, <2>2
<1>8. ASSUME NEW i \in DOMAIN B, NEW j \in DOMAIN B, i < j PROVE InOrder(B[i], B[j])
  <2>1. CASE i \in 1..Len(top) /\ B[i] = top[i] /\ j \in 1..Len(top) /\ B[j] = top[j]
    BY <1>5, <1>8, <2>1 DEF InOrder
  <2>2. CASE /\ i \in 1..Len(top) /\ B[i] = top[i]
             /\ j > Len(top) /\ j - Len(top) \in 1..Len(items) /\ B[j] = items[j - Len(top)]
    BY <1>5, <1>6, <2>2 DEF InOrder
  <2>3. CASE /\ i > Len(top) /\ i - Len(top) \in 1..Len(items) /\ B[i] = items[i - Len(top)]
             /\ j > Len(top) /\ j - Len(top) \in 1..Len(items) /\ B[j] = items[j - Len(top)]
    <3>1. i - Len(top) < j - Len(top)
      BY <1>4, <1>8
    <3>2. ~Precedes(Rank(B[j]), Rank(B[i]))
      BY <1>6, <2>3, <3>1
    <3> QED
      BY <1>6, <2>3, <3>2 DEF InOrder, Rank
  <2>4. ~(i > Len(top) /\ j \in 1..Len(top))
    BY <1>4, <1>8
  <2> QED
    BY <1>3, <2>1, <2>2, <2>3, <2>4
<1> QED
  BY <1>2, <1>7, <1>8 DEF Block, B

\* The rows that a page adds, and how the cursor moves over the others.
LEMMA PageSettles ==
    ASSUME FlowOK, list.resume = "cursor", CursorShape,
           NEW limit \in PageSizes, NEW s, NEW top, NEW items, NEW page,
           CursorPage(limit, s, top, items, page)
    PROVE  CursorShape'
<1>1. PICK rest \in SUBSET Listed, above \in SUBSET Listed :
        /\ rest = IF next = << >> THEN Listed \ Pinned ELSE After(Listed \ Pinned, next)
        /\ above = IF next = << >> THEN Pinned ELSE {}
        /\ Taken(items, s, rest, limit)
        /\ top \in Seq(above) /\ Range(top) = above
        /\ \A i, j \in 1..Len(top) : top[i] = top[j] => i = j
        /\ \A i, j \in 1..Len(top) :
              i < j => ~Precedes(Values(top[j], <<"key">>), Values(top[i], <<"key">>))
        /\ \A i, j \in 1..Len(s) : i < j => ~Precedes(Rank(s[j]), Rank(s[i]))
        /\ items # << >> => Last(items) \in rest /\ Last(items) = s[Len(items)]
                            /\ Len(items) \in 1..Len(s)
  BY CursorPageIs
<1>2. PICK B : B = top \o items
  OBVIOUS
<1>3. Block(B, above, items)
  <2>1. above \subseteq Pinned /\ rest \cap Pinned = {}
    BY <1>1 DEF After
  <2> QED
    BY <1>1, <1>2, <2>1, BlockOf, ReadingAssumption
<1>4. /\ open /\ UNCHANGED <<list, rows>>
      /\ open' => items # << >> /\ next' = CursorOf(Last(items))
      /\ ~open' => Len(items) = Len(s)
      /\ steady' = IF pages = << >> THEN Listed ELSE steady
  BY DEF CursorPage
<1>5. pages = << >> <=> next = << >>
  BY <1>4 DEF FlowOK
<1>6. seen' = seen \o B /\ seen \in Seq(Ids) /\ B \in Seq(Ids)
  BY <1>2, <1>3, ListedIs DEF CursorPage, Show, Block, FlowOK
<1>7. Range(seen') = Range(seen) \cup above \cup Range(items)
  BY <1>3, <1>6, RangeOfJoin DEF Block
<1>8. next = << >> => seen = << >> /\ Range(seen) = {}
  BY <1>5 DEF FlowOK, Range
<1>9. next # << >> => above = {} /\ steady' = steady
  BY <1>1, <1>4, <1>5
<1>10. /\ \A id \in rest : id \in Listed /\ id \notin Pinned
       /\ \A id \in Range(items) : id \in rest
  BY <1>1 DEF After, Taken, Range
<1>11. \A id \in Listed : id \in rest <=> id \notin Pinned /\ (next # << >> => ~Passed(id))
  <2>1. list.seek = list.order
    BY ListForm DEF WellFormed
  <2> QED
    BY <1>1, <2>1 DEF After, Passed, Rank
<1>12. \A id : id \in Listed =>
         /\ Rank(id)' = Rank(id)
         /\ id \in Pinned' <=> id \in Pinned
         /\ LowHit(id)' <=> LowHit(id)
  BY <1>4, PlaceKept
<1>13. steady' \subseteq Listed
  BY <1>4 DEF FlowOK
\* What is still to come has not been shown.
<1>14. \A id \in steady' : id \in rest /\ ~LowHit(id) => id \notin Range(seen)
  BY <1>8, <1>9, <1>4, <1>10, <1>11 DEF CursorShape, Settled
\* The new cursor passes what it passed before and what the page shows.
<1>15. open' => Last(items) \in rest /\ next' = Rank(Last(items))
  BY <1>1, <1>4, <1>10, CursorTyped
<1>16. \A id \in Listed : open' /\ ~LowHit(id) =>
         (Passed(id)' <=> ~Precedes(Rank(Last(items)), Rank(id)))
  <2> SUFFICES ASSUME NEW id \in Listed, open', ~LowHit(id)
               PROVE  Passed(id)' <=> ~Precedes(Rank(Last(items)), Rank(id))
    OBVIOUS
  <2>1. Passed(id)' <=> ~Precedes(Bound(Rank(Last(items))), Rank(id))
    BY <1>4, <1>12, <1>15 DEF Passed, Bound
  <2>2. Last(items) \in Listed
    BY <1>10, <1>15
  <2> QED
    BY <2>1, <2>2, BoundExact
<1>17. \A id \in Listed : next # << >> /\ Passed(id) =>
         \A x \in rest : ~Precedes(Rank(x), Rank(id))
  <2> SUFFICES ASSUME NEW id \in Listed, next # << >>, Passed(id), NEW x \in rest,
                      Precedes(Rank(x), Rank(id))
               PROVE  FALSE
    OBVIOUS
  <2>1. x \in Listed /\ Precedes(Bound(next), Rank(x))
    BY <1>10, <1>11 DEF Passed
  <2>2. Precedes(Bound(next), Rank(id))
    BY <2>1, CursorTyped, PrecedesTransitive
  <2> QED
    BY <2>2 DEF Passed
<1>18. ASSUME NEW id \in steady', ~LowHit(id), id \in rest
       PROVE  Settled(id)'
  <2>1. id \in Listed /\ id \notin Range(seen) /\ id \notin above
    BY <1>1, <1>10, <1>14, <1>18
  <2>2. PICK i \in 1..Len(s) : s[i] = id
    BY <1>1, <1>18 DEF Taken, Range
  <2>3. Len(items) \in Nat /\ Len(s) \in Nat /\ Len(items) <= Len(s)
        /\ DOMAIN items = 1..Len(items)
    BY <1>1, ReadingAssumption DEF Taken
  <2>4. CASE i <= Len(items)
    <3>1. i \in DOMAIN items /\ items[i] = id
      BY <1>1, <2>2, <2>3, <2>4 DEF Taken
    <3>2. id \in Range(seen')
      BY <1>7, <3>1 DEF Range
    <3>3. open' => Passed(id)'
      <4> SUFFICES ASSUME open' PROVE Passed(id)'
        OBVIOUS
      <4>1. Last(items) = s[Len(items)] /\ Len(items) \in 1..Len(s)
        BY <1>1, <1>4
      <4>2. ~Precedes(Rank(Last(items)), Rank(id))
        <5>1. CASE i < Len(items)
          BY <1>1, <2>2, <4>1, <5>1
        <5>2. CASE i = Len(items)
          BY <2>1, <2>2, <4>1, <5>2, CursorTyped, PrecedesIrreflexive
        <5>3. i \in Nat /\ Len(items) \in Nat
          BY <2>3
        <5>4. i < Len(items) \/ i = Len(items)
          BY ONLY <2>4, <5>3
        <5> QED
          BY <5>1, <5>2, <5>4
      <4> QED
        BY <1>16, <1>18, <2>1, <4>2
    <3> QED
      BY <3>2, <3>3 DEF Settled
  <2>5. CASE i > Len(items)
    <3>1. open' /\ items # << >> /\ Last(items) = s[Len(items)] /\ Len(items) \in 1..Len(s)
      BY <1>1, <1>4, <2>3, <2>5
    <3>2. id \notin Range(items)
      <4>1. \A j \in 1..Len(items) : s[j] # id
        BY <1>1, <2>2, <2>3, <2>5 DEF Taken
      <4>2. \A j \in DOMAIN items : items[j] = s[j] /\ j \in 1..Len(items)
        BY <1>1, <2>3 DEF Taken
      <4> QED
        BY <4>1, <4>2 DEF Range
    <3>3. id \notin Range(seen')
      BY <1>7, <2>1, <3>2
    <3>4. id \notin Pinned'
      BY <1>10, <1>12, <1>18
    <3>5. Last(items) \in Listed /\ Last(items) # id
      BY <1>1, <2>2, <2>3, <2>5, <3>1 DEF Taken
    <3>6. ~Precedes(Rank(id), Rank(Last(items)))
      BY <1>1, <2>2, <2>5, <3>1
    <3>7. CASE Rank(id) # Rank(Last(items))
      <4>1. Precedes(Rank(Last(items)), Rank(id))
        BY <2>1, <3>5, <3>6, <3>7, CursorTyped, PrecedesTotal
      <4>2. ~Passed(id)'
        BY <1>16, <1>18, <2>1, <3>1, <4>1
      <4> QED
        BY <3>1, <3>3, <3>4, <4>2 DEF Settled
    <3>8. CASE Rank(id) = Rank(Last(items))
      <4>1. list.seek = <<"key">> /\ list.order = <<"key">>
        BY <2>1, <3>5, <3>8, RankDiffers, ListForm DEF WellFormed
      <4>2. Values(id, <<"key">>)[1] = Values(Last(items), <<"key">>)[1]
        BY <3>8, <4>1 DEF Rank
      <4>3. rows[id].key = rows[Last(items)].key
        BY <4>2 DEF Values, Column
      <4>4. page.last = rows[Last(items)].key
        BY <3>1, <4>1 DEF CursorPage
      <4>5. Len(pages') = Len(pages) + 1 /\ pages'[Len(pages) + 1] = page
            /\ pages' \in Seq(PageRecord)
        BY ShowIs DEF CursorPage
      <4>6. Len(pages) + 1 \in DOMAIN pages'
        BY <4>5 DEF FlowOK
      <4>7. Tied(id)'
        BY <1>4, <4>1, <4>3, <4>4, <4>5, <4>6 DEF Tied
      <4> QED
        BY <3>3, <4>7 DEF Settled
    <3> QED
      BY <3>7, <3>8
  <2> QED
    BY <2>3, <2>4, <2>5
<1>19. ASSUME NEW id \in steady', ~LowHit(id), id \notin rest
       PROVE  Settled(id)'
  <2>1. id \in Listed /\ id \notin Range(items)
    BY <1>10, <1>13, <1>19
  <2>2. CASE next = << >>
    <3>1. id \in Pinned /\ id \in above
      BY <1>1, <1>11, <1>19, <2>1, <2>2
    <3> QED
      BY <1>7, <1>12, <2>1, <3>1 DEF Settled
  <2>3. CASE next # << >>
    <3>1. id \in steady /\ Settled(id) /\ above = {}
      BY <1>9, <2>3 DEF CursorShape
    <3>2. id \in Pinned \/ Passed(id)
      BY <1>11, <1>19, <2>1, <2>3
    <3>3. CASE id \in Range(seen)
      <4>1. id \in Range(seen')
        BY <1>7, <3>3
      <4>2. Passed(id) /\ open' => Passed(id)'
        BY <1>15, <1>16, <1>17, <1>19, <2>1, <2>3
      <4> QED
        BY <1>12, <2>1, <3>2, <4>1, <4>2 DEF Settled
    <3>4. CASE id \notin Range(seen)
      <4>1. Tied(id)
        BY <1>19, <3>1, <3>2, <3>4 DEF Settled
      <4>2. id \notin Range(seen')
        BY <1>7, <2>1, <3>1, <3>4
      <4>3. /\ pages' \in Seq(PageRecord) /\ Len(pages') = Len(pages) + 1
            /\ \A i \in 1..Len(pages) : pages'[i] = pages[i]
        BY ShowIs DEF CursorPage
      <4>4. \A i \in DOMAIN pages : i \in DOMAIN pages' /\ pages'[i] = pages[i]
        BY <4>3 DEF FlowOK
      <4>5. Tied(id)'
        BY <1>4, <4>1, <4>4 DEF Tied
      <4> QED
        BY <4>2, <4>5 DEF Settled
    <3> QED
      BY <3>3, <3>4
  <2> QED
    BY <2>2, <2>3
<1>20. \A id \in steady' : Settled(id)'
  <2>1. \A id \in steady' : LowHit(id) => Settled(id)'
    BY <1>12, <1>13 DEF Settled
  <2> QED
    BY <1>18, <1>19, <2>1
<1>21. PICK n \in Nat : n = Len(seen)
  BY <1>6
<1>22. \A i \in DOMAIN seen' :
         \/ i \in 1..n /\ i \in DOMAIN seen /\ seen'[i] = seen[i] /\ seen[i] \in Range(seen)
         \/ i > n /\ i - n \in DOMAIN B /\ seen'[i] = B[i - n]
            /\ B[i - n] \in above \cup Range(items) /\ i \in Nat
  <2>1. \A i \in DOMAIN seen' :
          \/ i \in 1..n /\ seen'[i] = seen[i]
          \/ i > n /\ i - n \in 1..Len(B) /\ seen'[i] = B[i - n]
    BY <1>6, <1>21, RangeOfJoin
  <2>2. DOMAIN seen' \subseteq Nat /\ DOMAIN seen = 1..n /\ DOMAIN B = 1..Len(B)
    BY <1>6, <1>21
  <2>3. \A i \in DOMAIN B : B[i] \in above \cup Range(items)
    BY <1>3 DEF Block, Range
  <2>4. \A i \in DOMAIN seen : seen[i] \in Range(seen)
    BY DEF Range
  <2> QED
    BY <2>1, <2>2, <2>3, <2>4
\* A row that a page shows after another page was still to come.
<1>23. \A i \in DOMAIN seen : \A k \in DOMAIN B :
         next # << >> /\ above = {} /\ B[k] \in rest /\ B[k] \in Range(items)
  <2> SUFFICES ASSUME NEW i \in DOMAIN seen, NEW k \in DOMAIN B
               PROVE  next # << >> /\ above = {} /\ B[k] \in rest /\ B[k] \in Range(items)
    OBVIOUS
  <2>1. DOMAIN << >> = {}
    OBVIOUS
  <2>2. seen # << >>
    BY <2>1
  <2>3. next # << >> /\ above = {}
    BY <1>8, <1>9, <2>2
  <2>4. B[k] \in Range(B) /\ Range(B) = above \cup Range(items)
    BY <1>3 DEF Block, Range
  <2> QED
    BY <1>10, <2>3, <2>4
<1>24. ASSUME NEW i \in DOMAIN seen', NEW j \in DOMAIN seen', seen'[i] = seen'[j],
              seen'[i] \in steady', ~LowHit(seen'[i])
       PROVE  i = j
  <2>1. CASE i \in 1..n /\ j \in 1..n
    <3>1. next # << >> /\ steady' = steady
      BY <1>8, <1>9, <1>21, <2>1
    <3> QED
      BY <1>22, <1>24, <2>1, <3>1 DEF CursorShape
  <2>2. CASE i > n /\ j > n
    <3>1. i - n = j - n
      BY <1>3, <1>22, <1>24, <2>2 DEF Block
    <3> QED
      BY <1>22, <2>2, <3>1
  <2>3. ~(i \in 1..n /\ j > n) /\ ~(j \in 1..n /\ i > n)
    BY <1>14, <1>22, <1>23, <1>24
  <2> QED
    BY <1>22, <2>1, <2>2, <2>3
<1>25. ASSUME NEW i \in DOMAIN seen', NEW j \in DOMAIN seen', i < j,
              seen'[i] \in steady', seen'[j] \in steady'
       PROVE  InOrder(seen'[i], seen'[j])
  <2>1. CASE i \in 1..n /\ j \in 1..n
    <3>1. next # << >> /\ steady' = steady
      BY <1>8, <1>9, <1>21, <2>1
    <3> QED
      BY <1>22, <1>25, <2>1, <3>1 DEF CursorShape, ShownInOrder
  <2>2. CASE i > n /\ j > n
    BY <1>3, <1>22, <1>25, <2>2 DEF Block
  <2>3. CASE i \in 1..n /\ j > n
    <3>1. PICK x, y : x = seen'[i] /\ y = seen'[j]
      OBVIOUS
    <3>2. x = seen[i] /\ i \in DOMAIN seen /\ y = B[j - n] /\ j - n \in DOMAIN B
      BY <1>22, <2>3, <3>1
    <3>3. x \in Range(seen) /\ y \in rest /\ next # << >>
      BY <1>23, <3>2 DEF Range
    <3>4. x \in steady /\ y \in steady /\ x \in Listed /\ y \notin Pinned
      BY <1>9, <1>10, <1>13, <1>25, <3>1, <3>3
    <3>5. LowHit(x) \/ x \in Pinned \/ Passed(x)
      BY <1>4, <3>3, <3>4 DEF CursorShape, Settled
    <3>6. Passed(x) => ~Precedes(Rank(y), Rank(x))
      BY <1>17, <3>3, <3>4
    <3> QED
      BY <3>1, <3>4, <3>5, <3>6 DEF InOrder, Rank
  <2>4. ~(i > n /\ j \in 1..n)
    BY <1>21, <1>22, <1>25
  <2> QED
    BY <1>22, <2>1, <2>2, <2>3, <2>4
<1>26. ShownInOrder'
  <2> SUFFICES ASSUME NEW i \in DOMAIN seen', NEW j \in DOMAIN seen', i < j,
                      seen'[i] \in steady', seen'[j] \in steady'
               PROVE  InOrder(seen[i], seen[j])'
    BY DEF ShownInOrder
  <2>1. PICK x, y : x = seen'[i] /\ y = seen'[j]
    OBVIOUS
  <2>2. InOrder(x, y) /\ x \in Listed /\ y \in Listed
    BY <1>13, <1>25, <2>1
  <2>3. InOrder(x, y)'
    BY <1>4, <2>2, InOrderKept
  <2> QED
    BY <2>1, <2>3
<1>27. (\A i, j \in DOMAIN seen :
          seen[i] = seen[j] /\ seen[i] \in steady /\ ~LowHit(seen[i]) => i = j)'
  <2> SUFFICES ASSUME NEW i \in DOMAIN seen', NEW j \in DOMAIN seen',
                      seen'[i] = seen'[j], seen'[i] \in steady', ~LowHit(seen[i])'
               PROVE  i = j
    OBVIOUS
  <2>1. PICK x : x = seen'[i]
    OBVIOUS
  <2>2. ~LowHit(x)'
    BY <2>1
  <2>3. ~LowHit(x)
    BY <1>12, <1>13, <2>1, <2>2
  <2> QED
    BY <1>24, <2>1, <2>3
<1> QED
  BY <1>20, <1>26, <1>27 DEF CursorShape

LEMMA CursorOther ==
    ASSUME FlowOK, list.resume = "cursor", CursorShape, Other, Make \/ Drop \/ Move \/ Pin
    PROVE  CursorShape'
<1>1. /\ steady' \subseteq steady
      /\ \A id \in steady' : id \in Listed /\ rows'[id] = rows[id]
  BY OtherFlow
<1>2. UNCHANGED <<list, next, open, pages, seen>> /\ open /\ next # << >>
  BY DEF Other
<1>3. ShownInOrder'
  BY <1>1, <1>2, ShownOrderKept DEF CursorShape
<1>4. \A id \in steady' :
        /\ Rank(id)' = Rank(id)
        /\ id \in Pinned' <=> id \in Pinned
        /\ LowHit(id)' <=> LowHit(id)
  BY <1>1, <1>2, PlaceKept
<1>5. ASSUME NEW id \in steady' PROVE Settled(id)'
  <2>1. Settled(id)
    BY <1>1, <1>5 DEF CursorShape
  <2>2. Passed(id)' <=> Passed(id)
    BY <1>2, <1>4 DEF Passed, Bound
  <2>3. Tied(id)' <=> Tied(id)
    BY <1>1, <1>2 DEF Tied
  <2> QED
    BY <1>2, <1>4, <2>1, <2>2, <2>3 DEF Settled
<1>6. (\A i, j \in DOMAIN seen :
          seen[i] = seen[j] /\ seen[i] \in steady /\ ~LowHit(seen[i]) => i = j)'
  <2> SUFFICES ASSUME NEW i \in DOMAIN seen', NEW j \in DOMAIN seen',
                      seen'[i] = seen'[j], seen'[i] \in steady', ~LowHit(seen[i])'
               PROVE  i = j
    OBVIOUS
  <2>1. PICK x : x = seen'[i]
    OBVIOUS
  <2>2. ~LowHit(x)'
    BY <2>1
  <2>3. ~LowHit(x)
    BY <1>4, <2>1, <2>2
  <2> QED
    BY <1>1, <1>2, <2>1, <2>3 DEF CursorShape
<1> QED
  BY <1>3, <1>5, <1>6 DEF CursorShape

-----------------------------------------------------------------------------
(* Every list, whatever it goes on from.                                   *)

ShapeOK ==
    /\ list.resume = "cursor" => CursorShape
    /\ list.resume = "ids" => TreeShape

LEMMA ShapeInitially == ReadingInit => ShapeOK
<1> SUFFICES ASSUME ReadingInit PROVE ShapeOK
  OBVIOUS
<1>1. DOMAIN seen = {} /\ steady = {} /\ next = << >> /\ open
  BY DEF ReadingInit
<1>2. ShownInOrder
  BY <1>1 DEF ShownInOrder
<1>3. CursorShape
  BY <1>1, <1>2 DEF CursorShape
<1>4. TreeShape
  BY <1>1, <1>2 DEF TreeShape, IsInjective
<1> QED
  BY <1>3, <1>4 DEF ShapeOK

LEMMA ShapeStep == FlowOK /\ ShapeOK /\ [ReadingNext]_readingVars => ShapeOK'
<1> SUFFICES ASSUME FlowOK, ShapeOK, [ReadingNext]_readingVars PROVE ShapeOK'
  OBVIOUS
<1>1. ASSUME NEW limit \in PageSizes, ReadKeyset(limit) PROVE ShapeOK'
  <2>1. list.resume = "cursor" /\ UNCHANGED list
    BY <1>1 DEF ReadKeyset, Start
  <2>2. CursorShape'
    BY <1>1, <2>1, KeysetRead, PageSettles DEF ShapeOK
  <2> QED
    BY <2>1, <2>2 DEF ShapeOK
<1>2. ASSUME NEW limit \in PageSizes, NEW refresh \in BOOLEAN, ReadArm(limit, refresh)
      PROVE  ShapeOK'
  <2>1. list.resume = "cursor" /\ UNCHANGED list
    BY <1>2, ListForm DEF ReadArm, Start, WellFormed
  <2>2. CursorShape'
    BY <1>2, <2>1, ArmRead, PageSettles DEF ShapeOK
  <2> QED
    BY <2>1, <2>2 DEF ShapeOK
<1>3. ASSUME NEW limit \in PageSizes, ReadOffset(limit) \/ ReadOnce(limit) PROVE ShapeOK'
  BY <1>3 DEF ReadOffset, ReadOnce, Start, ShapeOK
<1>4. ASSUME NEW limit \in PageSizes, ReadMerged(limit) PROVE ShapeOK'
  BY <1>4, ListForm DEF ReadMerged, Start, WellFormed, ShapeOK
<1>5. CASE ReadIds
  BY <1>5, TreeIds DEF ReadIds, ShapeOK
<1>6. CASE ReadRows
  BY <1>6, TreeRows DEF ReadRows, ShapeOK
<1>7. CASE Make \/ Drop \/ Move \/ Pin
  <2>1. Other /\ UNCHANGED list
    BY <1>7 DEF Make, Drop, Move, Pin, Other
  <2> QED
    BY <1>7, <2>1, CursorOther, TreeOther DEF ShapeOK
<1>8. CASE UNCHANGED readingVars
  <2>1. /\ UNCHANGED <<list, rows, next, open, pages, seen, steady>>
        /\ \A id : Rank(id)' = Rank(id) /\ (LowHit(id)' <=> LowHit(id))
        /\ Pinned' = Pinned
    BY <1>8, ValuesKept DEF readingVars, Rank, LowHit, Pinned, Listed
  <2>2. \A id : Settled(id)' <=> Settled(id)
    BY <2>1 DEF Settled, Passed, Bound, Tied
  <2>3. ShownInOrder' <=> ShownInOrder
    <3>1. \A id, columns : Values(id, columns)' = Values(id, columns)
      BY <2>1, ValuesKept
    <3>2. \A x, y : InOrder(x, y)' <=> InOrder(x, y)
      BY <2>1, <3>1 DEF InOrder
    <3> QED
      BY <2>1, <3>2 DEF ShownInOrder
  <2>4. CursorShape' <=> CursorShape
    BY <2>1, <2>2, <2>3 DEF CursorShape
  <2>5. TreeShape' <=> TreeShape
    BY <2>1, <2>3 DEF TreeShape, IsInjective
  <2> QED
    BY <2>1, <2>4, <2>5 DEF ShapeOK
<1> QED
  BY <1>1, <1>2, <1>3, <1>4, <1>5, <1>6, <1>7, <1>8 DEF ReadingNext

LEMMA ShapeAlways == ReadingSpec => []ShapeOK
  BY ShapeInitially, ShapeStep, FlowAlways, PTL DEF ReadingSpec

LEMMA WholeSeenOnce == FlowOK /\ ShapeOK => SeenOnce
<1> SUFFICES ASSUME FlowOK, ShapeOK, Whole, NEW id \in steady, ~LowHit(id)
             PROVE  IF open THEN Times(id) <= 1 ELSE Times(id) = 1
  BY DEF SeenOnce
<1>1. \A i, j \in DOMAIN seen : seen[i] = id /\ seen[j] = id => i = j
  BY DEF ShapeOK, Whole, CursorShape, TreeShape, IsInjective
<1>2. ~open => id \in Range(seen)
  <2>1. CASE list.resume = "ids"
    BY <2>1 DEF ShapeOK, TreeShape
  <2>2. CASE list.resume = "cursor" /\ Last(list.seek) \in {"id", "-id"}
    <3>1. list.seek # <<"key">>
      <4>1. Last(<<"key">>) = "key"
        BY DEF Last
      <4> QED
        BY <2>2, <4>1
    <3> QED
      BY <2>2, <3>1 DEF ShapeOK, CursorShape, Settled, Tied
  <2> QED
    BY <2>1, <2>2 DEF Whole
<1>3. id \in Range(seen) => Times(id) = 1
  BY <1>1, TimesAre
<1>4. id \notin Range(seen) => Times(id) = 0
  BY TimesAre
<1> QED
  BY <1>2, <1>3, <1>4

(* Paging through a list with a cursor that ends in an id, or a tree, shows *)
(* what nobody touches once and in the list's order, whatever is made,      *)
(* dropped, moved or pinned between the pages (services/feed.py, the keyset *)
(* lists of tickets, notices and the audit log, services/search_multi.py).  *)
THEOREM EachRowOnceInOrder == ReadingSpec => []ReadOnceInOrder
<1>1. FlowOK /\ ShapeOK => PagesOrdered
  <2> SUFFICES ASSUME FlowOK, ShapeOK PROVE PagesOrdered
    OBVIOUS
  <2>1. CASE list.resume \in {"cursor", "ids"}
    BY <2>1, OrderIs DEF ShapeOK, CursorShape, TreeShape
  <2>2. CASE list.resume \notin {"cursor", "ids"}
    BY <2>2 DEF PagesOrdered, Whole
  <2> QED
    BY <2>1, <2>2
<1>2. FlowOK /\ ShapeOK => ReadOnceInOrder
  BY <1>1, WholeSeenOnce DEF ReadOnceInOrder
<1> QED
  BY <1>2, FlowAlways, ShapeAlways, PTL

\* The cursor that is a time alone: what is missed had the time of a page's end.
LEMMA OnlyTiesMissed == FlowOK /\ ShapeOK => MissedOnlyTies
<1> SUFFICES ASSUME FlowOK, ShapeOK, list.seek = <<"key">>, NEW id \in steady
             PROVE  /\ Times(id) <= 1
                    /\ ~open /\ Times(id) = 0 =>
                          \E i \in DOMAIN pages : pages[i].last = rows[id].key
  BY DEF MissedOnlyTies
<1>1. list.resume = "cursor" /\ ~LowHit(id)
  <2>1. list.seek # << >>
    OBVIOUS
  <2>2. list.resume = "cursor" /\ list.order = <<"key">>
    BY <2>1, ListForm DEF WellFormed
  <2>3. list.order[1] # "rank"
    BY <2>2
  <2> QED
    BY <2>2, <2>3, ListForm DEF WellFormed, LowHit
<1>2. Settled(id) /\ \A i, j \in DOMAIN seen : seen[i] = id /\ seen[j] = id => i = j
  BY <1>1 DEF ShapeOK, CursorShape
<1>3. id \in Range(seen) => Times(id) = 1
  BY <1>2, TimesAre
<1>4. id \notin Range(seen) => Times(id) = 0
  BY TimesAre
<1>5. ~open /\ id \notin Range(seen) => Tied(id)
  BY <1>1, <1>2 DEF Settled
<1> QED
  BY <1>3, <1>4, <1>5 DEF Tied

-----------------------------------------------------------------------------
(* Offsets.                                                                *)

OwnPlaces == list.resume = "offset" /\ list.order[Len(list.order)] = "id"

Ahead(id) == {x \in Listed : Precedes(Rank(x), Rank(id))}
Within(id) == Cardinality(Ahead(id)) < Skipped

Repeated ==
    {i \in DOMAIN seen : seen[i] \in steady /\ \E j \in 1..i-1 : seen[j] = seen[i]}

\* Rows whose place and whose having been shown do not agree: those that were
\* passed over and those that are going to be repeated.
Shifted == {id \in steady : ~(id \in Range(seen) <=> Within(id))}

OffsetShape ==
    /\ ~open => \A id \in Listed : Within(id)
    /\ Cardinality(Repeated) + Cardinality(Shifted) <= changes

LEMMA OwnPlacesIs ==
    ASSUME FlowOK, OwnPlaces
    PROVE  /\ Len(list.order) \in Nat
           /\ \A x \in Listed : Rank(x) \in Tuples(Len(list.order))
           /\ \A x, y \in Listed : x # y =>
                 Precedes(Rank(x), Rank(y)) \/ Precedes(Rank(y), Rank(x))
           /\ \A x \in Listed : ~Precedes(Rank(x), Rank(x))
<1>1. /\ Len(list.order) \in Nat
      /\ \A x \in Listed : Rank(x) \in Tuples(Len(list.order))
  BY RankTyped DEF OwnPlaces
<1>2. \A x, y \in Listed : x # y => Rank(x) # Rank(y)
  BY RankDiffers DEF OwnPlaces
<1>3. \A x, y \in Listed : x # y =>
        Precedes(Rank(x), Rank(y)) \/ Precedes(Rank(y), Rank(x))
  BY <1>1, <1>2, PrecedesTotal
<1>4. \A x \in Listed : ~Precedes(Rank(x), Rank(x))
  BY <1>1, PrecedesIrreflexive
<1> QED
  BY <1>1, <1>3, <1>4

LEMMA PlaceIs ==
    ASSUME FlowOK, OwnPlaces, NEW s \in Sorted(Listed, list.order), NEW p \in 1..Len(s)
    PROVE  Cardinality(Ahead(s[p])) = p - 1
<1>1. /\ s \in Seq(Listed) /\ Range(s) = Listed
      /\ \A i, j \in 1..Len(s) : s[i] = s[j] => i = j
      /\ \A i, j \in 1..Len(s) : i < j => ~Precedes(Rank(s[j]), Rank(s[i]))
  BY ListedIs, SortedIs DEF Rank
<1>2. Len(s) \in Nat /\ \A i \in 1..Len(s) : s[i] \in Listed
  BY <1>1
<1>3. ASSUME NEW q \in 1..Len(s) PROVE s[q] \in Ahead(s[p]) <=> q < p
  <2>1. CASE q < p
    BY <1>1, <1>2, <2>1, OwnPlacesIs DEF Ahead
  <2>2. CASE q = p
    BY <1>2, <2>2, OwnPlacesIs DEF Ahead
  <2>3. CASE q > p
    BY <1>1, <1>2, <2>3 DEF Ahead
  <2> QED
    BY <1>2, <2>1, <2>2, <2>3
<1> DEFINE f == [q \in 1..p-1 |-> s[q]]
<1>4. p - 1 \in Nat /\ \A q \in 1..p-1 : q \in 1..Len(s) /\ q < p
  BY <1>2
<1>5. f \in Injection(1..p-1, Ahead(s[p]))
  <2>1. f \in [1..p-1 -> Ahead(s[p])]
    BY <1>3, <1>4
  <2>2. \A i, j \in 1..p-1 : f[i] = f[j] => i = j
    BY <1>1, <1>4
  <2> QED
    BY <2>1, <2>2 DEF Injection, IsInjective
<1>6. f \in Surjection(1..p-1, Ahead(s[p]))
  <2>1. ASSUME NEW x \in Ahead(s[p]) PROVE \E q \in 1..p-1 : f[q] = x
    <3>1. x \in Range(s)
      BY <1>1 DEF Ahead
    <3>2. PICK q \in 1..Len(s) : s[q] = x
      BY <1>1, <3>1 DEF Range
    <3>3. q < p
      BY <1>3, <3>2
    <3> QED
      BY <1>2, <3>2, <3>3
  <2> QED
    BY <1>5, <2>1 DEF Surjection, Injection
<1>7. IsFiniteSet(Ahead(s[p]))
  BY ListedIs, FS_Subset DEF Ahead
<1>8. Cardinality(1..p-1) = Cardinality(Ahead(s[p]))
  BY <1>5, <1>6, <1>7, FS_Injection
<1> QED
  BY <1>4, <1>8, FS_Interval

\* What a page shows was not within the rows skipped, and is from then on.
LEMMA OffsetShows ==
    ASSUME FlowOK, OwnPlaces, NEW limit \in PageSizes, NEW s, NEW items,
           OffsetPage(limit, s, items)
    PROVE  /\ \A id \in Listed : Within(id)' <=> Within(id) \/ id \in Range(items)
           /\ \A id \in Range(items) : id \in Listed /\ ~Within(id)
           /\ \A i, j \in 1..Len(items) : items[i] = items[j] => i = j
           /\ ~open' => \A id \in Listed : Within(id)'
<1>1. /\ s \in Sorted(Listed, list.order) /\ items \in Seq(Ids)
      /\ \A i \in 1..Len(items) : items[i] = s[Skipped + i]
      /\ Skipped + Len(items) <= Len(s) \/ (items = << >> /\ Skipped >= Len(s))
      /\ Len(items) < limit => Skipped + Len(items) >= Len(s)
      /\ Len(items) <= limit
      /\ open' = (Len(items) = limit)
      /\ next' = <<Skipped + Len(items)>>
      /\ UNCHANGED <<list, rows, changes>>
  BY DEF OffsetPage
<1>2. /\ s \in Seq(Listed) /\ Range(s) = Listed
      /\ \A i, j \in 1..Len(s) : s[i] = s[j] => i = j
  BY <1>1, ListedIs, SortedIs
<1>3. PICK K \in Nat : K = Skipped
  BY SkippedIs DEF OwnPlaces
<1>4. PICK m \in Nat : m = Len(items)
  BY <1>1
<1>5. PICK n \in Nat : n = Len(s)
  BY <1>2
<1>6. limit \in Nat
  BY ReadingAssumption
<1>7. /\ K + m <= n \/ (m = 0 /\ K >= n)
      /\ m < limit => K + m >= n
      /\ m <= limit
  <2>1. items = << >> => m = 0
    BY <1>4
  <2> QED
    BY <1>1, <1>3, <1>4, <1>5, <2>1
<1>8. \A p \in 1..n : Within(s[p]) <=> p <= K
  BY <1>1, <1>3, <1>5, PlaceIs DEF Within
<1>9. \A id : Ahead(id)' = Ahead(id)
  <2>1. \A id : Rank(id)' = Rank(id)
    BY <1>1, ValuesKept DEF Rank
  <2>2. Listed' = Listed
    BY <1>1 DEF Listed
  <2> QED
    BY <2>1, <2>2 DEF Ahead
<1>10. Skipped' = K + m
  BY <1>1, <1>3, <1>4 DEF Skipped
<1>11. \A p \in 1..n : Within(s[p])' <=> p <= K + m
  <2> SUFFICES ASSUME NEW p \in 1..n PROVE Within(s[p])' <=> p <= K + m
    OBVIOUS
  <2>1. PICK x : x = s[p]
    OBVIOUS
  <2>2. Cardinality(Ahead(x)) = p - 1
    BY <1>1, <1>5, <2>1, PlaceIs
  <2>3. Within(x)' <=> Cardinality(Ahead(x)) < K + m
    BY <1>9, <1>10 DEF Within
  <2>4. s[p]' = x => (Within(s[p])' <=> Within(x)')
    OBVIOUS
  <2> QED
    BY <2>1, <2>2, <2>3
<1>12. \A i \in 1..m : K + i \in 1..n /\ items[i] = s[K + i]
  BY <1>1, <1>3, <1>4, <1>7
<1>13. \A p \in 1..n : s[p] \in Range(items) <=> K < p /\ p <= K + m
  <2> SUFFICES ASSUME NEW p \in 1..n
               PROVE  s[p] \in Range(items) <=> K < p /\ p <= K + m
    OBVIOUS
  <2>1. ASSUME s[p] \in Range(items) PROVE K < p /\ p <= K + m
    <3>1. PICK i \in 1..m : items[i] = s[p]
      BY <1>1, <1>4, <2>1 DEF Range
    <3>2. K + i = p
      BY <1>2, <1>5, <1>12, <3>1
    <3> QED
      BY <3>2
  <2>2. ASSUME K < p, p <= K + m PROVE s[p] \in Range(items)
    <3>1. p - K \in 1..m /\ K + (p - K) = p
      BY <2>2
    <3>2. items[p - K] = s[p]
      BY <1>12, <3>1
    <3>3. p - K \in DOMAIN items
      BY <1>1, <1>4, <3>1
    <3> QED
      BY <3>2, <3>3 DEF Range
  <2> QED
    BY <2>1, <2>2
<1>14. \A id \in Listed : \E p \in 1..n : id = s[p]
  BY <1>2, <1>5 DEF Range
<1>15. ASSUME NEW id \in Listed PROVE Within(id)' <=> Within(id) \/ id \in Range(items)
  <2>1. PICK p \in 1..n : id = s[p]
    BY <1>14
  <2>2. Within(id) <=> p <= K
    BY <1>8, <2>1
  <2>3. Within(id)' <=> p <= K + m
    BY <1>11, <2>1
  <2>4. id \in Range(items) <=> K < p /\ p <= K + m
    BY <1>13, <2>1
  <2> QED
    BY <2>2, <2>3, <2>4
<1>16. ASSUME NEW id \in Range(items) PROVE id \in Listed /\ ~Within(id)
  <2>1. PICK i \in 1..m : items[i] = id
    BY <1>1, <1>4 DEF Range
  <2>2. K + i \in 1..n /\ id = s[K + i]
    BY <1>12, <2>1
  <2>3. id \in Listed
    BY <1>2, <1>5, <2>2
  <2> QED
    BY <1>8, <2>2, <2>3
<1>17. \A i, j \in 1..m : items[i] = items[j] => i = j
  <2> SUFFICES ASSUME NEW i \in 1..m, NEW j \in 1..m, items[i] = items[j] PROVE i = j
    OBVIOUS
  <2>1. K + i = K + j
    BY <1>2, <1>5, <1>12
  <2> QED
    BY <2>1
<1>18. ASSUME ~open', NEW id \in Listed PROVE Within(id)'
  <2>1. m < limit
    <3>1. m # limit
      BY <1>1, <1>4, <1>18
    <3> QED
      BY <1>6, <1>7, <3>1
  <2>2. PICK p \in 1..n : id = s[p]
    BY <1>14
  <2>3. p <= K + m
    BY <1>7, <2>1
  <2> QED
    BY <1>11, <2>2, <2>3
<1> QED
  BY <1>4, <1>15, <1>16, <1>17, <1>18

LEMMA ShiftedFinite ==
    FlowOK => /\ IsFiniteSet(Repeated) /\ Cardinality(Repeated) \in Nat
              /\ IsFiniteSet(Shifted) /\ Cardinality(Shifted) \in Nat
<1> SUFFICES ASSUME FlowOK PROVE IsFiniteSet(Repeated) /\ IsFiniteSet(Shifted)
  BY FS_CardinalityType
<1>1. DOMAIN seen = 1..Len(seen) /\ Len(seen) \in Nat
  BY DEF FlowOK
<1>2. IsFiniteSet(1..Len(seen)) /\ Repeated \in SUBSET (1..Len(seen))
  BY <1>1, FS_Interval DEF Repeated
<1>3. Shifted \in SUBSET Listed
  BY DEF Shifted, FlowOK
<1> QED
  BY <1>2, <1>3, ListedIs, FS_Subset

\* The rows repeated by a page are those that were going to be.
LEMMA OffsetPageShape ==
    ASSUME FlowOK, OwnPlaces, OffsetShape,
           NEW limit \in PageSizes, NEW s, NEW items, OffsetPage(limit, s, items)
    PROVE  OffsetShape'
<1>1. /\ \A id \in Listed : Within(id)' <=> Within(id) \/ id \in Range(items)
      /\ \A id \in Range(items) : id \in Listed /\ ~Within(id)
      /\ \A i, j \in 1..Len(items) : items[i] = items[j] => i = j
      /\ ~open' => \A id \in Listed : Within(id)'
  BY OffsetShows
<1>2. /\ Show(Bare(items)) /\ items \in Seq(Ids) /\ seen \in Seq(Ids)
      /\ steady' = IF pages = << >> THEN Listed ELSE steady
      /\ UNCHANGED <<list, rows, changes>>
  BY DEF OffsetPage, FlowOK
<1>3. seen' = seen \o items
  BY <1>2, BarePage DEF Show
<1>4. Range(seen') = Range(seen) \cup Range(items)
  BY <1>2, <1>3, RangeOfJoin
<1>5. steady' \subseteq Listed /\ Listed' = Listed
  BY <1>2 DEF FlowOK, Listed
\* At first nothing is skipped and nothing was shown.
<1>6. pages = << >> => /\ Range(seen) = {} /\ DOMAIN seen = {}
                       /\ \A id \in Listed : ~Within(id)
  <2> SUFFICES ASSUME pages = << >>
               PROVE  /\ Range(seen) = {} /\ DOMAIN seen = {}
                      /\ \A id \in Listed : ~Within(id)
    OBVIOUS
  <2>1. seen = << >> /\ next = << >>
    BY DEF FlowOK, OwnPlaces
  <2>2. Skipped = 0
    BY <2>1 DEF Skipped
  <2>3. \A id : Cardinality(Ahead(id)) \in Nat
    BY ListedIs, FS_Subset, FS_CardinalityType DEF Ahead
  <2> QED
    BY <2>1, <2>2, <2>3 DEF Range, Within
<1>7. pages # << >> => steady' = steady
  BY <1>2
<1> DEFINE again == Shifted \cap Range(items)
<1>8. Shifted' \subseteq Shifted \ again
  <2> SUFFICES ASSUME NEW id \in steady',
                      ~(id \in Range(seen') <=> Within(id)')
               PROVE  id \in Shifted /\ id \notin Range(items)
    BY DEF Shifted
  <2>1. id \in Listed
    BY <1>5
  <2>2. id \notin Range(items)
    BY <1>1, <1>4, <2>1
  <2>3. ~(id \in Range(seen) <=> Within(id))
    BY <1>1, <1>4, <2>1, <2>2
  <2>4. pages # << >>
    BY <1>6, <2>1, <2>3
  <2> QED
    BY <1>7, <2>2, <2>3, <2>4 DEF Shifted
<1>9. PICK n \in Nat : n = Len(seen)
  BY <1>2
<1>10. DOMAIN seen = 1..n
  BY <1>2, <1>9
<1>11. \A i \in DOMAIN seen' :
         \/ i \in 1..n /\ seen'[i] = seen[i]
         \/ /\ i > n /\ i - n \in 1..Len(items) /\ seen'[i] = items[i - n]
            /\ i \in Nat /\ items[i - n] \in Range(items)
  <2>1. \A i \in DOMAIN seen' :
          \/ i \in 1..n /\ seen'[i] = seen[i]
          \/ i > n /\ i - n \in 1..Len(items) /\ seen'[i] = items[i - n]
    BY <1>2, <1>3, <1>9, RangeOfJoin
  <2>2. DOMAIN seen' \subseteq Nat
    BY <1>2, <1>3
  <2>3. \A k \in 1..Len(items) : items[k] \in Range(items)
    BY <1>2 DEF Range
  <2> QED
    BY <2>1, <2>2, <2>3
<1>12. PICK R : R = Repeated'
  OBVIOUS
<1>13. R = {i \in DOMAIN seen' : /\ seen'[i] \in steady'
                                 /\ \E j \in 1..i-1 : seen'[j] = seen'[i]}
  BY <1>12 DEF Repeated
<1> DEFINE new == R \ Repeated
<1>14. ASSUME NEW i \in new
       PROVE  i - n \in 1..Len(items) /\ items[i - n] \in again /\ i \in Nat
  <2>1. i \in DOMAIN seen' /\ seen'[i] \in steady'
    BY <1>13
  <2>2. PICK j \in 1..i-1 : seen'[j] = seen'[i]
    BY <1>13
  <2>3. i \in Nat /\ j \in Nat /\ j < i /\ j \in DOMAIN seen'
    <3>1. DOMAIN seen' = 1..Len(seen') /\ Len(seen') \in Nat
      BY <1>2, <1>3
    <3> QED
      BY <2>1, <3>1
  <2>4. CASE i \in 1..n
    <3>5. j \in 1..n /\ i \in DOMAIN seen
      BY <1>10, <2>3, <2>4
    <3>6. seen'[i] = seen[i] /\ seen'[j] = seen[j]
      BY <1>11, <2>1, <2>3, <2>4, <3>5
    <3>1. seen[j] = seen[i]
      BY <2>2, <3>6
    <3>2. steady' = steady
      BY <1>6, <1>7, <1>10, <2>4
    <3>3. seen[i] \in steady
      BY <1>11, <2>1, <2>4, <3>2
    <3>4. i \in Repeated
      BY <3>1, <3>3, <3>5 DEF Repeated
    <3> QED
      BY <3>4
  <2>5. CASE i > n
    <3>1. i - n \in 1..Len(items) /\ seen'[i] = items[i - n] /\ items[i - n] \in Range(items)
      BY <1>11, <2>1, <2>5
    <3>2. j \in 1..n
      <4> SUFFICES ASSUME ~(j \in 1..n) PROVE FALSE
        OBVIOUS
      <4>1. j - n \in 1..Len(items) /\ seen'[j] = items[j - n]
        BY <1>11, <2>3
      <4>2. j - n = i - n
        BY <1>1, <2>2, <3>1, <4>1
      <4> QED
        BY <2>3, <4>2
    <3>3. seen[j] = items[i - n] /\ j \in DOMAIN seen
      BY <1>10, <1>11, <2>2, <2>3, <3>1, <3>2
    <3>4. items[i - n] \in Range(seen) /\ steady' = steady
      BY <1>6, <1>7, <3>3 DEF Range
    <3>5. items[i - n] \in steady /\ ~Within(items[i - n])
      BY <1>1, <2>1, <3>1, <3>4
    <3> QED
      BY <2>3, <3>1, <3>4, <3>5 DEF Shifted
  <2> QED
    BY <1>9, <2>3, <2>4, <2>5
<1>15. IsFiniteSet(again) /\ IsFiniteSet(Repeated) /\ IsFiniteSet(Shifted)
  BY ShiftedFinite, FS_Intersection
<1>16. IsFiniteSet(new) /\ Cardinality(new) <= Cardinality(again)
  <2> DEFINE f == [i \in new |-> items[i - n]]
  <2> HIDE DEF new, again
  <2>1. f \in [new -> again]
    BY <1>14
  <2>2. \A i, j \in new : f[i] = f[j] => i = j
    <3> SUFFICES ASSUME NEW i \in new, NEW j \in new, items[i - n] = items[j - n]
                 PROVE  i = j
      OBVIOUS
    <3>1. i - n = j - n
      BY <1>1, <1>14
    <3> QED
      BY <1>14, <3>1
  <2>3. f \in Injection(new, again)
    BY <2>1, <2>2 DEF Injection, IsInjective
  <2> QED
    BY <1>15, <2>3, FS_Injection
<1>17. FlowOK'
  BY OffsetFlow DEF OwnPlaces
<1>18. IsFiniteSet(R) /\ Cardinality(R) \in Nat
  <2>1. (FlowOK => IsFiniteSet(Repeated) /\ Cardinality(Repeated) \in Nat)'
    BY ShiftedFinite, PTL
  <2> QED
    BY <1>12, <1>17, <2>1
<1>19. Cardinality(R) <= Cardinality(Repeated) + Cardinality(new)
  <2>1. R \in SUBSET (Repeated \cup new)
    OBVIOUS
  <2>2. /\ IsFiniteSet(Repeated \cup new)
        /\ Cardinality(Repeated \cup new) =
             Cardinality(Repeated) + Cardinality(new) - Cardinality(Repeated \cap new)
    BY <1>15, <1>16, FS_Union
  <2>3. Repeated \cap new = {}
    OBVIOUS
  <2>4. Cardinality(R) <= Cardinality(Repeated \cup new)
    BY <2>1, <2>2, FS_Subset
  <2>5. Cardinality(Repeated) \in Nat /\ Cardinality(new) \in Nat
    BY <1>15, <1>16, FS_CardinalityType
  <2>6. Cardinality(Repeated \cap new) = 0
    BY <2>3, FS_EmptySet
  <2> HIDE DEF new
  <2> QED
    BY ONLY <1>18, <2>2, <2>4, <2>5, <2>6
<1>20. PICK S : S = Shifted'
  OBVIOUS
<1>21. IsFiniteSet(S) /\ Cardinality(S) <= Cardinality(Shifted) - Cardinality(again)
  <2>1. /\ IsFiniteSet(Shifted \ again)
        /\ Cardinality(Shifted \ again) = Cardinality(Shifted) - Cardinality(Shifted \cap again)
    BY <1>15, FS_Difference
  <2>2. Shifted \cap again = again
    OBVIOUS
  <2>3. S \in SUBSET (Shifted \ again)
    BY <1>8, <1>20
  <2>4. IsFiniteSet(S) /\ Cardinality(S) <= Cardinality(Shifted \ again)
    BY <2>1, <2>3, FS_Subset
  <2> QED
    BY <2>1, <2>2, <2>4
<1>22. Cardinality(R) + Cardinality(S) <= changes
  <2>1. /\ Cardinality(S) \in Nat /\ Cardinality(Repeated) \in Nat
        /\ Cardinality(Shifted) \in Nat /\ Cardinality(again) \in Nat
        /\ Cardinality(new) \in Nat /\ changes \in Nat
    BY <1>15, <1>16, <1>21, FS_CardinalityType DEF FlowOK
  <2>2. Cardinality(Repeated) + Cardinality(Shifted) <= changes
    BY DEF OffsetShape
  <2> HIDE DEF new, again
  <2> QED
    BY <1>16, <1>18, <1>19, <1>21, <2>1, <2>2
<1>23. changes' = changes
  BY <1>2
<1> QED
  BY <1>1, <1>5, <1>12, <1>20, <1>22, <1>23 DEF OffsetShape

\* One row changes with a commit, and what the reader knows of it is forgotten.
LEMMA OneRowChanges ==
    ASSUME FlowOK, Other, Make \/ Drop \/ Move \/ Pin
    PROVE  \E c : c \notin steady' /\ \A id \in Ids : id # c => rows'[id] = rows[id]
<1>1. CASE Make
  <2>1. PICK c \in Ids \ Listed, r \in Shape : rows' = [rows EXCEPT ![c] = r]
    BY <1>1 DEF Make
  <2>2. c \notin steady'
    BY <1>1, <2>1 DEF Make, FlowOK
  <2> QED
    BY <2>1, <2>2 DEF FlowOK
<1>2. CASE Drop
  <2>1. PICK c \in Listed : rows' = [rows EXCEPT ![c] = Absent] /\ steady' = steady \ {c}
    BY <1>2 DEF Drop
  <2> QED
    BY <2>1 DEF FlowOK
<1>3. CASE Move
  <2>1. PICK c \in Listed, r \in 1..MaxRank :
          rows' = [rows EXCEPT ![c].rank = r] /\ steady' = steady \ {c}
    BY <1>3 DEF Move
  <2> QED
    BY <2>1 DEF FlowOK
<1>4. CASE Pin
  <2>1. PICK c \in Listed : rows' = [rows EXCEPT ![c].pinned = ~@] /\ steady' = steady \ {c}
    BY <1>4 DEF Pin
  <2> QED
    BY <2>1 DEF FlowOK
<1> QED
  BY <1>1, <1>2, <1>3, <1>4

\* The rows before a row, but for one.
Before(id, c) == {x \in Listed \ {c} : Precedes(Rank(x), Rank(id))}

LEMMA BeforeIs ==
    ASSUME FlowOK, OwnPlaces, NEW c
    PROVE  /\ \A id : IsFiniteSet(Before(id, c)) /\ Cardinality(Before(id, c)) \in Nat
           /\ \A id : Cardinality(Ahead(id)) \in {Cardinality(Before(id, c)),
                                                  Cardinality(Before(id, c)) + 1}
           /\ \A x, y \in Listed \ {c} :
                 Precedes(Rank(x), Rank(y)) =>
                     Cardinality(Before(x, c)) < Cardinality(Before(y, c))
<1>1. \A id : IsFiniteSet(Before(id, c))
  BY ListedIs, FS_Subset DEF Before
<1>2. ASSUME NEW id
      PROVE  Cardinality(Ahead(id)) \in {Cardinality(Before(id, c)),
                                         Cardinality(Before(id, c)) + 1}
  <2>1. c \notin Before(id, c)
    BY DEF Before
  <2>2. Ahead(id) = Before(id, c) \/ Ahead(id) = Before(id, c) \cup {c}
    BY DEF Ahead, Before
  <2> QED
    BY <1>1, <2>1, <2>2, FS_AddElement
<1>3. ASSUME NEW x \in Listed \ {c}, NEW y \in Listed \ {c}, Precedes(Rank(x), Rank(y))
      PROVE  Cardinality(Before(x, c)) < Cardinality(Before(y, c))
  <2>1. Before(x, c) \cup {x} \in SUBSET Before(y, c)
    <3>1. ASSUME NEW z \in Before(x, c) PROVE z \in Before(y, c)
      <4>1. z \in Listed \ {c} /\ Precedes(Rank(z), Rank(x))
        BY DEF Before
      <4>2. Precedes(Rank(z), Rank(y))
        BY <1>3, <4>1, OwnPlacesIs, PrecedesTransitive
      <4> QED
        BY <4>1, <4>2 DEF Before
    <3> QED
      BY <1>3, <3>1 DEF Before
  <2>2. x \notin Before(x, c)
    BY OwnPlacesIs DEF Before
  <2>3. Cardinality(Before(x, c) \cup {x}) = Cardinality(Before(x, c)) + 1
    BY <1>1, <2>2, FS_AddElement
  <2>4. Cardinality(Before(x, c) \cup {x}) <= Cardinality(Before(y, c))
    BY <1>1, <2>1, FS_Subset
  <2>5. Cardinality(Before(x, c)) \in Nat /\ Cardinality(Before(y, c)) \in Nat
    BY <1>1, FS_CardinalityType
  <2> QED
    BY <2>3, <2>4, <2>5
<1>4. \A id : Cardinality(Before(id, c)) \in Nat
  BY <1>1, FS_CardinalityType
<1> QED
  BY <1>1, <1>2, <1>3, <1>4

LEMMA AheadIs ==
    FlowOK /\ OwnPlaces =>
        \A z, x : Cardinality(Ahead(x)) \in {Cardinality(Before(x, z)),
                                             Cardinality(Before(x, z)) + 1}
  BY BeforeIs

\* A commit moves one row that nobody touched over the offset, at most.
LEMMA OffsetOther ==
    ASSUME FlowOK, OwnPlaces, OffsetShape, Other, Make \/ Drop \/ Move \/ Pin
    PROVE  OffsetShape'
<1>1. /\ FlowOK'
      /\ steady' \subseteq steady
      /\ \A id \in steady' : id \in Listed /\ rows'[id] = rows[id]
  BY OtherFlow
<1>2. UNCHANGED <<list, next, open, pages, seen>> /\ open /\ changes' = changes + 1
  BY DEF Other
<1>3. PICK c : c \notin steady' /\ \A id \in Ids : id # c => rows'[id] = rows[id]
  BY OneRowChanges
<1>4. OwnPlaces'
  BY <1>2 DEF OwnPlaces
<1>5. \A id \in steady' : Rank(id)' = Rank(id)
  BY <1>1, <1>2, PlaceKept
<1>6. \A id \in steady' : Before(id, c)' = Before(id, c)
  <2>1. Listed' \ {c} = Listed \ {c}
    BY <1>3 DEF Listed
  <2>2. \A x \in Listed \ {c} : Rank(x)' = Rank(x)
    BY <1>2, <1>3, PlaceKept DEF Listed
  <2> QED
    BY <1>5, <2>1, <2>2 DEF Before
<1>7. PICK K \in Nat : K = Skipped
  BY SkippedIs DEF OwnPlaces
<1>8. Skipped' = K
  BY <1>2, <1>7 DEF Skipped
\* Only the row with as many others before it as make up the offset.
<1>9. \A id \in steady' :
        Within(id)' # Within(id) => Cardinality(Before(id, c)) + 1 = K
  <2> SUFFICES ASSUME NEW id \in steady', Cardinality(Before(id, c)) + 1 # K
               PROVE  Within(id)' = Within(id)
    OBVIOUS
  <2>1. PICK b \in Nat : b = Cardinality(Before(id, c))
    BY BeforeIs
  <2>2. Cardinality(Ahead(id)) \in {b, b + 1}
    BY <2>1, BeforeIs
  <2>3. Cardinality(Ahead(id))' \in {b, b + 1}
    <3>1. (FlowOK /\ OwnPlaces =>
             \A z, x : Cardinality(Ahead(x)) \in {Cardinality(Before(x, z)),
                                                  Cardinality(Before(x, z)) + 1})'
      BY AheadIs, PTL
    <3>2. Cardinality(Before(id, c))' = b
      BY <1>6, <2>1
    <3> QED
      BY <1>1, <1>4, <3>1, <3>2
  <2>4. Within(id) <=> Cardinality(Ahead(id)) < K
    BY <1>7 DEF Within
  <2>5. Within(id)' <=> Cardinality(Ahead(id))' < K
    BY <1>8 DEF Within
  <2>6. (b < K <=> b + 1 < K) /\ b + 1 # K
    BY <2>1
  <2>7. Within(id) \in BOOLEAN /\ Within(id)' \in BOOLEAN
    BY DEF Within
  <2> QED
    BY <2>2, <2>3, <2>4, <2>5, <2>6, <2>7
<1> DEFINE crossed == {id \in steady' : Within(id)' # Within(id)}
<1>10. \A x, y \in crossed : x = y
  <2> SUFFICES ASSUME NEW x \in steady', NEW y \in steady', x # y,
                      Within(x)' # Within(x), Within(y)' # Within(y)
               PROVE  FALSE
    OBVIOUS
  <2>1. x \in Listed \ {c} /\ y \in Listed \ {c}
    BY <1>1, <1>3
  <2>2. Cardinality(Before(x, c)) = Cardinality(Before(y, c))
    <3>1. Cardinality(Before(x, c)) + 1 = K /\ Cardinality(Before(y, c)) + 1 = K
      BY <1>9
    <3>2. Cardinality(Before(x, c)) \in Nat /\ Cardinality(Before(y, c)) \in Nat
      BY BeforeIs
    <3> QED
      BY <3>1, <3>2
  <2>3. Precedes(Rank(x), Rank(y)) \/ Precedes(Rank(y), Rank(x))
    BY <2>1, OwnPlacesIs
  <2>4. Cardinality(Before(x, c)) \in Nat /\ Cardinality(Before(y, c)) \in Nat
    BY BeforeIs
  <2>5. ASSUME Precedes(Rank(x), Rank(y)) PROVE FALSE
    <3>1. Cardinality(Before(x, c)) < Cardinality(Before(y, c))
      BY <2>1, <2>5, BeforeIs
    <3> QED
      BY <2>2, <2>4, <3>1
  <2>6. ASSUME Precedes(Rank(y), Rank(x)) PROVE FALSE
    <3>1. Cardinality(Before(y, c)) < Cardinality(Before(x, c))
      BY <2>1, <2>6, BeforeIs
    <3> QED
      BY <2>2, <2>4, <3>1
  <2> QED
    BY <2>3, <2>5, <2>6
<1>11. IsFiniteSet(crossed) /\ Cardinality(crossed) \in Nat /\ Cardinality(crossed) <= 1
  <2> HIDE DEF crossed
  <2>1. CASE crossed = {}
    BY <2>1, FS_EmptySet
  <2>2. CASE crossed # {}
    <3>1. PICK x : x \in crossed
      BY <2>2
    <3>2. crossed = {x}
      BY <1>10, <3>1
    <3>3. IsFiniteSet({x}) /\ Cardinality({x}) = 1
      BY FS_Singleton
    <3> QED
      BY <3>2, <3>3
  <2> QED
    BY <2>1, <2>2
<1>12. PICK S : S = Shifted'
  OBVIOUS
<1>13. S \in SUBSET (Shifted \cup crossed)
  <2> SUFFICES ASSUME NEW id \in steady', ~(id \in Range(seen) <=> Within(id)'),
                      id \notin crossed
               PROVE  id \in Shifted
    BY <1>2, <1>12 DEF Shifted
  <2>1. Within(id)' = Within(id)
    OBVIOUS
  <2>2. ~(id \in Range(seen) <=> Within(id))
    BY <2>1
  <2> QED
    BY <1>1, <2>2 DEF Shifted
<1>14. PICK R : R = Repeated'
  OBVIOUS
<1>15. R \in SUBSET Repeated
  BY <1>1, <1>2, <1>14 DEF Repeated
<1>16. /\ IsFiniteSet(Repeated) /\ Cardinality(Repeated) \in Nat
       /\ IsFiniteSet(Shifted) /\ Cardinality(Shifted) \in Nat
  BY ShiftedFinite
<1>17. Cardinality(R) \in Nat /\ Cardinality(R) <= Cardinality(Repeated)
  BY <1>15, <1>16, FS_Subset, FS_CardinalityType
<1>18. Cardinality(S) \in Nat /\ Cardinality(S) <= Cardinality(Shifted) + 1
  <2>1. /\ IsFiniteSet(Shifted \cup crossed)
        /\ Cardinality(Shifted \cup crossed) =
             Cardinality(Shifted) + Cardinality(crossed) - Cardinality(Shifted \cap crossed)
    BY <1>11, <1>16, FS_Union
  <2>2. Cardinality(Shifted \cap crossed) \in Nat
    BY <1>16, FS_Intersection, FS_CardinalityType
  <2>3. Cardinality(S) \in Nat /\ Cardinality(S) <= Cardinality(Shifted \cup crossed)
    BY <1>13, <2>1, FS_Subset, FS_CardinalityType
  <2>4. Cardinality(Shifted \cup crossed) \in Nat
    BY <2>1, FS_CardinalityType
  <2> HIDE DEF crossed
  <2> QED
    BY <1>11, <1>16, <2>1, <2>2, <2>3, <2>4
<1>19. Cardinality(R) + Cardinality(S) <= changes + 1
  <2>1. Cardinality(Repeated) + Cardinality(Shifted) <= changes /\ changes \in Nat
    BY DEF OffsetShape, FlowOK
  <2> QED
    BY <1>16, <1>17, <1>18, <2>1
<1>20. open'
  BY <1>2
<1> QED
  BY <1>2, <1>12, <1>14, <1>19, <1>20 DEF OffsetShape

OffsetOK == OwnPlaces => OffsetShape

LEMMA OffsetInitially == ReadingInit => OffsetOK
<1> SUFFICES ASSUME ReadingInit PROVE OffsetShape
  BY DEF OffsetOK
<1>1. Repeated = {} /\ Shifted = {} /\ open /\ changes = 0
  BY DEF ReadingInit, Repeated, Shifted
<1> QED
  BY <1>1, FS_EmptySet DEF OffsetShape

LEMMA OffsetStep == FlowOK /\ OffsetOK /\ [ReadingNext]_readingVars => OffsetOK'
<1> SUFFICES ASSUME FlowOK, OffsetOK, [ReadingNext]_readingVars PROVE OffsetOK'
  OBVIOUS
<1>1. ASSUME NEW limit \in PageSizes, ReadOffset(limit) PROVE OffsetOK'
  <2>1. PICK s, items : OffsetPage(limit, s, items)
    BY <1>1, OffsetRead
  <2>2. OwnPlaces' <=> OwnPlaces
    BY <2>1 DEF OffsetPage, OwnPlaces
  <2> QED
    BY <2>1, <2>2, OffsetPageShape DEF OffsetOK
<1>2. \A limit : ReadKeyset(limit) \/ (\E refresh : ReadArm(limit, refresh))
                 \/ ReadOnce(limit) \/ ReadMerged(limit) \/ ReadIds \/ ReadRows
          => list.resume # "offset" /\ UNCHANGED list
  BY ListForm
  DEF ReadKeyset, ReadArm, ReadOnce, ReadMerged, ReadIds, ReadRows, Start, WellFormed
<1>3. ASSUME list.resume # "offset", UNCHANGED list PROVE OffsetOK'
  BY <1>3 DEF OffsetOK, OwnPlaces
<1>4. CASE Make \/ Drop \/ Move \/ Pin
  <2>1. Other /\ UNCHANGED list
    BY <1>4 DEF Make, Drop, Move, Pin, Other
  <2>2. OwnPlaces' <=> OwnPlaces
    BY <2>1 DEF OwnPlaces
  <2> QED
    BY <1>4, <2>1, <2>2, OffsetOther DEF OffsetOK
<1>5. CASE UNCHANGED readingVars
  <2>1. /\ UNCHANGED <<list, rows, next, open, pages, seen, steady, changes>>
        /\ \A id : Rank(id)' = Rank(id)
        /\ Listed' = Listed
    BY <1>5, ValuesKept DEF readingVars, Rank, Listed
  <2>2. \A id : Within(id)' <=> Within(id)
    BY <2>1 DEF Within, Ahead, Skipped
  <2>3. Shifted' = Shifted /\ Repeated' = Repeated
    BY <2>1, <2>2 DEF Shifted, Repeated
  <2> QED
    BY <2>1, <2>2, <2>3 DEF OffsetOK, OffsetShape, OwnPlaces
<1> QED
  BY <1>1, <1>2, <1>3, <1>4, <1>5 DEF ReadingNext

LEMMA OffsetAlways == ReadingSpec => []OffsetOK
  BY OffsetInitially, OffsetStep, FlowAlways, PTL DEF ReadingSpec

LEMMA ShownAtLeastOnce ==
    ASSUME FlowOK, NEW id, Times(id) = 0
    PROVE  id \notin Range(seen)
<1>1. IsFiniteSet({i \in DOMAIN seen : seen[i] = id})
  <2>1. DOMAIN seen = 1..Len(seen) /\ Len(seen) \in Nat
    BY DEF FlowOK
  <2>2. IsFiniteSet(DOMAIN seen)
    BY <2>1, FS_Interval
  <2> QED
    BY <2>2, FS_Subset
<1>2. {i \in DOMAIN seen : seen[i] = id} = {}
  BY <1>1, FS_EmptySet DEF Times
<1> QED
  BY <1>2 DEF Range

LEMMA ShiftIsBounded == FlowOK /\ OffsetOK => ShiftedByChanges
<1> SUFFICES ASSUME FlowOK, OffsetOK, list.resume = "offset", Last(list.order) = "id"
             PROVE  LET missed == IF open THEN {} ELSE {id \in steady : Times(id) = 0}
                    IN  Cardinality(Repeated) + Cardinality(missed) <= changes
  BY DEF ShiftedByChanges, Repeated
<1> DEFINE missed == IF open THEN {} ELSE {id \in steady : Times(id) = 0}
<1>1. OwnPlaces
  BY DEF OwnPlaces, Last
<1>2. OffsetShape
  BY <1>1 DEF OffsetOK
<1>3. missed \in SUBSET Shifted
  <2> SUFFICES ASSUME ~open, NEW id \in steady, Times(id) = 0 PROVE id \in Shifted
    OBVIOUS
  <2>1. id \in Listed /\ Within(id)
    BY <1>2 DEF OffsetShape, FlowOK
  <2> QED
    BY <2>1, ShownAtLeastOnce DEF Shifted
<1> HIDE DEF missed
<1>4. /\ IsFiniteSet(Shifted) /\ Cardinality(Shifted) \in Nat
      /\ Cardinality(Repeated) \in Nat /\ changes \in Nat
  BY ShiftedFinite DEF FlowOK
<1>5. Cardinality(missed) \in Nat /\ Cardinality(missed) <= Cardinality(Shifted)
  BY <1>3, <1>4, FS_Subset, FS_CardinalityType
<1>6. Cardinality(Repeated) + Cardinality(Shifted) <= changes
  BY <1>2 DEF OffsetShape
<1>7. Cardinality(Repeated) + Cardinality(missed) <= changes
  BY <1>4, <1>5, <1>6
<1> QED
  BY <1>7 DEF missed

(* A list that skips rows by number, in an order that ends in an id, repeats *)
(* and misses no more untouched rows than others committed changes           *)
(* (services/share_posts.py list_posts, services/bounties.py list_bounties); *)
(* one with a time for a cursor misses only rows of a page's last time       *)
(* (routes/notifications.py list_notifications).                             *)
THEOREM WeakListsLoseLittle == ReadingSpec => []LossIsBounded
<1>1. FlowOK /\ ShapeOK /\ OffsetOK => LossIsBounded
  BY ShiftIsBounded, OnlyTiesMissed DEF LossIsBounded
<1> QED
  BY <1>1, FlowAlways, ShapeAlways, OffsetAlways, PTL

-----------------------------------------------------------------------------
(* The due-soon scan.                                                      *)

\* A session has no connection, or one of its own pool, and while it scans that
\* connection holds the lock.
LockPart ==
    /\ LockTypeOK
    /\ pc \in [Processes -> PCs]
    /\ \A c, d \in Conns : depth[c] > 0 /\ depth[d] > 0 => c = d
    /\ \A p \in Processes : conn[p] # NoConn => PoolOf[conn[p]] = p
    /\ \A p \in Processes : Scanning(p) => conn[p] \in Conns /\ depth[conn[p]] > 0

\* What process p may add to the notices keeps its distance.
Spaced(p) ==
    \A r \in out[p] : \A n \in notices :
        n.of = r /\ n.by = p => n.at + Window < now[p]

NoticePart ==
    /\ notices \subseteq [of : Reminders, at : Nat, by : Processes]
    /\ clock \in Nat
    /\ now \in [Processes -> Nat]
    /\ out \in [Processes -> SUBSET Reminders]
    /\ todo \in [Processes -> SUBSET Reminders]
    /\ pc \in [Processes -> PCs]
    /\ \A p \in Processes : pc[p] \in {"asleep", "load"} => out[p] = {}
    /\ \A p \in Processes : Spaced(p)
    /\ OwnRemindersSpaced

-----------------------------------------------------------------------------
\* Returning a connection leaves other processes' locks alone.
LEMMA ReturnedLock ==
    ASSUME LockPart, NEW p \in Processes, NEW l \in PCs \ {"load", "scan", "unlock", "raised"},
           Returned(p, conn[p]), pc' = [pc EXCEPT ![p] = l]
    PROVE  LockPart'
<1> USE LockAssumption DEF LockPart, LockTypeOK
<1>1. conn' = [conn EXCEPT ![p] = NoConn] /\ conn' \in [Processes -> Conns \cup {NoConn}]
  BY DEF Returned
<1>2. depth' \in [Conns -> Nat] /\ \A c \in Conns : depth'[c] > 0 => depth[c] > 0
  BY DEF Returned
<1>3. \A c \in Conns : c # conn[p] => depth'[c] = depth[c]
  BY DEF Returned
<1>4. \A q \in Processes : Scanning(q)' => q # p /\ Scanning(q)
  BY DEF Scanning
<1>5. ASSUME NEW q \in Processes, Scanning(q)'
      PROVE  conn'[q] \in Conns /\ depth'[conn'[q]] > 0
  <2>1. q # p /\ Scanning(q) /\ conn'[q] = conn[q] /\ conn[q] \in Conns /\ depth[conn[q]] > 0
    BY <1>1, <1>4, <1>5
  <2>2. conn[q] # conn[p]
    BY <2>1
  <2>3. QED
    BY <1>3, <2>1, <2>2
<1>6. \A q \in Processes : conn'[q] # NoConn => PoolOf[conn'[q]] = q
  BY <1>1
<1>7. \A c, d \in Conns : depth'[c] > 0 /\ depth'[d] > 0 => c = d
  BY <1>2
<1>8. pc' \in [Processes -> PCs]
  OBVIOUS
<1> QED
  BY <1>1, <1>2, <1>5, <1>6, <1>7, <1>8

LEMMA LockInitially == Init => LockPart
BY LockAssumption DEF Init, LockInit, LockPart, LockTypeOK, Scanning, PCs

LEMMA LockStep ==
    ASSUME LockPart, [Next]_vars
    PROVE  LockPart'
<1> USE LockAssumption
<1>1. ASSUME NEW p \in Processes, NEW c \in Conns, Acquire(p, c)
      PROVE  LockPart'
  <2>1. PoolOf[c] = p /\ depth \in [Conns -> Nat]
    BY <1>1 DEF Acquire, Usable, Pool, LockPart, LockTypeOK
  <2>2. \A d \in Conns : depth'[d] = IF d = c THEN depth[c] + 1 ELSE 0
    BY <1>1, <2>1 DEF Acquire, LockOn, Grants
  <2>3. \A q \in Processes : q # p => ~Scanning(q)
    BY <1>1, <2>1 DEF LockPart, LockTypeOK, Acquire, Grants
  <2>4. \A q \in Processes : Scanning(q)' => q = p
    BY <1>1, <2>3 DEF Scanning, Acquire, Goto, LockPart
  <2>5. conn' = [conn EXCEPT ![p] = c] /\ conn' \in [Processes -> Conns \cup {NoConn}]
    BY <1>1 DEF Acquire, LockPart, LockTypeOK
  <2>6. pc' \in [Processes -> PCs]
    BY <1>1 DEF Acquire, Goto, LockPart, PCs
  <2>7. depth' \in [Conns -> Nat]
    BY <1>1, <2>1 DEF Acquire, LockOn
  <2>8. \A q \in Processes : conn'[q] # NoConn => PoolOf[conn'[q]] = q
    BY <2>1, <2>5 DEF LockPart, LockTypeOK
  <2>9. \A q \in Processes : Scanning(q)' => conn'[q] \in Conns /\ depth'[conn'[q]] > 0
    BY <2>1, <2>2, <2>4, <2>5 DEF LockPart, LockTypeOK
  <2>10. \A d, e \in Conns : depth'[d] > 0 /\ depth'[e] > 0 => d = e
    BY <2>2
  <2> QED
    BY <2>5, <2>6, <2>7, <2>8, <2>9, <2>10 DEF LockPart, LockTypeOK
<1>2. ASSUME NEW p \in Processes, NEW c \in Conns, Contended(p, c)
      PROVE  LockPart'
  BY <1>2 DEF Contended, Usable, Pool, Goto, Scanning, LockPart, LockTypeOK, PCs
<1>3. ASSUME NEW p \in Processes, LoadTickets(p) \/ ScanDone(p)
      PROVE  LockPart'
  BY <1>3 DEF LoadTickets, ScanDone, Goto, Scanning, lockVars, LockPart, LockTypeOK, PCs
<1>4. ASSUME NEW p \in Processes, NEW r \in Reminders,
             Remind(p, r) \/ AlreadyReminded(p, r) \/ FoundTwo(p, r) \/ InsertFails(p, r)
      PROVE  LockPart'
  BY <1>4 DEF Remind, AlreadyReminded, FoundTwo, InsertFails, Goto, Scanning, lockVars,
              LockPart, LockTypeOK, PCs
<1>5. ASSUME NEW p \in Processes, Unlock(p)
      PROVE  LockPart'
  <2>1. Scanning(p) /\ conn[p] \in Conns /\ depth[conn[p]] > 0
    BY <1>5 DEF Unlock, Scanning, LockPart
  <2>2. \A q \in Processes : Scanning(q) => q = p
    BY <2>1 DEF LockPart
  <2>3. \A q \in Processes : ~Scanning(q)'
    BY <1>5, <2>2 DEF Scanning, Unlock, Goto, LockPart
  <2>4. depth' \in [Conns -> Nat] /\ \A c \in Conns : depth'[c] > 0 => depth[c] > 0
    BY <1>5, <2>1 DEF Unlock, UnlockOn, LockPart, LockTypeOK
  <2>5. pc' \in [Processes -> PCs]
    BY <1>5 DEF Unlock, Goto, LockPart, PCs
  <2> QED
    BY <1>5, <2>3, <2>4, <2>5 DEF Unlock, LockPart, LockTypeOK
<1>6. ASSUME NEW p \in Processes, Commit(p) \/ Close(p)
      PROVE  LockPart'
  BY <1>6, ReturnedLock DEF Commit, Close, EndPass, Goto, PCs
<1>7. ASSUME NEW p \in Processes, StatementFails(p)
      PROVE  LockPart'
  BY <1>7 DEF StatementFails, Goto, Scanning, lockVars, LockPart, LockTypeOK, PCs
<1>8. ASSUME NEW p \in Processes, Restart(p)
      PROVE  LockPart'
  <2>1. conn' = [conn EXCEPT ![p] = NoConn] /\ conn' \in [Processes -> Conns \cup {NoConn}]
    BY <1>8 DEF Restart, Disconnected, LockPart, LockTypeOK
  <2>2. depth' \in [Conns -> Nat] /\ \A c \in Conns : depth'[c] > 0 => depth[c] > 0
    BY <1>8 DEF Restart, Disconnected, LockPart, LockTypeOK
  <2>3. \A q \in Processes : Scanning(q)' => q # p /\ Scanning(q)
    BY <1>8 DEF Restart, Goto, Scanning, LockPart
  <2>4. ASSUME NEW q \in Processes, Scanning(q)'
        PROVE  conn'[q] \in Conns /\ depth'[conn'[q]] > 0
    <3>1. q # p /\ conn'[q] = conn[q] /\ conn[q] \in Conns /\ depth[conn[q]] > 0 /\ PoolOf[conn[q]] = q
      BY <2>1, <2>3, <2>4 DEF LockPart, LockTypeOK
    <3>2. depth'[conn[q]] = depth[conn[q]]
      BY <1>8, <3>1 DEF Restart, Disconnected, Pool
    <3> QED
      BY <3>1, <3>2
  <2>5. pc' \in [Processes -> PCs]
    BY <1>8 DEF Restart, Goto, LockPart, PCs
  <2>6. \A q \in Processes : conn'[q] # NoConn => PoolOf[conn'[q]] = q
    BY <2>1 DEF LockPart, LockTypeOK
  <2>7. \A c, d \in Conns : depth'[c] > 0 /\ depth'[d] > 0 => c = d
    BY <2>2 DEF LockPart
  <2> QED
    BY <2>1, <2>2, <2>4, <2>5, <2>6, <2>7 DEF LockPart, LockTypeOK
<1>9. ASSUME Tick \/ (\E r \in Reminders : Reschedule(r)) \/ UNCHANGED vars
      PROVE  LockPart'
  BY <1>9 DEF Tick, Reschedule, vars, lockVars, Scanning, LockPart, LockTypeOK
<1> QED
  BY <1>1, <1>2, <1>3, <1>4, <1>5, <1>6, <1>7, <1>8, <1>9 DEF Next, ScanOnce

\* The advisory lock keeps the scans of different processes apart, whatever fails
\* and whichever connections their sessions get.
THEOREM ScansExcludeEachOther == Spec => []ScanExclusive
<1>1. LockPart => ScanExclusive
  BY LockAssumption DEF LockPart, ScanExclusive
<1> QED
  BY <1>1, LockInitially, LockStep, PTL DEF Spec

-----------------------------------------------------------------------------
LEMMA NoticesInitially == Init => NoticePart
BY DEF Init, NoticePart, Spaced, OwnRemindersSpaced, PCs

\* A step that neither commits nor touches what process q has inserted.
LEMMA StillSpaced ==
    ASSUME NEW q \in Processes, Spaced(q),
           notices' = notices, now'[q] = now[q], out'[q] \subseteq out[q]
    PROVE  Spaced(q)'
BY DEF Spaced

\* Process p has nothing inserted: its distance is kept.
LEMMA NothingInserted ==
    ASSUME NEW q \in Processes, out'[q] = {}
    PROVE  Spaced(q)'
BY DEF Spaced

\* A step that leaves the committed notices and everything inserted alone.
LEMMA QuietNotices ==
    ASSUME NoticePart, notices' = notices, now' = now, out' = out, clock' \in Nat,
           todo' \in [Processes -> SUBSET Reminders], pc' \in [Processes -> PCs],
           \A p \in Processes : pc'[p] \in {"asleep", "load"} => pc[p] \in {"asleep", "load"}
    PROVE  NoticePart'
<1>1. \A p \in Processes : Spaced(p)'
  BY StillSpaced DEF NoticePart
<1>2. OwnRemindersSpaced'
  BY DEF NoticePart, OwnRemindersSpaced
<1> QED
  BY <1>1, <1>2 DEF NoticePart

\* A pass of p ends, or p dies, without committing anything.
LEMMA DroppedNotices ==
    ASSUME NoticePart, NEW p \in Processes, notices' = notices, clock' = clock,
           now' = [now EXCEPT ![p] = 0], out' = [out EXCEPT ![p] = {}],
           todo' = [todo EXCEPT ![p] = {}], pc' = [pc EXCEPT ![p] = "asleep"]
    PROVE  NoticePart'
<1>1. \A q \in Processes : Spaced(q)'
  <2>1. ASSUME NEW q \in Processes, q # p
        PROVE  Spaced(q)'
    BY <2>1, StillSpaced DEF NoticePart
  <2>2. Spaced(p)'
    BY NothingInserted DEF NoticePart
  <2> QED
    BY <2>1, <2>2
<1>2. OwnRemindersSpaced'
  BY DEF NoticePart, OwnRemindersSpaced
<1> QED
  BY <1>1, <1>2 DEF NoticePart, PCs

\* What p commits is spaced from what it had committed, and other processes do not
\* look at it.
LEMMA CommittedNotices ==
    ASSUME NoticePart, NEW p \in Processes, Commit(p)
    PROVE  NoticePart'
<1>1. /\ notices' = notices \cup Written(p) /\ clock' = clock
      /\ now' = [now EXCEPT ![p] = 0] /\ out' = [out EXCEPT ![p] = {}]
      /\ todo' = [todo EXCEPT ![p] = {}] /\ pc' = [pc EXCEPT ![p] = "asleep"]
  BY DEF Commit, EndPass, Goto
<1>2. \A n \in Written(p) : n.by = p /\ n.at = now[p] /\ n.of \in out[p]
  BY DEF Written
<1>3. ASSUME NEW q \in Processes
      PROVE  Spaced(q)'
  <2>1. CASE q = p
    BY <1>1, <2>1, NothingInserted DEF NoticePart
  <2>2. CASE q # p
    BY <1>1, <1>2, <2>2 DEF NoticePart, Spaced
  <2> QED
    BY <2>1, <2>2
<1>4. OwnRemindersSpaced'
  <2>1. ASSUME NEW n \in notices, NEW w \in Written(p), n.of = w.of, n.by = w.by
        PROVE  n.at + Window < w.at
    BY <1>2, <2>1 DEF NoticePart, Spaced
  <2>2. ASSUME NEW v \in Written(p), NEW w \in Written(p), v.of = w.of
        PROVE  v = w
    BY <2>2 DEF Written
  <2>3. ASSUME NEW v \in notices', NEW w \in notices', v.of = w.of, v.by = w.by, v # w
        PROVE  v.at + Window < w.at \/ w.at + Window < v.at
    BY <1>1, <2>1, <2>2, <2>3 DEF NoticePart, OwnRemindersSpaced
  <2> QED
    BY <2>3 DEF OwnRemindersSpaced
<1>5. Written(p) \subseteq [of : Reminders, at : Nat, by : Processes]
  BY DEF Written, NoticePart
<1> QED
  BY <1>1, <1>3, <1>4, <1>5 DEF NoticePart, PCs

LEMMA NoticeStep ==
    ASSUME NoticePart, [Next]_vars
    PROVE  NoticePart'
<1>1. ASSUME NEW p \in Processes, NEW c \in Conns, Acquire(p, c)
      PROVE  NoticePart'
  <2>1. ASSUME NEW q \in Processes
        PROVE  Spaced(q)'
    <3>1. CASE q = p
      BY <1>1, <3>1, NothingInserted DEF Acquire, NoticePart
    <3>2. CASE q # p
      BY <1>1, <3>2, StillSpaced DEF Acquire, NoticePart
    <3> QED
      BY <3>1, <3>2
  <2>2. OwnRemindersSpaced'
    BY <1>1 DEF Acquire, NoticePart, OwnRemindersSpaced
  <2> QED
    BY <1>1, <2>1, <2>2 DEF Acquire, Goto, NoticePart, PCs
<1>2. ASSUME NEW p \in Processes, NEW c \in Conns, Contended(p, c)
      PROVE  NoticePart'
  BY <1>2, QuietNotices DEF Contended, Goto, pass, NoticePart, PCs
<1>3. ASSUME NEW p \in Processes,
             LoadTickets(p) \/ ScanDone(p) \/ Unlock(p) \/ StatementFails(p)
      PROVE  NoticePart'
  <2>1. pc'[p] \notin {"asleep", "load"} /\ pc' \in [Processes -> PCs]
    BY <1>3 DEF LoadTickets, ScanDone, Unlock, StatementFails, Goto, NoticePart, PCs
  <2>2. todo' \in [Processes -> SUBSET Reminders]
    BY <1>3 DEF LoadTickets, ScanDone, Unlock, StatementFails, DueSoon, pass, NoticePart
  <2> QED
    BY <1>3, <2>1, <2>2, QuietNotices
    DEF LoadTickets, ScanDone, Unlock, StatementFails, Goto, pass, NoticePart
<1>4. ASSUME NEW p \in Processes, NEW r \in Reminders, Remind(p, r)
      PROVE  NoticePart'
  <2>1. Recent(p, r) = {} /\ Window \in Nat /\ now[p] \in Nat
    BY <1>4, ScannerAssumption DEF Remind, NoticePart
  <2>2. ASSUME NEW n \in notices, n.of = r
        PROVE  n.at + Window < now[p]
    BY <2>1, <2>2 DEF Recent, NoticePart
  <2>3. ASSUME NEW q \in Processes
        PROVE  Spaced(q)'
    <3>1. CASE q = p
      BY <1>4, <2>2, <3>1 DEF Remind, Spaced, NoticePart
    <3>2. CASE q # p
      BY <1>4, <3>2, StillSpaced DEF Remind, NoticePart
    <3> QED
      BY <3>1, <3>2
  <2>4. OwnRemindersSpaced'
    BY <1>4 DEF Remind, NoticePart, OwnRemindersSpaced
  <2> QED
    BY <1>4, <2>3, <2>4 DEF Remind, NoticePart
<1>5. ASSUME NEW p \in Processes, NEW r \in Reminders,
             AlreadyReminded(p, r) \/ FoundTwo(p, r) \/ InsertFails(p, r)
      PROVE  NoticePart'
  BY <1>5, QuietNotices DEF AlreadyReminded, FoundTwo, InsertFails, Goto, pass, NoticePart, PCs
<1>6. ASSUME NEW p \in Processes, Commit(p)
      PROVE  NoticePart'
  BY <1>6, CommittedNotices
<1>7. ASSUME NEW p \in Processes, Close(p) \/ Restart(p)
      PROVE  NoticePart'
  BY <1>7, DroppedNotices DEF Close, EndPass, Restart, Goto
<1>8. ASSUME Tick
      PROVE  NoticePart'
  BY <1>8, QuietNotices DEF Tick, pass, NoticePart
<1>9. ASSUME (\E r \in Reminders : Reschedule(r)) \/ UNCHANGED vars
      PROVE  NoticePart'
  BY <1>9, QuietNotices DEF Reschedule, vars, pass, NoticePart
<1> QED
  BY <1>1, <1>2, <1>3, <1>4, <1>5, <1>6, <1>7, <1>8, <1>9 DEF Next, ScanOnce

\* One process never repeats a reminder within the window, for any number of
\* processes and reminders and any window.
THEOREM NoOwnRepeat == Spec => []OwnRemindersSpaced
<1>1. NoticePart => OwnRemindersSpaced
  BY DEF NoticePart
<1> QED
  BY <1>1, NoticesInitially, NoticeStep, PTL DEF Spec

-----------------------------------------------------------------------------
LEMMA TypedInitially ==
    ASSUME Init
    PROVE  ScannerTypeOK
<1>1. due \in [Reminders -> 0..MaxTime + Lookahead]
  <2>1. due \in [Reminders -> 0..Lookahead]
    BY DEF Init
  <2>2. 0..Lookahead \subseteq 0..MaxTime + Lookahead
    BY ScannerAssumption
  <2> QED
    BY <2>1, <2>2
<1>2. LockTypeOK
  BY LockInitially DEF LockPart
<1>3. /\ clock \in 0..MaxTime /\ notices \in SUBSET Notice /\ pc \in [Processes -> PCs]
      /\ now \in [Processes -> 0..MaxTime] /\ faults \in 0..MaxFaults
  BY ScannerAssumption DEF Init, PCs
<1>4. todo \in [Processes -> SUBSET Reminders] /\ out \in [Processes -> SUBSET Reminders]
  BY DEF Init
<1> QED
  BY <1>1, <1>2, <1>3, <1>4 DEF ScannerTypeOK

LEMMA TypedStep ==
    ASSUME LockPart, ScannerTypeOK, [Next]_vars
    PROVE  ScannerTypeOK'
<1> USE ScannerAssumption DEF ScannerTypeOK
<1> DEFINE Typed == /\ clock' \in 0..MaxTime /\ due' \in [Reminders -> 0..MaxTime + Lookahead]
                    /\ notices' \in SUBSET Notice /\ pc' \in [Processes -> PCs]
                    /\ now' \in [Processes -> 0..MaxTime] /\ todo' \in [Processes -> SUBSET Reminders]
                    /\ out' \in [Processes -> SUBSET Reminders] /\ faults' \in 0..MaxFaults
<1>1. ASSUME NEW p \in Processes, NEW c \in Conns, Acquire(p, c) \/ Contended(p, c)
      PROVE  Typed
  BY <1>1 DEF Acquire, Contended, Goto, PCs, pass
<1>2. ASSUME NEW p \in Processes,
             LoadTickets(p) \/ ScanDone(p) \/ Unlock(p) \/ StatementFails(p)
      PROVE  Typed
  BY <1>2 DEF LoadTickets, DueSoon, ScanDone, Unlock, StatementFails, Goto, PCs, pass
<1>3. ASSUME NEW p \in Processes, NEW r \in Reminders,
             Remind(p, r) \/ AlreadyReminded(p, r) \/ FoundTwo(p, r) \/ InsertFails(p, r)
      PROVE  Typed
  BY <1>3 DEF Remind, AlreadyReminded, FoundTwo, InsertFails, Goto, PCs, pass
<1>4. ASSUME NEW p \in Processes, Commit(p)
      PROVE  Typed
  <2>1. Written(p) \subseteq Notice
    BY DEF Written, Notice
  <2> QED
    BY <1>4, <2>1 DEF Commit, EndPass, Goto, PCs
<1>5. ASSUME NEW p \in Processes, Close(p) \/ Restart(p)
      PROVE  Typed
  BY <1>5 DEF Close, Restart, EndPass, Goto, PCs
<1>6. ASSUME NEW r \in Reminders, Reschedule(r)
      PROVE  Typed
  <2>1. PICK d \in {0} \cup clock + 1..clock + Lookahead : due' = [due EXCEPT ![r] = d]
    BY <1>6 DEF Reschedule
  <2>2. d \in 0..MaxTime + Lookahead
    OBVIOUS
  <2> QED
    BY <1>6, <2>1, <2>2 DEF Reschedule, pass
<1>7. ASSUME Tick
      PROVE  Typed
  <2>1. clock' \in 0..MaxTime
    BY <1>7 DEF Tick
  <2> QED
    BY <1>7, <2>1 DEF Tick, pass
<1>8. ASSUME UNCHANGED vars
      PROVE  Typed
  BY <1>8 DEF vars, pass
<1>9. Typed
  BY <1>1, <1>2, <1>3, <1>4, <1>5, <1>6, <1>7, <1>8 DEF Next, ScanOnce
<1>10. LockTypeOK'
  BY LockStep DEF LockPart
<1> QED
  BY <1>9, <1>10

\* Every state of the scanner is of its types: a pass's time is on the clock, and
\* what it is to examine and has inserted are reminders.
THEOREM ScannerTypes == Spec => []ScannerTypeOK
BY LockInitially, LockStep, TypedInitially, TypedStep, PTL DEF Spec
=============================================================================
