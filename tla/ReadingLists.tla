---------------------------- MODULE ReadingLists ----------------------------
(***************************************************************************)
(* The lists the program serves in pages, cut or merged, each by what      *)
(* decides which rows a request gets: the columns of its ORDER BY, the     *)
(* columns its cursor compares, and how the next request goes on.  Small   *)
(* lists that always come whole are not among them.                        *)
(*                                                                         *)
(* A column is "key" (the time a row was made, or its name), "rank" (a     *)
(* value that moves: an activity time, a count, the rank of a match, a     *)
(* depth), "id", or one of them with "-" where the order ascends.  "final" *)
(* is the rank the typeahead computes in Python from the other two.        *)
(*                                                                         *)
(* order  the ORDER BY, largest first                                      *)
(* seek   the columns of the cursor, in the order they are compared        *)
(* resume "cursor", "offset", "none" (one page) or "ids" (one page of two  *)
(*        statements)                                                      *)
(* ahead  a row beyond the page is read to know whether there is another   *)
(* pins   the pinned rows come first, on the first page only               *)
(* pinned the total of the first page travels in the cursor                *)
(* low    the rank of a match is a numeric of SQL, 1.0, 0.5 or 0.1         *)
(* cut    the order in which each arm of a merged list is cut, << >> when  *)
(*        the list is not merged                                           *)
(* cap    how many rows of an arm are kept: as many as the request asks    *)
(*        for ("limit"), a multiple of it ("surplus"), a number ("fixed")  *)
(***************************************************************************)
EXTENDS Integers, Sequences

Plain(order) ==
    [order |-> order, seek |-> << >>, resume |-> "none", ahead |-> FALSE,
     pins |-> FALSE, pinned |-> FALSE, low |-> FALSE, cut |-> << >>, cap |-> "limit"]

Keyset(order, seek) ==
    [Plain(order) EXCEPT !.seek = seek, !.resume = "cursor", !.ahead = TRUE]

Offset(order) == [Plain(order) EXCEPT !.resume = "offset"]

Outline(order) == [Plain(order) EXCEPT !.resume = "ids"]

Merged(cut, cap, order) == [Plain(order) EXCEPT !.cut = cut, !.cap = cap]

-----------------------------------------------------------------------------
(* The feed of problems: the column each sort orders by, and the one its   *)
(* cursor compares.                                                        *)

SortColumn(sort) == IF sort \in {"top", "active", "discussed"} THEN "rank" ELSE "key"

SeekColumn(sort) == IF sort = "new" THEN "key" ELSE "rank"

Feed(sort) ==
    [Keyset(<<SortColumn(sort), "id">>, <<SeekColumn(sort), "id">>)
        EXCEPT !.pins = TRUE]

(* Tickets, their activity, their notices, the audit log. *)

TicketPage(order_by) ==
    LET column == IF order_by = "last_activity_at" THEN "rank" ELSE "key"
    IN  Keyset(<<column, "id">>, <<column, "id">>)

TicketActivity == Keyset(<<"key", "id">>, <<"key", "id">>)

UserNotices  == Keyset(<<"key", "id">>, <<"key", "id">>)
AgentNotices == Keyset(<<"key", "id">>, <<"key", "id">>)

Notices(recipient_kind) ==
    IF recipient_kind = "agent" THEN AgentNotices ELSE UserNotices

AuditEntries == Keyset(<<"key", "id">>, <<"key", "id">>)

(* The older notifications: the cursor is a time alone. *)
OldNotifications == Keyset(<<"key">>, <<"key">>)

(* The arms of the search over everything.  The next page is offered when  *)
(* this one is full.                                                       *)

Arm(order, seek) ==
    [Keyset(order, seek) EXCEPT !.ahead = FALSE, !.pinned = TRUE]

ProblemHits   == Arm(<<"rank", "-id">>, <<"rank", "-id">>)
TicketHits    == Arm(<<"rank", "key", "-id">>, <<"rank", "key", "-id">>)

(* Those that rank with _ilike_rank. *)
Low(list) == [list EXCEPT !.low = TRUE]

ComponentHits == Low(Arm(<<"rank", "-key", "-id">>, <<"rank", "-key", "-id">>))
LabelHits     == Low(Arm(<<"rank", "-key", "-id">>, <<"rank", "-key", "-id">>))
PeopleHits    == Low(Arm(<<"rank", "-key", "-id">>, <<"rank", "-key", "-id">>))
ShareHits     == Low(Arm(<<"rank", "key", "-id">>, <<"rank", "key", "-id">>))
BountyHits    == Low(Arm(<<"rank", "key", "-id">>, <<"rank", "key", "-id">>))

(* The lists a search over everything, or over one kind, answers with. *)
SearchLists(entity) ==
    LET arms == [problems |-> ProblemHits, tickets |-> TicketHits,
                 components |-> ComponentHits, labels |-> LabelHits,
                 users |-> PeopleHits, share_posts |-> ShareHits,
                 bounties |-> BountyHits]
    IN  {arms[a] : a \in IF entity = "all" THEN DOMAIN arms ELSE {entity}}

-----------------------------------------------------------------------------
(* Lists that skip the rows already read. *)

SharePosts    == Offset(<<"key", "id">>)
Bounties      == Offset(<<"key", "id">>)
TicketSearch(query) == Offset(IF query THEN <<"rank">> ELSE <<"key", "id">>)
ProblemSearch == Offset(<<"rank">>)
AgentActivity == Offset(<<"key">>)

(* Lists of one page. *)

AgentRuns       == Plain(<<"key", "id">>)
SimilarProblems == Plain(<<"rank">>)
Inbox           == Plain(<<"rank", "key">>)
TopSolvers      == Plain(<<"rank", "-key">>)
TopReporters    == Plain(<<"rank", "-key">>)

(* Lists of one page merged from arms, each cut before the merge. *)

ProblemsAhead  == Merged(<<"rank">>, "fixed", <<"final">>)
TicketsAhead   == Merged(<<"rank">>, "fixed", <<"final">>)
ComponentsAhead == Merged(<<"rank">>, "fixed", <<"final">>)
LabelsAhead     == Merged(<<"rank">>, "fixed", <<"final">>)
PeopleAhead     == Merged(<<"rank">>, "fixed", <<"final">>)

PersonRank   == <<"rank", "-key", "-id">>
PeopleSearch == Merged(<<"-key">>, "surplus", PersonRank)
MentionChoices == Merged(<<"-key">>, "limit", <<"-key", "-id">>)

(* Trees: one statement for the ids, another for the rows. *)

Subtree   == Outline(<<"-rank", "-id">>)
Hierarchy == Outline(<<"-rank", "-key">>)

-----------------------------------------------------------------------------
(* Every list above, a search over one kind being among the arms. *)
ServedLists ==
    {Feed(sort) : sort \in {"new", "top", "active", "discussed"}}
        \cup {TicketPage(o) : o \in {"created_at", "last_activity_at"}}
        \cup {Notices(k) : k \in {"user", "agent"}}
        \cup {TicketActivity, AuditEntries, OldNotifications}
        \cup SearchLists("all")
        \cup {TicketSearch(query) : query \in BOOLEAN}
        \cup {SharePosts, Bounties, ProblemSearch, AgentActivity}
        \cup {AgentRuns, SimilarProblems, Inbox, TopSolvers, TopReporters}
        \cup {ProblemsAhead, TicketsAhead, ComponentsAhead, LabelsAhead,
              PeopleAhead, PeopleSearch, MentionChoices}
        \cup {Subtree, Hierarchy}
=============================================================================
