------------------------------ MODULE BoardTables ------------------------------
(***************************************************************************)
(* The tables of the bulletin board and the life of a request.  A request  *)
(* is two steps of a database session: in the first the route checks the   *)
(* caller and the service reads what its decision rests on (the request    *)
(* keeps it under "saw"); in the second it flushes its writes and commits  *)
(* them, and by then the tables may have moved on.  Unique constraints and *)
(* foreign keys are guards of the second step.  A request that is refused, *)
(* fails or loses its client ends with no write at all (Abandon).          *)
(***************************************************************************)
EXTENDS Naturals, FiniteSets

CONSTANTS
    Sessions,
    Users, Admins, Agents,
    Absent, Nobody, Idle,
    ProblemIds, SuggestionIds, SolutionIds, CommentIds,
    PostIds, BountyIds, FileIds, TagIds, CategoryIds,
    Texts,
    MaxPinned,
    MaxTotal,                 \* MAX_TOTAL_SIZE, in files of equal size
    MaxNumber, MaxVersion,    \* bounds on seq_number and version_number
    Menus                     \* kinds of behaviour: operations, and who and what they name

VARIABLES
    menu,          \* what the clients of this behaviour ask for
    doing,         \* the request a session is in
    problems, claims, upstars, watches, history, suggestions,
    told,          \* notifications inserted by the latest request that has any
    solutions, versions, upvotes,
    comments,
    posts, votes,
    bounties,
    attachments, disk,
    categories, tags, tagged

problemTables == <<problems, claims, upstars, watches, history, suggestions, told>>
solutionTables == <<solutions, versions, upvotes>>
postTables == <<posts, votes>>
fileTables == <<attachments, disk>>
labelTables == <<categories, tags, tagged>>

boardVars == <<menu, doing, problemTables, solutionTables, comments, postTables,
               bounties, fileTables, labelTables>>

Actors == Users \cup Agents

-----------------------------------------------------------------------------
(* Rows.                                                                   *)

ProblemStatuses == {"open", "claimed", "solved", "accepted", "duplicate"}
Levels == {"none", "status_only", "solutions_only", "all_activity"}
NotificationTypes ==
    {"problem_claimed", "solution_posted", "solution_accepted", "comment_posted",
     "status_changed", "problem_pinned"}
SolutionStatuses == {"pending", "under_review", "verified", "accepted", "rejected"}
BountyStatuses == {"open", "claimed", "awarded", "withdrawn"}

Problem == [author : Users, number : 1..MaxNumber, status : ProblemStatuses,
            pinned : BOOLEAN, text : Texts, category : CategoryIds]
Suggestion == [problem : ProblemIds, text : Texts,
               status : {"pending", "accepted", "rejected"}]
Solution == [problem : ProblemIds, author : Users, status : SolutionStatuses,
             current : 1..MaxVersion]
Comment == [problem : ProblemIds, solution : SolutionIds \cup {Nobody},
            parent : CommentIds \cup {Nobody}, author : Users, deleted : BOOLEAN]
Post == [author : Actors, upvotes : Nat]
Bounty == [poster : Users, status : BountyStatuses, claimant : Actors \cup {Nobody},
           problem : ProblemIds \cup {Nobody}]
Attachment == [problem : ProblemIds, uploader : Users]
Category == [name : CategoryIds, order : 0..MaxNumber, deleted : BOOLEAN]

ASSUME BoardAssumption ==
    /\ Admins \subseteq Users /\ Users \cap Agents = {}
    /\ IsFiniteSet(Actors) /\ Nobody \notin Actors \cup ProblemIds \cup CommentIds \cup SolutionIds
    /\ Absent \notin Problem \cup Suggestion \cup Solution \cup Comment
    /\ Absent \notin Post \cup Bounty \cup Category
    /\ MaxPinned \in Nat /\ MaxTotal \in Nat /\ MaxNumber \in Nat /\ MaxVersion \in Nat \ {0}

Rows(ids, Row) == [ids -> Row \cup {Absent}]

BoardTypeOK ==
    /\ menu \in Menus
    /\ problems \in Rows(ProblemIds, Problem)
    /\ claims \subseteq Users \X ProblemIds
    /\ upstars \subseteq Users \X ProblemIds
    /\ watches \in [Users \X ProblemIds -> Levels \cup {Absent}]
    /\ history \subseteq ProblemIds \X Texts
    /\ suggestions \in Rows(SuggestionIds, Suggestion)
    /\ told \subseteq Users \X NotificationTypes
    /\ solutions \in Rows(SolutionIds, Solution)
    /\ versions \subseteq SolutionIds \X (1..MaxVersion)
    /\ upvotes \subseteq Users \X SolutionIds
    /\ comments \in Rows(CommentIds, Comment)
    /\ posts \in Rows(PostIds, Post)
    /\ votes \subseteq Actors \X PostIds
    /\ bounties \in Rows(BountyIds, Bounty)
    /\ attachments \in Rows(FileIds, Attachment)
    /\ disk \subseteq FileIds
    /\ categories \in Rows(CategoryIds, Category)
    /\ tags \in Rows(TagIds, TagIds)
    /\ tagged \subseteq ProblemIds \X TagIds

\* One category and the tags are there: no operation of the board adds a tag.
BoardInit ==
    /\ menu \in Menus
    /\ doing = [s \in Sessions |-> Idle]
    /\ problems = [p \in ProblemIds |-> Absent]
    /\ claims = {} /\ upstars = {} /\ history = {} /\ told = {}
    /\ watches = [w \in Users \X ProblemIds |-> Absent]
    /\ suggestions = [g \in SuggestionIds |-> Absent]
    /\ solutions = [x \in SolutionIds |-> Absent]
    /\ versions = {} /\ upvotes = {}
    /\ comments = [c \in CommentIds |-> Absent]
    /\ posts = [p \in PostIds |-> Absent] /\ votes = {}
    /\ bounties = [b \in BountyIds |-> Absent]
    /\ attachments = [f \in FileIds |-> Absent] /\ disk = {}
    /\ \E first \in CategoryIds :
        categories = [c \in CategoryIds |->
            IF c = first THEN [name |-> first, order |-> 0, deleted |-> FALSE] ELSE Absent]
    /\ tags = [t \in TagIds |-> t]
    /\ tagged = {}

Live(table) == {id \in DOMAIN table : table[id] # Absent}

\* An id nobody has and nobody is about to insert.
Fresh(table, id) ==
    /\ table[id] = Absent
    /\ \A s \in Sessions : doing[s] # Idle => doing[s].on # id

-----------------------------------------------------------------------------
(* Sessions.                                                               *)

\* A lock left out.
LockingOnlyBounties == {"claim", "unclaim", "award", "withdraw"}
LockingOnlyVotes == {"toggle_upstar", "toggle_upvote", "toggle_vote"}

\* The operations that read their row FOR UPDATE.
Locking == {"toggle_upstar", "toggle_upvote", "toggle_vote",
            "claim", "unclaim", "award", "withdraw"}

\* No other session holds the row; writers of it and of rows that refer to it
\* wait as well.
Unlocked(s, row) ==
    \A o \in Sessions \ {s} :
        ~(doing[o] # Idle /\ doing[o].op \in Locking /\ doing[o].on = row)

Ask(s, request) ==
    /\ doing[s] = Idle
    /\ request.op \in menu.ops
    /\ {request.user, request.on} \subseteq menu.ids \cup {Nobody}
    /\ request.op \in Locking => Unlocked(s, request.on)
    /\ doing' = [doing EXCEPT ![s] = request]

Doing(s, op) == doing[s] # Idle /\ doing[s].op = op

End(s) == doing' = [doing EXCEPT ![s] = Idle]

\* A refusal, an error of a statement, a lost client, a crash: rollback.
Abandon(s) ==
    /\ doing[s] # Idle
    /\ End(s)
    /\ UNCHANGED <<menu, problemTables, solutionTables, comments, postTables,
                   bounties, fileTables, labelTables>>

IsAdmin(u) == u \in Admins
=============================================================================
