------------------------------ MODULE BoardProofs ------------------------------
(***************************************************************************)
(* The newest version is shown, votes are counted, threads are whole and   *)
(* bounties keep their promise: for any number of sessions, rows and       *)
(* users, and any menu.  A request decides on what it has read, so the     *)
(* inductive invariant says what of that still holds when it writes:       *)
(* because a lock is held, because the rows never go, because an id is     *)
(* given out once, or because a unique constraint is in the way.           *)
(***************************************************************************)
EXTENDS Board, FiniteSetTheorems, TLAPS

-----------------------------------------------------------------------------
(* What a request carries.                                                 *)

ProblemOps ==
    {"set_watch", "remove_watch", "create_problem", "delete_problem", "pin_problem",
     "transition_status", "claim_problem", "toggle_upstar", "update_problem",
     "create_edit_suggestion", "accept_edit_suggestion", "reject_edit_suggestion"}
SolutionOps ==
    {"create_solution", "create_version", "update_solution_status", "toggle_upvote",
     "delete_solution", "create_comment", "edit_comment", "delete_comment"}
SpaceOps ==
    {"create_post", "toggle_vote", "create_bounty", "claim", "unclaim", "award", "withdraw",
     "create_attachment", "delete_attachment", "rename_tag", "delete_tag", "merge_tags",
     "create_category", "update_category", "reorder_categories", "soft_delete_category"}

CarriesProblem(r) ==
    /\ r.op \in ProblemOps => r.user \in Users
    /\ r.op \in ProblemOps \ {"create_edit_suggestion", "accept_edit_suggestion",
                              "reject_edit_suggestion"} => r.on \in ProblemIds
    /\ r.op = "set_watch" => r.level \in Levels
    /\ r.op = "create_problem" =>
         r.category \in CategoryIds /\ r.text \in Texts /\ r.number \in 1..MaxNumber
           /\ r.tags \subseteq TagIds
    /\ r.op = "pin_problem" => r.pinned \in BOOLEAN
    /\ r.op = "transition_status" => r.to \in ProblemStatuses
    /\ r.op = "update_problem" => r.text \in Texts /\ r.old \in Texts
    /\ r.op = "create_edit_suggestion" =>
         r.on \in SuggestionIds /\ r.problem \in ProblemIds /\ r.text \in Texts

CarriesSolution(r) ==
    /\ r.op \in SolutionOps => r.user \in Users
    /\ r.op = "create_solution" => r.on \in SolutionIds /\ r.problem \in ProblemIds
    /\ r.op = "create_version" => r.number \in 1..MaxVersion
    /\ r.op = "update_solution_status" =>
         r.to \in SolutionStatuses /\ r.tell \in {"status_changed", "solution_accepted"}
    /\ r.op = "toggle_upvote" => r.on \in SolutionIds
    /\ r.op = "create_comment" =>
         /\ r.on \in CommentIds /\ r.problem \in ProblemIds
         /\ r.solution \in SolutionIds \cup {Nobody} /\ r.parent \in CommentIds \cup {Nobody}
    /\ r.op \in {"edit_comment", "delete_comment"} => r.on \in CommentIds

CarriesSpace(r) ==
    /\ r.op \in {"create_post", "toggle_vote"} => r.on \in PostIds /\ r.user \in Actors
    /\ r.op = "toggle_vote" => r.others \in Nat
    /\ r.op \in {"create_bounty", "claim", "unclaim", "award", "withdraw"} => r.on \in BountyIds
    /\ r.op = "create_bounty" => r.user \in Users /\ r.problem \in ProblemIds \cup {Nobody}
    /\ r.op \in {"claim", "unclaim", "award", "withdraw"} => r.user \in Actors
    /\ r.op \in {"create_attachment", "delete_attachment"} => r.on \in FileIds /\ r.user \in Users
    /\ r.op = "create_attachment" => r.problem \in ProblemIds
    /\ r.op \in {"rename_tag", "delete_tag", "merge_tags"} => r.on \in TagIds
    /\ r.op = "rename_tag" => r.name \in TagIds
    /\ r.op = "merge_tags" => r.target \in TagIds /\ r.problems \subseteq ProblemIds
    /\ r.op = "create_category" =>
         r.on \in CategoryIds /\ r.name \in CategoryIds /\ r.order \in 0..MaxNumber
    /\ r.op = "update_category" => r.name \in CategoryIds
    /\ r.op = "reorder_categories" => r.order \in [DOMAIN r.order -> 0..MaxNumber]

Carries(r) == CarriesProblem(r) /\ CarriesSolution(r) /\ CarriesSpace(r)

\* Solutions, suggestions and categories are never deleted, so the rows that a
\* request has read are there when it writes.
Stands(r) ==
    /\ r.op \in {"create_version", "update_solution_status"} => r.on \in Live(solutions)
    /\ r.op = "update_solution_status" => r.accepted \subseteq Live(solutions)
    /\ r.op \in {"accept_edit_suggestion", "reject_edit_suggestion"} => r.on \in Live(suggestions)
    /\ r.op \in {"update_category", "soft_delete_category"} => r.on \in Live(categories)
    /\ r.op = "reorder_categories" => DOMAIN r.order \subseteq Live(categories)

RequestsOK ==
    /\ DOMAIN doing = Sessions
    /\ \A s \in Sessions : doing[s] # Idle => Carries(doing[s]) /\ Stands(doing[s])

-----------------------------------------------------------------------------
(* The invariants.                                                         *)

\* A problem with a suggestion cannot be deleted.
SuggestionsHang ==
    \A g \in Live(suggestions) : suggestions[g].problem \in Live(problems)

\* Rows that are about to be inserted have an id of their own.
NewIn(table, op) ==
    \A s \in Sessions : Doing(s, op) =>
        /\ doing[s].on \notin Live(table)
        /\ \A o \in Sessions \ {s} : Doing(o, op) => doing[o].on # doing[s].on

\* The row of a solution has its newest number, and a request that adds a version
\* read no higher one.
VersionInv ==
    /\ NewIn(solutions, "create_solution")
    /\ \A x \in Live(solutions) : Numbers(x) = 1..solutions[x].current
    /\ \A x \in SolutionIds \ Live(solutions) : Numbers(x) = {}
    /\ \A s \in Sessions : Doing(s, "create_version") =>
         doing[s].number <= solutions[doing[s].on].current + 1

\* Nothing hangs in a circle.
NoCircle ==
    \A S \in SUBSET Live(comments) : (\A c \in S : comments[c].parent \in S) => S = {}

CommentInv ==
    /\ NewIn(comments, "create_comment")
    /\ \A c \in Live(comments) : comments[c].parent \in Live(comments) \cup {Nobody}
    /\ NoCircle

\* Whoever holds the lock on a row is alone with it.
Alone(s, ops) ==
    \A o \in Sessions \ {s} :
        (doing[o] # Idle /\ doing[o].op \in ops) => doing[o].on # doing[s].on

\* A voter has the post to himself, so what he read of its votes is so.
VoteInv ==
    /\ NewIn(posts, "create_post")
    /\ \A p \in Live(posts) : posts[p].upvotes = Cardinality(Voters(p))
    /\ \A p \in PostIds \ Live(posts) : Voters(p) = {}
    /\ \A s \in Sessions : Doing(s, "toggle_vote") =>
         doing[s].on \in Live(posts) /\ Alone(s, {"toggle_vote"})
    /\ \A s \in Sessions, p \in PostIds, a \in Actors :
         (Doing(s, "toggle_vote") /\ doing[s].on = p /\ doing[s].user = a) =>
           /\ doing[s].had <=> <<a, p>> \in votes
           /\ doing[s].others = Cardinality(Voters(p) \ {a})

Steps == {"claim", "unclaim", "award", "withdraw"}

BountyInv ==
    /\ NewIn(bounties, "create_bounty")
    /\ \A b \in Live(bounties) : bounties[b].status = "open" => bounties[b].claimant = Nobody
    /\ \A s \in Sessions : doing[s] # Idle /\ doing[s].op \in Steps =>
        /\ doing[s].on \in Live(bounties)
        /\ Alone(s, Steps)
        /\ MayTake(doing[s].op, doing[s].user, doing[s].on)

BoardInv ==
    /\ BoardTypeOK /\ RequestsOK /\ SuggestionsHang
    /\ VersionInv /\ CommentInv /\ VoteInv /\ BountyInv

-----------------------------------------------------------------------------
(* What a step does to the requests.                                       *)

\* Everything but the requests.
tables == <<menu, problemTables, solutionTables, comments, postTables, bounties,
            fileTables, labelTables>>

\* The request of s goes on or is over.
Ends(s) == doing' = doing \/ doing' = [doing EXCEPT ![s] = Idle]

\* Who does one of ops after the step did it before.
Dropped(ops) ==
    /\ DOMAIN doing' = Sessions
    /\ \A o \in Sessions : doing'[o] = doing[o] \/ (\A op \in ops : ~Doing(o, op)')

\* Asking is a step of one session.
LEMMA AskIs ==
    ASSUME NEW s \in Sessions, DOMAIN doing = Sessions, NEW r, Ask(s, r)
    PROVE  /\ DOMAIN doing' = Sessions
           /\ doing[s] = Idle /\ doing'[s] = r
           /\ \A o \in Sessions \ {s} : doing'[o] = doing[o]
BY DEF Ask

LEMMA AskDrops ==
    ASSUME NEW s \in Sessions, DOMAIN doing = Sessions, NEW r, Ask(s, r),
           NEW ops, r.op \notin ops
    PROVE  Dropped(ops)
BY AskIs DEF Dropped, Doing

LEMMA EndDrops ==
    ASSUME NEW s \in Sessions, DOMAIN doing = Sessions, Ends(s), NEW ops
    PROVE  Dropped(ops)
BY DEF Ends, Dropped, Doing

LEMMA ProblemsEnd ==
    ASSUME NEW s \in Sessions, DoProblems(s)
    PROVE  Ends(s) /\ UNCHANGED <<menu, solutionTables, comments, postTables, fileTables>>
BY DEF DoProblems, Ends, End, elsewhere, SetWatch, RemoveWatch, CreateProblem, DeleteProblem,
       PinProblem, Transition, ClaimProblem, UnclaimProblem, Upstar, UpdateProblem, Suggest,
       AcceptSuggestion, RejectSuggestion

LEMMA SolutionsEnd ==
    ASSUME NEW s \in Sessions, DoSolutions(s)
    PROVE  /\ Ends(s)
           /\ UNCHANGED <<menu, problems, claims, upstars, history, suggestions, postTables,
                          bounties, fileTables, labelTables>>
BY DEF DoSolutions, Ends, End, kept, CreateSolution, CreateVersion, SolutionStatus, Upvote,
       DeleteSolutionFails, CreateComment, EditComment, Bury, Remove

LEMMA SpacesEnd ==
    ASSUME NEW s \in Sessions, DoSpaces(s)
    PROVE  /\ Ends(s)
           /\ UNCHANGED <<menu, problemTables, solutionTables, comments>>
BY DEF DoSpaces, Ends, End, rest, problemTables, CreatePost, Vote, CreateBounty, TakeBounty,
       ReleaseBounty, AwardBounty, WithdrawBounty, WriteBounty, StoreFile, InsertAttachment, UnlinkFile,
       DeleteAttachment, RenameTag, DeleteTag, MergeTags, DropTag, CreateCategory,
       UpdateCategory, Reorder, DeleteCategory, PutCategory

LEMMA AbandonEnds ==
    ASSUME NEW s \in Sessions, Abandon(s)
    PROVE  Ends(s) /\ UNCHANGED tables
BY DEF Abandon, Ends, End, tables

-----------------------------------------------------------------------------
(* What a request is given.                                                *)

LEMMA CarriesApart ==
    ASSUME NEW r
    PROVE  /\ r.op \in ProblemOps => CarriesSolution(r) /\ CarriesSpace(r)
           /\ r.op \in SolutionOps => CarriesProblem(r) /\ CarriesSpace(r)
           /\ r.op \in SpaceOps => CarriesProblem(r) /\ CarriesSolution(r)
<1>1. r.op \in ProblemOps => CarriesSolution(r) /\ CarriesSpace(r)
  BY DEF CarriesSolution, CarriesSpace, ProblemOps, SolutionOps
<1>2. r.op \in SolutionOps => CarriesProblem(r) /\ CarriesSpace(r)
  BY DEF CarriesProblem, CarriesSpace, ProblemOps, SolutionOps
<1>3. r.op \in SpaceOps => CarriesProblem(r) /\ CarriesSolution(r)
  BY DEF CarriesProblem, CarriesSolution, ProblemOps, SolutionOps, SpaceOps
<1> QED
  BY <1>1, <1>2, <1>3

\* A bounded set of numbers has a largest one.
LEMMA GreatestNumber ==
    ASSUME NEW N, NEW m \in Nat, N \subseteq 0..m, N # {}
    PROVE  \E n \in N : \A k \in N : k <= n
<1> DEFINE R == OpToRel(<, Nat)
           D == {d \in 0..m : m - d \in N}
<1>1. IsWellFoundedOn(R, Nat)
  BY NatLessThanWellFounded
<1>2. D # {} /\ D \in SUBSET Nat
  <2>1. PICK n \in N : TRUE
    OBVIOUS
  <2>2. n \in 0..m
    BY <2>1
  <2>3. m - n \in 0..m /\ m - (m - n) = n
    BY <2>2
  <2>4. m - n \in D
    BY <2>2, <2>3
  <2>5. D \subseteq Nat
    OBVIOUS
  <2> HIDE DEF D
  <2> QED
    BY <2>4, <2>5
<1>3. \A d, e \in D : e < d => <<e, d>> \in R
  BY DEF OpToRel
<1> HIDE DEF R
<1>4. PICK d \in D : \A e \in D : <<e, d>> \notin R
  <2> HIDE DEF D
  <2> QED
    BY <1>1, <1>2, WFMin
<1>5. \A e \in D : ~(e < d)
  BY <1>3, <1>4
<1>6. m - d \in N
  OBVIOUS
<1>7. ASSUME NEW k \in N PROVE k <= m - d
  <2>1. k \in 0..m
    BY <1>7
  <2>2. m - k \in 0..m /\ m - (m - k) = k
    BY <2>1
  <2>3. m - k \in D
    BY <2>2, <1>7
  <2>4. ~(m - k < d) /\ d \in 0..m
    BY <2>3, <1>5
  <2> QED
    BY <2>1, <2>4
<1> QED
  BY <1>6, <1>7

LEMMA NextNumberGiven ==
    ASSUME BoardTypeOK
    PROVE  NextNumber \in Nat \ {0}
<1> DEFINE N == {0} \cup {problems[p].number : p \in Live(problems)}
           P(n) == /\ n = 0 \/ \E p \in Live(problems) : problems[p].number = n
                   /\ \A p \in Live(problems) : problems[p].number <= n
<1>1. N \subseteq 0..MaxNumber /\ N # {}
  BY BoardAssumption DEF BoardTypeOK, Rows, Live, Problem
<1>2. PICK n \in N : \A k \in N : k <= n
  BY <1>1, GreatestNumber, BoardAssumption
<1>3. n \in 0..MaxNumber /\ P(n)
  BY <1>1, <1>2
<1>4. NextNumber = 1 + CHOOSE k \in 0..MaxNumber : P(k)
  BY DEF NextNumber
<1>5. (CHOOSE k \in 0..MaxNumber : P(k)) \in 0..MaxNumber
  BY <1>3
<1> QED
  BY <1>4, <1>5, BoardAssumption

LEMMA NextOrderGiven ==
    ASSUME BoardTypeOK
    PROVE  NextOrder \in Nat
<1> DEFINE N == {categories[c].order : c \in Listed}
           P(n) == /\ \E c \in Listed : categories[c].order = n
                   /\ \A c \in Listed : categories[c].order <= n
<1>1. CASE Listed = {}
  BY <1>1 DEF NextOrder
<1>2. CASE Listed # {}
  <2>1. N \subseteq 0..MaxNumber /\ N # {}
    BY <1>2 DEF BoardTypeOK, Rows, Live, Category, Listed
  <2>2. PICK n \in N : \A k \in N : k <= n
    BY <2>1, GreatestNumber, BoardAssumption
  <2>3. n \in 0..MaxNumber /\ P(n)
    BY <2>1, <2>2
  <2>4. NextOrder = 1 + CHOOSE k \in 0..MaxNumber : P(k)
    BY <1>2 DEF NextOrder
  <2>5. (CHOOSE k \in 0..MaxNumber : P(k)) \in 0..MaxNumber
    BY <2>3
  <2> QED
    BY <2>4, <2>5, BoardAssumption
<1> QED
  BY <1>1, <1>2

\* What s asks is in ops, and of the kind the invariant wants.
Begins(s, ops) ==
    /\ DOMAIN doing' = Sessions /\ doing[s] = Idle
    /\ \A o \in Sessions \ {s} : doing'[o] = doing[o]
    /\ doing'[s].op \in ops /\ Carries(doing'[s]) /\ Stands(doing'[s])
    /\ UNCHANGED tables

LEMMA ProblemsAsk ==
    ASSUME NEW s \in Sessions, BoardInv, AskProblems(s)
    PROVE  Begins(s, ProblemOps)
<1> DEFINE r == doing'[s]
           Given == /\ doing[s] = Idle /\ doing' = [doing EXCEPT ![s] = r]
                    /\ r.op \in ProblemOps /\ CarriesProblem(r) /\ Stands(r)
<1> USE DEF Ask, ProblemOps, CarriesProblem, Stands
<1>1. UNCHANGED tables
  BY DEF AskProblems, tables, elsewhere
<1>2. /\ DOMAIN doing = Sessions /\ BoardTypeOK /\ Admins \subseteq Users
      /\ Live(problems) \subseteq ProblemIds
      /\ \A p \in Live(problems) : problems[p].text \in Texts /\ problems[p].pinned \in BOOLEAN
      /\ Live(categories) \subseteq CategoryIds /\ Live(tags) \subseteq TagIds
      /\ Live(suggestions) \subseteq SuggestionIds
  BY BoardAssumption DEF BoardInv, BoardTypeOK, Rows, Live, Problem, RequestsOK
<1>3. ASSUME AskSetWatch(s) PROVE Given
  BY <1>2, <1>3 DEF AskSetWatch
<1>4. ASSUME AskRemoveWatch(s) PROVE Given
  BY <1>2, <1>4 DEF AskRemoveWatch
<1>5. ASSUME AskCreateProblem(s) PROVE Given
  BY <1>2, <1>5, NextNumberGiven, BoardAssumption DEF AskCreateProblem
<1>6. ASSUME AskDeleteProblem(s) PROVE Given
  BY <1>2, <1>6 DEF AskDeleteProblem
<1>7. ASSUME AskPinProblem(s) PROVE Given
  BY <1>2, <1>7 DEF AskPinProblem
<1>8. ASSUME AskTransition(s) PROVE Given
  BY <1>2, <1>8 DEF AskTransition
<1>9. ASSUME AskClaimProblem(s) PROVE Given
  BY <1>2, <1>9 DEF AskClaimProblem
<1>10. ASSUME AskUpstar(s) PROVE Given
  BY <1>2, <1>10 DEF AskUpstar
<1>11. ASSUME AskUpdateProblem(s) PROVE Given
  BY <1>2, <1>11 DEF AskUpdateProblem
<1>12. ASSUME AskSuggest(s) PROVE Given
  BY <1>2, <1>12 DEF AskSuggest
<1>13. ASSUME AskAcceptSuggestion(s) PROVE Given
  BY <1>2, <1>13 DEF AskAcceptSuggestion
<1>14. ASSUME AskRejectSuggestion(s) PROVE Given
  BY <1>2, <1>14 DEF AskRejectSuggestion
<1>15. Given
  <2> HIDE DEF Given
  <2> QED
    BY <1>3, <1>4, <1>5, <1>6, <1>7, <1>8, <1>9, <1>10, <1>11, <1>12, <1>13, <1>14
    DEF AskProblems
<1> HIDE DEF ProblemOps, CarriesProblem, Stands
<1> QED
  BY <1>1, <1>2, <1>15, CarriesApart DEF Begins, Carries

\* The newest version of a solution is the one its row points to.
LEMMA LatestIsCurrent ==
    ASSUME BoardInv, NEW x \in Live(solutions)
    PROVE  /\ Numbers(x) = 1..solutions[x].current
           /\ solutions[x].current \in 1..MaxVersion
           /\ Latest(x) = solutions[x].current
<1> DEFINE n == solutions[x].current
           P(k) == k \in Numbers(x) \cup {0} /\ \A j \in Numbers(x) : j <= k
<1>1. Numbers(x) = 1..n /\ n \in 1..MaxVersion
  BY DEF BoardInv, VersionInv, BoardTypeOK, Rows, Live, Solution
<1>2. n \in 0..MaxVersion /\ P(n)
  BY <1>1, BoardAssumption
<1>3. \A k \in 0..MaxVersion : P(k) => k = n
  BY <1>1, BoardAssumption
<1>4. Latest(x) = CHOOSE k \in 0..MaxVersion : P(k)
  BY DEF Latest
<1> HIDE DEF P
<1>5. Latest(x) \in 0..MaxVersion /\ P(Latest(x))
  BY <1>2, <1>4
<1> QED
  BY <1>1, <1>3, <1>5

LEMMA SolutionsAsk ==
    ASSUME NEW s \in Sessions, BoardInv, AskSolutions(s)
    PROVE  Begins(s, SolutionOps)
<1> DEFINE r == doing'[s]
           Given == /\ doing[s] = Idle /\ doing' = [doing EXCEPT ![s] = r]
                    /\ r.op \in SolutionOps /\ CarriesSolution(r) /\ Stands(r)
<1> USE DEF Ask, SolutionOps, CarriesSolution, Stands
<1>1. UNCHANGED tables
  BY DEF AskSolutions, tables, kept, problemTables, solutionTables
<1>2. /\ DOMAIN doing = Sessions /\ Admins \subseteq Users
      /\ Live(problems) \subseteq ProblemIds /\ Live(solutions) \subseteq SolutionIds
      /\ Live(comments) \subseteq CommentIds
      /\ \A x \in Live(solutions) : solutions[x].author \in Users
      /\ \A c \in Live(comments) : comments[c].author \in Users
  BY BoardAssumption DEF BoardInv, BoardTypeOK, Rows, Live, Solution, Comment, RequestsOK
<1>3. ASSUME AskCreateSolution(s) PROVE Given
  BY <1>2, <1>3 DEF AskCreateSolution
<1>4. ASSUME AskCreateVersion(s) PROVE Given
  <2>1. \A x \in Live(solutions) :
          Latest(x) < MaxVersion => Latest(x) + 1 \in 1..MaxVersion
    BY LatestIsCurrent, BoardAssumption
  <2> QED
    BY <1>2, <1>4, <2>1 DEF AskCreateVersion
<1>5. ASSUME AskSolutionStatus(s) PROVE Given
  BY <1>2, <1>5 DEF AskSolutionStatus
<1>6. ASSUME AskUpvote(s) PROVE Given
  BY <1>2, <1>6 DEF AskUpvote
<1>7. ASSUME AskDeleteSolution(s) PROVE Given
  BY <1>2, <1>7 DEF AskDeleteSolution
<1>8. ASSUME AskCreateComment(s) PROVE Given
  BY <1>2, <1>8 DEF AskCreateComment
<1>9. ASSUME AskEditComment(s) PROVE Given
  BY <1>2, <1>9 DEF AskEditComment
<1>10. ASSUME AskDeleteComment(s) PROVE Given
  BY <1>2, <1>10 DEF AskDeleteComment
<1>11. Given
  <2> HIDE DEF Given
  <2> QED
    BY <1>3, <1>4, <1>5, <1>6, <1>7, <1>8, <1>9, <1>10 DEF AskSolutions
<1> HIDE DEF SolutionOps, CarriesSolution, Stands
<1> QED
  BY <1>1, <1>2, <1>11, CarriesApart DEF Begins, Carries

LEMMA VotersFinite ==
    ASSUME NEW p, NEW S \in SUBSET Voters(p)
    PROVE  IsFiniteSet(S) /\ Cardinality(S) \in Nat
<1>1. S \subseteq Actors
  BY DEF Voters
<1> QED
  BY <1>1, FS_Subset, FS_CardinalityType, BoardAssumption

LEMMA SpacesAsk ==
    ASSUME NEW s \in Sessions, BoardInv, AskSpaces(s)
    PROVE  Begins(s, SpaceOps)
<1> DEFINE r == doing'[s]
           Given == /\ doing[s] = Idle /\ doing' = [doing EXCEPT ![s] = r]
                    /\ r.op \in SpaceOps /\ CarriesSpace(r) /\ Stands(r)
<1> USE DEF Ask, SpaceOps, CarriesSpace, Stands
<1>1. UNCHANGED tables
  BY DEF AskSpaces, tables, rest, problemTables
<1>2. /\ DOMAIN doing = Sessions /\ Admins \subseteq Users /\ Users \subseteq Actors
      /\ Live(posts) \subseteq PostIds /\ Live(bounties) \subseteq BountyIds
      /\ Live(attachments) \subseteq FileIds
      /\ Live(tags) \subseteq TagIds /\ Live(categories) \subseteq CategoryIds
      /\ \A f \in Live(attachments) : attachments[f].uploader \in Users
      /\ \A t : TaggedWith(t) \subseteq ProblemIds
  BY BoardAssumption
  DEF BoardInv, BoardTypeOK, Rows, Live, Attachment, RequestsOK, Actors, TaggedWith
<1>3. ASSUME AskCreatePost(s) PROVE Given
  BY <1>2, <1>3 DEF AskCreatePost
<1>4. ASSUME AskVote(s) PROVE Given
  <2>1. \A p, a : Cardinality(Voters(p) \ {a}) \in Nat
    BY VotersFinite
  <2>2. PICK p \in Live(posts), a \in Actors :
          Ask(s, [op |-> "toggle_vote", user |-> a, on |-> p, had |-> <<a, p>> \in votes,
                  others |-> Cardinality(Voters(p) \ {a})])
    BY <1>4 DEF AskVote
  <2>3. /\ doing[s] = Idle /\ doing' = [doing EXCEPT ![s] = r]
        /\ r.op = "toggle_vote" /\ r.user = a /\ r.on = p
        /\ r.others = Cardinality(Voters(p) \ {a})
    BY <1>2, <2>2
  <2>4. r.on \in PostIds /\ r.user \in Actors /\ r.others \in Nat
    <3>1. p \in PostIds
      BY ONLY <1>2, <2>2
    <3>2. r.on \in PostIds
      BY ONLY <2>3, <3>1
    <3>3. r.user \in Actors
      BY ONLY <2>2, <2>3
    <3>4. r.others \in Nat
      <4>1. Cardinality(Voters(p) \ {a}) \in Nat
        BY ONLY <2>1, Zenon
      <4>2. r.others = Cardinality(Voters(p) \ {a})
        BY ONLY <2>3
      <4> QED BY ONLY <4>1, <4>2, Zenon
    <3> QED BY ONLY <3>2, <3>3, <3>4
  <2>5. CarriesSpace(r) /\ r.op \in SpaceOps
    BY <2>3, <2>4
  <2>6. Stands(r)
    BY <2>3
  <2> QED
    BY <2>3, <2>5, <2>6
<1>5. ASSUME AskCreateBounty(s) PROVE Given
  BY <1>2, <1>5 DEF AskCreateBounty
<1>6. ASSUME AskBounty(s) PROVE Given
  BY <1>2, <1>6 DEF AskBounty
<1>7. ASSUME AskUpload(s) PROVE Given
  BY <1>2, <1>7 DEF AskUpload
<1>8. ASSUME AskDeleteAttachment(s) PROVE Given
  BY <1>2, <1>8 DEF AskDeleteAttachment
<1>9. ASSUME AskRenameTag(s) PROVE Given
  BY <1>2, <1>9 DEF AskRenameTag
<1>10. ASSUME AskDeleteTag(s) PROVE Given
  BY <1>2, <1>10 DEF AskDeleteTag
<1>11. ASSUME AskMergeTags(s) PROVE Given
  BY <1>2, <1>11 DEF AskMergeTags
<1>12. ASSUME AskCreateCategory(s) PROVE Given
  BY <1>2, <1>12, NextOrderGiven, BoardAssumption DEF AskCreateCategory, BoardInv
<1>13. ASSUME AskUpdateCategory(s) PROVE Given
  BY <1>2, <1>13 DEF AskUpdateCategory, Listed
<1>14. ASSUME AskReorder(s) PROVE Given
  BY <1>2, <1>14 DEF AskReorder
<1>15. ASSUME AskDeleteCategory(s) PROVE Given
  BY <1>2, <1>15 DEF AskDeleteCategory, Listed
<1>16. Given
  <2> HIDE DEF Given
  <2> QED
    BY <1>3, <1>4, <1>5, <1>6, <1>7, <1>8, <1>9, <1>10, <1>11, <1>12, <1>13, <1>14, <1>15
    DEF AskSpaces
<1> HIDE DEF SpaceOps, CarriesSpace, Stands
<1> QED
  BY <1>1, <1>2, <1>16, CarriesApart DEF Begins, Carries

-----------------------------------------------------------------------------
(* Types.                                                                  *)

\* Rows are put, and taken away.
LEMMA RowPut ==
    ASSUME NEW ids, NEW Row, NEW table \in Rows(ids, Row), NEW i, NEW row \in Row \cup {Absent}
    PROVE  [table EXCEPT ![i] = row] \in Rows(ids, Row)
BY DEF Rows

LEMMA Watched ==
    ASSUME NEW u \in Users, NEW p \in ProblemIds, NEW found, AutoWatch(u, p, found),
           watches \in [Users \X ProblemIds -> Levels \cup {Absent}]
    PROVE  watches' \in [Users \X ProblemIds -> Levels \cup {Absent}]
BY DEF AutoWatch, Levels

LEMMA Telling ==
    ASSUME NEW type \in NotificationTypes, NEW p, NEW actor, Tell(type, p, actor)
    PROVE  told' \subseteq Users \X NotificationTypes
BY DEF Tell

LEMMA RequestIs ==
    ASSUME NEW s \in Sessions, RequestsOK, NEW op, Doing(s, op)
    PROVE  doing[s].op = op /\ Carries(doing[s]) /\ Stands(doing[s])
BY DEF RequestsOK, Doing

LEMMA ProblemsTyped ==
    ASSUME NEW s \in Sessions, BoardInv, DoProblems(s)
    PROVE  BoardTypeOK'
<1> DEFINE r == doing[s]
           Typed == BoardTypeOK'
<1> USE DEF CarriesProblem, ProblemOps, elsewhere, problemTables, solutionTables, postTables,
            fileTables, labelTables, BoardTypeOK
<1>1. BoardTypeOK /\ RequestsOK /\ SuggestionsHang
  BY DEF BoardInv
<1>2. \A op : Doing(s, op) => r.op = op /\ CarriesProblem(r) /\ Stands(r)
  BY <1>1, RequestIs DEF Carries
<1>3. /\ Live(problems) \subseteq ProblemIds /\ \A p \in Live(problems) : problems[p] \in Problem
      /\ Live(suggestions) \subseteq SuggestionIds
      /\ \A g \in Live(suggestions) : suggestions[g] \in Suggestion
  BY <1>1 DEF Rows, Live
<1>4. ASSUME SetWatch(s) PROVE Typed
  BY <1>1, <1>2, <1>4 DEF SetWatch, Levels
<1>5. ASSUME RemoveWatch(s) PROVE Typed
  BY <1>1, <1>2, <1>5 DEF RemoveWatch
<1>6. ASSUME CreateProblem(s) PROVE Typed
  <2>1. watches' \in [Users \X ProblemIds -> Levels \cup {Absent}]
    BY <1>1, <1>2, <1>6, Watched DEF CreateProblem, NotificationTypes
  <2>2. problems' \in Rows(ProblemIds, Problem)
    BY <1>1, <1>2, <1>6, RowPut DEF CreateProblem, Problem, ProblemStatuses
  <2>3. tagged' \subseteq ProblemIds \X TagIds
    BY <1>1, <1>2, <1>6 DEF CreateProblem
  <2> QED
    BY <1>1, <1>6, <2>1, <2>2, <2>3 DEF CreateProblem
<1>7. ASSUME DeleteProblem(s) PROVE Typed
  <2>1. problems' \in Rows(ProblemIds, Problem)
    BY <1>1, <1>7, RowPut DEF DeleteProblem
  <2>2. bounties' \in Rows(BountyIds, Bounty)
    <3>1. \A b \in Bounty : [b EXCEPT !.problem = Nobody] \in Bounty
      BY DEF Bounty
    <3> QED BY <1>1, <1>7, <3>1 DEF DeleteProblem, Rows
  <2> QED
    BY <1>1, <1>7, <2>1, <2>2 DEF DeleteProblem
<1>8. ASSUME PinProblem(s) PROVE Typed
  <2>1. problems' \in Rows(ProblemIds, Problem)
    BY <1>1, <1>2, <1>3, <1>8, RowPut DEF PinProblem, Problem
  <2>2. told' \subseteq Users \X NotificationTypes
    BY <1>1, <1>2, <1>8, Telling DEF PinProblem, NotificationTypes
  <2> QED
    BY <1>1, <1>8, <2>1, <2>2 DEF PinProblem
<1>9. ASSUME Transition(s) PROVE Typed
  <2>1. problems' \in Rows(ProblemIds, Problem)
    BY <1>1, <1>2, <1>3, <1>9, RowPut DEF Transition, Problem
  <2>2. told' \subseteq Users \X NotificationTypes
    BY <1>1, <1>2, <1>9, Telling DEF Transition, NotificationTypes
  <2> QED
    BY <1>1, <1>9, <2>1, <2>2 DEF Transition
<1>10. ASSUME ClaimProblem(s) PROVE Typed
  <2>1. problems' \in Rows(ProblemIds, Problem)
    <3>1. [problems[r.on] EXCEPT !.status = "claimed"] \in Problem
      BY <1>3, <1>10 DEF ClaimProblem, Problem, ProblemStatuses
    <3> QED
      BY <1>1, <1>10, <3>1, RowPut DEF ClaimProblem
  <2>2. told' \subseteq Users \X NotificationTypes
    BY <1>1, <1>2, <1>10, Telling DEF ClaimProblem, NotificationTypes
  <2>3. claims' \subseteq Users \X ProblemIds
    BY <1>1, <1>2, <1>10 DEF ClaimProblem
  <2> QED
    BY <1>1, <1>10, <2>1, <2>2, <2>3 DEF ClaimProblem
<1>11. ASSUME UnclaimProblem(s) PROVE Typed
  <2>1. problems' \in Rows(ProblemIds, Problem)
    <3>1. [problems[r.on] EXCEPT !.status = "open"] \in Problem
      BY <1>3, <1>11 DEF UnclaimProblem, Problem, ProblemStatuses
    <3> QED
      BY <1>1, <1>11, <3>1, RowPut DEF UnclaimProblem
  <2> QED
    BY <1>1, <1>11, <2>1 DEF UnclaimProblem
<1>12. ASSUME Upstar(s) PROVE Typed
  BY <1>1, <1>2, <1>12 DEF Upstar
<1>13. ASSUME UpdateProblem(s) PROVE Typed
  <2>1. problems' \in Rows(ProblemIds, Problem)
    BY <1>1, <1>2, <1>3, <1>13, RowPut DEF UpdateProblem, Problem
  <2>2. history' \subseteq ProblemIds \X Texts
    BY <1>1, <1>2, <1>13 DEF UpdateProblem
  <2> QED
    BY <1>1, <1>13, <2>1, <2>2 DEF UpdateProblem
<1>14. ASSUME Suggest(s) PROVE Typed
  <2>1. suggestions' \in Rows(SuggestionIds, Suggestion)
    BY <1>1, <1>2, <1>14, RowPut DEF Suggest, Suggestion
  <2> QED
    BY <1>1, <1>14, <2>1 DEF Suggest
<1>15. ASSUME AcceptSuggestion(s) PROVE Typed
  <2>1. r.on \in Live(suggestions) /\ suggestions[r.on].problem \in Live(problems)
    BY <1>1, <1>2, <1>15 DEF AcceptSuggestion, Stands, SuggestionsHang
  <2>2. problems' \in Rows(ProblemIds, Problem)
    BY <1>1, <1>3, <1>15, <2>1, RowPut DEF AcceptSuggestion, Problem, Suggestion
  <2>3. suggestions' \in Rows(SuggestionIds, Suggestion)
    BY <1>1, <1>3, <1>15, <2>1, RowPut DEF AcceptSuggestion, Suggestion
  <2> QED
    BY <1>1, <1>15, <2>2, <2>3 DEF AcceptSuggestion
<1>16. ASSUME RejectSuggestion(s) PROVE Typed
  <2>1. r.on \in Live(suggestions)
    BY <1>1, <1>2, <1>16 DEF RejectSuggestion, Stands
  <2>2. suggestions' \in Rows(SuggestionIds, Suggestion)
    BY <1>1, <1>3, <1>16, <2>1, RowPut DEF RejectSuggestion, Suggestion
  <2> QED
    BY <1>1, <1>16, <2>2 DEF RejectSuggestion
<1> HIDE DEF Typed
<1> QED
  BY <1>4, <1>5, <1>6, <1>7, <1>8, <1>9, <1>10, <1>11, <1>12, <1>13, <1>14, <1>15, <1>16
  DEF DoProblems, Typed

LEMMA SolutionsTyped ==
    ASSUME NEW s \in Sessions, BoardInv, DoSolutions(s)
    PROVE  BoardTypeOK'
<1> DEFINE r == doing[s]
           Typed == BoardTypeOK'
           Watches == [Users \X ProblemIds -> Levels \cup {Absent}]
<1> USE DEF CarriesSolution, SolutionOps, kept, solutionTables, postTables, fileTables,
            labelTables, BoardTypeOK
<1>1. BoardTypeOK /\ RequestsOK
  BY DEF BoardInv
<1>2. \A op : Doing(s, op) => r.op = op /\ CarriesSolution(r) /\ Stands(r)
  BY <1>1, RequestIs DEF Carries
<1>3. /\ Live(solutions) \subseteq SolutionIds
      /\ \A x \in Live(solutions) : solutions[x] \in Solution
      /\ Live(comments) \subseteq CommentIds
      /\ \A c \in Live(comments) : comments[c] \in Comment
  BY <1>1 DEF Rows, Live
<1>4. ASSUME CreateSolution(s) PROVE Typed
  <2>0. 1 \in 1..MaxVersion
    BY BoardAssumption
  <2> DEFINE row == [problem |-> r.problem, author |-> r.user, status |-> "pending", current |-> 1]
  <2>5. row \in Solution /\ solutions' = [solutions EXCEPT ![r.on] = row]
    BY <1>2, <1>4, <2>0 DEF CreateSolution, Solution, SolutionStatuses
  <2> HIDE DEF row
  <2>1. solutions' \in Rows(SolutionIds, Solution)
    BY <1>1, <2>5, RowPut
  <2>2. versions' \subseteq SolutionIds \X (1..MaxVersion)
    BY <1>1, <1>2, <1>4, BoardAssumption DEF CreateSolution
  <2>3. watches' \in Watches
    BY <1>1, <1>2, <1>4, Watched DEF CreateSolution
  <2>4. told' \subseteq Users \X NotificationTypes
    BY <1>4, Telling DEF CreateSolution, NotificationTypes
  <2> QED
    BY <1>1, <1>4, <2>1, <2>2, <2>3, <2>4 DEF CreateSolution
<1>5. ASSUME CreateVersion(s) PROVE Typed
  <2>1. solutions' \in Rows(SolutionIds, Solution)
    BY <1>1, <1>2, <1>3, <1>5, RowPut DEF CreateVersion, Solution
  <2>2. versions' \subseteq SolutionIds \X (1..MaxVersion)
    BY <1>1, <1>2, <1>3, <1>5 DEF CreateVersion
  <2> QED
    BY <1>1, <1>5, <2>1, <2>2 DEF CreateVersion
<1>6. ASSUME SolutionStatus(s) PROVE Typed
  <2>1. /\ r.on \in Live(solutions) /\ r.accepted \subseteq Live(solutions)
        /\ r.to \in SolutionStatuses /\ r.tell \in NotificationTypes
    BY <1>1, <1>2, <1>6 DEF SolutionStatus, Stands, NotificationTypes
  <2>2. solutions' \in Rows(SolutionIds, Solution)
    <3>1. ASSUME NEW x \in SolutionIds
          PROVE  (IF x = r.on THEN [solutions[x] EXCEPT !.status = r.to]
                  ELSE IF x \in r.accepted THEN [solutions[x] EXCEPT !.status = "pending"]
                  ELSE solutions[x]) \in Solution \cup {Absent}
      BY <1>1, <1>3, <2>1 DEF Solution, SolutionStatuses, Rows
    <3> QED
      BY <1>6, <3>1 DEF SolutionStatus, Rows
  <2>3. told' \subseteq Users \X NotificationTypes
    BY <1>6, <2>1, Telling DEF SolutionStatus
  <2> QED
    BY <1>1, <1>6, <2>2, <2>3 DEF SolutionStatus
<1>7. ASSUME Upvote(s) PROVE Typed
  <2>1. upvotes' \subseteq Users \X SolutionIds
    BY <1>1, <1>2, <1>7 DEF Upvote
  <2> QED
    BY <1>1, <1>7, <2>1 DEF Upvote
<1>8. ASSUME DeleteSolutionFails(s) PROVE Typed
  BY <1>1, <1>8 DEF DeleteSolutionFails
<1>9. ASSUME CreateComment(s) PROVE Typed
  <2>1. comments' \in Rows(CommentIds, Comment)
    BY <1>1, <1>2, <1>9, RowPut DEF CreateComment, Comment
  <2>2. watches' \in Watches
    BY <1>1, <1>2, <1>9, Watched DEF CreateComment
  <2>3. told' \subseteq Users \X NotificationTypes
    BY <1>9, Telling DEF CreateComment, NotificationTypes
  <2> QED
    BY <1>1, <1>9, <2>1, <2>2, <2>3 DEF CreateComment
<1>10. ASSUME EditComment(s) PROVE Typed
  <2>1. comments' \in Rows(CommentIds, Comment)
    BY <1>1, <1>3, <1>10, RowPut DEF EditComment, Comment
  <2> QED
    BY <1>1, <1>10, <2>1 DEF EditComment
<1>11. ASSUME Bury(s) PROVE Typed
  <2>1. comments' \in Rows(CommentIds, Comment)
    BY <1>1, <1>3, <1>11, RowPut DEF Bury, Comment
  <2> QED
    BY <1>1, <1>11, <2>1 DEF Bury
<1>12. ASSUME Remove(s) PROVE Typed
  <2>1. comments' \in Rows(CommentIds, Comment)
    <3>1. PICK unseen \in SUBSET Replies(r.on) :
            comments' = [c \in CommentIds |->
                IF c \in Cascade(unseen) \cup {r.on} THEN Absent
                ELSE IF c \in Replies(r.on) THEN [comments[c] EXCEPT !.parent = Nobody]
                ELSE comments[c]]
      BY <1>12 DEF Remove
    <3>2. ASSUME NEW c \in Replies(r.on)
          PROVE  [comments[c] EXCEPT !.parent = Nobody] \in Comment
      BY <1>3 DEF Replies, Comment
    <3> QED
      BY <1>1, <3>1, <3>2 DEF Rows
  <2> QED
    BY <1>1, <1>12, <2>1 DEF Remove
<1> HIDE DEF Typed
<1> QED
  BY <1>4, <1>5, <1>6, <1>7, <1>8, <1>9, <1>10, <1>11, <1>12 DEF DoSolutions, Typed

LEMMA SpacesTyped ==
    ASSUME NEW s \in Sessions, BoardInv, DoSpaces(s)
    PROVE  BoardTypeOK'
<1> DEFINE r == doing[s]
           Typed == BoardTypeOK'
<1> USE DEF CarriesSpace, SpaceOps, rest, solutionTables, postTables, fileTables,
            labelTables, BoardTypeOK
<1>1. BoardTypeOK /\ RequestsOK
  BY DEF BoardInv
<1>2. \A op : Doing(s, op) => r.op = op /\ CarriesSpace(r) /\ Stands(r)
  BY <1>1, RequestIs DEF Carries
<1>3. ASSUME CreatePost(s) PROVE Typed
  <2>1. posts' \in Rows(PostIds, Post)
    BY <1>1, <1>2, <1>3, RowPut DEF CreatePost, Post
  <2> QED
    BY <1>1, <1>3, <2>1 DEF CreatePost
<1>4. ASSUME Vote(s) PROVE Typed
  <2>1. r.on \in Live(posts) /\ posts[r.on] \in Post /\ Count(r) \in Nat
    BY <1>1, <1>2, <1>4 DEF Vote, BoardInv, VoteInv, Live, Rows, Count
  <2>2. posts' \in Rows(PostIds, Post)
    BY <1>1, <1>4, <2>1, RowPut DEF Vote, Post
  <2>3. votes' \subseteq Actors \X PostIds
    BY <1>1, <1>2, <1>4 DEF Vote
  <2> QED
    BY <1>1, <1>4, <2>2, <2>3 DEF Vote
<1>5. ASSUME CreateBounty(s) PROVE Typed
  <2>1. bounties' \in Rows(BountyIds, Bounty)
    BY <1>1, <1>2, <1>5, RowPut DEF CreateBounty, Bounty, BountyStatuses
  <2> QED
    BY <1>1, <1>5, <2>1 DEF CreateBounty
<1>6. ASSUME TakeBounty(s) \/ ReleaseBounty(s) \/ AwardBounty(s) \/ WithdrawBounty(s)
      PROVE  Typed
  <2>1. r.on \in Live(bounties) /\ r.user \in Actors
    BY <1>2, <1>6 DEF BoardInv, BountyInv, Steps, Doing, TakeBounty, ReleaseBounty,
                      AwardBounty, WithdrawBounty
  <2>2. bounties[r.on] \in Bounty
    BY <1>1, <2>1 DEF Live, Rows
  <2>3. PICK row \in Bounty : WriteBounty(s, row)
    BY <1>6, <2>1, <2>2 DEF TakeBounty, ReleaseBounty, AwardBounty, WithdrawBounty, Bounty,
                            BountyStatuses
  <2>4. bounties' \in Rows(BountyIds, Bounty)
    BY <1>1, <2>3, RowPut DEF WriteBounty
  <2> QED
    BY <1>1, <2>3, <2>4 DEF WriteBounty
<1>7. ASSUME StoreFile(s) \/ UnlinkFile(s) PROVE Typed
  BY <1>1, <1>2, <1>7 DEF StoreFile, UnlinkFile
<1>8. ASSUME InsertAttachment(s) PROVE Typed
  <2>1. attachments' \in Rows(FileIds, Attachment)
    BY <1>1, <1>2, <1>8, RowPut DEF InsertAttachment, Attachment
  <2> QED
    BY <1>1, <1>8, <2>1 DEF InsertAttachment
<1>9. ASSUME DeleteAttachment(s) PROVE Typed
  <2>1. attachments' \in Rows(FileIds, Attachment)
    BY <1>1, <1>9, RowPut DEF DeleteAttachment
  <2> QED
    BY <1>1, <1>9, <2>1 DEF DeleteAttachment
<1>10. ASSUME RenameTag(s) PROVE Typed
  <2>1. tags' \in Rows(TagIds, TagIds)
    BY <1>1, <1>2, <1>10, RowPut DEF RenameTag
  <2> QED
    BY <1>1, <1>10, <2>1 DEF RenameTag
<1>11. ASSUME DeleteTag(s) \/ MergeTags(s) PROVE Typed
  <2>0. DropTag(r.on)
    BY <1>11 DEF DeleteTag, MergeTags
  <2>1. tags' \in Rows(TagIds, TagIds)
    BY <1>1, <2>0, RowPut DEF DropTag
  <2>2. tagged' \subseteq ProblemIds \X TagIds
    BY <1>1, <1>2, <1>11 DEF DeleteTag, MergeTags
  <2> QED
    BY <1>1, <2>0, <2>1, <2>2 DEF DropTag
<1>12. ASSUME CreateCategory(s) PROVE Typed
  <2>1. categories' \in Rows(CategoryIds, Category)
    BY <1>1, <1>2, <1>12, RowPut DEF CreateCategory, PutCategory, Category
  <2> QED
    BY <1>1, <1>12, <2>1 DEF CreateCategory, PutCategory
<1>13. ASSUME UpdateCategory(s) \/ DeleteCategory(s) PROVE Typed
  <2>1. r.on \in Live(categories) /\ categories[r.on] \in Category
    BY <1>1, <1>2, <1>13 DEF UpdateCategory, DeleteCategory, Stands, Live, Rows
  <2>2. PICK row \in Category : PutCategory(r.on, row)
    <3>1. CASE UpdateCategory(s)
      BY <1>2, <2>1, <3>1 DEF UpdateCategory, Category
    <3>2. CASE DeleteCategory(s)
      BY <2>1, <3>2 DEF DeleteCategory, Category
    <3> QED
      BY <1>13, <3>1, <3>2
  <2>3. categories' \in Rows(CategoryIds, Category)
    BY <1>1, <2>2, RowPut DEF PutCategory
  <2> QED
    BY <1>1, <2>2, <2>3 DEF PutCategory
<1>14. ASSUME Reorder(s) PROVE Typed
  <2>1. r.order \in [DOMAIN r.order -> 0..MaxNumber] /\ DOMAIN r.order \subseteq Live(categories)
    BY <1>2, <1>14 DEF Reorder, Stands
  <2>2. ASSUME NEW c \in DOMAIN r.order
        PROVE  [categories[c] EXCEPT !.order = r.order[c]] \in Category
    BY <1>1, <2>1, <2>2 DEF Live, Rows, Category
  <2>3. categories' \in Rows(CategoryIds, Category)
    BY <1>1, <1>14, <2>2 DEF Reorder, Rows
  <2> QED
    BY <1>1, <1>14, <2>3 DEF Reorder
<1> HIDE DEF Typed
<1> QED
  BY <1>3, <1>4, <1>5, <1>6, <1>7, <1>8, <1>9, <1>10, <1>11, <1>12, <1>13, <1>14
  DEF DoSpaces, Typed

-----------------------------------------------------------------------------
(* Solutions, suggestions and categories stay, so requests stand.          *)

LEMMA PutStays ==
    ASSUME NEW ids, NEW Row, NEW table \in Rows(ids, Row), NEW i, NEW row \in Row, Absent \notin Row
    PROVE  /\ Live(table) \subseteq Live([table EXCEPT ![i] = row])
           /\ \A j \in Live([table EXCEPT ![i] = row]) : j \in Live(table) \/ (j = i /\ i \in ids)
           /\ i \in ids => i \in Live([table EXCEPT ![i] = row])
BY DEF Rows, Live

LEMMA NoAbsentRow ==
    /\ Absent \notin Problem /\ Absent \notin Suggestion /\ Absent \notin Solution
    /\ Absent \notin Comment /\ Absent \notin Post /\ Absent \notin Bounty /\ Absent \notin Category
BY BoardAssumption

LEMMA SuggestionsStay ==
    ASSUME NEW s \in Sessions, BoardInv, DoProblems(s)
    PROVE  Live(suggestions) \subseteq Live(suggestions)'
<1> DEFINE r == doing[s]
<1>1. CASE UNCHANGED suggestions
  BY <1>1 DEF Live
<1>2. CASE Suggest(s)
  <2> DEFINE row == [problem |-> r.problem, text |-> r.text, status |-> "pending"]
  <2>1. r.op = "create_edit_suggestion" /\ CarriesProblem(r)
    BY <1>2, RequestIs DEF Suggest, BoardInv, Carries
  <2>2. row \in Suggestion /\ suggestions' = [suggestions EXCEPT ![r.on] = row]
    BY <1>2, <2>1 DEF Suggest, CarriesProblem, Suggestion
  <2> HIDE DEF row
  <2> QED
    BY <2>2, PutStays, NoAbsentRow DEF BoardInv, BoardTypeOK, Live
<1>3. CASE AcceptSuggestion(s) \/ RejectSuggestion(s)
  <2>1. r.on \in Live(suggestions)
    BY <1>3, RequestIs DEF AcceptSuggestion, RejectSuggestion, BoardInv, Stands
  <2>2. suggestions[r.on] \in Suggestion
    BY <2>1 DEF BoardInv, BoardTypeOK, Rows, Live
  <2>3. PICK row \in Suggestion : suggestions' = [suggestions EXCEPT ![r.on] = row]
    BY <1>3, <2>2 DEF AcceptSuggestion, RejectSuggestion, Suggestion
  <2> QED
    BY <2>3, PutStays, NoAbsentRow DEF BoardInv, BoardTypeOK, Live
<1> QED
  BY <1>1, <1>2, <1>3
  DEF DoProblems, problemTables, SetWatch, RemoveWatch, CreateProblem, DeleteProblem, PinProblem,
      Transition, ClaimProblem, UnclaimProblem, Upstar, UpdateProblem

LEMMA SolutionsStay ==
    ASSUME NEW s \in Sessions, BoardInv, DoSolutions(s)
    PROVE  Live(solutions) \subseteq Live(solutions)'
<1> DEFINE r == doing[s]
<1>0. /\ solutions \in Rows(SolutionIds, Solution) /\ RequestsOK
      /\ \A x \in Live(solutions) : solutions[x] \in Solution
  BY DEF BoardInv, BoardTypeOK, Rows, Live
<1>1. CASE UNCHANGED solutions
  BY <1>1 DEF Live
<1>2. CASE CreateSolution(s)
  <2> DEFINE row == [problem |-> r.problem, author |-> r.user, status |-> "pending", current |-> 1]
  <2>1. CarriesSolution(r) /\ r.op = "create_solution" /\ 1 \in 1..MaxVersion
    BY <1>0, <1>2, RequestIs, BoardAssumption DEF CreateSolution, Carries
  <2>2. row \in Solution /\ solutions' = [solutions EXCEPT ![r.on] = row]
    BY <1>2, <2>1 DEF CreateSolution, CarriesSolution, SolutionOps, Solution, SolutionStatuses
  <2> HIDE DEF row
  <2> QED
    BY <1>0, <2>2, PutStays, NoAbsentRow DEF Live
<1>3. CASE CreateVersion(s)
  <2>1. r.on \in Live(solutions) /\ r.number \in 1..MaxVersion
    BY <1>0, <1>3, RequestIs DEF CreateVersion, Carries, CarriesSolution
  <2>2. PICK row \in Solution : solutions' = [solutions EXCEPT ![r.on] = row]
    BY <1>0, <1>3, <2>1 DEF CreateVersion, Solution
  <2> QED
    BY <1>0, <2>2, PutStays, NoAbsentRow DEF Live
<1>4. CASE SolutionStatus(s)
  <2>1. /\ r.on \in Live(solutions) /\ r.accepted \subseteq Live(solutions)
        /\ r.to \in SolutionStatuses
    BY <1>0, <1>4, RequestIs DEF SolutionStatus, Stands, Carries, CarriesSolution
  <2>2. ASSUME NEW x \in Live(solutions) PROVE solutions'[x] \in Solution /\ x \in DOMAIN solutions'
    BY <1>0, <1>4, <2>1 DEF SolutionStatus, Solution, SolutionStatuses, Live, Rows
  <2> QED
    BY <2>2, NoAbsentRow DEF Live
<1> QED
  BY <1>1, <1>2, <1>3, <1>4
  DEF DoSolutions, solutionTables, kept, Upvote, DeleteSolutionFails, CreateComment, EditComment,
      Bury, Remove

LEMMA CategoriesStay ==
    ASSUME NEW s \in Sessions, BoardInv, DoSpaces(s)
    PROVE  Live(categories) \subseteq Live(categories)'
<1> DEFINE r == doing[s]
<1>0. /\ categories \in Rows(CategoryIds, Category) /\ RequestsOK
      /\ \A c \in Live(categories) : categories[c] \in Category
  BY DEF BoardInv, BoardTypeOK, Rows, Live
<1>1. CASE UNCHANGED categories
  BY <1>1 DEF Live
<1>2. CASE CreateCategory(s)
  <2> DEFINE row == [name |-> r.name, order |-> r.order, deleted |-> FALSE]
  <2>1. r.name \in CategoryIds /\ r.order \in 0..MaxNumber
    BY <1>0, <1>2, RequestIs DEF CreateCategory, Carries, CarriesSpace
  <2>2. row \in Category /\ categories' = [categories EXCEPT ![r.on] = row]
    BY <1>2, <2>1 DEF CreateCategory, PutCategory, Category
  <2> HIDE DEF row
  <2> QED
    BY <1>0, <2>2, PutStays, NoAbsentRow DEF Live
<1>3. CASE UpdateCategory(s) \/ DeleteCategory(s)
  <2>1. r.on \in Live(categories) /\ (UpdateCategory(s) => r.name \in CategoryIds)
    BY <1>0, <1>3, RequestIs DEF UpdateCategory, DeleteCategory, Stands, Carries, CarriesSpace
  <2>2. PICK row \in Category : PutCategory(r.on, row)
    BY <1>0, <1>3, <2>1 DEF UpdateCategory, DeleteCategory, Category
  <2> QED
    BY <1>0, <2>2, PutStays, NoAbsentRow DEF PutCategory, Live
<1>4. CASE Reorder(s)
  <2>1. r.order \in [DOMAIN r.order -> 0..MaxNumber]
    BY <1>0, <1>4, RequestIs DEF Reorder, Carries, CarriesSpace
  <2>2. ASSUME NEW c \in Live(categories)
        PROVE  categories'[c] \in Category /\ c \in DOMAIN categories'
    BY <1>0, <1>4, <2>1 DEF Reorder, Category, Live, Rows
  <2> QED
    BY <2>2, NoAbsentRow DEF Live
<1> QED
  BY <1>1, <1>2, <1>3, <1>4
  DEF DoSpaces, labelTables, CreatePost, Vote, CreateBounty, TakeBounty, ReleaseBounty, AwardBounty,
      WithdrawBounty, WriteBounty, StoreFile, InsertAttachment, UnlinkFile, DeleteAttachment,
      RenameTag, DeleteTag, MergeTags, DropTag

LEMMA ProblemsStay ==
    ASSUME NEW s \in Sessions, BoardInv, DoProblems(s), ~DeleteProblem(s)
    PROVE  Live(problems) \subseteq Live(problems)'
<1> DEFINE r == doing[s]
           Put == \E row \in Problem, p \in ProblemIds : problems' = [problems EXCEPT ![p] = row]
<1> USE DEF CarriesProblem, ProblemOps
<1>1. /\ problems \in Rows(ProblemIds, Problem) /\ RequestsOK
      /\ \A p \in Live(problems) : p \in ProblemIds /\ problems[p] \in Problem
  BY DEF BoardInv, BoardTypeOK, Rows, Live
<1>2. \A op : Doing(s, op) => r.op = op /\ CarriesProblem(r)
  BY <1>1, RequestIs DEF Carries
<1>3. CASE UNCHANGED problems
  BY <1>3 DEF Live
<1>4. ASSUME CreateProblem(s) PROVE Put
  <2>1. problems' = [problems EXCEPT ![r.on] =
          [author |-> r.user, number |-> r.number, status |-> "open", pinned |-> FALSE,
           text |-> r.text, category |-> r.category]]
    BY <1>4 DEF CreateProblem
  <2>2. /\ r.on \in ProblemIds
        /\ [author |-> r.user, number |-> r.number, status |-> "open", pinned |-> FALSE,
            text |-> r.text, category |-> r.category] \in Problem
    BY <1>2, <1>4 DEF CreateProblem, Problem, ProblemStatuses
  <2> QED
    BY <2>1, <2>2
<1>5. ASSUME PinProblem(s) PROVE Put
  <2>1. [problems[r.on] EXCEPT !.pinned = r.pinned] \in Problem /\ r.on \in ProblemIds
    BY <1>1, <1>2, <1>5 DEF PinProblem, Problem
  <2> QED
    BY <1>5, <2>1 DEF PinProblem
<1>6. ASSUME Transition(s) PROVE Put
  <2>1. [problems[r.on] EXCEPT !.status = r.to] \in Problem /\ r.on \in ProblemIds
    BY <1>1, <1>2, <1>6 DEF Transition, Problem
  <2> QED
    BY <1>6, <2>1 DEF Transition
<1>7. ASSUME ClaimProblem(s), problems' # problems PROVE Put
  <2>1. [problems[r.on] EXCEPT !.status = "claimed"] \in Problem /\ r.on \in ProblemIds
    BY <1>1, <1>7 DEF ClaimProblem, Problem, ProblemStatuses
  <2> QED
    BY <1>7, <2>1 DEF ClaimProblem
<1>8. ASSUME UnclaimProblem(s), problems' # problems PROVE Put
  <2>1. [problems[r.on] EXCEPT !.status = "open"] \in Problem /\ r.on \in ProblemIds
    BY <1>1, <1>8 DEF UnclaimProblem, Problem, ProblemStatuses
  <2> QED
    BY <1>8, <2>1 DEF UnclaimProblem
<1>9. ASSUME UpdateProblem(s), problems' # problems PROVE Put
  <2>1. [problems[r.on] EXCEPT !.text = r.text] \in Problem /\ r.on \in ProblemIds
    BY <1>1, <1>2, <1>9 DEF UpdateProblem, Problem
  <2> QED
    BY <1>9, <2>1 DEF UpdateProblem
<1>10. ASSUME AcceptSuggestion(s) PROVE Put
  <2> DEFINE g == suggestions[r.on]
  <2>1. r.on \in Live(suggestions)
    BY <1>1, <1>10, RequestIs DEF AcceptSuggestion, Stands
  <2>2. g \in Suggestion /\ g.problem \in Live(problems)
    BY <2>1 DEF BoardInv, SuggestionsHang, BoardTypeOK, Rows, Live
  <2>3. [problems[g.problem] EXCEPT !.text = g.text] \in Problem /\ g.problem \in ProblemIds
    BY <1>1, <2>2 DEF Problem, Suggestion
  <2> QED
    BY <1>10, <2>3 DEF AcceptSuggestion
<1>11. UNCHANGED problems \/ Put
  <2> HIDE DEF Put
  <2> QED
    BY <1>4, <1>5, <1>6, <1>7, <1>8, <1>9, <1>10
    DEF DoProblems, SetWatch, RemoveWatch, Upstar, Suggest, RejectSuggestion
<1> QED
  BY <1>1, <1>3, <1>11, PutStays, NoAbsentRow DEF Live

LEMMA SuggestionsHangOn ==
    ASSUME NEW s \in Sessions, BoardInv, DoProblems(s)
    PROVE  SuggestionsHang'
<1> DEFINE r == doing[s]
<1>1. /\ suggestions \in Rows(SuggestionIds, Suggestion) /\ SuggestionsHang /\ RequestsOK
      /\ problems \in Rows(ProblemIds, Problem)
  BY DEF BoardInv, BoardTypeOK
<1>2. CASE Suggest(s)
  <2> DEFINE row == [problem |-> r.problem, text |-> r.text, status |-> "pending"]
  <2>1. row.problem \in Live(problems) /\ problems' = problems
    BY <1>2 DEF Suggest
  <2>2. suggestions' = [suggestions EXCEPT ![r.on] = row]
    BY <1>2 DEF Suggest
  <2> HIDE DEF row
  <2> QED
    BY <1>1, <2>1, <2>2 DEF SuggestionsHang, Rows, Live
<1>3. CASE DeleteProblem(s)
  <2>1. \A g \in Live(suggestions) : suggestions[g].problem # r.on
    BY <1>3 DEF DeleteProblem, Reached
  <2> QED
    BY <1>1, <1>3, <2>1 DEF DeleteProblem, SuggestionsHang, Rows, Live
<1>4. CASE ~Suggest(s) /\ ~DeleteProblem(s)
  <2>1. Live(problems) \subseteq Live(problems)'
    BY <1>4, ProblemsStay
  <2>2. \A g \in Live(suggestions)' :
          g \in Live(suggestions) /\ suggestions'[g].problem = suggestions[g].problem
    <3>1. CASE UNCHANGED suggestions
      BY <3>1 DEF Live
    <3>2. CASE AcceptSuggestion(s) \/ RejectSuggestion(s)
      <4>1. r.on \in Live(suggestions) /\ suggestions[r.on] \in Suggestion
        BY <1>1, <3>2, RequestIs DEF AcceptSuggestion, RejectSuggestion, Stands, Rows, Live
      <4>2. \E status \in {"accepted", "rejected"} :
              suggestions' = [suggestions EXCEPT ![r.on].status = status]
        BY <3>2 DEF AcceptSuggestion, RejectSuggestion
      <4> QED
        BY <1>1, <4>1, <4>2 DEF Rows, Live, Suggestion
    <3> QED
      BY <1>4, <3>1, <3>2
      DEF DoProblems, SetWatch, RemoveWatch, CreateProblem, PinProblem, Transition,
          ClaimProblem, UnclaimProblem, Upstar, UpdateProblem
  <2> QED
    BY <1>1, <2>1, <2>2 DEF SuggestionsHang
<1> QED
  BY <1>2, <1>3, <1>4

-----------------------------------------------------------------------------
(* Steps.                                                                  *)

\* s asks.
Asks(s) == AskProblems(s) \/ AskSolutions(s) \/ AskSpaces(s)

\* s works on what it asked.
Works(s) == DoProblems(s) \/ DoSolutions(s) \/ DoSpaces(s) \/ Abandon(s)

LEMMA NextIs == Next <=> \E s \in Sessions : Asks(s) \/ Works(s)
BY DEF Next, Asks, Works

AnyOps == ProblemOps \cup SolutionOps \cup SpaceOps

LEMMA AsksBegin ==
    ASSUME NEW s \in Sessions, BoardInv, Asks(s)
    PROVE  Begins(s, AnyOps)
BY ProblemsAsk, SolutionsAsk, SpacesAsk DEF Asks, Begins, AnyOps

LEMMA WorksEnd ==
    ASSUME NEW s \in Sessions, Works(s)
    PROVE  Ends(s)
BY ProblemsEnd, SolutionsEnd, SpacesEnd, AbandonEnds DEF Works

LEMMA BeginsKeep ==
    ASSUME NEW s \in Sessions, BoardInv, Begins(s, AnyOps)
    PROVE  BoardTypeOK' /\ RequestsOK' /\ SuggestionsHang'
<1>1. BoardTypeOK /\ RequestsOK /\ SuggestionsHang
  BY DEF BoardInv
<1>2. UNCHANGED tables
  BY DEF Begins
<1>3. BoardTypeOK' /\ SuggestionsHang'
  BY <1>1, <1>2 DEF tables, problemTables, solutionTables, postTables, fileTables, labelTables,
                    BoardTypeOK, SuggestionsHang, Live
<1>4. /\ Live(solutions)' = Live(solutions) /\ Live(suggestions)' = Live(suggestions)
      /\ Live(categories)' = Live(categories)
  BY <1>2 DEF tables, problemTables, solutionTables, labelTables, Live
<1>5. ASSUME NEW o \in Sessions, doing'[o] # Idle
      PROVE  Carries(doing'[o]) /\ Stands(doing[o])'
  <2>1. CASE o = s
    BY <1>4, <2>1 DEF Begins, Stands
  <2>2. CASE o # s
    BY <1>1, <1>4, <1>5, <2>2 DEF Begins, RequestsOK, Stands
  <2> QED
    BY <2>1, <2>2
<1> QED
  BY <1>3, <1>5 DEF RequestsOK, Begins

LEMMA WorksKeep ==
    ASSUME NEW s \in Sessions, BoardInv, Works(s)
    PROVE  BoardTypeOK' /\ RequestsOK' /\ SuggestionsHang'
<1>1. BoardTypeOK /\ RequestsOK /\ SuggestionsHang
  BY DEF BoardInv
<1>2. BoardTypeOK' /\ SuggestionsHang'
  <2>1. CASE DoProblems(s)
    BY <2>1, ProblemsTyped, SuggestionsHangOn
  <2>2. CASE DoSolutions(s)
    BY <1>1, <2>2, SolutionsTyped, SolutionsEnd DEF SuggestionsHang, Live
  <2>3. CASE DoSpaces(s)
    BY <1>1, <2>3, SpacesTyped, SpacesEnd DEF SuggestionsHang, Live, problemTables
  <2>4. CASE Abandon(s)
    BY <1>1, <2>4, AbandonEnds
    DEF SuggestionsHang, Live, tables, problemTables, solutionTables, postTables, fileTables,
        labelTables, BoardTypeOK
  <2> QED
    BY <2>1, <2>2, <2>3, <2>4 DEF Works
<1>3. /\ Live(solutions) \subseteq Live(solutions)'
      /\ Live(suggestions) \subseteq Live(suggestions)'
  BY SuggestionsStay, SolutionsStay, ProblemsEnd, SolutionsEnd, SpacesEnd, AbandonEnds
  DEF Works, tables, problemTables, solutionTables, Live
<1>4. Live(categories) \subseteq Live(categories)'
  <2>1. CASE DoProblems(s)
    BY <2>1 DEF Live, DoProblems, labelTables, SetWatch, RemoveWatch, CreateProblem,
       DeleteProblem, PinProblem, Transition, ClaimProblem, UnclaimProblem, Upstar,
       UpdateProblem, Suggest, AcceptSuggestion, RejectSuggestion
  <2>2. CASE DoSolutions(s) \/ Abandon(s)
    BY <2>2, SolutionsEnd, AbandonEnds DEF tables, labelTables, Live
  <2> QED
    BY <2>1, <2>2, CategoriesStay DEF Works
<1>5. Ends(s)
  BY WorksEnd
<1>6. \A o \in Sessions : doing'[o] # Idle => doing'[o] = doing[o]
  BY <1>1, <1>5 DEF Ends, RequestsOK
<1>7. ASSUME NEW o \in Sessions, doing'[o] # Idle
      PROVE  Carries(doing'[o]) /\ Stands(doing[o])'
  BY <1>1, <1>3, <1>4, <1>6, <1>7 DEF RequestsOK, Stands
<1> QED
  BY <1>1, <1>2, <1>5, <1>7 DEF RequestsOK, Ends

-----------------------------------------------------------------------------
(* Ids that are about to be given.                                         *)

LEMMA NewAsked ==
    ASSUME NEW s \in Sessions, DOMAIN doing = Sessions, NEW table, NEW op, NewIn(table, op),
           NEW r, Ask(s, r), r.op = op, Fresh(table, r.on)
    PROVE  \A o \in Sessions : (doing'[o] # Idle /\ doing'[o].op = op) =>
             /\ doing'[o].on \notin Live(table)
             /\ \A q \in Sessions \ {o} :
                  (doing'[q] # Idle /\ doing'[q].op = op) => doing'[q].on # doing'[o].on
BY AskIs DEF NewIn, Fresh, Doing, Live

\* A request of this kind was there before, unless s has just asked it.
LEMMA DroppedBefore ==
    ASSUME NEW op, Dropped({op}), NEW o \in Sessions, Doing(o, op)'
    PROVE  Doing(o, op) /\ doing'[o] = doing[o]
BY DEF Dropped, Doing

-----------------------------------------------------------------------------
(* Versions.                                                               *)

\* A version more.
LEMMA NumbersAdd ==
    ASSUME NEW x, NEW n, versions' = versions \cup {<<x, n>>}
    PROVE  /\ Numbers(x)' = Numbers(x) \cup {n}
           /\ \A y : y # x => Numbers(y)' = Numbers(y)
<1>1. \A y, k : k \in Numbers(y) <=> \E v \in versions : v[1] = y /\ v[2] = k
  BY DEF Numbers
<1>2. \A y, k : k \in Numbers(y)' <=> \E v \in versions' : v[1] = y /\ v[2] = k
  BY DEF Numbers
<1> DEFINE new == <<x, n>>
<1>3. versions' = versions \cup {new} /\ new[1] = x /\ new[2] = n
  OBVIOUS
<1> HIDE DEF new
<1>4. \A k : k \in Numbers(x)' <=> (k \in Numbers(x) \/ k = n)
  BY <1>1, <1>2, <1>3
<1>5. ASSUME NEW y, y # x PROVE \A k : k \in Numbers(y)' <=> k \in Numbers(y)
  BY <1>1, <1>2, <1>3, <1>5
<1> QED
  BY <1>4, <1>5

\* Nothing of the versions moves.
LEMMA VersionFrame ==
    ASSUME VersionInv, Dropped({"create_solution"}), Dropped({"create_version"}),
           UNCHANGED <<solutions, versions>>
    PROVE  VersionInv'
<1>1. \A x : Numbers(x)' = Numbers(x)
  BY DEF Numbers
<1>2. Live(solutions)' = Live(solutions)
  BY DEF Live
<1>3. NewIn(solutions, "create_solution")'
  BY <1>2, DroppedBefore DEF VersionInv, NewIn
<1>4. \A s \in Sessions : Doing(s, "create_version")' =>
        doing'[s].number <= solutions'[doing'[s].on].current + 1
  BY DroppedBefore DEF VersionInv
<1> QED
  BY <1>1, <1>2, <1>3, <1>4 DEF VersionInv

LEMMA AskSolutionVersion ==
    ASSUME NEW s \in Sessions, BoardInv, AskCreateSolution(s),
           UNCHANGED <<solutions, versions>>
    PROVE  VersionInv'
<1>1. VersionInv /\ DOMAIN doing = Sessions
  BY DEF BoardInv, RequestsOK
<1>2. PICK r : Ask(s, r) /\ r.op = "create_solution" /\ Fresh(solutions, r.on)
  <2>1. PICK x \in SolutionIds, p \in Live(problems), u \in Users :
          /\ Fresh(solutions, x)
          /\ Ask(s, [op |-> "create_solution", user |-> u, on |-> x, problem |-> p,
                     watch |-> watches[<<u, p>>]])
    BY DEF AskCreateSolution
  <2> DEFINE q == [op |-> "create_solution", user |-> u, on |-> x, problem |-> p,
                   watch |-> watches[<<u, p>>]]
  <2>2. q.op = "create_solution" /\ q.on = x
    OBVIOUS
  <2> HIDE DEF q
  <2> QED
    BY <2>1, <2>2 DEF q
<1>3. Dropped({"create_version"})
  BY <1>1, <1>2, AskDrops
<1>4. /\ \A x : Numbers(x)' = Numbers(x)
      /\ Live(solutions)' = Live(solutions)
  BY DEF Numbers, Live
<1>5. NewIn(solutions, "create_solution")'
  BY <1>1, <1>2, <1>4, NewAsked DEF VersionInv, NewIn, Doing
<1>6. \A o \in Sessions : Doing(o, "create_version")' =>
        doing'[o].number <= solutions'[doing'[o].on].current + 1
  BY <1>1, <1>3, DroppedBefore DEF VersionInv
<1> QED
  BY <1>1, <1>4, <1>5, <1>6 DEF VersionInv

LEMMA AskVersion ==
    ASSUME NEW s \in Sessions, BoardInv, AskCreateVersion(s),
           UNCHANGED <<solutions, versions>>
    PROVE  VersionInv'
<1>1. VersionInv /\ DOMAIN doing = Sessions
  BY DEF BoardInv, RequestsOK
<1>2. PICK x \in Live(solutions), u \in Users :
        Ask(s, [op |-> "create_version", user |-> u, on |-> x, number |-> Latest(x) + 1])
  BY DEF AskCreateVersion
<1> DEFINE r == [op |-> "create_version", user |-> u, on |-> x, number |-> Latest(x) + 1]
<1>3. r.op = "create_version" /\ r.on = x /\ r.number = solutions[x].current + 1
  BY LatestIsCurrent
<1> HIDE DEF r
<1>4. Ask(s, r)
  BY <1>2 DEF r
<1>5. Dropped({"create_solution"})
  BY <1>1, <1>3, <1>4, AskDrops
<1>6. /\ \A y : Numbers(y)' = Numbers(y)
      /\ Live(solutions)' = Live(solutions)
  BY DEF Numbers, Live
<1>7. NewIn(solutions, "create_solution")'
  BY <1>1, <1>5, <1>6, DroppedBefore DEF VersionInv, NewIn
<1>8. ASSUME NEW o \in Sessions, Doing(o, "create_version")'
      PROVE  doing'[o].number <= solutions'[doing'[o].on].current + 1
  <2>1. CASE o = s
    <3>1. doing'[o] = r /\ solutions[x].current \in Nat
      BY <1>1, <1>4, <2>1, AskIs, LatestIsCurrent
    <3> QED
      BY <1>3, <3>1
  <2>2. CASE o # s
    BY <1>1, <1>4, <1>8, <2>2, AskIs DEF VersionInv, Doing
  <2> QED
    BY <2>1, <2>2
<1> QED
  BY <1>1, <1>6, <1>7, <1>8 DEF VersionInv

LEMMA CreateSolutionVersion ==
    ASSUME NEW s \in Sessions, BoardInv, CreateSolution(s)
    PROVE  VersionInv'
<1> DEFINE r == doing[s]
           row == [problem |-> r.problem, author |-> r.user, status |-> "pending", current |-> 1]
<1>1. /\ VersionInv /\ RequestsOK /\ DOMAIN doing = Sessions
      /\ solutions \in Rows(SolutionIds, Solution) /\ 1 \in 1..MaxVersion
  BY BoardAssumption DEF BoardInv, RequestsOK, BoardTypeOK
<1>2. Doing(s, "create_solution") /\ r.on \in SolutionIds \ Live(solutions) /\ CarriesSolution(r)
  <2>1. Doing(s, "create_solution")
    BY DEF CreateSolution
  <2>2. CarriesSolution(r) /\ r.op = "create_solution"
    BY <1>1, <2>1, RequestIs DEF Carries
  <2> QED
    BY <1>1, <2>1, <2>2 DEF VersionInv, NewIn, CarriesSolution
<1>3. row \in Solution /\ row.current = 1
  BY <1>1, <1>2 DEF CarriesSolution, SolutionOps, Solution, SolutionStatuses, Doing
<1>4. /\ solutions' = [solutions EXCEPT ![r.on] = row] /\ versions' = versions \cup {<<r.on, 1>>}
      /\ Ends(s)
  BY DEF CreateSolution, Ends, End
<1> HIDE DEF row
<1>5. /\ Live(solutions)' = Live(solutions) \cup {r.on} /\ r.on \in Live(solutions)'
      /\ solutions'[r.on].current = 1
      /\ \A x \in Live(solutions) : solutions'[x] = solutions[x]
  BY <1>1, <1>2, <1>3, <1>4, NoAbsentRow DEF Rows, Live
<1> PICK y \in SolutionIds : y = r.on
  BY <1>2
<1>6. /\ Numbers(y)' = Numbers(y) \cup {1}
      /\ \A x : x # y => Numbers(x)' = Numbers(x)
  <2>1. versions' = versions \cup {<<y, 1>>}
    BY <1>4
  <2> QED
    BY <2>1, NumbersAdd
<1>7. Numbers(y) = {}
  BY <1>1, <1>2 DEF VersionInv
<1>8. NewIn(solutions, "create_solution")'
  <2>1. doing'[s] = doing[s] \/ doing'[s] = Idle
    BY <1>1, <1>4 DEF Ends
  <2>2. doing'[s] = Idle
    BY <1>1 DEF CreateSolution, End
  <2>3. \A o \in Sessions : Doing(o, "create_solution")' =>
          o # s /\ Doing(o, "create_solution") /\ doing'[o] = doing[o]
    BY <1>1, <1>4, <2>2 DEF Ends, Doing
  <2> QED
    BY <1>1, <1>2, <1>5, <2>3 DEF VersionInv, NewIn
<1>9. ASSUME NEW o \in Sessions, Doing(o, "create_version")'
      PROVE  doing'[o].number <= solutions'[doing'[o].on].current + 1
  <2>1. Doing(o, "create_version") /\ doing'[o] = doing[o]
    BY <1>1, <1>4, <1>9 DEF Ends, Doing
  <2>2. doing[o].on \in Live(solutions)
    BY <1>1, <2>1, RequestIs DEF Stands
  <2> QED
    BY <1>1, <1>5, <2>1, <2>2 DEF VersionInv
<1>10. ASSUME NEW x \in Live(solutions)' PROVE Numbers(x)' = 1..solutions'[x].current
  <2>1. CASE x = y
    <3>1. Numbers(x)' = {1}
      BY <1>6, <1>7, <2>1
    <3>2. solutions'[x].current = 1 /\ 1..1 = {1}
      BY <1>5, <2>1
    <3> QED
      BY <3>1, <3>2
  <2>2. CASE x # y
    BY <1>1, <1>5, <1>6, <2>2 DEF VersionInv
  <2> QED
    BY <2>1, <2>2
<1>11. \A x \in SolutionIds \ Live(solutions)' : Numbers(x)' = {}
  BY <1>1, <1>5, <1>6 DEF VersionInv
<1> QED
  BY <1>8, <1>9, <1>10, <1>11 DEF VersionInv

LEMMA CreateVersionVersion ==
    ASSUME NEW s \in Sessions, BoardInv, CreateVersion(s)
    PROVE  VersionInv'
<1> DEFINE r == doing[s]
           n == solutions[r.on].current
<1>1. /\ VersionInv /\ RequestsOK /\ DOMAIN doing = Sessions
      /\ solutions \in Rows(SolutionIds, Solution)
  BY DEF BoardInv, RequestsOK, BoardTypeOK
<1>2. Doing(s, "create_version") /\ r.on \in Live(solutions) /\ r.number \notin Numbers(r.on)
  BY DEF CreateVersion, NumberFree
<1>3. Numbers(r.on) = 1..n /\ n \in 1..MaxVersion /\ r.number \in 1..MaxVersion /\ r.number <= n + 1
  BY <1>1, <1>2, LatestIsCurrent, RequestIs DEF VersionInv, Carries, CarriesSolution
<1>4. r.number = n + 1
  BY <1>2, <1>3
<1>5. /\ solutions' = [solutions EXCEPT ![r.on].current = n + 1]
      /\ versions' = versions \cup {<<r.on, n + 1>>} /\ Ends(s)
  BY <1>4 DEF CreateVersion, Ends, End
<1>6. solutions[r.on] \in Solution /\ [solutions[r.on] EXCEPT !.current = n + 1] \in Solution
  BY <1>1, <1>2, <1>3, <1>4 DEF Rows, Live, Solution
<1>7. /\ Live(solutions)' = Live(solutions) /\ solutions'[r.on].current = n + 1
      /\ \A x \in Live(solutions) : x # r.on => solutions'[x] = solutions[x]
  BY <1>1, <1>2, <1>5, <1>6, NoAbsentRow DEF Rows, Live, Solution
<1> PICK y \in SolutionIds, m \in Nat : y = r.on /\ m = n + 1
  BY <1>1, <1>2, <1>3 DEF Live, Rows
<1>8. /\ Numbers(y)' = Numbers(y) \cup {m}
      /\ \A x : x # y => Numbers(x)' = Numbers(x)
  <2>1. versions' = versions \cup {<<y, m>>}
    BY <1>5
  <2> QED
    BY <2>1, NumbersAdd
<1>9. \A x \in Live(solutions)' : Numbers(x)' = 1..solutions'[x].current
  <2>1. (1..n) \cup {n + 1} = 1..(n + 1)
    BY <1>3
  <2>2. Numbers(y)' = 1..m
    BY <1>3, <1>8, <2>1
  <2>3. solutions'[y].current = m
    BY <1>7
  <2> HIDE DEF n
  <2> QED
    BY <1>1, <1>2, <1>7, <1>8, <2>2, <2>3 DEF VersionInv
<1>10. /\ NewIn(solutions, "create_solution")'
       /\ \A x \in SolutionIds \ Live(solutions)' : Numbers(x)' = {}
  <2>1. NewIn(solutions, "create_solution")'
    <3>1. Dropped({"create_solution"})
      BY <1>1, <1>5, EndDrops
    <3> QED
      BY <1>1, <1>7, <3>1, DroppedBefore DEF VersionInv, NewIn
  <2> QED
    BY <1>1, <1>2, <1>7, <1>8, <2>1 DEF VersionInv
<1>11. ASSUME NEW o \in Sessions, Doing(o, "create_version")'
       PROVE  doing'[o].number <= solutions'[doing'[o].on].current + 1
  <2>1. Doing(o, "create_version") /\ doing'[o] = doing[o]
    BY <1>1, <1>5, <1>11 DEF Ends, Doing
  <2>2. /\ doing[o].on \in Live(solutions) /\ doing[o].number \in 1..MaxVersion
        /\ solutions[doing[o].on].current \in 1..MaxVersion
        /\ doing[o].number <= solutions[doing[o].on].current + 1
    BY <1>1, <2>1, RequestIs, LatestIsCurrent DEF Stands, Carries, CarriesSolution, VersionInv
  <2>3. CASE doing[o].on = r.on
    BY <1>3, <1>7, <2>1, <2>2, <2>3
  <2>4. CASE doing[o].on # r.on
    BY <1>7, <2>1, <2>2, <2>4
  <2> QED
    BY <2>3, <2>4
<1> QED
  BY <1>9, <1>10, <1>11 DEF VersionInv

LEMMA StatusVersion ==
    ASSUME NEW s \in Sessions, BoardInv, SolutionStatus(s)
    PROVE  VersionInv'
<1>1. /\ VersionInv /\ RequestsOK /\ DOMAIN doing = Sessions
      /\ solutions \in Rows(SolutionIds, Solution)
      /\ \A x \in Live(solutions) : solutions[x] \in Solution
  BY DEF BoardInv, RequestsOK, BoardTypeOK, Rows, Live
<1>2. versions' = versions /\ Ends(s) /\ Doing(s, "update_solution_status")
  BY DEF SolutionStatus, Ends, End, solutionTables
<1>3. /\ doing[s].on \in Live(solutions) /\ doing[s].accepted \subseteq Live(solutions)
      /\ doing[s].to \in SolutionStatuses
  BY <1>1, <1>2, RequestIs DEF Stands, Carries, CarriesSolution
<1>4. /\ DOMAIN solutions' = SolutionIds
      /\ \A x \in SolutionIds \ Live(solutions) : solutions'[x] = Absent
      /\ \A x \in Live(solutions) :
           solutions'[x] \in Solution /\ solutions'[x].current = solutions[x].current
  BY <1>1, <1>3 DEF SolutionStatus, Solution, SolutionStatuses, Rows, Live
<1>5. Live(solutions)' = Live(solutions) /\ \A x : Numbers(x)' = Numbers(x)
  BY <1>1, <1>2, <1>4, NoAbsentRow DEF Rows, Live, Numbers
<1>6. NewIn(solutions, "create_solution")'
  BY <1>1, <1>2, <1>5, EndDrops, DroppedBefore DEF VersionInv, NewIn
<1>7. ASSUME NEW o \in Sessions, Doing(o, "create_version")'
       PROVE  doing'[o].number <= solutions'[doing'[o].on].current + 1
  <2>1. Doing(o, "create_version") /\ doing'[o] = doing[o]
    BY <1>1, <1>2, <1>7 DEF Ends, Doing
  <2>2. doing[o].on \in Live(solutions)
    BY <1>1, <2>1, RequestIs DEF Stands
  <2> QED
    BY <1>1, <1>4, <2>1, <2>2 DEF VersionInv
<1> QED
  BY <1>1, <1>4, <1>5, <1>6, <1>7 DEF VersionInv

\* What is asked in which step.
LEMMA SolutionsAskWhat ==
    ASSUME NEW s \in Sessions, DOMAIN doing = Sessions
    PROVE  /\ AskSolutionStatus(s) => doing'[s].op = "update_solution_status"
           /\ AskUpvote(s) => doing'[s].op = "toggle_upvote"
           /\ AskDeleteSolution(s) => doing'[s].op = "delete_solution"
           /\ AskCreateComment(s) => doing'[s].op = "create_comment"
           /\ AskEditComment(s) => doing'[s].op = "edit_comment"
           /\ AskDeleteComment(s) => doing'[s].op = "delete_comment"
           /\ AskCreateSolution(s) => doing'[s].op = "create_solution"
           /\ AskCreateVersion(s) => doing'[s].op = "create_version"
<1>1. AskSolutionStatus(s) => doing'[s].op = "update_solution_status"
  BY DEF AskSolutionStatus, Ask
<1>2. AskUpvote(s) => doing'[s].op = "toggle_upvote"
  BY DEF AskUpvote, Ask
<1>3. AskDeleteSolution(s) => doing'[s].op = "delete_solution"
  BY DEF AskDeleteSolution, Ask
<1>4. AskCreateComment(s) => doing'[s].op = "create_comment"
  BY DEF AskCreateComment, Ask
<1>5. AskEditComment(s) => doing'[s].op = "edit_comment"
  BY DEF AskEditComment, Ask
<1>6. AskDeleteComment(s) => doing'[s].op = "delete_comment"
  BY DEF AskDeleteComment, Ask
<1>7. AskCreateSolution(s) => doing'[s].op = "create_solution"
  BY DEF AskCreateSolution, Ask
<1>8. AskCreateVersion(s) => doing'[s].op = "create_version"
  BY DEF AskCreateVersion, Ask
<1> QED
  BY <1>1, <1>2, <1>3, <1>4, <1>5, <1>6, <1>7, <1>8

LEMMA SpacesAskWhat ==
    ASSUME NEW s \in Sessions, DOMAIN doing = Sessions
    PROVE  /\ AskCreatePost(s) => doing'[s].op = "create_post"
           /\ AskVote(s) => doing'[s].op = "toggle_vote"
           /\ AskCreateBounty(s) => doing'[s].op = "create_bounty"
           /\ AskBounty(s) => doing'[s].op \in Steps
           /\ AskUpload(s) => doing'[s].op = "create_attachment"
           /\ AskDeleteAttachment(s) => doing'[s].op = "delete_attachment"
           /\ AskRenameTag(s) => doing'[s].op = "rename_tag"
           /\ AskDeleteTag(s) => doing'[s].op = "delete_tag"
           /\ AskMergeTags(s) => doing'[s].op = "merge_tags"
           /\ AskCreateCategory(s) => doing'[s].op = "create_category"
           /\ AskUpdateCategory(s) => doing'[s].op = "update_category"
           /\ AskReorder(s) => doing'[s].op = "reorder_categories"
           /\ AskDeleteCategory(s) => doing'[s].op = "soft_delete_category"
<1>1. AskCreatePost(s) => doing'[s].op = "create_post"
  BY DEF AskCreatePost, Ask
<1>2. AskVote(s) => doing'[s].op = "toggle_vote"
  BY DEF AskVote, Ask
<1>3. AskCreateBounty(s) => doing'[s].op = "create_bounty"
  BY DEF AskCreateBounty, Ask
<1>4. AskBounty(s) => doing'[s].op \in Steps
  BY DEF AskBounty, Ask, Steps
<1>5. AskUpload(s) => doing'[s].op = "create_attachment"
  BY DEF AskUpload, Ask
<1>6. AskDeleteAttachment(s) => doing'[s].op = "delete_attachment"
  BY DEF AskDeleteAttachment, Ask
<1>7. AskRenameTag(s) => doing'[s].op = "rename_tag"
  BY DEF AskRenameTag, Ask
<1>8. AskDeleteTag(s) => doing'[s].op = "delete_tag"
  BY DEF AskDeleteTag, Ask
<1>9. AskMergeTags(s) => doing'[s].op = "merge_tags"
  BY DEF AskMergeTags, Ask
<1>10. AskCreateCategory(s) => doing'[s].op = "create_category"
  BY DEF AskCreateCategory, Ask
<1>11. AskUpdateCategory(s) => doing'[s].op = "update_category"
  BY DEF AskUpdateCategory, Ask
<1>12. AskReorder(s) => doing'[s].op = "reorder_categories"
  BY DEF AskReorder, Ask
<1>13. AskDeleteCategory(s) => doing'[s].op = "soft_delete_category"
  BY DEF AskDeleteCategory, Ask
<1> QED
  BY <1>1, <1>2, <1>3, <1>4, <1>5, <1>6, <1>7, <1>8, <1>9, <1>10, <1>11, <1>12, <1>13

LEMMA BeginsDrops ==
    ASSUME NEW s \in Sessions, NEW ops, NEW others, Begins(s, ops), doing'[s].op \notin others
    PROVE  Dropped(others)
BY DEF Begins, Dropped, Doing

\* The tables hold, and no request of these kinds comes.
LEMMA VersionStep ==
    ASSUME NEW s \in Sessions, BoardInv, Asks(s) \/ Works(s)
    PROVE  VersionInv'
<1>1. VersionInv /\ DOMAIN doing = Sessions
  BY DEF BoardInv, RequestsOK
<1> DEFINE added == {"create_solution", "create_version"}
<1>2. ASSUME UNCHANGED <<solutions, versions>>, Dropped(added)
      PROVE  VersionInv'
  <2>1. Dropped({"create_solution"}) /\ Dropped({"create_version"})
    BY <1>2 DEF Dropped
  <2> QED
    BY <1>1, <1>2, <2>1, VersionFrame
<1>3. CASE Asks(s)
  <2>1. Begins(s, AnyOps) /\ UNCHANGED <<solutions, versions>>
    BY <1>3, AsksBegin DEF Begins, tables, solutionTables
  <2>2. CASE AskCreateSolution(s)
    BY <2>1, <2>2, AskSolutionVersion
  <2>3. CASE AskCreateVersion(s)
    BY <2>1, <2>3, AskVersion
  <2>4. CASE ~AskCreateSolution(s) /\ ~AskCreateVersion(s)
    <3>1. doing'[s].op \notin added
      <4>1. CASE AskProblems(s) \/ AskSpaces(s)
        <5>1. doing'[s].op \in ProblemOps \/ doing'[s].op \in SpaceOps
          BY <4>1, ProblemsAsk, SpacesAsk DEF Begins
        <5> QED
          BY <5>1 DEF ProblemOps, SpaceOps
      <4>2. CASE AskSolutions(s)
        BY <1>1, <2>4, <4>2, SolutionsAskWhat DEF AskSolutions
      <4> QED
        BY <1>3, <4>1, <4>2 DEF Asks
    <3> HIDE DEF added
    <3> QED
      BY <1>2, <2>1, <3>1, BeginsDrops
  <2> QED
    BY <2>2, <2>3, <2>4
<1>4. CASE Works(s)
  <2>1. Dropped(added)
    BY <1>1, <1>4, WorksEnd, EndDrops
  <2>2. CASE CreateSolution(s)
    BY <2>2, CreateSolutionVersion
  <2>3. CASE CreateVersion(s)
    BY <2>3, CreateVersionVersion
  <2>4. CASE SolutionStatus(s)
    BY <2>4, StatusVersion
  <2>5. CASE ~CreateSolution(s) /\ ~CreateVersion(s) /\ ~SolutionStatus(s)
    <3>1. UNCHANGED <<solutions, versions>>
      <4>1. CASE DoSolutions(s)
        BY <2>5, <4>1 DEF DoSolutions, solutionTables, Upvote, DeleteSolutionFails,
           CreateComment, EditComment, Bury, Remove
      <4>2. CASE ~DoSolutions(s)
        BY <1>4, <4>2, ProblemsEnd, SpacesEnd, AbandonEnds DEF Works, tables, solutionTables
      <4> QED
        BY <4>1, <4>2
    <3> QED
      BY <1>2, <2>1, <3>1
  <2> QED
    BY <2>2, <2>3, <2>4, <2>5
<1> QED
  BY <1>3, <1>4

-----------------------------------------------------------------------------
(* Comments.                                                               *)

\* What hangs below something that goes goes as well.
LEMMA CascadeFollows ==
    ASSUME NEW S, NEW c \in Cascade(S), NEW d \in Replies(c)
    PROVE  d \in Cascade(S)
BY DEF Cascade, Replies

LEMMA CommentRows ==
    ASSUME BoardInv
    PROVE  /\ CommentInv /\ RequestsOK /\ DOMAIN doing = Sessions
           /\ comments \in Rows(CommentIds, Comment)
           /\ Nobody \notin Live(comments) /\ Live(comments) \subseteq CommentIds
           /\ \A c \in Live(comments) : comments[c] \in Comment
BY BoardAssumption DEF BoardInv, RequestsOK, BoardTypeOK, Rows, Live

\* Comments go, and who stays keeps its parent or becomes a root.
LEMMA CommentFrame ==
    ASSUME BoardInv, Dropped({"create_comment"}), Live(comments)' \subseteq Live(comments),
           \A c \in Live(comments)' :
             \/ comments'[c].parent = Nobody
             \/ /\ comments'[c].parent = comments[c].parent
                /\ comments[c].parent \in Live(comments)' \cup {Nobody}
    PROVE  CommentInv'
<1>1. CommentInv /\ Nobody \notin Live(comments)
  BY CommentRows
<1>2. NewIn(comments, "create_comment")'
  BY <1>1, DroppedBefore DEF CommentInv, NewIn
<1>3. \A c \in Live(comments)' : comments'[c].parent \in Live(comments)' \cup {Nobody}
  OBVIOUS
<1>4. NoCircle'
  <2>1. SUFFICES ASSUME NEW S \in SUBSET Live(comments)', \A c \in S : comments'[c].parent \in S
                 PROVE  S = {}
    BY DEF NoCircle
  <2>2. \A c \in S : comments[c].parent \in S
    BY <1>1, <2>1
  <2> QED
    BY <1>1, <2>2 DEF CommentInv, NoCircle
<1> QED
  BY <1>2, <1>3, <1>4 DEF CommentInv

LEMMA AskComment ==
    ASSUME NEW s \in Sessions, BoardInv, AskCreateComment(s), UNCHANGED comments
    PROVE  CommentInv'
<1>1. CommentInv /\ DOMAIN doing = Sessions
  BY CommentRows
<1>2. PICK r : Ask(s, r) /\ r.op = "create_comment" /\ Fresh(comments, r.on)
  <2>1. PICK c \in CommentIds, p \in Live(problems), x \in Live(solutions) \cup {Nobody},
             d \in CommentIds \cup {Nobody}, u \in Users :
          /\ Fresh(comments, c)
          /\ Ask(s, [op |-> "create_comment", user |-> u, on |-> c, problem |-> p,
                     solution |-> x, parent |-> d, watch |-> watches[<<u, p>>]])
    BY DEF AskCreateComment
  <2> DEFINE q == [op |-> "create_comment", user |-> u, on |-> c, problem |-> p,
                   solution |-> x, parent |-> d, watch |-> watches[<<u, p>>]]
  <2>2. q.op = "create_comment" /\ q.on = c
    OBVIOUS
  <2> HIDE DEF q
  <2> QED
    BY <2>1, <2>2 DEF q
<1>3. Live(comments)' = Live(comments)
  BY DEF Live
<1>4. NewIn(comments, "create_comment")'
  BY <1>1, <1>2, <1>3, NewAsked DEF CommentInv, NewIn, Doing
<1>5. NoCircle'
  BY <1>1, <1>3 DEF CommentInv, NoCircle
<1> QED
  BY <1>1, <1>3, <1>4, <1>5 DEF CommentInv

LEMMA CreateCommentHangs ==
    ASSUME NEW s \in Sessions, BoardInv, CreateComment(s)
    PROVE  CommentInv'
<1> DEFINE r == doing[s]
           row == [problem |-> r.problem, solution |-> r.solution, parent |-> r.parent,
                   author |-> r.user, deleted |-> FALSE]
<1>1. /\ CommentInv /\ RequestsOK /\ DOMAIN doing = Sessions
      /\ comments \in Rows(CommentIds, Comment) /\ Nobody \notin Live(comments)
      /\ \A c \in Live(comments) : comments[c] \in Comment
  BY CommentRows
<1>2. /\ Doing(s, "create_comment") /\ r.on \in CommentIds /\ r.on \notin Live(comments)
      /\ r.parent \in Live(comments) \cup {Nobody} /\ CarriesSolution(r) /\ r.op = "create_comment"
  <2>1. Doing(s, "create_comment")
    BY DEF CreateComment
  <2>2. CarriesSolution(r) /\ r.op = "create_comment"
    BY <1>1, <2>1, RequestIs DEF Carries
  <2>3. r.parent \in Live(comments) \cup {Nobody}
    BY DEF CreateComment
  <2> QED
    BY <1>1, <2>1, <2>2, <2>3 DEF CommentInv, NewIn, CarriesSolution
<1>3. row \in Comment /\ row.parent = r.parent
  BY <1>1, <1>2 DEF CarriesSolution, SolutionOps, Comment
<1>4. comments' = [comments EXCEPT ![r.on] = row] /\ Ends(s) /\ doing'[s] = Idle
  BY <1>1 DEF CreateComment, Ends, End
<1> HIDE DEF row
<1> PICK new \in CommentIds : new = r.on
  BY <1>2
<1>5. /\ Live(comments)' = Live(comments) \cup {new} /\ new \notin Live(comments) /\ new # Nobody
      /\ comments'[new].parent \in Live(comments) \cup {Nobody}
      /\ \A c \in Live(comments) : comments'[c] = comments[c]
  BY <1>1, <1>2, <1>3, <1>4, NoAbsentRow, BoardAssumption DEF Rows, Live
<1>6. NewIn(comments, "create_comment")'
  <2>1. \A o \in Sessions : Doing(o, "create_comment")' =>
          o # s /\ Doing(o, "create_comment") /\ doing'[o] = doing[o]
    BY <1>1, <1>4 DEF Ends, Doing
  <2> QED
    BY <1>1, <1>2, <1>5, <2>1 DEF CommentInv, NewIn
<1>7. \A c \in Live(comments)' : comments'[c].parent \in Live(comments)' \cup {Nobody}
  BY <1>1, <1>5 DEF CommentInv
<1>8. NoCircle'
  <2>1. SUFFICES ASSUME NEW S \in SUBSET Live(comments)', \A c \in S : comments'[c].parent \in S
                 PROVE  S = {}
    BY DEF NoCircle
  <2>2. \A c \in S \ {new} : comments[c].parent \in S \ {new}
    BY <1>1, <1>5, <2>1 DEF CommentInv
  <2>3. S \ {new} \in SUBSET Live(comments)
    BY <1>5
  <2>4. S \ {new} = {}
    BY <1>1, <2>2, <2>3 DEF CommentInv, NoCircle
  <2>5. new \notin S
    BY <1>1, <1>5, <2>1, <2>4
  <2> QED
    BY <2>4, <2>5
<1> QED
  BY <1>6, <1>7, <1>8 DEF CommentInv

LEMMA MarkKeepsParents ==
    ASSUME NEW s \in Sessions, BoardInv, EditComment(s) \/ Bury(s)
    PROVE  CommentInv'
<1> DEFINE r == doing[s]
<1>1. /\ CommentInv /\ DOMAIN doing = Sessions /\ comments \in Rows(CommentIds, Comment)
      /\ \A c \in Live(comments) : comments[c] \in Comment
  BY CommentRows
<1>2. PICK mark \in BOOLEAN : comments' = [comments EXCEPT ![r.on].deleted = mark]
  BY DEF EditComment, Bury
<1>3. r.on \in Live(comments) /\ Ends(s)
  BY DEF EditComment, Bury, Ends, End
<1>4. [comments[r.on] EXCEPT !.deleted = mark] \in Comment
  BY <1>1, <1>3 DEF Comment
<1>5. /\ Live(comments)' = Live(comments)
      /\ \A c \in Live(comments) : comments'[c].parent = comments[c].parent
  BY <1>1, <1>2, <1>3, <1>4, NoAbsentRow DEF Rows, Live, Comment
<1>6. Dropped({"create_comment"})
  BY <1>1, <1>3, EndDrops
<1> QED
  BY <1>1, <1>5, <1>6, CommentFrame DEF CommentInv

LEMMA RemoveLeavesNoOrphan ==
    ASSUME NEW s \in Sessions, BoardInv, Remove(s)
    PROVE  CommentInv'
<1> DEFINE r == doing[s]
<1>1. /\ CommentInv /\ DOMAIN doing = Sessions /\ comments \in Rows(CommentIds, Comment)
      /\ \A c \in Live(comments) : c \in CommentIds /\ comments[c] \in Comment
  BY CommentRows
<1>2. r.on \in Live(comments) /\ Ends(s)
  BY DEF Remove, Ends, End
<1>3. PICK unseen \in SUBSET Replies(r.on) :
        comments' = [c \in CommentIds |->
          IF c \in Cascade(unseen) \cup {r.on} THEN Absent
          ELSE IF c \in Replies(r.on) THEN [comments[c] EXCEPT !.parent = Nobody]
          ELSE comments[c]]
  BY DEF Remove
<1> DEFINE gone == Cascade(unseen) \cup {r.on}
<1>4. \A c \in Live(comments)' :
        /\ c \in CommentIds /\ c \notin gone /\ c \in Live(comments)
        /\ c \in Replies(r.on) => comments'[c].parent = Nobody
        /\ c \notin Replies(r.on) => comments'[c] = comments[c]
  BY <1>1, <1>3 DEF Rows, Live, Replies, Comment
<1>5. \A c \in Live(comments) \ gone : c \in Live(comments)'
  BY <1>1, <1>3, NoAbsentRow DEF Live, Comment
<1>6. ASSUME NEW c \in Live(comments)', c \notin Replies(r.on)
      PROVE  comments[c].parent \in Live(comments)' \cup {Nobody}
  <2>1. c \in Live(comments) /\ c \notin gone /\ comments[c].parent \in Live(comments) \cup {Nobody}
    BY <1>1, <1>4 DEF CommentInv
  <2>2. CASE comments[c].parent \in Live(comments)
    <3>1. c \in Replies(comments[c].parent)
      BY <2>1 DEF Replies
    <3>2. comments[c].parent \notin gone
      BY <1>6, <2>1, <3>1, CascadeFollows DEF Replies
    <3> QED
      BY <1>5, <2>2, <3>2
  <2> QED
    BY <2>1, <2>2
<1>7. Dropped({"create_comment"})
  BY <1>1, <1>2, EndDrops
<1> QED
  BY <1>4, <1>6, <1>7, CommentFrame

LEMMA CommentStep ==
    ASSUME NEW s \in Sessions, BoardInv, Asks(s) \/ Works(s)
    PROVE  CommentInv'
<1>1. CommentInv /\ DOMAIN doing = Sessions
  BY CommentRows
<1>2. ASSUME UNCHANGED comments, Dropped({"create_comment"})
      PROVE  CommentInv'
  BY <1>1, <1>2, CommentFrame DEF Live, CommentInv
<1>3. CASE Asks(s)
  <2>1. Begins(s, AnyOps) /\ UNCHANGED comments
    BY <1>3, AsksBegin DEF Begins, tables
  <2>2. CASE AskCreateComment(s)
    BY <2>1, <2>2, AskComment
  <2>3. CASE ~AskCreateComment(s)
    <3>1. doing'[s].op \notin {"create_comment"}
      <4>1. CASE AskProblems(s) \/ AskSpaces(s)
        <5>1. doing'[s].op \in ProblemOps \/ doing'[s].op \in SpaceOps
          BY <4>1, ProblemsAsk, SpacesAsk DEF Begins
        <5> QED
          BY <5>1 DEF ProblemOps, SpaceOps
      <4>2. CASE AskSolutions(s)
        BY <1>1, <2>3, <4>2, SolutionsAskWhat DEF AskSolutions
      <4> QED
        BY <1>3, <4>1, <4>2 DEF Asks
    <3> QED
      BY <1>2, <2>1, <3>1, BeginsDrops
  <2> QED
    BY <2>2, <2>3
<1>4. CASE Works(s)
  <2>1. Dropped({"create_comment"})
    BY <1>1, <1>4, WorksEnd, EndDrops
  <2>2. CASE CreateComment(s) \/ EditComment(s) \/ Bury(s) \/ Remove(s)
    BY <2>2, CreateCommentHangs, MarkKeepsParents, RemoveLeavesNoOrphan
  <2>3. CASE ~(CreateComment(s) \/ EditComment(s) \/ Bury(s) \/ Remove(s))
    <3>1. UNCHANGED comments
      <4>1. CASE DoSolutions(s)
        BY <2>3, <4>1 DEF DoSolutions, CreateSolution, CreateVersion, SolutionStatus, Upvote,
           DeleteSolutionFails
      <4>2. CASE ~DoSolutions(s)
        BY <1>4, <4>2, ProblemsEnd, SpacesEnd, AbandonEnds DEF Works, tables
      <4> QED
        BY <4>1, <4>2
    <3> QED
      BY <1>2, <2>1, <3>1
  <2> QED
    BY <2>2, <2>3
<1> QED
  BY <1>3, <1>4

-----------------------------------------------------------------------------
(* Votes.                                                                  *)

LEMMA VoteRows ==
    ASSUME BoardInv
    PROVE  /\ VoteInv /\ RequestsOK /\ DOMAIN doing = Sessions
           /\ posts \in Rows(PostIds, Post) /\ votes \subseteq Actors \X PostIds
           /\ \A p \in Live(posts) : p \in PostIds /\ posts[p] \in Post
BY DEF BoardInv, RequestsOK, BoardTypeOK, Rows, Live

LEMMA VoteFrame ==
    ASSUME BoardInv, Dropped({"create_post"}), Dropped({"toggle_vote"}), UNCHANGED <<posts, votes>>
    PROVE  VoteInv'
<1>1. VoteInv
  BY VoteRows
<1>2. Live(posts)' = Live(posts) /\ \A p : Voters(p)' = Voters(p)
  BY DEF Live, Voters
<1>3. NewIn(posts, "create_post")'
  BY <1>1, <1>2, DroppedBefore DEF VoteInv, NewIn
<1>4. ASSUME NEW s \in Sessions, Doing(s, "toggle_vote")'
      PROVE  doing'[s].on \in Live(posts)' /\ Alone(s, {"toggle_vote"})'
  <2>1. Doing(s, "toggle_vote") /\ doing'[s] = doing[s]
    BY <1>4, DroppedBefore
  <2>2. \A o \in Sessions : Doing(o, "toggle_vote")' => doing'[o] = doing[o]
    BY DroppedBefore
  <2> QED
    BY <1>1, <1>2, <2>1, <2>2 DEF VoteInv, Alone, Doing
<1>5. ASSUME NEW s \in Sessions, Doing(s, "toggle_vote")'
      PROVE  Doing(s, "toggle_vote") /\ doing'[s] = doing[s]
  BY <1>5, DroppedBefore
<1> QED
  BY <1>1, <1>2, <1>3, <1>4, <1>5 DEF VoteInv

LEMMA AskPost ==
    ASSUME NEW s \in Sessions, BoardInv, AskCreatePost(s), UNCHANGED <<posts, votes>>
    PROVE  VoteInv'
<1>1. VoteInv /\ DOMAIN doing = Sessions
  BY VoteRows
<1>2. PICK r : Ask(s, r) /\ r.op = "create_post" /\ Fresh(posts, r.on)
  BY DEF AskCreatePost
<1>3. Dropped({"toggle_vote"})
  BY <1>1, <1>2, AskDrops
<1>4. Live(posts)' = Live(posts) /\ \A p : Voters(p)' = Voters(p)
  BY DEF Live, Voters
<1>5. NewIn(posts, "create_post")'
  <2>1. NewIn(posts, "create_post")
    BY <1>1 DEF VoteInv
  <2>2. \A o \in Sessions : (doing'[o] # Idle /\ doing'[o].op = "create_post") =>
          /\ doing'[o].on \notin Live(posts)
          /\ \A q \in Sessions \ {o} :
               (doing'[q] # Idle /\ doing'[q].op = "create_post") => doing'[q].on # doing'[o].on
    BY <1>1, <1>2, <2>1, NewAsked
  <2> QED
    BY <1>4, <2>2 DEF NewIn, Doing
<1>6. \A o \in Sessions : Doing(o, "toggle_vote")' =>
        Doing(o, "toggle_vote") /\ doing'[o] = doing[o]
  BY <1>3, DroppedBefore
<1>7. \A o \in Sessions : Doing(o, "toggle_vote")' =>
        doing'[o].on \in Live(posts)' /\ Alone(o, {"toggle_vote"})'
  BY <1>1, <1>4, <1>6 DEF VoteInv, Alone, Doing
<1> QED
  BY <1>1, <1>4, <1>5, <1>6, <1>7 DEF VoteInv

\* The lock is taken on a row that nobody else has locked.
LEMMA AskVoteLocks ==
    ASSUME NEW s \in Sessions, BoardInv, AskVote(s), UNCHANGED <<posts, votes>>
    PROVE  VoteInv'
<1>1. VoteInv /\ DOMAIN doing = Sessions
  BY VoteRows
<1>2. PICK p \in Live(posts), a \in Actors :
        Ask(s, [op |-> "toggle_vote", user |-> a, on |-> p, had |-> <<a, p>> \in votes,
                others |-> Cardinality(Voters(p) \ {a})])
  BY DEF AskVote
<1> DEFINE r == [op |-> "toggle_vote", user |-> a, on |-> p, had |-> <<a, p>> \in votes,
                 others |-> Cardinality(Voters(p) \ {a})]
<1>3. /\ r.op = "toggle_vote" /\ r.user = a /\ r.on = p
      /\ r.others = Cardinality(Voters(p) \ {a})
  OBVIOUS
<1>4. r.had <=> <<a, p>> \in votes
  BY Zenon
<1> HIDE DEF r
<1>5. Ask(s, r)
  BY <1>2 DEF r
<1>6. /\ doing[s] = Idle /\ doing'[s] = r /\ DOMAIN doing' = Sessions
      /\ \A o \in Sessions \ {s} : doing'[o] = doing[o]
  BY <1>1, <1>5, AskIs
<1>7. \A o \in Sessions \ {s} : doing[o] # Idle /\ doing[o].op = "toggle_vote" => doing[o].on # p
  BY <1>3, <1>5 DEF Ask, Unlocked, Locking
<1>8. Dropped({"create_post"})
  BY <1>1, <1>3, <1>5, AskDrops
<1>9. Live(posts)' = Live(posts) /\ \A q : Voters(q)' = Voters(q)
  BY DEF Live, Voters
<1>10. NewIn(posts, "create_post")'
  BY <1>1, <1>8, <1>9, DroppedBefore DEF VoteInv, NewIn
<1>11. ASSUME NEW o \in Sessions, Doing(o, "toggle_vote")'
       PROVE  doing'[o].on \in Live(posts)' /\ Alone(o, {"toggle_vote"})'
  <2>1. CASE o = s
    BY <1>3, <1>6, <1>7, <1>9, <2>1 DEF Alone
  <2>2. CASE o # s
    BY <1>1, <1>3, <1>6, <1>7, <1>9, <1>11, <2>2 DEF VoteInv, Alone, Doing
  <2> QED
    BY <2>1, <2>2
<1>12. ASSUME NEW o \in Sessions, NEW q \in PostIds, NEW b \in Actors,
              Doing(o, "toggle_vote")', doing'[o].on = q, doing'[o].user = b
       PROVE  /\ doing'[o].had <=> <<b, q>> \in votes
              /\ doing'[o].others = Cardinality(Voters(q) \ {b})
  <2>1. CASE o = s
    <3>1. q = p /\ b = a /\ doing'[o].had = r.had /\ doing'[o].others = r.others
      BY <1>3, <1>6, <1>12, <2>1
    <3> QED
      BY <1>3, <1>4, <3>1
  <2>2. CASE o # s
    BY <1>1, <1>6, <1>12, <2>2 DEF VoteInv, Doing
  <2> QED
    BY <2>1, <2>2
<1> QED
  BY <1>1, <1>9, <1>10, <1>11, <1>12 DEF VoteInv

\* A post that is new has no votes.
LEMMA CreatePostCounts ==
    ASSUME NEW s \in Sessions, BoardInv, CreatePost(s)
    PROVE  VoteInv'
<1> DEFINE r == doing[s]
           row == [author |-> r.user, upvotes |-> 0]
<1>1. /\ VoteInv /\ RequestsOK /\ DOMAIN doing = Sessions /\ posts \in Rows(PostIds, Post)
      /\ \A p \in Live(posts) : p \in PostIds /\ posts[p] \in Post
  BY VoteRows
<1>2. Doing(s, "create_post") /\ r.on \in PostIds \ Live(posts) /\ r.user \in Actors
  <2>1. Doing(s, "create_post")
    BY DEF CreatePost
  <2>2. CarriesSpace(r) /\ r.op = "create_post"
    BY <1>1, <2>1, RequestIs DEF Carries
  <2> QED
    BY <1>1, <2>1, <2>2 DEF VoteInv, NewIn, CarriesSpace
<1>3. row \in Post /\ row.upvotes = 0
  BY <1>2 DEF Post
<1>4. posts' = [posts EXCEPT ![r.on] = row] /\ votes' = votes /\ doing'[s] = Idle /\ Ends(s)
  BY <1>1 DEF CreatePost, Ends, End
<1> HIDE DEF row
<1> PICK new \in PostIds : new = r.on
  BY <1>2
<1>5. /\ Live(posts)' = Live(posts) \cup {new} /\ new \notin Live(posts)
      /\ posts'[new].upvotes = 0
      /\ \A p \in Live(posts) : posts'[p] = posts[p]
  BY <1>1, <1>2, <1>3, <1>4, NoAbsentRow DEF Rows, Live
<1>6. \A p : Voters(p)' = Voters(p)
  BY <1>4 DEF Voters
<1>7. \A o \in Sessions : doing'[o] # Idle => o # s /\ doing'[o] = doing[o]
  BY <1>1, <1>4 DEF Ends
<1>8. NewIn(posts, "create_post")'
  BY <1>1, <1>2, <1>5, <1>7 DEF VoteInv, NewIn, Doing
<1>9. \A p \in Live(posts)' : posts'[p].upvotes = Cardinality(Voters(p)')
  <2>1. Cardinality(Voters(new)) = 0
    BY <1>1, <1>5, FS_EmptySet DEF VoteInv
  <2>2. \A p \in Live(posts) : posts[p].upvotes = Cardinality(Voters(p))
    BY <1>1 DEF VoteInv
  <2> QED
    BY <1>5, <1>6, <2>1, <2>2
<1>10. \A p \in PostIds \ Live(posts)' : Voters(p)' = {}
  BY <1>1, <1>5, <1>6 DEF VoteInv
<1>11. \A o \in Sessions : Doing(o, "toggle_vote")' =>
         doing'[o].on \in Live(posts)' /\ Alone(o, {"toggle_vote"})'
  BY <1>1, <1>5, <1>7 DEF VoteInv, Alone, Doing
<1>12. ASSUME NEW o \in Sessions, NEW q \in PostIds, NEW b \in Actors,
              Doing(o, "toggle_vote")', doing'[o].on = q, doing'[o].user = b
       PROVE  /\ doing'[o].had <=> <<b, q>> \in votes'
              /\ doing'[o].others = Cardinality(Voters(q)' \ {b})
  <2>1. doing'[o] = doing[o] /\ Doing(o, "toggle_vote")
    BY <1>7, <1>12 DEF Doing
  <2>2. /\ doing[o].had <=> <<b, q>> \in votes
        /\ doing[o].others = Cardinality(Voters(q) \ {b})
    BY <1>1, <1>12, <2>1 DEF VoteInv
  <2> QED
    BY <1>4, <1>6, <2>1, <2>2
<1> QED
  BY <1>8, <1>9, <1>10, <1>11, <1>12 DEF VoteInv

\* Nobody else has voted since the votes were read, so the count is right.
LEMMA VoteCounts ==
    ASSUME NEW s \in Sessions, BoardInv, Vote(s)
    PROVE  VoteInv'
<1>1. /\ VoteInv /\ RequestsOK /\ DOMAIN doing = Sessions /\ posts \in Rows(PostIds, Post)
      /\ \A p \in Live(posts) : p \in PostIds /\ posts[p] \in Post
  BY VoteRows
<1>2. Doing(s, "toggle_vote") /\ CarriesSpace(doing[s]) /\ doing[s].op = "toggle_vote"
  <2>1. Doing(s, "toggle_vote")
    BY DEF Vote
  <2> QED
    BY <1>1, <2>1, RequestIs DEF Carries
<1> PICK p \in PostIds, a \in Actors : p = doing[s].on /\ a = doing[s].user
  BY <1>2 DEF CarriesSpace
<1>3. /\ p \in Live(posts) /\ Alone(s, {"toggle_vote"})
      /\ doing[s].had <=> <<a, p>> \in votes
      /\ doing[s].others = Cardinality(Voters(p) \ {a})
  BY <1>1, <1>2 DEF VoteInv
<1> PICK count : count = Count(doing[s])
  OBVIOUS
<1>4. /\ posts' = [posts EXCEPT ![p].upvotes = count] /\ doing'[s] = Idle /\ Ends(s)
      /\ <<a, p>> \in votes => votes' = votes \ {<<a, p>>}
      /\ <<a, p>> \notin votes => votes' = votes \cup {<<a, p>>}
  BY <1>1, <1>3 DEF Vote, Ends, End
<1>5. count = Cardinality(Voters(p)') /\ count \in Nat
  <2>1. IsFiniteSet(Voters(p) \ {a}) /\ Cardinality(Voters(p) \ {a}) \in Nat
    BY VotersFinite
  <2>2. CASE <<a, p>> \in votes
    <3>1. Voters(p)' = Voters(p) \ {a}
      BY <1>4, <2>2 DEF Voters
    <3>2. count = doing[s].others
      BY <1>3, <2>1, <2>2 DEF Count
    <3> QED
      BY <1>3, <2>1, <3>1, <3>2
  <2>3. CASE <<a, p>> \notin votes
    <3>1. Voters(p)' = (Voters(p) \ {a}) \cup {a}
      BY <1>4, <2>3 DEF Voters
    <3>2. count = Cardinality(Voters(p) \ {a}) + 1
      BY <1>3, <2>3 DEF Count
    <3>3. Cardinality((Voters(p) \ {a}) \cup {a}) = Cardinality(Voters(p) \ {a}) + 1
      BY <2>1, FS_AddElement
    <3> QED
      BY <2>1, <3>1, <3>2, <3>3
  <2> QED
    BY <2>2, <2>3
<1>6. ASSUME NEW q \in PostIds, q # p PROVE Voters(q)' = Voters(q)
  BY <1>4, <1>6 DEF Voters
<1>7. /\ Live(posts)' = Live(posts) /\ posts'[p].upvotes = count
      /\ \A q \in Live(posts) : q # p => posts'[q] = posts[q]
  <2>1. posts[p] \in Post /\ [posts[p] EXCEPT !.upvotes = count] \in Post
    BY <1>1, <1>3, <1>5 DEF Post
  <2> QED
    BY <1>1, <1>3, <1>4, <2>1, NoAbsentRow DEF Rows, Live, Post
<1>8. \A o \in Sessions : doing'[o] # Idle => o # s /\ doing'[o] = doing[o]
  BY <1>1, <1>4 DEF Ends
<1>9. NewIn(posts, "create_post")'
  BY <1>1, <1>7, <1>8 DEF VoteInv, NewIn, Doing
<1>10. \A q \in Live(posts)' : posts'[q].upvotes = Cardinality(Voters(q)')
  <2>1. \A q \in Live(posts) : posts[q].upvotes = Cardinality(Voters(q))
    BY <1>1 DEF VoteInv
  <2> QED
    BY <1>1, <1>5, <1>6, <1>7, <2>1
<1>11. \A q \in PostIds \ Live(posts)' : Voters(q)' = {}
  <2>1. \A q \in PostIds \ Live(posts) : Voters(q) = {}
    BY <1>1 DEF VoteInv
  <2> QED
    BY <1>3, <1>6, <1>7, <2>1
<1>12. \A o \in Sessions : Doing(o, "toggle_vote")' =>
         doing'[o].on \in Live(posts)' /\ Alone(o, {"toggle_vote"})'
  BY <1>1, <1>7, <1>8 DEF VoteInv, Alone, Doing
<1>13. ASSUME NEW o \in Sessions, NEW q \in PostIds, NEW b \in Actors,
              Doing(o, "toggle_vote")', doing'[o].on = q, doing'[o].user = b
       PROVE  /\ doing'[o].had <=> <<b, q>> \in votes'
              /\ doing'[o].others = Cardinality(Voters(q)' \ {b})
  <2>1. o # s /\ doing'[o] = doing[o] /\ Doing(o, "toggle_vote")
    BY <1>8, <1>13 DEF Doing
  <2>2. q # p
    BY <1>3, <1>13, <2>1 DEF Alone, Doing
  <2>3. /\ doing[o].had <=> <<b, q>> \in votes
        /\ doing[o].others = Cardinality(Voters(q) \ {b})
    BY <1>1, <1>13, <2>1 DEF VoteInv
  <2>4. Voters(q)' = Voters(q) /\ (<<b, q>> \in votes' <=> <<b, q>> \in votes)
    BY <1>4, <1>6, <2>2
  <2> QED
    BY <2>1, <2>3, <2>4
<1> QED
  BY <1>9, <1>10, <1>11, <1>12, <1>13 DEF VoteInv

LEMMA VoteStep ==
    ASSUME NEW s \in Sessions, BoardInv, Asks(s) \/ Works(s)
    PROVE  VoteInv'
<1>1. VoteInv /\ DOMAIN doing = Sessions
  BY VoteRows
<1> DEFINE voting == {"create_post", "toggle_vote"}
<1>2. ASSUME UNCHANGED <<posts, votes>>, Dropped(voting)
      PROVE  VoteInv'
  <2>1. Dropped({"create_post"}) /\ Dropped({"toggle_vote"})
    BY <1>2 DEF Dropped
  <2> QED
    BY <1>2, <2>1, VoteFrame
<1>3. CASE Asks(s)
  <2>1. Begins(s, AnyOps) /\ UNCHANGED <<posts, votes>>
    BY <1>3, AsksBegin DEF Begins, tables, postTables
  <2>2. CASE AskCreatePost(s)
    BY <2>1, <2>2, AskPost
  <2>3. CASE AskVote(s)
    BY <2>1, <2>3, AskVoteLocks
  <2>4. CASE ~AskCreatePost(s) /\ ~AskVote(s)
    <3>1. doing'[s].op \notin voting
      <4>1. CASE AskProblems(s) \/ AskSolutions(s)
        <5>1. doing'[s].op \in ProblemOps \/ doing'[s].op \in SolutionOps
          BY <4>1, ProblemsAsk, SolutionsAsk DEF Begins
        <5> QED
          BY <5>1 DEF ProblemOps, SolutionOps
      <4>2. CASE AskSpaces(s)
        BY <1>1, <2>4, <4>2, SpacesAskWhat DEF AskSpaces, Steps
      <4> QED
        BY <1>3, <4>1, <4>2 DEF Asks
    <3> HIDE DEF voting
    <3> QED
      BY <1>2, <2>1, <3>1, BeginsDrops
  <2> QED
    BY <2>2, <2>3, <2>4
<1>4. CASE Works(s)
  <2>1. Dropped(voting)
    BY <1>1, <1>4, WorksEnd, EndDrops
  <2>2. CASE CreatePost(s) \/ Vote(s)
    BY <2>2, CreatePostCounts, VoteCounts
  <2>3. CASE ~CreatePost(s) /\ ~Vote(s)
    <3>1. UNCHANGED <<posts, votes>>
      <4>1. CASE DoSpaces(s)
        BY <2>3, <4>1 DEF DoSpaces, postTables, CreateBounty, TakeBounty, ReleaseBounty,
           AwardBounty, WithdrawBounty, WriteBounty, StoreFile, InsertAttachment, UnlinkFile,
           DeleteAttachment, RenameTag, DeleteTag, MergeTags, DropTag, CreateCategory,
           UpdateCategory, Reorder, DeleteCategory, PutCategory
      <4>2. CASE ~DoSpaces(s)
        BY <1>4, <4>2, ProblemsEnd, SolutionsEnd, AbandonEnds DEF Works, tables, postTables
      <4> QED
        BY <4>1, <4>2
    <3> QED
      BY <1>2, <2>1, <3>1
  <2> QED
    BY <2>2, <2>3
<1> QED
  BY <1>3, <1>4

-----------------------------------------------------------------------------
(* Bounties.                                                               *)

LEMMA BountyRows ==
    ASSUME BoardInv
    PROVE  /\ BountyInv /\ RequestsOK /\ DOMAIN doing = Sessions
           /\ bounties \in Rows(BountyIds, Bounty)
           /\ \A b \in Live(bounties) : b \in BountyIds /\ bounties[b] \in Bounty
BY DEF BoardInv, RequestsOK, BoardTypeOK, Rows, Live

\* The rows hold but for the problem they name.
LEMMA BountyFrame ==
    ASSUME BoardInv, Dropped({"create_bounty"}), Dropped(Steps),
           Live(bounties)' = Live(bounties),
           \A b \in Live(bounties) :
             /\ bounties'[b].status = bounties[b].status
             /\ bounties'[b].claimant = bounties[b].claimant
             /\ bounties'[b].poster = bounties[b].poster
    PROVE  BountyInv'
<1>1. BountyInv
  BY BountyRows
<1>2. NewIn(bounties, "create_bounty")'
  BY <1>1, DroppedBefore DEF BountyInv, NewIn
<1>3. \A o \in Sessions : doing'[o] # Idle /\ doing'[o].op \in Steps => doing'[o] = doing[o]
  BY DEF Dropped, Doing
<1>4. ASSUME NEW s \in Sessions, doing'[s] # Idle, doing'[s].op \in Steps
      PROVE  /\ doing'[s].on \in Live(bounties)' /\ Alone(s, Steps)'
             /\ MayTake(doing[s].op, doing[s].user, doing[s].on)'
  <2>1. doing'[s] = doing[s] /\ doing[s].on \in Live(bounties) /\ Alone(s, Steps)
        /\ MayTake(doing[s].op, doing[s].user, doing[s].on)
    BY <1>1, <1>3, <1>4 DEF BountyInv
  <2>2. Alone(s, Steps)'
    BY <1>3, <2>1 DEF Alone
  <2> QED
    BY <2>1, <2>2 DEF MayTake
<1> QED
  BY <1>1, <1>2, <1>4 DEF BountyInv

\* Who locks a bounty reads what no other request will change before him.
LEMMA AskBountyLocks ==
    ASSUME NEW s \in Sessions, BoardInv, AskBounty(s), UNCHANGED bounties
    PROVE  BountyInv'
<1>1. BountyInv /\ DOMAIN doing = Sessions
  BY BountyRows
<1>2. PICK b \in Live(bounties), a \in Actors, op \in Steps :
        MayTake(op, a, b) /\ Ask(s, [op |-> op, user |-> a, on |-> b])
  BY DEF AskBounty, Steps
<1> DEFINE r == [op |-> op, user |-> a, on |-> b]
<1>3. r.op = op /\ r.user = a /\ r.on = b
  OBVIOUS
<1> HIDE DEF r
<1>4. Ask(s, r)
  BY <1>2 DEF r
<1>5. /\ doing'[s] = r /\ DOMAIN doing' = Sessions
      /\ \A o \in Sessions \ {s} : doing'[o] = doing[o]
  BY <1>1, <1>4, AskIs
<1>6. \A o \in Sessions \ {s} : doing[o] # Idle /\ doing[o].op \in Steps => doing[o].on # b
  BY <1>3, <1>4 DEF Ask, Unlocked, Locking, Steps
<1>7. Dropped({"create_bounty"})
  BY <1>1, <1>3, <1>4, AskDrops DEF Steps
<1>8. Live(bounties)' = Live(bounties)
  BY DEF Live
<1>9. NewIn(bounties, "create_bounty")'
  BY <1>1, <1>7, <1>8, DroppedBefore DEF BountyInv, NewIn
<1>10. ASSUME NEW o \in Sessions, doing'[o] # Idle, doing'[o].op \in Steps
       PROVE  /\ doing'[o].on \in Live(bounties)' /\ Alone(o, Steps)'
              /\ MayTake(doing[o].op, doing[o].user, doing[o].on)'
  <2>1. CASE o = s
    <3>1. Alone(o, Steps)'
      BY <1>3, <1>5, <1>6, <2>1 DEF Alone
    <3>2. MayTake(doing[o].op, doing[o].user, doing[o].on)'
      BY <1>2, <1>3, <1>5, <2>1 DEF MayTake
    <3> QED
      BY <1>3, <1>5, <1>8, <2>1, <3>1, <3>2
  <2>2. CASE o # s
    <3>1. /\ doing'[o] = doing[o] /\ doing[o].on \in Live(bounties) /\ Alone(o, Steps)
          /\ MayTake(doing[o].op, doing[o].user, doing[o].on)
      BY <1>1, <1>5, <1>10, <2>2 DEF BountyInv
    <3>2. Alone(o, Steps)'
      BY <1>3, <1>5, <1>6, <1>10, <2>2, <3>1 DEF Alone
    <3> QED
      BY <1>8, <3>1, <3>2 DEF MayTake
  <2> QED
    BY <2>1, <2>2
<1> QED
  BY <1>1, <1>8, <1>9, <1>10 DEF BountyInv

LEMMA AskNewBounty ==
    ASSUME NEW s \in Sessions, BoardInv, AskCreateBounty(s), UNCHANGED bounties
    PROVE  BountyInv'
<1>1. BountyInv /\ DOMAIN doing = Sessions
  BY BountyRows
<1>2. PICK r : Ask(s, r) /\ r.op = "create_bounty" /\ Fresh(bounties, r.on)
  BY DEF AskCreateBounty
<1>3. Live(bounties)' = Live(bounties)
  BY DEF Live
<1>4. NewIn(bounties, "create_bounty")'
  <2>1. NewIn(bounties, "create_bounty")
    BY <1>1 DEF BountyInv
  <2>2. \A o \in Sessions : (doing'[o] # Idle /\ doing'[o].op = "create_bounty") =>
          /\ doing'[o].on \notin Live(bounties)
          /\ \A q \in Sessions \ {o} :
               (doing'[q] # Idle /\ doing'[q].op = "create_bounty") => doing'[q].on # doing'[o].on
    BY <1>1, <1>2, <2>1, NewAsked
  <2> QED
    BY <1>3, <2>2 DEF NewIn, Doing
<1>5. \A o \in Sessions : doing'[o] # Idle /\ doing'[o].op \in Steps => doing'[o] = doing[o]
  BY <1>1, <1>2, AskIs DEF Steps
<1>6. ASSUME NEW o \in Sessions, doing'[o] # Idle, doing'[o].op \in Steps
      PROVE  /\ doing'[o].on \in Live(bounties)' /\ Alone(o, Steps)'
             /\ MayTake(doing[o].op, doing[o].user, doing[o].on)'
  <2>1. /\ doing'[o] = doing[o] /\ doing[o].on \in Live(bounties) /\ Alone(o, Steps)
        /\ MayTake(doing[o].op, doing[o].user, doing[o].on)
    BY <1>1, <1>5, <1>6 DEF BountyInv
  <2>2. Alone(o, Steps)'
    BY <1>5, <2>1 DEF Alone
  <2> QED
    BY <1>3, <2>1, <2>2 DEF MayTake
<1> QED
  BY <1>1, <1>3, <1>4, <1>6 DEF BountyInv

\* An open bounty is nobody's.
LEMMA PutBounty ==
    ASSUME NEW s \in Sessions, BoardInv, NEW b \in BountyIds, NEW row \in Bounty,
           row.status = "open" => row.claimant = Nobody,
           bounties' = [bounties EXCEPT ![b] = row], Ends(s), doing'[s] = Idle,
           doing[s] # Idle /\ doing[s].on = b,
           Doing(s, "create_bounty") \/ doing[s].op \in Steps
    PROVE  BountyInv'
<1>1. /\ BountyInv /\ RequestsOK /\ DOMAIN doing = Sessions /\ bounties \in Rows(BountyIds, Bounty)
      /\ \A c \in Live(bounties) : c \in BountyIds /\ bounties[c] \in Bounty
  BY BountyRows
<1>2. /\ Live(bounties)' = Live(bounties) \cup {b} /\ bounties'[b] = row
      /\ \A c \in Live(bounties) : c # b => bounties'[c] = bounties[c]
  BY <1>1, NoAbsentRow DEF Rows, Live
<1>3. \A o \in Sessions : doing'[o] # Idle => o # s /\ doing'[o] = doing[o]
  BY <1>1 DEF Ends
<1>4. NewIn(bounties, "create_bounty")'
  <2>1. \A o \in Sessions \ {s} : Doing(o, "create_bounty") => doing[o].on # b
    <3>1. CASE Doing(s, "create_bounty")
      BY <1>1, <3>1 DEF BountyInv, NewIn
    <3>2. CASE doing[s].op \in Steps
      <4>1. b \in Live(bounties) /\ NewIn(bounties, "create_bounty")
        BY <1>1, <3>2 DEF BountyInv
      <4> QED
        BY <4>1 DEF NewIn
    <3> QED
      BY <3>1, <3>2
  <2>2. NewIn(bounties, "create_bounty")
    BY <1>1 DEF BountyInv
  <2>3. \A o \in Sessions : Doing(o, "create_bounty")' =>
          o # s /\ Doing(o, "create_bounty") /\ doing'[o] = doing[o]
    BY <1>3 DEF Doing
  <2>4. ASSUME NEW o \in Sessions, Doing(o, "create_bounty")'
        PROVE  /\ doing'[o].on \notin Live(bounties)'
               /\ \A q \in Sessions \ {o} :
                    Doing(q, "create_bounty")' => doing'[q].on # doing'[o].on
    <3>1. doing'[o].on \notin Live(bounties) \cup {b}
      BY <2>1, <2>2, <2>3, <2>4 DEF NewIn
    <3>2. \A q \in Sessions \ {o} :
            Doing(q, "create_bounty")' => doing'[q].on # doing'[o].on
      BY <2>2, <2>3, <2>4 DEF NewIn
    <3> QED
      BY <1>2, <3>1, <3>2
  <2> QED
    BY <2>4 DEF NewIn
<1>5. \A c \in Live(bounties)' : bounties'[c].status = "open" => bounties'[c].claimant = Nobody
  BY <1>1, <1>2 DEF BountyInv
<1>6. ASSUME NEW o \in Sessions, doing'[o] # Idle, doing'[o].op \in Steps
      PROVE  /\ doing'[o].on \in Live(bounties)' /\ Alone(o, Steps)'
             /\ MayTake(doing[o].op, doing[o].user, doing[o].on)'
  <2>1. /\ o # s /\ doing'[o] = doing[o] /\ doing[o].on \in Live(bounties) /\ Alone(o, Steps)
        /\ MayTake(doing[o].op, doing[o].user, doing[o].on)
    BY <1>1, <1>3, <1>6 DEF BountyInv
  <2>2. Alone(o, Steps)'
    BY <1>3, <2>1 DEF Alone
  <2>3. doing[o].on # b
    <3>1. CASE Doing(s, "create_bounty")
      BY <1>1, <2>1, <3>1 DEF BountyInv, NewIn
    <3>2. CASE doing[s].op \in Steps
      BY <1>1, <2>1, <3>2 DEF Alone
    <3> QED
      BY <3>1, <3>2
  <2> QED
    BY <1>2, <2>1, <2>2, <2>3 DEF MayTake
<1> QED
  BY <1>4, <1>5, <1>6 DEF BountyInv

\* What the locker of a bounty writes, from the row as it is.
LEMMA BountyWrites ==
    ASSUME NEW s \in Sessions, BoardInv,
           TakeBounty(s) \/ ReleaseBounty(s) \/ AwardBounty(s) \/ WithdrawBounty(s)
    PROVE  /\ doing[s] # Idle /\ doing[s].op \in Steps /\ doing[s].on \in Live(bounties)
           /\ doing'[s] = Idle /\ Ends(s)
           /\ \E row \in Bounty :
                /\ bounties' = [bounties EXCEPT ![doing[s].on] = row]
                /\ LET was == bounties[doing[s].on] IN
                   \/ was.status = "open" /\ row.status = "claimed" /\ row.claimant \in Actors
                   \/ was.status = "claimed" /\ row.status = "open" /\ row.claimant = Nobody
                   \/ /\ was.status = "claimed" /\ row.status = "awarded"
                      /\ row.claimant = was.claimant
                   \/ /\ was.status = "open" /\ was.claimant = Nobody
                      /\ row.status = "withdrawn" /\ row.claimant = Nobody
<1> DEFINE b == doing[s].on
           was == bounties[b]
<1>1. /\ BountyInv /\ RequestsOK /\ DOMAIN doing = Sessions
      /\ \A c \in Live(bounties) : c \in BountyIds /\ bounties[c] \in Bounty
  BY BountyRows
<1>2. doing[s] # Idle /\ doing[s].op \in Steps /\ doing'[s] = Idle /\ Ends(s)
  BY <1>1 DEF TakeBounty, ReleaseBounty, AwardBounty, WithdrawBounty, WriteBounty, Doing, End,
              Ends, Steps
<1>3. b \in Live(bounties) /\ MayTake(doing[s].op, doing[s].user, b) /\ doing[s].user \in Actors
  BY <1>1, <1>2 DEF BountyInv, RequestsOK, Carries, CarriesSpace, Steps
<1>4. was \in Bounty /\ (was.status = "open" => was.claimant = Nobody)
  BY <1>1, <1>3 DEF BountyInv
<1>5. CASE TakeBounty(s)
  <2> DEFINE row == [was EXCEPT !.status = "claimed", !.claimant = doing[s].user]
  <2>1. row \in Bounty /\ row.status = "claimed" /\ row.claimant \in Actors
    BY <1>3, <1>4 DEF Bounty, BountyStatuses
  <2>2. bounties' = [bounties EXCEPT ![b] = row] /\ was.status = "open"
    BY <1>3, <1>5 DEF TakeBounty, WriteBounty, MayTake, Doing
  <2> HIDE DEF row
  <2> QED
    BY <1>2, <1>3, <2>1, <2>2
<1>6. CASE ReleaseBounty(s)
  <2> DEFINE row == [was EXCEPT !.status = "open", !.claimant = Nobody]
  <2>1. row \in Bounty /\ row.status = "open" /\ row.claimant = Nobody
    BY <1>4 DEF Bounty, BountyStatuses
  <2>2. bounties' = [bounties EXCEPT ![b] = row] /\ was.status = "claimed"
    BY <1>3, <1>6 DEF ReleaseBounty, WriteBounty, MayTake, Doing
  <2> HIDE DEF row
  <2> QED
    BY <1>2, <1>3, <2>1, <2>2
<1>7. CASE AwardBounty(s)
  <2> DEFINE row == [was EXCEPT !.status = "awarded"]
  <2>1. row \in Bounty /\ row.status = "awarded" /\ row.claimant = was.claimant
    BY <1>4 DEF Bounty, BountyStatuses
  <2>2. bounties' = [bounties EXCEPT ![b] = row] /\ was.status = "claimed"
    BY <1>3, <1>7 DEF AwardBounty, WriteBounty, MayTake, Doing
  <2> HIDE DEF row
  <2> QED
    BY <1>2, <1>3, <2>1, <2>2
<1>8. CASE WithdrawBounty(s)
  <2> DEFINE row == [was EXCEPT !.status = "withdrawn"]
  <2>1. row \in Bounty /\ row.status = "withdrawn" /\ row.claimant = was.claimant
    BY <1>4 DEF Bounty, BountyStatuses
  <2>2. bounties' = [bounties EXCEPT ![b] = row] /\ was.status = "open"
    BY <1>3, <1>8 DEF WithdrawBounty, WriteBounty, MayTake, Doing
  <2> HIDE DEF row
  <2> QED
    BY <1>2, <1>3, <1>4, <2>1, <2>2
<1> QED
  BY <1>5, <1>6, <1>7, <1>8

\* A bounty is posted open, with nobody's claim.
LEMMA BountyPosted ==
    ASSUME NEW s \in Sessions, BoardInv, CreateBounty(s)
    PROVE  /\ Doing(s, "create_bounty") /\ doing[s].on \in BountyIds \ Live(bounties)
           /\ doing'[s] = Idle /\ Ends(s)
           /\ \E row \in Bounty : /\ bounties' = [bounties EXCEPT ![doing[s].on] = row]
                                  /\ row.status = "open" /\ row.claimant = Nobody
<1> DEFINE r == doing[s]
           row == [poster |-> r.user, status |-> "open", claimant |-> Nobody,
                   problem |-> r.problem]
<1>1. BountyInv /\ RequestsOK /\ DOMAIN doing = Sessions
  BY BountyRows
<1>2. Doing(s, "create_bounty") /\ doing'[s] = Idle /\ Ends(s)
  BY <1>1 DEF CreateBounty, Ends, End
<1>3. /\ r.on \in BountyIds \ Live(bounties) /\ r.user \in Users
      /\ r.problem \in ProblemIds \cup {Nobody}
  <2>1. CarriesSpace(r) /\ r.op = "create_bounty"
    BY <1>1, <1>2, RequestIs DEF Carries
  <2> QED
    BY <1>1, <1>2, <2>1 DEF BountyInv, NewIn, CarriesSpace
<1>4. row \in Bounty /\ row.status = "open" /\ row.claimant = Nobody
  BY <1>3 DEF Bounty, BountyStatuses
<1>5. bounties' = [bounties EXCEPT ![r.on] = row]
  BY DEF CreateBounty
<1> HIDE DEF row
<1> QED
  BY <1>2, <1>3, <1>4, <1>5

\* The delete of a problem clears it in its bounties.
LEMMA DeleteKeepsBounties ==
    ASSUME NEW s \in Sessions, BoardInv, DeleteProblem(s)
    PROVE  /\ Live(bounties)' = Live(bounties)
           /\ \A b \in Live(bounties) :
                /\ bounties'[b].status = bounties[b].status
                /\ bounties'[b].claimant = bounties[b].claimant
                /\ bounties'[b].poster = bounties[b].poster
<1>1. /\ bounties \in Rows(BountyIds, Bounty)
      /\ \A b \in Live(bounties) : b \in BountyIds /\ bounties[b] \in Bounty
  BY BountyRows
<1>2. DOMAIN bounties' = BountyIds
  BY DEF DeleteProblem
<1>3. ASSUME NEW b \in BountyIds \ Live(bounties) PROVE bounties'[b] = Absent
  BY <1>1, <1>3 DEF DeleteProblem, Live, Rows
<1>4. ASSUME NEW b \in Live(bounties)
      PROVE  /\ bounties'[b] \in Bounty
             /\ bounties'[b].status = bounties[b].status
             /\ bounties'[b].claimant = bounties[b].claimant
             /\ bounties'[b].poster = bounties[b].poster
  <2>1. \/ bounties'[b] = bounties[b]
        \/ bounties'[b] = [bounties[b] EXCEPT !.problem = Nobody]
    BY <1>1, <1>4 DEF DeleteProblem
  <2> QED
    BY <1>1, <2>1 DEF Bounty
<1> QED
  BY <1>1, <1>2, <1>3, <1>4, NoAbsentRow DEF Rows, Live

LEMMA BountyStep ==
    ASSUME NEW s \in Sessions, BoardInv, Asks(s) \/ Works(s)
    PROVE  BountyInv'
<1>1. BountyInv /\ DOMAIN doing = Sessions /\ \A b \in Live(bounties) : b \in BountyIds
  BY BountyRows
<1> DEFINE asked == Steps \cup {"create_bounty"}
<1>2. ASSUME Dropped(asked), UNCHANGED bounties \/ DeleteProblem(s)
      PROVE  BountyInv'
  <2>1. Dropped({"create_bounty"}) /\ Dropped(Steps)
    BY <1>2 DEF Dropped
  <2>2. CASE UNCHANGED bounties
    BY <2>1, <2>2, BountyFrame DEF Live
  <2>3. CASE DeleteProblem(s)
    BY <2>1, <2>3, BountyFrame, DeleteKeepsBounties
  <2> QED
    BY <1>2, <2>2, <2>3
<1>3. CASE Asks(s)
  <2>1. Begins(s, AnyOps) /\ UNCHANGED bounties
    BY <1>3, AsksBegin DEF Begins, tables
  <2>2. CASE AskCreateBounty(s)
    BY <2>1, <2>2, AskNewBounty
  <2>3. CASE AskBounty(s)
    BY <2>1, <2>3, AskBountyLocks
  <2>4. CASE ~AskCreateBounty(s) /\ ~AskBounty(s)
    <3>1. doing'[s].op \notin asked
      <4>1. CASE AskProblems(s) \/ AskSolutions(s)
        <5>1. doing'[s].op \in ProblemOps \/ doing'[s].op \in SolutionOps
          BY <4>1, ProblemsAsk, SolutionsAsk DEF Begins
        <5> QED
          BY <5>1 DEF ProblemOps, SolutionOps, Steps
      <4>2. CASE AskSpaces(s)
        BY <1>1, <2>4, <4>2, SpacesAskWhat DEF AskSpaces, Steps
      <4> QED
        BY <1>3, <4>1, <4>2 DEF Asks
    <3> HIDE DEF asked
    <3> QED
      BY <1>2, <2>1, <3>1, BeginsDrops
  <2> QED
    BY <2>2, <2>3, <2>4
<1>4. CASE Works(s)
  <2>1. Dropped(asked)
    BY <1>1, <1>4, WorksEnd, EndDrops
  <2>2. CASE CreateBounty(s)
    <3>1. PICK b \in BountyIds, row \in Bounty :
            /\ b = doing[s].on /\ bounties' = [bounties EXCEPT ![b] = row]
            /\ row.status = "open" /\ row.claimant = Nobody
      BY <2>2, BountyPosted
    <3>2. Doing(s, "create_bounty") /\ doing'[s] = Idle /\ Ends(s)
      BY <2>2, BountyPosted
    <3>3. doing[s] # Idle /\ doing[s].on = b
      BY <3>1, <3>2 DEF Doing
    <3> QED
      BY <3>1, <3>2, <3>3, PutBounty
  <2>3. CASE TakeBounty(s) \/ ReleaseBounty(s) \/ AwardBounty(s) \/ WithdrawBounty(s)
    <3>1. PICK b \in BountyIds, row \in Bounty :
            /\ b = doing[s].on /\ bounties' = [bounties EXCEPT ![b] = row]
            /\ row.status = "open" => row.claimant = Nobody
      BY <1>1, <2>3, BountyWrites
    <3>2. doing[s] # Idle /\ doing[s].op \in Steps /\ doing'[s] = Idle /\ Ends(s)
      BY <2>3, BountyWrites
    <3> QED
      BY <3>1, <3>2, PutBounty
  <2>4. CASE ~(CreateBounty(s) \/ TakeBounty(s) \/ ReleaseBounty(s) \/ AwardBounty(s)
               \/ WithdrawBounty(s))
    <3>1. UNCHANGED bounties \/ DeleteProblem(s)
      <4>1. CASE DoSpaces(s)
        BY <2>4, <4>1 DEF DoSpaces, CreatePost, Vote, StoreFile, InsertAttachment, UnlinkFile,
           DeleteAttachment, RenameTag, DeleteTag, MergeTags, DropTag, CreateCategory,
           UpdateCategory, Reorder, DeleteCategory, PutCategory
      <4>2. CASE DoProblems(s)
        BY <4>2 DEF DoProblems, elsewhere, SetWatch, RemoveWatch, CreateProblem, PinProblem,
           Transition, ClaimProblem, UnclaimProblem, Upstar, UpdateProblem, Suggest,
           AcceptSuggestion, RejectSuggestion
      <4>3. CASE DoSolutions(s) \/ Abandon(s)
        BY <4>3, SolutionsEnd, AbandonEnds DEF tables
      <4> QED
        BY <1>4, <4>1, <4>2, <4>3 DEF Works
    <3> QED
      BY <1>2, <2>1, <3>1
  <2> QED
    BY <2>2, <2>3, <2>4
<1> QED
  BY <1>3, <1>4

-----------------------------------------------------------------------------
(* The invariant holds.                                                    *)

LEMMA InitBoardInv ==
    ASSUME BoardInit
    PROVE  BoardInv
<1>1. BoardTypeOK
  <2>1. categories \in Rows(CategoryIds, Category)
    <3>1. PICK first \in CategoryIds :
            categories = [c \in CategoryIds |->
              IF c = first THEN [name |-> first, order |-> 0, deleted |-> FALSE] ELSE Absent]
      BY DEF BoardInit
    <3>2. [name |-> first, order |-> 0, deleted |-> FALSE] \in Category
      BY BoardAssumption DEF Category
    <3> QED
      BY <3>1, <3>2 DEF Rows
  <2> QED
    BY <2>1 DEF BoardInit, BoardTypeOK, Rows
<1>2. \A s \in Sessions : doing[s] = Idle
  BY DEF BoardInit
<1>3. /\ Live(suggestions) = {} /\ Live(solutions) = {} /\ Live(comments) = {}
      /\ Live(posts) = {} /\ Live(bounties) = {}
  BY DEF BoardInit, Live
<1>4. RequestsOK /\ SuggestionsHang
  BY <1>2, <1>3 DEF RequestsOK, SuggestionsHang, BoardInit
<1>5. VersionInv
  <2>1. \A x : Numbers(x) = {}
    BY DEF BoardInit, Numbers
  <2> QED
    BY <1>2, <1>3, <2>1 DEF VersionInv, NewIn, Doing
<1>6. CommentInv
  BY <1>2, <1>3 DEF CommentInv, NewIn, NoCircle, Doing
<1>7. VoteInv
  <2>1. \A p : Voters(p) = {}
    BY DEF BoardInit, Voters
  <2> QED
    BY <1>2, <1>3, <2>1 DEF VoteInv, NewIn, Doing
<1>8. BountyInv
  BY <1>2, <1>3 DEF BountyInv, NewIn, Doing
<1> QED
  BY <1>1, <1>4, <1>5, <1>6, <1>7, <1>8 DEF BoardInv

LEMMA StepBoardInv ==
    ASSUME BoardInv, [Next]_boardVars
    PROVE  BoardInv'
<1>1. CASE Next
  <2>1. PICK s \in Sessions : Asks(s) \/ Works(s)
    BY <1>1, NextIs
  <2>2. BoardTypeOK' /\ RequestsOK' /\ SuggestionsHang'
    BY <2>1, AsksBegin, BeginsKeep, WorksKeep
  <2>3. VersionInv' /\ CommentInv' /\ VoteInv' /\ BountyInv'
    BY <2>1, VersionStep, CommentStep, VoteStep, BountyStep
  <2> QED
    BY <2>2, <2>3 DEF BoardInv
<1>2. CASE UNCHANGED boardVars
  <2>1. UNCHANGED tables /\ UNCHANGED doing
    BY <1>2 DEF boardVars, tables
  <2> DEFINE none == {"create_solution", "create_version", "create_comment", "create_post",
                      "toggle_vote", "create_bounty"} \cup Steps
  <2>2. DOMAIN doing = Sessions
    BY DEF BoardInv, RequestsOK
  <2>3. ASSUME NEW ops PROVE Dropped(ops)
    BY <2>1, <2>2 DEF Dropped
  <2>4. BoardTypeOK' /\ RequestsOK' /\ SuggestionsHang'
    BY <2>1 DEF BoardInv, tables, problemTables, solutionTables, postTables, fileTables,
       labelTables, BoardTypeOK, RequestsOK, Stands, SuggestionsHang, Live
  <2>5. UNCHANGED <<solutions, versions, comments, posts, votes, bounties>>
    BY <2>1 DEF tables, solutionTables, postTables
  <2>6. VersionInv'
    BY <2>3, <2>5, VersionFrame DEF BoardInv
  <2>7. CommentInv'
    BY <2>3, <2>5, CommentFrame, CommentRows DEF Live, CommentInv
  <2>8. VoteInv'
    BY <2>3, <2>5, VoteFrame
  <2>9. BountyInv'
    BY <2>3, <2>5, BountyFrame DEF Live
  <2> QED
    BY <2>4, <2>6, <2>7, <2>8, <2>9 DEF BoardInv
<1> QED
  BY <1>1, <1>2

\* What the board keeps true between any two steps: its rows are of their types,
\* a request's reading is what its write may rest on, solutions have their newest
\* number, comments hang together, votes are counted, and the locks on posts and
\* bounties keep others away.
THEOREM BoardAlways == Spec => []BoardInv
<1>1. BoardInv /\ [Next]_boardVars => BoardInv'
  BY StepBoardInv
<1>2. BoardInit => BoardInv
  BY InitBoardInv
<1> QED
  BY <1>1, <1>2, PTL DEF Spec

\* Every write of a route or a service leaves rows that the columns admit.
THEOREM BoardTypes == Spec => []BoardTypeOK
<1>1. BoardInv => BoardTypeOK
  BY DEF BoardInv
<1> QED
  BY <1>1, BoardAlways, PTL

\* create_version reads the highest number without a lock; the unique constraint
\* on (solution_id, version_number) makes all but one of those who read the same
\* number fail, so a solution shows its newest version and misses no number.
THEOREM NewestShown == Spec => []CurrentIsLatest
<1>1. ASSUME BoardInv PROVE CurrentIsLatest
  <2>1. SUFFICES ASSUME NEW x \in Live(solutions)
                 PROVE  ShownVersion(x) = Latest(x) /\ Numbers(x) = 1..Latest(x)
    BY DEF CurrentIsLatest
  <2>2. Latest(x) = solutions[x].current /\ Numbers(x) = 1..solutions[x].current
    BY <1>1, LatestIsCurrent DEF BoardInv, VersionInv
  <2> QED
    BY <2>2 DEF ShownVersion
<1> QED
  BY <1>1, BoardAlways, PTL

\* toggle_share_upvote locks the post before it reads the votes, so the number it
\* writes is that of the votes, and a viewer's own vote is in what he is shown.
THEOREM VotesAreCounted == Spec => []VotesCounted
<1>1. ASSUME BoardInv PROVE VotesCounted
  <2>1. SUFFICES ASSUME NEW p \in Live(posts), NEW a \in Actors
                 PROVE  /\ Shown(p, a).upvotes = Cardinality(Voters(p))
                        /\ Shown(p, a).voted => Shown(p, a).upvotes > 0
    BY DEF VotesCounted
  <2>2. posts[p].upvotes = Cardinality(Voters(p))
    BY <1>1 DEF BoardInv, VoteInv
  <2>3. Shown(p, a).upvotes = posts[p].upvotes
    BY DEF Shown
  <2>4. Shown(p, a).voted => <<a, p>> \in votes
    BY Zenon DEF Shown
  <2>5. <<a, p>> \in votes => Cardinality(Voters(p)) > 0
    <3>1. SUFFICES ASSUME <<a, p>> \in votes PROVE Cardinality(Voters(p)) > 0
      OBVIOUS
    <3>2. Voters(p) # {} /\ IsFiniteSet(Voters(p)) /\ Cardinality(Voters(p)) \in Nat
      BY <3>1, VotersFinite DEF Voters
    <3> QED
      BY <3>2, FS_EmptySet
  <2> QED
    BY <2>2, <2>3, <2>4, <2>5
<1> QED
  BY <1>1, BoardAlways, PTL

\* Comments are replied to, buried and removed by routes that do not wait for one
\* another; still every comment of a list is reached from its roots, and a parent
\* that is named is there.
THEOREM ThreadsStayWhole == Spec => []ThreadsWhole
<1>1. ASSUME BoardInv PROVE ThreadsWhole
  <2>1. \A c \in Live(comments) : comments[c].parent \in Live(comments) \cup {Nobody}
    BY <1>1 DEF BoardInv, CommentInv
  <2>2. ASSUME NEW p \in ProblemIds, NEW x \in SolutionIds \cup {Nobody},
               NEW T \in SUBSET Thread(p, x),
               Roots(p, x) \subseteq T, \A c \in T : Under(p, x, c) \subseteq T
        PROVE  T = Thread(p, x)
    <3> DEFINE S == Thread(p, x) \ T
    <3>1. S \in SUBSET Live(comments)
      BY DEF Thread
    <3>2. ASSUME NEW c \in S PROVE comments[c].parent \in S
      <4>1. comments[c].parent \in Thread(p, x)
        BY <2>2 DEF Roots
      <4>2. c \in Under(p, x, comments[c].parent)
        BY DEF Under, Replies, Thread
      <4> QED
        BY <2>2, <4>1, <4>2
    <3>3. S = {}
      <4> HIDE DEF S
      <4> QED
        BY <1>1, <3>1, <3>2 DEF BoardInv, CommentInv, NoCircle
    <3> QED
      BY <3>3
  <2> QED
    BY <2>1, <2>2 DEF ThreadsWhole
<1> QED
  BY <1>1, BoardAlways, PTL

\* Nothing that the life of a bounty shows has moved.
LEMMA LivesStay ==
    ASSUME BoardInv, Live(bounties)' = Live(bounties), DOMAIN bounties' = BountyIds,
           \A b \in Live(bounties) :
             /\ bounties'[b].status = bounties[b].status
             /\ bounties'[b].claimant = bounties[b].claimant
    PROVE  UNCHANGED Lives
<1>1. bounties \in Rows(BountyIds, Bounty)
  BY BountyRows
<1>2. ASSUME NEW b \in BountyIds PROVE LifeOf(bounties'[b]) = LifeOf(bounties[b])
  BY <1>1 DEF Rows, Live, LifeOf
<1> QED
  BY <1>2 DEF Lives

LEMMA LivesPut ==
    ASSUME BoardInv, NEW b \in BountyIds, NEW row \in Bounty,
           bounties' = [bounties EXCEPT ![b] = row]
    PROVE  Lives' = [Lives EXCEPT ![b] = [state |-> row.status, holder |-> row.claimant]]
<1>1. bounties \in Rows(BountyIds, Bounty) /\ row # Absent
  BY BountyRows, NoAbsentRow
<1>2. bounties'[b] = row /\ \A c \in BountyIds : c # b => bounties'[c] = bounties[c]
  BY <1>1 DEF Rows
<1>3. LifeOf(bounties'[b]) = [state |-> row.status, holder |-> row.claimant]
  BY <1>1, <1>2 DEF LifeOf
<1> DEFINE new == [state |-> row.status, holder |-> row.claimant]
<1>4. LifeOf(bounties'[b]) = new
  BY <1>3
<1> HIDE DEF new
<1>5. Lives' = [Lives EXCEPT ![b] = new]
  <2>1. ASSUME NEW c \in BountyIds
        PROVE  LifeOf(bounties'[c]) = IF c = b THEN new ELSE LifeOf(bounties[c])
    <3>1. CASE c = b
      BY <1>4, <3>1
    <3>2. CASE c # b
      BY <1>2, <3>2
    <3> QED
      BY <3>1, <3>2
  <2> QED
    BY <2>1 DEF Lives
<1> QED
  BY <1>5 DEF new

LEMMA BountyLifeStep ==
    ASSUME BoardInv, Next
    PROVE  Life!Next \/ UNCHANGED Lives
<1>1. PICK s \in Sessions : Asks(s) \/ Works(s)
  BY NextIs
<1>2. /\ BountyInv /\ bounties \in Rows(BountyIds, Bounty)
      /\ \A b \in Live(bounties) : b \in BountyIds /\ bounties[b] \in Bounty
  BY BountyRows
<1>3. CASE UNCHANGED bounties
  BY <1>3 DEF Lives
<1>4. CASE DeleteProblem(s)
  <2>1. DOMAIN bounties' = BountyIds
    BY <1>4 DEF DeleteProblem
  <2> QED
    BY <1>4, <2>1, DeleteKeepsBounties, LivesStay
<1>5. CASE CreateBounty(s)
  <2>1. PICK b \in BountyIds \ Live(bounties), row \in Bounty :
          /\ bounties' = [bounties EXCEPT ![b] = row]
          /\ row.status = "open" /\ row.claimant = Nobody
    BY <1>5, BountyPosted
  <2>2. Lives[b].state = "unposted"
    BY <1>2, <2>1 DEF Rows, Live, Lives, LifeOf
  <2>3. Lives' = [Lives EXCEPT ![b] = [state |-> "open", holder |-> Nobody]]
    BY <2>1, LivesPut
  <2>4. Life!Post(b)
    BY <2>2, <2>3 DEF Life!Post, Life!Becomes
  <2> QED
    BY <2>4 DEF Life!Next
<1>6. CASE TakeBounty(s) \/ ReleaseBounty(s) \/ AwardBounty(s) \/ WithdrawBounty(s)
  <2>1. PICK b \in Live(bounties), row \in Bounty :
          /\ bounties' = [bounties EXCEPT ![b] = row]
          /\ LET was == bounties[b] IN
             \/ was.status = "open" /\ row.status = "claimed" /\ row.claimant \in Actors
             \/ was.status = "claimed" /\ row.status = "open" /\ row.claimant = Nobody
             \/ /\ was.status = "claimed" /\ row.status = "awarded"
                /\ row.claimant = was.claimant
             \/ /\ was.status = "open" /\ was.claimant = Nobody
                /\ row.status = "withdrawn" /\ row.claimant = Nobody
    BY <1>6, BountyWrites
  <2> DEFINE was == bounties[b]
  <2>2. /\ b \in BountyIds
        /\ Lives[b].state = was.status /\ Lives[b].holder = was.claimant
    BY <1>2, NoAbsentRow DEF Live, Lives, LifeOf
  <2>3. Lives' = [Lives EXCEPT ![b] = [state |-> row.status, holder |-> row.claimant]]
    BY <2>1, <2>2, LivesPut
  <2>4. CASE was.status = "open" /\ row.status = "claimed" /\ row.claimant \in Actors
    BY <2>2, <2>3, <2>4 DEF Life!Next, Life!Claim, Life!Becomes
  <2>5. CASE was.status = "claimed" /\ row.status = "open" /\ row.claimant = Nobody
    BY <2>2, <2>3, <2>5 DEF Life!Next, Life!Unclaim, Life!Becomes
  <2>6. CASE /\ was.status = "claimed" /\ row.status = "awarded"
             /\ row.claimant = was.claimant
    BY <2>2, <2>3, <2>6 DEF Life!Next, Life!Award, Life!Becomes
  <2>7. CASE was.status = "open" /\ row.status = "withdrawn" /\ row.claimant = Nobody
    BY <2>2, <2>3, <2>7 DEF Life!Next, Life!Withdraw, Life!Becomes
  <2> QED
    BY <2>1, <2>4, <2>5, <2>6, <2>7
<1>7. \/ UNCHANGED bounties \/ DeleteProblem(s) \/ CreateBounty(s)
      \/ TakeBounty(s) \/ ReleaseBounty(s) \/ AwardBounty(s) \/ WithdrawBounty(s)
  <2>1. CASE Asks(s)
    BY <2>1, AsksBegin DEF Begins, tables
  <2>2. CASE DoSpaces(s)
    BY <2>2 DEF DoSpaces, CreatePost, Vote, StoreFile, InsertAttachment, UnlinkFile,
       DeleteAttachment, RenameTag, DeleteTag, MergeTags, DropTag, CreateCategory,
       UpdateCategory, Reorder, DeleteCategory, PutCategory
  <2>3. CASE DoProblems(s)
    BY <2>3 DEF DoProblems, elsewhere, SetWatch, RemoveWatch, CreateProblem, PinProblem,
       Transition, ClaimProblem, UnclaimProblem, Upstar, UpdateProblem, Suggest,
       AcceptSuggestion, RejectSuggestion
  <2>4. CASE DoSolutions(s) \/ Abandon(s)
    BY <2>4, SolutionsEnd, AbandonEnds DEF tables
  <2> QED
    BY <1>1, <2>1, <2>2, <2>3, <2>4 DEF Works
<1> QED
  BY <1>3, <1>4, <1>5, <1>6, <1>7

\* Claim, unclaim, award and withdraw lock the bounty and check the row they have
\* locked, so whatever requests there are, a bounty is claimed by one at a time,
\* awarded to the one who holds it, and settled for good.
THEOREM BountiesImplementLife == Spec => BountySpec
<1>1. BoardInit => Life!Init
  BY DEF BoardInit, Life!Init, Life!Unposted, Lives, LifeOf
<1>2. BoardInv /\ [Next]_boardVars => [Life!Next]_Lives
  <2>1. CASE UNCHANGED boardVars
    BY <2>1 DEF boardVars, Lives
  <2> QED
    BY <2>1, BountyLifeStep
<1> QED
  BY <1>1, <1>2, BoardAlways, PTL DEF Spec, BountySpec, Life!Spec
================================================================================
