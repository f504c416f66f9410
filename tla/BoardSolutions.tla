---------------------------- MODULE BoardSolutions ----------------------------
(* Solutions, their versions, statuses and upvotes, and comment threads.   *)
EXTENDS BoardProblems

kept == <<menu, problems, claims, upstars, history, suggestions, postTables, bounties,
          fileTables, labelTables>>

SolutionTransitions ==
    [pending |-> {"under_review", "verified", "accepted", "rejected"},
     under_review |-> {"pending", "verified", "accepted", "rejected"},
     verified |-> {"pending", "under_review", "accepted", "rejected"},
     accepted |-> {"pending", "under_review", "verified", "rejected"},
     rejected |-> {"pending", "under_review"}]

Numbers(x) == {v[2] : v \in {w \in versions : w[1] = x}}

\* coalesce(max(version_number), 0)
Latest(x) == CHOOSE n \in 0..MaxVersion :
                /\ n \in Numbers(x) \cup {0}
                /\ \A k \in Numbers(x) : k <= n

\* What the page of a solution shows: the version the row points to.
ShownVersion(x) ==
    IF solutions[x].current \in Numbers(x) THEN solutions[x].current ELSE Latest(x)

-----------------------------------------------------------------------------
AskCreateSolution(s) ==
    \E x \in SolutionIds, p \in Live(problems), u \in Users :
        /\ Fresh(solutions, x)
        /\ problems[p].status \notin {"accepted", "duplicate"}
        /\ Ask(s, [op |-> "create_solution", user |-> u, on |-> x, problem |-> p,
                   watch |-> watches[<<u, p>>]])

CreateSolution(s) == LET r == doing[s] IN
    /\ Doing(s, "create_solution")
    /\ r.problem \in Live(problems) /\ Unlocked(s, r.problem)
    /\ solutions' = [solutions EXCEPT ![r.on] =
         [problem |-> r.problem, author |-> r.user, status |-> "pending", current |-> 1]]
    /\ versions' = versions \cup {<<r.on, 1>>}
    /\ AutoWatch(r.user, r.problem, r.watch)
    /\ Tell("solution_posted", r.problem, r.user)
    /\ End(s)
    /\ UNCHANGED <<kept, upvotes, comments>>

\* Any user may add a version to any solution.
AskCreateVersion(s) ==
    \E x \in Live(solutions), u \in Users :
        /\ Latest(x) < MaxVersion
        /\ Ask(s, [op |-> "create_version", user |-> u, on |-> x, number |-> Latest(x) + 1])

\* Without the constraint.
TwiceANumber(x, n) == TRUE

\* (solution_id, version_number) is unique
NumberFree(x, n) == n \notin Numbers(x)

CreateVersion(s) == LET r == doing[s] IN
    /\ Doing(s, "create_version")
    /\ r.on \in Live(solutions) /\ Unlocked(s, r.on)
    /\ NumberFree(r.on, r.number)
    /\ versions' = versions \cup {<<r.on, r.number>>}
    /\ solutions' = [solutions EXCEPT ![r.on].current = r.number]
    /\ End(s)
    /\ UNCHANGED <<kept, upvotes, comments, watches, told>>

\* Accepting looks for the solutions of the problem that are accepted now.  The
\* accept route tells of an acceptance, the status route of a status.
AskSolutionStatus(s) ==
    \E x \in Live(solutions), u \in Users, to \in SolutionStatuses,
       tell \in {"status_changed", "solution_accepted"} :
        /\ OwnerOrAdmin(u, solutions[x].problem)
        /\ to \in SolutionTransitions[solutions[x].status]
        /\ tell = "solution_accepted" => to = "accepted"
        /\ Ask(s, [op |-> "update_solution_status", user |-> u, on |-> x, to |-> to, tell |-> tell,
                   accepted |-> {y \in Live(solutions) :
                                    /\ to = "accepted" /\ solutions[y].status = "accepted"
                                    /\ solutions[y].problem = solutions[x].problem}])

SolutionStatus(s) == LET r == doing[s] IN
    /\ Doing(s, "update_solution_status")
    /\ \A y \in r.accepted \cup {r.on} : Unlocked(s, y)
    /\ Unlocked(s, solutions[r.on].problem)
    /\ solutions' = [y \in SolutionIds |->
         IF y = r.on THEN [solutions[y] EXCEPT !.status = r.to]
         ELSE IF y \in r.accepted THEN [solutions[y] EXCEPT !.status = "pending"]
         ELSE solutions[y]]
    /\ Tell(r.tell, solutions[r.on].problem, r.user)
    /\ End(s)
    /\ UNCHANGED <<kept, versions, upvotes, comments, watches>>

AskUpvote(s) ==
    \E x \in Live(solutions), u \in Users :
        Ask(s, [op |-> "toggle_upvote", user |-> u, on |-> x, had |-> <<u, x>> \in upvotes])

Upvote(s) == LET r == doing[s] IN
    /\ Doing(s, "toggle_upvote")
    /\ r.had \/ <<r.user, r.on>> \notin upvotes
    /\ upvotes' = IF r.had THEN upvotes \ {<<r.user, r.on>>}
                  ELSE upvotes \cup {<<r.user, r.on>>}
    /\ End(s)
    /\ UNCHANGED <<kept, solutions, versions, comments, watches, told>>

AskDeleteSolution(s) ==
    \E x \in Live(solutions), u \in Users :
        /\ u = solutions[x].author \/ IsAdmin(u)
        /\ Ask(s, [op |-> "delete_solution", user |-> u, on |-> x])

\* The flush clears solution_id in its versions, which may not be null, so the
\* statement fails, as every solution has a version.
DeleteSolutionFails(s) ==
    /\ Doing(s, "delete_solution")
    /\ Numbers(doing[s].on) # {}
    /\ End(s)
    /\ UNCHANGED <<kept, solutionTables, comments, watches, told>>

-----------------------------------------------------------------------------
(* Comments.                                                               *)

Replies(c) == {d \in Live(comments) : comments[d].parent = c}

\* ON DELETE CASCADE on parent_comment_id: S and everything below it.
Cascade(S) ==
    {d \in Live(comments) :
        \A T \in SUBSET Live(comments) :
            S \subseteq T /\ (\A c \in T : Replies(c) \subseteq T) => d \in T}

\* The comments of one list, and how the list is nested.
Thread(p, x) == {c \in Live(comments) : comments[c].problem = p /\ comments[c].solution = x}
\* Without a look whether the parent is in the list.
RootsWithoutParent(p, x) == {c \in Thread(p, x) : comments[c].parent = Nobody}

Roots(p, x) == {c \in Thread(p, x) : comments[c].parent \notin Thread(p, x)}
Under(p, x, c) == Replies(c) \cap Thread(p, x)

\* A reply on a solution has its parent there; a reply on the problem need not.
ParentFits(p, x, c) ==
    \/ c = Nobody
    \/ /\ c \in Live(comments)
       /\ comments[c].problem = p
       /\ x # Nobody => comments[c].solution = x

AskCreateComment(s) ==
    \E c \in CommentIds, p \in Live(problems), x \in Live(solutions) \cup {Nobody},
       d \in CommentIds \cup {Nobody}, u \in Users :
        /\ Fresh(comments, c)
        /\ x # Nobody => solutions[x].problem = p
        /\ ParentFits(p, x, d)
        /\ Ask(s, [op |-> "create_comment", user |-> u, on |-> c, problem |-> p,
                   solution |-> x, parent |-> d, watch |-> watches[<<u, p>>]])

CreateComment(s) == LET r == doing[s] IN
    /\ Doing(s, "create_comment")
    /\ r.problem \in Live(problems) /\ Unlocked(s, r.problem)
    /\ r.solution # Nobody => Unlocked(s, r.solution)
    /\ r.parent # Nobody => r.parent \in Live(comments)
    /\ comments' = [comments EXCEPT ![r.on] =
         [problem |-> r.problem, solution |-> r.solution, parent |-> r.parent,
          author |-> r.user, deleted |-> FALSE]]
    /\ AutoWatch(r.user, r.problem, r.watch)
    /\ Tell("comment_posted", r.problem, r.user)
    /\ End(s)
    /\ UNCHANGED <<kept, solutionTables>>

\* The author may write a deleted comment again.
AskEditComment(s) ==
    \E c \in Live(comments) :
        Ask(s, [op |-> "edit_comment", user |-> comments[c].author, on |-> c])

EditComment(s) == LET r == doing[s] IN
    /\ Doing(s, "edit_comment")
    /\ r.on \in Live(comments)
    /\ comments' = [comments EXCEPT ![r.on].deleted = FALSE]
    /\ End(s)
    /\ UNCHANGED <<kept, solutionTables, watches, told>>

AskDeleteComment(s) ==
    \E c \in Live(comments), u \in Users :
        /\ u = comments[c].author \/ IsAdmin(u)
        /\ Ask(s, [op |-> "delete_comment", user |-> u, on |-> c, replies |-> Replies(c) # {}])

\* With replies: a tombstone.
Bury(s) == LET r == doing[s] IN
    /\ Doing(s, "delete_comment") /\ r.replies
    /\ r.on \in Live(comments)
    /\ comments' = [comments EXCEPT ![r.on].deleted = TRUE]
    /\ End(s)
    /\ UNCHANGED <<kept, solutionTables, watches, told>>

\* Without: the row goes.  Replies written since then are made roots when the
\* flush still sees them, and go with the row when it does not.
Remove(s) == LET r == doing[s] IN
    /\ Doing(s, "delete_comment") /\ ~r.replies
    /\ r.on \in Live(comments)
    /\ \E unseen \in SUBSET Replies(r.on) :
        LET gone == Cascade(unseen) \cup {r.on} IN
        comments' = [c \in CommentIds |->
            IF c \in gone THEN Absent
            ELSE IF c \in Replies(r.on) THEN [comments[c] EXCEPT !.parent = Nobody]
            ELSE comments[c]]
    /\ End(s)
    /\ UNCHANGED <<kept, solutionTables, watches, told>>

-----------------------------------------------------------------------------
AskSolutions(s) ==
    /\ \/ AskCreateSolution(s) \/ AskCreateVersion(s) \/ AskSolutionStatus(s)
       \/ AskUpvote(s) \/ AskDeleteSolution(s)
       \/ AskCreateComment(s) \/ AskEditComment(s) \/ AskDeleteComment(s)
    /\ UNCHANGED <<kept, solutionTables, comments, watches, told>>

DoSolutions(s) ==
    \/ CreateSolution(s) \/ CreateVersion(s) \/ SolutionStatus(s)
    \/ Upvote(s) \/ DeleteSolutionFails(s)
    \/ CreateComment(s) \/ EditComment(s) \/ Bury(s) \/ Remove(s)
=============================================================================
