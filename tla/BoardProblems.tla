----------------------------- MODULE BoardProblems -----------------------------
(* Problems, their claims, upstars, watches, edits and edit suggestions.   *)
EXTENDS BoardTables

elsewhere == <<menu, solutionTables, comments, postTables, bounties, fileTables>>

\* Who may make which move.
AllowedTransitions(u, p) ==
    LET any == {<<"open", "claimed">>, <<"claimed", "open">>, <<"claimed", "solved">>}
        byAuthor == {<<"solved", "accepted">>, <<"solved", "open">>}
        byAdmin == {<<"open", "duplicate">>, <<"duplicate", "open">>, <<"accepted", "open">>}
    IN  any \cup (IF u = problems[p].author \/ IsAdmin(u) THEN byAuthor ELSE {})
            \cup (IF IsAdmin(u) THEN byAdmin ELSE {})

OwnerOrAdmin(u, p) == u = problems[p].author \/ IsAdmin(u)

NextNumber ==
    1 + CHOOSE n \in 0..MaxNumber :
            /\ n = 0 \/ \E p \in Live(problems) : problems[p].number = n
            /\ \A p \in Live(problems) : problems[p].number <= n

Pinned == {p \in Live(problems) : problems[p].pinned}

-----------------------------------------------------------------------------
(* Watches and notifications, inside other requests.                       *)

Priority == [none |-> 0, status_only |-> 1, solutions_only |-> 2, all_activity |-> 3]

WatchRouting ==
    [none |-> {}, status_only |-> {"status_changed"},
     solutions_only |-> {"solution_posted", "solution_accepted"},
     all_activity |-> NotificationTypes]

\* The level auto_watch finds, and what it then writes.
AutoWatch(u, p, found) ==
    watches' = IF found # Absent /\ Priority[found] >= Priority["all_activity"]
               THEN watches
               ELSE [watches EXCEPT ![<<u, p>>] = "all_activity"]

Tell(type, p, actor) ==
    told' = {u \in Users \ {actor} : /\ watches[<<u, p>>] # Absent
                                    /\ type \in WatchRouting[watches[<<u, p>>]]} \X {type}

AskSetWatch(s) ==
    \E u \in Users, p \in ProblemIds, l \in Levels :
        Ask(s, [op |-> "set_watch", user |-> u, on |-> p, level |-> l])

\* INSERT ... ON CONFLICT DO UPDATE
SetWatch(s) == LET r == doing[s] IN
    /\ Doing(s, "set_watch")
    /\ r.on \in Live(problems) /\ Unlocked(s, r.on)
    /\ watches' = [watches EXCEPT ![<<r.user, r.on>>] = r.level]
    /\ End(s)
    /\ UNCHANGED <<elsewhere, problems, claims, upstars, history, suggestions, told, labelTables>>

AskRemoveWatch(s) ==
    \E u \in Users, p \in ProblemIds :
        Ask(s, [op |-> "remove_watch", user |-> u, on |-> p])

RemoveWatch(s) == LET r == doing[s] IN
    /\ Doing(s, "remove_watch")
    /\ watches[<<r.user, r.on>>] # Absent
    /\ watches' = [watches EXCEPT ![<<r.user, r.on>>] = Absent]
    /\ End(s)
    /\ UNCHANGED <<elsewhere, problems, claims, upstars, history, suggestions, told, labelTables>>

-----------------------------------------------------------------------------
(* Create, delete, pin, move, claim, upstar.                               *)

AskCreateProblem(s) ==
    \E u \in Users, p \in ProblemIds, c \in Live(categories),
       ts \in SUBSET (Live(tags) \cap menu.ids), text \in Texts \cap menu.ids :
        /\ Fresh(problems, p)
        /\ ~categories[c].deleted
        /\ NextNumber <= MaxNumber
        /\ Ask(s, [op |-> "create_problem", user |-> u, on |-> p, category |-> c,
                   tags |-> ts, text |-> text, number |-> NextNumber])

\* seq_number is unique; the tags are foreign keys; the author watches.
CreateProblem(s) == LET r == doing[s] IN
    /\ Doing(s, "create_problem")
    /\ \A p \in Live(problems) : problems[p].number # r.number
    /\ r.tags \subseteq Live(tags)
    /\ problems' = [problems EXCEPT ![r.on] =
         [author |-> r.user, number |-> r.number, status |-> "open", pinned |-> FALSE,
          text |-> r.text, category |-> r.category]]
    /\ tagged' = tagged \cup ({r.on} \X r.tags)
    /\ AutoWatch(r.user, r.on, Absent)
    /\ End(s)
    /\ UNCHANGED <<elsewhere, claims, upstars, history, suggestions, told, categories, tags>>

AskDeleteProblem(s) ==
    \E p \in Live(problems), u \in Users :
        /\ OwnerOrAdmin(u, p)
        /\ Ask(s, [op |-> "delete_problem", user |-> u, on |-> p])

\* The ORM clears problem_id in every row that a relationship of Problem
\* reaches, a column that may not be null, so one such row fails the request.
Reached(p) ==
    \/ \E u \in Users : <<u, p>> \in claims \cup upstars \/ watches[<<u, p>>] # Absent
    \/ \E t \in Texts : <<p, t>> \in history
    \/ \E g \in Live(suggestions) : suggestions[g].problem = p
    \/ \E x \in Live(solutions) : solutions[x].problem = p
    \/ \E c \in Live(comments) : comments[c].problem = p

DeleteProblem(s) == LET r == doing[s] IN
    /\ Doing(s, "delete_problem")
    /\ r.on \in Live(problems) /\ Unlocked(s, r.on) /\ ~Reached(r.on)
    /\ problems' = [problems EXCEPT ![r.on] = Absent]
    /\ tagged' = {x \in tagged : x[1] # r.on}
    /\ bounties' = [b \in BountyIds |->
                      IF bounties[b] # Absent /\ bounties[b].problem = r.on
                      THEN [bounties[b] EXCEPT !.problem = Nobody] ELSE bounties[b]]
    /\ End(s)
    /\ UNCHANGED <<menu, solutionTables, comments, postTables, fileTables,
                   claims, upstars, watches, history, suggestions, told, categories, tags>>

AskPinProblem(s) ==
    \E p \in Live(problems), u \in Admins :
        /\ ~problems[p].pinned => Cardinality(Pinned) < MaxPinned
        /\ Ask(s, [op |-> "pin_problem", user |-> u, on |-> p, pinned |-> ~problems[p].pinned])

PinProblem(s) == LET r == doing[s] IN
    /\ Doing(s, "pin_problem")
    /\ r.on \in Live(problems) /\ Unlocked(s, r.on)
    /\ problems' = [problems EXCEPT ![r.on].pinned = r.pinned]
    /\ Tell("problem_pinned", r.on, r.user)
    /\ End(s)
    /\ UNCHANGED <<elsewhere, claims, upstars, watches, history, suggestions, labelTables>>

AskTransition(s) ==
    \E p \in Live(problems), u \in Users, to \in ProblemStatuses :
        /\ <<problems[p].status, to>> \in AllowedTransitions(u, p)
        /\ Ask(s, [op |-> "transition_status", user |-> u, on |-> p, to |-> to])

\* The row is written whatever its status is by now.
Transition(s) == LET r == doing[s] IN
    /\ Doing(s, "transition_status")
    /\ r.on \in Live(problems) /\ Unlocked(s, r.on)
    /\ problems' = [problems EXCEPT ![r.on].status = r.to]
    /\ Tell("status_changed", r.on, r.user)
    /\ End(s)
    /\ UNCHANGED <<elsewhere, claims, upstars, watches, history, suggestions, labelTables>>

AskClaimProblem(s) ==
    \E p \in Live(problems), u \in Users :
        Ask(s, [op |-> "claim_problem", user |-> u, on |-> p,
                mine |-> <<u, p>> \in claims, status |-> problems[p].status,
                others |-> \E o \in Users \ {u} : <<o, p>> \in claims])

ClaimProblem(s) == LET r == doing[s] IN
    /\ Doing(s, "claim_problem") /\ ~r.mine
    /\ r.on \in Live(problems) /\ Unlocked(s, r.on)
    /\ <<r.user, r.on>> \notin claims
    /\ claims' = claims \cup {<<r.user, r.on>>}
    /\ problems' = IF r.status = "open" THEN [problems EXCEPT ![r.on].status = "claimed"]
                   ELSE problems
    /\ Tell("problem_claimed", r.on, r.user)
    /\ End(s)
    /\ UNCHANGED <<elsewhere, upstars, watches, history, suggestions, labelTables>>

UnclaimProblem(s) == LET r == doing[s] IN
    /\ Doing(s, "claim_problem") /\ r.mine
    /\ r.on \in Live(problems) /\ Unlocked(s, r.on)
    /\ claims' = claims \ {<<r.user, r.on>>}
    /\ problems' = IF ~r.others /\ r.status = "claimed"
                   THEN [problems EXCEPT ![r.on].status = "open"] ELSE problems
    /\ End(s)
    /\ UNCHANGED <<elsewhere, upstars, watches, history, suggestions, told, labelTables>>

AskUpstar(s) ==
    \E p \in Live(problems), u \in Users :
        Ask(s, [op |-> "toggle_upstar", user |-> u, on |-> p, had |-> <<u, p>> \in upstars])

Upstar(s) == LET r == doing[s] IN
    /\ Doing(s, "toggle_upstar")
    /\ r.had \/ <<r.user, r.on>> \notin upstars
    /\ upstars' = IF r.had THEN upstars \ {<<r.user, r.on>>}
                  ELSE upstars \cup {<<r.user, r.on>>}
    /\ End(s)
    /\ UNCHANGED <<elsewhere, problems, claims, watches, history, suggestions, told, labelTables>>

-----------------------------------------------------------------------------
(* Edits.                                                                  *)

AskUpdateProblem(s) ==
    \E p \in Live(problems), u \in Users, text \in Texts :
        /\ OwnerOrAdmin(u, p)
        /\ Ask(s, [op |-> "update_problem", user |-> u, on |-> p, text |-> text,
                   old |-> problems[p].text])

\* The snapshot is of the text that was read.
UpdateProblem(s) == LET r == doing[s] IN
    /\ Doing(s, "update_problem")
    /\ r.on \in Live(problems) /\ Unlocked(s, r.on)
    /\ history' = history \cup {<<r.on, r.old>>}
    /\ problems' = IF r.text = r.old THEN problems
                   ELSE [problems EXCEPT ![r.on].text = r.text]
    /\ End(s)
    /\ UNCHANGED <<elsewhere, claims, upstars, watches, suggestions, told, labelTables>>

AskSuggest(s) ==
    \E g \in SuggestionIds, p \in Live(problems), u \in Users, text \in Texts :
        /\ Fresh(suggestions, g)
        /\ Ask(s, [op |-> "create_edit_suggestion", user |-> u, on |-> g, problem |-> p,
                   text |-> text])

Suggest(s) == LET r == doing[s] IN
    /\ Doing(s, "create_edit_suggestion")
    /\ r.problem \in Live(problems) /\ Unlocked(s, r.problem)
    /\ suggestions' = [suggestions EXCEPT ![r.on] =
                         [problem |-> r.problem, text |-> r.text, status |-> "pending"]]
    /\ End(s)
    /\ UNCHANGED <<elsewhere, problems, claims, upstars, watches, history, told, labelTables>>

\* Any suggestion, decided or not, and no history of the text it replaces.
AskAcceptSuggestion(s) ==
    \E g \in Live(suggestions), u \in Users :
        /\ OwnerOrAdmin(u, suggestions[g].problem)
        /\ Ask(s, [op |-> "accept_edit_suggestion", user |-> u, on |-> g])

AcceptSuggestion(s) == LET r == doing[s] IN
    /\ Doing(s, "accept_edit_suggestion")
    /\ Unlocked(s, suggestions[r.on].problem)
    /\ problems' = [problems EXCEPT ![suggestions[r.on].problem].text = suggestions[r.on].text]
    /\ suggestions' = [suggestions EXCEPT ![r.on].status = "accepted"]
    /\ End(s)
    /\ UNCHANGED <<elsewhere, claims, upstars, watches, history, told, labelTables>>

AskRejectSuggestion(s) ==
    \E g \in Live(suggestions), u \in Users :
        /\ OwnerOrAdmin(u, suggestions[g].problem)
        /\ Ask(s, [op |-> "reject_edit_suggestion", user |-> u, on |-> g])

RejectSuggestion(s) == LET r == doing[s] IN
    /\ Doing(s, "reject_edit_suggestion")
    /\ suggestions' = [suggestions EXCEPT ![r.on].status = "rejected"]
    /\ End(s)
    /\ UNCHANGED <<elsewhere, problems, claims, upstars, watches, history, told, labelTables>>

-----------------------------------------------------------------------------
AskProblems(s) ==
    /\ \/ AskSetWatch(s) \/ AskRemoveWatch(s)
       \/ AskCreateProblem(s) \/ AskDeleteProblem(s) \/ AskPinProblem(s)
       \/ AskTransition(s) \/ AskClaimProblem(s) \/ AskUpstar(s)
       \/ AskUpdateProblem(s) \/ AskSuggest(s) \/ AskAcceptSuggestion(s) \/ AskRejectSuggestion(s)
    /\ UNCHANGED <<elsewhere, problemTables, labelTables>>

DoProblems(s) ==
    \/ SetWatch(s) \/ RemoveWatch(s)
    \/ CreateProblem(s) \/ DeleteProblem(s) \/ PinProblem(s)
    \/ Transition(s) \/ ClaimProblem(s) \/ UnclaimProblem(s) \/ Upstar(s)
    \/ UpdateProblem(s) \/ Suggest(s) \/ AcceptSuggestion(s) \/ RejectSuggestion(s)
=============================================================================
