------------------------------- MODULE Workspace -------------------------------
(***************************************************************************)
(* The ticketing workspace: sessions that serve requests on projects,      *)
(* sprints and tickets, on accounts and sign-in, over the same tables.     *)
(***************************************************************************)
EXTENDS Planning, Identity

Next ==
    \/ \E s \in Sessions :
        \/ AskPlanning(s) \/ DoPlanning(s)
        \/ AskIdentity(s) \/ DoIdentity(s)
        \/ Abandon(s)
    \/ TimePasses

Spec == WorkspaceInit /\ [][Next]_workspaceVars

-----------------------------------------------------------------------------
(* Properties.                                                             *)

\* A live project has its sequence and the sequence is never behind the numbers
\* of the project's tickets, through deletes of projects and new projects under
\* an old key: no two tickets get one number, nor a ticket a number that was
\* given before (nextval, CREATE and DROP SEQUENCE around the rows).
NumbersAhead ==
    /\ \A p \in Live(projects) : sequences[projects[p].key] # Absent
    /\ \A t \in Live(tickets) :
        /\ tickets[t].project \in Live(projects)
        /\ tickets[t].number <= sequences[projects[tickets[t].project].key]
        /\ \A s \in Sessions : \* in the hands of a request
             (Numbered(s) /\ doing[s].project = tickets[t].project)
                 => doing[s].number # tickets[t].number

\* A number from the sequence of a project that its tickets do not have is not
\* refused: "(project_id, seq_number) UNIQUE (replaces global seq_number
\* unique)".
FreshNumberFits ==
    \A s \in Sessions : \A t \in Live(tickets) :
        (/\ Numbered(s) /\ doing[s].project \in Live(projects)
         /\ tickets[t].project # doing[s].project)
            => tickets[t].number # doing[s].number

\* "At most one active sprint per project", whichever sprints are started at
\* the same time, closed or deleted in between.
OneActiveSprint == \A p \in ProjectIds : Cardinality(ActiveIn(p)) <= 1

\* A link and its inverse are both there or both gone, also when the two ends
\* are linked from both sides at once or one of them is deleted.
LinksPaired ==
    \A l \in links :
        InverseOf(l[2]) # Nobody => <<l[3], InverseOf(l[2]), l[1]>> \in links

\* An address has one account and a handle one user, whichever ways of sign-in
\* and renames meet, and all verifications of a link sign in that account.
OneAccount ==
    /\ \A u, v \in Live(users) :
        (users[u].email = users[v].email \/ users[u].handle = users[v].handle) => u = v
    /\ \A t \in Live(tokens) :
        /\ Cardinality(signIns[t]) <= 1
        /\ \A u \in signIns[t] : users[u].email = tokens[t].email

\* A text tells nobody twice: who is asked for a review by @@ is not also
\* mentioned by @, whatever handles the text uses for him and whoever takes
\* a handle over while the text is stored.
NamedOnce ==
    \A c \in CommentIds, p \in People :
        ~({<<p, c, "human_review">>, <<p, c, "ticket_mention">>} \subseteq notices)
=============================================================================
