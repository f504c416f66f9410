--------------------------------- MODULE Board ---------------------------------
(***************************************************************************)
(* The bulletin board: sessions that serve requests on problems, their     *)
(* solutions and comments, share posts, bounties, files, tags, categories. *)
(***************************************************************************)
EXTENDS BoardSolutions, BoardSpaces

Next ==
    \E s \in Sessions :
        \/ AskProblems(s) \/ DoProblems(s)
        \/ AskSolutions(s) \/ DoSolutions(s)
        \/ AskSpaces(s) \/ DoSpaces(s)
        \/ Abandon(s)

Spec == BoardInit /\ [][Next]_boardVars

-----------------------------------------------------------------------------
(* Properties.                                                             *)

\* What page a solution shows is its newest version, and its versions are
\* numbered without a gap, whoever adds versions at the same time
\* (create_version reads the highest number without a lock).
CurrentIsLatest ==
    \A x \in Live(solutions) :
        /\ ShownVersion(x) = Latest(x)
        /\ Numbers(x) = 1..Latest(x)

\* The number a share post keeps in its row is the number of its votes, so the
\* list shows no viewer a count that misses his own vote, however the toggles
\* of several voters interleave (the row is locked before the votes are read).
VotesCounted ==
    \A p \in Live(posts) : \A a \in Actors :
        /\ Shown(p, a).upvotes = Cardinality(Voters(p))
        /\ Shown(p, a).voted => Shown(p, a).upvotes > 0

\* Every comment of a list hangs below one of its roots, so that the route that
\* has just written a comment finds it in the tree, after any deletes,
\* tombstones and cascades; and no parent is missing.
ThreadsWhole ==
    /\ \A c \in Live(comments) : comments[c].parent \in Live(comments) \cup {Nobody}
    /\ \A p \in ProblemIds, x \in SolutionIds \cup {Nobody} :
        \A T \in SUBSET Thread(p, x) :
            (Roots(p, x) \subseteq T /\ \A c \in T : Under(p, x, c) \subseteq T)
                => T = Thread(p, x)

\* What a row shows of the life of its bounty.
LifeOf(row) ==
    IF row = Absent THEN [state |-> "unposted", holder |-> Nobody]
    ELSE [state |-> row.status, holder |-> row.claimant]

Lives == [b \in BountyIds |-> LifeOf(bounties[b])]

Life == INSTANCE BountyLife WITH Bounties <- BountyIds, Holders <- Actors, life <- Lives

\* The bounties implement the life of a bounty: claimed by one at a time,
\* awarded to the one who holds it, settled for good (the FOR UPDATE lock of
\* each step).
BountySpec == Life!Spec

=============================================================================
