----------------------------- MODULE BoardSpaces -----------------------------
(* Share posts, bounties, attachments and their files, tags and categories. *)
EXTENDS BoardTables

rest == <<menu, solutionTables, comments, claims, upstars, watches, history, suggestions, told>>

-----------------------------------------------------------------------------
(* Share posts keep the number of their votes in the row.                  *)

Voters(p) == {a \in Actors : <<a, p>> \in votes}

AskCreatePost(s) ==
    \E p \in PostIds, a \in Actors :
        /\ Fresh(posts, p)
        /\ Ask(s, [op |-> "create_post", user |-> a, on |-> p])

CreatePost(s) == LET r == doing[s] IN
    /\ Doing(s, "create_post")
    /\ posts' = [posts EXCEPT ![r.on] = [author |-> r.user, upvotes |-> 0]]
    /\ End(s)
    /\ UNCHANGED <<rest, problems, votes, bounties, fileTables, labelTables>>

\* The request of a voter: the row is locked, then the vote and the other
\* votes are read.
AskVote(s) ==
    \E p \in Live(posts), a \in Actors :
        Ask(s, [op |-> "toggle_vote", user |-> a, on |-> p, had |-> <<a, p>> \in votes,
                others |-> Cardinality(Voters(p) \ {a})])

Count(r) == r.others + (IF r.had THEN 0 ELSE 1)

Vote(s) == LET r == doing[s] IN
    /\ Doing(s, "toggle_vote")
    /\ r.had \/ <<r.user, r.on>> \notin votes
    /\ votes' = IF r.had THEN votes \ {<<r.user, r.on>>} ELSE votes \cup {<<r.user, r.on>>}
    /\ posts' = [posts EXCEPT ![r.on].upvotes = Count(r)]
    /\ End(s)
    /\ UNCHANGED <<rest, problems, bounties, fileTables, labelTables>>

\* What a list of posts shows a viewer.
Shown(p, viewer) == [upvotes |-> posts[p].upvotes, voted |-> <<viewer, p>> \in votes]

-----------------------------------------------------------------------------
(* Bounties.  Each request works on the row as it was when it locked it.   *)

AskCreateBounty(s) ==
    \E b \in BountyIds, u \in Users, p \in ProblemIds \cup {Nobody} :
        /\ Fresh(bounties, b)
        /\ Ask(s, [op |-> "create_bounty", user |-> u, on |-> b, problem |-> p])

CreateBounty(s) == LET r == doing[s] IN
    /\ Doing(s, "create_bounty")
    /\ r.problem # Nobody => r.problem \in Live(problems) /\ Unlocked(s, r.problem)
    /\ bounties' = [bounties EXCEPT ![r.on] =
         [poster |-> r.user, status |-> "open", claimant |-> Nobody, problem |-> r.problem]]
    /\ End(s)
    /\ UNCHANGED <<rest, problems, postTables, fileTables, labelTables>>

\* Who may take which step of the row that was read.
MayTake(op, a, b) ==
    CASE op = "claim"    -> bounties[b].status = "open"
      [] op = "unclaim"  -> bounties[b].status = "claimed" /\ bounties[b].claimant = a
      [] op = "award"    -> bounties[b].status = "claimed" /\ bounties[b].poster = a
      [] op = "withdraw" -> bounties[b].status = "open" /\ bounties[b].poster = a

AskBounty(s) ==
    \E b \in Live(bounties), a \in Actors, op \in {"claim", "unclaim", "award", "withdraw"} :
        /\ MayTake(op, a, b)
        /\ Ask(s, [op |-> op, user |-> a, on |-> b])

WriteBounty(s, row) ==
    /\ bounties' = [bounties EXCEPT ![doing[s].on] = row]
    /\ End(s)
    /\ UNCHANGED <<rest, problems, postTables, fileTables, labelTables>>

TakeBounty(s) == LET b == bounties[doing[s].on] IN
    /\ Doing(s, "claim")
    /\ WriteBounty(s, [b EXCEPT !.status = "claimed", !.claimant = doing[s].user])

ReleaseBounty(s) == LET b == bounties[doing[s].on] IN
    /\ Doing(s, "unclaim")
    /\ WriteBounty(s, [b EXCEPT !.status = "open", !.claimant = Nobody])

\* The action's name for the status.
AwardMisspelt(s) == LET b == bounties[doing[s].on] IN
    /\ Doing(s, "award")
    /\ WriteBounty(s, [b EXCEPT !.status = "award"])

AwardBounty(s) == LET b == bounties[doing[s].on] IN
    /\ Doing(s, "award")
    /\ WriteBounty(s, [b EXCEPT !.status = "awarded"])

WithdrawBounty(s) == LET b == bounties[doing[s].on] IN
    /\ Doing(s, "withdraw")
    /\ WriteBounty(s, [b EXCEPT !.status = "withdrawn"])

-----------------------------------------------------------------------------
(* Attachments: a row and a file, which no transaction ties together.      *)

FilesOf(p) == {f \in Live(attachments) : attachments[f].problem = p}

\* The problem need not exist: attachments have no foreign key.
AskUpload(s) ==
    \E f \in FileIds, p \in ProblemIds, u \in Users :
        /\ Fresh(attachments, f) /\ f \notin disk
        /\ Cardinality(FilesOf(p)) + 1 <= MaxTotal
        /\ Ask(s, [op |-> "create_attachment", user |-> u, on |-> f, problem |-> p])

StoreFile(s) == LET r == doing[s] IN
    /\ Doing(s, "create_attachment") /\ r.on \notin disk
    /\ disk' = disk \cup {r.on}
    /\ UNCHANGED <<rest, doing, problems, postTables, bounties, attachments, labelTables>>

InsertAttachment(s) == LET r == doing[s] IN
    /\ Doing(s, "create_attachment") /\ r.on \in disk
    /\ attachments' = [attachments EXCEPT ![r.on] =
                         [problem |-> r.problem, uploader |-> r.user]]
    /\ End(s)
    /\ UNCHANGED <<rest, problems, postTables, bounties, disk, labelTables>>

AskDeleteAttachment(s) ==
    \E f \in Live(attachments), u \in Users :
        /\ u = attachments[f].uploader \/ IsAdmin(u)
        /\ Ask(s, [op |-> "delete_attachment", user |-> u, on |-> f])

\* The file goes after the flush of the DELETE, before the commit; an error of
\* the unlink is only logged.
UnlinkFile(s) == LET r == doing[s] IN
    /\ Doing(s, "delete_attachment") /\ r.on \in disk
    /\ disk' = disk \ {r.on}
    /\ UNCHANGED <<rest, doing, problems, postTables, bounties, attachments, labelTables>>

DeleteAttachment(s) == LET r == doing[s] IN
    /\ Doing(s, "delete_attachment")
    /\ attachments' = [attachments EXCEPT ![r.on] = Absent]
    /\ End(s)
    /\ UNCHANGED <<rest, problems, postTables, bounties, disk, labelTables>>

-----------------------------------------------------------------------------
(* Tags.                                                                   *)

TaggedWith(t) == {p \in ProblemIds : <<p, t>> \in tagged}

AskRenameTag(s) ==
    \E t \in Live(tags), u \in Admins, name \in TagIds :
        /\ \A o \in Live(tags) \ {t} : tags[o] # name
        /\ Ask(s, [op |-> "rename_tag", user |-> u, on |-> t, name |-> name])

\* Tag.name is unique.
RenameTag(s) == LET r == doing[s] IN
    /\ Doing(s, "rename_tag")
    /\ r.on \in Live(tags)
    /\ \A o \in Live(tags) \ {r.on} : tags[o] # r.name
    /\ tags' = [tags EXCEPT ![r.on] = r.name]
    /\ End(s)
    /\ UNCHANGED <<rest, problems, postTables, bounties, fileTables, categories, tagged>>

AskDeleteTag(s) ==
    \E t \in Live(tags), u \in Admins : Ask(s, [op |-> "delete_tag", user |-> u, on |-> t])

DropTag(t) ==
    /\ tags' = [tags EXCEPT ![t] = Absent]
    /\ UNCHANGED <<rest, problems, postTables, bounties, fileTables, categories>>

DeleteTag(s) == LET r == doing[s] IN
    /\ Doing(s, "delete_tag")
    /\ tagged' = {x \in tagged : x[2] # r.on}
    /\ DropTag(r.on)
    /\ End(s)

AskMergeTags(s) ==
    \E t, target \in Live(tags), u \in Admins :
        /\ t # target
        /\ Ask(s, [op |-> "merge_tags", user |-> u, on |-> t, target |-> target,
                   problems |-> TaggedWith(t)])

\* The problems that were read get the target; a problem tagged since then
\* loses the source tag by the cascade and gets nothing.
MergeTags(s) == LET r == doing[s] IN
    /\ Doing(s, "merge_tags")
    /\ r.target \in Live(tags) /\ r.problems \subseteq Live(problems)
    /\ tagged' = {x \in tagged : x[2] # r.on} \cup (r.problems \X {r.target})
    /\ DropTag(r.on)
    /\ End(s)

-----------------------------------------------------------------------------
(* Categories.                                                             *)

InUse(c) == \E p \in Live(problems) : problems[p].category = c

Listed == {c \in Live(categories) : ~categories[c].deleted}

\* The largest sort_order of the categories that are not deleted, plus one;
\* the first category gets 0.
NextOrder ==
    IF Listed = {} THEN 0
    ELSE 1 + CHOOSE n \in 0..MaxNumber :
                /\ \E c \in Listed : categories[c].order = n
                /\ \A c \in Listed : categories[c].order <= n

\* Names and slugs are unique, those of deleted categories included.
NameFree(c, name) == \A o \in Live(categories) \ {c} : categories[o].name # name

AskCreateCategory(s) ==
    \E c, name \in CategoryIds, u \in Admins :
        /\ Fresh(categories, c)
        /\ NextOrder <= MaxNumber
        /\ Ask(s, [op |-> "create_category", user |-> u, on |-> c, name |-> name,
                   order |-> NextOrder])

PutCategory(c, row) ==
    /\ categories' = [categories EXCEPT ![c] = row]
    /\ UNCHANGED <<rest, problems, postTables, bounties, fileTables, tags, tagged>>

CreateCategory(s) == LET r == doing[s] IN
    /\ Doing(s, "create_category")
    /\ NameFree(r.on, r.name)
    /\ PutCategory(r.on, [name |-> r.name, order |-> r.order, deleted |-> FALSE])
    /\ End(s)

AskUpdateCategory(s) ==
    \E c \in Listed, name \in CategoryIds, u \in Admins :
        Ask(s, [op |-> "update_category", user |-> u, on |-> c, name |-> name])

UpdateCategory(s) == LET r == doing[s] IN
    /\ Doing(s, "update_category")
    /\ NameFree(r.on, r.name)
    /\ PutCategory(r.on, [categories[r.on] EXCEPT !.name = r.name])
    /\ End(s)

\* One row after another in one transaction; a deleted category may be named.
AskReorder(s) ==
    \E order \in [Live(categories) -> 0..MaxNumber], u \in Admins :
        Ask(s, [op |-> "reorder_categories", user |-> u, on |-> Nobody, order |-> order])

Reorder(s) == LET r == doing[s] IN
    /\ Doing(s, "reorder_categories")
    /\ categories' = [c \in CategoryIds |->
            IF c \in DOMAIN r.order THEN [categories[c] EXCEPT !.order = r.order[c]]
            ELSE categories[c]]
    /\ End(s)
    /\ UNCHANGED <<rest, problems, postTables, bounties, fileTables, tags, tagged>>

AskDeleteCategory(s) ==
    \E c \in Listed, u \in Admins :
        /\ ~InUse(c)
        /\ Ask(s, [op |-> "soft_delete_category", user |-> u, on |-> c])

\* Whatever problems have been filed under it since then.
DeleteCategory(s) == LET r == doing[s] IN
    /\ Doing(s, "soft_delete_category")
    /\ PutCategory(r.on, [categories[r.on] EXCEPT !.deleted = TRUE])
    /\ End(s)

-----------------------------------------------------------------------------
AskSpaces(s) ==
    /\ \/ AskCreatePost(s) \/ AskVote(s) \/ AskCreateBounty(s) \/ AskBounty(s)
       \/ AskUpload(s) \/ AskDeleteAttachment(s)
       \/ AskRenameTag(s) \/ AskDeleteTag(s) \/ AskMergeTags(s)
       \/ AskCreateCategory(s) \/ AskUpdateCategory(s) \/ AskReorder(s) \/ AskDeleteCategory(s)
    /\ UNCHANGED <<rest, problems, postTables, bounties, fileTables, labelTables>>

DoSpaces(s) ==
    \/ CreatePost(s) \/ Vote(s)
    \/ CreateBounty(s) \/ TakeBounty(s) \/ ReleaseBounty(s) \/ AwardBounty(s) \/ WithdrawBounty(s)
    \/ StoreFile(s) \/ InsertAttachment(s) \/ UnlinkFile(s) \/ DeleteAttachment(s)
    \/ RenameTag(s) \/ DeleteTag(s) \/ MergeTags(s)
    \/ CreateCategory(s) \/ UpdateCategory(s) \/ Reorder(s) \/ DeleteCategory(s)
=============================================================================
