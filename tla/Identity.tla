-------------------------------- MODULE Identity --------------------------------
(* Sign-in by magic link and by the directory, user accounts and their handles, *)
(* agent accounts, and the notices that @handles in a text give.                *)
EXTENDS WorkspaceTables

elsewhere == <<menu, projectTables, ticketTables>>

-----------------------------------------------------------------------------
(* Handles.                                                                *)

HandlesOf(table) == {table[i].handle : i \in Live(table)}

\* The trigger: the base if it is free, else the base with the first free
\* number.  Users and agents have handles of their own.
FillHandle(table, base) ==
    CHOOSE h \in {base} \X (1..MaxHandle) :
        /\ h \notin HandlesOf(table)
        /\ \A n \in 1..(h[2] - 1) : <<base, n>> \in HandlesOf(table)

HandleLeft(table, base) == \E n \in 1..MaxHandle : <<base, n>> \notin HandlesOf(table)

\* The account of an address, or of a directory identity.
ByEmail(e) == {u \in Live(users) : users[u].email = e}

\* users.email and users.handle are unique.
InsertUser(u, e, oid) ==
    /\ users[u] = Absent /\ ByEmail(e) = {} /\ HandleLeft(users, BaseOf[e])
    /\ users' = [users EXCEPT ![u] =
         [email |-> e, oid |-> oid, handle |-> FillHandle(users, BaseOf[e]),
          cooling |-> FALSE, role |-> "user", active |-> TRUE]]

-----------------------------------------------------------------------------
(* Sign-in.                                                                *)

AskSendLink(s) ==
    \E t \in TokenIds, e \in Emails :
        /\ Fresh(tokens, t)
        /\ \E u \in (IF ByEmail(e) = {} THEN {Nobody} ELSE ByEmail(e)) :
             Ask(s, [op |-> "send_magic_link", user |-> Nobody, on |-> t, email |-> e,
                     who |-> u])

\* Committed after the mail is out.
SendLink(s) == LET r == doing[s] IN
    /\ Doing(s, "send_magic_link")
    /\ tokens' = [tokens EXCEPT ![r.on] =
         [email |-> r.email, user |-> r.who, consumed |-> FALSE, expired |-> FALSE]]
    /\ End(s)
    /\ UNCHANGED <<elsewhere, users, signIns, agents, noticeTables>>

\* Fifteen minutes pass.
Expire(t) ==
    /\ "expire" \in menu.ops
    /\ t \in Live(tokens) /\ ~tokens[t].expired
    /\ tokens' = [tokens EXCEPT ![t].expired = TRUE]
    /\ UNCHANGED <<elsewhere, doing, users, signIns, agents, noticeTables>>

\* A link that is still good signs in the account that was known when it was
\* sent, else the account that has the address by now, else a new one.
AskVerify(s) ==
    \E t \in Live(tokens), u \in UserIds :
        /\ ~tokens[t].consumed /\ ~tokens[t].expired
        /\ LET known == IF tokens[t].user \in Live(users) THEN {tokens[t].user}
                        ELSE ByEmail(tokens[t].email)
           IN  IF known # {} THEN u \in known ELSE Fresh(users, u)
        /\ Ask(s, [op |-> "verify_magic_link", user |-> Nobody, on |-> t, who |-> u,
                   new |-> users[u] = Absent])

\* The insert of an address another request may have inserted.
VerifyTwice(s) == LET r == doing[s] IN
    /\ Doing(s, "verify_magic_link")
    /\ users' = IF r.new
                THEN [users EXCEPT ![r.who] =
                        [email |-> tokens[r.on].email, oid |-> FALSE,
                         handle |-> FillHandle(users, BaseOf[tokens[r.on].email]),
                         cooling |-> FALSE, role |-> "user", active |-> TRUE]]
                ELSE users
    /\ tokens' = [tokens EXCEPT ![r.on].consumed = TRUE, ![r.on].user = r.who]
    /\ signIns' = [signIns EXCEPT ![r.on] = @ \cup {r.who}]
    /\ End(s)
    /\ UNCHANGED <<elsewhere, agents, noticeTables>>

\* The link is looked up by its hash and the account by the address: an insert
\* that finds the address taken by now fails, and the link stays good.
Verify(s) == LET r == doing[s] IN
    /\ Doing(s, "verify_magic_link")
    /\ IF r.new THEN InsertUser(r.who, tokens[r.on].email, FALSE) ELSE UNCHANGED users
    /\ tokens' = [tokens EXCEPT ![r.on].consumed = TRUE,
                                ![r.on].user = IF @ = Nobody THEN r.who ELSE @]
    /\ signIns' = [signIns EXCEPT ![r.on] = @ \cup {r.who}]
    /\ End(s)
    /\ UNCHANGED <<elsewhere, agents, noticeTables>>

\* The directory's identity, else the address (which gets the identity), else
\* a new account.  An identity is written for its address.
AskCallback(s) ==
    \E e \in Emails, u \in UserIds :
        /\ IF ByEmail(e) # {} THEN u \in ByEmail(e) ELSE Fresh(users, u)
        /\ Ask(s, [op |-> "provision_user", user |-> Nobody, on |-> u, email |-> e,
                   new |-> users[u] = Absent])

Callback(s) == LET r == doing[s] IN
    /\ Doing(s, "provision_user")
    /\ IF r.new THEN InsertUser(r.on, r.email, TRUE)
       ELSE users' = [users EXCEPT ![r.on].oid = TRUE]
    /\ End(s)
    /\ UNCHANGED <<elsewhere, tokens, signIns, agents, noticeTables>>

-----------------------------------------------------------------------------
(* Accounts.                                                               *)

\* A user's own change waits for a day after the one before; an admin's does
\* not.  The same handle again is no change.
AskHandle(s) ==
    \E u \in Live(users), by \in CurrentUsers, h \in Handles :
        /\ (by = u /\ ~users[u].cooling) \/ IsAdmin(by)
        /\ h \notin HandlesOf(users)
        /\ Ask(s, [op |-> "update_handle", user |-> by, on |-> u, handle |-> h])

\* The unique index is what counts by now.
UpdateHandle(s) == LET r == doing[s] IN
    /\ Doing(s, "update_handle")
    /\ \A o \in Live(users) \ {r.on} : users[o].handle # r.handle
    /\ users' = [users EXCEPT ![r.on].handle = r.handle, ![r.on].cooling = TRUE]
    /\ End(s)
    /\ UNCHANGED <<elsewhere, tokens, signIns, agents, noticeTables>>

\* A day passes.
CoolDown(u) ==
    /\ "update_handle" \in menu.ops
    /\ u \in Live(users) /\ users[u].cooling
    /\ users' = [users EXCEPT ![u].cooling = FALSE]
    /\ UNCHANGED <<elsewhere, doing, tokens, signIns, agents, noticeTables>>

AskAccount(s) ==
    \E u \in Live(users), by \in CurrentUsers :
        /\ IsAdmin(by)
        /\ \/ \E role \in {"user", "admin"} :
                Ask(s, [op |-> "update_user_role", user |-> by, on |-> u, role |-> role])
           \/ \E active \in BOOLEAN :
                Ask(s, [op |-> "update_user_status", user |-> by, on |-> u, active |-> active])

UpdateRole(s) == LET r == doing[s] IN
    /\ Doing(s, "update_user_role")
    /\ users' = [users EXCEPT ![r.on].role = r.role]
    /\ End(s)
    /\ UNCHANGED <<elsewhere, tokens, signIns, agents, noticeTables>>

UpdateStatus(s) == LET r == doing[s] IN
    /\ Doing(s, "update_user_status")
    /\ users' = [users EXCEPT ![r.on].active = r.active]
    /\ End(s)
    /\ UNCHANGED <<elsewhere, tokens, signIns, agents, noticeTables>>

AskAgent(s) ==
    \E a \in AgentIds, by \in CurrentUsers :
        /\ IsAdmin(by)
        /\ \/ /\ Fresh(agents, a)
              /\ Ask(s, [op |-> "create_account", user |-> by, on |-> a])
           \/ /\ a \in Live(agents)
              /\ Ask(s, [op |-> "revoke", user |-> by, on |-> a])

\* An agent's handle comes from its name.
CreateAgent(s) == LET a == doing[s].on IN
    /\ Doing(s, "create_account") /\ HandleLeft(agents, BaseOf[a])
    /\ agents' = [agents EXCEPT ![a] =
                    [handle |-> FillHandle(agents, BaseOf[a]), active |-> TRUE]]
    /\ End(s)
    /\ UNCHANGED <<elsewhere, users, tokens, signIns, noticeTables>>

RevokeAgent(s) ==
    /\ Doing(s, "revoke")
    /\ agents' = [agents EXCEPT ![doing[s].on].active = FALSE]
    /\ End(s)
    /\ UNCHANGED <<elsewhere, users, tokens, signIns, noticeTables>>

-----------------------------------------------------------------------------
(* Mentions.                                                               *)

\* Who has handle h: a user, an agent or both.
Bearers(h) ==
    {u \in Live(users) : users[u].active /\ users[u].handle = h} \cup
    {a \in Live(agents) : agents[a].active /\ agents[a].handle = h}

\* What the handles in hs resolve to, when each names one of its bearers.
Resolutions(hs) ==
    LET named == {h \in hs : Bearers(h) # {}}
    IN  {{pick[h] : h \in named} :
            pick \in {f \in [named -> People] : \A h \in named : f[h] \in Bearers(h)}}

NewComment(c) ==
    Fresh([d \in CommentIds |-> IF \E n \in notices : n[2] = d THEN d ELSE Absent], c)

\* A comment names some handles, by @ or @@ alike, or its client gives the ids
\* of users.
AskAddComment(s) ==
    \E c \in CommentIds, a \in Callers, named \in SUBSET (HandlesOf(users) \cup HandlesOf(agents)) :
        /\ Cardinality(named) <= 2 /\ NewComment(c)
        /\ \E mentioned \in Resolutions(named) \cup {{u} : u \in Live(users)} :
             Ask(s, [op |-> "add_comment", user |-> a, on |-> c, mentioned |-> mentioned])

AddComment(s) == LET r == doing[s] IN
    /\ Doing(s, "add_comment")
    /\ notices' = notices \cup ((r.mentioned \ {r.user}) \X {r.on} \X {"ticket_mention"})
    /\ End(s)
    /\ UNCHANGED <<elsewhere, accountTables, runs>>

\* A text that a caller of emit_body_mentions has stored names some handles by
\* @@ (for a human review) and some by @.
AskMention(s) ==
    \E c \in CommentIds, a \in Callers, double, single \in SUBSET (HandlesOf(users) \cup HandlesOf(agents)) :
        /\ Cardinality(double) <= 1 /\ Cardinality(single) <= 1
        /\ NewComment(c)
        /\ \E reviewers \in Resolutions(double) :
             Ask(s, [op |-> "emit_body_mentions", user |-> a, on |-> c,
                     reviewers |-> reviewers, single |-> single])

\* A list of recipients each.
EmitBoth(s) == LET r == doing[s] IN
    /\ Doing(s, "emit_body_mentions")
    /\ \E mentioned \in Resolutions(r.single) :
        notices' = notices \cup ((r.reviewers \ {r.user}) \X {r.on} \X {"human_review"})
                           \cup ((mentioned \ {r.user}) \X {r.on} \X {"ticket_mention"})
    /\ End(s)
    /\ UNCHANGED <<elsewhere, accountTables, runs>>

\* The reviewers were resolved first: a handle that has changed hands since may
\* name another by now.  Nobody is told of a text of his own, and every agent
\* the comment mentions by @ gets a run, its own author included.
EmitMentions(s) == LET r == doing[s] IN
    /\ Doing(s, "emit_body_mentions")
    /\ \E mentioned \in Resolutions(r.single) :
        /\ notices' = notices \cup ((r.reviewers \ {r.user}) \X {r.on} \X {"human_review"})
                \cup ((mentioned \ (r.reviewers \cup {r.user})) \X {r.on} \X {"ticket_mention"})
        /\ runs' = runs \cup ((mentioned \cap AgentIds) \X {r.on})
    /\ End(s)
    /\ UNCHANGED <<elsewhere, accountTables>>

-----------------------------------------------------------------------------
AskIdentity(s) ==
    /\ \/ AskSendLink(s) \/ AskVerify(s) \/ AskCallback(s)
       \/ AskHandle(s) \/ AskAccount(s) \/ AskAgent(s)
       \/ AskAddComment(s) \/ AskMention(s)
    /\ UNCHANGED <<elsewhere, accountTables, noticeTables>>

DoIdentity(s) ==
    \/ SendLink(s) \/ Verify(s) \/ Callback(s)
    \/ UpdateHandle(s) \/ UpdateRole(s) \/ UpdateStatus(s)
    \/ CreateAgent(s) \/ RevokeAgent(s) \/ AddComment(s) \/ EmitMentions(s)

TimePasses == (\E t \in TokenIds : Expire(t)) \/ (\E u \in UserIds : CoolDown(u))
=============================================================================
