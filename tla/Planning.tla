-------------------------------- MODULE Planning --------------------------------
(* Projects and their members, components and lessons; sprints; tickets as far *)
(* as their numbers, sprints, links, watchers and attachments go.              *)
EXTENDS WorkspaceTables

outside == <<menu, accountTables, runs>>

-----------------------------------------------------------------------------
(* Projects.                                                               *)

KeyTaken(key) == \E p \in Live(projects) : projects[p].key = key

\* Admins, and the user who leads the project.
MayEdit(u, p) == IsAdmin(u) \/ (u \in CurrentUsers /\ projects[p].lead = u)

AskCreateProject(s) ==
    \E p \in ProjectIds, u \in CurrentUsers, key \in Keys, lead \in UserIds \cup {Nobody} :
        /\ IsAdmin(u) /\ Fresh(projects, p) /\ ~KeyTaken(key)
        /\ Ask(s, [op |-> "create_project", user |-> u, on |-> p, key |-> key, lead |-> lead])

\* CREATE SEQUENCE IF NOT EXISTS, in the same transaction.
CreateProject(s) == LET r == doing[s] IN
    /\ Doing(s, "create_project")
    /\ ~KeyTaken(r.key)
    /\ projects' = [projects EXCEPT ![r.on] =
                      [key |-> r.key, lead |-> r.lead, archived |-> FALSE, version |-> 1]]
    /\ sequences' = [sequences EXCEPT ![r.key] = IF @ = Absent THEN 0 ELSE @]
    /\ End(s)
    /\ UNCHANGED <<outside, members, components, lessons, ticketTables, notices>>

\* The version the caller expects is compared with the one read, never again.
AskUpdateProject(s) ==
    \E p \in Live(projects), u \in CurrentUsers, lead \in UserIds \cup {Nobody} :
        /\ MayEdit(u, p) /\ projects[p].version < MaxVersion
        /\ Ask(s, [op |-> "update_project", user |-> u, on |-> p,
                   row |-> [projects[p] EXCEPT !.lead = lead, !.version = @ + 1]])

AskArchiveProject(s) ==
    \E p \in Live(projects), a \in Callers, archived \in BOOLEAN :
        /\ projects[p].version < MaxVersion
        /\ Ask(s, [op |-> "archive_project", user |-> a, on |-> p,
                   row |-> [projects[p] EXCEPT !.archived = archived, !.version = @ + 1]])

\* Only the columns the request changed are written; the row must still be there.
UpdateProject(s) == LET r == doing[s] IN
    /\ Doing(s, "update_project") \/ Doing(s, "archive_project")
    /\ r.on \in Live(projects)
    /\ projects' = [projects EXCEPT ![r.on] =
            IF r.op = "update_project"
            THEN [@ EXCEPT !.lead = r.row.lead, !.version = r.row.version]
            ELSE [@ EXCEPT !.archived = r.row.archived, !.version = r.row.version]]
    /\ End(s)
    /\ UNCHANGED <<outside, sequences, members, components, lessons, ticketTables, notices>>

\* The request has a number of its project's sequence in hand.
Numbered(s) == Doing(s, "create_ticket") /\ doing[s].number # 0

TicketsOf(p) == {t \in Live(tickets) : tickets[t].project = p}

AskDeleteProject(s) ==
    \E p \in Live(projects), a \in Callers :
        /\ TicketsOf(p) = {}
        /\ Ask(s, [op |-> "delete_project", user |-> a, on |-> p])

\* The rows of table that do not belong to project p (ON DELETE CASCADE).
Outlive(table, p) ==
    [i \in DOMAIN table |-> IF table[i] # Absent /\ table[i].project = p THEN Absent ELSE table[i]]

\* ON DELETE RESTRICT for the tickets that were created since they were counted;
\* DROP SEQUENCE waits for the transactions that took a number.  The tickets of
\* other projects may be in a sprint or component of this one.
DeleteProject(s) == LET p == doing[s].on IN
    /\ Doing(s, "delete_project")
    /\ p \in Live(projects) /\ TicketsOf(p) = {}
    /\ \A o \in Sessions : Numbered(o) => doing[o].key # projects[p].key
    /\ projects' = [projects EXCEPT ![p] = Absent]
    /\ sequences' = [sequences EXCEPT ![projects[p].key] = Absent]
    /\ members' = [m \in DOMAIN members |-> IF m[1] = p THEN Absent ELSE members[m]]
    /\ components' = Outlive(components, p)
    /\ sprints' = Outlive(sprints, p)
    /\ lessons' = [l \in LessonIds |->
                     IF lessons[l] # Absent /\ lessons[l][1] = p THEN Absent ELSE lessons[l]]
    /\ tickets' = [t \in TicketIds |->
         IF tickets[t] = Absent THEN Absent
         ELSE [tickets[t] EXCEPT
                 !.sprint = IF @ \in Live(sprints) \ Live(sprints') THEN Nobody ELSE @,
                 !.component = IF @ \in Live(components) \ Live(components') THEN Nobody ELSE @]]
    /\ End(s)
    /\ UNCHANGED <<outside, links, watchers, files, disk, notices>>

-----------------------------------------------------------------------------
(* Members, components and lessons of a project.                           *)

AskMember(s) ==
    \E p \in Live(projects), a \in Callers, m \in People, role \in Roles :
        \/ Ask(s, [op |-> "add_member", user |-> a, on |-> m, project |-> p, role |-> role,
                   had |-> members[<<p, m>>] # Absent])
        \/ /\ a \in UserIds /\ MayEdit(a, p) /\ members[<<p, m>>] # Absent
           /\ \E op \in {"update_member_role", "remove_member"} :
                Ask(s, [op |-> op, user |-> a, on |-> m, project |-> p, role |-> role,
                        had |-> TRUE])

\* A member that was there when it was read is updated or deleted, and must
\* still be there; a new one must be the first (uq_project_members).
WriteMember(s) == LET r == doing[s] IN
    /\ Doing(s, "add_member") \/ Doing(s, "update_member_role") \/ Doing(s, "remove_member")
    /\ r.project \in Live(projects)
    /\ r.had <=> members[<<r.project, r.on>>] # Absent
    /\ members' = [members EXCEPT ![<<r.project, r.on>>] =
                     IF r.op = "remove_member" THEN Absent ELSE r.role]
    /\ End(s)
    /\ UNCHANGED <<outside, projects, sequences, components, lessons, ticketTables, notices>>

NameFree(p, c, name) ==
    \A o \in Live(components) \ {c} : components[o] # [project |-> p, name |-> name]

AskComponent(s) ==
    \E c \in ComponentIds, p \in Live(projects), a \in Callers, name \in Names :
        \/ /\ Fresh(components, c)
           /\ Ask(s, [op |-> "create_component", user |-> a, on |-> c, project |-> p,
                      name |-> name])
        \/ /\ c \in Live(components) /\ components[c].project = p
           /\ a \in UserIds /\ MayEdit(a, p)
           /\ \E op \in {"update_component", "delete_component"} :
                Ask(s, [op |-> op, user |-> a, on |-> c, project |-> p, name |-> name])

WriteComponent(s) == LET r == doing[s] IN
    /\ Doing(s, "create_component") \/ Doing(s, "update_component")
    /\ r.project \in Live(projects) /\ NameFree(r.project, r.on, r.name)
    /\ r.op = "update_component" => r.on \in Live(components)
    /\ components' = [components EXCEPT ![r.on] = [project |-> r.project, name |-> r.name]]
    /\ End(s)
    /\ UNCHANGED <<outside, projects, sequences, members, lessons, ticketTables, notices>>

\* ON DELETE SET NULL for the tickets that name it.
DeleteComponent(s) == LET c == doing[s].on IN
    /\ Doing(s, "delete_component") /\ c \in Live(components)
    /\ components' = [components EXCEPT ![c] = Absent]
    /\ tickets' = [t \in TicketIds |->
         IF t \in Live(tickets) /\ tickets[t].component = c
         THEN [tickets[t] EXCEPT !.component = Nobody] ELSE tickets[t]]
    /\ End(s)
    /\ UNCHANGED <<outside, projects, sequences, members, lessons, sprints, links, watchers,
                   files, disk, notices>>

\* Members and admins.
AskCreateLesson(s) ==
    \E l \in LessonIds, p \in Live(projects), u \in CurrentUsers :
        /\ IsAdmin(u) \/ members[<<p, u>>] # Absent
        /\ Fresh(lessons, l)
        /\ Ask(s, [op |-> "create_lesson", user |-> u, on |-> l, project |-> p])

CreateLesson(s) == LET r == doing[s] IN
    /\ Doing(s, "create_lesson") /\ r.project \in Live(projects)
    /\ lessons' = [lessons EXCEPT ![r.on] = <<r.project, r.user>>]
    /\ End(s)
    /\ UNCHANGED <<outside, projects, sequences, members, components, ticketTables, notices>>

-----------------------------------------------------------------------------
(* Sprints.                                                                *)

AskCreateSprint(s) ==
    \E x \in SprintIds, p \in Live(projects), a \in Callers :
        /\ Fresh(sprints, x)
        /\ Ask(s, [op |-> "create_sprint", user |-> a, on |-> x, project |-> p])

CreateSprint(s) == LET r == doing[s] IN
    /\ Doing(s, "create_sprint") /\ r.project \in Live(projects)
    /\ sprints' = [sprints EXCEPT ![r.on] = [project |-> r.project, state |-> "planned"]]
    /\ End(s)
    /\ UNCHANGED <<outside, projectTables, tickets, links, watchers, files, disk, notices>>

ActiveIn(p) == {x \in Live(sprints) : sprints[x].project = p /\ sprints[x].state = "active"}

\* The state the operation asks for, as its request reads it.
AskSprint(s) ==
    \E x \in Live(sprints), a \in Callers :
        \/ /\ sprints[x].state = "planned" /\ ActiveIn(sprints[x].project) = {}
           /\ Ask(s, [op |-> "start_sprint", user |-> a, on |-> x])
        \/ /\ sprints[x].state = "active"
           /\ Ask(s, [op |-> "close_sprint", user |-> a, on |-> x])
        \/ /\ sprints[x].state = "planned"
           /\ Ask(s, [op |-> "delete_sprint", user |-> a, on |-> x])

\* The check of the request alone.
StartUnindexed(s) == LET x == doing[s].on IN
    /\ Doing(s, "start_sprint") /\ x \in Live(sprints)
    /\ sprints' = [sprints EXCEPT ![x].state = "active"]
    /\ End(s)
    /\ UNCHANGED <<outside, projectTables, tickets, links, watchers, files, disk, notices>>

\* uq_sprints_active_per_project; the state it had may have changed.
StartSprint(s) == LET x == doing[s].on IN
    /\ Doing(s, "start_sprint") /\ x \in Live(sprints)
    /\ ActiveIn(sprints[x].project) \subseteq {x}
    /\ sprints' = [sprints EXCEPT ![x].state = "active"]
    /\ End(s)
    /\ UNCHANGED <<outside, projectTables, tickets, links, watchers, files, disk, notices>>

\* The tickets with sprint x, those that are done or cancelled aside, leave it.
BackToBacklog(x, all) ==
    [t \in TicketIds |->
        IF t \in Live(tickets) /\ tickets[t].sprint = x /\ (all \/ ~tickets[t].terminal)
        THEN [tickets[t] EXCEPT !.sprint = Nobody] ELSE tickets[t]]

CloseSprint(s) == LET x == doing[s].on IN
    /\ Doing(s, "close_sprint") /\ x \in Live(sprints)
    /\ tickets' = BackToBacklog(x, FALSE)
    /\ sprints' = [sprints EXCEPT ![x].state = "closed"]
    /\ End(s)
    /\ UNCHANGED <<outside, projectTables, links, watchers, files, disk, notices>>

\* ON DELETE SET NULL.
DeleteSprint(s) == LET x == doing[s].on IN
    /\ Doing(s, "delete_sprint") /\ x \in Live(sprints)
    /\ tickets' = BackToBacklog(x, TRUE)
    /\ sprints' = [sprints EXCEPT ![x] = Absent]
    /\ End(s)
    /\ UNCHANGED <<outside, projectTables, links, watchers, files, disk, notices>>

AskMoveTicket(s) ==
    \E x \in Live(sprints), t \in TicketIds, a \in Callers :
        \E op \in {"add_ticket", "remove_ticket"} :
            Ask(s, [op |-> op, user |-> a, on |-> t, sprint |-> x,
                    project |-> sprints[x].project])

\* One UPDATE of the ticket: in whatever state the sprint is, and without a
\* word when the ticket is of another project, in another sprint or gone.
MoveTicket(s) == LET r == doing[s] t == r.on IN
    /\ Doing(s, "add_ticket") \/ Doing(s, "remove_ticket")
    /\ r.op = "add_ticket" => r.sprint \in Live(sprints)
    /\ tickets' =
        IF /\ t \in Live(tickets)
           /\ IF r.op = "add_ticket" THEN tickets[t].project = r.project
                                     ELSE tickets[t].sprint = r.sprint
        THEN [tickets EXCEPT ![t].sprint = IF r.op = "add_ticket" THEN r.sprint ELSE Nobody]
        ELSE tickets
    /\ End(s)
    /\ UNCHANGED <<outside, projectTables, sprints, links, watchers, files, disk, notices>>

-----------------------------------------------------------------------------
(* Tickets.                                                                *)

AskCreateTicket(s) ==
    \E t \in TicketIds, p \in Live(projects), a \in Callers,
       x \in Live(sprints) \cup {Nobody}, c \in Live(components) \cup {Nobody} :
        /\ Fresh(tickets, t)
        /\ Ask(s, [op |-> "create_ticket", user |-> a, on |-> t, project |-> p,
                   key |-> projects[p].key, sprint |-> x, component |-> c, number |-> 0])

\* Read, but not taken.
PeekNumber(s) == LET r == doing[s] IN
    /\ Doing(s, "create_ticket") /\ r.number = 0
    /\ sequences[r.key] \in 0..(MaxSeq - 1)
    /\ doing' = [doing EXCEPT ![s].number = sequences[r.key] + 1]
    /\ UNCHANGED <<outside, projectTables, ticketTables, notices>>

\* nextval of the key's sequence, which no rollback gives back.
NextNumber(s) == LET r == doing[s] IN
    /\ Doing(s, "create_ticket") /\ r.number = 0
    /\ sequences[r.key] \in 0..(MaxSeq - 1)
    /\ doing' = [doing EXCEPT ![s].number = sequences[r.key] + 1]
    /\ sequences' = [sequences EXCEPT ![r.key] = @ + 1]
    /\ UNCHANGED <<outside, projects, members, components, lessons, ticketTables, notices>>

\* uq_tickets_seq_number is over the tickets of all projects; so is the unique
\* display id, which is made of the project's key and the number.
CreateTicket(s) == LET r == doing[s] IN
    /\ Numbered(s)
    /\ r.project \in Live(projects)
    /\ r.sprint \in Live(sprints) \cup {Nobody} /\ r.component \in Live(components) \cup {Nobody}
    /\ \A t \in Live(tickets) : tickets[t].number # r.number
    /\ tickets' = [tickets EXCEPT ![r.on] =
         [project |-> r.project, number |-> r.number, sprint |-> r.sprint,
          component |-> r.component, terminal |-> FALSE]]
    /\ End(s)
    /\ UNCHANGED <<outside, projectTables, sprints, links, watchers, files, disk, notices>>

\* What is known here of a transition: the ticket is in a terminal status or not.
AskTransition(s) ==
    \E t \in Live(tickets), a \in Callers :
        Ask(s, [op |-> "transition", user |-> a, on |-> t, terminal |-> ~tickets[t].terminal])

Transition(s) == LET r == doing[s] IN
    /\ Doing(s, "transition") /\ r.on \in Live(tickets)
    /\ tickets' = [tickets EXCEPT ![r.on].terminal = r.terminal]
    /\ End(s)
    /\ UNCHANGED <<outside, projectTables, sprints, links, watchers, files, disk, notices>>

AskDeleteTicket(s) ==
    \E t \in Live(tickets), a \in Callers :
        Ask(s, [op |-> "delete_ticket", user |-> a, on |-> t])

\* Its links in both directions, watchers and attachment rows go with it; the
\* stored files stay.
DeleteTicket(s) == LET t == doing[s].on IN
    /\ Doing(s, "delete_ticket") /\ t \in Live(tickets)
    /\ tickets' = [tickets EXCEPT ![t] = Absent]
    /\ links' = {l \in links : t \notin {l[1], l[3]}}
    /\ watchers' = {w \in watchers : w[2] # t}
    /\ files' = [f \in FileIds |-> IF files[f] = t THEN Absent ELSE files[f]]
    /\ End(s)
    /\ UNCHANGED <<outside, projectTables, sprints, disk, notices>>

-----------------------------------------------------------------------------
(* Links, watchers and attachments of tickets.                             *)

\* relates_to is its own inverse and keeps one row.
InverseOf(type) ==
    CASE type = "blocks" -> "is_blocked_by"     [] type = "is_blocked_by" -> "blocks"
      [] type = "duplicates" -> "is_duplicate_of" [] type = "is_duplicate_of" -> "duplicates"
      [] type = "clones" -> "is_cloned_by"      [] type = "is_cloned_by" -> "clones"
      [] OTHER -> Nobody

ASSUME PlanningAssumption == \A type \in LinkTypes : InverseOf(type) \in LinkTypes \cup {Nobody}

AskLink(s) ==
    \E t, o \in Live(tickets), a \in Callers, type \in LinkTypes :
        /\ t # o
        /\ Ask(s, [op |-> "link", user |-> a, on |-> t, to |-> o, type |-> type,
                   paired |-> <<o, InverseOf(type), t>> \in links])

\* As if every type had an inverse.
LinkRowsAlways(r) ==
    {<<r.on, r.type, r.to>>} \cup
    (IF r.paired THEN {} ELSE {<<r.to, InverseOf(r.type), r.on>>})

\* The row asked for, and its inverse unless one was there; uq_ticket_links
\* refuses either.
LinkRows(r) ==
    {<<r.on, r.type, r.to>>} \cup
    (IF InverseOf(r.type) = Nobody \/ r.paired THEN {} ELSE {<<r.to, InverseOf(r.type), r.on>>})

\* One row, whichever type.
LinkOneWay(s) == LET r == doing[s] IN
    /\ Doing(s, "link") /\ {r.on, r.to} \subseteq Live(tickets)
    /\ links \cap LinkRows(r) = {}
    /\ links' = links \cup {<<r.on, r.type, r.to>>}
    /\ End(s)
    /\ UNCHANGED <<outside, projectTables, sprints, tickets, watchers, files, disk, notices>>

Link(s) == LET r == doing[s] IN
    /\ Doing(s, "link") /\ {r.on, r.to} \subseteq Live(tickets)
    /\ links \cap LinkRows(r) = {}
    /\ links' = links \cup LinkRows(r)
    /\ End(s)
    /\ UNCHANGED <<outside, projectTables, sprints, tickets, watchers, files, disk, notices>>

AskWatcher(s) ==
    \E t \in Live(tickets), w \in People, a \in Callers :
        \E op \in {"add_watcher", "remove_watcher"} :
            /\ (op = "remove_watcher") <=> (<<w, t>> \in watchers)
            /\ Ask(s, [op |-> op, user |-> a, on |-> t, who |-> w])

\* A watcher another one added is told; uq_ticket_watchers.
AddWatcher(s) == LET r == doing[s] IN
    /\ Doing(s, "add_watcher")
    /\ r.on \in Live(tickets) /\ <<r.who, r.on>> \notin watchers
    /\ watchers' = watchers \cup {<<r.who, r.on>>}
    /\ notices' = IF r.who = r.user THEN notices
                  ELSE notices \cup {<<r.who, r.on, "ticket_watcher_added">>}
    /\ End(s)
    /\ UNCHANGED <<outside, projectTables, sprints, tickets, links, files, disk>>

RemoveWatcher(s) == LET r == doing[s] IN
    /\ Doing(s, "remove_watcher") /\ <<r.who, r.on>> \in watchers
    /\ watchers' = watchers \ {<<r.who, r.on>>}
    /\ End(s)
    /\ UNCHANGED <<outside, projectTables, sprints, tickets, links, files, disk, notices>>

AskAttach(s) ==
    \E f \in FileIds, t \in Live(tickets), a \in Callers :
        \/ /\ Fresh(files, f) /\ f \notin disk
           /\ Ask(s, [op |-> "upload_attachment", user |-> a, on |-> f, ticket |-> t])
        \/ /\ files[f] = t
           /\ Ask(s, [op |-> "delete_ticket_attachment", user |-> a, on |-> f, ticket |-> t])

\* The bytes are written first; the row may never follow.
StoreBytes(s) == LET r == doing[s] IN
    /\ Doing(s, "upload_attachment") /\ r.on \notin disk
    /\ disk' = disk \cup {r.on}
    /\ UNCHANGED <<outside, doing, projectTables, sprints, tickets, links, watchers, files, notices>>

AddAttachment(s) == LET r == doing[s] IN
    /\ Doing(s, "upload_attachment") /\ r.on \in disk /\ r.ticket \in Live(tickets)
    /\ files' = [files EXCEPT ![r.on] = r.ticket]
    /\ End(s)
    /\ UNCHANGED <<outside, projectTables, sprints, tickets, links, watchers, disk, notices>>

DeleteAttachment(s) == LET r == doing[s] IN
    /\ Doing(s, "delete_ticket_attachment") /\ files[r.on] = r.ticket
    /\ files' = [files EXCEPT ![r.on] = Absent]
    /\ End(s)
    /\ UNCHANGED <<outside, projectTables, sprints, tickets, links, watchers, disk, notices>>

-----------------------------------------------------------------------------
AskPlanning(s) ==
    /\ \/ AskCreateProject(s) \/ AskUpdateProject(s) \/ AskArchiveProject(s)
       \/ AskDeleteProject(s) \/ AskMember(s) \/ AskComponent(s) \/ AskCreateLesson(s)
       \/ AskCreateSprint(s) \/ AskSprint(s) \/ AskMoveTicket(s)
       \/ AskCreateTicket(s) \/ AskTransition(s) \/ AskDeleteTicket(s)
       \/ AskLink(s) \/ AskWatcher(s) \/ AskAttach(s)
    /\ UNCHANGED <<outside, projectTables, ticketTables, notices>>

DoPlanning(s) ==
    \/ CreateProject(s) \/ UpdateProject(s) \/ DeleteProject(s)
    \/ WriteMember(s) \/ WriteComponent(s) \/ DeleteComponent(s) \/ CreateLesson(s)
    \/ CreateSprint(s) \/ StartSprint(s) \/ CloseSprint(s) \/ DeleteSprint(s) \/ MoveTicket(s)
    \/ NextNumber(s) \/ CreateTicket(s) \/ Transition(s) \/ DeleteTicket(s)
    \/ Link(s) \/ AddWatcher(s) \/ RemoveWatcher(s)
    \/ StoreBytes(s) \/ AddAttachment(s) \/ DeleteAttachment(s)
=============================================================================
