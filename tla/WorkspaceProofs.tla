---------------------------- MODULE WorkspaceProofs ----------------------------
(***************************************************************************)
(* Types, one active sprint, links in pairs, numbers never given twice,    *)
(* nobody told twice, one account for an address: for any number of        *)
(* sessions, projects, tickets, accounts and links, and any menu.  What    *)
(* the requests in flight have read is old by the time they write, so the  *)
(* inductive invariant says which part of it cannot have changed: the ids  *)
(* that a request names are not given out again.                           *)
(***************************************************************************)
EXTENDS Workspace, FiniteSetTheorems, WellFoundedInduction, TLAPS

\* The operations whose requests the invariant speaks of.
Spoken == {"create_ticket", "link", "create_project", "update_project", "archive_project",
           "add_comment", "emit_body_mentions"}

\* The request stores a text that names people.
Tells(s) == Doing(s, "add_comment") \/ Doing(s, "emit_body_mentions")

\* What the requests carry.
RequestsOK ==
    /\ DOMAIN doing = Sessions
    /\ \A s \in Sessions :
        /\ Doing(s, "create_ticket") =>
             /\ {"op", "on", "project", "key", "number"} \subseteq DOMAIN doing[s]
             /\ doing[s].key \in Keys /\ doing[s].number \in Nat
        /\ Doing(s, "link") => {"op", "on", "to", "type", "paired"} \subseteq DOMAIN doing[s]
        /\ Doing(s, "create_project") =>
             /\ {"op", "on", "key", "lead"} \subseteq DOMAIN doing[s]
             /\ doing[s].key \in Keys /\ doing[s].lead \in UserIds \cup {Nobody}
        /\ (Doing(s, "update_project") \/ Doing(s, "archive_project")) =>
             doing[s].row \in Project
        /\ Tells(s) => "on" \in DOMAIN doing[s]

-----------------------------------------------------------------------------
(* An id that is about to be given to a row is nobody else's.              *)

TicketIdsNew ==
    \A s \in Sessions : Doing(s, "create_ticket") =>
        /\ doing[s].on \notin Live(tickets)
        /\ \A o \in Sessions \ {s} : Doing(o, "create_ticket") => doing[o].on # doing[s].on
        /\ \A o \in Sessions : Doing(o, "link") => doing[s].on \notin {doing[o].on, doing[o].to}

ProjectIdsNew ==
    \A s \in Sessions : Doing(s, "create_project") =>
        /\ doing[s].on \notin Live(projects)
        /\ \A o \in Sessions \ {s} : Doing(o, "create_project") => doing[o].on # doing[s].on
        /\ \A o \in Sessions : Doing(o, "create_ticket") => doing[o].project # doing[s].on

CommentIdsNew ==
    \A s \in Sessions : Tells(s) =>
        /\ \A p \in People : /\ <<p, doing[s].on, "human_review">> \notin notices
                             /\ <<p, doing[s].on, "ticket_mention">> \notin notices
        /\ \A o \in Sessions \ {s} : Tells(o) => doing[o].on # doing[s].on

-----------------------------------------------------------------------------
(* The invariants.                                                         *)

SprintInv ==
    /\ sprints \in Rows(SprintIds, Sprint)
    /\ \A x, y \in Live(sprints) :
        (/\ sprints[x].project = sprints[y].project
         /\ sprints[x].state = "active" /\ sprints[y].state = "active") => x = y

\* A request that found the inverse there still has it, unless an end is gone.
LinkInv ==
    /\ LinksPaired
    /\ \A s \in Sessions :
        (/\ Doing(s, "link") /\ doing[s].paired
         /\ doing[s].on \in Live(tickets) /\ doing[s].to \in Live(tickets))
            => <<doing[s].to, InverseOf(doing[s].type), doing[s].on>> \in links

TablesOK ==
    /\ projects \in Rows(ProjectIds, Project)
    /\ sequences \in Rows(Keys, Nat)
    /\ DOMAIN tickets = TicketIds
    /\ \A t \in Live(tickets) :
        {"project", "number"} \subseteq DOMAIN tickets[t] /\ tickets[t].number \in Nat

OneProjectPerKey ==
    \A p, q \in Live(projects) : projects[p].key = projects[q].key => p = q

\* No number that was given is ahead of its project's sequence.
Behind(t) ==
    /\ tickets[t].project \in Live(projects)
    /\ tickets[t].number <= sequences[projects[tickets[t].project].key]

SequencesLead ==
    /\ \A p \in Live(projects) : sequences[projects[p].key] # Absent
    /\ \A t \in Live(tickets) : Behind(t)

\* The request creates a ticket in a project that is still there.
Alive(s) == Doing(s, "create_ticket") /\ doing[s].project \in Live(projects)

\* A number in hand is behind the sequence and nobody else's.
InHand(s) ==
    /\ doing[s].key = projects[doing[s].project].key
    /\ doing[s].number <= sequences[doing[s].key]
    /\ doing[s].number # 0 =>
        /\ \A t \in Live(tickets) :
            tickets[t].project = doing[s].project => tickets[t].number # doing[s].number
        /\ \A o \in Sessions \ {s} :
            (Alive(o) /\ doing[o].project = doing[s].project)
                => doing[o].number # doing[s].number

NumbersInHand == \A s \in Sessions : Alive(s) => InHand(s)

NumberInv == TablesOK /\ OneProjectPerKey /\ SequencesLead /\ NumbersInHand

WorkspaceInv ==
    /\ RequestsOK /\ TicketIdsNew /\ ProjectIdsNew /\ CommentIdsNew
    /\ SprintInv /\ LinkInv /\ NumberInv /\ NamedOnce

-----------------------------------------------------------------------------
(* What a step does to the requests and to the rows.                       *)

\* Who does something else after the step did it before.
Dropped ==
    /\ DOMAIN doing' = Sessions
    /\ \A o \in Sessions :
        doing'[o] = doing[o] \/ (\A op \in Spoken : ~Doing(o, op)')

\* No ticket is new, changes its project or its number.
TicketsKept ==
    /\ DOMAIN tickets' = TicketIds
    /\ \A t \in Live(tickets)' :
        /\ t \in Live(tickets)
        /\ {"project", "number"} \subseteq DOMAIN tickets'[t]
        /\ tickets'[t].project = tickets[t].project /\ tickets'[t].number = tickets[t].number

OtherAsk(s) ==
    \/ AskDeleteProject(s) \/ AskMember(s) \/ AskComponent(s) \/ AskCreateLesson(s)
    \/ AskCreateSprint(s) \/ AskSprint(s) \/ AskMoveTicket(s) \/ AskTransition(s)
    \/ AskDeleteTicket(s) \/ AskWatcher(s) \/ AskAttach(s) \/ AskSendLink(s) \/ AskVerify(s)
    \/ AskCallback(s) \/ AskHandle(s) \/ AskAccount(s) \/ AskAgent(s)

\* The asking for an operation that the invariant does not speak of.
LEMMA AskDrops ==
    ASSUME NEW s \in Sessions, DOMAIN doing = Sessions, NEW r, Ask(s, r), r.op \notin Spoken
    PROVE  Dropped
BY DEF Ask, Dropped, Doing

LEMMA OtherAskDrops ==
    ASSUME NEW s \in Sessions, DOMAIN doing = Sessions, OtherAsk(s)
    PROVE  Dropped
<1> USE DEF Spoken
<1>1. CASE AskDeleteProject(s)
  BY <1>1, AskDrops DEF AskDeleteProject
<1>2. CASE AskMember(s)
  BY <1>2, AskDrops DEF AskMember
<1>3. CASE AskComponent(s)
  BY <1>3, AskDrops DEF AskComponent
<1>4. CASE AskCreateLesson(s)
  BY <1>4, AskDrops DEF AskCreateLesson
<1>5. CASE AskCreateSprint(s)
  BY <1>5, AskDrops DEF AskCreateSprint
<1>6. CASE AskSprint(s)
  BY <1>6, AskDrops DEF AskSprint
<1>7. CASE AskMoveTicket(s)
  BY <1>7, AskDrops DEF AskMoveTicket
<1>8. CASE AskTransition(s)
  BY <1>8, AskDrops DEF AskTransition
<1>9. CASE AskDeleteTicket(s)
  BY <1>9, AskDrops DEF AskDeleteTicket
<1>10. CASE AskWatcher(s)
  BY <1>10, AskDrops DEF AskWatcher
<1>11. CASE AskAttach(s)
  BY <1>11, AskDrops DEF AskAttach
<1>12. CASE AskSendLink(s)
  BY <1>12, AskDrops DEF AskSendLink
<1>13. CASE AskVerify(s)
  BY <1>13, AskDrops DEF AskVerify
<1>14. CASE AskCallback(s)
  BY <1>14, AskDrops DEF AskCallback
<1>15. CASE AskHandle(s)
  BY <1>15, AskDrops DEF AskHandle
<1>16. CASE AskAccount(s)
  BY <1>16, AskDrops DEF AskAccount
<1>17. CASE AskAgent(s)
  BY <1>17, AskDrops DEF AskAgent
<1> QED
  BY <1>1, <1>2, <1>3, <1>4, <1>5, <1>6, <1>7, <1>8, <1>9, <1>10, <1>11, <1>12, <1>13, <1>14,
     <1>15, <1>16, <1>17 DEF OtherAsk

\* A request that ends is one less.
LEMMA EndDrops ==
    ASSUME NEW s \in Sessions, DOMAIN doing = Sessions, End(s)
    PROVE  Dropped
BY DEF End, Dropped, Doing

-----------------------------------------------------------------------------
(* The kinds of steps.                                                     *)

rows == <<projects, sequences, sprints, tickets, links, notices>>

\* Nothing the invariant is about changes, but that requests may end.
Quiet == Dropped /\ UNCHANGED rows

\* A request the invariant speaks of begins.
Speak(s) ==
    /\ \/ AskCreateTicket(s) \/ AskLink(s) \/ AskCreateProject(s)
       \/ AskUpdateProject(s) \/ AskArchiveProject(s) \/ AskAddComment(s) \/ AskMention(s)
    /\ UNCHANGED rows

\* The writing steps on rows the invariant is about.
Write(s) ==
    \/ CreateProject(s) \/ UpdateProject(s) \/ DeleteProject(s) \/ DeleteComponent(s)
    \/ CreateSprint(s) \/ StartSprint(s) \/ CloseSprint(s) \/ DeleteSprint(s) \/ MoveTicket(s)
    \/ CreateTicket(s) \/ Transition(s) \/ DeleteTicket(s) \/ Link(s) \/ AddWatcher(s)
    \/ AddComment(s) \/ EmitMentions(s)

\* The others.
Elsewhere(s) ==
    \/ WriteMember(s) \/ WriteComponent(s) \/ CreateLesson(s) \/ RemoveWatcher(s)
    \/ StoreBytes(s) \/ AddAttachment(s) \/ DeleteAttachment(s)
    \/ SendLink(s) \/ Verify(s) \/ Callback(s) \/ UpdateHandle(s) \/ UpdateRole(s)
    \/ UpdateStatus(s) \/ CreateAgent(s) \/ RevokeAgent(s)

LEMMA StaysQuiet ==
    ASSUME DOMAIN doing = Sessions, UNCHANGED <<doing, rows>>
    PROVE  Quiet
BY DEF Quiet, Dropped, rows

LEMMA ElsewhereIsQuiet ==
    ASSUME NEW s \in Sessions, DOMAIN doing = Sessions, Elsewhere(s)
    PROVE  Quiet
<1> USE DEF Quiet, rows, outside, elsewhere, projectTables, ticketTables, noticeTables
<1>1. CASE WriteMember(s)
  BY <1>1, EndDrops DEF WriteMember
<1>2. CASE WriteComponent(s)
  BY <1>2, EndDrops DEF WriteComponent
<1>3. CASE CreateLesson(s)
  BY <1>3, EndDrops DEF CreateLesson
<1>4. CASE RemoveWatcher(s)
  BY <1>4, EndDrops DEF RemoveWatcher
<1>5. CASE StoreBytes(s)
  BY <1>5, StaysQuiet DEF StoreBytes
<1>6. CASE AddAttachment(s)
  BY <1>6, EndDrops DEF AddAttachment
<1>7. CASE DeleteAttachment(s)
  BY <1>7, EndDrops DEF DeleteAttachment
<1>8. CASE SendLink(s)
  BY <1>8, EndDrops DEF SendLink
<1>9. CASE Verify(s)
  BY <1>9, EndDrops DEF Verify
<1>10. CASE Callback(s)
  BY <1>10, EndDrops DEF Callback
<1>11. CASE UpdateHandle(s)
  BY <1>11, EndDrops DEF UpdateHandle
<1>12. CASE UpdateRole(s)
  BY <1>12, EndDrops DEF UpdateRole
<1>13. CASE UpdateStatus(s)
  BY <1>13, EndDrops DEF UpdateStatus
<1>14. CASE CreateAgent(s)
  BY <1>14, EndDrops DEF CreateAgent
<1>15. CASE RevokeAgent(s)
  BY <1>15, EndDrops DEF RevokeAgent
<1> QED
  BY <1>1, <1>2, <1>3, <1>4, <1>5, <1>6, <1>7, <1>8, <1>9, <1>10, <1>11, <1>12, <1>13, <1>14,
     <1>15 DEF Elsewhere

LEMMA WriteEnds ==
    ASSUME NEW s \in Sessions, Write(s)
    PROVE  End(s)
BY DEF Write, CreateProject, UpdateProject, DeleteProject, DeleteComponent, CreateSprint,
   StartSprint, CloseSprint, DeleteSprint, MoveTicket, CreateTicket, Transition,
   DeleteTicket, Link, AddWatcher, AddComment, EmitMentions

LEMMA WriteDrops ==
    ASSUME NEW s \in Sessions, DOMAIN doing = Sessions, Write(s)
    PROVE  Dropped
BY WriteEnds, EndDrops

LEMMA StepKinds ==
    ASSUME DOMAIN doing = Sessions, [Next]_workspaceVars
    PROVE  Quiet \/ \E s \in Sessions : Speak(s) \/ Write(s) \/ NextNumber(s)
<1> USE DEF rows, outside, elsewhere, projectTables, ticketTables, accountTables, noticeTables
<1>1. CASE UNCHANGED workspaceVars
  BY <1>1, StaysQuiet DEF workspaceVars
<1>2. CASE TimePasses
  BY <1>2, StaysQuiet DEF TimePasses, Expire, CoolDown
<1>3. ASSUME NEW s \in Sessions, AskPlanning(s) \/ AskIdentity(s)
      PROVE  Quiet \/ Speak(s)
  <2>1. UNCHANGED rows
    BY <1>3 DEF AskPlanning, AskIdentity
  <2>2. OtherAsk(s) \/ Speak(s)
    BY <1>3, <2>1 DEF AskPlanning, AskIdentity, OtherAsk, Speak
  <2> QED
    BY <2>1, <2>2, OtherAskDrops DEF Quiet
<1>4. ASSUME NEW s \in Sessions, DoPlanning(s) \/ DoIdentity(s)
      PROVE  Quiet \/ Write(s) \/ NextNumber(s)
  <2>1. Elsewhere(s) \/ Write(s) \/ NextNumber(s)
    BY <1>4 DEF DoPlanning, DoIdentity, Elsewhere, Write
  <2> QED
    BY <2>1, ElsewhereIsQuiet
<1>5. ASSUME NEW s \in Sessions, Abandon(s)
      PROVE  Quiet
  BY <1>5, EndDrops DEF Abandon, Quiet
<1> QED
  BY <1>1, <1>2, <1>3, <1>4, <1>5 DEF Next

-----------------------------------------------------------------------------
(* The requests, and the ids they name.                                    *)

\* What an update writes is a project.
LEMMA NextVersion ==
    ASSUME NEW row \in Project, row.version < MaxVersion
    PROVE  /\ \A lead \in UserIds \cup {Nobody} :
                [row EXCEPT !.lead = lead, !.version = @ + 1] \in Project
           /\ \A archived \in BOOLEAN :
                [row EXCEPT !.archived = archived, !.version = @ + 1] \in Project
<1>1. row.version + 1 \in 1..MaxVersion
  BY WorkspaceAssumption DEF Project
<1> QED
  BY <1>1 DEF Project

LEMMA RequestsKept ==
    ASSUME RequestsOK, Dropped
    PROVE  RequestsOK'
BY DEF RequestsOK, Dropped, Spoken, Doing, Tells

LEMMA RequestsStep ==
    ASSUME RequestsOK, TablesOK, [Next]_workspaceVars
    PROVE  RequestsOK'
<1> USE DEF RequestsOK, Doing, Tells, Ask
<1>1. CASE Quiet
  BY <1>1, RequestsKept DEF Quiet
<1>2. ASSUME NEW s \in Sessions, Write(s)
      PROVE  RequestsOK'
  BY <1>2, WriteDrops, RequestsKept
<1>3. ASSUME NEW s \in Sessions, NextNumber(s)
      PROVE  RequestsOK'
  <2>1. doing[s].number + 0 \in Nat /\ sequences[doing[s].key] + 1 \in Nat
    BY <1>3, WorkspaceAssumption DEF NextNumber
  <2>2. doing' = [doing EXCEPT ![s] = [doing[s] EXCEPT !.number = sequences[doing[s].key] + 1]]
    BY <1>3 DEF NextNumber
  <2> QED
    BY <1>3, <2>1, <2>2 DEF NextNumber
<1>4. ASSUME NEW s \in Sessions, Speak(s)
      PROVE  RequestsOK'
  <2>1. CASE AskCreateTicket(s)
    BY <2>1 DEF AskCreateTicket, TablesOK, Rows, Live, Project
  <2>2. CASE AskLink(s)
    BY <2>2 DEF AskLink
  <2>3. CASE AskCreateProject(s)
    BY <2>3 DEF AskCreateProject
  <2>4. CASE AskUpdateProject(s)
    <3>1. PICK p \in Live(projects), u \in CurrentUsers, lead \in UserIds \cup {Nobody} :
            /\ projects[p].version < MaxVersion
            /\ Ask(s, [op |-> "update_project", user |-> u, on |-> p,
                       row |-> [projects[p] EXCEPT !.lead = lead, !.version = @ + 1]])
      BY <2>4 DEF AskUpdateProject
    <3>2. projects[p] \in Project
      BY DEF TablesOK, Rows, Live
    <3>3. [projects[p] EXCEPT !.lead = lead, !.version = @ + 1] \in Project
      BY <3>1, <3>2, NextVersion
    <3> QED
      BY <3>1, <3>3
  <2>5. CASE AskArchiveProject(s)
    <3>1. PICK p \in Live(projects), a \in Callers, archived \in BOOLEAN :
            /\ projects[p].version < MaxVersion
            /\ Ask(s, [op |-> "archive_project", user |-> a, on |-> p,
                       row |-> [projects[p] EXCEPT !.archived = archived, !.version = @ + 1]])
      BY <2>5 DEF AskArchiveProject
    <3>2. projects[p] \in Project
      BY DEF TablesOK, Rows, Live
    <3>3. [projects[p] EXCEPT !.archived = archived, !.version = @ + 1] \in Project
      BY <3>1, <3>2, NextVersion
    <3> QED
      BY <3>1, <3>3
  <2>6. CASE AskAddComment(s)
    BY <2>6 DEF AskAddComment
  <2>7. CASE AskMention(s)
    BY <2>7 DEF AskMention
  <2> QED
    BY <1>4, <2>1, <2>2, <2>3, <2>4, <2>5, <2>6, <2>7 DEF Speak
<1> QED
  BY <1>1, <1>2, <1>3, <1>4, StepKinds

LEMMA TicketIdsKept ==
    ASSUME TicketIdsNew, Dropped, Live(tickets)' \subseteq Live(tickets)
    PROVE  TicketIdsNew'
BY DEF TicketIdsNew, Dropped, Spoken, Doing

LEMMA ProjectIdsKept ==
    ASSUME ProjectIdsNew, Dropped, Live(projects)' \subseteq Live(projects)
    PROVE  ProjectIdsNew'
BY DEF ProjectIdsNew, Dropped, Spoken, Doing

LEMMA CommentIdsKept ==
    ASSUME CommentIdsNew, Dropped,
           \A n \in notices' \ notices : n[3] \notin {"human_review", "ticket_mention"}
    PROVE  CommentIdsNew'
BY DEF CommentIdsNew, Dropped, Spoken, Doing, Tells

\* The steps that write tickets but one keep what tickets are numbered.
LEMMA WriteKeepsTickets ==
    ASSUME NEW s \in Sessions, TablesOK, Write(s), ~CreateTicket(s)
    PROVE  TicketsKept
<1> USE DEF TicketsKept, TablesOK, Live, projectTables, ticketTables, outside, elsewhere
<1>1. CASE UNCHANGED tickets
  BY <1>1
<1>2. CASE DeleteProject(s)
  BY <1>2 DEF DeleteProject
<1>3. CASE DeleteComponent(s)
  BY <1>3 DEF DeleteComponent
<1>4. CASE CloseSprint(s)
  BY <1>4 DEF CloseSprint, BackToBacklog
<1>5. CASE DeleteSprint(s)
  BY <1>5 DEF DeleteSprint, BackToBacklog
<1>6. CASE MoveTicket(s)
  BY <1>6 DEF MoveTicket
<1>7. CASE Transition(s)
  BY <1>7 DEF Transition
<1>8. CASE DeleteTicket(s)
  BY <1>8 DEF DeleteTicket
<1> QED
  BY <1>1, <1>2, <1>3, <1>4, <1>5, <1>6, <1>7, <1>8
  DEF Write, CreateProject, UpdateProject, CreateSprint, StartSprint, Link, AddWatcher,
      AddComment, EmitMentions

\* The ticket that is created is the only new one.
LEMMA CreateTicketAdds ==
    ASSUME NEW s \in Sessions, TablesOK, CreateTicket(s)
    PROVE  /\ Live(tickets)' \subseteq Live(tickets) \cup {doing[s].on}
           /\ DOMAIN tickets' = TicketIds
           /\ \A t \in Live(tickets) \ {doing[s].on} : tickets'[t] = tickets[t]
BY DEF CreateTicket, TablesOK, Live

\* Which projects there are is changed by two operations.
LEMMA WriteKeepsProjects ==
    ASSUME NEW s \in Sessions, TablesOK, RequestsOK, Write(s), ~CreateProject(s), ~DeleteProject(s)
    PROVE  /\ Live(projects)' \subseteq Live(projects) /\ Live(projects) \subseteq Live(projects)'
           /\ projects' \in Rows(ProjectIds, Project)
           /\ \A p \in Live(projects) : projects'[p].key = projects[p].key
<1> USE DEF TablesOK, Live, Rows, projectTables, outside, elsewhere
<1>1. CASE UNCHANGED projects
  BY <1>1
<1>2. CASE UpdateProject(s)
  <2> DEFINE p == doing[s].on
             row == IF doing[s].op = "update_project"
                    THEN [projects[p] EXCEPT !.lead = doing[s].row.lead,
                                             !.version = doing[s].row.version]
                    ELSE [projects[p] EXCEPT !.archived = doing[s].row.archived,
                                             !.version = doing[s].row.version]
  <2>1. p \in ProjectIds /\ projects[p] \in Project /\ doing[s].row \in Project
    BY <1>2 DEF UpdateProject, RequestsOK
  <2>2. row \in Project /\ row.key = projects[p].key
    BY <2>1 DEF Project
  <2>3. projects' = [projects EXCEPT ![p] = row]
    BY <1>2 DEF UpdateProject
  <2> QED
    BY <2>1, <2>2, <2>3, WorkspaceAssumption
<1> QED
  BY <1>1, <1>2
  DEF Write, CreateSprint, StartSprint, CloseSprint, DeleteSprint, MoveTicket, CreateTicket,
      Transition, DeleteTicket, DeleteComponent, Link, AddWatcher, AddComment, EmitMentions

LEMMA NextNumberDoes ==
    ASSUME NEW s \in Sessions, RequestsOK, NextNumber(s)
    PROVE  /\ DOMAIN doing' = Sessions
           /\ \A o \in Sessions, op \in Spoken : Doing(o, op)' => Doing(o, op)
           /\ \A o \in Sessions : \A field \in DOMAIN doing[o] \ {"number"} :
                  doing'[o][field] = doing[o][field]
           /\ UNCHANGED <<projects, tickets, sprints, links, notices>>
BY DEF NextNumber, RequestsOK, Doing, outside, ticketTables

-----------------------------------------------------------------------------
(* What the requests ask for.                                              *)

\* A session that did nothing now has a request for op.
Asked(s, op) ==
    /\ doing[s] = Idle /\ DOMAIN doing' = Sessions
    /\ \A o \in Sessions \ {s} : doing'[o] = doing[o]
    /\ doing'[s].op = op

LEMMA AskIsAsked ==
    ASSUME NEW s \in Sessions, DOMAIN doing = Sessions, NEW r, Ask(s, r)
    PROVE  Asked(s, r.op) /\ doing'[s] = r
BY DEF Ask, Asked

LEMMA TicketAsked ==
    ASSUME NEW s \in Sessions, DOMAIN doing = Sessions, AskCreateTicket(s)
    PROVE  /\ Asked(s, "create_ticket")
           /\ doing'[s].on \in TicketIds /\ Fresh(tickets, doing'[s].on)
           /\ doing'[s].project \in Live(projects)
           /\ doing'[s].key = projects[doing'[s].project].key /\ doing'[s].number = 0
BY AskIsAsked DEF AskCreateTicket

LEMMA LinkRequest ==
    ASSUME NEW s \in Sessions, DOMAIN doing = Sessions, AskLink(s)
    PROVE  \E t, o \in Live(tickets), type \in LinkTypes : \E found :
              /\ Asked(s, "link")
              /\ doing'[s].on = t /\ doing'[s].to = o /\ doing'[s].type = type
              /\ doing'[s].paired = found
              /\ found => <<o, InverseOf(type), t>> \in links
<1>1. PICK t, o \in Live(tickets), a \in Callers, type \in LinkTypes :
        Ask(s, [op |-> "link", user |-> a, on |-> t, to |-> o, type |-> type,
                paired |-> <<o, InverseOf(type), t>> \in links])
  BY DEF AskLink
<1> DEFINE found == <<o, InverseOf(type), t>> \in links
<1>2. Ask(s, [op |-> "link", user |-> a, on |-> t, to |-> o, type |-> type, paired |-> found])
  BY <1>1
<1>3. found => <<o, InverseOf(type), t>> \in links
  OBVIOUS
<1> HIDE DEF found
<1>4. /\ Asked(s, "link")
      /\ doing'[s] = [op |-> "link", user |-> a, on |-> t, to |-> o, type |-> type,
                      paired |-> found]
  BY <1>2, AskIsAsked
<1>5. doing'[s].on = t /\ doing'[s].to = o /\ doing'[s].type = type /\ doing'[s].paired = found
  BY <1>4
<1> QED
  BY <1>3, <1>4, <1>5

LEMMA LinkAsked ==
    ASSUME NEW s \in Sessions, DOMAIN doing = Sessions, AskLink(s)
    PROVE  /\ Asked(s, "link")
           /\ doing'[s].on \in Live(tickets) /\ doing'[s].to \in Live(tickets)
BY LinkRequest

\* An inverse that the request found was there.
LEMMA LinkFound ==
    ASSUME NEW s \in Sessions, DOMAIN doing = Sessions, AskLink(s)
    PROVE  doing'[s].paired =>
                <<doing'[s].to, InverseOf(doing'[s].type), doing'[s].on>> \in links
BY LinkRequest

LEMMA ProjectAsked ==
    ASSUME NEW s \in Sessions, DOMAIN doing = Sessions, AskCreateProject(s)
    PROVE  /\ Asked(s, "create_project")
           /\ doing'[s].on \in ProjectIds /\ Fresh(projects, doing'[s].on)
BY AskIsAsked DEF AskCreateProject

LEMMA ChangeAsked ==
    ASSUME NEW s \in Sessions, DOMAIN doing = Sessions, AskUpdateProject(s) \/ AskArchiveProject(s)
    PROVE  Asked(s, "update_project") \/ Asked(s, "archive_project")
<1>1. CASE AskUpdateProject(s)
  <2>1. PICK p \in Live(projects), u \in CurrentUsers, lead \in UserIds \cup {Nobody} :
          Ask(s, [op |-> "update_project", user |-> u, on |-> p,
                  row |-> [projects[p] EXCEPT !.lead = lead, !.version = @ + 1]])
    BY <1>1 DEF AskUpdateProject
  <2> DEFINE row == [projects[p] EXCEPT !.lead = lead, !.version = @ + 1]
  <2>2. Ask(s, [op |-> "update_project", user |-> u, on |-> p, row |-> row])
    BY <2>1
  <2> HIDE DEF row
  <2> QED
    BY <2>2, AskIsAsked
<1>2. CASE AskArchiveProject(s)
  <2>1. PICK p \in Live(projects), a \in Callers, archived \in BOOLEAN :
          Ask(s, [op |-> "archive_project", user |-> a, on |-> p,
                  row |-> [projects[p] EXCEPT !.archived = archived, !.version = @ + 1]])
    BY <1>2 DEF AskArchiveProject
  <2> DEFINE row == [projects[p] EXCEPT !.archived = archived, !.version = @ + 1]
  <2>2. Ask(s, [op |-> "archive_project", user |-> a, on |-> p, row |-> row])
    BY <2>1
  <2> HIDE DEF row
  <2> QED
    BY <2>2, AskIsAsked
<1> QED
  BY <1>1, <1>2

LEMMA TextAsked ==
    ASSUME NEW s \in Sessions, DOMAIN doing = Sessions, AskAddComment(s) \/ AskMention(s)
    PROVE  /\ Asked(s, "add_comment") \/ Asked(s, "emit_body_mentions")
           /\ doing'[s].on \in CommentIds /\ NewComment(doing'[s].on)
<1>1. CASE AskAddComment(s)
  BY <1>1, AskIsAsked DEF AskAddComment
<1>2. CASE AskMention(s)
  BY <1>2, AskIsAsked DEF AskMention
<1> QED
  BY <1>1, <1>2

LEMMA TicketIdsStep ==
    ASSUME RequestsOK, TablesOK, TicketIdsNew, [Next]_workspaceVars
    PROVE  TicketIdsNew'
<1>1. CASE Quiet
  <2>1. Live(tickets)' = Live(tickets)
    BY <1>1 DEF Quiet, rows, Live
  <2> QED
    BY <1>1, <2>1, TicketIdsKept DEF Quiet
<1>2. ASSUME NEW s \in Sessions, Write(s)
      PROVE  TicketIdsNew'
  <2>1. CASE CreateTicket(s)
    <3>1. Doing(s, "create_ticket") /\ doing' = [doing EXCEPT ![s] = Idle]
      BY <2>1 DEF CreateTicket, Numbered, End
    <3>2. Live(tickets)' \subseteq Live(tickets) \cup {doing[s].on}
      BY <2>1, CreateTicketAdds
    <3> QED
      BY <3>1, <3>2 DEF RequestsOK, TicketIdsNew, Doing
  <2>2. CASE ~CreateTicket(s)
    BY <1>2, <2>2, WriteKeepsTickets, WriteDrops, TicketIdsKept DEF TicketsKept, RequestsOK
  <2> QED
    BY <2>1, <2>2
<1>3. ASSUME NEW s \in Sessions, NextNumber(s)
      PROVE  TicketIdsNew'
  <2>1. Live(tickets)' = Live(tickets)
    BY <1>3, NextNumberDoes DEF Live
  <2> QED
    BY <1>3, <2>1, NextNumberDoes DEF RequestsOK, TicketIdsNew, Spoken
<1>4. ASSUME NEW s \in Sessions, Speak(s)
      PROVE  TicketIdsNew'
  <2> USE DEF RequestsOK
  <2>1. Live(tickets)' = Live(tickets)
    BY <1>4 DEF Speak, rows, Live
  <2>2. CASE AskCreateTicket(s)
    <3> DEFINE t == doing'[s].on
    <3>1. Asked(s, "create_ticket") /\ Fresh(tickets, t) /\ t \notin Live(tickets)
      BY <2>2, TicketAsked DEF Fresh, Live
    <3>2. \A o \in Sessions :
            /\ Doing(o, "create_ticket") => doing[o].on # t
            /\ Doing(o, "link") => t \notin {doing[o].on, doing[o].to}
      BY <3>1 DEF Fresh, Doing
    <3> QED
      BY <2>1, <3>1, <3>2 DEF TicketIdsNew, Asked, Doing
  <2>3. CASE AskLink(s)
    BY <2>1, <2>3, LinkAsked DEF TicketIdsNew, Asked, Doing
  <2>4. CASE AskCreateProject(s) \/ AskUpdateProject(s) \/ AskArchiveProject(s)
    BY <2>1, <2>4, ProjectAsked, ChangeAsked DEF TicketIdsNew, Asked, Doing
  <2>5. CASE AskAddComment(s) \/ AskMention(s)
    BY <2>1, <2>5, TextAsked DEF TicketIdsNew, Asked, Doing
  <2> QED
    BY <1>4, <2>2, <2>3, <2>4, <2>5 DEF Speak
<1> QED
  BY <1>1, <1>2, <1>3, <1>4, StepKinds DEF RequestsOK

LEMMA ProjectIdsStep ==
    ASSUME RequestsOK, TablesOK, ProjectIdsNew, [Next]_workspaceVars
    PROVE  ProjectIdsNew'
<1>1. CASE Quiet
  <2>1. Live(projects)' = Live(projects)
    BY <1>1 DEF Quiet, rows, Live
  <2> QED
    BY <1>1, <2>1, ProjectIdsKept DEF Quiet
<1>2. ASSUME NEW s \in Sessions, Write(s)
      PROVE  ProjectIdsNew'
  <2>1. CASE CreateProject(s)
    <3>1. Doing(s, "create_project") /\ doing' = [doing EXCEPT ![s] = Idle]
      BY <2>1 DEF CreateProject, End
    <3>2. Live(projects)' \subseteq Live(projects) \cup {doing[s].on}
      BY <2>1 DEF CreateProject, Live
    <3> QED
      BY <3>1, <3>2 DEF RequestsOK, ProjectIdsNew, Doing
  <2>2. CASE DeleteProject(s)
    <3>1. Live(projects)' \subseteq Live(projects)
      BY <2>2 DEF DeleteProject, Live
    <3> QED
      BY <1>2, <3>1, WriteDrops, ProjectIdsKept DEF RequestsOK
  <2>3. CASE ~CreateProject(s) /\ ~DeleteProject(s)
    BY <1>2, <2>3, WriteKeepsProjects, WriteDrops, ProjectIdsKept DEF RequestsOK
  <2> QED
    BY <2>1, <2>2, <2>3
<1>3. ASSUME NEW s \in Sessions, NextNumber(s)
      PROVE  ProjectIdsNew'
  <2>1. Live(projects)' = Live(projects)
    BY <1>3, NextNumberDoes DEF Live
  <2> QED
    BY <1>3, <2>1, NextNumberDoes DEF RequestsOK, ProjectIdsNew, Spoken
<1>4. ASSUME NEW s \in Sessions, Speak(s)
      PROVE  ProjectIdsNew'
  <2> USE DEF RequestsOK
  <2>1. Live(projects)' = Live(projects)
    BY <1>4 DEF Speak, rows, Live
  <2>2. CASE AskCreateTicket(s)
    BY <2>1, <2>2, TicketAsked DEF ProjectIdsNew, Asked, Doing
  <2>3. CASE AskCreateProject(s)
    <3> DEFINE p == doing'[s].on
    <3>1. Asked(s, "create_project") /\ Fresh(projects, p) /\ p \notin Live(projects)
      BY <2>3, ProjectAsked DEF Fresh, Live
    <3>2. \A o \in Sessions :
            /\ Doing(o, "create_project") => doing[o].on # p
            /\ Doing(o, "create_ticket") => doing[o].project # p
      BY <3>1 DEF Fresh, Doing
    <3> QED
      BY <2>1, <3>1, <3>2 DEF ProjectIdsNew, Asked, Doing
  <2>4. CASE AskLink(s) \/ AskUpdateProject(s) \/ AskArchiveProject(s)
    BY <2>1, <2>4, LinkAsked, ChangeAsked DEF ProjectIdsNew, Asked, Doing
  <2>5. CASE AskAddComment(s) \/ AskMention(s)
    BY <2>1, <2>5, TextAsked DEF ProjectIdsNew, Asked, Doing
  <2> QED
    BY <1>4, <2>2, <2>3, <2>4, <2>5 DEF Speak
<1> QED
  BY <1>1, <1>2, <1>3, <1>4, StepKinds DEF RequestsOK

-----------------------------------------------------------------------------
(* Comments and the notices they give.                                     *)

\* Only the storing of a text tells people of it.
LEMMA NoticesAdded ==
    ASSUME NEW s \in Sessions, Write(s)
    PROVE  \/ Tells(s) /\ \A p, c : c # doing[s].on =>
                /\ <<p, c, "human_review">> \in notices' => <<p, c, "human_review">> \in notices
                /\ <<p, c, "ticket_mention">> \in notices' => <<p, c, "ticket_mention">> \in notices
           \/ \A p, c :
                /\ <<p, c, "human_review">> \in notices' => <<p, c, "human_review">> \in notices
                /\ <<p, c, "ticket_mention">> \in notices' => <<p, c, "ticket_mention">> \in notices
<1>1. CASE AddComment(s)
  BY <1>1 DEF AddComment, Tells
<1>2. CASE EmitMentions(s)
  BY <1>2 DEF EmitMentions, Tells
<1>3. CASE AddWatcher(s)
  BY <1>3 DEF AddWatcher
<1>4. CASE UNCHANGED notices
  BY <1>4
<1> QED
  BY <1>1, <1>2, <1>3, <1>4
  DEF Write, CreateProject, UpdateProject, DeleteProject, DeleteComponent, CreateSprint,
      StartSprint, CloseSprint, DeleteSprint, MoveTicket, CreateTicket, Transition,
      DeleteTicket, Link

LEMMA CommentIdsStep ==
    ASSUME RequestsOK, CommentIdsNew, [Next]_workspaceVars
    PROVE  CommentIdsNew'
<1>1. CASE Quiet
  BY <1>1, CommentIdsKept DEF Quiet, rows
<1>2. ASSUME NEW s \in Sessions, Write(s)
      PROVE  CommentIdsNew'
  <2>1. Dropped /\ ~Tells(s)'
    <3>1. doing' = [doing EXCEPT ![s] = Idle]
      BY <1>2, WriteEnds DEF End
    <3> QED
      BY <1>2, <3>1, WriteDrops DEF RequestsOK, Tells, Doing
  <2>2. \A o \in Sessions : Tells(o)' => o # s /\ Tells(o) /\ doing'[o] = doing[o]
    BY <2>1 DEF Dropped, Tells, Spoken, Doing
  <2>3. \A o \in Sessions : Tells(o)' => (Tells(s) => doing[o].on # doing[s].on)
    BY <2>2 DEF CommentIdsNew
  <2> QED
    BY <1>2, <2>2, <2>3, NoticesAdded DEF CommentIdsNew
<1>3. ASSUME NEW s \in Sessions, NextNumber(s)
      PROVE  CommentIdsNew'
  BY <1>3, NextNumberDoes DEF RequestsOK, CommentIdsNew, Tells, Spoken
<1>4. ASSUME NEW s \in Sessions, Speak(s)
      PROVE  CommentIdsNew'
  <2> USE DEF RequestsOK
  <2>1. notices' = notices
    BY <1>4 DEF Speak, rows
  <2>2. CASE AskAddComment(s) \/ AskMention(s)
    <3> DEFINE c == doing'[s].on
    <3>1. /\ Asked(s, "add_comment") \/ Asked(s, "emit_body_mentions")
          /\ c \in CommentIds /\ NewComment(c)
      BY <2>2, TextAsked
    <3>2. \A n \in notices : n[2] # c
      BY <3>1, WorkspaceAssumption DEF NewComment, Fresh
    <3>3. \A o \in Sessions : Tells(o) => doing[o].on # c
      BY <3>1 DEF NewComment, Fresh, Tells, Doing
    <3>4. \A p : /\ <<p, c, "human_review">> \notin notices
                 /\ <<p, c, "ticket_mention">> \notin notices
      BY <3>2
    <3> HIDE DEF c
    <3>5. \A o \in Sessions \ {s} : doing'[o] = doing[o]
      BY <3>1 DEF Asked
    <3>6. doing'[s].on = c
      BY DEF c
    <3>7. \A o \in Sessions \ {s} : Tells(o)' <=> Tells(o)
      BY <3>5 DEF Tells, Doing
    <3> QED
      BY <2>1, <3>3, <3>4, <3>5, <3>6, <3>7 DEF CommentIdsNew
  <2>3. CASE AskCreateTicket(s)
    BY <2>1, <2>3, TicketAsked DEF CommentIdsNew, Asked, Tells, Doing
  <2>4. CASE AskCreateProject(s)
    BY <2>1, <2>4, ProjectAsked DEF CommentIdsNew, Asked, Tells, Doing
  <2>5. CASE AskLink(s)
    BY <2>1, <2>5, LinkAsked DEF CommentIdsNew, Asked, Tells, Doing
  <2>6. CASE AskUpdateProject(s) \/ AskArchiveProject(s)
    BY <2>1, <2>6, ChangeAsked DEF CommentIdsNew, Asked, Tells, Doing
  <2> QED
    BY <1>4, <2>2, <2>3, <2>4, <2>5, <2>6 DEF Speak
<1> QED
  BY <1>1, <1>2, <1>3, <1>4, StepKinds DEF RequestsOK

LEMMA NamedOnceStep ==
    ASSUME CommentIdsNew, NamedOnce, RequestsOK, [Next]_workspaceVars
    PROVE  NamedOnce'
<1>1. CASE UNCHANGED notices
  BY <1>1 DEF NamedOnce
<1>2. ASSUME NEW s \in Sessions, Write(s)
      PROVE  NamedOnce'
  <2>1. CASE AddComment(s)
    BY <2>1 DEF AddComment, NamedOnce, CommentIdsNew, Tells
  <2>2. CASE EmitMentions(s)
    BY <2>2 DEF EmitMentions, NamedOnce, CommentIdsNew, Tells
  <2>3. CASE AddWatcher(s)
    BY <2>3 DEF AddWatcher, NamedOnce
  <2> QED
    BY <1>1, <1>2, <2>1, <2>2, <2>3
    DEF Write, CreateProject, UpdateProject, DeleteProject, DeleteComponent, CreateSprint,
        StartSprint, CloseSprint, DeleteSprint, MoveTicket, CreateTicket, Transition,
        DeleteTicket, Link
<1> QED
  BY <1>1, <1>2, StepKinds, NextNumberDoes DEF RequestsOK, Quiet, Speak, rows

-----------------------------------------------------------------------------
(* Sprints.                                                                *)

LEMMA SprintStep ==
    ASSUME RequestsOK, TablesOK, SprintInv, [Next]_workspaceVars
    PROVE  SprintInv'
<1> USE DEF SprintInv, Live, Rows
<1>1. CASE UNCHANGED sprints
  BY <1>1
<1>2. ASSUME NEW s \in Sessions, Write(s)
      PROVE  SprintInv'
  <2>1. CASE CreateSprint(s)
    <3> DEFINE row == [project |-> doing[s].project, state |-> "planned"]
    <3>1. doing[s].project \in ProjectIds /\ sprints' = [sprints EXCEPT ![doing[s].on] = row]
      BY <2>1 DEF CreateSprint, TablesOK
    <3>2. row \in Sprint /\ row.state = "planned"
      BY <3>1 DEF Sprint
    <3> HIDE DEF row
    <3>3. sprints' \in Rows(SprintIds, Sprint)
      BY <3>1, <3>2
    <3>4. \A x \in Live(sprints)' : sprints'[x].state = "active" =>
            x \in Live(sprints) /\ sprints'[x] = sprints[x]
      BY <3>1, <3>2
    <3> QED
      BY <3>3, <3>4
  <2>2. CASE StartSprint(s)
    <3> DEFINE x == doing[s].on
    <3>1. /\ x \in SprintIds /\ sprints[x] \in Sprint /\ sprints[x] # Absent
          /\ ActiveIn(sprints[x].project) \subseteq {x}
          /\ sprints' = [sprints EXCEPT ![x] = [sprints[x] EXCEPT !.state = "active"]]
      BY <2>2 DEF StartSprint
    <3>2. /\ [sprints[x] EXCEPT !.state = "active"] \in Sprint
          /\ [sprints[x] EXCEPT !.state = "active"].project = sprints[x].project
      BY <3>1 DEF Sprint
    <3>3. \A y \in Live(sprints) \ {x} :
            ~(sprints[y].project = sprints[x].project /\ sprints[y].state = "active")
      BY <3>1 DEF ActiveIn
    <3> QED
      BY <3>1, <3>2, <3>3
  <2>3. CASE CloseSprint(s)
    <3> DEFINE x == doing[s].on
    <3>1. /\ x \in SprintIds /\ sprints[x] \in Sprint
          /\ sprints' = [sprints EXCEPT ![x] = [sprints[x] EXCEPT !.state = "closed"]]
      BY <2>3 DEF CloseSprint
    <3>2. /\ [sprints[x] EXCEPT !.state = "closed"] \in Sprint
          /\ [sprints[x] EXCEPT !.state = "closed"].state = "closed"
      BY <3>1 DEF Sprint
    <3> QED
      BY <3>1, <3>2
  <2>4. CASE DeleteSprint(s)
    BY <2>4 DEF DeleteSprint
  <2>5. CASE DeleteProject(s)
    <3>1. /\ sprints' \in Rows(SprintIds, Sprint)
          /\ \A x \in Live(sprints)' : x \in Live(sprints) /\ sprints'[x] = sprints[x]
      BY <2>5 DEF DeleteProject, Outlive
    <3> QED
      BY <3>1
  <2> QED
    BY <1>1, <1>2, <2>1, <2>2, <2>3, <2>4, <2>5
    DEF Write, CreateProject, UpdateProject, DeleteComponent, MoveTicket, CreateTicket,
        Transition, DeleteTicket, Link, AddWatcher, AddComment, EmitMentions, outside,
        elsewhere, ticketTables
<1> QED
  BY <1>1, <1>2, StepKinds, NextNumberDoes DEF RequestsOK, Quiet, Speak, rows

LEMMA SprintInvImplies ==
    ASSUME SprintInv
    PROVE  OneActiveSprint
<1>1. SUFFICES ASSUME NEW p \in ProjectIds
              PROVE  Cardinality(ActiveIn(p)) <= 1
  BY DEF OneActiveSprint
<1>2. \A x, y \in ActiveIn(p) : x = y
  BY DEF SprintInv, ActiveIn
<1>3. CASE ActiveIn(p) = {}
  BY <1>3, FS_EmptySet
<1>4. CASE ActiveIn(p) # {}
  <2>1. PICK x \in ActiveIn(p) : TRUE
    BY <1>4
  <2>2. ActiveIn(p) = {x}
    BY <1>2, <2>1
  <2>3. Cardinality({x}) = 1
    BY FS_Singleton
  <2> QED
    BY <2>2, <2>3
<1> QED
  BY <1>3, <1>4

-----------------------------------------------------------------------------
(* Links.                                                                  *)

LEMMA InverseTwice ==
    ASSUME NEW type, InverseOf(type) # Nobody
    PROVE  InverseOf(InverseOf(type)) = type
BY DEF InverseOf

LEMMA LinksKept ==
    ASSUME LinkInv, Dropped, links' = links, Live(tickets)' \subseteq Live(tickets)
    PROVE  LinkInv'
BY DEF LinkInv, LinksPaired, Dropped, Spoken, Doing

LEMMA LinkStep ==
    ASSUME RequestsOK, TablesOK, TicketIdsNew, LinkInv, [Next]_workspaceVars
    PROVE  LinkInv'
<1>1. CASE Quiet
  BY <1>1, LinksKept DEF Quiet, rows, Live
<1>2. ASSUME NEW s \in Sessions, Write(s)
      PROVE  LinkInv'
  <2>0. Dropped
    BY <1>2, WriteDrops DEF RequestsOK
  <2>1. CASE CreateTicket(s)
    <3>1. Doing(s, "create_ticket") /\ links' = links
      BY <2>1 DEF CreateTicket, Numbered
    <3>2. \A o \in Sessions : Doing(o, "link")' =>
            Doing(o, "link") /\ doing'[o] = doing[o]
            /\ doing[s].on \notin {doing[o].on, doing[o].to}
      BY <2>0, <3>1 DEF TicketIdsNew, Dropped, Spoken, Doing
    <3>3. Live(tickets)' \subseteq Live(tickets) \cup {doing[s].on}
      BY <2>1, CreateTicketAdds
    <3> QED
      BY <3>1, <3>2, <3>3 DEF LinkInv, LinksPaired
  <2>2. CASE Link(s)
    <3> DEFINE r == doing[s]
    <3>1. /\ Doing(s, "link") /\ r.on \in Live(tickets) /\ r.to \in Live(tickets)
          /\ links' = links \cup LinkRows(r) /\ Live(tickets)' = Live(tickets)
      BY <2>2 DEF Link, Live
    <3>2. InverseOf(r.type) # Nobody => <<r.to, InverseOf(r.type), r.on>> \in links'
      BY <3>1 DEF LinkRows, LinkInv
    <3>3. <<r.on, r.type, r.to>> \in links'
      BY <3>1 DEF LinkRows
    <3>4. LinksPaired'
      BY <3>1, <3>2, <3>3, InverseTwice DEF LinksPaired, LinkInv, LinkRows
    <3> QED
      BY <2>0, <3>1, <3>4 DEF LinkInv, Dropped, Spoken, Doing
  <2>3. CASE DeleteTicket(s)
    <3> DEFINE t == doing[s].on
    <3>1. /\ links' = {l \in links : t \notin {l[1], l[3]}}
          /\ Live(tickets)' \subseteq Live(tickets) \ {t}
      BY <2>3 DEF DeleteTicket, Live, TablesOK
    <3>2. LinksPaired'
      BY <3>1 DEF LinkInv, LinksPaired
    <3> QED
      BY <2>0, <3>1, <3>2 DEF LinkInv, Dropped, Spoken, Doing
  <2>4. CASE ~CreateTicket(s) /\ ~Link(s) /\ ~DeleteTicket(s)
    <3>1. links' = links
      BY <1>2, <2>4 DEF Write, CreateProject, UpdateProject, DeleteProject, DeleteComponent,
         CreateSprint, StartSprint, CloseSprint, DeleteSprint, MoveTicket, Transition,
         AddWatcher, AddComment, EmitMentions, outside, elsewhere, ticketTables
    <3> QED
      BY <1>2, <2>0, <2>4, <3>1, WriteKeepsTickets, LinksKept DEF TicketsKept
  <2> QED
    BY <2>1, <2>2, <2>3, <2>4
<1>3. ASSUME NEW s \in Sessions, NextNumber(s)
      PROVE  LinkInv'
  <2>1. /\ doing[s].op = "create_ticket" /\ doing'[s].op = "create_ticket"
        /\ \A o \in Sessions \ {s} : doing'[o] = doing[o]
        /\ links' = links /\ tickets' = tickets
    BY <1>3 DEF NextNumber, Doing, RequestsOK, outside, ticketTables
  <2> QED
    BY <2>1 DEF LinkInv, LinksPaired, Doing, Live
<1>4. ASSUME NEW s \in Sessions, Speak(s)
      PROVE  LinkInv'
  <2> USE DEF RequestsOK
  <2>1. links' = links /\ Live(tickets)' = Live(tickets) /\ LinksPaired'
    BY <1>4 DEF Speak, rows, Live, LinkInv, LinksPaired
  <2>2. CASE AskLink(s)
    BY <2>1, <2>2, LinkAsked, LinkFound DEF LinkInv, Asked, Doing
  <2>3. CASE AskCreateTicket(s)
    BY <2>1, <2>3, TicketAsked DEF LinkInv, Asked, Doing
  <2>4. CASE AskCreateProject(s)
    BY <2>1, <2>4, ProjectAsked DEF LinkInv, Asked, Doing
  <2>5. CASE AskUpdateProject(s) \/ AskArchiveProject(s)
    BY <2>1, <2>5, ChangeAsked DEF LinkInv, Asked, Doing
  <2>6. CASE AskAddComment(s) \/ AskMention(s)
    BY <2>1, <2>6, TextAsked DEF LinkInv, Asked, Doing
  <2> QED
    BY <1>4, <2>2, <2>3, <2>4, <2>5, <2>6 DEF Speak
<1> QED
  BY <1>1, <1>2, <1>3, <1>4, StepKinds DEF RequestsOK

-----------------------------------------------------------------------------
(* Numbers.                                                                *)

\* Whoever creates a ticket after the step did so before, with the same number.
LEMMA DroppedCreates ==
    ASSUME Dropped, NEW o \in Sessions, Doing(o, "create_ticket")'
    PROVE  Doing(o, "create_ticket") /\ doing'[o] = doing[o]
BY DEF Dropped, Spoken, Doing

\* Neither the projects, nor the sequences, nor the numbers of tickets change.
LEMMA NumbersKept ==
    ASSUME NumberInv, Dropped, TicketsKept, sequences' = sequences,
           Live(projects)' \subseteq Live(projects), Live(projects) \subseteq Live(projects)',
           projects' \in Rows(ProjectIds, Project),
           \A p \in Live(projects) : projects'[p].key = projects[p].key
    PROVE  NumberInv'
<1>1. TablesOK'
  BY DEF NumberInv, TablesOK, TicketsKept
<1>2. OneProjectPerKey'
  BY DEF NumberInv, OneProjectPerKey
<1>3. SequencesLead'
  BY DEF NumberInv, SequencesLead, Behind, TicketsKept
<1>4. \A o \in Sessions : Alive(o)' => Alive(o) /\ doing'[o] = doing[o]
  BY DroppedCreates DEF Alive
<1>5. NumbersInHand'
  <2>1. SUFFICES ASSUME NEW o \in Sessions, Alive(o)'
                 PROVE  InHand(o)'
    BY DEF NumbersInHand
  <2>2. InHand(o) /\ doing[o].project \in Live(projects)
    BY <1>4, <2>1 DEF NumberInv, NumbersInHand, Alive
  <2> QED
    BY <1>4, <2>1, <2>2 DEF InHand, TicketsKept
<1> QED
  BY <1>1, <1>2, <1>3, <1>5 DEF NumberInv

LEMMA UntouchedKept ==
    ASSUME TablesOK, UNCHANGED tickets
    PROVE  TicketsKept
BY DEF TablesOK, TicketsKept, Live

\* A new project has a key of its own, and no ticket yet.
LEMMA CreateProjectNumbers ==
    ASSUME NEW s \in Sessions, RequestsOK, ProjectIdsNew, NumberInv, CreateProject(s)
    PROVE  NumberInv'
<1> DEFINE r == doing[s]
           row == [key |-> r.key, lead |-> r.lead, archived |-> FALSE, version |-> 1]
<1>1. /\ Doing(s, "create_project") /\ ~KeyTaken(r.key)
      /\ projects' = [projects EXCEPT ![r.on] = row]
      /\ sequences' = [sequences EXCEPT ![r.key] = IF @ = Absent THEN 0 ELSE @]
      /\ doing' = [doing EXCEPT ![s] = Idle] /\ tickets' = tickets
  BY DEF CreateProject, End, ticketTables
<1>2. row \in Project /\ row.key = r.key /\ r.key \in Keys
  BY <1>1, WorkspaceAssumption DEF RequestsOK, Project
<1> HIDE DEF row
<1>3. TablesOK'
  BY <1>1, <1>2 DEF NumberInv, TablesOK, Rows, Live
<1>4. /\ Live(projects)' \subseteq Live(projects) \cup {r.on}
      /\ r.on \notin Live(projects) /\ Live(projects) \subseteq Live(projects)'
      /\ \A p \in Live(projects) : projects'[p] = projects[p] /\ projects[p].key # r.key
      /\ r.on \in Live(projects)' => projects'[r.on].key = r.key
  BY <1>1, <1>2 DEF ProjectIdsNew, Live, KeyTaken
<1>5. \A key \in Keys \ {r.key} : sequences'[key] = sequences[key]
  BY <1>1 DEF NumberInv, TablesOK, Rows
<1>6. sequences'[r.key] # Absent
  BY <1>1, <1>2, WorkspaceAssumption DEF NumberInv, TablesOK, Rows
<1>7. \A p \in Live(projects) : projects[p].key \in Keys
  BY DEF NumberInv, TablesOK, Rows, Live, Project
<1>8. OneProjectPerKey'
  BY <1>4 DEF NumberInv, OneProjectPerKey
<1>9. SequencesLead'
  <2>1. \A p \in Live(projects) : sequences'[projects'[p].key] = sequences[projects[p].key]
    BY <1>4, <1>5, <1>7
  <2>2. Live(tickets)' = Live(tickets)
    BY <1>1 DEF Live
  <2>3. ASSUME NEW t \in Live(tickets)
        PROVE  Behind(t)'
    <3>1. /\ tickets[t].project \in Live(projects)
          /\ tickets[t].number <= sequences[projects[tickets[t].project].key]
      BY DEF NumberInv, SequencesLead, Behind
    <3> QED
      BY <1>1, <1>4, <2>1, <3>1 DEF Behind
  <2>4. \A p \in Live(projects)' : sequences'[projects'[p].key] # Absent
    BY <1>4, <1>6, <2>1 DEF NumberInv, SequencesLead
  <2> QED
    BY <2>2, <2>3, <2>4 DEF SequencesLead
<1>10. \A o \in Sessions : Alive(o)' => Alive(o) /\ doing'[o] = doing[o]
  BY <1>1, <1>4 DEF RequestsOK, ProjectIdsNew, Alive, Doing
<1>11. NumbersInHand'
  <2>1. SUFFICES ASSUME NEW o \in Sessions, Alive(o)'
                 PROVE  InHand(o)'
    BY DEF NumbersInHand
  <2>2. Alive(o) /\ doing'[o] = doing[o] /\ doing[o].project \in Live(projects)
    BY <1>10, <2>1 DEF Alive
  <2>3. /\ doing[o].key = projects[doing[o].project].key
        /\ doing[o].key \in Keys /\ doing[o].key # r.key
    BY <1>4, <1>7, <2>2 DEF NumberInv, NumbersInHand, InHand
  <2>4. InHand(o)
    BY <2>2 DEF NumberInv, NumbersInHand
  <2> QED
    BY <1>1, <1>4, <1>5, <1>10, <2>2, <2>3, <2>4 DEF InHand, Live
<1> QED
  BY <1>3, <1>8, <1>9, <1>11 DEF NumberInv

\* The sequence that is dropped is of a project without tickets, in the table
\* or in hand.
LEMMA DeleteProjectNumbers ==
    ASSUME NEW s \in Sessions, RequestsOK, NumberInv, DeleteProject(s)
    PROVE  NumberInv'
<1> DEFINE p == doing[s].on
<1>1. /\ p \in Live(projects) /\ TicketsOf(p) = {}
      /\ projects' = [projects EXCEPT ![p] = Absent]
      /\ sequences' = [sequences EXCEPT ![projects[p].key] = Absent]
      /\ Dropped /\ TicketsKept
  BY WriteDrops, WriteKeepsTickets DEF DeleteProject, Write, CreateTicket, Numbered, Doing,
     NumberInv, RequestsOK
<1>2. TablesOK'
  BY <1>1 DEF NumberInv, TablesOK, Rows, Live, TicketsKept
<1>3. /\ Live(projects)' = Live(projects) \ {p}
      /\ \A q \in Live(projects)' : projects'[q] = projects[q]
  BY <1>1 DEF NumberInv, TablesOK, Rows, Live
<1>4. \A q \in Live(projects)' : sequences'[projects[q].key] = sequences[projects[q].key]
  <2>1. \A q \in Live(projects)' : projects[q].key \in Keys /\ projects[q].key # projects[p].key
    BY <1>1, <1>3 DEF NumberInv, TablesOK, OneProjectPerKey, Rows, Live, Project
  <2> QED
    BY <1>1, <2>1 DEF NumberInv, TablesOK, Rows
<1>5. OneProjectPerKey'
  BY <1>3 DEF NumberInv, OneProjectPerKey
<1>6. SequencesLead'
  <2>1. \A t \in Live(tickets)' : tickets[t].project \in Live(projects) \ {p}
    BY <1>1 DEF NumberInv, SequencesLead, Behind, TicketsKept, TicketsOf
  <2>2. ASSUME NEW t \in Live(tickets)'
        PROVE  Behind(t)'
    <3>1. /\ tickets'[t].project = tickets[t].project /\ tickets'[t].number = tickets[t].number
          /\ tickets[t].project \in Live(projects)'
          /\ tickets[t].number <= sequences[projects[tickets[t].project].key]
      BY <1>1, <1>3, <2>1 DEF NumberInv, SequencesLead, Behind, TicketsKept
    <3>2. /\ projects'[tickets[t].project] = projects[tickets[t].project]
          /\ sequences'[projects[tickets[t].project].key]
               = sequences[projects[tickets[t].project].key]
      BY <1>3, <1>4, <3>1
    <3> QED
      BY <3>1, <3>2 DEF Behind
  <2>3. \A q \in Live(projects)' : sequences'[projects'[q].key] # Absent
    BY <1>3, <1>4 DEF NumberInv, SequencesLead
  <2> QED
    BY <2>2, <2>3 DEF SequencesLead
<1>7. \A o \in Sessions : Alive(o)' =>
        Alive(o) /\ doing'[o] = doing[o] /\ doing[o].project \in Live(projects)'
  BY <1>1, <1>3, DroppedCreates DEF Alive
<1>8. NumbersInHand'
  <2>1. SUFFICES ASSUME NEW o \in Sessions, Alive(o)'
                 PROVE  InHand(o)'
    BY DEF NumbersInHand
  <2>2. InHand(o) /\ doing'[o] = doing[o] /\ doing[o].project \in Live(projects)'
    BY <1>7, <2>1 DEF NumberInv, NumbersInHand
  <2>3. projects'[doing[o].project] = projects[doing[o].project]
        /\ sequences'[doing[o].key] = sequences[doing[o].key]
    BY <1>3, <1>4, <2>2 DEF InHand
  <2> QED
    BY <1>1, <1>7, <2>2, <2>3 DEF InHand, TicketsKept
<1> QED
  BY <1>2, <1>5, <1>6, <1>8 DEF NumberInv

\* The number in hand goes to the ticket.
LEMMA CreateTicketNumbers ==
    ASSUME NEW s \in Sessions, RequestsOK, NumberInv, CreateTicket(s)
    PROVE  NumberInv'
<1> DEFINE r == doing[s]
           row == [project |-> r.project, number |-> r.number, sprint |-> r.sprint,
                   component |-> r.component, terminal |-> FALSE]
<1>1. /\ Alive(s) /\ r.number # 0 /\ r.number \in Nat
      /\ tickets' = [tickets EXCEPT ![r.on] = row]
      /\ UNCHANGED <<projects, sequences>> /\ Dropped /\ ~Doing(s, "create_ticket")'
  BY WriteDrops DEF CreateTicket, Numbered, Alive, Write, RequestsOK, projectTables, End, Doing
<1>2. row.project = r.project /\ row.number = r.number
      /\ {"project", "number"} \subseteq DOMAIN row
  OBVIOUS
<1> HIDE DEF row
<1>3. /\ DOMAIN tickets' = TicketIds
      /\ \A t \in Live(tickets)' : \/ tickets'[t] = row
                                   \/ (t \in Live(tickets) /\ tickets'[t] = tickets[t])
  BY <1>1 DEF NumberInv, TablesOK, Live
<1>4. TablesOK'
  BY <1>1, <1>2, <1>3 DEF NumberInv, TablesOK
<1>5. OneProjectPerKey'
  BY <1>1 DEF NumberInv, OneProjectPerKey, Live
<1>6. r.project \in Live(projects) /\ r.number <= sequences[projects[r.project].key]
  BY <1>1 DEF Alive, NumberInv, NumbersInHand, InHand
<1>7. Live(projects)' = Live(projects)
  BY <1>1 DEF Live
<1>8. SequencesLead'
  BY <1>1, <1>2, <1>3, <1>6, <1>7 DEF NumberInv, SequencesLead, Behind
<1>9. \A o \in Sessions : Alive(o)' => o # s /\ Alive(o) /\ doing'[o] = doing[o]
  BY <1>1, <1>7, DroppedCreates DEF Alive
<1>10. \A o \in Sessions : (Alive(o)' /\ doing[o].number # 0 /\ doing[o].project = r.project)
         => doing[o].number # r.number
  BY <1>1, <1>9 DEF NumberInv, NumbersInHand, InHand
<1>11. NumbersInHand'
  <2>1. SUFFICES ASSUME NEW o \in Sessions, Alive(o)'
                 PROVE  InHand(o)'
    BY DEF NumbersInHand
  <2>2. InHand(o) /\ doing'[o] = doing[o]
    BY <1>9, <2>1 DEF NumberInv, NumbersInHand
  <2>3. doing[o].number # 0 => \A t \in Live(tickets)' :
          tickets'[t].project = doing[o].project => tickets'[t].number # doing[o].number
    BY <1>2, <1>3, <1>10, <2>1, <2>2 DEF InHand
  <2> QED
    BY <1>1, <1>9, <2>2, <2>3 DEF InHand
<1> QED
  BY <1>4, <1>5, <1>8, <1>11 DEF NumberInv

\* The number that is given is ahead of all others of the project.
LEMMA NextNumberNumbers ==
    ASSUME NEW s \in Sessions, RequestsOK, NumberInv, NextNumber(s)
    PROVE  NumberInv'
<1> DEFINE key == doing[s].key
           n == sequences[key] + 1
<1>1. /\ Doing(s, "create_ticket") /\ key \in Keys /\ sequences[key] \in Nat
      /\ doing' = [doing EXCEPT ![s] = [doing[s] EXCEPT !.number = n]]
      /\ sequences' = [sequences EXCEPT ![key] = n]
      /\ UNCHANGED <<projects, tickets>>
  BY WorkspaceAssumption DEF NextNumber, RequestsOK, ticketTables
<1>2. /\ {"op", "project", "key", "number"} \subseteq DOMAIN doing[s]
      /\ DOMAIN doing = Sessions
  BY <1>1 DEF RequestsOK
<1>3. /\ doing'[s].op = doing[s].op /\ doing'[s].project = doing[s].project
      /\ doing'[s].key = key /\ doing'[s].number = n
      /\ \A o \in Sessions \ {s} : doing'[o] = doing[o]
  BY <1>1, <1>2
<1>4. n \in Nat /\ n # 0 /\ sequences[key] < n
  BY <1>1
<1>5. /\ sequences' \in Rows(Keys, Nat) /\ sequences'[key] = n
      /\ \A k \in Keys \ {key} : sequences'[k] = sequences[k]
  BY <1>1, <1>4 DEF NumberInv, TablesOK, Rows
<1>6. Live(projects)' = Live(projects) /\ Live(tickets)' = Live(tickets)
  BY <1>1 DEF Live
<1>7. TablesOK' /\ OneProjectPerKey'
  BY <1>1, <1>5, <1>6 DEF NumberInv, TablesOK, OneProjectPerKey
<1>8. \A p \in Live(projects) : projects[p].key \in Keys
  BY DEF NumberInv, TablesOK, Rows, Live, Project
<1>9. \A k \in Keys, m \in Nat : sequences[k] # Absent /\ m <= sequences[k] => m <= sequences'[k]
  BY <1>4, <1>5 DEF NumberInv, TablesOK, Rows
<1>10. SequencesLead'
  <2>1. \A p \in Live(projects)' : sequences'[projects'[p].key] # Absent
    BY <1>1, <1>4, <1>5, <1>6, <1>8, WorkspaceAssumption DEF NumberInv, SequencesLead
  <2>2. ASSUME NEW t \in Live(tickets)
        PROVE  Behind(t)'
    <3> DEFINE k == projects[tickets[t].project].key
    <3>1. /\ tickets[t].project \in Live(projects) /\ tickets[t].number <= sequences[k]
          /\ k \in Keys /\ sequences[k] # Absent /\ tickets[t].number \in Nat
      BY <1>8 DEF NumberInv, SequencesLead, Behind, TablesOK
    <3>2. tickets[t].number <= sequences'[k]
      BY <1>9, <3>1
    <3> QED
      BY <1>1, <1>6, <3>1, <3>2 DEF Behind
  <2> QED
    BY <1>6, <2>1, <2>2 DEF SequencesLead
<1>11. \A o \in Sessions : Alive(o)' => Alive(o)
  BY <1>1, <1>3, <1>6 DEF Alive, Doing
<1>12. \A o \in Sessions : doing'[o].project = doing[o].project /\ doing'[o].key = doing[o].key
  BY <1>3
<1>13. \A o \in Sessions : Alive(o) =>
         /\ doing[o].number \in Nat /\ doing[o].key \in Keys
         /\ sequences[doing[o].key] # Absent /\ doing[o].number <= sequences[doing[o].key]
         /\ doing[o].key = projects[doing[o].project].key
  BY DEF Alive, NumberInv, NumbersInHand, InHand, SequencesLead, RequestsOK
<1>14. Alive(s) => \A t \in Live(tickets) :
         tickets[t].project = doing[s].project => tickets[t].number # n
  <2>1. SUFFICES ASSUME Alive(s), NEW t \in Live(tickets), tickets[t].project = doing[s].project
                 PROVE  tickets[t].number # n
    OBVIOUS
  <2>2. tickets[t].number \in Nat /\ tickets[t].number <= sequences[key]
    BY <1>13, <2>1 DEF NumberInv, TablesOK, SequencesLead, Behind
  <2> QED
    BY <1>1, <1>4, <2>2
<1>15. Alive(s) => \A o \in Sessions \ {s} :
         (Alive(o) /\ doing[o].project = doing[s].project) => doing[o].number # n
  <2>1. SUFFICES ASSUME Alive(s), NEW o \in Sessions \ {s}, Alive(o),
                        doing[o].project = doing[s].project
                 PROVE  doing[o].number # n
    OBVIOUS
  <2>2. doing[o].number \in Nat /\ doing[o].number <= sequences[key]
    BY <1>13, <2>1
  <2> QED
    BY <1>1, <1>4, <2>2
<1>16. NumbersInHand'
  <2>1. ASSUME NEW o \in Sessions, Alive(o)
        PROVE  InHand(o)'
    <3>1. CASE o = s
      BY <1>1, <1>3, <1>4, <1>5, <1>6, <1>11, <1>13, <1>14, <1>15, <2>1, <3>1 DEF InHand
    <3>2. CASE o # s
      <4>1. doing'[o] = doing[o] /\ doing[o].number <= sequences'[doing[o].key]
        BY <1>3, <1>9, <1>13, <2>1, <3>2
      <4>2. \A q \in Sessions \ {o} :
              (/\ doing[o].number # 0 /\ Alive(q)'
               /\ doing'[q].project = doing'[o].project) => doing'[q].number # doing'[o].number
        BY <1>3, <1>11, <1>12, <1>15, <2>1, <3>2, <4>1 DEF NumberInv, NumbersInHand, InHand
      <4> QED
        BY <1>1, <1>6, <2>1, <4>1, <4>2, ZenonT(60) DEF NumberInv, NumbersInHand, InHand
    <3> QED
      BY <3>1, <3>2
  <2> QED
    BY <1>11, <2>1 DEF NumbersInHand
<1> QED
  BY <1>7, <1>10, <1>16 DEF NumberInv

\* Who begins to create a ticket has the key of the project, and no number.
LEMMA SpeakNumbers ==
    ASSUME NEW s \in Sessions, RequestsOK, NumberInv, Speak(s)
    PROVE  NumberInv'
<1>1. UNCHANGED <<projects, sequences, tickets>> /\ DOMAIN doing = Sessions
  BY DEF Speak, rows, RequestsOK
<1>2. Live(projects)' = Live(projects) /\ Live(tickets)' = Live(tickets)
  BY <1>1 DEF Live
<1>3. TablesOK' /\ OneProjectPerKey' /\ SequencesLead'
  BY <1>1, <1>2 DEF NumberInv, TablesOK, OneProjectPerKey, SequencesLead, Behind
<1>4. /\ \A o \in Sessions \ {s} : doing'[o] = doing[o]
      /\ Doing(s, "create_ticket")' =>
           /\ doing'[s].number = 0 /\ doing'[s].project \in Live(projects)
           /\ doing'[s].key = projects[doing'[s].project].key
  <2>1. CASE AskCreateTicket(s)
    BY <1>1, <2>1, TicketAsked DEF Asked
  <2>2. CASE AskLink(s)
    BY <1>1, <2>2, LinkAsked DEF Asked, Doing
  <2>3. CASE AskCreateProject(s)
    BY <1>1, <2>3, ProjectAsked DEF Asked, Doing
  <2>4. CASE AskUpdateProject(s) \/ AskArchiveProject(s)
    BY <1>1, <2>4, ChangeAsked DEF Asked, Doing
  <2>5. CASE AskAddComment(s) \/ AskMention(s)
    BY <1>1, <2>5, TextAsked DEF Asked, Doing
  <2> QED
    BY <2>1, <2>2, <2>3, <2>4, <2>5 DEF Speak
<1>5. \A p \in Live(projects) : 0 <= sequences[projects[p].key]
  BY DEF NumberInv, TablesOK, SequencesLead, Rows, Live, Project
<1>6. \A o \in Sessions \ {s} : Alive(o)' <=> Alive(o)
  BY <1>2, <1>4 DEF Alive, Doing
<1>7. NumbersInHand'
  <2>1. CASE Alive(s)'
    <3>1. InHand(s)'
      BY <1>1, <1>4, <1>5, <2>1 DEF InHand, Alive
    <3>2. ASSUME NEW o \in Sessions \ {s}, Alive(o)
          PROVE  InHand(o)'
      <4>1. InHand(o)
        BY <3>2 DEF NumberInv, NumbersInHand
      <4>2. doing'[s].number = 0
        BY <1>4, <2>1 DEF Alive
      <4> QED
        BY <1>1, <1>2, <1>4, <1>6, <4>1, <4>2 DEF InHand
    <3> QED
      BY <1>6, <3>1, <3>2 DEF NumbersInHand
  <2>2. CASE ~Alive(s)'
    <3>1. ASSUME NEW o \in Sessions \ {s}, Alive(o)
          PROVE  InHand(o)'
      <4>1. InHand(o)
        BY <3>1 DEF NumberInv, NumbersInHand
      <4> QED
        BY <1>1, <1>2, <1>4, <1>6, <2>2, <4>1 DEF InHand
    <3> QED
      BY <1>6, <2>2, <3>1 DEF NumbersInHand
  <2> QED
    BY <2>1, <2>2
<1> QED
  BY <1>3, <1>7 DEF NumberInv

LEMMA NumberStep ==
    ASSUME RequestsOK, ProjectIdsNew, NumberInv, [Next]_workspaceVars
    PROVE  NumberInv'
<1>1. CASE Quiet
  <2>1. UNCHANGED <<projects, sequences, tickets>> /\ Dropped /\ TicketsKept
    BY <1>1, UntouchedKept DEF Quiet, rows, NumberInv
  <2> QED
    BY <2>1, NumbersKept DEF NumberInv, TablesOK, Live
<1>2. ASSUME NEW s \in Sessions, Write(s)
      PROVE  NumberInv'
  <2>1. CASE CreateProject(s)
    BY <2>1, CreateProjectNumbers
  <2>2. CASE DeleteProject(s)
    BY <2>2, DeleteProjectNumbers
  <2>3. CASE CreateTicket(s)
    BY <2>3, CreateTicketNumbers
  <2>4. CASE ~CreateProject(s) /\ ~DeleteProject(s) /\ ~CreateTicket(s)
    <3>1. sequences' = sequences
      BY <1>2, <2>4 DEF Write, UpdateProject, DeleteComponent, CreateSprint, StartSprint,
         CloseSprint, DeleteSprint, MoveTicket, Transition, DeleteTicket, Link, AddWatcher,
         AddComment, EmitMentions, projectTables, elsewhere
    <3>2. Dropped /\ TicketsKept
      BY <1>2, <2>4, WriteDrops, WriteKeepsTickets DEF RequestsOK, NumberInv
    <3> QED
      BY <1>2, <2>4, <3>1, <3>2, WriteKeepsProjects, NumbersKept DEF NumberInv
  <2> QED
    BY <2>1, <2>2, <2>3, <2>4
<1>3. ASSUME NEW s \in Sessions, NextNumber(s)
      PROVE  NumberInv'
  BY <1>3, NextNumberNumbers
<1>4. ASSUME NEW s \in Sessions, Speak(s)
      PROVE  NumberInv'
  BY <1>4, SpeakNumbers
<1> QED
  BY <1>1, <1>2, <1>3, <1>4, StepKinds DEF RequestsOK

-----------------------------------------------------------------------------
(* The invariant and what follows from it.                                 *)

LEMMA InvInit ==
    ASSUME WorkspaceInit
    PROVE  WorkspaceInv
<1> USE DEF WorkspaceInit, NoRows, Live
<1>1. /\ \A s \in Sessions : doing[s] = Idle
      /\ DOMAIN doing = Sessions
  OBVIOUS
<1>2. /\ Live(projects) = {} /\ Live(sprints) = {} /\ Live(tickets) = {}
      /\ links = {} /\ notices = {} /\ DOMAIN tickets = TicketIds
  OBVIOUS
<1>3. RequestsOK /\ TicketIdsNew /\ ProjectIdsNew /\ CommentIdsNew
  BY <1>1 DEF RequestsOK, TicketIdsNew, ProjectIdsNew, CommentIdsNew, Tells, Doing
<1>4. SprintInv
  BY <1>2 DEF SprintInv, Rows
<1>5. LinkInv /\ NamedOnce
  BY <1>1, <1>2 DEF LinkInv, LinksPaired, NamedOnce, Doing
<1>6. TablesOK
  BY <1>2 DEF TablesOK, Rows
<1>7. OneProjectPerKey /\ SequencesLead /\ NumbersInHand
  BY <1>1, <1>2 DEF OneProjectPerKey, SequencesLead, NumbersInHand, Alive, Doing
<1> QED
  BY <1>3, <1>4, <1>5, <1>6, <1>7 DEF WorkspaceInv, NumberInv

LEMMA InvStep ==
    ASSUME WorkspaceInv, [Next]_workspaceVars
    PROVE  WorkspaceInv'
<1>1. TablesOK
  BY DEF WorkspaceInv, NumberInv
<1> QED
  BY <1>1, RequestsStep, TicketIdsStep, ProjectIdsStep, CommentIdsStep, SprintStep, LinkStep,
     NumberStep, NamedOnceStep DEF WorkspaceInv

LEMMA NumberInvImplies ==
    ASSUME RequestsOK, NumberInv
    PROVE  NumbersAhead
<1>1. \A p \in Live(projects) : sequences[projects[p].key] # Absent
  BY DEF NumberInv, SequencesLead
<1>2. ASSUME NEW t \in Live(tickets)
      PROVE  Behind(t) /\ \A s \in Sessions :
                (Numbered(s) /\ doing[s].project = tickets[t].project)
                    => doing[s].number # tickets[t].number
  BY DEF NumberInv, SequencesLead, Behind, NumbersInHand, InHand, Alive, Numbered
<1> QED
  BY <1>1, <1>2 DEF NumbersAhead, Behind

\* The invariant holds in every state.
THEOREM WorkspaceAlways == Spec => []WorkspaceInv
<1>1. WorkspaceInit => WorkspaceInv
  BY InvInit
<1>2. WorkspaceInv /\ [Next]_workspaceVars => WorkspaceInv'
  BY InvStep
<1> QED
  BY <1>1, <1>2, PTL DEF Spec

\* A project has at most one active sprint, whichever are started, closed and
\* deleted at once (start_sprint, uq_sprints_active_per_project).
THEOREM SprintsOneActive == Spec => []OneActiveSprint
<1>1. WorkspaceInv => OneActiveSprint
  BY SprintInvImplies DEF WorkspaceInv
<1> QED
  BY <1>1, WorkspaceAlways, PTL

\* A link and its inverse come and go together (TicketService.link, cascades).
THEOREM LinksInPairs == Spec => []LinksPaired
<1>1. WorkspaceInv => LinksPaired
  BY DEF WorkspaceInv, LinkInv
<1> QED
  BY <1>1, WorkspaceAlways, PTL

\* No number of a project is given twice, whatever is created, deleted and
\* created again under an old key (nextval, CREATE and DROP SEQUENCE).
THEOREM NumbersNeverAgain == Spec => []NumbersAhead
<1>1. WorkspaceInv => NumbersAhead
  BY NumberInvImplies DEF WorkspaceInv
<1> QED
  BY <1>1, WorkspaceAlways, PTL

\* Nobody is told twice of a text that names him, whoever bears the handles by
\* the time it is stored (emit_body_mentions, add_comment).
THEOREM ToldOnceByName == Spec => []NamedOnce
<1>1. WorkspaceInv => NamedOnce
  BY DEF WorkspaceInv
<1> QED
  BY <1>1, WorkspaceAlways, PTL

-----------------------------------------------------------------------------
(* Accounts: one for an address, one user for a handle, and one account for *)
(* all verifications of a link.  Accounts and links are never deleted and   *)
(* keep their addresses, so what a request has read of an address still     *)
(* holds when it writes.                                                    *)

\* The operations whose requests the invariant speaks of.
AccountOps == {"send_magic_link", "verify_magic_link", "provision_user", "update_handle",
               "update_user_role", "update_user_status"}

\* User u has the address e.
HasEmail(u, e) == u \in Live(users) /\ users[u].email = e

AccountRequestsOK ==
    /\ DOMAIN doing = Sessions
    /\ \A s \in Sessions :
        /\ Doing(s, "send_magic_link") =>
             /\ "on" \in DOMAIN doing[s]
             /\ doing[s].email \in Emails
             /\ doing[s].who = Nobody \/ HasEmail(doing[s].who, doing[s].email)
        /\ Doing(s, "verify_magic_link") =>
             /\ doing[s].on \in Live(tokens) /\ doing[s].who \in UserIds
             /\ doing[s].new \/ HasEmail(doing[s].who, tokens[doing[s].on].email)
        /\ Doing(s, "provision_user") =>
             /\ doing[s].on \in UserIds /\ doing[s].email \in Emails
             /\ doing[s].new \/ doing[s].on \in Live(users)
        /\ Doing(s, "update_handle") =>
             doing[s].on \in Live(users) /\ doing[s].handle \in Handles
        /\ Doing(s, "update_user_role") =>
             doing[s].on \in Live(users) /\ doing[s].role \in {"user", "admin"}
        /\ Doing(s, "update_user_status") =>
             doing[s].on \in Live(users) /\ doing[s].active \in BOOLEAN

\* The id of a link that is about to be stored is nobody else's.
TokenIdsNew ==
    \A s \in Sessions : Doing(s, "send_magic_link") =>
        /\ doing[s].on \notin Live(tokens)
        /\ \A o \in Sessions \ {s} : Doing(o, "send_magic_link") => doing[o].on # doing[s].on

AccountTablesOK ==
    /\ users \in Rows(UserIds, User)
    /\ tokens \in Rows(TokenIds, Token)
    /\ signIns \in [TokenIds -> SUBSET UserIds]

\* users.email and users.handle.
UniqueUsers ==
    \A u, v \in Live(users) :
        (users[u].email = users[v].email \/ users[u].handle = users[v].handle) => u = v

\* The account of a link has the link's address; so has whom it signed in.
LinksToAddress ==
    /\ \A t \in Live(tokens) :
        tokens[t].user = Nobody \/ HasEmail(tokens[t].user, tokens[t].email)
    /\ \A t \in TokenIds : \A u \in signIns[t] :
        t \in Live(tokens) /\ HasEmail(u, tokens[t].email)

AccountInv ==
    AccountRequestsOK /\ TokenIdsNew /\ AccountTablesOK /\ UniqueUsers /\ LinksToAddress

-----------------------------------------------------------------------------
(* Handles.                                                                *)

\* Some number is the smallest.
LEMMA LeastNumber ==
    ASSUME NEW N \in SUBSET Nat, N # {}
    PROVE  \E n \in N : \A m \in N : n <= m
<1> DEFINE R == OpToRel(<, Nat)
<1>1. IsWellFoundedOn(R, Nat)
  BY NatLessThanWellFounded
<1>2. \A m, n \in N : m < n => <<m, n>> \in R
  BY DEF OpToRel
<1> HIDE DEF R
<1>3. PICK n \in N : \A m \in N : <<m, n>> \notin R
  BY <1>1, WFMin
<1>4. \A m \in N : ~(m < n)
  BY <1>2, <1>3
<1>5. \A m \in N : n <= m
  BY <1>4
<1> QED
  BY <1>5

\* A derived handle is one that nobody has.
LEMMA FillHandleFree ==
    ASSUME NEW table, NEW base \in Bases, HandleLeft(table, base)
    PROVE  FillHandle(table, base) \in Handles /\ FillHandle(table, base) \notin HandlesOf(table)
<1> DEFINE N == {n \in 1..MaxHandle : <<base, n>> \notin HandlesOf(table)}
<1>1. N # {} /\ N \in SUBSET Nat
  BY WorkspaceAssumption DEF HandleLeft
<1>2. PICK n \in N : \A m \in N : n <= m
  BY <1>1, LeastNumber
<1> DEFINE h == <<base, n>>
           P(x) == /\ x \notin HandlesOf(table)
                   /\ \A m \in 1..(x[2] - 1) : <<base, m>> \in HandlesOf(table)
<1>3. h \in {base} \X (1..MaxHandle) /\ P(h)
  <2>1. n \in 1..MaxHandle /\ h \notin HandlesOf(table)
    BY <1>2
  <2>2. \A m \in 1..(n - 1) : m \in 1..MaxHandle /\ ~(n <= m)
    BY <2>1, WorkspaceAssumption
  <2> QED
    BY <1>2, <2>1, <2>2
<1>4. FillHandle(table, base) = CHOOSE x \in {base} \X (1..MaxHandle) : P(x)
  BY DEF FillHandle
<1>5. /\ FillHandle(table, base) \in {base} \X (1..MaxHandle)
      /\ P(FillHandle(table, base))
  BY <1>3, <1>4
<1> QED
  BY <1>5 DEF Handles

-----------------------------------------------------------------------------
(* What a step does to the requests and to the accounts.                   *)

\* Who does something else after the step did it before.
AccountsDropped ==
    /\ DOMAIN doing' = Sessions
    /\ \A o \in Sessions :
        doing'[o] = doing[o] \/ (\A op \in AccountOps : ~Doing(o, op)')

accounts == <<users, tokens, signIns>>

\* Nothing the invariant is about changes, but that requests may end.
AccountsQuiet == AccountsDropped /\ UNCHANGED accounts

\* The asking for an operation that the invariant does not speak of.
LEMMA AccountAskDrops ==
    ASSUME NEW s \in Sessions, DOMAIN doing = Sessions, NEW r, Ask(s, r), r.op \notin AccountOps
    PROVE  AccountsDropped
BY DEF Ask, AccountsDropped, Doing

LEMMA AccountOtherAskDrops ==
    ASSUME NEW s \in Sessions, DOMAIN doing = Sessions,
           AskPlanning(s) \/ AskAgent(s) \/ AskAddComment(s) \/ AskMention(s)
    PROVE  AccountsDropped
<1> USE DEF AccountOps
<1>1. CASE AskCreateProject(s)
  BY <1>1, AccountAskDrops DEF AskCreateProject
<1>2. CASE AskUpdateProject(s)
  BY <1>2, AccountAskDrops DEF AskUpdateProject
<1>3. CASE AskArchiveProject(s)
  BY <1>3, AccountAskDrops DEF AskArchiveProject
<1>4. CASE AskDeleteProject(s)
  BY <1>4, AccountAskDrops DEF AskDeleteProject
<1>5. CASE AskMember(s)
  BY <1>5, AccountAskDrops DEF AskMember
<1>6. CASE AskComponent(s)
  BY <1>6, AccountAskDrops DEF AskComponent
<1>7. CASE AskCreateLesson(s)
  BY <1>7, AccountAskDrops DEF AskCreateLesson
<1>8. CASE AskCreateSprint(s)
  BY <1>8, AccountAskDrops DEF AskCreateSprint
<1>9. CASE AskSprint(s)
  BY <1>9, AccountAskDrops DEF AskSprint
<1>10. CASE AskMoveTicket(s)
  BY <1>10, AccountAskDrops DEF AskMoveTicket
<1>11. CASE AskCreateTicket(s)
  BY <1>11, AccountAskDrops DEF AskCreateTicket
<1>12. CASE AskTransition(s)
  BY <1>12, AccountAskDrops DEF AskTransition
<1>13. CASE AskDeleteTicket(s)
  BY <1>13, AccountAskDrops DEF AskDeleteTicket
<1>14. CASE AskLink(s)
  BY <1>14, AccountAskDrops DEF AskLink
<1>15. CASE AskWatcher(s)
  BY <1>15, AccountAskDrops DEF AskWatcher
<1>16. CASE AskAttach(s)
  BY <1>16, AccountAskDrops DEF AskAttach
<1>17. CASE AskAgent(s)
  BY <1>17, AccountAskDrops DEF AskAgent
<1>18. CASE AskAddComment(s)
  BY <1>18, AccountAskDrops DEF AskAddComment
<1>19. CASE AskMention(s)
  BY <1>19, AccountAskDrops DEF AskMention
<1> QED
  BY <1>1, <1>2, <1>3, <1>4, <1>5, <1>6, <1>7, <1>8, <1>9, <1>10, <1>11, <1>12, <1>13, <1>14,
     <1>15, <1>16, <1>17, <1>18, <1>19 DEF AskPlanning

LEMMA AccountEndDrops ==
    ASSUME NEW s \in Sessions, DOMAIN doing = Sessions, End(s)
    PROVE  AccountsDropped
BY DEF End, AccountsDropped, Doing

\* Projects, sprints and tickets do not touch accounts.
LEMMA PlanningIsQuiet ==
    ASSUME NEW s \in Sessions, DOMAIN doing = Sessions, DoPlanning(s)
    PROVE  AccountsQuiet
<1>1. UNCHANGED accounts
  BY DEF DoPlanning, CreateProject, UpdateProject, DeleteProject, WriteMember, WriteComponent,
     DeleteComponent, CreateLesson, CreateSprint, StartSprint, CloseSprint, DeleteSprint,
     MoveTicket, NextNumber, CreateTicket, Transition, DeleteTicket, Link, AddWatcher,
     RemoveWatcher, StoreBytes, AddAttachment, DeleteAttachment, outside, accountTables, accounts
<1>2. CASE NextNumber(s)
  BY <1>1, <1>2 DEF NextNumber, AccountsQuiet, AccountsDropped, Doing, AccountOps
<1>3. CASE StoreBytes(s)
  BY <1>1, <1>3 DEF StoreBytes, AccountsQuiet, AccountsDropped
<1>4. CASE ~NextNumber(s) /\ ~StoreBytes(s)
  <2>1. End(s)
    BY <1>4 DEF DoPlanning, CreateProject, UpdateProject, DeleteProject, WriteMember,
       WriteComponent, DeleteComponent, CreateLesson, CreateSprint, StartSprint, CloseSprint,
       DeleteSprint, MoveTicket, CreateTicket, Transition, DeleteTicket, Link, AddWatcher,
       RemoveWatcher, AddAttachment, DeleteAttachment
  <2> QED
    BY <1>1, <2>1, AccountEndDrops DEF AccountsQuiet
<1> QED
  BY <1>2, <1>3, <1>4

\* A request the invariant speaks of begins.
AccountSpeak(s) ==
    /\ AskSendLink(s) \/ AskVerify(s) \/ AskCallback(s) \/ AskHandle(s) \/ AskAccount(s)
    /\ UNCHANGED accounts

\* The writing steps on the accounts.
AccountWrite(s) ==
    \/ SendLink(s) \/ Verify(s) \/ Callback(s) \/ UpdateHandle(s) \/ UpdateRole(s)
    \/ UpdateStatus(s)

LEMMA AccountStepKinds ==
    ASSUME DOMAIN doing = Sessions, [Next]_workspaceVars
    PROVE  AccountsQuiet \/ TimePasses \/ \E s \in Sessions : AccountSpeak(s) \/ AccountWrite(s)
<1> USE DEF accounts, accountTables, outside, elsewhere
<1>1. CASE UNCHANGED workspaceVars
  BY <1>1 DEF workspaceVars, AccountsQuiet, AccountsDropped
<1>2. ASSUME NEW s \in Sessions, AskPlanning(s) \/ AskIdentity(s)
      PROVE  AccountsQuiet \/ AccountSpeak(s)
  <2>1. UNCHANGED accounts
    BY <1>2 DEF AskPlanning, AskIdentity
  <2> QED
    BY <1>2, <2>1, AccountOtherAskDrops DEF AskIdentity, AccountSpeak, AccountsQuiet
<1>3. ASSUME NEW s \in Sessions, DoIdentity(s)
      PROVE  AccountsQuiet \/ AccountWrite(s)
  <2>1. CASE CreateAgent(s) \/ RevokeAgent(s) \/ AddComment(s) \/ EmitMentions(s)
    <3>1. End(s) /\ UNCHANGED accounts
      BY <2>1 DEF CreateAgent, RevokeAgent, AddComment, EmitMentions
    <3> QED
      BY <3>1, AccountEndDrops DEF AccountsQuiet
  <2> QED
    BY <1>3, <2>1 DEF DoIdentity, AccountWrite
<1>4. ASSUME NEW s \in Sessions, Abandon(s)
      PROVE  AccountsQuiet
  BY <1>4, AccountEndDrops DEF Abandon, AccountsQuiet
<1> QED
  BY <1>1, <1>2, <1>3, <1>4, PlanningIsQuiet DEF Next

LEMMA AccountWriteEnds ==
    ASSUME NEW s \in Sessions, AccountWrite(s)
    PROVE  End(s)
BY DEF AccountWrite, SendLink, Verify, Callback, UpdateHandle, UpdateRole, UpdateStatus

-----------------------------------------------------------------------------
(* What the requests ask for.                                              *)

LEMMA SendLinkAsked ==
    ASSUME NEW s \in Sessions, DOMAIN doing = Sessions, AskSendLink(s)
    PROVE  /\ Asked(s, "send_magic_link")
           /\ doing'[s].on \in TokenIds /\ Fresh(tokens, doing'[s].on)
           /\ "on" \in DOMAIN doing'[s] /\ doing'[s].email \in Emails
           /\ doing'[s].who = Nobody \/ HasEmail(doing'[s].who, doing'[s].email)
<1>1. PICK t \in TokenIds, e \in Emails :
        /\ Fresh(tokens, t)
        /\ \E u \in (IF ByEmail(e) = {} THEN {Nobody} ELSE ByEmail(e)) :
             Ask(s, [op |-> "send_magic_link", user |-> Nobody, on |-> t, email |-> e,
                     who |-> u])
  BY DEF AskSendLink
<1>2. PICK u \in (IF ByEmail(e) = {} THEN {Nobody} ELSE ByEmail(e)) :
        Ask(s, [op |-> "send_magic_link", user |-> Nobody, on |-> t, email |-> e, who |-> u])
  BY <1>1
<1>3. u = Nobody \/ HasEmail(u, e)
  BY <1>2 DEF ByEmail, HasEmail
<1> QED
  BY <1>1, <1>2, <1>3, AskIsAsked

LEMMA VerifyAsked ==
    ASSUME NEW s \in Sessions, DOMAIN doing = Sessions, AccountTablesOK, LinksToAddress,
           AskVerify(s)
    PROVE  /\ Asked(s, "verify_magic_link")
           /\ doing'[s].on \in Live(tokens) /\ doing'[s].who \in UserIds
           /\ doing'[s].new \/ HasEmail(doing'[s].who, tokens[doing'[s].on].email)
<1>1. PICK t \in Live(tokens), u \in UserIds :
        /\ LET known == IF tokens[t].user \in Live(users) THEN {tokens[t].user}
                        ELSE ByEmail(tokens[t].email)
           IN  IF known # {} THEN u \in known ELSE Fresh(users, u)
        /\ Ask(s, [op |-> "verify_magic_link", user |-> Nobody, on |-> t, who |-> u,
                   new |-> users[u] = Absent])
  BY DEF AskVerify
<1> DEFINE new == users[u] = Absent
<1>2. new \/ HasEmail(u, tokens[t].email)
  <2>1. CASE tokens[t].user \in Live(users)
    <3>1. u = tokens[t].user /\ tokens[t].user # Nobody
      BY <1>1, <2>1, WorkspaceAssumption DEF Live, AccountTablesOK, Rows, People
    <3> QED
      BY <3>1 DEF LinksToAddress
  <2>2. CASE tokens[t].user \notin Live(users)
    BY <1>1, <2>2 DEF ByEmail, HasEmail, Fresh
  <2> QED
    BY <2>1, <2>2
<1>3. Ask(s, [op |-> "verify_magic_link", user |-> Nobody, on |-> t, who |-> u, new |-> new])
  BY <1>1
<1> HIDE DEF new
<1> QED
  BY <1>2, <1>3, AskIsAsked

LEMMA CallbackAsked ==
    ASSUME NEW s \in Sessions, DOMAIN doing = Sessions, AskCallback(s)
    PROVE  /\ Asked(s, "provision_user")
           /\ doing'[s].on \in UserIds /\ doing'[s].email \in Emails
           /\ doing'[s].new \/ doing'[s].on \in Live(users)
<1>1. PICK e \in Emails, u \in UserIds :
        /\ IF ByEmail(e) # {} THEN u \in ByEmail(e) ELSE Fresh(users, u)
        /\ Ask(s, [op |-> "provision_user", user |-> Nobody, on |-> u, email |-> e,
                   new |-> users[u] = Absent])
  BY DEF AskCallback
<1> DEFINE new == users[u] = Absent
<1>2. new \/ u \in Live(users)
  BY <1>1 DEF ByEmail, Fresh
<1>3. Ask(s, [op |-> "provision_user", user |-> Nobody, on |-> u, email |-> e, new |-> new])
  BY <1>1
<1> HIDE DEF new
<1> QED
  BY <1>2, <1>3, AskIsAsked

LEMMA HandleAsked ==
    ASSUME NEW s \in Sessions, DOMAIN doing = Sessions, AskHandle(s)
    PROVE  /\ Asked(s, "update_handle")
           /\ doing'[s].on \in Live(users) /\ doing'[s].handle \in Handles
BY AskIsAsked DEF AskHandle

LEMMA AccountAsked ==
    ASSUME NEW s \in Sessions, DOMAIN doing = Sessions, AskAccount(s)
    PROVE  \/ /\ Asked(s, "update_user_role")
              /\ doing'[s].on \in Live(users) /\ doing'[s].role \in {"user", "admin"}
           \/ /\ Asked(s, "update_user_status")
              /\ doing'[s].on \in Live(users) /\ doing'[s].active \in BOOLEAN
<1>1. PICK u \in Live(users), by \in CurrentUsers :
        \/ \E role \in {"user", "admin"} :
             Ask(s, [op |-> "update_user_role", user |-> by, on |-> u, role |-> role])
        \/ \E active \in BOOLEAN :
             Ask(s, [op |-> "update_user_status", user |-> by, on |-> u, active |-> active])
  BY DEF AskAccount
<1>2. ASSUME NEW role \in {"user", "admin"},
             Ask(s, [op |-> "update_user_role", user |-> by, on |-> u, role |-> role])
      PROVE  /\ Asked(s, "update_user_role")
             /\ doing'[s].on \in Live(users) /\ doing'[s].role \in {"user", "admin"}
  BY <1>2, AskIsAsked
<1>3. ASSUME NEW active \in BOOLEAN,
             Ask(s, [op |-> "update_user_status", user |-> by, on |-> u, active |-> active])
      PROVE  /\ Asked(s, "update_user_status")
             /\ doing'[s].on \in Live(users) /\ doing'[s].active \in BOOLEAN
  BY <1>3, AskIsAsked
<1> QED
  BY <1>1, <1>2, <1>3

LEMMA SpeakRequests ==
    ASSUME NEW s \in Sessions, AccountInv, AccountSpeak(s)
    PROVE  AccountRequestsOK' /\ TokenIdsNew'
<1> USE DEF AccountInv
<1>1. DOMAIN doing = Sessions /\ UNCHANGED accounts
  BY DEF AccountRequestsOK, AccountSpeak
<1>2. /\ Live(users)' = Live(users) /\ Live(tokens)' = Live(tokens) /\ tokens' = tokens
      /\ \A u, e : HasEmail(u, e)' <=> HasEmail(u, e)
  BY <1>1 DEF accounts, Live, HasEmail
<1>3. CASE AskSendLink(s)
  <2>1. doing'[s].on \notin Live(tokens)
    BY <1>1, <1>3, SendLinkAsked DEF Fresh, Live
  <2>2. \A o \in Sessions : Doing(o, "send_magic_link") => doing[o].on # doing'[s].on
    BY <1>1, <1>3, SendLinkAsked DEF Fresh, Doing, AccountRequestsOK
  <2> QED
    BY <1>1, <1>2, <1>3, <2>1, <2>2, SendLinkAsked DEF AccountRequestsOK, TokenIdsNew, Asked, Doing
<1>4. CASE AskVerify(s)
  BY <1>1, <1>2, <1>4, VerifyAsked DEF AccountRequestsOK, TokenIdsNew, Asked, Doing
<1>5. CASE AskCallback(s)
  BY <1>1, <1>2, <1>5, CallbackAsked DEF AccountRequestsOK, TokenIdsNew, Asked, Doing
<1>6. CASE AskHandle(s)
  BY <1>1, <1>2, <1>6, HandleAsked DEF AccountRequestsOK, TokenIdsNew, Asked, Doing
<1>7. CASE AskAccount(s)
  BY <1>1, <1>2, <1>7, AccountAsked DEF AccountRequestsOK, TokenIdsNew, Asked, Doing
<1> QED
  BY <1>3, <1>4, <1>5, <1>6, <1>7 DEF AccountSpeak

-----------------------------------------------------------------------------
(* What a step does to the accounts and the links.                         *)

\* User u will have the address e.
HasEmailNext(u, e) == u \in Live(users)' /\ users'[u].email = e

\* Addresses stay.
AddressesStay ==
    /\ \A u, e : HasEmail(u, e) => HasEmailNext(u, e)
    /\ \A t \in Live(tokens) : t \in Live(tokens)' /\ tokens'[t].email = tokens[t].email

RowsInv == AccountTablesOK /\ UniqueUsers /\ LinksToAddress

\* A row that keeps the address, or is new, and takes nobody's address or handle.
LEMMA UserWritten ==
    ASSUME AccountTablesOK, UniqueUsers, NEW u \in UserIds, NEW row \in User,
           users' = [users EXCEPT ![u] = row],
           users[u] = Absent \/ row.email = users[u].email,
           \A v \in Live(users) \ {u} : row.email # users[v].email /\ row.handle # users[v].handle
    PROVE  /\ users' \in Rows(UserIds, User) /\ UniqueUsers'
           /\ \A v, e : HasEmail(v, e) => HasEmailNext(v, e)
           /\ HasEmailNext(u, row.email)
<1>1. row # Absent
  BY WorkspaceAssumption
<1>2. /\ users' \in Rows(UserIds, User) /\ Live(users)' = Live(users) \cup {u}
      /\ users'[u] = row /\ \A v \in Live(users) \ {u} : users'[v] = users[v]
  BY <1>1 DEF AccountTablesOK, Rows, Live
<1>3. UniqueUsers'
  <2>1. SUFFICES ASSUME NEW a \in Live(users) \cup {u}, NEW b \in Live(users) \cup {u},
                        a # b
                 PROVE  /\ users'[a].email # users'[b].email
                        /\ users'[a].handle # users'[b].handle
    BY <1>2 DEF UniqueUsers
  <2>2. CASE a = u
    BY <1>2, <2>1, <2>2
  <2>3. CASE b = u
    BY <1>2, <2>1, <2>3
  <2>4. CASE a # u /\ b # u
    BY <1>2, <2>1, <2>4 DEF UniqueUsers
  <2> QED
    BY <2>2, <2>3, <2>4
<1>4. \A v, e : HasEmail(v, e) => HasEmailNext(v, e)
  BY <1>2 DEF HasEmail, HasEmailNext, Live
<1> QED
  BY <1>2, <1>3, <1>4 DEF HasEmailNext

\* The insert takes a free address, and the trigger a free handle.
LEMMA UserInserted ==
    ASSUME AccountTablesOK, UniqueUsers, NEW u \in UserIds, NEW e \in Emails, NEW oid \in BOOLEAN,
           InsertUser(u, e, oid)
    PROVE  /\ users' \in Rows(UserIds, User) /\ UniqueUsers'
           /\ \A v, f : HasEmail(v, f) => HasEmailNext(v, f)
           /\ HasEmailNext(u, e)
<1> DEFINE h == FillHandle(users, BaseOf[e])
           row == [email |-> e, oid |-> oid, handle |-> h, cooling |-> FALSE, role |-> "user",
                   active |-> TRUE]
<1>1. BaseOf[e] \in Bases
  BY WorkspaceAssumption
<1>2. h \in Handles /\ h \notin HandlesOf(users)
  BY <1>1, FillHandleFree DEF InsertUser
<1>3. users[u] = Absent /\ ByEmail(e) = {} /\ users' = [users EXCEPT ![u] = row]
  BY DEF InsertUser
<1>4. row \in User /\ row.email = e /\ row.handle = h
  BY <1>2 DEF User
<1>5. \A v \in Live(users) : e # users[v].email /\ h # users[v].handle
  BY <1>2, <1>3 DEF ByEmail, HandlesOf
<1> HIDE DEF row, h
<1> QED
  BY <1>3, <1>4, <1>5, UserWritten

\* A change of columns that are no keys.
LEMMA UserChanged ==
    ASSUME AccountTablesOK, UniqueUsers, NEW u \in Live(users), NEW row \in User,
           users' = [users EXCEPT ![u] = row],
           row.email = users[u].email, row.handle = users[u].handle
    PROVE  /\ users' \in Rows(UserIds, User) /\ UniqueUsers'
           /\ \A v, e : HasEmail(v, e) => HasEmailNext(v, e)
<1>1. u \in UserIds
  BY DEF AccountTablesOK, Rows, Live
<1>2. \A v \in Live(users) \ {u} : row.email # users[v].email /\ row.handle # users[v].handle
  BY DEF UniqueUsers
<1> QED
  BY <1>1, <1>2, UserWritten

\* Where no link and no sign-in changes.
LEMMA LinksStay ==
    ASSUME RowsInv, UNCHANGED <<tokens, signIns>>, users' \in Rows(UserIds, User), UniqueUsers',
           \A v, e : HasEmail(v, e) => HasEmailNext(v, e)
    PROVE  RowsInv' /\ AddressesStay
BY DEF RowsInv, AccountTablesOK, LinksToAddress, AddressesStay, HasEmail, HasEmailNext, Live

LEMMA NothingWritten ==
    ASSUME RowsInv, UNCHANGED accounts
    PROVE  RowsInv' /\ AddressesStay
BY DEF RowsInv, AccountTablesOK, LinksToAddress, UniqueUsers, AddressesStay, Live, HasEmail,
   HasEmailNext, accounts

LEMMA TimeWrites ==
    ASSUME RowsInv, TimePasses
    PROVE  RowsInv' /\ AddressesStay /\ doing' = doing /\ Live(tokens)' = Live(tokens)
<1>1. ASSUME NEW t \in TokenIds, Expire(t)
      PROVE  RowsInv' /\ AddressesStay /\ doing' = doing /\ Live(tokens)' = Live(tokens)
  <2> DEFINE row == [tokens[t] EXCEPT !.expired = TRUE]
  <2>1. /\ t \in Live(tokens) /\ tokens' = [tokens EXCEPT ![t] = row]
        /\ UNCHANGED <<users, signIns, doing>>
    BY <1>1 DEF Expire
  <2>2. tokens[t] \in Token
    BY <2>1 DEF RowsInv, AccountTablesOK, Rows, Live
  <2>3. /\ row \in Token /\ row # Absent
        /\ row.email = tokens[t].email /\ row.user = tokens[t].user
    BY <2>2, WorkspaceAssumption DEF Token
  <2> HIDE DEF row
  <2>4. /\ tokens' \in Rows(TokenIds, Token) /\ Live(tokens)' = Live(tokens)
        /\ \A o \in Live(tokens) :
              tokens'[o].email = tokens[o].email /\ tokens'[o].user = tokens[o].user
    BY <2>1, <2>3 DEF RowsInv, AccountTablesOK, Rows, Live
  <2>5. Live(users)' = Live(users) /\ \A u, e : HasEmailNext(u, e) <=> HasEmail(u, e)
    BY <2>1 DEF Live, HasEmail, HasEmailNext
  <2>6. RowsInv' /\ AddressesStay
    <3>1. AccountTablesOK' /\ UniqueUsers'
      BY <2>1, <2>4, <2>5 DEF RowsInv, AccountTablesOK, UniqueUsers
    <3>2. AddressesStay
      BY <2>4, <2>5 DEF AddressesStay
    <3>3. \A o \in Live(tokens) :
            tokens'[o].user = Nobody \/ HasEmailNext(tokens'[o].user, tokens'[o].email)
      BY <2>4, <2>5 DEF RowsInv, LinksToAddress
    <3>4. \A o \in TokenIds : \A u \in signIns'[o] :
            o \in Live(tokens) /\ HasEmailNext(u, tokens'[o].email)
      BY <2>1, <2>4, <2>5 DEF RowsInv, LinksToAddress
    <3>5. LinksToAddress'
      BY <2>4, <3>3, <3>4 DEF LinksToAddress, HasEmail, HasEmailNext
    <3> QED
      BY <3>1, <3>2, <3>5 DEF RowsInv
  <2> QED
    BY <2>1, <2>4, <2>6
<1>2. ASSUME NEW u \in UserIds, CoolDown(u)
      PROVE  RowsInv' /\ AddressesStay /\ doing' = doing /\ Live(tokens)' = Live(tokens)
  <2> DEFINE row == [users[u] EXCEPT !.cooling = FALSE]
  <2>1. /\ u \in Live(users) /\ users' = [users EXCEPT ![u] = row]
        /\ UNCHANGED <<tokens, signIns, doing>>
    BY <1>2 DEF CoolDown
  <2>2. users[u] \in User
    BY <2>1 DEF RowsInv, AccountTablesOK, Rows, Live
  <2>3. row \in User /\ row.email = users[u].email /\ row.handle = users[u].handle
    BY <2>2 DEF User
  <2> HIDE DEF row
  <2> QED
    BY <2>1, <2>3, UserChanged, LinksStay DEF RowsInv, Live
<1> QED
  BY <1>1, <1>2 DEF TimePasses

LEMMA SendLinkWrites ==
    ASSUME NEW s \in Sessions, AccountInv, SendLink(s)
    PROVE  /\ RowsInv' /\ AddressesStay
           /\ Live(tokens)' \subseteq Live(tokens) \cup {doing[s].on}
<1> DEFINE r == doing[s]
           row == [email |-> r.email, user |-> r.who, consumed |-> FALSE, expired |-> FALSE]
<1>1. /\ Doing(s, "send_magic_link") /\ tokens' = [tokens EXCEPT ![r.on] = row]
      /\ UNCHANGED <<users, signIns>>
  BY DEF SendLink
<1>2. /\ r.email \in Emails
      /\ r.who = Nobody \/ HasEmail(r.who, r.email)
      /\ r.on \notin Live(tokens)
  BY <1>1 DEF AccountInv, AccountRequestsOK, TokenIdsNew
<1>3. r.who \in UserIds \cup {Nobody}
  BY <1>2 DEF HasEmail, Live, AccountInv, AccountTablesOK, Rows
<1>4. row \in Token /\ row.email = r.email /\ row.user = r.who
  BY <1>2, <1>3 DEF Token
<1> HIDE DEF row
<1>5. /\ tokens' \in Rows(TokenIds, Token) /\ Live(tokens) \subseteq Live(tokens)'
      /\ Live(tokens)' \subseteq Live(tokens) \cup {r.on}
      /\ \A t \in Live(tokens) : tokens'[t] = tokens[t]
      /\ r.on \in Live(tokens)' => tokens'[r.on] = row
  BY <1>1, <1>2, <1>4 DEF AccountInv, AccountTablesOK, Rows, Live
<1>6. Live(users)' = Live(users) /\ \A u, e : HasEmailNext(u, e) <=> HasEmail(u, e)
  BY <1>1 DEF Live, HasEmail, HasEmailNext
<1>7. AccountTablesOK' /\ UniqueUsers' /\ AddressesStay
  BY <1>1, <1>5, <1>6 DEF AccountInv, AccountTablesOK, UniqueUsers, AddressesStay
<1>8. \A t \in Live(tokens)' :
         tokens'[t].user = Nobody \/ HasEmailNext(tokens'[t].user, tokens'[t].email)
  BY <1>2, <1>4, <1>5, <1>6 DEF AccountInv, LinksToAddress
<1>9. \A t \in TokenIds : \A u \in signIns'[t] :
        t \in Live(tokens)' /\ HasEmailNext(u, tokens'[t].email)
  BY <1>1, <1>5, <1>6 DEF AccountInv, LinksToAddress
<1> QED
  BY <1>5, <1>7, <1>8, <1>9 DEF RowsInv, LinksToAddress, HasEmail, HasEmailNext

\* Whom a verification signs in has the address of the link.
LEMMA VerifyWrites ==
    ASSUME NEW s \in Sessions, AccountInv, Verify(s)
    PROVE  RowsInv' /\ AddressesStay /\ Live(tokens)' = Live(tokens)
<1> DEFINE r == doing[s]
           t == r.on
           row == [tokens[t] EXCEPT !.consumed = TRUE,
                                    !.user = IF @ = Nobody THEN r.who ELSE @]
<1>1. /\ Doing(s, "verify_magic_link")
      /\ IF r.new THEN InsertUser(r.who, tokens[t].email, FALSE) ELSE UNCHANGED users
      /\ tokens' = [tokens EXCEPT ![t] = row]
      /\ signIns' = [signIns EXCEPT ![t] = @ \cup {r.who}]
  BY DEF Verify
<1>2. /\ t \in Live(tokens) /\ r.who \in UserIds
      /\ r.new \/ HasEmail(r.who, tokens[t].email)
  BY <1>1 DEF AccountInv, AccountRequestsOK
<1>3. t \in TokenIds /\ tokens[t] \in Token
  BY <1>2 DEF AccountInv, AccountTablesOK, Rows, Live
<1>4. /\ users' \in Rows(UserIds, User) /\ UniqueUsers'
      /\ \A v, f : HasEmail(v, f) => HasEmailNext(v, f)
      /\ HasEmailNext(r.who, tokens[t].email)
  <2>1. CASE r.new
    <3>1. InsertUser(r.who, tokens[t].email, FALSE) /\ tokens[t].email \in Emails
      BY <1>1, <1>3, <2>1 DEF Token
    <3> QED
      BY <1>2, <3>1, UserInserted DEF AccountInv
  <2>2. CASE ~r.new
    <3>1. users' = users /\ HasEmail(r.who, tokens[t].email)
      BY <1>1, <1>2, <2>2
    <3>2. \A v, f : HasEmail(v, f) => HasEmailNext(v, f)
      BY <3>1 DEF HasEmail, HasEmailNext, Live
    <3>3. users' \in Rows(UserIds, User) /\ UniqueUsers'
      BY <3>1 DEF AccountInv, AccountTablesOK, UniqueUsers, Live
    <3> QED
      BY <3>1, <3>2, <3>3
  <2> QED
    BY <2>1, <2>2
<1>5. /\ row \in Token /\ row.email = tokens[t].email /\ row # Absent
      /\ row.user = IF tokens[t].user = Nobody THEN r.who ELSE tokens[t].user
  BY <1>2, <1>3, WorkspaceAssumption DEF Token
<1> HIDE DEF row
<1>6. /\ tokens' \in Rows(TokenIds, Token) /\ Live(tokens)' = Live(tokens)
      /\ \A o \in Live(tokens) : tokens'[o].email = tokens[o].email
      /\ \A o \in Live(tokens) : o # t => tokens'[o].user = tokens[o].user
      /\ tokens'[t] = row
  <2>1. /\ tokens \in [TokenIds -> Token \cup {Absent}] /\ tokens[t] # Absent
        /\ tokens' = [tokens EXCEPT ![t] = row]
    BY <1>1, <1>2 DEF AccountInv, AccountTablesOK, Rows, Live
  <2>2. /\ tokens' \in [TokenIds -> Token \cup {Absent}] /\ tokens'[t] = row
        /\ \A o \in TokenIds \ {t} : tokens'[o] = tokens[o]
    BY <1>3, <1>5, <2>1
  <2>3. Live(tokens)' = Live(tokens)
    BY <1>3, <1>5, <2>1, <2>2 DEF Live
  <2> QED
    BY <1>3, <1>5, <2>1, <2>2, <2>3 DEF Rows, Live
<1>7. /\ signIns' \in [TokenIds -> SUBSET UserIds] /\ signIns'[t] = signIns[t] \cup {r.who}
      /\ \A o \in TokenIds \ {t} : signIns'[o] = signIns[o]
  BY <1>1, <1>2, <1>3 DEF AccountInv, AccountTablesOK
<1>8. \A o \in Live(tokens) :
        tokens'[o].user = Nobody \/ HasEmailNext(tokens'[o].user, tokens'[o].email)
  BY <1>4, <1>5, <1>6 DEF AccountInv, LinksToAddress
<1>9. \A o \in TokenIds : \A u \in signIns'[o] :
        o \in Live(tokens)' /\ HasEmailNext(u, tokens'[o].email)
  <2>1. SUFFICES ASSUME NEW o \in TokenIds, NEW u \in signIns'[o]
                 PROVE  o \in Live(tokens)' /\ HasEmailNext(u, tokens'[o].email)
    OBVIOUS
  <2>2. CASE u \in signIns[o]
    BY <1>4, <1>6, <2>2 DEF AccountInv, LinksToAddress
  <2>3. CASE o = t /\ u = r.who
    BY <1>2, <1>4, <1>6, <2>3
  <2> QED
    BY <1>7, <2>1, <2>2, <2>3
<1> QED
  BY <1>4, <1>6, <1>7, <1>8, <1>9 DEF RowsInv, AccountTablesOK, LinksToAddress, AddressesStay,
     HasEmail, HasEmailNext

\* The other writes are of one user and of no link.
LEMMA UserWrites ==
    ASSUME NEW s \in Sessions, AccountInv,
           Callback(s) \/ UpdateHandle(s) \/ UpdateRole(s) \/ UpdateStatus(s)
    PROVE  RowsInv' /\ AddressesStay /\ Live(tokens)' = Live(tokens)
<1> DEFINE r == doing[s]
           u == r.on
<1>1. UNCHANGED <<tokens, signIns>> /\ Live(tokens)' = Live(tokens)
  BY DEF Callback, UpdateHandle, UpdateRole, UpdateStatus, Live
<1>2. u \in Live(users) => u \in UserIds /\ users[u] \in User
  BY DEF AccountInv, AccountTablesOK, Rows, Live
<1>3. /\ users' \in Rows(UserIds, User) /\ UniqueUsers'
      /\ \A v, e : HasEmail(v, e) => HasEmailNext(v, e)
  <2>1. CASE Callback(s) /\ r.new
    <3>1. InsertUser(u, r.email, TRUE) /\ u \in UserIds /\ r.email \in Emails
      BY <2>1 DEF Callback, AccountInv, AccountRequestsOK
    <3> QED
      BY <3>1, UserInserted DEF AccountInv
  <2>2. CASE Callback(s) /\ ~r.new
    <3> DEFINE row == [users[u] EXCEPT !.oid = TRUE]
    <3>1. u \in Live(users) /\ users' = [users EXCEPT ![u] = row]
      BY <2>2 DEF Callback, AccountInv, AccountRequestsOK
    <3>2. row \in User /\ row.email = users[u].email /\ row.handle = users[u].handle
      BY <1>2, <3>1 DEF User
    <3> HIDE DEF row
    <3> QED
      BY <3>1, <3>2, UserChanged DEF AccountInv
  <2>3. CASE UpdateHandle(s)
    <3> DEFINE row == [users[u] EXCEPT !.handle = r.handle, !.cooling = TRUE]
    <3>1. /\ u \in Live(users) /\ users' = [users EXCEPT ![u] = row] /\ r.handle \in Handles
          /\ \A o \in Live(users) \ {u} : users[o].handle # r.handle
      BY <2>3 DEF UpdateHandle, AccountInv, AccountRequestsOK
    <3>2. row \in User /\ row.email = users[u].email /\ row.handle = r.handle
      BY <1>2, <3>1 DEF User
    <3>3. \A o \in Live(users) \ {u} : row.email # users[o].email /\ row.handle # users[o].handle
      BY <3>1, <3>2 DEF AccountInv, UniqueUsers
    <3> HIDE DEF row
    <3> QED
      BY <1>2, <3>1, <3>2, <3>3, UserWritten DEF AccountInv
  <2>4. CASE UpdateRole(s)
    <3> DEFINE row == [users[u] EXCEPT !.role = r.role]
    <3>1. /\ u \in Live(users) /\ users' = [users EXCEPT ![u] = row]
          /\ r.role \in {"user", "admin"}
      BY <2>4 DEF UpdateRole, AccountInv, AccountRequestsOK
    <3>2. row \in User /\ row.email = users[u].email /\ row.handle = users[u].handle
      BY <1>2, <3>1 DEF User
    <3> HIDE DEF row
    <3> QED
      BY <3>1, <3>2, UserChanged DEF AccountInv
  <2>5. CASE UpdateStatus(s)
    <3> DEFINE row == [users[u] EXCEPT !.active = r.active]
    <3>1. u \in Live(users) /\ users' = [users EXCEPT ![u] = row] /\ r.active \in BOOLEAN
      BY <2>5 DEF UpdateStatus, AccountInv, AccountRequestsOK
    <3>2. row \in User /\ row.email = users[u].email /\ row.handle = users[u].handle
      BY <1>2, <3>1 DEF User
    <3> HIDE DEF row
    <3> QED
      BY <3>1, <3>2, UserChanged DEF AccountInv
  <2> QED
    BY <2>1, <2>2, <2>3, <2>4, <2>5
<1> QED
  BY <1>1, <1>3, LinksStay DEF AccountInv, RowsInv

-----------------------------------------------------------------------------
(* The invariant and what follows from it.                                 *)

LEMMA RowsStep ==
    ASSUME AccountInv, [Next]_workspaceVars
    PROVE  RowsInv' /\ AddressesStay
<1>1. CASE AccountsQuiet
  BY <1>1, NothingWritten DEF AccountsQuiet, AccountInv, RowsInv
<1>2. CASE TimePasses
  BY <1>2, TimeWrites DEF AccountInv, RowsInv
<1>3. ASSUME NEW s \in Sessions, AccountSpeak(s)
      PROVE  RowsInv' /\ AddressesStay
  BY <1>3, NothingWritten DEF AccountSpeak, AccountInv, RowsInv
<1>4. ASSUME NEW s \in Sessions, AccountWrite(s)
      PROVE  RowsInv' /\ AddressesStay
  BY <1>4, SendLinkWrites, VerifyWrites, UserWrites DEF AccountWrite
<1> QED
  BY <1>1, <1>2, <1>3, <1>4, AccountStepKinds DEF AccountInv, AccountRequestsOK

\* What a request has read of addresses still holds.
LEMMA AccountRequestsKept ==
    ASSUME AccountRequestsOK, AddressesStay, AccountsDropped
    PROVE  AccountRequestsOK'
<1>1. \A u, e : HasEmail(u, e) => HasEmail(u, e)'
  BY DEF AddressesStay, HasEmail, HasEmailNext
<1>2. \A u \in Live(users) : u \in Live(users)'
  BY DEF AddressesStay, HasEmail, HasEmailNext
<1>3. ASSUME NEW s \in Sessions, NEW op \in AccountOps, Doing(s, op)'
      PROVE  Doing(s, op) /\ doing'[s] = doing[s]
  BY <1>3 DEF AccountsDropped, Doing
<1>4. ASSUME NEW s \in Sessions
      PROVE  /\ Doing(s, "send_magic_link")' =>
                  /\ "on" \in DOMAIN doing'[s] /\ doing'[s].email \in Emails
                  /\ doing'[s].who = Nobody \/ HasEmail(doing[s].who, doing[s].email)'
             /\ Doing(s, "verify_magic_link")' =>
                  /\ doing'[s].on \in Live(tokens)' /\ doing'[s].who \in UserIds
                  /\ doing'[s].new \/ HasEmail(doing[s].who, tokens[doing[s].on].email)'
  BY <1>1, <1>3 DEF AccountRequestsOK, AddressesStay, AccountOps, HasEmail
<1>5. ASSUME NEW s \in Sessions
      PROVE  /\ Doing(s, "provision_user")' =>
                  /\ doing'[s].on \in UserIds /\ doing'[s].email \in Emails
                  /\ doing'[s].new \/ doing'[s].on \in Live(users)'
             /\ Doing(s, "update_handle")' =>
                  doing'[s].on \in Live(users)' /\ doing'[s].handle \in Handles
             /\ Doing(s, "update_user_role")' =>
                  doing'[s].on \in Live(users)' /\ doing'[s].role \in {"user", "admin"}
             /\ Doing(s, "update_user_status")' =>
                  doing'[s].on \in Live(users)' /\ doing'[s].active \in BOOLEAN
  BY <1>2, <1>3 DEF AccountRequestsOK, AccountOps
<1>6. DOMAIN doing' = Sessions
  BY DEF AccountsDropped
<1> QED
  BY <1>4, <1>5, <1>6 DEF AccountRequestsOK

LEMMA TokenIdsKept ==
    ASSUME TokenIdsNew, AccountsDropped, Live(tokens)' \subseteq Live(tokens)
    PROVE  TokenIdsNew'
BY DEF TokenIdsNew, AccountsDropped, AccountOps, Doing

LEMMA AccountStep ==
    ASSUME AccountInv, [Next]_workspaceVars
    PROVE  AccountInv'
<1>1. RowsInv' /\ AddressesStay
  BY RowsStep
<1>2. DOMAIN doing = Sessions
  BY DEF AccountInv, AccountRequestsOK
<1>3. AccountRequestsOK' /\ TokenIdsNew'
  <2>1. CASE AccountsQuiet
    BY <1>1, <2>1, AccountRequestsKept, TokenIdsKept DEF AccountsQuiet, accounts, AccountInv, Live
  <2>2. CASE TimePasses
    <3>1. AccountsDropped /\ Live(tokens)' \subseteq Live(tokens)
      BY <1>2, <2>2, TimeWrites DEF AccountsDropped, AccountInv, RowsInv
    <3> QED
      BY <1>1, <3>1, AccountRequestsKept, TokenIdsKept DEF AccountInv
  <2>3. ASSUME NEW s \in Sessions, AccountSpeak(s)
        PROVE  AccountRequestsOK' /\ TokenIdsNew'
    BY <2>3, SpeakRequests
  <2>4. ASSUME NEW s \in Sessions, AccountWrite(s)
        PROVE  AccountRequestsOK' /\ TokenIdsNew'
    <3>1. AccountsDropped /\ doing' = [doing EXCEPT ![s] = Idle]
      BY <1>2, <2>4, AccountWriteEnds, AccountEndDrops DEF End
    <3>2. AccountRequestsOK'
      BY <1>1, <3>1, AccountRequestsKept DEF AccountInv
    <3>3. CASE SendLink(s)
      <4>1. Doing(s, "send_magic_link") /\ Live(tokens)' \subseteq Live(tokens) \cup {doing[s].on}
        BY <3>3, SendLinkWrites DEF SendLink
      <4> QED
        BY <1>2, <3>1, <3>2, <4>1 DEF AccountInv, TokenIdsNew, Doing
    <3>4. CASE ~SendLink(s)
      BY <2>4, <3>1, <3>2, <3>4, VerifyWrites, UserWrites, TokenIdsKept DEF AccountWrite, AccountInv
    <3> QED
      BY <3>3, <3>4
  <2> QED
    BY <1>2, <2>1, <2>2, <2>3, <2>4, AccountStepKinds
<1> QED
  BY <1>1, <1>3 DEF AccountInv, RowsInv

LEMMA AccountInit ==
    ASSUME WorkspaceInit
    PROVE  AccountInv
<1> DEFINE row == [email |-> menu.address, oid |-> FALSE,
                   handle |-> <<BaseOf[menu.address], 1>>, cooling |-> FALSE,
                   role |-> "admin", active |-> TRUE]
<1>1. menu.address \in Emails
  BY WorkspaceAssumption DEF WorkspaceInit
<1>2. row \in User
  BY <1>1, WorkspaceAssumption DEF User, Handles
<1>3. users = [u \in UserIds |-> IF u = menu.admin THEN row ELSE Absent]
  BY DEF WorkspaceInit
<1> HIDE DEF row
<1>4. /\ doing = [s \in Sessions |-> Idle] /\ tokens = [t \in TokenIds |-> Absent]
      /\ signIns = [t \in TokenIds |-> {}]
  BY DEF WorkspaceInit, NoRows
<1>5. AccountRequestsOK /\ TokenIdsNew
  BY <1>4 DEF AccountRequestsOK, TokenIdsNew, Doing
<1>6. AccountTablesOK
  BY <1>2, <1>3, <1>4 DEF AccountTablesOK, Rows
<1>7. UniqueUsers
  BY <1>3 DEF UniqueUsers, Live
<1>8. LinksToAddress
  BY <1>4 DEF LinksToAddress, Live
<1> QED
  BY <1>5, <1>6, <1>7, <1>8 DEF AccountInv

LEMMA AccountInvImplies ==
    ASSUME AccountInv
    PROVE  OneAccount
<1>1. \A u, v \in Live(users) :
        (users[u].email = users[v].email \/ users[u].handle = users[v].handle) => u = v
  BY DEF AccountInv, UniqueUsers
<1>2. ASSUME NEW t \in Live(tokens)
      PROVE  /\ Cardinality(signIns[t]) <= 1
             /\ \A u \in signIns[t] : users[u].email = tokens[t].email
  <2>1. t \in TokenIds
    BY DEF AccountInv, AccountTablesOK, Rows, Live
  <2>2. \A u \in signIns[t] : u \in Live(users) /\ users[u].email = tokens[t].email
    BY <2>1 DEF AccountInv, LinksToAddress, HasEmail
  <2>3. CASE signIns[t] = {}
    BY <2>2, <2>3, FS_EmptySet
  <2>4. CASE signIns[t] # {}
    <3>1. PICK u \in signIns[t] : TRUE
      BY <2>4
    <3>2. signIns[t] = {u}
      BY <1>1, <2>2, <3>1
    <3>3. Cardinality({u}) = 1
      BY FS_Singleton
    <3> QED
      BY <2>2, <3>2, <3>3
  <2> QED
    BY <2>3, <2>4
<1> QED
  BY <1>1, <1>2 DEF OneAccount

\* The invariant holds in every state.
THEOREM AccountAlways == Spec => []AccountInv
<1>1. WorkspaceInit => AccountInv
  BY AccountInit
<1>2. AccountInv /\ [Next]_workspaceVars => AccountInv'
  BY AccountStep
<1> QED
  BY <1>1, <1>2, PTL DEF Spec

\* An address has one account and a handle one user, and all verifications of a
\* link sign in that account (verify_magic_link, provision_user, update_handle,
\* the unique columns of users and the trigger that fills handles).
THEOREM AddressOneAccount == Spec => []OneAccount
<1>1. AccountInv => OneAccount
  BY AccountInvImplies
<1> QED
  BY <1>1, AccountAlways, PTL

-----------------------------------------------------------------------------
(* Types.  What a request carries has the kind of the column it will be     *)
(* written to; an agent whose key is revoked exists, as agents stay.        *)

MemberOps == {"add_member", "update_member_role", "remove_member"}
ComponentOps == {"create_component", "update_component"}

Carries(r) ==
    /\ r.op \in MemberOps => r.role \in Roles
    /\ r.op \in ComponentOps => r.name \in Names
    /\ r.op = "create_lesson" => r.user \in UserIds
    /\ r.op = "create_ticket" => r.number \in 0..MaxSeq
    /\ r.op = "transition" => r.terminal \in BOOLEAN
    /\ r.op = "link" => r.type \in LinkTypes
    /\ r.op = "add_watcher" => r.who \in People
    /\ r.op = "upload_attachment" => r.on \in FileIds
    /\ r.op = "create_account" => r.on \in AgentIds
    /\ r.op = "revoke" => r.on \in Live(agents)
    /\ r.op = "add_comment" => r.mentioned \subseteq People /\ r.on \in CommentIds
    /\ r.op = "emit_body_mentions" => r.reviewers \subseteq People /\ r.on \in CommentIds

ContentOK == \A s \in Sessions : doing[s] # Idle => Carries(doing[s])

\* The columns of which WorkspaceInv and AccountInv say nothing.
ColumnsOK ==
    /\ menu \in Menus
    /\ agents \in Rows(AgentIds, Agent)
    /\ sequences \in Rows(Keys, 0..MaxSeq)
    /\ members \in [ProjectIds \X People -> Roles \cup {Absent}]
    /\ components \in Rows(ComponentIds, Component)
    /\ lessons \in Rows(LessonIds, ProjectIds \X UserIds)
    /\ tickets \in Rows(TicketIds, Ticket)
    /\ links \subseteq TicketIds \X LinkTypes \X TicketIds
    /\ watchers \subseteq People \X TicketIds
    /\ files \in Rows(FileIds, TicketIds) /\ disk \subseteq FileIds
    /\ notices \subseteq People \X (CommentIds \cup TicketIds) \X
                           {"ticket_watcher_added", "ticket_mention", "human_review"}
    /\ runs \subseteq AgentIds \X CommentIds

TypesInv == ColumnsOK /\ ContentOK

\* A handle resolves to people.
LEMMA ResolvedPeople ==
    ASSUME NEW hs, NEW R \in Resolutions(hs)
    PROVE  R \subseteq People
<1> DEFINE named == {h \in hs : Bearers(h) # {}}
<1>1. PICK pick \in [named -> People] : R = {pick[h] : h \in named}
  BY DEF Resolutions
<1> QED
  BY <1>1

\* A request of s begins.
Begins(s) ==
    /\ doing[s] = Idle /\ DOMAIN doing' = Sessions
    /\ \A o \in Sessions \ {s} : doing'[o] = doing[o]

LEMMA AskBegins ==
    ASSUME NEW s \in Sessions, DOMAIN doing = Sessions, NEW r, Ask(s, r)
    PROVE  Begins(s) /\ doing'[s] = r
BY DEF Ask, Begins

\* The request that a client of projects, sprints and tickets makes.
LEMMA PlanningCarries ==
    ASSUME NEW s \in Sessions, DOMAIN doing = Sessions, AskPlanning(s), AccountTablesOK
    PROVE  Begins(s) /\ Carries(doing'[s])
<1> DEFINE Good == Begins(s) /\ Carries(doing'[s])
<1> USE DEF Carries, MemberOps, ComponentOps
<1>1. CurrentUsers \subseteq UserIds
  BY DEF CurrentUsers
<1>2. ASSUME AskCreateProject(s) PROVE Good
  BY <1>2, AskBegins DEF AskCreateProject
<1>3. ASSUME AskUpdateProject(s) PROVE Good
  <2>1. PICK p, u, lead :
          Ask(s, [op |-> "update_project", user |-> u, on |-> p,
                  row |-> [projects[p] EXCEPT !.lead = lead, !.version = @ + 1]])
    BY <1>3 DEF AskUpdateProject
  <2> DEFINE row == [projects[p] EXCEPT !.lead = lead, !.version = @ + 1]
  <2>2. Ask(s, [op |-> "update_project", user |-> u, on |-> p, row |-> row])
    BY <2>1
  <2> HIDE DEF row
  <2> QED
    BY <2>2, AskBegins
<1>4. ASSUME AskArchiveProject(s) PROVE Good
  <2>1. PICK p, a, archived :
          Ask(s, [op |-> "archive_project", user |-> a, on |-> p,
                  row |-> [projects[p] EXCEPT !.archived = archived, !.version = @ + 1]])
    BY <1>4 DEF AskArchiveProject
  <2> DEFINE row == [projects[p] EXCEPT !.archived = archived, !.version = @ + 1]
  <2>2. Ask(s, [op |-> "archive_project", user |-> a, on |-> p, row |-> row])
    BY <2>1
  <2> HIDE DEF row
  <2> QED
    BY <2>2, AskBegins
<1>5. ASSUME AskDeleteProject(s) PROVE Good
  BY <1>5, AskBegins DEF AskDeleteProject
<1>6. ASSUME AskMember(s) PROVE Good
  <2>1. PICK role \in Roles, op \in MemberOps : \E p, a, m, had :
          Ask(s, [op |-> op, user |-> a, on |-> m, project |-> p, role |-> role, had |-> had])
    BY <1>6 DEF AskMember
  <2> QED
    BY <2>1, AskBegins
<1>7. ASSUME AskComponent(s) PROVE Good
  BY <1>7, AskBegins DEF AskComponent
<1>8. ASSUME AskCreateLesson(s) PROVE Good
  BY <1>1, <1>8, AskBegins DEF AskCreateLesson
<1>9. ASSUME AskCreateSprint(s) PROVE Good
  BY <1>9, AskBegins DEF AskCreateSprint
<1>10. ASSUME AskSprint(s) PROVE Good
  BY <1>10, AskBegins DEF AskSprint
<1>11. ASSUME AskMoveTicket(s) PROVE Good
  BY <1>11, AskBegins DEF AskMoveTicket
<1>12. ASSUME AskCreateTicket(s) PROVE Good
  BY <1>12, AskBegins, WorkspaceAssumption DEF AskCreateTicket
<1>13. ASSUME AskTransition(s) PROVE Good
  <2>1. PICK t, a : Ask(s, [op |-> "transition", user |-> a, on |-> t,
                            terminal |-> ~tickets[t].terminal])
    BY <1>13 DEF AskTransition
  <2> DEFINE terminal == ~tickets[t].terminal
  <2>2. Ask(s, [op |-> "transition", user |-> a, on |-> t, terminal |-> terminal])
    BY <2>1
  <2>3. terminal \in BOOLEAN
    OBVIOUS
  <2> HIDE DEF terminal
  <2> QED
    BY <2>2, <2>3, AskBegins
<1>14. ASSUME AskDeleteTicket(s) PROVE Good
  BY <1>14, AskBegins DEF AskDeleteTicket
<1>15. ASSUME AskLink(s) PROVE Good
  <2>1. PICK type \in LinkTypes : \E t, o, a :
          Ask(s, [op |-> "link", user |-> a, on |-> t, to |-> o, type |-> type,
                  paired |-> <<o, InverseOf(type), t>> \in links])
    BY <1>15 DEF AskLink
  <2>2. PICK t, o, a : Ask(s, [op |-> "link", user |-> a, on |-> t, to |-> o, type |-> type,
                               paired |-> <<o, InverseOf(type), t>> \in links])
    BY <2>1
  <2> DEFINE found == <<o, InverseOf(type), t>> \in links
  <2>3. Ask(s, [op |-> "link", user |-> a, on |-> t, to |-> o, type |-> type, paired |-> found])
    BY <2>2
  <2> HIDE DEF found
  <2> QED
    BY <2>1, <2>3, AskBegins
<1>16. ASSUME AskWatcher(s) PROVE Good
  BY <1>16, AskBegins DEF AskWatcher
<1>17. ASSUME AskAttach(s) PROVE Good
  BY <1>17, AskBegins DEF AskAttach
<1> QED
  <2> HIDE DEF Good
  <2>1. Good
    BY <1>2, <1>3, <1>4, <1>5, <1>6, <1>7, <1>8, <1>9, <1>10, <1>11, <1>12, <1>13, <1>14, <1>15,
       <1>16, <1>17 DEF AskPlanning
  <2> QED
    BY <2>1 DEF Good

\* The request that a client of accounts, agents and comments makes.
LEMMA IdentityCarries ==
    ASSUME NEW s \in Sessions, DOMAIN doing = Sessions, AskIdentity(s), AccountTablesOK
    PROVE  Begins(s) /\ Carries(doing'[s])
<1> DEFINE Good == Begins(s) /\ Carries(doing'[s])
<1> USE DEF Carries, MemberOps, ComponentOps
<1>1. ASSUME AskSendLink(s) PROVE Good
  BY <1>1, AskBegins DEF AskSendLink
<1>2. ASSUME AskVerify(s) PROVE Good
  <2>1. PICK t, u, new : Ask(s, [op |-> "verify_magic_link", user |-> Nobody, on |-> t,
                                 who |-> u, new |-> new])
    BY <1>2 DEF AskVerify
  <2> QED
    BY <2>1, AskBegins
<1>3. ASSUME AskCallback(s) PROVE Good
  <2>1. PICK e, u, new : Ask(s, [op |-> "provision_user", user |-> Nobody, on |-> u,
                                 email |-> e, new |-> new])
    BY <1>3 DEF AskCallback
  <2> QED
    BY <2>1, AskBegins
<1>4. ASSUME AskHandle(s) PROVE Good
  BY <1>4, AskBegins DEF AskHandle
<1>5. ASSUME AskAccount(s) PROVE Good
  <2>1. \/ \E u, by, role : Ask(s, [op |-> "update_user_role", user |-> by, on |-> u,
                                    role |-> role])
        \/ \E u, by, active : Ask(s, [op |-> "update_user_status", user |-> by, on |-> u,
                                      active |-> active])
    BY <1>5, Zenon DEF AskAccount
  <2>2. ASSUME NEW u, NEW by, NEW role,
               Ask(s, [op |-> "update_user_role", user |-> by, on |-> u, role |-> role])
        PROVE  Good
    BY <2>2, AskBegins
  <2>3. ASSUME NEW u, NEW by, NEW active,
               Ask(s, [op |-> "update_user_status", user |-> by, on |-> u, active |-> active])
        PROVE  Good
    BY <2>3, AskBegins
  <2> QED
    BY <2>1, <2>2, <2>3
<1>6. ASSUME AskAgent(s) PROVE Good
  BY <1>6, AskBegins DEF AskAgent
<1>7. ASSUME AskAddComment(s) PROVE Good
  <2>1. PICK c \in CommentIds : \E a, mentioned, named :
          /\ mentioned \in Resolutions(named) \cup {{u} : u \in Live(users)}
          /\ Ask(s, [op |-> "add_comment", user |-> a, on |-> c, mentioned |-> mentioned])
    BY <1>7 DEF AskAddComment
  <2>2. PICK a, mentioned, named :
          /\ mentioned \in Resolutions(named) \cup {{u} : u \in Live(users)}
          /\ Ask(s, [op |-> "add_comment", user |-> a, on |-> c, mentioned |-> mentioned])
    BY <2>1
  <2>3. mentioned \subseteq People
    <3>1. Live(users) \subseteq People
      BY DEF AccountTablesOK, Rows, Live, People
    <3> QED
      BY <2>2, <3>1, ResolvedPeople
  <2> QED
    BY <2>1, <2>2, <2>3, AskBegins
<1>8. ASSUME AskMention(s) PROVE Good
  <2>1. PICK c \in CommentIds : \E a, reviewers, double, single :
          /\ reviewers \in Resolutions(double)
          /\ Ask(s, [op |-> "emit_body_mentions", user |-> a, on |-> c,
                     reviewers |-> reviewers, single |-> single])
    BY <1>8 DEF AskMention
  <2>2. PICK a, reviewers, double, single :
          /\ reviewers \in Resolutions(double)
          /\ Ask(s, [op |-> "emit_body_mentions", user |-> a, on |-> c,
                     reviewers |-> reviewers, single |-> single])
    BY <2>1
  <2>3. reviewers \subseteq People
    BY <2>2, ResolvedPeople
  <2> QED
    BY <2>1, <2>2, <2>3, AskBegins
<1> QED
  <2> HIDE DEF Good
  <2>1. Good
    BY <1>1, <1>2, <1>3, <1>4, <1>5, <1>6, <1>7, <1>8 DEF AskIdentity
  <2> QED
    BY <2>1 DEF Good

-----------------------------------------------------------------------------
(* What the steps write has the type of its column.                        *)

\* The request of s has what its operation writes.
LEMMA RequestCarries ==
    ASSUME NEW s \in Sessions, ContentOK, doing[s] # Idle
    PROVE  Carries(doing[s])
BY DEF ContentOK

\* A row that is there has the type of its table.
LEMMA LiveRow ==
    ASSUME NEW ids, NEW Row, NEW table \in Rows(ids, Row)
    PROVE  /\ DOMAIN table = ids
           /\ Live(table) \subseteq ids
           /\ \A i \in Live(table) : table[i] \in Row
BY DEF Rows, Live

LEMMA RowPut ==
    ASSUME NEW ids, NEW Row, NEW table \in Rows(ids, Row), NEW i, NEW row \in Row \cup {Absent}
    PROVE  [table EXCEPT ![i] = row] \in Rows(ids, Row)
BY DEF Rows

\* The rows that go with a project.
LEMMA OutliveRows ==
    ASSUME NEW ids, NEW Row, NEW table \in Rows(ids, Row), NEW p
    PROVE  Outlive(table, p) \in Rows(ids, Row)
BY DEF Rows, Outlive

\* A ticket that moves or is done stays a ticket.
LEMMA TicketChanged ==
    ASSUME NEW row \in Ticket
    PROVE  /\ \A x \in SprintIds \cup {Nobody} : [row EXCEPT !.sprint = x] \in Ticket
           /\ \A c \in ComponentIds \cup {Nobody} : [row EXCEPT !.component = c] \in Ticket
           /\ \A x \in SprintIds \cup {Nobody}, c \in ComponentIds \cup {Nobody} :
                [row EXCEPT !.sprint = x, !.component = c] \in Ticket
           /\ \A d \in BOOLEAN : [row EXCEPT !.terminal = d] \in Ticket
           /\ row.sprint \in SprintIds \cup {Nobody}
           /\ row.component \in ComponentIds \cup {Nobody}
BY DEF Ticket

LEMMA BackToBacklogRows ==
    ASSUME tickets \in Rows(TicketIds, Ticket), NEW x, NEW all
    PROVE  BackToBacklog(x, all) \in Rows(TicketIds, Ticket)
<1>1. ASSUME NEW t \in TicketIds
      PROVE  (IF t \in Live(tickets) /\ tickets[t].sprint = x /\ (all \/ ~tickets[t].terminal)
              THEN [tickets[t] EXCEPT !.sprint = Nobody] ELSE tickets[t]) \in Ticket \cup {Absent}
  <2>1. CASE t \in Live(tickets)
    <3>1. PICK row \in Ticket : row = tickets[t]
      BY <2>1, LiveRow
    <3>2. [row EXCEPT !.sprint = Nobody] \in Ticket
      BY TicketChanged
    <3> QED
      BY <3>1, <3>2
  <2>2. CASE t \notin Live(tickets)
    BY <2>2 DEF Rows
  <2> QED
    BY <2>1, <2>2
<1> QED
  BY <1>1 DEF BackToBacklog, Rows

-----------------------------------------------------------------------------
\* The writes of projects, members, components and lessons.
LEMMA ProjectColumns ==
    ASSUME NEW s \in Sessions, WorkspaceInv, TypesInv,
           \/ CreateProject(s) \/ UpdateProject(s) \/ WriteMember(s) \/ WriteComponent(s)
           \/ DeleteComponent(s) \/ CreateLesson(s)
    PROVE  ColumnsOK'
<1> USE DEF outside, accountTables, projectTables, ticketTables, noticeTables
<1>1. /\ ColumnsOK /\ ContentOK
      /\ projects \in Rows(ProjectIds, Project) /\ Live(projects) \subseteq ProjectIds
  BY LiveRow DEF TypesInv, WorkspaceInv, NumberInv, TablesOK
<1>2. ASSUME CreateProject(s) PROVE ColumnsOK'
  <2> DEFINE key == doing[s].key
             n == IF sequences[key] = Absent THEN 0 ELSE sequences[key]
  <2>1. key \in Keys
    BY <1>2 DEF CreateProject, WorkspaceInv, RequestsOK
  <2>2. n \in 0..MaxSeq
    BY <1>1, <2>1, WorkspaceAssumption DEF ColumnsOK, Rows
  <2>3. sequences' = [sequences EXCEPT ![key] = n]
    BY <1>2 DEF CreateProject
  <2> HIDE DEF n
  <2>4. sequences' \in Rows(Keys, 0..MaxSeq)
    BY <1>1, <2>2, <2>3, RowPut DEF ColumnsOK
  <2> QED
    BY <1>1, <1>2, <2>4 DEF CreateProject, ColumnsOK
<1>3. ASSUME UpdateProject(s) PROVE ColumnsOK'
  BY <1>1, <1>3 DEF UpdateProject, ColumnsOK
<1>4. ASSUME WriteMember(s) PROVE ColumnsOK'
  <2>1. doing[s].op # "remove_member" => doing[s].role \in Roles
    BY <1>1, <1>4, RequestCarries DEF WriteMember, Doing, Carries, MemberOps
  <2>2. members' \in [ProjectIds \X People -> Roles \cup {Absent}]
    BY <1>1, <1>4, <2>1 DEF WriteMember, ColumnsOK
  <2> QED
    BY <1>1, <1>4, <2>2 DEF WriteMember, ColumnsOK
<1>5. ASSUME WriteComponent(s) PROVE ColumnsOK'
  <2>1. doing[s].name \in Names /\ doing[s].project \in ProjectIds
    BY <1>1, <1>5, RequestCarries DEF WriteComponent, Doing, Carries, ComponentOps
  <2> DEFINE row == [project |-> doing[s].project, name |-> doing[s].name]
  <2>2. row \in Component
    BY <2>1 DEF Component
  <2>3. components' = [components EXCEPT ![doing[s].on] = row]
    BY <1>5 DEF WriteComponent
  <2> HIDE DEF row
  <2>4. components' \in Rows(ComponentIds, Component)
    BY <1>1, <2>2, <2>3, RowPut DEF ColumnsOK
  <2> QED
    BY <1>1, <1>5, <2>4 DEF WriteComponent, ColumnsOK
<1>6. ASSUME DeleteComponent(s) PROVE ColumnsOK'
  <2> DEFINE c == doing[s].on
  <2>1. components' \in Rows(ComponentIds, Component)
    <3>1. components' = [components EXCEPT ![c] = Absent]
      BY <1>6 DEF DeleteComponent
    <3> QED
      BY <1>1, <3>1, RowPut DEF ColumnsOK
  <2>2. ASSUME NEW t \in TicketIds
        PROVE  (IF t \in Live(tickets) /\ tickets[t].component = c
                THEN [tickets[t] EXCEPT !.component = Nobody] ELSE tickets[t])
                  \in Ticket \cup {Absent}
    <3>1. CASE t \in Live(tickets)
      <4>1. PICK row \in Ticket : row = tickets[t]
        BY <1>1, <3>1, LiveRow DEF ColumnsOK
      <4> QED
        BY <4>1, TicketChanged
    <3>2. CASE t \notin Live(tickets)
      BY <1>1, <3>2 DEF ColumnsOK, Rows
    <3> QED
      BY <3>1, <3>2
  <2>3. tickets' = [t \in TicketIds |->
           IF t \in Live(tickets) /\ tickets[t].component = c
           THEN [tickets[t] EXCEPT !.component = Nobody] ELSE tickets[t]]
    BY <1>6 DEF DeleteComponent
  <2>4. tickets' \in Rows(TicketIds, Ticket)
    BY <2>2, <2>3 DEF Rows
  <2> QED
    BY <1>1, <1>6, <2>1, <2>4 DEF DeleteComponent, ColumnsOK
<1>7. ASSUME CreateLesson(s) PROVE ColumnsOK'
  <2>1. doing[s].user \in UserIds /\ doing[s].project \in ProjectIds
    BY <1>1, <1>7, RequestCarries DEF CreateLesson, Doing, Carries
  <2> DEFINE row == <<doing[s].project, doing[s].user>>
  <2>2. row \in ProjectIds \X UserIds
    BY <2>1
  <2>3. lessons' = [lessons EXCEPT ![doing[s].on] = row]
    BY <1>7 DEF CreateLesson
  <2> HIDE DEF row
  <2>4. lessons' \in Rows(LessonIds, ProjectIds \X UserIds)
    BY <1>1, <2>2, <2>3, RowPut DEF ColumnsOK
  <2> QED
    BY <1>1, <1>7, <2>4 DEF CreateLesson, ColumnsOK
<1> QED
  BY <1>2, <1>3, <1>4, <1>5, <1>6, <1>7

\* A project goes, with all that hangs on it.
LEMMA DeleteProjectColumns ==
    ASSUME NEW s \in Sessions, WorkspaceInv, TypesInv, DeleteProject(s)
    PROVE  ColumnsOK'
<1> DEFINE p == doing[s].on
           gone(t) == [tickets[t] EXCEPT
                 !.sprint = IF @ \in Live(sprints) \ Live(sprints') THEN Nobody ELSE @,
                 !.component = IF @ \in Live(components) \ Live(components') THEN Nobody ELSE @]
<1>1. ColumnsOK
  BY DEF TypesInv
<1>2. sequences' \in Rows(Keys, 0..MaxSeq)
  BY <1>1 DEF DeleteProject, ColumnsOK, Rows
<1>3. members' \in [ProjectIds \X People -> Roles \cup {Absent}]
  BY <1>1 DEF DeleteProject, ColumnsOK
<1>4. components' \in Rows(ComponentIds, Component)
  BY <1>1, OutliveRows DEF DeleteProject, ColumnsOK
<1>5. lessons' \in Rows(LessonIds, ProjectIds \X UserIds)
  BY <1>1 DEF DeleteProject, ColumnsOK, Rows
<1>6. ASSUME NEW t \in TicketIds, tickets[t] # Absent
      PROVE  gone(t) \in Ticket
  <2>1. PICK row \in Ticket : row = tickets[t]
    BY <1>1, <1>6 DEF ColumnsOK, Rows
  <2> DEFINE x == IF row.sprint \in Live(sprints) \ Live(sprints') THEN Nobody ELSE row.sprint
             c == IF row.component \in Live(components) \ Live(components')
                  THEN Nobody ELSE row.component
  <2>2. x \in SprintIds \cup {Nobody} /\ c \in ComponentIds \cup {Nobody}
    BY TicketChanged
  <2>3. gone(t) = [row EXCEPT !.sprint = x, !.component = c]
    BY <2>1
  <2> HIDE DEF x, c, gone
  <2>4. [row EXCEPT !.sprint = x, !.component = c] \in Ticket
    BY <2>2, TicketChanged
  <2> QED
    BY <2>3, <2>4
<1>7. tickets' = [t \in TicketIds |-> IF tickets[t] = Absent THEN Absent ELSE gone(t)]
  BY DEF DeleteProject
<1>8. tickets' \in Rows(TicketIds, Ticket)
  <2> HIDE DEF gone
  <2> QED
    BY <1>6, <1>7 DEF Rows
<1> QED
  BY <1>1, <1>2, <1>3, <1>4, <1>5, <1>8
  DEF DeleteProject, ColumnsOK, outside, accountTables

\* The writes of sprints.
LEMMA SprintColumns ==
    ASSUME NEW s \in Sessions, WorkspaceInv, TypesInv,
           \/ CreateSprint(s) \/ StartSprint(s) \/ CloseSprint(s) \/ DeleteSprint(s)
           \/ MoveTicket(s)
    PROVE  ColumnsOK'
<1> USE DEF outside, accountTables, projectTables, ticketTables, noticeTables
<1>1. ColumnsOK /\ tickets \in Rows(TicketIds, Ticket) /\ Live(sprints) \subseteq SprintIds
  BY LiveRow DEF TypesInv, ColumnsOK, WorkspaceInv, SprintInv
<1>2. ASSUME CreateSprint(s) PROVE ColumnsOK'
  BY <1>1, <1>2 DEF CreateSprint, ColumnsOK
<1>3. ASSUME StartSprint(s) PROVE ColumnsOK'
  BY <1>1, <1>3 DEF StartSprint, ColumnsOK
<1>4. ASSUME CloseSprint(s) PROVE ColumnsOK'
  BY <1>1, <1>4, BackToBacklogRows DEF CloseSprint, ColumnsOK
<1>5. ASSUME DeleteSprint(s) PROVE ColumnsOK'
  BY <1>1, <1>5, BackToBacklogRows DEF DeleteSprint, ColumnsOK
<1>6. ASSUME MoveTicket(s) PROVE ColumnsOK'
  <2> DEFINE t == doing[s].on
             x == IF doing[s].op = "add_ticket" THEN doing[s].sprint ELSE Nobody
  <2>1. x \in SprintIds \cup {Nobody}
    BY <1>1, <1>6 DEF MoveTicket
  <2>2. \/ tickets' = tickets
        \/ t \in Live(tickets) /\ tickets' = [tickets EXCEPT ![t].sprint = x]
    BY <1>6 DEF MoveTicket
  <2> HIDE DEF x
  <2>3. ASSUME t \in Live(tickets), tickets' = [tickets EXCEPT ![t].sprint = x]
        PROVE  tickets' \in Rows(TicketIds, Ticket)
    <3>1. PICK row \in Ticket : row = tickets[t]
      BY <1>1, <2>3, LiveRow
    <3> DEFINE new == [row EXCEPT !.sprint = x]
    <3>2. new \in Ticket
      BY <2>1, TicketChanged
    <3>3. tickets' = [tickets EXCEPT ![t] = new]
      BY <2>3, <3>1
    <3> HIDE DEF new
    <3> QED
      BY <1>1, <3>2, <3>3, RowPut
  <2>4. tickets' \in Rows(TicketIds, Ticket)
    BY <1>1, <2>2, <2>3
  <2> QED
    BY <1>1, <1>6, <2>4 DEF MoveTicket, ColumnsOK
<1> QED
  BY <1>2, <1>3, <1>4, <1>5, <1>6


\* The writes of tickets.
LEMMA TicketColumns ==
    ASSUME NEW s \in Sessions, WorkspaceInv, TypesInv,
           NextNumber(s) \/ CreateTicket(s) \/ Transition(s) \/ DeleteTicket(s)
    PROVE  ColumnsOK'
<1> USE DEF outside, accountTables, projectTables, ticketTables, noticeTables
<1>1. /\ ColumnsOK /\ ContentOK /\ tickets \in Rows(TicketIds, Ticket)
      /\ projects \in Rows(ProjectIds, Project) /\ sprints \in Rows(SprintIds, Sprint)
      /\ components \in Rows(ComponentIds, Component)
  BY DEF TypesInv, ColumnsOK, WorkspaceInv, NumberInv, TablesOK, SprintInv
<1>2. /\ Live(projects) \subseteq ProjectIds /\ Live(sprints) \subseteq SprintIds
      /\ Live(components) \subseteq ComponentIds
  BY <1>1, LiveRow
<1>3. ASSUME NextNumber(s) PROVE ColumnsOK'
  <2> DEFINE key == doing[s].key
             n == sequences[key] + 1
  <2>1. n \in 0..MaxSeq
    BY <1>3, WorkspaceAssumption DEF NextNumber
  <2>2. sequences' = [sequences EXCEPT ![key] = n]
    BY <1>3 DEF NextNumber
  <2> HIDE DEF n
  <2>3. sequences' \in Rows(Keys, 0..MaxSeq)
    BY <1>1, <2>1, <2>2, RowPut DEF ColumnsOK
  <2> QED
    BY <1>1, <1>3, <2>3 DEF NextNumber, ColumnsOK
<1>4. ASSUME CreateTicket(s) PROVE ColumnsOK'
  <2> DEFINE row == [project |-> doing[s].project, number |-> doing[s].number,
                     sprint |-> doing[s].sprint, component |-> doing[s].component,
                     terminal |-> FALSE]
  <2>1. doing[s].number \in 1..MaxSeq
    BY <1>1, <1>4, RequestCarries, WorkspaceAssumption DEF CreateTicket, Numbered, Doing, Carries
  <2>2. /\ doing[s].project \in ProjectIds /\ doing[s].sprint \in SprintIds \cup {Nobody}
        /\ doing[s].component \in ComponentIds \cup {Nobody}
    BY <1>2, <1>4 DEF CreateTicket
  <2>3. row \in Ticket
    BY <2>1, <2>2 DEF Ticket
  <2>4. tickets' = [tickets EXCEPT ![doing[s].on] = row]
    BY <1>4 DEF CreateTicket
  <2> HIDE DEF row
  <2>5. tickets' \in Rows(TicketIds, Ticket)
    BY <1>1, <2>3, <2>4, RowPut
  <2> QED
    BY <1>1, <1>4, <2>5 DEF CreateTicket, ColumnsOK
<1>5. ASSUME Transition(s) PROVE ColumnsOK'
  <2> DEFINE t == doing[s].on
  <2>1. PICK row \in Ticket : row = tickets[t]
    BY <1>1, <1>5, LiveRow DEF Transition
  <2>2. PICK terminal \in BOOLEAN : terminal = doing[s].terminal
    BY <1>1, <1>5, RequestCarries DEF Transition, Doing, Carries
  <2> DEFINE new == [row EXCEPT !.terminal = terminal]
  <2>3. new \in Ticket
    BY TicketChanged
  <2>4. tickets' = [tickets EXCEPT ![t] = new]
    BY <1>5, <2>1, <2>2 DEF Transition
  <2> HIDE DEF new
  <2>5. tickets' \in Rows(TicketIds, Ticket)
    BY <1>1, <2>3, <2>4, RowPut
  <2> QED
    BY <1>1, <1>5, <2>5 DEF Transition, ColumnsOK
<1>6. ASSUME DeleteTicket(s) PROVE ColumnsOK'
  <2> DEFINE t == doing[s].on
  <2>1. tickets' = [tickets EXCEPT ![t] = Absent]
    BY <1>6 DEF DeleteTicket
  <2>2. tickets' \in Rows(TicketIds, Ticket)
    BY <1>1, <2>1, RowPut
  <2>3. files' \in Rows(FileIds, TicketIds)
    BY <1>1, <1>6 DEF DeleteTicket, ColumnsOK, Rows
  <2>4. links' \subseteq TicketIds \X LinkTypes \X TicketIds
    BY <1>1, <1>6 DEF DeleteTicket, ColumnsOK
  <2>5. watchers' \subseteq People \X TicketIds
    BY <1>1, <1>6 DEF DeleteTicket, ColumnsOK
  <2> QED
    BY <1>1, <1>6, <2>2, <2>3, <2>4, <2>5 DEF DeleteTicket, ColumnsOK
<1> QED
  BY <1>3, <1>4, <1>5, <1>6

\* The writes of links, watchers and attachments.
LEMMA LinkColumns ==
    ASSUME NEW s \in Sessions, WorkspaceInv, TypesInv,
           \/ Link(s) \/ AddWatcher(s) \/ RemoveWatcher(s)
           \/ StoreBytes(s) \/ AddAttachment(s) \/ DeleteAttachment(s)
    PROVE  ColumnsOK'
<1> USE DEF outside, accountTables, projectTables, ticketTables, noticeTables
<1>1. ColumnsOK /\ ContentOK /\ Live(tickets) \subseteq TicketIds
  BY LiveRow DEF TypesInv, ColumnsOK
<1>2. ASSUME Link(s) PROVE ColumnsOK'
  <2>1. doing[s].type \in LinkTypes
    BY <1>1, <1>2, RequestCarries DEF Link, Doing, Carries
  <2>2. doing[s].on \in TicketIds /\ doing[s].to \in TicketIds
    BY <1>1, <1>2 DEF Link
  <2>3. InverseOf(doing[s].type) \in LinkTypes \cup {Nobody}
    BY <2>1, PlanningAssumption
  <2>4. LinkRows(doing[s]) \subseteq TicketIds \X LinkTypes \X TicketIds
    BY <2>1, <2>2, <2>3 DEF LinkRows
  <2>5. links' \subseteq TicketIds \X LinkTypes \X TicketIds
    BY <1>1, <1>2, <2>4 DEF Link, ColumnsOK
  <2> QED
    BY <1>1, <1>2, <2>5 DEF Link, ColumnsOK
<1>3. ASSUME AddWatcher(s) PROVE ColumnsOK'
  <2>1. doing[s].who \in People /\ doing[s].on \in TicketIds
    BY <1>1, <1>3, RequestCarries DEF AddWatcher, Doing, Carries
  <2>2. watchers' \subseteq People \X TicketIds
    BY <1>1, <1>3, <2>1 DEF AddWatcher, ColumnsOK
  <2>3. notices' \subseteq People \X (CommentIds \cup TicketIds) \X
                             {"ticket_watcher_added", "ticket_mention", "human_review"}
    BY <1>1, <1>3, <2>1 DEF AddWatcher, ColumnsOK
  <2> QED
    BY <1>1, <1>3, <2>2, <2>3 DEF AddWatcher, ColumnsOK
<1>4. ASSUME RemoveWatcher(s) PROVE ColumnsOK'
  BY <1>1, <1>4 DEF RemoveWatcher, ColumnsOK
<1>5. ASSUME StoreBytes(s) PROVE ColumnsOK'
  <2>1. doing[s].on \in FileIds
    BY <1>1, <1>5, RequestCarries DEF StoreBytes, Doing, Carries
  <2> QED
    BY <1>1, <1>5, <2>1 DEF StoreBytes, ColumnsOK
<1>6. ASSUME AddAttachment(s) PROVE ColumnsOK'
  <2>1. /\ files' = [files EXCEPT ![doing[s].on] = doing[s].ticket]
        /\ doing[s].ticket \in TicketIds
    BY <1>1, <1>6 DEF AddAttachment
  <2>2. files' \in Rows(FileIds, TicketIds)
    BY <1>1, <2>1, RowPut DEF ColumnsOK
  <2> QED
    BY <1>1, <1>6, <2>2 DEF AddAttachment, ColumnsOK
<1>7. ASSUME DeleteAttachment(s) PROVE ColumnsOK'
  <2>1. files' = [files EXCEPT ![doing[s].on] = Absent]
    BY <1>7 DEF DeleteAttachment
  <2>2. files' \in Rows(FileIds, TicketIds)
    BY <1>1, <2>1, RowPut DEF ColumnsOK
  <2> QED
    BY <1>1, <1>7, <2>2 DEF DeleteAttachment, ColumnsOK
<1> QED
  BY <1>2, <1>3, <1>4, <1>5, <1>6, <1>7

\* The writes of sign-in, accounts and comments; agents stay.
LEMMA IdentityColumns ==
    ASSUME NEW s \in Sessions, AccountInv, TypesInv, DoIdentity(s)
    PROVE  ColumnsOK' /\ Live(agents) \subseteq Live(agents)'
<1> DEFINE Good == ColumnsOK' /\ Live(agents) \subseteq Live(agents)'
           Kinds == {"ticket_watcher_added", "ticket_mention", "human_review"}
<1> USE DEF elsewhere, projectTables, ticketTables, noticeTables, accountTables
<1>1. ColumnsOK /\ ContentOK /\ agents \in Rows(AgentIds, Agent)
  BY DEF TypesInv, ColumnsOK
<1>2. ASSUME \/ SendLink(s) \/ Verify(s) \/ Callback(s)
             \/ UpdateHandle(s) \/ UpdateRole(s) \/ UpdateStatus(s)
      PROVE  Good
  <2>1. UNCHANGED <<elsewhere, agents, noticeTables>>
    BY <1>2 DEF SendLink, Verify, Callback, UpdateHandle, UpdateRole, UpdateStatus
  <2> QED
    BY <1>1, <2>1 DEF ColumnsOK, Live
<1>3. ASSUME CreateAgent(s) PROVE Good
  <2> DEFINE a == doing[s].on
             row == [handle |-> FillHandle(agents, BaseOf[a]), active |-> TRUE]
  <2>1. a \in AgentIds
    BY <1>1, <1>3, RequestCarries DEF CreateAgent, Doing, Carries
  <2>2. FillHandle(agents, BaseOf[a]) \in Handles
    <3>1. BaseOf[a] \in Bases /\ HandleLeft(agents, BaseOf[a])
      BY <1>3, <2>1, WorkspaceAssumption DEF CreateAgent
    <3> QED
      BY <3>1, FillHandleFree
  <2>3. row \in Agent
    BY <2>2 DEF Agent
  <2>4. agents' = [agents EXCEPT ![a] = row]
    BY <1>3 DEF CreateAgent
  <2> HIDE DEF row
  <2>5. agents' \in Rows(AgentIds, Agent)
    BY <1>1, <2>3, <2>4, RowPut
  <2>6. Live(agents) \subseteq Live(agents)'
    BY <1>1, <2>3, <2>4, WorkspaceAssumption DEF Live, Rows
  <2> QED
    BY <1>1, <1>3, <2>5, <2>6 DEF CreateAgent, ColumnsOK
<1>4. ASSUME RevokeAgent(s) PROVE Good
  <2> DEFINE a == doing[s].on
  <2>1. a \in Live(agents)
    BY <1>1, <1>4, RequestCarries DEF RevokeAgent, Doing, Carries
  <2>2. PICK row \in Agent : row = agents[a]
    BY <1>1, <2>1, LiveRow
  <2> DEFINE new == [row EXCEPT !.active = FALSE]
  <2>3. new \in Agent
    BY DEF Agent
  <2>4. agents' = [agents EXCEPT ![a] = new]
    BY <1>4, <2>2 DEF RevokeAgent
  <2> HIDE DEF new
  <2>5. agents' \in Rows(AgentIds, Agent)
    BY <1>1, <2>3, <2>4, RowPut
  <2>6. Live(agents) \subseteq Live(agents)'
    BY <1>1, <2>3, <2>4, WorkspaceAssumption DEF Live, Rows
  <2> QED
    BY <1>1, <1>4, <2>5, <2>6 DEF RevokeAgent, ColumnsOK
<1>5. ASSUME AddComment(s) PROVE Good
  <2>1. doing[s].mentioned \subseteq People /\ doing[s].on \in CommentIds
    BY <1>1, <1>5, RequestCarries DEF AddComment, Doing, Carries
  <2>2. notices' \subseteq People \X (CommentIds \cup TicketIds) \X Kinds
    BY <1>1, <1>5, <2>1 DEF AddComment, ColumnsOK
  <2> QED
    BY <1>1, <1>5, <2>2 DEF AddComment, ColumnsOK, Live
<1>6. ASSUME EmitMentions(s) PROVE Good
  <2>1. doing[s].reviewers \subseteq People /\ doing[s].on \in CommentIds
    BY <1>1, <1>6, RequestCarries DEF EmitMentions, Doing, Carries
  <2> DEFINE r == doing[s]
  <2>2. PICK mentioned \in Resolutions(r.single) :
          /\ notices' = notices \cup ((r.reviewers \ {r.user}) \X {r.on} \X {"human_review"})
               \cup ((mentioned \ (r.reviewers \cup {r.user})) \X {r.on} \X {"ticket_mention"})
          /\ runs' = runs \cup ((mentioned \cap AgentIds) \X {r.on})
    BY <1>6 DEF EmitMentions
  <2>3. mentioned \subseteq People
    BY ResolvedPeople
  <2>4. notices' \subseteq People \X (CommentIds \cup TicketIds) \X Kinds
    BY <1>1, <2>1, <2>2, <2>3 DEF ColumnsOK
  <2>5. runs' \subseteq AgentIds \X CommentIds
    BY <1>1, <2>1, <2>2 DEF ColumnsOK
  <2> QED
    BY <1>1, <1>6, <2>4, <2>5 DEF EmitMentions, ColumnsOK, Live
<1> QED
  <2> HIDE DEF Good
  <2>1. Good
    BY <1>2, <1>3, <1>4, <1>5, <1>6 DEF DoIdentity
  <2> QED
    BY <2>1 DEF Good

LEMMA PlanningColumns ==
    ASSUME NEW s \in Sessions, WorkspaceInv, TypesInv, DoPlanning(s)
    PROVE  ColumnsOK'
BY ProjectColumns, DeleteProjectColumns, SprintColumns, TicketColumns, LinkColumns DEF DoPlanning

-----------------------------------------------------------------------------
LEMMA ColumnsStep ==
    ASSUME WorkspaceInv, AccountInv, TypesInv, [Next]_workspaceVars
    PROVE  ColumnsOK' /\ Live(agents) \subseteq Live(agents)'
<1> USE DEF outside, elsewhere, accountTables, projectTables, ticketTables, noticeTables
<1> DEFINE columns == <<menu, agents, projectTables, tickets, links, watchers, files, disk,
                        noticeTables>>
<1>1. ColumnsOK
  BY DEF TypesInv
<1>2. ASSUME UNCHANGED columns PROVE ColumnsOK' /\ Live(agents) \subseteq Live(agents)'
  BY <1>1, <1>2 DEF ColumnsOK, Live
<1>3. CASE UNCHANGED workspaceVars \/ TimePasses
  BY <1>2, <1>3 DEF workspaceVars, TimePasses, Expire, CoolDown
<1>4. ASSUME NEW s \in Sessions, AskPlanning(s) \/ AskIdentity(s) \/ Abandon(s)
      PROVE  UNCHANGED columns
  BY <1>4 DEF AskPlanning, AskIdentity, Abandon
<1>5. ASSUME NEW s \in Sessions, DoPlanning(s)
      PROVE  UNCHANGED agents
  BY <1>5 DEF DoPlanning, CreateProject, UpdateProject, DeleteProject, WriteMember,
     WriteComponent, DeleteComponent, CreateLesson, CreateSprint, StartSprint, CloseSprint,
     DeleteSprint, MoveTicket, NextNumber, CreateTicket, Transition, DeleteTicket, Link,
     AddWatcher, RemoveWatcher, StoreBytes, AddAttachment, DeleteAttachment
<1>6. ASSUME NEW s \in Sessions, DoPlanning(s)
      PROVE  ColumnsOK' /\ Live(agents) \subseteq Live(agents)'
  BY <1>5, <1>6, PlanningColumns DEF Live
<1>7. ASSUME NEW s \in Sessions, DoIdentity(s)
      PROVE  ColumnsOK' /\ Live(agents) \subseteq Live(agents)'
  BY <1>7, IdentityColumns
<1> HIDE DEF columns
<1> QED
  BY <1>2, <1>3, <1>4, <1>6, <1>7 DEF Next

\* What was in order stays so while agents stay.
LEMMA CarriesStays ==
    ASSUME NEW r, Carries(r), Live(agents) \subseteq Live(agents)'
    PROVE  Carries(r)'
BY DEF Carries

LEMMA ContentStep ==
    ASSUME WorkspaceInv, AccountInv, TypesInv, [Next]_workspaceVars
    PROVE  ContentOK'
<1>1. /\ DOMAIN doing = Sessions /\ ContentOK /\ AccountTablesOK
      /\ Live(agents) \subseteq Live(agents)'
  BY ColumnsStep DEF TypesInv, WorkspaceInv, RequestsOK, AccountInv
<1>2. ASSUME NEW o \in Sessions, doing'[o] = doing[o], doing'[o] # Idle
      PROVE  Carries(doing[o])'
  <2>1. PICK r : r = doing[o]
    OBVIOUS
  <2>2. Carries(r)
    BY <1>1, <1>2, <2>1 DEF ContentOK
  <2>3. Carries(r)'
    BY <1>1, <2>2, CarriesStays
  <2> QED
    BY <1>2, <2>1, <2>3
<1>3. CASE UNCHANGED doing
  BY <1>2, <1>3 DEF ContentOK
<1>4. CASE \E s \in Sessions : End(s)
  <2>1. PICK s \in Sessions : End(s)
    BY <1>4
  <2>2. \A o \in Sessions : doing'[o] = doing[o] \/ doing'[o] = Idle
    BY <1>1, <2>1 DEF End
  <2> QED
    BY <1>2, <2>2 DEF ContentOK
<1>5. ASSUME NEW s \in Sessions, AskPlanning(s) \/ AskIdentity(s)
      PROVE  ContentOK'
  <2>1. Begins(s) /\ Carries(doing'[s])
    BY <1>1, <1>5, PlanningCarries, IdentityCarries
  <2>2. PICK r : r = doing'[s]
    OBVIOUS
  <2>3. Carries(r)'
    BY <1>1, <2>1, <2>2, CarriesStays
  <2>4. Carries(doing[s])'
    BY <2>2, <2>3
  <2> QED
    BY <1>2, <2>1, <2>4 DEF Begins, ContentOK
<1>6. ASSUME NEW s \in Sessions, NextNumber(s)
      PROVE  ContentOK'
  <2> DEFINE n == sequences[doing[s].key] + 1
             new == [doing[s] EXCEPT !.number = n]
  <2>1. n \in 0..MaxSeq
    BY <1>6, WorkspaceAssumption DEF NextNumber
  <2>2. Doing(s, "create_ticket") /\ doing' = [doing EXCEPT ![s] = new]
    BY <1>6 DEF NextNumber
  <2>3. {"op", "number"} \subseteq DOMAIN doing[s]
    BY <2>2 DEF WorkspaceInv, RequestsOK
  <2>4. new.op = "create_ticket" /\ new.number = n
    BY <2>2, <2>3 DEF Doing
  <2> HIDE DEF n, new
  <2>5. doing'[s] = new /\ \A o \in Sessions \ {s} : doing'[o] = doing[o]
    BY <1>1, <2>2
  <2>6. Carries(doing[s])'
    BY <2>1, <2>4, <2>5 DEF Carries, MemberOps, ComponentOps
  <2> QED
    BY <1>2, <2>5, <2>6 DEF ContentOK
<1>7. ASSUME NEW s \in Sessions, DoPlanning(s) \/ DoIdentity(s) \/ Abandon(s)
      PROVE  End(s) \/ NextNumber(s) \/ UNCHANGED doing
  BY <1>7 DEF DoPlanning, CreateProject, UpdateProject, DeleteProject, WriteMember,
     WriteComponent, DeleteComponent, CreateLesson, CreateSprint, StartSprint, CloseSprint,
     DeleteSprint, MoveTicket, CreateTicket, Transition, DeleteTicket, Link,
     AddWatcher, RemoveWatcher, StoreBytes, AddAttachment, DeleteAttachment,
     DoIdentity, SendLink, Verify, Callback, UpdateHandle, UpdateRole, UpdateStatus,
     CreateAgent, RevokeAgent, AddComment, EmitMentions, Abandon
<1>8. CASE UNCHANGED workspaceVars \/ TimePasses
  BY <1>3, <1>8 DEF workspaceVars, TimePasses, Expire, CoolDown
<1> QED
  BY <1>3, <1>4, <1>5, <1>6, <1>7, <1>8 DEF Next

LEMMA TypesInit ==
    ASSUME WorkspaceInit
    PROVE  TypesInv
<1>1. ContentOK
  BY DEF WorkspaceInit, ContentOK
<1>2. ColumnsOK
  BY WorkspaceAssumption DEF WorkspaceInit, ColumnsOK, NoRows, Rows
<1> QED
  BY <1>1, <1>2 DEF TypesInv

\* Every column keeps its type: what a request writes was checked when it asked,
\* or the row it was taken from was there (the schemas of the routes and the
\* foreign keys).
THEOREM WorkspaceTypes == Spec => []WorkspaceTypeOK
<1>1. WorkspaceInit => TypesInv
  BY TypesInit
<1>2. WorkspaceInv /\ AccountInv /\ TypesInv /\ [Next]_workspaceVars => TypesInv'
  BY ColumnsStep, ContentStep DEF TypesInv
<1>3. Spec => []TypesInv
  BY <1>1, <1>2, WorkspaceAlways, AccountAlways, PTL DEF Spec
<1>4. WorkspaceInv /\ AccountInv /\ TypesInv => WorkspaceTypeOK
  BY DEF WorkspaceInv, AccountInv, TypesInv, ColumnsOK, NumberInv, TablesOK, SprintInv,
     AccountTablesOK, WorkspaceTypeOK
<1> QED
  BY <1>3, <1>4, WorkspaceAlways, AccountAlways, PTL
================================================================================
