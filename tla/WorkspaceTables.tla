---------------------------- MODULE WorkspaceTables ----------------------------
(***************************************************************************)
(* The tables of the ticketing workspace and of the accounts that use it.  *)
(* A request is a session that first resolves its caller and reads what it *)
(* decides on (Ask), then writes and commits (the step named after the     *)
(* service's method).  Nothing locks a row here: what keeps two requests   *)
(* apart are the unique and foreign keys, which guard the writing steps.   *)
(* A request that is refused, fails or is cancelled ends in Abandon.       *)
(***************************************************************************)
EXTENDS Naturals, FiniteSets

CONSTANTS
    Sessions,
    UserIds, AgentIds,
    Emails, Bases,            \* addresses, and the handles derived from them
    ProjectIds, Keys, SprintIds, ComponentIds, TicketIds, LessonIds, FileIds, CommentIds,
    TokenIds,
    Names,                    \* of components
    LinkTypes, BaseOf,        \* BaseOf[e]: what the trigger derives from e
    Absent, Nobody, Idle,
    MaxSeq, MaxHandle, MaxVersion,   \* bounds on numbers, handle suffixes, versions
    Menus                     \* kinds of behaviour: operations, and who and what they name

VARIABLES
    menu, doing,
    users, tokens, signIns, agents,
    projects, sequences, members, components, lessons,
    sprints, tickets, links, watchers, files, disk,
    notices, runs

accountTables == <<users, tokens, signIns, agents>>
projectTables == <<projects, sequences, members, components, lessons>>
ticketTables == <<sprints, tickets, links, watchers, files, disk>>
noticeTables == <<notices, runs>>

workspaceVars == <<menu, doing, accountTables, projectTables, ticketTables, noticeTables>>

People == UserIds \cup AgentIds

-----------------------------------------------------------------------------
(* Rows.                                                                   *)

\* A derived handle is its base, or the base and a number from 2 on.
Handles == Bases \X (1..MaxHandle)

User == [email : Emails, oid : BOOLEAN, handle : Handles, cooling : BOOLEAN,
         role : {"user", "admin"}, active : BOOLEAN]
Agent == [handle : Handles, active : BOOLEAN]
Token == [email : Emails, user : UserIds \cup {Nobody}, consumed : BOOLEAN, expired : BOOLEAN]
Project == [key : Keys, lead : UserIds \cup {Nobody}, archived : BOOLEAN, version : 1..MaxVersion]
Roles == {"lead", "member", "viewer"}
Component == [project : ProjectIds, name : Names]
Sprint == [project : ProjectIds, state : {"planned", "active", "closed"}]
Ticket == [project : ProjectIds, number : 1..MaxSeq, sprint : SprintIds \cup {Nobody},
           component : ComponentIds \cup {Nobody}, terminal : BOOLEAN]

ASSUME WorkspaceAssumption ==
    /\ UserIds \cap AgentIds = {} /\ Nobody \notin People
    /\ BaseOf \in [Emails \cup AgentIds -> Bases]
    /\ Absent \notin Nat \cup CommentIds
    /\ Absent \notin User /\ Absent \notin Agent /\ Absent \notin Token /\ Absent \notin Project
    /\ \A m \in Menus : m.address \in Emails
    /\ MaxSeq \in Nat /\ MaxHandle \in Nat \ {0} /\ MaxVersion \in Nat \ {0}

Rows(ids, Row) == [ids -> Row \cup {Absent}]

WorkspaceTypeOK ==
    /\ menu \in Menus
    /\ users \in Rows(UserIds, User)
    /\ tokens \in Rows(TokenIds, Token)
    /\ signIns \in [TokenIds -> SUBSET UserIds]
    /\ agents \in Rows(AgentIds, Agent)
    /\ projects \in Rows(ProjectIds, Project)
    /\ sequences \in Rows(Keys, 0..MaxSeq)
    /\ members \in [ProjectIds \X People -> Roles \cup {Absent}]
    /\ components \in Rows(ComponentIds, Component)
    /\ lessons \in Rows(LessonIds, ProjectIds \X UserIds)
    /\ sprints \in Rows(SprintIds, Sprint)
    /\ tickets \in Rows(TicketIds, Ticket)
    /\ links \subseteq TicketIds \X LinkTypes \X TicketIds
    /\ watchers \subseteq People \X TicketIds
    /\ files \in Rows(FileIds, TicketIds) /\ disk \subseteq FileIds
    /\ notices \subseteq People \X (CommentIds \cup TicketIds) \X
                           {"ticket_watcher_added", "ticket_mention", "human_review"}
    /\ runs \subseteq AgentIds \X CommentIds

NoRows(ids) == [i \in ids |-> Absent]

\* The first user is an administrator of a deployed system.
WorkspaceInit ==
    /\ menu \in Menus
    /\ doing = [s \in Sessions |-> Idle]
    /\ users = [u \in UserIds |->
         IF u = menu.admin
         THEN [email |-> menu.address, oid |-> FALSE, handle |-> <<BaseOf[menu.address], 1>>,
               cooling |-> FALSE, role |-> "admin", active |-> TRUE]
         ELSE Absent]
    /\ tokens = NoRows(TokenIds) /\ signIns = [t \in TokenIds |-> {}]
    /\ agents = NoRows(AgentIds)
    /\ projects = NoRows(ProjectIds) /\ sequences = NoRows(Keys)
    /\ members = [m \in ProjectIds \X People |-> Absent]
    /\ components = NoRows(ComponentIds) /\ lessons = NoRows(LessonIds)
    /\ sprints = NoRows(SprintIds) /\ tickets = NoRows(TicketIds)
    /\ links = {} /\ watchers = {} /\ files = NoRows(FileIds) /\ disk = {}
    /\ notices = {} /\ runs = {}

Live(table) == {id \in DOMAIN table : table[id] # Absent}

\* An id nobody has and no request names: ids are random and never come again.
Fresh(table, id) ==
    /\ table[id] = Absent
    /\ \A s \in Sessions : doing[s] # Idle =>
         \A field \in {"on", "project", "sprint", "component", "ticket", "to", "who"} \cap DOMAIN doing[s] :
             doing[s][field] # id

-----------------------------------------------------------------------------
(* Callers and sessions.                                                   *)

\* A caller is a user who is active, or an agent whose key still counts.
Callers == {u \in Live(users) : users[u].active} \cup {a \in Live(agents) : agents[a].active}

CurrentUsers == Callers \cap UserIds

IsAdmin(u) == u \in CurrentUsers /\ users[u].role = "admin"

\* "user" is who asks, "on" is the row the request works on.
Ask(s, request) ==
    /\ doing[s] = Idle
    /\ request.op \in menu.ops
    /\ \A field \in {"user", "on", "lead", "who"} \cap DOMAIN request :
         request[field] \in menu.ids \cup {Nobody}
    /\ doing' = [doing EXCEPT ![s] = request]

Doing(s, op) == doing[s] # Idle /\ doing[s].op = op

End(s) == doing' = [doing EXCEPT ![s] = Idle]

\* A refusal, an error of a statement, a lost client, a crash: rollback.
Abandon(s) ==
    /\ doing[s] # Idle
    /\ End(s)
    /\ UNCHANGED <<menu, accountTables, projectTables, ticketTables, noticeTables>>
=============================================================================
