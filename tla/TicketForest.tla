--------------------------- MODULE TicketForest ---------------------------
(***************************************************************************)
(* What the ticket service promises about parents, told without            *)
(* transactions: tickets form a forest in which every parent is of a type, *)
(* and in the project, that its child may have, a ticket leaves only       *)
(* without children, and epic_id names an epic that is there.              *)
(***************************************************************************)
CONSTANTS
    Tickets,     \* ticket ids
    Projects,
    None,        \* no parent, no epic
    Absent       \* an id that has no row

VARIABLE rows

Types == {"workpackage", "epic", "story", "task", "bug", "subtask"}

\* _PARENT_ALLOWED
ParentTypes(k) ==
    CASE k = "workpackage" -> {}
      [] k = "epic" -> {"workpackage"}
      [] k = "story" -> {"epic", "workpackage"}
      [] k = "subtask" -> {"task", "bug", "story"}
      [] OTHER -> {"story", "epic", "workpackage"}
NeedsParent(k) == k = "subtask"

Node == [type : Types, project : Projects, parent : Tickets \cup {None},
         epic : Tickets \cup {None}]

Exists(t) == rows[t] # Absent

\* What _validate_hierarchy asks of the parent of a ticket.
Fits(type, project, p) ==
    \/ p = None /\ ~NeedsParent(type)
    \/ /\ p \in Tickets /\ Exists(p)
       /\ rows[p].type \in ParentTypes(type) /\ rows[p].project = project

IsEpic(e, project) ==
    \/ e = None
    \/ e \in Tickets /\ Exists(e) /\ rows[e].type = "epic" /\ rows[e].project = project

Childless(t) == \A u \in Tickets : Exists(u) => rows[u].parent # t

Init == rows = [t \in Tickets |-> Absent]

\* A new ticket, or a ticket under a new parent.
Put(t, n) ==
    /\ Fits(n.type, n.project, n.parent) /\ IsEpic(n.epic, n.project)
    /\ Exists(t) => n.type = rows[t].type /\ n.project = rows[t].project
    /\ rows' = [rows EXCEPT ![t] = n]

\* A ticket goes, and with it what names it as an epic.
Remove(t) ==
    /\ Childless(t)
    /\ rows' = [u \in Tickets |->
           IF u = t THEN Absent
           ELSE IF Exists(u) /\ rows[u].epic = t THEN [rows[u] EXCEPT !.epic = None]
           ELSE rows[u]]

Next == \E t \in Tickets : (\E n \in Node : Put(t, n)) \/ Remove(t)

Spec == Init /\ [][Next]_rows
=============================================================================
