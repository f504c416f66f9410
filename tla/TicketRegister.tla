-------------------------- MODULE TicketRegister --------------------------
(***************************************************************************)
(* What the ticket service promises about a ticket row, told without       *)
(* transactions and locks: the row is a versioned register, every write is *)
(* one step and raises the version by one, a status moves along the        *)
(* workflow, and a claim takes a ticket that nobody has.                   *)
(***************************************************************************)
EXTENDS Naturals

CONSTANTS
    Tickets,
    People,        \* users and agents
    Agents,        \* the people that are agents
    Nobody,        \* no assignee
    Texts,         \* contents of the editable fields
    FirstStatus    \* the status create() gives a ticket, by its type

VARIABLE card

Active == {"backlog", "todo", "in_progress", "in_review", "blocked"}
Terminal == {"done", "cancelled"}
Statuses == Active \cup Terminal

\* _ALLOWED_TRANSITIONS
Allowed(from) ==
    CASE from \in {"in_progress", "in_review"} -> (Active \ {from}) \cup Terminal
      [] from \in {"backlog", "todo", "blocked"} -> (Active \ {from}) \cup {"cancelled"}
      [] from = "done" -> {"in_progress"}
      [] OTHER -> {"todo", "in_progress"}

Card == [status : Statuses, resolved : BOOLEAN, assignee : People \cup {Nobody},
         version : Nat \ {0}, text : Texts]

Init == card \in [Tickets -> Card]
        /\ \A t \in Tickets : /\ card[t].status = FirstStatus[t] /\ ~card[t].resolved
                              /\ card[t].version = 1

\* Every write puts the next version in place of the one it found.
Write(t) ==
    /\ card' \in [Tickets -> Card]
    /\ card'[t].version = card[t].version + 1
    /\ \A u \in Tickets \ {t} : UNCHANGED card[u]

Edit(t) ==
    /\ Write(t)
    /\ UNCHANGED <<card[t].status, card[t].resolved, card[t].assignee>>

Assign(t) ==
    /\ Write(t)
    /\ UNCHANGED <<card[t].status, card[t].resolved, card[t].text>>

\* By an agent, of a ticket that nobody has.
Claim(t) ==
    /\ Assign(t)
    /\ card[t].assignee = Nobody /\ card'[t].assignee \in Agents

\* resolved_at is set on the way into a terminal status and never cleared.
Move(t) ==
    /\ Write(t)
    /\ card'[t].status \in Allowed(card[t].status)
    /\ card'[t].resolved <=> card[t].resolved \/ card'[t].status \in Terminal
    /\ UNCHANGED <<card[t].assignee, card[t].text>>

Next == \E t \in Tickets : Edit(t) \/ Assign(t) \/ Claim(t) \/ Move(t)

Spec == Init /\ [][Next]_card
=============================================================================
