--------------------------- MODULE AgentDispatch ---------------------------
(***************************************************************************)
(* What the agent-run queue promises, told without sessions, locks or      *)
(* transactions: a request becomes a run once, the run is decided once,    *)
(* and only a run that is done has ever left anything behind, each effect  *)
(* at most once.  Deleting a ticket removes its runs for good.             *)
(***************************************************************************)
CONSTANTS Keys, Effects

VARIABLES
    state,     \* "absent", "pending", "done" or "error"
    effects,   \* the effects a run has had
    removed    \* keys whose ticket was deleted

vars == <<state, effects, removed>>

States == {"absent", "pending", "done", "error"}

Init ==
    /\ state = [k \in Keys |-> "absent"]
    /\ effects = [k \in Keys |-> {}]
    /\ removed = {}

\* Enqueued, or enqueued and decided at one go by the drain script.
Requested(k) ==
    /\ state[k] = "absent" /\ k \notin removed
    /\ state'[k] \in {"pending", "done", "error"}

Decided(k) ==
    /\ state[k] = "pending"
    /\ state'[k] \in {"done", "error"}

Untouched(k) == state'[k] = state[k]

\* The ticket went away; what the run had done stays done.
Removed(k) == k \in removed' /\ state'[k] = "absent"

\* One commit moves any number of runs, each along its own life.
Step ==
    /\ state' \in [Keys -> States]
    /\ effects' \in [Keys -> SUBSET Effects]
    /\ removed' \in SUBSET Keys /\ removed \subseteq removed'
    /\ \A k \in Keys :
         /\ Requested(k) \/ Decided(k) \/ Untouched(k) \/ Removed(k)
         /\ effects'[k] # effects[k] =>
              /\ effects[k] = {}
              /\ state[k] \in {"absent", "pending"} /\ state'[k] = "done"

Spec == Init /\ [][Step]_vars
=============================================================================
