-------------------------- MODULE MCAgentRunQueue --------------------------
(* Instances of AgentRunQueue for TLC. *)
EXTENDS AgentRunQueue, TLC

CONSTANTS k1, k2, t1, s1, s2

\* Two requests about one ticket.
OneTicket == (k1 :> t1) @@ (k2 :> t1)

\* One of the sessions may be the drain loop, of which one script has one.
OneDrain == (s1 :> AllModes \ {"drain"}) @@ (s2 :> AllModes)
=============================================================================
