------------------------------ MODULE BountyLife ------------------------------
(* What the bounty space promises: one holder at a time, and an awarded or *)
(* withdrawn bounty is settled for good.                                   *)
CONSTANTS Bounties, Holders, Nobody

VARIABLE life    \* [state, holder] of each bounty

Unposted == [state |-> "unposted", holder |-> Nobody]

Init == life = [b \in Bounties |-> Unposted]

Becomes(b, from, state, holder) ==
    /\ life[b].state = from
    /\ life' = [life EXCEPT ![b] = [state |-> state, holder |-> holder]]

Post(b) == Becomes(b, "unposted", "open", Nobody)
Claim(b) == \E h \in Holders : Becomes(b, "open", "claimed", h)
Unclaim(b) == Becomes(b, "claimed", "open", Nobody)
Award(b) == Becomes(b, "claimed", "awarded", life[b].holder)
Withdraw(b) == Becomes(b, "open", "withdrawn", Nobody)

Next == \E b \in Bounties : Post(b) \/ Claim(b) \/ Unclaim(b) \/ Award(b) \/ Withdraw(b)

Spec == Init /\ [][Next]_life
=============================================================================
