------------------------------- MODULE MCRealtime -------------------------------
(* An instance of Realtime for TLC: one scene per channel.                 *)
EXTENDS Realtime

CONSTANTS r1, r2, b1, b2, h1, h2, h3, l1, l2, l3, n1, n2, ann, bob, bot

MCUser == [c \in Sockets |-> IF c = h2 THEN bob ELSE ann]
MCCreatedBy == [a \in Agents |-> ann]

Scene(ops, requests, sockets, actors, rows) ==
    [ops |-> ops, requests |-> requests, sockets |-> sockets, actors |-> actors,
     notices |-> rows]

MCScenes ==
    {Scene({"stage"}, {r1, r2}, {b1}, {}, {}),
     Scene({"stage"}, {r1}, {b1, b2}, {}, {}),
     Scene({"notify", "read"}, {r1, r2}, {h1}, {ann, bot}, {n1}),
     Scene({"notify", "read_all"}, {r1, r2}, {h1}, {ann, bot}, {n1}),
     Scene({"notify"}, {r1}, {h1, h2}, {ann, bob}, {n1, n2}),
     Scene({"notify"}, {r1}, {h1, h3}, {ann}, {n1, n2}),
     Scene({"broadcast"}, {r1}, {l1, l2, l3}, {}, {}),
     Scene({"broadcast"}, {r1, r2}, {l1, l2}, {}, {})}
=============================================================================
