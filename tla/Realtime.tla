-------------------------------- MODULE Realtime --------------------------------
(***************************************************************************)
(* What one server process pushes to its WebSockets.  Three channels share *)
(* the event loop: the event bus, whose events a request stages and        *)
(* publishes after its commit; the hub, to which tasks publish that were   *)
(* created in the middle of the request; and the legacy connection pools,  *)
(* over which a request sends while it is still open.                      *)
(* Every step of the model is a stretch of code between two awaits.        *)
(***************************************************************************)
EXTENDS Naturals, Sequences, FiniteSets

CONSTANTS
    Requests,
    Notices,                  \* ids of rows of ticket_notifications
    BusSockets, HubSockets, LegacySockets,
    Users, Agents,
    User, CreatedBy,          \* of a socket; of an agent account
    Bus, Nobody,
    BusQueueMax, HubQueueMax, \* the two _QUEUE_MAX
    MaxStaged,                \* bound on the events of a request
    Scenes                    \* kinds of behaviour: operations, and who takes part

VARIABLES
    scene,         \* what happens in this behaviour
    phase, staged, \* of a request: how far it is, and its staged events
    notices,       \* rows of ticket_notifications
    tasks,         \* publish tasks in the order of their creation
    subs,          \* EventBus._subscribers and Hub._subs
    pool,          \* ConnectionManager._connections: which set, and its members
    bcast,         \* the broadcast_to_user a request is in
    at, reader,    \* of a socket: where its handler is, whether it has read the end
    client,        \* of a socket: the browser's side
    queue, hand,   \* of a socket: its asyncio.Queue, and what it is sending
    got,           \* of a socket: what the browser has received
    log, since, missed   \* all that was published; and, of a socket, from where
                         \* on it listens and what its full queue dropped

vars == <<scene, phase, staged, notices, tasks, subs, pool, bcast, at, reader, client,
          queue, hand, got, log, since, missed>>
requestVars == <<phase, staged, notices, tasks, bcast>>
socketVars == <<subs, pool, at, reader, client, queue, hand, got, since>>

Sockets == BusSockets \cup HubSockets \cup LegacySockets
Actors == Users \cup Agents
Keys == {Bus} \cup Actors
Payloads == (Requests \X (1..MaxStaged)) \cup ({"told", "read", "read_all"} \X (Notices \cup {Nobody}))

ASSUME RealtimeAssumption ==
    /\ User \in [Sockets -> Users]
    /\ CreatedBy \in [Agents -> Users]
    /\ BusQueueMax \in Nat \ {0} /\ HubQueueMax \in Nat \ {0} /\ MaxStaged \in Nat
    /\ Bus \notin Actors /\ Nobody \notin Sockets
    /\ BusSockets \cap HubSockets = {}
    /\ LegacySockets \cap (BusSockets \cup HubSockets) = {}

QueueMax(c) == IF c \in BusSockets THEN BusQueueMax ELSE HubQueueMax

AgentsOf(u) == {a \in Agents : CreatedBy[a] = u}

\* The keys a socket listens to: those its user had when it connected.
KeysOf(c) ==
    CASE c \in BusSockets -> {Bus}
      [] c \in HubSockets -> {User[c]} \cup AgentsOf(User[c])
      [] c \in LegacySockets -> {}

NoRow == [to |-> Nobody, by |-> Nobody, state |-> "absent", readBy |-> Nobody, read |-> FALSE]
NoBroadcast == [user |-> Nobody, set |-> 0, first |-> {}, seen |-> {}, stale |-> {}, sending |-> Nobody]

RealtimeTypeOK ==
    /\ scene \in Scenes
    /\ phase \in [Requests -> {"open", "committed", "done", "failed"}]
    /\ staged \in [Requests -> Seq(Requests \X (1..MaxStaged))]
    /\ notices \in [Notices -> [to : Actors \cup {Nobody}, by : Requests \cup {Nobody},
                                state : {"absent", "flushed", "stored", "undone"},
                                readBy : Requests \cup {Nobody}, read : BOOLEAN]]
    /\ tasks \in Seq(Actors \X Payloads)
    /\ subs \in [Keys -> SUBSET (BusSockets \cup HubSockets)]
    /\ pool \in [Users -> [set : Nat, of : SUBSET LegacySockets]]
    /\ \A r \in Requests :
        /\ bcast[r].user \in Users \cup {Nobody}
        /\ bcast[r].seen \cup bcast[r].stale \subseteq LegacySockets
        /\ bcast[r].sending \in LegacySockets \cup {Nobody}
    /\ at \in [Sockets -> {"none", "top", "get", "send", "ended"}]
    /\ reader \in [Sockets -> BOOLEAN]
    /\ client \in [Sockets -> {"none", "here", "gone"}]
    /\ \A c \in Sockets :
        /\ queue[c] \in Seq(Payloads) /\ Len(queue[c]) <= QueueMax(c)
        /\ hand[c] \in Seq(Payloads) /\ Len(hand[c]) <= 1
        /\ got[c] \in Seq(Payloads)
    /\ since \in [Sockets -> Nat]
    /\ missed \in [Sockets -> SUBSET (1..Len(log))]

Init ==
    /\ scene \in Scenes
    /\ phase = [r \in Requests |-> "open"] /\ staged = [r \in Requests |-> <<>>]
    /\ notices = [n \in Notices |-> NoRow]
    /\ tasks = <<>>
    /\ subs = [k \in Keys |-> {}]
    /\ pool = [u \in Users |-> [set |-> 0, of |-> {}]]
    /\ bcast = [r \in Requests |-> NoBroadcast]
    /\ at = [c \in Sockets |-> "none"] /\ reader = [c \in Sockets |-> FALSE]
    /\ client = [c \in Sockets |-> "none"]
    /\ queue = [c \in Sockets |-> <<>>] /\ hand = queue /\ got = queue
    /\ log = <<>> /\ since = [c \in Sockets |-> 0] /\ missed = [c \in Sockets |-> {}]

-----------------------------------------------------------------------------
(* Publishing.  No await: a queue that is full misses what comes.          *)

\* No limit.
PutAlways(q, xs, room) == q \o xs

\* put_nowait, one after another, while there is room.
Put(q, xs, room) == q \o SubSeq(xs, 1, room)

\* A slip: the except is around the loop, which a full queue then ends for all
\* those that come after it.
PublishUntilFull(key, xs) ==
    LET blocked == \E c \in subs[key] : Len(queue[c]) + Len(xs) > QueueMax(c)
        full(c) == Len(queue[c]) + Len(xs) > QueueMax(c)
    IN  /\ queue' = [c \in Sockets |->
                        IF c \in subs[key] /\ ~blocked THEN queue[c] \o xs ELSE queue[c]]
        /\ missed' = [c \in Sockets |->
                        IF c \in subs[key] /\ full(c)
                        THEN missed[c] \cup (Len(log) + 1)..(Len(log) + Len(xs))
                        ELSE missed[c]]
        /\ log' = log \o [i \in 1..Len(xs) |-> [key |-> key, payload |-> xs[i]]]

Publish(key, xs) ==
    LET room(c) == IF QueueMax(c) - Len(queue[c]) < Len(xs)
                   THEN QueueMax(c) - Len(queue[c]) ELSE Len(xs)
    IN  /\ queue' = [c \in Sockets |->
                        IF c \in subs[key] THEN Put(queue[c], xs, room(c)) ELSE queue[c]]
        /\ missed' = [c \in Sockets |->
                        IF c \in subs[key]
                        THEN missed[c] \cup {Len(log) + i : i \in (room(c) + 1)..Len(xs)}
                        ELSE missed[c]]
        /\ log' = log \o [i \in 1..Len(xs) |-> [key |-> key, payload |-> xs[i]]]

-----------------------------------------------------------------------------
(* Requests.                                                               *)

\* No broadcast in progress: the request is not inside an await of one.
Free(r, op) ==
    /\ phase[r] = "open" /\ bcast[r] = NoBroadcast
    /\ r \in scene.requests /\ op \in scene.ops

\* A ticket operation stages its event.
StageEvent(r) ==
    /\ Free(r, "stage") /\ Len(staged[r]) < MaxStaged
    /\ staged' = [staged EXCEPT ![r] = Append(@, <<r, Len(staged[r]) + 1>>)]
    /\ UNCHANGED <<scene, phase, notices, tasks, bcast, socketVars, log, missed>>

\* A notice is inserted and the task that publishes it is created.
CreateNotice(r) ==
    \E n \in Notices, a \in Actors \cap scene.actors :
        /\ Free(r, "notify") /\ notices[n] = NoRow /\ n \in scene.notices
        /\ notices' = [notices EXCEPT ![n].to = a, ![n].by = r, ![n].state = "flushed"]
        /\ tasks' = Append(tasks, <<a, <<"told", n>>>>)
        /\ UNCHANGED <<scene, phase, staged, bcast, socketVars, log, missed>>

Unread(n) == notices[n].state = "stored" /\ ~notices[n].read /\ notices[n].readBy = Nobody

\* Reading a notice of one's own, or of one's agent: then the owner is told too.
MarkRead(r) ==
    \E n \in Notices :
        /\ Free(r, "read") /\ Unread(n)
        /\ notices' = [notices EXCEPT ![n].readBy = r]
        /\ tasks' = LET a == notices[n].to IN
             tasks \o <<<<a, <<"read", n>>>>>>
                   \o (IF a \in Agents THEN <<<<CreatedBy[a], <<"read", n>>>>>> ELSE <<>>)
        /\ UNCHANGED <<scene, phase, staged, bcast, socketVars, log, missed>>

\* Reading all of a user's notices, or all of his agents': both publications of
\* the second kind go to the user's key.
MarkAllRead(r) ==
    \E u \in Users \cap scene.actors, kind \in {"user", "agent"} :
        LET hit == {n \in Notices :
                       /\ Unread(n)
                       /\ notices[n].to \in IF kind = "user" THEN {u} ELSE AgentsOf(u)}
            news == <<u, <<"read_all", Nobody>>>>
        IN  /\ Free(r, "read_all") /\ hit # {}
            /\ notices' = [n \in Notices |->
                 IF n \in hit THEN [notices[n] EXCEPT !.readBy = r] ELSE notices[n]]
            /\ tasks' = tasks \o <<news>> \o (IF kind = "agent" THEN <<news>> ELSE <<>>)
            /\ UNCHANGED <<scene, phase, staged, bcast, socketVars, log, missed>>

\* The database has committed; the answer is on its way to the request.
Commit(r) ==
    /\ phase[r] = "open" /\ bcast[r] = NoBroadcast /\ r \in scene.requests
    /\ phase' = [phase EXCEPT ![r] = "committed"]
    /\ notices' = [n \in Notices |->
         [notices[n] EXCEPT !.state = IF @ = "flushed" /\ notices[n].by = r THEN "stored" ELSE @,
                            !.read = @ \/ notices[n].readBy = r]]
    /\ UNCHANGED <<scene, staged, tasks, bcast, socketVars, log, missed>>

\* The flush before the commit.
FlushBeforeCommit(r) ==
    /\ phase[r] = "open" /\ staged[r] # <<>>
    /\ staged' = [staged EXCEPT ![r] = <<>>]
    /\ Publish(Bus, staged[r])
    /\ UNCHANGED <<scene, phase, notices, tasks, subs, pool, bcast, at, reader, client,
                   hand, got, since>>

\* flush_session_events: everything staged, in one go.
FlushEvents(r) ==
    /\ phase[r] = "committed"
    /\ phase' = [phase EXCEPT ![r] = "done"]
    /\ staged' = [staged EXCEPT ![r] = <<>>]
    /\ Publish(Bus, staged[r])
    /\ UNCHANGED <<scene, notices, tasks, subs, pool, bcast, at, reader, client, hand, got, since>>

\* An exception, wherever the request is: rollback, discard_session_events.
Fail(r) ==
    /\ phase[r] = "open" /\ r \in scene.requests
    /\ phase' = [phase EXCEPT ![r] = "failed"]
    /\ staged' = [staged EXCEPT ![r] = <<>>]
    /\ notices' = [n \in Notices |->
         [notices[n] EXCEPT !.state = IF @ = "flushed" /\ notices[n].by = r THEN "undone" ELSE @,
                            !.readBy = IF @ = r THEN Nobody ELSE @]]
    /\ bcast' = [bcast EXCEPT ![r] = NoBroadcast]
    /\ UNCHANGED <<scene, tasks, socketVars, log, missed>>

\* The loop runs the oldest publish task, whatever has become of its request.
RunTask ==
    /\ tasks # <<>>
    /\ tasks' = Tail(tasks)
    /\ Publish(Head(tasks)[1], <<Head(tasks)[2]>>)
    /\ UNCHANGED <<scene, phase, staged, notices, subs, pool, bcast, at, reader, client,
                   hand, got, since>>

-----------------------------------------------------------------------------
(* broadcast_to_user: a loop over the live set of a user's sockets.        *)

BroadcastBegin(r) ==
    \E u \in Users :
        /\ Free(r, "broadcast") /\ pool[u].of # {}
        /\ bcast' = [bcast EXCEPT ![r] = [NoBroadcast EXCEPT
             !.user = u, !.set = pool[u].set, !.first = pool[u].of]]
        /\ UNCHANGED <<scene, phase, staged, notices, tasks, socketVars, log, missed>>

\* What next() on the iterator sees: a set that was emptied is replaced by a new
\* one when the user connects again, and stays empty.
SizeKept(b) ==
    pool[b.user].set = b.set /\ Cardinality(pool[b.user].of) = Cardinality(b.first)

Between(r) == phase[r] = "open" /\ bcast[r] # NoBroadcast /\ bcast[r].sending = Nobody

BroadcastNext(r) ==
    \E c \in LegacySockets :
        /\ Between(r) /\ SizeKept(bcast[r])
        /\ c \in pool[bcast[r].user].of \ bcast[r].seen
        /\ bcast' = [bcast EXCEPT ![r].sending = c, ![r].seen = @ \cup {c}]
        /\ UNCHANGED <<scene, phase, staged, notices, tasks, socketVars, log, missed>>

\* Sending to a browser that has gone may raise.
BroadcastSent(r) ==
    /\ bcast[r].sending # Nobody
    /\ \E raises \in BOOLEAN :
        /\ raises => client[bcast[r].sending] = "gone"
        /\ bcast' = [bcast EXCEPT ![r].sending = Nobody,
                         ![r].stale = IF raises THEN @ \cup {bcast[r].sending} ELSE @]
    /\ UNCHANGED <<scene, phase, staged, notices, tasks, socketVars, log, missed>>

\* "Set changed size during iteration": caught by push_ws_notification.
BroadcastBroken(r) ==
    /\ Between(r) /\ ~SizeKept(bcast[r])
    /\ bcast' = [bcast EXCEPT ![r] = NoBroadcast]
    /\ UNCHANGED <<scene, phase, staged, notices, tasks, socketVars, log, missed>>

\* Leaving the loop: a socket that took the place of another may be passed over.
BroadcastEnd(r) == LET b == bcast[r] IN
    /\ Between(r) /\ SizeKept(b)
    /\ pool[b.user].of \cap b.first \subseteq b.seen
    /\ pool' = [pool EXCEPT ![b.user].of = @ \ b.stale]
    /\ bcast' = [bcast EXCEPT ![r] = NoBroadcast]
    /\ UNCHANGED <<scene, phase, staged, notices, tasks, subs, at, reader, client,
                   queue, hand, got, since, log, missed>>

Broadcast(r) ==
    \/ BroadcastBegin(r) \/ BroadcastNext(r) \/ BroadcastSent(r)
    \/ BroadcastBroken(r) \/ BroadcastEnd(r)

-----------------------------------------------------------------------------
(* Sockets.                                                                *)

JoinSubs(c) == subs' = [k \in Keys |-> IF k \in KeysOf(c) THEN subs[k] \cup {c} ELSE subs[k]]
LeaveSubs(c) == subs' = [k \in Keys |-> subs[k] \ {c}]

\* A user's set is made with his first socket and dropped with his last.
JoinPool(c) ==
    pool' = IF c \notin LegacySockets THEN pool
            ELSE [pool EXCEPT ![User[c]] =
                     [set |-> IF @.of = {} THEN @.set + 1 ELSE @.set, of |-> @.of \cup {c}]]
LeavePool(c) ==
    pool' = IF c \in LegacySockets THEN [pool EXCEPT ![User[c]].of = @ \ {c}] ELSE pool

\* A browser connects: the handler accepts and registers.
Open(c) ==
    /\ client[c] = "none" /\ c \in scene.sockets
    /\ client' = [client EXCEPT ![c] = "here"]
    /\ at' = [at EXCEPT ![c] = IF c \in BusSockets THEN "top" ELSE "get"]
    /\ JoinSubs(c) /\ JoinPool(c)
    /\ since' = [since EXCEPT ![c] = Len(log)]
    /\ UNCHANGED <<scene, requestVars, reader, queue, hand, got, log, missed>>

ClientLeaves(c) ==
    /\ client[c] = "here"
    /\ client' = [client EXCEPT ![c] = "gone"]
    /\ UNCHANGED <<scene, requestVars, subs, pool, at, reader, queue, hand, got, since, log, missed>>

Running(c) == at[c] \in {"top", "get", "send"}

\* The reading side sees the end of the stream.
ReaderEnds(c) ==
    /\ Running(c) /\ client[c] = "gone" /\ ~reader[c]
    /\ reader' = [reader EXCEPT ![c] = TRUE]
    /\ UNCHANGED <<scene, requestVars, subs, pool, at, client, queue, hand, got, since, log, missed>>

\* The key goes with the first socket that leaves it.
CloseForAll(c) ==
    /\ at' = [at EXCEPT ![c] = "ended"]
    /\ subs' = [k \in Keys |-> IF k \in KeysOf(c) THEN {} ELSE subs[k]]
    /\ pool' = IF c \in LegacySockets THEN [pool EXCEPT ![User[c]].of = {}] ELSE pool
    /\ UNCHANGED <<scene, requestVars, reader, client, queue, hand, got, since, log, missed>>

\* The finally blocks of the three handlers.
Close(c) ==
    /\ at' = [at EXCEPT ![c] = "ended"]
    /\ LeaveSubs(c) /\ LeavePool(c)
    /\ UNCHANGED <<scene, requestVars, reader, client, queue, hand, got, since, log, missed>>

\* A slip: the loop that never asks for its reader.
TopDeaf(c) ==
    /\ at[c] = "top"
    /\ at' = [at EXCEPT ![c] = "get"]
    /\ UNCHANGED <<scene, requestVars, subs, pool, reader, client, queue, hand, got, since, log, missed>>

\* ws_tickets: each turn asks whether the reader is done.
Top(c) ==
    \/ at[c] = "top" /\ reader[c] /\ Close(c)
    \/ /\ at[c] = "top" /\ ~reader[c]
       /\ at' = [at EXCEPT ![c] = "get"]
       /\ UNCHANGED <<scene, requestVars, subs, pool, reader, client, queue, hand, got,
                      since, log, missed>>

\* realtime_ws and ws_notifications end with their reader.
Hangup(c) == c \notin BusSockets /\ Running(c) /\ reader[c] /\ Close(c)

Get(c) ==
    /\ at[c] = "get" /\ queue[c] # <<>>
    /\ at' = [at EXCEPT ![c] = "send"]
    /\ hand' = [hand EXCEPT ![c] = <<Head(queue[c])>>]
    /\ queue' = [queue EXCEPT ![c] = Tail(@)]
    /\ UNCHANGED <<scene, requestVars, subs, pool, reader, client, got, since, log, missed>>

Turn(c) == at' = [at EXCEPT ![c] = IF c \in BusSockets THEN "top" ELSE "get"]

\* Sending to a browser that has gone either raises or goes unnoticed.
Send(c) ==
    \/ /\ at[c] = "send" /\ Turn(c)
       /\ hand' = [hand EXCEPT ![c] = <<>>]
       /\ got' = IF client[c] = "here" THEN [got EXCEPT ![c] = @ \o hand[c]] ELSE got
       /\ UNCHANGED <<scene, requestVars, subs, pool, reader, client, queue, since, log, missed>>
    \/ at[c] = "send" /\ client[c] = "gone" /\ Close(c)

\* Nothing for 15, 25 or 30 seconds: a ping.
Ping(c) ==
    \/ /\ at[c] = "get" /\ queue[c] = <<>> /\ c \in BusSockets /\ Turn(c)
       /\ UNCHANGED <<scene, requestVars, subs, pool, reader, client, queue, hand, got,
                      since, log, missed>>
    \/ at[c] = "get" /\ queue[c] = <<>> /\ client[c] = "gone" /\ Close(c)

Handler(c) == Top(c) \/ Get(c) \/ Send(c) \/ Ping(c)

-----------------------------------------------------------------------------
Next ==
    \/ \E r \in Requests :
        \/ StageEvent(r) \/ CreateNotice(r) \/ MarkRead(r) \/ MarkAllRead(r)
        \/ Commit(r) \/ FlushEvents(r) \/ Fail(r) \/ Broadcast(r)
    \/ RunTask
    \/ \E c \in Sockets :
        \/ Open(c) \/ ClientLeaves(c) \/ ReaderEnds(c) \/ Hangup(c) \/ Handler(c)

\* The event loop runs what is ready; the timeouts of the handlers expire.
Fairness ==
    /\ WF_vars(RunTask)
    /\ \A c \in Sockets :
        WF_vars(ReaderEnds(c)) /\ WF_vars(Hangup(c)) /\ WF_vars(Handler(c))

Spec == Init /\ [][Next]_vars
FairSpec == Spec /\ Fairness

-----------------------------------------------------------------------------
(* Properties.                                                             *)

\* A socket whose browser is there and whose handler is running is where the
\* publishers look for it, whatever connects, leaves or is being sent to at the
\* same time (the live set under broadcast_to_user, the sets Hub drops when
\* they are empty).
OpenSocketsRegistered ==
    \A c \in Sockets :
        (Running(c) /\ client[c] = "here") =>
            /\ \A k \in KeysOf(c) : c \in subs[k]
            /\ c \in LegacySockets => c \in pool[User[c]].of

\* What a browser that is there has received and is about to receive.
Stream(c) == got[c] \o hand[c] \o queue[c]

\* The payloads of the entries H of the log l, in their order.
Lists(all, H, l) ==
    /\ Len(all) = Cardinality(H)
    /\ \A i \in H : all[Cardinality({j \in H : j <= i})] = l[i].payload

\* What was published for a socket since it connected.
PublishedTo(c) == {i \in (since[c] + 1)..Len(log) : log[i].key \in KeysOf(c)}

\* What a browser has received, what its handler holds and what its queue holds
\* are, one after another, what was published for it since it connected, in the
\* order of publication and once per key, less at most one payload for each
\* publication that found its queue full: another socket's full queue costs it
\* nothing.  A full queue of the hub loses the publication itself (Hub.publish);
\* which event a full queue of the bus loses is not said here (NewestEventKept).
StreamsInOrder ==
    \A c \in BusSockets \cup HubSockets :
        (Running(c) /\ client[c] = "here") =>
            \E lost \in SUBSET PublishedTo(c) :
                /\ Cardinality(lost) <= Cardinality(missed[c])
                /\ c \in HubSockets => lost \subseteq missed[c]
                /\ Lists(Stream(c), PublishedTo(c) \ lost, log)

\* A full queue of the bus makes room for the newest event: "Buffered queues drop
\* oldest on overflow" (events.py:4-5).
NewestEventKept ==
    \A c \in BusSockets :
        (Running(c) /\ client[c] = "here" /\ PublishedTo(c) # {}) =>
            \E i \in PublishedTo(c) :
                /\ \A j \in PublishedTo(c) : j <= i
                /\ Stream(c) # <<>> /\ Stream(c)[Len(Stream(c))] = log[i].payload

OnBus == {i \in DOMAIN log : log[i].key = Bus}

\* The events on the bus come from requests that have committed, each request's
\* events next to each other and in the order of its operations: a rollback
\* publishes nothing and two requests are never interleaved (stage_event,
\* flush_session_events after the commit, discard_session_events).
CommittedInOneGo ==
    \A i \in OnBus :
        LET e == log[i].payload IN
        /\ phase[e[1]] = "done" /\ staged[e[1]] = <<>>
        /\ e[2] > 1 => \E j \in OnBus :
             /\ j < i /\ log[j].payload = <<e[1], e[2] - 1>>
             /\ \A k \in OnBus : k <= j \/ i <= k

\* A handler whose browser has gone ends, and with it its registration: no queue
\* fills up for nobody, whether or not sending to a closed socket raises.
GoneIsForgotten ==
    \A c \in Sockets : (client[c] = "gone") ~>
        (at[c] = "ended" /\ (\A k \in Keys : c \notin subs[k])
                         /\ (\A u \in Users : c \notin pool[u].of))

=============================================================================
