---------------------------- MODULE RealtimeProofs ----------------------------
(***************************************************************************)
(* What the sockets of a server process receive, for any requests, sockets *)
(* and users, any kinds of behaviour and queues of any length.  Between    *)
(* two awaits the code changes several structures at once; the inductive   *)
(* invariant says how they hang together: who runs is registered exactly   *)
(* where he listens, who was found stale has gone, a staged event bears    *)
(* its request and its place, and a browser's stream is what was heard.    *)
(***************************************************************************)
EXTENDS Realtime, SequenceTheorems, FiniteSetTheorems, TLAPS

Loop == [user : Users \cup {Nobody}, set : Nat, first : SUBSET LegacySockets,
         seen : SUBSET LegacySockets, stale : SUBSET LegacySockets,
         sending : LegacySockets \cup {Nobody}]
NoticeRow == [to : Actors \cup {Nobody}, by : Requests \cup {Nobody},
              state : {"absent", "flushed", "stored", "undone"},
              readBy : Requests \cup {Nobody}, read : BOOLEAN]
Entry == [key : Keys, payload : Payloads]
Member == [set : Nat, of : SUBSET LegacySockets]

RequestTypes ==
    /\ scene \in Scenes
    /\ phase \in [Requests -> {"open", "committed", "done", "failed"}]
    /\ staged \in [Requests -> Seq(Requests \X (1..MaxStaged))]
    /\ notices \in [Notices -> NoticeRow]
    /\ tasks \in Seq(Actors \X Payloads)
    /\ bcast \in [Requests -> Loop]

\* A row that is there is somebody's.
Addressed == \A n \in Notices : notices[n].state # "absent" => notices[n].to \in Actors

SocketTypes ==
    /\ subs \in [Keys -> SUBSET (BusSockets \cup HubSockets)]
    /\ pool \in [Users -> Member]
    /\ at \in [Sockets -> {"none", "top", "get", "send", "ended"}]
    /\ reader \in [Sockets -> BOOLEAN]
    /\ client \in [Sockets -> {"none", "here", "gone"}]
    /\ hand \in [Sockets -> Seq(Payloads)]
    /\ got \in [Sockets -> Seq(Payloads)]
    /\ since \in [Sockets -> Nat]

\* What publishing changes.
StreamTypes ==
    /\ log \in Seq(Entry)
    /\ queue \in [Sockets -> Seq(Payloads)]
    /\ \A c \in Sockets : Len(queue[c]) <= QueueMax(c)
    /\ missed \in [Sockets -> SUBSET (1..Len(log))]

\* Where a socket is registered, and what it holds, by where its handler stands.
Registered ==
    /\ \A c \in Sockets, k \in Keys : c \in subs[k] <=> Running(c) /\ k \in KeysOf(c)
    /\ \A c \in LegacySockets : Running(c) /\ client[c] = "here" => c \in pool[User[c]].of
    /\ \A r \in Requests : \A c \in bcast[r].stale : client[c] = "gone"

HandsFit ==
    \A c \in Sockets :
        /\ Len(hand[c]) <= 1
        /\ Running(c) /\ at[c] # "send" => hand[c] = <<>>
        /\ client[c] = "none" => /\ at[c] = "none"
                                 /\ queue[c] = <<>> /\ hand[c] = <<>> /\ got[c] = <<>>
        /\ since[c] <= Len(log)

\* Staged events bear their request and their place, and only an open or a
\* committed request has any.
StagedFit ==
    \A r \in Requests :
        /\ \A i \in DOMAIN staged[r] : staged[r][i] = <<r, i>>
        /\ phase[r] \in {"done", "failed"} => staged[r] = <<>>

BusEvents == \A i \in OnBus : log[i].payload \in Requests \X (1..MaxStaged)

\* What was published for a socket and found room in its queue.
Heard(c) ==
    {i \in (since[c] + 1)..Len(log) : log[i].key \in KeysOf(c) /\ i \notin missed[c]}

StreamsFit ==
    \A c \in BusSockets \cup HubSockets :
        Running(c) /\ client[c] = "here" => Lists(Stream(c), Heard(c), log)

RealtimeInv ==
    /\ RequestTypes /\ Addressed /\ SocketTypes /\ StreamTypes
    /\ Registered /\ HandsFit
    /\ StagedFit /\ BusEvents /\ CommittedInOneGo
    /\ StreamsFit

-----------------------------------------------------------------------------
(* Keys and queues.                                                        *)

LEMMA KeysAreKeys ==
    ASSUME NEW c \in Sockets
    PROVE  /\ KeysOf(c) \subseteq Keys
           /\ c \in LegacySockets => KeysOf(c) = {}
           /\ c \notin LegacySockets => c \in BusSockets \cup HubSockets
           /\ QueueMax(c) \in Nat
  <1>1. User[c] \in Users
    BY RealtimeAssumption
  <1>2. CASE c \in BusSockets
    <2>1. KeysOf(c) = {Bus}
      BY <1>2, RealtimeAssumption DEF KeysOf
    <2> QED BY <1>2, <2>1, RealtimeAssumption DEF Keys, QueueMax
  <1>3. CASE c \in HubSockets
    <2>1. KeysOf(c) = {User[c]} \cup AgentsOf(User[c])
      BY <1>3, RealtimeAssumption DEF KeysOf
    <2> QED BY <1>1, <1>3, <2>1, RealtimeAssumption DEF Keys, Actors, AgentsOf, QueueMax
  <1>4. CASE c \in LegacySockets
    <2>1. KeysOf(c) = {}
      BY <1>4, RealtimeAssumption DEF KeysOf
    <2> QED BY <1>4, <2>1, RealtimeAssumption DEF QueueMax
  <1> QED BY <1>2, <1>3, <1>4 DEF Sockets

\* One list after another.
LEMMA Joined ==
    ASSUME NEW S, NEW a \in Seq(S), NEW b \in Seq(S)
    PROVE  /\ a \o b \in Seq(S) /\ Len(a \o b) = Len(a) + Len(b)
           /\ Len(a) \in Nat /\ Len(b) \in Nat
           /\ \A i \in 1..Len(a) : (a \o b)[i] = a[i]
           /\ \A i \in 1..Len(b) : (a \o b)[Len(a) + i] = b[i]
  OBVIOUS

\* The same for an operator of its own: that is how it is used.
Join(a, b) == a \o b

LEMMA Regrouped ==
    ASSUME NEW S, NEW a \in Seq(S), NEW b \in Seq(S), NEW c \in Seq(S)
    PROVE  Join(Join(a, b), c) = Join(a, Join(b, c))
  BY ConcatAssociative DEF Join

LEMMA Chained ==
    ASSUME NEW S, NEW a \in Seq(S), NEW b \in Seq(S), NEW q \in Seq(S), NEW d \in Seq(S)
    PROVE  Join(Join(Join(a, b), q), d) = Join(Join(a, b), Join(q, d))
  <1>1. Join(a, b) \in Seq(S)
    BY Joined DEF Join
  <1> QED BY <1>1, Regrouped

\* A publication: every listener hears a beginning of it, the rest is missed.
LEMMA PublishDoes ==
    ASSUME StreamTypes, NEW key \in Keys, NEW xs \in Seq(Payloads), Publish(key, xs)
    PROVE  /\ StreamTypes'
           /\ Len(log') = Len(log) + Len(xs)
           /\ \A i \in 1..Len(log) : log'[i] = log[i]
           /\ \A i \in 1..Len(xs) : log'[Len(log) + i] = [key |-> key, payload |-> xs[i]]
           /\ \A c \in Sockets :
                IF c \in subs[key]
                THEN \E n \in 0..Len(xs) :
                       /\ queue'[c] = queue[c] \o SubSeq(xs, 1, n)
                       /\ missed'[c] = missed[c] \cup {Len(log) + i : i \in (n + 1)..Len(xs)}
                ELSE queue'[c] = queue[c] /\ missed'[c] = missed[c]
  <1> DEFINE L == Len(log)
             room(c) == IF QueueMax(c) - Len(queue[c]) < Len(xs)
                        THEN QueueMax(c) - Len(queue[c]) ELSE Len(xs)
             more == [i \in 1..Len(xs) |-> [key |-> key, payload |-> xs[i]]]
  <1>1. /\ log \in Seq(Entry) /\ L \in Nat /\ Len(xs) \in Nat
        /\ \A c \in Sockets : /\ queue[c] \in Seq(Payloads) /\ Len(queue[c]) \in Nat
                              /\ Len(queue[c]) <= QueueMax(c) /\ missed[c] \in SUBSET (1..L)
    BY DEF StreamTypes
  <1>2. /\ queue' = [c \in Sockets |->
                        IF c \in subs[key] THEN Put(queue[c], xs, room(c)) ELSE queue[c]]
        /\ missed' = [c \in Sockets |->
                        IF c \in subs[key]
                        THEN missed[c] \cup {L + i : i \in (room(c) + 1)..Len(xs)}
                        ELSE missed[c]]
        /\ log' = log \o more
    BY DEF Publish
  <1>3. more \in Seq(Entry) /\ Len(more) = Len(xs)
    <2>1. \A i \in 1..Len(xs) : xs[i] \in Payloads
      OBVIOUS
    <2>2. \A i \in 1..Len(xs) : [key |-> key, payload |-> xs[i]] \in Entry
      BY <2>1 DEF Entry
    <2> QED BY <1>1, <2>2
  <1>4. /\ log' \in Seq(Entry) /\ Len(log') = L + Len(xs)
        /\ \A i \in 1..L : log'[i] = log[i]
        /\ \A i \in 1..Len(xs) : log'[L + i] = more[i]
    BY <1>1, <1>2, <1>3
  <1>5. ASSUME NEW c \in Sockets
        PROVE  room(c) \in 0..Len(xs) /\ Len(queue[c]) + room(c) <= QueueMax(c)
    BY <1>1, KeysAreKeys
  <1> HIDE DEF more, room
  <1>6. ASSUME NEW c \in Sockets, NEW n \in 0..Len(xs)
        PROVE  /\ queue[c] \o SubSeq(xs, 1, n) \in Seq(Payloads)
               /\ Len(queue[c] \o SubSeq(xs, 1, n)) = Len(queue[c]) + n
    <2>1. SubSeq(xs, 1, n) \in Seq(Payloads) /\ Len(SubSeq(xs, 1, n)) = n
      OBVIOUS
    <2>2. /\ queue[c] \o SubSeq(xs, 1, n) \in Seq(Payloads)
          /\ Len(queue[c] \o SubSeq(xs, 1, n)) = Len(queue[c]) + Len(SubSeq(xs, 1, n))
      BY <1>1, <2>1, Joined
    <2> QED BY <2>1, <2>2
  <1>7. queue' \in [Sockets -> Seq(Payloads)] /\ \A c \in Sockets : Len(queue'[c]) <= QueueMax(c)
    <2> SUFFICES ASSUME NEW c \in Sockets
                 PROVE  queue'[c] \in Seq(Payloads) /\ Len(queue'[c]) <= QueueMax(c)
      BY <1>2
    <2>1. CASE c \in subs[key]
      <3>1. queue'[c] = queue[c] \o SubSeq(xs, 1, room(c))
        BY <1>2, <2>1 DEF Put
      <3> QED BY <1>5, <1>6, <3>1
    <2>2. CASE c \notin subs[key]
      BY <1>1, <1>2, <2>2
    <2> QED BY <2>1, <2>2
  <1>8. missed' \in [Sockets -> SUBSET (1..Len(log'))]
    <2> SUFFICES ASSUME NEW c \in Sockets
                 PROVE  missed'[c] \in SUBSET (1..Len(log'))
      BY <1>2
    <2>1. missed[c] \in SUBSET (1..Len(log'))
      BY <1>1, <1>4
    <2>2. {L + i : i \in (room(c) + 1)..Len(xs)} \in SUBSET (1..Len(log'))
      BY <1>1, <1>4, <1>5
    <2> QED BY <1>2, <2>1, <2>2
  <1>9. ASSUME NEW c \in Sockets, c \in subs[key]
        PROVE  /\ queue'[c] = queue[c] \o SubSeq(xs, 1, room(c))
               /\ missed'[c] = missed[c] \cup {L + i : i \in (room(c) + 1)..Len(xs)}
    BY <1>2, <1>9 DEF Put
  <1>10. ASSUME NEW c \in Sockets, c \notin subs[key]
         PROVE  queue'[c] = queue[c] /\ missed'[c] = missed[c]
    BY <1>2, <1>10
  <1>11. StreamTypes'
    BY <1>4, <1>7, <1>8 DEF StreamTypes, QueueMax
  <1> QED BY <1>4, <1>5, <1>9, <1>10, <1>11 DEF more


-----------------------------------------------------------------------------
(* Steps of requests that publish nothing.                                 *)

\* The sockets and what was published stay; a pool may lose who has gone.
LEMMA RequestsAndPool ==
    ASSUME RealtimeInv,
           UNCHANGED <<scene, subs, at, reader, client, queue, hand, got, since, log, missed>>,
           RequestTypes', Addressed', StagedFit', pool' \in [Users -> Member],
           \A c \in LegacySockets :
              client[c] = "here" /\ c \in pool[User[c]].of => c \in pool'[User[c]].of,
           \A r \in Requests : /\ \A c \in bcast'[r].stale : client[c] = "gone"
                               /\ phase[r] = "done" => phase'[r] = "done" /\ staged'[r] = <<>>
    PROVE  RealtimeInv'
  <1>1. UNCHANGED <<subs, at, reader, client, queue, hand, got, since, log, missed>>
    OBVIOUS
  <1>2. SocketTypes' /\ StreamTypes'
    BY <1>1 DEF RealtimeInv, SocketTypes, StreamTypes, QueueMax
  <1>3. Registered' /\ HandsFit'
    BY <1>1 DEF RealtimeInv, Registered, HandsFit, Running
  <1>4. OnBus' = OnBus
    BY <1>1 DEF OnBus
  <1>5. BusEvents'
    BY <1>1, <1>4 DEF RealtimeInv, BusEvents
  <1>6. CommittedInOneGo'
    <2> SUFFICES ASSUME NEW i \in OnBus
                 PROVE  LET e == log[i].payload IN
                        /\ phase'[e[1]] = "done" /\ staged'[e[1]] = <<>>
                        /\ e[2] > 1 => \E j \in OnBus :
                             /\ j < i /\ log[j].payload = <<e[1], e[2] - 1>>
                             /\ \A k \in OnBus : k <= j \/ i <= k
      BY <1>1, <1>4 DEF CommittedInOneGo
    <2>1. log[i].payload[1] \in Requests
      BY DEF RealtimeInv, BusEvents
    <2> QED BY <2>1 DEF RealtimeInv, CommittedInOneGo
  <1>7. StreamsFit'
    <2> SUFFICES ASSUME NEW c \in BusSockets \cup HubSockets, Running(c)', client'[c] = "here"
                 PROVE  Lists(Stream(c)', Heard(c)', log')
      BY DEF StreamsFit
    <2>1. Stream(c)' = Stream(c) /\ Heard(c)' = Heard(c) /\ log' = log
      BY <1>1 DEF Stream, Heard
    <2>2. Lists(Stream(c), Heard(c), log)
      BY <1>1 DEF RealtimeInv, StreamsFit, Running
    <2> QED BY <2>1, <2>2
  <1> QED BY <1>2, <1>3, <1>5, <1>6, <1>7 DEF RealtimeInv

LEMMA RequestsAlone ==
    ASSUME RealtimeInv, UNCHANGED <<scene, socketVars, log, missed>>,
           RequestTypes', Addressed', StagedFit',
           \A r \in Requests : /\ \A c \in bcast'[r].stale : client[c] = "gone"
                               /\ phase[r] = "done" => phase'[r] = "done" /\ staged'[r] = <<>>
    PROVE  RealtimeInv'
  <1>1. UNCHANGED <<subs, pool, at, reader, client, queue, hand, got, since>>
    BY DEF socketVars
  <1>2. pool' \in [Users -> Member]
    BY <1>1 DEF RealtimeInv, SocketTypes
  <1> QED BY <1>1, <1>2, RequestsAndPool

\* The steps that concern the rows of notices and the tasks alone.
LEMMA NoticesAlone ==
    ASSUME RealtimeInv, UNCHANGED <<scene, staged, bcast, socketVars, log, missed>>,
           notices' \in [Notices -> NoticeRow], Addressed', tasks' \in Seq(Actors \X Payloads),
           phase' \in [Requests -> {"open", "committed", "done", "failed"}],
           \A r \in Requests :
              phase'[r] = phase[r] \/ (phase[r] = "open" /\ phase'[r] = "committed")
    PROVE  RealtimeInv'
  <1>1. RequestTypes' /\ StagedFit'
    BY DEF RealtimeInv, RequestTypes, StagedFit
  <1>2. \A r \in Requests : /\ \A c \in bcast'[r].stale : client[c] = "gone"
                            /\ phase[r] = "done" => phase'[r] = "done" /\ staged'[r] = <<>>
    BY DEF RealtimeInv, Registered, StagedFit
  <1> QED BY <1>1, <1>2, RequestsAlone

LEMMA StageEventKeeps ==
    ASSUME RealtimeInv, NEW r \in Requests, StageEvent(r)
    PROVE  RealtimeInv'
  <1> DEFINE x == <<r, Len(staged[r]) + 1>>
  <1>1. /\ phase[r] = "open" /\ Len(staged[r]) < MaxStaged
        /\ staged' = [staged EXCEPT ![r] = Append(@, x)]
        /\ UNCHANGED <<scene, phase, notices, tasks, bcast, socketVars, log, missed>>
    BY DEF StageEvent, Free
  <1>2. /\ staged \in [Requests -> Seq(Requests \X (1..MaxStaged))]
        /\ staged[r] \in Seq(Requests \X (1..MaxStaged)) /\ Len(staged[r]) \in Nat
    BY DEF RealtimeInv, RequestTypes
  <1>3. x \in Requests \X (1..MaxStaged)
    BY <1>1, <1>2, RealtimeAssumption
  <1>4. /\ Append(staged[r], x) \in Seq(Requests \X (1..MaxStaged))
        /\ DOMAIN Append(staged[r], x) = 1..(Len(staged[r]) + 1)
        /\ Append(staged[r], x)[Len(staged[r]) + 1] = x
        /\ \A i \in 1..Len(staged[r]) : Append(staged[r], x)[i] = staged[r][i]
        /\ DOMAIN staged[r] = 1..Len(staged[r])
    BY <1>2, <1>3, AppendProperties
  <1>5. RequestTypes'
    BY <1>1, <1>2, <1>4 DEF RealtimeInv, RequestTypes
  <1>6. ASSUME NEW q \in Requests
        PROVE  /\ \A i \in DOMAIN staged'[q] : staged'[q][i] = <<q, i>>
               /\ phase[q] \in {"done", "failed"} => staged'[q] = <<>>
    <2>1. CASE q = r
      <3>1. staged'[r] = Append(staged[r], x)
        BY <1>1, <1>2
      <3>2. \A i \in 1..Len(staged[r]) : staged[r][i] = <<r, i>>
        BY <1>4 DEF RealtimeInv, StagedFit
      <3>3. \A i \in 1..(Len(staged[r]) + 1) : i \in 1..Len(staged[r]) \/ i = Len(staged[r]) + 1
        BY <1>2
      <3> QED BY <1>1, <1>4, <2>1, <3>1, <3>2, <3>3
    <2>2. CASE q # r
      BY <1>1, <1>2, <2>2 DEF RealtimeInv, StagedFit
    <2> QED BY <2>1, <2>2
  <1>7. StagedFit' /\ Addressed'
    BY <1>1, <1>6 DEF RealtimeInv, StagedFit, Addressed
  <1>8. \A q \in Requests : /\ \A c \in bcast'[q].stale : client[c] = "gone"
                            /\ phase[q] = "done" => phase'[q] = "done" /\ staged'[q] = <<>>
    BY <1>1, <1>6 DEF RealtimeInv, Registered
  <1> QED BY <1>1, <1>5, <1>7, <1>8, RequestsAlone

LEMMA CreateNoticeKeeps ==
    ASSUME RealtimeInv, NEW r \in Requests, CreateNotice(r)
    PROVE  RealtimeInv'
  <1>1. PICK n \in Notices, a \in Actors :
            /\ notices' = [notices EXCEPT ![n].to = a, ![n].by = r, ![n].state = "flushed"]
            /\ tasks' = Append(tasks, <<a, <<"told", n>>>>)
            /\ UNCHANGED <<scene, phase, staged, bcast, socketVars, log, missed>>
    BY DEF CreateNotice
  <1>2. notices \in [Notices -> NoticeRow] /\ tasks \in Seq(Actors \X Payloads)
    BY DEF RealtimeInv, RequestTypes
  <1>3. <<a, <<"told", n>>>> \in Actors \X Payloads
    BY DEF Payloads
  <1>4. tasks' \in Seq(Actors \X Payloads)
    BY <1>1, <1>2, <1>3
  <1>5. notices' \in [Notices -> NoticeRow] /\ Addressed'
    <2>1. /\ notices'[n].to = a /\ notices'[n] \in NoticeRow
          /\ \A m \in Notices \ {n} : notices'[m] = notices[m]
          /\ DOMAIN notices' = Notices
      BY <1>1, <1>2 DEF NoticeRow
    <2>2. \A m \in Notices : notices'[m] \in NoticeRow
      BY <1>2, <2>1
    <2> QED BY <1>1, <1>2, <2>1, <2>2 DEF RealtimeInv, Addressed
  <1> QED BY <1>1, <1>4, <1>5, NoticesAlone DEF RealtimeInv, RequestTypes

LEMMA ReadingNoticesKeeps ==
    ASSUME RealtimeInv, NEW r \in Requests, MarkRead(r) \/ MarkAllRead(r)
    PROVE  RealtimeInv'
  <1>1. notices \in [Notices -> NoticeRow] /\ tasks \in Seq(Actors \X Payloads)
    BY DEF RealtimeInv, RequestTypes
  <1>2. \A a \in Actors, p \in Payloads : <<<<a, p>>>> \in Seq(Actors \X Payloads)
    OBVIOUS
  <1>3. << >> \in Seq(Actors \X Payloads)
    OBVIOUS
  <1>4. CASE MarkRead(r)
    <2>1. PICK n \in Notices :
            /\ Unread(n)
            /\ notices' = [notices EXCEPT ![n].readBy = r]
            /\ tasks' = LET a == notices[n].to IN
                 tasks \o <<<<a, <<"read", n>>>>>>
                       \o (IF a \in Agents THEN <<<<CreatedBy[a], <<"read", n>>>>>> ELSE <<>>)
            /\ UNCHANGED <<scene, phase, staged, bcast, socketVars, log, missed>>
      BY <1>4 DEF MarkRead
    <2>2. notices[n].to \in Actors
      BY <2>1 DEF Unread, RealtimeInv, Addressed
    <2>3. <<"read", n>> \in Payloads
      BY DEF Payloads
    <2>4. notices[n].to \in Agents => CreatedBy[notices[n].to] \in Actors
      BY RealtimeAssumption DEF Actors
    <2>5. tasks' \in Seq(Actors \X Payloads)
      <3>1. tasks \o <<<<notices[n].to, <<"read", n>>>>>> \in Seq(Actors \X Payloads)
        BY <1>1, <1>2, <2>2, <2>3, Joined
      <3>2. (IF notices[n].to \in Agents THEN <<<<CreatedBy[notices[n].to], <<"read", n>>>>>>
             ELSE <<>>) \in Seq(Actors \X Payloads)
        BY <1>2, <1>3, <2>3, <2>4
      <3> QED BY <2>1, <3>1, <3>2, Joined
    <2>6. notices' \in [Notices -> NoticeRow] /\ Addressed'
      <3>1. /\ notices'[n] \in NoticeRow /\ notices'[n].to = notices[n].to
            /\ \A m \in Notices \ {n} : notices'[m] = notices[m]
            /\ DOMAIN notices' = Notices
        BY <1>1, <2>1 DEF NoticeRow
      <3>2. \A m \in Notices : notices'[m] \in NoticeRow
        BY <1>1, <3>1
      <3> QED BY <1>1, <2>1, <2>2, <3>1, <3>2 DEF RealtimeInv, Addressed
    <2> QED BY <2>1, <2>5, <2>6, NoticesAlone DEF RealtimeInv, RequestTypes
  <1>5. CASE MarkAllRead(r)
    <2>1. PICK u \in Users, kind \in {"user", "agent"}, hit \in SUBSET Notices :
            /\ notices' = [n \in Notices |->
                 IF n \in hit THEN [notices[n] EXCEPT !.readBy = r] ELSE notices[n]]
            /\ tasks' = tasks \o <<<<u, <<"read_all", Nobody>>>>>>
                    \o (IF kind = "agent" THEN <<<<u, <<"read_all", Nobody>>>>>> ELSE <<>>)
            /\ UNCHANGED <<scene, phase, staged, bcast, socketVars, log, missed>>
      BY <1>5 DEF MarkAllRead
    <2>2. u \in Actors /\ <<"read_all", Nobody>> \in Payloads
      BY DEF Actors, Payloads
    <2>3. tasks' \in Seq(Actors \X Payloads)
      <3>1. tasks \o <<<<u, <<"read_all", Nobody>>>>>> \in Seq(Actors \X Payloads)
        BY <1>1, <1>2, <2>2, Joined
      <3>2. (IF kind = "agent" THEN <<<<u, <<"read_all", Nobody>>>>>> ELSE <<>>)
                \in Seq(Actors \X Payloads)
        BY <1>2, <1>3, <2>2
      <3> QED BY <2>1, <3>1, <3>2, Joined
    <2>4. \A n \in Notices : /\ notices'[n] \in NoticeRow /\ notices'[n].to = notices[n].to
                             /\ notices'[n].state = notices[n].state
      BY <1>1, <2>1 DEF NoticeRow
    <2>5. notices' \in [Notices -> NoticeRow] /\ Addressed'
      BY <2>1, <2>4 DEF RealtimeInv, Addressed
    <2> QED BY <2>1, <2>3, <2>5, NoticesAlone DEF RealtimeInv, RequestTypes
  <1> QED BY <1>4, <1>5


\* A commit or a rollback changes what becomes of rows, not whose they are.
LEMMA EndingKeeps ==
    ASSUME RealtimeInv, NEW r \in Requests, Commit(r) \/ Fail(r)
    PROVE  RealtimeInv'
  <1>1. /\ notices \in [Notices -> NoticeRow] /\ bcast \in [Requests -> Loop]
        /\ staged \in [Requests -> Seq(Requests \X (1..MaxStaged))]
        /\ phase \in [Requests -> {"open", "committed", "done", "failed"}]
    BY DEF RealtimeInv, RequestTypes
  <1>2. CASE Commit(r)
    <2>1. /\ phase[r] = "open" /\ phase' = [phase EXCEPT ![r] = "committed"]
          /\ notices' = [n \in Notices |->
               [notices[n] EXCEPT
                  !.state = IF @ = "flushed" /\ notices[n].by = r THEN "stored" ELSE @,
                  !.read = @ \/ notices[n].readBy = r]]
          /\ UNCHANGED <<scene, staged, tasks, bcast, socketVars, log, missed>>
      BY <1>2 DEF Commit
    <2>2. ASSUME NEW n \in Notices
          PROVE  /\ notices'[n] \in NoticeRow /\ notices'[n].to = notices[n].to
                 /\ notices'[n].state # "absent" => notices[n].state # "absent"
      <3> DEFINE st == IF notices[n].state = "flushed" /\ notices[n].by = r
                       THEN "stored" ELSE notices[n].state
                 rd == notices[n].read \/ notices[n].readBy = r
      <3>1. notices'[n] = [notices[n] EXCEPT !.state = st, !.read = rd]
        BY <2>1
      <3>2. notices[n] \in NoticeRow
        BY <1>1
      <3>3. /\ st \in {"absent", "flushed", "stored", "undone"}
            /\ st # "absent" => notices[n].state # "absent"
        BY <3>2 DEF NoticeRow
      <3>4. rd \in BOOLEAN
        OBVIOUS
      <3> HIDE DEF st, rd
      <3>5. PICK row : row = notices[n]
        OBVIOUS
      <3>6. row \in NoticeRow
        BY <3>2, <3>5
      <3>7. [row EXCEPT !.state = st, !.read = rd] \in NoticeRow
        BY <3>3, <3>4, <3>6 DEF NoticeRow
      <3>8. /\ [row EXCEPT !.state = st, !.read = rd].to = row.to
            /\ [row EXCEPT !.state = st, !.read = rd].state = st
        BY <3>6 DEF NoticeRow
      <3> QED BY <3>1, <3>3, <3>5, <3>7, <3>8
    <2>3. notices' \in [Notices -> NoticeRow]
      BY <2>1, <2>2
    <2>4. Addressed'
      BY <2>2 DEF RealtimeInv, Addressed
    <2> QED BY <1>1, <2>1, <2>3, <2>4, NoticesAlone DEF RealtimeInv, RequestTypes
  <1>3. CASE Fail(r)
    <2>1. /\ phase[r] = "open" /\ phase' = [phase EXCEPT ![r] = "failed"]
          /\ staged' = [staged EXCEPT ![r] = <<>>]
          /\ notices' = [n \in Notices |->
               [notices[n] EXCEPT
                  !.state = IF @ = "flushed" /\ notices[n].by = r THEN "undone" ELSE @,
                  !.readBy = IF @ = r THEN Nobody ELSE @]]
          /\ bcast' = [bcast EXCEPT ![r] = NoBroadcast]
          /\ UNCHANGED <<scene, tasks, socketVars, log, missed>>
      BY <1>3 DEF Fail
    <2>2. ASSUME NEW n \in Notices
          PROVE  /\ notices'[n] \in NoticeRow /\ notices'[n].to = notices[n].to
                 /\ notices'[n].state # "absent" => notices[n].state # "absent"
      <3> DEFINE st == IF notices[n].state = "flushed" /\ notices[n].by = r
                       THEN "undone" ELSE notices[n].state
                 by == IF notices[n].readBy = r THEN Nobody ELSE notices[n].readBy
      <3>1. notices'[n] = [notices[n] EXCEPT !.state = st, !.readBy = by]
        BY <2>1
      <3>2. notices[n] \in NoticeRow
        BY <1>1
      <3>3. /\ st \in {"absent", "flushed", "stored", "undone"}
            /\ st # "absent" => notices[n].state # "absent"
        BY <3>2 DEF NoticeRow
      <3>4. by \in Requests \cup {Nobody}
        BY <3>2 DEF NoticeRow
      <3> HIDE DEF st, by
      <3>5. PICK row : row = notices[n]
        OBVIOUS
      <3>6. row \in NoticeRow
        BY <3>2, <3>5
      <3>7. [row EXCEPT !.state = st, !.readBy = by] \in NoticeRow
        BY <3>3, <3>4, <3>6 DEF NoticeRow
      <3>8. /\ [row EXCEPT !.state = st, !.readBy = by].to = row.to
            /\ [row EXCEPT !.state = st, !.readBy = by].state = st
        BY <3>6 DEF NoticeRow
      <3> QED BY <3>1, <3>3, <3>5, <3>7, <3>8
    <2>3. notices' \in [Notices -> NoticeRow]
      BY <2>1, <2>2
    <2>4. Addressed'
      BY <2>2 DEF RealtimeInv, Addressed
    <2>5. NoBroadcast \in Loop /\ NoBroadcast.stale = {}
      BY DEF NoBroadcast, Loop
    <2>6. RequestTypes'
      <3>1. << >> \in Seq(Requests \X (1..MaxStaged))
        OBVIOUS
      <3>2. /\ staged' \in [Requests -> Seq(Requests \X (1..MaxStaged))]
            /\ bcast' \in [Requests -> Loop]
        BY <1>1, <2>1, <2>5, <3>1
      <3>3. phase' \in [Requests -> {"open", "committed", "done", "failed"}]
        BY <1>1, <2>1
      <3> QED BY <2>1, <2>3, <3>2, <3>3 DEF RealtimeInv, RequestTypes
    <2>7. ASSUME NEW q \in Requests
          PROVE  /\ \A i \in DOMAIN staged'[q] : staged'[q][i] = <<q, i>>
                 /\ phase'[q] \in {"done", "failed"} => staged'[q] = <<>>
                 /\ phase[q] = "done" => phase'[q] = "done" /\ staged'[q] = <<>>
                 /\ \A c \in bcast'[q].stale : client[c] = "gone"
      <3>1. CASE q = r
        <4>1. staged'[q] = <<>> /\ bcast'[q] = NoBroadcast
          BY <1>1, <2>1, <3>1
        <4>2. << >> \in Seq(Requests \X (1..MaxStaged)) /\ Len(<< >>) = 0
          OBVIOUS
        <4>3. DOMAIN << >> = 1..0
          BY <4>2, LenProperties
        <4>4. \A i \in DOMAIN << >> : FALSE
          BY <4>3
        <4>5. phase[q] = "open"
          BY <2>1, <3>1
        <4> QED BY <2>5, <4>1, <4>4, <4>5
      <3>2. CASE q # r
        BY <1>1, <2>1, <3>2 DEF RealtimeInv, StagedFit, Registered
      <3> QED BY <3>1, <3>2
    <2>8. StagedFit'
      BY <2>7 DEF StagedFit
    <2> QED BY <2>1, <2>4, <2>6, <2>7, <2>8, RequestsAlone
  <1> QED BY <1>2, <1>3

\* A loop over a user's sockets: who is called stale has gone.
LEMMA BroadcastKeeps ==
    ASSUME RealtimeInv, NEW r \in Requests,
           BroadcastBegin(r) \/ BroadcastNext(r) \/ BroadcastSent(r) \/ BroadcastBroken(r)
    PROVE  RealtimeInv'
  <1>1. bcast \in [Requests -> Loop] /\ pool \in [Users -> Member] /\ RequestTypes
    BY DEF RealtimeInv, RequestTypes, SocketTypes
  <1>2. UNCHANGED <<scene, phase, staged, notices, tasks, socketVars, log, missed>>
    BY DEF BroadcastBegin, BroadcastNext, BroadcastSent, BroadcastBroken
  <1>3. \E b \in Loop : /\ bcast' = [bcast EXCEPT ![r] = b]
                        /\ \A c \in b.stale : client[c] = "gone"
    <2>1. NoBroadcast \in Loop /\ NoBroadcast.stale = {}
      BY DEF NoBroadcast, Loop
    <2>2. CASE BroadcastBegin(r)
      <3>1. PICK u \in Users : bcast' = [bcast EXCEPT ![r] = [NoBroadcast EXCEPT
                                  !.user = u, !.set = pool[u].set, !.first = pool[u].of]]
        BY <2>2 DEF BroadcastBegin
      <3> DEFINE b == [NoBroadcast EXCEPT !.user = u, !.set = pool[u].set, !.first = pool[u].of]
      <3>2. pool[u].set \in Nat /\ pool[u].of \in SUBSET LegacySockets
        BY <1>1 DEF Member
      <3>3. b \in Loop /\ b.stale = {}
        BY <3>2 DEF NoBroadcast, Loop
      <3> HIDE DEF b
      <3> QED BY <3>1, <3>3 DEF b
    <2>3. CASE BroadcastNext(r)
      <3>1. PICK c \in LegacySockets :
                bcast' = [bcast EXCEPT ![r].sending = c, ![r].seen = @ \cup {c}]
        BY <2>3 DEF BroadcastNext
      <3> DEFINE b == [bcast[r] EXCEPT !.sending = c, !.seen = @ \cup {c}]
      <3>2. bcast' = [bcast EXCEPT ![r] = b]
        BY <1>1, <3>1
      <3>3. b \in Loop /\ b.stale = bcast[r].stale
        BY <1>1 DEF Loop
      <3> HIDE DEF b
      <3> QED BY <3>2, <3>3 DEF RealtimeInv, Registered
    <2>4. CASE BroadcastSent(r)
      <3>1. PICK raises \in BOOLEAN :
                /\ bcast[r].sending # Nobody
                /\ raises => client[bcast[r].sending] = "gone"
                /\ bcast' = [bcast EXCEPT ![r].sending = Nobody,
                       ![r].stale = IF raises THEN @ \cup {bcast[r].sending} ELSE @]
        BY <2>4 DEF BroadcastSent
      <3> DEFINE st == IF raises THEN bcast[r].stale \cup {bcast[r].sending} ELSE bcast[r].stale
                 b == [bcast[r] EXCEPT !.sending = Nobody, !.stale = st]
      <3>2. bcast' = [bcast EXCEPT ![r] = b]
        BY <1>1, <3>1
      <3>3. /\ bcast[r] \in Loop /\ bcast[r].sending \in LegacySockets
            /\ bcast[r].stale \in SUBSET LegacySockets
        BY <1>1, <3>1 DEF Loop
      <3>4. st \in SUBSET LegacySockets /\ \A c \in st : client[c] = "gone"
        BY <3>1, <3>3 DEF RealtimeInv, Registered
      <3> HIDE DEF st
      <3>5. b \in Loop /\ b.stale = st
        BY <3>3, <3>4 DEF Loop
      <3> HIDE DEF b
      <3> QED BY <3>2, <3>4, <3>5
    <2>5. CASE BroadcastBroken(r)
      BY <2>1, <2>5 DEF BroadcastBroken
    <2> QED BY <2>2, <2>3, <2>4, <2>5
  <1>4. PICK b \in Loop : bcast' = [bcast EXCEPT ![r] = b] /\ \A c \in b.stale : client[c] = "gone"
    BY <1>3
  <1>5. RequestTypes' /\ Addressed' /\ StagedFit'
    BY <1>1, <1>2, <1>4 DEF RealtimeInv, RequestTypes, Addressed, StagedFit
  <1>6. ASSUME NEW q \in Requests
        PROVE  /\ \A c \in bcast'[q].stale : client[c] = "gone"
               /\ phase[q] = "done" => phase'[q] = "done" /\ staged'[q] = <<>>
    <2>1. bcast'[q] = b \/ bcast'[q] = bcast[q]
      BY <1>1, <1>4
    <2>2. \A c \in bcast'[q].stale : client[c] = "gone"
      BY <1>4, <2>1 DEF RealtimeInv, Registered
    <2> QED BY <1>2, <2>2 DEF RealtimeInv, StagedFit
  <1> QED BY <1>2, <1>5, <1>6, RequestsAlone


LEMMA BroadcastEndKeeps ==
    ASSUME RealtimeInv, NEW r \in Requests, BroadcastEnd(r)
    PROVE  RealtimeInv'
  <1> DEFINE b == bcast[r]
  <1>1. /\ pool' = [pool EXCEPT ![b.user].of = @ \ b.stale]
        /\ bcast' = [bcast EXCEPT ![r] = NoBroadcast]
        /\ UNCHANGED <<scene, phase, staged, notices, tasks, subs, at, reader, client,
                       queue, hand, got, since, log, missed>>
    BY DEF BroadcastEnd
  <1>2. bcast \in [Requests -> Loop] /\ pool \in [Users -> Member] /\ RequestTypes
    BY DEF RealtimeInv, RequestTypes, SocketTypes
  <1>3. \A c \in b.stale : client[c] = "gone"
    BY DEF RealtimeInv, Registered
  <1>4. NoBroadcast \in Loop /\ NoBroadcast.stale = {}
    BY DEF NoBroadcast, Loop
  <1>5. bcast' \in [Requests -> Loop]
    BY <1>1, <1>2, <1>4
  <1>6. RequestTypes' /\ Addressed' /\ StagedFit'
    BY <1>1, <1>2, <1>5 DEF RealtimeInv, RequestTypes, Addressed, StagedFit
  <1> HIDE DEF b
  <1>7. ASSUME NEW u \in Users
        PROVE  pool'[u] \in Member /\ \A c \in pool[u].of \ b.stale : c \in pool'[u].of
    <2>1. pool[u] \in Member
      BY <1>2
    <2>2. CASE u = b.user
      <3>1. pool'[u] = [pool[u] EXCEPT !.of = @ \ b.stale]
        BY <1>1, <1>2, <2>2
      <3> QED BY <2>1, <3>1 DEF Member
    <2>3. CASE u # b.user
      <3>1. pool'[u] = pool[u]
        BY <1>1, <1>2, <2>3
      <3> QED BY <2>1, <3>1
    <2> QED BY <2>2, <2>3
  <1>8. pool' \in [Users -> Member]
    BY <1>1, <1>2, <1>7
  <1>9. ASSUME NEW c \in LegacySockets, client[c] = "here", c \in pool[User[c]].of
        PROVE  c \in pool'[User[c]].of
    <2>1. User[c] \in Users
      BY RealtimeAssumption DEF Sockets
    <2>2. c \notin b.stale
      BY <1>3, <1>9
    <2> QED BY <1>7, <1>9, <2>1, <2>2
  <1>10. ASSUME NEW q \in Requests
         PROVE  /\ \A c \in bcast'[q].stale : client[c] = "gone"
                /\ phase[q] = "done" => phase'[q] = "done" /\ staged'[q] = <<>>
    <2>1. bcast'[q] = NoBroadcast \/ bcast'[q] = bcast[q]
      BY <1>1, <1>2
    <2>2. \A c \in bcast'[q].stale : client[c] = "gone"
      BY <1>4, <2>1 DEF RealtimeInv, Registered
    <2> QED BY <1>1, <2>2 DEF RealtimeInv, StagedFit
  <1> QED BY <1>1, <1>6, <1>8, <1>9, <1>10, RequestsAndPool


-----------------------------------------------------------------------------
(* Lists of what was heard.                                                *)

\* The entries up to one of a set of them: as many as its place in the order.
LEMMA PlaceInOrder ==
    ASSUME NEW L \in Nat, NEW H \in SUBSET (1..L), NEW i \in H
    PROVE  /\ IsFiniteSet(H) /\ Cardinality(H) \in Nat
           /\ Cardinality({j \in H : j <= i}) \in 1..Cardinality(H)
  <1> DEFINE T == {j \in H : j <= i}
  <1>1. IsFiniteSet(1..L)
    BY FS_Interval
  <1>2. IsFiniteSet(H) /\ Cardinality(H) \in Nat
    BY <1>1, FS_Subset, FS_CardinalityType
  <1>3. T \in SUBSET H /\ i \in T
    OBVIOUS
  <1> HIDE DEF T
  <1>4. IsFiniteSet(T) /\ Cardinality(T) <= Cardinality(H)
    BY <1>2, <1>3, FS_Subset
  <1>5. Cardinality(T) \in Nat
    BY <1>4, FS_CardinalityType
  <1>6. Cardinality(T) # 0
    BY <1>3, <1>4, FS_EmptySet
  <1>7. Cardinality(T) \in 1..Cardinality(H)
    BY <1>2, <1>4, <1>5, <1>6
  <1> QED BY <1>2, <1>7 DEF T

\* The next ones after all that is heard.
LEMMA NextOnes ==
    ASSUME NEW L \in Nat, NEW H \in SUBSET (1..L), NEW m \in Nat
    PROVE  /\ IsFiniteSet(H) /\ Cardinality(H) \in Nat
           /\ Cardinality(H \cup (L + 1)..(L + m)) = Cardinality(H) + m
  <1> DEFINE M == (L + 1)..(L + m)
  <1>1. IsFiniteSet(1..L) /\ L + 1 \in Int /\ L + m \in Int
    BY FS_Interval
  <1>2. IsFiniteSet(H) /\ Cardinality(H) \in Nat
    BY <1>1, FS_Subset, FS_CardinalityType
  <1>3. IsFiniteSet(M) /\ Cardinality(M) = IF L + 1 > L + m THEN 0 ELSE (L + m) - (L + 1) + 1
    BY <1>1, FS_Interval
  <1>4. Cardinality(M) = m
    BY <1>3
  <1>5. H \cap M = {}
    OBVIOUS
  <1> HIDE DEF M
  <1>6. Cardinality(H \cup M) = Cardinality(H) + Cardinality(M) - Cardinality(H \cap M)
    BY <1>2, <1>3, FS_Union
  <1>7. Cardinality(H \cap M) = 0
    BY <1>5, FS_EmptySet
  <1>8. Cardinality(H \cup M) = Cardinality(H) + m
    BY <1>2, <1>4, <1>6, <1>7
  <1> QED BY <1>2, <1>8 DEF M

\* A list grows with what follows in the log.
LEMMA ListGrows ==
    ASSUME NEW S, NEW L \in Nat, NEW H \in SUBSET (1..L), NEW l, NEW m,
           NEW all \in Seq(S), NEW ys \in Seq(S), Lists(all, H, l),
           \A i \in 1..L : m[i] = l[i],
           \A i \in 1..Len(ys) : m[L + i].payload = ys[i]
    PROVE  Lists(all \o ys, H \cup (L + 1)..(L + Len(ys)), m)
  <1> DEFINE G == H \cup (L + 1)..(L + Len(ys))
             pl(i) == m[i].payload
  <1>1. /\ Len(ys) \in Nat /\ Len(all) = Cardinality(H) /\ Len(all) \in Nat
        /\ \A i \in H : all[Cardinality({j \in H : j <= i})] = l[i].payload
    BY DEF Lists
  <1>2. Cardinality(G) = Cardinality(H) + Len(ys)
    BY <1>1, NextOnes
  <1>3. /\ Len(all \o ys) = Len(all) + Len(ys)
        /\ \A k \in 1..Len(all) : (all \o ys)[k] = all[k]
        /\ \A k \in 1..Len(ys) : (all \o ys)[Len(all) + k] = ys[k]
    BY Joined
  <1>4. ASSUME NEW i \in G
        PROVE  (all \o ys)[Cardinality({j \in G : j <= i})] = pl(i)
    <2>1. CASE i \in H
      <3>1. {j \in G : j <= i} = {j \in H : j <= i}
        BY <1>1, <2>1
      <3>2. Cardinality({j \in H : j <= i}) \in 1..Cardinality(H)
        BY <2>1, PlaceInOrder
      <3>3. m[i] = l[i]
        BY <2>1
      <3>4. all[Cardinality({j \in H : j <= i})] = pl(i)
        BY <1>1, <2>1, <3>3
      <3> HIDE DEF G, pl
      <3> QED BY <1>1, <1>3, <3>1, <3>2, <3>4
    <2>2. CASE i \in (L + 1)..(L + Len(ys))
      <3>1. PICK k \in 1..Len(ys) : i = L + k
        <4>1. i - L \in 1..Len(ys) /\ i = L + (i - L)
          BY <1>1, <2>2
        <4> QED BY <4>1
      <3>2. {j \in G : j <= i} = H \cup (L + 1)..(L + k)
        <4>1. ASSUME NEW j
              PROVE  j \in G /\ j <= i <=> j \in H \cup (L + 1)..(L + k)
          <5>1. CASE j \in H
            BY <1>1, <3>1, <5>1
          <5>2. CASE j \notin H
            <6>1. j \in G /\ j <= i <=> j \in (L + 1)..(L + Len(ys)) /\ j <= L + k
              BY <3>1, <5>2
            <6>2. j \in (L + 1)..(L + Len(ys)) /\ j <= L + k <=> j \in (L + 1)..(L + k)
              BY <1>1
            <6> QED BY <5>2, <6>1, <6>2
          <5> QED BY <5>1, <5>2
        <4> QED BY <4>1
      <3>3. Cardinality(H \cup (L + 1)..(L + k)) = Cardinality(H) + k
        <4>1. k \in Nat
          BY <1>1
        <4> QED BY <4>1, NextOnes
      <3>4. pl(i) = ys[k]
        BY <3>1
      <3> HIDE DEF G, pl
      <3> QED BY <1>1, <1>3, <3>1, <3>2, <3>3, <3>4
    <2> QED BY <2>1, <2>2
  <1> QED BY <1>1, <1>2, <1>3, <1>4 DEF Lists


-----------------------------------------------------------------------------
(* Publishing.                                                             *)

\* A full queue misses the end of what is published; the streams stay lists of
\* what their sockets heard.
LEMMA PublishKeepsStreams ==
    ASSUME RealtimeInv, NEW key \in Keys, NEW xs \in Seq(Payloads), Publish(key, xs),
           UNCHANGED <<subs, at, client, hand, got, since>>
    PROVE  StreamsFit'
  <1> DEFINE L == Len(log)
  <1>1. /\ Len(log') = L + Len(xs) /\ L \in Nat /\ Len(xs) \in Nat
        /\ \A i \in 1..L : log'[i] = log[i]
        /\ \A i \in 1..Len(xs) : log'[L + i].key = key /\ log'[L + i].payload = xs[i]
    <2>1. StreamTypes /\ log \in Seq(Entry)
      BY DEF RealtimeInv, StreamTypes
    <2>2. L \in Nat /\ Len(xs) \in Nat
      BY <2>1
    <2>3. /\ Len(log') = Len(log) + Len(xs)
          /\ \A i \in 1..Len(log) : log'[i] = log[i]
          /\ \A i \in 1..Len(xs) : log'[Len(log) + i] = [key |-> key, payload |-> xs[i]]
      BY <2>1, PublishDoes
    <2>4. ASSUME NEW i \in 1..Len(xs)
          PROVE  log'[L + i].key = key /\ log'[L + i].payload = xs[i]
      <3>1. log'[L + i] = [key |-> key, payload |-> xs[i]]
        BY <2>3
      <3> QED BY <3>1
    <2> QED BY <2>2, <2>3, <2>4
  <1> SUFFICES ASSUME NEW c \in BusSockets \cup HubSockets, Running(c)', client'[c] = "here"
               PROVE  Lists(Stream(c)', Heard(c)', log')
    BY DEF StreamsFit
  <1>2. /\ c \in Sockets /\ c \notin LegacySockets /\ Running(c) /\ KeysOf(c) \subseteq Keys
        /\ Lists(Stream(c), Heard(c), log)
    <2>1. c \in Sockets /\ c \notin LegacySockets
      BY RealtimeAssumption DEF Sockets
    <2>2. Running(c)
      BY DEF Running
    <2> QED BY <2>1, <2>2, KeysAreKeys DEF RealtimeInv, StreamsFit
  <1>3. /\ hand[c] \in Seq(Payloads) /\ got[c] \in Seq(Payloads) /\ queue[c] \in Seq(Payloads)
        /\ since[c] \in Nat /\ since[c] <= L /\ missed[c] \in SUBSET (1..L)
    BY <1>2 DEF RealtimeInv, SocketTypes, StreamTypes, HandsFit
  <1>4. Stream(c) \in Seq(Payloads)
    BY <1>3, Joined DEF Stream
  <1>5. Heard(c) \in SUBSET (1..L)
    BY <1>1, <1>3 DEF Heard
  <1>6. c \in subs[key] <=> key \in KeysOf(c)
    BY <1>2 DEF RealtimeInv, Registered
  <1>7. CASE c \in subs[key]
    <2>1. PICK n \in 0..Len(xs) :
            /\ queue'[c] = queue[c] \o SubSeq(xs, 1, n)
            /\ missed'[c] = missed[c] \cup {L + i : i \in (n + 1)..Len(xs)}
      BY <1>2, <1>7, PublishDoes DEF RealtimeInv
    <2>2. PICK ys \in Seq(Payloads) :
            /\ ys = SubSeq(xs, 1, n)
            /\ Len(ys) = n /\ \A i \in 1..n : ys[i] = xs[i]
      <3>1. /\ SubSeq(xs, 1, n) \in Seq(Payloads) /\ Len(SubSeq(xs, 1, n)) = n
            /\ \A i \in 1..n : SubSeq(xs, 1, n)[i] = xs[i]
        BY <1>1
      <3> QED BY <3>1
    <2>3. Stream(c)' = Stream(c) \o ys
      <3>1. Join(Join(Join(got[c], hand[c]), queue[c]), ys)
               = Join(Join(got[c], hand[c]), Join(queue[c], ys))
        BY <1>3, Chained
      <3>2. (got[c] \o hand[c] \o queue[c]) \o ys = (got[c] \o hand[c]) \o (queue[c] \o ys)
        BY <3>1 DEF Join
      <3> QED BY <2>1, <2>2, <3>2 DEF Stream
    <2>4. Heard(c)' = Heard(c) \cup (L + 1)..(L + n)
      <3>1. Heard(c)' = {i \in (since[c] + 1)..(L + Len(xs)) :
                            log'[i].key \in KeysOf(c) /\ i \notin missed'[c]}
        BY <1>1 DEF Heard, KeysOf
      <3>2. ASSUME NEW i \in 1..L
            PROVE  i \in missed'[c] <=> i \in missed[c]
        BY <1>1, <2>1
      <3>3. ASSUME NEW i \in (L + 1)..(L + Len(xs))
            PROVE  /\ i \in missed'[c] <=> i > L + n
                   /\ log'[i].key = key
        <4>1. i - L \in 1..Len(xs) /\ i = L + (i - L)
          BY <1>1
        <4>2. log'[i].key = key
          BY <1>1, <4>1
        <4>3. i \notin missed[c]
          BY <1>1, <1>3
        <4>4. i \in {L + k : k \in (n + 1)..Len(xs)} <=> i > L + n
          <5>1. ASSUME i > L + n
                PROVE  i - L \in (n + 1)..Len(xs)
            BY <1>1, <4>1, <5>1
          <5>2. ASSUME NEW k \in (n + 1)..Len(xs), i = L + k
                PROVE  i > L + n
            BY <1>1, <5>2
          <5> QED BY <4>1, <5>1, <5>2
        <4> QED BY <2>1, <4>2, <4>3, <4>4
      <3>4. ASSUME NEW i
            PROVE  i \in Heard(c)' <=> i \in Heard(c) \cup (L + 1)..(L + n)
        <4>1. CASE i \in 1..L
          <5>1. i \notin (L + 1)..(L + n)
            BY <1>1, <4>1
          <5>2. i \in (since[c] + 1)..(L + Len(xs)) <=> i \in (since[c] + 1)..L
            BY <1>1, <1>3, <4>1
          <5>3. log'[i] = log[i]
            BY <1>1, <4>1
          <5> QED BY <3>1, <3>2, <4>1, <5>1, <5>2, <5>3 DEF Heard
        <4>2. CASE i \in (L + 1)..(L + Len(xs))
          <5>1. i \notin Heard(c) /\ i \in (since[c] + 1)..(L + Len(xs))
            BY <1>1, <1>3, <1>5, <4>2
          <5>2. i \in (L + 1)..(L + n) <=> ~(i > L + n)
            BY <1>1, <4>2
          <5> QED BY <1>6, <1>7, <3>1, <3>3, <4>2, <5>1, <5>2
        <4>3. CASE i \notin 1..L /\ i \notin (L + 1)..(L + Len(xs))
          <5>1. i \notin (L + 1)..(L + n) /\ i \notin Heard(c)
            BY <1>1, <1>5, <4>3
          <5>2. i \notin (since[c] + 1)..(L + Len(xs))
            BY <1>1, <1>3, <4>3
          <5> QED BY <3>1, <5>1, <5>2
        <4> QED BY <4>1, <4>2, <4>3
      <3> QED BY <3>4
    <2>5. \A i \in 1..Len(ys) : log'[L + i].payload = ys[i]
      BY <1>1, <2>2
    <2>6. Lists(Stream(c) \o ys, Heard(c) \cup (L + 1)..(L + Len(ys)), log')
      BY <1>1, <1>2, <1>4, <1>5, <2>2, <2>5, ListGrows
    <2> QED BY <2>2, <2>3, <2>4, <2>6
  <1>8. CASE c \notin subs[key]
    <2>1. queue'[c] = queue[c] /\ missed'[c] = missed[c]
      BY <1>2, <1>8, PublishDoes DEF RealtimeInv
    <2>2. Stream(c)' = Stream(c)
      BY <2>1 DEF Stream
    <2>3. Heard(c)' = Heard(c)
      <3>1. Heard(c)' = {i \in (since[c] + 1)..(L + Len(xs)) :
                            log'[i].key \in KeysOf(c) /\ i \notin missed[c]}
        BY <1>1, <2>1 DEF Heard, KeysOf
      <3>2. ASSUME NEW i \in (L + 1)..(L + Len(xs))
            PROVE  log'[i].key \notin KeysOf(c)
        <4>1. i - L \in 1..Len(xs) /\ i = L + (i - L)
          BY <1>1
        <4>2. log'[i].key = key
          BY <1>1, <4>1
        <4> QED BY <1>6, <1>8, <4>2
      <3>3. ASSUME NEW i
            PROVE  i \in (since[c] + 1)..(L + Len(xs))
                     <=> i \in (since[c] + 1)..L \/ i \in (L + 1)..(L + Len(xs))
        BY <1>1, <1>3
      <3>4. \A i \in (since[c] + 1)..L : log'[i] = log[i]
        BY <1>1, <1>3
      <3> QED BY <3>1, <3>2, <3>3, <3>4 DEF Heard
    <2>4. Stream(c) \o <<>> = Stream(c)
      BY <1>4, ConcatEmptySeq
    <2>5. \A i \in Heard(c) : log'[i] = log[i]
      BY <1>1, <1>5
    <2> QED BY <1>2, <2>2, <2>3, <2>5 DEF Lists
  <1> QED BY <1>7, <1>8


LEMMA PublishKeeps ==
    ASSUME RealtimeInv, NEW key \in Keys, NEW xs \in Seq(Payloads), Publish(key, xs),
           UNCHANGED <<scene, notices, subs, pool, bcast, at, reader, client, hand, got, since>>,
           RequestTypes', StagedFit', BusEvents', CommittedInOneGo'
    PROVE  RealtimeInv'
  <1>1. StreamTypes' /\ Len(log') = Len(log) + Len(xs)
    BY PublishDoes DEF RealtimeInv
  <1>2. Len(log) \in Nat /\ Len(xs) \in Nat
    BY DEF RealtimeInv, StreamTypes
  <1>3. SocketTypes' /\ Addressed'
    BY DEF RealtimeInv, SocketTypes, Addressed
  <1>4. Registered'
    BY DEF RealtimeInv, Registered, Running
  <1>5. ASSUME NEW c \in Sockets
        PROVE  /\ since'[c] <= Len(log')
               /\ client'[c] = "none" => queue'[c] = <<>>
    <2>1. since[c] \in Nat /\ since[c] <= Len(log)
      BY DEF RealtimeInv, HandsFit, SocketTypes
    <2>2. ASSUME client[c] = "none"
          PROVE  queue'[c] = <<>>
      <3>1. ~Running(c) /\ queue[c] = <<>>
        BY <2>2 DEF RealtimeInv, HandsFit, Running
      <3>2. c \notin subs[key]
        BY <3>1 DEF RealtimeInv, Registered
      <3>3. queue'[c] = queue[c]
        BY <3>2, PublishDoes DEF RealtimeInv
      <3> QED BY <3>1, <3>3
    <2> QED BY <1>1, <1>2, <2>1, <2>2
  <1>6. HandsFit'
    BY <1>5 DEF RealtimeInv, HandsFit, Running
  <1>7. StreamsFit'
    BY PublishKeepsStreams
  <1> QED BY <1>1, <1>3, <1>4, <1>6, <1>7 DEF RealtimeInv

\* The staged events of a committed request, in one go.
LEMMA FlushEventsKeeps ==
    ASSUME RealtimeInv, NEW r \in Requests, FlushEvents(r)
    PROVE  RealtimeInv'
  <1> DEFINE L == Len(log)
  <1>1. PICK xs : xs = staged[r]
    OBVIOUS
  <1>2. /\ phase[r] = "committed"
        /\ phase' = [phase EXCEPT ![r] = "done"]
        /\ staged' = [staged EXCEPT ![r] = <<>>]
        /\ Publish(Bus, xs)
        /\ UNCHANGED <<scene, notices, tasks, subs, pool, bcast, at, reader, client,
                       hand, got, since>>
    BY <1>1 DEF FlushEvents
  <1>3. /\ staged \in [Requests -> Seq(Requests \X (1..MaxStaged))]
        /\ phase \in [Requests -> {"open", "committed", "done", "failed"}]
        /\ xs \in Seq(Requests \X (1..MaxStaged))
        /\ log \in Seq(Entry) /\ L \in Nat /\ Bus \in Keys
    BY <1>1 DEF RealtimeInv, RequestTypes, StreamTypes, Keys
  <1>4. /\ xs \in Seq(Payloads) /\ Len(xs) \in Nat
        /\ \A i \in 1..Len(xs) : xs[i] = <<r, i>> /\ xs[i] \in Requests \X (1..MaxStaged)
    <2>1. \A i \in 1..Len(xs) : xs[i] \in Requests \X (1..MaxStaged)
      BY <1>3
    <2>2. DOMAIN xs = 1..Len(xs) /\ Len(xs) \in Nat
      BY <1>3
    <2>3. \A i \in DOMAIN xs : xs[i] = <<r, i>>
      BY <1>1 DEF RealtimeInv, StagedFit
    <2>4. xs \in Seq(Payloads)
      <3>1. Requests \X (1..MaxStaged) \subseteq Payloads
        BY DEF Payloads
      <3> QED BY <1>3, <3>1, SeqMonotonic
    <2> QED BY <2>1, <2>2, <2>3, <2>4
  <1>5. /\ phase'[r] = "done" /\ staged'[r] = <<>>
        /\ \A q \in Requests \ {r} : phase'[q] = phase[q] /\ staged'[q] = staged[q]
    BY <1>2, <1>3
  <1>6. RequestTypes'
    <2>1. << >> \in Seq(Requests \X (1..MaxStaged))
      OBVIOUS
    <2>2. staged' \in [Requests -> Seq(Requests \X (1..MaxStaged))]
      BY <1>2, <1>3, <2>1
    <2>3. phase' \in [Requests -> {"open", "committed", "done", "failed"}]
      BY <1>2, <1>3
    <2> QED BY <1>2, <2>2, <2>3 DEF RealtimeInv, RequestTypes
  <1>7. StagedFit'
    <2> SUFFICES ASSUME NEW q \in Requests
                 PROVE  /\ \A i \in DOMAIN staged'[q] : staged'[q][i] = <<q, i>>
                        /\ phase'[q] \in {"done", "failed"} => staged'[q] = <<>>
      BY DEF StagedFit
    <2>1. CASE q = r
      <3>1. << >> \in Seq(Requests \X (1..MaxStaged)) /\ Len(<< >>) = 0
        OBVIOUS
      <3>2. DOMAIN << >> = 1..0
        BY <3>1, LenProperties
      <3>3. \A i \in DOMAIN << >> : FALSE
        BY <3>2
      <3> QED BY <1>5, <2>1, <3>3
    <2>2. CASE q # r
      BY <1>5, <2>2 DEF RealtimeInv, StagedFit
    <2> QED BY <2>1, <2>2
  <1>8. /\ Len(log') = L + Len(xs)
        /\ \A i \in 1..L : log'[i] = log[i]
        /\ \A i \in 1..Len(xs) : log'[L + i] = [key |-> Bus, payload |-> xs[i]]
        /\ StreamTypes'
    BY <1>2, <1>3, <1>4, PublishDoes DEF RealtimeInv
  <1>9. DOMAIN log = 1..L /\ DOMAIN log' = 1..(L + Len(xs))
    <2>1. log' \in Seq(Entry)
      BY <1>8 DEF StreamTypes
    <2> QED BY <1>3, <1>8, <2>1
  <1>10. ASSUME NEW i \in OnBus'
         PROVE  \/ i \in OnBus /\ i <= L /\ log'[i] = log[i]
                \/ \E m \in 1..Len(xs) : i = L + m /\ log'[i].payload = <<r, m>>
    <2>1. i \in 1..(L + Len(xs)) /\ log'[i].key = Bus
      BY <1>9 DEF OnBus
    <2>2. CASE i <= L
      <3>1. i \in 1..L
        BY <1>3, <2>1, <2>2
      <3> QED BY <1>8, <1>9, <2>1, <3>1 DEF OnBus
    <2>3. CASE i > L
      <3>1. i - L \in 1..Len(xs) /\ i = L + (i - L)
        BY <1>3, <1>4, <2>1, <2>3
      <3>2. log'[i] = [key |-> Bus, payload |-> xs[i - L]]
        BY <1>8, <3>1
      <3>3. log'[i].payload = xs[i - L]
        BY <3>2
      <3> QED BY <1>4, <3>1, <3>3
    <2> QED BY <1>3, <2>1, <2>2, <2>3
  <1>11. ASSUME NEW m \in 1..Len(xs)
         PROVE  L + m \in OnBus' /\ log'[L + m].payload = <<r, m>>
    <2>1. log'[L + m] = [key |-> Bus, payload |-> xs[m]]
      BY <1>8
    <2>2. log'[L + m].key = Bus /\ log'[L + m].payload = xs[m]
      BY <2>1
    <2>3. L + m \in DOMAIN log'
      BY <1>3, <1>4, <1>9
    <2> QED BY <1>4, <2>2, <2>3 DEF OnBus
  <1>12. ASSUME NEW i \in OnBus
         PROVE  i \in 1..L /\ i \in OnBus' /\ log'[i] = log[i]
    <2>1. i \in 1..L /\ log[i].key = Bus
      BY <1>9 DEF OnBus
    <2>2. i \in 1..(L + Len(xs)) /\ log'[i] = log[i]
      BY <1>3, <1>4, <1>8, <2>1
    <2> QED BY <1>9, <2>1, <2>2 DEF OnBus
  <1>13. BusEvents'
    <2> SUFFICES ASSUME NEW i \in OnBus'
                 PROVE  log'[i].payload \in Requests \X (1..MaxStaged)
      BY DEF BusEvents
    <2>1. CASE i \in OnBus /\ i <= L /\ log'[i] = log[i]
      BY <2>1 DEF RealtimeInv, BusEvents
    <2>2. ASSUME NEW m \in 1..Len(xs), log'[i].payload = <<r, m>>
          PROVE  log'[i].payload \in Requests \X (1..MaxStaged)
      BY <1>4, <2>2
    <2> QED BY <1>10, <2>1, <2>2
  <1>14. CommittedInOneGo'
    <2> DEFINE Before(i, e) == \E j \in OnBus' :
                 /\ j < i /\ log'[j].payload = <<e[1], e[2] - 1>>
                 /\ \A k \in OnBus' : k <= j \/ i <= k
    <2> SUFFICES ASSUME NEW i \in OnBus'
                 PROVE  LET e == log'[i].payload IN
                        /\ phase'[e[1]] = "done" /\ staged'[e[1]] = <<>>
                        /\ e[2] > 1 => Before(i, e)
      BY DEF CommittedInOneGo
    <2>1. ASSUME i \in OnBus, i <= L, log'[i] = log[i]
          PROVE  LET e == log'[i].payload IN
                 /\ phase'[e[1]] = "done" /\ staged'[e[1]] = <<>>
                 /\ e[2] > 1 => Before(i, e)
      <3>1. PICK e : e = log[i].payload
        OBVIOUS
      <3>2. /\ e[1] \in Requests /\ phase[e[1]] = "done" /\ staged[e[1]] = <<>>
            /\ e[2] > 1 => \E j \in OnBus :
                 /\ j < i /\ log[j].payload = <<e[1], e[2] - 1>>
                 /\ \A k \in OnBus : k <= j \/ i <= k
        BY <2>1, <3>1 DEF RealtimeInv, BusEvents, CommittedInOneGo
      <3>3. phase'[e[1]] = "done" /\ staged'[e[1]] = <<>>
        BY <1>2, <1>5, <3>2
      <3>4. ASSUME e[2] > 1
            PROVE  Before(i, e)
        <4>1. PICK j \in OnBus : /\ j < i /\ log[j].payload = <<e[1], e[2] - 1>>
                                 /\ \A k \in OnBus : k <= j \/ i <= k
          BY <3>2, <3>4
        <4>2. j \in OnBus' /\ log'[j].payload = <<e[1], e[2] - 1>>
          BY <1>12, <4>1
        <4>3. ASSUME NEW k \in OnBus'
              PROVE  k <= j \/ i <= k
          <5>1. CASE k \in OnBus
            BY <4>1, <5>1
          <5>2. ASSUME NEW m \in 1..Len(xs), k = L + m
                PROVE  i <= k
            <6>1. i \in 1..L
              BY <1>12, <2>1
            <6> QED BY <1>3, <1>4, <5>2, <6>1
          <5> QED BY <1>10, <5>1, <5>2
        <4> QED BY <4>1, <4>2, <4>3
      <3> QED BY <2>1, <3>1, <3>3, <3>4
    <2>2. ASSUME NEW m \in 1..Len(xs), i = L + m, log'[i].payload = <<r, m>>
          PROVE  LET e == log'[i].payload IN
                 /\ phase'[e[1]] = "done" /\ staged'[e[1]] = <<>>
                 /\ e[2] > 1 => Before(i, e)
      <3>1. ASSUME m > 1
            PROVE  Before(i, <<r, m>>)
        <4>1. m - 1 \in 1..Len(xs)
          BY <1>4, <3>1
        <4>2. L + (m - 1) \in OnBus' /\ log'[L + (m - 1)].payload = <<r, m - 1>>
          BY <1>11, <4>1
        <4>3. L + (m - 1) < i
          BY <1>3, <1>4, <2>2
        <4>4. ASSUME NEW k \in OnBus'
              PROVE  k <= L + (m - 1) \/ i <= k
          <5>1. k \in Nat
            BY <1>3, <1>4, <1>9 DEF OnBus
          <5> QED BY <1>3, <1>4, <2>2, <5>1
        <4> QED BY <4>2, <4>3, <4>4
      <3> HIDE DEF Before
      <3> QED BY <1>5, <2>2, <3>1
    <2> HIDE DEF Before
    <2> QED BY <1>10, <2>1, <2>2
  <1> QED BY <1>2, <1>3, <1>4, <1>6, <1>7, <1>13, <1>14, PublishKeeps


\* A task publishes to somebody's key, not to the bus.
LEMMA RunTaskKeeps ==
    ASSUME RealtimeInv, RunTask
    PROVE  RealtimeInv'
  <1>1. tasks \in Seq(Actors \X Payloads) /\ tasks # <<>> /\ log \in Seq(Entry)
    BY DEF RunTask, RealtimeInv, RequestTypes, StreamTypes
  <1>2. Head(tasks) \in Actors \X Payloads /\ Tail(tasks) \in Seq(Actors \X Payloads)
    BY <1>1
  <1>3. PICK key \in Actors, x \in Payloads : key = Head(tasks)[1] /\ x = Head(tasks)[2]
    BY <1>2
  <1>4. /\ Publish(key, <<x>>) /\ tasks' = Tail(tasks)
        /\ UNCHANGED <<scene, phase, staged, notices, subs, pool, bcast, at, reader, client,
                       hand, got, since>>
    BY <1>3 DEF RunTask
  <1>5. key \in Keys /\ key # Bus /\ <<x>> \in Seq(Payloads) /\ Len(<<x>>) = 1
    BY RealtimeAssumption DEF Keys
  <1>6. RequestTypes' /\ StagedFit'
    BY <1>2, <1>4 DEF RealtimeInv, RequestTypes, StagedFit
  <1>7. /\ Len(log') = Len(log) + 1 /\ Len(log) \in Nat
        /\ \A i \in 1..Len(log) : log'[i] = log[i]
        /\ log'[Len(log) + 1].key = key
        /\ DOMAIN log = 1..Len(log) /\ DOMAIN log' = 1..(Len(log) + 1)
    <2>1. /\ StreamTypes' /\ Len(log') = Len(log) + Len(<<x>>)
          /\ \A i \in 1..Len(log) : log'[i] = log[i]
          /\ \A i \in 1..Len(<<x>>) : log'[Len(log) + i] = [key |-> key, payload |-> <<x>>[i]]
      BY <1>4, <1>5, PublishDoes DEF RealtimeInv
    <2>2. log'[Len(log) + 1] = [key |-> key, payload |-> <<x>>[1]]
      BY <1>5, <2>1
    <2>3. log'[Len(log) + 1].key = key
      BY <2>2
    <2>4. log' \in Seq(Entry)
      BY <2>1 DEF StreamTypes
    <2>5. DOMAIN log = 1..Len(log) /\ DOMAIN log' = 1..Len(log') /\ Len(log) \in Nat
      BY <1>1, <2>4
    <2> QED BY <1>5, <2>1, <2>3, <2>5
  <1>8. OnBus' = OnBus /\ OnBus \subseteq 1..Len(log)
    <2>1. ASSUME NEW i \in 1..Len(log)
          PROVE  i \in 1..(Len(log) + 1) /\ log'[i] = log[i]
      BY <1>7
    <2>2. ASSUME NEW i \in 1..(Len(log) + 1), i \notin 1..Len(log)
          PROVE  log'[i].key # Bus
      <3>1. i = Len(log) + 1
        BY <1>7, <2>2
      <3> QED BY <1>5, <1>7, <3>1
    <2> QED BY <1>7, <2>1, <2>2 DEF OnBus
  <1>9. \A i \in OnBus : log'[i] = log[i]
    BY <1>7, <1>8
  <1>10. BusEvents' /\ CommittedInOneGo'
    BY <1>4, <1>8, <1>9 DEF RealtimeInv, BusEvents, CommittedInOneGo
  <1> QED BY <1>4, <1>5, <1>6, <1>10, PublishKeeps


-----------------------------------------------------------------------------
(* Steps of sockets.                                                       *)

\* What the invariant says of one socket.
SocketFits(c) ==
    /\ \A k \in Keys : c \in subs[k] <=> Running(c) /\ k \in KeysOf(c)
    /\ c \in LegacySockets /\ Running(c) /\ client[c] = "here" => c \in pool[User[c]].of
    /\ Len(hand[c]) <= 1
    /\ Running(c) /\ at[c] # "send" => hand[c] = <<>>
    /\ client[c] = "none" => /\ at[c] = "none"
                             /\ queue[c] = <<>> /\ hand[c] = <<>> /\ got[c] = <<>>
    /\ since[c] <= Len(log)
    /\ Len(queue[c]) <= QueueMax(c)
    /\ c \notin LegacySockets /\ Running(c) /\ client[c] = "here"
         => Lists(Stream(c), Heard(c), log)

\* The other sockets stand where they stood.
OthersStay(c) ==
    \A d \in Sockets \ {c} :
        /\ at'[d] = at[d] /\ client'[d] = client[d] /\ since'[d] = since[d]
        /\ queue'[d] = queue[d] /\ hand'[d] = hand[d] /\ got'[d] = got[d]
        /\ \A k \in Keys : d \in subs'[k] <=> d \in subs[k]
        /\ d \in LegacySockets /\ d \in pool[User[d]].of => d \in pool'[User[d]].of

LEMMA EachFits ==
    ASSUME RealtimeInv, NEW c \in Sockets
    PROVE  SocketFits(c)
  BY KeysAreKeys DEF RealtimeInv, StreamTypes, Registered, HandsFit, StreamsFit, SocketFits

\* A step of one socket.
LEMMA SocketAlone ==
    ASSUME RealtimeInv, NEW c \in Sockets, UNCHANGED <<scene, requestVars, log, missed>>,
           SocketTypes', queue' \in [Sockets -> Seq(Payloads)],
           client[c] = "gone" => client'[c] = "gone",
           SocketFits(c)', OthersStay(c)
    PROVE  RealtimeInv'
  <1>1. UNCHANGED <<phase, staged, notices, tasks, bcast, log, missed, scene>>
    BY DEF requestVars
  <1>2. RequestTypes' /\ Addressed' /\ StagedFit' /\ BusEvents' /\ CommittedInOneGo'
    BY <1>1 DEF RealtimeInv, RequestTypes, Addressed, StagedFit, BusEvents, CommittedInOneGo, OnBus
  <1>3. ASSUME NEW d \in Sockets
        PROVE  SocketFits(d)'
    <2>1. CASE d = c
      BY <2>1
    <2>2. CASE d # c
      <3>1. SocketFits(d)
        BY EachFits
      <3>2. /\ at'[d] = at[d] /\ client'[d] = client[d] /\ since'[d] = since[d]
            /\ queue'[d] = queue[d] /\ hand'[d] = hand[d] /\ got'[d] = got[d]
            /\ \A k \in Keys : d \in subs'[k] <=> d \in subs[k]
            /\ d \in LegacySockets /\ d \in pool[User[d]].of => d \in pool'[User[d]].of
        BY <2>2 DEF OthersStay
      <3>3. Stream(d)' = Stream(d) /\ Heard(d)' = Heard(d) /\ (Running(d)' <=> Running(d))
        BY <1>1, <3>2 DEF Stream, Heard, Running
      <3> QED BY <1>1, <3>1, <3>2, <3>3 DEF SocketFits
    <2> QED BY <2>1, <2>2
  <1>4. StreamTypes'
    BY <1>1, <1>3 DEF RealtimeInv, StreamTypes, SocketFits, QueueMax
  <1>5. Registered'
    <2>1. ASSUME NEW r \in Requests, NEW d \in bcast'[r].stale
          PROVE  client'[d] = "gone"
      <3>1. d \in LegacySockets /\ client[d] = "gone" /\ d \in Sockets
        BY <1>1, <2>1 DEF RealtimeInv, Registered, RequestTypes, Loop, Sockets
      <3> QED BY <3>1 DEF OthersStay
    <2> QED BY <1>3, <2>1 DEF Registered, SocketFits, Sockets
  <1>6. HandsFit'
    BY <1>3 DEF HandsFit, SocketFits
  <1>7. StreamsFit'
    <2> SUFFICES ASSUME NEW d \in BusSockets \cup HubSockets, Running(d)', client'[d] = "here"
                 PROVE  Lists(Stream(d)', Heard(d)', log')
      BY DEF StreamsFit
    <2>1. d \in Sockets /\ d \notin LegacySockets
      BY RealtimeAssumption DEF Sockets
    <2>2. SocketFits(d)'
      BY <1>3, <2>1
    <2> QED BY <2>1, <2>2 DEF SocketFits
  <1> QED BY <1>2, <1>4, <1>5, <1>6, <1>7 DEF RealtimeInv


\* The handler turns, its reader ends or the browser leaves: nothing is moved.
LEMMA TurnKeeps ==
    ASSUME RealtimeInv, NEW c \in Sockets,
           UNCHANGED <<scene, requestVars, subs, pool, queue, hand, got, since, log, missed>>,
           at' \in [Sockets -> {"none", "top", "get", "send", "ended"}],
           reader' \in [Sockets -> BOOLEAN], client' \in [Sockets -> {"none", "here", "gone"}],
           \A d \in Sockets \ {c} : at'[d] = at[d] /\ client'[d] = client[d],
           \/ at'[c] = at[c]
           \/ at[c] \in {"top", "get"} /\ at'[c] \in {"top", "get"},
           client'[c] = client[c] \/ client'[c] = "gone"
    PROVE  RealtimeInv'
  <1>1. SocketTypes' /\ queue' \in [Sockets -> Seq(Payloads)]
    BY DEF RealtimeInv, SocketTypes, StreamTypes
  <1>2. OthersStay(c)
    BY DEF OthersStay
  <1>3. SocketFits(c)'
    <2>1. SocketFits(c)
      BY EachFits
    <2>2. Stream(c)' = Stream(c) /\ Heard(c)' = Heard(c) /\ (Running(c)' <=> Running(c))
      BY DEF Stream, Heard, Running
    <2>3. \A k \in Keys : c \in subs'[k] <=> Running(c)' /\ k \in KeysOf(c)
      BY <2>1, <2>2 DEF SocketFits
    <2>4. client'[c] = "here" => client[c] = "here"
      OBVIOUS
    <2>5. c \in LegacySockets /\ Running(c)' /\ client'[c] = "here" => c \in pool'[User[c]].of
      BY <2>1, <2>2, <2>4 DEF SocketFits
    <2>6. Running(c)' /\ at'[c] # "send" => hand'[c] = <<>>
      BY <2>1, <2>2 DEF SocketFits
    <2>7. client'[c] = "none" => /\ at'[c] = "none"
                                 /\ queue'[c] = <<>> /\ hand'[c] = <<>> /\ got'[c] = <<>>
      <3>1. client'[c] = "none" => client[c] = "none"
        OBVIOUS
      <3> QED BY <2>1, <3>1 DEF SocketFits
    <2>8. c \notin LegacySockets /\ Running(c)' /\ client'[c] = "here"
            => Lists(Stream(c)', Heard(c)', log')
      BY <2>1, <2>2, <2>4 DEF SocketFits
    <2>9. Len(hand'[c]) <= 1 /\ since'[c] <= Len(log') /\ Len(queue'[c]) <= QueueMax(c)
      BY <2>1 DEF SocketFits
    <2> QED BY <2>3, <2>5, <2>6, <2>7, <2>8, <2>9 DEF SocketFits, QueueMax
  <1> QED BY <1>1, <1>2, <1>3, SocketAlone

LEMMA LeavesAndTurnsKeep ==
    ASSUME RealtimeInv, NEW c \in Sockets,
           \/ ClientLeaves(c) \/ ReaderEnds(c)
           \/ /\ at[c] \in {"top", "get"} /\ at' = [at EXCEPT ![c] = "get"]
              /\ UNCHANGED <<scene, requestVars, subs, pool, reader, client, queue, hand, got,
                             since, log, missed>>
           \/ /\ at[c] \in {"top", "get"} /\ Turn(c)
              /\ UNCHANGED <<scene, requestVars, subs, pool, reader, client, queue, hand, got,
                             since, log, missed>>
    PROVE  RealtimeInv'
  <1>1. /\ at \in [Sockets -> {"none", "top", "get", "send", "ended"}]
        /\ reader \in [Sockets -> BOOLEAN] /\ client \in [Sockets -> {"none", "here", "gone"}]
    BY DEF RealtimeInv, SocketTypes
  <1>2. CASE ClientLeaves(c)
    <2>1. /\ client' = [client EXCEPT ![c] = "gone"]
          /\ UNCHANGED <<scene, requestVars, subs, pool, at, reader, queue, hand, got, since,
                         log, missed>>
      BY <1>2 DEF ClientLeaves
    <2>2. /\ client' \in [Sockets -> {"none", "here", "gone"}] /\ client'[c] = "gone"
          /\ \A d \in Sockets \ {c} : client'[d] = client[d]
      BY <1>1, <2>1
    <2> QED BY <1>1, <2>1, <2>2, TurnKeeps
  <1>3. CASE ReaderEnds(c)
    <2>1. /\ reader' = [reader EXCEPT ![c] = TRUE]
          /\ UNCHANGED <<scene, requestVars, subs, pool, at, client, queue, hand, got, since,
                         log, missed>>
      BY <1>3 DEF ReaderEnds
    <2>2. reader' \in [Sockets -> BOOLEAN]
      BY <1>1, <2>1
    <2> QED BY <1>1, <2>1, <2>2, TurnKeeps
  <1>4. ASSUME NEW place \in {"top", "get"}, at[c] \in {"top", "get"},
               at' = [at EXCEPT ![c] = place],
               UNCHANGED <<scene, requestVars, subs, pool, reader, client, queue, hand, got,
                           since, log, missed>>
        PROVE  RealtimeInv'
    <2>1. /\ at' \in [Sockets -> {"none", "top", "get", "send", "ended"}] /\ at'[c] = place
          /\ \A d \in Sockets \ {c} : at'[d] = at[d]
      BY <1>1, <1>4
    <2> QED BY <1>1, <1>4, <2>1, TurnKeeps
  <1> QED BY <1>2, <1>3, <1>4 DEF Turn

\* The finally blocks: the socket is registered nowhere and nobody else is touched.
LEMMA CloseKeeps ==
    ASSUME RealtimeInv, NEW c \in Sockets, client[c] # "none", Close(c)
    PROVE  RealtimeInv'
  <1>1. /\ at' = [at EXCEPT ![c] = "ended"] /\ LeaveSubs(c) /\ LeavePool(c)
        /\ UNCHANGED <<scene, requestVars, reader, client, queue, hand, got, since, log, missed>>
    BY DEF Close
  <1>2. SocketTypes /\ queue \in [Sockets -> Seq(Payloads)]
    BY DEF RealtimeInv, StreamTypes
  <1>3. /\ at' \in [Sockets -> {"none", "top", "get", "send", "ended"}] /\ at'[c] = "ended"
        /\ \A d \in Sockets \ {c} : at'[d] = at[d]
    BY <1>1, <1>2 DEF SocketTypes
  <1>4. /\ subs' \in [Keys -> SUBSET (BusSockets \cup HubSockets)]
        /\ \A k \in Keys : subs'[k] = subs[k] \ {c}
    BY <1>1, <1>2 DEF LeaveSubs, SocketTypes
  <1>5. /\ pool' \in [Users -> Member]
        /\ \A d \in LegacySockets \ {c} : d \in pool[User[d]].of => d \in pool'[User[d]].of
    <2>1. pool \in [Users -> Member]
      BY <1>2 DEF SocketTypes
    <2>2. CASE c \in LegacySockets
      <3>1. pool' = [pool EXCEPT ![User[c]].of = @ \ {c}]
        BY <1>1, <2>2 DEF LeavePool
      <3>2. ASSUME NEW u \in Users
            PROVE  pool'[u] \in Member /\ \A d \in pool[u].of \ {c} : d \in pool'[u].of
        <4>1. pool[u] \in Member
          BY <2>1
        <4>2. CASE u = User[c]
          <5>1. pool'[u] = [pool[u] EXCEPT !.of = @ \ {c}]
            BY <2>1, <3>1, <4>2
          <5> QED BY <4>1, <5>1 DEF Member
        <4>3. CASE u # User[c]
          <5>1. pool'[u] = pool[u]
            BY <2>1, <3>1, <4>3
          <5> QED BY <4>1, <5>1
        <4> QED BY <4>2, <4>3
      <3>3. pool' \in [Users -> Member]
        BY <2>1, <3>1, <3>2
      <3>4. \A d \in LegacySockets : User[d] \in Users
        BY RealtimeAssumption DEF Sockets
      <3> QED BY <3>2, <3>3, <3>4
    <2>3. CASE c \notin LegacySockets
      BY <1>1, <2>1, <2>3 DEF LeavePool
    <2> QED BY <2>2, <2>3
  <1>6. SocketTypes' /\ queue' \in [Sockets -> Seq(Payloads)]
    BY <1>1, <1>2, <1>3, <1>4, <1>5 DEF SocketTypes
  <1>7. OthersStay(c)
    BY <1>1, <1>3, <1>4, <1>5 DEF OthersStay
  <1>8. SocketFits(c)'
    <2>1. SocketFits(c)
      BY EachFits
    <2>2. ~Running(c)' /\ \A k \in Keys : c \notin subs'[k]
      BY <1>3, <1>4 DEF Running
    <2> QED BY <1>1, <2>1, <2>2 DEF SocketFits, QueueMax
  <1> QED BY <1>1, <1>6, <1>7, <1>8, SocketAlone


\* A browser connects: it is registered and hears all that comes from now on.
LEMMA OpenKeeps ==
    ASSUME RealtimeInv, NEW c \in Sockets, Open(c)
    PROVE  RealtimeInv'
  <1>1. /\ client[c] = "none" /\ client' = [client EXCEPT ![c] = "here"]
        /\ at' = [at EXCEPT ![c] = IF c \in BusSockets THEN "top" ELSE "get"]
        /\ JoinSubs(c) /\ JoinPool(c)
        /\ since' = [since EXCEPT ![c] = Len(log)]
        /\ UNCHANGED <<scene, requestVars, reader, queue, hand, got, log, missed>>
    BY DEF Open
  <1>2. SocketTypes /\ queue \in [Sockets -> Seq(Payloads)] /\ Len(log) \in Nat
    BY DEF RealtimeInv, StreamTypes
  <1>3. SocketFits(c)
    BY EachFits
  <1>4. /\ at' \in [Sockets -> {"none", "top", "get", "send", "ended"}]
        /\ at'[c] \in {"top", "get"}
        /\ client' \in [Sockets -> {"none", "here", "gone"}] /\ client'[c] = "here"
        /\ since' \in [Sockets -> Nat] /\ since'[c] = Len(log)
        /\ \A d \in Sockets \ {c} : /\ at'[d] = at[d] /\ client'[d] = client[d]
                                    /\ since'[d] = since[d]
    BY <1>1, <1>2 DEF SocketTypes
  <1>5. KeysOf(c) \subseteq Keys /\ (c \in LegacySockets => KeysOf(c) = {})
        /\ (c \notin LegacySockets => c \in BusSockets \cup HubSockets)
    BY KeysAreKeys
  <1>6. /\ subs' \in [Keys -> SUBSET (BusSockets \cup HubSockets)]
        /\ \A k \in Keys : c \in subs'[k] <=> k \in KeysOf(c)
        /\ \A k \in Keys : \A d \in Sockets \ {c} : d \in subs'[k] <=> d \in subs[k]
    <2>1. \A k \in Keys : subs'[k] = IF k \in KeysOf(c) THEN subs[k] \cup {c} ELSE subs[k]
      BY <1>1 DEF JoinSubs
    <2>2. \A k \in Keys : c \notin subs[k]
      BY <1>1, <1>3 DEF SocketFits, Running
    <2>3. \A k \in Keys : subs[k] \in SUBSET (BusSockets \cup HubSockets)
      BY <1>2 DEF SocketTypes
    <2>4. \A k \in Keys : subs'[k] \in SUBSET (BusSockets \cup HubSockets)
      BY <1>5, <2>1, <2>3
    <2>5. subs' \in [Keys -> SUBSET (BusSockets \cup HubSockets)]
      BY <1>1, <2>4 DEF JoinSubs
    <2> QED BY <2>1, <2>2, <2>5
  <1>7. /\ pool' \in [Users -> Member]
        /\ c \in LegacySockets => c \in pool'[User[c]].of
        /\ \A d \in LegacySockets \ {c} : d \in pool[User[d]].of => d \in pool'[User[d]].of
    <2>1. pool \in [Users -> Member]
      BY <1>2 DEF SocketTypes
    <2>2. CASE c \in LegacySockets
      <3>1. \A d \in LegacySockets : User[d] \in Users
        BY RealtimeAssumption DEF Sockets
      <3> DEFINE old == pool[User[c]]
                 new == [set |-> IF old.of = {} THEN old.set + 1 ELSE old.set,
                         of |-> old.of \cup {c}]
      <3>2. pool' = [pool EXCEPT ![User[c]] = new]
        BY <1>1, <2>1, <2>2 DEF JoinPool
      <3>3. old \in Member
        BY <2>1, <2>2, <3>1
      <3>4. new \in Member /\ new.of = old.of \cup {c}
        BY <2>2, <3>3 DEF Member
      <3> HIDE DEF new
      <3>5. /\ pool' \in [Users -> Member] /\ pool'[User[c]] = new
            /\ \A u \in Users \ {User[c]} : pool'[u] = pool[u]
        BY <2>1, <2>2, <3>1, <3>2, <3>4
      <3>6. ASSUME NEW d \in LegacySockets \ {c}, d \in pool[User[d]].of
            PROVE  d \in pool'[User[d]].of
        <4>1. CASE User[d] = User[c]
          BY <3>4, <3>5, <3>6, <4>1
        <4>2. CASE User[d] # User[c]
          BY <3>1, <3>5, <3>6, <4>2
        <4> QED BY <4>1, <4>2
      <3> QED BY <3>4, <3>5, <3>6
    <2>3. CASE c \notin LegacySockets
      BY <1>1, <2>1, <2>3 DEF JoinPool
    <2> QED BY <2>2, <2>3
  <1>8. SocketTypes' /\ queue' \in [Sockets -> Seq(Payloads)]
    BY <1>1, <1>2, <1>4, <1>6, <1>7 DEF SocketTypes
  <1>9. OthersStay(c)
    BY <1>1, <1>4, <1>6, <1>7 DEF OthersStay
  <1>10. Lists(Stream(c)', Heard(c)', log')
    <2>1. queue'[c] = <<>> /\ hand'[c] = <<>> /\ got'[c] = <<>>
      BY <1>1, <1>3 DEF SocketFits
    <2>2. Stream(c)' = <<>>
      <3>1. << >> \o << >> \o << >> = << >>
        OBVIOUS
      <3> QED BY <2>1, <3>1 DEF Stream
    <2>3. Heard(c)' = {}
      <3>1. ASSUME NEW i \in Heard(c)'
            PROVE  FALSE
        <4>1. i \in (Len(log) + 1)..Len(log)
          BY <1>1, <1>4, <3>1 DEF Heard
        <4> QED BY <1>2, <4>1
      <3> QED BY <3>1
    <2>4. Len(<< >>) = 0 /\ Cardinality({}) = 0
      BY FS_EmptySet
    <2> QED BY <2>2, <2>3, <2>4 DEF Lists
  <1>11. SocketFits(c)'
    <2>1. Running(c)' /\ at'[c] # "send" /\ client'[c] # "none"
      BY <1>4 DEF Running
    <2>2. /\ Len(hand'[c]) <= 1 /\ hand'[c] = <<>> /\ since'[c] <= Len(log')
          /\ Len(queue'[c]) <= QueueMax(c)
      BY <1>1, <1>2, <1>3, <1>4 DEF SocketFits
    <2> QED BY <1>6, <1>7, <1>10, <2>1, <2>2 DEF SocketFits, QueueMax
  <1> QED BY <1>1, <1>8, <1>9, <1>11, SocketAlone

\* Something moves along a stream: from the queue to the hand, from the hand to the browser.
LEMMA StreamMoves ==
    ASSUME RealtimeInv, NEW c \in Sockets, Running(c),
           UNCHANGED <<scene, requestVars, subs, pool, reader, client, since, log, missed>>,
           \A d \in Sockets \ {c} : /\ at'[d] = at[d] /\ queue'[d] = queue[d]
                                    /\ hand'[d] = hand[d] /\ got'[d] = got[d],
           at' \in [Sockets -> {"none", "top", "get", "send", "ended"}],
           queue' \in [Sockets -> Seq(Payloads)], hand' \in [Sockets -> Seq(Payloads)],
           got' \in [Sockets -> Seq(Payloads)],
           Running(c)', at'[c] # "send" => hand'[c] = <<>>,
           Len(queue'[c]) <= Len(queue[c]), Len(hand'[c]) <= 1,
           client[c] = "here" => Stream(c)' = Stream(c)
    PROVE  RealtimeInv'
  <1>1. SocketFits(c) /\ queue[c] \in Seq(Payloads) /\ queue'[c] \in Seq(Payloads)
    BY EachFits DEF RealtimeInv, StreamTypes
  <1>2. SocketTypes'
    BY DEF RealtimeInv, SocketTypes
  <1>3. OthersStay(c)
    BY DEF OthersStay
  <1>4. SocketFits(c)'
    <2>1. Heard(c)' = Heard(c)
      BY DEF Heard
    <2>2. c \notin LegacySockets /\ client'[c] = "here" => Lists(Stream(c)', Heard(c)', log')
      BY <1>1, <2>1 DEF SocketFits
    <2>3. client'[c] # "none"
      BY <1>1 DEF SocketFits, Running
    <2>4. \A k \in Keys : c \in subs'[k] <=> Running(c)' /\ k \in KeysOf(c)
      BY <1>1 DEF SocketFits
    <2>5. c \in LegacySockets /\ client'[c] = "here" => c \in pool'[User[c]].of
      BY <1>1 DEF SocketFits
    <2>6. since'[c] <= Len(log')
      BY <1>1 DEF SocketFits
    <2>7. Len(queue'[c]) <= QueueMax(c)
      <3>1. QueueMax(c) \in Nat /\ Len(queue[c]) <= QueueMax(c)
        BY <1>1, KeysAreKeys DEF SocketFits
      <3> QED BY <1>1, <3>1
    <2> QED BY <2>2, <2>3, <2>4, <2>5, <2>6, <2>7 DEF SocketFits, QueueMax
  <1> QED BY <1>1, <1>2, <1>3, <1>4, SocketAlone

LEMMA GetKeeps ==
    ASSUME RealtimeInv, NEW c \in Sockets, Get(c)
    PROVE  RealtimeInv'
  <1>1. /\ at[c] = "get" /\ queue[c] # <<>>
        /\ at' = [at EXCEPT ![c] = "send"]
        /\ hand' = [hand EXCEPT ![c] = <<Head(queue[c])>>]
        /\ queue' = [queue EXCEPT ![c] = Tail(@)]
        /\ UNCHANGED <<scene, requestVars, subs, pool, reader, client, got, since, log, missed>>
    BY DEF Get
  <1>2. /\ at \in [Sockets -> {"none", "top", "get", "send", "ended"}]
        /\ hand \in [Sockets -> Seq(Payloads)] /\ got \in [Sockets -> Seq(Payloads)]
        /\ queue \in [Sockets -> Seq(Payloads)]
    BY DEF RealtimeInv, SocketTypes, StreamTypes
  <1>3. SocketFits(c)
    BY EachFits
  <1>4. PICK q \in Seq(Payloads) : q = queue[c]
    BY <1>2
  <1>5. PICK x \in Payloads, t \in Seq(Payloads) :
            /\ x = Head(q) /\ t = Tail(q) /\ Len(t) <= Len(q)
            /\ Join(<<x>>, t) = q
    <2>1. q # <<>>
      BY <1>1, <1>4
    <2>2. Head(q) \in Payloads /\ Tail(q) \in Seq(Payloads) /\ Len(Tail(q)) = Len(q) - 1
      BY <2>1
    <2>3. Len(q) \in Nat /\ Len(Tail(q)) <= Len(q)
      BY <2>2
    <2>4. <<Head(q)>> \o Tail(q) = q
      BY <2>1
    <2> QED BY <2>2, <2>3, <2>4 DEF Join
  <1>6. /\ at'[c] = "send" /\ hand'[c] = <<x>> /\ queue'[c] = t /\ <<x>> \in Seq(Payloads)
        /\ at' \in [Sockets -> {"none", "top", "get", "send", "ended"}]
        /\ hand' \in [Sockets -> Seq(Payloads)] /\ queue' \in [Sockets -> Seq(Payloads)]
        /\ \A d \in Sockets \ {c} : /\ at'[d] = at[d] /\ queue'[d] = queue[d]
                                    /\ hand'[d] = hand[d]
    <2>1. <<x>> \in Seq(Payloads)
      OBVIOUS
    <2> QED BY <1>1, <1>2, <1>4, <1>5, <2>1
  <1>7. Stream(c)' = Stream(c)
    <2>1. hand[c] = <<>>
      BY <1>1, <1>3 DEF SocketFits, Running
    <2>2. PICK g \in Seq(Payloads) : g = got[c]
      BY <1>2
    <2>3. Join(Join(g, <<x>>), t) = Join(g, Join(<<x>>, t))
      <3>1. PICK one \in Seq(Payloads) : one = <<x>>
        BY <1>6
      <3>2. Join(Join(g, one), t) = Join(g, Join(one, t))
        BY Regrouped
      <3> QED BY <3>1, <3>2
    <2>4. Join(g, <<>>) = g
      BY ConcatEmptySeq DEF Join
    <2>5. Stream(c) = Join(Join(g, <<>>), q)
      BY <1>4, <2>1, <2>2 DEF Stream, Join
    <2>6. Stream(c)' = Join(Join(g, <<x>>), t)
      BY <1>1, <1>6, <2>2 DEF Stream, Join
    <2> QED BY <1>5, <2>3, <2>4, <2>5, <2>6
  <1>8. Running(c) /\ Running(c)'
    BY <1>1, <1>6 DEF Running
  <1>9. Len(queue'[c]) <= Len(queue[c]) /\ Len(hand'[c]) <= 1
    BY <1>4, <1>5, <1>6
  <1> QED BY <1>1, <1>2, <1>6, <1>7, <1>8, <1>9, StreamMoves

LEMMA SendKeeps ==
    ASSUME RealtimeInv, NEW c \in Sockets, at[c] = "send", Turn(c),
           hand' = [hand EXCEPT ![c] = <<>>],
           got' = IF client[c] = "here" THEN [got EXCEPT ![c] = @ \o hand[c]] ELSE got,
           UNCHANGED <<scene, requestVars, subs, pool, reader, client, queue, since, log, missed>>
    PROVE  RealtimeInv'
  <1>1. PICK place \in {"top", "get"} : at' = [at EXCEPT ![c] = place]
    BY DEF Turn
  <1>2. /\ at \in [Sockets -> {"none", "top", "get", "send", "ended"}]
        /\ hand \in [Sockets -> Seq(Payloads)] /\ got \in [Sockets -> Seq(Payloads)]
        /\ queue \in [Sockets -> Seq(Payloads)]
    BY DEF RealtimeInv, SocketTypes, StreamTypes
  <1>3. /\ at' \in [Sockets -> {"none", "top", "get", "send", "ended"}]
        /\ Running(c) /\ Running(c)' /\ \A d \in Sockets \ {c} : at'[d] = at[d]
    BY <1>1, <1>2 DEF Running
  <1>4. /\ << >> \in Seq(Payloads) /\ Len(<< >>) = 0
        /\ hand' \in [Sockets -> Seq(Payloads)] /\ hand'[c] = <<>>
        /\ \A d \in Sockets \ {c} : hand'[d] = hand[d]
    <2>1. << >> \in Seq(Payloads) /\ Len(<< >>) = 0
      OBVIOUS
    <2> QED BY <1>2, <2>1
  <1>5. PICK g, h, q \in Seq(Payloads) : g = got[c] /\ h = hand[c] /\ q = queue[c]
    BY <1>2
  <1>6. /\ got' \in [Sockets -> Seq(Payloads)]
        /\ \A d \in Sockets \ {c} : got'[d] = got[d]
        /\ client[c] = "here" => got'[c] = Join(g, h)
    <2>1. Join(g, h) \in Seq(Payloads)
      BY Joined DEF Join
    <2>2. client[c] = "here" => got' = [got EXCEPT ![c] = Join(g, h)]
      BY <1>5 DEF Join
    <2>3. CASE client[c] = "here"
      BY <1>2, <2>1, <2>2, <2>3
    <2>4. CASE client[c] # "here"
      BY <1>2, <2>4
    <2> QED BY <2>3, <2>4
  <1>7. ASSUME client[c] = "here"
        PROVE  Stream(c)' = Stream(c)
    <2>1. Stream(c) = Join(Join(g, h), q)
      BY <1>5 DEF Stream, Join
    <2>2. Stream(c)' = Join(Join(got'[c], hand'[c]), queue'[c])
      BY DEF Stream, Join
    <2>3. Stream(c)' = Join(Join(Join(g, h), <<>>), q)
      BY <1>4, <1>5, <1>6, <1>7, <2>2
    <2>4. Join(g, h) \in Seq(Payloads)
      BY Joined DEF Join
    <2>5. \A s \in Seq(Payloads) : Join(s, <<>>) = s
      BY ConcatEmptySeq DEF Join
    <2> QED BY <2>1, <2>3, <2>4, <2>5
  <1>8. Len(queue'[c]) <= Len(queue[c]) /\ Len(hand'[c]) <= 1
    <2>1. Len(queue[c]) \in Nat /\ queue'[c] = queue[c]
      BY <1>2
    <2> QED BY <1>4, <2>1
  <1> QED BY <1>2, <1>3, <1>4, <1>6, <1>7, <1>8, StreamMoves


LEMMA HandlerKeeps ==
    ASSUME RealtimeInv, NEW c \in Sockets, Hangup(c) \/ Handler(c)
    PROVE  RealtimeInv'
  <1>1. ASSUME Running(c), Close(c)
        PROVE  RealtimeInv'
    <2>1. SocketFits(c)
      BY EachFits
    <2>2. client[c] # "none"
      BY <1>1, <2>1 DEF SocketFits, Running
    <2> QED BY <1>1, <2>2, CloseKeeps
  <1>2. CASE Hangup(c)
    BY <1>1, <1>2 DEF Hangup
  <1>3. CASE Top(c)
    <2>1. CASE at[c] = "top" /\ reader[c] /\ Close(c)
      BY <1>1, <2>1 DEF Running
    <2>2. CASE ~(at[c] = "top" /\ reader[c] /\ Close(c))
      <3>1. /\ at[c] \in {"top", "get"} /\ at' = [at EXCEPT ![c] = "get"]
            /\ UNCHANGED <<scene, requestVars, subs, pool, reader, client, queue, hand, got,
                           since, log, missed>>
        BY <1>3, <2>2 DEF Top
      <3> QED BY <3>1, LeavesAndTurnsKeep
    <2> QED BY <2>1, <2>2
  <1>4. CASE Get(c)
    BY <1>4, GetKeeps
  <1>5. CASE Send(c)
    <2>1. CASE at[c] = "send" /\ client[c] = "gone" /\ Close(c)
      BY <1>1, <2>1 DEF Running
    <2>2. CASE ~(at[c] = "send" /\ client[c] = "gone" /\ Close(c))
      <3>1. /\ at[c] = "send" /\ Turn(c)
            /\ hand' = [hand EXCEPT ![c] = <<>>]
            /\ got' = IF client[c] = "here" THEN [got EXCEPT ![c] = @ \o hand[c]] ELSE got
            /\ UNCHANGED <<scene, requestVars, subs, pool, reader, client, queue, since,
                           log, missed>>
        BY <1>5, <2>2 DEF Send
      <3> QED BY <3>1, SendKeeps
    <2> QED BY <2>1, <2>2
  <1>6. CASE Ping(c)
    <2>1. CASE at[c] = "get" /\ Close(c)
      BY <1>1, <2>1 DEF Running
    <2>2. CASE ~(at[c] = "get" /\ Close(c))
      <3>1. /\ at[c] \in {"top", "get"} /\ Turn(c)
            /\ UNCHANGED <<scene, requestVars, subs, pool, reader, client, queue, hand, got,
                           since, log, missed>>
        BY <1>6, <2>2 DEF Ping
      <3> QED BY <3>1, LeavesAndTurnsKeep
    <2> QED BY <2>1, <2>2
  <1> QED BY <1>2, <1>3, <1>4, <1>5, <1>6 DEF Handler

-----------------------------------------------------------------------------
(* The invariant and the theorems.                                         *)

LEMMA RealtimeInit == Init => RealtimeInv
  <1> SUFFICES ASSUME Init
               PROVE  RealtimeInv
    OBVIOUS
  <1>1. /\ \A S : << >> \in Seq(S)
        /\ Len(<< >>) = 0 /\ DOMAIN << >> = {}
    OBVIOUS
  <1>2. NoBroadcast \in Loop /\ NoBroadcast.stale = {} /\ NoRow \in NoticeRow
        /\ NoRow.state = "absent"
    BY DEF NoBroadcast, Loop, NoRow, NoticeRow
  <1>3. RequestTypes
    BY <1>1, <1>2 DEF Init, RequestTypes
  <1>4. Addressed
    BY <1>2 DEF Init, Addressed
  <1>5. /\ \A c \in Sockets : /\ at[c] = "none" /\ client[c] = "none" /\ since[c] = 0
                              /\ queue[c] = <<>> /\ hand[c] = <<>> /\ got[c] = <<>>
                              /\ missed[c] = {} /\ ~Running(c)
        /\ log = <<>>
    BY DEF Init, Running
  <1>6. SocketTypes
    <2>1. [set |-> 0, of |-> {}] \in Member
      BY DEF Member
    <2> QED BY <1>1, <2>1 DEF Init, SocketTypes
  <1>7. StreamTypes
    BY <1>1, <1>5, KeysAreKeys DEF Init, StreamTypes
  <1>8. Registered
    <2>1. \A k \in Keys : subs[k] = {}
      BY DEF Init
    <2>2. \A r \in Requests : bcast[r].stale = {}
      BY <1>2 DEF Init
    <2> QED BY <1>5, <2>1, <2>2 DEF Registered, Sockets
  <1>9. HandsFit
    BY <1>1, <1>5 DEF HandsFit
  <1>10. StagedFit
    BY <1>1 DEF Init, StagedFit
  <1>11. OnBus = {}
    BY <1>1, <1>5 DEF OnBus
  <1>12. BusEvents /\ CommittedInOneGo
    BY <1>11 DEF BusEvents, CommittedInOneGo
  <1>13. StreamsFit
    BY <1>5 DEF StreamsFit, Sockets
  <1> QED BY <1>3, <1>4, <1>6, <1>7, <1>8, <1>9, <1>10, <1>12, <1>13 DEF RealtimeInv

LEMMA RealtimeStep == RealtimeInv /\ [Next]_vars => RealtimeInv'
  <1> SUFFICES ASSUME RealtimeInv, [Next]_vars
               PROVE  RealtimeInv'
    OBVIOUS
  <1>1. ASSUME NEW r \in Requests, StageEvent(r)
        PROVE  RealtimeInv'
    BY <1>1, StageEventKeeps
  <1>2. ASSUME NEW r \in Requests, CreateNotice(r)
        PROVE  RealtimeInv'
    BY <1>2, CreateNoticeKeeps
  <1>3. ASSUME NEW r \in Requests, MarkRead(r) \/ MarkAllRead(r)
        PROVE  RealtimeInv'
    BY <1>3, ReadingNoticesKeeps
  <1>4. ASSUME NEW r \in Requests, Commit(r) \/ Fail(r)
        PROVE  RealtimeInv'
    BY <1>4, EndingKeeps
  <1>5. ASSUME NEW r \in Requests, FlushEvents(r)
        PROVE  RealtimeInv'
    BY <1>5, FlushEventsKeeps
  <1>6. ASSUME NEW r \in Requests, Broadcast(r)
        PROVE  RealtimeInv'
    BY <1>6, BroadcastKeeps, BroadcastEndKeeps DEF Broadcast
  <1>7. CASE RunTask
    BY <1>7, RunTaskKeeps
  <1>8. ASSUME NEW c \in Sockets, Open(c)
        PROVE  RealtimeInv'
    BY <1>8, OpenKeeps
  <1>9. ASSUME NEW c \in Sockets, ClientLeaves(c) \/ ReaderEnds(c)
        PROVE  RealtimeInv'
    BY <1>9, LeavesAndTurnsKeep
  <1>10. ASSUME NEW c \in Sockets, Hangup(c) \/ Handler(c)
         PROVE  RealtimeInv'
    BY <1>10, HandlerKeeps
  <1>11. CASE UNCHANGED vars
    <2>1. UNCHANGED <<scene, requestVars, socketVars, log, missed>>
      BY <1>11 DEF vars, requestVars, socketVars
    <2>2. RequestTypes' /\ Addressed' /\ StagedFit'
      BY <2>1 DEF RealtimeInv, RequestTypes, Addressed, StagedFit, requestVars
    <2>3. \A r \in Requests : /\ \A c \in bcast'[r].stale : client[c] = "gone"
                              /\ phase[r] = "done" => phase'[r] = "done" /\ staged'[r] = <<>>
      BY <2>1 DEF RealtimeInv, Registered, StagedFit, requestVars
    <2> QED BY <2>1, <2>2, <2>3, RequestsAlone
  <1> QED BY <1>1, <1>2, <1>3, <1>4, <1>5, <1>6, <1>7, <1>8, <1>9, <1>10, <1>11 DEF Next

LEMMA RealtimeAlways == Spec => []RealtimeInv
  <1> QED BY RealtimeInit, RealtimeStep, PTL DEF Spec

\* Whatever is published, dropped, broadcast, opened or closed, every structure
\* the event loop shares keeps its shape, and no queue grows beyond its maximum
\* (event_bus, Hub, ConnectionManager).
THEOREM RealtimeTypes == Spec => []RealtimeTypeOK
  <1>1. RealtimeInv => RealtimeTypeOK
    BY DEF RealtimeInv, RequestTypes, SocketTypes, StreamTypes, HandsFit, Loop, NoticeRow, Member,
           RealtimeTypeOK
  <1> QED BY <1>1, RealtimeAlways, PTL

\* A socket whose browser is there and whose handler runs is found by every
\* publisher and by every broadcast, however many loops over the live set of its
\* user's sockets are under way when others connect or leave (subscribe and
\* unsubscribe of EventBus and Hub, connect and disconnect of ConnectionManager,
\* the removal of stale sockets at the end of broadcast_to_user).
THEOREM OpenOnesRegistered == Spec => []OpenSocketsRegistered
  <1>1. RealtimeInv => OpenSocketsRegistered
    <2> SUFFICES ASSUME RealtimeInv, NEW c \in Sockets, Running(c), client[c] = "here"
                 PROVE  /\ \A k \in KeysOf(c) : c \in subs[k]
                        /\ c \in LegacySockets => c \in pool[User[c]].of
      BY DEF OpenSocketsRegistered
    <2>1. KeysOf(c) \subseteq Keys
      BY KeysAreKeys
    <2> QED BY <2>1 DEF RealtimeInv, Registered
  <1> QED BY <1>1, RealtimeAlways, PTL

\* What stands on the bus comes from requests that have committed, each one's
\* events next to each other and in the order of its operations, whatever other
\* requests stage, commit or roll back in between (stage_event,
\* flush_session_events, discard_session_events).
THEOREM EventsInOneGo == Spec => []CommittedInOneGo
  <1> QED BY RealtimeAlways, PTL DEF RealtimeInv

\* What a browser has received, what is being sent to it and what waits in its
\* queue are what was published for it since it connected, once per key and in
\* order, less at most one payload for each time its own queue was full: no
\* sequence of turns, pings, full queues and departures of others loses, repeats
\* or swaps an event.
THEOREM StreamsAlwaysInOrder == Spec => []StreamsInOrder
  <1>1. ASSUME RealtimeInv, NEW c \in BusSockets \cup HubSockets,
               Running(c), client[c] = "here"
        PROVE  \E lost \in SUBSET PublishedTo(c) :
                   /\ Cardinality(lost) <= Cardinality(missed[c])
                   /\ c \in HubSockets => lost \subseteq missed[c]
                   /\ Lists(Stream(c), PublishedTo(c) \ lost, log)
    <2> DEFINE lost == missed[c] \cap PublishedTo(c)
    <2>1. c \in Sockets /\ missed \in [Sockets -> SUBSET (1..Len(log))] /\ Len(log) \in Nat
      BY <1>1 DEF RealtimeInv, StreamTypes, Sockets
    <2>2. missed[c] \subseteq 1..Len(log)
      BY <2>1
    <2>3. IsFiniteSet(missed[c])
      <3>1. 1 \in Int /\ Len(log) \in Int
        BY <2>1
      <3>2. IsFiniteSet(1..Len(log))
        BY <3>1, FS_Interval
      <3> QED BY <2>2, <3>2, FS_Subset
    <2>4. /\ IsFiniteSet(lost)
          /\ Cardinality(lost) <= Cardinality(missed[c])
      BY <2>3, FS_Subset
    <2>5. PublishedTo(c) \ lost = Heard(c)
      BY DEF PublishedTo, Heard
    <2>6. Lists(Stream(c), Heard(c), log)
      BY <1>1 DEF RealtimeInv, StreamsFit
    <2>7. Lists(Stream(c), PublishedTo(c) \ lost, log)
      BY <2>5, <2>6
    <2> QED BY <2>4, <2>7
  <1>2. RealtimeInv => StreamsInOrder
    BY <1>1 DEF StreamsInOrder
  <1> QED BY <1>2, RealtimeAlways, PTL
================================================================================
