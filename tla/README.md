# TLA+ models of Aion Bulletin

Aion Bulletin (this repository, `src/`) is a bulletin board for problems and a
ticket tracker: a FastAPI application over PostgreSQL (`app/`), a React client
(`frontend/`), and agents that are invoked by ticket assignment and by
@-mentions. The modules here model the parts of the server whose correctness
depends on how concurrent transactions, background loops and sockets interleave.

## 1. The system

Every HTTP request runs in one database transaction (`app/database.py`,
`get_db`): the handler calls services, which only flush; `get_db` commits when
the handler returns and rolls back when it raises. The isolation level is
PostgreSQL's READ COMMITTED, so two requests interleave statement by statement,
and what one has flushed the other sees after the commit. Row locks
(`FOR UPDATE`), UNIQUE constraints and conditional UPDATEs are what the services
use against each other; several processes may serve requests. Besides requests
there are background loops (due-soon scanner, audit retention), WebSocket tasks
and in-process queues.

| Component | State | Operations | Interacts with | What is hard | What makes it correct |
|---|---|---|---|---|---|
| Agent-run queue (`agent_run_queue.py`) | table `agent_run` | enqueue, process_one | tickets, comments, notices, lessons, provider | several workers, stale snapshots, rollback after the provider ran, cascade of a ticket deletion | a run is dispatched once; the status tells what was posted; every run is decided |
| Tickets (`tickets.py`) | `tickets` with `version`, transitions, links, watchers | create, update, transition, assign, claim, comment, delete | people, notifications, queue, event bus | optimistic versions beside row locks, check-then-act on parents | no lost update, one winner of a claim, an unbroken transition history, an acyclic typed hierarchy, an `epic_id` that exists |
| Ticket notifications (`ticket_notifications.py`) | `ticket_notifications` | fan-outs, coalescing, mark read | tickets, realtime hub | check-then-act coalescing, publishing before commit | one unread state-change row per recipient and ticket, nothing pushed that was not stored |
| Due-soon scanner (`due_soon_scanner.py`) | the same table | scan_once | advisory lock | the lock's scope against the commit | one reminder per ticket and recipient in 24 h, the loop keeps running |
| Audit retention and archive (`audit_log_retention.py`, `audit_log_archive.py`) | `activity_audit_log`, archive files | prune_once, archive_then_prune | advisory lock, file system | crash between append, delete and commit; a lock taken on one connection and released on another | nothing is deleted that is not in the archive; the lock is free between passes |
| Event bus (`events.py`) and ticket socket (`ws_tickets.py`) | staged events, subscriber queues | stage, flush, discard, subscribe | every ticket operation | full queues, rollback, sockets that come and go | events only of committed requests, each request's in one piece and in order |
| Realtime hub (`realtime.py`, `realtime_ws.py`) and legacy pools (`ws.py`, `delivery.py`) | recipient queues, sockets, publish tasks | publish, connect, close, broadcast | notifications | tasks that run before the commit, a set that changes under a loop of awaits | an open socket is where publishers look, and gets what was published in order; a dead one is forgotten |
| Problems and edit suggestions (`problems.py`, `edit_suggestions.py`) | problems, claims, pins, watches, history, suggestions | create, update, transition, claim, pin, delete, accept, reject | notifications, categories, tags | unlocked check-then-act, foreign keys without cascades | a legal life, the pin limit, nothing overwritten unseen |
| Solutions, comments (`solutions.py`, `comments.py`) | solutions, versions, upvotes, comments | create, new version, status, upvote, comment, tombstone, delete | problems | equal version numbers, replies under a comment that goes | the newest version is shown, one accepted, threads stay whole |
| Bounties (`bounties.py`) | `bounty` rows | create, claim, unclaim, award, withdraw | | row lock and stale reads | one holder; what is settled stays settled |
| Votes, share posts (`voting.py`, `share_posts.py`) | votes and a counter in the post | toggle | | toggles racing | the counter equals the votes |
| Attachments, tags, categories | rows, files on disk | upload, delete, rename, merge, reorder | problems | file and row are two systems | no row without a file, names unique |
| Projects, members, components (`projects.py`, `components.py`) | projects, a sequence per key, members | create, update, archive, delete, members | tickets | DDL beside rows, concurrent numbering | a number is never given twice |
| Sprints (`sprints.py`) | sprint state, tickets' sprint | start, close, delete, add, remove | tickets | check-then-act | one active sprint per project |
| Ticket links, watchers, attachments (`tickets.py`) | link rows, watcher rows, files | link, watch, upload, delete | tickets | two rows for one link | a link and its inverse, both or none |
| Sign-in and accounts (`auth/`, `users.py`, `admin.py`, `agent_accounts.py`) | users, agents, tokens, handles | send and verify a link, directory sign-in, rename, roles, keys | people | concurrent first sign-ins, handles that change hands | one account per address and per handle |
| Mentions (`people.py`, `add_comment`) | notices, runs | resolve handles, insert | notifications, queue | resolution before insertion | nobody is told twice of one text |
| Lists: feed, search, typeahead, leaderboard, inbox, notifications, audit | none; cursors held by clients | a page after a cursor or an offset | every table | rows that come, go and move between pages | what stays is shown once and in order |

`PROJECT.json` lists every component with its files, the parts that are not
modelled with the reason, and the hazards at their lines.

## 2. Modules

Every module counts a transaction's statements as its steps. A session's
uncommitted work is in variables of its own; a commit copies it into the
committed tables in one step, which is what READ COMMITTED shows to the others.
Row locks, foreign keys, UNIQUE constraints and the deadlock detector are
PostgreSQL's, not this repository's: they are modelled from how the code relies
on them and are marked `external` in the map of `PROJECT.json`.

### Agent runs: `AgentRunQueue`, `AgentDispatch`

`AgentRunQueue` is `app/services/agent_run_queue.py` with its callers.

| In the model | In the code |
|---|---|
| `rows`, `ahead` | table `agent_run`: status, whether `error` is set, whether somebody else's comment was the cause; and its order (`enqueued_at`, `id`). A key stands for the idempotency key |
| `posted` | how many response comments, `agent_responded` and `agent_invoked_in_comment` notices and lessons a run has ever committed |
| `pc`, `cur`, `local`, `holds`, `out`, `drops`, `scan` | the open transaction of a session: the step it has reached, the row in its hands, its versions of rows, its locks, its effects, the ticket it deletes, the snapshot of its claiming SELECT |
| `EnqueueLookup`, `EnqueueInsert`, `EnqueueRejected` | `enqueue`: the SELECT by key; the INSERT, which waits for an uncommitted row with the same key or a ticket that is being deleted; the IntegrityError |
| `ProcessScan`, `ScanSkip`, `Claim`, `ScanEmpty` | the SELECT ... FOR UPDATE SKIP LOCKED of `process_one`: snapshot, skipped candidates, the re-check of the current row version, the flush of `running` |
| `ProviderOk`, `ProviderFails`, `PostComment`, `NotifyOwner`, `EmitLesson`, `SideEffectRaises`, `Finish` | the rest of `process_one` in its order |
| `DropTicket`, `DropCascade` | `TicketService.delete` as the queue sees it: the ticket, then its runs |
| `StatementFails`, `DeadlockVictim`, `Rollback`, `Commit` | a failing statement or lost connection, PostgreSQL's choice of a victim, `get_db` |

A session runs one of four callers: a request that enqueues (`writer`), the
process-next route (`worker`), the drain loop of `orchestrate_demo.py`, which
keeps one transaction over many runs (`drain`), and a ticket deletion (`drop`).
The requests that enqueue in the application are assignments (`tickets.py:1231`);
`emit_body_mentions`, which enqueues for a comment, has no caller there (section
9, 6), but the queue treats its rows as the model does.
The queue's `asyncio.Lock` is not in the model because it excludes nothing: the
route builds a new `AgentRunQueue`, and with it a new lock, for every request.
The docstring's "at most one process_one body runs at a time"
(`agent_run_queue.py:10-13`) is therefore not what the code does; two requests
process two rows side by side. What is kept is that no row is dispatched twice.

`AgentDispatch` is the promise without transactions: a request becomes a run
once, a run is decided once, effects come with the decision `done` and at most
once, and the runs of a deleted ticket never return. `AgentRunQueue` implements
it with `state`, `effects` and `removed` read off the committed tables.

### Background jobs: `AdvisoryLock`, `DueSoonScanner`, `AuditRetention`

`AdvisoryLock` is `with_advisory_lock` (`app/services/_advisory.py`): the lock
belongs to a pooled connection (`depth[c]` holds), is re-entrant there, and
survives transactions; a session has a connection (`conn[p]`) only from its
first statement to its commit or rollback, and the pool may close a connection
that comes back, which frees its locks. Both jobs extend it.

`DueSoonScanner` is `app/services/due_soon_scanner.py`: `Acquire` and
`Contended` (try lock), `LoadTickets` (the candidate query over `due`), then for
each (ticket, recipient) `Remind`, `AlreadyReminded`, `FoundTwo`
(`scalar_one_or_none` raises) or `InsertFails` (savepoint), then `Unlock` and
afterwards `Commit` (`run_loop` commits after `scan_once` has returned), `Close`
(an exception), `StatementFails` and `Restart`. `Tick` and `Reschedule` are the
environment. The pass's `now` also stands for the `created_at` of what it
inserts.

`AuditRetention` is `prune_once` (`audit_log_retention.py`) and
`archive_then_prune` (`audit_log_archive.py`): `StartPass`; with the archiver on
`SelectBatch`, `AppendLines`, `DeleteBatch`, `BucketEmpty` per batch, each batch
a transaction; with it off `PlainDelete` per bucket and one commit in
`BucketsDone`; `Unlock`, `EndPass`. `AppendFails` and `Restart` may leave any
part of a write in the file, up to half a line (`PartOf`). `lines`, `readable`
and `torn` are the archive: how many whole lines an entry has, whether one of
them stands on a line of its own, and which files end inside a line.

### Ticket rows: `TicketRegister`, `TicketWorkflow`

`TicketWorkflow` is `update` (other fields than the parent), `assign`, `claim`,
`transition`, `add_comment` of `app/services/tickets.py` with `fanout_assigned`,
`fanout_state_change`, `fanout_blocked`, `fanout_resolved`, `fanout_cancelled`
and the read marks of `ticket_notifications.py`.

| In the model | In the code |
|---|---|
| `tickets[t]` | status, whether `resolved_at` is set, assignee, `version`, who wrote the texts, and the three "last touched by" columns |
| `history`, `inbox`, `remarks` | `ticket_transitions`, `ticket_notifications` per recipient, comments |
| `base[s]` | the version the client saw, sent as `expected_version` by update and assign |
| `mode[s]` | the row lock: FOR UPDATE (edit, assign, move), that of an UPDATE (claim, stamp), FOR KEY SHARE (a comment's foreign key) |
| `Edit`, `Assign`, `StaleVersion` | load FOR UPDATE, compare versions, write |
| `Claim`, `AlreadyClaimed` | UPDATE ... WHERE assignee_id IS NULL RETURNING |
| `Transition`, `FindNotice`, `WriteNotice`, `NoticeLost`, `FanOutDone` | transition; per recipient the SELECT and the UPDATE or INSERT of `_coalesce_or_insert_state_change`; savepoints that fail; the inserts for an end or a block |
| `LoadForComment`, `InsertComment`, `StampRow`, `StampRejected` | `add_comment`: unlocked load, INSERT, `_stamp_last_activity` with the columns SQLAlchemy finds changed, the CHECK on `last_agent_step_id` |
| `MarkRead`, `MarkAllRead`, `Age` | the recipient; the coalescing window running out |

`TicketRegister` is the promise: the row is a register with a version, each
write is one step from the row it found, statuses move along
`_ALLOWED_TRANSITIONS`, a claim takes what nobody has. Its refinement forgets
the "last touched by" columns, which a comment writes without a new version.

### The hierarchy: `TicketForest`, `TicketHierarchy`

`TicketHierarchy` is `create`, `update` with a `parent_id`, and `delete`, one
step per query: `CheckParent` is the first query of `_validate_hierarchy`,
`Climb` its search for a cycle, `WalkOn` and `WalkEnds` are `_walk_to_epic`,
none of them under a lock. `ReferToParent` and `ReferToEpic` are the foreign-key
checks of the INSERT or UPDATE. In an update the query of `_walk_to_epic`
autoflushes the new parent, so its check comes before the walk; a create walks
first. A delete is `CountChildren`, `RemoveRow` (which goes on, with a warning,
when the row is gone), `RestrictOK` (`parent_id` ON DELETE RESTRICT) and
`ClearEpic` for each row that names the ticket as its epic (ON DELETE SET NULL).

`TicketForest` is the promise: a parent exists, in the same project, with a type
from `_PARENT_ALLOWED`, when it is put over a ticket; a ticket leaves only
without children; `epic_id` names an epic of the project that exists. It does
not say that `epic_id` is the nearest epic above: the code rewrites it only for
the ticket that moves, so the descendants keep the old one.

### The bulletin board: `Board`

`BoardTables` declares the tables of the board and the life of a request;
`BoardProblems`, `BoardSolutions` and `BoardSpaces` are its operations, and
`Board` puts them together. A request is two steps of a session. `Ask...` is
what the route checks and what the service reads; what the decision rests on is
kept in `doing[s]`. The operation itself (`PinProblem`, `CreateVersion`, ...)
flushes and commits, and by then the tables may have moved on. Operations that
read their row FOR UPDATE (`Locking`) keep others from asking for the same row.
UNIQUE constraints and foreign keys are guards of the second step. `Abandon` is
a refusal, an error, a lost client or a crash: all of them roll back.

| Module | Code | Operations |
|---|---|---|
| `BoardProblems` | `problems.py`, `watches.py`, `notifications.py`, `routes/edit_suggestions.py`, upstars of `voting.py` | create (number, automatic watch), update with its edit history, transition, claim and unclaim, pin, delete; set and remove a watch; suggest, accept, reject. `Tell` inserts the notification rows of a request by `WatchRouting` and `Priority` |
| `BoardSolutions` | `solutions.py`, `comments.py`, upvotes of `voting.py` | create, new version, status (with the swap of the accepted one), upvote, `DeleteSolutionFails`; comment, edit, tombstone (`Bury`) or remove; `Roots` and `Under` build the tree of a list |
| `BoardSpaces` | `share_posts.py`, `bounties.py`, `attachments.py`, `tags.py`, `categories.py` | posts and toggled votes; bounties; file and row of an attachment in the order of the code; rename, delete, merge of tags; create, update, reorder, soft delete of categories |

`BountyLife` is the promise of the bounty space: posted, claimed by one at a
time, given back or awarded to the one who holds it, withdrawn only while open,
and settled for good. `Board` implements it with `life` read off the rows
(`LifeOf`).

`DeleteSolutionFails` has no effect because the code has none: the relationships
to versions and upvotes have no delete cascade, so the ORM sets their NOT NULL
foreign keys to NULL and the statement is refused. For the same reason
`DeleteProblem` needs that nothing refers to the problem (`Reached`), its
author's automatic watch included.

### Sockets: `Realtime`

`Realtime` is one server process: `events.py`, `realtime.py`, the publish tasks
of `ticket_notifications.py`, the broadcast of `delivery.py`, and the handlers
`ws_tickets.py`, `realtime_ws.py` and `ws.py`. Each step is a stretch of code
between two awaits, which is what the event loop interleaves.

| In the model | In the code |
|---|---|
| `phase`, `staged` | a request from its first statement to `done` or `failed`; `session.info`'s list of events |
| `StageEvent`, `Commit`, `FlushEvents`, `Fail` | `stage_event`; `get_db`: commit, then `flush_session_events`, or rollback and `discard_session_events` |
| `CreateNotice`, `MarkRead`, `MarkAllRead`, `RunTask` | rows of `ticket_notifications` and the tasks `asyncio.create_task(hub.publish(...))` that run in order of creation, before or after the commit |
| `subs`, `queue`, `Put`, `missed` | `EventBus._subscribers`, `Hub._subs`, the bounded `asyncio.Queue`s; `put_nowait` on a full one drops the new payload |
| `pool`, `bcast` | `ConnectionManager._connections` and the loop of `broadcast_to_user` over the live set, one `await send_json` at a time; `BroadcastBroken` is the RuntimeError of a set that changed |
| `Open`, `Close`, `Top`, `Get`, `Send`, `Ping`, `ReaderEnds`, `Hangup` | the handlers and their reader tasks |
| `ClientLeaves` | the browser |
| `log`, `since` | history: all that was published, and from where on a socket listens; `OnBus` are its entries that went to the event bus |

A socket is of one kind for good, which is part of `RealtimeAssumption`: the
route it was opened at decides whether it is one of the bus, the hub or the
legacy pool.

### Projects, tickets and accounts: `Workspace`

`WorkspaceTables` holds the tables and, as in `Board`, requests of two steps;
`Planning` and `Identity` are the operations; `Workspace` composes them, for a
deactivated user no longer gets through `Callers`, a project's lead and members
are accounts, and a mention needs both.

| Module | Code | Operations |
|---|---|---|
| `Planning` | `projects.py`, `components.py`, `project_lessons.py`, `sprints.py`; numbers, links, watchers and attachments of `tickets.py` | create a project with its sequence (CREATE SEQUENCE in the transaction), update under its version, archive, delete (DROP SEQUENCE); members, components, lessons; create, start, close, delete a sprint, add and remove tickets; `NextNumber` and `CreateTicket`; `Link` with its inverse row; watchers with their notice; attachments |
| `Identity` | `auth/magic_link.py`, `auth/oidc.py`, `users.py`, `admin.py`, `agent_accounts.py`, `people.py`, the trigger of `a12_add_handles.py` | send and verify a link, directory sign-in, the handle the trigger fills in (`FillHandle`), rename with its cool-down, roles and deactivation, agent accounts; `AddComment` (`fanout_mentions`) and `EmitMentions` (`emit_body_mentions`) with the handles resolved in an earlier statement |

A number given by `nextval` is not given back: `sequences` moves when the
request asks, not when it commits. DROP SEQUENCE waits for a transaction that
has drawn a number, which is the guard of `DeleteProject`.

### Lists: `ReadingLists`, `Reading`

`ReadingLists` describes each list the program pages, cuts or merges by what decides its pages:
the columns of its ORDER BY, those its cursor compares, whether it goes on by
cursor, by offset, in one page or in two statements, and how a merged list cuts
its arms. `Reading` is one reader of such a list while other requests commit.

| In the model | In the code |
|---|---|
| a row's `key`, `rank`, `pinned` | its time or name; the value that moves (activity time, count, rank of a match, depth); the pin |
| `ReadKeyset`, `After` | the row-wise seek clauses of `feed.py`, `tickets.py`, `ticket_notifications.py`, `audit_log.py`, `search_multi.py` |
| `ReadArm` | an arm of the multi-entity search with the total in its cursor (`search_multi.py`, `routes/search.py`) |
| `ReadOffset` | `share_posts.py`, `bounties.py`, `TicketService.search`, `search.py`, `routes/agents.py` |
| `ReadOnce` | `agent_runs.py`, `me_inbox.py`, `leaderboard.py`, similar problems |
| `ReadMerged` | `search_typeahead.py`, `people.search`: cut each arm, rank, cut again |
| `ReadIds`, `ReadRows` | `get_subtree`, the project hierarchy: ids with depths, then the rows |
| `Make`, `Drop`, `Move`, `Pin` | any commit that adds, removes or moves a row of the list; a filter that starts or stops to hold is the same |
| `Sorted` | ORDER BY: free where rows tie |
| `Bound` | the rank of a cursor as the driver binds it (section 9, 10) |
| `seen` | history: the ids of all rows shown, to which each page appends its own (`Show`) |

`ServedLists` are all lists that page, cut or merge. The small ones that come
whole, in one SELECT without a limit (comments, watchers, sprints, members,
lessons, attachments), are left out: there is no second page that could
disagree with the first. `ReadingAssumption` takes the lists of an
instance from there, so what is proved of `Reading` is about the lists the code
has, and a list that is added to it has to be `WellFormed` too.

## 3. Runs

Sessions, tickets and ids are model values. The run of the queue has no symmetry
because the keys are ordered by the queue and one session is the poller; the
ticket, board and workspace runs use symmetry of sessions, and check no liveness.

| Run | Question | Instance and bounds | Distinct states, depth |
|---|---|---|---|
| `agent_runs` | is a run dispatched once, told truthfully, and decided in the end? | 2 keys on 1 ticket, 2 sessions, all four callers (one session at most drains), 1 failure; fair | 448 878, 37 |
| `due_soon_safety` | do scans exclude each other, does a process repeat itself? | 2 processes, pools of 2 and 1 connections, 1 reminder, look-ahead and window 2, clock to 3, 2 failures | 326 176, 43 |
| `audit_retention_safety` | is everything appended before it goes? | 2 processes, the same pools, buckets with 1 entry kept 1 day and 2 entries kept 0 days, batches of 2, archiver on or off, 2 failures | 2 015 300, 37 |
| `ticket_workflow_safety` | versions, history, notices under all races? | 1 ticket, 2 sessions, a user (reporter, watcher) and an agent (watcher), targets in_progress and done, 1 failure | 1 285 852, 37 |
| `ticket_hierarchy_safety` | do the rows stay a typed forest? | 3 tickets, 2 sessions, 2 projects, four types | 377 875, 58 |
| `board_safety` | versions, counters, threads and bounties under racing requests? | 2 sessions, 2 users (one an administrator) and an agent, 14 menus of operations over at most 2 or 3 rows each | 463 132 |
| `realtime` | order, registration, no event of a rollback, no forgotten socket? | 2 requests, 8 scenes: bus, hub, legacy; queues of 2 and 1; fair | 235 245 |
| `realtime_overflow` | does a full queue of the bus keep the newest event? | the same | violated |
| `workspace` | numbers, sprints, links, accounts, mentions? | 2 sessions, 12 menus over at most 2 rows of a kind, sequences to 2 | 311 188 |
| `workspace_number` | does a fresh number of a project fit? | the same | violated |
| `reading` | what does a reader miss, repeat or see out of order? | every list, 3 rows in 2 arms, 2 times and 2 ranks, pages of 1 or 2, 4 pages, 1 commit of others | 923 502 |
| `reading_low_hits` | are the lowest hits shown once? | the same, the arms with low ranks | violated |

Why the bounds are enough for what is asked:

* Two sessions (or processes) make every race of a check with a write; a third
  could only wait behind one of them. Two keys give an older row to be skipped
  and a younger one to be taken; they name one ticket so that its deletion meets
  both. One session at most is a drain loop, which in the code is one script.
  A pool of two connections is what it takes to unlock on the wrong one,
  and a second process is what it takes to be refused because of it.
* `MaxFaults` bounds failures; one or two are enough to fail at every step once
  and to fail again in what follows.
* `MaxTime`, `Lookahead` and `Window` let a reminder fall inside, exactly at and
  outside the window; `Oldest` lets each bucket reach its cutoff before and after the other.
  `MaxDepth` bounds how often one connection piles up the re-entrant lock.
* `MaxVersion` of `TicketWorkflow` bounds how late in a ticket's life a request
  may start: 1 for edit, assign, claim and comment, which race on a new ticket,
  and 2 for moves, so that there is a first change of status and one that is
  coalesced with it. Each of these requests may fail, so both orders of every
  pair still occur.
* Three tickets of the types epic, story, task, subtask make chains of three
  under moves and deletions; the ids of deleted tickets return when no request
  mentions them, so the run needs no bound on the number of operations.
* `Board` and `Workspace` are explored menu by menu. A behaviour chooses one
  menu at the start: the operations its clients ask for and the rows and people
  they name. Each menu holds the operations that touch one another's rows (all
  of one component, and those of another that it refers to); operations of
  different menus meet only over rows that no menu of them shares. Two rows of
  a kind are what uniqueness, swaps and limits of one need; three comments make
  a reply to a reply. `MaxNumber`, `MaxVersion`, `MaxSeq`, `MaxHandle` bound
  the counters of the tables, `MaxPinned = 1` and `MaxTotal = 1` put the limits
  where two requests reach them.
* `Realtime`: a scene says which channel is used, by whom. Two requests can meet
  in every order, a bus queue of 2 is filled by one request and overrun by the
  second, a hub queue of 1 by any two payloads; two tabs of one user are what it takes
  for a payload to be lost to one and received by the other; three legacy sockets are what it
  takes to lose one in front of, at and behind the position of the loop.
* `Reading`: three rows are a page, its last row and one beyond it; two values
  of time and rank give ties and a move over the cursor; `MaxPages` is one more
  than the pages three rows fill, so every list can come to its end. One commit
  of others falls between any two statements of the reader.

`CHECK_DEADLOCK FALSE` is said in the runs of `Board`, `Workspace`, `Realtime`
and `Reading`, where the system stops because all ids are used up, all requests
are done or the reader has the last page.

For each property of a passing run `PROJECT.json` names a change of the code
(`mutants`) under which the same run finds it violated.

The three violated runs, each of one claim of a doc or a comment:

1. **The tickets of a second project collide with those of the first**
   (`workspace_number`). Each project has a sequence of its own from 1
   (`projects.py:207`), but `seq_number` is unique over all projects
   (`a7_create_work_items.py:177`, renamed in `a8`, `models/ticket.py:65`), and no
   migration drops that constraint although the comment at
   `a9_ticketing_v2.py:662` says it is replaced. The INSERT fails,
   `tickets.py:576-585` answers "parent_id constraint violated", and the number
   is spent. `tests/routes/test_projects_hierarchy.py:323` works around it.
2. **The lowest hits of a search are read again and again**
   (`reading_low_hits`). The rank 0.1 of a substring match goes into the cursor as
   a float and comes back to a numeric parameter as 0.1000000000000000055, so
   `rank < :c_rank` holds for every substring match and the next page starts
   with the first of them (`search_multi.py:780` and the arms built like it).
3. **A full queue of the event bus loses the newest event** (`realtime_overflow`).
   `events.py:4-5` says that queues "drop oldest on overflow"; `publish` calls
   `put_nowait` and, on `QueueFull`, leaves the queue as it is
   (`events.py:53-60`; its own docstring, "Drops events for full queues", leaves
   open which). `NewestEventKept` states the header: once an event is published,
   whoever was subscribed has it in hand, in the queue or behind him.
   `StreamsInOrder` does not depend on who is right: a full queue of the bus
   may lose any event, the oldest or the newest; but no more are lost than found it
   full, and the others arrive once and in order.

## 4. Fairness

Two properties need fairness. `EveryRunIsDecided` is checked under
`AgentRunQueue`'s `FairSpec`:

* `WF_vars(Proceed(s))`: a transaction that is open runs on. Requests have no
  pause that waits for another client, the provider answers or raises, and a
  deadlock is broken by PostgreSQL.
* `SF_vars(Waiting(s))`: a statement that waits for a lock gets it if the lock
  is free again and again. PostgreSQL queues the waiters of a lock and wakes them
  in order; weak fairness would let others take the lock between.
* `SF_vars(Begin(s, "worker"))` for the pollers: process-next is called again
  and again. Nothing in the code does that by itself; the operator or a
  scheduler does, and without it a pending run stays pending.

Nobody is forced to enqueue, delete, or fail, and failures are bounded by
`MaxFaults`: a run whose side effects fail in the database every time is retried for
ever (section 9, 1). A drain loop may keep its rows
locked as long as others keep enqueueing; with finitely many keys it comes to the
end of the queue and commits.

`GoneIsForgotten` is checked under `Realtime`'s `FairSpec`: weak fairness of
`RunTask` and of each handler's and each reader's steps. The event loop runs
what is ready, one callback after another, and the handlers' `wait_for` expires
after 15, 25 or 30 seconds, which is the `Ping` step; nothing is assumed of
browsers or requests. Weak fairness is enough because such a step, once ready,
stays ready until it is taken.

## 5. Proofs

All theorems hold for any values of the constants that satisfy the named
assumptions of the modules (`QueueAssumption`, `LockAssumption`,
`ScannerAssumption`, `RetentionAssumption`, `WorkflowAssumption`,
`HierarchyAssumption`, `BoardAssumption`, `RealtimeAssumption`,
`WorkspaceAssumption`, `PlanningAssumption`, `ReadingAssumption`); in particular for any number of
sessions, processes, tickets and failures. The assumptions say what kind of
value each constant is, and that different things are different: a marker like
`Absent` or `Nobody` is no row and no id, a socket is of one kind, users and
agents have ids of their own. Beyond that they say only that the people are
finitely many, where something counts them (the voters of a post, the
recipients of a transition, the ids of a list), and that the inverse of a link type is one of the
link types, as the table `_LINK_INVERSES` has it (`tickets.py:71`).

**`AgentRunQueueProofs`.** `AtMostOnce` is not inductive: one must know that an
effect waiting in a transaction belongs to a row which that transaction holds,
and which is committed as pending or not at all. `QueueInv` says so.
`SessionShape` ties each step to what the session may hold, `HeldRow` the
uncommitted version of a row to the effects collected for it, `SettledRow` the
committed row to the effects ever committed. Together with `LocksExclusive` a
commit then finds no effect of its rows in `posted`. One lemma per action
(`ClaimInv`, `CommitInv`, ...) and `NextQueueInv` put together `QueueInvariant`;
from it come `QueueTypes`, `RowsHeldOnce`, `NoDoubleDispatch`,
`StatusIsTruthful`, `NeverStuckRunning`, and, as only `Commit` changes the
committed tables (`OnlyCommitShows`), `QueueImplementsDispatch`.

**`AuditRetentionProofs`.** The batch in hand is past its cutoff, and from the
step `delete` on every entry of it has been appended: `DeletedAfterAppend`,
`PrunedAfterCutoff`. How often an entry is appended needs to know who holds it:
`OnceInv` says that the batches of overlapping passes are disjoint (the row
locks of their transactions) and that an entry which was appended more often
than passes have failed is in the batch of a pass that is about to delete it. An
entry that is back in the table, for another pass to select, has therefore been
appended at most once per failure, and `AppendedOncePerFailure` follows. The
advisory lock plays no part in it, which is as well, because it may be lost
(section 9, 3). `RetentionTypes` is type correctness.

**`TicketWorkflowProofs`.** The core of `WorkflowInv` is `Ready(s)`: a session
that is about to commit holds a lock under which the row is still the one its
new row was computed from. Every other session's commit would need a conflicting
lock (`LocksCompatible`). So a commit is a step of the register
(`RowIsRegister`), extends the history by a legal move (`HistoryHolds`), and
replaces only what its client had seen (`ReplacementsKnown`).

What recipients are told needs a second invariant, `InboxInv`, on top of it. An
inbox `Fits` the history of its ticket: at most one unread notice of status
changes within the window, each recorded change in at most one notice, and only
in those of its recipients. While a transition is under way, `FanOut(s)` divides
its recipients into those yet to be told, the one in hand, and those with a
draft; and it says of a draft that the unread notice it will extend is the only
one there can be. That is what the SELECT of `_coalesce_or_insert_state_change`
found, and it stays so because the transition holds the row of the ticket: no
other transition of it can insert a notice, and a reader can only take the
notice away. As long as no savepoint has failed, every recipient is told, or has
a draft, or is yet to be told. At the commit the drafts become the change's one
notice each: `InboxMatchesHistory`. `WorkflowTypes` is type correctness.

**`TicketHierarchyProofs`.** `Known(s)`: what a session read without a lock
about a ticket stays right while the ticket exists, because types and projects
never change and an id somebody mentions is not given out again. `Held(s)`: at
the commit, the parent and the epic exist, for they are held by a share lock or
were already referenced by the session's own row, which it holds exclusively; a
row being deleted is held exclusively, has no children, and every reference to
it as an epic is cleared. From `HierarchyInvariant` follow `ParentsAlwaysFit`,
`EpicsAlwaysExist` and `RowsAreForest`. `NeverACycle` follows from the types
alone: `_PARENT_ALLOWED` ranks them, so along parents the type rises. The
climb at `tickets.py:357-370`, which two concurrent moves can both pass, is not
what prevents a cycle; relaxing `_PARENT_ALLOWED` (say, task under task) would
make that race real.

**`WorkspaceProofs`.** Between its two steps a request holds nothing but what it
has read, so `WorkspaceInv` says what of that cannot have changed: an id it will
give to a row is nobody else's (`TicketIdsNew`, `ProjectIdsNew`,
`CommentIdsNew`); a ticket request of a project that still exists has that
project's key and a number that is behind the sequence and that no ticket and no
other request has (`NumbersInHand`); a link request that found the inverse still
has it unless an end is gone (`LinkInv`). `StepKinds` sorts the steps into those
that begin such a request, write such a row, or do neither, so that each
invariant is looked at only where it can break. From `WorkspaceAlways` follow
`SprintsOneActive` (the unique index decides, not the check of the request),
`LinksInPairs`, `NumbersNeverAgain` and `ToldOnceByName`. The numbers need two
facts that the code does not state: `DROP SEQUENCE` waits for every transaction
that has taken a number, and a new project's id is in no request.

For the accounts, which are never deleted and keep their addresses
(`AddressesStay`), whom a request has found by an address still has it
(`AccountRequestsKept`); the inserts take a free address, and a free handle
because the trigger takes the first free one (`FillHandleFree`, from
`LeastNumber`). `AccountAlways` gives `AddressOneAccount`.

`WorkspaceTypes` rests on both and on `TypesInv`: what a request carries has the
kind of the column it goes to (`Carries`), and the rest is there when it is
written, because the step looks for the row or a foreign key does.

**`BoardProofs`.** `BoardInv` is again about what two-step requests have read.
Four parts carry a property each, and each for another reason:

* `VersionInv`: the versions of a solution are numbered from 1 to its newest,
  and a request that adds one read no more than the newest plus one. When
  another request got there first, the number is taken and the unique constraint
  refuses the second: `NewestShown`. No lock is involved.
* `VoteInv`: a toggle reads the post FOR UPDATE, so it is `Alone` with it, and
  the count it read of the others' votes is still the count when it writes:
  `VotesAreCounted`.
* `CommentInv`: a parent is there, or nobody, and no set of comments
  holds the parents of all its members (`NoCircle`). The second part is what makes every
  comment reachable from a root of the list. It holds because a reply is new when
  it is put under its parent, and a cascade takes whole branches:
  `ThreadsStayWhole`, for threads of any depth.
* `BountyInv`: the requests that settle a bounty hold its row, so that what they
  were allowed to do when they asked (`MayTake`) they still are: each commit is a
  step of `BountyLife` (`BountiesImplementLife`).

`NewIn` says that an id about to be given to a row is nobody else's, `Stands`
that solutions, suggestions and categories never go, `SuggestionsHang` that a
problem with a suggestion cannot be deleted: without it an accepted suggestion
could be written into a row that is gone. `BoardTypes` is type correctness.

**`RealtimeProofs`.** `RealtimeInv` says how the structures hang together that a
stretch of code between two awaits changes at once.

* `Registered`: whoever runs is in the sets of exactly those keys he listens to,
  and in the pool of his user if it is a legacy socket that is there; what a
  broadcast has found stale is gone. The last part is needed because the cleanup
  runs later than the failed send: `OpenOnesRegistered`.
* `StagedFit`, `BusEvents` and `CommittedInOneGo` together: a staged event bears
  its request and its place, and only an open or a committed request has any, so
  that a flush, which runs without an await, appends a request's events once, in
  one piece and in order: `EventsInOneGo`.
* `StreamsFit`: what a browser has received, what its handler has in hand and
  what is in its queue are, in this order, the payloads that were published to it
  since it connected and that its queue did not drop, which are those that found
  it full. It says which payloads are lost; `StreamsInOrder`, that runs and
  theorem state, only that there are some and no more than the queue counted,
  and follows with those (`Heard`). Every step that moves a
  payload along, drops it or publishes it keeps that sentence true
  (`ListGrows`, `StreamMoves`), and `HandsFit` bounds the hand to one payload:
  `StreamsAlwaysInOrder`, for queues of any length.

`RealtimeTypes` is type correctness, with the queues within their limits.

**`ReadingProofs`.** `ServedWellFormed` goes through the lists once and keeps
what all of them share (`WellFormed`): a cursor compares the columns of the
order, which end in an id, or is a time alone. Tuples compared from the left
are ordered strictly (`PrecedesTransitive`, `PrecedesIrreflexive`) and differ
when a column does (`PrecedesTotal`, `RankDiffers`). `FlowOK` types the reader's
state and says when there is something to go on from. On top of it:

* `CursorShape`, for lists with a cursor. A row that nobody touched is `Settled`:
  shown, and then pinned or at or before the cursor; or not shown, and then
  behind it; or missed because its time is that of a page's last row. A page
  shows the first rows behind the cursor and moves the cursor to the last of
  them (`PageSettles`), so shown rows lie before those still to come, which gives
  at once that nothing untouched comes twice, is left out, or comes out of order.
  A commit of others does not move a row that it does not touch (`PlaceKept`).
  The driver's inexact rank changes no comparison but with the lowest hits
  (`BoundExact`). `TreeShape` is the counterpart for a tree's two statements.
  Both give `EachRowOnceInOrder`, and of the cursor that is a time alone the
  second half of `WeakListsLoseLittle`.
* `OffsetShape`, for offsets into a total order. The row at place `p` has `p - 1`
  rows ahead (`PlaceIs`), so a row is on the far side of the offset or not.
  `Shifted` are the untouched rows which are on one side and have been met on
  the other: passed over unseen, or shown and about to come again. A page
  turns the second kind into repetitions, one for one (`OffsetPageShape`). A
  commit can move only one untouched row over the offset: the row it changes
  adds at most one to the rows ahead of another, so the row moved over has
  exactly as many others ahead as make up the offset, and two rows cannot have
  the same number (`OffsetOther`). So repetitions and shifted rows together are
  at most as many as the commits, which is the first half.
* `TotalsAreCounted` needs that a page has a cursor to go on from exactly when
  pages were read; `BestAreFirst` that a row cut from its arm has as many rivals
  as the arm keeps (`CutOff`). `ReadingTypes` is type correctness.

The same module ends with the theorems about `DueSoonScanner`, which has nothing
to do with lists. `LockPart`: at most one connection holds the lock, a
session's connection is from its own pool, and while it scans that connection
holds the lock; hence `ScansExcludeEachOther`, whatever fails or is closed.
`NoticePart`: what a process may still insert keeps its distance from what it
inserted before; hence `NoOwnRepeat`. The theorem is about one process only,
because between two processes the property is false (section 9, 2).
`ScannerTypes` is type correctness.

## 6. Model-checked only

* Liveness: `EveryRunIsDecided` and `GoneIsForgotten` (TLAPS here does not reason
  about fairness).
* The violated properties are, of course, refuted and not proved.

## 7. Abstractions, and what is not modelled

* Texts, names, excerpts, links and prompts are left out or reduced to who wrote
  them.
* `AgentRunQueue`: agents are never deleted, and `created_by` is NOT NULL, so
  an owner exists. Ties of `enqueued_at` are broken by id as in the query.
* `DueSoonScanner`: hours may be any coarser unit; the loop's sleep is the
  freedom not to wake.
* `AuditRetention`: one file per bucket (a UTC day), so a change of file at
  midnight is not followed; nor are the summary rows, nor a cancellation while
  the file write runs in its thread.
* `TicketWorkflow`: watchers and reporter are constant, comments mention nobody
  (`Identity` has the mentions), the agent run that assigning an agent enqueues
  is `AgentRunQueue`'s, and a read mark is one step per recipient. The database's
  and the application's clocks are one. The version is compared by edit and
  assign only: `transition` takes no `expected_version`, which the model keeps.
* `TicketHierarchy`: the version check of `update` is `TicketWorkflow`'s; the
  trigger `trg_tickets_same_project` adds nothing to the service's own check.
* `Board` and `Workspace` give a request one step to read and one to write. A
  service that reads twice (a member check, then the row) reads both at once,
  and its several statements that write become visible together anyway, at the
  commit. Where the second read matters it is made in the second step (the
  existence of a solution's number, the handles of a mention). Requests wait
  for each other's UNIQUE keys only in that the second one finds the first one
  committed. Names, descriptions, dates and e-mail texts are left out, so an
  update that writes nothing else (a sprint's dates, a profile) is no step.
* `Realtime`: one process, since the bus and the hub are in memory; the filters a
  ticket socket may set, the tokens, and the client's timers, polling fallback
  and badge are left out. Payloads carry who and what, not the text.
* `Reading`: how a text is matched and ranked is a free choice of rank. The
  reader sends the cursor it was given; a malformed one is refused before any
  query. The totals of the keyset lists are a statement of their own and are not
  compared with the rows. `/search/v2` also takes an `offset`, which counts only in
  a request without a cursor; the reader of `ReadArm` goes on by cursor and
  sends none. The feed selects its pinned rows and its page in two statements,
  which are one step here; only a row that changes between the two could tell.
* Not modelled: the MCP server (a client of the HTTP routes without state), the
  middleware (rate limits count in memory, correlation ids, headers), mail and
  Teams delivery, flags and configuration rows of the administrator, the seed
  scripts, the schema migrations as such, and the React pages. `PROJECT.json`
  says so at each component.

## 8. Plan

Done: agent runs, background jobs, ticket rows, the hierarchy, the board, the
sockets, projects, sprints, accounts, and the lists. What is left, in the order
of what is at stake:

1. The client of the realtime hub: reconnection timers, the polling fallback and
   the badge, composed with `Realtime`'s hub.
2. The legacy delivery by mail and to Teams, whose failures `delivery.py`
   swallows one by one.

Every invariant and every safety property that a passing run checks is stated by
a theorem.

## 9. What the models show of the code

Behaviours that follow from the code, that a reader of it may not expect, and
that the models contain. They are not repaired in the models.

1. **A database error among the side effects of a run sends it back.** The
   `except` at `agent_run_queue.py:347` swallows the exception but the transaction
   is in error; the flush at line 362 raises and the run, marked done and with an
   answer, is pending again at the head of the queue, though the comment at
   176-179 says such failures do not poison the entry.
2. **Two processes may remind twice.** The advisory lock is released before
   `run_loop` commits (`due_soon_scanner.py:243`), so the next process does not
   see the notices and writes them again, though `due_soon_scanner.py:46-47`
   says one per day "regardless of how often the scanner runs". From then on
   `scalar_one_or_none` finds two rows and every pass fails until the window has
   gone by.
3. **The retention lock may outlive a pass.** The commits inside
   `with_advisory_lock` give the connection back, and the unlock runs on the one
   that comes next (`audit_log_retention.py:193`).
4. **A row may be deleted whose only archived line is unreadable.** After a write
   that stopped within a line, the next append continues it
   (`audit_log_archive.py:95-97`).
5. **A ticket's "last touched by" may mix two actors.** A comment loads the row
   without a lock and updates only the columns that differ from what it loaded
   (`tickets.py:1410`). And news may go into a notice that was read in the
   meantime: it is selected as unread and later updated by id
   (`ticket_notifications.py:357`).
6. **Nobody calls `emit_body_mentions`.** It describes itself as the seam of all
   write paths (`people.py:372`), but `add_comment` uses `_MENTION_RE`
   (`tickets.py:83`), which finds `@ann` in `@@ann` as well, and
   `fanout_mentions`. So a comment with `@@ann` makes a `ticket_mention`, no
   `human_review` (the repository's README.md:11), and an @-mentioned agent gets no run from a
   comment; the tests call the helper directly. Its own rules, modelled as
   `EmitMentions`, hold.
7. **Two solutions may be accepted** when two acceptances look for the accepted
   one before either commits (`solutions.py:184`), although
   `docs/AION_BULLETIN_ENGINEERING_GUIDE.md:1607` says that the swap within one
   flush eliminates this race; two pins may exceed the limit
   of three, and a transition, an unclaim or an accepted suggestion writes what
   it decided on an older row. A solution can never be deleted, and a problem
   only when nothing refers to it, its author's watch included. A reply that is
   written while its parent is being removed goes with it: the delete looks for
   replies first (`comments.py:191`), and the foreign key cascades.
8. **A push may precede its commit, or come without one**: the publish task runs
   at the next await of the request (`ticket_notifications.py:51`), which is not
   "after any outer commit/flush completes" (lines 38-39). A full queue
   drops the newest event, where the header of `events.py:4-5` says the oldest
   (`realtime_overflow`). A tab that closes during `broadcast_to_user` changes the set the loop runs over;
   the RuntimeError is caught in `delivery.py:53-56` and the other tabs miss the
   push.
9. **A sprint may be started again by a start that was in flight when it was
   closed**, an active sprint may be deleted by a delete in flight, tickets may be
   added to a closed sprint; a project's PATCH compares versions without a lock.
   Two verifications of one link at once both sign in, to the same account.
10. **Lists**: a row that is pinned while somebody pages is missed, an unpinned
    one may be seen twice; rows whose sort value moves may be missed or seen
    twice; the cursor of the legacy notifications is a time alone, so rows of
    the same time as a page's last row are passed over; offsets without an id
    in their order may miss rows even when nothing changes; a typeahead arm is cut before
    the boosts that `search_typeahead.py:5-12` puts before the cap (line 233;
    `BestFirst` speaks of the rows that came through). The rank of the lowest search hits does not survive the cursor
    (`reading_low_hits`).
11. **The descendants of a ticket that moves keep their old `epic_id`**
    (`tickets.py:879`), and a delete that finds no row only warns
    (`tickets.py:939`).
