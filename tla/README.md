# Latte Work: verification of the session server and its desktop host

Latte Work is a desktop application for coding agents. A React/Tauri host talks over SSH (or to a
local process) to a server daemon, which owns one *session actor* per conversation; the actor owns
the native CLI (Claude Code or Traex), a durable queue of messages, and the record of what the CLI
has been given. This directory holds TLA+ modules of that system, the TLC runs that check them on
small instances, and proofs of the most important facts for every instance.

Paths below are relative to the repository; `server/` abbreviates `crates/latte-work-server/src/`.

## 1. The system

| component | code | state | operations | talks to |
|---|---|---|---|---|
| session actor | `server/runtime.rs` | process, turn, stop, interactions, inputs in the CLI's hands, the message being sent now, launch configurations, reply of Open | one loop: `select!` over controls, CLI lines and deadlines, then a fixed tail | store, queue, adapter, clients |
| durable message queue | `server/message_queue.rs` | rows with status, text revision, order; pause per session | enqueue, take, edit, reorder, clear, forward, consume, reject, quarantine, resume | SQLite, the actor |
| store | `server/store.rs` | sessions and their status, requests, events, projects, provider profiles | begin, set status, recovery at open, history, search | everything in the server |
| agent adapters | `server/agents/claude.rs`, `traex.rs`, `agents.rs` | initialization, turn, inputs not accounted for, pending native requests | translate lines into transitions, encode controls | the CLI, the actor |
| child agents, titles | `server/agents/claude_sessions.rs`, `store.rs`, `runtime.rs` | an index and cursor per child agent, the identities of agents, a title in three places | capture page by page, merge, refresh | native files, the actor, the store |
| agent metadata | the rest of `server/agents/` | caches of models, commands, skills | bounded probes and parsing | the CLI |
| dispatch and admission | `server/main.rs` | the draining lock, the file admission lock, the table of actors | one task per connection and request | clients, all of the server |
| lifecycle and ownership | `server/upgrade.rs`, lifecycle part of the protocol | owners of sessions and terminals (at most 4096), draining flag, one lock and one socket per state directory | prepare upgrade, claim, adopt, close owned; start, drain and replace a daemon | desktop host |
| turn snapshots, undo | `server/task_changes.rs`, `snapshot_storage.rs` | baseline and result of each turn's files | freeze, settle, undo, collect | session actor, files |
| terminals | `server/terminal.rs` | 16 ptys, each with a 1 MiB ring of output | create, read from a cursor, write, resize, close | clients |
| attachments | `server/attachments.rs` | 8 uploads in progress, 2 GiB cache | begin, append, finish, expiry after 10 minutes | clients, Send |
| skills | `server/skills.rs`, `skill_staging.rs`, `skill_worker.rs` | one worker slot, staged files | list, save, delete, within 15 s | files |
| files, Git review, sources | `server/files.rs`, `git_review.rs`, `sources.rs` | none of their own | bounded reads, diffs, writes with a version | files |
| providers | `server/providers.rs`, `crates/latte-work-config` | profiles and encrypted secrets | edit, select | store |
| client bridge | `crates/latte-work-client` | one request in flight | connect, forward lines, start the daemon | daemon, desktop |
| desktop host | `apps/desktop/src-tauri` | connections, open tabs, records of closes not confirmed | request channels, quit, retry of closes | client bridge |
| desktop user interface | `apps/desktop/src` | the workbench's copy of the server's state | optimistic updates, polling | desktop host |

Behaviour that is hard, and what would make each part correct:

* **Session actor.** Every client may send any control at any time, the CLI any line, deadlines may
  fall at any moment, and the daemon may die at every commit. Correct means: a prompt is written at
  most once; what is in the CLI's hands agrees with the database; a turn is started only on a CLI
  that owes nothing; the stored status and the turn agree; each wait (Open, Stop, send now, handed
  off input) ends; a queue that may run does run, and one that may not does not.
* **Queue and store.** The rows survive a crash at any commit; texts are edited while they wait;
  requests are repeated by clients that lost the answer. Correct means: a row leaves the queue once,
  a row in doubt is never replayed, the budget of 16 holds.
* **Adapters.** Results, acknowledgements and questions arrive in any order around the end of a turn.
  Correct means: inputs are accounted for once, and nothing of one turn is taken for the next.
* **Admission, lifecycle and ownership.** Upgrade, undo and archive look at all sessions and then act;
  two desktops race for the same session; coordinators of two builds replace a daemon that others
  start. Correct means: nothing starts between look and act, a resource is closed only by its present
  owner, one daemon has the database, and no request waits for ever.
* **Snapshots and undo.** A turn is compared with a snapshot that may be partial, in a directory that
  an editor, terminals and other agents write. Correct means: history is frozen and never made up,
  undo replaces exactly what the turn left, and an interrupted undo is known to be one.
* **Records.** Conversations, child agents, titles, sources and recent sessions are read in pages and
  refreshed from files while they grow. Correct means: nothing twice, nothing left out, nothing that
  overwrites what is newer.
* **Terminals, attachments, skills, providers.** Budgets, cursors, deadlines, and several writers of
  one file.

The 40 hazards of the code, each at its line with the properties that would catch it, are in
`PROJECT.json` under `hazards`.

## 2. Modules

Five models have runs of their own:

| module | what it is |
|---|---|
| `SessionActor` | actor, queue, recovery and the observable part of the adapters: one session |
| `SessionProgress` | the fairness of the loop and the liveness properties |
| `QueueConsent` | `SessionActor` with a history variable: which messages a bad end has stranded |
| `PromptDelivery` | the abstract specification: what the author of a prompt is promised |
| `SessionDelivery` | `SessionActor` shown to implement `PromptDelivery` by a refinement mapping |
| `HostAdmission` | who may act on a host at once: the two locks, the channels of the actors, undo, archive, upgrade |
| `TurnChanges` | snapshots around a turn, its frozen history, undo, and the collection of objects |
| `ResourceOwnership` | who may close a session or terminal: launches of the desktop App, one host's daemon, the records on disk |
| `MCSessionActor`, `MCSessionDelivery`, `MCHostAdmission`, `MCTurnChanges`, `MCResourceOwnership` | symmetry, and the instances that share a run |

Fifteen smaller ones share no state with each other or with these; `MCServices` runs them together, a
behaviour being one of the module its rigid variable `focus` names:

| module | what it is | code |
|---|---|---|
| `LocalUpgrade` | daemons of a state directory, coordinators and bridges of two builds | `server/upgrade.rs`, `main.rs` |
| `ClaudeAdapter` | inputs, results, agents, streamed texts, titles and skills of a Claude CLI | `server/agents/claude.rs` |
| `TraexAdapter` | requests, responses and notifications of a Traex app-server | `server/agents/traex.rs` |
| `ChildHistory` | the native file of a child agent, its index and a view that pages through it | `claude_sessions.rs`, `store.rs`, `main.rs` |
| `ChildSnapshot` | the bounded snapshot of a child: pure functions over every short log | `claude_sessions.rs`, `store.rs` |
| `Subagents` | one row per agent, whatever identity its messages carry | `store.rs`, `claude.rs` |
| `Timeline` | history pages backwards, poll forwards | `store.rs`, `apps/desktop/src/transcript.ts` |
| `TitleSync` | the title in the store, in the CLI and in its log | `runtime.rs`, `claude_sessions.rs`, `store.rs` |
| `Terminals` | one terminal: ring, cursors, input queue, threads | `server/terminal.rs` |
| `Attachments` | uploads, their files, the limits of the cache | `server/attachments.rs`, `src-tauri/src/paste.rs` |
| `Catalog` | projects, archive, pins and the paging of recent sessions | `store.rs` |
| `Sources` | the index of a task's sources | `store.rs`, `sources.rs` |
| `Providers` | the provider file of the App, its lock, several windows | `crates/latte-work-config` |
| `HostProviders` | the provider catalogue of a daemon | `server/providers.rs` |
| `Skills` | one skill, the workers of two daemons, scratch directories | `skills.rs`, `skill_worker.rs`, `skill_staging.rs` |

| proofs | of |
|---|---|
| `SessionProofs` | the session actor: types; its memory and the queue agree; prompts are written at most once, withdrawn ones never; turns start clean; status, idle flag, rest, wake-ups, configurations and budget; the refinement of `PromptDelivery`, and what it carries over; stranded messages |
| `PromptDeliveryProofs` | what follows from the promise |
| `HostAdmissionProofs` | undo restores alone; archived sessions are at rest; a granted upgrade ends no work; types |
| `TurnChangesProofs` | what the history says, and what undo replaces |
| `OwnershipProofs` | closes are fenced; what is open has an owner, who knows it or has left a record |
| `ServicesProofs` | providers of App and host, daemons, terminals, skills and the two adapters: what their properties rest on |
| `RecordsProofs` | what is recorded and shown: child agents, the snapshot of a child, pages of a conversation, titles |
| `HostProofs` | what a host keeps: attachments, recent sessions, sources; and the types of all small modules |

A definition whose comment says *Fault* is a mutated form of the one after it: putting it in its place
breaks a property of the module.

### How `SessionActor` corresponds to the code

`runtime.rs` runs one loop per session: a `select!`, a branch, and a tail that settles the branch's
result, resolves a message being sent now, drains the queue and publishes `safe_to_close`. The model
cuts an iteration where something else can see a difference, and `pc` is the place:

| `pc` | place in the code |
|---|---|
| `absent`, `down` | no actor for the session; no daemon |
| `select` | the `select!` |
| `handoff` | `mark_forwarded` has committed, the input is about to be written |
| `start` | `Store::begin` has committed, the CLI is about to be spawned or written to |
| `error` | the branch has failed; its `Err` arm |
| `settle` | after the branch: Opens are answered, a bad end pauses the queue |
| `immediate`, `after` | before and after the start of a message sent now |
| `auto`, `queueError` | draining the queue, and its failure |
| `flag` | `safe_to_close` is published, the loop goes round |

Variables keep the code's names where they can. `status`, `accepted`, `row`, `revision`, `rank`,
`position`, `pause` are columns of the database and survive `Crash`; everything else is memory and
does not. `row` says `taken`, `cancelled` and `dispatched` where the code deletes or updates a row.
`phase`, `turnActive`, `stopping`, `ackPending`, `pending` are `Process` and the adapter's turn state:
`opening` and `starting` are an initialization without and with a prompt, `between` is a ready CLI
without a turn. `unacked` are Claude's inputs it has not attributed to a result, or Traex's steers it
has not answered; `steered` are steers it has acknowledged. `sent` counts writes of each prompt and is
history: no guard reads it.

Actions are handlers. Client controls are `Open`, `RenameTitle`, `StopHandedOff`/`StopTurn`/
`StopNothing` (Interrupt), `HandOff`/`SendImmediately` (Dispatch), `Withdraw`, `Edit`, `Reorder`,
`Clear`, `Resume`, `Enqueue`/`SendNow` (Send), `Answer`, `Close`/`CloseIfIdle` (Cancel); `Refuse` is
any of them turned down. CLI lines are the `Native...` actions. Deadlines are `InitTimeout`,
`TurnTimeout`, `HandoffTimeout`, `ImmediateTimeout`. `Fail`, `Settle`, `ResolveImmediate`,
`StartTurn`, `AfterImmediate`, `DrainQueue`, `QueueError`, `Flag`, `WriteHandoff` are the tail.

### Abstractions

* A prompt is its request id. A text is the revision of its row. A launch configuration is known or
  forgotten; whether it differs from that of the running CLI may go either way (`BeginTurn`).
* The queue's byte budget, an unreadable attachment, a foreign directory and other refusals by value
  are `Refuse`, which may always happen. A refused `Cancel` skips the tail in the code; here it passes
  through the tail, which only adds behaviour: the tail is what the next iteration would do.
* Writes to the CLI fail or succeed freely; SQLite does not fail. An SQLite error makes the daemon's
  handler return an error in the middle of a branch; it is not modelled.
* Any pending Traex request (title, the start of a turn that is over) is folded into `renaming`.
  Late attributions outside a turn settle one input per line.
* Events, titles, subagents, usage, background tasks and the texts of messages are left out. Where
  background tasks veto closing a session, `Flag` and `CloseIfIdle` may go either way.

### How `HostAdmission` corresponds to the code

`main.rs` gives every request a task. `op[c]` is the request of a connection and the place of its task:
`asked` (before the read lock of `draining`), `entered` (before that of `file_admission`), `holding`,
`checked` (`control_for` has read the archive flag), `sent` (waits for its actor), `closed`,
`sweeping`, `restoring`, `done`, `refused`. The locks are read off these places. An actor is what
`SessionActor` looks like from here: a channel `chan`, the flag `safe` (`safe_to_close`) that is stored
in the tail of the loop, and whether a turn runs or the queue would start one. `Receive` is a branch of
its `select!`, with the answer and, when the actor ends, the refusal of what its channel still holds.

| code | actions |
|---|---|
| `connection`, `dispatch` | `Ask`, `Enter`, `Hold`, `Answer` |
| `control_for`, `submit`, `queue_action` | `Check`, `Dispatch`, `GiveUp` (after ten seconds) |
| `close`, `archive`, the undo branch of `dispatch` | `Close`, `Archive`, `Closed`, `Unarchive`, `Undo`, `Sweep`, `Restored` |
| `CreateTerminal`, `CloseTerminal`, `PrepareUpgrade` | `Terminal`, `Prepare` |
| `actor` | `Receive`, `TurnEnds`, `TailOfLoop` |

Two windows are open or closed in each behaviour: `resume`, a resumed queue is answered before the
actor stores its flag; `timeout`, a request is given up while it waits in a channel.

### How `TurnChanges` corresponds to the code

A file's version stands for its bytes, by which snapshots are compared: a change of permissions alone is no
entry of a summary. (Undo compares permissions too and may refuse because of them, like `UndoFails`.) Before a turn `Begin`, `List` and `Baseline` are
`TurnSnapshot::capture` (the list of paths is taken first, the files are read after it); `EndTurn`,
`Freeze` and `Settle` are the end of a turn in `runtime.rs` and the statement that stores its changes;
`UndoAsked`, `Verify`, `UndoIntent`, `Restore`, `UndoDone` and `UndoFails` are the undo branch of
`main.rs` with `undo` of `task_changes.rs`, which stores first that the outcome is unknown; `Restart`
repairs turns left open and collects the objects no stored turn names. `Write`, `ChangeRules`,
`ReplaceRoot` and `Terminal` are everybody else. Limits of bytes and files appear as snapshots that are
`partial`.

A turn has a *boundary* between its end in the CLI (`EndTurn`, when the actor hears of it) and the snapshot
taken of it (`List`, `Freeze`). A CLI that holds an input handed off during the turn may begin it on its own
before that: `BeginsNext`, at any time while the turn is open, remembered in the ghost `ahead`. The code
cannot see it. What protects the boundary is `HandOff`: the transaction of `mark_forwarded` that stores the
hand-off also replaces the baseline of the open turn by one that is unavailable (`Overlap`), so the turn is
frozen without files and with nothing to undo. `handed` is `forwarded` of the actor; `InputsSettled` and
`EndTurn` empty it when inputs are consumed or refused or the CLI ends, and while it is not empty no turn
begins and the host is not idle for undo. `NativeTurn` is the turn the actor then hears of (`TurnStarted`); it
has no row, so it has neither history nor undo.

Two overlaps are outside this claim. A follow-up that the CLI begins because background work has ended is a
`NativeTurn` only once the actor is done with the turn before; if the CLI begins it earlier, its files enter
that turn's history. The code then marks it as having had background work and refuses to undo it, unless that
work both began and ended within the turn. And the editor, terminals and other sessions write at any time:
what they wrote during a turn is part of its history, as in the code.

### The smaller modules

Each maps a handler to an action of the same name or says which in a comment; `map` in `PROJECT.json`
names the lines. What is external is modelled by what the code may observe of it: the CLIs
(`ClaudeAdapter`, `TraexAdapter`: *ghost* variables hold what they do, which the adapter never reads),
the file system, the clock, the shell. A Claude CLI may tell its session state or not, may interleave
the messages of its agents and repeat results late. A Traex server answers and notifies in any order,
but tells of the start of a turn before its end or never, and refuses a stop only after it has told
the end of the turn.

### How `ResourceOwnership` corresponds to the code

Each launch of the desktop App is an owner id (`Connections::owner_id`). One host is modelled, local
or remote (`remote`, which never changes). The daemon's state is `owner` (`Lifecycle.owners`), what is `live`, its
`instance` (`server_id`) and the close request that holds the write lock of `draining` (`closing`);
every other request needs a read lock (`Admitted`). The App's state is `owned` (`owned_instances`),
the connection (`link`), each request (`work`) and the phases of `lifecycle::quit`; on disk are the
records `pending-resources/<owner>.json` (`record`). `live` is a session or terminal the daemon would
find open; what happens inside a session is `SessionActor`'s.

| code | actions |
|---|---|
| `host_request`, `claim_resource`, the reopening of sessions in `connect_host` | `Admit`, `Claim`, `Send`, `Withhold`, `Close`, `Disown`, `GiveUp` |
| `connect_host`, `pending_close::drain` | `Connect`, `DropRecord`, `SettleRecord`, `WriteRecord`, `Connected`, `ConnectFails`, `Disconnect` |
| `lifecycle::quit`, `persist`, `stop_owned` | `Quit`, `Record`, `CloseTab`, `Wait`, `Clean`, `Leave` |
| `ClaimResources`, `AdoptResources`, opening and closing in `dispatch` | `ServeClaim`, `ServeAdopt`, `ServeOpen`, `ServeClose` |
| `CloseOwnedResources` | `ServeCleanup`, `ServeSettlement`, `Check`, `CloseHeld`, `CloseFails`, `CleanupDone`, `SettlementDone`, `LateDone` |
| a request whose App is gone; deaths | `ServeLate`, `End`, `Kill`, `Restart` |

A request is sent, handled and answered in steps of its own. The code relies on time in six places,
and `Windows` names which of them an instance leaves open: with a window closed, the slow request is
either handled before its App moves on or never. With all of them closed the narrow instance of
`ownership` shows that the protocol is right; the violation run opens one.

| window | what it admits |
|---|---|
| `late` | a claim, open, close or adoption its App gave up on is handled later |
| `admission` | quitting goes on without the requests in flight, after one second |
| `log` | the record of an exit is not written because a connection attempt holds the lock |
| `answer` | the answer to an adoption is lost |
| `partial` | settling the records fails after some were settled |
| `race` | another App acts on a resource between its claim and its opening, or settles the record of an App that is still quitting |

The cleanup of an exit and the settlement of local records may always be late: they are what the
fence is for. Requests for an older instance of the daemon are answered by the client or the daemon
without effect and are left out. Passing a resource from a closed window to `GiveUp` loses it for
good, as a broken bridge does. Closing and forgetting an owner is one step in `ServeClose`: the
orders in which another claim falls between the two are those of `race`. Limits (4096 owners, 128
records), the draining flag and `PrepareUpgrade` are left out; a corrupt or foreign record is a
reason for `ConnectFails`.

## 3. What is checked

All bounds are CONSTANTs or guards named in the modules, and every state space is finite and explored
completely.

| run | instance | what it shows |
|---|---|---|
| `session_claude` | 2 requests, queue of 2, Claude | types; memory and queue agree; no prompt twice; outside readers of `safe_to_close` are not deceived; a session without an actor is at rest; status and turn agree; no missed wake-up |
| `session_three` | 3 requests, queue of 1, Traex | one in a turn, one waiting or handed off and one arriving: turns start clean; one budget for waiting and handed-off messages |
| `session_progress` | 1 request, fair | send now, Open, Stop and handoff are each resolved |
| `session_delivery` | 2 requests, queue of 2, one edit, Traex | `SessionActor` implements `PromptDelivery`; where steers may be refused: withdrawn never sent, send now owns its row, configurations complete; what a bad end has stranded starts only after the user has looked |
| `host` | 2 sessions, 2 connections, 3 requests of any kind | undo restores alone, archived sessions are at rest, a granted upgrade ends no work (with both windows closed), no request is stuck |
| `turn_changes` | 2 turns, 2 files, 2 versions, 2 moves, a restart, any hand-offs | history can be read, is frozen, makes up no change and has no files once turns may overlap; undo is quiet and exact |
| `ownership` | 2 Apps, 1 session, local and remote; narrow: a restart and 2 late requests, no window; wide: every window but `admission` | what is open has an owner; what an App leaves is recorded; a running App knows what is its own; closes are fenced |
| `services` | the fifteen small modules, see below | their properties, one conjunct each |
| `completed_without_result` | 1 request, Claude | finding 1 |
| `ownership_lost_answer` | 2 Apps, window `answer` | finding 2 |
| `child_history` | 2 records | finding 3 |
| `host_upgrade` | as `host` | finding 4 |

The properties of `services`:

| property | about |
|---|---|
| `DaemonsSound`, `StepsAllowed` | one daemon has the database and serves, coordinators get their own build, only an idle daemon of another build is drained |
| `AdaptersKeepWork`, `StepsAllowed` | a CLI that may be replaced runs nothing; the Traex adapter agrees with its server whenever nothing is under way; turns end by their own result only, inputs leave when named, texts are shown once and whole, an input is given back only if it was not taken |
| `ChildRecordsExact` | the index holds the records before its cursor, once; a snapshot that was normalized stays; an agent is one row |
| `ConversationExact` | a window has every row once and every question that waits; a confirmed name is never replaced by an older one |
| `TerminalStreamsExact` | output is accounted for byte by byte, input is typed in order and nothing after a lost part |
| `HostIndexesExact` | the cache stays within its limits, recent sessions are listed without gap or repetition, a tool call counts once |
| `ProvidersSound`, `HostChangesSound`, `StepsAllowed` | no change of providers is lost; a turn gets a provider it can talk to; a stale change restores no skill and an installation is whole; what was made here goes only when deleted |

**Why the bounds are enough.** The properties of the session speak of one message or of two (one in a
turn or being sent now, one in the queue or handed off), and the actor holds at most one of each kind
except in the queue; two requests give every pair of roles, and `session_three` adds a third that meets a full
queue. One open interaction and a full table are both reached with `MaxPending = 1`: the code distinguishes none, some
and full. Order matters only to `DrainQueue`, which needs two rows. `MaxRevision = 1` lets a row be
edited or refused once between two handoffs.

On a host, one request acts (undo, archive, upgrade) and one interferes; a third lets a session be
prepared by an earlier request whose remains wait in its channel. Two sessions let undo pass one and
come to the other. In `TurnChanges` two turns give an earlier history that must stay and a later one
that is undone; two files give a restored and an unrestored one, and each may be tracked, ignored, a
link or missing. A move is a write by anybody or an Agent put to work in the background; hand-offs and what
the CLI makes of them need no bound. Ownership speaks of one resource and of one App before or after another, and resources
interact only through the lock; `MaxInstances = 2` gives one restart with records of the old daemon,
`MaxLate = 2` two late requests that overtake each other. Three Apps without a restart were checked too
(a run too long to be kept): they agree while the windows are closed, which is proved for any number of
Apps, and with `answer` open they show one thing more, noted under the findings.

The small modules have limits of one to three where the code has 2 to 512, chosen so that the limit is
reached and passed: a ring of two bytes that five are written to, a page of one row, an upload cache of
three places for three uploads of up to two, one pin, two agents. `Timeline` reads every log of up to
six events, `ChildSnapshot` evaluates its functions on every log of up to five records.

**Fairness.** `SessionProgress` assumes only the server's own scheduling. The tail is straight-line
code, so weak fairness. The deadlines are arms of a `select!` in Tokio's random order, each with an
instant that is fixed when it is armed: once it is past, the arm is ready whenever the loop comes
back, and is picked in the end however busy the others are; since it is disabled while a branch runs,
that is strong fairness. Nothing is assumed of clients or of the CLI: it may be silent for ever.
Deadlock is checked in the runs
of the session; elsewhere the system may stop because its bounds are used up. `NeverStuck` of
`HostAdmission` is what liveness would rest on there: while a request is not answered some task other
than a new request or the end of a turn can go on, and each request takes boundedly many steps. It
does not say that the scheduler is fair, which Tokio's locks (first come, first served) are. Every
wait of an App in `ResourceOwnership` ends by a deadline.

### Findings

1. *Completed without a result* (`completed_without_result`). The architecture document promises that
   a completed turn requires the native result and that an interrupted session becomes Unknown and
   never Completed. The status after an answer is computed from `turn_active` alone, so a question of
   background work, answered after a restart, stores Completed.
2. *Adoption not answered* (`ownership_lost_answer`). The daemon has changed the owner when the answer
   to an adoption is lost. If that App quits before it connects again, the old record names the wrong
   owner and the new one lacks the session: the next App drops the record and nobody adopts it.
3. *The end of a child's history* (`child_history`). A page read while a child still writes stores that
   nothing follows. What it writes until its CLI ends is not indexed, since a later read looks at the
   file only if the cursor is new or says that more follows (`main.rs:1043`), and is not marked missing.
4. *Upgrade under a turn that starts* (`host_upgrade`). A resumed queue is answered before the actor
   stores that it is busy, and a request given up after ten seconds leaves its control in the channel:
   in both windows an upgrade is granted and the daemon stops under the turn. `UpgradeSafe` shows that
   nothing else lets it happen. Undo has the same windows and is safe, because it sends each actor a
   close through the same channel (`UndoRestoresAlone`).

The runs are limited to what a document plainly contradicts. Met besides, with no run of their own:

* *Waiting without a question.* An interrupt's acknowledgement that arrives after the interrupted
  result clears interactions opened in between (`runtime.rs:890`) and leaves the session Waiting with
  nothing to answer. `WaitingHasInteraction` of `SessionActor` states it; as an invariant it is violated.
* *Opened after the cleanup.* With the window `admission`, a request that takes more than a second is
  overtaken by the cleanup of an exit and opens a session no owner is left for (`lifecycle.rs:92`):
  `OwnedWhileLive` is violated. With `partial`, `KnownOrRecorded` is: records are rewritten one by one,
  and an error in a later one throws away the list of what was granted (`pending_close.rs:202-231`).
  With `log`, `Recoverable` is: the record of an exit is written under a lock taken with `try_lock`,
  which a connection attempt holds across its requests (`pending_close.rs:54`, `lifecycle.rs:250`).
  With `answer` and three Apps, one gone and two running at once, `KnownOrRecorded` is violated too: the
  App that lost the answer would ask again with the record, but the second finds nothing to adopt and
  drops it.
* *Ignore rules changed within a turn.* The comment at `task_changes.rs:500` says that a file missing
  from a bounded snapshot is never a fabricated deletion. That holds of partial snapshots
  (`NeverFabricated`), but a rule the turn itself changes hides or shows files in a complete one, and
  the history reports them as deleted or added: `NothingFabricated` is violated.
* *An archived session with an actor.* An edit of the queue that read the archive flag before it was
  saved starts an actor afterwards, without a CLI: `ArchivedHasNoActor` is violated, `ArchivedAtRest`
  is proved.
* *More than 100 pins.* Pins of a removed project are not counted and come back with it: `PinCap` of
  `Catalog` is violated (`docs/architecture.md:186-187`, `store.rs:351-358`, `397-412`).
* *One file more than the limit of entries* may be in the attachment cache (`attachments.rs:66`);
  `CacheBounded` states the bound the code keeps.
* *Titles.* A refresh compares the title it read with the present one (`runtime.rs:367`), so a rename
  away and back in between is not noticed; each request of the model has a title of its own, and
  `RenameKept` does not speak of equal ones.
* *Skills.* Between comparing the displayed state and moving the directory the code looks twice;
  `StaleRefused` excuses a move by somebody who is no client of the daemon in between.

## 4. What is proved

Everything below holds for every value of the constants that the named assumptions admit. That of the
session actor is `ConstantsAssumption`: the requests are finite and differ from `NoRequest`, the agent
is one of the two, the bounds are natural numbers and the two capacities are not zero. `AdmissionAssumption`,
`OwnershipAssumption`, `TurnChangesAssumption`, `ProviderAssumption` and, for the small modules,
`ServicesAssumption` say as much of the other models (sets are sets, bounds are numbers, the values for
*none* are no members; a host has finitely many connections). A small module that a theorem speaks of
has its constants from `MCServices`, which declares them; `services.cfg` gives them their values. No number
of messages, sessions, clients, files, Apps or restarts is bounded, nor is the length of a log, a file or a
page. One assumption ties two limits of the code together: an app-server is asked at most `MaxRequests`
things at a time (32, `traex.rs:86`), and `MaxInputs + 3 <= MaxRequests` leaves room for the messages under
way (the queue admits 16) and one request of each other kind that can wait beside them.

| theorem | what is proved | of |
|---|---|---|
| `TypeCorrect` | `Spec => []TypeOK` | `SessionActor` |
| `HandoffsAgree`, `ImmediateKeepsRow` | `HandoffAgreement`, `ImmediateOwnsRow` | |
| `PromptAtMostOnce`, `WithdrawnStaysUnsent` | `AtMostOnce`, `WithdrawnNeverSent` | |
| `TurnsStartClean`, `StatusAgrees`, `IdleCheckIsSound` | `StartClean`, `StatusAgreement`, `IdleCheckSound` | |
| `RestsWithoutActor`, `NoWakeupMissed` | `RestWithoutActor`, `NoMissedWakeup` | |
| `ConfigurationsComplete`, `BudgetHolds` | `ConfigsComplete`, `CapacityBound` | |
| `ActorDelivers` | `Spec => DeliversAsPromised`: it implements `PromptDelivery` | `SessionDelivery` |
| `AuthorsKeepTheirs`, `PlacesStayFinal` | `StillTheAuthors`, `FinalPlaces`, carried over | |
| `StrandedStayPut` | `ConsentSpec => NoStrandedStart` | `QueueConsent` |
| `AuthorsDecide`, `PlacesAreFinal` | `StillTheAuthors`, `FinalPlaces` | `PromptDelivery` |
| `UndoRestoresAlone`, `ArchivedStaysAtRest` | `RestoreAlone`, `ArchivedAtRest` | `HostAdmission` |
| `UpgradeEndsNoWork`, `TypesHold` | `UpgradeSafe`, `TypeOK` | |
| `NobodyIsBlocked` | `SomeoneGoesOn`, the part of `NeverStuck` without ENABLED | |
| `HistoryReadable`, `HistoryTrue`, `HistoryFrozen` | `ObjectsKept`, `NeverFabricated`, `FrozenHistory` | `TurnChanges` |
| `NobodyWorksMeanwhile`, `UndoIsExact` | `QuietRestore`, `UndoExact` | |
| `StaleClosesAreFenced` | `StaleCloseFenced`, every window open | `ResourceOwnership` |
| `OwnersStay`, `NothingIsOrphaned` | `OwnedWhileLive`, `NothingOrphaned`, without `late`, `admission`, `race` | |
| `AppsKnowTheirs`, `OwnIsKnown` | `KnownOrRecorded`, `OwnKnown`, with `log` at most | |
| `LeftoversKept`, `LeftoversAreRecorded` | `Recoverable`, `LeftoversRecorded`, no window open | |
| `ProvidersAreSound` | `ProvidersSound` | `Providers` |
| `DaemonsAreSound` | `DaemonsSound` | `LocalUpgrade` |
| `TerminalsAreExact` | `TerminalStreamsExact` | `Terminals` |
| `HostChangesAreSound` | `HostChangesSound` | `HostProviders`, `Skills` |
| `AdaptersAreSound` | `AdaptersKeepWork` | `ClaudeAdapter`, `TraexAdapter` |
| `StepsAreAllowed` | `StepsAllowed` | these, `LocalUpgrade`, `HostProviders` |
| `ChildRecordsAreExact` | `ChildRecordsExact` | `ChildHistory`, `ChildSnapshot`, `Subagents` |
| `ConversationIsExact` | `ConversationExact` | `Timeline`, `TitleSync` |
| `HostIndexesAreExact` | `HostIndexesExact` | `Attachments`, `Catalog`, `Sources` |
| `TypesAreCorrect` | `TypesCorrect` | the small modules but `ChildSnapshot` |

*Types.* `TypeOK` is inductive. Flags and data are proved apart because no single prover handles both.

*Handoffs and send now.* Neither fact is inductive alone. `SendImmediately` looks at the actor's
memory `forwarded` to decide that nothing is in the CLI's hands, so that the *rows* are clear follows
only from the agreement; and a refused input, which puts a row back into the queue and pauses it,
keeps the message being sent now intact only because no input can be handed off beside it.
`HandoffInv` is both, with `ImmediateOwnsRow` extended to every place but the two at which the row has
just been consumed.

*At most once.* A count of writes is not inductive: one has to say where an unwritten prompt may be.
`SendInv` says that requests in the queue and unknown requests were not written, that an adapter keeps
a prompt only while it initializes for it, that between a commit and its write the prompt is unwritten
and (for a turn) accepted, and that a row in the CLI's hands is not also the prompt of a turn, so that
the two kinds of writes never meet. It needs `HandoffInv` for the message that is sent now.

*The actor's state.* `StateInv` puts beside `SendInv` what the actor remembers of its process
(`ProcessKept`: a process that is gone left nothing behind, a turn runs only in one that was given its
prompt), how the stored status follows the turn at each place of an iteration (`StatusKept`), what the
published flag and a session without an actor stand for (`IdleKept`), that a queue which runs by itself
has every configuration it needs (`ConfigsKept`), and that the loop does not come back to its `select!`
with a message it should have started (`WakeupKept`). Most properties speak of `select` only; the
invariants have to say what holds at the places of the tail, which no outside reader can see.
`StartClean` rests on `ProcessKept` and on the guards of the three places where a turn may begin, and
`CapacityBound` on cardinalities of the two kinds of rows the budget counts.

*The promise.* Under the refinement mapping of `SessionDelivery` a prompt's place is read off the
requests and the queue, and what the CLI may still be given off what is in hand. `HandInv` says where
an unwritten input can be: handed off, and the actor is about to write it, or the daemon died there.
With it every step of `Next` is mapped to a step of `PromptDelivery` or to a stutter. What
`PromptDeliveryProofs` derives from the promise then holds of the actor without another induction.
`StrandedStayPut` has an invariant of its own (`StrandedKept`): at the places where the queue would run,
nothing that waits in it is stranded.

*The fence.* `StaleCloseFenced` looks at the step that closes; the check of the owner is an earlier
step. `FenceInv` says that what a close request has checked is still its owner's: every step that
writes the table of owners needs a read lock of `draining`, which the close request excludes, or is
the close itself. The theorem holds with every window open and for any number of Apps, resources,
restarts and late requests.

*Undo and archive.* `RestoreAlone` looks at one place of one request; what makes it true is spread over
channels. `IInv` of `HostAdmissionProofs` says that the holders of the lock exclude each other
(`Exclusion`), that every message in a channel has a number no other request shares (`Numbered`), that
what an undo or archive waits for is one close of its own in one channel (`Closing`), and that a session
which undo has passed is quiet, or undo still waits for its answer (`Swept`); *quiet* includes that
nothing in the channel would start a turn, which is why given-up requests do no harm. An archived
session is quiet, and no request that read the flag before would wake it (`Retired`). Steps are proved
in three forms: a request moves on (`MovingOn`), puts a message in a channel (`Pushing`), or an actor
takes one out (`Receiving`). Neither the flags nor the number of clients and sessions is bounded.

*Upgrade.* `UInv` adds to `IInv` what an upgrade relies on where no flag is stale and no given-up
request is left: a channel holds messages only of requests that wait for them (`Channels`), a stored
flag tells the truth about its actor (`Flagged`, `Resting`), and once granted, nobody has entered and
no actor has anything to do (`Granted`). The step that grants looks at the entered requests and the
flags; that nothing waits in a channel then follows by counting.

*No circle.* `AnswersDue` says that a request which was sent still has a message of its own in some channel:
an actor that takes or drops a message answers it in the same step. A request that waits for a lock waits
for a holder; no holder waits for a lock, so it waits for an actor; and that actor has a message to take.
`NeverStuck` adds what the prover cannot: that the guards `MayGoOn` and `ActorMayGoOn` are those of the
actions, which TLC checks with ENABLED in every state.

*History and undo.* `HInv` of `TurnChangesProofs` has three layers. Of sessions: the row of a turn in
progress is that of the session's own turn, in the daemon's own life; as long as an input handed off is
held or may have been begun, the open turn has no baseline (`Overlapped`), which is what keeps the files of
a later input out of a frozen turn; and nothing runs while undo restores. Of rows: what they name is stored, lists are cut only where they say so, and while the ignore
rules never changed, a complete pair of snapshots lists every file that exists (`Honest`). Of undo:
files still to do hold the turn's result or a change made after the last check. `FrozenHistory` and
`UndoExact` are then facts about one step.

*Owners, knowledge, records.* Three nested invariants of `OwnershipProofs`, each with the windows it
needs closed. `OwnInv`: whoever has a claim, an opening or an adoption under way, or a cleanup of an
earlier owner waiting, stands where the daemon's table says, so nothing is left open without an owner;
with `late`, `admission` or `race` open a request meets a table that has moved on, and each of them
alone breaks the property. `KnowInv` adds that entries, requests, grants and records of an App agree
with the daemon's table; `answer` and `partial` break it by losing what was granted. `LeftInv` adds what
an App that is quitting or gone has in its record; `log` breaks it. TLC finds the violation for each
window that is required closed, so the hypotheses cannot be weakened.

*Providers.* The inductive invariant says that a window inside the lock works on a copy that is the
file, or has written the file it is about to answer for; what it asked for is applied to nothing older.
Of a host, `LaunchesSound` is inductive because everything that is stored was validated as a whole.

*Daemons.* `UpgradeInv` adds that whoever has a stream has it to a daemon that was started
(`PeersStarted`): without it, the daemon a stream leads to could still get the build of another.

*Terminals.* `OutputInv` splits the bytes before the client's cursor into those it read and those it
was told are missing; after the end was told, the drain is over, so no byte can follow. `InputInv` says
that as long as the writer runs, what was typed, what is being written and what waits are one sequence
of numbers without a gap, all of it whole; a writer that stopped freezes what was typed.

*Skills.* `SkillInv` has three parts. A job holds the slot of its daemon until it ends, also when its
caller has given up (`SlotsHeld`); so two jobs at one time are of two daemons, and whatever one moves
disturbs the other. A scratch directory belongs to its job from the lease on, and one that is being
cleaned up to whoever cleans (`StagesHeld`), so nobody empties a directory that is then moved into
place. What an undisturbed job compared is still there when it moves (`FoundRight`).

*The adapter of Claude.* Whether an agent works is known to the CLI alone; `ClaudeInv` says what the
adapter may conclude from what it was told. A CLI that reports its state says idle only when no agent
works, and of one that does not, silence is believed only while it has never used the Agent tool
(`AgentsKept`). A reader holds a message of an agent exactly as long as it shows it, so whoever has
missed its beginning never takes it up later (`TextsKept`). What ends a turn, an input or a skill was
named in that very turn (`TurnKept`). `ReportStep` and `TextStep` are then facts about one step.

*The adapter of Traex.* `TraexInv` follows the last turn through three places: the request that starts
it, the server that runs it, and the notes that tell of it. Either the adapter is *under* that turn, and
exactly one of *it runs*, *its end is being told* and *its end came before its identity* holds, or
nothing of it is left (`TurnSound`). Every request in flight that names a turn names the last one
(`RequestsSound`), which is why no answer meets a turn that is neither the present one nor the one just
completed, the only way to an error. An input that the server took is confirmed, belongs to a failed
turn, waits for the end of the present one, or has its answer under way (`InputsSound`); one that was
refused was never taken, whatever came between. `AgreesWhenQuiet` is what is left of this when no
request, answer or note is under way. The number of the last turn is a `CHOOSE` in the module;
`TraexCount` shows that it is the only number it could be.

*Folds.* Pages, snapshots and indexes are made by going through a log block by block. The modules write
such a pass as a recursive function on the lengths of its beginnings, and `RecordsProofs` proves of it
what holds of every beginning. That needs induction, which the library offers only for operators; here
it comes from the well-founded order of the natural numbers (`LeastOf`, `GreatestOf`, `NatSetInduction`):
a set of numbers with 0 and with each number its successor is all of them. That the recursive function
exists, which TLA+ leaves to a `CHOOSE`, is proved the same way, function by function.

*The history of a child.* `HistoryKept` says of each reader that its page is what the records between two
cursors come to, and that the first of them is not ahead of the index: so a page that comes late writes
what is there already, or what is next. A cursor carries whether a handback still waits at its record
(`CursorTrue`), without which a report at the edge of a page would be lost or told twice.

*The snapshot of a child.* No state but the log: `NormalizeSettles` is a fact about the folds. `ReportsTold`
says that the report of every confirmed handback a snapshot shows directly follows it; parsing keeps it
block by block, though the window drops the oldest events meanwhile (`ParsedTold`), and normalizing an
older snapshot, which holds no report's second part, comes to it (`NormalizedTold`). What has it is left
alone (`NormalizeKeeps`), so a second pass changes nothing.

*One row per agent.* `RowsKept`: a row carries identities of one agent only, and that agent's row is the
only one that does. A message may name an agent by its tool, by its native identity or by both; merging
the rows it names is safe because they are of one agent, and there is at most one.

*A conversation.* `TimelineKept` says that a window which pages backwards holds what lies between where it
began and where it goes on, and an open one what lies between the two cursors (`WindowTrue`); that events
are named for their newest row and share none (`EventsTrue`); and that nothing after a question the CLI
waits for has ended the wait (`WaitsTrue`), so a page that stops because no question is left below has
shown them all. What one page takes is a fold with the invariant `PageTrue`.

*Titles.* `TitlesKept`: every request has a title of its own, numbered in order (`Numbered`); what is
confirmed is not newer than what the log of the CLI will end with (`LogKept`); the index knows the last
name of what it has scanned (`IndexTrue`); and a refresh that may still be applied, because the title it
started from is the present one, has found none that is older than the confirmed one (`RefreshTrue`).

*Attachments.* `CacheKept` is stronger than the limit: the files together with all *declared* bytes of
uploads in progress, whether written or not, fit the cache. That is what a begin checks and no chunk
changes. Bytes are counted as sets of numbered bytes, so sums are cardinalities.

*Recent sessions.* `ReadTrue`: what was listed is not below the cursor, and what stayed quiet is listed or
below it. A page takes the highest sessions below the cursor; a session that moves leaves the quiet ones.

*Sources.* `IndexTrue`: each count is the number of calls first told with that source, and a source that
has no place though the index has room was never used. The listing that goes through the latest events
once more is a fold that keeps it.

*Types.* Most follow from the invariants above. Beside them `RequestsFew` (messages steered or asked for
are at most `MaxInputs`, other requests at most three) bounds what an app-server is asked, `SlotsBack` says
whose the worker slot is, `RecordsFew` bounds the providers of the App, and `ClaudeTyped` and `HostTyped`
type the sets the two modules keep.

The invariants were checked with TLC before they were proved. Only model-checked are, in `NeverStuck` of
`HostAdmission`, that a guard which holds enables its action, and the liveness properties
`ClientsAnswered` and `HandoffResolved`: the prover has no rules for ENABLED and fairness. The four runs
that expect a violation are TLC's alone, a counterexample being all there is to show.

## 5. Not modelled, and what could follow

* *Git review, files, image previews* (`git_review.rs`, `files.rs`, `image_preview.rs`,
  `questions.rs`): bounded reads, diffs and parsing without a state of their own. A write names the
  version it replaces; the race with other writers is the file system's.
* *Agent metadata* (the rest of `server/agents/`, `agent_environment.rs`, `discovery.rs`): probes and
  parsing; a cache is rebuilt, never relied on.
* *Browser, downloads and source previews* of the desktop host: wrappers of the embedded web view.
* *Snapshot migration* and the schema migrations of the store: one pass at startup.
* *Search, drafts, usage, plans and texts of events*: data no property speaks of.
* *The user interface*: presentation. `Timeline` has the part that pages.
* *Frames, SSH and request channels* between App and daemon: a request is lost, late or answered.
* *SQLite errors* in the middle of a handler: every statement succeeds or the daemon dies.

What could follow: one composition of `SessionActor` with an adapter in place of its `Native...`
actions (the product is too large for TLC at two requests; `IdleCheckSound`, `AgreesWhenQuiet` and
`ReportStep` are the interface between them); several hosts in one record of
`ResourceOwnership`; liveness of the queue under a CLI that answers, which was tried and is too large for
TLC at two requests.
