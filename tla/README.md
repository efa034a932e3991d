# Right Agent in TLA+

Right Agent runs one Telegram bot process per agent. The bot turns messages, timers and webhooks
into invocations of Claude Code inside a sandbox, and a second process, the MCP aggregator, gives
Claude tools that act on the same SQLite database and files. A command line creates, migrates,
backs up and destroys agents while both may be running. These modules model the parts of it in
which several actors share state, check them with TLC on small instances, and prove the central
invariants with TLAPS for all values of the constants. Paths below are relative to `src/crates/`.

## The system

Actors: the bot's tokio tasks (dispatcher, one worker per conversation, cron reconciler, cron
loops and runs, delivery loop, upgrade loop, keepalive, sync, watchers), the MCP aggregator,
Claude processes, the command line, the user, Telegram, remote MCP servers, the memory service,
and the operating system that may end any of them. They share: `data.db` (SQLite, each statement
atomic, transactions rare), lock, token and configuration files in the agent's directory, the
files in the sandbox, and, inside the bot, a read-write lock (`upgrade_lock`), one mutex per
Claude session (`session_locks`), an idle clock, the allowlist, the model cell, cancellation
tokens and channels.

| Component | State | Operations | What must be right |
|---|---|---|---|
| cron specs (`right-agent/src/cron_spec.rs`, `right/src/right_backend.rs`) | `cron_specs` rows, `triggered_at` | create, update (with redirect), delete, trigger, background insert | a redirect reaches queued results; a one-shot spec lives until it has fired |
| cron engine (`bot/src/cron.rs`) | lock files, `cron_runs` rows, loop and task handles | tick, loop wake-up, `execute_job`, shutdown | a job does not run twice at a time, no lock leaks, no spec or answer is lost over crashes and failures |
| cron delivery (`bot/src/cron_delivery.rs`) | attempts, delivered-in-memory set, the row in hand | fetch, deduplicate, classify, relay, send, mark | every result settled once; none sent twice; sessions are not shared |
| Claude upgrade (`bot/src/upgrade.rs`) | write side of `upgrade_lock` | try-lock, install, upgrade | no Claude process while the binary is replaced |
| conversation (`bot/src/telegram/handler.rs`, `worker.rs`, `session.rs`) | worker map, channels, stop and background tokens, session mutexes, `sessions` rows | batch, turn, stop, background, `/new`, `/switch`, reflection, sweep | one Claude process per session; each message is settled; a click reaches its own turn |
| login, keepalive (`bot/src/login.rs`, `keepalive.rs`) | auth flag and slot, token file | instruct, take a token, time out | a login ends, and texts are its own only while it lasts |
| memory (`right-memory/src`) | breaker, status watch, `pending_retains`, alert times | admit, record, publish, enqueue, drain, evict, alert, probe | back-off is kept, nothing leaves the queue unsettled, alerts do not flap |
| MCP servers (`right-mcp/src`, `right/src/aggregator.rs`, `internal_api.rs`) | rows, proxies, scheduler entries, pending authorizations, key prompt | add, set token, remove, reconnect, refresh, authorize | row and scheduler agree; a newer token is not overwritten; a code is used once |
| attachments (`bot/src/telegram/attachments.rs`) | `tmp/inbox`, `tmp/outbox`, albums | download, upload, send, degrade, clean up | each file is sent once or named in the error returned; none is left behind |
| sandbox sync, platform store (`bot/src/sync.rs`, `right-core/src/platform_store.rs`) | content-addressed files, links, manifest | deploy, link, collect, repair `.claude.json` | a link never dangles; what is linked catches up with the host |
| allowlist (`right-agent/src/agent/allowlist.rs`) | `allowlist.yaml`, its copy in memory | allow, deny, command line, watcher | nobody is trusted whom the file never named; memory follows the file; the command line undoes nobody's change |
| configuration watcher, model (`bot/src/config_watcher.rs`, `telegram/model_command.rs`) | baseline, model cell, `agent.yaml` | click, edit, reload, restart | the model used is the file's; a change restarts the bot |
| bot process (`bot/src/lib.rs`, `telegram/dispatch.rs`) | phase, webhook queue, shutdown reason, tasks | start, serve, shut down, die | a shutdown that was asked for ends |
| agent lifecycle (`right/src/main.rs`, `right-agent/src`) | agent directories, sandboxes, backups, process-compose's set | init, restore, backup, migrate, destroy, rebootstrap, up, down, reload | broken off anywhere, a command loses no data and shares no sandbox |

How they interact: worker and command line write `cron_specs`, the engine polls them and posts
results into `cron_runs`, delivery polls those and relays them through Claude on the active
session of the chat, under the same session mutex as the worker's turns; all three hold the read
side of `upgrade_lock` while Claude runs. The bot talks to the aggregator over the internal API
(MCP servers) and shares the retain queue with it. The lifecycle commands work on the directories,
sandboxes and processes underneath all of them.

What is hard in this code: two processes and many tasks write the same rows without transactions;
checks are made before an `await` and used after it; a one-shot spec, its lock file, its row and
its answer are four pieces of state that a crash can separate; commands of the command line are
long sequences of external effects without undo; and nearly every failure is logged and passed
over. `hazards` in `PROJECT.json` lists the places, each with the properties that watch it.

## Modules

| Module | What it is |
|---|---|
| `CronEngine` | specs, reconciler, loops, `execute_job`, lock files, upgrade lock, crash and shutdown |
| `ResultMailbox` | abstract: a result is posted once and settled once, and is settled in the end |
| `CronDelivery` | the delivery loop with its locks, failures and surroundings; implements `ResultMailbox` |
| `SessionLocks` | the concurrent map of session mutexes with its sweep |
| `MessageBook` | abstract: a message is taken once, settled once, and settled in the end |
| `Conversation` | dispatcher, workers, buttons, sessions, login; uses `SessionLocks`, implements `MessageBook` |
| `Memory` | breaker, status, retain queue, drain and alerts of two processes |
| `McpDiscovery` | discovery and registration as functions of what the network answers |
| `McpServers` | rows, proxies, scheduler, reconnect, refresh, authorization; extends `McpDiscovery` |
| `Attachments` | inbound and outbound files |
| `AgentLifecycle` | the commands that make, move and end agents |
| `PlatformStore`, `Allowlist`, `ModelSetting` | three parts of the bot, each a specification of its own |
| `BotProcess` | the life of the bot process; composes the three |
| `MC...` | instances for TLC; the `.cfg` files hold the bounds |
| `...Proofs` | inductive invariants and theorems, checked by TLAPS |

In all of them a step reaches from one point where somebody else can matter to the next: an
`await`, a lock, an SQL statement, a file operation. Each SQL statement and file operation is
atomic unless said otherwise. `PROJECT.json` maps each definition to the lines it stands for.

### CronEngine

State. `specs`, `triggered`, `lock` and `runs` are the rows and files that survive a crash; `due`
is the clock of `run_at` specs; `task` has one record per spawned `execute_job`, with the spec it
was cloned from (`snap`), the place it was spawned at (`via`) and how far it is (`stage`); `loop`
is the reconciler's `handles`, an ended loop included; `upgrading` and `phase` are the upgrade
lock and `run_cron_task`. A delivered row is forgotten: `MarkDelivered` stands for `CronDelivery`.

Steps. `execute_job` is `CheckLock`, then `Begin` (past the upgrade lock: lock file and row), then
one of `LaunchFails`, `LogDirFails`, `WaitFails` and `Exit` (status and unlock), then
`PersistOutput` or `PersistFailure`; after a one-shot fire `TaskDeletes`, and for a one-shot cron
job `LoopDeletes`. `ReconcileJob` is one tick for one job: overdue and immediate fires, aborted
and new loops, and the trigger. `Restart` is a crash at any moment as well as the exit after a
shutdown.

Abstractions. Prompt, budget and TTL of a spec are folded into its kind and target, since
`PartialEq` compares them all alike. `delete_spec` (row, then lock file) and one tick (synchronous
code) are single steps. `PromptStart` says that a spawned task gets to its lock file, and a
finished one to its delete, within the five seconds between two ticks; runs that do not need it
set it to FALSE. The legacy `@immediate` migration, log retention, usage rows and attachment
downloads touch nothing that the model has.

Ghosts, read by no guard: `breach` (which of the lock's three weaknesses has shown in a job),
`leftover` (lock files of a dead process), `fired` (the spec as it stands has begun a run),
`scheduled` (jobs whose spec as it stands has begun a run at its own time, not by a trigger),
`outdated` (tasks that were spawned for a spec which was changed since), `owed` (a user sent to
the background waits for an answer).

### CronDelivery and ResultMailbox

`d` is where the loop stands and what it holds. One step per await or statement: `Fetch`,
`SelectNewest`, `Supersede`, then `Skip`, `Refuse` or `LookUpSession`, `PassUpgrade`,
`LockSession`, `Relay`, `Send`, and `Conclude` or `Retry`. `StartRun`, `FinishRun` and `Publish`
are what `CronEngine` does to a row: `finished_at` comes before `notify_json`, so that a result
may appear in front of one that was selected already. A worker's turn is the interval in which it
holds its session's mutex. The mutex is first come, first served (tokio), which is why no new turn
starts on a session that delivery waits for.

`Box` in `CronDelivery` maps a row to "empty" until it is published, "pending" until it has an
outcome, and then to the outcome. `SupersedeOthers(r)` is why the refinement says something about
deduplication: a result may be dropped only for the sake of another pending one of the same job.

### SessionLocks, Conversation and MessageBook

`Conversation` is one direct chat. `handler` is the dispatcher, which handles one update at a time
and waits in `send` when a channel is full; `map` is the worker map's sender; `workers` has a
record per worker task: its channel, batch, place, session, and how its Claude process ended;
`sessions` is the table and `known` what Claude has created on its side. `/new` and `/switch`
change `sessions` and drop the sender, so that an old worker finishes beside a new one. `stop` and
`bg` are the entries that the two buttons find; `delivery`, `upgrading`, `login` and the sweep are
the other actors on the same locks. The release profile has `panic = "abort"`: a panic ends the
process (`Die`), leaves Claude children running, and makes the respawn after a `SendError` in
`handler.rs` unreachable.

The output of a turn is read in a `select!` whose branch for cancellation may be taken although
the result has been read: the turn then counts as stopped (the outcome "overtaken"), its result is
discarded, and since there is a result a Background click is not honoured. `ClicksAreForTheirTurn`
therefore says that an accepted click sends its turn to the background unless it has a result, not
that it is never taken for a Stop.

`SessionLocks` is used with `INSTANCE`: the conversation's steps are, for the map and its mutexes,
`Fetch`, `Acquire`, `Release`, `Sweep` and `Forget` of that module. A mutex is an object of its
own, so that two mutexes of one session, the danger of a sweep, can be expressed. `MessageBook` is
what the user sees: new, taken, settled (answered, reported, or continued in the background); a
death settles the messages the process held as lost, since nothing will answer them.

Left out: group chats and mention rules, the text of prompts and replies, and the debounce time.

### Memory

One call is `Admit`, `Answer`, `ReadBreaker` and `PublishStatus`, with `Resume` for a retry, which
are separate critical sections; calls of one process interleave between them, and bot and
aggregator have a breaker each but share `pending_retains`. `Drainer` and `Prober` are calls of
the bot. The enqueue is one transaction with the eviction of the oldest row; a database error
there is only logged (`EnqueueFails`). An item may be in `stored` although its call was reported
failed, as for a time-out. The aggregator never probes: its AuthFailed lasts until it restarts.
The turns of the bot make the same calls as the tools of the aggregator and are not a further
actor of the instance. An alert is three steps of `watch`: the look at the mark (`WatchStatus`),
the messages to the chats (`SendAlert`), and the mark (`RecordAlert`), which may fail with a log
line only. The ghost `sentAt` is when the last alert went out that the next has to keep its
distance from: it is cleared by a recovery, by the restart that forgets an old mark, and when the
mark of an alert was never made.

### McpDiscovery and McpServers

Discovery (`DiscoverAs`, `Registration`, the detection of key headers) is a function of the web's
answers; assumptions of the module compare it with a reference over every small web when TLC
starts. `McpServers` has the `rows`, the `proxies` with the `backends` made for them, the
scheduler's `entries`, `timers` and `inbox`, and `tasks`, what the aggregator has in progress,
each an await away from its next step. The authorization server rotates refresh tokens, and
honours the newest. The scheduler, and the removal of a server that could not be added, go on when
their write to the row has failed (`Saves`); the ghost `unsaved` has the names whose row missed
the last of these writes, and `AgreedWhenQuiet` is about the others. There is no clock: a timer
may fire whenever its entry stands. Besides the bounds, the assumption says that the names of
servers are finitely many, for their entries are counted against the inbox, and that none of them
is a null value.

### AgentLifecycle

`dir`, `boxes` (sandboxes), `backups`, `tokens`, `conf` and `procs` are files, sandboxes and
process-compose's set; `cmd` is the command under way, one place per external effect, and every
place has `Interrupted`. A sandbox holds an amount of `work`, so that losing some shows. Bots
start, sync back and die beside the command, and the aggregator authenticates by the token map it
has read. `max_restarts` of process-compose is external and not counted. Minutes advance, because
sandbox and backup names hold the minute. A `bootstrap_done` in the aggregator is `DoneBegins`
(the sandbox of the agent is resolved and connected to), `DoneChecks` (the identity files are
there) and `DoneRemoves`, with `agg.call` for what it has found: no command waits for it. (Its
three checks are one step, for the three files come and go together.) The ghost `rewound` has the
agents that were rebootstrapped, until an identity comes anew into a sandbox they name: after a
restore that was broken off two agents may name the same, and the turn of one introduces the
other. The ghost `outrun` has those that were rebootstrapped while a `bootstrap_done` for them had
found the old identity, or was about to look where it still is: that call takes the new
BOOTSTRAP.md away.

### Attachments

A job is a message to fetch or an answer to send. `Partition` divides an answer into albums of
what Telegram allows (`GroupMax`) and single sends; each file is then fetched, measured and sent,
or given up; a send whose answer is lost counts as failed though it arrived. What failed is in the
error that `send_attachments` returns. The worker of a session tells it in the chat, the delivery
of cron results only writes it to the log; both are a worker here, and the properties are about
the error. Host names are `tmp/outbox/<base name>` and `{kind}_{message_id}_{idx}`, shared by all
conversations of the agent. `SendsAt` is what stands at one place of the answer: a single file,
the sends of a group at its first member, or nothing; `Members` lists a group in the answer's
order. Captions are taken to be within Telegram's length limit; a video note and a sticker are
sent without theirs. The assumption says that answers are sequences that are not empty (without
files nothing is sent) and that kinds are those of `AttachmentKind`.

### PlatformStore, Allowlist, ModelSetting, BotProcess

`PlatformStore` has a step per command in the sandbox; the host's files change under it, and
writing one truncates it first. The upload that repairs `.claude.json` writes it in place and may
be cut off like any other, which leaves no JSON (`torn`); a cycle that reads such a file fails,
and one that reads something other than an object (`odd`) passes it over. `Allowlist` has four
steps per command of a chat (trust, derive, write, swap) and two for the watcher and the command
line. `ModelSetting` has the click (file, then cell), the edit of the file, and the watcher's read
and store against its baseline. `StartWatcher` is the baseline read and the registration of the
watch in one step: an edit between them is lost, as is one between the parse and the baseline, a
race that is conceded anyway. The ghost `stale` of `Allowlist` says that memory was left behind
the file with no event to come.

`BotProcess` instantiates the three on its own variables and says when each may step: `run_async`
loads, binds, registers the webhook, makes the first sync (whose error ends the bot, as that of a
later cycle does not), and serves; then the shutdown drains
the dispatcher and joins the tasks. `Die` cuts it off anywhere. process-compose restarts it unless
it ended well. Updates that the webhook has acknowledged are lost with the process.

## What is checked

| Run | Question | Bounds |
|---|---|---|
| `cron_full` | runs of a job are kept apart except in the three ways named; the upgrade is excluded; no path leaks a lock file; a one-shot cron spec fires once per process | 1 job, 2 tasks, 2 rows, 2 edits, 1 upgrade, 1 crash, all ten failures |
| `cron_once` | a `run_at` spec is deleted only after it began a run, and is deleted in the end | 1 create, triggers, 1 upgrade, 1 crash, every failure but those of lock file, row and deletion |
| `cron_answered` | a background turn is answered in the end over two crashes | 1 background spec, 2 crashes |
| `delivery_safety` | nothing is sent twice but after a death between send and mark; a relay shares its session with no turn, its binary with no upgrade | 2 runs of a job, 2 sessions, 2 outside acts, 1 database failure, 1 crash, relays and sends that fail at will |
| `delivery_mailbox` | the loop implements `ResultMailbox`, liveness included | 3 runs of 2 jobs, 1 crash, relays that fail at will |
| `conversation_safety` | one Claude process per session, one worker until a command, clicks reach the turn they are for, the active session is the turn's | 2 messages, the second with a text, 2 workers, 3 sessions, 2 mutexes, a channel of 1, every failure, 2 of: clicks, `/new <name>`, `/switch`, delivery, upgrade, sweep, death |
| `conversation_live` | the conversation implements `MessageBook`, liveness included; a login ends | the same with plain `/new` and 1 event |
| `memory` | openings are bounded and never cut short by late answers, rows leave the queue settled, alerts are paced as far as their marks were made, what the tool calls queued was given to the queue | 2 items, 2 tool calls of the aggregator, of which one recalls and retries once, drain and probe of the bot, threshold 1, queue of 1, 2 failures, 1 death |
| `mcp` | row and scheduler agree when nothing is under way, up to a failed write, a prompt stays reachable, a code is exchanged once | 1 server, 2 grants, 2 refreshes, 2 commands, an inbox of 1, 2 attempts, 1 restart |
| `lifecycle` | a migration never leaves `agent.yaml` naming a sandbox without the data, only a restore broken off shares a sandbox, a rebootstrapped agent stays so | 2 agents, 4 commands, 4 secrets, 2 minutes, 1 piece of work; minutes as below |
| `attachments` | each file of an answer is sent once or named in the error, with its caption if its kind takes one, albums are ones Telegram takes, no fetched file is left behind | 2 workers, 3 jobs, answers of up to 3 files, albums of 2, 1 death |
| `botprocess` | links resolve and files are whole, the allowlist is written first and memory follows it, a command line changes one entry, the model is the file's, a shutdown ends, the sandbox catches up | 1 file and 1 skill of two versions, 3 users, 1 group, 1 command line, 2 chats with a menu, 1 task, 2 events |

Why the bounds are enough. One cron job: jobs share nothing but the upgrade lock, and in delivery
the queue, where two are used. Two tasks, workers, clickers or tools show every pairwise race; a
third would repeat one. Two rows are enough since rows that no query selects and no task writes
are reused. Two mutexes are what a sweep between two users of a session needs, three sessions what
a new one, a named one and a switch need. A channel, an inbox and a queue of one fill at once, so
that their full cases happen in every order. Four lifecycle commands reach a backup, a restore
from it, and a migration or destruction of either. `right init` and `right agent init` take two
secrets each, so that four secrets make two agents, or one again over the sandbox it had; a third
such command in a behaviour stops at its codegen. An action constraint (`MinutesThatMatter`, of
the MC module; the specification and the proofs do without it) lets a minute pass only ahead of
a command and once something is named after the minute before: names are all that minutes are
for, so that any other behaviour is one of these with its minutes moved or renamed. Events are
bounded together, which lets any two of them meet.

What the weaker forms concede. `OverlapOnlyByBreach` names the three ways two runs of a job can
overlap: a check that was made before the wait for an upgrade (`window`), a run that outlives the
TTL of its lock (`ttl`), and a lock file that was deleted with its spec under the run (`delete`).
`SentTwiceOnlyAfterDeath` allows the duplicate that at-least-once delivery implies.
`SharedOnlyHalfway` allows the sandbox name that a restore broken off leaves copied.
`CellIsTheFiles` excepts three races (below). `MemoryFollowsFile` excepts two orders: a chat
command that swaps its list in after the watcher has brought a later one, and a change of the file
between its first reading and the watch. `AlertsArePaced` excepts an alert whose mark was never
made, `AgreedWhenQuiet` a server whose row missed a write, and both sides may agree on a token
that is not the newest. `OnboardingRewound` excepts BOOTSTRAP.md after a `bootstrap_done` that
outran the rebootstrap, `SettlesWithHost` a `.claude.json` that is no JSON or no object.
`KeepsBook` lets a death settle as lost what the process held. `FilesWhole` is of files: a
directory of skills whose upload was cut off is taken as present by every later cycle.

Fairness. `CronEngine`: ticks, timers and spawned tasks go on, locks age, an upgrade ends (its ssh
calls have time-outs), a stopped bot is started again. That a Claude process ends (`RunEnds`) is
an assumption about Claude, because its output is read without a deadline. No fairness is assumed
of clients, crashes or shutdown. `CronDelivery`: the loop goes on (the relay has a deadline of two
minutes), turns and upgrades end, and the chat becomes idle again and again; runs owe nothing.
`Conversation`: tasks that can go on do so, since the runtime polls them; turn, relay, reflection
and login have deadlines, an upgrade has time-outs. Nothing is asked of the user, of Claude, or of
the schedule of deliveries. `BotProcess`: the same of each task, commands in the sandbox return, a
begun write of a file finishes, a first sync that cannot read `.claude.json` fails,
process-compose starts the bot again; a task of the bot ends at shutdown because its Claude ends
or is killed. All weak; nothing needs strong fairness. The other modules claim safety only.

Deadlock is not checked in the runs whose bounds let everything come to rest.

## What is proved

Each module's assumptions (named `...Assumption`) say only that constants have their kinds, that
null values lie outside the sets they stand beside, and that bounds are ordered as in the code.
From them, for any numbers of everything, every invariant that a run checks is proved, and so are
the action properties but for the ones named at the end. `PROJECT.json` lists the theorems.

- `CronEngineProofs`: `TypeCorrect`, `LockExcludes`, `LockDiscipline`, `UpgradeExcluded`,
  `LockOwned`. None of the invariants is inductive alone. That two runs do not overlap needs that
  at most one task is past its lock check, which needs that whoever runs holds a fresh lock, all
  up to a breach of the job; that the upgrade is excluded and that a lock file has an owner need
  that a task which is not idle has a job. `IInv` is their conjunction. Most steps either leave
  the tasks' progress alone or only let a task fall back, and two lemmas (steps that are quiet,
  steps that are benign) settle those; `CheckLock`, `Begin` and the deletions have proofs of their
  own. `OneShotCronOnce` adds that a one-shot cron spec fires once per process (`OnceInv`): its
  loop awaits the one task it has spawned and goes on to delete the spec, and the reconciler makes
  no other loop while the spec is the same.
- `CronDeliveryProofs`: `TypeCorrect`, `SentOnce`, `UpgradeExcluded`, `SessionExcluded` and
  `ImplementsMailbox`, the safety part of the refinement. `SentOnce` rests on `SentAccounted` (a
  result that was sent is delivered, being concluded, remembered in memory, or its process has
  died) and on `LoopInv` (what the loop holds at each place). `ImplementsMailbox` needs that the
  selected row is still pending when the others are superseded.
- `ConversationProofs`: `LocksTyped` and `LocksExclude` of `SessionLocks`: two holders of one
  session are one, in spite of the sweep. That needs `ClonesAreListed`: the mutex of which anybody
  has a clone is the one in the map for that session. `UsesSessionLocks` says that every step of
  the conversation is one of `SessionLocks` or a stutter; `ProcessesExclude` follows with
  `TurnInv` and `RelayInv` (a task at a place where Claude runs holds its session's mutex), and
  `UpgradeExcludesProcesses` from `UpgradeGuard`, which no run repeats. `OneWorkerAtATime`,
  `TurnsAreStoppable`, `ClicksReachTheirTurn` and `SessionsAreKept` rest on `ButtonsInv` (while no
  command came: which tasks live, and what the entry of each button has to do with their turns)
  and `SessionInv` (the same for the session). `ImplementsBook` is the safety part of the
  refinement of `MessageBook`; `PlacesInv` says that a message under way is in one place, with the
  handler, in one channel or in one batch, and that nobody sends to a task that is gone.
- `MemoryProofs`: `TypeCorrect`, `BreakersSound`, `LateAnswersHarmless`, `QueueLosesNothing`,
  `ToolTellsTheTruth`, `AlertsPaced`. `BreakersSound` is inductive with the types; the tool's
  truth needs that the aggregator, which never probes, keeps a status of AuthFailed, and that two
  calls never retain one payload; the pacing needs that the last alert that counts is the one
  whose mark stands, and that a mark made late is no older than its alert (`AlertInv`).
- `BotProcessProofs`: of the parts, `FileFirst` and `CliKeepsOthers` (what a command holds between
  write and swap has been written, and while the file lock is held the file is what its holder
  read), `MemoryFollowsList` (memory is the file's, or the watcher has an event or a list to swap,
  which is the file's if no event is pending, or an order that is conceded has happened) and
  `ModelFollowsFile` (either the cell is the file's value or somebody is about to make it so).
  `UsesModelSetting`, `UsesAllowlist` and `UsesPlatformStore` say that the whole bot, with starts,
  shutdowns and deaths, makes only steps of these parts or stutters; with them `BotFollowsFile`,
  `BotTrustsTheWritten`, `BotFollowsList`, `BotKeepsOthers`, `LinksAlwaysResolve` and
  `FilesAreWhole` hold of the composed process. The last two need `CycleInv`: at each place of a
  sync cycle, what it has linked is what its manifest says, and what it is about to link is there.
- `McpServersProofs`: `ServersAreTyped`, `ServersAgree`, `PromptsAreReachable` and
  `CodesAreExchangedOnce`. `ServersAgree` needs that nobody yet knows the proxy which a task
  is adding (`OwnProxies`), that one refresh at a time is under way, of the entry as it is
  (`OneRefresh`), and that while row and entry of a server differ, a task or a message that makes
  them agree is under way, or the row missed its last write (`AgreementInv`).
- `AgentLifecycleProofs`: `LifecycleCorrect`, `SandboxesAreOwn`, `RewoundStays` and
  `MigrationIsSafe`. A command of the command line is a long sequence of effects, and what makes
  each of them safe is what the command has established before: `CommandKnows` says it place by
  place, and that it stays so though bots start, work and die beside the command. With it
  `OwnSandbox`, `MigrationSafe` and `RewoundInv` are inductive. `RewoundStays` adds what becomes
  of BOOTSTRAP.md (`Onboarding`): unless its agent was outrun, it stands, and no call has found,
  or will find, an identity to remove it for.
- `AttachmentsProofs`: `FilesAreAccounted`, `AlbumsAreAccepted` and `FilesAreInHands`, for answers
  of any length, from `JobsAreSound`: at each step of a job its worker has what the next step
  takes, and what arrived, what is still to be sent and what failed are together the answer. That
  it is so at the beginning is a fact about data: that `Partition` neither loses nor doubles a
  file. The library's induction theorems take an operator, which no prover here can instantiate;
  the lemma `Induction` takes a set instead, and is proved from the well-foundedness of `<` by a
  least counterexample. On it rest what `FlattenSeq` returns (its recursive function is the only
  one with that equation), that the chunks of a group are the group, and that a group has one
  increasing order.

Only model-checked: all liveness, since TLAPS 1.4.5 has neither fairness nor ENABLED
(`TickKindConsumed`, `BackgroundAnswered`, `LoginEnds`, `ShutdownEnds`, `SettlesWithHost`, and the
liveness parts of `KeepsMailbox` and `KeepsBook`); and `EngineDeletesOnlyFired`, which is a claim
about the instance of its run (one creation, prompt tasks, no failure of lock file or deletion)
and not about all constants.

## Where the code says one thing and does another

Met while modelling, and modelled as the code does it:

- After an upgrade two tasks of a job can pass the lock check and run side by side
  (`cron.rs:342`), against the comments at `cron.rs:1094` and `cron.rs:1379`.
- The lock is removed before a failed run is reflected on (`cron.rs:675`): a one-shot spec can
  fire a second time, against "fires once then auto-deletes." (`cron_spec.rs:60`).
- A spec edited while its run is under way is deleted, unfired, when the run ends
  (`cron.rs:1142`), against "Delete a one-shot spec after it has fired." (`cron.rs:1076`).
- A failed `child.wait` of a background run leaves neither spec nor notification (`cron.rs:610`),
  against `ARCHITECTURE.md:178`.
- A redirect between spawn and row does not reach the run (`cron.rs:382`, `cron_spec.rs:588`).
- A result published between the SELECT and the UPDATE of `deduplicate_job` is superseded by an
  older one (`cron_delivery.rs:99`, against `right-codegen/skills/rightcron/SKILL.md:223`), and a
  row that was sent but cannot be marked holds back all later ones (`cron_delivery.rs:308`).
- A click on `/model` and the watcher do not always converge, against "last-write-wins converges
  race-free" (`model_command.rs:209`, `config_watcher.rs:148`): two overlapping clicks may store
  in the other order than they wrote; an edit may undo a click before the watcher has read it; an
  edit may fall between the parse at the start and the watcher's baseline.
- A Background click is not honoured for a turn whose result was read, because "a turn that
  already produced a valid reply" is to deliver it (`worker.rs:2171`); but when the `select!` has
  taken the branch for cancellation, the same turn returns without the reply, as after a Stop
  (`worker.rs:2252`). And a click is honoured, and the result dropped, where a result was read but
  the exit code is not 0 or the deadline struck, of which the comment says "no valid reply to
  deliver" (`worker.rs:183`).
- A chat command writes a list derived from memory, with no read under the lock
  (`allowlist_commands.rs:161`), against "Held during read-modify-write" (`allowlist.rs:281`): it
  can undo what another chat or the command line has just written. And it swaps its list into
  memory after the write was awaited (`allowlist_commands.rs:85`), possibly after the watcher has
  brought a later one, which nothing puts right, against "Whenever the file changes, reparse and
  swap" (`allowlist.rs:415`).
- A repair of `.claude.json` that is cut off in its upload leaves a file that cannot be parsed:
  every later cycle fails on it (`sync.rs:225`), and so does the next start of the bot, whose
  first sync must succeed (`lib.rs:756`).
- "24h dedup" (`memory_alerts.rs:2`) does not hold of an alert that was sent and not recorded,
  because the bot died in between (`memory_alerts.rs:118`) or the write failed, which is logged.
- The refresh scheduler goes on when it could not write its token (`refresh.rs:131`,
  `refresh.rs:199`): until the next write, a restart takes up an older one. And a reconnect whose
  request is in flight is not cancelled and may write its older token after a newer one, against
  "it does not overwrite the fresh token" (`reconnect.rs:4`).
- A `bootstrap_done` awaits three checks and then removes BOOTSTRAP.md (`right_backend.rs:396`),
  in a process that a rebootstrap does not stop: it may remove the one just written
  (`rebootstrap.rs:136`), and the onboarding is lost.
- A rebootstrap does not wait for the bot to have stopped (`main.rs:3404`), as its design requires
  (`docs/superpowers/specs/2026-04-29-rebootstrap-cmd-design.md:82`, "poll until stopped"). The
  model takes the bot to be gone when process-compose has answered.
- An album that is given up is named in the error of `send_attachments`, and the worker of a
  session tells it in the chat (`worker.rs:1026`), against "the user sees no message for this
  group" (`attachments.rs:1149`); of the delivery of cron results the comment is true
  (`cron_delivery.rs:678`).
- The captions of video notes and stickers are dropped (`attachments.rs:1112`).
- `handle_reload` of the aggregator passes over agents it knows (`internal_api.rs:616`), against
  `docs/superpowers/specs/2026-04-29-init-pc-reload-design.md:151`; agents it adds have no refresh
  scheduler.
- The edit of the sandbox mode drops the whole `sandbox:` block, its `name` included
  (`wizard.rs:1308`).

Promises that are weaker than one may expect, without a text that says otherwise: a trigger during
a run is lost (the code says so); the task of a one-shot cron job is not awaited at shutdown; a
row is marked delivered though both sends failed; the idle check is not repeated after the lock
waits; a redirect during a relay changes the row and not the message; a session may be resumed
that Claude never created; a reflection takes no session mutex; `right down` leaves `state.json`,
after which a rebootstrap is refused; a migration within the minute of the previous one would
delete the sandbox it migrates to; a change of configuration while the bot starts is missed; the
shutdown waits for keepalive without a deadline; a failed upload of an inbound file leaves its
temporary copy; `update_agent_yaml_memory` is two writes; two trusted users can deny each other; a
retain that timed out may be stored twice.

## Not modelled

- Database migrations (each a transaction, at start), usage accounting (append-only, read by no
  decision) and the terminal interface.
- Commands that only read (`/list`, `/cron`, `/usage`, `/doctor`), Markdown to HTML, prompts and
  argument lists, the parsing of Claude's stream, and speech to text beyond its failure.
- The HTTP of Hindsight, TLS, gRPC and process groups of OpenShell, the tunnel to the webhook, the
  forwarding of tool calls in the aggregator. They appear as calls that succeed or fail.
- What code generation writes, apart from secrets, token map, order and truncation; permission
  bits in the platform store.
- Menus of the wizard, tunnel setup, the doctor's checks, and agents without a sandbox (`mode:
  none`).

`PROJECT.json` has the status and reason of each component.
