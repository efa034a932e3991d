----------------------------- MODULE BotProcess -----------------------------
(***************************************************************************)
(* The bot as a process (run_async in bot/lib.rs, run_telegram in          *)
(* bot/telegram/dispatch.rs): its start up to the first sync of the        *)
(* sandbox, the time in which it serves Telegram, and its shutdown; with   *)
(* the platform store that its sync cycles deploy to and the allowlist     *)
(* that the commands it serves change.                                     *)
(*                                                                         *)
(* process-compose starts the bot again when it failed or asked for it     *)
(* (exit code 2), and not when it ended well.  Telegram holds updates back *)
(* until the webhook takes them; from then on they are in the bot's memory *)
(* only.  The tasks of run_async beside the sync are a set of names.  The  *)
(* model that Claude is started with is a third part, ModelSetting.        *)
(***************************************************************************)
EXTENDS Naturals, Sequences

CONSTANTS
  Files, Dirs, Parts, Versions, Torn, Missing,
  Users, Groups, Clis, Legacy, NoFile,
  ChatRequests, \* what trusted users ask for in chats
  CliRequests,  \* what is asked for on the command line
  Models, Clickers, NoModel,
  Tasks,      \* cron, delivery, upgrade and keepalive
  MaxEvents   \* bound: what the outside does, and failures

VARIABLES
  host, plain, store, link, claude, cycle,
  disk, lock, memory, loading, watcher, changed, command, cli, written, stale,
  yaml, cell, last, dirty, found, click, fresh, raced,
  phase,      \* where run_async is
  queue,      \* updates the webhook has taken, not yet dispatched
  hooked,     \* Telegram knows the webhook
  stop,       \* what has asked for the shutdown
  restart,    \* the exit code will not be 0
  tasks,      \* tasks that still run
  events

P == INSTANCE PlatformStore
A == INSTANCE Allowlist
M == INSTANCE ModelSetting

ASSUME PartsAssumption ==
  /\ P!PlatformAssumption /\ A!AllowlistAssumption /\ M!ModelAssumption
  /\ ChatRequests \subseteq A!Requests
  /\ CliRequests \subseteq [op : {"add", "remove"}, id : A!Ids]

platform  == <<host, plain, store, link, claude, cycle>>
allowlist == <<disk, lock, memory, loading, watcher, changed, command, cli, written, stale>>
process   == <<phase, queue, hooked, stop, restart, tasks>>
setting   == <<yaml, cell, last, dirty, found, click, fresh, raced>>
vars == <<platform, allowlist, setting, process, events>>

-----------------------------------------------------------------------------
Up     == phase \notin {"down", "off"}
Bound  == phase \in {"bound", "syncing", "synced", "serving", "draining", "joining"}

\* The shutdown token is cancelled by the configuration watcher, or once
\* run_telegram has returned.
Cancelled == stop = "config" \/ phase = "joining"

Event  == events < MaxEvents /\ events' = events + 1
NoEvent == UNCHANGED events

Init ==
  /\ P!Init /\ A!Init /\ M!Init
  /\ phase = "down" /\ queue = <<>> /\ hooked = FALSE
  /\ stop = "none" /\ restart = FALSE /\ tasks = {} /\ events = 0

Ends(to) ==
  /\ phase' = to /\ queue' = <<>> /\ stop' = "none" /\ restart' = FALSE /\ tasks' = {}
  /\ UNCHANGED hooked
  /\ A!Gone /\ M!Gone
  /\ IF P!Running THEN P!CutOff ELSE UNCHANGED platform

-----------------------------------------------------------------------------
(* The start.                                                              *)

Start ==
  /\ phase = "down"
  /\ phase' = "loading"
  /\ M!Parse
  /\ UNCHANGED <<platform, allowlist, queue, hooked, stop, restart, tasks>> /\ NoEvent

LoadAllowlist ==
  /\ phase = "loading"
  /\ \/ A!LoadStart \/ A!Migrate \/ A!Load
     \/ A!Watch
  /\ phase' = IF A!Watched' THEN "watched" ELSE phase
  /\ UNCHANGED <<setting, platform, queue, hooked, stop, restart, tasks>> /\ NoEvent

\* The configuration watcher, and the socket that the webhook comes in by.
Bind ==
  /\ phase = "watched"
  /\ phase' = "bound"
  /\ M!StartWatcher
  /\ UNCHANGED <<platform, allowlist, queue, hooked, stop, restart, tasks>> /\ NoEvent

\* webhook_register_loop tries again until it succeeds.
Register ==
  /\ Bound /\ ~hooked /\ ~Cancelled
  /\ hooked' = TRUE
  /\ UNCHANGED <<setting, platform, allowlist, phase, queue, stop, restart, tasks>> /\ NoEvent

\* The sandbox is there and answers: initial_sync.
FirstCycle ==
  /\ phase = "bound"
  /\ P!Scan
  /\ phase' = "syncing"
  /\ UNCHANGED <<setting, allowlist, queue, hooked, stop, restart, tasks>> /\ NoEvent

SyncStep ==
  /\ P!CycleStep
  /\ ~(phase = "syncing" /\ P!Unreadable)
  /\ phase' = IF phase = "syncing" /\ ~P!Running' THEN "synced" ELSE phase
  /\ UNCHANGED <<setting, allowlist, queue, hooked, stop, restart, tasks>> /\ NoEvent

\* initial_sync fails, and run_async with it; process-compose starts the bot
\* again, to the same end.
SyncFails ==
  /\ phase = "syncing" /\ P!Unreadable
  /\ Ends("down") /\ NoEvent

\* The tasks are spawned, and run_telegram starts: only now is there a handler
\* for signals.
Serve ==
  /\ phase = "synced"
  /\ phase' = "serving" /\ tasks' = Tasks
  /\ UNCHANGED <<setting, platform, allowlist, queue, hooked, stop, restart>> /\ NoEvent

-----------------------------------------------------------------------------
(* Serving.                                                                *)

\* run_sync_task, every five minutes.
NextCycle ==
  /\ phase \in {"serving", "draining"} /\ ~Cancelled
  /\ P!Scan
  /\ UNCHANGED <<setting, allowlist, process>> /\ NoEvent

\* A cycle that fails is logged; the first one ends the bot.
CycleFails ==
  /\ Event
  /\ phase # "syncing" /\ P!CutOff
  /\ UNCHANGED <<setting, allowlist, process>>

\* The webhook answers Telegram as soon as the update is in the channel.
Deliver ==
  /\ Event
  /\ Bound /\ hooked /\ phase \notin {"draining", "joining"}
  /\ \E r \in ChatRequests : queue' = Append(queue, r)
  /\ UNCHANGED <<setting, platform, allowlist, phase, hooked, stop, restart, tasks>>

\* The dispatcher has a worker for each chat, which it still drains at the end.
Dispatch ==
  /\ phase \in {"serving", "draining"}
  /\ \E i \in 1..Len(queue) :
       /\ \A j \in 1..(i - 1) : queue[j].chat # queue[i].chat
       /\ A!Request(queue[i])
       /\ queue' = SubSeq(queue, 1, i - 1) \o SubSeq(queue, i + 1, Len(queue))
  /\ UNCHANGED <<setting, platform, phase, hooked, stop, restart, tasks>> /\ NoEvent

CommandStep ==
  /\ \E c \in A!Chats : A!CommandStep(c)
  /\ UNCHANGED <<setting, platform, process>> /\ NoEvent

PersistFails ==
  /\ Event
  /\ \E c \in A!Chats : A!Persist(c, FALSE)
  /\ UNCHANGED <<setting, platform, process>>

Reload ==
  /\ A!Reload
  /\ UNCHANGED <<setting, platform, process>> /\ NoEvent

\* A button of /model.
ClickModel ==
  /\ Event
  /\ phase \in {"serving", "draining"}
  /\ \E c \in Clickers, m \in Models : M!Click(c, m)
  /\ UNCHANGED <<platform, allowlist, process>>

StoreModel ==
  /\ \E c \in Clickers : M!Store(c)
  /\ UNCHANGED <<platform, allowlist, process>> /\ NoEvent

\* The watcher's thread ends once it has asked for the shutdown.
WatchModel ==
  /\ stop # "config"
  /\ M!WatcherReads \/ M!WatcherStores
  /\ UNCHANGED <<platform, allowlist, process>> /\ NoEvent

-----------------------------------------------------------------------------
(* The shutdown.                                                           *)

\* SIGTERM, once there is a handler; without one it ends the process.
Signal ==
  /\ Event
  /\ phase = "serving" /\ stop = "none"
  /\ stop' = "signal"
  /\ UNCHANGED <<setting, platform, allowlist, phase, queue, hooked, restart, tasks>>

\* agent.yaml changed in more than its model; the start goes on all the same.
ConfigChanges ==
  /\ Event
  /\ Bound /\ stop' = "config" /\ restart' = TRUE
  /\ stop # "config"
  /\ UNCHANGED <<setting, platform, allowlist, phase, queue, hooked, tasks>>

\* A fault: the listener of teloxide as it is, whose stream ends with the next
\* update only.
EndServingUnwrapped ==
  /\ phase = "serving" /\ stop # "none" /\ queue # <<>>
  /\ phase' = "draining"
  /\ UNCHANGED <<setting, platform, allowlist, queue, hooked, stop, restart, tasks>> /\ NoEvent
\* ShutdownAware ends the stream of updates, also if the dispatcher has only
\* just been started.
EndServing ==
  /\ phase = "serving" /\ stop # "none"
  /\ phase' = "draining"
  /\ UNCHANGED <<setting, platform, allowlist, queue, hooked, stop, restart, tasks>> /\ NoEvent

\* dispatch_with_listener returns; what is left in the channel is lost.
Drained ==
  /\ phase = "draining"
  /\ \A c \in A!Chats : command[c] = A!Idle
  /\ click = M!Unclicked
  /\ phase' = "joining" /\ queue' = <<>>
  /\ UNCHANGED <<setting, platform, allowlist, hooked, stop, restart, tasks>> /\ NoEvent

\* getMe fails, or the server of the socket ends: run_async goes on to the end
\* with an error, while the handlers of commands run on.
TelegramFails ==
  /\ Event
  /\ phase = "serving"
  /\ phase' = "joining" /\ restart' = TRUE /\ queue' = <<>>
  /\ UNCHANGED <<setting, platform, allowlist, hooked, stop, tasks>>

TaskEnds ==
  /\ Cancelled
  /\ \E t \in tasks : tasks' = tasks \ {t}
  /\ UNCHANGED <<setting, platform, allowlist, phase, queue, hooked, stop, restart>> /\ NoEvent

\* All tasks and the cycle in progress have been waited for.
Exit ==
  /\ phase = "joining" /\ tasks = {} /\ ~P!Running
  /\ Ends(IF restart THEN "down" ELSE "off")
  /\ NoEvent

\* An error on the way up, an invalid token, a panic, SIGKILL, or SIGTERM before
\* there is a handler for it.
Die ==
  /\ Event
  /\ Up
  /\ Ends("down")

RightUp ==
  /\ Event
  /\ phase = "off" /\ phase' = "down"
  /\ UNCHANGED <<setting, platform, allowlist, queue, hooked, stop, restart, tasks>>

-----------------------------------------------------------------------------
(* The rest of the world.                                                  *)

Truncate ==
  /\ Event /\ P!Truncate
  /\ UNCHANGED <<setting, allowlist, process>>

Write ==
  /\ P!Write
  /\ UNCHANGED <<setting, allowlist, process>> /\ NoEvent

Spoil ==
  /\ Event /\ P!Spoil
  /\ UNCHANGED <<setting, allowlist, process>>

EditModel ==
  /\ Event
  /\ \E m \in Models : M!Edit(m)
  /\ UNCHANGED <<platform, allowlist, process>>

CliStart ==
  /\ Event
  /\ \E k \in Clis, r \in CliRequests : A!CliStart(k, r)
  /\ UNCHANGED <<setting, platform, process>>

CliStep ==
  /\ \E k \in Clis : A!CliStep(k)
  /\ UNCHANGED <<setting, platform, process>> /\ NoEvent

-----------------------------------------------------------------------------
Progress ==
  \/ LoadAllowlist \/ Bind \/ FirstCycle \/ Serve
  \/ EndServing \/ Drained \/ Exit

Next ==
  \/ Start \/ Register \/ Progress \/ SyncStep \/ SyncFails \/ NextCycle \/ CycleFails
  \/ Deliver \/ Dispatch \/ CommandStep \/ PersistFails \/ Reload
  \/ ClickModel \/ StoreModel \/ WatchModel \/ EditModel
  \/ Signal \/ ConfigChanges \/ TelegramFails \/ TaskEnds \/ Die \/ RightUp
  \/ Truncate \/ Write \/ Spoil \/ CliStart \/ CliStep

SafetySpec == Init /\ [][Next]_vars

\* The runtime goes on with every task; every command in the sandbox returns,
\* and Claude in a task ends or is killed; a write that has begun is finished.
Fairness ==
  /\ WF_vars(Start) /\ WF_vars(Progress) /\ WF_vars(SyncStep) /\ WF_vars(SyncFails)
  /\ WF_vars(NextCycle)
  /\ WF_vars(Dispatch) /\ WF_vars(StoreModel) /\ WF_vars(CommandStep) /\ WF_vars(Reload)
  /\ WF_vars(TaskEnds)
  /\ WF_vars(Write) /\ WF_vars(CliStep)

Spec == SafetySpec /\ Fairness

-----------------------------------------------------------------------------
LinksResolve       == P!LinksResolve
FilesWhole         == P!FilesWhole
PersistedFirst     == A!PersistedFirst
CliChangesOneEntry == A!CliChangesOneEntry
MemoryFollowsFile  == A!MemoryFollowsFile
CellIsTheFiles     == M!CellIsTheFiles

\* A shutdown that was asked for comes to its end, also if it was asked for
\* while the bot was starting, and if Telegram never sends another update.
ShutdownEnds == stop # "none" ~> ~Up

\* When the bot goes on serving, what is linked in the sandbox comes to be what
\* the host has, whichever cycles were cut off before (sync_cycle puts right what
\* an earlier one left), and .claude.json is there with the keys of the platform;
\* but for one that cannot be read as an object, as a repair that is cut off
\* leaves it: every later cycle fails on it, after its links, or passes it over.
SettlesWithHost == <>[](phase = "serving") => <>[]P!Current
=============================================================================
