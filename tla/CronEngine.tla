----------------------------- MODULE CronEngine -----------------------------
(***************************************************************************)
(* The cron engine of one agent's bot (crates/bot/src/cron.rs) and the     *)
(* operations on its specs (crates/right-agent/src/cron_spec.rs).          *)
(*                                                                         *)
(* The reconciler ticks every five seconds over cron_specs, a loop per     *)
(* cron-expression job sleeps until its next fire time, and every fire     *)
(* spawns an execute_job task.  Tasks of one job are kept apart by a lock  *)
(* file with a heartbeat and a TTL; a process-wide read-write lock keeps   *)
(* them apart from the Claude upgrade.  Specs, run rows and lock files     *)
(* survive a crash; tasks, loops and the upgrade do not.                   *)
(*                                                                         *)
(* A step is one stretch of code between two points where another thread,  *)
(* task or process can matter.  Variables after `ghosts' are history kept  *)
(* for the properties; no guard reads them.                                *)
(***************************************************************************)
EXTENDS Naturals, FiniteSets

CONSTANTS
  Jobs,         \* job names
  Chats,        \* delivery targets
  NoChat,       \* target of the null spec
  Tasks,        \* slots for spawned execute_job tasks (bounds live tasks)
  NoTask,
  NoJob,
  RunIds,       \* slots for cron_runs rows; bounds those still in use
  NoRunId,
  UserKinds,    \* schedule kinds that clients create or switch to
  UserOps,      \* MCP operations clients use: "create", "update", ...
  Faults,       \* which failing steps may happen
  PromptStart,  \* TRUE: a spawned task gets to its lock file within a tick
  MaxEdits, MaxUpgrades, MaxRestarts   \* bounds on the environment

Kinds == {"Recurring", "OneShotCron", "RunAt", "Immediate",
          "BackgroundContinuation"}

AllOps    == {"create", "enqueue", "update", "delete", "trigger"}
AllFaults == {"lockfile", "insert", "launch", "logdir", "wait", "parse",
              "update", "persist", "delete", "clear"}

ASSUME ConstantsAssumption ==
  /\ UserKinds \subseteq Kinds
  /\ UserOps \subseteq AllOps
  /\ Faults \subseteq AllFaults
  /\ PromptStart \in BOOLEAN
  /\ MaxEdits \in Nat /\ MaxUpgrades \in Nat /\ MaxRestarts \in Nat

(* The null values are outside the sets they stand beside.                 *)
ASSUME NullAssumption ==
  NoChat \notin Chats /\ NoTask \notin Tasks /\ NoJob \notin Jobs
                      /\ NoRunId \notin RunIds

VARIABLES
  specs,      \* cron_specs: per job its CronSpec or NoSpec
  triggered,  \* jobs whose triggered_at is set
  due,        \* RunAt jobs whose time has come
  lock,       \* crons/.locks/<job>.json: none, fresh or past its TTL
  runs,       \* cron_runs rows not yet delivered
  task,       \* spawned execute_job tasks
  loop,       \* the reconciler's `handles': per job its run_job_loop
  upgrading,  \* run_upgrade_loop holds the write side of upgrade_lock
  phase,      \* run_cron_task: up, draining, stopped
  edits, upgrades, restarts,      \* bounds
  breach, leftover, fired, scheduled, outdated, owed   \* ghosts

persistent == <<specs, triggered, due, lock, runs>>
bounds     == <<edits, upgrades, restarts>>
fires      == <<fired, scheduled, outdated>>
ghosts     == <<breach, leftover, fires, owed>>
vars == <<persistent, task, loop, upgrading, phase, bounds, ghosts>>

-----------------------------------------------------------------------------
(* Values.                                                                 *)

(* What CronSpec's PartialEq compares: prompt, budget and TTL are folded   *)
(* into kind and target, triggered_at is not part of it.                   *)
CronSpec == [kind : Kinds, target : Chats]
NoSpec == [kind |-> "none", target |-> NoChat]

(* ScheduleKind::is_one_shot                                               *)
IsOneShot(k) ==
  k \in {"OneShotCron", "RunAt", "Immediate", "BackgroundContinuation"}

(* is_reconcile_tick_kind                                                  *)
IsReconcileTickKind(k) == k \in {"Immediate", "BackgroundContinuation"}

(* is_run_job_loop_skip_kind                                               *)
IsRunJobLoopSkipKind(k) ==
  k \in {"RunAt", "Immediate", "BackgroundContinuation"}

(* is_lock_fresh: a missing file and a heartbeat older than the TTL are    *)
(* both "not fresh".                                                       *)
IsLockFresh(j) == lock[j] = "fresh"

(* Where a task was spawned: by fire_one_shot_specs, by the loop of a      *)
(* recurring or of a one-shot cron job, or by a manual trigger.            *)
Origins == {"oneshot", "loop", "cronloop", "trigger"}

Stages == {"idle", "spawned", "waiting", "running", "parsing", "reflecting",
           "deleting"}

Task == [stage : Stages, job : Jobs \cup {NoJob}, via : Origins \cup {"none"},
         snap : CronSpec \cup {NoSpec}, run : RunIds \cup {NoRunId}]
Idle == [stage |-> "idle", job |-> NoJob, via |-> "none", snap |-> NoSpec,
         run |-> NoRunId]

(* The loop of a job and the spec it was started with; a one-shot cron     *)
(* loop awaits its task, then deletes the spec, then has ended while its   *)
(* entry stays in `handles'.                                               *)
Loop == [st : {"none", "sleeping", "awaiting", "deleting", "ended"},
         spec : CronSpec \cup {NoSpec}, task : Tasks \cup {NoTask}]
NoLoop == [st |-> "none", spec |-> NoSpec, task |-> NoTask]

Row == [job : Jobs \cup {NoJob}, target : Chats \cup {NoChat},
        status : {"none", "running", "success", "failed"},
        notify : {"none", "pending", "silent"}]
NoRow == [job |-> NoJob, target |-> NoChat, status |-> "none",
          notify |-> "none"]

Free(t) == task[t].stage = "idle"
HoldsUpgradeLock(t) == task[t].stage \in {"running", "parsing", "reflecting"}
PastLockCheck(t) == task[t].stage \in {"waiting", "running"}
RunningOf(j) == {t \in Tasks : task[t].job = j /\ task[t].stage = "running"}
LiveOf(j) == {t \in Tasks : task[t].job = j /\ ~Free(t)}

(* What fetch_pending selects.                                             *)
Deliverable(r) == /\ runs[r].status \in {"success", "failed"}
                  /\ runs[r].notify = "pending"

(* A row that a task still writes or that a query may still select; the    *)
(* slot of any other row is free for a new one.                            *)
Selectable(r) == Deliverable(r) \/ \E t \in Tasks : task[t].run = r

-----------------------------------------------------------------------------
Init ==
  /\ specs = [j \in Jobs |-> NoSpec]
  /\ triggered = {} /\ due = {}
  /\ lock = [j \in Jobs |-> "none"]
  /\ runs = [r \in RunIds |-> NoRow]
  /\ task = [t \in Tasks |-> Idle]
  /\ loop = [j \in Jobs |-> NoLoop]
  /\ upgrading = FALSE
  /\ phase = "up"
  /\ edits = 0 /\ upgrades = 0 /\ restarts = 0
  /\ breach = [j \in Jobs |-> {}]
  /\ leftover = {} /\ fired = {} /\ scheduled = {} /\ outdated = {} /\ owed = {}

-----------------------------------------------------------------------------
(* Spec operations: the MCP server's cron tools, a process of its own that *)
(* shares the database and the lock directory, and the worker.             *)

Edit(op) == /\ op \in UserOps
            /\ edits < MaxEdits
            /\ edits' = edits + 1

(* From now on j is another spec than what its live tasks were spawned for.*)
Edited(j) ==
  /\ fired' = fired \ {j} /\ scheduled' = scheduled \ {j}
  /\ outdated' = outdated \cup LiveOf(j)

Spawning == outdated' = {t \in outdated : ~Free(t)}

InsertSpec(j, k, c) ==
  /\ specs[j] = NoSpec
  /\ specs' = [specs EXCEPT ![j] = [kind |-> k, target |-> c]]
  /\ Edited(j)
  /\ UNCHANGED <<triggered, due, lock, runs, task, loop, upgrading, phase,
                 upgrades, restarts, breach, leftover>>

CreateSpec(j, k, c) ==
  /\ Edit("create")
  /\ InsertSpec(j, k, c)
  /\ UNCHANGED owed

(* enqueue_background_job: the name is made from a new uuid, so nothing of *)
(* it exists yet.  The user is owed an answer from now on.                 *)
Unused(j) == /\ LiveOf(j) = {} /\ loop[j] = NoLoop /\ lock[j] = "none"
             /\ \A r \in RunIds : runs[r].job # j

InsertBackgroundContinuation(j, c) ==
  /\ Edit("enqueue")
  /\ Unused(j)
  /\ InsertSpec(j, "BackgroundContinuation", c)
  /\ owed' = owed \cup {j}

(* A new schedule, a new run_at, or a new target, which in the same        *)
(* transaction is propagated to the job's undelivered rows.                *)
UpdateSpecPartial(j, new) ==
  /\ Edit("update")
  /\ specs[j] # NoSpec /\ new # specs[j]
  /\ new.kind = specs[j].kind \/ new.kind \in UserKinds
  /\ specs' = [specs EXCEPT ![j] = new]
  /\ due' = IF new.kind = specs[j].kind THEN due ELSE due \ {j}
  /\ runs' = IF new.target = specs[j].target THEN runs
             ELSE [r \in RunIds |-> IF runs[r].job = j
                                    THEN [runs[r] EXCEPT !.target = new.target]
                                    ELSE runs[r]]
  /\ Edited(j)
  /\ UNCHANGED <<triggered, lock, task, loop, upgrading, phase,
                 upgrades, restarts, breach, leftover, owed>>

TriggerSpec(j) ==
  /\ "trigger" \in UserOps
  /\ specs[j] # NoSpec
  /\ triggered' = triggered \cup {j}
  /\ UNCHANGED <<specs, due, lock, runs, task, loop, upgrading, phase,
                 bounds, ghosts>>

(* delete_spec: the row, and the lock file when there was a row.           *)
RemoveSpec(j) ==
  /\ specs' = [specs EXCEPT ![j] = NoSpec]
  /\ triggered' = triggered \ {j}
  /\ due' = due \ {j}
  /\ lock' = [lock EXCEPT ![j] = "none"]
  /\ breach' = IF RunningOf(j) = {} THEN breach
               ELSE [breach EXCEPT ![j] = @ \cup {"delete"}]
  /\ leftover' = leftover \ {j}

DeleteSpec(j) ==
  /\ Edit("delete")
  /\ specs[j] # NoSpec
  /\ RemoveSpec(j)
  /\ owed' = owed \ {j}
  /\ UNCHANGED <<runs, task, loop, upgrading, phase, upgrades, restarts,
                 fires>>

-----------------------------------------------------------------------------
(* The reconciler and the loops.                                           *)

NewTask(j, via, sp) == [stage |-> "spawned", job |-> j, via |-> via,
                        snap |-> sp, run |-> NoRunId]

(* A spawned task needs microseconds for its lock check, no more to write  *)
(* the lock file unless an upgrade is in the way, and no more to delete    *)
(* its spec in the end; ticks are five seconds apart.                      *)
Prompt(j) ==
  PromptStart =>
    /\ \A t \in LiveOf(j) : /\ task[t].stage \notin {"spawned", "deleting"}
                            /\ task[t].stage = "waiting" => upgrading
    /\ loop[j].st # "deleting"

(* Mutant: any lock file counts, whatever its age.                         *)
FiresOneShotWithoutFile(j) ==
  /\ \/ IsReconcileTickKind(specs[j].kind)
     \/ specs[j].kind = "RunAt" /\ j \in due
  /\ lock[j] = "none"

FiresOneShot(j) == /\ \/ IsReconcileTickKind(specs[j].kind)
                      \/ specs[j].kind = "RunAt" /\ j \in due
                   /\ ~IsLockFresh(j)


(* clear_triggered_at; the trigger fires only once it is cleared.          *)
ClearTrigger(j) == \/ triggered' = triggered \ {j}
                   \/ "clear" \in Faults /\ UNCHANGED triggered
FiresTrigger(j) == j \in triggered \ triggered' /\ ~IsLockFresh(j)

LoopOf(j) ==
  IF specs[j] = NoSpec \/ IsRunJobLoopSkipKind(specs[j].kind) THEN NoLoop
  ELSE IF loop[j].st # "none" /\ loop[j].spec = specs[j] THEN loop[j]
  ELSE [st |-> "sleeping", spec |-> specs[j], task |-> NoTask]

(* reconcile_jobs, for one job: fire an overdue or immediate one-shot,     *)
(* abort the loop of a removed or changed spec, start a missing loop,      *)
(* clear the trigger and then, unless the lock is fresh, fire it.          *)
ReconcileJob(j) ==
  /\ phase = "up" /\ Prompt(j)
  /\ ClearTrigger(j)
  /\ \E f \in Tasks : \E g \in Tasks \ {f} :
       /\ FiresOneShot(j) => Free(f)
       /\ FiresTrigger(j) => Free(g)
       /\ task' = [t \in Tasks |->
            IF t = f /\ FiresOneShot(j) THEN NewTask(j, "oneshot", specs[j])
            ELSE IF t = g /\ FiresTrigger(j)
                 THEN NewTask(j, "trigger", specs[j])
            ELSE task[t]]
  /\ loop' = [loop EXCEPT ![j] = LoopOf(j)]
  /\ Spawning
  /\ UNCHANGED <<specs, due, lock, runs, upgrading, phase, bounds, breach, leftover,
                 fired, scheduled, owed>>

(* Mutant: the loop of a one-shot cron job does not await its task.        *)
LoopFiresUnawaited(j, t) ==
  /\ phase = "up" /\ loop[j].st = "sleeping" /\ Free(t) /\ Prompt(j)
  /\ task' = [task EXCEPT ![t] = NewTask(j, "loop", loop[j].spec)]
  /\ Spawning
  /\ UNCHANGED <<persistent, loop, upgrading, phase, bounds, breach, leftover,
                 fired, scheduled, owed>>

(* run_job_loop wakes up at a fire time.                                   *)
LoopFires(j, t) ==
  /\ phase = "up" /\ loop[j].st = "sleeping" /\ Free(t) /\ Prompt(j)
  /\ LET once == IsOneShot(loop[j].spec.kind) IN
     /\ task' = [task EXCEPT ![t] =
          NewTask(j, IF once THEN "cronloop" ELSE "loop", loop[j].spec)]
     /\ loop' = IF once
                THEN [loop EXCEPT ![j] = [@ EXCEPT !.st = "awaiting",
                                                   !.task = t]]
                ELSE loop
  /\ Spawning
  /\ UNCHANGED <<persistent, upgrading, phase, bounds, breach, leftover,
                 fired, scheduled, owed>>

(* delete_one_shot_spec: by name, whatever stands under that name by now.  *)
DeleteOneShotSpec(j) ==
  IF specs[j] = NoSpec
  THEN UNCHANGED <<specs, triggered, due, lock, breach, leftover>>
  ELSE \/ RemoveSpec(j)
       \/ /\ "delete" \in Faults
          /\ UNCHANGED <<specs, triggered, due, lock, breach, leftover>>

(* run_job_loop of a one-shot cron job, its task having ended.             *)
LoopDeletes(j) ==
  /\ loop[j].st = "deleting"
  /\ DeleteOneShotSpec(j)
  /\ loop' = [loop EXCEPT ![j] = [@ EXCEPT !.st = "ended", !.task = NoTask]]
  /\ UNCHANGED <<runs, task, upgrading, phase, bounds, fires, owed>>

-----------------------------------------------------------------------------
(* execute_job, one task.  When it returns, the task of a one-shot fire    *)
(* goes on to delete the spec, and the one-shot cron loop awaiting the     *)
(* task does so in its place.                                              *)

Return(t) ==
  /\ task' = [task EXCEPT ![t] = IF @.via = "oneshot"
                                 THEN [@ EXCEPT !.stage = "deleting"]
                                 ELSE Idle]
  /\ loop' = [j \in Jobs |-> IF loop[j].st = "awaiting" /\ loop[j].task = t
                             THEN [loop[j] EXCEPT !.st = "deleting"]
                             ELSE loop[j]]

(* A ghost's question: is this a run of the spec as it stands, at the spec's*)
(* own time?                                                               *)
OnSchedule(t) == /\ task[t].via # "trigger" /\ t \notin outdated
                 /\ task[t].snap = specs[task[t].job]

Unlock(j) == /\ lock' = [lock EXCEPT ![j] = "none"]
             /\ leftover' = leftover \ {j}

(* Mutant: execute_job relies on its callers' lock checks.                 *)
CheckLockDropped(t) ==
  /\ task[t].stage = "spawned"
  /\ task' = [task EXCEPT ![t].stage = "waiting"]
  /\ UNCHANGED <<persistent, loop, upgrading, phase, bounds, ghosts>>

(* Mutant: try_read in place of read, giving up while an upgrade runs.     *)
CheckLockOrGiveUp(t) ==
  /\ task[t].stage = "spawned"
  /\ IF IsLockFresh(task[t].job) \/ upgrading
     THEN Return(t)
     ELSE task' = [task EXCEPT ![t].stage = "waiting"] /\ UNCHANGED loop
  /\ UNCHANGED <<persistent, upgrading, phase, bounds, ghosts>>

(* The lock check comes first, before the wait for the upgrade lock.       *)
CheckLock(t) ==
  /\ task[t].stage = "spawned"
  /\ LET j == task[t].job IN
     IF IsLockFresh(j)
     THEN Return(t) /\ UNCHANGED breach
     ELSE /\ task' = [task EXCEPT ![t].stage = "waiting"]
          /\ breach' = IF \E u \in Tasks \ {t} : /\ task[u].job = j
                                                /\ task[u].stage = "waiting"
                       THEN [breach EXCEPT ![j] = @ \cup {"window"}]
                       ELSE breach
          /\ UNCHANGED loop
  /\ UNCHANGED <<persistent, upgrading, phase, bounds, leftover, fires, owed>>

(* Mutant: a run does not take the upgrade lock.                           *)
BeginDuringUpgrade(t) ==
  /\ task[t].stage = "waiting"
  /\ \E r \in RunIds :
       /\ ~Selectable(r)
       /\ runs' = [runs EXCEPT ![r] =
            [job |-> task[t].job, target |-> task[t].snap.target,
             status |-> "running", notify |-> "none"]]
       /\ task' = [task EXCEPT ![t] = [@ EXCEPT !.stage = "running",
                                               !.run = r]]
  /\ lock' = [lock EXCEPT ![task[t].job] = "fresh"]
  /\ leftover' = leftover \ {task[t].job}
  /\ UNCHANGED <<specs, triggered, due, loop, upgrading, phase, bounds,
                 breach, fires, owed>>

(* Past the upgrade lock: the lock file and the `running' row are written. *)
Begin(t) ==
  /\ task[t].stage = "waiting" /\ ~upgrading
  /\ LET j == task[t].job IN
     \E r \in RunIds :
       /\ ~Selectable(r)
       /\ lock' = [lock EXCEPT ![j] = "fresh"]
       /\ leftover' = leftover \ {j}
       /\ runs' = [runs EXCEPT ![r] =
            [job |-> j, target |-> task[t].snap.target,
             status |-> "running", notify |-> "none"]]
       /\ task' = [task EXCEPT ![t] = [@ EXCEPT !.stage = "running",
                                               !.run = r]]
       /\ fired' = IF task[t].snap = specs[j] THEN fired \cup {j} ELSE fired
       /\ scheduled' = IF OnSchedule(t) THEN scheduled \cup {j} ELSE scheduled
  /\ UNCHANGED <<specs, triggered, due, loop, upgrading, phase, bounds,
                 breach, outdated, owed>>

(* The lock file cannot be written: return without one.                    *)
LockFileFails(t) ==
  /\ "lockfile" \in Faults
  /\ task[t].stage = "waiting" /\ ~upgrading
  /\ Return(t)
  /\ UNCHANGED <<persistent, upgrading, phase, bounds, ghosts>>

(* The database cannot be opened or the row not inserted.                  *)
InsertFails(t) ==
  /\ "insert" \in Faults
  /\ task[t].stage = "waiting" /\ ~upgrading
  /\ Unlock(task[t].job)
  /\ Return(t)
  /\ UNCHANGED <<specs, triggered, due, runs, upgrading, phase, bounds,
                 breach, fires, owed>>

SetStatus(t, st) ==
  \/ runs' = [runs EXCEPT ![task[t].run].status = st]
  \/ "update" \in Faults /\ UNCHANGED runs

(* The claude binary is missing or cannot be spawned: failed, no notify.   *)
LaunchFails(t) ==
  /\ "launch" \in Faults
  /\ task[t].stage = "running"
  /\ SetStatus(t, "failed")
  /\ Unlock(task[t].job)
  /\ Return(t)
  /\ UNCHANGED <<specs, triggered, due, upgrading, phase, bounds,
                 breach, fires, owed>>

(* The log directory cannot be created: the row is left `running'.         *)
LogDirFails(t) ==
  /\ "logdir" \in Faults
  /\ task[t].stage = "running"
  /\ Unlock(task[t].job)
  /\ Return(t)
  /\ UNCHANGED <<specs, triggered, due, runs, upgrading, phase, bounds,
                 breach, fires, owed>>

(* Mutant: this early return forgets the lock file.                        *)
WaitFailsLocked(t) ==
  /\ "wait" \in Faults
  /\ task[t].stage = "running"
  /\ SetStatus(t, "failed")
  /\ Return(t)
  /\ UNCHANGED <<specs, triggered, due, lock, upgrading, phase, bounds, ghosts>>

(* child.wait fails or takes more than five seconds: failed, no notify.    *)
WaitFails(t) ==
  /\ "wait" \in Faults
  /\ task[t].stage = "running"
  /\ SetStatus(t, "failed")
  /\ Unlock(task[t].job)
  /\ Return(t)
  /\ UNCHANGED <<specs, triggered, due, upgrading, phase, bounds,
                 breach, fires, owed>>

(* The exit code is known: status, then the lock; the answer comes later.  *)
Exit(t) ==
  /\ task[t].stage = "running"
  /\ \/ /\ SetStatus(t, "success")
        /\ task' = [task EXCEPT ![t].stage = "parsing"]
     \/ /\ SetStatus(t, "failed")
        /\ task' = [task EXCEPT ![t].stage = "reflecting"]
  /\ Unlock(task[t].job)
  /\ UNCHANGED <<specs, triggered, due, loop, upgrading, phase, bounds,
                 breach, fires, owed>>

SetNotify(t, n) ==
  \/ runs' = [runs EXCEPT ![task[t].run].notify = n]
  \/ "persist" \in Faults /\ UNCHANGED runs

(* Exit code 0: the reply is parsed and stored.  The schema of a           *)
(* background continuation forbids a silent reply.                         *)
PersistOutput(t) ==
  /\ task[t].stage = "parsing"
  /\ \/ SetNotify(t, "pending")
     \/ /\ task[t].snap.kind # "BackgroundContinuation"
        /\ SetNotify(t, "silent")
     \/ "parse" \in Faults /\ UNCHANGED runs
  /\ Return(t)
  /\ UNCHANGED <<specs, triggered, due, lock, upgrading, phase, bounds,
                 ghosts>>

(* Mutant: a failed run notifies nobody.                                   *)
PersistFailureSilently(t) ==
  /\ task[t].stage = "reflecting"
  /\ Return(t)
  /\ UNCHANGED <<persistent, upgrading, phase, bounds, ghosts>>

(* Another exit code: a reflection, or else the raw error, is stored.      *)
PersistFailure(t) ==
  /\ task[t].stage = "reflecting"
  /\ SetNotify(t, "pending")
  /\ Return(t)
  /\ UNCHANGED <<specs, triggered, due, lock, upgrading, phase, bounds,
                 ghosts>>

(* fire_one_shot_specs: the spec is deleted however execute_job returned.  *)
TaskDeletes(t) ==
  /\ task[t].stage = "deleting"
  /\ DeleteOneShotSpec(task[t].job)
  /\ task' = [task EXCEPT ![t] = Idle]
  /\ UNCHANGED <<runs, loop, upgrading, phase, bounds, fires, owed>>

-----------------------------------------------------------------------------
(* The rest of the world.                                                  *)

(* mark_delivery_outcome, whatever the outcome: CronDelivery has the loop. *)
MarkDelivered(r) ==
  /\ Deliverable(r)
  /\ owed' = owed \ {runs[r].job}
  /\ runs' = [runs EXCEPT ![r] = NoRow]
  /\ UNCHANGED <<specs, triggered, due, lock, task, loop, upgrading, phase,
                 bounds, breach, leftover, fires>>

(* The heartbeat, written once, gets older than the TTL.                   *)
LockAges(j) ==
  /\ lock[j] = "fresh"
  /\ lock' = [lock EXCEPT ![j] = "stale"]
  /\ breach' = IF RunningOf(j) = {} THEN breach
               ELSE [breach EXCEPT ![j] = @ \cup {"ttl"}]
  /\ UNCHANGED <<specs, triggered, due, runs, task, loop, upgrading, phase,
                 bounds, leftover, fires, owed>>

RunAtComesDue(j) ==
  /\ specs[j].kind = "RunAt" /\ j \notin due
  /\ due' = due \cup {j}
  /\ UNCHANGED <<specs, triggered, lock, runs, task, loop, upgrading, phase,
                 bounds, ghosts>>

(* run_upgrade_loop: try_write fails while any execute_job holds the lock. *)
UpgradeStarts ==
  /\ phase = "up" /\ ~upgrading /\ upgrades < MaxUpgrades
  /\ \A t \in Tasks : ~HoldsUpgradeLock(t)
  /\ upgrading' = TRUE
  /\ upgrades' = upgrades + 1
  /\ UNCHANGED <<persistent, task, loop, phase, edits, restarts, ghosts>>

UpgradeEnds ==
  /\ upgrading
  /\ upgrading' = FALSE
  /\ UNCHANGED <<persistent, task, loop, phase, bounds, ghosts>>

(* Shutdown: the loops are aborted, the registered tasks awaited.          *)
Shutdown ==
  /\ phase = "up" /\ restarts < MaxRestarts
  /\ phase' = "draining"
  /\ loop' = [j \in Jobs |-> NoLoop]
  /\ UNCHANGED <<persistent, task, upgrading, bounds, ghosts>>

(* execute_handles has every task but those of one-shot cron loops.        *)
Registered(t) == ~Free(t) /\ task[t].via # "cronloop"

Drained ==
  /\ phase = "draining"
  /\ \A t \in Tasks : ~Registered(t)
  /\ phase' = "stopped"
  /\ UNCHANGED <<persistent, task, loop, upgrading, bounds, ghosts>>

(* A crash at any time, the exit after a shutdown or after its time-out:   *)
(* memory is lost and the bot starts again.                                *)
Restart ==
  /\ restarts < MaxRestarts
  /\ restarts' = restarts + 1
  /\ task' = [t \in Tasks |-> Idle]
  /\ loop' = [j \in Jobs |-> NoLoop]
  /\ upgrading' = FALSE
  /\ phase' = "up"
  /\ breach' = [j \in Jobs |-> {}]
  /\ leftover' = {j \in Jobs : lock[j] # "none"}
  /\ UNCHANGED <<persistent, edits, upgrades, fires, owed>>

-----------------------------------------------------------------------------
ClientStep ==
  \E j \in Jobs :
    \/ \E k \in UserKinds, c \in Chats : CreateSpec(j, k, c)
    \/ \E c \in Chats : InsertBackgroundContinuation(j, c)
    \/ \E new \in CronSpec : UpdateSpecPartial(j, new)
    \/ DeleteSpec(j)
    \/ TriggerSpec(j)

RunEnds(t) == LaunchFails(t) \/ LogDirFails(t) \/ WaitFails(t) \/ Exit(t)
Starts(t) == Begin(t) \/ LockFileFails(t) \/ InsertFails(t)
Persists(t) == PersistOutput(t) \/ PersistFailure(t)

ExecuteStep == \E t \in Tasks :
  CheckLock(t) \/ Starts(t) \/ RunEnds(t) \/ Persists(t) \/ TaskDeletes(t)

SchedulerStep == \E j \in Jobs :
  ReconcileJob(j) \/ LoopDeletes(j) \/ \E t \in Tasks : LoopFires(j, t)

ProcessStep == Shutdown \/ Drained \/ Restart

WorldStep == \/ \E r \in RunIds : MarkDelivered(r)
             \/ \E j \in Jobs : LockAges(j) \/ RunAtComesDue(j)
             \/ UpgradeStarts \/ UpgradeEnds

Next == ClientStep \/ SchedulerStep \/ ExecuteStep \/ ProcessStep \/ WorldStep

SafetySpec == Init /\ [][Next]_vars

(* What the code justifies: ticks, timers and spawned tasks go on, an      *)
(* upgrade is bounded by its ssh time-outs, time passes.  That a Claude    *)
(* process exits (RunEnds) is an assumption about Claude: execute_job      *)
(* reads its output without a deadline.                                    *)
Fairness ==
  /\ \A j \in Jobs : /\ WF_vars(ReconcileJob(j))
                     /\ WF_vars(\E t \in Tasks : LoopFires(j, t))
                     /\ WF_vars(LoopDeletes(j))
                     /\ WF_vars(LockAges(j))
                     /\ WF_vars(RunAtComesDue(j))
  /\ \A t \in Tasks : /\ WF_vars(CheckLock(t))
                      /\ WF_vars(Starts(t))
                      /\ WF_vars(RunEnds(t))
                      /\ WF_vars(Persists(t))
                      /\ WF_vars(TaskDeletes(t))
  /\ \A r \in RunIds : WF_vars(MarkDelivered(r))
  /\ WF_vars(UpgradeEnds)
  /\ WF_vars(Drained)
  /\ WF_vars(phase = "stopped" /\ Restart)

Spec == SafetySpec /\ Fairness

-----------------------------------------------------------------------------
(* Properties.                                                             *)

(* Every variable has its type.                                            *)
TypeOK ==
  /\ specs \in [Jobs -> CronSpec \cup {NoSpec}]
  /\ triggered \subseteq Jobs /\ due \subseteq Jobs
  /\ lock \in [Jobs -> {"none", "fresh", "stale"}]
  /\ runs \in [RunIds -> Row]
  /\ task \in [Tasks -> Task]
  /\ loop \in [Jobs -> Loop]
  /\ upgrading \in BOOLEAN
  /\ phase \in {"up", "draining", "stopped"}
  /\ edits \in 0..MaxEdits /\ upgrades \in 0..MaxUpgrades
  /\ restarts \in 0..MaxRestarts
  /\ breach \in [Jobs -> SUBSET {"window", "ttl", "delete"}]
  /\ leftover \subseteq Jobs /\ owed \subseteq Jobs
  /\ fired \subseteq Jobs /\ scheduled \subseteq Jobs /\ outdated \subseteq Tasks

(* The lock file keeps the runs of a job apart, except when two tasks      *)
(* passed the lock check before either wrote the file, the TTL ran out     *)
(* under a run, or the spec was deleted, with its lock, under a run: these *)
(* are all the ways for a job to run twice at a time.                      *)
OverlapOnlyByBreach ==
  \A t, u \in Tasks :
    /\ t # u /\ task[t].job = task[u].job
    /\ task[t].stage = "running" /\ task[u].stage = "running"
    => breach[task[t].job] # {}

(* The same one level down, as the code relies on it: short of those       *)
(* breaches at most one task is past the lock check, and the lock of a job *)
(* with a Claude process is fresh.                                         *)
OnePastLockCheck ==
  \A t, u \in Tasks :
    /\ t # u /\ task[t].job = task[u].job
    /\ PastLockCheck(t) /\ PastLockCheck(u)
    => breach[task[t].job] # {}

RunningIsLocked ==
  \A t \in Tasks : task[t].stage = "running" =>
    lock[task[t].job] = "fresh" \/ breach[task[t].job] # {}

LockInv == OnePastLockCheck /\ RunningIsLocked

(* No cron run has a Claude process while `claude upgrade' replaces it.    *)
UpgradeExcludesRuns ==
  upgrading => \A t \in Tasks : ~HoldsUpgradeLock(t)

(* No path of execute_job leaks its lock file, which would keep the job    *)
(* from running until the TTL: a lock file has a running task, or was left *)
(* by a process that died.                                                 *)
LockHasOwner ==
  \A j \in Jobs : lock[j] # "none" => j \in leftover \/ RunningOf(j) # {}

(* The engine deletes only a one-shot spec, and only when that spec, as it *)
(* stands, has begun a run ("Delete a one-shot spec after it has fired").  *)
EngineDeletesOnlyFired ==
  [][\A j \in Jobs :
       /\ specs[j] # NoSpec /\ specs'[j] = NoSpec /\ edits' = edits
       => IsOneShot(specs[j].kind) /\ j \in fired]_vars

(* Task t begins a run of a spec as it stands, at the spec's own time, that*)
(* has begun one before.                                                   *)
BeginsAgain(t) ==
  /\ task[t].stage = "waiting" /\ task'[t].stage = "running"
  /\ OnSchedule(t) /\ task[t].job \in scheduled

(* A one-shot cron spec fires once in the life of a process, since its     *)
(* loop awaits the run and deletes the spec: however often the spec was    *)
(* edited, away and back, deleted and made again.                          *)
OneShotCronFiresOnce ==
  [][\A t \in Tasks : BeginsAgain(t) /\ restarts = 0
                        => task[t].snap.kind # "OneShotCron"]_vars

(* A one-shot spec that the tick fires is eventually consumed, over        *)
(* restarts, stale locks, upgrades and duplicates.                         *)
TickKindConsumed ==
  \A j \in Jobs :
    (specs[j] # NoSpec /\ IsRunJobLoopSkipKind(specs[j].kind))
      ~> (specs[j] = NoSpec \/ ~IsRunJobLoopSkipKind(specs[j].kind))

(* A user sent to the background is eventually answered.                   *)
BackgroundAnswered == \A j \in Jobs : j \in owed ~> j \notin owed

=============================================================================
