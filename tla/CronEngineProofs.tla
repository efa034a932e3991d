-------------------------- MODULE CronEngineProofs --------------------------
(***************************************************************************)
(* Theorems of CronEngine, for every set of jobs, tasks, rows and targets  *)
(* and for every bound: type correctness, the three safety invariants of   *)
(* the lock file and of the upgrade lock, and that a one-shot cron spec    *)
(* fires once in the life of a process.                                    *)
(***************************************************************************)
EXTENDS CronEngine, TLAPS

USE DEF fires, Edited, Spawning

(* A slot that is in use belongs to a job.                                 *)
TaskHasJob == \A t \in Tasks : ~Free(t) => task[t].job \in Jobs

TypeInv == TypeOK /\ TaskHasJob

(* Returning from execute_job keeps tasks and loops well typed.            *)
LEMMA ReturnType ==
  ASSUME TypeInv, NEW t \in Tasks, ~Free(t), Return(t)
  PROVE  /\ task' \in [Tasks -> Task]
         /\ loop' \in [Jobs -> Loop]
         /\ TaskHasJob'
<1>1. task' \in [Tasks -> Task]
  BY DEF TypeInv, TypeOK, Return, Task, Idle, Stages
<1>2. loop' \in [Jobs -> Loop]
  BY DEF TypeInv, TypeOK, Return, Loop
<1>3. TaskHasJob'
  BY DEF TypeInv, TypeOK, TaskHasJob, Return, Task, Idle, Free
<1>4. QED  BY <1>1, <1>2, <1>3

(* Deleting a spec, or failing to, keeps the types.                        *)
LEMMA RemoveSpecType ==
  ASSUME TypeInv, NEW j \in Jobs, DeleteOneShotSpec(j) \/ RemoveSpec(j)
  PROVE  /\ specs' \in [Jobs -> CronSpec \cup {NoSpec}]
         /\ triggered' \subseteq Jobs /\ due' \subseteq Jobs
         /\ lock' \in [Jobs -> {"none", "fresh", "stale"}]
         /\ breach' \in [Jobs -> SUBSET {"window", "ttl", "delete"}]
         /\ leftover' \subseteq Jobs
  BY DEF TypeInv, TypeOK, DeleteOneShotSpec, RemoveSpec

(* Freeing the lock of a task's job keeps the types.                       *)
LEMMA UnlockType ==
  ASSUME TypeInv, NEW j \in Jobs, Unlock(j)
  PROVE  /\ lock' \in [Jobs -> {"none", "fresh", "stale"}]
         /\ leftover' \subseteq Jobs
  BY DEF TypeInv, TypeOK, Unlock

(* Updating a row keeps the types.                                         *)
LEMMA RowType ==
  ASSUME TypeInv, NEW t \in Tasks
  PROVE  /\ \A st \in {"success", "failed"} :
              SetStatus(t, st) => runs' \in [RunIds -> Row]
         /\ \A n \in {"pending", "silent"} :
              SetNotify(t, n) => runs' \in [RunIds -> Row]
  BY SMTT(30) DEF TypeInv, TypeOK, SetStatus, SetNotify, Row

LEMMA TypeInit == Init => TypeInv
<1> SUFFICES ASSUME Init PROVE TypeInv
  OBVIOUS
<1>1. Idle \in Task /\ NoLoop \in Loop /\ NoRow \in Row
  BY DEF Idle, Task, Stages, NoLoop, Loop, NoRow, Row
<1>2. TypeOK
  <2>1. edits \in 0..MaxEdits /\ upgrades \in 0..MaxUpgrades
                              /\ restarts \in 0..MaxRestarts
    BY ConstantsAssumption DEF ConstantsAssumption, Init
  <2>2. /\ specs \in [Jobs -> CronSpec \cup {NoSpec}]
        /\ lock \in [Jobs -> {"none", "fresh", "stale"}]
        /\ breach \in [Jobs -> SUBSET {"window", "ttl", "delete"}]
    BY DEF Init
  <2>3. /\ runs \in [RunIds -> Row]
        /\ task \in [Tasks -> Task]
        /\ loop \in [Jobs -> Loop]
    BY <1>1 DEF Init
  <2>4. QED  BY <2>1, <2>2, <2>3 DEF Init, TypeOK
<1>3. TaskHasJob
  BY DEF Init, TaskHasJob, Free, Idle
<1>4. QED  BY <1>2, <1>3 DEF TypeInv

(* Every action keeps the types.                                           *)
LEMMA TypeNext == TypeInv /\ [Next]_vars => TypeInv'
<1> SUFFICES ASSUME TypeInv, [Next]_vars PROVE TypeInv'
  OBVIOUS
<1> USE DEF TypeInv
<1> USE ConstantsAssumption DEF ConstantsAssumption
<1>1. CASE ClientStep
  <2>1. ASSUME NEW j \in Jobs, NEW k \in UserKinds, NEW c \in Chats,
               CreateSpec(j, k, c)
        PROVE  TypeInv'
    BY <2>1 DEF CreateSpec, InsertSpec, Edit, CronSpec, TypeOK, TaskHasJob,
                Free, LiveOf
  <2>2. ASSUME NEW j \in Jobs, NEW c \in Chats,
               InsertBackgroundContinuation(j, c)
        PROVE  TypeInv'
    BY <2>2 DEF InsertBackgroundContinuation, InsertSpec, Edit, CronSpec,
                Kinds, TypeOK, TaskHasJob, Free, LiveOf
  <2>3. ASSUME NEW j \in Jobs, NEW new \in CronSpec, UpdateSpecPartial(j, new)
        PROVE  TypeInv'
    <3>1. runs' \in [RunIds -> Row]
      BY <2>3 DEF UpdateSpecPartial, TypeOK, Row, CronSpec
    <3>2. QED
      BY <2>3, <3>1 DEF UpdateSpecPartial, Edit, TypeOK, TaskHasJob, Free, LiveOf
  <2>4. ASSUME NEW j \in Jobs, DeleteSpec(j) PROVE TypeInv'
    BY <2>4, RemoveSpecType DEF DeleteSpec, Edit, TypeOK, TaskHasJob, Free
  <2>5. ASSUME NEW j \in Jobs, TriggerSpec(j) PROVE TypeInv'
    BY <2>5 DEF TriggerSpec, bounds, ghosts, TypeOK, TaskHasJob, Free
  <2>6. QED  BY <1>1, <2>1, <2>2, <2>3, <2>4, <2>5 DEF ClientStep
<1>2. CASE SchedulerStep
  <2>1. ASSUME NEW j \in Jobs, ReconcileJob(j) PROVE TypeInv'
    <3>1. \A sp \in CronSpec \cup {NoSpec}, via \in Origins :
            NewTask(j, via, sp) \in Task
      BY DEF NewTask, Task, Origins, Stages
    <3>2. task' \in [Tasks -> Task] /\ TaskHasJob'
      <4>1. specs[j] \in CronSpec \cup {NoSpec}
        BY DEF TypeOK
      <4>2. /\ NewTask(j, "oneshot", specs[j]) \in Task
            /\ NewTask(j, "trigger", specs[j]) \in Task
        BY <3>1, <4>1 DEF Origins
      <4>3. PICK f \in Tasks, g \in Tasks : task' = [t \in Tasks |->
              IF t = f /\ FiresOneShot(j) THEN NewTask(j, "oneshot", specs[j])
              ELSE IF t = g /\ FiresTrigger(j)
                   THEN NewTask(j, "trigger", specs[j])
              ELSE task[t]]
        BY <2>1 DEF ReconcileJob
      <4> DEFINE one == NewTask(j, "oneshot", specs[j])
                 two == NewTask(j, "trigger", specs[j])
      <4>4. \A t \in Tasks : task'[t] \in {one, two, task[t]}
        BY <4>3
      <4>5. task' \in [Tasks -> Task]
        <5>1. task' = [t \in Tasks |-> task'[t]]
          BY <4>3
        <5>2. \A t \in Tasks : task'[t] \in Task
          BY <4>2, <4>4 DEF TypeOK
        <5>3. QED  BY <5>1, <5>2
      <4>6. TaskHasJob'
        <5>1. one.job = j /\ two.job = j
          BY DEF NewTask
        <5>2. QED  BY <4>4, <5>1 DEF TaskHasJob, Free
      <4>7. QED  BY <4>5, <4>6
    <3>3. LoopOf(j) \in Loop
      BY DEF LoopOf, TypeOK, Loop, NoLoop
    <3>4. QED
      BY <2>1, <3>2, <3>3 DEF ReconcileJob, ClearTrigger, persistent, bounds,
                             ghosts, TypeOK
  <2>2. ASSUME NEW j \in Jobs, NEW t \in Tasks, LoopFires(j, t) PROVE TypeInv'
    <3>1. loop[j] \in Loop
      BY DEF TypeOK
    <3>2. \A via \in Origins : /\ NewTask(j, via, loop[j].spec) \in Task
                               /\ NewTask(j, via, loop[j].spec).job = j
      BY <3>1 DEF NewTask, Task, Origins, Stages, Loop
    <3>3. PICK via \in Origins :
            task' = [task EXCEPT ![t] = NewTask(j, via, loop[j].spec)]
      BY <2>2 DEF LoopFires, Origins
    <3>4. task' \in [Tasks -> Task] /\ TaskHasJob'
      BY <3>2, <3>3 DEF TypeOK, TaskHasJob, Free
    <3>5. loop' \in [Jobs -> Loop]
      BY ZenonT(30), <2>2 DEF LoopFires, TypeOK, Loop
    <3>6. QED
      BY <2>2, <3>4, <3>5 DEF LoopFires, persistent, bounds, ghosts, TypeOK
  <2>3. ASSUME NEW j \in Jobs, LoopDeletes(j) PROVE TypeInv'
    <3>1. loop' \in [Jobs -> Loop]
      BY ZenonT(30), <2>3 DEF LoopDeletes, TypeOK, Loop
    <3>2. QED
      BY <2>3, <3>1, RemoveSpecType
      DEF LoopDeletes, bounds, TypeOK, TaskHasJob, Free
  <2>4. QED  BY <1>2, <2>1, <2>2, <2>3 DEF SchedulerStep
<1>3. CASE ExecuteStep
  <2>1. ASSUME NEW t \in Tasks, CheckLock(t) PROVE TypeInv'
    <3>1. ~Free(t) /\ task[t].job \in Jobs
      BY <2>1 DEF CheckLock, Free, TaskHasJob
    <3>2. /\ task' \in [Tasks -> Task] /\ loop' \in [Jobs -> Loop]
          /\ TaskHasJob'
      <4>1. CASE IsLockFresh(task[t].job)
        BY <2>1, <3>1, <4>1, ReturnType DEF CheckLock
      <4>2. CASE ~IsLockFresh(task[t].job)
        BY <2>1, <3>1, <4>2
        DEF CheckLock, TypeOK, TaskHasJob, Free, Task, Stages
      <4>3. QED  BY <4>1, <4>2
    <3>3. breach' \in [Jobs -> SUBSET {"window", "ttl", "delete"}]
      BY <2>1 DEF CheckLock, TypeOK
    <3>4. QED
      BY <2>1, <3>2, <3>3 DEF CheckLock, persistent, bounds, TypeOK
  <2>2. ASSUME NEW t \in Tasks, Begin(t) PROVE TypeInv'
    <3>1. ~Free(t) /\ task[t].job \in Jobs /\ task[t] \in Task
      BY <2>2 DEF Begin, Free, TaskHasJob, TypeOK
    <3>2. runs' \in [RunIds -> Row]
      BY <2>2, <3>1, NullAssumption
      DEF Begin, TypeOK, Row, Task, CronSpec, NoSpec
    <3>3. task' \in [Tasks -> Task] /\ TaskHasJob'
      <4>1. PICK r \in RunIds : task' =
              [task EXCEPT ![t] = [@ EXCEPT !.stage = "running", !.run = r]]
        BY <2>2 DEF Begin
      <4>2. [task[t] EXCEPT !.stage = "running", !.run = r] \in Task
        BY <3>1 DEF Task, Stages
      <4>3. QED  BY <3>1, <4>1, <4>2 DEF TypeOK, TaskHasJob, Free, Task
    <3>4. lock' \in [Jobs -> {"none", "fresh", "stale"}]
      BY <2>2, <3>1 DEF Begin, TypeOK
    <3>5. /\ leftover' \subseteq Jobs /\ fired' \subseteq Jobs
          /\ scheduled' \subseteq Jobs /\ outdated' \subseteq Tasks
      BY <2>2, <3>1 DEF Begin, TypeOK
    <3>6. QED
      BY <2>2, <3>2, <3>3, <3>4, <3>5 DEF Begin, bounds, TypeOK
  <2>3. ASSUME NEW t \in Tasks, LockFileFails(t) \/ InsertFails(t)
        PROVE  TypeInv'
    <3>1. ~Free(t) /\ task[t].job \in Jobs
      BY <2>3 DEF LockFileFails, InsertFails, Free, TaskHasJob
    <3>2. QED
      BY <2>3, <3>1, ReturnType, UnlockType
      DEF LockFileFails, InsertFails, persistent, bounds, ghosts, TypeOK
  <2>4. ASSUME NEW t \in Tasks, RunEnds(t) PROVE TypeInv'
    <3>1. ~Free(t) /\ task[t].job \in Jobs
      BY <2>4
      DEF RunEnds, LaunchFails, LogDirFails, WaitFails, Exit, Free, TaskHasJob
    <3>2. /\ lock' \in [Jobs -> {"none", "fresh", "stale"}]
          /\ leftover' \subseteq Jobs
      BY <2>4, <3>1, UnlockType
      DEF RunEnds, LaunchFails, LogDirFails, WaitFails, Exit
    <3>3. runs' \in [RunIds -> Row]
      BY <2>4, RowType
      DEF RunEnds, LaunchFails, LogDirFails, WaitFails, Exit, TypeOK
    <3>4. /\ task' \in [Tasks -> Task] /\ loop' \in [Jobs -> Loop]
          /\ TaskHasJob'
      <4>1. CASE Exit(t)
        <5>1. PICK s \in {"parsing", "reflecting"} :
                task' = [task EXCEPT ![t] = [@ EXCEPT !.stage = s]]
          BY <4>1 DEF Exit
        <5>2. [task[t] EXCEPT !.stage = s] \in Task
          BY DEF TypeOK, Task, Stages
        <5>3. task' \in [Tasks -> Task] /\ TaskHasJob'
          BY <3>1, <5>1, <5>2 DEF TypeOK, TaskHasJob, Free, Task
        <5>4. QED  BY <4>1, <5>3 DEF Exit, TypeOK
      <4>2. CASE ~Exit(t)
        BY <2>4, <3>1, <4>2, ReturnType
        DEF RunEnds, LaunchFails, LogDirFails, WaitFails
      <4>3. QED  BY <4>1, <4>2
    <3>5. QED
      BY <2>4, <3>2, <3>3, <3>4
      DEF RunEnds, LaunchFails, LogDirFails, WaitFails, Exit, bounds, TypeOK
  <2>5. ASSUME NEW t \in Tasks, Persists(t) PROVE TypeInv'
    <3>1. ~Free(t)
      BY <2>5 DEF Persists, PersistOutput, PersistFailure, Free
    <3>2. runs' \in [RunIds -> Row]
      BY <2>5, RowType DEF Persists, PersistOutput, PersistFailure, TypeOK
    <3>3. QED
      BY <2>5, <3>1, <3>2, ReturnType
      DEF Persists, PersistOutput, PersistFailure, bounds, ghosts, TypeOK
  <2>6. ASSUME NEW t \in Tasks, TaskDeletes(t) PROVE TypeInv'
    <3>1. task[t].job \in Jobs
      BY <2>6 DEF TaskDeletes, Free, TaskHasJob
    <3>2. Idle \in Task
      BY DEF Idle, Task, Stages
    <3>3. task' \in [Tasks -> Task] /\ TaskHasJob'
      BY <2>6, <3>2 DEF TaskDeletes, TypeOK, TaskHasJob, Free, Idle
    <3>4. QED
      BY <2>6, <3>1, <3>3, RemoveSpecType DEF TaskDeletes, bounds, TypeOK
  <2>7. QED
    BY <1>3, <2>1, <2>2, <2>3, <2>4, <2>5, <2>6 DEF ExecuteStep, Starts
<1>4. CASE ProcessStep
  <2>1. NoLoop \in Loop /\ Idle \in Task
    BY DEF NoLoop, Loop, Idle, Task, Stages
  <2>2. CASE Shutdown
    BY <2>1, <2>2
    DEF Shutdown, persistent, bounds, ghosts, TypeOK, TaskHasJob, Free
  <2>3. CASE Drained
    BY <2>3 DEF Drained, persistent, bounds, ghosts, TypeOK, TaskHasJob, Free
  <2>4. CASE Restart
    <3>1. restarts' \in 0..MaxRestarts
      BY <2>4 DEF Restart, TypeOK
    <3>2. task' \in [Tasks -> Task] /\ TaskHasJob'
      BY <2>1, <2>4 DEF Restart, TaskHasJob, Free, Idle
    <3>3. loop' \in [Jobs -> Loop]
      BY <2>1, <2>4 DEF Restart
    <3>4. QED
      BY <2>4, <3>1, <3>2, <3>3 DEF Restart, persistent, TypeOK
  <2>5. QED  BY <1>4, <2>2, <2>3, <2>4 DEF ProcessStep
<1>5. CASE WorldStep
  <2>1. ASSUME NEW r \in RunIds, MarkDelivered(r) PROVE TypeInv'
    <3>1. NoRow \in Row
      BY DEF NoRow, Row
    <3>2. QED
      BY <2>1, <3>1 DEF MarkDelivered, bounds, TypeOK, TaskHasJob, Free
  <2>2. ASSUME NEW j \in Jobs, LockAges(j) \/ RunAtComesDue(j) PROVE TypeInv'
    BY <2>2 DEF LockAges, RunAtComesDue, bounds, ghosts, TypeOK, TaskHasJob,
                Free
  <2>3. CASE UpgradeStarts
    <3>1. upgrades' \in 0..MaxUpgrades
      BY <2>3 DEF UpgradeStarts, TypeOK
    <3>2. QED
      BY <2>3, <3>1
      DEF UpgradeStarts, persistent, ghosts, TypeOK, TaskHasJob, Free
  <2>4. CASE UpgradeEnds
    BY <2>4
    DEF UpgradeEnds, persistent, bounds, ghosts, TypeOK, TaskHasJob, Free
  <2>5. QED  BY <1>5, <2>1, <2>2, <2>3, <2>4 DEF WorldStep
<1>6. CASE UNCHANGED vars
  BY <1>6 DEF vars, persistent, bounds, ghosts, TypeOK, TaskHasJob, Free
<1>7. QED  BY <1>1, <1>2, <1>3, <1>4, <1>5, <1>6 DEF Next

(* Type correctness: in particular no step works on a slot without a job.  *)
THEOREM TypeCorrect == SafetySpec => []TypeOK
<1>1. SafetySpec => []TypeInv
  BY TypeInit, TypeNext, PTL DEF SafetySpec
<1>2. TypeInv => TypeOK
  BY DEF TypeInv
<1>3. QED  BY <1>1, <1>2, PTL

-----------------------------------------------------------------------------
(* The inductive invariant.  OverlapOnlyByBreach is not inductive: the     *)
(* check of a task must know that a running task's lock is fresh, and      *)
(* Begin must know that nobody else is past the check (LockInv).           *)
IInv == TypeInv /\ LockInv /\ UpgradeExcludesRuns /\ LockHasOwner

(* A step that lets no task pass the check or begin, in which no breach is *)
(* forgotten and no running task loses its lock unnoticed.                 *)
Quiet ==
  /\ \A t \in Tasks : PastLockCheck(t)' =>
       task'[t].stage = task[t].stage /\ task'[t].job = task[t].job
  /\ \A j \in Jobs : breach'[j] = {} => breach[j] = {}
  /\ \A t \in Tasks : task'[t].stage = "running" =>
       \/ lock[task[t].job] = "fresh" => lock'[task[t].job] = "fresh"
       \/ breach'[task[t].job] # {}
       \/ \E u \in Tasks \ {t} : /\ task[u].job = task[t].job
                                 /\ PastLockCheck(u)

LEMMA QuietStep ==
  ASSUME TypeInv, LockInv, Quiet
  PROVE  LockInv'
<1> USE DEF TypeInv, TaskHasJob
<1>1. \A t \in Tasks : PastLockCheck(t) => task[t].job \in Jobs
  BY DEF PastLockCheck, Free
<1>2. ASSUME NEW t \in Tasks, PastLockCheck(t)'
      PROVE  /\ PastLockCheck(t) /\ task'[t].stage = task[t].stage
             /\ task'[t].job = task[t].job /\ task[t].job \in Jobs
  BY <1>1, <1>2 DEF Quiet, PastLockCheck
<1>3. OnePastLockCheck'
  BY <1>2 DEF OnePastLockCheck, LockInv, Quiet
<1>4. RunningIsLocked'
  <2> SUFFICES ASSUME NEW t \in Tasks, task'[t].stage = "running",
                      breach'[task'[t].job] = {}
               PROVE  lock'[task'[t].job] = "fresh"
    BY DEF RunningIsLocked
  <2>1. PastLockCheck(t)'
    BY DEF PastLockCheck
  <2>2. /\ PastLockCheck(t) /\ task[t].stage = "running"
        /\ task'[t].job = task[t].job /\ breach[task[t].job] = {}
    BY <1>2, <2>1 DEF Quiet
  <2>3. lock[task[t].job] = "fresh"
    BY <2>2 DEF LockInv, RunningIsLocked
  <2>4. ~ \E u \in Tasks \ {t} : task[u].job = task[t].job /\ PastLockCheck(u)
    BY <2>2 DEF LockInv, OnePastLockCheck
  <2>5. QED  BY <2>2, <2>3, <2>4 DEF Quiet
<1>5. QED  BY <1>3, <1>4 DEF LockInv

(* A step that neither starts anything nor separates a lock from its owner.*)
Benign ==
  /\ Quiet
  /\ upgrading' => upgrading
  /\ \A t \in Tasks : HoldsUpgradeLock(t)' => HoldsUpgradeLock(t)
  /\ \A j \in Jobs : lock'[j] # "none" =>
       /\ lock[j] # "none"
       /\ j \in leftover => j \in leftover'
       /\ \A t \in Tasks : task[t].job = j /\ task[t].stage = "running"
            => task'[t].job = j /\ task'[t].stage = "running"

LEMMA BenignStep ==
  ASSUME IInv, Benign
  PROVE  LockInv' /\ UpgradeExcludesRuns' /\ LockHasOwner'
<1>1. LockInv'
  BY QuietStep DEF IInv, Benign
<1>2. UpgradeExcludesRuns'
  BY DEF IInv, Benign, UpgradeExcludesRuns
<1>3. LockHasOwner'
  <2> SUFFICES ASSUME NEW j \in Jobs, lock'[j] # "none", j \notin leftover'
               PROVE  RunningOf(j)' # {}
    BY DEF LockHasOwner
  <2>1. j \notin leftover /\ lock[j] # "none"
    BY DEF Benign
  <2>2. PICK t \in Tasks : task[t].job = j /\ task[t].stage = "running"
    BY <2>1 DEF IInv, LockHasOwner, RunningOf
  <2>3. task'[t].job = j /\ task'[t].stage = "running"
    BY <2>2 DEF Benign
  <2>4. QED  BY <2>3 DEF RunningOf
<1>4. QED  BY <1>1, <1>2, <1>3

(* Returning from execute_job takes a task past the end of its run.        *)
LEMMA ReturnStage ==
  ASSUME TypeInv, NEW t \in Tasks, Return(t)
  PROVE  /\ task'[t].stage \in {"idle", "deleting"}
         /\ \A u \in Tasks \ {t} : task'[u] = task[u]
  BY DEF TypeInv, TypeOK, Return, Task, Idle

(* Deleting a spec, or failing to, is benign when no task changes in a way *)
(* that matters: the lock goes with the spec, and a running task loses it  *)
(* only with a breach.                                                     *)
LEMMA DeletingIsBenign ==
  ASSUME IInv, NEW j \in Jobs, DeleteOneShotSpec(j) \/ RemoveSpec(j),
         upgrading' = upgrading,
         \A t \in Tasks : \/ task'[t] = task[t]
                          \/ /\ task[t].stage = "deleting"
                             /\ task'[t].stage = "idle"
  PROVE  Benign
<1>0. TypeInv
  BY DEF IInv
<1>1. \A t \in Tasks : task'[t].stage \in {"waiting", "running", "parsing",
                                          "reflecting"}
                      => task'[t] = task[t]
  OBVIOUS
<1>2. CASE RemoveSpec(j)
  <2>1. \A i \in Jobs \ {j} : /\ lock'[i] = lock[i] /\ breach'[i] = breach[i]
                              /\ i \in leftover <=> i \in leftover'
    BY <1>0, <1>2 DEF RemoveSpec, TypeInv, TypeOK
  <2>2. lock'[j] = "none" /\ (breach'[j] = {} => breach[j] = {})
    BY <1>0, <1>2 DEF RemoveSpec, TypeInv, TypeOK
  <2>3. RunningOf(j) # {} => breach'[j] # {}
    BY <1>0, <1>2 DEF RemoveSpec, TypeInv, TypeOK
  <2>4. ASSUME NEW t \in Tasks, task'[t].stage = "running"
        PROVE  \/ lock[task[t].job] = "fresh" => lock'[task[t].job] = "fresh"
               \/ breach'[task[t].job] # {}
    <3>1. task[t].stage = "running" /\ task[t].job \in Jobs
      BY <1>0, <1>1, <2>4 DEF TypeInv, TaskHasJob, Free
    <3>2. CASE task[t].job = j
      BY <2>3, <3>1, <3>2 DEF RunningOf
    <3>3. CASE task[t].job # j
      BY <2>1, <3>1, <3>3
    <3>4. QED  BY <3>2, <3>3
  <2>5. Quiet
    BY <1>1, <2>1, <2>2, <2>4 DEF Quiet, PastLockCheck
  <2>6. \A t \in Tasks : HoldsUpgradeLock(t)' => HoldsUpgradeLock(t)
    BY <1>1 DEF HoldsUpgradeLock
  <2>7. \A t \in Tasks : task[t].stage = "running" => task'[t] = task[t]
    OBVIOUS
  <2>8. QED  BY <2>1, <2>2, <2>5, <2>6, <2>7 DEF Benign
<1>3. CASE UNCHANGED <<specs, triggered, due, lock, breach, leftover>>
  BY <1>1, <1>3 DEF Benign, Quiet, PastLockCheck, HoldsUpgradeLock
<1>4. QED  BY <1>2, <1>3 DEF DeleteOneShotSpec

(* A task that frees its lock and goes on past "running", or never got     *)
(* there, is benign.                                                       *)
LEMMA UnlockingIsBenign ==
  ASSUME IInv, NEW t \in Tasks, PastLockCheck(t), Unlock(task[t].job),
         breach' = breach, upgrading' = upgrading,
         \/ task'[t].stage \in {"idle", "deleting"}
         \/ /\ task[t].stage = "running"
            /\ task'[t].stage \in {"parsing", "reflecting"},
         \A u \in Tasks \ {t} : task'[u] = task[u]
  PROVE  Benign
<1>1. \A u \in Tasks : PastLockCheck(u) => task[u].job \in Jobs
  BY DEF IInv, TypeInv, TaskHasJob, PastLockCheck, Free
<1>2. /\ lock'[task[t].job] = "none"
      /\ \A i \in Jobs \ {task[t].job} : /\ lock'[i] = lock[i]
                                         /\ i \in leftover <=> i \in leftover'
  BY <1>1 DEF Unlock, IInv, TypeInv, TypeOK
<1>3. \A u \in Tasks : PastLockCheck(u)' => u # t
  BY DEF PastLockCheck
<1>4. \A u \in Tasks : task'[u].stage = "running" => u # t
  OBVIOUS
<1>5. ASSUME NEW u \in Tasks, task'[u].stage = "running"
      PROVE  \/ lock[task[u].job] = "fresh" => lock'[task[u].job] = "fresh"
             \/ \E v \in Tasks \ {u} : /\ task[v].job = task[u].job
                                       /\ PastLockCheck(v)
  <2>1. u # t /\ task[u].stage = "running" /\ task[u].job \in Jobs
    BY <1>1, <1>4, <1>5 DEF PastLockCheck
  <2>2. CASE task[u].job = task[t].job
    BY <2>1, <2>2
  <2>3. CASE task[u].job # task[t].job
    BY <1>2, <2>1, <2>3
  <2>4. QED  BY <2>2, <2>3
<1>6. Quiet
  BY <1>3, <1>5 DEF Quiet
<1>7. \A u \in Tasks : HoldsUpgradeLock(u)' => HoldsUpgradeLock(u)
  BY DEF HoldsUpgradeLock
<1>8. ASSUME NEW i \in Jobs, lock'[i] # "none"
      PROVE  /\ lock[i] # "none"
             /\ i \in leftover => i \in leftover'
             /\ \A u \in Tasks : task[u].job = i => u # t
  BY <1>2, <1>8
<1>9. QED  BY <1>6, <1>7, <1>8 DEF Benign

(* A step that leaves locks and breaches alone and moves tasks only to     *)
(* stages where they hold nothing is benign.                               *)
LEMMA LeavingLocksIsBenign ==
  ASSUME IInv, UNCHANGED <<lock, breach, leftover>>, upgrading' => upgrading,
         \A t \in Tasks : \/ task'[t] = task[t]
                          \/ /\ task[t].stage # "running"
                             /\ task'[t].stage \in {"idle", "spawned",
                                                    "deleting"}
  PROVE  Benign
<1>1. \A t \in Tasks : HoldsUpgradeLock(t)' \/ PastLockCheck(t)'
                      => task'[t] = task[t]
  BY DEF HoldsUpgradeLock, PastLockCheck
<1>2. \A t \in Tasks : task[t].stage = "running" => task'[t] = task[t]
  OBVIOUS
<1>3. Quiet
  BY <1>1 DEF Quiet, PastLockCheck
<1>4. QED  BY <1>1, <1>2, <1>3 DEF Benign, HoldsUpgradeLock

LEMMA InvInit == Init => IInv
<1> SUFFICES ASSUME Init PROVE IInv
  OBVIOUS
<1>1. \A t \in Tasks : task[t].stage = "idle"
  BY DEF Init, Idle
<1>2. LockInv
  BY <1>1 DEF LockInv, OnePastLockCheck, RunningIsLocked, PastLockCheck
<1>3. UpgradeExcludesRuns
  BY DEF Init, UpgradeExcludesRuns
<1>4. LockHasOwner
  BY DEF Init, LockHasOwner
<1>5. QED  BY <1>2, <1>3, <1>4, TypeInit DEF IInv

Kept == LockInv /\ UpgradeExcludesRuns /\ LockHasOwner

(* The two steps that take a task past the lock check and into its run.    *)
LEMMA CheckLockKeeps ==
  ASSUME IInv, NEW t \in Tasks, CheckLock(t)
  PROVE  Kept'
<1> DEFINE j == task[t].job
<1>1. TypeInv /\ j \in Jobs /\ task[t].stage = "spawned"
  BY DEF IInv, TypeInv, TaskHasJob, Free, CheckLock
<1>2. CASE IsLockFresh(j)
  <2>1. Benign
    BY <1>1, <1>2, ReturnStage, LeavingLocksIsBenign DEF CheckLock, persistent
  <2>2. QED  BY <2>1, BenignStep DEF Kept
<1>3. CASE ~IsLockFresh(j)
  <2>1. /\ task' = [task EXCEPT ![t].stage = "waiting"]
        /\ UNCHANGED <<lock, upgrading, leftover>>
        /\ breach' = IF \E u \in Tasks \ {t} : /\ task[u].job = j
                                               /\ task[u].stage = "waiting"
                     THEN [breach EXCEPT ![j] = @ \cup {"window"}]
                     ELSE breach
    BY <1>3 DEF CheckLock, persistent
  <2>2. /\ task'[t].stage = "waiting" /\ task'[t].job = j
        /\ \A u \in Tasks \ {t} : task'[u] = task[u]
    BY <2>1 DEF IInv, TypeInv, TypeOK, Task
  <2>3. \A i \in Jobs : breach'[i] = {} => breach[i] = {}
    BY <2>1 DEF IInv, TypeInv, TypeOK
  <2>4. ASSUME NEW u \in Tasks \ {t}, task[u].job = j, PastLockCheck(u)
        PROVE  breach'[j] # {}
    <3>1. CASE task[u].stage = "waiting"
      BY <1>1, <2>1, <2>4, <3>1 DEF IInv, TypeInv, TypeOK
    <3>2. CASE task[u].stage = "running"
      <4>1. breach[j] # {}
        BY <1>3, <2>4, <3>2 DEF IInv, LockInv, RunningIsLocked, IsLockFresh
      <4>2. QED  BY <1>1, <2>3, <4>1
    <3>3. QED  BY <2>4, <3>1, <3>2 DEF PastLockCheck
  <2>5. OnePastLockCheck'
    <3> SUFFICES ASSUME NEW u \in Tasks, NEW v \in Tasks, u # v,
                        task'[u].job = task'[v].job,
                        PastLockCheck(u)', PastLockCheck(v)'
                 PROVE  breach'[task'[u].job] # {}
      BY DEF OnePastLockCheck
    <3>1. CASE u # t /\ v # t
      <4>1. task'[u] = task[u] /\ task'[v] = task[v]
        BY <2>2, <3>1
      <4>2. PastLockCheck(u) /\ PastLockCheck(v) /\ task[u].job \in Jobs
        BY <1>1, <4>1 DEF PastLockCheck, TypeInv, TaskHasJob, Free
      <4>3. breach[task[u].job] # {}
        BY <4>1, <4>2 DEF IInv, LockInv, OnePastLockCheck
      <4>4. QED  BY <2>3, <4>1, <4>2, <4>3
    <3>2. CASE u = t
      <4>1. task'[v] = task[v] /\ task[v].job = j /\ task'[u].job = j
        BY <2>2, <3>2
      <4>2. QED  BY <2>4, <3>2, <4>1 DEF PastLockCheck
    <3>3. CASE v = t
      <4>1. task'[u] = task[u] /\ task[u].job = j
        BY <2>2, <3>3
      <4>2. QED  BY <2>4, <3>3, <4>1 DEF PastLockCheck
    <3>4. QED  BY <3>1, <3>2, <3>3
  <2>6. RunningIsLocked'
    <3> SUFFICES ASSUME NEW u \in Tasks, task'[u].stage = "running",
                        breach'[task'[u].job] = {}
                 PROVE  lock'[task'[u].job] = "fresh"
      BY DEF RunningIsLocked
    <3>1. u # t
      BY <2>2
    <3>2. task'[u] = task[u] /\ task[u].job \in Jobs
      BY <1>1, <2>2, <3>1 DEF TypeInv, TaskHasJob, Free
    <3>3. QED
      BY <2>1, <2>3, <3>2 DEF IInv, LockInv, RunningIsLocked
  <2>7. UpgradeExcludesRuns'
    BY <2>1, <2>2 DEF IInv, UpgradeExcludesRuns, HoldsUpgradeLock
  <2>8. LockHasOwner'
    BY <1>1, <2>1, <2>2 DEF IInv, LockHasOwner, RunningOf
  <2>9. QED  BY <2>5, <2>6, <2>7, <2>8 DEF Kept, LockInv
<1>4. QED  BY <1>2, <1>3

LEMMA BeginKeeps ==
  ASSUME IInv, NEW t \in Tasks, Begin(t)
  PROVE  Kept'
<1> DEFINE j == task[t].job
<1>1. TypeInv /\ j \in Jobs /\ PastLockCheck(t)
  BY DEF IInv, TypeInv, TaskHasJob, Free, Begin, PastLockCheck
<1>2. PICK r \in RunIds :
        task' = [task EXCEPT ![t] = [@ EXCEPT !.stage = "running", !.run = r]]
  BY DEF Begin
<1>3. /\ task'[t].stage = "running" /\ task'[t].job = j
      /\ \A u \in Tasks \ {t} : task'[u] = task[u]
  BY <1>1, <1>2 DEF TypeInv, TypeOK, Task
<1>4. /\ lock' = [lock EXCEPT ![j] = "fresh"]
      /\ leftover' = leftover \ {j}
      /\ UNCHANGED <<breach, upgrading>>
      /\ ~upgrading
  BY DEF Begin
<1>5. \A u \in Tasks : PastLockCheck(u)' =>
        PastLockCheck(u) /\ task'[u].job = task[u].job /\ task[u].job \in Jobs
  BY <1>1, <1>3 DEF PastLockCheck, TypeInv, TaskHasJob, Free
<1>6. OnePastLockCheck'
  BY <1>4, <1>5 DEF IInv, LockInv, OnePastLockCheck
<1>7. RunningIsLocked'
  <2> SUFFICES ASSUME NEW u \in Tasks, task'[u].stage = "running",
                      breach'[task'[u].job] = {}
               PROVE  lock'[task'[u].job] = "fresh"
    BY DEF RunningIsLocked
  <2>1. PastLockCheck(u)'
    BY DEF PastLockCheck
  <2>2. lock'[j] = "fresh" /\ \A i \in Jobs \ {j} : lock'[i] = lock[i]
    BY <1>1, <1>4 DEF TypeInv, TypeOK
  <2>3. CASE u = t
    BY <1>3, <2>2, <2>3
  <2>4. CASE u # t
    <3>1. /\ task[u].stage = "running" /\ task'[u].job = task[u].job
          /\ task[u].job \in Jobs /\ breach[task[u].job] = {}
      BY <1>3, <1>4, <1>5, <2>1, <2>4
    <3>2. lock[task[u].job] = "fresh"
      BY <3>1 DEF IInv, LockInv, RunningIsLocked
    <3>3. QED  BY <2>2, <3>1, <3>2
  <2>5. QED  BY <2>3, <2>4
<1>8. UpgradeExcludesRuns'
  BY <1>4 DEF UpgradeExcludesRuns
<1>9. LockHasOwner'
  <2> SUFFICES ASSUME NEW i \in Jobs, lock'[i] # "none", i \notin leftover'
               PROVE  RunningOf(i)' # {}
    BY DEF LockHasOwner
  <2>1. CASE i = j
    BY <1>3, <2>1 DEF RunningOf
  <2>2. CASE i # j
    <3>1. lock[i] # "none" /\ i \notin leftover
      BY <1>1, <1>4, <2>2 DEF TypeInv, TypeOK
    <3>2. PICK u \in Tasks : task[u].job = i /\ task[u].stage = "running"
      BY <3>1 DEF IInv, LockHasOwner, RunningOf
    <3>3. task'[u] = task[u]
      BY <1>3, <2>2, <3>2
    <3>4. QED  BY <3>2, <3>3 DEF RunningOf
  <2>3. QED  BY <2>1, <2>2
<1>10. QED  BY <1>6, <1>7, <1>8, <1>9 DEF Kept, LockInv

(* Every step keeps the invariant: most are benign.                        *)
LEMMA InvNext == IInv /\ [Next]_vars => IInv'
<1> SUFFICES ASSUME IInv, [Next]_vars PROVE IInv'
  OBVIOUS
<1>0. TypeInv
  BY DEF IInv
<1>a. TypeInv'
  BY <1>0, TypeNext
<1> SUFFICES Kept'
  BY <1>a DEF Kept, IInv
<1>b. Benign => Kept'
  BY BenignStep DEF Kept
<1>1. CASE ClientStep
  <2>1. CASE \E j \in Jobs : DeleteSpec(j)
    BY <2>1, <1>b, DeletingIsBenign DEF DeleteSpec
  <2>2. CASE ~ \E j \in Jobs : DeleteSpec(j)
    BY <1>1, <2>2, <1>b, LeavingLocksIsBenign
    DEF ClientStep, CreateSpec, InsertBackgroundContinuation, InsertSpec,
        UpdateSpecPartial, TriggerSpec, ghosts
  <2>3. QED  BY <2>1, <2>2
<1>2. CASE SchedulerStep
  <2>1. ASSUME NEW j \in Jobs, ReconcileJob(j) PROVE Kept'
    <3>1. PICK f \in Tasks, g \in Tasks :
            /\ FiresOneShot(j) => Free(f)
            /\ FiresTrigger(j) => Free(g)
            /\ task' = [t \in Tasks |->
                 IF t = f /\ FiresOneShot(j)
                 THEN NewTask(j, "oneshot", specs[j])
                 ELSE IF t = g /\ FiresTrigger(j)
                      THEN NewTask(j, "trigger", specs[j])
                 ELSE task[t]]
      BY <2>1 DEF ReconcileJob
    <3>2. \A t \in Tasks :
            task'[t] = task[t] \/ (Free(t) /\ task'[t].stage = "spawned")
      BY <3>1 DEF NewTask
    <3>3. Benign
      BY <2>1, <3>2, LeavingLocksIsBenign DEF ReconcileJob, ghosts, Free
    <3>4. QED  BY <1>b, <3>3
  <2>2. ASSUME NEW j \in Jobs, NEW t \in Tasks, LoopFires(j, t) PROVE Kept'
    <3>1. PICK via \in Origins :
            task' = [task EXCEPT ![t] = NewTask(j, via, loop[j].spec)]
      BY <2>2 DEF LoopFires, Origins
    <3>2. /\ Free(t) /\ task'[t].stage = "spawned"
          /\ \A u \in Tasks \ {t} : task'[u] = task[u]
      BY <1>0, <2>2, <3>1 DEF LoopFires, NewTask, TypeInv, TypeOK
    <3>3. Benign
      BY <2>2, <3>2, LeavingLocksIsBenign
      DEF LoopFires, persistent, ghosts, Free
    <3>4. QED  BY <1>b, <3>3
  <2>3. ASSUME NEW j \in Jobs, LoopDeletes(j) PROVE Kept'
    BY <2>3, <1>b, DeletingIsBenign DEF LoopDeletes
  <2>4. QED  BY <1>2, <2>1, <2>2, <2>3 DEF SchedulerStep
<1>3. CASE ExecuteStep
  <2>1. ASSUME NEW t \in Tasks, CheckLock(t) \/ Begin(t) PROVE Kept'
    BY <2>1, CheckLockKeeps, BeginKeeps
  <2>2. ASSUME NEW t \in Tasks, LockFileFails(t) PROVE Kept'
    <3>1. task[t].stage = "waiting" /\ UNCHANGED <<lock, breach, leftover>>
                                    /\ upgrading' = upgrading
      BY <2>2 DEF LockFileFails, persistent, ghosts
    <3>2. /\ task'[t].stage \in {"idle", "deleting"}
          /\ \A u \in Tasks \ {t} : task'[u] = task[u]
      BY <1>0, <2>2, ReturnStage DEF LockFileFails
    <3>3. QED  BY <1>b, <3>1, <3>2, LeavingLocksIsBenign
  <2>3. ASSUME NEW t \in Tasks,
               InsertFails(t) \/ LaunchFails(t) \/ LogDirFails(t)
                              \/ WaitFails(t)
        PROVE  Kept'
    <3>1. /\ PastLockCheck(t) /\ Unlock(task[t].job)
          /\ UNCHANGED <<breach, upgrading>>
      BY <2>3
      DEF InsertFails, LaunchFails, LogDirFails, WaitFails, PastLockCheck
    <3>2. /\ task'[t].stage \in {"idle", "deleting"}
          /\ \A u \in Tasks \ {t} : task'[u] = task[u]
      BY <1>0, <2>3, ReturnStage
      DEF InsertFails, LaunchFails, LogDirFails, WaitFails
    <3>3. QED  BY <1>b, <3>1, <3>2, UnlockingIsBenign
  <2>4. ASSUME NEW t \in Tasks, Exit(t) PROVE Kept'
    <3>1. PICK s \in {"parsing", "reflecting"} :
            task' = [task EXCEPT ![t] = [@ EXCEPT !.stage = s]]
      BY <2>4 DEF Exit
    <3>2. /\ task'[t].stage = s
          /\ \A u \in Tasks \ {t} : task'[u] = task[u]
      BY <1>0, <3>1 DEF TypeInv, TypeOK, Task
    <3>3. /\ PastLockCheck(t) /\ Unlock(task[t].job)
          /\ task[t].stage = "running" /\ UNCHANGED <<breach, upgrading>>
      BY <2>4 DEF Exit, PastLockCheck
    <3>4. QED  BY <1>b, <3>1, <3>2, <3>3, UnlockingIsBenign
  <2>5. ASSUME NEW t \in Tasks, Persists(t) PROVE Kept'
    <3>1. task[t].stage # "running" /\ UNCHANGED <<lock, breach, leftover>>
                                    /\ upgrading' = upgrading
      BY <2>5 DEF Persists, PersistOutput, PersistFailure, ghosts
    <3>2. /\ task'[t].stage \in {"idle", "deleting"}
          /\ \A u \in Tasks \ {t} : task'[u] = task[u]
      BY <1>0, <2>5, ReturnStage DEF Persists, PersistOutput, PersistFailure
    <3>3. QED  BY <1>b, <3>1, <3>2, LeavingLocksIsBenign
  <2>6. ASSUME NEW t \in Tasks, TaskDeletes(t) PROVE Kept'
    <3>1. /\ task[t].job \in Jobs /\ task[t].stage = "deleting"
          /\ task' = [task EXCEPT ![t] = Idle] /\ upgrading' = upgrading
          /\ DeleteOneShotSpec(task[t].job)
      BY <1>0, <2>6 DEF TaskDeletes, TypeInv, TaskHasJob, Free
    <3>2. /\ task'[t].stage = "idle"
          /\ \A u \in Tasks \ {t} : task'[u] = task[u]
      BY <1>0, <3>1 DEF Idle, TypeInv, TypeOK
    <3>3. QED  BY <1>b, <3>1, <3>2, DeletingIsBenign
  <2>7. QED
    BY <1>3, <2>1, <2>2, <2>3, <2>4, <2>5, <2>6
    DEF ExecuteStep, Starts, RunEnds
<1>4. CASE ProcessStep
  <2>1. CASE Shutdown \/ Drained
    BY <2>1, <1>b, LeavingLocksIsBenign
    DEF Shutdown, Drained, persistent, ghosts
  <2>2. CASE Restart
    <3>1. \A t \in Tasks : task'[t].stage = "idle"
      BY <2>2 DEF Restart, Idle
    <3>2. LockInv'
      BY <3>1 DEF LockInv, OnePastLockCheck, RunningIsLocked, PastLockCheck
    <3>3. UpgradeExcludesRuns' /\ LockHasOwner'
      BY <2>2 DEF Restart, persistent, UpgradeExcludesRuns, LockHasOwner
    <3>4. QED  BY <3>2, <3>3 DEF Kept
  <2>3. QED  BY <1>4, <2>1, <2>2 DEF ProcessStep
<1>5. CASE WorldStep
  <2>1. CASE UpgradeStarts
    <3>1. LockInv' /\ LockHasOwner'
      BY <2>1 DEF UpgradeStarts, persistent, ghosts, IInv, LockInv,
        OnePastLockCheck, RunningIsLocked, PastLockCheck, LockHasOwner,
        RunningOf
    <3>2. UpgradeExcludesRuns'
      BY <2>1 DEF UpgradeStarts, UpgradeExcludesRuns, HoldsUpgradeLock
    <3>3. QED  BY <3>1, <3>2 DEF Kept
  <2>2. ASSUME NEW j \in Jobs, LockAges(j) PROVE Kept'
    <3>1. /\ lock' = [lock EXCEPT ![j] = "stale"] /\ lock[j] = "fresh"
          /\ UNCHANGED <<task, upgrading, leftover>>
          /\ breach' = IF RunningOf(j) = {} THEN breach
                       ELSE [breach EXCEPT ![j] = @ \cup {"ttl"}]
      BY <2>2 DEF LockAges
    <3>2. \A i \in Jobs : breach'[i] = {} => breach[i] = {}
      BY <1>0, <3>1 DEF TypeInv, TypeOK
    <3>3. RunningOf(j) # {} => breach'[j] # {}
      BY <1>0, <3>1 DEF TypeInv, TypeOK
    <3>4. \A i \in Jobs \ {j} : lock'[i] = lock[i]
      BY <1>0, <3>1 DEF TypeInv, TypeOK
    <3>5. \A t \in Tasks : task[t].stage = "running" =>
            \/ lock[task[t].job] = "fresh" => lock'[task[t].job] = "fresh"
            \/ breach'[task[t].job] # {}
      <4> SUFFICES ASSUME NEW t \in Tasks, task[t].stage = "running"
                   PROVE  \/ task[t].job \in Jobs \ {j}
                          \/ breach'[task[t].job] # {}
        BY <3>4
      <4>1. task[t].job \in Jobs
        BY <1>0 DEF TypeInv, TaskHasJob, Free
      <4>2. task[t].job = j => breach'[j] # {}
        BY <3>3 DEF RunningOf
      <4>3. QED  BY <4>1, <4>2
    <3>6. Quiet
      BY <3>1, <3>2, <3>5 DEF Quiet, PastLockCheck
    <3>7. \A i \in Jobs : lock'[i] # "none" => lock[i] # "none"
      BY <3>1, <3>4
    <3>8. Benign
      BY <3>1, <3>6, <3>7 DEF Benign, HoldsUpgradeLock
    <3>9. QED  BY <1>b, <3>8
  <2>3. CASE UpgradeEnds
    BY <2>3, <1>b, LeavingLocksIsBenign DEF UpgradeEnds, persistent, ghosts
  <2>4. ASSUME NEW r \in RunIds, MarkDelivered(r) PROVE Kept'
    BY <2>4, <1>b, LeavingLocksIsBenign DEF MarkDelivered
  <2>5. ASSUME NEW j \in Jobs, RunAtComesDue(j) PROVE Kept'
    BY <2>5, <1>b, LeavingLocksIsBenign DEF RunAtComesDue, ghosts
  <2>6. QED  BY <1>5, <2>1, <2>2, <2>3, <2>4, <2>5 DEF WorldStep
<1>6. CASE UNCHANGED vars
  BY <1>6, <1>b, LeavingLocksIsBenign DEF vars, persistent, ghosts
<1>7. QED  BY <1>1, <1>2, <1>3, <1>4, <1>5, <1>6 DEF Next

LEMMA Invariant == SafetySpec => []IInv
  BY InvInit, InvNext, PTL DEF SafetySpec

(* The lock file keeps the runs of a job apart, short of the three ways in *)
(* which it cannot: proved for any number of tasks, jobs and upgrades.     *)
THEOREM LockExcludes == SafetySpec => []OverlapOnlyByBreach
<1>1. IInv => OverlapOnlyByBreach
  BY DEF IInv, LockInv, OnePastLockCheck, PastLockCheck, OverlapOnlyByBreach
<1>2. QED  BY <1>1, Invariant, PTL

(* The lock file discipline on which LockExcludes rests.                   *)
THEOREM LockDiscipline == SafetySpec => []LockInv
<1>1. IInv => LockInv
  BY DEF IInv
<1>2. QED  BY <1>1, Invariant, PTL

(* A run and an upgrade never overlap.                                     *)
THEOREM UpgradeExcluded == SafetySpec => []UpgradeExcludesRuns
<1>1. IInv => UpgradeExcludesRuns
  BY DEF IInv
<1>2. QED  BY <1>1, Invariant, PTL

(* No path of execute_job leaks a lock file.                               *)
THEOREM LockOwned == SafetySpec => []LockHasOwner
<1>1. IInv => LockHasOwner
  BY DEF IInv
<1>2. QED  BY <1>1, Invariant, PTL

-----------------------------------------------------------------------------
(* A one-shot cron spec fires once.  What a task is, by where it came from, *)
(* and what loops there are.                                               *)

OriginKinds ==
  \A t \in Tasks : ~Free(t) =>
    /\ task[t].via = "oneshot" => IsRunJobLoopSkipKind(task[t].snap.kind)
    /\ task[t].via = "loop" => ~IsOneShot(task[t].snap.kind)
    /\ task[t].via = "cronloop" => task[t].snap.kind = "OneShotCron"
    /\ task[t].via \in Origins

LoopKinds ==
  \A j \in Jobs : loop[j].st # "none" => ~IsRunJobLoopSkipKind(loop[j].spec.kind)

KindsInv == OriginKinds /\ LoopKinds

(* A task of a one-shot cron loop, spawned for the spec as it stands.       *)
OfLoop(t) == ~Free(t) /\ task[t].via = "cronloop" /\ OnSchedule(t)

(* The loop of such a task awaits it; there is one such task of a job; and  *)
(* once one has begun there will be no other, since the loop has gone on to *)
(* delete the spec.                                                        *)
Awaited == \A t \in Tasks : OfLoop(t) /\ phase = "up" =>
             loop[task[t].job] = [st |-> "awaiting", spec |-> task[t].snap, task |-> t]
Single == \A t, u \in Tasks : OfLoop(t) /\ OfLoop(u) /\ task[t].job = task[u].job => t = u
Spent ==
  \A j \in scheduled : specs[j].kind = "OneShotCron" =>
    /\ \A t \in Tasks : OfLoop(t) /\ task[t].job = j =>
                          task[t].stage \notin {"spawned", "waiting"}
    /\ phase = "up" => /\ loop[j].st \in {"awaiting", "deleting", "ended"}
                       /\ loop[j].spec = specs[j]

OnceInv == KindsInv /\ (restarts = 0 => Awaited /\ Single /\ Spent)

(* Task t is what it was, or has ended, or is new, but not of a cron loop.  *)
SameFire(t) ==
  /\ ~Free(t)
  /\ task'[t].job = task[t].job /\ task'[t].via = task[t].via
  /\ task'[t].snap = task[t].snap
  /\ task'[t].stage \in {"spawned", "waiting"} => task[t].stage \in {"spawned", "waiting"}
  /\ t \in outdated => t \in outdated'
TaskGoesOn(t) ==
  \/ task'[t].stage = "idle"
  \/ SameFire(t)
  \/ task'[t].via = "oneshot" /\ IsRunJobLoopSkipKind(task'[t].snap.kind)
  \/ task'[t].via = "trigger"

(* The loop of j is what it was, or goes on from a task that has ended, or  *)
(* is made anew because the spec has changed, or away with all loops.       *)
LoopGoesOn(j) ==
  \/ loop'[j] = loop[j]
  \/ /\ loop[j].st = "awaiting" /\ loop'[j].st = "deleting"
     /\ loop'[j].spec = loop[j].spec
     /\ task'[loop[j].task].stage = "idle" \/ task'[loop[j].task].via # "cronloop"
  \/ /\ loop[j].st = "deleting" /\ loop'[j].st = "ended"
     /\ loop'[j].spec = loop[j].spec
  \/ /\ \/ phase' # "up" \/ loop[j].st = "none"
        \/ loop[j].spec # specs[j] \/ specs[j].kind # "OneShotCron"
     /\ loop'[j].st # "none" => ~IsRunJobLoopSkipKind(loop'[j].spec.kind)

(* A spec is what it was, or gone, or new to its live tasks.                *)
SpecGoesOn(j) ==
  \/ specs'[j] = specs[j] \/ specs'[j] = NoSpec
  \/ j \notin scheduled' /\ LiveOf(j) \subseteq outdated'

Onward ==
  /\ \A t \in Tasks : TaskGoesOn(t)
  /\ \A j \in Jobs : LoopGoesOn(j) /\ SpecGoesOn(j)
  /\ scheduled' \subseteq scheduled
  /\ phase' = "up" => phase = "up"
  /\ restarts' = restarts

LEMMA OnwardKinds ==
  ASSUME TypeInv, KindsInv, Onward
  PROVE  KindsInv'
<1>1. ASSUME NEW t \in Tasks, task'[t].stage # "idle"
      PROVE  /\ task'[t].via = "oneshot" => IsRunJobLoopSkipKind(task'[t].snap.kind)
             /\ task'[t].via = "loop" => ~IsOneShot(task'[t].snap.kind)
             /\ task'[t].via = "cronloop" => task'[t].snap.kind = "OneShotCron"
             /\ task'[t].via \in Origins
  <2>1. TaskGoesOn(t)
    BY DEF Onward
  <2>2. QED  BY <1>1, <2>1 DEF TaskGoesOn, SameFire, KindsInv, OriginKinds, Origins
<1>2. ASSUME NEW j \in Jobs, loop'[j].st # "none"
      PROVE  ~IsRunJobLoopSkipKind(loop'[j].spec.kind)
  <2>1. LoopGoesOn(j)
    BY DEF Onward
  <2>2. QED  BY <1>2, <2>1 DEF LoopGoesOn, KindsInv, LoopKinds
<1>3. QED  BY <1>1, <1>2 DEF KindsInv, OriginKinds, LoopKinds, Free

(* A task of a loop was one before.                                        *)
LEMMA OnwardOfLoop ==
  ASSUME TypeInv, KindsInv, Onward, NEW t \in Tasks, OfLoop(t)'
  PROVE  /\ OfLoop(t) /\ SameFire(t) /\ task[t].job \in Jobs
         /\ specs'[task[t].job] = specs[task[t].job]
<1>1. /\ task'[t].stage # "idle" /\ task'[t].via = "cronloop" /\ t \notin outdated'
      /\ task'[t].snap = specs'[task'[t].job]
  BY DEF OfLoop, Free, OnSchedule
<1>2. TaskGoesOn(t)
  BY DEF Onward
<1>3. SameFire(t)
  BY <1>1, <1>2 DEF TaskGoesOn
<1>4. task[t].job \in Jobs /\ t \in LiveOf(task[t].job) /\ t \notin outdated
  BY <1>1, <1>3 DEF SameFire, TypeInv, TaskHasJob, LiveOf
<1>5. SpecGoesOn(task[t].job)
  BY <1>4 DEF Onward
<1>6. task[t].snap.kind = "OneShotCron"
  BY <1>1, <1>3 DEF SameFire, KindsInv, OriginKinds
<1>7. specs'[task[t].job] = specs[task[t].job]
  BY <1>1, <1>3, <1>4, <1>5, <1>6 DEF SpecGoesOn, SameFire, NoSpec
<1>8. QED  BY <1>1, <1>3, <1>4, <1>7 DEF SameFire, OfLoop, OnSchedule

LEMMA OnwardOnce ==
  ASSUME TypeInv, OnceInv, Onward
  PROVE  OnceInv'
<1>1. KindsInv /\ KindsInv'
  BY OnwardKinds DEF OnceInv
<1> SUFFICES ASSUME restarts' = 0 PROVE Awaited' /\ Single' /\ Spent'
  BY <1>1 DEF OnceInv
<1>2. Awaited /\ Single /\ Spent
  BY DEF OnceInv, Onward
<1>3. \A t \in Tasks : OfLoop(t)' =>
        /\ OfLoop(t) /\ SameFire(t) /\ task[t].job \in Jobs
        /\ specs'[task[t].job] = specs[task[t].job]
  BY <1>1, OnwardOfLoop
<1>4. Awaited'
  <2> SUFFICES ASSUME NEW t \in Tasks, OfLoop(t)', phase' = "up"
               PROVE  loop'[task'[t].job] =
                        [st |-> "awaiting", spec |-> task'[t].snap, task |-> t]
    BY DEF Awaited
  <2> DEFINE j == task[t].job
  <2>1. /\ OfLoop(t) /\ j \in Jobs /\ task'[t].job = j /\ task'[t].snap = task[t].snap
        /\ specs[j] = task[t].snap
    BY <1>3 DEF SameFire, OfLoop, OnSchedule
  <2>2. loop[j] = [st |-> "awaiting", spec |-> task[t].snap, task |-> t]
    BY <1>2, <2>1 DEF Awaited, Onward
  <2>3. task'[t].stage # "idle" /\ task'[t].via = "cronloop"
    BY DEF OfLoop, Free
  <2>4. specs[j].kind = "OneShotCron"
    BY <1>1, <2>1 DEF KindsInv, OriginKinds, OfLoop
  <2>5. LoopGoesOn(j)
    BY <2>1 DEF Onward
  <2>6. loop'[j] = loop[j]
    BY <2>1, <2>2, <2>3, <2>4, <2>5 DEF LoopGoesOn
  <2>7. QED  BY <2>1, <2>2, <2>6
<1>5. Single'
  BY <1>2, <1>3 DEF Single, SameFire
<1>6. Spent'
  <2> SUFFICES ASSUME NEW j \in scheduled', specs'[j].kind = "OneShotCron"
               PROVE  /\ \A t \in Tasks : OfLoop(t)' /\ task'[t].job = j =>
                           task'[t].stage \notin {"spawned", "waiting"}
                      /\ phase' = "up" =>
                           /\ loop'[j].st \in {"awaiting", "deleting", "ended"}
                           /\ loop'[j].spec = specs'[j]
    BY DEF Spent
  <2>1. j \in scheduled /\ j \in Jobs
    BY DEF Onward, TypeInv, TypeOK
  <2>2. SpecGoesOn(j) /\ LoopGoesOn(j)
    BY <2>1 DEF Onward
  <2>3. specs'[j] = specs[j]
    BY <2>2 DEF SpecGoesOn, NoSpec
  <2>4. \A t \in Tasks : OfLoop(t)' /\ task'[t].job = j =>
          task'[t].stage \notin {"spawned", "waiting"}
    BY <1>2, <1>3, <2>1, <2>3 DEF Spent, SameFire
  <2>5. phase' = "up" => /\ loop[j].st \in {"awaiting", "deleting", "ended"}
                         /\ loop[j].spec = specs[j]
    BY <1>2, <2>1, <2>3 DEF Spent, Onward
  <2>6. phase' = "up" => /\ loop'[j].st \in {"awaiting", "deleting", "ended"}
                         /\ loop'[j].spec = specs'[j]
    BY <2>2, <2>3, <2>5 DEF LoopGoesOn
  <2>7. QED  BY <2>4, <2>6
<1>7. QED  BY <1>4, <1>5, <1>6

(* Tasks and specs left alone go on.                                        *)
LEMMA SameTaskGoesOn ==
  ASSUME outdated \subseteq outdated'
  PROVE  \A t \in Tasks : task'[t] = task[t] => TaskGoesOn(t)
  BY DEF TaskGoesOn, SameFire, Free

LEMMA ReturnGoesOn ==
  ASSUME TypeInv, NEW t \in Tasks, ~Free(t), Return(t), outdated' = outdated
  PROVE  /\ \A u \in Tasks : TaskGoesOn(u)
         /\ \A j \in Jobs : LoopGoesOn(j)
<1>1. \A u \in Tasks \ {t} : task'[u] = task[u]
  BY DEF Return, TypeInv, TypeOK
<1>2. /\ task[t] \in Task
      /\ task'[t] = IF task[t].via = "oneshot" THEN [task[t] EXCEPT !.stage = "deleting"] ELSE Idle
  BY DEF Return, TypeInv, TypeOK
<1>3. task'[t].stage = "idle" \/ task'[t].via # "cronloop"
  BY <1>2 DEF Idle, Task
<1>4. TaskGoesOn(t)
  BY <1>2 DEF TaskGoesOn, SameFire, Idle, Task
<1>5. ASSUME NEW j \in Jobs PROVE LoopGoesOn(j)
  <2>1. loop[j] \in Loop
    BY DEF TypeInv, TypeOK
  <2>2. CASE loop[j].st = "awaiting" /\ loop[j].task = t
    <3>1. loop'[j] = [loop[j] EXCEPT !.st = "deleting"]
      BY <2>2 DEF Return
    <3>2. QED  BY <1>3, <2>1, <2>2, <3>1 DEF LoopGoesOn, Loop
  <2>3. CASE ~(loop[j].st = "awaiting" /\ loop[j].task = t)
    BY <2>3 DEF Return, LoopGoesOn
  <2>4. QED  BY <2>2, <2>3
<1>6. QED  BY <1>1, <1>4, <1>5, SameTaskGoesOn

(* So does a task that gets to another stage, not before its lock file.     *)
LEMMA StageGoesOn ==
  ASSUME TypeInv, NEW t \in Tasks, ~Free(t), outdated' = outdated,
         NEW st \in Stages, task' = [task EXCEPT ![t].stage = st],
         st = "waiting" => task[t].stage = "spawned", st # "spawned"
  PROVE  \A u \in Tasks : TaskGoesOn(u)
<1>1. \A u \in Tasks \ {t} : task'[u] = task[u]
  BY DEF TypeInv, TypeOK
<1>2. task[t] \in Task /\ task'[t] = [task[t] EXCEPT !.stage = st]
  BY DEF TypeInv, TypeOK
<1>3. TaskGoesOn(t)
  BY <1>2 DEF TaskGoesOn, SameFire, Task
<1>4. QED  BY <1>1, <1>3, SameTaskGoesOn

LEMMA SameGoOn ==
  /\ loop' = loop => \A j \in Jobs : LoopGoesOn(j)
  /\ specs' = specs => \A j \in Jobs : SpecGoesOn(j)
  BY DEF LoopGoesOn, SpecGoesOn

LEMMA DeletedGoesOn ==
  ASSUME TypeInv, NEW j \in Jobs, DeleteOneShotSpec(j) \/ RemoveSpec(j)
  PROVE  \A i \in Jobs : SpecGoesOn(i)
  BY DEF DeleteOneShotSpec, RemoveSpec, SpecGoesOn, TypeInv, TypeOK

LEMMA EditedGoesOn ==
  ASSUME TypeInv, NEW j \in Jobs, Edited(j), NEW sp, specs' = [specs EXCEPT ![j] = sp]
  PROVE  /\ \A i \in Jobs : SpecGoesOn(i)
         /\ scheduled' \subseteq scheduled /\ outdated \subseteq outdated'
  BY DEF SpecGoesOn, TypeInv, TypeOK

LEMMA ClientGoesOn ==
  ASSUME TypeInv, ClientStep
  PROVE  Onward
<1>1. ASSUME NEW j \in Jobs, NEW k, NEW c, InsertSpec(j, k, c),
             restarts' = restarts
      PROVE  Onward
  BY <1>1, EditedGoesOn, SameGoOn, SameTaskGoesOn DEF InsertSpec, Onward
<1>2. ASSUME NEW j \in Jobs, NEW new, UpdateSpecPartial(j, new)
      PROVE  Onward
  BY <1>2, EditedGoesOn, SameGoOn, SameTaskGoesOn DEF UpdateSpecPartial, Onward
<1>3. ASSUME NEW j \in Jobs, DeleteSpec(j) PROVE Onward
  BY <1>3, DeletedGoesOn, SameGoOn, SameTaskGoesOn DEF DeleteSpec, Onward
<1>4. ASSUME NEW j \in Jobs, TriggerSpec(j) PROVE Onward
  BY <1>4, SameGoOn, SameTaskGoesOn DEF TriggerSpec, bounds, ghosts, Onward
<1>5. QED
  BY <1>1, <1>2, <1>3, <1>4
  DEF ClientStep, CreateSpec, InsertBackgroundContinuation, InsertSpec

LEMMA ExecuteGoesOn ==
  ASSUME TypeInv, NEW t \in Tasks,
         \/ CheckLock(t) \/ LockFileFails(t) \/ InsertFails(t) \/ RunEnds(t)
         \/ Persists(t) \/ TaskDeletes(t)
  PROVE  Onward
<1>1. /\ ~Free(t) /\ outdated' = outdated /\ scheduled' = scheduled
      /\ phase' = phase /\ restarts' = restarts
  BY DEF CheckLock, LockFileFails, InsertFails, RunEnds, LaunchFails, LogDirFails,
         WaitFails, Exit, Persists, PersistOutput, PersistFailure, TaskDeletes,
         bounds, ghosts, Free
<1>2. CASE TaskDeletes(t)
  <2>1. task[t].job \in Jobs
    BY <1>1 DEF TypeInv, TaskHasJob
  <2>2. \A u \in Tasks : TaskGoesOn(u)
    <3>1. task'[t].stage = "idle" /\ \A u \in Tasks \ {t} : task'[u] = task[u]
      BY <1>2 DEF TaskDeletes, TypeInv, TypeOK, Idle
    <3>2. QED  BY <1>1, <3>1, SameTaskGoesOn DEF TaskGoesOn
  <2>3. QED  BY <1>1, <1>2, <2>1, <2>2, DeletedGoesOn, SameGoOn DEF TaskDeletes, Onward
<1>3. CASE ~TaskDeletes(t)
  <2>1. specs' = specs
    BY <1>3 DEF CheckLock, LockFileFails, InsertFails, RunEnds, LaunchFails, LogDirFails,
           WaitFails, Exit, Persists, PersistOutput, PersistFailure, persistent
  <2>2. CASE Return(t)
    BY <1>1, <2>1, <2>2, ReturnGoesOn, SameGoOn DEF Onward
  <2>3. CASE ~Return(t)
    <3>1. /\ loop' = loop
          /\ \E st \in {"waiting", "parsing", "reflecting"} :
               /\ task' = [task EXCEPT ![t].stage = st]
               /\ st = "waiting" => task[t].stage = "spawned"
      BY <1>3, <2>3 DEF CheckLock, LockFileFails, InsertFails, RunEnds, LaunchFails,
             LogDirFails, WaitFails, Exit, Persists, PersistOutput, PersistFailure
    <3>2. {"waiting", "parsing", "reflecting"} \subseteq Stages
      BY DEF Stages
    <3>3. \A u \in Tasks : TaskGoesOn(u)
      BY <1>1, <3>1, <3>2, StageGoesOn
    <3>4. QED  BY <1>1, <2>1, <3>1, <3>3, SameGoOn DEF Onward
  <2>4. QED  BY <2>2, <2>3
<1>4. QED  BY <1>2, <1>3

LEMMA ReconcileGoesOn ==
  ASSUME TypeInv, NEW j \in Jobs, ReconcileJob(j)
  PROVE  Onward
<1>1. PICK f \in Tasks, g \in Tasks :
        /\ g # f
        /\ FiresOneShot(j) => Free(f)
        /\ FiresTrigger(j) => Free(g)
        /\ task' = [t \in Tasks |->
              IF t = f /\ FiresOneShot(j) THEN NewTask(j, "oneshot", specs[j])
              ELSE IF t = g /\ FiresTrigger(j) THEN NewTask(j, "trigger", specs[j])
              ELSE task[t]]
  BY DEF ReconcileJob
<1>2. /\ loop' = [loop EXCEPT ![j] = LoopOf(j)] /\ specs' = specs
      /\ outdated' = {t \in outdated : ~Free(t)} /\ scheduled' = scheduled
      /\ phase' = phase /\ restarts' = restarts
  BY DEF ReconcileJob, bounds
<1>3. ASSUME NEW t \in Tasks PROVE TaskGoesOn(t)
  <2>1. CASE t = f /\ FiresOneShot(j)
    <3>1. task'[t] = NewTask(j, "oneshot", specs[j])
      BY <1>1, <2>1
    <3>2. IsRunJobLoopSkipKind(specs[j].kind)
      BY <2>1 DEF FiresOneShot, IsReconcileTickKind, IsRunJobLoopSkipKind
    <3>3. QED  BY <3>1, <3>2 DEF NewTask, TaskGoesOn
  <2>2. CASE t = g /\ FiresTrigger(j)
    <3>1. task'[t] = NewTask(j, "trigger", specs[j])
      BY <1>1, <2>2
    <3>2. QED  BY <3>1 DEF NewTask, TaskGoesOn
  <2>3. CASE task'[t] = task[t]
    BY <1>2, <2>3 DEF TaskGoesOn, SameFire, Free
  <2>4. QED  BY <1>1, <2>1, <2>2, <2>3
<1>4. ASSUME NEW i \in Jobs PROVE LoopGoesOn(i)
  <2>1. CASE i # j
    BY <1>2, <2>1 DEF LoopGoesOn, TypeInv, TypeOK
  <2>2. CASE i = j
    <3>1. loop'[j] = LoopOf(j)
      BY <1>2 DEF TypeInv, TypeOK
    <3>2. CASE loop[j].st = "none" \/ loop[j].spec # specs[j] \/ specs[j].kind # "OneShotCron"
      BY <2>2, <3>1, <3>2 DEF LoopOf, LoopGoesOn, NoLoop
    <3>3. CASE /\ loop[j].st # "none" /\ loop[j].spec = specs[j]
               /\ specs[j].kind = "OneShotCron"
      BY <2>2, <3>1, <3>3 DEF LoopOf, LoopGoesOn, NoSpec, IsRunJobLoopSkipKind
    <3>4. QED  BY <3>2, <3>3
  <2>3. QED  BY <2>1, <2>2
<1>5. QED  BY <1>2, <1>3, <1>4, SameGoOn DEF Onward

LEMMA LoopDeletesGoesOn ==
  ASSUME TypeInv, NEW j \in Jobs, LoopDeletes(j)
  PROVE  Onward
<1>1. /\ task' = task /\ outdated' = outdated /\ scheduled' = scheduled
      /\ phase' = phase /\ restarts' = restarts
      /\ loop[j].st = "deleting" /\ DeleteOneShotSpec(j)
      /\ loop' = [loop EXCEPT ![j] = [@ EXCEPT !.st = "ended", !.task = NoTask]]
  BY DEF LoopDeletes, bounds
<1>2. ASSUME NEW i \in Jobs PROVE LoopGoesOn(i)
  <2>1. CASE i = j
    <3>1. loop[j] \in Loop
      BY DEF TypeInv, TypeOK
    <3>2. loop'[j] = [loop[j] EXCEPT !.st = "ended", !.task = NoTask]
      BY <1>1 DEF TypeInv, TypeOK
    <3>3. QED  BY <1>1, <2>1, <3>1, <3>2 DEF LoopGoesOn, Loop
  <2>2. CASE i # j
    BY <1>1, <2>2 DEF LoopGoesOn, TypeInv, TypeOK
  <2>3. QED  BY <2>1, <2>2
<1>3. QED  BY <1>1, <1>2, DeletedGoesOn, SameTaskGoesOn DEF Onward

LEMMA WorldGoesOn ==
  ASSUME TypeInv, Shutdown \/ Drained \/ WorldStep \/ UNCHANGED vars
  PROVE  Onward
<1>1. /\ task' = task /\ specs' = specs /\ outdated' = outdated
      /\ scheduled' = scheduled /\ restarts' = restarts
      /\ phase' = "up" => phase = "up"
  BY DEF Shutdown, Drained, WorldStep, MarkDelivered, LockAges, RunAtComesDue,
         UpgradeStarts, UpgradeEnds, persistent, bounds, ghosts, vars
<1>2. \A j \in Jobs : LoopGoesOn(j)
  <2>1. CASE Shutdown
    BY <2>1 DEF Shutdown, LoopGoesOn, NoLoop
  <2>2. CASE ~Shutdown
    <3>1. loop' = loop
      BY <2>2 DEF Drained, WorldStep, MarkDelivered, LockAges, RunAtComesDue,
             UpgradeStarts, UpgradeEnds, persistent, bounds, ghosts, vars
    <3>2. QED  BY <3>1, SameGoOn
  <2>3. QED  BY <2>1, <2>2
<1>3. QED  BY <1>1, <1>2, SameGoOn, SameTaskGoesOn DEF Onward

(* A restart leaves no task, and the claim is of a first process.           *)
LEMMA RestartOnce ==
  ASSUME TypeInv, OnceInv, Restart
  PROVE  OnceInv'
<1>1. restarts' # 0
  BY DEF Restart, TypeInv, TypeOK
<1>2. KindsInv'
  BY DEF Restart, KindsInv, OriginKinds, LoopKinds, Idle, Free, NoLoop
<1>3. QED  BY <1>1, <1>2 DEF OnceInv

(* A loop that sleeps awaits no task: the one it spawns is its only one.    *)
LEMMA LoopFiresOnce ==
  ASSUME TypeInv, OnceInv, NEW j \in Jobs, NEW t \in Tasks, LoopFires(j, t)
  PROVE  OnceInv'
<1> DEFINE once == IsOneShot(loop[j].spec.kind)
           via == IF once THEN "cronloop" ELSE "loop"
<1>1. /\ phase = "up" /\ phase' = phase /\ restarts' = restarts /\ specs' = specs
      /\ scheduled' = scheduled /\ Free(t) /\ loop[j].st = "sleeping"
      /\ outdated' = {u \in outdated : ~Free(u)}
      /\ task' = [task EXCEPT ![t] = NewTask(j, via, loop[j].spec)]
      /\ loop' = IF once THEN [loop EXCEPT ![j] = [@ EXCEPT !.st = "awaiting", !.task = t]]
                         ELSE loop
  BY DEF LoopFires, persistent, bounds
<1>2. /\ loop[j] \in Loop /\ ~IsRunJobLoopSkipKind(loop[j].spec.kind)
      /\ loop[j].spec.kind \in Kinds \cup {"none"}
  BY <1>1 DEF TypeInv, TypeOK, OnceInv, KindsInv, LoopKinds, Loop, CronSpec, NoSpec
<1>3. once => loop[j].spec.kind = "OneShotCron"
  BY <1>2 DEF IsOneShot, IsRunJobLoopSkipKind
<1>4. /\ task'[t] = NewTask(j, via, loop[j].spec)
      /\ \A u \in Tasks \ {t} : task'[u] = task[u]
      /\ \A i \in Jobs \ {j} : loop'[i] = loop[i]
      /\ loop'[j] = IF once THEN [loop[j] EXCEPT !.st = "awaiting", !.task = t] ELSE loop[j]
      /\ loop'[j].spec = loop[j].spec /\ loop'[j].st # "none"
  BY <1>1, <1>2 DEF TypeInv, TypeOK, Loop
<1>5. /\ task'[t].job = j /\ task'[t].via = via /\ task'[t].snap = loop[j].spec
      /\ task'[t].stage = "spawned"
  BY <1>4 DEF NewTask
<1>6. KindsInv'
  <2>1. OriginKinds'
    BY <1>3, <1>4, <1>5 DEF OnceInv, KindsInv, OriginKinds, Free, Origins
  <2>2. LoopKinds'
    BY <1>1, <1>2, <1>4 DEF OnceInv, KindsInv, LoopKinds
  <2>3. QED  BY <2>1, <2>2 DEF KindsInv
<1> SUFFICES ASSUME restarts' = 0 PROVE Awaited' /\ Single' /\ Spent'
  BY <1>6 DEF OnceInv
<1>7. Awaited /\ Single /\ Spent
  BY <1>1 DEF OnceInv
<1>8. \A u \in Tasks \ {t} : OfLoop(u)' =>
        OfLoop(u) /\ task[u].job \in Jobs /\ task[u].job # j
  <2> SUFFICES ASSUME NEW u \in Tasks \ {t}, OfLoop(u)'
               PROVE  OfLoop(u) /\ task[u].job \in Jobs /\ task[u].job # j
    OBVIOUS
  <2>1. OfLoop(u)
    BY <1>1, <1>4 DEF OfLoop, Free, OnSchedule
  <2>2. loop[task[u].job] = [st |-> "awaiting", spec |-> task[u].snap, task |-> u]
    BY <1>1, <1>7, <2>1 DEF Awaited
  <2>3. loop[task[u].job].st = "awaiting"
    BY <2>2
  <2>4. QED  BY <1>1, <2>1, <2>3 DEF OfLoop, TypeInv, TaskHasJob
<1>9. Single'
  BY <1>4, <1>5, <1>7, <1>8 DEF Single
<1>10. Awaited'
  <2> SUFFICES ASSUME NEW u \in Tasks, OfLoop(u)'
               PROVE  loop'[task'[u].job] =
                        [st |-> "awaiting", spec |-> task'[u].snap, task |-> u]
    BY DEF Awaited
  <2>1. CASE u = t
    <3>1. once
      BY <1>5, <2>1 DEF OfLoop
    <3>2. loop'[j] = [loop[j] EXCEPT !.st = "awaiting", !.task = t]
      BY <1>4, <3>1
    <3>3. QED  BY <1>2, <1>5, <2>1, <3>2 DEF Loop
  <2>2. CASE u # t
    BY <1>1, <1>4, <1>7, <1>8, <2>2 DEF Awaited
  <2>3. QED  BY <2>1, <2>2
<1>11. Spent'
  <2> SUFFICES ASSUME NEW i \in scheduled, specs[i].kind = "OneShotCron"
               PROVE  /\ \A u \in Tasks : OfLoop(u)' /\ task'[u].job = i =>
                           task'[u].stage \notin {"spawned", "waiting"}
                      /\ loop'[i].st \in {"awaiting", "deleting", "ended"}
                      /\ loop'[i].spec = specs[i]
    BY <1>1 DEF Spent
  <2>1. i \in Jobs /\ i # j
    BY <1>1, <1>7 DEF Spent, TypeInv, TypeOK
  <2>2. QED  BY <1>1, <1>4, <1>5, <1>7, <1>8, <2>1 DEF Spent
<1>12. QED  BY <1>9, <1>10, <1>11

(* The run that begins is that of the one task of its loop.                 *)
LEMMA BeginOnce ==
  ASSUME TypeInv, OnceInv, NEW t \in Tasks, Begin(t)
  PROVE  OnceInv'
<1> DEFINE j == task[t].job
<1>1. /\ phase' = phase /\ restarts' = restarts /\ specs' = specs /\ loop' = loop
      /\ outdated' = outdated /\ task[t].stage = "waiting" /\ ~Free(t)
      /\ scheduled' = IF OnSchedule(t) THEN scheduled \cup {j} ELSE scheduled
  BY DEF Begin, bounds, Free
<1>2. PICK r \in RunIds : task' = [task EXCEPT ![t] = [@ EXCEPT !.stage = "running", !.run = r]]
  BY DEF Begin
<1>3. /\ task[t] \in Task /\ j \in Jobs
      /\ task'[t] = [task[t] EXCEPT !.stage = "running", !.run = r]
      /\ \A u \in Tasks \ {t} : task'[u] = task[u]
  BY <1>1, <1>2 DEF TypeInv, TypeOK, TaskHasJob
<1>4. /\ \A u \in Tasks : /\ task'[u].job = task[u].job /\ task'[u].via = task[u].via
                          /\ task'[u].snap = task[u].snap
                          /\ task'[u].stage # "idle" => task[u].stage # "idle"
      /\ task'[t].stage = "running"
  BY <1>1, <1>3, ZenonT(30) DEF Task
<1>5. \A u \in Tasks : OfLoop(u)' => OfLoop(u)
  BY <1>1, <1>4 DEF OfLoop, OnSchedule, Free
<1>6. KindsInv'
  BY <1>1, <1>4 DEF OnceInv, KindsInv, OriginKinds, LoopKinds, Free
<1> SUFFICES ASSUME restarts' = 0 PROVE Awaited' /\ Single' /\ Spent'
  BY <1>6 DEF OnceInv
<1>7. Awaited /\ Single /\ Spent /\ OriginKinds
  BY <1>1 DEF OnceInv, KindsInv
<1>8. Awaited' /\ Single'
  BY <1>1, <1>4, <1>5, <1>7 DEF Awaited, Single
<1>9. Spent'
  <2> SUFFICES ASSUME NEW i \in scheduled', specs[i].kind = "OneShotCron"
               PROVE  /\ \A u \in Tasks : OfLoop(u)' /\ task'[u].job = i =>
                           task'[u].stage \notin {"spawned", "waiting"}
                      /\ phase = "up" =>
                           /\ loop[i].st \in {"awaiting", "deleting", "ended"}
                           /\ loop[i].spec = specs[i]
    BY <1>1 DEF Spent
  <2>1. CASE i \in scheduled
    BY <1>3, <1>4, <1>5, <1>7, <2>1, ZenonT(30) DEF Spent
  <2>2. CASE i \notin scheduled
    <3>1. i = j /\ OnSchedule(t)
      BY <1>1, <2>2
    <3>2. task[t].snap.kind = "OneShotCron" /\ task[t].via # "trigger"
      BY <3>1 DEF OnSchedule
    <3>3. task[t].via = "cronloop"
      BY <1>1, <1>7, <3>2 DEF OriginKinds, Origins, IsRunJobLoopSkipKind, IsOneShot
    <3>4. OfLoop(t)
      BY <1>1, <3>1, <3>3 DEF OfLoop
    <3>5. \A u \in Tasks : OfLoop(u)' /\ task'[u].job = i => u = t
      BY <1>4, <1>5, <1>7, <3>1, <3>4 DEF Single
    <3>6. phase = "up" => /\ loop[i].st = "awaiting" /\ loop[i].spec = task[t].snap
      <4>1. phase = "up" =>
              loop[j] = [st |-> "awaiting", spec |-> task[t].snap, task |-> t]
        BY <1>7, <3>4 DEF Awaited
      <4>2. QED  BY <3>1, <4>1
    <3>7. QED  BY <1>4, <3>1, <3>5, <3>6 DEF OnSchedule
  <2>3. QED  BY <2>1, <2>2
<1>10. QED  BY <1>8, <1>9

LEMMA OnceInit == Init => OnceInv
  BY DEF Init, OnceInv, KindsInv, OriginKinds, LoopKinds, Awaited, Single, Spent, OfLoop,
         Free, Idle, NoLoop

LEMMA OnceNext == TypeInv /\ OnceInv /\ [Next]_vars => OnceInv'
<1> SUFFICES ASSUME TypeInv, OnceInv, [Next]_vars PROVE OnceInv'
  OBVIOUS
<1>1. CASE ClientStep \/ Shutdown \/ Drained \/ WorldStep \/ UNCHANGED vars
  BY <1>1, ClientGoesOn, WorldGoesOn, OnwardOnce
<1>2. CASE SchedulerStep
  BY <1>2, ReconcileGoesOn, LoopDeletesGoesOn, OnwardOnce, LoopFiresOnce
  DEF SchedulerStep
<1>3. CASE ExecuteStep
  BY <1>3, ExecuteGoesOn, OnwardOnce, BeginOnce DEF ExecuteStep, Starts
<1>4. CASE Restart
  BY <1>4, RestartOnce
<1>5. QED  BY <1>1, <1>2, <1>3, <1>4 DEF Next, ProcessStep

(* A one-shot cron spec fires once in the life of a process, whatever was   *)
(* edited in between (run_job_loop awaits the run and deletes the spec).    *)
THEOREM OneShotCronOnce == SafetySpec => OneShotCronFiresOnce
<1>1. TypeInv /\ OnceInv /\ [Next]_vars =>
        [\A t \in Tasks : BeginsAgain(t) /\ restarts = 0
                            => task[t].snap.kind # "OneShotCron"]_vars
  <2> SUFFICES ASSUME TypeInv, OnceInv, NEW t \in Tasks, BeginsAgain(t), restarts = 0,
                      task[t].snap.kind = "OneShotCron"
               PROVE  FALSE
    OBVIOUS
  <2>1. /\ ~Free(t) /\ task[t].job \in Jobs /\ task[t].job \in scheduled
        /\ task[t].stage = "waiting" /\ OnSchedule(t)
    BY DEF BeginsAgain, Free, TypeInv, TaskHasJob
  <2>2. task[t].via = "cronloop"
    BY <2>1 DEF OnceInv, KindsInv, OriginKinds, Origins, OnSchedule,
           IsRunJobLoopSkipKind, IsOneShot
  <2>3. QED  BY <2>1, <2>2 DEF OnceInv, Spent, OfLoop, OnSchedule
<1>2. SafetySpec => [](TypeInv /\ OnceInv)
  <2>1. Init => TypeInv /\ OnceInv
    BY TypeInit, OnceInit
  <2>2. TypeInv /\ OnceInv /\ [Next]_vars => (TypeInv /\ OnceInv)'
    BY TypeNext, OnceNext
  <2>3. QED  BY <2>1, <2>2, PTL DEF SafetySpec
<1>3. QED  BY <1>1, <1>2, PTL DEF SafetySpec, OneShotCronFiresOnce
=============================================================================
