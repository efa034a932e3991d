---------------------------- MODULE CronDelivery ----------------------------
(***************************************************************************)
(* The delivery loop of one agent's bot (crates/bot/src/cron_delivery.rs). *)
(*                                                                         *)
(* Every thirty seconds the loop takes the oldest undelivered result of    *)
(* cron_runs, waits for the chat to be idle, drops the older results of    *)
(* the same job, has Claude relay the newest one inside the user's         *)
(* session, sends the reply to Telegram and marks the row.  Around it      *)
(* execute_job tasks publish results, MCP clients redirect jobs, users     *)
(* talk (their turns hold the session's mutex), the allowlist and the      *)
(* active session change, the upgrade runs, and the process dies.          *)
(*                                                                         *)
(* A step is one SQL statement, or one stretch of the loop between two     *)
(* awaits: execute_job runs on other threads and the MCP server in another *)
(* process, so that either can write between any two statements.           *)
(***************************************************************************)
EXTENDS Naturals, FiniteSets

CONSTANTS
  Runs,          \* rows of cron_runs
  Jobs,
  JobOf,         \* the job of a run
  Chats,
  NoChat,        \* a NULL target_chat_id
  NoRun,
  Sessions,      \* root session ids
  NoSession,
  Faults,        \* which steps may fail
  MaxAttempts,   \* MAX_DELIVERY_ATTEMPTS
  MaxEnv, MaxRestarts, MaxFaults    \* bounds on the environment

AllFaults == {"query", "mark", "relay", "send"}

ASSUME DeliveryAssumption ==
  /\ JobOf \in [Runs -> Jobs]
  /\ Faults \subseteq AllFaults
  /\ MaxAttempts \in Nat \ {0}
  /\ MaxEnv \in Nat /\ MaxRestarts \in Nat /\ MaxFaults \in Nat

ASSUME DeliveryNullAssumption ==
  NoChat \notin Chats /\ NoRun \notin Runs /\ NoSession \notin Sessions

VARIABLES
  runs,        \* cron_runs
  clock,       \* the next finished_at
  d,           \* the delivery loop: where it is and what it holds
  attempts,    \* attempt_counts
  inMemory,    \* delivered_in_memory
  idle,        \* no message or reply for IDLE_THRESHOLD_SECS, in any chat
  allowed,     \* the allowlist
  active,      \* per chat its active session
  turns,       \* sessions whose mutex a worker holds
  upgrading,   \* the write side of upgrade_lock
  envs, restarts, faults,       \* bounds
  sent, lostMark        \* ghosts

world  == <<idle, allowed, active, turns, upgrading>>
memory == <<attempts, inMemory>>
bounds == <<envs, restarts, faults>>
ghosts == <<sent, lostMark>>
vars == <<runs, clock, d, memory, world, bounds, ghosts>>

-----------------------------------------------------------------------------
Outcomes == {"delivered", "superseded", "denied", "no_target", "failed"}

(* A row: `st' is "published" once notify_json is stored; finished_at is   *)
(* set before that, when the run's process exits.  The row of a run that   *)
(* died with the bot is "lost".                                            *)
Row == [st : {"absent", "running", "finished", "published", "lost"},
        target : Chats \cup {NoChat}, finished : Nat,
        outcome : Outcomes \cup {"open"}]
NoRow == [st |-> "absent", target |-> NoChat, finished |-> 0,
          outcome |-> "open"]

(* Where the loop is: asleep; fetched a row; selected the newest of its    *)
(* job; dropped the others; waiting for the upgrade lock, then for the     *)
(* session's mutex; relaying; done, with the guards released.              *)
Places == {"asleep", "fetched", "selected", "deduped", "upgrade", "session",
           "relaying", "relayed", "sent", "erred"}
HoldsUpgradeLock == d.at \in {"session", "relaying", "relayed"}
HoldsMutex == d.at \in {"relaying", "relayed"}

Loop == [at : Places, run : Runs \cup {NoRun}, target : Chats \cup {NoChat},
         session : Sessions \cup {NoSession}]
Asleep == [at |-> "asleep", run |-> NoRun, target |-> NoChat,
           session |-> NoSession]

Undelivered(r) == runs[r].st = "published" /\ runs[r].outcome = "open"

(* ORDER BY finished_at ASC LIMIT 1, over all jobs.                        *)
Oldest(r) == /\ Undelivered(r)
             /\ \A q \in Runs : Undelivered(q) =>
                  runs[r].finished <= runs[q].finished

(* ORDER BY finished_at DESC LIMIT 1, for one job.                         *)
Newest(j, r) == /\ Undelivered(r) /\ JobOf[r] = j
                /\ \A q \in Runs : Undelivered(q) /\ JobOf[q] = j =>
                     runs[q].finished <= runs[r].finished

Init ==
  /\ runs = [r \in Runs |-> NoRow]
  /\ clock = 1
  /\ d = Asleep
  /\ attempts = [r \in Runs |-> 0]
  /\ inMemory = {}
  /\ idle = FALSE
  /\ allowed = Chats
  /\ active \in [Chats -> Sessions \cup {NoSession}]
  /\ turns = {}
  /\ upgrading = FALSE
  /\ envs = 0 /\ restarts = 0 /\ faults = 0
  /\ sent = [r \in Runs |-> 0]
  /\ lostMark = {}

(* Database errors are bounded, by MaxFaults; the rest may fail for ever.  *)
Fails(f) ==
  /\ f \in Faults
  /\ IF f \in {"query", "mark"}
     THEN faults < MaxFaults /\ faults' = faults + 1
     ELSE UNCHANGED faults
Works == UNCHANGED faults

-----------------------------------------------------------------------------
(* execute_job, which CronEngine models: a row with a snapshot of the      *)
(* spec's target, then finished_at, then, perhaps, notify_json.            *)
StartRun(r, c) ==
  /\ runs[r].st = "absent"
  /\ runs' = [runs EXCEPT ![r] = [@ EXCEPT !.st = "running", !.target = c]]
  /\ UNCHANGED <<clock, d, memory, world, bounds, ghosts>>

FinishRun(r) ==
  /\ runs[r].st = "running"
  /\ runs' = [runs EXCEPT ![r] = [@ EXCEPT !.st = "finished",
                                           !.finished = clock]]
  /\ clock' = clock + 1
  /\ UNCHANGED <<d, memory, world, bounds, ghosts>>

Publish(r) ==
  /\ runs[r].st = "finished"
  /\ runs' = [runs EXCEPT ![r] = [@ EXCEPT !.st = "published"]]
  /\ UNCHANGED <<clock, d, memory, world, bounds, ghosts>>

-----------------------------------------------------------------------------
(* The loop.                                                               *)

Sleep == d' = Asleep

(* fetch_pending, then the idle check.                                     *)
Fetch ==
  /\ d.at = "asleep" /\ idle
  /\ \E r \in Runs : Oldest(r) /\ d' = [d EXCEPT !.at = "fetched", !.run = r]
  /\ UNCHANGED <<runs, clock, memory, world, bounds, ghosts>>

(* The SELECT of deduplicate_job; the row is read here, target included.   *)
SelectNewest ==
  /\ d.at = "fetched"
  /\ \/ /\ \E r \in Runs :
             /\ Newest(JobOf[d.run], r)
             /\ d' = [d EXCEPT !.at = "selected", !.run = r,
                               !.target = runs[r].target]
        /\ Works
     \/ Fails("query") /\ Sleep
  /\ UNCHANGED <<runs, clock, memory, world, envs, restarts, ghosts>>

(* Mutant: a superseding UPDATE that forgets "delivered_at IS NULL".       *)
SupersedeDelivered ==
  /\ d.at = "selected"
  /\ runs' = [q \in Runs |->
       IF JobOf[q] = JobOf[d.run] /\ q # d.run /\ runs[q].st = "published"
       THEN [runs[q] EXCEPT !.outcome = "superseded"] ELSE runs[q]]
  /\ d' = [d EXCEPT !.at = "deduped"]
  /\ UNCHANGED <<clock, memory, world, bounds, ghosts>>

(* Its UPDATE: every other undelivered row of the job.                     *)
Supersede ==
  /\ d.at = "selected"
  /\ \/ /\ runs' = [q \in Runs |->
             IF JobOf[q] = JobOf[d.run] /\ q # d.run /\ Undelivered(q)
             THEN [runs[q] EXCEPT !.outcome = "superseded"] ELSE runs[q]]
        /\ d' = [d EXCEPT !.at = "deduped"]
        /\ Works
     \/ Fails("query") /\ Sleep /\ UNCHANGED runs
  /\ UNCHANGED <<clock, memory, world, envs, restarts, ghosts>>

(* Mutant: the failed mark is only logged.                                 *)
MarkOutcomeForgetful(r, o) ==
  /\ \/ Works /\ runs' = [runs EXCEPT ![r].outcome = o]
     \/ Fails("mark") /\ UNCHANGED runs
  /\ UNCHANGED inMemory

(* mark_delivery_outcome, and what its callers do when it fails.           *)
MarkOutcome(r, o) ==
  \/ Works /\ runs' = [runs EXCEPT ![r].outcome = o] /\ UNCHANGED inMemory
  \/ Fails("mark") /\ inMemory' = inMemory \cup {r} /\ UNCHANGED runs

(* delivered_in_memory: on to the next tick.                               *)
Skip ==
  /\ d.at = "deduped" /\ d.run \in inMemory
  /\ Sleep
  /\ UNCHANGED <<runs, clock, memory, world, bounds, ghosts>>

(* No target, or one that is not in the allowlist: marked, not delivered.  *)
Refuse ==
  /\ d.at = "deduped" /\ d.run \notin inMemory
  /\ \/ d.target = NoChat /\ MarkOutcome(d.run, "no_target")
     \/ d.target \in Chats \ allowed /\ MarkOutcome(d.run, "denied")
  /\ Sleep
  /\ UNCHANGED <<clock, attempts, world, envs, restarts, ghosts>>

(* The active session of the chat, looked up before any lock is taken.     *)
LookUpSession ==
  /\ d.at = "deduped" /\ d.run \notin inMemory
  /\ d.target \in allowed
  /\ \E s \in {active[d.target], NoSession} :
       /\ \/ s = active[d.target] /\ Works
          \/ s = NoSession /\ Fails("query")
       /\ d' = [d EXCEPT !.at = "upgrade", !.session = s]
  /\ UNCHANGED <<runs, clock, memory, world, envs, restarts, ghosts>>

(* Mutant: delivery does not take the upgrade lock.                        *)
PassUpgradeUnlocked ==
  /\ d.at = "upgrade"
  /\ d' = [d EXCEPT !.at = "session"]
  /\ UNCHANGED <<runs, clock, memory, world, bounds, ghosts>>

PassUpgrade ==
  /\ d.at = "upgrade" /\ ~upgrading
  /\ d' = [d EXCEPT !.at = "session"]
  /\ UNCHANGED <<runs, clock, memory, world, bounds, ghosts>>

(* Mutant: the mutex is not taken.                                         *)
LockSessionFreely ==
  /\ d.at = "session"
  /\ d' = [d EXCEPT !.at = "relaying"]
  /\ UNCHANGED <<runs, clock, memory, world, bounds, ghosts>>

(* The session's mutex, if there is a session.                             *)
LockSession ==
  /\ d.at = "session" /\ d.session \notin turns
  /\ d' = [d EXCEPT !.at = "relaying"]
  /\ UNCHANGED <<runs, clock, memory, world, bounds, ghosts>>

(* Claude relays; or it cannot be started, fails, takes more than 120 s or *)
(* answers what cannot be parsed, all before anything is sent.             *)
Relay ==
  /\ d.at = "relaying"
  /\ \/ Works /\ d' = [d EXCEPT !.at = "relayed"]
     \/ Fails("relay") /\ d' = [d EXCEPT !.at = "erred"]
  /\ UNCHANGED <<runs, clock, memory, world, envs, restarts, ghosts>>

(* The reply goes to Telegram, HTML first, then plain; that both fail is   *)
(* only logged.                                                            *)
Send ==
  /\ d.at = "relayed"
  /\ \/ /\ Works
        /\ sent' = [sent EXCEPT ![d.run] = @ + 1]
     \/ Fails("send") /\ UNCHANGED sent
  /\ d' = [d EXCEPT !.at = "sent"]
  /\ UNCHANGED <<runs, clock, memory, world, envs, restarts, lostMark>>

Conclude ==
  /\ d.at = "sent"
  /\ MarkOutcome(d.run, "delivered")
  /\ idle' = FALSE
  /\ Sleep
  /\ UNCHANGED <<clock, attempts, allowed, active, turns, upgrading, envs,
                 restarts, ghosts>>

(* Mutant: failures are not counted.                                       *)
RetryForever ==
  /\ d.at = "erred"
  /\ Sleep
  /\ UNCHANGED <<runs, clock, memory, world, bounds, ghosts>>

(* One more attempt; the last one gives the row up.                        *)
Retry ==
  /\ d.at = "erred"
  /\ IF attempts[d.run] + 1 >= MaxAttempts
     THEN /\ MarkOutcome(d.run, "failed")
          /\ attempts' = [attempts EXCEPT ![d.run] = 0]
     ELSE /\ attempts' = [attempts EXCEPT ![d.run] = @ + 1]
          /\ UNCHANGED <<runs, inMemory, faults>>
  /\ Sleep
  /\ UNCHANGED <<clock, world, envs, restarts, ghosts>>

-----------------------------------------------------------------------------
(* The rest of the world; `envs' bounds what users and clients do.         *)
Acts == envs < MaxEnv /\ envs' = envs + 1

(* update_spec_partial: the new target reaches every undelivered row.      *)
Redirect(j, c) ==
  /\ Acts
  /\ runs' = [r \in Runs |->
       IF JobOf[r] = j /\ runs[r].st # "absent" /\ runs[r].outcome = "open"
       THEN [runs[r] EXCEPT !.target = c] ELSE runs[r]]
  /\ UNCHANGED <<clock, d, memory, world, restarts, faults, ghosts>>

AllowlistChanges(c) ==
  /\ Acts
  /\ allowed' = IF c \in allowed THEN allowed \ {c} ELSE allowed \cup {c}
  /\ UNCHANGED <<runs, clock, d, memory, idle, active, turns, upgrading,
                 restarts, faults, ghosts>>

(* /new and /switch.                                                       *)
SwitchSession(c, s) ==
  /\ Acts
  /\ active[c] # s
  /\ active' = [active EXCEPT ![c] = s]
  /\ UNCHANGED <<runs, clock, d, memory, idle, allowed, turns, upgrading,
                 restarts, faults, ghosts>>

(* A message and the worker's turn on it; the mutex is first come, first   *)
(* served, so that a delivery that waits for it comes before a new turn.   *)
TurnStarts(c) ==
  /\ Acts
  /\ idle' = FALSE
  /\ active[c] \in Sessions \ turns
  /\ ~(d.at \in {"session", "relaying", "relayed"} /\ d.session = active[c])
  /\ ~upgrading
  /\ turns' = turns \cup {active[c]}
  /\ UNCHANGED <<runs, clock, d, memory, allowed, active, upgrading,
                 restarts, faults, ghosts>>

TurnEnds(s) ==
  /\ s \in turns
  /\ turns' = turns \ {s}
  /\ idle' = FALSE
  /\ UNCHANGED <<runs, clock, d, memory, allowed, active, upgrading, bounds,
                 ghosts>>

(* 180 s without a message; a long turn does not keep the chat from being  *)
(* idle.                                                                   *)
BecomesIdle ==
  /\ ~idle
  /\ idle' = TRUE
  /\ UNCHANGED <<runs, clock, d, memory, allowed, active, turns, upgrading,
                 bounds, ghosts>>

UpgradeStarts ==
  /\ Acts
  /\ ~upgrading /\ ~HoldsUpgradeLock /\ turns = {}
  /\ upgrading' = TRUE
  /\ UNCHANGED <<runs, clock, d, memory, idle, allowed, active, turns,
                 restarts, faults, ghosts>>

UpgradeEnds ==
  /\ upgrading
  /\ upgrading' = FALSE
  /\ UNCHANGED <<runs, clock, d, memory, idle, allowed, active, turns,
                 bounds, ghosts>>

(* The process dies or is stopped, and its runs with it; the idle clock    *)
(* starts anew.                                                            *)
Restart ==
  /\ restarts < MaxRestarts
  /\ restarts' = restarts + 1
  /\ Sleep
  /\ runs' = [r \in Runs |-> IF runs[r].st \in {"running", "finished"}
                             THEN [runs[r] EXCEPT !.st = "lost"] ELSE runs[r]]
  /\ attempts' = [r \in Runs |-> 0]
  /\ inMemory' = {}
  /\ idle' = FALSE /\ turns' = {} /\ upgrading' = FALSE
  /\ lostMark' = lostMark \cup
       {r \in Runs : sent[r] > 0 /\ runs[r].outcome = "open"}
  /\ UNCHANGED <<clock, allowed, active, envs, faults, sent>>

-----------------------------------------------------------------------------
RunStep == \E r \in Runs :
  (\E c \in Chats \cup {NoChat} : StartRun(r, c)) \/ FinishRun(r) \/ Publish(r)

Deliver == \/ SelectNewest \/ Supersede \/ Skip \/ Refuse \/ LookUpSession
           \/ PassUpgrade \/ LockSession \/ Relay \/ Send \/ Conclude \/ Retry

WorldStep == \/ \E j \in Jobs, c \in Chats : Redirect(j, c)
             \/ \E c \in Chats : AllowlistChanges(c) \/ TurnStarts(c)
             \/ \E c \in Chats, s \in Sessions \cup {NoSession} :
                  SwitchSession(c, s)
             \/ \E s \in Sessions : TurnEnds(s)
             \/ BecomesIdle \/ UpgradeStarts \/ UpgradeEnds \/ Restart

Next == RunStep \/ Fetch \/ Deliver \/ WorldStep

SafetySpec == Init /\ [][Next]_vars

(* The loop's timers and futures run; a worker's turn and an upgrade end   *)
(* (both have time-outs); the users leave the chat alone once in a while.  *)
Fairness ==
  /\ WF_vars(Fetch)
  /\ WF_vars(Deliver)
  /\ WF_vars(BecomesIdle)
  /\ WF_vars(UpgradeEnds)
  /\ \A s \in Sessions : WF_vars(TurnEnds(s))

Spec == SafetySpec /\ Fairness

-----------------------------------------------------------------------------
(* Properties.                                                             *)

(* Every variable has its type.                                            *)
TypeOK ==
  /\ runs \in [Runs -> Row] /\ clock \in Nat
  /\ d \in Loop
  /\ attempts \in [Runs -> 0..(MaxAttempts - 1)]
  /\ inMemory \subseteq Runs
  /\ idle \in BOOLEAN /\ allowed \subseteq Chats
  /\ active \in [Chats -> Sessions \cup {NoSession}]
  /\ turns \subseteq Sessions /\ upgrading \in BOOLEAN
  /\ envs \in 0..MaxEnv /\ restarts \in 0..MaxRestarts
  /\ faults \in 0..MaxFaults
  /\ sent \in [Runs -> Nat]
  /\ lostMark \subseteq Runs

(* A result is sent twice only if the process died between the sending and *)
(* the mark: neither failing marks nor retries nor later ticks repeat it   *)
(* ("Prevents duplicate sends on subsequent delivery ticks").              *)
SentTwiceOnlyAfterDeath == \A r \in Runs : sent[r] > 1 => r \in lostMark

(* No delivery has a Claude process while `claude upgrade' replaces it.    *)
UpgradeExcludesDelivery == upgrading => ~HoldsUpgradeLock

(* The relay and a worker's turn never resume the same session at a time,  *)
(* though the session is looked up before its mutex is waited for.         *)
SessionExclusive == HoldsMutex => d.session \notin turns

(* The refinement mapping.                                                 *)
Box == [r \in Runs |-> IF runs[r].outcome # "open" THEN runs[r].outcome
                       ELSE IF runs[r].st = "published" THEN "pending"
                       ELSE "empty"]
Mailbox == INSTANCE ResultMailbox WITH box <- Box

(* What the table of results promises (ResultMailbox): a result that was   *)
(* published is settled in the end, once and for all, and is superseded    *)
(* only in favour of one of the same job that is still to be delivered.    *)
KeepsMailbox == Mailbox!Spec

=============================================================================
