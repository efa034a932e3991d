------------------------- MODULE CronDeliveryProofs -------------------------
(***************************************************************************)
(* Theorems of CronDelivery, for any number of runs, jobs, chats and       *)
(* sessions: what is sent twice, what excludes what, and that every step   *)
(* of the loop is a step of ResultMailbox.                                 *)
(***************************************************************************)
EXTENDS CronDelivery, TLAPS

(* The places where a delivery is past delivered_in_memory.                *)
InFlight == {"upgrade", "session", "relaying", "relayed", "sent", "erred"}

(* The loop works on one undelivered row at a time; past the in-memory     *)
(* check, on one that no earlier tick has sent, to a chat.                 *)
LoopInv ==
  /\ d.at # "asleep" => d.run \in Runs /\ Undelivered(d.run)
  /\ d.at \in InFlight => d.run \notin inMemory /\ d.target \in Chats

(* A result that was sent and is not marked is remembered, is about to be  *)
(* marked, or was forgotten in a crash.  This is why it is not sent again. *)
SentAccounted ==
  \A r \in Runs : sent[r] > 0 /\ runs[r].outcome = "open" =>
    r \in inMemory \cup lostMark \/ (d.at = "sent" /\ d.run = r)

IInv == /\ TypeOK /\ LoopInv /\ SentAccounted /\ SentTwiceOnlyAfterDeath
        /\ UpgradeExcludesDelivery /\ SessionExclusive

LEMMA InvInit == Init => IInv
<1> SUFFICES ASSUME Init PROVE IInv
  OBVIOUS
<1> USE DeliveryAssumption DEF DeliveryAssumption
<1>1. NoRow \in Row /\ Asleep \in Loop
  BY DEF NoRow, Row, Asleep, Loop, Places
<1>2. TypeOK
  <2>1. attempts \in [Runs -> 0..(MaxAttempts - 1)]
    BY DEF Init
  <2>2. runs \in [Runs -> Row] /\ d \in Loop
    BY <1>1 DEF Init
  <2>3. envs \in 0..MaxEnv /\ restarts \in 0..MaxRestarts
                           /\ faults \in 0..MaxFaults
    BY DEF Init
  <2>4. sent \in [Runs -> Nat]
    BY DEF Init
  <2>5. QED  BY <2>1, <2>2, <2>3, <2>4 DEF Init, TypeOK
<1>3. LoopInv
  BY DEF Init, LoopInv, Asleep, InFlight
<1>4. SentAccounted /\ SentTwiceOnlyAfterDeath
  BY DEF Init, SentAccounted, SentTwiceOnlyAfterDeath
<1>5. UpgradeExcludesDelivery /\ SessionExclusive
  BY DEF Init, UpgradeExcludesDelivery, SessionExclusive, HoldsMutex, Asleep
<1>6. QED  BY <1>2, <1>3, <1>4, <1>5 DEF IInv

(* A step that only moves the loop, keeping its row.                       *)
LEMMA MarkType ==
  ASSUME TypeOK, NEW r \in Runs, NEW o \in Outcomes, MarkOutcome(r, o)
  PROVE  /\ runs' \in [Runs -> Row] /\ inMemory' \subseteq Runs
         /\ faults' \in 0..MaxFaults
         /\ \A q \in Runs : /\ runs'[q].st = runs[q].st
                            /\ q # r => runs'[q] = runs[q]
         /\ \/ runs'[r].outcome = o /\ inMemory' = inMemory
            \/ runs' = runs /\ inMemory' = inMemory \cup {r}
<1> USE DeliveryAssumption DEF DeliveryAssumption
<1>1. CASE Works /\ runs' = [runs EXCEPT ![r].outcome = o]
                 /\ UNCHANGED inMemory
  <2>1. [runs[r] EXCEPT !.outcome = o] \in Row
    BY DEF TypeOK, Row
  <2>2. runs' = [runs EXCEPT ![r] = [runs[r] EXCEPT !.outcome = o]]
    BY <1>1
  <2>3. QED  BY <1>1, <2>1, <2>2 DEF TypeOK, Works, Row
<1>2. CASE /\ Fails("mark") /\ inMemory' = inMemory \cup {r}
           /\ UNCHANGED runs
  BY <1>2 DEF Fails, TypeOK
<1>3. QED  BY <1>1, <1>2 DEF MarkOutcome

(* Failing, or not, keeps the bound.                                       *)
LEMMA FaultsType ==
  ASSUME TypeOK
  PROVE  /\ Works => faults' \in 0..MaxFaults
         /\ \A f \in AllFaults : Fails(f) => faults' \in 0..MaxFaults
  BY DeliveryAssumption DEF DeliveryAssumption, TypeOK, Works, Fails

(* The steps of execute_job: rows that are not published change.           *)
LEMMA RunStepKeeps ==
  ASSUME IInv, RunStep
  PROVE  IInv'
<1> USE DeliveryAssumption DEF DeliveryAssumption
<1>1. PICK r \in Runs : \/ \E c \in Chats \cup {NoChat} : StartRun(r, c)
                        \/ FinishRun(r) \/ Publish(r)
  BY DEF RunStep
<1>2. /\ runs' \in [Runs -> Row] /\ clock' \in Nat
      /\ \A q \in Runs : Undelivered(q) => runs'[q] = runs[q]
      /\ \A q \in Runs : runs'[q].outcome = runs[q].outcome
  <2>1. CASE \E c \in Chats \cup {NoChat} : StartRun(r, c)
    <3>1. PICK c \in Chats \cup {NoChat} : StartRun(r, c)
      BY <2>1
    <3>2. [runs[r] EXCEPT !.st = "running", !.target = c] \in Row
      BY ZenonT(30) DEF IInv, TypeOK, Row
    <3>3. QED
      BY <3>1, <3>2 DEF StartRun, IInv, TypeOK, Undelivered, Row
  <2>2. CASE FinishRun(r)
    <3>1. [runs[r] EXCEPT !.st = "finished", !.finished = clock] \in Row
      BY ZenonT(30) DEF IInv, TypeOK, Row
    <3>2. QED
      BY <2>2, <3>1 DEF FinishRun, IInv, TypeOK, Undelivered, Row
  <2>3. CASE Publish(r)
    <3>1. [runs[r] EXCEPT !.st = "published"] \in Row
      BY DEF IInv, TypeOK, Row
    <3>2. QED
      BY <2>3, <3>1 DEF Publish, IInv, TypeOK, Undelivered, Row
  <2>4. QED  BY <1>1, <2>1, <2>2, <2>3
<1>3. UNCHANGED <<d, memory, world, bounds, ghosts>>
  BY <1>1 DEF StartRun, FinishRun, Publish
<1>4. TypeOK'
  BY <1>2, <1>3 DEF IInv, TypeOK, memory, world, bounds, ghosts
<1>5. LoopInv'
  BY <1>2, <1>3 DEF IInv, LoopInv, Undelivered, memory
<1>6. SentAccounted' /\ SentTwiceOnlyAfterDeath'
  BY <1>2, <1>3
  DEF IInv, SentAccounted, SentTwiceOnlyAfterDeath, memory, ghosts
<1>7. UpgradeExcludesDelivery' /\ SessionExclusive'
  BY <1>3 DEF IInv, UpgradeExcludesDelivery, SessionExclusive, HoldsMutex,
              HoldsUpgradeLock, world
<1>8. QED  BY <1>4, <1>5, <1>6, <1>7 DEF IInv

(* A step of the loop that sends nothing, marks nothing and takes no guard *)
(* but moves on within the places of one row, or back to sleep.            *)
LEMMA LoopMoveKeeps ==
  ASSUME IInv, d' \in Loop, faults' \in 0..MaxFaults,
         UNCHANGED <<runs, clock, memory, world, envs, restarts, ghosts>>,
         LoopInv',
         d.at # "sent" /\ d'.at # "sent",
         HoldsUpgradeLock' => HoldsUpgradeLock \/ ~upgrading,
         HoldsMutex' => d'.session = d.session /\ d.session \notin turns
  PROVE  IInv'
<1>1. TypeOK'
  BY DEF IInv, TypeOK, memory, world, ghosts
<1>2. SentAccounted' /\ SentTwiceOnlyAfterDeath'
  BY DEF IInv, SentAccounted, SentTwiceOnlyAfterDeath, memory, ghosts
<1>3. UpgradeExcludesDelivery' /\ SessionExclusive'
  BY DEF IInv, UpgradeExcludesDelivery, SessionExclusive, HoldsMutex,
         HoldsUpgradeLock, world
<1>4. QED  BY <1>1, <1>2, <1>3 DEF IInv

LEMMA FetchKeeps ==
  ASSUME IInv, Fetch
  PROVE  IInv'
<1>1. PICK r \in Runs : /\ Oldest(r)
                        /\ d' = [d EXCEPT !.at = "fetched", !.run = r]
  BY DEF Fetch
<1>2. d' \in Loop /\ d'.at = "fetched" /\ d'.run = r
  BY <1>1 DEF IInv, TypeOK, Loop, Places
<1>3. LoopInv'
  BY <1>1, <1>2 DEF LoopInv, Oldest, Undelivered, Fetch, InFlight
<1>4. UNCHANGED <<runs, clock, memory, world, envs, restarts, ghosts>>
      /\ faults' \in 0..MaxFaults /\ d.at = "asleep"
  BY DEF Fetch, bounds, IInv, TypeOK
<1>5. QED
  BY <1>2, <1>3, <1>4, LoopMoveKeeps DEF HoldsMutex, HoldsUpgradeLock

LEMMA SelectKeeps ==
  ASSUME IInv, SelectNewest
  PROVE  IInv'
<1>1. faults' \in 0..MaxFaults
  BY FaultsType DEF SelectNewest, IInv, AllFaults
<1>2. d.at = "fetched"
      /\ UNCHANGED <<runs, clock, memory, world, envs, restarts, ghosts>>
  BY DEF SelectNewest
<1>3. CASE Sleep
  <2>1. d' \in Loop /\ d'.at = "asleep"
    BY <1>3 DEF Sleep, Asleep, Loop, Places
  <2>2. LoopInv'
    BY <2>1 DEF LoopInv, InFlight
  <2>3. QED
    BY <1>1, <1>2, <2>1, <2>2, LoopMoveKeeps DEF HoldsMutex, HoldsUpgradeLock
<1>4. CASE ~Sleep
  <2>1. PICK r \in Runs :
          /\ Newest(JobOf[d.run], r)
          /\ d' = [d EXCEPT !.at = "selected", !.run = r,
                            !.target = runs[r].target]
    BY <1>4 DEF SelectNewest
  <2>2. runs[r].target \in Chats \cup {NoChat}
    BY DEF IInv, TypeOK, Row
  <2>3. d' \in Loop /\ d'.at = "selected" /\ d'.run = r
    BY <2>1, <2>2 DEF IInv, TypeOK, Loop, Places
  <2>4. LoopInv'
    BY <1>2, <2>1, <2>3 DEF LoopInv, Newest, Undelivered, InFlight
  <2>5. QED
    BY <1>1, <1>2, <2>3, <2>4, LoopMoveKeeps DEF HoldsMutex, HoldsUpgradeLock
<1>5. QED  BY <1>3, <1>4

LEMMA SupersedeKeeps ==
  ASSUME IInv, Supersede
  PROVE  IInv'
<1>1. faults' \in 0..MaxFaults
  BY FaultsType DEF Supersede, IInv, AllFaults
<1>2. d.at = "selected" /\ d.run \in Runs /\ Undelivered(d.run)
      /\ UNCHANGED <<clock, memory, world, envs, restarts, ghosts>>
  BY DEF Supersede, IInv, LoopInv
<1>3. d' \in Loop /\ (d'.at = "asleep" \/ (d'.at = "deduped" /\ d'.run = d.run))
  BY DEF Supersede, IInv, TypeOK, Sleep, Asleep, Loop, Places
<1>4. /\ runs' \in [Runs -> Row]
      /\ runs'[d.run] = runs[d.run]
      /\ \A q \in Runs : runs'[q].outcome = "open" => runs[q].outcome = "open"
  <2>1. \A q \in Runs : [runs[q] EXCEPT !.outcome = "superseded"] \in Row
    BY DEF IInv, TypeOK, Row, Outcomes
  <2>2. CASE UNCHANGED runs
    BY <2>2 DEF IInv, TypeOK
  <2>3. CASE runs' = [q \in Runs |->
               IF JobOf[q] = JobOf[d.run] /\ q # d.run /\ Undelivered(q)
               THEN [runs[q] EXCEPT !.outcome = "superseded"] ELSE runs[q]]
    BY <1>2, <2>1, <2>3 DEF IInv, TypeOK, Undelivered
  <2>4. QED  BY <2>2, <2>3 DEF Supersede
<1>5. TypeOK'
  BY <1>1, <1>2, <1>3, <1>4 DEF IInv, TypeOK, memory, world, ghosts
<1>6. LoopInv'
  BY <1>2, <1>3, <1>4 DEF LoopInv, InFlight, Undelivered
<1>7. SentAccounted' /\ SentTwiceOnlyAfterDeath'
  BY <1>2, <1>4
  DEF IInv, SentAccounted, SentTwiceOnlyAfterDeath, memory, ghosts
<1>8. UpgradeExcludesDelivery' /\ SessionExclusive'
  BY <1>2, <1>3 DEF IInv, UpgradeExcludesDelivery, SessionExclusive,
                    HoldsMutex, HoldsUpgradeLock, world
<1>9. QED  BY <1>5, <1>6, <1>7, <1>8 DEF IInv

(* From the in-memory check to the relay.                                  *)
LEMMA PathKeeps ==
  ASSUME IInv,
         Skip \/ LookUpSession \/ PassUpgrade \/ LockSession \/ Relay
  PROVE  IInv'
<1>1. faults' \in 0..MaxFaults
  <2>1. CASE LookUpSession \/ Relay
    BY <2>1, FaultsType DEF LookUpSession, Relay, IInv, AllFaults
  <2>2. CASE Skip \/ PassUpgrade \/ LockSession
    BY <2>2 DEF Skip, PassUpgrade, LockSession, bounds, IInv, TypeOK
  <2>3. QED  BY <2>1, <2>2
<1>2. UNCHANGED <<runs, clock, memory, world, envs, restarts, ghosts>>
  BY DEF Skip, LookUpSession, PassUpgrade, LockSession, Relay, bounds
<1>3. d.at # "asleep" /\ d.run \in Runs /\ Undelivered(d.run)
  BY DEF Skip, LookUpSession, PassUpgrade, LockSession, Relay, IInv, LoopInv
<1>4. CASE Skip
  <2>1. d' \in Loop /\ d'.at = "asleep" /\ d.at = "deduped"
    BY <1>4 DEF Skip, Sleep, Asleep, Loop, Places
  <2>2. LoopInv'
    BY <2>1 DEF LoopInv, InFlight
  <2>3. QED
    BY <1>1, <1>2, <2>1, <2>2, LoopMoveKeeps DEF HoldsMutex, HoldsUpgradeLock
<1>5. CASE LookUpSession
  <2>1. d.at = "deduped" /\ d.run \notin inMemory /\ d.target \in Chats
    BY <1>5 DEF LookUpSession, IInv, TypeOK
  <2>2. PICK s \in {active[d.target], NoSession} :
          d' = [d EXCEPT !.at = "upgrade", !.session = s]
    BY <1>5 DEF LookUpSession
  <2>3. s \in Sessions \cup {NoSession}
    BY <2>1, <2>2 DEF IInv, TypeOK
  <2>4. d' \in Loop /\ d'.at = "upgrade" /\ d'.run = d.run
                    /\ d'.target = d.target
    BY <2>2, <2>3 DEF IInv, TypeOK, Loop, Places
  <2>5. LoopInv'
    BY <1>2, <1>3, <2>1, <2>4 DEF LoopInv, Undelivered, memory
  <2>6. QED
    BY <1>1, <1>2, <2>1, <2>4, <2>5, LoopMoveKeeps
    DEF HoldsMutex, HoldsUpgradeLock
<1>6. CASE PassUpgrade \/ LockSession \/ Relay
  <2>1. PICK a \in {"session", "relaying", "relayed", "erred"} :
          d' = [d EXCEPT !.at = a]
    BY <1>6 DEF PassUpgrade, LockSession, Relay
  <2>2. /\ d' \in Loop /\ d'.at = a /\ d'.run = d.run
        /\ d'.target = d.target /\ d'.session = d.session
    BY <2>1 DEF IInv, TypeOK, Loop, Places
  <2>3. d.at \in InFlight \ {"sent"}
    BY <1>6 DEF PassUpgrade, LockSession, Relay, InFlight
  <2>4. LoopInv'
    BY <1>2, <1>3, <2>2, <2>3 DEF IInv, LoopInv, Undelivered, memory
  <2>5. HoldsUpgradeLock' => HoldsUpgradeLock \/ ~upgrading
    BY <1>6 DEF PassUpgrade, LockSession, Relay, HoldsUpgradeLock
  <2>6. HoldsMutex' => d.session \notin turns
    BY <1>6, <2>1, <2>2
    DEF PassUpgrade, LockSession, Relay, HoldsMutex, IInv, SessionExclusive,
        TypeOK, Loop
  <2>7. d'.at # "sent" /\ d.at # "sent"
    BY <2>2, <2>3
  <2>8. QED
    BY <1>1, <1>2, <2>2, <2>4, <2>5, <2>6, <2>7, LoopMoveKeeps
<1>7. QED  BY <1>4, <1>5, <1>6

(* The one step that sends.                                                *)
LEMMA SendKeeps ==
  ASSUME IInv, Send
  PROVE  IInv'
<1>1. /\ d.at = "relayed" /\ d.run \in Runs /\ Undelivered(d.run)
      /\ d.run \notin inMemory /\ d.target \in Chats
  BY DEF Send, IInv, LoopInv, InFlight
<1>2. /\ UNCHANGED <<runs, clock, memory, world, envs, restarts, lostMark>>
      /\ d' = [d EXCEPT !.at = "sent"]
  BY DEF Send
<1>3. faults' \in 0..MaxFaults
  BY FaultsType DEF Send, IInv, AllFaults
<1>4. /\ d' \in Loop /\ d'.at = "sent" /\ d'.run = d.run
      /\ d'.target = d.target /\ d'.session = d.session
  BY <1>2 DEF IInv, TypeOK, Loop, Places
<1>5. /\ sent' \in [Runs -> Nat]
      /\ \A r \in Runs \ {d.run} : sent'[r] = sent[r]
      /\ sent'[d.run] > 1 => sent[d.run] > 0
  <2>1. CASE UNCHANGED sent
    BY <1>1, <2>1 DEF IInv, TypeOK
  <2>2. CASE sent' = [sent EXCEPT ![d.run] = @ + 1]
    BY <1>1, <2>2 DEF IInv, TypeOK
  <2>3. QED  BY <2>1, <2>2 DEF Send
<1>6. sent[d.run] > 0 => d.run \in lostMark
  BY <1>1 DEF IInv, SentAccounted, Undelivered
<1>7. TypeOK'
  BY <1>2, <1>3, <1>4, <1>5 DEF IInv, TypeOK, memory, world
<1>8. LoopInv'
  BY <1>1, <1>2, <1>4 DEF LoopInv, Undelivered, memory
<1>9. SentAccounted'
  BY <1>1, <1>2, <1>4, <1>5 DEF IInv, SentAccounted, memory
<1>10. SentTwiceOnlyAfterDeath'
  BY <1>2, <1>5, <1>6 DEF IInv, SentTwiceOnlyAfterDeath
<1>11. UpgradeExcludesDelivery' /\ SessionExclusive'
  BY <1>1, <1>2, <1>4 DEF IInv, UpgradeExcludesDelivery, SessionExclusive,
                          HoldsMutex, HoldsUpgradeLock, world
<1>12. QED  BY <1>7, <1>8, <1>9, <1>10, <1>11 DEF IInv

(* A tick that ends by marking its row, or by failing to: the row leaves   *)
(* the table of undelivered results, or is remembered.                     *)
LEMMA MarkKeeps ==
  ASSUME IInv, NEW o \in Outcomes, MarkOutcome(d.run, o), Sleep,
         d.at # "asleep",
         attempts' \in [Runs -> 0..(MaxAttempts - 1)], idle' \in BOOLEAN,
         UNCHANGED <<clock, allowed, active, turns, upgrading, envs, restarts,
                     ghosts>>
  PROVE  IInv'
<1>1. d.run \in Runs
  BY DEF IInv, LoopInv
<1>2. /\ runs' \in [Runs -> Row] /\ inMemory' \subseteq Runs
      /\ faults' \in 0..MaxFaults
      /\ \A q \in Runs : q # d.run => runs'[q] = runs[q]
      /\ \/ runs'[d.run].outcome = o /\ inMemory' = inMemory
         \/ runs' = runs /\ inMemory' = inMemory \cup {d.run}
  BY <1>1, MarkType DEF IInv
<1>3. d' \in Loop /\ d'.at = "asleep"
  BY DEF Sleep, Asleep, Loop, Places
<1>4. TypeOK'
  BY <1>2, <1>3 DEF IInv, TypeOK, ghosts
<1>5. LoopInv'
  BY <1>3 DEF LoopInv, InFlight
<1>6. SentAccounted'
  BY <1>2 DEF IInv, SentAccounted, ghosts, Outcomes
<1>7. SentTwiceOnlyAfterDeath'
  BY DEF IInv, SentTwiceOnlyAfterDeath, ghosts
<1>8. UpgradeExcludesDelivery' /\ SessionExclusive'
  BY <1>3
  DEF UpgradeExcludesDelivery, SessionExclusive, HoldsMutex, HoldsUpgradeLock
<1>9. QED  BY <1>4, <1>5, <1>6, <1>7, <1>8 DEF IInv

LEMMA SettleKeeps ==
  ASSUME IInv, Refuse \/ Conclude \/ Retry
  PROVE  IInv'
<1> USE DeliveryAssumption DEF DeliveryAssumption
<1>1. CASE Refuse
  <2>1. PICK o \in Outcomes : MarkOutcome(d.run, o)
    BY <1>1 DEF Refuse, Outcomes
  <2>2. QED
    BY <1>1, <2>1, MarkKeeps DEF Refuse, IInv, TypeOK, world
<1>2. CASE Conclude
  BY <1>2, MarkKeeps DEF Conclude, Outcomes, IInv, TypeOK
<1>3. CASE Retry
  <2>1. d.run \in Runs /\ d.at = "erred"
    BY <1>3 DEF Retry, IInv, LoopInv
  <2>2. attempts' \in [Runs -> 0..(MaxAttempts - 1)]
    BY <1>3, <2>1 DEF Retry, IInv, TypeOK
  <2>3. CASE MarkOutcome(d.run, "failed")
    BY <1>3, <2>1, <2>2, <2>3, MarkKeeps
    DEF Retry, Outcomes, world, IInv, TypeOK
  <2>4. CASE UNCHANGED <<runs, inMemory, faults>>
    <3>1. d' \in Loop /\ d'.at = "asleep"
      BY <1>3 DEF Retry, Sleep, Asleep, Loop, Places
    <3>2. TypeOK'
      BY <1>3, <2>2, <2>4, <3>1 DEF Retry, IInv, TypeOK, world, ghosts
    <3>3. LoopInv'
      BY <3>1 DEF LoopInv, InFlight
    <3>4. SentAccounted' /\ SentTwiceOnlyAfterDeath'
      BY <1>3, <2>1, <2>4 DEF Retry, IInv, SentAccounted,
                              SentTwiceOnlyAfterDeath, ghosts
    <3>5. UpgradeExcludesDelivery' /\ SessionExclusive'
      BY <3>1 DEF UpgradeExcludesDelivery, SessionExclusive, HoldsMutex,
                  HoldsUpgradeLock
    <3>6. QED  BY <3>2, <3>3, <3>4, <3>5 DEF IInv
  <2>5. QED  BY <1>3, <2>3, <2>4 DEF Retry
<1>4. QED  BY <1>1, <1>2, <1>3

LEMMA DeliverKeeps ==
  ASSUME IInv, Fetch \/ Deliver
  PROVE  IInv'
  BY FetchKeeps, SelectKeeps, SupersedeKeeps, PathKeeps, SendKeeps,
     SettleKeeps DEF Deliver

LEMMA RestartKeeps ==
  ASSUME IInv, Restart
  PROVE  IInv'
<1> USE DeliveryAssumption DEF DeliveryAssumption
<1>1. /\ runs' \in [Runs -> Row]
      /\ \A r \in Runs : runs'[r].outcome = runs[r].outcome
  <2>1. \A r \in Runs : [runs[r] EXCEPT !.st = "lost"] \in Row
    BY DEF IInv, TypeOK, Row
  <2>2. \A r \in Runs : runs[r] \in Row
    BY DEF IInv, TypeOK
  <2>3. runs' = [r \in Runs |-> IF runs[r].st \in {"running", "finished"}
                                THEN [runs[r] EXCEPT !.st = "lost"]
                                ELSE runs[r]]
    BY DEF Restart
  <2>4. QED  BY <2>1, <2>2, <2>3 DEF Row
<1>2. d' \in Loop /\ d'.at = "asleep"
  BY DEF Restart, Sleep, Asleep, Loop, Places
<1>3. TypeOK'
  <2>1. restarts' \in 0..MaxRestarts
    BY DEF Restart, IInv, TypeOK
  <2>2. attempts' \in [Runs -> 0..(MaxAttempts - 1)]
    BY DEF Restart
  <2>3. lostMark' \subseteq Runs
    BY DEF Restart, IInv, TypeOK
  <2>4. QED
    BY <1>1, <1>2, <2>1, <2>2, <2>3 DEF Restart, IInv, TypeOK
<1>4. LoopInv'
  BY <1>2 DEF LoopInv, InFlight
<1>5. SentAccounted' /\ SentTwiceOnlyAfterDeath'
  BY <1>1 DEF Restart, IInv, SentAccounted, SentTwiceOnlyAfterDeath
<1>6. UpgradeExcludesDelivery' /\ SessionExclusive'
  BY <1>2 DEF UpgradeExcludesDelivery, SessionExclusive, HoldsMutex,
              HoldsUpgradeLock
<1>7. QED  BY <1>3, <1>4, <1>5, <1>6 DEF IInv

(* Users, clients and the upgrade.                                         *)
LEMMA WorldKeeps ==
  ASSUME IInv, WorldStep
  PROVE  IInv'
<1>0. Acts => envs' \in 0..MaxEnv
  BY DeliveryAssumption DEF DeliveryAssumption, Acts, IInv, TypeOK
<1>1. ASSUME NEW j \in Jobs, NEW c \in Chats, Redirect(j, c) PROVE IInv'
  <2>1. \A r \in Runs : [runs[r] EXCEPT !.target = c] \in Row
    BY DEF IInv, TypeOK, Row
  <2>2. /\ runs' \in [Runs -> Row]
        /\ \A r \in Runs : /\ runs'[r].st = runs[r].st
                           /\ runs'[r].outcome = runs[r].outcome
    BY <1>1, <2>1 DEF Redirect, IInv, TypeOK, Row
  <2>3. TypeOK'
    BY <1>0, <1>1, <2>2 DEF Redirect, IInv, TypeOK, memory, world, ghosts
  <2>4. LoopInv'
    BY <1>1, <2>2 DEF Redirect, IInv, LoopInv, Undelivered, memory
  <2>5. SentAccounted' /\ SentTwiceOnlyAfterDeath'
    BY <1>1, <2>2 DEF Redirect, IInv, SentAccounted, SentTwiceOnlyAfterDeath,
                      memory, ghosts
  <2>6. UpgradeExcludesDelivery' /\ SessionExclusive'
    BY <1>1 DEF Redirect, IInv, UpgradeExcludesDelivery, SessionExclusive,
                HoldsMutex, HoldsUpgradeLock, world
  <2>7. QED  BY <2>3, <2>4, <2>5, <2>6 DEF IInv
<1>2. ASSUME UNCHANGED <<runs, clock, d, memory, restarts, faults, ghosts>>,
             TypeOK', UpgradeExcludesDelivery', SessionExclusive'
      PROVE  IInv'
  BY <1>2 DEF IInv, LoopInv, Undelivered, SentAccounted,
              SentTwiceOnlyAfterDeath, memory, ghosts
<1>3. ASSUME NEW c \in Chats, AllowlistChanges(c) PROVE IInv'
  BY <1>0, <1>2, <1>3
  DEF AllowlistChanges, IInv, TypeOK, memory, ghosts,
      UpgradeExcludesDelivery, SessionExclusive, HoldsMutex, HoldsUpgradeLock
<1>4. ASSUME NEW c \in Chats, NEW s \in Sessions \cup {NoSession},
             SwitchSession(c, s)
      PROVE  IInv'
  BY <1>0, <1>2, <1>4
  DEF SwitchSession, IInv, TypeOK, memory, ghosts,
      UpgradeExcludesDelivery, SessionExclusive, HoldsMutex, HoldsUpgradeLock
<1>5. ASSUME NEW c \in Chats, TurnStarts(c) PROVE IInv'
  <2>1. TypeOK'
    BY <1>0, <1>5 DEF TurnStarts, IInv, TypeOK, memory, ghosts
  <2>2. UpgradeExcludesDelivery' /\ SessionExclusive'
    BY <1>5 DEF TurnStarts, IInv, UpgradeExcludesDelivery, SessionExclusive,
                HoldsMutex, HoldsUpgradeLock
  <2>3. QED  BY <1>2, <1>5, <2>1, <2>2 DEF TurnStarts
<1>6. ASSUME NEW s \in Sessions, TurnEnds(s) PROVE IInv'
  BY <1>2, <1>6
  DEF TurnEnds, IInv, TypeOK, memory, bounds, ghosts,
      UpgradeExcludesDelivery, SessionExclusive, HoldsMutex, HoldsUpgradeLock
<1>7. CASE BecomesIdle \/ UpgradeEnds
  <2>1. /\ UNCHANGED <<runs, clock, d, memory, allowed, active, turns, bounds,
                       ghosts>>
        /\ idle' \in BOOLEAN /\ upgrading' \in BOOLEAN
        /\ upgrading' => upgrading
    <3>1. CASE BecomesIdle
      BY <3>1 DEF BecomesIdle, IInv, TypeOK
    <3>2. CASE UpgradeEnds
      BY <3>2 DEF UpgradeEnds, IInv, TypeOK
    <3>3. QED  BY <1>7, <3>1, <3>2
  <2>2. TypeOK'
    BY <2>1 DEF IInv, TypeOK, memory, bounds, ghosts
  <2>3. UpgradeExcludesDelivery' /\ SessionExclusive'
    BY <2>1 DEF IInv, UpgradeExcludesDelivery, SessionExclusive, HoldsMutex,
                HoldsUpgradeLock
  <2>4. QED  BY <1>2, <2>1, <2>2, <2>3 DEF bounds
<1>8. CASE UpgradeStarts
  <2>1. TypeOK'
    BY <1>0, <1>8 DEF UpgradeStarts, IInv, TypeOK, memory, ghosts
  <2>2. UpgradeExcludesDelivery' /\ SessionExclusive'
    BY <1>8 DEF UpgradeStarts, IInv, UpgradeExcludesDelivery,
                SessionExclusive, HoldsMutex, HoldsUpgradeLock
  <2>3. QED  BY <1>2, <1>8, <2>1, <2>2 DEF UpgradeStarts
<1>9. QED
  BY <1>1, <1>3, <1>4, <1>5, <1>6, <1>7, <1>8, RestartKeeps DEF WorldStep

LEMMA InvNext == IInv /\ [Next]_vars => IInv'
<1> SUFFICES ASSUME IInv, [Next]_vars PROVE IInv'
  OBVIOUS
<1>1. CASE UNCHANGED vars
  BY <1>1
  DEF vars, memory, world, bounds, ghosts, IInv, TypeOK, LoopInv, Undelivered,
      SentAccounted, SentTwiceOnlyAfterDeath, UpgradeExcludesDelivery,
      SessionExclusive, HoldsMutex, HoldsUpgradeLock
<1>2. QED
  BY <1>1, RunStepKeeps, DeliverKeeps, WorldKeeps DEF Next

LEMMA Invariant == SafetySpec => []IInv
  BY InvInit, InvNext, PTL DEF SafetySpec

(* Type correctness.                                                       *)
THEOREM TypeCorrect == SafetySpec => []TypeOK
<1>1. IInv => TypeOK
  BY DEF IInv
<1>2. QED  BY <1>1, Invariant, PTL

(* Whatever fails and whatever is redirected meanwhile, a result is sent   *)
(* twice only if the process died in between.                              *)
THEOREM SentOnce == SafetySpec => []SentTwiceOnlyAfterDeath
<1>1. IInv => SentTwiceOnlyAfterDeath
  BY DEF IInv
<1>2. QED  BY <1>1, Invariant, PTL

(* A delivery and an upgrade never overlap.                                *)
THEOREM UpgradeExcluded == SafetySpec => []UpgradeExcludesDelivery
<1>1. IInv => UpgradeExcludesDelivery
  BY DEF IInv
<1>2. QED  BY <1>1, Invariant, PTL

(* A delivery and a worker's turn never resume one session at a time.      *)
THEOREM SessionExcluded == SafetySpec => []SessionExclusive
<1>1. IInv => SessionExclusive
  BY DEF IInv
<1>2. QED  BY <1>1, Invariant, PTL

-----------------------------------------------------------------------------
(* The loop implements ResultMailbox: its safety part, step by step.       *)
MailStep == Mailbox!Next \/ UNCHANGED Box

(* A step that changes no row's outcome and publishes none is a stutter.   *)
LEMMA SameBox ==
  ASSUME \A r \in Runs :
           /\ runs'[r].outcome = runs[r].outcome
           /\ runs'[r].st = "published" <=> runs[r].st = "published"
  PROVE  UNCHANGED Box
  BY DEF Box

(* A mark settles one pending result, or nothing.                          *)
LEMMA MarkSettles ==
  ASSUME IInv, NEW r \in Runs, Undelivered(r), NEW o \in Mailbox!Finals,
         MarkOutcome(r, o)
  PROVE  MailStep
<1>1. o \in Outcomes
  BY DEF Mailbox!Finals, Outcomes
<1>2. CASE runs' = runs
  BY <1>2 DEF MailStep, Box
<1>3. CASE runs' # runs
  <2>1. /\ runs'[r].outcome = o
        /\ \A q \in Runs : /\ runs'[q].st = runs[q].st
                           /\ q # r => runs'[q] = runs[q]
    BY <1>1, <1>3, MarkType DEF IInv
  <2>2. Box[r] = "pending" /\ Box' = [Box EXCEPT ![r] = o]
    BY <1>1, <2>1 DEF Box, Undelivered, Outcomes
  <2>3. Mailbox!Settle(r, o)
    BY <2>2 DEF Mailbox!Settle, Box
  <2>4. QED  BY <2>3 DEF MailStep, Mailbox!Next
<1>4. QED  BY <1>2, <1>3

LEMMA RunStepPosts ==
  ASSUME IInv, RunStep
  PROVE  MailStep
<1>1. PICK r \in Runs : \/ \E c \in Chats \cup {NoChat} : StartRun(r, c)
                        \/ FinishRun(r) \/ Publish(r)
  BY DEF RunStep
<1>2. CASE Publish(r)
  <2>1. /\ runs[r].st = "finished" /\ runs'[r].st = "published"
        /\ runs'[r].outcome = runs[r].outcome
        /\ \A q \in Runs \ {r} : runs'[q] = runs[q]
    BY <1>2 DEF Publish, IInv, TypeOK, Row
  <2>2. CASE runs[r].outcome = "open"
    <3>1. Box[r] = "empty" /\ Box' = [Box EXCEPT ![r] = "pending"]
      BY <2>1, <2>2 DEF Box
    <3>2. Mailbox!Post(r)
      BY <3>1 DEF Mailbox!Post, Box
    <3>3. QED  BY <3>2 DEF MailStep, Mailbox!Next
  <2>3. CASE runs[r].outcome # "open"
    BY <2>1, <2>3 DEF MailStep, Box
  <2>4. QED  BY <2>2, <2>3
<1>3. CASE FinishRun(r) \/ \E c \in Chats \cup {NoChat} : StartRun(r, c)
  <2>1. /\ runs[r].st \in {"absent", "running"}
        /\ runs'[r].st \in {"running", "finished"}
        /\ runs'[r].outcome = runs[r].outcome
        /\ \A q \in Runs \ {r} : runs'[q] = runs[q]
    BY ZenonT(30), <1>3 DEF FinishRun, StartRun, IInv, TypeOK, Row
  <2>2. QED  BY <2>1, SameBox DEF MailStep
<1>4. QED  BY <1>1, <1>2, <1>3

LEMMA SupersedeMaps ==
  ASSUME IInv, Supersede
  PROVE  MailStep
<1>1. d.run \in Runs /\ Undelivered(d.run)
  BY DEF Supersede, IInv, LoopInv
<1>2. CASE UNCHANGED runs
  BY <1>2 DEF MailStep, Box
<1>3. CASE runs' = [q \in Runs |->
             IF JobOf[q] = JobOf[d.run] /\ q # d.run /\ Undelivered(q)
             THEN [runs[q] EXCEPT !.outcome = "superseded"] ELSE runs[q]]
  <2> DEFINE others == {q \in Runs : /\ JobOf[q] = JobOf[d.run]
                                     /\ Undelivered(q)} \ {d.run}
  <2>1. \A q \in Runs : /\ q \in others => runs'[q].outcome = "superseded"
                        /\ q \notin others => runs'[q] = runs[q]
    BY <1>3 DEF IInv, TypeOK, Row
  <2>2. \A q \in Runs : Box[q] = "pending" <=> Undelivered(q)
    BY DEF Box, Undelivered, IInv, TypeOK, Row, Outcomes
  <2>3. others = Mailbox!Pending(JobOf[d.run]) \ {d.run}
    BY <2>2 DEF Mailbox!Pending, Box
  <2>4. Box' = [q \in Runs |-> IF q \in others THEN "superseded" ELSE Box[q]]
    BY <2>1 DEF Box
  <2>5. PICK r \in Runs : r = d.run
    BY <1>1
  <2>6. Mailbox!SupersedeOthers(r)
    BY <1>1, <2>2, <2>3, <2>4, <2>5 DEF Mailbox!SupersedeOthers, Box
  <2>7. Mailbox!Next
    BY <2>6 DEF Mailbox!Next
  <2>8. QED  BY <2>7 DEF MailStep
<1>4. QED  BY <1>2, <1>3 DEF Supersede

LEMMA SettleMaps ==
  ASSUME IInv, Refuse \/ Conclude \/ Retry
  PROVE  MailStep
<1>1. d.run \in Runs /\ Undelivered(d.run)
  BY DEF Refuse, Conclude, Retry, IInv, LoopInv
<1>2. (\E o \in Mailbox!Finals : MarkOutcome(d.run, o)) \/ runs' = runs
  BY DEF Refuse, Conclude, Retry, Mailbox!Finals
<1>3. QED  BY <1>1, <1>2, MarkSettles DEF MailStep, Box

(* Every step is a step of the mailbox or leaves it alone.                 *)
LEMMA MailboxStep ==
  ASSUME IInv, [Next]_vars
  PROVE  MailStep
<1>1. CASE UNCHANGED runs
  BY <1>1 DEF MailStep, Box
<1>2. CASE RunStep \/ Supersede \/ Refuse \/ Conclude \/ Retry
  BY <1>2, RunStepPosts, SupersedeMaps, SettleMaps
<1>3. ASSUME NEW j \in Jobs, NEW c \in Chats, Redirect(j, c) PROVE MailStep
  <2>1. \A r \in Runs : /\ runs'[r].st = runs[r].st
                        /\ runs'[r].outcome = runs[r].outcome
    BY <1>3 DEF Redirect, IInv, TypeOK, Row
  <2>2. QED  BY <2>1, SameBox DEF MailStep
<1>4. CASE Restart
  <2>1. \A r \in Runs : /\ runs'[r].st = "published" <=> runs[r].st = "published"
                        /\ runs'[r].outcome = runs[r].outcome
    BY <1>4 DEF Restart, IInv, TypeOK, Row
  <2>2. QED  BY <2>1, SameBox DEF MailStep
<1>5. QED
  BY <1>1, <1>2, <1>3, <1>4
  DEF Next, Deliver, WorldStep, Fetch, SelectNewest, Skip, LookUpSession,
      PassUpgrade, LockSession, Relay, Send, AllowlistChanges, TurnStarts,
      SwitchSession, TurnEnds, BecomesIdle, UpgradeStarts, UpgradeEnds, vars

(* The delivery loop implements the mailbox: results are posted once and   *)
(* settled once and for all, and superseded only in favour of a pending    *)
(* one (that each is settled in the end is for TLC).                       *)
THEOREM ImplementsMailbox ==
  SafetySpec => Mailbox!Init /\ [][Mailbox!Next]_Box
<1>1. Init => Mailbox!Init
  BY DEF Init, Mailbox!Init, NoRow, Box
<1>2. IInv /\ [Next]_vars => [Mailbox!Next]_Box
  BY MailboxStep DEF MailStep
<1>3. QED  BY <1>1, <1>2, Invariant, PTL DEF SafetySpec

=============================================================================
