------------------------------- MODULE Memory -------------------------------
(***************************************************************************)
(* The client of the memory service Hindsight (crates/right-memory) as two *)
(* processes use it: the bot, which recalls, retains, probes and drains,   *)
(* and the MCP aggregator, which recalls and retains for the tools of      *)
(* Claude.  Each process has a circuit breaker and a status of its own;    *)
(* the queue of retains that failed, pending_retains, is one table for     *)
(* both.                                                                   *)
(*                                                                         *)
(* A step is one critical section of a mutex or of the watch channel, one  *)
(* SQL statement or transaction, or an answer of the service: the breaker  *)
(* is recorded, read back and copied into the status in three steps, and   *)
(* calls of one process interleave between them.                           *)
(***************************************************************************)
EXTENDS Integers, Sequences, FiniteSets

CONSTANTS
  Procs,          \* "bot" and "aggregator"
  Calls,          \* tasks that call the service, one call at a time each
  ProcOf,
  Recallers,      \* those of them that recall
  Drainer,        \* the call of run_drain_loop
  Prober,         \* the call of the bank probe
  Items,          \* payloads to retain
  NoItem,
  Window, Threshold, InitialOpen, MaxOpen, AuthOpen,     \* circuit.rs
  Retries,        \* RetryPolicy.attempts, of each call's retain or probe
  QueueCap, MaxAge, DrainBatch,                              \* retain_queue.rs
  AlertPause, CrashPause,     \* 24 hours; 1 hour, after a restart
  MaxNow,         \* bound on the clock
  MaxFaults,      \* bound on failures
  MaxDeaths       \* bound on restarts of the bot

ASSUME MemoryAssumption ==
  /\ ProcOf \in [Calls -> Procs] /\ Recallers \subseteq Calls
  /\ Drainer \in Calls /\ Prober \in Calls /\ Drainer # Prober
  /\ ProcOf[Drainer] = "bot" /\ ProcOf[Prober] = "bot"
  /\ Window \in Nat /\ Threshold \in Nat \ {0}
  /\ InitialOpen \in Nat \ {0} /\ MaxOpen \in Nat /\ AuthOpen \in Nat
  /\ InitialOpen <= MaxOpen /\ MaxOpen <= AuthOpen
  /\ Retries \in [Calls -> Nat] /\ QueueCap \in Nat \ {0} /\ MaxAge \in Nat
  /\ DrainBatch \in Nat
  /\ AlertPause \in Nat /\ CrashPause \in Nat /\ MaxNow \in Nat
  /\ MaxFaults \in Nat /\ MaxDeaths \in Nat
  /\ NoItem \notin Items

VARIABLES
  now,
  breaker,     \* per process: state, until, the recent failures, and the
               \* length of the last opening
  status,      \* per process: the watch channel
  calls,       \* the calls in flight
  queue,       \* pending_retains, oldest first
  batch,       \* what drain_tick has loaded and not yet handled
  alert,       \* memory_alerts: when the last alert was recorded, or Never
  watch,       \* the alert watcher: idle, sending to the chats, or recording
  seen,        \* the alert watcher has handled the current status
  boot,        \* the bank probe at startup: running, repeated in the
               \* background, or over
  stored,      \* ghost: what the service holds
  dropped,     \* ghost: what was given up, with a log line that says so
  refused,     \* ghost: what retain neither delivered nor queued
  sentAt,      \* ghost: when the last alert was sent that the next is to be
               \* spaced from, or Never
  faults, deaths

vars == <<now, breaker, status, calls, queue, batch, alert, seen, boot,
          stored, dropped, refused, watch, sentAt, faults, deaths>>
Never == -1

-----------------------------------------------------------------------------
(* A rate limit is a transient error that has stored nothing.              *)
Kinds == {"transient", "auth", "client", "malformed"}

Fresh == [state |-> "closed", until |-> 0, failures |-> <<>>, last |-> InitialOpen]

(* pop_front while the front is older than the window.                     *)
Recent(failures) ==
  LET stale == {i \in 1 .. Len(failures) : \A j \in 1 .. i : failures[j] < now - Window}
  IN  SubSeq(failures, Cardinality(stale) + 1, Len(failures))

Refresh(b) ==
  LET due == b.state = "open" /\ now >= b.until
  IN  [b EXCEPT !.state = IF due THEN "half" ELSE @, !.until = IF due THEN 0 ELSE @,
                !.failures = Recent(@)]

Opened(b, d) == [b EXCEPT !.state = "open", !.until = now + d, !.last = d]
AtMost(x, y) == IF x <= y THEN x ELSE y

(* Breaker::record                                                         *)
(* Mutant: any success closes.                                             *)
RecordSuccessAny(b) == IF b.state = "closed" THEN b ELSE Fresh

RecordSuccess(b) == IF b.state = "half" THEN Fresh ELSE b

(* Mutant: doubling without the cap.                                       *)
RecordFailureUncapped(b) ==
  IF b.state = "half" THEN Opened(b, 2 * b.last)
  ELSE IF b.state = "closed" /\ Len(b.failures) + 1 >= Threshold
       THEN Opened(b, InitialOpen)
       ELSE [b EXCEPT !.failures = Append(@, now)]

RecordFailure(b) ==
  LET pushed == [b EXCEPT !.failures = Append(@, now)]
  IN  CASE b.state = "closed" /\ Len(pushed.failures) >= Threshold ->
             Opened(pushed, InitialOpen)
        [] b.state = "half" -> Opened(pushed, AtMost(2 * b.last, MaxOpen))
        [] OTHER -> pushed

Record(b, outcome) ==
  CASE outcome = "ok" -> RecordSuccess(Refresh(b))
    [] outcome = "auth" -> Opened(Refresh(b), AuthOpen)
    [] outcome = "client" -> Refresh(b)
    [] OTHER -> RecordFailure(Refresh(b))

(* A call: `admitting' is at the breaker's door, `flying' waits for the    *)
(* service, `recorded' has to read the breaker back, `reading' to publish  *)
(* what it read, `pausing' is between two attempts, `returned' has its     *)
(* result, `replying' tells Claude what became of memory_retain.           *)
Idle == [at |-> "idle", what |-> "none", item |-> NoItem, left |-> 0,
         result |-> "none", read |-> "closed"]
Probing == [Idle EXCEPT !.at = "admitting", !.what = "probe", !.left = Retries[Prober]]
Stages == {"idle", "admitting", "flying", "recorded", "reading", "pausing",
           "returned", "replying"}

(* A call is over: a recall has nothing left to do.                        *)
Returned(call) ==
  IF call.what = "recall" THEN Idle
  ELSE [call EXCEPT !.at = "returned", !.read = "closed", !.left = 0]

Init ==
  /\ now = 0
  /\ breaker = [p \in Procs |-> Fresh]
  /\ status = [p \in Procs |-> "healthy"]
  /\ calls = [c \in Calls |-> IF c = Prober THEN Probing ELSE Idle]
  /\ queue = <<>>
  /\ batch = <<>>
  /\ alert = Never /\ watch = "idle" /\ seen = FALSE /\ boot = "starting"
  /\ stored = {} /\ dropped = {} /\ refused = {} /\ sentAt = Never
  /\ faults = 0 /\ deaths = 0

Begin(c, what, item, attempts) ==
  /\ calls[c].at = "idle"
  /\ ProcOf[c] = "bot" => boot # "starting"
  /\ calls' = [calls EXCEPT ![c] = [Idle EXCEPT !.at = "admitting", !.what = what,
                                      !.item = item, !.left = attempts]]

Queued == {queue[i].item : i \in DOMAIN queue}
Batched == {batch[i].item : i \in DOMAIN batch}
InFlight == {calls[c].item : c \in Calls}

-----------------------------------------------------------------------------
(* A turn recalls, or retains what was said; the aggregator does the same  *)
(* for memory_recall, memory_reflect and memory_retain.                    *)
Recall(c) ==
  /\ c \in Recallers \ {Drainer, Prober}
  /\ Begin(c, "recall", NoItem, 0)
  /\ UNCHANGED <<now, breaker, status, queue, batch, alert, seen, boot, stored, dropped,
                 refused, watch, sentAt, faults, deaths>>

Retain(c, x) ==
  /\ c \notin {Drainer, Prober}
  /\ x \notin stored \cup dropped \cup refused \cup Queued \cup Batched \cup InFlight
  /\ Begin(c, "retain", x, Retries[c])
  /\ UNCHANGED <<now, breaker, status, queue, batch, alert, seen, boot, stored, dropped,
                 refused, watch, sentAt, faults, deaths>>

(* get_or_create_bank: the bot waits for it at startup, and repeats it in  *)
(* the background until it succeeds when it failed for a while.            *)
Probe ==
  /\ boot = "looping"
  /\ Begin(Prober, "probe", NoItem, Retries[Prober])
  /\ UNCHANGED <<now, breaker, status, queue, batch, alert, seen, boot, stored, dropped,
                 refused, watch, sentAt, faults, deaths>>

(* call_with_policy: the breaker is asked before each attempt.             *)
Admit(c) ==
  /\ calls[c].at = "admitting"
  /\ LET b == Refresh(breaker[ProcOf[c]])
     IN  /\ breaker' = [breaker EXCEPT ![ProcOf[c]] = b]
         /\ calls' = [calls EXCEPT ![c].at = IF b.state = "open" THEN "recorded"
                                             ELSE "flying",
                                   ![c].result = IF b.state = "open" THEN "refused"
                                                 ELSE @]
  /\ UNCHANGED <<now, status, queue, batch, alert, seen, boot, stored, dropped, refused,
                 watch, sentAt, faults, deaths>>

(* Whether the service has stored what it was sent: perhaps, when no       *)
(* answer came in time or the answer cannot be parsed.                     *)
Landed(outcome) ==
  CASE outcome = "ok" -> {TRUE}
    [] outcome \in {"transient", "malformed"} -> BOOLEAN
    [] OTHER -> {FALSE}

(* The service answers, or does not in time.  An authentication error goes *)
(* into the status at once and for good; a transient one is retried while  *)
(* attempts are left, without a refresh of the status.                     *)
Answer(c, outcome) ==
  /\ calls[c].at = "flying"
  /\ outcome # "ok" => faults < MaxFaults
  /\ faults' = IF outcome = "ok" THEN faults ELSE faults + 1
  /\ breaker' = [breaker EXCEPT ![ProcOf[c]] = Record(@, outcome)]
  /\ \E landed \in Landed(outcome) :
       stored' = stored \cup {x \in {calls[c].item} : x # NoItem /\ landed}
  /\ status' = IF outcome = "auth" THEN [status EXCEPT ![ProcOf[c]] = "auth"]
               ELSE status
  /\ seen' = (seen /\ status'["bot"] = status["bot"])
  /\ LET call == [calls[c] EXCEPT !.result = outcome]
     IN  calls' = [calls EXCEPT ![c] =
           CASE outcome = "auth" -> Returned(call)
             [] outcome = "transient" /\ call.left > 0 ->
                  [call EXCEPT !.at = "pausing", !.left = @ - 1]
             [] OTHER -> [call EXCEPT !.at = "recorded"]]
  /\ UNCHANGED <<now, queue, batch, alert, boot, dropped, refused,
                 watch, sentAt, deaths>>

Resume(c) ==
  /\ calls[c].at = "pausing"
  /\ calls' = [calls EXCEPT ![c].at = "admitting", ![c].result = "none"]
  /\ UNCHANGED <<now, breaker, status, queue, batch, alert, seen, boot, stored, dropped,
                 refused, watch, sentAt, faults, deaths>>

(* refresh_status: the breaker is read under its mutex ...                 *)
ReadBreaker(c) ==
  /\ calls[c].at = "recorded"
  /\ LET b == Refresh(breaker[ProcOf[c]])
     IN  /\ breaker' = [breaker EXCEPT ![ProcOf[c]] = b]
         /\ calls' = [calls EXCEPT ![c].at = "reading", ![c].read = b.state]
  /\ UNCHANGED <<now, status, queue, batch, alert, seen, boot, stored, dropped, refused,
                 watch, sentAt, faults, deaths>>

(* ... and published later, unless authentication has failed.  Mutant:     *)
(* whatever it was.                                                        *)
PublishedOver(old, read) == IF read = "closed" THEN "healthy" ELSE "degraded"

Published(old, read) ==
  IF old = "auth" THEN old ELSE IF read = "closed" THEN "healthy" ELSE "degraded"

PublishStatus(c) ==
  /\ calls[c].at = "reading"
  /\ status' = [status EXCEPT ![ProcOf[c]] = Published(@, calls[c].read)]
  /\ seen' = (seen /\ status'["bot"] = status["bot"])
  /\ calls' = [calls EXCEPT ![c] = Returned(@)]
  /\ UNCHANGED <<now, breaker, queue, batch, alert, boot, stored, dropped, refused, watch,
                 sentAt, faults, deaths>>

-----------------------------------------------------------------------------
(* retain: what failed for a while is queued, what was refused for good is *)
(* dropped.  Once authentication has failed nothing is queued: the drain   *)
(* would never get to it.                                                  *)
ToQueue(c) ==
  \/ calls[c].result = "transient"
  \/ calls[c].result = "refused" /\ status[ProcOf[c]] # "auth"

(* One transaction: the oldest rows go until there is room, then the new   *)
(* one comes.                                                              *)
Enqueue(x) ==
  LET kept == SubSeq(queue, IF Len(queue) < QueueCap THEN 1
                            ELSE Len(queue) - QueueCap + 2, Len(queue))
  IN  /\ queue' = Append(kept, [item |-> x, since |-> now])
      /\ dropped' = dropped \cup {queue[i].item : i \in 1 .. Len(queue) - Len(kept)}

(* A database that fails is only logged.                                   *)
EnqueueFails ==
  faults < MaxFaults /\ faults' = faults + 1 /\ UNCHANGED <<queue, dropped>>

EndRetain(c) ==
  /\ calls[c].at = "returned" /\ calls[c].what = "retain"
  /\ IF calls[c].result = "ok" THEN UNCHANGED <<queue, dropped, refused, faults>>
     ELSE IF ToQueue(c)
     THEN /\ \/ Enqueue(calls[c].item) /\ UNCHANGED faults
             \/ EnqueueFails
          /\ UNCHANGED refused
     ELSE /\ refused' = refused \cup {calls[c].item}
          /\ UNCHANGED <<queue, dropped, faults>>
  /\ calls' = [calls EXCEPT ![c] = IF ProcOf[c] = "bot" THEN Idle
                                   ELSE [@ EXCEPT !.at = "replying"]]
  /\ UNCHANGED <<now, breaker, status, batch, alert, seen, boot, stored, watch, sentAt,
                 deaths>>

(* HindsightBackend::tools_call reads the status once more, to tell whether *)
(* an open breaker means `queued'.                                         *)
SaysQueued(c) ==
  \/ calls[c].result = "transient"
  \/ calls[c].result = "refused" /\ status[ProcOf[c]] # "auth"

Reply(c) ==
  /\ calls[c].at = "replying"
  /\ calls' = [calls EXCEPT ![c] = Idle]
  /\ UNCHANGED <<now, breaker, status, queue, batch, alert, seen, boot, stored, dropped,
                 refused, watch, sentAt, faults, deaths>>

(* A probe that succeeds is what clears a failed authentication.           *)
EndProbe ==
  /\ calls[Prober].at = "returned"
  /\ LET result == calls[Prober].result
     IN  /\ status' = IF result = "ok" /\ status["bot"] = "auth"
                      THEN [status EXCEPT !["bot"] = "healthy"] ELSE status
         /\ boot' = IF result = "ok" \/ (boot = "starting" /\
                        result \in {"auth", "client", "refused"})
                    THEN "over" ELSE "looping"
  /\ calls' = [calls EXCEPT ![Prober] = Idle]
  /\ seen' = (seen /\ status'["bot"] = status["bot"])
  /\ UNCHANGED <<now, breaker, queue, batch, alert, stored, dropped, refused, watch, sentAt,
                 faults, deaths>>

-----------------------------------------------------------------------------
(* run_drain_loop and drain_tick: only while healthy, a batch of the       *)
(* oldest rows is loaded and handled one by one.                           *)
LoadBatch ==
  /\ calls[Drainer].at = "idle" /\ batch = <<>> /\ boot # "starting"
  /\ status["bot"] = "healthy" /\ queue # <<>>
  /\ batch' = [i \in 1 .. AtMost(DrainBatch, Len(queue)) |->
                 [item |-> queue[i].item, aged |-> now - queue[i].since > MaxAge]]
  /\ UNCHANGED <<now, breaker, status, calls, queue, alert, seen, boot, stored, dropped,
                 refused, watch, sentAt, faults, deaths>>

Without(x) ==
  LET i == CHOOSE i \in DOMAIN queue : queue[i].item = x
  IN  IF x \in Queued THEN SubSeq(queue, 1, i - 1) \o SubSeq(queue, i + 1, Len(queue))
      ELSE queue
HeadRow == batch[1]

DropAged ==
  /\ calls[Drainer].at = "idle" /\ batch # <<>>
  /\ HeadRow.aged
  /\ queue' = Without(HeadRow.item)
  /\ dropped' = dropped \cup {HeadRow.item}
  /\ batch' = Tail(batch)
  /\ UNCHANGED <<now, breaker, status, calls, alert, seen, boot, stored, refused, watch,
                 sentAt, faults, deaths>>

DrainOne ==
  /\ batch # <<>> /\ ~HeadRow.aged
  /\ Begin(Drainer, "drain", HeadRow.item, 0)
  /\ UNCHANGED <<now, breaker, status, queue, batch, alert, seen, boot, stored, dropped,
                 refused, watch, sentAt, faults, deaths>>

(* Mutant: the row goes whatever the service answered.                     *)
EndDrainAnyhow ==
  /\ calls[Drainer].at = "returned"
  /\ queue' = Without(HeadRow.item) /\ batch' = Tail(batch)
  /\ calls' = [calls EXCEPT ![Drainer] = Idle]
  /\ UNCHANGED <<now, breaker, status, alert, seen, boot, stored, dropped, refused, watch,
                 sentAt, faults, deaths>>

(* The row goes when it was stored or refused for good; another failure    *)
(* leaves it and ends the tick.                                            *)
EndDrain ==
  /\ calls[Drainer].at = "returned"
  /\ LET result == calls[Drainer].result
     IN  /\ queue' = IF result \in {"ok", "client"} THEN Without(HeadRow.item) ELSE queue
         /\ dropped' = IF result = "client" THEN dropped \cup {HeadRow.item} ELSE dropped
         /\ batch' = IF result \in {"ok", "client"} THEN Tail(batch) ELSE <<>>
  /\ calls' = [calls EXCEPT ![Drainer] = Idle]
  /\ UNCHANGED <<now, breaker, status, alert, seen, boot, stored, refused, watch, sentAt,
                 faults, deaths>>

-----------------------------------------------------------------------------
(* memory_alerts.rs, handle_status_change: should_fire reads the mark, and  *)
(* says no when the database fails; a recovery clears it.  The watch       *)
(* channel keeps the last value only.                                      *)
Due == alert = Never \/ now - alert > AlertPause

WatchStatus ==
  /\ ~seen /\ boot # "starting" /\ watch = "idle"
  /\ seen' = TRUE
  /\ \/ /\ status["bot"] = "auth" /\ Due /\ watch' = "sending"
        /\ UNCHANGED <<alert, sentAt, faults>>
     \/ /\ status["bot"] = "healthy" /\ alert' = Never /\ sentAt' = Never
        /\ UNCHANGED <<watch, faults>>
     \/ /\ status["bot"] = "degraded" \/ (status["bot"] = "auth" /\ ~Due)
        /\ UNCHANGED <<alert, watch, sentAt, faults>>
     \/ /\ status["bot"] # "degraded" /\ faults < MaxFaults /\ faults' = faults + 1
        /\ UNCHANGED <<alert, watch, sentAt>>
  /\ UNCHANGED <<now, breaker, status, calls, queue, batch, boot, stored, dropped, refused,
                 deaths>>

(* broadcast_to_chats is awaited, chat by chat ...                         *)
SendAlert ==
  /\ watch = "sending"
  /\ watch' = "recording" /\ sentAt' = now
  /\ UNCHANGED <<now, breaker, status, calls, queue, batch, alert, seen, boot, stored,
                 dropped, refused, faults, deaths>>

(* Mutant: an alert is not recorded.                                       *)
RecordAlertNot ==
  /\ watch = "recording" /\ watch' = "idle"
  /\ UNCHANGED <<now, breaker, status, calls, queue, batch, alert, seen, boot, stored,
                 dropped, refused, sentAt, faults, deaths>>

(* ... and only then is it recorded; that this failed is only logged.      *)
RecordAlert ==
  /\ watch = "recording" /\ watch' = "idle"
  /\ \/ alert' = now /\ UNCHANGED <<sentAt, faults>>
     \/ /\ faults < MaxFaults /\ faults' = faults + 1
        /\ sentAt' = Never /\ UNCHANGED alert
  /\ UNCHANGED <<now, breaker, status, calls, queue, batch, seen, boot, stored, dropped,
                 refused, deaths>>

(* The bot is restarted: rows remain, calls are gone, and an alert of more *)
(* than an hour ago is forgotten; so is one that was not recorded yet.     *)
Restart ==
  /\ deaths < MaxDeaths /\ deaths' = deaths + 1
  /\ breaker' = [breaker EXCEPT !["bot"] = Fresh]
  /\ status' = [status EXCEPT !["bot"] = "healthy"]
  /\ calls' = [c \in Calls |-> IF ProcOf[c] # "bot" THEN calls[c]
                              ELSE IF c = Prober THEN Probing ELSE Idle]
  /\ batch' = <<>> /\ seen' = FALSE /\ boot' = "starting"
  /\ dropped' = dropped \cup {calls[c].item : c \in {d \in Calls : ProcOf[d] = "bot"
                                                     /\ calls[d].what = "retain"}}
  /\ watch' = "idle"
  /\ LET old == alert # Never /\ now - alert > CrashPause
     IN  /\ alert' = IF old THEN Never ELSE alert
         /\ sentAt' = IF old \/ watch = "recording" THEN Never ELSE sentAt
  /\ UNCHANGED <<now, queue, stored, refused, faults>>

Tick ==
  /\ now < MaxNow
  /\ now' = now + 1
  /\ UNCHANGED <<breaker, status, calls, queue, batch, alert, seen, boot, stored, dropped,
                 refused, watch, sentAt, faults, deaths>>

Next ==
  \/ \E c \in Calls :
       \/ Recall(c) \/ \E x \in Items : Retain(c, x)
       \/ Admit(c) \/ \E o \in Kinds \cup {"ok"} : Answer(c, o)
       \/ Resume(c) \/ ReadBreaker(c) \/ PublishStatus(c)
       \/ EndRetain(c) \/ Reply(c)
  \/ Probe \/ EndProbe
  \/ LoadBatch \/ DropAged \/ DrainOne \/ EndDrain
  \/ WatchStatus \/ SendAlert \/ RecordAlert \/ Restart \/ Tick

Spec == Init /\ [][Next]_vars
-----------------------------------------------------------------------------
Outcomes == Kinds \cup {"ok", "refused", "none"}
BreakerType == [state : {"closed", "open", "half"}, until : Nat, failures : Seq(Nat),
                last : Nat]
CallType == [at : Stages, what : {"none", "recall", "retain", "probe", "drain"},
             item : Items \cup {NoItem}, left : Nat,
             result : Outcomes, read : {"closed", "open", "half"}]
RowType == [item : Items, since : Nat]
BatchType == [item : Items, aged : BOOLEAN]

TypeOK ==
  /\ now \in 0 .. MaxNow
  /\ breaker \in [Procs -> BreakerType]
  /\ status \in [Procs -> {"healthy", "degraded", "auth"}]
  /\ calls \in [Calls -> CallType]
  /\ queue \in Seq(RowType) /\ batch \in Seq(BatchType)
  /\ alert \in Nat \cup {Never} /\ seen \in BOOLEAN
  /\ boot \in {"starting", "looping", "over"}
  /\ stored \cup dropped \cup refused \subseteq Items
  /\ watch \in {"idle", "sending", "recording"} /\ sentAt \in Nat \cup {Never}
  /\ faults \in 0 .. MaxFaults /\ deaths \in 0 .. MaxDeaths

(* A closed breaker has seen fewer failures than trip it, those of a half  *)
(* open episode being forgotten when it closes; and the service is left    *)
(* alone for no longer than the longest opening, and for longer than       *)
(* MaxOpen only after an authentication error.                             *)
BreakerInv ==
  \A p \in Procs :
    /\ breaker[p].state = "closed" => Len(breaker[p].failures) < Threshold
    /\ breaker[p].last \in InitialOpen .. MaxOpen \cup {AuthOpen}
    /\ breaker[p].state = "open" => breaker[p].until <= now + breaker[p].last

(* What memory_retain calls queued was given to the queue: the tool tells  *)
(* it from the status as it answers, retain decided by an earlier one.     *)
(* (Whether the database took it is not known to either.)                  *)
QueuedIsQueued ==
  [][\A c \in Calls :
       calls[c].at = "replying" /\ calls'[c].at = "idle" /\ SaysQueued(c) =>
         calls[c].item \notin refused]_vars

(* An opening is not cut short by the late answer to a call that was       *)
(* admitted before it.                                                     *)
OpeningLasts ==
  [][\A p \in Procs :
       breaker[p].state = "open" /\ now < breaker[p].until =>
         \/ breaker'[p].state = "open" /\ breaker'[p].until >= breaker[p].until
         \/ p = "bot" /\ deaths' # deaths]_vars

(* A retain leaves the queue because the service has it or because it was  *)
(* given up: too old, refused, or pushed out.                              *)
LeavesQueueSettled ==
  [][\A x \in Queued : x \in (Queued)' \/ x \in stored' \cup dropped']_vars

(* Two alerts are more than the pause apart, however often the status      *)
(* flaps, whatever is sent between the look at the mark and its update,    *)
(* and also over a restart (memory_alerts.rs: `24h dedup').  But for a     *)
(* recovery, and for a restart an hour after the first of them, which both *)
(* clear the mark; and for a first one whose mark was never made, because  *)
(* the bot died after sending it or record_fire failed.                    *)
AlertsArePaced ==
  [][watch = "sending" /\ watch' = "recording" =>
       sentAt = Never \/ now - sentAt > AlertPause]_vars
=============================================================================
