---------------------------- MODULE Conversation ----------------------------
(***************************************************************************)
(* One conversation of a bot: the direct chat of one user                  *)
(* (crates/bot/src/telegram: handler.rs, worker.rs, session.rs).           *)
(*                                                                         *)
(* The dispatcher handles the updates of a chat one after the other: a     *)
(* message goes into the channel of the conversation's worker task, /new   *)
(* and /switch change the active session and drop the worker's sender, the *)
(* two buttons cancel the running turn.  The worker takes what is in its   *)
(* channel as a batch, runs one Claude process on the active session and   *)
(* answers.  Around it the delivery loop uses the same sessions, the       *)
(* upgrade takes the write side of upgrade_lock, mutex entries are swept,  *)
(* a login asks the user for a token, and the process dies: it is built    *)
(* with panic = "abort", so that a panicking task takes everything along.  *)
(*                                                                         *)
(* A step is one SQL statement, one critical section, or one stretch       *)
(* between two awaits.                                                     *)
(***************************************************************************)
EXTENDS Naturals, Sequences

CONSTANTS
  Messages,      \* 1 .. n, in the order in which they arrive
  WithText,      \* those with a text; the others are attachments only
  Workers,       \* worker tasks, in the order in which they are spawned
  Delivery,      \* the delivery loop, as a user of session mutexes
  Sessions, Mutexes, None,
  Faults,        \* which steps may fail
  Commands,      \* which of "new", "named", "switch" the user sends
  QueueCap,      \* mpsc::channel(32)
  MaxEvents      \* bound on clicks, commands, deliveries, upgrades, sweeps,
                 \* deaths

Users == Workers \cup {Delivery}
AllFaults == {"download", "db", "prepare", "spawn", "enqueue", "reflect",
              "instruct", "token"}
AllCommands == {"new", "named", "switch"}

ASSUME ConversationAssumption ==
  /\ Messages \subseteq Nat /\ WithText \subseteq Messages
  /\ Faults \subseteq AllFaults /\ Commands \subseteq AllCommands
  /\ QueueCap \in Nat \ {0} /\ MaxEvents \in Nat

ASSUME ConversationNames ==
  /\ Delivery \notin Workers
  /\ None \notin Users \cup Sessions \cup Mutexes

VARIABLES
  sessions,      \* the sessions table: per uuid its state
  known,         \* sessions Claude has created on its side
  workers,       \* the worker tasks
  map,           \* worker_map: the worker whose sender is in it, or None
  handler,       \* the dispatcher: the update it is handling
  stop,          \* stop_tokens: the turn with an entry, or 0
  bg,            \* bg_requests: the turn stamped in the entry, or 0
  turns,         \* turn ids given out
  entry, wants, clone, holder,      \* session_locks
  delivery,      \* the delivery loop
  upgrading,     \* the write side of upgrade_lock is held
  login,         \* spawn_token_request and the intercept slot
  bootstrap,     \* BOOTSTRAP.md exists
  fate,          \* ghost: what became of a message
  clicked,       \* ghost: turns whose Background click was accepted
  reset,         \* ghost: a command has dropped a worker's sender
  events         \* bound

Locks == INSTANCE SessionLocks

lockVars == <<entry, wants, clone, holder>>
table   == <<sessions, known, bootstrap>>
control == <<stop, bg, turns, clicked>>
around  == <<delivery, upgrading, login>>
vars == <<sessions, known, workers, map, handler, stop, bg, turns, entry, wants,
          clone, holder, delivery, upgrading, login, bootstrap, fate, clicked,
          reset, events>>

-----------------------------------------------------------------------------
(* Where a worker task is: `looked' has decided on a session, `locking'    *)
(* waits for its mutex, `running' reads Claude's output, `broke' has left  *)
(* that loop, `ended' has unregistered the turn, and the last four handle  *)
(* what invoke_cc returned.                                                *)
Stages == {"unborn", "waiting", "batched", "guarded", "creating", "looked",
           "locking", "starting", "running", "broke", "ended", "replying",
           "erring", "reflecting", "backgrounding", "exited"}

(* How the process of a turn ended: with a reply, with a result that does  *)
(* not parse, without a result, with an authentication error, with another *)
(* error, killed at the deadline, killed by a button, or "overtaken": a     *)
(* button's cancellation was taken although the result had been read and   *)
(* the process had ended well.  "background" once the click is honoured.   *)
Outcomes == {"none", "reply", "garbled", "empty", "auth", "failed", "deadline",
             "stopped", "overtaken", "background"}
WithResult == {"reply", "garbled", "overtaken"}

Unborn == [at |-> "unborn", queue |-> <<>>, batch |-> {}, session |-> None,
           first |-> FALSE, turn |-> 0, cancelled |-> FALSE,
           outcome |-> "none"]
Waiting == [Unborn EXCEPT !.at = "waiting"]

NoUpdate == [at |-> "idle", msg |-> 0, tx |-> None, session |-> None]
NoDelivery == [at |-> "asleep", session |-> None]
NoLogin == [at |-> "off", slot |-> FALSE, active |-> FALSE]

HoldsUpgradeLock(w) ==
  workers[w].at \notin {"unborn", "waiting", "batched", "exited"}
DeliveryHoldsUpgradeLock == delivery.at \in {"locking", "relaying"}
Alive(w) == workers[w].at \notin {"unborn", "exited"}
HasProcess(w) == workers[w].at \in {"running", "broke"}

(* The channel of w is open: a sender is in the map or with the handler.   *)
Open(w) == map = w \/ handler.tx = w

Active == {s \in Sessions : sessions[s] = "active"}
Unused == {s \in Sessions : sessions[s] = "none"}
Deactivated == [s \in Sessions |->
                  IF sessions[s] = "active" THEN "inactive" ELSE sessions[s]]

(* A new uuid or task: which of the unused names it gets is immaterial.    *)
AnyOf(S) == IF S = {} THEN {} ELSE {CHOOSE x \in S : TRUE}

Init ==
  /\ sessions = [s \in Sessions |-> "none"]
  /\ known = {}
  /\ workers = [w \in Workers |-> Unborn]
  /\ map = None
  /\ handler = NoUpdate
  /\ stop = 0 /\ bg = 0 /\ turns = 0
  /\ Locks!Init
  /\ delivery = NoDelivery
  /\ upgrading = FALSE
  /\ login = NoLogin
  /\ bootstrap \in BOOLEAN
  /\ fate = [m \in Messages |-> "unsent"]
  /\ clicked = {} /\ reset = FALSE /\ events = 0

Event == events < MaxEvents /\ events' = events + 1
Quiet == UNCHANGED events

Settle(ms, f) == fate' = [m \in Messages |-> IF m \in ms THEN f ELSE fate[m]]

Goto(w, stage) == workers' = [workers EXCEPT ![w].at = stage]
Back(w) == workers' = [workers EXCEPT ![w] = [Waiting EXCEPT !.queue = workers[w].queue]]

-----------------------------------------------------------------------------
(* handle_message: a text is handed to a login that waits for a code,      *)
(* everything else is routed to the worker.  A login that has just failed  *)
(* leaves its sender in the slot until it cleans up: the text is dropped.  *)
NextMessage(m) == fate[m] = "unsent" /\ \A k \in Messages : k < m => fate[k] # "unsent"

TakeAsToken(m) ==
  /\ handler.at = "idle" /\ NextMessage(m)
  /\ m \in WithText /\ login.slot
  /\ login' = [login EXCEPT !.slot = FALSE,
                            !.at = IF @ = "waiting" THEN "received" ELSE @]
  /\ Settle({m}, IF login.at = "closing" THEN "swallowed" ELSE "token")
  /\ UNCHANGED <<table, workers, map, handler, control, lockVars, delivery,
                 upgrading, reset, events>>

(* Mutant: the new worker's sender never gets into the map.                *)
RouteUnlisted(m) ==
  /\ handler.at = "idle" /\ NextMessage(m)
  /\ \E w \in AnyOf({v \in Workers : workers[v].at = "unborn"}) :
       /\ workers' = [workers EXCEPT ![w] = Waiting]
       /\ handler' = [NoUpdate EXCEPT !.at = "sending", !.msg = m, !.tx = w]
  /\ Settle({m}, "sending")
  /\ UNCHANGED <<table, map, control, lockVars, around, reset, events>>

(* The sender is cloned out of the map, or a worker is spawned and its     *)
(* sender put there, before the send is awaited.                           *)
Route(m) ==
  /\ handler.at = "idle" /\ NextMessage(m)
  /\ ~(m \in WithText /\ login.slot)
  /\ IF map # None
     THEN /\ handler' = [NoUpdate EXCEPT !.at = "sending", !.msg = m, !.tx = map]
          /\ UNCHANGED <<map, workers>>
     ELSE \E w \in AnyOf({v \in Workers : workers[v].at = "unborn"}) :
          /\ workers' = [workers EXCEPT ![w] = Waiting]
          /\ map' = w
          /\ handler' = [NoUpdate EXCEPT !.at = "sending", !.msg = m, !.tx = w]
  /\ Settle({m}, "sending")
  /\ UNCHANGED <<table, control, lockVars, around, reset, events>>

(* tx.send(..).await: it waits while the channel is full, and nothing else *)
(* of this chat is handled meanwhile.                                      *)
Send ==
  /\ handler.at = "sending"
  /\ Len(workers[handler.tx].queue) < QueueCap
  /\ workers' = [workers EXCEPT ![handler.tx].queue = Append(@, handler.msg)]
  /\ Settle({handler.msg}, "queued")
  /\ handler' = NoUpdate
  /\ UNCHANGED <<table, map, control, lockVars, around, reset, events>>

-----------------------------------------------------------------------------
(* handle_new: the session is deactivated, then the sender dropped, then,  *)
(* for /new <name>, a session inserted.                                    *)
NewDeactivates(c) ==
  /\ handler.at = "idle" /\ c \in Commands \cap {"new", "named"}
  /\ Event
  /\ sessions' = Deactivated
  /\ handler' = [NoUpdate EXCEPT !.at = c]
  /\ UNCHANGED <<known, bootstrap, workers, map, control, lockVars, around,
                 fate, reset>>

NewDrops ==
  /\ handler.at \in {"new", "named"}
  /\ map' = None
  /\ reset' = (reset \/ map # None)
  /\ handler' = IF handler.at = "named" THEN [handler EXCEPT !.at = "creating"]
                ELSE NoUpdate
  /\ UNCHANGED <<table, workers, control, lockVars, around, fate, events>>

(* The index on active sessions refuses the row when a worker has created  *)
(* one in between.                                                         *)
NewCreates ==
  /\ handler.at = "creating"
  /\ IF Active = {}
     THEN \E s \in AnyOf(Unused) :
            sessions' = [sessions EXCEPT ![s] = "active"]
     ELSE UNCHANGED sessions
  /\ handler' = NoUpdate
  /\ UNCHANGED <<known, bootstrap, workers, map, control, lockVars, around,
                 fate, reset, events>>

(* handle_switch: the session is found, then activated in a transaction,   *)
(* and the sender dropped.                                                 *)
SwitchFinds(s) ==
  /\ handler.at = "idle" /\ "switch" \in Commands
  /\ sessions[s] = "inactive"
  /\ Event
  /\ handler' = [NoUpdate EXCEPT !.at = "switching", !.session = s]
  /\ UNCHANGED <<table, workers, map, control, lockVars, around, fate, reset>>

SwitchActivates ==
  /\ handler.at = "switching"
  /\ sessions' = [Deactivated EXCEPT ![handler.session] = "active"]
  /\ map' = None
  /\ reset' = (reset \/ map # None)
  /\ handler' = NoUpdate
  /\ UNCHANGED <<known, bootstrap, workers, control, lockVars, around, fate,
                 events>>

(* handle_stop_callback and handle_bg_callback, under the entry's guard.   *)
CancelTurn ==
  workers' = [w \in Workers |->
                IF workers[w].turn = stop THEN [workers[w] EXCEPT !.cancelled = TRUE]
                ELSE workers[w]]

ClickStop ==
  /\ handler.at = "idle" /\ stop # 0
  /\ Event
  /\ CancelTurn
  /\ UNCHANGED <<table, map, handler, control, lockVars, around, fate, reset>>

ClickBackground ==
  /\ handler.at = "idle" /\ stop # 0
  /\ Event
  /\ bg' = stop
  /\ clicked' = clicked \cup {stop}
  /\ CancelTurn
  /\ UNCHANGED <<table, map, handler, stop, turns, lockVars, around, fate, reset>>

-----------------------------------------------------------------------------
(* format_cc_input: a batch gives no input when none of its messages has a  *)
(* text or a file that is small enough to be fetched.                      *)
HasInput(batch, fetched) == batch \cap (WithText \cup fetched) # {}

(* spawn_worker: recv, and collect_batch, which takes whatever is in the   *)
(* channel when its window closes.  The batch is dropped when a download   *)
(* fails, with a notice, and when it gives no input.                       *)
CloseBatch(w) ==
  /\ workers[w].at = "waiting" /\ workers[w].queue # <<>>
  /\ LET batch == {workers[w].queue[i] : i \in DOMAIN workers[w].queue}
         Drop == /\ workers' = [workers EXCEPT ![w].queue = <<>>]
                 /\ Settle(batch, "dropped")
     IN  \/ \E fetched \in SUBSET batch :
            IF HasInput(batch, fetched)
            THEN /\ workers' = [workers EXCEPT ![w].at = "batched", ![w].queue = <<>>,
                                               ![w].batch = batch]
                 /\ Settle(batch, "batched")
            ELSE Drop
         \/ "download" \in Faults /\ ~(batch \subseteq WithText) /\ Drop
  /\ UNCHANGED <<table, map, handler, control, lockVars, around, reset, events>>

(* Mutant: the task ends with messages in its channel.                     *)
ExitEarly(w) ==
  /\ workers[w].at = "waiting" /\ ~Open(w)
  /\ Goto(w, "exited")
  /\ map' = None
  /\ UNCHANGED <<table, handler, control, lockVars, around, fate, reset, events>>

(* recv returns None: every sender is gone and the channel is empty.  The  *)
(* task removes the map's entry, whosoever it is.                          *)
Exit(w) ==
  /\ workers[w].at = "waiting" /\ workers[w].queue = <<>> /\ ~Open(w)
  /\ Goto(w, "exited")
  /\ map' = None
  /\ UNCHANGED <<table, handler, control, lockVars, around, fate, reset, events>>

TakeUpgradeLock(w) ==
  /\ workers[w].at = "batched" /\ ~upgrading
  /\ Goto(w, "guarded")
  /\ UNCHANGED <<table, map, handler, control, lockVars, around, fate, reset,
                 events>>

(* Mutant: any row of the chat is taken for its active session.            *)
LookUpAny(w) ==
  /\ workers[w].at = "guarded"
  /\ \/ \E s \in Sessions \ Unused :
          workers' = [workers EXCEPT ![w].at = "looked", ![w].session = s,
                                     ![w].first = FALSE]
     \/ Sessions = Unused /\ Goto(w, "creating")
  /\ UNCHANGED <<table, map, handler, control, lockVars, around, fate, reset,
                 events>>

(* invoke_cc: get_active_session.                                          *)
LookUp(w) ==
  /\ workers[w].at = "guarded"
  /\ \/ \E s \in Active :
          workers' = [workers EXCEPT ![w].at = "looked", ![w].session = s,
                                     ![w].first = FALSE]
     \/ Active = {} /\ Goto(w, "creating")
     \/ "db" \in Faults /\ Goto(w, "erring")
  /\ UNCHANGED <<table, map, handler, control, lockVars, around, fate, reset,
                 events>>

(* invoke_cc: create_session, refused when a session has become active.    *)
Create(w) ==
  /\ workers[w].at = "creating"
  /\ IF Active = {}
     THEN \E s \in AnyOf(Unused) :
            /\ sessions' = [sessions EXCEPT ![s] = "active"]
            /\ workers' = [workers EXCEPT ![w].at = "looked", ![w].session = s,
                                          ![w].first = TRUE]
     ELSE Goto(w, "erring") /\ UNCHANGED sessions
  /\ UNCHANGED <<known, bootstrap, map, handler, control, lockVars, around,
                 fate, reset, events>>

(* invoke_cc: schema, instructions, memory; then the session's mutex.      *)
Prepare(w) ==
  /\ workers[w].at = "looked"
  /\ \/ Goto(w, "locking") /\ Locks!Fetch(w, workers[w].session)
     \/ "prepare" \in Faults /\ Goto(w, "erring") /\ UNCHANGED lockVars
  /\ UNCHANGED <<table, map, handler, control, around, fate, reset, events>>

LockSession(w) ==
  /\ workers[w].at = "locking"
  /\ Locks!Acquire(w)
  /\ Goto(w, "starting")
  /\ UNCHANGED <<table, map, handler, control, around, fate, reset, events>>

(* Mutant: the turn is registered under the previous id.                   *)
StartMisstamped(w) ==
  /\ workers[w].at = "starting"
  /\ turns' = turns + 1
  /\ workers' = [workers EXCEPT ![w].at = "running", ![w].turn = turns + 1]
  /\ stop' = turns
  /\ UNCHANGED <<bg, clicked, lockVars, table, map, handler, around, fate, reset,
                 events>>

(* invoke_cc: the process is spawned and fed, and the turn registered for  *)
(* the buttons.                                                            *)
Start(w) ==
  /\ workers[w].at = "starting"
  /\ \/ /\ turns' = turns + 1
        /\ workers' = [workers EXCEPT ![w].at = "running", ![w].turn = turns + 1]
        /\ stop' = turns + 1
        /\ UNCHANGED <<lockVars, bg, clicked>>
     \/ /\ "spawn" \in Faults
        /\ Goto(w, "erring")
        /\ Locks!Release(w)
        /\ UNCHANGED control
  /\ UNCHANGED <<table, map, handler, around, fate, reset, events>>

(* Claude writes the session's file, some time after its start.            *)
ClaudeCreates(w) ==
  /\ workers[w].at = "running" /\ workers[w].first
  /\ workers[w].session \notin known
  /\ known' = known \cup {workers[w].session}
  /\ UNCHANGED <<sessions, bootstrap, workers, map, handler, control, lockVars,
                 around, fate, reset, events>>

(* The loop over Claude's output: it ends by itself, at the deadline, or   *)
(* when a button has cancelled the token.  There is no result without a    *)
(* session on Claude's side.  The end of the output and the cancellation   *)
(* may both be ready, and then either is taken: the cancellation may find  *)
(* a result that was read and an exit code of zero.                        *)
BreakBy(w, o) ==
  /\ workers[w].at = "running"
  /\ workers' = [workers EXCEPT ![w].at = "broke", ![w].outcome = o]
  /\ UNCHANGED <<table, map, handler, control, lockVars, around, fate, reset,
                 events>>

ProcessEnds(w) ==
  \E o \in {"reply", "garbled", "empty", "auth", "failed"} :
    (o \in {"reply", "garbled"} => workers[w].session \in known) /\ BreakBy(w, o)
Deadline(w) == BreakBy(w, "deadline")
Cancelled(w) ==
  /\ workers[w].cancelled
  /\ \/ BreakBy(w, "stopped")
     \/ workers[w].session \in known /\ BreakBy(w, "overtaken")

(* Mutant: a request for any turn is honoured.                             *)
HonouredForAny(w) == bg # 0 /\ workers[w].outcome \notin WithResult

(* The turn is unregistered, by its key, and the background request        *)
(* consumed; it is honoured unless a result was read and the exit code is  *)
(* zero (consume_bg_request, should_honor_bg_request).                     *)
Honoured(w) == bg = workers[w].turn /\ workers[w].outcome \notin WithResult

Unregister(w) ==
  /\ workers[w].at = "broke"
  /\ stop' = 0
  /\ bg' = 0
  /\ workers' = [workers EXCEPT ![w].at = "ended",
                   ![w].outcome = IF Honoured(w) THEN "background" ELSE @]
  /\ UNCHANGED <<table, map, handler, turns, clicked, lockVars, around, fate,
                 reset, events>>

(* invoke_cc returns, and drops the session's mutex.                       *)
Return(w, stage) ==
  /\ workers[w].at = "ended"
  /\ Goto(w, stage)
  /\ Locks!Release(w)
  /\ UNCHANGED <<known, bootstrap, map, handler, control, delivery, upgrading,
                 fate, reset, events>>

ReturnReply(w) ==
  /\ workers[w].outcome \in {"reply", "stopped", "overtaken"}
  /\ Return(w, "replying")
  /\ UNCHANGED <<sessions, login>>

ReturnUnparsed(w) ==
  /\ workers[w].outcome \in {"garbled", "empty"}
  /\ Return(w, "erring")
  /\ UNCHANGED <<sessions, login>>

ReturnBackground(w) ==
  /\ workers[w].outcome \in {"deadline", "background"}
  /\ Return(w, "backgrounding")
  /\ UNCHANGED <<sessions, login>>

(* An authentication error: the conversation's session is deactivated and  *)
(* a login begins, unless one is under way.                                *)
ReturnAuth(w) ==
  /\ workers[w].outcome = "auth"
  /\ Return(w, "replying")
  /\ sessions' = Deactivated
  /\ login' = IF login.active THEN login
              ELSE [login EXCEPT !.at = "instructing", !.active = TRUE]

(* Another error: a first call takes the session's row back.               *)
ReturnFailed(w) ==
  /\ workers[w].outcome = "failed"
  /\ Return(w, "reflecting")
  /\ sessions' = IF workers[w].first THEN Deactivated ELSE sessions
  /\ UNCHANGED login

-----------------------------------------------------------------------------
(* The reply that completes the bootstrap deactivates the conversation's   *)
(* session.                                                                *)
CompleteBootstrap(w) ==
  /\ bootstrap /\ workers[w].outcome = "reply"
  /\ bootstrap' = FALSE
  /\ sessions' = Deactivated

(* The reply is sent.  A turn whose cancellation was taken, with a result  *)
(* or without, has nothing to send, nor has one that ended in an           *)
(* authentication error.                                                   *)
Reply(w) ==
  /\ workers[w].at = "replying"
  /\ CompleteBootstrap(w) \/ UNCHANGED <<sessions, bootstrap>>
  /\ Settle(workers[w].batch, IF workers[w].outcome = "reply" THEN "answered"
                              ELSE workers[w].outcome)
  /\ Back(w)
  /\ UNCHANGED <<known, map, handler, control, lockVars, around, reset, events>>

ReplyError(w) ==
  /\ workers[w].at = "erring"
  /\ Settle(workers[w].batch, "errored")
  /\ Back(w)
  /\ UNCHANGED <<table, map, handler, control, lockVars, around, reset, events>>

(* reflect_on_failure resumes the session without its mutex.               *)
ReflectionReplies(w) ==
  {replied \in BOOLEAN : IF replied THEN workers[w].session \in known
                         ELSE workers[w].session \notin known \/ "reflect" \in Faults}

Reflect(w) ==
  /\ workers[w].at = "reflecting"
  /\ \E replied \in ReflectionReplies(w) :
       Settle(workers[w].batch, IF replied THEN "answered" ELSE "errored")
  /\ Back(w)
  /\ UNCHANGED <<table, map, handler, control, lockVars, around, reset, events>>

(* enqueue_background_job: a row of cron_specs, which CronEngine runs.     *)
Enqueue(ms) ==
  \/ Settle(ms, "backgrounded")
  \/ "enqueue" \in Faults /\ Settle(ms, "errored")

Background(w) ==
  /\ workers[w].at = "backgrounding"
  /\ Enqueue(workers[w].batch)
  /\ Back(w)
  /\ UNCHANGED <<table, map, handler, control, lockVars, around, reset, events>>

-----------------------------------------------------------------------------
(* spawn_token_request and request_token.                                  *)
LoginOnly == UNCHANGED <<table, workers, map, handler, control, lockVars,
                         delivery, upgrading, fate, reset, events>>

Instruct ==
  /\ login.at = "instructing"
  /\ \/ login' = [login EXCEPT !.at = "waiting", !.slot = TRUE]
     \/ "instruct" \in Faults /\ login' = NoLogin
  /\ LoginOnly

(* An event of request_token: saved, refused, or the database failed       *)
(* before a token came.                                                    *)
TokenEvent ==
  /\ \/ login.at = "received"
     \/ login.at = "waiting" /\ "token" \in Faults
  /\ login' = [login EXCEPT !.at = "closing"]
  /\ LoginOnly

LoginTimesOut ==
  /\ login.at \in {"waiting", "received"}
  /\ login' = [login EXCEPT !.at = "closing"]
  /\ LoginOnly

(* Mutant: the flag is not cleared.                                        *)
CloseLoginHalf ==
  /\ login.at = "closing"
  /\ login' = [NoLogin EXCEPT !.active = TRUE]
  /\ LoginOnly

CloseLogin ==
  /\ login.at = "closing"
  /\ login' = NoLogin
  /\ LoginOnly

-----------------------------------------------------------------------------
(* run_delivery_loop looks the active session up; deliver_through_session  *)
(* takes the upgrade lock, then the session's mutex.                       *)
DeliveryOnly == UNCHANGED <<table, workers, map, handler, control, upgrading,
                            login, fate, reset>>

DeliveryLooksUp ==
  /\ delivery.at = "asleep"
  /\ Event
  /\ \E s \in Active : delivery' = [at |-> "looked", session |-> s]
  /\ UNCHANGED lockVars /\ DeliveryOnly

DeliveryFetches ==
  /\ delivery.at = "looked" /\ ~upgrading
  /\ Locks!Fetch(Delivery, delivery.session)
  /\ delivery' = [delivery EXCEPT !.at = "locking"]
  /\ Quiet /\ DeliveryOnly

DeliveryLocks ==
  /\ delivery.at = "locking"
  /\ Locks!Acquire(Delivery)
  /\ delivery' = [delivery EXCEPT !.at = "relaying"]
  /\ Quiet /\ DeliveryOnly

DeliveryEnds ==
  /\ delivery.at = "relaying"
  /\ Locks!Release(Delivery)
  /\ delivery' = NoDelivery
  /\ Quiet /\ DeliveryOnly

SweepLocks ==
  /\ Event
  /\ Locks!Sweep
  /\ UNCHANGED <<table, workers, map, handler, control, around, fate, reset>>

UpgradeStarts ==
  /\ ~upgrading
  /\ \A w \in Workers : ~HoldsUpgradeLock(w)
  /\ ~DeliveryHoldsUpgradeLock
  /\ Event
  /\ upgrading' = TRUE
  /\ UNCHANGED <<table, workers, map, handler, control, lockVars, delivery,
                 login, fate, reset>>

UpgradeEnds ==
  /\ upgrading
  /\ upgrading' = FALSE
  /\ UNCHANGED <<table, workers, map, handler, control, lockVars, delivery,
                 login, fate, reset, events>>

(* The process dies and is started again: the database and Claude's        *)
(* session files remain.                                                   *)
InMemory == {"sending", "queued", "batched"}

Die ==
  /\ Event
  /\ workers' = [w \in Workers |-> IF Alive(w) THEN [Unborn EXCEPT !.at = "exited"]
                                   ELSE workers[w]]
  /\ map' = None /\ handler' = NoUpdate
  /\ stop' = 0 /\ bg' = 0
  /\ Locks!Forget
  /\ delivery' = NoDelivery /\ upgrading' = FALSE /\ login' = NoLogin
  /\ Settle({m \in Messages : fate[m] \in InMemory}, "lost")
  /\ UNCHANGED <<table, turns, clicked, reset>>

-----------------------------------------------------------------------------
UserSteps ==
  \/ \E m \in Messages : TakeAsToken(m) \/ Route(m)
  \/ \E c \in Commands : NewDeactivates(c)
  \/ \E s \in Sessions : SwitchFinds(s)
  \/ ClickStop \/ ClickBackground

HandlerSteps == Send \/ NewDrops \/ NewCreates \/ SwitchActivates

ReturnSteps(w) ==
  ReturnReply(w) \/ ReturnUnparsed(w) \/ ReturnBackground(w) \/ ReturnAuth(w)
  \/ ReturnFailed(w)

WorkerSteps(w) ==
  \/ CloseBatch(w) \/ Exit(w)
  \/ TakeUpgradeLock(w) \/ LookUp(w) \/ Create(w) \/ Prepare(w)
  \/ LockSession(w) \/ Start(w)
  \/ Deadline(w)
  \/ Unregister(w) \/ ReturnSteps(w)
  \/ Reply(w) \/ ReplyError(w) \/ Reflect(w) \/ Background(w)

ProcessSteps(w) == ClaudeCreates(w) \/ ProcessEnds(w) \/ Cancelled(w)

LoginSteps == Instruct \/ TokenEvent \/ CloseLogin

DeliverySteps == DeliveryFetches \/ DeliveryLocks \/ DeliveryEnds

Next ==
  \/ UserSteps \/ HandlerSteps
  \/ \E w \in Workers : WorkerSteps(w) \/ ProcessSteps(w)
  \/ LoginSteps \/ LoginTimesOut
  \/ DeliveryLooksUp \/ DeliverySteps
  \/ SweepLocks \/ UpgradeStarts \/ UpgradeEnds \/ Die

SafetySpec == Init /\ [][Next]_vars

(* Tasks that can go on do so; a turn reaches its deadline, a relay and a  *)
(* reflection theirs, a login its own; an upgrade ends.  Nothing is asked  *)
(* of the user, of Claude or of the delivery loop's schedule.              *)
Fairness ==
  /\ WF_vars(HandlerSteps)
  /\ \A w \in Workers : WF_vars(WorkerSteps(w))
  /\ WF_vars(DeliverySteps)
  /\ WF_vars(LoginSteps) /\ WF_vars(LoginTimesOut)
  /\ WF_vars(UpgradeEnds)

Spec == SafetySpec /\ Fairness

-----------------------------------------------------------------------------
Worker == [at : Stages, queue : Seq(Messages), batch : SUBSET Messages,
           session : Sessions \cup {None}, first : BOOLEAN, turn : Nat,
           cancelled : BOOLEAN, outcome : Outcomes]

(* No two Claude processes write one session: two turns, or a turn and a   *)
(* relay of the delivery loop (telegram/mod.rs: SessionLocks).  The        *)
(* process of a reflection is not covered, it takes no mutex.              *)
OneProcessPerSession ==
  /\ \A v, w \in Workers : HasProcess(v) /\ HasProcess(w) /\ v # w =>
       workers[v].session # workers[w].session
  /\ \A w \in Workers : HasProcess(w) /\ delivery.at = "relaying" =>
       workers[w].session # delivery.session

(* The binary is not replaced under a running Claude: that of a turn, of   *)
(* the reflection on it, or of a relay (upgrade.rs: the write guard).      *)
UpgradeExcludesClaude ==
  upgrading => /\ \A w \in Workers : ~HasProcess(w) /\ workers[w].at # "reflecting"
               /\ delivery.at # "relaying"

(* Until a command drops a worker's sender, the conversation has one       *)
(* worker, and it is the one in the map (handler.rs: SES-05).              *)
OneWorker ==
  ~reset => /\ \A v, w \in Workers : Alive(v) /\ Alive(w) => v = w
            /\ \A w \in Workers : Alive(w) => map = w

(* Until then both buttons reach the turn that runs: its own id is         *)
(* registered as long as its process can be killed.                        *)
RunningTurnIsStoppable ==
  ~reset => \A w \in Workers : workers[w].at = "running" => stop = workers[w].turn

(* A turn goes to the background at the deadline or when its own Background*)
(* button was clicked, never for a click on an earlier turn.  A click that *)
(* was accepted sends its turn there unless there is a result: then the    *)
(* turn answers with it, or, when the cancellation overtook the end of the *)
(* output, with nothing, as after a Stop (telegram/mod.rs: BgRequests).    *)
ClicksAreForTheirTurn ==
  \A w \in Workers :
    /\ workers[w].at = "backgrounding" =>
         workers[w].outcome = "deadline" \/ workers[w].turn \in clicked
    /\ ~reset /\ workers[w].at \in {"ended", "replying"} /\ workers[w].turn \in clicked =>
         workers[w].outcome \in WithResult \cup {"background"}

(* Until a command changes it, the session of a turn stays the active one  *)
(* from its lookup to the end of its process: the next message continues   *)
(* the same session.                                                       *)
TurnKeepsItsSession ==
  ~reset /\ handler.at \notin {"new", "named"} =>
    \A w \in Workers : workers[w].at \in {"looked", "locking", "starting", "running",
                                         "broke", "ended", "backgrounding"} =>
      sessions[workers[w].session] = "active"

Pending == {"sending", "queued", "batched"}
Ledger == [m \in Messages |-> IF fate[m] = "unsent" THEN "new"
                              ELSE IF fate[m] \in Pending THEN "taken"
                              ELSE "settled"]
Book == INSTANCE MessageBook WITH book <- Ledger

(* Every message is taken once and settled once, and the worker settles    *)
(* all it takes.                                                           *)
KeepsBook == Book!Spec

(* A login that has begun ends: its flag and its slot are free again, the  *)
(* next authentication error can ask for a token.                          *)
LoginEnds == login.active ~> ~login.active
=============================================================================
