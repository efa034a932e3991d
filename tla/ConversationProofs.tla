-------------------------- MODULE ConversationProofs --------------------------
(***************************************************************************)
(* For any numbers of workers, sessions and messages: session mutexes      *)
(* exclude, in spite of their sweep, and the conversation uses them as     *)
(* SessionLocks prescribes, hence two Claude processes never write one     *)
(* session; no process runs during an upgrade; there is one worker at a    *)
(* time, whose turn the buttons reach and whose session stays, until a     *)
(* command intervenes; and the messages are treated as MessageBook says.   *)
(***************************************************************************)
EXTENDS Conversation, TLAPS

-----------------------------------------------------------------------------
(* The mutexes exclude, whoever uses them: a sweep drops no entry somebody  *)
(* has cloned, hence two users of one session wait for one mutex.          *)

(* Whoever has cloned a mutex has cloned the one in the map for the        *)
(* session it is about.                                                    *)
ClonesAreListed ==
  \A u \in Users : clone[u] # None =>
    /\ wants[u] \in Sessions
    /\ entry[wants[u]] = clone[u]

LocksInv == Locks!TypeOK /\ ClonesAreListed

LEMMA LocksInit == Locks!Init => LocksInv
  BY DEF Locks!Init, LocksInv, Locks!TypeOK, ClonesAreListed

(* What the operations do to whoever calls them, and to everybody else.    *)
LEMMA FetchEffect ==
  ASSUME Locks!LocksAssumption, LocksInv, NEW u \in Users, NEW s \in Sessions, Locks!Fetch(u, s)
  PROVE  /\ clone[u] = None
         /\ \E m \in Mutexes : clone' = [clone EXCEPT ![u] = m]
         /\ wants' = [wants EXCEPT ![u] = s]
         /\ holder' = holder
  BY DEF Locks!Fetch, Locks!FetchAnew, Locks!Unreferenced, Locks!LocksAssumption, LocksInv,
         Locks!TypeOK

LEMMA AcquireEffect ==
  ASSUME Locks!LocksAssumption, LocksInv, NEW u \in Users, Locks!Acquire(u)
  PROVE  /\ Locks!Holds(u)' /\ \A v \in Users : Locks!Holds(v) => Locks!Holds(v)'
         /\ wants' = wants /\ clone' = clone
  BY DEF Locks!Acquire, Locks!Holds, Locks!LocksAssumption, LocksInv, Locks!TypeOK

LEMMA ReleaseEffect ==
  ASSUME Locks!LocksAssumption, LocksInv, NEW u \in Users, Locks!Release(u)
  PROVE  /\ \A v \in Users \ {u} : Locks!Holds(v) => Locks!Holds(v)'
         /\ wants' = [wants EXCEPT ![u] = None]
         /\ clone' = [clone EXCEPT ![u] = None]
  BY DEF Locks!Release, Locks!Holds, Locks!LocksAssumption, LocksInv, Locks!TypeOK

(* A new mutex is in nobody's hands, and there is no other user of its     *)
(* session: it would have kept the entry.                                  *)
LEMMA FetchKeeps ==
  ASSUME Locks!LocksAssumption, LocksInv, NEW u \in Users, NEW s \in Sessions, Locks!Fetch(u, s)
  PROVE  LocksInv'
<1>1. CASE entry[s] = None
  <2>1. PICK m \in Mutexes : /\ entry' = [entry EXCEPT ![s] = m]
                             /\ clone' = [clone EXCEPT ![u] = m]
                             /\ wants' = [wants EXCEPT ![u] = s]
                             /\ holder' = holder
    BY <1>1 DEF Locks!Fetch, Locks!FetchAnew, Locks!Unreferenced, Locks!LocksAssumption
  <2>2. ASSUME NEW v \in Users, clone'[v] # None
        PROVE  wants'[v] \in Sessions /\ entry'[wants'[v]] = clone'[v]
    <3>1. CASE v = u
      BY <2>1, <3>1 DEF LocksInv, Locks!TypeOK
    <3>2. CASE v # u
      BY <1>1, <2>1, <2>2, <3>2 DEF LocksInv, Locks!TypeOK, ClonesAreListed
    <3>3. QED  BY <3>1, <3>2
  <2>3. Locks!TypeOK'
    BY <2>1 DEF LocksInv, Locks!TypeOK
  <2>4. QED  BY <2>2, <2>3 DEF LocksInv, ClonesAreListed
<1>2. CASE entry[s] # None
  BY <1>2 DEF Locks!Fetch, LocksInv, Locks!TypeOK, ClonesAreListed
<1>3. QED  BY <1>1, <1>2

LEMMA AcquireKeeps ==
  ASSUME LocksInv, NEW u \in Users, Locks!Acquire(u)
  PROVE  LocksInv'
  BY DEF Locks!Acquire, LocksInv, Locks!TypeOK, ClonesAreListed

LEMMA ReleaseKeeps ==
  ASSUME LocksInv, NEW u \in Users, Locks!Release(u)
  PROVE  LocksInv'
  BY DEF Locks!Release, Locks!Holds, LocksInv, Locks!TypeOK, ClonesAreListed

LEMMA LocksSwept ==
  ASSUME LocksInv, Locks!Sweep
  PROVE  LocksInv'
<1>1. Locks!TypeOK'
  BY DEF Locks!Sweep, LocksInv, Locks!TypeOK
<1>2. ASSUME NEW u \in Users, clone[u] # None
      PROVE  wants[u] \in Sessions /\ entry'[wants[u]] = clone[u]
  <2>1. wants[u] \in Sessions /\ entry[wants[u]] = clone[u]
    BY <1>2 DEF LocksInv, ClonesAreListed
  <2>2. Locks!Shared(entry[wants[u]])
    BY <2>1 DEF Locks!Shared
  <2>3. QED  BY <1>2, <2>1, <2>2 DEF Locks!Sweep
<1>3. QED  BY <1>1, <1>2 DEF Locks!Sweep, LocksInv, ClonesAreListed

LEMMA ForgetKeeps == Locks!Forget => LocksInv'
  BY DEF Locks!Forget, LocksInv, Locks!TypeOK, ClonesAreListed

LEMMA LocksNext ==
  ASSUME Locks!LocksAssumption, LocksInv, [Locks!Next]_lockVars
  PROVE  LocksInv'
<1>1. ASSUME NEW u \in Users, NEW s \in Sessions, Locks!Fetch(u, s)
      PROVE  LocksInv'
  BY <1>1, FetchKeeps
<1>2. ASSUME NEW u \in Users, Locks!Acquire(u) \/ Locks!Release(u)
      PROVE  LocksInv'
  BY <1>2, AcquireKeeps, ReleaseKeeps
<1>3. CASE Locks!Sweep
  BY <1>3, LocksSwept
<1>4. CASE Locks!Forget
  BY <1>4, ForgetKeeps
<1>5. CASE UNCHANGED lockVars
  BY <1>5 DEF lockVars, LocksInv, Locks!TypeOK, ClonesAreListed
<1>6. QED  BY <1>1, <1>2, <1>3, <1>4, <1>5 DEF Locks!Next

LEMMA HoldersDiffer ==
  ASSUME LocksInv
  PROVE  Locks!MutualExclusion
  BY DEF LocksInv, ClonesAreListed, Locks!MutualExclusion, Locks!Holds

-----------------------------------------------------------------------------
LocksNamed == Locks!LocksAssumption /\ LocksInv

LEMMA LocksInvariant == Locks!LocksAssumption /\ Locks!Spec => []LocksNamed
<1>1. Locks!LocksAssumption /\ Locks!Init => LocksNamed
  BY LocksInit DEF LocksNamed
<1>2. LocksNamed /\ [Locks!Next]_lockVars => LocksNamed'
  BY LocksNext DEF LocksNamed, Locks!LocksAssumption
<1>3. QED  BY <1>1, <1>2, PTL DEF Locks!Spec, Locks!lockVars, lockVars

(* Every reachable state of the map and its mutexes is well typed.         *)
THEOREM LocksTyped == Locks!LocksAssumption /\ Locks!Spec => []Locks!TypeOK
<1>1. LocksNamed => Locks!TypeOK
  BY DEF LocksNamed, LocksInv
<1>2. QED  BY <1>1, LocksInvariant, PTL

(* Two users that have the guard of one session are the same user, however *)
(* entries were swept, inserted again or forgotten in between (SessionLocks*)
(* in telegram/mod.rs).                                                    *)
THEOREM LocksExclude == Locks!LocksAssumption /\ Locks!Spec => []Locks!MutualExclusion
<1>1. LocksNamed => Locks!MutualExclusion
  BY HoldersDiffer DEF LocksNamed
<1>2. QED  BY <1>1, LocksInvariant, PTL

-----------------------------------------------------------------------------

(* Abbreviations of the actions.                                           *)
USE DEF table, control, around, lockVars, Event, Quiet

LEMMA StageNames ==
  {"unborn", "waiting", "batched", "guarded", "creating", "looked", "locking",
   "starting", "running", "broke", "ended", "replying", "erring", "reflecting",
   "backgrounding", "exited"} \subseteq Stages
  BY DEF Stages

LEMMA OutcomeNames ==
  {"none", "reply", "garbled", "empty", "auth", "failed", "deadline", "stopped",
   "overtaken", "background"} \subseteq Outcomes
  BY DEF Outcomes

LEMMA AnyOfIsSubset ==
  ASSUME NEW S, NEW x \in AnyOf(S)
  PROVE  x \in S
  BY DEF AnyOf

-----------------------------------------------------------------------------
(* What the tasks, the handler and the tables may hold.                    *)

WorkersTyped == workers \in [Workers -> Worker]

HandlerTyped ==
  /\ map \in Workers \cup {None}
  /\ handler \in [at : {"idle", "sending", "new", "named", "creating", "switching"},
                  msg : Messages \cup {0}, tx : Workers \cup {None},
                  session : Sessions \cup {None}]
  /\ handler.at = "sending" => handler.tx \in Workers /\ handler.msg \in Messages
  /\ handler.at = "switching" => handler.session \in Sessions

RestTyped ==
  /\ sessions \in [Sessions -> {"none", "active", "inactive"}]
  /\ turns \in Nat
  /\ delivery \in [at : {"asleep", "looked", "locking", "relaying"},
                   session : Sessions \cup {None}]
  /\ delivery.at # "asleep" => delivery.session \in Sessions

Typed == WorkersTyped /\ HandlerTyped /\ RestTyped

LEMMA UnbornTyped == Unborn \in Worker
  BY DEF Unborn, Worker, Stages, Outcomes

LEMMA AtStageTyped ==
  ASSUME NEW r \in Worker, NEW stage \in Stages
  PROVE  [r EXCEPT !.at = stage] \in Worker
  BY DEF Worker

LEMMA WaitingTyped == Waiting \in Worker
  BY UnbornTyped, AtStageTyped, StageNames DEF Waiting

LEMMA InitTyped == Init => Typed
<1> SUFFICES ASSUME Init PROVE Typed
  OBVIOUS
<1>1. WorkersTyped
  BY UnbornTyped DEF Init, WorkersTyped
<1>2. HandlerTyped /\ RestTyped
  BY DEF Init, HandlerTyped, RestTyped, NoUpdate, NoDelivery
<1>3. QED  BY <1>1, <1>2 DEF Typed

(* The ways in which a task moves on.                                      *)
LEMMA GotoTyped ==
  ASSUME WorkersTyped, NEW w \in Workers, NEW stage \in Stages, Goto(w, stage)
  PROVE  WorkersTyped'
  BY DEF WorkersTyped, Worker, Goto

LEMMA BackTyped ==
  ASSUME WorkersTyped, NEW w \in Workers, Back(w)
  PROVE  WorkersTyped'
  BY WaitingTyped DEF WorkersTyped, Worker, Back

LEMMA HandlerSteps_Typed ==
  ASSUME Typed, UserSteps \/ HandlerSteps
  PROVE  Typed'
<1>1. ASSUME NEW m \in Messages, TakeAsToken(m) PROVE Typed'
  <2>1. WorkersTyped'
    BY <1>1 DEF Typed, WorkersTyped, TakeAsToken
  <2>2. HandlerTyped' /\ RestTyped'
    BY <1>1 DEF Typed, HandlerTyped, RestTyped, TakeAsToken
  <2>3. QED  BY <2>1, <2>2 DEF Typed
<1>2. ASSUME NEW m \in Messages, Route(m) PROVE Typed'
  <2>1. WorkersTyped'
    <3>1. \/ workers' = workers
          \/ \E u \in Workers : workers' = [workers EXCEPT ![u] = Waiting]
      BY <1>2, AnyOfIsSubset DEF Route
    <3>2. QED  BY <3>1, WaitingTyped DEF Typed, WorkersTyped
  <2>2. HandlerTyped' /\ RestTyped'
    <3>1. PICK u \in Workers : /\ map' = u
                               /\ handler' = [NoUpdate EXCEPT !.at = "sending",
                                                              !.msg = m, !.tx = u]
      BY <1>2, AnyOfIsSubset DEF Route, Typed, HandlerTyped
    <3>2. HandlerTyped'
      BY <3>1 DEF HandlerTyped, NoUpdate
    <3>3. RestTyped'
      BY <1>2 DEF Typed, RestTyped, Route
    <3>4. QED  BY <3>2, <3>3
  <2>3. QED  BY <2>1, <2>2 DEF Typed
<1>3. ASSUME NEW c \in Commands, NewDeactivates(c) PROVE Typed'
  <2>1. WorkersTyped'
    BY <1>3 DEF Typed, WorkersTyped, NewDeactivates
  <2>2. HandlerTyped' /\ RestTyped'
    BY <1>3 DEF Typed, HandlerTyped, RestTyped, NewDeactivates, Deactivated, NoUpdate
  <2>3. QED  BY <2>1, <2>2 DEF Typed
<1>4. ASSUME NEW s \in Sessions, SwitchFinds(s) PROVE Typed'
  <2>1. WorkersTyped'
    BY <1>4 DEF Typed, WorkersTyped, SwitchFinds
  <2>2. HandlerTyped' /\ RestTyped'
    BY <1>4 DEF Typed, HandlerTyped, RestTyped, SwitchFinds, NoUpdate
  <2>3. QED  BY <2>1, <2>2 DEF Typed
<1>5. ASSUME ClickStop PROVE Typed'
  <2>1. WorkersTyped'
    BY <1>5 DEF Typed, WorkersTyped, ClickStop, CancelTurn, Worker
  <2>2. HandlerTyped' /\ RestTyped'
    BY <1>5 DEF Typed, HandlerTyped, RestTyped, ClickStop
  <2>3. QED  BY <2>1, <2>2 DEF Typed
<1>6. ASSUME ClickBackground PROVE Typed'
  <2>1. WorkersTyped'
    BY <1>6 DEF Typed, WorkersTyped, ClickBackground, CancelTurn, Worker
  <2>2. HandlerTyped' /\ RestTyped'
    BY <1>6 DEF Typed, HandlerTyped, RestTyped, ClickBackground
  <2>3. QED  BY <2>1, <2>2 DEF Typed
<1>7. ASSUME Send PROVE Typed'
  <2>1. WorkersTyped'
    <3>1. handler.tx \in Workers /\ handler.msg \in Messages
      BY <1>7 DEF Typed, HandlerTyped, Send
    <3>2. \A q \in Seq(Messages) : Append(q, handler.msg) \in Seq(Messages)
      BY <3>1
    <3>3. workers' = [workers EXCEPT ![handler.tx].queue = Append(@, handler.msg)]
      BY <1>7 DEF Send
    <3>4. QED  BY ZenonT(30), <3>1, <3>2, <3>3 DEF Typed, WorkersTyped, Worker
  <2>2. HandlerTyped' /\ RestTyped'
    BY <1>7 DEF Typed, HandlerTyped, RestTyped, Send, NoUpdate
  <2>3. QED  BY <2>1, <2>2 DEF Typed
<1>8. ASSUME NewDrops PROVE Typed'
  <2>1. WorkersTyped'
    BY <1>8 DEF Typed, WorkersTyped, NewDrops
  <2>2. HandlerTyped' /\ RestTyped'
    BY <1>8 DEF Typed, HandlerTyped, RestTyped, NewDrops, NoUpdate
  <2>3. QED  BY <2>1, <2>2 DEF Typed
<1>9. ASSUME NewCreates PROVE Typed'
  <2>1. WorkersTyped'
    BY <1>9 DEF Typed, WorkersTyped, NewCreates
  <2>2. HandlerTyped' /\ RestTyped'
    BY <1>9, AnyOfIsSubset DEF Typed, HandlerTyped, RestTyped, NewCreates, NoUpdate, Unused
  <2>3. QED  BY <2>1, <2>2 DEF Typed
<1>10. ASSUME SwitchActivates PROVE Typed'
  <2>1. WorkersTyped'
    BY <1>10 DEF Typed, WorkersTyped, SwitchActivates
  <2>2. HandlerTyped' /\ RestTyped'
    BY <1>10 DEF Typed, HandlerTyped, RestTyped, SwitchActivates, Deactivated, NoUpdate
  <2>3. QED  BY <2>1, <2>2 DEF Typed
<1>11. QED
  BY <1>1, <1>2, <1>3, <1>4, <1>5, <1>6, <1>7, <1>8, <1>9, <1>10 DEF UserSteps, HandlerSteps

LEMMA WorkerSteps_Typed ==
  ASSUME Typed, NEW v \in Workers, WorkerSteps(v) \/ ProcessSteps(v)
  PROVE  Typed'
<1>1. ASSUME NEW w \in Workers, CloseBatch(w) PROVE Typed'
  <2>1. WorkersTyped'
    <3>1. \A q \in Seq(Messages) : {q[i] : i \in DOMAIN q} \subseteq Messages
      OBVIOUS
    <3>2. workers[w].queue \in Seq(Messages)
      BY DEF Typed, WorkersTyped, Worker
    <3> DEFINE batch == {workers[w].queue[i] : i \in DOMAIN workers[w].queue}
    <3>3. batch \subseteq Messages /\ <<>> \in Seq(Messages)
      BY <3>1, <3>2
    <3>4. \/ workers' = [workers EXCEPT ![w].at = "batched", ![w].queue = <<>>,
                                        ![w].batch = batch]
          \/ workers' = [workers EXCEPT ![w].queue = <<>>]
      BY <1>1 DEF CloseBatch
    <3> HIDE DEF batch
    <3>5. CASE workers' = [workers EXCEPT ![w].at = "batched", ![w].queue = <<>>,
                                          ![w].batch = batch]
      BY ZenonT(120), <3>3, <3>5, StageNames DEF Typed, WorkersTyped, Worker
    <3>6. CASE workers' = [workers EXCEPT ![w].queue = <<>>]
      BY <3>3, <3>6 DEF Typed, WorkersTyped, Worker
    <3>7. QED  BY <3>4, <3>5, <3>6
  <2>2. HandlerTyped' /\ RestTyped'
    BY <1>1 DEF Typed, HandlerTyped, RestTyped, CloseBatch
  <2>3. QED  BY <2>1, <2>2 DEF Typed
<1>2. ASSUME NEW w \in Workers, Exit(w) PROVE Typed'
  <2>1. WorkersTyped'
    BY <1>2, GotoTyped, StageNames DEF Typed, Exit
  <2>2. HandlerTyped' /\ RestTyped'
    BY <1>2 DEF Typed, HandlerTyped, RestTyped, Exit
  <2>3. QED  BY <2>1, <2>2 DEF Typed
<1>3. ASSUME NEW w \in Workers, TakeUpgradeLock(w) PROVE Typed'
  <2>1. WorkersTyped'
    BY <1>3, GotoTyped, StageNames DEF Typed, TakeUpgradeLock
  <2>2. HandlerTyped' /\ RestTyped'
    BY <1>3 DEF Typed, HandlerTyped, RestTyped, TakeUpgradeLock
  <2>3. QED  BY <2>1, <2>2 DEF Typed
<1>4. ASSUME NEW w \in Workers, LookUp(w) PROVE Typed'
  <2>1. WorkersTyped'
    <3>1. ASSUME NEW s \in Active, workers' = [workers EXCEPT ![w].at = "looked",
                   ![w].session = s, ![w].first = FALSE]
          PROVE  WorkersTyped'
      BY ZenonT(120), <3>1, StageNames DEF Typed, WorkersTyped, Worker, Active
    <3>2. QED
      BY <1>4, <3>1, GotoTyped, StageNames DEF Typed, LookUp
  <2>2. HandlerTyped' /\ RestTyped'
    BY <1>4 DEF Typed, HandlerTyped, RestTyped, LookUp
  <2>3. QED  BY <2>1, <2>2 DEF Typed
<1>5. ASSUME NEW w \in Workers, Create(w) PROVE Typed'
  <2>1. WorkersTyped'
    <3>1. ASSUME NEW s \in Sessions, workers' = [workers EXCEPT ![w].at = "looked",
                   ![w].session = s, ![w].first = TRUE]
          PROVE  WorkersTyped'
      BY ZenonT(120), <3>1, StageNames DEF Typed, WorkersTyped, Worker
    <3>2. QED
      BY <1>5, <3>1, GotoTyped, StageNames, AnyOfIsSubset DEF Typed, Create, Unused
  <2>2. HandlerTyped' /\ RestTyped'
    BY <1>5, AnyOfIsSubset DEF Typed, HandlerTyped, RestTyped, Create, Unused
  <2>3. QED  BY <2>1, <2>2 DEF Typed
<1>6. ASSUME NEW w \in Workers, Prepare(w) PROVE Typed'
  <2>1. WorkersTyped'
    BY <1>6, GotoTyped, StageNames DEF Typed, Prepare
  <2>2. HandlerTyped' /\ RestTyped'
    BY <1>6 DEF Typed, HandlerTyped, RestTyped, Prepare
  <2>3. QED  BY <2>1, <2>2 DEF Typed
<1>7. ASSUME NEW w \in Workers, LockSession(w) PROVE Typed'
  <2>1. WorkersTyped'
    BY <1>7, GotoTyped, StageNames DEF Typed, LockSession
  <2>2. HandlerTyped' /\ RestTyped'
    BY <1>7 DEF Typed, HandlerTyped, RestTyped, LockSession
  <2>3. QED  BY <2>1, <2>2 DEF Typed
<1>8. ASSUME NEW w \in Workers, Start(w) PROVE Typed'
  <2>1. WorkersTyped'
    <3>1. CASE workers' = [workers EXCEPT ![w].at = "running", ![w].turn = turns + 1]
      <4>1. turns + 1 \in Nat
        BY DEF Typed, RestTyped
      <4>2. QED  BY ZenonT(30), <3>1, <4>1, StageNames DEF Typed, WorkersTyped, Worker
    <3>2. QED
      BY <1>8, <3>1, GotoTyped, StageNames DEF Typed, Start
  <2>2. HandlerTyped' /\ RestTyped'
    BY <1>8 DEF Typed, HandlerTyped, RestTyped, Start
  <2>3. QED  BY <2>1, <2>2 DEF Typed
<1>9. ASSUME NEW w \in Workers, (ProcessEnds(w) \/ Deadline(w) \/ Cancelled(w)) PROVE Typed'
  <2>1. WorkersTyped'
    <3>1. PICK o \in Outcomes :
             workers' = [workers EXCEPT ![w].at = "broke", ![w].outcome = o]
      BY <1>9, OutcomeNames DEF ProcessEnds, Deadline, Cancelled, BreakBy
    <3>2. QED  BY ZenonT(30), <3>1, StageNames DEF Typed, WorkersTyped, Worker
  <2>2. HandlerTyped' /\ RestTyped'
    BY <1>9 DEF Typed, HandlerTyped, RestTyped, ProcessEnds, Deadline, Cancelled, BreakBy
  <2>3. QED  BY <2>1, <2>2 DEF Typed
<1>10. ASSUME NEW w \in Workers, ClaudeCreates(w) PROVE Typed'
  <2>1. WorkersTyped'
    BY <1>10 DEF Typed, WorkersTyped, ClaudeCreates
  <2>2. HandlerTyped' /\ RestTyped'
    BY <1>10 DEF Typed, HandlerTyped, RestTyped, ClaudeCreates
  <2>3. QED  BY <2>1, <2>2 DEF Typed
<1>11. ASSUME NEW w \in Workers, Unregister(w) PROVE Typed'
  <2>1. WorkersTyped'
    <3>1. workers[w].outcome \in Outcomes
      BY DEF Typed, WorkersTyped, Worker
    <3>2. PICK o \in Outcomes :
             workers' = [workers EXCEPT ![w].at = "ended", ![w].outcome = o]
      BY <1>11, <3>1, OutcomeNames DEF Unregister
    <3>3. QED  BY ZenonT(30), <3>2, StageNames DEF Typed, WorkersTyped, Worker
  <2>2. HandlerTyped' /\ RestTyped'
    BY <1>11 DEF Typed, HandlerTyped, RestTyped, Unregister
  <2>3. QED  BY <2>1, <2>2 DEF Typed
<1>12. ASSUME NEW w \in Workers, ReturnSteps(w) PROVE Typed'
  <2>1. WorkersTyped'
    BY <1>12, GotoTyped, StageNames DEF Typed, ReturnSteps, ReturnReply, ReturnUnparsed,
        ReturnBackground, ReturnAuth, ReturnFailed, Return
  <2>2. HandlerTyped' /\ RestTyped'
    BY <1>12 DEF Typed, HandlerTyped, RestTyped, ReturnSteps, ReturnReply, ReturnUnparsed,
        ReturnBackground, ReturnAuth, ReturnFailed, Return, Deactivated
  <2>3. QED  BY <2>1, <2>2 DEF Typed
<1>13. ASSUME NEW w \in Workers, Reply(w) PROVE Typed'
  <2>1. WorkersTyped'
    BY <1>13, BackTyped DEF Typed, Reply
  <2>2. HandlerTyped' /\ RestTyped'
    BY <1>13 DEF Typed, HandlerTyped, RestTyped, Reply, CompleteBootstrap, Deactivated
  <2>3. QED  BY <2>1, <2>2 DEF Typed
<1>14. ASSUME NEW w \in Workers, (ReplyError(w) \/ Reflect(w) \/ Background(w)) PROVE Typed'
  <2>1. WorkersTyped'
    BY <1>14, BackTyped DEF Typed, ReplyError, Reflect, Background
  <2>2. HandlerTyped' /\ RestTyped'
    BY <1>14 DEF Typed, HandlerTyped, RestTyped, ReplyError, Reflect, Background
  <2>3. QED  BY <2>1, <2>2 DEF Typed
<1>15. QED
  BY <1>1, <1>2, <1>3, <1>4, <1>5, <1>6, <1>7, <1>8, <1>9, <1>10, <1>11, <1>12, <1>13, <1>14
     DEF WorkerSteps, ProcessSteps

LEMMA OtherSteps_Typed ==
  ASSUME Typed, LoginSteps \/ LoginTimesOut \/ DeliveryLooksUp \/ DeliverySteps
           \/ SweepLocks \/ UpgradeStarts \/ UpgradeEnds \/ Die
  PROVE  Typed'
<1>1. ASSUME LoginSteps \/ LoginTimesOut PROVE Typed'
  <2>1. WorkersTyped'
    BY <1>1 DEF Typed, WorkersTyped, LoginSteps, LoginTimesOut, Instruct, TokenEvent,
        CloseLogin, LoginOnly
  <2>2. HandlerTyped' /\ RestTyped'
    BY <1>1 DEF Typed, HandlerTyped, RestTyped, LoginSteps, LoginTimesOut, Instruct, TokenEvent,
        CloseLogin, LoginOnly
  <2>3. QED  BY <2>1, <2>2 DEF Typed
<1>2. ASSUME DeliveryLooksUp \/ DeliverySteps PROVE Typed'
  <2>1. WorkersTyped'
    BY <1>2 DEF Typed, WorkersTyped, DeliveryLooksUp, DeliverySteps, DeliveryFetches,
        DeliveryLocks, DeliveryEnds, DeliveryOnly
  <2>2. HandlerTyped' /\ RestTyped'
    BY <1>2 DEF Typed, HandlerTyped, RestTyped, DeliveryLooksUp, DeliverySteps, DeliveryFetches,
        DeliveryLocks, DeliveryEnds, DeliveryOnly, NoDelivery, Active
  <2>3. QED  BY <2>1, <2>2 DEF Typed
<1>3. ASSUME SweepLocks \/ UpgradeStarts \/ UpgradeEnds PROVE Typed'
  <2>1. WorkersTyped'
    BY <1>3 DEF Typed, WorkersTyped, SweepLocks, UpgradeStarts, UpgradeEnds
  <2>2. HandlerTyped' /\ RestTyped'
    BY <1>3 DEF Typed, HandlerTyped, RestTyped, SweepLocks, UpgradeStarts, UpgradeEnds
  <2>3. QED  BY <2>1, <2>2 DEF Typed
<1>4. ASSUME Die PROVE Typed'
  <2>1. WorkersTyped'
    <3>1. [Unborn EXCEPT !.at = "exited"] \in Worker
      BY UnbornTyped, AtStageTyped, StageNames
    <3>2. QED  BY <1>4, <3>1 DEF Typed, WorkersTyped, Die
  <2>2. HandlerTyped' /\ RestTyped'
    BY <1>4 DEF Typed, HandlerTyped, RestTyped, Die, NoUpdate, NoDelivery
  <2>3. QED  BY <2>1, <2>2 DEF Typed
<1>5. QED
  BY <1>1, <1>2, <1>3, <1>4

LEMMA NextTyped ==
  ASSUME Typed, [Next]_vars
  PROVE  Typed'
<1>1. CASE UserSteps \/ HandlerSteps
  BY <1>1, HandlerSteps_Typed
<1>2. ASSUME NEW w \in Workers, WorkerSteps(w) \/ ProcessSteps(w)
      PROVE  Typed'
  BY <1>2, WorkerSteps_Typed
<1>3. CASE \/ LoginSteps \/ LoginTimesOut \/ DeliveryLooksUp \/ DeliverySteps
           \/ SweepLocks \/ UpgradeStarts \/ UpgradeEnds \/ Die
  BY <1>3, OtherSteps_Typed
<1>4. CASE UNCHANGED vars
  BY <1>4 DEF vars, Typed, WorkersTyped, HandlerTyped, RestTyped
<1>5. QED  BY <1>1, <1>2, <1>3, <1>4 DEF Next

-----------------------------------------------------------------------------
(* A task has a clone of its session's mutex from its preparation on, and  *)
(* the guard from the lock to the return of invoke_cc.                     *)

Guarded == {"starting", "running", "broke", "ended"}

TurnInv ==
  \A w \in Workers :
    /\ workers[w].at \in {"looked", "locking"} \cup Guarded =>
         workers[w].session \in Sessions
    /\ workers[w].at \in {"locking"} \cup Guarded =>
         clone[w] # None /\ wants[w] = workers[w].session
    /\ workers[w].at \in Guarded => Locks!Holds(w)
    /\ workers[w].at \notin {"locking"} \cup Guarded => clone[w] = None

RelayInv ==
  /\ delivery.at \in {"locking", "relaying"} =>
       clone[Delivery] # None /\ wants[Delivery] = delivery.session
  /\ delivery.at = "relaying" => Locks!Holds(Delivery)
  /\ delivery.at \notin {"locking", "relaying"} => clone[Delivery] = None

Locked == LocksInv /\ TurnInv /\ RelayInv

LEMMA LocksNames == Locks!LocksAssumption /\ Delivery \in Users /\ Workers \subseteq Users
                    /\ \A w \in Workers : w # Delivery
  BY ConversationNames DEF Locks!LocksAssumption, Users

LEMMA InitLocked == Init => Locked
<1> SUFFICES ASSUME Init PROVE Locked
  OBVIOUS
<1>1. LocksInv
  BY LocksNames, LocksInit DEF Init
<1>2. TurnInv /\ RelayInv
  BY LocksNames
     DEF Init, TurnInv, RelayInv, Guarded, Unborn, NoDelivery, Locks!Init
<1>3. QED  BY <1>1, <1>2 DEF Locked

(* A step that leaves the mutexes and the relay alone, and moves no task   *)
(* in or out of the stages that have a clone.                              *)
Aside ==
  /\ UNCHANGED <<lockVars, delivery>>
  /\ \A w \in Workers :
       /\ workers[w].at \in Guarded <=> workers'[w].at \in Guarded
       /\ workers[w].at = "locking" <=> workers'[w].at = "locking"
       /\ workers'[w].at \in {"locking"} \cup Guarded =>
            workers'[w].session = workers[w].session
       /\ workers'[w].at = "looked" => workers'[w].session \in Sessions

LEMMA AsideKeeps ==
  ASSUME Locked, Aside
  PROVE  Locked'
<1>1. LocksInv'
  BY DEF Aside, Locked, LocksInv, Locks!TypeOK, ClonesAreListed
<1>2. \A u : Locks!Holds(u)' <=> Locks!Holds(u)
  BY DEF Aside, Locks!Holds
<1>3. TurnInv'
  BY <1>2 DEF Aside, Locked, TurnInv
<1>4. RelayInv'
  BY <1>2 DEF Aside, Locked, RelayInv
<1>5. QED  BY <1>1, <1>3, <1>4 DEF Locked

(* Where tasks are unchanged, or one of them moves on.                     *)
LEMMA NobodyMoves ==
  ASSUME TurnInv, UNCHANGED <<lockVars, delivery>>,
         \A w \in Workers : workers'[w].at = workers[w].at
                            /\ workers'[w].session = workers[w].session
  PROVE  Aside
  BY DEF Aside, TurnInv

Elsewhere == Stages \ ({"looked", "locking"} \cup Guarded)

LEMMA OneMoves ==
  ASSUME TurnInv, UNCHANGED <<lockVars, delivery>>, NEW w \in Workers,
         \A v \in Workers \ {w} : workers'[v] = workers[v],
         \/ workers[w].at \in Elsewhere /\ workers'[w].at \in Elsewhere
         \/ /\ workers[w].at \in Elsewhere /\ workers'[w].at = "looked"
            /\ workers'[w].session \in Sessions
         \/ workers[w].at = "looked" /\ workers'[w].at \in Elsewhere
         \/ /\ workers[w].at \in Guarded /\ workers'[w].at \in Guarded
            /\ workers'[w].session = workers[w].session
  PROVE  Aside
  BY DEF Aside, TurnInv, Elsewhere, Guarded

LEMMA HandlerAside ==
  ASSUME Typed, TurnInv, UserSteps \/ HandlerSteps
  PROVE  Aside
<1>1. ASSUME NEW m \in Messages, TakeAsToken(m) PROVE Aside
  BY <1>1, NobodyMoves DEF TakeAsToken
<1>2. ASSUME NEW m \in Messages, Route(m) PROVE Aside
  <2>1. CASE workers' = workers
    BY <1>2, <2>1, NobodyMoves DEF Route
  <2>2. CASE \E u \in Workers : /\ workers[u].at = "unborn"
                               /\ workers' = [workers EXCEPT ![u] = Waiting]
    <3>1. PICK u \in Workers : /\ workers[u].at = "unborn"
                              /\ workers' = [workers EXCEPT ![u] = Waiting]
      BY <2>2
    <3>2. /\ \A v \in Workers \ {u} : workers'[v] = workers[v]
          /\ workers'[u].at = "waiting"
      BY <3>1 DEF Typed, WorkersTyped, Waiting, Unborn
    <3>3. QED
      BY <1>2, <3>1, <3>2, OneMoves, StageNames DEF Route, Elsewhere, Guarded
  <2>3. QED
    BY <1>2, <2>1, <2>2, AnyOfIsSubset DEF Route
<1>3. ASSUME NEW c \in Commands, NewDeactivates(c) PROVE Aside
  BY <1>3, NobodyMoves DEF NewDeactivates
<1>4. ASSUME NEW s \in Sessions, SwitchFinds(s) PROVE Aside
  BY <1>4, NobodyMoves DEF SwitchFinds
<1>5. ASSUME ClickStop \/ ClickBackground PROVE Aside
  <2>1. \A w \in Workers : /\ workers'[w].at = workers[w].at
                          /\ workers'[w].session = workers[w].session
    BY <1>5 DEF ClickStop, ClickBackground, CancelTurn, Typed, WorkersTyped, Worker
  <2>2. QED
    BY <1>5, <2>1, NobodyMoves DEF ClickStop, ClickBackground
<1>6. ASSUME Send PROVE Aside
  <2>1. \A w \in Workers : /\ workers'[w].at = workers[w].at
                          /\ workers'[w].session = workers[w].session
    BY <1>6 DEF Send, Typed, HandlerTyped, WorkersTyped, Worker
  <2>2. QED
    BY <1>6, <2>1, NobodyMoves DEF Send
<1>7. ASSUME NewDrops \/ NewCreates \/ SwitchActivates PROVE Aside
  BY <1>7, NobodyMoves DEF NewDrops, NewCreates, SwitchActivates
<1>8. QED
  BY <1>1, <1>2, <1>3, <1>4, <1>5, <1>6, <1>7 DEF UserSteps, HandlerSteps

(* The steps of a task but for those about the mutex.                      *)
LocklessSteps(w) ==
  \/ CloseBatch(w) \/ Exit(w) \/ TakeUpgradeLock(w) \/ LookUp(w) \/ Create(w)
  \/ ProcessSteps(w) \/ Deadline(w) \/ Unregister(w)
  \/ Reply(w) \/ ReplyError(w) \/ Reflect(w) \/ Background(w)

LEMMA LocklessAside ==
  ASSUME Typed, TurnInv, NEW w \in Workers, LocklessSteps(w)
  PROVE  Aside
<1>1. workers[w] \in Worker
  BY DEF Typed, WorkersTyped
<1>2. ASSUME CloseBatch(w) PROVE Aside
  <2>1. /\ \A v \in Workers \ {w} : workers'[v] = workers[v]
        /\ workers[w].at = "waiting"
        /\ workers'[w].at \in {"waiting", "batched"}
    BY ZenonT(120), <1>1, <1>2 DEF CloseBatch, Typed, WorkersTyped, Worker
  <2>2. QED
    BY <1>2, <2>1, OneMoves, StageNames DEF CloseBatch, Elsewhere, Guarded
<1>3. ASSUME Exit(w) \/ TakeUpgradeLock(w) PROVE Aside
  <2>1. /\ \A v \in Workers \ {w} : workers'[v] = workers[v]
        /\ workers[w].at \in {"waiting", "batched"}
        /\ workers'[w].at \in {"exited", "guarded"}
    BY <1>1, <1>3 DEF Exit, TakeUpgradeLock, Goto, Typed, WorkersTyped, Worker
  <2>2. QED
    BY <1>3, <2>1, OneMoves, StageNames DEF Exit, TakeUpgradeLock, Elsewhere, Guarded
<1>4. ASSUME LookUp(w) PROVE Aside
  <2>1. /\ \A v \in Workers \ {w} : workers'[v] = workers[v]
        /\ workers[w].at = "guarded"
        /\ \/ workers'[w].at \in {"creating", "erring"}
           \/ workers'[w].at = "looked" /\ workers'[w].session \in Sessions
    <3>1. ASSUME NEW s \in Sessions, workers' = [workers EXCEPT ![w].at = "looked",
                   ![w].session = s, ![w].first = FALSE]
          PROVE  /\ \A v \in Workers \ {w} : workers'[v] = workers[v]
                 /\ workers'[w].at = "looked" /\ workers'[w].session = s
      BY <1>1, <3>1 DEF Typed, WorkersTyped, Worker
    <3>2. ASSUME NEW stage \in {"creating", "erring"}, Goto(w, stage)
          PROVE  (\A v \in Workers \ {w} : workers'[v] = workers[v]) /\ workers'[w].at = stage
      BY <1>1, <3>2 DEF Goto, Typed, WorkersTyped, Worker
    <3>3. QED
      BY <1>4, <3>1, <3>2 DEF LookUp, Active
  <2>2. QED
    BY <1>4, <2>1, OneMoves, StageNames DEF LookUp, Elsewhere, Guarded
<1>5. ASSUME Create(w) PROVE Aside
  <2>1. /\ \A v \in Workers \ {w} : workers'[v] = workers[v]
        /\ workers[w].at = "creating"
        /\ \/ workers'[w].at = "erring"
           \/ workers'[w].at = "looked" /\ workers'[w].session \in Sessions
    <3>1. ASSUME NEW s \in Sessions, workers' = [workers EXCEPT ![w].at = "looked",
                   ![w].session = s, ![w].first = TRUE]
          PROVE  /\ \A v \in Workers \ {w} : workers'[v] = workers[v]
                 /\ workers'[w].at = "looked" /\ workers'[w].session = s
      BY <1>1, <3>1 DEF Typed, WorkersTyped, Worker
    <3>2. CASE Goto(w, "erring")
      BY <1>1, <1>5, <3>2 DEF Create, Goto, Typed, WorkersTyped, Worker
    <3>3. QED
      BY <1>5, <3>1, <3>2, AnyOfIsSubset DEF Create, Unused
  <2>2. QED
    BY <1>5, <2>1, OneMoves, StageNames DEF Create, Elsewhere, Guarded
<1>6. ASSUME ClaudeCreates(w) PROVE Aside
  BY <1>6, NobodyMoves DEF ClaudeCreates
<1>7. ASSUME ProcessEnds(w) \/ Deadline(w) \/ Cancelled(w) PROVE Aside
  <2>1. /\ \A v \in Workers \ {w} : workers'[v] = workers[v]
        /\ workers[w].at = "running"
        /\ workers'[w].at = "broke" /\ workers'[w].session = workers[w].session
    BY <1>1, <1>7 DEF ProcessEnds, Deadline, Cancelled, BreakBy, Typed, WorkersTyped, Worker
  <2>2. QED
    BY <1>7, <2>1, OneMoves, StageNames DEF ProcessEnds, Deadline, Cancelled, BreakBy,
                                            Elsewhere, Guarded
<1>8. ASSUME Unregister(w) PROVE Aside
  <2>1. /\ \A v \in Workers \ {w} : workers'[v] = workers[v]
        /\ workers[w].at = "broke"
        /\ workers'[w].at = "ended" /\ workers'[w].session = workers[w].session
    BY <1>1, <1>8 DEF Unregister, Typed, WorkersTyped, Worker
  <2>2. QED
    BY <1>8, <2>1, OneMoves, StageNames DEF Unregister, Elsewhere, Guarded
<1>9. ASSUME Reply(w) \/ ReplyError(w) \/ Reflect(w) \/ Background(w) PROVE Aside
  <2>1. /\ \A v \in Workers \ {w} : workers'[v] = workers[v]
        /\ workers[w].at \in {"replying", "erring", "reflecting", "backgrounding"}
        /\ workers'[w].at = "waiting"
    BY <1>1, <1>9 DEF Reply, ReplyError, Reflect, Background, Back, Waiting, Unborn, Typed,
                      WorkersTyped
  <2>2. QED
    BY <1>9, <2>1, OneMoves, StageNames DEF Reply, ReplyError, Reflect, Background, Elsewhere,
                                            Guarded
<1>10. QED
  BY <1>2, <1>3, <1>4, <1>5, <1>6, <1>7, <1>8, <1>9 DEF LocklessSteps, ProcessSteps

LEMMA LoginAside ==
  ASSUME TurnInv, LoginSteps \/ LoginTimesOut \/ UpgradeStarts \/ UpgradeEnds
  PROVE  Aside
  BY NobodyMoves DEF LoginSteps, LoginTimesOut, Instruct, TokenEvent, CloseLogin, LoginOnly,
                     UpgradeStarts, UpgradeEnds

(* The steps about the mutexes.                                            *)
LEMMA LockStepKeeps ==
  ASSUME LocksInv, Locks!Next
  PROVE  LocksInv'
  BY LocksNames, LocksNext

LEMMA PrepareKeeps ==
  ASSUME Typed, Locked, NEW w \in Workers, Prepare(w)
  PROVE  Locked' /\ [Locks!Next]_lockVars
<1>1. workers[w] \in Worker /\ workers[w].at = "looked" /\ workers[w].session \in Sessions
  BY DEF Typed, WorkersTyped, Locked, TurnInv, Prepare
<1>2. CASE Goto(w, "erring") /\ UNCHANGED lockVars
  <2>1. /\ \A v \in Workers \ {w} : workers'[v] = workers[v]
        /\ workers'[w].at = "erring"
    BY <1>2 DEF Goto, Typed, WorkersTyped, Worker
  <2>2. Aside
    BY <1>1, <1>2, <2>1, OneMoves, StageNames DEF Prepare, Locked, Elsewhere, Guarded
  <2>3. QED  BY <1>2, <2>2, AsideKeeps
<1>3. CASE Goto(w, "locking") /\ Locks!Fetch(w, workers[w].session)
  <2>1. Locks!Fetch(w, workers[w].session)
    BY <1>3
  <2>2. PICK m \in Mutexes : /\ clone' = [clone EXCEPT ![w] = m]
                             /\ wants' = [wants EXCEPT ![w] = workers[w].session]
                             /\ holder' = holder
    BY <1>1, <2>1, LocksNames, FetchEffect DEF Locked
  <2>3. Locks!Next
    BY <1>1, <2>1, LocksNames DEF Locks!Next
  <2>4. /\ \A v \in Workers \ {w} : workers'[v] = workers[v]
        /\ workers'[w].at = "locking" /\ workers'[w].session = workers[w].session
    BY <1>3 DEF Goto, Typed, WorkersTyped, Worker
  <2>5. clone \in [Users -> Mutexes \cup {None}] /\ wants \in [Users -> Sessions \cup {None}]
        /\ m # None
    BY ConversationNames DEF Locked, LocksInv, Locks!TypeOK
  <2>6. \A u \in Users \ {w} : clone'[u] = clone[u] /\ wants'[u] = wants[u]
                               /\ (Locks!Holds(u)' <=> Locks!Holds(u))
    BY <2>2, <2>5 DEF Locks!Holds
  <2>7. TurnInv'
    BY <1>1, <2>2, <2>4, <2>5, <2>6, LocksNames DEF Locked, TurnInv, Guarded
  <2>8. RelayInv'
    BY <2>6, LocksNames DEF Prepare, Locked, RelayInv
  <2>9. QED  BY <2>3, <2>7, <2>8, LockStepKeeps DEF Locked
<1>4. QED  BY <1>2, <1>3 DEF Prepare

LEMMA LockSessionKeeps ==
  ASSUME Typed, Locked, NEW w \in Workers, LockSession(w)
  PROVE  Locked' /\ Locks!Next
<1>1. Locks!Acquire(w)
  BY DEF LockSession
<1>2. Locks!Next
  BY <1>1, LocksNames DEF Locks!Next
<1>3. /\ Locks!Holds(w)' /\ \A v \in Users : Locks!Holds(v) => Locks!Holds(v)'
      /\ wants' = wants /\ clone' = clone
  BY <1>1, LocksNames, AcquireEffect DEF Locked
<1>4. /\ \A v \in Workers \ {w} : workers'[v] = workers[v]
      /\ workers'[w].at = "starting" /\ workers'[w].session = workers[w].session
  BY DEF LockSession, Goto, Typed, WorkersTyped, Worker
<1>5. TurnInv'
  BY <1>3, <1>4, LocksNames DEF LockSession, Locked, TurnInv, Guarded
<1>6. RelayInv'
  BY <1>3, LocksNames DEF LockSession, Locked, RelayInv
<1>7. QED  BY <1>2, <1>5, <1>6, LockStepKeeps DEF Locked

(* A task that had the guard drops it and goes elsewhere.                  *)
LEMMA DropKeeps ==
  ASSUME Locked, NEW w \in Workers, Locks!Release(w), UNCHANGED delivery,
         \A v \in Workers \ {w} : workers'[v] = workers[v],
         workers'[w].at \in Elsewhere
  PROVE  Locked' /\ Locks!Next
<1>1. Locks!Release(w)
  OBVIOUS
<1>2. Locks!Next
  BY <1>1, LocksNames DEF Locks!Next
<1>3. /\ \A v \in Users \ {w} : Locks!Holds(v) => Locks!Holds(v)'
      /\ wants' = [wants EXCEPT ![w] = None]
      /\ clone' = [clone EXCEPT ![w] = None]
  BY <1>1, LocksNames, ReleaseEffect DEF Locked
<1>4. clone \in [Users -> Mutexes \cup {None}] /\ wants \in [Users -> Sessions \cup {None}]
  BY DEF Locked, LocksInv, Locks!TypeOK
<1>5. clone'[w] = None /\ \A u \in Users \ {w} : clone'[u] = clone[u] /\ wants'[u] = wants[u]
  BY <1>3, <1>4, LocksNames
<1>6. TurnInv'
  BY <1>3, <1>5, LocksNames DEF Locked, TurnInv, Elsewhere
<1>7. RelayInv'
  BY <1>3, <1>5, LocksNames DEF Locked, RelayInv
<1>8. QED  BY <1>2, <1>6, <1>7, LockStepKeeps DEF Locked

LEMMA StartKeeps ==
  ASSUME Typed, Locked, NEW w \in Workers, Start(w)
  PROVE  Locked' /\ [Locks!Next]_lockVars
<1>1. CASE workers' = [workers EXCEPT ![w].at = "running", ![w].turn = turns + 1]
           /\ UNCHANGED lockVars
  <2>1. /\ \A v \in Workers \ {w} : workers'[v] = workers[v]
        /\ workers'[w].at = "running" /\ workers'[w].session = workers[w].session
    BY <1>1 DEF Typed, WorkersTyped, Worker
  <2>2. Aside
    BY <1>1, <2>1, OneMoves DEF Start, Locked, Guarded
  <2>3. QED  BY <1>1, <2>2, AsideKeeps
<1>2. CASE Goto(w, "erring") /\ Locks!Release(w)
  <2>1. /\ \A v \in Workers \ {w} : workers'[v] = workers[v]
        /\ workers'[w].at = "erring"
    BY <1>2 DEF Goto, Typed, WorkersTyped, Worker
  <2>2. QED
    BY <1>2, <2>1, DropKeeps, StageNames DEF Start, Elsewhere, Guarded
<1>3. QED  BY <1>1, <1>2 DEF Start

LEMMA ReturnKeeps ==
  ASSUME Typed, Locked, NEW w \in Workers, ReturnSteps(w)
  PROVE  Locked' /\ Locks!Next
<1>1. PICK stage \in {"replying", "erring", "backgrounding", "reflecting"} : Return(w, stage)
  BY DEF ReturnSteps, ReturnReply, ReturnUnparsed, ReturnBackground, ReturnAuth, ReturnFailed
<1>2. /\ \A v \in Workers \ {w} : workers'[v] = workers[v]
      /\ workers'[w].at = stage
  BY <1>1 DEF Return, Goto, Typed, WorkersTyped, Worker
<1>3. QED
  BY <1>1, <1>2, DropKeeps, StageNames DEF Return, Elsewhere, Guarded

(* The delivery loop: tasks are left alone, and what it does to the mutexes*)
(* leaves theirs alone.                                                    *)
LEMMA RelayKeeps ==
  ASSUME Typed, Locked, DeliveryLooksUp \/ DeliverySteps
  PROVE  Locked' /\ [Locks!Next]_lockVars
<1>1. CASE DeliveryLooksUp
  <2>1. \A u : Locks!Holds(u)' <=> Locks!Holds(u)
    BY <1>1 DEF DeliveryLooksUp, Locks!Holds
  <2>2. LocksInv' /\ UNCHANGED lockVars
    BY <1>1 DEF DeliveryLooksUp, Locked, LocksInv, Locks!TypeOK,
                ClonesAreListed
  <2>3. TurnInv' /\ RelayInv'
    BY <1>1, <2>1 DEF DeliveryLooksUp, DeliveryOnly, Locked, TurnInv, RelayInv
  <2>4. QED  BY <2>2, <2>3 DEF Locked
<1>2. CASE DeliveryFetches
  <2>1. Locks!Fetch(Delivery, delivery.session) /\ delivery.session \in Sessions
    BY <1>2 DEF DeliveryFetches, Typed, RestTyped
  <2>2. PICK m \in Mutexes : /\ clone' = [clone EXCEPT ![Delivery] = m]
                             /\ wants' = [wants EXCEPT ![Delivery] = delivery.session]
                             /\ holder' = holder
    BY <2>1, LocksNames, FetchEffect DEF Locked
  <2>3. Locks!Next
    BY <2>1, LocksNames DEF Locks!Next
  <2>4. clone \in [Users -> Mutexes \cup {None}] /\ wants \in [Users -> Sessions \cup {None}]
        /\ m # None
    BY ConversationNames DEF Locked, LocksInv, Locks!TypeOK
  <2>5. \A w \in Workers : clone'[w] = clone[w] /\ wants'[w] = wants[w]
                           /\ (Locks!Holds(w)' <=> Locks!Holds(w))
    BY <2>2, <2>4, LocksNames DEF Locks!Holds
  <2>6. TurnInv'
    BY <1>2, <2>5 DEF DeliveryFetches, DeliveryOnly, Locked, TurnInv
  <2>7. delivery'.at = "locking" /\ delivery'.session = delivery.session
    BY <1>2 DEF DeliveryFetches, Typed, RestTyped
  <2>8. RelayInv'
    BY <2>2, <2>4, <2>7, LocksNames DEF RelayInv
  <2>9. QED  BY <2>3, <2>6, <2>8, LockStepKeeps DEF Locked
<1>3. CASE DeliveryLocks
  <2>1. Locks!Acquire(Delivery)
    BY <1>3 DEF DeliveryLocks
  <2>2. Locks!Next
    BY <2>1, LocksNames DEF Locks!Next
  <2>3. /\ Locks!Holds(Delivery)' /\ \A v \in Users : Locks!Holds(v) => Locks!Holds(v)'
        /\ wants' = wants /\ clone' = clone
    BY <2>1, LocksNames, AcquireEffect DEF Locked
  <2>4. TurnInv'
    BY <1>3, <2>3, LocksNames DEF DeliveryLocks, DeliveryOnly, Locked, TurnInv
  <2>5. /\ delivery.at = "locking" /\ delivery'.at = "relaying"
        /\ delivery'.session = delivery.session
    BY <1>3 DEF DeliveryLocks, Typed, RestTyped
  <2>6. RelayInv'
    BY <2>3, <2>5 DEF Locked, RelayInv
  <2>7. QED  BY <2>2, <2>4, <2>6, LockStepKeeps DEF Locked
<1>4. CASE DeliveryEnds
  <2>1. Locks!Release(Delivery)
    BY <1>4 DEF DeliveryEnds
  <2>2. Locks!Next
    BY <2>1, LocksNames DEF Locks!Next
  <2>3. /\ \A v \in Users \ {Delivery} : Locks!Holds(v) => Locks!Holds(v)'
        /\ wants' = [wants EXCEPT ![Delivery] = None]
        /\ clone' = [clone EXCEPT ![Delivery] = None]
    BY <2>1, LocksNames, ReleaseEffect DEF Locked
  <2>4. clone \in [Users -> Mutexes \cup {None}] /\ wants \in [Users -> Sessions \cup {None}]
    BY DEF Locked, LocksInv, Locks!TypeOK
  <2>5. TurnInv'
    BY <1>4, <2>3, <2>4, LocksNames DEF DeliveryEnds, DeliveryOnly, Locked, TurnInv
  <2>6. RelayInv'
    BY <1>4, <2>3, <2>4, LocksNames DEF DeliveryEnds, NoDelivery, RelayInv
  <2>7. QED  BY <2>2, <2>5, <2>6, LockStepKeeps DEF Locked
<1>5. QED  BY <1>1, <1>2, <1>3, <1>4 DEF DeliverySteps

LEMMA SweepKeeps ==
  ASSUME Locked, SweepLocks
  PROVE  Locked' /\ Locks!Next
<1>1. Locks!Sweep
  BY DEF SweepLocks
<1>2. Locks!Next
  BY <1>1 DEF Locks!Next
<1>3. wants' = wants /\ clone' = clone /\ \A u : Locks!Holds(u)' <=> Locks!Holds(u)
  BY <1>1 DEF Locks!Sweep, Locks!Holds
<1>4. TurnInv' /\ RelayInv'
  BY <1>3 DEF SweepLocks, Locked, TurnInv, RelayInv
<1>5. QED  BY <1>2, <1>4, LockStepKeeps DEF Locked

LEMMA DieKeeps ==
  ASSUME Typed, Locked, Die
  PROVE  Locked' /\ Locks!Next
<1>1. Locks!Forget
  BY DEF Die
<1>2. Locks!Next
  BY <1>1 DEF Locks!Next
<1>3. \A w \in Workers : workers'[w].at \in {"unborn", "exited"} /\ clone'[w] = None
  BY <1>1, LocksNames DEF Die, Locks!Forget, Alive, Unborn, Typed, WorkersTyped
<1>4. TurnInv'
  BY <1>3 DEF TurnInv, Guarded
<1>5. RelayInv'
  BY <1>1, LocksNames DEF Die, NoDelivery, Locks!Forget, RelayInv
<1>6. QED  BY <1>2, <1>4, <1>5, LockStepKeeps DEF Locked

LEMMA NextLocked ==
  ASSUME Typed, Locked, [Next]_vars
  PROVE  Locked' /\ [Locks!Next]_lockVars
<1>1. CASE Aside
  BY <1>1, AsideKeeps DEF Aside
<1>2. CASE UserSteps \/ HandlerSteps
  BY <1>1, <1>2, HandlerAside DEF Locked
<1>3. ASSUME NEW w \in Workers, LocklessSteps(w)
      PROVE  Aside
  BY <1>3, LocklessAside DEF Locked
<1>4. ASSUME NEW w \in Workers, WorkerSteps(w) \/ ProcessSteps(w)
      PROVE  Locked' /\ [Locks!Next]_lockVars
  BY <1>1, <1>3, <1>4, PrepareKeeps, LockSessionKeeps, StartKeeps, ReturnKeeps
     DEF WorkerSteps, LocklessSteps
<1>5. CASE LoginSteps \/ LoginTimesOut \/ UpgradeStarts \/ UpgradeEnds
  BY <1>1, <1>5, LoginAside DEF Locked
<1>6. CASE DeliveryLooksUp \/ DeliverySteps
  BY <1>6, RelayKeeps
<1>7. CASE SweepLocks \/ Die
  BY <1>7, SweepKeeps, DieKeeps
<1>8. CASE UNCHANGED vars
  BY <1>1, <1>8, NobodyMoves DEF vars, Locked
<1>9. QED  BY <1>2, <1>4, <1>5, <1>6, <1>7, <1>8 DEF Next

-----------------------------------------------------------------------------
ConversationInv == Typed /\ Locked

LEMMA ConversationInvariant == SafetySpec => []ConversationInv
<1>1. Init => ConversationInv
  BY InitTyped, InitLocked DEF ConversationInv
<1>2. ConversationInv /\ [Next]_vars => ConversationInv'
  BY NextTyped, NextLocked DEF ConversationInv
<1>3. QED  BY <1>1, <1>2, PTL DEF SafetySpec

(* Two turns, or a turn and a relay, have no Claude process on the same    *)
(* session at the same time (worker.rs, cron_delivery.rs: SessionLocks).   *)
THEOREM ProcessesExclude == SafetySpec => []OneProcessPerSession
<1>1. ConversationInv => OneProcessPerSession
  <2> SUFFICES ASSUME ConversationInv PROVE OneProcessPerSession
    OBVIOUS
  <2>1. Locks!MutualExclusion
    BY LocksNames, HoldersDiffer DEF ConversationInv, Locked
  <2>2. \A w \in Workers : HasProcess(w) =>
          Locks!Holds(w) /\ wants[w] = workers[w].session
    BY DEF ConversationInv, Locked, TurnInv, HasProcess, Guarded
  <2>3. delivery.at = "relaying" =>
          Locks!Holds(Delivery) /\ wants[Delivery] = delivery.session
    BY DEF ConversationInv, Locked, RelayInv
  <2>4. QED
    BY <2>1, <2>2, <2>3, LocksNames DEF OneProcessPerSession, Locks!MutualExclusion
<1>2. QED  BY <1>1, ConversationInvariant, PTL

(* Tasks, delivery loop, sweep and deaths together use the mutexes as      *)
(* SessionLocks prescribes.                                                *)
THEOREM UsesSessionLocks == SafetySpec => Locks!Spec
<1>1. Init => Locks!Init
  BY DEF Init
<1>2. ConversationInv /\ [Next]_vars => [Locks!Next]_lockVars
  BY NextLocked DEF ConversationInv
<1>3. QED
  BY <1>1, <1>2, ConversationInvariant, PTL DEF SafetySpec, Locks!Spec, Locks!lockVars

-----------------------------------------------------------------------------
(* The upgrade: while it holds the write side, no task and no relay holds  *)
(* the read side.                                                          *)
Unlocked == {"unborn", "waiting", "batched", "exited"}

UpgradeGuard ==
  upgrading => /\ \A w \in Workers : workers[w].at \in Unlocked
               /\ delivery.at \in {"asleep", "looked"}

LEMMA StillUnlocked ==
  ASSUME UpgradeGuard,
         \A w \in Workers : workers'[w].at = workers[w].at \/ workers'[w].at \in Unlocked,
         delivery' = delivery, upgrading' = upgrading
  PROVE  UpgradeGuard'
  BY DEF UpgradeGuard

LEMMA HandlerKeepsGuard ==
  ASSUME Typed, UpgradeGuard, UserSteps \/ HandlerSteps
  PROVE  UpgradeGuard'
<1>1. \A w \in Workers : workers'[w].at = workers[w].at \/ workers'[w].at \in Unlocked
  <2>1. ASSUME NEW m \in Messages, Route(m)
        PROVE  \A w \in Workers : workers'[w].at = workers[w].at \/ workers'[w].at \in Unlocked
    <3>1. \/ workers' = workers
          \/ \E u \in Workers : workers' = [workers EXCEPT ![u] = Waiting]
      BY <2>1, AnyOfIsSubset DEF Route
    <3>2. Waiting.at \in Unlocked
      BY DEF Waiting, Unborn, Unlocked
    <3>3. QED  BY <3>1, <3>2 DEF Typed, WorkersTyped
  <2>2. CASE Send
    BY <2>2 DEF Send, Typed, WorkersTyped, Worker
  <2>3. CASE ClickStop \/ ClickBackground
    BY <2>3 DEF ClickStop, ClickBackground, CancelTurn, Typed, WorkersTyped, Worker
  <2>4. QED
    BY <2>1, <2>2, <2>3 DEF UserSteps, HandlerSteps, TakeAsToken, NewDeactivates, NewDrops,
       NewCreates, SwitchFinds, SwitchActivates
<1>2. delivery' = delivery /\ upgrading' = upgrading
  BY DEF UserSteps, HandlerSteps, TakeAsToken, Route, NewDeactivates, SwitchFinds, ClickStop,
         ClickBackground, Send, NewDrops, NewCreates, SwitchActivates
<1>3. QED  BY <1>1, <1>2, StillUnlocked

(* During an upgrade a task can only collect a batch, or end.              *)
LEMMA WorkerKeepsGuard ==
  ASSUME Typed, UpgradeGuard, NEW w \in Workers, WorkerSteps(w) \/ ProcessSteps(w)
  PROVE  UpgradeGuard'
<1>1. delivery' = delivery /\ upgrading' = upgrading
  BY DEF WorkerSteps, ProcessSteps, CloseBatch, Exit, TakeUpgradeLock, LookUp, Create, Prepare,
         LockSession, Start, Deadline, Unregister, ReturnSteps, ReturnReply, ReturnUnparsed,
         ReturnBackground, ReturnAuth, ReturnFailed, Return, Reply, ReplyError, Reflect,
         Background,
         ClaudeCreates, ProcessEnds, Cancelled, BreakBy
<1>2. CASE ~upgrading
  BY <1>1, <1>2 DEF UpgradeGuard
<1>3. CASE upgrading
  <2>1. workers[w].at \in Unlocked
    BY <1>3 DEF UpgradeGuard
  <2>2. CloseBatch(w) \/ Exit(w)
    BY <1>3, <2>1 DEF WorkerSteps, ProcessSteps, TakeUpgradeLock, LookUp, Create, Prepare,
       LockSession, Start, Deadline, Unregister, ReturnSteps, ReturnReply, ReturnUnparsed,
       ReturnBackground, ReturnAuth, ReturnFailed, Return, Reply, ReplyError, Reflect,
       Background,
       ClaudeCreates, ProcessEnds, Cancelled, BreakBy, Unlocked
  <2>3. \A v \in Workers : workers'[v].at = workers[v].at \/ workers'[v].at \in Unlocked
    BY ZenonT(30), <2>2 DEF CloseBatch, Exit, Goto, Typed, WorkersTyped, Worker, Unlocked
  <2>4. QED  BY <1>1, <2>3, StillUnlocked
<1>4. QED  BY <1>2, <1>3

LEMMA RestKeepsGuard ==
  ASSUME Typed, UpgradeGuard,
         \/ LoginSteps \/ LoginTimesOut \/ DeliveryLooksUp \/ DeliverySteps
         \/ SweepLocks \/ UpgradeStarts \/ UpgradeEnds \/ Die \/ UNCHANGED vars
  PROVE  UpgradeGuard'
<1>1. CASE LoginSteps \/ LoginTimesOut \/ SweepLocks \/ UNCHANGED vars
  BY <1>1 DEF UpgradeGuard, LoginSteps, LoginTimesOut, Instruct, TokenEvent, CloseLogin,
              LoginOnly, SweepLocks, vars
<1>2. CASE DeliveryLooksUp \/ DeliverySteps
  <2>1. workers' = workers /\ upgrading' = upgrading
    BY <1>2 DEF DeliveryLooksUp, DeliverySteps, DeliveryFetches, DeliveryLocks, DeliveryEnds,
                DeliveryOnly
  <2>2. upgrading => delivery'.at \in {"asleep", "looked"}
    BY <1>2 DEF UpgradeGuard, DeliveryLooksUp, DeliverySteps, DeliveryFetches, DeliveryLocks,
                DeliveryEnds, NoDelivery
  <2>3. QED  BY <2>1, <2>2 DEF UpgradeGuard
<1>3. CASE UpgradeStarts
  BY <1>3 DEF UpgradeStarts, HoldsUpgradeLock, DeliveryHoldsUpgradeLock, UpgradeGuard, Unlocked,
              Typed, RestTyped
<1>4. CASE UpgradeEnds \/ Die
  BY <1>4 DEF UpgradeEnds, Die, UpgradeGuard
<1>5. QED  BY <1>1, <1>2, <1>3, <1>4

(* The binary is never replaced under a running Claude: the upgrade holds  *)
(* the write side of upgrade_lock, and every turn, reflection and relay    *)
(* the read side (upgrade.rs, worker.rs, cron_delivery.rs).                *)
THEOREM UpgradeExcludesProcesses == SafetySpec => []UpgradeExcludesClaude
<1>1. Init => UpgradeGuard
  BY DEF Init, UpgradeGuard
<1>2. ConversationInv /\ UpgradeGuard /\ [Next]_vars => UpgradeGuard'
  BY HandlerKeepsGuard, WorkerKeepsGuard, RestKeepsGuard DEF ConversationInv, Next
<1>3. UpgradeGuard => UpgradeExcludesClaude
  BY DEF UpgradeGuard, UpgradeExcludesClaude, HasProcess, Unlocked
<1>4. QED
  BY <1>1, <1>2, <1>3, ConversationInvariant, PTL DEF SafetySpec

-----------------------------------------------------------------------------
(* The buttons and the session of a turn.  Until a command drops a         *)
(* worker's sender there is one task, the one in the map; its turn is      *)
(* registered exactly while its process can be killed; turn ids are given  *)
(* out once; a task goes to the background for its own click; and a click  *)
(* that was accepted waits for the turn to consume it.                     *)

Lone == ~reset => \A w \in Workers : Alive(w) => map = w

Registered ==
  ~reset => /\ \A w \in Workers : HasProcess(w) => stop = workers[w].turn
            /\ stop # 0 => \E w \in Workers : HasProcess(w)

Numbered ==
  /\ stop \in 0 .. turns /\ clicked \subseteq 1 .. turns /\ bg \in clicked \cup {0}
  /\ \A w \in Workers : HasProcess(w) => workers[w].turn # 0

Honest ==
  \A w \in Workers :
    /\ workers[w].at = "broke" => workers[w].outcome # "background"
    /\ workers[w].at \in {"ended", "backgrounding"} /\ workers[w].outcome = "background" =>
         workers[w].turn \in clicked
    /\ workers[w].at = "backgrounding" => workers[w].outcome \in {"deadline", "background"}

Afterwards == {"ended", "replying"}

Unspent ==
  ~reset => \A w \in Workers : workers[w].turn \in clicked =>
    /\ HasProcess(w) => bg = workers[w].turn
    /\ workers[w].at \in Afterwards => workers[w].outcome \in WithResult \cup {"background"}

ButtonsInv == Lone /\ Registered /\ Numbered /\ Honest /\ Unspent

InTurn == {"looked", "locking", "starting", "running", "broke", "ended", "backgrounding"}

SessionInv ==
  /\ TurnKeepsItsSession
  /\ \A w \in Workers : workers[w].at \in InTurn => workers[w].session \in Sessions

LEMMA InitButtons == Init => ButtonsInv /\ SessionInv
  BY DEF Init, ButtonsInv, SessionInv, Lone, Registered, Numbered, Honest, Unspent, Afterwards,
         Alive, HasProcess, TurnKeepsItsSession, Unborn, InTurn

(* While no command came, a task that lives is the only one.               *)
LEMMA OnlyOne ==
  ASSUME ButtonsInv, ~reset, NEW v \in Workers, NEW w \in Workers, Alive(v), Alive(w)
  PROVE  v = w /\ map = w
  BY DEF ButtonsInv, Lone

(* A task whose process neither starts nor ends in this step, and whose    *)
(* invoke_cc does not return in it.                                        *)
Uneventful == Stages \ {"unborn", "exited", "running", "broke", "ended", "replying",
                        "backgrounding"}

SameTask(w) ==
  /\ workers'[w].at = workers[w].at /\ workers'[w].turn = workers[w].turn
  /\ workers'[w].outcome = workers[w].outcome /\ workers'[w].session = workers[w].session

OnItsSession(w) ==
  workers'[w].at \in InTurn =>
    \/ workers[w].at \in InTurn /\ workers'[w].session = workers[w].session
    \/ workers'[w].session \in Sessions /\ sessions'[workers'[w].session] = "active"

Calm(w) ==
  \/ SameTask(w)
  \/ /\ Alive(w) /\ ~HasProcess(w) /\ workers'[w].at \in Uneventful
     /\ OnItsSession(w)

LEMMA CalmKeeps ==
  ASSUME ButtonsInv, UNCHANGED <<control, map, reset>>, \A w \in Workers : Calm(w)
  PROVE  ButtonsInv'
<1>1. \A w \in Workers : /\ Alive(w)' => Alive(w)
                         /\ HasProcess(w)' <=> HasProcess(w)
                         /\ HasProcess(w) => SameTask(w)
  BY DEF Calm, SameTask, Alive, HasProcess, Uneventful
<1>2. \A w \in Workers :
        workers'[w].at \in {"broke", "ended", "backgrounding", "replying"} => SameTask(w)
  BY DEF Calm, Uneventful
<1>3. Lone' /\ Registered'
  BY <1>1 DEF ButtonsInv, Lone, Registered, SameTask
<1>4. Numbered' /\ Honest' /\ Unspent'
  BY <1>1, <1>2 DEF ButtonsInv, Numbered, Honest, Unspent, Afterwards, SameTask
<1>5. QED  BY <1>3, <1>4 DEF ButtonsInv

LEMMA SessionStays ==
  ASSUME SessionInv, reset' = reset,
         handler'.at \notin {"new", "named"} => handler.at \notin {"new", "named"},
         \A s \in Sessions : sessions[s] = "active" => sessions'[s] = "active",
         \A w \in Workers : OnItsSession(w)
  PROVE  SessionInv'
  BY DEF SessionInv, TurnKeepsItsSession, OnItsSession, InTurn

(* Sessions are deactivated when no turn uses one.                         *)
LEMMA SessionFree ==
  ASSUME \A w \in Workers : workers'[w].at \in InTurn => workers'[w].session \in Sessions,
         ~reset' => \A w \in Workers : workers'[w].at \notin InTurn
  PROVE  SessionInv'
  BY DEF SessionInv, TurnKeepsItsSession, InTurn

LEMMA CalmSession ==
  ASSUME NEW w \in Workers, Calm(w)
  PROVE  OnItsSession(w)
  BY DEF Calm, SameTask, OnItsSession

(* What the three ways of moving on change.                                *)
LEMMA GotoMoves ==
  ASSUME WorkersTyped, NEW w \in Workers, NEW stage, Goto(w, stage)
  PROVE  /\ \A v \in Workers \ {w} : workers'[v] = workers[v]
         /\ workers'[w].at = stage /\ workers'[w].turn = workers[w].turn
         /\ workers'[w].outcome = workers[w].outcome
         /\ workers'[w].session = workers[w].session
  BY DEF WorkersTyped, Worker, Goto

LEMMA BackMoves ==
  ASSUME WorkersTyped, NEW w \in Workers, Back(w)
  PROVE  (\A v \in Workers \ {w} : workers'[v] = workers[v]) /\ workers'[w].at = "waiting"
  BY DEF WorkersTyped, Worker, Back, Waiting, Unborn

LEMMA LookMoves ==
  ASSUME WorkersTyped, NEW w \in Workers, NEW s, NEW b,
         workers' = [workers EXCEPT ![w].at = "looked", ![w].session = s, ![w].first = b]
  PROVE  /\ \A v \in Workers \ {w} : workers'[v] = workers[v]
         /\ workers'[w].at = "looked" /\ workers'[w].session = s
  BY DEF WorkersTyped, Worker

LEMMA OneCalm ==
  ASSUME NEW w \in Workers, \A v \in Workers \ {w} : workers'[v] = workers[v],
         \/ SameTask(w)
         \/ Alive(w) /\ ~HasProcess(w) /\ workers'[w].at \in Uneventful /\ OnItsSession(w)
  PROVE  \A v \in Workers : Calm(v)
  BY DEF Calm, SameTask

(* The steps of a task whose turn is not running.                          *)
CalmSteps(w) ==
  \/ CloseBatch(w) \/ TakeUpgradeLock(w) \/ LookUp(w) \/ Create(w) \/ Prepare(w)
  \/ LockSession(w) \/ ClaudeCreates(w) \/ ReplyError(w) \/ Reflect(w) \/ Background(w)

LEMMA CalmTask ==
  ASSUME Typed, SessionInv, NEW w \in Workers, CalmSteps(w)
  PROVE  /\ \A v \in Workers : Calm(v)
         /\ \A s \in Sessions : sessions[s] = "active" => sessions'[s] = "active"
         /\ UNCHANGED <<control, map, reset, handler>>
<1>0. workers[w] \in Worker /\ WorkersTyped
  BY DEF Typed, WorkersTyped
<1>1. UNCHANGED <<control, map, reset, handler>>
  BY DEF CalmSteps, CloseBatch, TakeUpgradeLock, LookUp, Create, Prepare, LockSession,
         ClaudeCreates, ReplyError, Reflect, Background
<1>2. \A s \in Sessions : sessions[s] = "active" => sessions'[s] = "active"
  <2>1. CASE Create(w)
    BY <2>1, AnyOfIsSubset DEF Create, Typed, RestTyped, Unused
  <2>2. QED
    BY <2>1 DEF CalmSteps, CloseBatch, TakeUpgradeLock, LookUp, Prepare, LockSession,
                ClaudeCreates, ReplyError, Reflect, Background
<1>3. ASSUME CloseBatch(w) PROVE \A v \in Workers : Calm(v)
  <2>1. /\ \A v \in Workers \ {w} : workers'[v] = workers[v]
        /\ workers[w].at = "waiting" /\ workers'[w].at \in {"waiting", "batched"}
    BY ZenonT(120), <1>0, <1>3 DEF CloseBatch, WorkersTyped, Worker
  <2>2. QED
    BY <2>1, OneCalm, StageNames DEF Alive, HasProcess, Uneventful, OnItsSession, InTurn
<1>4. ASSUME NEW stage \in {"guarded", "creating", "erring", "locking", "starting"},
             Goto(w, stage), Alive(w), ~HasProcess(w),
             stage \in {"locking", "starting"} => workers[w].at \in InTurn
      PROVE  \A v \in Workers : Calm(v)
  <2>1. /\ \A v \in Workers \ {w} : workers'[v] = workers[v]
        /\ workers'[w].at = stage /\ workers'[w].session = workers[w].session
    BY <1>0, <1>4, GotoMoves
  <2>2. stage \in Uneventful /\ OnItsSession(w)
    BY <1>4, <2>1, StageNames DEF Uneventful, OnItsSession, InTurn
  <2>3. QED  BY <1>4, <2>1, <2>2, OneCalm
<1>5. ASSUME NEW s \in Sessions, NEW b, sessions'[s] = "active", Alive(w), ~HasProcess(w),
             workers' = [workers EXCEPT ![w].at = "looked", ![w].session = s,
                                        ![w].first = b]
      PROVE  \A v \in Workers : Calm(v)
  <2>1. /\ \A v \in Workers \ {w} : workers'[v] = workers[v]
        /\ workers'[w].at = "looked" /\ workers'[w].session = s
    BY <1>0, <1>5, LookMoves
  <2>2. workers'[w].at \in Uneventful /\ OnItsSession(w)
    BY <1>5, <2>1, StageNames DEF Uneventful, OnItsSession, InTurn
  <2>3. QED  BY <1>5, <2>1, <2>2, OneCalm
<1>6. ASSUME TakeUpgradeLock(w) \/ Prepare(w) \/ LockSession(w)
      PROVE  \A v \in Workers : Calm(v)
  BY <1>4, <1>6 DEF TakeUpgradeLock, Prepare, LockSession, Alive, HasProcess, InTurn
<1>7. ASSUME LookUp(w) PROVE \A v \in Workers : Calm(v)
  <2>1. Alive(w) /\ ~HasProcess(w) /\ sessions' = sessions
    BY <1>7 DEF LookUp, Alive, HasProcess
  <2>2. CASE Goto(w, "creating") \/ Goto(w, "erring")
    BY <1>4, <2>1, <2>2
  <2>3. CASE \E s \in Active : workers' = [workers EXCEPT ![w].at = "looked",
                                 ![w].session = s, ![w].first = FALSE]
    BY <1>5, <2>1, <2>3 DEF Active
  <2>4. QED  BY <1>7, <2>2, <2>3 DEF LookUp
<1>8. ASSUME Create(w) PROVE \A v \in Workers : Calm(v)
  <2>1. Alive(w) /\ ~HasProcess(w)
    BY <1>8 DEF Create, Alive, HasProcess
  <2>2. CASE Goto(w, "erring")
    BY <1>4, <2>1, <2>2
  <2>3. CASE \E s \in Sessions : /\ sessions' = [sessions EXCEPT ![s] = "active"]
                                /\ workers' = [workers EXCEPT ![w].at = "looked",
                                     ![w].session = s, ![w].first = TRUE]
    BY <1>5, <2>1, <2>3 DEF Typed, RestTyped
  <2>4. QED  BY <1>8, <2>2, <2>3, AnyOfIsSubset DEF Create, Unused
<1>9. ASSUME ClaudeCreates(w) PROVE \A v \in Workers : Calm(v)
  BY <1>9 DEF ClaudeCreates, Calm, SameTask
<1>10. ASSUME ReplyError(w) \/ Reflect(w) \/ Background(w) PROVE \A v \in Workers : Calm(v)
  <2>1. Alive(w) /\ ~HasProcess(w) /\ Back(w)
    BY <1>10 DEF ReplyError, Reflect, Background, Alive, HasProcess
  <2>2. (\A v \in Workers \ {w} : workers'[v] = workers[v]) /\ workers'[w].at = "waiting"
    BY <1>0, <2>1, BackMoves
  <2>3. QED
    BY <2>1, <2>2, OneCalm, StageNames DEF Uneventful, OnItsSession, InTurn
<1>11. QED
  BY <1>1, <1>2, <1>3, <1>6, <1>7, <1>8, <1>9, <1>10 DEF CalmSteps

(* A turn starts under an id of its own, runs, and is unregistered.        *)
LEMMA StartButtons ==
  ASSUME Typed, ButtonsInv, SessionInv, NEW w \in Workers, Start(w)
  PROVE  ButtonsInv' /\ SessionInv'
<1>1. WorkersTyped /\ workers[w].at = "starting" /\ UNCHANGED <<sessions, map, handler, reset>>
  BY DEF Typed, Start
<1>2. CASE Goto(w, "erring") /\ UNCHANGED control
  <2>1. (\A v \in Workers \ {w} : workers'[v] = workers[v]) /\ workers'[w].at = "erring"
    BY <1>1, <1>2, GotoMoves
  <2>2. \A v \in Workers : Calm(v)
    BY <1>1, <2>1, OneCalm, StageNames DEF Alive, HasProcess, Uneventful, OnItsSession, InTurn
  <2>3. QED  BY <1>1, <1>2, <2>2, CalmKeeps, CalmSession, SessionStays
<1>3. CASE /\ turns' = turns + 1 /\ stop' = turns + 1 /\ UNCHANGED <<bg, clicked>>
           /\ workers' = [workers EXCEPT ![w].at = "running", ![w].turn = turns + 1]
  <2>1. /\ \A v \in Workers \ {w} : workers'[v] = workers[v]
        /\ workers'[w].at = "running" /\ workers'[w].turn = turns + 1
        /\ workers'[w].session = workers[w].session
    BY <1>1, <1>3 DEF WorkersTyped, Worker
  <2>2. turns \in Nat /\ Alive(w)
    BY <1>1 DEF Typed, RestTyped, Alive
  <2>3. ~reset => \A v \in Workers : Alive(v) => v = w
    BY <2>2, OnlyOne
  <2>4. Lone' /\ Registered'
    BY <1>1, <1>3, <2>1, <2>2, <2>3 DEF ButtonsInv, Lone, Registered, Alive, HasProcess
  <2>5. Numbered' /\ Honest'
    <3>1. stop' \in 0 .. turns' /\ clicked' \subseteq 1 .. turns'
      BY <1>3, <2>2 DEF ButtonsInv, Numbered
    <3>2. \A v \in Workers : workers'[v].at \in {"broke", "ended", "backgrounding"} => v # w
      BY <2>1
    <3>3. \A v \in Workers : HasProcess(v)' => workers'[v].turn # 0
      BY <2>1, <2>2 DEF ButtonsInv, Numbered, HasProcess
    <3>4. Numbered'
      BY <1>3, <3>1, <3>3 DEF ButtonsInv, Numbered
    <3>5. Honest'
      <4>1. clicked' = clicked
        BY <1>3
      <4>2. \A v \in Workers : workers'[v].at \in {"broke", "ended", "backgrounding"} =>
              workers'[v] = workers[v]
        BY <2>1, <3>2
      <4>3. QED  BY <4>1, <4>2 DEF ButtonsInv, Honest
    <3>6. QED  BY <3>4, <3>5
  <2>6. turns + 1 \notin clicked
    BY <2>2 DEF ButtonsInv, Numbered
  <2>7. Unspent'
    <3>1. reset' = reset /\ clicked' = clicked /\ bg' = bg
      BY <1>1, <1>3
    <3>2. \A v \in Workers : workers'[v].turn \in clicked => workers'[v] = workers[v]
      BY <2>1, <2>6
    <3>3. QED  BY <3>1, <3>2 DEF ButtonsInv, Unspent, HasProcess, Afterwards
  <2>8. SessionInv'
    BY <1>1, <2>1, SessionStays DEF OnItsSession, InTurn
  <2>9. QED  BY <2>4, <2>5, <2>7, <2>8 DEF ButtonsInv
<1>4. QED  BY <1>2, <1>3 DEF Start

LEMMA BreakButtons ==
  ASSUME Typed, ButtonsInv, SessionInv, NEW w \in Workers,
         ProcessEnds(w) \/ Deadline(w) \/ Cancelled(w)
  PROVE  ButtonsInv' /\ SessionInv'
<1>1. PICK o \in Outcomes \ {"background"} : BreakBy(w, o)
  BY OutcomeNames DEF ProcessEnds, Deadline, Cancelled
<1>2. /\ workers[w].at = "running" /\ UNCHANGED <<control, sessions, map, handler, reset>>
      /\ \A v \in Workers \ {w} : workers'[v] = workers[v]
      /\ workers'[w].at = "broke" /\ workers'[w].turn = workers[w].turn
      /\ workers'[w].session = workers[w].session /\ workers'[w].outcome = o
  BY <1>1 DEF BreakBy, Typed, WorkersTyped, Worker
<1>3. Lone' /\ Registered'
  BY <1>2 DEF ButtonsInv, Lone, Registered, Alive, HasProcess
<1>4. Numbered' /\ Honest' /\ Unspent'
  BY <1>2 DEF ButtonsInv, Numbered, Honest, Unspent, HasProcess, Afterwards
<1>5. SessionInv'
  BY <1>2, SessionStays DEF OnItsSession, InTurn
<1>6. QED  BY <1>3, <1>4, <1>5 DEF ButtonsInv

LEMMA UnregisterButtons ==
  ASSUME Typed, ButtonsInv, SessionInv, NEW w \in Workers, Unregister(w)
  PROVE  ButtonsInv' /\ SessionInv'
<1>1. /\ workers[w].at = "broke" /\ stop' = 0 /\ bg' = 0
      /\ UNCHANGED <<turns, clicked, sessions, map, handler, reset>>
      /\ \A v \in Workers \ {w} : workers'[v] = workers[v]
      /\ workers'[w].at = "ended" /\ workers'[w].turn = workers[w].turn
      /\ workers'[w].session = workers[w].session
      /\ workers'[w].outcome = IF Honoured(w) THEN "background" ELSE workers[w].outcome
  BY DEF Unregister, Typed, WorkersTyped, Worker
<1>2. ~reset => \A v \in Workers : Alive(v) => v = w
  BY <1>1, OnlyOne DEF Alive
<1>3. Lone' /\ Registered'
  BY <1>1, <1>2 DEF ButtonsInv, Lone, Registered, Alive, HasProcess
<1>4. turns \in Nat
  BY DEF Typed, RestTyped
<1>5. Numbered'
  BY <1>1, <1>4 DEF ButtonsInv, Numbered, HasProcess
<1>6. Honoured(w) => workers[w].turn \in clicked
  BY <1>1 DEF ButtonsInv, Numbered, Honoured, HasProcess
<1>7. Honest'
  BY <1>1, <1>6 DEF ButtonsInv, Honest
<1>8. Unspent'
  BY <1>1, <1>2 DEF ButtonsInv, Unspent, Afterwards, HasProcess, Honoured, Alive
<1>9. SessionInv'
  BY <1>1, SessionStays DEF OnItsSession, InTurn
<1>10. QED  BY <1>3, <1>5, <1>7, <1>8, <1>9 DEF ButtonsInv

(* invoke_cc returns: only to the background does the session go along.    *)
LEMMA ReturnButtons ==
  ASSUME Typed, ButtonsInv, SessionInv, NEW w \in Workers, ReturnSteps(w)
  PROVE  ButtonsInv' /\ SessionInv'
<1>1. PICK stage \in {"replying", "erring", "backgrounding", "reflecting"} :
        /\ Return(w, stage)
        /\ stage = "backgrounding" => /\ workers[w].outcome \in {"deadline", "background"}
                                      /\ UNCHANGED sessions
  BY DEF ReturnSteps, ReturnReply, ReturnUnparsed, ReturnBackground, ReturnAuth, ReturnFailed
<1>2. /\ workers[w].at = "ended" /\ UNCHANGED <<control, map, handler, reset>>
      /\ \A v \in Workers \ {w} : workers'[v] = workers[v]
      /\ workers'[w].at = stage /\ workers'[w].turn = workers[w].turn
      /\ workers'[w].session = workers[w].session
      /\ workers'[w].outcome = workers[w].outcome
  BY <1>1, GotoMoves DEF Return, Typed
<1>3. Lone' /\ Registered'
  BY <1>2 DEF ButtonsInv, Lone, Registered, Alive, HasProcess
<1>4. Numbered' /\ Honest' /\ Unspent'
  BY <1>1, <1>2 DEF ButtonsInv, Numbered, Honest, Unspent, HasProcess, Afterwards
<1>5. CASE stage = "backgrounding"
  BY <1>1, <1>2, <1>3, <1>4, <1>5, SessionStays DEF OnItsSession, InTurn, ButtonsInv
<1>6. CASE stage # "backgrounding"
  <2>1. \A v \in Workers : workers'[v].at \in InTurn =>
          v # w /\ workers'[v] = workers[v] /\ workers[v].at \in InTurn
    BY <1>2, <1>6 DEF InTurn
  <2>2. ~reset => \A v \in Workers : workers'[v].at \notin InTurn
    BY <1>2, <2>1, OnlyOne DEF Alive, InTurn
  <2>3. SessionInv'
    BY <1>2, <2>1, <2>2, SessionFree DEF SessionInv
  <2>4. QED  BY <1>3, <1>4, <2>3 DEF ButtonsInv
<1>7. QED  BY <1>5, <1>6

LEMMA ReplyButtons ==
  ASSUME Typed, ButtonsInv, SessionInv, NEW w \in Workers, Reply(w)
  PROVE  ButtonsInv' /\ SessionInv'
<1>1. /\ workers[w].at = "replying" /\ UNCHANGED <<control, map, handler, reset>>
      /\ \A v \in Workers \ {w} : workers'[v] = workers[v]
      /\ workers'[w].at = "waiting"
  BY BackMoves DEF Reply, Typed
<1>2. \A v \in Workers : Calm(v)
  BY <1>1, OneCalm, StageNames DEF Alive, HasProcess, Uneventful, OnItsSession, InTurn
<1>3. \A v \in Workers : workers'[v].at \in InTurn =>
        v # w /\ workers'[v] = workers[v] /\ workers[v].at \in InTurn
  BY <1>1 DEF InTurn
<1>4. ~reset => \A v \in Workers : workers'[v].at \notin InTurn
  BY <1>1, <1>3, OnlyOne DEF Alive, InTurn
<1>5. SessionInv'
  BY <1>1, <1>3, <1>4, SessionFree DEF SessionInv
<1>6. QED  BY <1>1, <1>2, <1>5, CalmKeeps

(* While no command came the task's sender is in the map: it does not end. *)
LEMMA ExitButtons ==
  ASSUME Typed, ButtonsInv, SessionInv, NEW w \in Workers, Exit(w)
  PROVE  ButtonsInv' /\ SessionInv'
<1>1. /\ workers[w].at = "waiting" /\ ~Open(w)
      /\ UNCHANGED <<control, handler, sessions, reset>>
      /\ \A v \in Workers \ {w} : workers'[v] = workers[v]
      /\ workers'[w].at = "exited"
  BY GotoMoves DEF Exit, Typed
<1>2. reset
  BY <1>1 DEF ButtonsInv, Lone, Alive, Open
<1>3. ButtonsInv'
  BY <1>1, <1>2 DEF ButtonsInv, Lone, Registered, Numbered, Honest, Unspent, HasProcess
<1>4. SessionInv'
  BY <1>1, SessionStays DEF OnItsSession, InTurn
<1>5. QED  BY <1>3, <1>4

LEMMA WorkerButtons ==
  ASSUME Typed, ButtonsInv, SessionInv, NEW w \in Workers, WorkerSteps(w) \/ ProcessSteps(w)
  PROVE  ButtonsInv' /\ SessionInv'
<1>1. CASE CalmSteps(w)
  BY <1>1, CalmTask, CalmKeeps, CalmSession, SessionStays
<1>2. QED
  BY <1>1, StartButtons, BreakButtons, UnregisterButtons, ReturnButtons, ReplyButtons,
     ExitButtons DEF WorkerSteps, ProcessSteps, CalmSteps

-----------------------------------------------------------------------------
(* The dispatcher: a worker is spawned only when none lives, a Background  *)
(* click is for the turn that runs, and a sender is dropped by a command.  *)
LEMMA RouteButtons ==
  ASSUME Typed, ButtonsInv, SessionInv, NEW m \in Messages, Route(m)
  PROVE  ButtonsInv' /\ SessionInv'
<1>1. UNCHANGED <<control, sessions, reset>> /\ handler'.at \notin {"new", "named"}
      /\ handler.at \notin {"new", "named"}
  BY DEF Route, NoUpdate
<1>2. CASE map # None
  <2>1. UNCHANGED <<map, workers>>
    BY <1>2 DEF Route
  <2>2. \A v \in Workers : Calm(v)
    BY <2>1 DEF Calm, SameTask
  <2>3. QED  BY <1>1, <2>1, <2>2, CalmKeeps, CalmSession, SessionStays
<1>3. CASE map = None
  <2>1. PICK u \in Workers : /\ workers[u].at = "unborn" /\ map' = u
                            /\ workers' = [workers EXCEPT ![u] = Waiting]
    BY <1>3, AnyOfIsSubset DEF Route
  <2>2. /\ \A v \in Workers \ {u} : workers'[v] = workers[v]
        /\ workers'[u].at = "waiting"
    BY <2>1 DEF Typed, WorkersTyped, Waiting, Unborn
  <2>3. ~reset => \A v \in Workers : ~Alive(v)
    BY <1>3, ConversationNames DEF ButtonsInv, Lone, Users
  <2>4. Lone'
    BY <1>1, <2>1, <2>2, <2>3 DEF Lone, Alive
  <2>5. Registered'
    BY <1>1, <2>2, <2>3 DEF ButtonsInv, Registered, Alive, HasProcess
  <2>6. Numbered' /\ Honest' /\ Unspent'
    BY <1>1, <2>2 DEF ButtonsInv, Numbered, Honest, Unspent, HasProcess, Afterwards
  <2>7. SessionInv'
    BY <1>1, <2>2, SessionStays DEF OnItsSession, InTurn
  <2>8. QED  BY <2>4, <2>5, <2>6, <2>7 DEF ButtonsInv
<1>4. QED  BY <1>2, <1>3

LEMMA BackgroundButtons ==
  ASSUME Typed, ButtonsInv, SessionInv, ClickBackground
  PROVE  ButtonsInv' /\ SessionInv'
<1>1. /\ stop # 0 /\ bg' = stop /\ clicked' = clicked \cup {stop}
      /\ UNCHANGED <<map, handler, sessions, stop, turns, reset>>
  BY DEF ClickBackground
<1>2. \A v \in Workers : SameTask(v)
  BY DEF ClickBackground, CancelTurn, Typed, WorkersTyped, Worker, SameTask
<1>3. \A v \in Workers : (Alive(v)' <=> Alive(v)) /\ (HasProcess(v)' <=> HasProcess(v))
  BY <1>2 DEF SameTask, Alive, HasProcess
<1>4. Lone' /\ Registered'
  BY <1>1, <1>2, <1>3 DEF ButtonsInv, Lone, Registered, SameTask
<1>5. Numbered'
  <2>1. turns \in Nat /\ stop \in 1 .. turns
    BY <1>1 DEF Typed, RestTyped, ButtonsInv, Numbered
  <2>2. QED  BY <1>1, <1>2, <1>3, <2>1 DEF ButtonsInv, Numbered, SameTask
<1>6. Honest'
  BY <1>1, <1>2 DEF ButtonsInv, Honest, SameTask
<1>7. ~reset => \A v \in Workers : Alive(v) => HasProcess(v) /\ workers[v].turn = stop
  <2>1. HAVE ~reset
  <2>2. PICK u \in Workers : HasProcess(u)
    BY <1>1, <2>1 DEF ButtonsInv, Registered
  <2>3. Alive(u)
    BY <2>2 DEF Alive, HasProcess
  <2>4. QED
    BY <2>1, <2>2, <2>3, OnlyOne DEF ButtonsInv, Registered
<1>8. Unspent'
  <2> SUFFICES ASSUME ~reset, NEW v \in Workers, workers'[v].turn \in clicked'
               PROVE  /\ HasProcess(v)' => bg' = workers'[v].turn
                      /\ workers'[v].at \in Afterwards =>
                           workers'[v].outcome \in WithResult \cup {"background"}
    BY <1>1 DEF Unspent
  <2>1. HasProcess(v)' => bg' = workers'[v].turn
    BY <1>1, <1>2, <1>3, <1>7 DEF SameTask, Alive, HasProcess
  <2>2. workers'[v].at \notin Afterwards
    BY <1>2, <1>7 DEF SameTask, Alive, HasProcess, Afterwards
  <2>3. QED  BY <2>1, <2>2
<1>9. SessionInv'
  BY <1>1, <1>2, SessionStays DEF SameTask, OnItsSession
<1>10. QED  BY <1>4, <1>5, <1>6, <1>8, <1>9 DEF ButtonsInv

LEMMA DropButtons ==
  ASSUME Typed, ButtonsInv, SessionInv, NewDrops \/ SwitchActivates
  PROVE  ButtonsInv' /\ SessionInv'
<1>1. /\ UNCHANGED <<workers, control>>
      /\ map' = None /\ reset' = (reset \/ map # None)
  BY DEF NewDrops, SwitchActivates
<1>2. ~reset' => \A v \in Workers : ~Alive(v)
  BY <1>1, ConversationNames DEF ButtonsInv, Lone, Users
<1>3. Lone' /\ Registered'
  BY <1>1, <1>2 DEF ButtonsInv, Lone, Registered, Alive, HasProcess
<1>4. Numbered' /\ Honest' /\ Unspent'
  BY <1>1 DEF ButtonsInv, Numbered, Honest, Unspent, HasProcess, Afterwards
<1>5. SessionInv'
  BY <1>1, <1>2, SessionFree DEF SessionInv, Alive, InTurn
<1>6. QED  BY <1>3, <1>4, <1>5 DEF ButtonsInv

LEMMA DieButtons ==
  ASSUME Typed, ButtonsInv, SessionInv, Die
  PROVE  ButtonsInv' /\ SessionInv'
<1>1. \A v \in Workers : workers'[v].at \in {"unborn", "exited"}
  BY DEF Die, Alive, Unborn, Typed, WorkersTyped
<1>2. stop' = 0 /\ bg' = 0 /\ UNCHANGED <<turns, clicked>> /\ turns \in Nat
  BY DEF Die, Typed, RestTyped
<1>3. ButtonsInv'
  BY <1>1, <1>2 DEF ButtonsInv, Lone, Registered, Numbered, Honest, Unspent, Afterwards, Alive,
                    HasProcess
<1>4. SessionInv'
  BY <1>1, SessionFree DEF InTurn
<1>5. QED  BY <1>3, <1>4

(* The other steps of the dispatcher, and those of everybody else.         *)
LEMMA CalmAround ==
  ASSUME Typed, ButtonsInv, SessionInv,
         \/ \E m \in Messages : TakeAsToken(m)
         \/ \E c \in Commands : NewDeactivates(c)
         \/ \E s \in Sessions : SwitchFinds(s)
         \/ ClickStop \/ Send \/ NewCreates
         \/ LoginSteps \/ LoginTimesOut \/ DeliveryLooksUp \/ DeliverySteps
         \/ SweepLocks \/ UpgradeStarts \/ UpgradeEnds \/ UNCHANGED vars
  PROVE  ButtonsInv' /\ SessionInv'
<1>1. UNCHANGED <<control, map, reset>>
  BY DEF TakeAsToken, NewDeactivates, SwitchFinds, ClickStop, Send, NewCreates, LoginSteps,
         LoginTimesOut, Instruct, TokenEvent, CloseLogin, LoginOnly, DeliveryLooksUp,
         DeliverySteps, DeliveryFetches, DeliveryLocks, DeliveryEnds, DeliveryOnly, SweepLocks,
         UpgradeStarts, UpgradeEnds, vars
<1>2. \A v \in Workers : SameTask(v)
  <2>1. CASE ClickStop
    BY <2>1 DEF ClickStop, CancelTurn, Typed, WorkersTyped, Worker, SameTask
  <2>2. CASE Send
    <3>1. handler.tx \in Workers
          /\ workers' = [workers EXCEPT ![handler.tx].queue = Append(@, handler.msg)]
      BY <2>2 DEF Send, Typed, HandlerTyped
    <3>2. QED  BY <3>1 DEF Typed, WorkersTyped, Worker, SameTask
  <2>3. CASE workers' = workers
    BY <2>3 DEF SameTask
  <2>4. QED
    BY <2>1, <2>2, <2>3
       DEF TakeAsToken, NewDeactivates, SwitchFinds, NewCreates, LoginSteps,
           LoginTimesOut, Instruct, TokenEvent, CloseLogin, LoginOnly, DeliveryLooksUp,
           DeliverySteps, DeliveryFetches, DeliveryLocks, DeliveryEnds, DeliveryOnly,
           SweepLocks, UpgradeStarts, UpgradeEnds, vars
<1>3. ButtonsInv'
  BY <1>1, <1>2, CalmKeeps DEF Calm
<1>4. \A v \in Workers : OnItsSession(v)
  BY <1>2 DEF SameTask, OnItsSession
<1>5. CASE \E c \in Commands : NewDeactivates(c)
  <2>1. handler'.at \in {"new", "named"}
    BY <1>5 DEF NewDeactivates, NoUpdate
  <2>2. QED
    BY <1>2, <1>3, <2>1 DEF SessionInv, TurnKeepsItsSession, SameTask
<1>6. CASE NewCreates
  <2>1. \A s \in Sessions : sessions[s] = "active" => sessions'[s] = "active"
    BY <1>6, AnyOfIsSubset DEF NewCreates, Typed, RestTyped, Unused
  <2>2. QED
    BY <1>1, <1>3, <1>4, <1>6, <2>1, SessionStays DEF NewCreates
<1>7. CASE UNCHANGED sessions /\ (handler.at \in {"new", "named"} =>
                                    handler'.at \in {"new", "named"})
  BY <1>1, <1>3, <1>4, <1>7, SessionStays
<1>8. QED
  BY <1>5, <1>6, <1>7
     DEF TakeAsToken, SwitchFinds, ClickStop, Send, LoginSteps,
         LoginTimesOut, Instruct, TokenEvent, CloseLogin, LoginOnly, DeliveryLooksUp,
         DeliverySteps, DeliveryFetches, DeliveryLocks, DeliveryEnds, DeliveryOnly,
         SweepLocks, UpgradeStarts, UpgradeEnds, vars

LEMMA NextButtons ==
  ASSUME Typed, ButtonsInv, SessionInv, [Next]_vars
  PROVE  ButtonsInv' /\ SessionInv'
  BY CalmAround, RouteButtons, BackgroundButtons, DropButtons, DieButtons, WorkerButtons
     DEF Next, UserSteps, HandlerSteps

LEMMA ButtonsInvariant == SafetySpec => [](ButtonsInv /\ SessionInv)
<1>1. Init => ButtonsInv /\ SessionInv
  BY InitButtons
<1>2. ConversationInv /\ ButtonsInv /\ SessionInv /\ [Next]_vars =>
        (ButtonsInv /\ SessionInv)'
  BY NextButtons DEF ConversationInv
<1>3. QED  BY <1>1, <1>2, ConversationInvariant, PTL DEF SafetySpec

(* Messages of a conversation are handled by one worker task, the one in   *)
(* the map, until a command drops its sender (handler.rs, worker.rs).      *)
THEOREM OneWorkerAtATime == SafetySpec => []OneWorker
<1>1. ButtonsInv => OneWorker
  BY OnlyOne DEF OneWorker
<1>2. QED  BY <1>1, ButtonsInvariant, PTL

(* The turn that runs is the one both buttons are registered for           *)
(* (worker.rs: stop_tokens.insert ... remove).                             *)
THEOREM TurnsAreStoppable == SafetySpec => []RunningTurnIsStoppable
<1>1. ButtonsInv => RunningTurnIsStoppable
  BY DEF ButtonsInv, Registered, RunningTurnIsStoppable, HasProcess
<1>2. QED  BY <1>1, ButtonsInvariant, PTL

(* A Background click moves the turn it was made on and no other, and      *)
(* moves it unless the turn has a result (worker.rs: consume_bg_request,   *)
(* should_honor_bg_request).                                               *)
THEOREM ClicksReachTheirTurn == SafetySpec => []ClicksAreForTheirTurn
<1>1. ButtonsInv => ClicksAreForTheirTurn
  BY DEF ButtonsInv, Honest, Unspent, Afterwards, ClicksAreForTheirTurn
<1>2. QED  BY <1>1, ButtonsInvariant, PTL

(* From its lookup to the end of its process a turn's session is the       *)
(* active one, until a command changes it (session.rs, worker.rs).         *)
THEOREM SessionsAreKept == SafetySpec => []TurnKeepsItsSession
<1>1. SessionInv => TurnKeepsItsSession
  BY DEF SessionInv
<1>2. QED  BY <1>1, ButtonsInvariant, PTL

-----------------------------------------------------------------------------
(* The book of messages.  A message that is under way is in one place: with *)
(* the handler, in one channel, or in one batch; and its fate says which.   *)

Channel(w) == {workers[w].queue[i] : i \in DOMAIN workers[w].queue}

Placed ==
  /\ handler.at = "sending" => fate[handler.msg] = "sending"
  /\ \A w \in Workers : /\ \A m \in Channel(w) : fate[m] = "queued"
                        /\ \A m \in workers[w].batch : fate[m] = "batched"
Apart ==
  \A v, w \in Workers : v # w =>
    /\ Channel(v) \cap Channel(w) = {}
    /\ workers[v].batch \cap workers[w].batch = {}

(* A task that rests has no batch, one that is gone has no messages, and     *)
(* nobody holds the sender of such a one.                                   *)
Resting(w) == workers[w].at \in {"unborn", "waiting", "exited"}
Emptied ==
  \A w \in Workers : /\ Resting(w) => workers[w].batch = {}
                     /\ ~Alive(w) => workers[w].queue = <<>>
Sendable ==
  /\ map # None => Alive(map)
  /\ handler.at = "sending" => Alive(handler.tx)

PlacesInv == Placed /\ Apart /\ Emptied /\ Sendable

BookStep == Book!Next \/ UNCHANGED Ledger

LEMMA ChannelTyped ==
  ASSUME WorkersTyped, NEW w \in Workers
  PROVE  Channel(w) \subseteq Messages /\ workers[w].batch \subseteq Messages
<1>1. workers[w].queue \in Seq(Messages) /\ workers[w].batch \subseteq Messages
  BY DEF WorkersTyped, Worker
<1>2. \A q \in Seq(Messages) : {q[i] : i \in DOMAIN q} \subseteq Messages
  OBVIOUS
<1>3. QED  BY <1>1, <1>2 DEF Channel

(* What happens to messages is one of these.                                *)
LEMMA TakeMaps ==
  ASSUME NEW m \in Messages, fate[m] = "unsent", NEW f, Settle({m}, f), f # "unsent"
  PROVE  BookStep
<1>1. Ledger' = [Ledger EXCEPT ![m] = IF f \in Pending THEN "taken" ELSE "settled"]
  BY DEF Ledger, Settle
<1>2. Ledger[m] = "new"
  BY DEF Ledger
<1>3. Book!Take(m) \/ Book!TakeAndSettle(m)
  BY <1>1, <1>2 DEF Book!Take, Book!TakeAndSettle
<1>4. QED  BY <1>3 DEF Book!Next, BookStep

LEMMA MoveMaps ==
  ASSUME NEW ms \in SUBSET Messages, NEW f \in Pending, Settle(ms, f),
         \A m \in ms : fate[m] \in Pending
  PROVE  BookStep
  BY DEF Ledger, Settle, Pending, BookStep

LEMMA SettleMaps ==
  ASSUME NEW ms \in SUBSET Messages, NEW f, Settle(ms, f), f \notin Pending, f # "unsent",
         \A m \in ms : fate[m] \in Pending
  PROVE  BookStep
<1>1. Ledger' = [m \in Messages |-> IF m \in ms THEN "settled" ELSE Ledger[m]]
  BY DEF Ledger, Settle
<1>2. \A m \in ms : Ledger[m] = "taken"
  BY DEF Ledger, Pending
<1>3. Book!Settle(ms)
  BY <1>1, <1>2 DEF Book!Settle
<1>4. QED  BY <1>3 DEF Book!Next, BookStep

(* Steps that leave the messages where they are.                            *)
Holding(w) ==
  /\ workers'[w].queue = workers[w].queue /\ workers'[w].batch = workers[w].batch
  /\ Resting(w)' => Resting(w)
  /\ \/ Alive(w)' <=> Alive(w)
     \/ workers[w].queue = <<>> /\ ~Open(w) /\ map' = None /\ handler' = handler
Untouched ==
  /\ fate' = fate
  /\ map' \in {map, None}
  /\ handler' = handler \/ handler'.at # "sending"
  /\ \A w \in Workers : Holding(w)

LEMMA UntouchedKeeps ==
  ASSUME Typed, PlacesInv, Untouched
  PROVE  PlacesInv' /\ BookStep
<1>1. \A w \in Workers : Channel(w)' = Channel(w)
  BY DEF Channel, Untouched, Holding
<1>2. PlacesInv'
  <2>1. Placed' /\ Apart'
    BY <1>1 DEF PlacesInv, Placed, Apart, Untouched, Holding
  <2>2. Emptied'
    BY DEF PlacesInv, Emptied, Untouched, Holding
  <2>3. Sendable'
    BY DEF PlacesInv, Sendable, Untouched, Holding, Open, Typed, HandlerTyped
  <2>4. QED  BY <2>1, <2>2, <2>3 DEF PlacesInv
<1>3. BookStep
  BY DEF Untouched, BookStep, Ledger
<1>4. QED  BY <1>2, <1>3

OnTheWay == Stages \ {"unborn", "waiting", "exited"}

LEMMA GotoHolds ==
  ASSUME WorkersTyped, NEW w \in Workers, NEW stage \in OnTheWay, Goto(w, stage), Alive(w)
  PROVE  \A v \in Workers : Holding(v)
  BY DEF WorkersTyped, Worker, Goto, Holding, Alive, Resting, OnTheWay

LEMMA DispatcherUntouched ==
  ASSUME Typed,
         \/ \E c \in Commands : NewDeactivates(c)
         \/ \E s \in Sessions : SwitchFinds(s)
         \/ ClickStop \/ ClickBackground \/ NewDrops \/ NewCreates \/ SwitchActivates
         \/ LoginSteps \/ LoginTimesOut \/ DeliveryLooksUp \/ DeliverySteps
         \/ SweepLocks \/ UpgradeStarts \/ UpgradeEnds \/ UNCHANGED vars
  PROVE  Untouched
<1>1. fate' = fate
  BY DEF NewDeactivates, SwitchFinds, ClickStop, ClickBackground, NewDrops, NewCreates,
         SwitchActivates, LoginSteps, LoginTimesOut, Instruct, TokenEvent, CloseLogin,
         LoginOnly, DeliveryLooksUp, DeliverySteps, DeliveryFetches, DeliveryLocks,
         DeliveryEnds, DeliveryOnly, SweepLocks, UpgradeStarts, UpgradeEnds, vars
<1>2. handler' = handler \/ handler'.at # "sending"
  <2>1. CASE NewDrops
    <3>1. [handler EXCEPT !.at = "creating"].at = "creating"
      BY DEF Typed, HandlerTyped
    <3>2. QED  BY <2>1, <3>1 DEF NewDrops, NoUpdate
  <2>2. CASE \E c \in Commands : NewDeactivates(c)
    BY <2>2 DEF NewDeactivates, NoUpdate
  <2>3. CASE \E s \in Sessions : SwitchFinds(s)
    BY <2>3 DEF SwitchFinds, NoUpdate
  <2>4. CASE NewCreates \/ SwitchActivates
    BY <2>4 DEF NewCreates, SwitchActivates, NoUpdate
  <2>5. QED
    BY <2>1, <2>2, <2>3, <2>4
       DEF ClickStop, ClickBackground, LoginSteps, LoginTimesOut, Instruct, TokenEvent,
           CloseLogin, LoginOnly, DeliveryLooksUp, DeliverySteps, DeliveryFetches,
           DeliveryLocks, DeliveryEnds, DeliveryOnly, SweepLocks, UpgradeStarts,
           UpgradeEnds, vars
<1>3. \A w \in Workers : Holding(w)
  <2>1. CASE CancelTurn
    BY <2>1 DEF CancelTurn, Typed, WorkersTyped, Worker, Holding, Alive, Resting
  <2>2. CASE workers' = workers
    BY <2>2 DEF Holding, Alive, Resting
  <2>3. QED
    BY <2>1, <2>2
       DEF NewDeactivates, SwitchFinds, ClickStop, ClickBackground, NewDrops, NewCreates,
           SwitchActivates, LoginSteps, LoginTimesOut, Instruct, TokenEvent, CloseLogin,
           LoginOnly, DeliveryLooksUp, DeliverySteps, DeliveryFetches, DeliveryLocks,
           DeliveryEnds, DeliveryOnly, SweepLocks, UpgradeStarts, UpgradeEnds, vars
<1>4. map' \in {map, None}
  BY DEF NewDeactivates, SwitchFinds, ClickStop, ClickBackground, NewDrops, NewCreates,
         SwitchActivates, LoginSteps, LoginTimesOut, Instruct, TokenEvent, CloseLogin,
         LoginOnly, DeliveryLooksUp, DeliverySteps, DeliveryFetches, DeliveryLocks,
         DeliveryEnds, DeliveryOnly, SweepLocks, UpgradeStarts, UpgradeEnds, vars
<1>5. QED  BY <1>1, <1>2, <1>3, <1>4 DEF Untouched

(* A task on its way from a batch to an answer.                             *)
TurnSteps(w) ==
  \/ Exit(w) \/ TakeUpgradeLock(w) \/ LookUp(w) \/ Create(w) \/ Prepare(w)
  \/ LockSession(w) \/ Start(w) \/ Deadline(w) \/ Unregister(w) \/ ReturnSteps(w)
  \/ ProcessSteps(w)

LEMMA TurnUntouched ==
  ASSUME Typed, NEW w \in Workers, TurnSteps(w)
  PROVE  Untouched
<1>1. fate' = fate /\ handler' = handler /\ map' \in {map, None}
  BY DEF TurnSteps, Exit, TakeUpgradeLock, LookUp, Create, Prepare, LockSession, Start,
         Deadline, Cancelled, BreakBy, Unregister, ReturnSteps, ReturnReply,
         ReturnUnparsed, ReturnBackground, ReturnAuth, ReturnFailed, Return, ProcessSteps,
         ClaudeCreates, ProcessEnds
<1>2. \A v \in Workers : Holding(v)
  <2>0. WorkersTyped
    BY DEF Typed
  <2> USE DEF Holding, Alive, Resting, OnTheWay
  <2>1. CASE Alive(w) /\ \E stage \in OnTheWay : Goto(w, stage)
    BY <2>0, <2>1, GotoHolds
  <2>2. CASE Alive(w) /\ \E s, b : workers' = [workers EXCEPT ![w].at = "looked",
                                          ![w].session = s, ![w].first = b]
    BY <2>0, <2>2 DEF WorkersTyped, Worker
  <2>3. CASE /\ Alive(w)
             /\ workers' = [workers EXCEPT ![w].at = "running", ![w].turn = turns + 1]
    BY <2>0, <2>3 DEF WorkersTyped, Worker
  <2>4. CASE Alive(w) /\ \E a \in {"broke", "ended"} : \E o :
                           workers' = [workers EXCEPT ![w].at = a, ![w].outcome = o]
    BY <2>0, <2>4 DEF WorkersTyped, Worker
  <2>5. CASE workers' = workers
    BY <2>5
  <2>6. CASE Exit(w)
    <3>1. /\ \A v \in Workers \ {w} : workers'[v] = workers[v]
          /\ workers'[w].queue = workers[w].queue /\ workers'[w].batch = workers[w].batch
      BY <2>0, <2>6 DEF Exit, Goto, WorkersTyped, Worker
    <3>2. QED  BY <2>6, <3>1 DEF Exit
  <2>7. CASE LookUp(w) \/ Create(w)
    <3>1. Alive(w)
      BY <2>7 DEF LookUp, Create
    <3>2. CASE Goto(w, "creating") \/ Goto(w, "erring")
      <4>1. {"creating", "erring"} \subseteq OnTheWay
        BY StageNames
      <4>2. QED  BY <2>0, <3>1, <3>2, <4>1, GotoHolds
    <3>3. CASE \E s, b : workers' = [workers EXCEPT ![w].at = "looked",
                                    ![w].session = s, ![w].first = b]
      BY <2>2, <3>1, <3>3
    <3>4. LookUp(w) => \/ Goto(w, "creating") \/ Goto(w, "erring")
                       \/ \E s, b : workers' = [workers EXCEPT ![w].at = "looked",
                                    ![w].session = s, ![w].first = b]
      BY DEF LookUp
    <3>5. Create(w) => \/ Goto(w, "erring")
                       \/ \E s, b : workers' = [workers EXCEPT ![w].at = "looked",
                                    ![w].session = s, ![w].first = b]
      BY DEF Create
    <3>6. QED  BY <2>7, <3>2, <3>3, <3>4, <3>5
  <2>8. CASE Start(w) \/ Unregister(w) \/ Deadline(w) \/ ProcessSteps(w)
    BY <2>1, <2>3, <2>4, <2>5, <2>8, StageNames
       DEF Start, Unregister, Deadline, ProcessSteps, ProcessEnds, Cancelled, BreakBy,
           ClaudeCreates
  <2>9. CASE TakeUpgradeLock(w) \/ Prepare(w) \/ LockSession(w) \/ ReturnSteps(w)
    BY <2>1, <2>9, StageNames
       DEF TakeUpgradeLock, Prepare, LockSession, ReturnSteps, ReturnReply,
           ReturnUnparsed, ReturnBackground, ReturnAuth, ReturnFailed, Return
  <2>10. QED  BY <2>6, <2>7, <2>8, <2>9 DEF TurnSteps
<1>3. QED  BY <1>1, <1>2 DEF Untouched

(* The steps that move a message.                                           *)
LEMMA RouteBook ==
  ASSUME Typed, PlacesInv, NEW m \in Messages, TakeAsToken(m) \/ Route(m)
  PROVE  PlacesInv' /\ BookStep
<1> DEFINE f == IF Route(m) THEN "sending"
                ELSE IF login.at = "closing" THEN "swallowed" ELSE "token"
<1>1. fate[m] = "unsent" /\ Settle({m}, f) /\ f # "unsent" /\ handler.at = "idle"
  BY DEF TakeAsToken, Route, NextMessage
<1>2. /\ \A k \in Messages \ {m} : fate'[k] = fate[k]
      /\ fate'[m] = f
  BY <1>1 DEF Settle
<1>3. \A w \in Workers : Channel(w) \subseteq Messages /\ workers[w].batch \subseteq Messages
  BY ChannelTyped DEF Typed
<1>4. \A w \in Workers : m \notin Channel(w) /\ m \notin workers[w].batch
  BY <1>1 DEF PlacesInv, Placed
<1>5. ASSUME NEW w \in Workers
      PROVE  /\ Channel(w)' \subseteq Channel(w)
             /\ workers'[w].batch \subseteq workers[w].batch
  <2>1. workers'[w] = workers[w] \/ workers'[w] = Waiting
    BY DEF TakeAsToken, Route, Typed, WorkersTyped
  <2>2. Waiting.queue = <<>> /\ Waiting.batch = {}
    BY DEF Waiting, Unborn
  <2>3. QED  BY <2>1, <2>2 DEF Channel
<1>6. Apart'
  BY <1>5 DEF PlacesInv, Apart
<1>7. handler'.at = "sending" => Route(m) /\ handler'.msg = m
  BY <1>1 DEF TakeAsToken, Route, NoUpdate
<1>8. Placed'
  BY <1>2, <1>3, <1>4, <1>5, <1>7 DEF PlacesInv, Placed
<1>9. BookStep
  BY <1>1, TakeMaps
<1>10. ASSUME NEW w \in Workers
       PROVE  /\ Alive(w) => Alive(w)'
              /\ Resting(w)' => workers'[w].batch = {}
              /\ ~Alive(w)' => workers'[w].queue = <<>>
  <2>1. CASE workers'[w] = workers[w]
    BY <2>1 DEF PlacesInv, Emptied, Resting, Alive
  <2>2. CASE workers'[w] = Waiting
    BY <2>2 DEF Waiting, Unborn, Alive
  <2>3. QED  BY <2>1, <2>2 DEF TakeAsToken, Route, Typed, WorkersTyped
<1>11. Sendable'
  <2>1. CASE TakeAsToken(m) \/ map # None
    BY <1>10, <2>1
       DEF TakeAsToken, Route, NoUpdate, PlacesInv, Sendable, Typed, HandlerTyped
  <2>2. CASE Route(m) /\ map = None
    <3>1. PICK u \in Workers : /\ workers' = [workers EXCEPT ![u] = Waiting]
                               /\ map' = u /\ handler'.tx = u
      BY <2>2, AnyOfIsSubset DEF Route, NoUpdate
    <3>2. Alive(u)'
      BY <3>1 DEF Alive, Waiting, Unborn, Typed, WorkersTyped
    <3>3. QED  BY <3>1, <3>2 DEF Sendable
  <2>3. QED  BY <2>1, <2>2
<1>12. QED  BY <1>6, <1>8, <1>9, <1>10, <1>11 DEF PlacesInv, Emptied

LEMMA SendBook ==
  ASSUME Typed, PlacesInv, Send
  PROVE  PlacesInv' /\ BookStep
<1>1. PICK w \in Workers, m \in Messages : w = handler.tx /\ m = handler.msg
  BY DEF Send, Typed, HandlerTyped
<1>2. /\ fate[m] = "sending" /\ Settle({m}, "queued") /\ handler'.at # "sending"
      /\ workers' = [workers EXCEPT ![w].queue = Append(@, m)]
      /\ Alive(w)
  BY <1>1 DEF Send, PlacesInv, Placed, Sendable, NoUpdate
<1>3. /\ \A v \in Workers \ {w} : workers'[v] = workers[v]
      /\ workers'[w].queue = Append(workers[w].queue, m)
      /\ workers'[w].batch = workers[w].batch
      /\ workers'[w].at = workers[w].at
      /\ workers[w].queue \in Seq(Messages)
  BY <1>2 DEF Typed, WorkersTyped, Worker
<1>4. \A q \in Seq(Messages) : {Append(q, m)[i] : i \in DOMAIN Append(q, m)} =
                               {q[i] : i \in DOMAIN q} \cup {m}
  BY <1>1
<1>5. /\ \A v \in Workers : workers'[v].batch = workers[v].batch
      /\ \A v \in Workers : workers'[v].at = workers[v].at
  BY <1>3
<1>6. Channel(w)' = Channel(w) \cup {m}
  <2>1. Channel(w)' = {Append(workers[w].queue, m)[i] :
                        i \in DOMAIN Append(workers[w].queue, m)}
    <3>1. Channel(w)' = {workers'[w].queue[i] : i \in DOMAIN workers'[w].queue}
      BY DEF Channel
    <3>2. QED  BY <1>3, <3>1
  <2>2. QED  BY <1>3, <1>4, <2>1 DEF Channel
<1>7. \A v \in Workers \ {w} : Channel(v)' = Channel(v)
  BY <1>3 DEF Channel
<1>8. \A v \in Workers : m \notin Channel(v) /\ m \notin workers[v].batch
  BY <1>2 DEF PlacesInv, Placed
<1>9. Apart'
  BY <1>5, <1>6, <1>7, <1>8 DEF PlacesInv, Apart
<1>10. \A k \in Messages : fate'[k] = IF k = m THEN "queued" ELSE fate[k]
  BY <1>2 DEF Settle
<1>11. \A v \in Workers : Channel(v) \subseteq Messages /\ workers[v].batch \subseteq Messages
  BY ChannelTyped DEF Typed
<1>12. Placed'
  <2>1. \A v \in Workers : \A k \in Channel(v)' : fate'[k] = "queued"
    BY <1>6, <1>7, <1>8, <1>10, <1>11 DEF PlacesInv, Placed
  <2>2. \A v \in Workers : \A k \in workers'[v].batch : fate'[k] = "batched"
    BY <1>5, <1>8, <1>10, <1>11 DEF PlacesInv, Placed
  <2>3. QED  BY <1>2, <2>1, <2>2 DEF Placed
<1>13. BookStep
  BY <1>2, MoveMaps DEF Pending
<1>14. Emptied'
  BY <1>2, <1>3, <1>5 DEF PlacesInv, Emptied, Alive, Resting
<1>15. Sendable'
  <2>1. map' = map /\ map \in Workers \cup {None}
    BY DEF Send, Typed, HandlerTyped
  <2>2. QED  BY <1>2, <1>5, <2>1 DEF PlacesInv, Sendable, Alive
<1>16. QED  BY <1>9, <1>12, <1>13, <1>14, <1>15 DEF PlacesInv

LEMMA CloseBatchBook ==
  ASSUME Typed, PlacesInv, NEW w \in Workers, CloseBatch(w)
  PROVE  PlacesInv' /\ BookStep
<1>1. /\ \/ Settle(Channel(w), "batched") /\ workers' =
              [workers EXCEPT ![w].at = "batched", ![w].queue = <<>>, ![w].batch = Channel(w)]
         \/ Settle(Channel(w), "dropped") /\ workers' = [workers EXCEPT ![w].queue = <<>>]
      /\ handler' = handler
  BY DEF CloseBatch, Channel
<1>2. Channel(w) \in SUBSET Messages /\ \A m \in Channel(w) : fate[m] = "queued"
  BY ChannelTyped DEF Typed, PlacesInv, Placed
<1>3. /\ \A v \in Workers \ {w} : workers'[v] = workers[v]
      /\ workers'[w].queue = <<>>
      /\ \/ Settle(Channel(w), "batched") /\ workers'[w].batch = Channel(w)
         \/ Settle(Channel(w), "dropped") /\ workers'[w].batch = workers[w].batch
  BY <1>1 DEF Typed, WorkersTyped, Worker
<1>4. Channel(w)' = {} /\ \A v \in Workers \ {w} : Channel(v)' = Channel(v)
  BY <1>3 DEF Channel
<1>5. \A v \in Workers : \A m \in workers[v].batch : m \notin Channel(w)
  BY <1>2 DEF PlacesInv, Placed
<1>6. Apart'
  BY <1>3, <1>4, <1>5 DEF PlacesInv, Apart
<1>7. /\ \A m \in Messages \ Channel(w) : fate'[m] = fate[m]
      /\ \A m \in Channel(w) : workers'[w].batch = Channel(w) => fate'[m] = "batched"
  BY <1>2, <1>3, <1>5 DEF Settle
<1>8. \A v \in Workers : Channel(v) \subseteq Messages /\ workers[v].batch \subseteq Messages
  BY ChannelTyped DEF Typed
<1>9. ASSUME handler'.at = "sending" PROVE fate'[handler'.msg] = "sending"
  <2>1. fate[handler.msg] = "sending" /\ handler.msg \in Messages
    BY <1>1, <1>9 DEF PlacesInv, Placed, Typed, HandlerTyped
  <2>2. QED  BY <1>1, <1>2, <1>7, <2>1
<1>10. ASSUME NEW v \in Workers
       PROVE  /\ \A m \in Channel(v)' : fate'[m] = "queued"
              /\ \A m \in workers'[v].batch : fate'[m] = "batched"
  <2>1. CASE v = w
    BY <1>3, <1>4, <1>5, <1>7, <1>8, <2>1 DEF PlacesInv, Placed
  <2>2. CASE v # w
    BY <1>3, <1>4, <1>5, <1>7, <1>8, <2>2 DEF PlacesInv, Placed, Apart
  <2>3. QED  BY <2>1, <2>2
<1>11. Placed'
  BY <1>9, <1>10 DEF Placed
<1>12. BookStep
  BY <1>1, <1>2, MoveMaps, SettleMaps DEF Pending
<1>13. workers[w].at = "waiting" /\ workers'[w].at \in {"waiting", "batched"}
       /\ (workers'[w].at = "waiting" => workers'[w].batch = workers[w].batch)
       /\ map' = map
  BY <1>1 DEF CloseBatch, Typed, WorkersTyped, Worker
<1>14. Emptied'
  BY <1>3, <1>13 DEF PlacesInv, Emptied, Alive, Resting
<1>15. Sendable'
  BY <1>1, <1>3, <1>13 DEF PlacesInv, Sendable, Alive, Typed, HandlerTyped
<1>16. QED  BY <1>6, <1>11, <1>12, <1>14, <1>15 DEF PlacesInv

(* An answer, a notice or a background job settles the batch.               *)
LEMMA AnswerBook ==
  ASSUME Typed, PlacesInv, NEW w \in Workers,
         Reply(w) \/ ReplyError(w) \/ Reflect(w) \/ Background(w)
  PROVE  PlacesInv' /\ BookStep
<1>1. workers[w].outcome \notin Pending /\ workers[w].outcome # "unsent"
  BY DEF Typed, WorkersTyped, Worker, Outcomes, Pending
<1>2. PICK f : Settle(workers[w].batch, f) /\ f \notin Pending /\ f # "unsent"
  BY <1>1 DEF Reply, ReplyError, Reflect, Background, Enqueue, Pending
<1>3. Back(w) /\ handler' = handler
  BY DEF Reply, ReplyError, Reflect, Background
<1>4. /\ workers[w].batch \in SUBSET Messages
      /\ \A m \in workers[w].batch : fate[m] = "batched"
  BY ChannelTyped DEF Typed, PlacesInv, Placed
<1>5. /\ \A v \in Workers \ {w} : workers'[v] = workers[v]
      /\ workers'[w].queue = workers[w].queue /\ workers'[w].batch = {}
  BY <1>3 DEF Back, Waiting, Unborn, Typed, WorkersTyped, Worker
<1>6. \A v \in Workers : Channel(v)' = Channel(v)
  BY <1>5 DEF Channel
<1>7. Apart'
  BY <1>5, <1>6 DEF PlacesInv, Apart
<1>8. \A m \in Messages \ workers[w].batch : fate'[m] = fate[m]
  BY <1>2 DEF Settle
<1>9. \A v \in Workers : Channel(v) \subseteq Messages /\ workers[v].batch \subseteq Messages
  BY ChannelTyped DEF Typed
<1>10. ASSUME handler'.at = "sending" PROVE fate'[handler'.msg] = "sending"
  <2>1. fate[handler.msg] = "sending" /\ handler.msg \in Messages
    BY <1>3, <1>10 DEF PlacesInv, Placed, Typed, HandlerTyped
  <2>2. QED  BY <1>3, <1>4, <1>8, <2>1
<1>11. ASSUME NEW v \in Workers
       PROVE  /\ \A m \in Channel(v)' : fate'[m] = "queued"
              /\ \A m \in workers'[v].batch : fate'[m] = "batched"
  <2>1. \A m \in Channel(v) : m \notin workers[w].batch /\ fate[m] = "queued"
    BY <1>4 DEF PlacesInv, Placed
  <2>2. \A m \in workers'[v].batch : m \notin workers[w].batch /\ fate[m] = "batched"
    BY <1>4, <1>5 DEF PlacesInv, Placed, Apart
  <2>3. workers'[v].batch \subseteq Messages
    BY <1>5, <1>9
  <2>4. QED  BY <1>6, <1>8, <1>9, <2>1, <2>2, <2>3
<1>12. Placed'
  BY <1>10, <1>11 DEF Placed
<1>13. BookStep
  BY <1>2, <1>4, SettleMaps DEF Pending
<1>14. Alive(w) /\ workers'[w].at = "waiting" /\ map' = map
  BY <1>3, BackMoves DEF Typed, Reply, ReplyError, Reflect, Background, Alive
<1>15. Emptied'
  BY <1>5, <1>14 DEF PlacesInv, Emptied, Alive, Resting
<1>16. Sendable'
  BY <1>3, <1>5, <1>14 DEF PlacesInv, Sendable, Alive, Typed, HandlerTyped
<1>17. QED  BY <1>7, <1>12, <1>13, <1>15, <1>16 DEF PlacesInv

(* A death settles what the process held as lost.                           *)
LEMMA DieBook ==
  ASSUME Typed, PlacesInv, Die
  PROVE  PlacesInv' /\ BookStep
<1> DEFINE held == {m \in Messages : fate[m] \in InMemory}
<1>1. Settle(held, "lost") /\ handler'.at # "sending"
  BY DEF Die, NoUpdate
<1>2. BookStep
  BY <1>1, SettleMaps DEF Pending, InMemory
<1>3. ASSUME NEW w \in Workers
      PROVE  /\ workers'[w].queue = <<>> /\ workers'[w].batch = {}
             /\ Channel(w)' = {}
  <2>1. CASE Alive(w)
    <3>1. workers'[w] = [Unborn EXCEPT !.at = "exited"]
      BY <2>1 DEF Die
    <3>2. workers'[w].queue = <<>> /\ workers'[w].batch = {}
      BY <3>1 DEF Unborn
    <3>3. QED  BY <3>2 DEF Channel
  <2>2. CASE ~Alive(w)
    <3>1. workers'[w] = workers[w]
      BY <2>2 DEF Die
    <3>2. workers'[w].queue = <<>> /\ workers'[w].batch = {}
      BY <2>2, <3>1 DEF PlacesInv, Emptied, Alive, Resting
    <3>3. QED  BY <3>2 DEF Channel
  <2>3. QED  BY <2>1, <2>2
<1>4. map' = None
  BY DEF Die
<1>5. QED
  BY <1>1, <1>2, <1>3, <1>4 DEF PlacesInv, Placed, Apart, Emptied, Sendable

LEMMA NextBook ==
  ASSUME Typed, PlacesInv, [Next]_vars
  PROVE  PlacesInv' /\ BookStep
<1>1. ASSUME NEW w \in Workers, WorkerSteps(w) \/ ProcessSteps(w)
      PROVE  PlacesInv' /\ BookStep
  BY <1>1, TurnUntouched, UntouchedKeeps, CloseBatchBook, AnswerBook
     DEF WorkerSteps, TurnSteps
<1>2. CASE UserSteps \/ HandlerSteps
  BY <1>2, DispatcherUntouched, UntouchedKeeps, RouteBook, SendBook
     DEF UserSteps, HandlerSteps
<1>3. CASE Die
  BY <1>3, DieBook
<1>4. CASE \/ LoginSteps \/ LoginTimesOut \/ DeliveryLooksUp \/ DeliverySteps
           \/ SweepLocks \/ UpgradeStarts \/ UpgradeEnds \/ UNCHANGED vars
  BY <1>4, DispatcherUntouched, UntouchedKeeps
<1>5. QED  BY <1>1, <1>2, <1>3, <1>4 DEF Next

LEMMA InitBook == Init => PlacesInv /\ Book!Init
  BY DEF Init, PlacesInv, Placed, Apart, Emptied, Sendable, Channel, Unborn, NoUpdate,
         Book!Init, Ledger

(* Every message is taken once, and settled once and for ever, whatever the *)
(* user, the failures and the deaths of the process: the conversation       *)
(* implements MessageBook, up to its liveness, which TLC checks (KeepsBook).*)
THEOREM ImplementsBook == SafetySpec => Book!Init /\ [][Book!Next]_Ledger
<1>1. Init => PlacesInv /\ Book!Init
  BY InitBook
<1>2. ConversationInv /\ PlacesInv /\ [Next]_vars =>
        PlacesInv' /\ [Book!Next]_Ledger
  BY NextBook DEF ConversationInv, BookStep
<1>3. QED  BY <1>1, <1>2, ConversationInvariant, PTL DEF SafetySpec
=============================================================================
