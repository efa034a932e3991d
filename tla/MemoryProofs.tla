----------------------------- MODULE MemoryProofs -----------------------------
(***************************************************************************)
(* The breakers keep what they promise, and a retain that was queued is    *)
(* not lost silently: for all numbers of calls, payloads and processes,    *)
(* and all limits.                                                         *)
(***************************************************************************)
EXTENDS Memory, FiniteSetTheorems, TLAPS

(* What BreakerInv says of one breaker.                                    *)
Sound(b) ==
  /\ b.state = "closed" => Len(b.failures) < Threshold
  /\ b.last \in InitialOpen .. MaxOpen \cup {AuthOpen}
  /\ b.state = "open" => b.until <= now + b.last

(* What OpeningLasts says of a step.                                       *)
OpeningStep ==
  \A p \in Procs :
    breaker[p].state = "open" /\ now < breaker[p].until =>
      \/ breaker'[p].state = "open" /\ breaker'[p].until >= breaker[p].until
      \/ p = "bot" /\ deaths' # deaths

-----------------------------------------------------------------------------
(* The breaker: what its operations return.                                *)

(* Eviction shortens the list of failures.                                 *)
LEMMA RecentShortens ==
  ASSUME NEW f \in Seq(Nat), now \in Nat
  PROVE  Recent(f) \in Seq(Nat) /\ Len(Recent(f)) <= Len(f)
<1> DEFINE stale == {i \in 1 .. Len(f) : \A j \in 1 .. i : f[j] < now - Window}
<1>1. Len(f) \in Nat
  OBVIOUS
<1>2. IsFiniteSet(1 .. Len(f)) /\ Cardinality(1 .. Len(f)) = Len(f)
  <2>1. /\ IsFiniteSet(1 .. Len(f))
        /\ Cardinality(1 .. Len(f)) = IF 1 > Len(f) THEN 0 ELSE Len(f) - 1 + 1
    BY <1>1, FS_Interval
  <2> QED
    BY <1>1, <2>1
<1>3. IsFiniteSet(stale) /\ Cardinality(stale) <= Len(f)
  BY <1>2, FS_Subset
<1>4. Cardinality(stale) \in Nat
  BY <1>3, FS_CardinalityType
<1> HIDE DEF stale
<1>5. LET s == SubSeq(f, Cardinality(stale) + 1, Len(f))
      IN  s \in Seq(Nat) /\ Len(s) <= Len(f)
  BY <1>1, <1>3, <1>4
<1> QED
  BY <1>5 DEF Recent, stale

(* A refresh keeps a breaker sound, and one that is open and not due open. *)
LEMMA RefreshKeeps ==
  ASSUME NEW b \in BreakerType, Sound(b), now \in Nat
  PROVE  /\ Refresh(b) \in BreakerType /\ Sound(Refresh(b))
         /\ b.state = "open" /\ now < b.until =>
              Refresh(b).state = "open" /\ Refresh(b).until = b.until
         /\ Refresh(b).last = b.last
<1>1. Recent(b.failures) \in Seq(Nat) /\ Len(Recent(b.failures)) <= Len(b.failures)
  BY RecentShortens DEF BreakerType
<1>2. Len(b.failures) \in Nat /\ Len(Recent(b.failures)) \in Nat /\ Threshold \in Nat
  BY <1>1, MemoryAssumption DEF BreakerType
<1> QED
  <2> DEFINE r == Refresh(b)
             due == b.state = "open" /\ now >= b.until
  <2>1. /\ r \in BreakerType
        /\ r.state = IF due THEN "half" ELSE b.state
        /\ r.until = IF due THEN 0 ELSE b.until
        /\ r.failures = Recent(b.failures) /\ r.last = b.last
    BY <1>1 DEF Refresh, BreakerType
  <2> HIDE DEF r
  <2>2. Sound(r)
    BY <1>1, <1>2, <2>1 DEF Sound
  <2>3. b.state = "open" /\ now < b.until => r.state = "open" /\ r.until = b.until
    BY <2>1 DEF BreakerType
  <2> QED
    BY <2>1, <2>2, <2>3 DEF r

(* An opening of one of the permitted lengths is sound.                    *)
LEMMA OpenedIsOpen ==
  ASSUME NEW b \in BreakerType, NEW d \in Nat, now \in Nat,
         d \in InitialOpen .. MaxOpen \cup {AuthOpen}
  PROVE  /\ Opened(b, d) \in BreakerType /\ Sound(Opened(b, d))
         /\ Opened(b, d).state = "open" /\ Opened(b, d).until = now + d
<1> DEFINE o == Opened(b, d)
<1>1. now + d \in Nat
  OBVIOUS
<1>2. DOMAIN b = {"state", "until", "failures", "last"}
  BY DEF BreakerType
<1>3. o.state = "open" /\ o.until = now + d /\ o.last = d /\ o.failures = b.failures
  BY <1>2 DEF Opened
<1>4. o \in BreakerType
  BY <1>1 DEF BreakerType, Opened
<1>5. Sound(o)
  BY <1>1, <1>3 DEF Sound
<1> QED
  BY <1>3, <1>4, <1>5

(* To record an outcome does so as well.                                   *)
LEMMA RecordKeeps ==
  ASSUME NEW b \in BreakerType, Sound(b), now \in Nat, NEW outcome
  PROVE  /\ Record(b, outcome) \in BreakerType /\ Sound(Record(b, outcome))
         /\ b.state = "open" /\ now < b.until =>
              /\ Record(b, outcome).state = "open"
              /\ Record(b, outcome).until >= b.until
<1> DEFINE r == Refresh(b)
<1>1. /\ r \in BreakerType /\ Sound(r) /\ r.last = b.last
      /\ b.state = "open" /\ now < b.until => r.state = "open" /\ r.until = b.until
  BY RefreshKeeps
<1> HIDE DEF r
<1>2. Append(r.failures, now) \in Seq(Nat) /\ Len(r.failures) \in Nat
  BY <1>1 DEF BreakerType
<1>3. CASE outcome = "ok"
  <2>1. Fresh \in BreakerType /\ Sound(Fresh)
    BY MemoryAssumption DEF Fresh, BreakerType, Sound
  <2> QED
    BY <1>1, <1>3, <2>1 DEF Record, RecordSuccess, r, BreakerType
<1>4. CASE outcome = "auth"
  <2>1. Record(b, outcome) = Opened(r, AuthOpen)
    BY <1>4 DEF Record, r
  <2>2. AuthOpen \in Nat /\ MaxOpen <= AuthOpen /\ MaxOpen \in Nat
        /\ InitialOpen \in Nat /\ InitialOpen <= MaxOpen
    BY MemoryAssumption
  <2>3. b.until \in Nat /\ b.last \in Nat
    BY DEF BreakerType
  <2>4. b.state = "open" => b.until <= now + AuthOpen
    BY <2>2, <2>3 DEF Sound
  <2> QED
    BY <1>1, <2>1, <2>2, <2>3, <2>4, OpenedIsOpen DEF Sound
<1>5. CASE outcome = "client"
  BY <1>1, <1>5 DEF Record, r, BreakerType
<1>6. CASE outcome \notin {"ok", "auth", "client"}
  <2> DEFINE pushed == [r EXCEPT !.failures = Append(@, now)]
  <2>1. /\ pushed \in BreakerType /\ pushed.state = r.state /\ pushed.until = r.until
        /\ pushed.last = r.last
    BY <1>1, <1>2 DEF BreakerType
  <2> HIDE DEF pushed
  <2>2. CASE r.state = "closed" /\ Len(pushed.failures) >= Threshold
    <3>1. Record(b, outcome) = Opened(pushed, InitialOpen)
      BY <1>6, <2>2 DEF Record, RecordFailure, r, pushed
    <3> QED
      BY <1>1, <2>1, <2>2, <3>1, OpenedIsOpen, MemoryAssumption DEF Sound
  <2>3. CASE r.state = "half"
    <3> DEFINE d == AtMost(2 * r.last, MaxOpen)
    <3>1. Record(b, outcome) = Opened(pushed, d)
      BY <1>6, <2>1, <2>3 DEF Record, RecordFailure, r, pushed
    <3>2. d \in Nat /\ d \in InitialOpen .. MaxOpen
      <4>1. r.last \in Nat /\ r.last \in InitialOpen .. MaxOpen \cup {AuthOpen}
        BY <1>1 DEF BreakerType, Sound
      <4> QED
        BY <4>1, MemoryAssumption DEF AtMost
    <3> HIDE DEF d
    <3> QED
      BY <1>1, <2>1, <2>3, <3>1, <3>2, OpenedIsOpen DEF Sound
  <2>4. CASE r.state = "open" \/ (r.state = "closed" /\ ~(Len(pushed.failures) >= Threshold))
    <3>1. Record(b, outcome) = pushed
      BY <1>6, <2>1, <2>4 DEF Record, RecordFailure, r, pushed
    <3>2. Len(pushed.failures) \in Nat /\ Threshold \in Nat
      BY <2>1, MemoryAssumption DEF BreakerType
    <3>3. Sound(pushed)
      BY <1>1, <2>1, <2>4, <3>2 DEF Sound
    <3> QED
      BY <1>1, <2>1, <3>1, <3>3 DEF BreakerType
  <2> QED
    BY <1>1, <2>2, <2>3, <2>4 DEF BreakerType
<1> QED
  BY <1>3, <1>4, <1>5, <1>6
-----------------------------------------------------------------------------
(* Types.                                                                  *)

LEMMA IdleType == Idle \in CallType
BY DEF Idle, CallType, Stages, Outcomes

LEMMA ReturnedType ==
  ASSUME NEW call \in CallType PROVE Returned(call) \in CallType
<1>1. "returned" \in Stages /\ "closed" \in {"closed", "open", "half"} /\ 0 \in Nat
  BY DEF Stages
<1>2. [call EXCEPT !.at = "returned", !.read = "closed", !.left = 0] \in CallType
  BY <1>1 DEF CallType
<1> QED
  BY <1>2, IdleType DEF Returned

LEMMA BeginType ==
  ASSUME TypeOK, NEW c \in Calls, NEW what \in {"recall", "retain", "probe", "drain"},
         NEW item \in Items \cup {NoItem}, NEW attempts \in Nat,
         Begin(c, what, item, attempts)
  PROVE  calls' \in [Calls -> CallType]
<1>1. [Idle EXCEPT !.at = "admitting", !.what = what, !.item = item, !.left = attempts]
        \in CallType
  BY DEF Idle, CallType, Stages, Outcomes
<1> QED
  BY <1>1 DEF Begin, TypeOK

LEMMA WithoutType ==
  ASSUME TypeOK, NEW x PROVE Without(x) \in Seq(RowType)
<1>1. CASE x \notin Queued
  BY <1>1 DEF Without, TypeOK
<1>2. CASE x \in Queued
  <2> DEFINE i == CHOOSE i \in DOMAIN queue : queue[i].item = x
  <2>1. i \in 1 .. Len(queue)
    BY <1>2 DEF Queued, TypeOK
  <2> HIDE DEF i
  <2>2. SubSeq(queue, 1, i - 1) \o SubSeq(queue, i + 1, Len(queue)) \in Seq(RowType)
    BY <2>1 DEF TypeOK
  <2> QED
    BY <1>2, <2>2 DEF Without, i
<1> QED
  BY <1>1, <1>2

LEMMA EnqueueType ==
  ASSUME TypeOK, NEW x \in Items, Enqueue(x)
  PROVE  queue' \in Seq(RowType) /\ dropped' \subseteq Items
<1> DEFINE first == IF Len(queue) < QueueCap THEN 1 ELSE Len(queue) - QueueCap + 2
           kept  == SubSeq(queue, first, Len(queue))
<1>1. Len(queue) \in Nat /\ first \in 1 .. Len(queue) + 1
  BY MemoryAssumption DEF TypeOK
<1>2. kept \in Seq(RowType)
  BY <1>1 DEF TypeOK
<1>3. [item |-> x, since |-> now] \in RowType
  BY DEF RowType, TypeOK
<1> HIDE DEF first
<1>4. queue' = Append(kept, [item |-> x, since |-> now])
  BY DEF Enqueue, first
<1>5. dropped' \subseteq dropped \cup Queued
  <2>1. Len(queue) - Len(kept) <= Len(queue)
    BY <1>1, <1>2
  <2>2. 1 .. Len(queue) - Len(kept) \subseteq DOMAIN queue
    BY <1>1, <1>2, <2>1 DEF TypeOK
  <2> QED
    BY <2>2 DEF Enqueue, first, Queued
<1>6. Queued \subseteq Items
  <2>1. \A i \in DOMAIN queue : queue[i] \in RowType
    BY DEF TypeOK
  <2> QED
    BY <2>1 DEF Queued, RowType
<1> QED
  BY <1>2, <1>3, <1>4, <1>5, <1>6 DEF TypeOK

(* The breakers of all processes, at each step of any action.              *)
LEMMA SameBreakers ==
  ASSUME TypeOK, BreakerInv, UNCHANGED <<breaker, now>>
  PROVE  breaker' \in [Procs -> BreakerType] /\ BreakerInv' /\ OpeningStep
BY DEF TypeOK, BreakerInv, OpeningStep, BreakerType

(* A process replaces its breaker by one that is as good.                  *)
LEMMA NewBreaker ==
  ASSUME TypeOK, BreakerInv, NEW p \in Procs, NEW b \in BreakerType, Sound(b),
         breaker[p].state = "open" /\ now < breaker[p].until =>
           b.state = "open" /\ b.until >= breaker[p].until,
         breaker' = [breaker EXCEPT ![p] = b], now' = now
  PROVE  breaker' \in [Procs -> BreakerType] /\ BreakerInv' /\ OpeningStep
<1>1. \A q \in Procs : breaker'[q] = IF q = p THEN b ELSE breaker[q]
  BY DEF TypeOK
<1>2. breaker' \in [Procs -> BreakerType]
  BY DEF TypeOK
<1>3. BreakerInv'
  BY <1>1 DEF BreakerInv, Sound
<1>4. OpeningStep
  BY <1>1 DEF OpeningStep, TypeOK, BreakerType
<1> QED
  BY <1>2, <1>3, <1>4

LEMMA BreakersKeep ==
  ASSUME TypeOK, BreakerInv, [Next]_vars
  PROVE  breaker' \in [Procs -> BreakerType] /\ BreakerInv' /\ OpeningStep
<1>1. now \in Nat /\ \A p \in Procs : breaker[p] \in BreakerType /\ Sound(breaker[p])
  BY MemoryAssumption DEF TypeOK, BreakerInv, Sound
<1>2. \A c \in Calls : ProcOf[c] \in Procs
  BY MemoryAssumption
<1>3. ASSUME NEW c \in Calls, Admit(c) \/ ReadBreaker(c)
      PROVE  breaker' \in [Procs -> BreakerType] /\ BreakerInv' /\ OpeningStep
  <2>1. breaker' = [breaker EXCEPT ![ProcOf[c]] = Refresh(breaker[ProcOf[c]])] /\ now' = now
    BY <1>3 DEF Admit, ReadBreaker
  <2>2. breaker[ProcOf[c]] \in BreakerType /\ Sound(breaker[ProcOf[c]])
    BY <1>1, <1>2
  <2> DEFINE b == Refresh(breaker[ProcOf[c]])
  <2>3. /\ b \in BreakerType /\ Sound(b)
        /\ breaker[ProcOf[c]].state = "open" /\ now < breaker[ProcOf[c]].until =>
             b.state = "open" /\ b.until = breaker[ProcOf[c]].until
    BY <1>1, <2>2, RefreshKeeps
  <2>4. breaker[ProcOf[c]].until \in Nat
    BY <2>2 DEF BreakerType
  <2> HIDE DEF b
  <2>5. breaker[ProcOf[c]].state = "open" /\ now < breaker[ProcOf[c]].until =>
          b.state = "open" /\ b.until >= breaker[ProcOf[c]].until
    BY <2>3, <2>4
  <2>6. breaker' = [breaker EXCEPT ![ProcOf[c]] = b]
    BY <2>1 DEF b
  <2> QED
    BY <1>2, <2>1, <2>3, <2>5, <2>6, NewBreaker
<1>4. ASSUME NEW c \in Calls, NEW o, Answer(c, o)
      PROVE  breaker' \in [Procs -> BreakerType] /\ BreakerInv' /\ OpeningStep
  <2>1. breaker' = [breaker EXCEPT ![ProcOf[c]] = Record(breaker[ProcOf[c]], o)] /\ now' = now
    BY <1>4 DEF Answer
  <2> QED
    BY <1>1, <1>2, <2>1, RecordKeeps, NewBreaker
<1>5. CASE Restart
  <2>1. Fresh \in BreakerType /\ Sound(Fresh)
    BY MemoryAssumption DEF Fresh, BreakerType, Sound
  <2>2. breaker' = [breaker EXCEPT !["bot"] = Fresh] /\ now' = now /\ deaths' # deaths
    BY <1>5, MemoryAssumption DEF Restart, TypeOK
  <2>3. \A p \in Procs : breaker'[p] = IF p = "bot" THEN Fresh ELSE breaker[p]
    BY <2>2 DEF TypeOK
  <2>4. breaker' \in [Procs -> BreakerType]
    BY <2>1, <2>2 DEF TypeOK
  <2>5. BreakerInv'
    BY <1>1, <2>1, <2>2, <2>3 DEF BreakerInv, Sound
  <2>6. OpeningStep
    BY <1>1, <2>2, <2>3 DEF OpeningStep, BreakerType
  <2> QED
    BY <2>4, <2>5, <2>6
<1>6. CASE Tick
  <2>1. breaker' = breaker /\ now' = now + 1
    BY <1>6 DEF Tick
  <2>2. \A p \in Procs : breaker[p].until \in Nat /\ breaker[p].last \in Nat
    BY <1>1 DEF BreakerType
  <2> QED
    BY <1>1, <2>1, <2>2 DEF BreakerInv, Sound, OpeningStep, TypeOK
<1>7. CASE UNCHANGED vars
  BY <1>7, SameBreakers DEF vars
<1>8. ASSUME NEW c \in Calls,
             \/ Recall(c) \/ \E x \in Items : Retain(c, x)
             \/ Resume(c) \/ PublishStatus(c) \/ EndRetain(c) \/ Reply(c)
      PROVE  UNCHANGED <<breaker, now>>
  BY <1>8 DEF Recall, Retain, Resume, PublishStatus, EndRetain, Reply
<1>9. CASE Probe \/ EndProbe \/ LoadBatch \/ DropAged \/ DrainOne \/ EndDrain \/ WatchStatus
           \/ SendAlert \/ RecordAlert
  BY <1>9, SameBreakers DEF Probe, EndProbe, LoadBatch, DropAged, DrainOne, EndDrain,
                            WatchStatus, SendAlert, RecordAlert
<1> QED
  BY <1>3, <1>4, <1>5, <1>6, <1>7, <1>8, <1>9, SameBreakers DEF Next

-----------------------------------------------------------------------------
(* Calls, queue and the rest keep their types.                             *)

LEMMA HeadRowType ==
  ASSUME TypeOK, batch # <<>> PROVE HeadRow \in BatchType /\ HeadRow.item \in Items
<1>1. 1 \in DOMAIN batch
  BY DEF TypeOK
<1>2. HeadRow \in BatchType
  BY <1>1 DEF HeadRow, TypeOK
<1> QED
  BY <1>2 DEF BatchType

RetainsItems ==
  \A c \in Calls : calls[c].what = "retain" => calls[c].item \in Items

LEMMA RecallType ==
  ASSUME TypeOK, NEW c \in Calls, Recall(c), breaker' \in [Procs -> BreakerType] PROVE TypeOK'
<1>1. calls' \in [Calls -> CallType]
  BY BeginType DEF Recall
<1>2. queue' \in Seq(RowType) /\ batch' \in Seq(BatchType)
  BY DEF Recall, TypeOK
<1> QED
  BY <1>1, <1>2, MemoryAssumption DEF Recall, TypeOK

LEMMA RetainType ==
  ASSUME TypeOK, NEW c \in Calls, NEW x \in Items, Retain(c, x),
         breaker' \in [Procs -> BreakerType]
  PROVE  TypeOK'
<1>1. calls' \in [Calls -> CallType]
  BY BeginType, MemoryAssumption DEF Retain
<1>2. queue' \in Seq(RowType) /\ batch' \in Seq(BatchType)
  BY DEF Retain, TypeOK
<1> QED
  BY <1>1, <1>2, MemoryAssumption DEF Retain, TypeOK

LEMMA ProbeType ==
  ASSUME TypeOK, Probe, breaker' \in [Procs -> BreakerType] PROVE TypeOK'
<1>1. calls' \in [Calls -> CallType]
  BY BeginType, MemoryAssumption DEF Probe
<1>2. queue' \in Seq(RowType) /\ batch' \in Seq(BatchType)
  BY DEF Probe, TypeOK
<1> QED
  BY <1>1, <1>2, MemoryAssumption DEF Probe, TypeOK

LEMMA AdmitType ==
  ASSUME TypeOK, NEW c \in Calls, Admit(c), breaker' \in [Procs -> BreakerType] PROVE TypeOK'
<1>1. calls' \in [Calls -> CallType]
  <2>1. PICK at \in Stages, result \in Outcomes :
          calls' = [calls EXCEPT ![c].at = at, ![c].result = result]
    <3>1. calls[c].result \in Outcomes
      BY DEF TypeOK, CallType
    <3> QED
      BY <3>1 DEF Admit, Stages, Outcomes
  <2>2. [calls[c] EXCEPT !.at = at, !.result = result] \in CallType
    BY DEF TypeOK, CallType
  <2> QED
    BY <2>1, <2>2 DEF TypeOK
<1>2. queue' \in Seq(RowType) /\ batch' \in Seq(BatchType)
  BY DEF Admit, TypeOK
<1> QED
  BY <1>1, <1>2, MemoryAssumption DEF Admit, TypeOK

LEMMA AnswerType ==
  ASSUME TypeOK, NEW c \in Calls, NEW o \in Kinds \cup {"ok"}, Answer(c, o),
         breaker' \in [Procs -> BreakerType]
  PROVE  TypeOK'
<1>1. calls' \in [Calls -> CallType]
  <2>1. [calls[c] EXCEPT !.result = o] \in CallType
    BY DEF TypeOK, CallType, Outcomes
  <2>2. calls[c].left > 0 =>
          [[calls[c] EXCEPT !.result = o] EXCEPT !.at = "pausing", !.left = @ - 1] \in CallType
    <3>1. calls[c].left > 0 => calls[c].left - 1 \in Nat
      BY DEF TypeOK, CallType
    <3>2. "pausing" \in Stages
      BY DEF Stages
    <3> QED
      BY <2>1, <3>1, <3>2 DEF CallType
  <2>3. [[calls[c] EXCEPT !.result = o] EXCEPT !.at = "recorded"] \in CallType
    BY <2>1 DEF CallType, Stages
  <2> QED
    BY <2>1, <2>2, <2>3, ReturnedType DEF Answer, TypeOK
<1>2. queue' \in Seq(RowType) /\ batch' \in Seq(BatchType)
  BY DEF Answer, TypeOK
<1>3. stored' \subseteq Items
  <2>1. calls[c].item \in Items \cup {NoItem}
    BY DEF TypeOK, CallType
  <2> QED
    BY <2>1 DEF Answer, TypeOK
<1>4. faults' \in 0 .. MaxFaults
  <2>1. faults \in 0 .. MaxFaults /\ MaxFaults \in Nat /\ deaths \in Nat
    BY MemoryAssumption DEF TypeOK
  <2>2. faults' = faults \/ (faults < MaxFaults /\ faults' = faults + 1)
    BY DEF Answer
  <2> QED
    BY <2>1, <2>2
<1> QED
  BY <1>1, <1>2, <1>3, <1>4, MemoryAssumption DEF Answer, TypeOK

LEMMA ResumeType ==
  ASSUME TypeOK, NEW c \in Calls, Resume(c), breaker' \in [Procs -> BreakerType] PROVE TypeOK'
<1>1. calls' \in [Calls -> CallType]
  <2>1. "admitting" \in Stages /\ "none" \in Outcomes
    BY DEF Stages, Outcomes
  <2>2. [calls[c] EXCEPT !.at = "admitting", !.result = "none"] \in CallType
    BY <2>1 DEF TypeOK, CallType
  <2> QED
    BY <2>2 DEF Resume, TypeOK
<1>2. queue' \in Seq(RowType) /\ batch' \in Seq(BatchType)
  BY DEF Resume, TypeOK
<1> QED
  BY <1>1, <1>2, MemoryAssumption DEF Resume, TypeOK

LEMMA ReadBreakerType ==
  ASSUME TypeOK, NEW c \in Calls, ReadBreaker(c), breaker' \in [Procs -> BreakerType]
  PROVE  TypeOK'
<1>1. calls' \in [Calls -> CallType]
  <2>1. Refresh(breaker[ProcOf[c]]).state \in {"closed", "open", "half"}
    BY MemoryAssumption DEF Refresh, TypeOK, BreakerType
  <2>2. "reading" \in Stages
    BY DEF Stages
  <2>3. [calls[c] EXCEPT !.at = "reading",
                        !.read = Refresh(breaker[ProcOf[c]]).state] \in CallType
    BY <2>1, <2>2 DEF TypeOK, CallType
  <2> QED
    BY <2>3 DEF ReadBreaker, TypeOK
<1>2. queue' \in Seq(RowType) /\ batch' \in Seq(BatchType)
  BY DEF ReadBreaker, TypeOK
<1> QED
  BY <1>1, <1>2, MemoryAssumption DEF ReadBreaker, TypeOK

LEMMA PublishStatusType ==
  ASSUME TypeOK, NEW c \in Calls, PublishStatus(c), breaker' \in [Procs -> BreakerType]
  PROVE  TypeOK'
<1>1. calls' \in [Calls -> CallType]
  BY ReturnedType DEF PublishStatus, TypeOK
<1>2. queue' \in Seq(RowType) /\ batch' \in Seq(BatchType)
  BY DEF PublishStatus, TypeOK
<1> QED
  BY <1>1, <1>2, MemoryAssumption DEF PublishStatus, Published, TypeOK

LEMMA EndRetainType ==
  ASSUME TypeOK, NEW c \in Calls, RetainsItems, EndRetain(c),
         breaker' \in [Procs -> BreakerType]
  PROVE  TypeOK'
<1>1. calls' \in [Calls -> CallType]
  <2>1. [calls[c] EXCEPT !.at = "replying"] \in CallType
    BY ZenonT(30) DEF TypeOK, CallType, Stages
  <2> QED
    BY <2>1, IdleType DEF EndRetain, TypeOK
<1>2. queue' \in Seq(RowType) /\ batch' \in Seq(BatchType)
  <2>1. calls[c].item \in Items
    BY DEF EndRetain, RetainsItems
  <2>2. UNCHANGED queue \/ Enqueue(calls[c].item)
    BY DEF EndRetain, EnqueueFails
  <2> QED
    BY <2>1, <2>2, EnqueueType DEF EndRetain, TypeOK
<1>3. dropped' \subseteq Items /\ refused' \subseteq Items
  <2>1. calls[c].item \in Items
    BY DEF EndRetain, RetainsItems
  <2>2. CASE UNCHANGED <<dropped, refused>>
    BY <2>2 DEF TypeOK
  <2>3. CASE Enqueue(calls[c].item) /\ UNCHANGED refused
    BY <2>1, <2>3, EnqueueType DEF TypeOK
  <2>4. CASE refused' = refused \cup {calls[c].item} /\ UNCHANGED dropped
    BY <2>1, <2>4 DEF TypeOK
  <2> QED
    BY <2>2, <2>3, <2>4 DEF EndRetain, EnqueueFails
<1>4. faults' \in 0 .. MaxFaults
  <2>1. \/ faults' = faults
        \/ faults < MaxFaults /\ faults' = faults + 1
    BY DEF EndRetain, EnqueueFails
  <2> QED
    BY <2>1, MemoryAssumption DEF TypeOK
<1> QED
  BY <1>1, <1>2, <1>3, <1>4, MemoryAssumption DEF EndRetain, TypeOK

LEMMA ReplyType ==
  ASSUME TypeOK, NEW c \in Calls, Reply(c), breaker' \in [Procs -> BreakerType] PROVE TypeOK'
<1>1. calls' \in [Calls -> CallType]
  BY IdleType DEF Reply, TypeOK
<1>2. queue' \in Seq(RowType) /\ batch' \in Seq(BatchType)
  BY DEF Reply, TypeOK
<1> QED
  BY <1>1, <1>2, MemoryAssumption DEF Reply, TypeOK

LEMMA EndProbeType ==
  ASSUME TypeOK, EndProbe, breaker' \in [Procs -> BreakerType] PROVE TypeOK'
<1>1. calls' \in [Calls -> CallType]
  BY IdleType DEF EndProbe, TypeOK
<1>2. queue' \in Seq(RowType) /\ batch' \in Seq(BatchType)
  BY DEF EndProbe, TypeOK
<1> QED
  BY <1>1, <1>2, MemoryAssumption DEF EndProbe, TypeOK

LEMMA LoadBatchType ==
  ASSUME TypeOK, LoadBatch, breaker' \in [Procs -> BreakerType] PROVE TypeOK'
<1>1. calls' \in [Calls -> CallType]
  BY DEF LoadBatch, TypeOK
<1>2. queue' \in Seq(RowType) /\ batch' \in Seq(BatchType)
  <2>1. AtMost(DrainBatch, Len(queue)) \in 0 .. Len(queue)
    BY MemoryAssumption DEF AtMost, TypeOK
  <2>2. \A i \in DOMAIN queue :
          [item |-> queue[i].item, aged |-> now - queue[i].since > MaxAge] \in BatchType
    <3> SUFFICES ASSUME NEW i \in DOMAIN queue
                 PROVE  [item |-> queue[i].item, aged |-> now - queue[i].since > MaxAge]
                          \in BatchType
      OBVIOUS
    <3>1. queue[i] \in RowType
      BY DEF TypeOK
    <3>2. queue[i].item \in Items
      BY <3>1 DEF RowType
    <3> QED
      BY <3>2 DEF BatchType
  <2>3. batch' \in [1 .. AtMost(DrainBatch, Len(queue)) -> BatchType]
    BY <2>1, <2>2 DEF LoadBatch, TypeOK
  <2>4. AtMost(DrainBatch, Len(queue)) \in Nat
    BY <2>1 DEF TypeOK
  <2>5. batch' \in Seq(BatchType)
    BY <2>3, <2>4
  <2> QED
    BY <2>5 DEF LoadBatch, TypeOK
<1> QED
  BY <1>1, <1>2, MemoryAssumption DEF LoadBatch, TypeOK

LEMMA DropAgedType ==
  ASSUME TypeOK, DropAged, breaker' \in [Procs -> BreakerType] PROVE TypeOK'
<1>1. calls' \in [Calls -> CallType]
  BY DEF DropAged, TypeOK
<1>2. queue' \in Seq(RowType) /\ batch' \in Seq(BatchType)
  BY WithoutType DEF DropAged, TypeOK
<1>3. HeadRow.item \in Items
  BY HeadRowType DEF DropAged
<1> QED
  BY <1>1, <1>2, <1>3, MemoryAssumption DEF DropAged, TypeOK

LEMMA DrainOneType ==
  ASSUME TypeOK, DrainOne, breaker' \in [Procs -> BreakerType] PROVE TypeOK'
<1>1. calls' \in [Calls -> CallType]
  <2>1. HeadRow.item \in Items
    BY HeadRowType DEF DrainOne
  <2> QED
    BY <2>1, BeginType, MemoryAssumption DEF DrainOne
<1>2. queue' \in Seq(RowType) /\ batch' \in Seq(BatchType)
  BY DEF DrainOne, TypeOK
<1> QED
  BY <1>1, <1>2, MemoryAssumption DEF DrainOne, TypeOK

LEMMA EndDrainType ==
  ASSUME TypeOK, batch # <<>>, EndDrain, breaker' \in [Procs -> BreakerType] PROVE TypeOK'
<1>1. calls' \in [Calls -> CallType]
  BY IdleType DEF EndDrain, TypeOK
<1>2. queue' \in Seq(RowType) /\ batch' \in Seq(BatchType)
  BY WithoutType DEF EndDrain, TypeOK
<1>3. HeadRow.item \in Items
  BY HeadRowType
<1> QED
  BY <1>1, <1>2, <1>3, MemoryAssumption DEF EndDrain, TypeOK

LEMMA WatcherType ==
  ASSUME TypeOK, WatchStatus \/ SendAlert \/ RecordAlert, breaker' \in [Procs -> BreakerType]
  PROVE  TypeOK'
<1> USE DEF WatchStatus, SendAlert, RecordAlert
<1>1. calls' \in [Calls -> CallType]
  BY DEF TypeOK
<1>2. queue' \in Seq(RowType) /\ batch' \in Seq(BatchType)
  BY DEF TypeOK
<1>3. /\ alert' \in Nat \cup {Never} /\ sentAt' \in Nat \cup {Never}
      /\ watch' \in {"idle", "sending", "recording"} /\ faults' \in 0 .. MaxFaults
  BY MemoryAssumption DEF Never, TypeOK
<1> QED
  BY <1>1, <1>2, <1>3, MemoryAssumption DEF TypeOK

LEMMA RestartType ==
  ASSUME TypeOK, RetainsItems, Restart, breaker' \in [Procs -> BreakerType] PROVE TypeOK'
<1>1. calls' \in [Calls -> CallType]
  <2>1. Probing \in CallType
    <3>1. Retries[Prober] \in Nat /\ "admitting" \in Stages
      BY MemoryAssumption DEF Stages
    <3> QED
      BY <3>1, IdleType DEF Probing, CallType
  <2> QED
    BY <2>1, IdleType DEF Restart, TypeOK
<1>2. queue' \in Seq(RowType) /\ batch' \in Seq(BatchType)
  BY DEF Restart, TypeOK
<1>3. dropped' \subseteq Items
  <2>1. \A c \in Calls : calls[c].what = "retain" => calls[c].item \in Items
    BY DEF RetainsItems
  <2> QED
    BY <2>1 DEF Restart, TypeOK
<1>4. status' \in [Procs -> {"healthy", "degraded", "auth"}] /\ seen' \in BOOLEAN
  BY DEF Restart, TypeOK
<1>5. /\ alert' \in Nat \cup {Never} /\ sentAt' \in Nat \cup {Never} /\ watch' = "idle"
      /\ deaths' \in 0 .. MaxDeaths
  BY MemoryAssumption DEF Restart, TypeOK
<1> QED
  BY <1>1, <1>2, <1>3, <1>4, <1>5, MemoryAssumption DEF Restart, TypeOK

LEMMA TickType ==
  ASSUME TypeOK, Tick, breaker' \in [Procs -> BreakerType] PROVE TypeOK'
<1>1. calls' \in [Calls -> CallType]
  BY DEF Tick, TypeOK
<1>2. queue' \in Seq(RowType) /\ batch' \in Seq(BatchType)
  BY DEF Tick, TypeOK
<1> QED
  BY <1>1, <1>2, MemoryAssumption DEF Tick, TypeOK

-----------------------------------------------------------------------------
(* What is on its way in a call.  Only tools of the aggregator are still   *)
(* to be answered after retain is done, and the aggregator never clears a  *)
(* failed authentication: it does not probe.                               *)
CallInv(c) ==
  /\ calls[c].at = "idle" => calls[c].what = "none"
  /\ calls[c].what = "retain" => calls[c].item \in Items /\ c \notin {Drainer, Prober}
  /\ calls[c].at = "replying" => calls[c].what = "retain" /\ ProcOf[c] # "bot"
  /\ calls[c].what = "retain" /\ calls[c].item \in refused =>
       calls[c].at = "replying" /\ ~SaysQueued(c)
  /\ calls[c].result = "ok" /\ calls[c].item \in Items => calls[c].item \in stored

(* Two calls never retain the same payload.                                *)
Distinct ==
  \A c, d \in Calls :
    c # d /\ calls[c].what = "retain" /\ calls[d].what = "retain" =>
      calls[c].item # calls[d].item

(* The drain is at the first row of its batch.                             *)
DrainInv ==
  calls[Drainer].at # "idle" =>
    calls[Drainer].what = "drain" /\ batch # <<>> /\ calls[Drainer].item = HeadRow.item

CallsInv == (\A c \in Calls : CallInv(c)) /\ Distinct /\ DrainInv

StatusSticks ==
  \A p \in Procs : p # "bot" /\ status[p] = "auth" => status'[p] = "auth"

(* The calls that an action does not touch.                                *)
LEMMA OtherCall ==
  ASSUME TypeOK, NEW d \in Calls, CallInv(d), calls'[d] = calls[d],
         stored \subseteq stored', StatusSticks,
         calls[d].what = "retain" /\ calls[d].item \in refused' => calls[d].item \in refused
  PROVE  CallInv(d)'
<1>1. ProcOf[d] \in Procs
  BY MemoryAssumption
<1>2. calls[d].at = "replying" /\ ~SaysQueued(d) => ~SaysQueued(d)'
  BY <1>1 DEF SaysQueued, StatusSticks, CallInv
<1> QED
  BY <1>2 DEF CallInv

(* A step of a call from the breaker's door to its result.                 *)
Carries(c) ==
  /\ \A d \in Calls \ {c} : calls'[d] = calls[d]
  /\ calls[c].at \notin {"idle", "replying"}
  /\ \/ calls'[c] = Idle /\ calls[c].what = "recall"
     \/ /\ calls'[c].what = calls[c].what /\ calls'[c].item = calls[c].item
        /\ calls'[c].at \notin {"idle", "replying"}
        /\ \/ calls'[c].result \in {calls[c].result, "refused", "none"} \cup Kinds
           \/ calls[c].item \in Items => calls[c].item \in stored'
  /\ UNCHANGED <<batch, refused>>
  /\ stored \subseteq stored' /\ StatusSticks

LEMMA CarriesKeeps ==
  ASSUME TypeOK, CallsInv, NEW c \in Calls, Carries(c) PROVE CallsInv'
<1>1. ASSUME NEW d \in Calls, d # c PROVE CallInv(d)'
  BY <1>1, OtherCall DEF Carries, CallsInv
<1>2. CallInv(c)'
  <2>1. CASE calls'[c] = Idle
    BY <2>1, MemoryAssumption DEF Idle, CallInv
  <2>2. CASE calls'[c] # Idle
    BY <2>2 DEF Carries, CallsInv, CallInv, Kinds
  <2> QED
    BY <2>1, <2>2
<1>3. \A d \in Calls : calls'[d].what = "retain" =>
        calls[d].what = "retain" /\ calls'[d].item = calls[d].item
  BY DEF Carries, Idle
<1>4. Distinct'
  BY <1>3 DEF CallsInv, Distinct
<1>5. DrainInv'
  <2>1. CASE c = Drainer
    BY <2>1 DEF Carries, CallsInv, DrainInv, HeadRow, Idle
  <2>2. CASE c # Drainer
    BY <2>2, MemoryAssumption DEF Carries, CallsInv, DrainInv, HeadRow
  <2> QED
    BY <2>1, <2>2
<1> QED
  BY <1>1, <1>2, <1>4, <1>5 DEF CallsInv

LEMMA CarrySteps ==
  ASSUME TypeOK, NEW c \in Calls,
         \/ Admit(c) \/ \E o \in Kinds \cup {"ok"} : Answer(c, o)
         \/ Resume(c) \/ ReadBreaker(c) \/ PublishStatus(c)
  PROVE  Carries(c)
<1>0. calls[c] \in CallType /\ calls \in [Calls -> CallType]
  BY DEF TypeOK
<1>r. ASSUME NEW call \in CallType
      PROVE  \/ Returned(call) = Idle /\ call.what = "recall"
             \/ /\ Returned(call).what = call.what /\ Returned(call).item = call.item
                /\ Returned(call).at = "returned" /\ Returned(call).result = call.result
  BY DEF Returned, CallType
<1>1. CASE Admit(c)
  BY <1>0, <1>1 DEF Admit, Carries, StatusSticks, CallType
<1>2. ASSUME NEW o \in Kinds \cup {"ok"}, Answer(c, o) PROVE Carries(c)
  <2> DEFINE call == [calls[c] EXCEPT !.result = o]
  <2>1. /\ call \in CallType /\ call.what = calls[c].what /\ call.item = calls[c].item
        /\ call.result = o /\ call.left = calls[c].left
    BY <1>0 DEF CallType, Outcomes
  <2>2. calls' = [calls EXCEPT ![c] = calls'[c]]
    BY <1>0, <1>2 DEF Answer
  <2>3. \/ calls'[c] = Idle /\ calls[c].what = "recall"
        \/ /\ calls'[c].what = calls[c].what /\ calls'[c].item = calls[c].item
           /\ calls'[c].at \notin {"idle", "replying"} /\ calls'[c].result = o
    <3> HIDE DEF call
    <3>1. calls'[c] \in {Returned(call), [call EXCEPT !.at = "pausing", !.left = @ - 1],
                         [call EXCEPT !.at = "recorded"]}
      BY <1>0, <1>2 DEF Answer, call
    <3>2. CASE calls'[c] = Returned(call)
      BY <1>r, <2>1, <3>2
    <3>3. CASE calls'[c] = [call EXCEPT !.at = "pausing", !.left = @ - 1]
      BY <2>1, <3>3 DEF CallType
    <3>4. CASE calls'[c] = [call EXCEPT !.at = "recorded"]
      BY <2>1, <3>4 DEF CallType
    <3> QED
      BY <3>1, <3>2, <3>3, <3>4
  <2>4. stored \subseteq stored' /\ (o = "ok" /\ calls[c].item \in Items =>
                                       calls[c].item \in stored')
    BY <1>2, MemoryAssumption DEF Answer, Landed
  <2>5. StatusSticks
    BY <1>2 DEF Answer, StatusSticks, TypeOK
  <2>6. calls[c].at = "flying" /\ UNCHANGED <<batch, refused>>
    BY <1>2 DEF Answer
  <2> QED
    BY <1>0, <2>2, <2>3, <2>4, <2>5, <2>6 DEF Carries
<1>3. CASE Resume(c)
  BY <1>0, <1>3 DEF Resume, Carries, StatusSticks, CallType
<1>4. CASE ReadBreaker(c)
  BY <1>0, <1>4 DEF ReadBreaker, Carries, StatusSticks, CallType
<1>5. CASE PublishStatus(c)
  <2>1. StatusSticks
    BY <1>5 DEF PublishStatus, Published, StatusSticks, TypeOK
  <2> QED
    BY <1>0, <1>5, <1>r, <2>1 DEF PublishStatus, Carries
<1> QED
  BY <1>1, <1>2, <1>3, <1>4, <1>5

(* A call begins: a task of a turn or a tool, the probe, or the drain.     *)
LEMMA BeginKeeps ==
  ASSUME TypeOK, CallsInv, NEW c \in Calls,
         NEW what \in {"recall", "retain", "probe", "drain"},
         NEW item \in Items \cup {NoItem}, NEW attempts \in Nat,
         Begin(c, what, item, attempts),
         UNCHANGED <<stored, refused, batch, status>>,
         what = "retain" =>
           c \notin {Drainer, Prober} /\ item \in Items \ (refused \cup InFlight),
         c = Drainer => what = "drain" /\ batch # <<>> /\ item = HeadRow.item
  PROVE  CallsInv'
<1> DEFINE new == [Idle EXCEPT !.at = "admitting", !.what = what, !.item = item,
                              !.left = attempts]
<1>1. /\ new.at = "admitting" /\ new.what = what /\ new.item = item /\ new.result = "none"
  BY DEF Idle
<1> HIDE DEF new
<1>2. calls'[c] = new /\ \A d \in Calls \ {c} : calls'[d] = calls[d]
  BY DEF Begin, TypeOK, new
<1>3. ASSUME NEW d \in Calls, d # c PROVE CallInv(d)'
  BY <1>2, <1>3, OtherCall DEF StatusSticks, CallsInv
<1>4. CallInv(c)'
  BY <1>1, <1>2 DEF CallInv
<1>5. Distinct'
  BY <1>1, <1>2 DEF CallsInv, Distinct, InFlight
<1>6. DrainInv'
  BY <1>1, <1>2, MemoryAssumption DEF CallsInv, DrainInv, HeadRow
<1> QED
  BY <1>3, <1>4, <1>5, <1>6 DEF CallsInv

LEMMA BeginSteps ==
  ASSUME TypeOK, CallsInv,
         \/ \E c \in Calls : Recall(c) \/ \E x \in Items : Retain(c, x)
         \/ Probe \/ DrainOne
  PROVE  CallsInv'
<1>1. ASSUME NEW c \in Calls, Recall(c) PROVE CallsInv'
  BY <1>1, BeginKeeps DEF Recall
<1>2. ASSUME NEW c \in Calls, NEW x \in Items, Retain(c, x) PROVE CallsInv'
  <2>1. Retries[c] \in Nat
    BY MemoryAssumption
  <2> QED
    BY <1>2, <2>1, BeginKeeps DEF Retain
<1>3. CASE Probe
  <2>1. Retries[Prober] \in Nat
    BY MemoryAssumption
  <2> QED
    BY <1>3, <2>1, BeginKeeps, MemoryAssumption DEF Probe
<1>4. CASE DrainOne
  BY <1>4, HeadRowType, BeginKeeps, MemoryAssumption DEF DrainOne
<1> QED
  BY <1>1, <1>2, <1>3, <1>4

(* A call ends: nothing is on its way in it any more.                      *)
LEMMA EndKeeps ==
  ASSUME TypeOK, CallsInv, NEW c \in Calls, calls' = [calls EXCEPT ![c] = Idle],
         UNCHANGED <<stored, refused>>, StatusSticks, UNCHANGED batch \/ c = Drainer
  PROVE  CallsInv'
<1>1. calls'[c] = Idle /\ \A d \in Calls \ {c} : calls'[d] = calls[d]
  BY DEF TypeOK
<1>2. ASSUME NEW d \in Calls, d # c PROVE CallInv(d)'
  BY <1>1, <1>2, OtherCall DEF CallsInv
<1>3. CallInv(c)' /\ Idle.what = "none" /\ Idle.at = "idle"
  BY <1>1 DEF CallInv, Idle
<1>4. Distinct' /\ DrainInv'
  BY <1>1, <1>3 DEF CallsInv, Distinct, DrainInv, HeadRow
<1> QED
  BY <1>2, <1>3, <1>4 DEF CallsInv

LEMMA EndSteps ==
  ASSUME TypeOK, CallsInv, (\E c \in Calls : Reply(c)) \/ EndProbe \/ EndDrain
  PROVE  CallsInv'
<1>1. ASSUME NEW c \in Calls, Reply(c) PROVE CallsInv'
  BY <1>1, EndKeeps DEF Reply, StatusSticks
<1>2. CASE EndProbe
  <2>1. StatusSticks
    BY <1>2 DEF EndProbe, StatusSticks, TypeOK
  <2> QED
    BY <1>2, <2>1, EndKeeps, MemoryAssumption DEF EndProbe
<1>3. CASE EndDrain
  BY <1>3, EndKeeps, MemoryAssumption DEF EndDrain, StatusSticks
<1> QED
  BY <1>1, <1>2, <1>3

(* retain is done: what it did not queue it refused, and says so.          *)
LEMMA EndRetainKeeps ==
  ASSUME TypeOK, CallsInv, NEW c \in Calls, EndRetain(c) PROVE CallsInv'
<1>1. calls[c].at = "returned" /\ calls[c].what = "retain" /\ calls[c].item \in Items
      /\ c \notin {Drainer, Prober} /\ calls[c].item \notin refused
  BY DEF EndRetain, CallsInv, CallInv
<1>2. calls'[c] = (IF ProcOf[c] = "bot" THEN Idle ELSE [calls[c] EXCEPT !.at = "replying"])
      /\ \A d \in Calls \ {c} : calls'[d] = calls[d]
  BY DEF EndRetain, TypeOK
<1>3. UNCHANGED <<status, stored, batch>>
  BY DEF EndRetain
<1>4. \/ refused' = refused
      \/ refused' = refused \cup {calls[c].item} /\ calls[c].result # "ok" /\ ~ToQueue(c)
  <2>1. IF calls[c].result = "ok" THEN UNCHANGED refused
        ELSE IF ToQueue(c) THEN UNCHANGED refused
        ELSE refused' = refused \cup {calls[c].item}
    BY DEF EndRetain
  <2>2. CASE calls[c].result = "ok"
    BY <2>1, <2>2
  <2>3. CASE calls[c].result # "ok" /\ ToQueue(c)
    BY <2>1, <2>3
  <2>4. CASE calls[c].result # "ok" /\ ~ToQueue(c)
    BY <2>1, <2>4
  <2> QED
    BY <2>2, <2>3, <2>4
<1>5. ASSUME NEW d \in Calls, d # c PROVE CallInv(d)'
  <2>1. calls[d].what = "retain" => calls[d].item # calls[c].item
    BY <1>1, <1>5 DEF CallsInv, Distinct
  <2> QED
    BY <1>2, <1>3, <1>4, <1>5, <2>1, OtherCall DEF StatusSticks, CallsInv
<1>8. DrainInv'
  <2>1. calls'[Drainer] = calls[Drainer]
    BY <1>1, <1>2, MemoryAssumption
  <2> QED
    BY <1>3, <2>1 DEF CallsInv, DrainInv, HeadRow
<1>6. CASE ProcOf[c] = "bot"
  <2>1. CallInv(c)' /\ calls'[c] = Idle /\ Idle.what = "none"
    BY <1>2, <1>6, MemoryAssumption DEF CallInv, Idle
  <2>2. Distinct'
    BY <1>2, <2>1 DEF CallsInv, Distinct
  <2> QED
    BY <1>5, <1>8, <2>1, <2>2 DEF CallsInv
<1>7. CASE ProcOf[c] # "bot"
  <2>1. /\ calls'[c].at = "replying" /\ calls'[c].what = "retain"
        /\ calls'[c].item = calls[c].item /\ calls'[c].result = calls[c].result
    BY <1>1, <1>2, <1>7 DEF TypeOK, CallType
  <2>2. calls[c].item \in refused' => ~SaysQueued(c)'
    BY <1>1, <1>3, <1>4, <2>1 DEF SaysQueued, ToQueue
  <2>3. CallInv(c)'
    BY <1>1, <1>3, <1>7, <2>1, <2>2 DEF CallsInv, CallInv
  <2>4. Distinct'
    <3> SUFFICES ASSUME NEW d \in Calls, NEW e \in Calls, d # e,
                        calls'[d].what = "retain", calls'[e].what = "retain"
                 PROVE  calls'[d].item # calls'[e].item
      BY DEF Distinct
    <3>1. \A b \in {d, e} : calls'[b].item = calls[b].item /\ calls[b].what = "retain"
      <4> SUFFICES ASSUME NEW b \in Calls, calls'[b].what = "retain"
                   PROVE  calls'[b].item = calls[b].item /\ calls[b].what = "retain"
        OBVIOUS
      <4> QED
        BY ZenonT(30), <1>1, <1>2, <2>1
    <3> QED
      BY <3>1 DEF CallsInv, Distinct
  <2> QED
    BY <1>5, <1>8, <2>3, <2>4 DEF CallsInv
<1> QED
  BY <1>6, <1>7

(* A restart ends the calls of the bot, the drain among them.              *)
LEMMA RestartKeeps ==
  ASSUME TypeOK, CallsInv, Restart PROVE CallsInv'
<1>1. UNCHANGED <<stored, refused>>
  BY DEF Restart
<1>2. StatusSticks
  BY DEF Restart, StatusSticks, TypeOK
<1>3. Idle.at = "idle" /\ Idle.what = "none" /\ Idle.result = "none"
      /\ Probing.at = "admitting" /\ Probing.what = "probe" /\ Probing.result = "none"
  BY DEF Probing, Idle
<1>4. ASSUME NEW d \in Calls PROVE calls'[d] \in {calls[d], Idle, Probing}
  BY <1>4 DEF Restart
<1>5. \A d \in Calls : CallInv(d)'
  <2> SUFFICES ASSUME NEW d \in Calls PROVE CallInv(d)'
    OBVIOUS
  <2>1. CASE calls'[d] = calls[d]
    BY <1>1, <1>2, <2>1, OtherCall DEF CallsInv
  <2>2. CASE calls'[d] \in {Idle, Probing}
    BY <1>3, <2>2 DEF CallInv
  <2> QED
    BY <1>4, <2>1, <2>2
<1>6. Distinct'
  BY <1>3, <1>4 DEF CallsInv, Distinct
<1>7. calls'[Drainer] = Idle
  BY MemoryAssumption DEF Restart
<1>8. DrainInv'
  BY <1>3, <1>7 DEF DrainInv
<1> QED
  BY <1>5, <1>6, <1>8 DEF CallsInv

(* The steps beside the calls: the batch changes only while the drain      *)
(* calls nobody.                                                           *)
LEMMA AsideKeeps ==
  ASSUME TypeOK, CallsInv, LoadBatch \/ DropAged \/ WatchStatus \/ SendAlert
                         \/ RecordAlert \/ Tick \/ UNCHANGED vars
  PROVE  CallsInv'
<1>1. UNCHANGED <<calls, status, stored, refused>>
      /\ (UNCHANGED batch \/ calls[Drainer].at = "idle")
  BY DEF LoadBatch, DropAged, WatchStatus, SendAlert, RecordAlert, Tick, vars
<1>2. \A d \in Calls : CallInv(d)'
  BY <1>1 DEF CallsInv, CallInv, SaysQueued
<1>3. Distinct' /\ DrainInv'
  BY <1>1 DEF CallsInv, Distinct, DrainInv, HeadRow
<1> QED
  BY <1>2, <1>3 DEF CallsInv

LEMMA CallsKeep ==
  ASSUME TypeOK, CallsInv, [Next]_vars PROVE CallsInv'
BY CarrySteps, CarriesKeeps, BeginSteps, EndSteps, EndRetainKeeps, RestartKeeps, AsideKeeps
   DEF Next

-----------------------------------------------------------------------------
(* The queue: a row that is deleted takes no other with it ...             *)
LEMMA OthersStay ==
  ASSUME TypeOK, NEW x, NEW y \in Queued, y # x, queue' = Without(x)
  PROVE  y \in (Queued)'
<1>1. PICK j \in DOMAIN queue : queue[j].item = y
  BY DEF Queued
<1>2. CASE x \notin Queued
  BY <1>2 DEF Without, Queued
<1>3. CASE x \in Queued
  <2> DEFINE i == CHOOSE i \in DOMAIN queue : queue[i].item = x
             s == SubSeq(queue, 1, i - 1) \o SubSeq(queue, i + 1, Len(queue))
             k == IF j < i THEN j ELSE j - 1
  <2>1. i \in DOMAIN queue /\ queue[i].item = x
    BY <1>3 DEF Queued
  <2>2. queue' = s
    BY <1>3 DEF Without
  <2>3. i \in 1 .. Len(queue) /\ j \in 1 .. Len(queue) /\ i # j /\ Len(queue) \in Nat
    BY <1>1, <2>1 DEF TypeOK
  <2> HIDE DEF i
  <2>4. k \in DOMAIN s /\ s[k] = queue[j]
    <3> DEFINE a == SubSeq(queue, 1, i - 1)
               b == SubSeq(queue, i + 1, Len(queue))
    <3>1. /\ a \in Seq(RowType) /\ Len(a) = i - 1
          /\ b \in Seq(RowType) /\ Len(b) = Len(queue) - i
      BY <2>3 DEF TypeOK
    <3>2. \A m \in 1 .. i - 1 : a[m] = queue[m]
      BY <2>3 DEF TypeOK
    <3>3. \A m \in 1 .. Len(queue) - i : b[m] = queue[m + i]
      BY <2>3 DEF TypeOK
    <3> HIDE DEF a, b
    <3>4. CASE j < i
      <4>1. k = j /\ j \in 1 .. Len(a)
        BY <2>3, <3>1, <3>4
      <4>2. (a \o b)[j] = a[j] /\ j \in DOMAIN (a \o b)
        BY <3>1, <4>1
      <4>3. a[j] = queue[j]
        BY <3>1, <3>2, <4>1
      <4> QED
        BY <4>1, <4>2, <4>3 DEF a, b
    <3>5. CASE ~(j < i)
      <4>1. k = j - 1 /\ k \in i .. Len(queue) - 1
        BY <2>3, <3>5
      <4>2. k \in 1 .. Len(a) + Len(b) /\ k > Len(a)
        BY <2>3, <3>1, <4>1
      <4>3. (a \o b)[k] = b[k - Len(a)]
        BY <3>1, <4>2
      <4>4. k - Len(a) = j - i /\ j - i \in 1 .. Len(queue) - i
        BY <2>3, <3>1, <3>5, <4>1
      <4>5. b[j - i] = queue[j]
        BY <2>3, <3>3, <4>4
      <4>6. DOMAIN (a \o b) = 1 .. Len(a) + Len(b)
        BY <3>1
      <4>7. (a \o b)[k] = queue[j]
        BY <4>3, <4>4, <4>5
      <4>8. k \in DOMAIN (a \o b)
        BY <4>2, <4>6
      <4> QED
        BY <4>7, <4>8 DEF a, b
    <3> QED
      BY <3>4, <3>5 DEF a, b
  <2> QED
    BY <1>1, <2>2, <2>4 DEF Queued
<1> QED
  BY <1>2, <1>3

(* ... and one that is pushed out is counted among the dropped.            *)
LEMMA PushedOut ==
  ASSUME TypeOK, NEW x, NEW y \in Queued, Enqueue(x)
  PROVE  y \in (Queued)' \/ y \in dropped'
<1>1. PICK j \in DOMAIN queue : queue[j].item = y
  BY DEF Queued
<1> DEFINE first == IF Len(queue) < QueueCap THEN 1 ELSE Len(queue) - QueueCap + 2
           kept  == SubSeq(queue, first, Len(queue))
           row   == [item |-> x, since |-> now]
<1>2. Len(queue) \in Nat /\ first \in 1 .. Len(queue) + 1 /\ j \in 1 .. Len(queue)
  BY <1>1, MemoryAssumption DEF TypeOK
<1>3. /\ queue' = Append(kept, row)
      /\ dropped' = dropped \cup {queue[i].item : i \in 1 .. Len(queue) - Len(kept)}
  BY DEF Enqueue
<1> HIDE DEF first
<1>4. Len(kept) = Len(queue) - first + 1
  BY <1>2 DEF TypeOK
<1>5. CASE j < first
  BY <1>1, <1>2, <1>3, <1>4, <1>5
<1>6. CASE ~(j < first)
  <2> DEFINE k == j - first + 1
  <2>1. k \in 1 .. Len(kept) /\ kept[k] = queue[j]
    BY <1>2, <1>4, <1>6 DEF TypeOK
  <2>2. Append(kept, row)[k] = kept[k] /\ k \in DOMAIN Append(kept, row)
    BY SMTT(30), <1>2, <1>4, <2>1 DEF TypeOK
  <2> QED
    BY <1>1, <1>3, <2>1, <2>2 DEF Queued
<1> QED
  BY <1>5, <1>6

LEMMA QueueSettles ==
  ASSUME TypeOK, CallsInv, [Next]_vars, NEW x \in Queued
  PROVE  x \in (Queued)' \/ x \in stored' \cup dropped'
<1>1. CASE UNCHANGED queue
  BY <1>1 DEF Queued
<1>2. ASSUME NEW c \in Calls, EndRetain(c)
      PROVE  x \in (Queued)' \/ x \in stored' \cup dropped'
  <2>1. UNCHANGED queue \/ Enqueue(calls[c].item)
    BY <1>2 DEF EndRetain, EnqueueFails
  <2> QED
    BY <1>1, <2>1, PushedOut
<1>3. CASE DropAged
  BY <1>3, OthersStay DEF DropAged
<1>4. CASE EndDrain
  <2>1. calls[Drainer].item = HeadRow.item /\ HeadRow.item \in Items /\ CallInv(Drainer)
    BY <1>4, HeadRowType, MemoryAssumption DEF EndDrain, CallsInv, DrainInv
  <2>2. CASE calls[Drainer].result = "ok"
    BY <1>4, <2>1, <2>2, OthersStay DEF EndDrain, CallInv
  <2>3. CASE calls[Drainer].result = "client"
    BY <1>4, <2>3, OthersStay DEF EndDrain
  <2>4. CASE calls[Drainer].result \notin {"ok", "client"}
    BY <1>1, <1>4, <2>4 DEF EndDrain
  <2> QED
    BY <2>2, <2>3, <2>4
<1>5. ASSUME NEW c \in Calls,
             \/ Recall(c) \/ \E y \in Items : Retain(c, y)
             \/ Admit(c) \/ \E o \in Kinds \cup {"ok"} : Answer(c, o)
             \/ Resume(c) \/ ReadBreaker(c) \/ PublishStatus(c) \/ Reply(c)
      PROVE  UNCHANGED queue
  BY <1>5 DEF Recall, Retain, Admit, Answer, Resume, ReadBreaker, PublishStatus, Reply
<1>6. CASE \/ Probe \/ EndProbe \/ LoadBatch \/ DrainOne \/ WatchStatus \/ SendAlert
           \/ RecordAlert \/ Restart \/ Tick
           \/ UNCHANGED vars
  BY <1>1, <1>6 DEF Probe, EndProbe, LoadBatch, DrainOne, WatchStatus, SendAlert,
                      RecordAlert, Restart, Tick, vars
<1> QED
  BY <1>1, <1>2, <1>3, <1>4, <1>5, <1>6 DEF Next

-----------------------------------------------------------------------------
Inv == TypeOK /\ BreakerInv /\ CallsInv

LEMMA TypesKeep ==
  ASSUME Inv, [Next]_vars PROVE TypeOK'
<1>1. breaker' \in [Procs -> BreakerType]
  BY BreakersKeep DEF Inv
<1>2. TypeOK /\ RetainsItems
  BY DEF Inv, CallsInv, CallInv, RetainsItems
<1>3. CASE \E c \in Calls : Recall(c) \/ (\E x \in Items : Retain(c, x)) \/ Admit(c)
  BY <1>1, <1>2, <1>3, RecallType, RetainType, AdmitType
<1>4. CASE \E c \in Calls : \E o \in Kinds \cup {"ok"} : Answer(c, o)
  BY <1>1, <1>2, <1>4, AnswerType
<1>5. CASE \E c \in Calls : Resume(c) \/ ReadBreaker(c) \/ PublishStatus(c)
  BY <1>1, <1>2, <1>5, ResumeType, ReadBreakerType, PublishStatusType
<1>6. CASE \E c \in Calls : EndRetain(c) \/ Reply(c)
  BY <1>1, <1>2, <1>6, EndRetainType, ReplyType
<1>7. CASE Probe \/ EndProbe \/ WatchStatus \/ SendAlert \/ RecordAlert \/ Restart \/ Tick
  BY <1>1, <1>2, <1>7, ProbeType, EndProbeType, WatcherType, RestartType, TickType
<1>8. CASE LoadBatch \/ DropAged \/ DrainOne
  BY <1>1, <1>2, <1>8, LoadBatchType, DropAgedType, DrainOneType
<1>9. CASE EndDrain
  <2>1. batch # <<>>
    BY <1>9 DEF EndDrain, Inv, CallsInv, DrainInv
  <2> QED
    BY <1>1, <1>2, <1>9, <2>1, EndDrainType
<1>10. CASE UNCHANGED vars
  BY <1>2, <1>10 DEF vars, TypeOK
<1> QED
  BY <1>3, <1>4, <1>5, <1>6, <1>7, <1>8, <1>9, <1>10 DEF Next

LEMMA InitInv == Init => Inv
<1> SUFFICES ASSUME Init PROVE Inv
  OBVIOUS
<1>1. Probing \in CallType
  <2>1. Retries[Prober] \in Nat /\ "admitting" \in Stages
    BY MemoryAssumption DEF Stages
  <2> QED
    BY <2>1, IdleType DEF Probing, CallType
<1>2. Fresh \in BreakerType /\ Sound(Fresh)
  BY MemoryAssumption DEF Fresh, BreakerType, Sound, Init
<1>3. TypeOK
  <2>1. breaker \in [Procs -> BreakerType] /\ calls \in [Calls -> CallType]
    BY <1>1, <1>2, IdleType DEF Init
  <2>2. queue \in Seq(RowType) /\ batch \in Seq(BatchType)
    BY DEF Init
  <2>3. now \in 0 .. MaxNow /\ faults \in 0 .. MaxFaults /\ deaths \in 0 .. MaxDeaths
    BY MemoryAssumption DEF Init
  <2>4. /\ status \in [Procs -> {"healthy", "degraded", "auth"}]
        /\ alert \in Nat \cup {Never} /\ sentAt \in Nat \cup {Never} /\ watch = "idle"
        /\ seen \in BOOLEAN /\ boot \in {"starting", "looping", "over"}
        /\ stored \cup dropped \cup refused \subseteq Items
    BY DEF Init
  <2> QED
    BY <2>1, <2>2, <2>3, <2>4 DEF TypeOK
<1>4. BreakerInv
  BY <1>2 DEF Init, BreakerInv, Sound
<1>5. Idle.at = "idle" /\ Idle.what = "none" /\ Idle.result = "none"
      /\ Probing.at = "admitting" /\ Probing.what = "probe" /\ Probing.result = "none"
  BY DEF Probing, Idle
<1>6. CallsInv
  BY <1>5, MemoryAssumption DEF Init, CallsInv, CallInv, Distinct, DrainInv
<1> QED
  BY <1>3, <1>4, <1>6 DEF Inv

LEMMA Invariance == Spec => []Inv
<1>1. Inv /\ [Next]_vars => Inv'
  BY TypesKeep, BreakersKeep, CallsKeep DEF Inv
<1> QED
  BY <1>1, InitInv, PTL DEF Spec

(* Every reachable state of Memory is well typed.                          *)
THEOREM TypeCorrect == Spec => []TypeOK
<1>1. Inv => TypeOK
  BY DEF Inv
<1> QED
  BY <1>1, Invariance, PTL

(* A closed breaker has seen fewer failures than trip it, and an opening   *)
(* ends in time, whatever the thresholds and however many calls are in     *)
(* flight (circuit.rs).                                                    *)
THEOREM BreakersSound == Spec => []BreakerInv
<1>1. Inv => BreakerInv
  BY DEF Inv
<1> QED
  BY <1>1, Invariance, PTL

(* No answer that comes late cuts an opening short (Breaker::record).      *)
THEOREM LateAnswersHarmless == Spec => OpeningLasts
<1>1. ASSUME Inv, [Next]_vars
      PROVE  [\A p \in Procs :
                breaker[p].state = "open" /\ now < breaker[p].until =>
                  \/ breaker'[p].state = "open" /\ breaker'[p].until >= breaker[p].until
                  \/ p = "bot" /\ deaths' # deaths]_vars
  BY <1>1, BreakersKeep DEF Inv, OpeningStep
<1> QED
  BY <1>1, Invariance, PTL DEF Spec, OpeningLasts

(* A retain leaves the queue because the service has it or because it was  *)
(* given up, with the bot draining and both processes adding to it         *)
(* (retain_queue.rs).                                                      *)
THEOREM QueueLosesNothing == Spec => LeavesQueueSettled
<1>1. ASSUME Inv, [Next]_vars
      PROVE  [\A x \in Queued : x \in (Queued)' \/ x \in stored' \cup dropped']_vars
  BY <1>1, QueueSettles DEF Inv
<1> QED
  BY <1>1, Invariance, PTL DEF Spec, LeavesQueueSettled

(* What memory_retain calls queued was not refused, although the tool      *)
(* reads the status again after retain decided by it (aggregator.rs).      *)
THEOREM ToolTellsTheTruth == Spec => QueuedIsQueued
<1>1. ASSUME Inv, [Next]_vars
      PROVE  [\A c \in Calls :
                calls[c].at = "replying" /\ calls'[c].at = "idle" /\ SaysQueued(c) =>
                  calls[c].item \notin refused]_vars
  BY <1>1 DEF Inv, CallsInv, CallInv
<1> QED
  BY <1>1, Invariance, PTL DEF Spec, QueuedIsQueued

-----------------------------------------------------------------------------
(* Alerts: the mark is made after the alert was sent, and stands for as    *)
(* long as the next one is to be spaced from it.                           *)
AlertInv ==
  /\ alert # Never => alert <= now
  /\ sentAt # Never => sentAt <= now
  /\ sentAt # Never /\ watch # "recording" => alert # Never /\ sentAt <= alert
  /\ watch = "sending" => Due

LEMMA StaysDue ==
  ASSUME NEW a \in Nat, NEW n \in Nat, NEW later \in Nat, NEW p \in Nat,
         n - a > p, n <= later
  PROVE  later - a > p
OBVIOUS

LEMMA AlertStep ==
  ASSUME TypeOK, AlertInv, [Next]_vars PROVE AlertInv'
<1>0. /\ now \in Nat /\ sentAt \in Nat \cup {Never} /\ alert \in Nat \cup {Never}
      /\ Never \notin Nat /\ AlertPause \in Nat
  BY MemoryAssumption DEF TypeOK, Never
<1>1. CASE UNCHANGED <<alert, watch, sentAt>> /\ now' \in {now, now + 1}
  <2>1. now' \in Nat /\ now <= now' /\ alert' = alert /\ watch' = watch /\ sentAt' = sentAt
    BY <1>0, <1>1
  <2>2. Due => Due'
    <3>1. CASE alert = Never
      BY <2>1, <3>1 DEF Due
    <3>2. ASSUME alert # Never, Due PROVE Due'
      <4>1. alert \in Nat /\ now - alert > AlertPause
        BY <1>0, <3>2 DEF Due
      <4>2. now' - alert > AlertPause
        BY <1>0, <2>1, <4>1, StaysDue
      <4> QED
        BY <2>1, <4>2 DEF Due
    <3> QED
      BY <3>1, <3>2
  <2> QED
    BY <1>0, <2>1, <2>2 DEF AlertInv
<1>2. CASE WatchStatus
  BY <1>0, <1>2 DEF WatchStatus, AlertInv, Due
<1>3. CASE SendAlert
  BY <1>0, <1>3 DEF SendAlert, AlertInv
<1>4. CASE RecordAlert
  BY <1>0, <1>4 DEF RecordAlert, AlertInv
<1>5. CASE Restart
  BY <1>0, <1>5 DEF Restart, AlertInv
<1>6. ASSUME NEW c \in Calls,
             \/ Recall(c) \/ \E y \in Items : Retain(c, y)
             \/ Admit(c) \/ \E o \in Kinds \cup {"ok"} : Answer(c, o)
             \/ Resume(c) \/ ReadBreaker(c) \/ PublishStatus(c) \/ EndRetain(c) \/ Reply(c)
      PROVE  UNCHANGED <<alert, watch, sentAt, now>>
  BY <1>6 DEF Recall, Retain, Admit, Answer, Resume, ReadBreaker, PublishStatus, EndRetain,
              Reply
<1>7. CASE \/ Probe \/ EndProbe \/ LoadBatch \/ DropAged \/ DrainOne \/ EndDrain \/ Tick
           \/ UNCHANGED vars
  BY <1>1, <1>7 DEF Probe, EndProbe, LoadBatch, DropAged, DrainOne, EndDrain, Tick, vars
<1> QED
  BY <1>1, <1>2, <1>3, <1>4, <1>5, <1>6, <1>7 DEF Next

(* However often the status flaps and whatever restarts, an alert comes a  *)
(* pause after the last one whose mark was made (memory_alerts.rs).        *)
THEOREM AlertsPaced == Spec => AlertsArePaced
<1>1. Init => AlertInv
  BY DEF Init, AlertInv, Never
<1>2. TypeOK /\ AlertInv /\ [Next]_vars => AlertInv'
  BY AlertStep
<1>3. ASSUME TypeOK, AlertInv
      PROVE  [watch = "sending" /\ watch' = "recording" =>
                sentAt = Never \/ now - sentAt > AlertPause]_vars
  <2>1. /\ now \in Nat /\ sentAt \in Nat \cup {Never} /\ alert \in Nat \cup {Never}
        /\ AlertPause \in Nat
    BY <1>3, MemoryAssumption DEF TypeOK
  <2> QED
    BY <1>3, <2>1 DEF AlertInv, Due
<1> QED
  BY <1>1, <1>2, <1>3, TypeCorrect, PTL DEF Spec, AlertsArePaced
=============================================================================
