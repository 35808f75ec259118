---------------------------- MODULE OutboxProofs ----------------------------
(***************************************************************************)
(* Theorems of Outbox, for every value of its constants.                   *)
(***************************************************************************)
EXTENDS Outbox, FiniteSetTheorems, TLAPS

(***************************************************************************)
(* The timers derived from the lease are numbers of ticks; the handler's   *)
(* is positive and shorter than the lease.                                 *)
(***************************************************************************)
LEMMA TicksType ==
  /\ HandlerTicks \in Nat /\ HandlerTicks > 0 /\ HandlerTicks < LeaseTicks
  /\ HeartbeatTicks \in Nat /\ HeartbeatTicks > 0
BY BoundsAssumption DEF HandlerTicks, HeartbeatTicks

\* An idle task is a task, and a claimed one too.
LEMMA IdleType ==
  /\ Idle \in Tasks
  /\ \A n \in 0..MaxAttempts :
       [Idle EXCEPT !.phase = "queued", !.claim = n] \in Tasks
<1>1. Idle \in Tasks
  BY TicksType, BoundsAssumption DEF Idle, Tasks
<1>2. ASSUME NEW t \in Tasks, NEW n \in 0..MaxAttempts
      PROVE  [t EXCEPT !.phase = "queued", !.claim = n] \in Tasks
  BY DEF Tasks
<1> QED
  BY <1>1, <1>2

\* The assignments to a row and to a task that the actions make.
LEMMA RowUpdates ==
  ASSUME NEW r \in Rows
  PROVE  /\ \A stage \in {"stored", "deleted"} : [r EXCEPT !.stage = stage] \in Rows
         /\ \A w \in Workers, n \in 0..MaxAttempts :
              [r EXCEPT !.lockedBy = w, !.lease = LeaseTicks, !.attempts = n] \in Rows
         /\ Unlocked(r) \in Rows
         /\ [r EXCEPT !.processed = TRUE] \in Rows
         /\ \A n \in 0..MaxAttempts : [r EXCEPT !.attempts = n] \in Rows
         /\ \A n \in 0..MaxAttempts, k \in Nat :
              [r EXCEPT !.attempts = n, !.wait = k] \in Rows
         /\ \A lease \in NoLease..LeaseTicks : [r EXCEPT !.lease = lease] \in Rows
<1>1. NoLease \in NoLease..LeaseTicks /\ LeaseTicks \in NoLease..LeaseTicks
  BY BoundsAssumption DEF NoLease
<1>2. ASSUME NEW stage \in {"stored", "deleted"}
      PROVE  [r EXCEPT !.stage = stage] \in Rows
  BY DEF Rows
<1>3. ASSUME NEW w \in Workers \cup {NoWorker}, NEW lease \in NoLease..LeaseTicks,
             NEW n \in 0..MaxAttempts
      PROVE  /\ [r EXCEPT !.lockedBy = w, !.lease = lease, !.attempts = n] \in Rows
             /\ [r EXCEPT !.lockedBy = w, !.lease = lease] \in Rows
             /\ [r EXCEPT !.lease = lease] \in Rows
  BY DEF Rows
<1>4. [r EXCEPT !.processed = TRUE] \in Rows
  BY DEF Rows
<1>5. ASSUME NEW n \in 0..MaxAttempts, NEW k \in Nat
      PROVE  /\ [r EXCEPT !.attempts = n] \in Rows
             /\ [r EXCEPT !.attempts = n, !.wait = k] \in Rows
  BY DEF Rows
<1>6. Unlocked(r) \in Rows
  <2>1. r.attempts \in 0..MaxAttempts
    BY DEF Rows
  <2> QED
    BY <1>1, <1>3, <2>1 DEF Unlocked
<1>7. \A w \in Workers, n \in 0..MaxAttempts :
        [r EXCEPT !.lockedBy = w, !.lease = LeaseTicks, !.attempts = n] \in Rows
  BY <1>1, <1>3
<1>8. \A lease \in NoLease..LeaseTicks : [r EXCEPT !.lease = lease] \in Rows
  <2>1. r.attempts \in 0..MaxAttempts
    BY DEF Rows
  <2> QED
    BY <1>3, <2>1
<1>9. \A n \in 0..MaxAttempts : [r EXCEPT !.attempts = n] \in Rows
  BY <1>5
<1> QED
  BY <1>2, <1>4, <1>5, <1>6, <1>7, <1>8, <1>9

LEMMA TaskUpdates ==
  ASSUME NEW t \in Tasks
  PROVE  /\ \A late \in BOOLEAN :
              [t EXCEPT !.phase = "handling", !.left = HandlerTicks,
                        !.late = late] \in Tasks
         /\ \A phase \in Settling : [t EXCEPT !.phase = phase] \in Tasks
         /\ \A lost \in BOOLEAN : [t EXCEPT !.lost = lost] \in Tasks
         /\ \A left \in 0..HandlerTicks : [t EXCEPT !.left = left] \in Tasks
<1>1. HandlerTicks \in 0..HandlerTicks
  BY TicksType
<1>2. ASSUME NEW late \in BOOLEAN, NEW left \in 0..HandlerTicks
      PROVE  /\ [t EXCEPT !.phase = "handling", !.left = left, !.late = late] \in Tasks
             /\ [t EXCEPT !.left = left] \in Tasks
  BY DEF Tasks
<1>3. ASSUME NEW phase \in Settling PROVE [t EXCEPT !.phase = phase] \in Tasks
  BY DEF Tasks
<1>4. ASSUME NEW lost \in BOOLEAN PROVE [t EXCEPT !.lost = lost] \in Tasks
  BY DEF Tasks
<1> QED
  BY <1>1, <1>2, <1>3, <1>4

\* Putting a row, or a task, in its place keeps the whole well typed.
LEMMA Placed ==
  ASSUME TypeOK, NEW w \in Workers, NEW e \in Events
  PROVE  /\ \A r \in Rows : [row EXCEPT ![e] = r] \in [Events -> Rows]
         /\ \A t \in Tasks :
              [task EXCEPT ![w][e] = t] \in [Workers -> [Events -> Tasks]]
BY DEF TypeOK

-----------------------------------------------------------------------------
LEMMA InitTypeOK == Init => TypeOK
<1> SUFFICES ASSUME Init PROVE TypeOK
  OBVIOUS
<1>1. row \in [Events -> Rows]
  BY BoundsAssumption DEF Init, Rows, NoLease
<1>2. task \in [Workers -> [Events -> Tasks]]
  BY IdleType DEF Init
<1> QED
  BY <1>1, <1>2 DEF Init, TypeOK, Statuses

LEMMA RowStepsTypeOK ==
  ASSUME TypeOK, NEW e \in Events, Create(e) \/ DeleteProcessed(e)
  PROVE  TypeOK'
<1>1. /\ [row[e] EXCEPT !.stage = "stored"] \in Rows
      /\ [row[e] EXCEPT !.stage = "deleted"] \in Rows
  BY RowUpdates DEF TypeOK
<1>2. row' \in [Events -> Rows]
  BY <1>1 DEF TypeOK, Create, DeleteProcessed
<1> QED
  BY <1>2 DEF TypeOK, Create, DeleteProcessed

LEMMA LifeStepsTypeOK ==
  ASSUME TypeOK, NEW w \in Workers,
         \/ Start(w) \/ Signal(w) \/ Stop(w) \/ StopReturns(w) \/ Crash(w)
  PROVE  TypeOK'
<1>1. CASE Start(w) \/ Signal(w) \/ Stop(w)
  BY <1>1 DEF TypeOK, Start, Signal, Stop, Statuses
<1>2. CASE StopReturns(w) \/ Crash(w)
  <2>1. PICK how \in {"exited", "crashed"} : Gone(w, how)
    BY <1>2 DEF StopReturns, Crash
  <2>2. task' \in [Workers -> [Events -> Tasks]]
    BY <2>1, IdleType DEF Gone, TypeOK
  <2> QED
    BY <2>1, <2>2 DEF Gone, TypeOK, Statuses
<1> QED
  BY <1>1, <1>2

LEMMA BatchStepsTypeOK ==
  ASSUME TypeOK, NEW w \in Workers, Claim(w) \/ DropQueued(w)
  PROVE  TypeOK'
<1>1. CASE Claim(w)
  <2>1. PICK S \in SUBSET {e \in Events : Claimable(w, e)}, answered \in BOOLEAN :
           /\ row' = [e \in Events |->
                        IF e \in S
                        THEN [row[e] EXCEPT !.lockedBy = w,
                                            !.lease = LeaseTicks,
                                            !.attempts = @ + 1]
                        ELSE row[e]]
           /\ task' = [task EXCEPT ![w] =
                         [e \in Events |->
                            IF answered /\ e \in S
                            THEN [Idle EXCEPT !.phase = "queued",
                                              !.claim = row[e].attempts + 1]
                            ELSE task[w][e]]]
    BY <1>1 DEF Claim
  <2>2. \A e \in S : row[e] \in Rows /\ row[e].attempts + 1 \in 0..MaxAttempts
    BY BoundsAssumption DEF TypeOK, Rows, Claimable
  <2>3. row' \in [Events -> Rows]
    <3>1. \A e \in S : [row[e] EXCEPT !.lockedBy = w, !.lease = LeaseTicks,
                                      !.attempts = row[e].attempts + 1] \in Rows
      BY <2>2, RowUpdates
    <3> QED
      BY <2>1, <3>1 DEF TypeOK
  <2>4. task' \in [Workers -> [Events -> Tasks]]
    BY <2>1, <2>2, IdleType DEF TypeOK
  <2> QED
    BY <1>1, <2>3, <2>4 DEF Claim, TypeOK
<1>2. CASE DropQueued(w)
  BY <1>2, IdleType DEF DropQueued, TypeOK
<1> QED
  BY <1>1, <1>2

LEMMA DispatchTypeOK ==
  ASSUME TypeOK, NEW w \in Workers, NEW e \in Events, Dispatch(w, e)
  PROVE  TypeOK'
<1> DEFINE t == task[w][e]
<1>1. t \in Tasks /\ t.claim \in 0..MaxAttempts
  BY DEF TypeOK, Tasks
<1>2. task' \in [Workers -> [Events -> Tasks]]
  <2>1. LeaseTooShort(w, e) \in BOOLEAN
    BY DEF LeaseTooShort
  <2>2. /\ [t EXCEPT !.phase = "handling", !.left = HandlerTicks,
                     !.late = LeaseTooShort(w, e)] \in Tasks
        /\ [t EXCEPT !.phase = "fatal"] \in Tasks
    BY <1>1, <2>1, TaskUpdates DEF Settling
  <2>3. PICK u \in Tasks : task' = [task EXCEPT ![w][e] = u]
    BY <2>2 DEF Dispatch
  <2> QED
    BY <2>3, Placed
<1>3. heartbeat' \subseteq Heartbeats
  <2>1. [worker |-> w, event |-> e, claim |-> t.claim,
         beat |-> HeartbeatTicks] \in Heartbeats
    BY <1>1, TicksType DEF Heartbeats
  <2> QED
    BY <2>1 DEF Dispatch, TypeOK
<1>4. starts' \in [Events -> SUBSET (0..MaxAttempts)]
  BY <1>1 DEF Dispatch, TypeOK
<1> QED
  BY <1>2, <1>3, <1>4 DEF Dispatch, TypeOK

LEMMA FinishedType ==
  ASSUME TypeOK, NEW w \in Workers, NEW e \in Events
  PROVE  Finished(w, e) \in [Workers -> [Events -> Tasks]]
BY IdleType, Placed DEF Finished

LEMMA HandlerReturnsTypeOK ==
  ASSUME TypeOK, NEW w \in Workers, NEW e \in Events, HandlerReturns(w, e)
  PROVE  TypeOK'
<1> DEFINE Moved(outcome) ==
      [task EXCEPT ![w][e] = [@ EXCEPT !.phase = NextPhase(w, e, outcome)]]
<1>1. PICK outcome \in Outcomes :
         /\ delivered' = [delivered EXCEPT ![e] = @ \/ outcome = "ok"]
         /\ task' = Finished(w, e) \/ task' = Moved(outcome)
  BY DEF HandlerReturns
<1>2. task' \in [Workers -> [Events -> Tasks]]
  <2>1. NextPhase(w, e, outcome) \in Settling
    BY DEF NextPhase, Settling
  <2>2. task[w][e] \in Tasks
    BY DEF TypeOK
  <2>3. [task[w][e] EXCEPT !.phase = NextPhase(w, e, outcome)] \in Tasks
    BY <2>1, <2>2, TaskUpdates
  <2>4. Moved(outcome) \in [Workers -> [Events -> Tasks]]
    BY <2>3, Placed
  <2> HIDE DEF Moved
  <2> QED
    BY <1>1, <2>4, FinishedType
<1>3. heartbeat' \subseteq Heartbeats
  BY DEF HandlerReturns, TypeOK
<1>4. delivered' \in [Events -> BOOLEAN]
  BY <1>1 DEF TypeOK
<1> QED
  BY <1>2, <1>3, <1>4 DEF HandlerReturns, TypeOK

LEMMA SettleTypeOK ==
  ASSUME TypeOK, NEW w \in Workers, NEW e \in Events,
         Settle(w, e) \/ SettleFails(w, e)
  PROVE  TypeOK'
<1>1. row[e] \in Rows /\ Unlocked(row[e]) \in Rows
  BY RowUpdates DEF TypeOK
<1>2. task[w][e].claim \in 0..MaxAttempts
  BY DEF TypeOK, Tasks
<1>3. ASSUME Settle(w, e) PROVE row' \in [Events -> Rows]
  <2>1. CASE MarkProcessed(w, e)
    <3>1. [Unlocked(row[e]) EXCEPT !.processed = TRUE] \in Rows
      BY <1>1, RowUpdates
    <3> QED
      BY <2>1, <3>1, Placed DEF MarkProcessed, TypeOK
  <2>2. CASE MarkFailure(w, e)
    <3>1. CurrentAttempt(w, e) \in 0..MaxAttempts
      BY <1>2, <2>2, BoundsAssumption DEF MarkFailure, CurrentAttempt
    <3>2. Backoff(CurrentAttempt(w, e)) \in Nat
      BY <3>1, BackoffAssumption
    <3>3. [Unlocked(row[e]) EXCEPT !.attempts = CurrentAttempt(w, e),
                                   !.wait = Backoff(CurrentAttempt(w, e))] \in Rows
      BY <1>1, <3>1, <3>2, RowUpdates
    <3> QED
      BY <2>2, <3>3, Placed DEF MarkFailure, TypeOK
  <2>3. CASE MarkDeadLetter(w, e)
    <3>0. MaxAttempts \in 0..MaxAttempts
      BY BoundsAssumption
    <3>1. [Unlocked(row[e]) EXCEPT !.attempts = MaxAttempts] \in Rows
      BY <1>1, <3>0, RowUpdates
    <3> QED
      BY <2>3, <3>1, Placed DEF MarkDeadLetter, TypeOK
  <2>4. CASE ReleaseLease(w, e)
    BY <1>1, <2>4, Placed DEF ReleaseLease, TypeOK
  <2> QED
    BY <1>3, <2>1, <2>2, <2>3, <2>4 DEF Settle
<1> QED
  BY <1>3, FinishedType DEF Settle, SettleFails, TypeOK

LEMMA HeartbeatStepsTypeOK ==
  ASSUME TypeOK, NEW h \in heartbeat, HeartbeatStep(h)
  PROVE  TypeOK'
<1>1. h \in Heartbeats /\ h.worker \in Workers /\ h.event \in Events
  BY DEF TypeOK, Heartbeats
<1>2. Renewed(h) \in [Events -> Rows]
  <2>1. LeaseTicks \in NoLease..LeaseTicks
    BY BoundsAssumption DEF NoLease
  <2>2. [row[h.event] EXCEPT !.lease = LeaseTicks] \in Rows
    BY <1>1, <2>1, RowUpdates DEF TypeOK
  <2> QED
    BY <1>1, <2>2 DEF TypeOK, Renewed
<1>3. CASE Renew(h)
  <2>1. [h EXCEPT !.beat = HeartbeatTicks] \in Heartbeats
    BY <1>1, TicksType DEF Heartbeats
  <2> QED
    BY <1>2, <1>3, <2>1 DEF Renew, TypeOK
<1>4. CASE RenewFails(h)
  <2>1. row' \in [Events -> Rows] /\ heartbeat' \subseteq Heartbeats
    BY <1>2, <1>4 DEF RenewFails, TypeOK
  <2>2. task' \in [Workers -> [Events -> Tasks]]
    <3>1. CASE UNCHANGED task
      BY <3>1 DEF TypeOK
    <3>2. CASE \E lost \in BOOLEAN :
                 task' = [task EXCEPT ![h.worker][h.event] = [@ EXCEPT !.lost = lost]]
      <4>1. task[h.worker][h.event] \in Tasks
        BY <1>1 DEF TypeOK
      <4>2. PICK lost \in BOOLEAN :
              task' = [task EXCEPT ![h.worker][h.event] = [@ EXCEPT !.lost = lost]]
        BY <3>2
      <4>3. [task[h.worker][h.event] EXCEPT !.lost = lost] \in Tasks
        BY <4>1, TaskUpdates
      <4> QED
        BY <1>1, <4>2, <4>3, Placed
    <3> QED
      BY <1>4, <3>1, <3>2 DEF RenewFails
  <2> QED
    BY <1>4, <2>1, <2>2 DEF RenewFails, TypeOK
<1>5. CASE HeartbeatQuits(h)
  BY <1>5 DEF HeartbeatQuits, TypeOK
<1> QED
  BY <1>3, <1>4, <1>5 DEF HeartbeatStep

LEMMA TickTypeOK ==
  ASSUME TypeOK, Tick
  PROVE  TypeOK'
<1>1. ASSUME NEW r \in Rows
      PROVE  [r EXCEPT !.lease = Down(@, NoLease), !.wait = Down(@, 0)] \in Rows
  <2>1. /\ Down(r.lease, NoLease) \in NoLease..LeaseTicks
        /\ Down(r.wait, 0) \in Nat
    BY BoundsAssumption DEF Rows, Down, NoLease
  <2> QED
    BY <2>1 DEF Rows
<1>2. ASSUME NEW t \in Tasks
      PROVE  [t EXCEPT !.left = Down(@, 0)] \in Tasks
  <2>1. Down(t.left, 0) \in 0..HandlerTicks
    BY TicksType DEF Tasks, Down
  <2> QED
    BY <2>1 DEF Tasks
<1>3. ASSUME NEW h \in Heartbeats
      PROVE  [h EXCEPT !.beat = Down(@, 0)] \in Heartbeats
  <2>1. Down(h.beat, 0) \in 0..HeartbeatTicks
    BY TicksType DEF Heartbeats, Down
  <2> QED
    BY <2>1 DEF Heartbeats
<1>4. row' \in [Events -> Rows]
  BY <1>1 DEF Tick, TypeOK
<1>5. task' \in [Workers -> [Events -> Tasks]]
  BY <1>2 DEF Tick, TypeOK
<1>6. heartbeat' \subseteq Heartbeats
  BY <1>3 DEF Tick, TypeOK
<1> QED
  BY <1>4, <1>5, <1>6 DEF Tick, TypeOK

LEMMA NextTypeOK == TypeOK /\ [Next]_vars => TypeOK'
<1> SUFFICES ASSUME TypeOK, [Next]_vars PROVE TypeOK'
  OBVIOUS
<1>1. CASE UNCHANGED vars
  BY <1>1 DEF vars, TypeOK
<1>2. CASE Next
  BY <1>2, RowStepsTypeOK, LifeStepsTypeOK, BatchStepsTypeOK, DispatchTypeOK,
     HandlerReturnsTypeOK, SettleTypeOK, HeartbeatStepsTypeOK, TickTypeOK DEF Next, WorkerStep
<1> QED
  BY <1>1, <1>2

(***************************************************************************)
(* Type correctness.  Its weight is on attempts, which three statements    *)
(* write and which never leaves the table's CHECK (attempts <=             *)
(* max_attempts), and on the lease, which no timer takes below its floor.  *)
(***************************************************************************)
THEOREM TypeCorrect == Spec => []TypeOK
BY InitTypeOK, NextTypeOK, PTL DEF Spec
-----------------------------------------------------------------------------
(***************************************************************************)
(* The inductive invariant.  Most steps leave what it speaks of alone: the *)
(* counters, the owners and the marks of the rows stay, and a task goes on *)
(* with its claim or ends.  Claim, Dispatch and Settle are the others.     *)
(***************************************************************************)
SameRow(e) ==
  /\ row'[e].attempts = row[e].attempts
  /\ row'[e].processed = row[e].processed
  /\ row'[e].lockedBy = row[e].lockedBy
  /\ row[e].stage # "unborn" => row'[e].stage # "unborn"

TaskGoesOn(w, e) ==
  /\ task'[w][e].claim = task[w][e].claim
  /\ task[w][e].phase # "none"
  /\ task'[w][e].phase = "queued" => task[w][e].phase = "queued"
  /\ task'[w][e].phase = "succeeded" =>
       task[w][e].phase = "succeeded" \/ delivered'[e]

Quiet ==
  /\ \A e \in Events : SameRow(e)
  /\ \A w \in Workers, e \in Events :
       task'[w][e].phase = "none" \/ TaskGoesOn(w, e)
  /\ \A e \in Events : delivered[e] => delivered'[e]
  /\ starts' = starts

\* A quiet step keeps the invariant.
LEMMA QuietStep ==
  ASSUME IInv, TypeOK', Quiet
  PROVE  IInv'
<1>1. ASSUME NEW w \in Workers, NEW e \in Events, Busy(w, e)'
      PROVE  Busy(w, e) /\ TaskGoesOn(w, e)
  BY <1>1 DEF Quiet, TaskGoesOn, Busy
<1>2. LockNamesTheLatestClaim'
  <2> SUFFICES ASSUME NEW w \in Workers, NEW e \in Events,
                      Busy(w, e)', row'[e].lockedBy = w
               PROVE  task'[w][e].claim = row'[e].attempts
    BY DEF LockNamesTheLatestClaim
  <2> QED
    BY <1>1 DEF Quiet, SameRow, TaskGoesOn, IInv, LockNamesTheLatestClaim
<1>3. EachClaimRunsOnce'
  <2> SUFFICES ASSUME NEW w \in Workers, NEW e \in Events, Busy(w, e)'
               PROVE  /\ \A v \in Workers :
                           Busy(v, e)' /\ task'[v][e].claim = task'[w][e].claim => v = w
                      /\ task'[w][e].phase = "queued" => task'[w][e].claim \notin starts'[e]
    BY DEF EachClaimRunsOnce
  <2>1. Busy(w, e) /\ TaskGoesOn(w, e)
    BY <1>1
  <2>2. ASSUME NEW v \in Workers, Busy(v, e)', task'[v][e].claim = task'[w][e].claim
        PROVE  v = w
    <3>1. Busy(v, e) /\ TaskGoesOn(v, e)
      BY <1>1, <2>2
    <3> QED
      BY <2>1, <2>2, <3>1 DEF TaskGoesOn, IInv, EachClaimRunsOnce
  <2>3. task'[w][e].phase = "queued" => task'[w][e].claim \notin starts'[e]
    BY <2>1 DEF Quiet, TaskGoesOn, IInv, EachClaimRunsOnce
  <2> QED
    BY <2>2, <2>3
<1>4. AttemptsCountClaims'
  BY DEF Quiet, SameRow, IInv, AttemptsCountClaims
<1>5. ProcessedWasDelivered'
  BY DEF Quiet, SameRow, IInv, ProcessedWasDelivered
<1>6. TasksAreCounted'
  <2> SUFFICES ASSUME NEW w \in Workers, NEW e \in Events, Busy(w, e)'
               PROVE  /\ row'[e].stage # "unborn"
                      /\ task'[w][e].claim \in 1..row'[e].attempts
                      /\ task'[w][e].phase = "succeeded" => delivered'[e]
    BY DEF TasksAreCounted
  <2> QED
    BY <1>1 DEF Quiet, SameRow, TaskGoesOn, IInv, TasksAreCounted
<1>7. UnbornIsUntouched'
  BY DEF Quiet, SameRow, IInv, UnbornIsUntouched
<1> QED
  BY <1>2, <1>3, <1>4, <1>5, <1>6, <1>7 DEF IInv

\* Idle tasks replace tasks; those that are kept go on.
LEMMA QuietTasks ==
  ASSUME TypeOK, TypeOK', NEW w \in Workers, NEW e \in Events,
         \/ task'[w][e] = Idle
         \/ task'[w][e] = task[w][e]
         \/ /\ task[w][e].phase # "none"
            /\ task'[w][e].phase = task[w][e].phase
            /\ task'[w][e].claim = task[w][e].claim
  PROVE  task'[w][e].phase = "none" \/ TaskGoesOn(w, e)
BY DEF TaskGoesOn, Idle

LEMMA RowStepsQuiet ==
  ASSUME TypeOK, TypeOK', NEW e \in Events, Create(e) \/ DeleteProcessed(e)
  PROVE  Quiet
<1>1. ASSUME NEW f \in Events PROVE SameRow(f)
  BY DEF Create, DeleteProcessed, SameRow, TypeOK, Rows
<1>2. UNCHANGED <<task, starts, delivered>>
  BY DEF Create, DeleteProcessed
<1> QED
  BY <1>1, <1>2, QuietTasks DEF Quiet

LEMMA LifeStepsQuiet ==
  ASSUME TypeOK, TypeOK', NEW w \in Workers,
         \/ Start(w) \/ Signal(w) \/ Stop(w) \/ StopReturns(w) \/ Crash(w)
         \/ DropQueued(w)
  PROVE  Quiet
<1>1. UNCHANGED <<row, starts, delivered>>
  BY DEF Start, Signal, Stop, StopReturns, Crash, Gone, DropQueued
<1>2. ASSUME NEW v \in Workers, NEW e \in Events
      PROVE  task'[v][e] = Idle \/ task'[v][e] = task[v][e]
  BY DEF Start, Signal, Stop, StopReturns, Crash, Gone, DropQueued, TypeOK
<1> QED
  BY <1>1, <1>2, QuietTasks DEF Quiet, SameRow

LEMMA HandlerReturnsQuiet ==
  ASSUME TypeOK, TypeOK', NEW w \in Workers, NEW e \in Events,
         HandlerReturns(w, e) \/ SettleFails(w, e)
  PROVE  Quiet
<1>1. UNCHANGED <<row, starts>> /\ \A f \in Events : delivered[f] => delivered'[f]
  BY DEF HandlerReturns, SettleFails, TypeOK
<1>2. ASSUME NEW v \in Workers, NEW f \in Events, v # w \/ f # e
      PROVE  task'[v][f] = task[v][f]
  BY <1>2 DEF HandlerReturns, SettleFails, Finished, TypeOK
<1>3. task'[w][e].phase = "none" \/ TaskGoesOn(w, e)
  <2>1. CASE task'[w][e] = Idle
    BY <2>1 DEF Idle
  <2>2. CASE HandlerReturns(w, e) /\ task'[w][e] # Idle
    <3>1. PICK outcome \in Outcomes :
            /\ delivered' = [delivered EXCEPT ![e] = @ \/ outcome = "ok"]
            /\ task' = Finished(w, e)
               \/ task' = [task EXCEPT ![w][e] =
                             [@ EXCEPT !.phase = NextPhase(w, e, outcome)]]
      BY <2>2 DEF HandlerReturns
    <3>2. task'[w][e] = [task[w][e] EXCEPT !.phase = NextPhase(w, e, outcome)]
      BY <2>2, <3>1 DEF Finished, TypeOK
    <3>3. /\ task'[w][e].claim = task[w][e].claim
          /\ task'[w][e].phase = NextPhase(w, e, outcome)
      BY <3>2 DEF TypeOK, Tasks
    <3>4. NextPhase(w, e, outcome) = "succeeded" => delivered'[e]
      BY <3>1 DEF NextPhase, TypeOK
    <3>5. NextPhase(w, e, outcome) # "queued"
      BY DEF NextPhase
    <3> QED
      BY <2>2, <3>3, <3>4, <3>5 DEF TaskGoesOn, HandlerReturns
  <2>3. CASE SettleFails(w, e)
    BY <2>3 DEF SettleFails, Finished, TypeOK, Idle
  <2> QED
    BY <2>1, <2>2, <2>3
<1> QED
  BY <1>1, <1>2, <1>3, QuietTasks DEF Quiet, SameRow

LEMMA HeartbeatStepsQuiet ==
  ASSUME TypeOK, TypeOK', NEW h \in heartbeat, HeartbeatStep(h)
  PROVE  Quiet
<1>1. ASSUME NEW e \in Events PROVE SameRow(e)
  <2>1. row'[e] = row[e] \/ row'[e] = [row[e] EXCEPT !.lease = LeaseTicks]
    BY DEF HeartbeatStep, Renew, RenewFails, HeartbeatQuits, Renewed, TypeOK
  <2>2. row[e] \in Rows
    BY DEF TypeOK
  <2> QED
    BY <2>1, <2>2 DEF SameRow, Rows
<1>2. UNCHANGED <<starts, delivered>>
  BY DEF HeartbeatStep, Renew, RenewFails, HeartbeatQuits
<1>3. ASSUME NEW w \in Workers, NEW e \in Events
      PROVE  task'[w][e].phase = "none" \/ TaskGoesOn(w, e)
  <2>1. CASE UNCHANGED task
    BY <2>1, QuietTasks
  <2>2. CASE ~ UNCHANGED task
    <3>1. /\ task[h.worker][h.event].phase = "handling"
          /\ \E lost \in BOOLEAN :
               task' = [task EXCEPT ![h.worker][h.event] = [@ EXCEPT !.lost = lost]]
      BY <2>2 DEF HeartbeatStep, Renew, RenewFails, HeartbeatQuits
    <3>2. \/ task'[w][e] = task[w][e]
          \/ /\ task[w][e].phase # "none"
             /\ task'[w][e].phase = task[w][e].phase
             /\ task'[w][e].claim = task[w][e].claim
      BY <3>1 DEF TypeOK, Tasks
    <3> QED
      BY <3>2, QuietTasks
  <2> QED
    BY <2>1, <2>2
<1> QED
  BY <1>1, <1>2, <1>3 DEF Quiet

LEMMA TickQuiet ==
  ASSUME TypeOK, TypeOK', Tick
  PROVE  Quiet
<1>1. ASSUME NEW e \in Events PROVE SameRow(e)
  <2>1. row'[e] = [row[e] EXCEPT !.lease = Down(@, NoLease), !.wait = Down(@, 0)]
    BY DEF Tick
  <2>2. row[e] \in Rows
    BY DEF TypeOK
  <2> QED
    BY <2>1, <2>2 DEF SameRow, Rows
<1>2. UNCHANGED <<starts, delivered>>
  BY DEF Tick
<1>3. ASSUME NEW w \in Workers, NEW e \in Events
      PROVE  /\ task'[w][e].phase = task[w][e].phase
             /\ task'[w][e].claim = task[w][e].claim
  <2>1. task'[w][e] = [task[w][e] EXCEPT !.left = Down(@, 0)]
    BY DEF Tick
  <2>2. task[w][e] \in Tasks
    BY DEF TypeOK
  <2> QED
    BY <2>1, <2>2 DEF Tasks
<1> QED
  BY <1>1, <1>2, <1>3 DEF Quiet, TaskGoesOn

-----------------------------------------------------------------------------
(***************************************************************************)
(* Claim: the claims of S get the numbers after the last counted ones,     *)
(* which no task and no start has; the worker has no task left.            *)
(***************************************************************************)
LEMMA ClaimKeepsIInv ==
  ASSUME IInv, TypeOK', NEW w \in Workers, Claim(w)
  PROVE  IInv'
<1>1. PICK S \in SUBSET {e \in Events : Claimable(w, e)}, answered \in BOOLEAN :
         /\ row' = [e \in Events |->
                      IF e \in S
                      THEN [row[e] EXCEPT !.lockedBy = w,
                                          !.lease = LeaseTicks,
                                          !.attempts = @ + 1]
                      ELSE row[e]]
         /\ task' = [task EXCEPT ![w] =
                       [e \in Events |->
                          IF answered /\ e \in S
                          THEN [Idle EXCEPT !.phase = "queued",
                                            !.claim = row[e].attempts + 1]
                          ELSE task[w][e]]]
  BY DEF Claim
<1>2. BatchDone(w) /\ UNCHANGED <<starts, delivered>> /\ TypeOK
  BY DEF Claim, IInv
<1>3. ASSUME NEW e \in S
      PROVE  /\ row[e].stage = "stored" /\ ~row[e].processed
             /\ row'[e].stage = "stored" /\ ~row'[e].processed
             /\ row'[e].lockedBy = w /\ row'[e].attempts = row[e].attempts + 1
             /\ row[e].attempts \in Nat
  <2>1. e \in Events /\ row[e] \in Rows /\ Claimable(w, e)
    BY <1>2 DEF TypeOK
  <2>2. row'[e] = [row[e] EXCEPT !.lockedBy = w, !.lease = LeaseTicks, !.attempts = @ + 1]
    BY <1>1, <2>1
  <2> QED
    BY <2>1, <2>2, BoundsAssumption DEF Claimable, Rows
<1>4. ASSUME NEW e \in Events, e \notin S PROVE row'[e] = row[e]
  BY <1>1, <1>4
<1>5. ASSUME NEW v \in Workers, NEW e \in Events, v # w
      PROVE  task'[v][e] = task[v][e]
  BY <1>1, <1>2, <1>5 DEF TypeOK
<1>6. ASSUME NEW e \in Events, Busy(w, e)'
      PROVE  /\ e \in S
             /\ task'[w][e].phase = "queued"
             /\ task'[w][e].claim = row[e].attempts + 1
  <2>1. ~Busy(w, e)
    BY <1>2 DEF BatchDone, Busy
  <2>2. answered /\ e \in S
    BY <1>1, <1>2, <1>6, <2>1 DEF Busy, TypeOK
  <2>3. task'[w][e] = [Idle EXCEPT !.phase = "queued", !.claim = row[e].attempts + 1]
    BY <1>1, <1>2, <2>2 DEF TypeOK
  <2> QED
    BY <2>2, <2>3 DEF Idle
<1>7. ASSUME NEW v \in Workers, NEW e \in Events, v # w, Busy(v, e)'
      PROVE  /\ Busy(v, e) /\ task'[v][e] = task[v][e]
             /\ task[v][e].claim \in 1..row[e].attempts
             /\ row[e].attempts \in Nat
             /\ task'[v][e].claim \in 1..row'[e].attempts
             /\ row'[e].stage # "unborn"
  <2>1. Busy(v, e) /\ task'[v][e] = task[v][e]
    BY <1>5, <1>7 DEF Busy
  <2>2. task[v][e].claim \in 1..row[e].attempts /\ row[e].stage # "unborn"
    BY <2>1 DEF IInv, TasksAreCounted
  <2>3. row[e].attempts \in Nat
    BY <1>2 DEF TypeOK, Rows
  <2> QED
    BY <1>3, <1>4, <2>1, <2>2, <2>3
<1>8. LockNamesTheLatestClaim'
  <2> SUFFICES ASSUME NEW v \in Workers, NEW e \in Events,
                      Busy(v, e)', row'[e].lockedBy = v
               PROVE  task'[v][e].claim = row'[e].attempts
    BY DEF LockNamesTheLatestClaim
  <2>1. CASE v = w
    BY <1>3, <1>6, <2>1
  <2>2. CASE v # w
    <3>1. e \notin S
      BY <1>3, <2>2
    <3> QED
      BY <1>4, <1>7, <2>2, <3>1 DEF IInv, LockNamesTheLatestClaim
  <2> QED
    BY <2>1, <2>2
<1>9. EachClaimRunsOnce'
  <2> SUFFICES ASSUME NEW u \in Workers, NEW e \in Events, Busy(u, e)'
               PROVE  /\ \A v \in Workers :
                           Busy(v, e)' /\ task'[v][e].claim = task'[u][e].claim => v = u
                      /\ task'[u][e].phase = "queued" => task'[u][e].claim \notin starts'[e]
    BY DEF EachClaimRunsOnce
  <2>1. ASSUME NEW v \in Workers, Busy(v, e)', task'[v][e].claim = task'[u][e].claim
        PROVE  v = u
    <3>1. CASE u # w /\ v # w
      BY <1>7, <2>1, <3>1 DEF IInv, EachClaimRunsOnce
    <3>2. CASE u = w /\ v # w
      BY <1>6, <1>7, <2>1, <3>2
    <3>3. CASE u # w /\ v = w
      BY <1>6, <1>7, <2>1, <3>3
    <3> QED
      BY <3>1, <3>2, <3>3
  <2>2. task'[u][e].phase = "queued" => task'[u][e].claim \notin starts'[e]
    <3>1. CASE u # w
      BY <1>2, <1>7, <3>1 DEF IInv, EachClaimRunsOnce
    <3>2. CASE u = w
      <4>1. starts[e] \subseteq 1..row[e].attempts
        BY DEF IInv, AttemptsCountClaims
      <4> QED
        BY <1>2, <1>3, <1>6, <3>2, <4>1
    <3> QED
      BY <3>1, <3>2
  <2> QED
    BY <2>1, <2>2
<1>10. AttemptsCountClaims'
  <2> SUFFICES ASSUME NEW e \in Events
               PROVE  /\ row'[e].attempts <= MaxAttempts
                      /\ starts'[e] \subseteq 1..row'[e].attempts
                      /\ row'[e].lockedBy # NoWorker => row'[e].attempts > 0
    BY DEF AttemptsCountClaims
  <2>1. row'[e].attempts <= MaxAttempts
    BY BoundsAssumption DEF TypeOK, Rows
  <2>2. CASE e \in S
    BY <1>2, <1>3, <2>1, <2>2 DEF IInv, AttemptsCountClaims
  <2>3. CASE e \notin S
    BY <1>2, <1>4, <2>1, <2>3 DEF IInv, AttemptsCountClaims
  <2> QED
    BY <2>2, <2>3
<1>11. ProcessedWasDelivered'
  BY <1>2, <1>3, <1>4 DEF IInv, ProcessedWasDelivered
<1>12. TasksAreCounted'
  <2> SUFFICES ASSUME NEW v \in Workers, NEW e \in Events, Busy(v, e)'
               PROVE  /\ row'[e].stage # "unborn"
                      /\ task'[v][e].claim \in 1..row'[e].attempts
                      /\ task'[v][e].phase = "succeeded" => delivered'[e]
    BY DEF TasksAreCounted
  <2>1. CASE v = w
    BY <1>3, <1>6, <2>1
  <2>2. CASE v # w
    BY <1>2, <1>7, <2>2 DEF IInv, TasksAreCounted
  <2> QED
    BY <2>1, <2>2
<1>13. UnbornIsUntouched'
  BY <1>3, <1>4 DEF IInv, UnbornIsUntouched
<1> QED
  BY <1>8, <1>9, <1>10, <1>11, <1>12, <1>13 DEF IInv

\* Dispatch: only the dispatched task's claim joins the started ones.
LEMMA DispatchKeepsIInv ==
  ASSUME IInv, TypeOK', NEW w \in Workers, NEW e \in Events, Dispatch(w, e)
  PROVE  IInv'
<1>1. TypeOK /\ UNCHANGED <<row, delivered>> /\ Busy(w, e)
  BY DEF Dispatch, IInv, Busy
<1>2. ASSUME NEW v \in Workers, NEW f \in Events, v # w \/ f # e
      PROVE  task'[v][f] = task[v][f]
  BY <1>1, <1>2 DEF Dispatch, TypeOK
<1>3. /\ task'[w][e].claim = task[w][e].claim
      /\ task'[w][e].phase \in {"handling", "fatal"}
  <2>1. \/ task'[w][e] = [task[w][e] EXCEPT !.phase = "handling",
                                           !.left = HandlerTicks,
                                           !.late = LeaseTooShort(w, e)]
        \/ task'[w][e] = [task[w][e] EXCEPT !.phase = "fatal"]
    BY <1>1 DEF Dispatch, TypeOK
  <2>2. task[w][e] \in Tasks
    BY <1>1 DEF TypeOK
  <2> QED
    BY <2>1, <2>2 DEF Tasks
<1>4. ASSUME NEW f \in Events
      PROVE  starts'[f] \subseteq starts[f] \cup (IF f = e THEN {task[w][e].claim} ELSE {})
  BY <1>1 DEF Dispatch, TypeOK
<1>5. ASSUME NEW v \in Workers, NEW f \in Events, Busy(v, f)'
      PROVE  /\ Busy(v, f) /\ task'[v][f].claim = task[v][f].claim
             /\ task'[v][f].phase \in {"queued", "succeeded"} =>
                  task'[v][f].phase = task[v][f].phase /\ (v # w \/ f # e)
  BY <1>1, <1>2, <1>3, <1>5 DEF Busy
<1>6. LockNamesTheLatestClaim'
  BY <1>1, <1>5 DEF IInv, LockNamesTheLatestClaim
<1>7. EachClaimRunsOnce'
  <2> SUFFICES ASSUME NEW u \in Workers, NEW f \in Events, Busy(u, f)'
               PROVE  /\ \A v \in Workers :
                           Busy(v, f)' /\ task'[v][f].claim = task'[u][f].claim => v = u
                      /\ task'[u][f].phase = "queued" => task'[u][f].claim \notin starts'[f]
    BY DEF EachClaimRunsOnce
  <2>1. ASSUME NEW v \in Workers, Busy(v, f)', task'[v][f].claim = task'[u][f].claim
        PROVE  v = u
    BY <1>5, <2>1 DEF IInv, EachClaimRunsOnce
  <2>2. ASSUME task'[u][f].phase = "queued"
        PROVE  task'[u][f].claim \notin starts'[f]
    <3>1. /\ Busy(u, f) /\ task'[u][f].claim = task[u][f].claim
          /\ task[u][f].phase = "queued" /\ (u # w \/ f # e)
      BY <1>5, <2>2
    <3>2. task[u][f].claim \notin starts[f]
      BY <3>1 DEF IInv, EachClaimRunsOnce
    <3>3. f = e => task[u][f].claim # task[w][e].claim
      BY <1>1, <3>1 DEF IInv, EachClaimRunsOnce
    <3> QED
      BY <1>4, <3>1, <3>2, <3>3
  <2> QED
    BY <2>1, <2>2
<1>8. AttemptsCountClaims'
  <2>1. task[w][e].claim \in 1..row[e].attempts
    BY <1>1 DEF IInv, TasksAreCounted
  <2> QED
    BY <1>1, <1>4, <2>1 DEF IInv, AttemptsCountClaims
<1>9. ProcessedWasDelivered'
  BY <1>1 DEF IInv, ProcessedWasDelivered
<1>10. TasksAreCounted'
  BY <1>1, <1>5 DEF IInv, TasksAreCounted
<1>11. UnbornIsUntouched'
  BY <1>1 DEF IInv, UnbornIsUntouched
<1> QED
  BY <1>6, <1>7, <1>8, <1>9, <1>10, <1>11 DEF IInv

(***************************************************************************)
(* Settle: of a row it owns a worker has the latest claim, so that what it *)
(* writes never counts back; the row is unlocked.                          *)
(***************************************************************************)
LEMMA SettleWrites ==
  ASSUME IInv, NEW w \in Workers, NEW e \in Events, Settle(w, e), Owns(w, e)
  PROVE  /\ row'[e].lockedBy = NoWorker
         /\ row'[e].stage = "stored"
         /\ row'[e].attempts \in row[e].attempts..MaxAttempts
         /\ row'[e].processed => delivered[e]
         /\ \A f \in Events : f # e => row'[f] = row[f]
<1>1. /\ row \in [Events -> Rows] /\ row[e] \in Rows
      /\ task[w][e].claim \in 0..MaxAttempts
  BY DEF IInv, TypeOK, Tasks
<1>2. /\ Unlocked(row[e]).lockedBy = NoWorker
      /\ Unlocked(row[e]).stage = "stored"
      /\ Unlocked(row[e]).attempts = row[e].attempts
      /\ Unlocked(row[e]).processed = FALSE
      /\ Unlocked(row[e]) \in Rows
  BY <1>1, RowUpdates DEF Unlocked, Owns, Rows
<1>3. row[e].attempts \in 0..MaxAttempts
  BY <1>1 DEF Rows
<1>4. CASE MarkProcessed(w, e)
  <2>1. row'[e] = [Unlocked(row[e]) EXCEPT !.processed = TRUE]
        /\ \A f \in Events : f # e => row'[f] = row[f]
    BY <1>1, <1>4 DEF MarkProcessed
  <2>2. delivered[e]
    BY <1>4 DEF MarkProcessed, IInv, TasksAreCounted, Busy
  <2> QED
    BY <1>2, <1>3, <2>1, <2>2, BoundsAssumption DEF Rows
<1>5. CASE MarkFailure(w, e)
  <2>1. row'[e] = [Unlocked(row[e]) EXCEPT !.attempts = CurrentAttempt(w, e),
                                           !.wait = Backoff(CurrentAttempt(w, e))]
        /\ \A f \in Events : f # e => row'[f] = row[f]
    BY <1>1, <1>5 DEF MarkFailure
  <2>2. task[w][e].claim = row[e].attempts
    BY <1>5 DEF MarkFailure, Owns, IInv, LockNamesTheLatestClaim, Busy
  <2>3. CurrentAttempt(w, e) \in row[e].attempts..MaxAttempts
    BY <1>3, <1>5, <2>2, BoundsAssumption DEF MarkFailure, CurrentAttempt
  <2>4. /\ row'[e].lockedBy = NoWorker /\ row'[e].stage = "stored"
        /\ row'[e].attempts = CurrentAttempt(w, e)
        /\ row'[e].processed = FALSE
    BY <1>2, <2>1 DEF Rows
  <2> QED
    BY <2>1, <2>3, <2>4
<1>6. CASE MarkDeadLetter(w, e)
  <2>1. row'[e] = [Unlocked(row[e]) EXCEPT !.attempts = MaxAttempts]
        /\ \A f \in Events : f # e => row'[f] = row[f]
    BY <1>1, <1>6 DEF MarkDeadLetter
  <2> QED
    BY <1>2, <1>3, <2>1, BoundsAssumption DEF Rows
<1>7. CASE ReleaseLease(w, e)
  <2>1. row'[e] = Unlocked(row[e])
        /\ \A f \in Events : f # e => row'[f] = row[f]
    BY <1>1, <1>7 DEF ReleaseLease
  <2> QED
    BY <1>2, <1>3, <2>1, BoundsAssumption
<1> QED
  BY <1>4, <1>5, <1>6, <1>7 DEF Settle

LEMMA SettleKeepsIInv ==
  ASSUME IInv, TypeOK', NEW w \in Workers, NEW e \in Events, Settle(w, e)
  PROVE  IInv'
<1>1. /\ TypeOK /\ UNCHANGED <<starts, delivered>>
      /\ task'[w][e] = Idle
      /\ \A v \in Workers, f \in Events : v # w \/ f # e => task'[v][f] = task[v][f]
  BY DEF Settle, Finished, IInv, TypeOK
<1>2. CASE ~Owns(w, e)
  <2>1. UNCHANGED row
    BY <1>2 DEF Settle, MarkProcessed, MarkFailure, MarkDeadLetter, ReleaseLease
  <2>2. Quiet
    BY <1>1, <2>1, QuietTasks DEF Quiet, SameRow
  <2> QED
    BY <2>2, QuietStep
<1>3. CASE Owns(w, e)
  <2>1. /\ row'[e].lockedBy = NoWorker /\ row'[e].stage = "stored"
        /\ row'[e].attempts \in row[e].attempts..MaxAttempts
        /\ row'[e].processed => delivered[e]
        /\ \A f \in Events : f # e => row'[f] = row[f]
    BY <1>3, SettleWrites
  <2>2. row[e].attempts \in Nat /\ row'[e].attempts \in Nat
    BY <1>1 DEF TypeOK, Rows
  <2>3. ASSUME NEW v \in Workers, NEW f \in Events, Busy(v, f)'
        PROVE  Busy(v, f) /\ task'[v][f] = task[v][f] /\ (v # w \/ f # e)
    BY <1>1, <2>3 DEF Busy, Idle
  <2>4. LockNamesTheLatestClaim'
    BY <2>1, <2>3, WorkersAssumption DEF IInv, LockNamesTheLatestClaim
  <2>5. EachClaimRunsOnce'
    BY <1>1, <2>3 DEF IInv, EachClaimRunsOnce
  <2>6. AttemptsCountClaims'
    <3> SUFFICES ASSUME NEW f \in Events
                 PROVE  /\ row'[f].attempts <= MaxAttempts
                        /\ starts'[f] \subseteq 1..row'[f].attempts
                        /\ row'[f].lockedBy # NoWorker => row'[f].attempts > 0
      BY DEF AttemptsCountClaims
    <3>1. CASE f = e
      BY <1>1, <2>1, <2>2, <3>1, BoundsAssumption DEF IInv, AttemptsCountClaims
    <3>2. CASE f # e
      BY <1>1, <2>1, <3>2 DEF IInv, AttemptsCountClaims
    <3> QED
      BY <3>1, <3>2
  <2>7. ProcessedWasDelivered'
    BY <1>1, <2>1 DEF IInv, ProcessedWasDelivered
  <2>8. TasksAreCounted'
    <3> SUFFICES ASSUME NEW v \in Workers, NEW f \in Events, Busy(v, f)'
                 PROVE  /\ row'[f].stage # "unborn"
                        /\ task'[v][f].claim \in 1..row'[f].attempts
                        /\ task'[v][f].phase = "succeeded" => delivered'[f]
      BY DEF TasksAreCounted
    <3>1. /\ row[f].stage # "unborn" /\ task[v][f].claim \in 1..row[f].attempts
          /\ task[v][f].phase = "succeeded" => delivered[f]
      BY <2>3 DEF IInv, TasksAreCounted
    <3>2. row'[f].stage # "unborn" /\ task[v][f].claim \in 1..row'[f].attempts
      BY <2>1, <2>2, <3>1
    <3> QED
      BY <1>1, <2>3, <3>1, <3>2
  <2>9. UnbornIsUntouched'
    BY <2>1 DEF IInv, UnbornIsUntouched
  <2> QED
    BY <2>4, <2>5, <2>6, <2>7, <2>8, <2>9 DEF IInv
<1> QED
  BY <1>2, <1>3

-----------------------------------------------------------------------------
LEMMA InitIInv == Init => IInv
<1> SUFFICES ASSUME Init PROVE IInv
  OBVIOUS
<1>1. TypeOK
  BY InitTypeOK
<1>2. \A w \in Workers, e \in Events : ~Busy(w, e)
  BY DEF Init, Busy, Idle
<1>3. AttemptsCountClaims /\ ProcessedWasDelivered /\ UnbornIsUntouched
  BY BoundsAssumption DEF Init, AttemptsCountClaims, ProcessedWasDelivered, UnbornIsUntouched
<1> QED
  BY <1>1, <1>2, <1>3
  DEF IInv, LockNamesTheLatestClaim, EachClaimRunsOnce, TasksAreCounted

LEMMA NextIInv == IInv /\ [Next]_vars => IInv'
<1> SUFFICES ASSUME IInv, [Next]_vars PROVE IInv'
  OBVIOUS
<1>1. TypeOK /\ TypeOK'
  BY NextTypeOK DEF IInv
<1>2. CASE UNCHANGED vars
  <2>1. Quiet
    BY <1>1, <1>2, QuietTasks DEF vars, Quiet, SameRow
  <2> QED
    BY <1>1, <2>1, QuietStep
<1>3. CASE \E e \in Events : Create(e) \/ DeleteProcessed(e)
  BY <1>1, <1>3, RowStepsQuiet, QuietStep
<1>4. ASSUME NEW w \in Workers, WorkerStep(w) PROVE IInv'
  <2>1. CASE \/ Start(w) \/ Signal(w) \/ Stop(w) \/ StopReturns(w) \/ Crash(w)
             \/ DropQueued(w)
    BY <1>1, <2>1, LifeStepsQuiet, QuietStep
  <2>2. CASE Claim(w)
    BY <1>1, <2>2, ClaimKeepsIInv
  <2>3. ASSUME NEW e \in Events, \/ Dispatch(w, e) \/ HandlerReturns(w, e)
                                 \/ Settle(w, e) \/ SettleFails(w, e)
        PROVE  IInv'
    BY <1>1, <2>3, DispatchKeepsIInv, SettleKeepsIInv, HandlerReturnsQuiet, QuietStep
  <2> QED
    BY <1>4, <2>1, <2>2, <2>3 DEF WorkerStep
<1>5. CASE \E h \in heartbeat : HeartbeatStep(h)
  BY <1>1, <1>5, HeartbeatStepsQuiet, QuietStep
<1>6. CASE Tick
  BY <1>1, <1>6, TickQuiet, QuietStep
<1> QED
  BY <1>2, <1>3, <1>4, <1>5, <1>6 DEF Next

THEOREM Invariance == Spec => []IInv
BY InitIInv, NextIInv, PTL DEF Spec

(***************************************************************************)
(* locked_by is token enough: whoever a row names has its latest claim.    *)
(***************************************************************************)
THEOREM LockIsToken == Spec => []LockNamesTheLatestClaim
<1>1. IInv => LockNamesTheLatestClaim
  BY DEF IInv
<1> QED
  BY <1>1, Invariance, PTL

\* A claim is run by one worker, once: deliveries are at most max_attempts.
THEOREM BoundedDelivery == Spec => []EachClaimRunsOnce
<1>1. IInv => EachClaimRunsOnce
  BY DEF IInv
<1> QED
  BY <1>1, Invariance, PTL

(***************************************************************************)
(* The attempts of a row stay within the table's CHECK and count every     *)
(* claim that was run, for any bound on them.                              *)
(***************************************************************************)
THEOREM AttemptsStayCounted == Spec => []AttemptsCountClaims
<1>1. IInv => AttemptsCountClaims
  BY DEF IInv
<1> QED
  BY <1>1, Invariance, PTL

\* Nothing is marked processed that no handler delivered.
THEOREM NoFalseSuccess == Spec => []ProcessedWasDelivered
<1>1. IInv => ProcessedWasDelivered
  BY DEF IInv
<1> QED
  BY <1>1, Invariance, PTL
-----------------------------------------------------------------------------
(***************************************************************************)
(* A handler dispatched in time holds the lease of its row until its       *)
(* deadline: while it runs nobody else claims the row.                     *)
(***************************************************************************)
OnTime(w, e) == Handling(w, e) /\ ~task[w][e].late

HandlersHoldTheirLease ==
  \A w \in Workers, e \in Events :
    OnTime(w, e) => row[e].lockedBy = w /\ task[w][e].left + Skew <= row[e].lease

\* The handlers on time after a step were so before it, with as much time left.
NoneStarts ==
  \A w \in Workers, e \in Events :
    OnTime(w, e)' => OnTime(w, e) /\ task'[w][e].left = task[w][e].left

LeasesStay ==
  \A e \in Events :
    row'[e].lockedBy = row[e].lockedBy /\ row'[e].lease = row[e].lease

LEMMA StayHeld ==
  ASSUME HandlersHoldTheirLease, NoneStarts, LeasesStay
  PROVE  HandlersHoldTheirLease'
BY DEF HandlersHoldTheirLease, NoneStarts, LeasesStay, OnTime, Handling

LEMMA SameTasks ==
  ASSUME task' = task
  PROVE  NoneStarts
BY DEF NoneStarts, OnTime, Handling

\* A task that is no running handler after the step, beside the others.
LEMMA OneTaskSettles ==
  ASSUME TypeOK, NEW w \in Workers, NEW e \in Events, NEW t,
         task' = [task EXCEPT ![w][e] = t], t.phase # "handling"
  PROVE  NoneStarts
<1>1. /\ task'[w][e] = t
      /\ \A v \in Workers, f \in Events : v # w \/ f # e => task'[v][f] = task[v][f]
  BY DEF TypeOK
<1> QED
  BY <1>1 DEF NoneStarts, OnTime, Handling

LEMMA WorkerStepsHeld ==
  ASSUME TypeOK, HandlersHoldTheirLease, NEW w \in Workers,
         \/ Start(w) \/ Signal(w) \/ Stop(w) \/ StopReturns(w) \/ Crash(w)
         \/ DropQueued(w)
  PROVE  HandlersHoldTheirLease'
<1>1. LeasesStay
  BY DEF Start, Signal, Stop, StopReturns, Crash, Gone, DropQueued, LeasesStay
<1>2. CASE Start(w) \/ Signal(w) \/ Stop(w)
  BY <1>1, <1>2, SameTasks, StayHeld DEF Start, Signal, Stop
<1>3. CASE StopReturns(w) \/ Crash(w) \/ DropQueued(w)
  <2>1. \A f \in Events : task'[w][f] = Idle \/ task'[w][f] = task[w][f]
    BY <1>3 DEF StopReturns, Crash, Gone, DropQueued, TypeOK
  <2>2. \A v \in Workers \ {w}, f \in Events : task'[v][f] = task[v][f]
    BY <1>3 DEF StopReturns, Crash, Gone, DropQueued, TypeOK
  <2>3. NoneStarts
    BY <2>1, <2>2 DEF NoneStarts, OnTime, Handling, Idle
  <2> QED
    BY <1>1, <2>3, StayHeld
<1> QED
  BY <1>2, <1>3

\* A row with a handler on time has a lease, and is claimed by nobody.
LEMMA ClaimHeld ==
  ASSUME TypeOK, HandlersHoldTheirLease, NEW w \in Workers, Claim(w)
  PROVE  HandlersHoldTheirLease'
<1>1. PICK S \in SUBSET {e \in Events : Claimable(w, e)}, answered \in BOOLEAN :
        /\ row' = [e \in Events |->
                     IF e \in S
                     THEN [row[e] EXCEPT !.lockedBy = w,
                                         !.lease = LeaseTicks,
                                         !.attempts = @ + 1]
                     ELSE row[e]]
        /\ task' = [task EXCEPT ![w] =
                      [e \in Events |->
                         IF answered /\ e \in S
                         THEN [Idle EXCEPT !.phase = "queued",
                                           !.claim = row[e].attempts + 1]
                         ELSE task[w][e]]]
  BY DEF Claim
<1>2. ASSUME NEW v \in Workers, NEW e \in Events, OnTime(v, e)'
      PROVE  task'[v][e] = task[v][e]
  <2>1. CASE v = w /\ answered /\ e \in S
    <3>1. task'[w][e] = [Idle EXCEPT !.phase = "queued",
                                     !.claim = row[e].attempts + 1]
      BY <1>1, <2>1 DEF TypeOK
    <3>2. task'[w][e].phase = "queued"
      BY <3>1 DEF Idle
    <3> QED
      BY <1>2, <2>1, <3>2 DEF OnTime, Handling
  <2>2. CASE ~(v = w /\ answered /\ e \in S)
    BY <1>1, <2>2 DEF TypeOK
  <2> QED
    BY <2>1, <2>2
<1>3. ASSUME NEW v \in Workers, NEW e \in Events, OnTime(v, e)
      PROVE  row'[e] = row[e]
  <2>1. task[v][e].left \in Nat /\ row[e].lease \in Int
    BY TicksType, BoundsAssumption DEF TypeOK, Tasks, Rows, NoLease
  <2>2. row[e].lease >= Skew /\ row[e].lease >= 0
    BY <1>3, <2>1, BoundsAssumption DEF HandlersHoldTheirLease
  <2>3. ~LeaseIsOver(w, e)
    BY <2>1, <2>2, BoundsAssumption DEF LeaseIsOver
  <2> QED
    BY <1>1, <2>3 DEF Claimable
<1>4. ASSUME NEW v \in Workers, NEW e \in Events, OnTime(v, e)'
      PROVE  row'[e].lockedBy = v /\ task'[v][e].left + Skew <= row'[e].lease
  <2>1. OnTime(v, e) /\ task'[v][e] = task[v][e]
    BY <1>2, <1>4 DEF OnTime, Handling
  <2> QED
    BY <1>3, <2>1 DEF HandlersHoldTheirLease
<1> QED
  BY <1>4 DEF HandlersHoldTheirLease

LEMMA TaskStepsHeld ==
  ASSUME TypeOK, HandlersHoldTheirLease, NEW w \in Workers, NEW e \in Events,
         HandlerReturns(w, e) \/ SettleFails(w, e)
  PROVE  HandlersHoldTheirLease'
<1>1. LeasesStay
  BY DEF HandlerReturns, SettleFails, LeasesStay
<1>2. Idle.phase # "handling" /\ task[w][e] \in Tasks
  BY DEF Idle, TypeOK
<1>3. \A outcome \in Outcomes :
        [task[w][e] EXCEPT !.phase = NextPhase(w, e, outcome)].phase # "handling"
  BY <1>2 DEF NextPhase, Tasks
<1>4. task' = [task EXCEPT ![w][e] = Idle]
        \/ \E outcome \in Outcomes :
             task' = [task EXCEPT ![w][e] =
                        [task[w][e] EXCEPT !.phase = NextPhase(w, e, outcome)]]
  BY DEF HandlerReturns, SettleFails, Finished, TypeOK
<1>5. NoneStarts
  <2>1. CASE task' = [task EXCEPT ![w][e] = Idle]
    BY <1>2, <2>1, OneTaskSettles
  <2>2. ASSUME NEW outcome \in Outcomes,
               task' = [task EXCEPT ![w][e] =
                          [task[w][e] EXCEPT !.phase = NextPhase(w, e, outcome)]]
        PROVE  NoneStarts
    BY <1>3, <2>2, OneTaskSettles
  <2> QED
    BY <1>4, <2>1, <2>2
<1> QED
  BY <1>1, <1>5, StayHeld

\* A statement changes the row of its own lock alone, which no handler holds.
LEMMA SettleHeld ==
  ASSUME TypeOK, HandlersHoldTheirLease, NEW w \in Workers, NEW e \in Events,
         Settle(w, e)
  PROVE  HandlersHoldTheirLease'
<1>1. task' = [task EXCEPT ![w][e] = Idle] /\ Idle.phase # "handling"
  BY DEF Settle, Finished, Idle
<1>2. NoneStarts
  BY <1>1, OneTaskSettles
<1>3. task[w][e].phase # "handling"
  BY DEF Settle, MarkProcessed, MarkFailure, MarkDeadLetter, ReleaseLease
<1>4. CASE ~Owns(w, e)
  <2>1. row' = row
    BY <1>4 DEF Settle, MarkProcessed, MarkFailure, MarkDeadLetter, ReleaseLease
  <2> QED
    BY <1>2, <2>1, StayHeld DEF LeasesStay
<1>5. CASE Owns(w, e)
  <2>1. row[e].lockedBy = w
    BY <1>5 DEF Owns
  <2>2. \A f \in Events \ {e} : row'[f] = row[f]
    BY DEF Settle, MarkProcessed, MarkFailure, MarkDeadLetter, ReleaseLease, TypeOK
  <2>3. ASSUME NEW v \in Workers, NEW f \in Events, OnTime(v, f)'
        PROVE  row'[f].lockedBy = v /\ task'[v][f].left + Skew <= row'[f].lease
    <3>1. OnTime(v, f) /\ task'[v][f].left = task[v][f].left
      BY <1>2, <2>3 DEF NoneStarts
    <3>2. row[f].lockedBy = v /\ task[v][f].left + Skew <= row[f].lease
      BY <3>1 DEF HandlersHoldTheirLease
    <3>3. f # e
      BY <1>3, <2>1, <3>1, <3>2 DEF OnTime, Handling
    <3> QED
      BY <2>2, <3>1, <3>2, <3>3
  <2> QED
    BY <2>3 DEF HandlersHoldTheirLease
<1> QED
  BY <1>4, <1>5

\* A dispatch in time finds a lease as long as the handler's deadline is away.
LEMMA DispatchHeld ==
  ASSUME TypeOK, HandlersHoldTheirLease, NEW w \in Workers, NEW e \in Events,
         Dispatch(w, e)
  PROVE  HandlersHoldTheirLease'
<1>1. row' = row /\ task[w][e] \in Tasks
  BY DEF Dispatch, TypeOK
<1>2. CASE e \notin Handled
  <2>1. task' = [task EXCEPT ![w][e] = [task[w][e] EXCEPT !.phase = "fatal"]]
    BY <1>2 DEF Dispatch, TypeOK
  <2>2. [task[w][e] EXCEPT !.phase = "fatal"].phase # "handling"
    BY <1>1 DEF Tasks
  <2> QED
    BY <1>1, <2>1, <2>2, OneTaskSettles, StayHeld DEF LeasesStay
<1>3. CASE e \in Handled
  <2>1. /\ task'[w][e] = [task[w][e] EXCEPT !.phase = "handling",
                                            !.left = HandlerTicks,
                                            !.late = LeaseTooShort(w, e)]
        /\ \A v \in Workers, f \in Events : v # w \/ f # e => task'[v][f] = task[v][f]
    BY <1>3 DEF Dispatch, TypeOK
  <2>2. task'[w][e].left = HandlerTicks /\ task'[w][e].late = LeaseTooShort(w, e)
    BY <1>1, <2>1 DEF Tasks
  <2>3. row[e].lease \in Int /\ HandlerTicks \in Nat /\ Skew \in Nat
    BY TicksType, BoundsAssumption DEF TypeOK, Rows, NoLease
  <2>4. OnTime(w, e)' => ~LeaseTooShort(w, e)
    BY <2>2, Zenon DEF OnTime
  <2>5. ~LeaseTooShort(w, e) => row[e].lockedBy = w /\ HandlerTicks + Skew <= row[e].lease
    BY <2>3 DEF LeaseTooShort
  <2>6. ASSUME NEW v \in Workers, NEW f \in Events, OnTime(v, f)'
        PROVE  row'[f].lockedBy = v /\ task'[v][f].left + Skew <= row'[f].lease
    <3>1. CASE v = w /\ f = e
      BY <1>1, <2>2, <2>4, <2>5, <2>6, <3>1
    <3>2. CASE v # w \/ f # e
      BY <1>1, <2>1, <2>6, <3>2 DEF HandlersHoldTheirLease, OnTime, Handling
    <3> QED
      BY <3>1, <3>2
  <2> QED
    BY <2>6 DEF HandlersHoldTheirLease
<1> QED
  BY <1>2, <1>3

\* A renewal lengthens the lease of the row it names, whoever holds it.
LEMMA HeartbeatHeld ==
  ASSUME TypeOK, HandlersHoldTheirLease, NEW h \in heartbeat, HeartbeatStep(h)
  PROVE  HandlersHoldTheirLease'
<1>1. h.worker \in Workers /\ h.event \in Events
  BY DEF TypeOK, Heartbeats
<1>2. \/ row' = row
      \/ row' = [row EXCEPT ![h.event].lease = LeaseTicks]
  BY DEF HeartbeatStep, Renew, RenewFails, HeartbeatQuits, Renewed
<1>3. \A e \in Events : /\ row'[e].lockedBy = row[e].lockedBy
                        /\ row'[e].lease = row[e].lease \/ row'[e].lease = LeaseTicks
  BY <1>2 DEF TypeOK, Rows
<1>4. NoneStarts
  <2>1. CASE task' = task
    BY <2>1, SameTasks
  <2>2. ASSUME NEW lost \in BOOLEAN,
               task' = [task EXCEPT ![h.worker][h.event] = [@ EXCEPT !.lost = lost]]
        PROVE  NoneStarts
    <3>1. \A v \in Workers, f \in Events :
            /\ task'[v][f].phase = task[v][f].phase
            /\ task'[v][f].late = task[v][f].late
            /\ task'[v][f].left = task[v][f].left
      BY <1>1, <2>2 DEF TypeOK, Tasks
    <3> QED
      BY <3>1 DEF NoneStarts, OnTime, Handling
  <2>3. \/ task' = task
        \/ \E lost \in BOOLEAN :
             task' = [task EXCEPT ![h.worker][h.event] = [@ EXCEPT !.lost = lost]]
    BY DEF HeartbeatStep, Renew, RenewFails, HeartbeatQuits
  <2> QED
    BY <2>1, <2>2, <2>3
<1>5. ASSUME NEW v \in Workers, NEW e \in Events, OnTime(v, e)'
      PROVE  row'[e].lockedBy = v /\ task'[v][e].left + Skew <= row'[e].lease
  <2>1. OnTime(v, e) /\ task'[v][e].left = task[v][e].left
    BY <1>4, <1>5 DEF NoneStarts
  <2>2. row[e].lockedBy = v /\ task[v][e].left + Skew <= row[e].lease
    BY <2>1 DEF HandlersHoldTheirLease
  <2>3. task[v][e].left \in 0..HandlerTicks
    BY DEF TypeOK, Tasks
  <2>4. row[e].lease \in Int /\ row[e].lease <= LeaseTicks
    BY BoundsAssumption DEF TypeOK, Rows, NoLease
  <2> QED
    BY <1>3, <2>1, <2>2, <2>3, <2>4, TicksType, BoundsAssumption
<1> QED
  BY <1>5 DEF HandlersHoldTheirLease

\* Time passes for the handler and for the lease, while a deadline is ahead.
LEMMA TickHeld ==
  ASSUME Prompt, TypeOK, HandlersHoldTheirLease, Tick
  PROVE  HandlersHoldTheirLease'
<1>1. ASSUME NEW w \in Workers, NEW e \in Events, OnTime(w, e)'
      PROVE  row'[e].lockedBy = w /\ task'[w][e].left + Skew <= row'[e].lease
  <2>1. row[e] \in Rows /\ task[w][e] \in Tasks
    BY DEF TypeOK
  <2>2. /\ row'[e] = [row[e] EXCEPT !.lease = Down(row[e].lease, NoLease),
                                    !.wait = Down(row[e].wait, 0)]
        /\ task'[w][e] = [task[w][e] EXCEPT !.left = Down(task[w][e].left, 0)]
    BY <2>1 DEF Tick, Rows, Tasks
  <2>3. /\ row'[e].lockedBy = row[e].lockedBy
        /\ row'[e].lease = Down(row[e].lease, NoLease)
        /\ task'[w][e].left = Down(task[w][e].left, 0)
        /\ OnTime(w, e)
    BY <1>1, <2>1, <2>2 DEF Rows, Tasks, OnTime, Handling
  <2>4. row[e].lockedBy = w /\ task[w][e].left + Skew <= row[e].lease
    BY <2>3 DEF HandlersHoldTheirLease
  <2>5. task[w][e].left > 0
    BY <2>3 DEF Tick, NothingDue, OnTime, Handling
  <2>6. task[w][e].left \in Int /\ row[e].lease \in Int
    BY <2>1, TicksType, BoundsAssumption DEF Rows, Tasks, NoLease
  <2> QED
    BY <2>3, <2>4, <2>5, <2>6, BoundsAssumption DEF Down, NoLease
<1> QED
  BY <1>1 DEF HandlersHoldTheirLease

LEMMA NextHeld ==
  ASSUME Prompt, TypeOK, HandlersHoldTheirLease, [Next]_vars
  PROVE  HandlersHoldTheirLease'
<1>1. ASSUME NEW e \in Events, Create(e) \/ DeleteProcessed(e)
      PROVE  HandlersHoldTheirLease'
  <2>1. LeasesStay /\ task' = task
    BY <1>1 DEF Create, DeleteProcessed, LeasesStay, TypeOK, Rows
  <2> QED
    BY <2>1, SameTasks, StayHeld
<1>2. ASSUME NEW w \in Workers, WorkerStep(w)
      PROVE  HandlersHoldTheirLease'
  BY <1>2, WorkerStepsHeld, ClaimHeld, TaskStepsHeld, SettleHeld, DispatchHeld
     DEF WorkerStep
<1>3. CASE UNCHANGED vars
  BY <1>3, SameTasks, StayHeld DEF vars, LeasesStay
<1> QED
  BY <1>1, <1>2, <1>3, HeartbeatHeld, TickHeld DEF Next

(***************************************************************************)
(* Where workers act in time, for any lease of two seconds and more, any   *)
(* batch and any number of slots, of two handlers that run for one event   *)
(* one was dispatched too late.  The deadline alone makes it so: renewals  *)
(* and their failures play no part.                                        *)
(***************************************************************************)
THEOREM OverlapIsByLateDispatch ==
  ASSUME Prompt
  PROVE  Spec => []HandlersOverlapOnlyIfLate
<1>1. Init => HandlersHoldTheirLease
  BY DEF Init, HandlersHoldTheirLease, OnTime, Handling, Idle
<1>2. IInv /\ HandlersHoldTheirLease /\ [Next]_vars => HandlersHoldTheirLease'
  BY NextHeld DEF IInv
<1>3. HandlersHoldTheirLease => HandlersOverlapOnlyIfLate
  BY DEF HandlersHoldTheirLease, HandlersOverlapOnlyIfLate, OnTime, Handling
<1> QED
  BY <1>1, <1>2, <1>3, Invariance, PTL DEF Spec
-----------------------------------------------------------------------------
(***************************************************************************)
(* With a slot for every event of a batch nobody dispatches late: what is  *)
(* queued is dispatched in the second it was claimed, on a lease that is   *)
(* whole.                                                                  *)
(***************************************************************************)
BusyEvents(w) == {e \in Events : Busy(w, e)}

BatchFits == \A w \in Workers : Cardinality(BusyEvents(w)) <= BatchSize

Queued(w, e) == task[w][e].phase = "queued"

QueuedHoldsFullLease ==
  \A w \in Workers, e \in Events :
    Queued(w, e) => row[e].lockedBy = w /\ row[e].lease = LeaseTicks

NoneLate ==
  \A w \in Workers, e \in Events : Handling(w, e) => ~task[w][e].late

InTime == BatchFits /\ QueuedHoldsFullLease /\ NoneLate

\* No task is new, and none starts to be queued or handled.
TasksGoOn ==
  \A w \in Workers, e \in Events :
    /\ Busy(w, e)' => Busy(w, e)
    /\ Queued(w, e)' => Queued(w, e)
    /\ Handling(w, e)' => Handling(w, e) /\ task'[w][e].late = task[w][e].late

\* There is room for the lease of a handler in time, by every clock.
Roomy ==
  /\ Prompt
  /\ IsFiniteSet(Events)
  /\ BatchSize <= Slots
  /\ HandlerTicks + Skew <= LeaseTicks

LEMMA GoingOnFits ==
  ASSUME Roomy, BatchFits, \A w \in Workers, e \in Events : Busy(w, e)' => Busy(w, e)
  PROVE  BatchFits'
<1> SUFFICES ASSUME NEW w \in Workers
             PROVE  Cardinality(BusyEvents(w)') <= BatchSize
  BY DEF BatchFits
<1>1. BusyEvents(w) \subseteq Events /\ BusyEvents(w)' \subseteq BusyEvents(w)
  BY DEF BusyEvents
<1>2. IsFiniteSet(BusyEvents(w))
  BY <1>1, FS_Subset DEF Roomy
<1>3. /\ IsFiniteSet(BusyEvents(w)')
      /\ Cardinality(BusyEvents(w)') <= Cardinality(BusyEvents(w))
  BY <1>1, <1>2, FS_Subset
<1>4. Cardinality(BusyEvents(w)) \in Nat /\ Cardinality(BusyEvents(w)') \in Nat
  BY <1>2, <1>3, FS_CardinalityType
<1> QED
  BY <1>3, <1>4, BoundsAssumption DEF BatchFits

LEMMA GoingOnNoneLate ==
  ASSUME NoneLate, TasksGoOn
  PROVE  NoneLate'
BY DEF NoneLate, TasksGoOn, Handling

\* A task that is neither queued nor handled after the step, beside the others.
LEMMA OneTaskGoesOn ==
  ASSUME TypeOK, NEW w \in Workers, NEW e \in Events, NEW t,
         task' = [task EXCEPT ![w][e] = t], t.phase \notin {"queued", "handling"},
         Busy(w, e) \/ t.phase = "none"
  PROVE  TasksGoOn
<1>1. /\ task'[w][e] = t
      /\ \A v \in Workers, f \in Events : v # w \/ f # e => task'[v][f] = task[v][f]
  BY DEF TypeOK
<1> QED
  BY <1>1 DEF TasksGoOn, Queued, Handling, Busy

LEMMA WorkerTasksGoOn ==
  ASSUME TypeOK, NEW w \in Workers,
         \/ Start(w) \/ Signal(w) \/ Stop(w) \/ StopReturns(w) \/ Crash(w)
         \/ DropQueued(w)
  PROVE  TasksGoOn /\ UNCHANGED row
<1>1. ASSUME NEW v \in Workers, NEW e \in Events
      PROVE  task'[v][e] = Idle \/ task'[v][e] = task[v][e]
  BY DEF Start, Signal, Stop, StopReturns, Crash, Gone, DropQueued, TypeOK
<1>2. UNCHANGED row
  BY DEF Start, Signal, Stop, StopReturns, Crash, Gone, DropQueued
<1> QED
  BY <1>1, <1>2 DEF TasksGoOn, Queued, Handling, Busy, Idle

LEMMA HandlerTasksGoOn ==
  ASSUME TypeOK, NEW w \in Workers, NEW e \in Events,
         HandlerReturns(w, e) \/ Settle(w, e) \/ SettleFails(w, e)
  PROVE  TasksGoOn
<1>1. Idle.phase = "none" /\ task[w][e] \in Tasks
  BY DEF Idle, TypeOK
<1>2. CASE task' = [task EXCEPT ![w][e] = Idle]
  BY <1>1, <1>2, OneTaskGoesOn
<1>3. ASSUME NEW outcome \in Outcomes, Busy(w, e),
             task' = [task EXCEPT ![w][e] =
                        [task[w][e] EXCEPT !.phase = NextPhase(w, e, outcome)]]
      PROVE  TasksGoOn
  <2>1. [task[w][e] EXCEPT !.phase = NextPhase(w, e, outcome)].phase
          \notin {"queued", "handling"}
    BY <1>1 DEF NextPhase, Tasks
  <2> QED
    BY <1>3, <2>1, OneTaskGoesOn
<1>4. \/ task' = [task EXCEPT ![w][e] = Idle]
      \/ Busy(w, e) /\ \E outcome \in Outcomes :
           task' = [task EXCEPT ![w][e] =
                      [task[w][e] EXCEPT !.phase = NextPhase(w, e, outcome)]]
  BY DEF HandlerReturns, Settle, SettleFails, Finished, Busy, TypeOK
<1> QED
  BY <1>2, <1>3, <1>4

LEMMA HeartbeatTasksGoOn ==
  ASSUME TypeOK, NEW h \in heartbeat, HeartbeatStep(h)
  PROVE  TasksGoOn
<1>1. h.worker \in Workers /\ h.event \in Events
  BY DEF TypeOK, Heartbeats
<1>2. ASSUME NEW lost \in BOOLEAN,
             task' = [task EXCEPT ![h.worker][h.event] = [@ EXCEPT !.lost = lost]]
      PROVE  TasksGoOn
  <2>1. \A v \in Workers, f \in Events :
          /\ task'[v][f].phase = task[v][f].phase
          /\ task'[v][f].late = task[v][f].late
    BY <1>1, <1>2 DEF TypeOK, Tasks
  <2> QED
    BY <2>1 DEF TasksGoOn, Queued, Handling, Busy
<1>3. CASE task' = task
  BY <1>3 DEF TasksGoOn, Queued, Handling, Busy
<1>4. \/ task' = task
      \/ \E lost \in BOOLEAN :
           task' = [task EXCEPT ![h.worker][h.event] = [@ EXCEPT !.lost = lost]]
  BY DEF HeartbeatStep, Renew, RenewFails, HeartbeatQuits
<1> QED
  BY <1>2, <1>3, <1>4

\* A claim makes tasks on whole leases, and takes no lease that is whole.
LEMMA ClaimInTime ==
  ASSUME Roomy, TypeOK, InTime, NEW w \in Workers, Claim(w)
  PROVE  InTime'
<1>1. PICK S \in SUBSET {e \in Events : Claimable(w, e)}, answered \in BOOLEAN :
        /\ Cardinality(S) <= BatchSize
        /\ row' = [e \in Events |->
                     IF e \in S
                     THEN [row[e] EXCEPT !.lockedBy = w,
                                         !.lease = LeaseTicks,
                                         !.attempts = @ + 1]
                     ELSE row[e]]
        /\ task' = [task EXCEPT ![w] =
                      [e \in Events |->
                         IF answered /\ e \in S
                         THEN [Idle EXCEPT !.phase = "queued",
                                           !.claim = row[e].attempts + 1]
                         ELSE task[w][e]]]
  BY DEF Claim
<1>2. \A e \in Events : ~Busy(w, e)
  BY DEF Claim, BatchDone, Busy
<1>3. \A v \in Workers \ {w}, e \in Events : task'[v][e] = task[v][e]
  BY <1>1 DEF TypeOK
<1>4. ASSUME NEW e \in Events, Busy(w, e)'
      PROVE  e \in S /\ Queued(w, e)'
  <2>1. answered /\ e \in S
    BY <1>1, <1>2, <1>4 DEF Busy, TypeOK
  <2>2. task'[w][e] = [Idle EXCEPT !.phase = "queued", !.claim = row[e].attempts + 1]
    BY <1>1, <2>1 DEF TypeOK
  <2> QED
    BY <2>1, <2>2 DEF Idle, Queued
<1>5. BatchFits'
  <2> SUFFICES ASSUME NEW v \in Workers
               PROVE  Cardinality(BusyEvents(v)') <= BatchSize
    BY DEF BatchFits
  <2>1. CASE v # w
    <3>1. BusyEvents(v)' = BusyEvents(v)
      BY <1>3, <2>1 DEF BusyEvents, Busy
    <3> QED
      BY <3>1 DEF InTime, BatchFits
  <2>2. CASE v = w
    <3>1. BusyEvents(w)' \subseteq S /\ S \subseteq Events
      BY <1>4 DEF BusyEvents
    <3>2. IsFiniteSet(S)
      BY <3>1, FS_Subset DEF Roomy
    <3>3. IsFiniteSet(BusyEvents(w)') /\ Cardinality(BusyEvents(w)') <= Cardinality(S)
      BY <3>1, <3>2, FS_Subset
    <3>4. Cardinality(S) \in Nat /\ Cardinality(BusyEvents(w)') \in Nat
      BY <3>2, <3>3, FS_CardinalityType
    <3>5. BusyEvents(v)' = BusyEvents(w)'
      BY <2>2 DEF BusyEvents
    <3>6. Cardinality(S) <= BatchSize
      BY <1>1
    <3> QED
      BY <3>3, <3>4, <3>5, <3>6, BoundsAssumption
  <2> QED
    BY <2>1, <2>2
<1>6. QueuedHoldsFullLease'
  <2> SUFFICES ASSUME NEW v \in Workers, NEW e \in Events, Queued(v, e)'
               PROVE  row'[e].lockedBy = v /\ row'[e].lease = LeaseTicks
    BY DEF QueuedHoldsFullLease
  <2>1. CASE v = w
    <3>1. e \in S
      BY <1>4, <2>1 DEF Queued, Busy
    <3>2. row'[e] = [row[e] EXCEPT !.lockedBy = w, !.lease = LeaseTicks,
                                   !.attempts = @ + 1]
      BY <1>1, <3>1
    <3> QED
      BY <2>1, <3>2 DEF TypeOK, Rows
  <2>2. CASE v # w
    <3>1. row[e].lockedBy = v /\ row[e].lease = LeaseTicks
      BY <1>3, <2>2 DEF Queued, InTime, QueuedHoldsFullLease
    <3>2. ~LeaseIsOver(w, e)
      BY <2>2, <3>1, TicksType, BoundsAssumption DEF LeaseIsOver, Roomy
    <3>3. e \notin S
      BY <3>2 DEF Claimable
    <3> QED
      BY <1>1, <3>1, <3>3
  <2> QED
    BY <2>1, <2>2
<1>7. NoneLate'
  <2> SUFFICES ASSUME NEW v \in Workers, NEW e \in Events, Handling(v, e)'
               PROVE  ~task'[v][e].late
    BY DEF NoneLate
  <2>1. v # w
    BY <1>4 DEF Handling, Busy, Queued
  <2> QED
    BY <1>3, <2>1 DEF InTime, NoneLate, Handling
<1> QED
  BY <1>5, <1>6, <1>7 DEF InTime

\* A dispatch finds the lease whole.
LEMMA DispatchInTime ==
  ASSUME Roomy, TypeOK, InTime, NEW w \in Workers, NEW e \in Events, Dispatch(w, e)
  PROVE  InTime'
<1>1. row' = row /\ task[w][e] \in Tasks /\ Busy(w, e) /\ Queued(w, e)
  BY DEF Dispatch, TypeOK, Busy, Queued
<1>2. \A v \in Workers, f \in Events : v # w \/ f # e => task'[v][f] = task[v][f]
  BY DEF Dispatch, TypeOK
<1>3. ~LeaseTooShort(w, e)
  BY <1>1, TicksType, BoundsAssumption
     DEF LeaseTooShort, InTime, QueuedHoldsFullLease, Roomy
<1>4. \/ task'[w][e] = [task[w][e] EXCEPT !.phase = "handling",
                                          !.left = HandlerTicks,
                                          !.late = LeaseTooShort(w, e)]
      \/ task'[w][e] = [task[w][e] EXCEPT !.phase = "fatal"]
  BY DEF Dispatch, TypeOK
<1>5. /\ task'[w][e].phase # "queued"
      /\ Handling(w, e)' => ~task'[w][e].late
  <2>1. \/ /\ task'[w][e].phase = "handling"
           /\ task'[w][e].late = LeaseTooShort(w, e)
        \/ task'[w][e].phase = "fatal"
    BY <1>1, <1>4 DEF Tasks
  <2>2. Handling(w, e)' => task'[w][e].late = LeaseTooShort(w, e)
    BY <2>1 DEF Handling
  <2>3. Handling(w, e)' => ~task'[w][e].late
    BY <1>3, <2>2, Zenon
  <2> QED
    BY <2>1, <2>3
<1>6. BatchFits'
  BY <1>1, <1>2, GoingOnFits DEF InTime, Busy
<1>7. QueuedHoldsFullLease'
  BY <1>1, <1>2, <1>5 DEF InTime, QueuedHoldsFullLease, Queued
<1>8. NoneLate'
  BY <1>2, <1>5 DEF InTime, NoneLate, Handling
<1> QED
  BY <1>6, <1>7, <1>8 DEF InTime

\* A worker ends the claims of its own tasks, and none that is queued.
LEMMA SettleInTime ==
  ASSUME Roomy, TypeOK, InTime, NEW w \in Workers, NEW e \in Events, Settle(w, e)
  PROVE  InTime'
<1>1. TasksGoOn
  BY HandlerTasksGoOn
<1>2. \A f \in Events : row'[f] = row[f] \/ (f = e /\ row[e].lockedBy = w)
  BY DEF Settle, MarkProcessed, MarkFailure, MarkDeadLetter, ReleaseLease, Owns, TypeOK
<1>3. ~Queued(w, e)
  BY DEF Settle, MarkProcessed, MarkFailure, MarkDeadLetter, ReleaseLease, Queued
<1>4. QueuedHoldsFullLease'
  BY <1>1, <1>2, <1>3 DEF InTime, QueuedHoldsFullLease, TasksGoOn
<1> QED
  BY <1>1, <1>4, GoingOnFits, GoingOnNoneLate DEF InTime, TasksGoOn

LEMMA HeartbeatInTime ==
  ASSUME Roomy, TypeOK, InTime, NEW h \in heartbeat, HeartbeatStep(h)
  PROVE  InTime'
<1>1. TasksGoOn
  BY HeartbeatTasksGoOn
<1>2. \/ row' = row
      \/ row' = [row EXCEPT ![h.event].lease = LeaseTicks]
  BY DEF HeartbeatStep, Renew, RenewFails, HeartbeatQuits, Renewed
<1>3. \A f \in Events : /\ row'[f].lockedBy = row[f].lockedBy
                        /\ row'[f].lease = row[f].lease \/ row'[f].lease = LeaseTicks
  BY <1>2 DEF TypeOK, Rows
<1>4. QueuedHoldsFullLease'
  BY <1>1, <1>3 DEF InTime, QueuedHoldsFullLease, TasksGoOn
<1> QED
  BY <1>1, <1>4, GoingOnFits, GoingOnNoneLate DEF InTime, TasksGoOn

\* While something is queued a slot is free, and a second does not pass.
LEMMA TickInTime ==
  ASSUME Roomy, TypeOK, InTime, Tick
  PROVE  InTime'
<1>1. ASSUME NEW v \in Workers, NEW f \in Events
      PROVE  /\ task'[v][f].phase = task[v][f].phase
             /\ task'[v][f].late = task[v][f].late
  <2>1. task'[v][f] = [task[v][f] EXCEPT !.left = Down(@, 0)]
    BY DEF Tick
  <2>2. task[v][f] \in Tasks
    BY DEF TypeOK
  <2> QED
    BY <2>1, <2>2 DEF Tasks
<1>2. TasksGoOn
  BY <1>1 DEF TasksGoOn, Queued, Handling, Busy
<1>3. ASSUME NEW w \in Workers, NEW e \in Events, Queued(w, e)
      PROVE  FALSE
  <2>1. BusySlots(w) \subseteq BusyEvents(w) \ {e} /\ BusyEvents(w) \subseteq Events
    BY <1>3 DEF BusySlots, BusyEvents, Busy, Queued, Settling
  <2>2. IsFiniteSet(BusyEvents(w)) /\ e \in BusyEvents(w)
    BY <1>3, <2>1, FS_Subset DEF Roomy, BusyEvents, Busy, Queued
  <2>3. /\ IsFiniteSet(BusyEvents(w) \ {e})
        /\ Cardinality(BusyEvents(w) \ {e}) = Cardinality(BusyEvents(w)) - 1
    BY <2>2, FS_RemoveElement
  <2>4. /\ IsFiniteSet(BusySlots(w))
        /\ Cardinality(BusySlots(w)) <= Cardinality(BusyEvents(w) \ {e})
    BY <2>1, <2>3, FS_Subset
  <2>5. Cardinality(BusyEvents(w)) \in Nat /\ Cardinality(BusySlots(w)) \in Nat
    BY <2>2, <2>4, FS_CardinalityType
  <2>6. Cardinality(BusySlots(w)) = Slots
    BY <1>3 DEF Tick, NothingDue, Roomy, Queued
  <2>7. Cardinality(BusyEvents(w)) <= BatchSize
    BY DEF InTime, BatchFits
  <2> QED
    BY <2>3, <2>4, <2>5, <2>6, <2>7, BoundsAssumption DEF Roomy
<1>4. QueuedHoldsFullLease'
  BY <1>2, <1>3 DEF QueuedHoldsFullLease, TasksGoOn
<1> QED
  BY <1>2, <1>4, GoingOnFits, GoingOnNoneLate DEF InTime, TasksGoOn

LEMMA NextInTime ==
  ASSUME Roomy, TypeOK, InTime, [Next]_vars
  PROVE  InTime'
<1>1. ASSUME LeasesStay, TasksGoOn
      PROVE  InTime'
  <2>1. QueuedHoldsFullLease'
    BY <1>1 DEF InTime, QueuedHoldsFullLease, TasksGoOn, LeasesStay
  <2> QED
    BY <1>1, <2>1, GoingOnFits, GoingOnNoneLate DEF InTime, TasksGoOn
<1>2. ASSUME task' = task
      PROVE  TasksGoOn
  BY <1>2 DEF TasksGoOn, Queued, Handling, Busy
<1>3. ASSUME NEW e \in Events, Create(e) \/ DeleteProcessed(e)
      PROVE  InTime'
  <2>1. LeasesStay /\ task' = task
    BY <1>3 DEF Create, DeleteProcessed, LeasesStay, TypeOK, Rows
  <2> QED
    BY <1>1, <1>2, <2>1
<1>4. ASSUME NEW w \in Workers, WorkerStep(w)
      PROVE  InTime'
  <2>1. CASE \/ Start(w) \/ Signal(w) \/ Stop(w) \/ StopReturns(w) \/ Crash(w)
             \/ DropQueued(w)
    BY <1>1, <2>1, WorkerTasksGoOn DEF LeasesStay
  <2>2. ASSUME NEW e \in Events, HandlerReturns(w, e) \/ SettleFails(w, e)
        PROVE  InTime'
    <3>1. LeasesStay
      BY <2>2 DEF HandlerReturns, SettleFails, LeasesStay
    <3> QED
      BY <1>1, <2>2, <3>1, HandlerTasksGoOn
  <2> QED
    BY <1>4, <2>1, <2>2, ClaimInTime, DispatchInTime, SettleInTime DEF WorkerStep
<1>5. CASE UNCHANGED vars
  BY <1>1, <1>2, <1>5 DEF vars, LeasesStay
<1> QED
  BY <1>3, <1>4, <1>5, HeartbeatInTime, TickInTime DEF Next

(***************************************************************************)
(* Handlers of different workers never run for one event at a time.        *)
(***************************************************************************)
HandlersExclude ==
  \A e \in Events, v, w \in Workers :
    v # w => ~(Handling(v, e) /\ Handling(w, e))

(***************************************************************************)
(* When workers act in time, have a slot for every event of a batch, and   *)
(* their clocks differ by no more than the fifth of the lease that         *)
(* calculateHandlerTimeout keeps back, the handlers of an event exclude    *)
(* each other, through every crash, lost answer and failed renewal.  The   *)
(* defaults of config.go (batches of 100, 10 slots) do not meet it.        *)
(***************************************************************************)
THEOREM RoomyHandlersExclude ==
  ASSUME Roomy
  PROVE  Spec => []HandlersExclude
<1>1. Init => InTime
  <2> SUFFICES ASSUME Init PROVE InTime
    OBVIOUS
  <2>1. \A w \in Workers, e \in Events : task[w][e].phase = "none"
    BY DEF Init, Idle
  <2>2. \A w \in Workers : BusyEvents(w) = {}
    BY <2>1 DEF BusyEvents, Busy
  <2>3. BatchFits
    BY <2>2, FS_EmptySet, BoundsAssumption DEF BatchFits
  <2> QED
    BY <2>1, <2>3 DEF InTime, QueuedHoldsFullLease, NoneLate, Queued, Handling
<1>2. IInv /\ InTime /\ [Next]_vars => InTime'
  BY NextInTime DEF IInv
<1>3. InTime /\ HandlersOverlapOnlyIfLate => HandlersExclude
  BY DEF InTime, NoneLate, HandlersOverlapOnlyIfLate, HandlersExclude, Handling
<1>4. Prompt
  BY DEF Roomy
<1>5. Spec => []HandlersOverlapOnlyIfLate
  BY <1>4, OverlapIsByLateDispatch
<1> QED
  BY <1>1, <1>2, <1>3, <1>5, Invariance, PTL DEF Spec
=============================================================================
