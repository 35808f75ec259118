------------------------ MODULE OutboxDeliveryProofs ------------------------
(***************************************************************************)
(* Theorems of Outbox about its steps: what no statement does to a row,    *)
(* and that the table and the workers implement EventDelivery.             *)
(***************************************************************************)
EXTENDS OutboxProofs

(***************************************************************************)
(* The four things a step can do to the table.  A row stays, but for its   *)
(* lease and its next attempt; or it is created or purged, claimed with    *)
(* others, or unlocked by its owner.                                       *)
(***************************************************************************)
RowStays(e) ==
  /\ row'[e].stage = row[e].stage
  /\ row'[e].processed = row[e].processed
  /\ row'[e].attempts = row[e].attempts
  /\ row'[e].lockedBy = row[e].lockedBy

RowClaimed(w, e) ==
  /\ Claimable(w, e)
  /\ row'[e].stage = "stored"
  /\ row'[e].processed = FALSE
  /\ row'[e].lockedBy = w

Unlocking(w, e) == Settle(w, e) /\ Owns(w, e)

LEMMA SameRows ==
  ASSUME row' = row
  PROVE  \A e \in Events : RowStays(e)
BY DEF RowStays

LEMMA ClaimRows ==
  ASSUME TypeOK, NEW w \in Workers, Claim(w)
  PROVE  \A e \in Events : RowStays(e) \/ RowClaimed(w, e)
<1>1. PICK S \in SUBSET {e \in Events : Claimable(w, e)} :
        row' = [e \in Events |->
                  IF e \in S
                  THEN [row[e] EXCEPT !.lockedBy = w,
                                      !.lease = LeaseTicks,
                                      !.attempts = @ + 1]
                  ELSE row[e]]
  BY DEF Claim
<1>2. ASSUME NEW e \in Events
      PROVE  RowStays(e) \/ RowClaimed(w, e)
  <2>1. row[e] \in Rows
    BY DEF TypeOK
  <2>2. CASE e \in S
    <3>1. /\ row'[e] = [row[e] EXCEPT !.lockedBy = w, !.lease = LeaseTicks,
                                      !.attempts = @ + 1]
          /\ Claimable(w, e)
      BY <1>1, <2>2
    <3>2. /\ row'[e].lockedBy = w /\ row'[e].stage = row[e].stage
          /\ row'[e].processed = row[e].processed
      BY <2>1, <3>1 DEF Rows
    <3>3. row[e].stage = "stored" /\ row[e].processed = FALSE
      BY <2>1, <3>1 DEF Claimable, Rows
    <3> QED
      BY <3>1, <3>2, <3>3 DEF RowClaimed
  <2>3. CASE e \notin S
    BY <1>1, <2>3 DEF RowStays
  <2> QED
    BY <2>2, <2>3
<1> QED
  BY <1>2

LEMMA WorkerRows ==
  ASSUME TypeOK, NEW w \in Workers, WorkerStep(w)
  PROVE  \/ \A e \in Events : RowStays(e)
         \/ Claim(w)
         \/ \E e \in Events : Unlocking(w, e)
<1>1. CASE \/ Start(w) \/ Signal(w) \/ Stop(w) \/ StopReturns(w) \/ Crash(w)
           \/ DropQueued(w)
           \/ \E e \in Events : Dispatch(w, e) \/ HandlerReturns(w, e) \/ SettleFails(w, e)
  <2>1. row' = row
    BY <1>1 DEF Start, Signal, Stop, StopReturns, Crash, Gone, DropQueued, Dispatch,
                HandlerReturns, SettleFails
  <2> QED
    BY <2>1, SameRows
<1>2. ASSUME NEW e \in Events, Settle(w, e)
      PROVE  (\A f \in Events : RowStays(f)) \/ Unlocking(w, e)
  <2>1. CASE Owns(w, e)
    BY <1>2, <2>1 DEF Unlocking
  <2>2. CASE ~Owns(w, e)
    <3>1. row' = row
      BY <1>2, <2>2 DEF Settle, MarkProcessed, MarkFailure, MarkDeadLetter, ReleaseLease
    <3> QED
      BY <3>1, SameRows
  <2> QED
    BY <2>1, <2>2
<1> QED
  BY <1>1, <1>2 DEF WorkerStep

LEMMA RowCases ==
  ASSUME TypeOK, [Next]_vars
  PROVE  \/ \A e \in Events : RowStays(e)
         \/ \E e \in Events : Create(e) \/ DeleteProcessed(e)
         \/ \E w \in Workers : Claim(w)
         \/ \E w \in Workers, e \in Events : Unlocking(w, e)
<1>1. ASSUME NEW h \in heartbeat, HeartbeatStep(h)
      PROVE  \A e \in Events : RowStays(e)
  <2>1. \A e \in Events :
          row'[e] = row[e] \/ row'[e] = [row[e] EXCEPT !.lease = LeaseTicks]
    BY <1>1 DEF HeartbeatStep, Renew, RenewFails, HeartbeatQuits, Renewed, TypeOK
  <2>2. \A e \in Events : row[e] \in Rows
    BY DEF TypeOK
  <2> QED
    BY <2>1, <2>2 DEF RowStays, Rows
<1>2. CASE Tick
  <2>1. \A e \in Events :
          /\ row'[e] = [row[e] EXCEPT !.lease = Down(@, NoLease), !.wait = Down(@, 0)]
          /\ row[e] \in Rows
    BY <1>2 DEF Tick, TypeOK
  <2> QED
    BY <2>1 DEF RowStays, Rows
<1>3. CASE UNCHANGED vars
  BY <1>3, SameRows DEF vars
<1>4. ASSUME NEW w \in Workers, WorkerStep(w)
      PROVE  \/ \A e \in Events : RowStays(e)
             \/ \E v \in Workers : Claim(v)
             \/ \E v \in Workers, e \in Events : Unlocking(v, e)
  BY <1>4, WorkerRows
<1> QED
  BY <1>1, <1>2, <1>3, <1>4, Zenon DEF Next

\* A creation or a purge is of one row, and leaves the tasks alone.
LEMMA LifeOfRow ==
  ASSUME IInv, NEW e \in Events, Create(e) \/ DeleteProcessed(e)
  PROVE  /\ \A f \in Events \ {e} : RowStays(f)
         /\ row'[e].processed = row[e].processed
         /\ row'[e].attempts = row[e].attempts
         /\ row'[e].lockedBy = row[e].lockedBy
         /\ \/ /\ row[e].stage = "unborn" /\ row'[e].stage = "stored"
               /\ ~row[e].processed /\ row[e].attempts = 0
            \/ /\ row[e].stage = "stored" /\ row'[e].stage = "deleted"
               /\ row[e].processed
<1>1. row \in [Events -> Rows]
  BY DEF IInv, TypeOK
<1>2. /\ \A f \in Events \ {e} : row'[f] = row[f]
      /\ \/ row[e].stage = "unborn" /\ row'[e] = [row[e] EXCEPT !.stage = "stored"]
         \/ /\ row[e].stage = "stored" /\ row[e].processed
            /\ row'[e] = [row[e] EXCEPT !.stage = "deleted"]
  BY <1>1 DEF Create, DeleteProcessed
<1>3. row[e].stage = "unborn" => ~row[e].processed /\ row[e].attempts = 0
  BY DEF IInv, UnbornIsUntouched
<1> QED
  BY <1>1, <1>2, <1>3 DEF RowStays, Rows
-----------------------------------------------------------------------------
LEMMA FinalStep ==
  ASSUME IInv, [Next]_vars, NEW e \in Events
  PROVE  /\ row[e].processed =>
              row'[e].processed /\ row'[e].attempts = row[e].attempts
              /\ row'[e].lockedBy = NoWorker
         /\ Dead(row[e]) => Dead(row'[e])
<1>1. TypeOK /\ (row[e].processed => row[e].lockedBy = NoWorker)
  BY DEF IInv, ProcessedWasDelivered
<1>2. CASE RowStays(e)
  BY <1>1, <1>2 DEF RowStays, Dead
<1>3. CASE \E f \in Events : Create(f) \/ DeleteProcessed(f)
  <2>1. PICK f \in Events : Create(f) \/ DeleteProcessed(f)
    BY <1>3
  <2>2. CASE f = e
    BY <1>1, <2>1, <2>2, LifeOfRow DEF Dead
  <2>3. CASE f # e
    BY <1>2, <2>1, <2>3, LifeOfRow
  <2> QED
    BY <2>2, <2>3
<1>4. ASSUME NEW w \in Workers, RowClaimed(w, e)
      PROVE  ~row[e].processed /\ ~Dead(row[e])
  <2>1. ~row[e].processed /\ row[e].attempts < MaxAttempts
    BY <1>4 DEF RowClaimed, Claimable
  <2>2. row[e].attempts \in Int /\ MaxAttempts \in Int
    BY <1>1, BoundsAssumption DEF TypeOK, Rows
  <2> QED
    BY <2>1, <2>2 DEF Dead
<1>5. ASSUME NEW w \in Workers, NEW f \in Events, Unlocking(w, f)
      PROVE  (f # e => RowStays(e)) /\ (f = e => ~row[e].processed /\ ~Dead(row[e]))
  <2>1. \A g \in Events : g # f => row'[g] = row[g]
    BY <1>5, SettleWrites DEF Unlocking
  <2>2. ~row[f].processed /\ row[f].lockedBy # NoWorker
    BY <1>5, WorkersAssumption DEF Unlocking, Owns
  <2> QED
    BY <2>1, <2>2 DEF RowStays, Dead
<1> QED
  BY <1>1, <1>2, <1>3, <1>4, <1>5, RowCases, ClaimRows, Zenon

(***************************************************************************)
(* Processed and dead-lettered are final, for any number of workers,       *)
(* however late their statements and renewals come.                        *)
(***************************************************************************)
THEOREM EndsAreFinal == Spec => FinalRowsStay
<1>1. IInv /\ [Next]_vars =>
        [\A e \in Events :
           /\ row[e].processed =>
                row'[e].processed /\ row'[e].attempts = row[e].attempts
                /\ row'[e].lockedBy = NoWorker
           /\ Dead(row[e]) => Dead(row'[e])]_vars
  BY FinalStep
<1> QED
  BY <1>1, Invariance, PTL DEF Spec, FinalRowsStay

LEMMA LeaseStep ==
  ASSUME IInv, [Next]_vars, NEW e \in Events, NEW w \in Workers,
         row[e].lockedBy = w, row'[e].lockedBy # w
  PROVE  \/ row[e].lease < Skew
         \/ task[w][e].phase \in Settling /\ task'[w][e] = Idle
<1>1. TypeOK /\ ~RowStays(e)
  BY DEF IInv, RowStays
<1>2. ASSUME NEW f \in Events, Create(f) \/ DeleteProcessed(f)
      PROVE  FALSE
  BY <1>1, <1>2, LifeOfRow
<1>3. ASSUME NEW v \in Workers, RowClaimed(v, e)
      PROVE  row[e].lease < Skew
  BY <1>3 DEF RowClaimed, Claimable, LeaseIsOver
<1>4. ASSUME NEW v \in Workers, NEW f \in Events, Unlocking(v, f)
      PROVE  task[w][e].phase \in Settling /\ task'[w][e] = Idle
  <2>1. \A g \in Events : g # f => row'[g] = row[g]
    BY <1>4, SettleWrites DEF Unlocking
  <2>2. f = e
    BY <1>1, <2>1 DEF RowStays
  <2>3. v = w
    BY <1>4, <2>2 DEF Unlocking, Owns
  <2>4. task[w][e].phase \in Settling
    BY <1>4, <2>2, <2>3 DEF Unlocking, Settle, MarkProcessed, MarkFailure,
                            MarkDeadLetter, ReleaseLease, Settling
  <2>5. task'[w][e] = Idle
    BY <1>1, <1>4, <2>2, <2>3 DEF Unlocking, Settle, Finished, TypeOK
  <2> QED
    BY <2>4, <2>5
<1> QED
  BY <1>1, <1>2, <1>3, <1>4, RowCases, ClaimRows, Zenon

(***************************************************************************)
(* A row goes from one owner to the next only when its lease has run out   *)
(* by the clock of the next one, however far the clocks are apart, or by a *)
(* statement of its owner (ClaimPending, the WHERE locked_by).             *)
(***************************************************************************)
THEOREM LiveLeases == Spec => LiveLeaseIsKept
<1>1. IInv /\ [Next]_vars =>
        [\A e \in Events, w \in Workers :
           row[e].lockedBy = w /\ row'[e].lockedBy # w =>
             \/ row[e].lease < Skew
             \/ task[w][e].phase \in Settling /\ task'[w][e] = Idle]_vars
  BY LeaseStep
<1> QED
  BY <1>1, Invariance, PTL DEF Spec, LiveLeaseIsKept
-----------------------------------------------------------------------------
\* A handler that runs was started, for the claim that its task is of.
HandlersWereStarted ==
  \A w \in Workers, e \in Events : Handling(w, e) => task[w][e].claim \in starts[e]

\* The handlers that run after a step ran before it, for the same claim.
HandlersGoOn ==
  \A w \in Workers, e \in Events :
    Handling(w, e)' => Handling(w, e) /\ task'[w][e].claim = task[w][e].claim

LEMMA OneTaskEnds ==
  ASSUME TypeOK, NEW w \in Workers, NEW e \in Events, NEW t,
         task' = [task EXCEPT ![w][e] = t], t.phase # "handling"
  PROVE  HandlersGoOn
<1>1. /\ task'[w][e] = t
      /\ \A v \in Workers, f \in Events : v # w \/ f # e => task'[v][f] = task[v][f]
  BY DEF TypeOK
<1> QED
  BY <1>1 DEF HandlersGoOn, Handling

LEMMA WorkerTasksEnd ==
  ASSUME TypeOK, NEW w \in Workers,
         \/ Start(w) \/ Signal(w) \/ Stop(w) \/ StopReturns(w) \/ Crash(w)
         \/ DropQueued(w) \/ Claim(w)
  PROVE  HandlersGoOn
<1>1. \A v \in Workers \ {w}, f \in Events : task'[v][f] = task[v][f]
  BY DEF Start, Signal, Stop, StopReturns, Crash, Gone, DropQueued, Claim, TypeOK
<1>2. \A f \in Events : task'[w][f] = task[w][f] \/ task'[w][f].phase # "handling"
  <2>1. CASE Claim(w)
    <3>1. PICK S \in SUBSET {e \in Events : Claimable(w, e)}, answered \in BOOLEAN :
            task' = [task EXCEPT ![w] =
                       [e \in Events |->
                          IF answered /\ e \in S
                          THEN [Idle EXCEPT !.phase = "queued",
                                            !.claim = row[e].attempts + 1]
                          ELSE task[w][e]]]
      BY <2>1 DEF Claim
    <3>2. \A n : [Idle EXCEPT !.phase = "queued", !.claim = n].phase = "queued"
      BY DEF Idle
    <3>3. \A f \in Events :
            \/ task'[w][f] = [Idle EXCEPT !.phase = "queued",
                                          !.claim = row[f].attempts + 1]
            \/ task'[w][f] = task[w][f]
      BY <3>1 DEF TypeOK
    <3> QED
      BY <3>2, <3>3
  <2>2. CASE Start(w) \/ Signal(w) \/ Stop(w)
    BY <2>2 DEF Start, Signal, Stop
  <2>3. CASE StopReturns(w) \/ Crash(w) \/ DropQueued(w)
    <3>1. \A f \in Events : task'[w][f] = Idle \/ task'[w][f] = task[w][f]
      BY <2>3 DEF StopReturns, Crash, Gone, DropQueued, TypeOK
    <3> QED
      BY <3>1 DEF Idle
  <2> QED
    BY <2>1, <2>2, <2>3
<1> QED
  BY <1>1, <1>2 DEF HandlersGoOn, Handling

\* One task changes: it ends, or its handler is started.
LEMMA TaskChanges ==
  ASSUME TypeOK, HandlersWereStarted, NEW w \in Workers, NEW e \in Events,
         \/ Dispatch(w, e) \/ HandlerReturns(w, e)
         \/ Settle(w, e) \/ SettleFails(w, e)
  PROVE  HandlersWereStarted'
<1>1. task[w][e] \in Tasks /\ Idle.phase # "handling"
  BY DEF TypeOK, Idle
<1>2. ASSUME NEW t, task' = [task EXCEPT ![w][e] = t], t.phase # "handling",
             starts' = starts
      PROVE  HandlersWereStarted'
  BY <1>2, OneTaskEnds DEF HandlersGoOn, HandlersWereStarted
<1>3. CASE Settle(w, e) \/ SettleFails(w, e)
  <2>1. task' = [task EXCEPT ![w][e] = Idle] /\ starts' = starts
    BY <1>3 DEF Settle, SettleFails, Finished
  <2> QED
    BY <1>1, <1>2, <2>1
<1>4. CASE HandlerReturns(w, e)
  <2>1. PICK outcome \in Outcomes :
          \/ task' = [task EXCEPT ![w][e] = Idle]
          \/ task' = [task EXCEPT ![w][e] =
                        [task[w][e] EXCEPT !.phase = NextPhase(w, e, outcome)]]
    BY <1>4 DEF HandlerReturns, Finished, TypeOK
  <2>2. [task[w][e] EXCEPT !.phase = NextPhase(w, e, outcome)].phase # "handling"
    BY <1>1 DEF NextPhase, Tasks
  <2>3. starts' = starts
    BY <1>4 DEF HandlerReturns
  <2> QED
    BY <1>1, <1>2, <2>1, <2>2, <2>3
<1>5. CASE Dispatch(w, e) /\ e \notin Handled
  <2>1. /\ task' = [task EXCEPT ![w][e] = [task[w][e] EXCEPT !.phase = "fatal"]]
        /\ starts' = starts
    BY <1>5 DEF Dispatch, TypeOK
  <2>2. [task[w][e] EXCEPT !.phase = "fatal"].phase # "handling"
    BY <1>1 DEF Tasks
  <2> QED
    BY <1>2, <2>1, <2>2
<1>6. CASE Dispatch(w, e) /\ e \in Handled
  <2>1. /\ task'[w][e] = [task[w][e] EXCEPT !.phase = "handling",
                                            !.left = HandlerTicks,
                                            !.late = LeaseTooShort(w, e)]
        /\ \A v \in Workers, f \in Events : v # w \/ f # e => task'[v][f] = task[v][f]
        /\ starts'[e] = starts[e] \cup {task[w][e].claim}
        /\ \A f \in Events : starts[f] \subseteq starts'[f]
    BY <1>6 DEF Dispatch, TypeOK
  <2>2. task'[w][e].claim = task[w][e].claim
    BY <1>1, <2>1 DEF Tasks
  <2>3. ASSUME NEW v \in Workers, NEW f \in Events, Handling(v, f)'
        PROVE  task'[v][f].claim \in starts'[f]
    <3>1. CASE v = w /\ f = e
      BY <2>1, <2>2, <3>1
    <3>2. CASE v # w \/ f # e
      BY <2>1, <2>3, <3>2 DEF HandlersWereStarted, Handling
    <3> QED
      BY <3>1, <3>2
  <2> QED
    BY <2>3 DEF HandlersWereStarted
<1> QED
  BY <1>3, <1>4, <1>5, <1>6

LEMMA StartedStep ==
  ASSUME TypeOK, HandlersWereStarted, [Next]_vars
  PROVE  HandlersWereStarted'
<1>1. ASSUME HandlersGoOn, starts' = starts
      PROVE  HandlersWereStarted'
  BY <1>1 DEF HandlersGoOn, HandlersWereStarted
<1>2. ASSUME NEW w \in Workers, WorkerStep(w)
      PROVE  HandlersWereStarted'
  <2>1. CASE \/ Start(w) \/ Signal(w) \/ Stop(w) \/ StopReturns(w) \/ Crash(w)
             \/ DropQueued(w) \/ Claim(w)
    <3>1. starts' = starts
      BY <2>1 DEF Start, Signal, Stop, StopReturns, Crash, Gone, DropQueued, Claim
    <3> QED
      BY <1>1, <2>1, <3>1, WorkerTasksEnd
  <2> QED
    BY <1>2, <2>1, TaskChanges DEF WorkerStep
<1>3. ASSUME NEW h \in heartbeat, HeartbeatStep(h)
      PROVE  HandlersWereStarted'
  <2>1. h.worker \in Workers /\ h.event \in Events /\ starts' = starts
    BY <1>3 DEF TypeOK, Heartbeats, HeartbeatStep, Renew, RenewFails, HeartbeatQuits
  <2>2. \/ task' = task
        \/ \E lost \in BOOLEAN :
             task' = [task EXCEPT ![h.worker][h.event] = [@ EXCEPT !.lost = lost]]
    BY <1>3 DEF HeartbeatStep, Renew, RenewFails, HeartbeatQuits
  <2>3. \A v \in Workers, f \in Events : /\ task'[v][f].phase = task[v][f].phase
                                         /\ task'[v][f].claim = task[v][f].claim
    <3>1. CASE task' = task
      BY <3>1
    <3>2. ASSUME NEW lost \in BOOLEAN,
                 task' = [task EXCEPT ![h.worker][h.event] = [@ EXCEPT !.lost = lost]]
          PROVE  \A v \in Workers, f \in Events :
                   /\ task'[v][f].phase = task[v][f].phase
                   /\ task'[v][f].claim = task[v][f].claim
      BY <2>1, <3>2 DEF TypeOK, Tasks
    <3> QED
      BY <2>2, <3>1, <3>2
  <2> QED
    BY <1>1, <2>1, <2>3 DEF HandlersGoOn, Handling
<1>4. CASE Tick
  <2>2. ASSUME NEW v \in Workers, NEW f \in Events
        PROVE  /\ task'[v][f].phase = task[v][f].phase
               /\ task'[v][f].claim = task[v][f].claim
    <3>1. /\ task'[v][f] = [task[v][f] EXCEPT !.left = Down(@, 0)]
          /\ task[v][f] \in Tasks
      BY <1>4 DEF Tick, TypeOK
    <3> QED
      BY <3>1 DEF Tasks
  <2> QED
    BY <1>1, <1>4, <2>2 DEF HandlersGoOn, Handling, Tick
<1>5. CASE UNCHANGED vars \/ \E e \in Events : Create(e) \/ DeleteProcessed(e)
  <2>1. task' = task /\ starts' = starts
    BY <1>5 DEF vars, Create, DeleteProcessed
  <2> QED
    BY <1>1, <2>1 DEF HandlersGoOn, Handling
<1> QED
  BY <1>2, <1>3, <1>4, <1>5 DEF Next
-----------------------------------------------------------------------------
\* The stage of an event is a function of what RowStays keeps.
LEMMA StageStays ==
  ASSUME NEW e \in Events, RowStays(e)
  PROVE  StageOf(row'[e]) = StageOf(row[e])
BY DEF RowStays, StageOf, Dead

\* A step that leaves the table and moves one event from a stage to another.
LEMMA StageMoves ==
  ASSUME NEW e \in Events, NEW from, NEW to,
         \A f \in Events \ {e} : RowStays(f),
         StageOf(row[e]) = from, StageOf(row'[e]) = to,
         UNCHANGED <<starts, delivered>>
  PROVE  Delivery!Move(e, from, to)
<1>1. \A f \in Events \ {e} : StageOf(row'[f]) = StageOf(row[f])
  BY StageStays
<1> DEFINE stage == [f \in Events |-> StageOf(row[f])]
<1>2. stage[e] = from
  OBVIOUS
<1>3. [f \in Events |-> StageOf(row'[f])] = [stage EXCEPT ![e] = to]
  BY <1>1
<1> QED
  BY <1>2, <1>3 DEF Delivery!Move

LEMMA SameStages ==
  ASSUME \A e \in Events : StageOf(row'[e]) = StageOf(row[e]),
         UNCHANGED <<starts, delivered>>
  PROVE  UNCHANGED Delivery!vars
BY DEF Delivery!vars

LEMMA LifeMoves ==
  ASSUME IInv, NEW e \in Events, Create(e) \/ DeleteProcessed(e)
  PROVE  Delivery!Next
<1>1. UNCHANGED <<starts, delivered>>
  BY DEF Create, DeleteProcessed
<1>2. \A f \in Events \ {e} : RowStays(f)
  BY LifeOfRow
<1>3. CASE row[e].stage = "unborn"
  <2>0. StageOf(row[e]) = "unborn"
    BY <1>3 DEF StageOf, Dead
  <2>1. row'[e].stage = "stored" /\ ~row'[e].processed /\ row'[e].attempts = 0
    BY <1>3, LifeOfRow
  <2>2. StageOf(row'[e]) = "pending"
    BY <2>1, BoundsAssumption DEF StageOf, Dead
  <2>3. Delivery!Post(e)
    BY <1>1, <1>2, <2>0, <2>2, StageMoves DEF Delivery!Post
  <2> QED
    BY <2>3 DEF Delivery!Next
<1>4. CASE row[e].stage # "unborn"
  <2>1. /\ row[e].stage = "stored" /\ row[e].processed
        /\ row'[e].stage = "deleted"
    BY <1>4, LifeOfRow
  <2>2. StageOf(row[e]) = "done" /\ StageOf(row'[e]) = "purged"
    BY <2>1 DEF StageOf, Dead
  <2>3. Delivery!Purge(e)
    BY <1>1, <1>2, <2>2, StageMoves DEF Delivery!Purge
  <2> QED
    BY <2>3 DEF Delivery!Next
<1> QED
  BY <1>3, <1>4

\* A claim leaves every event where it is: a lock keeps it pending.
LEMMA ClaimMoves ==
  ASSUME IInv, NEW w \in Workers, Claim(w)
  PROVE  UNCHANGED Delivery!vars
<1>1. TypeOK /\ UNCHANGED <<starts, delivered>>
  BY DEF Claim, IInv
<1>2. ASSUME NEW e \in Events, RowClaimed(w, e)
      PROVE  StageOf(row'[e]) = StageOf(row[e])
  <2>1. /\ row[e].stage = "stored" /\ ~row[e].processed
        /\ row[e].attempts < MaxAttempts
        /\ row'[e].stage = "stored" /\ ~row'[e].processed
        /\ row'[e].lockedBy # NoWorker
    BY <1>2, WorkersAssumption DEF RowClaimed, Claimable
  <2>2. row[e].attempts # MaxAttempts
    BY <1>1, <2>1, BoundsAssumption DEF TypeOK, Rows
  <2> QED
    BY <2>1, <2>2 DEF StageOf, Dead
<1>3. \A e \in Events : StageOf(row'[e]) = StageOf(row[e])
  BY <1>1, <1>2, ClaimRows, StageStays
<1> QED
  BY <1>1, <1>3, SameStages

\* The owner unlocks a pending row: it stays so, or is done, or dead.
LEMMA UnlockMoves ==
  ASSUME IInv, NEW w \in Workers, NEW e \in Events, Unlocking(w, e)
  PROVE  Delivery!Next \/ UNCHANGED Delivery!vars
<1>1. /\ UNCHANGED <<starts, delivered>>
      /\ row[e].stage = "stored" /\ ~row[e].processed /\ row[e].lockedBy # NoWorker
  BY WorkersAssumption DEF Unlocking, Settle, Owns
<1>2. /\ row'[e].stage = "stored"
      /\ row'[e].processed => delivered[e]
      /\ \A f \in Events : f # e => row'[f] = row[f]
  BY SettleWrites DEF Unlocking
<1>3. \A f \in Events \ {e} : RowStays(f)
  BY <1>2 DEF RowStays
<1>4. StageOf(row[e]) = "pending"
  BY <1>1 DEF StageOf, Dead
<1>5. \/ StageOf(row'[e]) = "pending"
      \/ StageOf(row'[e]) = "dead"
      \/ StageOf(row'[e]) = "done" /\ delivered[e]
  BY <1>2 DEF StageOf, Dead
<1>6. CASE StageOf(row'[e]) = "pending"
  BY <1>1, <1>3, <1>4, <1>6, StageStays, SameStages
<1>7. CASE StageOf(row'[e]) = "dead"
  <2>1. Delivery!GiveUp(e)
    BY <1>1, <1>3, <1>4, <1>7, StageMoves DEF Delivery!GiveUp
  <2> QED
    BY <2>1 DEF Delivery!Next
<1>8. CASE StageOf(row'[e]) = "done" /\ delivered[e]
  <2>1. Delivery!Finish(e)
    BY <1>1, <1>3, <1>4, <1>8, StageMoves DEF Delivery!Finish
  <2> QED
    BY <2>1 DEF Delivery!Next
<1> QED
  BY <1>5, <1>6, <1>7, <1>8

\* A dispatch is a try, under the number of the claim.
LEMMA DispatchMoves ==
  ASSUME IInv, NEW w \in Workers, NEW e \in Events, Dispatch(w, e)
  PROVE  Delivery!Next \/ UNCHANGED Delivery!vars
<1>1. row' = row /\ delivered' = delivered
  BY DEF Dispatch
<1>2. CASE e \notin Handled
  <2>1. starts' = starts
    BY <1>2 DEF Dispatch
  <2> QED
    BY <1>1, <2>1, SameStages
<1>3. CASE e \in Handled
  <2> DEFINE n == task[w][e].claim
  <2>1. Busy(w, e) /\ starts' = [starts EXCEPT ![e] = @ \cup {n}]
    BY <1>3 DEF Dispatch, Busy
  <2>2. n \notin starts[e]
    BY <2>1 DEF Dispatch, IInv, EachClaimRunsOnce
  <2>3. n \in 1..row[e].attempts /\ row[e].stage # "unborn"
    BY <2>1 DEF IInv, TasksAreCounted
  <2>4. row[e].attempts \in 0..MaxAttempts
    BY DEF IInv, TypeOK, Rows
  <2>5. n \in (1..MaxAttempts) \ starts[e]
    BY <2>2, <2>3, <2>4, BoundsAssumption
  <2>6. StageOf(row[e]) # "unborn"
    BY <2>3 DEF StageOf
  <2> HIDE DEF n
  <2>7. Delivery!Try(e)
    BY <1>1, <2>1, <2>5, <2>6 DEF Delivery!Try
  <2> QED
    BY <2>7 DEF Delivery!Next
<1> QED
  BY <1>2, <1>3

\* A handler that returns nil delivers.
LEMMA ReturnMoves ==
  ASSUME TypeOK, HandlersWereStarted, NEW w \in Workers, NEW e \in Events,
         HandlerReturns(w, e)
  PROVE  Delivery!Next \/ UNCHANGED Delivery!vars
<1>1. /\ UNCHANGED <<row, starts>>
      /\ \E outcome \in Outcomes :
           delivered' = [delivered EXCEPT ![e] = @ \/ outcome = "ok"]
  BY DEF HandlerReturns
<1>2. starts[e] # {}
  BY DEF HandlerReturns, HandlersWereStarted, Handling
<1>3. \/ delivered' = delivered
      \/ delivered' = [delivered EXCEPT ![e] = TRUE]
  <2>1. \/ delivered' = [delivered EXCEPT ![e] = delivered[e] \/ TRUE]
        \/ delivered' = [delivered EXCEPT ![e] = delivered[e] \/ FALSE]
    BY <1>1
  <2>2. (delivered[e] \/ TRUE) = TRUE /\ (delivered[e] \/ FALSE) = delivered[e]
    BY DEF TypeOK
  <2>3. [delivered EXCEPT ![e] = delivered[e]] = delivered
    BY DEF TypeOK
  <2> QED
    BY <2>1, <2>2, <2>3
<1>4. CASE delivered' = delivered
  BY <1>1, <1>4, SameStages
<1>5. CASE delivered' = [delivered EXCEPT ![e] = TRUE]
  <2>1. Delivery!Deliver(e)
    BY <1>1, <1>2, <1>5 DEF Delivery!Deliver
  <2> QED
    BY <2>1 DEF Delivery!Next
<1> QED
  BY <1>3, <1>4, <1>5

LEMMA DeliveryStep ==
  ASSUME IInv, HandlersWereStarted, [Next]_vars
  PROVE  Delivery!Next \/ UNCHANGED Delivery!vars
<1>1. TypeOK
  BY DEF IInv
<1>2. ASSUME \A e \in Events : RowStays(e),
             ~\E w \in Workers, e \in Events : Dispatch(w, e) \/ HandlerReturns(w, e)
      PROVE  UNCHANGED Delivery!vars
  <2>1. UNCHANGED <<starts, delivered>>
    BY <1>2 DEF Next, vars, Create, DeleteProcessed, WorkerStep, Start, Signal, Stop,
       StopReturns, Crash, Gone, Claim, DropQueued, Settle, SettleFails,
       HeartbeatStep, Renew, RenewFails, HeartbeatQuits, Tick
  <2> QED
    BY <1>2, <2>1, StageStays, SameStages
<1> QED
  BY <1>1, <1>2, RowCases, LifeMoves, ClaimMoves, UnlockMoves, DispatchMoves,
     ReturnMoves, Zenon

LEMMA DeliveryInit ==
  ASSUME Init
  PROVE  Delivery!Init
<1>1. ASSUME NEW e \in Events
      PROVE  StageOf(row[e]) = "unborn"
  <2>1. row[e].stage = "unborn"
    BY DEF Init
  <2> QED
    BY <2>1 DEF StageOf, Dead
<1> QED
  BY <1>1 DEF Init, Delivery!Init

(***************************************************************************)
(* The outbox implements EventDelivery, for any number of workers, events  *)
(* and attempts: each try of an event has a number of its own, at most     *)
(* max_attempts of them are made, an event is done only after a try that   *)
(* delivered it, its end is for good, and only done events are purged.     *)
(***************************************************************************)
THEOREM Refinement == Spec => ImplementsEventDelivery
<1>1. Init => HandlersWereStarted
  BY DEF Init, HandlersWereStarted, Handling, Idle
<1>2. IInv /\ HandlersWereStarted /\ [Next]_vars => HandlersWereStarted'
  BY StartedStep DEF IInv
<1>3. IInv /\ HandlersWereStarted /\ [Next]_vars => [Delivery!Next]_(Delivery!vars)
  BY DeliveryStep
<1>4. Init => Delivery!Init
  BY DeliveryInit
<1> QED
  BY <1>1, <1>2, <1>3, <1>4, Invariance, PTL
     DEF Spec, ImplementsEventDelivery, Delivery!Spec
=============================================================================
