------------------------------- MODULE Outbox -------------------------------
(***************************************************************************)
(* The transactional outbox: the outbox_events table and the workers that  *)
(* claim its rows under a lease, run a handler for each and record what    *)
(* came of it (src/internal/outbox, src/internal/db/outbox.sql.go).        *)
(*                                                                         *)
(* One worker is one process: NewWorker draws a fresh id, so a restarted   *)
(* process is another element of Workers.  Time is counted down: a row     *)
(* keeps the ticks left on its lease and before its next attempt, so that  *)
(* no clock has to be bounded.  A lease that is NULL and one that has run  *)
(* out answer every query of the table alike and are both NoLease.  They   *)
(* are counted by the clock of the process that wrote them; that of        *)
(* another one may differ by Skew.                                         *)
(***************************************************************************)
EXTENDS Integers, FiniteSets

CONSTANTS
  Events,       \* ids of outbox rows
  Workers,      \* process incarnations, one outbox worker each
  NoWorker,     \* locked_by IS NULL
  Handled,      \* the events whose type has a registered handler
  Outcomes,     \* how a handler may end, a subset of HandlerOutcomes
  MaxAttempts,  \* max_attempts, defaultMaxAttempts for every event created
  BatchSize,    \* LIMIT of a claim
  Slots,        \* maxWorkers: capacity of the semaphore
  LeaseTicks,   \* leaseDuration; a tick is one second
  Skew,         \* how far the clocks of two processes may be apart, in ticks
  Prompt        \* TRUE: nothing that is due is still undone when time passes

\* What a handler, or the runtime under it, may do.
HandlerOutcomes == {"ok", "error", "fatal", "canceled", "panic"}

ASSUME EventsAssumption == Handled \subseteq Events
ASSUME WorkersAssumption == NoWorker \notin Workers
ASSUME OutcomesAssumption == Outcomes \subseteq HandlerOutcomes
ASSUME BoundsAssumption ==
  /\ MaxAttempts \in Nat \ {0}
  /\ BatchSize \in Nat \ {0}
  /\ Slots \in Nat \ {0}
  /\ LeaseTicks \in Nat /\ LeaseTicks >= 2 /\ Skew \in Nat
  /\ Prompt \in BOOLEAN

\* MarkFailure's backoff, in seconds, after n counted attempts.
Backoff(n) == 2^n

ASSUME BackoffAssumption == \A n \in 0..MaxAttempts : Backoff(n) \in Nat

\* 0.8 of the lease, in whole ticks.
HandlerTicks == (8 * LeaseTicks) \div 10

\* Half the lease, never less than two seconds.
HeartbeatTicks ==
  IF LeaseTicks \div 2 < 2 THEN 2 ELSE LeaseTicks \div 2

NoLease == -1

VARIABLES
  row,       \* [Events -> Rows]: the table
  status,    \* [Workers -> Statuses]: the life of each process
  task,      \* [Workers -> [Events -> Tasks]]: what processBatch holds of each event
  heartbeat, \* the heartbeat goroutines alive, a set of Heartbeats
  starts,    \* history: the claims of each event whose handler was started
  delivered  \* history: the handler of the event has returned nil at least once

vars == <<row, status, task, heartbeat, starts, delivered>>

Rows ==
  [stage     : {"unborn", "stored", "deleted"},
   processed : BOOLEAN,             \* processed_at IS NOT NULL
   attempts  : 0..MaxAttempts,      \* CHECK (attempts <= max_attempts)
   wait      : Nat,                 \* ticks before next_attempt_at
   lockedBy  : Workers \cup {NoWorker},
   lease     : NoLease..LeaseTicks] \* ticks before lease_expires_at

(***************************************************************************)
(* "signalled": the process context is cancelled by a signal, and with it  *)
(* the worker's.  "stopping": Stop cancelled the worker's own context and  *)
(* the process context is alive.                                           *)
(***************************************************************************)
Statuses == {"new", "running", "signalled", "stopping", "exited", "crashed"}

(***************************************************************************)
(* "queued": claimed, waiting for a slot.  "handling": the handler runs.   *)
(* "succeeded", "failed", "fatal", "released": it is over, the statement   *)
(* that records it is still to be sent.                                    *)
(***************************************************************************)
Settling == {"succeeded", "failed", "fatal", "released"}

Tasks ==
  [phase : {"none", "queued", "handling"} \cup Settling,
   claim : 0..MaxAttempts,     \* Attempts of the claimed copy of the event
   late  : BOOLEAN,            \* history: LeaseTooShort at dispatch
   left  : 0..HandlerTicks,    \* ticks before the handler's deadline
   lost  : BOOLEAN]            \* the task was cancelled with ErrLeaseLost

Heartbeats ==
  [worker : Workers, event : Events, claim : 0..MaxAttempts,
   beat : 0..HeartbeatTicks]

Idle == [phase |-> "none", claim |-> 0, late |-> FALSE, left |-> 0, lost |-> FALSE]

Alive(w) == status[w] \in {"running", "signalled", "stopping"}
Cancelled(w) == status[w] \in {"signalled", "stopping"}

\* The goroutine that executeEvent started for the task of w on e.
HeartbeatOf(w, e) ==
  {h \in heartbeat : /\ h.worker = w
                     /\ h.event = e
                     /\ h.claim = task[w][e].claim}

\* A handler that starts now may outlast the lease of w on e, by some clock.
LeaseTooShort(w, e) == row[e].lockedBy # w \/ row[e].lease < HandlerTicks + Skew

\* The task goes back to nothing: executeEvent has returned.
Finished(w, e) == [task EXCEPT ![w][e] = Idle]

BusySlots(w) ==
  {e \in Events : task[w][e].phase \in Settling \cup {"handling"}}
-----------------------------------------------------------------------------
Init ==
  /\ row = [e \in Events |->
              [stage |-> "unborn", processed |-> FALSE, attempts |-> 0,
               wait |-> 0, lockedBy |-> NoWorker, lease |-> NoLease]]
  /\ status = [w \in Workers |-> "new"]
  /\ task = [w \in Workers |-> [e \in Events |-> Idle]]
  /\ heartbeat = {}
  /\ starts = [e \in Events |-> {}]
  /\ delivered = [e \in Events |-> FALSE]

\* A request's transaction commits with an event in it: New, then Create.
Create(e) ==
  /\ row[e].stage = "unborn"
  /\ row' = [row EXCEPT ![e].stage = "stored"]
  /\ UNCHANGED <<status, task, heartbeat, starts, delivered>>

\* DeleteProcessedBatch: an event processed before some past moment goes away.
DeleteProcessed(e) ==
  /\ row[e].stage = "stored"
  /\ row[e].processed
  /\ row' = [row EXCEPT ![e].stage = "deleted"]
  /\ UNCHANGED <<status, task, heartbeat, starts, delivered>>

\* lease_expires_at < now, by a clock that may be ahead of the one that wrote it.
LeaseIsOver(w, e) == row[e].lease < (IF row[e].lockedBy = w THEN 0 ELSE Skew)
-----------------------------------------------------------------------------
(***************************************************************************)
(* Faulty variants: no part of the model, each would replace the           *)
(* definition it is named after.                                           *)
(***************************************************************************)
\* Claimable without the test on attempts.
ClaimableWhenExhausted(w, e) ==
  /\ row[e].stage = "stored" /\ ~row[e].processed
  /\ row[e].wait <= Skew /\ LeaseIsOver(w, e)

\* Claimable without the test on the lease.
ClaimableWhenLeased(w, e) ==
  /\ row[e].stage = "stored" /\ ~row[e].processed
  /\ row[e].attempts < MaxAttempts /\ row[e].wait <= Skew

\* Claimable of unlocked rows only: an expired lease frees nothing.
ClaimableWhenUnlocked(w, e) ==
  /\ row[e].stage = "stored" /\ ~row[e].processed
  /\ row[e].attempts < MaxAttempts /\ row[e].wait <= Skew
  /\ row[e].lockedBy = NoWorker

\* BatchDone of a processBatch that does not wait.
BatchDoneAtOnce(w) == status[w] = "running"

\* Owns without locked_by.
OwnsById(w, e) == row[e].stage = "stored" /\ ~row[e].processed

\* NextPhase that takes a cancelled handler for a finished one.
NextPhaseIfCanceled(w, e, outcome) ==
  IF outcome \in {"ok", "canceled"} THEN "succeeded" ELSE "failed"

\* Down that passes its floor by one.
DownTooFar(n, floor) == IF n >= floor THEN n - 1 ELSE floor
-----------------------------------------------------------------------------
\* batchWg.Wait has returned: nothing is left of the last batch.
BatchDone(w) == \A e \in Events : task[w][e].phase = "none"

(***************************************************************************)
(* The worker's life.                                                      *)
(***************************************************************************)
Start(w) ==
  /\ status[w] = "new"
  /\ status' = [status EXCEPT ![w] = "running"]
  /\ UNCHANGED <<row, task, heartbeat, starts, delivered>>

\* SIGTERM: the context main hands to Start, and later to Stop, is cancelled.
Signal(w) ==
  /\ status[w] \in {"running", "stopping"}
  /\ status' = [status EXCEPT ![w] = "signalled"]
  /\ UNCHANGED <<row, task, heartbeat, starts, delivered>>

\* Serve failed and run returns: Stop is called with a live context.
Stop(w) ==
  /\ status[w] = "running"
  /\ status' = [status EXCEPT ![w] = "stopping"]
  /\ UNCHANGED <<row, task, heartbeat, starts, delivered>>

Gone(w, how) ==
  /\ status' = [status EXCEPT ![w] = how]
  /\ task' = [task EXCEPT ![w] = [e \in Events |-> Idle]]
  /\ heartbeat' = {h \in heartbeat : h.worker # w}
  /\ UNCHANGED <<row, starts, delivered>>

(***************************************************************************)
(* Stop returns and the process ends.  Its select takes whichever is       *)
(* ready: the loop having returned, or the context it was given being      *)
(* done, which after a signal it is from the start.                        *)
(***************************************************************************)
StopReturns(w) ==
  /\ \/ status[w] = "signalled"
     \/ /\ status[w] = "stopping"
        /\ BatchDone(w)
  /\ Gone(w, "exited")

Crash(w) == Alive(w) /\ Gone(w, "crashed")
-----------------------------------------------------------------------------
(***************************************************************************)
(* processBatch.                                                           *)
(***************************************************************************)
Claimable(w, e) ==
  /\ row[e].stage = "stored"
  /\ ~row[e].processed
  /\ row[e].attempts < MaxAttempts
  /\ row[e].wait <= Skew
  /\ LeaseIsOver(w, e)

(***************************************************************************)
(* ClaimPending: one statement, on a worker that has nothing left of its   *)
(* last batch.  SKIP LOCKED makes concurrent claims disjoint, so that they *)
(* act in some order.  The order within a batch and among due rows is left *)
(* open.  The statement may take effect and its answer be lost, to a       *)
(* cancelled context or a broken connection.                               *)
(***************************************************************************)
Claim(w) ==
  /\ status[w] = "running"
  /\ BatchDone(w)
  /\ \E S \in SUBSET {e \in Events : Claimable(w, e)}, answered \in BOOLEAN :
       /\ S # {}
       /\ Cardinality(S) <= BatchSize
       /\ row' = [e \in Events |->
                    IF e \in S
                    THEN [row[e] EXCEPT !.lockedBy = w,
                                        !.lease = LeaseTicks,
                                        !.attempts = @ + 1]
                    ELSE row[e]]
       /\ task' = [task EXCEPT ![w] =
                     [e \in Events |->
                        IF answered /\ e \in S
                        THEN [Idle EXCEPT !.phase = "queued",
                                          !.claim = row[e].attempts + 1]
                        ELSE task[w][e]]]
  /\ UNCHANGED <<status, heartbeat, starts, delivered>>

(***************************************************************************)
(* A slot is free and executeEvent starts: the handler and its heartbeat,  *)
(* or, with no handler for the type, a fatal failure.  The lease is not    *)
(* looked at again.  The dispatch may win its select against a cancelled   *)
(* context.                                                                *)
(***************************************************************************)
Dispatch(w, e) ==
  /\ task[w][e].phase = "queued"
  /\ Cardinality(BusySlots(w)) < Slots
  /\ IF e \in Handled
     THEN /\ task' = [task EXCEPT ![w][e] =
                         [@ EXCEPT !.phase = "handling",
                                   !.left = HandlerTicks,
                                   !.late = LeaseTooShort(w, e)]]
          /\ heartbeat' = heartbeat \cup
               {[worker |-> w, event |-> e, claim |-> task[w][e].claim,
                 beat |-> HeartbeatTicks]}
          /\ starts' = [starts EXCEPT ![e] = @ \cup {task[w][e].claim}]
     ELSE /\ task' = [task EXCEPT ![w][e] = [@ EXCEPT !.phase = "fatal"]]
          /\ UNCHANGED <<heartbeat, starts>>
  /\ UNCHANGED <<row, status, delivered>>

\* The context is done: the rest of the batch is dropped, its leases kept.
DropQueued(w) ==
  /\ Cancelled(w)
  /\ \E e \in Events : task[w][e].phase = "queued"
  /\ task' = [task EXCEPT ![w] =
                [e \in Events |->
                   IF task[w][e].phase = "queued" THEN Idle ELSE task[w][e]]]
  /\ UNCHANGED <<row, status, heartbeat, starts, delivered>>
-----------------------------------------------------------------------------
(***************************************************************************)
(* executeEvent, from the handler's return on.  The heartbeat is told to   *)
(* stop on every way out but a panic, whose recovery skips the close.      *)
(***************************************************************************)
NextPhase(w, e, outcome) ==
  IF outcome = "ok" THEN "succeeded"
  ELSE IF outcome \in {"fatal", "panic"} THEN "fatal"
  ELSE IF outcome = "canceled" /\ Cancelled(w) THEN "released"
  ELSE "failed"

HandlerReturns(w, e) ==
  /\ task[w][e].phase = "handling"
  /\ \E outcome \in Outcomes :
       /\ heartbeat' = IF outcome = "panic" THEN heartbeat
                       ELSE heartbeat \ HeartbeatOf(w, e)
       /\ delivered' = [delivered EXCEPT ![e] = @ \/ outcome = "ok"]
       /\ task' = IF task[w][e].lost /\ outcome \notin {"ok", "panic"}
                  THEN Finished(w, e)
                  ELSE [task EXCEPT ![w][e] =
                          [@ EXCEPT !.phase = NextPhase(w, e, outcome)]]
  /\ UNCHANGED <<row, status, starts>>

\* The WHERE clause of the four statements that end a claim.
Owns(w, e) ==
  /\ row[e].stage = "stored"
  /\ row[e].lockedBy = w
  /\ ~row[e].processed

Unlocked(r) == [r EXCEPT !.lockedBy = NoWorker, !.lease = NoLease]

\* handleFailure counts once more the attempt the claim has counted already.
CurrentAttempt(w, e) == task[w][e].claim + 1

MarkProcessed(w, e) ==
  /\ task[w][e].phase = "succeeded"
  /\ row' = IF Owns(w, e)
            THEN [row EXCEPT ![e] = [Unlocked(@) EXCEPT !.processed = TRUE]]
            ELSE row

MarkFailure(w, e) ==
  /\ task[w][e].phase = "failed"
  /\ CurrentAttempt(w, e) < MaxAttempts
  /\ row' = IF Owns(w, e)
            THEN [row EXCEPT ![e] =
                    [Unlocked(@) EXCEPT !.attempts = CurrentAttempt(w, e),
                                        !.wait = Backoff(CurrentAttempt(w, e))]]
            ELSE row

MarkDeadLetter(w, e) ==
  /\ \/ task[w][e].phase = "fatal"
     \/ /\ task[w][e].phase = "failed"
        /\ CurrentAttempt(w, e) >= MaxAttempts
  /\ row' = IF Owns(w, e)
            THEN [row EXCEPT ![e] =
                    [Unlocked(@) EXCEPT !.attempts = MaxAttempts]]
            ELSE row

ReleaseLease(w, e) ==
  /\ task[w][e].phase = "released"
  /\ row' = IF Owns(w, e) THEN [row EXCEPT ![e] = Unlocked(@)] ELSE row

\* The statement reaches the database; no row of its own is only logged.
Settle(w, e) ==
  /\ \/ MarkProcessed(w, e)
     \/ MarkFailure(w, e)
     \/ MarkDeadLetter(w, e)
     \/ ReleaseLease(w, e)
  /\ task' = Finished(w, e)
  /\ UNCHANGED <<status, heartbeat, starts, delivered>>

\* The statement fails: logged, the row stays as it is, the task is over.
SettleFails(w, e) ==
  /\ task[w][e].phase \in Settling
  /\ task' = Finished(w, e)
  /\ UNCHANGED <<row, status, heartbeat, starts, delivered>>
-----------------------------------------------------------------------------
(***************************************************************************)
(* startHeartbeat.                                                         *)
(***************************************************************************)
Renewable(h) ==
  /\ row[h.event].stage = "stored"
  /\ row[h.event].lockedBy = h.worker
  /\ row[h.event].lease > 0

Renewed(h) == [row EXCEPT ![h.event].lease = LeaseTicks]

Renew(h) ==
  /\ h.beat = 0
  /\ Renewable(h)
  /\ row' = Renewed(h)
  /\ heartbeat' = (heartbeat \ {h}) \cup {[h EXCEPT !.beat = HeartbeatTicks]}
  /\ UNCHANGED <<status, task, starts, delivered>>

(***************************************************************************)
(* No row to renew, or the statement failed, perhaps after taking effect:  *)
(* the task's context is cancelled with ErrLeaseLost, unless its deadline  *)
(* came first or executeEvent has returned, and the heartbeat ends.        *)
(***************************************************************************)
RenewFails(h) ==
  /\ h.beat = 0
  /\ \/ row' = row
     \/ Renewable(h) /\ row' = Renewed(h)
  /\ heartbeat' = heartbeat \ {h}
  /\ LET t == task[h.worker][h.event]
     IN  IF t.phase = "handling" /\ t.claim = h.claim
         THEN \E lost \in IF t.left > 0 THEN {TRUE} ELSE BOOLEAN :
                task' = [task EXCEPT ![h.worker][h.event] =
                           [@ EXCEPT !.lost = lost]]
         ELSE UNCHANGED task
  /\ UNCHANGED <<status, starts, delivered>>

\* The parent context is done.
HeartbeatQuits(h) ==
  /\ Cancelled(h.worker)
  /\ heartbeat' = heartbeat \ {h}
  /\ UNCHANGED <<row, status, task, starts, delivered>>
-----------------------------------------------------------------------------
Down(n, floor) == IF n > floor THEN n - 1 ELSE floor

(***************************************************************************)
(* With Prompt, a second does not pass while a dispatch, a statement or a  *)
(* renewal is due, nor while a handler whose context is done still runs.   *)
(***************************************************************************)
NothingDue ==
  /\ \A w \in Workers, e \in Events :
       LET t == task[w][e]
       IN  /\ t.phase \notin Settling
           /\ t.phase = "handling" => t.left > 0 /\ ~t.lost
           /\ t.phase = "queued" =>
                Cardinality(BusySlots(w)) = Slots /\ ~Cancelled(w)
  /\ \A h \in heartbeat : h.beat > 0 /\ ~Cancelled(h.worker)

Tick ==
  /\ Prompt => NothingDue
  /\ row' = [e \in Events |->
               [row[e] EXCEPT !.lease = Down(@, NoLease),
                              !.wait = Down(@, 0)]]
  /\ task' = [w \in Workers |-> [e \in Events |->
                [task[w][e] EXCEPT !.left = Down(@, 0)]]]
  /\ heartbeat' = {[h EXCEPT !.beat = Down(@, 0)] : h \in heartbeat}
  /\ UNCHANGED <<status, starts, delivered>>

WorkerStep(w) ==
  \/ Start(w) \/ Signal(w) \/ Stop(w) \/ StopReturns(w) \/ Crash(w)
  \/ Claim(w) \/ DropQueued(w)
  \/ \E e \in Events : \/ Dispatch(w, e) \/ HandlerReturns(w, e)
                       \/ Settle(w, e) \/ SettleFails(w, e)

HeartbeatStep(h) == Renew(h) \/ RenewFails(h) \/ HeartbeatQuits(h)

Next ==
  \/ \E e \in Events : Create(e) \/ DeleteProcessed(e)
  \/ \E w \in Workers : WorkerStep(w)
  \/ \E h \in heartbeat : HeartbeatStep(h)
  \/ Tick

Spec == Init /\ [][Next]_vars

(***************************************************************************)
(* Goroutines are scheduled, statements end, handlers return: each is      *)
(* bounded by a timeout in the code.  Nothing is assumed of Start, Signal, *)
(* Stop, Crash, Create, the renewals and which way a statement ends.       *)
(***************************************************************************)
Fairness ==
  /\ WF_vars(Tick)
  /\ \A w \in Workers :
       /\ WF_vars(Claim(w))
       /\ WF_vars(DropQueued(w))
       /\ \A e \in Events : /\ WF_vars(Dispatch(w, e))
                            /\ WF_vars(HandlerReturns(w, e))
                            /\ WF_vars(Settle(w, e) \/ SettleFails(w, e))

FairSpec == Spec /\ Fairness
-----------------------------------------------------------------------------
TypeOK ==
  /\ row \in [Events -> Rows]
  /\ status \in [Workers -> Statuses]
  /\ task \in [Workers -> [Events -> Tasks]]
  /\ heartbeat \subseteq Heartbeats
  /\ starts \in [Events -> SUBSET (0..MaxAttempts)]
  /\ delivered \in [Events -> BOOLEAN]

Busy(w, e) == task[w][e].phase # "none"

(***************************************************************************)
(* The rows carry no fencing token: locked_by alone says whose a claim is. *)
(* It suffices: when the worker named in a row holds a task for the event, *)
(* the task's copy is of the row's latest claim, whatever leases ran out   *)
(* and claims came in between.  (A worker ends its batch before it claims; *)
(* worker.go processBatch.)                                                *)
(***************************************************************************)
LockNamesTheLatestClaim ==
  \A w \in Workers, e \in Events :
    Busy(w, e) /\ row[e].lockedBy = w => task[w][e].claim = row[e].attempts

(***************************************************************************)
(* Two workers never act for one claim: tasks of the same event are of     *)
(* different claims, and none queued is of a claim already started.        *)
(* Duplicated deliveries of an event are so at most max_attempts.          *)
(***************************************************************************)
EachClaimRunsOnce ==
  \A w \in Workers, e \in Events : Busy(w, e) =>
    /\ \A v \in Workers :
         Busy(v, e) /\ task[v][e].claim = task[w][e].claim => v = w
    /\ task[w][e].phase = "queued" => task[w][e].claim \notin starts[e]

(***************************************************************************)
(* The counter that claims, failures and dead-lettering all write never    *)
(* leaves the table's CHECK, although a failed attempt is counted twice,   *)
(* and never counts fewer claims than were run (outbox.sql.go).            *)
(***************************************************************************)
AttemptsCountClaims ==
  \A e \in Events :
    /\ row[e].attempts <= MaxAttempts
    /\ starts[e] \subseteq 1..row[e].attempts
    /\ row[e].lockedBy # NoWorker => row[e].attempts > 0

\* A processed row is one whose handler did return nil, and nobody's lock.
ProcessedWasDelivered ==
  \A e \in Events :
    row[e].processed => delivered[e] /\ row[e].lockedBy = NoWorker

(***************************************************************************)
(* What makes the four properties above inductive: a task is of a claim    *)
(* that the row has counted, and a row not yet stored is untouched.        *)
(***************************************************************************)
TasksAreCounted ==
  \A w \in Workers, e \in Events : Busy(w, e) =>
    /\ row[e].stage # "unborn"
    /\ task[w][e].claim \in 1..row[e].attempts
    /\ task[w][e].phase = "succeeded" => delivered[e]

UnbornIsUntouched ==
  \A e \in Events : row[e].stage = "unborn" =>
    /\ row[e].attempts = 0
    /\ ~row[e].processed
    /\ row[e].lockedBy = NoWorker

IInv ==
  /\ TypeOK
  /\ LockNamesTheLatestClaim
  /\ EachClaimRunsOnce
  /\ AttemptsCountClaims
  /\ ProcessedWasDelivered
  /\ TasksAreCounted
  /\ UnbornIsUntouched

Dead(r) ==
  /\ r.stage = "stored"
  /\ ~r.processed
  /\ r.attempts = MaxAttempts
  /\ r.lockedBy = NoWorker

(***************************************************************************)
(* Processed and dead-lettered are final: no statement of a worker that    *)
(* lost its lease, and no renewal, changes such a row (MarkProcessed,      *)
(* MarkDeadLetter and their WHERE clauses).                                *)
(***************************************************************************)
FinalRowsStay ==
  [][\A e \in Events :
       /\ row[e].processed =>
            row'[e].processed /\ row'[e].attempts = row[e].attempts
            /\ row'[e].lockedBy = NoWorker
       /\ Dead(row[e]) => Dead(row'[e])]_vars

(***************************************************************************)
(* A live lease is not taken away: a row goes from one owner to the next   *)
(* only once its lease has run out, by the next one's clock, and only its  *)
(* owner unlocks it (ClaimPending and the WHERE locked_by of the           *)
(* statements).                                                            *)
(***************************************************************************)
LiveLeaseIsKept ==
  [][\A e \in Events, w \in Workers :
       row[e].lockedBy = w /\ row'[e].lockedBy # w =>
         \/ row[e].lease < Skew
         \/ task[w][e].phase \in Settling /\ task'[w][e] = Idle]_vars

(***************************************************************************)
(* The table and the workers implement EventDelivery: a row is dead when   *)
(* it is stored, out of attempts and unlocked; a lock of the last claim    *)
(* keeps it pending.                                                       *)
(***************************************************************************)
StageOf(r) ==
  CASE r.stage = "unborn"  -> "unborn"
    [] r.stage = "deleted" -> "purged"
    [] Dead(r)             -> "dead"
    [] OTHER               -> IF r.processed THEN "done" ELSE "pending"

Delivery == INSTANCE EventDelivery WITH
  stage <- [e \in Events |-> StageOf(row[e])],
  tries <- starts,
  delivered <- delivered

ImplementsEventDelivery == Delivery!Spec

(***************************************************************************)
(* With prompt workers two handlers run for one event at a time only if    *)
(* one of them was dispatched so late that its lease could run out before  *)
(* its deadline: never when a slot is free on claiming (worker.go          *)
(* executeEvent, calculateHandlerTimeout, startHeartbeat).                 *)
(***************************************************************************)
Handling(w, e) == task[w][e].phase = "handling"

HandlersOverlapOnlyIfLate ==
  \A e \in Events, v, w \in Workers :
    v # w /\ Handling(v, e) /\ Handling(w, e) => task[v][e].late \/ task[w][e].late

(***************************************************************************)
(* As long as some worker keeps running, every stored event comes to its   *)
(* end: processed, or its attempts used up and nobody at work on it,       *)
(* through lost answers, failed statements, expired leases and crashes.    *)
(***************************************************************************)
Ended(e) ==
  \/ row[e].processed
  \/ /\ row[e].attempts = MaxAttempts
     /\ \A w \in Workers : ~Busy(w, e)

EventsEnd ==
  <>[](\E w \in Workers : status[w] = "running")
    => \A e \in Events : row[e].stage = "stored" ~> Ended(e)

(***************************************************************************)
(* worker.go:330, of startHeartbeat: the lease is extended "while          *)
(* processing tasks".  A lease only grows under a task of its owner, or by *)
(* a claim.                                                                *)
(***************************************************************************)
RenewedOnlyWhileProcessing ==
  [][\A e \in Events, w \in Workers :
       row[e].lockedBy = w /\ row'[e].lockedBy = w
         /\ row'[e].lease > row[e].lease /\ row'[e].attempts = row[e].attempts
       => Busy(w, e)]_vars

(***************************************************************************)
(* worker.go:114, of Stop: it "waits for active routines to finish".       *)
(***************************************************************************)
StopWaitsForTasks ==
  [][\A w \in Workers :
       status[w] # "exited" /\ status'[w] = "exited" => BatchDone(w)]_vars

(***************************************************************************)
(* event.go:126, of the backoff: "2s, 4s, 8s": the first failure of an     *)
(* event whose claims were all answered by a failure is retried in 2s.     *)
(***************************************************************************)
FirstRetryInTwoSeconds ==
  [][\A e \in Events :
       row[e].attempts = 1 /\ row'[e].wait > row[e].wait => row'[e].wait = 2]_vars
=============================================================================
