---------------------------- MODULE EventDelivery ----------------------------
(***************************************************************************)
(* What the outbox promises of an event, whatever workers and leases do:   *)
(* its handler is tried, each try of its own number, at most MaxAttempts   *)
(* times; it ends at most once, as done, and then a try has delivered it,  *)
(* or as dead; an end is for good; only a done event is purged.  A try may *)
(* run after the end: the promise is of bounded, not of unique, delivery.  *)
(***************************************************************************)
EXTENDS Integers

CONSTANTS Events, MaxAttempts

VARIABLES
  stage,     \* where the event is
  tries,     \* the numbers of the tries made
  delivered  \* a try has succeeded

vars == <<stage, tries, delivered>>

Init ==
  /\ stage = [e \in Events |-> "unborn"]
  /\ tries = [e \in Events |-> {}]
  /\ delivered = [e \in Events |-> FALSE]

Move(e, from, to) ==
  /\ stage[e] = from
  /\ stage' = [stage EXCEPT ![e] = to]
  /\ UNCHANGED <<tries, delivered>>

Post(e) == Move(e, "unborn", "pending")

Try(e) ==
  /\ stage[e] # "unborn"
  /\ \E n \in (1..MaxAttempts) \ tries[e] :
       tries' = [tries EXCEPT ![e] = @ \cup {n}]
  /\ UNCHANGED <<stage, delivered>>

Deliver(e) ==
  /\ tries[e] # {}
  /\ delivered' = [delivered EXCEPT ![e] = TRUE]
  /\ UNCHANGED <<stage, tries>>

Finish(e) == delivered[e] /\ Move(e, "pending", "done")

GiveUp(e) == Move(e, "pending", "dead")

Purge(e) == Move(e, "done", "purged")

Next ==
  \E e \in Events : \/ Post(e) \/ Try(e) \/ Deliver(e)
                    \/ Finish(e) \/ GiveUp(e) \/ Purge(e)

Spec == Init /\ [][Next]_vars
=============================================================================
