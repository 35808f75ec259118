----------------------------- MODULE TokenChain -----------------------------
(***************************************************************************)
(* What refresh tokens promise of a session, whatever requests race and    *)
(* whatever Redis forgets: while it is open one token is current; it is    *)
(* exchanged for one that never was current before; a closed session       *)
(* exchanges nothing and is never opened again.                            *)
(***************************************************************************)
EXTENDS Integers

CONSTANTS Sessions, Tokens

VARIABLES
  life,     \* whether the session is yet to be opened, open or closed
  current,  \* the token it accepts
  spent     \* the tokens exchanged

vars == <<life, current, spent>>

Init ==
  /\ life = [s \in Sessions |-> "unborn"]
  /\ current = [s \in Sessions |-> 0]
  /\ spent = [s \in Sessions |-> {}]

\* Every open session of S is closed.
Closed(S) ==
  [s \in Sessions |-> IF s \in S /\ life[s] = "open" THEN "closed" ELSE life[s]]

\* A session is opened; the same step may close others.
Open(s) ==
  /\ life[s] = "unborn"
  /\ \E S \in SUBSET Sessions : life' = [Closed(S) EXCEPT ![s] = "open"]
  /\ \E t \in Tokens : current' = [current EXCEPT ![s] = t]
  /\ UNCHANGED spent

Exchange(s) ==
  /\ life[s] = "open"
  /\ \E t \in Tokens \ (spent[s] \cup {current[s]}) :
       current' = [current EXCEPT ![s] = t]
  /\ spent' = [spent EXCEPT ![s] = @ \cup {current[s]}]
  /\ UNCHANGED life

Close ==
  /\ \E S \in SUBSET Sessions : life' = Closed(S)
  /\ UNCHANGED <<current, spent>>

Next == Close \/ \E s \in Sessions : Open(s) \/ Exchange(s)

Spec == Init /\ [][Next]_vars
=============================================================================
