----------------------------- MODULE PeerFeeds -----------------------------
(***************************************************************************)
(* What the gateway promises of broadcasts, whatever hubs, routes and      *)
(* buffers do: each peer reads some of the messages that are for it, those *)
(* published before, in the order of their publication, and none after its *)
(* end.  It may miss any of them.  None comes twice, except one that was   *)
(* published again, and one for several users to a peer that may be sent   *)
(* the message of each.                                                    *)
(***************************************************************************)
EXTENDS Integers, Sequences

CONSTANTS
  Peers, Users,
  Batch,   \* the most a peer reads at once
  Nobody,  \* the reader of a peer that is yet to come
  Anyone   \* the reader of one that may be sent any message

VARIABLES
  log,     \* for whom each message published is, in order
  again,   \* the messages that were published more than once
  reader,  \* who each peer is
  over,    \* the peers that have gone
  feed     \* the messages each peer has read, as their places in log

vars == <<log, again, reader, over, feed>>

Init ==
  /\ log = <<>> /\ again = {}
  /\ reader = [p \in Peers |-> Nobody]
  /\ over = {}
  /\ feed = [p \in Peers |-> <<>>]

Publish ==
  /\ \E to \in SUBSET Users : log' = Append(log, to)
  /\ UNCHANGED <<again, reader, over, feed>>

PublishAgain ==
  /\ \E n \in 1..Len(log) : again' = again \cup {n}
  /\ UNCHANGED <<log, reader, over, feed>>

Come(p) ==
  /\ reader[p] = Nobody
  /\ \E u \in Users \cup {Anyone} : reader' = [reader EXCEPT ![p] = u]
  /\ UNCHANGED <<log, again, over, feed>>

IsFor(p, n) == reader[p] = Anyone \/ reader[p] \in log[n]

Several(to) == \E u, v \in to : u # v

Ordered(p, q) ==
  \A i, j \in 1..Len(q) : i < j =>
    \/ q[i] < q[j]
    \/ q[j] \in again
    \/ q[i] = q[j] /\ reader[p] = Anyone /\ Several(log[q[j]])

Read(p) ==
  /\ p \notin over /\ reader[p] # Nobody
  /\ \E k \in 1..Batch : \E more \in [1..k -> {n \in 1..Len(log) : IsFor(p, n)}] :
       /\ Ordered(p, feed[p] \o more)
       /\ feed' = [feed EXCEPT ![p] = @ \o more]
  /\ UNCHANGED <<log, again, reader, over>>

\* Some peers have gone, and what they read with them.
Go ==
  /\ \E gone \in SUBSET (Peers \ over) :
       /\ over' = over \cup gone
       /\ feed' = [p \in Peers |-> IF p \in gone THEN <<>> ELSE feed[p]]
  /\ UNCHANGED <<log, again, reader>>

Next == Publish \/ PublishAgain \/ Go \/ \E p \in Peers : Come(p) \/ Read(p)

Spec == Init /\ [][Next]_vars
=============================================================================
