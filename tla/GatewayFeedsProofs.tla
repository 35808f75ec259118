-------------------------- MODULE GatewayFeedsProofs --------------------------
(***************************************************************************)
(* Theorem of Gateway about what peers read: hubs, subscriptions, queues   *)
(* and batches implement PeerFeeds.                                        *)
(***************************************************************************)
EXTENDS GatewayProofs, SequenceTheorems

(***************************************************************************)
(* Send holds no more than its capacity, and of a connection that is over  *)
(* nothing is kept.                                                        *)
(***************************************************************************)
Buffers ==
  /\ \A c \in Conns : Len(send[c]) <= SendLength
  /\ \A c \in Conns : phase[c] = "gone" => got[c] = <<>>

LEMMA SendFits ==
  ASSUME TypeOK, Wiring, Buffers, [Next]_vars, NEW c \in Conns
  PROVE  Len(send'[c]) <= SendLength
<1>1. Len(send[c]) <= SendLength /\ send[c] \in Seq(Messages) /\ Len(send[c]) \in Nat
  BY DEF Buffers, TypeOK
<1>2. CASE Still(c)
  BY <1>1, <1>2 DEF Still
<1>3. CASE Dropped(c) \/ Flushed(c)
  <2>1. send'[c] = <<>>
    BY <1>3 DEF Dropped, Flushed
  <2>2. Len(<<>>) = 0 /\ 0 <= SendLength
    BY BoundsAssumption
  <2> QED
    BY <2>1, <2>2
<1>4. ASSUME NEW h \in Hubs, NEW e \in Users \X Sessions, Queues(c, h, e)
      PROVE  Len(send'[c]) <= SendLength
  <2> DEFINE m == Head(inbox[h]).message
  <2>1. m \in Messages /\ send'[c] = Append(send[c], m) /\ Len(send[c]) < SendLength
    BY <1>4, WroteLeft DEF Queues
  <2> HIDE DEF m
  <2>2. Len(send'[c]) = Len(send[c]) + 1
    BY <1>1, <2>1
  <2> QED
    BY <1>1, <2>1, <2>2, BoundsAssumption
<1> QED
  BY <1>2, <1>3, <1>4, Writes DEF Moved

\* The steps that a peer, or one who publishes, can tell
LEMMA Noticed ==
  ASSUME TypeOK, Wiring, [Next]_vars
  PROVE  \/ UNCHANGED <<phase, got, log, again>>
         \/ \E h \in Hubs : Die(h)
         \/ \E c \in Conns, u \in Users, s \in Sessions : PrintTicket(c, u, s)
         \/ \E c \in Conns : (\E h \in Hubs : Accept(c, h)) \/ Open(c) \/ ReaderEnds(c)
         \/ \E c \in Conns : Leave(c) \/ Flush(c)
         \/ \E p \in Publishers : PublishBatch(p)
<1>1. ASSUME NEW h \in Hubs,
             \/ Start(h) \/ Subscribe(h) \/ RunStep(h) \/ BeginStop(h) \/ EndStop(h)
             \/ WriteEvent(h)
      PROVE  UNCHANGED <<phase, got, log, again>>
  BY <1>1 DEF Start, Subscribe, RunStep, TakeRegister, FinishRegister, TakeUnregister,
              FinishUnregister, BeginStop, EndStop, WriteEvent, connVars, messageVars
<1>2. ASSUME NEW c \in Conns, Close(c) \/ WriterFails(c)
      PROVE  UNCHANGED <<phase, got, log, again>>
  BY <1>2 DEF Close, WriterFails, connVars, messageVars
<1>3. ASSUME NEW u \in Users, Expire(u)
      PROVE  UNCHANGED <<phase, got, log, again>>
  BY <1>3 DEF Expire, connVars, messageVars
<1>4. ASSUME NEW x \in late, LateRuns(x)
      PROVE  UNCHANGED <<phase, got, log, again>>
  BY <1>4 DEF LateRuns, connVars, messageVars
<1>5. ASSUME NEW p \in Publishers, NEW to, NEW form, NEW listed,
             ReadTargets(p, to, form, listed)
      PROVE  UNCHANGED <<phase, got, log, again>>
  BY <1>5 DEF ReadTargets, connVars
<1>6. CASE UNCHANGED vars
  BY <1>6 DEF vars, connVars, messageVars
<1> QED
  BY <1>1, <1>2, <1>3, <1>4, <1>5, <1>6 DEF Next

LEMMA Forgotten ==
  ASSUME TypeOK, Wiring, Buffers, [Next]_vars, NEW c \in Conns, phase'[c] = "gone"
  PROVE  got'[c] = <<>>
<1>1. phase[c] = "gone" => got[c] = <<>>
  BY DEF Buffers
<1>2. CASE UNCHANGED <<phase, got>>
  BY <1>1, <1>2
<1>3. ASSUME NEW h \in Hubs, Die(h)
      PROVE  got'[c] = <<>>
  BY <1>1, <1>3 DEF Die
<1>4. ASSUME NEW d \in Conns,
             \/ \E u \in Users, s \in Sessions : PrintTicket(d, u, s)
             \/ \E h \in Hubs : Accept(d, h)
             \/ Open(d) \/ ReaderEnds(d)
      PROVE  got'[c] = <<>>
  <2>1. got' = got /\ \E f \in {"ticket", "accepted", "open", "leaving"} :
                        phase' = [phase EXCEPT ![d] = f]
    BY <1>4 DEF PrintTicket, Accept, Open, ReaderEnds, messageVars
  <2> QED
    BY <1>1, <2>1 DEF TypeOK
<1>5. ASSUME NEW d \in Conns, Leave(d)
      PROVE  got'[c] = <<>>
  BY <1>1, <1>5 DEF Leave, TypeOK
<1>6. ASSUME NEW d \in Conns, Flush(d)
      PROVE  got'[c] = <<>>
  <2>1. c # d /\ phase[c] = "gone"
    BY <1>6 DEF Flush, connVars
  <2> QED
    BY <1>1, <1>6, <2>1 DEF Flush, TypeOK
<1>7. ASSUME NEW p \in Publishers, PublishBatch(p)
      PROVE  UNCHANGED <<phase, got>>
  BY <1>7 DEF PublishBatch, connVars
<1> QED
  BY <1>2, <1>3, <1>4, <1>5, <1>6, <1>7, Noticed

LEMMA BuffersStep ==
  ASSUME TypeOK, Wiring, Buffers, [Next]_vars
  PROVE  Buffers'
BY SendFits, Forgotten DEF Buffers
-----------------------------------------------------------------------------
(***************************************************************************)
(* The numbers of the messages of a queue                                  *)
(***************************************************************************)
Numbers(q) == [i \in 1..Len(q) |-> q[i].n]

LEMMA NumbersOf ==
  ASSUME NEW q \in Seq(Messages)
  PROVE  /\ Numbers(q) \in Seq(Nat) /\ Len(Numbers(q)) = Len(q) /\ Len(q) \in Nat
         /\ \A i \in 1..Len(q) : Numbers(q)[i] = q[i].n /\ q[i] \in Elements(q)
<1>1. Len(q) \in Nat /\ \A i \in 1..Len(q) : q[i] \in Messages /\ q[i] \in Elements(q)
  BY DEF Elements
<1>2. \A m \in Messages : m.n \in Nat
  BY BoundsAssumption DEF Messages
<1>3. Numbers(q) \in [1..Len(q) -> Nat]
  BY <1>1, <1>2 DEF Numbers
<1>4. Numbers(q) \in Seq(Nat) /\ Len(Numbers(q)) = Len(q)
  BY <1>1, <1>3
<1> QED
  BY <1>1, <1>4 DEF Numbers

LEMMA NumbersJoined ==
  ASSUME NEW q \in Seq(Messages), NEW r \in Seq(Messages)
  PROVE  Numbers(q \o r) = Numbers(q) \o Numbers(r)
<1> DEFINE a == Numbers(q \o r)
           b == Numbers(q) \o Numbers(r)
<1>1. /\ q \o r \in Seq(Messages) /\ Len(q \o r) = Len(q) + Len(r)
      /\ \A i \in 1..Len(q) + Len(r) : (q \o r)[i] = IF i <= Len(q) THEN q[i] ELSE r[i - Len(q)]
  BY ConcatProperties
<1>2. /\ Numbers(q) \in Seq(Nat) /\ Len(Numbers(q)) = Len(q) /\ Len(q) \in Nat
      /\ Numbers(r) \in Seq(Nat) /\ Len(Numbers(r)) = Len(r) /\ Len(r) \in Nat
  BY NumbersOf
<1>3. /\ b \in Seq(Nat) /\ Len(b) = Len(q) + Len(r)
      /\ \A i \in 1..Len(q) + Len(r) :
           b[i] = IF i <= Len(q) THEN Numbers(q)[i] ELSE Numbers(r)[i - Len(q)]
  <2>1. /\ b \in Seq(Nat) /\ Len(b) = Len(Numbers(q)) + Len(Numbers(r))
        /\ \A i \in 1..Len(Numbers(q)) + Len(Numbers(r)) :
             b[i] = IF i <= Len(Numbers(q)) THEN Numbers(q)[i]
                    ELSE Numbers(r)[i - Len(Numbers(q))]
    BY <1>2, ConcatProperties
  <2> HIDE DEF b
  <2> QED
    BY <1>2, <2>1
<1>4. /\ a \in Seq(Nat) /\ Len(a) = Len(q) + Len(r)
      /\ \A i \in 1..Len(q) + Len(r) : a[i] = (q \o r)[i].n
  BY <1>1, NumbersOf
<1>5. ASSUME NEW i \in 1..Len(q) + Len(r)
      PROVE  a[i] = b[i]
  <2>1. CASE i <= Len(q)
    <3>1. i \in 1..Len(q)
      BY <1>2, <2>1
    <3> QED
      BY <1>1, <1>3, <1>4, <2>1, <3>1, NumbersOf
  <2>2. CASE ~(i <= Len(q))
    <3>1. i - Len(q) \in 1..Len(r)
      BY <1>2, <2>2
    <3> QED
      BY <1>1, <1>3, <1>4, <2>2, <3>1, NumbersOf
  <2> QED
    BY <2>1, <2>2
<1> HIDE DEF a, b
<1>6. a = b
  BY <1>3, <1>4, <1>5, SeqEqual
<1> QED
  BY <1>6 DEF a, b
-----------------------------------------------------------------------------
(***************************************************************************)
(* The variables of PeerFeeds, by name.                                    *)
(***************************************************************************)
Readers == [c \in Conns |-> ReaderOf(c)]
Over == {c \in Conns : phase[c] = "gone"}
Feed == [c \in Conns |-> Numbers(got[c])]

LEMMA FeedVars ==
  Feeds!vars = <<log, again, Readers, Over, Feed>>
BY DEF Feeds!vars, Readers, Over, Feed, Numbers

\* Who a peer is changes with its ticket only.
LEMMA ReadersStay ==
  ASSUME TypeOK, Wiring, [Next]_vars,
         \A c \in Conns : phase[c] = "none" => phase'[c] = "none"
  PROVE  Readers' = Readers
<1>1. \A c \in Conns : ReaderOf(c)' = ReaderOf(c)
  BY ConnsKept DEF ReaderOf
<1> QED
  BY <1>1 DEF Readers

\* A step that moves nobody to or from "none" or "gone", and writes nothing
LEMMA Unmoved ==
  ASSUME TypeOK, Wiring, [Next]_vars, UNCHANGED <<log, again, got>>,
         \A c \in Conns : /\ phase[c] = "none" <=> phase'[c] = "none"
                          /\ phase[c] = "gone" <=> phase'[c] = "gone"
  PROVE  UNCHANGED Feeds!vars
<1>1. Readers' = Readers
  BY ReadersStay
<1>2. Over' = Over /\ Feed' = Feed
  BY DEF Over, Feed
<1> QED
  BY <1>1, <1>2, FeedVars DEF Feeds!vars, Readers, Over, Feed, Numbers

LEMMA GoStep ==
  ASSUME TypeOK, Wiring, Buffers, [Next]_vars, NEW gone \in SUBSET Conns,
         UNCHANGED <<log, again>>,
         \A c \in Conns : phase'[c] = IF c \in gone THEN "gone" ELSE phase[c],
         \A c \in Conns : got'[c] = IF c \in gone THEN <<>> ELSE got[c],
         \A c \in gone : phase[c] # "none"
  PROVE  Feeds!Go
<1>1. Readers' = Readers
  BY ReadersStay
<1> DEFINE left == gone \ Over
<1>2. Over' = Over \cup left /\ left \in SUBSET (Conns \ Over)
  BY DEF Over
<1>3. Feed' = [c \in Conns |-> IF c \in left THEN <<>> ELSE Feed[c]]
  <2>1. Numbers(<<>>) = <<>>
    BY DEF Numbers
  <2>2. \A c \in Conns : got'[c] = IF c \in left THEN <<>> ELSE got[c]
    BY DEF Buffers, Over
  <2>3. \A c \in Conns : Numbers(got'[c]) = IF c \in left THEN <<>> ELSE Numbers(got[c])
    BY <2>1, <2>2
  <2> QED
    BY <2>3 DEF Feed, Numbers
<1> HIDE DEF left
<1> QED
  BY <1>1, <1>2, <1>3 DEF Feeds!Go, Readers, Over, Feed, Numbers

LEMMA ComeStep ==
  ASSUME TypeOK, Wiring, [Next]_vars, NEW c \in Conns, NEW u \in Users, NEW s \in Sessions,
         PrintTicket(c, u, s)
  PROVE  Feeds!Come(c)
<1>1. /\ phase[c] = "none" /\ phase' = [phase EXCEPT ![c] = "ticket"]
      /\ userOf' = [userOf EXCEPT ![c] = u] /\ sessionOf' = [sessionOf EXCEPT ![c] = s]
      /\ UNCHANGED <<log, again, got>>
  BY DEF PrintTicket, messageVars
<1>2. Readers[c] = NoUser
  BY <1>1 DEF Readers, ReaderOf
<1>3. PICK r \in Users \cup {NilSession} : ReaderOf(c)' = r
  BY <1>1 DEF ReaderOf, TypeOK
<1>4. \A d \in Conns \ {c} : ReaderOf(d)' = ReaderOf(d)
  BY <1>1 DEF ReaderOf, TypeOK
<1>5. Readers' = [Readers EXCEPT ![c] = r]
  BY <1>3, <1>4 DEF Readers
<1>6. Over' = Over /\ Feed' = Feed
  BY <1>1 DEF Over, Feed, TypeOK
<1> QED
  BY <1>1, <1>2, <1>5, <1>6 DEF Feeds!Come, Readers, Over, Feed, Numbers

LEMMA PublishStep ==
  ASSUME TypeOK, Wiring, Recorded, [Next]_vars, NEW p \in Publishers, PublishBatch(p)
  PROVE  Feeds!Publish \/ Feeds!PublishAgain
<1>1. pending[p] # NoEvent /\ pending[p] \in Broadcasts /\ UNCHANGED <<phase, got>>
  BY LogGrows DEF PublishBatch, connVars
<1>2. Readers' = Readers
  BY <1>1, ReadersStay
<1>3. Over' = Over /\ Feed' = Feed
  BY <1>1 DEF Over, Feed
<1>4. CASE pending[p].n = 0
  <2>1. log' = Append(log, pending[p].to) /\ again' = again /\ pending[p].to \in SUBSET Users
    BY <1>1, <1>4, LogGrows DEF Broadcasts
  <2>2. Feeds!Publish
    BY <1>2, <1>3, <2>1 DEF Feeds!Publish, Readers, Over, Feed, Numbers
  <2> QED
    BY <2>2
<1>5. CASE pending[p].n # 0
  <2>1. log' = log /\ again' = again \cup {pending[p].n}
    BY <1>5, LogGrows
  <2>2. pending[p].n \in 1..Len(log)
    BY <1>1, <1>5 DEF Recorded, Truthful, Matches
  <2>3. Feeds!PublishAgain
    BY <1>2, <1>3, <2>1, <2>2 DEF Feeds!PublishAgain, Readers, Over, Feed, Numbers
  <2> QED
    BY <2>3
<1> QED
  BY <1>4, <1>5

\* A batch is read whole, each message of it for this peer.
LEMMA ReadStep ==
  ASSUME IInv, Buffers, [Next]_vars, NEW c \in Conns, Flush(c)
  PROVE  Feeds!Read(c)
<1>1. /\ phase[c] \in {"open", "leaving"} /\ send[c] # <<>>
      /\ got' = [got EXCEPT ![c] = @ \o send[c]]
      /\ UNCHANGED <<phase, log, again>>
  BY DEF Flush, connVars
<1>2. /\ TypeOK /\ Wiring /\ Recorded /\ InOrder /\ Written
      /\ got[c] \in Seq(Messages) /\ send[c] \in Seq(Messages) /\ log \in Seq(SUBSET Users)
      /\ got \in [Conns -> Seq(Messages)]
  BY DEF IInv, TypeOK
<1> DEFINE k == Len(send[c])
           more == Numbers(send[c])
<1>3. \A m \in Elements(got[c]) \cup Elements(send[c]) : m.n \in 1..Len(log) /\ log[m.n] = m.to
  BY <1>2 DEF Recorded, Truthful, Matches
<1>4. \A m \in Elements(send[c]) : Mine(c, m)
  BY <1>2 DEF Written
<1>5. k \in 1..SendLength
  <2>1. k \in Nat /\ k # 0 /\ k <= SendLength
    BY <1>1, <1>2 DEF Buffers
  <2> QED
    BY <2>1, BoundsAssumption
<1>6. Readers[c] = IF sessionOf[c] = NilSession THEN NilSession ELSE userOf[c]
  BY <1>1 DEF Readers, ReaderOf
<1>7. ASSUME NEW i \in 1..k
      PROVE  /\ more[i] \in 1..Len(log)
             /\ Readers[c] = NilSession \/ Readers[c] \in log[more[i]]
  <2>1. more[i] = send[c][i].n /\ send[c][i] \in Elements(send[c])
    BY <1>2, NumbersOf
  <2>2. /\ send[c][i].n \in 1..Len(log) /\ log[send[c][i].n] = send[c][i].to
        /\ Mine(c, send[c][i])
    BY <1>3, <1>4, <2>1
  <2> HIDE DEF more
  <2> QED
    BY <1>6, <2>1, <2>2 DEF Mine
<1>8. more \in [1..k -> {n \in 1..Len(log) : Readers[c] = NilSession \/ Readers[c] \in log[n]}]
  BY <1>7 DEF Numbers
<1>9. Numbers(got[c] \o send[c]) = Feed[c] \o more
  BY <1>2, NumbersJoined DEF Feed
<1>10. Feed' = [Feed EXCEPT ![c] = @ \o more]
  <2>1. \A d \in Conns : Numbers(got'[d]) = IF d = c THEN Feed[c] \o more ELSE Feed[d]
    BY <1>1, <1>2, <1>9 DEF Feed
  <2> HIDE DEF more
  <2>2. Feed' = [d \in Conns |-> Numbers(got'[d])]
    BY DEF Feed, Numbers
  <2> QED
    BY <2>1, <2>2 DEF Feed
<1>11. Feeds!Ordered(c, Feed[c] \o more)
  <2> DEFINE all == got[c] \o send[c]
  <2>1. all \in Seq(Messages) /\ Elements(all) \subseteq Elements(got[c]) \cup Elements(send[c])
    BY <1>2, Joined
  <2>2. InRow(again, sessionOf[c], all)
    BY <1>2 DEF InOrder, ConnInOrder
  <2> HIDE DEF all
  <2>3. /\ Len(Numbers(all)) = Len(all)
        /\ \A i \in 1..Len(all) : /\ Numbers(all)[i] = all[i].n
                                  /\ log[all[i].n] = all[i].to
    BY <1>3, <2>1, NumbersOf
  <2>4. ASSUME NEW i \in 1..Len(all), NEW j \in 1..Len(all), i < j
        PROVE  \/ Numbers(all)[i] < Numbers(all)[j]
               \/ Numbers(all)[j] \in again
               \/ /\ Numbers(all)[i] = Numbers(all)[j] /\ Readers[c] = NilSession
                  /\ Feeds!Several(log[Numbers(all)[j]])
    <3>1. May(again, sessionOf[c], all[i], all[j])
      BY <2>2, <2>4 DEF InRow
    <3> QED
      BY <1>6, <2>3, <3>1 DEF May, Behind, Several, Feeds!Several
  <2>5. Feeds!Ordered(c, Numbers(all))
    BY <2>3, <2>4 DEF Feeds!Ordered, Readers
  <2> QED
    BY <1>9, <2>5 DEF all
<1>12. Readers' = Readers /\ Over' = Over
  BY <1>1, <1>2, ReadersStay DEF Over
<1>13. c \notin Over /\ Readers[c] # NoUser
  BY <1>1, <1>2, <1>6, NamesAssumption DEF Over, Wiring, Entered
<1> HIDE DEF more, k
<1> QED
  BY <1>1, <1>5, <1>8, <1>10, <1>11, <1>12, <1>13
  DEF Feeds!Read, Feeds!IsFor, Readers, Over, Feed, Numbers
-----------------------------------------------------------------------------
(***************************************************************************)
(* Every step is a step of PeerFeeds, or none.                             *)
(***************************************************************************)
LEMMA FeedsStep ==
  ASSUME IInv, Buffers, [Next]_vars
  PROVE  Feeds!Next \/ UNCHANGED Feeds!vars
<1>1. TypeOK /\ Wiring /\ Recorded
  BY DEF IInv
<1>2. ASSUME UNCHANGED <<phase, got, log, again>>
      PROVE  UNCHANGED Feeds!vars
  BY <1>1, <1>2, Unmoved
<1>3. ASSUME NEW h \in Hubs, Die(h)
      PROVE  Feeds!Next
  <2> DEFINE gone == {c \in Conns : hubOf[c] = h}
  <2>1. /\ UNCHANGED <<log, again>>
        /\ \A c \in Conns : phase'[c] = IF c \in gone THEN "gone" ELSE phase[c]
        /\ \A c \in Conns : got'[c] = IF c \in gone THEN <<>> ELSE got[c]
    BY <1>3 DEF Die
  <2>2. \A c \in gone : phase[c] # "none"
    BY <1>1, NamesAssumption DEF Wiring, Entered
  <2> HIDE DEF gone
  <2>3. gone \in SUBSET Conns
    BY DEF gone
  <2>4. Feeds!Go
    BY <1>1, <2>1, <2>2, <2>3, GoStep
  <2> QED
    BY <2>4 DEF Feeds!Next
<1>4. ASSUME NEW c \in Conns, NEW u \in Users, NEW s \in Sessions, PrintTicket(c, u, s)
      PROVE  Feeds!Next
  <2>1. Feeds!Come(c)
    BY <1>1, <1>4, ComeStep
  <2> QED
    BY <2>1 DEF Feeds!Next
<1>5. ASSUME NEW c \in Conns, (\E h \in Hubs : Accept(c, h)) \/ Open(c) \/ ReaderEnds(c)
      PROVE  UNCHANGED Feeds!vars
  <2>1. /\ UNCHANGED <<log, again, got>> /\ phase[c] \in {"ticket", "accepted", "open"}
        /\ \E f \in {"accepted", "open", "leaving"} : phase' = [phase EXCEPT ![c] = f]
    BY <1>5 DEF Accept, Open, ReaderEnds, messageVars
  <2>2. \A d \in Conns : /\ phase[d] = "none" <=> phase'[d] = "none"
                         /\ phase[d] = "gone" <=> phase'[d] = "gone"
    BY <1>1, <2>1 DEF TypeOK
  <2> QED
    BY <1>1, <2>1, <2>2, Unmoved
<1>6. ASSUME NEW c \in Conns, Leave(c)
      PROVE  Feeds!Next
  <2>1. /\ UNCHANGED <<log, again>> /\ phase[c] # "none"
        /\ \A d \in Conns : phase'[d] = IF d \in {c} THEN "gone" ELSE phase[d]
        /\ \A d \in Conns : got'[d] = IF d \in {c} THEN <<>> ELSE got[d]
    BY <1>1, <1>6 DEF Leave, TypeOK
  <2>2. \A d \in {c} : phase[d] # "none"
    BY <2>1
  <2>3. Feeds!Go
    BY <1>1, <2>1, <2>2, GoStep
  <2> QED
    BY <2>3 DEF Feeds!Next
<1>7. ASSUME NEW c \in Conns, Flush(c)
      PROVE  Feeds!Next
  <2>1. Feeds!Read(c)
    BY <1>7, ReadStep
  <2> QED
    BY <2>1 DEF Feeds!Next
<1>8. ASSUME NEW p \in Publishers, PublishBatch(p)
      PROVE  Feeds!Next
  <2>1. Feeds!Publish \/ Feeds!PublishAgain
    BY <1>1, <1>8, PublishStep
  <2> QED
    BY <2>1 DEF Feeds!Next
<1> QED
  BY <1>1, <1>2, <1>3, <1>4, <1>5, <1>6, <1>7, <1>8, Noticed

LEMMA FeedsInit ==
  ASSUME Init
  PROVE  Buffers /\ Feeds!Init
<1>1. Buffers
  BY InitParts, BoundsAssumption DEF Buffers
<1>2. log = <<>> /\ again = {} /\ Over = {}
  BY InitParts DEF Init, Over
<1>3. Readers = [c \in Conns |-> NoUser]
  BY InitParts DEF Readers, ReaderOf
<1>4. Feed = [c \in Conns |-> <<>>]
  BY InitParts DEF Feed, Numbers
<1> QED
  BY <1>1, <1>2, <1>3, <1>4 DEF Feeds!Init, Readers, Over, Feed, Numbers

(***************************************************************************)
(* To its peer every connection is a feed: messages that were published,   *)
(* for its user unless it is under the nil session, in their order and     *)
(* each once, but for those that were published again and, under the nil   *)
(* session, those for several users (PublishBatch, publish, writeEvent,    *)
(* flushMessageBatch).                                                     *)
(***************************************************************************)
THEOREM ImplementsFeeds == Spec => ImplementsPeerFeeds
<1>1. Init => Buffers /\ Feeds!Init
  BY FeedsInit
<1>2. IInv /\ Buffers /\ [Next]_vars => Buffers'
  BY BuffersStep DEF IInv
<1>3. IInv /\ Buffers /\ [Next]_vars => [Feeds!Next]_(Feeds!vars)
  BY FeedsStep
<1> QED
  BY <1>1, <1>2, <1>3, Invariance, PTL DEF Spec, ImplementsPeerFeeds, Feeds!Spec
=============================================================================
