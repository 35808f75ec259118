--------------------------- MODULE GatewayProofs ---------------------------
(***************************************************************************)
(* Theorems of Gateway, for every value of its constants.                  *)
(***************************************************************************)
EXTENDS Gateway, FiniteSetTheorems, TLAPS

-----------------------------------------------------------------------------
(***************************************************************************)
(* How connections, queues, maps and the loop of a hub name one another.   *)
(***************************************************************************)
Registered == {"open", "leaving", "gone"}

Entered ==
  \A c \in Conns :
    /\ phase[c] = "none" => userOf[c] = NoUser
    /\ phase[c] # "none" => userOf[c] \in Users
    /\ phase[c] \in {"none", "ticket"} => hubOf[c] = NoHub
    /\ phase[c] \notin {"none", "ticket"} => hubOf[c] \in Hubs /\ hub[hubOf[c]] # "new"

Queued ==
  \A h \in Hubs, c \in Conns :
    /\ c \in Elements(registerQ[h]) => hubOf[c] = h /\ phase[c] \in Registered
    /\ c \in Elements(unregisterQ[h]) => hubOf[c] = h /\ phase[c] = "gone"

Placed ==
  \A h \in Hubs, s \in Sessions : \A c \in Conns :
    clients[h][s] = c => hubOf[c] = h /\ sessionOf[c] = s /\ phase[c] \in Registered

\* While Run waits for Redis, the map is as it left it.
Worked ==
  \A h \in Hubs :
    /\ busy[h] # Idle => hub[h] = "up" /\ busy[h].op # "idle" /\ busy[h].conn \in Conns
    /\ busy[h].op = "register" => clients[h][sessionOf[busy[h].conn]] = busy[h].conn
    /\ busy[h].op = "unregister" =>
         /\ hubOf[busy[h].conn] = h /\ phase[busy[h].conn] = "gone"
         /\ clients[h][sessionOf[busy[h].conn]] = NoConn

Distinct(q) == \A i, j \in 1..Len(q) : q[i] = q[j] => i = j

\* A connection is registered once.
Once ==
  \A h \in Hubs :
    /\ Distinct(registerQ[h])
    /\ \A c \in Conns : c \in Elements(registerQ[h]) => clients[h][sessionOf[c]] # c

Wiring == Entered /\ Queued /\ Placed /\ Worked /\ Once

-----------------------------------------------------------------------------
(***************************************************************************)
(* Queues.                                                                 *)
(***************************************************************************)
LEMMA Taken ==
  ASSUME NEW S, NEW q \in Seq(S), q # <<>>
  PROVE  /\ Head(q) \in S /\ Head(q) \in Elements(q)
         /\ Tail(q) \in Seq(S) /\ Elements(Tail(q)) \subseteq Elements(q)
         /\ Elements(q) \subseteq Elements(Tail(q)) \cup {Head(q)}
<1>1. Len(q) \in Nat \ {0} /\ Head(q) = q[1] /\ Head(q) \in S /\ Tail(q) \in Seq(S)
  OBVIOUS
<1>2. /\ Len(Tail(q)) = Len(q) - 1
      /\ \A i \in 1..Len(Tail(q)) : Tail(q)[i] = q[i + 1]
  OBVIOUS
<1>3. Head(q) \in Elements(q)
  BY <1>1 DEF Elements
<1>4. Elements(Tail(q)) \subseteq Elements(q)
  <2> SUFFICES ASSUME NEW i \in 1..Len(Tail(q))
               PROVE  Tail(q)[i] \in Elements(q)
    BY DEF Elements
  <2> QED
    BY <1>1, <1>2 DEF Elements
<1>5. Elements(q) \subseteq Elements(Tail(q)) \cup {Head(q)}
  <2> SUFFICES ASSUME NEW i \in 1..Len(q)
               PROVE  q[i] \in Elements(Tail(q)) \cup {Head(q)}
    BY DEF Elements
  <2>1. CASE i = 1
    BY <1>1, <2>1
  <2>2. CASE i # 1
    <3>1. i - 1 \in 1..Len(Tail(q)) /\ Tail(q)[i - 1] = q[i]
      BY <1>1, <1>2, <2>2
    <3> QED
      BY <3>1 DEF Elements
  <2> QED
    BY <2>1, <2>2
<1> QED
  BY <1>1, <1>3, <1>4, <1>5

LEMMA Put ==
  ASSUME NEW S, NEW q \in Seq(S), NEW e \in S
  PROVE  Append(q, e) \in Seq(S) /\ Elements(Append(q, e)) = Elements(q) \cup {e}
<1>1. /\ Append(q, e) \in Seq(S) /\ Len(Append(q, e)) = Len(q) + 1 /\ Len(q) \in Nat
      /\ Append(q, e)[Len(q) + 1] = e
      /\ \A i \in 1..Len(q) : Append(q, e)[i] = q[i]
  OBVIOUS
<1>2. Elements(Append(q, e)) \subseteq Elements(q) \cup {e}
  <2> SUFFICES ASSUME NEW i \in 1..(Len(q) + 1)
               PROVE  Append(q, e)[i] \in Elements(q) \cup {e}
    BY <1>1 DEF Elements
  <2>1. CASE i = Len(q) + 1
    BY <1>1, <2>1
  <2>2. CASE i \in 1..Len(q)
    BY <1>1, <2>2 DEF Elements
  <2> QED
    BY <1>1, <2>1, <2>2
<1>3. Elements(q) \cup {e} \subseteq Elements(Append(q, e))
  <2>1. Len(q) + 1 \in 1..Len(Append(q, e))
    BY <1>1
  <2>2. \A i \in 1..Len(q) : i \in 1..Len(Append(q, e))
    BY <1>1
  <2>3. e \in Elements(Append(q, e))
    BY <1>1, <2>1 DEF Elements
  <2>4. \A i \in 1..Len(q) : q[i] \in Elements(Append(q, e))
    BY <1>1, <2>2 DEF Elements
  <2> QED
    BY <2>3, <2>4 DEF Elements
<1> QED
  BY <1>1, <1>2, <1>3

LEMMA Joined ==
  ASSUME NEW S, NEW q \in Seq(S), NEW r \in Seq(S)
  PROVE  q \o r \in Seq(S) /\ Elements(q \o r) \subseteq Elements(q) \cup Elements(r)
<1>1. /\ q \o r \in Seq(S) /\ Len(q \o r) = Len(q) + Len(r)
      /\ Len(q) \in Nat /\ Len(r) \in Nat
      /\ \A i \in 1..Len(q \o r) : (q \o r)[i] = IF i <= Len(q) THEN q[i] ELSE r[i - Len(q)]
  OBVIOUS
<1>2. ASSUME NEW i \in 1..Len(q \o r)
      PROVE  (q \o r)[i] \in Elements(q) \cup Elements(r)
  <2>1. CASE i <= Len(q)
    <3>1. i \in 1..Len(q) /\ (q \o r)[i] = q[i]
      BY <1>1, <2>1
    <3> QED
      BY <3>1 DEF Elements
  <2>2. CASE ~(i <= Len(q))
    <3>1. i - Len(q) \in 1..Len(r) /\ (q \o r)[i] = r[i - Len(q)]
      BY <1>1, <2>2
    <3> QED
      BY <3>1 DEF Elements
  <2> QED
    BY <2>1, <2>2
<1> QED
  BY <1>1, <1>2 DEF Elements

LEMMA ElementsOf == \A S : \A q \in Seq(S) : Elements(q) \subseteq S
BY DEF Elements

LEMMA EmptyQueue == Elements(<<>>) = {} /\ Distinct(<<>>)
BY DEF Elements, Distinct

LEMMA DistinctQueues ==
  ASSUME NEW S, NEW q \in Seq(S), Distinct(q)
  PROVE  /\ q # <<>> => Distinct(Tail(q)) /\ Head(q) \notin Elements(Tail(q))
         /\ \A e \in S : e \notin Elements(q) => Distinct(Append(q, e))
<1>1. ASSUME q # <<>>
      PROVE  Distinct(Tail(q)) /\ Head(q) \notin Elements(Tail(q))
  <2>1. Len(q) \in Nat \ {0} /\ Head(q) = q[1] /\ Len(Tail(q)) = Len(q) - 1
    BY <1>1
  <2>2. \A i \in 1..Len(Tail(q)) : i + 1 \in 1..Len(q) /\ Tail(q)[i] = q[i + 1]
    BY <1>1
  <2>3. Distinct(Tail(q))
    <3> SUFFICES ASSUME NEW i \in 1..Len(Tail(q)), NEW j \in 1..Len(Tail(q)),
                        Tail(q)[i] = Tail(q)[j]
                 PROVE  i = j
      BY DEF Distinct
    <3>1. q[i + 1] = q[j + 1] /\ i + 1 \in 1..Len(q) /\ j + 1 \in 1..Len(q)
      BY <2>2
    <3>2. i + 1 = j + 1
      BY <3>1 DEF Distinct
    <3> QED
      BY <2>1, <3>2
  <2>4. ASSUME NEW i \in 1..Len(Tail(q)), Tail(q)[i] = Head(q)
        PROVE  FALSE
    <3>1. q[i + 1] = q[1] /\ i + 1 \in 1..Len(q) /\ 1 \in 1..Len(q)
      BY <2>1, <2>2, <2>4
    <3>2. i + 1 = 1
      BY <3>1 DEF Distinct
    <3> QED
      BY <2>1, <3>2
  <2> QED
    BY <2>3, <2>4 DEF Elements
<1>2. ASSUME NEW e \in S, e \notin Elements(q)
      PROVE  Distinct(Append(q, e))
  <2>1. /\ Len(Append(q, e)) = Len(q) + 1 /\ Len(q) \in Nat
        /\ Append(q, e)[Len(q) + 1] = e
        /\ \A i \in 1..Len(q) : Append(q, e)[i] = q[i] /\ q[i] # e
    BY <1>2 DEF Elements
  <2> QED
    BY <2>1 DEF Distinct
<1> QED
  BY <1>1, <1>2

-----------------------------------------------------------------------------
(***************************************************************************)
(* The type invariant, in parts, and what keeps each part.                 *)
(***************************************************************************)
StageType == hub \in [Hubs -> Stages] /\ sub \in [Hubs -> Subscriptions]

QueueType == registerQ \in [Hubs -> Seq(Conns)] /\ unregisterQ \in [Hubs -> Seq(Conns)]

WorkType ==
  /\ busy \in [Hubs -> Works]
  /\ clients \in [Hubs -> [Sessions -> Conns \cup {NoConn}]]

ConnType ==
  /\ phase \in [Conns -> Phases]
  /\ userOf \in [Conns -> Users \cup {NoUser}]
  /\ sessionOf \in [Conns -> Sessions] /\ hubOf \in [Conns -> Hubs \cup {NoHub}]

CloseType == closed \subseteq Conns /\ closing \subseteq Conns

RouteType ==
  owner \in [Users -> [Sessions -> Hubs \cup {NoHub}]] /\ present \subseteq Users

MessageType ==
  /\ inbox \in [Hubs -> Seq(Events)] /\ writing \subseteq Hubs
  /\ send \in [Conns -> Seq(Messages)] /\ got \in [Conns -> Seq(Messages)]
  /\ pending \in [Publishers -> Broadcasts \cup {NoEvent}]
  /\ log \in Seq(SUBSET Users) /\ published \in 0..MaxMessages
  /\ again \subseteq 1..MaxMessages

HistoryType ==
  /\ cutOff \subseteq Conns /\ early \subseteq Conns
  /\ leaked \subseteq Users \X Sessions \X Hubs

LEMMA TypeParts ==
  ASSUME TypeOK
  PROVE  /\ StageType /\ QueueType /\ WorkType /\ ConnType /\ CloseType /\ RouteType
         /\ MessageType /\ HistoryType
         /\ late \subseteq Scripts /\ faults \in 0..MaxFaults
BY DEF TypeOK, StageType, QueueType, WorkType, ConnType, CloseType, RouteType, MessageType,
       HistoryType

LEMMA NextTypeParts ==
  ASSUME StageType', QueueType', WorkType', ConnType', CloseType', RouteType',
         MessageType', HistoryType', late' \subseteq Scripts, faults' \in 0..MaxFaults
  PROVE  TypeOK'
BY DEF TypeOK, StageType, QueueType, WorkType, ConnType, CloseType, RouteType, MessageType,
       HistoryType

(***************************************************************************)
(* A batch is one more message, or one that was published comes again.     *)
(***************************************************************************)
LEMMA LogGrows ==
  ASSUME TypeOK, NEW p \in Publishers
  PROVE  /\ log' = log => published' = published
         /\ PublishBatch(p) =>
              /\ pending[p] \in Broadcasts /\ NumberOf(p) \in 1..MaxMessages
              /\ pending[p].n = 0 =>
                   /\ log' = Append(log, pending[p].to) /\ again' = again
                   /\ published' = published + 1 /\ NumberOf(p) = published + 1
              /\ pending[p].n # 0 =>
                   /\ log' = log /\ again' = again \cup {NumberOf(p)}
                   /\ NumberOf(p) = pending[p].n
              /\ log' \in Seq(SUBSET Users) /\ published' \in 0..MaxMessages
              /\ again' \subseteq 1..MaxMessages
<1>1. log' = log => published' = published
  BY DEF published
<1>2. log \in Seq(SUBSET Users) /\ published \in 0..MaxMessages /\ again \subseteq 1..MaxMessages
  BY DEF TypeOK
<1> SUFFICES ASSUME PublishBatch(p)
             PROVE  /\ pending[p] \in Broadcasts /\ NumberOf(p) \in 1..MaxMessages
                    /\ pending[p].n = 0 =>
                         /\ log' = Append(log, pending[p].to) /\ again' = again
                         /\ published' = published + 1 /\ NumberOf(p) = published + 1
                    /\ pending[p].n # 0 =>
                         /\ log' = log /\ again' = again \cup {NumberOf(p)}
                         /\ NumberOf(p) = pending[p].n
                    /\ log' \in Seq(SUBSET Users) /\ published' \in 0..MaxMessages
                    /\ again' \subseteq 1..MaxMessages
  BY <1>1
<1>3. pending[p] \in Broadcasts /\ pending[p].to \in SUBSET Users /\ pending[p].n \in 0..MaxMessages
  BY DEF TypeOK, PublishBatch, Broadcasts
<1>4. CASE pending[p].n = 0
  <2>1. log' = Append(log, pending[p].to) /\ again' = again /\ published < MaxMessages
    BY <1>4 DEF PublishBatch
  <2>2. log' \in Seq(SUBSET Users) /\ Len(log') = Len(log) + 1 /\ Len(log) \in Nat
    BY <1>2, <1>3, <2>1
  <2>3. published' = published + 1 /\ NumberOf(p) = published + 1
    BY <1>4, <2>2 DEF published, NumberOf
  <2> QED
    BY <1>2, <1>3, <1>4, <2>1, <2>2, <2>3, BoundsAssumption
<1>5. CASE pending[p].n # 0
  <2>1. log' = log /\ again' = again \cup {pending[p].n} /\ NumberOf(p) = pending[p].n
    BY <1>5 DEF PublishBatch, NumberOf
  <2>2. NumberOf(p) \in 1..MaxMessages
    BY <1>3, <1>5, <2>1, BoundsAssumption
  <2>3. published' = published /\ again' \subseteq 1..MaxMessages
    BY <1>1, <1>2, <2>1, <2>2
  <2> QED
    BY <1>2, <1>3, <1>5, <2>1, <2>2, <2>3
<1> QED
  BY <1>4, <1>5

LEMMA EventForHub ==
  ASSUME TypeOK, NEW p \in Publishers, PublishBatch(p), NEW h \in Hubs
  PROVE  EventFor(p, h) \in Events
<1>1. pending[p] \in Broadcasts /\ NumberOf(p) \in 1..MaxMessages
  BY LogGrows
<1> QED
  BY <1>1 DEF EventFor, Events, Messages, Broadcasts

(***************************************************************************)
(* The queue of a subscription, its first event with fewer entries         *)
(***************************************************************************)
Shorter(q, rest) == [q EXCEPT ![1].entries = rest]

LEMMA ShorterQueue ==
  ASSUME NEW q \in Seq(Events), q # <<>>, NEW rest \in SUBSET (Users \X Sessions)
  PROVE  /\ Shorter(q, rest) \in Seq(Events) /\ Len(Shorter(q, rest)) = Len(q)
         /\ Shorter(q, rest)[1] \in Events
         /\ Shorter(q, rest)[1].message = Head(q).message
         /\ Shorter(q, rest)[1].entries = rest
         /\ \A i \in 2..Len(q) : Shorter(q, rest)[i] = q[i]
<1>1. Len(q) \in Nat \ {0} /\ Head(q) = q[1] /\ q[1] \in Events /\ q \in [1..Len(q) -> Events]
  OBVIOUS
<1> DEFINE e == [q[1] EXCEPT !.entries = rest]
<1>2. e \in Events /\ e.message = q[1].message /\ e.entries = rest
  BY <1>1 DEF Events
<1> HIDE DEF e
<1>3. Shorter(q, rest) = [q EXCEPT ![1] = e]
  BY DEF Shorter, e
<1> HIDE DEF Shorter
<1>4. /\ Shorter(q, rest) \in [1..Len(q) -> Events] /\ Shorter(q, rest)[1] = e
      /\ \A i \in 2..Len(q) : Shorter(q, rest)[i] = q[i]
  BY <1>1, <1>2, <1>3
<1>5. Shorter(q, rest) \in Seq(Events) /\ Len(Shorter(q, rest)) = Len(q)
  BY <1>1, <1>4
<1> QED
  BY <1>1, <1>2, <1>4, <1>5

\* What writing an entry of the first event does to the queue
LEMMA EntryWritten ==
  ASSUME TypeOK, NEW h \in Hubs, WriteEvent(h)
  PROVE  /\ inbox[h] \in Seq(Events) /\ inbox[h] # <<>> /\ Head(inbox[h]) \in Events
         /\ \E e \in Head(inbox[h]).entries :
              LET named == Named(h, e[2])
                  full == {c \in named : Len(send[c]) >= SendLength}
                  rest == Head(inbox[h]).entries \ {e}
              IN /\ e \in Users \X Sessions /\ rest \in SUBSET (Users \X Sessions)
                 /\ named \subseteq Conns
                 /\ send' = [c \in Conns |->
                               IF c \in named \ full THEN Append(send[c], Head(inbox[h]).message)
                               ELSE send[c]]
                 /\ closing' = closing \cup (full \ closed)
                 /\ inbox' = [inbox EXCEPT ![h] = IF rest = {} THEN Tail(@) ELSE Shorter(@, rest)]
                 /\ writing' \subseteq Hubs
<1>1. inbox[h] \in Seq(Events) /\ inbox[h] # <<>> /\ writing \subseteq Hubs /\ inbox \in [Hubs -> Seq(Events)]
  BY DEF TypeOK, WriteEvent
<1>2. Head(inbox[h]) \in Events /\ Head(inbox[h]).entries \in SUBSET (Users \X Sessions)
  <2>1. Head(inbox[h]) \in Events
    BY <1>1, Taken
  <2> QED
    BY <2>1 DEF Events
<1> DEFINE all == Head(inbox[h]).entries
<1>3. PICK e \in all :
        /\ send' = [c \in Conns |->
              IF c \in Named(h, e[2]) \ {d \in Named(h, e[2]) : Len(send[d]) >= SendLength}
              THEN Append(send[c], Head(inbox[h]).message) ELSE send[c]]
        /\ closing' = closing \cup ({d \in Named(h, e[2]) : Len(send[d]) >= SendLength} \ closed)
        /\ inbox' = IF all \ {e} = {} THEN [inbox EXCEPT ![h] = Tail(@)]
                    ELSE [inbox EXCEPT ![h][1].entries = all \ {e}]
        /\ writing' = IF all \ {e} = {} THEN writing \ {h} ELSE writing \cup {h}
  BY DEF WriteEvent
<1>4. e \in Users \X Sessions /\ all \ {e} \in SUBSET (Users \X Sessions)
  BY <1>2
<1>5. Named(h, e[2]) \subseteq Conns
  BY <1>4 DEF TypeOK, Named
<1>6. writing' \subseteq Hubs
  BY <1>1, <1>3
<1>7. inbox' = [inbox EXCEPT ![h] = IF all \ {e} = {} THEN Tail(@) ELSE Shorter(@, all \ {e})]
  BY <1>1, <1>3 DEF Shorter
<1> QED
  BY <1>1, <1>2, <1>3, <1>4, <1>5, <1>6, <1>7

LEMMA PartsKept ==
  ASSUME TypeOK
  PROVE  /\ UNCHANGED <<hub, sub>> => StageType'
         /\ UNCHANGED <<registerQ, unregisterQ>> => QueueType'
         /\ UNCHANGED <<busy, clients>> => WorkType'
         /\ UNCHANGED connVars => ConnType'
         /\ UNCHANGED <<closed, closing>> => CloseType'
         /\ UNCHANGED <<owner, present>> => RouteType'
         /\ UNCHANGED messageVars => MessageType'
         /\ UNCHANGED <<cutOff, early, leaked>> => HistoryType'
         /\ UNCHANGED late => late' \subseteq Scripts
         /\ UNCHANGED faults => faults' \in 0..MaxFaults
         /\ Faulty => faults' \in 0..MaxFaults
<1>1. Faulty => faults' \in 0..MaxFaults
  BY BoundsAssumption DEF TypeOK, Faulty
<1>2. UNCHANGED connVars => ConnType'
  BY DEF TypeOK, ConnType, connVars
<1>3. /\ UNCHANGED messageVars => MessageType'
      /\ UNCHANGED <<cutOff, early, leaked>> => HistoryType'
      /\ UNCHANGED <<owner, present>> => RouteType'
  BY DEF TypeOK, MessageType, HistoryType, RouteType, published, messageVars
<1>4. /\ UNCHANGED <<hub, sub>> => StageType'
      /\ UNCHANGED <<registerQ, unregisterQ>> => QueueType'
      /\ UNCHANGED <<busy, clients>> => WorkType'
      /\ UNCHANGED <<closed, closing>> => CloseType'
      /\ UNCHANGED late => late' \subseteq Scripts
      /\ UNCHANGED faults => faults' \in 0..MaxFaults
  BY DEF TypeOK, StageType, QueueType, WorkType, CloseType
<1> QED
  BY <1>1, <1>2, <1>3, <1>4

-----------------------------------------------------------------------------
(***************************************************************************)
(* Every step keeps the types.                                             *)
(***************************************************************************)
LEMMA Worker ==
  ASSUME TypeOK, Wiring, NEW h \in Hubs, NEW op \in {"register", "unregister"}, Working(h, op)
  PROVE  /\ busy[h].conn \in Conns /\ busy[h] = [op |-> op, conn |-> busy[h].conn]
         /\ userOf[busy[h].conn] \in Users /\ sessionOf[busy[h].conn] \in Sessions
         /\ hubOf[busy[h].conn] = h /\ hub[h] = "up"
         /\ op = "register" => clients[h][sessionOf[busy[h].conn]] = busy[h].conn
         /\ op = "unregister" =>
              phase[busy[h].conn] = "gone" /\ clients[h][sessionOf[busy[h].conn]] = NoConn
<1> DEFINE c == busy[h].conn
<1>1. busy[h] \in Works /\ busy[h].op = op /\ hub[h] = "up"
  BY DEF Working, TypeOK
<1>2. busy[h] # Idle
  BY <1>1 DEF Idle
<1>3. c \in Conns /\ busy[h] = [op |-> op, conn |-> c]
  BY <1>1, <1>2 DEF Wiring, Worked, Works
<1>4. sessionOf[c] \in Sessions
  BY <1>3 DEF TypeOK
<1>5. op = "register" => clients[h][sessionOf[c]] = c
  BY <1>1 DEF Wiring, Worked
<1>6. op = "unregister" =>
        hubOf[c] = h /\ phase[c] = "gone" /\ clients[h][sessionOf[c]] = NoConn
  BY <1>1 DEF Wiring, Worked
<1>7. hubOf[c] = h /\ phase[c] \in Registered
  BY <1>3, <1>4, <1>5, <1>6 DEF Wiring, Placed, Registered
<1>8. userOf[c] \in Users
  BY <1>3, <1>7 DEF Wiring, Entered, Registered
<1> QED
  BY <1>1, <1>3, <1>4, <1>5, <1>6, <1>7, <1>8

LEMMA ScriptTypes ==
  ASSUME RouteType, NEW u \in Users, NEW s \in Sessions, NEW h \in Hubs
  PROVE  /\ RunRegister(u, s, h) => RouteType'
         /\ RunUnregister(u, s, h) => RouteType'
<1>1. RunRegister(u, s, h) => RouteType'
  BY DEF RouteType, RunRegister
<1>2. NoRoutes \in [Sessions -> Hubs \cup {NoHub}]
  BY DEF NoRoutes
<1>3. [owner[u] EXCEPT ![s] = NoHub] \in [Sessions -> Hubs \cup {NoHub}]
  BY DEF RouteType
<1>4. ASSUME RunUnregister(u, s, h)
      PROVE  RouteType'
  <2>1. CASE ~OwnedBy(u, s, h)
    BY <1>4, <2>1 DEF RunUnregister, RouteType
  <2>2. CASE OwnedBy(u, s, h)
    <3> DEFINE routes == [owner[u] EXCEPT ![s] = NoHub]
               keep == KeepHash(u, routes)
    <3>1. /\ owner' = [owner EXCEPT ![u] = IF keep THEN routes ELSE NoRoutes]
          /\ present' = IF keep THEN present ELSE present \ {u}
      BY <1>4, <2>2 DEF RunUnregister
    <3>2. (IF keep THEN routes ELSE NoRoutes) \in [Sessions -> Hubs \cup {NoHub}]
      BY <1>2, <1>3
    <3> HIDE DEF routes, keep
    <3> QED
      BY <3>1, <3>2 DEF RouteType
  <2> QED
    BY <2>1, <2>2
<1> QED
  BY <1>1, <1>4

LEMMA ServedUsers ==
  ASSUME TypeOK, Wiring, NEW h \in Hubs, NEW c \in Conns, c \in {clients[h][s] : s \in Sessions}
  PROVE  userOf[c] \in Users /\ hubOf[c] = h /\ clients[h][sessionOf[c]] = c
<1>1. PICK s \in Sessions : clients[h][s] = c
  OBVIOUS
<1>2. hubOf[c] = h /\ sessionOf[c] = s /\ phase[c] \in Registered
  BY <1>1 DEF Wiring, Placed
<1> QED
  BY <1>1, <1>2 DEF Wiring, Entered, Registered

\* The route of a connection that runs, in the histories
LEMMA RouteNames ==
  ASSUME NEW u \in Users, NEW s \in Sessions, NEW h \in Hubs
  PROVE  <<u, s, h>> \in Users \X Sessions \X Hubs /\ RoutesOf(h) \subseteq Users \X Sessions \X Hubs
BY DEF RoutesOf

LEMMA TakeRegisterType ==
  ASSUME TypeOK, Wiring, NEW h \in Hubs, TakeRegister(h)
  PROVE  TypeOK'
<1> DEFINE c == Head(registerQ[h])
           old == Replaced(h, sessionOf[c])
<1>1. registerQ[h] \in Seq(Conns) /\ registerQ[h] # <<>>
  BY DEF TypeOK, TakeRegister
<1>2. c \in Conns /\ Tail(registerQ[h]) \in Seq(Conns) /\ sessionOf[c] \in Sessions
  BY <1>1, Taken DEF TypeOK
<1>3. /\ clients' = [clients EXCEPT ![h][sessionOf[c]] = c]
      /\ busy' = [busy EXCEPT ![h] = [op |-> "register", conn |-> c]]
      /\ closed' = closed \cup old
      /\ leaked' = leaked \cup {<<userOf[d], sessionOf[c], h>> :
                                  d \in {e \in old : userOf[e] # userOf[c]}}
      /\ cutOff' = cutOff \ old
      /\ early' = early \ old
  BY DEF TakeRegister
<1>4. old \subseteq Conns
  BY <1>2 DEF Replaced, TypeOK
<1>5. \A d \in old : userOf[d] \in Users
  BY <1>2, <1>4, ServedUsers DEF Replaced
<1> HIDE DEF c, old
<1>6. QueueType'
  BY <1>2 DEF TakeRegister, TypeOK, QueueType, c
<1>7. WorkType'
  BY <1>2, <1>3 DEF TypeOK, WorkType, Works
<1>8. CloseType'
  BY <1>3, <1>4 DEF TypeOK, CloseType, TakeRegister
<1>9. HistoryType'
  BY <1>2, <1>3, <1>5 DEF TypeOK, HistoryType
<1> QED
  BY <1>6, <1>7, <1>8, <1>9, PartsKept, NextTypeParts DEF TakeRegister, redisVars

LEMMA FinishRegisterType ==
  ASSUME TypeOK, Wiring, NEW h \in Hubs, FinishRegister(h)
  PROVE  TypeOK'
<1> DEFINE c == busy[h].conn
           u == userOf[c]
           s == sessionOf[c]
<1>1. c \in Conns /\ u \in Users /\ s \in Sessions
  BY Worker DEF FinishRegister
<1>2. WorkType'
  BY DEF TypeOK, WorkType, Works, Idle, FinishRegister
<1>3. \/ /\ RunRegister(u, s, h)
         /\ cutOff' = (cutOff \ {c}) \cup Elsewhere(u, s, h)
         /\ leaked' = leaked \ {<<u, s, h>>}
         /\ UNCHANGED <<late, faults>>
      \/ /\ Faulty
         /\ \/ UNCHANGED late
            \/ late' = late \cup {[op |-> "register", user |-> u, session |-> s, hub |-> h]}
         /\ cutOff' = cutOff \cup {c}
         /\ UNCHANGED <<owner, present, leaked>>
  BY DEF FinishRegister
<1> HIDE DEF c, u, s
<1>4. RouteType'
  BY <1>1, <1>3, TypeParts, ScriptTypes, PartsKept
<1>5. HistoryType'
  <2>1. Elsewhere(u, s, h) \subseteq Conns
    BY DEF Elsewhere
  <2> QED
    BY <1>1, <1>3, <2>1 DEF TypeOK, HistoryType, FinishRegister
<1>6. late' \subseteq Scripts /\ faults' \in 0..MaxFaults
  <2>1. [op |-> "register", user |-> u, session |-> s, hub |-> h] \in Scripts
    BY <1>1 DEF Scripts
  <2> QED
    BY <1>3, <2>1, PartsKept DEF TypeOK
<1> QED
  BY <1>2, <1>4, <1>5, <1>6, PartsKept, NextTypeParts DEF FinishRegister

LEMMA TakeUnregisterType ==
  ASSUME TypeOK, Wiring, NEW h \in Hubs, TakeUnregister(h)
  PROVE  TypeOK'
<1> DEFINE c == Head(unregisterQ[h])
<1>1. unregisterQ[h] \in Seq(Conns) /\ unregisterQ[h] # <<>>
  BY DEF TypeOK, TakeUnregister
<1>2. c \in Conns /\ Tail(unregisterQ[h]) \in Seq(Conns) /\ sessionOf[c] \in Sessions
  BY <1>1, Taken DEF TypeOK
<1>3. \/ /\ clients' = [clients EXCEPT ![h][sessionOf[c]] = NoConn]
         /\ busy' = [busy EXCEPT ![h] = [op |-> "unregister", conn |-> c]]
         /\ cutOff' = cutOff \ {c}
         /\ UNCHANGED early
      \/ /\ early' = IF c \in Elements(registerQ[h]) THEN early \cup {c} ELSE early
         /\ UNCHANGED <<clients, busy, cutOff>>
  BY DEF TakeUnregister
<1> HIDE DEF c
<1>4. QueueType'
  BY <1>2 DEF TakeUnregister, TypeOK, QueueType, c
<1>5. WorkType'
  <2>1. CASE /\ clients' = [clients EXCEPT ![h][sessionOf[c]] = NoConn]
             /\ busy' = [busy EXCEPT ![h] = [op |-> "unregister", conn |-> c]]
    BY <1>2, <2>1 DEF TypeOK, WorkType, Works
  <2>2. CASE UNCHANGED <<clients, busy>>
    BY <2>2 DEF TypeOK, WorkType
  <2> QED
    BY <1>3, <2>1, <2>2
<1>6. HistoryType'
  BY <1>2, <1>3 DEF TypeOK, HistoryType, TakeUnregister
<1> QED
  BY <1>4, <1>5, <1>6, PartsKept, NextTypeParts DEF TakeUnregister, redisVars

LEMMA FinishUnregisterType ==
  ASSUME TypeOK, Wiring, NEW h \in Hubs, FinishUnregister(h)
  PROVE  TypeOK'
<1> DEFINE c == busy[h].conn
           u == userOf[c]
           s == sessionOf[c]
<1>1. c \in Conns /\ u \in Users /\ s \in Sessions
  BY Worker DEF FinishUnregister
<1>2. WorkType'
  BY DEF TypeOK, WorkType, Works, Idle, FinishUnregister
<1>3. /\ \/ /\ RunUnregister(u, s, h)
            /\ leaked' = leaked \ {<<u, s, h>>}
            /\ UNCHANGED <<late, faults>>
         \/ /\ Faulty
            /\ \/ UNCHANGED late
               \/ late' = late \cup {[op |-> "unregister", user |-> u, session |-> s, hub |-> h]}
            /\ leaked' = leaked \cup {<<u, s, h>>}
            /\ UNCHANGED <<owner, present>>
      /\ closed' = closed \cup {c}
  BY DEF FinishUnregister
<1> HIDE DEF c, u, s
<1>4. RouteType'
  BY <1>1, <1>3, TypeParts, ScriptTypes, PartsKept
<1>5. HistoryType'
  BY <1>1, <1>3, RouteNames DEF TypeOK, HistoryType, FinishUnregister
<1>6. late' \subseteq Scripts /\ faults' \in 0..MaxFaults
  <2>1. [op |-> "unregister", user |-> u, session |-> s, hub |-> h] \in Scripts
    BY <1>1 DEF Scripts
  <2> QED
    BY <1>3, <2>1, PartsKept DEF TypeOK
<1>7. CloseType'
  BY <1>1, <1>3 DEF TypeOK, CloseType, FinishUnregister
<1> QED
  BY <1>2, <1>4, <1>5, <1>6, <1>7, PartsKept, NextTypeParts DEF FinishUnregister

LEMMA EndStopType ==
  ASSUME TypeOK, NEW h \in Hubs, EndStop(h)
  PROVE  TypeOK'
<1>1. StageType'
  BY DEF TypeOK, StageType, Stages, EndStop
<1>2. WorkType'
  BY DEF TypeOK, WorkType, NoClients, EndStop
<1>3. ({clients[h][s] : s \in Sessions} \ {NoConn}) \subseteq Conns
  BY DEF TypeOK
<1>4. CloseType' /\ HistoryType'
  BY <1>3 DEF TypeOK, CloseType, HistoryType, RoutesOf, EndStop
<1>5. MessageType'
  BY DEF TypeOK, MessageType, EndStop, published
<1> QED
  BY <1>1, <1>2, <1>4, <1>5, PartsKept, NextTypeParts DEF EndStop, redisVars

LEMMA DieType ==
  ASSUME TypeOK, NEW h \in Hubs, Die(h)
  PROVE  TypeOK'
<1>1. StageType'
  BY DEF TypeOK, StageType, Stages, Subscriptions, Die
<1>2. QueueType'
  BY DEF TypeOK, QueueType, Die
<1>3. WorkType'
  BY DEF TypeOK, WorkType, NoClients, Works, Idle, Die
<1>4. ConnType'
  BY DEF TypeOK, ConnType, Phases, Die
<1>5. CloseType'
  BY DEF TypeOK, CloseType, Die
<1>6. HistoryType'
  BY DEF TypeOK, HistoryType, RoutesOf, Die
<1>7. MessageType'
  BY DEF TypeOK, MessageType, Die, published
<1> QED
  BY <1>1, <1>2, <1>3, <1>4, <1>5, <1>6, <1>7, PartsKept, NextTypeParts DEF Die, redisVars

LEMMA HubStepType ==
  ASSUME TypeOK, NEW h \in Hubs, Start(h) \/ Subscribe(h) \/ BeginStop(h) \/ WriteEvent(h)
  PROVE  TypeOK'
<1>1. CASE Start(h) \/ Subscribe(h) \/ BeginStop(h)
  <2>1. StageType'
    BY <1>1 DEF TypeOK, StageType, Stages, Subscriptions, Start, Subscribe, BeginStop
  <2> QED
    BY <1>1, <2>1, PartsKept, NextTypeParts
    DEF Start, Subscribe, BeginStop, redisVars, historyVars
<1>2. CASE WriteEvent(h)
  <2>1. /\ inbox[h] \in Seq(Events) /\ inbox[h] # <<>> /\ Head(inbox[h]) \in Events
        /\ Tail(inbox[h]) \in Seq(Events) /\ Head(inbox[h]).message \in Messages
    BY <1>2, EntryWritten, Taken DEF Events
  <2>2. PICK e : LET named == Named(h, e[2])
                     full == {c \in named : Len(send[c]) >= SendLength}
                     rest == Head(inbox[h]).entries \ {e}
                 IN /\ rest \in SUBSET (Users \X Sessions) /\ named \subseteq Conns
                    /\ send' = [c \in Conns |->
                          IF c \in named \ full THEN Append(send[c], Head(inbox[h]).message)
                          ELSE send[c]]
                    /\ closing' = closing \cup (full \ closed)
                    /\ inbox' = [inbox EXCEPT ![h] = IF rest = {} THEN Tail(@)
                                                     ELSE Shorter(@, rest)]
                    /\ writing' \subseteq Hubs
    BY <1>2, EntryWritten
  <2> DEFINE rest == Head(inbox[h]).entries \ {e}
             q == IF rest = {} THEN Tail(inbox[h]) ELSE Shorter(inbox[h], rest)
  <2>3. q \in Seq(Events)
    BY <2>1, <2>2, ShorterQueue
  <2>4. \A c \in Conns : Append(send[c], Head(inbox[h]).message) \in Seq(Messages)
    BY <2>1 DEF TypeOK
  <2>5. send' \in [Conns -> Seq(Messages)]
    BY <2>2, <2>4 DEF TypeOK
  <2>6. inbox' = [inbox EXCEPT ![h] = q] /\ writing' \subseteq Hubs
    BY <2>2
  <2> HIDE DEF q, rest
  <2>7. inbox' \in [Hubs -> Seq(Events)] /\ writing' \subseteq Hubs
    <3>1. inbox \in [Hubs -> Seq(Events)]
      BY DEF TypeOK
    <3> QED
      BY <2>3, <2>6, <3>1
  <2>8. UNCHANGED <<got, pending, log, again>>
    BY <1>2 DEF WriteEvent
  <2>9. MessageType'
    BY <2>5, <2>7, <2>8 DEF TypeOK, MessageType, published
  <2>10. CloseType'
    BY <1>2, <2>2 DEF TypeOK, CloseType, WriteEvent
  <2> QED
    BY <1>2, <2>9, <2>10, PartsKept, NextTypeParts DEF WriteEvent, hubVars, redisVars, historyVars
<1> QED
  BY <1>1, <1>2

LEMMA ConnStepType ==
  ASSUME TypeOK, Wiring, NEW c \in Conns,
         \/ \E u \in Users, s \in Sessions : PrintTicket(c, u, s)
         \/ \E h \in Hubs : Accept(c, h)
         \/ Open(c) \/ ReaderEnds(c) \/ Leave(c) \/ Close(c) \/ WriterFails(c) \/ Flush(c)
  PROVE  TypeOK'
<1>1. ASSUME NEW u \in Users, NEW s \in Sessions, PrintTicket(c, u, s)
      PROVE  TypeOK'
  <2>1. ConnType'
    BY <1>1 DEF TypeOK, ConnType, Phases, PrintTicket
  <2> QED
    BY <1>1, <2>1, PartsKept, NextTypeParts
    DEF PrintTicket, hubVars, redisVars, historyVars
<1>2. ASSUME NEW h \in Hubs, Accept(c, h)
      PROVE  TypeOK'
  <2>1. ConnType'
    BY <1>2 DEF TypeOK, ConnType, Phases, Accept
  <2> QED
    BY <1>2, <2>1, PartsKept, NextTypeParts
    DEF Accept, hubVars, redisVars, historyVars
<1>3. CASE Open(c)
  <2>1. ConnType'
    BY <1>3 DEF TypeOK, ConnType, Phases, Open
  <2>2. hubOf[c] \in Hubs
    BY <1>3 DEF Wiring, Entered, Open
  <2>3. Append(registerQ[hubOf[c]], c) \in Seq(Conns)
    BY <2>2 DEF TypeOK
  <2>4. QueueType'
    BY <1>3, <2>2, <2>3 DEF TypeOK, QueueType, Open
  <2> QED
    BY <1>3, <2>1, <2>4, PartsKept, NextTypeParts DEF Open, redisVars, historyVars
<1>4. CASE ReaderEnds(c)
  <2>1. ConnType'
    BY <1>4 DEF TypeOK, ConnType, Phases, ReaderEnds
  <2> QED
    BY <1>4, <2>1, PartsKept, NextTypeParts
    DEF ReaderEnds, hubVars, redisVars, historyVars
<1>5. CASE Leave(c)
  <2>1. ConnType'
    BY <1>5 DEF TypeOK, ConnType, Phases, Leave
  <2>2. hubOf[c] \in Hubs
    BY <1>5 DEF Wiring, Entered, Leave
  <2>3. Append(unregisterQ[hubOf[c]], c) \in Seq(Conns)
    BY <2>2 DEF TypeOK
  <2>4. QueueType'
    BY <1>5, <2>2, <2>3 DEF TypeOK, QueueType, Leave
  <2>5. CloseType' /\ MessageType'
    BY <1>5 DEF TypeOK, CloseType, MessageType, Leave, published
  <2> QED
    BY <1>5, <2>1, <2>4, <2>5, PartsKept, NextTypeParts DEF Leave, redisVars, historyVars
<1>6. CASE Close(c) \/ WriterFails(c) \/ Flush(c)
  <2>1. got[c] \o send[c] \in Seq(Messages)
    BY DEF TypeOK
  <2>2. MessageType'
    <3>1. CASE Close(c)
      BY <3>1, PartsKept DEF Close
    <3>2. CASE WriterFails(c)
      BY <3>2 DEF TypeOK, MessageType, WriterFails, published
    <3>3. CASE Flush(c)
      BY <2>1, <3>3 DEF TypeOK, MessageType, Flush, published
    <3> QED
      BY <1>6, <3>1, <3>2, <3>3
  <2>3. CloseType'
    BY <1>6 DEF TypeOK, CloseType, Close, WriterFails, Flush
  <2> QED
    BY <1>6, <2>2, <2>3, PartsKept, NextTypeParts
    DEF Close, WriterFails, Flush, hubVars, redisVars, historyVars
<1> QED
  BY <1>1, <1>2, <1>3, <1>4, <1>5, <1>6

LEMMA RedisStepType ==
  ASSUME TypeOK, (\E u \in Users : Expire(u)) \/ (\E x \in late : LateRuns(x))
  PROVE  TypeOK'
<1>1. ASSUME NEW u \in Users, Expire(u)
      PROVE  TypeOK'
  <2>1. RouteType'
    BY <1>1 DEF TypeOK, RouteType, NoRoutes, Expire
  <2>2. HistoryType'
    BY <1>1 DEF TypeOK, HistoryType, Expire
  <2>3. faults' \in 0..MaxFaults
    BY <1>1, PartsKept DEF Expire
  <2> QED
    BY <1>1, <2>1, <2>2, <2>3, PartsKept, NextTypeParts DEF Expire, hubVars
<1>2. ASSUME NEW x \in late, LateRuns(x)
      PROVE  TypeOK'
  <2>1. x.user \in Users /\ x.session \in Sessions /\ x.hub \in Hubs
    BY DEF TypeOK, Scripts
  <2>2. RouteType'
    BY <1>2, <2>1, TypeParts, ScriptTypes DEF LateRuns
  <2>3. /\ Here(x.user, x.session, x.hub) \subseteq Conns
        /\ Elsewhere(x.user, x.session, x.hub) \subseteq Conns
    BY DEF Here, Elsewhere
  <2>4. HistoryType'
    <3>1. cutOff' \subseteq Conns
      BY <1>2, <2>3 DEF TypeOK, LateRuns
    <3>2. leaked' \subseteq Users \X Sessions \X Hubs
      BY <1>2, <2>1, RouteNames DEF TypeOK, LateRuns
    <3> QED
      BY <1>2, <3>1, <3>2 DEF TypeOK, HistoryType, LateRuns
  <2>5. late' \subseteq Scripts
    BY <1>2 DEF TypeOK, LateRuns
  <2> QED
    BY <1>2, <2>2, <2>4, <2>5, PartsKept, NextTypeParts DEF LateRuns, hubVars
<1> QED
  BY <1>1, <1>2

LEMMA BroadcastType ==
  ASSUME TypeOK, NEW p \in Publishers,
         \/ \E to \in Audiences, form \in {"only", "without"}, listed \in SUBSET Sessions :
              ReadTargets(p, to, form, listed)
         \/ PublishBatch(p)
  PROVE  TypeOK'
<1>1. ASSUME NEW to \in Audiences, NEW form, NEW listed, ReadTargets(p, to, form, listed)
      PROVE  TypeOK'
  <2>1. to \subseteq Users
    BY AudiencesAssumption
  <2>2. PICK targets \in SUBSET (to \X Hubs \X Sessions) :
          pending' = [pending EXCEPT ![p] = [to |-> to, targets |-> targets, n |-> 0]]
    BY <1>1 DEF ReadTargets
  <2>3. targets \in SUBSET (Users \X Hubs \X Sessions) /\ 0 \in 0..MaxMessages
    BY <2>1, BoundsAssumption
  <2>4. [to |-> to, targets |-> targets, n |-> 0] \in Broadcasts
    BY <2>1, <2>3 DEF Broadcasts
  <2>5. pending' \in [Publishers -> Broadcasts \cup {NoEvent}]
    BY <2>2, <2>4 DEF TypeOK
  <2>6. MessageType'
    BY <1>1, <2>5 DEF TypeOK, MessageType, ReadTargets, published
  <2> QED
    BY <1>1, <2>6, PartsKept, NextTypeParts DEF ReadTargets, hubVars, redisVars, historyVars
<1>2. CASE PublishBatch(p)
  <2>1. pending[p] \in Broadcasts /\ NumberOf(p) \in 1..MaxMessages
    BY <1>2, LogGrows
  <2>2. PICK reached : inbox' = [h \in Hubs |->
            IF h \in reached /\ sub[h] = "on" /\ Len(inbox[h]) < QueueLength
            THEN Append(inbox[h], EventFor(p, h)) ELSE inbox[h]]
    BY <1>2 DEF PublishBatch
  <2>3. \A h \in Hubs : Append(inbox[h], EventFor(p, h)) \in Seq(Events)
    BY <1>2, EventForHub DEF TypeOK
  <2>4. inbox' \in [Hubs -> Seq(Events)]
    BY <2>2, <2>3 DEF TypeOK
  <2>5. [pending[p] EXCEPT !.n = NumberOf(p)] \in Broadcasts
    BY <2>1 DEF Broadcasts
  <2>6. \/ pending' = [pending EXCEPT ![p] = NoEvent]
        \/ pending' = [pending EXCEPT ![p] = [@ EXCEPT !.n = NumberOf(p)]]
    BY <1>2 DEF PublishBatch
  <2>7. pending' \in [Publishers -> Broadcasts \cup {NoEvent}]
    BY <2>5, <2>6 DEF TypeOK
  <2>8. MessageType'
    BY <1>2, <2>4, <2>7, LogGrows DEF TypeOK, MessageType, PublishBatch
  <2>9. faults' \in 0..MaxFaults
    BY <1>2, PartsKept DEF PublishBatch
  <2> QED
    BY <1>2, <2>8, <2>9, PartsKept, NextTypeParts DEF PublishBatch, hubVars, redisVars, historyVars
<1> QED
  BY <1>1, <1>2

LEMMA TypeStep ==
  ASSUME TypeOK, Wiring, [Next]_vars
  PROVE  TypeOK'
<1>1. CASE UNCHANGED vars
  BY <1>1 DEF TypeOK, vars, hubVars, connVars, redisVars, messageVars, historyVars, published
<1>2. ASSUME NEW h \in Hubs,
             \/ Start(h) \/ Subscribe(h) \/ RunStep(h) \/ BeginStop(h) \/ EndStop(h) \/ Die(h)
             \/ WriteEvent(h)
      PROVE  TypeOK'
  BY <1>2, TakeRegisterType, FinishRegisterType, TakeUnregisterType, FinishUnregisterType,
     EndStopType, DieType, HubStepType DEF RunStep
<1> QED
  BY <1>1, <1>2, ConnStepType, RedisStepType, BroadcastType DEF Next

-----------------------------------------------------------------------------
(***************************************************************************)
(* Every step keeps the wiring.                                            *)
(***************************************************************************)
LEMMA WiringKept ==
  ASSUME Wiring, UNCHANGED <<hub, registerQ, unregisterQ, busy, clients, connVars>>
  PROVE  Wiring'
BY DEF Wiring, Entered, Queued, Placed, Worked, Once, connVars

LEMMA WorkerNames ==
  ASSUME TypeOK, Wiring, NEW h \in Hubs, busy[h] # Idle
  PROVE  /\ busy[h].conn \in Conns /\ hub[h] = "up"
         /\ hubOf[busy[h].conn] = h /\ phase[busy[h].conn] \in Registered
         /\ busy[h].op = "register" \/ busy[h].op = "unregister"
<1>1. hub[h] = "up" /\ busy[h].op # "idle" /\ busy[h].conn \in Conns /\ busy[h] \in Works
  BY DEF Wiring, Worked, TypeOK
<1>2. busy[h].op \in {"register", "unregister"}
  BY <1>1 DEF Works
<1>3. CASE busy[h].op = "register"
  <2>1. clients[h][sessionOf[busy[h].conn]] = busy[h].conn /\ sessionOf[busy[h].conn] \in Sessions
    BY <1>1, <1>3 DEF Wiring, Worked, TypeOK
  <2> QED
    BY <1>1, <1>3, <2>1 DEF Wiring, Placed
<1>4. CASE busy[h].op = "unregister"
  BY <1>1, <1>4 DEF Wiring, Worked, Registered
<1> QED
  BY <1>2, <1>3, <1>4, <1>1

\* Neither waits in a queue, nor in a map, nor for Redis.
LEMMA Unknown ==
  ASSUME TypeOK, Wiring, NEW c \in Conns, phase[c] \notin Registered
  PROVE  \A h \in Hubs :
           /\ c \notin Elements(registerQ[h]) /\ c \notin Elements(unregisterQ[h])
           /\ \A s \in Sessions : clients[h][s] # c
           /\ busy[h] # Idle => busy[h].conn # c
<1>1. \A h \in Hubs : busy[h] # Idle => busy[h].conn # c
  BY WorkerNames
<1>2. \A h \in Hubs : c \notin Elements(registerQ[h]) /\ c \notin Elements(unregisterQ[h])
  BY DEF Wiring, Queued, Registered
<1>3. \A h \in Hubs : \A s \in Sessions : clients[h][s] # c
  BY DEF Wiring, Placed
<1> QED
  BY <1>1, <1>2, <1>3

LEMMA TakeRegisterWiring ==
  ASSUME TypeOK, Wiring, NEW h \in Hubs, TakeRegister(h)
  PROVE  Wiring'
<1> DEFINE c == Head(registerQ[h])
<1>1. registerQ[h] \in Seq(Conns) /\ registerQ[h] # <<>> /\ Distinct(registerQ[h])
  BY DEF TypeOK, TakeRegister, Wiring, Once
<1>2. /\ c \in Conns /\ c \in Elements(registerQ[h]) /\ sessionOf[c] \in Sessions
      /\ Elements(Tail(registerQ[h])) \subseteq Elements(registerQ[h])
  BY <1>1, Taken DEF TypeOK
<1>3. Distinct(Tail(registerQ[h])) /\ c \notin Elements(Tail(registerQ[h]))
  BY <1>1, DistinctQueues
<1>4. hubOf[c] = h /\ phase[c] \in Registered
  BY <1>2 DEF Wiring, Queued
<1>5. /\ clients' = [clients EXCEPT ![h][sessionOf[c]] = c]
      /\ busy' = [busy EXCEPT ![h] = [op |-> "register", conn |-> c]]
      /\ registerQ' = [registerQ EXCEPT ![h] = Tail(@)]
      /\ hub[h] = "up" /\ UNCHANGED <<hub, unregisterQ, phase, userOf, sessionOf, hubOf>>
  BY DEF TakeRegister, connVars
<1> HIDE DEF c
<1>6. Entered'
  BY <1>5 DEF Wiring, Entered
<1>7. Queued'
  <2>1. \A k \in Hubs : Elements(registerQ'[k]) \subseteq Elements(registerQ[k])
    BY <1>2, <1>5 DEF TypeOK
  <2>2. ASSUME NEW k \in Hubs, NEW d \in Conns, d \in Elements(registerQ'[k])
        PROVE  hubOf[d] = k /\ phase[d] \in Registered
    BY <2>1, <2>2 DEF Wiring, Queued
  <2>3. ASSUME NEW k \in Hubs, NEW d \in Conns, d \in Elements(unregisterQ[k])
        PROVE  hubOf[d] = k /\ phase[d] = "gone"
    BY <2>3 DEF Wiring, Queued
  <2> QED
    BY <1>5, <2>2, <2>3 DEF Queued
<1>8. Placed'
  <2> SUFFICES ASSUME NEW k \in Hubs, NEW s \in Sessions, NEW d \in Conns, clients'[k][s] = d
               PROVE  hubOf[d] = k /\ sessionOf[d] = s /\ phase[d] \in Registered
    BY <1>5 DEF Placed
  <2>1. clients[k][s] = d \/ (k = h /\ s = sessionOf[c] /\ d = c)
    BY <1>2, <1>5 DEF TypeOK
  <2> QED
    BY <1>4, <2>1 DEF Wiring, Placed
<1>9. Worked'
  <2>1. busy'[h] = [op |-> "register", conn |-> c] /\ clients'[h][sessionOf[c]] = c
    BY <1>2, <1>5 DEF TypeOK
  <2>2. \A k \in Hubs \ {h} : busy'[k] = busy[k] /\ clients'[k] = clients[k]
    BY <1>5 DEF TypeOK
  <2> QED
    BY <1>2, <1>5, <2>1, <2>2 DEF Wiring, Worked
<1>10. Once'
  <2>1. registerQ'[h] = Tail(registerQ[h])
    BY <1>5 DEF TypeOK
  <2>2. \A k \in Hubs \ {h} : registerQ'[k] = registerQ[k] /\ clients'[k] = clients[k]
    BY <1>5 DEF TypeOK
  <2>3. ASSUME NEW d \in Conns, d \in Elements(registerQ'[h])
        PROVE  clients'[h][sessionOf[d]] # d
    <3>1. d # c /\ d \in Elements(registerQ[h]) /\ sessionOf[d] \in Sessions
      BY <1>2, <1>3, <2>1, <2>3 DEF c, TypeOK
    <3>2. clients[h][sessionOf[d]] # d
      BY <3>1 DEF Wiring, Once
    <3>3. clients'[h][sessionOf[d]] \in {c, clients[h][sessionOf[d]]}
      BY <1>2, <1>5, <3>1 DEF TypeOK
    <3> QED
      BY <3>1, <3>2, <3>3
  <2> QED
    BY <1>3, <1>5, <2>1, <2>2, <2>3 DEF Wiring, Once
<1> QED
  BY <1>6, <1>7, <1>8, <1>9, <1>10 DEF Wiring

LEMMA FinishWiring ==
  ASSUME TypeOK, Wiring, NEW h \in Hubs, FinishRegister(h) \/ FinishUnregister(h)
  PROVE  Wiring'
<1>1. /\ busy' = [busy EXCEPT ![h] = Idle]
      /\ UNCHANGED <<hub, registerQ, unregisterQ, clients, phase, userOf, sessionOf, hubOf>>
  BY DEF FinishRegister, FinishUnregister, connVars
<1>2. Entered' /\ Queued' /\ Placed' /\ Once'
  BY <1>1 DEF Wiring, Entered, Queued, Placed, Once
<1>3. busy'[h] = Idle /\ \A k \in Hubs \ {h} : busy'[k] = busy[k]
  BY <1>1 DEF TypeOK
<1>4. Worked'
  BY <1>1, <1>3 DEF Wiring, Worked, Idle
<1> QED
  BY <1>2, <1>4 DEF Wiring

LEMMA TakeUnregisterWiring ==
  ASSUME TypeOK, Wiring, NEW h \in Hubs, TakeUnregister(h)
  PROVE  Wiring'
<1> DEFINE c == Head(unregisterQ[h])
<1>1. unregisterQ[h] \in Seq(Conns) /\ unregisterQ[h] # <<>>
  BY DEF TypeOK, TakeUnregister
<1>2. /\ c \in Conns /\ c \in Elements(unregisterQ[h]) /\ sessionOf[c] \in Sessions
      /\ Elements(Tail(unregisterQ[h])) \subseteq Elements(unregisterQ[h])
  BY <1>1, Taken DEF TypeOK
<1>3. hubOf[c] = h /\ phase[c] = "gone"
  BY <1>2 DEF Wiring, Queued
<1>4. /\ unregisterQ' = [unregisterQ EXCEPT ![h] = Tail(@)]
      /\ hub[h] = "up" /\ UNCHANGED <<hub, registerQ, phase, userOf, sessionOf, hubOf>>
      /\ \/ /\ clients' = [clients EXCEPT ![h][sessionOf[c]] = NoConn]
            /\ busy' = [busy EXCEPT ![h] = [op |-> "unregister", conn |-> c]]
         \/ UNCHANGED <<clients, busy>>
  BY DEF TakeUnregister, connVars
<1> HIDE DEF c
<1>5. Entered'
  BY <1>4 DEF Wiring, Entered
<1>6. Queued'
  <2>1. \A k \in Hubs : Elements(unregisterQ'[k]) \subseteq Elements(unregisterQ[k])
    BY <1>2, <1>4 DEF TypeOK
  <2> QED
    BY <1>4, <2>1 DEF Wiring, Queued
<1>7. CASE UNCHANGED <<clients, busy>>
  BY <1>4, <1>5, <1>6, <1>7 DEF Wiring, Placed, Worked, Once
<1>8. CASE /\ clients' = [clients EXCEPT ![h][sessionOf[c]] = NoConn]
           /\ busy' = [busy EXCEPT ![h] = [op |-> "unregister", conn |-> c]]
  <2>1. \A k \in Hubs, s \in Sessions : clients'[k][s] \in {NoConn, clients[k][s]}
    BY <1>2, <1>8 DEF TypeOK
  <2>2. Placed'
    BY <1>4, <2>1, NamesAssumption DEF Wiring, Placed
  <2>3. Once'
    <3>1. ASSUME NEW k \in Hubs, NEW d \in Conns, d \in Elements(registerQ[k])
          PROVE  clients'[k][sessionOf[d]] # d
      BY <2>1, <3>1, NamesAssumption DEF Wiring, Once, TypeOK
    <3> QED
      BY <1>4, <3>1 DEF Wiring, Once
  <2>4. Worked'
    <3>1. busy'[h] = [op |-> "unregister", conn |-> c] /\ clients'[h][sessionOf[c]] = NoConn
      BY <1>2, <1>8 DEF TypeOK
    <3>2. \A k \in Hubs \ {h} : busy'[k] = busy[k] /\ clients'[k] = clients[k]
      BY <1>8 DEF TypeOK
    <3> QED
      BY <1>2, <1>3, <1>4, <3>1, <3>2 DEF Wiring, Worked
  <2> QED
    BY <1>5, <1>6, <2>2, <2>3, <2>4 DEF Wiring
<1> QED
  BY <1>4, <1>7, <1>8

LEMMA StageWiring ==
  ASSUME TypeOK, Wiring, NEW h \in Hubs, Start(h) \/ BeginStop(h)
  PROVE  Wiring'
<1>1. /\ hub' = [hub EXCEPT ![h] = IF Start(h) THEN "up" ELSE "closing"]
      /\ Start(h) => hub[h] = "new"
      /\ ~Start(h) => busy[h] = Idle
      /\ UNCHANGED <<registerQ, unregisterQ, busy, clients, phase, userOf, sessionOf, hubOf>>
  BY DEF Start, BeginStop, connVars
<1>2. Queued' /\ Placed' /\ Once'
  BY <1>1 DEF Wiring, Queued, Placed, Once
<1>3. \A k \in Hubs : hub'[k] = hub[k] \/ (k = h /\ hub'[k] \in {"up", "closing"})
  BY <1>1 DEF TypeOK
<1>4. Entered'
  BY <1>1, <1>3 DEF Wiring, Entered
<1>5. busy[h] = Idle
  <2>1. CASE Start(h)
    BY <1>1, <2>1 DEF Wiring, Worked
  <2> QED
    BY <1>1, <2>1
<1>6. Worked'
  BY <1>1, <1>3, <1>5 DEF Wiring, Worked, Idle
<1> QED
  BY <1>2, <1>4, <1>6 DEF Wiring

LEMMA EndStopWiring ==
  ASSUME TypeOK, Wiring, NEW h \in Hubs, EndStop(h)
  PROVE  Wiring'
<1>1. /\ hub' = [hub EXCEPT ![h] = "stopped"] /\ hub[h] = "closing"
      /\ clients' = [clients EXCEPT ![h] = NoClients]
      /\ UNCHANGED <<registerQ, unregisterQ, busy, phase, userOf, sessionOf, hubOf>>
  BY DEF EndStop, connVars
<1>2. busy[h] = Idle
  BY <1>1 DEF Wiring, Worked
<1>3. \A k \in Hubs : hub'[k] = hub[k] \/ (k = h /\ hub'[k] = "stopped")
  BY <1>1 DEF TypeOK
<1>4. \A k \in Hubs, s \in Sessions : clients'[k][s] \in {NoConn, clients[k][s]}
  BY <1>1 DEF TypeOK, NoClients
<1>5. \A k \in Hubs \ {h} : clients'[k] = clients[k]
  BY <1>1 DEF TypeOK
<1>6. Entered' /\ Queued'
  BY <1>1, <1>3 DEF Wiring, Entered, Queued
<1>7. Placed'
  BY <1>1, <1>4, NamesAssumption DEF Wiring, Placed
<1>8. Once'
  <2>1. ASSUME NEW k \in Hubs, NEW d \in Conns, d \in Elements(registerQ[k])
        PROVE  clients'[k][sessionOf[d]] # d
    BY <1>4, <2>1, NamesAssumption DEF Wiring, Once, TypeOK
  <2> QED
    BY <1>1, <2>1 DEF Wiring, Once
<1>9. Worked'
  BY <1>1, <1>2, <1>3, <1>5 DEF Wiring, Worked, Idle
<1> QED
  BY <1>6, <1>7, <1>8, <1>9 DEF Wiring

LEMMA DieWiring ==
  ASSUME TypeOK, Wiring, NEW h \in Hubs, Die(h)
  PROVE  Wiring'
<1>1. /\ hub' = [hub EXCEPT ![h] = "dead"] /\ hub[h] # "new"
      /\ registerQ' = [registerQ EXCEPT ![h] = <<>>]
      /\ unregisterQ' = [unregisterQ EXCEPT ![h] = <<>>]
      /\ busy' = [busy EXCEPT ![h] = Idle]
      /\ clients' = [clients EXCEPT ![h] = NoClients]
      /\ phase' = [c \in Conns |-> IF hubOf[c] = h THEN "gone" ELSE phase[c]]
      /\ UNCHANGED <<userOf, sessionOf, hubOf>>
  BY DEF Die, Alive
<1>2. /\ hub'[h] = "dead" /\ registerQ'[h] = <<>> /\ unregisterQ'[h] = <<>>
      /\ busy'[h] = Idle /\ clients'[h] = NoClients
      /\ \A k \in Hubs \ {h} :
           /\ hub'[k] = hub[k] /\ registerQ'[k] = registerQ[k] /\ unregisterQ'[k] = unregisterQ[k]
           /\ busy'[k] = busy[k] /\ clients'[k] = clients[k]
      /\ \A c \in Conns : phase'[c] = IF hubOf[c] = h THEN "gone" ELSE phase[c]
  BY <1>1 DEF TypeOK
<1>3. Entered'
  <2> SUFFICES ASSUME NEW c \in Conns
               PROVE  /\ phase'[c] = "none" => userOf[c] = NoUser
                      /\ phase'[c] # "none" => userOf[c] \in Users
                      /\ phase'[c] \in {"none", "ticket"} => hubOf[c] = NoHub
                      /\ phase'[c] \notin {"none", "ticket"} =>
                           hubOf[c] \in Hubs /\ hub'[hubOf[c]] # "new"
    BY <1>1 DEF Entered
  <2>1. CASE hubOf[c] = h
    <3>1. phase[c] \notin {"none", "ticket"}
      BY <2>1, NamesAssumption DEF Wiring, Entered
    <3> QED
      BY <1>2, <2>1, <3>1 DEF Wiring, Entered
  <2>2. CASE hubOf[c] # h
    BY <1>2, <2>2 DEF Wiring, Entered
  <2> QED
    BY <2>1, <2>2
<1>4. Queued'
  <2> SUFFICES ASSUME NEW k \in Hubs, NEW c \in Conns
               PROVE  /\ c \in Elements(registerQ'[k]) =>
                           hubOf[c] = k /\ phase'[c] \in Registered
                      /\ c \in Elements(unregisterQ'[k]) => hubOf[c] = k /\ phase'[c] = "gone"
    BY <1>1 DEF Queued
  <2>1. CASE k = h
    BY <1>2, <2>1, EmptyQueue
  <2>2. CASE k # h
    BY <1>2, <2>2 DEF Wiring, Queued, Registered
  <2> QED
    BY <2>1, <2>2
<1>5. Placed'
  <2> SUFFICES ASSUME NEW k \in Hubs, NEW s \in Sessions, NEW c \in Conns, clients'[k][s] = c
               PROVE  hubOf[c] = k /\ sessionOf[c] = s /\ phase'[c] \in Registered
    BY <1>1 DEF Placed
  <2>1. k # h
    BY <1>2, NamesAssumption DEF NoClients
  <2> QED
    BY <1>2, <2>1 DEF Wiring, Placed
<1>6. Worked'
  <2> SUFFICES ASSUME NEW k \in Hubs \ {h}, busy[k] # Idle
               PROVE  /\ hub'[k] = "up" /\ busy'[k].op # "idle" /\ busy'[k].conn \in Conns
                      /\ busy'[k].op = "register" =>
                           clients'[k][sessionOf[busy'[k].conn]] = busy'[k].conn
                      /\ busy'[k].op = "unregister" =>
                           /\ hubOf[busy'[k].conn] = k /\ phase'[busy'[k].conn] = "gone"
                           /\ clients'[k][sessionOf[busy'[k].conn]] = NoConn
    BY <1>1, <1>2 DEF Worked, Idle
  <2>1. busy[k].conn \in Conns /\ hubOf[busy[k].conn] = k
    BY WorkerNames
  <2> QED
    BY <1>2, <2>1 DEF Wiring, Worked
<1>7. Once'
  <2>1. Distinct(registerQ'[h]) /\ Elements(registerQ'[h]) = {}
    BY <1>2, EmptyQueue
  <2> QED
    BY <1>1, <1>2, <2>1 DEF Wiring, Once
<1> QED
  BY <1>3, <1>4, <1>5, <1>6, <1>7 DEF Wiring

LEMMA TicketWiring ==
  ASSUME TypeOK, Wiring, NEW c \in Conns,
         (\E u \in Users, s \in Sessions : PrintTicket(c, u, s)) \/ (\E h \in Hubs : Accept(c, h))
  PROVE  Wiring'
<1>1. /\ phase[c] \in {"none", "ticket"}
      /\ UNCHANGED <<hub, registerQ, unregisterQ, busy, clients>>
      /\ \A d \in Conns \ {c} :
           /\ phase'[d] = phase[d] /\ userOf'[d] = userOf[d]
           /\ sessionOf'[d] = sessionOf[d] /\ hubOf'[d] = hubOf[d]
  <2>1. ASSUME NEW u, NEW s, PrintTicket(c, u, s)
        PROVE  /\ phase[c] \in {"none", "ticket"}
               /\ UNCHANGED <<hub, registerQ, unregisterQ, busy, clients>>
               /\ \A d \in Conns \ {c} :
                    /\ phase'[d] = phase[d] /\ userOf'[d] = userOf[d]
                    /\ sessionOf'[d] = sessionOf[d] /\ hubOf'[d] = hubOf[d]
    BY <2>1 DEF TypeOK, PrintTicket, hubVars
  <2>2. ASSUME NEW h, Accept(c, h)
        PROVE  /\ phase[c] \in {"none", "ticket"}
               /\ UNCHANGED <<hub, registerQ, unregisterQ, busy, clients>>
               /\ \A d \in Conns \ {c} :
                    /\ phase'[d] = phase[d] /\ userOf'[d] = userOf[d]
                    /\ sessionOf'[d] = sessionOf[d] /\ hubOf'[d] = hubOf[d]
    BY <2>2 DEF TypeOK, Accept, hubVars
  <2> QED
    BY <2>1, <2>2
<1>2. \A h \in Hubs :
        /\ c \notin Elements(registerQ[h]) /\ c \notin Elements(unregisterQ[h])
        /\ \A s \in Sessions : clients[h][s] # c
        /\ busy[h] # Idle => busy[h].conn # c
  BY <1>1, Unknown DEF Registered
<1>3. Queued'
  BY <1>1, <1>2 DEF Wiring, Queued
<1>4. Placed'
  BY <1>1, <1>2 DEF Wiring, Placed
<1>5. Once'
  BY <1>1, <1>2 DEF Wiring, Once
<1>6. Worked'
  BY <1>1, <1>2 DEF Wiring, Worked, Idle
<1>7. Entered'
  <2> SUFFICES ASSUME NEW d \in Conns
               PROVE  /\ phase'[d] = "none" => userOf'[d] = NoUser
                      /\ phase'[d] # "none" => userOf'[d] \in Users
                      /\ phase'[d] \in {"none", "ticket"} => hubOf'[d] = NoHub
                      /\ phase'[d] \notin {"none", "ticket"} =>
                           hubOf'[d] \in Hubs /\ hub'[hubOf'[d]] # "new"
    BY DEF Entered
  <2>1. CASE d # c
    BY <1>1, <2>1 DEF Wiring, Entered
  <2>2. ASSUME NEW u \in Users, NEW s \in Sessions, PrintTicket(c, u, s), d = c
        PROVE  phase'[d] = "ticket" /\ userOf'[d] = u /\ hubOf'[d] = NoHub
    BY <2>2 DEF TypeOK, PrintTicket, Wiring, Entered
  <2>3. ASSUME NEW h \in Hubs, Accept(c, h), d = c
        PROVE  phase'[d] = "accepted" /\ userOf'[d] \in Users /\ hubOf'[d] = h /\ hub'[h] # "new"
    BY <2>3 DEF TypeOK, Accept, hubVars, Alive, Wiring, Entered
  <2> QED
    BY <2>1, <2>2, <2>3
<1> QED
  BY <1>3, <1>4, <1>5, <1>6, <1>7 DEF Wiring

LEMMA PumpWiring ==
  ASSUME TypeOK, Wiring, NEW c \in Conns, Open(c) \/ ReaderEnds(c) \/ Leave(c)
  PROVE  Wiring'
<1>1. /\ phase[c] \in {"accepted", "open", "leaving"} /\ hubOf[c] \in Hubs
      /\ UNCHANGED <<hub, busy, clients, userOf, sessionOf, hubOf>>
  BY DEF Open, ReaderEnds, Leave, hubVars, Wiring, Entered
<1>2. \A d \in Conns \ {c} : phase'[d] = phase[d]
  BY DEF TypeOK, Open, ReaderEnds, Leave
<1>3. phase'[c] \in Registered
  BY DEF TypeOK, Open, ReaderEnds, Leave, Registered
<1>4. Entered'
  BY <1>1, <1>2, <1>3 DEF Wiring, Entered, Registered
<1>5. Placed'
  BY <1>1, <1>2, <1>3 DEF Wiring, Placed
<1>6. \A k \in Hubs : busy[k] # Idle /\ busy[k].op = "unregister" => busy[k].conn # c
  BY <1>1 DEF Wiring, Worked
<1>7. Worked'
  BY <1>1, <1>2, <1>6 DEF Wiring, Worked, Idle
<1>8. CASE Open(c)
  <2>1. registerQ' = [registerQ EXCEPT ![hubOf[c]] = Append(@, c)] /\ UNCHANGED unregisterQ
        /\ phase[c] = "accepted"
    BY <1>8 DEF Open
  <2>2. registerQ[hubOf[c]] \in Seq(Conns)
    BY <1>1 DEF TypeOK
  <2>3. \A k \in Hubs :
          /\ c \notin Elements(registerQ[k]) /\ c \notin Elements(unregisterQ[k])
          /\ \A s \in Sessions : clients[k][s] # c
    BY <2>1, Unknown DEF Registered
  <2>4. /\ registerQ'[hubOf[c]] = Append(registerQ[hubOf[c]], c)
        /\ \A k \in Hubs \ {hubOf[c]} : registerQ'[k] = registerQ[k]
    BY <1>1, <2>1 DEF TypeOK
  <2>5. Elements(registerQ'[hubOf[c]]) = Elements(registerQ[hubOf[c]]) \cup {c}
    BY <2>2, <2>4, Put
  <2>6. Distinct(registerQ'[hubOf[c]])
    BY <1>1, <2>2, <2>3, <2>4, DistinctQueues DEF Wiring, Once
  <2>7. Queued'
    <3>1. ASSUME NEW k \in Hubs, NEW d \in Conns, d \in Elements(registerQ'[k])
          PROVE  hubOf[d] = k /\ phase'[d] \in Registered
      <4>1. CASE d = c
        <5>1. k = hubOf[c]
          BY <2>3, <2>4, <3>1, <4>1
        <5> QED
          BY <1>3, <4>1, <5>1
      <4>2. CASE d # c
        <5>1. d \in Elements(registerQ[k])
          BY <2>4, <2>5, <3>1, <4>2
        <5> QED
          BY <1>2, <4>2, <5>1 DEF Wiring, Queued
      <4> QED
        BY <4>1, <4>2
    <3>2. ASSUME NEW k \in Hubs, NEW d \in Conns, d \in Elements(unregisterQ[k])
          PROVE  hubOf[d] = k /\ phase'[d] = "gone"
      BY <1>2, <2>3, <3>2 DEF Wiring, Queued
    <3> QED
      BY <1>1, <2>1, <3>1, <3>2 DEF Queued
  <2>8. Once'
    <3>1. ASSUME NEW k \in Hubs, NEW d \in Conns, d \in Elements(registerQ'[k])
          PROVE  clients[k][sessionOf[d]] # d
      <4>1. CASE d = c
        BY <2>3, <4>1 DEF TypeOK
      <4>2. CASE d # c
        BY <2>4, <2>5, <3>1, <4>2 DEF Wiring, Once
      <4> QED
        BY <4>1, <4>2
    <3>2. \A k \in Hubs : Distinct(registerQ'[k])
      BY <2>4, <2>6 DEF Wiring, Once
    <3> QED
      BY <1>1, <3>1, <3>2 DEF Once
  <2> QED
    BY <1>4, <1>5, <1>7, <2>7, <2>8 DEF Wiring
<1>9. CASE ReaderEnds(c)
  <2>1. UNCHANGED <<registerQ, unregisterQ>> /\ phase[c] = "open"
    BY <1>9 DEF ReaderEnds, hubVars
  <2>2. Queued'
    BY <1>1, <1>2, <1>3, <2>1 DEF Wiring, Queued
  <2>3. Once'
    BY <1>1, <2>1 DEF Wiring, Once
  <2> QED
    BY <1>4, <1>5, <1>7, <2>2, <2>3 DEF Wiring
<1>10. CASE Leave(c)
  <2>1. unregisterQ' = [unregisterQ EXCEPT ![hubOf[c]] = Append(@, c)] /\ UNCHANGED registerQ
        /\ phase[c] = "leaving" /\ phase'[c] = "gone"
    BY <1>10 DEF Leave, TypeOK
  <2>2. unregisterQ[hubOf[c]] \in Seq(Conns)
    BY <1>1 DEF TypeOK
  <2>3. /\ unregisterQ'[hubOf[c]] = Append(unregisterQ[hubOf[c]], c)
        /\ \A k \in Hubs \ {hubOf[c]} : unregisterQ'[k] = unregisterQ[k]
    BY <1>1, <2>1 DEF TypeOK
  <2>4. Elements(unregisterQ'[hubOf[c]]) = Elements(unregisterQ[hubOf[c]]) \cup {c}
    BY <2>2, <2>3, Put
  <2>5. Queued'
    <3>1. ASSUME NEW k \in Hubs, NEW d \in Conns, d \in Elements(unregisterQ'[k])
          PROVE  hubOf[d] = k /\ phase'[d] = "gone"
      <4>1. CASE d = c
        <5>1. c \notin Elements(unregisterQ[k])
          BY <2>1 DEF Wiring, Queued
        <5> QED
          BY <2>1, <2>3, <3>1, <4>1, <5>1
      <4>2. CASE d # c
        <5>1. d \in Elements(unregisterQ[k])
          BY <2>3, <2>4, <3>1, <4>2
        <5> QED
          BY <1>2, <4>2, <5>1 DEF Wiring, Queued
      <4> QED
        BY <4>1, <4>2
    <3>2. ASSUME NEW k \in Hubs, NEW d \in Conns, d \in Elements(registerQ[k])
          PROVE  hubOf[d] = k /\ phase'[d] \in Registered
      BY <1>2, <1>3, <3>2 DEF Wiring, Queued
    <3> QED
      BY <1>1, <2>1, <3>1, <3>2 DEF Queued
  <2>6. Once'
    BY <1>1, <2>1 DEF Wiring, Once
  <2> QED
    BY <1>4, <1>5, <1>7, <2>5, <2>6 DEF Wiring
<1> QED
  BY <1>8, <1>9, <1>10

\* The steps that leave the wiring alone
LEMMA OtherWiring ==
  ASSUME TypeOK, Wiring,
         \/ \E h \in Hubs : Subscribe(h) \/ WriteEvent(h)
         \/ \E c \in Conns : Close(c) \/ WriterFails(c) \/ Flush(c)
         \/ \E u \in Users : Expire(u)
         \/ \E x \in late : LateRuns(x)
         \/ \E p \in Publishers :
              \/ \E to \in Audiences, form \in {"only", "without"}, listed \in SUBSET Sessions :
                   ReadTargets(p, to, form, listed)
              \/ PublishBatch(p)
         \/ UNCHANGED vars
  PROVE  UNCHANGED <<hub, registerQ, unregisterQ, busy, clients, connVars>>
<1>1. ASSUME NEW h, Subscribe(h) \/ WriteEvent(h)
      PROVE  UNCHANGED <<hub, registerQ, unregisterQ, busy, clients, connVars>>
  BY <1>1 DEF Subscribe, WriteEvent, hubVars
<1>2. ASSUME NEW c, Close(c) \/ WriterFails(c) \/ Flush(c)
      PROVE  UNCHANGED <<hub, registerQ, unregisterQ, busy, clients, connVars>>
  BY <1>2 DEF Close, WriterFails, Flush, hubVars
<1>3. ASSUME NEW u, Expire(u)
      PROVE  UNCHANGED <<hub, registerQ, unregisterQ, busy, clients, connVars>>
  BY <1>3 DEF Expire, hubVars
<1>4. ASSUME NEW x, LateRuns(x)
      PROVE  UNCHANGED <<hub, registerQ, unregisterQ, busy, clients, connVars>>
  BY <1>4 DEF LateRuns, hubVars
<1>5. ASSUME NEW p, NEW to, NEW form, NEW listed, ReadTargets(p, to, form, listed)
      PROVE  UNCHANGED <<hub, registerQ, unregisterQ, busy, clients, connVars>>
  BY <1>5 DEF ReadTargets, hubVars
<1>6. ASSUME NEW p, PublishBatch(p)
      PROVE  UNCHANGED <<hub, registerQ, unregisterQ, busy, clients, connVars>>
  BY <1>6 DEF PublishBatch, hubVars
<1>7. CASE UNCHANGED vars
  BY <1>7 DEF vars, hubVars
<1> QED
  BY <1>1, <1>2, <1>3, <1>4, <1>5, <1>6, <1>7

LEMMA WiringStep ==
  ASSUME TypeOK, Wiring, [Next]_vars
  PROVE  Wiring'
<1>1. CASE UNCHANGED <<hub, registerQ, unregisterQ, busy, clients, connVars>>
  BY <1>1, WiringKept
<1>2. ASSUME NEW h \in Hubs, RunStep(h) \/ Start(h) \/ BeginStop(h) \/ EndStop(h) \/ Die(h)
      PROVE  Wiring'
  BY <1>2, TakeRegisterWiring, FinishWiring, TakeUnregisterWiring, StageWiring, EndStopWiring,
     DieWiring DEF RunStep
<1>3. ASSUME NEW c \in Conns,
             \/ \E u \in Users, s \in Sessions : PrintTicket(c, u, s)
             \/ \E h \in Hubs : Accept(c, h)
             \/ Open(c) \/ ReaderEnds(c) \/ Leave(c)
      PROVE  Wiring'
  BY <1>3, TicketWiring, PumpWiring
<1> QED
  BY <1>1, <1>2, <1>3, OtherWiring DEF Next

-----------------------------------------------------------------------------
(***************************************************************************)
(* What the steps of a hub do to its maps and queues, one element at a     *)
(* time.                                                                   *)
(***************************************************************************)
Registering(h, c) ==
  /\ c \in Elements(registerQ[h]) /\ hubOf[c] = h /\ phase[c] \in Registered
  /\ sessionOf[c] \in Sessions /\ userOf[c] \in Users
  /\ hub[h] = "up" /\ busy[h] = Idle
  /\ busy'[h] = [op |-> "register", conn |-> c]
  /\ \A k \in Hubs \ {h} : busy'[k] = busy[k]
  /\ clients[h][sessionOf[c]] # c /\ clients'[h][sessionOf[c]] = c
  /\ \A k \in Hubs, s \in Sessions :
       k # h \/ s # sessionOf[c] => clients'[k][s] = clients[k][s]
  /\ \A k \in Hubs : Elements(registerQ[k]) \subseteq Elements(registerQ'[k]) \cup {c}
  /\ \A k \in Hubs : Elements(registerQ'[k]) \subseteq Elements(registerQ[k])
  /\ closed' = closed \cup ({clients[h][sessionOf[c]]} \ {NoConn})
  /\ cutOff' = cutOff \ ({clients[h][sessionOf[c]]} \ {NoConn})
  /\ early' = early \ ({clients[h][sessionOf[c]]} \ {NoConn})
  /\ leaked \subseteq leaked'
  /\ LET d == clients[h][sessionOf[c]]
     IN d # NoConn /\ userOf[d] # userOf[c] => <<userOf[d], sessionOf[c], h>> \in leaked'
  /\ UNCHANGED <<hub, unregisterQ, phase, userOf, sessionOf, hubOf, owner, present,
                 late, inbox, send, got, pending, log>>

LEMMA TakeRegisterEffect ==
  ASSUME TypeOK, Wiring, NEW h \in Hubs, TakeRegister(h)
  PROVE  \E c \in Conns : Registering(h, c)
<1> DEFINE c == Head(registerQ[h])
<1>1. registerQ[h] \in Seq(Conns) /\ registerQ[h] # <<>>
  BY DEF TypeOK, TakeRegister
<1>2. /\ c \in Conns /\ c \in Elements(registerQ[h]) /\ sessionOf[c] \in Sessions
      /\ Elements(Tail(registerQ[h])) \subseteq Elements(registerQ[h])
      /\ Elements(registerQ[h]) \subseteq Elements(Tail(registerQ[h])) \cup {c}
  BY <1>1, Taken DEF TypeOK
<1>3. hubOf[c] = h /\ phase[c] \in Registered /\ userOf[c] \in Users
  BY <1>2 DEF Wiring, Queued, Entered, Registered
<1>4. clients[h][sessionOf[c]] # c
  BY <1>2 DEF Wiring, Once
<1>5. /\ clients' = [clients EXCEPT ![h][sessionOf[c]] = c]
      /\ busy' = [busy EXCEPT ![h] = [op |-> "register", conn |-> c]]
      /\ registerQ' = [registerQ EXCEPT ![h] = Tail(@)]
      /\ hub[h] = "up" /\ busy[h] = Idle
      /\ UNCHANGED <<hub, unregisterQ, phase, userOf, sessionOf, hubOf, owner, present,
                     late, inbox, send, got, pending, log>>
  BY DEF TakeRegister, connVars, redisVars, messageVars
<1>6. /\ closed' = closed \cup ({clients[h][sessionOf[c]]} \ {NoConn})
      /\ cutOff' = cutOff \ ({clients[h][sessionOf[c]]} \ {NoConn})
      /\ early' = early \ ({clients[h][sessionOf[c]]} \ {NoConn})
      /\ leaked \subseteq leaked'
      /\ LET d == clients[h][sessionOf[c]]
         IN d # NoConn /\ userOf[d] # userOf[c] => <<userOf[d], sessionOf[c], h>> \in leaked'
  BY DEF TakeRegister, Replaced
<1> HIDE DEF c
<1>7. /\ busy'[h] = [op |-> "register", conn |-> c]
      /\ \A k \in Hubs \ {h} : busy'[k] = busy[k]
  BY <1>5 DEF TypeOK
<1>8. /\ clients'[h][sessionOf[c]] = c
      /\ \A k \in Hubs, s \in Sessions :
           k # h \/ s # sessionOf[c] => clients'[k][s] = clients[k][s]
  BY <1>2, <1>5 DEF TypeOK
<1>9. /\ registerQ'[h] = Tail(registerQ[h])
      /\ \A k \in Hubs \ {h} : registerQ'[k] = registerQ[k]
  BY <1>5 DEF TypeOK
<1>10. \A k \in Hubs : /\ Elements(registerQ[k]) \subseteq Elements(registerQ'[k]) \cup {c}
                       /\ Elements(registerQ'[k]) \subseteq Elements(registerQ[k])
  BY <1>2, <1>9
<1> QED
  BY <1>2, <1>3, <1>4, <1>5, <1>6, <1>7, <1>8, <1>10 DEF Registering

Unregistering(h, c) ==
  /\ hubOf[c] = h /\ phase[c] = "gone" /\ sessionOf[c] \in Sessions
  /\ userOf[c] \in Users /\ hub[h] = "up" /\ busy[h] = Idle
  /\ \A k \in Hubs : Elements(unregisterQ[k]) \subseteq Elements(unregisterQ'[k]) \cup {c}
  /\ \/ /\ clients[h][sessionOf[c]] = c /\ clients'[h][sessionOf[c]] = NoConn
        /\ \A k \in Hubs, s \in Sessions :
             k # h \/ s # sessionOf[c] => clients'[k][s] = clients[k][s]
        /\ busy'[h] = [op |-> "unregister", conn |-> c]
        /\ \A k \in Hubs \ {h} : busy'[k] = busy[k]
        /\ cutOff' = cutOff \ {c}
        /\ UNCHANGED early
     \/ /\ clients[h][sessionOf[c]] # c
        /\ c \in Elements(registerQ[h]) => c \in early'
        /\ early \subseteq early'
        /\ UNCHANGED <<clients, busy, cutOff>>
  /\ UNCHANGED <<hub, registerQ, phase, userOf, sessionOf, hubOf, closed, owner, present,
                 late, inbox, send, got, pending, log, leaked>>

LEMMA TakeUnregisterEffect ==
  ASSUME TypeOK, Wiring, NEW h \in Hubs, TakeUnregister(h)
  PROVE  \E c \in Conns : Unregistering(h, c)
<1> DEFINE c == Head(unregisterQ[h])
<1>1. unregisterQ[h] \in Seq(Conns) /\ unregisterQ[h] # <<>>
  BY DEF TypeOK, TakeUnregister
<1>2. /\ c \in Conns /\ c \in Elements(unregisterQ[h]) /\ sessionOf[c] \in Sessions
      /\ Elements(unregisterQ[h]) \subseteq Elements(Tail(unregisterQ[h])) \cup {c}
  BY <1>1, Taken DEF TypeOK
<1>3. hubOf[c] = h /\ phase[c] = "gone" /\ userOf[c] \in Users
  BY <1>2 DEF Wiring, Queued, Entered
<1>4. /\ unregisterQ' = [unregisterQ EXCEPT ![h] = Tail(@)]
      /\ hub[h] = "up" /\ busy[h] = Idle
      /\ UNCHANGED <<hub, registerQ, phase, userOf, sessionOf, hubOf, closed, owner, present,
                     late, inbox, send, got, pending, log, leaked>>
  BY DEF TakeUnregister, connVars, redisVars, messageVars
<1>5. \/ /\ clients[h][sessionOf[c]] = c
         /\ clients' = [clients EXCEPT ![h][sessionOf[c]] = NoConn]
         /\ busy' = [busy EXCEPT ![h] = [op |-> "unregister", conn |-> c]]
         /\ cutOff' = cutOff \ {c}
         /\ UNCHANGED early
      \/ /\ clients[h][sessionOf[c]] # c
         /\ early' = IF c \in Elements(registerQ[h]) THEN early \cup {c} ELSE early
         /\ UNCHANGED <<clients, busy, cutOff>>
  BY DEF TakeUnregister, IsCurrent
<1> HIDE DEF c
<1>6. unregisterQ'[h] = Tail(unregisterQ[h]) /\ \A k \in Hubs \ {h} : unregisterQ'[k] = unregisterQ[k]
  BY <1>4 DEF TypeOK
<1>7. \A k \in Hubs : Elements(unregisterQ[k]) \subseteq Elements(unregisterQ'[k]) \cup {c}
  BY <1>2, <1>6
<1>8. CASE /\ clients[h][sessionOf[c]] = c
           /\ clients' = [clients EXCEPT ![h][sessionOf[c]] = NoConn]
           /\ busy' = [busy EXCEPT ![h] = [op |-> "unregister", conn |-> c]]
           /\ cutOff' = cutOff \ {c}
           /\ UNCHANGED early
  <2>1. /\ clients'[h][sessionOf[c]] = NoConn
        /\ \A k \in Hubs, s \in Sessions :
             k # h \/ s # sessionOf[c] => clients'[k][s] = clients[k][s]
    BY <1>2, <1>8 DEF TypeOK
  <2>2. /\ busy'[h] = [op |-> "unregister", conn |-> c]
        /\ \A k \in Hubs \ {h} : busy'[k] = busy[k]
    BY <1>8 DEF TypeOK
  <2> QED
    BY <1>2, <1>3, <1>4, <1>7, <1>8, <2>1, <2>2 DEF Unregistering
<1>9. CASE /\ clients[h][sessionOf[c]] # c
           /\ early' = IF c \in Elements(registerQ[h]) THEN early \cup {c} ELSE early
           /\ UNCHANGED <<clients, busy, cutOff>>
  <2>1. c \in Elements(registerQ[h]) => c \in early'
    BY <1>9
  <2>2. early \subseteq early'
    BY <1>9
  <2> QED
    BY <1>2, <1>3, <1>4, <1>7, <1>9, <2>1, <2>2 DEF Unregistering
<1> QED
  BY <1>5, <1>8, <1>9

\* The end of a hub or of its process: no other hub and no connection of another is touched.
LEMMA EndEffect ==
  ASSUME TypeOK, Wiring, NEW h \in Hubs, EndStop(h) \/ Die(h)
  PROVE  /\ hub'[h] \in {"stopped", "dead"} /\ \A s \in Sessions : clients'[h][s] = NoConn
         /\ inbox'[h] = <<>>
         /\ busy'[h] = Idle /\ Elements(registerQ'[h]) \subseteq Elements(registerQ[h])
         /\ \A k \in Hubs \ {h} :
              /\ hub'[k] = hub[k] /\ clients'[k] = clients[k] /\ inbox'[k] = inbox[k]
              /\ busy'[k] = busy[k] /\ registerQ'[k] = registerQ[k]
              /\ unregisterQ'[k] = unregisterQ[k]
         /\ \A c \in Conns :
              /\ hubOf[c] # h => /\ phase'[c] = phase[c] /\ send'[c] = send[c] /\ got'[c] = got[c]
                                 /\ c \in cutOff <=> c \in cutOff'
                                 /\ c \in early <=> c \in early'
              /\ hubOf[c] = h => /\ phase'[c] \in {phase[c], "gone"}
                                 /\ \/ send'[c] = send[c] /\ got'[c] = got[c]
                                    \/ send'[c] = <<>> /\ got'[c] = <<>>
              /\ c \in closed => c \in closed'
         /\ leaked' = leaked \cup RoutesOf(h)
         /\ UNCHANGED <<userOf, sessionOf, hubOf, owner, present, late, pending, log, again>>
<1>1. CASE EndStop(h)
  <2>1. /\ hub' = [hub EXCEPT ![h] = "stopped"] /\ hub[h] = "closing"
        /\ clients' = [clients EXCEPT ![h] = NoClients]
        /\ inbox' = [inbox EXCEPT ![h] = <<>>]
        /\ closed' = closed \cup ({clients[h][s] : s \in Sessions} \ {NoConn})
        /\ cutOff' = cutOff \ ({clients[h][s] : s \in Sessions} \ {NoConn})
        /\ early' = early \ ({clients[h][s] : s \in Sessions} \ {NoConn})
        /\ leaked' = leaked \cup RoutesOf(h)
        /\ UNCHANGED <<registerQ, unregisterQ, busy, phase, userOf, sessionOf, hubOf, owner,
                       present, late, send, got, pending, log, again>>
    BY <1>1 DEF EndStop, connVars, redisVars
  <2>2. busy[h] = Idle
    BY <2>1 DEF Wiring, Worked
  <2>3. \A c \in Conns : hubOf[c] # h => c \notin {clients[h][s] : s \in Sessions}
    BY DEF Wiring, Placed
  <2>4. /\ hub'[h] = "stopped" /\ clients'[h] = NoClients /\ inbox'[h] = <<>>
        /\ \A k \in Hubs \ {h} :
             hub'[k] = hub[k] /\ clients'[k] = clients[k] /\ inbox'[k] = inbox[k]
    BY <2>1 DEF TypeOK
  <2>5. \A c \in Conns : hubOf[c] # h => /\ c \in cutOff <=> c \in cutOff'
                                         /\ c \in early <=> c \in early'
    BY <2>1, <2>3
  <2> QED
    BY <2>1, <2>2, <2>4, <2>5 DEF NoClients
<1>2. CASE Die(h)
  <2>1. /\ hub' = [hub EXCEPT ![h] = "dead"]
        /\ registerQ' = [registerQ EXCEPT ![h] = <<>>]
        /\ unregisterQ' = [unregisterQ EXCEPT ![h] = <<>>]
        /\ busy' = [busy EXCEPT ![h] = Idle]
        /\ clients' = [clients EXCEPT ![h] = NoClients]
        /\ inbox' = [inbox EXCEPT ![h] = <<>>]
        /\ phase' = [c \in Conns |-> IF hubOf[c] = h THEN "gone" ELSE phase[c]]
        /\ send' = [c \in Conns |-> IF hubOf[c] = h THEN <<>> ELSE send[c]]
        /\ got' = [c \in Conns |-> IF hubOf[c] = h THEN <<>> ELSE got[c]]
        /\ closed' = closed \cup {c \in Conns : hubOf[c] = h}
        /\ leaked' = leaked \cup RoutesOf(h)
        /\ cutOff' = {c \in cutOff : hubOf[c] # h}
        /\ early' = {c \in early : hubOf[c] # h}
        /\ UNCHANGED <<userOf, sessionOf, hubOf, owner, present, late, pending, log, again>>
    BY <1>2 DEF Die, redisVars
  <2>2. /\ hub'[h] = "dead" /\ clients'[h] = NoClients /\ inbox'[h] = <<>> /\ busy'[h] = Idle
        /\ registerQ'[h] = <<>>
        /\ \A k \in Hubs \ {h} :
              /\ hub'[k] = hub[k] /\ clients'[k] = clients[k] /\ inbox'[k] = inbox[k]
              /\ busy'[k] = busy[k] /\ registerQ'[k] = registerQ[k]
              /\ unregisterQ'[k] = unregisterQ[k]
    BY <2>1 DEF TypeOK
  <2>3. Elements(registerQ'[h]) \subseteq Elements(registerQ[h])
    BY <2>2, EmptyQueue
  <2>4. \A c \in Conns :
          /\ hubOf[c] # h => /\ phase'[c] = phase[c] /\ send'[c] = send[c] /\ got'[c] = got[c]
                             /\ c \in cutOff <=> c \in cutOff'
                             /\ c \in early <=> c \in early'
          /\ hubOf[c] = h => /\ phase'[c] \in {phase[c], "gone"}
                             /\ \/ send'[c] = send[c] /\ got'[c] = got[c]
                                \/ send'[c] = <<>> /\ got'[c] = <<>>
          /\ c \in closed => c \in closed'
    BY <2>1
  <2> QED
    BY <2>1, <2>2, <2>3, <2>4 DEF NoClients
<1> QED
  BY <1>1, <1>2

\* A connection before its register
LEMMA TicketEffect ==
  ASSUME TypeOK, Wiring, NEW c \in Conns,
         (\E u \in Users, s \in Sessions : PrintTicket(c, u, s)) \/ (\E h \in Hubs : Accept(c, h))
  PROVE  /\ phase[c] \in {"none", "ticket"} /\ phase'[c] \in {"ticket", "accepted"}
         /\ phase[c] # "none" => userOf'[c] = userOf[c] /\ sessionOf'[c] = sessionOf[c]
         /\ \A d \in Conns \ {c} :
              /\ phase'[d] = phase[d] /\ userOf'[d] = userOf[d]
              /\ sessionOf'[d] = sessionOf[d] /\ hubOf'[d] = hubOf[d]
         /\ \A h \in Hubs :
              /\ c \notin Elements(registerQ[h]) /\ c \notin Elements(unregisterQ[h])
              /\ \A s \in Sessions : clients[h][s] # c
              /\ busy[h] # Idle => busy[h].conn # c
         /\ UNCHANGED <<hub, registerQ, unregisterQ, busy, clients, closed, owner, present, late,
                        inbox, send, got, pending, log, cutOff, early, leaked>>
<1>1. ASSUME NEW u, NEW s, PrintTicket(c, u, s)
      PROVE  /\ phase[c] = "none" /\ phase'[c] = "ticket"
             /\ \A d \in Conns \ {c} :
                  /\ phase'[d] = phase[d] /\ userOf'[d] = userOf[d]
                  /\ sessionOf'[d] = sessionOf[d] /\ hubOf'[d] = hubOf[d]
             /\ UNCHANGED <<hub, registerQ, unregisterQ, busy, clients, closed, owner, present,
                            late, inbox, send, got, pending, log, cutOff, early, leaked>>
  BY <1>1 DEF TypeOK, PrintTicket, hubVars, redisVars, messageVars, historyVars
<1>2. ASSUME NEW h, Accept(c, h)
      PROVE  /\ phase[c] = "ticket" /\ phase'[c] = "accepted"
             /\ UNCHANGED <<userOf, sessionOf>>
             /\ \A d \in Conns \ {c} :
                  /\ phase'[d] = phase[d] /\ hubOf'[d] = hubOf[d]
             /\ UNCHANGED <<hub, registerQ, unregisterQ, busy, clients, closed, owner, present,
                            late, inbox, send, got, pending, log, cutOff, early, leaked>>
  BY <1>2 DEF TypeOK, Accept, hubVars, redisVars, messageVars, historyVars
<1>3. phase[c] \notin Registered
  BY <1>1, <1>2 DEF Registered
<1>4. \A h \in Hubs :
        /\ c \notin Elements(registerQ[h]) /\ c \notin Elements(unregisterQ[h])
        /\ \A s \in Sessions : clients[h][s] # c
        /\ busy[h] # Idle => busy[h].conn # c
  BY <1>3, Unknown
<1> QED
  BY <1>1, <1>2, <1>4

\* A connection from its register to its unregister
LEMMA PumpEffect ==
  ASSUME TypeOK, Wiring, NEW c \in Conns, Open(c) \/ ReaderEnds(c) \/ Leave(c)
  PROVE  /\ hubOf[c] \in Hubs /\ phase[c] # "none" /\ phase'[c] \in Registered
         /\ \A d \in Conns \ {c} :
              /\ phase'[d] = phase[d] /\ send'[d] = send[d] /\ got'[d] = got[d]
              /\ d \in closed => d \in closed'
         /\ \/ send'[c] = send[c] /\ got'[c] = got[c]
            \/ send'[c] = <<>> /\ got'[c] = <<>>
         /\ \A k \in Hubs : Elements(registerQ[k]) \subseteq Elements(registerQ'[k])
         /\ \A k \in Hubs : Elements(registerQ'[k]) \subseteq Elements(registerQ[k]) \cup {c}
         /\ \A k \in Hubs : Elements(unregisterQ[k]) \subseteq Elements(unregisterQ'[k])
         /\ \/ /\ phase'[c] = "open" /\ c \in Elements(registerQ'[hubOf[c]])
               /\ \A k \in Hubs, s \in Sessions : clients[k][s] # c
            \/ phase'[c] = "leaving" /\ UNCHANGED registerQ
            \/ phase'[c] = "gone" /\ c \in Elements(unregisterQ'[hubOf[c]]) /\ UNCHANGED registerQ
         /\ UNCHANGED <<hub, busy, clients, userOf, sessionOf, hubOf, owner, present, late,
                        inbox, pending, log, cutOff, early, leaked>>
<1>1. /\ hubOf[c] \in Hubs /\ phase[c] # "none"
      /\ UNCHANGED <<hub, busy, clients, userOf, sessionOf, hubOf, owner, present, late,
                     inbox, pending, log, cutOff, early, leaked>>
  BY DEF Open, ReaderEnds, Leave, Wiring, Entered, hubVars, redisVars, messageVars, historyVars
<1>2. CASE Open(c)
  <2>1. /\ registerQ' = [registerQ EXCEPT ![hubOf[c]] = Append(@, c)]
        /\ phase' = [phase EXCEPT ![c] = "open"] /\ phase[c] = "accepted"
        /\ UNCHANGED <<unregisterQ, closed, send, got>>
    BY <1>2 DEF Open, messageVars
  <2>2. /\ registerQ'[hubOf[c]] = Append(registerQ[hubOf[c]], c)
        /\ registerQ[hubOf[c]] \in Seq(Conns)
        /\ \A k \in Hubs \ {hubOf[c]} : registerQ'[k] = registerQ[k]
    BY <1>1, <2>1 DEF TypeOK
  <2>3. Elements(registerQ'[hubOf[c]]) = Elements(registerQ[hubOf[c]]) \cup {c}
    BY <2>2, Put
  <2>4. \A k \in Hubs, s \in Sessions : clients[k][s] # c
    BY <2>1, Unknown DEF Registered
  <2>5. phase'[c] = "open" /\ \A d \in Conns \ {c} : phase'[d] = phase[d]
    BY <2>1 DEF TypeOK
  <2>6. \A k \in Hubs : /\ Elements(registerQ[k]) \subseteq Elements(registerQ'[k])
                        /\ Elements(registerQ'[k]) \subseteq Elements(registerQ[k]) \cup {c}
    BY <2>2, <2>3
  <2> QED
    BY <1>1, <2>1, <2>3, <2>4, <2>5, <2>6 DEF Registered
<1>3. CASE ReaderEnds(c)
  <2>1. /\ phase' = [phase EXCEPT ![c] = "leaving"]
        /\ UNCHANGED <<registerQ, unregisterQ, closed, send, got>>
    BY <1>3 DEF ReaderEnds, hubVars, messageVars
  <2>2. phase'[c] = "leaving" /\ \A d \in Conns \ {c} : phase'[d] = phase[d]
    BY <2>1 DEF TypeOK
  <2> QED
    BY <1>1, <2>1, <2>2 DEF Registered
<1>4. CASE Leave(c)
  <2>1. /\ unregisterQ' = [unregisterQ EXCEPT ![hubOf[c]] = Append(@, c)]
        /\ phase' = [phase EXCEPT ![c] = "gone"]
        /\ closed' = closed \cup {c}
        /\ send' = [send EXCEPT ![c] = <<>>] /\ got' = [got EXCEPT ![c] = <<>>]
        /\ UNCHANGED registerQ
    BY <1>4 DEF Leave
  <2>2. /\ unregisterQ'[hubOf[c]] = Append(unregisterQ[hubOf[c]], c)
        /\ unregisterQ[hubOf[c]] \in Seq(Conns)
        /\ \A k \in Hubs \ {hubOf[c]} : unregisterQ'[k] = unregisterQ[k]
    BY <1>1, <2>1 DEF TypeOK
  <2>3. Elements(unregisterQ'[hubOf[c]]) = Elements(unregisterQ[hubOf[c]]) \cup {c}
    BY <2>2, Put
  <2>4. /\ phase'[c] = "gone" /\ send'[c] = <<>> /\ got'[c] = <<>>
        /\ \A d \in Conns \ {c} : phase'[d] = phase[d] /\ send'[d] = send[d] /\ got'[d] = got[d]
    BY <2>1 DEF TypeOK
  <2>5. \A k \in Hubs : Elements(unregisterQ[k]) \subseteq Elements(unregisterQ'[k])
    BY <2>2, <2>3
  <2> QED
    BY <1>1, <2>1, <2>3, <2>4, <2>5 DEF Registered
<1> QED
  BY <1>2, <1>3, <1>4

\* The rest
LEMMA OtherClosed ==
  ASSUME \/ \E h \in Hubs : Subscribe(h) \/ WriteEvent(h)
         \/ \E c \in Conns : Close(c) \/ WriterFails(c) \/ Flush(c)
         \/ \E u \in Users : Expire(u)
         \/ \E x \in late : LateRuns(x)
         \/ \E p \in Publishers :
              \/ \E to \in Audiences, form \in {"only", "without"}, listed \in SUBSET Sessions :
                   ReadTargets(p, to, form, listed)
              \/ PublishBatch(p)
         \/ UNCHANGED vars
  PROVE  closed \subseteq closed' /\ UNCHANGED early
<1>1. ASSUME NEW h, Subscribe(h) \/ WriteEvent(h)
      PROVE  closed \subseteq closed' /\ UNCHANGED early
  BY <1>1 DEF Subscribe, WriteEvent, historyVars
<1>2. ASSUME NEW c, Close(c) \/ WriterFails(c) \/ Flush(c)
      PROVE  closed \subseteq closed' /\ UNCHANGED early
  BY <1>2 DEF Close, WriterFails, Flush, historyVars
<1>3. ASSUME NEW u, Expire(u)
      PROVE  closed \subseteq closed' /\ UNCHANGED early
  BY <1>3 DEF Expire
<1>4. ASSUME NEW x, LateRuns(x)
      PROVE  closed \subseteq closed' /\ UNCHANGED early
  BY <1>4 DEF LateRuns
<1>5. ASSUME NEW p, NEW to, NEW form, NEW listed, ReadTargets(p, to, form, listed)
      PROVE  closed \subseteq closed' /\ UNCHANGED early
  BY <1>5 DEF ReadTargets, historyVars
<1>6. ASSUME NEW p, PublishBatch(p)
      PROVE  closed \subseteq closed' /\ UNCHANGED early
  BY <1>6 DEF PublishBatch, historyVars
<1>7. CASE UNCHANGED vars
  BY <1>7 DEF vars, historyVars
<1> QED
  BY <1>1, <1>2, <1>3, <1>4, <1>5, <1>6, <1>7

LEMMA OtherHistory ==
  ASSUME \/ \E h \in Hubs : Subscribe(h) \/ WriteEvent(h)
         \/ \E c \in Conns : Close(c) \/ WriterFails(c) \/ Flush(c)
         \/ \E p \in Publishers :
              \/ \E to \in Audiences, form \in {"only", "without"}, listed \in SUBSET Sessions :
                   ReadTargets(p, to, form, listed)
              \/ PublishBatch(p)
         \/ UNCHANGED vars
  PROVE  UNCHANGED <<owner, cutOff, leaked>>
<1>1. ASSUME NEW h, Subscribe(h) \/ WriteEvent(h)
      PROVE  UNCHANGED <<owner, cutOff, leaked>>
  BY <1>1 DEF Subscribe, WriteEvent, redisVars, historyVars
<1>2. ASSUME NEW c, Close(c) \/ WriterFails(c) \/ Flush(c)
      PROVE  UNCHANGED <<owner, cutOff, leaked>>
  BY <1>2 DEF Close, WriterFails, Flush, redisVars, historyVars
<1>3. ASSUME NEW p, NEW to, NEW form, NEW listed, ReadTargets(p, to, form, listed)
      PROVE  UNCHANGED <<owner, cutOff, leaked>>
  BY <1>3 DEF ReadTargets, redisVars, historyVars
<1>4. ASSUME NEW p, PublishBatch(p)
      PROVE  UNCHANGED <<owner, cutOff, leaked>>
  BY <1>4 DEF PublishBatch, redisVars, historyVars
<1>5. CASE UNCHANGED vars
  BY <1>5 DEF vars, redisVars, historyVars
<1> QED
  BY <1>1, <1>2, <1>3, <1>4, <1>5
-----------------------------------------------------------------------------
(***************************************************************************)
(* Every step keeps the connections that live in their hub's map.          *)
(***************************************************************************)
Live(c) == phase[c] = "open" /\ c \notin closed /\ hub[hubOf[c]] = "up"
Known(c) == c \in Elements(registerQ[hubOf[c]]) \/ Mapped(c)

LEMMA LiveStep ==
  ASSUME TypeOK, Wiring, LiveIsMapped, [Next]_vars
  PROVE  LiveIsMapped'
<1> USE DEF Live, Known
<1> SUFFICES ASSUME NEW c \in Conns, Live(c)'
             PROVE  Known(c)'
  BY DEF LiveIsMapped
<1>1. Live(c) => Known(c)
  BY DEF LiveIsMapped
<1>2. phase[c] = "open" => hubOf[c] \in Hubs /\ hub[hubOf[c]] # "new"
  BY DEF Wiring, Entered
<1>3. sessionOf[c] \in Sessions
  BY DEF TypeOK
<1>4. ASSUME NEW h \in Hubs, TakeRegister(h)
      PROVE  Known(c)'
  <2>1. PICK d \in Conns : Registering(h, d)
    BY <1>4, TakeRegisterEffect
  <2>2. Live(c) /\ hubOf[c] \in Hubs /\ UNCHANGED <<hubOf, sessionOf>>
    BY <1>2, <2>1 DEF Registering
  <2>3. CASE c = d
    BY <2>1, <2>2, <2>3 DEF Registering, Mapped
  <2>4. CASE c # d /\ c \in Elements(registerQ[hubOf[c]])
    BY <2>1, <2>2, <2>4 DEF Registering
  <2>5. CASE c # d /\ Mapped(c)
    <3>1. c # clients[h][sessionOf[d]]
      BY <2>1, NamesAssumption DEF Registering
    <3>2. clients'[hubOf[c]][sessionOf[c]] = clients[hubOf[c]][sessionOf[c]]
      BY <1>3, <2>1, <2>2, <2>5, <3>1 DEF Registering, Mapped
    <3> QED
      BY <2>2, <2>5, <3>2 DEF Mapped
  <2> QED
    BY <1>1, <2>2, <2>3, <2>4, <2>5
<1>5. ASSUME NEW h \in Hubs, TakeUnregister(h)
      PROVE  Known(c)'
  <2>1. PICK d \in Conns : Unregistering(h, d)
    BY <1>5, TakeUnregisterEffect
  <2>2. /\ Live(c) /\ hubOf[c] \in Hubs /\ UNCHANGED <<hubOf, sessionOf, registerQ>>
        /\ c # d
    BY <1>2, <2>1 DEF Unregistering
  <2>3. Mapped(c) => clients'[hubOf[c]][sessionOf[c]] = clients[hubOf[c]][sessionOf[c]]
    BY <1>3, <2>1, <2>2 DEF Unregistering, Mapped
  <2> QED
    BY <1>1, <2>2, <2>3 DEF Mapped
<1>6. ASSUME NEW h \in Hubs, EndStop(h) \/ Die(h)
      PROVE  Known(c)'
  <2>1. hubOf[c] # h /\ Live(c)
    BY <1>2, <1>6, EndEffect
  <2> QED
    BY <1>1, <1>2, <1>6, <2>1, EndEffect DEF Mapped
<1>7. ASSUME NEW h \in Hubs, Start(h) \/ BeginStop(h)
      PROVE  Known(c)'
  <2>1. /\ hub' = [hub EXCEPT ![h] = IF Start(h) THEN "up" ELSE "closing"]
        /\ Start(h) => hub[h] = "new"
        /\ UNCHANGED <<registerQ, clients, phase, sessionOf, hubOf, closed>>
    BY <1>7 DEF Start, BeginStop, connVars
  <2>2. Live(c)
    BY <1>2, <2>1 DEF TypeOK
  <2> QED
    BY <1>1, <2>1, <2>2 DEF Mapped
<1>8. ASSUME NEW d \in Conns,
             \/ \E u \in Users, s \in Sessions : PrintTicket(d, u, s)
             \/ \E h \in Hubs : Accept(d, h)
      PROVE  Known(c)'
  BY <1>1, <1>8, TicketEffect DEF Mapped
<1>9. ASSUME NEW d \in Conns, Open(d) \/ ReaderEnds(d) \/ Leave(d)
      PROVE  Known(c)'
  <2>1. CASE c = d
    BY <1>9, <2>1, PumpEffect
  <2>2. CASE c # d
    <3>1. Live(c) /\ hubOf[c] \in Hubs
      BY <1>2, <1>9, <2>2, PumpEffect
    <3> QED
      BY <1>1, <1>9, <3>1, PumpEffect DEF Mapped
  <2> QED
    BY <2>1, <2>2
<1>10. ASSUME UNCHANGED <<hub, registerQ, clients, phase, sessionOf, hubOf>>, closed \subseteq closed'
       PROVE  Known(c)'
  BY <1>1, <1>10 DEF Mapped
<1>11. ASSUME NEW h \in Hubs, FinishRegister(h) \/ FinishUnregister(h)
       PROVE  Known(c)'
  <2>1. /\ UNCHANGED <<hub, registerQ, clients, phase, sessionOf, hubOf>>
        /\ closed \subseteq closed'
    BY <1>11 DEF FinishRegister, FinishUnregister, connVars
  <2> QED
    BY <1>10, <2>1
<1>12. ASSUME \/ \E h \in Hubs : Subscribe(h) \/ WriteEvent(h)
              \/ \E d \in Conns : Close(d) \/ WriterFails(d) \/ Flush(d)
              \/ \E u \in Users : Expire(u)
              \/ \E x \in late : LateRuns(x)
              \/ \E p \in Publishers :
                   \/ \E to \in Audiences, form \in {"only", "without"},
                         listed \in SUBSET Sessions : ReadTargets(p, to, form, listed)
                   \/ PublishBatch(p)
              \/ UNCHANGED vars
       PROVE  Known(c)'
  <2>1. UNCHANGED <<hub, registerQ, clients, phase, sessionOf, hubOf>>
    BY <1>12, OtherWiring DEF connVars
  <2>2. closed \subseteq closed'
    BY <1>12, OtherClosed
  <2> QED
    BY <1>10, <2>1, <2>2
<1> QED
  BY <1>4, <1>5, <1>6, <1>7, <1>8, <1>9, <1>11, <1>12 DEF Next, RunStep

-----------------------------------------------------------------------------
(***************************************************************************)
(* Every step keeps the cause of a dead client in the map.  That one may   *)
(* also wait to be put there.                                              *)
(***************************************************************************)
DeadWaits ==
  \A c \in Conns :
    phase[c] = "gone" /\ (c \in Elements(registerQ[hubOf[c]]) \/ Mapped(c))
      => c \in Elements(unregisterQ[hubOf[c]]) \/ c \in early

Due(c) == c \in Elements(unregisterQ[hubOf[c]]) \/ c \in early

LEMMA DeadStep ==
  ASSUME TypeOK, Wiring, DeadWaits, [Next]_vars
  PROVE  DeadWaits'
<1> USE DEF Known, Due
<1> SUFFICES ASSUME NEW c \in Conns, phase'[c] = "gone", Known(c)'
             PROVE  Due(c)'
  BY DEF DeadWaits
<1>1. phase[c] = "gone" /\ Known(c) => Due(c)
  BY DEF DeadWaits
<1>2. phase[c] = "gone" => hubOf[c] \in Hubs
  BY DEF Wiring, Entered
<1>3. sessionOf[c] \in Sessions
  BY DEF TypeOK
<1>4. ASSUME NEW h \in Hubs, TakeRegister(h)
      PROVE  Due(c)'
  <2>1. PICK d \in Conns : Registering(h, d)
    BY <1>4, TakeRegisterEffect
  <2> USE DEF Registering
  <2>2. phase[c] = "gone" /\ hubOf[c] \in Hubs
    BY <1>2, <2>1
  <2>3. CASE c = clients[h][sessionOf[d]]
    <3>1. hubOf[c] = h /\ sessionOf[c] = sessionOf[d]
      BY <2>1, <2>3 DEF Wiring, Placed
    <3>2. c \notin Elements(registerQ[h])
      BY <2>1, <2>3, <3>1 DEF Wiring, Once
    <3> QED
      BY <2>1, <2>3, <3>1, <3>2 DEF Mapped
  <2>4. CASE c # clients[h][sessionOf[d]]
    <3>1. Known(c)
      <4>1. CASE c \in Elements(registerQ'[hubOf[c]])
        BY <2>1, <2>2, <4>1
      <4>2. CASE Mapped(c)'
        BY <1>3, <2>1, <2>2, <4>2 DEF Mapped
      <4> QED
        BY <2>1, <4>1, <4>2
    <3> QED
      BY <1>1, <2>1, <2>2, <2>4, <3>1
  <2> QED
    BY <2>3, <2>4
<1>5. ASSUME NEW h \in Hubs, TakeUnregister(h)
      PROVE  Due(c)'
  <2>1. PICK d \in Conns : Unregistering(h, d)
    BY <1>5, TakeUnregisterEffect
  <2> USE DEF Unregistering
  <2>2. phase[c] = "gone" /\ hubOf[c] \in Hubs
    BY <1>2, <2>1
  <2>3. CASE c # d
    <3>1. Known(c)
      BY <1>3, <2>1, <2>2, <2>3, NamesAssumption DEF Mapped
    <3> QED
      BY <1>1, <2>1, <2>2, <2>3, <3>1
  <2>4. CASE c = d /\ clients[h][sessionOf[d]] = d
    <3>1. clients'[h][sessionOf[d]] = NoConn
      BY <2>1, <2>4
    <3>2. c \notin Elements(registerQ[h])
      BY <2>4 DEF Wiring, Once
    <3> QED
      BY <2>1, <2>4, <3>1, <3>2, NamesAssumption DEF Mapped
  <2>5. CASE c = d /\ clients[h][sessionOf[d]] # d
    BY <2>1, <2>5 DEF Mapped
  <2> QED
    BY <2>3, <2>4, <2>5
<1>6. ASSUME NEW h \in Hubs, EndStop(h) \/ Die(h)
      PROVE  Due(c)'
  <2>1. CASE hubOf[c] # h
    <3>1. phase[c] = "gone" /\ hubOf[c] \in Hubs
      BY <1>2, <1>6, <2>1, EndEffect
    <3>2. Known(c)
      BY <1>6, <2>1, <3>1, EndEffect DEF Mapped
    <3> QED
      BY <1>1, <1>6, <2>1, <3>1, <3>2, EndEffect
  <2>2. CASE hubOf[c] = h
    <3>1. c \in Elements(registerQ'[h])
      BY <1>3, <1>6, <2>2, EndEffect, NamesAssumption DEF Mapped
    <3>2. CASE EndStop(h)
      <4>1. /\ early' = early \ ({clients[h][s] : s \in Sessions} \ {NoConn})
            /\ UNCHANGED <<registerQ, unregisterQ, phase, sessionOf, hubOf>>
        BY <3>2 DEF EndStop, connVars
      <4>2. \A s \in Sessions : clients[h][s] # c
        BY <3>1, <4>1 DEF Wiring, Once, Placed
      <4> QED
        BY <1>1, <2>2, <3>1, <4>1, <4>2
    <3>3. CASE Die(h)
      <4>1. registerQ'[h] = <<>>
        BY <3>3 DEF Die, TypeOK
      <4> QED
        BY <3>1, <4>1, EmptyQueue
    <3> QED
      BY <1>6, <3>2, <3>3
  <2> QED
    BY <2>1, <2>2
<1>7. ASSUME NEW d \in Conns,
             \/ \E u \in Users, s \in Sessions : PrintTicket(d, u, s)
             \/ \E h \in Hubs : Accept(d, h)
      PROVE  Due(c)'
  BY <1>1, <1>7, TicketEffect DEF Mapped
<1>8. ASSUME NEW d \in Conns, Open(d) \/ ReaderEnds(d) \/ Leave(d)
      PROVE  Due(c)'
  <2>1. CASE c = d
    BY <1>8, <2>1, PumpEffect
  <2>2. CASE c # d
    <3>1. phase[c] = "gone" /\ hubOf[c] \in Hubs
      BY <1>2, <1>8, <2>2, PumpEffect
    <3>2. Known(c)
      <4>1. CASE c \in Elements(registerQ'[hubOf'[c]])
        <5>1. /\ UNCHANGED hubOf
              /\ \A k \in Hubs : Elements(registerQ'[k]) \subseteq Elements(registerQ[k]) \cup {d}
          BY <1>8, PumpEffect
        <5> QED
          BY <2>2, <3>1, <4>1, <5>1
      <4>2. CASE Mapped(c)'
        BY <1>8, <3>1, <4>2, PumpEffect DEF Mapped
      <4> QED
        BY <4>1, <4>2
    <3> QED
      BY <1>1, <1>8, <2>2, <3>1, <3>2, PumpEffect
  <2> QED
    BY <2>1, <2>2
<1>9. ASSUME UNCHANGED <<registerQ, unregisterQ, clients, phase, sessionOf, hubOf, early>>
      PROVE  Due(c)'
  BY <1>1, <1>9 DEF Mapped
<1>10. ASSUME NEW h \in Hubs,
              FinishRegister(h) \/ FinishUnregister(h) \/ Start(h) \/ BeginStop(h)
       PROVE  Due(c)'
  <2>1. UNCHANGED <<registerQ, unregisterQ, clients, phase, sessionOf, hubOf, early>>
    BY <1>10 DEF FinishRegister, FinishUnregister, Start, BeginStop, connVars, historyVars
  <2> QED
    BY <1>9, <2>1
<1>11. ASSUME \/ \E h \in Hubs : Subscribe(h) \/ WriteEvent(h)
              \/ \E d \in Conns : Close(d) \/ WriterFails(d) \/ Flush(d)
              \/ \E u \in Users : Expire(u)
              \/ \E x \in late : LateRuns(x)
              \/ \E p \in Publishers :
                   \/ \E to \in Audiences, form \in {"only", "without"},
                         listed \in SUBSET Sessions : ReadTargets(p, to, form, listed)
                   \/ PublishBatch(p)
              \/ UNCHANGED vars
       PROVE  Due(c)'
  <2>1. UNCHANGED <<registerQ, unregisterQ, clients, phase, sessionOf, hubOf>>
    BY <1>11, OtherWiring DEF connVars
  <2>2. UNCHANGED early
    BY <1>11, OtherClosed
  <2> QED
    BY <1>9, <2>1, <2>2
<1> QED
  BY <1>4, <1>5, <1>6, <1>7, <1>8, <1>10, <1>11 DEF Next, RunStep
-----------------------------------------------------------------------------
(***************************************************************************)
(* The scripts take exactly the routes they are for, and the hash goes     *)
(* with the last of them.                                                  *)
(***************************************************************************)
HasRoute(routes) == \E s \in Sessions : routes[s] # NoHub

LEMMA Kept ==
  ASSUME NEW u, NEW routes, u \in present
  PROVE  KeepHash(u, routes) <=> HasRoute(routes)
<1> DEFINE S == {s \in Sessions : routes[s] # NoHub}
<1>1. IsFiniteSet(S) /\ Cardinality(S) \in Nat
  BY SessionsAssumption, FS_Subset, FS_CardinalityType
<1>2. Cardinality(S) = 0 <=> S = {}
  BY <1>1, FS_EmptySet
<1>3. HashLength(routes, u \in present) = Cardinality(S) + 1
  BY DEF HashLength
<1>4. S # {} <=> HasRoute(routes)
  BY DEF HasRoute
<1> HIDE DEF S
<1> QED
  BY <1>1, <1>2, <1>3, <1>4 DEF KeepHash

LEMMA EmptyHash ==
  ASSUME NEW routes \in [Sessions -> Hubs \cup {NoHub}], ~HasRoute(routes)
  PROVE  routes = NoRoutes
BY DEF HasRoute, NoRoutes

LEMMA RegisterEffect ==
  ASSUME TypeOK, PresentWithASession,
         NEW u \in Users, NEW s \in Sessions, NEW h \in Hubs, RunRegister(u, s, h)
  PROVE  /\ owner'[u][s] = h
         /\ \A v \in Users, t \in Sessions : v # u \/ t # s => owner'[v][t] = owner[v][t]
         /\ PresentWithASession'
<1>1. owner' = [owner EXCEPT ![u][s] = h] /\ present' = present \cup {u}
  BY DEF RunRegister
<1>2. /\ owner'[u][s] = h
      /\ \A v \in Users, t \in Sessions : v # u \/ t # s => owner'[v][t] = owner[v][t]
  BY <1>1 DEF TypeOK
<1>3. PresentWithASession'
  <2> SUFFICES ASSUME NEW v \in Users
               PROVE  v \in present' <=> \E t \in Sessions : owner'[v][t] # NoHub
    BY DEF PresentWithASession
  <2>1. CASE v = u
    BY <1>1, <1>2, <2>1, NamesAssumption
  <2>2. CASE v # u
    BY <1>1, <1>2, <2>2 DEF PresentWithASession
  <2> QED
    BY <2>1, <2>2
<1> QED
  BY <1>2, <1>3

LEMMA UnregisterEffect ==
  ASSUME TypeOK, PresentWithASession,
         NEW u \in Users, NEW s \in Sessions, NEW h \in Hubs, RunUnregister(u, s, h)
  PROVE  /\ owner'[u][s] = IF owner[u][s] = h THEN NoHub ELSE owner[u][s]
         /\ \A v \in Users, t \in Sessions : v # u \/ t # s => owner'[v][t] = owner[v][t]
         /\ PresentWithASession'
<1>1. CASE ~OwnedBy(u, s, h)
  BY <1>1 DEF RunUnregister, OwnedBy, PresentWithASession
<1>2. CASE OwnedBy(u, s, h)
  <2> DEFINE routes == [owner[u] EXCEPT ![s] = NoHub]
             keep == KeepHash(u, routes)
  <2>1. /\ owner' = [owner EXCEPT ![u] = IF keep THEN routes ELSE NoRoutes]
        /\ present' = IF keep THEN present ELSE present \ {u}
    BY <1>2 DEF RunUnregister
  <2>2. owner[u][s] = h /\ u \in present
    BY <1>2, NamesAssumption DEF OwnedBy, PresentWithASession
  <2>3. keep <=> HasRoute(routes)
    BY <2>2, Kept
  <2>4. routes \in [Sessions -> Hubs \cup {NoHub}] /\ routes[s] = NoHub
    BY DEF TypeOK
  <2>5. \A t \in Sessions : t # s => routes[t] = owner[u][t]
    BY DEF TypeOK
  <2> HIDE DEF routes, keep
  <2>6. ~keep => routes = NoRoutes
    BY <2>3, <2>4, EmptyHash
  <2>7. owner' = [owner EXCEPT ![u] = routes]
    BY <2>1, <2>6
  <2>8. owner'[u] = routes /\ \A v \in Users \ {u} : owner'[v] = owner[v]
    BY <2>7 DEF TypeOK
  <2>9. PresentWithASession'
    <3> SUFFICES ASSUME NEW v \in Users
                 PROVE  v \in present' <=> \E t \in Sessions : owner'[v][t] # NoHub
      BY DEF PresentWithASession
    <3>1. CASE v = u
      BY <2>1, <2>2, <2>3, <2>8, <3>1 DEF HasRoute
    <3>2. CASE v # u
      BY <2>1, <2>8, <3>2 DEF PresentWithASession
    <3> QED
      BY <3>1, <3>2
  <2> QED
    BY <2>2, <2>4, <2>5, <2>8, <2>9
<1> QED
  BY <1>1, <1>2

\* Where the hashes change
LEMMA RoutesKept ==
  ASSUME [Next]_vars
  PROVE  \/ UNCHANGED <<owner, present, late>>
         \/ \E h \in Hubs : FinishRegister(h) \/ FinishUnregister(h)
         \/ \E u \in Users : Expire(u)
         \/ \E x \in late : LateRuns(x)
<1>1. CASE UNCHANGED vars
  BY <1>1 DEF vars, redisVars
<1>2. ASSUME NEW h \in Hubs,
             \/ Start(h) \/ Subscribe(h) \/ TakeRegister(h) \/ TakeUnregister(h)
             \/ BeginStop(h) \/ EndStop(h) \/ Die(h) \/ WriteEvent(h)
      PROVE  UNCHANGED <<owner, present, late>>
  BY <1>2 DEF Start, Subscribe, TakeRegister, TakeUnregister, BeginStop, EndStop, Die, WriteEvent,
              redisVars
<1>3. ASSUME NEW c \in Conns,
             \/ \E u \in Users, s \in Sessions : PrintTicket(c, u, s)
             \/ \E h \in Hubs : Accept(c, h)
             \/ Open(c) \/ ReaderEnds(c) \/ Leave(c) \/ Close(c) \/ WriterFails(c) \/ Flush(c)
      PROVE  UNCHANGED <<owner, present, late>>
  BY <1>3 DEF PrintTicket, Accept, Open, ReaderEnds, Leave, Close, WriterFails, Flush, redisVars
<1>4. ASSUME NEW p \in Publishers,
             \/ \E to \in Audiences, form \in {"only", "without"}, listed \in SUBSET Sessions :
                  ReadTargets(p, to, form, listed)
             \/ PublishBatch(p)
      PROVE  UNCHANGED <<owner, present, late>>
  BY <1>4 DEF ReadTargets, PublishBatch, redisVars
<1> QED
  BY <1>1, <1>2, <1>3, <1>4 DEF Next, RunStep

LEMMA PresentStep ==
  ASSUME TypeOK, Wiring, PresentWithASession, [Next]_vars
  PROVE  PresentWithASession'
<1>1. CASE UNCHANGED <<owner, present, late>>
  BY <1>1 DEF PresentWithASession
<1>2. ASSUME NEW h \in Hubs, FinishRegister(h)
      PROVE  PresentWithASession'
  <2> DEFINE u == userOf[busy[h].conn]
             s == sessionOf[busy[h].conn]
  <2>1. u \in Users /\ s \in Sessions
    BY <1>2, Worker DEF FinishRegister
  <2>2. RunRegister(u, s, h) \/ UNCHANGED <<owner, present>>
    BY <1>2 DEF FinishRegister
  <2> HIDE DEF u, s
  <2> QED
    BY <2>1, <2>2, RegisterEffect DEF PresentWithASession
<1>3. ASSUME NEW h \in Hubs, FinishUnregister(h)
      PROVE  PresentWithASession'
  <2> DEFINE u == userOf[busy[h].conn]
             s == sessionOf[busy[h].conn]
  <2>1. u \in Users /\ s \in Sessions
    BY <1>3, Worker DEF FinishUnregister
  <2>2. RunUnregister(u, s, h) \/ UNCHANGED <<owner, present>>
    BY <1>3 DEF FinishUnregister
  <2> HIDE DEF u, s
  <2> QED
    BY <2>1, <2>2, UnregisterEffect DEF PresentWithASession
<1>4. ASSUME NEW u \in Users, Expire(u)
      PROVE  PresentWithASession'
  <2>1. owner' = [owner EXCEPT ![u] = NoRoutes] /\ present' = present \ {u}
    BY <1>4 DEF Expire
  <2>2. owner'[u] = NoRoutes /\ \A v \in Users \ {u} : owner'[v] = owner[v]
    BY <2>1 DEF TypeOK
  <2> QED
    BY <2>1, <2>2 DEF PresentWithASession, NoRoutes
<1>5. ASSUME NEW x \in late, LateRuns(x)
      PROVE  PresentWithASession'
  <2>1. x.user \in Users /\ x.session \in Sessions /\ x.hub \in Hubs
    BY DEF TypeOK, Scripts
  <2>2. RunRegister(x.user, x.session, x.hub) \/ RunUnregister(x.user, x.session, x.hub)
    BY <1>5 DEF LateRuns
  <2> QED
    BY <2>1, <2>2, RegisterEffect, UnregisterEffect
<1> QED
  BY <1>1, <1>2, <1>3, <1>4, <1>5, RoutesKept
-----------------------------------------------------------------------------
(***************************************************************************)
(* Every step keeps the cause of a route that is not there.                *)
(***************************************************************************)
Served(c) ==
  Mapped(c) /\ phase[c] = "open" /\ hub[hubOf[c]] = "up" /\ busy[hubOf[c]].conn # c
Reachable(c) == owner[userOf[c]][sessionOf[c]] = hubOf[c] \/ c \in cutOff

LEMMA ServedTypes ==
  ASSUME TypeOK, Wiring, NEW c \in Conns, Mapped(c) \/ phase[c] = "open"
  PROVE  hubOf[c] \in Hubs /\ userOf[c] \in Users /\ sessionOf[c] \in Sessions
<1>1. sessionOf[c] \in Sessions
  BY DEF TypeOK
<1>2. phase[c] \in Registered
  BY <1>1 DEF Mapped, Wiring, Placed, Registered
<1> QED
  BY <1>1, <1>2 DEF Registered, Wiring, Entered

\* One connection per place in a map
LEMMA SamePlace ==
  ASSUME NEW c \in Conns, NEW d \in Conns, Mapped(c), Mapped(d),
         hubOf[c] = hubOf[d], sessionOf[c] = sessionOf[d]
  PROVE  c = d
BY DEF Mapped

LEMMA FinishRegisterReach ==
  ASSUME TypeOK, Wiring, PresentWithASession, UnreachableHasACause,
         NEW h \in Hubs, FinishRegister(h), NEW c \in Conns, Served(c)'
  PROVE  Reachable(c)'
<1> DEFINE d == busy[h].conn
           u == userOf[d]
           s == sessionOf[d]
<1>1. /\ d \in Conns /\ u \in Users /\ s \in Sessions /\ hubOf[d] = h
      /\ clients[h][s] = d
  BY Worker DEF FinishRegister
<1>2. /\ busy' = [busy EXCEPT ![h] = Idle]
      /\ UNCHANGED <<hub, clients, phase, userOf, sessionOf, hubOf>>
      /\ \/ /\ RunRegister(u, s, h)
            /\ cutOff' = (cutOff \ {d}) \cup Elsewhere(u, s, h)
         \/ /\ cutOff' = cutOff \cup {d}
            /\ UNCHANGED <<owner, present>>
  BY DEF FinishRegister, connVars
<1> HIDE DEF d, u, s
<1>3. Mapped(c) /\ phase[c] = "open" /\ hub[hubOf[c]] = "up"
  BY <1>2 DEF Served, Mapped
<1>4. hubOf[c] \in Hubs /\ userOf[c] \in Users /\ sessionOf[c] \in Sessions
  BY <1>3, ServedTypes
<1>5. c # d => Served(c)
  <2>1. CASE hubOf[c] = h
    BY <1>3, <2>1 DEF Served, d
  <2>2. CASE hubOf[c] # h
    BY <1>2, <1>3, <1>4, <2>2 DEF Served, TypeOK
  <2> QED
    BY <2>1, <2>2
<1>6. c # d => Reachable(c)
  BY <1>5 DEF UnreachableHasACause, Served, Reachable
<1>7. CASE RunRegister(u, s, h) /\ cutOff' = (cutOff \ {d}) \cup Elsewhere(u, s, h)
  <2>1. /\ owner'[u][s] = h
        /\ \A v \in Users, t \in Sessions : v # u \/ t # s => owner'[v][t] = owner[v][t]
    BY <1>1, <1>7, RegisterEffect
  <2>2. CASE c = d
    BY <1>1, <1>2, <2>1, <2>2 DEF Reachable, u, s
  <2>3. CASE c # d /\ (userOf[c] # u \/ sessionOf[c] # s)
    BY <1>2, <1>4, <1>6, <1>7, <2>1, <2>3 DEF Reachable
  <2>4. CASE c # d /\ userOf[c] = u /\ sessionOf[c] = s
    <3>1. hubOf[c] # h
      BY <1>1, <1>3, <2>4 DEF Mapped
    <3>2. c \in Elsewhere(u, s, h)
      BY <1>3, <2>4, <3>1 DEF Elsewhere
    <3> QED
      BY <1>7, <3>2 DEF Reachable
  <2> QED
    BY <2>2, <2>3, <2>4
<1>8. CASE cutOff' = cutOff \cup {d} /\ UNCHANGED <<owner, present>>
  BY <1>2, <1>6, <1>8 DEF Reachable
<1> QED
  BY <1>2, <1>7, <1>8

LEMMA FinishUnregisterReach ==
  ASSUME TypeOK, Wiring, PresentWithASession, UnreachableHasACause,
         NEW h \in Hubs, FinishUnregister(h), NEW c \in Conns, Served(c)'
  PROVE  Reachable(c)'
<1> DEFINE d == busy[h].conn
           u == userOf[d]
           s == sessionOf[d]
<1>1. /\ d \in Conns /\ u \in Users /\ s \in Sessions /\ hubOf[d] = h
      /\ clients[h][s] = NoConn /\ phase[d] = "gone"
  BY Worker DEF FinishUnregister
<1>2. /\ busy' = [busy EXCEPT ![h] = Idle]
      /\ UNCHANGED <<hub, clients, phase, userOf, sessionOf, hubOf, cutOff>>
      /\ RunUnregister(u, s, h) \/ UNCHANGED <<owner, present>>
  BY DEF FinishUnregister, connVars
<1> HIDE DEF d, u, s
<1>3. Mapped(c) /\ phase[c] = "open" /\ hub[hubOf[c]] = "up"
  BY <1>2 DEF Served, Mapped
<1>4. hubOf[c] \in Hubs /\ userOf[c] \in Users /\ sessionOf[c] \in Sessions
  BY <1>3, ServedTypes
<1>5. c # d
  BY <1>1, <1>3
<1>6. Served(c)
  <2>1. CASE hubOf[c] = h
    BY <1>3, <1>5, <2>1 DEF Served, d
  <2>2. CASE hubOf[c] # h
    BY <1>2, <1>3, <1>4, <2>2 DEF Served, TypeOK
  <2> QED
    BY <2>1, <2>2
<1>7. Reachable(c)
  BY <1>6 DEF UnreachableHasACause, Served, Reachable
<1>8. CASE RunUnregister(u, s, h)
  <2>1. /\ owner'[u][s] = IF owner[u][s] = h THEN NoHub ELSE owner[u][s]
        /\ \A v \in Users, t \in Sessions : v # u \/ t # s => owner'[v][t] = owner[v][t]
    BY <1>1, <1>8, UnregisterEffect
  <2>2. CASE userOf[c] # u \/ sessionOf[c] # s
    BY <1>2, <1>4, <1>7, <2>1, <2>2 DEF Reachable
  <2>3. CASE userOf[c] = u /\ sessionOf[c] = s
    <3>1. hubOf[c] # h
      BY <1>1, <1>3, <2>3, NamesAssumption DEF Mapped
    <3> QED
      BY <1>2, <1>7, <2>1, <2>3, <3>1 DEF Reachable
  <2> QED
    BY <2>2, <2>3
<1>9. CASE UNCHANGED <<owner, present>>
  BY <1>2, <1>7, <1>9 DEF Reachable
<1> QED
  BY <1>2, <1>8, <1>9

LEMMA RedisReach ==
  ASSUME TypeOK, Wiring, PresentWithASession, UnreachableHasACause,
         (\E u \in Users : Expire(u)) \/ (\E x \in late : LateRuns(x)),
         NEW c \in Conns, Served(c)'
  PROVE  Reachable(c)'
<1>1. UNCHANGED <<hub, busy, clients, phase, userOf, sessionOf, hubOf>>
  BY OtherWiring DEF connVars
<1>2. Served(c)
  BY <1>1 DEF Served, Mapped
<1>3. Mapped(c) /\ hubOf[c] \in Hubs /\ userOf[c] \in Users /\ sessionOf[c] \in Sessions
  BY <1>2, ServedTypes DEF Served
<1>4. Reachable(c)
  BY <1>2 DEF UnreachableHasACause, Served, Reachable
<1>5. ASSUME NEW u \in Users, Expire(u)
      PROVE  Reachable(c)'
  <2>1. /\ owner' = [owner EXCEPT ![u] = NoRoutes]
        /\ cutOff' = cutOff \cup {d \in Conns : Mapped(d) /\ userOf[d] = u}
    BY <1>5 DEF Expire
  <2>2. CASE userOf[c] = u
    BY <1>3, <2>1, <2>2 DEF Reachable
  <2>3. CASE userOf[c] # u
    BY <1>1, <1>3, <1>4, <2>1, <2>3 DEF Reachable, TypeOK
  <2> QED
    BY <2>2, <2>3
<1>6. ASSUME NEW x \in late, LateRuns(x)
      PROVE  Reachable(c)'
  <2> DEFINE u == x.user
             s == x.session
             h == x.hub
  <2>1. u \in Users /\ s \in Sessions /\ h \in Hubs
    BY DEF TypeOK, Scripts
  <2>2. \/ /\ RunRegister(u, s, h)
           /\ cutOff' = (cutOff \ Here(u, s, h)) \cup Elsewhere(u, s, h)
        \/ /\ RunUnregister(u, s, h)
           /\ cutOff' = IF owner[u][s] = h THEN cutOff \cup Here(u, s, h) ELSE cutOff
    BY <1>6 DEF LateRuns
  <2> HIDE DEF u, s, h
  <2>3. userOf[c] = u /\ sessionOf[c] = s =>
          IF hubOf[c] = h THEN c \in Here(u, s, h) ELSE c \in Elsewhere(u, s, h)
    BY <1>3 DEF Here, Elsewhere
  <2>4. c \in Here(u, s, h) => userOf[c] = u /\ sessionOf[c] = s /\ hubOf[c] = h
    BY DEF Here
  <2>5. CASE /\ RunRegister(u, s, h)
             /\ cutOff' = (cutOff \ Here(u, s, h)) \cup Elsewhere(u, s, h)
    <3>1. /\ owner'[u][s] = h
          /\ \A v \in Users, t \in Sessions : v # u \/ t # s => owner'[v][t] = owner[v][t]
      BY <2>1, <2>5, RegisterEffect
    <3>2. CASE userOf[c] = u /\ sessionOf[c] = s
      BY <1>1, <2>3, <2>5, <3>1, <3>2 DEF Reachable
    <3>3. CASE userOf[c] # u \/ sessionOf[c] # s
      BY <1>1, <1>3, <1>4, <2>4, <2>5, <3>1, <3>3 DEF Reachable
    <3> QED
      BY <3>2, <3>3
  <2>6. CASE /\ RunUnregister(u, s, h)
             /\ cutOff' = IF owner[u][s] = h THEN cutOff \cup Here(u, s, h) ELSE cutOff
    <3>1. /\ owner'[u][s] = IF owner[u][s] = h THEN NoHub ELSE owner[u][s]
          /\ \A v \in Users, t \in Sessions : v # u \/ t # s => owner'[v][t] = owner[v][t]
      BY <2>1, <2>6, UnregisterEffect
    <3>2. cutOff \subseteq cutOff'
      BY <2>6
    <3>3. CASE userOf[c] # u \/ sessionOf[c] # s
      BY <1>1, <1>3, <1>4, <3>1, <3>2, <3>3 DEF Reachable
    <3>4. CASE userOf[c] = u /\ sessionOf[c] = s /\ owner[u][s] # h
      BY <1>1, <1>4, <3>1, <3>2, <3>4 DEF Reachable
    <3>5. CASE userOf[c] = u /\ sessionOf[c] = s /\ owner[u][s] = h
      BY <1>1, <1>4, <2>3, <2>6, <3>5 DEF Reachable
    <3> QED
      BY <3>3, <3>4, <3>5
  <2> QED
    BY <2>2, <2>5, <2>6
<1> QED
  BY <1>5, <1>6

LEMMA ReachStep ==
  ASSUME TypeOK, Wiring, PresentWithASession, UnreachableHasACause, [Next]_vars
  PROVE  UnreachableHasACause'
<1> SUFFICES ASSUME NEW c \in Conns, Served(c)'
             PROVE  Reachable(c)'
  BY DEF UnreachableHasACause, Served, Reachable
<1>1. Served(c) => Reachable(c)
  BY DEF UnreachableHasACause, Served, Reachable
<1>2. sessionOf[c] \in Sessions
  BY DEF TypeOK
<1>3. phase[c] = "open" => hubOf[c] \in Hubs /\ hub[hubOf[c]] # "new"
  BY DEF Wiring, Entered
<1>4. ASSUME NEW h \in Hubs, TakeRegister(h)
      PROVE  Reachable(c)'
  <2>1. PICK d \in Conns : Registering(h, d)
    BY <1>4, TakeRegisterEffect
  <2>2. /\ UNCHANGED <<hub, phase, userOf, sessionOf, hubOf, owner>>
        /\ phase[c] = "open" /\ hubOf[c] \in Hubs /\ hub[hubOf[c]] = "up"
    BY <1>3, <2>1 DEF Registering, Served
  <2>3. c # d
    BY <2>1, <2>2 DEF Registering, Served
  <2>4. Mapped(c)
    BY <1>2, <2>1, <2>2, <2>3 DEF Registering, Served, Mapped
  <2>5. c # clients[h][sessionOf[d]]
    <3> SUFFICES ASSUME c = clients[h][sessionOf[d]]
                 PROVE  FALSE
      OBVIOUS
    <3>1. hubOf[c] = h /\ sessionOf[c] = sessionOf[d]
      BY <2>1 DEF Registering, Wiring, Placed
    <3> QED
      BY <2>1, <2>2, <2>3, <3>1 DEF Registering, Served, Mapped
  <2>6. Served(c)
    <3>1. CASE hubOf[c] = h
      BY <2>1, <2>2, <2>4, <3>1, NamesAssumption DEF Served, Registering, Idle
    <3>2. CASE hubOf[c] # h
      BY <2>1, <2>2, <2>4, <3>2 DEF Served, Registering
    <3> QED
      BY <3>1, <3>2
  <2>7. c \in cutOff => c \in cutOff'
    BY <2>1, <2>5 DEF Registering
  <2> QED
    BY <1>1, <2>2, <2>6, <2>7 DEF Reachable
<1>5. ASSUME NEW h \in Hubs, TakeUnregister(h)
      PROVE  Reachable(c)'
  <2>1. PICK d \in Conns : Unregistering(h, d)
    BY <1>5, TakeUnregisterEffect
  <2>2. /\ UNCHANGED <<hub, phase, userOf, sessionOf, hubOf, owner>>
        /\ phase[c] = "open" /\ hubOf[c] \in Hubs /\ hub[hubOf[c]] = "up" /\ c # d
    BY <1>3, <2>1 DEF Unregistering, Served
  <2>3. Mapped(c)
    BY <1>2, <2>1, <2>2, NamesAssumption DEF Unregistering, Served, Mapped
  <2>4. Served(c)
    <3>1. CASE hubOf[c] = h
      BY <2>1, <2>2, <2>3, <3>1, NamesAssumption DEF Served, Unregistering, Idle
    <3>2. CASE hubOf[c] # h
      BY <2>1, <2>2, <2>3, <3>2 DEF Served, Unregistering
    <3> QED
      BY <3>1, <3>2
  <2>5. c \in cutOff => c \in cutOff'
    BY <2>1, <2>2 DEF Unregistering
  <2> QED
    BY <1>1, <2>2, <2>4, <2>5 DEF Reachable
<1>6. ASSUME NEW h \in Hubs, EndStop(h) \/ Die(h)
      PROVE  Reachable(c)'
  <2>1. UNCHANGED <<userOf, sessionOf, hubOf, owner>> /\ hub'[h] # "up"
    BY <1>6, EndEffect
  <2>2. hubOf[c] # h /\ hubOf[c] \in Hubs
    BY <2>1 DEF Served, Mapped
  <2>3. Served(c)
    BY <1>6, <2>1, <2>2, EndEffect DEF Served, Mapped
  <2>4. c \in cutOff => c \in cutOff'
    BY <1>6, <2>2, EndEffect
  <2> QED
    BY <1>1, <2>1, <2>3, <2>4 DEF Reachable
<1>7. ASSUME NEW h \in Hubs, Start(h) \/ BeginStop(h)
      PROVE  Reachable(c)'
  <2>1. /\ \/ hub' = [hub EXCEPT ![h] = "up"] /\ hub[h] = "new"
           \/ hub' = [hub EXCEPT ![h] = "closing"]
        /\ UNCHANGED <<busy, clients, phase, userOf, sessionOf, hubOf, owner, cutOff>>
    BY <1>7 DEF Start, BeginStop, connVars, redisVars, historyVars
  <2>2. hubOf[c] # h
    BY <1>3, <2>1 DEF Served, TypeOK
  <2>3. Served(c)
    BY <1>3, <2>1, <2>2 DEF Served, Mapped, TypeOK
  <2> QED
    BY <1>1, <2>1, <2>3 DEF Reachable
<1>8. ASSUME NEW d \in Conns,
             \/ \E u \in Users, s \in Sessions : PrintTicket(d, u, s)
             \/ \E h \in Hubs : Accept(d, h)
      PROVE  Reachable(c)'
  <2>1. c # d
    BY <1>8, TicketEffect DEF Served
  <2>2. Served(c)
    BY <1>8, <2>1, TicketEffect DEF Served, Mapped
  <2>3. /\ userOf'[c] = userOf[c] /\ sessionOf'[c] = sessionOf[c] /\ hubOf'[c] = hubOf[c]
        /\ UNCHANGED <<owner, cutOff>>
    BY <1>8, <2>1, TicketEffect
  <2> QED
    BY <1>1, <2>2, <2>3 DEF Reachable
<1>9. ASSUME NEW d \in Conns, Open(d) \/ ReaderEnds(d) \/ Leave(d)
      PROVE  Reachable(c)'
  <2>1. UNCHANGED <<hub, busy, clients, userOf, sessionOf, hubOf, owner, cutOff>>
    BY <1>9, PumpEffect
  <2>2. CASE c = d
    <3>1. \A k \in Hubs, s \in Sessions : clients[k][s] # c
      BY <1>9, <2>2, PumpEffect DEF Served
    <3> QED
      BY <1>2, <2>1, <3>1 DEF Served, Mapped
  <2>3. CASE c # d
    <3>1. phase'[c] = phase[c]
      BY <1>9, <2>3, PumpEffect
    <3> QED
      BY <1>1, <2>1, <3>1 DEF Served, Mapped, Reachable
  <2> QED
    BY <2>2, <2>3
<1>10. ASSUME UNCHANGED <<hub, busy, clients, phase, userOf, sessionOf, hubOf, owner, cutOff>>
       PROVE  Reachable(c)'
  BY <1>1, <1>10 DEF Served, Mapped, Reachable
<1>11. ASSUME \/ \E h \in Hubs : Subscribe(h) \/ WriteEvent(h)
              \/ \E d \in Conns : Close(d) \/ WriterFails(d) \/ Flush(d)
              \/ \E p \in Publishers :
                   \/ \E to \in Audiences, form \in {"only", "without"},
                         listed \in SUBSET Sessions : ReadTargets(p, to, form, listed)
                   \/ PublishBatch(p)
              \/ UNCHANGED vars
       PROVE  Reachable(c)'
  <2>1. UNCHANGED <<hub, busy, clients, phase, userOf, sessionOf, hubOf>>
    BY <1>11, OtherWiring DEF connVars
  <2>2. UNCHANGED <<owner, cutOff, leaked>>
    BY <1>11, OtherHistory
  <2> QED
    BY <1>10, <2>1, <2>2
<1> QED
  BY <1>4, <1>5, <1>6, <1>7, <1>8, <1>9, <1>11, FinishRegisterReach, FinishUnregisterReach,
     RedisReach DEF Next, RunStep
-----------------------------------------------------------------------------
(***************************************************************************)
(* Every step keeps the cause of a route that leads nowhere.               *)
(***************************************************************************)
Led(u, s, h) ==
  \/ clients[h][s] # NoConn /\ userOf[clients[h][s]] = u
  \/ /\ busy[h].op = "unregister"
     /\ userOf[busy[h].conn] = u /\ sessionOf[busy[h].conn] = s

Sound(u, s, h) == owner[u][s] = h /\ <<u, s, h>> \notin leaked => Led(u, s, h)

LEMMA SoundRoutes ==
  StrayRouteHasACause <=> \A u \in Users, s \in Sessions, h \in Hubs : Sound(u, s, h)
BY DEF StrayRouteHasACause, Sound, Led

LEMMA PlacedUser ==
  ASSUME TypeOK, Wiring, NEW h \in Hubs, NEW s \in Sessions, clients[h][s] # NoConn
  PROVE  /\ clients[h][s] \in Conns /\ hubOf[clients[h][s]] = h
         /\ sessionOf[clients[h][s]] = s /\ phase[clients[h][s]] \in Registered
<1>1. clients[h][s] \in Conns
  BY DEF TypeOK
<1> QED
  BY <1>1 DEF Wiring, Placed

LEMMA FinishSound ==
  ASSUME TypeOK, Wiring, PresentWithASession, NEW k \in Hubs,
         FinishRegister(k) \/ FinishUnregister(k),
         NEW u \in Users, NEW s \in Sessions, NEW h \in Hubs, Sound(u, s, h)
  PROVE  Sound(u, s, h)'
<1> DEFINE d == busy[k].conn
           v == userOf[d]
           t == sessionOf[d]
<1>1. /\ busy' = [busy EXCEPT ![k] = Idle]
      /\ UNCHANGED <<hub, clients, userOf, sessionOf>>
  BY DEF FinishRegister, FinishUnregister, connVars
<1>2. /\ busy'[k] = Idle /\ \A j \in Hubs \ {k} : busy'[j] = busy[j]
  BY <1>1 DEF TypeOK
<1>3. CASE FinishRegister(k)
  <2>1. /\ d \in Conns /\ v \in Users /\ t \in Sessions
        /\ clients[k][t] = d /\ hub[k] = "up" /\ busy[k].op = "register"
    BY <1>3, Worker DEF FinishRegister, Working
  <2>2. \/ RunRegister(v, t, k) /\ leaked' = leaked \ {<<v, t, k>>}
        \/ UNCHANGED <<owner, present, leaked>>
    BY <1>3 DEF FinishRegister
  <2> HIDE DEF d, v, t
  <2>3. Led(u, s, h) => Led(u, s, h)'
    BY <1>1, <1>2, <2>1 DEF Led
  <2>4. CASE RunRegister(v, t, k) /\ leaked' = leaked \ {<<v, t, k>>}
    <3>1. /\ owner'[v][t] = k
          /\ \A w \in Users, r \in Sessions : w # v \/ r # t => owner'[w][r] = owner[w][r]
      BY <2>1, <2>4, RegisterEffect
    <3>2. CASE u = v /\ s = t
      <4>1. d # NoConn /\ userOf[d] = v
        BY <2>1, NamesAssumption DEF v
      <4> QED
        BY <1>1, <2>1, <3>1, <3>2, <4>1 DEF Sound, Led
    <3>3. CASE u # v \/ s # t
      <4>1. owner'[u][s] = owner[u][s] /\ (<<u, s, h>> \in leaked' <=> <<u, s, h>> \in leaked)
        BY <2>4, <3>1, <3>3
      <4> QED
        BY <1>1, <2>3, <4>1 DEF Sound
    <3> QED
      BY <3>2, <3>3
  <2>5. CASE UNCHANGED <<owner, present, leaked>>
    BY <1>1, <2>3, <2>5 DEF Sound
  <2> QED
    BY <2>2, <2>4, <2>5
<1>4. CASE FinishUnregister(k)
  <2>1. d \in Conns /\ v \in Users /\ t \in Sessions /\ hub[k] = "up"
    BY <1>4, Worker DEF FinishUnregister
  <2>2. \/ RunUnregister(v, t, k) /\ leaked' = leaked \ {<<v, t, k>>}
        \/ UNCHANGED <<owner, present>> /\ leaked' = leaked \cup {<<v, t, k>>}
    BY <1>4 DEF FinishUnregister
  <2>3. u # v \/ s # t \/ h # k => (Led(u, s, h) => Led(u, s, h)')
    BY <1>1, <1>2 DEF Led
  <2> HIDE DEF d, v, t
  <2>4. CASE RunUnregister(v, t, k) /\ leaked' = leaked \ {<<v, t, k>>}
    <3>1. /\ owner'[v][t] = IF owner[v][t] = k THEN NoHub ELSE owner[v][t]
          /\ \A w \in Users, r \in Sessions : w # v \/ r # t => owner'[w][r] = owner[w][r]
      BY <2>1, <2>4, UnregisterEffect
    <3>2. CASE u = v /\ s = t /\ h = k
      BY <3>1, <3>2, NamesAssumption DEF Sound
    <3>3. CASE u # v \/ s # t \/ h # k
      <4>1. owner'[u][s] = h => owner[u][s] = h
        BY <3>1, NamesAssumption
      <4>2. <<u, s, h>> \in leaked' <=> <<u, s, h>> \in leaked
        BY <2>4, <3>3
      <4> QED
        BY <1>1, <2>3, <3>3, <4>1, <4>2 DEF Sound
    <3> QED
      BY <3>2, <3>3
  <2>5. CASE UNCHANGED <<owner, present>> /\ leaked' = leaked \cup {<<v, t, k>>}
    BY <1>1, <2>3, <2>5 DEF Sound
  <2> QED
    BY <2>2, <2>4, <2>5
<1> QED
  BY <1>3, <1>4

LEMMA TakeSound ==
  ASSUME TypeOK, Wiring, NEW k \in Hubs, TakeRegister(k) \/ TakeUnregister(k),
         NEW u \in Users, NEW s \in Sessions, NEW h \in Hubs, Sound(u, s, h)
  PROVE  Sound(u, s, h)'
<1> SUFFICES ASSUME owner'[u][s] = h, <<u, s, h>> \notin leaked'
             PROVE  Led(u, s, h)'
  BY DEF Sound
<1>1. CASE TakeRegister(k)
  <2>1. PICK d \in Conns : Registering(k, d)
    BY <1>1, TakeRegisterEffect
  <2>2. /\ UNCHANGED <<hub, userOf, sessionOf, owner>> /\ leaked \subseteq leaked'
        /\ hub[k] = "up" /\ busy[k] = Idle /\ userOf[d] \in Users
    BY <2>1 DEF Registering
  <2>3. Led(u, s, h)
    BY <2>2 DEF Sound
  <2>4. CASE h = k /\ s = sessionOf[d]
    <3>1. clients[h][s] # NoConn /\ userOf[clients[h][s]] = u
      BY <2>2, <2>3, <2>4 DEF Led, Idle
    <3>2. userOf[d] = u
      BY <2>1, <2>4, <3>1 DEF Registering
    <3>3. clients'[h][s] = d
      BY <2>1, <2>4 DEF Registering
    <3> QED
      BY <2>2, <2>3, <3>2, <3>3, NamesAssumption DEF Led
  <2>5. CASE h # k
    <3>1. clients'[h][s] = clients[h][s] /\ busy'[h] = busy[h]
      BY <2>1, <2>5 DEF Registering
    <3> QED
      BY <2>2, <2>3, <3>1 DEF Led
  <2>6. CASE h = k /\ s # sessionOf[d]
    <3>1. clients'[h][s] = clients[h][s]
      BY <2>1, <2>6 DEF Registering
    <3>2. clients[h][s] # NoConn /\ userOf[clients[h][s]] = u
      BY <2>2, <2>3, <2>6 DEF Led, Idle
    <3> QED
      BY <2>2, <2>3, <3>1, <3>2 DEF Led
  <2> QED
    BY <2>4, <2>5, <2>6
<1>2. CASE TakeUnregister(k)
  <2>1. PICK d \in Conns : Unregistering(k, d)
    BY <1>2, TakeUnregisterEffect
  <2>2. /\ UNCHANGED <<hub, userOf, sessionOf, owner, leaked>>
        /\ busy[k] = Idle
    BY <2>1 DEF Unregistering
  <2>3. Led(u, s, h)
    BY <2>2 DEF Sound
  <2>4. CASE UNCHANGED <<clients, busy>>
    BY <2>2, <2>3, <2>4 DEF Led
  <2>5. CASE /\ clients[k][sessionOf[d]] = d
             /\ \A j \in Hubs, t \in Sessions :
                  j # k \/ t # sessionOf[d] => clients'[j][t] = clients[j][t]
             /\ busy'[k] = [op |-> "unregister", conn |-> d]
             /\ \A j \in Hubs \ {k} : busy'[j] = busy[j]
    <3>1. CASE h = k /\ s = sessionOf[d]
      <4>1. userOf[d] = u
        BY <2>2, <2>3, <2>5, <3>1 DEF Led, Idle
      <4>2. busy'[h].op = "unregister" /\ busy'[h].conn = d
        BY <2>5, <3>1
      <4> QED
        BY <2>2, <2>3, <3>1, <4>1, <4>2 DEF Led
    <3>2. CASE h = k /\ s # sessionOf[d]
      <4>1. clients'[h][s] = clients[h][s]
        BY <2>5, <3>2
      <4>2. clients[h][s] # NoConn /\ userOf[clients[h][s]] = u
        BY <2>2, <2>3, <3>2 DEF Led, Idle
      <4> QED
        BY <2>2, <2>3, <4>1, <4>2 DEF Led
    <3>3. CASE h # k
      <4>1. clients'[h][s] = clients[h][s] /\ busy'[h] = busy[h]
        BY <2>5, <3>3
      <4> QED
        BY <2>2, <2>3, <4>1 DEF Led
    <3> QED
      BY <3>1, <3>2, <3>3
  <2> QED
    BY <2>1, <2>4, <2>5 DEF Unregistering
<1> QED
  BY <1>1, <1>2

LEMMA StageSound ==
  ASSUME TypeOK, Wiring, PresentWithASession, NEW k \in Hubs,
         Start(k) \/ BeginStop(k) \/ EndStop(k) \/ Die(k),
         NEW u \in Users, NEW s \in Sessions, NEW h \in Hubs, Sound(u, s, h)
  PROVE  Sound(u, s, h)'
<1> SUFFICES ASSUME owner'[u][s] = h, <<u, s, h>> \notin leaked'
             PROVE  Led(u, s, h)'
  BY DEF Sound
<1>1. CASE Start(k) \/ BeginStop(k)
  <2>1. UNCHANGED <<busy, clients, userOf, sessionOf, owner, leaked>>
    BY <1>1 DEF Start, BeginStop, connVars, redisVars, historyVars
  <2> QED
    BY <2>1 DEF Sound, Led
<1>2. CASE EndStop(k) \/ Die(k)
  <2>1. UNCHANGED <<userOf, sessionOf, owner>> /\ leaked' = leaked \cup RoutesOf(k)
    BY <1>2, EndEffect
  <2>2. Led(u, s, h)
    BY <2>1 DEF Sound
  <2>3. h # k
    BY <2>1 DEF RoutesOf
  <2>4. clients'[h] = clients[h] /\ busy'[h] = busy[h]
    BY <1>2, <2>3, EndEffect
  <2> QED
    BY <2>1, <2>2, <2>4 DEF Led
<1> QED
  BY <1>1, <1>2

LEMMA RedisSound ==
  ASSUME TypeOK, Wiring, PresentWithASession,
         (\E v \in Users : Expire(v)) \/ (\E x \in late : LateRuns(x)),
         NEW u \in Users, NEW s \in Sessions, NEW h \in Hubs, Sound(u, s, h)
  PROVE  Sound(u, s, h)'
<1>1. UNCHANGED <<hub, busy, clients, userOf, sessionOf, hubOf>>
  BY OtherWiring DEF connVars
<1>2. Led(u, s, h) => Led(u, s, h)'
  BY <1>1 DEF Led
<1>3. ASSUME owner'[u][s] = h => owner[u][s] = h,
             owner'[u][s] = h /\ <<u, s, h>> \in leaked => <<u, s, h>> \in leaked'
      PROVE  Sound(u, s, h)'
  BY <1>1, <1>2, <1>3 DEF Sound
<1>4. ASSUME NEW v \in Users, Expire(v)
      PROVE  Sound(u, s, h)'
  <2>1. owner' = [owner EXCEPT ![v] = NoRoutes] /\ leaked' = {r \in leaked : r[1] # v}
    BY <1>4 DEF Expire
  <2>2. owner'[v][s] = NoHub /\ (u # v => owner'[u] = owner[u])
    BY <2>1 DEF TypeOK, NoRoutes
  <2>3. owner'[u][s] = h => u # v
    BY <2>2, NamesAssumption
  <2> QED
    BY <1>3, <2>1, <2>2, <2>3
<1>5. ASSUME NEW x \in late, LateRuns(x)
      PROVE  Sound(u, s, h)'
  <2> DEFINE v == x.user
             t == x.session
             k == x.hub
  <2>1. v \in Users /\ t \in Sessions /\ k \in Hubs
    BY DEF TypeOK, Scripts
  <2>2. \/ /\ RunRegister(v, t, k)
           /\ leaked' = IF Here(v, t, k) = {} THEN leaked \cup {<<v, t, k>>} ELSE leaked
        \/ /\ RunUnregister(v, t, k)
           /\ leaked' = leaked \ {<<v, t, k>>}
    BY <1>5 DEF LateRuns
  <2> HIDE DEF v, t, k
  <2>3. CASE /\ RunRegister(v, t, k)
             /\ leaked' = IF Here(v, t, k) = {} THEN leaked \cup {<<v, t, k>>} ELSE leaked
    <3>1. /\ owner'[v][t] = k
          /\ \A w \in Users, r \in Sessions : w # v \/ r # t => owner'[w][r] = owner[w][r]
      BY <2>1, <2>3, RegisterEffect
    <3>2. CASE u # v \/ s # t
      BY <1>3, <2>3, <3>1, <3>2
    <3>3. CASE u = v /\ s = t /\ h # k
      BY <3>1, <3>3 DEF Sound
    <3>4. CASE u = v /\ s = t /\ h = k
      <4>1. CASE Here(v, t, k) = {}
        BY <2>3, <3>4, <4>1 DEF Sound
      <4>2. CASE Here(v, t, k) # {}
        <5>1. PICK d \in Conns : Mapped(d) /\ userOf[d] = v /\ sessionOf[d] = t /\ hubOf[d] = k
          BY <4>2 DEF Here
        <5>2. clients[h][s] # NoConn /\ userOf[clients[h][s]] = u
          BY <3>4, <5>1, NamesAssumption DEF Mapped
        <5> QED
          BY <1>1, <3>4, <4>2, <5>2 DEF Sound, Led
      <4> QED
        BY <4>1, <4>2
    <3> QED
      BY <3>2, <3>3, <3>4
  <2>4. CASE RunUnregister(v, t, k) /\ leaked' = leaked \ {<<v, t, k>>}
    <3>1. /\ owner'[v][t] = IF owner[v][t] = k THEN NoHub ELSE owner[v][t]
          /\ \A w \in Users, r \in Sessions : w # v \/ r # t => owner'[w][r] = owner[w][r]
      BY <2>1, <2>4, UnregisterEffect
    <3>2. CASE u = v /\ s = t /\ h = k
      BY <3>1, <3>2, NamesAssumption DEF Sound
    <3>3. CASE u # v \/ s # t \/ h # k
      <4>1. owner'[u][s] = h => owner[u][s] = h
        BY <3>1, NamesAssumption
      <4> QED
        BY <1>3, <2>4, <3>3, <4>1
    <3> QED
      BY <3>2, <3>3
  <2> QED
    BY <2>2, <2>3, <2>4
<1> QED
  BY <1>4, <1>5

LEMMA TicketSound ==
  ASSUME TypeOK, Wiring, NEW c \in Conns,
         \/ \E v \in Users, t \in Sessions : PrintTicket(c, v, t)
         \/ \E k \in Hubs : Accept(c, k),
         NEW u \in Users, NEW s \in Sessions, NEW h \in Hubs, Sound(u, s, h)
  PROVE  Sound(u, s, h)'
<1>1. UNCHANGED <<hub, busy, clients, owner, leaked>>
  BY TicketEffect
<1>2. /\ clients[h][s] # c /\ (busy[h] # Idle => busy[h].conn # c)
      /\ \A d \in Conns \ {c} : userOf'[d] = userOf[d] /\ sessionOf'[d] = sessionOf[d]
  BY TicketEffect
<1>3. clients[h][s] # NoConn => userOf'[clients[h][s]] = userOf[clients[h][s]]
  BY <1>2, PlacedUser
<1>4. busy[h].op = "unregister" =>
        /\ userOf'[busy[h].conn] = userOf[busy[h].conn]
        /\ sessionOf'[busy[h].conn] = sessionOf[busy[h].conn]
  BY <1>2, WorkerNames DEF Idle
<1> QED
  BY <1>1, <1>3, <1>4 DEF Sound, Led

LEMMA SoundStep ==
  ASSUME TypeOK, Wiring, PresentWithASession, StrayRouteHasACause, [Next]_vars
  PROVE  StrayRouteHasACause'
<1>1. \A u \in Users, s \in Sessions, h \in Hubs : Sound(u, s, h)
  BY SoundRoutes
<1> SUFFICES ASSUME NEW u \in Users, NEW s \in Sessions, NEW h \in Hubs
             PROVE  Sound(u, s, h)'
  BY DEF StrayRouteHasACause, Sound, Led
<1>2. Sound(u, s, h)
  BY <1>1
<1>3. ASSUME UNCHANGED <<hub, busy, clients, userOf, sessionOf, owner, leaked>>
      PROVE  Sound(u, s, h)'
  BY <1>2, <1>3 DEF Sound, Led
<1>4. ASSUME NEW c \in Conns, Open(c) \/ ReaderEnds(c) \/ Leave(c)
      PROVE  Sound(u, s, h)'
  BY <1>3, <1>4, PumpEffect
<1>5. ASSUME \/ \E k \in Hubs : Subscribe(k) \/ WriteEvent(k)
             \/ \E d \in Conns : Close(d) \/ WriterFails(d) \/ Flush(d)
             \/ \E p \in Publishers :
                  \/ \E to \in Audiences, form \in {"only", "without"},
                        listed \in SUBSET Sessions : ReadTargets(p, to, form, listed)
                  \/ PublishBatch(p)
             \/ UNCHANGED vars
      PROVE  Sound(u, s, h)'
  <2>1. UNCHANGED <<hub, busy, clients, userOf, sessionOf>>
    BY <1>5, OtherWiring DEF connVars
  <2>2. UNCHANGED <<owner, leaked>>
    BY <1>5, OtherHistory
  <2> QED
    BY <1>3, <2>1, <2>2
<1> QED
  BY <1>2, <1>4, <1>5, FinishSound, TakeSound, StageSound, RedisSound, TicketSound
  DEF Next, RunStep
-----------------------------------------------------------------------------
(***************************************************************************)
(* What is written where.                                                  *)
(***************************************************************************)
Blank == \A c \in Conns : phase[c] \notin Registered => send[c] = <<>> /\ got[c] = <<>>

\* A connection has its user and session from its ticket on.
LEMMA ConnsKept ==
  ASSUME TypeOK, Wiring, [Next]_vars, NEW c \in Conns
  PROVE  /\ phase[c] # "none" => /\ phase'[c] # "none"
                                 /\ userOf'[c] = userOf[c] /\ sessionOf'[c] = sessionOf[c]
         /\ phase[c] \in Registered => phase'[c] \in Registered /\ hubOf'[c] = hubOf[c]
<1> DEFINE Goal == /\ phase[c] # "none" => /\ phase'[c] # "none"
                                           /\ userOf'[c] = userOf[c] /\ sessionOf'[c] = sessionOf[c]
                   /\ phase[c] \in Registered => phase'[c] \in Registered /\ hubOf'[c] = hubOf[c]
<1>1. ASSUME UNCHANGED connVars
      PROVE  Goal
  BY <1>1 DEF connVars
<1>2. ASSUME NEW h \in Hubs, Start(h) \/ RunStep(h) \/ BeginStop(h)
      PROVE  Goal
  <2>1. UNCHANGED connVars
    BY <1>2 DEF Start, RunStep, TakeRegister, FinishRegister, TakeUnregister, FinishUnregister,
                BeginStop
  <2> QED
    BY <1>1, <2>1
<1>3. ASSUME NEW h \in Hubs, EndStop(h) \/ Die(h)
      PROVE  Goal
  <2>1. UNCHANGED <<userOf, sessionOf, hubOf>> /\ phase'[c] \in {phase[c], "gone"}
    BY <1>3, EndEffect
  <2> QED
    BY <2>1 DEF Registered
<1>4. ASSUME NEW d \in Conns,
             \/ \E u \in Users, s \in Sessions : PrintTicket(d, u, s)
             \/ \E h \in Hubs : Accept(d, h)
      PROVE  Goal
  <2>1. CASE c = d
    BY <1>4, <2>1, TicketEffect DEF Registered
  <2>2. CASE c # d
    BY <1>4, <2>2, TicketEffect
  <2> QED
    BY <2>1, <2>2
<1>5. ASSUME NEW d \in Conns, Open(d) \/ ReaderEnds(d) \/ Leave(d)
      PROVE  Goal
  <2>1. /\ UNCHANGED <<userOf, sessionOf, hubOf>>
        /\ IF c = d THEN phase'[c] \in Registered ELSE phase'[c] = phase[c]
    BY <1>5, PumpEffect
  <2> QED
    BY <2>1 DEF Registered
<1>6. ASSUME UNCHANGED <<hub, registerQ, unregisterQ, busy, clients, connVars>>
      PROVE  Goal
  BY <1>1, <1>6
<1> QED
  BY <1>2, <1>3, <1>4, <1>5, <1>6, OtherWiring DEF Next

\* An entry of the first event of h is written.
Wrote(h, e) ==
  /\ inbox[h] # <<>> /\ e \in Head(inbox[h]).entries
  /\ inbox'[h] = IF Head(inbox[h]).entries \ {e} = {} THEN Tail(inbox[h])
                 ELSE Shorter(inbox[h], Head(inbox[h]).entries \ {e})
  /\ \A k \in Hubs \ {h} : inbox'[k] = inbox[k]
  /\ \A c \in Conns :
       \/ send'[c] = send[c]
       \/ /\ c \in Named(h, e[2]) /\ Len(send[c]) < SendLength
          /\ send'[c] = Append(send[c], Head(inbox[h]).message)
  /\ UNCHANGED <<got, pending, log, again>>

LEMMA WroteSome ==
  ASSUME TypeOK, NEW h \in Hubs, WriteEvent(h)
  PROVE  \E e \in Users \X Sessions : Wrote(h, e)
<1>1. inbox[h] # <<>> /\ inbox \in [Hubs -> Seq(Events)]
  BY EntryWritten DEF TypeOK
<1>2. PICK e \in Head(inbox[h]).entries :
        LET named == Named(h, e[2])
            full == {c \in named : Len(send[c]) >= SendLength}
            rest == Head(inbox[h]).entries \ {e}
        IN /\ e \in Users \X Sessions
           /\ send' = [c \in Conns |->
                         IF c \in named \ full THEN Append(send[c], Head(inbox[h]).message)
                         ELSE send[c]]
           /\ inbox' = [inbox EXCEPT ![h] = IF rest = {} THEN Tail(@) ELSE Shorter(@, rest)]
  BY EntryWritten
<1> DEFINE rest == Head(inbox[h]).entries \ {e}
           r == IF rest = {} THEN Tail(inbox[h]) ELSE Shorter(inbox[h], rest)
<1>3. inbox' = [inbox EXCEPT ![h] = r]
  BY <1>2
<1>4. inbox'[h] = r /\ \A k \in Hubs \ {h} : inbox'[k] = inbox[k]
  <2> HIDE DEF r
  <2> QED
    BY <1>1, <1>3
<1>5. \A c \in Conns :
        \/ send'[c] = send[c]
        \/ /\ c \in Named(h, e[2]) /\ Len(send[c]) < SendLength
           /\ send'[c] = Append(send[c], Head(inbox[h]).message)
  <2>1. \A c \in Conns : Len(send[c]) \in Nat /\ SendLength \in Nat
    BY BoundsAssumption DEF TypeOK
  <2> QED
    BY <1>2, <2>1
<1>6. UNCHANGED <<got, pending, log, again>>
  BY DEF WriteEvent
<1>7. Wrote(h, e)
  BY <1>1, <1>4, <1>5, <1>6 DEF Wrote
<1> QED
  BY <1>2, <1>7

(***************************************************************************)
(* What is left of a queue: each event has the message of the one that was *)
(* there, and no more entries.                                             *)
(***************************************************************************)
Left(q, r, rest, k) ==
  \A i \in 1..Len(r) :
    /\ i + k \in 1..Len(q)
    /\ r[i].message = q[i + k].message /\ r[i].entries \subseteq q[i + k].entries
    /\ i + k = 1 => r[i].entries = rest

LEMMA Consumed ==
  ASSUME NEW q \in Seq(Events), q # <<>>, NEW rest \in SUBSET (Users \X Sessions),
         rest \subseteq Head(q).entries
  PROVE  \E k \in {0, 1} : Left(q, IF rest = {} THEN Tail(q) ELSE Shorter(q, rest), rest, k)
<1>1. Len(q) \in Nat \ {0} /\ Head(q) = q[1]
  OBVIOUS
<1>2. CASE rest = {}
  <2>1. Len(Tail(q)) = Len(q) - 1 /\ \A i \in 1..Len(Tail(q)) : Tail(q)[i] = q[i + 1]
    OBVIOUS
  <2>2. Left(q, Tail(q), rest, 1)
    BY <1>1, <2>1 DEF Left
  <2> QED
    BY <1>2, <2>2
<1>3. CASE rest # {}
  <2> DEFINE r == Shorter(q, rest)
  <2>1. /\ Len(r) = Len(q) /\ r[1].message = Head(q).message /\ r[1].entries = rest
        /\ \A i \in 2..Len(q) : r[i] = q[i]
    BY ShorterQueue
  <2> HIDE DEF r
  <2>2. \A i \in 1..Len(q) : i + 0 = i /\ (i = 1 \/ i \in 2..Len(q))
    BY <1>1
  <2>3. Left(q, r, rest, 0)
    BY <1>1, <2>1, <2>2 DEF Left
  <2> QED
    BY <1>3, <2>3 DEF r
<1> QED
  BY <1>2, <1>3

LEMMA LeftElements ==
  ASSUME NEW q, NEW r, NEW rest, NEW k, Left(q, r, rest, k), NEW d \in Elements(r)
  PROVE  \E e \in Elements(q) : d.message = e.message /\ d.entries \subseteq e.entries
<1>1. PICK i \in 1..Len(r) : d = r[i]
  BY DEF Elements
<1>2. q[i + k] \in Elements(q)
  BY DEF Left, Elements
<1> QED
  BY <1>1, <1>2 DEF Left

LEMMA WroteLeft ==
  ASSUME TypeOK, NEW h \in Hubs, NEW e, Wrote(h, e)
  PROVE  /\ inbox[h] \in Seq(Events) /\ Head(inbox[h]) \in Events
         /\ Head(inbox[h]) \in Elements(inbox[h]) /\ Head(inbox[h]).message \in Messages
         /\ \E k \in {0, 1} : Left(inbox[h], inbox'[h], Head(inbox[h]).entries \ {e}, k)
<1>1. inbox[h] \in Seq(Events) /\ inbox[h] # <<>>
  BY DEF TypeOK, Wrote
<1>2. Head(inbox[h]) \in Events /\ Head(inbox[h]) \in Elements(inbox[h])
  BY <1>1, Taken
<1>3. Head(inbox[h]).message \in Messages /\ Head(inbox[h]).entries \in SUBSET (Users \X Sessions)
  BY <1>2 DEF Events
<1> DEFINE rest == Head(inbox[h]).entries \ {e}
<1>4. rest \in SUBSET (Users \X Sessions) /\ rest \subseteq Head(inbox[h]).entries
  BY <1>3
<1>5. inbox'[h] = IF rest = {} THEN Tail(inbox[h]) ELSE Shorter(inbox[h], rest)
  BY DEF Wrote
<1> HIDE DEF rest
<1>6. \E k \in {0, 1} : Left(inbox[h], inbox'[h], rest, k)
  BY <1>1, <1>4, <1>5, Consumed
<1> QED
  BY <1>1, <1>2, <1>3, <1>6 DEF rest

Still(c) == send'[c] = send[c] /\ got'[c] = got[c]
Dropped(c) == send'[c] = <<>> /\ got'[c] \in {got[c], <<>>}
Flushed(c) == send'[c] = <<>> /\ got'[c] = got[c] \o send[c]
Queues(c, h, e) ==
  /\ Wrote(h, e) /\ got'[c] = got[c]
  /\ c \in Named(h, e[2]) /\ Len(send[c]) < SendLength
  /\ send'[c] = Append(send[c], Head(inbox[h]).message)

Moved(c) ==
  \/ Still(c) \/ Dropped(c) \/ Flushed(c)
  \/ \E h \in Hubs, e \in Users \X Sessions : Queues(c, h, e)

LEMMA Writes ==
  ASSUME TypeOK, Wiring, [Next]_vars, NEW c \in Conns
  PROVE  Moved(c)
<1>1. ASSUME UNCHANGED <<send, got>>
      PROVE  Moved(c)
  BY <1>1 DEF Still, Moved
<1>2. ASSUME NEW h \in Hubs, Start(h) \/ Subscribe(h) \/ RunStep(h) \/ BeginStop(h)
      PROVE  Moved(c)
  <2>1. UNCHANGED <<send, got>>
    BY <1>2 DEF Start, Subscribe, RunStep, TakeRegister, FinishRegister, TakeUnregister,
                FinishUnregister, BeginStop, messageVars
  <2> QED
    BY <1>1, <2>1
<1>3. ASSUME NEW d \in Conns, 
             \/ \E u \in Users, s \in Sessions : PrintTicket(d, u, s)
             \/ \E h \in Hubs : Accept(d, h)
             \/ Close(d) \/ Open(d) \/ ReaderEnds(d)
      PROVE  Moved(c)
  <2>1. UNCHANGED <<send, got>>
    BY <1>3 DEF PrintTicket, Accept, Close, Open, ReaderEnds, messageVars
  <2> QED
    BY <1>1, <2>1
<1>4. ASSUME NEW u \in Users, Expire(u)
      PROVE  Moved(c)
  <2>1. UNCHANGED <<send, got>>
    BY <1>4 DEF Expire, messageVars
  <2> QED
    BY <1>1, <2>1
<1>5. ASSUME NEW x \in late, LateRuns(x)
      PROVE  Moved(c)
  <2>1. UNCHANGED <<send, got>>
    BY <1>5 DEF LateRuns, messageVars
  <2> QED
    BY <1>1, <2>1
<1>6. ASSUME NEW p \in Publishers, 
             \/ \E to \in Audiences, form \in {"only", "without"}, listed \in SUBSET Sessions :
                  ReadTargets(p, to, form, listed)
             \/ PublishBatch(p)
      PROVE  Moved(c)
  <2>1. UNCHANGED <<send, got>>
    BY <1>6 DEF ReadTargets, PublishBatch
  <2> QED
    BY <1>1, <2>1
<1>7. ASSUME UNCHANGED vars
      PROVE  Moved(c)
  <2>1. UNCHANGED <<send, got>>
    BY <1>7 DEF vars, messageVars
  <2> QED
    BY <1>1, <2>1
<1>8. ASSUME NEW h \in Hubs, EndStop(h) \/ Die(h)
      PROVE  Moved(c)
  <2>1. Still(c) \/ Dropped(c)
    BY <1>8, EndEffect DEF Still, Dropped
  <2> QED
    BY <2>1 DEF Moved
<1>9. ASSUME NEW d \in Conns, Leave(d)
      PROVE  Moved(c)
  <2>1. Still(c) \/ Dropped(c)
    BY <1>9, PumpEffect DEF Still, Dropped
  <2> QED
    BY <2>1 DEF Moved
<1>10. ASSUME NEW d \in Conns, WriterFails(d)
      PROVE  Moved(c)
  <2>1. Still(c) \/ Dropped(c)
    BY <1>10 DEF WriterFails, TypeOK, Still, Dropped
  <2> QED
    BY <2>1 DEF Moved
<1>11. ASSUME NEW d \in Conns, Flush(d)
      PROVE  Moved(c)
  <2>1. Still(c) \/ Flushed(c)
    BY <1>11 DEF Flush, TypeOK, Still, Flushed
  <2> QED
    BY <2>1 DEF Moved
<1>12. ASSUME NEW h \in Hubs, WriteEvent(h)
      PROVE  Moved(c)
  <2>1. PICK e \in Users \X Sessions : Wrote(h, e)
    BY <1>12, WroteSome
  <2>2. Still(c) \/ Queues(c, h, e)
    BY <2>1 DEF Wrote, Still, Queues
  <2> QED
    BY <2>2 DEF Moved
<1> QED
  BY <1>2, <1>3, <1>4, <1>5, <1>6, <1>7, <1>8, <1>9, <1>10, <1>11, <1>12 DEF Next

\* An entry names the client it is written to.
LEMMA NamedClient ==
  ASSUME TypeOK, Wiring, NEW h \in Hubs, NEW e \in Users \X Sessions,
         NEW c \in Conns, c \in Named(h, e[2])
  PROVE  sessionOf[c] = e[2] /\ hubOf[c] = h /\ phase[c] \in Registered
<1>1. clients[h][e[2]] = c /\ e[2] \in Sessions
  BY DEF Named
<1> QED
  BY <1>1 DEF Wiring, Placed

LEMMA BlankStep ==
  ASSUME TypeOK, Wiring, Blank, [Next]_vars
  PROVE  Blank'
<1> SUFFICES ASSUME NEW c \in Conns, phase'[c] \notin Registered
             PROVE  send'[c] = <<>> /\ got'[c] = <<>>
  BY DEF Blank
<1>1. phase[c] \notin Registered
  BY ConnsKept
<1>2. send[c] = <<>> /\ got[c] = <<>>
  BY <1>1 DEF Blank
<1>3. ~\E h \in Hubs, e \in Users \X Sessions : Queues(c, h, e)
  BY <1>1, NamedClient DEF Queues
<1>4. got[c] \o send[c] = <<>>
  BY <1>2
<1> QED
  BY <1>2, <1>3, <1>4, Writes DEF Moved, Still, Dropped, Flushed
-----------------------------------------------------------------------------
(***************************************************************************)
(* A session other than the nil one has one user, in tickets, routes,      *)
(* broadcasts and events; so what is written under it is for that user.    *)
(***************************************************************************)
OneUser ==
  \A c, d \in Conns :
    phase[c] # "none" /\ phase[d] # "none"
      /\ sessionOf[c] = sessionOf[d] /\ sessionOf[c] # NilSession
      => userOf[c] = userOf[d]

Held(u, s) == \E c \in Conns : phase[c] # "none" /\ userOf[c] = u /\ sessionOf[c] = s

RoutesHeld ==
  /\ \A u \in Users, s \in Sessions \ {NilSession} : owner[u][s] # NoHub => Held(u, s)
  /\ \A x \in late : x.session # NilSession => Held(x.user, x.session)

\* A broadcast, or an event, names the sessions of those it is for.
FitsBroadcast(b) ==
  \A t \in b.targets : t[1] \in b.to /\ (t[3] # NilSession => Held(t[1], t[3]))
FitsEvent(e) ==
  \A x \in e.entries : x[1] \in e.message.to /\ (x[2] # NilSession => Held(x[1], x[2]))

Addressed ==
  /\ \A p \in Publishers : pending[p] # NoEvent => FitsBroadcast(pending[p])
  /\ \A h \in Hubs : \A e \in Elements(inbox[h]) : FitsEvent(e)

Mine(c, m) == userOf[c] \in m.to \/ sessionOf[c] = NilSession

Written == \A c \in Conns : \A m \in Elements(got[c]) \cup Elements(send[c]) : Mine(c, m)

LEMMA HeldStays ==
  ASSUME TypeOK, Wiring, [Next]_vars, NEW u, NEW s, Held(u, s)
  PROVE  Held(u, s)'
BY ConnsKept DEF Held

\* A connection gets its ticket once.
LEMMA NewTicket ==
  ASSUME TypeOK, Wiring, [Next]_vars, NEW c \in Conns, phase[c] = "none", phase'[c] # "none"
  PROVE  /\ sessionOf'[c] # NilSession =>
              \A d \in Conns : sessionOf[d] = sessionOf'[c] => userOf[d] = userOf'[c]
         /\ \A d \in Conns \ {c} : phase'[d] = phase[d]
<1> DEFINE Goal == /\ sessionOf'[c] # NilSession =>
                        \A d \in Conns : sessionOf[d] = sessionOf'[c] => userOf[d] = userOf'[c]
                   /\ \A d \in Conns \ {c} : phase'[d] = phase[d]
<1>1. ASSUME NEW d \in Conns, NEW u \in Users, NEW s \in Sessions, PrintTicket(d, u, s)
      PROVE  Goal
  <2>1. /\ phase' = [phase EXCEPT ![d] = "ticket"]
        /\ userOf' = [userOf EXCEPT ![d] = u] /\ sessionOf' = [sessionOf EXCEPT ![d] = s]
        /\ s = NilSession \/ \A e \in Conns : sessionOf[e] = s => userOf[e] = u
    BY <1>1 DEF PrintTicket
  <2>2. d = c
    BY <2>1 DEF TypeOK
  <2>3. sessionOf'[c] = s /\ userOf'[c] = u /\ \A e \in Conns \ {c} : phase'[e] = phase[e]
    BY <2>1, <2>2 DEF TypeOK
  <2> QED
    BY <2>1, <2>3
<1>2. ASSUME UNCHANGED phase
      PROVE  Goal
  BY <1>2
<1>3. ASSUME NEW h \in Hubs, Start(h) \/ RunStep(h) \/ BeginStop(h)
      PROVE  Goal
  <2>1. UNCHANGED phase
    BY <1>3 DEF Start, RunStep, TakeRegister, FinishRegister, TakeUnregister, FinishUnregister,
                BeginStop, connVars
  <2> QED
    BY <1>2, <2>1
<1>4. ASSUME NEW h \in Hubs, EndStop(h) \/ Die(h)
      PROVE  Goal
  <2>1. hubOf[c] = NoHub
    BY DEF Wiring, Entered
  <2>2. phase'[c] = phase[c]
    BY <1>4, <2>1, EndEffect, NamesAssumption
  <2> QED
    BY <2>2
<1>5. ASSUME NEW d \in Conns, NEW h \in Hubs, Accept(d, h)
      PROVE  Goal
  <2>1. phase[d] = "ticket" /\ phase' = [phase EXCEPT ![d] = "accepted"]
    BY <1>5 DEF Accept
  <2>2. phase'[c] = phase[c]
    BY <2>1 DEF TypeOK
  <2> QED
    BY <2>2
<1>6. ASSUME NEW d \in Conns, Open(d) \/ ReaderEnds(d) \/ Leave(d)
      PROVE  Goal
  <2>1. c # d /\ phase'[c] = phase[c]
    BY <1>6, PumpEffect
  <2> QED
    BY <2>1
<1>7. ASSUME UNCHANGED <<hub, registerQ, unregisterQ, busy, clients, connVars>>
      PROVE  Goal
  BY <1>2, <1>7 DEF connVars
<1> QED
  BY <1>1, <1>3, <1>4, <1>5, <1>6, <1>7, OtherWiring DEF Next

LEMMA OneUserStep ==
  ASSUME TypeOK, Wiring, OneUser, [Next]_vars
  PROVE  OneUser'
<1> SUFFICES ASSUME NEW c \in Conns, NEW d \in Conns,
                    phase'[c] # "none", phase'[d] # "none",
                    sessionOf'[c] = sessionOf'[d], sessionOf'[c] # NilSession
             PROVE  userOf'[c] = userOf'[d]
  BY DEF OneUser
<1>1. CASE phase[c] # "none" /\ phase[d] # "none"
  BY <1>1, ConnsKept DEF OneUser
<1>2. CASE phase[c] = "none" /\ c # d
  <2>1. phase[d] # "none"
    BY <1>2, NewTicket
  <2>2. userOf'[d] = userOf[d] /\ sessionOf'[d] = sessionOf[d]
    BY <2>1, ConnsKept
  <2> QED
    BY <1>2, <2>2, NewTicket
<1>3. CASE phase[d] = "none" /\ c # d
  <2>1. phase[c] # "none"
    BY <1>3, NewTicket
  <2>2. userOf'[c] = userOf[c] /\ sessionOf'[c] = sessionOf[c]
    BY <2>1, ConnsKept
  <2> QED
    BY <1>3, <2>2, NewTicket
<1> QED
  BY <1>1, <1>2, <1>3

LEMMA HeldStep ==
  ASSUME TypeOK, Wiring, PresentWithASession, RoutesHeld, [Next]_vars
  PROVE  RoutesHeld'
<1> DEFINE New == /\ \A u \in Users, s \in Sessions \ {NilSession} :
                       owner'[u][s] # NoHub => Held(u, s)
                  /\ \A x \in late' : x.session # NilSession => Held(x.user, x.session)
<1> SUFFICES New
  BY HeldStays DEF RoutesHeld
<1>1. CASE UNCHANGED <<owner, present, late>>
  BY <1>1 DEF RoutesHeld
<1>2. ASSUME NEW h \in Hubs, FinishRegister(h) \/ FinishUnregister(h)
      PROVE  New
  <2> DEFINE c == busy[h].conn
             u == userOf[c]
             s == sessionOf[c]
  <2>1. /\ c \in Conns /\ u \in Users /\ s \in Sessions
        /\ hubOf[c] = h
    BY <1>2, Worker DEF FinishRegister, FinishUnregister
  <2>2. Held(u, s)
    BY <2>1, NamesAssumption DEF Held, Wiring, Entered
  <2>3. \/ RunRegister(u, s, h) \/ RunUnregister(u, s, h) \/ UNCHANGED owner
    BY <1>2 DEF FinishRegister, FinishUnregister
  <2>4. \A x \in late' : x \in late \/ (x.user = u /\ x.session = s)
    BY <1>2 DEF FinishRegister, FinishUnregister
  <2> HIDE DEF c, u, s
  <2>5. \A v \in Users, t \in Sessions :
          owner'[v][t] # NoHub => owner[v][t] # NoHub \/ (v = u /\ t = s)
    BY <2>1, <2>3, RegisterEffect, UnregisterEffect
  <2> QED
    BY <2>2, <2>4, <2>5 DEF RoutesHeld
<1>3. ASSUME NEW u \in Users, Expire(u)
      PROVE  New
  <2>1. owner' = [owner EXCEPT ![u] = NoRoutes] /\ UNCHANGED late
    BY <1>3 DEF Expire
  <2>2. \A v \in Users, t \in Sessions : owner'[v][t] \in {owner[v][t], NoHub}
    BY <2>1 DEF TypeOK, NoRoutes
  <2> QED
    BY <2>1, <2>2 DEF RoutesHeld
<1>4. ASSUME NEW x \in late, LateRuns(x)
      PROVE  New
  <2>1. x.user \in Users /\ x.session \in Sessions /\ x.hub \in Hubs
    BY DEF TypeOK, Scripts
  <2>2. /\ RunRegister(x.user, x.session, x.hub) \/ RunUnregister(x.user, x.session, x.hub)
        /\ late' \subseteq late
    BY <1>4 DEF LateRuns
  <2>3. \A v \in Users, t \in Sessions :
          owner'[v][t] # NoHub => owner[v][t] # NoHub \/ (v = x.user /\ t = x.session)
    BY <2>1, <2>2, RegisterEffect, UnregisterEffect
  <2>4. x.session # NilSession => Held(x.user, x.session)
    BY DEF RoutesHeld
  <2> QED
    BY <2>2, <2>3, <2>4 DEF RoutesHeld
<1> HIDE DEF New
<1> QED
  BY <1>1, <1>2, <1>3, <1>4, RoutesKept

\* What a step does to the broadcasts and to the events that wait
LEMMA EventsKept ==
  ASSUME TypeOK, Wiring, [Next]_vars
  PROVE  \/ UNCHANGED <<pending, inbox, log, again>>
         \/ \E h \in Hubs :
              /\ inbox'[h] = <<>> /\ \A k \in Hubs \ {h} : inbox'[k] = inbox[k]
              /\ UNCHANGED <<pending, log, again>>
         \/ \E h \in Hubs, e \in Users \X Sessions : Wrote(h, e)
         \/ \E p \in Publishers, to \in Audiences, form \in {"only", "without"},
               listed \in SUBSET Sessions :
              ReadTargets(p, to, form, listed) /\ UNCHANGED <<inbox, log, again>>
         \/ \E p \in Publishers : PublishBatch(p)
<1>1. ASSUME NEW h \in Hubs, Start(h) \/ Subscribe(h) \/ RunStep(h) \/ BeginStop(h)
      PROVE  UNCHANGED <<pending, inbox, log, again>>
  BY <1>1 DEF Start, Subscribe, RunStep, TakeRegister, FinishRegister, TakeUnregister,
              FinishUnregister, BeginStop, messageVars
<1>2. ASSUME NEW h \in Hubs, EndStop(h) \/ Die(h)
      PROVE  /\ inbox'[h] = <<>>
             /\ \A k \in Hubs \ {h} : inbox'[k] = inbox[k]
             /\ UNCHANGED <<pending, log, again>>
  BY <1>2, EndEffect
<1>3. ASSUME NEW h \in Hubs, WriteEvent(h)
      PROVE  \E e \in Users \X Sessions : Wrote(h, e)
  BY <1>3, WroteSome
<1>4. ASSUME NEW c \in Conns,
             \/ \E u \in Users, s \in Sessions : PrintTicket(c, u, s)
             \/ \E h \in Hubs : Accept(c, h)
             \/ Open(c) \/ ReaderEnds(c) \/ Leave(c) \/ Close(c) \/ WriterFails(c) \/ Flush(c)
      PROVE  UNCHANGED <<pending, inbox, log, again>>
  BY <1>4 DEF PrintTicket, Accept, Open, ReaderEnds, Leave, Close, WriterFails, Flush, messageVars
<1>5. ASSUME NEW u \in Users, Expire(u)
      PROVE  UNCHANGED <<pending, inbox, log, again>>
  BY <1>5 DEF Expire, messageVars
<1>6. ASSUME NEW x \in late, LateRuns(x)
      PROVE  UNCHANGED <<pending, inbox, log, again>>
  BY <1>6 DEF LateRuns, messageVars
<1>7. ASSUME NEW p, NEW to, NEW form, NEW listed, ReadTargets(p, to, form, listed)
      PROVE  UNCHANGED <<inbox, log, again>>
  BY <1>7 DEF ReadTargets
<1>8. CASE UNCHANGED vars
  BY <1>8 DEF vars, messageVars
<1> QED
  BY <1>1, <1>2, <1>3, <1>4, <1>5, <1>6, <1>7, <1>8 DEF Next

\* What a publication leaves of the broadcast, and puts in the channels
LEMMA Batch ==
  ASSUME TypeOK, NEW p \in Publishers, PublishBatch(p)
  PROVE  /\ pending[p] # NoEvent /\ pending[p] \in Broadcasts
         /\ \A h \in Hubs : inbox'[h] \in {inbox[h], Append(inbox[h], EventFor(p, h))}
         /\ \A r \in Publishers \ {p} : pending'[r] = pending[r]
         /\ \/ pending'[p] = NoEvent
            \/ /\ pending'[p].to = pending[p].to /\ pending'[p].targets = pending[p].targets
               /\ pending'[p].n = NumberOf(p)
<1>1. pending[p] # NoEvent /\ pending \in [Publishers -> Broadcasts \cup {NoEvent}]
  BY DEF PublishBatch, TypeOK
<1>2. pending[p] \in Broadcasts
  BY <1>1
<1>3. \/ pending' = [pending EXCEPT ![p] = NoEvent]
      \/ pending' = [pending EXCEPT ![p] = [@ EXCEPT !.n = NumberOf(p)]]
  BY DEF PublishBatch
<1>4. \A r \in Publishers \ {p} : pending'[r] = pending[r]
  BY <1>1, <1>3
<1>5. pending'[p] = NoEvent \/ pending'[p] = [pending[p] EXCEPT !.n = NumberOf(p)]
  BY <1>1, <1>3
<1>6. \A h \in Hubs : inbox'[h] \in {inbox[h], Append(inbox[h], EventFor(p, h))}
  BY DEF PublishBatch
<1> QED
  BY <1>1, <1>2, <1>4, <1>5, <1>6 DEF Broadcasts

LEMMA AddressedStep ==
  ASSUME TypeOK, Wiring, RoutesHeld, Addressed, [Next]_vars
  PROVE  Addressed'
<1> DEFINE New == /\ \A p \in Publishers : pending'[p] # NoEvent => FitsBroadcast(pending'[p])
                  /\ \A h \in Hubs : \A e \in Elements(inbox'[h]) : FitsEvent(e)
<1> SUFFICES New
  <2>1. \A u, s : Held(u, s) => Held(u, s)'
    BY HeldStays
  <2> QED
    BY <2>1 DEF Addressed, FitsBroadcast, FitsEvent
<1>1. CASE UNCHANGED <<pending, inbox, log, again>>
  BY <1>1 DEF Addressed
<1>2. ASSUME NEW h \in Hubs, inbox'[h] = <<>>, \A k \in Hubs \ {h} : inbox'[k] = inbox[k],
             UNCHANGED pending
      PROVE  New
  BY <1>2, EmptyQueue DEF Addressed
<1>3. ASSUME NEW h \in Hubs, NEW e, Wrote(h, e)
      PROVE  New
  <2>1. (\A k \in Hubs \ {h} : inbox'[k] = inbox[k]) /\ UNCHANGED pending
    BY <1>3 DEF Wrote
  <2>2. ASSUME NEW d \in Elements(inbox'[h])
        PROVE  FitsEvent(d)
    <3>1. PICK x \in Elements(inbox[h]) : d.message = x.message /\ d.entries \subseteq x.entries
      <4>1. PICK k \in {0, 1} : Left(inbox[h], inbox'[h], Head(inbox[h]).entries \ {e}, k)
        BY <1>3, WroteLeft
      <4> QED
        BY <4>1, LeftElements
    <3>2. FitsEvent(x)
      BY DEF Addressed
    <3> QED
      BY <3>1, <3>2 DEF FitsEvent
  <2> QED
    BY <2>1, <2>2 DEF Addressed
<1>4. ASSUME NEW p \in Publishers, NEW to \in Audiences, NEW form, NEW listed,
             ReadTargets(p, to, form, listed), UNCHANGED inbox
      PROVE  New
  <2>1. PICK targets \in SUBSET (to \X Hubs \X Sessions) :
          /\ pending' = [pending EXCEPT ![p] = [to |-> to, targets |-> targets, n |-> 0]]
          /\ \A x \in targets : owner[x[1]][x[3]] = x[2]
    BY <1>4 DEF ReadTargets
  <2> DEFINE b == [to |-> to, targets |-> targets, n |-> 0]
  <2>2. ASSUME NEW x \in targets
        PROVE  x[1] \in to /\ (x[3] # NilSession => Held(x[1], x[3]))
    <3>1. x[1] \in to /\ x[1] \in Users /\ x[2] \in Hubs /\ x[3] \in Sessions
      BY AudiencesAssumption
    <3>2. owner[x[1]][x[3]] # NoHub
      BY <2>1, <3>1, NamesAssumption
    <3> QED
      BY <3>1, <3>2 DEF RoutesHeld
  <2>3. FitsBroadcast(b)
    BY <2>2 DEF FitsBroadcast
  <2> HIDE DEF b
  <2>4. pending'[p] = b /\ \A r \in Publishers \ {p} : pending'[r] = pending[r]
    BY <2>1 DEF TypeOK, b
  <2> QED
    BY <1>4, <2>3, <2>4 DEF Addressed
<1>5. ASSUME NEW p \in Publishers, PublishBatch(p)
      PROVE  New
  <2>1. FitsBroadcast(pending[p])
    BY <1>5, Batch DEF Addressed
  <2>2. \A h \in Hubs : FitsEvent(EventFor(p, h))
    BY <2>1 DEF FitsEvent, FitsBroadcast, EventFor
  <2>3. ASSUME NEW h \in Hubs
        PROVE  Elements(inbox'[h]) \subseteq Elements(inbox[h]) \cup {EventFor(p, h)}
    <3> DEFINE d == EventFor(p, h)
    <3>1. d \in Events /\ inbox[h] \in Seq(Events)
      BY <1>5, EventForHub DEF TypeOK
    <3>2. inbox'[h] \in {inbox[h], Append(inbox[h], d)}
      BY <1>5, Batch
    <3> HIDE DEF d
    <3>3. Elements(Append(inbox[h], d)) = Elements(inbox[h]) \cup {d}
      BY <3>1, Put
    <3>4. Elements(inbox'[h]) \subseteq Elements(inbox[h]) \cup {d}
      BY <3>2, <3>3
    <3> QED
      BY <3>4 DEF d
  <2>4. pending'[p] # NoEvent => FitsBroadcast(pending'[p])
    BY <1>5, <2>1, Batch DEF FitsBroadcast
  <2>5. \A r \in Publishers \ {p} : pending'[r] = pending[r]
    BY <1>5, Batch
  <2> QED
    BY <2>2, <2>3, <2>4, <2>5 DEF Addressed
<1> HIDE DEF New
<1> QED
  BY <1>1, <1>2, <1>3, <1>4, <1>5, EventsKept

LEMMA WrittenStep ==
  ASSUME TypeOK, Wiring, OneUser, Addressed, Blank, Written, [Next]_vars
  PROVE  Written'
<1> SUFFICES ASSUME NEW c \in Conns, NEW m \in Elements(got'[c]) \cup Elements(send'[c])
             PROVE  Mine(c, m)'
  BY DEF Written
<1>1. got[c] \in Seq(Messages) /\ send[c] \in Seq(Messages)
  BY DEF TypeOK
<1>2. Elements(got[c] \o send[c]) \subseteq Elements(got[c]) \cup Elements(send[c])
  BY <1>1, Joined
<1>3. ASSUME m \in Elements(got[c]) \cup Elements(send[c])
      PROVE  Mine(c, m)'
  <2>1. phase[c] # "none"
    BY <1>3, EmptyQueue DEF Blank, Registered
  <2>2. Mine(c, m)
    BY <1>3 DEF Written
  <2> QED
    BY <2>1, <2>2, ConnsKept DEF Mine
<1>4. CASE Still(c) \/ Dropped(c) \/ Flushed(c)
  BY <1>2, <1>3, <1>4, EmptyQueue DEF Still, Dropped, Flushed
<1>5. ASSUME NEW h \in Hubs, NEW e \in Users \X Sessions, Queues(c, h, e)
      PROVE  Mine(c, m)'
  <2> DEFINE d == Head(inbox[h])
  <2>1. sessionOf[c] = e[2] /\ hubOf[c] = h /\ phase[c] \in Registered
    BY <1>5, NamedClient DEF Queues
  <2>2. d \in Elements(inbox[h]) /\ d.message \in Messages /\ e \in d.entries
    BY <1>5, WroteLeft DEF Queues, Wrote
  <2>3. m \in Elements(got[c]) \cup Elements(send[c]) \/ m = d.message
    BY <1>1, <1>5, <2>2, Put DEF Queues
  <2>4. e[1] \in d.message.to /\ (e[2] # NilSession => Held(e[1], e[2]))
    BY <2>2 DEF Addressed, FitsEvent
  <2> HIDE DEF d
  <2>5. CASE m = d.message
    <3>1. CASE sessionOf[c] = NilSession
      BY <2>1, <3>1, ConnsKept DEF Mine, Registered
    <3>2. CASE sessionOf[c] # NilSession
      <4>1. userOf[c] = e[1]
        BY <2>1, <2>4, <3>2 DEF Held, OneUser, Registered
      <4> QED
        BY <2>1, <2>4, <2>5, <4>1, ConnsKept DEF Mine, Registered
    <3> QED
      BY <3>1, <3>2
  <2> QED
    BY <1>3, <2>3, <2>5
<1> QED
  BY <1>4, <1>5, Writes DEF Moved
-----------------------------------------------------------------------------
(***************************************************************************)
(* What waits anywhere is what was published under its number.             *)
(***************************************************************************)
Matches(l, m) == m.n \in 1..Len(l) /\ l[m.n] = m.to

Truthful(m) == Matches(log, m)

Recorded ==
  /\ \A p \in Publishers : pending[p] # NoEvent /\ pending[p].n # 0 => Truthful(pending[p])
  /\ \A h \in Hubs : \A e \in Elements(inbox[h]) : Truthful(e.message)
  /\ \A c \in Conns : \A m \in Elements(got[c]) \cup Elements(send[c]) : Truthful(m)

\* A batch has a number that it keeps: a new one, or one that it now has again.
LEMMA Numbered ==
  ASSUME TypeOK, Recorded, NEW p \in Publishers, PublishBatch(p)
  PROVE  /\ Matches(log', [n |-> NumberOf(p), to |-> pending[p].to])
         /\ \A m : Matches(log, m) => Matches(log', m)
         /\ again \subseteq again'
         /\ NumberOf(p) = published + 1 \/ NumberOf(p) \in again'
<1>1. log \in Seq(SUBSET Users) /\ pending[p] # NoEvent /\ pending[p] \in Broadcasts
  BY LogGrows DEF TypeOK, PublishBatch
<1>2. pending[p].to \in SUBSET Users
  BY <1>1 DEF Broadcasts
<1>3. CASE pending[p].n = 0
  <2>1. /\ log' = Append(log, pending[p].to) /\ again' = again
        /\ NumberOf(p) = Len(log) + 1
    BY <1>3, LogGrows DEF published
  <2>2. /\ Len(log') = Len(log) + 1 /\ Len(log) \in Nat /\ log'[Len(log) + 1] = pending[p].to
        /\ \A i \in 1..Len(log) : log'[i] = log[i]
    BY <1>1, <1>2, <2>1
  <2> QED
    BY <2>1, <2>2 DEF Matches, published
<1>4. CASE pending[p].n # 0
  <2>1. log' = log /\ again' = again \cup {NumberOf(p)} /\ NumberOf(p) = pending[p].n
    BY <1>4, LogGrows
  <2>2. Matches(log, pending[p])
    BY <1>1, <1>4 DEF Recorded, Truthful
  <2> QED
    BY <2>1, <2>2 DEF Matches
<1> QED
  BY <1>3, <1>4

\* What was published stays published.
LEMMA TruthStays ==
  ASSUME TypeOK, Wiring, Recorded, [Next]_vars
  PROVE  /\ \A m : Matches(log, m) => Matches(log', m)
         /\ again \subseteq again'
<1>1. CASE UNCHANGED <<log, again>>
  BY <1>1
<1>2. ASSUME NEW h \in Hubs, NEW e, Wrote(h, e)
      PROVE  UNCHANGED <<log, again>>
  BY <1>2 DEF Wrote
<1> QED
  BY <1>1, <1>2, Numbered, EventsKept

LEMMA BatchesRecorded ==
  ASSUME TypeOK, Wiring, Recorded, [Next]_vars, NEW p \in Publishers,
         pending'[p] # NoEvent, pending'[p].n # 0
  PROVE  Matches(log', pending'[p])
<1>1. CASE pending'[p] = pending[p]
  BY <1>1, TruthStays DEF Recorded, Truthful
<1>2. ASSUME NEW h \in Hubs, NEW e, Wrote(h, e)
      PROVE  UNCHANGED pending
  BY <1>2 DEF Wrote
<1>3. ASSUME NEW r \in Publishers, NEW to \in Audiences, NEW form, NEW listed,
             ReadTargets(r, to, form, listed)
      PROVE  pending'[p] = pending[p] \/ pending'[p].n = 0
  <2>1. PICK targets : pending' = [pending EXCEPT ![r] = [to |-> to, targets |-> targets, n |-> 0]]
    BY <1>3 DEF ReadTargets
  <2> QED
    BY <2>1 DEF TypeOK
<1>4. ASSUME NEW r \in Publishers, PublishBatch(r), pending'[p] # pending[p]
      PROVE  Matches(log', pending'[p])
  <2>1. r = p /\ pending'[p].to = pending[p].to /\ pending'[p].n = NumberOf(p)
    BY <1>4, Batch
  <2>2. Matches(log', [n |-> NumberOf(p), to |-> pending[p].to])
    BY <1>4, <2>1, Numbered
  <2> QED
    BY <2>1, <2>2 DEF Matches
<1> QED
  BY <1>1, <1>2, <1>3, <1>4, EventsKept

\* An event that is new to a channel is a new message, or one that comes again.
Fresh(e) == e.message.n = published + 1 \/ e.message.n \in again'

\* What a step does to one channel
LEMMA EventsGrow ==
  ASSUME TypeOK, Wiring, Recorded, [Next]_vars, NEW h \in Hubs
  PROVE  \/ inbox'[h] = inbox[h] \/ inbox'[h] = <<>>
         \/ \E e \in Users \X Sessions : Wrote(h, e)
         \/ \E e \in Events : /\ Fresh(e) /\ Matches(log', e.message)
                              /\ inbox'[h] = Append(inbox[h], e)
<1>1. ASSUME NEW k \in Hubs, inbox'[k] = <<>>, \A l \in Hubs \ {k} : inbox'[l] = inbox[l]
      PROVE  inbox'[h] = inbox[h] \/ inbox'[h] = <<>>
  BY <1>1
<1>2. ASSUME NEW k \in Hubs, NEW e \in Users \X Sessions, Wrote(k, e)
      PROVE  inbox'[h] = inbox[h] \/ Wrote(h, e)
  BY <1>2 DEF Wrote
<1>3. ASSUME NEW p \in Publishers, PublishBatch(p)
      PROVE  \/ inbox'[h] = inbox[h]
             \/ \E e \in Events : /\ Fresh(e) /\ Matches(log', e.message)
                                  /\ inbox'[h] = Append(inbox[h], e)
  <2> DEFINE e == EventFor(p, h)
  <2>1. e \in Events /\ e.message = [n |-> NumberOf(p), to |-> pending[p].to]
    BY <1>3, EventForHub DEF EventFor
  <2>2. Fresh(e) /\ Matches(log', e.message)
    BY <1>3, <2>1, Numbered DEF Fresh
  <2>3. inbox'[h] \in {inbox[h], Append(inbox[h], e)}
    BY <1>3, Batch
  <2> HIDE DEF e
  <2> QED
    BY <2>1, <2>2, <2>3
<1> QED
  BY <1>1, <1>2, <1>3, EventsKept

LEMMA EventsRecorded ==
  ASSUME TypeOK, Wiring, Recorded, [Next]_vars, NEW h \in Hubs, NEW e \in Elements(inbox'[h])
  PROVE  Matches(log', e.message)
<1>1. inbox[h] \in Seq(Events)
  BY DEF TypeOK
<1>2. \A d \in Elements(inbox[h]) : Matches(log', d.message)
  BY TruthStays DEF Recorded, Truthful
<1>3. CASE inbox'[h] = inbox[h] \/ inbox'[h] = <<>>
  BY <1>2, <1>3, EmptyQueue
<1>4. ASSUME NEW x, Wrote(h, x)
      PROVE  Matches(log', e.message)
  <2>1. PICK k \in {0, 1} : Left(inbox[h], inbox'[h], Head(inbox[h]).entries \ {x}, k)
    BY <1>4, WroteLeft
  <2>2. PICK d \in Elements(inbox[h]) : e.message = d.message
    BY <2>1, LeftElements
  <2> QED
    BY <1>2, <2>2
<1>5. ASSUME NEW d \in Events, Matches(log', d.message), inbox'[h] = Append(inbox[h], d)
      PROVE  Matches(log', e.message)
  BY <1>1, <1>2, <1>5, Put
<1> QED
  BY <1>3, <1>4, <1>5, EventsGrow

LEMMA RecordedStep ==
  ASSUME TypeOK, Wiring, Recorded, [Next]_vars
  PROVE  Recorded'
<1>1. ASSUME NEW c \in Conns, NEW m \in Elements(got'[c]) \cup Elements(send'[c])
      PROVE  Matches(log', m)
  <2>1. got[c] \in Seq(Messages) /\ send[c] \in Seq(Messages)
    BY DEF TypeOK
  <2>2. Elements(got[c] \o send[c]) \subseteq Elements(got[c]) \cup Elements(send[c])
    BY <2>1, Joined
  <2>3. \A k \in Elements(got[c]) \cup Elements(send[c]) : Matches(log', k)
    BY TruthStays DEF Recorded, Truthful
  <2>4. CASE Still(c) \/ Dropped(c) \/ Flushed(c)
    BY <1>1, <2>2, <2>3, <2>4, EmptyQueue DEF Still, Dropped, Flushed
  <2>5. ASSUME NEW h \in Hubs, NEW e \in Users \X Sessions, Queues(c, h, e)
        PROVE  Matches(log', m)
    <3> DEFINE d == Head(inbox[h])
    <3>1. d \in Elements(inbox[h]) /\ d.message \in Messages
      BY <2>5, WroteLeft DEF Queues
    <3>2. m \in Elements(got[c]) \cup Elements(send[c]) \/ m = d.message
      BY <1>1, <2>1, <2>5, <3>1, Put DEF Queues
    <3>3. Matches(log', d.message)
      BY <3>1, TruthStays DEF Recorded, Truthful
    <3> QED
      BY <2>3, <3>2, <3>3
  <2> QED
    BY <2>4, <2>5, Writes DEF Moved
<1> QED
  BY <1>1, BatchesRecorded, EventsRecorded DEF Recorded, Truthful
-----------------------------------------------------------------------------
(***************************************************************************)
(* Messages keep their order from the channel to the peer, but for those   *)
(* that were published again.                                              *)
(***************************************************************************)
Behind(a, m, k) == m.n < k.n \/ k.n \in a

\* MayFollow, for a connection under session s
May(a, s, m, k) == Behind(a, m, k) \/ (m.n = k.n /\ s = NilSession /\ Several(k.to))

InRow(a, s, q) == \A i, j \in 1..Len(q) : i < j => May(a, s, q[i], q[j])

LEMMA Rows ==
  ASSUME NEW a, NEW s, NEW q \in Seq(Messages), NEW r \in Seq(Messages), InRow(a, s, q \o r)
  PROVE  /\ \A b : a \subseteq b => InRow(b, s, q \o r)
         /\ InRow(a, s, <<>> \o <<>>) /\ InRow(a, s, q \o <<>>) /\ InRow(a, s, (q \o r) \o <<>>)
         /\ \A m \in Messages :
              (\A k \in Elements(q) \cup Elements(r) : May(a, s, k, m))
                => InRow(a, s, q \o Append(r, m))
<1>1. /\ q \o r \in Seq(Messages) /\ Len(q \o r) = Len(q) + Len(r)
      /\ Len(q) \in Nat /\ Len(r) \in Nat
      /\ \A i \in 1..Len(q \o r) : (q \o r)[i] = IF i <= Len(q) THEN q[i] ELSE r[i - Len(q)]
  OBVIOUS
<1>2. \A b : a \subseteq b => InRow(b, s, q \o r)
  BY DEF InRow, May, Behind
<1>3. InRow(a, s, <<>> \o <<>>)
  BY DEF InRow
<1>4. InRow(a, s, q \o <<>>)
  <2>1. q \o <<>> = q
    OBVIOUS
  <2>2. \A i \in 1..Len(q) : i \in 1..Len(q \o r) /\ (q \o r)[i] = q[i]
    BY <1>1
  <2>3. InRow(a, s, q)
    BY <2>2 DEF InRow
  <2> QED
    BY <2>1, <2>3
<1>5. (q \o r) \o <<>> = q \o r
  BY <1>1
<1>6. ASSUME NEW m \in Messages, \A k \in Elements(q) \cup Elements(r) : May(a, s, k, m)
      PROVE  InRow(a, s, q \o Append(r, m))
  <2>1. q \o Append(r, m) = Append(q \o r, m)
    OBVIOUS
  <2>2. /\ Len(Append(q \o r, m)) = Len(q \o r) + 1 /\ Len(q \o r) \in Nat
        /\ Append(q \o r, m)[Len(q \o r) + 1] = m
        /\ \A i \in 1..Len(q \o r) : Append(q \o r, m)[i] = (q \o r)[i]
    BY <1>1
  <2>3. \A i \in 1..Len(q \o r) : May(a, s, (q \o r)[i], m)
    <3>1. Elements(q \o r) \subseteq Elements(q) \cup Elements(r)
      BY Joined
    <3> QED
      BY <1>6, <3>1 DEF Elements
  <2> SUFFICES ASSUME NEW i \in 1..(Len(q \o r) + 1), NEW j \in 1..(Len(q \o r) + 1), i < j
               PROVE  May(a, s, Append(q \o r, m)[i], Append(q \o r, m)[j])
    BY <2>1, <2>2 DEF InRow
  <2>4. i \in 1..Len(q \o r)
    BY <2>2
  <2>5. CASE j = Len(q \o r) + 1
    BY <2>2, <2>3, <2>4, <2>5
  <2>6. CASE j # Len(q \o r) + 1
    <3>1. j \in 1..Len(q \o r)
      BY <2>2, <2>6
    <3>2. May(a, s, (q \o r)[i], (q \o r)[j])
      BY <2>4, <3>1 DEF InRow
    <3> QED
      BY <2>2, <2>4, <3>1, <3>2
  <2> QED
    BY <2>5, <2>6
<1> QED
  BY <1>2, <1>3, <1>4, <1>5, <1>6

(***************************************************************************)
(* Of an event that c was sent, no entry is left for it, or, under the nil *)
(* session, one at the most for each other user.                           *)
(***************************************************************************)
Partly(s, e) ==
  IF s # NilSession THEN \A x \in e.entries : x[2] # s
  ELSE \E u \in e.message.to : <<u, NilSession>> \notin e.entries

Awaits(a, s, m, e) == Behind(a, m, e.message) \/ (m.n = e.message.n /\ Partly(s, e))

ConnInOrder(c) ==
  /\ InRow(again, sessionOf[c], got[c] \o send[c])
  /\ hubOf[c] \in Hubs =>
       \A m \in Elements(got[c]) \cup Elements(send[c]), e \in Elements(inbox[hubOf[c]]) :
         Awaits(again, sessionOf[c], m, e)

HubInOrder(h) ==
  \A i, j \in 1..Len(inbox[h]) :
    i < j => Behind(again, inbox[h][i].message, inbox[h][j].message)

InOrder == (\A c \in Conns : ConnInOrder(c)) /\ (\A h \in Hubs : HubInOrder(h))

\* What comes next is behind all that was published.
LEMMA FreshBehind ==
  ASSUME TypeOK, NEW e \in Events, Fresh(e), NEW m, Matches(log, m)
  PROVE  Behind(again', m, e.message)
<1>1. m.n \in 1..Len(log) /\ Len(log) \in Nat
  BY DEF TypeOK, Matches
<1> QED
  BY <1>1 DEF Fresh, Behind, published

LEMMA HubOrderStep ==
  ASSUME TypeOK, Wiring, Recorded, InOrder, [Next]_vars, NEW h \in Hubs
  PROVE  HubInOrder(h)'
<1> DEFINE q == inbox[h]
<1>1. q \in Seq(Events) /\ Len(q) \in Nat
  BY DEF TypeOK
<1>2. \A i, j \in 1..Len(q) : i < j => Behind(again', q[i].message, q[j].message)
  BY TruthStays DEF InOrder, HubInOrder, Behind
<1>3. CASE inbox'[h] = q
  BY <1>2, <1>3 DEF HubInOrder
<1>4. CASE inbox'[h] = <<>>
  BY <1>4 DEF HubInOrder
<1>5. ASSUME NEW x, Wrote(h, x)
      PROVE  HubInOrder(h)'
  <2> DEFINE r == inbox'[h]
  <2>1. PICK k \in {0, 1} : Left(q, r, Head(q).entries \ {x}, k)
    BY <1>5, WroteLeft
  <2>2. \A i \in 1..Len(r) : i + k \in 1..Len(q) /\ r[i].message = q[i + k].message
    BY <2>1 DEF Left
  <2> HIDE DEF q
  <2> SUFFICES ASSUME NEW i \in 1..Len(r), NEW j \in 1..Len(r), i < j
               PROVE  Behind(again', r[i].message, r[j].message)
    BY DEF HubInOrder
  <2>3. i + k < j + k
    OBVIOUS
  <2> QED
    BY <1>2, <2>2, <2>3
<1>6. ASSUME NEW e \in Events, Fresh(e), inbox'[h] = Append(q, e)
      PROVE  HubInOrder(h)'
  <2> DEFINE r == inbox'[h]
  <2>1. /\ Len(r) = Len(q) + 1 /\ r[Len(q) + 1] = e
        /\ \A i \in 1..Len(q) : r[i] = q[i]
    BY <1>1, <1>6
  <2>2. \A i \in 1..Len(q) : Behind(again', q[i].message, e.message)
    BY <1>6, FreshBehind DEF Recorded, Truthful, Elements
  <2> HIDE DEF q
  <2> SUFFICES ASSUME NEW i \in 1..Len(r), NEW j \in 1..Len(r), i < j
               PROVE  Behind(again', r[i].message, r[j].message)
    BY DEF HubInOrder
  <2>3. i \in 1..Len(q) /\ (j \in 1..Len(q) \/ j = Len(q) + 1)
    BY <1>1, <2>1
  <2> HIDE DEF r
  <2> QED
    BY <1>2, <2>1, <2>2, <2>3
<1> HIDE DEF q
<1> QED
  BY <1>3, <1>4, <1>5, <1>6, EventsGrow DEF q

\* What c was sent is older than what waits in the channel of its hub.
LEMMA AwaitsStep ==
  ASSUME TypeOK, Wiring, Recorded, InOrder, [Next]_vars,
         NEW c \in Conns, hubOf[c] \in Hubs,
         NEW m \in Elements(got[c]) \cup Elements(send[c]), NEW e \in Elements(inbox'[hubOf[c]])
  PROVE  Awaits(again', sessionOf[c], m, e)
<1> DEFINE h == hubOf[c]
           s == sessionOf[c]
<1>1. h \in Hubs /\ inbox[h] \in Seq(Events) /\ again \subseteq again'
  BY TruthStays DEF TypeOK
<1>2. \A d \in Elements(inbox[h]) : Awaits(again', s, m, d)
  BY <1>1 DEF InOrder, ConnInOrder, Awaits, Behind
<1> SUFFICES Awaits(again', s, m, e)
  OBVIOUS
<1> HIDE DEF s
<1>3. CASE inbox'[h] = inbox[h] \/ inbox'[h] = <<>>
  BY <1>2, <1>3, EmptyQueue
<1>4. ASSUME NEW x, Wrote(h, x)
      PROVE  Awaits(again', s, m, e)
  <2>1. PICK k \in {0, 1} : Left(inbox[h], inbox'[h], Head(inbox[h]).entries \ {x}, k)
    BY <1>1, <1>4, WroteLeft
  <2>2. PICK d \in Elements(inbox[h]) : e.message = d.message /\ e.entries \subseteq d.entries
    BY <2>1, LeftElements
  <2>3. Awaits(again', s, m, d)
    BY <1>2
  <2> QED
    BY <2>2, <2>3 DEF Awaits, Partly
<1>5. ASSUME NEW d \in Events, Fresh(d), inbox'[h] = Append(inbox[h], d)
      PROVE  Awaits(again', s, m, e)
  <2>1. e \in Elements(inbox[h]) \/ e = d
    BY <1>1, <1>5, Put
  <2>2. Matches(log, m)
    BY DEF Recorded, Truthful
  <2>3. Behind(again', m, d.message)
    BY <1>5, <2>2, FreshBehind
  <2> QED
    BY <1>2, <2>1, <2>3 DEF Awaits
<1> QED
  BY <1>1, <1>3, <1>4, <1>5, EventsGrow

(***************************************************************************)
(* An entry for c is written: what c was sent before may be followed by    *)
(* it, and what waits comes after it.                                      *)
(***************************************************************************)
LEMMA QueuesOrder ==
  ASSUME TypeOK, Wiring, OneUser, Addressed, InOrder,
         NEW c \in Conns, NEW h \in Hubs, NEW x \in Users \X Sessions, Queues(c, h, x)
  PROVE  LET m == Head(inbox[h]).message
         IN /\ hubOf[c] = h /\ m \in Messages
            /\ \A k \in Elements(got[c]) \cup Elements(send[c]) : May(again, sessionOf[c], k, m)
            /\ \A e \in Elements(inbox'[h]) : Awaits(again, sessionOf[c], m, e)
<1> DEFINE d == Head(inbox[h])
           s == sessionOf[c]
           rest == d.entries \ {x}
<1>1. s = x[2] /\ hubOf[c] = h /\ phase[c] \in Registered /\ x = <<x[1], s>>
  BY NamedClient DEF Queues
<1>2. d \in Events /\ d \in Elements(inbox[h]) /\ d.message \in Messages /\ x \in d.entries
  BY WroteLeft DEF Queues, Wrote
<1>3. d.entries \subseteq Users \X Sessions /\ inbox[h] \in Seq(Events) /\ d = inbox[h][1]
  <2>1. d.entries \subseteq Users \X Sessions
    BY <1>2 DEF Events
  <2>2. inbox[h] \in Seq(Events) /\ inbox[h] # <<>>
    BY DEF TypeOK, Queues, Wrote
  <2> QED
    BY <2>1, <2>2
<1>4. FitsEvent(d)
  BY <1>2 DEF Addressed
<1>5. PICK k \in {0, 1} : Left(inbox[h], inbox'[h], rest, k)
  BY WroteLeft DEF Queues
<1> HIDE DEF d
\* Another entry under the session of c is for another user.
<1>6. Partly(s, [message |-> d.message, entries |-> rest])
  <2>1. CASE s = NilSession
    <3>1. <<x[1], NilSession>> \notin rest /\ x[1] \in d.message.to
      BY <1>1, <1>2, <1>4, <2>1 DEF FitsEvent
    <3> QED
      BY <2>1, <3>1 DEF Partly
  <2>2. CASE s # NilSession
    <3>1. ASSUME NEW y \in rest, y[2] = s
          PROVE  FALSE
      <4>1. y \in Users \X Sessions /\ y = <<y[1], s>>
        BY <1>3, <3>1
      <4>2. Held(x[1], s) /\ Held(y[1], s)
        BY <1>1, <1>2, <1>4, <2>2, <3>1 DEF FitsEvent
      <4>3. x[1] = y[1]
        BY <2>2, <4>2 DEF Held, OneUser
      <4> QED
        BY <1>1, <4>1, <4>3
    <3> QED
      BY <2>2, <3>1 DEF Partly
  <2> QED
    BY <2>1, <2>2
<1>7. ASSUME NEW k1 \in Elements(got[c]) \cup Elements(send[c])
      PROVE  May(again, s, k1, d.message)
  <2>1. Awaits(again, s, k1, d)
    BY <1>1, <1>2 DEF InOrder, ConnInOrder
  <2>2. CASE Behind(again, k1, d.message)
    BY <2>2 DEF May
  <2>3. CASE k1.n = d.message.n /\ Partly(s, d)
    <3>1. s = NilSession
      BY <1>1, <1>2, <2>3 DEF Partly
    <3>2. PICK u \in d.message.to : <<u, NilSession>> \notin d.entries
      BY <2>3, <3>1 DEF Partly
    <3>3. x[1] \in d.message.to /\ x[1] # u
      BY <1>1, <1>2, <1>4, <3>1, <3>2 DEF FitsEvent
    <3>4. Several(d.message.to)
      BY <3>2, <3>3 DEF Several
    <3> QED
      BY <2>3, <3>1, <3>4 DEF May
  <2> QED
    BY <2>1, <2>2, <2>3 DEF Awaits
<1>8. ASSUME NEW e \in Elements(inbox'[h])
      PROVE  Awaits(again, s, d.message, e)
  <2>1. PICK i \in 1..Len(inbox'[h]) : e = inbox'[h][i]
    BY DEF Elements
  <2>2. /\ i + k \in 1..Len(inbox[h]) /\ e.message = inbox[h][i + k].message
        /\ i + k = 1 => e.entries = rest
    BY <1>5, <2>1 DEF Left
  <2>3. CASE i + k = 1
    <3>1. e.message = d.message /\ e.entries = rest
      BY <1>3, <2>2, <2>3
    <3> QED
      BY <1>6, <3>1 DEF Awaits, Partly
  <2>4. CASE i + k # 1
    <3>1. 1 \in 1..Len(inbox[h]) /\ 1 < i + k
      BY <1>3, <2>2, <2>4
    <3>2. Behind(again, d.message, e.message)
      BY <1>3, <2>2, <3>1 DEF InOrder, HubInOrder
    <3> QED
      BY <3>2 DEF Awaits
  <2> QED
    BY <2>3, <2>4
<1> QED
  BY <1>1, <1>2, <1>7, <1>8 DEF d

LEMMA ConnOrderStep ==
  ASSUME TypeOK, Wiring, OneUser, Addressed, Blank, Recorded, InOrder, [Next]_vars,
         NEW c \in Conns
  PROVE  ConnInOrder(c)'
<1> DEFINE s == sessionOf[c]
<1>1. /\ InRow(again, s, got[c] \o send[c])
      /\ got[c] \in Seq(Messages) /\ send[c] \in Seq(Messages) /\ again \subseteq again'
  BY TruthStays DEF InOrder, ConnInOrder, TypeOK
<1>2. InRow(again', s, got[c] \o send[c])
  BY <1>1, Rows
<1>3. CASE phase[c] \notin Registered
  <2>1. got[c] = <<>> /\ send[c] = <<>> /\ got[c] \o send[c] = <<>>
    BY <1>3 DEF Blank
  <2>2. ~\E h \in Hubs, e \in Users \X Sessions : Queues(c, h, e)
    BY <1>3, NamedClient DEF Queues
  <2>3. got'[c] = <<>> /\ send'[c] = <<>>
    BY <2>1, <2>2, Writes DEF Moved, Still, Dropped, Flushed
  <2>4. InRow(again', sessionOf'[c], <<>> \o <<>>)
    BY DEF InRow
  <2> QED
    BY <2>3, <2>4, EmptyQueue DEF ConnInOrder
<1>4. CASE phase[c] \in Registered
  <2>1. sessionOf'[c] = s /\ hubOf'[c] = hubOf[c]
    BY <1>4, ConnsKept DEF Registered
  <2>2. hubOf[c] \in Hubs =>
          \A m \in Elements(got[c]) \cup Elements(send[c]), e \in Elements(inbox'[hubOf[c]]) :
            Awaits(again', s, m, e)
    BY AwaitsStep
  <2> DEFINE Row == InRow(again', s, got'[c] \o send'[c])
             Wait(m) == \A e \in Elements(inbox'[hubOf[c]]) : Awaits(again', s, m, e)
             Waits == hubOf[c] \in Hubs =>
                        \A m \in Elements(got'[c]) \cup Elements(send'[c]) : Wait(m)
  <2>3. ASSUME Still(c)
        PROVE  Row /\ Waits
    BY <1>2, <2>2, <2>3 DEF Still
  <2>4. ASSUME Dropped(c)
        PROVE  Row /\ Waits
    <3>1. Row
      BY <1>1, <1>2, <2>4, Rows DEF Dropped
    <3>2. Elements(got'[c]) \cup Elements(send'[c]) \subseteq Elements(got[c])
      BY <2>4, EmptyQueue DEF Dropped
    <3> QED
      BY <2>2, <3>1, <3>2
  <2>5. ASSUME Flushed(c)
        PROVE  Row /\ Waits
    <3>1. Row
      BY <1>1, <1>2, <2>5, Rows DEF Flushed
    <3>2. Elements(got'[c]) \cup Elements(send'[c]) \subseteq Elements(got[c]) \cup Elements(send[c])
      BY <1>1, <2>5, EmptyQueue, Joined DEF Flushed
    <3> QED
      BY <2>2, <3>1, <3>2
  <2>6. ASSUME NEW h \in Hubs, NEW x \in Users \X Sessions, Queues(c, h, x)
        PROVE  Row /\ Waits
    <3> DEFINE m == Head(inbox[h]).message
    <3>1. /\ hubOf[c] = h /\ m \in Messages
          /\ \A k \in Elements(got[c]) \cup Elements(send[c]) : May(again, s, k, m)
          /\ \A e \in Elements(inbox'[h]) : Awaits(again, s, m, e)
      BY <2>6, QueuesOrder
    <3>2. got'[c] = got[c] /\ send'[c] = Append(send[c], m) /\ again' = again
      BY <2>6 DEF Queues, Wrote
    <3> HIDE DEF m, s
    <3>3. InRow(again, s, got[c] \o Append(send[c], m))
      BY <1>1, <3>1, Rows
    <3>4. Elements(send'[c]) = Elements(send[c]) \cup {m}
      BY <1>1, <3>1, <3>2, Put
    <3>5. Wait(m)
      BY <3>1, <3>2
    <3> QED
      BY <2>2, <3>2, <3>3, <3>4, <3>5
  <2>7. Row /\ Waits
    BY <2>3, <2>4, <2>5, <2>6, Writes DEF Moved
  <2> QED
    BY <2>1, <2>7 DEF ConnInOrder
<1> QED
  BY <1>3, <1>4

LEMMA OrderStep ==
  ASSUME TypeOK, Wiring, OneUser, Addressed, Blank, Recorded, InOrder, [Next]_vars
  PROVE  InOrder'
BY HubOrderStep, ConnOrderStep DEF InOrder

LEMMA OrderGivesDelivery ==
  ASSUME InOrder
  PROVE  DeliveredInOrder
BY DEF InOrder, ConnInOrder, InRow, May, Behind, DeliveredInOrder, MayFollow
-----------------------------------------------------------------------------
(***************************************************************************)
(* The inductive invariant, and what it gives.                             *)
(***************************************************************************)
IInv ==
  /\ TypeOK /\ Wiring
  /\ LiveIsMapped /\ DeadWaits
  /\ PresentWithASession /\ UnreachableHasACause
  /\ StrayRouteHasACause
  /\ OneUser /\ RoutesHeld /\ Addressed
  /\ Blank /\ Written /\ Recorded /\ InOrder

LEMMA InitParts ==
  ASSUME Init
  PROVE  /\ \A h \in Hubs :
              /\ hub[h] = "new" /\ registerQ[h] = <<>> /\ unregisterQ[h] = <<>>
              /\ busy[h] = Idle /\ inbox[h] = <<>>
              /\ \A s \in Sessions : clients[h][s] = NoConn
         /\ \A c \in Conns :
              /\ phase[c] = "none" /\ userOf[c] = NoUser /\ hubOf[c] = NoHub
              /\ send[c] = <<>> /\ got[c] = <<>>
         /\ \A u \in Users, s \in Sessions : owner[u][s] = NoHub
         /\ \A p \in Publishers : pending[p] = NoEvent
         /\ present = {} /\ late = {} /\ writing = {} /\ again = {}
BY DEF Init, NoClients, NoRoutes

LEMMA InitType ==
  ASSUME Init
  PROVE  TypeOK
<1>1. /\ hub \in [Hubs -> Stages] /\ sub \in [Hubs -> Subscriptions]
      /\ registerQ \in [Hubs -> Seq(Conns)] /\ unregisterQ \in [Hubs -> Seq(Conns)]
      /\ busy \in [Hubs -> Works]
      /\ clients \in [Hubs -> [Sessions -> Conns \cup {NoConn}]]
  BY DEF Init, Stages, Subscriptions, Works, Idle, NoClients
<1>2. /\ phase \in [Conns -> Phases]
      /\ userOf \in [Conns -> Users \cup {NoUser}]
      /\ sessionOf \in [Conns -> Sessions] /\ hubOf \in [Conns -> Hubs \cup {NoHub}]
      /\ closed \subseteq Conns /\ closing \subseteq Conns
  BY SessionsAssumption DEF Init, Phases
<1>3. /\ owner \in [Users -> [Sessions -> Hubs \cup {NoHub}]]
      /\ present \subseteq Users /\ late \subseteq Scripts
  BY DEF Init, NoRoutes
<1>4. /\ inbox \in [Hubs -> Seq(Events)] /\ writing \subseteq Hubs
      /\ send \in [Conns -> Seq(Messages)] /\ got \in [Conns -> Seq(Messages)]
      /\ pending \in [Publishers -> Broadcasts \cup {NoEvent}]
      /\ again \subseteq 1..MaxMessages
  BY DEF Init
<1>5. /\ log \in Seq(SUBSET Users) /\ published \in 0..MaxMessages /\ faults \in 0..MaxFaults
      /\ cutOff \subseteq Conns /\ early \subseteq Conns
      /\ leaked \subseteq Users \X Sessions \X Hubs
  BY BoundsAssumption DEF Init, published
<1> QED
  BY <1>1, <1>2, <1>3, <1>4, <1>5 DEF TypeOK

LEMMA InitInv ==
  ASSUME Init
  PROVE  IInv
<1>1. TypeOK
  BY InitType
<1>2. Wiring
  <2>1. Entered
    BY InitParts DEF Entered
  <2>2. Queued /\ Once
    BY InitParts, EmptyQueue DEF Queued, Once
  <2>3. Placed
    BY InitParts, NamesAssumption DEF Placed
  <2>4. Worked
    BY InitParts DEF Worked, Idle
  <2> QED
    BY <2>1, <2>2, <2>3, <2>4 DEF Wiring
<1>3. LiveIsMapped /\ DeadWaits
  BY InitParts DEF LiveIsMapped, DeadWaits
<1>4. PresentWithASession
  BY InitParts DEF PresentWithASession
<1>5. UnreachableHasACause
  BY InitParts DEF UnreachableHasACause
<1>6. StrayRouteHasACause
  BY InitParts, NamesAssumption DEF StrayRouteHasACause
<1>7. OneUser /\ RoutesHeld
  BY InitParts DEF OneUser, RoutesHeld
<1>8. Addressed
  BY InitParts, EmptyQueue DEF Addressed
<1>9. Blank
  BY InitParts DEF Blank
<1>10. Written
  BY InitParts, EmptyQueue DEF Written
<1>11. Recorded
  BY InitParts, EmptyQueue DEF Recorded
<1>12. InOrder
  <2>1. ASSUME NEW c \in Conns
        PROVE  ConnInOrder(c)
    <3>1. InRow(again, sessionOf[c], <<>> \o <<>>)
      BY DEF InRow
    <3> QED
      BY <3>1, InitParts, EmptyQueue DEF ConnInOrder
  <2>2. \A h \in Hubs : HubInOrder(h)
    BY InitParts DEF HubInOrder
  <2> QED
    BY <2>1, <2>2 DEF InOrder
<1> QED
  BY <1>1, <1>2, <1>3, <1>4, <1>5, <1>6, <1>7, <1>8, <1>9, <1>10, <1>11, <1>12
  DEF IInv

(***************************************************************************)
(* The invariant holds in every reachable state.                           *)
(***************************************************************************)
THEOREM Invariance == Spec => []IInv
<1>1. Init => IInv
  BY InitInv
<1>2. IInv /\ [Next]_vars => IInv'
  <2> SUFFICES ASSUME IInv, [Next]_vars
               PROVE  IInv'
    OBVIOUS
  <2>1. TypeOK' /\ Wiring'
    BY TypeStep, WiringStep DEF IInv
  <2>2. LiveIsMapped' /\ DeadWaits'
    BY LiveStep, DeadStep DEF IInv
  <2>3. PresentWithASession' /\ UnreachableHasACause'
    BY PresentStep, ReachStep DEF IInv
  <2>4. StrayRouteHasACause'
    BY SoundStep DEF IInv
  <2>5. OneUser' /\ RoutesHeld' /\ Addressed'
    BY OneUserStep, HeldStep, AddressedStep DEF IInv
  <2>6. Blank' /\ Written' /\ Recorded' /\ InOrder'
    BY BlankStep, WrittenStep, RecordedStep, OrderStep DEF IInv
  <2> QED
    BY <2>1, <2>2, <2>3, <2>4, <2>5, <2>6 DEF IInv
<1> QED
  BY <1>1, <1>2, PTL DEF Spec

(***************************************************************************)
(* Every variable keeps its type.                                          *)
(***************************************************************************)
THEOREM TypeCorrect == Spec => []TypeOK
<1>1. IInv => TypeOK
  BY DEF IInv
<1> QED
  BY <1>1, Invariance, PTL

(***************************************************************************)
(* A connection that its peer can use is in its running hub's map, or      *)
(* waits to be put there (setClient, unsetClient).                         *)
(***************************************************************************)
THEOREM LiveConnections == Spec => []LiveIsMapped
<1>1. IInv => LiveIsMapped
  BY DEF IInv
<1> QED
  BY <1>1, Invariance, PTL

(***************************************************************************)
(* A connection that is over leaves the map with its unregister, unless    *)
(* that was taken before its register (the select of Run).                 *)
(***************************************************************************)
THEOREM DeadConnections == Spec => []DeadClientIsEarly
<1>1. IInv => DeadClientIsEarly
  BY DEF IInv, DeadWaits, DeadClientIsEarly
<1> QED
  BY <1>1, Invariance, PTL

(***************************************************************************)
(* The hash of a user says presence as long as it names a hub, and no      *)
(* longer (registerClientScript, unregisterClientScript).                  *)
(***************************************************************************)
THEOREM PresenceFollowsRoutes == Spec => []PresentWithASession
<1>1. IInv => PresentWithASession
  BY DEF IInv
<1> QED
  BY <1>1, Invariance, PTL

(***************************************************************************)
(* A served connection has its route in Redis, or a cause took it away.    *)
(***************************************************************************)
THEOREM ServedIsReachable == Spec => []UnreachableHasACause
<1>1. IInv => UnreachableHasACause
  BY DEF IInv
<1> QED
  BY <1>1, Invariance, PTL

(***************************************************************************)
(* A route leads to a connection of its user, or a cause left it behind:   *)
(* its hub stopped or died, a script failed or was late, or another user's *)
(* connection took the place in the map.                                   *)
(***************************************************************************)
THEOREM RoutesLeadHome == Spec => []StrayRouteHasACause
<1>1. IInv => StrayRouteHasACause
  BY DEF IInv
<1> QED
  BY <1>1, Invariance, PTL

(***************************************************************************)
(* Under a session of its own a connection is written its user's messages  *)
(* only (publish, writeEvent).                                             *)
(***************************************************************************)
THEOREM OwnMessages == Spec => []OtherUsersOnlyByTheNilSession
<1>1. IInv => OtherUsersOnlyByTheNilSession
  <2> SUFFICES ASSUME Written, NEW c \in Conns, NEW i \in 1..Len(got[c])
               PROVE  userOf[c] \in got[c][i].to \/ sessionOf[c] = NilSession
    BY DEF IInv, OtherUsersOnlyByTheNilSession
  <2>1. got[c][i] \in Elements(got[c])
    BY DEF Elements
  <2> QED
    BY <2>1 DEF Written, Mine
<1> QED
  BY <1>1, Invariance, PTL

(***************************************************************************)
(* A peer reads messages in the order of their publication, each once: but *)
(* one whose pipeline was sent again may come late and once more, and one  *)
(* for several users may come for each of them under the nil session       *)
(* (PublishBatch, publish, writeEvent, flushMessageBatch).                 *)
(***************************************************************************)
THEOREM OrderedDelivery == Spec => []DeliveredInOrder
<1>1. IInv => DeliveredInOrder
  BY OrderGivesDelivery DEF IInv
<1> QED
  BY <1>1, Invariance, PTL
-----------------------------------------------------------------------------
(***************************************************************************)
(* What the causes of UnreachableHasACause and StrayRouteHasACause come to *)
(* when Redis answers every call in time: MaxFaults is 0, and the hubs     *)
(* still start, stop and die, and connections come and go, at any moment.  *)
(***************************************************************************)
\* d was registered for c's session on another hub.
Rival(c, d) ==
  /\ userOf[d] = userOf[c] /\ sessionOf[d] = sessionOf[c]
  /\ hubOf[d] # hubOf[c] /\ phase[d] \in Registered

HasRival(c) == \E d \in Conns : Rival(c, d)

Ended == {"stopped", "dead"}

Faultless ==
  /\ late = {} /\ again = {}
  /\ \A p \in Publishers : pending[p] # NoEvent => pending[p].n = 0
  /\ \A c \in cutOff : phase[c] \in Registered /\ (phase[c] = "open" => HasRival(c))
  /\ \A r \in leaked : r[2] = NilSession \/ hub[r[3]] \in Ended

\* No connection is opened twice, and no hub runs twice.
LEMMA OnceOnly ==
  ASSUME TypeOK, Wiring, [Next]_vars
  PROVE  /\ \A c \in Conns : phase[c] \in Registered /\ phase'[c] = "open" => phase[c] = "open"
         /\ \A h \in Hubs : hub[h] \in Ended => hub'[h] \in Ended
<1> DEFINE Goal == /\ \A c \in Conns :
                        phase[c] \in Registered /\ phase'[c] = "open" => phase[c] = "open"
                   /\ \A h \in Hubs : hub[h] \in Ended => hub'[h] \in Ended
<1>1. ASSUME UNCHANGED <<phase, hub>>
      PROVE  Goal
  BY <1>1
<1>2. ASSUME NEW h \in Hubs, RunStep(h)
      PROVE  UNCHANGED <<phase, hub>>
  BY <1>2 DEF RunStep, TakeRegister, FinishRegister, TakeUnregister, FinishUnregister, connVars
<1>3. ASSUME NEW h \in Hubs, Start(h) \/ BeginStop(h) \/ EndStop(h)
      PROVE  Goal
  <2>1. phase' = phase /\ hub[h] \notin Ended /\ \A k \in Hubs \ {h} : hub'[k] = hub[k]
    BY <1>3 DEF TypeOK, Start, BeginStop, EndStop, connVars, Ended
  <2> QED
    BY <2>1
<1>4. ASSUME NEW h \in Hubs, Die(h)
      PROVE  Goal
  <2>1. /\ \A c \in Conns : phase'[c] \in {phase[c], "gone"}
        /\ \A k \in Hubs : hub'[k] \in {hub[k], "dead"}
    BY <1>4 DEF TypeOK, Die
  <2> QED
    BY <2>1 DEF Ended
<1>5. ASSUME NEW c \in Conns,
             \/ \E u \in Users, s \in Sessions : PrintTicket(c, u, s)
             \/ \E h \in Hubs : Accept(c, h)
             \/ Open(c) \/ ReaderEnds(c) \/ Leave(c)
      PROVE  Goal
  <2>1. /\ hub' = hub /\ (phase'[c] # "open" \/ phase[c] = "accepted")
        /\ \A d \in Conns \ {c} : phase'[d] = phase[d]
    BY <1>5 DEF TypeOK, PrintTicket, Accept, Open, ReaderEnds, Leave, hubVars
  <2> QED
    BY <2>1 DEF Registered
<1>6. ASSUME UNCHANGED <<hub, registerQ, unregisterQ, busy, clients, connVars>>
      PROVE  UNCHANGED <<phase, hub>>
  BY <1>6 DEF connVars
<1> HIDE DEF Goal
<1>7. Goal
  BY <1>1, <1>2, <1>3, <1>4, <1>5, <1>6, OtherWiring DEF Next
<1> QED
  BY <1>7 DEF Goal

LEMMA RivalsStay ==
  ASSUME TypeOK, Wiring, [Next]_vars, NEW c \in Conns, phase[c] \in Registered, HasRival(c)
  PROVE  HasRival(c)'
<1>1. PICK d \in Conns : Rival(c, d)
  BY DEF HasRival
<1>2. Rival(c, d)'
  BY <1>1, ConnsKept DEF Rival, Registered
<1> QED
  BY <1>2 DEF HasRival

\* No batch is sent again.
LEMMA OnceSent ==
  ASSUME TypeOK, Wiring, [Next]_vars, ~Faulty, again = {},
         \A p \in Publishers : pending[p] # NoEvent => pending[p].n = 0
  PROVE  again' = {} /\ \A p \in Publishers : pending'[p] # NoEvent => pending'[p].n = 0
<1> DEFINE Goal == again' = {} /\ \A p \in Publishers : pending'[p] # NoEvent => pending'[p].n = 0
<1>1. ASSUME UNCHANGED <<pending, again>>
      PROVE  Goal
  BY <1>1
<1>2. ASSUME NEW h \in Hubs, NEW e, Wrote(h, e)
      PROVE  UNCHANGED <<pending, again>>
  BY <1>2 DEF Wrote
<1>3. ASSUME NEW p \in Publishers, NEW to \in Audiences, NEW form, NEW listed,
             ReadTargets(p, to, form, listed), UNCHANGED again
      PROVE  Goal
  <2>1. PICK targets : pending' = [pending EXCEPT ![p] = [to |-> to, targets |-> targets, n |-> 0]]
    BY <1>3 DEF ReadTargets
  <2>2. \A r \in Publishers : pending'[r].n = 0 \/ pending'[r] = pending[r]
    BY <2>1 DEF TypeOK
  <2> QED
    BY <1>3, <2>2
<1>4. ASSUME NEW p \in Publishers, PublishBatch(p)
      PROVE  Goal
  <2>1. pending[p] # NoEvent /\ pending[p].n = 0 /\ again' = again
    BY <1>4, LogGrows DEF PublishBatch
  <2>2. pending' = [pending EXCEPT ![p] = NoEvent]
    BY <1>4 DEF PublishBatch
  <2>3. \A r \in Publishers : pending'[r] = NoEvent \/ pending'[r] = pending[r]
    BY <2>2 DEF TypeOK
  <2> QED
    BY <2>1, <2>3
<1> HIDE DEF Goal
<1>5. Goal
  BY <1>1, <1>2, <1>3, <1>4, EventsKept
<1> QED
  BY <1>5 DEF Goal

LEMMA FaultlessKept ==
  ASSUME TypeOK, Wiring, Faultless, [Next]_vars, late' = {}, ~Faulty, NEW C \in SUBSET Conns, NEW L,
         cutOff' \subseteq cutOff \cup C, leaked' \subseteq leaked \cup L,
         \A c \in C : phase[c] \in Registered /\ (phase[c] = "open" => HasRival(c)),
         \A r \in L : r[2] = NilSession \/ hub'[r[3]] \in Ended
  PROVE  Faultless'
<1>1. ASSUME NEW c \in cutOff'
      PROVE  phase'[c] \in Registered /\ (phase'[c] = "open" => HasRival(c)')
  <2>1. c \in Conns /\ phase[c] \in Registered /\ (phase[c] = "open" => HasRival(c))
    BY <1>1 DEF Faultless, TypeOK
  <2>2. phase'[c] \in Registered
    BY <2>1, ConnsKept
  <2>3. phase'[c] = "open" => phase[c] = "open"
    BY <2>1, OnceOnly
  <2> QED
    BY <2>1, <2>2, <2>3, RivalsStay
<1>2. ASSUME NEW r \in leaked'
      PROVE  r[2] = NilSession \/ hub'[r[3]] \in Ended
  <2>1. CASE r \in leaked
    <3>1. r[3] \in Hubs /\ (r[2] = NilSession \/ hub[r[3]] \in Ended)
      BY <2>1 DEF Faultless, TypeOK
    <3> QED
      BY <3>1, OnceOnly
  <2> QED
    BY <1>2, <2>1
<1>3. again' = {} /\ \A p \in Publishers : pending'[p] # NoEvent => pending'[p].n = 0
  BY OnceSent DEF Faultless
<1> QED
  BY <1>1, <1>2, <1>3 DEF Faultless

LEMMA FaultlessStep ==
  ASSUME MaxFaults = 0, IInv, Faultless, [Next]_vars
  PROVE  Faultless'
<1>1. TypeOK /\ Wiring /\ OneUser
  BY DEF IInv
<1>2. ~Faulty
  BY <1>1 DEF Faulty, TypeOK
<1>3. late = {} /\ cutOff \subseteq Conns
  BY <1>1 DEF Faultless, TypeOK
\* A step that adds neither
<1>4. ASSUME late' = late, cutOff' \subseteq cutOff, leaked' \subseteq leaked
      PROVE  Faultless'
  <2>1. /\ {} \in SUBSET Conns
        /\ cutOff' \subseteq cutOff \cup {} /\ leaked' \subseteq leaked \cup {}
    BY <1>4
  <2>2. late' = {}
    BY <1>3, <1>4
  <2> QED
    BY <1>1, <1>2, <2>1, <2>2, FaultlessKept
<1>5. ASSUME NEW h \in Hubs, Start(h) \/ Subscribe(h) \/ BeginStop(h) \/ WriteEvent(h)
      PROVE  Faultless'
  <2>1. late' = late /\ cutOff' \subseteq cutOff /\ leaked' \subseteq leaked
    BY <1>5 DEF Start, Subscribe, BeginStop, WriteEvent, redisVars, historyVars
  <2> QED
    BY <1>4, <2>1
<1>6. ASSUME NEW h \in Hubs, TakeRegister(h)
      PROVE  Faultless'
  <2> DEFINE c == Head(registerQ[h])
             old == Replaced(h, sessionOf[c])
             L == {<<userOf[d], sessionOf[c], h>> : d \in {e \in old : userOf[e] # userOf[c]}}
  <2>1. late' = late /\ cutOff' \subseteq cutOff /\ leaked' = leaked \cup L
    BY <1>6 DEF TakeRegister, redisVars
  <2>2. registerQ[h] \in Seq(Conns) /\ registerQ[h] # <<>>
    BY <1>1, <1>6 DEF TypeOK, TakeRegister
  <2>3. c \in Conns /\ c \in Elements(registerQ[h])
    BY <2>2, Taken
  <2>4. hubOf[c] = h /\ phase[c] \in Registered /\ sessionOf[c] \in Sessions
    BY <1>1, <2>3 DEF Wiring, Queued, TypeOK
  <2> HIDE DEF c
  <2>5. ASSUME NEW d \in old, userOf[d] # userOf[c]
        PROVE  sessionOf[c] = NilSession
    <3>1. d \in Conns /\ clients[h][sessionOf[c]] = d
      BY <1>1, <2>4, <2>5 DEF Replaced, TypeOK
    <3>2. sessionOf[d] = sessionOf[c] /\ phase[d] \in Registered
      BY <1>1, <2>4, <3>1 DEF Wiring, Placed
    <3> QED
      BY <1>1, <2>3, <2>4, <2>5, <3>1, <3>2 DEF OneUser, Registered
  <2>6. \A r \in L : r[2] = NilSession
    BY <2>5
  <2> HIDE DEF L
  <2> QED
    BY <1>1, <1>2, <1>3, <2>1, <2>6, FaultlessKept
<1>7. ASSUME NEW h \in Hubs, FinishRegister(h)
      PROVE  Faultless'
  <2> DEFINE c == busy[h].conn
  <2>1. c \in Conns /\ hubOf[c] = h
        /\ sessionOf[c] \in Sessions /\ clients[h][sessionOf[c]] = c
    BY <1>1, <1>7, Worker DEF FinishRegister
  <2>2. phase[c] \in Registered
    BY <1>1, <2>1 DEF Wiring, Placed
  <2> DEFINE C == Elsewhere(userOf[c], sessionOf[c], h)
  <2>3. late' = late /\ cutOff' \subseteq cutOff \cup C /\ leaked' \subseteq leaked
    BY <1>2, <1>7 DEF FinishRegister
  <2>4. ASSUME NEW d \in C
        PROVE  d \in Conns /\ phase[d] \in Registered /\ HasRival(d)
    <3>1. /\ d \in Conns /\ Mapped(d) /\ userOf[d] = userOf[c] /\ sessionOf[d] = sessionOf[c]
          /\ hubOf[d] # h
      BY <2>4 DEF Elsewhere
    <3>2. phase[d] \in Registered
      BY <1>1, <2>1, <3>1 DEF Wiring, Placed, Mapped
    <3>3. Rival(d, c)
      BY <2>1, <2>2, <3>1 DEF Rival
    <3> QED
      BY <2>1, <3>1, <3>2, <3>3 DEF HasRival
  <2> HIDE DEF C
  <2>5. C \in SUBSET Conns
    BY <2>4
  <2> QED
    BY <1>1, <1>2, <1>3, <2>3, <2>4, <2>5, FaultlessKept
<1>8. ASSUME NEW h \in Hubs, TakeUnregister(h) \/ FinishUnregister(h)
      PROVE  Faultless'
  <2>1. late' = late /\ cutOff' \subseteq cutOff /\ leaked' \subseteq leaked
    BY <1>2, <1>8 DEF TakeUnregister, FinishUnregister, redisVars
  <2> QED
    BY <1>4, <2>1
<1>9. ASSUME NEW h \in Hubs, EndStop(h) \/ Die(h)
      PROVE  Faultless'
  <2>1. /\ late' = late /\ cutOff' \subseteq cutOff /\ leaked' = leaked \cup RoutesOf(h)
        /\ hub'[h] \in Ended
    <3>1. CASE EndStop(h)
      BY <1>1, <3>1 DEF EndStop, redisVars, TypeOK, Ended
    <3>2. CASE Die(h)
      BY <1>1, <3>2 DEF Die, redisVars, TypeOK, Ended
    <3> QED
      BY <1>9, <3>1, <3>2
  <2>2. \A r \in RoutesOf(h) : r[3] = h
    BY DEF RoutesOf
  <2> DEFINE L == RoutesOf(h)
  <2>3. /\ {} \in SUBSET Conns /\ late' = {}
        /\ cutOff' \subseteq cutOff \cup {} /\ leaked' \subseteq leaked \cup L
        /\ \A r \in L : r[2] = NilSession \/ hub'[r[3]] \in Ended
    BY <1>3, <2>1, <2>2
  <2> HIDE DEF L
  <2> QED
    BY <1>1, <1>2, <2>3, FaultlessKept
<1>10. ASSUME NEW c \in Conns,
              \/ \E u \in Users, s \in Sessions : PrintTicket(c, u, s)
              \/ \E h \in Hubs : Accept(c, h)
              \/ Open(c) \/ ReaderEnds(c) \/ Leave(c) \/ Close(c) \/ WriterFails(c) \/ Flush(c)
       PROVE  Faultless'
  <2>1. late' = late /\ cutOff' \subseteq cutOff /\ leaked' \subseteq leaked
    BY <1>10 DEF PrintTicket, Accept, Open, ReaderEnds, Leave, Close, WriterFails, Flush,
                 redisVars, historyVars
  <2> QED
    BY <1>4, <2>1
\* A hash with an open connection does not expire.
<1>11. ASSUME NEW u \in Users, Expire(u)
       PROVE  Faultless'
  <2> DEFINE C == {c \in Conns : Mapped(c) /\ userOf[c] = u}
  <2>1. /\ late' = late /\ cutOff' = cutOff \cup C /\ leaked' \subseteq leaked
        /\ ~\E c \in Conns : userOf[c] = u /\ phase[c] = "open"
    BY <1>2, <1>11 DEF Expire
  <2>2. ASSUME NEW c \in C
        PROVE  phase[c] \in Registered /\ phase[c] # "open"
    <3>1. /\ c \in Conns /\ sessionOf[c] \in Sessions /\ userOf[c] = u
          /\ hubOf[c] \in Hubs /\ clients[hubOf[c]][sessionOf[c]] = c
      BY <1>1, <2>2 DEF Mapped, TypeOK
    <3>2. phase[c] \in Registered
      BY <1>1, <3>1 DEF Wiring, Placed
    <3> QED
      BY <2>1, <3>1, <3>2
  <2> HIDE DEF C
  <2>3. C \in SUBSET Conns
    BY DEF C
  <2> QED
    BY <1>1, <1>2, <1>3, <2>1, <2>2, <2>3, FaultlessKept
<1>12. ASSUME NEW p \in Publishers,
              \/ \E to \in Audiences, form \in {"only", "without"}, listed \in SUBSET Sessions :
                   ReadTargets(p, to, form, listed)
              \/ PublishBatch(p)
       PROVE  Faultless'
  <2>1. late' = late /\ cutOff' \subseteq cutOff /\ leaked' \subseteq leaked
    BY <1>12 DEF ReadTargets, PublishBatch, redisVars, historyVars
  <2> QED
    BY <1>4, <2>1
<1>13. CASE UNCHANGED vars
  BY <1>4, <1>13 DEF vars, redisVars, historyVars
<1> QED
  BY <1>3, <1>5, <1>6, <1>7, <1>8, <1>9, <1>10, <1>11, <1>12, <1>13 DEF Next, RunStep

(***************************************************************************)
(* Without faults of Redis a connection that its hub serves can be reached *)
(* by broadcasts once its registration is over, unless its session was     *)
(* registered on another hub; and the route of a session of its own leads  *)
(* to a connection of its user, is about to go, or names a hub that has    *)
(* stopped or died: neither end removes it (registerClient,                *)
(* unregisterClient, shutdown, Heartbeat).                                 *)
(***************************************************************************)
ReachableUnlessMoved ==
  \A c \in Conns :
    Mapped(c) /\ phase[c] = "open" /\ hub[hubOf[c]] = "up" /\ busy[hubOf[c]].conn # c
      => owner[userOf[c]][sessionOf[c]] = hubOf[c] \/ HasRival(c)

StrayOnlyOfTheEnded ==
  \A u \in Users, s \in Sessions \ {NilSession}, h \in Hubs :
    owner[u][s] = h /\ hub[h] \notin Ended
      => \/ clients[h][s] # NoConn /\ userOf[clients[h][s]] = u
         \/ /\ busy[h].op = "unregister"
            /\ userOf[busy[h].conn] = u /\ sessionOf[busy[h].conn] = s

THEOREM FaultlessRoutes ==
  ASSUME MaxFaults = 0
  PROVE  Spec => [](ReachableUnlessMoved /\ StrayOnlyOfTheEnded)
<1>1. Init => Faultless
  BY InitParts DEF Init, Faultless
<1>2. IInv /\ Faultless /\ [Next]_vars => Faultless'
  BY FaultlessStep
<1>3. IInv /\ Faultless => ReachableUnlessMoved
  BY DEF IInv, Faultless, UnreachableHasACause, ReachableUnlessMoved
<1>4. IInv /\ Faultless => StrayOnlyOfTheEnded
  <2> SUFFICES ASSUME IInv, Faultless, NEW u \in Users, NEW s \in Sessions \ {NilSession},
                      NEW h \in Hubs, owner[u][s] = h, hub[h] \notin Ended
               PROVE  \/ clients[h][s] # NoConn /\ userOf[clients[h][s]] = u
                      \/ /\ busy[h].op = "unregister"
                         /\ userOf[busy[h].conn] = u /\ sessionOf[busy[h].conn] = s
    BY DEF StrayOnlyOfTheEnded
  <2>1. <<u, s, h>> \notin leaked
    BY DEF Faultless
  <2> QED
    BY <2>1 DEF IInv, StrayRouteHasACause
<1> QED
  BY <1>1, <1>2, <1>3, <1>4, Invariance, PTL DEF Spec

(***************************************************************************)
(* Without faults of Redis no pipeline is sent again: what a peer reads    *)
(* and what waits for it is in order and comes once, except a message for  *)
(* several users under the nil session, which has an entry for each        *)
(* (publish, writeEvent).                                                  *)
(***************************************************************************)
OnceForEachEntry ==
  \A c \in Conns :
    LET all == got[c] \o send[c]
    IN \A i, j \in 1..Len(all) : i < j =>
         \/ all[i].n < all[j].n
         \/ all[i].n = all[j].n /\ sessionOf[c] = NilSession /\ Several(all[j].to)

THEOREM FaultlessDelivery ==
  ASSUME MaxFaults = 0
  PROVE  Spec => []OnceForEachEntry
<1>1. Init => Faultless
  BY InitParts DEF Init, Faultless
<1>2. IInv /\ Faultless /\ [Next]_vars => Faultless'
  BY FaultlessStep
<1>3. IInv /\ Faultless => OnceForEachEntry
  <2>1. IInv => DeliveredInOrder
    BY OrderGivesDelivery DEF IInv
  <2> QED
    BY <2>1 DEF Faultless, DeliveredInOrder, MayFollow, OnceForEachEntry
<1> QED
  BY <1>1, <1>2, <1>3, Invariance, PTL DEF Spec
=============================================================================
