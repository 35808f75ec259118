------------------------------ MODULE Gateway ------------------------------
(***************************************************************************)
(* The websocket gateway (src/internal/gateway, src/internal/redis         *)
(* pubsub.go): hubs, one per process, with their connections, the hash of  *)
(* each user in Redis that names the hub of each session, and broadcasts,  *)
(* which read the hashes and publish to the channel of each hub.           *)
(*                                                                         *)
(* A hub id is never used again, so that a restart is another hub.  A      *)
(* ticket is taken by one GETDEL and becomes one connection: it is named   *)
(* after it.  A Redis call may be lost, or run after its caller gave up;   *)
(* every such call is only logged.                                         *)
(***************************************************************************)
EXTENDS Integers, FiniteSets, Sequences

CONSTANTS
  Hubs,            \* hub ids, one for each life of a process
  Conns,           \* connections, and the tickets they come from
  Users,
  Sessions,        \* session ids, the nil id among them
  NilSession,
  TicketSessions,  \* those that tickets carry; PrintTicket of the handler: the nil id
  Publishers,      \* requests that broadcast
  Audiences,       \* sets of users that broadcasts are for
  NoConn, NoHub, NoUser, NoEvent,
  QueueLength,     \* capacity of register, unregister and of a subscription
  SendLength,      \* capacity of a connection's Send
  MaxMessages,     \* bound: messages ever published
  MaxFaults        \* bound: lost or late Redis calls and missed heartbeats

ASSUME NamesAssumption ==
  NoConn \notin Conns /\ NoHub \notin Hubs /\ NoUser \notin Users \cup {NilSession}
ASSUME SessionsAssumption ==
  /\ NilSession \in Sessions /\ TicketSessions \subseteq Sessions
  /\ IsFiniteSet(Sessions)
ASSUME AudiencesAssumption == Audiences \subseteq SUBSET Users
ASSUME EventAssumption ==
  NoEvent \notin [to : SUBSET Users, targets : SUBSET (Users \X Hubs \X Sessions),
              n : 0..MaxMessages]
ASSUME BoundsAssumption ==
  /\ QueueLength \in Nat \ {0} /\ SendLength \in Nat \ {0}
  /\ MaxMessages \in Nat /\ MaxFaults \in Nat

VARIABLES
  hub,         \* [Hubs -> Stages]
  sub,         \* [Hubs -> Subscriptions]
  registerQ,   \* [Hubs -> Seq(Conns)]: the channel register
  unregisterQ, \* [Hubs -> Seq(Conns)]: the channel unregister
  busy,        \* [Hubs -> Works]: the Redis call that Run waits for
  clients,     \* [Hubs -> [Sessions -> Conns or NoConn]]
  phase,       \* [Conns -> Phases]
  userOf,      \* [Conns -> Users or NoUser]
  sessionOf,   \* [Conns -> Sessions]
  hubOf,       \* [Conns -> Hubs or NoHub]
  closed,      \* the connections whose Close was called
  closing,     \* those whose Close is in a goroutine that has not run
  owner,       \* [Users -> [Sessions -> Hubs or NoHub]]: fields of the hashes
  present,     \* the users whose hash has the field presence
  late,        \* scripts that Redis may still run, their callers gone
  inbox,       \* [Hubs -> Seq(Events)]: the subscription's buffer
  writing,     \* the hubs in the midst of the first event of theirs
  send,        \* [Conns -> Seq(Messages)]: Send
  got,         \* [Conns -> Seq(Messages)]: written to its peer, as long as it is there
  pending,     \* [Publishers -> a broadcast that has read its hashes, or NoEvent]
  log,         \* Seq(SUBSET Users): for whom each message published was, in order
  faults,      \* how many faults happened
  cutOff,      \* history: mapped connections whose route was lost, and is not back
  leaked,      \* history: routes left behind, by user, session and hub
  early,       \* history: connections unregistered before they were registered
  again        \* history: the messages that were published more than once

hubVars == <<hub, sub, registerQ, unregisterQ, busy, clients>>
connVars == <<phase, userOf, sessionOf, hubOf>>
redisVars == <<owner, present, late>>
messageVars == <<inbox, writing, send, got, pending, log, again>>
historyVars == <<cutOff, leaked, early>>
vars == <<hubVars, connVars, closed, closing, redisVars, messageVars, faults, historyVars>>

(***************************************************************************)
(* "closing": shutdown has unsubscribed.  "stopped": Run has returned, the *)
(* process runs on.  "dead": the process is gone.                          *)
(***************************************************************************)
Stages == {"new", "up", "closing", "stopped", "dead"}
Alive == {"up", "closing", "stopped"}
Subscriptions == {"off", "pending", "on"}

(***************************************************************************)
(* "accepted": upgraded, RegisterClient waits to send.  "open": sent, the  *)
(* pumps run.  "leaving": readPump has ended and waits to send to          *)
(* unregister.  "gone": it has sent, or the process died.                  *)
(***************************************************************************)
Phases == {"none", "ticket", "accepted", "open", "leaving", "gone"}

Works == [op : {"idle", "register", "unregister"}, conn : Conns \cup {NoConn}]
Idle == [op |-> "idle", conn |-> NoConn]

Scripts == [op : {"register", "unregister"}, user : Users, session : Sessions, hub : Hubs]
Messages == [n : 1..MaxMessages, to : SUBSET Users]

(***************************************************************************)
(* A list of targets has an entry for each field of each hash, and names a *)
(* session twice when two hashes do: an entry keeps the user of its hash.  *)
(* n: the message a broadcast has become, 0 before it is published.        *)
(***************************************************************************)
Events == [message : Messages, entries : SUBSET (Users \X Sessions)]
Broadcasts ==
  [to : SUBSET Users, targets : SUBSET (Users \X Hubs \X Sessions), n : 0..MaxMessages]

Elements(q) == {q[i] : i \in 1..Len(q)}

NoClients == [s \in Sessions |-> NoConn]
NoRoutes == [s \in Sessions |-> NoHub]

\* How many messages were published
published == Len(log)

\* c is the client its hub's map holds for its session.
Mapped(c) == hubOf[c] \in Hubs /\ clients[hubOf[c]][sessionOf[c]] = c

Init ==
  /\ hub = [h \in Hubs |-> "new"]
  /\ sub = [h \in Hubs |-> "off"]
  /\ registerQ = [h \in Hubs |-> <<>>]
  /\ unregisterQ = [h \in Hubs |-> <<>>]
  /\ busy = [h \in Hubs |-> Idle]
  /\ clients = [h \in Hubs |-> NoClients]
  /\ phase = [c \in Conns |-> "none"]
  /\ userOf = [c \in Conns |-> NoUser]
  /\ sessionOf = [c \in Conns |-> NilSession]
  /\ hubOf = [c \in Conns |-> NoHub]
  /\ closed = {} /\ closing = {}
  /\ owner = [u \in Users |-> NoRoutes]
  /\ present = {} /\ late = {}
  /\ inbox = [h \in Hubs |-> <<>>] /\ writing = {}
  /\ send = [c \in Conns |-> <<>>]
  /\ got = [c \in Conns |-> <<>>]
  /\ pending = [p \in Publishers |-> NoEvent]
  /\ log = <<>> /\ faults = 0
  /\ cutOff = {} /\ leaked = {} /\ early = {} /\ again = {}

-----------------------------------------------------------------------------
(* The scripts on a user's hash.                                           *)

Faulty == faults < MaxFaults /\ faults' = faults + 1

\* HLEN: the sessions and the field presence.
HashLength(routes, isPresent) ==
  Cardinality({s \in Sessions : routes[s] # NoHub}) + (IF isPresent THEN 1 ELSE 0)

\* A mutant: the field presence alone keeps the hash.
KeepHashOfOne(u, routes) == HashLength(routes, u \in present) > 0

\* A hash of one field or none is deleted.
KeepHash(u, routes) == HashLength(routes, u \in present) > 1

\* registerClientScript
RunRegister(u, s, h) ==
  /\ owner' = [owner EXCEPT ![u][s] = h]
  /\ present' = present \cup {u}

\* A mutant: the session exists, on any hub.
OwnedByAny(u, s, h) == owner[u][s] # NoHub

OwnedBy(u, s, h) == owner[u][s] = h

\* A mutant: the field of the session stays in a hash that stays.
RunUnregisterLast(u, s, h) ==
  LET keep == KeepHash(u, [owner[u] EXCEPT ![s] = NoHub])
  IN IF ~OwnedBy(u, s, h) \/ keep
     THEN UNCHANGED <<owner, present>>
     ELSE /\ owner' = [owner EXCEPT ![u] = NoRoutes]
          /\ present' = present \ {u}

\* unregisterClientScript: nothing when another hub owns the session.
RunUnregister(u, s, h) ==
  IF ~OwnedBy(u, s, h)
  THEN UNCHANGED <<owner, present>>
  ELSE LET routes == [owner[u] EXCEPT ![s] = NoHub]
           keep == KeepHash(u, routes)
       IN /\ owner' = [owner EXCEPT ![u] = IF keep THEN routes ELSE NoRoutes]
          /\ present' = IF keep THEN present ELSE present \ {u}

\* The routes of h that Redis holds.
RoutesOf(h) == {r \in Users \X Sessions \X {h} : owner[r[1]][r[2]] = h}

\* The mapped connections of the user's session on other hubs than h.
Elsewhere(u, s, h) ==
  {d \in Conns : Mapped(d) /\ userOf[d] = u /\ sessionOf[d] = s /\ hubOf[d] # h}

\* Those on h.
Here(u, s, h) ==
  {d \in Conns : Mapped(d) /\ userOf[d] = u /\ sessionOf[d] = s /\ hubOf[d] = h}

-----------------------------------------------------------------------------
(* Processes and their hub.                                                *)

\* NewHub and go wsHub.Run
Start(h) ==
  /\ hub[h] = "new"
  /\ hub' = [hub EXCEPT ![h] = "up"]
  /\ sub' = [sub EXCEPT ![h] = "pending"]
  /\ UNCHANGED <<registerQ, unregisterQ, busy, clients, connVars, closed, closing,
                 redisVars, messageVars, faults, historyVars>>

\* subscribe runs beside the loop.  When it fails, the hub goes on without events.
Subscribe(h) ==
  /\ hub[h] = "up" /\ sub[h] = "pending"
  /\ \/ sub' = [sub EXCEPT ![h] = "on"] /\ UNCHANGED faults
     \/ sub' = [sub EXCEPT ![h] = "off"] /\ Faulty
  /\ UNCHANGED <<hub, registerQ, unregisterQ, busy, clients, connVars, closed, closing,
                 redisVars, messageVars, historyVars>>

\* A mutant: setClient puts the new client in the map and closes nobody.
ReplacedByNone(h, s) == {}

\* The client that a new one of its session replaces
Replaced(h, s) == {clients[h][s]} \ {NoConn}

(***************************************************************************)
(* Run takes from either channel, when both have an element.  A client is  *)
(* mapped before Redis is told, and the one it replaces is closed; the     *)
(* route of that one stays when it belongs to another user.  The map is    *)
(* locked for reading while an event is written.                           *)
(***************************************************************************)
TakeRegister(h) ==
  /\ hub[h] = "up" /\ busy[h] = Idle /\ h \notin writing /\ registerQ[h] # <<>>
  /\ LET c == Head(registerQ[h])
         old == Replaced(h, sessionOf[c])
     IN /\ clients' = [clients EXCEPT ![h][sessionOf[c]] = c]
        /\ busy' = [busy EXCEPT ![h] = [op |-> "register", conn |-> c]]
        /\ closed' = closed \cup old
        /\ leaked' = leaked \cup {<<userOf[d], sessionOf[c], h>> :
                                  d \in {e \in old : userOf[e] # userOf[c]}}
        /\ cutOff' = cutOff \ old
        /\ early' = early \ old
  /\ registerQ' = [registerQ EXCEPT ![h] = Tail(@)]
  /\ UNCHANGED <<hub, sub, unregisterQ, connVars, closing, redisVars, messageVars,
                 faults>>

\* A mutant: Close waits for the pumps of the client it closes, and the hub with it.
WorkingOnceGone(h, op) ==
  /\ hub[h] = "up" /\ busy[h].op = op
  /\ \A c \in closed : hubOf[c] = h => phase[c] = "gone"

Working(h, op) == hub[h] = "up" /\ busy[h].op = op

FinishRegister(h) ==
  /\ Working(h, "register")
  /\ LET c == busy[h].conn
         u == userOf[c]
         s == sessionOf[c]
     IN \/ /\ RunRegister(u, s, h)
           /\ cutOff' = (cutOff \ {c}) \cup Elsewhere(u, s, h)
           /\ leaked' = leaked \ {<<u, s, h>>}
           /\ UNCHANGED <<late, faults>>
        \/ /\ Faulty
           /\ \/ UNCHANGED late
              \/ late' = late \cup {[op |-> "register", user |-> u, session |-> s, hub |-> h]}
           /\ cutOff' = cutOff \cup {c}
           /\ UNCHANGED <<owner, present, leaked>>
  /\ busy' = [busy EXCEPT ![h] = Idle]
  /\ UNCHANGED <<hub, sub, registerQ, unregisterQ, clients, connVars, closed, closing,
                 messageVars, early>>

\* A mutant: a client that is closed already counts as unregistered.
IsCurrentAndOpen(h, c) == clients[h][sessionOf[c]] = c /\ c \notin closed

IsCurrent(h, c) == clients[h][sessionOf[c]] = c

\* unsetClient: a client that is not the one mapped changes nothing.
TakeUnregister(h) ==
  /\ hub[h] = "up" /\ busy[h] = Idle /\ h \notin writing /\ unregisterQ[h] # <<>>
  /\ LET c == Head(unregisterQ[h])
     IN \/ /\ IsCurrent(h, c)
           /\ clients' = [clients EXCEPT ![h][sessionOf[c]] = NoConn]
           /\ busy' = [busy EXCEPT ![h] = [op |-> "unregister", conn |-> c]]
           /\ cutOff' = cutOff \ {c}
           /\ UNCHANGED early
        \/ /\ ~IsCurrent(h, c)
           /\ early' = IF c \in Elements(registerQ[h]) THEN early \cup {c} ELSE early
           /\ UNCHANGED <<clients, busy, cutOff>>
  /\ unregisterQ' = [unregisterQ EXCEPT ![h] = Tail(@)]
  /\ UNCHANGED <<hub, sub, registerQ, connVars, closed, closing, redisVars, messageVars,
                 faults, leaked>>

FinishUnregister(h) ==
  /\ Working(h, "unregister")
  /\ LET c == busy[h].conn
         u == userOf[c]
         s == sessionOf[c]
     IN /\ \/ /\ RunUnregister(u, s, h)
              /\ leaked' = leaked \ {<<u, s, h>>}
              /\ UNCHANGED <<late, faults>>
           \/ /\ Faulty
              /\ \/ UNCHANGED late
                 \/ late' = late \cup {[op |-> "unregister", user |-> u, session |-> s, hub |-> h]}
              /\ leaked' = leaked \cup {<<u, s, h>>}
              /\ UNCHANGED <<owner, present>>
        /\ closed' = closed \cup {c}
  /\ busy' = [busy EXCEPT ![h] = Idle]
  /\ UNCHANGED <<hub, sub, registerQ, unregisterQ, clients, connVars, closing,
                 messageVars, cutOff, early>>

(***************************************************************************)
(* shutdown, up to clearCache, which changes nothing: on a pipeline, Run   *)
(* of a script is an EVALSHA alone, nobody has loaded the script, and the  *)
(* NOSCRIPT that Redis answers is only logged.                             *)
(***************************************************************************)
BeginStop(h) ==
  /\ hub[h] = "up" /\ busy[h] = Idle
  /\ hub' = [hub EXCEPT ![h] = "closing"]
  /\ sub' = [sub EXCEPT ![h] = "off"]
  /\ UNCHANGED <<registerQ, unregisterQ, busy, clients, connVars, closed, closing, redisVars,
                 messageVars, faults, historyVars>>

(***************************************************************************)
(* closeAllClients; Run and listen return, and nobody takes from their     *)
(* channels again.  Every route of the hub is left behind.                 *)
(***************************************************************************)
EndStop(h) ==
  /\ hub[h] = "closing" /\ h \notin writing
  /\ hub' = [hub EXCEPT ![h] = "stopped"]
  /\ LET served == {clients[h][s] : s \in Sessions} \ {NoConn}
     IN /\ closed' = closed \cup served
        /\ cutOff' = cutOff \ served
        /\ early' = early \ served
  /\ leaked' = leaked \cup RoutesOf(h)
  /\ clients' = [clients EXCEPT ![h] = NoClients]
  /\ inbox' = [inbox EXCEPT ![h] = <<>>]
  /\ UNCHANGED <<sub, registerQ, unregisterQ, busy, connVars, closing, redisVars,
                 writing, send, got, pending, log, again, faults>>

\* The process ends, by a crash or as main returns: it does not wait for Run.
Die(h) ==
  /\ hub[h] \in Alive
  /\ hub' = [hub EXCEPT ![h] = "dead"]
  /\ sub' = [sub EXCEPT ![h] = "off"]
  /\ registerQ' = [registerQ EXCEPT ![h] = <<>>]
  /\ unregisterQ' = [unregisterQ EXCEPT ![h] = <<>>]
  /\ busy' = [busy EXCEPT ![h] = Idle]
  /\ clients' = [clients EXCEPT ![h] = NoClients]
  /\ phase' = [c \in Conns |-> IF hubOf[c] = h THEN "gone" ELSE phase[c]]
  /\ closed' = closed \cup {c \in Conns : hubOf[c] = h}
  /\ closing' = {c \in closing : hubOf[c] # h}
  /\ inbox' = [inbox EXCEPT ![h] = <<>>]
  /\ writing' = writing \ {h}
  /\ send' = [c \in Conns |-> IF hubOf[c] = h THEN <<>> ELSE send[c]]
  /\ got' = [c \in Conns |-> IF hubOf[c] = h THEN <<>> ELSE got[c]]
  /\ leaked' = leaked \cup RoutesOf(h)
  /\ cutOff' = {c \in cutOff : hubOf[c] # h}
  /\ early' = {c \in early : hubOf[c] # h}
  /\ UNCHANGED <<userOf, sessionOf, hubOf, redisVars, pending, log, again, faults>>

-----------------------------------------------------------------------------
(* Connections.                                                            *)

\* A mutant: the two ids of the payload swapped.
PrintTicketSwapped(c, u, s) ==
  /\ phase[c] = "none" /\ s \in TicketSessions
  /\ phase' = [phase EXCEPT ![c] = "ticket"]
  /\ userOf' = [userOf EXCEPT ![c] = s]
  /\ UNCHANGED <<hubVars, sessionOf, hubOf, closed, closing, redisVars, messageVars, faults,
                 historyVars>>

(***************************************************************************)
(* PrintTicket.  A session is of one user, except the nil one.  A ticket   *)
(* that expires after 30 s, or whose bearer fails to upgrade, is one that  *)
(* nobody brings.                                                          *)
(***************************************************************************)
PrintTicket(c, u, s) ==
  /\ phase[c] = "none" /\ s \in TicketSessions
  /\ s = NilSession \/ \A d \in Conns : sessionOf[d] = s => userOf[d] = u
  /\ phase' = [phase EXCEPT ![c] = "ticket"]
  /\ userOf' = [userOf EXCEPT ![c] = u]
  /\ sessionOf' = [sessionOf EXCEPT ![c] = s]
  /\ UNCHANGED <<hubVars, hubOf, closed, closing, redisVars, messageVars, faults, historyVars>>

\* ServeWS: PunchTicket, Upgrade, NewClient.  A handler may come after the hub's end.
Accept(c, h) ==
  /\ phase[c] = "ticket" /\ hub[h] \in Alive
  /\ phase' = [phase EXCEPT ![c] = "accepted"]
  /\ hubOf' = [hubOf EXCEPT ![c] = h]
  /\ UNCHANGED <<hubVars, userOf, sessionOf, closed, closing, redisVars, messageVars,
                 faults, historyVars>>

\* RegisterClient, once the channel has room, and StartPumps
Open(c) ==
  /\ phase[c] = "accepted" /\ Len(registerQ[hubOf[c]]) < QueueLength
  /\ registerQ' = [registerQ EXCEPT ![hubOf[c]] = Append(@, c)]
  /\ phase' = [phase EXCEPT ![c] = "open"]
  /\ UNCHANGED <<hub, sub, unregisterQ, busy, clients, userOf, sessionOf, hubOf, closed,
                 closing, redisVars, messageVars, faults, historyVars>>

\* ReadMessage fails: closed, the peer has gone, or no pong for 30 s.
ReaderEnds(c) ==
  /\ phase[c] = "open"
  /\ phase' = [phase EXCEPT ![c] = "leaving"]
  /\ UNCHANGED <<hubVars, userOf, sessionOf, hubOf, closed, closing, redisVars, messageVars,
                 faults, historyVars>>

\* The deferred send to unregister, once it has room, and the Close after it.
\* What the peer of a connection that is over has got is forgotten.
Leave(c) ==
  /\ phase[c] = "leaving" /\ Len(unregisterQ[hubOf[c]]) < QueueLength
  /\ unregisterQ' = [unregisterQ EXCEPT ![hubOf[c]] = Append(@, c)]
  /\ phase' = [phase EXCEPT ![c] = "gone"]
  /\ closed' = closed \cup {c}
  /\ send' = [send EXCEPT ![c] = <<>>] /\ got' = [got EXCEPT ![c] = <<>>]
  /\ UNCHANGED <<hub, sub, registerQ, busy, clients, userOf, sessionOf, hubOf, closing,
                 redisVars, inbox, writing, pending, log, again, faults, historyVars>>

\* go client.Close()
Close(c) ==
  /\ c \in closing
  /\ closed' = closed \cup {c}
  /\ closing' = closing \ {c}
  /\ UNCHANGED <<hubVars, connVars, redisVars, messageVars, faults, historyVars>>

\* A write or a ping fails: writePump closes the connection.
WriterFails(c) ==
  /\ phase[c] \in {"open", "leaving"} /\ c \notin closed
  /\ closed' = closed \cup {c}
  /\ send' = [send EXCEPT ![c] = <<>>]
  /\ UNCHANGED <<hubVars, connVars, closing, redisVars, inbox, writing, got, pending, log,
                 again, faults, historyVars>>

\* A mutant: the first message stays queued.
FlushAgain(c) ==
  /\ phase[c] \in {"open", "leaving"} /\ c \notin closed /\ send[c] # <<>>
  /\ got' = [got EXCEPT ![c] = @ \o send[c]] /\ Len(got[c]) <= MaxMessages
  /\ UNCHANGED <<hubVars, connVars, closed, closing, redisVars, inbox, writing, send,
                 pending, log, again, faults, historyVars>>

\* A mutant: what is queued last is written first.
FlushBackwards(c) ==
  /\ phase[c] \in {"open", "leaving"} /\ c \notin closed /\ send[c] # <<>>
  /\ got' = [got EXCEPT ![c] = send[c] \o @]
  /\ send' = [send EXCEPT ![c] = <<>>]
  /\ UNCHANGED <<hubVars, connVars, closed, closing, redisVars, inbox, writing, pending,
                 log, again, faults, historyVars>>

\* flushMessageBatch: the first message and all that are queued behind it
Flush(c) ==
  /\ phase[c] \in {"open", "leaving"} /\ c \notin closed /\ send[c] # <<>>
  /\ got' = [got EXCEPT ![c] = @ \o send[c]]
  /\ send' = [send EXCEPT ![c] = <<>>]
  /\ UNCHANGED <<hubVars, connVars, closed, closing, redisVars, inbox, writing, pending,
                 log, again, faults, historyVars>>

-----------------------------------------------------------------------------
(* What Redis does by itself.                                              *)

(***************************************************************************)
(* 90 s without an EXPIRE.  The pongs of a connection whose pumps run, one *)
(* in 20 s, refresh the hash: it takes a fault to lose it.                 *)
(***************************************************************************)
Expire(u) ==
  /\ u \in present
  /\ IF \E c \in Conns : userOf[c] = u /\ phase[c] = "open" THEN Faulty ELSE UNCHANGED faults
  /\ owner' = [owner EXCEPT ![u] = NoRoutes]
  /\ present' = present \ {u}
  /\ cutOff' = cutOff \cup {c \in Conns : Mapped(c) /\ userOf[c] = u}
  /\ leaked' = {r \in leaked : r[1] # u}
  /\ UNCHANGED <<hubVars, connVars, closed, closing, late, messageVars, early>>

\* A script whose caller gave up after 3 s
LateRuns(x) ==
  /\ x \in late
  /\ late' = late \ {x}
  /\ LET route == <<x.user, x.session, x.hub>>
         here == Here(x.user, x.session, x.hub)
     IN \/ /\ x.op = "register"
           /\ RunRegister(x.user, x.session, x.hub)
           /\ cutOff' = (cutOff \ here) \cup Elsewhere(x.user, x.session, x.hub)
           /\ leaked' = IF here = {} THEN leaked \cup {route} ELSE leaked
        \/ /\ x.op = "unregister"
           /\ RunUnregister(x.user, x.session, x.hub)
           /\ cutOff' = IF owner[x.user][x.session] = x.hub THEN cutOff \cup here ELSE cutOff
           /\ leaked' = leaked \ {route}
  /\ UNCHANGED <<hubVars, connVars, closed, closing, messageVars, faults, early>>

-----------------------------------------------------------------------------
(* Broadcasts, and the events on their way to the peers.                   *)

(***************************************************************************)
(* publish, up to the hubs: ToUser and ToUsers with sessions to leave out, *)
(* or ToUserSessions with those to reach.  The nil id is struck from both  *)
(* lists.  Without a target nothing is published.                          *)
(***************************************************************************)
ReadTargets(p, to, form, listed) ==
  /\ pending[p] = NoEvent /\ published < MaxMessages
  /\ form = "only" => Cardinality(to) = 1
  /\ LET reached(s) == IF form = "only" THEN s \in listed \ {NilSession}
                       ELSE s \notin listed \ {NilSession}
         targets == {t \in to \X Hubs \X Sessions :
                       reached(t[3]) /\ owner[t[1]][t[3]] = t[2]}
     IN /\ targets # {}
        /\ pending' = [pending EXCEPT ![p] = [to |-> to, targets |-> targets, n |-> 0]]
  /\ UNCHANGED <<hubVars, connVars, closed, closing, redisVars, inbox, writing, send, got,
                 log, again, faults, historyVars>>

\* The number of the message that a broadcast is, or becomes
NumberOf(p) == IF pending[p].n = 0 THEN published + 1 ELSE pending[p].n

EventFor(p, h) ==
  [message |-> [n |-> NumberOf(p), to |-> pending[p].to],
   entries |-> {e \in Users \X Sessions : <<e[1], h, e[2]>> \in pending[p].targets}]

(***************************************************************************)
(* PublishBatch: one event to the channel of each hub, where a             *)
(* subscription without room drops it and a channel that nobody listens to *)
(* forgets it.  A pipeline that breaks has reached some of the hubs: the   *)
(* client library sends all of it again, or gives up.                      *)
(***************************************************************************)
PublishBatch(p) ==
  /\ pending[p] # NoEvent /\ (pending[p].n # 0 \/ published < MaxMessages)
  /\ LET hubs == {t[2] : t \in pending[p].targets}
     IN \E reached \in SUBSET hubs :
          /\ \/ reached = hubs /\ UNCHANGED faults /\ pending' = [pending EXCEPT ![p] = NoEvent]
             \/ /\ Faulty
                /\ \/ pending' = [pending EXCEPT ![p] = NoEvent]
                   \/ pending' = [pending EXCEPT ![p].n = NumberOf(p)]
          /\ inbox' = [h \in Hubs |->
                         IF h \in reached /\ sub[h] = "on" /\ Len(inbox[h]) < QueueLength
                         THEN Append(inbox[h], EventFor(p, h)) ELSE inbox[h]]
  /\ IF pending[p].n = 0
     THEN log' = Append(log, pending[p].to) /\ UNCHANGED again
     ELSE again' = again \cup {pending[p].n} /\ UNCHANGED log
  /\ UNCHANGED <<hubVars, connVars, closed, closing, redisVars, writing, send, got,
                 historyVars>>

\* A mutant: any client of the hub.
NamedAny(h, s) == {clients[h][t] : t \in Sessions} \ {NoConn}

Named(h, s) == {clients[h][s]} \ {NoConn}

(***************************************************************************)
(* writeEvent, one entry of the list: a client without room is closed, by  *)
(* another goroutine.  The map stays locked up to the last entry.          *)
(***************************************************************************)
WriteEvent(h) ==
  /\ hub[h] \in {"up", "closing"} /\ inbox[h] # <<>>
  /\ LET event == Head(inbox[h])
     IN \E e \in event.entries :
          LET named == Named(h, e[2])
              full == {c \in named : Len(send[c]) >= SendLength}
              rest == event.entries \ {e}
          IN /\ send' = [c \in Conns |-> IF c \in named \ full
                                         THEN Append(send[c], event.message) ELSE send[c]]
             /\ closing' = closing \cup (full \ closed)
             /\ inbox' = IF rest = {} THEN [inbox EXCEPT ![h] = Tail(@)]
                         ELSE [inbox EXCEPT ![h][1].entries = rest]
             /\ writing' = IF rest = {} THEN writing \ {h} ELSE writing \cup {h}
  /\ UNCHANGED <<hubVars, connVars, closed, redisVars, got, pending, log, again, faults,
                 historyVars>>

-----------------------------------------------------------------------------
RunStep(h) ==
  \/ TakeRegister(h) \/ FinishRegister(h) \/ TakeUnregister(h) \/ FinishUnregister(h)

Next ==
  \/ \E h \in Hubs :
       \/ Start(h) \/ Subscribe(h) \/ RunStep(h) \/ BeginStop(h) \/ EndStop(h) \/ Die(h)
       \/ WriteEvent(h)
  \/ \E c \in Conns :
       \/ \E u \in Users, s \in Sessions : PrintTicket(c, u, s)
       \/ (\E h \in Hubs : Accept(c, h)) \/ Open(c) \/ ReaderEnds(c)
       \/ Leave(c) \/ Close(c) \/ WriterFails(c) \/ Flush(c)
  \/ \E u \in Users : Expire(u)
  \/ \E x \in late : LateRuns(x)
  \/ \E p \in Publishers :
       \/ \E to \in Audiences, form \in {"only", "without"}, listed \in SUBSET Sessions :
            ReadTargets(p, to, form, listed)
       \/ PublishBatch(p)

Spec == Init /\ [][Next]_vars

(***************************************************************************)
(* Run's loop takes what is in its channels and its Redis calls end within *)
(* 3 s; a read on a closed connection fails; goroutines that can go on do; *)
(* an event that waits is written.                                         *)
(***************************************************************************)
Fairness ==
  /\ \A h \in Hubs :
       /\ WF_vars(TakeRegister(h)) /\ WF_vars(FinishRegister(h))
       /\ WF_vars(TakeUnregister(h)) /\ WF_vars(FinishUnregister(h))
       /\ WF_vars(EndStop(h)) /\ WF_vars(WriteEvent(h))
  /\ \A c \in Conns :
       /\ WF_vars(Open(c)) /\ WF_vars(Leave(c)) /\ WF_vars(Close(c)) /\ WF_vars(Flush(c))
       /\ WF_vars(c \in closed /\ ReaderEnds(c))

FairSpec == Spec /\ Fairness

-----------------------------------------------------------------------------
(* Properties.                                                             *)

TypeOK ==
  /\ hub \in [Hubs -> Stages] /\ sub \in [Hubs -> Subscriptions]
  /\ registerQ \in [Hubs -> Seq(Conns)] /\ unregisterQ \in [Hubs -> Seq(Conns)]
  /\ busy \in [Hubs -> Works]
  /\ clients \in [Hubs -> [Sessions -> Conns \cup {NoConn}]]
  /\ phase \in [Conns -> Phases]
  /\ userOf \in [Conns -> Users \cup {NoUser}]
  /\ sessionOf \in [Conns -> Sessions] /\ hubOf \in [Conns -> Hubs \cup {NoHub}]
  /\ closed \subseteq Conns /\ closing \subseteq Conns
  /\ owner \in [Users -> [Sessions -> Hubs \cup {NoHub}]]
  /\ present \subseteq Users /\ late \subseteq Scripts
  /\ inbox \in [Hubs -> Seq(Events)] /\ writing \subseteq Hubs
  /\ send \in [Conns -> Seq(Messages)] /\ got \in [Conns -> Seq(Messages)]
  /\ pending \in [Publishers -> Broadcasts \cup {NoEvent}]
  /\ log \in Seq(SUBSET Users) /\ published \in 0..MaxMessages
  /\ again \subseteq 1..MaxMessages /\ faults \in 0..MaxFaults
  /\ cutOff \subseteq Conns /\ early \subseteq Conns
  /\ leaked \subseteq Users \X Sessions \X Hubs

(***************************************************************************)
(* No connection that its peer can use is unknown to a running hub: it is  *)
(* in the map under its session, or waits to be put there.  The one that a *)
(* new client of its session replaces is closed in the same step, and an   *)
(* unregister that comes late does not take the new one out (hub.go:274,   *)
(* 301).                                                                   *)
(***************************************************************************)
LiveIsMapped ==
  \A c \in Conns :
    phase[c] = "open" /\ c \notin closed /\ hub[hubOf[c]] = "up"
      => c \in Elements(registerQ[hubOf[c]]) \/ Mapped(c)

(***************************************************************************)
(* A user's hash says presence exactly when it names a hub for a session:  *)
(* register and unregister write both, and the second deletes the hash     *)
(* with its last session and never before (cache.go:129).                  *)
(***************************************************************************)
PresentWithASession ==
  \A u \in Users : u \in present <=> \E s \in Sessions : owner[u][s] # NoHub

(***************************************************************************)
(* A connection that its hub serves can be reached by broadcasts, once its *)
(* registration is over, unless a cause took its route away: the Redis     *)
(* call failed (hub.go:253 only logs it), the hash expired, a late         *)
(* unregister ran, or its session registered on another hub.               *)
(***************************************************************************)
UnreachableHasACause ==
  \A c \in Conns :
    Mapped(c) /\ phase[c] = "open" /\ hub[hubOf[c]] = "up" /\ busy[hubOf[c]].conn # c
      => owner[userOf[c]][sessionOf[c]] = hubOf[c] \/ c \in cutOff

(***************************************************************************)
(* The converse: a route leads to a hub that serves a client of that user  *)
(* under that session, or that is about to remove it, unless a cause left  *)
(* it behind: its hub has stopped (hub.go:231 removes none) or died, a     *)
(* script failed or was late, or a client of another user took the place   *)
(* in the map (hub.go:274).                                                *)
(***************************************************************************)
StrayRouteHasACause ==
  \A u \in Users, s \in Sessions, h \in Hubs :
    owner[u][s] = h /\ <<u, s, h>> \notin leaked
      => \/ clients[h][s] # NoConn /\ userOf[clients[h][s]] = u
         \/ /\ busy[h].op = "unregister"
            /\ userOf[busy[h].conn] = u /\ sessionOf[busy[h].conn] = s

(***************************************************************************)
(* A connection that is over stays in the map only until its unregister is *)
(* taken, except when that was taken before its register: the two channels *)
(* are not ordered (hub.go:92).                                            *)
(***************************************************************************)
DeadClientIsEarly ==
  \A c \in Conns :
    Mapped(c) /\ phase[c] = "gone"
      => c \in Elements(unregisterQ[hubOf[c]]) \/ c \in early

Several(to) == \E u, v \in to : u # v

\* b may reach c after a.
MayFollow(c, a, b) ==
  \/ a.n < b.n
  \/ b.n \in again
  \/ a.n = b.n /\ sessionOf[c] = NilSession /\ Several(b.to)

(***************************************************************************)
(* What a peer reads, and what waits for it, is in the order it was        *)
(* published and never twice, whatever was dropped on the way.  Two        *)
(* exceptions: a message that the client library published again when its  *)
(* reply was lost (pubsub.go:96) may come late and once more; and one that *)
(* is for several users comes more than once to a connection under the nil *)
(* session, which their hashes share (broadcaster.go:169).                 *)
(***************************************************************************)
DeliveredInOrder ==
  \A c \in Conns :
    LET all == got[c] \o send[c]
    IN \A i, j \in 1..Len(all) : i < j => MayFollow(c, all[i], all[j])

(***************************************************************************)
(* "ToUser broadcasts an event to a single target user"                    *)
(* (broadcaster.go:22): a connection under a session of its own is never   *)
(* written another user's message, whatever became of the route meanwhile. *)
(* Under the nil session, which is what handler.go:53 puts in every        *)
(* ticket, it is: the exception is needed.                                 *)
(***************************************************************************)
OtherUsersOnlyByTheNilSession ==
  \A c \in Conns : \A i \in 1..Len(got[c]) :
    userOf[c] \in got[c][i].to \/ sessionOf[c] = NilSession

(***************************************************************************)
(* To its peer a connection is a feed of PeerFeeds: messages for its user, *)
(* some of those published, in their order but for those published again,  *)
(* until it is over.                                                       *)
(***************************************************************************)
ReaderOf(c) ==
  IF phase[c] = "none" THEN NoUser
  ELSE IF sessionOf[c] = NilSession THEN NilSession ELSE userOf[c]

Feeds == INSTANCE PeerFeeds WITH
  Peers <- Conns, Nobody <- NoUser, Anyone <- NilSession, Batch <- SendLength,
  reader <- [c \in Conns |-> ReaderOf(c)],
  over <- {c \in Conns : phase[c] = "gone"},
  feed <- [c \in Conns |-> [i \in 1..Len(got[c]) |-> got[c][i].n]]

ImplementsPeerFeeds == Feeds!Spec

(***************************************************************************)
(* A client that was closed, or whose Send was full, leaves its hub's map, *)
(* as long as the hub runs, unless its unregister came too early.          *)
(***************************************************************************)
ClosedIsForgotten ==
  \A c \in Conns :
    (Mapped(c) /\ c \in closed \cup closing)
      ~> (~Mapped(c) \/ c \in early)

(***************************************************************************)
(* readPump does not wait for good to unregister, as long as the hub runs. *)
(* Once Run has returned nobody takes from the channel (client.go:255).    *)
(***************************************************************************)
ReadersEnd ==
  \A c \in Conns :
    (phase[c] = "leaving") ~> (phase[c] # "leaving" \/ hub[hubOf[c]] \notin {"up", "closing"})
=============================================================================
