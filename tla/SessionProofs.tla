---------------------------- MODULE SessionProofs ----------------------------
(***************************************************************************)
(* Theorems about Session, for every set of clients, every number of       *)
(* connections each of them makes and every bound.                         *)
(***************************************************************************)
EXTENDS Session, RoomServerProofs

-----------------------------------------------------------------------------
(* Type correctness.                                                       *)

(* What the server reads from a socket is an update.                       *)
LEMMA UplinkHead ==
  ASSUME SessionTypeOK, NEW s \in Socket, uplink[s] # <<>>
  PROVE  Head(uplink[s]) \in Update /\ Tail(uplink[s]) \in Seq(Update)
<1>1. uplink[s] \in Seq(Update)
  BY DEF SessionTypeOK
<1> QED
  BY <1>1, HeadTailProperties

(* Client::on_message keeps the types: what it stores comes from a typed   *)
(* queue.                                                                  *)
LEMMA on_messageType ==
  ASSUME SessionTypeOK, NEW a \in App, on_message(a), current(a) \in Socket
  PROVE  SessionTypeOK'
<1> DEFINE s == current(a)
           m == Head(inbox[s])
<1>1. inbox[s] \in Seq(Message) /\ inbox[s] # <<>>
  BY DEF on_message, SessionTypeOK, TypeOK, Message
<1>2. m \in Message /\ Tail(inbox[s]) \in Seq(Message)
  BY <1>1, HeadTailProperties
<1>3. inbox' \in [Socket -> Seq(Message)]
  BY <1>2 DEF on_message, SessionTypeOK, TypeOK, Message
<1>4. TypeOK'
  BY <1>3 DEF on_message, SessionTypeOK, TypeOK, Message
<1>5. /\ client_id' \in [App -> Nat \cup {-1}]
      /\ room_id' \in [App -> Nat \cup {-1}]
      /\ facing' \in [App -> {"LEFT", "RIGHT"}]
      /\ enemy' \in [App -> App \cup {None}]
  <2>1. CASE m.type = "set_id"
    <3>1. m.id \in Nat
      BY <1>2, <2>1 DEF Message, SetId, SetRoom, Update
    <3>2. /\ client_id' = [client_id EXCEPT ![a] = m.id]
          /\ UNCHANGED <<room_id, facing, enemy>>
      BY <2>1 DEF on_message
    <3> QED
      BY <3>1, <3>2 DEF SessionTypeOK
  <2>2. CASE m.type = "set_room"
    <3>1. m.id \in Nat
      BY <1>2, <2>2 DEF Message, SetId, SetRoom, Update
    <3>2. /\ room_id' = [room_id EXCEPT ![a] = m.id]
          /\ facing' = [facing EXCEPT ![a] = Side(m, client_id[a])]
          /\ UNCHANGED <<client_id, enemy>>
      BY <2>2 DEF on_message
    <3> QED
      BY <3>1, <3>2 DEF SessionTypeOK, Side
  <2>3. CASE m.type = "update"
    <3>1. m.data \in App
      BY <1>2, <2>3, SessionAssumption DEF Message, SetId, SetRoom, Update
    <3>2. /\ enemy' = [enemy EXCEPT ![a] = m.data]
          /\ UNCHANGED <<client_id, room_id, facing>>
      BY <2>3 DEF on_message
    <3> QED
      BY <3>1, <3>2 DEF SessionTypeOK
  <2> QED
    BY <2>1, <2>2, <2>3 DEF on_message
<1> QED
  BY <1>4, <1>5 DEF on_message, SessionTypeOK

(* A client with a connection uses one of its sockets.                     *)
OnSocket == \A a \in App : link[a] # "down" => current(a) \in Socket

(* A client that dials or is up is on one of its sockets.                  *)
LEMMA OnSocketStep ==
  ASSUME SessionTypeOK, OnSocket, [SpacedSessionNext]_sessionVars
  PROVE  OnSocket'
<1>1. ASSUME NEW a \in App, Dial(a)
      PROVE  OnSocket'
  BY <1>1 DEF Dial, OnSocket, current, SessionTypeOK
<1>2. ASSUME NEW a \in App, on_open(a) \/ Drop(a)
      PROVE  OnSocket'
  BY <1>2 DEF on_open, Drop, OnSocket, current, SessionTypeOK
<1>3. CASE UNCHANGED <<conn, link>>
  BY <1>3 DEF OnSocket, current
<1>4. ASSUME NEW a \in App, on_message(a) \/ SendUpdate(a)
      PROVE  UNCHANGED <<conn, link>>
  BY <1>4 DEF on_message, SendUpdate
<1>5. ASSUME NEW s \in Socket, LinkStep(s) \/ SpacedAccept(s)
      PROVE  UNCHANGED <<conn, link>>
  BY <1>5 DEF LinkStep, Receive, Hangup, Discard, SpacedAccept, clientVars
<1>6. Clock \/ (confirm_room /\ UNCHANGED clientVars) \/ UNCHANGED sessionVars
        => UNCHANGED <<conn, link>>
  BY DEF Clock, clientVars, sessionVars
<1> QED
  BY <1>1, <1>2, <1>3, <1>4, <1>5, <1>6
  DEF SpacedSessionNext, SessionStep, ClientStep

(* A client that has a room has an id: see Standing below.                 *)
HasId == \A a \in App : room_id[a] >= 0 => client_id[a] \in Nat

(* No step of clients, server or links leaves the types.                   *)
LEMMA SessionTypeStep ==
  ASSUME SessionTypeOK, OnSocket, HasId, [SpacedSessionNext]_sessionVars
  PROVE  SessionTypeOK'
<1>1. CASE UNCHANGED sessionVars
  BY <1>1 DEF sessionVars, serverVars, clientVars, SessionTypeOK, TypeOK
<1>2. CASE [Next]_serverVars /\ UNCHANGED clientVars
  <2>1. TypeOK'
    BY <1>2, TypeStep DEF SessionTypeOK
  <2> QED
    BY <1>2, <2>1 DEF SessionTypeOK, clientVars
<1>3. Clock => [Next]_serverVars /\ UNCHANGED clientVars
  BY DEF Clock, Next, ServerStep
<1>4. confirm_room => Next
  BY DEF Next, ServerStep
<1>5. ASSUME NEW s \in Socket, SpacedAccept(s)
      PROVE  Next /\ UNCHANGED clientVars
  BY <1>5 DEF SpacedAccept, SpacedConnection, Next
<1>6. ASSUME NEW a \in App, Dial(a) \/ on_open(a) \/ Drop(a)
      PROVE  SessionTypeOK'
  <2>1. TypeOK'
    BY <1>6 DEF Dial, on_open, Drop, serverVars, SessionTypeOK, TypeOK
  <2>2. conn' \in [App -> Nat] /\ link' \in [App -> {"down", "dialing", "up"}]
    <3>1. CASE Dial(a)
      BY <3>1 DEF Dial, SessionTypeOK
    <3>2. CASE on_open(a) \/ Drop(a)
      BY <3>2 DEF on_open, Drop, SessionTypeOK
    <3> QED
      BY <1>6, <3>1, <3>2
  <2>3. UNCHANGED <<client_id, room_id, facing, enemy, uplink>>
    BY <1>6 DEF Dial, on_open, Drop
  <2> QED
    BY <2>1, <2>2, <2>3 DEF SessionTypeOK
<1>7. ASSUME NEW a \in App, on_message(a)
      PROVE  SessionTypeOK'
  <2>1. current(a) \in Socket
    BY <1>7 DEF on_message, OnSocket
  <2> QED
    BY <1>7, <2>1, on_messageType
<1>8. ASSUME NEW a \in App, SendUpdate(a)
      PROVE  SessionTypeOK'
  <2> DEFINE s == current(a)
             m == [type |-> "update", room_id |-> room_id[a],
                   client_id |-> client_id[a], data |-> a]
  <2>1. s \in Socket
    BY <1>8 DEF SendUpdate, OnSocket
  <2>2. m \in Update
    BY <1>8, SessionAssumption
    DEF SendUpdate, is_connected_to_playroom, HasId, Update, SessionTypeOK
  <2>3. TypeOK'
    BY <1>8 DEF SendUpdate, serverVars, SessionTypeOK, TypeOK
  <2>4. uplink' = [uplink EXCEPT ![s] = Append(@, m)]
    BY <1>8 DEF SendUpdate
  <2> HIDE DEF m, s
  <2>5. uplink' \in [Socket -> Seq(Update)]
    BY <2>1, <2>2, <2>4, AppendProperties DEF SessionTypeOK
  <2> QED
    BY <1>8, <2>3, <2>5 DEF SendUpdate, SessionTypeOK
<1>9. ASSUME NEW s \in Socket, Receive(s)
      PROVE  SessionTypeOK'
  <2>1. Head(uplink[s]) \in Update /\ Tail(uplink[s]) \in Seq(Update)
    BY <1>9, UplinkHead DEF Receive
  <2>2. TypeOK'
    BY <1>9, <2>1, on_updateType DEF Receive, SessionTypeOK
  <2> QED
    BY <1>9, <2>1, <2>2 DEF Receive, SessionTypeOK
<1>10. ASSUME NEW s \in Socket, Hangup(s)
       PROVE  SessionTypeOK'
  <2>1. TypeOK'
    BY <1>10, TypeStep DEF Hangup, Next, ServerStep, SessionTypeOK
  <2> QED
    BY <1>10, <2>1, EmptySeq DEF Hangup, SessionTypeOK
<1>11. ASSUME NEW s \in Socket, Discard(s)
       PROVE  SessionTypeOK'
  BY <1>11, EmptySeq DEF Discard, clientVars, SessionTypeOK, TypeOK
<1> QED
  BY <1>1, <1>2, <1>3, <1>4, <1>5, <1>6, <1>7, <1>8, <1>9, <1>10, <1>11
  DEF SpacedSessionNext, SessionStep, ClientStep, LinkStep

-----------------------------------------------------------------------------
(* The server in the session.  Every step is one of RoomServer when seen   *)
(* through the arrays, so that what is proved there of rooms and ids holds *)
(* here as well.                                                           *)

(* To the server a session is connections with new ids, and the clock      *)
(* stands still during confirm_room.                                       *)
LEMMA SessionIsSpacedStep ==
  ASSUME SessionTypeOK, [SpacedSessionNext]_sessionVars
  PROVE  /\ SpacedStep
         /\ scan # 0 => now' = now
<1> DEFINE Goal == SpacedStep /\ (scan # 0 => now' = now)
<1>1. UNCHANGED <<clients, rooms, now, readyState, scan>> => Goal
  BY DEF SpacedStep, QuietStep
<1>2. UNCHANGED sessionVars => Goal
  BY <1>1 DEF sessionVars, serverVars
<1>3. Clock => Goal
  BY DEF Clock, Idle, Tick, SpacedStep, QuietStep
<1>4. confirm_room => Goal
  BY DEF confirm_room, SpacedStep
<1>5. ASSUME NEW a \in App, ClientStep(a)
      PROVE  Goal
  BY <1>1, <1>5 DEF ClientStep, Dial, on_open, Drop, on_message, SendUpdate, serverVars
<1>6. ASSUME NEW s \in Socket, Receive(s) \/ Discard(s)
      PROVE  Goal
  BY <1>1, <1>6 DEF Receive, on_update, Discard
<1>7. ASSUME NEW s \in Socket, Hangup(s)
      PROVE  Goal
  BY <1>7 DEF Hangup, SocketClosed, SpacedStep, QuietStep, SessionTypeOK, TypeOK
<1>8. ASSUME NEW s \in Socket, SpacedAccept(s)
      PROVE  Goal
  BY <1>8 DEF SpacedAccept, SpacedConnection, on_connection, SpacedStep
<1> QED
  BY <1>2, <1>3, <1>4, <1>5, <1>6, <1>7, <1>8
  DEF SpacedSessionNext, SessionStep, LinkStep

(* The clock stands still while confirm_room runs: a room has the id of    *)
(* the client that completed it.                                           *)
RoomIds ==
  /\ \A k \in 1..Len(rooms) : rooms[k].id = clients[2 * k].id
  /\ scan # 0 => Len(clients) > 0 /\ clients[Len(clients)].id = now

(* Rooms and the loop of confirm_room keep these ids.                      *)
LEMMA RoomIdsStep ==
  ASSUME TypeOK, Pairing, RoomIds, SpacedStep, scan # 0 => now' = now
  PROVE  RoomIds'
<1>1. Len(clients) \in Nat /\ Len(rooms) \in Nat /\ 2 * Len(rooms) <= Len(clients)
  BY ClientTypes DEF Pairing, RoomsPairNeighbours
<1>2. \A k \in 1..Len(rooms) : 2 * k \in 1..Len(clients)
  BY <1>1
<1>3. CASE QuietStep
  BY <1>3 DEF QuietStep, RoomIds
<1>4. CASE confirm_room /\ UNCHANGED <<clients, rooms>>
  BY <1>4 DEF confirm_room, RoomIds
<1>5. CASE confirm_room /\ ~ UNCHANGED <<clients, rooms>>
  <2> DEFINE L == Len(clients)
             R == Len(rooms)
  <2>1. /\ L = 2 * R + 2
        /\ Len(rooms') = R + 1
        /\ \A k \in 1..R : rooms'[k] = rooms[k]
        /\ rooms'[R + 1].id = now
        /\ Len(clients') = L
        /\ \A i \in 1..L : clients'[i].id = clients[i].id
    BY <1>5, RoomEffect
  <2>2. clients[L].id = now /\ now' = now /\ L \in 1..L
    BY <1>1, <1>5, <2>1 DEF confirm_room, RoomIds
  <2>3. ASSUME NEW k \in 1..(R + 1)
        PROVE  rooms'[k].id = clients'[2 * k].id
    <3>1. CASE k \in 1..R
      BY <1>2, <2>1, <3>1 DEF RoomIds
    <3>2. CASE k = R + 1
      <4>1. 2 * k = L
        BY <1>1, <2>1, <3>2
      <4> QED
        BY <2>1, <2>2, <3>2, <4>1
    <3> QED
      BY <1>1, <3>1, <3>2
  <2> QED
    BY <1>1, <2>1, <2>2, <2>3 DEF RoomIds
<1>6. ASSUME NEW s \in Socket, SpacedConnection(s)
      PROVE  RoomIds'
  <2>1. on_connection(s)
    BY <1>6 DEF SpacedConnection
  <2>2. /\ Len(clients') = Len(clients) + 1
        /\ \A i \in 1..Len(clients) : clients'[i] = clients[i]
        /\ clients'[Len(clients) + 1].id = now
        /\ UNCHANGED <<rooms, now>>
    BY <2>1, ConnectionEffect
  <2> QED
    BY <1>1, <1>2, <2>2 DEF RoomIds
<1> QED
  BY <1>3, <1>4, <1>5, <1>6 DEF SpacedStep

(* No two rooms have the same id.                                          *)
LEMMA RoomsDiffer ==
  ASSUME TypeOK, Pairing, Identified, RoomIds,
         NEW k \in 1..Len(rooms), NEW n \in 1..Len(rooms), rooms[k].id = rooms[n].id
  PROVE  k = n
<1>1. Len(clients) \in Nat /\ Len(rooms) \in Nat /\ 2 * Len(rooms) <= Len(clients)
  BY ClientTypes DEF Pairing, RoomsPairNeighbours
<1>2. 2 * k \in 1..Len(clients) /\ 2 * n \in 1..Len(clients)
  BY <1>1
<1>3. 2 * k = 2 * n
  BY <1>2 DEF RoomIds, Identified
<1> QED
  BY <1>3

(* Clients and rooms are only added, and connections only counted up.      *)
Grow ==
  /\ Len(clients) <= Len(clients') /\ Len(rooms) <= Len(rooms')
  /\ Len(clients') \in Nat /\ Len(rooms') \in Nat
  /\ \A i \in 1..Len(clients) : /\ clients'[i].id = clients[i].id
                                /\ clients'[i].socket = clients[i].socket
  /\ \A k \in 1..Len(rooms) : rooms'[k] = rooms[k]
  /\ \A a \in App : conn[a] <= conn'[a]

(* Clients and rooms are only ever added.                                  *)
LEMMA SessionGrows ==
  ASSUME SessionTypeOK, Pairing, [SpacedSessionNext]_sessionVars
  PROVE  Grow
<1>1. TypeOK /\ SpacedStep
  BY SessionIsSpacedStep DEF SessionTypeOK
<1>2. Len(clients) \in Nat /\ Len(rooms) \in Nat
  BY <1>1, ClientTypes
<1> DEFINE Kept == /\ Len(clients) <= Len(clients') /\ Len(rooms) <= Len(rooms')
                   /\ Len(clients') \in Nat /\ Len(rooms') \in Nat
                   /\ \A i \in 1..Len(clients) :
                        /\ clients'[i].id = clients[i].id
                        /\ clients'[i].socket = clients[i].socket
                   /\ \A k \in 1..Len(rooms) : rooms'[k] = rooms[k]
<1>3. UNCHANGED <<clients, rooms>> => Kept
  BY <1>2
<1>4. confirm_room /\ ~ UNCHANGED <<clients, rooms>> => Kept
  BY <1>1, <1>2, RoomEffect
<1>5. ASSUME NEW s \in Socket, SpacedConnection(s)
      PROVE  Kept
  BY <1>1, <1>2, <1>5, ConnectionEffect DEF SpacedConnection
<1>6. Kept
  BY <1>1, <1>3, <1>4, <1>5 DEF SpacedStep, QuietStep
<1>7. ASSUME NEW a \in App, Dial(a)
      PROVE  \A b \in App : conn[b] <= conn'[b]
  BY <1>7 DEF Dial, SessionTypeOK
<1>8. UNCHANGED conn => \A b \in App : conn[b] <= conn'[b]
  BY DEF SessionTypeOK
<1>9. (\E a \in App : Dial(a)) \/ UNCHANGED conn
  <2>1. ASSUME NEW a \in App, ClientStep(a)
        PROVE  Dial(a) \/ UNCHANGED conn
    BY <2>1 DEF ClientStep, on_open, Drop, on_message, SendUpdate
  <2>2. ASSUME NEW s \in Socket, LinkStep(s) \/ SpacedAccept(s)
        PROVE  UNCHANGED conn
    BY <2>2 DEF LinkStep, Receive, Hangup, Discard, SpacedAccept, clientVars
  <2> QED
    BY <2>1, <2>2 DEF SpacedSessionNext, SessionStep, Clock, clientVars, sessionVars
<1> QED
  BY <1>6, <1>7, <1>8, <1>9 DEF Grow

-----------------------------------------------------------------------------
(* Who hears whom.  Ids travel from the server to a client and back in its *)
(* updates; the invariant says, of every place where an id can be, to      *)
(* which connection of which client it belongs.                            *)

(* Connection i of client a gave it its id, and its connection j, no later *)
(* than i, is the member of room k that gave it its room.                  *)
Stand(a, i, k, j) ==
  /\ i \in 1..Len(clients) /\ k \in 1..Len(rooms) /\ j \in {2 * k - 1, 2 * k}
  /\ clients[i].socket[1] = a /\ clients[j].socket[1] = a
  /\ clients[j].socket[2] <= clients[i].socket[2]

(* What client a remembers: ids that may be of two connections.            *)
Standing ==
  \A a \in App : room_id[a] >= 0 =>
    \E i, k, j \in Nat :
      /\ Stand(a, i, k, j)
      /\ client_id[a] = clients[i].id
      /\ room_id[a] = rooms[k].id
      /\ facing[a] = IF j = 2 * k - 1 THEN "RIGHT" ELSE "LEFT"

(* What it has written.                                                    *)
Sent(s) == Range(uplink[s])

Written ==
  \A s \in Socket : \A m \in Sent(s) : \E i, k, j \in Nat :
    Stand(m.data, i, k, j) /\ m.client_id = clients[i].id /\ m.room_id = rooms[k].id

(* A client may also hear itself, on a connection that it has given up.    *)
Heard(s, a) ==
  \/ \E t \in Socket : t[1] = a /\ Opposite(s, t)
  \/ s[1] = a /\ s[2] < conn[a]

(* What the server has sent on a socket.                                   *)
Posted(s) == Range(inbox[s])

Genuine(s, m) ==
  /\ m.type = "set_id" =>
       \E i \in 1..Len(clients) : clients[i].socket = s /\ clients[i].id = m.id
  /\ m.type = "set_room" =>
       \E k \in 1..Len(rooms) : /\ s \in Members(k)
                                 /\ m.id = rooms[k].id /\ m.left = rooms[k].left
  /\ m.type = "update" => Heard(s, m.data)

Mail == \A s \in Socket : \A m \in Posted(s) : Genuine(s, m)

AllDialled == \A i \in 1..Len(clients) : Dialled(clients[i].socket)

Silent == \A s \in Socket : readyState[s] # "open" => inbox[s] = <<>>

(* On a connection that is up, set_id comes first.                         *)
Fresh ==
  \A a \in App : link[a] # "down" /\ readyState[current(a)] = "open" =>
    \A i \in 1..Len(clients) : clients[i].socket = current(a) =>
      \/ client_id[a] = clients[i].id
      \/ inbox[current(a)] # <<>> /\ Head(inbox[current(a)]).type = "set_id"

SessionInv ==
  /\ SessionTypeOK /\ OnSocket
  /\ Pairing /\ Identified /\ RoomIds
  /\ AllDialled /\ Silent /\ Mail /\ Fresh /\ Standing /\ Written

(* Members of rooms are clients.                                           *)
LEMMA MemberIndex ==
  ASSUME TypeOK, Pairing, NEW k \in 1..Len(rooms)
  PROVE  /\ 2 * k - 1 \in 1..Len(clients) /\ 2 * k \in 1..Len(clients)
         /\ 2 * k - 1 # 2 * k
<1>1. Len(clients) \in Nat /\ Len(rooms) \in Nat /\ 2 * Len(rooms) <= Len(clients)
  BY ClientTypes DEF Pairing, RoomsPairNeighbours
<1> QED
  BY <1>1

(* What is true of ids, members and opponents stays true.                  *)
LEMMA StandGrows ==
  ASSUME TypeOK, Pairing, Grow, NEW a, NEW i, NEW k, NEW j, Stand(a, i, k, j)
  PROVE  /\ Stand(a, i, k, j)'
         /\ clients'[i].id = clients[i].id
         /\ rooms'[k].id = rooms[k].id
<1>1. j \in 1..Len(clients)
  BY MemberIndex DEF Stand
<1>2. Len(clients) \in Nat /\ Len(rooms) \in Nat
  BY ClientTypes
<1>3. i \in 1..Len(clients') /\ k \in 1..Len(rooms')
  BY <1>2 DEF Stand, Grow
<1>4. /\ clients'[i].socket = clients[i].socket
      /\ clients'[j].socket = clients[j].socket
      /\ clients'[i].id = clients[i].id
      /\ rooms'[k] = rooms[k]
  BY <1>1 DEF Stand, Grow
<1> QED
  BY <1>3, <1>4 DEF Stand

(* A room keeps its members.                                               *)
LEMMA MembersGrow ==
  ASSUME TypeOK, Pairing, Grow, NEW k \in 1..Len(rooms)
  PROVE  /\ k \in 1..Len(rooms') /\ rooms'[k] = rooms[k]
         /\ Members(k)' = Members(k)
<1>1. 2 * k - 1 \in 1..Len(clients) /\ 2 * k \in 1..Len(clients)
  BY MemberIndex
<1>2. Len(clients) \in Nat /\ Len(rooms) \in Nat
  BY ClientTypes
<1> QED
  BY <1>1, <1>2 DEF Grow, Members

(* What was true of a message when it was sent stays true.                 *)
LEMMA GenuineGrows ==
  ASSUME SessionTypeOK, SessionTypeOK', Pairing, Grow, NEW s \in Socket,
         NEW m \in Message, Genuine(s, m)
  PROVE  Genuine(s, m)'
<1>1. TypeOK
  BY DEF SessionTypeOK
<1>2. Len(clients) \in Nat /\ Len(rooms) \in Nat
  BY <1>1, ClientTypes
<1>3. m.type = "set_id" =>
        \E i \in 1..Len(clients') : clients'[i].socket = s /\ clients'[i].id = m.id
  BY <1>2 DEF Genuine, Grow
<1>4. m.type = "set_room" =>
       \E k \in 1..Len(rooms') : /\ s \in Members(k)'
                                  /\ m.id = rooms'[k].id /\ m.left = rooms'[k].left
  BY <1>1, MembersGrow DEF Genuine
<1>5. ASSUME m.type = "update"
      PROVE  Heard(s, m.data)'
  <2>1. Heard(s, m.data) /\ m.data \in App
    BY <1>5, SessionAssumption DEF Genuine, Message, SetId, SetRoom, Update
  <2>2. \A t \in Socket : Opposite(s, t) => Opposite(s, t)'
    BY <1>1, MembersGrow DEF Opposite
  <2>3. s[2] \in Nat
    BY SessionAssumption
  <2>4. conn[m.data] \in Nat /\ conn'[m.data] \in Nat /\ conn[m.data] <= conn'[m.data]
    BY <2>1 DEF SessionTypeOK, Grow
  <2> QED
    BY <2>1, <2>2, <2>3, <2>4 DEF Heard
<1> QED
  BY <1>3, <1>4, <1>5 DEF Genuine

-----------------------------------------------------------------------------
(* Queues.                                                                 *)

(* The first message of a queue.                                           *)
LEMMA HeadIsFirst ==
  ASSUME NEW S, NEW q \in Seq(S), q # <<>>
  PROVE  Head(q) = q[1] /\ 1 \in 1..Len(q) /\ Head(q) \in Range(q)
<1>1. Len(q) \in Nat /\ Len(q) # 0
  BY EmptySeq, LenProperties
<1>2. Head(q) = q[1] /\ 1 \in 1..Len(q)
  BY <1>1
<1> QED
  BY <1>2, RangeEquality

(* The messages of a queue after one more.                                 *)
LEMMA RangeAppend ==
  ASSUME NEW S, NEW q \in Seq(S), NEW e \in S
  PROVE  Range(Append(q, e)) = Range(q) \cup {e}
<1>1. /\ Append(q, e) \in Seq(S) /\ Len(Append(q, e)) = Len(q) + 1 /\ Len(q) \in Nat
      /\ \A i \in 1..Len(q) : Append(q, e)[i] = q[i]
      /\ Append(q, e)[Len(q) + 1] = e
  BY AppendProperties, LenProperties
<1>2. 1..(Len(q) + 1) = 1..Len(q) \cup {Len(q) + 1}
  BY <1>1
<1>3. /\ Range(q) = {q[i] : i \in 1..Len(q)}
      /\ Range(Append(q, e)) = {Append(q, e)[i] : i \in 1..(Len(q) + 1)}
  BY <1>1, RangeEquality
<1> HIDE DEF Range
<1> QED
  BY <1>1, <1>2, <1>3

(* The messages of a queue without the first.                              *)
LEMMA RangeTail ==
  ASSUME NEW S, NEW q \in Seq(S), q # <<>>
  PROVE  Range(Tail(q)) \subseteq Range(q)
<1>1. /\ Tail(q) \in Seq(S) /\ Len(Tail(q)) = Len(q) - 1 /\ Len(q) \in Nat
      /\ \A i \in 1..Len(Tail(q)) : Tail(q)[i] = q[i + 1]
  BY HeadTailProperties, LenProperties
<1>2. \A i \in 1..Len(Tail(q)) : i + 1 \in 1..Len(q)
  BY <1>1
<1>3. /\ Range(q) = {q[i] : i \in 1..Len(q)}
      /\ Range(Tail(q)) = {Tail(q)[i] : i \in 1..Len(Tail(q))}
  BY <1>1, RangeEquality
<1> QED
  BY <1>1, <1>2, <1>3

(* An empty queue has no messages.                                         *)
LEMMA RangeEmpty == Range(<<>>) = {}
  BY DEF Range

(* The server only ever adds to the end of a queue, and to open sockets.   *)
Lengthened(box, new) ==
  \A s \in Socket :
    /\ box[s] # <<>> => new[s] # <<>> /\ Head(new[s]) = Head(box[s])
    /\ readyState[s] # "open" => new[s] = box[s]

(* Sending adds at most one message, at the end of one queue.              *)
LEMMA SendLengthens ==
  ASSUME TypeOK, NEW box \in [Socket -> Seq(Message)], NEW s \in Socket,
         NEW m \in Message
  PROVE  /\ Lengthened(box, Send(box, s, m))
         /\ \A t \in Socket : Range(Send(box, s, m)[t]) \subseteq
              Range(box[t]) \cup (IF t = s THEN {m} ELSE {})
<1>1. box[s] \in Seq(Message)
  OBVIOUS
<1>2. /\ Append(box[s], m) # <<>>
      /\ box[s] # <<>> => Head(Append(box[s], m)) = Head(box[s])
  BY <1>1, HeadTailAppend, AppendProperties
<1>3. Range(Append(box[s], m)) = Range(box[s]) \cup {m}
  BY <1>1, RangeAppend
<1>4. CASE readyState[s] # "open"
  BY <1>4 DEF Send, Lengthened
<1>5. CASE readyState[s] = "open"
  <2>1. Send(box, s, m) = [box EXCEPT ![s] = Append(@, m)]
    BY <1>5 DEF Send
  <2>2. Send(box, s, m)[s] = Append(box[s], m)
    BY <2>1
  <2>3. \A t \in Socket : t # s => Send(box, s, m)[t] = box[t]
    BY <2>1
  <2>4. Lengthened(box, Send(box, s, m))
    BY <1>2, <1>5, <2>2, <2>3 DEF Lengthened
  <2> QED
    BY <1>3, <2>2, <2>3, <2>4
<1> QED
  BY <1>4, <1>5

(* The note about a new room goes to its two members.                      *)
LEMMA RoomMail ==
  ASSUME TypeOK, Pairing, RoomIds, confirm_room, ~ UNCHANGED <<clients, rooms>>
  PROVE  /\ Lengthened(inbox, inbox')
         /\ \A s \in Socket : \A m \in Posted(s)' : m \in Posted(s) \/ Genuine(s, m)'
<1> DEFINE L == Len(clients)
           R == Len(rooms)
           room == NewRoom(scan, scan + 1)
           note == [type |-> "set_room", id |-> room.id,
                    left |-> room.left, right |-> room.right]
           sl == clients[scan].socket
           sr == clients[scan + 1].socket
           box == Send(inbox, sl, note)
<1>1. L \in Nat /\ R \in Nat /\ scan \in 1..L
  BY LenProperties DEF TypeOK, confirm_room
<1>2. /\ clients[scan].type # "playing"
      /\ scan + 1 <= L
      /\ generate_room(scan, scan + 1)
  BY DEF confirm_room, IsClient
<1>3. scan = 2 * R + 1 /\ L = 2 * R + 2
  BY <1>1, <1>2 DEF Pairing, RoomsPairNeighbours, ScanSeesThePair
<1>4. scan + 1 \in 1..L
  BY <1>1, <1>2
<1>5. sl \in Socket /\ sr \in Socket
  BY <1>1, <1>4, ClientTypes
<1>6. room \in RoomRecord
  BY <1>1, <1>4, ClientTypes DEF NewRoom, RoomRecord, TypeOK, uid
<1>7. note \in Message /\ note.type = "set_room" /\ note.id = room.id
      /\ note.left = room.left
  BY <1>6 DEF Message, SetRoom, RoomRecord
<1>8. rooms' = Append(rooms, room) /\ inbox' = Send(box, sr, note)
  BY <1>2 DEF generate_room
<1> HIDE DEF note, room
<1>9. Len(rooms') = R + 1 /\ rooms'[R + 1] = room
  BY <1>6, <1>8, AppendProperties DEF TypeOK
<1>10. {sl, sr} = {clients'[2 * (R + 1) - 1].socket, clients'[2 * (R + 1)].socket}
  <2>1. /\ Len(clients') = L
        /\ \A i \in 1..L : clients'[i].socket = clients[i].socket
    BY RoomEffect
  <2>2. scan = 2 * (R + 1) - 1 /\ scan + 1 = 2 * (R + 1)
    BY <1>1, <1>3
  <2> QED
    BY <1>1, <1>4, <2>1, <2>2
<1>11. ASSUME NEW s \in {sl, sr}, NEW m, m = note
       PROVE  Genuine(s, m)'
  <2>1. R + 1 \in 1..Len(rooms')
    BY <1>1, <1>9
  <2> QED
    BY <1>7, <1>9, <1>10, <1>11, <2>1 DEF Genuine, Members
<1>12. inbox \in [Socket -> Seq(Message)]
  BY DEF TypeOK, Message
<1>13. box \in [Socket -> Seq(Message)]
  BY <1>5, <1>7, <1>12, SendType
<1>14. /\ Lengthened(inbox, box)
       /\ \A t \in Socket : Range(box[t]) \subseteq
              Range(inbox[t]) \cup (IF t = sl THEN {note} ELSE {})
  BY <1>5, <1>7, <1>12, SendLengthens, ZenonT(60)
<1> HIDE DEF box
<1>15. /\ Lengthened(box, inbox')
       /\ \A t \in Socket : Range(inbox'[t]) \subseteq
              Range(box[t]) \cup (IF t = sr THEN {note} ELSE {})
  <2>1. /\ Lengthened(box, Send(box, sr, note))
        /\ \A t \in Socket : Range(Send(box, sr, note)[t]) \subseteq
              Range(box[t]) \cup (IF t = sr THEN {note} ELSE {})
    BY <1>5, <1>7, <1>13, SendLengthens, ZenonT(60)
  <2> QED
    BY <1>8, <2>1
<1>16. Lengthened(inbox, inbox')
  BY <1>14, <1>15 DEF Lengthened
<1>17. ASSUME NEW s \in Socket, NEW m \in Posted(s)', m \notin Posted(s)
       PROVE  Genuine(s, m)'
  <2>1. m = note /\ s \in {sl, sr}
    BY <1>14, <1>15, <1>17 DEF Posted
  <2> QED
    BY <1>11, <2>1
<1> QED
  BY <1>16, <1>17

(* The server forwards by ids.  Whichever connections the two ids of an    *)
(* update belong to, it reaches the opponent of its sender or comes back   *)
(* to a connection that the sender no longer uses.                         *)
LEMMA Routed ==
  ASSUME SessionTypeOK, Pairing, Identified, AllDialled,
         NEW u \in Update, NEW i \in Nat, NEW k \in Nat, NEW j \in Nat,
         Stand(u.data, i, k, j), u.client_id = clients[i].id,
         NEW s \in Socket, FindSocket(Addressee(rooms[k], u)) = s
  PROVE  Heard(s, u.data)
<1> DEFINE l == 2 * k - 1
           r == 2 * k
           a == u.data
<1>1. /\ TypeOK /\ i \in 1..Len(clients) /\ k \in 1..Len(rooms) /\ j \in {l, r}
      /\ clients[i].socket[1] = a /\ clients[j].socket[1] = a
      /\ clients[j].socket[2] <= clients[i].socket[2]
  BY DEF Stand, SessionTypeOK
<1>2. l \in 1..Len(clients) /\ r \in 1..Len(clients) /\ l # r
  BY <1>1, MemberIndex
<1> HIDE DEF l, r
<1>3. rooms[k].left = clients[l].id /\ rooms[k].right = clients[r].id
  BY <1>1 DEF Pairing, RoomsPairNeighbours, l, r
<1>4. /\ FindSocket(clients[l].id) = clients[l].socket
      /\ FindSocket(clients[r].id) = clients[r].socket
  BY <1>1, <1>2, FindsTheClient
<1>5. /\ clients[l].socket \in Socket /\ clients[r].socket \in Socket
      /\ clients[i].socket \in Socket
  BY <1>1, <1>2, ClientTypes
<1>6. clients[l].socket # clients[r].socket
  BY <1>2 DEF Identified
<1>7. /\ Opposite(clients[l].socket, clients[r].socket)
      /\ Opposite(clients[r].socket, clients[l].socket)
  BY <1>1, <1>6 DEF Opposite, Members, l, r
<1>8. CASE i = l
  <2>1. s = clients[r].socket
    BY <1>3, <1>4, <1>8 DEF Addressee
  <2> QED
    BY <1>1, <1>5, <1>7, <1>8, <2>1 DEF Heard
<1>9. CASE i # l
  <2>1. clients[i].id # clients[l].id
    BY <1>1, <1>2, <1>9 DEF Identified
  <2>2. s = clients[l].socket
    BY <1>3, <1>4, <2>1 DEF Addressee
  <2>3. CASE j = r
    BY <1>1, <1>5, <1>7, <2>2, <2>3 DEF Heard
  <2>4. CASE j = l
    <3>1. clients[i].socket # clients[l].socket
      BY <1>1, <1>2, <1>9 DEF Identified
    <3>2. clients[i].socket \in App \X Nat /\ clients[l].socket \in App \X Nat
      BY <1>5, SessionAssumption
    <3>3. clients[i].socket[2] # clients[l].socket[2]
      BY <1>1, <2>4, <3>1, <3>2
    <3>4. clients[i].socket[2] <= conn[a] /\ conn[a] \in Nat
      BY <1>1, <3>2 DEF AllDialled, Dialled, SessionTypeOK
    <3>5. clients[l].socket[2] < conn[a]
      <4>1. clients[i].socket[2] \in Nat /\ clients[l].socket[2] \in Nat
        BY <3>2
      <4>2. clients[l].socket[2] <= clients[i].socket[2]
        BY <1>1, <2>4
      <4>3. \A x, y, z \in Nat : x <= y /\ x # y /\ y <= z => x < z
        OBVIOUS
      <4> QED
        BY <3>3, <3>4, <4>1, <4>2, <4>3
    <3> QED
      BY <1>1, <2>2, <2>4, <3>5 DEF Heard
  <2> QED
    BY <1>1, <2>3, <2>4
<1> QED
  BY <1>8, <1>9

(* What the server forwards is genuine: the addressee of an update sits    *)
(* across from its sender.                                                 *)
LEMMA UpdateMail ==
  ASSUME SessionInv, NEW from \in Socket, Receive(from)
  PROVE  /\ Lengthened(inbox, inbox')
         /\ \A s \in Socket : \A m \in Posted(s)' : m \in Posted(s) \/ Genuine(s, m)
<1>1. TypeOK /\ SessionTypeOK
  BY DEF SessionInv, SessionTypeOK
<1>2. PICK u : u = Head(uplink[from])
  OBVIOUS
<1>3. u \in Update /\ u \in Message /\ u \in Sent(from)
  <2>1. uplink[from] \in Seq(Update) /\ uplink[from] # <<>>
    BY <1>1 DEF SessionTypeOK, Receive
  <2> QED
    BY <1>2, <2>1, HeadTailProperties, HeadIsFirst DEF Sent, Message
<1> DEFINE hit == RoomsNamed(u.room_id)
           found(k) == Known(Addressee(rooms[k], u))
           copies(s) == {k \in hit : /\ \A j \in hit : j <= k => found(j)
                                     /\ FindSocket(Addressee(rooms[k], u)) = s}
           extra(s) == [n \in 1..Cardinality(copies(s)) |-> u]
<1>4. inbox' = [s \in Socket |-> IF readyState[s] = "open"
                                THEN inbox[s] \o extra(s) ELSE inbox[s]]
  BY <1>2 DEF Receive, on_update
<1>5. ASSUME NEW s \in Socket, copies(s) # {}
      PROVE  Genuine(s, u)
  <2>1. PICK k \in 1..Len(rooms) : /\ rooms[k].id = u.room_id
                                  /\ FindSocket(Addressee(rooms[k], u)) = s
    BY <1>5 DEF RoomsNamed
  <2>2. PICK i \in Nat, n \in Nat, j \in Nat :
          /\ Stand(u.data, i, n, j)
          /\ u.client_id = clients[i].id /\ u.room_id = rooms[n].id
    BY <1>3 DEF SessionInv, Written
  <2>3. n = k
    BY <1>1, <2>1, <2>2, RoomsDiffer DEF SessionInv, Stand
  <2>4. Heard(s, u.data)
    BY <1>1, <1>3, <2>1, <2>2, <2>3, Routed DEF SessionInv
  <2>5. u.type = "update"
    BY <1>3 DEF Update
  <2> QED
    BY <2>4, <2>5 DEF Genuine
<1>6. ASSUME NEW s \in Socket
      PROVE  /\ extra(s) \in Seq(Message)
             /\ Range(extra(s)) \subseteq {u}
             /\ Range(extra(s)) # {} => copies(s) # {}
  <2>1. Len(rooms) \in Nat
    BY <1>1, ClientTypes
  <2>2. copies(s) \subseteq 1..Len(rooms) /\ IsFiniteSet(1..Len(rooms))
    BY <2>1, FS_Interval DEF RoomsNamed
  <2>3. IsFiniteSet(copies(s)) /\ Cardinality(copies(s)) \in Nat
    BY <2>2, FS_Subset, FS_CardinalityType
  <2> HIDE DEF copies
  <2>4. copies(s) = {} => Cardinality(copies(s)) = 0
    BY FS_EmptySet
  <2>5. extra(s) \in [1..Cardinality(copies(s)) -> Message]
    BY <1>3
  <2>6. extra(s) \in Seq(Message)
    BY <2>3, <2>5, FunctionIsSeq
  <2>7. Range(extra(s)) \subseteq {u}
    BY DEF Range
  <2>8. copies(s) = {} => Range(extra(s)) = {}
    BY <2>4 DEF Range
  <2> QED
    BY <2>6, <2>7, <2>8
<1> HIDE DEF extra, copies
<1>7. ASSUME NEW s \in Socket
      PROVE  /\ inbox[s] # <<>> => inbox'[s] # <<>> /\ Head(inbox'[s]) = Head(inbox[s])
             /\ readyState[s] # "open" => inbox'[s] = inbox[s]
             /\ Posted(s)' \subseteq Posted(s) \cup Range(extra(s))
  <2>1. inbox[s] \in Seq(Message)
    BY <1>1 DEF TypeOK, Message
  <2>2. inbox'[s] = IF readyState[s] = "open" THEN inbox[s] \o extra(s) ELSE inbox[s]
    BY <1>4
  <2>3. Range(inbox[s] \o extra(s)) = Range(inbox[s]) \cup Range(extra(s))
    BY <1>6, <2>1, RangeConcatenation
  <2>4. ASSUME inbox[s] # <<>>
        PROVE  /\ inbox[s] \o extra(s) # <<>>
               /\ Head(inbox[s] \o extra(s)) = Head(inbox[s])
    <3>1. Head(inbox[s]) = inbox[s][1] /\ 1 \in 1..Len(inbox[s])
      BY <2>1, <2>4, HeadIsFirst
    <3>2. /\ inbox[s] \o extra(s) \in Seq(Message)
          /\ Len(inbox[s] \o extra(s)) = Len(inbox[s]) + Len(extra(s))
          /\ (inbox[s] \o extra(s))[1] = inbox[s][1]
      BY <1>6, <2>1, <3>1, ConcatProperties
    <3>3. Len(inbox[s]) \in Nat /\ Len(extra(s)) \in Nat
      BY <1>6, <2>1, LenProperties
    <3>4. inbox[s] \o extra(s) # <<>>
      BY <3>1, <3>2, <3>3, EmptySeq
    <3> QED
      BY <3>1, <3>2, <3>4, HeadIsFirst
  <2> QED
    BY <2>2, <2>3, <2>4 DEF Posted
<1>8. Lengthened(inbox, inbox')
  BY <1>7 DEF Lengthened
<1> QED
  BY <1>5, <1>6, <1>7, <1>8

(* What the server reads from a socket it forwards to one other.           *)
LEMMA ReceiveForwards ==
  ASSUME SessionInv, NEW from \in Socket, Receive(from),
         NEW u, u = Head(uplink[from])
  PROVE  \E t \in Socket :
           /\ Heard(t, u.data)
           /\ inbox' = IF readyState[t] = "open"
                       THEN [inbox EXCEPT ![t] = Append(@, u)]
                       ELSE inbox
<1>1. TypeOK /\ SessionTypeOK /\ Pairing /\ Identified
  BY DEF SessionInv, SessionTypeOK
<1>2. u \in Update /\ u \in Message /\ u \in Sent(from)
  <2>1. uplink[from] \in Seq(Update) /\ uplink[from] # <<>>
    BY <1>1 DEF SessionTypeOK, Receive
  <2> QED
    BY <2>1, HeadTailProperties, HeadIsFirst DEF Sent, Message
<1>3. PICK i \in Nat, n \in Nat, j \in Nat :
        /\ Stand(u.data, i, n, j)
        /\ u.client_id = clients[i].id /\ u.room_id = rooms[n].id
  BY <1>2 DEF SessionInv, Written
<1>4. n \in 1..Len(rooms) /\ RoomsNamed(u.room_id) = {n}
  <2>1. n \in 1..Len(rooms)
    BY <1>3 DEF Stand
  <2>2. \A k \in 1..Len(rooms) : rooms[k].id = rooms[n].id => k = n
    BY <1>1, <2>1, RoomsDiffer DEF SessionInv
  <2> QED
    BY <1>3, <2>1, <2>2 DEF RoomsNamed
<1> DEFINE t == FindSocket(Addressee(rooms[n], u))
           copies(s) == {k \in RoomsNamed(u.room_id) :
                           /\ \A m \in RoomsNamed(u.room_id) :
                                m <= k => Known(Addressee(rooms[m], u))
                           /\ FindSocket(Addressee(rooms[k], u)) = s}
<1>5. t \in Socket
  <2>1. 2 * n - 1 \in 1..Len(clients) /\ 2 * n \in 1..Len(clients)
    BY <1>1, <1>4, MemberIndex
  <2>2. /\ rooms[n].left = clients[2 * n - 1].id
        /\ rooms[n].right = clients[2 * n].id
    BY <1>1, <1>4 DEF Pairing, RoomsPairNeighbours
  <2>3. t \in {clients[2 * n - 1].socket, clients[2 * n].socket}
    BY <1>1, <2>1, <2>2, FindsTheClient DEF Addressee
  <2> QED
    BY <1>1, <2>1, <2>3, ClientTypes
<1>6. Heard(t, u.data)
  BY <1>1, <1>2, <1>3, <1>5, Routed DEF SessionInv
<1>7. Known(Addressee(rooms[n], u))
  BY <1>1, <1>4, MembersAreKnown DEF Pairing
<1>8. inbox' = [s \in Socket |->
                  IF readyState[s] = "open"
                  THEN inbox[s] \o [x \in 1..Cardinality(copies(s)) |-> u]
                  ELSE inbox[s]]
  BY DEF Receive, on_update
<1>9. \A s \in Socket : copies(s) = IF s = t THEN {n} ELSE {}
  BY <1>4, <1>7
<1> HIDE DEF t, copies
<1>10. ASSUME NEW s \in Socket
       PROVE  inbox[s] \o [x \in 1..Cardinality(copies(s)) |-> u] =
                IF s = t THEN Append(inbox[s], u) ELSE inbox[s]
  <2>1. inbox[s] \in Seq(Message)
    BY <1>1 DEF TypeOK, Message
  <2>2. CASE s = t
    <3>1. Cardinality(copies(s)) = 1
      BY <1>9, <2>2, FS_Singleton
    <3>2. [x \in 1..1 |-> u] = <<u>>
      OBVIOUS
    <3>3. inbox[s] \o <<u>> = Append(inbox[s], u)
      BY <1>2, <2>1, AppendIsConcat
    <3> QED
      BY <2>2, <3>1, <3>2, <3>3
  <2>3. CASE s # t
    <3>1. Cardinality(copies(s)) = 0
      BY <1>9, <2>3, FS_EmptySet
    <3>2. [x \in 1..0 |-> u] = <<>>
      OBVIOUS
    <3>3. inbox[s] \o <<>> = inbox[s]
      BY <2>1, ConcatEmptySeq
    <3> QED
      BY <2>3, <3>1, <3>2, <3>3
  <2> QED
    BY <2>2, <2>3
<1>11. inbox \in [Socket -> Seq(Message)]
  BY <1>1 DEF TypeOK, Message
<1>12. inbox' = IF readyState[t] = "open"
                THEN [inbox EXCEPT ![t] = Append(@, u)]
                ELSE inbox
  <2>1. CASE readyState[t] = "open"
    <3>1. \A s \in Socket : inbox'[s] = [inbox EXCEPT ![t] = Append(@, u)][s]
      BY <1>5, <1>8, <1>10, <1>11, <2>1
    <3> QED
      BY <1>8, <1>11, <2>1, <3>1
  <2>2. CASE readyState[t] # "open"
    <3>1. \A s \in Socket : inbox'[s] = inbox[s]
      BY <1>8, <1>10, <2>2
    <3> QED
      BY <1>8, <1>11, <2>2, <3>1
  <2> QED
    BY <2>1, <2>2
<1> QED
  BY <1>5, <1>6, <1>12

(* Only a Receive takes an update off a link that stays open.              *)
LEMMA TakenByReceive ==
  ASSUME SessionTypeOK, SpacedSessionNext, NEW s \in Socket,
         Len(uplink'[s]) < Len(uplink[s]), readyState'[s] = "open"
  PROVE  Receive(s)
<1>1. uplink \in [Socket -> Seq(Update)] /\ readyState \in [Socket -> {"new", "open", "closed"}]
  BY DEF SessionTypeOK, TypeOK
<1>2. Len(uplink[s]) \in Nat
  BY <1>1, LenProperties
<1>3. uplink' # uplink
  BY <1>2
<1>4. ASSUME NEW a \in App, SendUpdate(a)
      PROVE  FALSE
  <2>1. PICK q \in Socket, m \in Update : uplink' = [uplink EXCEPT ![q] = Append(@, m)]
    BY <1>4 DEF SendUpdate
  <2>2. uplink'[s] \in {uplink[s], Append(uplink[s], m)}
    BY <1>1, <2>1
  <2>3. Len(Append(uplink[s], m)) = Len(uplink[s]) + 1
    BY <1>1, AppendProperties
  <2> QED
    BY <1>2, <2>2, <2>3
<1>5. ASSUME NEW q \in Socket, Receive(q) \/ Hangup(q)
      PROVE  q = s /\ Receive(q)
  <2>1. uplink'[s] # uplink[s]
    BY <1>2
  <2>2. q = s
    BY <1>1, <1>5, <2>1 DEF Receive, Hangup
  <2>3. ~ Hangup(s)
    BY <1>1 DEF Hangup, SocketClosed
  <2> QED
    BY <1>5, <2>2, <2>3
<1>6. \A a \in App : ~ (Dial(a) \/ on_open(a) \/ Drop(a) \/ on_message(a))
  BY <1>3 DEF Dial, on_open, Drop, on_message
<1>7. \A q \in Socket : ~ (Discard(q) \/ SpacedAccept(q))
  BY <1>3 DEF Discard, SpacedAccept, clientVars
<1>8. ~ UNCHANGED clientVars
  BY <1>3 DEF clientVars
<1> QED
  BY <1>4, <1>5, <1>6, <1>7, <1>8
  DEF SpacedSessionNext, SessionStep, ClientStep, LinkStep, Clock

(* A new client is told its id.                                            *)
LEMMA ConnectionMail ==
  ASSUME SessionInv, NEW c \in Socket, on_connection(c)
  PROVE  /\ inbox[c] = <<>> /\ Head(inbox'[c]).type = "set_id" /\ inbox'[c] # <<>>
         /\ \A s \in Socket : s # c => inbox'[s] = inbox[s]
         /\ \A s \in Socket : \A m \in Posted(s)' : m \in Posted(s) \/ Genuine(s, m)'
<1> DEFINE note == [type |-> "set_id", id |-> uid]
<1>1. TypeOK /\ inbox[c] = <<>>
  BY DEF SessionInv, SessionTypeOK, Silent, on_connection
<1>2. note \in Message /\ note.type = "set_id" /\ note.id = now
  BY <1>1 DEF Message, SetId, uid, TypeOK
<1>3. inbox' = [inbox EXCEPT ![c] = Append(@, note)]
  BY DEF on_connection, confirm_connection
<1> HIDE DEF note
<1>4. inbox \in [Socket -> Seq(Message)] /\ inbox[c] \in Seq(Message)
  BY <1>1 DEF TypeOK, Message
<1>5. inbox'[c] = Append(inbox[c], note)
  BY <1>3, <1>4
<1>6. /\ Head(inbox'[c]) = note /\ inbox'[c] # <<>>
      /\ Range(inbox'[c]) = Range(inbox[c]) \cup {note}
  <2>1. Head(Append(inbox[c], note)) = note
    BY <1>1, <1>4, HeadTailAppend
  <2>2. Append(inbox[c], note) # <<>>
    BY <1>2, <1>4, AppendProperties
  <2>3. Range(Append(inbox[c], note)) = Range(inbox[c]) \cup {note}
    BY <1>2, <1>4, RangeAppend
  <2> QED
    BY <1>5, <2>1, <2>2, <2>3
<1>7. \A s \in Socket : s # c => inbox'[s] = inbox[s]
  BY <1>3, <1>4
<1>8. ASSUME NEW m, m = note
      PROVE  Genuine(c, m)'
  <2>1. /\ Len(clients') = Len(clients) + 1
        /\ clients'[Len(clients) + 1].socket = c
        /\ clients'[Len(clients) + 1].id = now
    BY <1>1, ConnectionEffect
  <2>2. Len(clients) + 1 \in 1..Len(clients')
    BY <1>1, <2>1, ClientTypes
  <2> QED
    BY <1>2, <1>8, <2>1, <2>2 DEF Genuine
<1>9. ASSUME NEW s \in Socket, NEW m \in Posted(s)', m \notin Posted(s)
      PROVE  Genuine(s, m)'
  <2>1. s = c /\ m = note
    BY <1>6, <1>7, <1>9 DEF Posted
  <2> QED
    BY <1>8, <2>1
<1> QED
  BY <1>1, <1>2, <1>6, <1>7, <1>9

(* confirm_room sends nothing when it makes no room.                       *)
LEMMA NoRoomNoMail ==
  ASSUME TypeOK, confirm_room, UNCHANGED <<clients, rooms>>
  PROVE  UNCHANGED inbox
<1>0. scan \in 1..Len(clients) /\ Len(clients) \in Nat
  BY ClientTypes DEF confirm_room, TypeOK
<1> SUFFICES ASSUME generate_room(scan, scan + 1), scan + 1 \in 1..Len(clients)
             PROVE  FALSE
  BY <1>0 DEF confirm_room, IsClient
<1>1. rooms' = Append(rooms, NewRoom(scan, scan + 1))
  BY DEF generate_room
<1>2. NewRoom(scan, scan + 1) \in RoomRecord
  BY <1>0, ClientTypes DEF NewRoom, RoomRecord, TypeOK, uid
<1>3. Len(rooms') = Len(rooms) + 1 /\ Len(rooms) \in Nat
  BY <1>1, <1>2, AppendProperties, ClientTypes DEF TypeOK
<1> QED
  BY <1>3

(* The steps that take messages from a socket.                             *)
LEMMA TakenMail ==
  ASSUME SessionInv, NEW s \in Socket,
         \/ inbox' = [inbox EXCEPT ![s] = <<>>]
         \/ inbox[s] # <<>> /\ inbox' = [inbox EXCEPT ![s] = Tail(@)]
  PROVE  /\ \A t \in Socket : Posted(t)' \subseteq Posted(t)
         /\ \A t \in Socket : t # s => inbox'[t] = inbox[t]
<1>1. inbox \in [Socket -> Seq(Message)] /\ inbox[s] \in Seq(Message)
  BY DEF SessionInv, SessionTypeOK, TypeOK, Message
<1>2. \A t \in Socket : t # s => inbox'[t] = inbox[t]
  BY <1>1
<1>3. Range(inbox'[s]) \subseteq Range(inbox[s])
  <2>1. CASE inbox'[s] = <<>>
    BY <2>1, RangeEmpty
  <2>2. CASE inbox[s] # <<>> /\ inbox'[s] = Tail(inbox[s])
    BY <1>1, <2>2, RangeTail
  <2> QED
    BY <1>1, <2>1, <2>2
<1> QED
  BY <1>2, <1>3 DEF Posted

(* All that is queued for a socket stays genuine.                          *)
LEMMA MailStep ==
  ASSUME SessionInv, SessionTypeOK', [SpacedSessionNext]_sessionVars
  PROVE  Mail'
<1> DEFINE New == \A s \in Socket : \A m \in Posted(s)' :
                    m \in Posted(s) \/ Genuine(s, m) \/ Genuine(s, m)'
<1>1. TypeOK /\ SessionTypeOK /\ Pairing /\ Grow
  BY SessionGrows DEF SessionInv, SessionTypeOK
<1>2. New => Mail'
  <2> SUFFICES ASSUME New, NEW s \in Socket, NEW m \in Posted(s)'
               PROVE  Genuine(s, m)'
    BY DEF Mail
  <2>1. inbox'[s] \in Seq(Message)
    BY DEF SessionTypeOK, TypeOK, Message
  <2>2. m \in Message
    BY <2>1, RangeOfSeq DEF Posted
  <2>3. m \in Posted(s) => Genuine(s, m)
    BY DEF SessionInv, Mail
  <2> QED
    BY <1>1, <2>2, <2>3, GenuineGrows
<1>3. UNCHANGED inbox => New
  BY DEF Posted
<1>4. CASE confirm_room
  BY <1>1, <1>2, <1>3, <1>4, RoomMail, NoRoomNoMail DEF SessionInv
<1>5. ASSUME NEW s \in Socket, Receive(s)
      PROVE  Mail'
  BY <1>2, <1>5, UpdateMail
<1>6. ASSUME NEW s \in Socket, SpacedAccept(s)
      PROVE  Mail'
  BY <1>2, <1>6, ConnectionMail DEF SpacedAccept, SpacedConnection
<1>7. ASSUME NEW s \in Socket, Hangup(s) \/ Discard(s)
      PROVE  Mail'
  <2>1. inbox' = [inbox EXCEPT ![s] = <<>>]
    BY <1>7 DEF Hangup, SocketClosed, Discard
  <2> QED
    BY <1>2, <2>1, TakenMail
<1>8. ASSUME NEW a \in App, on_message(a)
      PROVE  Mail'
  <2>1. current(a) \in Socket
    BY <1>8 DEF on_message, SessionInv, OnSocket
  <2>2. /\ inbox[current(a)] # <<>>
        /\ inbox' = [inbox EXCEPT ![current(a)] = Tail(@)]
    BY <1>8 DEF on_message
  <2> QED
    BY <1>2, <2>1, <2>2, TakenMail
<1>9. ASSUME NEW a \in App, Dial(a) \/ on_open(a) \/ Drop(a) \/ SendUpdate(a)
      PROVE  UNCHANGED inbox
  BY <1>9 DEF Dial, on_open, Drop, SendUpdate, serverVars
<1>10. Clock \/ UNCHANGED sessionVars => UNCHANGED inbox
  BY DEF Clock, Tick, sessionVars, serverVars
<1> QED
  BY <1>2, <1>3, <1>4, <1>5, <1>6, <1>7, <1>8, <1>9, <1>10
  DEF SpacedSessionNext, SessionStep, ClientStep, LinkStep

(* Nothing is queued for a socket that is not open.                        *)
LEMMA SilentStep ==
  ASSUME SessionInv, [SpacedSessionNext]_sessionVars
  PROVE  Silent'
<1>1. TypeOK /\ SessionTypeOK /\ Pairing /\ RoomIds /\ Silent
  BY DEF SessionInv, SessionTypeOK
<1>2. Lengthened(inbox, inbox') /\ UNCHANGED readyState => Silent'
  BY <1>1 DEF Lengthened, Silent
<1>3. UNCHANGED <<inbox, readyState>> => Silent'
  BY <1>1 DEF Silent
<1>4. CASE confirm_room
  BY <1>1, <1>2, <1>3, <1>4, RoomMail, NoRoomNoMail DEF confirm_room
<1>5. ASSUME NEW s \in Socket, Receive(s)
      PROVE  Silent'
  BY <1>2, <1>5, UpdateMail DEF Receive, on_update
<1>6. ASSUME NEW c \in Socket, SpacedAccept(c)
      PROVE  Silent'
  <2>1. on_connection(c) /\ readyState' = [readyState EXCEPT ![c] = "open"]
    BY <1>6 DEF SpacedAccept, SpacedConnection, on_connection
  <2>2. \A s \in Socket : s # c => inbox'[s] = inbox[s]
    BY <2>1, ConnectionMail
  <2> QED
    BY <1>1, <2>1, <2>2 DEF Silent, TypeOK
<1>7. ASSUME NEW s \in Socket, Hangup(s) \/ Discard(s)
      PROVE  Silent'
  <2>1. inbox' = [inbox EXCEPT ![s] = <<>>]
    BY <1>7 DEF Hangup, SocketClosed, Discard
  <2>2. readyState' = [readyState EXCEPT ![s] = "closed"] \/ readyState' = readyState
    BY <1>7 DEF Hangup, SocketClosed, Discard
  <2> QED
    BY <1>1, <2>1, <2>2 DEF Silent, TypeOK
<1>8. ASSUME NEW a \in App, on_message(a)
      PROVE  Silent'
  <2>1. current(a) \in Socket
    BY <1>8 DEF on_message, SessionInv, OnSocket
  <2>2. /\ inbox[current(a)] # <<>>
        /\ inbox' = [inbox EXCEPT ![current(a)] = Tail(@)]
        /\ UNCHANGED readyState
    BY <1>8 DEF on_message
  <2> QED
    BY <1>1, <2>1, <2>2 DEF Silent, TypeOK
<1>9. ASSUME NEW a \in App, Dial(a) \/ on_open(a) \/ Drop(a) \/ SendUpdate(a)
      PROVE  UNCHANGED <<inbox, readyState>>
  BY <1>9 DEF Dial, on_open, Drop, SendUpdate, serverVars
<1>10. Clock \/ UNCHANGED sessionVars => UNCHANGED <<inbox, readyState>>
  BY DEF Clock, Tick, sessionVars, serverVars
<1> QED
  BY <1>3, <1>4, <1>5, <1>6, <1>7, <1>8, <1>9, <1>10
  DEF SpacedSessionNext, SessionStep, ClientStep, LinkStep

(* Every client of the server is a socket that was dialled.                *)
LEMMA AllDialledStep ==
  ASSUME SessionInv, SessionTypeOK', [SpacedSessionNext]_sessionVars
  PROVE  AllDialled'
<1>1. TypeOK /\ SessionTypeOK /\ Grow /\ SpacedStep
  BY SessionGrows, SessionIsSpacedStep DEF SessionInv, SessionTypeOK
<1>2. ASSUME NEW s \in Socket, Dialled(s)
      PROVE  Dialled(s)'
  <2>1. s[1] \in App /\ s[2] \in Nat
    BY SessionAssumption
  <2>2. /\ conn[s[1]] \in Nat /\ conn'[s[1]] \in Nat
        /\ conn[s[1]] <= conn'[s[1]] /\ s[2] <= conn[s[1]]
    BY <1>1, <1>2, <2>1 DEF Grow, Dialled, SessionTypeOK
  <2> QED
    BY <2>1, <2>2 DEF Dialled
<1>3. \A i \in 1..Len(clients) : clients[i].socket \in Socket
  BY <1>1, ClientTypes
<1>4. \A i \in 1..Len(clients) : Dialled(clients[i].socket)'
  <2> SUFFICES ASSUME NEW i \in 1..Len(clients)
               PROVE  Dialled(clients[i].socket)'
    OBVIOUS
  <2>1. PICK s \in Socket : s = clients[i].socket
    BY <1>3
  <2>2. Dialled(s)
    BY <2>1 DEF SessionInv, AllDialled
  <2>3. Dialled(s)' /\ clients'[i].socket = s
    BY <1>1, <1>2, <2>1, <2>2 DEF Grow
  <2> QED
    BY <2>3 DEF Dialled
<1>5. CASE Len(clients') = Len(clients)
  BY <1>4, <1>5 DEF AllDialled, Dialled
<1>6. ASSUME NEW s \in Socket, SpacedAccept(s)
      PROVE  AllDialled'
  <2>1. Dialled(s) /\ on_connection(s)
    BY <1>6 DEF SpacedAccept, SpacedConnection
  <2>2. /\ Len(clients') = Len(clients) + 1
        /\ clients'[Len(clients) + 1].socket = s
    BY <1>1, <2>1, ConnectionEffect
  <2>3. ASSUME NEW i, i = Len(clients) + 1
        PROVE  Dialled(clients[i].socket)'
    BY <1>2, <2>1, <2>2, <2>3 DEF Dialled
  <2>4. \A i \in 1..Len(clients') : i \in 1..Len(clients) \/ i = Len(clients) + 1
    BY <1>1, <2>2, ClientTypes
  <2> QED
    BY <1>4, <2>3, <2>4 DEF AllDialled, Dialled
<1>7. (\E s \in Socket : SpacedAccept(s)) \/ Len(clients') = Len(clients)
  <2>1. ASSUME NEW a \in App, ClientStep(a)
        PROVE  UNCHANGED clients
    BY <2>1 DEF ClientStep, Dial, on_open, Drop, on_message, SendUpdate, serverVars
  <2>2. ASSUME NEW s \in Socket, LinkStep(s)
        PROVE  UNCHANGED clients
    BY <2>2 DEF LinkStep, Receive, on_update, Hangup, SocketClosed, Discard
  <2>3. Clock \/ UNCHANGED sessionVars => UNCHANGED clients
    BY DEF Clock, Tick, sessionVars, serverVars
  <2>4. confirm_room => Len(clients') = Len(clients)
    BY <1>1, RoomEffect DEF SessionInv
  <2> QED
    BY <2>1, <2>2, <2>3, <2>4 DEF SpacedSessionNext, SessionStep
<1> QED
  BY <1>5, <1>6, <1>7

(* A message taken from the socket in use came while it was open, and the  *)
(* id of the connection is known unless it is the message itself.          *)
LEMMA FreshStep ==
  ASSUME SessionInv, [SpacedSessionNext]_sessionVars
  PROVE  Fresh'
<1> USE DEF current
<1>1. /\ TypeOK /\ SessionTypeOK /\ OnSocket /\ Pairing /\ Identified /\ RoomIds
      /\ AllDialled /\ Silent /\ Mail /\ Fresh
  BY DEF SessionInv, SessionTypeOK
<1>2. ASSUME Lengthened(inbox, inbox'), Len(clients') = Len(clients),
             \A i \in 1..Len(clients) : /\ clients'[i].id = clients[i].id
                                        /\ clients'[i].socket = clients[i].socket,
             UNCHANGED <<readyState, conn, link, client_id>>
      PROVE  Fresh'
  BY <1>1, <1>2 DEF Fresh, Lengthened, OnSocket
<1>3. UNCHANGED <<clients, inbox, readyState, conn, link, client_id>> => Fresh'
  BY <1>1 DEF Fresh
<1>4. CASE confirm_room /\ UNCHANGED clientVars
  <2>1. UNCHANGED <<readyState, conn, link, client_id>>
    BY <1>4 DEF confirm_room, clientVars
  <2>2. CASE UNCHANGED <<clients, rooms>>
    BY <1>1, <1>3, <1>4, <2>1, <2>2, NoRoomNoMail
  <2>3. CASE ~ UNCHANGED <<clients, rooms>>
    BY <1>1, <1>2, <1>4, <2>1, <2>3, RoomEffect, RoomMail
  <2> QED
    BY <2>2, <2>3
<1>5. ASSUME NEW s \in Socket, Receive(s)
      PROVE  Fresh'
  BY <1>2, <1>5, UpdateMail DEF Receive, on_update
<1>6. ASSUME NEW c \in Socket, SpacedAccept(c)
      PROVE  Fresh'
  <2>1. /\ on_connection(c) /\ readyState[c] = "new"
        /\ readyState' = [readyState EXCEPT ![c] = "open"]
        /\ UNCHANGED <<conn, link, client_id>>
    BY <1>6 DEF SpacedAccept, SpacedConnection, on_connection, clientVars
  <2>2. /\ inbox'[c] # <<>> /\ Head(inbox'[c]).type = "set_id"
        /\ \A s \in Socket : s # c => inbox'[s] = inbox[s]
    BY <2>1, ConnectionMail
  <2>3. /\ Len(clients') = Len(clients) + 1
        /\ \A i \in 1..Len(clients) : clients'[i] = clients[i]
        /\ clients'[Len(clients) + 1].socket = c
    BY <1>1, <2>1, ConnectionEffect
  <2> SUFFICES ASSUME NEW a \in App, link'[a] # "down", readyState'[current(a)] = "open",
                      NEW i \in 1..Len(clients'), clients'[i].socket = current(a)
               PROVE  \/ client_id'[a] = clients'[i].id
                      \/ /\ inbox'[current(a)] # <<>>
                         /\ Head(inbox'[current(a)]).type = "set_id"
    BY <2>1 DEF Fresh
  <2>4. CASE current(a) = c
    BY <2>2, <2>4
  <2>5. CASE current(a) # c
    <3>1. i \in 1..Len(clients)
      <4>1. Len(clients) \in Nat /\ i # Len(clients) + 1
        BY <1>1, <2>3, <2>5, ClientTypes
      <4>2. i \in 1..(Len(clients) + 1)
        BY <2>3
      <4> QED
        BY ONLY <4>1, <4>2
    <3>2. current(a) \in Socket
      BY <1>1, <2>1 DEF OnSocket
    <3>3. readyState[current(a)] = "open" /\ inbox'[current(a)] = inbox[current(a)]
      BY <1>1, <2>1, <2>2, <2>5, <3>2 DEF TypeOK
    <3> QED
      BY <1>1, <2>1, <2>3, <3>1, <3>3 DEF Fresh
  <2> QED
    BY <2>4, <2>5
<1>7. ASSUME NEW s \in Socket, Hangup(s)
      PROVE  Fresh'
  <2>1. /\ readyState' = [readyState EXCEPT ![s] = "closed"]
        /\ inbox' = [inbox EXCEPT ![s] = <<>>]
        /\ UNCHANGED <<clients, conn, link, client_id>>
    BY <1>7 DEF Hangup, SocketClosed
  <2> QED
    BY <1>1, <2>1 DEF Fresh, OnSocket, TypeOK
<1>8. ASSUME NEW s \in Socket, Discard(s)
      PROVE  Fresh'
  <2>1. /\ s # current(s[1]) \/ link[s[1]] = "down"
        /\ inbox' = [inbox EXCEPT ![s] = <<>>]
        /\ UNCHANGED <<clients, readyState, conn, link, client_id>>
    BY <1>8 DEF Discard, clientVars
  <2>2. \A a \in App : link[a] # "down" => current(a) # s
    BY <2>1
  <2>3. \A a \in App : link[a] # "down" => inbox'[current(a)] = inbox[current(a)]
    BY <1>1, <2>1, <2>2 DEF OnSocket, TypeOK
  <2> QED
    BY <1>1, <2>1, <2>3 DEF Fresh
<1>9. ASSUME NEW b \in App, on_message(b)
      PROVE  Fresh'
  <2> DEFINE s == current(b)
             m == Head(inbox[s])
  <2>1. /\ inbox[s] # <<>> /\ link[b] = "up" /\ s \in Socket
        /\ inbox' = [inbox EXCEPT ![s] = Tail(@)]
        /\ UNCHANGED <<clients, readyState, conn, link>>
    BY <1>1, <1>9 DEF on_message, OnSocket
  <2>2. readyState[s] = "open" /\ inbox[s] \in Seq(Message)
    BY <1>1, <2>1 DEF Silent, TypeOK, Message
  <2>3. m \in Posted(s) /\ Genuine(s, m)
    BY <1>1, <2>1, <2>2, HeadIsFirst DEF Posted, Mail
  <2>4. ASSUME NEW i \in 1..Len(clients), clients[i].socket = s
        PROVE  client_id'[b] = clients[i].id
    <3>1. CASE m.type = "set_id"
      <4>1. client_id' = [client_id EXCEPT ![b] = m.id]
        BY <1>9, <3>1 DEF on_message
      <4>2. m.id = clients[i].id
        BY <1>1, <2>3, <2>4, <3>1 DEF Genuine, Identified
      <4> QED
        BY <1>1, <4>1, <4>2 DEF SessionTypeOK
    <3>2. CASE m.type # "set_id"
      <4>1. UNCHANGED client_id
        BY <1>9, <3>2 DEF on_message
      <4>2. client_id[b] = clients[i].id
        BY <1>1, <2>1, <2>2, <2>4, <3>2 DEF Fresh
      <4> QED
        BY <4>1, <4>2
    <3> QED
      BY <3>1, <3>2
  <2>5. ASSUME NEW a \in App, a # b
        PROVE  /\ current(a) # s /\ client_id'[a] = client_id[a]
               /\ current(a) \in Socket => inbox'[current(a)] = inbox[current(a)]
    <3>1. current(a) # s
      BY <2>5
    <3>2. client_id'[a] = client_id[a]
      BY <1>1, <1>9, <2>5 DEF on_message, SessionTypeOK
    <3> QED
      BY <1>1, <2>1, <3>1, <3>2 DEF TypeOK
  <2> QED
    BY <1>1, <2>1, <2>4, <2>5 DEF Fresh, OnSocket
<1>10. ASSUME NEW b \in App, Dial(b)
       PROVE  Fresh'
  <2>1. /\ conn' = [conn EXCEPT ![b] = @ + 1]
        /\ link' = [link EXCEPT ![b] = "dialing"]
        /\ UNCHANGED <<clients, inbox, readyState, client_id>>
    BY <1>10 DEF Dial, serverVars
  <2>2. conn[b] \in Nat /\ conn'[b] = conn[b] + 1
    BY <1>1, <2>1 DEF SessionTypeOK
  <2>3. \A i \in 1..Len(clients) : clients[i].socket # <<b, conn'[b]>>
    BY <1>1, <2>2 DEF AllDialled, Dialled
  <2>4. \A a \in App : a # b => conn'[a] = conn[a] /\ link'[a] = link[a]
    BY <1>1, <2>1 DEF SessionTypeOK
  <2> QED
    BY <1>1, <2>1, <2>3, <2>4 DEF Fresh
<1>11. ASSUME NEW b \in App, on_open(b) \/ Drop(b)
       PROVE  Fresh'
  <2>1. /\ UNCHANGED <<clients, inbox, readyState, conn, client_id>>
        /\ \A a \in App : link'[a] # "down" => link[a] # "down"
    BY <1>1, <1>11 DEF on_open, Drop, serverVars, SessionTypeOK
  <2> QED
    BY <1>1, <2>1 DEF Fresh
<1>12. ASSUME NEW b \in App, SendUpdate(b)
       PROVE  Fresh'
  BY <1>3, <1>12 DEF SendUpdate, serverVars
<1>13. CASE Clock \/ UNCHANGED sessionVars
  BY <1>3, <1>13 DEF Clock, Tick, sessionVars, serverVars, clientVars
<1> QED
  BY <1>4, <1>5, <1>6, <1>7, <1>8, <1>9, <1>10, <1>11, <1>12, <1>13
  DEF SpacedSessionNext, SessionStep, ClientStep, LinkStep

(* What client a remembers stays true while it remembers it.               *)
LEMMA StandingKept ==
  ASSUME SessionInv, Grow, NEW a \in App, room_id'[a] >= 0,
         /\ client_id'[a] = client_id[a]
         /\ room_id'[a] = room_id[a]
         /\ facing'[a] = facing[a]
  PROVE  \E i, k, j \in Nat :
           /\ Stand(a, i, k, j)'
           /\ client_id'[a] = clients'[i].id
           /\ room_id'[a] = rooms'[k].id
           /\ facing'[a] = IF j = 2 * k - 1 THEN "RIGHT" ELSE "LEFT"
<1>1. TypeOK /\ Pairing
  BY DEF SessionInv, SessionTypeOK
<1>2. PICK i \in Nat, k \in Nat, j \in Nat :
        /\ Stand(a, i, k, j)
        /\ client_id[a] = clients[i].id
        /\ room_id[a] = rooms[k].id
        /\ facing[a] = IF j = 2 * k - 1 THEN "RIGHT" ELSE "LEFT"
  BY DEF SessionInv, Standing
<1>3. Stand(a, i, k, j)' /\ clients'[i].id = clients[i].id /\ rooms'[k].id = rooms[k].id
  BY <1>1, <1>2, StandGrows
<1> QED
  BY <1>2, <1>3

(* A client that stores an id or a room then has a standing with the       *)
(* server.                                                                 *)
LEMMA on_messageStanding ==
  ASSUME SessionInv, SessionTypeOK', Grow, NEW b \in App, on_message(b)
  PROVE  Standing'
<1> DEFINE s == current(b)
           m == Head(inbox[s])
<1>1. /\ TypeOK /\ SessionTypeOK /\ OnSocket /\ Pairing /\ Identified
      /\ AllDialled /\ Silent /\ Mail /\ Fresh /\ Standing
  BY DEF SessionInv, SessionTypeOK
<1>2. /\ inbox[s] # <<>> /\ link[b] = "up" /\ s \in Socket
      /\ UNCHANGED <<clients, rooms, conn>>
  BY <1>1 DEF on_message, OnSocket
<1>3. readyState[s] = "open" /\ inbox[s] \in Seq(Message)
  BY <1>1, <1>2 DEF Silent, TypeOK, Message
<1>4. Genuine(s, m)
  BY <1>1, <1>2, <1>3, HeadIsFirst DEF Posted, Mail
<1>5. s[1] = b /\ s[2] = conn[b] /\ conn[b] \in Nat
  BY <1>1 DEF current, SessionTypeOK
<1> HIDE DEF s
<1>6. \A i, k, j : Stand(b, i, k, j) => Stand(b, i, k, j)'
  BY <1>2 DEF Stand
<1>7. ASSUME NEW a \in App, a # b
      PROVE  /\ client_id'[a] = client_id[a]
             /\ room_id'[a] = room_id[a]
             /\ facing'[a] = facing[a]
  BY <1>1, <1>7 DEF on_message, SessionTypeOK
<1>8. ASSUME room_id'[b] >= 0
      PROVE  \E i, k, j \in Nat :
               /\ Stand(b, i, k, j)'
               /\ client_id'[b] = clients'[i].id
               /\ room_id'[b] = rooms'[k].id
               /\ facing'[b] = IF j = 2 * k - 1 THEN "RIGHT" ELSE "LEFT"
  <2>1. CASE m.type = "set_id"
    <3>1. /\ client_id' = [client_id EXCEPT ![b] = m.id]
          /\ UNCHANGED <<room_id, facing>>
      BY <2>1 DEF on_message, s
    <3>2. PICK i \in 1..Len(clients) : clients[i].socket = s /\ clients[i].id = m.id
      BY <1>4, <2>1 DEF Genuine
    <3>3. PICK n \in Nat, k \in Nat, j \in Nat :
            /\ Stand(b, n, k, j)
            /\ room_id[b] = rooms[k].id
            /\ facing[b] = IF j = 2 * k - 1 THEN "RIGHT" ELSE "LEFT"
      BY <1>1, <1>8, <3>1 DEF Standing
    <3>4. j \in 1..Len(clients) /\ k \in 1..Len(rooms) /\ j \in {2 * k - 1, 2 * k}
          /\ clients[j].socket[1] = b
      BY <1>1, <3>3, MemberIndex DEF Stand
    <3>5. clients[j].socket[2] <= conn[b]
      BY <1>1, <3>4 DEF AllDialled, Dialled
    <3>6. Stand(b, i, k, j)
      BY <1>5, <3>2, <3>4, <3>5 DEF Stand
    <3>7. client_id'[b] = m.id
      BY <1>1, <3>1 DEF SessionTypeOK
    <3>8. i \in Nat /\ Stand(b, i, k, j)'
      BY <1>6, <3>6
    <3> QED
      BY <1>2, <3>1, <3>2, <3>3, <3>7, <3>8
  <2>2. CASE m.type = "set_room"
    <3>1. /\ room_id' = [room_id EXCEPT ![b] = m.id]
          /\ facing' = [facing EXCEPT ![b] = Side(m, client_id[b])]
          /\ UNCHANGED client_id
      BY <2>2 DEF on_message, s
    <3>2. PICK k \in 1..Len(rooms) : /\ s \in Members(k)
                                   /\ m.id = rooms[k].id /\ m.left = rooms[k].left
      BY <1>4, <2>2 DEF Genuine
    <3>3. PICK j \in {2 * k - 1, 2 * k} : clients[j].socket = s
      BY <3>2 DEF Members
    <3>4. /\ 2 * k - 1 \in 1..Len(clients) /\ 2 * k \in 1..Len(clients)
          /\ 2 * k - 1 # 2 * k /\ j \in 1..Len(clients)
      BY <1>1, <3>3, MemberIndex
    <3>5. client_id[b] = clients[j].id
      BY <1>1, <1>2, <1>3, <2>2, <3>3, <3>4 DEF Fresh, s
    <3>6. m.left = clients[2 * k - 1].id
      BY <1>1, <3>2 DEF Pairing, RoomsPairNeighbours
    <3>7. Side(m, client_id[b]) = IF j = 2 * k - 1 THEN "RIGHT" ELSE "LEFT"
      BY <1>1, <3>4, <3>5, <3>6 DEF Side, Identified
    <3>8. Stand(b, j, k, j)
      BY <1>5, <3>3, <3>4 DEF Stand
    <3>9. room_id'[b] = m.id /\ facing'[b] = Side(m, client_id[b])
      BY <1>1, <3>1 DEF SessionTypeOK
    <3>10. j \in Nat /\ k \in Nat /\ Stand(b, j, k, j)'
      BY <1>6, <3>4, <3>8
    <3>11. /\ client_id'[b] = clients'[j].id /\ room_id'[b] = rooms'[k].id
           /\ facing'[b] = IF j = 2 * k - 1 THEN "RIGHT" ELSE "LEFT"
      BY <1>2, <3>1, <3>2, <3>5, <3>7, <3>9
    <3> QED
      BY <3>10, <3>11
  <2>3. CASE m.type = "update"
    <3>1. UNCHANGED <<client_id, room_id, facing>>
      BY <2>3 DEF on_message, s
    <3> QED
      BY <1>8, <3>1, StandingKept
  <2> QED
    BY <2>1, <2>2, <2>3 DEF on_message, s
<1>9. ASSUME NEW a \in App, room_id'[a] >= 0, a # b
      PROVE  \E i, k, j \in Nat :
               /\ Stand(a, i, k, j)'
               /\ client_id'[a] = clients'[i].id
               /\ room_id'[a] = rooms'[k].id
               /\ facing'[a] = IF j = 2 * k - 1 THEN "RIGHT" ELSE "LEFT"
  BY <1>7, <1>9, StandingKept
<1> QED
  BY <1>8, <1>9 DEF Standing

(* The ids that a client keeps name a seat that it, or an earlier          *)
(* connection of it, really has.                                           *)
LEMMA StandingStep ==
  ASSUME SessionInv, SessionTypeOK', [SpacedSessionNext]_sessionVars
  PROVE  Standing'
<1>1. Grow
  BY SessionGrows DEF SessionInv
<1>2. UNCHANGED <<client_id, room_id, facing>> => Standing'
  BY <1>1, StandingKept DEF Standing
<1>3. ASSUME NEW a \in App, on_message(a)
      PROVE  Standing'
  BY <1>1, <1>3, on_messageStanding
<1>4. ASSUME NEW a \in App, Dial(a) \/ on_open(a) \/ Drop(a) \/ SendUpdate(a)
      PROVE  UNCHANGED <<client_id, room_id, facing>>
  BY <1>4 DEF Dial, on_open, Drop, SendUpdate
<1>5. ASSUME NEW s \in Socket, LinkStep(s) \/ SpacedAccept(s)
      PROVE  UNCHANGED <<client_id, room_id, facing>>
  BY <1>5 DEF LinkStep, Receive, Hangup, Discard, SpacedAccept, clientVars
<1>6. Clock \/ UNCHANGED clientVars \/ UNCHANGED sessionVars
        => UNCHANGED <<client_id, room_id, facing>>
  BY DEF Clock, clientVars, sessionVars
<1> QED
  BY <1>2, <1>3, <1>4, <1>5, <1>6 DEF SpacedSessionNext, SessionStep, ClientStep

(* An update is written with what its sender remembers.                    *)
LEMMA WrittenStep ==
  ASSUME SessionInv, [SpacedSessionNext]_sessionVars
  PROVE  Written'
<1>1. TypeOK /\ SessionTypeOK /\ Pairing /\ Written /\ Grow
  BY SessionGrows DEF SessionInv, SessionTypeOK
<1> DEFINE Remembered(m) ==
             \E i, k, j \in Nat :
               Stand(m.data, i, k, j) /\ m.client_id = clients[i].id /\ m.room_id = rooms[k].id
<1>2. ASSUME NEW m, Remembered(m)
      PROVE  \E i, k, j \in Nat :
               /\ Stand(m.data, i, k, j)'
               /\ m.client_id = clients'[i].id /\ m.room_id = rooms'[k].id
  <2>1. PICK i \in Nat, k \in Nat, j \in Nat :
          Stand(m.data, i, k, j) /\ m.client_id = clients[i].id /\ m.room_id = rooms[k].id
    BY <1>2
  <2>2. /\ Stand(m.data, i, k, j)'
        /\ clients'[i].id = clients[i].id /\ rooms'[k].id = rooms[k].id
    BY <1>1, <2>1, StandGrows
  <2> QED
    BY <2>1, <2>2
<1>3. ASSUME \A s \in Socket : \A m \in Sent(s)' : m \in Sent(s) \/ Remembered(m)
      PROVE  Written'
  <2> SUFFICES ASSUME NEW s \in Socket, NEW m \in Sent(s)'
               PROVE  \E i, k, j \in Nat :
                        /\ Stand(m.data, i, k, j)'
                        /\ m.client_id = clients'[i].id /\ m.room_id = rooms'[k].id
    BY DEF Written
  <2>1. m \in Sent(s) => Remembered(m)
    BY <1>1 DEF Written
  <2> HIDE DEF Remembered
  <2> QED
    BY <1>2, <1>3, <2>1
<1> HIDE DEF Remembered
<1>4. UNCHANGED uplink => Written'
  BY <1>3 DEF Sent
<1>5. ASSUME NEW a \in App, SendUpdate(a)
      PROVE  Written'
  <2>1. PICK m : m = [type |-> "update", room_id |-> room_id[a],
                      client_id |-> client_id[a], data |-> a]
    OBVIOUS
  <2>2. m.data = a /\ m.client_id = client_id[a] /\ m.room_id = room_id[a]
    BY <2>1
  <2>3. /\ uplink' = [uplink EXCEPT ![current(a)] = Append(@, m)]
        /\ room_id[a] >= 0 /\ current(a) \in Socket
    BY <1>5, <2>1 DEF SendUpdate, is_connected_to_playroom, SessionInv, OnSocket
  <2>4. Remembered(m)
    BY <2>2, <2>3 DEF Remembered, SessionInv, Standing
  <2>5. uplink \in [Socket -> Seq(Update \cup {m})]
    <3>1. \A s \in Socket : uplink[s] \in Seq(Update \cup {m})
      BY <1>1 DEF SessionTypeOK
    <3> QED
      BY <1>1, <3>1 DEF SessionTypeOK
  <2>6. Range(Append(uplink[current(a)], m)) = Range(uplink[current(a)]) \cup {m}
    BY <2>3, <2>5, RangeAppend
  <2>7. \A s \in Socket : \A x \in Sent(s)' : x \in Sent(s) \/ x = m
    BY <2>3, <2>5, <2>6 DEF Sent
  <2> QED
    BY <1>3, <2>4, <2>7
<1>6. ASSUME NEW s \in Socket, Receive(s)
      PROVE  Written'
  <2>1. uplink[s] # <<>> /\ uplink' = [uplink EXCEPT ![s] = Tail(@)]
    BY <1>6 DEF Receive
  <2>2. uplink \in [Socket -> Seq(Update)] /\ Range(Tail(uplink[s])) \subseteq Range(uplink[s])
    BY <1>1, <2>1, RangeTail DEF SessionTypeOK
  <2> QED
    BY <1>3, <2>1, <2>2 DEF Sent
<1>7. ASSUME NEW s \in Socket, Hangup(s)
      PROVE  Written'
  <2>1. uplink' = [uplink EXCEPT ![s] = <<>>] /\ uplink \in [Socket -> Seq(Update)]
    BY <1>1, <1>7 DEF Hangup, SessionTypeOK
  <2> QED
    BY <1>3, <2>1, RangeEmpty DEF Sent
<1>8. ASSUME NEW s \in Socket, Discard(s) \/ SpacedAccept(s)
      PROVE  UNCHANGED uplink
  BY <1>8 DEF Discard, SpacedAccept, clientVars
<1>9. ASSUME NEW a \in App, Dial(a) \/ on_open(a) \/ Drop(a) \/ on_message(a)
      PROVE  UNCHANGED uplink
  BY <1>9 DEF Dial, on_open, Drop, on_message
<1>10. Clock \/ UNCHANGED clientVars \/ UNCHANGED sessionVars => UNCHANGED uplink
  BY DEF Clock, clientVars, sessionVars
<1> QED
  BY <1>4, <1>5, <1>6, <1>7, <1>8, <1>9, <1>10
  DEF SpacedSessionNext, SessionStep, ClientStep, LinkStep

(* At the start nobody has dialled.                                        *)
LEMMA SessionInvInit == SessionInit => SessionInv
<1> SUFFICES ASSUME SessionInit
             PROVE  SessionInv
  OBVIOUS
<1>1. TypeOK /\ Pairing /\ Identified /\ clients = <<>> /\ rooms = <<>> /\ scan = 0
      /\ Len(clients) = 0 /\ Len(rooms) = 0
  BY MatchmakingInit, EmptySeq DEF SessionInit, ServerInit
<1>2. SessionTypeOK
  BY <1>1, EmptySeq DEF SessionInit, ClientInit, SessionTypeOK
<1>3. OnSocket /\ Silent /\ Fresh /\ Standing
  BY <1>1 DEF SessionInit, ServerInit, ClientInit, OnSocket, Silent, Fresh, Standing
<1>4. Mail /\ Written
  BY RangeEmpty DEF SessionInit, ServerInit, ClientInit, Mail, Posted, Written, Sent
<1>5. RoomIds /\ AllDialled
  BY <1>1 DEF RoomIds, AllDialled
<1> QED
  BY <1>1, <1>2, <1>3, <1>4, <1>5 DEF SessionInv

(* The invariant of Session, part by part.                                 *)
LEMMA SessionInvStep ==
  ASSUME SessionInv, [SpacedSessionNext]_sessionVars
  PROVE  SessionInv'
<1>1. TypeOK /\ SessionTypeOK /\ OnSocket /\ Pairing /\ Identified /\ RoomIds
  BY DEF SessionInv, SessionTypeOK
<1>2. HasId
  <2> SUFFICES ASSUME NEW a \in App, room_id[a] >= 0
               PROVE  client_id[a] \in Nat
    BY DEF HasId
  <2>1. PICK i, k, j \in Nat : Stand(a, i, k, j) /\ client_id[a] = clients[i].id
    BY DEF SessionInv, Standing
  <2> QED
    BY <1>1, <2>1, ClientTypes DEF Stand
<1>3. SessionTypeOK' /\ OnSocket'
  BY <1>1, <1>2, SessionTypeStep, OnSocketStep
<1>4. SpacedStep /\ (scan # 0 => now' = now)
  BY <1>1, SessionIsSpacedStep
<1>5. Pairing' /\ Identified' /\ RoomIds'
  BY <1>1, <1>4, SpacedIsRoomStep, PairingStep, IdentifiedStep, RoomIdsStep
<1>6. AllDialled' /\ Silent' /\ Mail' /\ Fresh' /\ Standing' /\ Written'
  BY <1>3, AllDialledStep, SilentStep, MailStep, FreshStep, StandingStep, WrittenStep
<1> QED
  BY <1>3, <1>5, <1>6 DEF SessionInv

(* The invariant of the whole session.                                     *)
THEOREM SessionInvariant == SpacedSessionSpec => []SessionInv
<1>1. SessionInit => SessionInv
  BY SessionInvInit
<1>2. SessionInv /\ [SpacedSessionNext]_sessionVars => SessionInv'
  BY SessionInvStep
<1> QED
  BY <1>1, <1>2, PTL DEF SpacedSessionSpec

(* Server and clients keep their types; in particular no client sends an   *)
(* update with a room but without an id of its own.                        *)
THEOREM SessionTypeCorrect == SpacedSessionSpec => []SessionTypeOK
<1>1. SessionInv => SessionTypeOK
  BY DEF SessionInv
<1> QED
  BY <1>1, SessionInvariant, PTL

(* A client is shown nobody but the player across the room of its present  *)
(* connection, for any number of clients, however often each of them loses *)
(* its connection and whatever was under way when it did.                  *)
THEOREM OnlyOpponentsHeard == SpacedSessionSpec => []HearsOpponentOnly
<1>1. SessionInv => HearsOpponentOnly
  <2> SUFFICES ASSUME SessionInv, NEW s \in Socket, s = current(s[1]),
                      NEW i \in 1..Len(inbox[s]), inbox[s][i].type = "update"
               PROVE  \E t \in Socket : t[1] = inbox[s][i].data /\ Opposite(s, t)
    BY DEF HearsOpponentOnly
  <2>1. inbox[s] \in Seq(Message)
    BY DEF SessionInv, SessionTypeOK, TypeOK, Message
  <2>2. inbox[s][i] \in Posted(s)
    BY <2>1, RangeEquality DEF Posted
  <2>3. Heard(s, inbox[s][i].data)
    BY <2>2 DEF SessionInv, Mail, Genuine
  <2>4. s[1] \in App /\ conn[s[1]] \in Nat /\ s[2] = conn[s[1]]
    BY SessionAssumption DEF SessionInv, SessionTypeOK, current
  <2> QED
    BY <2>3, <2>4 DEF Heard
<1> QED
  BY <1>1, SessionInvariant, PTL

(* Every update that reaches the server is forwarded to one socket, once,  *)
(* by the room that its sender was last told of, for any number of rooms   *)
(* and reconnections.                                                      *)
THEOREM UpdatesForwardedOnce == SpacedSessionSpec => ForwardedOnce
<1>1. ASSUME SessionInv, SpacedSessionNext, NEW s \in Socket,
             Len(uplink'[s]) < Len(uplink[s]), readyState'[s] = "open",
             NEW m, m = Head(uplink[s])
      PROVE  \E t \in Socket :
               /\ \/ \E r \in Socket : r[1] = m.data /\ Opposite(r, t)
                  \/ t[1] = m.data /\ t # current(m.data)
               /\ inbox' = IF readyState[t] = "open"
                           THEN [inbox EXCEPT ![t] = Append(@, m)]
                           ELSE inbox
  <2>1. SessionTypeOK
    BY <1>1 DEF SessionInv
  <2>2. Receive(s)
    BY <1>1, <2>1, TakenByReceive
  <2>3. PICK t \in Socket :
          /\ Heard(t, m.data)
          /\ inbox' = IF readyState[t] = "open"
                      THEN [inbox EXCEPT ![t] = Append(@, m)]
                      ELSE inbox
    BY <1>1, <2>2, ReceiveForwards
  <2>4. CASE \E r \in Socket : r[1] = m.data /\ Opposite(t, r)
    BY <2>3, <2>4 DEF Opposite
  <2>5. CASE t[1] = m.data /\ t[2] < conn[m.data]
    <3>1. t \in App \X Nat /\ conn[t[1]] \in Nat
      BY <2>1, SessionAssumption DEF SessionTypeOK
    <3>2. t[2] # conn[m.data]
      BY <2>5, <3>1
    <3>3. t # current(m.data)
      BY <3>2 DEF current
    <3> QED
      BY <2>3, <2>5, <3>3
  <2> QED
    BY <2>3, <2>4, <2>5 DEF Heard
<1>2. SessionInv /\ [SpacedSessionNext]_sessionVars =>
        [\A s \in Socket : Len(uplink'[s]) < Len(uplink[s]) /\ readyState'[s] = "open" =>
           LET m == Head(uplink[s])
           IN \E t \in Socket :
                /\ \/ \E r \in Socket : r[1] = m.data /\ Opposite(r, t)
                   \/ t[1] = m.data /\ t # current(m.data)
                /\ inbox' = IF readyState[t] = "open"
                            THEN [inbox EXCEPT ![t] = Append(@, m)]
                            ELSE inbox]_sessionVars
  BY <1>1
<1> QED
  BY <1>2, SessionInvariant, PTL DEF SpacedSessionSpec, ForwardedOnce

(* Two clients that have joined the same room face each other, whatever    *)
(* connections they have lost since.                                       *)
THEOREM FacingIsOpposed == SpacedSessionSpec => []FacingOpposed
<1>1. SessionInv => FacingOpposed
  <2> SUFFICES ASSUME SessionInv, NEW a \in App, NEW b \in App, a # b,
                      room_id[a] = room_id[b], room_id[a] >= 0
               PROVE  facing[a] # facing[b]
    BY DEF FacingOpposed
  <2>1. TypeOK /\ Pairing /\ Identified /\ RoomIds
    BY DEF SessionInv, SessionTypeOK
  <2>2. PICK i \in Nat, k \in Nat, j \in Nat :
          /\ Stand(a, i, k, j) /\ room_id[a] = rooms[k].id
          /\ facing[a] = IF j = 2 * k - 1 THEN "RIGHT" ELSE "LEFT"
    BY DEF SessionInv, Standing
  <2>3. PICK e \in Nat, n \in Nat, f \in Nat :
          /\ Stand(b, e, n, f) /\ room_id[b] = rooms[n].id
          /\ facing[b] = IF f = 2 * n - 1 THEN "RIGHT" ELSE "LEFT"
    BY DEF SessionInv, Standing
  <2>4. k = n
    BY <2>1, <2>2, <2>3, RoomsDiffer DEF Stand
  <2>5. j # f
    BY <2>2, <2>3 DEF Stand
  <2>6. j \in {2 * k - 1, 2 * k} /\ f \in {2 * k - 1, 2 * k}
    BY <2>2, <2>3, <2>4 DEF Stand
  <2> QED
    BY <2>2, <2>3, <2>4, <2>5, <2>6
<1> QED
  BY <1>1, SessionInvariant, PTL

(* In a session, with clients that come and go, the server still matches   *)
(* its players two by two in the order of their arrival.                   *)
THEOREM SessionMatches == SpacedSessionSpec => ImplementsMatchmaking
<1>1. SessionInit => M!Init
  BY MatchmakingInit DEF SessionInit
<1>2. SessionInv /\ SessionInv' /\ [SpacedSessionNext]_sessionVars => [M!Next]_(M!vars)
  BY SessionIsSpacedStep, RefinementStep DEF SessionInv, SessionTypeOK
<1> QED
  BY <1>1, <1>2, SessionInvariant, PTL
  DEF SpacedSessionSpec, ImplementsMatchmaking, M!Spec

=============================================================================
