-------------------------- MODULE RoomServerProofs --------------------------
(***************************************************************************)
(* Theorems about RoomServer, for every set of sockets and every bound.    *)
(***************************************************************************)
EXTENDS RoomServer, FiniteSetTheorems, SequenceTheorems, TLAPS

Message == SetId \cup SetRoom \cup Update

(* A function on 1..n is a sequence of length n.                           *)
LEMMA FunctionIsSeq ==
  ASSUME NEW S, NEW n \in Nat, NEW f \in [1..n -> S]
  PROVE  f \in Seq(S) /\ Len(f) = n
<1>1. f \in Seq(S)
  BY SeqDef
<1> QED
  BY <1>1, LenProperties

(* Marking clients as playing changes nothing but their type.              *)
LEMMA MarkPlayingType ==
  ASSUME clients \in Seq(ClientRecord), NEW seats
  PROVE  /\ MarkPlaying(seats) \in Seq(ClientRecord)
         /\ Len(MarkPlaying(seats)) = Len(clients)
         /\ \A i \in 1..Len(clients) :
              /\ MarkPlaying(seats)[i].id = clients[i].id
              /\ MarkPlaying(seats)[i].socket = clients[i].socket
              /\ MarkPlaying(seats)[i].type =
                   IF i \in seats THEN "playing" ELSE clients[i].type
<1>1. /\ Len(clients) \in Nat
      /\ \A i \in 1..Len(clients) : clients[i] \in ClientRecord
  BY ElementOfSeq, LenProperties
<1>2. MarkPlaying(seats) \in [1..Len(clients) -> ClientRecord]
  BY <1>1 DEF MarkPlaying, ClientRecord
<1>3. \A i \in 1..Len(clients) :
        /\ MarkPlaying(seats)[i].id = clients[i].id
        /\ MarkPlaying(seats)[i].socket = clients[i].socket
        /\ MarkPlaying(seats)[i].type =
             IF i \in seats THEN "playing" ELSE clients[i].type
  BY <1>1 DEF MarkPlaying, ClientRecord
<1> QED
  BY <1>1, <1>2, <1>3, FunctionIsSeq

-----------------------------------------------------------------------------
(* Type correctness.  Every action but confirm_room and on_update follows  *)
(* from the types of Append and Tail.                                      *)

(* Sending keeps the type of the queues.                                   *)
LEMMA SendType ==
  ASSUME TypeOK, NEW box \in [Socket -> Seq(Message)], NEW s \in Socket,
         NEW m \in Message
  PROVE  Send(box, s, m) \in [Socket -> Seq(Message)]
  BY AppendProperties DEF Send

(* Making a room keeps the types of clients, rooms and queues.             *)
LEMMA generate_roomType ==
  ASSUME TypeOK, NEW l \in 1..Len(clients), NEW r \in 1..Len(clients),
         generate_room(l, r)
  PROVE  /\ clients' \in Seq(ClientRecord)
         /\ Len(clients') = Len(clients)
         /\ rooms' \in Seq(RoomRecord)
         /\ inbox' \in [Socket -> Seq(Message)]
<1> DEFINE room == NewRoom(l, r)
           note == [type |-> "set_room", id |-> room.id,
                    left |-> room.left, right |-> room.right]
           box == Send(inbox, clients[l].socket, note)
<1>1. /\ clients \in Seq(ClientRecord)
      /\ clients[l] \in ClientRecord /\ clients[r] \in ClientRecord
  BY ElementOfSeq DEF TypeOK
<1>2. room \in RoomRecord
  BY <1>1 DEF NewRoom, RoomRecord, ClientRecord, TypeOK, uid
<1>3. note \in Message
  BY <1>2 DEF Message, SetRoom, RoomRecord
<1>4. inbox \in [Socket -> Seq(Message)]
  BY DEF TypeOK, Message
<1>5. clients[l].socket \in Socket /\ clients[r].socket \in Socket
  BY <1>1 DEF ClientRecord
<1> HIDE DEF note, room
<1>6. box \in [Socket -> Seq(Message)]
  BY <1>3, <1>4, <1>5, SendType
<1> HIDE DEF box
<1>7. Send(box, clients[r].socket, note) \in [Socket -> Seq(Message)]
  BY <1>3, <1>5, <1>6, SendType
<1>8. inbox' = Send(box, clients[r].socket, note)
  BY DEF generate_room, box, note, room
<1>9. rooms' \in Seq(RoomRecord)
  BY <1>2, AppendProperties DEF generate_room, room, TypeOK
<1>10. clients' = MarkPlaying({l, r})
  BY DEF generate_room, Seats
<1> QED
  BY <1>1, <1>7, <1>8, <1>9, <1>10, MarkPlayingType

(* Forwarding: some number of copies of m are appended to each queue.      *)
LEMMA on_updateType ==
  ASSUME TypeOK, NEW m \in Update, on_update(m)
  PROVE  TypeOK'
<1> DEFINE hit == RoomsNamed(m.room_id)
           found(k) == Known(Addressee(rooms[k], m))
           copies(s) == {k \in hit : /\ \A j \in hit : j <= k => found(j)
                                     /\ FindSocket(Addressee(rooms[k], m)) = s}
           extra(s) == [n \in 1..Cardinality(copies(s)) |-> m]
<1>1. Len(rooms) \in Nat
  BY LenProperties DEF TypeOK
<1>2. ASSUME NEW s \in Socket
      PROVE  extra(s) \in Seq(Message)
  <2>1. IsFiniteSet(1..Len(rooms))
    BY <1>1, FS_Interval
  <2>2. copies(s) \subseteq 1..Len(rooms)
    BY DEF RoomsNamed
  <2>3. Cardinality(copies(s)) \in Nat
    BY <2>1, <2>2, FS_Subset, FS_CardinalityType
  <2> HIDE DEF copies
  <2>4. extra(s) \in [1..Cardinality(copies(s)) -> Message]
    BY DEF Message
  <2> QED
    BY <2>3, <2>4, FunctionIsSeq
<1>3. inbox' = [s \in Socket |-> IF readyState[s] = "open"
                                THEN inbox[s] \o extra(s) ELSE inbox[s]]
  BY DEF on_update
<1> HIDE DEF extra
<1>4. inbox' \in [Socket -> Seq(Message)]
  BY <1>2, <1>3, ConcatProperties DEF TypeOK, Message
<1>5. alive' \in BOOLEAN /\ UNCHANGED <<clients, rooms, now, readyState, scan>>
  BY DEF on_update
<1> QED
  BY <1>4, <1>5 DEF TypeOK, Message

(* No handler of the server leaves the types.                              *)
LEMMA TypeStep ==
  ASSUME TypeOK, [Next]_serverVars
  PROVE  TypeOK'
<1> USE DEF TypeOK
<1>1. CASE UNCHANGED serverVars
  BY <1>1 DEF serverVars
<1>2. CASE Tick
  BY <1>2 DEF Tick
<1>3. CASE confirm_room
  <2>1. scan \in 1..Len(clients) /\ Len(clients) \in Nat
    BY <1>3, LenProperties DEF confirm_room
  <2>2. scan' \in 0..Len(clients)
    BY <1>3, <2>1 DEF confirm_room, NextIndex
  <2>3. UNCHANGED <<now, readyState, alive>>
    BY <1>3 DEF confirm_room
  <2>4. CASE UNCHANGED <<clients, rooms, inbox>>
    BY <2>2, <2>3, <2>4
  <2>5. CASE scan + 1 <= Len(clients) /\ generate_room(scan, scan + 1)
    <3>1. scan + 1 \in 1..Len(clients)
      BY <2>1, <2>5
    <3> HIDE DEF TypeOK
    <3>2. /\ clients' \in Seq(ClientRecord)
          /\ Len(clients') = Len(clients)
          /\ rooms' \in Seq(RoomRecord)
          /\ inbox' \in [Socket -> Seq(Message)]
      BY <2>1, <2>5, <3>1, generate_roomType
    <3> QED
      BY <2>2, <2>3, <3>2 DEF TypeOK, Message
  <2> QED
    BY <1>3, <2>1, <2>4, <2>5 DEF confirm_room, IsClient
<1>4. ASSUME NEW s \in Socket, ReceiveUpdate(s)
      PROVE  TypeOK'
  <2>1. PICK k \in 1..Len(rooms), i \in 1..Len(clients), d \in Data :
          on_update([type |-> "update", room_id |-> rooms[k].id,
                     client_id |-> clients[i].id, data |-> d])
    BY <1>4 DEF ReceiveUpdate
  <2>2. rooms[k] \in RoomRecord /\ clients[i] \in ClientRecord
    BY ElementOfSeq
  <2>3. [type |-> "update", room_id |-> rooms[k].id,
         client_id |-> clients[i].id, data |-> d] \in Update
    BY <2>2 DEF Update, RoomRecord, ClientRecord
  <2> HIDE DEF TypeOK
  <2> QED
    BY <2>1, <2>3, on_updateType
<1>5. ASSUME NEW s \in Socket, on_text(s)
      PROVE  TypeOK'
  BY <1>5 DEF on_text
<1>6. ASSUME NEW s \in Socket, SocketClosed(s)
      PROVE  TypeOK'
  BY <1>6, EmptySeq DEF SocketClosed
<1>7. ASSUME NEW s \in Socket, Deliver(s)
      PROVE  TypeOK'
  BY <1>7, HeadTailProperties DEF Deliver
<1>8. ASSUME NEW s \in Socket, on_connection(s)
      PROVE  TypeOK'
  <2> DEFINE c == [socket |-> s, id |-> uid, type |-> "undefined"]
             note == [type |-> "set_id", id |-> uid]
  <2>1. c \in ClientRecord /\ note \in SetId
    BY DEF ClientRecord, SetId, uid
  <2>2. /\ clients' = Append(clients, c)
        /\ inbox' = [inbox EXCEPT ![s] = Append(@, note)]
    BY <1>8 DEF on_connection, confirm_connection
  <2> HIDE DEF c, note
  <2>3. clients' \in Seq(ClientRecord) /\ Len(clients') = Len(clients) + 1
    BY <2>1, <2>2, AppendProperties
  <2>4. inbox' \in [Socket -> Seq(SetId \cup SetRoom \cup Update)]
    BY <2>1, <2>2, AppendProperties
  <2>5. Len(clients) \in Nat
    BY LenProperties
  <2>6. /\ readyState' = [readyState EXCEPT ![s] = "open"]
        /\ scan' = 1
        /\ UNCHANGED <<rooms, now, alive>>
    BY <1>8 DEF on_connection
  <2> QED
    BY <2>3, <2>4, <2>5, <2>6
<1> QED
  BY <1>1, <1>2, <1>3, <1>4, <1>5, <1>6, <1>7, <1>8 DEF Next, ServerStep

(* No step of the server leaves the types of its arrays, queues and flags. *)
THEOREM TypeCorrect == Spec => []TypeOK
<1>1. ServerInit => TypeOK
  BY EmptySeq DEF ServerInit, TypeOK
<1>2. TypeOK /\ [Next]_serverVars => TypeOK'
  BY TypeStep
<1> QED
  BY <1>1, <1>2, PTL DEF Spec

-----------------------------------------------------------------------------
(* Pairing.  RoomsPairNeighbours is not inductive by itself: in the middle *)
(* of confirm_room it must be known that only one pair is missing and that *)
(* the loop has not passed it, which is ScanSeesThePair.                   *)

Pairing == RoomsPairNeighbours /\ ScanSeesThePair

(* The steps that change clients, rooms or the loop that pairs them.       *)
RoomStep ==
  \/ confirm_room
  \/ \E s \in Socket : on_connection(s)
  \/ UNCHANGED <<clients, rooms, scan>>

(* To clients and rooms every step of the server is one of three kinds.    *)
LEMMA NextIsRoomStep ==
  ASSUME [Next]_serverVars
  PROVE  RoomStep
<1>1. ASSUME NEW s \in Socket, ReceiveUpdate(s)
      PROVE  UNCHANGED <<clients, rooms, scan>>
  BY <1>1 DEF ReceiveUpdate, on_update
<1>2. Tick => UNCHANGED <<clients, rooms, scan>>
  BY DEF Tick
<1>3. ASSUME NEW s \in Socket, on_text(s) \/ SocketClosed(s) \/ Deliver(s)
      PROVE  UNCHANGED <<clients, rooms, scan>>
  BY <1>3 DEF on_text, SocketClosed, Deliver
<1>4. UNCHANGED serverVars => UNCHANGED <<clients, rooms, scan>>
  BY DEF serverVars
<1> QED
  BY <1>1, <1>2, <1>3, <1>4 DEF Next, ServerStep, RoomStep

(* Connections and iterations of confirm_room keep the pairing.            *)
LEMMA PairingStep ==
  ASSUME TypeOK, Pairing, RoomStep
  PROVE  Pairing'
<1> DEFINE L == Len(clients)
           R == Len(rooms)
<1>1. L \in Nat /\ R \in Nat /\ scan \in 0..L
  BY LenProperties DEF TypeOK
<1>2. \A i \in 1..L : clients[i] \in ClientRecord
  BY ElementOfSeq DEF TypeOK
<1>3. CASE UNCHANGED <<clients, rooms, scan>>
  BY <1>3 DEF Pairing, RoomsPairNeighbours, ScanSeesThePair
<1>4. CASE confirm_room
  <2>1. scan \in 1..L
    BY <1>1, <1>4 DEF confirm_room
  <2>2. CASE UNCHANGED <<clients, rooms, inbox>>
             /\ (clients[scan].type = "playing" \/ scan + 1 > L)
    <3>1. scan' = IF scan < L THEN scan + 1 ELSE 0
      BY <1>4 DEF confirm_room, NextIndex
    <3>2. clients[scan].type = "playing" <=> scan <= 2 * R
      BY <2>1 DEF Pairing, RoomsPairNeighbours
    <3>3. /\ scan' = 0 => L <= 2 * R + 1
          /\ scan' # 0 => scan' <= 2 * R + 1
          /\ L <= 2 * R + 2
      BY <1>1, <2>1, <2>2, <3>1, <3>2 DEF Pairing, ScanSeesThePair
    <3> QED
      BY <1>1, <2>1, <2>2, <3>1, <3>3
      DEF Pairing, RoomsPairNeighbours, ScanSeesThePair
  <2>3. CASE /\ clients[scan].type # "playing"
             /\ scan + 1 <= L
             /\ generate_room(scan, scan + 1)
    <3>1. scan = 2 * R + 1 /\ L = 2 * R + 2
      BY <1>1, <2>1, <2>3 DEF Pairing, RoomsPairNeighbours, ScanSeesThePair
    <3>2. scan' = scan + 1
      BY <1>1, <1>4, <2>1, <2>3 DEF confirm_room, NextIndex
    <3> DEFINE room == NewRoom(scan, scan + 1)
    <3>3. /\ room.left = clients[scan].id
          /\ room.right = clients[scan + 1].id
      BY DEF NewRoom
    <3>4. rooms' = Append(rooms, room)
      BY <2>3 DEF generate_room
    <3> HIDE DEF room
    <3>5. /\ Len(rooms') = R + 1
          /\ \A k \in 1..R : rooms'[k] = rooms[k]
          /\ rooms'[R + 1] = room
      BY <1>1, <3>4, AppendProperties DEF TypeOK
    <3>6. clients' = MarkPlaying({scan, scan + 1})
      BY <2>3 DEF generate_room, Seats
    <3>7. /\ Len(clients') = L
          /\ \A i \in 1..L :
               /\ clients'[i].id = clients[i].id
               /\ clients'[i].type =
                    IF i \in {scan, scan + 1} THEN "playing" ELSE clients[i].type
      BY <3>6, MarkPlayingType DEF TypeOK
    <3>8. \A k \in 1..(R + 1) : /\ rooms'[k].left = clients'[2 * k - 1].id
                                /\ rooms'[k].right = clients'[2 * k].id
      <4> TAKE k \in 1..(R + 1)
      <4>1. CASE k = R + 1
        BY <1>1, <3>1, <3>3, <3>5, <3>7, <4>1
      <4>2. CASE k \in 1..R
        <5>1. 2 * k - 1 \in 1..L /\ 2 * k \in 1..L
          BY <1>1, <3>1, <4>2
        <5>2. /\ rooms[k].left = clients[2 * k - 1].id
              /\ rooms[k].right = clients[2 * k].id
          BY <4>2 DEF Pairing, RoomsPairNeighbours
        <5> QED
          BY <3>5, <3>7, <4>2, <5>1, <5>2
      <4> QED
        BY <1>1, <4>1, <4>2
    <3>9. \A i \in 1..L : clients'[i].type = "playing" <=> i <= 2 * (R + 1)
      <4> TAKE i \in 1..L
      <4>1. i <= 2 * (R + 1)
        BY <1>1, <3>1
      <4>2. clients'[i].type = "playing"
        <5>1. CASE i \in {scan, scan + 1}
          BY <3>7, <5>1
        <5>2. CASE i <= 2 * R
          BY <3>7, <5>2 DEF Pairing, RoomsPairNeighbours
        <5> QED
          BY <1>1, <3>1, <5>1, <5>2
      <4> QED
        BY <4>1, <4>2
    <3> QED
      BY <1>1, <3>1, <3>2, <3>5, <3>7, <3>8, <3>9
      DEF Pairing, RoomsPairNeighbours, ScanSeesThePair
  <2> QED
    BY <1>1, <1>4, <2>1, <2>2, <2>3 DEF confirm_room, IsClient
<1>5. ASSUME NEW s \in Socket, on_connection(s)
      PROVE  Pairing'
  <2> DEFINE c == [socket |-> s, id |-> uid, type |-> "undefined"]
  <2>1. /\ clients' = Append(clients, c)
        /\ scan = 0 /\ scan' = 1
        /\ rooms' = rooms
    BY <1>5 DEF on_connection, confirm_connection, Idle
  <2>2. /\ Len(clients') = L + 1
        /\ \A i \in 1..L : clients'[i] = clients[i]
        /\ clients'[L + 1] = c
    BY <1>1, <2>1, AppendProperties DEF TypeOK, ClientRecord, uid
  <2>3. c.type # "playing"
    OBVIOUS
  <2> HIDE DEF c
  <2>4. L <= 2 * R + 1 /\ 2 * R <= L
    BY <2>1 DEF Pairing, RoomsPairNeighbours
  <2>5. \A k \in 1..R : 2 * k - 1 \in 1..L /\ 2 * k \in 1..L
    BY <1>1, <2>4
  <2> QED
    BY <1>1, <2>1, <2>2, <2>3, <2>4, <2>5
    DEF Pairing, RoomsPairNeighbours, ScanSeesThePair
<1> QED
  BY <1>3, <1>4, <1>5 DEF RoomStep

(* Whatever the number of connections, room k seats the clients 2k-1 and   *)
(* 2k and nobody is seated twice.                                          *)
THEOREM PairsNeighbours == Spec => []RoomsPairNeighbours
<1>1. ServerInit => TypeOK /\ Pairing
  BY EmptySeq DEF ServerInit, TypeOK, Pairing, RoomsPairNeighbours, ScanSeesThePair
<1>2. TypeOK /\ Pairing /\ [Next]_serverVars => TypeOK' /\ Pairing'
  BY TypeStep, NextIsRoomStep, PairingStep
<1>3. Pairing => RoomsPairNeighbours
  BY DEF Pairing
<1> QED
  BY <1>1, <1>2, <1>3, PTL DEF Spec

(* One pass of the loop in confirm_room suffices, for any number of        *)
(* clients.                                                                *)
THEOREM OnePassSuffices == Spec => []ScanSeesThePair
<1>1. ServerInit => TypeOK /\ Pairing
  BY EmptySeq DEF ServerInit, TypeOK, Pairing, RoomsPairNeighbours, ScanSeesThePair
<1>2. TypeOK /\ Pairing /\ [Next]_serverVars => TypeOK' /\ Pairing'
  BY TypeStep, NextIsRoomStep, PairingStep
<1>3. Pairing => ScanSeesThePair
  BY DEF Pairing
<1> QED
  BY <1>1, <1>2, <1>3, PTL DEF Spec

(* Only the newest client can be without a room between two handlers.      *)
THEOREM OnlyLastWaits == Spec => []WaitingIsLast
<1>1. TypeOK /\ RoomsPairNeighbours => WaitingIsLast
  <2> SUFFICES ASSUME TypeOK, RoomsPairNeighbours, scan = 0,
                      NEW i \in 1..(Len(clients) - 1)
               PROVE  clients[i].type = "playing"
    BY DEF WaitingIsLast
  <2>1. Len(clients) \in Nat /\ Len(rooms) \in Nat
    BY LenProperties DEF TypeOK
  <2>2. i \in 1..Len(clients) /\ i <= 2 * Len(rooms)
    BY <2>1 DEF RoomsPairNeighbours
  <2> QED
    BY <2>2 DEF RoomsPairNeighbours
<1> QED
  BY <1>1, TypeCorrect, PairsNeighbours, PTL

-----------------------------------------------------------------------------
(* Availability.  The addressee of an update is a member of a room, and    *)
(* members of rooms are clients that are never removed.                    *)

(* The find of an update succeeds: members of rooms are ids of clients,    *)
(* which are never removed.                                                *)
LEMMA MembersAreKnown ==
  ASSUME TypeOK, RoomsPairNeighbours, NEW k \in 1..Len(rooms), NEW m
  PROVE  Known(Addressee(rooms[k], m))
<1>1. Len(clients) \in Nat /\ Len(rooms) \in Nat
  BY LenProperties DEF TypeOK
<1>2. 2 * k - 1 \in 1..Len(clients) /\ 2 * k \in 1..Len(clients)
  BY <1>1 DEF RoomsPairNeighbours
<1>3. rooms[k].left = clients[2 * k - 1].id /\ rooms[k].right = clients[2 * k].id
  BY DEF RoomsPairNeighbours
<1> QED
  BY <1>2, <1>3 DEF Known, Addressee

(* No update ends the process, whoever sends it and whatever has closed.   *)
THEOREM ServerStaysUp == Spec => []StaysUp
<1>1. ServerInit => StaysUp
  BY DEF ServerInit, StaysUp
<1>2. TypeOK /\ RoomsPairNeighbours /\ StaysUp /\ [Next]_serverVars => StaysUp'
  <2> SUFFICES ASSUME TypeOK, RoomsPairNeighbours, StaysUp, [Next]_serverVars
               PROVE  StaysUp'
    OBVIOUS
  <2>1. ASSUME NEW s \in Socket, ReceiveUpdate(s)
        PROVE  StaysUp'
    <3>1. PICK m : on_update(m)
      BY <2>1 DEF ReceiveUpdate
    <3>2. \A k \in RoomsNamed(m.room_id) : Known(Addressee(rooms[k], m))
      BY MembersAreKnown DEF RoomsNamed
    <3>3. alive'
      BY <3>1, <3>2 DEF on_update
    <3> QED
      BY <3>3 DEF StaysUp
  <2>2. ASSUME NEW s \in Socket, on_text(s)
        PROVE  StaysUp'
    BY <2>2 DEF on_text, StaysUp
  <2>3. ASSUME NEW s \in Socket, on_connection(s)
        PROVE  StaysUp'
    BY <2>3 DEF on_connection, StaysUp, Idle
  <2>4. ASSUME NEW s \in Socket, SocketClosed(s)
        PROVE  StaysUp'
    BY <2>4 DEF SocketClosed, StaysUp, Idle
  <2>5. ASSUME NEW s \in Socket, Deliver(s)
        PROVE  StaysUp'
    BY <2>5 DEF Deliver, StaysUp
  <2>6. CASE Tick \/ confirm_room \/ UNCHANGED serverVars
    BY <2>6 DEF Tick, confirm_room, serverVars, StaysUp
  <2> QED
    BY <2>1, <2>2, <2>3, <2>4, <2>5, <2>6 DEF Next, ServerStep
<1> QED
  BY <1>1, <1>2, TypeCorrect, PairsNeighbours, PTL DEF Spec

-----------------------------------------------------------------------------
(* Matchmaking.  With connections a millisecond apart an id belongs to one *)
(* client, so that find in on_message finds the client that was meant.     *)

Identified ==
  /\ \A i \in 1..Len(clients) :
       clients[i].id <= now /\ readyState[clients[i].socket] # "new"
  /\ \A i, j \in 1..Len(clients) :
       clients[i].id = clients[j].id \/ clients[i].socket = clients[j].socket => i = j

(* The steps that leave the arrays alone; sockets do not become new again. *)
QuietStep ==
  /\ UNCHANGED <<clients, rooms, scan>>
  /\ now' \in {now, now + 1}
  /\ \A s \in Socket : readyState[s] # "new" => readyState'[s] # "new"

SpacedStep == QuietStep \/ confirm_room \/ \E s \in Socket : SpacedConnection(s)

(* The same kinds of steps, with a new id for each connection.             *)
LEMMA NextIsSpacedStep ==
  ASSUME TypeOK, [SpacedNext]_serverVars
  PROVE  SpacedStep
<1>1. ASSUME NEW s \in Socket, ReceiveUpdate(s)
      PROVE  QuietStep
  BY <1>1 DEF ReceiveUpdate, on_update, QuietStep
<1>2. Tick => QuietStep
  BY DEF Tick, QuietStep
<1>3. ASSUME NEW s \in Socket, on_text(s) \/ Deliver(s)
      PROVE  QuietStep
  BY <1>3 DEF on_text, Deliver, QuietStep
<1>4. ASSUME NEW s \in Socket, SocketClosed(s)
      PROVE  QuietStep
  BY <1>4 DEF SocketClosed, QuietStep, TypeOK
<1>5. UNCHANGED serverVars => QuietStep
  BY DEF serverVars, QuietStep
<1> QED
  BY <1>1, <1>2, <1>3, <1>4, <1>5 DEF SpacedNext, ServerStep, SpacedStep

(* Steps with new ids are steps.                                           *)
LEMMA SpacedIsRoomStep ==
  ASSUME SpacedStep
  PROVE  RoomStep
  BY DEF SpacedStep, QuietStep, SpacedConnection, RoomStep

(* What the two steps on the arrays do, entry by entry.                    *)
LEMMA ConnectionEffect ==
  ASSUME TypeOK, NEW s \in Socket, on_connection(s)
  PROVE  /\ Len(clients') = Len(clients) + 1
         /\ \A i \in 1..Len(clients) : clients'[i] = clients[i]
         /\ clients'[Len(clients) + 1].socket = s
         /\ clients'[Len(clients) + 1].id = now
         /\ clients'[Len(clients) + 1].type = "undefined"
         /\ UNCHANGED <<rooms, now>>
<1> DEFINE c == [socket |-> s, id |-> uid, type |-> "undefined"]
<1>1. clients' = Append(clients, c) /\ UNCHANGED <<rooms, now>>
  BY DEF on_connection, confirm_connection
<1>2. c \in ClientRecord
  BY DEF ClientRecord, uid, TypeOK
<1>3. c.socket = s /\ c.id = now /\ c.type = "undefined"
  BY DEF uid
<1> HIDE DEF c
<1> QED
  BY <1>1, <1>2, <1>3, AppendProperties DEF TypeOK

(* What an iteration of confirm_room does when it makes a room: the last   *)
(* two clients get it.                                                     *)
LEMMA RoomEffect ==
  ASSUME TypeOK, Pairing, confirm_room, ~ UNCHANGED <<clients, rooms>>
  PROVE  LET L == Len(clients)
         IN /\ L = 2 * Len(rooms) + 2
            /\ Len(rooms') = Len(rooms) + 1
            /\ \A k \in 1..Len(rooms) : rooms'[k] = rooms[k]
            /\ rooms'[Len(rooms) + 1].left = clients[L - 1].id
            /\ rooms'[Len(rooms) + 1].right = clients[L].id
            /\ rooms'[Len(rooms) + 1].id = now
            /\ Len(clients') = L
            /\ \A i \in 1..L : /\ clients'[i].id = clients[i].id
                               /\ clients'[i].socket = clients[i].socket
                               /\ clients'[i].type = "playing"
<1> DEFINE L == Len(clients)
           R == Len(rooms)
           room == NewRoom(scan, scan + 1)
<1>1. L \in Nat /\ R \in Nat /\ scan \in 1..L
  BY LenProperties DEF TypeOK, confirm_room
<1>2. /\ clients[scan].type # "playing"
      /\ scan + 1 <= L
      /\ generate_room(scan, scan + 1)
  BY DEF confirm_room, IsClient
<1>3. scan = 2 * R + 1 /\ L = 2 * R + 2
  BY <1>1, <1>2 DEF Pairing, RoomsPairNeighbours, ScanSeesThePair
<1>4. /\ room.left = clients[L - 1].id
      /\ room.right = clients[L].id
      /\ room.id = now
  BY <1>1, <1>3 DEF NewRoom, uid
<1>5. rooms' = Append(rooms, room) /\ clients' = MarkPlaying({scan, scan + 1})
  BY <1>2 DEF generate_room, Seats
<1> HIDE DEF room
<1>6. /\ Len(rooms') = R + 1
      /\ \A k \in 1..R : rooms'[k] = rooms[k]
      /\ rooms'[R + 1] = room
  BY <1>1, <1>5, AppendProperties DEF TypeOK
<1>7. /\ Len(clients') = L
      /\ \A i \in 1..L : /\ clients'[i].id = clients[i].id
                         /\ clients'[i].socket = clients[i].socket
                         /\ clients'[i].type =
                              IF i \in {scan, scan + 1} THEN "playing" ELSE clients[i].type
  BY <1>5, MarkPlayingType DEF TypeOK
<1>8. \A i \in 1..L : i \in {scan, scan + 1} \/ clients[i].type = "playing"
  <2> TAKE i \in 1..L
  <2>1. i \in {scan, scan + 1} \/ i <= 2 * R
    BY <1>1, <1>3
  <2>2. i <= 2 * R => clients[i].type = "playing"
    BY DEF Pairing, RoomsPairNeighbours
  <2> QED
    BY <2>1, <2>2
<1> QED
  BY <1>3, <1>4, <1>6, <1>7, <1>8

(* Fields of clients and rooms.                                            *)
LEMMA ClientTypes ==
  ASSUME TypeOK
  PROVE  /\ Len(clients) \in Nat /\ Len(rooms) \in Nat
         /\ \A i \in 1..Len(clients) : /\ clients[i].socket \in Socket
                                       /\ clients[i].id \in Nat
         /\ \A k \in 1..Len(rooms) : rooms[k].id \in Nat
<1>1. \A i \in 1..Len(clients) : clients[i] \in ClientRecord
  BY ElementOfSeq DEF TypeOK
<1>2. \A k \in 1..Len(rooms) : rooms[k] \in RoomRecord
  BY ElementOfSeq DEF TypeOK
<1>3. Len(clients) \in Nat /\ Len(rooms) \in Nat
  BY LenProperties DEF TypeOK
<1> QED
  BY <1>1, <1>2, <1>3 DEF ClientRecord, RoomRecord

(* Ids stay distinct while connections are a millisecond apart.            *)
LEMMA IdentifiedStep ==
  ASSUME TypeOK, Pairing, Identified, SpacedStep
  PROVE  Identified'
<1> DEFINE L == Len(clients)
<1>1. /\ L \in Nat /\ now \in Nat
      /\ \A i \in 1..L : /\ clients[i].socket \in Socket
                         /\ clients[i].id \in Nat
  BY ClientTypes DEF TypeOK
<1>2. CASE QuietStep
  BY <1>1, <1>2 DEF QuietStep, Identified
<1>3. CASE confirm_room
  <2>1. UNCHANGED <<now, readyState>>
    BY <1>3 DEF confirm_room
  <2>2. CASE UNCHANGED <<clients, rooms>>
    BY <2>1, <2>2 DEF Identified
  <2>3. CASE ~ UNCHANGED <<clients, rooms>>
    <3>1. /\ Len(clients') = L
          /\ \A i \in 1..L : /\ clients'[i].id = clients[i].id
                             /\ clients'[i].socket = clients[i].socket
      BY <1>3, <2>3, RoomEffect
    <3> QED
      BY <2>1, <3>1 DEF Identified
  <2> QED
    BY <2>2, <2>3
<1>4. ASSUME NEW s \in Socket, SpacedConnection(s)
      PROVE  Identified'
  <2>1. /\ on_connection(s)
        /\ \A i \in 1..L : clients[i].id < now
        /\ readyState[s] = "new"
        /\ readyState' = [readyState EXCEPT ![s] = "open"]
    BY <1>4 DEF SpacedConnection, on_connection
  <2>2. /\ Len(clients') = L + 1
        /\ \A i \in 1..L : clients'[i] = clients[i]
        /\ clients'[L + 1].socket = s
        /\ clients'[L + 1].id = now
        /\ now' = now
    BY <2>1, ConnectionEffect
  <2>3. \A i \in 1..L : clients[i].socket # s
    BY <2>1 DEF Identified
  <2>4. \A i \in 1..(L + 1) : /\ clients'[i].id <= now'
                             /\ readyState'[clients'[i].socket] # "new"
    <3> TAKE i \in 1..(L + 1)
    <3>1. CASE i \in 1..L
      <4>1. readyState[clients[i].socket] # "new" /\ clients[i].socket \in Socket
        BY <1>1, <3>1 DEF Identified
      <4> QED
        BY <1>1, <2>1, <2>2, <3>1, <4>1 DEF Identified, TypeOK
    <3>2. CASE i = L + 1
      BY <1>1, <2>1, <2>2, <3>2 DEF TypeOK
    <3> QED
      BY <1>1, <3>1, <3>2
  <2>5. ASSUME NEW i \in 1..(L + 1), NEW j \in 1..(L + 1),
               \/ clients'[i].id = clients'[j].id
               \/ clients'[i].socket = clients'[j].socket
        PROVE  i = j
    <3>1. CASE i \in 1..L /\ j \in 1..L
      BY <2>2, <2>5, <3>1 DEF Identified
    <3>2. CASE i = L + 1 \/ j = L + 1
      BY <1>1, <2>1, <2>2, <2>3, <2>5, <3>2
    <3> QED
      BY <1>1, <3>1, <3>2
  <2> QED
    BY <2>2, <2>4, <2>5 DEF Identified
<1> QED
  BY <1>2, <1>3, <1>4 DEF SpacedStep

(* An id that on_message looks up is that of one client, and finds it.     *)
LEMMA FindsTheClient ==
  ASSUME TypeOK, Identified, NEW i \in 1..Len(clients)
  PROVE  FindSocket(clients[i].id) = clients[i].socket
<1> DEFINE First(j) == /\ clients[j].id = clients[i].id
                       /\ \A n \in 1..(j - 1) : clients[n].id # clients[i].id
<1>1. Len(clients) \in Nat
  BY ClientTypes
<1>2. First(i)
  <2> SUFFICES ASSUME NEW n \in 1..(i - 1), clients[n].id = clients[i].id
               PROVE  FALSE
    OBVIOUS
  <2>1. n \in 1..Len(clients) /\ n # i
    BY <1>1
  <2> QED
    BY <2>1 DEF Identified
<1>3. \A j \in 1..Len(clients) : First(j) => j = i
  BY DEF Identified
<1>4. (CHOOSE j \in 1..Len(clients) : First(j)) = i
  <2> HIDE DEF First
  <2> QED
    BY <1>2, <1>3
<1> QED
  BY <1>4 DEF FindSocket

(* The abstract state, in terms of the arrays.                             *)
Pair(k) == <<clients[2 * k - 1].socket, clients[2 * k].socket>>

Abstract ==
  /\ Matches = {Pair(k) : k \in 1..Len(rooms)}
  /\ \A i \in 1..Len(clients) : clients[i].socket \in Seated <=> i <= 2 * Len(rooms)

(* Clients and rooms seen as arrivals and matches.                         *)
LEMMA AbstractState == TypeOK /\ Pairing /\ Identified => Abstract
<1> SUFFICES ASSUME TypeOK, Pairing, Identified
             PROVE  Abstract
  OBVIOUS
<1>1. Len(clients) \in Nat /\ Len(rooms) \in Nat /\ 2 * Len(rooms) <= Len(clients)
  BY ClientTypes DEF Pairing, RoomsPairNeighbours
<1>2. ASSUME NEW k \in 1..Len(rooms)
      PROVE  <<FindSocket(rooms[k].left), FindSocket(rooms[k].right)>> = Pair(k)
  <2>1. 2 * k - 1 \in 1..Len(clients) /\ 2 * k \in 1..Len(clients)
    BY <1>1
  <2>2. rooms[k].left = clients[2 * k - 1].id /\ rooms[k].right = clients[2 * k].id
    BY DEF Pairing, RoomsPairNeighbours
  <2>3. /\ FindSocket(clients[2 * k - 1].id) = clients[2 * k - 1].socket
        /\ FindSocket(clients[2 * k].id) = clients[2 * k].socket
    BY <2>1, FindsTheClient
  <2> QED
    BY <2>2, <2>3 DEF Pair
<1>3. Matches = {Pair(k) : k \in 1..Len(rooms)}
  BY <1>2, Zenon DEF Matches
<1>4. ASSUME NEW i \in 1..Len(clients)
      PROVE  clients[i].socket \in Seated <=> clients[i].type = "playing"
  BY <1>4 DEF Seated, Identified
<1> QED
  BY <1>3, <1>4 DEF Abstract, Pairing, RoomsPairNeighbours

InOrder ==
  /\ Arrived \in Seq(Socket)
  /\ Len(Arrived) = Len(clients)
  /\ \A i \in 1..Len(clients) : Arrived[i] = clients[i].socket

(* The order of arrival is the order of the clients.                       *)
LEMMA ArrivedInOrder == TypeOK => InOrder
<1> SUFFICES ASSUME TypeOK
             PROVE  InOrder
  OBVIOUS
<1>1. Arrived \in [1..Len(clients) -> Socket]
  BY ClientTypes DEF Arrived
<1>2. Len(clients) \in Nat
  BY ClientTypes
<1> QED
  BY <1>1, <1>2, FunctionIsSeq DEF InOrder, Arrived

(* A connection is an arrival, the iteration of confirm_room that makes a  *)
(* room is a match, and the other steps change nothing that players see.   *)
LEMMA ConnectionIsArrival ==
  ASSUME TypeOK, Pairing, Identified, Abstract, Abstract',
         InOrder',
         NEW s \in Socket, on_connection(s)
  PROVE  M!Arrive(s)
<1> DEFINE L == Len(clients)
           R == Len(rooms)
<1>1. /\ L \in Nat /\ R \in Nat /\ 2 * R <= L
      /\ L <= 2 * R + 1
      /\ readyState[s] = "new"
  BY ClientTypes DEF Pairing, RoomsPairNeighbours, on_connection, Idle
<1>2. /\ Arrived \in Seq(Socket)
      /\ Len(Arrived) = L
      /\ \A i \in 1..L : Arrived[i] = clients[i].socket
  BY ArrivedInOrder DEF InOrder
<1>3. /\ Len(clients') = L + 1
      /\ \A i \in 1..L : clients'[i] = clients[i]
      /\ clients'[L + 1].socket = s
      /\ clients'[L + 1].type = "undefined"
      /\ rooms' = rooms
  BY ConnectionEffect
<1>4. \A i \in 1..Len(Arrived) : Arrived[i] # s
  BY <1>1, <1>2 DEF Identified
<1>5. \A i, j \in M!Unseated : i = j
  <2>1. \A i \in M!Unseated : i \in 1..L /\ ~ (i <= 2 * R)
    BY <1>2 DEF M!Unseated, Abstract
  <2> QED
    BY <1>1, <2>1
<1>6. Arrived' = Append(Arrived, s)
  <2>1. /\ Append(Arrived, s) \in Seq(Socket)
        /\ Len(Append(Arrived, s)) = L + 1
        /\ \A i \in 1..L : Append(Arrived, s)[i] = Arrived[i]
        /\ Append(Arrived, s)[L + 1] = s
    BY <1>2, AppendProperties
  <2>2. \A i \in 1..(L + 1) : i \in 1..L \/ i = L + 1
    BY <1>1
  <2>3. \A i \in 1..(L + 1) : Arrived'[i] = Append(Arrived, s)[i]
    BY <1>2, <1>3, <2>1, <2>2 DEF InOrder
  <2> QED
    BY <1>3, <2>1, <2>3, SeqEqual DEF InOrder
<1>7. Matches' = Matches
  <2>1. \A k \in 1..R : 2 * k - 1 \in 1..L /\ 2 * k \in 1..L
    BY <1>1
  <2>2. \A k \in 1..R : Pair(k)' = Pair(k)
    BY <1>3, <2>1 DEF Pair
  <2>3. Matches' = {Pair(k)' : k \in 1..R}
    BY <1>3 DEF Abstract
  <2> QED
    BY <2>2, <2>3, Zenon DEF Abstract
<1>8. Seated' = Seated
  <2>1. {j \in 1..Len(clients') : clients'[j].type = "playing"}
          = {j \in 1..L : clients[j].type = "playing"}
    BY <1>1, <1>3
  <2> QED
    BY <1>3, <2>1 DEF Seated
<1> QED
  BY <1>4, <1>5, <1>6, <1>7, <1>8 DEF M!Arrive

(* Making a room is a match of the two that wait.                          *)
LEMMA RoomIsMatch ==
  ASSUME TypeOK, Pairing, Identified, Abstract, Abstract',
         confirm_room, ~ UNCHANGED <<clients, rooms>>
  PROVE  M!Match
<1> DEFINE L == Len(clients)
           R == Len(rooms)
<1>1. /\ L \in Nat /\ R \in Nat /\ L = 2 * R + 2
      /\ Len(rooms') = R + 1
      /\ Len(clients') = L
      /\ \A i \in 1..L : /\ clients'[i].socket = clients[i].socket
                         /\ clients'[i].type = "playing"
  BY ClientTypes, RoomEffect
<1>2. /\ Len(Arrived) = L
      /\ \A i \in 1..L : Arrived[i] = clients[i].socket
  BY ArrivedInOrder DEF InOrder
<1>3. Arrived' = Arrived
  BY <1>1 DEF Arrived
<1>4. L - 1 \in 1..L /\ L \in 1..L /\ L - 1 < L
      /\ ~ (L - 1 <= 2 * R) /\ ~ (L <= 2 * R)
  BY <1>1
<1>5. L - 1 \in M!Unseated /\ L \in M!Unseated
  BY <1>2, <1>4 DEF M!Unseated, Abstract
<1>6. Matches' = Matches \cup {<<Arrived[L - 1], Arrived[L]>>}
  <2>1. \A k \in 1..(R + 1) : 2 * k - 1 \in 1..L /\ 2 * k \in 1..L
    BY <1>1
  <2>2. \A k \in 1..(R + 1) : Pair(k)' = Pair(k)
    BY <1>1, <2>1 DEF Pair
  <2>3. Matches' = {Pair(k)' : k \in 1..(R + 1)}
    BY <1>1 DEF Abstract
  <2>4. Matches' = {Pair(k) : k \in 1..(R + 1)}
    BY <2>2, <2>3, Zenon
  <2>5. Pair(R + 1) = <<Arrived[L - 1], Arrived[L]>>
    BY <1>1, <1>2, <1>4 DEF Pair
  <2>6. 1..(R + 1) = 1..R \cup {R + 1}
    BY <1>1
  <2>7. {Pair(k) : k \in 1..(R + 1)} = {Pair(k) : k \in 1..R} \cup {Pair(R + 1)}
    BY <2>6, Zenon
  <2> QED
    BY <2>4, <2>5, <2>7 DEF Abstract
<1>7. Seated' = Seated \cup {Arrived[L - 1], Arrived[L]}
  <2>1. {j \in 1..Len(clients') : clients'[j].type = "playing"} = 1..L
    BY <1>1
  <2>2. Seated' = {clients[i].socket : i \in 1..L}
    BY <1>1, <2>1 DEF Seated
  <2>3. Seated \subseteq Seated'
    BY <2>2 DEF Seated
  <2>4. ASSUME NEW i \in 1..L
        PROVE  clients[i].socket \in Seated \cup {Arrived[L - 1], Arrived[L]}
    <3>1. L \in Nat /\ R \in Nat /\ L = 2 * R + 2
      BY <1>1
    <3>2. i <= 2 * R \/ i = L - 1 \/ i = L
      <4> HIDE DEF L, R
      <4> QED
        BY <3>1
    <3> QED
      BY <1>2, <1>4, <3>2 DEF Abstract
  <2>5. Arrived[L - 1] \in Seated' /\ Arrived[L] \in Seated'
    BY <1>2, <1>4, <2>2
  <2> QED
    BY <2>2, <2>3, <2>4, <2>5
<1> QED
  BY <1>3, <1>4, <1>5, <1>6, <1>7 DEF M!Match

(* Every step of the server is an arrival, a match or nothing.             *)
LEMMA RefinementStep ==
  ASSUME TypeOK, Pairing, Identified, SpacedStep, TypeOK'
  PROVE  [M!Next]_(M!vars)
<1>1. Abstract
  BY AbstractState
<1>2. Pairing' /\ Identified'
  BY SpacedIsRoomStep, PairingStep, IdentifiedStep
<1>3. TypeOK' /\ Pairing' /\ Identified' => Abstract'
  BY AbstractState, PTL
<1>4. Abstract'
  BY <1>2, <1>3
<1>5. TypeOK' => InOrder'
  BY ArrivedInOrder, PTL
<1>6. UNCHANGED <<clients, rooms>> => UNCHANGED M!vars
  BY DEF M!vars, Arrived, Seated, Matches, FindSocket
<1>7. CASE QuietStep
  BY <1>6, <1>7 DEF QuietStep
<1>8. CASE confirm_room
  BY <1>1, <1>4, <1>6, <1>8, RoomIsMatch DEF M!Next
<1>9. ASSUME NEW s \in Socket, SpacedConnection(s)
      PROVE  M!Next
  BY <1>1, <1>4, <1>5, <1>9, ConnectionIsArrival DEF SpacedConnection, M!Next
<1> QED
  BY <1>7, <1>8, <1>9 DEF SpacedStep

(* A server without clients is a queue without players.                    *)
LEMMA MatchmakingInit ==
  ServerInit => TypeOK /\ Pairing /\ Identified /\ M!Init
<1> SUFFICES ASSUME ServerInit
             PROVE  TypeOK /\ Pairing /\ Identified /\ M!Init
  OBVIOUS
<1>1. clients = <<>> /\ rooms = <<>> /\ Len(clients) = 0 /\ Len(rooms) = 0
  BY EmptySeq DEF ServerInit
<1>2. Arrived = <<>>
  BY <1>1 DEF Arrived
<1>3. Seated = {} /\ Matches = {}
  BY <1>1 DEF Seated, Matches
<1>4. TypeOK /\ Pairing
  BY EmptySeq DEF ServerInit, TypeOK, Pairing, RoomsPairNeighbours, ScanSeesThePair
<1> QED
  BY <1>1, <1>2, <1>3, <1>4 DEF Identified, M!Init

(* Steps with new ids keep the types.                                      *)
LEMMA SpacedTypeStep ==
  ASSUME TypeOK, [SpacedNext]_serverVars
  PROVE  TypeOK'
  BY TypeStep DEF SpacedNext, SpacedConnection, Next

(* When any two connections are a millisecond apart, the server matches    *)
(* its players two by two in the order of their arrival, each one once, as *)
(* seen through the ids by which on_message forwards.                      *)
THEOREM ServerMatches == SpacedSpec => ImplementsMatchmaking
<1> DEFINE Inv == TypeOK /\ Pairing /\ Identified
<1>1. ServerInit => Inv /\ M!Init
  BY MatchmakingInit
<1>2. Inv /\ [SpacedNext]_serverVars => Inv'
  BY SpacedTypeStep, NextIsSpacedStep, SpacedIsRoomStep, PairingStep, IdentifiedStep
<1>3. Inv /\ [SpacedNext]_serverVars => [M!Next]_(M!vars)
  BY SpacedTypeStep, NextIsSpacedStep, RefinementStep
<1> QED
  BY <1>1, <1>2, <1>3, PTL DEF SpacedSpec, ImplementsMatchmaking, M!Spec

=============================================================================
