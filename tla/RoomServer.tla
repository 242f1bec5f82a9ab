----------------------------- MODULE RoomServer -----------------------------
(***************************************************************************)
(* The Node.js game server, server/server.js: class WSServer with its two  *)
(* arrays, clients and rooms.                                              *)
(*                                                                         *)
(* Node runs every event handler to completion.  on_connection is split    *)
(* here into the push of the new client and one step per iteration of the  *)
(* loop in confirm_room (variable scan), and no other handler runs while   *)
(* scan # 0; only the clock may advance meanwhile.                         *)
(*                                                                         *)
(* TLA+ sequences start at 1, so client i of the code is client i + 1.     *)
(***************************************************************************)
EXTENDS Integers, Sequences, FiniteSets

CONSTANTS
  Socket,    \* the connections that may reach the server, each used once
  Probe,     \* those opened by server/client.js, which sends plain text
  Data,      \* payloads of updates, opaque to the server
  MaxTime,   \* bound on the clock, in milliseconds
  MaxInbox   \* bound on the messages in flight to one socket

ASSUME ServerAssumption ==
  /\ Probe \subseteq Socket
  /\ MaxTime \in Nat
  /\ MaxInbox \in Nat

VARIABLES
  clients,     \* this.clients; entries are pushed and never removed
  rooms,       \* this.rooms; entries are pushed and never removed
  now,         \* the wall clock read by uid()
  readyState,  \* the ws library's state of each socket
  inbox,       \* what has been sent on each socket and not yet received
  scan,        \* loop index of the confirm_room in progress, 0 when none
  alive        \* FALSE once an uncaught exception has ended the process

serverVars == <<clients, rooms, now, readyState, inbox, scan, alive>>

(* The constructor assigns Client.Waiting, which does not exist (the enum  *)
(* is Client.Type), so a client that has no room has type undefined.       *)
ClientRecord == [socket : Socket, id : Nat, type : {"undefined", "playing"}]

RoomRecord == [id : Nat, left : Nat, right : Nat]

SetId == [type : {"set_id"}, id : Nat]
SetRoom == [type : {"set_room"}, id : Nat, left : Nat, right : Nat]
Update == [type : {"update"}, room_id : Nat, client_id : Nat, data : Data]

TypeOK ==
  /\ clients \in Seq(ClientRecord)
  /\ rooms \in Seq(RoomRecord)
  /\ now \in Nat
  /\ readyState \in [Socket -> {"new", "open", "closed"}]
  /\ inbox \in [Socket -> Seq(SetId \cup SetRoom \cup Update)]
  /\ scan \in 0..Len(clients)
  /\ alive \in BOOLEAN

ServerInit ==
  /\ clients = <<>>
  /\ rooms = <<>>
  /\ now = 0
  /\ readyState = [s \in Socket |-> "new"]
  /\ inbox = [s \in Socket |-> <<>>]
  /\ scan = 0
  /\ alive = TRUE

-----------------------------------------------------------------------------

Idle == alive /\ scan = 0

(* socket.send(): the ws library drops what is sent on a closed socket.    *)
Send(box, s, m) ==
  IF readyState[s] = "open" THEN [box EXCEPT ![s] = Append(@, m)] ELSE box

(* uid() is the clock in milliseconds, and nothing forces it to advance    *)
(* between two calls.                                                      *)
uid == now

Tick ==
  /\ alive
  /\ now < MaxTime
  /\ now' = now + 1
  /\ UNCHANGED <<clients, rooms, readyState, inbox, scan, alive>>

(* The client is pushed and told its id.                                   *)
confirm_connection(s) ==
  /\ clients' = Append(clients, [socket |-> s, id |-> uid, type |-> "undefined"])
  /\ inbox' = [inbox EXCEPT ![s] = Append(@, [type |-> "set_id", id |-> uid])]

(* on_connection ends with confirm_room, whose loop now starts.            *)
on_connection(s) ==
  /\ Idle
  /\ readyState[s] = "new"
  /\ readyState' = [readyState EXCEPT ![s] = "open"]
  /\ confirm_connection(s)
  /\ scan' = 1
  /\ UNCHANGED <<rooms, now, alive>>

(* Slips to check the properties against: a room made of array indices     *)
(* instead of client ids, one with its sides exchanged, and one without an *)
(* id of its own.                                                          *)
MutRoomOfIndices(l, r) == [id |-> uid, left |-> l, right |-> r]
MutRoomSwapped(l, r) == [id |-> uid, left |-> clients[r].id, right |-> clients[l].id]
MutRoomNameless(l, r) == [id |-> 0, left |-> clients[l].id, right |-> clients[r].id]

NewRoom(l, r) == [id |-> uid, left |-> clients[l].id, right |-> clients[r].id]

(* Slips: only one of the two clients is marked.                           *)
MutLeftOnly(l, r) == {l}
MutRightOnly(l, r) == {r}

(* The clients whose type generate_room sets.                              *)
Seats(l, r) == {l, r}

MarkPlaying(seats) ==
  [i \in 1..Len(clients) |->
     IF i \in seats THEN [clients[i] EXCEPT !.type = "playing"] ELSE clients[i]]

generate_room(l, r) ==
  LET room == NewRoom(l, r)
      note == [type |-> "set_room", id |-> room.id,
               left |-> room.left, right |-> room.right]
  IN /\ clients' = MarkPlaying(Seats(l, r))
     /\ rooms' = Append(rooms, room)
     /\ inbox' = Send(Send(inbox, clients[l].socket, note), clients[r].socket, note)

(* Slips in the bounds of the two loops.                                   *)
MutPastTheEnd(i) == IF i <= Len(clients) THEN i + 1 ELSE 0
MutNeedsAThird(j) == j < Len(clients)

(* The loop condition of confirm_room, and its test for a partner.         *)
NextIndex(i) == IF i < Len(clients) THEN i + 1 ELSE 0
IsClient(j) == j <= Len(clients)

(* One iteration of the loop in confirm_room.  The search for a waiting    *)
(* partner declares a j of its own, so the j that is tested afterwards is  *)
(* always the next index, whatever the type of the client there.           *)
confirm_room ==
  LET i == scan
      j == i + 1
  IN /\ alive
     /\ i # 0
     /\ scan' = NextIndex(i)
     /\ \/ /\ clients[i].type # "playing"
           /\ IsClient(j)
           /\ generate_room(i, j)
        \/ /\ clients[i].type = "playing" \/ ~ IsClient(j)
           /\ UNCHANGED <<clients, rooms, inbox>>
     /\ UNCHANGED <<now, readyState, alive>>

-----------------------------------------------------------------------------

(* A slip to check the properties against: the left member gets it all.    *)
MutAlwaysLeft(room, m) == room.left

(* The addressee of an update m in a room: the other member, taken to be   *)
(* the left one whenever the sender is not the left one.                   *)
Addressee(room, m) == IF room.left = m.client_id THEN room.right ELSE room.left

(* this.clients.find(): the first client with that id, if there is one.    *)
Known(id) == \E i \in 1..Len(clients) : clients[i].id = id

FindSocket(id) ==
  clients[CHOOSE i \in 1..Len(clients) :
            /\ clients[i].id = id
            /\ \A j \in 1..(i - 1) : clients[j].id # id].socket

RoomsNamed(id) == {k \in 1..Len(rooms) : rooms[k].id = id}

(* on_message for an update: every room with that id forwards it (return   *)
(* leaves the forEach callback, not the loop).  A failed find is a         *)
(* TypeError that nobody catches.                                          *)
on_update(m) ==
  LET hit == RoomsNamed(m.room_id)
      found(k) == Known(Addressee(rooms[k], m))
      copies(s) == {k \in hit : /\ \A j \in hit : j <= k => found(j)
                                /\ FindSocket(Addressee(rooms[k], m)) = s}
  IN /\ Idle
     /\ alive' = (\A k \in hit : found(k))
     /\ inbox' = [s \in Socket |->
                    IF readyState[s] = "open"
                    THEN inbox[s] \o [n \in 1..Cardinality(copies(s)) |-> m]
                    ELSE inbox[s]]
     /\ UNCHANGED <<clients, rooms, now, readyState, scan>>

(* on_message for text that is not JSON: JSON.parse throws and nobody      *)
(* catches it.                                                             *)
on_text(s) ==
  /\ Idle
  /\ s \in Probe
  /\ readyState[s] = "open"
  /\ alive' = FALSE
  /\ UNCHANGED <<clients, rooms, now, readyState, inbox, scan>>

(* The connection ends.  on_close is attached to the listening server and  *)
(* not to the socket, so clients and rooms keep their entries.             *)
SocketClosed(s) ==
  /\ Idle
  /\ readyState[s] = "open"
  /\ readyState' = [readyState EXCEPT ![s] = "closed"]
  /\ inbox' = [inbox EXCEPT ![s] = <<>>]
  /\ UNCHANGED <<clients, rooms, now, scan, alive>>

(* The peer receives the oldest message sent on s.                         *)
Deliver(s) ==
  /\ inbox[s] # <<>>
  /\ inbox' = [inbox EXCEPT ![s] = Tail(@)]
  /\ UNCHANGED <<clients, rooms, now, readyState, scan, alive>>
-----------------------------------------------------------------------------

(* An open client sends an update with ids that the server has handed out. *)
ReceiveUpdate(s) ==
  /\ readyState[s] = "open"
  /\ \A t \in Socket : Len(inbox[t]) < MaxInbox
  /\ \E k \in 1..Len(rooms), i \in 1..Len(clients), d \in Data :
       on_update([type |-> "update", room_id |-> rooms[k].id,
                  client_id |-> clients[i].id, data |-> d])

ServerStep ==
  \/ Tick
  \/ confirm_room
  \/ \E s \in Socket : \/ ReceiveUpdate(s)
                        \/ on_text(s)
                        \/ SocketClosed(s)
                        \/ Deliver(s)

Next == ServerStep \/ \E s \in Socket : on_connection(s)

Spec == ServerInit /\ [][Next]_serverVars

(* The same server when any two connections are at least a millisecond     *)
(* apart, so that uid() never repeats an id.                               *)
SpacedConnection(s) ==
  /\ \A i \in 1..Len(clients) : clients[i].id < now
  /\ on_connection(s)

SpacedNext == ServerStep \/ \E s \in Socket : SpacedConnection(s)

SpacedSpec == ServerInit /\ [][SpacedNext]_serverVars

-----------------------------------------------------------------------------

(* Between two handlers at most the newest client has no room.  The search *)
(* for a partner in confirm_room does not work (its j is shadowed), and    *)
(* this is what makes the next index the right partner all the same.       *)
WaitingIsLast ==
  scan = 0 => \A i \in 1..(Len(clients) - 1) : clients[i].type = "playing"

(* Room k seats clients 2k-1 and 2k, left and right, for good: no client   *)
(* that already plays is put in a second room by a later confirm_room, and *)
(* between two handlers as many clients as possible have a room.           *)
RoomsPairNeighbours ==
  /\ 2 * Len(rooms) <= Len(clients)
  /\ \A k \in 1..Len(rooms) : /\ rooms[k].left = clients[2 * k - 1].id
                             /\ rooms[k].right = clients[2 * k].id
  /\ \A i \in 1..Len(clients) :
       clients[i].type = "playing" <=> i <= 2 * Len(rooms)
  /\ scan = 0 => Len(clients) <= 2 * Len(rooms) + 1

(* While confirm_room runs, one pair at most remains to be made and the    *)
(* loop has not passed it yet, so that a single pass is enough and the     *)
(* loop never makes two rooms.                                             *)
ScanSeesThePair ==
  scan # 0 => /\ Len(clients) <= 2 * Len(rooms) + 2
              /\ scan > 2 * Len(rooms) + 1 => Len(clients) <= 2 * Len(rooms) + 1

(* The find in on_message never comes back empty, however old the room an  *)
(* update names and whoever has left since: without the plain-text client  *)
(* no message ends the process.                                            *)
StaysUp == alive \/ \E s \in Probe : readyState[s] # "new"

(* Rooms as pairs of sockets, found the way on_message finds them.         *)
Matches == {<<FindSocket(rooms[k].left), FindSocket(rooms[k].right)>> :
              k \in 1..Len(rooms)}

Arrived == [i \in 1..Len(clients) |-> clients[i].socket]

Seated == {clients[i].socket : i \in {j \in 1..Len(clients) :
                                        clients[j].type = "playing"}}

(* What the server promises its players: see Matchmaking.                  *)
M == INSTANCE Matchmaking WITH Player <- Socket, arrived <- Arrived,
                               seated <- Seated, matches <- Matches

(* With connections a millisecond apart the server implements first-come,  *)
(* first-served matchmaking, as seen through the ids it routes by.         *)
ImplementsMatchmaking == M!Spec

=============================================================================
