------------------------------ MODULE Session -------------------------------
(***************************************************************************)
(* Game clients and the server of RoomServer, over links that may break.   *)
(*                                                                         *)
(* A client (client/src/client.cpp, client/src/app.cpp) keeps one          *)
(* connection at a time and dials again after losing it; its n-th          *)
(* connection is the socket <<a, n>>, and Socket says how many it makes.   *)
(* The server may notice that a socket is gone long before or long after   *)
(* the client does.  What a client keeps between two connections, its      *)
(* client_id and its room_id, is not reset.                                *)
(*                                                                         *)
(* The threads inside a client are the subject of ClientNet; here taking   *)
(* the state of the world, queueing it and writing it to the socket are    *)
(* one step, and the payload of an update is just the client it describes. *)
(***************************************************************************)
EXTENDS RoomServer

CONSTANTS
  App,       \* the running game clients
  None       \* nobody

ASSUME SessionAssumption ==
  /\ Socket \subseteq App \X Nat
  /\ Data = App
  /\ Probe = {}
  /\ None \notin App

VARIABLES
  conn,       \* the number of the latest connection of each client
  link,       \* the client's view of it; "up" is the flag is_open
  client_id,  \* Client::client_id, -1 before the first set_id
  room_id,    \* Client::room_id, -1 before the first set_room
  facing,     \* the default facing direction of World's player
  enemy,      \* whose state World's enemy shows
  uplink      \* updates written to each socket and not yet read by the server

clientVars == <<conn, link, client_id, room_id, facing, enemy, uplink>>
sessionVars == <<serverVars, clientVars>>

SessionTypeOK ==
  /\ TypeOK
  /\ conn \in [App -> Nat]
  /\ link \in [App -> {"down", "dialing", "up"}]
  /\ client_id \in [App -> Nat \cup {-1}]
  /\ room_id \in [App -> Nat \cup {-1}]
  /\ facing \in [App -> {"LEFT", "RIGHT"}]
  /\ enemy \in [App -> App \cup {None}]
  /\ uplink \in [Socket -> Seq(Update)]

ClientInit ==
  /\ conn = [a \in App |-> 0]
  /\ link = [a \in App |-> "down"]
  /\ client_id = [a \in App |-> -1]
  /\ room_id = [a \in App |-> -1]
  /\ facing = [a \in App |-> "RIGHT"]
  /\ enemy = [a \in App |-> None]
  /\ uplink = [s \in Socket |-> <<>>]

SessionInit == ServerInit /\ ClientInit

current(a) == <<a, conn[a]>>

-----------------------------------------------------------------------------
(* The connection thread.                                                  *)

Dial(a) ==
  /\ link[a] = "down"
  /\ <<a, conn[a] + 1>> \in Socket
  /\ conn' = [conn EXCEPT ![a] = @ + 1]
  /\ link' = [link EXCEPT ![a] = "dialing"]
  /\ UNCHANGED <<serverVars, client_id, room_id, facing, enemy, uplink>>

on_open(a) ==
  /\ link[a] = "dialing"
  /\ readyState[current(a)] # "new"
  /\ link' = [link EXCEPT ![a] = "up"]
  /\ UNCHANGED <<serverVars, conn, client_id, room_id, facing, enemy, uplink>>

(* on_fail or on_close: the client gives the connection up.                *)
Drop(a) ==
  /\ link[a] # "down"
  /\ link' = [link EXCEPT ![a] = "down"]
  /\ UNCHANGED <<serverVars, conn, client_id, room_id, facing, enemy, uplink>>

(* A slip to check the properties against: the id of the message is that   *)
(* of the room, not that of the client.                                    *)
MutSideByRoom(m, id) == IF m.left = m.id THEN "RIGHT" ELSE "LEFT"

(* World::connect_room.                                                    *)
Side(m, id) == IF m.left = id THEN "RIGHT" ELSE "LEFT"

(* Client::on_message with the callbacks App installs.                     *)
on_message(a) ==
  LET s == current(a)
      m == Head(inbox[s])
  IN /\ link[a] = "up"
     /\ inbox[s] # <<>>
     /\ inbox' = [inbox EXCEPT ![s] = Tail(@)]
     /\ \/ /\ m.type = "set_id"
           /\ client_id' = [client_id EXCEPT ![a] = m.id]
           /\ UNCHANGED <<room_id, facing, enemy>>
        \/ /\ m.type = "set_room"
           /\ room_id' = [room_id EXCEPT ![a] = m.id]
           /\ facing' = [facing EXCEPT ![a] = Side(m, client_id[a])]
           /\ UNCHANGED <<client_id, enemy>>
        \/ /\ m.type = "update"
           /\ enemy' = [enemy EXCEPT ![a] = m.data]
           /\ UNCHANGED <<client_id, room_id, facing>>
     /\ UNCHANGED <<clients, rooms, now, readyState, scan, alive>>
     /\ UNCHANGED <<conn, link, uplink>>

(* A slip: sending before there is a room.                                 *)
MutSendsAtOnce(a) == TRUE

(* Client::is_connected_to_playroom.                                       *)
is_connected_to_playroom(a) == room_id[a] >= 0

(* App::update every 0.2 s, then the sending thread, which adds the ids    *)
(* that are current when it writes.  At most MaxInbox updates of a client  *)
(* are under way on a socket or to a socket.                               *)
SendUpdate(a) ==
  LET s == current(a)
      m == [type |-> "update", room_id |-> room_id[a],
            client_id |-> client_id[a], data |-> a]
      Mine(x) == x.type = "update" /\ x.data = a
  IN /\ link[a] = "up"
     /\ is_connected_to_playroom(a)
     /\ Len(uplink[s]) < MaxInbox
     /\ \A t \in Socket : Len(SelectSeq(inbox[t], Mine)) < MaxInbox
     /\ uplink' = [uplink EXCEPT ![s] = Append(@, m)]
     /\ UNCHANGED <<serverVars, conn, link, client_id, room_id, facing, enemy>>

-----------------------------------------------------------------------------
(* The server's side of the links.                                         *)

(* A handshake completes; the client may have given up in the meantime.    *)
Dialled(s) == s[2] <= conn[s[1]]

(* Ids are only ever compared for equality, so it is enough that time      *)
(* passes between two connections, when the latest id is the present one   *)
(* and somebody is about to connect.                                       *)
Clock ==
  /\ Idle
  /\ \E i \in 1..Len(clients) : clients[i].id = now
  /\ \E s \in Socket : Dialled(s) /\ readyState[s] = "new"
  /\ Tick
  /\ UNCHANGED clientVars

SpacedAccept(s) ==
  /\ Dialled(s)
  /\ SpacedConnection(s)
  /\ UNCHANGED clientVars

Receive(s) ==
  /\ uplink[s] # <<>>
  /\ readyState[s] = "open"
  /\ on_update(Head(uplink[s]))
  /\ uplink' = [uplink EXCEPT ![s] = Tail(@)]
  /\ UNCHANGED <<conn, link, client_id, room_id, facing, enemy>>

(* The server's end closes; what was under way on the socket is lost.      *)
Hangup(s) ==
  /\ SocketClosed(s)
  /\ uplink' = [uplink EXCEPT ![s] = <<>>]
  /\ UNCHANGED <<conn, link, client_id, room_id, facing, enemy>>

(* What is sent on a socket the client no longer uses is lost.             *)
Discard(s) ==
  /\ s # current(s[1]) \/ link[s[1]] = "down"
  /\ inbox[s] # <<>>
  /\ inbox' = [inbox EXCEPT ![s] = <<>>]
  /\ UNCHANGED <<clients, rooms, now, readyState, scan, alive>>
  /\ UNCHANGED clientVars

ClientStep(a) ==
  \/ Dial(a)
  \/ on_open(a)
  \/ Drop(a)
  \/ on_message(a)
  \/ SendUpdate(a)

LinkStep(s) ==
  \/ Receive(s)
  \/ Hangup(s)
  \/ Discard(s)

(* The steps of confirm_room commute with those of the clients, which can  *)
(* therefore wait for its end.                                             *)
SessionStep ==
  \/ Clock
  \/ confirm_room /\ UNCHANGED clientVars
  \/ \E a \in App : scan = 0 /\ ClientStep(a)
  \/ \E s \in Socket : scan = 0 /\ LinkStep(s)

(* Connections are at least a millisecond apart.                           *)
SpacedSessionNext == SessionStep \/ \E s \in Socket : SpacedAccept(s)

SpacedSessionSpec == SessionInit /\ [][SpacedSessionNext]_sessionVars

(* The event loop of the server, the connection and sending threads of the *)
(* clients and TCP all keep going; time passes.  Nothing makes a client    *)
(* dial, and nothing makes a link break.                                   *)
SessionFairness ==
  /\ WF_sessionVars(confirm_room /\ UNCHANGED clientVars)
  /\ \A a \in App : /\ WF_sessionVars(on_open(a))
                    /\ WF_sessionVars(on_message(a))
                    /\ WF_sessionVars(SendUpdate(a))
  /\ \A s \in Socket : /\ WF_sessionVars(Receive(s))
                       /\ WF_sessionVars(Discard(s))

FairSpacedSession == SpacedSessionSpec /\ SessionFairness

-----------------------------------------------------------------------------

(* The sockets that room k joins, and the one across from s.               *)
Members(k) == {clients[2 * k - 1].socket, clients[2 * k].socket}

Opposite(s, t) == s # t /\ \E k \in 1..Len(rooms) : {s, t} = Members(k)

(* Whom a client hears on its present socket is the player across the      *)
(* room of that connection: not a former opponent, not a stranger,         *)
(* and not itself, although rooms and ids outlive the connections, clients *)
(* send with ids of an earlier connection until new ones arrive, and the   *)
(* server forwards by ids alone.                                           *)
HearsOpponentOnly ==
  \A s \in Socket : s = current(s[1]) /\ link[s[1]] = "up" =>
    \A i \in 1..Len(inbox[s]) : LET m == inbox[s][i] IN
      m.type = "update" => \E t \in Socket : t[1] = m.data /\ Opposite(s, t)

(* Two players that have joined the same room face each other, even after  *)
(* one of them has dialled again and was told a new id for the old room.   *)
FacingOpposed ==
  \A a, b \in App :
    a # b /\ room_id[a] = room_id[b] /\ room_id[a] >= 0 => facing[a] # facing[b]

(* The server forwards an update once: to the socket across the room from  *)
(* a connection of its sender, or to one that the sender has given up, if  *)
(* it has come back and is not yet told its new room.  Nothing is lost     *)
(* while that socket is open, and nothing doubled, although every room     *)
(* with the id in the update forwards it.                                  *)
ForwardedOnce ==
  [][\A s \in Socket : Len(uplink'[s]) < Len(uplink[s]) /\ readyState'[s] = "open" =>
       LET m == Head(uplink[s])
       IN \E t \in Socket :
            /\ \/ \E r \in Socket : r[1] = m.data /\ Opposite(r, t)
               \/ t[1] = m.data /\ t # current(m.data)
            /\ inbox' = IF readyState[t] = "open"
                        THEN [inbox EXCEPT ![t] = Append(@, m)]
                        ELSE inbox]_sessionVars

(* A room is made for two players that are there.                          *)
RoomsSeatTheConnected ==
  [][Len(rooms') > Len(rooms) =>
       \A s \in Members(Len(rooms))' : readyState[s] = "open"]_sessionVars

(* The link from client a to the server stays up on its socket s.          *)
Stable(s) ==
  /\ current(s[1]) = s
  /\ link[s[1]] = "up"
  /\ readyState[s] = "open"

(* Once the two connections of a room stay up, each side ends up showing   *)
(* the other one, whatever happened on earlier connections.                *)
UpdatesFlow ==
  \A s, t \in Socket :
    <>[](Stable(s) /\ Stable(t) /\ Opposite(s, t)) => <>[](enemy[s[1]] = t[1])

=============================================================================
