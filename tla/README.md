# Angry Rabbits: a verification development

TLA+ models of the multiplayer game in this repository, the TLC runs that check
them on small instances, and TLAPS proofs of their main invariants for every
instance. The game is a Node.js server that puts players two by two in rooms and
forwards their updates (`server/server.js`), and a C++ client that shows both
players' worlds (`client/src/*.cpp`).

## The system

| part | state | operations | hard because |
|---|---|---|---|
| Server, `server/server.js` | `clients`, `rooms` (append-only arrays), sockets | connection, `confirm_room`, forwarding, (non-)handling of closed sockets | ids come from the clock; nothing is ever removed; an exception in a handler ends the process |
| Probe, `server/client.js` | none | sends the text `Hello` | the server parses every message as JSON |
| Client networking, `client/src/client.cpp` | `is_running`, `is_open`, `buffer`, `connection_ptr`, `sending_thread`, `client_id`, `room_id` | connect loop, handlers, sender, `send`, `close` | three threads, a condition variable whose predicate is not protected, joins from handlers, reconnection with old ids |
| World, `client/src/game.cpp` | objects, `Object::counter`, `Object::existed_id`, players, backpack | throw, move, collide, `get_info`, `apply_info` | changed by the main and by the connection thread; two clients number objects independently; collisions are tried axis by axis in the order of a list |
| App, `client/src/app.cpp` | window, 0.2 s timer | event loop, `update` | decides when state is sent and when threads are stopped |
| Weapons and backpack, `game.cpp` | axes in the world, cooldown of the backpack | throw, fly, hit | bounds that change as pictures turn and are animated; a timer that is never initialised |
| Screens and menu, `screen_manager.cpp`, `menu.cpp` | active screen, size of the button, mouse over it | switch, mouse events, frames | the size and the mouse over it depend on each other |
| Tile map, `tilemap.cpp`; helpers, `globals.cpp` | layers, obstacles | load, vector arithmetic | collisions depend on the order of the obstacles |

How they interact: the client's connection thread dials; the server answers a new
socket with `set_id`, pairs it with the previous waiting client and sends both
`set_room`; `on_message` in the client stores the ids and calls
`World::connect_room`. From then on `App::update` queues the world every 0.2 s,
the sender adds the ids that are current when it writes, the server looks up the
room by id and the addressee by id, and the other client's connection thread runs
`World::apply_info`. `Client::connect`, `Client::run`, `running_thread_handler`,
`World::throwWeapon`, `check_collision` and `resolveCollision` are never called.

What makes each part correct:

- server: each client is seated once, with its neighbour in order of arrival; no
  update can end the process; with distinct ids it is first-come, first-served
  matchmaking;
- session: a client hears the player across its present room and nobody else,
  across reconnections; players of a room face each other; updates flow when
  links are up;
- client threads: a sender uses the connection it was started for; thread objects
  are joined before they are reused or destroyed; queued messages are sent;
  `close()` returns;
- axes: none is mirrored twice or back to its thrower; axes reach the peer; each
  hurts one player once, and not the one who has just thrown it;
- menu: the button settles;
- players: no move outlives its key; obstacles stop a player and nothing else
  does; a death ends all movement; what the other client shows agrees with the
  player in the end, and is never without health.

## The modules

**Matchmaking** is the promise: players are matched two by two in order of
arrival, each once, the earlier on the left.

**RoomServer** is class `WSServer`. `clients`, `rooms` are the arrays (index *i*
of the code is *i*+1), `now` the clock behind `uid()`, `readyState` and `inbox`
the sockets as the `ws` library shows them. Node runs a handler to completion;
`on_connection` is one step for `confirm_connection` and then one step per
iteration of the loop in `confirm_room` (`scan` is its index), during which no
other handler runs but the clock may advance. `on_update` is `on_message` for an
update: all rooms with the id forward it, since `return` only leaves the
`forEach` callback, and a failed `find` clears `alive`. `on_text` is a message
that is not JSON. `SocketClosed` changes no array because `on_close` is attached
to the listening server. In this module updates may name any room and any client
that exist, in any combination; `Session` says which ones clients really send.

**Session** extends RoomServer with the clients. The *n*-th connection of client
*a* is the socket `<<a, n>>`. Each end of a connection breaks on its own
(`Drop`, `Hangup`), a handshake may complete after the client has given up
(`SpacedAccept`), and what is under way in either direction (`uplink`, `inbox`) may
arrive late or be lost. `client_id` and `room_id` survive a reconnection, as in
the code. Queueing and writing an update are one step here (`SendUpdate`): the
payload is only the name of the sender, so what matters is the ids, which the
sending thread reads when it writes. It reads `room_id` and then `client_id`;
as the connection thread stores `client_id` before `room_id` and the old room
stays in force in between, every pair it can read is also a pair that exists at
one instant.

**ClientNet** is the inside of one client: program counters `main`, `ct`
(connection thread, which also runs all handlers) and `st` (sender), the two
atomic flags, the mutex, the length of the queue, the state of the connection and
whether `sending_thread` is joinable. One action is one access to what is shared.
`cv.wait` is split where it matters: the predicate is evaluated (`wait`), and only
then does the thread release the mutex and sleep (`block`). WebSocket++ appears as
the external actions `Handshake`, `RemoteClose` and `Terminate`; a connection's
state changes first and the handler runs later on the connection thread, which is
how the library behaves. Joining a thread that another thread is joining, or has
just joined, is undefined in C++: both calls may return (`close_joining`,
`on_close_joining`) or the process ends (`join_fails`). The read of
`connection_ptr` in `close()` races with its assignment; apart from the null
pointer, which is in the model, the old and the new pointer lead to the same step
because the old connection is closed and the new one not yet open.

**WorldSync** is two clients of one room exchanging their axes: `Object`'s counter
and set of used numbers, `World::objects` (axes only), updates as sets of axes,
and `apply_info` as a loop in steps (`exist`, `find_if`, `construct`, `create`) so
that the main thread can throw in between. `Object::counter` is a plain integer
that both threads increment: `Throw` and `construct` read it, `Thrown` and
`create` write it back, and either increment may be lost. Only one throw can fall
within one increment of the other thread, since the backpack's cooldown is 0.3 s (`canUseActive`).
That is an assumption about time, which nothing in the code enforces: it would fail
if the connection thread were held up for 0.3 s between the two halves of a
`counter++`. It is a conjunct of its own, `CooldownOutlasts`, and `OwnNumbersFresh`
and `NumbersInHand` rest on it. A mirrored axe takes a number of its own in `Object()`, which
stays used, and is then renumbered by `setID`. An axe is
identified by thrower and number; `seen` is a history variable. The order in which
the list of an update is visited is left open. `World::objects` is a vector that
nothing guards: an axe that the connection thread appends may be lost, since the
main thread may be erasing, and so may one that is thrown while the connection
thread appends its own (`append`).

**TileMap** is the constructor of class `TileMap`: the layers of a map file, read
from the last to the first, become the list of obstacles.

**Players** has the operators of class `Player` and of `World::move`: what a key,
a tick, a hit and a death make of a player. Coordinates are whole numbers of a
unit that each configuration chooses, such that the sizes of tiles (16 pixels),
players (28 by 32) and steps (16) are whole. The force of a hit is multiplied by
0.6 in every tick; its value, which only matters as a distance, is rounded toward
zero. The code also compares it with zero exactly, and a float that is multiplied
by 0.6 never gets there. So a player has a field `pushed`, set by a hit and
cleared by a death only, and `AtRestX` is the exact comparison: from a survived
hit to its next death a player without a key is not at rest for `World::move`,
which rewrites its place. `World_move` is the loop over the
obstacles in closed form: along each axis the first obstacle in the way counts,
after it those that touch the place where the player is, and the loop ends when
the hits of both axes together are `Enough`.

**Screens** has the screens, of which one is active, and the button of the menu.
The button grows by a step in every 0.05 s with the mouse over it and shrinks
without it; where the mouse is, is known only by the least size at which the
button reaches it. A mouse that lies within the grown button and outside of the
small one could make it flicker.

**Arena** is the main thread of one client: the screens, the keys that are down,
the player. Axes may touch the player in any update, from either side.

**Combat** extends Arena with what is in the world: the enemy, the axes, the
backpack. `Fight` is `World::update`: both players, then the axes in the order of
the list (`Weapon_update` for the hits, `fly` for the rest), then the moves.
An axe keeps its place, direction and number of turns by 45 degrees, on which its
bounds depend; `own` and `from` are history. Time is counted in updates:
`Threshold` of them make 0.1 s and `Cooldown` 0.3 s. A player's bounds are those
of the whole picture until the first tick (`framed`). `Weapon::ellapsed_time`, not
initialised, is zero, past the threshold, or such that it never gets there. An
axe out of reach becomes `Away`, a place holder in the list. What the connection
thread brings comes at once here (`apply_info`, `mirror`, `connect_room`); Replica
and WorldSync are about how it interleaves. A mirrored axe flies the way the update
says, which need not be the way the enemy faces after a change of rooms. `mirror` adds `Origin` to the place of
the axe a second time, as the code does: the sender reports the centre of the
axe, `ThrowingWeapon`'s constructor takes it for the corner, and the opponent
sees the axe 6.5 pixels to the right and 8 below.

**Replica** is a player and its image, `World::enemy`, in the other client. The
player's client is a sequence of whole updates; in the image's client each access
to position, moves or health is a step, so that `apply_info` can come between any
two of them. `local` is what the main thread has read and not yet used.

**RoomServerProofs**, **SessionProofs**, **ClientNetProofs**, **WorldSyncProofs**,
**CombatProofs** (Arena and Combat) and **ReplicaProofs** hold the theorems;
**FoldProofs** and **PlayersProofs** what they share: folds over sequences of any
length, and lemmas about the operators of Players.
Definitions whose names start with `Mut` or `mut_` are deliberate slips: replacing
the definition after them by the slip breaks the property it is meant to test.

## The runs

| run | module, configuration | instance | shows |
|---|---|---|---|
| `server` | MCRoomServer, RoomServer.cfg | 5 sockets, one of them the probe, 2 instants | `TypeOK`, `WaitingIsLast`, `RoomsPairNeighbours`, `ScanSeesThePair`, `StaysUp` |
| `session` | MCSession, SessionSpaced.cfg | 3 clients, 4 connections | `SessionTypeOK`, `HearsOpponentOnly`, `FacingOpposed`, `ForwardedOnce` |
| `session_live` | MCSession, SessionLive.cfg | 2 clients, 3 connections | `UpdatesFlow`, `ImplementsMatchmaking` |
| `ghost_partner` | MCSession, SessionGhost.cfg | 2 clients | `RoomsSeatTheConnected` fails |
| `client_threads` | ClientNet, ClientNet.cfg | 3 connections, queue of 3 | `NetTypeOK`, `SenderOwnsConnection`, `RunsUntilClose`, `EndsClean`, `SleepsOnEmptyQueue`, `NoOtherHang`, `QueueDrains`, `ShutdownEnds` |
| `lost_wakeup` | ClientNet, ClientNetReconnect.cfg | 1 connection | `Reconnects` fails |
| `axes` | MCWorldSync, WorldSync.cfg | one player throws 2 axes, the other 1; 1 update each way | `WorldTypeOK`, `MirroredOnce`, `OwnNumbersFresh`, `NumbersInHand`, `Provenance`, `EveryAxeAnswered` |
| `axes_lost` | MCWorldSync, WorldSyncLost.cfg | one axe each | `SkipsOnlyWhatItShowed` fails |
| `arena` | MCArena, Arena.cfg | a basin of 5 by 4 tiles, 3 keys, 1 axe per update, 2 lives' worth of hits | `ArenaTypeOK`, `WalksOnHeldKeys`, `SlidesFromFreePlaces`, `RestartsInTheMiddle`, `StepsBack`, `ButtonSettles` |
| `arena_stuck` | MCArena, ArenaStuck.cfg | a piece of `maps/default`, 4 keys, hits that take half the health | `CanMove` fails |
| `combat` | MCCombat, Combat.cfg | a corridor of 5 free tiles, 1 key, 2 axes, 2 hits to a life | `CombatTypeOK`, `OwnAxeAhead`, `FramedBeforeThrow`, `HitsAreCounted`, `ImplementsArena` |
| `replica` | MCReplica, Replica.cfg | a corridor, 1 key, 2 key events or hits, 1 update under way | `ReplicaTypeOK`, `ImageAlive`, `SettledStays`, `ImageSettles` |

The passing runs say:

- `confirm_room` is right although its search for a partner has no effect (the
  inner `j` shadows the outer one): at most the last client ever waits, so the
  next index is the right one. Five sockets give two rooms and a waiting client.
- no combination of room and client ids makes `find` fail, so only text that is
  not JSON can end the process (`StaysUp`; the probe of `server/client.js` does).
- with connections a millisecond apart nobody hears a stranger, a former opponent
  or itself, in spite of stale ids and half-open sockets; and an update that the
  server takes off an open link goes to one socket, once. Four connections are
  the least with two rooms, one of them formed by a client that comes back while
  its former opponent is still sending.
- the sender never outlives its connection, and nothing ends the client before
  `close()`. `ShutdownEnds` says exactly when `close()` may hang: a connection
  that opened after `close()` looked at it, or a sender that missed both
  notifications. Neither exception can be dropped. `NoOtherHang` says it of the
  states: unless one of the two has happened, some thread is not waiting for
  another. A sender that sleeps, or is about to, has an empty queue.
- an axe is created at most once per world. Two axes against one are enough for
  colliding numbers, drifting counters, the race between `exist` and `create` and
  lost increments; larger instances are covered by the proofs.
- `World::move` does what it is for, `Slide`, from every place that touches no
  obstacle, with every pair of keys and every force. A diagonal step or a hit can put the player on an obstacle (the run
  reaches such places). One step from a free place is never fatal, some key leads
  off the obstacle again (`StepsBack`). On the coast of the shipped map a second
  one can close the player in, see `arena_stuck`.
- a mouse at rest leaves the button large or small for good, on whichever ring of
  it the mouse lies.
- with real axes the player does what Arena says (`ImplementsArena`), so what
  `arena` shows of hits at any time holds of thrown ones. An update takes as much
  health as the axes that are gone were worth, although players die and are moved
  in the middle of it. An own axe never touches a thrower who stands still or
  backs away, even if it hangs in the air; it may touch one who runs after it,
  since an axe thrown to the left starts 8.5 pixels away from its thrower, its
  bounds grow by 7.5 pixels on either side as it turns, and both move 16 pixels
  at a time. Sizes are the real ones in half pixels, as are the ratio of cooldown
  to threshold and the damage; two hits kill, instead of five.
- the image of a player recovers from everything the other client does to it
  (`ImageSettles`). It agrees with a player who stands still for good, unless
  `World::move` keeps rewriting its place, which goes for an image that was hit and
  has not died since, as its force never becomes exactly zero; and for a player who
  keeps walking into an obstacle. Each update may then fall between the two halves
  of a `World::move` and be undone; such images agree again and again. Once the two agree, with nothing different under way, only a key or a hit
  makes them differ again (`SettledStays`), whether or not `World::move` writes.
  Two hits kill an image, which takes all of `takeDamage` and `die`.

The failing runs are disagreements with what `README.md` of the repository says,
listed as findings in PROJECT.json: rooms with a player who has left; a client
that never reconnects because its sender missed a notification; axes that the
opponent never sees; a player stuck in a coast. The last takes one hit and a few
steps on foot; `FullHealth` is lowered there only to keep the search small, and
nobody dies on the way.

`session` and `session_live` are stated for connections a
millisecond apart, because `uid()` is the clock: two clients with the same id are
not told apart by `on_message`, and the properties about routing are then false.
`server` has no such assumption: its two instants make clients share an id.

**Bounds.** `MaxTime`, `MaxInbox`, `MaxOpen`, `MaxBuffer`, `MaxId`, `MaxNet`,
`MaxHits`, `MaxAxes`, `MaxInputs`, `MaxLink`, the finite sets of sockets, and in
Combat the places in updates (`Reports`, `Sighted`) and the places across from
which an axe may still touch somebody (`Reach`). They limit counters and queues and appear in guards.
In Session the clock advances only when the present instant has been used as an
id and somebody is about to connect; ids are compared for equality only, so other
instants cannot be told apart. Client steps wait for the end of `confirm_room`,
with which they commute. `ClientNet` bounds the connections the server accepts,
not the attempts.

**Deadlock** is checked in `replica` only: a bounded instance ends when its sockets are used
up, a client ends when it is closed, and the hangs of ClientNet are the subject
of its liveness properties.

**Symmetry** is used for sockets other than the probe and for clients `b` and
`c`; never with liveness.

**Fairness.** Session: the server's loop, the connection and sender threads and
delivery are weakly fair; dialling, breaking a link and new arrivals are not.
ClientNet: each thread is weakly fair; a handshake and a closing handshake end,
both having timers in WebSocket++; the server closing, the user closing the
window, sending, and spurious wake-ups are not fair. WorldSync: the 0.2 s timer,
the connection thread and the end of a throw are weakly fair; throws and hits are
not. Replica: both clients' updates, sending and the connection thread are weakly
fair, and updates that are ticks keep coming (strong fairness of
`image_update(TRUE)`, the timer of 0.1 s); keys and hits are not. Arena: the
frames of the menu are weakly fair, since `App::loop` goes on; the mouse is not.

## The proofs

Checked by TLAPS for every value of the constants under the named assumptions of
the modules. Every invariant, every action property and every refinement that a
passing run checks is proved.

**Assumptions.** `ServerAssumption`, `NetAssumption`, `WorldAssumption`,
`SessionAssumption`, `MapAssumption`, `PlayersAssumption`, `ArenaAssumption`,
`CombatAssumption` and `ReplicaAssumption` give constants their types and signs.
`ProportionsAssumption` of Combat compares the numbers in the code: a frame of 0.1
s is not longer than the cooldown of 0.3 s; an axe reaches at most 27 pixels (20.5
+ 6.5, less than the 28 of a player's width) from where it is put; a hit of 20
divides a health of 100. Its fourth part, `MaxAxes <= MaxHits`, is about bounds of
the two models only. Matchmaking and Session are proved for connections a
millisecond apart (`SpacedSpec`, `SpacedSessionSpec`), like their runs.

- **RoomServerProofs.** `TypeCorrect`, `PairsNeighbours`, `OnePassSuffices`,
  `OnlyLastWaits`, `ServerStaysUp`. The inductive invariant is `TypeOK`,
  `RoomsPairNeighbours` and `ScanSeesThePair` together: in the middle of
  `confirm_room` the pairing alone does not say that only one pair is missing and
  that the loop is still before it. `ServerStaysUp` follows because the members of
  rooms are ids of clients, which are never removed. `ServerMatches` is the
  refinement of Matchmaking. Its mapping goes through ids: the players of a match
  are those whose ids a room names. So it needs `Identified` as well: no id in the
  array belongs to two clients, and none is later than the clock. Then a
  connection is an arrival, the iteration of `confirm_room` that makes a room is a
  match, and all else is a stutter.
- **SessionProofs.** `SessionTypeCorrect`, `OnlyOpponentsHeard`,
  `FacingIsOpposed`, `UpdatesForwardedOnce`, `SessionMatches`, from `SessionInv`. What makes it hard is
  that a client keeps its ids across connections and everything may be late.
  `Standing` says what ids a client can have: an id of one of its own connections,
  and a room in which that connection *or an earlier one of its own* has a seat,
  facing as that seat does; `Written` says the same of every update under way to
  the server. So the server, which takes the sender for the left player only if
  the id is that of the left, and for the right one otherwise, may mistake a
  client that came back for its opponent, and send its update to its own old
  socket. `Mail` allows for just that: an update on a socket is from across its
  room, or from the same client and then on a socket it has given up, which it no
  longer reads. For `Standing` to survive the arrival of `set_room`, `set_id` of
  the same connection must have been handled before (`Fresh`) and nothing may
  remain of a dead connection (`Silent`); for ids to name one room, a room must
  have the id of the client who completed it (`RoomIds`); the clock of Session
  stands still during `confirm_room`. If it advanced, ids of rooms would still
  differ, since two more connections, a millisecond apart, come before the next
  room. `UpdatesForwardedOnce` rests on the same: `on_message` forwards for every
  room with the id in the update, and there is one; the addressee is found by its
  id, and there is one. Whose socket it is follows from `Written`.
- **ClientNetProofs.** `NetTypeCorrect`, `SenderKeepsItsConnection`,
  `NoCrashWhileRunning`, `CloseEndsClean`, all from `JoinDiscipline`: the thread
  object is joined wherever the connection thread is not inside an established
  connection, so an unjoined sender belongs to the present connection; and both
  threads can be joining only once `is_running` is false. `SleepersMissNoMessage`
  and `HangsAsKnown` add `WaitDiscipline`. `send` pushes with the mutex, which the
  sender holds from the test of its predicate until it sleeps, so the queue stays
  empty in between; the flags are changed without it, and that is why the second
  theorem has its two exceptions.
- **WorldSyncProofs.** `WorldTypeCorrect`, `MirrorsOnce`, `UpdatesAreTrue`,
  `OwnNumbersStayFresh`, `LostIncrementsDoNoHarm`, from `Mirroring`: every axe
  that is listed, under way or being visited has been in its thrower's world, and
  what has been in a world has a used number there (`Provenance`). An axe that
  passes the test of its number is therefore the peer's and has not been here; a
  throw in between makes an axe of the other owner. That its number is new needs
  `NumbersInHand`: a counter value that is written back late may undo an
  increment, but never below a number in use.
- **FoldProofs.** The models say "each axe of the list in turn" with `FoldLeft`.
  The lemmas here are helpers of the other proofs: `FoldChain` (a fold is the last
  of a chain of values, one per element), `FoldStays` and `FoldAppend`, for every
  length. The induction is by a
  least counterexample: the set of good lengths takes the place of the predicate
  over which induction theorems quantify. The operation is a constant of the
  module, which others instantiate.
- **PlayersProofs.** What hits, deaths, ticks, releases and `World::move` make of
  a player: types, remainders of the health by the damage, the first key removed
  from a list without doubles, `SlideAlong`, the loop over the obstacles from
  a place that touches none, and `DiagonalStep`: a step from such a place onto an
  obstacle was diagonal, its horizontal half alone leads to a place that touches
  none, and so the vertical half can be undone.
- **CombatProofs**, Arena. `ArenaTypeCorrect`, `StopsWithoutKeys`,
  `SlidesOnEveryMap`, `StepsCanBeUndone`, `DiesIntoTheMiddle`, from `ArenaInv`:
  the moves are keys
  that are down, each once, and there are none in the menu. Without the last part
  the second is not inductive, as the menu ignores a release. `SlidesOnEveryMap`
  is about the operator: from a free place there is at most one hit for each axis,
  since a step that was undone leaves the player at that place again; so the two
  hits that end the loop are one on each axis, and nothing is left to be found.
  `StepsCanBeUndone` supposes that the places of `start_game` and of `die` are
  free, since a map that puts a player on an obstacle has decided otherwise.
- **CombatProofs**, Combat. `CombatTypeCorrect`, `ShownBeforeThrowing`,
  `ThrownClear`, `EveryHitCounts`, `CombatIsArena`, from `ArenaInv` and
  `CombatInv`. `CombatInv` adds that an own axe is at least as far ahead of
  where its thrower stood as when it was thrown (`Ahead`), that own axes exist only once a
  frame is shown, and that before the first frame the slot has rested no longer
  than the animation has run (`Timing`): the hand of an axe thrown earlier would
  be measured on the whole sheet. The last two are about a loop over any number of
  axes: `After` says of a world after *n* of them that the player has been struck
  by some of the axes that are gone and that the health lost by both is their
  damage, up to whole lives; `FoldChain` carries it through the list.
  `CombatKeepsArena` draws the conclusion: what is proved of Arena holds of Combat.
- **ReplicaProofs.** `ReplicaTypeCorrect`, `ImageStaysAlive`, from `ReplicaInv`:
  the health that `takeDamage` has read and reduced is one to live with or at most
  zero (`Outcome`), and the image is without health only between the write and the
  revival. `SettledImageStays` shows that `Settled` is left by no step but a key or
  a hit: `update` computes the velocity anew, so one left over from before does
  not matter, every update says what the image is already, and the place that
  `World::move` has read, which `Settled` includes, is the one it is in. That the image gets
  there is the part of `ImageSettles` that needs fairness.

Not proved:

- everything under fairness, which TLC checks: `UpdatesFlow`, `QueueDrains`, `ShutdownEnds`,
  `EveryAxeAnswered`, `ImageSettles`, `ButtonSettles`; the prover has no rules for
  fairness and `ENABLED` (Screens has no parameters, so that TLC's check of
  `ButtonSettles` covers every menu);
- that a player comes off obstacles after *any* number of steps, which depends on
  the map and is false of the one that the game ships with (`CanMove`): the
  theorem for all maps is about one step, `StepsCanBeUndone`;
- the four properties that fail: a counterexample needs no proof.

## Not modelled

- Rendering and textures. Of the animation (`Frame`) only the size of what is
  shown matters to the rest, and it is the same for all frames after the first
  tick.
- Reading map files, TLS setup, logging, the libraries.
- What nothing calls: `Client::connect`, `Client::run`, `running_thread_handler`,
  `World::throwWeapon`, `World::destroy`, `check_collision`, `resolveCollision`,
  `Sprite::update_moving`, `TileMap::collide`.
- Data races inside containers other than the loss of an append to
  `World::objects`: `Object::existed_id` and `Player::moves` are taken as accessed
  atomically, and an iteration over a vector that has been reallocated meanwhile,
  which may end the process, as one that goes on.
- The growth of `clients`, `rooms` and of the list of axes that missed.
- What a queued message says. `Client::buffer` survives a connection, so an update
  queued before a loss is sent with the ids of the next one; ClientNet counts
  messages only, and Session queues and writes an update in one step.

## Plan

Done: Matchmaking, RoomServer, Session, ClientNet, WorldSync, TileMap, Screens,
Players, Arena, Combat, Replica and the proofs above. What would add most, if the
code changes or the development is taken further:

1. a condition on the map under which `LeavesObstacles` is an invariant, proved
   sufficient and checked on the basin; `StepsBack` is the first step to it;
2. Session with connections in the same millisecond, once `uid()` no longer
   repeats, in place of the assumption that they are apart;
3. the growth of `clients` and `rooms`, once `on_close` removes anything.
