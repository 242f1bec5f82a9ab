------------------------------ MODULE Replica ------------------------------
(***************************************************************************)
(* A player and its image in the world of the other client (World::enemy), *)
(* client/src/game.cpp.  The player's client decides where the player is,  *)
(* which keys are down and how healthy it is, and sends that every 0.2 s.  *)
(* The other client moves the image and hits it with its own axes on the   *)
(* main thread, and overwrites it on the connection thread; nothing orders *)
(* the two threads.  Both clients show the game screen.                    *)
(*                                                                         *)
(* One step of a thread of the image's client is one access to what both   *)
(* use: position, moves or health.  The reads of one World::move count as  *)
(* one.                                                                    *)
(***************************************************************************)
EXTENDS Players

CONSTANTS
  Start, ImageStart,  \* the two places of World::start_game
  MaxInputs,          \* bound on key events and hits
  MaxLink             \* bound on the updates under way

ASSUME ReplicaAssumption ==
  {Start, ImageStart} \subseteq Point /\ {MaxInputs, MaxLink} \subseteq Nat

VARIABLES
  player,   \* World::player of the one client
  image,    \* World::enemy of the other
  link,     \* updates under way, oldest first
  data,     \* the update that apply_info is working on
  stage,    \* where apply_info is: "position", "moves" or "health"
  turn,     \* where World::update is, with the image's client
  local,    \* what that thread has read: a health, a flag, a place
  inputs    \* key events and hits so far

replicaVars == <<player, image, link, data, stage, turn, local, inputs>>

Info == [pos : Point, moves : Seq(Keys), health : Alive]

TurnOK ==
  /\ turn \in {"update", "axes", "hurt", "check", "clear", "revive", "place", "move"}
  /\ local.tick \in BOOLEAN
  /\ local.health \in Int
  /\ local.direction \in {-1, 1}
  /\ local.pos \in Point

ReplicaTypeOK ==
  /\ \A p \in {player, image} :
       /\ p.pos \in Point
       /\ p.moves \in Seq(Keys)
       /\ p.velocity \in [x : {-Speed, 0, Speed}, y : {-Speed, 0, Speed}]
       /\ p.force \in -Speed..Speed /\ p.pushed \in BOOLEAN
       /\ p.health \in 0..FullHealth
  /\ link \in Seq(Info) /\ Len(link) <= MaxLink
  /\ data \in Info
  /\ stage \in {"position", "moves", "health"}
  /\ TurnOK
  /\ inputs \in 0..MaxInputs

(* Player::getInfo.                                                        *)
getInfo(p) == [pos |-> p.pos, moves |-> p.moves, health |-> p.health]

NothingRead == [tick |-> FALSE, health |-> 0, direction |-> 1, pos |-> Start]

ReplicaInit ==
  /\ player = Body(Start)
  /\ image = Body(ImageStart)
  /\ link = <<>>
  /\ data = getInfo(player)
  /\ stage = "position"
  /\ turn = "update"
  /\ local = NothingRead
  /\ inputs = 0

Input == inputs < MaxInputs /\ inputs' = inputs + 1

-----------------------------------------------------------------------------
(* The player's client.                                                    *)

atImage == <<image, data, stage, turn, local>>

Key(key) ==
  /\ Input
  /\ player' \in {move(player, key), release(player, key)}
  /\ UNCHANGED <<link, atImage>>

(* Without a hit only the updates that are ticks matter: the others leave  *)
(* nothing but a velocity, which the next one computes anew.               *)
Tick ==
  /\ player' = Updated(player, TRUE, <<>>)
  /\ UNCHANGED <<link, inputs, atImage>>

Struck(tick, direction) ==
  /\ Input
  /\ player' = Updated(player, tick, <<direction>>)
  /\ UNCHANGED <<link, atImage>>

Send ==
  /\ Len(link) < MaxLink
  /\ link' = Append(link, getInfo(player))
  /\ UNCHANGED <<player, inputs, atImage>>

-----------------------------------------------------------------------------
(* The connection thread of the image's client: World::apply_info.         *)

atMain == <<player, turn, local, inputs>>

apply_pos ==
  /\ stage = "position"
  /\ link # <<>>
  /\ data' = Head(link)
  /\ link' = Tail(link)
  /\ image' = [image EXCEPT !.pos = Head(link).pos]
  /\ stage' = "moves"
  /\ UNCHANGED atMain

(* Player::setMoves.                                                       *)
setMoves(p, moves) == [p EXCEPT !.moves = moves]

apply_moves ==
  /\ stage = "moves"
  /\ image' = setMoves(image, data.moves)
  /\ stage' = "health"
  /\ UNCHANGED <<link, data, atMain>>

(* A slip: an update may only lower the health.                            *)
MutOnlyHurts ==
  /\ stage = "health"
  /\ image' = setHealth(image, IF data.health < image.health THEN data.health ELSE image.health)
  /\ stage' = "position"
  /\ UNCHANGED <<link, data, atMain>>

apply_health ==
  /\ stage = "health"
  /\ image' = setHealth(image, data.health)
  /\ stage' = "position"
  /\ UNCHANGED <<link, data, atMain>>

Apply == apply_pos \/ apply_moves \/ apply_health

-----------------------------------------------------------------------------
(* The main thread of the image's client: World::update.  What it has read *)
(* is forgotten when it has been used.                                     *)

elsewhere == <<player, link, data, stage>>

image_update(tick) ==
  /\ turn = "update"
  /\ image' = update(image, tick)
  /\ local' = [local EXCEPT !.tick = tick]
  /\ turn' = "axes"
  /\ UNCHANGED <<inputs, elsewhere>>

(* Player::takeDamage reads the health, ...                                *)
image_struck(direction) ==
  /\ turn = "axes"
  /\ Input
  /\ local' = [local EXCEPT !.health = image.health - Damage, !.direction = direction]
  /\ turn' = "hurt"
  /\ UNCHANGED <<image, elsewhere>>

(* ... writes it with the force, ...                                       *)
image_hurt ==
  /\ turn = "hurt"
  /\ image' = applyForce(setHealth(image, local.health), local.direction)
  /\ local' = [NothingRead EXCEPT !.tick = local.tick]
  /\ turn' = "check"
  /\ UNCHANGED <<inputs, elsewhere>>

(* ... reads it again, ...                                                 *)
image_check ==
  /\ turn = "check"
  /\ turn' = IF image.health <= 0 THEN "clear" ELSE "axes"
  /\ UNCHANGED <<image, local, inputs, elsewhere>>

(* ... and, in Player::die, clears the movement, ...                       *)
image_clear ==
  /\ turn = "clear"
  /\ image' = [image EXCEPT !.moves = <<>>, !.force = 0, !.pushed = FALSE,
                            !.velocity = [x |-> 0, y |-> 0]]
  /\ turn' = "revive"
  /\ UNCHANGED <<local, inputs, elsewhere>>

(* A slip: a dead player keeps the health it has.                          *)
MutStaysDead == image

Revived == setHealth(image, FullHealth)

(* ... the health, ...                                                     *)
image_revive ==
  /\ turn = "revive"
  /\ image' = Revived
  /\ turn' = "place"
  /\ UNCHANGED <<local, inputs, elsewhere>>

(* ... and the position.                                                   *)
image_place ==
  /\ turn = "place"
  /\ image' = [image EXCEPT !.pos = Centre]
  /\ turn' = "axes"
  /\ UNCHANGED <<local, inputs, elsewhere>>

(* World::move reads the bounds ...                                        *)
Moving == local.tick /\ ~(AtRestX(image) /\ image.velocity.y = 0)

image_bounds ==
  /\ turn = "axes"
  /\ local' = IF Moving THEN [local EXCEPT !.pos = World_move(image).pos] ELSE NothingRead
  /\ turn' = IF Moving THEN "move" ELSE "update"
  /\ UNCHANGED <<image, inputs, elsewhere>>

(* ... and sets the position.                                              *)
image_move ==
  /\ turn = "move"
  /\ image' = [image EXCEPT !.pos = local.pos]
  /\ local' = NothingRead
  /\ turn' = "update"
  /\ UNCHANGED <<inputs, elsewhere>>

Shown ==
  \/ \E tick \in BOOLEAN : image_update(tick)
  \/ image_hurt \/ image_check \/ image_clear \/ image_revive \/ image_place
  \/ image_bounds \/ image_move

ReplicaNext ==
  \/ \E key \in Keys : Key(key)
  \/ Tick
  \/ \E tick \in BOOLEAN, direction \in {-1, 1} : Struck(tick, direction)
  \/ \E direction \in {-1, 1} : image_struck(direction)
  \/ Send
  \/ Apply
  \/ Shown

ReplicaSpec == ReplicaInit /\ [][ReplicaNext]_replicaVars

(* Time passes in both clients, updates are sent and arrive.               *)
FairReplicaSpec ==
  /\ ReplicaSpec
  /\ WF_replicaVars(Tick) /\ WF_replicaVars(Send) /\ WF_replicaVars(Apply)
  /\ WF_replicaVars(Shown) /\ SF_replicaVars(image_update(TRUE))

-----------------------------------------------------------------------------

(* Nobody is shown, or told to be, without health: it is zero only while   *)
(* takeDamage is at work on it, whatever apply_health writes meanwhile.    *)
ImageAlive ==
  /\ turn \in {"update", "axes", "hurt", "place", "move"} => image.health \in Alive
  /\ player.health \in Alive

(* Player and image stand still and agree, and so does every update that   *)
(* has not been applied and every place that World::move has read.         *)
Settled ==
  /\ player.moves = <<>> /\ player.force = 0 /\ image.force = 0
  /\ \A info \in ToSet(link) \cup {getInfo(image)} : info = getInfo(player)
  /\ stage # "position" => data = getInfo(player)
  /\ turn \in {"update", "axes", "move"}
  /\ turn = "axes" => image.velocity = [x |-> 0, y |-> 0]
  /\ turn = "move" => local.pos = player.pos

(* From then on only a key or a hit disturbs them: no interleaving of the  *)
(* ticks, the updates and the two threads does, although World::move goes  *)
(* on rewriting the place of an image that was ever hit.                   *)
SettledStays == [][Settled /\ inputs' = inputs => Settled']_replicaVars

(* Once the player stands still the image agrees with it for good, however *)
(* wrong the other client's own hits and moves have made it, unless        *)
(* World::move keeps rewriting its place: an update may then always fall   *)
(* between the two halves of it, which puts the image back.  That goes for *)
(* a player who keeps walking into an obstacle and for an image that was   *)
(* hit and has not died since; these agree again and again.                *)
ImageSettles ==
  /\ <>[](player.moves = <<>> /\ ~image.pushed) => <>[](getInfo(image) = getInfo(player))
  /\ <>[][FALSE]_(getInfo(player)) => []<>(getInfo(image) = getInfo(player))

=============================================================================
