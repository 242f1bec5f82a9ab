------------------------------ MODULE Players ------------------------------
(***************************************************************************)
(* Class Player and World::move, client/src/game.cpp: what a key, a hit    *)
(* and a move make of a player.  Operators only; Arena uses them for the   *)
(* player of a client, Replica also for its image in the other client.     *)
(*                                                                         *)
(* Coordinates are whole numbers of a unit that a configuration chooses,   *)
(* so that the sizes are whole.  Axes fly horizontally, so a force has one *)
(* component.  Its value is rounded; that the code compares it with zero   *)
(* exactly is the field pushed: after a hit it is never zero again, since  *)
(* a fraction of the smallest float rounds to that float, and before long  *)
(* it is too small to change a position.  is_dead is never set by the code *)
(* and is left out.                                                        *)
(***************************************************************************)
EXTENDS TileMap

CONSTANTS
  Width, Height,  \* of a player
  Speed,          \* of a player and of an axe
  Damage,         \* of an axe
  FullHealth,     \* HealthBar::max_health
  Centre,         \* where die() puts a player
  Keys            \* the movement keys in use

Point == [x : Int, y : Int]
Vertical == {"UP", "DOWN"}
Horizontal == {"LEFT", "RIGHT"}

ASSUME PlayersAssumption ==
  /\ {Width, Height, Speed, Damage, FullHealth} \subseteq Nat \ {0}
  /\ Centre \in Point
  /\ Keys \subseteq Vertical \cup Horizontal

(* The healths a player can have between two updates of a world.           *)
Alive == {h \in 1..FullHealth : (FullHealth - h) % Damage = 0}

(* A player of a world.                                                    *)
Body(place) ==
  [pos |-> place, moves |-> <<>>, velocity |-> [x |-> 0, y |-> 0],
   force |-> 0, pushed |-> FALSE, health |-> FullHealth]

-----------------------------------------------------------------------------
(* Keys.                                                                   *)

(* Player::move; a key that repeats is listed once.                        *)
move(p, key) ==
  IF Contains(p.moves, key) THEN p ELSE [p EXCEPT !.moves = Append(@, key)]

(* A slip: the most recent key is let go, whichever was released.          *)
MutReleaseLast(p, key) ==
  IF Contains(p.moves, key) THEN [p EXCEPT !.moves = Front(@)] ELSE p

(* Player::release.                                                        *)
release(p, key) == [p EXCEPT !.moves = RemoveFirst(@, key)]

-----------------------------------------------------------------------------
(* One turn of a player.                                                   *)

(* The most recent of the keys in K that are down; 0 if there is none.     *)
Latest(p, K) == SelectLastInSeq(p.moves, LAMBDA key : key \in K)

Toward(p, K, positive) ==
  LET i == Latest(p, K)
  IN IF i = 0 THEN 0 ELSE IF p.moves[i] = positive THEN Speed ELSE -Speed

(* utils::interpolate(force, 0, 0.4), rounded toward zero; pushed stays.   *)
interpolate(f) == IF f >= 0 THEN (3 * f) \div 5 ELSE -((3 * (-f)) \div 5)

(* Sprite::update; tick says that the 0.1 s of the animation have passed.  *)
Sprite_update(p, tick) == [p EXCEPT !.force = IF tick THEN interpolate(@) ELSE @]

(* A slip: without a key the velocity stays.                               *)
MutGlides(p, tick) ==
  LET q == Sprite_update(p, tick)
  IN IF p.moves = <<>> THEN q
     ELSE [q EXCEPT !.velocity = [x |-> Toward(p, Horizontal, "RIGHT"),
                                  y |-> Toward(p, Vertical, "DOWN")]]

(* Player::update.                                                         *)
update(p, tick) ==
  [Sprite_update(p, tick) EXCEPT
    !.velocity = [x |-> Toward(p, Horizontal, "RIGHT"),
                  y |-> Toward(p, Vertical, "DOWN")]]

-----------------------------------------------------------------------------
(* Hits.                                                                   *)

(* HealthBar::setHealth.                                                   *)
setHealth(p, h) == [p EXCEPT !.health = IF h <= 0 THEN 0 ELSE h]

(* A slip: forces add up.                                                  *)
MutForcesAdd(p, direction) ==
  [p EXCEPT !.force = @ + direction * Speed, !.pushed = TRUE]

(* Sprite::applyForce, of an axe that flies left (-1) or right (1).        *)
applyForce(p, direction) ==
  [p EXCEPT !.force = direction * Speed, !.pushed = TRUE]

(* A slip: the player keeps going after its death.                         *)
MutDieKeepsGoing(p) ==
  [p EXCEPT !.moves = <<>>, !.force = 0, !.pushed = FALSE, !.health = FullHealth,
            !.pos = Centre]

(* Player::die: the player starts again in the middle of the window.       *)
die(p) == Body(Centre)

(* A slip: nobody dies of exactly enough damage.                           *)
MutSurvivesZero(p, direction) ==
  LET q == applyForce(setHealth(p, p.health - Damage), direction)
  IN IF q.health < 0 THEN die(q) ELSE q

(* Player::takeDamage.                                                     *)
takeDamage(p, direction) ==
  LET q == applyForce(setHealth(p, p.health - Damage), direction)
  IN IF q.health <= 0 THEN die(q) ELSE q

-----------------------------------------------------------------------------
(* Movement.                                                               *)

(* sf::FloatRect::intersects, for a tile and a player at (x, y).           *)
intersects(tile, x, y) ==
  /\ tile.x < x + Width  /\ x < tile.x + Tile
  /\ tile.y < y + Height /\ y < tile.y + Tile

(* The obstacles a player at (x, y) would touch.                           *)
Touching(x, y) ==
  {i \in DOMAIN Obstacles : intersects(Obstacles[i], x, y)}

(* The obstacles that count as hits along one axis: the first one in the   *)
(* way; after it the rectangle is back where the player is, and counts     *)
(* what it touches there.                                                  *)
Hits(there, here) ==
  IF there = {} THEN {} ELSE {Min(there)} \cup {i \in here : i > Min(there)}

(* A slip: one obstacle in the way ends the search.                        *)
MutEnough == 1

(* The number of hits after which World::move looks no further.            *)
Enough == 2

(* velocity.x + force is exactly zero: no force is left, or it and the     *)
(* velocity cancel out.  A velocity absorbs what is left of a force.       *)
AtRestX(p) == p.velocity.x + p.force = 0 /\ (p.velocity.x = 0 => ~p.pushed)

(* World::move.  The two axes are tried separately, from the same place,   *)
(* against the obstacles in turn, until there are enough hits.             *)
World_move(p) ==
  LET vx == p.velocity.x + p.force
      vy == p.velocity.y
      here == Touching(p.pos.x, p.pos.y)
      hitsX == IF AtRestX(p) THEN {} ELSE Hits(Touching(p.pos.x + vx, p.pos.y), here)
      hitsY == IF vy = 0 THEN {} ELSE Hits(Touching(p.pos.x, p.pos.y + vy), here)
      Checked(n) == (IF ~AtRestX(p) /\ vy # 0 THEN 0 ELSE 1)
                    + Cardinality(hitsX \cap 1..n) + Cardinality(hitsY \cap 1..n)
      Blocked(hits) == hits # {} /\ Checked(Min(hits) - 1) < Enough
  IN IF AtRestX(p) /\ vy = 0 THEN p
     ELSE [p EXCEPT !.pos =
             [x |-> IF Blocked(hitsX) THEN p.pos.x ELSE p.pos.x + vx,
              y |-> IF Blocked(hitsY) THEN p.pos.y ELSE p.pos.y + vy]]

(* World::update for the player of a client, with the axes that touch it:  *)
(* it is the first of the objects, the axes come after it, the moves last. *)
Updated(p, tick, axes) ==
  LET q == FoldLeft(takeDamage, update(p, tick), axes)
  IN IF tick THEN World_move(q) ELSE q

=============================================================================
