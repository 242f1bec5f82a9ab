------------------------------- MODULE Combat -------------------------------
(***************************************************************************)
(* The main thread of one client with the axes in its world: Weapon,       *)
(* ThrowingWeapon and Backpack, World::update_all and what apply_info puts *)
(* into the world, client/src/game.cpp.  Arena lets axes hit the player at *)
(* any time; here they are thrown, fly and hit what they touch.  How       *)
(* apply_info interleaves with the main thread is the subject of Replica   *)
(* and WorldSync; here an update of the enemy or an axe arrives at once.   *)
(*                                                                         *)
(* Time is counted in frames, calls of World::update.  The sizes of an axe *)
(* are half of those of its bounds, which change as it turns by 45 degrees.*)
(***************************************************************************)
EXTENDS Arena

CONSTANTS
  EnemyStart,     \* where World::start_game puts the enemy
  Reports,        \* what updates say of the enemy
  Sighted,        \* places of the enemy's axes in updates
  Origin,         \* half the size of an axe's picture
  HalfX, HalfY,   \* half the bounds of an axe, after 0 to 3 turns
  Sheet,          \* side of the picture with all the frames of a player
  Threshold,      \* ANIMATION_THRESHOLD, in frames
  Cooldown,       \* ThrowingWeapon::cooldown, in frames
  Reach,          \* places across, from which an axe may touch a player
  MaxAxes         \* bound on the axes of a behaviour

ASSUME CombatAssumption ==
  /\ EnemyStart \in Point /\ Origin \in Point
  /\ Reports \subseteq [pos : Point, moves : Seq(Keys), health : Alive]
  /\ Sighted \subseteq Point
  /\ HalfX \in [0..3 -> Nat] /\ HalfY \in [0..3 -> Nat]
  /\ Reach \subseteq Int
  /\ {Sheet, Threshold, Cooldown, MaxAxes} \subseteq Nat \ {0}

(* How the numbers in the code compare: frames of 0.1 s and a cooldown of  *)
(* 0.3 s; an axe that reaches at most 27 pixels from where it is put, in a *)
(* hand 28 away; five hits of 20 for a health of 100.  Arena's bound on    *)
(* the hits of an update allows for all the axes here.                     *)
ASSUME ProportionsAssumption ==
  /\ Threshold <= Cooldown
  /\ Origin.x >= 0 /\ \A turn \in 0..3 : HalfX[turn] + Origin.x <= Width
  /\ FullHealth % Damage = 0
  /\ MaxAxes <= MaxHits

VARIABLES
  enemy,    \* World::enemy
  axes,     \* the axes in World::objects, in the order of the list
  clock,    \* World::ellapsed_time, and that of the players' animation
  rest,     \* ellapsed_time of the backpack's slot, up to Cooldown
  facing,   \* the player's default facing direction
  framed,   \* the players show one frame, and no longer the whole sheet
  made      \* the axes so far

worldVars == <<enemy, axes, clock, rest, facing, framed, made>>
combatVars == <<arenaVars, worldVars>>

Never == -1

(* from is where the thrower stood; an axe of the enemy has own = FALSE.   *)
Axe == [pos : Point, dir : {-1, 1}, turn : 0..3, clock : Never..Threshold,
        own : BOOLEAN, from : Int]

CombatTypeOK ==
  /\ enemy.pos \in Point /\ enemy.health \in Alive
  /\ axes \in Seq(Axe) /\ Len(axes) <= made /\ made <= MaxAxes
  /\ clock \in 0..(Threshold - 1)
  /\ rest \in 0..Cooldown
  /\ facing \in {-1, 1}
  /\ framed \in BOOLEAN

(* World::World; Backpack::append starts the cooldown.                     *)
CombatInit ==
  /\ ArenaInit
  /\ enemy = Body(Start)
  /\ axes = <<>>
  /\ clock = 0
  /\ rest = 0
  /\ facing = 1
  /\ framed = FALSE
  /\ made = 0

-----------------------------------------------------------------------------
(* Axes.                                                                   *)

(* Weapon::ellapsed_time is not initialised: it may be zero, so large that *)
(* the axe moves at once, or such that it never does.                      *)
Garbage == {0, Threshold, Never}

(* ThrowingWeapon::generate.                                               *)
generate(place, dir, own, from, garbage) ==
  [pos |-> [x |-> place.x + Origin.x, y |-> place.y + Origin.y],
   dir |-> dir, turn |-> 0, clock |-> garbage, own |-> own, from |-> from]

(* World::append.                                                          *)
append(axe) ==
  /\ made < MaxAxes
  /\ axes' = Append(axes, axe)
  /\ made' = made + 1

(* An axe out of reach flies on for ever, and is not followed.             *)
Away == [pos |-> [x |-> 0, y |-> 0], dir |-> 1, turn |-> 0, clock |-> Never,
         own |-> FALSE, from |-> 0]

(* Sprite::getGlobalBounds and that of an axe.                             *)
SpanX(shown) == IF shown THEN Width ELSE Sheet
SpanY(shown) == IF shown THEN Height ELSE Sheet

Touches(p, axe, shown) ==
  /\ axe # Away
  /\ axe.pos.x - HalfX[axe.turn] < p.pos.x + SpanX(shown)
  /\ axe.pos.x + HalfX[axe.turn] > p.pos.x
  /\ axe.pos.y - HalfY[axe.turn] < p.pos.y + SpanY(shown)
  /\ axe.pos.y + HalfY[axe.turn] > p.pos.y

(* A slip: the loop goes on after a hit.                                   *)
mut_hits_both(w, axe) ==
  LET hitP == Touches(w.player, axe, w.framed)
      hitE == Touches(w.enemy, axe, w.framed)
  IN [w EXCEPT !.player = IF hitP THEN takeDamage(@, axe.dir) ELSE @,
               !.enemy = IF hitE THEN takeDamage(@, axe.dir) ELSE @,
               !.axes = IF hitP \/ hitE THEN @ ELSE Append(@, axe)]

(* Weapon::update: the first player in the list of objects that an axe     *)
(* touches is hurt, and the axe is gone after this update of the world.    *)
Weapon_update(w, axe) ==
  IF Touches(w.player, axe, w.framed) THEN [w EXCEPT !.player = takeDamage(@, axe.dir)]
  ELSE IF Touches(w.enemy, axe, w.framed) THEN [w EXCEPT !.enemy = takeDamage(@, axe.dir)]
  ELSE [w EXCEPT !.axes = Append(@, axe)]

(* ThrowingWeapon::update, once the axe has hit nobody.                    *)
fly(axe) ==
  LET there == axe.pos.x + axe.dir * Speed
  IN IF axe.clock = Never THEN axe
     ELSE IF axe.clock + 1 < Threshold THEN [axe EXCEPT !.clock = @ + 1]
     ELSE IF there \notin Reach THEN Away
     ELSE [axe EXCEPT !.clock = 0, !.pos.x = there, !.turn = (@ + 1) % 4]

-----------------------------------------------------------------------------
(* The main thread.                                                        *)

(* A slip: one width, as if the player and the axe had the same origin.    *)
mut_one_width == IF facing = 1 THEN player.pos.x + SpanX(framed) ELSE player.pos.x

(* Backpack::useActive: the axe starts a width away from the player.       *)
hand ==
  IF facing = 1 THEN player.pos.x + 2 * SpanX(framed) ELSE player.pos.x - SpanX(framed)

(* A slip: the slot has no cooldown until its axe has been used.           *)
MutReady == made = 0 \/ rest >= Cooldown

(* Backpack::canUseActive; its only slot in use has a cooldown.            *)
canUseActive == rest >= Cooldown

(* Backpack::update.                                                       *)
Rested == IF rest < Cooldown THEN rest + 1 ELSE rest

(* The space key.                                                          *)
Throw ==
  /\ InGame
  /\ canUseActive
  /\ \E garbage \in Garbage :
       append(generate([x |-> hand, y |-> player.pos.y], facing, TRUE, player.pos.x, garbage))
  /\ rest' = 0
  /\ UNCHANGED <<arenaVars, enemy, clock, facing, framed>>

(* A slip: the players move before the axes hit them.                      *)
MutMovesFirst ==
  LET moved(p) == World_move(update(p, TRUE))
      after == FoldLeft(Weapon_update,
                        [player |-> moved(player), enemy |-> moved(enemy),
                         axes |-> <<>>, framed |-> TRUE], axes)
  IN /\ InGame
     /\ player' = after.player
     /\ enemy' = after.enemy
     /\ axes' = [i \in DOMAIN after.axes |-> fly(after.axes[i])]
     /\ UNCHANGED <<screensVars, held, clock, rest, facing, framed, made>>

(* World::update: the players, which show their first frame in a tick, the *)
(* axes in turn, and then the moves.                                       *)
Fight ==
  LET tick == clock + 1 >= Threshold
      before == [player |-> update(player, tick), enemy |-> update(enemy, tick),
                 axes |-> <<>>, framed |-> framed \/ tick]
      after == FoldLeft(Weapon_update, before, axes)
      moved(p) == IF tick THEN World_move(p) ELSE p
  IN /\ InGame
     /\ player' = moved(after.player)
     /\ enemy' = moved(after.enemy)
     /\ axes' = [i \in DOMAIN after.axes |-> fly(after.axes[i])]
     /\ clock' = IF tick THEN 0 ELSE clock + 1
     /\ rest' = Rested
     /\ framed' = after.framed
     /\ UNCHANGED <<screensVars, held, facing, made>>

(* World::start_game puts the enemy in its place, too.                     *)
StartGame ==
  /\ start_game
  /\ enemy' = [enemy EXCEPT !.pos = EnemyStart]
  /\ UNCHANGED <<axes, clock, rest, facing, framed, made>>

Inputs ==
  /\ Menu \/ \E key \in Keys : KeyPressed(key) \/ KeyReleased(key)
  /\ UNCHANGED worldVars

-----------------------------------------------------------------------------
(* The connection thread.                                                  *)

apply_info(report) ==
  /\ enemy' = [enemy EXCEPT !.pos = report.pos, !.moves = report.moves,
                            !.health = report.health]
  /\ UNCHANGED <<arenaVars, axes, clock, rest, facing, framed, made>>

(* The place of an axe in an update already has Origin added to it, and    *)
(* generate adds it again.  The axe keeps its direction, whichever way the *)
(* enemy faces by now.                                                     *)
mirror(place, dir) ==
  /\ \E garbage \in Garbage : append(generate(place, dir, FALSE, place.x, garbage))
  /\ UNCHANGED <<arenaVars, enemy, clock, rest, facing, framed>>

(* A room that the client is put in gives it a side.                       *)
connect_room(side) ==
  /\ facing' = side
  /\ UNCHANGED <<arenaVars, enemy, axes, clock, rest, framed, made>>

CombatNext ==
  \/ StartGame
  \/ Inputs
  \/ Throw
  \/ Fight
  \/ \E report \in Reports : apply_info(report)
  \/ \E place \in Sighted, dir \in {-1, 1} : mirror(place, dir)
  \/ \E side \in {-1, 1} : connect_room(side)

CombatSpec == CombatInit /\ [][CombatNext]_combatVars

-----------------------------------------------------------------------------

(* An axe is thrown clear of its thrower, whichever way it faces, however  *)
(* the axe turns and whenever it starts to move: who stands still or backs *)
(* away is not hurt by an own axe.  Who runs after it may be, since the    *)
(* bounds of an axe grow when it turns and both move at the same speed.    *)
OwnAxeAhead ==
  \A i \in DOMAIN axes :
    axes[i].own /\ Touches(player, axes[i], framed) =>
      axes[i].dir * (player.pos.x - axes[i].from) > 0

(* The hand is measured from the bounds of the player, which are those of  *)
(* the whole sheet until the first frame is shown.  The first cooldown     *)
(* lasts longer.                                                           *)
FramedBeforeThrow == InGame /\ canUseActive => framed

(* Each axe hurts one player once: an update takes from the two of them    *)
(* what the axes that are gone were worth, deaths giving all health back.  *)
HitsAreCounted ==
  [][clock' # clock =>
       (player.health - player'.health + enemy.health - enemy'.health) % FullHealth
         = (Damage * (Len(axes) - Len(axes'))) % FullHealth]_combatVars

(* What Arena says of hits that come at any time holds of these.           *)
ImplementsArena == ArenaSpec

=============================================================================
