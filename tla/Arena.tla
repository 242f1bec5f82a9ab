------------------------------- MODULE Arena -------------------------------
(***************************************************************************)
(* The player of one client: client/src/app.cpp (App::loop and the events  *)
(* it hands to the active screen), screen_manager.cpp, menu.cpp and, in    *)
(* game.cpp, GameScreen, World::handle_keyboard_event and World::update.   *)
(* All of it runs on the main thread, one event or one update at a time.   *)
(*                                                                         *)
(* The timers of the animation and of World::update add up the same times  *)
(* from the same start and have the same threshold: they fire together, in *)
(* the updates called ticks.                                               *)
(***************************************************************************)
EXTENDS Players, Screens

CONSTANTS
  Start,    \* where World::start_game puts the player
  MaxHits   \* bound on the axes that touch the player in one update

ASSUME ArenaAssumption == Start \in Point /\ MaxHits \in Nat

VARIABLES
  held,     \* the movement keys that are down
  player    \* World::player

arenaVars == <<screensVars, held, player>>

Distinct(s) == \A i, j \in DOMAIN s : s[i] = s[j] => i = j

ArenaTypeOK ==
  /\ ScreensTypeOK
  /\ held \in SUBSET Keys
  /\ player.pos \in Point
  /\ player.moves \in Seq(Keys) /\ Distinct(player.moves)
  /\ player.velocity \in [x : {-Speed, 0, Speed}, y : {-Speed, 0, Speed}]
  /\ player.force \in -Speed..Speed /\ player.pushed \in BOOLEAN
  /\ player.health \in Alive

ArenaInit ==
  /\ ScreensInit
  /\ held = {}
  /\ player = Body(Start)

-----------------------------------------------------------------------------

(* World::start_game, with its default argument.                           *)
World_start_game(p) == [p EXCEPT !.pos = Start]

(* App::start_game.                                                        *)
start_game == Click /\ player' = World_start_game(player) /\ UNCHANGED held

(* The menu, in which nothing else happens; the game ignores the mouse.    *)
Menu ==
  /\ (\E ring \in Ring : MouseMoved(ring)) \/ (\E tick \in BOOLEAN : Menu_frame(tick))
  /\ UNCHANGED <<held, player>>

(* SFML repeats the event while a key is down.  The menu ignores keys.     *)
KeyPressed(key) ==
  /\ held' = held \cup {key}
  /\ player' = IF InGame THEN move(player, key) ELSE player
  /\ UNCHANGED screensVars

KeyReleased(key) ==
  /\ key \in held
  /\ held' = held \ {key}
  /\ player' = IF InGame THEN release(player, key) ELSE player
  /\ UNCHANGED screensVars

World_update(tick, axes) ==
  /\ InGame
  /\ player' = Updated(player, tick, axes)
  /\ UNCHANGED <<screensVars, held>>

Axes == UNION {[1..n -> {-1, 1}] : n \in 0..MaxHits}

ArenaNext ==
  \/ start_game
  \/ Menu
  \/ \E key \in Keys : KeyPressed(key) \/ KeyReleased(key)
  \/ \E tick \in BOOLEAN, axes \in Axes : World_update(tick, axes)

ArenaSpec == ArenaInit /\ [][ArenaNext]_arenaVars

(* App::loop goes on.                                                      *)
FairArenaSpec ==
  ArenaSpec /\ WF_arenaVars(Menu_frame(TRUE) /\ UNCHANGED <<held, player>>)

-----------------------------------------------------------------------------

(* A player only walks while a key is down: no order of presses, releases, *)
(* repeats, deaths and screens leaves a move behind its key.               *)
WalksOnHeldKeys == ToSet(player.moves) \subseteq held

Free(pos) == Touching(pos.x, pos.y) = {}

(* Where keys a and b and a force f would take the player.                 *)
Going(a, b, f) == [player EXCEPT !.velocity = [x |-> a, y |-> b], !.force = f]

Steps == {-Speed, 0, Speed}

(* What World::move is for: along each axis a player goes where the map    *)
(* lets it go, tried from where it stands.                                 *)
Slide(p) ==
  LET there == [x |-> p.pos.x + p.velocity.x + p.force, y |-> p.pos.y + p.velocity.y]
      alongX == [p.pos EXCEPT !.x = there.x]
      alongY == [p.pos EXCEPT !.y = there.y]
  IN [x |-> IF Free(alongX) THEN there.x ELSE p.pos.x,
      y |-> IF Free(alongY) THEN there.y ELSE p.pos.y]

(* From a place that touches no obstacle World::move does what it is for,  *)
(* although it stops looking after two hits.                               *)
SlidesFromFreePlaces ==
  Free(player.pos) =>
    \A a, b \in Steps : \A f \in -Speed..Speed :
      LET p == Going(a, b, f) IN World_move(p).pos = Slide(p)

(* Some keys, or none, take the player to a place that touches no obstacle.*)
LeavesObstacles ==
  \E a, b \in Steps : Free(World_move(Going(a, b, 0)).pos)

(* A diagonal step can end on an obstacle, since only the two straight     *)
(* steps are tried.  Whatever keys, force of a hit or death take a player  *)
(* from a place that touches no obstacle onto one, some key leads off it   *)
(* again: only a second step, from there, can close a player in.           *)
StepsBack ==
  [][(\A pos \in {Start, Centre, player.pos} : Free(pos)) /\ ~Free(player'.pos)
     => LeavesObstacles']_arenaVars

(* A player who dies is back in the middle with nothing of its former      *)
(* movement, even if World::update moves it after the fatal hit.           *)
RestartsInTheMiddle ==
  [][player'.health = FullHealth /\ player.health < FullHealth =>
       player' = Body(Centre)]_arenaVars

(* The forces that the player may feel until its next hit.                 *)
Fading == IF player.force >= 0 THEN 0..player.force ELSE player.force..0

(* A player can move around the map: some keys take it somewhere else, now *)
(* or while the force of the last hit fades.                               *)
CanMove ==
  \E a, b \in Steps : \E f \in Fading :
    World_move(Going(a, b, f)).pos # player.pos

=============================================================================
