------------------------------ MODULE Screens -------------------------------
(***************************************************************************)
(* The screens of a client and the only button of its menu:                *)
(* client/src/screen_manager.cpp, client/screen.hpp, client/src/menu.cpp.  *)
(*                                                                         *)
(* The button grows under the mouse and shrinks without it, by a step in   *)
(* every 0.05 s, between its first size and two steps more.  It is under   *)
(* the mouse according to its present size, so that the two influence each *)
(* other.  The mouse is therefore known by the least size at which the     *)
(* button reaches it; beyond MaxGrown it is elsewhere.                     *)
(***************************************************************************)
EXTENDS Integers, SequencesExt

VARIABLES
  is_active,  \* Screen::is_active of each screen
  mouse,      \* the size that the button needs to be under the mouse
  button      \* its is_hovered, and by how many steps it has grown

screensVars == <<is_active, mouse, button>>

(* ScreenManager::screens, in the order of App::App.                       *)
screens == <<"game_screen", "menu_screen">>

MaxGrown == 2

Ring == 0..(MaxGrown + 1)

(* get_active ends without a result if no screen is active.                *)
ScreensTypeOK ==
  /\ is_active \in [ToSet(screens) -> BOOLEAN] /\ \E s \in ToSet(screens) : is_active[s]
  /\ mouse \in Ring
  /\ button \in [hovered : BOOLEAN, grown : 0..MaxGrown]

(* ScreenManager::show and setActive: all are hidden, then one is shown.   *)
Only(name) == [s \in ToSet(screens) |-> s = name]

Small == [hovered |-> FALSE, grown |-> 0]

(* Each screen is shown when it is appended, the menu last.                *)
ScreensInit ==
  /\ is_active = Only("menu_screen")
  /\ mouse = MaxGrown + 1
  /\ button = Small

get_active == screens[SelectInSeq(screens, LAMBDA s : is_active[s])]

InGame == get_active = "game_screen"

-----------------------------------------------------------------------------

MouseMoved(ring) ==
  /\ ~InGame
  /\ mouse' = ring
  /\ UNCHANGED <<is_active, button>>

(* The bounds of the button, at a size, contain the mouse.                 *)
contains(grown) == mouse <= grown

(* A slip: the button shrinks under the mouse.                             *)
MutShrinks == IF button.hovered THEN button.grown - 1 ELSE button.grown + 1

Resized == IF button.hovered THEN button.grown + 1 ELSE button.grown - 1

clamp(n) == IF n < 0 THEN 0 ELSE IF n > MaxGrown THEN MaxGrown ELSE n

(* App::update and App::draw while the menu is active: Button::update,     *)
(* then on_hover_event.                                                    *)
Menu_frame(tick) ==
  LET grown == IF tick THEN clamp(Resized) ELSE button.grown
  IN /\ ~InGame
     /\ button' = [hovered |-> contains(grown), grown |-> grown]
     /\ UNCHANGED <<is_active, mouse>>

(* Button::on_mouse_event with the callback of the button.  The menu does  *)
(* not come back, so its state is forgotten.                               *)
Click ==
  /\ ~InGame
  /\ contains(button.grown)
  /\ is_active' = Only("game_screen")
  /\ mouse' = MaxGrown + 1
  /\ button' = Small

(* A mouse at rest does not make the button flicker: it is either under    *)
(* the mouse and large for good, or not and small.                         *)
ButtonSettles ==
  \A r \in Ring :
    <>[](~InGame /\ mouse = r) =>
      \/ <>[](button = [hovered |-> TRUE, grown |-> MaxGrown])
      \/ <>[](button = Small)

=============================================================================
