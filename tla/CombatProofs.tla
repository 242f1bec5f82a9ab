---------------------------- MODULE CombatProofs ----------------------------
(***************************************************************************)
(* Theorems about Arena and Combat, for every map, every size and speed    *)
(* and every number of keys, hits and axes.                                *)
(***************************************************************************)
EXTENDS Combat, PlayersProofs

-----------------------------------------------------------------------------
(* Arena: the inductive invariant.                                         *)

(* The moves of a player are keys that are down, each once.                *)
Driven(p, keys) ==
  /\ p \in Bodies
  /\ Distinct(p.moves)
  /\ ToSet(p.moves) \subseteq keys

(* In the menu, which ignores the keys, the player has no moves: otherwise *)
(* a release that the menu ignores would leave one behind.                 *)
ArenaInv ==
  /\ ScreensTypeOK
  /\ held \in SUBSET Keys
  /\ Driven(player, held)
  /\ ~InGame => player.moves = <<>>

(* The empty list of moves: what a player starts with and is left with by  *)
(* a death.                                                                *)
LEMMA NoMoves == Distinct(<<>>) /\ ToSet(<<>>) = {}
  BY DEF Distinct, ToSet

(* A key that goes down adds its own move and no other.                    *)
LEMMA PressKeeps ==
  ASSUME NEW p, NEW keys, NEW key \in Keys, Driven(p, keys)
  PROVE  Driven(move(p, key), keys \cup {key})
<1>1. p \in Bodies /\ p.moves \in Seq(Keys)
  BY DEF Driven, Bodies, Shape
<1>2. move(p, key) \in Bodies
  BY <1>1, KeyTypes DEF Bodies
<1> DEFINE s == p.moves
           t == Append(s, key)
<1>3. CASE Contains(s, key)
  BY <1>2, <1>3 DEF Driven, move
<1>4. CASE ~ Contains(s, key)
  <2>1. move(p, key).moves = t
    BY <1>1, <1>4 DEF move, Bodies, Shape
  <2>2. /\ Len(s) \in Nat /\ DOMAIN s = 1..Len(s) /\ DOMAIN t = 1..(Len(s) + 1)
        /\ t[Len(s) + 1] = key
        /\ \A i \in 1..Len(s) : t[i] = s[i]
    BY <1>1
  <2>3. \A i \in 1..Len(s) : s[i] # key
    BY <1>4 DEF Contains
  <2> HIDE DEF t, s
  <2>4. Distinct(t)
    <3> SUFFICES ASSUME NEW i \in 1..(Len(s) + 1), NEW j \in 1..(Len(s) + 1), t[i] = t[j]
                 PROVE  i = j
      BY <2>2 DEF Distinct
    <3>1. CASE i \in 1..Len(s) /\ j \in 1..Len(s)
      BY <2>2, <3>1 DEF Driven, Distinct, s
    <3>2. CASE i = Len(s) + 1 \/ j = Len(s) + 1
      BY <2>2, <2>3, <3>2
    <3> QED
      BY <2>2, <3>1, <3>2
  <2>5. ToSet(t) \subseteq keys \cup {key}
    <3> SUFFICES ASSUME NEW i \in 1..(Len(s) + 1)
                 PROVE  t[i] \in keys \cup {key}
      BY <2>2 DEF ToSet
    <3>1. CASE i \in 1..Len(s)
      BY <2>2, <3>1 DEF Driven, ToSet, s
    <3>2. CASE i = Len(s) + 1
      BY <2>2, <3>2
    <3> QED
      BY <2>2, <3>1, <3>2
  <2> QED
    BY <1>2, <2>1, <2>4, <2>5 DEF Driven
<1> QED
  BY <1>3, <1>4

(* Since a key is listed once, erasing its first occurrence erases it.     *)
LEMMA ReleaseKeeps ==
  ASSUME NEW p, NEW keys, NEW key \in Keys, Driven(p, keys)
  PROVE  Driven(release(p, key), keys \ {key})
<1>1. p \in Bodies /\ p.moves \in Seq(Keys)
  BY DEF Driven, Bodies, Shape
<1>2. release(p, key) \in Bodies
  BY <1>1, KeyTypes DEF Bodies
<1> DEFINE s == p.moves
           t == RemoveFirst(s, key)
<1>3. release(p, key).moves = t
  BY <1>1 DEF release, Bodies, Shape
<1>4. CASE ~ Contains(s, key)
  <2>1. t = s
    BY <1>1, <1>4, RemoveFirstIs
  <2>2. ~ (key \in ToSet(s))
    BY <1>1, <1>4 DEF Contains, ToSet
  <2> QED
    BY <1>2, <1>3, <2>1, <2>2 DEF Driven
<1>5. CASE Contains(s, key)
  <2>1. PICK k \in 1..Len(s) : s[k] = key /\ t = RemoveAt(s, k)
    BY <1>1, <1>5, RemoveFirstIs
  <2> DEFINE from(j) == IF j < k THEN j ELSE j + 1
  <2>2. /\ Len(s) \in Nat /\ DOMAIN s = 1..Len(s) /\ DOMAIN t = 1..(Len(s) - 1)
        /\ \A j \in 1..(Len(s) - 1) : t[j] = s[from(j)]
    <3>1. /\ t \in Seq(Keys) /\ Len(t) = Len(s) - 1
          /\ \A j \in 1..(Len(s) - 1) : t[j] = IF j < k THEN s[j] ELSE s[j + 1]
      BY <1>1, <2>1, RemoveAtIs
    <3> QED
      BY <1>1, <3>1
  <2>3. \A j \in 1..(Len(s) - 1) : from(j) \in 1..Len(s) /\ from(j) # k
    BY <2>2
  <2>4. \A i, j \in 1..(Len(s) - 1) : from(i) = from(j) => i = j
    BY <2>2
  <2>5. \A i, j \in 1..Len(s) : s[i] = s[j] => i = j
    BY <2>2 DEF Driven, Distinct
  <2> HIDE DEF t, s, from
  <2>6. Distinct(t)
    BY <2>2, <2>3, <2>4, <2>5 DEF Distinct
  <2>7. ToSet(t) \subseteq keys \ {key}
    <3> SUFFICES ASSUME NEW j \in 1..(Len(s) - 1)
                 PROVE  t[j] \in keys \ {key}
      BY <2>2 DEF ToSet
    <3>1. s[from(j)] \in keys
      BY <2>2, <2>3 DEF Driven, ToSet, s
    <3> QED
      BY <2>1, <2>2, <2>3, <2>5, <3>1
  <2> QED
    BY <1>2, <1>3, <2>6, <2>7 DEF Driven
<1> QED
  BY <1>4, <1>5

(* A World::update takes moves away or leaves them.                        *)
LEMMA UpdateKeeps ==
  ASSUME NEW p, NEW keys, Driven(p, keys), NEW tick \in BOOLEAN,
         NEW hits \in Seq({-1, 1})
  PROVE  Driven(Updated(p, tick, hits), keys)
<1> DEFINE P == {q \in Bodies : Driven(q, keys)}
<1>1. update(p, tick) \in P
  BY updateType DEF Driven, Bodies
<1>2. ASSUME NEW q \in P, NEW d \in {-1, 1}
      PROVE  takeDamage(q, d) \in P
  <2>1. q \in Bodies /\ takeDamage(q, d) \in Bodies
    BY takeDamageType
  <2>2. takeDamage(q, d).moves \in {q.moves, <<>>}
    <3>1. Body(Centre).moves = <<>>
      BY DEF Body
    <3>2. [q EXCEPT !.health = q.health - Damage, !.force = d * Speed,
                    !.pushed = TRUE].moves = q.moves
      BY <2>1 DEF Bodies, Shape
    <3> QED
      BY <2>1, <3>1, <3>2, takeDamageIs
  <2> QED
    BY <2>1, <2>2, NoMoves DEF Driven
<1> DEFINE q == Struck_by(update(p, tick), hits)
<1>3. q \in P
  <2> HIDE DEF P
  <2> QED
    BY <1>1, <1>2, StruckStays
<1> HIDE DEF q
<1>4. World_move(q) \in Bodies /\ World_move(q).moves = q.moves
  BY <1>3, World_moveType DEF Bodies
<1>5. Updated(p, tick, hits) \in {q, World_move(q)}
  BY DEF Updated, Struck_by, q
<1> QED
  BY <1>3, <1>4, <1>5 DEF Driven

(* The axes of an update of Arena come from the left or the right.         *)
LEMMA AxesType == Axes \subseteq Seq({-1, 1})
  BY ArenaAssumption, SeqDef DEF Axes

(* Clicks, mouse events and frames of the menu keep the screens' types.    *)
LEMMA ScreensTypeStep ==
  ASSUME ScreensTypeOK,
         Click \/ (\E ring \in Ring : MouseMoved(ring))
               \/ (\E tick \in BOOLEAN : Menu_frame(tick))
  PROVE  ScreensTypeOK'
<1>1. CASE Click
  BY <1>1 DEF ScreensTypeOK, Click, Only, Small, ToSet, screens, MaxGrown, Ring
<1>2. CASE \E ring \in Ring : MouseMoved(ring)
  BY <1>2 DEF ScreensTypeOK, MouseMoved
<1>3. ASSUME NEW tick \in BOOLEAN, Menu_frame(tick)
      PROVE  ScreensTypeOK'
  BY <1>3 DEF ScreensTypeOK, Menu_frame, clamp, Resized, contains, MaxGrown, Ring
<1> QED
  BY <1>1, <1>2, <1>3

(* The client starts in the menu with no key down.                         *)
LEMMA ArenaInvInit == ArenaInit => ArenaInv
<1> SUFFICES ASSUME ArenaInit PROVE ArenaInv
  OBVIOUS
<1>1. ScreensTypeOK
  <2>1. ToSet(screens) = {"game_screen", "menu_screen"}
    BY DEF ToSet, screens
  <2> QED
    <3>1. /\ is_active = [n \in {"game_screen", "menu_screen"} |-> n = "menu_screen"]
          /\ mouse = 3 /\ button = [hovered |-> FALSE, grown |-> 0]
      BY <2>1 DEF ArenaInit, ScreensInit, Only, Small, MaxGrown
    <3>2. is_active["menu_screen"]
      BY <3>1
    <3> QED
      BY <2>1, <3>1, <3>2 DEF ScreensTypeOK, MaxGrown, Ring
<1>2. player \in Bodies /\ player.moves = <<>>
  BY ArenaAssumption, BodyType DEF ArenaInit, Body
<1> QED
  BY <1>1, <1>2, NoMoves DEF ArenaInv, ArenaInit, Driven

(* Keys, updates and the menu keep the invariant of Arena.                 *)
LEMMA ArenaInvStep == ArenaInv /\ [ArenaNext]_arenaVars => ArenaInv'
<1> SUFFICES ASSUME ArenaInv, [ArenaNext]_arenaVars
             PROVE  ArenaInv'
  OBVIOUS
<1> USE DEF ArenaInv
<1>1. ASSUME UNCHANGED screensVars
      PROVE  ScreensTypeOK' /\ (InGame' <=> InGame)
  <2>1. is_active' = is_active /\ mouse' = mouse /\ button' = button
    BY <1>1 DEF screensVars
  <2>2. ScreensTypeOK'
    BY <2>1 DEF ScreensTypeOK
  <2>3. get_active' = get_active
    BY <2>1 DEF get_active, SelectInSeq
  <2> QED
    BY <2>2, <2>3 DEF InGame
<1>2. CASE start_game
  <2>1. ScreensTypeOK'
    BY <1>2, ScreensTypeStep DEF start_game
  <2>2. ~InGame /\ held' = held /\ player' = [player EXCEPT !.pos = Start]
    BY <1>2 DEF start_game, Click, World_start_game
  <2>3. player' \in Bodies /\ player'.moves = <<>>
    BY <2>2, ArenaAssumption DEF Driven, Bodies, Shape
  <2> QED
    BY <2>1, <2>2, <2>3, NoMoves DEF Driven
<1>3. CASE Menu
  <2>1. ScreensTypeOK'
    BY <1>3, ScreensTypeStep DEF Menu
  <2>2. ~InGame /\ UNCHANGED <<held, player>>
    BY <1>3 DEF Menu, MouseMoved, Menu_frame
  <2> QED
    BY <2>1, <2>2
<1>4. ASSUME NEW key \in Keys, KeyPressed(key)
      PROVE  ArenaInv'
  <2>1. UNCHANGED screensVars /\ held' = held \cup {key}
    BY <1>4 DEF KeyPressed
  <2>2. CASE InGame
    <3>1. player' = move(player, key)
      BY <1>4, <2>2 DEF KeyPressed
    <3>2. Driven(player', held')
      BY <2>1, <3>1, PressKeeps
    <3> QED
      BY <1>1, <2>1, <2>2, <3>2
  <2>3. CASE ~InGame
    <3>1. player' = player
      BY <1>4, <2>3 DEF KeyPressed
    <3> QED
      BY <1>1, <2>1, <2>3, <3>1 DEF Driven
  <2> QED
    BY <2>2, <2>3
<1>5. ASSUME NEW key \in Keys, KeyReleased(key)
      PROVE  ArenaInv'
  <2>1. UNCHANGED screensVars /\ held' = held \ {key}
    BY <1>5 DEF KeyReleased
  <2>2. CASE InGame
    <3>1. player' = release(player, key)
      BY <1>5, <2>2 DEF KeyReleased
    <3>2. Driven(player', held')
      BY <2>1, <3>1, ReleaseKeeps
    <3> QED
      BY <1>1, <2>1, <2>2, <3>2
  <2>3. CASE ~InGame
    <3>1. player' = player
      BY <1>5, <2>3 DEF KeyReleased
    <3> QED
      BY <1>1, <2>1, <2>3, <3>1, NoMoves DEF Driven
  <2> QED
    BY <2>2, <2>3
<1>6. ASSUME NEW tick \in BOOLEAN, NEW hits \in Axes, World_update(tick, hits)
      PROVE  ArenaInv'
  <2>1. /\ InGame /\ UNCHANGED screensVars /\ held' = held
        /\ player' = Updated(player, tick, hits)
    BY <1>6 DEF World_update
  <2>2. Driven(player', held')
    BY <2>1, AxesType, UpdateKeeps
  <2> QED
    BY <1>1, <2>1, <2>2
<1>7. CASE UNCHANGED arenaVars
  BY <1>1, <1>7 DEF arenaVars
<1> QED
  BY <1>2, <1>3, <1>4, <1>5, <1>6, <1>7 DEF ArenaNext

(* The invariant of Arena gives its types.                                 *)
LEMMA ArenaInvTypes == ArenaInv => ArenaTypeOK
  BY DEF ArenaInv, ArenaTypeOK, Driven, Bodies, Shape, Velocities

-----------------------------------------------------------------------------
(* Arena: the theorems.                                                    *)

(* The inductive invariant of the player and its keys.                     *)
THEOREM ArenaInvariant == ArenaSpec => []ArenaInv
  BY ArenaInvInit, ArenaInvStep, PTL DEF ArenaSpec

(* Presses, releases, hits, deaths and moves keep the types of the player: *)
(* in particular no key is listed twice, a force never exceeds the speed   *)
(* of an axe, and the player is alive after every World::update.           *)
THEOREM ArenaTypeCorrect == ArenaSpec => []ArenaTypeOK
  BY ArenaInvariant, ArenaInvTypes, PTL

(* No order of presses, releases, repeats, deaths and screens leaves a     *)
(* move of Player::moves behind a key that is up.                          *)
THEOREM StopsWithoutKeys == ArenaSpec => []WalksOnHeldKeys
<1>1. ArenaInv => WalksOnHeldKeys
  BY DEF ArenaInv, Driven, WalksOnHeldKeys
<1> QED
  BY <1>1, ArenaInvariant, PTL

(* On every map, World::move takes a player who touches no obstacle along  *)
(* each axis just as far as the map lets it, for every pair of keys and    *)
(* every force, although it stops looking after two hits.                  *)
THEOREM SlidesOnEveryMap == ArenaSpec => []SlidesFromFreePlaces
<1>1. ArenaInv => SlidesFromFreePlaces
  <2> SUFFICES ASSUME ArenaInv, Free(player.pos), NEW a \in Steps, NEW b \in Steps,
                      NEW f \in -Speed..Speed
               PROVE  World_move(Going(a, b, f)).pos = Slide(Going(a, b, f))
    BY DEF SlidesFromFreePlaces
  <2> DEFINE p == Going(a, b, f)
  <2>1. /\ p \in Bodies /\ p.pos = player.pos /\ p.force = f
        /\ p.velocity = [x |-> a, y |-> b]
    BY DEF ArenaInv, Driven, Going, Steps, Bodies, Shape, Velocities
  <2> HIDE DEF p
  <2>2. p.pos = [x |-> p.pos.x, y |-> p.pos.y]
    BY <2>1 DEF Bodies, Shape, Point
  <2>3. p.pos \in Point /\ a \in Int /\ f \in Int
    BY <2>1, Constants DEF Bodies, Shape, Steps
  <2>4. Touching(p.pos.x, p.pos.y) = {}
    BY <2>1 DEF Free
  <2> DEFINE vx == p.velocity.x + p.force
             vy == p.velocity.y
  <2>5. World_move(p).pos =
          [x |-> IF Touching(p.pos.x + vx, p.pos.y) = {} THEN p.pos.x + vx ELSE p.pos.x,
           y |-> IF Touching(p.pos.x, p.pos.y + vy) = {} THEN p.pos.y + vy ELSE p.pos.y]
    BY <2>1, <2>4, SlideAlong DEF Bodies
  <2>6. p.pos.x + p.velocity.x + p.force = p.pos.x + vx
    BY <2>1, <2>3 DEF Point
  <2> QED
    BY <2>2, <2>3, <2>5, <2>6 DEF Slide, Free, Point, p
<1> QED
  BY <1>1, ArenaInvariant, PTL

(* Who is at full health was not hit or has just died; and World::move has *)
(* nothing to move then, neither a velocity nor a force.                   *)
LEMMA RestartStep ==
  ArenaInv /\ [ArenaNext]_arenaVars =>
    (player'.health = FullHealth /\ player.health < FullHealth => player' = Body(Centre))
<1> SUFFICES ASSUME ArenaInv, [ArenaNext]_arenaVars,
                    player'.health = FullHealth, player.health < FullHealth
             PROVE  player' = Body(Centre)
  OBVIOUS
<1>0. player \in Bodies /\ player.health # FullHealth
  BY Constants DEF ArenaInv, Driven
<1>1. player' # player
  BY <1>0
<1>2. ASSUME NEW tick \in BOOLEAN, NEW hits \in Axes, World_update(tick, hits)
      PROVE  player' = Body(Centre)
  <2> DEFINE P == {q \in Bodies : q.health = FullHealth => q = Body(Centre)}
             q == Struck_by(update(player, tick), hits)
  <2>1. update(player, tick) \in P
    BY <1>0, updateType DEF Bodies
  <2>2. ASSUME NEW r \in P, NEW d \in {-1, 1}
        PROVE  takeDamage(r, d) \in P
    <3>1. takeDamage(r, d) \in Bodies /\ r \in Bodies /\ r.health \in 1..FullHealth
      BY takeDamageType DEF Bodies, Shape, Alive
    <3>2. CASE r.health <= Damage
      BY <3>1, <3>2, takeDamageIs
    <3>3. CASE ~ (r.health <= Damage)
      <4>1. takeDamage(r, d) = [r EXCEPT !.health = r.health - Damage, !.force = d * Speed,
                                         !.pushed = TRUE]
        BY <3>1, <3>3, takeDamageIs
      <4>2. takeDamage(r, d).health = r.health - Damage
        BY <3>1, <4>1 DEF Bodies, Shape
      <4> QED
        BY <3>1, <4>2, Constants
    <3> QED
      BY <3>2, <3>3
  <2>3. q \in P
    <3> HIDE DEF P
    <3> QED
      BY <2>1, <2>2, AxesType, StruckStays
  <2> HIDE DEF q
  <2>4. player' \in {q, World_move(q)}
    BY <1>2 DEF World_update, Updated, Struck_by, q
  <2>5. q \in Bodies /\ World_move(q).health = q.health
    BY <2>3, World_moveType DEF Bodies
  <2>6. q = Body(Centre)
    BY <2>3, <2>4, <2>5
  <2>7. World_move(q) = q
    BY <2>5, <2>6, World_moveType DEF Body, Bodies
  <2> QED
    BY <2>4, <2>6, <2>7
<1>3. CASE start_game
  <2>1. player'.health = player.health
    BY <1>0, <1>3 DEF start_game, World_start_game, Bodies, Shape
  <2> QED
    BY <1>0, <2>1
<1>4. ASSUME NEW key \in Keys, KeyPressed(key) \/ KeyReleased(key)
      PROVE  FALSE
  <2>1. player' \in {player, move(player, key), release(player, key)}
    BY <1>4 DEF KeyPressed, KeyReleased
  <2>2. move(player, key).health = player.health /\ release(player, key).health = player.health
    BY <1>0 DEF move, release, Bodies, Shape
  <2> QED
    BY <1>0, <2>1, <2>2
<1>5. CASE Menu \/ UNCHANGED arenaVars
  BY <1>1, <1>5 DEF Menu, arenaVars
<1> QED
  BY <1>2, <1>3, <1>4, <1>5 DEF ArenaNext

(* A player who dies in a World::update, after any number of hits in it,   *)
(* ends that update in the middle, at rest and with full health.           *)
THEOREM DiesIntoTheMiddle == ArenaSpec => RestartsInTheMiddle
<1>1. ArenaInv /\ [ArenaNext]_arenaVars =>
        [player'.health = FullHealth /\ player.health < FullHealth =>
           player' = Body(Centre)]_arenaVars
  BY RestartStep
<1> QED
  BY <1>1, ArenaInvariant, PTL DEF ArenaSpec, RestartsInTheMiddle

(* In a World::update the hits leave the player where it is or, dead, in   *)
(* the middle; from there it is moved, in the updates that are ticks.      *)
LEMMA MovedFrom ==
  ASSUME NEW p \in Bodies, NEW tick \in BOOLEAN, NEW hits \in Axes
  PROVE  \E q \in Bodies : /\ q.pos \in {p.pos, Centre}
                           /\ Updated(p, tick, hits) \in {q, World_move(q)}
<1> DEFINE P == {q \in Bodies : q.pos \in {p.pos, Centre}}
           q == Struck_by(update(p, tick), hits)
<1>1. update(p, tick) \in P
  BY updateType DEF Bodies
<1>2. ASSUME NEW r \in P, NEW d \in {-1, 1}
      PROVE  takeDamage(r, d) \in P
  <2>1. takeDamage(r, d) \in Bodies /\ r \in Bodies
    BY takeDamageType
  <2>2. Body(Centre).pos = Centre
    BY DEF Body
  <2>3. [r EXCEPT !.health = r.health - Damage, !.force = d * Speed,
                    !.pushed = TRUE].pos = r.pos
    BY <2>1 DEF Bodies, Shape
  <2> QED
    BY <2>1, <2>2, <2>3, takeDamageIs
<1>3. q \in P
  <2> HIDE DEF P
  <2> QED
    BY <1>1, <1>2, AxesType, StruckStays
<1>4. Updated(p, tick, hits) \in {q, World_move(q)}
  BY DEF Updated, Struck_by
<1> QED
  BY <1>3, <1>4

(* Who steps from a free place onto an obstacle has come diagonally in a   *)
(* World::update, and can undo the vertical half of the step.              *)
LEMMA StepsBackStep ==
  ArenaInv /\ [ArenaNext]_arenaVars =>
    ((\A pos \in {Start, Centre, player.pos} : Free(pos)) /\ ~Free(player'.pos)
       => LeavesObstacles')
<1> SUFFICES ASSUME ArenaInv, [ArenaNext]_arenaVars,
                    Free(Start), Free(Centre), Free(player.pos), ~Free(player'.pos)
             PROVE  LeavesObstacles'
  OBVIOUS
<1>0. player \in Bodies
  BY DEF ArenaInv, Driven
<1>1. player'.pos # player.pos /\ player'.pos # Start
  OBVIOUS
<1>2. ASSUME NEW tick \in BOOLEAN, NEW hits \in Axes, World_update(tick, hits)
      PROVE  LeavesObstacles'
  <2>1. PICK q \in Bodies : q.pos \in {player.pos, Centre} /\ player' \in {q, World_move(q)}
    BY <1>0, <1>2, MovedFrom DEF World_update
  <2>2. Touching(q.pos.x, q.pos.y) = {}
    BY <2>1 DEF Free
  <2>3. player' = World_move(q)
    BY <2>1, <2>2 DEF Free
  <2>4. player' \in Bodies
    BY <2>3, World_moveType DEF Bodies
  <2>5. PICK b \in {-Speed, Speed} : Touching(player'.pos.x, player'.pos.y + b) = {}
    BY <2>2, <2>3, <2>4, DiagonalStep DEF Free, Bodies
  <2> DEFINE p == [player' EXCEPT !.velocity = [x |-> 0, y |-> b], !.force = 0]
  <2>6. /\ p \in Bodies /\ p.pos = player'.pos /\ p.force = 0
        /\ p.velocity.x = 0 /\ p.velocity.y = b
    <3>1. 0 \in -Speed..Speed /\ [x |-> 0, y |-> b] \in Velocities
      BY Constants DEF Velocities
    <3> QED
      BY <2>4, <3>1 DEF Bodies, Shape
  <2> HIDE DEF p
  <2>7. World_move(p).pos = [x |-> player'.pos.x, y |-> player'.pos.y + b]
    BY <2>5, <2>6, StraightStep DEF Bodies
  <2>8. Free(World_move(p).pos)
    BY <2>5, <2>7 DEF Free
  <2>9. 0 \in Steps /\ b \in Steps
    BY DEF Steps
  <2> QED
    BY <2>8, <2>9 DEF p, LeavesObstacles, Going
<1>3. CASE start_game
  <2>1. player'.pos = Start
    BY <1>0, <1>3 DEF start_game, World_start_game, Bodies, Shape
  <2> QED
    BY <1>1, <2>1
<1>4. ASSUME NEW key \in Keys, KeyPressed(key) \/ KeyReleased(key)
      PROVE  FALSE
  <2>1. player' \in {player, move(player, key), release(player, key)}
    BY <1>4 DEF KeyPressed, KeyReleased
  <2>2. move(player, key).pos = player.pos /\ release(player, key).pos = player.pos
    BY <1>0 DEF move, release, Bodies, Shape
  <2> QED
    BY <1>1, <2>1, <2>2
<1>5. CASE Menu \/ UNCHANGED arenaVars
  BY <1>1, <1>5 DEF Menu, arenaVars
<1> QED
  BY <1>2, <1>3, <1>4, <1>5 DEF ArenaNext

(* On every map, one World::update never strands a player: whatever keys,  *)
(* hits and deaths take it from a free place onto an obstacle, some key    *)
(* leads off it again.                                                     *)
THEOREM StepsCanBeUndone == ArenaSpec => StepsBack
<1>1. ArenaInv /\ [ArenaNext]_arenaVars =>
        [(\A pos \in {Start, Centre, player.pos} : Free(pos)) /\ ~Free(player'.pos)
           => LeavesObstacles']_arenaVars
  BY StepsBackStep
<1> QED
  BY <1>1, ArenaInvariant, PTL DEF ArenaSpec, StepsBack

-----------------------------------------------------------------------------
(* Combat: the inductive invariant.                                        *)

(* The axes of one World::update act in turn.                              *)
Turns == INSTANCE FoldProofs WITH Op <- Weapon_update

(* Where an axe is, seen from where its thrower stood, since it was thrown *)
(* out of a hand measured from the bounds of one frame.                    *)
Ahead(axe) ==
  IF axe.dir = 1 THEN axe.pos.x >= axe.from + 2 * Width + Origin.x
  ELSE axe.pos.x <= axe.from - Width + Origin.x

(* The axes that there can be, if the players show one frame or not.       *)
Thrown(shown) == {axe \in Axe : axe.own => shown /\ Ahead(axe)}

(* Before the first frame the slot has rested for as long as the animation *)
(* has run: for less than a cooldown.                                      *)
Timing ==
  /\ clock \in 0..(Threshold - 1)
  /\ rest \in 0..Cooldown
  /\ framed \in BOOLEAN
  /\ ~framed => rest <= clock

CombatInv ==
  /\ enemy \in Bodies
  /\ axes \in Seq(Thrown(framed)) /\ Len(axes) <= made /\ made \in 0..MaxAxes
  /\ facing \in {-1, 1}
  /\ Timing

(* The constants of Combat, each by itself.                                *)
LEMMA Sizes ==
  /\ Threshold \in Nat \ {0} /\ Cooldown \in Nat \ {0} /\ MaxAxes \in Nat \ {0}
  /\ Sheet \in Nat \ {0}
  /\ Origin \in Point /\ Origin.x \in Nat /\ Origin.y \in Int /\ EnemyStart \in Point
  /\ \A t \in 0..3 : HalfX[t] \in Nat /\ HalfX[t] + Origin.x <= Width
  BY CombatAssumption, ProportionsAssumption DEF Point

(* The place holder of an axe that is out of reach is an axe.              *)
LEMMA AwayIsAxe == \A shown : Away \in Thrown(shown)
  BY Sizes DEF Away, Thrown, Axe, Point, Never

(* ThrowingWeapon::update: an axe flies on the way it was thrown.          *)
LEMMA flyType ==
  ASSUME NEW shown, NEW axe \in Thrown(shown)
  PROVE  fly(axe) \in Thrown(shown)
<1>1. /\ axe \in Axe /\ axe.pos \in Point /\ axe.pos.x \in Int /\ axe.pos.y \in Int
      /\ axe.dir \in {-1, 1} /\ axe.turn \in 0..3 /\ axe.clock \in Never..Threshold
      /\ axe.from \in Int /\ axe.own \in BOOLEAN
      /\ axe.own => shown /\ Ahead(axe)
  BY DEF Thrown, Axe, Point
<1> DEFINE there == axe.pos.x + axe.dir * Speed
<1>2. CASE fly(axe) = axe
  BY <1>2
<1>3. CASE fly(axe) = Away
  BY <1>3, AwayIsAxe
<1>4. CASE axe.clock + 1 < Threshold /\ fly(axe) = [axe EXCEPT !.clock = axe.clock + 1]
  <2>1. axe.clock + 1 \in Never..Threshold
    BY <1>1, <1>4, Sizes DEF Never
  <2>2. fly(axe) \in Axe
    BY <1>1, <1>4, <2>1 DEF Axe
  <2>3. /\ fly(axe).pos = axe.pos /\ fly(axe).dir = axe.dir /\ fly(axe).from = axe.from
        /\ fly(axe).own = axe.own
    BY <1>1, <1>4 DEF Axe
  <2> QED
    BY <1>1, <2>2, <2>3 DEF Thrown, Ahead
<1>5. CASE fly(axe) = [axe EXCEPT !.clock = 0, !.pos.x = there, !.turn = (axe.turn + 1) % 4]
  <2>1. (axe.turn + 1) % 4 \in 0..3
    BY <1>1
  <2>2. there \in Int /\ [axe.pos EXCEPT !.x = there] \in Point
    BY <1>1, Constants DEF Point
  <2>3. 0 \in Never..Threshold
    BY Sizes DEF Never
  <2> HIDE DEF there
  <2>4. fly(axe) \in Axe
    BY <1>1, <1>5, <2>1, <2>2, <2>3 DEF Axe
  <2>5. /\ fly(axe).pos.x = there /\ fly(axe).dir = axe.dir /\ fly(axe).from = axe.from
        /\ fly(axe).own = axe.own
    BY <1>1, <1>5 DEF Axe, Point
  <2>6. Ahead(axe) => Ahead(fly(axe))
    BY <1>1, <2>5, Constants, Sizes DEF Ahead, there
  <2> QED
    BY <1>1, <2>4, <2>5, <2>6 DEF Thrown
<1> QED
  BY <1>2, <1>3, <1>4, <1>5 DEF fly

(* The worlds in the middle of an update.                                  *)
World(shown) ==
  [player : Bodies, enemy : Bodies, axes : Seq(Thrown(shown)), framed : {shown}]

(* Weapon::update either hurts one player and drops the axe, or keeps the  *)
(* axe.                                                                    *)
LEMMA Weapon_updateType ==
  ASSUME NEW shown, NEW w \in World(shown), NEW axe \in Thrown(shown)
  PROVE  /\ Weapon_update(w, axe) \in World(shown)
         /\ \/ Weapon_update(w, axe) = [w EXCEPT !.player = takeDamage(w.player, axe.dir)]
            \/ Weapon_update(w, axe) = [w EXCEPT !.enemy = takeDamage(w.enemy, axe.dir)]
            \/ Weapon_update(w, axe) = [w EXCEPT !.axes = Append(w.axes, axe)]
<1>1. /\ axe.dir \in {-1, 1} /\ w.player \in Bodies /\ w.enemy \in Bodies
      /\ w.axes \in Seq(Thrown(shown))
  BY DEF Thrown, Axe, World
<1>2. /\ takeDamage(w.player, axe.dir) \in Bodies
      /\ takeDamage(w.enemy, axe.dir) \in Bodies
      /\ Append(w.axes, axe) \in Seq(Thrown(shown))
  BY <1>1, takeDamageType, AppendProperties
<1>3. \/ Weapon_update(w, axe) = [w EXCEPT !.player = takeDamage(w.player, axe.dir)]
      \/ Weapon_update(w, axe) = [w EXCEPT !.enemy = takeDamage(w.enemy, axe.dir)]
      \/ Weapon_update(w, axe) = [w EXCEPT !.axes = Append(w.axes, axe)]
  BY DEF Weapon_update
<1>4. /\ [w EXCEPT !.player = takeDamage(w.player, axe.dir)] \in World(shown)
      /\ [w EXCEPT !.enemy = takeDamage(w.enemy, axe.dir)] \in World(shown)
      /\ [w EXCEPT !.axes = Append(w.axes, axe)] \in World(shown)
  BY <1>2 DEF World
<1> QED
  BY <1>3, <1>4

(* A hit takes its damage, or all of it that makes no full health.         *)
LEMMA HitCounted ==
  ASSUME NEW p \in Bodies, NEW d \in {-1, 1}
  PROVE  \E k \in {0, -1} : p.health - takeDamage(p, d).health = Damage + FullHealth * k
<1>1. /\ p.health \in 1..FullHealth /\ (FullHealth - p.health) % Damage = 0
      /\ p.health \in Int
  BY DEF Bodies, Shape, Alive
<1>2. CASE ~ (p.health <= Damage)
  <2>1. takeDamage(p, d).health = p.health - Damage
    <3>1. takeDamage(p, d) = [p EXCEPT !.health = p.health - Damage, !.force = d * Speed,
                                       !.pushed = TRUE]
      BY <1>2, takeDamageIs
    <3> QED
      BY <3>1 DEF Bodies, Shape
  <2> QED
    BY <1>1, <2>1, Constants
<1>3. CASE p.health <= Damage
  <2>1. takeDamage(p, d).health = FullHealth
    <3>1. takeDamage(p, d) = Body(Centre)
      BY <1>3, takeDamageIs
    <3> QED
      BY <3>1 DEF Body
  <2>2. PICK q \in Int : FullHealth = Damage * q
    <3>1. FullHealth \in Int /\ Damage \in Nat \ {0} /\ FullHealth % Damage = 0
      BY Constants, ProportionsAssumption
    <3>2. PICK k \in Int : \E s \in 0..(Damage - 1) :
            s = FullHealth % Damage /\ FullHealth = Damage * k + s
      BY <3>1, DivMod, Zenon
    <3>3. FullHealth = Damage * k + 0
      BY <3>1, <3>2, Zenon
    <3> QED
      BY <3>1, <3>3
  <2>3. PICK r \in Int : FullHealth - p.health = Damage * r
    <3> DEFINE lost == FullHealth - p.health
    <3>1. lost \in Int /\ Damage \in Nat \ {0} /\ lost % Damage = 0
      BY <1>1, Constants
    <3> HIDE DEF lost
    <3>2. PICK k \in Int : \E s \in 0..(Damage - 1) :
            s = lost % Damage /\ lost = Damage * k + s
      BY <3>1, DivMod, Zenon
    <3>3. lost = Damage * k + 0
      BY <3>1, <3>2, Zenon
    <3>4. lost = Damage * k
      BY <3>1, <3>3
    <3> QED
      BY <3>4 DEF lost
  <2>4. PICK k \in Int : k = q - r - 1
    OBVIOUS
  <2>5. Damage * k = p.health - Damage
    BY <1>1, <2>2, <2>3, <2>4, Constants
  <2>6. k = 0
    BY <1>1, <1>3, <2>5, Constants, Multiples
  <2>7. p.health = Damage
    BY <1>1, <2>5, <2>6, Constants
  <2> QED
    BY <2>1, <2>7, Constants
<1> QED
  BY <1>2, <1>3

-----------------------------------------------------------------------------
(* Combat: one World::update.                                              *)

Fought(w, list) == FoldLeft(Weapon_update, w, list)

(* The loop of World::update over the axes as a fold.                      *)
LEMMA FoughtIsFold ==
  ASSUME NEW w, NEW S, NEW list \in Seq(S)
  PROVE  Fought(w, list) = Turns!Folded(w, list)
<1>1. \A s : Turns!Max(s) = Max(s)
  BY Zenon DEF Max, Turns!Max
<1>2. DOMAIN list = 1..Len(list)
  OBVIOUS
<1> QED
  BY <1>1, <1>2 DEF Fought, FoldLeft, MapThenFoldSet, Turns!Folded, Turns!FoldEq

(* The axes that are left, and what the two players have lost since w0.    *)
Left(w) == Len(w.axes)

Lost(w0, w) ==
  w0.player.health - w.player.health + (w0.enemy.health - w.enemy.health)

(* How a world w0 stands, as w, after n axes have had their turn: those    *)
(* that are left were no hit, the player has been hit by some of the       *)
(* others, and each of them has cost its damage.                           *)
HitBySome(w0, w, n) ==
  \E hits \in Seq({-1, 1}) : Len(hits) <= n /\ w.player = Struck_by(w0.player, hits)

Costly(w0, w, n) ==
  \E k \in Int : Lost(w0, w) = Damage * (n - Left(w)) + FullHealth * k

After(shown, w0, w, n) ==
  /\ w \in World(shown)
  /\ Left(w) <= n
  /\ HitBySome(w0, w, n)
  /\ Costly(w0, w, n)

(* Axes that are left and health that is lost are numbers.                 *)
LEMMA WorldNumbers ==
  ASSUME NEW shown, NEW w0 \in World(shown), NEW w \in World(shown)
  PROVE  Left(w) \in Nat /\ Lost(w0, w) \in Int
<1>1. \A p \in Bodies : p.health \in Int
  BY DEF Bodies, Shape, Alive
<1> QED
  BY <1>1 DEF Left, Lost, World

(* One axe: a miss, or a hit of one of the two.                            *)
LEMMA Weapon_updateCounts ==
  ASSUME NEW shown, NEW w0 \in World(shown), NEW w \in World(shown),
         NEW axe \in Thrown(shown), NEW u, u = Weapon_update(w, axe)
  PROVE  \/ /\ Left(u) = Left(w) + 1
            /\ Lost(w0, u) = Lost(w0, w)
            /\ u.player = w.player
         \/ /\ Left(u) = Left(w)
            /\ u.player = w.player \/ u.player = takeDamage(w.player, axe.dir)
            /\ \E j \in {0, -1} : Lost(w0, u) = Lost(w0, w) + (Damage + FullHealth * j)
<1>1. /\ axe.dir \in {-1, 1} /\ w.player \in Bodies /\ w.enemy \in Bodies
      /\ w0.player \in Bodies /\ w0.enemy \in Bodies /\ w.axes \in Seq(Thrown(shown))
  BY DEF Thrown, Axe, World
<1>2. \A p \in Bodies : p.health \in Int
  BY DEF Bodies, Shape, Alive
<1>3. PICK a0 \in Int, a1 \in Int, b0 \in Int, b1 \in Int :
        /\ a0 = w0.player.health /\ a1 = w.player.health
        /\ b0 = w0.enemy.health /\ b1 = w.enemy.health
  BY <1>1, <1>2
<1>4. Lost(w0, w) = a0 - a1 + (b0 - b1)
  BY <1>3 DEF Lost
<1>5. CASE u = [w EXCEPT !.player = takeDamage(w.player, axe.dir)]
  <2>1. u.player = takeDamage(w.player, axe.dir) /\ u.enemy = w.enemy /\ u.axes = w.axes
    BY <1>5 DEF World
  <2>2. PICK j \in {0, -1} : a1 - u.player.health = Damage + FullHealth * j
    BY <1>1, <1>3, <2>1, HitCounted
  <2>3. PICK a2 \in Int : a2 = u.player.health
    BY <1>1, <1>2, <2>1, takeDamageType
  <2>4. PICK e \in Int : e = Damage + FullHealth * j
    BY Constants
  <2>5. Lost(w0, u) = a0 - a2 + (b0 - b1)
    BY <1>3, <2>1, <2>3 DEF Lost
  <2>6. Lost(w0, u) = Lost(w0, w) + e
    BY <1>4, <2>2, <2>3, <2>4, <2>5
  <2>7. Left(u) = Left(w)
    BY <2>1 DEF Left
  <2> QED
    BY <2>1, <2>4, <2>6, <2>7, Zenon
<1>6. CASE u = [w EXCEPT !.enemy = takeDamage(w.enemy, axe.dir)]
  <2>1. u.enemy = takeDamage(w.enemy, axe.dir) /\ u.player = w.player /\ u.axes = w.axes
    BY <1>6 DEF World
  <2>2. PICK j \in {0, -1} : b1 - u.enemy.health = Damage + FullHealth * j
    BY <1>1, <1>3, <2>1, HitCounted
  <2>3. PICK b2 \in Int : b2 = u.enemy.health
    BY <1>1, <1>2, <2>1, takeDamageType
  <2>4. PICK e \in Int : e = Damage + FullHealth * j
    BY Constants
  <2>5. Lost(w0, u) = a0 - a1 + (b0 - b2)
    BY <1>3, <2>1, <2>3 DEF Lost
  <2>6. Lost(w0, u) = Lost(w0, w) + e
    BY <1>4, <2>2, <2>3, <2>4, <2>5
  <2>7. Left(u) = Left(w)
    BY <2>1 DEF Left
  <2> QED
    BY <2>1, <2>4, <2>6, <2>7, Zenon
<1>7. CASE u = [w EXCEPT !.axes = Append(w.axes, axe)]
  <2>1. u.enemy = w.enemy /\ u.player = w.player /\ u.axes = Append(w.axes, axe)
    BY <1>7 DEF World
  <2>2. Left(u) = Left(w) + 1
    BY <1>1, <2>1 DEF Left
  <2>3. Lost(w0, u) = Lost(w0, w)
    BY <2>1 DEF Lost
  <2> QED
    BY <2>1, <2>2, <2>3
<1> QED
  BY <1>5, <1>6, <1>7, Weapon_updateType

(* One more axe of the loop: it is still there, or one player has lost its *)
(* damage.                                                                 *)
LEMMA AfterStep ==
  ASSUME NEW shown, NEW w0 \in World(shown), NEW n \in Nat, NEW w, After(shown, w0, w, n),
         NEW axe \in Thrown(shown)
  PROVE  After(shown, w0, Weapon_update(w, axe), n + 1)
<1>1. PICK u : u = Weapon_update(w, axe)
  OBVIOUS
<1>2. w \in World(shown) /\ u \in World(shown)
  BY <1>1, Weapon_updateType DEF After
<1>3. PICK hits \in Seq({-1, 1}) :
        Len(hits) <= n /\ w.player = Struck_by(w0.player, hits)
  BY DEF After, HitBySome
<1>4. PICK k \in Int : Lost(w0, w) = Damage * (n - Left(w)) + FullHealth * k
  BY DEF After, Costly
<1>5. PICK m \in Nat : m = n - Left(w)
  BY <1>2, WorldNumbers DEF After
<1>6. /\ Left(w) \in Nat /\ Left(u) \in Nat /\ Lost(w0, w) \in Int /\ Lost(w0, u) \in Int
      /\ Left(w) <= n /\ Damage \in Int /\ FullHealth \in Int
  BY <1>2, WorldNumbers, Constants DEF After
<1>7. HitBySome(w0, u, n + 1)
  <2>1. CASE u.player = w.player
    BY <1>3, <2>1 DEF HitBySome
  <2>2. CASE u.player = takeDamage(w.player, axe.dir)
    <3>1. axe.dir \in {-1, 1}
      BY DEF Thrown, Axe
    <3>2. Append(hits, axe.dir) \in Seq({-1, 1}) /\ Len(Append(hits, axe.dir)) <= n + 1
      BY <1>3, <3>1
    <3>3. Struck_by(w0.player, Append(hits, axe.dir)) = takeDamage(Struck_by(w0.player, hits), axe.dir)
      BY <3>1, StruckMore
    <3> QED
      BY <1>3, <2>2, <3>2, <3>3, Zenon DEF HitBySome
  <2> QED
    BY <1>1, <1>2, <2>1, <2>2, Weapon_updateCounts
<1>8. Left(u) <= n + 1 /\ Costly(w0, u, n + 1)
  <2>1. CASE Left(u) = Left(w) + 1 /\ Lost(w0, u) = Lost(w0, w)
    <3>1. (n + 1) - Left(u) = n - Left(w) /\ Left(u) <= n + 1
      BY <1>6, <2>1
    <3>2. Lost(w0, u) = Damage * ((n + 1) - Left(u)) + FullHealth * k
      BY <1>4, <2>1, <3>1
    <3>3. Costly(w0, u, n + 1)
      BY <3>2 DEF Costly
    <3> QED
      BY <3>1, <3>3
  <2>2. CASE /\ Left(u) = Left(w)
             /\ \E j \in {0, -1} : Lost(w0, u) = Lost(w0, w) + (Damage + FullHealth * j)
    <3>1. PICK j \in {0, -1} : Lost(w0, u) = Lost(w0, w) + (Damage + FullHealth * j)
      BY <2>2
    <3>2. (n + 1) - Left(u) = m + 1 /\ Left(u) <= n + 1
      BY <1>5, <1>6, <2>2
    <3>3. Lost(w0, w) = Damage * m + FullHealth * k
      BY <1>4, <1>5
    <3>4. k + j \in Int /\ Lost(w0, u) = Damage * (m + 1) + FullHealth * (k + j)
      BY <1>6, <3>1, <3>3
    <3>5. Lost(w0, u) = Damage * ((n + 1) - Left(u)) + FullHealth * (k + j)
      BY <3>2, <3>4
    <3>6. Costly(w0, u, n + 1)
      BY <3>4, <3>5 DEF Costly
    <3> QED
      BY <3>2, <3>6
  <2> QED
    BY <1>1, <1>2, <2>1, <2>2, Weapon_updateCounts
<1>9. After(shown, w0, u, n + 1)
  BY <1>2, <1>7, <1>8 DEF After
<1> QED
  BY <1>1, <1>9

(* The whole loop, from the players as they were before it.                *)
LEMMA FoughtAfter ==
  ASSUME NEW shown, NEW w0 \in World(shown), w0.axes = <<>>,
         NEW list \in Seq(Thrown(shown))
  PROVE  After(shown, w0, Fought(w0, list), Len(list))
<1> DEFINE n == Len(list)
<1>1. n \in Nat /\ \A i \in 1..n : list[i] \in Thrown(shown)
  OBVIOUS
<1>2. PICK f : /\ f[0] = w0
               /\ \A i \in 1..n : f[i] = Weapon_update(f[i - 1], list[i])
               /\ f[n] = Turns!Folded(w0, list)
  BY Turns!FoldChain
<1> HIDE DEF n
<1> DEFINE T == {i \in Nat : i <= n => After(shown, w0, f[i], i)}
<1>3. 0 \in T
  <2>1. <<>> \in Seq({-1, 1}) /\ Len(<<>>) = 0 /\ w0.player = Struck_by(w0.player, <<>>)
    BY StruckMore
  <2>2. w0.player.health \in Int /\ w0.enemy.health \in Int
    BY DEF World, Bodies, Shape, Alive
  <2>3. Left(w0) = 0 /\ Lost(w0, w0) = 0
    BY <2>1, <2>2 DEF Left, Lost
  <2>4. 0 = Damage * (0 - 0) + FullHealth * 0
    BY Constants
  <2>5. Left(w0) <= 0 /\ Costly(w0, w0, 0)
    BY <2>3, <2>4 DEF Costly
  <2>6. HitBySome(w0, w0, 0)
    <3>1. Len(<<>>) <= 0
      BY <2>1
    <3> QED
      BY <2>1, <3>1, Zenon DEF HitBySome
  <2>7. After(shown, w0, w0, 0)
    BY <2>5, <2>6 DEF After
  <2> QED
    BY <1>2, <2>7
<1>4. ASSUME NEW i \in T
      PROVE  i + 1 \in T
  <2>1. CASE i + 1 <= n
    <3>1. PICK j \in 1..n : j = i + 1 /\ j - 1 = i
      BY <1>1, <2>1
    <3>2. After(shown, w0, f[i], i)
      BY <1>1, <2>1
    <3>3. f[j] = Weapon_update(f[i], list[j])
      BY <1>2, <3>1
    <3>4. After(shown, w0, f[j], i + 1)
      BY <1>1, <3>2, <3>3, AfterStep
    <3> QED
      BY <3>1, <3>4
  <2>2. CASE ~ (i + 1 <= n)
    BY <2>2
  <2> QED
    BY <2>1, <2>2
<1>5. T = Nat
  <2>1. T \in SUBSET Nat
    OBVIOUS
  <2> HIDE DEF T
  <2> QED
    BY <1>3, <1>4, <2>1, Turns!Induction
<1>6. After(shown, w0, f[n], n)
  <2>1. n \in T
    BY <1>1, <1>5
  <2> QED
    BY <1>1, <2>1
<1> QED
  BY <1>2, <1>6, FoughtIsFold DEF n

(* World::update, with what it makes of everything that Combat follows.    *)
LEMMA FightEffect ==
  ASSUME ArenaInv, CombatInv, Fight
  PROVE  /\ \E tick \in BOOLEAN : \E hits \in Axes : World_update(tick, hits)
         /\ enemy' \in Bodies
         /\ axes' \in Seq(Thrown(framed'))
         /\ Len(axes') <= Len(axes)
         /\ framed' = (framed \/ clock + 1 >= Threshold)
         /\ (player.health - player'.health + (enemy.health - enemy'.health)) % FullHealth
              = (Damage * (Len(axes) - Len(axes'))) % FullHealth
<1> DEFINE tick == clock + 1 >= Threshold
           shown == framed \/ tick
           before == [player |-> update(player, tick), enemy |-> update(enemy, tick),
                      axes |-> <<>>, framed |-> shown]
           after == Fought(before, axes)
<1>0. /\ player \in Bodies /\ enemy \in Bodies /\ axes \in Seq(Thrown(framed))
      /\ clock \in Nat /\ framed \in BOOLEAN /\ made \in 0..MaxAxes /\ Len(axes) <= made
  BY DEF ArenaInv, Driven, CombatInv, Timing
<1>1. tick \in BOOLEAN /\ shown \in BOOLEAN
  BY <1>0, Sizes
<1>2. before \in World(shown) /\ before.axes = <<>>
  <2>1. update(player, tick) \in Bodies /\ update(enemy, tick) \in Bodies
    BY <1>0, <1>1, updateType DEF Bodies
  <2>2. <<>> \in Seq(Thrown(shown))
    OBVIOUS
  <2> HIDE DEF tick, shown
  <2> QED
    BY <2>1, <2>2 DEF World
<1>3. axes \in Seq(Thrown(shown))
  <2>1. Thrown(framed) \subseteq Thrown(shown)
    BY DEF Thrown
  <2> QED
    BY <1>0, <2>1
<1>4. /\ before.player = update(player, tick) /\ before.enemy = update(enemy, tick)
  OBVIOUS
<1>5. /\ InGame
      /\ player' = IF tick THEN World_move(after.player) ELSE after.player
      /\ enemy' = IF tick THEN World_move(after.enemy) ELSE after.enemy
      /\ axes' = [i \in DOMAIN after.axes |-> fly(after.axes[i])]
      /\ framed' = after.framed
      /\ UNCHANGED <<screensVars, held>>
  BY DEF Fight, Fought
<1> HIDE DEF tick, shown, before
<1>6. After(shown, before, after, Len(axes))
  BY <1>2, <1>3, FoughtAfter
<1> HIDE DEF after
<1>7. /\ after \in World(shown) /\ after.player \in Bodies /\ after.enemy \in Bodies
      /\ after.axes \in Seq(Thrown(shown)) /\ after.framed = shown
  BY <1>6 DEF After, World
<1>8. framed' = shown
  BY <1>5, <1>7
<1>9. axes' \in Seq(Thrown(shown)) /\ Len(axes') = Left(after)
  <2> DEFINE l == Len(after.axes)
             f == [i \in 1..l |-> fly(after.axes[i])]
  <2>1. l \in Nat /\ DOMAIN after.axes = 1..l /\ \A i \in 1..l : after.axes[i] \in Thrown(shown)
    BY <1>7
  <2>2. f \in [1..l -> Thrown(shown)]
    BY <2>1, flyType
  <2>3. f \in Seq(Thrown(shown)) /\ Len(f) = l
    <3> HIDE DEF l, f
    <3>1. f \in Seq(Thrown(shown))
      BY <2>1, <2>2, SeqDef
    <3>2. DOMAIN f = 1..l
      BY <2>2
    <3> QED
      BY <2>1, <3>1, <3>2, LenProperties
  <2>4. axes' = f
    BY <1>5, <2>1
  <2> HIDE DEF f
  <2> QED
    BY <2>3, <2>4 DEF Left
<1>10. Left(after) \in Nat /\ Left(after) <= Len(axes) /\ Len(axes) \in Nat
  BY <1>0, <1>2, <1>6, <1>7, WorldNumbers DEF After
<1>11. enemy' \in Bodies /\ enemy'.health = after.enemy.health
  BY <1>5, <1>7, World_moveType DEF Bodies
<1>12. player'.health = after.player.health
  BY <1>5, <1>7, World_moveType DEF Bodies
<1>13. \E t \in BOOLEAN : \E hits \in Axes : World_update(t, hits)
  <2>1. PICK hits \in Seq({-1, 1}) :
          Len(hits) <= Len(axes) /\ after.player = Struck_by(before.player, hits)
    BY <1>6 DEF After, HitBySome
  <2>2. hits \in Axes
    <3>1. Len(hits) \in 0..MaxHits
      <4>1. Len(hits) \in Nat /\ MaxHits \in Nat /\ MaxAxes \in Nat /\ MaxAxes <= MaxHits
        BY Sizes, ArenaAssumption, ProportionsAssumption
      <4>2. Len(axes) <= MaxAxes
        BY <1>0, <1>10, <4>1
      <4> QED
        BY ONLY <1>10, <2>1, <4>1, <4>2
    <3>2. hits \in [1..Len(hits) -> {-1, 1}]
      OBVIOUS
    <3> QED
      BY <3>1, <3>2 DEF Axes
  <2>3. player' = Updated(player, tick, hits)
    BY <1>4, <1>5, <2>1 DEF Updated, Struck_by
  <2>4. World_update(tick, hits)
    BY <1>5, <2>3 DEF World_update
  <2> QED
    BY <1>1, <2>2, <2>4
<1>14. (player.health - player'.health + (enemy.health - enemy'.health)) % FullHealth
         = (Damage * (Len(axes) - Len(axes'))) % FullHealth
  <2>1. PICK k \in Int : Lost(before, after) = Damage * (Len(axes) - Left(after)) + FullHealth * k
    BY <1>6 DEF After, Costly
  <2>2. before.player.health = player.health /\ before.enemy.health = enemy.health
    BY <1>0, <1>1, <1>4, updateType DEF Bodies
  <2>3. Lost(before, after) = player.health - player'.health + (enemy.health - enemy'.health)
    BY <1>11, <1>12, <2>2 DEF Lost
  <2>4. PICK a \in Int : a = Damage * (Len(axes) - Left(after))
    BY <1>10, Constants
  <2>5. (a + FullHealth * k) % FullHealth = a % FullHealth
    BY Constants, AddMultiple, Zenon
  <2> QED
    BY <1>9, <2>1, <2>3, <2>4, <2>5
<1> QED
  BY <1>8, <1>9, <1>10, <1>11, <1>13, <1>14 DEF shown, tick

-----------------------------------------------------------------------------
(* Combat: every step keeps the invariant and is a step of Arena.          *)

(* A new axe in the list.                                                  *)
LEMMA AppendKeeps ==
  ASSUME CombatInv, NEW axe \in Thrown(framed), append(axe)
  PROVE  /\ axes' \in Seq(Thrown(framed))
         /\ Len(axes') <= made' /\ made' \in 0..MaxAxes
<1>1. /\ axes \in Seq(Thrown(framed)) /\ made \in Nat /\ Len(axes) <= made
      /\ made < MaxAxes /\ axes' = Append(axes, axe) /\ made' = made + 1
  BY DEF CombatInv, append
<1>2. axes' \in Seq(Thrown(framed)) /\ Len(axes') = Len(axes) + 1 /\ Len(axes) \in Nat
  BY <1>1
<1> QED
  BY <1>1, <1>2, Sizes

(* ThrowingWeapon::generate makes an axe of any place.                     *)
LEMMA generateType ==
  ASSUME NEW place \in Point, NEW dir \in {-1, 1}, NEW own \in BOOLEAN, NEW from \in Int,
         NEW garbage \in Garbage
  PROVE  /\ generate(place, dir, own, from, garbage) \in Axe
         /\ generate(place, dir, own, from, garbage).own = own
         /\ generate(place, dir, own, from, garbage).dir = dir
         /\ generate(place, dir, own, from, garbage).from = from
         /\ generate(place, dir, own, from, garbage).pos.x = place.x + Origin.x
<1>1. garbage \in Never..Threshold
  BY Sizes DEF Garbage, Never
<1>2. [x |-> place.x + Origin.x, y |-> place.y + Origin.y] \in Point
  BY Sizes DEF Point
<1> QED
  BY <1>1, <1>2 DEF generate, Axe

(* No axe is in the world at the start.                                    *)
LEMMA CombatInvInit == CombatInit => CombatInv
<1> SUFFICES ASSUME CombatInit PROVE CombatInv
  OBVIOUS
<1>1. enemy \in Bodies
  BY ArenaAssumption, BodyType DEF CombatInit
<1>2. axes \in Seq(Thrown(framed)) /\ Len(axes) = 0
  BY DEF CombatInit
<1>3. Timing
  <2>1. clock = 0 /\ rest = 0 /\ framed = FALSE
    BY DEF CombatInit
  <2>2. clock \in 0..(Threshold - 1) /\ rest \in 0..Cooldown /\ rest <= clock
    BY <2>1, Sizes
  <2> QED
    BY <2>1, <2>2 DEF Timing
<1>4. Len(axes) <= made /\ made \in 0..MaxAxes /\ facing \in {-1, 1}
  BY <1>2, Sizes DEF CombatInit
<1> QED
  BY <1>1, <1>2, <1>3, <1>4 DEF CombatInv

(* Throws, updates, what the connection thread brings and the menu keep    *)
(* the invariant of Combat.                                                *)
LEMMA CombatInvStep == ArenaInv /\ CombatInv /\ [CombatNext]_combatVars => CombatInv'
<1> SUFFICES ASSUME ArenaInv, CombatInv, [CombatNext]_combatVars
             PROVE  CombatInv'
  OBVIOUS
<1>0. player \in Bodies /\ player.pos \in Point /\ player.pos.x \in Int /\ player.pos.y \in Int
  BY DEF ArenaInv, Driven, Bodies, Shape, Point
<1>1. CASE StartGame
  <2>1. enemy' \in Bodies
    BY <1>1, Sizes DEF CombatInv, StartGame, Bodies, Shape
  <2> QED
    BY <1>1, <2>1 DEF CombatInv, Timing, StartGame
<1>2. CASE Inputs \/ UNCHANGED combatVars
  BY <1>2 DEF CombatInv, Timing, Inputs, combatVars, worldVars
<1>3. CASE Throw
  <2>1. PICK garbage \in Garbage :
          append(generate([x |-> hand, y |-> player.pos.y], facing, TRUE, player.pos.x, garbage))
    BY <1>3 DEF Throw
  <2>2. framed
    BY <1>3, Sizes, ProportionsAssumption DEF Throw, canUseActive, CombatInv, Timing
  <2>3. /\ hand \in Int
        /\ facing = 1 => hand = player.pos.x + 2 * Width
        /\ facing # 1 => hand = player.pos.x - Width
    BY <1>0, <2>2, Constants DEF hand, SpanX
  <2>4. PICK place \in Point : place = [x |-> hand, y |-> player.pos.y]
    BY <1>0, <2>3 DEF Point
  <2>5. PICK axe : axe = generate(place, facing, TRUE, player.pos.x, garbage)
    OBVIOUS
  <2>6. /\ axe \in Axe /\ axe.dir = facing /\ axe.from = player.pos.x
        /\ axe.pos.x = hand + Origin.x
    <3>1. PICK dir \in {-1, 1}, from \in Int, own \in BOOLEAN :
            dir = facing /\ from = player.pos.x /\ own = TRUE
      BY <1>0 DEF CombatInv
    <3>2. place.x = hand
      BY <2>4
    <3>3. axe = generate(place, dir, own, from, garbage)
      BY <2>5, <3>1
    <3>4. /\ axe \in Axe /\ axe.dir = dir /\ axe.from = from
          /\ axe.pos.x = place.x + Origin.x
      BY <3>3, generateType
    <3> QED
      BY <3>1, <3>2, <3>4
  <2>7. Ahead(axe)
    BY <1>0, <2>3, <2>6, Constants, Sizes DEF Ahead
  <2>8. axe \in Thrown(framed)
    BY <2>2, <2>6, <2>7 DEF Thrown
  <2>9. append(axe)
    BY <2>1, <2>4, <2>5
  <2>10. /\ axes' \in Seq(Thrown(framed))
         /\ Len(axes') <= made' /\ made' \in 0..MaxAxes
    BY <2>8, <2>9, AppendKeeps
  <2>11. /\ UNCHANGED <<enemy, clock, facing, framed>> /\ rest' = 0
    BY <1>3 DEF Throw
  <2>12. Timing'
    BY <2>2, <2>11, Sizes DEF CombatInv, Timing
  <2> QED
    BY <2>10, <2>11, <2>12 DEF CombatInv
<1>4. CASE Fight
  <2>1. /\ enemy' \in Bodies
        /\ axes' \in Seq(Thrown(framed'))
        /\ Len(axes') <= Len(axes)
        /\ framed' = (framed \/ clock + 1 >= Threshold)
    BY <1>4, FightEffect
  <2>2. /\ clock' = IF clock + 1 >= Threshold THEN 0 ELSE clock + 1
        /\ rest' = IF rest < Cooldown THEN rest + 1 ELSE rest
        /\ facing' = facing /\ made' = made
    BY <1>4 DEF Fight, Rested
  <2>3. Timing'
    <3>0. Timing
      BY DEF CombatInv
    <3>1. CASE clock + 1 >= Threshold
      <4>1. framed' = TRUE /\ clock' = 0
        BY <2>1, <2>2, <3>1
      <4>2. rest' \in 0..Cooldown
        BY <2>2, <3>0, Sizes DEF Timing
      <4> QED
        BY <4>1, <4>2, Sizes DEF Timing
    <3>2. CASE ~ (clock + 1 >= Threshold)
      <4>1. framed' = framed /\ clock' = clock + 1 /\ framed \in BOOLEAN
        BY <2>1, <2>2, <3>0, <3>2 DEF Timing
      <4>2. rest' \in 0..Cooldown /\ rest' <= rest + 1
        BY <2>2, <3>0, Sizes DEF Timing
      <4>3. clock' \in 0..(Threshold - 1)
        BY <3>0, <3>2, <4>1, Sizes DEF Timing
      <4>4. ~framed => rest' <= clock'
        BY <3>0, <4>1, <4>2, Sizes DEF Timing
      <4> QED
        BY <4>1, <4>2, <4>3, <4>4 DEF Timing
    <3> QED
      BY <3>1, <3>2
  <2>4. Len(axes') <= made' /\ made' \in 0..MaxAxes
    <3>1. Len(axes) \in Nat /\ Len(axes') \in Nat
      BY <2>1 DEF CombatInv
    <3> QED
      BY <2>1, <2>2, <3>1, Sizes DEF CombatInv
  <2> QED
    BY <2>1, <2>2, <2>3, <2>4 DEF CombatInv
<1>5. ASSUME NEW report \in Reports, apply_info(report)
      PROVE  CombatInv'
  <2>1. /\ report.pos \in Point /\ report.moves \in Seq(Keys) /\ report.health \in Alive
    BY CombatAssumption
  <2>2. enemy' \in Bodies
    BY <1>5, <2>1 DEF CombatInv, apply_info, Bodies, Shape
  <2> QED
    BY <1>5, <2>2 DEF CombatInv, Timing, apply_info
<1>6. ASSUME NEW place \in Sighted, NEW dir \in {-1, 1}, mirror(place, dir)
      PROVE  CombatInv'
  <2>1. PICK garbage \in Garbage : append(generate(place, dir, FALSE, place.x, garbage))
    BY <1>6 DEF mirror
  <2>2. place \in Point /\ place.x \in Int
    BY CombatAssumption DEF Point
  <2>3. PICK axe : axe = generate(place, dir, FALSE, place.x, garbage)
    OBVIOUS
  <2>4. axe \in Thrown(framed)
    BY <2>2, <2>3, generateType DEF Thrown
  <2>5. /\ axes' \in Seq(Thrown(framed))
        /\ Len(axes') <= made' /\ made' \in 0..MaxAxes
    BY <2>1, <2>3, <2>4, AppendKeeps
  <2>6. UNCHANGED <<enemy, clock, rest, facing, framed>>
    BY <1>6 DEF mirror
  <2> QED
    BY <2>5, <2>6 DEF CombatInv, Timing
<1>7. ASSUME NEW side \in {-1, 1}, connect_room(side)
      PROVE  CombatInv'
  BY <1>7 DEF CombatInv, Timing, connect_room
<1> QED
  BY <1>1, <1>2, <1>3, <1>4, <1>5, <1>6, <1>7 DEF CombatNext

(* To the player every step of Combat is one of Arena.                     *)
LEMMA CombatIsArenaStep ==
  ArenaInv /\ CombatInv /\ [CombatNext]_combatVars => [ArenaNext]_arenaVars
<1> SUFFICES ASSUME ArenaInv, CombatInv, [CombatNext]_combatVars
             PROVE  [ArenaNext]_arenaVars
  OBVIOUS
<1>1. CASE StartGame
  BY <1>1 DEF StartGame, ArenaNext
<1>2. CASE Inputs
  BY <1>2 DEF Inputs, ArenaNext
<1>3. CASE Fight
  BY <1>3, FightEffect DEF ArenaNext
<1>4. CASE Throw
  BY <1>4 DEF Throw
<1>5. CASE \E report \in Reports : apply_info(report)
  BY <1>5 DEF apply_info
<1>6. CASE \E place \in Sighted, dir \in {-1, 1} : mirror(place, dir)
  BY <1>6 DEF mirror
<1>7. CASE \E side \in {-1, 1} : connect_room(side)
  BY <1>7 DEF connect_room
<1>8. CASE UNCHANGED combatVars
  BY <1>8 DEF combatVars
<1> QED
  BY <1>1, <1>2, <1>3, <1>4, <1>5, <1>6, <1>7, <1>8 DEF CombatNext

-----------------------------------------------------------------------------
(* Combat: the theorems.                                                   *)

(* The inductive invariant of the player, its keys and the axes.           *)
THEOREM CombatInvariant == CombatSpec => [](ArenaInv /\ CombatInv)
<1>1. CombatInit => ArenaInv /\ CombatInv
  BY ArenaInvInit, CombatInvInit DEF CombatInit
<1>2. ArenaInv /\ CombatInv /\ [CombatNext]_combatVars => (ArenaInv /\ CombatInv)'
  BY CombatInvStep, CombatIsArenaStep, ArenaInvStep
<1> QED
  BY <1>1, <1>2, PTL DEF CombatSpec

(* The list of axes and both players keep their types through any number   *)
(* of throws, hits and updates: an enemy is alive after every step, and    *)
(* no World::update adds an axe.                                           *)
THEOREM CombatTypeCorrect == CombatSpec => []CombatTypeOK
<1>1. CombatInv => CombatTypeOK
  <2> SUFFICES ASSUME CombatInv PROVE CombatTypeOK
    OBVIOUS
  <2>1. Thrown(framed) \subseteq Axe
    BY DEF Thrown
  <2>2. axes \in Seq(Axe)
    BY <2>1 DEF CombatInv
  <2> QED
    BY <2>2 DEF CombatInv, Timing, CombatTypeOK, Bodies, Shape
<1> QED
  BY <1>1, CombatInvariant, PTL

(* Backpack::canUseActive lets nobody throw before the first frame is      *)
(* shown, while the hand would be measured from the whole picture.         *)
THEOREM ShownBeforeThrowing == CombatSpec => []FramedBeforeThrow
<1>1. CombatInv => FramedBeforeThrow
  BY Sizes, ProportionsAssumption DEF CombatInv, Timing, FramedBeforeThrow, canUseActive
<1> QED
  BY <1>1, CombatInvariant, PTL

(* An axe starts clear of its thrower and flies away from where it stood:  *)
(* it touches only a thrower who has gone the same way.                    *)
THEOREM ThrownClear == CombatSpec => []OwnAxeAhead
<1>1. ArenaInv /\ CombatInv => OwnAxeAhead
  <2> SUFFICES ASSUME ArenaInv, CombatInv, NEW i \in DOMAIN axes, axes[i].own,
                      Touches(player, axes[i], framed)
               PROVE  axes[i].dir * (player.pos.x - axes[i].from) > 0
    BY DEF OwnAxeAhead
  <2>1. PICK axe \in Thrown(framed) : axe = axes[i]
    BY DEF CombatInv
  <2>2. /\ axe.dir \in {-1, 1} /\ axe.turn \in 0..3 /\ axe.pos.x \in Int /\ axe.from \in Int
        /\ framed /\ Ahead(axe)
    BY <2>1 DEF Thrown, Axe, Point
  <2>3. player.pos.x \in Int
    BY DEF ArenaInv, Driven, Bodies, Shape, Point
  <2>4. PICK half \in Nat : half = HalfX[axe.turn] /\ half + Origin.x <= Width
    BY <2>2, Sizes
  <2>5. /\ axe.pos.x - half < player.pos.x + Width
        /\ axe.pos.x + half > player.pos.x
    BY <2>1, <2>2, <2>4 DEF Touches, SpanX
  <2>6. CASE axe.dir = 1
    BY <2>1, <2>2, <2>3, <2>4, <2>5, <2>6, Constants, Sizes DEF Ahead
  <2>7. CASE axe.dir = -1
    BY <2>1, <2>2, <2>3, <2>4, <2>5, <2>7, Constants, Sizes DEF Ahead
  <2> QED
    BY <2>2, <2>6, <2>7
<1> QED
  BY <1>1, CombatInvariant, PTL

(* A World::update takes from the two players together exactly what the    *)
(* axes that it removes were worth, however many there are and whoever     *)
(* dies of them in between.                                                *)
THEOREM EveryHitCounts == CombatSpec => HitsAreCounted
<1>1. ArenaInv /\ CombatInv /\ [CombatNext]_combatVars =>
        [clock' # clock =>
           (player.health - player'.health + enemy.health - enemy'.health) % FullHealth
             = (Damage * (Len(axes) - Len(axes'))) % FullHealth]_combatVars
  <2> SUFFICES ASSUME ArenaInv, CombatInv, CombatNext, clock' # clock
               PROVE  (player.health - player'.health + enemy.health - enemy'.health) % FullHealth
                        = (Damage * (Len(axes) - Len(axes'))) % FullHealth
    OBVIOUS
  <2>1. Fight
    BY DEF CombatNext, StartGame, Inputs, worldVars, Throw, apply_info, mirror, connect_room
  <2> QED
    BY <2>1, FightEffect
<1> QED
  BY <1>1, CombatInvariant, PTL DEF CombatSpec, HitsAreCounted

(* The axes of a World::update, acting on the player in turn, are hits as  *)
(* Arena knows them: what Arena says of hits at any time holds of axes     *)
(* that are thrown, fly and are removed.                                   *)
THEOREM CombatIsArena == CombatSpec => ImplementsArena
<1>1. CombatInit => ArenaInit
  BY DEF CombatInit
<1> QED
  BY <1>1, CombatInvariant, CombatIsArenaStep, PTL DEF CombatSpec, ImplementsArena, ArenaSpec

(* With axes that are thrown, fly, hit and are removed, the player of a    *)
(* client still stops without keys, goes where the map lets it, is never   *)
(* stranded by one step and dies into the middle.                          *)
THEOREM CombatKeepsArena ==
  CombatSpec => /\ []WalksOnHeldKeys /\ []SlidesFromFreePlaces
                /\ StepsBack /\ RestartsInTheMiddle
<1>1. CombatSpec => ArenaSpec
  BY CombatIsArena DEF ImplementsArena
<1> QED
  BY <1>1, StopsWithoutKeys, SlidesOnEveryMap, StepsCanBeUndone, DiesIntoTheMiddle, PTL

=============================================================================
