--------------------------- MODULE ReplicaProofs ----------------------------
(***************************************************************************)
(* Theorems about Replica, for every map, every size and speed, every      *)
(* number of inputs and of updates under way, and every interleaving of    *)
(* the two threads of the image's client.                                  *)
(***************************************************************************)
EXTENDS Replica, PlayersProofs

(* A health that the main thread has read in takeDamage, less the damage,  *)
(* is one to live with or one to die of.                                   *)
Outcome == {h \in Int : h <= 0 \/ h \in Alive}

Local == [tick : BOOLEAN, health : Int, direction : {-1, 1}, pos : Point]

(* The two steps before a check may leave the image without health, the    *)
(* check sends it through clear and revive, and whatever the connection    *)
(* thread writes in between is the health of somebody alive.               *)
ReplicaInv ==
  /\ player \in Bodies
  /\ image \in Shape(Alive \cup {0})
  /\ link \in Seq(Info) /\ Len(link) <= MaxLink
  /\ data \in Info
  /\ stage \in {"position", "moves", "health"}
  /\ turn \in {"update", "axes", "hurt", "check", "clear", "revive", "place", "move"}
  /\ local \in Local
  /\ inputs \in 0..MaxInputs
  /\ turn = "hurt" => local.health \in Outcome
  /\ turn \in {"update", "axes", "hurt", "place", "move"} => image.health \in Alive

(* World::get_info reports places, moves and health of a player.           *)
LEMMA getInfoType == \A p \in Bodies : getInfo(p) \in Info
  BY DEF getInfo, Info, Bodies, Shape

(* A main thread that has read nothing.                                    *)
LEMMA NothingReadType == NothingRead \in Local
  BY ReplicaAssumption DEF NothingRead, Local

(* What the two threads write to the image leaves it an image, possibly    *)
(* without health.                                                         *)
LEMMA Image ==
  ASSUME NEW p \in Shape(Alive \cup {0})
  PROVE  /\ \A c \in Point : /\ [p EXCEPT !.pos = c] \in Shape(Alive \cup {0})
                             /\ [p EXCEPT !.pos = c].health = p.health
         /\ \A m \in Seq(Keys) : /\ setMoves(p, m) \in Shape(Alive \cup {0})
                                 /\ setMoves(p, m).health = p.health
         /\ \A h \in Outcome : setHealth(p, h) \in Shape(Alive \cup {0})
         /\ \A h \in Alive : setHealth(p, h).health = h /\ h \in Outcome
         /\ \A d \in {-1, 1} : applyForce(p, d) \in Shape(Alive \cup {0})
<1>1. \A d \in {-1, 1} : d * Speed \in -Speed..Speed
  BY Constants
<1>2. \A h \in Alive : h \in Int /\ ~ (h <= 0)
  BY DEF Alive
<1>3. \A h \in Alive : h \in Outcome
  BY <1>2 DEF Outcome
<1>4. \A h \in Outcome : setHealth(p, h) \in Shape(Alive \cup {0})
  BY <1>2 DEF setHealth, Shape, Outcome
<1>5. \A h \in Alive : setHealth(p, h).health = h
  BY <1>2 DEF setHealth, Shape
<1>6. \A d \in {-1, 1} : applyForce(p, d) \in Shape(Alive \cup {0})
  BY <1>1 DEF applyForce, Shape
<1>7. \A c \in Point : /\ [p EXCEPT !.pos = c] \in Shape(Alive \cup {0})
                       /\ [p EXCEPT !.pos = c].health = p.health
  BY DEF Shape
<1>8. \A m \in Seq(Keys) : /\ setMoves(p, m) \in Shape(Alive \cup {0})
                           /\ setMoves(p, m).health = p.health
  BY DEF setMoves, Shape
<1> QED
  BY <1>3, <1>4, <1>5, <1>6, <1>7, <1>8

(* Player and image start alive.                                           *)
LEMMA ReplicaInvInit == ReplicaInit => ReplicaInv
<1> SUFFICES ASSUME ReplicaInit PROVE ReplicaInv
  OBVIOUS
<1>1. player \in Bodies /\ image \in Bodies
  BY ReplicaAssumption, BodyType DEF ReplicaInit
<1>2. image \in Shape(Alive \cup {0}) /\ image.health \in Alive
  BY <1>1 DEF Bodies, Shape
<1>3. data \in Info /\ local \in Local
  BY <1>1, getInfoType, NothingReadType DEF ReplicaInit
<1>4. link \in Seq(Info) /\ Len(link) <= MaxLink
  BY ReplicaAssumption DEF ReplicaInit
<1>5. inputs \in 0..MaxInputs
  BY ReplicaAssumption DEF ReplicaInit
<1> QED
  BY <1>1, <1>2, <1>3, <1>4, <1>5 DEF ReplicaInit, ReplicaInv

(* The player's client.                                                    *)
LEMMA PlayerStep ==
  ASSUME ReplicaInv,
         \/ \E key \in Keys : Key(key)
         \/ Tick
         \/ \E tick \in BOOLEAN, direction \in {-1, 1} : Struck(tick, direction)
         \/ Send
  PROVE  ReplicaInv'
<1>0. player \in Bodies /\ inputs \in 0..MaxInputs /\ MaxInputs \in Nat /\ MaxLink \in Nat
  BY ReplicaAssumption DEF ReplicaInv
<1>1. ASSUME player' \in Bodies, inputs' \in 0..MaxInputs, UNCHANGED <<link, atImage>>
      PROVE  ReplicaInv'
  BY <1>1 DEF ReplicaInv, atImage
<1>2. Input => inputs' \in 0..MaxInputs
  BY <1>0 DEF Input
<1>3. ASSUME NEW key \in Keys, Key(key)
      PROVE  ReplicaInv'
  <2>1. player' \in Bodies
    BY <1>0, <1>3, KeyTypes DEF Key, Bodies
  <2> QED
    BY <1>1, <1>2, <1>3, <2>1 DEF Key
<1>4. CASE Tick
  <2>1. player' \in Bodies
    <3>1. <<>> \in Seq({-1, 1}) /\ TRUE \in BOOLEAN
      OBVIOUS
    <3> QED
      BY <1>0, <1>4, <3>1, UpdatedType DEF Tick
  <2> QED
    BY <1>0, <1>1, <1>4, <2>1 DEF Tick
<1>5. ASSUME NEW tick \in BOOLEAN, NEW direction \in {-1, 1}, Struck(tick, direction)
      PROVE  ReplicaInv'
  <2>1. <<direction>> \in Seq({-1, 1})
    OBVIOUS
  <2>2. player' \in Bodies
    BY <1>0, <1>5, <2>1, UpdatedType DEF Struck
  <2> QED
    BY <1>1, <1>2, <1>5, <2>2 DEF Struck
<1>6. CASE Send
  <2>1. getInfo(player) \in Info
    BY <1>0, getInfoType
  <2>2. link' \in Seq(Info) /\ Len(link') <= MaxLink
    <3>1. link \in Seq(Info) /\ Len(link) < MaxLink /\ link' = Append(link, getInfo(player))
      BY <1>6 DEF Send, ReplicaInv
    <3>2. link' \in Seq(Info) /\ Len(link') = Len(link) + 1 /\ Len(link) \in Nat
      BY <2>1, <3>1
    <3> QED
      BY <1>0, <3>1, <3>2
  <2> QED
    BY <1>6, <2>2 DEF Send, ReplicaInv, atImage
<1> QED
  BY <1>3, <1>4, <1>5, <1>6

(* The connection thread writes places, keys and healths of players.       *)
LEMMA ApplyStep ==
  ASSUME ReplicaInv, Apply
  PROVE  ReplicaInv'
<1>0. image \in Shape(Alive \cup {0}) /\ data \in Info /\ link \in Seq(Info)
  BY DEF ReplicaInv
<1>1. CASE apply_pos
  <2>1. Head(link) \in Info /\ link' \in Seq(Info) /\ Len(link') <= MaxLink
    <3>1. link # <<>> /\ link' = Tail(link) /\ Len(link) <= MaxLink
      BY <1>1 DEF apply_pos, ReplicaInv
    <3>2. Head(link) \in Info /\ link' \in Seq(Info) /\ Len(link') = Len(link) - 1
      BY <1>0, <3>1, HeadTailProperties
    <3>3. Len(link) \in Nat
      BY <1>0
    <3> QED
      BY <3>1, <3>2, <3>3, ReplicaAssumption
  <2>2. Head(link).pos \in Point
    BY <2>1 DEF Info
  <2>3. image' \in Shape(Alive \cup {0}) /\ image'.health = image.health
    BY <1>0, <1>1, <2>2, Image DEF apply_pos
  <2> QED
    BY <1>1, <2>1, <2>3 DEF apply_pos, atMain, ReplicaInv
<1>2. CASE apply_moves
  <2>1. data.moves \in Seq(Keys)
    BY <1>0 DEF Info
  <2>2. image' \in Shape(Alive \cup {0}) /\ image'.health = image.health
    BY <1>0, <1>2, <2>1, Image DEF apply_moves
  <2> QED
    BY <1>2, <2>2 DEF apply_moves, atMain, ReplicaInv
<1>3. CASE apply_health
  <2>1. data.health \in Alive
    BY <1>0 DEF Info
  <2>2. image' \in Shape(Alive \cup {0}) /\ image'.health \in Alive
    BY <1>0, <1>3, <2>1, Image DEF apply_health
  <2> QED
    BY <1>3, <2>2 DEF apply_health, atMain, ReplicaInv
<1> QED
  BY <1>1, <1>2, <1>3 DEF Apply

(* The main thread of the image's client.                                  *)
LEMMA MainStep ==
  ASSUME ReplicaInv, Shown \/ \E direction \in {-1, 1} : image_struck(direction)
  PROVE  ReplicaInv'
<1>0. /\ image \in Shape(Alive \cup {0}) /\ local \in Local
      /\ local.tick \in BOOLEAN /\ local.direction \in {-1, 1} /\ local.pos \in Point
      /\ inputs \in 0..MaxInputs /\ MaxInputs \in Nat
  BY ReplicaAssumption DEF ReplicaInv, Local
<1>1. ASSUME image' \in Shape(Alive \cup {0}), local' \in Local,
             inputs' \in 0..MaxInputs, UNCHANGED elsewhere,
             turn' \in {"update", "axes", "hurt", "check", "clear", "revive", "place", "move"},
             turn' = "hurt" => local'.health \in Outcome,
             turn' \in {"update", "axes", "hurt", "place", "move"} => image'.health \in Alive
      PROVE  ReplicaInv'
  BY <1>1 DEF ReplicaInv, elsewhere
<1>2. ASSUME NEW tick \in BOOLEAN, image_update(tick)
      PROVE  ReplicaInv'
  <2>1. image' \in Shape(Alive \cup {0}) /\ image'.health = image.health
    BY <1>0, <1>2, updateType DEF image_update
  <2>2. local' \in Local
    BY <1>0, <1>2 DEF image_update, Local
  <2>3. image.health \in Alive /\ turn' = "axes" /\ UNCHANGED <<inputs, elsewhere>>
    BY <1>2 DEF image_update, ReplicaInv
  <2> QED
    BY <1>0, <1>1, <2>1, <2>2, <2>3
<1>3. ASSUME NEW direction \in {-1, 1}, image_struck(direction)
      PROVE  ReplicaInv'
  <2>1. image.health \in Alive
    BY <1>3 DEF image_struck, ReplicaInv
  <2>2. image.health - Damage \in Int /\ image.health - Damage \in Outcome
    <3>1. image.health \in Int /\ image.health - Damage \in Int
      BY <2>1, Constants DEF Alive
    <3>2. image.health - Damage >= 1 => image.health - Damage \in Alive
      BY <2>1, HurtIsAlive
    <3> QED
      BY <3>1, <3>2 DEF Outcome
  <2>3. local' \in Local /\ local'.health = image.health - Damage
    BY <1>0, <1>3, <2>2 DEF image_struck, Local
  <2>4. inputs' \in 0..MaxInputs
    BY <1>0, <1>3 DEF image_struck, Input
  <2>5. turn' = "hurt" /\ image' = image /\ UNCHANGED elsewhere
    BY <1>3 DEF image_struck
  <2> QED
    BY <1>0, <1>1, <2>1, <2>2, <2>3, <2>4, <2>5
<1>4. CASE image_hurt
  <2>1. local.health \in Outcome
    BY <1>4 DEF image_hurt, ReplicaInv
  <2>2. setHealth(image, local.health) \in Shape(Alive \cup {0})
    BY <1>0, <2>1, Image
  <2>3. image' \in Shape(Alive \cup {0})
    BY <1>0, <1>4, <2>2, Image DEF image_hurt
  <2>4. local' \in Local
    BY <1>0, <1>4, NothingReadType DEF image_hurt, Local
  <2>5. turn' = "check" /\ UNCHANGED <<inputs, elsewhere>>
    BY <1>4 DEF image_hurt
  <2> QED
    BY <1>0, <1>1, <2>3, <2>4, <2>5
<1>5. CASE image_check
  <2>1. turn' \in {"clear", "axes"} /\ UNCHANGED <<image, local, inputs, elsewhere>>
    BY <1>5 DEF image_check
  <2>2. turn' = "axes" => image.health \in Alive
    BY <1>0, <1>5 DEF image_check, Shape
  <2>3. turn' # "hurt" /\ turn' # "update" /\ turn' # "place" /\ turn' # "move"
    BY <2>1
  <2> QED
    BY <1>0, <1>1, <2>1, <2>2, <2>3
<1>6. CASE image_clear
  <2>1. 0 \in -Speed..Speed
    BY Constants
  <2>2. image' \in Shape(Alive \cup {0})
    <3>1. <<>> \in Seq(Keys) /\ [x |-> 0, y |-> 0] \in Velocities
      BY DEF Velocities
    <3>2. image' = [image EXCEPT !.moves = <<>>, !.force = 0, !.pushed = FALSE,
                                   !.velocity = [x |-> 0, y |-> 0]]
      BY <1>6 DEF image_clear
    <3> QED
      BY <1>0, <2>1, <3>1, <3>2 DEF Shape
  <2>3. turn' = "revive" /\ UNCHANGED <<local, inputs, elsewhere>>
    BY <1>6 DEF image_clear
  <2> QED
    BY <1>0, <1>1, <2>2, <2>3
<1>7. CASE image_revive
  <2>1. image' \in Shape(Alive \cup {0}) /\ image'.health \in Alive
    <3>1. image' = setHealth(image, FullHealth)
      BY <1>7 DEF image_revive, Revived
    <3>2. setHealth(image, FullHealth).health = FullHealth /\ FullHealth \in Outcome
      BY <1>0, FullIsAlive, Image
    <3>3. setHealth(image, FullHealth) \in Shape(Alive \cup {0})
      BY <1>0, <3>2, Image
    <3> QED
      BY <3>1, <3>2, <3>3, FullIsAlive
  <2>2. turn' = "place" /\ UNCHANGED <<local, inputs, elsewhere>>
    BY <1>7 DEF image_revive
  <2> QED
    BY <1>0, <1>1, <2>1, <2>2
<1>8. CASE image_place
  <2>1. image' \in Shape(Alive \cup {0}) /\ image'.health = image.health
    BY <1>0, <1>8, Constants, Image DEF image_place
  <2>2. image.health \in Alive /\ turn' = "axes" /\ UNCHANGED <<local, inputs, elsewhere>>
    BY <1>8 DEF image_place, ReplicaInv
  <2> QED
    BY <1>0, <1>1, <2>1, <2>2
<1>9. CASE image_bounds
  <2>1. World_move(image).pos \in Point
    BY <1>0, World_moveType
  <2>2. local' \in Local
    BY <1>0, <1>9, <2>1, NothingReadType DEF image_bounds, Local
  <2>3. image.health \in Alive /\ image' = image /\ turn' \in {"move", "update"}
    BY <1>9 DEF image_bounds, ReplicaInv
  <2>4. UNCHANGED <<inputs, elsewhere>>
    BY <1>9 DEF image_bounds
  <2> QED
    BY <1>0, <1>1, <2>2, <2>3, <2>4
<1>10. CASE image_move
  <2>1. image' \in Shape(Alive \cup {0}) /\ image'.health = image.health
    BY <1>0, <1>10, Image DEF image_move
  <2>2. image.health \in Alive /\ turn' = "update" /\ UNCHANGED <<inputs, elsewhere>>
    BY <1>10 DEF image_move, ReplicaInv
  <2>3. local' \in Local
    BY <1>10, NothingReadType DEF image_move
  <2> QED
    BY <1>0, <1>1, <2>1, <2>2, <2>3
<1> QED
  BY <1>2, <1>3, <1>4, <1>5, <1>6, <1>7, <1>8, <1>9, <1>10 DEF Shown

(* No access of either thread breaks the invariant of Replica.             *)
LEMMA ReplicaInvStep == ReplicaInv /\ [ReplicaNext]_replicaVars => ReplicaInv'
<1> SUFFICES ASSUME ReplicaInv, [ReplicaNext]_replicaVars
             PROVE  ReplicaInv'
  OBVIOUS
<1>1. CASE UNCHANGED replicaVars
  BY <1>1 DEF ReplicaInv, replicaVars
<1>2. CASE ReplicaNext
  BY <1>2, PlayerStep, ApplyStep, MainStep DEF ReplicaNext
<1> QED
  BY <1>1, <1>2

-----------------------------------------------------------------------------
(* A settled image.                                                        *)

(* Rest is what a turn leaves a player in who has neither keys nor force.  *)
LEMMA PlayerRests ==
  ASSUME ReplicaInv, Settled, Tick
  PROVE  player'.moves = <<>> /\ player'.force = 0 /\ getInfo(player') = getInfo(player)
<1> DEFINE q == update(player, TRUE)
<1>0. player \in Shape(Alive) /\ player.moves = <<>> /\ player.force = 0 /\ TRUE \in BOOLEAN
  BY DEF ReplicaInv, Bodies, Settled
<1>1. /\ q \in Shape(Alive)
      /\ q.pos = player.pos /\ q.moves = player.moves /\ q.health = player.health
  BY <1>0, updateType
<1>2. q.velocity = [x |-> 0, y |-> 0] /\ q.force = 0
  BY <1>0, updateRests
<1> HIDE DEF q
<1>3. World_move(q) = q
  BY <1>1, <1>2, World_moveType
<1>4. player' = q
  <2>1. Struck_by(q, <<>>) = q
    BY StruckMore
  <2> QED
    BY <1>3, <2>1 DEF Tick, Updated, Struck_by, q
<1> QED
  BY <1>0, <1>1, <1>2, <1>4 DEF getInfo

(* What has not been applied yet, after one more or one less.              *)
LEMMA LinkSettled ==
  ASSUME NEW s \in Seq(Info), NEW info \in Info, \A i \in ToSet(s) : i = info
  PROVE  /\ \A i \in ToSet(Append(s, info)) : i = info
         /\ s # <<>> => Head(s) = info /\ \A i \in ToSet(Tail(s)) : i = info
<1>1. \A i \in 1..Len(s) : s[i] = info
  BY DEF ToSet
<1>2. \A i \in ToSet(Append(s, info)) : i = info
  BY <1>1 DEF ToSet
<1>3. ASSUME s # <<>>
      PROVE  Head(s) = info /\ \A i \in ToSet(Tail(s)) : i = info
  BY <1>1, <1>3 DEF ToSet
<1> QED
  BY <1>2, <1>3

(* Every step that is neither a key nor a hit finds nothing to change: the *)
(* updates say what the image is already, and the place that World::move   *)
(* writes, if it writes one, is where the image is.                        *)
LEMMA SettledStep ==
  ReplicaInv /\ [ReplicaNext]_replicaVars => (Settled /\ inputs' = inputs => Settled')
<1> SUFFICES ASSUME ReplicaInv, [ReplicaNext]_replicaVars, Settled, inputs' = inputs
             PROVE  Settled'
  OBVIOUS
<1>0. /\ player \in Bodies /\ image \in Shape(Alive \cup {0}) /\ link \in Seq(Info)
      /\ data \in Info /\ getInfo(player) \in Info
      /\ getInfo(image) = getInfo(player)
      /\ \A info \in ToSet(link) : info = getInfo(player)
      /\ turn \in {"update", "axes", "move"} /\ image.force = 0
      /\ turn = "move" => local.pos = player.pos
      /\ player.moves = <<>> /\ player.force = 0
  BY getInfoType DEF ReplicaInv, Settled
<1>1. image.pos = player.pos /\ image.moves = <<>> /\ image.health = player.health
  BY <1>0 DEF getInfo
<1>2. player.health \in Alive
  BY <1>0 DEF Bodies, Shape
<1>3. ~ Input
  BY DEF Input, ReplicaInv
<1>4. CASE Tick
  <2>1. player'.moves = <<>> /\ player'.force = 0 /\ getInfo(player') = getInfo(player)
    BY <1>4, PlayerRests
  <2>2. UNCHANGED <<image, link, data, stage, turn, local>>
    BY <1>4 DEF Tick, atImage
  <2>3. player'.pos = player.pos
    BY <2>1 DEF getInfo
  <2> QED
    BY <2>1, <2>2, <2>3 DEF Settled
<1>5. CASE Send
  <2>1. \A info \in ToSet(link') : info = getInfo(player)
    BY <1>0, <1>5, LinkSettled DEF Send
  <2>2. UNCHANGED <<player, image, data, stage, turn, local>>
    BY <1>5 DEF Send, atImage
  <2> QED
    BY <2>1, <2>2 DEF Settled
<1>6. CASE apply_pos
  <2>1. data' = getInfo(player) /\ \A info \in ToSet(link') : info = getInfo(player)
    BY <1>0, <1>6, LinkSettled DEF apply_pos
  <2>2. image' = [image EXCEPT !.pos = image.pos]
    BY <1>1, <1>6, <2>1 DEF apply_pos, getInfo
  <2>3. image' = image /\ UNCHANGED <<player, turn, local>>
    BY <1>0, <1>6, <2>2 DEF apply_pos, atMain, Shape
  <2> QED
    BY <2>1, <2>3 DEF Settled
<1>7. CASE apply_moves
  <2>1. data = getInfo(player)
    BY <1>7 DEF apply_moves, Settled
  <2>2. image' = [image EXCEPT !.moves = image.moves]
    BY <1>0, <1>1, <1>7, <2>1 DEF apply_moves, setMoves, getInfo
  <2>3. image' = image /\ UNCHANGED <<player, link, data, turn, local>>
    BY <1>0, <1>7, <2>2 DEF apply_moves, atMain, Shape
  <2> QED
    BY <2>1, <2>3 DEF Settled
<1>8. CASE apply_health
  <2>1. data.health = image.health
    BY <1>1, <1>8 DEF apply_health, Settled, getInfo
  <2>2. image.health \in Int /\ ~ (image.health <= 0)
    BY <1>1, <1>2 DEF Alive
  <2>3. image' = [image EXCEPT !.health = image.health]
    BY <1>8, <2>1, <2>2 DEF apply_health, setHealth
  <2>4. /\ image' = image /\ stage' = "position"
        /\ UNCHANGED <<player, link, data, turn, local>>
    BY <1>0, <1>8, <2>3 DEF apply_health, atMain, Shape
  <2> QED
    BY <2>4 DEF Settled
<1>9. ASSUME NEW tick \in BOOLEAN, image_update(tick)
      PROVE  Settled'
  <2>1. image'.velocity = [x |-> 0, y |-> 0] /\ image'.force = 0
    BY <1>0, <1>1, <1>9, updateRests DEF image_update
  <2>2. image'.pos = image.pos /\ image'.moves = image.moves /\ image'.health = image.health
    BY <1>0, <1>9, updateType DEF image_update
  <2>3. getInfo(image') = getInfo(player)
    BY <1>0, <2>2 DEF getInfo
  <2>4. turn' = "axes" /\ UNCHANGED <<player, link, data, stage>>
    BY <1>9 DEF image_update, elsewhere
  <2> QED
    BY <2>1, <2>3, <2>4 DEF Settled
<1>10. CASE image_bounds
  <2>1. World_move(image) = image
    BY <1>0, <1>10, World_moveType DEF image_bounds, Settled
  <2>2. turn' \in {"move", "update"} /\ (turn' = "move" => local'.pos = player.pos)
    <3>1. Moving => local'.pos = image.pos
      BY <1>0, <1>10, <2>1 DEF image_bounds, ReplicaInv, Local
    <3>2. turn' = IF Moving THEN "move" ELSE "update"
      BY <1>10 DEF image_bounds
    <3> QED
      BY <1>1, <3>1, <3>2
  <2>3. UNCHANGED <<player, image, link, data, stage>>
    BY <1>10 DEF image_bounds, elsewhere
  <2> QED
    BY <2>2, <2>3 DEF Settled
<1>11. CASE UNCHANGED replicaVars
  BY <1>11 DEF replicaVars, Settled
<1>12. CASE image_move
  <2>1. image' = [image EXCEPT !.pos = image.pos]
    BY <1>0, <1>1, <1>12 DEF image_move
  <2>2. image' = image /\ turn' = "update" /\ UNCHANGED <<player, link, data, stage>>
    BY <1>0, <1>12, <2>1 DEF image_move, elsewhere, Shape
  <2> QED
    BY <2>2 DEF Settled
<1>13. /\ ~ image_hurt /\ ~ image_check /\ ~ image_clear /\ ~ image_revive
       /\ ~ image_place
  BY <1>0 DEF image_hurt, image_check, image_clear, image_revive, image_place
<1>14. /\ \A key \in Keys : ~ Key(key)
       /\ \A tick \in BOOLEAN, direction \in {-1, 1} : ~ Struck(tick, direction)
       /\ \A direction \in {-1, 1} : ~ image_struck(direction)
  BY <1>3 DEF Key, Struck, image_struck
<1> QED
  BY <1>4, <1>5, <1>6, <1>7, <1>8, <1>9, <1>10, <1>11, <1>12, <1>13,
     <1>14
     DEF ReplicaNext, Apply, Shown

-----------------------------------------------------------------------------
(* The theorems.                                                           *)

(* The inductive invariant of a player and its image.                      *)
THEOREM ReplicaInvariant == ReplicaSpec => []ReplicaInv
  BY ReplicaInvInit, ReplicaInvStep, PTL DEF ReplicaSpec

(* However World::apply_info and World::update interleave, a player and    *)
(* its image keep their types: no write of the one tears what the other    *)
(* has read.                                                               *)
THEOREM ReplicaTypeCorrect == ReplicaSpec => []ReplicaTypeOK
<1>1. ReplicaInv => ReplicaTypeOK
  <2> SUFFICES ASSUME ReplicaInv PROVE ReplicaTypeOK
    OBVIOUS
  <2>1. Alive \subseteq 0..FullHealth /\ 0 \in 0..FullHealth
    BY Constants DEF Alive
  <2>2. \A p \in {player, image} :
          /\ p.pos \in Point /\ p.moves \in Seq(Keys) /\ p.velocity \in Velocities
          /\ p.force \in -Speed..Speed /\ p.pushed \in BOOLEAN
          /\ p.health \in 0..FullHealth
    BY <2>1 DEF ReplicaInv, Bodies, Shape
  <2>3. TurnOK
    BY DEF ReplicaInv, Local, TurnOK
  <2> QED
    BY <2>2, <2>3 DEF ReplicaInv, ReplicaTypeOK, Velocities
<1> QED
  BY <1>1, ReplicaInvariant, PTL

(* The image lives whenever Player::takeDamage is not at work on it, even  *)
(* if apply_health writes between its reads and writes, so that nobody is  *)
(* shown, hit again or moved without health; and the player itself is      *)
(* never seen, nor sent, without health.                                   *)
THEOREM ImageStaysAlive == ReplicaSpec => []ImageAlive
<1>1. ReplicaInv => ImageAlive
  BY DEF ReplicaInv, ImageAlive, Bodies, Shape
<1> QED
  BY <1>1, ReplicaInvariant, PTL

(* A player and an image that stand still, with nothing under way that     *)
(* disagrees, agree until the next key or hit, however the updates and the *)
(* two threads interleave: World::apply_info and World::update never undo  *)
(* each other's work then, even while World::move keeps rewriting the      *)
(* place of an image that was hit.                                         *)
THEOREM SettledImageStays == ReplicaSpec => SettledStays
<1>1. ReplicaInv /\ [ReplicaNext]_replicaVars =>
        [Settled /\ inputs' = inputs => Settled']_replicaVars
  BY SettledStep
<1> QED
  BY <1>1, ReplicaInvariant, PTL DEF ReplicaSpec, SettledStays

=============================================================================
