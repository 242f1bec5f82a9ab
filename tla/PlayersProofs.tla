--------------------------- MODULE PlayersProofs ----------------------------
(***************************************************************************)
(* Lemmas about the operators of Players, for every map and every size,    *)
(* speed and damage: what a key, a hit, a turn and a move make of a player *)
(* (client/src/game.cpp).  The proofs about Arena, Combat and Replica cite *)
(* them.                                                                   *)
(***************************************************************************)
EXTENDS Players, SequenceTheorems, FiniteSetTheorems, WellFoundedInduction, TLAPS

(* The axes of one World::update hit a player in turn.                     *)
Hit == INSTANCE FoldProofs WITH Op <- takeDamage

Velocities == [x : {-Speed, 0, Speed}, y : {-Speed, 0, Speed}]

(* The players with a health in H.                                         *)
Shape(H) ==
  [pos : Point, moves : Seq(Keys), velocity : Velocities, force : -Speed..Speed,
   pushed : BOOLEAN, health : H]

Bodies == Shape(Alive)

(* The constants, each by itself.                                          *)
LEMMA Constants ==
  /\ Width \in Nat \ {0} /\ Height \in Nat \ {0} /\ Speed \in Nat \ {0}
  /\ Damage \in Nat \ {0} /\ FullHealth \in Nat \ {0}
  /\ Centre \in Point
  BY PlayersAssumption

-----------------------------------------------------------------------------
(* Remainders by a number that is not known.                               *)

(* Quotient and remainder of an integer.                                   *)
LEMMA DivMod ==
  ASSUME NEW a \in Int, NEW d \in Nat \ {0}
  PROVE  \E q \in Int : \E r \in 0..(d - 1) : r = a % d /\ a = d * q + r
<1>1. PICK q \in Int : q = a \div d
  OBVIOUS
<1>2. PICK r \in 0..(d - 1) : r = a % d
  OBVIOUS
<1>3. a = d * q + r
  BY <1>1, <1>2, Z3
<1> QED
  BY <1>2, <1>3

(* A multiple that is not zero is at least the divisor away from it.       *)
LEMMA Multiples ==
  ASSUME NEW d \in Nat \ {0}, NEW k \in Int
  PROVE  /\ k >= 1 => d * k >= d
         /\ k <= -1 => d * k <= -d
  OBVIOUS

(* Only one remainder is smaller than d.                                   *)
LEMMA Remainder ==
  ASSUME NEW d \in Nat \ {0}, NEW k \in Int, NEW r \in 0..(d - 1)
  PROVE  (d * k + r) % d = r
<1>1. d * k + r \in Int
  OBVIOUS
<1>2. PICK q \in Int :
        \E s \in 0..(d - 1) : s = (d * k + r) % d /\ d * k + r = d * q + s
  BY <1>1, DivMod
<1>3. PICK s \in 0..(d - 1) : s = (d * k + r) % d /\ d * k + r = d * q + s
  BY <1>2
<1>4. d * (k - q) = s - r
  BY <1>3
<1>5. k - q \in Int /\ ~ (k - q >= 1) /\ ~ (k - q <= -1)
  BY <1>4, Multiples
<1> QED
  BY <1>3, <1>5

(* Multiples of d do not matter to a remainder by d.                       *)
LEMMA AddMultiple ==
  ASSUME NEW a \in Int, NEW d \in Nat \ {0}, NEW k \in Int
  PROVE  (a + d * k) % d = a % d
<1>1. PICK q \in Int : \E r \in 0..(d - 1) : r = a % d /\ a = d * q + r
  BY DivMod
<1>2. PICK r \in 0..(d - 1) : r = a % d /\ a = d * q + r
  BY <1>1
<1>3. q + k \in Int /\ a + d * k = d * (q + k) + r
  BY <1>2
<1> QED
  BY <1>2, <1>3, Remainder

-----------------------------------------------------------------------------
(* Health and hits.                                                        *)

(* A player with full health lives.                                        *)
LEMMA FullIsAlive == FullHealth \in Alive
<1>1. (FullHealth - FullHealth) % Damage = 0
  <2>1. Damage * 0 + 0 = FullHealth - FullHealth /\ 0 \in 0..(Damage - 1)
    BY Constants
  <2> QED
    BY <2>1, Constants, Remainder
<1> QED
  BY <1>1, Constants DEF Alive

(* A hit that leaves some health leaves one of the healths of a player.    *)
LEMMA HurtIsAlive ==
  ASSUME NEW h \in Alive, h - Damage >= 1
  PROVE  h - Damage \in Alive
<1>1. h \in 1..FullHealth /\ (FullHealth - h) % Damage = 0
  BY DEF Alive
<1>2. (FullHealth - h + Damage * 1) % Damage = (FullHealth - h) % Damage
  <2> DEFINE a == FullHealth - h
  <2>1. a \in Int /\ 1 \in Int
    BY <1>1, Constants
  <2> HIDE DEF a
  <2>2. (a + Damage * 1) % Damage = a % Damage
    BY <2>1, Constants, AddMultiple, Zenon
  <2> QED
    BY <2>2 DEF a
<1>3. FullHealth - (h - Damage) = FullHealth - h + Damage * 1
  BY <1>1, Constants
<1>4. h - Damage \in 1..FullHealth
  BY <1>1, Constants
<1>5. (FullHealth - (h - Damage)) % Damage = 0
  BY <1>1, <1>2, <1>3, Zenon
<1> QED
  BY <1>4, <1>5, Zenon DEF Alive

(* A player of a world is one.                                             *)
LEMMA BodyType ==
  ASSUME NEW c \in Point
  PROVE  Body(c) \in Bodies
<1>1. 0 \in -Speed..Speed
  BY Constants
<1> QED
  BY <1>1, FullIsAlive DEF Body, Bodies, Shape, Velocities

(* Player::takeDamage, without the zero health in between.                 *)
LEMMA takeDamageIs ==
  ASSUME NEW p \in Bodies, NEW d \in {-1, 1}
  PROVE  takeDamage(p, d) =
           IF p.health <= Damage THEN Body(Centre)
           ELSE [p EXCEPT !.health = p.health - Damage, !.force = d * Speed,
                          !.pushed = TRUE]
<1>1. p.health \in Int /\ Damage \in Int
  BY Constants DEF Bodies, Shape, Alive
<1>2. CASE p.health <= Damage
  BY <1>1, <1>2 DEF takeDamage, setHealth, applyForce, die, Bodies, Shape
<1>3. CASE ~ (p.health <= Damage)
  <2>1. ~ (p.health - Damage <= 0)
    BY <1>1, <1>3
  <2>2. setHealth(p, p.health - Damage) = [p EXCEPT !.health = p.health - Damage]
    BY <2>1 DEF setHealth
  <2> DEFINE q == [p EXCEPT !.health = p.health - Damage, !.force = d * Speed,
                            !.pushed = TRUE]
  <2>3. applyForce(setHealth(p, p.health - Damage), d) = q
    BY <2>2 DEF applyForce
  <2>4. q.health = p.health - Damage
    BY DEF Bodies, Shape
  <2> HIDE DEF q
  <2>5. takeDamage(p, d) = q
    BY <2>1, <2>3, <2>4 DEF takeDamage
  <2> QED
    BY <1>3, <2>5 DEF q
<1> QED
  BY <1>2, <1>3

(* A hit leaves a living player: who dies starts again with full health.   *)
LEMMA takeDamageType ==
  ASSUME NEW p \in Bodies, NEW d \in {-1, 1}
  PROVE  takeDamage(p, d) \in Bodies
<1>1. p.health \in Alive /\ p.health \in Int
  BY Constants DEF Bodies, Shape, Alive
<1>2. CASE p.health <= Damage
  BY <1>2, takeDamageIs, BodyType, Constants
<1>3. CASE ~ (p.health <= Damage)
  <2>1. p.health - Damage \in Alive
    BY <1>1, <1>3, HurtIsAlive, Constants
  <2>2. d * Speed \in -Speed..Speed
    BY Constants
  <2>3. takeDamage(p, d) = [p EXCEPT !.health = p.health - Damage, !.force = d * Speed,
                                     !.pushed = TRUE]
    BY <1>3, takeDamageIs
  <2> QED
    BY <2>1, <2>2, <2>3 DEF Bodies, Shape
<1> QED
  BY <1>2, <1>3

(* What the axes of one update make of a player.                           *)
Struck_by(p, axes) == FoldLeft(takeDamage, p, axes)

(* The hits of one update as a fold.                                       *)
LEMMA StruckIsFold ==
  ASSUME NEW p, NEW axes \in Seq({-1, 1})
  PROVE  Struck_by(p, axes) = Hit!Folded(p, axes)
<1>1. \A s : Hit!Max(s) = Max(s)
  BY Zenon DEF Max, Hit!Max
<1>2. DOMAIN axes = 1..Len(axes)
  OBVIOUS
<1> QED
  BY <1>1, <1>2 DEF Struck_by, FoldLeft, MapThenFoldSet, Hit!Folded, Hit!FoldEq

(* What every hit keeps, any number of hits keeps.                         *)
LEMMA StruckStays ==
  ASSUME NEW P, NEW p \in P, NEW axes \in Seq({-1, 1}),
         \A q \in P, d \in {-1, 1} : takeDamage(q, d) \in P
  PROVE  Struck_by(p, axes) \in P
  BY StruckIsFold, Hit!FoldStays

(* No axe does nothing, and one more axe is one more hit.                  *)
LEMMA StruckMore ==
  ASSUME NEW p
  PROVE  /\ Struck_by(p, <<>>) = p
         /\ \A axes \in Seq({-1, 1}), d \in {-1, 1} :
              Struck_by(p, Append(axes, d)) = takeDamage(Struck_by(p, axes), d)
<1>1. Struck_by(p, <<>>) = p
  <2>1. <<>> \in Seq({-1, 1}) /\ Len(<<>>) = 0
    OBVIOUS
  <2>2. PICK f : /\ f[0] = p
                 /\ \A i \in 1..Len(<<>>) : f[i] = takeDamage(f[i - 1], <<>>[i])
                 /\ f[Len(<<>>)] = Hit!Folded(p, <<>>)
    BY ONLY <2>1, Hit!FoldChain, ZenonT(30)
  <2>3. Hit!Folded(p, <<>>) = p
    BY <2>1, <2>2
  <2> QED
    BY <2>1, <2>3, StruckIsFold
<1>2. ASSUME NEW axes \in Seq({-1, 1}), NEW d \in {-1, 1}
      PROVE  Struck_by(p, Append(axes, d)) = takeDamage(Struck_by(p, axes), d)
  <2>1. Append(axes, d) \in Seq({-1, 1})
    OBVIOUS
  <2>2. Struck_by(p, Append(axes, d)) = Hit!Folded(p, Append(axes, d))
    BY <2>1, StruckIsFold
  <2> QED
    BY <2>2, StruckIsFold, Hit!FoldAppend
<1> QED
  BY <1>1, <1>2

-----------------------------------------------------------------------------
(* One turn of a player.                                                   *)

(* A tick of Player::update changes the force on a player, and nothing     *)
(* else.                                                                   *)
LEMMA updateType ==
  ASSUME NEW H, NEW p \in Shape(H), NEW tick \in BOOLEAN
  PROVE  /\ update(p, tick) \in Shape(H)
         /\ update(p, tick).pos = p.pos
         /\ update(p, tick).moves = p.moves
         /\ update(p, tick).health = p.health
<1>1. \A K, k : Toward(p, K, k) \in {-Speed, 0, Speed}
  BY DEF Toward
<1>2. \A f \in -Speed..Speed : interpolate(f) \in -Speed..Speed
  BY Constants DEF interpolate
<1> HIDE DEF Toward, interpolate
<1> QED
  BY <1>1, <1>2 DEF update, Sprite_update, Shape, Velocities

(* A player without keys and without a force is at rest after its turn,    *)
(* whatever velocity the last one left.                                    *)
LEMMA updateRests ==
  ASSUME NEW H, NEW p \in Shape(H), NEW tick \in BOOLEAN, p.moves = <<>>, p.force = 0
  PROVE  update(p, tick).velocity = [x |-> 0, y |-> 0] /\ update(p, tick).force = 0
<1>1. \A K, k : Toward(p, K, k) = 0
  <2>1. 1..Len(<<>>) = {}
    OBVIOUS
  <2> QED
    BY <2>1 DEF Toward, Latest, SelectLastInSeq
<1>2. interpolate(0) = 0
  BY DEF interpolate
<1> HIDE DEF Toward, interpolate
<1> QED
  BY <1>1, <1>2 DEF update, Sprite_update, Shape, Velocities

(* World::move changes the place of a player, and not without a velocity.  *)
LEMMA World_moveType ==
  ASSUME NEW H, NEW p \in Shape(H)
  PROVE  /\ World_move(p) \in Shape(H)
         /\ World_move(p).pos \in Point
         /\ World_move(p).moves = p.moves
         /\ World_move(p).health = p.health
         /\ p.velocity = [x |-> 0, y |-> 0] /\ p.force = 0 => World_move(p) = p
<1> DEFINE vx == p.velocity.x + p.force
           vy == p.velocity.y
<1>1. vx \in Int /\ vy \in Int /\ p.pos \in Point
  BY Constants DEF Shape, Velocities
<1>2. p.pos.x \in Int /\ p.pos.y \in Int
  BY <1>1 DEF Point
<1>3. CASE AtRestX(p) /\ vy = 0
  BY <1>1, <1>3 DEF World_move, Shape
<1>4. CASE ~ (AtRestX(p) /\ vy = 0)
  <2>1. PICK X \in {p.pos.x, p.pos.x + vx}, Y \in {p.pos.y, p.pos.y + vy} :
          World_move(p) = [p EXCEPT !.pos = [x |-> X, y |-> Y]]
    BY <1>4 DEF World_move
  <2>2. [x |-> X, y |-> Y] \in Point
    BY <1>1, <1>2 DEF Point
  <2>3. ASSUME p.velocity = [x |-> 0, y |-> 0], p.force = 0
        PROVE  World_move(p) = p
    <3>1. X = p.pos.x /\ Y = p.pos.y
      BY <1>2, <2>1, <2>3
    <3>2. [x |-> X, y |-> Y] = p.pos
      BY <1>1, <3>1 DEF Point
    <3> QED
      BY <2>1, <3>2 DEF Shape
  <2> HIDE DEF vx, vy
  <2> QED
    BY <2>1, <2>2, <2>3 DEF Shape
<1> QED
  BY <1>3, <1>4

(* World::update keeps the types of the player.                            *)
LEMMA UpdatedType ==
  ASSUME NEW p \in Bodies, NEW tick \in BOOLEAN, NEW axes \in Seq({-1, 1})
  PROVE  Updated(p, tick, axes) \in Bodies
<1>1. update(p, tick) \in Bodies
  BY updateType DEF Bodies
<1>2. Struck_by(update(p, tick), axes) \in Bodies
  BY <1>1, takeDamageType, StruckStays
<1> QED
  BY <1>2, World_moveType DEF Updated, Struck_by, Bodies

-----------------------------------------------------------------------------
(* Sequences and sets of indices.                                          *)

(* A set of numbers has a least element.                                   *)
LEMMA MinOf ==
  ASSUME NEW I \in SUBSET Nat, I # {}
  PROVE  Min(I) \in I /\ \A j \in I : Min(I) <= j
<1> DEFINE Less == {ss \in Nat \X Nat : ss[1] < ss[2]}
<1>1. IsWellFoundedOn(Less, Nat)
  BY NatLessThanWellFounded DEF OpToRel
<1>2. PICK x \in I : \A y \in I : ~ (<<y, x>> \in Less)
  <2> HIDE DEF Less
  <2> QED
    BY <1>1, WFMin
<1>3. ASSUME NEW y \in I
      PROVE  x =< y
  <2>1. x \in Nat /\ y \in Nat
    BY <1>2
  <2>2. y < x => <<y, x>> \in Less
    BY <2>1
  <2> QED
    BY <1>2, <2>1, <2>2
<1> QED
  BY <1>3 DEF Min

(* SequencesExt's RemoveAt closes the gap.                                 *)
LEMMA RemoveAtIs ==
  ASSUME NEW S, NEW s \in Seq(S), NEW i \in 1..Len(s)
  PROVE  /\ RemoveAt(s, i) \in Seq(S)
         /\ Len(RemoveAt(s, i)) = Len(s) - 1
         /\ \A j \in 1..(Len(s) - 1) :
              RemoveAt(s, i)[j] = IF j < i THEN s[j] ELSE s[j + 1]
<1> DEFINE a == SubSeq(s, 1, i - 1)
           b == SubSeq(s, i + 1, Len(s))
<1>0. Len(s) \in Nat /\ \A j \in 1..Len(s) : s[j] \in S
  BY LenProperties, ElementOfSeq
<1>1. /\ a \in Seq(S)
      /\ Len(a) = i - 1
      /\ \A j \in 1..(i - 1) : a[j] = s[j]
  BY <1>0, SubSeqProperties
<1>2. /\ b \in Seq(S)
      /\ Len(b) = Len(s) - i
      /\ \A j \in 1..(Len(s) - i) : b[j] = s[i + j]
  <2>1. i + 1 \in Int /\ Len(s) \in Int /\ \A j \in (i + 1)..Len(s) : s[j] \in S
    BY <1>0
  <2>2. /\ b \in Seq(S)
        /\ Len(b) = IF i + 1 <= Len(s) THEN Len(s) - (i + 1) + 1 ELSE 0
        /\ \A j \in 1..(Len(s) - (i + 1) + 1) : b[j] = s[i + 1 + j - 1]
    BY <2>1, SubSeqProperties
  <2> HIDE DEF b
  <2>3. Len(b) = Len(s) - i
    BY <1>0, <2>2
  <2>4. ASSUME NEW j \in 1..(Len(s) - i)
        PROVE  b[j] = s[i + j]
    <3>1. j \in 1..(Len(s) - (i + 1) + 1) /\ i + 1 + j - 1 = i + j
      BY <1>0
    <3> QED
      BY <2>2, <3>1
  <2> QED
    BY <2>2, <2>3, <2>4
<1> HIDE DEF a, b
<1>3. /\ a \o b \in Seq(S)
      /\ Len(a \o b) = Len(a) + Len(b)
      /\ \A j \in 1..(Len(a) + Len(b)) :
           (a \o b)[j] = IF j <= Len(a) THEN a[j] ELSE b[j - Len(a)]
  BY <1>1, <1>2, ConcatProperties
<1>4. RemoveAt(s, i) = a \o b
  BY DEF RemoveAt, a, b
<1>5. ASSUME NEW j \in 1..(Len(s) - 1)
      PROVE  (a \o b)[j] = IF j < i THEN s[j] ELSE s[j + 1]
  <2>1. Len(a) + Len(b) = Len(s) - 1
    BY <1>0, <1>1, <1>2
  <2>2. CASE j < i
    BY <1>0, <1>1, <1>3, <2>1, <2>2
  <2>3. CASE ~ (j < i)
    <3>1. j - (i - 1) \in 1..(Len(s) - i) /\ ~ (j <= i - 1)
      BY <1>0, <2>3
    <3>2. i + (j - (i - 1)) = j + 1
      BY <1>0
    <3>3. Len(a) = i - 1
      BY <1>1
    <3>4. (a \o b)[j] = b[j - (i - 1)]
      BY <1>3, <2>1, <3>1, <3>3
    <3>5. b[j - (i - 1)] = s[i + (j - (i - 1))]
      BY <1>2, <3>1
    <3> QED
      BY <2>3, <3>2, <3>4, <3>5
  <2> QED
    BY <2>2, <2>3
<1> QED
  BY <1>0, <1>1, <1>2, <1>3, <1>4, <1>5

(* Player::release erases the first of the equal keys.                     *)
LEMMA RemoveFirstIs ==
  ASSUME NEW S, NEW s \in Seq(S), NEW key
  PROVE  /\ ~ Contains(s, key) => RemoveFirst(s, key) = s
         /\ Contains(s, key) =>
              \E i \in 1..Len(s) : s[i] = key /\ RemoveFirst(s, key) = RemoveAt(s, i)
<1>1. CASE Contains(s, key)
  <2> DEFINE I == {i \in 1..Len(s) : s[i] = key}
  <2>1. I \in SUBSET Nat /\ I # {}
    BY <1>1, LenProperties DEF Contains
  <2>2. Min(I) \in I
    BY <2>1, MinOf
  <2>3. RemoveFirst(s, key) = RemoveAt(s, Min(I))
    BY <1>1, <2>1 DEF RemoveFirst, SelectInSeq, Contains
  <2> QED
    BY <1>1, <2>2, <2>3
<1>2. CASE ~ Contains(s, key)
  BY <1>2 DEF RemoveFirst, Contains
<1> QED
  BY <1>1, <1>2

(* The keys keep their types.                                              *)
LEMMA KeyTypes ==
  ASSUME NEW H, NEW p \in Shape(H), NEW key \in Keys
  PROVE  move(p, key) \in Shape(H) /\ release(p, key) \in Shape(H)
<1>1. p.moves \in Seq(Keys)
  BY DEF Shape
<1>2. Append(p.moves, key) \in Seq(Keys)
  BY <1>1, AppendProperties
<1>3. RemoveFirst(p.moves, key) \in Seq(Keys)
  BY <1>1, RemoveFirstIs, RemoveAtIs
<1> QED
  BY <1>2, <1>3 DEF move, release, Shape

-----------------------------------------------------------------------------
(* The obstacles of a map, and World::move among them.                     *)

(* FlattenSeq puts sequences together one after the other.                 *)
LEMMA FlattenType ==
  ASSUME NEW S, NEW seqs \in Seq(Seq(S))
  PROVE  FlattenSeq(seqs) \in Seq(S)
<1> DEFINE Eq(g, n) == g = [i \in 1..n |-> IF i = 1 THEN seqs[i] ELSE g[i - 1] \o seqs[i]]
           n0 == Len(seqs)
<1>0. n0 \in Nat /\ \A i \in 1..n0 : seqs[i] \in Seq(S)
  BY LenProperties, ElementOfSeq
<1>1. CASE n0 = 0
  <2>1. seqs = <<>>
    BY <1>1, EmptySeq
  <2> QED
    BY <1>1, <2>1, EmptySeq DEF FlattenSeq
<1>2. CASE n0 # 0
  <2> HIDE DEF Eq, n0
  <2> DEFINE T == {n \in Nat : \E g : Eq(g, n)}
  <2>1. 0 \in T
    <3>1. Eq([i \in 1..0 |-> 0], 0)
      BY DEF Eq
    <3> QED
      BY <3>1
  <2>2. ASSUME NEW n \in T
        PROVE  n + 1 \in T
    <3>1. PICK g : Eq(g, n)
      OBVIOUS
    <3> DEFINE h == [i \in 1..(n + 1) |->
                       IF i = n + 1 THEN IF i = 1 THEN seqs[i] ELSE g[n] \o seqs[i]
                       ELSE g[i]]
    <3>2. ASSUME NEW i \in 1..(n + 1)
          PROVE  h[i] = IF i = 1 THEN seqs[i] ELSE h[i - 1] \o seqs[i]
      <4>1. CASE i = n + 1
        <5>1. i # 1 => i - 1 = n /\ n \in 1..(n + 1) /\ n # n + 1
          BY <4>1
        <5>2. i # 1 => h[i - 1] = g[n]
          BY <5>1
        <5>3. h[i] = IF i = 1 THEN seqs[i] ELSE g[n] \o seqs[i]
          BY <4>1
        <5> QED
          BY <5>2, <5>3
      <4>2. CASE i # n + 1
        <5>1. i \in 1..n /\ (i # 1 => i - 1 \in 1..(n + 1) /\ i - 1 # n + 1)
          BY <4>2
        <5>2. h[i] = g[i] /\ (i # 1 => h[i - 1] = g[i - 1])
          BY <4>2, <5>1
        <5>3. g[i] = IF i = 1 THEN seqs[i] ELSE g[i - 1] \o seqs[i]
          BY <3>1, <5>1 DEF Eq
        <5> HIDE DEF h
        <5> QED
          BY <5>2, <5>3
      <4> QED
        BY <4>1, <4>2
    <3>3. h = [i \in 1..(n + 1) |-> h[i]]
      OBVIOUS
    <3> HIDE DEF h
    <3>4. h = [i \in 1..(n + 1) |-> IF i = 1 THEN seqs[i] ELSE h[i - 1] \o seqs[i]]
      BY <3>2, <3>3
    <3>5. Eq(h, n + 1)
      BY <3>4 DEF Eq
    <3> QED
      BY <3>5
  <2>3. T = Nat
    <3>1. T \in SUBSET Nat
      OBVIOUS
    <3> HIDE DEF T
    <3> QED
      BY <2>1, <2>2, <3>1, Hit!Induction
  <2> DEFINE f == CHOOSE g : Eq(g, n0)
  <2>4. Eq(f, n0)
    BY <1>0, <2>3
  <2>5. FlattenSeq(seqs) = f[n0]
    BY <1>2 DEF FlattenSeq, Eq, n0
  <2> HIDE DEF f, T
  <2> DEFINE U == {n \in Nat : n + 1 <= n0 => f[n + 1] \in Seq(S)}
  <2>6. 0 \in U
    BY <1>0, <2>4 DEF Eq
  <2>7. ASSUME NEW n \in U
        PROVE  n + 1 \in U
    <3>1. CASE n + 1 + 1 <= n0
      <4>1. PICK m \in 1..n0 : m = n + 1 + 1 /\ m # 1 /\ m - 1 = n + 1
        BY <1>0, <3>1
      <4>2. f[m - 1] \in Seq(S)
        BY <1>0, <3>1, <4>1
      <4>3. f[m] = f[m - 1] \o seqs[m]
        BY <2>4, <4>1 DEF Eq
      <4>4. f[m] \in Seq(S)
        BY <1>0, <4>2, <4>3, ConcatProperties
      <4> QED
        BY <4>1, <4>4
    <3> QED
      BY <3>1
  <2>8. U = Nat
    <3>1. U \in SUBSET Nat
      OBVIOUS
    <3> HIDE DEF U
    <3> QED
      BY <2>6, <2>7, <3>1, Hit!Induction
  <2>9. PICK m \in U : m + 1 = n0
    <3>1. n0 - 1 \in Nat /\ n0 - 1 + 1 = n0
      BY <1>0, <1>2
    <3> HIDE DEF U
    <3> QED
      BY <2>8, <3>1
  <2>10. f[m + 1] \in Seq(S)
    BY <1>0, <2>9
  <2> QED
    BY <2>5, <2>9, <2>10
<1> QED
  BY <1>1, <1>2

(* Obstacles are places, whatever layers the map has.                      *)
LEMMA ObstaclesType == Obstacles \in Seq(Point)
<1> DEFINE n == Len(Layers)
           R == Reverse(Layers)
           Layer == [collider : BOOLEAN, tiles : Seq(Cell)]
<1>1. n \in Nat /\ DOMAIN Layers = 1..n /\ \A i \in 1..n : Layers[i] \in Layer
  BY MapAssumption, LenProperties, ElementOfSeq
<1>2. ASSUME NEW i \in 1..n
      PROVE  R[i] \in Layer
  <2>1. n - i + 1 \in 1..n /\ R[i] = Layers[n - i + 1]
    BY <1>1 DEF Reverse
  <2> QED
    BY <1>1, <2>1
<1>3. ASSUME NEW layer \in Layer
      PROVE  push_back(layer) \in Seq(Point)
  <2>1. \A cell \in Cell : setPosition(cell) \in Point
    BY MapAssumption DEF Cell, setPosition, Point
  <2> DEFINE m == Len(layer.tiles)
             f == [i \in 1..m |-> setPosition(layer.tiles[i])]
  <2>2. /\ m \in Nat /\ DOMAIN layer.tiles = 1..m
        /\ \A i \in 1..m : layer.tiles[i] \in Cell
    BY LenProperties, ElementOfSeq
  <2>3. f \in [1..m -> Point]
    BY <2>1, <2>2
  <2>4. f \in Seq(Point)
    BY <2>2, <2>3, SeqDef
  <2>5. <<>> \in Seq(Point)
    BY EmptySeq
  <2> QED
    BY <2>2, <2>4, <2>5 DEF push_back
<1> DEFINE pieces == [i \in 1..n |-> push_back(R[i])]
<1>4. pieces \in [1..n -> Seq(Point)]
  BY <1>2, <1>3
<1>5. pieces \in Seq(Seq(Point))
  BY <1>1, <1>4, SeqDef
<1>6. Obstacles = FlattenSeq(pieces)
  BY <1>1 DEF Obstacles
<1> HIDE DEF pieces
<1> QED
  BY <1>5, <1>6, FlattenType

(* From a place that touches no obstacle World::move goes along each axis  *)
(* exactly if that leads to no obstacle: there is at most one hit for each *)
(* axis, and the search ends only after both.                              *)
LEMMA SlideAlong ==
  ASSUME NEW H, NEW p \in Shape(H), Touching(p.pos.x, p.pos.y) = {}
  PROVE  LET vx == p.velocity.x + p.force
             vy == p.velocity.y
         IN World_move(p).pos =
              [x |-> IF Touching(p.pos.x + vx, p.pos.y) = {} THEN p.pos.x + vx ELSE p.pos.x,
               y |-> IF Touching(p.pos.x, p.pos.y + vy) = {} THEN p.pos.y + vy ELSE p.pos.y]
<1> DEFINE vx == p.velocity.x + p.force
           vy == p.velocity.y
           X == Touching(p.pos.x + vx, p.pos.y)
           Y == Touching(p.pos.x, p.pos.y + vy)
           hitsX == IF AtRestX(p) THEN {} ELSE Hits(X, {})
           hitsY == IF vy = 0 THEN {} ELSE Hits(Y, {})
           Checked(n) == (IF ~AtRestX(p) /\ vy # 0 THEN 0 ELSE 1)
                         + Cardinality(hitsX \cap 1..n) + Cardinality(hitsY \cap 1..n)
           Blocked(hits) == hits # {} /\ Checked(Min(hits) - 1) < Enough
<1>1. vx \in Int /\ vy \in Int /\ p.pos \in Point /\ p.pos.x \in Int /\ p.pos.y \in Int
  BY Constants DEF Shape, Velocities, Point
<1>2. X \in SUBSET Nat /\ Y \in SUBSET Nat
  BY ObstaclesType, LenProperties DEF Touching
<1>3. /\ AtRestX(p) => vx = 0
      /\ vx = 0 => X = {}
      /\ vy = 0 => Y = {}
  BY <1>1 DEF AtRestX
<1>4. World_move(p).pos =
        IF AtRestX(p) /\ vy = 0 THEN p.pos
        ELSE [x |-> IF Blocked(hitsX) THEN p.pos.x ELSE p.pos.x + vx,
              y |-> IF Blocked(hitsY) THEN p.pos.y ELSE p.pos.y + vy]
  BY DEF World_move, Shape
<1> HIDE DEF vx, vy, X, Y
<1>5. /\ hitsX = IF X = {} THEN {} ELSE {Min(X)}
      /\ hitsY = IF Y = {} THEN {} ELSE {Min(Y)}
  BY <1>3 DEF Hits
<1>6. ASSUME NEW S \in SUBSET Nat, S # {}
      PROVE  Min(S) \in Nat /\ Min({Min(S)}) = Min(S) /\ {Min(S)} \cap 1..(Min(S) - 1) = {}
  <2>1. Min(S) \in Nat
    BY <1>6, MinOf
  <2>2. Min({Min(S)}) = Min(S)
    BY <2>1, MinOf
  <2> QED
    BY <2>1, <2>2
<1>7. ASSUME NEW m \in Nat, NEW S \in SUBSET Nat, NEW n
      PROVE  LET one == IF S = {} THEN {} ELSE {m}
             IN Cardinality(one \cap 1..n) \in {0, 1}
  <2>1. {m} \cap 1..n = {} \/ {m} \cap 1..n = {m}
    OBVIOUS
  <2>2. {} \cap 1..n = {}
    OBVIOUS
  <2> QED
    BY <2>1, <2>2, FS_EmptySet, FS_Singleton
<1>8. Cardinality({}) = 0
  BY FS_EmptySet
<1>9. ASSUME X # {}
      PROVE  Blocked(hitsX)
  <2> DEFINE n == Min(hitsX) - 1
             cx == Cardinality(hitsX \cap 1..n)
             cy == Cardinality(hitsY \cap 1..n)
  <2>1. ~AtRestX(p) /\ hitsX = {Min(X)} /\ Min(X) \in Nat /\ Min(hitsX) = Min(X)
    BY <1>2, <1>3, <1>5, <1>6, <1>9
  <2>2. cx = 0
    BY <1>2, <1>6, <1>8, <1>9, <2>1
  <2>3. cy \in {0, 1}
    <3>1. CASE Y = {}
      <4>1. hitsY \cap 1..n = {}
        BY <1>5, <3>1
      <4> QED
        BY <1>8, <4>1
    <3>2. CASE Y # {}
      BY <1>2, <1>5, <1>6, <1>7, <3>2
    <3> QED
      BY <3>1, <3>2
  <2>4. vy = 0 => cy = 0
    <3>1. vy = 0 => hitsY \cap 1..n = {}
      OBVIOUS
    <3> QED
      BY <1>8, <3>1
  <2> HIDE DEF cx, cy
  <2>5. (IF ~AtRestX(p) /\ vy # 0 THEN 0 ELSE 1) + cx + cy < Enough
    BY <2>1, <2>2, <2>3, <2>4 DEF Enough
  <2> QED
    BY <2>1, <2>5 DEF cx, cy
<1>10. ASSUME Y # {}
       PROVE  Blocked(hitsY)
  <2> DEFINE n == Min(hitsY) - 1
             cx == Cardinality(hitsX \cap 1..n)
             cy == Cardinality(hitsY \cap 1..n)
  <2>1. vy # 0 /\ hitsY = {Min(Y)} /\ Min(Y) \in Nat /\ Min(hitsY) = Min(Y)
    BY <1>2, <1>3, <1>5, <1>6, <1>10
  <2>2. cy = 0
    BY <1>2, <1>6, <1>8, <1>10, <2>1
  <2>3. cx \in {0, 1}
    <3>1. CASE X = {}
      <4>1. hitsX \cap 1..n = {}
        BY <1>5, <3>1
      <4> QED
        BY <1>8, <4>1
    <3>2. CASE X # {}
      BY <1>2, <1>5, <1>6, <1>7, <3>2
    <3> QED
      BY <3>1, <3>2
  <2>4. AtRestX(p) => cx = 0
    <3>1. AtRestX(p) => hitsX \cap 1..n = {}
      OBVIOUS
    <3> QED
      BY <1>8, <3>1
  <2> HIDE DEF cx, cy
  <2>5. (IF ~AtRestX(p) /\ vy # 0 THEN 0 ELSE 1) + cx + cy < Enough
    BY <2>1, <2>2, <2>3, <2>4 DEF Enough
  <2> QED
    BY <2>1, <2>5 DEF cx, cy
<1>11. /\ X = {} => ~ Blocked(hitsX)
       /\ Y = {} => ~ Blocked(hitsY)
  BY <1>5
<1> HIDE DEF hitsX, hitsY, Checked, Blocked
<1>12. World_move(p).pos =
         [x |-> IF X = {} THEN p.pos.x + vx ELSE p.pos.x,
          y |-> IF Y = {} THEN p.pos.y + vy ELSE p.pos.y]
  <2>1. CASE AtRestX(p) /\ vy = 0
    BY <1>1, <1>3, <1>4, <2>1 DEF Point
  <2>2. CASE ~ (AtRestX(p) /\ vy = 0)
    BY <1>4, <1>9, <1>10, <1>11, <2>2
  <2> QED
    BY <2>1, <2>2
<1> QED
  BY <1>12 DEF X, Y, vx, vy

(* A vertical step to a place that touches no obstacle leads there, from   *)
(* wherever it is taken: there is nothing for World::move to hit.          *)
LEMMA StraightStep ==
  ASSUME NEW H, NEW p \in Shape(H), p.velocity.x = 0, p.force = 0,
         Touching(p.pos.x, p.pos.y + p.velocity.y) = {}
  PROVE  World_move(p).pos = [x |-> p.pos.x, y |-> p.pos.y + p.velocity.y]
<1>1. p.pos \in Point /\ p.pos.x \in Int /\ p.pos.y \in Int /\ p.velocity.y \in Int
  BY Constants DEF Shape, Velocities, Point
<1>2. p.velocity.x + p.force = 0
  OBVIOUS
<1>3. CASE AtRestX(p) /\ p.velocity.y = 0
  BY <1>1, <1>2, <1>3 DEF World_move, Shape, Point
<1>4. CASE ~ (AtRestX(p) /\ p.velocity.y = 0)
  <2>1. PICK X \in {p.pos.x, p.pos.x + (p.velocity.x + p.force)} :
          World_move(p) =
            [p EXCEPT !.pos = [x |-> X, y |-> p.pos.y + p.velocity.y]]
    BY <1>4 DEF World_move, Hits
  <2>2. X = p.pos.x
    BY <1>1, <1>2, <2>1
  <2> QED
    BY <2>1, <2>2 DEF Shape
<1> QED
  BY <1>3, <1>4

(* A step from a place that touches no obstacle onto one was diagonal, and *)
(* the vertical half of it can be undone.                                  *)
LEMMA DiagonalStep ==
  ASSUME NEW H, NEW p \in Shape(H), Touching(p.pos.x, p.pos.y) = {},
         NEW r \in Shape(H), r.pos = World_move(p).pos, Touching(r.pos.x, r.pos.y) # {}
  PROVE  \E b \in {-Speed, Speed} : Touching(r.pos.x, r.pos.y + b) = {}
<1> DEFINE vx == p.velocity.x + p.force
           vy == p.velocity.y
<1>1. /\ p.pos \in Point /\ p.pos.x \in Int /\ p.pos.y \in Int
      /\ vx \in Int /\ vy \in {-Speed, 0, Speed} /\ Speed \in Int
  BY Constants DEF Shape, Velocities, Point
<1>2. r.pos =
        [x |-> IF Touching(p.pos.x + vx, p.pos.y) = {} THEN p.pos.x + vx ELSE p.pos.x,
         y |-> IF Touching(p.pos.x, p.pos.y + vy) = {} THEN p.pos.y + vy ELSE p.pos.y]
  BY SlideAlong
<1> HIDE DEF vx, vy
<1>3. Touching(r.pos.x, p.pos.y) = {}
  BY <1>2
<1>4. r.pos.y = p.pos.y + vy
  BY <1>2, <1>3
<1>5. vy # 0
  BY <1>1, <1>3, <1>4
<1>6. -vy \in {-Speed, Speed} /\ r.pos.y + (-vy) = p.pos.y
  BY <1>1, <1>4, <1>5
<1> QED
  BY <1>3, <1>6

=============================================================================
