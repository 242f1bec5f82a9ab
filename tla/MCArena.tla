------------------------------ MODULE MCArena ------------------------------
(* Small maps for Arena.                                                   *)
EXTENDS Arena

At(x, y) == [x |-> x, y |-> y]

(* In units of 4 pixels a tile is 4 by 4 and a player 7 by 8.  A basin of  *)
(* 5 by 4 tiles with a step in its shore and a rock in it.                 *)
Basin ==
  LET Row(y) == [i \in 1..7 |-> At(i - 1, y)]
      Sides == [i \in 1..8 |-> At(IF i % 2 = 1 THEN 0 ELSE 6, (i + 1) \div 2)]
      Layer(collider, tiles) == [collider |-> collider, tiles |-> tiles]
  IN <<Layer(FALSE, <<At(3, 2)>>),
       Layer(TRUE, <<At(4, 3), At(1, 4)>>),
       Layer(TRUE, Row(0) \o Sides \o Row(5)),
       Layer(FALSE, Row(3))>>

BasinStart == At(8, 8)
BasinCentre == At(12, 4)

(* A piece of maps/default/map.json, the tiles in columns 20 to 25 and     *)
(* rows 27 to 31 of the layer that collides and one of the layer above it. *)
(* The unit is 1/25 pixel, fine enough for forces of 16 and 9.6 pixels.    *)
Coast ==
  <<[collider |-> FALSE, tiles |-> <<At(20, 26)>>],
    [collider |-> TRUE, tiles |->
      <<At(20, 27), At(21, 27), At(22, 27), At(23, 27), At(24, 27), At(25, 27),
        At(20, 28), At(21, 28), At(22, 28), At(23, 28), At(23, 29), At(24, 29),
        At(24, 30), At(24, 31), At(25, 31)>>]>>

(* 280, 468 can be reached on foot from the start at 200, 180.             *)
CoastStart == At(7000, 11700)
CoastCentre == At(7500, 10000)

=============================================================================
