------------------------------ MODULE TileMap -------------------------------
(***************************************************************************)
(* The constructor of TileMap, client/src/tilemap.cpp: from the layers of  *)
(* a map file to the list of obstacles that World::move goes through.  The *)
(* pictures of the tiles are left out.                                     *)
(***************************************************************************)
EXTENDS Integers, Sequences, SequencesExt

CONSTANTS
  Layers,               \* data["layers"], the topmost first
  MapWidth, MapHeight,  \* of the map, in tiles
  Tile                  \* side of a tile as it is shown

Cell == [x : 0..(MapWidth - 1), y : 0..(MapHeight - 1)]

(* layer.at(y).at(x) throws for a tile outside of the map, and the game    *)
(* does not start.                                                         *)
ASSUME MapAssumption ==
  /\ {MapWidth, MapHeight, Tile} \subseteq Nat \ {0}
  /\ Layers \in Seq([collider : BOOLEAN, tiles : Seq(Cell)])

(* Where the sprite of a tile is put, and its obstacle with it.            *)
setPosition(cell) == [x |-> Tile * cell.x, y |-> Tile * cell.y]

push_back(layer) ==
  IF layer.collider THEN [i \in DOMAIN layer.tiles |-> setPosition(layer.tiles[i])] ELSE <<>>

(* The layers are read from the last to the first.                         *)
Obstacles ==
  FlattenSeq([i \in DOMAIN Layers |-> push_back(Reverse(Layers)[i])])

=============================================================================
