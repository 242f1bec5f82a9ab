----------------------------- MODULE WorldSync ------------------------------
(***************************************************************************)
(* How the axes of two players in a room are mirrored, client/src/game.cpp *)
(* (Object, World::get_info, World::apply_info) and App::update.           *)
(*                                                                         *)
(* Each client numbers its objects with its own counter.  An update lists  *)
(* every axe in the sender's world, mirrored ones included; the receiver   *)
(* creates those whose number it has never used.  The main thread throws,  *)
(* removes and sends axes while the connection thread applies an update,   *)
(* and nothing orders the two: both increment Object::counter, which is    *)
(* not atomic, by reading it and writing it back.                          *)
(*                                                                         *)
(* An axe is known to the model by its thrower and its number; the code    *)
(* has only the number.                                                    *)
(***************************************************************************)
EXTENDS Integers, Sequences

CONSTANTS
  P, Q,     \* the two players
  MaxId,    \* bound on the numbers of the axes each of them throws
  MaxNet    \* bound on the updates under way in each direction

Side == {P, Q}

ASSUME WorldAssumption ==
  P # Q /\ MaxId \in [Side -> Nat] /\ MaxNet \in Nat

Peer(w) == IF w = P THEN Q ELSE P

(* World() numbers the player 0, the enemy 1 and the backpack's axe 2.     *)
FirstId == 3

Axe == [owner : Side, id : Nat]

(* What stands for an axe while apply_info is not at work; no axe is 0.    *)
NoAxe(w) == [owner |-> w, id |-> 0]

VARIABLES
  counter,  \* Object::counter
  existed,  \* Object::existed_id
  objects,  \* the axes in World::objects
  net,      \* updates under way to each side, oldest first
  todo,     \* the part of data["objects"] that apply_info has still to visit
  item,     \* the axe apply_info is visiting
  stage,    \* where apply_info is: "idle", "next", "find", "create", "count"
  throwing, \* the main thread has read the counter for a new axe
  taken,    \* what it has read; else 0
  own,      \* what the connection thread has read, at "count"; else 0
  seen      \* history: the axes ever appended to this world

mainVars == <<throwing, taken>>
applyVars == <<todo, item, stage, own>>
worldVars == <<counter, existed, objects, net, mainVars, applyVars, seen>>

WorldTypeOK ==
  /\ counter \in [Side -> Nat]
  /\ existed \in [Side -> SUBSET Nat]
  /\ objects \in [Side -> SUBSET Axe]
  /\ net \in [Side -> Seq(SUBSET Axe)]
  /\ todo \in [Side -> SUBSET Axe]
  /\ item \in [Side -> Axe]
  /\ stage \in [Side -> {"idle", "next", "find", "create", "count"}]
  /\ throwing \in [Side -> BOOLEAN]
  /\ taken \in [Side -> Nat]
  /\ own \in [Side -> Nat]
  /\ seen \in [Side -> SUBSET Axe]

WorldInit ==
  /\ counter = [w \in Side |-> FirstId]
  /\ existed = [w \in Side |-> 0..(FirstId - 1)]
  /\ objects = [w \in Side |-> {}]
  /\ net = [w \in Side |-> <<>>]
  /\ todo = [w \in Side |-> {}]
  /\ item = [w \in Side |-> NoAxe(w)]
  /\ stage = [w \in Side |-> "idle"]
  /\ throwing = [w \in Side |-> FALSE]
  /\ taken = [w \in Side |-> 0]
  /\ own = [w \in Side |-> 0]
  /\ seen = [w \in Side |-> {}]

-----------------------------------------------------------------------------
(* The main thread.                                                        *)

(* A slip to check the properties against: counting down.                  *)
MutCountsDown(n) == n - 1

(* Object::Object(): what counter++ writes after it has read n.            *)
NextCounter(n) == n + 1

(* World::append: push_back on a list that nothing guards.  In a race with *)
(* the other thread, which appends or erases, the new axe may be lost.     *)
append(w, x, raced) ==
  {objects[w] \cup {x}} \cup (IF raced THEN {objects[w]} ELSE {})

(* An assumption about time, which no test in the code makes sure of: the  *)
(* connection thread is not held up for 0.3 s, the cooldown of an axe,     *)
(* between the two halves of its counter++, so that no two throws fall     *)
(* within one.  The counter shows whether a throw already has.             *)
CooldownOutlasts(w) == stage[w] = "count" => counter[w] = own[w]

(* Backpack::canUseActive.                                                 *)
canUseActive(w) == ~throwing[w] /\ CooldownOutlasts(w)

(* Backpack::useActive: a new axe reads the counter, ...                   *)
Throw(w) ==
  /\ canUseActive(w)
  /\ counter[w] <= MaxId[w]
  /\ throwing' = [throwing EXCEPT ![w] = TRUE]
  /\ taken' = [taken EXCEPT ![w] = counter[w]]
  /\ UNCHANGED <<counter, existed, objects, net, applyVars, seen>>

(* ... writes it back and joins the objects.                               *)
Thrown(w) ==
  LET x == [owner |-> w, id |-> taken[w]]
  IN /\ throwing[w]
     /\ throwing' = [throwing EXCEPT ![w] = FALSE]
     /\ taken' = [taken EXCEPT ![w] = 0]
     /\ counter' = [counter EXCEPT ![w] = NextCounter(taken[w])]
     /\ existed' = [existed EXCEPT ![w] = @ \cup {x.id}]
     /\ \E list \in append(w, x, stage[w] = "count") :
          objects' = [objects EXCEPT ![w] = list]
     /\ seen' = [seen EXCEPT ![w] = @ \cup {x}]
     /\ UNCHANGED <<net, applyVars>>

(* A slip: the number of an axe that is gone is forgotten.                 *)
MutForgets(w, x) == existed[w] \ {x.id}

(* What becomes of the numbers in use when an axe is removed.              *)
ExistedAfterErase(w, x) == existed[w]

(* World::update: an axe that touches a player is marked and, at the end   *)
(* of the same update, erased.  No two worlds need agree on it.            *)
Hit(w, x) ==
  /\ ~throwing[w]
  /\ x \in objects[w]
  /\ objects' = [objects EXCEPT ![w] = @ \ {x}]
  /\ existed' = [existed EXCEPT ![w] = ExistedAfterErase(w, x)]
  /\ UNCHANGED <<counter, net, mainVars, applyVars, seen>>

(* A slip: the comparison with "Player" is the wrong way round.            *)
MutOnlyPlayers(w) == {}

(* The objects that are not players.                                       *)
objects_data(w) == objects[w]

(* App::update, every 0.2 s.  get_info runs after erase, so the field      *)
(* "deleted" is always false.                                              *)
get_info(w) ==
  /\ ~throwing[w]
  /\ Len(net[Peer(w)]) < MaxNet
  /\ net' = [net EXCEPT ![Peer(w)] = Append(@, objects_data(w))]
  /\ UNCHANGED <<counter, existed, objects, mainVars, applyVars, seen>>

-----------------------------------------------------------------------------
(* The connection thread: World::apply_info.                               *)

apply_info(w) ==
  /\ stage[w] = "idle"
  /\ net[w] # <<>>
  /\ todo' = [todo EXCEPT ![w] = Head(net[w])]
  /\ net' = [net EXCEPT ![w] = Tail(@)]
  /\ stage' = [stage EXCEPT ![w] = "next"]
  /\ UNCHANGED <<counter, existed, objects, mainVars, item, own, seen>>

(* The loop takes the axes in the order of the list, which is left open.   *)
exist(w, x) ==
  /\ stage[w] = "next"
  /\ x \in todo[w]
  /\ todo' = [todo EXCEPT ![w] = @ \ {x}]
  /\ item' = [item EXCEPT ![w] = x]
  /\ stage' = [stage EXCEPT ![w] = IF x.id \in existed[w] THEN "next" ELSE "find"]
  /\ UNCHANGED <<counter, existed, objects, net, mainVars, own, seen>>

end_of_list(w) ==
  /\ stage[w] = "next"
  /\ todo[w] = {}
  /\ item' = [item EXCEPT ![w] = NoAxe(w)]
  /\ stage' = [stage EXCEPT ![w] = "idle"]
  /\ UNCHANGED <<counter, existed, objects, net, mainVars, todo, own, seen>>

(* find_if looks for the number once more, among the objects.              *)
find_if(w) ==
  /\ stage[w] = "find"
  /\ stage' = [stage EXCEPT ![w] =
                 IF \E y \in objects[w] : y.id = item[w].id THEN "next" ELSE "create"]
  /\ UNCHANGED <<counter, existed, objects, net, mainVars, todo, item, own, seen>>

(* The numbers in use after a new object takes its own, old, and setID     *)
(* replaces it by new; old stays in use.                                   *)
setID(w, old, new) == existed[w] \cup {old, new}

(* The mirror image reads a number of its own, ...                         *)
construct(w) ==
  /\ stage[w] = "create"
  /\ own' = [own EXCEPT ![w] = counter[w]]
  /\ stage' = [stage EXCEPT ![w] = "count"]
  /\ UNCHANGED <<counter, existed, objects, net, mainVars, todo, item, seen>>

(* ... writes the counter back, is renumbered and joins the objects.  The  *)
(* main thread may always be erasing.                                      *)
create(w) ==
  /\ stage[w] = "count"
  /\ counter' = [counter EXCEPT ![w] = NextCounter(own[w])]
  /\ existed' = [existed EXCEPT ![w] = setID(w, own[w], item[w].id)]
  /\ \E list \in append(w, item[w], TRUE) : objects' = [objects EXCEPT ![w] = list]
  /\ seen' = [seen EXCEPT ![w] = @ \cup {item[w]}]
  /\ own' = [own EXCEPT ![w] = 0]
  /\ stage' = [stage EXCEPT ![w] = "next"]
  /\ UNCHANGED <<net, mainVars, todo, item>>

Apply(w) ==
  \/ apply_info(w)
  \/ \E x \in todo[w] : exist(w, x)
  \/ end_of_list(w)
  \/ find_if(w)
  \/ construct(w)
  \/ create(w)

MainThread(w) ==
  \/ Throw(w)
  \/ Thrown(w)
  \/ \E x \in objects[w] : Hit(w, x)
  \/ get_info(w)

WorldNext == \E w \in Side : MainThread(w) \/ Apply(w)

WorldSpec == WorldInit /\ [][WorldNext]_worldVars

(* A throw that has begun ends, the timer of App::update keeps firing and  *)
(* messages keep arriving.                                                 *)
FairWorldSpec ==
  /\ WorldSpec
  /\ \A w \in Side :
       WF_worldVars(Thrown(w)) /\ WF_worldVars(get_info(w)) /\ WF_worldVars(Apply(w))

-----------------------------------------------------------------------------

(* An axe is mirrored at most once: not a second time while it flies, not  *)
(* again after it is gone here although the peer still lists it, and never *)
(* into the world of the player who threw it.                              *)
MirroredOnce ==
  \A w \in Side : stage[w] \in {"create", "count"} => item[w] \notin seen[w]

(* The thrower and the number tell axes apart: a player never gives a      *)
(* number to two axes, although increments of the counter may be lost.     *)
OwnNumbersFresh ==
  \A w \in Side : \A v \in Side : \A x \in seen[v] :
    x.owner = w => x.id < counter[w]

(* Why, part one.  A number that a thread has read and not yet written     *)
(* back is no smaller than those of the axes, so writing it back late      *)
(* frees none of them.                                                     *)
NumbersInHand ==
  \A w \in Side :
    /\ throwing[w] =>
         taken[w] <= counter[w]
         /\ \A v \in Side : \A x \in seen[v] : x.owner = w => x.id < taken[w]
    /\ stage[w] = "count" =>
         /\ \A v \in Side : \A x \in seen[v] : x.owner = w => x.id <= own[w]
         /\ throwing[w] => taken[w] <= own[w]

(* Part two.  Whatever has been in a world has a number in use there, and  *)
(* whatever is listed, under way or being visited has been in the world of *)
(* its thrower; an axe that passes the test of its number is therefore the *)
(* peer's.                                                                 *)
Provenance ==
  \A w \in Side :
    /\ \A x \in seen[w] : x.id \in existed[w] /\ x \in seen[x.owner]
    /\ objects[w] \subseteq seen[w]
    /\ \A x \in todo[w] : x \in seen[x.owner]
    /\ \A i \in 1..Len(net[w]) : \A x \in net[w][i] : x \in seen[x.owner]
    /\ stage[w] \in {"find", "create", "count"} =>
         item[w].owner # w /\ item[w] \in seen[item[w].owner] /\ item[w] \notin seen[w]

(* An axe that stays in a player's world is mirrored by the other client,  *)
(* or that client has used its number for something else.                  *)
EveryAxeAnswered ==
  \A w \in Side : \A i \in FirstId..MaxId[w] :
    LET x == [owner |-> w, id |-> i]
    IN <>[](x \in objects[w]) => <>[](x.id \in existed[Peer(w)])

(* apply_info passes over an axe only if it has already shown it.          *)
SkipsOnlyWhatItShowed ==
  [][\A w \in Side :
       item'[w] # item[w] /\ stage'[w] = "next" => item'[w] \in seen[w]]_worldVars

=============================================================================
