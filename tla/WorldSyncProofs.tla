-------------------------- MODULE WorldSyncProofs ---------------------------
(***************************************************************************)
(* Theorems about WorldSync, for any number of axes and of updates.        *)
(***************************************************************************)
EXTENDS WorldSync, SequenceTheorems, TLAPS

(* An axe joins the objects of w, or is lost in a race with the other      *)
(* thread; no other comes with it.                                         *)
Joins(w, x) ==
  \E list \in SUBSET (objects[w] \cup {x}) : objects' = [objects EXCEPT ![w] = list]

(* An append to World::objects that another thread may disturb.            *)
LEMMA Appended ==
  ASSUME NEW w, NEW x, NEW raced \in BOOLEAN,
         \E list \in append(w, x, raced) : objects' = [objects EXCEPT ![w] = list]
  PROVE  Joins(w, x)
<1>1. \A list \in append(w, x, raced) : list \subseteq objects[w] \cup {x}
  BY DEF append
<1> QED
  BY <1>1 DEF Joins

(* No step of the two clients leaves the types.                            *)
LEMMA TypeStep ==
  ASSUME WorldTypeOK, [WorldNext]_worldVars
  PROVE  WorldTypeOK'
<1> USE DEF WorldTypeOK
<1>1. CASE UNCHANGED worldVars
  BY <1>1 DEF worldVars, mainVars, applyVars
<1>2. ASSUME NEW w \in Side, Throw(w)
      PROVE  WorldTypeOK'
  BY <1>2 DEF Throw, applyVars
<1>3. ASSUME NEW w \in Side, Thrown(w)
      PROVE  WorldTypeOK'
  <2>1. [owner |-> w, id |-> taken[w]] \in Axe /\ NextCounter(taken[w]) \in Nat
    BY DEF Axe, NextCounter
  <2>2. Joins(w, [owner |-> w, id |-> taken[w]])
    BY <1>3, Appended DEF Thrown
  <2>3. objects' \in [Side -> SUBSET Axe]
    BY <2>1, <2>2 DEF Joins
  <2> QED
    BY <1>3, <2>1, <2>3 DEF Thrown, applyVars
<1>4. ASSUME NEW w \in Side, NEW x \in objects[w], Hit(w, x)
      PROVE  WorldTypeOK'
  BY <1>4 DEF Hit, ExistedAfterErase, mainVars, applyVars
<1>5. ASSUME NEW w \in Side, get_info(w)
      PROVE  WorldTypeOK'
  <2>1. Peer(w) \in Side
    BY DEF Peer, Side
  <2>2. Append(net[Peer(w)], objects[w]) \in Seq(SUBSET Axe)
    BY <2>1, AppendProperties
  <2> QED
    BY <1>5, <2>1, <2>2 DEF get_info, objects_data, mainVars, applyVars
<1>6. ASSUME NEW w \in Side, apply_info(w)
      PROVE  WorldTypeOK'
  <2>1. Head(net[w]) \in SUBSET Axe /\ Tail(net[w]) \in Seq(SUBSET Axe)
    BY <1>6, HeadTailProperties DEF apply_info
  <2> QED
    BY <1>6, <2>1 DEF apply_info, mainVars
<1>7. ASSUME NEW w \in Side, NEW x \in todo[w], exist(w, x)
      PROVE  WorldTypeOK'
  BY <1>7 DEF exist, mainVars
<1>8. ASSUME NEW w \in Side, end_of_list(w) \/ find_if(w)
      PROVE  WorldTypeOK'
  <2>1. NoAxe(w) \in Axe
    BY DEF NoAxe, Axe
  <2> QED
    BY <1>8, <2>1, ZenonT(40) DEF end_of_list, find_if, mainVars
<1>9. ASSUME NEW w \in Side, construct(w)
      PROVE  WorldTypeOK'
  BY <1>9 DEF construct, mainVars
<1>10. ASSUME NEW w \in Side, create(w)
       PROVE  WorldTypeOK'
  <2>1. NextCounter(own[w]) \in Nat /\ setID(w, own[w], item[w].id) \in SUBSET Nat
    BY DEF NextCounter, setID, Axe
  <2>2. Joins(w, item[w])
    BY <1>10, Appended DEF create
  <2>3. objects' \in [Side -> SUBSET Axe]
    BY <2>2 DEF Joins
  <2> QED
    BY <1>10, <2>1, <2>3 DEF create, mainVars
<1> QED
  BY <1>1, <1>2, <1>3, <1>4, <1>5, <1>6, <1>7, <1>8, <1>9, <1>10
  DEF WorldNext, MainThread, Apply

(* The inductive invariant.  Provenance speaks of all that is under way;   *)
(* OwnNumbersFresh is needed with it because a throw makes an axe that     *)
(* must not be the one apply_info is about to mirror, and NumbersInHand    *)
(* because the counter that keeps numbers fresh is written back late.      *)
Mirroring == WorldTypeOK /\ Provenance /\ OwnNumbersFresh /\ NumbersInHand

(* An axe joins the world of w: w's own, or one its thrower's world knows. *)
LEMMA NewAxe ==
  ASSUME WorldTypeOK, Provenance,
         NEW w \in Side, NEW x \in Axe,
         x.owner = w \/ x \in seen[x.owner],
         \A v \in Side : existed[v] \subseteq existed'[v],
         x.id \in existed'[w],
         Joins(w, x),
         seen' = [seen EXCEPT ![w] = @ \cup {x}],
         UNCHANGED <<net, todo, item>>,
         \A v \in Side : stage'[v] \in {"find", "create", "count"} =>
           stage[v] \in {"find", "create", "count"} /\ (v = w => x.owner = w)
  PROVE  Provenance'
<1>1. \A v \in Side : seen[v] \subseteq seen'[v]
  BY DEF WorldTypeOK
<1>2. \A v \in Side : \A y \in seen'[v] : y \in seen[v] \/ (v = w /\ y = x)
  BY DEF WorldTypeOK
<1>3. \A v \in Side : \A y \in seen[v] : y \in Axe /\ y.owner \in Side
  BY DEF WorldTypeOK, Axe
<1>4. x.owner \in Side /\ x \in seen'[w] /\ x \in seen'[x.owner]
  BY <1>1 DEF WorldTypeOK, Axe
<1> SUFFICES ASSUME NEW v \in Side
             PROVE  (/\ \A y \in seen[v] : y.id \in existed[v] /\ y \in seen[y.owner]
                     /\ objects[v] \subseteq seen[v]
                     /\ \A y \in todo[v] : y \in seen[y.owner]
                     /\ \A i \in 1..Len(net[v]) : \A y \in net[v][i] : y \in seen[y.owner]
                     /\ stage[v] \in {"find", "create", "count"} =>
                          /\ item[v].owner # v
                          /\ item[v] \in seen[item[v].owner]
                          /\ item[v] \notin seen[v])'
  BY DEF Provenance
<1>5. ASSUME NEW y \in seen'[v]
      PROVE  y.id \in existed'[v] /\ y \in seen'[y.owner]
  <2>1. CASE y \in seen[v]
    BY <1>1, <1>3, <2>1 DEF Provenance
  <2>2. CASE v = w /\ y = x
    BY <1>4, <2>2
  <2> QED
    BY <1>2, <1>5, <2>1, <2>2
<1>6. objects'[v] \subseteq seen'[v]
  BY DEF WorldTypeOK, Provenance, Joins
<1>7. \A y \in todo'[v] : y \in seen'[y.owner]
  BY <1>1 DEF WorldTypeOK, Provenance, Axe
<1>8. ASSUME NEW i \in 1..Len(net[v]), NEW y \in net[v][i]
      PROVE  y \in seen'[y.owner]
  <2>1. y \in Axe /\ y \in seen[y.owner]
    BY ElementOfSeq DEF WorldTypeOK, Provenance
  <2> QED
    BY <1>1, <2>1 DEF Axe
<1>9. ASSUME stage'[v] \in {"find", "create", "count"}
      PROVE  /\ item'[v].owner # v
             /\ item'[v] \in seen'[item'[v].owner]
             /\ item'[v] \notin seen'[v]
  <2>1. /\ item[v].owner # v
        /\ item[v] \in seen[item[v].owner]
        /\ item[v] \notin seen[v]
    BY <1>9 DEF Provenance
  <2>2. item[v].owner \in Side /\ (v = w => x.owner = w)
    BY <1>9 DEF WorldTypeOK, Axe
  <2> QED
    BY <1>1, <1>2, <2>1, <2>2
<1> QED
  BY <1>5, <1>6, <1>7, <1>8, <1>9

(* The end of a throw: the new axe belongs to w, so it is not the one      *)
(* being mirrored, and its number is the one in hand.                      *)
LEMMA ThrownStep ==
  ASSUME Mirroring, NEW w \in Side, Thrown(w)
  PROVE  Provenance' /\ OwnNumbersFresh' /\ NumbersInHand'
<1> DEFINE x == [owner |-> w, id |-> taken[w]]
<1>1. x \in Axe /\ x.owner = w /\ x.id = taken[w]
  BY DEF Axe, Mirroring, WorldTypeOK
<1>2. /\ throwing[w]
      /\ throwing' = [throwing EXCEPT ![w] = FALSE]
      /\ taken' = [taken EXCEPT ![w] = 0]
      /\ counter' = [counter EXCEPT ![w] = taken[w] + 1]
      /\ existed' = [existed EXCEPT ![w] = @ \cup {x.id}]
      /\ Joins(w, x)
      /\ seen' = [seen EXCEPT ![w] = @ \cup {x}]
      /\ UNCHANGED <<net, todo, item, stage, own>>
  BY Appended DEF Thrown, NextCounter, applyVars
<1> HIDE DEF x
<1>3. Provenance'
  <2>1. x.id \in existed'[w] /\ \A v \in Side : existed[v] \subseteq existed'[v]
    BY <1>2 DEF Mirroring, WorldTypeOK
  <2> QED
    BY <1>1, <1>2, <2>1, NewAxe DEF Mirroring
<1>4. \A v \in Side : \A y \in seen'[v] : y \in seen[v] \/ y = x
  BY <1>2 DEF Mirroring, WorldTypeOK
<1>5. \A v \in Side : \A y \in seen[v] : y.id \in Nat
  BY DEF Mirroring, WorldTypeOK, Axe
<1>6. \A v \in Side : \A y \in seen[v] : y.owner = w => y.id < taken[w]
  BY <1>2 DEF Mirroring, NumbersInHand
<1>7. OwnNumbersFresh'
  <2> SUFFICES ASSUME NEW u \in Side, NEW v \in Side, NEW y \in seen'[v], y.owner = u
               PROVE  y.id < counter'[u]
    BY DEF OwnNumbersFresh
  <2>1. taken[w] \in Nat /\ counter'[w] = taken[w] + 1
    BY <1>2 DEF Mirroring, WorldTypeOK
  <2>2. CASE y \in seen[v] /\ u = w
    BY <1>5, <1>6, <2>1, <2>2
  <2>3. CASE y \in seen[v] /\ u # w
    BY <1>2, <2>3 DEF Mirroring, WorldTypeOK, OwnNumbersFresh
  <2>4. CASE y = x
    BY <1>1, <2>1, <2>4
  <2> QED
    BY <1>4, <2>2, <2>3, <2>4
<1>8. NumbersInHand'
  <2> SUFFICES ASSUME NEW u \in Side
               PROVE  (/\ throwing[u] =>
                            taken[u] <= counter[u]
                            /\ \A v \in Side : \A y \in seen[v] : y.owner = u => y.id < taken[u]
                       /\ stage[u] = "count" =>
                            /\ \A v \in Side : \A y \in seen[v] : y.owner = u => y.id <= own[u]
                            /\ throwing[u] => taken[u] <= own[u])'
    BY DEF NumbersInHand
  <2>1. CASE u = w
    <3>1. ~ throwing'[u]
      BY <1>2, <2>1 DEF Mirroring, WorldTypeOK
    <3>2. ASSUME stage'[u] = "count", NEW v \in Side, NEW y \in seen'[v], y.owner = u
          PROVE  y.id <= own'[u]
      <4>1. stage[w] = "count" /\ own'[u] = own[w]
        BY <1>2, <2>1, <3>2
      <4>2. CASE y \in seen[v]
        BY <2>1, <3>2, <4>1, <4>2 DEF Mirroring, NumbersInHand
      <4>3. CASE y = x
        BY <1>1, <1>2, <4>1, <4>3 DEF Mirroring, NumbersInHand
      <4> QED
        BY <1>4, <3>2, <4>2, <4>3
    <3> QED
      BY <3>1, <3>2
  <2>2. CASE u # w
    <3>1. /\ throwing'[u] = throwing[u] /\ taken'[u] = taken[u]
          /\ counter'[u] = counter[u] /\ stage'[u] = stage[u] /\ own'[u] = own[u]
      BY <1>2, <2>2 DEF Mirroring, WorldTypeOK
    <3>2. \A v \in Side : \A y \in seen'[v] : y.owner = u => y \in seen[v]
      BY <1>1, <1>4, <2>2
    <3> QED
      BY <3>1, <3>2 DEF Mirroring, NumbersInHand
  <2> QED
    BY <2>1, <2>2
<1> QED
  BY <1>3, <1>7, <1>8

(* The creation of a mirror image: the axe is the peer's.                  *)
LEMMA CreateStep ==
  ASSUME Mirroring, NEW w \in Side, create(w)
  PROVE  Provenance' /\ OwnNumbersFresh' /\ NumbersInHand'
<1> DEFINE x == item[w]
<1>1. /\ stage[w] = "count"
      /\ x \in Axe /\ x.owner \in Side /\ x.id \in Nat /\ x \in seen[x.owner]
  BY DEF Axe, Mirroring, WorldTypeOK, Provenance, create
<1>2. /\ counter' = [counter EXCEPT ![w] = own[w] + 1]
      /\ existed' = [existed EXCEPT ![w] = @ \cup {own[w], x.id}]
      /\ Joins(w, x)
      /\ seen' = [seen EXCEPT ![w] = @ \cup {x}]
      /\ own' = [own EXCEPT ![w] = 0]
      /\ stage' = [stage EXCEPT ![w] = "next"]
      /\ UNCHANGED <<net, todo, item, throwing, taken>>
  BY Appended DEF create, NextCounter, setID, mainVars, Mirroring, WorldTypeOK
<1> HIDE DEF x
<1>3. Provenance'
  <2>1. x.id \in existed'[w] /\ \A v \in Side : existed[v] \subseteq existed'[v]
    BY <1>2 DEF Mirroring, WorldTypeOK
  <2>2. \A v \in Side : stage'[v] \in {"find", "create", "count"} =>
          stage[v] \in {"find", "create", "count"} /\ v # w
    BY <1>2 DEF Mirroring, WorldTypeOK
  <2> QED
    BY <1>1, <1>2, <2>1, <2>2, NewAxe DEF Mirroring
<1>4. \A v \in Side : \A y \in seen'[v] : \E t \in Side : y \in seen[t]
  BY <1>1, <1>2 DEF Mirroring, WorldTypeOK
<1>5. \A v \in Side : \A y \in seen[v] : y.id \in Nat
  BY DEF Mirroring, WorldTypeOK, Axe
<1>6. /\ own[w] \in Nat /\ counter'[w] = own[w] + 1
      /\ \A v \in Side : \A y \in seen[v] : y.owner = w => y.id <= own[w]
      /\ throwing[w] => taken[w] <= own[w]
  BY <1>1, <1>2 DEF Mirroring, WorldTypeOK, NumbersInHand
<1>7. OwnNumbersFresh'
  <2> SUFFICES ASSUME NEW u \in Side, NEW v \in Side, NEW y \in seen'[v], y.owner = u
               PROVE  y.id < counter'[u]
    BY DEF OwnNumbersFresh
  <2>1. PICK t \in Side : y \in seen[t]
    BY <1>4
  <2>2. CASE u = w
    BY <1>5, <1>6, <2>1, <2>2
  <2>3. CASE u # w
    BY <1>2, <2>1, <2>3 DEF Mirroring, WorldTypeOK, OwnNumbersFresh
  <2> QED
    BY <2>2, <2>3
<1>8. NumbersInHand'
  <2> SUFFICES ASSUME NEW u \in Side
               PROVE  (/\ throwing[u] =>
                            taken[u] <= counter[u]
                            /\ \A v \in Side : \A y \in seen[v] : y.owner = u => y.id < taken[u]
                       /\ stage[u] = "count" =>
                            /\ \A v \in Side : \A y \in seen[v] : y.owner = u => y.id <= own[u]
                            /\ throwing[u] => taken[u] <= own[u])'
    BY DEF NumbersInHand
  <2>1. throwing'[u] = throwing[u] /\ taken'[u] = taken[u] /\ taken[u] \in Nat
    BY <1>2 DEF Mirroring, WorldTypeOK
  <2>2. CASE u = w
    <3>1. stage'[u] # "count"
      BY <1>2, <2>2 DEF Mirroring, WorldTypeOK
    <3>2. throwing[u] => taken'[u] <= counter'[u]
      BY <1>6, <2>1, <2>2
    <3>3. throwing[u] => \A v \in Side : \A y \in seen'[v] : y.owner = u => y.id < taken'[u]
      BY <1>4, <2>1 DEF Mirroring, NumbersInHand
    <3> QED
      BY <2>1, <3>1, <3>2, <3>3
  <2>3. CASE u # w
    <3>1. counter'[u] = counter[u] /\ stage'[u] = stage[u] /\ own'[u] = own[u]
      BY <1>2, <2>3 DEF Mirroring, WorldTypeOK
    <3> QED
      BY <1>4, <2>1, <3>1 DEF Mirroring, NumbersInHand
  <2> QED
    BY <2>2, <2>3
<1> QED
  BY <1>3, <1>7, <1>8

(* A thread reads the counter: what it reads is above every number in use. *)
LEMMA ReadStep ==
  ASSUME Mirroring, NEW w \in Side, Throw(w) \/ construct(w)
  PROVE  Provenance' /\ OwnNumbersFresh' /\ NumbersInHand'
<1> USE DEF Mirroring
<1>1. UNCHANGED <<counter, seen, existed, objects, net, todo, item>>
  BY DEF Throw, construct, applyVars, mainVars
<1>2. OwnNumbersFresh'
  BY <1>1 DEF OwnNumbersFresh
<1>3. Provenance'
  <2>1. \A v \in Side : stage'[v] \in {"find", "create", "count"} =>
          stage[v] \in {"find", "create", "count"}
    BY DEF Throw, construct, applyVars, WorldTypeOK
  <2> QED
    BY <1>1, <2>1 DEF Provenance
<1>4. /\ counter[w] \in Nat
      /\ \A v \in Side : \A y \in seen[v] : y.id \in Nat
      /\ \A v \in Side : \A y \in seen[v] : y.owner = w => y.id < counter[w]
  BY DEF WorldTypeOK, Axe, OwnNumbersFresh
<1>5. CASE Throw(w)
  <2>1. /\ throwing' = [throwing EXCEPT ![w] = TRUE]
        /\ taken' = [taken EXCEPT ![w] = counter[w]]
        /\ stage[w] = "count" => counter[w] = own[w]
        /\ UNCHANGED <<stage, own>>
    BY <1>5 DEF Throw, canUseActive, CooldownOutlasts, applyVars
  <2>2. taken'[w] = counter[w]
    BY <2>1 DEF WorldTypeOK
  <2>3. \A u \in Side : u # w => throwing'[u] = throwing[u] /\ taken'[u] = taken[u]
    BY <2>1 DEF WorldTypeOK
  <2> QED
    BY <1>1, <1>2, <1>3, <1>4, <2>1, <2>2, <2>3 DEF NumbersInHand
<1>6. CASE construct(w)
  <2>1. /\ own' = [own EXCEPT ![w] = counter[w]]
        /\ UNCHANGED <<throwing, taken>>
    BY <1>6 DEF construct, mainVars
  <2>2. own'[w] = counter[w]
    BY <2>1 DEF WorldTypeOK
  <2>3. \A u \in Side : u # w => own'[u] = own[u] /\ stage'[u] = stage[u]
    BY <1>6, <2>1 DEF construct, WorldTypeOK
  <2> QED
    BY <1>1, <1>2, <1>3, <1>4, <2>1, <2>2, <2>3 DEF NumbersInHand
<1> QED
  BY <1>5, <1>6

(* The other steps put nothing new into a world and forget no number.      *)
LEMMA QuietStep ==
  ASSUME Mirroring, NEW w \in Side,
         \/ \E x \in objects[w] : Hit(w, x)
         \/ get_info(w)
         \/ apply_info(w)
         \/ \E x \in todo[w] : exist(w, x)
         \/ end_of_list(w)
         \/ find_if(w)
  PROVE  Provenance' /\ OwnNumbersFresh' /\ NumbersInHand'
<1> USE DEF Mirroring, mainVars, applyVars
<1>1. UNCHANGED <<counter, seen, existed, throwing, taken, own>>
  BY DEF Hit, get_info, apply_info, exist, end_of_list, find_if,
         ExistedAfterErase, WorldTypeOK
<1>2. OwnNumbersFresh' /\ NumbersInHand'
  <2>1. \A v \in Side : stage'[v] = "count" => stage[v] = "count"
    BY DEF Hit, get_info, apply_info, exist, end_of_list, find_if, WorldTypeOK
  <2> QED
    BY <1>1, <2>1 DEF OwnNumbersFresh, NumbersInHand
<1>3. CASE \E x \in objects[w] : Hit(w, x)
  <2>1. UNCHANGED <<net, todo, item, stage>>
    BY <1>3 DEF Hit
  <2>2. \A v \in Side : objects'[v] \subseteq objects[v]
    BY <1>3 DEF Hit, WorldTypeOK
  <2> QED
    BY <1>1, <1>2, <2>1, <2>2 DEF Provenance
<1>4. CASE get_info(w)
  <2> DEFINE p == Peer(w)
  <2>1. p \in Side
    BY DEF Peer, Side
  <2>2. net' = [net EXCEPT ![p] = Append(@, objects[w])]
        /\ UNCHANGED <<objects, todo, item, stage>>
    BY <1>4 DEF get_info, objects_data
  <2> HIDE DEF p
  <2>3. \A v \in Side : \A i \in 1..Len(net'[v]) : \A y \in net'[v][i] :
          y \in seen'[y.owner]
    <3> SUFFICES ASSUME NEW v \in Side, NEW i \in 1..Len(net'[v]), NEW y \in net'[v][i]
                 PROVE  y \in seen[y.owner]
      BY <1>1
    <3>1. CASE v # p
      BY <2>2, <3>1 DEF Provenance, WorldTypeOK
    <3>2. CASE v = p
      <4>1. net'[v] = Append(net[v], objects[w])
        BY <2>2, <3>2 DEF WorldTypeOK
      <4>2. /\ Len(net'[v]) = Len(net[v]) + 1
            /\ \A j \in 1..Len(net[v]) : net'[v][j] = net[v][j]
            /\ net'[v][Len(net[v]) + 1] = objects[w]
        BY <4>1, AppendProperties DEF WorldTypeOK
      <4>3. Len(net[v]) \in Nat
        BY LenProperties DEF WorldTypeOK
      <4>4. CASE i \in 1..Len(net[v])
        BY <4>2, <4>4 DEF Provenance
      <4>5. CASE i = Len(net[v]) + 1
        BY <4>2, <4>5 DEF Provenance
      <4> QED
        BY <4>2, <4>3, <4>4, <4>5
    <3> QED
      BY <3>1, <3>2
  <2> QED
    BY <1>1, <1>2, <2>2, <2>3 DEF Provenance
<1>5. CASE apply_info(w)
  <2>1. /\ net[w] # <<>>
        /\ todo' = [todo EXCEPT ![w] = Head(net[w])]
        /\ net' = [net EXCEPT ![w] = Tail(@)]
        /\ stage' = [stage EXCEPT ![w] = "next"]
        /\ UNCHANGED <<objects, item>>
    BY <1>5 DEF apply_info
  <2>2. /\ Len(net[w]) \in Nat /\ Len(net[w]) >= 1
        /\ Head(net[w]) = net[w][1]
        /\ Len(Tail(net[w])) = Len(net[w]) - 1
        /\ \A i \in 1..Len(Tail(net[w])) : Tail(net[w])[i] = net[w][i + 1]
    BY <2>1, HeadTailProperties, EmptySeq, LenProperties DEF WorldTypeOK
  <2>3. \A v \in Side : \A y \in todo'[v] : y \in seen'[y.owner]
    BY <1>1, <2>1, <2>2 DEF Provenance, WorldTypeOK
  <2>4. \A v \in Side : \A i \in 1..Len(net'[v]) : \A y \in net'[v][i] :
          y \in seen'[y.owner]
    <3> SUFFICES ASSUME NEW v \in Side, NEW i \in 1..Len(net'[v])
                 PROVE  \E j \in 1..Len(net[v]) : net'[v][i] = net[v][j]
      BY <1>1 DEF Provenance
    <3>1. CASE v # w
      BY <2>1, <3>1 DEF WorldTypeOK
    <3>2. CASE v = w
      <4>1. net'[v] = Tail(net[v])
        BY <2>1, <3>2 DEF WorldTypeOK
      <4>2. i + 1 \in 1..Len(net[v])
        BY <2>2, <3>2, <4>1
      <4> QED
        BY <2>2, <3>2, <4>1, <4>2
    <3> QED
      BY <3>1, <3>2
  <2>5. \A v \in Side : stage'[v] \in {"find", "create", "count"} =>
          v # w /\ stage[v] \in {"find", "create", "count"}
    BY <2>1 DEF WorldTypeOK
  <2> QED
    BY <1>1, <1>2, <2>1, <2>3, <2>4, <2>5 DEF Provenance
<1>6. CASE \E x \in todo[w] : exist(w, x)
  <2>1. PICK x \in todo[w] : exist(w, x)
    BY <1>6
  <2>2. x \in Axe /\ x.owner \in Side /\ x \in seen[x.owner]
    BY DEF Provenance, WorldTypeOK, Axe
  <2>3. \A v \in Side : stage'[v] \in {"find", "create", "count"} =>
          \/ v # w /\ stage[v] \in {"find", "create", "count"} /\ item'[v] = item[v]
          \/ v = w /\ item'[v] = x /\ x.id \notin existed[w]
    BY <2>1 DEF exist, WorldTypeOK
  <2>4. x.id \notin existed[w] => x \notin seen[w] /\ x.owner # w
    BY <2>2 DEF Provenance
  <2>5. UNCHANGED <<objects, net>> /\ \A v \in Side : todo'[v] \subseteq todo[v]
    BY <2>1 DEF exist, WorldTypeOK
  <2> QED
    BY <1>1, <1>2, <2>2, <2>3, <2>4, <2>5 DEF Provenance
<1>7. CASE end_of_list(w) \/ find_if(w)
  <2>1. \A v \in Side : stage'[v] \in {"find", "create", "count"} =>
          stage[v] \in {"find", "create", "count"} /\ item'[v] = item[v]
    BY <1>7 DEF end_of_list, find_if, WorldTypeOK
  <2>2. UNCHANGED <<objects, net, todo>>
    BY <1>7 DEF end_of_list, find_if
  <2> QED
    BY <1>1, <1>2, <2>1, <2>2 DEF Provenance
<1> QED
  BY <1>2, <1>3, <1>4, <1>5, <1>6, <1>7

(* The invariant of the mirroring holds in every behaviour.                *)
LEMMA MirroringInductive == WorldSpec => []Mirroring
<1>1. WorldInit => Mirroring
  <2> SUFFICES ASSUME WorldInit PROVE Mirroring
    OBVIOUS
  <2>1. WorldTypeOK
    BY EmptySeq DEF WorldInit, WorldTypeOK, Axe, NoAxe, FirstId
  <2>2. Provenance /\ OwnNumbersFresh /\ NumbersInHand
    BY EmptySeq DEF WorldInit, Provenance, OwnNumbersFresh, NumbersInHand
  <2> QED
    BY <2>1, <2>2 DEF Mirroring
<1>2. Mirroring /\ [WorldNext]_worldVars => Mirroring'
  <2> SUFFICES ASSUME Mirroring, [WorldNext]_worldVars
               PROVE  Mirroring'
    OBVIOUS
  <2>1. WorldTypeOK'
    BY TypeStep DEF Mirroring
  <2>2. CASE UNCHANGED worldVars
    BY <2>2 DEF worldVars, mainVars, applyVars, Mirroring, WorldTypeOK, Provenance,
                OwnNumbersFresh, NumbersInHand
  <2>3. ASSUME NEW w \in Side, Throw(w) \/ construct(w)
        PROVE  Mirroring'
    BY <2>1, <2>3, ReadStep DEF Mirroring
  <2>4. ASSUME NEW w \in Side, Thrown(w)
        PROVE  Mirroring'
    BY <2>1, <2>4, ThrownStep DEF Mirroring
  <2>5. ASSUME NEW w \in Side, create(w)
        PROVE  Mirroring'
    BY <2>1, <2>5, CreateStep DEF Mirroring
  <2>6. ASSUME NEW w \in Side,
               \/ \E x \in objects[w] : Hit(w, x)
               \/ get_info(w)
               \/ apply_info(w)
               \/ \E x \in todo[w] : exist(w, x)
               \/ end_of_list(w)
               \/ find_if(w)
        PROVE  Mirroring'
    BY <2>1, <2>6, QuietStep DEF Mirroring
  <2> QED
    BY <2>2, <2>3, <2>4, <2>5, <2>6 DEF WorldNext, MainThread, Apply
<1> QED
  BY <1>1, <1>2, PTL DEF WorldSpec

(* No step of either thread leaves the types of the shared world.          *)
THEOREM WorldTypeCorrect == WorldSpec => []WorldTypeOK
<1>1. Mirroring => WorldTypeOK
  BY DEF Mirroring
<1> QED
  BY <1>1, MirroringInductive, PTL

(* However many axes fly and however long updates take, no axe is created  *)
(* twice in a world, and none in the world it was thrown in.               *)
THEOREM MirrorsOnce == WorldSpec => []MirroredOnce
<1>1. Mirroring => MirroredOnce
  BY DEF Mirroring, Provenance, MirroredOnce
<1> QED
  BY <1>1, MirroringInductive, PTL

(* Whatever an update lists was thrown by the player it is said to be of,  *)
(* and what is about to be mirrored is not of this world.                  *)
THEOREM UpdatesAreTrue == WorldSpec => []Provenance
<1>1. Mirroring => Provenance
  BY DEF Mirroring
<1> QED
  BY <1>1, MirroringInductive, PTL

(* Increments of Object::counter that the two threads lose to each other   *)
(* never bring back a number: what is in hand is above all that are used.  *)
THEOREM LostIncrementsDoNoHarm == WorldSpec => []NumbersInHand
<1>1. Mirroring => NumbersInHand
  BY DEF Mirroring
<1> QED
  BY <1>1, MirroringInductive, PTL

(* A player never uses the same number for two axes of its own.            *)
THEOREM OwnNumbersStayFresh == WorldSpec => []OwnNumbersFresh
<1>1. Mirroring => OwnNumbersFresh
  BY DEF Mirroring
<1> QED
  BY <1>1, MirroringInductive, PTL

=============================================================================
