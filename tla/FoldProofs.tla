----------------------------- MODULE FoldProofs -----------------------------
(***************************************************************************)
(* What a fold over a sequence computes, for every length of the sequence. *)
(* World::update lets every axe in its list act on the players in turn,    *)
(* client/src/game.cpp; the models say so with FoldLeft.  Its definition   *)
(* recurs over the sets of indices that are left.  Here it is shown to be  *)
(* the last of a chain of values, one for each element, and so to have     *)
(* every property that the steps of the chain keep.                        *)
(*                                                                         *)
(* The operation is a parameter: a module uses the results through an      *)
(* INSTANCE in which Op is its own operation.                              *)
(***************************************************************************)
EXTENDS Integers, Sequences, FiniteSetsExt, WellFoundedInduction, TLAPS

CONSTANT Op(_, _)

(* Induction over the numbers, with a set in place of a predicate: a       *)
(* least number outside the set has a predecessor in it.                   *)
LEMMA Induction ==
  ASSUME NEW T \in SUBSET Nat, 0 \in T, \A n \in T : n + 1 \in T
  PROVE  T = Nat
<1> SUFFICES ASSUME Nat \ T # {} PROVE FALSE
  OBVIOUS
<1> DEFINE Less == {ss \in Nat \X Nat : ss[1] < ss[2]}
<1>1. IsWellFoundedOn(Less, Nat)
  BY NatLessThanWellFounded DEF OpToRel
<1> HIDE DEF Less
<1>2. PICK x \in Nat \ T : \A y \in Nat \ T : ~ (<<y, x>> \in Less)
  BY <1>1, WFMin
<1>3. x # 0 /\ x - 1 \in Nat
  OBVIOUS
<1>4. <<x - 1, x>> \in Less
  BY <1>3 DEF Less
<1>5. x - 1 \in T
  BY <1>2, <1>3, <1>4
<1>6. x - 1 + 1 \in T
  BY <1>5
<1> QED
  BY <1>3, <1>6

(* The largest of a set of indices.                                        *)
LEMMA MaxOf ==
  ASSUME NEW m \in Nat, NEW s \in SUBSET (1..m), m \in s
  PROVE  Max(s) = m
<1>1. \A y \in s : m >= y
  OBVIOUS
<1>2. \A x \in s : (\A y \in s : x >= y) => x = m
  OBVIOUS
<1> QED
  BY <1>1, <1>2 DEF Max

(* g maps the sets of indices to what the elements there make of b; it is  *)
(* the function that FoldLeft chooses.                                     *)
FoldEq(g, b, seq, n) ==
  g = [s \in SUBSET (1..n) |->
         IF s = {} THEN b ELSE Op(g[s \ {Max(s)}], seq[Max(s)])]

(* FoldLeft(Op, b, seq), with its definitions expanded.                    *)
Folded(b, seq) == (CHOOSE g : FoldEq(g, b, seq, Len(seq)))[1..Len(seq)]

(* There is such a function, for every number of elements.                 *)
LEMMA FoldGraph ==
  ASSUME NEW b, NEW seq, NEW m \in Nat
  PROVE  \E g : FoldEq(g, b, seq, m)
<1> DEFINE T == {n \in Nat : \E g : FoldEq(g, b, seq, n)}
<1>1. 0 \in T
  <2> DEFINE g == [s \in SUBSET (1..0) |-> b]
  <2>1. SUBSET (1..0) = {{}}
    OBVIOUS
  <2>2. FoldEq(g, b, seq, 0)
    BY <2>1 DEF FoldEq
  <2> QED
    BY <2>2
<1>2. ASSUME NEW n \in T
      PROVE  n + 1 \in T
  <2>1. PICK g : FoldEq(g, b, seq, n)
    OBVIOUS
  <2> DEFINE h == [s \in SUBSET (1..(n + 1)) |->
                     IF n + 1 \in s THEN Op(g[s \ {n + 1}], seq[n + 1]) ELSE g[s]]
  <2>2. ASSUME NEW s \in SUBSET (1..(n + 1)), n + 1 \in s
        PROVE  /\ s # {}
               /\ h[s] = Op(h[s \ {Max(s)}], seq[Max(s)])
    <3>1. Max(s) = n + 1
      BY <2>2, MaxOf
    <3>2. s \ {n + 1} \in SUBSET (1..n) /\ s \ {n + 1} \in SUBSET (1..(n + 1)) /\ ~ (n + 1 \in s \ {n + 1})
      OBVIOUS
    <3>3. h[s \ {n + 1}] = g[s \ {n + 1}]
      BY <3>2
    <3>4. h[s] = Op(g[s \ {n + 1}], seq[n + 1])
      BY <2>2
    <3> QED
      BY <2>2, <3>1, <3>3, <3>4
  <2>3. ASSUME NEW s \in SUBSET (1..(n + 1)), ~ (n + 1 \in s)
        PROVE  h[s] = IF s = {} THEN b ELSE Op(h[s \ {Max(s)}], seq[Max(s)])
    <3>1. s \in SUBSET (1..n)
      BY <2>3
    <3>2. s \ {Max(s)} \in SUBSET (1..n) /\ s \ {Max(s)} \in SUBSET (1..(n + 1)) /\ ~ (n + 1 \in s \ {Max(s)})
      BY <2>3, <3>1
    <3>3. h[s] = g[s] /\ h[s \ {Max(s)}] = g[s \ {Max(s)}]
      BY <2>3, <3>2
    <3>4. g[s] = IF s = {} THEN b ELSE Op(g[s \ {Max(s)}], seq[Max(s)])
      BY <2>1, <3>1 DEF FoldEq
    <3> QED
      BY <3>3, <3>4
  <2>4. h = [s \in SUBSET (1..(n + 1)) |->
               IF s = {} THEN b ELSE Op(h[s \ {Max(s)}], seq[Max(s)])]
    <3>1. \A s \in SUBSET (1..(n + 1)) : h[s] = IF s = {} THEN b ELSE Op(h[s \ {Max(s)}], seq[Max(s)])
      <4> HIDE DEF h
      <4> QED
        BY <2>2, <2>3
    <3>2. h = [s \in SUBSET (1..(n + 1)) |-> h[s]]
      OBVIOUS
    <3> HIDE DEF h
    <3> QED
      BY <3>1, <3>2
  <2> HIDE DEF h
  <2>5. FoldEq(h, b, seq, n + 1)
    BY <2>4 DEF FoldEq
  <2> QED
    BY <2>5
<1>3. T = Nat
  <2> HIDE DEF T
  <2>1. T \in SUBSET Nat
    BY DEF T
  <2> QED
    BY <1>1, <1>2, <2>1, Induction
<1> QED
  BY <1>3

(* A fold is the last of a chain: b, what the first element makes of it,   *)
(* what the second makes of that, and so on.                               *)
LEMMA FoldChain ==
  ASSUME NEW b, NEW S, NEW seq \in Seq(S)
  PROVE  \E f : /\ f[0] = b
                /\ \A i \in 1..Len(seq) : f[i] = Op(f[i - 1], seq[i])
                /\ f[Len(seq)] = Folded(b, seq)
<1> DEFINE n == Len(seq)
           g0 == CHOOSE g : FoldEq(g, b, seq, n)
           f == [i \in 0..n |-> g0[1..i]]
<1>1. n \in Nat /\ DOMAIN seq = 1..n
  OBVIOUS
<1>2. \E g : FoldEq(g, b, seq, n)
  BY <1>1, FoldGraph
<1>3. FoldEq(g0, b, seq, n)
  BY <1>2
<1>4. Folded(b, seq) = g0[1..n]
  BY <1>1 DEF Folded
<1> HIDE DEF g0, n
<1>5. f[0] = b
  <2>1. 1..0 = {} /\ 1..0 \in SUBSET (1..n) /\ 0 \in 0..n
    BY <1>1
  <2> QED
    BY <1>3, <2>1 DEF FoldEq
<1>6. ASSUME NEW i \in 1..n
      PROVE  f[i] = Op(f[i - 1], seq[i])
  <2>1. 1..i \in SUBSET (1..n) /\ i \in 1..i /\ i \in 0..n /\ i - 1 \in 0..n
    BY <1>1
  <2>2. Max(1..i) = i
    BY <2>1, <1>1, MaxOf
  <2>3. (1..i) \ {i} = 1..(i - 1)
    BY <1>1
  <2>4. g0[1..i] = Op(g0[(1..i) \ {Max(1..i)}], seq[Max(1..i)])
    BY <1>3, <2>1 DEF FoldEq
  <2> QED
    BY <2>1, <2>2, <2>3, <2>4
<1>7. f[n] = Folded(b, seq)
  BY <1>1, <1>4
<1> HIDE DEF f
<1> QED
  BY <1>5, <1>6, <1>7 DEF n

(* A fold stays in a set in which it starts and which every element keeps. *)
LEMMA FoldStays ==
  ASSUME NEW S, NEW seq \in Seq(S), NEW P, NEW b \in P,
         \A p \in P, s \in S : Op(p, s) \in P
  PROVE  Folded(b, seq) \in P
<1> DEFINE n == Len(seq)
<1>1. n \in Nat /\ \A i \in 1..n : seq[i] \in S
  OBVIOUS
<1>2. PICK f : /\ f[0] = b
               /\ \A i \in 1..n : f[i] = Op(f[i - 1], seq[i])
               /\ f[n] = Folded(b, seq)
  BY FoldChain
<1> HIDE DEF n
<1> DEFINE T == {i \in Nat : i <= n => f[i] \in P}
<1>3. 0 \in T
  BY <1>2
<1>4. ASSUME NEW i \in T
      PROVE  i + 1 \in T
  <2>1. CASE i + 1 <= n
    <3>1. i + 1 \in 1..n /\ f[i] \in P /\ i + 1 - 1 = i
      BY <1>1, <2>1
    <3>2. f[i + 1] = Op(f[i], seq[i + 1])
      BY <1>2, <3>1
    <3> QED
      BY <1>1, <3>1, <3>2
  <2>2. CASE ~ (i + 1 <= n)
    BY <2>2
  <2> QED
    BY <2>1, <2>2
<1>5. T = Nat
  <2>1. T \in SUBSET Nat
    OBVIOUS
  <2> HIDE DEF T
  <2> QED
    BY <1>3, <1>4, <2>1, Induction
<1> QED
  BY <1>1, <1>2, <1>5

(* One element more is one operation more.                                 *)
LEMMA FoldAppend ==
  ASSUME NEW S, NEW seq \in Seq(S), NEW e \in S, NEW b
  PROVE  Folded(b, Append(seq, e)) = Op(Folded(b, seq), e)
<1> DEFINE n == Len(seq)
           more == Append(seq, e)
<1>1. /\ n \in Nat /\ more \in Seq(S) /\ Len(more) = n + 1 /\ more[n + 1] = e
      /\ \A i \in 1..n : more[i] = seq[i]
  OBVIOUS
<1>2. PICK f : /\ f[0] = b
               /\ \A i \in 1..n : f[i] = Op(f[i - 1], seq[i])
               /\ f[n] = Folded(b, seq)
  BY FoldChain
<1>3. PICK g : /\ g[0] = b
               /\ \A i \in 1..(n + 1) : g[i] = Op(g[i - 1], more[i])
               /\ g[n + 1] = Folded(b, more)
  <2> HIDE DEF more
  <2>1. \E g : /\ g[0] = b
               /\ \A i \in 1..Len(more) : g[i] = Op(g[i - 1], more[i])
               /\ g[Len(more)] = Folded(b, more)
    BY <1>1, FoldChain
  <2> QED
    BY <1>1, <2>1
<1> HIDE DEF n, more
<1> DEFINE T == {i \in Nat : i <= n => f[i] = g[i]}
<1>4. 0 \in T
  BY <1>2, <1>3
<1>5. ASSUME NEW i \in T
      PROVE  i + 1 \in T
  <2>1. CASE i + 1 <= n
    <3>1. i + 1 \in 1..n /\ i + 1 \in 1..(n + 1) /\ f[i] = g[i] /\ i + 1 - 1 = i
      BY <1>1, <2>1
    <3>2. f[i + 1] = Op(f[i], seq[i + 1]) /\ g[i + 1] = Op(g[i], more[i + 1])
      BY <1>2, <1>3, <3>1
    <3> QED
      BY <1>1, <3>1, <3>2
  <2>2. CASE ~ (i + 1 <= n)
    BY <2>2
  <2> QED
    BY <2>1, <2>2
<1>6. T = Nat
  <2>1. T \in SUBSET Nat
    OBVIOUS
  <2> HIDE DEF T
  <2> QED
    BY <1>4, <1>5, <2>1, Induction
<1>7. f[n] = g[n]
  <2>1. n \in T
    BY <1>1, <1>6
  <2> QED
    BY <1>1, <2>1
<1>8. PICK k \in 1..(n + 1) : k = n + 1 /\ k - 1 = n
  BY <1>1
<1>9. g[k] = Op(g[k - 1], more[k])
  BY <1>3
<1>10. g[n + 1] = Op(g[n], more[n + 1])
  BY <1>8, <1>9
<1> QED
  BY <1>1, <1>2, <1>3, <1>7, <1>10 DEF more

=============================================================================
