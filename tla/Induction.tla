----------------------------- MODULE Induction ------------------------------
(***************************************************************************)
(* Induction on the naturals, over a set of numbers instead of a           *)
(* predicate: a set stands for the numbers a statement is true of.  It     *)
(* rests on the library's fact that the strict subsets of finite sets are  *)
(* a well-founded order, which n |-> 0..n embeds the naturals in.          *)
(***************************************************************************)
EXTENDS Integers, FiniteSets, FiniteSetTheorems, TLAPS

(* A set of naturals that is not empty has a least one.                    *)
LEMMA LeastNumber ==
  ASSUME NEW S, S \subseteq Nat, S # {}
  PROVE  \E n \in S : \A m \in S : n <= m
  <1> DEFINE I == {0 .. k : k \in S}
  <1>1. I \subseteq FiniteSubsetsOf(Nat) /\ I # {}
    <2>1. \A k \in S : 0 .. k \in FiniteSubsetsOf(Nat)
      BY FS_Interval DEF FiniteSubsetsOf
    <2> QED
      BY <2>1
  <1> HIDE DEF I
  <1>2. \E x \in I : \A y \in I : <<y, x>> \notin StrictSubsetOrdering(Nat)
    BY <1>1, FS_StrictSubsetOrderingWellFounded, WFMin, Zenon
  <1>3. PICK n \in S : \A y \in I : <<y, 0 .. n>> \notin StrictSubsetOrdering(Nat)
    BY <1>2 DEF I
  <1>4. ASSUME NEW m \in S, m < n
        PROVE  FALSE
    <2>1. 0 .. m \in I
      BY DEF I
    <2>2. <<0 .. m, 0 .. n>> \in StrictSubsetOrdering(Nat)
      <3>1. 0 .. m \subseteq Nat /\ 0 .. n \subseteq Nat /\ 0 .. m \subseteq 0 .. n
        BY <1>4
      <3>2. n \in 0 .. n /\ n \notin 0 .. m
        BY <1>4
      <3>3. IsFiniteSet(0 .. m) /\ IsFiniteSet(0 .. n)
        BY FS_Interval
      <3> QED
        BY <3>1, <3>2, <3>3 DEF StrictSubsetOrdering
    <2> QED
      BY <1>3, <2>1, <2>2
  <1> QED
    BY <1>3, <1>4

(* A set that has 0 and the successor of each of its numbers has them all. *)
LEMMA EveryNumber ==
  ASSUME NEW S, 0 \in S, \A n \in Nat : n \in S => n + 1 \in S
  PROVE  Nat \subseteq S
  <1> DEFINE T == {n \in Nat : n \notin S}
  <1> SUFFICES ASSUME T # {} PROVE FALSE
    OBVIOUS
  <1>1. PICK n \in T : \A m \in T : n <= m
    BY LeastNumber
  <1>2. n \in Nat /\ n # 0 /\ n \notin S
    BY <1>1
  <1>3. n - 1 \in Nat /\ n - 1 \notin T
    BY <1>1, <1>2
  <1> QED
    BY <1>2, <1>3

(* The same up to a bound.                                                 *)
LEMMA EveryNumberUpTo ==
  ASSUME NEW last \in Nat, NEW S, 0 \in S, \A n \in 0 .. last - 1 : n \in S => n + 1 \in S
  PROVE  0 .. last \subseteq S
  <1> DEFINE T == S \cup {n \in Nat : n > last}
  <1>1. 0 \in T /\ \A n \in Nat : n \in T => n + 1 \in T
    OBVIOUS
  <1> HIDE DEF T
  <1>2. Nat \subseteq T
    BY <1>1, EveryNumber
  <1> QED
    BY <1>2 DEF T

(* A set of naturals that is not empty and has a bound has a greatest one. *)
LEMMA GreatestNumber ==
  ASSUME NEW S, S \subseteq Nat, S # {}, NEW bound \in Nat, \A n \in S : n <= bound
  PROVE  \E n \in S : \A m \in S : m <= n
  <1> DEFINE B == {b \in Nat : \A n \in S : n <= b}
  <1>1. PICK b \in B : \A c \in B : b <= c
    BY LeastNumber
  <1> HIDE DEF B
  <1>2. b \in Nat /\ \A n \in S : n <= b
    BY <1>1 DEF B
  <1>3. CASE b \in S
    BY <1>2, <1>3
  <1>4. CASE b \notin S
    <2>1. \A n \in S : n <= b - 1
      BY <1>2, <1>4
    <2>2. b - 1 \in Nat
      <3>1. PICK n \in S : TRUE
        OBVIOUS
      <3> QED
        BY <1>2, <2>1, <3>1
    <2>3. b - 1 \in B
      BY <2>1, <2>2 DEF B
    <2> QED
      BY <1>1, <1>2, <2>3
  <1> QED
    BY <1>3, <1>4
-----------------------------------------------------------------------------
(* A function made step by step: it begins with first and goes from each   *)
(* value to the next by the step's function.                               *)
Stepper(S) == [Nat -> [S -> S]]

Steps(S, first, step, f) ==
  f \in [Nat -> S] /\ f[0] = first /\ \A n \in Nat : f[n + 1] = step[n][f[n]]

(* There is one.                                                           *)
LEMMA StepByStep ==
  ASSUME NEW S, NEW first \in S, NEW step \in Stepper(S)
  PROVE  \E f : Steps(S, first, step, f)
  <1>0. step \in [Nat -> [S -> S]]
    BY DEF Stepper
  <1> DEFINE Good(m, g) == /\ g \in [0 .. m -> S]
                           /\ g[0] = first
                           /\ \A n \in 0 .. m - 1 : g[n + 1] = step[n][g[n]]
             D == {m \in Nat : \E g \in [0 .. m -> S] : Good(m, g)}
  <1>1. 0 \in D
    <2>1. Good(0, [n \in 0 .. 0 |-> first])
      OBVIOUS
    <2> QED
      BY <2>1
  <1>2. ASSUME NEW m \in Nat, m \in D
        PROVE  m + 1 \in D
    <2>1. PICK g \in [0 .. m -> S] : Good(m, g)
      BY <1>2
    <2> DEFINE h == [n \in 0 .. m + 1 |-> IF n = m + 1 THEN step[m][g[m]] ELSE g[n]]
    <2>2. g[m] \in S /\ step[m][g[m]] \in S
      BY <1>0, <2>1
    <2>3. h \in [0 .. m + 1 -> S]
      BY <2>1, <2>2
    <2>4. h[0] = first
      BY <2>1
    <2>5. ASSUME NEW n \in 0 .. m + 1 - 1
          PROVE  h[n + 1] = step[n][h[n]]
      <3>1. CASE n = m
        BY <3>1
      <3>2. CASE n # m
        <4>1. n \in 0 .. m - 1 /\ n + 1 \in 0 .. m /\ n + 1 # m + 1 /\ n \in 0 .. m
          BY <3>2
        <4>2. g[n + 1] = step[n][g[n]]
          BY <2>1, <4>1
        <4>3. h[n + 1] = g[n + 1] /\ h[n] = g[n]
          BY <4>1
        <4> QED
          BY <4>2, <4>3
      <3> QED
        BY <3>1, <3>2
    <2> HIDE DEF h
    <2>6. Good(m + 1, h)
      BY <2>3, <2>4, <2>5
    <2> HIDE DEF Good
    <2>7. m + 1 \in Nat
      OBVIOUS
    <2> QED
      BY <2>3, <2>6, <2>7
  <1> HIDE DEF D
  <1>3. Nat \subseteq D
    BY <1>1, <1>2, EveryNumber
  <1> DEFINE upTo == [m \in Nat |-> CHOOSE g \in [0 .. m -> S] : Good(m, g)]
             f == [m \in Nat |-> upTo[m][m]]
  <1>4. ASSUME NEW m \in Nat
        PROVE  Good(m, upTo[m])
    <2>1. \E g \in [0 .. m -> S] : Good(m, g)
      BY <1>3 DEF D
    <2> QED
      BY <2>1
  <1>5. ASSUME NEW m \in Nat
        PROVE  \A n \in 0 .. m : upTo[m][n] = upTo[n][n]
    <2> HIDE DEF upTo
    <2> DEFINE E == {n \in 0 .. m : upTo[m][n] = upTo[n][n]}
    <2>1. 0 \in E
      BY <1>4
    <2>2. ASSUME NEW n \in 0 .. m - 1, n \in E
          PROVE  n + 1 \in E
      <3> DEFINE K == {k \in 0 .. n : upTo[n + 1][k] = upTo[m][k]}
      <3>1. 0 \in K
        BY <1>4
      <3>2. ASSUME NEW k \in 0 .. n - 1, k \in K
            PROVE  k + 1 \in K
        <4>1. k \in 0 .. n + 1 - 1 /\ k \in 0 .. m - 1 /\ n + 1 \in Nat /\ k + 1 \in 0 .. n
          OBVIOUS
        <4>2. upTo[n + 1][k + 1] = step[k][upTo[n + 1][k]]
          BY <1>4, <4>1
        <4>3. upTo[m][k + 1] = step[k][upTo[m][k]]
          BY <1>4, <4>1
        <4> QED
          BY <3>2, <4>1, <4>2, <4>3
      <3> HIDE DEF K
      <3>3. 0 .. n \subseteq K
        BY <3>1, <3>2, EveryNumberUpTo
      <3>4. upTo[n + 1][n] = upTo[m][n]
        <4>1. n \in 0 .. n
          OBVIOUS
        <4> QED
          BY <3>3, <4>1 DEF K
      <3>5. n \in 0 .. n + 1 - 1 /\ n + 1 \in Nat /\ n + 1 \in 0 .. m
        OBVIOUS
      <3>6. upTo[n + 1][n + 1] = step[n][upTo[n + 1][n]]
        BY <1>4, <3>5
      <3>7. upTo[m][n + 1] = step[n][upTo[m][n]]
        BY <1>4
      <3> QED
        BY <3>4, <3>5, <3>6, <3>7
    <2> HIDE DEF E
    <2>3. 0 .. m \subseteq E
      BY <2>1, <2>2, EveryNumberUpTo
    <2> QED
      BY <2>3 DEF E
  <1> HIDE DEF upTo
  <1>6. f \in [Nat -> S] /\ f[0] = first
    <2>1. \A m \in Nat : upTo[m][m] \in S
      BY <1>4
    <2> QED
      BY <1>4, <2>1
  <1>7. ASSUME NEW n \in Nat
        PROVE  f[n + 1] = step[n][f[n]]
    <2>1. upTo[n + 1][n + 1] = step[n][upTo[n + 1][n]]
      BY <1>4
    <2>2. upTo[n + 1][n] = upTo[n][n]
      BY <1>5
    <2> QED
      BY <2>1, <2>2
  <1> HIDE DEF f
  <1>8. Steps(S, first, step, f)
    BY <1>6, <1>7 DEF Steps
  <1> QED
    BY <1>8
-----------------------------------------------------------------------------
(* A function made by going down: its value at n is made of one below n.   *)
IsBelow(below, last) ==
  below \in [1 .. last -> 0 .. last] /\ \A n \in 1 .. last : below[n] < n

StepperTo(S, last) == [1 .. last -> [S -> S]]

FromBelow(S, last, base, below, step, g) ==
  /\ g \in [0 .. last -> S]
  /\ g[0] = base
  /\ \A n \in 1 .. last : g[n] = step[n][g[below[n]]]

(* A function each of whose values is made from an earlier one exists.     *)
LEMMA EachFromBelow ==
  ASSUME NEW S, NEW last \in Nat, NEW base \in S,
         NEW below, IsBelow(below, last), NEW step \in StepperTo(S, last)
  PROVE  \E g : FromBelow(S, last, base, below, step, g)
  <1>0. /\ below \in [1 .. last -> 0 .. last] /\ \A n \in 1 .. last : below[n] < n
        /\ step \in [1 .. last -> [S -> S]]
    BY DEF IsBelow, StepperTo
  <1> DEFINE Good(m, g) == g[0] = base /\ \A n \in 1 .. m : g[n] = step[n][g[below[n]]]
             D == {m \in 0 .. last : \E g \in [0 .. m -> S] : Good(m, g)}
  <1>1. 0 \in D
    <2>1. [n \in 0 .. 0 |-> base] \in [0 .. 0 -> S] /\ Good(0, [n \in 0 .. 0 |-> base])
      OBVIOUS
    <2>2. 0 \in 0 .. last
      OBVIOUS
    <2> HIDE DEF Good
    <2> QED
      BY <2>1, <2>2
  <1>2. ASSUME NEW m \in 0 .. last - 1, m \in D
        PROVE  m + 1 \in D
    <2>1. PICK g \in [0 .. m -> S] : Good(m, g)
      BY <1>2
    <2> DEFINE h == [n \in 0 .. m + 1 |-> IF n = m + 1 THEN step[m + 1][g[below[m + 1]]]
                                                      ELSE g[n]]
    <2>2. m + 1 \in 1 .. last /\ below[m + 1] \in 0 .. m
      BY <1>0
    <2>3. g[below[m + 1]] \in S /\ step[m + 1][g[below[m + 1]]] \in S
      BY <1>0, <2>2
    <2>4. h \in [0 .. m + 1 -> S]
      BY <2>3
    <2>5. h[0] = base
      BY <2>1
    <2>6. ASSUME NEW n \in 1 .. m + 1
          PROVE  h[n] = step[n][h[below[n]]]
      <3>1. n \in 1 .. last /\ below[n] \in 0 .. m
        BY <1>0
      <3>2. h[below[n]] = g[below[n]]
        BY <3>1
      <3>3. CASE n = m + 1
        <4>1. h[m + 1] = step[m + 1][g[below[m + 1]]]
          BY <2>2
        <4> HIDE DEF h
        <4> QED
          BY <3>2, <3>3, <4>1
      <3>4. CASE n # m + 1
        <4>1. n \in 1 .. m /\ n \in 0 .. m
          BY <3>4
        <4>2. g[n] = step[n][g[below[n]]]
          BY <2>1, <4>1
        <4>3. h[n] = g[n]
          BY <3>4, <4>1
        <4> QED
          BY <3>2, <4>2, <4>3
      <3> QED
        BY <3>3, <3>4
    <2> HIDE DEF h
    <2>7. Good(m + 1, h)
      BY <2>5, <2>6
    <2> HIDE DEF Good
    <2>8. m + 1 \in 0 .. last
      OBVIOUS
    <2> QED
      BY <2>4, <2>7, <2>8
  <1> HIDE DEF D
  <1>3. 0 .. last \subseteq D
    BY <1>1, <1>2, EveryNumberUpTo
  <1>4. last \in D
    BY <1>3
  <1>5. PICK g \in [0 .. last -> S] : Good(last, g)
    BY <1>4 DEF D
  <1>6. FromBelow(S, last, base, below, step, g)
    BY <1>5 DEF FromBelow
  <1> QED
    BY <1>6
=============================================================================
