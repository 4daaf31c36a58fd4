------------------------------ MODULE Induction ------------------------------
(***************************************************************************)
(* Induction on the natural numbers and functions defined by recursion,    *)
(* stated for sets and functions, so that the provers can use them: with   *)
(* these lemmas TLAPS reasons about the recursive functions and the loops  *)
(* of the other modules.                                                   *)
(***************************************************************************)
EXTENDS Integers, WellFoundedInduction, TLAPS

(* A set of natural numbers has a least element. *)
LEMMA LeastElement ==
  ASSUME NEW T, T \subseteq Nat, T # {}
  PROVE  \E x \in T : \A y \in T : x <= y
<1>1. IsWellFoundedOn(OpToRel(<, Nat), Nat)
  BY NatLessThanWellFounded
<1>2. PICK x \in T : \A y \in T : ~ (<<y, x>> \in OpToRel(<, Nat))
  BY <1>1, WFMin
<1>3. \A y \in T : ~(y < x)
  BY <1>2 DEF OpToRel
<1> QED
  BY <1>3

(* Induction: a set that has 0, and with each number its successor, has    *)
(* all of them.                                                            *)
LEMMA SetInduction ==
  ASSUME NEW S, 0 \in S, \A n \in Nat : n \in S => n + 1 \in S
  PROVE  Nat \subseteq S
<1> SUFFICES ASSUME Nat \ S # {} PROVE FALSE
  OBVIOUS
<1>1. PICK x \in Nat \ S : \A y \in Nat \ S : x <= y
  BY LeastElement
<1>2. x # 0 /\ x - 1 \in Nat /\ ~(x <= x - 1)
  BY <1>1
<1>3. x - 1 \in S
  BY <1>1, <1>2
<1> QED
  BY <1>1, <1>2, <1>3

(* The same up to a number. *)
LEMMA SetInductionUpTo ==
  ASSUME NEW N \in Nat, NEW S, 0 \in S,
         \A n \in 1 .. N : n - 1 \in S => n \in S
  PROVE  \A n \in 0 .. N : n \in S
<1> DEFINE G == {n \in Nat : n <= N => n \in S}
<1>1. 0 \in G
  OBVIOUS
<1>2. ASSUME NEW n \in Nat, n \in G PROVE n + 1 \in G
  <2>1. n + 1 <= N => n \in S /\ n + 1 \in 1 .. N /\ (n + 1) - 1 = n
    BY <1>2
  <2> QED
    BY <2>1
<1> HIDE DEF G
<1>3. Nat \subseteq G
  BY <1>1, <1>2, SetInduction
<1> QED
  BY <1>3 DEF G

(* Recursion: the function that starts with a and goes on by F exists. *)
GoesOn(r, S, F, a, N) ==
  r \in [0 .. N -> S] /\ r[0] = a /\ \A n \in 1 .. N : r[n] = F[n][r[n - 1]]

LEMMA Recursion ==
  ASSUME NEW S, NEW F, F \in [Nat -> [S -> S]], NEW a \in S, NEW N \in Nat
  PROVE  \E r : GoesOn(r, S, F, a, N)
<1> DEFINE Goes(k, r) == r[0] = a /\ \A n \in 1 .. k : r[n] = F[n][r[n - 1]]
           G == {k \in Nat : \E r \in [0 .. k -> S] : Goes(k, r)}
<1>1. 0 \in G
  <2> DEFINE r == [x \in 0 .. 0 |-> a]
  <2>1. r \in [0 .. 0 -> S] /\ r[0] = a /\ \A n \in 1 .. 0 : r[n] = F[n][r[n - 1]]
    OBVIOUS
  <2> QED
    BY <2>1
<1>2. ASSUME NEW k \in Nat, k \in G PROVE k + 1 \in G
  <2>1. PICK r \in [0 .. k -> S] : Goes(k, r)
    BY <1>2
  <2> DEFINE v == F[k + 1][r[k]]
             q == [x \in 0 .. (k + 1) |-> IF x = k + 1 THEN v ELSE r[x]]
  <2>2. v \in S /\ v = F[k + 1][r[k]]
    OBVIOUS
  <2> HIDE DEF v
  <2>3. q \in [0 .. (k + 1) -> S]
    BY <2>2
  <2>4. q[0] = a
    BY <2>1
  <2>5. ASSUME NEW n \in 1 .. (k + 1) PROVE q[n] = F[n][q[n - 1]]
    <3>1. CASE n = k + 1
      <4>1. q[n] = v /\ q[n - 1] = r[k]
        BY <3>1
      <4> QED
        BY <4>1, <3>1, <2>2
    <3>2. CASE n # k + 1
      <4>1. n \in 1 .. k /\ q[n] = r[n] /\ q[n - 1] = r[n - 1]
        BY <3>2
      <4> QED
        BY <4>1, <2>1
    <3> QED
      BY <3>1, <3>2
  <2> HIDE DEF q
  <2>6. Goes(k + 1, q)
    BY <2>4, <2>5
  <2> HIDE DEF Goes
  <2> QED
    BY <2>3, <2>6
<1> HIDE DEF G
<1>3. Nat \subseteq G
  BY <1>1, <1>2, SetInduction
<1> QED
  BY <1>3 DEF G, GoesOn
=============================================================================
