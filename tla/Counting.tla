------------------------------- MODULE Counting -------------------------------
(***************************************************************************)
(* Induction over numbers by sets, and recursion over them: what the       *)
(* proofs about the recursive functions of the other modules rest on.      *)
(***************************************************************************)
EXTENDS Integers, WellFoundedInduction, TLAPS

(* A set of numbers that has 0 and, with every number, the next.           *)
LEMMA Counting ==
    ASSUME NEW S, 0 \in S, \A n \in Nat : n \in S => n + 1 \in S
    PROVE  Nat \subseteq S
<1> DEFINE Out == Nat \ S
<1> SUFFICES ASSUME Out # {} PROVE FALSE
  OBVIOUS
<1>1. PICK n \in Out : \A m \in Out : ~ (<<m, n>> \in OpToRel(<, Nat))
  BY NatLessThanWellFounded, WFMin
<1>2. \A m \in Out : ~ (m < n)
  BY <1>1 DEF OpToRel
<1>3. n # 0 /\ n - 1 \in Nat
  OBVIOUS
<1>4. n - 1 \in S
  BY <1>2, <1>3
<1> QED BY <1>3, <1>4

(* What is true of 0 and handed on from each number up to n to the next.   *)
LEMMA CountingTo ==
    ASSUME NEW n \in Nat, NEW S, 0 \in S, \A i \in 1 .. n : i - 1 \in S => i \in S
    PROVE  0 .. n \subseteq S
<1> DEFINE T == {i \in Nat : i =< n => i \in S}
<1>1. 0 \in T
  OBVIOUS
<1>2. \A i \in Nat : i \in T => i + 1 \in T
  <2> SUFFICES ASSUME NEW i \in Nat, i \in T, i + 1 =< n PROVE i + 1 \in S
    OBVIOUS
  <2>1. i \in S /\ i + 1 \in 1 .. n /\ (i + 1) - 1 = i
    OBVIOUS
  <2> QED BY <2>1
<1>3. Nat \subseteq T
  <2> HIDE DEF T
  <2> QED BY <1>1, <1>2, Counting
<1> QED BY <1>3

(* f has the values that the recursion from first by the steps G gives.    *)
Follows(f, n, V, first, G) ==
    /\ f \in [0 .. n -> V]
    /\ f[0] = first
    /\ \A i \in 1 .. n : f[i] = G[i][f[i - 1]]

LEMMA RecursionTo ==
    ASSUME NEW n \in Nat, NEW V, NEW first \in V, NEW G \in [1 .. n -> [V -> V]]
    PROVE  \E f : Follows(f, n, V, first, G)
<1> DEFINE S == {m \in Nat : m =< n => \E f : Follows(f, m, V, first, G)}
<1>1. 0 \in S
  <2>1. Follows([i \in 0 .. 0 |-> first], 0, V, first, G)
    BY DEF Follows
  <2> QED BY <2>1
<1>2. \A m \in Nat : m \in S => m + 1 \in S
  <2> SUFFICES ASSUME NEW m \in Nat, m \in S, m + 1 =< n
               PROVE  \E f : Follows(f, m + 1, V, first, G)
    OBVIOUS
  <2>1. PICK f : Follows(f, m, V, first, G)
    OBVIOUS
  <2> DEFINE v == G[m + 1][f[m]]
             g == [i \in 0 .. m + 1 |-> IF i = m + 1 THEN v ELSE f[i]]
  <2>2. v \in V
    <3>1. f[m] \in V /\ m + 1 \in 1 .. n
      BY <2>1 DEF Follows
    <3>2. G[m + 1] \in [V -> V]
      BY <3>1
    <3> QED BY <3>1, <3>2
  <2>3. g \in [0 .. m + 1 -> V]
    <3> HIDE DEF v
    <3> QED BY <2>1, <2>2 DEF Follows
  <2>4. g[0] = first /\ g[m + 1] = v /\ \A i \in 0 .. m : g[i] = f[i]
    BY <2>1 DEF Follows
  <2>5. \A i \in 1 .. m + 1 : g[i] = G[i][g[i - 1]]
    <3> SUFFICES ASSUME NEW i \in 1 .. m + 1 PROVE g[i] = G[i][g[i - 1]]
      OBVIOUS
    <3> HIDE DEF g
    <3>1. CASE i = m + 1
      <4>1. g[i - 1] = f[m]
        BY <2>4, <3>1
      <4> QED BY <2>4, <3>1, <4>1
    <3>2. CASE i \in 1 .. m
      <4>1. g[i - 1] = f[i - 1] /\ g[i] = f[i]
        BY <2>4, <3>2
      <4> QED BY <2>1, <3>2, <4>1 DEF Follows
    <3> QED BY <3>1, <3>2
  <2>6. Follows(g, m + 1, V, first, G)
    <3> HIDE DEF g
    <3> QED BY <2>3, <2>4, <2>5 DEF Follows
  <2> QED BY <2>6
<1>3. n \in S
  <2> HIDE DEF S
  <2> QED BY <1>1, <1>2, Counting
<1> QED BY <1>3
=============================================================================
