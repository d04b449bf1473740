----------------------------- MODULE Iteration -----------------------------
(***************************************************************************)
(* What a loop keeps: proofs about a decoder's loops instantiate this      *)
(* module with a round of the loop and with what is to hold behind each    *)
(* round.  Both have a parameter p, for what the loop does not change; a    *)
(* round may depend on its number.                                         *)
(***************************************************************************)
EXTENDS Integers, NaturalsInduction, WellFoundedInduction, TLAPS

CONSTANTS Round(_, _, _), Good(_, _)

Follows(after, p, first, n) ==
    after = [i \in 0..n |-> IF i = 0 THEN first ELSE Round(p, i, after[i - 1])]

Iterated(p, first, n) ==
    LET after[i \in 0..n] == IF i = 0 THEN first ELSE Round(p, i, after[i - 1])
    IN after[n]

LEMMA Induction ==
    ASSUME NEW S, 0 \in S, \A n \in Nat : n \in S => n + 1 \in S
    PROVE  Nat \subseteq S
<1> DEFINE T == Nat \ S
<1> SUFFICES ASSUME T # {} PROVE FALSE
  OBVIOUS
<1>1. PICK m \in T : \A k \in T : <<k, m>> \notin OpToRel(<, Nat)
  BY WFMin, NatLessThanWellFounded, Zenon
<1>2. \A k \in T : ~(k < m)
  BY <1>1 DEF OpToRel
<1>3. m \in Nat /\ m # 0 /\ m - 1 \in Nat
  OBVIOUS
<1>4. m - 1 \in S
  BY <1>2, <1>3
<1> QED
  BY <1>3, <1>4

(* The recursive definition of a loop defines something. *)
LEMMA Defined ==
    ASSUME NEW p, NEW first, NEW n \in Nat
    PROVE  \E after : Follows(after, p, first, n)
<1> DEFINE T == {m \in Nat : \E after : Follows(after, p, first, m)}
<1>1. 0 \in T
  <2> DEFINE f == [i \in 0..0 |-> first]
  <2>1. Follows(f, p, first, 0)
    BY DEF Follows
  <2> QED
    BY <2>1
<1>2. ASSUME NEW m \in Nat, m \in T PROVE m + 1 \in T
  <2>1. PICK f : Follows(f, p, first, m)
    BY <1>2
  <2>2. \A i \in 0..m : f[i] = IF i = 0 THEN first ELSE Round(p, i, f[i - 1])
    BY <2>1 DEF Follows
  <2> DEFINE g == [i \in 0..(m + 1) |-> IF i = m + 1 THEN Round(p, m + 1, f[m]) ELSE f[i]]
             h == [i \in 0..(m + 1) |-> IF i = 0 THEN first ELSE Round(p, i, g[i - 1])]
  <2>3. ASSUME NEW i \in 0..(m + 1) PROVE g[i] = h[i]
    <3>1. CASE i = 0
      <4>1. 0 \in 0..m /\ i # m + 1
        BY <3>1
      <4> QED
        BY <2>2, <3>1, <4>1
    <3>2. CASE i = m + 1
      <4>1. i # 0 /\ i - 1 = m /\ m \in 0..(m + 1) /\ m # m + 1
        BY <3>2
      <4>2. g[i - 1] = f[m]
        BY <4>1
      <4> QED
        BY <3>2, <4>1, <4>2
    <3>3. CASE i # 0 /\ i # m + 1
      <4>1. i \in 0..m /\ i - 1 \in 0..(m + 1) /\ i - 1 # m + 1
        BY <3>3
      <4>2. g[i - 1] = f[i - 1] /\ g[i] = f[i]
        BY <3>3, <4>1
      <4> QED
        BY <2>2, <3>3, <4>1, <4>2
    <3> QED
      BY <3>1, <3>2, <3>3
  <2>4. g = h
    BY <2>3
  <2> HIDE DEF g
  <2>5. Follows(g, p, first, m + 1)
    BY <2>4 DEF Follows
  <2> QED
    BY <2>5
<1>3. n \in T
  <2> HIDE DEF T
  <2> QED
    BY <1>1, <1>2, Induction
<1> QED
  BY <1>3

(* What every round keeps holds behind a loop of any number of rounds. *)
LEMMA LoopKeeps ==
    ASSUME NEW p, NEW first, Good(p, first), NEW n \in Nat,
           \A i \in 1..n : \A x : Good(p, x) => Good(p, Round(p, i, x))
    PROVE  Good(p, Iterated(p, first, n))
<1> DEFINE after == CHOOSE f : Follows(f, p, first, n)
<1>1. Iterated(p, first, n) = after[n]
  BY DEF Iterated, Follows
<1>2. Follows(after, p, first, n)
  BY Defined
<1> HIDE DEF after
<1>3. \A i \in 0..n : after[i] = IF i = 0 THEN first ELSE Round(p, i, after[i - 1])
  BY <1>2 DEF Follows
<1> DEFINE T == {i \in Nat : i <= n => Good(p, after[i])}
<1>4. 0 \in T
  <2>1. 0 \in 0..n
    OBVIOUS
  <2>2. after[0] = first
    BY <1>3, <2>1
  <2> QED
    BY <2>2
<1>5. ASSUME NEW i \in Nat, i \in T PROVE i + 1 \in T
  <2> SUFFICES ASSUME i + 1 <= n PROVE Good(p, after[i + 1])
    OBVIOUS
  <2>1. i + 1 \in 0..n /\ i + 1 \in 1..n /\ (i + 1) - 1 = i /\ i <= n
    OBVIOUS
  <2>2. after[i + 1] = Round(p, i + 1, after[i])
    BY <1>3, <2>1
  <2>3. Good(p, after[i])
    BY <1>5, <2>1
  <2>4. Good(p, Round(p, i + 1, after[i]))
    BY <2>3
  <2> QED
    BY <2>2, <2>4
<1>6. n \in T
  <2> HIDE DEF T
  <2> QED
    BY <1>4, <1>5, Induction
<1> QED
  BY <1>1, <1>6
=============================================================================
