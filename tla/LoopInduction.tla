--------------------------- MODULE LoopInduction ---------------------------
(***************************************************************************)
(* Induction on the number of rounds of a loop.  The hypothesis is a set   *)
(* of numbers: a set, unlike an operator, is something a proof can give    *)
(* a lemma.                                                                *)
(***************************************************************************)
EXTENDS Integers, WellFoundedInduction, TLAPS

\* Induction over the numbers.
LEMMA SetInduction ==
  ASSUME NEW T, 0 \in T, \A n \in Nat : n \in T => n + 1 \in T
  PROVE  \A n \in Nat : n \in T
<1> DEFINE U == {n \in Nat : n \notin T}
           R == {s \in Nat \X Nat : s[1] < s[2]}
<1> SUFFICES ASSUME U # {} PROVE FALSE
  OBVIOUS
<1>1. IsWellFoundedOn(R, Nat) /\ U \subseteq Nat
  BY NatLessThanWellFounded DEF OpToRel
<1>2. \A i, j \in Nat : i < j => <<i, j>> \in R
  OBVIOUS
<1> HIDE DEF R, U
<1>3. PICK x \in U : \A y \in U : ~(<<y, x>> \in R)
  BY <1>1, WFMin
<1>4. x \in Nat /\ x \notin T
  BY DEF U
<1>5. x - 1 \in Nat /\ x - 1 < x
  BY <1>4
<1>6. x - 1 \in T
  BY <1>2, <1>3, <1>4, <1>5 DEF U
<1> QED
  BY <1>4, <1>5, <1>6

\* What holds before the first round and survives every round holds after
\* the last.
LEMMA RoundInduction ==
  ASSUME NEW N \in Nat, NEW T, 0 \in T, \A n \in 0..N - 1 : n \in T => n + 1 \in T
  PROVE  \A n \in 0..N : n \in T
<1> DEFINE S == {n \in Nat : n <= N => n \in T}
<1>1. 0 \in S
  OBVIOUS
<1>2. \A n \in Nat : n \in S => n + 1 \in S
  OBVIOUS
<1> HIDE DEF S
<1>3. \A n \in Nat : n \in S
  BY <1>1, <1>2, SetInduction
<1> QED
  BY <1>3 DEF S

\* What each number inherits from the ones before it holds of all.
LEMMA StrongInduction ==
  ASSUME NEW T, \A n \in Nat : (\A k \in 0..n - 1 : k \in T) => n \in T
  PROVE  \A n \in Nat : n \in T
<1> DEFINE S == {n \in Nat : \A k \in 0..n - 1 : k \in T}
<1>1. 0 \in S
  OBVIOUS
<1>2. \A n \in Nat : n \in S => n + 1 \in S
  <2> SUFFICES ASSUME NEW n \in Nat, n \in S, NEW k \in 0..n
               PROVE  k \in T
    OBVIOUS
  <2>1. n \in T
    OBVIOUS
  <2> QED
    BY <2>1
<1> HIDE DEF S
<1>3. \A n \in Nat : n \in S
  BY <1>1, <1>2, SetInduction
<1> QED
  BY <1>3 DEF S

\* The n-th round of a loop takes x to f[n][x]; g is what the loop holds after
\* each of its N rounds, beginning with a.
IsLoop(f, N, S) == \A n \in 1..N, x \in S : f[n][x] \in S

Iterates(g, f, a, N, S) ==
  /\ g \in [0..N -> S] /\ g[0] = a
  /\ \A n \in 1..N : g[n] = f[n][g[n - 1]]

LEMMA Iteration ==
  ASSUME NEW N \in Nat, NEW S, NEW a \in S, NEW f, IsLoop(f, N, S)
  PROVE  \E g : Iterates(g, f, a, N, S)
<1> DEFINE T == {k \in 0..N : \E g : Iterates(g, f, a, k, S)}
<1>1. 0 \in T
  <2> DEFINE h == [n \in 0..0 |-> a]
  <2>1. Iterates(h, f, a, 0, S) /\ 0 \in 0..N
    BY DEF Iterates
  <2> QED
    BY <2>1
<1>2. ASSUME NEW k \in 0..N - 1, k \in T
      PROVE  k + 1 \in T
  <2> PICK g : Iterates(g, f, a, k, S)
    BY <1>2
  <2> DEFINE h == [n \in 0..k + 1 |-> IF n = k + 1 THEN f[k + 1][g[k]] ELSE g[n]]
  <2>0. /\ g \in [0..k -> S] /\ g[0] = a
        /\ \A n \in 1..k : g[n] = f[n][g[n - 1]]
    BY DEF Iterates
  <2>1. k + 1 \in 1..N /\ k \in Nat /\ k \in 0..k /\ k + 1 \in 0..N
    OBVIOUS
  <2>2. /\ \A n \in 0..k : h[n] = g[n] /\ g[n] \in S
        /\ h[k + 1] = f[k + 1][g[k]]
        /\ h = [n \in 0..k + 1 |-> h[n]]
    BY <2>0, <2>1
  <2> HIDE DEF h
  <2>3. h[k + 1] \in S
    BY <2>1, <2>2 DEF IsLoop
  <2>4. \A n \in 0..k + 1 : h[n] \in S
    <3> SUFFICES ASSUME NEW n \in 0..k + 1 PROVE h[n] \in S
      OBVIOUS
    <3>1. n \in 0..k \/ n = k + 1
      BY <2>1
    <3> QED
      BY <2>2, <2>3, <3>1
  <2>5. \A n \in 1..k + 1 : h[n] = f[n][h[n - 1]]
    <3> SUFFICES ASSUME NEW n \in 1..k + 1
                 PROVE  h[n] = f[n][h[n - 1]]
      OBVIOUS
    <3>1. CASE n = k + 1
      <4>1. n - 1 = k
        BY <2>1, <3>1
      <4>2. h[k] = g[k]
        BY <2>1, <2>2, Zenon
      <4> QED
        BY <2>2, <3>1, <4>1, <4>2, Zenon
    <3>2. CASE n \in 1..k
      <4>1. n - 1 \in 0..k /\ n \in 0..k
        BY <2>1, <3>2
      <4> QED
        BY <2>0, <2>2, <3>2, <4>1
    <3> QED
      BY <2>1, <3>1, <3>2
  <2>6. 0 \in 0..k
    BY <2>1
  <2>7. Iterates(h, f, a, k + 1, S)
    BY <2>0, <2>2, <2>4, <2>5, <2>6 DEF Iterates
  <2> QED
    BY <2>1, <2>7
<1> HIDE DEF T
<1>3. \A k \in 0..N : k \in T
  BY <1>1, <1>2, RoundInduction
<1>4. N \in T
  BY <1>3
<1> QED
  BY <1>4 DEF T
=============================================================================
