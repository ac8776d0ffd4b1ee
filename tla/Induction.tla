----------------------------- MODULE Induction -----------------------------
(***************************************************************************)
(* Induction on the natural numbers, with the property as a set: the form  *)
(* in which the provers can use it.  It rests on the library's theorem that *)
(* < is well-founded on them.                                              *)
(***************************************************************************)
EXTENDS Naturals, WellFoundedInduction, TLAPS

LEMMA LessThanOnNat == OpToRel(<, Nat) = {ss \in Nat \X Nat : ss[1] < ss[2]}
BY DEF OpToRel

\* A set of numbers that is not empty has a least one.
LEMMA LeastNumber ==
  ASSUME NEW S \in SUBSET Nat, S # {}
  PROVE  \E x \in S : \A y \in S : x <= y
<1>. DEFINE R == {ss \in Nat \X Nat : ss[1] < ss[2]}
<1>1. IsWellFoundedOn(R, Nat)
  BY NatLessThanWellFounded, LessThanOnNat
<1>2. PICK x \in S : \A y \in S : <<y, x>> \notin R
  <2>. HIDE DEF R
  <2>. QED
    BY <1>1, WFMin
<1>3. \A y \in S : ~ (y < x)
  BY <1>2
<1>. QED
  BY <1>3

\* A set that contains 0, and with a number below N the next one, has all up to N.
LEMMA InductionUpTo ==
  ASSUME NEW N \in Nat, NEW S, 0 \in S,
         \A n \in 0 .. N : n < N /\ n \in S => n + 1 \in S
  PROVE  0 .. N \subseteq S
<1>. DEFINE missing == {n \in 0 .. N : n \notin S}
<1>. SUFFICES ASSUME missing # {} PROVE FALSE
  OBVIOUS
<1>1. PICK least \in missing : \A n \in missing : least <= n
  <2>1. missing \in SUBSET Nat
    OBVIOUS
  <2>. HIDE DEF missing
  <2>. QED
    BY <2>1, LeastNumber
<1>2. least # 0 /\ least \in 0 .. N
  BY <1>1
<1>3. least - 1 \in 0 .. N /\ least - 1 < N /\ least - 1 \in S
  BY <1>1, <1>2
<1>4. (least - 1) + 1 \in S
  BY <1>3
<1>. QED
  BY <1>1, <1>2, <1>4

\* The functions that recursion up to N defines, from a base and a step.
Solutions(N, T, base, step) ==
    {g \in [0 .. N -> T] : g[0] = base /\ \A i \in 1 .. N : g[i] = step[i][g[i - 1]]}

\* There is one.
LEMMA RecursionUpTo ==
  ASSUME NEW N \in Nat, NEW T, NEW base \in T, NEW step \in [1 .. N -> [T -> T]]
  PROVE  Solutions(N, T, base, step) # {}
<1>. DEFINE Solves(g, n) == /\ g \in [0 .. n -> T]
                            /\ g[0] = base
                            /\ \A i \in 1 .. n : g[i] = step[i][g[i - 1]]
            solved == {n \in 0 .. N : \E g : Solves(g, n)}
<1>1. 0 \in solved
  <2>. DEFINE g == [i \in 0 .. 0 |-> base]
  <2>1. g \in [0 .. 0 -> T] /\ g[0] = base /\ 1 .. 0 = {}
    OBVIOUS
  <2>2. Solves(g, 0)
    BY <2>1
  <2>. HIDE DEF g
  <2>. QED
    BY <2>2
<1>2. ASSUME NEW n \in 0 .. N, n < N, n \in solved
      PROVE  n + 1 \in solved
  <2>1. PICK g : Solves(g, n)
    BY <1>2
  <2>. DEFINE h == [i \in 0 .. n + 1 |-> IF i <= n THEN g[i] ELSE step[n + 1][g[n]]]
  <2>2. g[n] \in T /\ n + 1 \in 1 .. N
    BY <1>2, <2>1
  <2>3. step[n + 1][g[n]] \in T
    BY <2>2
  <2>4. h \in [0 .. n + 1 -> T] /\ h[0] = base
    BY <2>1, <2>3
  <2>5. ASSUME NEW i \in 1 .. n + 1
        PROVE  h[i] = step[i][h[i - 1]]
    <3>1. CASE i <= n
      <4>1. i \in 1 .. n /\ i - 1 \in 0 .. n + 1 /\ i \in 0 .. n + 1 /\ i - 1 <= n
        BY <3>1
      <4>2. h[i] = g[i] /\ h[i - 1] = g[i - 1]
        BY <3>1, <4>1
      <4>. QED
        BY <2>1, <4>1, <4>2
    <3>2. CASE i = n + 1
      <4>1. h[i] = step[n + 1][g[n]] /\ h[n] = g[n] /\ i - 1 = n
        BY <3>2
      <4>. QED
        BY <3>2, <4>1
    <3>. QED
      BY <3>1, <3>2
  <2>6. Solves(h, n + 1)
    BY <2>4, <2>5
  <2>. HIDE DEF h
  <2>7. \E f : Solves(f, n + 1)
    BY <2>6
  <2>. HIDE DEF Solves
  <2>. QED
    BY <2>2, <2>7
<1>3. 0 .. N \subseteq solved
  <2>. HIDE DEF solved
  <2>. QED
    BY <1>1, <1>2, InductionUpTo
<1>4. \E g : Solves(g, N)
  BY <1>3
<1>. QED
  BY <1>4 DEF Solutions
=============================================================================
