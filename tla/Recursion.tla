------------------------------ MODULE Recursion ------------------------------
(***************************************************************************)
(* Induction over the natural numbers and the existence of functions that  *)
(* are defined by recursion, stated of sets and functions instead of       *)
(* predicates and operators, so that the provers can apply them.           *)
(***************************************************************************)
EXTENDS Integers, WellFoundedInduction, TLAPS

LEMMA Least ==
    ASSUME NEW S \in SUBSET Nat, S # {}
    PROVE  \E n \in S : \A m \in S : n <= m
<1> DEFINE Less == {p \in Nat \X Nat : p[1] < p[2]}
<1>1. IsWellFoundedOn(Less, Nat)
    BY NatLessThanWellFounded DEF OpToRel
<1>2. PICK n \in S : \A m \in S : <<m, n>> \notin Less
    <2> HIDE DEF Less
    <2>1. QED
        BY <1>1, WFMin
<1>3. \A m \in S : ~(m < n)
    BY <1>2
<1>4. QED
    BY <1>3

\* A set that has 0, and the successor of each number it has, has them all.
LEMMA Induction ==
    ASSUME NEW S, 0 \in S, \A n \in Nat : n \in S => n + 1 \in S
    PROVE  Nat \subseteq S
<1>1. SUFFICES ASSUME Nat \ S # {} PROVE FALSE
    OBVIOUS
<1>2. PICK n \in Nat \ S : \A m \in Nat \ S : n <= m
    BY <1>1, Least
<1>3. n - 1 \in Nat /\ n - 1 \in S
    BY <1>2
<1>4. QED
    BY <1>2, <1>3

-----------------------------------------------------------------------------
(* Functions by recursion: f[0] is the base, f[n] comes from n and f[n - 1]. *)

Begins(g, n, X, base, next) ==
    /\ g \in [0 .. n -> X]
    /\ g[0] = base
    /\ \A i \in 1 .. n : g[i] = next[i][g[i - 1]]

LEMMA BeginningExists ==
    ASSUME NEW X, NEW base \in X, NEW next \in [Nat -> [X -> X]], NEW n \in Nat
    PROVE  \E g : Begins(g, n, X, base, next)
<1> DEFINE S == {k \in Nat : \E g : Begins(g, k, X, base, next)}
<1>1. 0 \in S
    <2>1. Begins([i \in 0 .. 0 |-> base], 0, X, base, next)
        BY DEF Begins
    <2>2. QED
        BY <2>1
<1>2. ASSUME NEW k \in Nat, k \in S PROVE k + 1 \in S
    <2>1. PICK g : Begins(g, k, X, base, next)
        BY <1>2
    <2> DEFINE h == [i \in 0 .. k + 1 |-> IF i = k + 1 THEN next[k + 1][g[k]] ELSE g[i]]
    <2>2. g[k] \in X /\ next[k + 1][g[k]] \in X
        BY <2>1 DEF Begins
    <2>3. h \in [0 .. k + 1 -> X] /\ h[0] = base
        BY <2>1, <2>2 DEF Begins
    <2>4. ASSUME NEW i \in 1 .. k + 1 PROVE h[i] = next[i][h[i - 1]]
        <3>1. i - 1 \in 0 .. k /\ h[i - 1] = g[i - 1]
            OBVIOUS
        <3>2. CASE i = k + 1
            BY <3>1, <3>2
        <3>3. CASE i # k + 1
            BY <2>1, <3>1, <3>3 DEF Begins
        <3>4. QED
            BY <3>2, <3>3
    <2>5. Begins(h, k + 1, X, base, next)
        BY <2>3, <2>4 DEF Begins
    <2>6. QED
        BY <2>5
<1>3. Nat \subseteq S
    <2> HIDE DEF S
    <2>1. QED
        BY <1>1, <1>2, Induction
<1>4. QED
    BY <1>3

LEMMA BeginningsAgree ==
    ASSUME NEW X, NEW base \in X, NEW next \in [Nat -> [X -> X]],
           NEW n \in Nat, NEW g, Begins(g, n, X, base, next),
           NEW m \in Nat, NEW h, Begins(h, m, X, base, next), n <= m
    PROVE  g[n] = h[n]
<1> DEFINE S == {i \in Nat : i <= n => g[i] = h[i]}
<1>1. 0 \in S
    BY DEF Begins
<1>2. ASSUME NEW i \in Nat, i \in S PROVE i + 1 \in S
    <2>1. CASE i + 1 <= n
        <3>1. /\ i + 1 \in 1 .. n /\ i + 1 \in 1 .. m
              /\ (i + 1) - 1 = i /\ g[i] = h[i]
            BY <1>2, <2>1
        <3>2. g[i + 1] = next[i + 1][g[i]] /\ h[i + 1] = next[i + 1][h[i]]
            BY <3>1 DEF Begins
        <3>3. QED
            BY <3>1, <3>2
    <2>2. CASE ~(i + 1 <= n)
        BY <2>2
    <2>3. QED
        BY <2>1, <2>2
<1>3. Nat \subseteq S
    <2> HIDE DEF S
    <2>1. QED
        BY <1>1, <1>2, Induction
<1>4. QED
    BY <1>3

Recursive(f, D, X, base, next) ==
    /\ f \in [D -> X]
    /\ \A n \in D : f[n] = IF n = 0 THEN base ELSE next[n][f[n - 1]]

\* The function exists, on all natural numbers or on those up to a bound.
Downward(D) == D \subseteq Nat /\ \A n \in D : n # 0 => n - 1 \in D

LEMMA RecursiveFunctionExists ==
    ASSUME NEW D, Downward(D),
           NEW X, NEW base \in X, NEW next \in [D -> [X -> X]]
    PROVE  \E f : Recursive(f, D, X, base, next)
<1> USE DEF Downward
<1> DEFINE total == [n \in Nat |-> IF n \in D THEN next[n] ELSE [x \in X |-> x]]
           Beginning(n) == CHOOSE g : Begins(g, n, X, base, total)
           f == [n \in D |-> Beginning(n)[n]]
<1>1. total \in [Nat -> [X -> X]]
    OBVIOUS
<1>2. \A n \in D : total[n] = next[n]
    OBVIOUS
<1> HIDE DEF total
<1>3. ASSUME NEW n \in Nat PROVE Begins(Beginning(n), n, X, base, total)
    <2>1. \E g : Begins(g, n, X, base, total)
        BY <1>1, BeginningExists
    <2>2. QED
        BY <2>1
<1> HIDE DEF Beginning
<1>4. f \in [D -> X]
    <2>1. ASSUME NEW n \in D PROVE Beginning(n)[n] \in X
        <3>1. n \in Nat /\ n \in 0 .. n
            OBVIOUS
        <3>2. QED
            BY <1>3, <3>1 DEF Begins
    <2>2. QED
        BY <2>1
<1>5. ASSUME NEW n \in D PROVE f[n] = IF n = 0 THEN base ELSE next[n][f[n - 1]]
    <2>1. CASE n = 0
        BY <1>3, <2>1 DEF Begins
    <2>2. CASE n # 0
        <3>1. n - 1 \in D /\ n - 1 \in Nat /\ n - 1 <= n /\ n \in 1 .. n
            BY <2>2
        <3>2. Beginning(n)[n] = total[n][Beginning(n)[n - 1]]
            BY <1>3, <3>1 DEF Begins
        <3>3. Beginning(n - 1)[n - 1] = Beginning(n)[n - 1]
            BY <1>1, <1>3, <3>1, BeginningsAgree
        <3>4. f[n - 1] \in X /\ f[n - 1] = Beginning(n)[n - 1] /\ f[n] = Beginning(n)[n]
            BY <1>4, <3>1, <3>3
        <3>5. QED
            BY <1>2, <2>2, <3>2, <3>4
    <2>3. QED
        BY <2>1, <2>2
<1>6. QED
    BY <1>4, <1>5 DEF Recursive

LEMMA RecursionOnNat ==
    ASSUME NEW X, NEW base \in X, NEW next \in [Nat -> [X -> X]]
    PROVE  \E f : Recursive(f, Nat, X, base, next)
<1>1. Downward(Nat)
    BY DEF Downward
<1>2. QED
    BY <1>1, RecursiveFunctionExists

LEMMA RecursionUpTo ==
    ASSUME NEW max \in Nat,
           NEW X, NEW base \in X, NEW next \in [0 .. max -> [X -> X]]
    PROVE  \E f : Recursive(f, 0 .. max, X, base, next)
<1>1. Downward(0 .. max)
    BY DEF Downward
<1>2. QED
    BY <1>1, RecursiveFunctionExists
=============================================================================
