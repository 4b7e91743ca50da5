--------------------------- MODULE SequenceFolds ----------------------------
(***************************************************************************)
(* Induction along a fold.  The models walk over lists (of messages, of    *)
(* addresses, of contexts) with FoldLeft, and what such a walk preserves   *)
(* is an induction over the list.  The operation of the walk, op, and the  *)
(* property, Inv, are constants of this module: a module that has a walk   *)
(* to reason about takes an instance with its own two operators.           *)
(*                                                                         *)
(* Every definition and lemma of an instance is in sight of every proof of *)
(* the module that takes it, so this one is kept to what an instance       *)
(* needs: it names no other module than Integers, it writes the unfolded   *)
(* form of FoldLeft out (Walk), and its theorem has the induction over the *)
(* natural numbers as a hypothesis, which the modules that extend the      *)
(* library prove once.                                                     *)
(***************************************************************************)
EXTENDS Integers

CONSTANTS
    op(_, _, _),    \* the context of the walk, what it has so far, the next element
    Inv(_, _, _)    \* the context, the number of elements visited, what it has so far

\* The greatest element of a set of numbers.
Greatest(s) == CHOOSE x \in s : \A y \in s : x >= y

\* The walk over seq, in a context p that does not change: FoldLeft, with the
\* definitions it is made of expanded.
Walk(p, base, seq) ==
    LET iter[s \in SUBSET (DOMAIN seq)] ==
            IF s = {} THEN base ELSE op(p, iter[s \ {Greatest(s)}], seq[Greatest(s)])
    IN  iter[DOMAIN seq]

\* Induction on the natural numbers.
Induction == \A T : 0 \in T /\ (\A k \in Nat : k \in T => k + 1 \in T) => Nat \subseteq T

\* An element that no other exceeds is the greatest one.
LEMMA GreatestIsMax ==
    ASSUME NEW s, s \subseteq Int, NEW m \in s, \A y \in s : m >= y
    PROVE  Greatest(s) = m
<1>1. \E x \in s : \A y \in s : x >= y
    OBVIOUS
<1>2. Greatest(s) \in s /\ \A y \in s : Greatest(s) >= y
    BY <1>1 DEF Greatest
<1>3. \A x : x \in s /\ x >= m => x = m
    OBVIOUS
<1> QED BY <1>2, <1>3

\* What a walk chooses to compute itself with.
IsWalk(p, base, seq, n, g) ==
    g = [s \in SUBSET (1..n) |-> IF s = {} THEN base ELSE op(p, g[s \ {Greatest(s)}], seq[Greatest(s)])]

\* The recursive function of a fold exists: the sets of indices up to k + 1 that
\* are not among those up to k have k + 1 as their greatest element.
LEMMA WalkExists ==
    ASSUME Induction, NEW p, NEW base, NEW seq, NEW n \in Nat
    PROVE  \E g : IsWalk(p, base, seq, n, g)
<1> DEFINE Is(k, g) == g = [s \in SUBSET (1..k) |->
                              IF s = {} THEN base ELSE op(p, g[s \ {Greatest(s)}], seq[Greatest(s)])]
           T == {k \in Nat : \E g : Is(k, g)}
<1>1. 0 \in T
    <2> DEFINE g0 == [s \in SUBSET (1..0) |-> base]
    <2>1. \A s \in SUBSET (1..0) : s = {}
        OBVIOUS
    <2>2. Is(0, g0)
        BY <2>1
    <2> QED BY <2>2
<1>2. ASSUME NEW k \in Nat, k \in T PROVE k + 1 \in T
    <2>1. PICK g : Is(k, g)
        BY <1>2
    <2> DEFINE h == [s \in SUBSET (1..(k + 1)) |->
                       IF s \subseteq 1..k THEN g[s] ELSE op(p, g[s \ {k + 1}], seq[k + 1])]
    <2>2. ASSUME NEW s \in SUBSET (1..(k + 1)) 
          PROVE  h[s] = IF s = {} THEN base ELSE op(p, h[s \ {Greatest(s)}], seq[Greatest(s)])
        <3>1. CASE s \subseteq 1..k
            <4>1. h[s] = g[s]
                BY <3>1
            <4>2. s \ {Greatest(s)} \subseteq 1..k /\ s \ {Greatest(s)} \in SUBSET (1..(k + 1))
                BY <3>1
            <4>3. h[s \ {Greatest(s)}] = g[s \ {Greatest(s)}]
                BY <4>2
            <4>4. g[s] = IF s = {} THEN base ELSE op(p, g[s \ {Greatest(s)}], seq[Greatest(s)])
                BY <2>1, <3>1
            <4> HIDE DEF h
            <4> QED BY <4>1, <4>3, <4>4
        <3>2. CASE ~(s \subseteq 1..k)
            <4>1. k + 1 \in s
                BY <3>2
            <4>2. \A y \in s : k + 1 >= y
                OBVIOUS
            <4>3. Greatest(s) = k + 1
                <5>1. s \subseteq Int
                    OBVIOUS
                <5> QED BY <4>1, <4>2, <5>1, GreatestIsMax
            <4>4. s \ {k + 1} \subseteq 1..k /\ s \ {k + 1} \in SUBSET (1..(k + 1))
                OBVIOUS
            <4>5. h[s \ {k + 1}] = g[s \ {k + 1}]
                BY <4>4
            <4>6. h[s] = op(p, g[s \ {k + 1}], seq[k + 1])
                BY <3>2
            <4> HIDE DEF h
            <4> QED BY <4>1, <4>3, <4>5, <4>6
        <3> QED BY <3>1, <3>2
    <2>3. h = [s \in SUBSET (1..(k + 1)) |-> h[s]]
        OBVIOUS
    <2>4. Is(k + 1, h)
        <3> HIDE DEF h
        <3>1. h = [s \in SUBSET (1..(k + 1)) |-> IF s = {} THEN base ELSE op(p, h[s \ {Greatest(s)}], seq[Greatest(s)])]
            BY <2>2, <2>3
        <3> QED BY <3>1
    <2> HIDE DEF h, Is
    <2> QED BY <2>4
<1>3. Nat \subseteq T
    <2> HIDE DEF T
    <2> QED BY <1>1, <1>2 DEF Induction
<1>4. PICK g : Is(n, g)
    BY <1>3
<1>5. IsWalk(p, base, seq, n, g)
    BY <1>4 DEF IsWalk
<1> QED BY <1>5

\* What each step of a walk preserves, the whole walk preserves.
THEOREM WalkInvariant ==
    ASSUME Induction, NEW p, NEW base, NEW seq, NEW n \in Nat, DOMAIN seq = 1..n,
           Inv(p, 0, base),
           \A k \in 1..n : \A a : Inv(p, k - 1, a) => Inv(p, k, op(p, a, seq[k]))
    PROVE  Inv(p, n, Walk(p, base, seq))
<1> DEFINE iter == CHOOSE g : IsWalk(p, base, seq, n, g)
           T == {k \in Nat : k <= n => Inv(p, k, iter[1..k])}
<1>0. IsWalk(p, base, seq, n, iter)
    BY WalkExists
<1>1. iter = [s \in SUBSET (1..n) |-> IF s = {} THEN base ELSE op(p, iter[s \ {Greatest(s)}], seq[Greatest(s)])]
    <2> HIDE DEF iter
    <2> QED BY <1>0 DEF IsWalk
<1>2. Walk(p, base, seq) = iter[1..n]
    BY DEF Walk, IsWalk
<1> HIDE DEF iter
<1>3. 0 \in T
    <2>1. 1..0 = {} /\ {} \in SUBSET (1..n)
        OBVIOUS
    <2>2. iter[{}] = base
        BY <1>1, <2>1
    <2> QED BY <2>1, <2>2
<1>4. ASSUME NEW k \in Nat, k \in T PROVE k + 1 \in T
    <2>1. SUFFICES ASSUME k + 1 <= n PROVE Inv(p, k + 1, iter[1..(k + 1)])
        OBVIOUS
    <2>2. Inv(p, k, iter[1..k])
        BY <1>4, <2>1
    <2> DEFINE s == 1..(k + 1)
    <2>3. s \in SUBSET (1..n) /\ s # {}
        <3>1. \A j \in s : j \in 1..n
            BY <2>1
        <3>2. k + 1 \in s
            OBVIOUS
        <3> QED BY <3>1, <3>2
    <2>4. Greatest(s) = k + 1
        <3>1. k + 1 \in s /\ s \subseteq Int /\ \A y \in s : k + 1 >= y
            OBVIOUS
        <3> QED BY <3>1, GreatestIsMax
    <2>5. s \ {k + 1} = 1..k
        OBVIOUS
    <2>6. iter[s] = op(p, iter[s \ {Greatest(s)}], seq[Greatest(s)])
        <3> HIDE DEF s
        <3> QED BY <1>1, <2>3
    <2>7. iter[s] = op(p, iter[1..k], seq[k + 1])
        BY <2>4, <2>5, <2>6
    <2>8. k + 1 \in 1..n /\ (k + 1) - 1 = k
        BY <2>1
    <2> QED BY <2>2, <2>7, <2>8
<1>5. Nat \subseteq T
    <2> HIDE DEF T
    <2> QED BY <1>3, <1>4 DEF Induction
<1> QED BY <1>2, <1>5
=============================================================================
