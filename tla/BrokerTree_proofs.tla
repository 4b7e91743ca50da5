------------------------- MODULE BrokerTree_proofs -------------------------
(***************************************************************************)
(* Facts about the subscription tree (SubTree): it stays a tree whatever   *)
(* is added and removed, what is retained in it stays where it is, and the *)
(* searches lead to nodes that exist.                                      *)
(***************************************************************************)
EXTENDS SubTree, FiniteSetTheorems, SequenceTheorems, TLAPS

\* Paths over characters C, subscriptions of the contexts in S.
Path(C) == Seq(Seq(C))

Leaf(S) == [context : S, qos : 0..2]

Node(C, S) == [kids : Seq(Seq(C)), subs : Seq(Leaf(S)), retained : Nat]

\* No path of a set is longer than a number.
Bounded(paths) == \E n \in Nat : \A p \in paths : Len(p) <= n

\* A tree: finitely many nodes, and the children are there.
TreeOk(t, C, S) ==
    /\ IsFiniteSet(DOMAIN t) /\ DOMAIN t \subseteq Path(C) /\ <<>> \in DOMAIN t
    /\ Bounded(DOMAIN t)
    /\ \A p \in DOMAIN t : t[p] \in Node(C, S)
    /\ \A p \in DOMAIN t : \A k \in DOMAIN t[p].kids : Append(p, t[p].kids[k]) \in DOMAIN t

\* Tree e has grown from t.
Grown(t, e) ==
    /\ DOMAIN t \subseteq DOMAIN e
    /\ \A p \in DOMAIN t : e[p].subs = t[p].subs /\ e[p].retained = t[p].retained
    /\ \A p \in DOMAIN e \ DOMAIN t : e[p].subs = <<>> /\ e[p].retained = NoBody

-----------------------------------------------------------------------------

\* A set of natural numbers has a least one.
LEMMA LeastNat ==
    ASSUME NEW T, T \subseteq Nat, T # {}
    PROVE  \E x \in T : \A y \in T : x <= y
<1>1. PICK x \in T : \A y \in T : ~(<<y, x>> \in OpToRel(<, Nat))
    BY NatLessThanWellFounded, WFMin
<1>2. \A y \in T : ~(y < x)
    BY <1>1 DEF OpToRel
<1>3. \A y \in T : x <= y
    BY <1>2
<1> QED BY <1>3

\* Induction on the natural numbers: the least number that is not in T is not 0,
\* and comes after one that is.
LEMMA NatInduct ==
    ASSUME NEW T, 0 \in T, \A k \in Nat : k \in T => k + 1 \in T
    PROVE  Nat \subseteq T
<1>1. SUFFICES ASSUME Nat \ T # {} PROVE FALSE
    OBVIOUS
<1>2. PICK x \in Nat \ T : \A y \in Nat \ T : x <= y
    <2>1. Nat \ T \subseteq Nat
        OBVIOUS
    <2> QED BY <1>1, <2>1, LeastNat
<1>3. x # 0
    OBVIOUS
<1>4. x - 1 \in Nat /\ x - 1 < x /\ x = (x - 1) + 1
    BY <1>3
<1>5. x - 1 \in T
    BY <1>2, <1>4
<1> QED BY <1>4, <1>5
(* Lists.                                                                  *)

\* split, step by step.
split_step(C, levels, c) ==
    IF c = "/" THEN Append(levels, <<>>)
    ELSE [levels EXCEPT ![Len(levels)] = Append(@, c)]

SplitSoFar(C, k, levels) == levels \in Seq(Seq(C)) /\ Len(levels) >= 1

SplitWalk == INSTANCE SequenceFolds WITH op <- split_step, Inv <- SplitSoFar

\* The induction that the theorem of SplitWalk assumes.
LEMMA SplitWalkInducts == SplitWalk!Induction
    BY NatInduct DEF SplitWalk!Induction

\* Topics!split cuts a string of characters into strings of characters, at least one.
LEMMA SplitType ==
    ASSUME NEW C, NEW str \in Seq(C)
    PROVE  split(str) \in Seq(Seq(C)) /\ Len(split(str)) >= 1
<1>1. SplitSoFar(C, 0, << <<>> >>)
    <2>1. <<>> \in Seq(C)
        OBVIOUS
    <2> QED BY <2>1 DEF SplitSoFar
<1>2. ASSUME NEW k \in 1..Len(str), NEW a, SplitSoFar(C, k - 1, a)
      PROVE  SplitSoFar(C, k, split_step(C, a, str[k]))
    <2>1. a \in Seq(Seq(C)) /\ Len(a) \in Nat /\ Len(a) >= 1 /\ str[k] \in C
        BY <1>2 DEF SplitSoFar
    <2>2. CASE str[k] = "/"
        <3>1. Append(a, <<>>) \in Seq(Seq(C)) /\ Len(Append(a, <<>>)) = Len(a) + 1
            BY <2>1
        <3> QED BY <2>1, <2>2, <3>1 DEF SplitSoFar, split_step
    <2>3. CASE str[k] # "/"
        <3>1. a[Len(a)] \in Seq(C)
            BY <2>1
        <3>2. Append(a[Len(a)], str[k]) \in Seq(C)
            BY <2>1, <3>1
        <3> DEFINE b == [a EXCEPT ![Len(a)] = Append(@, str[k])]
        <3>3. b \in Seq(Seq(C)) /\ Len(b) = Len(a)
            BY <2>1, <3>2
        <3>4. split_step(C, a, str[k]) = b
            BY <2>3 DEF split_step
        <3> HIDE DEF b
        <3> QED BY <2>1, <3>3, <3>4 DEF SplitSoFar
    <2> QED BY <2>2, <2>3
<1>3. Len(str) \in Nat /\ DOMAIN str = 1..Len(str)
    OBVIOUS
<1>4. SplitSoFar(C, Len(str), SplitWalk!Walk(C, << <<>> >>, str))
    BY <1>1, <1>2, <1>3, SplitWalk!WalkInvariant, SplitWalkInducts
<1>5. SplitWalk!Walk(C, << <<>> >>, str) = split(str)
    BY DEF SplitWalk!Walk, SplitWalk!Greatest, FoldLeft, MapThenFoldSet, Max, split_step, split
<1> QED BY <1>4, <1>5 DEF SplitSoFar

\* The tokens of a name.
LEMMA TokensType ==
    ASSUME NEW C, NEW str \in Seq(C)
    PROVE  _sub_topic_tokenise(str) \in Path(C) /\ Len(_sub_topic_tokenise(str)) >= 1
<1>1. split(str) \in Seq(Seq(C)) /\ Len(split(str)) >= 1
    BY SplitType
<1>2. << <<>> >> \o split(str) \in Seq(Seq(C)) /\ Len(<< <<>> >> \o split(str)) >= 1
    <2>1. << <<>> >> \in Seq(Seq(C)) /\ Len(<< <<>> >>) = 1
        <3>1. <<>> \in Seq(C)
            OBVIOUS
        <3> QED BY <3>1
    <2> QED BY <1>1, <2>1
<1>3. CASE str # <<>> /\ Head(str) = "$"
    BY <1>1, <1>3 DEF _sub_topic_tokenise, Path
<1>4. CASE str # <<>> /\ Head(str) # "$" /\ Head(str) = "/"
    <2>1. Tail(str) \in Seq(C)
        BY <1>4
    <2>2. split(Tail(str)) \in Seq(Seq(C)) /\ Len(split(Tail(str))) >= 1
        BY <2>1, SplitType
    <2>3. << <<>> >> \in Seq(Seq(C)) /\ Len(<< <<>> >>) = 1
        <3>1. <<>> \in Seq(C)
            OBVIOUS
        <3> QED BY <3>1
    <2>4. << <<>> >> \o split(Tail(str)) \in Seq(Seq(C)) /\ Len(<< <<>> >> \o split(Tail(str))) >= 1
        BY <2>2, <2>3
    <2>5. _sub_topic_tokenise(str) = << <<>> >> \o split(Tail(str))
        BY <1>4 DEF _sub_topic_tokenise
    <2> QED BY <2>4, <2>5 DEF Path
<1>5. CASE str = <<>> \/ (Head(str) # "$" /\ Head(str) # "/")
    <2>1. _sub_topic_tokenise(str) = << <<>> >> \o split(str)
        BY <1>5 DEF _sub_topic_tokenise
    <2> QED BY <1>2, <2>1 DEF Path
<1> QED BY <1>3, <1>4, <1>5

\* The path of a name.
LEMMA NodePath ==
    ASSUME NEW C, NEW tokens \in Path(C), Len(tokens) >= 1
    PROVE  /\ Head(tokens) \in Seq(C) /\ Head(tokens) = tokens[1]
           /\ node_path(tokens) \in Path(C) /\ Len(node_path(tokens)) = Len(tokens) + 1
           /\ node_path(tokens)[1] = Head(tokens)
           /\ \A n \in 2..(Len(tokens) + 1) : node_path(tokens)[n] = tokens[n - 1]
<1>1. Len(tokens) \in Nat /\ tokens # <<>> /\ 1 \in 1..Len(tokens) /\ tokens \in Seq(Seq(C))
    BY DEF Path
<1>2. Head(tokens) \in Seq(C) /\ Head(tokens) = tokens[1]
    BY <1>1
<1> DEFINE h == <<Head(tokens)>>
<1>3. h \in Seq(Seq(C)) /\ Len(h) = 1 /\ h[1] = Head(tokens)
    BY <1>2
<1> HIDE DEF h
<1>4. /\ h \o tokens \in Seq(Seq(C)) /\ Len(h \o tokens) = Len(tokens) + 1
      /\ \A n \in 1..(Len(tokens) + 1) : (h \o tokens)[n] = IF n <= 1 THEN h[n] ELSE tokens[n - 1]
    <2>1. /\ h \o tokens \in Seq(Seq(C)) /\ Len(h \o tokens) = Len(h) + Len(tokens)
          /\ \A n \in 1..(Len(h) + Len(tokens)) : (h \o tokens)[n] = IF n <= Len(h) THEN h[n] ELSE tokens[n - Len(h)]
        BY <1>1, <1>3, ConcatProperties
    <2> QED BY <1>1, <1>3, <2>1
<1>5. 1 \in 1..(Len(tokens) + 1) /\ \A n \in 2..(Len(tokens) + 1) : n \in 1..(Len(tokens) + 1) /\ ~(n <= 1)
    BY <1>1
<1>6. node_path(tokens) = h \o tokens
    BY DEF node_path, h
<1> QED BY <1>2, <1>3, <1>4, <1>5, <1>6 DEF Path

\* only, step by step: what is kept is in the list and may stay.
only_step(stays, kept, x) == IF x \in stays THEN Append(kept, x) ELSE kept

\* The context of the walk is the pair of the list and what may stay.
keep_step(c, kept, x) == only_step(c[2], kept, x)

KeptSoFar(c, k, kept) ==
    /\ kept \in Seq(Range(c[1]) \cap c[2])
    /\ \A j \in 1..k : c[1][j] \in c[2] => \E n \in DOMAIN kept : kept[n] = c[1][j]

OnlyWalk == INSTANCE SequenceFolds WITH op <- keep_step, Inv <- KeptSoFar

\* The induction that the theorem of OnlyWalk assumes.
LEMMA OnlyWalkInducts == OnlyWalk!Induction
    BY NatInduct DEF OnlyWalk!Induction

\* What SubTree!only leaves of a list: the elements that stay, all of them and no other.
LEMMA OnlyKeeps ==
    ASSUME NEW X, NEW list \in Seq(X), NEW stays
    PROVE  /\ only(list, stays) \in Seq(X)
           /\ \A n \in DOMAIN only(list, stays) :
                only(list, stays)[n] \in stays /\ \E k \in DOMAIN list : list[k] = only(list, stays)[n]
           /\ \A k \in DOMAIN list : list[k] \in stays =>
                \E n \in DOMAIN only(list, stays) : only(list, stays)[n] = list[k]
<1> DEFINE c == <<list, stays>>
           R == Range(list) \cap stays
<1>0. c[1] = list /\ c[2] = stays
    OBVIOUS
<1>1. KeptSoFar(c, 0, <<>>)
    <2>1. <<>> \in Seq(Range(c[1]) \cap c[2])
        OBVIOUS
    <2> QED BY <2>1 DEF KeptSoFar
<1>2. ASSUME NEW k \in 1..Len(list), NEW a, KeptSoFar(c, k - 1, a)
      PROVE  KeptSoFar(c, k, keep_step(c, a, list[k]))
    <2>1. a \in Seq(R) /\ \A j \in 1..(k - 1) : list[j] \in stays => \E n \in DOMAIN a : a[n] = list[j]
        BY <1>2 DEF KeptSoFar
    <2>2. k - 1 \in Nat /\ \A j \in 1..k : j \in 1..(k - 1) \/ j = k
        OBVIOUS
    <2>3. CASE list[k] \in stays
        <3>1. list[k] \in R
            BY <2>3 DEF Range
        <3> DEFINE b == Append(a, list[k])
        <3>2. b \in Seq(R) /\ Len(b) = Len(a) + 1 /\ b[Len(a) + 1] = list[k]
                /\ \A n \in 1..Len(a) : b[n] = a[n]
            BY <2>1, <3>1
        <3>3. DOMAIN a = 1..Len(a) /\ DOMAIN b = 1..(Len(a) + 1) /\ Len(a) \in Nat
            BY <2>1, <3>2
        <3> HIDE DEF b
        <3>4. ASSUME NEW j \in 1..k, list[j] \in stays PROVE \E n \in DOMAIN b : b[n] = list[j]
            <4>1. CASE j = k
                <5>1. Len(a) + 1 \in DOMAIN b
                    BY <3>3
                <5> QED BY <3>2, <4>1, <5>1
            <4>2. CASE j \in 1..(k - 1)
                <5>1. PICK n \in DOMAIN a : a[n] = list[j]
                    BY <2>1, <3>4, <4>2
                <5>2. n \in DOMAIN b /\ b[n] = a[n]
                    BY <3>2, <3>3
                <5> QED BY <5>1, <5>2
            <4> QED BY <2>2, <4>1, <4>2
        <3>5. keep_step(c, a, list[k]) = b
            BY <2>3 DEF keep_step, only_step, b
        <3> HIDE DEF c
        <3> QED BY <1>0, <3>2, <3>4, <3>5 DEF KeptSoFar
    <2>4. CASE list[k] \notin stays
        <3>1. keep_step(c, a, list[k]) = a
            BY <2>4 DEF keep_step, only_step
        <3> HIDE DEF c
        <3> QED BY <1>0, <2>1, <2>2, <2>4, <3>1 DEF KeptSoFar
    <2> QED BY <2>3, <2>4
<1>3. Len(list) \in Nat /\ DOMAIN list = 1..Len(list)
    OBVIOUS
<1>4. KeptSoFar(c, Len(list), OnlyWalk!Walk(c, <<>>, list))
    <2> HIDE DEF c
    <2> QED BY <1>1, <1>2, <1>3, OnlyWalk!WalkInvariant, OnlyWalkInducts
<1>5. OnlyWalk!Walk(c, <<>>, list) = only(list, stays)
    BY DEF OnlyWalk!Walk, OnlyWalk!Greatest, FoldLeft, MapThenFoldSet, Max, only_step, keep_step, only
<1> DEFINE o == only(list, stays)
<1>6. o \in Seq(R) /\ \A j \in 1..Len(list) : list[j] \in stays => \E n \in DOMAIN o : o[n] = list[j]
    <2> HIDE DEF c
    <2> QED BY <1>0, <1>4, <1>5 DEF KeptSoFar
<1> HIDE DEF o
<1>7. R \subseteq X
    BY DEF Range
<1>8. o \in Seq(X)
    BY <1>6, <1>7, SeqMonotonic
<1>9. \A n \in DOMAIN o : o[n] \in R
    BY <1>6
<1> QED BY <1>3, <1>6, <1>8, <1>9 DEF Range, o

\* What FlattenSeq chooses.
IsFlat(seqs, n, g) == g = [i \in 1..n |-> IF i = 1 THEN seqs[i] ELSE g[i - 1] \o seqs[i]]

\* The function the concatenation of the lists of the children is chosen as exists.
LEMMA FlatExists ==
    ASSUME NEW seqs, NEW n \in Nat
    PROVE  \E g : IsFlat(seqs, n, g)
<1> DEFINE T == {k \in Nat : \E g : IsFlat(seqs, k, g)}
<1>1. 0 \in T
    <2>1. IsFlat(seqs, 0, [i \in 1..0 |-> seqs])
        BY DEF IsFlat
    <2> QED BY <2>1
<1>2. ASSUME NEW k \in Nat, k \in T PROVE k + 1 \in T
    <2>1. PICK g : IsFlat(seqs, k, g)
        BY <1>2
    <2> DEFINE h == [i \in 1..(k + 1) |-> IF i \in 1..k THEN g[i] ELSE IF i = 1 THEN seqs[i] ELSE g[i - 1] \o seqs[i]]
    <2>2. \A i \in 1..k : g[i] = IF i = 1 THEN seqs[i] ELSE g[i - 1] \o seqs[i]
        BY <2>1 DEF IsFlat
    <2>3. \A i \in 1..k : h[i] = g[i]
        OBVIOUS
    <2>4. \A i \in 1..(k + 1) : h[i] = IF i = 1 THEN seqs[i] ELSE g[i - 1] \o seqs[i]
        BY <2>2
    <2>5. \A i \in 1..(k + 1) : i # 1 => i - 1 \in 1..k
        OBVIOUS
    <2>6. \A i \in 1..(k + 1) : h[i] = IF i = 1 THEN seqs[i] ELSE h[i - 1] \o seqs[i]
        <3> HIDE DEF h
        <3>1. TAKE i \in 1..(k + 1)
        <3>2. CASE i = 1
            BY <2>4, <3>2
        <3>3. CASE i # 1
            <4>1. h[i - 1] = g[i - 1]
                BY <2>3, <2>5, <3>3
            <4>2. h[i] = g[i - 1] \o seqs[i]
                BY <2>4, <3>3
            <4> QED BY <3>3, <4>1, <4>2
        <3> QED BY <3>2, <3>3
    <2>7. h = [i \in 1..(k + 1) |-> h[i]]
        OBVIOUS
    <2>8. IsFlat(seqs, k + 1, h)
        <3> HIDE DEF h
        <3>1. h = [i \in 1..(k + 1) |-> IF i = 1 THEN seqs[i] ELSE h[i - 1] \o seqs[i]]
            BY <2>6, <2>7, Zenon
        <3> QED BY <3>1 DEF IsFlat
    <2> HIDE DEF h
    <2> QED BY <2>8
<1>3. Nat \subseteq T
    <2> HIDE DEF T
    <2> QED BY <1>1, <1>2, NatInduct
<1> QED BY <1>3

\* Lists of lists make a list.
LEMMA FlattenType ==
    ASSUME NEW X, NEW seqs \in Seq(Seq(X))
    PROVE  FlattenSeq(seqs) \in Seq(X)
<1> DEFINE n == Len(seqs)
           g == CHOOSE g : IsFlat(seqs, n, g)
           T == {k \in Nat : k \in 1..n => g[k] \in Seq(X)}
<1>0. n \in Nat
    OBVIOUS
<1>1. IsFlat(seqs, n, g)
    <2> HIDE DEF n
    <2> QED BY <1>0, FlatExists, Zenon
<1>2. \A i \in 1..n : g[i] = IF i = 1 THEN seqs[i] ELSE g[i - 1] \o seqs[i]
    <2> HIDE DEF g
    <2> QED BY <1>1 DEF IsFlat
<1>3. CASE n = 0
    <2>1. seqs = <<>>
        BY <1>3
    <2>2. FlattenSeq(seqs) = <<>>
        <3>1. FlattenSeq(<<>>) = <<>>
            BY DEF FlattenSeq
        <3> QED BY <2>1, <3>1
    <2> QED BY <2>2
<1>4. CASE n # 0
    <2>1. FlattenSeq(seqs) = g[n]
        BY <1>4 DEF FlattenSeq, IsFlat
    <2> HIDE DEF g
    <2>2. 0 \in T
        OBVIOUS
    <2>3. ASSUME NEW k \in Nat, k \in T PROVE k + 1 \in T
        <3>1. CASE k + 1 \in 1..n
            <4>1. seqs[k + 1] \in Seq(X)
                BY <3>1
            <4>2. CASE k = 0
                BY <1>2, <3>1, <4>1, <4>2
            <4>3. CASE k # 0
                <5>1. k \in 1..n /\ (k + 1) - 1 = k /\ k + 1 # 1
                    BY <3>1, <4>3
                <5>2. g[k] \in Seq(X)
                    BY <2>3, <5>1
                <5>3. g[k + 1] = g[k] \o seqs[k + 1]
                    BY <1>2, <3>1, <5>1
                <5>4. g[k] \o seqs[k + 1] \in Seq(X)
                    BY <4>1, <5>2
                <5>5. g[k + 1] \in Seq(X)
                    BY <5>3, <5>4
                <5>6. k + 1 \in Nat
                    OBVIOUS
                <5> QED BY <5>5, <5>6
            <4> QED BY <4>2, <4>3
        <3>2. CASE k + 1 \notin 1..n
            BY <3>2
        <3> QED BY <3>1, <3>2
    <2>4. Nat \subseteq T
        <3> HIDE DEF T
        <3> QED BY <2>2, <2>3, NatInduct
    <2>5. n \in 1..n
        BY <1>0, <1>4
    <2> QED BY <1>0, <2>1, <2>4, <2>5
<1> HIDE DEF n, g, T
<1> QED BY <1>3, <1>4, Zenon

-----------------------------------------------------------------------------
(* The tree.                                                               *)

\* The nodes on the way along a path.
LEMMA PrefixStep ==
    ASSUME NEW C, NEW path \in Path(C), NEW n \in 0..Len(path)
    PROVE  /\ SubSeq(path, 1, n) \in Path(C) /\ Len(SubSeq(path, 1, n)) = n
           /\ n < Len(path) =>
                /\ path[n + 1] \in Seq(C)
                /\ SubSeq(path, 1, n + 1) = Append(SubSeq(path, 1, n), path[n + 1])
<1>1. path \in Seq(Seq(C)) /\ Len(path) \in Nat /\ DOMAIN path = 1..Len(path) /\ n \in Int
    BY DEF Path
<1>2. \A k \in 1..n : path[k] \in Seq(C)
    BY <1>1
<1>3. SubSeq(path, 1, n) \in Seq(Seq(C)) /\ Len(SubSeq(path, 1, n)) = n
    <2>1. SubSeq(path, 1, n) \in Seq(Seq(C)) /\ Len(SubSeq(path, 1, n)) = IF 1 <= n THEN n - 1 + 1 ELSE 0
        BY <1>1, <1>2, SubSeqProperties
    <2> QED BY <1>1, <2>1
<1>4. ASSUME n < Len(path)
      PROVE  path[n + 1] \in Seq(C) /\ SubSeq(path, 1, n + 1) = Append(SubSeq(path, 1, n), path[n + 1])
    <2>1. n + 1 \in 1..Len(path) /\ 1 \in 1..Len(path) /\ n + 1 \in 1..Len(path) /\ (n + 1) - 1 = n
        BY <1>1, <1>4
    <2>2. path[n + 1] \in Seq(C)
        BY <1>1, <2>1
    <2>3. SubSeq(path, 1, n + 1) = SubSeq(path, 1, n) \o <<path[n + 1]>>
        BY <1>1, <2>1, SubSeqRecursiveSecond
    <2>4. Append(SubSeq(path, 1, n), path[n + 1]) = SubSeq(path, 1, n) \o <<path[n + 1]>>
        BY <1>3, <2>2, AppendIsConcat
    <2> QED BY <2>2, <2>3, <2>4
<1> QED BY <1>3, <1>4 DEF Path

\* There are finitely many of them, and the path is one.
LEMMA PrefixesType ==
    ASSUME NEW C, NEW path \in Path(C)
    PROVE  /\ IsFiniteSet(prefixes(path)) /\ prefixes(path) \subseteq Path(C)
           /\ <<>> \in prefixes(path) /\ path \in prefixes(path)
           /\ \A p \in prefixes(path) : Len(p) \in 0..Len(path) /\ p = SubSeq(path, 1, Len(p))
<1>1. Len(path) \in Nat /\ path \in Seq(Seq(C))
    BY DEF Path
<1>2. \A n \in 0..Len(path) : SubSeq(path, 1, n) \in Path(C) /\ Len(SubSeq(path, 1, n)) = n
    BY PrefixStep
<1>3. IsFiniteSet(prefixes(path))
    <2> DEFINE f == [n \in 0..Len(path) |-> SubSeq(path, 1, n)]
    <2>1. IsFiniteSet(0..Len(path))
        BY <1>1, FS_Interval
    <2>2. f \in Surjection(0..Len(path), prefixes(path))
        BY DEF Surjection, prefixes
    <2> QED BY <2>1, <2>2, FS_Surjection
<1>4. 0 \in 0..Len(path) /\ Len(path) \in 0..Len(path)
    BY <1>1
<1>5. SubSeq(path, 1, 0) = <<>> /\ SubSeq(path, 1, Len(path)) = path
    BY <1>1, SubSeqEmpty, SubSeqFull
<1> QED BY <1>2, <1>3, <1>4, <1>5 DEF prefixes

\* The branches of a path.
LEMMA GrowOk ==
    ASSUME NEW C, NEW S, NEW t, TreeOk(t, C, S), NEW path \in Path(C)
    PROVE  /\ TreeOk(grow(t, path), C, S) /\ Grown(t, grow(t, path))
           /\ path \in DOMAIN grow(t, path)
<1> DEFINE e == grow(t, path)
           old(p) == IF p \in DOMAIN t THEN t[p] ELSE EmptyNode
           nxt(p) == SubSeq(path, 1, Len(p) + 1)
           branches(p) == p \in prefixes(path) /\ p # path /\ nxt(p) \notin DOMAIN t
<1>1. DOMAIN e = DOMAIN t \cup prefixes(path)
    BY DEF grow
<1>2. \A p \in DOMAIN e : e[p] = IF branches(p) THEN [old(p) EXCEPT !.kids = Append(@, Last(nxt(p)))] ELSE old(p)
    BY DEF grow
<1>3. \A p \in DOMAIN e : old(p) \in Node(C, S)
    BY DEF TreeOk, EmptyNode, Node, NoBody
<1>4. ASSUME NEW p \in DOMAIN e, branches(p)
      PROVE  Last(nxt(p)) \in Seq(C) /\ Append(p, Last(nxt(p))) = nxt(p) /\ nxt(p) \in prefixes(path)
    <2>1. Len(p) \in 0..Len(path) /\ p = SubSeq(path, 1, Len(p))
        BY <1>4, PrefixesType
    <2>2. Len(path) \in Nat /\ path \in Seq(Seq(C))
        BY DEF Path
    <2>3. Len(p) < Len(path)
        <3>1. CASE Len(p) = Len(path)
            BY <1>4, <2>1, <2>2, <3>1, SubSeqFull
        <3> QED BY <2>1, <2>2, <3>1
    <2>4. path[Len(p) + 1] \in Seq(C) /\ nxt(p) = Append(p, path[Len(p) + 1])
        BY <2>1, <2>3, PrefixStep
    <2>5. Len(p) + 1 \in 0..Len(path)
        BY <2>1, <2>2, <2>3
    <2>6. p \in Seq(Seq(C))
        BY <2>1, PrefixStep DEF Path
    <2>7. Last(nxt(p)) = path[Len(p) + 1]
        <3>1. Len(nxt(p)) = Len(p) + 1 /\ nxt(p)[Len(p) + 1] = path[Len(p) + 1]
            BY <2>4, <2>6, AppendProperties
        <3> QED BY <3>1 DEF Last
    <2> QED BY <2>4, <2>5, <2>7 DEF prefixes
<1> HIDE DEF e
<1>5. ASSUME NEW p \in DOMAIN e
      PROVE  /\ e[p].subs = old(p).subs /\ e[p].retained = old(p).retained /\ e[p] \in Node(C, S)
             /\ \A k \in DOMAIN e[p].kids : Append(p, e[p].kids[k]) \in DOMAIN e
    <2> DEFINE o == old(p)
    <2>0. p \notin DOMAIN t => o = EmptyNode
        OBVIOUS
    <2>1. o \in Node(C, S) /\ \A k \in DOMAIN o.kids : Append(p, o.kids[k]) \in DOMAIN t
        BY <1>3 DEF TreeOk, EmptyNode
    <2> HIDE DEF o
    <2>2. CASE branches(p)
        <3> DEFINE l == Last(nxt(p))
        <3>1. e[p] = [o EXCEPT !.kids = Append(@, l)]
            BY <1>2, <2>2 DEF o
        <3>2. l \in Seq(C) /\ Append(p, l) \in DOMAIN e
            BY <1>1, <1>4, <2>2
        <3> HIDE DEF l
        <3> DEFINE ks == Append(o.kids, l)
        <3>3. o.kids \in Seq(Seq(C)) /\ Len(o.kids) \in Nat
            BY <2>1 DEF Node
        <3>4. ks \in Seq(Seq(C)) /\ Len(ks) = Len(o.kids) + 1 /\ ks[Len(o.kids) + 1] = l
              /\ \A k \in 1..Len(o.kids) : ks[k] = o.kids[k]
            BY <3>2, <3>3, AppendProperties
        <3> HIDE DEF ks
        <3>5. e[p] = [o EXCEPT !.kids = ks]
            BY <3>1 DEF ks
        <3>6. e[p].kids = ks /\ e[p].subs = o.subs /\ e[p].retained = o.retained /\ e[p] \in Node(C, S)
            BY <2>1, <3>4, <3>5 DEF Node
        <3>7. ASSUME NEW k \in DOMAIN ks PROVE Append(p, ks[k]) \in DOMAIN e
            <4>1. k \in 1..(Len(o.kids) + 1)
                BY <3>4
            <4>2. CASE k = Len(o.kids) + 1
                BY <3>2, <3>4, <4>2
            <4>3. CASE k \in 1..Len(o.kids)
                <5>0. DOMAIN o.kids = 1..Len(o.kids)
                    BY <3>3
                <5>1. ks[k] = o.kids[k] /\ k \in DOMAIN o.kids
                    BY <3>4, <4>3, <5>0
                <5> QED BY <1>1, <2>1, <5>1
            <4>4. k = Len(o.kids) + 1 \/ k \in 1..Len(o.kids)
                BY <3>3, <4>1
            <4> QED BY <4>2, <4>3, <4>4
        <3> QED BY <3>6, <3>7 DEF o
    <2>3. CASE ~branches(p)
        <3>1. e[p] = o
            BY <1>2, <2>3 DEF o
        <3> QED BY <1>1, <2>1, <3>1 DEF o
    <2> QED BY <2>2, <2>3
<1>6. Grown(t, e)
    BY <1>1, <1>5 DEF Grown, EmptyNode
<1>7. path \in DOMAIN e /\ <<>> \in DOMAIN e /\ DOMAIN e \subseteq Path(C) /\ IsFiniteSet(DOMAIN e)
    <2>1. IsFiniteSet(DOMAIN t) /\ DOMAIN t \subseteq Path(C)
        BY DEF TreeOk
    <2>2. IsFiniteSet(DOMAIN t \cup prefixes(path))
        BY <2>1, PrefixesType, FS_Union
    <2> QED BY <1>1, <2>1, <2>2, PrefixesType
<1>8. Bounded(DOMAIN e)
    <2>1. PICK n \in Nat : \A p \in DOMAIN t : Len(p) <= n
        BY DEF TreeOk, Bounded
    <2>2. Len(path) \in Nat /\ \A p \in prefixes(path) : Len(p) \in Nat /\ Len(p) <= Len(path)
        BY PrefixesType DEF Path
    <2>3. \A p \in DOMAIN t : Len(p) \in Nat
        BY DEF TreeOk, Path
    <2>4. \A p \in DOMAIN e : Len(p) <= n + Len(path)
        BY <1>1, <2>1, <2>2, <2>3
    <2>5. n + Len(path) \in Nat
        BY <2>2
    <2> QED BY <2>4, <2>5 DEF Bounded
<1> QED BY <1>5, <1>6, <1>7, <1>8 DEF TreeOk, e

\* What is in tree e was in t.
FromTree(t, e) ==
    \A p \in DOMAIN e :
       \/ p \in DOMAIN t /\ e[p].subs = t[p].subs /\ e[p].retained = t[p].retained
       \/ e[p].subs = <<>> /\ e[p].retained = NoBody

\* The subscriptions in list e are of contexts that are in t, or of context i.
SomeOf(t, e, i) ==
    \A k \in DOMAIN e : e[k].context = i \/ \E l \in DOMAIN t : t[l].context = e[k].context

\* The subscriptions of tree e are those of t, and some of context i.
LeavesOf(t, e, i) ==
    \A p \in DOMAIN e : \A k \in DOMAIN e[p].subs :
       \/ e[p].subs[k].context = i
       \/ p \in DOMAIN t /\ \E l \in DOMAIN t[p].subs : t[p].subs[l].context = e[p].subs[k].context

\* What is retained in e was retained in t.
RetainedOf(t, e) ==
    \A p \in DOMAIN e : e[p].retained # NoBody => p \in DOMAIN t /\ e[p].retained = t[p].retained

\* The branch of a first token made by sub_add (subs.c) keeps the tree well formed and every node
\* as it was.
LEMMA RootChildOk ==
    ASSUME NEW C, NEW S, NEW t, TreeOk(t, C, S), NEW token \in Seq(C)
    PROVE  TreeOk(root_child(t, token), C, S) /\ FromTree(t, root_child(t, token))
<1>1. CASE <<token>> \in DOMAIN t
    <2>1. root_child(t, token) = t
        BY <1>1 DEF root_child
    <2> QED BY <2>1 DEF FromTree
<1>2. CASE <<token>> \notin DOMAIN t
    <2> DEFINE e == root_child(t, token)
               r == t[<<>>]
    <2>1. e = [p \in {<<>>, <<token>>} |-> IF p = <<>> THEN [r EXCEPT !.kids = <<token>>] ELSE EmptyNode]
        BY <1>2 DEF root_child
    <2>2. <<token>> # <<>> /\ <<token>> \in Seq(Seq(C)) /\ <<>> \in Seq(Seq(C)) /\ <<>> \in DOMAIN t
        BY DEF TreeOk
    <2>3. r \in Node(C, S)
        BY <2>2 DEF TreeOk
    <2> HIDE DEF e, r
    <2>4. DOMAIN e = {<<>>, <<token>>} /\ e[<<>>] = [r EXCEPT !.kids = <<token>>] /\ e[<<token>>] = EmptyNode
        BY <2>1, <2>2
    <2>5. /\ e[<<>>] \in Node(C, S) /\ e[<<>>].subs = r.subs /\ e[<<>>].retained = r.retained
          /\ e[<<>>].kids = <<token>>
        BY <2>2, <2>3, <2>4 DEF Node
    <2>6. e[<<token>>] \in Node(C, S) /\ e[<<token>>].subs = <<>> /\ e[<<token>>].retained = NoBody /\ e[<<token>>].kids = <<>>
        BY <2>4 DEF Node, EmptyNode, NoBody
    <2>7. FromTree(t, e)
        BY <2>2, <2>4, <2>5, <2>6 DEF FromTree, r
    <2>8. \A p \in DOMAIN e : \A k \in DOMAIN e[p].kids : Append(p, e[p].kids[k]) \in DOMAIN e
        <3>1. DOMAIN <<token>> = {1} /\ <<token>>[1] = token /\ Append(<<>>, token) = <<token>>
            OBVIOUS
        <3>2. DOMAIN e[<<token>>].kids = {}
            BY <2>6
        <3> QED BY <2>4, <2>5, <3>1, <3>2
    <2>9. IsFiniteSet(DOMAIN e) /\ DOMAIN e \subseteq Path(C)
        <3>1. IsFiniteSet({<<>>}) /\ IsFiniteSet({<<token>>})
            BY FS_Singleton
        <3>2. DOMAIN e = {<<>>} \cup {<<token>>}
            BY <2>4
        <3> QED BY <2>2, <3>1, <3>2, FS_Union DEF Path
    <2>10. \A p \in DOMAIN e : e[p] \in Node(C, S)
        BY <2>4, <2>5, <2>6
    <2>11. Bounded(DOMAIN e)
        <3>1. Len(<<>>) <= 1 /\ Len(<<token>>) <= 1 /\ 1 \in Nat
            OBVIOUS
        <3> QED BY <2>4, <3>1 DEF Bounded
    <2> QED BY <2>4, <2>7, <2>8, <2>9, <2>10, <2>11 DEF TreeOk, e
<1> QED BY <1>1, <1>2

\* The subscriptions of one node.
LEMMA LeafType ==
    ASSUME NEW S, NEW subs \in Seq(Leaf(S)), NEW i \in S, NEW qos \in 0..2
    PROVE  /\ subscribe_leaf(subs, i, qos) \in Seq(Leaf(S))
           /\ SomeOf(subs, subscribe_leaf(subs, i, qos), i)
<1>0. Len(subs) \in Nat /\ DOMAIN subs = 1..Len(subs) /\ \A k \in 1..Len(subs) : subs[k] \in Leaf(S)
    OBVIOUS
<1>1. CASE \E k \in DOMAIN subs : subs[k].context = i
    <2> DEFINE f(k) == IF subs[k].context = i THEN [subs[k] EXCEPT !.qos = qos] ELSE subs[k]
               e == [k \in DOMAIN subs |-> f(k)]
    <2>1. subscribe_leaf(subs, i, qos) = e
        BY <1>1 DEF subscribe_leaf
    <2>2. ASSUME NEW k \in 1..Len(subs) PROVE f(k) \in Leaf(S) /\ f(k).context = subs[k].context
        BY <1>0, <2>2 DEF Leaf
    <2>3. e \in Seq(Leaf(S)) /\ DOMAIN e = DOMAIN subs /\ \A k \in DOMAIN e : e[k].context = subs[k].context
        <3> HIDE DEF f
        <3>1. e = [k \in 1..Len(subs) |-> f(k)]
            BY <1>0
        <3> QED BY <1>0, <2>2, <3>1
    <2> HIDE DEF e
    <2> QED BY <2>1, <2>3 DEF SomeOf
<1>2. CASE ~\E k \in DOMAIN subs : subs[k].context = i
    <2> DEFINE x == [context |-> i, qos |-> qos]
               e == Append(subs, x)
    <2>1. subscribe_leaf(subs, i, qos) = e
        BY <1>2 DEF subscribe_leaf
    <2>2. x \in Leaf(S) /\ x.context = i
        BY DEF Leaf
    <2> HIDE DEF x
    <2>3. e \in Seq(Leaf(S)) /\ Len(e) = Len(subs) + 1 /\ e[Len(subs) + 1] = x
          /\ \A k \in 1..Len(subs) : e[k] = subs[k]
        BY <2>2, AppendProperties
    <2> HIDE DEF e
    <2>4. ASSUME NEW k \in DOMAIN e
          PROVE  e[k].context = i \/ \E l \in DOMAIN subs : subs[l].context = e[k].context
        <3>1. k = Len(subs) + 1 \/ k \in 1..Len(subs)
            BY <1>0, <2>3
        <3> QED BY <1>0, <2>2, <2>3, <3>1
    <2> QED BY <2>1, <2>3, <2>4 DEF SomeOf
<1> QED BY <1>1, <1>2

\* A subscription.
LEMMA SubAddOk ==
    ASSUME NEW C, NEW S, NEW t, TreeOk(t, C, S), NEW i \in S, NEW qos \in 0..2,
           NEW tokens \in Path(C), Len(tokens) >= 1
    PROVE  /\ TreeOk(mqtt3_sub_add(t, i, qos, tokens), C, S)
           /\ LeavesOf(t, mqtt3_sub_add(t, i, qos, tokens), i)
           /\ RetainedOf(t, mqtt3_sub_add(t, i, qos, tokens))
           /\ <<Head(tokens)>> \in DOMAIN t => RetainedOf(mqtt3_sub_add(t, i, qos, tokens), t)
<1> DEFINE r == root_child(t, Head(tokens))
           path == node_path(tokens)
           g == grow(r, path)
           e == mqtt3_sub_add(t, i, qos, tokens)
<1>1. path \in Path(C) /\ Head(tokens) \in Seq(C)
    BY NodePath
<1>2. TreeOk(r, C, S) /\ FromTree(t, r)
    BY <1>1, RootChildOk
<1>3. <<Head(tokens)>> \in DOMAIN t => r = t
    BY DEF root_child
<1>4. e = [g EXCEPT ![path].subs = subscribe_leaf(@, i, qos)]
    BY DEF mqtt3_sub_add
<1> HIDE DEF r, path
<1>5. TreeOk(g, C, S) /\ Grown(r, g) /\ path \in DOMAIN g
    BY <1>1, <1>2, GrowOk
<1> HIDE DEF g, e
<1>6. FromTree(t, g)
    BY <1>2, <1>5 DEF FromTree, Grown
<1> DEFINE old == g[path].subs
           news == subscribe_leaf(old, i, qos)
<1>7. g[path] \in Node(C, S)
    BY <1>5 DEF TreeOk
<1>8. news \in Seq(Leaf(S)) /\ SomeOf(old, news, i)
    <2>1. old \in Seq(Leaf(S))
        BY <1>7 DEF Node
    <2> HIDE DEF old
    <2> QED BY <2>1, LeafType
<1>9. e = [g EXCEPT ![path] = [g[path] EXCEPT !.subs = news]]
    BY <1>4
<1> HIDE DEF news
<1>10. DOMAIN e = DOMAIN g /\ (\A p \in DOMAIN g : p # path => e[p] = g[p]) /\ e[path] = [g[path] EXCEPT !.subs = news]
    BY <1>5, <1>9
<1>11. /\ e[path] \in Node(C, S) /\ e[path].subs = news
       /\ e[path].kids = g[path].kids /\ e[path].retained = g[path].retained
    BY <1>7, <1>8, <1>10 DEF Node
<1>12. \A p \in DOMAIN g : e[p].kids = g[p].kids /\ e[p].retained = g[p].retained
    BY <1>10, <1>11
<1>13. TreeOk(e, C, S)
    <2>1. \A p \in DOMAIN e : e[p] \in Node(C, S)
        BY <1>5, <1>10, <1>11 DEF TreeOk
    <2> QED BY <1>5, <1>10, <1>12, <2>1 DEF TreeOk
<1>14. LeavesOf(t, e, i)
    <2> SUFFICES ASSUME NEW p \in DOMAIN e, NEW k \in DOMAIN e[p].subs, e[p].subs[k].context # i
                 PROVE  p \in DOMAIN t /\ \E l \in DOMAIN t[p].subs : t[p].subs[l].context = e[p].subs[k].context
        BY DEF LeavesOf
    <2>1. PICK l \in DOMAIN g[p].subs : g[p].subs[l].context = e[p].subs[k].context
        <3>1. CASE p = path
            BY <1>8, <1>11, <3>1 DEF SomeOf
        <3>2. CASE p # path
            BY <1>10, <3>2
        <3> QED BY <3>1, <3>2
    <2>2. g[p].subs # <<>>
        <3>1. DOMAIN <<>> = {}
            OBVIOUS
        <3> QED BY <2>1, <3>1
    <2>3. p \in DOMAIN t /\ g[p].subs = t[p].subs
        BY <1>6, <1>10, <2>2 DEF FromTree
    <2> QED BY <2>1, <2>3
<1>15. RetainedOf(t, e)
    BY <1>6, <1>10, <1>12 DEF FromTree, RetainedOf
<1>16. ASSUME <<Head(tokens)>> \in DOMAIN t PROVE RetainedOf(e, t)
    BY <1>3, <1>5, <1>10, <1>12, <1>16 DEF Grown, RetainedOf
<1> QED BY <1>13, <1>14, <1>15, <1>16 DEF e

\* No subscription of a list, of a tree, is that of context i.
NoneOf(subs, i) == \A k \in DOMAIN subs : subs[k].context # i

NoLeafOf(t, i) == \A p \in DOMAIN t : NoneOf(t[p].subs, i)

\* The nodes of e are nodes of t.
NodesOf(t, e) ==
    \A p \in DOMAIN e : p \in DOMAIN t /\ e[p].subs = t[p].subs /\ e[p].retained = t[p].retained

\* What stays of a list of subscriptions.
LEMMA WithoutType ==
    ASSUME NEW S, NEW subs \in Seq(Leaf(S)), NEW i
    PROVE  /\ without(subs, i) \in Seq(Leaf(S)) /\ SomeOf(subs, without(subs, i), i)
           /\ NoneOf(without(subs, i), i)
<1> DEFINE stays == {leaf \in Range(subs) : leaf.context # i}
           e == only(subs, stays)
<1>1. without(subs, i) = e
    BY DEF without
<1> HIDE DEF stays
<1>2. e \in Seq(Leaf(S)) /\ \A n \in DOMAIN e : e[n] \in stays /\ \E k \in DOMAIN subs : subs[k] = e[n]
    BY OnlyKeeps
<1> HIDE DEF e
<1>3. \A n \in DOMAIN e : e[n].context # i
    BY <1>2 DEF stays
<1> QED BY <1>1, <1>2, <1>3 DEF SomeOf, NoneOf

\* Removing nodes.
LEMMA CutOk ==
    ASSUME NEW C, NEW S, NEW t, TreeOk(t, C, S), NEW gone, <<>> \notin gone
    PROVE  /\ TreeOk(cut(t, gone), C, S) /\ DOMAIN cut(t, gone) = DOMAIN t \ gone
           /\ NodesOf(t, cut(t, gone))
<1> DEFINE e == cut(t, gone)
           stays(p) == {x \in Range(t[p].kids) : Append(p, x) \notin gone}
           ks(p) == only(t[p].kids, stays(p))
<1>1. e = [p \in DOMAIN t \ gone |-> [t[p] EXCEPT !.kids = ks(p)]]
    BY DEF cut
<1> HIDE DEF e
<1>2. DOMAIN e = DOMAIN t \ gone
    BY <1>1
<1>3. ASSUME NEW p \in DOMAIN t, p \notin gone
      PROVE  /\ e[p] \in Node(C, S) /\ e[p].subs = t[p].subs /\ e[p].retained = t[p].retained
             /\ \A k \in DOMAIN e[p].kids : Append(p, e[p].kids[k]) \in DOMAIN t \ gone
    <2> DEFINE n == t[p]
               l == n.kids
               keep == stays(p)
               new == only(l, keep)
    <2>1. n \in Node(C, S) /\ l \in Seq(Seq(C)) /\ \A k \in DOMAIN l : Append(p, l[k]) \in DOMAIN t
        BY DEF TreeOk, Node
    <2>2. e[p] = [n EXCEPT !.kids = new]
        BY <1>1, <1>3
    <2>3. \A x \in keep : Append(p, x) \notin gone
        OBVIOUS
    <2> HIDE DEF l, n, keep
    <2>4. new \in Seq(Seq(C)) /\ \A k \in DOMAIN new : new[k] \in keep /\ \E j \in DOMAIN l : l[j] = new[k]
        BY <2>1, OnlyKeeps
    <2> HIDE DEF new
    <2>5. e[p] \in Node(C, S) /\ e[p].subs = n.subs /\ e[p].retained = n.retained /\ e[p].kids = new
        BY <2>1, <2>2, <2>4 DEF Node
    <2>6. \A k \in DOMAIN new : Append(p, new[k]) \in DOMAIN t \ gone
        BY <2>1, <2>3, <2>4
    <2> QED BY <2>5, <2>6 DEF n
<1>4. IsFiniteSet(DOMAIN e) /\ DOMAIN e \subseteq Path(C) /\ <<>> \in DOMAIN e
    BY <1>2, FS_Subset DEF TreeOk
<1>5. NodesOf(t, e)
    BY <1>2, <1>3 DEF NodesOf
<1>6. TreeOk(e, C, S)
    <2>1. Bounded(DOMAIN e)
        BY <1>2 DEF TreeOk, Bounded
    <2> QED BY <1>2, <1>3, <1>4, <2>1 DEF TreeOk
<1> QED BY <1>2, <1>5, <1>6 DEF e

\* The tree without the subscriptions of a context to some nodes.
Unsubscribed(t, i, at) ==
    [p \in DOMAIN t |-> IF p \in at THEN [t[p] EXCEPT !.subs = without(@, i)] ELSE t[p]]

\* The subscriptions of one context go from some nodes, then the nodes that are
\* bare.
LEMMA PruneOk ==
    ASSUME NEW C, NEW S, NEW t, TreeOk(t, C, S), NEW i, NEW at, NEW gone, <<>> \notin gone,
           \A p \in gone : p \in DOMAIN Unsubscribed(t, i, at) => bare(Unsubscribed(t, i, at)[p])
    PROVE  /\ TreeOk(cut(Unsubscribed(t, i, at), gone), C, S)
           /\ LeavesOf(t, cut(Unsubscribed(t, i, at), gone), i)
           /\ RetainedOf(t, cut(Unsubscribed(t, i, at), gone))
           /\ RetainedOf(cut(Unsubscribed(t, i, at), gone), t)
           /\ DOMAIN cut(Unsubscribed(t, i, at), gone) \subseteq DOMAIN t
           /\ \A p \in DOMAIN cut(Unsubscribed(t, i, at), gone) \cap at :
                NoneOf(cut(Unsubscribed(t, i, at), gone)[p].subs, i)
<1> DEFINE left == Unsubscribed(t, i, at)
<1>0. left = [p \in DOMAIN t |-> IF p \in at THEN [t[p] EXCEPT !.subs = without(@, i)] ELSE t[p]]
    BY DEF Unsubscribed
<1> HIDE DEF left
<1>1. ASSUME NEW p \in DOMAIN t
      PROVE  /\ left[p] \in Node(C, S) /\ left[p].kids = t[p].kids /\ left[p].retained = t[p].retained
             /\ SomeOf(t[p].subs, left[p].subs, i)
             /\ p \in at => NoneOf(left[p].subs, i)
    <2> DEFINE n == t[p]
               new == without(n.subs, i)
    <2>1. n \in Node(C, S) /\ n.subs \in Seq(Leaf(S))
        BY DEF TreeOk, Node
    <2>2. left[p] = IF p \in at THEN [n EXCEPT !.subs = new] ELSE n
        BY <1>0
    <2> HIDE DEF n
    <2>3. new \in Seq(Leaf(S)) /\ SomeOf(n.subs, new, i) /\ NoneOf(new, i)
        BY <2>1, WithoutType
    <2> HIDE DEF new
    <2>4. CASE p \in at
        <3>1. /\ left[p] \in Node(C, S) /\ left[p].kids = n.kids /\ left[p].retained = n.retained
              /\ left[p].subs = new
            BY <2>1, <2>2, <2>3, <2>4 DEF Node
        <3> QED BY <2>3, <3>1 DEF n
    <2>5. CASE p \notin at
        BY <2>1, <2>2, <2>5 DEF n, SomeOf
    <2> QED BY <2>4, <2>5
<1>2. DOMAIN left = DOMAIN t
    BY <1>0
<1>3. TreeOk(left, C, S)
    BY <1>1, <1>2 DEF TreeOk
<1> DEFINE e == cut(left, gone)
<1>3a. \A p \in gone : p \in DOMAIN left => bare(left[p])
    BY DEF left
<1>4. TreeOk(e, C, S) /\ DOMAIN e = DOMAIN t \ gone /\ NodesOf(left, e)
    <2>1. TreeOk(cut(left, gone), C, S) /\ DOMAIN cut(left, gone) = DOMAIN left \ gone /\ NodesOf(left, cut(left, gone))
        BY <1>3, CutOk
    <2> QED BY <1>2, <2>1
<1> HIDE DEF e
<1>5. LeavesOf(t, e, i)
    <2> SUFFICES ASSUME NEW p \in DOMAIN e, NEW k \in DOMAIN e[p].subs, e[p].subs[k].context # i
                 PROVE  p \in DOMAIN t /\ \E l \in DOMAIN t[p].subs : t[p].subs[l].context = e[p].subs[k].context
        BY DEF LeavesOf
    <2>1. p \in DOMAIN t /\ e[p].subs = left[p].subs /\ SomeOf(t[p].subs, left[p].subs, i)
        BY <1>1, <1>4 DEF NodesOf
    <2> QED BY <2>1 DEF SomeOf
<1>6. RetainedOf(t, e)
    BY <1>1, <1>4 DEF RetainedOf, NodesOf
<1>7. RetainedOf(e, t)
    BY <1>1, <1>2, <1>3a, <1>4 DEF RetainedOf, NodesOf, bare
<1>8. ASSUME NEW p \in DOMAIN e \cap at PROVE NoneOf(e[p].subs, i)
    BY <1>1, <1>4 DEF NodesOf
<1> QED BY <1>4, <1>5, <1>6, <1>7, <1>8 DEF e, left

\* A path is a prefix of itself.
LEMMA PrefixOfItself ==
    ASSUME NEW p
    PROVE  IsPrefix(p, p) <=> Len(p) <= Len(p)
BY DEF IsPrefix

\* An unsubscription takes at most leaves of its own context and no retained message out of the
\* tree.
LEMMA SubRemoveOk ==
    ASSUME NEW C, NEW S, NEW t, TreeOk(t, C, S), NEW i,
           NEW tokens \in Path(C), Len(tokens) >= 1
    PROVE  /\ TreeOk(mqtt3_sub_remove(t, i, tokens), C, S)
           /\ LeavesOf(t, mqtt3_sub_remove(t, i, tokens), i)
           /\ RetainedOf(t, mqtt3_sub_remove(t, i, tokens))
           /\ RetainedOf(mqtt3_sub_remove(t, i, tokens), t)
<1> DEFINE path == node_path(tokens)
<1>1. CASE path \notin DOMAIN t
    <2>1. mqtt3_sub_remove(t, i, tokens) = t
        BY <1>1 DEF mqtt3_sub_remove
    <2> QED BY <2>1 DEF LeavesOf, RetainedOf
<1>2. CASE path \in DOMAIN t
    <2> DEFINE left == [t EXCEPT ![path].subs = without(@, i)]
               gone == {p \in prefixes(path) :
                          /\ Len(p) >= 2
                          /\ \A q \in DOMAIN left :
                               IsPrefix(p, q) => IsPrefix(q, path) /\ bare(left[q])}
    <2>1. mqtt3_sub_remove(t, i, tokens) = cut(left, gone)
        BY <1>2 DEF mqtt3_sub_remove
    <2>2. <<>> \notin gone
        OBVIOUS
    <2>3. left = Unsubscribed(t, i, {path})
        BY DEF Unsubscribed
    <2>4. ASSUME NEW p \in gone, p \in DOMAIN left PROVE bare(left[p])
        <3>1. p \in Path(C)
            BY <2>4 DEF TreeOk
        <3>2. Len(p) \in Nat
            BY <3>1 DEF Path
        <3>3. IsPrefix(p, p)
            BY <3>2, PrefixOfItself
        <3> QED BY <2>4, <3>3
    <2> DEFINE e == cut(Unsubscribed(t, i, {path}), gone)
    <2>5. \A p \in gone : p \in DOMAIN Unsubscribed(t, i, {path}) => bare(Unsubscribed(t, i, {path})[p])
        BY <2>3, <2>4
    <2> HIDE DEF left, gone, path
    <2>6. TreeOk(e, C, S) /\ LeavesOf(t, e, i) /\ RetainedOf(t, e) /\ RetainedOf(e, t)
        BY <2>2, <2>5, PruneOk
    <2>7. mqtt3_sub_remove(t, i, tokens) = e
        BY <2>1, <2>3
    <2> HIDE DEF e
    <2> QED BY <2>6, <2>7
<1> QED BY <1>1, <1>2

\* Cleaning a session takes every leaf of its context, and nothing of another, out of the tree.
LEMMA CleanSessionOk ==
    ASSUME NEW C, NEW S, NEW t, TreeOk(t, C, S), NEW i
    PROVE  /\ TreeOk(mqtt3_subs_clean_session(t, i), C, S)
           /\ LeavesOf(t, mqtt3_subs_clean_session(t, i), i)
           /\ RetainedOf(t, mqtt3_subs_clean_session(t, i))
           /\ RetainedOf(mqtt3_subs_clean_session(t, i), t)
           /\ NoLeafOf(mqtt3_subs_clean_session(t, i), i)
<1> DEFINE left == [p \in DOMAIN t |-> [t[p] EXCEPT !.subs = without(@, i)]]
           gone == {p \in DOMAIN left :
                      Len(p) >= 2 /\ \A q \in DOMAIN left : IsPrefix(p, q) => bare(left[q])}
           e == cut(left, gone)
<1>1. mqtt3_subs_clean_session(t, i) = e
    BY DEF mqtt3_subs_clean_session
<1>2. <<>> \notin gone
    OBVIOUS
<1>3. left = Unsubscribed(t, i, DOMAIN t)
    BY DEF Unsubscribed
<1>4. ASSUME NEW p \in gone, p \in DOMAIN left PROVE bare(left[p])
    <2>1. p \in Path(C)
        BY <1>4 DEF TreeOk
    <2>2. Len(p) \in Nat
        BY <2>1 DEF Path
    <2>3. IsPrefix(p, p)
        BY <2>2, PrefixOfItself
    <2> QED BY <1>4, <2>3
<1> HIDE DEF left, gone
<1>5. /\ TreeOk(e, C, S) /\ LeavesOf(t, e, i) /\ RetainedOf(t, e) /\ RetainedOf(e, t)
      /\ DOMAIN e \subseteq DOMAIN t /\ \A p \in DOMAIN e \cap DOMAIN t : NoneOf(e[p].subs, i)
    BY <1>2, <1>3, <1>4, PruneOk
<1> HIDE DEF e
<1>6. ASSUME NEW p \in DOMAIN e PROVE NoneOf(e[p].subs, i)
    BY <1>5
<1> QED BY <1>1, <1>5, <1>6 DEF NoLeafOf

\* The tree of a new database.
LEMMA NewTreeOk ==
    ASSUME NEW C, NEW S, Sys \in Seq(C)
    PROVE  /\ TreeOk(NewTree, C, S)
           /\ \A p \in DOMAIN NewTree : NewTree[p].subs = <<>> /\ NewTree[p].retained = NoBody
<1> DEFINE e == NewTree
           r == [EmptyNode EXCEPT !.kids = <<Empty, Sys>>]
<1>0. e = [p \in {<<>>, <<Empty>>, <<Sys>>} |-> IF p = <<>> THEN r ELSE EmptyNode]
    BY DEF NewTree
<1>1. Empty \in Seq(C) /\ <<Empty>> # <<>> /\ <<Sys>> # <<>>
    <2>1. Empty \in Seq(C)
        BY DEF Empty
    <2>2. \A x : <<x>> # <<>>
        OBVIOUS
    <2> QED BY <2>1, <2>2
<1> HIDE DEF e
<1>2. r = [kids |-> <<Empty, Sys>>, subs |-> <<>>, retained |-> 0]
    <2> DEFINE ks == <<Empty, Sys>>
    <2>1. EmptyNode = [kids |-> <<>>, subs |-> <<>>, retained |-> 0]
        BY Zenon DEF EmptyNode, NoBody
    <2>2. r = [EmptyNode EXCEPT !.kids = ks]
        OBVIOUS
    <2> HIDE DEF ks, r
    <2>3. r = [kids |-> ks, subs |-> <<>>, retained |-> 0]
        BY <2>1, <2>2
    <2> QED BY <2>3 DEF ks
<1> HIDE DEF r
<1>3. DOMAIN e = {<<>>, <<Empty>>, <<Sys>>} /\ e[<<>>] = r /\ e[<<Empty>>] = EmptyNode /\ e[<<Sys>>] = EmptyNode
    BY <1>0, <1>1
<1>4. r \in Node(C, S) /\ EmptyNode \in Node(C, S)
    <2>1. <<Empty, Sys>> \in Seq(Seq(C))
        BY <1>1
    <2> QED BY <1>2, <2>1 DEF Node, EmptyNode, NoBody
<1>5. /\ EmptyNode.kids = <<>> /\ EmptyNode.subs = <<>> /\ EmptyNode.retained = NoBody
      /\ r.kids = <<Empty, Sys>> /\ r.subs = <<>> /\ r.retained = NoBody
    BY <1>2 DEF EmptyNode, NoBody
<1>6. \A p \in DOMAIN e : \A k \in DOMAIN e[p].kids : Append(p, e[p].kids[k]) \in DOMAIN e
    <2>1. DOMAIN <<Empty, Sys>> = {1, 2} /\ <<Empty, Sys>>[1] = Empty /\ <<Empty, Sys>>[2] = Sys
        OBVIOUS
    <2>2. Append(<<>>, Empty) = <<Empty>> /\ Append(<<>>, Sys) = <<Sys>>
        OBVIOUS
    <2>3. DOMAIN <<>> = {}
        OBVIOUS
    <2> QED BY <1>3, <1>5, <2>1, <2>2, <2>3
<1>7. IsFiniteSet(DOMAIN e)
    <2>1. IsFiniteSet({<<>>}) /\ IsFiniteSet({<<Empty>>}) /\ IsFiniteSet({<<Sys>>})
        BY FS_Singleton
    <2>2. IsFiniteSet({<<>>} \cup {<<Empty>>})
        BY <2>1, FS_Union
    <2>3. IsFiniteSet(({<<>>} \cup {<<Empty>>}) \cup {<<Sys>>})
        BY <2>1, <2>2, FS_Union
    <2>4. DOMAIN e = ({<<>>} \cup {<<Empty>>}) \cup {<<Sys>>}
        BY <1>3
    <2> QED BY <2>3, <2>4
<1>8. Bounded(DOMAIN e) /\ DOMAIN e \subseteq Path(C) /\ <<>> \in DOMAIN e
    <2>1. Len(<<>>) <= 1 /\ Len(<<Empty>>) <= 1 /\ Len(<<Sys>>) <= 1 /\ 1 \in Nat
        OBVIOUS
    <2>2. <<>> \in Path(C) /\ <<Empty>> \in Path(C) /\ <<Sys>> \in Path(C)
        BY <1>1 DEF Path
    <2> QED BY <1>3, <2>1, <2>2 DEF Bounded
<1>9. TreeOk(e, C, S)
    BY <1>3, <1>4, <1>6, <1>7, <1>8 DEF TreeOk
<1> QED BY <1>3, <1>5, <1>9 DEF e

-----------------------------------------------------------------------------
(* Searching.                                                              *)

\* The searches, step by step: g is what they have found below the children.
search_branch(tree, tokens, g, p, t) ==
    LET more == Len(p) <= Len(tokens)
        q == Append(p, t)
        here == [node |-> q, set_retain |-> Plus \notin Range(q)]
    IN IF more /\ t \in {tokens[Len(p)], Plus}
       THEN g[q] \o (IF Len(p) = Len(tokens) THEN <<here>> ELSE <<>>)
       ELSE IF t = Sharp /\ tree[q].kids = <<>>
       THEN <<[here EXCEPT !.set_retain = FALSE]>>
       ELSE <<>>

search_step(tree, tokens, g, p) ==
    FlattenSeq([k \in DOMAIN tree[p].kids |-> search_branch(tree, tokens, g, p, tree[p].kids[k])])

retain_branch(tree, tokens, g, p, k) ==
    LET n == IF Len(p) <= Len(tokens) THEN Len(p) ELSE Len(tokens)
        token == tokens[n]
        kids == tree[p].kids
        held(q) == IF tree[q].retained = NoBody THEN <<>> ELSE <<q>>
        q == Append(p, kids[k])
        last == k = Len(kids)
    IN IF token = Sharp /\ n = Len(tokens) THEN held(q) \o g[q].found
       ELSE IF kids[k] # Plus /\ token \in {kids[k], Plus}
       THEN IF n = Len(tokens) THEN held(q)
            ELSE g[q].found \o
                 (IF g[q].flag \/ (last /\ tokens[n + 1] = Sharp /\ n > 1)
                  THEN held(q) ELSE <<>>)
       ELSE <<>>

retain_search_step(tree, tokens, g, p) ==
    LET n == IF Len(p) <= Len(tokens) THEN Len(p) ELSE Len(tokens)
    IN [flag |-> tokens[n] = Sharp /\ n = Len(tokens) /\ tree[p].kids # <<>>,
        found |-> FlattenSeq([k \in DOMAIN tree[p].kids |-> retain_branch(tree, tokens, g, p, k)])]

IsSubWalk(tree, tokens, g) == g = [p \in DOMAIN tree |-> search_step(tree, tokens, g, p)]

IsRetainWalk(tree, tokens, g) == g = [p \in DOMAIN tree |-> retain_search_step(tree, tokens, g, p)]

\* The search for the subscriptions of a topic is the value at the first token of the function
\* that walks the tree.
LEMMA SubWalk ==
    ASSUME NEW tree, NEW tokens
    PROVE  _sub_search(tree, tokens) =
             IF <<Head(tokens)>> \in DOMAIN tree
             THEN (CHOOSE g : IsSubWalk(tree, tokens, g))[<<Head(tokens)>>] ELSE <<>>
BY DEF _sub_search, IsSubWalk, search_step, search_branch

\* The search for the retained messages of a filter is the value at the first token of the
\* function that walks the tree.
LEMMA RetainWalk ==
    ASSUME NEW tree, NEW tokens
    PROVE  _retain_search(tree, tokens) =
             IF <<Head(tokens)>> \in DOMAIN tree
             THEN (CHOOSE g : IsRetainWalk(tree, tokens, g))[<<Head(tokens)>>].found ELSE <<>>
BY DEF _retain_search, IsRetainWalk, retain_search_step, retain_branch

\* Either of them.
walk_step(kind, tree, tokens, g, p) ==
    IF kind = "sub" THEN search_step(tree, tokens, g, p) ELSE retain_search_step(tree, tokens, g, p)

\* A step only looks at what was found below the children.
LEMMA StepLocal ==
    ASSUME NEW kind, NEW tree, NEW tokens, NEW g, NEW h, NEW p,
           \A k \in DOMAIN tree[p].kids : g[Append(p, tree[p].kids[k])] = h[Append(p, tree[p].kids[k])]
    PROVE  walk_step(kind, tree, tokens, g, p) = walk_step(kind, tree, tokens, h, p)
<1>1. search_step(tree, tokens, g, p) = search_step(tree, tokens, h, p)
    <2>1. \A k \in DOMAIN tree[p].kids :
             search_branch(tree, tokens, g, p, tree[p].kids[k]) = search_branch(tree, tokens, h, p, tree[p].kids[k])
        BY Zenon DEF search_branch
    <2>2. [k \in DOMAIN tree[p].kids |-> search_branch(tree, tokens, g, p, tree[p].kids[k])] =
          [k \in DOMAIN tree[p].kids |-> search_branch(tree, tokens, h, p, tree[p].kids[k])]
        BY <2>1, Zenon
    <2> QED BY <2>2, Zenon DEF search_step
<1>2. retain_search_step(tree, tokens, g, p) = retain_search_step(tree, tokens, h, p)
    <2>1. \A k \in DOMAIN tree[p].kids :
             retain_branch(tree, tokens, g, p, k) = retain_branch(tree, tokens, h, p, k)
        BY Zenon DEF retain_branch
    <2>2. [k \in DOMAIN tree[p].kids |-> retain_branch(tree, tokens, g, p, k)] =
          [k \in DOMAIN tree[p].kids |-> retain_branch(tree, tokens, h, p, k)]
        BY <2>1, Zenon
    <2> QED BY <2>2, Zenon DEF retain_search_step
<1> QED BY <1>1, <1>2, Zenon DEF walk_step

IsTreeWalk(kind, tree, tokens, g) == g = [p \in DOMAIN tree |-> walk_step(kind, tree, tokens, g, p)]

\* g is right m levels up from the depth n.
RightTo(kind, tree, tokens, n, m, g) ==
    /\ g = [p \in DOMAIN tree |-> g[p]]
    /\ \A p \in DOMAIN tree : n - Len(p) < m => g[p] = walk_step(kind, tree, tokens, g, p)

\* The recursive functions exist, since no path is longer than n: what is right for
\* the deepest nodes gives what is right one level up.
LEMMA TreeWalkExists ==
    ASSUME NEW C, NEW S, NEW tree, TreeOk(tree, C, S), NEW kind, NEW tokens
    PROVE  \E g : IsTreeWalk(kind, tree, tokens, g)
<1>1. PICK n \in Nat : \A p \in DOMAIN tree : Len(p) <= n
    BY DEF TreeOk, Bounded
<1>2. \A p \in DOMAIN tree : Len(p) \in Nat /\ p \in Seq(Seq(C))
    BY DEF TreeOk, Path
<1> DEFINE T == {m \in Nat : \E g : RightTo(kind, tree, tokens, n, m, g)}
<1>3. 0 \in T
    <2> DEFINE g == [p \in DOMAIN tree |-> p]
    <2>1. g = [p \in DOMAIN tree |-> g[p]]
        OBVIOUS
    <2>2. \A p \in DOMAIN tree : ~(n - Len(p) < 0)
        BY <1>1, <1>2
    <2> HIDE DEF g
    <2>3. RightTo(kind, tree, tokens, n, 0, g)
        BY <2>1, <2>2 DEF RightTo
    <2> QED BY <2>3
<1>4. ASSUME NEW m \in Nat, m \in T PROVE m + 1 \in T
    <2>1. PICK g : RightTo(kind, tree, tokens, n, m, g)
        BY <1>4
    <2> DEFINE h == [p \in DOMAIN tree |-> walk_step(kind, tree, tokens, g, p)]
    <2>2. h = [p \in DOMAIN tree |-> h[p]]
        OBVIOUS
    <2>3. \A p \in DOMAIN tree : h[p] = walk_step(kind, tree, tokens, g, p)
        OBVIOUS
    <2> HIDE DEF h
    <2>4. ASSUME NEW p \in DOMAIN tree, n - Len(p) < m + 1
          PROVE  h[p] = walk_step(kind, tree, tokens, h, p)
        <3>1. ASSUME NEW k \in DOMAIN tree[p].kids
              PROVE  g[Append(p, tree[p].kids[k])] = h[Append(p, tree[p].kids[k])]
            <4> DEFINE q == Append(p, tree[p].kids[k])
            <4>1. q \in DOMAIN tree /\ tree[p].kids[k] \in Seq(C)
                BY DEF TreeOk, Node
            <4>2. Len(q) = Len(p) + 1
                BY <1>2, <4>1, AppendProperties
            <4> HIDE DEF q
            <4>3. n - Len(q) < m
                BY <1>2, <2>4, <4>2
            <4>4. g[q] = walk_step(kind, tree, tokens, g, q)
                BY <2>1, <4>1, <4>3 DEF RightTo
            <4>5. g[q] = h[q]
                BY <2>3, <4>1, <4>4
            <4> QED BY <4>5 DEF q
        <3>2. walk_step(kind, tree, tokens, g, p) = walk_step(kind, tree, tokens, h, p)
            BY <3>1, StepLocal
        <3> QED BY <2>3, <3>2
    <2>5. RightTo(kind, tree, tokens, n, m + 1, h)
        BY <2>2, <2>4 DEF RightTo
    <2> QED BY <2>5
<1>5. Nat \subseteq T
    <2> HIDE DEF T
    <2> QED BY <1>3, <1>4, NatInduct
<1>6. PICK g : RightTo(kind, tree, tokens, n, n + 1, g)
    <2>1. n + 1 \in Nat
        OBVIOUS
    <2> QED BY <1>5, <2>1
<1>7. \A p \in DOMAIN tree : g[p] = walk_step(kind, tree, tokens, g, p)
    <2>1. \A p \in DOMAIN tree : n - Len(p) < n + 1
        BY <1>2
    <2> QED BY <1>6, <2>1 DEF RightTo
<1>8. IsTreeWalk(kind, tree, tokens, g)
    BY <1>6, <1>7, Zenon DEF RightTo, IsTreeWalk
<1> QED BY <1>8

\* What the searches may find: nodes, the one of the topic itself where a message is
\* retained; nodes that have a retained message.
Hit(tree, tokens) ==
    {hit \in [node : DOMAIN tree, set_retain : BOOLEAN] : hit.set_retain => hit.node = node_path(tokens)}

Found(tree) == {q \in DOMAIN tree : tree[q].retained # NoBody}

\* Path p is that of the tokens so far, some of them replaced by "+".
Fits(p, tokens) ==
    /\ Len(p) >= 1 /\ p[1] = Head(tokens) /\ Len(p) <= Len(tokens) + 1
    /\ \A j \in 2..Len(p) : p[j] \in {tokens[j - 1], Plus}

\* One child on the way down adds hits that lie in the tree, if the walk below it did.
LEMMA SubBranchType ==
    ASSUME NEW C, NEW S, NEW tree, TreeOk(tree, C, S), NEW tokens \in Path(C), Len(tokens) >= 1,
           NEW g, NEW p \in DOMAIN tree, Fits(p, tokens), NEW k \in DOMAIN tree[p].kids,
           LET q == Append(p, tree[p].kids[k])
           IN Fits(q, tokens) => g[q] \in Seq(Hit(tree, tokens))
    PROVE  search_branch(tree, tokens, g, p, tree[p].kids[k]) \in Seq(Hit(tree, tokens))
<1> DEFINE t == tree[p].kids[k]
           q == Append(p, t)
           more == Len(p) <= Len(tokens)
           flag == Plus \notin Range(q)
           here == [node |-> q, set_retain |-> flag]
           H == Hit(tree, tokens)
<1>1. q \in DOMAIN tree /\ t \in Seq(C) /\ p \in Seq(Seq(C))
    BY DEF TreeOk, Node, Path
<1>2. Fits(q, tokens) => g[q] \in Seq(H)
    OBVIOUS
<1> HIDE DEF t, H
<1>3. /\ q \in Seq(Seq(C)) /\ Len(q) = Len(p) + 1 /\ q[Len(p) + 1] = t /\ Len(p) \in Nat
      /\ \A j \in 1..Len(p) : q[j] = p[j]
    BY <1>1, AppendProperties
<1>3a. tokens \in Seq(Seq(C)) /\ Len(tokens) \in Nat /\ DOMAIN tokens = 1..Len(tokens)
    BY DEF Path
<1> HIDE DEF q
<1> HIDE DEF flag
<1>4. search_branch(tree, tokens, g, p, t) =
        IF more /\ t \in {tokens[Len(p)], Plus}
        THEN g[q] \o (IF Len(p) = Len(tokens) THEN <<here>> ELSE <<>>)
        ELSE IF t = Sharp /\ tree[q].kids = <<>> THEN <<[here EXCEPT !.set_retain = FALSE]>> ELSE <<>>
    BY DEF search_branch, q, flag
<1>4a. flag \in BOOLEAN
    BY DEF flag
<1>5. ASSUME more, t \in {tokens[Len(p)], Plus}
      PROVE  Fits(q, tokens)
    <2>1. Len(q) >= 1 /\ Len(q) <= Len(tokens) + 1 /\ q[1] = Head(tokens)
        <3>1. 1 \in 1..Len(p) /\ p[1] = Head(tokens)
            BY <1>3 DEF Fits
        <3> QED BY <1>3, <1>3a, <1>5, <3>1
    <2>2. ASSUME NEW j \in 2..Len(q) PROVE q[j] \in {tokens[j - 1], Plus}
        <3>1. j = Len(p) + 1 \/ j \in 2..Len(p)
            BY <1>3
        <3>2. CASE j = Len(p) + 1
            <4>1. j - 1 = Len(p)
                BY <1>3, <3>2
            <4> QED BY <1>3, <1>5, <3>2, <4>1
        <3>3. CASE j \in 2..Len(p)
            <4>1. j \in 1..Len(p)
                BY <3>3
            <4>2. p[j] \in {tokens[j - 1], Plus}
                BY <3>3 DEF Fits
            <4> QED BY <1>3, <4>1, <4>2
        <3> QED BY <3>1, <3>2, <3>3
    <2> QED BY <2>1, <2>2 DEF Fits
<1>6. ASSUME more, t \in {tokens[Len(p)], Plus}, Len(p) = Len(tokens) PROVE here \in H
    <2>1. here \in [node : DOMAIN tree, set_retain : BOOLEAN]
        BY <1>1, <1>4a
    <2>2. ASSUME flag PROVE q = node_path(tokens)
        <3>1. \A j \in 1..Len(q) : q[j] # Plus
            <4>1. \A x \in Range(q) : x # Plus
                BY <2>2 DEF flag
            <4>2. DOMAIN q = 1..Len(q)
                BY <1>3
            <4>3. \A j \in 1..Len(q) : q[j] \in Range(q)
                BY <4>2 DEF Range
            <4> QED BY <4>1, <4>3
        <3>2. Fits(q, tokens)
            BY <1>5, <1>6
        <3>3. q[1] = node_path(tokens)[1] /\ Len(node_path(tokens)) = Len(q) /\ node_path(tokens) \in Seq(Seq(C))
            BY <1>3, <1>6, <3>2, NodePath DEF Fits, Path
        <3>4. ASSUME NEW j \in 2..Len(q) PROVE q[j] = node_path(tokens)[j]
            <4>1. q[j] = tokens[j - 1]
                BY <1>3, <3>1, <3>2 DEF Fits
            <4>2. j \in 2..(Len(tokens) + 1)
                BY <1>3, <1>6
            <4> QED BY <4>1, <4>2, NodePath
        <3>5. \A j \in 1..Len(q) : j = 1 \/ j \in 2..Len(q)
            BY <1>3
        <3>6. \A j \in 1..Len(q) : q[j] = node_path(tokens)[j]
            BY <3>3, <3>4, <3>5
        <3>7. node_path(tokens) \in Seq(Seq(C))
            BY <3>3
        <3> QED BY <1>3, <3>3, <3>6, <3>7, SeqEqual
    <2> QED BY <2>1, <2>2 DEF H, Hit
<1>7. [here EXCEPT !.set_retain = FALSE] \in H
    <2>1. here \in [node : DOMAIN tree, set_retain : BOOLEAN]
        BY <1>1, <1>4a
    <2> HIDE DEF here
    <2>2. [here EXCEPT !.set_retain = FALSE] \in [node : DOMAIN tree, set_retain : BOOLEAN]
        BY <2>1
    <2>3. [here EXCEPT !.set_retain = FALSE].set_retain = FALSE
        BY <2>1
    <2> QED BY <2>2, <2>3 DEF H, Hit
<1> HIDE DEF here, more
<1>8. CASE more /\ t \in {tokens[Len(p)], Plus}
    <2>1. g[q] \in Seq(H)
        BY <1>2, <1>5, <1>8
    <2>2. CASE Len(p) = Len(tokens)
        <3>1. <<here>> \in Seq(H)
            BY <1>6, <1>8, <2>2
        <3> QED BY <1>4, <1>8, <2>1, <2>2, <3>1, ConcatProperties DEF t, H
    <2>3. CASE Len(p) # Len(tokens)
        <3>1. <<>> \in Seq(H)
            OBVIOUS
        <3> QED BY <1>4, <1>8, <2>1, <2>3, <3>1, ConcatProperties DEF t, H
    <2> QED BY <2>2, <2>3
<1>9. CASE ~(more /\ t \in {tokens[Len(p)], Plus})
    <2>1. <<>> \in Seq(H) /\ <<[here EXCEPT !.set_retain = FALSE]>> \in Seq(H)
        BY <1>7
    <2> QED BY <1>4, <1>9, <2>1 DEF t, H
<1> QED BY <1>8, <1>9

\* One child on the way down adds retained nodes of the tree, if the walk below it did.
LEMMA RetainBranchType ==
    ASSUME NEW C, NEW S, NEW tree, TreeOk(tree, C, S), NEW tokens,
           NEW g, NEW p \in DOMAIN tree, NEW k \in DOMAIN tree[p].kids,
           g[Append(p, tree[p].kids[k])].found \in Seq(Found(tree))
    PROVE  retain_branch(tree, tokens, g, p, k) \in Seq(Found(tree))
<1> DEFINE q == Append(p, tree[p].kids[k])
           held == IF tree[q].retained = NoBody THEN <<>> ELSE <<q>>
           F == Found(tree)
           n == IF Len(p) <= Len(tokens) THEN Len(p) ELSE Len(tokens)
           w == g[q]
           one == tokens[n] = Sharp /\ n = Len(tokens)
           two == tree[p].kids[k] # Plus /\ tokens[n] \in {tree[p].kids[k], Plus}
           three == w.flag \/ (k = Len(tree[p].kids) /\ tokens[n + 1] = Sharp /\ n > 1)
<1>1. q \in DOMAIN tree
    BY DEF TreeOk
<1>2. held \in Seq(F)
    <2> HIDE DEF q, n, w, one, two, three
    <2>1. CASE tree[q].retained = NoBody
        BY <2>1
    <2>2. CASE tree[q].retained # NoBody
        <3>1. q \in F
            BY <1>1, <2>2 DEF Found
        <3> HIDE DEF F
        <3> QED BY <2>2, <3>1
    <2> QED BY <2>1, <2>2
<1>3. w.found \in Seq(F) /\ <<>> \in Seq(F)
    OBVIOUS
<1>4. retain_branch(tree, tokens, g, p, k) =
        IF one THEN held \o w.found
        ELSE IF two THEN IF n = Len(tokens) THEN held ELSE w.found \o (IF three THEN held ELSE <<>>)
        ELSE <<>>
    BY DEF retain_branch
<1> HIDE DEF q, held, F, n, w, one, two, three
<1>5. held \o w.found \in Seq(F) /\ w.found \o held \in Seq(F) /\ w.found \o <<>> \in Seq(F)
    BY <1>2, <1>3, ConcatProperties
<1> QED BY <1>2, <1>3, <1>4, <1>5 DEF F

\* What a walk has found at node p is what it may find.
Leads(kind, tree, tokens, p, v) ==
    IF kind = "sub" THEN Fits(p, tokens) => v \in Seq(Hit(tree, tokens))
    ELSE v.found \in Seq(Found(tree))

\* One step of either walk finds nodes of the tree, if the walks below it did.
LEMMA StepType ==
    ASSUME NEW C, NEW S, NEW tree, TreeOk(tree, C, S), NEW kind, NEW tokens \in Path(C), Len(tokens) >= 1,
           NEW g, NEW p \in DOMAIN tree,
           \A k \in DOMAIN tree[p].kids :
             Leads(kind, tree, tokens, Append(p, tree[p].kids[k]), g[Append(p, tree[p].kids[k])])
    PROVE  Leads(kind, tree, tokens, p, walk_step(kind, tree, tokens, g, p))
<1> DEFINE kids == tree[p].kids
           sub(k) == search_branch(tree, tokens, g, p, kids[k])
           ret(k) == retain_branch(tree, tokens, g, p, k)
<1>1. kids \in Seq(Seq(C)) /\ Len(kids) \in Nat /\ DOMAIN kids = 1..Len(kids)
    BY DEF TreeOk, Node
<1>2. CASE kind = "sub"
    <2>1. SUFFICES ASSUME Fits(p, tokens) PROVE search_step(tree, tokens, g, p) \in Seq(Hit(tree, tokens))
        BY <1>2 DEF Leads, walk_step
    <2>2. \A k \in DOMAIN kids : sub(k) \in Seq(Hit(tree, tokens))
        BY <1>2, <2>1, SubBranchType DEF Leads
    <2> HIDE DEF sub
    <2>3. [k \in 1..Len(kids) |-> sub(k)] \in Seq(Seq(Hit(tree, tokens)))
        BY <1>1, <2>2
    <2>4. FlattenSeq([k \in DOMAIN kids |-> sub(k)]) \in Seq(Hit(tree, tokens))
        BY <1>1, <2>3, FlattenType
    <2> QED BY <2>4 DEF search_step, sub
<1>3. CASE kind # "sub"
    <2>1. \A k \in DOMAIN kids : ret(k) \in Seq(Found(tree))
        BY <1>3, RetainBranchType DEF Leads
    <2> HIDE DEF ret
    <2>2. [k \in 1..Len(kids) |-> ret(k)] \in Seq(Seq(Found(tree)))
        BY <1>1, <2>1
    <2>3. FlattenSeq([k \in DOMAIN kids |-> ret(k)]) \in Seq(Found(tree))
        BY <1>1, <2>2, FlattenType
    <2>4. retain_search_step(tree, tokens, g, p).found = FlattenSeq([k \in DOMAIN kids |-> ret(k)])
        BY DEF retain_search_step, ret
    <2> QED BY <1>3, <2>3, <2>4 DEF Leads, walk_step
<1> QED BY <1>2, <1>3

\* Either walk of the tree finds nodes of the tree only.
LEMMA TreeWalkType ==
    ASSUME NEW C, NEW S, NEW tree, TreeOk(tree, C, S), NEW kind, NEW tokens \in Path(C), Len(tokens) >= 1,
           NEW g, IsTreeWalk(kind, tree, tokens, g), NEW top \in DOMAIN tree
    PROVE  Leads(kind, tree, tokens, top, g[top])
<1>1. PICK n \in Nat : \A p \in DOMAIN tree : Len(p) <= n
    BY DEF TreeOk, Bounded
<1>2. \A p \in DOMAIN tree : Len(p) \in Nat /\ p \in Seq(Seq(C))
    BY DEF TreeOk, Path
<1>3. \A p \in DOMAIN tree : g[p] = walk_step(kind, tree, tokens, g, p)
    BY DEF IsTreeWalk
<1> DEFINE T == {m \in Nat : \A p \in DOMAIN tree : n - Len(p) < m => Leads(kind, tree, tokens, p, g[p])}
<1>4. 0 \in T
    BY <1>1, <1>2
<1>5. ASSUME NEW m \in Nat, m \in T PROVE m + 1 \in T
    <2>1. ASSUME NEW p \in DOMAIN tree, n - Len(p) < m + 1 PROVE Leads(kind, tree, tokens, p, g[p])
        <3>1. ASSUME NEW k \in DOMAIN tree[p].kids
              PROVE  Leads(kind, tree, tokens, Append(p, tree[p].kids[k]), g[Append(p, tree[p].kids[k])])
            <4> DEFINE q == Append(p, tree[p].kids[k])
            <4>1. q \in DOMAIN tree /\ tree[p].kids[k] \in Seq(C)
                BY DEF TreeOk, Node
            <4>2. Len(q) = Len(p) + 1
                BY <1>2, <4>1, AppendProperties
            <4> HIDE DEF q
            <4>3. n - Len(q) < m
                BY <1>2, <2>1, <4>2
            <4>4. Leads(kind, tree, tokens, q, g[q])
                BY <1>5, <4>1, <4>3
            <4> QED BY <4>4 DEF q
        <3>2. Leads(kind, tree, tokens, p, walk_step(kind, tree, tokens, g, p))
            BY <3>1, StepType
        <3> QED BY <1>3, <3>2
    <2>2. m + 1 \in Nat
        OBVIOUS
    <2> QED BY <2>1, <2>2
<1>6. Nat \subseteq T
    <2> HIDE DEF T
    <2> QED BY <1>4, <1>5, NatInduct
<1>7. n + 1 \in T
    <2>1. n + 1 \in Nat
        OBVIOUS
    <2> HIDE DEF T
    <2> QED BY <1>6, <2>1
<1>8. n - Len(top) < n + 1
    BY <1>2
<1> QED BY <1>7, <1>8

\* The subscriptions a topic leads to are at nodes, and it is retained at its own.
LEMMA SubSearchType ==
    ASSUME NEW C, NEW S, NEW tree, TreeOk(tree, C, S), NEW tokens \in Path(C), Len(tokens) >= 1
    PROVE  _sub_search(tree, tokens) \in Seq(Hit(tree, tokens))
<1> DEFINE g == CHOOSE g : IsSubWalk(tree, tokens, g)
           top == <<Head(tokens)>>
<1>1. CASE top \in DOMAIN tree
    <2>1. \A h : IsTreeWalk("sub", tree, tokens, h) <=> IsSubWalk(tree, tokens, h)
        BY DEF IsTreeWalk, IsSubWalk, walk_step
    <2>2. \E h : IsSubWalk(tree, tokens, h)
        BY <2>1, TreeWalkExists
    <2>3. IsSubWalk(tree, tokens, g)
        BY <2>2, Zenon
    <2> HIDE DEF g
    <2>4. Leads("sub", tree, tokens, top, g[top])
        BY <1>1, <2>1, <2>3, TreeWalkType
    <2>5. Fits(top, tokens)
        <3>1. Len(tokens) \in Nat
            BY DEF Path
        <3>2. Len(top) = 1 /\ top[1] = Head(tokens)
            OBVIOUS
        <3> QED BY <3>1, <3>2 DEF Fits
    <2>6. g[top] \in Seq(Hit(tree, tokens))
        BY <2>4, <2>5 DEF Leads
    <2> QED BY <1>1, <2>6, SubWalk DEF g
<1>2. CASE top \notin DOMAIN tree
    <2>1. _sub_search(tree, tokens) = <<>>
        BY <1>2, SubWalk
    <2> QED BY <2>1
<1> QED BY <1>1, <1>2

\* The retained messages a filter leads to are there.
LEMMA RetainSearchType ==
    ASSUME NEW C, NEW S, NEW tree, TreeOk(tree, C, S), NEW tokens \in Path(C), Len(tokens) >= 1
    PROVE  _retain_search(tree, tokens) \in Seq(Found(tree))
<1> DEFINE g == CHOOSE g : IsRetainWalk(tree, tokens, g)
           top == <<Head(tokens)>>
<1>1. CASE top \in DOMAIN tree
    <2>1. \A h : IsTreeWalk("retain", tree, tokens, h) <=> IsRetainWalk(tree, tokens, h)
        BY DEF IsTreeWalk, IsRetainWalk, walk_step
    <2>2. \E h : IsRetainWalk(tree, tokens, h)
        BY <2>1, TreeWalkExists
    <2>3. IsRetainWalk(tree, tokens, g)
        BY <2>2, Zenon
    <2> HIDE DEF g
    <2>4. Leads("retain", tree, tokens, top, g[top])
        BY <1>1, <2>1, <2>3, TreeWalkType
    <2>5. g[top].found \in Seq(Found(tree))
        BY <2>4 DEF Leads
    <2> QED BY <1>1, <2>5, RetainWalk DEF g
<1>2. CASE top \notin DOMAIN tree
    <2>1. _retain_search(tree, tokens) = <<>>
        BY <1>2, RetainWalk
    <2> QED BY <2>1
<1> QED BY <1>1, <1>2
=============================================================================
