-------------------------- MODULE BrokerDb_proofs ---------------------------
(***************************************************************************)
(* What every operation of the broker on its database preserves: bodies    *)
(* count what points to them, contexts count their messages, and no        *)
(* message is further on its way than the limit allows.                    *)
(***************************************************************************)
EXTENDS BrokerSessions, BrokerTree_proofs

-----------------------------------------------------------------------------
(* Counting messages in a list.                                            *)

\* What is counted, by c: the messages with body c[2]; those that are numbered;
\* the numbered ones that came in.
Picks(m, c) ==
    CASE c[1] = "store" -> m.store = c[2]
      [] c[1] = "out" -> m.qos > 0
      [] OTHER -> m.qos > 0 /\ m.direction = "in"

sel(ms, c) == {k \in DOMAIN ms : Picks(ms[k], c)}

\* How many up to the k-th are counted, without those in G.
upto(ms, c, k, G) == {l \in (1..k) \ G : Picks(ms[l], c)}

Messages == Seq(MessageType)

\* The list of the messages of a context as a sequence: its length, its places, what stands at
\* them.
LEMMA MessagesType ==
    ASSUME NEW ms \in Messages
    PROVE  /\ Len(ms) \in Nat /\ DOMAIN ms = 1..Len(ms)
           /\ \A k \in 1..Len(ms) : ms[k] \in MessageType
    BY DEF Messages

\* The messages of a list that a criterion picks are finitely many.
LEMMA SelFinite ==
    ASSUME NEW ms \in Messages, NEW c
    PROVE  IsFiniteSet(sel(ms, c)) /\ Cardinality(sel(ms, c)) \in Nat
<1>1. IsFiniteSet(1..Len(ms)) /\ sel(ms, c) \subseteq 1..Len(ms)
    <2>1. Len(ms) \in Nat /\ DOMAIN ms = 1..Len(ms)
        BY MessagesType
    <2> QED BY <2>1, FS_Interval DEF sel
<1> QED BY <1>1, FS_Subset, FS_CardinalityType

\* Those among the first k places are at most k.
LEMMA UptoFinite ==
    ASSUME NEW ms, NEW c, NEW k \in Nat, NEW G
    PROVE  /\ IsFiniteSet(upto(ms, c, k, G)) /\ Cardinality(upto(ms, c, k, G)) \in Nat
           /\ Cardinality(upto(ms, c, k, G)) <= k
<1>1. IsFiniteSet(1..k) /\ Cardinality(1..k) = k
    BY FS_Interval
<1>2. upto(ms, c, k, G) \subseteq 1..k
    BY DEF upto
<1> QED BY <1>1, <1>2, FS_Subset, FS_CardinalityType

\* Another message at the end.
LEMMA AppendMessage ==
    ASSUME NEW ms \in Messages, NEW m \in MessageType
    PROVE  /\ Append(ms, m) \in Messages /\ Len(Append(ms, m)) = Len(ms) + 1
           /\ \A k \in 1..Len(ms) : Append(ms, m)[k] = ms[k]
           /\ Append(ms, m)[Len(ms) + 1] = m
    BY AppendProperties DEF Messages

\* A message put at the end of the list adds one to a count exactly when the criterion picks it.
LEMMA SelAppend ==
    ASSUME NEW ms \in Messages, NEW m \in MessageType, NEW c
    PROVE  Cardinality(sel(Append(ms, m), c)) =
             Cardinality(sel(ms, c)) + (IF Picks(m, c) THEN 1 ELSE 0)
<1> DEFINE e == Append(ms, m)
           n == Len(ms) + 1
<1>1. /\ e \in Messages /\ Len(e) = n /\ e[n] = m /\ \A k \in 1..Len(ms) : e[k] = ms[k]
    BY AppendMessage
<1>2. DOMAIN e = 1..n /\ DOMAIN ms = 1..Len(ms) /\ Len(ms) \in Nat
    BY <1>1, MessagesType
<1> HIDE DEF e
<1>3. \A k : k \in 1..n <=> k \in 1..Len(ms) \/ k = n
    BY <1>2
<1>4. n \notin 1..Len(ms)
    BY <1>2
<1>5. CASE Picks(m, c)
    <2>1. sel(e, c) = sel(ms, c) \cup {n}
        BY <1>1, <1>2, <1>3, <1>5 DEF sel
    <2>2. n \notin sel(ms, c)
        BY <1>2, <1>4 DEF sel
    <2> QED BY <1>5, <2>1, <2>2, SelFinite, FS_AddElement DEF e
<1>6. CASE ~Picks(m, c)
    <2>1. sel(e, c) = sel(ms, c)
        BY <1>1, <1>2, <1>3, <1>6 DEF sel
    <2> QED BY <1>6, <2>1, SelFinite DEF e
<1> QED BY <1>5, <1>6

\* Messages that are changed in their places.
LEMMA SelSame ==
    ASSUME NEW ms, NEW e, NEW c, DOMAIN e = DOMAIN ms,
           \A k \in DOMAIN ms : Picks(e[k], c) <=> Picks(ms[k], c)
    PROVE  sel(e, c) = sel(ms, c)
    BY DEF sel

\* Without the k-th message.
LEMMA RemoveMessage ==
    ASSUME NEW ms \in Messages, NEW k \in DOMAIN ms
    PROVE  /\ RemoveAt(ms, k) \in Messages /\ Len(RemoveAt(ms, k)) = Len(ms) - 1
           /\ \A l \in 1..(Len(ms) - 1) : RemoveAt(ms, k)[l] = IF l < k THEN ms[l] ELSE ms[l + 1]
<1>0. Len(ms) \in Nat /\ k \in 1..Len(ms) /\ \A l \in 1..Len(ms) : ms[l] \in MessageType
    BY MessagesType
<1> DEFINE a == SubSeq(ms, 1, k - 1)
           b == SubSeq(ms, k + 1, Len(ms))
<1>1. a \in Seq(MessageType) /\ Len(a) = k - 1 /\ \A l \in 1..(k - 1) : a[l] = ms[l]
    <2>1. 1 \in Int /\ k - 1 \in Int /\ \A l \in 1..(k - 1) : ms[l] \in MessageType
        BY <1>0
    <2>2. /\ a \in Seq(MessageType) /\ Len(a) = IF 1 <= k - 1 THEN (k - 1) - 1 + 1 ELSE 0
          /\ \A l \in 1..((k - 1) - 1 + 1) : a[l] = ms[1 + l - 1]
        BY <2>1, SubSeqProperties
    <2> HIDE DEF a
    <2>3. \A l \in 1..(k - 1) : l \in 1..((k - 1) - 1 + 1) /\ 1 + l - 1 = l
        BY <1>0
    <2> QED BY <1>0, <2>2, <2>3
<1>2. b \in Seq(MessageType) /\ Len(b) = Len(ms) - k /\ \A l \in 1..(Len(ms) - k) : b[l] = ms[k + l]
    <2>1. k + 1 \in Int /\ Len(ms) \in Int /\ \A l \in (k + 1)..Len(ms) : ms[l] \in MessageType
        BY <1>0
    <2>2. /\ b \in Seq(MessageType) /\ Len(b) = IF k + 1 <= Len(ms) THEN Len(ms) - (k + 1) + 1 ELSE 0
          /\ \A l \in 1..(Len(ms) - (k + 1) + 1) : b[l] = ms[(k + 1) + l - 1]
        BY <2>1, SubSeqProperties
    <2> HIDE DEF b
    <2>3. \A l \in 1..(Len(ms) - k) : l \in 1..(Len(ms) - (k + 1) + 1) /\ (k + 1) + l - 1 = k + l
        BY <1>0
    <2> QED BY <1>0, <2>2, <2>3
<1>3. RemoveAt(ms, k) = a \o b
    BY DEF RemoveAt
<1> HIDE DEF a, b
<1>4. /\ a \o b \in Seq(MessageType) /\ Len(a \o b) = Len(ms) - 1
      /\ \A l \in 1..(Len(ms) - 1) : (a \o b)[l] = IF l <= k - 1 THEN a[l] ELSE b[l - (k - 1)]
    <2>1. /\ a \o b \in Seq(MessageType) /\ Len(a \o b) = Len(a) + Len(b)
          /\ \A l \in 1..(Len(a) + Len(b)) : (a \o b)[l] = IF l <= Len(a) THEN a[l] ELSE b[l - Len(a)]
        BY <1>1, <1>2, ConcatProperties
    <2>2. Len(a) + Len(b) = Len(ms) - 1
        BY <1>0, <1>1, <1>2
    <2> QED BY <1>1, <2>1, <2>2
<1>5. ASSUME NEW l \in 1..(Len(ms) - 1)
      PROVE  (a \o b)[l] = IF l < k THEN ms[l] ELSE ms[l + 1]
    <2>1. CASE l < k
        <3>1. l \in 1..(k - 1) /\ l <= k - 1
            BY <1>0, <2>1
        <3> QED BY <1>1, <1>4, <2>1, <3>1
    <2>2. CASE ~(l < k)
        <3>1. l - (k - 1) \in 1..(Len(ms) - k) /\ k + (l - (k - 1)) = l + 1 /\ ~(l <= k - 1)
            BY <1>0, <2>2
        <3>2. b[l - (k - 1)] = ms[l + 1]
            BY <1>2, <3>1
        <3> QED BY <1>4, <2>2, <3>1, <3>2
    <2> QED BY <2>1, <2>2
<1> QED BY <1>3, <1>4, <1>5 DEF Messages

\* A message taken out of the list takes one off a count exactly when the criterion picked it.
LEMMA SelRemove ==
    ASSUME NEW ms \in Messages, NEW k \in DOMAIN ms, NEW c
    PROVE  Cardinality(sel(RemoveAt(ms, k), c)) =
             Cardinality(sel(ms, c)) - (IF Picks(ms[k], c) THEN 1 ELSE 0)
<1> DEFINE e == RemoveAt(ms, k)
           A == sel(ms, c) \ {k}
           B == sel(e, c)
           f == [l \in A |-> IF l < k THEN l ELSE l - 1]
<1>1. /\ e \in Messages /\ Len(e) = Len(ms) - 1
      /\ \A l \in 1..(Len(ms) - 1) : e[l] = IF l < k THEN ms[l] ELSE ms[l + 1]
    BY RemoveMessage
<1>2. DOMAIN e = 1..(Len(ms) - 1) /\ DOMAIN ms = 1..Len(ms) /\ Len(ms) \in Nat /\ k \in 1..Len(ms)
    <2>1. DOMAIN e = 1..Len(e) /\ DOMAIN ms = 1..Len(ms) /\ Len(ms) \in Nat
        BY <1>1, MessagesType
    <2> QED BY <1>1, <2>1
<1> HIDE DEF e
<1>3. ASSUME NEW l \in A PROVE f[l] \in B /\ l \in Nat /\ l # k
    <2>1. l \in 1..Len(ms) /\ l # k /\ Picks(ms[l], c)
        BY <1>2 DEF sel
    <2>2. CASE l < k
        <3>1. f[l] = l /\ l \in 1..(Len(ms) - 1)
            BY <1>2, <2>1, <2>2
        <3>2. e[l] = ms[l]
            BY <1>1, <2>2, <3>1
        <3> QED BY <1>2, <2>1, <3>1, <3>2 DEF sel
    <2>3. CASE ~(l < k)
        <3>1. f[l] = l - 1 /\ l - 1 \in 1..(Len(ms) - 1) /\ ~(l - 1 < k) /\ (l - 1) + 1 = l
            BY <1>2, <2>1, <2>3
        <3>2. e[l - 1] = ms[l]
            BY <1>1, <3>1
        <3> QED BY <1>2, <2>1, <3>1, <3>2 DEF sel
    <2> QED BY <2>2, <2>3
<1>4. \A l1, l2 \in A : f[l1] = f[l2] => l1 = l2
    <2>1. \A l \in A : f[l] = IF l < k THEN l ELSE l - 1
        OBVIOUS
    <2>2. \A l \in A : l \in Nat /\ l # k
        BY <1>3
    <2> HIDE DEF f, A
    <2> QED BY <1>2, <2>1, <2>2
<1>5. ASSUME NEW j \in B PROVE \E l \in A : f[l] = j
    <2>1. j \in 1..(Len(ms) - 1) /\ Picks(e[j], c)
        BY <1>2 DEF sel
    <2>2. CASE j < k
        <3>1. j \in A
            BY <1>1, <1>2, <2>1, <2>2 DEF sel
        <3> QED BY <2>2, <3>1
    <2>3. CASE ~(j < k)
        <3>1. e[j] = ms[j + 1]
            BY <1>1, <2>1, <2>3
        <3>2. j + 1 \in 1..Len(ms) /\ j + 1 # k /\ ~(j + 1 < k) /\ (j + 1) - 1 = j
            BY <1>2, <2>1, <2>3
        <3>3. j + 1 \in A
            BY <1>2, <2>1, <3>1, <3>2 DEF sel
        <3> QED BY <3>2, <3>3
    <2> QED BY <2>2, <2>3
<1>6. f \in Bijection(A, B)
    <2>1. f \in [A -> B]
        BY <1>3
    <2> HIDE DEF f, A, B
    <2> QED BY <1>4, <1>5, <2>1 DEF Bijection, Injection, Surjection, IsInjective
<1>7. IsFiniteSet(sel(ms, c)) /\ Cardinality(sel(ms, c)) \in Nat
    BY SelFinite
<1>8. IsFiniteSet(A) /\ Cardinality(A) = IF k \in sel(ms, c) THEN Cardinality(sel(ms, c)) - 1 ELSE Cardinality(sel(ms, c))
    BY <1>7, FS_RemoveElement
<1>9. Cardinality(A) = Cardinality(B)
    <2> HIDE DEF f, A, B
    <2> QED BY <1>6, <1>8, FS_Bijection DEF ExistsBijection
<1>10. k \in sel(ms, c) <=> Picks(ms[k], c)
    BY <1>2 DEF sel
<1> HIDE DEF A
<1> QED BY <1>7, <1>8, <1>9, <1>10 DEF e

\* A message is not further behind when others before it go.
LEMMA UptoRemove ==
    ASSUME NEW ms \in Messages, NEW k \in DOMAIN ms, NEW c, NEW G, \A g \in G : g <= k /\ g \in Nat,
           NEW l \in 1..(Len(ms) - 1)
    PROVE  Cardinality(upto(RemoveAt(ms, k), c, l, G \ {k}))
             <= Cardinality(upto(ms, c, IF l < k THEN l ELSE l + 1, G))
<1> DEFINE e == RemoveAt(ms, k)
           j == IF l < k THEN l ELSE l + 1
           A == upto(e, c, l, G \ {k})
           B == upto(ms, c, j, G)
           f == [n \in A |-> IF n < k THEN n ELSE n + 1]
<1>1. \A n \in 1..(Len(ms) - 1) : e[n] = IF n < k THEN ms[n] ELSE ms[n + 1]
    BY RemoveMessage
<1>2. Len(ms) \in Nat /\ k \in 1..Len(ms) /\ l \in 1..(Len(ms) - 1)
    BY MessagesType
<1> HIDE DEF e
<1>3. ASSUME NEW n \in A PROVE f[n] \in B /\ n \in Nat
    <2>1. n \in 1..l /\ n \notin G \ {k} /\ Picks(e[n], c)
        BY DEF upto
    <2>2. n \in 1..(Len(ms) - 1) /\ n \in Nat /\ n <= l
        BY <1>2, <2>1
    <2>3. CASE n < k
        <3>1. n \notin G /\ f[n] = n /\ n \in 1..j
            BY <1>2, <2>1, <2>2, <2>3
        <3>2. e[n] = ms[n]
            BY <1>1, <2>2, <2>3
        <3> QED BY <2>1, <2>2, <3>1, <3>2 DEF upto
    <2>4. CASE ~(n < k)
        <3>1. f[n] = n + 1 /\ ~(n + 1 <= k) /\ ~(l < k)
            BY <1>2, <2>2, <2>4
        <3>2. n + 1 \notin G /\ n + 1 \in 1..j
            BY <1>2, <2>2, <3>1
        <3>3. e[n] = ms[n + 1]
            BY <1>1, <2>2, <2>4
        <3> QED BY <2>1, <2>2, <3>1, <3>2, <3>3 DEF upto
    <2> QED BY <2>3, <2>4
<1>4. f \in Injection(A, B)
    <2>1. f \in [A -> B]
        BY <1>3
    <2>2. \A n \in A : n \in Nat /\ f[n] = IF n < k THEN n ELSE n + 1
        BY <1>3
    <2> HIDE DEF f, A, B
    <2>3. \A n1, n2 \in A : f[n1] = f[n2] => n1 = n2
        BY <1>2, <2>2
    <2> QED BY <2>1, <2>3 DEF Injection, IsInjective
<1>5. IsFiniteSet(B)
    <2>1. j \in Nat
        BY <1>2
    <2> HIDE DEF j
    <2> QED BY <2>1, UptoFinite
<1> HIDE DEF f, A, B
<1>6. Cardinality(A) <= Cardinality(B)
    BY <1>4, <1>5, FS_Injection
<1> QED BY <1>6 DEF A, B, e

-----------------------------------------------------------------------------
(* Counting what points to a body.                                         *)

msgsOf(cs, i) == IF cs[i] = NULL THEN <<>> ELSE cs[i].msgs

\* The messages with body s, as pairs of a context and an index.
pairs(cs, s) ==
    {m \in UNION {{i} \X DOMAIN msgsOf(cs, i) : i \in Slots} : msgsOf(cs, m[1])[m[2]].store = s}

pairsOf(cs, i, s) == {i} \X sel(msgsOf(cs, i), <<"store", s>>)

otherPairs(cs, i, s) == UNION {pairsOf(cs, j, s) : j \in Slots \ {i}}

\* The nodes where body s is retained.
rets(t, s) == {p \in DOMAIN t : t[p].retained = s}

\* The messages of one context that refer to a stored body are as many as the criterion of that
\* body picks.
LEMMA PairsOf ==
    ASSUME NEW cs, NEW i \in Slots, NEW s, msgsOf(cs, i) \in Messages
    PROVE  /\ IsFiniteSet(pairsOf(cs, i, s))
           /\ Cardinality(pairsOf(cs, i, s)) = Cardinality(sel(msgsOf(cs, i), <<"store", s>>))
<1> DEFINE A == sel(msgsOf(cs, i), <<"store", s>>)
           f == [k \in A |-> <<i, k>>]
<1>1. IsFiniteSet(A)
    BY SelFinite
<1>2. pairsOf(cs, i, s) = {i} \X A
    BY DEF pairsOf
<1> HIDE DEF A
<1>3. f \in Bijection(A, {i} \X A)
    BY DEF Bijection, Injection, Surjection, IsInjective
<1> HIDE DEF f
<1> QED BY <1>1, <1>2, <1>3, FS_Bijection DEF ExistsBijection, A

\* The messages that refer to a body are those of one context and those of the others.
LEMMA PairsSplit ==
    ASSUME NEW cs, NEW i \in Slots, NEW s
    PROVE  /\ pairs(cs, s) = otherPairs(cs, i, s) \cup pairsOf(cs, i, s)
           /\ otherPairs(cs, i, s) \cap pairsOf(cs, i, s) = {}
<1> DEFINE R == otherPairs(cs, i, s)
<1>1. \A m : m \in pairs(cs, s) <=>
               \E j \in Slots : \E k \in DOMAIN msgsOf(cs, j) : m = <<j, k>> /\ msgsOf(cs, j)[k].store = s
    BY DEF pairs
<1>2. \A m, j : m \in pairsOf(cs, j, s) <=>
               \E k \in DOMAIN msgsOf(cs, j) : m = <<j, k>> /\ msgsOf(cs, j)[k].store = s
    BY DEF pairsOf, sel, Picks
<1>3. \A m : m \in R <=> \E j \in Slots \ {i} : m \in pairsOf(cs, j, s)
    BY DEF otherPairs
<1> HIDE DEF R
<1>4. \A m : m \in pairs(cs, s) <=> m \in R \/ m \in pairsOf(cs, i, s)
    BY <1>1, <1>2, <1>3
<1>5. \A m : ~(m \in R /\ m \in pairsOf(cs, i, s))
    BY <1>2, <1>3
<1> QED BY <1>4, <1>5 DEF R

\* When only the list of one context changes, the references to a body change by what that list
\* gains and loses.
LEMMA PairCount ==
    ASSUME NEW cs, NEW e, NEW i \in Slots, NEW s,
           \A j \in Slots : msgsOf(cs, j) \in Messages /\ msgsOf(e, j) \in Messages,
           \A j \in Slots \ {i} : msgsOf(e, j) = msgsOf(cs, j)
    PROVE  /\ IsFiniteSet(pairs(cs, s)) /\ IsFiniteSet(pairs(e, s))
           /\ Cardinality(pairs(cs, s)) \in Nat
           /\ Cardinality(pairs(e, s)) =
                Cardinality(pairs(cs, s)) - Cardinality(sel(msgsOf(cs, i), <<"store", s>>))
                                          + Cardinality(sel(msgsOf(e, i), <<"store", s>>))
<1> DEFINE F == {pairsOf(cs, j, s) : j \in Slots \ {i}}
           R == otherPairs(cs, i, s)
           A == pairsOf(cs, i, s)
           B == pairsOf(e, i, s)
<1>1. IsFiniteSet(F)
    <2> DEFINE f == [j \in Slots \ {i} |-> pairsOf(cs, j, s)]
    <2>1. f \in Surjection(Slots \ {i}, F)
        BY DEF Surjection
    <2>2. IsFiniteSet(Slots \ {i})
        BY BrokerSessionsAssumption, FS_Subset
    <2> HIDE DEF f, F
    <2> QED BY <2>1, <2>2, FS_Surjection
<1>2. IsFiniteSet(R)
    <2>1. \A X \in F : IsFiniteSet(X)
        BY PairsOf
    <2>2. R = UNION F
        BY DEF otherPairs
    <2> HIDE DEF F, R
    <2> QED BY <1>1, <2>1, <2>2, FS_UNION
<1>3. R = otherPairs(e, i, s)
    <2>1. \A j \in Slots \ {i} : pairsOf(e, j, s) = pairsOf(cs, j, s)
        BY DEF pairsOf
    <2> QED BY <2>1 DEF otherPairs
<1>4. pairs(cs, s) = R \cup A /\ R \cap A = {}
    BY PairsSplit
<1>5. pairs(e, s) = R \cup B /\ R \cap B = {}
    BY <1>3, PairsSplit
<1>6. /\ IsFiniteSet(A) /\ Cardinality(A) = Cardinality(sel(msgsOf(cs, i), <<"store", s>>))
      /\ IsFiniteSet(B) /\ Cardinality(B) = Cardinality(sel(msgsOf(e, i), <<"store", s>>))
    BY PairsOf
<1> HIDE DEF R, A, B
<1>7. /\ IsFiniteSet(R \cup A) /\ Cardinality(R \cup A) = Cardinality(R) + Cardinality(A) - Cardinality(R \cap A)
      /\ IsFiniteSet(R \cup B) /\ Cardinality(R \cup B) = Cardinality(R) + Cardinality(B) - Cardinality(R \cap B)
    BY <1>2, <1>6, FS_Union
<1>8. Cardinality({}) = 0
    BY FS_EmptySet
<1>9. Cardinality(R) \in Nat /\ Cardinality(A) \in Nat /\ Cardinality(B) \in Nat /\ Cardinality(R \cup A) \in Nat
    BY <1>2, <1>6, <1>7, FS_CardinalityType
<1>10. IsFiniteSet(pairs(cs, s)) /\ IsFiniteSet(pairs(e, s)) /\ Cardinality(pairs(cs, s)) \in Nat
    BY <1>4, <1>5, <1>7, <1>9
<1>11. Cardinality(pairs(e, s)) = Cardinality(pairs(cs, s)) - Cardinality(A) + Cardinality(B)
    <2>1. /\ Cardinality(R \cap A) = 0 /\ Cardinality(R \cap B) = 0
          /\ Cardinality(pairs(cs, s)) = Cardinality(R \cup A) /\ Cardinality(pairs(e, s)) = Cardinality(R \cup B)
        BY <1>4, <1>5, <1>8, Zenon
    <2> QED BY <1>7, <1>9, <2>1
<1> QED BY <1>6, <1>10, <1>11

-----------------------------------------------------------------------------
(* What holds of a database.                                               *)

DbFields ==
    {"contexts", "cih", "subs", "store", "last_db_id", "acl_list", "acl_patterns", "unpwd",
     "psk_id", "client_count", "config", "out", "broken"}

BodyFields ==
    {"source_id", "source_mid", "topic", "qos", "payload", "retain", "ref_count", "dest_ids"}

Body(b) == DOMAIN b = BodyFields /\ b.topic \in Name /\ b.qos \in 0..2 /\ b.ref_count \in Int

\* The contexts that have subscriptions.
Members(t) ==
    {i \in Slots : \E p \in DOMAIN t : \E k \in DOMAIN t[p].subs : t[p].subs[k].context = i}

Typed(d) ==
    /\ DOMAIN d = DbFields
    /\ d.contexts \in [Slots -> ContextType \cup {NULL}]
    /\ d.last_db_id \in Nat
    /\ \A s \in DOMAIN d.store : s \in 1..d.last_db_id /\ Body(d.store[s])
    /\ TreeOk(d.subs, Chars, Slots)
    /\ \A i \in Members(d.subs) : d.contexts[i] # NULL
    /\ usable(d.config)

\* Pointers lead to bodies.
Pointed(d) ==
    /\ \A i \in Slots : \A k \in DOMAIN msgsOf(d.contexts, i) :
         msgsOf(d.contexts, i)[k].store \in DOMAIN d.store
    /\ \A p \in DOMAIN d.subs : d.subs[p].retained \in DOMAIN d.store \cup {NoBody}

held(d, s) == Cardinality(pairs(d.contexts, s)) + Cardinality(rets(d.subs, s))

\* Bodies count them; w is what has happened that the broker is not made for.
Counts(d, w) ==
    \A s \in DOMAIN d.store :
       /\ d.store[s].ref_count >= held(d, s)
       /\ "root" \notin w => d.store[s].ref_count = held(d, s)

\* Messages are retained at their topics.
AtTopics(d, w) ==
    \A p \in DOMAIN d.subs :
       d.subs[p].retained # NoBody /\ "reuse" \notin w =>
         node_path(_sub_topic_tokenise(d.store[d.subs[p].retained].topic)) = p

\* A message that is not queued is among the first max_inflight of its direction;
\* the messages in G are about to go and do not count.
OnTheWay(ms, G, w) ==
    max_inflight > 0 /\ "early" \notin w =>
      \A k \in DOMAIN ms \ G :
         ms[k].qos > 0 /\ ms[k].state # "queued" =>
           Cardinality(upto(ms, <<ms[k].direction>>, k, G)) <= max_inflight

Counted(c) == c.msg_count12 = Cardinality(sel(c.msgs, <<"out">>))

Flights(d, w, i, G) ==
    \A j \in Slots : d.contexts[j] # NULL =>
       /\ Counted(d.contexts[j])
       /\ OnTheWay(d.contexts[j].msgs, IF j = i THEN G ELSE {}, w)

\* The invariant of the database, while the messages of context i in G are about to
\* go, and otherwise.
SoundBut(d, w, i, G) ==
    Typed(d) /\ Pointed(d) /\ Counts(d, w) /\ AtTopics(d, w) /\ Flights(d, w, i, G)

Sound(d, w) == SoundBut(d, w, 0, {})

\* Context e is context c with other messages.
SamePerson(c, e) ==
    /\ c = NULL <=> e = NULL
    /\ c # NULL =>
         /\ e.id = c.id /\ e.sock = c.sock /\ e.state = c.state
         /\ e.clean_session = c.clean_session /\ e.will = c.will
         /\ e.acl_list = c.acl_list /\ e.listener = c.listener

\* What most operations leave alone.
Frame(d, e) ==
    /\ e.cih = d.cih /\ e.acl_list = d.acl_list /\ e.config = d.config
    /\ \A j \in Slots : SamePerson(d.contexts[j], e.contexts[j])
    /\ Members(e.subs) \subseteq Members(d.subs)
    /\ DOMAIN e.store = DOMAIN d.store
    /\ \A s \in DOMAIN d.store : /\ e.store[s].topic = d.store[s].topic
                                 /\ e.store[s].payload = d.store[s].payload

\* The same when bodies are stored, whose payloads are in P.
Stored(d, e, P) ==
    /\ e.cih = d.cih /\ e.acl_list = d.acl_list /\ e.config = d.config
    /\ \A j \in Slots : SamePerson(d.contexts[j], e.contexts[j])
    /\ Members(e.subs) \subseteq Members(d.subs)
    /\ DOMAIN d.store \subseteq DOMAIN e.store
    /\ \A s \in DOMAIN d.store : /\ e.store[s].topic = d.store[s].topic
                                 /\ e.store[s].payload = d.store[s].payload
    /\ \A s \in DOMAIN e.store \ DOMAIN d.store : e.store[s].payload \in P

\* The change the store may undergo composes.
LEMMA StoredTransitive ==
    ASSUME NEW d, NEW e, NEW f, NEW P, Stored(d, e, P), Stored(e, f, P)
    PROVE  Stored(d, f, P)
<1>1. \A j \in Slots : SamePerson(d.contexts[j], f.contexts[j])
    BY DEF Stored, SamePerson
<1>2. /\ f.cih = d.cih /\ f.acl_list = d.acl_list /\ f.config = d.config
      /\ Members(f.subs) \subseteq Members(d.subs) /\ DOMAIN d.store \subseteq DOMAIN f.store
    BY DEF Stored
<1>3. \A s \in DOMAIN d.store : f.store[s].topic = d.store[s].topic /\ f.store[s].payload = d.store[s].payload
    BY DEF Stored
<1>4. ASSUME NEW s \in DOMAIN f.store \ DOMAIN d.store
      PROVE  f.store[s].payload \in P
    <2>1. CASE s \in DOMAIN e.store
        <3>1. f.store[s].payload = e.store[s].payload /\ e.store[s].payload \in P
            BY <2>1 DEF Stored
        <3> QED BY <3>1
    <2>2. CASE s \notin DOMAIN e.store
        BY <2>2 DEF Stored
    <2> QED BY <2>1, <2>2
<1> QED BY <1>1, <1>2, <1>3, <1>4 DEF Stored

\* A step within the frame changes the store at most as Stored allows.
LEMMA FrameStored ==
    ASSUME NEW d, NEW e, Frame(d, e), NEW P
    PROVE  Stored(d, e, P)
BY DEF Frame, Stored

\* Two steps within the frame are one.
LEMMA FrameTransitive ==
    ASSUME NEW d, NEW e, NEW f, Frame(d, e), Frame(e, f)
    PROVE  Frame(d, f)
<1>1. \A j \in Slots : SamePerson(d.contexts[j], f.contexts[j])
    BY DEF Frame, SamePerson
<1>2. /\ f.cih = d.cih /\ f.acl_list = d.acl_list /\ f.config = d.config
      /\ Members(f.subs) \subseteq Members(d.subs) /\ DOMAIN f.store = DOMAIN d.store
    BY DEF Frame
<1>3. \A s \in DOMAIN d.store : f.store[s].topic = d.store[s].topic /\ f.store[s].payload = d.store[s].payload
    BY DEF Frame
<1> QED BY <1>1, <1>2, <1>3 DEF Frame

\* No change is within the frame.
LEMMA FrameReflexive ==
    ASSUME NEW d
    PROVE  Frame(d, d)
BY DEF Frame, SamePerson

\* While nothing is about to go, it does not matter where.
LEMMA SoundAt ==
    ASSUME NEW d, NEW w, NEW i
    PROVE  Sound(d, w) <=> SoundBut(d, w, i, {})
BY DEF Sound, SoundBut, Flights

\* The messages of a context.
LEMMA MsgsOfType ==
    ASSUME NEW d, Typed(d), NEW j \in Slots
    PROVE  /\ msgsOf(d.contexts, j) \in Messages
           /\ d.contexts[j] # NULL => /\ d.contexts[j] \in ContextType
                                     /\ d.contexts[j].msgs \in Messages
                                     /\ msgsOf(d.contexts, j) = d.contexts[j].msgs
<1>1. <<>> \in Messages
    BY DEF Messages
<1>2. d.contexts[j] # NULL => d.contexts[j] \in ContextType
    BY DEF Typed
<1>3. d.contexts[j] \in ContextType => d.contexts[j].msgs \in Messages
    BY DEF ContextType, Messages
<1> QED BY <1>1, <1>2, <1>3 DEF msgsOf

\* The nodes where a body is retained are finitely many.
LEMMA RetsFinite ==
    ASSUME NEW d, Typed(d), NEW s
    PROVE  IsFiniteSet(rets(d.subs, s)) /\ Cardinality(rets(d.subs, s)) \in Nat
<1>1. IsFiniteSet(DOMAIN d.subs)
    BY DEF Typed, TreeOk
<1>2. rets(d.subs, s) \subseteq DOMAIN d.subs
    BY DEF rets
<1> QED BY <1>1, <1>2, FS_Subset, FS_CardinalityType

-----------------------------------------------------------------------------
(* Changing one context.                                                   *)

\* Database e is d with context c in place of context i; only counters of bodies
\* are changed besides.
Changed(d, e, i, c) ==
    /\ DOMAIN e = DbFields
    /\ e.contexts = [d.contexts EXCEPT ![i] = c]
    /\ e.subs = d.subs /\ e.last_db_id = d.last_db_id
    /\ e.cih = d.cih /\ e.acl_list = d.acl_list /\ e.config = d.config
    /\ DOMAIN e.store = DOMAIN d.store
    /\ \A s \in DOMAIN d.store :
         /\ Body(e.store[s])
         /\ e.store[s].topic = d.store[s].topic /\ e.store[s].payload = d.store[s].payload

\* The counters are changed as the messages are.
Balanced(d, e, ms, ns) ==
    \A s \in DOMAIN d.store :
       e.store[s].ref_count - Cardinality(sel(ns, <<"store", s>>)) =
         d.store[s].ref_count - Cardinality(sel(ms, <<"store", s>>))

\* A context whose messages are in order, save those in H.
InOrder(d, c, H, w) ==
    /\ c \in ContextType /\ Counted(c) /\ OnTheWay(c.msgs, H, w)
    /\ \A k \in DOMAIN c.msgs : c.msgs[k].store \in DOMAIN d.store

\* The messages of the contexts when one of them is changed.
LEMMA ChangedMessages ==
    ASSUME NEW d, Typed(d), NEW i \in Slots, d.contexts[i] # NULL, NEW c \in ContextType,
           NEW e, Changed(d, e, i, c)
    PROVE  /\ msgsOf(e.contexts, i) = c.msgs /\ c.msgs \in Messages /\ c # NULL
           /\ e.contexts[i] = c
           /\ e.contexts \in [Slots -> ContextType \cup {NULL}]
           /\ \A j \in Slots \ {i} : msgsOf(e.contexts, j) = msgsOf(d.contexts, j)
           /\ \A j \in Slots \ {i} : e.contexts[j] = d.contexts[j]
           /\ \A j \in Slots : msgsOf(e.contexts, j) \in Messages
<1>1. c # NULL
    BY NullAssumption
<1>2. d.contexts \in [Slots -> ContextType \cup {NULL}] /\ e.contexts = [d.contexts EXCEPT ![i] = c]
    BY DEF Typed, Changed
<1>3. e.contexts[i] = c /\ \A j \in Slots \ {i} : e.contexts[j] = d.contexts[j]
    BY <1>2
<1>4. c.msgs \in Messages
    BY DEF ContextType, Messages
<1>5. msgsOf(e.contexts, i) = c.msgs /\ \A j \in Slots \ {i} : msgsOf(e.contexts, j) = msgsOf(d.contexts, j)
    BY <1>1, <1>3 DEF msgsOf
<1>6. \A j \in Slots : msgsOf(e.contexts, j) \in Messages
    BY <1>4, <1>5, MsgsOfType
<1>7. e.contexts \in [Slots -> ContextType \cup {NULL}]
    BY <1>2
<1> QED BY <1>1, <1>3, <1>4, <1>5, <1>6, <1>7

\* The soundness of the store moves with the list of one context, when the reference counts were
\* moved with it.
LEMMA OneContext ==
    ASSUME NEW d, NEW w, NEW i \in Slots, NEW G, SoundBut(d, w, i, G), d.contexts[i] # NULL,
           NEW e, NEW c, NEW H, Changed(d, e, i, c), InOrder(d, c, H, w),
           Balanced(d, e, d.contexts[i].msgs, c.msgs)
    PROVE  SoundBut(e, w, i, H)
<1>0. Typed(d) /\ Pointed(d) /\ Counts(d, w) /\ AtTopics(d, w) /\ Flights(d, w, i, G) /\ c \in ContextType
    BY DEF SoundBut, InOrder
<1>1. /\ msgsOf(e.contexts, i) = c.msgs /\ c.msgs \in Messages /\ c # NULL
      /\ e.contexts[i] = c
      /\ e.contexts \in [Slots -> ContextType \cup {NULL}]
      /\ \A j \in Slots \ {i} : msgsOf(e.contexts, j) = msgsOf(d.contexts, j)
      /\ \A j \in Slots \ {i} : e.contexts[j] = d.contexts[j]
      /\ \A j \in Slots : msgsOf(e.contexts, j) \in Messages
    BY <1>0, ChangedMessages
<1>2. Typed(e)
    <2>1. DOMAIN e = DbFields /\ e.subs = d.subs /\ e.last_db_id = d.last_db_id /\ e.config = d.config
        BY DEF Changed
    <2>2. \A s \in DOMAIN e.store : s \in 1..e.last_db_id /\ Body(e.store[s])
        BY <1>0, <2>1 DEF Changed, Typed
    <2>3. \A j \in Members(d.subs) : e.contexts[j] # NULL
        BY <1>0, <1>1 DEF Typed, Members
    <2> QED BY <1>0, <1>1, <2>1, <2>2, <2>3 DEF Typed
<1>3. Pointed(e)
    <2>1. \A k \in DOMAIN c.msgs : c.msgs[k].store \in DOMAIN e.store
        BY DEF InOrder, Changed
    <2>2. ASSUME NEW j \in Slots, NEW k \in DOMAIN msgsOf(e.contexts, j)
          PROVE  msgsOf(e.contexts, j)[k].store \in DOMAIN e.store
        BY <1>0, <1>1, <2>1 DEF Changed, Pointed
    <2> QED BY <1>0, <2>2 DEF Pointed, Changed
<1>4. ASSUME NEW s \in DOMAIN d.store
      PROVE  e.store[s].ref_count - held(e, s) = d.store[s].ref_count - held(d, s)
    <2>1. \A j \in Slots : msgsOf(d.contexts, j) \in Messages
        BY <1>0, MsgsOfType
    <2>2. msgsOf(d.contexts, i) = d.contexts[i].msgs
        BY <1>0, MsgsOfType
    <2> DEFINE a == Cardinality(sel(d.contexts[i].msgs, <<"store", s>>))
               b == Cardinality(sel(c.msgs, <<"store", s>>))
               p == Cardinality(pairs(d.contexts, s))
               q == Cardinality(pairs(e.contexts, s))
               r == Cardinality(rets(d.subs, s))
    <2>3. p \in Nat /\ q = p - a + b
        BY <1>1, <2>1, <2>2, PairCount
    <2>4. a \in Nat /\ b \in Nat
        BY <1>1, <2>1, <2>2, SelFinite
    <2>5. r \in Nat
        BY <1>0, RetsFinite
    <2>6. e.store[s].ref_count - b = d.store[s].ref_count - a
        BY DEF Balanced
    <2>7. e.store[s].ref_count \in Int /\ d.store[s].ref_count \in Int
        BY <1>0 DEF Changed, Typed, Body
    <2>8. held(d, s) = p + r /\ held(e, s) = q + r
        BY DEF held, Changed
    <2> HIDE DEF a, b, p, q, r
    <2> QED BY <2>3, <2>4, <2>5, <2>6, <2>7, <2>8
<1>5. Counts(e, w)
    <2>1. ASSUME NEW s \in DOMAIN e.store
          PROVE  e.store[s].ref_count >= held(e, s) /\ ("root" \notin w => e.store[s].ref_count = held(e, s))
        <3>1. s \in DOMAIN d.store
            BY DEF Changed
        <3>2. d.store[s].ref_count >= held(d, s) /\ ("root" \notin w => d.store[s].ref_count = held(d, s))
            BY <1>0, <3>1 DEF Counts
        <3>3. e.store[s].ref_count \in Int /\ d.store[s].ref_count \in Int
            BY <1>0, <3>1 DEF Changed, Typed, Body
        <3>4. held(d, s) \in Int
            <4>1. \A j \in Slots : msgsOf(d.contexts, j) \in Messages
                BY <1>0, MsgsOfType
            <4>2. Cardinality(pairs(d.contexts, s)) \in Nat
                BY <4>1, PairCount
            <4> QED BY <1>0, <4>2, RetsFinite DEF held
        <3>5. held(e, s) \in Int
            <4>1. Cardinality(pairs(e.contexts, s)) \in Nat
                BY <1>1, PairCount
            <4>2. Cardinality(rets(e.subs, s)) \in Nat
                BY <1>2, RetsFinite
            <4> QED BY <4>1, <4>2 DEF held
        <3>6. e.store[s].ref_count - held(e, s) = d.store[s].ref_count - held(d, s)
            BY <1>4, <3>1
        <3> QED BY <3>2, <3>3, <3>4, <3>5, <3>6
    <2> QED BY <2>1 DEF Counts
<1>6. AtTopics(e, w)
    <2>1. ASSUME NEW p \in DOMAIN e.subs, e.subs[p].retained # NoBody, "reuse" \notin w
          PROVE  node_path(_sub_topic_tokenise(e.store[e.subs[p].retained].topic)) = p
        <3>1. p \in DOMAIN d.subs /\ e.subs[p].retained = d.subs[p].retained
            BY DEF Changed
        <3>2. d.subs[p].retained \in DOMAIN d.store
            BY <1>0, <2>1, <3>1 DEF Pointed
        <3>3. e.store[d.subs[p].retained].topic = d.store[d.subs[p].retained].topic
            BY <3>2 DEF Changed
        <3> QED BY <1>0, <2>1, <3>1, <3>3 DEF AtTopics
    <2> QED BY <2>1 DEF AtTopics
<1>7. Flights(e, w, i, H)
    <2>1. Counted(c) /\ OnTheWay(c.msgs, H, w)
        BY DEF InOrder
    <2> QED BY <1>0, <1>1, <2>1 DEF Flights
<1> QED BY <1>2, <1>3, <1>5, <1>6, <1>7 DEF SoundBut

\* A change of the messages of one context, its person kept, is within the frame.
LEMMA ChangedFrame ==
    ASSUME NEW d, Typed(d), NEW i \in Slots, d.contexts[i] # NULL, NEW c \in ContextType,
           NEW e, Changed(d, e, i, c), SamePerson(d.contexts[i], c)
    PROVE  Frame(d, e)
<1>1. e.contexts[i] = c /\ \A j \in Slots \ {i} : e.contexts[j] = d.contexts[j]
    BY ChangedMessages
<1>2. \A j \in Slots : SamePerson(d.contexts[j], e.contexts[j])
    BY <1>1 DEF SamePerson
<1> QED BY <1>2 DEF Frame, Changed

\* The counters stay as they are, and the messages in their places.
Alike(ms, ns) ==
    /\ DOMAIN ns = DOMAIN ms
    /\ \A k \in DOMAIN ms :
         /\ ns[k].store = ms[k].store /\ ns[k].qos = ms[k].qos /\ ns[k].direction = ms[k].direction
         /\ ns[k].state # "queued" => ms[k].state # "queued"

AlikeContexts(cs, ds) ==
    \A j \in Slots :
       /\ cs[j] = NULL <=> ds[j] = NULL
       /\ cs[j] # NULL => /\ ds[j] \in ContextType
                         /\ ds[j].msg_count12 = cs[j].msg_count12
                         /\ Alike(cs[j].msgs, ds[j].msgs)

AlikeDb(d, e) ==
    /\ DOMAIN e = DbFields /\ DOMAIN e.contexts = Slots
    /\ e.contexts = [j \in Slots |-> e.contexts[j]]
    /\ e.store = d.store /\ e.subs = d.subs /\ e.last_db_id = d.last_db_id
    /\ usable(e.config)
    /\ AlikeContexts(d.contexts, e.contexts)

\* Two lists that differ only in what no criterion looks at are counted alike.
LEMMA AlikeSel ==
    ASSUME NEW ms, NEW ns, Alike(ms, ns), NEW c
    PROVE  sel(ns, c) = sel(ms, c)
<1>1. \A k \in DOMAIN ms : Picks(ns[k], c) <=> Picks(ms[k], c)
    BY DEF Alike, Picks
<1> QED BY <1>1, SelSame DEF Alike

\* ... and the same messages of them are in flight.
LEMMA AlikeOnTheWay ==
    ASSUME NEW ms \in Messages, NEW ns, Alike(ms, ns), NEW G, NEW w, OnTheWay(ms, G, w)
    PROVE  OnTheWay(ns, G, w)
<1>1. SUFFICES ASSUME max_inflight > 0, "early" \notin w, NEW k \in DOMAIN ns \ G,
                      ns[k].qos > 0, ns[k].state # "queued"
               PROVE  Cardinality(upto(ns, <<ns[k].direction>>, k, G)) <= max_inflight
    BY DEF OnTheWay
<1>2. k \in DOMAIN ms \ G /\ ms[k].qos > 0 /\ ms[k].state # "queued" /\ ns[k].direction = ms[k].direction
    BY <1>1 DEF Alike
<1>3. upto(ns, <<ns[k].direction>>, k, G) = upto(ms, <<ms[k].direction>>, k, G)
    <2>1. DOMAIN ms = 1..Len(ms) /\ Len(ms) \in Nat
        BY MessagesType
    <2>2. \A l \in 1..k : l \in DOMAIN ms
        BY <1>2, <2>1
    <2>3. \A l \in 1..k : Picks(ns[l], <<ns[k].direction>>) <=> Picks(ms[l], <<ms[k].direction>>)
        BY <1>2, <2>2 DEF Alike, Picks
    <2> QED BY <2>3 DEF upto
<1> QED BY <1>1, <1>2, <1>3 DEF OnTheWay

\* ... so that soundness carries over.
LEMMA SoundAlike ==
    ASSUME NEW d, NEW w, NEW i, NEW G, SoundBut(d, w, i, G), NEW e, AlikeDb(d, e)
    PROVE  SoundBut(e, w, i, G)
<1>0. Typed(d) /\ Pointed(d) /\ Counts(d, w) /\ AtTopics(d, w) /\ Flights(d, w, i, G)
    BY DEF SoundBut
<1>1. e.store = d.store /\ e.subs = d.subs /\ e.last_db_id = d.last_db_id
    BY DEF AlikeDb
<1>2. ASSUME NEW j \in Slots
      PROVE  Alike(msgsOf(d.contexts, j), msgsOf(e.contexts, j))
    <2>1. CASE d.contexts[j] = NULL
        <3>1. e.contexts[j] = NULL
            BY <2>1 DEF AlikeDb, AlikeContexts
        <3> QED BY <2>1, <3>1 DEF msgsOf, Alike
    <2>2. CASE d.contexts[j] # NULL
        <3>1. e.contexts[j] # NULL /\ Alike(d.contexts[j].msgs, e.contexts[j].msgs)
            BY <2>2 DEF AlikeDb, AlikeContexts
        <3> QED BY <2>2, <3>1 DEF msgsOf
    <2> QED BY <2>1, <2>2
<1>3. Typed(e)
    <2>1. \A j \in Slots : e.contexts[j] \in ContextType \cup {NULL}
        BY DEF AlikeDb, AlikeContexts
    <2>2. e.contexts \in [Slots -> ContextType \cup {NULL}]
        BY <2>1 DEF AlikeDb
    <2>3. \A j \in Members(e.subs) : e.contexts[j] # NULL
        BY <1>0, <1>1 DEF AlikeDb, AlikeContexts, Typed, Members
    <2> QED BY <1>0, <1>1, <2>2, <2>3 DEF Typed, AlikeDb
<1>4. Pointed(e)
    BY <1>0, <1>1, <1>2 DEF Pointed, Alike
<1>5. Counts(e, w)
    <2>1. ASSUME NEW s PROVE pairs(e.contexts, s) = pairs(d.contexts, s)
        <3>1. \A m : m \in pairs(d.contexts, s) <=>
                  \E j \in Slots : \E k \in DOMAIN msgsOf(d.contexts, j) :
                     m = <<j, k>> /\ msgsOf(d.contexts, j)[k].store = s
            BY DEF pairs
        <3>2. \A m : m \in pairs(e.contexts, s) <=>
                  \E j \in Slots : \E k \in DOMAIN msgsOf(e.contexts, j) :
                     m = <<j, k>> /\ msgsOf(e.contexts, j)[k].store = s
            BY DEF pairs
        <3>3. \A m : m \in pairs(e.contexts, s) <=> m \in pairs(d.contexts, s)
            BY <1>2, <3>1, <3>2 DEF Alike
        <3> QED BY <3>3 
    <2>2. \A s : held(e, s) = held(d, s)
        BY <1>1, <2>1 DEF held
    <2> QED BY <1>0, <1>1, <2>2 DEF Counts
<1>6. AtTopics(e, w)
    BY <1>0, <1>1 DEF AtTopics
<1>7. Flights(e, w, i, G)
    <2>1. ASSUME NEW j \in Slots, e.contexts[j] # NULL
          PROVE  /\ Counted(e.contexts[j])
                 /\ OnTheWay(e.contexts[j].msgs, IF j = i THEN G ELSE {}, w)
        <3>1. /\ d.contexts[j] # NULL /\ Alike(d.contexts[j].msgs, e.contexts[j].msgs)
              /\ e.contexts[j].msg_count12 = d.contexts[j].msg_count12
            BY <2>1 DEF AlikeDb, AlikeContexts
        <3>2. /\ Counted(d.contexts[j]) /\ d.contexts[j].msgs \in Messages
              /\ OnTheWay(d.contexts[j].msgs, IF j = i THEN G ELSE {}, w)
            BY <1>0, <3>1, MsgsOfType DEF Flights
        <3>3. Counted(e.contexts[j])
            BY <3>1, <3>2, AlikeSel DEF Counted
        <3> QED BY <3>1, <3>2, <3>3, AlikeOnTheWay
    <2> QED BY <2>1 DEF Flights
<1> QED BY <1>3, <1>4, <1>5, <1>6, <1>7 DEF SoundBut

-----------------------------------------------------------------------------
(* The operations on the messages of one context.                          *)

\* Context c with other messages and another count of them.
WithMessages(c, ns, n) == [c EXCEPT !.msgs = ns, !.msg_count12 = n]

\* A context with another list of messages and another count is a context, of the same person.
LEMMA WithMessagesType ==
    ASSUME NEW c \in ContextType, NEW ns \in Messages, NEW n \in Int
    PROVE  /\ WithMessages(c, ns, n) \in ContextType
           /\ WithMessages(c, ns, n).msgs = ns /\ WithMessages(c, ns, n).msg_count12 = n
           /\ SamePerson(c, WithMessages(c, ns, n))
<1>1. /\ WithMessages(c, ns, n) \in ContextType
      /\ WithMessages(c, ns, n).msgs = ns /\ WithMessages(c, ns, n).msg_count12 = n
    BY DEF WithMessages, ContextType, Messages
<1>2. /\ WithMessages(c, ns, n).id = c.id /\ WithMessages(c, ns, n).sock = c.sock
      /\ WithMessages(c, ns, n).state = c.state
      /\ WithMessages(c, ns, n).clean_session = c.clean_session /\ WithMessages(c, ns, n).will = c.will
      /\ WithMessages(c, ns, n).acl_list = c.acl_list /\ WithMessages(c, ns, n).listener = c.listener
    BY DEF WithMessages, ContextType
<1>3. c # NULL /\ WithMessages(c, ns, n) # NULL
    BY <1>1, NullAssumption
<1> QED BY <1>1, <1>2, <1>3 DEF SamePerson

\* A counter of a body is changed.
LEMMA BodyCount ==
    ASSUME NEW b, Body(b), NEW n \in Int
    PROVE  /\ Body([b EXCEPT !.ref_count = n])
           /\ [b EXCEPT !.ref_count = n].ref_count = n
           /\ [b EXCEPT !.ref_count = n].topic = b.topic
           /\ [b EXCEPT !.ref_count = n].payload = b.payload
BY DEF Body, BodyFields

\* Without a message, the others are no further behind.
LEMMA RemoveOnTheWay ==
    ASSUME NEW ms \in Messages, NEW k \in DOMAIN ms, NEW G, \A g \in G : g <= k /\ g \in Nat,
           NEW w, OnTheWay(ms, G, w)
    PROVE  OnTheWay(RemoveAt(ms, k), G \ {k}, w)
<1> DEFINE ns == RemoveAt(ms, k)
<1>1. SUFFICES ASSUME max_inflight > 0, "early" \notin w, NEW l \in DOMAIN ns \ (G \ {k}),
                      ns[l].qos > 0, ns[l].state # "queued"
               PROVE  Cardinality(upto(ns, <<ns[l].direction>>, l, G \ {k})) <= max_inflight
    BY DEF OnTheWay
<1>2. /\ ns \in Messages /\ Len(ns) = Len(ms) - 1
      /\ \A j \in 1..(Len(ms) - 1) : ns[j] = IF j < k THEN ms[j] ELSE ms[j + 1]
    BY RemoveMessage
<1>3. /\ Len(ms) \in Nat /\ DOMAIN ms = 1..Len(ms) /\ DOMAIN ns = 1..(Len(ms) - 1)
      /\ k \in 1..Len(ms)
    BY <1>2, MessagesType
<1> HIDE DEF ns
<1> DEFINE j == IF l < k THEN l ELSE l + 1
<1>4. j \in 1..Len(ms) /\ j \notin G /\ ns[l] = ms[j]
    <2>1. CASE l < k
        BY <1>1, <1>2, <1>3, <2>1
    <2>2. CASE ~(l < k)
        <3>1. j = l + 1 /\ ~(l + 1 <= k) /\ l + 1 \in 1..Len(ms) /\ l \in 1..(Len(ms) - 1)
            BY <1>1, <1>3, <2>2
        <3>2. ns[l] = ms[l + 1]
            BY <1>2, <2>2, <3>1
        <3> QED BY <3>1, <3>2
    <2> QED BY <2>1, <2>2
<1> DEFINE dir == ns[l].direction
           A == Cardinality(upto(ns, <<dir>>, l, G \ {k}))
           B == Cardinality(upto(ms, <<dir>>, j, G))
<1>5. B <= max_inflight
    <2> HIDE DEF j
    <2>1. j \in DOMAIN ms \ G /\ ms[j].qos > 0 /\ ms[j].state # "queued" /\ ms[j].direction = dir
        BY <1>1, <1>3, <1>4
    <2> QED BY <1>1, <2>1 DEF OnTheWay
<1>6. A <= B
    <2>1. l \in 1..(Len(ms) - 1)
        BY <1>1, <1>3
    <2> QED BY <2>1, UptoRemove DEF ns
<1>7. A \in Nat /\ B \in Nat
    <2>1. l \in Nat /\ j \in Nat
        BY <1>1, <1>3, <1>4
    <2> HIDE DEF j, dir
    <2> QED BY <2>1, UptoFinite
<1>8. max_inflight \in Nat
    BY BrokerDbAssumption
<1> HIDE DEF A, B
<1>9. A <= max_inflight
    BY <1>5, <1>6, <1>7, <1>8
<1> QED BY <1>9 DEF A

\* The k-th message goes.
LEMMA MessageRemoveOk ==
    ASSUME NEW d, NEW w, NEW i \in Slots, NEW G, SoundBut(d, w, i, G), d.contexts[i] # NULL,
           NEW k \in DOMAIN d.contexts[i].msgs, \A g \in G : g <= k /\ g \in Nat
    PROVE  /\ SoundBut(_message_remove(d, i, k), w, i, G \ {k})
           /\ Frame(d, _message_remove(d, i, k))
           /\ _message_remove(d, i, k).contexts[i].msgs = RemoveAt(d.contexts[i].msgs, k)
<1> DEFINE e == _message_remove(d, i, k)
           c == d.contexts[i]
           ms == c.msgs
           m == ms[k]
           n == IF m.qos > 0 THEN c.msg_count12 - 1 ELSE c.msg_count12
           f == WithMessages(c, RemoveAt(ms, k), n)
<1>1. /\ Typed(d) /\ Pointed(d) /\ Flights(d, w, i, G) /\ c \in ContextType /\ ms \in Messages
      /\ msgsOf(d.contexts, i) = ms
    BY MsgsOfType DEF SoundBut
<1>2. m \in MessageType /\ m.store \in DOMAIN d.store /\ m.qos \in 0..2
    <2>1. m \in MessageType
        BY <1>1, MessagesType
    <2>2. m.qos \in 0..2
        BY <2>1 DEF MessageType
    <2>3. m.store \in DOMAIN d.store
        BY <1>1 DEF Pointed
    <2> QED BY <2>1, <2>2, <2>3
<1>3. RemoveAt(ms, k) \in Messages
    BY <1>1, RemoveMessage
<1>4. c.msg_count12 \in Int /\ n \in Int
    BY <1>1, <1>2 DEF ContextType
<1>5. f \in ContextType /\ f.msgs = RemoveAt(ms, k) /\ f.msg_count12 = n /\ SamePerson(c, f)
    <2> HIDE DEF c, n
    <2> QED BY <1>1, <1>3, <1>4, WithMessagesType
<1>6. e.contexts = [d.contexts EXCEPT ![i] = f]
    BY <1>1 DEF _message_remove, unref, Typed, DbFields, ContextType, WithMessages
<1>7. /\ DOMAIN e = DbFields /\ e.subs = d.subs /\ e.last_db_id = d.last_db_id
      /\ e.cih = d.cih /\ e.acl_list = d.acl_list /\ e.config = d.config
      /\ e.store = [d.store EXCEPT ![m.store] = [d.store[m.store] EXCEPT !.ref_count = d.store[m.store].ref_count - 1]]
    <2>1. DOMAIN d = DbFields
        BY <1>1 DEF Typed
    <2>2. DOMAIN e = DbFields
        BY <2>1 DEF _message_remove, unref, DbFields
    <2>3. e.store = [d.store EXCEPT ![m.store] = [d.store[m.store] EXCEPT !.ref_count = d.store[m.store].ref_count - 1]]
        BY <2>1 DEF _message_remove, unref, DbFields
    <2>4. /\ e.subs = d.subs /\ e.last_db_id = d.last_db_id
          /\ e.cih = d.cih /\ e.acl_list = d.acl_list /\ e.config = d.config
        BY <2>1 DEF _message_remove, unref, DbFields
    <2> QED BY <2>2, <2>3, <2>4
<1> HIDE DEF e, f, m
<1>8. ASSUME NEW s \in DOMAIN d.store
      PROVE  /\ Body(e.store[s])
             /\ e.store[s].topic = d.store[s].topic /\ e.store[s].payload = d.store[s].payload
             /\ e.store[s].ref_count = d.store[s].ref_count - (IF s = m.store THEN 1 ELSE 0)
    <2>1. Body(d.store[s]) /\ d.store[s].ref_count \in Int
        BY <1>1 DEF Typed, Body
    <2>2. CASE s = m.store
        <3> DEFINE b == d.store[s]
        <3>1. e.store[s] = [b EXCEPT !.ref_count = b.ref_count - 1]
            BY <1>2, <1>7, <2>2
        <3>2. b.ref_count - 1 \in Int /\ Body(b)
            BY <2>1
        <3> HIDE DEF b
        <3>3. /\ Body(e.store[s]) /\ e.store[s].ref_count = b.ref_count - 1
              /\ e.store[s].topic = b.topic /\ e.store[s].payload = b.payload
            BY <3>1, <3>2, BodyCount
        <3> QED BY <2>2, <3>3 DEF b
    <2>3. CASE s # m.store
        <3>1. e.store[s] = d.store[s]
            BY <1>7, <2>3
        <3> QED BY <2>1, <2>3, <3>1
    <2> QED BY <2>2, <2>3
<1>9. Changed(d, e, i, f)
    <2>1. DOMAIN e.store = DOMAIN d.store
        BY <1>7
    <2> HIDE DEF f
    <2> QED BY <1>6, <1>7, <1>8, <2>1 DEF Changed
<1>10. Balanced(d, e, ms, f.msgs)
    <2>1. ASSUME NEW s \in DOMAIN d.store
          PROVE  e.store[s].ref_count - Cardinality(sel(RemoveAt(ms, k), <<"store", s>>)) =
                   d.store[s].ref_count - Cardinality(sel(ms, <<"store", s>>))
        <3> DEFINE p == Cardinality(sel(RemoveAt(ms, k), <<"store", s>>))
                   q == Cardinality(sel(ms, <<"store", s>>))
        <3>1. p = q - (IF Picks(m, <<"store", s>>) THEN 1 ELSE 0)
            BY <1>1, SelRemove DEF m
        <3>2. Picks(m, <<"store", s>>) <=> s = m.store
            BY DEF Picks
        <3>3. q \in Nat
            BY <1>1, SelFinite
        <3>4. d.store[s].ref_count \in Int
            BY <1>1 DEF Typed, Body
        <3>5. e.store[s].ref_count = d.store[s].ref_count - (IF s = m.store THEN 1 ELSE 0)
            BY <1>8
        <3> HIDE DEF p, q
        <3>6. CASE s = m.store
            BY <3>1, <3>2, <3>3, <3>4, <3>5, <3>6 DEF p, q
        <3>7. CASE s # m.store
            BY <3>1, <3>2, <3>3, <3>4, <3>5, <3>7 DEF p, q
        <3> QED BY <3>6, <3>7
    <2> QED BY <1>5, <2>1 DEF Balanced
<1>11. InOrder(d, f, G \ {k}, w)
    <2>1. Counted(f)
        <3> DEFINE p == Cardinality(sel(RemoveAt(ms, k), <<"out">>))
                   q == Cardinality(sel(ms, <<"out">>))
        <3>1. p = q - (IF Picks(m, <<"out">>) THEN 1 ELSE 0)
            BY <1>1, SelRemove DEF m
        <3>2. Picks(m, <<"out">>) <=> m.qos > 0
            BY DEF Picks
        <3>3. c.msg_count12 = q
            BY <1>1 DEF Flights, Counted
        <3>4. q \in Nat
            BY <1>1, SelFinite
        <3>5. n = p
            <4> HIDE DEF p, q, m
            <4> QED BY <3>1, <3>2, <3>3, <3>4
        <3> HIDE DEF f
        <3> QED BY <1>5, <3>5 DEF Counted
    <2>2. OnTheWay(ms, G, w)
        BY <1>1 DEF Flights
    <2>3. OnTheWay(f.msgs, G \ {k}, w)
        BY <1>1, <1>5, <2>2, RemoveOnTheWay
    <2>4. ASSUME NEW l \in DOMAIN f.msgs PROVE f.msgs[l].store \in DOMAIN d.store
        <3>1. DOMAIN f.msgs = 1..(Len(ms) - 1) /\ DOMAIN ms = 1..Len(ms) /\ Len(ms) \in Nat
            BY <1>1, <1>3, <1>5, RemoveMessage, MessagesType
        <3>2. f.msgs[l] = IF l < k THEN ms[l] ELSE ms[l + 1]
            <4>1. l \in 1..(Len(ms) - 1)
                BY <3>1
            <4>2. \A j \in 1..(Len(ms) - 1) : RemoveAt(ms, k)[j] = IF j < k THEN ms[j] ELSE ms[j + 1]
                BY <1>1, RemoveMessage
            <4> HIDE DEF ms
            <4> QED BY <1>5, <4>1, <4>2
        <3>3. l \in DOMAIN ms /\ l + 1 \in DOMAIN ms
            <4>1. l \in 1..(Len(ms) - 1)
                BY <3>1
            <4> HIDE DEF ms
            <4> QED BY <3>1, <4>1
        <3>4. ms[l].store \in DOMAIN d.store /\ ms[l + 1].store \in DOMAIN d.store
            BY <1>1, <3>3 DEF Pointed
        <3> QED BY <3>2, <3>4
    <2> QED BY <1>5, <2>1, <2>3, <2>4 DEF InOrder
<1>12. SoundBut(e, w, i, G \ {k})
    <2> HIDE DEF f
    <2> QED BY <1>9, <1>10, <1>11, OneContext
<1>13. Frame(d, e)
    <2> HIDE DEF f
    <2> QED BY <1>1, <1>5, <1>9, ChangedFrame
<1>14. e.contexts[i].msgs = RemoveAt(ms, k)
    <2>1. e.contexts[i] = f
        <3> HIDE DEF f
        <3> QED BY <1>1, <1>5, <1>9, ChangedMessages
    <2> QED BY <1>5, <2>1
<1> QED BY <1>12, <1>13, <1>14 DEF e

\* The messages at some indices go, the last of them first.
remove_step(c, a, k) == IF k \in c[3] THEN _message_remove(a, c[2], k) ELSE a

\* What is left to go after n of them have been visited.
left(gone, len, n) == {k \in gone : k <= len - n}

Removing(c, n, a) ==
    LET len == Len(c[4].contexts[c[2]].msgs)
    IN n <= len =>
       /\ SoundBut(a, c[1], c[2], left(c[3], len, n))
       /\ Frame(c[4], a) /\ a.contexts[c[2]] # NULL
       /\ Len(a.contexts[c[2]].msgs) >= len - n

Remover == INSTANCE SequenceFolds WITH op <- remove_step, Inv <- Removing

\* The induction that the theorem of Remover assumes.
LEMMA RemoverInducts == Remover!Induction
    BY NatInduct DEF Remover!Induction

\* Taking marked messages out of a list (_message_remove in a loop of database.c) gives their
\* references back.
LEMMA MessagesRemoveOk ==
    ASSUME NEW d, NEW w, NEW i \in Slots, NEW gone, SoundBut(d, w, i, gone), d.contexts[i] # NULL,
           gone \subseteq DOMAIN d.contexts[i].msgs
    PROVE  /\ Sound(_messages_remove(d, i, gone), w)
           /\ Frame(d, _messages_remove(d, i, gone))
<1> DEFINE ms == d.contexts[i].msgs
           n == Len(ms)
           c == <<w, i, gone, d>>
           is == Reverse([k \in DOMAIN ms |-> k])
<1>1. ms \in Messages /\ n \in Nat /\ DOMAIN ms = 1..n
    BY MsgsOfType, MessagesType DEF SoundBut
<1>2. c[1] = w /\ c[2] = i /\ c[3] = gone /\ c[4] = d
    OBVIOUS
<1>3. DOMAIN is = 1..n /\ \A k \in 1..n : is[k] = n - k + 1
    <2> DEFINE up == [k \in DOMAIN ms |-> k]
    <2>1. up \in Seq(Nat) /\ Len(up) = n /\ \A k \in 1..n : up[k] = k
        BY <1>1
    <2> HIDE DEF up
    <2>2. is = [k \in 1..n |-> up[(n - k) + 1]]
        BY <2>1 DEF Reverse, up
    <2>3. \A k \in 1..n : (n - k) + 1 \in 1..n
        BY <1>1
    <2> HIDE DEF n, ms, is
    <2> QED BY <2>1, <2>2, <2>3
<1>4. gone \subseteq 1..n
    BY <1>1
<1> HIDE DEF n, is, c
<1>5. Removing(c, 0, d)
    <2>1. left(gone, n, 0) = gone
        <3>1. \A k \in 1..n : k <= n - 0
            BY <1>1
        <3> QED BY <1>4, <3>1 DEF left
    <2>2. Frame(d, d) /\ n >= n - 0
        BY <1>1, FrameReflexive
    <2> QED BY <1>2, <2>1, <2>2 DEF Removing, n
<1>6. ASSUME NEW k \in 1..n, NEW a, Removing(c, k - 1, a)
      PROVE  Removing(c, k, remove_step(c, a, is[k]))
    <2> DEFINE j == n - k + 1
               G == left(gone, n, k - 1)
               H == left(gone, n, k)
               ls == a.contexts[i].msgs
    <2>1. is[k] = j /\ j \in 1..n /\ k - 1 <= n /\ k <= n /\ k \in Nat /\ n - (k - 1) = j /\ n - k = j - 1
        BY <1>1, <1>3
    <2>2. /\ SoundBut(a, w, i, G) /\ Frame(d, a) /\ a.contexts[i] # NULL /\ Len(ls) >= j
        BY <1>2, <1>6, <2>1 DEF Removing, n
    <2>3. ls \in Messages /\ DOMAIN ls = 1..Len(ls) /\ Len(ls) \in Nat
        BY <2>2, MsgsOfType, MessagesType DEF SoundBut
    <2>4. j \in DOMAIN ls
        BY <2>1, <2>2, <2>3
    <2>5. \A g : g \in G <=> g \in gone /\ g <= j
        BY <2>1 DEF left
    <2>6. \A g : g \in H <=> g \in gone /\ g <= j - 1
        BY <2>1 DEF left
    <2>7. \A g \in gone : g \in Nat
        BY <1>1, <1>4
    <2> HIDE DEF G, H, ls, j
    <2>8. \A g : g \in H <=> g \in G /\ g # j
        BY <2>1, <2>5, <2>6, <2>7
    <2>11. Len(ls) >= n - k /\ Len(ls) - 1 >= n - k
        <3> DEFINE x == Len(ls)
        <3>1. x \in Int
            BY <2>3
        <3>2. n \in Int /\ k \in Int
            BY <1>1
        <3>3. n - k = j - 1
            BY <2>1
        <3>4. j \in Int
            BY <2>1, <3>2
        <3>5. x >= j
            BY <2>2
        <3> HIDE DEF x
        <3>6. x >= n - k /\ x - 1 >= n - k
            BY <3>1, <3>2, <3>3, <3>4, <3>5
        <3> QED BY <3>6 DEF x
    <2>9. CASE j \in gone
        <3> DEFINE b == _message_remove(a, i, j)
        <3>1. \A g \in G : g <= j /\ g \in Nat
            BY <2>5, <2>7
        <3>2. SoundBut(b, w, i, G \ {j}) /\ Frame(a, b) /\ b.contexts[i].msgs = RemoveAt(ls, j)
            <4>1. j \in DOMAIN a.contexts[i].msgs
                BY <2>4 DEF ls
            <4>2. SoundBut(a, w, i, G) /\ a.contexts[i] # NULL
                BY <2>2
            <4> QED BY <3>1, <4>1, <4>2, MessageRemoveOk DEF ls
        <3>3. G \ {j} = H
            BY <2>8
        <3>4. Frame(d, b)
            BY <2>2, <3>2, FrameTransitive
        <3>5. b.contexts[i] # NULL
            BY <2>2, <3>2 DEF Frame, SamePerson
        <3>6. Len(RemoveAt(ls, j)) = Len(ls) - 1
            BY <2>3, <2>4, RemoveMessage
        <3>7. Len(b.contexts[i].msgs) >= n - k
            <4>1. Len(b.contexts[i].msgs) = Len(ls) - 1
                BY <3>2, <3>6
            <4> HIDE DEF b
            <4> QED BY <2>11, <4>1
        <3>8. remove_step(c, a, is[k]) = b
            BY <1>2, <2>1, <2>9 DEF remove_step
        <3> HIDE DEF b
        <3> QED BY <1>2, <3>2, <3>3, <3>4, <3>5, <3>7, <3>8 DEF Removing, H, n
    <2>10. CASE j \notin gone
        <3>1. G = H
            BY <2>5, <2>8, <2>10
        <3>2. remove_step(c, a, is[k]) = a
            BY <1>2, <2>1, <2>10 DEF remove_step
        <3>3. Len(ls) >= n - k
            BY <2>11
        <3> QED BY <1>2, <2>2, <3>1, <3>2, <3>3 DEF Removing, H, n, ls
    <2> QED BY <2>9, <2>10
<1>7. Removing(c, n, Remover!Walk(c, d, is))
    BY <1>1, <1>3, <1>5, <1>6, Remover!WalkInvariant, RemoverInducts
<1>8. Remover!Walk(c, d, is) = _messages_remove(d, i, gone)
    BY DEF Remover!Walk, Remover!Greatest, FoldLeft, MapThenFoldSet, Max, remove_step, _messages_remove, c, is
<1>9. left(gone, n, n) = {}
    <2>1. \A k \in 1..n : ~(k <= n - n)
        BY <1>1
    <2> QED BY <1>4, <2>1 DEF left
<1>10. SoundBut(_messages_remove(d, i, gone), w, i, {}) /\ Frame(d, _messages_remove(d, i, gone))
    BY <1>1, <1>2, <1>7, <1>8, <1>9 DEF Removing, n
<1> QED BY <1>10, SoundAt

\* The references of all messages go.
LEMMA UptoStep ==
    ASSUME NEW ms, NEW c, NEW k \in Nat
    PROVE  Cardinality(upto(ms, c, k + 1, {})) =
             Cardinality(upto(ms, c, k, {})) + (IF Picks(ms[k + 1], c) THEN 1 ELSE 0)
<1>1. IsFiniteSet(upto(ms, c, k, {})) /\ Cardinality(upto(ms, c, k, {})) \in Nat
    BY UptoFinite
<1>2. \A l : l \in 1..(k + 1) <=> l \in 1..k \/ l = k + 1
    OBVIOUS
<1>3. k + 1 \notin upto(ms, c, k, {})
    BY DEF upto
<1>4. CASE Picks(ms[k + 1], c)
    <2>1. upto(ms, c, k + 1, {}) = upto(ms, c, k, {}) \cup {k + 1}
        BY <1>2, <1>4 DEF upto
    <2> QED BY <1>1, <1>3, <1>4, <2>1, FS_AddElement
<1>5. CASE ~Picks(ms[k + 1], c)
    <2>1. upto(ms, c, k + 1, {}) = upto(ms, c, k, {})
        BY <1>2, <1>5 DEF upto
    <2> QED BY <1>1, <1>5, <2>1
<1> QED BY <1>4, <1>5

\* None of the first 0 messages is picked; of all places, those the criterion picks.
LEMMA UptoEnds ==
    ASSUME NEW ms \in Messages, NEW c
    PROVE  /\ Cardinality(upto(ms, c, 0, {})) = 0
           /\ upto(ms, c, Len(ms), {}) = sel(ms, c)
           /\ Cardinality(sel(<<>>, c)) = 0
<1>1. upto(ms, c, 0, {}) = {} /\ sel(<<>>, c) = {}
    BY DEF upto, sel
<1>2. upto(ms, c, Len(ms), {}) = sel(ms, c)
    BY MessagesType DEF upto, sel
<1> QED BY <1>1, <1>2, FS_EmptySet

drop_step(c, a, m) == unref(a, m.store)

\* The body of message s is counted n times less.
Dropped(d, a, ms, n) ==
    /\ DOMAIN a = DbFields
    /\ a.contexts = d.contexts /\ a.subs = d.subs /\ a.last_db_id = d.last_db_id
    /\ a.cih = d.cih /\ a.acl_list = d.acl_list /\ a.config = d.config
    /\ DOMAIN a.store = DOMAIN d.store
    /\ \A s \in DOMAIN d.store :
         /\ Body(a.store[s])
         /\ a.store[s].topic = d.store[s].topic /\ a.store[s].payload = d.store[s].payload
         /\ a.store[s].ref_count =
              d.store[s].ref_count - Cardinality(upto(ms, <<"store", s>>, n, {}))

Dropping(c, n, a) ==
    n <= Len(c[1].contexts[c[2]].msgs) => Dropped(c[1], a, c[1].contexts[c[2]].msgs, n)

Dropper == INSTANCE SequenceFolds WITH op <- drop_step, Inv <- Dropping

\* The induction that the theorem of Dropper assumes.
LEMMA DropperInducts == Dropper!Induction
    BY NatInduct DEF Dropper!Induction

\* Dropping the reference of the next message of the list keeps the reckoning of those already
\* dropped.
LEMMA DropStep ==
    ASSUME NEW d, Typed(d), NEW ms \in Messages, NEW k \in Nat, k + 1 \in DOMAIN ms,
           NEW a, Dropped(d, a, ms, k)
    PROVE  Dropped(d, unref(a, ms[k + 1].store), ms, k + 1)
<1> DEFINE t == ms[k + 1].store
           e == unref(a, t)
<1>1. e.store = [a.store EXCEPT ![t] = [a.store[t] EXCEPT !.ref_count = a.store[t].ref_count - 1]]
    BY DEF unref, Dropped, DbFields
<1>2. /\ DOMAIN e = DbFields
      /\ e.contexts = d.contexts /\ e.subs = d.subs /\ e.last_db_id = d.last_db_id
      /\ e.cih = d.cih /\ e.acl_list = d.acl_list /\ e.config = d.config
    BY DEF unref, Dropped, DbFields
<1> HIDE DEF e
<1>3. ASSUME NEW s \in DOMAIN d.store
      PROVE  /\ Body(e.store[s])
             /\ e.store[s].topic = d.store[s].topic /\ e.store[s].payload = d.store[s].payload
             /\ e.store[s].ref_count =
                  d.store[s].ref_count - Cardinality(upto(ms, <<"store", s>>, k + 1, {}))
    <2> DEFINE b == a.store[s]
               u == Cardinality(upto(ms, <<"store", s>>, k, {}))
               v == Cardinality(upto(ms, <<"store", s>>, k + 1, {}))
    <2>1. /\ Body(b) /\ b.topic = d.store[s].topic /\ b.payload = d.store[s].payload
          /\ b.ref_count = d.store[s].ref_count - u /\ s \in DOMAIN a.store
        BY DEF Dropped
    <2>2. d.store[s].ref_count \in Int /\ b.ref_count \in Int
        BY <2>1 DEF Typed, Body
    <2>3. u \in Nat
        BY UptoFinite
    <2>4. v = u + (IF Picks(ms[k + 1], <<"store", s>>) THEN 1 ELSE 0)
        BY UptoStep
    <2>5. Picks(ms[k + 1], <<"store", s>>) <=> s = t
        BY DEF Picks
    <2> HIDE DEF u, v
    <2>6. CASE s = t
        <3>1. e.store[s] = [b EXCEPT !.ref_count = b.ref_count - 1]
            BY <1>1, <2>1, <2>6
        <3>2. v = u + 1
            BY <2>4, <2>5, <2>6
        <3>3. b.ref_count - 1 \in Int /\ b.ref_count - 1 = d.store[s].ref_count - v
            BY <2>1, <2>2, <2>3, <3>2
        <3> HIDE DEF b
        <3>4. /\ Body(e.store[s]) /\ e.store[s].ref_count = b.ref_count - 1
              /\ e.store[s].topic = b.topic /\ e.store[s].payload = b.payload
            BY <2>1, <3>1, <3>3, BodyCount
        <3> QED BY <2>1, <3>3, <3>4 DEF v
    <2>7. CASE s # t
        <3>1. e.store[s] = b
            BY <1>1, <2>1, <2>7
        <3>2. v = u
            BY <2>3, <2>4, <2>5, <2>7
        <3> HIDE DEF b
        <3> QED BY <2>1, <3>1, <3>2 DEF v
    <2> QED BY <2>6, <2>7
<1>4. DOMAIN e.store = DOMAIN d.store
    BY <1>1 DEF Dropped
<1>5. Dropped(d, e, ms, k + 1)
    BY <1>2, <1>3, <1>4 DEF Dropped
<1> QED BY <1>5 DEF e

\* mqtt3_db_messages_delete gives every reference of the context back and leaves an empty list.
LEMMA MessagesDeleteOk ==
    ASSUME NEW d, NEW w, NEW i \in Slots, Sound(d, w), d.contexts[i] # NULL
    PROVE  /\ Sound(mqtt3_db_messages_delete(d, i), w)
           /\ Frame(d, mqtt3_db_messages_delete(d, i))
           /\ mqtt3_db_messages_delete(d, i).subs = d.subs
           /\ mqtt3_db_messages_delete(d, i).contexts[i] = WithMessages(d.contexts[i], <<>>, 0)
<1> DEFINE x == d.contexts[i]
           ms == d.contexts[i].msgs
           n == Len(ms)
           c == <<d, i>>
           e == mqtt3_db_messages_delete(d, i)
           f == WithMessages(x, <<>>, 0)
           a == Dropper!Walk(c, d, ms)
<1>0. SoundBut(d, w, i, {})
    BY SoundAt
<1>1. Typed(d) /\ ms \in Messages /\ n \in Nat /\ DOMAIN ms = 1..n /\ x \in ContextType
    BY <1>0, MsgsOfType, MessagesType DEF SoundBut
<1>2. c[1] = d /\ c[2] = i
    OBVIOUS
<1> HIDE DEF n, c
<1>3. Dropping(c, 0, d)
    <2>1. ASSUME NEW s \in DOMAIN d.store
          PROVE  Body(d.store[s]) /\ d.store[s].ref_count = d.store[s].ref_count - Cardinality(upto(ms, <<"store", s>>, 0, {}))
        <3>1. Body(d.store[s]) /\ d.store[s].ref_count \in Int
            BY <1>1 DEF Typed, Body
        <3>2. Cardinality(upto(ms, <<"store", s>>, 0, {})) = 0
            BY <1>1, UptoEnds
        <3> QED BY <3>1, <3>2
    <2>2. Dropped(d, d, ms, 0)
        BY <1>1, <2>1 DEF Dropped, Typed
    <2> QED BY <1>2, <2>2 DEF Dropping
<1>4. ASSUME NEW k \in 1..n, NEW b, Dropping(c, k - 1, b)
      PROVE  Dropping(c, k, drop_step(c, b, ms[k]))
    <2>1. k - 1 \in Nat /\ (k - 1) + 1 = k /\ k \in DOMAIN ms /\ k <= n /\ k - 1 <= n
        BY <1>1
    <2>2. Dropped(d, b, ms, k - 1)
        BY <1>2, <1>4, <2>1 DEF Dropping, n
    <2> DEFINE j == k - 1
    <2>3. j \in Nat /\ j + 1 \in DOMAIN ms /\ Dropped(d, b, ms, j)
        BY <2>1, <2>2
    <2> HIDE DEF j
    <2>4. Dropped(d, unref(b, ms[j + 1].store), ms, j + 1)
        BY <1>1, <2>3, DropStep
    <2>5. Dropped(d, unref(b, ms[k].store), ms, k)
        BY <2>1, <2>4 DEF j
    <2> QED BY <1>2, <2>5 DEF Dropping, drop_step
<1>5. Dropping(c, n, a)
    BY <1>1, <1>3, <1>4, Dropper!WalkInvariant, DropperInducts
<1> HIDE DEF a
<1>6. Dropped(d, a, ms, n)
    <2>1. n <= n
        BY <1>1
    <2> QED BY <1>2, <1>5, <2>1 DEF Dropping, n
<1>7. e = [a EXCEPT !.contexts[i].msgs = <<>>, !.contexts[i].msg_count12 = 0]
    BY DEF Dropper!Walk, Dropper!Greatest, FoldLeft, MapThenFoldSet, Max, drop_step, mqtt3_db_messages_delete, c, a
<1>8. f \in ContextType /\ f.msgs = <<>> /\ f.msg_count12 = 0 /\ SamePerson(x, f)
    <2>1. <<>> \in Messages /\ 0 \in Int
        BY DEF Messages
    <2> HIDE DEF x
    <2> QED BY <1>1, <2>1, WithMessagesType
<1> HIDE DEF e
<1>9. /\ DOMAIN e = DbFields /\ e.store = a.store /\ e.subs = d.subs /\ e.last_db_id = d.last_db_id
      /\ e.cih = d.cih /\ e.acl_list = d.acl_list /\ e.config = d.config
    BY <1>6, <1>7 DEF Dropped, DbFields
<1>10. e.contexts = [d.contexts EXCEPT ![i] = f]
    BY <1>1, <1>6, <1>7 DEF Dropped, DbFields, WithMessages, ContextType, Typed
<1> HIDE DEF f
<1>11. Changed(d, e, i, f)
    BY <1>6, <1>9, <1>10 DEF Changed, Dropped
<1>12. Balanced(d, e, ms, f.msgs)
    <2>1. ASSUME NEW s \in DOMAIN d.store
          PROVE  e.store[s].ref_count - Cardinality(sel(<<>>, <<"store", s>>)) =
                   d.store[s].ref_count - Cardinality(sel(ms, <<"store", s>>))
        <3> DEFINE u == Cardinality(sel(ms, <<"store", s>>))
        <3>1. e.store[s].ref_count = d.store[s].ref_count - u
            BY <1>1, <1>6, <1>9, UptoEnds DEF Dropped, n
        <3>2. Cardinality(sel(<<>>, <<"store", s>>)) = 0
            BY <1>1, UptoEnds
        <3>3. u \in Nat /\ d.store[s].ref_count \in Int
            BY <1>1, SelFinite DEF Typed, Body
        <3> HIDE DEF u
        <3>4. e.store[s].ref_count - 0 = d.store[s].ref_count - u
            BY <3>1, <3>3
        <3> QED BY <3>2, <3>4 DEF u
    <2> QED BY <1>8, <2>1 DEF Balanced
<1>13. InOrder(d, f, {}, w)
    <2>1. Counted(f)
        BY <1>1, <1>8, UptoEnds DEF Counted
    <2>2. OnTheWay(f.msgs, {}, w)
        BY <1>8 DEF OnTheWay
    <2> QED BY <1>8, <2>1, <2>2 DEF InOrder
<1>14. SoundBut(e, w, i, {})
    BY <1>0, <1>11, <1>12, <1>13, OneContext
<1>15. Frame(d, e) /\ e.contexts[i] = f
    BY <1>1, <1>8, <1>11, ChangedFrame, ChangedMessages
<1> QED BY <1>9, <1>14, <1>15, SoundAt DEF e, f

\* Fewer are counted of one direction than of both.
LEMMA UptoDirection ==
    ASSUME NEW ms, NEW dir, NEW k \in Nat, NEW G
    PROVE  Cardinality(upto(ms, <<dir>>, k, G)) <= Cardinality(upto(ms, <<"out">>, k, G)) \/ dir = "store"
<1>1. CASE dir # "store"
    <2>1. upto(ms, <<dir>>, k, G) \subseteq upto(ms, <<"out">>, k, G)
        BY <1>1 DEF upto, Picks
    <2>2. IsFiniteSet(upto(ms, <<"out">>, k, G))
        BY UptoFinite
    <2>3. Cardinality(upto(ms, <<dir>>, k, G)) <= Cardinality(upto(ms, <<"out">>, k, G))
        BY <2>1, <2>2, FS_Subset
    <2> QED BY <2>3
<1> QED BY <1>1

\* A message at the end does not put the others back, and is itself not too far behind
\* if there was room.
LEMMA AppendOnTheWay ==
    ASSUME NEW ms \in Messages, NEW m \in MessageType, NEW w, OnTheWay(ms, {}, w),
           \/ m.qos = 0 \/ m.state = "queued" \/ max_inflight = 0
           \/ Cardinality(sel(ms, <<"out">>)) < max_inflight
    PROVE  OnTheWay(Append(ms, m), {}, w)
<1> DEFINE ns == Append(ms, m)
           n == Len(ms)
<1>1. SUFFICES ASSUME max_inflight > 0, "early" \notin w, NEW k \in DOMAIN ns \ {},
                      ns[k].qos > 0, ns[k].state # "queued"
               PROVE  Cardinality(upto(ns, <<ns[k].direction>>, k, {})) <= max_inflight
    BY DEF OnTheWay
<1>2. /\ ns \in Messages /\ Len(ns) = n + 1 /\ ns[n + 1] = m
      /\ \A l \in 1..n : ns[l] = ms[l]
    BY AppendMessage
<1>3. DOMAIN ns = 1..(n + 1) /\ n \in Nat /\ DOMAIN ms = 1..n
    BY <1>2, MessagesType
<1>4. m.direction \in {"in", "out"} /\ m.qos \in 0..2 /\ max_inflight \in Nat
    BY BrokerDbAssumption DEF MessageType
<1>5. Cardinality(sel(ns, <<"out">>)) = Cardinality(sel(ms, <<"out">>)) + (IF Picks(m, <<"out">>) THEN 1 ELSE 0)
    BY SelAppend
<1>6. Cardinality(upto(ns, <<"out">>, n + 1, {})) = Cardinality(sel(ns, <<"out">>))
    BY <1>2, UptoEnds
<1> HIDE DEF ns, n
<1>7. CASE k \in 1..n
    <2>1. ns[k] = ms[k] /\ k \in DOMAIN ms \ {} /\ \A l \in 1..k : l \in 1..n
        BY <1>2, <1>3, <1>7
    <2>2. upto(ns, <<ns[k].direction>>, k, {}) = upto(ms, <<ms[k].direction>>, k, {})
        BY <1>2, <2>1 DEF upto
    <2> QED BY <1>1, <2>1, <2>2 DEF OnTheWay
<1>8. CASE k = n + 1
    <2> DEFINE x == Cardinality(sel(ms, <<"out">>))
               y == Cardinality(upto(ns, <<m.direction>>, n + 1, {}))
               z == Cardinality(upto(ns, <<"out">>, n + 1, {}))
    <2>1. ns[k] = m
        BY <1>2, <1>8
    <2>2. x < max_inflight /\ x \in Nat
        BY <1>1, <1>4, <2>1, SelFinite
    <2>3. Picks(m, <<"out">>)
        BY <1>1, <2>1 DEF Picks
    <2>4. z = x + 1
        BY <1>5, <1>6, <2>3
    <2>5. y <= z
        BY <1>3, <1>4, UptoDirection
    <2>6. y \in Nat
        BY <1>3, UptoFinite
    <2> HIDE DEF x, y, z
    <2>7. y <= max_inflight
        BY <1>4, <2>2, <2>4, <2>5, <2>6
    <2> QED BY <1>8, <2>1, <2>7 DEF y
<1>9. k \in 1..n \/ k = n + 1
    BY <1>3
<1> QED BY <1>7, <1>8, <1>9

\* A message that is inserted has room, is queued, or is dropped.
LEMMA InsertState ==
    ASSUME NEW c \in ContextType, NEW dir \in {"in", "out"}, NEW qos \in 0..2
    PROVE  /\ insert_state(c, dir, qos) \in
                {"publish_qos0", "publish_qos1", "publish_qos2", "wait_for_pubrel",
                 "queued", "invalid", "dropped"}
           /\ \/ qos = 0 \/ insert_state(c, dir, qos) \in {"queued", "invalid", "dropped"}
              \/ max_inflight = 0 \/ c.msg_count12 < max_inflight
<1>1. publish_state(qos) \in {"publish_qos0", "publish_qos1", "publish_qos2"}
    <2>1. qos = 0 \/ qos = 1 \/ qos = 2
        OBVIOUS
    <2> QED BY <2>1 DEF publish_state
<1> QED BY <1>1 DEF insert_state

\* No context has fewer messages.
NoneLost(d, e) ==
    \A j \in Slots : DOMAIN msgsOf(d.contexts, j) \subseteq DOMAIN msgsOf(e.contexts, j)

\* mqtt3_db_message_insert keeps the store sound, stays within the frame and loses no stored
\* body.
LEMMA InsertOk ==
    ASSUME NEW d, NEW w, NEW i \in Slots, Sound(d, w), d.contexts[i] # NULL,
           NEW mid \in Nat, NEW dir \in {"in", "out"}, NEW qos \in 0..2, NEW retain \in BOOLEAN,
           NEW s \in DOMAIN d.store
    PROVE  /\ Sound(mqtt3_db_message_insert(d, i, mid, dir, qos, retain, s).db, w)
           /\ Frame(d, mqtt3_db_message_insert(d, i, mid, dir, qos, retain, s).db)
           /\ mqtt3_db_message_insert(d, i, mid, dir, qos, retain, s).db.subs = d.subs
           /\ NoneLost(d, mqtt3_db_message_insert(d, i, mid, dir, qos, retain, s).db)
<1> DEFINE c == d.contexts[i]
           records == ~allow_duplicate_messages /\ dir = "out" /\ ~retain
           state == insert_state(c, dir, qos)
           m == [store |-> s, mid |-> mid, direction |-> dir, state |-> state, dup |-> FALSE,
                 qos |-> qos, retain |-> retain, old |-> FALSE]
           e == [d EXCEPT
                   !.store[s].ref_count = @ + 1,
                   !.store[s].dest_ids = IF records THEN @ \cup {c.id} ELSE @,
                   !.contexts[i].msgs = Append(@, m),
                   !.contexts[i].msg_count12 = IF qos > 0 THEN @ + 1 ELSE @]
           r == mqtt3_db_message_insert(d, i, mid, dir, qos, retain, s)
           ms == c.msgs
           n == IF qos > 0 THEN c.msg_count12 + 1 ELSE c.msg_count12
           f == WithMessages(c, Append(ms, m), n)
<1>0. SoundBut(d, w, i, {})
    BY SoundAt
<1>1. /\ Typed(d) /\ Pointed(d) /\ Flights(d, w, i, {}) /\ ms \in Messages /\ c \in ContextType
      /\ msgsOf(d.contexts, i) = ms
    BY <1>0, MsgsOfType DEF SoundBut
<1>2. r.db = d \/ (r.db = e /\ state \notin {"invalid", "dropped"})
    BY DEF mqtt3_db_message_insert
<1>3. CASE r.db = d
    BY <1>3, FrameReflexive DEF NoneLost
<1>4. CASE r.db = e /\ state \notin {"invalid", "dropped"}
    <2>1. /\ state \in {"publish_qos0", "publish_qos1", "publish_qos2", "wait_for_pubrel", "queued"}
          /\ qos = 0 \/ state = "queued" \/ max_inflight = 0 \/ c.msg_count12 < max_inflight
        <3> HIDE DEF c
        <3> QED BY <1>1, <1>4, InsertState
    <2>2. s \in Nat
        BY <1>1 DEF Typed
    <2> HIDE DEF state, r
    <2>3. m \in MessageType /\ m.store = s /\ m.qos = qos /\ m.state = state
        BY <2>1, <2>2 DEF MessageType
    <2>4. c.msg_count12 \in Int /\ n \in Int
        BY <1>1 DEF ContextType
    <2>5. Append(ms, m) \in Messages
        BY <1>1, <2>3, AppendMessage
    <2>6. f \in ContextType /\ f.msgs = Append(ms, m) /\ f.msg_count12 = n /\ SamePerson(c, f)
        <3> DEFINE ns == Append(ms, m)
        <3>1. ns \in Messages /\ n \in Int /\ c \in ContextType
            BY <1>1, <2>4, <2>5
        <3> HIDE DEF c, n, ns
        <3>2. /\ WithMessages(c, ns, n) \in ContextType
              /\ WithMessages(c, ns, n).msgs = ns /\ WithMessages(c, ns, n).msg_count12 = n
              /\ SamePerson(c, WithMessages(c, ns, n))
            BY <3>1, WithMessagesType
        <3> QED BY <3>2 DEF ns
    <2>7. DOMAIN d = DbFields
        BY <1>1 DEF Typed
    <2>8. DOMAIN e = DbFields
        BY <2>7 DEF DbFields
    <2>9. /\ e.subs = d.subs /\ e.last_db_id = d.last_db_id
          /\ e.cih = d.cih /\ e.acl_list = d.acl_list /\ e.config = d.config
        BY <2>7 DEF DbFields
    <2> HIDE DEF m
    <2>10. e.contexts = [d.contexts EXCEPT ![i] = f]
        BY <1>1, <2>7 DEF Typed, DbFields, ContextType, WithMessages
    <2> DEFINE b == d.store[s]
               ids == IF records THEN b.dest_ids \cup {c.id} ELSE b.dest_ids
               b2 == [b EXCEPT !.ref_count = b.ref_count + 1, !.dest_ids = ids]
    <2>11. e.store = [d.store EXCEPT ![s] = b2]
        <3>1. Body(b)
            BY <1>1 DEF Typed
        <3> HIDE DEF records
        <3> QED BY <2>7, <3>1 DEF DbFields, Body, BodyFields
    <2>12. Body(b2) /\ b2.ref_count = b.ref_count + 1 /\ b2.topic = b.topic /\ b2.payload = b.payload
        <3>1. Body(b)
            BY <1>1 DEF Typed
        <3> HIDE DEF b, ids
        <3> QED BY <3>1 DEF Body, BodyFields
    <2> HIDE DEF e, f, b2
    <2>13. ASSUME NEW t \in DOMAIN d.store
           PROVE  /\ Body(e.store[t])
                  /\ e.store[t].topic = d.store[t].topic /\ e.store[t].payload = d.store[t].payload
                  /\ e.store[t].ref_count = d.store[t].ref_count + (IF t = s THEN 1 ELSE 0)
        <3>1. Body(d.store[t]) /\ d.store[t].ref_count \in Int
            BY <1>1 DEF Typed, Body
        <3>2. CASE t = s
            <4>1. e.store[t] = b2
                BY <2>11, <3>2
            <4> QED BY <2>12, <3>2, <4>1
        <3>3. CASE t # s
            <4>1. e.store[t] = d.store[t]
                BY <2>11, <3>3
            <4> QED BY <3>1, <3>3, <4>1
        <3> QED BY <3>2, <3>3
    <2>14. Changed(d, e, i, f)
        <3>1. DOMAIN e.store = DOMAIN d.store
            BY <2>11
        <3> QED BY <2>8, <2>9, <2>10, <2>13, <3>1 DEF Changed
    <2>15. Balanced(d, e, ms, f.msgs)
        <3>1. ASSUME NEW t \in DOMAIN d.store
              PROVE  e.store[t].ref_count - Cardinality(sel(Append(ms, m), <<"store", t>>)) =
                       d.store[t].ref_count - Cardinality(sel(ms, <<"store", t>>))
            <4> DEFINE u == Cardinality(sel(ms, <<"store", t>>))
                       v == Cardinality(sel(Append(ms, m), <<"store", t>>))
                       x == d.store[t].ref_count
                       y == e.store[t].ref_count
            <4>1. v = u + (IF Picks(m, <<"store", t>>) THEN 1 ELSE 0)
                BY <1>1, <2>3, SelAppend
            <4>2. Picks(m, <<"store", t>>) <=> t = s
                BY <2>3 DEF Picks
            <4>3. u \in Nat
                BY <1>1, SelFinite
            <4>4. x \in Int
                BY <1>1 DEF Typed, Body
            <4>5. y = x + (IF t = s THEN 1 ELSE 0)
                BY <2>13
            <4> HIDE DEF u, v, x, y
            <4>6. CASE t = s
                BY <4>1, <4>2, <4>3, <4>4, <4>5, <4>6 DEF u, v, x, y
            <4>7. CASE t # s
                BY <4>1, <4>2, <4>3, <4>4, <4>5, <4>7 DEF u, v, x, y
            <4> QED BY <4>6, <4>7
        <3> QED BY <2>6, <3>1 DEF Balanced
    <2>16. InOrder(d, f, {}, w)
        <3>1. c.msg_count12 = Cardinality(sel(ms, <<"out">>)) /\ OnTheWay(ms, {}, w)
            BY <1>1 DEF Flights, Counted
        <3>2. Counted(f)
            <4> DEFINE u == Cardinality(sel(ms, <<"out">>))
                       v == Cardinality(sel(Append(ms, m), <<"out">>))
            <4>1. v = u + (IF Picks(m, <<"out">>) THEN 1 ELSE 0)
                BY <1>1, <2>3, SelAppend
            <4>2. Picks(m, <<"out">>) <=> qos > 0
                BY <2>3 DEF Picks
            <4>3. u \in Nat
                BY <1>1, SelFinite
            <4> HIDE DEF u, v, c
            <4>4. n = v
                BY <3>1, <4>1, <4>2, <4>3 DEF u
            <4> QED BY <2>6, <4>4 DEF Counted, v
        <3>3. OnTheWay(f.msgs, {}, w)
            BY <1>1, <2>1, <2>3, <2>6, <3>1, AppendOnTheWay
        <3>4. ASSUME NEW l \in DOMAIN f.msgs PROVE f.msgs[l].store \in DOMAIN d.store
            <4>1. /\ DOMAIN f.msgs = 1..(Len(ms) + 1) /\ DOMAIN ms = 1..Len(ms) /\ Len(ms) \in Nat
                  /\ f.msgs[Len(ms) + 1] = m /\ \A k \in 1..Len(ms) : f.msgs[k] = ms[k]
                <5> DEFINE ns == Append(ms, m)
                <5>1. /\ ns \in Messages /\ Len(ns) = Len(ms) + 1
                      /\ \A k \in 1..Len(ms) : ns[k] = ms[k]
                      /\ ns[Len(ms) + 1] = m
                    BY <1>1, <2>3, AppendMessage
                <5>2. f.msgs = ns
                    BY <2>6
                <5> HIDE DEF ns
                <5>3. DOMAIN ns = 1..Len(ns) /\ DOMAIN ms = 1..Len(ms) /\ Len(ms) \in Nat
                    BY <1>1, <5>1, MessagesType
                <5> QED BY <5>1, <5>2, <5>3
            <4>2. l \in 1..Len(ms) \/ l = Len(ms) + 1
                BY <4>1
            <4>3. \A k \in 1..Len(ms) : ms[k].store \in DOMAIN d.store
                BY <1>1, <4>1 DEF Pointed
            <4> HIDE DEF ms
            <4> QED BY <2>3, <4>1, <4>2, <4>3
        <3> QED BY <2>6, <3>2, <3>3, <3>4 DEF InOrder
    <2>17. SoundBut(e, w, i, {})
        BY <1>0, <2>14, <2>15, <2>16, OneContext
    <2>18. Frame(d, e)
        BY <1>1, <2>6, <2>14, ChangedFrame
    <2>19. NoneLost(d, e)
        <3>1. msgsOf(e.contexts, i) = f.msgs /\ \A j \in Slots \ {i} : msgsOf(e.contexts, j) = msgsOf(d.contexts, j)
            BY <1>1, <2>6, <2>14, ChangedMessages
        <3> DEFINE ns == Append(ms, m)
        <3>2. ns \in Messages /\ Len(ns) = Len(ms) + 1
            BY <1>1, <2>3, AppendMessage
        <3>3. f.msgs = ns
            BY <2>6
        <3> HIDE DEF ns
        <3>4. DOMAIN ns = 1..Len(ns) /\ DOMAIN ms = 1..Len(ms) /\ Len(ms) \in Nat
            BY <1>1, <3>2, MessagesType
        <3>5. DOMAIN ms \subseteq DOMAIN ns
            BY <3>2, <3>4
        <3> QED BY <1>1, <3>1, <3>3, <3>5 DEF NoneLost
    <2> QED BY <1>4, <2>9, <2>17, <2>18, <2>19, SoundAt DEF r
<1> QED BY <1>2, <1>3, <1>4 DEF r

\* The least of some numbers.
LEMMA FirstOk ==
    ASSUME NEW ks, ks \subseteq Nat, ks # {}
    PROVE  first(ks) \in ks /\ \A l \in ks : first(ks) <= l
<1>1. \E k \in ks : \A l \in ks : k <= l
    BY LeastNat
<1> QED BY <1>1, Zenon DEF first

States ==
    {"publish_qos0", "publish_qos1", "publish_qos2", "queued", "wait_for_puback",
     "wait_for_pubrec", "wait_for_pubrel", "wait_for_pubcomp", "send_pubrec",
     "resend_pubrel", "resend_pubcomp"}

\* Message n is message m, further on its way or not.
SameMessage(m, n) ==
    n \in MessageType /\ n.store = m.store /\ n.qos = m.qos /\ n.direction = m.direction

\* Setting the state of a message changes nothing a criterion looks at but the state.
LEMMA WithState ==
    ASSUME NEW m \in MessageType, NEW s \in States
    PROVE  SameMessage(m, with_state(m, s)) /\ with_state(m, s).state = s
BY DEF MessageType, States, with_state, SameMessage

\* What the type says of one message: its qos, state and direction.
LEMMA StateOf ==
    ASSUME NEW m \in MessageType
    PROVE  m.qos \in 0..2 /\ m.state \in States /\ m.direction \in {"in", "out"} /\ SameMessage(m, m)
BY DEF MessageType, States, SameMessage

\* The state a message waits in after its PUBLISH is not "queued".
LEMMA PublishState ==
    ASSUME NEW qos \in 0..2
    PROVE  publish_state(qos) \in States /\ publish_state(qos) # "queued"
<1>1. qos = 0 \/ qos = 1 \/ qos = 2
    OBVIOUS
<1> QED BY <1>1 DEF publish_state, States

\* Moving a queued message into flight keeps what the counts look at.
LEMMA MoveUp ==
    ASSUME NEW m \in MessageType
    PROVE  SameMessage(m, move_up(m))
<1>1. publish_state(m.qos) \in States /\ "wait_for_pubrel" \in States
    BY StateOf, PublishState DEF States
<1> QED BY <1>1, StateOf, WithState DEF move_up

\* The messages of a context with its count.
SetMessages(d, i, ns, n) == [d EXCEPT !.contexts[i] = WithMessages(@, ns, n)]

\* Replacing the list alone is replacing list and count by the list and the old count.
LEMMA JustMessages ==
    ASSUME NEW d, Typed(d), NEW i \in Slots, d.contexts[i] # NULL, NEW ns
    PROVE  [d EXCEPT !.contexts[i].msgs = ns] = SetMessages(d, i, ns, d.contexts[i].msg_count12)
<1>1. d.contexts[i] \in ContextType
    BY MsgsOfType
<1>2. [d.contexts[i] EXCEPT !.msgs = ns] = WithMessages(d.contexts[i], ns, d.contexts[i].msg_count12)
    BY <1>1 DEF WithMessages, ContextType
<1> HIDE DEF WithMessages
<1> QED BY <1>2 DEF SetMessages, Typed, DbFields

\* Messages ns are ms, with some admitted that are not too far behind; those in H are
\* about to go.
Advanced(ms, ns, H, w) ==
    /\ DOMAIN ns = DOMAIN ms
    /\ \A k \in DOMAIN ms :
         /\ SameMessage(ms[k], ns[k])
         /\ max_inflight > 0 /\ "early" \notin w /\ k \notin H /\ ns[k].qos > 0 /\ ns[k].state # "queued" =>
              \/ ms[k].state # "queued"
              \/ Cardinality(upto(ms, <<ms[k].direction>>, k, H)) <= max_inflight

\* A list that only advanced in the states of its messages is still in order.
LEMMA AdvanceOnTheWay ==
    ASSUME NEW ms \in Messages, NEW ns, NEW H, NEW w, OnTheWay(ms, {}, w), Advanced(ms, ns, H, w)
    PROVE  OnTheWay(ns, H, w)
<1>1. SUFFICES ASSUME max_inflight > 0, "early" \notin w, NEW k \in DOMAIN ns \ H,
                      ns[k].qos > 0, ns[k].state # "queued"
               PROVE  Cardinality(upto(ns, <<ns[k].direction>>, k, H)) <= max_inflight
    BY DEF OnTheWay
<1>2. k \in DOMAIN ms /\ ns[k].direction = ms[k].direction /\ ns[k].qos = ms[k].qos
    BY <1>1 DEF Advanced, SameMessage
<1>3. DOMAIN ms = 1..Len(ms) /\ Len(ms) \in Nat
    BY MessagesType
<1>4. upto(ns, <<ns[k].direction>>, k, H) = upto(ms, <<ms[k].direction>>, k, H)
    <2>1. \A l \in 1..k : l \in DOMAIN ms
        BY <1>2, <1>3
    <2>2. \A l \in 1..k : Picks(ns[l], <<ns[k].direction>>) <=> Picks(ms[l], <<ms[k].direction>>)
        BY <1>2, <2>1 DEF Advanced, SameMessage, Picks
    <2> QED BY <2>2 DEF upto
<1>5. CASE ms[k].state # "queued"
    <2> DEFINE dir == ms[k].direction
               A == Cardinality(upto(ms, <<dir>>, k, H))
               B == Cardinality(upto(ms, <<dir>>, k, {}))
    <2>1. B <= max_inflight
        BY <1>1, <1>2, <1>5 DEF OnTheWay
    <2>2. A <= B
        <3>1. upto(ms, <<dir>>, k, H) \subseteq upto(ms, <<dir>>, k, {})
            BY DEF upto
        <3>2. k \in Nat
            BY <1>2, <1>3
        <3>3. IsFiniteSet(upto(ms, <<dir>>, k, {}))
            BY <3>2, UptoFinite
        <3> QED BY <3>1, <3>3, FS_Subset
    <2>3. A \in Nat /\ B \in Nat /\ max_inflight \in Nat
        <3>1. k \in Nat
            BY <1>2, <1>3
        <3> HIDE DEF dir
        <3> QED BY <3>1, UptoFinite, BrokerDbAssumption
    <2> HIDE DEF A, B
    <2>4. A <= max_inflight
        BY <2>1, <2>2, <2>3
    <2> QED BY <1>4, <2>4 DEF A
<1>6. CASE ms[k].state = "queued"
    BY <1>1, <1>2, <1>4, <1>6 DEF Advanced
<1> QED BY <1>5, <1>6

\* ... and is counted alike.
LEMMA AdvancedSel ==
    ASSUME NEW ms, NEW ns, NEW H, NEW w, Advanced(ms, ns, H, w), NEW c
    PROVE  sel(ns, c) = sel(ms, c)
<1>1. \A k \in DOMAIN ms : Picks(ns[k], c) <=> Picks(ms[k], c)
    BY DEF Advanced, SameMessage, Picks
<1> QED BY <1>1, SelSame DEF Advanced

\* The broker stays sound when the messages of one context advance in their states.
LEMMA AdvanceOk ==
    ASSUME NEW d, NEW w, NEW i \in Slots, Sound(d, w), d.contexts[i] # NULL,
           NEW ns \in Messages, NEW H, Advanced(d.contexts[i].msgs, ns, H, w)
    PROVE  /\ SoundBut(SetMessages(d, i, ns, d.contexts[i].msg_count12), w, i, H)
           /\ Frame(d, SetMessages(d, i, ns, d.contexts[i].msg_count12))
           /\ SetMessages(d, i, ns, d.contexts[i].msg_count12).contexts[i].msgs = ns
           /\ d.contexts[i].msg_count12 = Cardinality(sel(ns, <<"out">>))
<1> DEFINE c == d.contexts[i]
           ms == c.msgs
           n == c.msg_count12
           e == SetMessages(d, i, ns, n)
           f == WithMessages(c, ns, n)
<1>0. SoundBut(d, w, i, {})
    BY SoundAt
<1>1. /\ Typed(d) /\ Pointed(d) /\ Flights(d, w, i, {}) /\ ms \in Messages /\ c \in ContextType
      /\ msgsOf(d.contexts, i) = ms /\ n \in Int
    BY <1>0, MsgsOfType DEF SoundBut, ContextType
<1>2. f \in ContextType /\ f.msgs = ns /\ f.msg_count12 = n /\ SamePerson(c, f)
    <2> HIDE DEF c, n
    <2> QED BY <1>1, WithMessagesType
<1>3. /\ DOMAIN e = DbFields /\ e.store = d.store /\ e.subs = d.subs /\ e.last_db_id = d.last_db_id
      /\ e.cih = d.cih /\ e.acl_list = d.acl_list /\ e.config = d.config
      /\ e.contexts = [d.contexts EXCEPT ![i] = f]
    BY <1>1 DEF SetMessages, Typed, DbFields
<1> HIDE DEF e, f
<1>4. Changed(d, e, i, f)
    <2>1. \A s \in DOMAIN d.store : Body(d.store[s])
        BY <1>1 DEF Typed
    <2> QED BY <1>3, <2>1 DEF Changed
<1>5. \A x : sel(ns, x) = sel(ms, x)
    BY AdvancedSel
<1>6. Balanced(d, e, ms, f.msgs)
    BY <1>2, <1>3, <1>5 DEF Balanced
<1>7. InOrder(d, f, H, w)
    <2>1. n = Cardinality(sel(ms, <<"out">>)) /\ OnTheWay(ms, {}, w)
        BY <1>1 DEF Flights, Counted
    <2>2. Counted(f)
        BY <1>2, <1>5, <2>1 DEF Counted
    <2>3. OnTheWay(f.msgs, H, w)
        BY <1>1, <1>2, <2>1, AdvanceOnTheWay
    <2>4. ASSUME NEW l \in DOMAIN f.msgs PROVE f.msgs[l].store \in DOMAIN d.store
        <3>1. l \in DOMAIN ms /\ ns[l].store = ms[l].store
            BY <1>2 DEF Advanced, SameMessage
        <3> QED BY <1>1, <1>2, <3>1 DEF Pointed
    <2> QED BY <1>2, <2>2, <2>3, <2>4 DEF InOrder
<1>8. SoundBut(e, w, i, H)
    BY <1>0, <1>4, <1>6, <1>7, OneContext
<1>9. Frame(d, e) /\ e.contexts[i] = f
    BY <1>1, <1>2, <1>4, ChangedFrame, ChangedMessages
<1>10. n = Cardinality(sel(ns, <<"out">>))
    <2>1. n = Cardinality(sel(ms, <<"out">>))
        BY <1>1 DEF Flights, Counted
    <2> QED BY <1>5, <2>1
<1> QED BY <1>2, <1>8, <1>9, <1>10 DEF e

\* A message that is not queued takes another state.
LEMMA UpdateOk ==
    ASSUME NEW d, NEW w, NEW i \in Slots, Sound(d, w), d.contexts[i] # NULL, NEW mid,
           NEW dir, NEW state \in States,
           "early" \in w \/ \A k \in matching(d.contexts[i].msgs, mid, dir) :
                              d.contexts[i].msgs[k].state # "queued"
    PROVE  /\ Sound(mqtt3_db_message_update(d, i, mid, dir, state).db, w)
           /\ Frame(d, mqtt3_db_message_update(d, i, mid, dir, state).db)
<1> DEFINE ms == d.contexts[i].msgs
           ks == matching(ms, mid, dir)
           k == first(ks)
           ns == [ms EXCEPT ![k] = with_state(@, state)]
           e == mqtt3_db_message_update(d, i, mid, dir, state).db
<1>1. Typed(d) /\ ms \in Messages /\ DOMAIN ms = 1..Len(ms) /\ Len(ms) \in Nat
    BY MsgsOfType, MessagesType DEF Sound, SoundBut
<1>2. CASE ks = {}
    <2>1. e = d
        BY <1>2 DEF mqtt3_db_message_update
    <2> QED BY <2>1, FrameReflexive
<1>3. CASE ks # {}
    <2>1. e = [d EXCEPT !.contexts[i].msgs = ns]
        BY <1>1, <1>3 DEF mqtt3_db_message_update, Typed, DbFields
    <2>2. k \in ks /\ ks \subseteq DOMAIN ms
        <3>0. ks \subseteq DOMAIN ms
            BY DEF matching
        <3>1. ks \subseteq DOMAIN ms /\ ks \subseteq Nat
            <4> HIDE DEF ks, ms
            <4> QED BY <1>1, <3>0
        <3> HIDE DEF ks
        <3> QED BY <1>3, <3>1, FirstOk
    <2>3. \A l \in DOMAIN ms : ms[l] \in MessageType
        BY <1>1, MessagesType
    <2> HIDE DEF k, ks
    <2>4. ns \in Messages /\ DOMAIN ns = DOMAIN ms
        <3>1. with_state(ms[k], state) \in MessageType
            BY <2>2, <2>3, WithState DEF SameMessage
        <3>2. ns = [l \in 1..Len(ms) |-> IF l = k THEN with_state(ms[k], state) ELSE ms[l]]
            BY <1>1, <2>2 DEF Messages
        <3> QED BY <1>1, <2>2, <2>3, <3>1, <3>2 DEF Messages
    <2>5. Advanced(ms, ns, {}, w)
        <3>1. ASSUME NEW l \in DOMAIN ms
              PROVE  /\ SameMessage(ms[l], ns[l])
                     /\ "early" \notin w /\ ns[l].state # "queued" => ms[l].state # "queued"
            <4>1. CASE l = k
                <5>1. ns[l] = with_state(ms[l], state)
                    BY <4>1
                <5>2. "early" \notin w => ms[l].state # "queued"
                    BY <2>2, <4>1 DEF ks
                <5> QED BY <2>3, <5>1, <5>2, WithState
            <4>2. CASE l # k
                <5>1. ns[l] = ms[l]
                    BY <4>2
                <5> QED BY <2>3, <5>1, StateOf
            <4> QED BY <4>1, <4>2
        <3> QED BY <2>4, <3>1 DEF Advanced
    <2>6. e = SetMessages(d, i, ns, d.contexts[i].msg_count12)
        BY <1>1, <2>1, JustMessages
    <2> HIDE DEF ns, e
    <2>7. SoundBut(e, w, i, {}) /\ Frame(d, e)
        BY <2>4, <2>5, <2>6, AdvanceOk
    <2> QED BY <2>7, SoundAt DEF e
<1> QED BY <1>2, <1>3

\* A message is acknowledged: it goes, and those behind it move up.
LEMMA DeleteOk ==
    ASSUME NEW d, NEW w, NEW i \in Slots, Sound(d, w), d.contexts[i] # NULL, NEW mid, NEW dir
    PROVE  /\ Sound(mqtt3_db_message_delete(d, i, mid, dir), w)
           /\ Frame(d, mqtt3_db_message_delete(d, i, mid, dir))
<1> DEFINE ms == d.contexts[i].msgs
           ks == matching(ms, mid, dir)
           K(k) == {l \in 1..k : l \notin ks}
           kept(k) == Cardinality(K(k))
           gone == {k \in ks : k = first(ks) \/ kept(k) <= max_inflight}
           ns == [k \in DOMAIN ms |->
                    IF moves_up(ms[k], kept(k - 1) + 1) THEN move_up(ms[k]) ELSE ms[k]]
           a == [d EXCEPT !.contexts[i].msgs = ns]
<1>1. Typed(d) /\ ms \in Messages /\ DOMAIN ms = 1..Len(ms) /\ Len(ms) \in Nat
    BY MsgsOfType, MessagesType DEF Sound, SoundBut
<1>2. \A l \in DOMAIN ms : ms[l] \in MessageType
    BY <1>1, MessagesType
<1>3. mqtt3_db_message_delete(d, i, mid, dir) = _messages_remove(a, i, gone)
    BY DEF mqtt3_db_message_delete
<1>4. ks \subseteq DOMAIN ms
    BY DEF matching
<1>5. gone \subseteq DOMAIN ms /\ gone \subseteq ks /\ \A k \in ks : kept(k) <= max_inflight => k \in gone
    BY <1>4
<1> HIDE DEF ks
<1>6. ASSUME NEW k \in DOMAIN ms
      PROVE  SameMessage(ms[k], ns[k])
    <2>1. ns[k] = ms[k] \/ ns[k] = move_up(ms[k])
        OBVIOUS
    <2> HIDE DEF ns, ms
    <2> QED BY <1>2, <2>1, MoveUp, StateOf
<1>7. ns \in Messages /\ DOMAIN ns = DOMAIN ms
    <2>1. DOMAIN ns = DOMAIN ms /\ ns = [k \in 1..Len(ms) |-> ns[k]]
        BY <1>1
    <2>2. \A k \in 1..Len(ms) : ns[k] \in MessageType
        BY <1>1, <1>6 DEF SameMessage
    <2> HIDE DEF ns, ms
    <2> QED BY <1>1, <2>1, <2>2 DEF Messages
<1>8. ASSUME NEW k \in Nat
      PROVE  IsFiniteSet(K(k)) /\ kept(k) \in Nat
    <2>1. IsFiniteSet(1..k) /\ K(k) \subseteq 1..k
        BY FS_Interval
    <2> QED BY <2>1, FS_Subset, FS_CardinalityType
<1>9. ASSUME NEW k \in DOMAIN ms, NEW dir2 \in {"in", "out"}, kept(k - 1) + 1 <= max_inflight
      PROVE  Cardinality(upto(ms, <<dir2>>, k, gone)) <= max_inflight
    <2> DEFINE j == k - 1
               x == kept(j)
               A == upto(ms, <<dir2>>, k, gone)
               B == K(j) \cup {k}
    <2>1. j \in Nat /\ k = j + 1 /\ k \in Nat
        BY <1>1
    <2>2. x \in Nat /\ IsFiniteSet(K(j)) /\ x + 1 <= max_inflight
        <3>1. x + 1 <= max_inflight
            BY <1>9
        <3>2. IsFiniteSet(K(j))
            <4> HIDE DEF j, K
            <4> QED BY <1>8, <2>1
        <3>3. x \in Nat
            <4> HIDE DEF j, kept
            <4> QED BY <1>8, <2>1
        <3> QED BY <3>1, <3>2, <3>3
    <2>3. IsFiniteSet(B) /\ Cardinality(B) <= x + 1
        <3> DEFINE L == K(j)
        <3>1. IsFiniteSet(L) /\ Cardinality(L) = x /\ x \in Nat
            BY <2>2
        <3> HIDE DEF L, x
        <3>2. IsFiniteSet(L \cup {k}) /\ Cardinality(L \cup {k}) = IF k \in L THEN Cardinality(L) ELSE Cardinality(L) + 1
            BY <3>1, FS_AddElement
        <3>3. Cardinality(L \cup {k}) <= x + 1
            BY <3>1, <3>2
        <3> QED BY <3>2, <3>3 DEF L
    <2>4. A \subseteq B
        <3>1. ASSUME NEW l \in 1..k, l \notin gone, l # k
              PROVE  l \in K(j)
            <4>1. l \in 1..j
                BY <2>1, <3>1
            <4>2. CASE l \in ks
                <5> DEFINE y == kept(l)
                <5>1. K(l) \subseteq K(j)
                    <6>1. \A n \in 1..l : n \in 1..j
                        BY <2>1, <4>1
                    <6> QED BY <6>1
                <5>2. y <= x /\ y \in Nat
                    <6>1. l \in Nat
                        BY <4>1
                    <6> QED BY <1>8, <2>2, <5>1, <6>1, FS_Subset
                <5>3. ~(y <= max_inflight)
                    BY <1>5, <3>1, <4>2
                <5>4. max_inflight \in Nat
                    BY BrokerDbAssumption
                <5> HIDE DEF x, y
                <5> QED BY <2>2, <5>2, <5>3, <5>4
            <4> QED BY <4>1, <4>2
        <3> QED BY <3>1 DEF upto
    <2>5. Cardinality(A) <= Cardinality(B)
        BY <2>3, <2>4, FS_Subset
    <2>6. Cardinality(A) \in Nat /\ Cardinality(B) \in Nat
        BY <2>1, <2>3, UptoFinite, FS_CardinalityType
    <2>7. max_inflight \in Nat
        BY BrokerDbAssumption
    <2> HIDE DEF x, A, B
    <2> QED BY <2>2, <2>3, <2>5, <2>6, <2>7 DEF A
<1>10. Advanced(ms, ns, gone, w)
    <2>1. ASSUME NEW k \in DOMAIN ms, ns[k].state # "queued"
          PROVE  \/ ms[k].state # "queued"
                 \/ Cardinality(upto(ms, <<ms[k].direction>>, k, gone)) <= max_inflight
        <3>1. CASE moves_up(ms[k], kept(k - 1) + 1)
            <4>1. kept(k - 1) + 1 <= max_inflight
                BY <3>1 DEF moves_up
            <4>2. ms[k].direction \in {"in", "out"}
                BY <1>2, StateOf
            <4> HIDE DEF kept, gone
            <4> QED BY <1>9, <4>1, <4>2
        <3>2. CASE ~moves_up(ms[k], kept(k - 1) + 1)
            <4>1. ns[k] = ms[k]
                BY <3>2
            <4> QED BY <2>1, <4>1
        <3> QED BY <3>1, <3>2
    <2> HIDE DEF ns, gone
    <2> QED BY <1>6, <1>7, <2>1 DEF Advanced
<1>11. a = SetMessages(d, i, ns, d.contexts[i].msg_count12)
    <2> HIDE DEF ns
    <2> QED BY <1>1, JustMessages
<1> HIDE DEF ns, gone, a
<1>12. SoundBut(a, w, i, gone) /\ Frame(d, a) /\ a.contexts[i].msgs = ns
    BY <1>7, <1>10, <1>11, AdvanceOk
<1>13. a.contexts[i] # NULL
    BY <1>12 DEF Frame, SamePerson
<1>14. Sound(_messages_remove(a, i, gone), w) /\ Frame(a, _messages_remove(a, i, gone))
    BY <1>5, <1>7, <1>12, <1>13, MessagesRemoveOk
<1> QED BY <1>3, <1>12, <1>14, FrameTransitive

\* A connection that comes back: the messages start over, and are counted again.
LEMMA ResetOk ==
    ASSUME NEW d, NEW w, NEW i \in Slots, Sound(d, w), d.contexts[i] # NULL
    PROVE  /\ Sound(mqtt3_db_message_reconnect_reset(d, i), w)
           /\ Frame(d, mqtt3_db_message_reconnect_reset(d, i))
<1> DEFINE ms == d.contexts[i].msgs
           reset(k) == reset_state(ms[k])
           admitted(k) == reset(k) = "queued" /\ (max_inflight = 0 \/ k <= max_inflight)
           ns == [k \in DOMAIN ms |-> [ms[k] EXCEPT
                    !.state = IF admitted(k) THEN publish_state(ms[k].qos) ELSE reset(k)]]
           n == Cardinality({k \in DOMAIN ms : ms[k].qos > 0})
           e == mqtt3_db_message_reconnect_reset(d, i)
<1>1. Typed(d) /\ ms \in Messages /\ DOMAIN ms = 1..Len(ms) /\ Len(ms) \in Nat /\ Flights(d, w, 0, {})
    BY MsgsOfType, MessagesType DEF Sound, SoundBut
<1>2. \A l \in DOMAIN ms : ms[l] \in MessageType
    BY <1>1, MessagesType
<1>3. n = d.contexts[i].msg_count12
    <2>1. {k \in DOMAIN ms : ms[k].qos > 0} = sel(ms, <<"out">>)
        BY DEF sel, Picks
    <2> QED BY <1>1, <2>1 DEF Flights, Counted
<1>4. ASSUME NEW k \in DOMAIN ms
      PROVE  /\ reset(k) \in States
             /\ reset(k) # "queued" => ms[k].state # "queued"
             /\ publish_state(ms[k].qos) \in States
    <2>1. ms[k].state \in States /\ ms[k].qos \in 0..2
        BY <1>2, StateOf
    <2>2. publish_state(ms[k].qos) \in States
        BY <2>1, PublishState
    <2> HIDE DEF ms
    <2>3. reset(k) \in States
        BY <2>1, <2>2 DEF reset_state, States
    <2>4. reset(k) # "queued" => ms[k].state # "queued"
        BY DEF reset_state
    <2> QED BY <2>2, <2>3, <2>4
<1>5. ASSUME NEW k \in DOMAIN ms
      PROVE  /\ SameMessage(ms[k], ns[k])
             /\ ns[k].state = IF admitted(k) THEN publish_state(ms[k].qos) ELSE reset(k)
    <2> DEFINE s == IF admitted(k) THEN publish_state(ms[k].qos) ELSE reset(k)
               m == ms[k]
    <2>1. s \in States /\ m \in MessageType
        BY <1>2, <1>4
    <2>2. ns[k] = [m EXCEPT !.state = s]
        OBVIOUS
    <2> HIDE DEF s, m, ns
    <2>3. SameMessage(m, ns[k]) /\ ns[k].state = s
        BY <2>1, <2>2 DEF MessageType, States, SameMessage
    <2> QED BY <2>3 DEF s, m
<1>6. ns \in Messages /\ DOMAIN ns = DOMAIN ms
    <2>1. DOMAIN ns = DOMAIN ms /\ ns = [k \in 1..Len(ms) |-> ns[k]]
        BY <1>1
    <2>2. \A k \in 1..Len(ms) : ns[k] \in MessageType
        BY <1>1, <1>5 DEF SameMessage
    <2> HIDE DEF ns, ms
    <2> QED BY <1>1, <2>1, <2>2 DEF Messages
<1>7. Advanced(ms, ns, {}, w)
    <2>1. ASSUME NEW k \in DOMAIN ms, max_inflight > 0, ns[k].state # "queued", ms[k].state = "queued"
          PROVE  Cardinality(upto(ms, <<ms[k].direction>>, k, {})) <= max_inflight
        <3>1. k <= max_inflight
            <4> HIDE DEF reset, ns
            <4>1. admitted(k)
                BY <1>4, <1>5, <2>1
            <4>2. max_inflight # 0
                BY <2>1, BrokerDbAssumption
            <4> QED BY <4>1, <4>2
        <3> DEFINE A == Cardinality(upto(ms, <<ms[k].direction>>, k, {}))
        <3>2. k \in Nat
            BY <1>1
        <3>3. A <= k /\ A \in Nat
            BY <3>2, UptoFinite
        <3>4. max_inflight \in Nat
            BY BrokerDbAssumption
        <3> HIDE DEF A
        <3> QED BY <3>1, <3>2, <3>3, <3>4 DEF A
    <2> HIDE DEF ns
    <2> QED BY <1>5, <1>6, <2>1 DEF Advanced
<1>8. e = SetMessages(d, i, ns, n)
    <2>1. d.contexts[i] \in ContextType
        BY <1>1, MsgsOfType
    <2>2. e = [d EXCEPT !.contexts[i].msg_count12 = n, !.contexts[i].msgs = ns]
        BY DEF mqtt3_db_message_reconnect_reset
    <2> HIDE DEF ns, n, e
    <2>3. [[d.contexts[i] EXCEPT !.msg_count12 = n] EXCEPT !.msgs = ns] = WithMessages(d.contexts[i], ns, n)
        BY <2>1 DEF WithMessages, ContextType
    <2> HIDE DEF WithMessages
    <2> QED BY <1>1, <2>2, <2>3 DEF SetMessages, Typed, DbFields
<1> HIDE DEF ns, e, n
<1>9. SoundBut(e, w, i, {}) /\ Frame(d, e)
    <2> DEFINE c == d.contexts[i].msg_count12
               f == SetMessages(d, i, ns, c)
    <2>1. SoundBut(f, w, i, {}) /\ Frame(d, f)
        BY <1>6, <1>7, AdvanceOk
    <2>2. e = f
        BY <1>3, <1>8
    <2> HIDE DEF f
    <2> QED BY <2>1, <2>2
<1> QED BY <1>9, SoundAt DEF e

-----------------------------------------------------------------------------
(* Sending and retrying.                                                   *)

\* Database e is d, save for what was written.
OnlyOut(d, e) == DOMAIN e = DbFields /\ \A f \in DbFields \ {"out"} : e[f] = d[f]

\* A step that only writes to a socket leaves every other field of the database.
LEMMA OnlyOutFields ==
    ASSUME NEW d, NEW e, OnlyOut(d, e)
    PROVE  /\ DOMAIN e = DbFields
           /\ e.contexts = d.contexts /\ e.cih = d.cih /\ e.subs = d.subs /\ e.store = d.store
           /\ e.last_db_id = d.last_db_id /\ e.acl_list = d.acl_list
           /\ e.acl_patterns = d.acl_patterns /\ e.config = d.config
           /\ e.broken = d.broken /\ e.client_count = d.client_count
BY DEF OnlyOut, DbFields

\* Two such steps are one.
LEMMA OnlyOutTransitive ==
    ASSUME NEW d, NEW e, NEW f, OnlyOut(d, e), OnlyOut(e, f)
    PROVE  OnlyOut(d, f)
BY DEF OnlyOut

\* No change is such a step.
LEMMA OnlyOutReflexive ==
    ASSUME NEW d, Typed(d)
    PROVE  OnlyOut(d, d)
BY DEF OnlyOut, Typed

\* A database is like itself.
LEMMA AlikeReflexive ==
    ASSUME NEW d, Typed(d)
    PROVE  AlikeDb(d, d)
<1>1. \A j \in Slots : d.contexts[j] # NULL => d.contexts[j] \in ContextType
    BY MsgsOfType
<1>2. AlikeContexts(d.contexts, d.contexts)
    BY <1>1 DEF AlikeContexts, Alike
<1> QED BY <1>2 DEF AlikeDb, Typed

\* Writing to a socket keeps the store sound and stays within the frame.
LEMMA OnlyOutOk ==
    ASSUME NEW d, NEW w, NEW i, NEW G, SoundBut(d, w, i, G), NEW e, OnlyOut(d, e)
    PROVE  SoundBut(e, w, i, G) /\ Frame(d, e)
<1>1. Typed(d)
    BY DEF SoundBut
<1>2. AlikeDb(d, e)
    BY <1>1, AlikeReflexive, OnlyOutFields DEF AlikeDb, Typed
<1>3. Frame(d, e)
    BY OnlyOutFields DEF Frame, SamePerson
<1> QED BY <1>2, <1>3, SoundAlike

\* _mosquitto_packet_queue only writes to a socket.
LEMMA SendOk ==
    ASSUME NEW d, DOMAIN d = DbFields, NEW i, NEW packet
    PROVE  OnlyOut(d, send(d, i, packet))
BY DEF OnlyOut, send, DbFields

\* Writing the packet a message stands for only writes to a socket.
LEMMA WriteMessageOk ==
    ASSUME NEW d, DOMAIN d = DbFields, NEW i, NEW m
    PROVE  OnlyOut(d, write_message(d, i, m))
<1>1. OnlyOut(d, d)
    BY DEF OnlyOut
<1>2. OnlyOut(d, _mosquitto_send_publish(d, i, m))
    BY <1>1, SendOk DEF _mosquitto_send_publish
<1>3. \A command : OnlyOut(d, _mosquitto_send_command_with_mid(d, i, command, m.mid))
    BY SendOk DEF _mosquitto_send_command_with_mid
<1> QED BY <1>1, <1>2, <1>3 DEF write_message

\* The message at k may have been admitted.
Admitted(ms, k, n) ==
    /\ SameMessage(ms[k], n)
    /\ n.state # "queued" /\ max_inflight > 0 =>
         \/ ms[k].state # "queued"
         \/ Cardinality(upto(ms, <<ms[k].direction>>, k, {})) <= max_inflight

\* Admitting queued messages below the limit is an advance of the list.
LEMMA AdmittedAdvance ==
    ASSUME NEW ms \in Messages, NEW ns, DOMAIN ns = DOMAIN ms,
           \A k \in DOMAIN ms : Admitted(ms, k, ns[k]), NEW H, NEW w
    PROVE  Advanced(ms, ns, H, w)
<1>1. DOMAIN ms = 1..Len(ms) /\ Len(ms) \in Nat /\ max_inflight \in Nat
    BY MessagesType, BrokerDbAssumption
<1>2. ASSUME NEW k \in DOMAIN ms, NEW dir, Cardinality(upto(ms, <<dir>>, k, {})) <= max_inflight
      PROVE  Cardinality(upto(ms, <<dir>>, k, H)) <= max_inflight
    <2> DEFINE A == Cardinality(upto(ms, <<dir>>, k, H))
               B == Cardinality(upto(ms, <<dir>>, k, {}))
    <2>1. k \in Nat
        BY <1>1
    <2>2. IsFiniteSet(upto(ms, <<dir>>, k, {})) /\ A \in Nat /\ B \in Nat
        BY <2>1, UptoFinite
    <2>3. upto(ms, <<dir>>, k, H) \subseteq upto(ms, <<dir>>, k, {})
        BY DEF upto
    <2>4. A <= B
        BY <2>2, <2>3, FS_Subset
    <2>5. B <= max_inflight
        BY <1>2
    <2> HIDE DEF A, B
    <2>6. A <= max_inflight
        BY <1>1, <2>2, <2>4, <2>5
    <2> QED BY <2>6 DEF A
<1>3. Advanced(ms, ns, H, w)
    BY <1>2 DEF Advanced, Admitted
<1> QED BY <1>3

\* The walk of the main loop over the messages of a context.
admit_step(ms, walk, m) == admit(walk, m)

Admitting(ms, k, walk) ==
    k <= Len(ms) =>
      /\ walk.count \in Nat /\ Cardinality(upto(ms, <<"in">>, k, {})) <= walk.count
      /\ walk.msgs \in Messages /\ Len(walk.msgs) = k
      /\ \A j \in 1..k : Admitted(ms, j, walk.msgs[j])

Admitter == INSTANCE SequenceFolds WITH op <- admit_step, Inv <- Admitting

\* The induction that the theorem of Admitter assumes.
LEMMA AdmitterInducts == Admitter!Induction
    BY NatInduct DEF Admitter!Induction

\* The pass over a list that admits queued messages leaves each as it was or admitted, in its
\* place.
LEMMA AdmitOk ==
    ASSUME NEW ms \in Messages
    PROVE  /\ FoldLeft(admit, [count |-> 0, msgs |-> <<>>], ms).msgs \in Messages
           /\ DOMAIN FoldLeft(admit, [count |-> 0, msgs |-> <<>>], ms).msgs = DOMAIN ms
           /\ \A j \in DOMAIN ms :
                Admitted(ms, j, FoldLeft(admit, [count |-> 0, msgs |-> <<>>], ms).msgs[j])
<1> DEFINE n == Len(ms)
           start == [count |-> 0, msgs |-> <<>>]
           x == Admitter!Walk(ms, start, ms)
<1>1. n \in Nat /\ DOMAIN ms = 1..n /\ \A k \in 1..n : ms[k] \in MessageType
    BY MessagesType
<1>2. Admitting(ms, 0, start)
    <2>1. Cardinality(upto(ms, <<"in">>, 0, {})) = 0
        BY UptoEnds
    <2>2. <<>> \in Messages /\ Len(<<>>) = 0
        BY DEF Messages
    <2> QED BY <2>1, <2>2 DEF Admitting
<1>3. ASSUME NEW k \in 1..n, NEW a, Admitting(ms, k - 1, a)
      PROVE  Admitting(ms, k, admit_step(ms, a, ms[k]))
    <2> DEFINE l == k - 1
               m == ms[k]
               count == a.count + (IF m.direction = "in" THEN 1 ELSE 0)
               now == /\ m.state = "queued" /\ m.direction = "in" /\ m.qos = 2
                      /\ max_inflight = 0 \/ count < max_inflight
               e == admit_step(ms, a, m)
               new == IF now THEN [m EXCEPT !.state = "send_pubrec"] ELSE m
               u == Cardinality(upto(ms, <<"in">>, l, {}))
               v == Cardinality(upto(ms, <<"in">>, k, {}))
    <2>1. l \in Nat /\ k = l + 1 /\ k \in Nat /\ k - 1 <= n
        BY <1>1
    <2>2. /\ a.count \in Nat /\ u <= a.count /\ a.msgs \in Messages /\ Len(a.msgs) = l
          /\ \A j \in 1..l : Admitted(ms, j, a.msgs[j])
        BY <1>3, <2>1 DEF Admitting
    <2>3. m \in MessageType /\ m.direction \in {"in", "out"} /\ m.qos \in 0..2
        BY <1>1, StateOf
    <2>4. e.count = (IF now THEN count + 1 ELSE count) /\ e.msgs = Append(a.msgs, new)
        BY DEF admit_step, admit
    <2>5. count \in Nat /\ e.count \in Nat /\ count <= e.count
        <3>1. count \in Nat
            BY <2>2
        <3> HIDE DEF count, e, now
        <3> QED BY <2>4, <3>1
    <2>6. v = u + (IF Picks(ms[l + 1], <<"in">>) THEN 1 ELSE 0)
        <3> HIDE DEF l
        <3> QED BY <2>1, UptoStep
    <2>7. u \in Nat /\ v \in Nat
        <3> HIDE DEF l
        <3> QED BY <2>1, UptoFinite
    <2>8. v <= count
        <3>1. CASE m.direction = "in"
            <4>1. count = a.count + 1
                BY <3>1
            <4>2. v <= u + 1
                BY <2>6, <2>7
            <4> HIDE DEF u, v, count
            <4> QED BY <2>2, <2>5, <2>7, <4>1, <4>2
        <3>2. CASE m.direction # "in"
            <4>1. ~Picks(ms[l + 1], <<"in">>)
                BY <2>1, <3>2 DEF Picks
            <4>2. v = u
                BY <2>6, <2>7, <4>1
            <4>3. count = a.count
                BY <2>2, <3>2
            <4> HIDE DEF u, v, count
            <4> QED BY <2>2, <4>2, <4>3
        <3> QED BY <3>1, <3>2
    <2> HIDE DEF u, e
    <2>9. Admitted(ms, k, new)
        <3>1. CASE now
            <4> DEFINE s == "send_pubrec"
            <4>1. new = [m EXCEPT !.state = s]
                BY <3>1
            <4>2. s \in States /\ s # "queued"
                BY DEF States
            <4> HIDE DEF s, new
            <4>3. SameMessage(m, new)
                BY <2>3, <4>1, <4>2 DEF MessageType, States, SameMessage
            <4>4. m.direction = "in" /\ (max_inflight = 0 \/ count < max_inflight)
                BY <3>1
            <4>5. max_inflight > 0 => v <= max_inflight
                <5>1. max_inflight \in Nat
                    BY BrokerDbAssumption
                <5> HIDE DEF v, count
                <5> QED BY <2>5, <2>7, <2>8, <4>4, <5>1
            <4> QED BY <4>3, <4>4, <4>5 DEF Admitted
        <3>2. CASE ~now
            <4>1. new = m
                BY <3>2
            <4> QED BY <2>3, <4>1, StateOf DEF Admitted
        <3> QED BY <3>1, <3>2
    <2>10. new \in MessageType
        BY <2>9 DEF Admitted, SameMessage
    <2> HIDE DEF new, count, now
    <2>11. /\ Append(a.msgs, new) \in Messages /\ Len(Append(a.msgs, new)) = l + 1
           /\ \A j \in 1..l : Append(a.msgs, new)[j] = a.msgs[j]
           /\ Append(a.msgs, new)[l + 1] = new
        BY <2>2, <2>10, AppendMessage
    <2>12. \A j \in 1..k : j \in 1..l \/ j = k
        BY <2>1
    <2>13. \A j \in 1..k : Admitted(ms, j, e.msgs[j])
        <3> HIDE DEF l
        <3> QED BY <2>1, <2>2, <2>4, <2>9, <2>11, <2>12
    <2>14. v <= e.count
        <3> HIDE DEF v
        <3> QED BY <2>5, <2>7, <2>8
    <2>15. e.msgs \in Messages /\ Len(e.msgs) = k
        BY <2>1, <2>4, <2>11
    <2> QED BY <2>5, <2>13, <2>14, <2>15 DEF Admitting, e
<1> HIDE DEF n
<1>4. Admitting(ms, n, x)
    BY <1>1, <1>2, <1>3, Admitter!WalkInvariant, AdmitterInducts
<1>5. x = FoldLeft(admit, start, ms)
    BY DEF Admitter!Walk, Admitter!Greatest, FoldLeft, MapThenFoldSet, Max, admit_step
<1> HIDE DEF x
<1>6. x.msgs \in Messages /\ Len(x.msgs) = n /\ \A j \in 1..n : Admitted(ms, j, x.msgs[j])
    <2>1. n <= Len(ms)
        BY <1>1 DEF n
    <2> QED BY <1>4, <2>1 DEF Admitting
<1>7. DOMAIN x.msgs = 1..n
    BY <1>6, MessagesType
<1> QED BY <1>1, <1>5, <1>6, <1>7

\* What has been written moves on, and nothing leaves the queue.
LEMMA WrittenOk ==
    ASSUME NEW m \in MessageType
    PROVE  SameMessage(m, written(m)) /\ (m.state = "queued" => written(m).state = "queued")
<1>1. SameMessage(m, m)
    BY StateOf
<1>2. ASSUME NEW s \in States
      PROVE  /\ SameMessage(m, [with_state(m, s) EXCEPT !.dup = TRUE])
             /\ SameMessage(m, [m EXCEPT !.state = s])
    BY DEF MessageType, States, with_state, SameMessage
<1>3. {"wait_for_puback", "wait_for_pubrec", "wait_for_pubrel", "wait_for_pubcomp"} \subseteq States
    BY DEF States
<1> QED BY <1>1, <1>2, <1>3 DEF written

\* The writes of a context, one by one.
Writes(d, i, ms) ==
    LET step(e, m) == write_message(e, i, m)
    IN FoldLeft(step, d, ms)

WritesOnly(c, k, d) == OnlyOut(c[2], d)

writer_step(c, d, m) == write_message(d, c[1], m)

Writer == INSTANCE SequenceFolds WITH op <- writer_step, Inv <- WritesOnly

\* The induction that the theorem of Writer assumes.
LEMMA WriterInducts == Writer!Induction
    BY NatInduct DEF Writer!Induction

\* Writing a list of messages one after the other only writes to a socket.
LEMMA WritesOk ==
    ASSUME NEW d, Typed(d), NEW i, NEW ms \in Messages
    PROVE  OnlyOut(d, Writes(d, i, ms))
<1> DEFINE n == Len(ms)
           c == <<i, d>>
           x == Writer!Walk(c, d, ms)
<1>1. n \in Nat /\ DOMAIN ms = 1..n
    BY MessagesType
<1>2. c[1] = i /\ c[2] = d
    OBVIOUS
<1> HIDE DEF n, c
<1>3. WritesOnly(c, 0, d)
    BY <1>2, OnlyOutReflexive DEF WritesOnly
<1>4. ASSUME NEW k \in 1..n, NEW a, WritesOnly(c, k - 1, a)
      PROVE  WritesOnly(c, k, writer_step(c, a, ms[k]))
    <2>1. OnlyOut(d, a)
        BY <1>2, <1>4 DEF WritesOnly
    <2>2. OnlyOut(a, write_message(a, i, ms[k]))
        BY <2>1, OnlyOutFields, WriteMessageOk
    <2> QED BY <1>2, <2>1, <2>2, OnlyOutTransitive DEF WritesOnly, writer_step
<1>5. WritesOnly(c, n, x)
    BY <1>1, <1>3, <1>4, Writer!WalkInvariant, WriterInducts
<1>6. OnlyOut(d, x)
    BY <1>2, <1>5 DEF WritesOnly
<1> QED BY <1>6 DEF Writes, Writer!Walk, Writer!Greatest, FoldLeft, MapThenFoldSet, Max, writer_step, c

\* mqtt3_db_message_write keeps the store sound and stays within the frame.
LEMMA WriteOk ==
    ASSUME NEW d, NEW w, NEW i \in Slots, Sound(d, w), d.contexts[i] # NULL
    PROVE  /\ Sound(mqtt3_db_message_write(d, i).db, w)
           /\ Frame(d, mqtt3_db_message_write(d, i).db)
<1> DEFINE old == d.contexts[i].msgs
           ms == FoldLeft(admit, [count |-> 0, msgs |-> <<>>], old).msgs
           due == {k \in DOMAIN ms : sends(ms[k])}
           a == Writes(d, i, ms)
           ns == [k \in DOMAIN ms |-> written(ms[k])]
           b == [a EXCEPT !.contexts[i].msgs = ns]
           qos0 == {k \in DOMAIN ms : ms[k].state = "publish_qos0"}
           os == [k \in DOMAIN old |-> IF k <= first(due) THEN ms[k] ELSE old[k]]
           e1 == [d EXCEPT !.contexts[i].msgs = os]
           r == mqtt3_db_message_write(d, i)
<1>1. r.db = e1 \/ r.db = _messages_remove(b, i, qos0)
    BY DEF mqtt3_db_message_write, Writes
<1>2. Typed(d) /\ old \in Messages /\ DOMAIN old = 1..Len(old) /\ Len(old) \in Nat
    BY MsgsOfType, MessagesType DEF Sound, SoundBut
<1>3. ms \in Messages /\ DOMAIN ms = DOMAIN old /\ \A k \in DOMAIN old : Admitted(old, k, ms[k])
    <2> HIDE DEF old
    <2> QED BY <1>2, AdmitOk
<1>4. OnlyOut(d, a)
    <2> HIDE DEF ms
    <2> QED BY <1>2, <1>3, WritesOk
<1> HIDE DEF ms, due, r, a
<1>5. \A k \in DOMAIN old : old[k] \in MessageType /\ ms[k] \in MessageType
    BY <1>2, <1>3, MessagesType
<1>6. SoundBut(a, w, 0, {}) /\ Frame(d, a)
    BY <1>4, OnlyOutOk DEF Sound
<1>7. a.contexts = d.contexts
    BY <1>4, OnlyOutFields
<1>8. CASE r.db = e1
    <2>1. \A k \in DOMAIN old : Admitted(old, k, os[k])
        <3>1. \A k \in DOMAIN old : Admitted(old, k, old[k])
            BY <1>5, StateOf DEF Admitted
        <3>2. \A k \in DOMAIN old : os[k] = ms[k] \/ os[k] = old[k]
            OBVIOUS
        <3> HIDE DEF os, old
        <3> QED BY <1>3, <3>1, <3>2
    <2>2. DOMAIN os = DOMAIN old /\ os = [k \in 1..Len(old) |-> os[k]]
        BY <1>2
    <2> HIDE DEF os
    <2>3. os \in Messages
        <3>1. \A k \in 1..Len(old) : os[k] \in MessageType
            BY <1>2, <2>1 DEF Admitted, SameMessage
        <3> HIDE DEF old
        <3> QED BY <1>2, <2>2, <3>1 DEF Messages
    <2>4. Advanced(old, os, {}, w)
        <3> HIDE DEF old
        <3> QED BY <1>2, <2>1, <2>2, AdmittedAdvance
    <2>5. e1 = SetMessages(d, i, os, d.contexts[i].msg_count12)
        BY <1>2, JustMessages
    <2> HIDE DEF e1
    <2>6. SoundBut(e1, w, i, {}) /\ Frame(d, e1)
        BY <2>3, <2>4, <2>5, AdvanceOk
    <2> QED BY <1>8, <2>6, SoundAt DEF r
<1>9. CASE r.db = _messages_remove(b, i, qos0)
    <2>1. \A k \in DOMAIN old : Admitted(old, k, ns[k])
        <3>1. \A k \in DOMAIN old : ns[k] = written(ms[k])
            BY <1>3
        <3> HIDE DEF ns
        <3>2. \A k \in DOMAIN old : SameMessage(ms[k], ns[k]) /\ (ms[k].state = "queued" => ns[k].state = "queued")
            BY <1>5, <3>1, WrittenOk
        <3> HIDE DEF old
        <3> QED BY <1>3, <3>2 DEF Admitted, SameMessage
    <2>2. DOMAIN ns = DOMAIN old /\ ns = [k \in 1..Len(old) |-> ns[k]]
        BY <1>2, <1>3
    <2> HIDE DEF ns
    <2>3. ns \in Messages
        <3>1. \A k \in 1..Len(old) : ns[k] \in MessageType
            BY <1>2, <2>1 DEF Admitted, SameMessage
        <3> HIDE DEF old
        <3> QED BY <1>2, <2>2, <3>1 DEF Messages
    <2>4. Advanced(old, ns, qos0, w)
        <3> HIDE DEF old, qos0
        <3> QED BY <1>2, <2>1, <2>2, AdmittedAdvance
    <2>5. b = SetMessages(a, i, ns, a.contexts[i].msg_count12)
        BY <1>6, <1>7, JustMessages DEF SoundBut
    <2>6. qos0 \subseteq DOMAIN ns
        BY <1>3, <2>2
    <2> HIDE DEF b, qos0
    <2>7. SoundBut(b, w, i, qos0) /\ Frame(a, b) /\ b.contexts[i].msgs = ns
        <3>1. Sound(a, w) /\ a.contexts[i] # NULL
            BY <1>6, <1>7 DEF Sound
        <3>2. Advanced(a.contexts[i].msgs, ns, qos0, w)
            BY <1>7, <2>4
        <3> QED BY <2>3, <2>5, <3>1, <3>2, AdvanceOk
    <2>8. b.contexts[i] # NULL
        BY <1>7, <2>7 DEF Frame, SamePerson
    <2> DEFINE c == _messages_remove(b, i, qos0)
    <2>9. Sound(c, w) /\ Frame(b, c)
        BY <2>6, <2>7, <2>8, MessagesRemoveOk
    <2> HIDE DEF c
    <2>10. Frame(d, c)
        BY <1>6, <2>7, <2>9, FrameTransitive
    <2> QED BY <1>9, <2>9, <2>10 DEF c, r
<1> QED BY <1>1, <1>8, <1>9

-----------------------------------------------------------------------------
(* Retrying.                                                               *)

\* Context i of the changed database gets other messages.
LEMMA PlaceOk ==
    ASSUME NEW d, Typed(d), NEW a, AlikeDb(d, a), Frame(d, a), NEW i \in Slots, d.contexts[i] # NULL,
           NEW ns \in Messages, Alike(d.contexts[i].msgs, ns)
    PROVE  /\ AlikeDb(d, [a EXCEPT !.contexts[i].msgs = ns])
           /\ Frame(d, [a EXCEPT !.contexts[i].msgs = ns])
<1> DEFINE e == [a EXCEPT !.contexts[i].msgs = ns]
           c == a.contexts[i]
           f == [c EXCEPT !.msgs = ns]
<1>1. c \in ContextType /\ c.msg_count12 = d.contexts[i].msg_count12 /\ SamePerson(d.contexts[i], c)
    BY DEF AlikeDb, AlikeContexts, Frame
<1>2. f \in ContextType /\ f.msgs = ns /\ f.msg_count12 = c.msg_count12 /\ SamePerson(c, f)
    <2> DEFINE g == WithMessages(c, ns, c.msg_count12)
    <2>1. c.msg_count12 \in Int
        BY <1>1 DEF ContextType
    <2>2. f = g
        BY <1>1 DEF WithMessages, ContextType
    <2> HIDE DEF c, f
    <2> QED BY <1>1, <2>1, <2>2, WithMessagesType
<1>3. /\ e.store = a.store /\ e.subs = a.subs /\ e.last_db_id = a.last_db_id /\ e.config = a.config
      /\ e.cih = a.cih /\ e.acl_list = a.acl_list /\ DOMAIN e = DbFields
      /\ e.contexts = [a.contexts EXCEPT ![i] = f]
    BY DEF AlikeDb, DbFields
<1>4. f # NULL
    BY <1>2, NullAssumption
<1> HIDE DEF e, f
<1>5. e.contexts = [j \in Slots |-> IF j = i THEN f ELSE a.contexts[j]]
    BY <1>3 DEF AlikeDb
<1>6. \A j \in Slots : e.contexts[j] = IF j = i THEN f ELSE a.contexts[j]
    BY <1>5
<1>7. AlikeContexts(d.contexts, e.contexts)
    BY <1>1, <1>2, <1>4, <1>6 DEF AlikeDb, AlikeContexts
<1>8. AlikeDb(d, e)
    BY <1>3, <1>5, <1>7 DEF AlikeDb
<1>9. \A j \in Slots : SamePerson(d.contexts[j], e.contexts[j])
    <2>1. SamePerson(d.contexts[i], f)
        BY <1>1, <1>2 DEF SamePerson
    <2> QED BY <1>6, <2>1 DEF Frame
<1>10. Frame(d, e)
    BY <1>3, <1>9 DEF Frame, AlikeDb
<1> QED BY <1>8, <1>10 DEF e

RetryStates == {"invalid", "publish_qos1", "publish_qos2", "send_pubrec", "resend_pubrel"}

\* One message more of a context, sent again or not.
AlikeMessage(m, n) ==
    SameMessage(m, n) /\ (n.state # "queued" => m.state # "queued")

retry_step(ms, walk, m) == timeout_message(walk, m)

Retrying(ms, k, walk) ==
    k <= Len(ms) =>
      /\ walk.new_state \in RetryStates
      /\ walk.msgs \in Messages /\ Len(walk.msgs) = k
      /\ \A j \in 1..k : AlikeMessage(ms[j], walk.msgs[j])

Retrier == INSTANCE SequenceFolds WITH op <- retry_step, Inv <- Retrying

\* The induction that the theorem of Retrier assumes.
LEMMA RetrierInducts == Retrier!Induction
    BY NatInduct DEF Retrier!Induction

\* One step of the timeout check leaves a message as it was or in the state it is retried from.
LEMMA RetryMessage ==
    ASSUME NEW ns \in RetryStates, NEW m \in MessageType, NEW ms
    PROVE  LET walk == [new_state |-> ns, msgs |-> ms]
           IN /\ timeout_message(walk, m).new_state \in RetryStates
              /\ \E n \in MessageType : /\ timeout_message(walk, m).msgs = Append(ms, n)
                                        /\ AlikeMessage(m, n)
<1> DEFINE walk == [new_state |-> ns, msgs |-> ms]
           due == m.old /\ m.state # "queued"
           s == IF due /\ retry_state(m.state) # "invalid" THEN retry_state(m.state) ELSE ns
           n == IF due /\ s # "invalid" THEN [with_state(m, s) EXCEPT !.dup = TRUE] ELSE m
<1>1. retry_state(m.state) \in RetryStates
    BY DEF retry_state, RetryStates
<1>2. s \in RetryStates
    BY <1>1
<1>3. /\ timeout_message(walk, m).new_state = s
      /\ timeout_message(walk, m).msgs = Append(ms, n)
    BY DEF timeout_message
<1> HIDE DEF s
<1>4. AlikeMessage(m, n)
    <2>1. CASE due /\ s # "invalid"
        <3>1. s \in States
            BY <1>2, <2>1 DEF RetryStates, States
        <3>2. n = [with_state(m, s) EXCEPT !.dup = TRUE]
            BY <2>1
        <3> DEFINE v == with_state(m, s)
        <3>4. SameMessage(m, v)
            BY <3>1, WithState
        <3>5. v \in MessageType
            BY <3>4 DEF SameMessage
        <3> HIDE DEF v
        <3>6. /\ [v EXCEPT !.dup = TRUE] \in MessageType
              /\ [v EXCEPT !.dup = TRUE].store = v.store /\ [v EXCEPT !.dup = TRUE].qos = v.qos
              /\ [v EXCEPT !.dup = TRUE].direction = v.direction
            BY <3>5 DEF MessageType
        <3>3. SameMessage(m, n)
            BY <3>2, <3>4, <3>6 DEF SameMessage, v
        <3> QED BY <2>1, <3>3 DEF AlikeMessage
    <2>2. CASE ~(due /\ s # "invalid")
        <3>1. n = m
            BY <2>2
        <3> QED BY <3>1, StateOf DEF AlikeMessage
    <2> QED BY <2>1, <2>2
<1>5. n \in MessageType
    BY <1>4 DEF AlikeMessage, SameMessage
<1> QED BY <1>2, <1>3, <1>4, <1>5

\* The timeout check of one list leaves it like it was.
LEMMA RetryOk ==
    ASSUME NEW ms \in Messages, NEW s \in RetryStates
    PROVE  LET walk == FoldLeft(timeout_message, [new_state |-> s, msgs |-> <<>>], ms)
           IN walk.new_state \in RetryStates /\ walk.msgs \in Messages /\ Alike(ms, walk.msgs)
<1> DEFINE n == Len(ms)
           start == [new_state |-> s, msgs |-> <<>>]
           x == Retrier!Walk(ms, start, ms)
<1>1. n \in Nat /\ DOMAIN ms = 1..n /\ \A k \in 1..n : ms[k] \in MessageType
    BY MessagesType
<1>2. Retrying(ms, 0, start)
    <2>1. <<>> \in Messages /\ Len(<<>>) = 0
        BY DEF Messages
    <2> QED BY <2>1 DEF Retrying
<1>3. ASSUME NEW k \in 1..n, NEW a, Retrying(ms, k - 1, a)
      PROVE  Retrying(ms, k, retry_step(ms, a, ms[k]))
    <2> DEFINE l == k - 1
               m == ms[k]
               e == retry_step(ms, a, m)
               walk == [new_state |-> a.new_state, msgs |-> a.msgs]
    <2>1. l \in Nat /\ k = l + 1 /\ k \in Nat /\ k - 1 <= n
        BY <1>1
    <2>2. /\ a.new_state \in RetryStates /\ a.msgs \in Messages /\ Len(a.msgs) = l
          /\ \A j \in 1..l : AlikeMessage(ms[j], a.msgs[j])
        BY <1>3, <2>1 DEF Retrying
    <2>3. e.new_state = timeout_message(walk, m).new_state /\ e.msgs = timeout_message(walk, m).msgs
        BY DEF retry_step, timeout_message
    <2> HIDE DEF e, l
    <2>4. m \in MessageType
        BY <1>1
    <2>5. e.new_state \in RetryStates /\ \E new \in MessageType : e.msgs = Append(a.msgs, new) /\ AlikeMessage(m, new)
        <3> HIDE DEF m
        <3> QED BY <2>2, <2>3, <2>4, RetryMessage
    <2>6. PICK new \in MessageType : e.msgs = Append(a.msgs, new) /\ AlikeMessage(m, new)
        BY <2>5
    <2>7. /\ Append(a.msgs, new) \in Messages /\ Len(Append(a.msgs, new)) = l + 1
          /\ \A j \in 1..l : Append(a.msgs, new)[j] = a.msgs[j]
          /\ Append(a.msgs, new)[l + 1] = new
        BY <2>2, AppendMessage
    <2>8. \A j \in 1..k : j \in 1..l \/ j = k
        BY <2>1
    <2>9. \A j \in 1..k : AlikeMessage(ms[j], e.msgs[j])
        BY <2>1, <2>2, <2>6, <2>7, <2>8
    <2>10. e.msgs \in Messages /\ Len(e.msgs) = k
        BY <2>1, <2>6, <2>7
    <2> QED BY <2>5, <2>9, <2>10 DEF Retrying, e
<1> HIDE DEF n
<1>4. Retrying(ms, n, x)
    BY <1>1, <1>2, <1>3, Retrier!WalkInvariant, RetrierInducts
<1>5. x = FoldLeft(timeout_message, start, ms)
    BY DEF Retrier!Walk, Retrier!Greatest, FoldLeft, MapThenFoldSet, Max, retry_step
<1> HIDE DEF x
<1>6. /\ x.new_state \in RetryStates /\ x.msgs \in Messages /\ Len(x.msgs) = n
      /\ \A j \in 1..n : AlikeMessage(ms[j], x.msgs[j])
    <2>1. n <= Len(ms)
        BY <1>1 DEF n
    <2> QED BY <1>4, <2>1 DEF Retrying
<1>7. DOMAIN x.msgs = 1..n
    BY <1>6, MessagesType
<1>8. Alike(ms, x.msgs)
    BY <1>1, <1>6, <1>7 DEF Alike, AlikeMessage, SameMessage
<1> QED BY <1>5, <1>6, <1>8

\* Contexts are visited in the order of their slots.
SlotNumber == Cardinality(Slots)

\* The slots of the contexts array are the numbers up to SlotNumber.
LEMMA SlotsAre ==
    SlotNumber \in Nat /\ Slots = 1..SlotNumber
BY BrokerSessionsAssumption, FS_CardinalityType DEF SlotNumber

\* The walk over the contexts so far: nothing has changed but messages that have
\* been waiting.
Waited(d, k, walk) ==
    walk.new_state \in RetryStates /\ AlikeDb(d, walk.db) /\ Frame(d, walk.db)

wait_step(d, walk, i) ==
    IF d.contexts[i] = NULL THEN walk
    ELSE LET w == FoldLeft(timeout_message, [new_state |-> walk.new_state, msgs |-> <<>>],
                           d.contexts[i].msgs)
         IN [new_state |-> w.new_state, db |-> [walk.db EXCEPT !.contexts[i].msgs = w.msgs]]

Waiter == INSTANCE SequenceFolds WITH op <- wait_step, Inv <- Waited

\* The induction that the theorem of Waiter assumes.
LEMMA WaiterInducts == Waiter!Induction
    BY NatInduct DEF Waiter!Induction

\* mqtt3_db_message_timeout_check keeps the store sound and stays within the frame.
LEMMA TimeoutOk ==
    ASSUME NEW d, NEW w, Sound(d, w)
    PROVE  /\ Sound(mqtt3_db_message_timeout_check(d), w)
           /\ Frame(d, mqtt3_db_message_timeout_check(d))
<1> DEFINE n == SlotNumber
           all == [i \in DOMAIN d.contexts |-> i]
           start == [new_state |-> "invalid", db |-> d]
           x == Waiter!Walk(d, start, all)
<1>1. Typed(d) /\ SoundBut(d, w, 0, {})
    BY DEF Sound, SoundBut
<1>2. n \in Nat /\ DOMAIN d.contexts = 1..n /\ Slots = 1..n
    BY <1>1, SlotsAre DEF Typed
<1>3. DOMAIN all = 1..n /\ \A i \in 1..n : all[i] = i
    BY <1>2
<1>4. Waited(d, 0, start)
    BY <1>1, AlikeReflexive, FrameReflexive DEF Waited, RetryStates
<1>5. ASSUME NEW k \in 1..n, NEW a, Waited(d, k - 1, a)
      PROVE  Waited(d, k, wait_step(d, a, all[k]))
    <2>1. all[k] = k /\ k \in Slots
        BY <1>2, <1>3
    <2>2. a.new_state \in RetryStates /\ AlikeDb(d, a.db) /\ Frame(d, a.db)
        BY <1>5 DEF Waited
    <2>3. CASE d.contexts[k] = NULL
        <3>1. wait_step(d, a, k) = a
            BY <2>3 DEF wait_step
        <3> QED BY <2>1, <2>2, <3>1 DEF Waited
    <2>4. CASE d.contexts[k] # NULL
        <3> DEFINE v == FoldLeft(timeout_message, [new_state |-> a.new_state, msgs |-> <<>>],
                                 d.contexts[k].msgs)
                   ns == v.msgs
                   s == v.new_state
                   b == [a.db EXCEPT !.contexts[k].msgs = ns]
        <3>1. d.contexts[k].msgs \in Messages
            BY <1>1, <2>1, <2>4, MsgsOfType
        <3>2. s \in RetryStates /\ ns \in Messages /\ Alike(d.contexts[k].msgs, ns)
            BY <2>2, <3>1, RetryOk
        <3>3. wait_step(d, a, k).new_state = s /\ wait_step(d, a, k).db = b
            BY <2>4 DEF wait_step
        <3> HIDE DEF s, ns
        <3>4. AlikeDb(d, b) /\ Frame(d, b)
            BY <1>1, <2>1, <2>2, <2>4, <3>2, PlaceOk
        <3> QED BY <2>1, <3>2, <3>3, <3>4 DEF Waited
    <2> QED BY <2>3, <2>4
<1> HIDE DEF n
<1>6. Waited(d, n, x)
    <2> HIDE DEF start, all
    <2> QED BY <1>2, <1>3, <1>4, <1>5, Waiter!WalkInvariant, WaiterInducts
<1>7. mqtt3_db_message_timeout_check(d) = x.db
    BY DEF mqtt3_db_message_timeout_check, Waiter!Walk, Waiter!Greatest, FoldLeft, MapThenFoldSet, Max, wait_step
<1> HIDE DEF x
<1>8. AlikeDb(d, x.db) /\ Frame(d, x.db)
    BY <1>6 DEF Waited
<1>9. SoundBut(x.db, w, 0, {})
    BY <1>1, <1>8, SoundAlike
<1> QED BY <1>7, <1>8, <1>9 DEF Sound

\* Time goes by.
LEMMA AgedOk ==
    ASSUME NEW d, NEW w, Sound(d, w), NEW late \in BOOLEAN
    PROVE  Sound(aged_if(late, d), w) /\ Frame(d, aged_if(late, d))
<1> DEFINE e == aged_if(late, d)
<1>1. Typed(d) /\ SoundBut(d, w, 0, {})
    BY DEF Sound, SoundBut
<1>2. /\ DOMAIN e = DbFields
      /\ e.store = d.store /\ e.subs = d.subs /\ e.last_db_id = d.last_db_id
      /\ e.cih = d.cih /\ e.acl_list = d.acl_list /\ e.config = d.config
    BY <1>1 DEF aged_if, Typed, DbFields
<1>21. e.contexts = [i \in Slots |->
           IF d.contexts[i] = NULL \/ ~late THEN d.contexts[i]
           ELSE aged(d.contexts[i])]
    <2> DEFINE F == [i \in Slots |->
                       IF d.contexts[i] = NULL \/ ~late THEN d.contexts[i]
                       ELSE aged(d.contexts[i])]
    <2>1. DOMAIN d = DbFields
        BY <1>1 DEF Typed
    <2>2. e = [d EXCEPT !.contexts = F]
        BY DEF aged_if
    <2> HIDE DEF F, e
    <2>3. e.contexts = F
        BY <2>1, <2>2 DEF DbFields
    <2> QED BY <2>3 DEF F
<1> HIDE DEF e
<1>3. ASSUME NEW i \in Slots, d.contexts[i] # NULL
      PROVE  /\ e.contexts[i] \in ContextType
             /\ e.contexts[i].msg_count12 = d.contexts[i].msg_count12
             /\ Alike(d.contexts[i].msgs, e.contexts[i].msgs)
             /\ SamePerson(d.contexts[i], e.contexts[i])
    <2> DEFINE c == d.contexts[i]
               ms == c.msgs
               ns == [k \in DOMAIN ms |-> [ms[k] EXCEPT !.old = TRUE]]
               f == [c EXCEPT !.msgs = ns]
    <2>1. c \in ContextType /\ ms \in Messages /\ DOMAIN ms = 1..Len(ms) /\ Len(ms) \in Nat
        BY <1>1, <1>3, MsgsOfType, MessagesType
    <2>2. CASE ~late
        <3>1. e.contexts[i] = c
            BY <1>21, <2>2
        <3> QED BY <2>1, <3>1 DEF Alike, SamePerson
    <2>3. CASE late
        <3>1. e.contexts[i] = f
            BY <1>21, <1>3, <2>3 DEF aged
        <3>2. ASSUME NEW k \in DOMAIN ms
              PROVE  /\ ns[k] \in MessageType /\ ns[k].store = ms[k].store /\ ns[k].qos = ms[k].qos
                     /\ ns[k].direction = ms[k].direction /\ ns[k].state = ms[k].state
            <4> DEFINE m == ms[k]
            <4>1. m \in MessageType
                BY <2>1, MessagesType
            <4>2. ns[k] = [m EXCEPT !.old = TRUE]
                OBVIOUS
            <4> HIDE DEF m, ns
            <4>3. /\ ns[k] \in MessageType /\ ns[k].store = m.store /\ ns[k].qos = m.qos
                  /\ ns[k].direction = m.direction /\ ns[k].state = m.state
                BY <4>1, <4>2 DEF MessageType
            <4> QED BY <4>3 DEF m
        <3>3. DOMAIN ns = DOMAIN ms /\ ns = [k \in 1..Len(ms) |-> ns[k]]
            BY <2>1
        <3> HIDE DEF ns
        <3>4. ns \in Messages
            <4>1. \A k \in 1..Len(ms) : ns[k] \in MessageType
                BY <2>1, <3>2
            <4> HIDE DEF ms
            <4> QED BY <2>1, <3>3, <4>1 DEF Messages
        <3>5. Alike(ms, ns)
            BY <3>2, <3>3 DEF Alike
        <3>6. c.msg_count12 \in Int
            BY <2>1 DEF ContextType
        <3>7. f = WithMessages(c, ns, c.msg_count12)
            BY <2>1 DEF WithMessages, ContextType
        <3> HIDE DEF c, f
        <3>9. c \in ContextType
            BY <2>1 DEF c
        <3>8. f \in ContextType /\ f.msgs = ns /\ f.msg_count12 = c.msg_count12 /\ SamePerson(c, f)
            BY <3>4, <3>6, <3>7, <3>9, WithMessagesType
        <3> QED BY <3>1, <3>5, <3>8 DEF c
    <2> QED BY <2>2, <2>3
<1>4. \A i \in Slots : d.contexts[i] = NULL => e.contexts[i] = NULL
    BY <1>21
<1>5. \A i \in Slots : d.contexts[i] # NULL => e.contexts[i] # NULL
    BY <1>3, NullAssumption
<1>6. DOMAIN e.contexts = Slots /\ e.contexts = [j \in Slots |-> e.contexts[j]]
    BY <1>21
<1>7. AlikeDb(d, e)
    BY <1>1, <1>2, <1>3, <1>4, <1>5, <1>6 DEF AlikeDb, AlikeContexts, Typed
<1>8. Frame(d, e)
    <2>1. \A i \in Slots : SamePerson(d.contexts[i], e.contexts[i])
        BY <1>3, <1>4 DEF SamePerson
    <2> QED BY <1>2, <2>1 DEF Frame
<1>9. SoundBut(e, w, 0, {})
    BY <1>1, <1>7, SoundAlike
<1> QED BY <1>8, <1>9 DEF Sound, e

-----------------------------------------------------------------------------
(* The store and the tree.                                                 *)

\* What points to a body, when neither contexts nor tree change.
LEMMA HeldType ==
    ASSUME NEW d, Typed(d), NEW s
    PROVE  /\ Cardinality(pairs(d.contexts, s)) \in Nat /\ Cardinality(rets(d.subs, s)) \in Nat
           /\ IsFiniteSet(pairs(d.contexts, s)) /\ IsFiniteSet(rets(d.subs, s))
           /\ held(d, s) \in Nat
<1>1. \A j \in Slots : msgsOf(d.contexts, j) \in Messages
    BY MsgsOfType
<1>2. IsFiniteSet(pairs(d.contexts, s)) /\ Cardinality(pairs(d.contexts, s)) \in Nat
    <2>1. CASE Slots = {}
        <3>1. \A m : m \notin pairs(d.contexts, s)
            BY <2>1 DEF pairs
        <3>2. pairs(d.contexts, s) = {}
            BY <3>1
        <3> QED BY <3>2, FS_EmptySet
    <2>2. CASE Slots # {}
        <3>1. PICK i \in Slots : TRUE
            BY <2>2
        <3> QED BY <1>1, PairCount
    <2> QED BY <2>1, <2>2
<1> QED BY <1>2, RetsFinite DEF held

\* A body to which nothing points.
LEMMA HeldNone ==
    ASSUME NEW d, Typed(d), NEW s,
           \A j \in Slots : \A k \in DOMAIN msgsOf(d.contexts, j) : msgsOf(d.contexts, j)[k].store # s,
           \A p \in DOMAIN d.subs : d.subs[p].retained # s
    PROVE  held(d, s) = 0
<1>1. \A m : m \notin pairs(d.contexts, s)
    BY DEF pairs
<1>2. \A p : p \notin rets(d.subs, s)
    BY DEF rets
<1>3. pairs(d.contexts, s) = {} /\ rets(d.subs, s) = {}
    BY <1>1, <1>2
<1>4. Cardinality({}) = 0
    BY FS_EmptySet
<1> QED BY <1>3, <1>4 DEF held

\* Nothing points to a body that is not held.
LEMMA HeldZero ==
    ASSUME NEW d, Typed(d), NEW s, held(d, s) = 0
    PROVE  /\ \A j \in Slots : \A k \in DOMAIN msgsOf(d.contexts, j) : msgsOf(d.contexts, j)[k].store # s
           /\ \A p \in DOMAIN d.subs : d.subs[p].retained # s
<1>1. Cardinality(pairs(d.contexts, s)) = 0 /\ Cardinality(rets(d.subs, s)) = 0
    <2> DEFINE x == Cardinality(pairs(d.contexts, s))
               y == Cardinality(rets(d.subs, s))
    <2>1. x \in Nat /\ y \in Nat /\ x + y = 0
        BY HeldType DEF held
    <2> HIDE DEF x, y
    <2>2. x = 0 /\ y = 0
        BY <2>1
    <2> QED BY <2>2 DEF x, y
<1>2. pairs(d.contexts, s) = {} /\ rets(d.subs, s) = {}
    BY <1>1, HeldType, FS_EmptySet
<1>3. ASSUME NEW j \in Slots, NEW k \in DOMAIN msgsOf(d.contexts, j), msgsOf(d.contexts, j)[k].store = s
      PROVE  FALSE
    <2>1. <<j, k>> \in pairs(d.contexts, s)
        BY <1>3 DEF pairs
    <2> QED BY <1>2, <2>1
<1> QED BY <1>2, <1>3 DEF rets

\* The body with the last number has that topic.
Newest(d, topic) == d.last_db_id \in DOMAIN d.store /\ d.store[d.last_db_id].topic = topic

\* Database e comes from d, and bodies are stored, with payloads in P.
Safe(d, e, w, P) == Sound(e, w) /\ Stored(d, e, P)

\* A new body, which nothing points to.
LEMMA StoreOk ==
    ASSUME NEW d, NEW w, Sound(d, w), NEW source, NEW mid, NEW topic \in Name, NEW qos \in 0..2,
           NEW P, NEW payload, payload \in P, NEW retain
    PROVE  /\ Safe(d, mqtt3_db_message_store(d, source, mid, topic, qos, payload, retain), w, P)
           /\ Newest(mqtt3_db_message_store(d, source, mid, topic, qos, payload, retain), topic)
           /\ mqtt3_db_message_store(d, source, mid, topic, qos, payload, retain).contexts = d.contexts
           /\ mqtt3_db_message_store(d, source, mid, topic, qos, payload, retain).subs = d.subs
<1> DEFINE s == d.last_db_id + 1
           body == [source_id |-> source, source_mid |-> mid, topic |-> topic,
                    qos |-> qos, payload |-> payload, retain |-> retain,
                    ref_count |-> 0, dest_ids |-> {}]
           e == mqtt3_db_message_store(d, source, mid, topic, qos, payload, retain)
<1>0. /\ Typed(d) /\ Pointed(d) /\ Counts(d, w) /\ AtTopics(d, w) /\ Flights(d, w, 0, {})
      /\ DOMAIN d = DbFields /\ d.last_db_id \in Nat
    BY DEF Sound, SoundBut, Typed
<1>1. Body(body) /\ body.topic = topic /\ body.ref_count = 0 /\ body.payload = payload
    BY DEF Body, BodyFields
<1>2. /\ e.contexts = d.contexts /\ e.subs = d.subs /\ e.last_db_id = s /\ e.config = d.config
      /\ e.cih = d.cih /\ e.acl_list = d.acl_list /\ DOMAIN e = DbFields
    BY <1>0 DEF mqtt3_db_message_store, DbFields
<1>3. e.store = [t \in DOMAIN d.store \cup {s} |-> IF t = s THEN body ELSE d.store[t]]
    BY <1>0 DEF mqtt3_db_message_store, DbFields
<1> HIDE DEF e, body
<1>4. s \notin DOMAIN d.store /\ s # NoBody /\ s \in Nat /\ s \in 1..s
    BY <1>0 DEF Typed, NoBody
<1>5. DOMAIN e.store = DOMAIN d.store \cup {s} /\ e.store[s] = body
    BY <1>3
<1>6. \A t \in DOMAIN d.store : t # s /\ e.store[t] = d.store[t] /\ t \in DOMAIN e.store
    BY <1>3, <1>4
<1>7. Typed(e)
    <2>1. \A t \in DOMAIN e.store : t \in 1..s /\ Body(e.store[t])
        <3>1. \A t \in DOMAIN d.store : t \in 1..d.last_db_id /\ Body(d.store[t])
            BY <1>0 DEF Typed
        <3>2. \A t \in 1..d.last_db_id : t \in 1..s
            BY <1>0
        <3> QED BY <1>1, <1>4, <1>5, <1>6, <3>1, <3>2
    <2> HIDE DEF s
    <2> QED BY <1>0, <1>2, <1>4, <2>1 DEF Typed
<1>8. Pointed(e)
    BY <1>0, <1>2, <1>5 DEF Pointed
<1>9. Counts(e, w)
    <2>1. \A t : held(e, t) = held(d, t)
        BY <1>2 DEF held
    <2>2. held(d, s) = 0
        <3> HIDE DEF s
        <3> QED BY <1>0, <1>4, HeldNone DEF Pointed
    <2> HIDE DEF s
    <2> QED BY <1>0, <1>1, <1>5, <1>6, <2>1, <2>2 DEF Counts
<1>10. AtTopics(e, w)
    BY <1>0, <1>2, <1>6 DEF AtTopics, Pointed
<1>11. Flights(e, w, 0, {})
    BY <1>0, <1>2 DEF Flights
<1>12. Stored(d, e, P)
    <2>1. \A t \in DOMAIN e.store \ DOMAIN d.store : e.store[t].payload \in P
        BY <1>1, <1>5
    <2> QED BY <1>2, <1>5, <1>6, <2>1 DEF Stored, SamePerson
<1>13. Sound(e, w)
    BY <1>7, <1>8, <1>9, <1>10, <1>11 DEF Sound, SoundBut
<1>14. e.last_db_id \in DOMAIN e.store /\ e.store[e.last_db_id].topic = topic
    BY <1>1, <1>2, <1>5
<1> QED BY <1>2, <1>12, <1>13, <1>14 DEF e, Safe, Newest

\* Bodies that nothing counts go.
LEMMA StoreCleanOk ==
    ASSUME NEW d, NEW w, Sound(d, w)
    PROVE  LET e == mqtt3_db_store_clean(d)
           IN /\ Sound(e, w) /\ e.contexts = d.contexts /\ e.subs = d.subs
              /\ e.cih = d.cih /\ e.acl_list = d.acl_list /\ e.config = d.config
              /\ e.broken = d.broken /\ e.out = d.out
              /\ DOMAIN e.store \subseteq DOMAIN d.store
              /\ \A s \in DOMAIN e.store : e.store[s] = d.store[s]
<1> DEFINE kept == {s \in DOMAIN d.store : d.store[s].ref_count # 0}
           e == mqtt3_db_store_clean(d)
<1>0. /\ Typed(d) /\ Pointed(d) /\ Counts(d, w) /\ AtTopics(d, w) /\ Flights(d, w, 0, {})
      /\ DOMAIN d = DbFields
    BY DEF Sound, SoundBut, Typed
<1>1. e = [d EXCEPT !.store = [s \in kept |-> d.store[s]]]
    BY DEF mqtt3_db_store_clean
<1> HIDE DEF e, kept
<1>2. /\ e.contexts = d.contexts /\ e.subs = d.subs /\ e.last_db_id = d.last_db_id
      /\ e.config = d.config /\ e.broken = d.broken /\ e.out = d.out
      /\ e.cih = d.cih /\ e.acl_list = d.acl_list /\ DOMAIN e = DbFields
      /\ e.store = [s \in kept |-> d.store[s]]
    BY <1>0, <1>1 DEF DbFields
<1>3. DOMAIN e.store = kept /\ \A s \in kept : e.store[s] = d.store[s] /\ s \in DOMAIN d.store
    BY <1>2 DEF kept
<1>4. ASSUME NEW s \in DOMAIN d.store, s \notin kept
      PROVE  held(d, s) = 0
    <2> DEFINE h == held(d, s)
    <2>1. d.store[s].ref_count = 0
        BY <1>4 DEF kept
    <2>2. h \in Nat /\ 0 >= h
        BY <1>0, <2>1, HeldType DEF Counts
    <2> HIDE DEF h
    <2> QED BY <2>2 DEF h
<1>5. Typed(e)
    BY <1>0, <1>2, <1>3 DEF Typed
<1>6. Pointed(e)
    <2>1. ASSUME NEW j \in Slots, NEW k \in DOMAIN msgsOf(d.contexts, j)
          PROVE  msgsOf(d.contexts, j)[k].store \in kept
        BY <1>0, <1>4, HeldZero DEF Pointed
    <2>2. ASSUME NEW p \in DOMAIN d.subs
          PROVE  d.subs[p].retained \in kept \cup {NoBody}
        BY <1>0, <1>4, HeldZero DEF Pointed
    <2> QED BY <1>2, <1>3, <2>1, <2>2 DEF Pointed
<1>7. Counts(e, w)
    <2>1. \A t : held(e, t) = held(d, t)
        BY <1>2 DEF held
    <2> QED BY <1>0, <1>3, <2>1 DEF Counts
<1>8. AtTopics(e, w)
    BY <1>0, <1>2, <1>3, <1>6 DEF AtTopics, Pointed
<1>9. Flights(e, w, 0, {})
    BY <1>0, <1>2 DEF Flights
<1>10. Sound(e, w)
    BY <1>5, <1>6, <1>7, <1>8, <1>9 DEF Sound, SoundBut
<1>11. DOMAIN e.store \subseteq DOMAIN d.store /\ \A s \in DOMAIN e.store : e.store[s] = d.store[s]
    BY <1>3
<1> QED BY <1>2, <1>10, <1>11 DEF e

WithSubs(d, t) == [d EXCEPT !.subs = t]

\* A tree in which less is retained; nothing less, unless a root was new.
LEMMA SubsOk ==
    ASSUME NEW d, NEW w, Sound(d, w), NEW t, TreeOk(t, Chars, Slots), RetainedOf(d.subs, t),
           "root" \notin w => RetainedOf(t, d.subs),
           \A i \in Members(t) : d.contexts[i] # NULL
    PROVE  /\ Sound(WithSubs(d, t), w)
           /\ Members(t) \subseteq Members(d.subs) => Frame(d, WithSubs(d, t))
           /\ WithSubs(d, t).subs = t /\ WithSubs(d, t).contexts = d.contexts
           /\ WithSubs(d, t).store = d.store
           /\ WithSubs(d, t).cih = d.cih /\ WithSubs(d, t).acl_list = d.acl_list
           /\ WithSubs(d, t).config = d.config
           /\ WithSubs(d, t).last_db_id = d.last_db_id
<1> DEFINE e == WithSubs(d, t)
<1>0. /\ Typed(d) /\ Pointed(d) /\ Counts(d, w) /\ AtTopics(d, w) /\ Flights(d, w, 0, {})
      /\ DOMAIN d = DbFields
    BY DEF Sound, SoundBut, Typed
<1>1. /\ e.subs = t /\ e.contexts = d.contexts /\ e.store = d.store /\ e.last_db_id = d.last_db_id
      /\ e.cih = d.cih /\ e.acl_list = d.acl_list /\ e.config = d.config /\ DOMAIN e = DbFields
    BY <1>0 DEF WithSubs, DbFields
<1> HIDE DEF e
<1>2. Typed(e)
    BY <1>0, <1>1 DEF Typed
<1>3. Pointed(e)
    BY <1>0, <1>1 DEF Pointed, RetainedOf
<1>4. Counts(e, w)
    <2>1. ASSUME NEW s \in DOMAIN d.store
          PROVE  /\ d.store[s].ref_count >= held(e, s)
                 /\ "root" \notin w => d.store[s].ref_count = held(e, s)
        <3> DEFINE x == Cardinality(pairs(d.contexts, s))
                   y == Cardinality(rets(d.subs, s))
                   z == Cardinality(rets(t, s))
                   r == d.store[s].ref_count
        <3>1. s # NoBody
            BY <1>0 DEF Typed, NoBody
        <3>2. rets(t, s) \subseteq rets(d.subs, s)
            BY <3>1 DEF rets, RetainedOf
        <3>3. "root" \notin w => rets(t, s) = rets(d.subs, s)
            <4>1. "root" \notin w => rets(d.subs, s) \subseteq rets(t, s)
                BY <3>1 DEF rets, RetainedOf
            <4> QED BY <3>2, <4>1
        <3>4. x \in Nat /\ y \in Nat /\ z \in Nat /\ z <= y
            BY <1>0, <3>2, HeldType, FS_Subset, FS_CardinalityType
        <3>5. "root" \notin w => z = y
            BY <3>3
        <3>6. r \in Int /\ r >= x + y /\ ("root" \notin w => r = x + y)
            BY <1>0 DEF Counts, held, Typed, Body
        <3>7. held(e, s) = x + z
            BY <1>1 DEF held
        <3> HIDE DEF x, y, z, r
        <3>8. r >= x + z /\ ("root" \notin w => r = x + z)
            BY <3>4, <3>5, <3>6
        <3> QED BY <3>7, <3>8 DEF r
    <2> QED BY <1>1, <2>1 DEF Counts
<1>5. AtTopics(e, w)
    BY <1>0, <1>1 DEF AtTopics, RetainedOf
<1>6. Flights(e, w, 0, {})
    BY <1>0, <1>1 DEF Flights
<1>7. Members(t) \subseteq Members(d.subs) => Frame(d, e)
    BY <1>1 DEF Frame, SamePerson
<1>8. Sound(e, w)
    BY <1>2, <1>3, <1>4, <1>5, <1>6 DEF Sound, SoundBut
<1> QED BY <1>1, <1>7, <1>8 DEF e

\* Database e is d with r retained at a node; the bodies count it.
Retains(d, e, node, r) ==
    /\ DOMAIN e = DbFields
    /\ e.contexts = d.contexts /\ e.last_db_id = d.last_db_id
    /\ e.cih = d.cih /\ e.acl_list = d.acl_list /\ e.config = d.config
    /\ e.subs = [d.subs EXCEPT ![node].retained = r]
    /\ DOMAIN e.store = DOMAIN d.store
    /\ \A s \in DOMAIN d.store :
         /\ Body(e.store[s])
         /\ e.store[s].topic = d.store[s].topic /\ e.store[s].payload = d.store[s].payload
         /\ e.store[s].ref_count =
              d.store[s].ref_count - (IF d.subs[node].retained = s THEN 1 ELSE 0)
                                   + (IF r = s THEN 1 ELSE 0)

\* The nodes where a body is retained after that.
Moved(d, e, node, r, s) ==
    Cardinality(rets(e.subs, s)) = Cardinality(rets(d.subs, s))
      - (IF d.subs[node].retained = s THEN 1 ELSE 0) + (IF r = s THEN 1 ELSE 0)

\* Replacing the retained message of one node moves one reference to the new body.
LEMMA RetsChange ==
    ASSUME NEW d, Typed(d), NEW node \in DOMAIN d.subs, NEW r, NEW s,
           NEW e, Retains(d, e, node, r)
    PROVE  Moved(d, e, node, r, s)
<1> DEFINE A == rets(d.subs, s)
           R == A \ {node}
           t == e.subs
           B == rets(t, s)
           x == Cardinality(A)
           y == Cardinality(R)
<1>1. DOMAIN t = DOMAIN d.subs /\ \A p \in DOMAIN t : t[p].retained = IF p = node THEN r ELSE d.subs[p].retained
    <2>1. \A p \in DOMAIN d.subs : d.subs[p] \in Node(Chars, Slots)
        BY DEF Typed, TreeOk
    <2> QED BY <2>1 DEF Node, Retains
<1>2. IsFiniteSet(A) /\ x \in Nat
    BY RetsFinite
<1>3. IsFiniteSet(R) /\ y = IF node \in A THEN x - 1 ELSE x
    <2> HIDE DEF A
    <2> QED BY <1>2, FS_RemoveElement
<1>4. node \in A <=> d.subs[node].retained = s
    BY DEF rets
<1>5. B = IF r = s THEN R \cup {node} ELSE R
    <2>1. \A p : p \in B <=> p \in DOMAIN d.subs /\ (IF p = node THEN r ELSE d.subs[p].retained) = s
        BY <1>1 DEF rets
    <2>2. \A p : p \in R <=> p \in DOMAIN d.subs /\ d.subs[p].retained = s /\ p # node
        BY DEF rets
    <2> HIDE DEF B, R
    <2> QED BY <2>1, <2>2
<1>6. Cardinality(R \cup {node}) = y + 1
    <2>1. node \notin R
        OBVIOUS
    <2> HIDE DEF R
    <2> QED BY <1>3, <2>1, FS_AddElement
<1>7. Cardinality(B) = IF r = s THEN y + 1 ELSE y
    BY <1>5, <1>6
<1> HIDE DEF A, R, B, x, y
<1>8. Cardinality(B) = x - (IF d.subs[node].retained = s THEN 1 ELSE 0) + (IF r = s THEN 1 ELSE 0)
    BY <1>2, <1>3, <1>4, <1>7
<1> QED BY <1>8 DEF B, x, A, Moved

\* Setting or clearing the retained message of a node, its references moved, keeps the broker
\* sound.
LEMMA RetainsOk ==
    ASSUME NEW d, NEW w, Sound(d, w), NEW node \in DOMAIN d.subs,
           NEW r \in DOMAIN d.store \cup {NoBody},
           r # NoBody /\ "reuse" \notin w => node_path(_sub_topic_tokenise(d.store[r].topic)) = node,
           NEW e, Retains(d, e, node, r)
    PROVE  Sound(e, w) /\ Frame(d, e) /\ DOMAIN e.subs = DOMAIN d.subs /\ e.contexts = d.contexts
<1>0. /\ Typed(d) /\ Pointed(d) /\ Counts(d, w) /\ AtTopics(d, w) /\ Flights(d, w, 0, {})
    BY DEF Sound, SoundBut
<1>1. /\ DOMAIN e.subs = DOMAIN d.subs
      /\ \A p \in DOMAIN d.subs : /\ e.subs[p].retained = (IF p = node THEN r ELSE d.subs[p].retained)
                                  /\ e.subs[p].subs = d.subs[p].subs /\ e.subs[p].kids = d.subs[p].kids
                                  /\ e.subs[p] \in Node(Chars, Slots)
    <2>1. \A p \in DOMAIN d.subs : d.subs[p] \in Node(Chars, Slots)
        BY <1>0 DEF Typed, TreeOk
    <2>2. r \in Nat
        BY <1>0 DEF Typed, NoBody
    <2>3. e.subs = [d.subs EXCEPT ![node].retained = r]
        BY DEF Retains
    <2>4. DOMAIN e.subs = DOMAIN d.subs
        BY <2>3
    <2>5. ASSUME NEW p \in DOMAIN d.subs
          PROVE  /\ e.subs[p].retained = (IF p = node THEN r ELSE d.subs[p].retained)
                 /\ e.subs[p].subs = d.subs[p].subs /\ e.subs[p].kids = d.subs[p].kids
                 /\ e.subs[p] \in Node(Chars, Slots)
        <3>1. CASE p = node
            <4> DEFINE o == d.subs[node]
            <4>1. e.subs[p] = [o EXCEPT !.retained = r] /\ o \in Node(Chars, Slots)
                BY <2>1, <2>3, <3>1
            <4> HIDE DEF o
            <4>2. [o EXCEPT !.retained = r] \in Node(Chars, Slots) /\ [o EXCEPT !.retained = r].retained = r
                  /\ [o EXCEPT !.retained = r].subs = o.subs /\ [o EXCEPT !.retained = r].kids = o.kids
                BY <2>2, <4>1 DEF Node
            <4> QED BY <3>1, <4>1, <4>2 DEF o
        <3>2. CASE p # node
            <4>1. e.subs[p] = d.subs[p]
                BY <2>3, <3>2
            <4> QED BY <2>1, <3>2, <4>1
        <3> QED BY <3>1, <3>2
    <2> QED BY <2>4, <2>5
<1>2. TreeOk(e.subs, Chars, Slots)
    BY <1>0, <1>1 DEF TreeOk, Typed
<1>3. Members(e.subs) = Members(d.subs)
    BY <1>1 DEF Members
<1>4. Typed(e)
    BY <1>0, <1>2, <1>3 DEF Typed, Retains
<1>5. Pointed(e)
    BY <1>0, <1>1 DEF Pointed, Retains
<1>6. Counts(e, w)
    <2>1. ASSUME NEW s \in DOMAIN d.store
          PROVE  /\ e.store[s].ref_count >= held(e, s)
                 /\ "root" \notin w => e.store[s].ref_count = held(e, s)
        <3> DEFINE x == Cardinality(pairs(d.contexts, s))
                   y == Cardinality(rets(d.subs, s))
                   z == Cardinality(rets(e.subs, s))
                   f == d.store[s].ref_count
                   g == e.store[s].ref_count
                   u == IF d.subs[node].retained = s THEN 1 ELSE 0
                   v == IF r = s THEN 1 ELSE 0
        <3>1. z = y - u + v
            <4>1. Moved(d, e, node, r, s)
                BY <1>0, RetsChange
            <4> QED BY <4>1 DEF Moved
        <3>2. x \in Nat /\ y \in Nat /\ u \in 0..1 /\ v \in 0..1
            BY <1>0, HeldType
        <3>3. f \in Int /\ f >= x + y /\ ("root" \notin w => f = x + y)
            BY <1>0 DEF Counts, held, Typed, Body
        <3>4. g = f - u + v
            BY DEF Retains
        <3>5. held(e, s) = x + z
            BY DEF held, Retains
        <3> HIDE DEF x, y, z, f, g, u, v
        <3>6. g >= x + z /\ ("root" \notin w => g = x + z)
            BY <3>1, <3>2, <3>3, <3>4
        <3> QED BY <3>5, <3>6 DEF g
    <2> QED BY <2>1 DEF Counts, Retains
<1>7. AtTopics(e, w)
    <2>1. \A s \in DOMAIN d.store : e.store[s].topic = d.store[s].topic
        BY DEF Retains
    <2> QED BY <1>0, <1>1, <2>1 DEF AtTopics, Pointed
<1>8. Flights(e, w, 0, {})
    BY <1>0 DEF Flights, Retains
<1>9. Frame(d, e)
    BY <1>3 DEF Frame, SamePerson, Retains
<1>10. e.contexts = d.contexts
    BY DEF Retains
<1> QED BY <1>1, <1>4, <1>5, <1>6, <1>7, <1>8, <1>9, <1>10 DEF Sound, SoundBut

\* _subs_process's handling of the retained message of a node keeps the broker sound.
LEMMA RetainAtOk ==
    ASSUME NEW d, NEW w, Sound(d, w), NEW node \in DOMAIN d.subs, NEW s \in DOMAIN d.store,
           "reuse" \notin w => node_path(_sub_topic_tokenise(d.store[s].topic)) = node
    PROVE  /\ Sound(retain_at(d, node, s), w) /\ Frame(d, retain_at(d, node, s))
           /\ DOMAIN retain_at(d, node, s).subs = DOMAIN d.subs
           /\ retain_at(d, node, s).contexts = d.contexts
<1> DEFINE old == d.subs[node].retained
           a == IF old = NoBody THEN d ELSE unref(d, old)
           e1 == [a EXCEPT !.subs[node].retained = NoBody]
           e2 == [a EXCEPT !.subs[node].retained = s, !.store[s].ref_count = @ + 1]
           e == retain_at(d, node, s)
<1>1. e = e1 \/ e = e2
    BY DEF retain_at
<1>2. Typed(d) /\ Pointed(d) /\ DOMAIN d = DbFields
    BY DEF Sound, SoundBut, Typed
<1>3. \A x \in DOMAIN d.store : Body(d.store[x]) /\ x # NoBody
    BY <1>2 DEF Typed, NoBody
<1>4. old \in DOMAIN d.store \cup {NoBody}
    BY <1>2 DEF Pointed
<1>5. /\ DOMAIN a = DbFields
      /\ a.contexts = d.contexts /\ a.last_db_id = d.last_db_id
      /\ a.cih = d.cih /\ a.acl_list = d.acl_list /\ a.config = d.config /\ a.subs = d.subs
      /\ DOMAIN a.store = DOMAIN d.store
      /\ \A x \in DOMAIN d.store :
           /\ Body(a.store[x])
           /\ a.store[x].topic = d.store[x].topic /\ a.store[x].payload = d.store[x].payload
           /\ a.store[x].ref_count = d.store[x].ref_count - (IF old = x THEN 1 ELSE 0)
    <2>1. CASE old = NoBody
        <3>1. a = d
            BY <2>1
        <3> HIDE DEF a, old
        <3>2. \A x \in DOMAIN d.store : d.store[x].ref_count \in Int
            BY <1>3 DEF Body
        <3>3. \A x \in DOMAIN d.store : d.store[x].ref_count = d.store[x].ref_count - (IF old = x THEN 1 ELSE 0)
            BY <1>3, <2>1, <3>2
        <3> QED BY <1>2, <1>3, <3>1, <3>3
    <2>2. CASE old # NoBody
        <3>1. a = [d EXCEPT !.store[old].ref_count = @ - 1] /\ old \in DOMAIN d.store
            BY <1>4, <2>2 DEF unref
        <3> HIDE DEF a, old
        <3>2. /\ a.contexts = d.contexts /\ a.last_db_id = d.last_db_id
              /\ a.cih = d.cih /\ a.acl_list = d.acl_list /\ a.config = d.config /\ a.subs = d.subs
              /\ DOMAIN a = DbFields
              /\ a.store = [d.store EXCEPT ![old] = [d.store[old] EXCEPT !.ref_count = @ - 1]]
            BY <1>2, <3>1 DEF DbFields
        <3> DEFINE b == d.store[old]
                   b2 == [b EXCEPT !.ref_count = @ - 1]
        <3>3. Body(b)
            BY <1>3, <3>1
        <3>4. Body(b2) /\ b2.ref_count = b.ref_count - 1 /\ b2.topic = b.topic /\ b2.payload = b.payload
            <4> HIDE DEF b
            <4> QED BY <3>3 DEF Body, BodyFields
        <3>5. a.store[old] = b2 /\ \A x \in DOMAIN d.store \ {old} : a.store[x] = d.store[x]
            BY <3>1, <3>2
        <3> HIDE DEF b2
        <3>6. \A x \in DOMAIN d.store : /\ Body(a.store[x])
               /\ a.store[x].topic = d.store[x].topic /\ a.store[x].payload = d.store[x].payload
            BY <1>3, <3>4, <3>5
        <3>7. ASSUME NEW x \in DOMAIN d.store
              PROVE  a.store[x].ref_count = d.store[x].ref_count - (IF old = x THEN 1 ELSE 0)
            <4>1. CASE x = old
                BY <3>4, <3>5, <4>1
            <4>2. CASE x # old
                <5> DEFINE y == d.store[x].ref_count
                <5>1. a.store[x].ref_count = y
                    BY <3>5, <4>2
                <5>2. y \in Int
                    BY <1>3 DEF Body
                <5> HIDE DEF y
                <5>3. y = y - 0
                    BY <5>2
                <5> QED BY <4>2, <5>1, <5>3 DEF y
            <4> QED BY <4>1, <4>2
        <3> QED BY <3>2, <3>6, <3>7
    <2> QED BY <2>1, <2>2
<1> HIDE DEF a, old, e
<1>6. CASE e = e1
    <2>1. /\ e.contexts = a.contexts /\ e.last_db_id = a.last_db_id
          /\ e.cih = a.cih /\ e.acl_list = a.acl_list /\ e.config = a.config /\ DOMAIN e = DbFields
          /\ e.subs = [a.subs EXCEPT ![node].retained = NoBody] /\ e.store = a.store
        BY <1>5, <1>6 DEF DbFields
    <2>2. ASSUME NEW x \in DOMAIN d.store
          PROVE  e.store[x].ref_count = d.store[x].ref_count - (IF d.subs[node].retained = x THEN 1 ELSE 0)
                                                             + (IF NoBody = x THEN 1 ELSE 0)
        <3> DEFINE y == d.store[x].ref_count - (IF old = x THEN 1 ELSE 0)
        <3>1. e.store[x].ref_count = y /\ NoBody # x
            BY <1>3, <1>5, <2>1
        <3>2. y \in Int
            BY <1>3 DEF Body
        <3>3. y = y + 0
            <4> HIDE DEF y
            <4> QED BY <3>2
        <3> QED BY <3>1, <3>3 DEF old
    <2>3. Retains(d, e, node, NoBody)
        BY <1>5, <2>1, <2>2 DEF Retains
    <2> QED BY <2>3, RetainsOk DEF e
<1>7. CASE e = e2
    <2> DEFINE b == a.store[s]
               b2 == [b EXCEPT !.ref_count = @ + 1]
    <2>1. /\ e.contexts = a.contexts /\ e.last_db_id = a.last_db_id
          /\ e.cih = a.cih /\ e.acl_list = a.acl_list /\ e.config = a.config /\ DOMAIN e = DbFields
          /\ e.subs = [a.subs EXCEPT ![node].retained = s]
          /\ e.store = [a.store EXCEPT ![s] = b2]
        BY <1>5, <1>7 DEF DbFields
    <2>2. Body(b)
        BY <1>5
    <2>3. Body(b2) /\ b2.ref_count = b.ref_count + 1 /\ b2.topic = b.topic /\ b2.payload = b.payload
        <3> HIDE DEF b
        <3> QED BY <2>2 DEF Body, BodyFields
    <2> HIDE DEF b2
    <2>4. e.store[s] = b2 /\ (\A x \in DOMAIN d.store \ {s} : e.store[x] = a.store[x]) /\ DOMAIN e.store = DOMAIN d.store
        BY <1>5, <2>1
    <2>5. \A x \in DOMAIN d.store : /\ Body(e.store[x])
               /\ e.store[x].topic = d.store[x].topic /\ e.store[x].payload = d.store[x].payload
        BY <1>5, <2>3, <2>4
    <2>6. ASSUME NEW x \in DOMAIN d.store
          PROVE  e.store[x].ref_count = d.store[x].ref_count - (IF d.subs[node].retained = x THEN 1 ELSE 0)
                                                             + (IF s = x THEN 1 ELSE 0)
        <3> DEFINE y == d.store[x].ref_count - (IF old = x THEN 1 ELSE 0)
        <3>1. a.store[x].ref_count = y
            BY <1>5
        <3>2. y \in Int
            BY <1>3 DEF Body
        <3>3. e.store[x].ref_count = IF s = x THEN y + 1 ELSE y
            BY <2>3, <2>4, <3>1
        <3> HIDE DEF y
        <3>4. e.store[x].ref_count = y + (IF s = x THEN 1 ELSE 0)
            BY <3>2, <3>3
        <3> QED BY <3>4 DEF old, y
    <2>7. Retains(d, e, node, s)
        BY <1>5, <2>1, <2>4, <2>5, <2>6 DEF Retains
    <2>8. s # NoBody /\ s \in DOMAIN d.store \cup {NoBody}
        BY <1>3
    <2> QED BY <2>7, <2>8, RetainsOk DEF e
<1> QED BY <1>1, <1>6, <1>7 DEF e

-----------------------------------------------------------------------------
(* Contexts that change, come and go.                                      *)

\* Database e is d with another context i; access lists, index and configuration
\* may differ, too.
Recasts(d, e, i, c) ==
    /\ DOMAIN e = DbFields
    /\ e.contexts = [d.contexts EXCEPT ![i] = c]
    /\ e.store = d.store /\ e.subs = d.subs /\ e.last_db_id = d.last_db_id
    /\ usable(e.config)

\* Context c with the messages of context b.
SameMessages(b, c) ==
    c \in ContextType /\ c.msgs = b.msgs /\ c.msg_count12 = b.msg_count12

\* Changing of a context what no count looks at keeps the broker sound.
LEMMA RecastOk ==
    ASSUME NEW d, NEW w, Sound(d, w), NEW i \in Slots, d.contexts[i] # NULL,
           NEW c, SameMessages(d.contexts[i], c), NEW e, Recasts(d, e, i, c)
    PROVE  /\ Sound(e, w)
           /\ e.contexts[i] = c /\ c # NULL
           /\ \A j \in Slots \ {i} : e.contexts[j] = d.contexts[j]
<1>1. Typed(d) /\ SoundBut(d, w, 0, {})
    BY DEF Sound, SoundBut
<1>2. c \in ContextType /\ c # NULL /\ c.msgs = d.contexts[i].msgs /\ c.msg_count12 = d.contexts[i].msg_count12
    BY NullAssumption DEF SameMessages
<1>3. /\ e.contexts[i] = c /\ (\A j \in Slots \ {i} : e.contexts[j] = d.contexts[j])
      /\ DOMAIN e.contexts = Slots /\ e.contexts = [j \in Slots |-> e.contexts[j]]
    <2>1. d.contexts \in [Slots -> ContextType \cup {NULL}] /\ e.contexts = [d.contexts EXCEPT ![i] = c]
        BY <1>1 DEF Typed, Recasts
    <2>2. e.contexts \in [Slots -> ContextType \cup {NULL}]
        BY <1>2, <2>1
    <2> QED BY <2>1, <2>2
<1>4. \A j \in Slots : d.contexts[j] # NULL => d.contexts[j] \in ContextType
    BY <1>1, MsgsOfType
<1>5. AlikeContexts(d.contexts, e.contexts)
    BY <1>2, <1>3, <1>4 DEF AlikeContexts, Alike
<1>6. AlikeDb(d, e)
    BY <1>3, <1>5 DEF AlikeDb, Recasts
<1>7. SoundBut(e, w, 0, {})
    BY <1>1, <1>6, SoundAlike
<1> QED BY <1>2, <1>3, <1>7 DEF Sound

\* Context e is context c as far as others can tell.
LEMMA RecastFrame ==
    ASSUME NEW d, NEW w, Sound(d, w), NEW i \in Slots, d.contexts[i] # NULL,
           NEW c, SameMessages(d.contexts[i], c), NEW e, Recasts(d, e, i, c),
           SamePerson(d.contexts[i], c),
           e.cih = d.cih /\ e.acl_list = d.acl_list /\ e.config = d.config
    PROVE  Sound(e, w) /\ Frame(d, e)
<1>1. Sound(e, w) /\ e.contexts[i] = c /\ \A j \in Slots \ {i} : e.contexts[j] = d.contexts[j]
    BY RecastOk
<1>2. \A j \in Slots : SamePerson(d.contexts[j], e.contexts[j])
    BY <1>1 DEF SamePerson
<1>3. e.store = d.store /\ e.subs = d.subs
    BY DEF Recasts
<1> QED BY <1>1, <1>2, <1>3 DEF Frame

\* A context without messages: one that is new, or about to be freed.
Blank(c) == c.msgs = <<>> /\ c.msg_count12 = 0

\* A context without messages is counted right.
LEMMA BlankOk ==
    ASSUME NEW c, Blank(c), NEW w
    PROVE  Counted(c) /\ OnTheWay(c.msgs, {}, w)
<1>1. c.msgs = <<>> /\ c.msg_count12 = 0
    BY DEF Blank
<1>2. \A k : k \notin DOMAIN c.msgs
    BY <1>1
<1>3. sel(c.msgs, <<"out">>) = {}
    BY <1>2 DEF sel
<1>4. Cardinality({}) = 0
    BY FS_EmptySet
<1>5. Counted(c)
    BY <1>1, <1>3, <1>4 DEF Counted
<1>6. OnTheWay(c.msgs, {}, w)
    BY <1>2 DEF OnTheWay
<1> QED BY <1>5, <1>6

\* The other contexts are what they were; a slot that was free or had a context
\* without messages and subscriptions gets another one, or none.
Places(d, e, i, c) ==
    /\ DOMAIN e = DbFields
    /\ e.contexts = [d.contexts EXCEPT ![i] = c]
    /\ e.store = d.store /\ e.subs = d.subs /\ e.last_db_id = d.last_db_id
    /\ e.config = d.config

\* Taking or freeing a slot whose context has neither messages nor subscriptions keeps the broker
\* sound.
LEMMA SlotOk ==
    ASSUME NEW d, NEW w, Sound(d, w), NEW i \in Slots, i \notin Members(d.subs),
           d.contexts[i] # NULL => Blank(d.contexts[i]),
           NEW c \in ContextType \cup {NULL}, c # NULL => Blank(c),
           NEW e, Places(d, e, i, c)
    PROVE  /\ Sound(e, w) /\ e.contexts[i] = c
           /\ \A j \in Slots \ {i} : e.contexts[j] = d.contexts[j]
<1>1. /\ Typed(d) /\ Pointed(d) /\ Counts(d, w) /\ AtTopics(d, w) /\ Flights(d, w, 0, {})
      /\ SoundBut(d, w, 0, {})
    BY DEF Sound, SoundBut
<1>2. /\ e.contexts[i] = c /\ (\A j \in Slots \ {i} : e.contexts[j] = d.contexts[j])
      /\ e.contexts \in [Slots -> ContextType \cup {NULL}]
    <2>1. d.contexts \in [Slots -> ContextType \cup {NULL}] /\ e.contexts = [d.contexts EXCEPT ![i] = c]
        BY <1>1 DEF Typed, Places
    <2> QED BY <2>1
<1>3. \A j \in Slots : msgsOf(e.contexts, j) = msgsOf(d.contexts, j)
    BY <1>2 DEF msgsOf, Blank
<1>4. e.store = d.store /\ e.subs = d.subs /\ e.last_db_id = d.last_db_id /\ e.config = d.config /\ DOMAIN e = DbFields
    BY DEF Places
<1>5. Typed(e)
    <2>1. \A j \in Members(e.subs) : e.contexts[j] # NULL
        <3>1. Members(e.subs) \subseteq Slots /\ Members(e.subs) = Members(d.subs)
            BY <1>4 DEF Members
        <3> QED BY <1>1, <1>2, <3>1 DEF Typed
    <2> QED BY <1>1, <1>2, <1>4, <2>1 DEF Typed
<1>6. Pointed(e)
    BY <1>1, <1>3, <1>4 DEF Pointed
<1>7. Counts(e, w)
    <2>1. \A s : pairs(e.contexts, s) = pairs(d.contexts, s)
        BY <1>3 DEF pairs
    <2>2. \A s : held(e, s) = held(d, s)
        BY <1>4, <2>1 DEF held
    <2> QED BY <1>1, <1>4, <2>2 DEF Counts
<1>8. AtTopics(e, w)
    BY <1>1, <1>4 DEF AtTopics
<1>9. Flights(e, w, 0, {})
    <2>1. ASSUME NEW j \in Slots, e.contexts[j] # NULL
          PROVE  Counted(e.contexts[j]) /\ OnTheWay(e.contexts[j].msgs, {}, w)
        <3>1. CASE j = i
            BY <1>2, <2>1, <3>1, BlankOk
        <3>2. CASE j # i
            <4>1. e.contexts[j] = d.contexts[j]
                BY <1>2, <3>2
            <4> QED BY <1>1, <2>1, <4>1 DEF Flights
        <3> QED BY <3>1, <3>2
    <2> QED BY <2>1 DEF Flights
<1> QED BY <1>2, <1>5, <1>6, <1>7, <1>8, <1>9 DEF Sound, SoundBut

-----------------------------------------------------------------------------
(* Distributing a message.                                                 *)

\* The identifier of a message for a context is its next one.
LEMMA NumberOk ==
    ASSUME NEW d, NEW w, Sound(d, w), NEW i \in Slots, d.contexts[i] # NULL, NEW mid \in Nat
    PROVE  LET e == [d EXCEPT !.contexts[i].last_mid = mid]
           IN Sound(e, w) /\ Frame(d, e) /\ e.subs = d.subs /\ e.store = d.store /\ NoneLost(d, e)
<1> DEFINE e == [d EXCEPT !.contexts[i].last_mid = mid]
           b == d.contexts[i]
           c == [b EXCEPT !.last_mid = mid]
<1>1. Typed(d) /\ DOMAIN d = DbFields /\ usable(d.config) /\ b \in ContextType
    BY MsgsOfType DEF Sound, SoundBut, Typed
<1>2. SameMessages(b, c) /\ SamePerson(b, c)
    <2>1. c \in ContextType /\ c.msgs = b.msgs /\ c.msg_count12 = b.msg_count12
        BY <1>1 DEF ContextType
    <2>2. c # NULL
        BY <2>1, NullAssumption
    <2>3. /\ c.id = b.id /\ c.sock = b.sock /\ c.state = b.state
          /\ c.clean_session = b.clean_session /\ c.will = b.will
          /\ c.acl_list = b.acl_list /\ c.listener = b.listener
        BY <1>1 DEF ContextType
    <2> HIDE DEF b, c
    <2> QED BY <2>1, <2>2, <2>3 DEF SameMessages, SamePerson, b
<1>3. Recasts(d, e, i, c) /\ e.cih = d.cih /\ e.acl_list = d.acl_list /\ e.config = d.config
    <2>1. e.contexts = [d.contexts EXCEPT ![i] = c]
        BY <1>1 DEF DbFields
    <2>2. /\ e.store = d.store /\ e.subs = d.subs /\ e.last_db_id = d.last_db_id
          /\ e.cih = d.cih /\ e.acl_list = d.acl_list /\ e.config = d.config /\ DOMAIN e = DbFields
        BY <1>1 DEF DbFields
    <2> HIDE DEF e, c
    <2> QED BY <1>1, <2>1, <2>2 DEF Recasts
<1> HIDE DEF c, e
<1>4. Sound(e, w) /\ Frame(d, e)
    BY <1>2, <1>3, RecastFrame
<1>5. e.subs = d.subs /\ e.store = d.store
    BY <1>3 DEF Recasts
<1>6. NoneLost(d, e)
    <2>1. e.contexts[i] = c /\ c # NULL /\ \A j \in Slots \ {i} : e.contexts[j] = d.contexts[j]
        BY <1>2, <1>3, RecastOk
    <2>2. c.msgs = b.msgs
        BY <1>2 DEF SameMessages
    <2> QED BY <2>1, <2>2 DEF NoneLost, msgsOf
<1> QED BY <1>4, <1>5, <1>6 DEF e

\* The next message identifier of a context is a number.
LEMMA MidOk ==
    ASSUME NEW d, Typed(d), NEW i \in Slots, d.contexts[i] # NULL
    PROVE  _mosquitto_mid_generate(d.contexts[i]) \in Nat
<1>1. d.contexts[i].last_mid \in Nat
    BY MsgsOfType DEF ContextType
<1> QED BY <1>1 DEF _mosquitto_mid_generate

\* Database e comes from d by messages that contexts get.
Queued(d, e, w) == Sound(e, w) /\ Frame(d, e) /\ e.subs = d.subs /\ NoneLost(d, e)

Inserted(d, i, mid, dir, qos, retain, s) ==
    mqtt3_db_message_insert(d, i, mid, dir, qos, retain, s).db

Live(d, i) == i \in Slots /\ d.contexts[i] # NULL

\* Nothing queued is queued soundly.
LEMMA QueuedReflexive ==
    ASSUME NEW d, NEW w, Sound(d, w)
    PROVE  Queued(d, d, w)
BY FrameReflexive DEF Queued, NoneLost

\* Two steps of queuing are one.
LEMMA QueuedTransitive ==
    ASSUME NEW d, NEW e, NEW f, NEW w, Queued(d, e, w), Queued(e, f, w)
    PROVE  Queued(d, f, w)
BY FrameTransitive DEF Queued, NoneLost

\* Queuing frees no context.
LEMMA QueuedLive ==
    ASSUME NEW d, NEW e, NEW w, Queued(d, e, w), NEW i, Live(d, i)
    PROVE  Live(e, i)
BY DEF Queued, Frame, SamePerson, Live

\* Inserting a message for a live context is a step of queuing.
LEMMA InsertedOk ==
    ASSUME NEW d, NEW w, Sound(d, w), NEW i, Live(d, i),
           NEW mid \in Nat, NEW dir \in {"in", "out"}, NEW qos \in 0..2, NEW retain \in BOOLEAN,
           NEW s \in DOMAIN d.store
    PROVE  Queued(d, Inserted(d, i, mid, dir, qos, retain, s), w)
BY InsertOk DEF Live, Queued, Inserted

\* A message of some quality for a context.
LEMMA NumberedInsertOk ==
    ASSUME NEW d, NEW w, Sound(d, w), NEW i, Live(d, i), NEW qos \in 0..2,
           NEW retain \in BOOLEAN, NEW s \in DOMAIN d.store
    PROVE  LET mid == IF qos > 0 THEN _mosquitto_mid_generate(d.contexts[i]) ELSE 0
               a == IF qos > 0 THEN [d EXCEPT !.contexts[i].last_mid = mid] ELSE d
           IN Queued(d, mqtt3_db_message_insert(a, i, mid, "out", qos, retain, s).db, w)
<1> DEFINE mid == IF qos > 0 THEN _mosquitto_mid_generate(d.contexts[i]) ELSE 0
           a == IF qos > 0 THEN [d EXCEPT !.contexts[i].last_mid = mid] ELSE d
           e == Inserted(a, i, mid, "out", qos, retain, s)
<1>1. Typed(d) /\ i \in Slots /\ d.contexts[i] # NULL
    BY DEF Sound, SoundBut, Live
<1>2. mid \in Nat
    BY <1>1, MidOk
<1> HIDE DEF mid
<1>3. Queued(d, a, w) /\ a.store = d.store
    <2>1. CASE qos > 0
        <3>1. a = [d EXCEPT !.contexts[i].last_mid = mid]
            BY <2>1
        <3> HIDE DEF a
        <3>2. Sound(a, w) /\ Frame(d, a) /\ a.subs = d.subs /\ a.store = d.store /\ NoneLost(d, a)
            BY <1>1, <1>2, <3>1, NumberOk
        <3> QED BY <3>2 DEF Queued
    <2>2. CASE ~(qos > 0)
        <3>1. a = d
            BY <2>2
        <3> HIDE DEF a
        <3> QED BY <3>1, QueuedReflexive
    <2> QED BY <2>1, <2>2
<1> HIDE DEF a
<1>4. Live(a, i) /\ Sound(a, w)
    BY <1>3, QueuedLive DEF Queued
<1>5. s \in DOMAIN a.store /\ "out" \in {"in", "out"}
    BY <1>3
<1>6. Queued(a, e, w)
    BY <1>2, <1>4, <1>5, InsertedOk
<1>7. Queued(d, e, w)
    <2> HIDE DEF e
    <2> QED BY <1>3, <1>6, QueuedTransitive
<1> QED BY <1>7 DEF e, a, mid, Inserted

\* The lower of two qos levels is a qos level.
LEMMA LowerOk ==
    ASSUME NEW a \in 0..2, NEW b \in 0..2
    PROVE  lower(a, b) \in 0..2
BY DEF lower

\* One subscription of a topic served is a step of queuing.
LEMMA DeliverOk ==
    ASSUME NEW d, NEW w, Sound(d, w), NEW leaf \in Leaf(Slots), Live(d, leaf.context),
           NEW source, NEW topic, NEW qos \in 0..2, NEW retain \in BOOLEAN, NEW s \in DOMAIN d.store
    PROVE  Queued(d, deliver(d, leaf, source, topic, qos, retain, s), w)
<1> DEFINE i == leaf.context
           c == d.contexts[i]
           mq == IF d.config.upgrade_outgoing_qos THEN leaf.qos ELSE lower(qos, leaf.qos)
           r == c.is_bridge /\ retain
           mid == IF mq > 0 THEN _mosquitto_mid_generate(c) ELSE 0
           a == IF mq > 0 THEN [d EXCEPT !.contexts[i].last_mid = mid] ELSE d
           f == mqtt3_db_message_insert(a, i, mid, "out", mq, r, s).db
           e == deliver(d, leaf, source, topic, qos, retain, s)
<1>1. e = d \/ e = f
    BY DEF deliver
<1>2. i \in Slots /\ leaf.qos \in 0..2
    BY DEF Leaf
<1>3. mq \in 0..2
    BY <1>2, LowerOk
<1>4. r \in BOOLEAN
    BY Zenon
<1> HIDE DEF mq, r, e
<1>5. Live(d, i)
    OBVIOUS
<1> HIDE DEF i
<1>6. Queued(d, f, w)
    BY <1>3, <1>4, <1>5, NumberedInsertOk
<1> HIDE DEF f
<1> QED BY <1>1, <1>6, QueuedReflexive DEF e

\* The subscriptions of a node get the message one after another; the context of
\* the walk is <<d, w, source, topic, qos, retain, s>>.
Delivering(c, k, a) == Queued(c[1], a, c[2])

deliver_step(c, a, leaf) == deliver(a, leaf, c[3], c[4], c[5], c[6], c[7])

Deliverer == INSTANCE SequenceFolds WITH op <- deliver_step, Inv <- Delivering

\* The induction that the theorem of Deliverer assumes.
LEMMA DelivererInducts == Deliverer!Induction
    BY NatInduct DEF Deliverer!Induction

Deliveries(d, leaves, source, topic, qos, retain, s) ==
    LET step(a, leaf) == deliver(a, leaf, source, topic, qos, retain, s)
    IN FoldLeft(step, d, leaves)

\* All the subscriptions of a node served are a step of queuing.
LEMMA DeliveriesOk ==
    ASSUME NEW d, NEW w, Sound(d, w), NEW leaves \in Seq(Leaf(Slots)),
           \A k \in DOMAIN leaves : d.contexts[leaves[k].context] # NULL,
           NEW source, NEW topic, NEW qos \in 0..2, NEW retain \in BOOLEAN, NEW s \in DOMAIN d.store
    PROVE  Queued(d, Deliveries(d, leaves, source, topic, qos, retain, s), w)
<1> DEFINE n == Len(leaves)
           c == <<d, w, source, topic, qos, retain, s>>
           x == Deliverer!Walk(c, d, leaves)
<1>1. n \in Nat /\ DOMAIN leaves = 1..n /\ \A k \in 1..n : leaves[k] \in Leaf(Slots)
    OBVIOUS
<1>2. c[1] = d /\ c[2] = w /\ c[3] = source /\ c[4] = topic /\ c[5] = qos /\ c[6] = retain /\ c[7] = s
    OBVIOUS
<1> HIDE DEF n, c
<1>3. Delivering(c, 0, d)
    BY <1>2, QueuedReflexive DEF Delivering
<1>4. ASSUME NEW k \in 1..n, NEW a, Delivering(c, k - 1, a)
      PROVE  Delivering(c, k, deliver_step(c, a, leaves[k]))
    <2> DEFINE leaf == leaves[k]
               e == deliver(a, leaf, source, topic, qos, retain, s)
    <2>1. Queued(d, a, w)
        BY <1>2, <1>4 DEF Delivering
    <2>2. leaf \in Leaf(Slots) /\ d.contexts[leaf.context] # NULL
        BY <1>1
    <2> HIDE DEF leaf
    <2>3. Live(d, leaf.context)
        BY <2>2 DEF Live, Leaf
    <2>4. Sound(a, w) /\ Live(a, leaf.context)
        BY <2>1, <2>3, QueuedLive DEF Queued
    <2>5. s \in DOMAIN a.store
        BY <2>1 DEF Queued, Frame
    <2>7. Queued(a, e, w)
        BY <2>2, <2>4, <2>5, DeliverOk
    <2> HIDE DEF e
    <2>8. Queued(d, e, w)
        BY <2>1, <2>7, QueuedTransitive
    <2> QED BY <1>2, <2>8 DEF Delivering, deliver_step, e, leaf
<1>5. Delivering(c, n, x)
    BY <1>1, <1>3, <1>4, Deliverer!WalkInvariant, DelivererInducts
<1>6. Queued(d, x, w)
    BY <1>2, <1>5 DEF Delivering
<1>7. x = Deliveries(d, leaves, source, topic, qos, retain, s)
    BY DEF Deliveries, Deliverer!Walk, Deliverer!Greatest, FoldLeft, MapThenFoldSet, Max, deliver_step, c
<1> QED BY <1>6, <1>7

\* Database e comes from d by messages that contexts get, and that are retained at
\* nodes there are.
Spread(d, e, w) ==
    Sound(e, w) /\ Frame(d, e) /\ DOMAIN e.subs = DOMAIN d.subs /\ NoneLost(d, e)

\* Nothing spread is spread soundly.
LEMMA SpreadReflexive ==
    ASSUME NEW d, NEW w, Sound(d, w)
    PROVE  Spread(d, d, w)
BY FrameReflexive DEF Spread, NoneLost

\* Two steps of spreading are one.
LEMMA SpreadTransitive ==
    ASSUME NEW d, NEW e, NEW f, NEW w, Spread(d, e, w), Spread(e, f, w)
    PROVE  Spread(d, f, w)
BY FrameTransitive DEF Spread, NoneLost

\* The topic of a body, unless it got another one.
TopicIs(d, w, s, topic) == "reuse" \notin w => d.store[s].topic = topic

\* _subs_process keeps the broker sound at one node of the tree.
LEMMA SubsProcessOk ==
    ASSUME NEW d, NEW w, Sound(d, w), NEW node \in DOMAIN d.subs,
           NEW source, NEW topic, NEW qos \in 0..2, NEW retain \in BOOLEAN, NEW s \in DOMAIN d.store,
           NEW set_retain, set_retain => node = node_path(_sub_topic_tokenise(topic)),
           TopicIs(d, w, s, topic)
    PROVE  Spread(d, _subs_process(d, node, source, topic, qos, retain, s, set_retain), w)
<1> DEFINE a == IF retain /\ set_retain THEN retain_at(d, node, s) ELSE d
           leaves == a.subs[node].subs
           e == Deliveries(a, leaves, source, topic, qos, retain, s)
           r == _subs_process(d, node, source, topic, qos, retain, s, set_retain)
<1>1. r = a \/ r = e
    BY DEF _subs_process, Deliveries
<1>2. Spread(d, a, w)
    <2>1. CASE retain /\ set_retain
        <3>1. a = retain_at(d, node, s)
            BY <2>1
        <3>2. "reuse" \notin w => node_path(_sub_topic_tokenise(d.store[s].topic)) = node
            BY <2>1 DEF TopicIs
        <3> HIDE DEF a
        <3>3. Sound(a, w) /\ Frame(d, a) /\ DOMAIN a.subs = DOMAIN d.subs /\ a.contexts = d.contexts
            BY <3>1, <3>2, RetainAtOk
        <3> QED BY <3>3 DEF Spread, NoneLost
    <2>2. CASE ~(retain /\ set_retain)
        <3>1. a = d
            BY <2>2
        <3> HIDE DEF a
        <3> QED BY <3>1, SpreadReflexive
    <2> QED BY <2>1, <2>2
<1> HIDE DEF a, r
<1>3. Typed(a) /\ node \in DOMAIN a.subs /\ s \in DOMAIN a.store /\ Sound(a, w)
    BY <1>2 DEF Spread, Sound, SoundBut, Frame
<1>4. leaves \in Seq(Leaf(Slots))
    <2>1. a.subs[node] \in Node(Chars, Slots)
        BY <1>3 DEF Typed, TreeOk
    <2> QED BY <2>1 DEF Node
<1>5. ASSUME NEW k \in DOMAIN leaves
      PROVE  a.contexts[leaves[k].context] # NULL
    <2>1. leaves[k] \in Leaf(Slots)
        BY <1>4
    <2>2. leaves[k].context \in Members(a.subs)
        BY <1>3, <2>1 DEF Members, Leaf
    <2> QED BY <1>3, <2>2 DEF Typed
<1> HIDE DEF leaves
<1>6. Queued(a, e, w)
    BY <1>3, <1>4, <1>5, DeliveriesOk
<1> HIDE DEF e
<1>7. Spread(a, e, w)
    BY <1>6 DEF Queued, Spread
<1>8. Spread(d, e, w)
    BY <1>2, <1>7, SpreadTransitive
<1> QED BY <1>1, <1>2, <1>8 DEF r

\* The nodes that were found get the message; the context of the walk is
\* <<d, w, source, topic, qos, retain, s>>.
Spreading(c, k, a) == Spread(c[1], a, c[2])

hit_step(c, a, hit) == _subs_process(a, hit.node, c[3], c[4], c[5], c[6], c[7], hit.set_retain)

Spreader == INSTANCE SequenceFolds WITH op <- hit_step, Inv <- Spreading

\* The induction that the theorem of Spreader assumes.
LEMMA SpreaderInducts == Spreader!Induction
    BY NatInduct DEF Spreader!Induction

Spreads(d, hits, source, topic, qos, retain, s) ==
    LET step(a, hit) == _subs_process(a, hit.node, source, topic, qos, retain, s, hit.set_retain)
    IN FoldLeft(step, d, hits)

\* ... and so does the walk over all the nodes of a topic.
LEMMA SpreadsOk ==
    ASSUME NEW d, NEW w, Sound(d, w),
           NEW source, NEW topic, NEW qos \in 0..2, NEW retain \in BOOLEAN, NEW s \in DOMAIN d.store,
           NEW hits \in Seq(Hit(d.subs, _sub_topic_tokenise(topic))), TopicIs(d, w, s, topic)
    PROVE  Spread(d, Spreads(d, hits, source, topic, qos, retain, s), w)
<1> DEFINE n == Len(hits)
           tokens == _sub_topic_tokenise(topic)
           c == <<d, w, source, topic, qos, retain, s>>
           x == Spreader!Walk(c, d, hits)
<1>1. n \in Nat /\ DOMAIN hits = 1..n /\ \A k \in 1..n : hits[k] \in Hit(d.subs, tokens)
    OBVIOUS
<1>2. c[1] = d /\ c[2] = w /\ c[3] = source /\ c[4] = topic /\ c[5] = qos /\ c[6] = retain /\ c[7] = s
    OBVIOUS
<1> HIDE DEF n, c
<1>3. Spreading(c, 0, d)
    BY <1>2, SpreadReflexive DEF Spreading
<1>4. ASSUME NEW k \in 1..n, NEW a, Spreading(c, k - 1, a)
      PROVE  Spreading(c, k, hit_step(c, a, hits[k]))
    <2> DEFINE hit == hits[k]
               e == _subs_process(a, hit.node, source, topic, qos, retain, s, hit.set_retain)
    <2>1. Spread(d, a, w)
        BY <1>2, <1>4 DEF Spreading
    <2>2. hit.node \in DOMAIN d.subs /\ (hit.set_retain => hit.node = node_path(tokens))
        <3>1. hit \in Hit(d.subs, tokens)
            BY <1>1
        <3> HIDE DEF hit, tokens
        <3> QED BY <3>1 DEF Hit
    <2> HIDE DEF hit
    <2>3. Sound(a, w) /\ hit.node \in DOMAIN a.subs /\ s \in DOMAIN a.store
        BY <2>1, <2>2 DEF Spread, Frame
    <2>4. TopicIs(a, w, s, topic)
        BY <2>1 DEF Spread, Frame, TopicIs
    <2>5. Spread(a, e, w)
        BY <2>2, <2>3, <2>4, SubsProcessOk
    <2> HIDE DEF e
    <2>6. Spread(d, e, w)
        BY <2>1, <2>5, SpreadTransitive
    <2> QED BY <1>2, <2>6 DEF Spreading, hit_step, e, hit
<1>5. Spreading(c, n, x)
    BY <1>1, <1>3, <1>4, Spreader!WalkInvariant, SpreaderInducts
<1>6. Spread(d, x, w)
    BY <1>2, <1>5 DEF Spreading
<1>7. x = Spreads(d, hits, source, topic, qos, retain, s)
    BY DEF Spreads, Spreader!Walk, Spreader!Greatest, FoldLeft, MapThenFoldSet, Max, hit_step, c
<1> QED BY <1>6, <1>7

\* The branch of a retained message.
LEMMA GrownOk ==
    ASSUME NEW d, NEW w, Sound(d, w), NEW path \in Path(Chars)
    PROVE  LET e == WithSubs(d, grow(d.subs, path))
           IN Sound(e, w) /\ Frame(d, e) /\ e.store = d.store /\ e.contexts = d.contexts
<1> DEFINE t == grow(d.subs, path)
<1>1. Typed(d) /\ TreeOk(d.subs, Chars, Slots)
    BY DEF Sound, SoundBut, Typed
<1>2. TreeOk(t, Chars, Slots) /\ Grown(d.subs, t)
    BY <1>1, GrowOk
<1> HIDE DEF t
<1>3. RetainedOf(d.subs, t) /\ RetainedOf(t, d.subs)
    BY <1>2 DEF Grown, RetainedOf
<1>4. Members(t) \subseteq Members(d.subs)
    <2>1. ASSUME NEW i \in Members(t) PROVE i \in Members(d.subs)
        <3>1. PICK p \in DOMAIN t : \E k \in DOMAIN t[p].subs : t[p].subs[k].context = i
            BY DEF Members
        <3>2. p \in DOMAIN d.subs /\ t[p].subs = d.subs[p].subs
            <4>1. CASE p \in DOMAIN d.subs
                BY <1>2, <4>1 DEF Grown
            <4>2. CASE p \notin DOMAIN d.subs
                <5>1. t[p].subs = <<>>
                    BY <1>2, <4>2 DEF Grown
                <5> QED BY <3>1, <5>1
            <4> QED BY <4>1, <4>2
        <3> QED BY <3>1, <3>2 DEF Members
    <2> QED BY <2>1
<1>5. \A i \in Members(t) : d.contexts[i] # NULL
    BY <1>1, <1>4 DEF Typed
<1> QED BY <1>2, <1>3, <1>4, <1>5, SubsOk DEF t

\* mqtt3_db_messages_queue keeps the broker sound, stays within the frame and loses no stored
\* body.
LEMMA QueueOk ==
    ASSUME NEW d, NEW w, Sound(d, w), NEW source, NEW topic \in Name, NEW qos \in 0..2,
           NEW retain \in BOOLEAN, NEW s \in DOMAIN d.store, TopicIs(d, w, s, topic)
    PROVE  /\ Sound(mqtt3_db_messages_queue(d, source, topic, qos, retain, s), w)
           /\ Frame(d, mqtt3_db_messages_queue(d, source, topic, qos, retain, s))
           /\ NoneLost(d, mqtt3_db_messages_queue(d, source, topic, qos, retain, s))
<1> DEFINE tokens == _sub_topic_tokenise(topic)
           a == IF retain THEN WithSubs(d, grow(d.subs, node_path(tokens))) ELSE d
           hits == _sub_search(a.subs, tokens)
           e == Spreads(a, hits, source, topic, qos, retain, s)
           r == mqtt3_db_messages_queue(d, source, topic, qos, retain, s)
<1>1. r = d \/ r = e
    BY DEF mqtt3_db_messages_queue, Spreads, WithSubs
<1>2. tokens \in Path(Chars) /\ Len(tokens) >= 1
    BY TokensType DEF Name
<1>3. node_path(tokens) \in Path(Chars)
    <2> HIDE DEF tokens
    <2> QED BY <1>2, NodePath
<1> HIDE DEF tokens
<1>4. Sound(a, w) /\ Frame(d, a) /\ a.store = d.store /\ a.contexts = d.contexts
    <2>1. CASE retain
        <3>1. a = WithSubs(d, grow(d.subs, node_path(tokens)))
            BY <2>1
        <3> HIDE DEF a
        <3> QED BY <1>3, <3>1, GrownOk
    <2>2. CASE ~retain
        <3>1. a = d
            BY <2>2
        <3> HIDE DEF a
        <3> QED BY <3>1, FrameReflexive
    <2> QED BY <2>1, <2>2
<1> HIDE DEF a, r
<1>5. hits \in Seq(Hit(a.subs, tokens))
    <2>1. TreeOk(a.subs, Chars, Slots)
        BY <1>4 DEF Sound, SoundBut, Typed
    <2> QED BY <1>2, <2>1, SubSearchType
<1> HIDE DEF hits
<1>6. s \in DOMAIN a.store /\ TopicIs(a, w, s, topic)
    BY <1>4 DEF TopicIs
<1>7. Spread(a, e, w)
    BY <1>4, <1>5, <1>6, SpreadsOk DEF tokens
<1> HIDE DEF e
<1>8. Sound(e, w) /\ Frame(d, e) /\ NoneLost(d, e)
    BY <1>4, <1>7, FrameTransitive DEF Spread, NoneLost
<1>9. NoneLost(d, d)
    BY DEF NoneLost
<1> QED BY <1>1, <1>8, <1>9, FrameReflexive DEF r

-----------------------------------------------------------------------------
(* Wills, retained messages and PUBREL.                                    *)

\* Two safe steps are one.
LEMMA SafeTransitive ==
    ASSUME NEW d, NEW e, NEW f, NEW w, NEW P, Safe(d, e, w, P), Safe(e, f, w, P)
    PROVE  Safe(d, f, w, P)
BY StoredTransitive DEF Safe

\* A sound step within the frame is safe.
LEMMA SafeFrame ==
    ASSUME NEW d, NEW e, NEW w, NEW P, Sound(e, w), Frame(d, e)
    PROVE  Safe(d, e, w, P)
BY FrameStored DEF Safe

\* No change is safe.
LEMMA SafeReflexive ==
    ASSUME NEW d, NEW w, NEW P, Sound(d, w)
    PROVE  Safe(d, d, w, P)
BY FrameReflexive, SafeFrame

\* A safe step frees no context.
LEMMA SafeLive ==
    ASSUME NEW d, NEW e, NEW w, NEW P, Safe(d, e, w, P), NEW i, Live(d, i)
    PROVE  Live(e, i)
BY DEF Safe, Stored, SamePerson, Live

\* What a message says.
Message(m, P) == m.topic \in Name /\ m.qos \in 0..2 /\ m.retain \in BOOLEAN /\ m.payload \in P

\* Queuing a message of the broker's own (a will) is safe.
LEMMA EasyQueueOk ==
    ASSUME NEW d, NEW w, Sound(d, w), NEW source, NEW P, NEW m, Message(m, P)
    PROVE  Safe(d, mqtt3_db_messages_easy_queue(d, source, m), w, P)
<1> DEFINE a == mqtt3_db_message_store(d, source, 0, m.topic, m.qos, m.payload, m.retain)
           s == a.last_db_id
           e == mqtt3_db_messages_queue(a, source, m.topic, m.qos, m.retain, s)
<1>1. mqtt3_db_messages_easy_queue(d, source, m) = e
    BY DEF mqtt3_db_messages_easy_queue
<1>2. m.topic \in Name /\ m.qos \in 0..2 /\ m.retain \in BOOLEAN /\ m.payload \in P
    BY DEF Message
<1>3. Safe(d, a, w, P) /\ Newest(a, m.topic)
    BY <1>2, StoreOk
<1> HIDE DEF a
<1>31. Sound(a, w) /\ Stored(d, a, P) /\ s \in DOMAIN a.store /\ a.store[s].topic = m.topic
    BY <1>3 DEF Safe, Newest
<1>4. TopicIs(a, w, s, m.topic)
    BY <1>31 DEF TopicIs
<1> HIDE DEF s
<1>5. Sound(e, w) /\ Frame(a, e)
    BY <1>2, <1>31, <1>4, QueueOk
<1> HIDE DEF e
<1>6. Safe(d, a, w, P) /\ Safe(a, e, w, P)
    BY <1>3, <1>5, SafeFrame
<1> QED BY <1>1, <1>6, SafeTransitive

\* One retained message sent to a new subscriber is a step of queuing.
LEMMA RetainProcessOk ==
    ASSUME NEW d, NEW w, Sound(d, w), NEW i, Live(d, i), NEW node \in Found(d.subs), NEW sub_qos \in 0..2
    PROVE  Queued(d, _retain_process(d, i, node, sub_qos), w)
<1> DEFINE s == d.subs[node].retained
           qos == lower(d.store[s].qos, sub_qos)
           mid == IF qos > 0 THEN _mosquitto_mid_generate(d.contexts[i]) ELSE 0
           a == IF qos > 0 THEN [d EXCEPT !.contexts[i].last_mid = mid] ELSE d
           f == mqtt3_db_message_insert(a, i, mid, "out", qos, TRUE, s).db
           e == _retain_process(d, i, node, sub_qos)
<1>1. e = d \/ e = f
    BY DEF _retain_process
<1>2. s \in DOMAIN d.store
    BY DEF Found, Sound, SoundBut, Pointed
<1>3. d.store[s].qos \in 0..2
    BY <1>2 DEF Sound, SoundBut, Typed, Body
<1>4. qos \in 0..2
    BY <1>3, LowerOk
<1> HIDE DEF qos, s, e
<1>5. Queued(d, f, w)
    BY <1>2, <1>4, NumberedInsertOk
<1> HIDE DEF f
<1> QED BY <1>1, <1>5, QueuedReflexive DEF e

\* The nodes found get their retained messages sent to context i; the context of
\* the walk is <<d, w, i, qos>>.
retain_step(c, a, node) == _retain_process(a, c[3], node, c[4])

Collector == INSTANCE SequenceFolds WITH op <- retain_step, Inv <- Delivering

\* The induction that the theorem of Collector assumes.
LEMMA CollectorInducts == Collector!Induction
    BY NatInduct DEF Collector!Induction

\* ... and so are all that its filter matches.
LEMMA RetainQueueOk ==
    ASSUME NEW d, NEW w, Sound(d, w), NEW i, Live(d, i), NEW sub \in Name, NEW qos \in 0..2
    PROVE  Queued(d, mqtt3_retain_queue(d, i, sub, qos), w)
<1> DEFINE tokens == _sub_topic_tokenise(sub)
           nodes == _retain_search(d.subs, tokens)
           n == Len(nodes)
           c == <<d, w, i, qos>>
           x == Collector!Walk(c, d, nodes)
<1>1. nodes \in Seq(Found(d.subs))
    <2>1. TreeOk(d.subs, Chars, Slots)
        BY DEF Sound, SoundBut, Typed
    <2>2. tokens \in Path(Chars) /\ Len(tokens) >= 1
        BY TokensType DEF Name
    <2> HIDE DEF tokens
    <2> QED BY <2>1, <2>2, RetainSearchType
<1>2. x = mqtt3_retain_queue(d, i, sub, qos)
    BY DEF mqtt3_retain_queue, Collector!Walk, Collector!Greatest, FoldLeft, MapThenFoldSet, Max, retain_step
<1> HIDE DEF nodes, tokens
<1>3. n \in Nat /\ DOMAIN nodes = 1..n /\ \A k \in 1..n : nodes[k] \in Found(d.subs)
    BY <1>1
<1>4. c[1] = d /\ c[2] = w /\ c[3] = i /\ c[4] = qos
    OBVIOUS
<1> HIDE DEF n, c
<1>5. Delivering(c, 0, d)
    BY <1>4, QueuedReflexive DEF Delivering
<1>6. ASSUME NEW k \in 1..n, NEW a, Delivering(c, k - 1, a)
      PROVE  Delivering(c, k, retain_step(c, a, nodes[k]))
    <2> DEFINE e == _retain_process(a, i, nodes[k], qos)
    <2>1. Queued(d, a, w)
        BY <1>4, <1>6 DEF Delivering
    <2>2. nodes[k] \in Found(a.subs) /\ Live(a, i) /\ Sound(a, w)
        BY <1>3, <2>1, QueuedLive DEF Queued
    <2>3. Queued(a, e, w)
        BY <2>2, RetainProcessOk
    <2> HIDE DEF e
    <2>4. Queued(d, e, w)
        BY <2>1, <2>3, QueuedTransitive
    <2> QED BY <1>4, <2>4 DEF Delivering, retain_step, e
<1>7. Delivering(c, n, x)
    BY <1>3, <1>5, <1>6, Collector!WalkInvariant, CollectorInducts
<1> QED BY <1>2, <1>4, <1>7 DEF Delivering

\* The message at "at" moves up, and is answered if it came in.
risen(d, i, here, k) ==
    LET m == d.contexts[i].msgs[here]
        e == [d EXCEPT !.contexts[i].msgs[here] = move_up(@)]
    IN IF ~moves_up(m, k) THEN d
       ELSE IF m.direction = "in" THEN _mosquitto_send_command_with_mid(e, i, "PUBREC", m.mid) ELSE e

\* A message that goes to its subscribers, unless it was refused.
passed_on(d, m) ==
    LET body == d.store[m.store]
    IN IF body.topic = NoTopic THEN d
       ELSE mqtt3_db_messages_queue(d, body.source_id, body.topic, body.qos, m.retain, m.store)

\* Database e comes from d without a message of context i less.
Risen(d, e, w, i) ==
    /\ Sound(e, w) /\ Frame(d, e) /\ Live(e, i)
    /\ Len(e.contexts[i].msgs) >= Len(d.contexts[i].msgs)

\* No message risen is soundly risen.
LEMMA RisenReflexive ==
    ASSUME NEW d, NEW w, Sound(d, w), NEW i, Live(d, i)
    PROVE  Risen(d, d, w, i)
<1>1. Len(d.contexts[i].msgs) \in Nat
    BY MsgsOfType, MessagesType DEF Sound, SoundBut, Live
<1> QED BY <1>1, FrameReflexive DEF Risen

\* What is known of the list of a live context.
LEMMA LengthOk ==
    ASSUME NEW d, NEW w, Sound(d, w), NEW i, Live(d, i)
    PROVE  /\ Len(d.contexts[i].msgs) \in Nat /\ DOMAIN d.contexts[i].msgs = 1..Len(d.contexts[i].msgs)
           /\ d.contexts[i].msgs \in Messages /\ i \in Slots /\ d.contexts[i] # NULL /\ Typed(d)
           /\ \A k \in DOMAIN d.contexts[i].msgs : d.contexts[i].msgs[k] \in MessageType
BY MsgsOfType, MessagesType DEF Sound, SoundBut, Live

\* A step within the frame frees no context.
LEMMA FrameLive ==
    ASSUME NEW d, NEW e, Frame(d, e), NEW i, Live(d, i)
    PROVE  Live(e, i)
BY DEF Frame, SamePerson, Live

\* Two steps that let messages rise are one.
LEMMA RisenTransitive ==
    ASSUME NEW d, NEW e, NEW f, NEW w, NEW i, Sound(d, w), Live(d, i), Risen(d, e, w, i), Risen(e, f, w, i)
    PROVE  Risen(d, f, w, i)
<1> DEFINE x == Len(d.contexts[i].msgs)
           y == Len(e.contexts[i].msgs)
           z == Len(f.contexts[i].msgs)
<1>1. x \in Nat /\ y \in Nat /\ z \in Nat
    BY LengthOk DEF Risen
<1>2. y >= x /\ z >= y
    BY DEF Risen
<1> HIDE DEF x, y, z
<1>3. z >= x
    BY <1>1, <1>2
<1>4. Frame(d, f)
    BY FrameTransitive DEF Risen
<1> QED BY <1>3, <1>4 DEF Risen, x, z

\* Letting the queued message at a place rise keeps the broker sound.
LEMMA RisenOk ==
    ASSUME NEW d, NEW w, Sound(d, w), NEW i, Live(d, i), NEW here \in DOMAIN d.contexts[i].msgs,
           NEW k \in Nat, here <= k
    PROVE  Risen(d, risen(d, i, here, k), w, i)
<1> DEFINE ms == d.contexts[i].msgs
           m == ms[here]
           ns == [ms EXCEPT ![here] = move_up(m)]
           e == [d EXCEPT !.contexts[i].msgs[here] = move_up(@)]
           f == _mosquitto_send_command_with_mid(e, i, "PUBREC", m.mid)
           r == risen(d, i, here, k)
<1>1. Typed(d) /\ ms \in Messages /\ DOMAIN ms = 1..Len(ms) /\ Len(ms) \in Nat /\ i \in Slots /\ d.contexts[i] # NULL
      /\ \A l \in DOMAIN ms : ms[l] \in MessageType
    BY LengthOk
<1>2. CASE ~moves_up(m, k)
    <2>1. r = d
        BY <1>2 DEF risen
    <2> QED BY <2>1, RisenReflexive
<1>3. CASE moves_up(m, k)
    <2>1. e = [d EXCEPT !.contexts[i].msgs = ns]
        BY <1>1 DEF Typed, DbFields
    <2>2. r = e \/ r = f
        BY <1>3 DEF risen
    <2>3. ns \in Messages /\ DOMAIN ns = DOMAIN ms
        <3>1. move_up(m) \in MessageType
            BY <1>1, MoveUp DEF SameMessage
        <3>2. ns = [l \in 1..Len(ms) |-> IF l = here THEN move_up(m) ELSE ms[l]]
            BY <1>1 DEF Messages
        <3> QED BY <1>1, <3>1, <3>2 DEF Messages
    <2>4. Advanced(ms, ns, {}, w)
        <3>1. ASSUME NEW l \in DOMAIN ms
              PROVE  /\ SameMessage(ms[l], ns[l])
                     /\ max_inflight > 0 /\ ns[l].state # "queued" =>
                           \/ ms[l].state # "queued"
                           \/ Cardinality(upto(ms, <<ms[l].direction>>, l, {})) <= max_inflight
            <4>1. CASE l = here
                <5>1. ns[l] = move_up(ms[l])
                    BY <4>1
                <5> DEFINE A == Cardinality(upto(ms, <<ms[l].direction>>, l, {}))
                <5>2. l \in Nat
                    BY <1>1
                <5>3. A \in Nat /\ A <= l
                    BY <5>2, UptoFinite
                <5>4. k <= max_inflight
                    BY <1>3 DEF moves_up
                <5> HIDE DEF A
                <5>5. A <= max_inflight
                    BY <4>1, <5>2, <5>3, <5>4, BrokerDbAssumption
                <5> HIDE DEF ns
                <5> QED BY <1>1, <5>1, <5>5, MoveUp DEF A
            <4>2. CASE l # here
                <5>1. ns[l] = ms[l]
                    BY <4>2
                <5> QED BY <1>1, <5>1, StateOf
            <4> QED BY <4>1, <4>2
        <3> HIDE DEF ns
        <3> QED BY <2>3, <3>1 DEF Advanced
    <2>5. e = SetMessages(d, i, ns, d.contexts[i].msg_count12)
        BY <1>1, <2>1, JustMessages
    <2> HIDE DEF ns, e
    <2>6. SoundBut(e, w, i, {}) /\ Frame(d, e) /\ e.contexts[i].msgs = ns
        BY <1>1, <2>3, <2>4, <2>5, AdvanceOk
    <2>7. Sound(e, w) /\ Live(e, i)
        BY <2>6, SoundAt, FrameLive
    <2>8. Len(ns) = Len(ms)
        BY <1>1, <2>3 DEF Messages
    <2>9. Risen(d, e, w, i)
        BY <1>1, <2>6, <2>7, <2>8 DEF Risen
    <2>10. OnlyOut(e, f)
        <3>1. DOMAIN e = DbFields
            BY <2>7 DEF Sound, SoundBut, Typed
        <3> QED BY <3>1, SendOk DEF _mosquitto_send_command_with_mid
    <2> HIDE DEF f
    <2>11. Sound(f, w) /\ Frame(e, f) /\ f.contexts = e.contexts
        BY <2>7, <2>10, OnlyOutOk, OnlyOutFields DEF Sound
    <2>12. Risen(d, f, w, i)
        <3>1. Frame(d, f) /\ Live(f, i)
            BY <2>6, <2>7, <2>11, FrameTransitive, FrameLive
        <3> QED BY <1>1, <2>6, <2>8, <2>11, <3>1 DEF Risen
    <2> QED BY <2>2, <2>9, <2>12
<1> QED BY <1>2, <1>3

\* Passing a released message on to its subscribers keeps the broker sound.
LEMMA PassedOk ==
    ASSUME NEW d, NEW w, Sound(d, w), NEW i, Live(d, i), NEW m \in MessageType, m.store \in DOMAIN d.store
    PROVE  Risen(d, passed_on(d, m), w, i)
<1> DEFINE s == m.store
           body == d.store[s]
           e == mqtt3_db_messages_queue(d, body.source_id, body.topic, body.qos, m.retain, s)
           r == passed_on(d, m)
<1>1. r = d \/ r = e
    BY DEF passed_on
<1>2. body.topic \in Name /\ body.qos \in 0..2 /\ m.retain \in BOOLEAN
    BY DEF Sound, SoundBut, Typed, Body, MessageType
<1>3. TopicIs(d, w, s, body.topic)
    BY DEF TopicIs
<1>4. s \in DOMAIN d.store
    OBVIOUS
<1> HIDE DEF s, r
<1>5. Sound(e, w) /\ Frame(d, e) /\ NoneLost(d, e)
    BY <1>2, <1>3, <1>4, QueueOk
<1> HIDE DEF e
<1>6. Live(e, i)
    BY <1>5, FrameLive
<1>7. Len(e.contexts[i].msgs) >= Len(d.contexts[i].msgs)
    <2> DEFINE x == Len(d.contexts[i].msgs)
               y == Len(e.contexts[i].msgs)
    <2>1. /\ x \in Nat /\ y \in Nat
          /\ DOMAIN d.contexts[i].msgs = 1..x /\ DOMAIN e.contexts[i].msgs = 1..y
        BY <1>5, <1>6, LengthOk
    <2>2. DOMAIN d.contexts[i].msgs \subseteq DOMAIN e.contexts[i].msgs
        BY <1>5, <1>6 DEF NoneLost, msgsOf, Live
    <2> HIDE DEF x, y
    <2>3. 1..x \subseteq 1..y
        BY <2>1, <2>2
    <2>4. y >= x
        BY <2>1, <2>3
    <2> QED BY <2>4 DEF x, y
<1>8. Risen(d, e, w, i)
    BY <1>5, <1>6, <1>7 DEF Risen
<1> QED BY <1>1, <1>8, RisenReflexive DEF r

\* The message of the PUBREL has been passed on, and goes.
LEMMA RemovedOk ==
    ASSUME NEW d, NEW w, Sound(d, w), NEW i, Live(d, i), NEW k \in DOMAIN d.contexts[i].msgs
    PROVE  /\ Sound(_message_remove(d, i, k), w) /\ Frame(d, _message_remove(d, i, k))
           /\ Live(_message_remove(d, i, k), i)
           /\ Len(_message_remove(d, i, k).contexts[i].msgs) = Len(d.contexts[i].msgs) - 1
<1> DEFINE e == _message_remove(d, i, k)
<1>1. i \in Slots /\ d.contexts[i] # NULL /\ d.contexts[i].msgs \in Messages /\ SoundBut(d, w, i, {})
    BY LengthOk, SoundAt
<1>2. SoundBut(e, w, i, {} \ {k}) /\ Frame(d, e) /\ e.contexts[i].msgs = RemoveAt(d.contexts[i].msgs, k)
    BY <1>1, MessageRemoveOk
<1> HIDE DEF e
<1>3. {} \ {k} = {}
    OBVIOUS
<1>4. Sound(e, w)
    BY <1>2, <1>3, SoundAt
<1>5. Live(e, i)
    BY <1>2, FrameLive
<1>6. Len(e.contexts[i].msgs) = Len(d.contexts[i].msgs) - 1
    BY <1>1, <1>2, RemoveMessage
<1> QED BY <1>2, <1>4, <1>5, <1>6 DEF e

\* The walk over the messages of context i, of which there were n, for a PUBREL; the
\* context of the walk is <<d, w, i, mid, n>>.
Releasing(c, k, a) ==
    k <= c[5] =>
      /\ Sound(a.db, c[2]) /\ Frame(c[1], a.db) /\ Live(a.db, c[3])
      /\ a.at \in 1..(k + 1) /\ a.deleted \in BOOLEAN /\ DOMAIN a = {"db", "at", "deleted"}
      /\ Len(a.db.contexts[c[3]].msgs) >= a.at + (c[5] - k) - 1

\* One message of the walk, as it is and as it is composed of the three operations.
released(a, i, k, mid) ==
    LET m == a.db.contexts[i].msgs[a.at]
        up == moves_up(m, k)
        d == IF ~up THEN a.db
             ELSE LET e == [a.db EXCEPT !.contexts[i].msgs[a.at] = move_up(@)]
                  IN IF m.direction = "in"
                     THEN _mosquitto_send_command_with_mid(e, i, "PUBREC", m.mid) ELSE e
        body == d.store[m.store]
        queued == IF body.topic = NoTopic THEN d
                  ELSE mqtt3_db_messages_queue(d, body.source_id, body.topic, body.qos,
                                               m.retain, m.store)
    IN IF a.deleted /\ k - 1 > max_inflight THEN a
       ELSE IF m.mid = mid /\ m.direction = "in"
       THEN [a EXCEPT !.db = _message_remove(queued, i, a.at), !.deleted = TRUE]
       ELSE [a EXCEPT !.db = d, !.at = @ + 1]

Releases(d, i, mid) ==
    LET step(a, k) == released(a, i, k, mid)
    IN FoldLeft(step, [db |-> d, at |-> 1, deleted |-> FALSE],
                [k \in DOMAIN d.contexts[i].msgs |-> k]).db

\* mqtt3_db_message_release is the fold the lemmas below reason about.
LEMMA ReleasesIs ==
    ASSUME NEW d, NEW i, NEW mid
    PROVE  mqtt3_db_message_release(d, i, mid) = Releases(d, i, mid)
BY DEF mqtt3_db_message_release, Releases, released, FoldLeft, MapThenFoldSet

release_step(c, a, k) == released(a, c[3], k, c[4])

\* One step of that fold, its local names replaced.
LEMMA ReleasedIs ==
    ASSUME NEW c, NEW a, NEW k
    PROVE  LET i == c[3]
               m == a.db.contexts[i].msgs[a.at]
               d == risen(a.db, i, a.at, k)
               queued == passed_on(d, m)
           IN release_step(c, a, k) =
                IF a.deleted /\ k - 1 > max_inflight THEN a
                ELSE IF m.mid = c[4] /\ m.direction = "in"
                THEN [a EXCEPT !.db = _message_remove(queued, i, a.at), !.deleted = TRUE]
                ELSE [a EXCEPT !.db = d, !.at = @ + 1]
BY DEF release_step, released, risen, passed_on

Releaser == INSTANCE SequenceFolds WITH op <- release_step, Inv <- Releasing

\* The induction that the theorem of Releaser assumes.
LEMMA ReleaserInducts == Releaser!Induction
    BY NatInduct DEF Releaser!Induction

\* Where the walk over a list is after one message, be it removed or not.
LEMMA StillHere ==
    ASSUME NEW k \in Nat, NEW here \in 1..k
    PROVE  here \in 1..(k + 1) /\ here + 1 \in 1..(k + 1)
    OBVIOUS

\* And what it has ahead, in a list that has not become shorter but by that message.
LEMMA StillRoom ==
    ASSUME NEW x \in Nat, NEW y \in Nat, y >= x, NEW here \in Nat, NEW ahead \in Nat, x >= here + ahead
    PROVE  y - 1 >= here + ahead - 1 /\ y >= (here + 1) + ahead - 1
    OBVIOUS

\* One message of it.
LEMMA ReleaseStepOk ==
    ASSUME NEW c, NEW n \in Nat, c[5] = n, NEW k \in 1..n, NEW a, Releasing(c, k - 1, a)
    PROVE  Releasing(c, k, release_step(c, a, k))
<1> DEFINE i == c[3]
           w == c[2]
           d == a.db
           here == a.at
           x == Len(d.contexts[i].msgs)
           m == d.contexts[i].msgs[here]
           e == risen(d, i, here, k)
           f == passed_on(e, m)
           g == _message_remove(f, i, here)
           r == release_step(c, a, k)
<1>1. k - 1 <= n /\ k \in Nat /\ n - k \in Nat
    OBVIOUS
<1>2. /\ Sound(d, w) /\ Frame(c[1], d) /\ Live(d, i)
      /\ here \in 1..((k - 1) + 1) /\ a.deleted \in BOOLEAN /\ DOMAIN a = {"db", "at", "deleted"}
      /\ x >= here + (n - (k - 1)) - 1
    BY <1>1 DEF Releasing
<1>3. /\ x \in Nat /\ DOMAIN d.contexts[i].msgs = 1..x
      /\ \A l \in DOMAIN d.contexts[i].msgs : d.contexts[i].msgs[l] \in MessageType
      /\ Typed(d) /\ Pointed(d) /\ i \in Slots /\ d.contexts[i] # NULL
    BY <1>2, LengthOk DEF Sound, SoundBut
<1> HIDE DEF x
<1>4. here \in 1..k /\ here \in Nat /\ here <= k /\ x >= here + (n - k) /\ here \in 1..x
    BY <1>1, <1>2, <1>3
<1>5. m \in MessageType /\ m.store \in DOMAIN d.store
    BY <1>3, <1>4, MsgsOfType DEF Pointed
<1> HIDE DEF m, here, d, i
<1>6. Risen(d, e, w, i)
    BY <1>1, <1>2, <1>3, <1>4, RisenOk
<1> HIDE DEF e
<1>7. Sound(e, w) /\ Live(e, i) /\ m.store \in DOMAIN e.store
    BY <1>5, <1>6 DEF Risen, Frame
<1>8. Risen(e, f, w, i)
    BY <1>5, <1>7, PassedOk
<1> HIDE DEF f
<1>9. Risen(d, f, w, i)
    BY <1>2, <1>6, <1>8, RisenTransitive
<1> DEFINE y == Len(e.contexts[i].msgs)
           z == Len(f.contexts[i].msgs)
<1>10. y >= x /\ z >= x /\ Sound(f, w) /\ Live(f, i) /\ Frame(d, e) /\ Frame(d, f)
    BY <1>6, <1>9 DEF Risen, x
<1>11. z \in Nat /\ DOMAIN f.contexts[i].msgs = 1..z /\ y \in Nat
    BY <1>7, <1>10, LengthOk
<1> HIDE DEF y, z
<1>12. here \in 1..z
    BY <1>3, <1>4, <1>10, <1>11
<1>13. Sound(g, w) /\ Frame(f, g) /\ Live(g, i) /\ Len(g.contexts[i].msgs) = z - 1
    BY <1>10, <1>11, <1>12, RemovedOk DEF z
<1> HIDE DEF g
<1>14. CASE a.deleted /\ k - 1 > max_inflight
    <2>1. r = a
        BY <1>14, ReleasedIs DEF m, d, i, here, e, f, g
    <2>2. here \in 1..(k + 1) /\ x >= here + (n - k) - 1
        BY <1>1, <1>3, <1>4
    <2> QED BY <1>2, <2>1, <2>2 DEF Releasing, d, i, w, here, x
<1>15. CASE ~(a.deleted /\ k - 1 > max_inflight) /\ m.mid = c[4] /\ m.direction = "in"
    <2>1. r = [a EXCEPT !.db = g, !.deleted = TRUE]
        BY <1>15, ReleasedIs, Zenon DEF g, f, e, m, d, i, here
    <2>2. r.db = g /\ r.at = here /\ r.deleted = TRUE /\ DOMAIN r = {"db", "at", "deleted"}
        BY <1>2, <2>1 DEF here
    <2>3. here \in 1..(k + 1) /\ z - 1 >= here + (n - k) - 1
        <3>1. z \in Nat /\ x \in Nat /\ z >= x /\ x >= here + (n - k)
            BY <1>3, <1>4, <1>10, <1>11
        <3> QED BY <1>1, <1>4, <3>1, StillRoom, StillHere
    <2>4. Frame(c[1], g)
        BY <1>2, <1>10, <1>13, FrameTransitive
    <2> HIDE DEF r
    <2>5. Sound(g, c[2]) /\ Live(g, c[3]) /\ Len(g.contexts[c[3]].msgs) >= here + (c[5] - k) - 1
        BY <1>13, <2>3 DEF i, w
    <2> QED BY <2>2, <2>3, <2>4, <2>5 DEF Releasing, r
<1>16. CASE ~(a.deleted /\ k - 1 > max_inflight) /\ ~(m.mid = c[4] /\ m.direction = "in")
    <2>1. r = [a EXCEPT !.db = e, !.at = here + 1]
        BY <1>16, ReleasedIs, Zenon DEF e, m, d, i, here
    <2>2. r.db = e /\ r.at = here + 1 /\ r.deleted \in BOOLEAN /\ DOMAIN r = {"db", "at", "deleted"}
        BY <1>2, <2>1
    <2>3. here + 1 \in 1..(k + 1) /\ y >= (here + 1) + (n - k) - 1
        <3>1. y \in Nat /\ x \in Nat /\ y >= x /\ x >= here + (n - k)
            BY <1>3, <1>4, <1>10, <1>11
        <3> QED BY <1>1, <1>4, <3>1, StillRoom, StillHere
    <2>4. Frame(c[1], e)
        BY <1>2, <1>10, FrameTransitive
    <2> HIDE DEF r
    <2>5. Sound(e, c[2]) /\ Live(e, c[3]) /\ Len(e.contexts[c[3]].msgs) >= (here + 1) + (c[5] - k) - 1
        BY <1>7, <2>3 DEF i, w, y
    <2> QED BY <2>2, <2>3, <2>4, <2>5 DEF Releasing, r
<1> QED BY <1>14, <1>15, <1>16

\* A PUBREL.
LEMMA ReleaseOk ==
    ASSUME NEW d, NEW w, Sound(d, w), NEW i, Live(d, i), NEW mid
    PROVE  Sound(mqtt3_db_message_release(d, i, mid), w) /\ Frame(d, mqtt3_db_message_release(d, i, mid))
<1> DEFINE n == Len(d.contexts[i].msgs)
           c == <<d, w, i, mid, n>>
           all == [k \in DOMAIN d.contexts[i].msgs |-> k]
           start == [db |-> d, at |-> 1, deleted |-> FALSE]
           x == Releaser!Walk(c, start, all)
<1>1. n \in Nat /\ DOMAIN d.contexts[i].msgs = 1..n
    BY LengthOk
<1>2. DOMAIN all = 1..n /\ \A k \in 1..n : all[k] = k
    BY <1>1
<1>3. x.db = mqtt3_db_message_release(d, i, mid)
    <2>1. x.db = Releases(d, i, mid)
        BY DEF Releases, Releaser!Walk, Releaser!Greatest, FoldLeft, MapThenFoldSet, Max, release_step, c
    <2> QED BY <2>1, ReleasesIs
<1>4. c[1] = d /\ c[2] = w /\ c[3] = i /\ c[4] = mid /\ c[5] = n
    OBVIOUS
<1> HIDE DEF c, all
<1>5. Releasing(c, 0, start)
    <2>1. start.db = d /\ start.at = 1 /\ start.deleted = FALSE /\ DOMAIN start = {"db", "at", "deleted"}
        OBVIOUS
    <2>2. 1 \in 1..(0 + 1) /\ n >= 1 + (n - 0) - 1
        <3> HIDE DEF n
        <3> QED BY <1>1
    <2> HIDE DEF start
    <2> QED BY <1>4, <2>1, <2>2, FrameReflexive DEF Releasing
<1>6. ASSUME NEW k \in 1..n, NEW a, Releasing(c, k - 1, a)
      PROVE  Releasing(c, k, release_step(c, a, all[k]))
    <2>1. all[k] = k
        BY <1>2
    <2> HIDE DEF n
    <2> QED BY <1>1, <1>4, <1>6, <2>1, ReleaseStepOk
<1>7. Releasing(c, n, x)
    <2> HIDE DEF n, start
    <2> QED BY <1>1, <1>2, <1>5, <1>6, Releaser!WalkInvariant, ReleaserInducts
<1>8. Sound(x.db, w) /\ Frame(d, x.db)
    <2> HIDE DEF x, n
    <2> QED BY <1>1, <1>4, <1>7 DEF Releasing
<1> QED BY <1>3, <1>8
=============================================================================
