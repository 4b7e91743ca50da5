----------------------------- MODULE HashTable ------------------------------
(***************************************************************************)
(* The hash tables of the broker (uthash.h): the index of the clients, the *)
(* password file and the pre-shared keys are kept in one.                  *)
(*                                                                         *)
(* Every element carries a handle.  next and prev link the elements in the *)
(* order they were added, hh_next and hh_prev those of a bucket.  A full   *)
(* bucket makes the table double its buckets, unless that has not helped   *)
(* twice.  table holds                                                     *)
(*   head    the first element, NULL when there is no table                *)
(*   hh      the handles                                                   *)
(*   tbl     the table: its tail, buckets and counters                     *)
(***************************************************************************)
EXTENDS Topics, FiniteSets

CONSTANTS
    Elements,   \* what may be put into the table
    key,        \* the key of each element
    hash,       \* the value of each key under HASH_FCN
    HASH_INITIAL_NUM_BUCKETS_LOG2,
    HASH_BKT_CAPACITY_THRESH,
    MaxBuckets  \* bound: nothing is entered into a table with more buckets

VARIABLE table

\* The elements from e on, along a link of the handles; one more than there are
\* elements if the links run in a circle.
along(hh, e, link) ==
    LET walk[s \in Seq(Elements)] ==
          LET to == hh[Last(s)][link]
          IN IF to = NULL \/ Len(s) > Cardinality(Elements) THEN s ELSE walk[Append(s, to)]
    IN IF e = NULL THEN <<>> ELSE walk[<<e>>]

EmptyBucket == [hh_head |-> NULL, count |-> 0, expand_mult |-> 0]

HASH_MAKE_TABLE(e) ==
    LET n == 2 ^ HASH_INITIAL_NUM_BUCKETS_LOG2
    IN [tail |-> e, num_buckets |-> n, log2_num_buckets |-> HASH_INITIAL_NUM_BUCKETS_LOG2, num_items |-> 0,
        buckets |-> [b \in 0..(n - 1) |-> EmptyBucket],
        ideal_chain_maxlen |-> 0, nonideal_items |-> 0, ineff_expands |-> 0, noexpand |-> 0]

NoHandle == [prev |-> NULL, next |-> NULL, hh_prev |-> NULL, hh_next |-> NULL, hashv |-> 0]

TableInit == table = [head |-> NULL, tbl |-> NULL, hh |-> [e \in Elements |-> NoHandle]]

HASH_TO_BKT(hashv, num_bkts) == hashv % num_bkts

-----------------------------------------------------------------------------
(* Buckets.                                                                *)

\* The element becomes the first of its bucket.
link_in(hh, first, e) ==
    LET linked == [hh EXCEPT ![e].hh_next = first, ![e].hh_prev = NULL]
    IN IF first = NULL THEN linked ELSE [linked EXCEPT ![first].hh_prev = e]

\* Mutant of HASH_EXPAND_BUCKETS: the elements stay in the buckets they were in.
HASH_EXPAND_BUCKETS_same(t) ==
    LET n == 2 * t.tbl.num_buckets
    IN [t EXCEPT !.tbl.num_buckets = n, !.tbl.log2_num_buckets = @ + 1,
                 !.tbl.buckets = [b \in 0..(n - 1) |-> IF b < t.tbl.num_buckets THEN @[b] ELSE EmptyBucket]]

\* All elements, bucket by bucket, go into twice as many buckets.
HASH_EXPAND_BUCKETS(t) ==
    LET n == 2 * t.tbl.num_buckets
        ideal == (t.tbl.num_items \div n) + (IF t.tbl.num_items % n = 0 THEN 0 ELSE 1)
        used == SelectSeq([b \in 1..t.tbl.num_buckets |-> b - 1], LAMBDA b : t.tbl.buckets[b].hh_head # NULL)
        elements == FlattenSeq([u \in DOMAIN used |-> along(t.hh, t.tbl.buckets[used[u]].hh_head, "hh_next")])
        move(u, e) ==
          LET b == HASH_TO_BKT(t.hh[e].hashv, n)
              bucket == u.buckets[b]
              count == bucket.count + 1
              crowded == count > ideal
          IN [hh |-> link_in(u.hh, bucket.hh_head, e),
              nonideal |-> u.nonideal + (IF crowded THEN 1 ELSE 0),
              buckets |-> [u.buckets EXCEPT ![b] =
                             [hh_head |-> e, count |-> count,
                              expand_mult |-> IF crowded THEN count \div ideal ELSE bucket.expand_mult]]]
        moved == FoldLeft(move, [hh |-> t.hh, nonideal |-> 0, buckets |-> [b \in 0..(n - 1) |-> EmptyBucket]], elements)
        ineff == IF moved.nonideal > t.tbl.num_items \div 2 THEN t.tbl.ineff_expands + 1 ELSE 0
    IN [t EXCEPT !.hh = moved.hh,
                 !.tbl = [@ EXCEPT !.num_buckets = n, !.log2_num_buckets = @ + 1, !.buckets = moved.buckets,
                                   !.ideal_chain_maxlen = ideal, !.nonideal_items = moved.nonideal,
                                   !.ineff_expands = ineff, !.noexpand = IF ineff > 1 THEN 1 ELSE @]]

HASH_ADD_TO_BKT(t, b, e) ==
    LET bucket == t.tbl.buckets[b]
        added == [t EXCEPT !.hh = link_in(t.hh, bucket.hh_head, e),
                           !.tbl.buckets[b] = [@ EXCEPT !.hh_head = e, !.count = @ + 1]]
    IN IF bucket.count + 1 >= (bucket.expand_mult + 1) * HASH_BKT_CAPACITY_THRESH /\ t.tbl.noexpand # 1
       THEN HASH_EXPAND_BUCKETS(added) ELSE added

HASH_DEL_IN_BKT(t, b, e) ==
    LET handle == t.hh[e]
    IN [t EXCEPT !.tbl.buckets[b] = [@ EXCEPT !.count = @ - 1, !.hh_head = IF @ = e THEN handle.hh_next ELSE @],
                 !.hh = [x \in Elements |-> [t.hh[x] EXCEPT !.hh_next = IF x = handle.hh_prev THEN handle.hh_next ELSE @,
                                                            !.hh_prev = IF x = handle.hh_next THEN handle.hh_prev ELSE @]]]

-----------------------------------------------------------------------------
(* The table.                                                              *)

HASH_FIND_IN_BKT(t, b, k) ==
    LET chain == along(t.hh, t.tbl.buckets[b].hh_head, "hh_next")
    IN IF \E n \in DOMAIN chain : key[chain[n]] = k
       THEN SelectSeq(chain, LAMBDA e : key[e] = k)[1] ELSE NULL

HASH_FIND(t, k) ==
    IF t.head = NULL THEN NULL ELSE HASH_FIND_IN_BKT(t, HASH_TO_BKT(hash[k], t.tbl.num_buckets), k)

HASH_ADD_KEYPTR(t, e) ==
    LET first == [t EXCEPT !.head = e, !.hh[e] = [@ EXCEPT !.prev = NULL, !.next = NULL], !.tbl = HASH_MAKE_TABLE(e)]
        next == [t EXCEPT !.hh[e] = [@ EXCEPT !.prev = t.tbl.tail, !.next = NULL], !.hh[t.tbl.tail].next = e, !.tbl.tail = e]
        placed == IF t.head = NULL THEN first ELSE next
        counted == [placed EXCEPT !.tbl.num_items = @ + 1, !.hh[e].hashv = hash[key[e]]]
    IN HASH_ADD_TO_BKT(counted, HASH_TO_BKT(hash[key[e]], counted.tbl.num_buckets), e)

\* Mutant of HASH_DELETE: the tail is not moved.
HASH_DELETE_keeps_tail(t, e) ==
    LET handle == t.hh[e]
        unlinked == [t EXCEPT !.head = IF handle.prev = NULL THEN handle.next ELSE @,
                              !.hh = [x \in Elements |-> [t.hh[x] EXCEPT !.next = IF x = handle.prev THEN handle.next ELSE @,
                                                                         !.prev = IF x = handle.next THEN handle.prev ELSE @]]]
        removed == HASH_DEL_IN_BKT(unlinked, HASH_TO_BKT(handle.hashv, t.tbl.num_buckets), e)
    IN IF handle.prev = NULL /\ handle.next = NULL THEN [t EXCEPT !.head = NULL, !.tbl = NULL]
       ELSE [removed EXCEPT !.tbl.num_items = @ - 1]

\* With the last element the table goes; otherwise the links are patched.
HASH_DELETE(t, e) ==
    LET handle == t.hh[e]
        unlinked == [t EXCEPT !.tbl.tail = IF @ = e THEN handle.prev ELSE @,
                              !.head = IF handle.prev = NULL THEN handle.next ELSE @,
                              !.hh = [x \in Elements |-> [t.hh[x] EXCEPT !.next = IF x = handle.prev THEN handle.next ELSE @,
                                                                         !.prev = IF x = handle.next THEN handle.prev ELSE @]]]
        removed == HASH_DEL_IN_BKT(unlinked, HASH_TO_BKT(handle.hashv, t.tbl.num_buckets), e)
    IN IF handle.prev = NULL /\ handle.next = NULL THEN [t EXCEPT !.head = NULL, !.tbl = NULL]
       ELSE [removed EXCEPT !.tbl.num_items = @ - 1]

-----------------------------------------------------------------------------
(* How the broker uses it.                                                 *)

app_order == IF table.head = NULL THEN <<>> ELSE along(table.hh, table.head, "next")

\* A client connects or is restored, a line of the password file is read.
TableEnter(e) ==
    /\ ~Contains(app_order, e)
    /\ table.head # NULL => table.tbl.num_buckets <= MaxBuckets
    /\ table' = HASH_ADD_KEYPTR(table, e)

\* The element is freed once it is out of the table.
HASH_DEL(t, e) == [HASH_DELETE(t, e) EXCEPT !.hh[e] = NoHandle]

\* A client goes: the element that is found under its id is taken out.
TableLeave(k) == HASH_FIND(table, k) # NULL /\ table' = HASH_DEL(table, HASH_FIND(table, k))

\* A loop whose body deletes the element it is at: the next one was noted before.
HASH_ITER(t) ==
    LET next(u, e) == IF e = NULL THEN NULL ELSE u.hh[e].next
        step(s, n) == IF s.el = NULL THEN s
                      ELSE LET u == HASH_DEL(s.t, s.el) IN [t |-> u, el |-> s.tmp, tmp |-> next(u, s.tmp)]
    IN FoldLeft(step, [t |-> t, el |-> t.head, tmp |-> next(t, t.head)], [n \in 1..Cardinality(Elements) |-> n]).t

\* The passwords are dropped before a reload.
_unpwd_cleanup == table.head # NULL /\ table' = HASH_ITER(table)

TableNext ==
    \/ \E e \in Elements : TableEnter(e)
    \/ \E k \in {key[e] : e \in Elements} : TableLeave(k)
    \/ _unpwd_cleanup

-----------------------------------------------------------------------------
(* Properties.                                                             *)

\* The integrity check of uthash.h itself (HASH_FSCK, compiled with HASH_DEBUG
\* only): the links back agree with the links forth in every bucket and in the
\* order of the program, and every count with what it counts.
HASH_FSCK ==
    table.head # NULL =>
      LET tbl == table.tbl
          back(s, link) == \A n \in DOMAIN s : table.hh[s[n]][link] = IF n = 1 THEN NULL ELSE s[n - 1]
          chain(b) == along(table.hh, tbl.buckets[b].hh_head, "hh_next")
      IN /\ \A b \in 0..(tbl.num_buckets - 1) : back(chain(b), "hh_prev") /\ Len(chain(b)) = tbl.buckets[b].count
         /\ back(app_order, "prev") /\ Len(app_order) = tbl.num_items
         /\ tbl.tail = Last(app_order)
         /\ tbl.num_buckets = 2 ^ tbl.log2_num_buckets

\* HASH_FIND finds an element with the key exactly when one was entered and has
\* not left, however often the buckets were doubled in between.
FoundIfThere ==
    \A k \in {key[e] : e \in Elements} :
      IF \E n \in DOMAIN app_order : key[app_order[n]] = k
      THEN /\ Contains(app_order, HASH_FIND(table, k))
           /\ key[HASH_FIND(table, k)] = k
      ELSE HASH_FIND(table, k) = NULL

\* Whatever is added and deleted, the buckets hold what the list of all elements
\* holds, and hold it where it is looked for.
TableIsSound == HASH_FSCK /\ FoundIfThere

Ordered == INSTANCE OrderedTable WITH items <- app_order

\* The table is a list of elements in the order of their additions, whatever its
\* buckets do, and HASH_ITER with a deletion in its body (_unpwd_cleanup in
\* security_default.c) empties it.
ImplementsOrderedTable == Ordered!TableSpec
=============================================================================
