---------------------------- MODULE OrderedTable ----------------------------
(* What a hash table is to the program that uses it: a list of elements in   *)
(* the order in which they were added, from which any one can be taken.      *)
EXTENDS Sequences, SequencesExt

CONSTANT Elements

VARIABLE items

TableAdd(e) == ~Contains(items, e) /\ items' = Append(items, e)

TableDelete(e) == Contains(items, e) /\ items' = Remove(items, e)

TableClear == items' = <<>>

TableSpec ==
    items = <<>> /\ [][TableClear \/ \E e \in Elements : TableAdd(e) \/ TableDelete(e)]_items
=============================================================================
