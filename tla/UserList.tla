------------------------------ MODULE UserList ------------------------------
(***************************************************************************)
(* The uthash tables behind psn->friends, psn->friend_requests_incoming    *)
(* and psn->friend_requests_outgoing (psn.h).  uthash never looks for an   *)
(* equal key when an item is added, so a table may hold several items of   *)
(* the same name; HASH_FIND_STR returns one of them and HASH_DEL unlinks   *)
(* that one.  The items of one name differ in nothing psn reads, so a      *)
(* table is a bag: the number of items it holds under each name.           *)
(***************************************************************************)
EXTENDS Naturals

\* A NULL head pointer: the table before the first HASH_ADD_STR.
EmptyList(Names) == [n \in Names |-> 0]

HASH_FIND_STR(list, name) == list[name] > 0

HASH_ADD_STR(list, name) == [list EXCEPT ![name] = @ + 1]

\* Only called on an item HASH_FIND_STR has returned.
HASH_DEL(list, name) == [list EXCEPT ![name] = @ - 1]
=============================================================================
