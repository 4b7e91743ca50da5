----------------------------- MODULE Friendship -----------------------------
(***************************************************************************)
(* What the friend handshake of psn promises, without a network.           *)
(*                                                                         *)
(* A user consents to a friendship with "add" or "accept"; each consent is *)
(* one offer.  A user enters a friend list only by consuming one offer of  *)
(* the list's owner, and only if it has itself consented at some time.     *)
(***************************************************************************)
EXTENDS UserList

CONSTANT Users

VARIABLES
    offers,   \* offers[u][v]: consents of u to v that are not used up
    asked,    \* the pairs <<u, v>> such that u has ever consented to v
    friends   \* friends[u][v]: entries of v in u's friend list

vars == <<offers, asked, friends>>

Init ==
    /\ offers = [u \in Users |-> EmptyList(Users)]
    /\ asked = {}
    /\ friends = [u \in Users |-> EmptyList(Users)]

Offer(u, v) ==
    /\ offers' = [offers EXCEPT ![u] = HASH_ADD_STR(@, v)]
    /\ asked' = asked \cup {<<u, v>>}
    /\ UNCHANGED friends

Befriend(u, v) ==
    /\ HASH_FIND_STR(offers[u], v)
    /\ <<v, u>> \in asked
    /\ offers' = [offers EXCEPT ![u] = HASH_DEL(@, v)]
    /\ friends' = [friends EXCEPT ![u] = HASH_ADD_STR(@, v)]
    /\ UNCHANGED asked

Unfriend(u, v) ==
    /\ HASH_FIND_STR(friends[u], v)
    /\ friends' = [friends EXCEPT ![u] = HASH_DEL(@, v)]
    /\ UNCHANGED <<offers, asked>>

\* The process of u ends and takes its lists with it.
Forget(u) ==
    /\ offers' = [offers EXCEPT ![u] = EmptyList(Users)]
    /\ friends' = [friends EXCEPT ![u] = EmptyList(Users)]
    /\ UNCHANGED asked

Next ==
    \E u \in Users :
        \/ Forget(u)
        \/ \E v \in Users : Offer(u, v) \/ Befriend(u, v) \/ Unfriend(u, v)

Spec == Init /\ [][Next]_vars
=============================================================================
