------------------------- MODULE PsnPersist_proofs --------------------------
(***************************************************************************)
(* Proofs about psn, for any set of users and any bounds: the friend lists *)
(* and the handshake (PsnClients), and what saving and loading them keeps  *)
(* (PsnPersist), where the config file makes no friend of somebody who     *)
(* never was at an end of a request with the user.                         *)
(***************************************************************************)
EXTENDS PsnPersist, TLAPS

-----------------------------------------------------------------------------
(* Type correctness.                                                       *)

\* A bag of names stays one when an entry is added, and when an entry that
\* was found is removed.
LEMMA ListType ==
    ASSUME NEW list \in [Users -> Nat], NEW v \in Users
    PROVE  /\ HASH_ADD_STR(list, v) \in [Users -> Nat]
           /\ HASH_FIND_STR(list, v) => HASH_DEL(list, v) \in [Users -> Nat]
  BY DEF HASH_ADD_STR, HASH_FIND_STR, HASH_DEL

\* A new table is a bag of names.
LEMMA EmptyListType == EmptyList(Users) \in [Users -> Nat]
  BY DEF EmptyList

\* The two messages psn sends.
LEMMA MessageType ==
    ASSUME NEW u \in Users, NEW v \in Users
    PROVE  FRequest(u, v) \in Messages /\ Chat(u, v) \in Messages
  BY DEF FRequest, Chat, Messages

\* The updates of the queues and of the histories.
LEMMA OutqType ==
    ASSUME TypeOK, NEW u \in Users, NEW m \in Messages
    PROVE  /\ [outq EXCEPT ![u] = @ \cup {m}] \in [Users -> SUBSET Messages]
           /\ [outq EXCEPT ![u] = @ \ {m}] \in [Users -> SUBSET Messages]
  BY DEF TypeOK

\* mosquitto_publish keeps the messages without PUBACK a set of messages.
LEMMA PublishType ==
    ASSUME TypeOK, NEW u \in Users, NEW m \in Messages, mosquitto_publish(u, m)
    PROVE  outq' \in [Users -> SUBSET Messages]
  <1>1. CASE started[u]
    <2>1. outq' = [outq EXCEPT ![u] = @ \cup {m}]
      BY <1>1 DEF mosquitto_publish
    <2> QED
      BY <2>1, OutqType
  <1>2. CASE ~started[u]
    <2>1. outq' = outq
      BY <1>2 DEF mosquitto_publish
    <2> QED
      BY <2>1 DEF TypeOK
  <1> QED
    BY <1>1, <1>2

\* The changes of an inbox that the actions make keep it a sequence of messages.
LEMMA InboxType ==
    ASSUME TypeOK, NEW u \in Users
    PROVE  /\ [inbox EXCEPT ![u] = <<>>] \in [Users -> Seq(Messages)]
           /\ \A m \in Messages :
                 [inbox EXCEPT ![u] = Append(@, m)] \in [Users -> Seq(Messages)]
  <1>1. <<>> \in Seq(Messages)
    OBVIOUS
  <1>2. inbox \in [Users -> Seq(Messages)]
    BY DEF TypeOK
  <1>3. ASSUME NEW m \in Messages
        PROVE  [inbox EXCEPT ![u] = Append(@, m)] \in [Users -> Seq(Messages)]
    BY <1>2
  <1> QED
    BY <1>1, <1>2, <1>3

\* The history of consent and of shown lines stays a set of pairs of users.
LEMMA HistoryType ==
    ASSUME NEW h \in SUBSET (Users \X Users), NEW u \in Users, NEW v \in Users
    PROVE  h \cup {<<u, v>>} \subseteq Users \X Users
  OBVIOUS

\* The initial states are well typed.
LEMMA InitTypeOK == Init => TypeOK
  <1> SUFFICES ASSUME Init PROVE TypeOK
    OBVIOUS
  <1>1. NoLists \in [Users -> [Users -> Nat]]
    BY EmptyListType DEF NoLists
  <1>2. inbox \in [Users -> Seq(Messages)]
    BY DEF Init
  <1> QED
    BY <1>1, <1>2 DEF Init, psn_init, TypeOK, Sessions

\* Every step keeps the types; one case per action.
LEMMA NextTypeOK == TypeOK /\ [Next]_vars => TypeOK'
  <1> SUFFICES ASSUME TypeOK, [Next]_vars PROVE TypeOK'
    OBVIOUS
  <1> USE InputsAssumption
  <1>1. CASE UNCHANGED vars
    BY <1>1 DEF TypeOK, vars, lists, net
  <1>2. ASSUME NEW u \in Users, psn_connect(u) PROVE TypeOK'
    <2>1. outq' \in [Users -> SUBSET Messages]
      BY <1>2 DEF TypeOK, psn_connect
    <2>2. inbox' \in [Users -> Seq(Messages)]
      BY <1>2, InboxType DEF psn_connect
    <2>3. session' \in [Users -> Sessions]
      BY <1>2 DEF TypeOK, psn_connect, Sessions
    <2> QED
      BY <1>2, <2>1, <2>2, <2>3 DEF TypeOK, psn_connect, lists
  <1>3. ASSUME NEW u \in Users, psn_connect_fails(u) PROVE TypeOK'
    BY <1>3 DEF TypeOK, psn_connect_fails, lists, net
  <1>4. ASSUME NEW u \in Users, psn_disconnect(u) PROVE TypeOK'
    <2>1. inbox' \in [Users -> Seq(Messages)]
      <3>1. CASE mqtt3_context_cleanup(u)
        BY <3>1, InboxType DEF mqtt3_context_cleanup
      <3>2. CASE UNCHANGED inbox
        BY <3>2 DEF TypeOK
      <3> QED
        BY <1>4, <3>1, <3>2 DEF psn_disconnect
    <2>2. session' \in [Users -> Sessions]
      BY <1>4 DEF TypeOK, psn_disconnect, mqtt3_context_cleanup, Sessions
    <2> QED
      BY <1>4, <2>1, <2>2 DEF TypeOK, psn_disconnect, lists
  <1>5. ASSUME NEW u \in Users, NEW v \in Users, psn_make_friend_req(u, v) PROVE TypeOK'
    <2>1. outq' \in [Users -> SUBSET Messages]
      BY <1>5, MessageType, PublishType DEF psn_make_friend_req
    <2>2. asked' \subseteq Users \X Users
      BY <1>5, HistoryType DEF TypeOK, psn_make_friend_req
    <2>3. cli' \in [Users -> [op : {"idle", "add", "accept"}, target : Users]]
      BY <1>5 DEF TypeOK, psn_make_friend_req, Enter
    <2> QED
      BY <1>5, <2>1, <2>2, <2>3 DEF TypeOK, psn_make_friend_req, lists
  <1>6. ASSUME NEW u \in Users, make_friend_req_add(u) PROVE TypeOK'
    <2>1. cli[u].target \in Users
      BY DEF TypeOK
    <2> QED
      BY <1>6, <2>1, ListType, ZenonT(40) DEF TypeOK, make_friend_req_add, Leave, net
  <1>7. ASSUME NEW u \in Users, NEW v \in Users, psn_accept_friend_req(u, v) PROVE TypeOK'
    <2>1. outq' \in [Users -> SUBSET Messages]
      BY <1>7, MessageType, PublishType DEF psn_accept_friend_req
    <2>2. asked' \subseteq Users \X Users
      <3>1. asked \subseteq Users \X Users
        BY DEF TypeOK
      <3>2. asked' = asked \cup {<<u, v>>}
        BY <1>7 DEF psn_accept_friend_req
      <3> QED
        BY <3>1, <3>2, HistoryType
    <2>3. cli' \in [Users -> [op : {"idle", "add", "accept"}, target : Users]]
      BY <1>7 DEF TypeOK, psn_accept_friend_req, Enter
    <2>4. friend_requests_incoming' \in [Users -> [Users -> Nat]]
      BY <1>7, ListType DEF TypeOK, psn_accept_friend_req
    <2> QED
      BY <1>7, <2>1, <2>2, <2>3, <2>4 DEF TypeOK, psn_accept_friend_req
  <1>8. ASSUME NEW u \in Users, accept_friend_req_add(u) PROVE TypeOK'
    <2>1. cli[u].target \in Users
      BY DEF TypeOK
    <2> QED
      BY <1>8, <2>1, ListType DEF TypeOK, accept_friend_req_add, Leave, net
  <1>9. ASSUME NEW u \in Users, NEW v \in Users, psn_refuse_friend_req(u, v) PROVE TypeOK'
    BY <1>9, ListType DEF TypeOK, psn_refuse_friend_req, net
  <1>10. ASSUME NEW u \in Users, NEW v \in Users, psn_delete_friend(u, v) PROVE TypeOK'
    BY <1>10, ListType DEF TypeOK, psn_delete_friend, net
  <1>11. ASSUME NEW u \in Users, NEW v \in Users,
                psn_send_message(u, v) \/ psn_send_encrypted_message(u, v)
         PROVE  TypeOK'
    <2>1. outq' \in [Users -> SUBSET Messages]
      BY <1>11, MessageType, PublishType DEF psn_send_message, psn_send_encrypted_message
    <2> QED
      BY <1>11, <2>1 DEF TypeOK, psn_send_message, psn_send_encrypted_message, lists
  <1>12. ASSUME NEW u \in Users, exit(u) PROVE TypeOK'
    <2>1. inbox' \in [Users -> Seq(Messages)]
      BY <1>12, InboxType DEF exit, mqtt3_context_cleanup
    <2>2. session' \in [Users -> Sessions]
      BY <1>12 DEF TypeOK, exit, mqtt3_context_cleanup, Sessions
    <2>3. /\ friends' \in [Users -> [Users -> Nat]]
          /\ friend_requests_incoming' \in [Users -> [Users -> Nat]]
          /\ friend_requests_outgoing' \in [Users -> [Users -> Nat]]
      BY <1>12, EmptyListType DEF TypeOK, exit
    <2>4. cli' \in [Users -> [op : {"idle", "add", "accept"}, target : Users]]
      BY <1>12 DEF TypeOK, exit, Leave
    <2>5. connected' \in [Users -> BOOLEAN] /\ started' \in [Users -> BOOLEAN]
      BY <1>12 DEF TypeOK, exit
    <2>6. UNCHANGED <<outq, asked, shown>>
      BY <1>12 DEF exit
    <2> QED
      BY <2>1, <2>2, <2>3, <2>4, <2>5, <2>6 DEF TypeOK
  <1>13. ASSUME NEW u \in Users,
                broker_subscribe(u) \/ link_lost(u) \/ mosquitto_reconnect(u)
         PROVE  TypeOK'
    <2>1. inbox' \in [Users -> Seq(Messages)]
      <3>1. CASE link_lost(u)
        BY <3>1, InboxType DEF link_lost, mqtt3_context_cleanup
      <3>2. CASE UNCHANGED inbox
        BY <3>2 DEF TypeOK
      <3> QED
        BY <1>13, <3>1, <3>2 DEF broker_subscribe, mosquitto_reconnect
    <2>2. session' \in [Users -> Sessions]
      BY <1>13 DEF TypeOK, broker_subscribe, link_lost, mqtt3_context_cleanup, mosquitto_reconnect, Sessions
    <2> QED
      BY <1>13, <2>1, <2>2 DEF TypeOK, broker_subscribe, link_lost, mosquitto_reconnect, lists
  <1>14. ASSUME NEW u \in Users, NEW m \in outq[u], broker_publish(u, m) PROVE TypeOK'
    <2>1. m \in Messages /\ m.to \in Users
      BY DEF TypeOK, Messages
    <2>2. inbox' \in [Users -> Seq(Messages)]
      <3>1. CASE inbox' = [inbox EXCEPT ![m.to] = Append(@, m)]
        BY <2>1, <3>1, InboxType
      <3>2. CASE inbox' = inbox
        BY <3>2 DEF TypeOK
      <3> QED
        BY <1>14, <3>1, <3>2 DEF broker_publish, mqtt3_db_message_insert
    <2>3. outq' \in [Users -> SUBSET Messages]
      <3>1. CASE puback_out(u, m)
        BY <2>1, <3>1, OutqType DEF puback_out
      <3>2. CASE UNCHANGED outq
        BY <3>2 DEF TypeOK
      <3> QED
        BY <1>14, <3>1, <3>2 DEF broker_publish
    <2> QED
      BY <1>14, <2>2, <2>3 DEF TypeOK, broker_publish, lists
  <1>15. ASSUME NEW u \in Users, NEW m \in outq[u], lose_message(u, m) PROVE TypeOK'
    BY <1>15 DEF TypeOK, lose_message, lists
  <1>16. ASSUME NEW u \in Users, psn_message_callback(u) PROVE TypeOK'
    <2> DEFINE m == Head(inbox[u])
    <2>1. inbox[u] \in Seq(Messages) /\ inbox[u] # <<>>
      BY <1>16 DEF TypeOK, psn_message_callback
    <2>2. /\ m \in Messages
          /\ Tail(inbox[u]) \in Seq(Messages)
          /\ Append(Tail(inbox[u]), m) \in Seq(Messages)
      BY <2>1
    <2>3. m.from \in Users
      BY <2>2 DEF Messages
    <2>4. inbox' \in [Users -> Seq(Messages)]
      BY <1>16, <2>2 DEF TypeOK, psn_message_callback, puback_in, send_again
    <2>5. CASE receive_chat(u, m.from)
      <3>1. shown' \subseteq Users \X Users
        BY <2>3, <2>5, HistoryType DEF TypeOK, receive_chat
      <3> QED
        BY <1>16, <2>4, <2>5, <3>1 DEF TypeOK, psn_message_callback, receive_chat, lists
    <2>6. CASE receive_frequest(u, m.from)
      <3> DEFINE v == m.from
      <3>1. /\ HASH_ADD_STR(friends[u], v) \in [Users -> Nat]
            /\ HASH_ADD_STR(friend_requests_incoming[u], v) \in [Users -> Nat]
            /\ HASH_FIND_STR(friend_requests_outgoing[u], v) =>
                  HASH_DEL(friend_requests_outgoing[u], v) \in [Users -> Nat]
        BY <2>3, ListType DEF TypeOK
      <3> HIDE DEF v
      <3>2. CASE UNCHANGED lists
        BY <1>16, <2>4, <2>6, <3>2 DEF TypeOK, psn_message_callback, receive_frequest, lists
      <3>3. CASE HASH_FIND_STR(friend_requests_outgoing[u], v) /\ has_accepted(u, v)
        BY <1>16, <2>4, <2>6, <3>1, <3>3
           DEF TypeOK, psn_message_callback, receive_frequest, has_accepted
      <3>4. CASE sent_you_a_friend_request(u, v)
        BY <1>16, <2>4, <2>6, <3>1, <3>4
           DEF TypeOK, psn_message_callback, receive_frequest, sent_you_a_friend_request
      <3> QED
        BY <2>6, <3>2, <3>3, <3>4 DEF receive_frequest, v
    <2> QED
      BY <1>16, <2>5, <2>6 DEF psn_message_callback
  <1> QED
    BY <1>1, <1>2, <1>3, <1>4, <1>5, <1>6, <1>7, <1>8, <1>9, <1>10, <1>11,
       <1>12, <1>13, <1>14, <1>15, <1>16
       DEF Next, Command, Return, Link, Failure, Transport

\* The state of the clients and the broker keeps its type: in particular no
\* handler removes an entry that is not there (HASH_DEL of a count of 0).
THEOREM TypeCorrect == Spec => []TypeOK
  BY InitTypeOK, NextTypeOK, PTL DEF Spec

-----------------------------------------------------------------------------
(* Friendship by consent.                                                  *)

\* Why the callback may take a request for an acceptance: every request on
\* its way, and every entry it has left in a list, goes back to an "add" or an
\* "accept" of its sender, and every entry of an outgoing list, and every
\* unfinished call, to one of the list's owner.
OutqConsent ==
    \A u \in Users : \A m \in outq[u] :
        m.topic = "frequest" => <<m.from, m.to>> \in asked

InboxConsent ==
    \A u \in Users : \A i \in 1..Len(inbox[u]) :
        /\ inbox[u][i].to = u
        /\ inbox[u][i].topic = "frequest" => <<inbox[u][i].from, u>> \in asked

ListConsent ==
    \A u, v \in Users :
        /\ HASH_FIND_STR(friend_requests_incoming[u], v) => <<v, u>> \in asked
        /\ HASH_FIND_STR(friend_requests_outgoing[u], v) => <<u, v>> \in asked

CallConsent ==
    \A u \in Users :
        /\ cli[u].op \in {"add", "accept"} => <<u, cli[u].target>> \in asked
        /\ cli[u].op = "accept" => <<cli[u].target, u>> \in asked

ConsentInv ==
    /\ TypeOK
    /\ OutqConsent
    /\ InboxConsent
    /\ ListConsent
    /\ CallConsent
    /\ FriendsByConsent
    /\ ShownByConsent

\* Initially nothing is queued or listed that would need consent.
LEMMA InitConsent == Init => ConsentInv
  <1> SUFFICES ASSUME Init PROVE ConsentInv
    OBVIOUS
  <1>1. TypeOK
    BY InitTypeOK
  <1>2. OutqConsent /\ InboxConsent
    BY DEF Init, OutqConsent, InboxConsent
  <1>3. ListConsent /\ FriendsByConsent
    BY DEF Init, psn_init, NoLists, EmptyList, HASH_FIND_STR, ListConsent, FriendsByConsent
  <1>4. CallConsent /\ ShownByConsent
    BY DEF Init, CallConsent, ShownByConsent
  <1> QED
    BY <1>1, <1>2, <1>3, <1>4 DEF ConsentInv

\* What a list holds after an update.
LEMMA ListFind ==
    ASSUME NEW list \in [Users -> Nat], NEW v \in Users, NEW w \in Users
    PROVE  /\ HASH_FIND_STR(HASH_ADD_STR(list, v), w) => w = v \/ HASH_FIND_STR(list, w)
           /\ HASH_FIND_STR(HASH_DEL(list, v), w) => HASH_FIND_STR(list, w)
           /\ ~HASH_FIND_STR(EmptyList(Users), w)
  BY DEF HASH_FIND_STR, HASH_ADD_STR, HASH_DEL, EmptyList

\* Nobody takes a consent back, so what a step leaves alone stays justified.
LEMMA Frame ==
    ASSUME ConsentInv, asked \subseteq asked'
    PROVE  /\ UNCHANGED outq => OutqConsent'
           /\ UNCHANGED inbox => InboxConsent'
           /\ UNCHANGED <<friend_requests_incoming, friend_requests_outgoing>> => ListConsent'
           /\ UNCHANGED friends => FriendsByConsent'
           /\ UNCHANGED cli => CallConsent'
           /\ UNCHANGED shown => ShownByConsent'
  <1>1. UNCHANGED outq => OutqConsent'
    BY DEF ConsentInv, OutqConsent
  <1>2. UNCHANGED inbox => InboxConsent'
    BY DEF ConsentInv, InboxConsent
  <1>3. UNCHANGED <<friend_requests_incoming, friend_requests_outgoing>> => ListConsent'
    BY DEF ConsentInv, ListConsent
  <1>4. UNCHANGED friends => FriendsByConsent'
    BY DEF ConsentInv, FriendsByConsent
  <1>5. UNCHANGED cli => CallConsent'
    BY DEF ConsentInv, CallConsent
  <1>6. UNCHANGED shown => ShownByConsent'
    BY DEF ConsentInv, ShownByConsent
  <1> QED
    BY <1>1, <1>2, <1>3, <1>4, <1>5, <1>6

\* A message that is published, or comes out of outq, is justified.
LEMMA PublishConsent ==
    ASSUME ConsentInv, asked \subseteq asked', NEW u \in Users, NEW m \in Messages,
           mosquitto_publish(u, m),
           m.topic = "frequest" => <<m.from, m.to>> \in asked'
    PROVE  OutqConsent'
  <1> SUFFICES ASSUME NEW w \in Users, NEW n \in outq'[w], n.topic = "frequest"
               PROVE  <<n.from, n.to>> \in asked'
    BY DEF OutqConsent
  <1>1. n \in outq[w] \/ n = m
    BY DEF mosquitto_publish, ConsentInv, TypeOK
  <1> QED
    BY <1>1 DEF ConsentInv, OutqConsent

\* A step that only removes messages keeps their justification.
LEMMA OutqShrinks ==
    ASSUME ConsentInv, asked \subseteq asked', NEW u \in Users, NEW kept \in SUBSET outq[u],
           outq' = [outq EXCEPT ![u] = kept]
    PROVE  OutqConsent'
  <1> SUFFICES ASSUME NEW w \in Users, NEW n \in outq'[w], n.topic = "frequest"
               PROVE  <<n.from, n.to>> \in asked'
    BY DEF OutqConsent
  <1>1. n \in outq[w]
    BY DEF ConsentInv, TypeOK
  <1> QED
    BY <1>1 DEF ConsentInv, OutqConsent

\* A new queue of u whose elements were in the old one, or are justified.
LEMMA InboxUpdate ==
    ASSUME ConsentInv, asked \subseteq asked', NEW u \in Users, NEW q \in Seq(Messages),
           inbox' = [inbox EXCEPT ![u] = q],
           \A i \in 1..Len(q) :
              \/ \E j \in 1..Len(inbox[u]) : q[i] = inbox[u][j]
              \/ q[i].to = u /\ (q[i].topic = "frequest" => <<q[i].from, u>> \in asked)
    PROVE  InboxConsent'
  <1> SUFFICES ASSUME NEW w \in Users, NEW i \in 1..Len(inbox'[w])
               PROVE  /\ inbox'[w][i].to = w
                      /\ inbox'[w][i].topic = "frequest" => <<inbox'[w][i].from, w>> \in asked'
    BY DEF InboxConsent
  <1>1. CASE w # u
    <2>1. inbox'[w] = inbox[w]
      BY <1>1 DEF ConsentInv, TypeOK
    <2> QED
      BY <2>1 DEF ConsentInv, InboxConsent
  <1>2. CASE w = u
    <2>1. inbox'[w] = q
      BY <1>2 DEF ConsentInv, TypeOK
    <2> QED
      BY <1>2, <2>1 DEF ConsentInv, InboxConsent
  <1> QED
    BY <1>1, <1>2

\* A step that only empties an inbox keeps the justification of the others.
LEMMA InboxCleared ==
    ASSUME ConsentInv, asked \subseteq asked', NEW u \in Users,
           inbox' = [inbox EXCEPT ![u] = <<>>]
    PROVE  InboxConsent'
  <1>1. <<>> \in Seq(Messages) /\ Len(<<>>) = 0
    OBVIOUS
  <1>2. \A i \in 1..Len(<<>>) : FALSE
    BY <1>1
  <1> QED
    BY <1>1, <1>2, InboxUpdate

\* The call a command line thread is inside changes.
LEMMA LeaveConsent ==
    ASSUME ConsentInv, asked \subseteq asked', NEW u \in Users, Leave(u)
    PROVE  CallConsent'
  <1> SUFFICES ASSUME NEW w \in Users
               PROVE  /\ cli'[w].op \in {"add", "accept"} => <<w, cli'[w].target>> \in asked'
                      /\ cli'[w].op = "accept" => <<cli'[w].target, w>> \in asked'
    BY DEF CallConsent
  <1>1. CASE w = u
    <2>1. cli'[w].op = "idle"
      BY <1>1 DEF Leave, ConsentInv, TypeOK
    <2> QED
      BY <2>1
  <1>2. CASE w # u
    <2>1. cli'[w] = cli[w]
      BY <1>2 DEF Leave, ConsentInv, TypeOK
    <2> QED
      BY <2>1 DEF ConsentInv, CallConsent
  <1> QED
    BY <1>1, <1>2

\* A call that publishes a request records the consent of its user first.
LEMMA EnterConsent ==
    ASSUME ConsentInv, asked \subseteq asked', NEW u \in Users, NEW v \in Users,
           NEW op, Enter(u, op, v),
           <<u, v>> \in asked', op = "accept" => <<v, u>> \in asked'
    PROVE  CallConsent'
  <1> SUFFICES ASSUME NEW w \in Users
               PROVE  /\ cli'[w].op \in {"add", "accept"} => <<w, cli'[w].target>> \in asked'
                      /\ cli'[w].op = "accept" => <<cli'[w].target, w>> \in asked'
    BY DEF CallConsent
  <1>1. CASE w = u
    <2>1. cli'[w].op = op /\ cli'[w].target = v
      BY <1>1 DEF Enter, ConsentInv, TypeOK
    <2> QED
      BY <1>1, <2>1
  <1>2. CASE w # u
    <2>1. cli'[w] = cli[w]
      BY <1>2 DEF Enter, ConsentInv, TypeOK
    <2> QED
      BY <2>1 DEF ConsentInv, CallConsent
  <1> QED
    BY <1>1, <1>2

\* The friend list of u changes to one whose entries are old or justified.
LEMMA FriendsUpdate ==
    ASSUME ConsentInv, asked \subseteq asked', NEW u \in Users, NEW list,
           friends' = [friends EXCEPT ![u] = list],
           \A w \in Users : HASH_FIND_STR(list, w) =>
               HASH_FIND_STR(friends[u], w) \/ (<<u, w>> \in asked' /\ <<w, u>> \in asked')
    PROVE  FriendsByConsent'
  <1> SUFFICES ASSUME NEW x \in Users, NEW w \in Users, HASH_FIND_STR(friends'[x], w)
               PROVE  {<<x, w>>, <<w, x>>} \subseteq asked'
    BY DEF FriendsByConsent
  <1>1. CASE HASH_FIND_STR(friends[x], w)
    <2>1. {<<x, w>>, <<w, x>>} \subseteq asked
      BY <1>1 DEF ConsentInv, FriendsByConsent
    <2> QED
      BY <2>1
  <1>2. CASE x = u /\ <<u, w>> \in asked' /\ <<w, u>> \in asked'
    BY <1>2
  <1>3. x = u => friends'[x] = list
    BY DEF ConsentInv, TypeOK
  <1>4. x # u => friends'[x] = friends[x]
    BY DEF ConsentInv, TypeOK
  <1> QED
    BY <1>1, <1>2, <1>3, <1>4

\* Every step keeps the consent invariant; one case per action.
LEMMA NextConsent == ConsentInv /\ [Next]_vars => ConsentInv'
  <1> SUFFICES ASSUME ConsentInv, [Next]_vars PROVE ConsentInv'
    OBVIOUS
  <1> USE InputsAssumption
  <1> DEFINE Goal == /\ OutqConsent /\ InboxConsent /\ ListConsent
                     /\ CallConsent /\ FriendsByConsent /\ ShownByConsent
  <1>0. TypeOK /\ TypeOK'
    BY NextTypeOK DEF ConsentInv
  <1>1. ASSUME UNCHANGED vars PROVE Goal'
    <2>1. asked \subseteq asked'
      BY <1>1 DEF vars
    <2> QED
      BY <1>1, <2>1, Frame DEF vars, lists, net
  <1>2. ASSUME NEW u \in Users, psn_connect(u) PROVE Goal'
    <2>1. asked \subseteq asked' /\ inbox' = [inbox EXCEPT ![u] = <<>>]
      BY <1>2 DEF psn_connect
    <2>2. OutqConsent'
      BY <1>2, <2>1, Frame, OutqShrinks DEF psn_connect
    <2> QED
      BY <1>2, <2>1, <2>2, Frame, InboxCleared DEF psn_connect, lists
  <1>3. ASSUME NEW u \in Users, psn_connect_fails(u) PROVE Goal'
    <2>1. asked \subseteq asked'
      BY <1>3 DEF psn_connect_fails
    <2> QED
      BY <1>3, <2>1, Frame DEF psn_connect_fails, lists, net
  <1>4. ASSUME NEW u \in Users, psn_disconnect(u) PROVE Goal'
    <2>1. asked \subseteq asked'
      BY <1>4 DEF psn_disconnect
    <2>2. InboxConsent'
      BY <1>4, <2>1, Frame, InboxCleared DEF psn_disconnect, mqtt3_context_cleanup
    <2> QED
      BY <1>4, <2>1, <2>2, Frame DEF psn_disconnect, lists
  <1>5. ASSUME NEW u \in Users, NEW v \in Users, psn_make_friend_req(u, v) PROVE Goal'
    <2>1. asked \subseteq asked' /\ <<u, v>> \in asked'
      BY <1>5 DEF psn_make_friend_req
    <2>2. OutqConsent'
      <3>1. FRequest(u, v) \in Messages /\ mosquitto_publish(u, FRequest(u, v))
        BY <1>5, MessageType DEF psn_make_friend_req
      <3>2. <<FRequest(u, v).from, FRequest(u, v).to>> \in asked'
        BY <2>1 DEF FRequest
      <3> QED
        BY <2>1, <3>1, <3>2, PublishConsent
    <2>3. CallConsent'
      BY <1>5, <2>1, EnterConsent DEF psn_make_friend_req
    <2> QED
      BY <1>5, <2>1, <2>2, <2>3, Frame DEF psn_make_friend_req, lists
  <1>6. ASSUME NEW u \in Users, make_friend_req_add(u) PROVE Goal'
    <2>1. asked \subseteq asked' /\ asked' = asked
      BY <1>6 DEF make_friend_req_add
    <2>2. cli[u].target \in Users /\ <<u, cli[u].target>> \in asked
      BY <1>0, <1>6 DEF ConsentInv, CallConsent, make_friend_req_add, TypeOK
    <2>3. ListConsent'
      BY <1>0, <1>6, <2>1, <2>2, ListFind DEF ConsentInv, ListConsent, make_friend_req_add, TypeOK
    <2>4. CallConsent'
      BY <1>6, <2>1, LeaveConsent DEF make_friend_req_add
    <2> QED
      BY <1>6, <2>1, <2>3, <2>4, Frame DEF make_friend_req_add, net
  <1>7. ASSUME NEW u \in Users, NEW v \in Users, psn_accept_friend_req(u, v) PROVE Goal'
    <2>1. asked \subseteq asked' /\ <<u, v>> \in asked'
      BY <1>7 DEF psn_accept_friend_req
    <2>2. OutqConsent'
      <3>1. FRequest(u, v) \in Messages /\ mosquitto_publish(u, FRequest(u, v))
        BY <1>7, MessageType DEF psn_accept_friend_req
      <3>2. <<FRequest(u, v).from, FRequest(u, v).to>> \in asked'
        BY <2>1 DEF FRequest
      <3> QED
        BY <2>1, <3>1, <3>2, PublishConsent
    <2>3. <<v, u>> \in asked
      BY <1>7 DEF ConsentInv, ListConsent, psn_accept_friend_req
    <2>4. CallConsent'
      BY <1>7, <2>1, <2>3, EnterConsent DEF psn_accept_friend_req
    <2>5. ListConsent'
      BY <1>0, <1>7, <2>1, ListFind DEF ConsentInv, ListConsent, psn_accept_friend_req, TypeOK
    <2> QED
      BY <1>7, <2>1, <2>2, <2>4, <2>5, Frame DEF psn_accept_friend_req
  <1>8. ASSUME NEW u \in Users, accept_friend_req_add(u) PROVE Goal'
    <2>1. asked \subseteq asked' /\ asked' = asked
      BY <1>8 DEF accept_friend_req_add
    <2>2. /\ cli[u].target \in Users
          /\ <<u, cli[u].target>> \in asked
          /\ <<cli[u].target, u>> \in asked
      BY <1>0, <1>8 DEF ConsentInv, CallConsent, accept_friend_req_add, TypeOK
    <2>3. FriendsByConsent'
      <3> DEFINE list == HASH_ADD_STR(friends[u], cli[u].target)
      <3>1. friends' = [friends EXCEPT ![u] = list]
        BY <1>8 DEF accept_friend_req_add
      <3>2. friends[u] \in [Users -> Nat]
        BY <1>0 DEF TypeOK
      <3>3. \A w \in Users : HASH_FIND_STR(list, w) =>
              HASH_FIND_STR(friends[u], w) \/ (<<u, w>> \in asked' /\ <<w, u>> \in asked')
        BY <2>1, <2>2, <3>2, ListFind
      <3> HIDE DEF list
      <3> QED
        BY <3>1, <3>3, <2>1, FriendsUpdate
    <2>4. CallConsent'
      BY <1>8, <2>1, LeaveConsent DEF accept_friend_req_add
    <2> QED
      BY <1>8, <2>1, <2>3, <2>4, Frame DEF accept_friend_req_add, net
  <1>9. ASSUME NEW u \in Users, NEW v \in Users, psn_refuse_friend_req(u, v) PROVE Goal'
    <2>1. asked \subseteq asked'
      BY <1>9 DEF psn_refuse_friend_req
    <2>2. ListConsent'
      BY <1>0, <1>9, <2>1, ListFind DEF ConsentInv, ListConsent, psn_refuse_friend_req, TypeOK
    <2> QED
      BY <1>9, <2>1, <2>2, Frame DEF psn_refuse_friend_req, net
  <1>10. ASSUME NEW u \in Users, NEW v \in Users, psn_delete_friend(u, v) PROVE Goal'
    <2>1. asked \subseteq asked'
      BY <1>10 DEF psn_delete_friend
    <2>2. FriendsByConsent'
      <3> DEFINE list == HASH_DEL(friends[u], v)
      <3>1. friends' = [friends EXCEPT ![u] = list]
        BY <1>10 DEF psn_delete_friend
      <3>2. friends[u] \in [Users -> Nat]
        BY <1>0 DEF TypeOK
      <3>3. \A w \in Users : HASH_FIND_STR(list, w) =>
              HASH_FIND_STR(friends[u], w) \/ (<<u, w>> \in asked' /\ <<w, u>> \in asked')
        BY <3>2, ListFind
      <3> HIDE DEF list
      <3> QED
        BY <3>1, <3>3, <2>1, FriendsUpdate
    <2> QED
      BY <1>10, <2>1, <2>2, Frame DEF psn_delete_friend, net
  <1>11. ASSUME NEW u \in Users, NEW v \in Users,
                psn_send_message(u, v) \/ psn_send_encrypted_message(u, v)
         PROVE  Goal'
    <2>1. asked \subseteq asked'
      BY <1>11 DEF psn_send_message, psn_send_encrypted_message
    <2>2. Chat(u, v) \in Messages /\ Chat(u, v).topic # "frequest"
      BY MessageType DEF Chat
    <2>3. OutqConsent'
      BY <1>11, <2>1, <2>2, PublishConsent DEF psn_send_message, psn_send_encrypted_message
    <2> QED
      BY <1>11, <2>1, <2>3, Frame DEF psn_send_message, psn_send_encrypted_message, lists
  <1>12. ASSUME NEW u \in Users, exit(u) PROVE Goal'
    <2>1. asked \subseteq asked' /\ asked' = asked /\ inbox' = [inbox EXCEPT ![u] = <<>>]
      BY <1>12 DEF exit, mqtt3_context_cleanup
    <2>2. ListConsent'
      BY <1>0, <1>12, <2>1, ListFind DEF ConsentInv, ListConsent, exit, TypeOK
    <2>3. FriendsByConsent'
      <3> DEFINE list == EmptyList(Users)
      <3>1. friends' = [friends EXCEPT ![u] = list]
        BY <1>12 DEF exit
      <3>2. friends[u] \in [Users -> Nat]
        BY <1>0 DEF TypeOK
      <3>3. \A w \in Users : HASH_FIND_STR(list, w) =>
              HASH_FIND_STR(friends[u], w) \/ (<<u, w>> \in asked' /\ <<w, u>> \in asked')
        BY <3>2, ListFind
      <3> HIDE DEF list
      <3> QED
        BY <3>1, <3>3, <2>1, FriendsUpdate
    <2>4. CallConsent'
      BY <1>12, <2>1, LeaveConsent DEF exit
    <2> QED
      BY <1>12, <2>1, <2>2, <2>3, <2>4, Frame, InboxCleared DEF exit
  <1>13. ASSUME NEW u \in Users,
                broker_subscribe(u) \/ link_lost(u) \/ mosquitto_reconnect(u)
         PROVE  Goal'
    <2>1. asked \subseteq asked'
      BY <1>13 DEF broker_subscribe, link_lost, mosquitto_reconnect
    <2>2. InboxConsent'
      BY <1>13, <2>1, Frame, InboxCleared DEF broker_subscribe, link_lost, mqtt3_context_cleanup, mosquitto_reconnect
    <2> QED
      BY <1>13, <2>1, <2>2, Frame DEF broker_subscribe, link_lost, mosquitto_reconnect, lists
  <1>14. ASSUME NEW u \in Users, NEW m \in outq[u], broker_publish(u, m) PROVE Goal'
    <2>1. asked \subseteq asked'
      BY <1>14 DEF broker_publish
    <2>2. m \in Messages /\ m.to \in Users /\ (m.topic = "frequest" => <<m.from, m.to>> \in asked)
      <3>1. m \in Messages
        BY <1>0 DEF TypeOK
      <3>2. m.topic = "frequest" => <<m.from, m.to>> \in asked
        BY DEF ConsentInv, OutqConsent
      <3> QED
        BY <3>1, <3>2 DEF Messages
    <2>3. OutqConsent'
      BY <1>14, <2>1, Frame, OutqShrinks DEF broker_publish, puback_out
    <2>4. InboxConsent'
      <3> DEFINE q == Append(inbox[m.to], m)
      <3>1. CASE UNCHANGED inbox
        BY <2>1, <3>1, Frame
      <3>2. CASE inbox' = [inbox EXCEPT ![m.to] = q]
        <4>1. inbox[m.to] \in Seq(Messages)
          BY <1>0, <2>2 DEF TypeOK
        <4>2. /\ q \in Seq(Messages)
              /\ \A i \in 1..Len(q) :
                    q[i] = m \/ \E j \in 1..Len(inbox[m.to]) : q[i] = inbox[m.to][j]
          BY <2>2, <4>1
        <4> HIDE DEF q
        <4> QED
          BY <2>1, <2>2, <3>2, <4>2, InboxUpdate
      <3> QED
        BY <1>14, <3>1, <3>2 DEF broker_publish, mqtt3_db_message_insert
    <2> QED
      BY <1>14, <2>1, <2>3, <2>4, Frame DEF broker_publish, lists
  <1>15. ASSUME NEW u \in Users, NEW m \in outq[u], lose_message(u, m) PROVE Goal'
    <2>1. asked \subseteq asked'
      BY <1>15 DEF lose_message
    <2>2. OutqConsent'
      BY <1>15, <2>1, OutqShrinks DEF lose_message
    <2> QED
      BY <1>15, <2>1, <2>2, Frame DEF lose_message, lists
  <1>16. ASSUME NEW u \in Users, psn_message_callback(u) PROVE Goal'
    <2> DEFINE m == Head(inbox[u])
    <2>1. asked \subseteq asked' /\ asked' = asked
      BY <1>16 DEF psn_message_callback
    <2>2. inbox[u] \in Seq(Messages) /\ inbox[u] # <<>>
      BY <1>0, <1>16 DEF TypeOK, psn_message_callback
    <2>3. m \in Messages /\ m = inbox[u][1] /\ 1 \in 1..Len(inbox[u])
      BY <2>2
    <2>4. m.from \in Users /\ (m.topic = "frequest" => <<m.from, u>> \in asked)
      BY <2>3 DEF ConsentInv, InboxConsent, Messages
    <2>5. InboxConsent'
      <3>1. CASE puback_in(u)
        <4> DEFINE q == Tail(inbox[u])
        <4>1. /\ q \in Seq(Messages)
              /\ \A i \in 1..Len(q) : \E j \in 1..Len(inbox[u]) : q[i] = inbox[u][j]
          BY <2>2
        <4>2. inbox' = [inbox EXCEPT ![u] = q]
          BY <3>1 DEF puback_in
        <4> HIDE DEF q
        <4> QED
          BY <2>1, <4>1, <4>2, InboxUpdate
      <3>2. CASE send_again(u)
        <4> DEFINE q == Append(Tail(inbox[u]), Head(inbox[u]))
        <4>1. /\ q \in Seq(Messages)
              /\ \A i \in 1..Len(q) : \E j \in 1..Len(inbox[u]) : q[i] = inbox[u][j]
          BY <2>2, <2>3
        <4>2. inbox' = [inbox EXCEPT ![u] = q]
          BY <3>2 DEF send_again
        <4> HIDE DEF q
        <4> QED
          BY <2>1, <4>1, <4>2, InboxUpdate
      <3> QED
        BY <1>16, <3>1, <3>2 DEF psn_message_callback
    <2> HIDE DEF m
    <2>6. CASE m.topic = "chat" /\ receive_chat(u, m.from)
      <3>1. ShownByConsent'
        BY <2>1, <2>4, <2>6 DEF ConsentInv, ShownByConsent, FriendsByConsent, receive_chat
      <3> QED
        BY <1>16, <2>1, <2>5, <2>6, <3>1, Frame DEF psn_message_callback, receive_chat, lists
    <2>7. CASE m.topic = "frequest" /\ receive_frequest(u, m.from)
      <3> DEFINE v == m.from
      <3>1. v \in Users /\ <<v, u>> \in asked
        BY <2>4, <2>7
      <3> HIDE DEF v
      <3>2. CASE UNCHANGED lists
        BY <1>16, <2>1, <2>5, <2>7, <3>2, Frame DEF psn_message_callback, receive_frequest, lists
      <3>3. CASE HASH_FIND_STR(friend_requests_outgoing[u], v) /\ has_accepted(u, v)
        <4>1. <<u, v>> \in asked
          BY <3>1, <3>3 DEF ConsentInv, ListConsent
        <4>2. FriendsByConsent'
          <5> DEFINE list == HASH_ADD_STR(friends[u], v)
          <5>1. friends' = [friends EXCEPT ![u] = list]
            BY <3>3 DEF has_accepted
          <5>2. friends[u] \in [Users -> Nat]
            BY <1>0 DEF TypeOK
          <5>3. \A w \in Users : HASH_FIND_STR(list, w) =>
                  HASH_FIND_STR(friends[u], w) \/ (<<u, w>> \in asked' /\ <<w, u>> \in asked')
            BY <2>1, <3>1, <4>1, <5>2, ListFind
          <5> HIDE DEF list
          <5> QED
            BY <5>1, <5>3, <2>1, FriendsUpdate
        <4>3. ListConsent'
          BY <1>0, <2>1, <3>1, <3>3, ListFind DEF ConsentInv, ListConsent, has_accepted, TypeOK
        <4> QED
          BY <1>16, <2>1, <2>5, <2>7, <4>2, <4>3, Frame DEF psn_message_callback, receive_frequest
      <3>4. CASE sent_you_a_friend_request(u, v)
        <4>1. ListConsent'
          BY <1>0, <2>1, <3>1, <3>4, ListFind
             DEF ConsentInv, ListConsent, sent_you_a_friend_request, TypeOK
        <4> QED
          BY <1>16, <2>1, <2>5, <2>7, <3>4, <4>1, Frame
             DEF psn_message_callback, receive_frequest, sent_you_a_friend_request
      <3> QED
        BY <2>7, <3>2, <3>3, <3>4 DEF receive_frequest, v
    <2> QED
      BY <1>16, <2>6, <2>7 DEF psn_message_callback, m
  <1>17. Goal'
    BY <1>1, <1>2, <1>3, <1>4, <1>5, <1>6, <1>7, <1>8, <1>9, <1>10, <1>11,
       <1>12, <1>13, <1>14, <1>15, <1>16
       DEF Next, Command, Return, Link, Failure, Transport
  <1> QED
    BY <1>0, <1>17 DEF ConsentInv

\* Whatever the users type, the threads interleave and the network repeats,
\* drops and reorders, nobody gets into a friend list without having typed
\* "add" or "accept" for its owner, nor without the owner having done so.
THEOREM Consent == Spec => []FriendsByConsent
  <1>1. ConsentInv => FriendsByConsent
    BY DEF ConsentInv
  <1> QED
    BY <1>1, InitConsent, NextConsent, PTL DEF Spec

\* The same for the lines psn_message_callback shows.
THEOREM ConsentToShow == Spec => []ShownByConsent
  <1>1. ConsentInv => ShownByConsent
    BY DEF ConsentInv
  <1> QED
    BY <1>1, InitConsent, NextConsent, PTL DEF Spec

-----------------------------------------------------------------------------
(* A name is known at most twice.                                          *)

\* What the bound says of one pair, as a sum of naturals.
LEMMA KnownNat ==
    ASSUME TypeOK, NEW u \in Users, NEW v \in Users
    PROVE  /\ friends[u][v] \in Nat
           /\ friend_requests_incoming[u][v] \in Nat
           /\ Accepting(u, v) \in {0, 1}
  BY DEF TypeOK, Accepting

\* A step that touches only the lists of u, at the name v.
LEMMA KnownUpdate ==
    ASSUME TypeOK, KnownAtMostTwice, NEW u \in Users, NEW v \in Users,
           \A x, w \in Users : x # u \/ w # v =>
               /\ friends'[x][w] = friends[x][w]
               /\ friend_requests_incoming'[x][w] = friend_requests_incoming[x][w]
               /\ Accepting(x, w)' = Accepting(x, w),
           friend_requests_incoming'[u][v] <= 1,
           friends'[u][v] + friend_requests_incoming'[u][v] + Accepting(u, v)' <= 2
    PROVE  KnownAtMostTwice'
  <1> SUFFICES ASSUME NEW x \in Users, NEW w \in Users
               PROVE  /\ friend_requests_incoming'[x][w] <= 1
                      /\ friends'[x][w] + friend_requests_incoming'[x][w] + Accepting(x, w)' <= 2
    BY DEF KnownAtMostTwice
  <1>1. CASE x = u /\ w = v
    BY <1>1
  <1>2. CASE x # u \/ w # v
    <2>1. /\ friends'[x][w] = friends[x][w]
          /\ friend_requests_incoming'[x][w] = friend_requests_incoming[x][w]
          /\ Accepting(x, w)' = Accepting(x, w)
      BY <1>2
    <2>2. /\ friend_requests_incoming[x][w] <= 1
          /\ friends[x][w] + friend_requests_incoming[x][w] + Accepting(x, w) <= 2
      BY DEF KnownAtMostTwice
    <2> QED
      BY <2>1, <2>2
  <1> QED
    BY <1>1, <1>2

\* A step that leaves the lists and the calls alone keeps the count of a name.
LEMMA KnownSame ==
    ASSUME KnownAtMostTwice, UNCHANGED <<friends, friend_requests_incoming>>,
           \A x, w \in Users : Accepting(x, w)' = Accepting(x, w)
    PROVE  KnownAtMostTwice'
  BY DEF KnownAtMostTwice

\* Every step keeps a name at most twice in the tables of a user.
LEMMA NextKnown == TypeOK /\ KnownAtMostTwice /\ [Next]_vars => KnownAtMostTwice'
  <1> SUFFICES ASSUME TypeOK, KnownAtMostTwice, [Next]_vars PROVE KnownAtMostTwice'
    OBVIOUS
  <1> USE InputsAssumption
  <1>0. ASSUME NEW u \in Users, NEW v \in Users
        PROVE  /\ friends[u][v] \in Nat
               /\ friend_requests_incoming[u][v] \in Nat
               /\ Accepting(u, v) \in {0, 1}
               /\ friend_requests_incoming[u][v] <= 1
               /\ friends[u][v] + friend_requests_incoming[u][v] + Accepting(u, v) <= 2
    BY KnownNat DEF KnownAtMostTwice
  <1>1. ASSUME UNCHANGED <<friends, friend_requests_incoming, cli>> PROVE KnownAtMostTwice'
    BY <1>1, KnownSame DEF Accepting
  <1>2. ASSUME NEW u \in Users, NEW v \in Users, psn_make_friend_req(u, v)
        PROVE  KnownAtMostTwice'
    <2>1. \A x, w \in Users : Accepting(x, w)' = Accepting(x, w)
      BY <1>2 DEF psn_make_friend_req, Idle, Enter, Accepting, TypeOK
    <2> QED
      BY <1>2, <2>1, KnownSame DEF psn_make_friend_req, lists
  <1>3. ASSUME NEW u \in Users, make_friend_req_add(u)
        PROVE  KnownAtMostTwice'
    <2>1. \A x, w \in Users : Accepting(x, w)' = Accepting(x, w)
      BY <1>3 DEF make_friend_req_add, Leave, Accepting, TypeOK
    <2> QED
      BY <1>3, <2>1, KnownSame DEF make_friend_req_add
  <1>4. ASSUME NEW u \in Users, NEW v \in Users, psn_accept_friend_req(u, v)
        PROVE  KnownAtMostTwice'
    <2>1. /\ friends' = friends
          /\ friend_requests_incoming'[u][v] = friend_requests_incoming[u][v] - 1
          /\ friend_requests_incoming[u][v] > 0
      BY <1>4 DEF psn_accept_friend_req, HASH_DEL, HASH_FIND_STR, TypeOK
    <2>2. \A x, w \in Users : x # u \/ w # v =>
             friend_requests_incoming'[x][w] = friend_requests_incoming[x][w]
      BY <1>4 DEF psn_accept_friend_req, HASH_DEL, TypeOK
    <2>3. cli[u].op = "idle" /\ cli' = [cli EXCEPT ![u] = [op |-> "accept", target |-> v]]
      BY <1>4 DEF psn_accept_friend_req, Idle, Enter
    <2>4. /\ \A x, w \in Users : x # u \/ w # v => Accepting(x, w)' = Accepting(x, w)
          /\ Accepting(u, v)' = 1
          /\ Accepting(u, v) = 0
      BY <2>3 DEF Accepting, TypeOK
    <2>5. /\ friend_requests_incoming'[u][v] <= 1
          /\ friends'[u][v] + friend_requests_incoming'[u][v] + Accepting(u, v)' <= 2
      BY <1>0, <2>1, <2>4
    <2> QED
      BY <2>1, <2>2, <2>4, <2>5, KnownUpdate
  <1>5. ASSUME NEW u \in Users, accept_friend_req_add(u)
        PROVE  KnownAtMostTwice'
    <2>0. PICK t \in Users : t = cli[u].target
      BY DEF TypeOK
    <2>1. cli[u].op = "accept"
      BY <1>5 DEF accept_friend_req_add
    <2>2. /\ friends'[u][t] = friends[u][t] + 1
          /\ \A x, w \in Users : x # u \/ w # t => friends'[x][w] = friends[x][w]
          /\ friend_requests_incoming' = friend_requests_incoming
      BY <1>5, <2>0 DEF accept_friend_req_add, HASH_ADD_STR, TypeOK
    <2>3. cli' = [cli EXCEPT ![u] = [op |-> "idle", target |-> u]]
      BY <1>5 DEF accept_friend_req_add, Leave
    <2>4. /\ \A x, w \in Users : x # u \/ w # t => Accepting(x, w)' = Accepting(x, w)
          /\ Accepting(u, t)' = 0
          /\ Accepting(u, t) = 1
      BY <2>0, <2>1, <2>3 DEF Accepting, TypeOK
    <2>5. /\ friend_requests_incoming'[u][t] <= 1
          /\ friends'[u][t] + friend_requests_incoming'[u][t] + Accepting(u, t)' <= 2
      BY <1>0, <2>2, <2>4
    <2> QED
      BY <2>2, <2>4, <2>5, KnownUpdate
  <1>6. ASSUME NEW u \in Users, NEW v \in Users,
               psn_refuse_friend_req(u, v) \/ psn_delete_friend(u, v)
        PROVE  KnownAtMostTwice'
    <2>1. \A x, w \in Users : Accepting(x, w)' = Accepting(x, w)
      BY <1>6 DEF psn_refuse_friend_req, psn_delete_friend, Accepting
    <2>2. \A x, w \in Users : x # u \/ w # v =>
             /\ friends'[x][w] = friends[x][w]
             /\ friend_requests_incoming'[x][w] = friend_requests_incoming[x][w]
      <3>1. CASE psn_refuse_friend_req(u, v)
        BY <3>1 DEF psn_refuse_friend_req, HASH_DEL, TypeOK
      <3>2. CASE psn_delete_friend(u, v)
        BY <3>2 DEF psn_delete_friend, HASH_DEL, TypeOK
      <3> QED
        BY <1>6, <3>1, <3>2
    <2>3. \/ /\ friends'[u][v] = friends[u][v]
             /\ friend_requests_incoming'[u][v] = friend_requests_incoming[u][v] - 1
          \/ /\ friends'[u][v] = friends[u][v] - 1
             /\ friend_requests_incoming'[u][v] = friend_requests_incoming[u][v]
      BY <1>6 DEF psn_refuse_friend_req, psn_delete_friend, HASH_DEL, TypeOK
    <2>4. /\ friend_requests_incoming'[u][v] <= 1
          /\ friends'[u][v] + friend_requests_incoming'[u][v] + Accepting(u, v)' <= 2
      BY <1>0, <2>1, <2>3
    <2> QED
      BY <2>1, <2>2, <2>4, KnownUpdate
  <1>7. ASSUME NEW u \in Users, exit(u)
        PROVE  KnownAtMostTwice'
    <2> SUFFICES ASSUME NEW x \in Users, NEW w \in Users
                 PROVE  /\ friend_requests_incoming'[x][w] <= 1
                        /\ friends'[x][w] + friend_requests_incoming'[x][w] + Accepting(x, w)' <= 2
      BY DEF KnownAtMostTwice
    <2>1. CASE x = u
      <3>1. friends'[x][w] = 0 /\ friend_requests_incoming'[x][w] = 0
        BY <1>7, <2>1 DEF exit, EmptyList, TypeOK
      <3>2. Accepting(x, w)' = 0
        BY <1>7, <2>1 DEF exit, Leave, Accepting, TypeOK
      <3> QED
        BY <3>1, <3>2
    <2>2. CASE x # u
      <3>1. /\ friends'[x][w] = friends[x][w]
            /\ friend_requests_incoming'[x][w] = friend_requests_incoming[x][w]
        BY <1>7, <2>2 DEF exit, TypeOK
      <3>2. Accepting(x, w)' = Accepting(x, w)
        BY <1>7, <2>2 DEF exit, Leave, Accepting, TypeOK
      <3> QED
        BY <1>0, <3>1, <3>2
    <2> QED
      BY <2>1, <2>2
  <1>8. ASSUME NEW u \in Users, psn_message_callback(u)
        PROVE  KnownAtMostTwice'
    <2>1. \A x, w \in Users : Accepting(x, w)' = Accepting(x, w)
      BY <1>8 DEF psn_message_callback, Accepting
    <2>2. PICK v \in Users : v = Head(inbox[u]).from
      <3>1. inbox[u] \in Seq(Messages) /\ inbox[u] # <<>>
        BY <1>8 DEF TypeOK, psn_message_callback
      <3>2. Head(inbox[u]) \in Messages
        BY <3>1
      <3> QED
        BY <3>2 DEF Messages
    <2>3. CASE UNCHANGED <<friends, friend_requests_incoming>>
      BY <2>1, <2>3, KnownSame
    <2>4. CASE ~already_known(u, v) /\ (has_accepted(u, v) \/ sent_you_a_friend_request(u, v))
      <3>1. friends[u][v] = 0 /\ friend_requests_incoming[u][v] = 0
        BY <1>0, <2>4 DEF already_known, HASH_FIND_STR
      <3>2. \A x, w \in Users : x # u \/ w # v =>
               /\ friends'[x][w] = friends[x][w]
               /\ friend_requests_incoming'[x][w] = friend_requests_incoming[x][w]
        <4>1. CASE has_accepted(u, v)
          BY <4>1 DEF has_accepted, HASH_ADD_STR, TypeOK
        <4>2. CASE sent_you_a_friend_request(u, v)
          BY <4>2 DEF sent_you_a_friend_request, HASH_ADD_STR, TypeOK
        <4> QED
          BY <2>4, <4>1, <4>2
      <3>3. \/ /\ friends'[u][v] = friends[u][v] + 1
               /\ friend_requests_incoming'[u][v] = friend_requests_incoming[u][v]
            \/ /\ friends'[u][v] = friends[u][v]
               /\ friend_requests_incoming'[u][v] = friend_requests_incoming[u][v] + 1
        BY <2>4 DEF has_accepted, sent_you_a_friend_request, HASH_ADD_STR, TypeOK
      <3>4. /\ friend_requests_incoming'[u][v] <= 1
            /\ friends'[u][v] + friend_requests_incoming'[u][v] + Accepting(u, v)' <= 2
        BY <1>0, <2>1, <3>1, <3>3
      <3> QED
        BY <2>1, <3>2, <3>4, KnownUpdate
    <2> QED
      BY <1>8, <2>2, <2>3, <2>4 DEF psn_message_callback, receive_chat, receive_frequest, lists
  <1>9. CASE UNCHANGED vars
    BY <1>1, <1>9 DEF vars, lists
  <1>10. ASSUME NEW u \in Users, NEW v \in Users,
                \/ psn_connect(u) \/ psn_connect_fails(u) \/ psn_disconnect(u)
                \/ psn_send_message(u, v) \/ psn_send_encrypted_message(u, v)
         PROVE  KnownAtMostTwice'
    BY <1>1, <1>10 DEF psn_connect, psn_connect_fails, psn_disconnect, psn_send_message,
                       psn_send_encrypted_message, lists
  <1>11. ASSUME NEW u \in Users, Link(u) \/ link_lost(u) \/ Transport(u)
         PROVE  KnownAtMostTwice'
    BY <1>1, <1>11 DEF Link, Transport, mosquitto_reconnect, broker_subscribe, link_lost,
                       broker_publish, lose_message, lists
  <1> QED
    BY <1>2, <1>3, <1>4, <1>5, <1>6, <1>7, <1>8, <1>9, <1>10, <1>11
       DEF Next, Command, Return, Failure

\* The race between psn_accept_friend_req and the callback can leave a name
\* in the tables twice, and nothing can leave it there three times.
THEOREM KnownTwice == Spec => []KnownAtMostTwice
  <1>1. Init => KnownAtMostTwice
    BY DEF Init, psn_init, NoLists, EmptyList, KnownAtMostTwice, Accepting
  <1> QED
    BY <1>1, InitTypeOK, NextTypeOK, NextKnown, PTL DEF Spec

-----------------------------------------------------------------------------
(* PsnClients implements Friendship, for any set of users.  offers is      *)
(* refined by Consents; add and accept publish and Offer in one step, and  *)
(* the second half of accept, or the callback that finds an outgoing       *)
(* entry, is the Befriend.                                                 *)


\* Consents as a sum, and two ways to tell what it becomes.
LEMMA ConsentsType == TypeOK => Consents \in [Users -> [Users -> Nat]]
  <1> SUFFICES ASSUME TypeOK, NEW u \in Users, NEW v \in Users
               PROVE  friend_requests_outgoing[u][v] + Adding(u, v) + Accepting(u, v) \in Nat
    BY DEF Consents
  <1>1. friend_requests_outgoing[u][v] \in Nat
    BY DEF TypeOK
  <1>2. Adding(u, v) \in Nat /\ Accepting(u, v) \in Nat
    BY DEF Adding, Accepting
  <1> QED
    BY <1>1, <1>2

\* The mapped offers depend on the outgoing entries and the calls only.
LEMMA ConsentsSame ==
    ASSUME UNCHANGED <<friend_requests_outgoing, cli>>
    PROVE  Consents' = Consents
  BY DEF Consents, Adding, Accepting

\* How the mapped offers change with one user's entries and call.
LEMMA ConsentsUpdate ==
    ASSUME TypeOK, NEW u \in Users, NEW list \in [Users -> Nat],
           \A w \in Users \ {u} :
               /\ friend_requests_outgoing'[w] = friend_requests_outgoing[w]
               /\ cli'[w] = cli[w],
           \A w \in Users :
               friend_requests_outgoing'[u][w] + Adding(u, w)' + Accepting(u, w)' = list[w]
    PROVE  Consents' = [Consents EXCEPT ![u] = list]
  <1>1. Consents'[u] = list
    BY DEF Consents
  <1>2. \A w \in Users \ {u} : Consents'[w] = Consents[w]
    BY DEF Consents, Adding, Accepting
  <1> QED
    BY <1>1, <1>2 DEF Consents

\* The initial states map to the abstract initial state.
LEMMA InitRefines == Init => Abstract!Init
  BY DEF Init, psn_init, NoLists, EmptyList, Consents, Adding, Accepting,
         Abstract!Init, Abstract!EmptyList

\* The first half of a call that publishes a request is an abstract Offer.
LEMMA OfferStep ==
    ASSUME TypeOK, NEW u \in Users, NEW v \in Users, NEW op \in {"add", "accept"},
           Idle(u), Enter(u, op, v), UNCHANGED <<friends, friend_requests_outgoing>>,
           asked' = asked \cup {<<u, v>>}
    PROVE  Abstract!Offer(u, v)
  <1> DEFINE list == HASH_ADD_STR(Consents[u], v)
  <1>1. list \in [Users -> Nat]
    BY ConsentsType, ListType
  <1>2. cli'[u].op = op /\ cli'[u].target = v
    BY DEF Enter, TypeOK
  <1>3. \A w \in Users : 
           friend_requests_outgoing'[u][w] + Adding(u, w)' + Accepting(u, w)' = list[w]
    <2> SUFFICES ASSUME NEW w \in Users
                 PROVE  friend_requests_outgoing'[u][w] + Adding(u, w)' + Accepting(u, w)' = list[w]
      OBVIOUS
    <2>1. Adding(u, w) = 0 /\ Accepting(u, w) = 0
      BY DEF Idle, Adding, Accepting
    <2>2. Adding(u, w)' + Accepting(u, w)' = IF w = v THEN 1 ELSE 0
      BY <1>2 DEF Adding, Accepting
    <2>3. friend_requests_outgoing[u][w] \in Nat
      BY DEF TypeOK
    <2>4. Consents[u][w] = friend_requests_outgoing[u][w] + Adding(u, w) + Accepting(u, w)
      BY DEF Consents
    <2>5. list[w] = IF w = v THEN Consents[u][w] + 1 ELSE Consents[u][w]
      BY ConsentsType DEF HASH_ADD_STR
    <2>6. Adding(u, w)' \in Nat /\ Accepting(u, w)' \in Nat
      BY DEF Adding, Accepting
    <2> QED
      BY <2>1, <2>2, <2>3, <2>4, <2>5, <2>6
  <1>4. \A w \in Users \ {u} : cli'[w] = cli[w]
    BY DEF Enter, TypeOK
  <1>5. Consents' = [Consents EXCEPT ![u] = list]
    BY <1>1, <1>3, <1>4, ConsentsUpdate
  <1> QED
    BY <1>5 DEF Abstract!Offer, Abstract!HASH_ADD_STR, HASH_ADD_STR

\* What a finished call does to Consents.
LEMMA ReturnStep ==
    ASSUME TypeOK, NEW u \in Users, Leave(u), NEW list \in [Users -> Nat],
           friend_requests_outgoing' \in [Users -> [Users -> Nat]],
           \A w \in Users \ {u} : friend_requests_outgoing'[w] = friend_requests_outgoing[w],
           \A w \in Users : friend_requests_outgoing'[u][w] = list[w]
    PROVE  Consents' = [Consents EXCEPT ![u] = list]
  <1>1. cli'[u].op = "idle"
    BY DEF Leave, TypeOK
  <1>2. \A w \in Users : Adding(u, w)' = 0 /\ Accepting(u, w)' = 0
    BY <1>1 DEF Adding, Accepting
  <1>3. \A w \in Users \ {u} : cli'[w] = cli[w]
    BY DEF Leave, TypeOK
  <1>4. \A w \in Users :
           friend_requests_outgoing'[u][w] + Adding(u, w)' + Accepting(u, w)' = list[w]
    BY <1>2
  <1> QED
    BY <1>3, <1>4, ConsentsUpdate

\* Every step maps to an abstract step or to a stutter; one case per action.
LEMMA NextRefines == ConsentInv /\ [Next]_vars => [Abstract!Next]_(Abstract!vars)
  <1> SUFFICES ASSUME ConsentInv, [Next]_vars PROVE [Abstract!Next]_(Abstract!vars)
    OBVIOUS
  <1> USE InputsAssumption
  <1>0. TypeOK /\ TypeOK'
    BY NextTypeOK DEF ConsentInv
  <1>1. ASSUME UNCHANGED <<friends, friend_requests_outgoing, cli, asked>>
        PROVE  UNCHANGED Abstract!vars
    BY <1>1, ConsentsSame DEF Abstract!vars
  <1>2. ASSUME NEW u \in Users, NEW v \in Users, psn_make_friend_req(u, v)
        PROVE  Abstract!Offer(u, v)
    BY <1>0, <1>2, OfferStep DEF psn_make_friend_req, lists
  <1>3. ASSUME NEW u \in Users, make_friend_req_add(u)
        PROVE  UNCHANGED Abstract!vars
    <2> DEFINE t == cli[u].target
    <2>1. t \in Users /\ Consents[u] \in [Users -> Nat]
      BY <1>0, ConsentsType DEF TypeOK
    <2>2. \A w \in Users : friend_requests_outgoing'[u][w] = Consents[u][w]
      <3> SUFFICES ASSUME NEW w \in Users
                   PROVE  friend_requests_outgoing'[u][w] = Consents[u][w]
        OBVIOUS
      <3>1. Adding(u, w) = (IF w = t THEN 1 ELSE 0) /\ Accepting(u, w) = 0
        BY <1>3 DEF make_friend_req_add, Adding, Accepting
      <3>2. friend_requests_outgoing[u][w] \in Nat
        BY <1>0 DEF TypeOK
      <3>3. friend_requests_outgoing'[u][w] =
               IF w = t THEN friend_requests_outgoing[u][w] + 1
                        ELSE friend_requests_outgoing[u][w]
        BY <1>0, <1>3 DEF make_friend_req_add, HASH_ADD_STR, TypeOK
      <3>4. Consents[u][w] = friend_requests_outgoing[u][w] + Adding(u, w) + Accepting(u, w)
        BY DEF Consents
      <3> QED
        BY <3>1, <3>2, <3>3, <3>4
    <2>3. \A w \in Users \ {u} : friend_requests_outgoing'[w] = friend_requests_outgoing[w]
      BY <1>0, <1>3 DEF make_friend_req_add, TypeOK
    <2>4. Leave(u) /\ UNCHANGED <<friends, asked>>
      BY <1>3 DEF make_friend_req_add
    <2>5. Consents' = [Consents EXCEPT ![u] = Consents[u]]
      BY <1>0, <2>1, <2>2, <2>3, <2>4, ReturnStep DEF TypeOK
    <2>6. Consents' = Consents
      BY <1>0, <2>5, ConsentsType
    <2> QED
      BY <2>4, <2>6 DEF Abstract!vars
  <1>4. ASSUME NEW u \in Users, NEW v \in Users, psn_accept_friend_req(u, v)
        PROVE  Abstract!Offer(u, v)
    BY <1>0, <1>4, OfferStep DEF psn_accept_friend_req
  <1>5. ASSUME NEW u \in Users, accept_friend_req_add(u)
        PROVE  Abstract!Befriend(u, cli[u].target)
    <2> DEFINE t == cli[u].target
               list == HASH_DEL(Consents[u], t)
    <2>1. t \in Users /\ Consents[u] \in [Users -> Nat]
      BY <1>0, ConsentsType DEF TypeOK
    <2>2. \A w \in Users : /\ Adding(u, w) = 0
                          /\ Accepting(u, w) = IF w = t THEN 1 ELSE 0
      BY <1>5 DEF accept_friend_req_add, Adding, Accepting
    <2>3. \A w \in Users : /\ friend_requests_outgoing[u][w] \in Nat
                          /\ friend_requests_outgoing'[u][w] = friend_requests_outgoing[u][w]
                          /\ Consents[u][w] = friend_requests_outgoing[u][w]
                                               + Adding(u, w) + Accepting(u, w)
      BY <1>0, <1>5 DEF accept_friend_req_add, TypeOK, Consents
    <2>4. HASH_FIND_STR(Consents[u], t)
      BY <2>1, <2>2, <2>3 DEF HASH_FIND_STR
    <2>5. list \in [Users -> Nat]
      BY <2>1, <2>4, ListType
    <2>6. \A w \in Users : list[w] = IF w = t THEN Consents[u][w] - 1 ELSE Consents[u][w]
      BY <2>1 DEF HASH_DEL
    <2>7. \A w \in Users : friend_requests_outgoing'[u][w] = list[w]
      BY <2>2, <2>3, <2>6
    <2>8. \A w \in Users \ {u} : friend_requests_outgoing'[w] = friend_requests_outgoing[w]
      BY <1>5 DEF accept_friend_req_add
    <2>9. Leave(u)
      BY <1>5 DEF accept_friend_req_add
    <2> HIDE DEF list
    <2>10. Consents' = [Consents EXCEPT ![u] = list]
      BY <1>0, <2>5, <2>7, <2>8, <2>9, ReturnStep DEF TypeOK
    <2>11. <<t, u>> \in asked
      BY <1>5 DEF ConsentInv, CallConsent, accept_friend_req_add
    <2>12. /\ friends' = [friends EXCEPT ![u] = HASH_ADD_STR(@, t)]
           /\ UNCHANGED asked
      BY <1>5 DEF accept_friend_req_add
    <2> QED
      BY <2>4, <2>10, <2>11, <2>12
         DEF list, HASH_ADD_STR, HASH_DEL, HASH_FIND_STR, Abstract!Befriend,
             Abstract!HASH_ADD_STR, Abstract!HASH_DEL, Abstract!HASH_FIND_STR
  <1>6. ASSUME NEW u \in Users, NEW v \in Users, psn_delete_friend(u, v)
        PROVE  Abstract!Unfriend(u, v)
    <2>1. Consents' = Consents
      BY <1>6, ConsentsSame DEF psn_delete_friend
    <2> QED
      BY <1>6, <2>1
         DEF psn_delete_friend, HASH_DEL, HASH_FIND_STR,
             Abstract!Unfriend, Abstract!HASH_DEL, Abstract!HASH_FIND_STR
  <1>7. ASSUME NEW u \in Users, exit(u)
        PROVE  Abstract!Forget(u)
    <2> DEFINE list == EmptyList(Users)
    <2>1. list \in [Users -> Nat]
      BY EmptyListType
    <2>2. /\ \A w \in Users : friend_requests_outgoing'[u][w] = list[w]
          /\ \A w \in Users \ {u} : friend_requests_outgoing'[w] = friend_requests_outgoing[w]
      BY <1>0, <1>7 DEF exit, TypeOK
    <2>3. Leave(u)
      BY <1>7 DEF exit
    <2>4. friends' = [friends EXCEPT ![u] = list] /\ UNCHANGED asked
      BY <1>7 DEF exit
    <2> HIDE DEF list
    <2>5. Consents' = [Consents EXCEPT ![u] = list]
      BY <1>0, <2>1, <2>2, <2>3, ReturnStep DEF TypeOK
    <2> QED
      BY <2>4, <2>5 DEF list, EmptyList, Abstract!Forget, Abstract!EmptyList
  <1>8. ASSUME NEW u \in Users, psn_message_callback(u)
        PROVE  \/ UNCHANGED Abstract!vars
               \/ \E v \in Users : Abstract!Befriend(u, v)
    <2> DEFINE v == Head(inbox[u]).from
    <2>1. UNCHANGED <<cli, asked>>
      BY <1>8 DEF psn_message_callback
    <2>2. inbox[u] \in Seq(Messages) /\ inbox[u] # <<>>
      BY <1>0, <1>8 DEF TypeOK, psn_message_callback
    <2>3. Head(inbox[u]) \in Messages /\ Head(inbox[u]) = inbox[u][1] /\ 1 \in 1..Len(inbox[u])
      BY <2>2
    <2>4. v \in Users /\ (Head(inbox[u]).topic = "frequest" => <<v, u>> \in asked)
      BY <2>3 DEF ConsentInv, InboxConsent, Messages
    <2> HIDE DEF v
    <2>5. CASE UNCHANGED <<friends, friend_requests_outgoing>>
      BY <1>1, <2>1, <2>5
    <2>6. CASE /\ Head(inbox[u]).topic = "frequest"
               /\ HASH_FIND_STR(friend_requests_outgoing[u], v)
               /\ has_accepted(u, v)
      <3> DEFINE list == HASH_DEL(Consents[u], v)
      <3>1. Consents[u] \in [Users -> Nat]
        BY <1>0, ConsentsType
      <3>2. \A w \in Users : /\ friend_requests_outgoing[u][w] \in Nat
                            /\ Adding(u, w) \in Nat /\ Accepting(u, w) \in Nat
                            /\ Adding(u, w)' = Adding(u, w)
                            /\ Accepting(u, w)' = Accepting(u, w)
                            /\ Consents[u][w] = friend_requests_outgoing[u][w]
                                                 + Adding(u, w) + Accepting(u, w)
        BY <1>0, <2>1 DEF TypeOK, Adding, Accepting, Consents
      <3>3. HASH_FIND_STR(Consents[u], v) /\ friend_requests_outgoing[u][v] > 0
        BY <2>4, <2>6, <3>2 DEF HASH_FIND_STR
      <3>4. list \in [Users -> Nat]
        BY <2>4, <3>1, <3>3, ListType
      <3>5. \A w \in Users : list[w] = IF w = v THEN Consents[u][w] - 1 ELSE Consents[u][w]
        BY <3>1 DEF HASH_DEL
      <3>6. \A w \in Users : friend_requests_outgoing'[u][w] =
                 IF w = v THEN friend_requests_outgoing[u][w] - 1
                          ELSE friend_requests_outgoing[u][w]
        BY <1>0, <2>6 DEF has_accepted, HASH_DEL, TypeOK
      <3>7. \A w \in Users :
               friend_requests_outgoing'[u][w] + Adding(u, w)' + Accepting(u, w)' = list[w]
        BY <3>2, <3>5, <3>6
      <3>8. \A w \in Users \ {u} :
               /\ friend_requests_outgoing'[w] = friend_requests_outgoing[w]
               /\ cli'[w] = cli[w]
        BY <1>0, <2>1, <2>6 DEF has_accepted, TypeOK
      <3> HIDE DEF list
      <3>9. Consents' = [Consents EXCEPT ![u] = list]
        BY <1>0, <3>4, <3>7, <3>8, ConsentsUpdate
      <3>10. <<v, u>> \in asked
        BY <2>4, <2>6
      <3>11. friends' = [friends EXCEPT ![u] = HASH_ADD_STR(@, v)]
        BY <2>6 DEF has_accepted
      <3>12. Abstract!Befriend(u, v)
        BY <2>1, <3>3, <3>9, <3>10, <3>11
           DEF list, HASH_ADD_STR, HASH_DEL, HASH_FIND_STR, Abstract!Befriend,
               Abstract!HASH_ADD_STR, Abstract!HASH_DEL, Abstract!HASH_FIND_STR
      <3> QED
        BY <2>4, <3>12
    <2> QED
      BY <1>8, <2>5, <2>6
         DEF psn_message_callback, receive_chat, receive_frequest,
             sent_you_a_friend_request, lists, v
  <1>9. CASE UNCHANGED vars
    BY <1>1, <1>9 DEF vars, lists
  <1>10. CASE Next
    <2> PICK u \in Users :
           \/ Command(u) \/ Return(u)
           \/ Link(u) \/ Failure(u) \/ Transport(u)
           \/ psn_message_callback(u)
      BY <1>10 DEF Next
    <2>1. CASE Command(u)
      <3>1. CASE psn_connect(u) \/ psn_connect_fails(u) \/ psn_disconnect(u)
        BY <1>1, <3>1 DEF psn_connect, psn_connect_fails, psn_disconnect, lists
      <3>2. CASE \E v \in Users : psn_make_friend_req(u, v) \/ psn_accept_friend_req(u, v)
        BY <1>2, <1>4, <3>2 DEF Abstract!Next
      <3>3. CASE \E v \in Users : psn_delete_friend(u, v)
        BY <1>6, <3>3 DEF Abstract!Next
      <3>4. CASE \E v \in Users : \/ psn_refuse_friend_req(u, v)
                                  \/ psn_send_message(u, v)
                                  \/ psn_send_encrypted_message(u, v)
        BY <1>1, <3>4
           DEF psn_refuse_friend_req, psn_send_message, psn_send_encrypted_message, lists
      <3> QED
        BY <2>1, <3>1, <3>2, <3>3, <3>4 DEF Command
    <2>2. CASE Return(u)
      <3>1. cli[u].target \in Users
        BY <1>0 DEF TypeOK
      <3> QED
        BY <1>3, <1>5, <2>2, <3>1 DEF Return, Abstract!Next
    <2>3. CASE Link(u)
      BY <1>1, <2>3 DEF Link, mosquitto_reconnect, broker_subscribe, lists
    <2>4. CASE Failure(u)
      <3>1. CASE link_lost(u)
        BY <1>1, <3>1 DEF link_lost, lists
      <3>2. CASE exit(u)
        BY <1>7, <3>2 DEF Abstract!Next
      <3> QED
        BY <2>4, <3>1, <3>2 DEF Failure
    <2>5. CASE Transport(u)
      BY <1>1, <2>5 DEF Transport, broker_publish, lose_message, lists
    <2>6. CASE psn_message_callback(u)
      BY <1>8, <2>6 DEF Abstract!Next
    <2> QED
      BY <2>1, <2>2, <2>3, <2>4, <2>5, <2>6
  <1> QED
    BY <1>9, <1>10

\* The handshake over MQTT implements the abstract Friendship: each friend
\* list entry uses up one consent of its owner, for any number of users.
THEOREM Refinement == Spec => ImplementsFriendship
  BY InitConsent, NextConsent, InitRefines, NextRefines, PTL
     DEF Spec, ImplementsFriendship, Abstract!Spec

-----------------------------------------------------------------------------
(* PsnPersist: the friend lists on disk.                                   *)

-----------------------------------------------------------------------------
(* The inductive invariant.                                                *)

\* What a command line thread may be inside of, and what may be on a disk.
Calls ==
    [op : {"idle", "add", "accept"}, target : Users]
        \cup [op : SaveOps, names : [Users -> Nat]]

Files ==
    {NoFile, EmptyFile}
        \cup [state : {"config"}, friends : [Users -> Nat], incoming : [Users -> Nat],
              outgoing : [Users -> Nat]]

\* The lists are bags of names, what is on its way are messages of psn.
ListTypes ==
    /\ friends \in [Users -> [Users -> Nat]]
    /\ friend_requests_incoming \in [Users -> [Users -> Nat]]
    /\ friend_requests_outgoing \in [Users -> [Users -> Nat]]

QueueTypes ==
    /\ outq \in [Users -> SUBSET Messages]
    /\ inbox \in [Users -> Seq(Messages)]

Met(u, list) == \A v \in Users : HASH_FIND_STR(list, v) => Contact(u, v)

\* A contact is carried from a list into the arguments of a call, from all three
\* lists into a save, from there into the file, and from the file into a list:
\* only where the request first enters a list does the consent of its sender
\* (OutqConsent, InboxConsent) show where it comes from.
ListContact ==
    \A u \in Users :
        /\ Met(u, friends[u])
        /\ Met(u, friend_requests_incoming[u])
        /\ Met(u, friend_requests_outgoing[u])

CallContact ==
    \A u \in Users :
        /\ cli[u].op \in {"add", "accept"} => Contact(u, cli[u].target)
        /\ cli[u].op \in SaveOps => Met(u, cli[u].names)

FileContact ==
    \A u \in Users :
        file[u].state = "config" =>
            Met(u, file[u].friends) /\ Met(u, file[u].incoming) /\ Met(u, file[u].outgoing)

ListInv == ListTypes /\ ListContact
CallInv == cli \in [Users -> Calls] /\ CallContact
FileInv == file \in [Users -> Files] /\ FileContact
QueueInv == QueueTypes /\ OutqConsent /\ InboxConsent

PersistInv == ListInv /\ CallInv /\ FileInv /\ QueueInv

-----------------------------------------------------------------------------
(* The lists.                                                              *)

\* Nobody takes a consent back, so what is left alone stays justified.
LEMMA ContactKept ==
    ASSUME asked \subseteq asked'
    PROVE  \A u, v \in Users : Contact(u, v) => Contact(u, v)'
  BY DEF Contact

\* A new list of u whose names were in the old one, or are contacts.
LEMMA MetAfter ==
    ASSUME asked \subseteq asked', NEW u \in Users,
           NEW list \in [Users -> Nat], NEW next \in [Users -> Nat], Met(u, list),
           \A v \in Users : HASH_FIND_STR(next, v) => HASH_FIND_STR(list, v) \/ Contact(u, v)'
    PROVE  \A v \in Users : HASH_FIND_STR(next, v) => Contact(u, v)'
  BY ContactKept DEF Met

\* Two bags of contacts make one, and a name of the second one is a contact.
LEMMA MergeMet ==
    ASSUME NEW list1 \in [Users -> Nat], NEW list2 \in [Users -> Nat]
    PROVE  /\ Merge(list1, list2) \in [Users -> Nat]
           /\ \A u \in Users : Met(u, list1) /\ Met(u, list2) => Met(u, Merge(list1, list2))
<1>1. \A n \in Users : list1[n] \in Nat /\ list2[n] \in Nat
  OBVIOUS
<1>2. Merge(list1, list2) \in [Users -> Nat]
  BY <1>1 DEF Merge
<1>3. ASSUME NEW v \in Users, HASH_FIND_STR(Merge(list1, list2), v)
      PROVE  HASH_FIND_STR(list1, v) \/ HASH_FIND_STR(list2, v)
  BY <1>1, <1>3 DEF Merge, HASH_FIND_STR
<1> QED
  BY <1>2, <1>3 DEF Met

\* An empty table holds no name.
LEMMA EmptyMet == \A u \in Users : Met(u, EmptyList(Users))
  BY DEF Met, EmptyList, HASH_FIND_STR

\* The step changes at most the lists of u, to others that are justified.
ListChange(u, f, i, o) ==
    /\ friends' = [friends EXCEPT ![u] = f]
    /\ friend_requests_incoming' = [friend_requests_incoming EXCEPT ![u] = i]
    /\ friend_requests_outgoing' = [friend_requests_outgoing EXCEPT ![u] = o]

\* Every list keeps its type and its justification.
LEMMA ListUpdate ==
    ASSUME ListInv, asked \subseteq asked', NEW u \in Users,
           NEW f \in [Users -> Nat], NEW i \in [Users -> Nat], NEW o \in [Users -> Nat],
           ListChange(u, f, i, o),
           \A v \in Users :
              /\ HASH_FIND_STR(f, v) => HASH_FIND_STR(friends[u], v) \/ Contact(u, v)'
              /\ HASH_FIND_STR(i, v) =>
                    HASH_FIND_STR(friend_requests_incoming[u], v) \/ Contact(u, v)'
              /\ HASH_FIND_STR(o, v) =>
                    HASH_FIND_STR(friend_requests_outgoing[u], v) \/ Contact(u, v)'
    PROVE  ListInv'
<1>1. ListTypes'
  BY DEF ListInv, ListTypes, ListChange
<1>2. ASSUME NEW w \in Users, NEW v \in Users
      PROVE  /\ HASH_FIND_STR(friends'[w], v) => Contact(w, v)'
             /\ HASH_FIND_STR(friend_requests_incoming'[w], v) => Contact(w, v)'
             /\ HASH_FIND_STR(friend_requests_outgoing'[w], v) => Contact(w, v)'
  <2>1. CASE w = u
    <3>1. /\ friends'[w] = f
          /\ friend_requests_incoming'[w] = i
          /\ friend_requests_outgoing'[w] = o
      BY <2>1 DEF ListInv, ListTypes, ListChange
    <3> QED
      BY <2>1, <3>1, ContactKept DEF ListInv, ListContact, Met
  <2>2. CASE w # u
    <3>1. /\ friends'[w] = friends[w]
          /\ friend_requests_incoming'[w] = friend_requests_incoming[w]
          /\ friend_requests_outgoing'[w] = friend_requests_outgoing[w]
      BY <2>2 DEF ListInv, ListTypes, ListChange
    <3> QED
      BY <3>1, ContactKept DEF ListInv, ListContact, Met
  <2> QED
    BY <2>1, <2>2
<1> QED
  BY <1>1, <1>2 DEF ListInv, ListContact, Met

\* A step that leaves the lists alone.
LEMMA ListFrame ==
    ASSUME ListInv, asked \subseteq asked', UNCHANGED lists
    PROVE  ListInv'
  BY ContactKept DEF ListInv, ListTypes, ListContact, Met, lists

\* Nobody takes a consent back.
LEMMA AskedGrows == [PersistNext]_persistVars => asked \subseteq asked'
<1> SUFFICES ASSUME [PersistNext]_persistVars, ~(UNCHANGED asked)
             PROVE  asked \subseteq asked'
  OBVIOUS
<1>1. PICK u \in Users, v \in Users : psn_make_friend_req(u, v) \/ psn_accept_friend_req(u, v)
  BY SaversAssumption, InputsAssumption
    DEF PersistNext, persistVars, vars, Next, Command, Return, Link, Failure, Transport,
        psn_connect, psn_connect_fails, psn_disconnect, psn_refuse_friend_req,
        psn_delete_friend, psn_send_message, psn_send_encrypted_message,
        make_friend_req_add, accept_friend_req_add, mosquitto_reconnect, broker_subscribe,
        link_lost, exit, broker_publish, lose_message, psn_message_callback,
        psn_cli_save_file, psn_serialize_config, serialize_list, save_write,
        psn_cli_load_file, psn_deserialize_config, load_empty
<1> QED
  BY <1>1 DEF psn_make_friend_req, psn_accept_friend_req

\* The steps of PsnClients that change a list: the end of an "add" or an
\* "accept", the start of an "accept", a refusal, a deletion, an exit, and a
\* request that arrives.
LEMMA ClientListStep ==
    ASSUME PersistInv, Next, asked \subseteq asked'
    PROVE  ListInv'
<1> USE InputsAssumption DEF PersistInv
<1>1. CASE UNCHANGED lists
  BY <1>1, ListFrame
<1>2. ASSUME NEW u \in Users, make_friend_req_add(u)
      PROVE  ListInv'
  <2> DEFINE o == HASH_ADD_STR(friend_requests_outgoing[u], cli[u].target)
  <2>1. cli[u].target \in Users /\ Contact(u, cli[u].target)
    BY <1>2 DEF make_friend_req_add, CallInv, CallContact, Calls, SaveOps
  <2>2. o \in [Users -> Nat]
    BY <2>1, ListType DEF ListInv, ListTypes
  <2>3. ListChange(u, friends[u], friend_requests_incoming[u], o)
    BY <1>2 DEF make_friend_req_add, ListChange, ListInv, ListTypes
  <2>4. \A v \in Users : HASH_FIND_STR(o, v) =>
           HASH_FIND_STR(friend_requests_outgoing[u], v) \/ Contact(u, v)'
    BY <2>1, ListFind, ContactKept DEF ListInv, ListTypes
  <2> HIDE DEF o
  <2> QED
    BY <2>2, <2>3, <2>4, ListUpdate DEF ListInv, ListTypes
<1>3. ASSUME NEW u \in Users, accept_friend_req_add(u)
      PROVE  ListInv'
  <2> DEFINE f == HASH_ADD_STR(friends[u], cli[u].target)
  <2>1. cli[u].target \in Users /\ Contact(u, cli[u].target)
    BY <1>3 DEF accept_friend_req_add, CallInv, CallContact, Calls, SaveOps
  <2>2. f \in [Users -> Nat]
    BY <2>1, ListType DEF ListInv, ListTypes
  <2>3. ListChange(u, f, friend_requests_incoming[u], friend_requests_outgoing[u])
    BY <1>3 DEF accept_friend_req_add, ListChange, ListInv, ListTypes
  <2>4. \A v \in Users : HASH_FIND_STR(f, v) => HASH_FIND_STR(friends[u], v) \/ Contact(u, v)'
    BY <2>1, ListFind, ContactKept DEF ListInv, ListTypes
  <2> HIDE DEF f
  <2> QED
    BY <2>2, <2>3, <2>4, ListUpdate DEF ListInv, ListTypes
<1>4. ASSUME NEW u \in Users, NEW v \in Users,
             psn_accept_friend_req(u, v) \/ psn_refuse_friend_req(u, v)
      PROVE  ListInv'
  <2> DEFINE i == HASH_DEL(friend_requests_incoming[u], v)
  <2>1. i \in [Users -> Nat]
    BY <1>4, ListType DEF psn_accept_friend_req, psn_refuse_friend_req, ListInv, ListTypes
  <2>2. ListChange(u, friends[u], i, friend_requests_outgoing[u])
    BY <1>4 DEF psn_accept_friend_req, psn_refuse_friend_req, ListChange, ListInv, ListTypes
  <2>3. \A w \in Users : HASH_FIND_STR(i, w) => HASH_FIND_STR(friend_requests_incoming[u], w)
    BY ListFind DEF ListInv, ListTypes
  <2> HIDE DEF i
  <2> QED
    BY <2>1, <2>2, <2>3, ListUpdate DEF ListInv, ListTypes
<1>5. ASSUME NEW u \in Users, NEW v \in Users, psn_delete_friend(u, v)
      PROVE  ListInv'
  <2> DEFINE f == HASH_DEL(friends[u], v)
  <2>1. f \in [Users -> Nat]
    BY <1>5, ListType DEF psn_delete_friend, ListInv, ListTypes
  <2>2. ListChange(u, f, friend_requests_incoming[u], friend_requests_outgoing[u])
    BY <1>5 DEF psn_delete_friend, ListChange, ListInv, ListTypes
  <2>3. \A w \in Users : HASH_FIND_STR(f, w) => HASH_FIND_STR(friends[u], w)
    BY ListFind DEF ListInv, ListTypes
  <2> HIDE DEF f
  <2> QED
    BY <2>1, <2>2, <2>3, ListUpdate DEF ListInv, ListTypes
<1>6. ASSUME NEW u \in Users, exit(u)
      PROVE  ListInv'
  <2>1. ListChange(u, EmptyList(Users), EmptyList(Users), EmptyList(Users))
    BY <1>6 DEF exit, ListChange
  <2>2. \A w \in Users : ~HASH_FIND_STR(EmptyList(Users), w)
    BY DEF EmptyList, HASH_FIND_STR
  <2> QED
    BY <2>1, <2>2, EmptyListType, ListUpdate
<1>7. ASSUME NEW u \in Users, psn_message_callback(u)
      PROVE  ListInv'
  <2>1. inbox[u] \in Seq(Messages) /\ inbox[u] # <<>>
    BY <1>7 DEF psn_message_callback, QueueInv, QueueTypes
  <2>2. Head(inbox[u]) \in Messages /\ Head(inbox[u]) = inbox[u][1] /\ 1 \in 1..Len(inbox[u])
    BY <2>1
  <2>3. PICK v \in Users : v = Head(inbox[u]).from
    BY <2>2 DEF Messages
  <2>4. CASE UNCHANGED lists
    BY <2>4, ListFrame
  <2>5. CASE Head(inbox[u]).topic = "frequest" /\ receive_frequest(u, v)
    <3>1. Contact(u, v)'
      <4>1. <<v, u>> \in asked
        BY <2>2, <2>3, <2>5 DEF QueueInv, InboxConsent
      <4> QED
        BY <4>1, ContactKept DEF Contact
    <3>2. /\ HASH_ADD_STR(friends[u], v) \in [Users -> Nat]
          /\ HASH_ADD_STR(friend_requests_incoming[u], v) \in [Users -> Nat]
          /\ HASH_FIND_STR(friend_requests_outgoing[u], v) =>
                HASH_DEL(friend_requests_outgoing[u], v) \in [Users -> Nat]
          /\ \A w \in Users :
                /\ HASH_FIND_STR(HASH_ADD_STR(friends[u], v), w) =>
                      HASH_FIND_STR(friends[u], w) \/ Contact(u, w)'
                /\ HASH_FIND_STR(HASH_ADD_STR(friend_requests_incoming[u], v), w) =>
                      HASH_FIND_STR(friend_requests_incoming[u], w) \/ Contact(u, w)'
                /\ HASH_FIND_STR(HASH_DEL(friend_requests_outgoing[u], v), w) =>
                      HASH_FIND_STR(friend_requests_outgoing[u], w)
      BY <2>3, <3>1, ListType, ListFind DEF ListInv, ListTypes
    <3>3. CASE HASH_FIND_STR(friend_requests_outgoing[u], v) /\ has_accepted(u, v)
      <4>1. ListChange(u, HASH_ADD_STR(friends[u], v), friend_requests_incoming[u],
                       HASH_DEL(friend_requests_outgoing[u], v))
        BY <3>3 DEF has_accepted, ListChange, ListInv, ListTypes
      <4> QED
        BY <3>2, <3>3, <4>1, ListUpdate DEF ListInv, ListTypes
    <3>4. CASE sent_you_a_friend_request(u, v)
      <4>1. ListChange(u, friends[u], HASH_ADD_STR(friend_requests_incoming[u], v),
                       friend_requests_outgoing[u])
        BY <3>4 DEF sent_you_a_friend_request, ListChange, ListInv, ListTypes
      <4> QED
        BY <3>2, <4>1, ListUpdate DEF ListInv, ListTypes
    <3> QED
      BY <2>5, <3>3, <3>4, ListFrame DEF receive_frequest
  <2> QED
    BY <1>7, <2>3, <2>4, <2>5 DEF psn_message_callback, receive_chat
<1> QED
  BY <1>1, <1>2, <1>3, <1>4, <1>5, <1>6, <1>7
    DEF Next, Command, Return, Link, Failure, Transport, psn_connect, psn_connect_fails,
        psn_disconnect, psn_make_friend_req, psn_send_message, psn_send_encrypted_message,
        mosquitto_reconnect, broker_subscribe, link_lost, broker_publish, lose_message

-----------------------------------------------------------------------------
(* The calls.                                                              *)

\* The command line thread of u goes on to a call whose arguments are contacts.
LEMMA CallUpdate ==
    ASSUME CallInv, asked \subseteq asked', NEW u \in Users, NEW call \in Calls,
           cli' = [cli EXCEPT ![u] = call],
           call.op \in {"add", "accept"} => Contact(u, call.target)',
           call.op \in SaveOps =>
              \A v \in Users : HASH_FIND_STR(call.names, v) => Contact(u, v)'
    PROVE  CallInv'
<1>1. cli' \in [Users -> Calls]
  BY DEF CallInv
<1> SUFFICES ASSUME NEW w \in Users
             PROVE  /\ cli'[w].op \in {"add", "accept"} => Contact(w, cli[w].target)'
                    /\ cli'[w].op \in SaveOps =>
                          \A v \in Users : HASH_FIND_STR(cli'[w].names, v) => Contact(w, v)'
  BY <1>1 DEF CallInv, CallContact, Met
<1>2. CASE w = u
  <2>1. cli'[w] = call
    BY <1>2 DEF CallInv
  <2>2. call.op \in {"add", "accept"} => Contact(w, cli[w].target)'
    BY <1>2, <2>1 DEF Contact
  <2> QED
    BY <1>2, <2>1, <2>2
<1>3. CASE w # u
  <2>1. cli'[w] = cli[w] /\ cli[w] \in Calls
    BY <1>3 DEF CallInv
  <2>2. cli[w].op \in {"add", "accept"} => Contact(w, cli[w].target)'
    BY <2>1 DEF CallInv, CallContact, Contact
  <2>3. cli[w].op \in SaveOps =>
           \A v \in Users : HASH_FIND_STR(cli[w].names, v) => Contact(w, v)'
    BY ContactKept DEF CallInv, CallContact, Met
  <2> QED
    BY <2>1, <2>2, <2>3
<1> QED
  BY <1>2, <1>3

\* A thread that returns to the prompt has no argument left.
LEMMA LeaveCall ==
    ASSUME CallInv, asked \subseteq asked', NEW u \in Users, Leave(u)
    PROVE  CallInv'
<1>1. [op |-> "idle", target |-> u] \in Calls
  BY DEF Calls
<1> QED
  BY <1>1, CallUpdate DEF Leave, SaveOps

\* A call and its two steps in PsnClients: the name of "add" and of "accept" is
\* in asked from the first step on.
LEMMA ClientCallStep ==
    ASSUME PersistInv, Next, asked \subseteq asked'
    PROVE  CallInv'
<1> USE InputsAssumption DEF PersistInv
<1>1. CASE UNCHANGED cli
  BY <1>1, ContactKept DEF CallInv, CallContact, Calls, SaveOps, Met
<1>2. ASSUME NEW u \in Users, Leave(u)
      PROVE  CallInv'
  BY <1>2, LeaveCall
<1>3. ASSUME NEW u \in Users, NEW v \in Users,
             psn_make_friend_req(u, v) \/ psn_accept_friend_req(u, v)
      PROVE  CallInv'
  <2>1. PICK op \in {"add", "accept"} : Enter(u, op, v)
    BY <1>3 DEF psn_make_friend_req, psn_accept_friend_req
  <2>2. [op |-> op, target |-> v] \in Calls
    BY DEF Calls
  <2>3. Contact(u, v)'
    BY <1>3 DEF psn_make_friend_req, psn_accept_friend_req, Contact
  <2> QED
    BY <2>1, <2>2, <2>3, CallUpdate DEF Enter, SaveOps
<1> QED
  BY <1>1, <1>2, <1>3
    DEF Next, Command, Return, Link, Failure, Transport, net, psn_connect, psn_connect_fails,
        psn_disconnect, psn_refuse_friend_req, psn_delete_friend, psn_send_message,
        psn_send_encrypted_message, make_friend_req_add, accept_friend_req_add, exit,
        mosquitto_reconnect, broker_subscribe, link_lost, broker_publish, lose_message,
        psn_message_callback

-----------------------------------------------------------------------------
(* The messages.                                                           *)

\* What is still queued was queued before, or is justified by its sender.
LEMMA OutqUpdate ==
    ASSUME QueueInv, asked \subseteq asked', NEW u \in Users, NEW q \in SUBSET Messages,
           outq' = [outq EXCEPT ![u] = q],
           \A m \in q : m \in outq[u] \/ (m.topic = "frequest" => <<m.from, m.to>> \in asked')
    PROVE  outq' \in [Users -> SUBSET Messages] /\ OutqConsent'
<1>1. outq' \in [Users -> SUBSET Messages]
  BY DEF QueueInv, QueueTypes
<1>2. ASSUME NEW w \in Users, NEW m \in outq'[w], m.topic = "frequest"
      PROVE  <<m.from, m.to>> \in asked'
  <2>1. CASE w = u
    BY <1>2, <2>1 DEF QueueInv, QueueTypes, OutqConsent
  <2>2. CASE w # u
    BY <1>2, <2>2 DEF QueueInv, QueueTypes, OutqConsent
  <2> QED
    BY <2>1, <2>2
<1> QED
  BY <1>1, <1>2 DEF OutqConsent

\* A new queue of u whose messages were in the old one, or are justified.
LEMMA InboxReplaced ==
    ASSUME QueueInv, asked \subseteq asked', NEW u \in Users, NEW q \in Seq(Messages),
           inbox' = [inbox EXCEPT ![u] = q],
           \A i \in 1..Len(q) :
              \/ \E j \in 1..Len(inbox[u]) : q[i] = inbox[u][j]
              \/ q[i].to = u /\ (q[i].topic = "frequest" => <<q[i].from, u>> \in asked)
    PROVE  inbox' \in [Users -> Seq(Messages)] /\ InboxConsent'
<1>1. inbox' \in [Users -> Seq(Messages)]
  BY DEF QueueInv, QueueTypes
<1>2. ASSUME NEW w \in Users, NEW i \in 1..Len(inbox'[w])
      PROVE  /\ inbox'[w][i].to = w
             /\ inbox'[w][i].topic = "frequest" => <<inbox'[w][i].from, w>> \in asked'
  <2>1. CASE w = u
    <3>1. inbox'[w] = q
      BY <2>1 DEF QueueInv, QueueTypes
    <3> QED
      BY <2>1, <3>1 DEF QueueInv, InboxConsent
  <2>2. CASE w # u
    <3>1. inbox'[w] = inbox[w]
      BY <2>2 DEF QueueInv, QueueTypes
    <3> QED
      BY <3>1 DEF QueueInv, InboxConsent
  <2> QED
    BY <2>1, <2>2
<1> QED
  BY <1>1, <1>2 DEF InboxConsent

\* What is left alone stays typed and justified.
LEMMA QueueFrame ==
    ASSUME QueueInv, asked \subseteq asked'
    PROVE  /\ UNCHANGED outq => outq' \in [Users -> SUBSET Messages] /\ OutqConsent'
           /\ UNCHANGED inbox => inbox' \in [Users -> Seq(Messages)] /\ InboxConsent'
<1>1. UNCHANGED outq => outq' \in [Users -> SUBSET Messages] /\ OutqConsent'
  BY DEF QueueInv, QueueTypes, OutqConsent
<1>2. UNCHANGED inbox => inbox' \in [Users -> Seq(Messages)] /\ InboxConsent'
  BY DEF QueueInv, QueueTypes, InboxConsent
<1> QED
  BY <1>1, <1>2

\* A request that is published is in the history before it is in the queue.
LEMMA PublishJustified ==
    ASSUME QueueInv, asked \subseteq asked', NEW u \in Users, NEW m \in Messages,
           mosquitto_publish(u, m), m.topic = "frequest" => <<m.from, m.to>> \in asked'
    PROVE  outq' \in [Users -> SUBSET Messages] /\ OutqConsent'
<1>1. CASE UNCHANGED outq
  BY <1>1, QueueFrame
<1>2. CASE outq' = [outq EXCEPT ![u] = @ \cup {m}]
  <2> DEFINE q == outq[u] \cup {m}
  <2>1. q \in SUBSET Messages /\ outq' = [outq EXCEPT ![u] = q]
    BY <1>2 DEF QueueInv, QueueTypes
  <2>2. \A n \in q : n \in outq[u] \/ (n.topic = "frequest" => <<n.from, n.to>> \in asked')
    OBVIOUS
  <2> HIDE DEF q
  <2> QED
    BY <2>1, <2>2, OutqUpdate
<1> QED
  BY <1>1, <1>2 DEF mosquitto_publish

\* A queue that only loses messages.
LEMMA OutqLess ==
    ASSUME QueueInv, asked \subseteq asked', NEW u \in Users, NEW q \in SUBSET outq[u],
           outq' = [outq EXCEPT ![u] = q]
    PROVE  outq' \in [Users -> SUBSET Messages] /\ OutqConsent'
<1>1. q \in SUBSET Messages
  BY DEF QueueInv, QueueTypes
<1> QED
  BY <1>1, OutqUpdate

\* The socket of u is closed.
LEMMA CleanupInbox ==
    ASSUME QueueInv, asked \subseteq asked', NEW u \in Users,
           inbox' = [inbox EXCEPT ![u] = <<>>]
    PROVE  inbox' \in [Users -> Seq(Messages)] /\ InboxConsent'
<1>1. <<>> \in Seq(Messages) /\ \A i \in 1..Len(<<>>) : FALSE
  OBVIOUS
<1> QED
  BY <1>1, InboxReplaced

\* The steps of PsnClients keep the messages justified.
LEMMA ClientQueueStep ==
    ASSUME QueueInv, Next, asked \subseteq asked'
    PROVE  QueueInv'
<1> USE InputsAssumption
<1> SUFFICES /\ outq' \in [Users -> SUBSET Messages] /\ OutqConsent'
             /\ inbox' \in [Users -> Seq(Messages)] /\ InboxConsent'
  BY DEF QueueInv, QueueTypes
<1>1. outq' \in [Users -> SUBSET Messages] /\ OutqConsent'
  <2>1. CASE UNCHANGED outq
    BY <2>1, QueueFrame
  <2>3. ASSUME NEW u \in Users, NEW v \in Users,
               psn_make_friend_req(u, v) \/ psn_accept_friend_req(u, v)
        PROVE  outq' \in [Users -> SUBSET Messages] /\ OutqConsent'
    <3>1. mosquitto_publish(u, FRequest(u, v)) /\ <<u, v>> \in asked'
      BY <2>3 DEF psn_make_friend_req, psn_accept_friend_req
    <3>2. FRequest(u, v) \in Messages /\ FRequest(u, v).from = u /\ FRequest(u, v).to = v
      BY DEF FRequest, Messages
    <3> QED
      BY <3>1, <3>2, PublishJustified
  <2>4. ASSUME NEW u \in Users, NEW v \in Users, mosquitto_publish(u, Chat(u, v))
        PROVE  outq' \in [Users -> SUBSET Messages] /\ OutqConsent'
    <3>1. Chat(u, v) \in Messages /\ Chat(u, v).topic # "frequest"
      BY DEF Chat, Messages
    <3> QED
      BY <2>4, <3>1, PublishJustified
  <2>5. ASSUME NEW u \in Users, NEW m \in outq[u], outq' = [outq EXCEPT ![u] = @ \ {m}]
        PROVE  outq' \in [Users -> SUBSET Messages] /\ OutqConsent'
    <3>1. outq[u] \ {m} \in SUBSET outq[u] /\ outq' = [outq EXCEPT ![u] = outq[u] \ {m}]
      BY <2>5
    <3> QED
      BY <3>1, OutqLess
  <2>6. ASSUME NEW u \in Users, outq' = [outq EXCEPT ![u] = {}]
        PROVE  outq' \in [Users -> SUBSET Messages] /\ OutqConsent'
    BY <2>6, OutqLess
  <2> QED
    BY <2>1, <2>3, <2>4, <2>5, <2>6
      DEF Next, Command, Return, Link, Failure, Transport, net, psn_connect, psn_connect_fails,
          psn_disconnect, psn_refuse_friend_req, psn_delete_friend, psn_send_message,
          psn_send_encrypted_message, make_friend_req_add, accept_friend_req_add, exit,
          mosquitto_reconnect, broker_subscribe, link_lost, broker_publish, puback_out,
          lose_message, psn_message_callback
<1>2. inbox' \in [Users -> Seq(Messages)] /\ InboxConsent'
  <2>1. CASE UNCHANGED inbox
    BY <2>1, QueueFrame
  <2>2. ASSUME NEW u \in Users, inbox' = [inbox EXCEPT ![u] = <<>>]
        PROVE  inbox' \in [Users -> Seq(Messages)] /\ InboxConsent'
    BY <2>2, CleanupInbox
  <2>3. ASSUME NEW u \in Users, NEW m \in outq[u],
               inbox' = [inbox EXCEPT ![m.to] = Append(@, m)]
        PROVE  inbox' \in [Users -> Seq(Messages)] /\ InboxConsent'
    <3>1. /\ m \in Messages
          /\ m.topic = "frequest" => <<m.from, m.to>> \in asked
      BY DEF QueueInv, QueueTypes, OutqConsent
    <3>2. PICK v \in Users : v = m.to
      BY <3>1 DEF Messages
    <3>3. inbox[v] \in Seq(Messages)
      BY DEF QueueInv, QueueTypes
    <3>4. /\ Append(inbox[v], m) \in Seq(Messages)
          /\ \A i \in 1..Len(Append(inbox[v], m)) :
                \/ \E j \in 1..Len(inbox[v]) : Append(inbox[v], m)[i] = inbox[v][j]
                \/ Append(inbox[v], m)[i] = m
      BY <3>1, <3>3
    <3>5. inbox' = [inbox EXCEPT ![v] = Append(inbox[v], m)]
      BY <2>3, <3>2
    <3> QED
      BY <3>1, <3>2, <3>4, <3>5, InboxReplaced
  <2>4. ASSUME NEW u \in Users, inbox[u] # <<>>, puback_in(u) \/ send_again(u)
        PROVE  inbox' \in [Users -> Seq(Messages)] /\ InboxConsent'
    <3> DEFINE old == inbox[u]
    <3>1. old \in Seq(Messages) /\ old # <<>>
      BY <2>4 DEF QueueInv, QueueTypes
    <3>2. Len(old) \in Nat /\ 1 \in 1..Len(old) /\ Head(old) = old[1] /\ Head(old) \in Messages
      BY <3>1
    <3>3. /\ Tail(old) \in Seq(Messages) /\ Len(Tail(old)) = Len(old) - 1
          /\ \A i \in 1..Len(Tail(old)) : i + 1 \in 1..Len(old) /\ Tail(old)[i] = old[i + 1]
      BY <3>1, <3>2
    <3>4. CASE puback_in(u)
      BY <3>3, <3>4, InboxReplaced DEF puback_in
    <3>5. CASE send_again(u)
      <4> DEFINE q == Append(Tail(old), Head(old))
      <4>1. q \in Seq(Messages) /\ Len(q) = Len(Tail(old)) + 1
        BY <3>2, <3>3
      <4>2. ASSUME NEW i \in 1..Len(q)
            PROVE  \E j \in 1..Len(old) : q[i] = old[j]
        <5>1. CASE i \in 1..Len(Tail(old))
          BY <3>3, <5>1
        <5>2. CASE i = Len(Tail(old)) + 1
          BY <3>2, <3>3, <5>2
        <5> QED
          BY <3>2, <3>3, <4>1, <5>1, <5>2
      <4>3. inbox' = [inbox EXCEPT ![u] = q]
        BY <3>5 DEF send_again
      <4> HIDE DEF q
      <4> QED
        BY <4>1, <4>2, <4>3, InboxReplaced
    <3> QED
      BY <2>4, <3>4, <3>5
  <2> QED
    BY <2>1, <2>2, <2>3, <2>4
      DEF Next, Command, Return, Link, Failure, Transport, net, psn_connect, psn_connect_fails,
          psn_disconnect, psn_make_friend_req, psn_accept_friend_req, psn_refuse_friend_req,
          psn_delete_friend, psn_send_message, psn_send_encrypted_message,
          make_friend_req_add, accept_friend_req_add, exit, mqtt3_context_cleanup,
          mosquitto_reconnect, broker_subscribe, link_lost, broker_publish,
          mqtt3_db_message_insert, lose_message, psn_message_callback
<1> QED
  BY <1>1, <1>2

-----------------------------------------------------------------------------
(* The file.                                                               *)

\* What u's save writes are names it has read from its lists.
LEMMA FileUpdate ==
    ASSUME FileInv, asked \subseteq asked', NEW u \in Users, NEW new \in Files,
           file' = [file EXCEPT ![u] = new],
           new.state = "config" =>
              \A v \in Users :
                 \/ HASH_FIND_STR(new.friends, v) \/ HASH_FIND_STR(new.incoming, v)
                 \/ HASH_FIND_STR(new.outgoing, v)
                 => Contact(u, v)'
    PROVE  FileInv'
<1>1. file' \in [Users -> Files]
  BY DEF FileInv
<1>2. ASSUME NEW w \in Users, file'[w].state = "config", NEW v \in Users,
             \/ HASH_FIND_STR(file'[w].friends, v) \/ HASH_FIND_STR(file'[w].incoming, v)
             \/ HASH_FIND_STR(file'[w].outgoing, v)
      PROVE  Contact(w, v)'
  <2>1. CASE w = u
    BY <1>2, <2>1 DEF FileInv
  <2>2. CASE w # u
    <3>1. file'[w] = file[w]
      BY <2>2 DEF FileInv
    <3> QED
      BY <1>2, <3>1, ContactKept DEF FileInv, FileContact, Met
  <2> QED
    BY <2>1, <2>2
<1> QED
  BY <1>1, <1>2 DEF FileInv, FileContact, Met

\* A step that leaves the files alone.
LEMMA FileFrame ==
    ASSUME FileInv, asked \subseteq asked', UNCHANGED file
    PROVE  FileInv'
  BY ContactKept DEF FileInv, FileContact, Met

\* What stays as it was.
LEMMA Unchanged ==
    ASSUME PersistInv, UNCHANGED asked
    PROVE  /\ UNCHANGED lists => ListInv'
           /\ UNCHANGED cli => CallInv'
           /\ UNCHANGED file => FileInv'
           /\ UNCHANGED <<outq, inbox>> => QueueInv'
<1>1. UNCHANGED lists => ListInv'
  BY ListFrame DEF PersistInv
<1>2. UNCHANGED cli => CallInv'
  BY ContactKept DEF PersistInv, CallInv, CallContact, Contact, Met
<1>3. UNCHANGED file => FileInv'
  BY FileFrame DEF PersistInv
<1>4. UNCHANGED <<outq, inbox>> => QueueInv'
  BY QueueFrame DEF PersistInv, QueueInv, QueueTypes
<1> QED
  BY <1>1, <1>2, <1>3, <1>4

\* fopen empties the file, and the loops start with no name.
LEMMA SaveStarts ==
    ASSUME PersistInv, NEW u \in Users, psn_cli_save_file(u)
    PROVE  PersistInv'
<1>1. UNCHANGED asked /\ UNCHANGED lists /\ UNCHANGED <<outq, inbox>>
  BY DEF psn_cli_save_file, net
<1>2. CallInv'
  <2> DEFINE call == [op |-> "save_friends", names |-> EmptyList(Users)]
  <2>1. /\ call \in Calls /\ call.op \notin {"add", "accept"}
        /\ \A v \in Users : ~HASH_FIND_STR(call.names, v)
    BY EmptyListType DEF Calls, SaveOps, EmptyList, HASH_FIND_STR
  <2>2. cli' = [cli EXCEPT ![u] = call]
    BY DEF psn_cli_save_file, Saving
  <2> HIDE DEF call
  <2> QED
    BY <1>1, <2>1, <2>2, CallUpdate DEF PersistInv
<1>3. FileInv'
  <2>1. EmptyFile \in Files /\ EmptyFile.state # "config"
    BY DEF EmptyFile, Files
  <2> QED
    BY <1>1, <2>1, FileUpdate DEF psn_cli_save_file, PersistInv
<1> QED
  BY <1>1, <1>2, <1>3, Unchanged DEF PersistInv

\* A loop of psn_serialize_config takes names over from one list.
LEMMA SerializeStep ==
    ASSUME PersistInv, NEW u \in Users, psn_serialize_config(u)
    PROVE  PersistInv'
<1>1. UNCHANGED asked /\ UNCHANGED lists /\ UNCHANGED file /\ UNCHANGED <<outq, inbox>>
  BY DEF psn_serialize_config, serialize_list, net
<1>2. PICK list \in {friends[u], friend_requests_incoming[u], friend_requests_outgoing[u]},
           next \in SaveOps :
         /\ cli[u].op \in SaveOps
         /\ Saving(u, next, Merge(cli[u].names, list))
  BY DEF psn_serialize_config, serialize_list, SaveOps
<1>3. /\ list \in [Users -> Nat] /\ Met(u, list)
      /\ cli[u].names \in [Users -> Nat] /\ Met(u, cli[u].names)
  <2>1. cli[u] \in Calls
    BY DEF PersistInv, CallInv
  <2>2. cli[u].names \in [Users -> Nat]
    BY <1>2, <2>1 DEF Calls, SaveOps
  <2> QED
    BY <1>2, <2>2 DEF PersistInv, ListInv, ListTypes, ListContact, CallInv, CallContact
<1>4. CallInv'
  <2> DEFINE call == [op |-> next, names |-> Merge(cli[u].names, list)]
  <2>1. call \in Calls /\ call.op \notin {"add", "accept"} /\ Met(u, call.names)
    BY <1>3, MergeMet DEF Calls, SaveOps
  <2>2. cli' = [cli EXCEPT ![u] = call]
    BY <1>2 DEF Saving
  <2> HIDE DEF call
  <2>3. \A v \in Users : HASH_FIND_STR(call.names, v) => Contact(u, v)'
    BY <1>1, <2>1, ContactKept DEF Met
  <2> QED
    BY <1>1, <2>1, <2>2, <2>3, CallUpdate DEF PersistInv
<1> QED
  BY <1>1, <1>4, Unchanged DEF PersistInv

\* fwrite puts the names into the array "friends".
LEMMA WriteStep ==
    ASSUME PersistInv, NEW u \in Users, save_write(u)
    PROVE  PersistInv'
<1>1. UNCHANGED asked /\ UNCHANGED lists /\ UNCHANGED <<outq, inbox>>
  BY DEF save_write, net
<1>2. cli[u].names \in [Users -> Nat] /\ Met(u, cli[u].names)
  <2>1. cli[u] \in Calls /\ cli[u].op = "save_write"
    BY DEF PersistInv, CallInv, save_write
  <2> QED
    BY <2>1 DEF Calls, SaveOps, PersistInv, CallInv, CallContact
<1>3. FileInv'
  <2> DEFINE new == Config(cli[u].names, EmptyList(Users), EmptyList(Users))
  <2>1. /\ new \in Files
        /\ new.friends = cli[u].names
        /\ new.incoming = EmptyList(Users) /\ new.outgoing = EmptyList(Users)
    BY <1>2, EmptyListType DEF Config, Files
  <2>2. file' = [file EXCEPT ![u] = new]
    BY DEF save_write
  <2> HIDE DEF new
  <2>3. \A v \in Users :
           \/ HASH_FIND_STR(new.friends, v) \/ HASH_FIND_STR(new.incoming, v)
           \/ HASH_FIND_STR(new.outgoing, v)
           => Contact(u, v)'
    BY <1>1, <1>2, <2>1, ContactKept, EmptyMet DEF Met, EmptyList, HASH_FIND_STR
  <2> QED
    BY <1>1, <2>1, <2>2, <2>3, FileUpdate DEF PersistInv
<1>4. CallInv'
  BY <1>1, LeaveCall DEF save_write, PersistInv
<1> QED
  BY <1>1, <1>3, <1>4, Unchanged DEF PersistInv

\* A load adds the names of the file to the lists, or the process dies of an
\* empty one.
LEMMA LoadStep ==
    ASSUME PersistInv, NEW u \in Users, psn_cli_load_file(u)
    PROVE  PersistInv'
<1>1. UNCHANGED asked /\ UNCHANGED file
  BY DEF psn_cli_load_file, psn_deserialize_config, load_empty, exit
<1>2. CASE psn_deserialize_config(u)
  <2> DEFINE f == Merge(friends[u], file[u].friends)
             i == Merge(friend_requests_incoming[u], file[u].incoming)
             o == Merge(friend_requests_outgoing[u], file[u].outgoing)
  <2>1. /\ file[u].friends \in [Users -> Nat] /\ Met(u, file[u].friends)
        /\ file[u].incoming \in [Users -> Nat] /\ Met(u, file[u].incoming)
        /\ file[u].outgoing \in [Users -> Nat] /\ Met(u, file[u].outgoing)
    <3>1. file[u] \in Files /\ file[u].state = "config"
      BY <1>2 DEF psn_deserialize_config, PersistInv, FileInv
    <3> QED
      BY <3>1 DEF Files, NoFile, EmptyFile, PersistInv, FileInv, FileContact
  <2>2. /\ f \in [Users -> Nat] /\ Met(u, f)
        /\ i \in [Users -> Nat] /\ Met(u, i)
        /\ o \in [Users -> Nat] /\ Met(u, o)
    BY <2>1, MergeMet DEF PersistInv, ListInv, ListTypes, ListContact
  <2>3. ListChange(u, f, i, o)
    BY <1>2 DEF psn_deserialize_config, ListChange
  <2>4. UNCHANGED <<outq, inbox>> /\ UNCHANGED cli
    BY <1>2 DEF psn_deserialize_config, net
  <2> HIDE DEF f, i, o
  <2>5. ListInv'
    BY <1>1, <2>2, <2>3, ContactKept, ListUpdate DEF PersistInv, Met
  <2> QED
    BY <1>1, <2>4, <2>5, Unchanged DEF PersistInv
<1>3. CASE exit(u)
  <2>1. ListInv'
    <3>1. ListChange(u, EmptyList(Users), EmptyList(Users), EmptyList(Users))
      BY <1>3 DEF exit, ListChange
    <3> QED
      BY <1>1, <3>1, EmptyListType, EmptyMet, ContactKept, ListUpdate DEF PersistInv, Met
  <2>2. CallInv'
    BY <1>1, <1>3, LeaveCall DEF exit, PersistInv
  <2>3. QueueInv'
    BY <1>1, <1>3, CleanupInbox, QueueFrame
      DEF exit, mqtt3_context_cleanup, PersistInv, QueueInv, QueueTypes
  <2> QED
    BY <1>1, <2>1, <2>2, <2>3, Unchanged DEF PersistInv
<1> QED
  BY <1>2, <1>3 DEF psn_cli_load_file, load_empty

-----------------------------------------------------------------------------
(* The theorems.                                                           *)

\* psn starts with empty lists and no file.
LEMMA InitPersist == PersistInit => PersistInv
<1> SUFFICES ASSUME PersistInit
             PROVE  PersistInv
  OBVIOUS
<1>1. ListInv
  BY EmptyListType, EmptyMet
    DEF PersistInit, Init, psn_init, NoLists, ListInv, ListTypes, ListContact
<1>2. CallInv
  BY DEF PersistInit, Init, CallInv, CallContact, Calls, SaveOps
<1>3. FileInv
  BY DEF PersistInit, NoFile, Files, FileInv, FileContact
<1>4. QueueInv
  <2>1. \A u \in Users : outq[u] = {} /\ inbox[u] = <<>>
    BY DEF PersistInit, Init
  <2>2. <<>> \in Seq(Messages) /\ 1..Len(<<>>) = {}
    OBVIOUS
  <2>3. OutqConsent /\ InboxConsent
    BY <2>1, <2>2 DEF OutqConsent, InboxConsent
  <2>4. QueueTypes
    BY <2>2 DEF PersistInit, Init, QueueTypes
  <2> QED
    BY <2>3, <2>4 DEF QueueInv
<1> QED
  BY <1>1, <1>2, <1>3, <1>4 DEF PersistInv

\* Every step of the clients, of a save and of a load keeps the invariant.
LEMMA PersistStep ==
    ASSUME PersistInv, [PersistNext]_persistVars
    PROVE  PersistInv'
<1>1. asked \subseteq asked'
  BY AskedGrows
<1>2. CASE Next /\ UNCHANGED file
  BY <1>1, <1>2, ClientListStep, ClientCallStep, ClientQueueStep, FileFrame DEF PersistInv
<1>3. ASSUME NEW u \in Users,
             \/ psn_cli_save_file(u) \/ psn_serialize_config(u) \/ save_write(u)
             \/ psn_cli_load_file(u)
      PROVE  PersistInv'
  BY <1>3, SaveStarts, SerializeStep, WriteStep, LoadStep
<1>4. CASE UNCHANGED persistVars
  BY <1>4, Unchanged DEF persistVars, vars, net, PersistInv
<1> QED
  BY <1>2, <1>3, <1>4, SaversAssumption DEF PersistNext

\* The inductive invariant holds in every reachable state.
THEOREM PersistInvariant == PersistSpec => []PersistInv
  BY InitPersist, PersistStep, PTL DEF PersistSpec

\* Saving and loading keep the lists bags of names, the file one of the three
\* things a save leaves behind, and the command line inside one call.
THEOREM PersistTypeCorrect == PersistSpec => []PersistTypeOK
<1>1. PersistInv => PersistTypeOK
  BY DEF PersistInv, ListInv, ListTypes, CallInv, FileInv, PersistTypeOK, Calls, Files
<1> QED
  BY <1>1, PersistInvariant, PTL

\* However often the file is saved, left half written and loaded: whoever is in
\* it or in the friend list was at one end of a request with the user.
THEOREM FriendsFromFile == PersistSpec => []FriendsByContact
<1>1. PersistInv => FriendsByContact
  BY DEF PersistInv, ListInv, ListContact, FileInv, FileContact, Met, FriendsByContact
<1> QED
  BY <1>1, PersistInvariant, PTL
=============================================================================
