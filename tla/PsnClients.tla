----------------------------- MODULE PsnClients -----------------------------
(***************************************************************************)
(* The psn clients of a set of users and the MQTT broker between them: the *)
(* friend lists, the friend handshake and the chat of psn.c.               *)
(*                                                                         *)
(* Each client is two threads.  The command line thread runs the psn_*     *)
(* calls; the libmosquitto loop thread runs psn_message_callback.  Nothing *)
(* locks the friend lists, so a callback may run between two list updates  *)
(* of one psn_* call: psn_make_friend_req and psn_accept_friend_req are    *)
(* two steps each, split after the publish.  Every other call updates the  *)
(* lists once, and the callback's own updates commute with whatever the    *)
(* command line thread may do between them, so these are one step.         *)
(*                                                                         *)
(* A QoS 1 message is first in the sender's outq, until the sender sees a  *)
(* PUBACK, and may be sent, and routed by the broker, any number of times. *)
(* The broker keeps a FIFO inbox per subscribed client and may send an     *)
(* entry again.  All sessions are clean sessions: a link that goes down    *)
(* takes the inbox and the subscriptions with it.                          *)
(***************************************************************************)
EXTENDS UserList, Sequences

CONSTANTS
    Users,        \* user names; a client's MQTT client id is its user name
    Contacts,     \* Contacts[u]: the names u types after "add"
    Chats,        \* Chats[u]: the names u types after "msg" and "enc"
    Flaky,        \* the users whose process or link may fail, also because
                  \* they type "connect" again while they are connected
    MaxRequests,  \* bound on the outgoing entries kept under one name
    MaxQueued     \* max_inflight + max_queued of the broker, per client

ASSUME BoundsAssumption == MaxRequests \in Nat /\ MaxQueued \in Nat

ASSUME InputsAssumption ==
    /\ Contacts \in [Users -> SUBSET Users]
    /\ Chats \in [Users -> SUBSET Users]
    /\ Flaky \subseteq Users

VARIABLES
    friends,                    \* psn->friends, per user
    friend_requests_incoming,   \* psn->friend_requests_incoming
    friend_requests_outgoing,   \* psn->friend_requests_outgoing
    connected,                  \* the static flag of psn.c
    started,                    \* the loop thread of instance psn->mosq runs
    cli,                        \* the call the command line thread is inside
    session,                    \* the MQTT session behind psn->mosq
    outq,                       \* messages without a PUBACK
    inbox,                      \* the broker's queue for the client
    asked,                      \* history: <<u, v>> if u consented to v
    shown                       \* history: <<v, u>> if u's screen showed v's chat

lists == <<friends, friend_requests_incoming, friend_requests_outgoing>>
net == <<session, outq, inbox>>
vars == <<lists, connected, started, cli, net, asked, shown>>

Messages == [topic : {"frequest", "chat"}, from : Users, to : Users]

\* users/<to>/frequest/<from>: a request and an acceptance look the same.
FRequest(u, v) == [topic |-> "frequest", from |-> u, to |-> v]

\* chat/<from>/<to>
Chat(u, v) == [topic |-> "chat", from |-> u, to |-> v]

Sessions == {"offline", "subscribing", "subscribed", "deaf"}

TypeOK ==
    /\ friends \in [Users -> [Users -> Nat]]
    /\ friend_requests_incoming \in [Users -> [Users -> Nat]]
    /\ friend_requests_outgoing \in [Users -> [Users -> Nat]]
    /\ connected \in [Users -> BOOLEAN]
    /\ started \in [Users -> BOOLEAN]
    /\ cli \in [Users -> [op : {"idle", "add", "accept"}, target : Users]]
    /\ session \in [Users -> Sessions]
    /\ outq \in [Users -> SUBSET Messages]
    /\ inbox \in [Users -> Seq(Messages)]
    /\ asked \subseteq Users \X Users
    /\ shown \subseteq Users \X Users

-----------------------------------------------------------------------------

NoLists == [u \in Users |-> EmptyList(Users)]

Idle(u) == cli[u].op = "idle"

Enter(u, op, v) == cli' = [cli EXCEPT ![u] = [op |-> op, target |-> v]]

Leave(u) == cli' = [cli EXCEPT ![u] = [op |-> "idle", target |-> u]]

psn_init ==
    /\ friends = NoLists
    /\ friend_requests_incoming = NoLists
    /\ friend_requests_outgoing = NoLists
    /\ connected = [u \in Users |-> FALSE]
    /\ started = [u \in Users |-> FALSE]

Init ==
    /\ psn_init
    /\ cli = [u \in Users |-> [op |-> "idle", target |-> u]]
    /\ session = [u \in Users |-> "offline"]
    /\ outq = [u \in Users |-> {}]
    /\ inbox = [u \in Users |-> <<>>]
    /\ asked = {}
    /\ shown = {}

-----------------------------------------------------------------------------
(* The command line thread.                                                *)

\* A new instance takes over: CONNECT and both SUBSCRIBEs are written, nobody
\* waits for the answers.  The broker drops the client's older connection.
\* What the older instance has not sent is lost, unless its thread still runs.
psn_connect(u) ==
    /\ Idle(u)
    /\ connected' = [connected EXCEPT ![u] = TRUE]
    /\ started' = [started EXCEPT ![u] = TRUE]
    /\ session' = [session EXCEPT ![u] = "subscribing"]
    /\ inbox' = [inbox EXCEPT ![u] = <<>>]
    /\ \/ ~connected[u] /\ outq' = [outq EXCEPT ![u] = {}]
       \/ UNCHANGED outq
    /\ UNCHANGED <<lists, cli, asked, shown>>

\* The early return of psn_connect: psn->mosq is a new instance without a
\* connection or a thread, the flag is as before, and so is the older
\* instance, which nothing points to any more.
psn_connect_fails(u) ==
    /\ Idle(u)
    /\ started' = [started EXCEPT ![u] = FALSE]
    /\ UNCHANGED <<lists, connected, cli, net, asked, shown>>

\* The socket is closed, and with it the broker's clean session of u.  What
\* was written before may still arrive at the broker.
mqtt3_context_cleanup(u) ==
    /\ session' = [session EXCEPT ![u] = "offline"]
    /\ inbox' = [inbox EXCEPT ![u] = <<>>]

psn_disconnect(u) ==
    /\ Idle(u)
    /\ connected[u]
    /\ connected' = [connected EXCEPT ![u] = FALSE]
    /\ started' = [started EXCEPT ![u] = FALSE]
    /\ \/ started[u] /\ mqtt3_context_cleanup(u)
       \/ ~started[u] /\ UNCHANGED <<session, inbox>>
    /\ UNCHANGED <<lists, cli, outq, asked, shown>>

\* psn ignores the result.  An instance without a thread never sends.
mosquitto_publish(u, m) ==
    outq' = IF started[u] THEN [outq EXCEPT ![u] = @ \cup {m}] ELSE outq

psn_make_friend_req(u, v) ==
    /\ Idle(u)
    /\ connected[u]
    /\ friend_requests_outgoing[u][v] < MaxRequests
    /\ mosquitto_publish(u, FRequest(u, v))
    /\ Enter(u, "add", v)
    /\ asked' = asked \cup {<<u, v>>}
    /\ UNCHANGED <<lists, connected, started, session, inbox, shown>>

make_friend_req_add(u) ==
    /\ cli[u].op = "add"
    /\ friend_requests_outgoing' =
          [friend_requests_outgoing EXCEPT ![u] = HASH_ADD_STR(@, cli[u].target)]
    /\ Leave(u)
    /\ UNCHANGED <<friends, friend_requests_incoming, connected, started, net, asked, shown>>

psn_accept_friend_req(u, v) ==
    /\ Idle(u)
    /\ connected[u]
    /\ HASH_FIND_STR(friend_requests_incoming[u], v)
    /\ friend_requests_incoming' =
          [friend_requests_incoming EXCEPT ![u] = HASH_DEL(@, v)]
    /\ mosquitto_publish(u, FRequest(u, v))
    /\ Enter(u, "accept", v)
    /\ asked' = asked \cup {<<u, v>>}
    /\ UNCHANGED <<friends, friend_requests_outgoing, connected, started,
                   session, inbox, shown>>

accept_friend_req_add(u) ==
    /\ cli[u].op = "accept"
    /\ friends' = [friends EXCEPT ![u] = HASH_ADD_STR(@, cli[u].target)]
    /\ Leave(u)
    /\ UNCHANGED <<friend_requests_incoming, friend_requests_outgoing,
                   connected, started, net, asked, shown>>

psn_refuse_friend_req(u, v) ==
    /\ Idle(u)
    /\ HASH_FIND_STR(friend_requests_incoming[u], v)
    /\ friend_requests_incoming' =
          [friend_requests_incoming EXCEPT ![u] = HASH_DEL(@, v)]
    /\ UNCHANGED <<friends, friend_requests_outgoing, connected, started, cli, net, asked, shown>>

\* Mutant of psn_delete_friend: deletes without looking the name up.
psn_delete_friend_unchecked(u, v) ==
    /\ Idle(u)
    /\ friends' = [friends EXCEPT ![u] = HASH_DEL(@, v)]
    /\ UNCHANGED <<friend_requests_incoming, friend_requests_outgoing,
                   connected, started, cli, net, asked, shown>>

psn_delete_friend(u, v) ==
    /\ Idle(u)
    /\ HASH_FIND_STR(friends[u], v)
    /\ friends' = [friends EXCEPT ![u] = HASH_DEL(@, v)]
    /\ UNCHANGED <<friend_requests_incoming, friend_requests_outgoing,
                   connected, started, cli, net, asked, shown>>

psn_send_message(u, v) ==
    /\ Idle(u)
    /\ connected[u]
    /\ HASH_FIND_STR(friends[u], v)
    /\ mosquitto_publish(u, Chat(u, v))
    /\ UNCHANGED <<lists, connected, started, cli, session, inbox, asked, shown>>

\* It looks neither at the friend list nor at the flag.
psn_send_encrypted_message(u, v) ==
    /\ Idle(u)
    /\ mosquitto_publish(u, Chat(u, v))
    /\ UNCHANGED <<lists, connected, started, cli, session, inbox, asked, shown>>

\* The process ends, by "exit" or by a crash in the middle of a call, and the
\* next one starts from psn_init.  Nothing is saved and nobody says goodbye.
exit(u) ==
    /\ friends' = [friends EXCEPT ![u] = EmptyList(Users)]
    /\ friend_requests_incoming' = [friend_requests_incoming EXCEPT ![u] = EmptyList(Users)]
    /\ friend_requests_outgoing' = [friend_requests_outgoing EXCEPT ![u] = EmptyList(Users)]
    /\ connected' = [connected EXCEPT ![u] = FALSE]
    /\ started' = [started EXCEPT ![u] = FALSE]
    /\ mqtt3_context_cleanup(u)
    /\ Leave(u)
    /\ UNCHANGED <<outq, asked, shown>>

-----------------------------------------------------------------------------
(* The broker and the link.                                                *)

\* The broker has answered CONNECT and processed the two SUBSCRIBEs.
broker_subscribe(u) ==
    /\ session[u] = "subscribing"
    /\ session' = [session EXCEPT ![u] = "subscribed"]
    /\ UNCHANGED <<lists, connected, started, cli, outq, inbox, asked, shown>>

\* The PUBACK of the broker reaches u: it forgets the message.
puback_out(u, m) == outq' = [outq EXCEPT ![u] = @ \ {m}]

\* The broker queues m for its target, or drops it because the target is not
\* subscribed or its queue is full.
mqtt3_db_message_insert(m) ==
    inbox' = IF session[m.to] = "subscribed" /\ Len(inbox[m.to]) < MaxQueued
             THEN [inbox EXCEPT ![m.to] = Append(@, m)]
             ELSE inbox

\* A QoS 1 PUBLISH of u arrives at the broker, which answers with a PUBACK even
\* if it has dropped the message.  Unless the PUBACK reaches u, u sends it again.
broker_publish(u, m) ==
    /\ m \in outq[u]
    /\ session[u] # "offline" \/ ~connected[u]
    /\ mqtt3_db_message_insert(m)
    /\ puback_out(u, m) \/ UNCHANGED outq
    /\ UNCHANGED <<lists, connected, started, cli, session, asked, shown>>

\* A message written before the socket was closed does not arrive.
lose_message(u, m) ==
    /\ m \in outq[u]
    /\ ~connected[u]
    /\ outq' = [outq EXCEPT ![u] = @ \ {m}]
    /\ UNCHANGED <<lists, connected, started, cli, session, inbox, asked, shown>>

\* The connection breaks or its keepalive runs out.
link_lost(u) ==
    /\ session[u] # "offline"
    /\ mqtt3_context_cleanup(u)
    /\ UNCHANGED <<lists, connected, started, cli, outq, asked, shown>>

\* The loop thread reconnects by itself; only psn_connect subscribes.
mosquitto_reconnect(u) ==
    /\ connected[u]
    /\ session[u] = "offline"
    /\ session' = [session EXCEPT ![u] = "deaf"]
    /\ UNCHANGED <<lists, connected, started, cli, outq, inbox, asked, shown>>

-----------------------------------------------------------------------------
(* The loop thread: psn_message_callback.                                  *)

\* Mutants of receive_chat: no look at the friend list; a look at the wrong one.
receive_chat_unchecked(u, v) ==
    shown' = shown \cup {<<v, u>>} /\ UNCHANGED lists

receive_chat_wrong_list(u, v) ==
    /\ shown' = IF HASH_FIND_STR(friend_requests_incoming[u], v)
                THEN shown \cup {<<v, u>>} ELSE shown
    /\ UNCHANGED lists

receive_chat(u, v) ==
    /\ shown' = IF HASH_FIND_STR(friends[u], v)
                THEN shown \cup {<<v, u>>} ELSE shown
    /\ UNCHANGED lists

\* Mutant of already_known: the friend list is not looked at.
already_known_incoming_only(u, v) == HASH_FIND_STR(friend_requests_incoming[u], v)

already_known(u, v) ==
    \/ HASH_FIND_STR(friend_requests_incoming[u], v)
    \/ HASH_FIND_STR(friends[u], v)

\* Mutants of has_accepted: the outgoing entry stays; the friend is not added;
\* the user is asked again.
has_accepted_keeps_entry(u, v) ==
    /\ friends' = [friends EXCEPT ![u] = HASH_ADD_STR(@, v)]
    /\ UNCHANGED <<friend_requests_incoming, friend_requests_outgoing>>

has_accepted_not_added(u, v) ==
    /\ friend_requests_outgoing' =
          [friend_requests_outgoing EXCEPT ![u] = HASH_DEL(@, v)]
    /\ UNCHANGED <<friends, friend_requests_incoming>>

has_accepted_asks_again(u, v) ==
    /\ friend_requests_incoming' =
          [friend_requests_incoming EXCEPT ![u] = HASH_ADD_STR(@, v)]
    /\ UNCHANGED <<friends, friend_requests_outgoing>>

has_accepted(u, v) ==
    /\ friend_requests_outgoing' =
          [friend_requests_outgoing EXCEPT ![u] = HASH_DEL(@, v)]
    /\ friends' = [friends EXCEPT ![u] = HASH_ADD_STR(@, v)]
    /\ UNCHANGED friend_requests_incoming

\* Mutant of sent_you_a_friend_request: it is accepted at once.
sent_and_accepted(u, v) ==
    /\ friends' = [friends EXCEPT ![u] = HASH_ADD_STR(@, v)]
    /\ UNCHANGED <<friend_requests_incoming, friend_requests_outgoing>>

sent_you_a_friend_request(u, v) ==
    /\ friend_requests_incoming' =
          [friend_requests_incoming EXCEPT ![u] = HASH_ADD_STR(@, v)]
    /\ UNCHANGED <<friends, friend_requests_outgoing>>

receive_frequest(u, v) ==
    /\ \/ already_known(u, v) /\ UNCHANGED lists
       \/ /\ ~already_known(u, v)
          /\ HASH_FIND_STR(friend_requests_outgoing[u], v)
          /\ has_accepted(u, v)
       \/ /\ ~already_known(u, v)
          /\ ~HASH_FIND_STR(friend_requests_outgoing[u], v)
          /\ sent_you_a_friend_request(u, v)
    /\ UNCHANGED shown

\* u's PUBACK ends the message, or is late and the broker sends it once more.
puback_in(u) == inbox' = [inbox EXCEPT ![u] = Tail(@)]
send_again(u) == inbox' = [inbox EXCEPT ![u] = Append(Tail(@), Head(@))]

psn_message_callback(u) ==
    /\ session[u] = "subscribed"
    /\ inbox[u] # <<>>
    /\ LET m == Head(inbox[u]) IN
          \/ m.topic = "chat" /\ receive_chat(u, m.from)
          \/ m.topic = "frequest" /\ receive_frequest(u, m.from)
    /\ puback_in(u) \/ send_again(u)
    /\ UNCHANGED <<connected, started, cli, session, outq, asked>>

-----------------------------------------------------------------------------

Command(u) ==
    \/ (connected[u] => u \in Flaky) /\ psn_connect(u)
    \/ (connected[u] => u \in Flaky) /\ psn_connect_fails(u)
    \/ psn_disconnect(u)
    \/ \E v \in Contacts[u] : psn_make_friend_req(u, v)
    \/ \E v \in Users :
          \/ psn_accept_friend_req(u, v)
          \/ psn_refuse_friend_req(u, v)
          \/ psn_delete_friend(u, v)
    \/ \E v \in Chats[u] : psn_send_message(u, v) \/ psn_send_encrypted_message(u, v)

Return(u) == make_friend_req_add(u) \/ accept_friend_req_add(u)

Link(u) == mosquitto_reconnect(u) \/ broker_subscribe(u)

Failure(u) == u \in Flaky /\ (link_lost(u) \/ exit(u))

Transport(u) == \E m \in outq[u] : broker_publish(u, m) \/ lose_message(u, m)

Next ==
    \E u \in Users :
        \/ Command(u) \/ Return(u)
        \/ Link(u) \/ Failure(u) \/ Transport(u)
        \/ psn_message_callback(u)

Spec == Init /\ [][Next]_vars

\* The threads and the broker keep running and a lost PUBACK is not lost
\* forever; nothing is assumed of the user or of the quality of the link.
Fairness ==
    \A u \in Users :
        /\ WF_vars(Return(u))
        /\ WF_vars(broker_subscribe(u))
        /\ WF_vars(mosquitto_reconnect(u))
        /\ \A m \in {n \in Messages : n.from = u} :
              WF_vars(broker_publish(u, m) /\ puback_out(u, m))
        /\ WF_vars(psn_message_callback(u) /\ puback_in(u))

FairSpec == Spec /\ Fairness

-----------------------------------------------------------------------------
(* Properties.                                                             *)

\* A name is in a friend list only if both sides have at some time typed
\* "add" or "accept" for each other, whatever the network repeats, drops or
\* reorders (psn_message_callback takes any request from a user in the
\* outgoing list for an acceptance).
FriendsByConsent ==
    \A u, v \in Users :
        HASH_FIND_STR(friends[u], v) => {<<u, v>>, <<v, u>>} \subseteq asked

\* psn_message_callback shows a chat line only between users who have both
\* consented, although "enc" sends to anybody.
ShownByConsent ==
    \A u, v \in Users : <<v, u>> \in shown => {<<u, v>>, <<v, u>>} \subseteq asked

Adding(u, v) == IF cli[u].op = "add" /\ cli[u].target = v THEN 1 ELSE 0

Accepting(u, v) == IF cli[u].op = "accept" /\ cli[u].target = v THEN 1 ELSE 0

\* The uthash tables are meant to hold a name once.  A request that arrives
\* while psn_accept_friend_req is between its HASH_DEL and its HASH_ADD_STR
\* makes a second entry of the name, but never a third, and the incoming
\* list itself never holds a name twice.
KnownAtMostTwice ==
    \A u, v \in Users :
        /\ friend_requests_incoming[u][v] <= 1
        /\ friends[u][v] + friend_requests_incoming[u][v] + Accepting(u, v) <= 2

\* The handshake of psn.c over MQTT does what Friendship allows: a consent is
\* an outgoing entry or a call that has published and not yet added its entry.
Consents ==
    [u \in Users |-> [v \in Users |->
        friend_requests_outgoing[u][v] + Adding(u, v) + Accepting(u, v)]]

Abstract == INSTANCE Friendship WITH offers <- Consents

\* Each entry of a friend list uses up one consent of the list's owner, and
\* the other side has consented too, under every interleaving of the two
\* threads, every duplicate and every crash.
ImplementsFriendship == Abstract!Spec

-----------------------------------------------------------------------------

\* The links carry messages from u to v.
Linked(u, v) == connected[u] /\ session[u] # "offline" /\ session[v] = "subscribed"

\* The broker drops m if it arrives now.
Overflows(u, m) == m \in outq[u] /\ Len(inbox[m.to]) >= MaxQueued

\* A friend request that has been published makes its sender known to the
\* target, as an incoming request or as a friend, unless a link breaks or the
\* target's queue is full.
RequestArrives ==
    \A u, v \in Users :
        FRequest(u, v) \in outq[u] ~>
            \/ HASH_FIND_STR(friend_requests_incoming[v], u)
            \/ HASH_FIND_STR(friends[v], u)
            \/ ~Linked(u, v)
            \/ Overflows(u, FRequest(u, v))

\* An answer to somebody whose own request is recorded and who has not got a
\* request to decide on makes the sender a friend there.
AcceptCompletes ==
    \A u, v \in Users :
        /\ FRequest(u, v) \in outq[u]
        /\ HASH_FIND_STR(friend_requests_outgoing[v], u)
        /\ ~HASH_FIND_STR(friend_requests_incoming[v], u)
        ~>  \/ HASH_FIND_STR(friends[v], u)
            \/ ~Linked(u, v)
            \/ Overflows(u, FRequest(u, v))

\* A chat line that has been published is shown to a friend, unless a link
\* breaks, the queue is full or the friendship ends.
ChatArrives ==
    \A u, v \in Users :
        Chat(u, v) \in outq[u] ~>
            \/ <<u, v>> \in shown
            \/ ~HASH_FIND_STR(friends[v], u)
            \/ ~Linked(u, v)
            \/ Overflows(u, Chat(u, v))

\* "If a friend sends a message the user will be notified in real time"
\* (docs/proto.txt): while both have not left, a chat line between friends
\* is shown.
NotifiedInRealTime ==
    \A u, v \in Users :
        Chat(u, v) \in outq[u] ~>
            \/ <<u, v>> \in shown
            \/ ~HASH_FIND_STR(friends[v], u)
            \/ ~connected[u] \/ ~connected[v]
            \/ session[v] \in {"offline", "subscribing"}
            \/ Overflows(u, Chat(u, v))
=============================================================================
