------------------------------- MODULE Broker -------------------------------
(***************************************************************************)
(* The packet handlers of the mosquitto broker (read_handle.c,             *)
(* read_handle_server.c, read_handle_shared.c), the life of a client       *)
(* context (context.c) and the steps of the main loop (loop.c, net.c).     *)
(*                                                                         *)
(* The broker has one thread; a handler takes the database and returns the *)
(* changed one.  The database is a record:                                 *)
(*   contexts     slot -> context, or NULL                                 *)
(*   cih          client id -> slot (clientid_index_hash)                  *)
(*   subs         the subscription tree                                    *)
(*   store, last_db_id           the message bodies                        *)
(*   acl_list, acl_patterns, unpwd, psk_id       access control            *)
(*   client_count                connections the listener counts           *)
(*   config       what the configuration file says                         *)
(*   out, broken  per connection: the packets written to it; the           *)
(*                connections whose peer is gone                           *)
(***************************************************************************)
EXTENDS Access, SubTree

\* Contexts[sock = NULL] have no connection; the others are the connections
\* accept() has returned.
mqtt3_context_init(sock) ==
    [id |-> NULL, sock |-> sock, state |-> "new", clean_session |-> TRUE, will |-> NULL,
     username |-> NULL, password |-> NULL, acl_list |-> 0, listener |-> FALSE,
     is_bridge |-> FALSE, protocol |-> NULL, msgs |-> <<>>, msg_count12 |-> 0, last_mid |-> 0]

\* An empty database.
mqtt3_db_open(slots, conns, config) ==
    [contexts |-> [i \in slots |-> NULL], cih |-> <<>>, subs |-> NewTree,
     store |-> <<>>, last_db_id |-> 0,
     acl_list |-> <<>>, acl_patterns |-> <<>>, unpwd |-> <<>>, psk_id |-> <<>>,
     client_count |-> 0, config |-> config,
     out |-> [c \in conns |-> <<>>], broken |-> {}]

-----------------------------------------------------------------------------
(* Distributing a message.                                                 *)

lower(a, b) == IF a < b THEN a ELSE b

\* One subscription of a node.  A bridge does not get its own messages back; the
\* retain flag is only passed on to bridges.
deliver(db, leaf, source, topic, qos, retain, s) ==
    LET i == leaf.context
        c == db.contexts[i]
        msg_qos == IF db.config.upgrade_outgoing_qos THEN leaf.qos ELSE lower(qos, leaf.qos)
        mid == IF msg_qos > 0 THEN _mosquitto_mid_generate(c) ELSE 0
        numbered == IF msg_qos > 0 THEN [db EXCEPT !.contexts[i].last_mid = mid] ELSE db
    IN IF \/ c.is_bridge /\ c.id = source
          \/ ~mosquitto_acl_check_default(db, i, topic, READ)
       THEN db
       ELSE mqtt3_db_message_insert(numbered, i, mid, "out", msg_qos,
                                    c.is_bridge /\ retain, s).db

\* Mutant of retain_at: the message that was retained before is forgotten, its
\* reference is not.
retain_at_leaks(db, node, s) ==
    IF db.store[s].payload = ""
    THEN [db EXCEPT !.subs[node].retained = NoBody]
    ELSE [db EXCEPT !.subs[node].retained = s, !.store[s].ref_count = @ + 1]

\* An empty payload clears the retained message.
retain_at(db, node, s) ==
    LET old == db.subs[node].retained
        d == IF old = NoBody THEN db ELSE unref(db, old)
    IN IF d.store[s].payload = ""
       THEN [d EXCEPT !.subs[node].retained = NoBody]
       ELSE [d EXCEPT !.subs[node].retained = s, !.store[s].ref_count = @ + 1]

\* A node that a message was found to match.  Without a source the message is
\* only retained.
_subs_process(db, node, source, topic, qos, retain, s, set_retain) ==
    LET step(d, leaf) == deliver(d, leaf, source, topic, qos, retain, s)
        d == IF retain /\ set_retain THEN retain_at(db, node, s) ELSE db
    IN IF source = NULL THEN d ELSE FoldLeft(step, d, d.subs[node].subs)

\* The tree is searched if it has the first token; a retained message makes its
\* own branch.
mqtt3_db_messages_queue(db, source, topic, qos, retain, s) ==
    LET tokens == _sub_topic_tokenise(topic)
        d == IF retain THEN [db EXCEPT !.subs = grow(@, node_path(tokens))] ELSE db
        step(e, hit) == _subs_process(e, hit.node, source, topic, qos, retain, s, hit.set_retain)
    IN IF <<Head(tokens)>> \notin DOMAIN db.subs THEN db
       ELSE FoldLeft(step, d, _sub_search(d.subs, tokens))

\* A message of the broker's own: a will.
mqtt3_db_messages_easy_queue(db, source, m) ==
    LET d == mqtt3_db_message_store(db, source, 0, m.topic, m.qos, m.payload, m.retain)
    IN mqtt3_db_messages_queue(d, source, m.topic, m.qos, m.retain, d.last_db_id)

\* The retained message of a node, for a new subscription.
_retain_process(db, i, node, sub_qos) ==
    LET s == db.subs[node].retained
        qos == lower(db.store[s].qos, sub_qos)
        mid == IF qos > 0 THEN _mosquitto_mid_generate(db.contexts[i]) ELSE 0
        d == IF qos > 0 THEN [db EXCEPT !.contexts[i].last_mid = mid] ELSE db
    IN IF ~mosquitto_acl_check_default(db, i, db.store[s].topic, READ) THEN db
       ELSE mqtt3_db_message_insert(d, i, mid, "out", qos, TRUE, s).db

mqtt3_retain_queue(db, i, sub, qos) ==
    LET step(d, node) == _retain_process(d, i, node, qos)
    IN FoldLeft(step, db, _retain_search(db.subs, _sub_topic_tokenise(sub)))

\* A PUBREL lets the message go to its subscribers.  On the way, messages that
\* have moved up are answered.
mqtt3_db_message_release(db, i, mid) ==
    LET step(w, k) ==
          LET m == w.db.contexts[i].msgs[w.at]
              up == moves_up(m, k)
              d == IF ~up THEN w.db
                   ELSE LET e == [w.db EXCEPT !.contexts[i].msgs[w.at] = move_up(@)]
                        IN IF m.direction = "in"
                           THEN _mosquitto_send_command_with_mid(e, i, "PUBREC", m.mid) ELSE e
              body == d.store[m.store]
              queued == IF body.topic = NoTopic THEN d
                        ELSE mqtt3_db_messages_queue(d, body.source_id, body.topic, body.qos,
                                                     m.retain, m.store)
          IN IF w.deleted /\ k - 1 > max_inflight THEN w
             ELSE IF m.mid = mid /\ m.direction = "in"
             THEN [w EXCEPT !.db = _message_remove(queued, i, w.at), !.deleted = TRUE]
             ELSE [w EXCEPT !.db = d, !.at = @ + 1]
    IN FoldLeft(step, [db |-> db, at |-> 1, deleted |-> FALSE],
                [k \in DOMAIN db.contexts[i].msgs |-> k]).db

-----------------------------------------------------------------------------
(* Contexts.                                                               *)

\* The listener counts one connection less.
uncount(db, i) ==
    IF db.contexts[i].listener
    THEN [db EXCEPT !.client_count = @ - 1, !.contexts[i].listener = FALSE]
    ELSE db

\* The client id no longer leads to a context.
unindex(db, id) ==
    [db EXCEPT !.cih = [other \in DOMAIN @ \ {id} |-> @[other]]]

\* A context without a connection and without a name.
nameless(c) ==
    [c EXCEPT !.sock = NULL, !.id = NULL, !.will = NULL, !.username = NULL, !.password = NULL]

\* Mutant of mqtt3_context_cleanup: the subscriptions of a clean session stay.
mqtt3_context_cleanup_keeps_subs(db, i) ==
    LET c == db.contexts[i]
        d1 == IF c.sock # NULL THEN uncount(db, i) ELSE db
        d2 == IF c.clean_session THEN mqtt3_db_messages_delete(d1, i) ELSE d1
        d3 == IF c.id # NULL THEN unindex(d2, c.id) ELSE d2
    IN [d3 EXCEPT !.contexts[i] = nameless(@)]

\* All that belongs to the connection goes, with a clean session the
\* subscriptions and messages, too.  The will goes unsent.
mqtt3_context_cleanup(db, i) ==
    LET c == db.contexts[i]
        d1 == IF c.sock # NULL THEN uncount(db, i) ELSE db
        d2 == IF c.clean_session
              THEN mqtt3_db_messages_delete([d1 EXCEPT !.subs = mqtt3_subs_clean_session(@, i)], i)
              ELSE d1
        d3 == IF c.id # NULL THEN unindex(d2, c.id) ELSE d2
    IN [d3 EXCEPT !.contexts[i] = nameless(@)]

\* ... and the context itself.
free_context(db, i) ==
    [mqtt3_db_messages_delete(mqtt3_context_cleanup(db, i), i) EXCEPT !.contexts[i] = NULL]

\* The connection ends; unless the client has said so, its will is sent.
mqtt3_context_disconnect(db, i) ==
    LET c == db.contexts[i]
        d == IF c.state # "disconnecting" /\ c.will # NULL
             THEN mqtt3_db_messages_easy_queue(db, c.id, c.will) ELSE db
    IN [uncount(d, i) EXCEPT !.contexts[i].will = NULL, !.contexts[i].sock = NULL]

-----------------------------------------------------------------------------
(* The result of a handler is [db, rc]; rc 1 drops the connection.         *)

done(db) == [db |-> db, rc |-> 0]

failed(db) == [db |-> db, rc |-> 1]

\* The handler ends with an answer.
answered(db, i, packet) ==
    [db |-> send(db, i, packet), rc |-> IF write_fails(db, i) THEN 1 ELSE 0]

reply(db, i, type, mid) == answered(db, i, [type |-> type, mid |-> mid])

\* The loop after a handler or a write that has returned r.
after(r, i) == IF r.rc = 0 THEN r.db ELSE mqtt3_context_disconnect(r.db, i)

-----------------------------------------------------------------------------
(* CONNECT.                                                                *)

CONNACK(code) == [type |-> "CONNACK", code |-> code]

_mosquitto_send_connack(db, i, code) == answered(db, i, CONNACK(code))

\* A refused connection ends here, with a CONNACK or without one; why is the code
\* and the result.
refuse(db, i, why) ==
    [db |-> mqtt3_context_disconnect(
               IF why[1] = 0 THEN db ELSE _mosquitto_send_connack(db, i, why[1]).db, i),
     rc |-> why[2]]

\* The client id of the packet, or one the broker makes up: MQTT 3.1.1 clients
\* may leave it out if they want a clean session.
client_id(db, p) ==
    IF p.id # NULL THEN p.id
    ELSE IF p.protocol = "mqtt311" /\ p.clean_session /\ db.config.allow_zero_length_clientid
    THEN p.auto_id ELSE NULL

\* Who the client says it is, by its certificate or key if the listener wants
\* that, by its name and password else: a CONNACK code, 0 for none.
identity_refusal(db, p) ==
    CASE db.config.use_identity_as_username -> IF p.identity = NULL THEN 4 ELSE 0
      [] ~db.config.use_identity_as_username /\ p.username # NULL ->
           IF mosquitto_unpwd_check_default(db, p.username, p.password) = "auth" THEN 4 ELSE 0
      [] OTHER -> IF db.config.allow_anonymous THEN 0 ELSE 5

\* Why the connection is refused: a CONNACK code, and the result; <<0, 0>> if it is
\* not.  A connection has one CONNECT; "valid" stands for all that can be wrong
\* with the form of the packet.
refusal(db, i, p) ==
    LET id == client_id(db, p)
    IN IF db.contexts[i].state # "new" \/ ~p.valid THEN <<0, 1>>
       ELSE IF p.protocol \notin {"mqtt31", "mqtt311"} THEN <<1, 1>>
       ELSE IF id = NULL THEN <<2, 1>>
       ELSE IF id \notin db.config.clientids THEN <<5, 0>>
       ELSE <<identity_refusal(db, p), 0>>

\* Context "old" gets the connection of context c.
resumed(old, c) ==
    [old EXCEPT !.state = "connected", !.sock = c.sock, !.listener = c.listener,
                !.username = c.username]

abandoned(c) == [c EXCEPT !.sock = NULL, !.state = "disconnecting"]

\* Mutant of takeover: the messages of the session are not reset.
takeover_keeps_messages_unreset(db, i, k, p) ==
    LET c == db.contexts[i]
        d == mqtt3_context_cleanup([db EXCEPT !.contexts[k].clean_session = p.clean_session], k)
    IN [d EXCEPT !.contexts[k] = resumed(@, c), !.contexts[i] = abandoned(@)]

\* The session of a context starts over, if there is one.
reset_session(db, k) ==
    IF db.contexts[k].msgs = <<>> THEN db ELSE mqtt3_db_message_reconnect_reset(db, k)

\* Context k had that client id, connected or not: it gets the connection of the
\* new context i, which has none then and is freed later.  The old connection is
\* closed.  The session goes if the new connection asks for a clean one.
takeover(db, i, k, p) ==
    LET c == db.contexts[i]
        d == mqtt3_context_cleanup([db EXCEPT !.contexts[k].clean_session = p.clean_session], k)
    IN reset_session(
         [d EXCEPT !.contexts[k] = resumed(@, c), !.contexts[i] = abandoned(@)], k)

\* An access list that exists is looked up; a user without an entry keeps the
\* entry the context had before.
associate(db, i) ==
    LET k == acl_user(db.acl_list, db.contexts[i].username)
    IN IF db.acl_list = <<>> THEN [db EXCEPT !.contexts[i].acl_list = 0]
       ELSE IF k = 0 THEN db ELSE [db EXCEPT !.contexts[i].acl_list = k]

\* The context takes what the packet says of its user.
named(c, p, by_identity) ==
    [c EXCEPT !.protocol = p.protocol,
              !.username = IF by_identity THEN p.identity ELSE p.username,
              !.password = IF by_identity THEN NULL ELSE p.password]

name_context(db, i, p) ==
    [db EXCEPT !.contexts[i] = named(@, p, db.config.use_identity_as_username)]

\* The client id leads to context k.
identified(c, id, p) ==
    [c EXCEPT !.id = id, !.clean_session = p.clean_session, !.is_bridge = @ \/ p.bridge]

index_context(db, k, id, p) ==
    [associate(db, k) EXCEPT
       !.cih = [x \in DOMAIN @ \cup {id} |-> IF x = id THEN k ELSE @[x]],
       !.contexts[k] = identified(@, id, p)]

\* A will that the client may not publish is the last reason to refuse it.
welcome(db, k, p) ==
    IF p.will # NULL /\ ~mosquitto_acl_check_default(db, k, p.will.topic, WRITE)
    THEN refuse(db, k, <<5, 0>>)
    ELSE _mosquitto_send_connack(
           [db EXCEPT !.contexts[k].will = p.will, !.contexts[k].state = "connected"], k, 0)

\* The context that has the client id already gets the connection.  The result of
\* the packet is that of its CONNACK; the caller applies it to context i even if
\* the connection has moved to context k.
mqtt3_handle_connect(db, i, p) ==
    LET id == client_id(db, p)
        found == id \in DOMAIN db.cih
        k == IF found THEN db.cih[id] ELSE i
        d == name_context(db, i, p)
    IN IF refusal(db, i, p) # <<0, 0>> THEN refuse(db, i, refusal(db, i, p))
       ELSE welcome(index_context(IF found THEN takeover(d, i, k, p) ELSE d, k, id, p),
                    k, p)

-----------------------------------------------------------------------------
(* The other packets.                                                      *)

\* Mutant of mqtt3_handle_disconnect: the client has not said goodbye.
mqtt3_handle_disconnect_as_error(db, i) == done(mqtt3_context_disconnect(db, i))

mqtt3_handle_disconnect(db, i) ==
    done(mqtt3_context_disconnect([db EXCEPT !.contexts[i].state = "disconnecting"], i))

\* One subscription of the packet.  An MQTT 3.1.1 client that may not read what
\* it subscribes to is told so (128); others get the subscription.
subscribe(acc, i, sub, qos) ==
    LET topic == acc.db.config.mount_point \o sub
        denied == /\ acc.db.contexts[i].protocol = "mqtt311"
                  /\ ~mosquitto_acl_check_default(acc.db, i, topic, READ)
        added == [acc.db EXCEPT !.subs = mqtt3_sub_add(@, i, qos, _sub_topic_tokenise(topic))]
    IN IF denied THEN [db |-> acc.db, granted |-> Append(acc.granted, 128)]
       ELSE [db |-> mqtt3_retain_queue(added, i, topic, qos), granted |-> Append(acc.granted, qos)]

\* The packet is answered; one whose last subscription was refused drops the
\* connection all the same.
suback(acc, i, mid) ==
    LET r == answered(acc.db, i, [type |-> "SUBACK", mid |-> mid, granted |-> acc.granted])
    IN IF acc.granted # <<>> /\ Last(acc.granted) = 128 THEN failed(r.db) ELSE r

\* A filter that is not well formed drops the connection; those before it stay.
mqtt3_handle_subscribe(db, i, p) ==
    LET valid(k) == p.subs[k].sub # <<>> /\ _mosquitto_topic_wildcard_pos_check(p.subs[k].sub)
                    /\ p.subs[k].qos \in 0..2
        good == {k \in DOMAIN p.subs : \A l \in 1..k : valid(l)}
        broken == good # DOMAIN p.subs \/ (p.subs = <<>> /\ db.contexts[i].protocol = "mqtt311")
        step(acc, s) == subscribe(acc, i, s.sub, s.qos)
        answer(acc) == IF broken THEN failed(acc.db) ELSE suback(acc, i, p.mid)
    IN answer(FoldLeft(step, [db |-> db, granted |-> <<>>],
                       SubSeq(p.subs, 1, Cardinality(good))))

\* The mount point is not put before the filter here.
mqtt3_handle_unsubscribe(db, i, p) ==
    IF p.sub = <<>> \/ ~_mosquitto_topic_wildcard_pos_check(p.sub) THEN failed(db)
    ELSE reply([db EXCEPT !.subs = mqtt3_sub_remove(@, i, _sub_topic_tokenise(p.sub))],
               i, "UNSUBACK", p.mid)

\* A message that may not be published, or is too large, is acknowledged and
\* dropped.  At QoS 2 a body without a topic stands for it.
bad_message(db, i, p) ==
    LET found == mqtt3_db_message_store_find(db, i, p.mid)
        d == mqtt3_db_message_store(db, db.contexts[i].id, p.mid, NoTopic, 2, "", FALSE)
        r == mqtt3_db_message_insert(d, i, p.mid, "in", 2, FALSE, d.last_db_id)
    IN CASE p.qos = 0 -> done(db)
         [] p.qos = 1 -> reply(db, i, "PUBACK", p.mid)
         [] p.qos = 2 /\ found # NULL -> reply(db, i, "PUBREC", p.mid)
         [] OTHER -> IF r.rc = 0 THEN reply(r.db, i, "PUBREC", p.mid) ELSE r

\* Mutant of mqtt3_handle_publish: a QoS 2 message is stored and distributed at
\* once, whether it is a repetition or not.
mqtt3_handle_publish_at_once(db, i, p) ==
    LET topic == db.config.mount_point \o p.topic
        d == mqtt3_db_message_store(db, db.contexts[i].id, p.mid, topic, p.qos, p.payload, p.retain)
        q == mqtt3_db_messages_queue(d, db.contexts[i].id, topic, p.qos, p.retain, d.last_db_id)
    IN CASE p.qos = 0 -> done(q)
         [] p.qos = 1 -> reply(q, i, "PUBACK", p.mid)
         [] OTHER -> reply(q, i, "PUBREC", p.mid)

\* Body s of message p goes to its subscribers.
distribute(db, i, p, topic, s) ==
    mqtt3_db_messages_queue(db, db.contexts[i].id, topic, p.qos, p.retain, s)

\* A QoS 1 message is acknowledged once it is distributed.
puback(db, i, p) == IF p.qos = 0 THEN done(db) ELSE reply(db, i, "PUBACK", p.mid)

\* A QoS 2 message that there was room for is acknowledged, one that is only
\* queued is not yet.
pubrec(r, i, mid) ==
    CASE r.rc = 0 -> reply(r.db, i, "PUBREC", mid)
      [] r.rc = 1 -> r
      [] OTHER -> done(r.db)

\* A QoS 2 message waits for its PUBREL.  It is known again by its identifier
\* among the incoming messages, and then only acknowledged once more.
mqtt3_handle_publish(db, i, p) ==
    LET topic == db.config.mount_point \o p.topic
        found == IF p.qos > 0 THEN mqtt3_db_message_store_find(db, i, p.mid) ELSE NULL
        accept(d) ==
          LET s == IF found # NULL THEN found ELSE d.last_db_id
          IN IF p.qos < 2 THEN puback(distribute(d, i, p, topic, s), i, p)
             ELSE pubrec(IF found # NULL THEN done(d)
                         ELSE mqtt3_db_message_insert(d, i, p.mid, "in", 2, p.retain, s),
                         i, p.mid)
    IN IF p.topic = <<>> \/ ~_mosquitto_topic_wildcard_len_check(p.topic) THEN failed(db)
       ELSE IF p.payload = "large" \/ ~mosquitto_acl_check_default(db, i, topic, WRITE)
       THEN bad_message(db, i, p)
       ELSE accept(IF found # NULL THEN db
                   ELSE mqtt3_db_message_store(db, db.contexts[i].id, p.mid, topic, p.qos,
                                               p.payload, p.retain))

_mosquitto_handle_pubackcomp(db, i, mid) ==
    done(IF mid = 0 THEN db ELSE mqtt3_db_message_delete(db, i, mid, "out"))

\* A PUBREC for a message that is not there drops the connection.
_mosquitto_handle_pubrec(db, i, mid) ==
    LET r == mqtt3_db_message_update(db, i, mid, "out", "wait_for_pubcomp")
    IN IF r.found THEN reply(r.db, i, "PUBREL", mid) ELSE failed(db)

_mosquitto_handle_pubrel(db, i, mid) ==
    reply(mqtt3_db_message_release(db, i, mid), i, "PUBCOMP", mid)

\* The first packet has to be a CONNECT; "lost" is the end of the connection.
mqtt3_packet_handle(db, i, p) ==
    CASE p.type = "lost" \/ (p.type # "CONNECT" /\ db.contexts[i].state = "new") -> failed(db)
      [] p.type = "CONNECT" -> mqtt3_handle_connect(db, i, p)
      [] OTHER ->
           CASE p.type = "PINGREQ" -> reply(db, i, "PINGRESP", 0)
             [] p.type = "DISCONNECT" -> mqtt3_handle_disconnect(db, i)
             [] p.type = "SUBSCRIBE" -> mqtt3_handle_subscribe(db, i, p)
             [] p.type = "UNSUBSCRIBE" -> mqtt3_handle_unsubscribe(db, i, p)
             [] p.type = "PUBLISH" -> mqtt3_handle_publish(db, i, p)
             [] p.type \in {"PUBACK", "PUBCOMP"} -> _mosquitto_handle_pubackcomp(db, i, p.mid)
             [] p.type = "PUBREC" -> _mosquitto_handle_pubrec(db, i, p.mid)
             [] p.type = "PUBREL" -> _mosquitto_handle_pubrel(db, i, p.mid)
             [] OTHER -> failed(db)

-----------------------------------------------------------------------------
(* The main loop.                                                          *)

\* One packet of context i, or the end of its connection.
loop_handle_read(db, i, p) == after(mqtt3_packet_handle(db, i, p), i)

\* What the loop does for context i before it polls: write, drop the connection
\* if the client has been silent for too long, or free the context; "expired"
\* are those whose time is up.
loop_context(db, i, silent, expired) ==
    LET c == db.contexts[i]
    IN IF c = NULL THEN db
       ELSE IF c.sock # NULL
       THEN IF i \in silent THEN mqtt3_context_disconnect(db, i)
            ELSE after(mqtt3_db_message_write(db, i), i)
       ELSE IF c.clean_session THEN free_context(db, i)
       ELSE IF i \in expired
       THEN free_context([db EXCEPT !.contexts[i].clean_session = TRUE], i)
       ELSE db

loop_contexts(db, silent, expired) ==
    LET step(d, i) == loop_context(d, i, silent, expired)
    IN FoldLeft(step, db, [i \in DOMAIN db.contexts |-> i])

\* A new connection gets the first free slot.  Beyond max_connections it is
\* closed at once.
mqtt3_socket_accept(db, conn) ==
    LET free == {i \in DOMAIN db.contexts : db.contexts[i] = NULL}
        limit == db.config.max_connections
    IN IF limit > 0 /\ db.client_count + 1 > limit THEN db
       ELSE [db EXCEPT !.client_count = @ + 1,
                       !.contexts[first(free)] = [mqtt3_context_init(conn) EXCEPT !.listener = TRUE]]
=============================================================================
