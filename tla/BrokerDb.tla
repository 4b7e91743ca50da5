------------------------------ MODULE BrokerDb ------------------------------
(***************************************************************************)
(* The message database of the mosquitto broker (database.c): the store of *)
(* message bodies with their reference counts, and the list of messages in *)
(* flight or queued that each client context keeps.                        *)
(*                                                                         *)
(* Every operation takes the database and returns the changed one, so that *)
(* a packet handler that calls several of them is still one step.          *)
(***************************************************************************)
EXTENDS Topics

CONSTANTS
    max_inflight,               \* messages on their way to a client, 0: no limit
    max_queued,                 \* messages kept beyond those, 0: no limit
    allow_duplicate_messages,   \* one copy per matching subscription
    queue_qos0_messages         \* QoS 0 messages wait for absent clients, too

ASSUME BrokerDbAssumption ==
    /\ max_inflight \in Nat /\ max_queued \in Nat
    /\ allow_duplicate_messages \in BOOLEAN /\ queue_qos0_messages \in BOOLEAN

\* No topic: a QoS 2 message that was refused but has to be answered.
NoTopic == <<>>

publish_state(qos) == <<"publish_qos0", "publish_qos1", "publish_qos2">>[qos + 1]

online(c) == c.sock # NULL

\* Whether a write to context i fails: there is no socket, or the peer is gone.
write_fails(db, i) == db.contexts[i].sock \in db.broken \cup {NULL}

\* A packet for context i, on the connection it has now.
send(db, i, packet) ==
    IF write_fails(db, i) THEN db
    ELSE [db EXCEPT !.out[db.contexts[i].sock] = Append(@, packet)]

_mosquitto_send_command_with_mid(db, i, command, mid) ==
    send(db, i, [type |-> command, mid |-> mid])

\* The client does not see the mount point of its listener.
_mosquitto_send_publish(db, i, m) ==
    LET body == db.store[m.store]
        len == IF db.contexts[i].listener THEN Len(db.config.mount_point) ELSE 0
    IN IF len > 0 /\ len >= Len(body.topic) THEN db
       ELSE send(db, i, [type |-> "PUBLISH", mid |-> m.mid, qos |-> m.qos, dup |-> m.dup,
                         retain |-> m.retain, payload |-> body.payload,
                         topic |-> SubSeq(body.topic, len + 1, Len(body.topic))])

\* Identifiers are 16 bits wide in the code and run from 1.
_mosquitto_mid_generate(c) == c.last_mid + 1

-----------------------------------------------------------------------------
(* The store.                                                              *)

unref(db, s) == [db EXCEPT !.store[s].ref_count = @ - 1]

\* A new body, not referenced by anything yet; its number is last_db_id.
mqtt3_db_message_store(db, source, source_mid, topic, qos, payload, retain) ==
    LET s == db.last_db_id + 1
        body == [source_id |-> source, source_mid |-> source_mid, topic |-> topic,
                 qos |-> qos, payload |-> payload, retain |-> retain,
                 ref_count |-> 0, dest_ids |-> {}]
    IN [db EXCEPT !.last_db_id = s,
                  !.store = [t \in DOMAIN @ \cup {s} |-> IF t = s THEN body ELSE @[t]]]

\* The body of an incoming message with that identifier, or NULL.
mqtt3_db_message_store_find(db, i, mid) ==
    LET msgs == db.contexts[i].msgs
        found == {k \in DOMAIN msgs : /\ msgs[k].direction = "in"
                                      /\ db.store[msgs[k].store].source_mid = mid}
    IN IF found = {} THEN NULL
       ELSE msgs[CHOOSE k \in found : \A l \in found : k <= l].store

\* Bodies are freed here, not when the last reference goes.
mqtt3_db_store_clean(db) ==
    LET kept == {s \in DOMAIN db.store : db.store[s].ref_count # 0}
    IN [db EXCEPT !.store = [s \in kept |-> @[s]]]

-----------------------------------------------------------------------------
(* The messages of a context.                                              *)

\* Without the k-th message.
_message_remove(db, i, k) ==
    LET m == db.contexts[i].msgs[k]
    IN [unref(db, m.store) EXCEPT
          !.contexts[i].msgs = RemoveAt(@, k),
          !.contexts[i].msg_count12 = IF m.qos > 0 THEN @ - 1 ELSE @]

\* Without the messages at the indices in gone, the last of them first.
_messages_remove(db, i, gone) ==
    LET drop(d, k) == IF k \in gone THEN _message_remove(d, i, k) ELSE d
    IN FoldLeft(drop, db, Reverse([k \in DOMAIN db.contexts[i].msgs |-> k]))

\* All messages of context i, and their references.
mqtt3_db_messages_delete(db, i) ==
    LET drop(d, m) == unref(d, m.store)
    IN [FoldLeft(drop, db, db.contexts[i].msgs) EXCEPT
          !.contexts[i].msgs = <<>>, !.contexts[i].msg_count12 = 0]

\* The state a new message gets, or why it gets none.
insert_state(c, dir, qos) ==
    IF online(c)
    THEN IF qos = 0 \/ max_inflight = 0 \/ c.msg_count12 < max_inflight
         THEN IF dir = "out" THEN publish_state(qos)
              ELSE IF qos = 2 THEN "wait_for_pubrel" ELSE "invalid"
         ELSE IF max_queued = 0 \/ c.msg_count12 - max_inflight < max_queued
         THEN "queued" ELSE "dropped"
    ELSE IF \/ qos = 0 /\ ~queue_qos0_messages
            \/ max_queued > 0 /\ c.msg_count12 >= max_queued
         THEN "dropped" ELSE "queued"

\* rc 0: in flight, or queued for an absent client; 1: refused; 2: queued
\* behind others, or dropped.  A message that the client already has a copy of
\* is passed over.
mqtt3_db_message_insert(db, i, mid, dir, qos, retain, s) ==
    LET c == db.contexts[i]
        records == ~allow_duplicate_messages /\ dir = "out" /\ ~retain
        state == insert_state(c, dir, qos)
        m == [store |-> s, mid |-> mid, direction |-> dir, state |-> state, dup |-> FALSE,
              qos |-> qos, retain |-> retain, old |-> FALSE]
    IN IF records /\ c.id \in db.store[s].dest_ids THEN [db |-> db, rc |-> 0]
       ELSE IF state = "invalid" THEN [db |-> db, rc |-> 1]
       ELSE IF state = "dropped" THEN [db |-> db, rc |-> 2]
       ELSE [db |-> [db EXCEPT
                       !.store[s].ref_count = @ + 1,
                       !.store[s].dest_ids = IF records THEN @ \cup {c.id} ELSE @,
                       !.contexts[i].msgs = Append(@, m),
                       !.contexts[i].msg_count12 = IF qos > 0 THEN @ + 1 ELSE @],
             rc |-> IF state = "queued" /\ online(c) THEN 2 ELSE 0]

with_state(m, state) == [m EXCEPT !.state = state, !.old = FALSE]

matching(msgs, mid, dir) ==
    {k \in DOMAIN msgs : msgs[k].mid = mid /\ msgs[k].direction = dir}

first(ks) == CHOOSE k \in ks : \A l \in ks : k <= l

\* FALSE: there is no such message, for which the caller drops the connection.
mqtt3_db_message_update(db, i, mid, dir, state) ==
    LET ks == matching(db.contexts[i].msgs, mid, dir)
    IN [db |-> IF ks = {} THEN db
               ELSE [db EXCEPT !.contexts[i].msgs[first(ks)] = with_state(@, state)],
        found |-> ks # {}]

\* A queued message that has moved up into the first max_inflight.
moves_up(m, index) == m.state = "queued" /\ index <= max_inflight

move_up(m) ==
    IF m.direction = "out" THEN with_state(m, publish_state(m.qos))
    ELSE IF m.qos = 2 THEN with_state(m, "wait_for_pubrel") ELSE m

\* Acknowledged: the message goes, those behind it move up.  An incoming one
\* that moves up here gets no PUBREC.
mqtt3_db_message_delete(db, i, mid, dir) ==
    LET msgs == db.contexts[i].msgs
        ks == matching(msgs, mid, dir)
        kept(k) == Cardinality({l \in 1..k : l \notin ks})
        gone == {k \in ks : k = first(ks) \/ kept(k) <= max_inflight}
        moved == [k \in DOMAIN msgs |->
                    IF moves_up(msgs[k], kept(k - 1) + 1) THEN move_up(msgs[k]) ELSE msgs[k]]
    IN _messages_remove([db EXCEPT !.contexts[i].msgs = moved], i, gone)

\* On reconnect outgoing messages are sent again from the start, save for QoS 2
\* messages of which the PUBREL is due.
reset_state(m) ==
    IF m.direction = "in" \/ m.state = "queued" THEN m.state
    ELSE IF m.qos = 2 /\ m.state = "wait_for_pubcomp" THEN "resend_pubrel"
    ELSE publish_state(m.qos)

\* Mutant of mqtt3_db_message_reconnect_reset: the messages are not counted.
mqtt3_db_message_reconnect_reset_uncounted(db, i) ==
    LET msgs == db.contexts[i].msgs
    IN [db EXCEPT !.contexts[i].msgs =
          [k \in DOMAIN msgs |-> [msgs[k] EXCEPT !.state = reset_state(msgs[k])]]]

\* The first max_inflight of the queued messages move up, whatever their
\* direction is.  Incoming messages are all of QoS 2, so none is removed.
mqtt3_db_message_reconnect_reset(db, i) ==
    LET msgs == db.contexts[i].msgs
        reset(k) == reset_state(msgs[k])
    IN [db EXCEPT
          !.contexts[i].msg_count12 = Cardinality({k \in DOMAIN msgs : msgs[k].qos > 0}),
          !.contexts[i].msgs =
             [k \in DOMAIN msgs |-> [msgs[k] EXCEPT
                !.state = IF reset(k) = "queued" /\ (max_inflight = 0 \/ k <= max_inflight)
                          THEN publish_state(msgs[k].qos) ELSE reset(k)]]]

-----------------------------------------------------------------------------
(* Sending and retrying.                                                   *)

retry_state(state) ==
    CASE state = "wait_for_puback" -> "publish_qos1"
      [] state = "wait_for_pubrec" -> "publish_qos2"
      [] state = "wait_for_pubrel" -> "send_pubrec"
      [] state = "wait_for_pubcomp" -> "resend_pubrel"
      [] OTHER -> "invalid"

\* One message of one context; new_state is a variable of the whole walk and is
\* never reset, so a message in another state gets that of the one before.
timeout_message(walk, m) ==
    LET due == m.old /\ m.state # "queued"
        new_state == IF due /\ retry_state(m.state) # "invalid"
                     THEN retry_state(m.state) ELSE walk.new_state
    IN [new_state |-> new_state,
        msgs |-> Append(walk.msgs, IF due /\ new_state # "invalid"
                                   THEN [with_state(m, new_state) EXCEPT !.dup = TRUE]
                                   ELSE m)]

\* The walk visits the contexts that are absent, too.
mqtt3_db_message_timeout_check(db) ==
    LET context(walk, i) ==
          IF db.contexts[i] = NULL THEN walk
          ELSE LET w == FoldLeft(timeout_message,
                                 [new_state |-> walk.new_state, msgs |-> <<>>],
                                 db.contexts[i].msgs)
               IN [new_state |-> w.new_state,
                   db |-> [walk.db EXCEPT !.contexts[i].msgs = w.msgs]]
    IN FoldLeft(context, [new_state |-> "invalid", db |-> db],
                [i \in DOMAIN db.contexts |-> i]).db

\* What the main loop sends for one message, and the state it leaves.
write_message(db, i, m) ==
    CASE m.state \in {"publish_qos0", "publish_qos1", "publish_qos2"} ->
           _mosquitto_send_publish(db, i, m)
      [] m.state = "send_pubrec" -> _mosquitto_send_command_with_mid(db, i, "PUBREC", m.mid)
      [] m.state = "resend_pubrel" -> _mosquitto_send_command_with_mid(db, i, "PUBREL", m.mid)
      [] m.state = "resend_pubcomp" -> _mosquitto_send_command_with_mid(db, i, "PUBCOMP", m.mid)
      [] OTHER -> db

written(m) ==
    CASE m.state = "publish_qos1" -> [with_state(m, "wait_for_puback") EXCEPT !.dup = TRUE]
      [] m.state = "publish_qos2" -> [with_state(m, "wait_for_pubrec") EXCEPT !.dup = TRUE]
      [] m.state \in {"send_pubrec", "resend_pubcomp"} ->
           [m EXCEPT !.state = "wait_for_pubrel"]
      [] m.state = "resend_pubrel" -> [m EXCEPT !.state = "wait_for_pubcomp"]
      [] OTHER -> m

\* A queued incoming message is answered now if few enough are before it; the
\* walk then visits it again, and counts it a second time.
admit(walk, m) ==
    LET count == walk.count + (IF m.direction = "in" THEN 1 ELSE 0)
        now == /\ m.state = "queued" /\ m.direction = "in" /\ m.qos = 2
               /\ max_inflight = 0 \/ count < max_inflight
    IN [count |-> IF now THEN count + 1 ELSE count,
        msgs |-> Append(walk.msgs, IF now THEN [m EXCEPT !.state = "send_pubrec"] ELSE m)]

sends(m) == m.state \in {"publish_qos0", "publish_qos1", "publish_qos2", "send_pubrec",
                         "resend_pubrel", "resend_pubcomp"}

\* A QoS 0 message is removed when it has been sent.  The first write that fails
\* ends the walk, and the caller drops the connection (rc 1).
mqtt3_db_message_write(db, i) ==
    LET old == db.contexts[i].msgs
        msgs == FoldLeft(admit, [count |-> 0, msgs |-> <<>>], old).msgs
        due == {k \in DOMAIN msgs : sends(msgs[k])}
        step(d, m) == write_message(d, i, m)
        sent == [FoldLeft(step, db, msgs) EXCEPT
                   !.contexts[i].msgs = [k \in DOMAIN msgs |-> written(msgs[k])]]
        qos0 == {k \in DOMAIN msgs : msgs[k].state = "publish_qos0"}
    IN IF due # {} /\ write_fails(db, i)
       THEN [db |-> [db EXCEPT !.contexts[i].msgs =
                       [k \in DOMAIN old |-> IF k <= first(due) THEN msgs[k] ELSE old[k]]],
             rc |-> 1]
       ELSE [db |-> _messages_remove(sent, i, qos0), rc |-> 0]
=============================================================================
