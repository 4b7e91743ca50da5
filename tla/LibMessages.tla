---------------------------- MODULE LibMessages -----------------------------
(***************************************************************************)
(* The messages of a libmosquitto client (messages_mosq.c, mosquitto.c)    *)
(* and what it does with the packets of a broker (read_handle.c,           *)
(* read_handle_client.c, read_handle_shared.c).                            *)
(*                                                                         *)
(* A client is a record:                                                   *)
(*   id, clean_session              what it was made with                  *)
(*   sock                           its connection, or NULL                *)
(*   out_messages, in_messages      messages whose handshake goes on       *)
(*   inflight_messages, last_mid    the counters                           *)
(*   sent                           the packets this step sends            *)
(*   connected, heard, published    the callbacks this step makes:         *)
(*                                  on_connect, on_message, on_publish     *)
(* Operations take the client and return the changed one.                  *)
(***************************************************************************)
EXTENDS Topics

CONSTANTS
    max_inflight_messages,  \* of the client library, 0: no limit
    max_mid                 \* the greatest message identifier, 65535

ASSUME LibMessagesAssumption == max_inflight_messages \in Nat /\ max_mid \in Nat \ {0}

mosquitto_reinitialise(id, clean_session) ==
    [id |-> id, clean_session |-> clean_session, sock |-> NULL,
     out_messages |-> <<>>, in_messages |-> <<>>, inflight_messages |-> 0, last_mid |-> 0,
     sent |-> <<>>, connected |-> FALSE, heard |-> <<>>, published |-> <<>>]

\* The next step sends and calls anew.
settled(c) ==
    [c EXCEPT !.sent = <<>>, !.connected = FALSE, !.heard = <<>>, !.published = <<>>]

\* Without a socket nothing is sent.
lib_send(c, packet) ==
    IF c.sock = NULL THEN c ELSE [c EXCEPT !.sent = Append(@, packet)]

lib_send_publish(c, m) ==
    lib_send(c, [type |-> "PUBLISH", mid |-> m.mid, topic |-> m.topic, payload |-> m.payload,
                 qos |-> m.qos, retain |-> m.retain, dup |-> m.dup])

lib_send_command_with_mid(c, type, mid) == lib_send(c, [type |-> type, mid |-> mid])

may_fly(c) == max_inflight_messages = 0 \/ c.inflight_messages < max_inflight_messages

\* The identifiers start again from 1.
mid_generate(c) == IF c.last_mid = max_mid THEN 1 ELSE c.last_mid + 1

wait_state(qos) == IF qos = 1 THEN "wait_for_puback" ELSE "wait_for_pubrec"

\* A message that may not fly yet waits as "invalid".
mosquitto_publish(c, topic, payload, qos, retain) ==
    LET mid == mid_generate(c)
        m == [mid |-> mid, topic |-> topic, payload |-> payload, qos |-> qos, retain |-> retain,
              state |-> IF may_fly(c) THEN wait_state(qos) ELSE "invalid",
              dup |-> FALSE, old |-> FALSE]
        d == [c EXCEPT !.last_mid = mid]
        queued == [d EXCEPT !.out_messages = Append(@, m),
                            !.inflight_messages = IF may_fly(c) THEN @ + 1 ELSE @]
    IN IF qos = 0 THEN [lib_send_publish(d, m) EXCEPT !.published = Append(@, payload)]
       ELSE IF may_fly(c) THEN lib_send_publish(queued, m) ELSE queued

mosquitto_subscribe(c, sub, qos) ==
    lib_send([c EXCEPT !.last_mid = mid_generate(c)],
             [type |-> "SUBSCRIBE", mid |-> mid_generate(c), subs |-> <<[sub |-> sub, qos |-> qos]>>])

\* The places of a message identifier in a list.
places(messages, mid) == {k \in DOMAIN messages : messages[k].mid = mid}

leftmost(ks) == CHOOSE k \in ks : \A l \in ks : k <= l

\* An outgoing message is done with; those that wait follow, as far as they may.
message_remove_out(c, k) ==
    LET removed == [c EXCEPT !.out_messages = RemoveAt(@, k),
                             !.inflight_messages =
                                IF c.out_messages[k].qos > 0 THEN @ - 1 ELSE @]
        start(d, l) ==
          LET m == d.out_messages[l]
              flying == [m EXCEPT !.state = wait_state(m.qos)]
          IN IF ~may_fly(d) \/ m.state # "invalid" THEN d
             ELSE lib_send_publish([d EXCEPT !.out_messages[l] = flying,
                                             !.inflight_messages = @ + 1], flying)
    IN FoldLeft(start, removed, [l \in DOMAIN removed.out_messages |-> l])

message_remove_in(c, k) ==
    [c EXCEPT !.in_messages = RemoveAt(@, k), !.inflight_messages = @ - 1]

\* An incoming message, of QoS 2, is put behind the others; nothing looks whether
\* it is there already.
_mosquitto_message_queue(c, m) ==
    [c EXCEPT !.in_messages = Append(@, m),
              !.inflight_messages = IF may_fly(c) THEN @ + 1 ELSE @]

\* The counter goes up before it is compared, and it counts those that may not fly.
_mosquitto_messages_reconnect_reset(c) ==
    LET out == c.out_messages
        flies(k) == max_inflight_messages = 0 \/ k < max_inflight_messages
        state(k) == IF ~flies(k) THEN "invalid"
                    ELSE IF out[k].qos = 1 THEN "wait_for_puback" ELSE out[k].state
    IN [c EXCEPT
          !.in_messages = [k \in DOMAIN @ |-> [@[k] EXCEPT !.old = TRUE]],
          !.out_messages = [k \in DOMAIN out |-> [out[k] EXCEPT !.old = TRUE, !.state = state(k)]],
          !.inflight_messages = Len(out)]

\* A message whose answer is late is sent once more.
retry_message(c, m) ==
    CASE m.state \in {"wait_for_puback", "wait_for_pubrec"} ->
           lib_send_publish(c, [m EXCEPT !.dup = TRUE])
      [] m.state = "wait_for_pubrel" -> lib_send_command_with_mid(c, "PUBREC", m.mid)
      [] m.state = "wait_for_pubcomp" -> lib_send_command_with_mid(c, "PUBREL", m.mid)

due(m) == m.old /\ m.state # "invalid"

retried(messages) ==
    [k \in DOMAIN messages |->
       IF due(messages[k]) THEN [messages[k] EXCEPT !.old = FALSE, !.dup = TRUE] ELSE messages[k]]

_mosquitto_message_retry_check(c) ==
    LET sent == FoldLeft(retry_message, c, SelectSeq(c.out_messages \o c.in_messages, due))
    IN [sent EXCEPT !.out_messages = retried(@), !.in_messages = retried(@)]

-----------------------------------------------------------------------------
(* Packets from the broker.                                                *)

_mosquitto_handle_publish(c, p) ==
    LET heard == [c EXCEPT !.heard = Append(@, p.payload)]
        m == [mid |-> p.mid, topic |-> p.topic, payload |-> p.payload, qos |-> 2,
              retain |-> p.retain, state |-> "wait_for_pubrel", dup |-> p.dup, old |-> FALSE]
    IN CASE p.qos = 0 -> heard
         [] p.qos = 1 -> lib_send_command_with_mid(heard, "PUBACK", p.mid)
         [] p.qos = 2 -> _mosquitto_message_queue(lib_send_command_with_mid(c, "PUBREC", p.mid), m)

\* Only the first of several answers is reported.
handle_pubackcomp(c, mid) ==
    LET ks == places(c.out_messages, mid)
        k == leftmost(ks)
    IN IF ks = {} THEN c
       ELSE [message_remove_out(c, k) EXCEPT
               !.published = Append(@, c.out_messages[k].payload)]

\* The next state of the k-th message; its time starts again.
_mosquitto_message_out_update(c, k, state) ==
    [c EXCEPT !.out_messages[k].state = state, !.out_messages[k].old = FALSE]

\* A PUBREC for a message that is not there is an error: the connection ends.
handle_pubrec(c, mid) ==
    LET ks == places(c.out_messages, mid)
    IN IF ks = {} THEN [c EXCEPT !.sock = NULL]
       ELSE lib_send_command_with_mid(
              _mosquitto_message_out_update(c, leftmost(ks), "wait_for_pubcomp"), "PUBREL", mid)

\* The message goes to the application when it is taken from the list.
handle_pubrel(c, mid) ==
    LET ks == places(c.in_messages, mid)
        k == leftmost(ks)
        d == IF ks = {} THEN c
             ELSE [message_remove_in(c, k) EXCEPT !.heard = Append(@, c.in_messages[k].payload)]
    IN lib_send_command_with_mid(d, "PUBCOMP", mid)

\* A refused connection is closed.
handle_connack(c, code) ==
    IF code = 0 THEN [c EXCEPT !.connected = TRUE] ELSE [c EXCEPT !.sock = NULL]

_mosquitto_packet_handle(c, p) ==
    CASE p.type = "CONNACK" -> handle_connack(c, p.code)
      [] p.type \in {"PUBACK", "PUBCOMP"} -> handle_pubackcomp(c, p.mid)
      [] p.type = "PUBLISH" -> _mosquitto_handle_publish(c, p)
      [] p.type = "PUBREC" -> handle_pubrec(c, p.mid)
      [] p.type = "PUBREL" -> handle_pubrel(c, p.mid)
      [] p.type \in {"SUBACK", "UNSUBACK"} -> c
      [] OTHER -> [c EXCEPT !.sock = NULL]

\* A new connection: what has not been sent is forgotten, the handshakes go on.
mosquitto_reconnect(c, conn) ==
    lib_send([_mosquitto_messages_reconnect_reset(c) EXCEPT !.sock = conn],
             [type |-> "CONNECT", id |-> c.id, clean_session |-> c.clean_session])
=============================================================================
