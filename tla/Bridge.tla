------------------------------- MODULE Bridge -------------------------------
(***************************************************************************)
(* A bridge of the broker: the connection that the broker itself opens to  *)
(* another broker, kept up by the main loop (loop.c, bridge.c,             *)
(* read_handle_client.c), and the renaming of the topics on the way out    *)
(* and in (send_mosq.c, read_handle.c).                                    *)
(*                                                                         *)
(* Time is what the code asks of it: whether a moment it noted has passed. *)
(* bridge holds the context and its struct _mqtt3_bridge, with             *)
(*   restart_t, primary_retry   "0", or a moment that has "passed" or not  *)
(*   silence, idle   nothing came in for the keepalive time, nothing went  *)
(*                   out for the idle timeout                              *)
(*   will            the notification "0" is the will                      *)
(*   retained        the retained notification of the local broker         *)
(*   msgs            the messages of QoS 0 that wait for the bridge        *)
(*   wire, replies   the packets on their way                              *)
(* and the world outside: the addresses that are down, whether the open    *)
(* connection is dead without a sign, and the remote subscriptions.        *)
(***************************************************************************)
EXTENDS Topics, SequencesExt

CONSTANTS
    Bridges,     \* the configured bridges, as BrokerConfig reads them, with the
                 \* remote broker: whether it takes the private bit, and the
                 \* subscriptions that it remembers from earlier
    Names,       \* topics of messages that pass over the bridge
    MaxFaults    \* bound on outages, lost connections, refusals and reloads

\* The topics of a bridge are a list.
ASSUME BridgesAssumption ==
    \A c \in Bridges : Len(c.topics) \in Nat /\ DOMAIN c.topics = 1..Len(c.topics)

VARIABLE bridge

BridgeInit ==
    bridge = [stage |-> "off", conf |-> NULL, state |-> "new", sock |-> FALSE, cur_address |-> 0,
              primary_retry |-> "0", restart_t |-> "0", lazy_reconnect |-> FALSE,
              try_private_accepted |-> FALSE, will |-> FALSE, ping_t |-> FALSE, silence |-> FALSE,
              idle |-> FALSE, msgs |-> 0, local_subs |-> {}, retained |-> NULL, wire |-> <<>>,
              replies |-> <<>>, down |-> {}, dead |-> FALSE, remote_subs |-> {}, faults |-> 0]

addresses_of(b) == 0..(b.conf.address_count - 1)

goes_out(t) == t.direction \in {"out", "both"}
comes_in(t) == t.direction \in {"in", "both"}

-----------------------------------------------------------------------------
(* Connecting.                                                             *)

\* The state a connection starts from, the notification that there is none, the
\* connection itself and CONNECT.  What was queued of packets is gone, and with a
\* clean session what was queued of messages too.
mqtt3_bridge_connect(b) ==
    LET fresh == [b EXCEPT !.state = "new", !.sock = FALSE, !.ping_t = FALSE, !.silence = FALSE,
                           !.idle = FALSE, !.lazy_reconnect = FALSE, !.wire = <<>>, !.replies = <<>>,
                           !.dead = FALSE,
                           !.msgs = IF b.conf.clean_session THEN 0 ELSE @,
                           !.local_subs = {t.local_topic : t \in {u \in ToSet(b.conf.topics) : goes_out(u)}},
                           !.retained = IF b.conf.notifications THEN "0" ELSE @,
                           !.will = @ \/ b.conf.notifications]
    IN IF b.cur_address \in b.down THEN [rc |-> 1, b |-> fresh]
       ELSE [rc |-> 0,
             b |-> [fresh EXCEPT !.sock = TRUE,
                                 !.wire = <<[type |-> "CONNECT",
                                             private |-> b.conf.try_private /\ b.try_private_accepted]>>]]

\* At the start of the broker the bridge takes over the context that was restored
\* with its name, and the messages in it; it connects whatever its start type.
mqtt3_bridge_new(c) ==
    /\ bridge.stage = "off"
    /\ bridge' = mqtt3_bridge_connect([bridge EXCEPT !.stage = "run", !.conf = c, !.msgs = c.restored,
                                                     !.try_private_accepted = TRUE,
                                                     !.remote_subs = c.remote.subs]).b

\* The socket is gone; the will tells it, unless the connection was to end.
mqtt3_context_disconnect(b) ==
    [b EXCEPT !.sock = FALSE, !.will = FALSE,
              !.retained = IF b.state # "disconnecting" /\ b.will THEN "0" ELSE @]

\* Mutant of mqtt3_handle_connack: nothing is unsubscribed.
mqtt3_handle_connack_no_unsubscribe(b, rc) ==
    [b EXCEPT !.state = "connected", !.retained = IF b.conf.notifications THEN "1" ELSE @,
              !.wire = @ \o [k \in DOMAIN b.conf.topics |-> [type |-> "SUBSCRIBE", topic |-> b.conf.topics[k].remote_topic]]]

\* The notification goes to both brokers; the topics that come in are subscribed
\* to, and the others unsubscribed.
mqtt3_handle_connack(b, rc) ==
    LET request(t) == [type |-> IF comes_in(t) THEN "SUBSCRIBE" ELSE "UNSUBSCRIBE", topic |-> t.remote_topic]
        notification == IF b.conf.notifications THEN <<[type |-> "PUBLISH"]>> ELSE <<>>
    IN CASE rc = "accepted" ->
              [b EXCEPT !.state = "connected",
                        !.retained = IF b.conf.notifications THEN "1" ELSE @,
                        !.wire = @ \o notification \o [k \in DOMAIN b.conf.topics |-> request(b.conf.topics[k])]]
         [] rc = "version" -> mqtt3_context_disconnect([b EXCEPT !.try_private_accepted = FALSE])
         [] OTHER -> mqtt3_context_disconnect(b)

\* A packet of the remote broker.
Read ==
    /\ bridge.stage = "run" /\ bridge.sock /\ bridge.replies # <<>>
    /\ LET b == [bridge EXCEPT !.replies = Tail(@)]
       IN bridge' = IF Head(bridge.replies) = "PINGRESP" THEN [b EXCEPT !.ping_t = FALSE]
                    ELSE mqtt3_handle_connack(b, Head(bridge.replies))

-----------------------------------------------------------------------------
(* A pass of the main loop.                                                *)

next_address(b) == (b.cur_address + 1) % b.conf.address_count

\* A lazy bridge is closed when it is idle, any bridge when it was silent and does
\* not answer, or has not been accepted yet.
_mosquitto_check_keepalive(b) ==
    IF b.conf.start_type = "lazy" /\ b.idle THEN [b EXCEPT !.sock = FALSE]
    ELSE IF ~b.silence THEN b
    ELSE IF b.state = "connected" /\ ~b.ping_t
    THEN [b EXCEPT !.silence = FALSE, !.idle = FALSE, !.ping_t = TRUE, !.wire = Append(@, [type |-> "PINGREQ"])]
    ELSE [b EXCEPT !.sock = FALSE]

\* On another address than the first, the first is tried from time to time, and
\* when it answers the connection is closed: the next address is the first again.
primary_check(b) ==
    IF /\ ~b.conf.round_robin /\ b.cur_address # 0 /\ b.primary_retry # "wait"
       /\ 0 \notin b.down
    THEN [b EXCEPT !.sock = FALSE, !.cur_address = b.conf.address_count - 1]
    ELSE b

\* mqtt3_db_message_write fails if the socket has been closed; otherwise the
\* messages of QoS 0 are on their way, which is not followed any further.
with_socket(b) ==
    LET c == primary_check(_mosquitto_check_keepalive(b))
    IN IF ~c.sock THEN mqtt3_context_disconnect(c)
       ELSE [c EXCEPT !.msgs = 0, !.idle = @ /\ c.msgs = 0]

\* The first pass after a loss notes when to restart and turns to the next address.
note_restart(b) ==
    [b EXCEPT !.restart_t = "wait", !.cur_address = next_address(b),
              !.primary_retry = IF ~b.conf.round_robin /\ next_address(b) # 0 THEN "wait" ELSE @]

\* Mutant of automatic_restart: it forgets to go on to the next address.
automatic_restart_same_address(b) ==
    LET try == mqtt3_bridge_connect([b EXCEPT !.restart_t = "0"])
    IN [polled |-> TRUE, b |-> IF try.rc = 0 THEN try.b ELSE [try.b EXCEPT !.restart_t = "wait"]]

automatic_restart(b) ==
    LET try == mqtt3_bridge_connect([b EXCEPT !.restart_t = "0"])
    IN [polled |-> TRUE,
        b |-> IF try.rc = 0 THEN try.b
              ELSE [try.b EXCEPT !.restart_t = "wait", !.cur_address = next_address(b)]]

\* A lazy bridge is not entered into the set that poll looks at.
lazy_restart(b) ==
    LET try == mqtt3_bridge_connect(b)
    IN [polled |-> FALSE,
        b |-> IF try.rc = 0 THEN try.b ELSE [try.b EXCEPT !.cur_address = next_address(b)]]

without_socket(b) ==
    IF b.restart_t = "0" THEN [polled |-> TRUE, b |-> note_restart(b)]
    ELSE CASE b.conf.start_type = "lazy" /\ b.lazy_reconnect -> lazy_restart(b)
           [] b.conf.start_type = "automatic" /\ b.restart_t = "passed" -> automatic_restart(b)
           [] OTHER -> [polled |-> TRUE, b |-> b]

\* After poll an open socket is taken to be in the set, which an assertion checks,
\* unless poll was interrupted.
mosquitto_main_loop(interrupted) ==
    LET pass == IF bridge.sock THEN [polled |-> TRUE, b |-> with_socket(bridge)] ELSE without_socket(bridge)
    IN /\ bridge.stage = "run"
       /\ bridge' = IF pass.b.sock /\ ~pass.polled /\ ~interrupted
                    THEN [pass.b EXCEPT !.stage = "aborted"]
                    ELSE pass.b

-----------------------------------------------------------------------------
(* The other clients and the operator of the local broker.                 *)

\* A message for the bridge is queued if there is a connection or the bridge is
\* lazy, and enough of them wake a lazy bridge.
mqtt3_db_message_insert ==
    /\ bridge.stage = "run" /\ bridge.msgs < bridge.conf.threshold
    /\ bridge.sock \/ bridge.conf.start_type = "lazy"
    /\ LET n == bridge.msgs + 1
       IN bridge' = [bridge EXCEPT !.msgs = n,
                                   !.lazy_reconnect = @ \/ (bridge.conf.start_type = "lazy" /\ ~bridge.sock
                                                            /\ n >= bridge.conf.threshold)]

\* A reload that does not allow the name of the bridge, which is a name on the
\* other broker, any more.
mosquitto_security_apply ==
    /\ bridge.stage = "run" /\ bridge.faults < MaxFaults
    /\ bridge' = [bridge EXCEPT !.state = "disconnecting", !.sock = FALSE, !.faults = @ + 1]

-----------------------------------------------------------------------------
(* The world outside.                                                      *)

\* A moment passes.  A remote broker that can answers within the keepalive time.
Time(what) ==
    /\ bridge.stage = "run"
    /\ CASE what \in {"restart_t", "primary_retry"} -> bridge[what] = "wait"
         [] what = "silence" -> bridge.sock /\ ~bridge.silence
                                /\ (bridge.dead \/ (bridge.state = "connected" /\ ~bridge.ping_t))
         [] what = "idle" -> bridge.sock /\ ~bridge.idle /\ bridge.conf.start_type = "lazy"
    /\ bridge' = [bridge EXCEPT ![what] = IF what \in {"silence", "idle"} THEN TRUE ELSE "passed"]

\* The remote broker takes the next packet.
RemoteReads ==
    /\ bridge.stage = "run" /\ bridge.sock /\ ~bridge.dead /\ bridge.wire # <<>>
    /\ LET p == Head(bridge.wire)
           b == [bridge EXCEPT !.wire = Tail(@)]
           reply(r) == [b EXCEPT !.replies = Append(@, r)]
       IN CASE p.type = "CONNECT" ->
                 \/ /\ p.private => b.conf.remote.private
                    /\ bridge' = [reply("accepted") EXCEPT !.remote_subs = IF b.conf.clean_session THEN {} ELSE @]
                 \/ /\ p.private /\ ~b.conf.remote.private
                    /\ bridge' = reply("version")
                 \/ /\ b.faults < MaxFaults
                    /\ bridge' = [reply("unavailable") EXCEPT !.faults = @ + 1]
            [] p.type = "SUBSCRIBE" -> bridge' = [b EXCEPT !.remote_subs = @ \cup {p.topic}]
            [] p.type = "UNSUBSCRIBE" -> bridge' = [b EXCEPT !.remote_subs = @ \ {p.topic}]
            [] p.type = "PINGREQ" -> bridge' = reply("PINGRESP")
            [] p.type = "PUBLISH" -> bridge' = b

\* An address goes down, and a connection to it dies without a sign; it comes
\* back; a connection breaks, which the next read or write shows.
Outage(a) ==
    /\ bridge.stage = "run" /\ bridge.faults < MaxFaults /\ a \notin bridge.down
    /\ bridge' = [bridge EXCEPT !.down = @ \cup {a}, !.faults = @ + 1,
                                !.dead = @ \/ (bridge.sock /\ bridge.cur_address = a)]

Recovery(a) ==
    /\ bridge.stage = "run" /\ a \in bridge.down
    /\ bridge' = [bridge EXCEPT !.down = @ \ {a}]

Break ==
    /\ bridge.stage = "run" /\ bridge.sock /\ bridge.faults < MaxFaults
    /\ bridge' = mqtt3_context_disconnect([bridge EXCEPT !.faults = @ + 1])

BridgeNext ==
    \/ \E c \in Bridges : mqtt3_bridge_new(c)
    \/ \E interrupted \in BOOLEAN : mosquitto_main_loop(interrupted)
    \/ Read
    \/ mqtt3_db_message_insert
    \/ mosquitto_security_apply
    \/ \E what \in {"restart_t", "primary_retry", "silence", "idle"} : Time(what)
    \/ RemoteReads
    \/ bridge.stage = "run" /\ \E a \in addresses_of(bridge) : Outage(a)
    \/ bridge.stage = "run" /\ \E a \in addresses_of(bridge) : Recovery(a)
    \/ Break

BridgeSpec == BridgeInit /\ [][BridgeNext]_bridge

\* The broker loops, time passes and the remote broker works.
BridgeFairness ==
    /\ WF_bridge(\E interrupted \in BOOLEAN : mosquitto_main_loop(interrupted))
    /\ WF_bridge(Read)
    /\ WF_bridge(RemoteReads)
    /\ \A what \in {"restart_t", "primary_retry", "silence"} : WF_bridge(Time(what))

-----------------------------------------------------------------------------
(* The names of topics.                                                    *)

without(prefix, name) == IF prefix # NULL /\ IsPrefix(prefix, name) THEN SubSeq(name, Len(prefix) + 1, Len(name)) ELSE name
with(prefix, name) == IF prefix # NULL THEN prefix \o name ELSE name

\* The first topic of the bridge that has a prefix and matches decides.
first_mapping(c, wanted) ==
    LET fits == {k \in wanted : c.topics[k].remote_prefix # NULL \/ c.topics[k].local_prefix # NULL}
    IN IF ~c.topic_remapping \/ fits = {} THEN NULL ELSE c.topics[Min(fits)]

\* The name that a message has on the other broker.
_mosquitto_send_publish(c, name) ==
    LET t == first_mapping(c, {k \in DOMAIN c.topics : /\ goes_out(c.topics[k])
                                                       /\ mosquitto_topic_matches_sub(c.topics[k].local_topic, name)})
    IN IF t = NULL THEN name ELSE with(t.remote_prefix, without(t.local_prefix, name))

\* The name that a message of the other broker gets.
mqtt3_handle_publish_topic(c, name) ==
    LET t == first_mapping(c, {k \in DOMAIN c.topics : /\ comes_in(c.topics[k])
                                                       /\ mosquitto_topic_matches_sub(c.topics[k].remote_topic, name)})
    IN IF t = NULL THEN name ELSE with(t.local_prefix, without(t.remote_prefix, name))

-----------------------------------------------------------------------------
(* Properties.                                                             *)

up == bridge.sock /\ bridge.state = "connected"

\* The retained notification of the local broker (bridge.c, read_handle_client.c)
\* says "1" exactly while the bridge is connected, however the connection ends.
\* Only after a reload that closes it, which leaves the will unsent, does it lag
\* behind, until the next attempt to connect.
NotificationTells ==
    bridge.stage = "run" /\ bridge.conf.notifications /\ bridge.state # "disconnecting" =>
      (bridge.retained = "1" <=> up)

\* Once the remote broker has read what a connected bridge sends (mqtt3_handle_connack),
\* it knows the subscriptions of the configuration, whatever it remembered of an
\* earlier one.  Of two lines for the same topic the last one decides.
RemoteSubscriptions ==
    bridge.stage = "run" /\ up /\ ~bridge.dead /\ bridge.wire = <<>> =>
      LET topics == bridge.conf.topics
      IN \A k \in DOMAIN topics :
           (\A l \in DOMAIN topics : l > k => topics[l].remote_topic # topics[k].remote_topic) =>
             (topics[k].remote_topic \in bridge.remote_subs <=> comes_in(topics[k]))

\* The assertion of loop_handle_reads_writes (loop.c), that an open socket is in
\* the set given to poll, holds of bridges that are not lazy.
PollfdsAgree == bridge.stage = "aborted" => bridge.conf.start_type = "lazy"

\* A bridge that starts automatically is connected in the end, when outages end
\* and an address is left, and whichever protocol bit the remote broker refuses.
\* Without round_robin it is connected to its first address, when that one can be
\* reached (loop.c, primary_retry).
ConnectedInTheEnd ==
    /\ <>[](bridge.stage = "run" /\ bridge.conf.start_type = "automatic" =>
              (up /\ ~bridge.dead) \/ bridge.down = addresses_of(bridge))
    /\ <>[](bridge.stage = "run" /\ bridge.conf.start_type = "automatic" /\ ~bridge.conf.round_robin
              /\ 0 \notin bridge.down => up /\ bridge.cur_address = 0)

\* A message that went out under the local prefix of a topic and is sent back has
\* its name again: the renamings of send_mosq.c and read_handle.c are inverse,
\* except on a name that is the prefix and no more.
NamesComeBack ==
    bridge.stage # "off" =>
      \A name \in Names, t \in ToSet(bridge.conf.topics) :
        /\ t.direction = "both" /\ t.local_prefix # NULL
        /\ IsStrictPrefix(t.local_prefix, name)
        /\ mosquitto_topic_matches_sub(t.local_topic, name)
        => mqtt3_handle_publish_topic(bridge.conf, _mosquitto_send_publish(bridge.conf, name)) = name

\* Both brokers know about the bridge what is the case, in every state.
BridgeIsSound == NotificationTells /\ RemoteSubscriptions /\ PollfdsAgree
=============================================================================
