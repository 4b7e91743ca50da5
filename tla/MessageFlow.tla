---------------------------- MODULE MessageFlow -----------------------------
(***************************************************************************)
(* A publisher and a subscriber, both libmosquitto clients with sessions   *)
(* that are kept, and the mosquitto broker between them.  Connections      *)
(* break; the clients reconnect while the broker may still hold the old    *)
(* connection, and go on with the handshakes they were in.                 *)
(*                                                                         *)
(* A connection is a pair of queues: up[conn] to the broker, db.out[conn]  *)
(* to the client.  The clients send through their loop thread; what is     *)
(* queued there when a connection breaks is lost like what is on the way.  *)
(***************************************************************************)
EXTENDS Broker, LibMessages

CONSTANTS
    Slots,      \* places for contexts, 1 to their number
    Conns,      \* connections, 1 to their number
    Qos,        \* the messages and their QoS, 1 or 2
    config,     \* of the broker
    Loads       \* what may happen: a set of records
                \*   messages   the messages to be published, in this order
                \*   breaks     bound on connections that break
                \*   late       bound on answers later than the retry interval

ASSUME MessageFlowAssumption ==
    /\ Slots = 1..Cardinality(Slots) /\ Conns = 1..Cardinality(Conns)
    /\ \A l \in Loads : l.breaks + 2 <= Cardinality(Conns)
    /\ Cardinality(Conns) <= Cardinality(Slots)

VARIABLES
    load,     \* what happens in this behaviour
    db,       \* the broker
    lib,      \* the two clients
    up,       \* the packets on their way to the broker, per connection
    opening,  \* connections the broker has not accepted yet
    ready,    \* the subscription has been made
    breaks,   \* connections that have broken
    phase,    \* where the main loop of the broker is
    late,     \* how often answers were late
    asked, passed, reported,   \* history: see QosDelivery
    heard     \* history: how often the subscriber's application got a message

vars == <<load, db, lib, up, opening, ready, breaks, late, phase,
          asked, passed, reported, heard>>

history == <<asked, passed, reported, heard>>

Clients == {"pub", "sub"}

id_of(c) == IF c = "pub" THEN <<"y">> ELSE <<"x">>

topic == <<"a">>

Payloads == DOMAIN Qos

Init ==
    /\ load \in Loads
    /\ db = mqtt3_db_open(Slots, Conns, config)
    /\ lib = [c \in Clients |-> mosquitto_reinitialise(id_of(c), FALSE)]
    /\ up = [conn \in Conns |-> <<>>]
    /\ opening = <<>> /\ ready = FALSE /\ breaks = 0 /\ late = 0
    /\ phase = "poll"
    /\ asked = {} /\ passed = [m \in Payloads |-> 0] /\ reported = {}
    /\ heard = [m \in Payloads |-> 0]

\* What client c sends goes on its way; what it calls back is noted.
apply(c, new) ==
    /\ lib' = [lib EXCEPT ![c] = settled(new)]
    /\ up' = IF new.sent = <<>> THEN up ELSE [up EXCEPT ![new.sock] = @ \o new.sent]
    /\ reported' = reported \cup Range(new.published)
    /\ heard' = [m \in Payloads |-> lower(2, heard[m] + Len(SelectSeq(new.heard, LAMBDA h : h = m)))]

\* A connection that its client has given up.
closed(d, conn) == [d EXCEPT !.broken = @ \cup {conn}, !.out[conn] = <<>>]

\* The connections that the broker has open, or will accept.
held == {db.contexts[i].sock : i \in {j \in Slots : db.contexts[j] # NULL}} \cup Range(opening)

\* What neither side has open any more is used for the next connection.
next_conn == first(Conns \ (held \cup {lib[c].sock : c \in Clients}))

-----------------------------------------------------------------------------
(* The clients.                                                            *)

\* The application publishes its next message, once somebody listens.
Publish ==
    /\ ready /\ Cardinality(asked) < Len(load.messages)
    /\ LET m == load.messages[Cardinality(asked) + 1]
       IN /\ apply("pub", mosquitto_publish(lib["pub"], topic, m, Qos[m], FALSE))
          /\ asked' = asked \cup {m}
    /\ UNCHANGED <<load, db, opening, ready, phase, breaks, late, passed>>

\* The packet of a client as the broker reads it.
Wire(p) ==
    IF p.type # "CONNECT" THEN p
    ELSE [valid |-> TRUE, auto_id |-> NULL, protocol |-> "mqtt31", will |-> NULL,
          username |-> NULL, password |-> NULL, identity |-> NULL, bridge |-> FALSE,
          type |-> "CONNECT", id |-> p.id, clean_session |-> p.clean_session]

\* The loop thread connects, for the first time or again; the publisher is started
\* when the subscriber is there.
Reconnect(c) ==
    /\ lib[c].sock = NULL /\ (c = "pub" => ready)
    /\ \E conn \in {next_conn}, new \in {mosquitto_reconnect(lib[c], next_conn)} :
         /\ lib' = [lib EXCEPT ![c] = settled(new)]
         /\ up' = [up EXCEPT ![conn] = new.sent]
         /\ db' = [db EXCEPT !.out[conn] = <<>>, !.broken = @ \ {conn}]
         /\ opening' = Append(opening, conn)
    /\ UNCHANGED <<load, reported, heard, ready, phase, breaks, late, asked, passed>>

\* The loop thread reads a packet.  The subscriber subscribes when it is connected.
ClientRead(c) ==
    LET conn == lib[c].sock
        on_connect(m) == IF m.connected /\ c = "sub" THEN mosquitto_subscribe(m, topic, 2) ELSE m
        rest == [db EXCEPT !.out[conn] = Tail(@)]
    IN /\ conn # NULL /\ db.out[conn] # <<>>
       /\ \E new \in {on_connect(_mosquitto_packet_handle(lib[c], Head(db.out[conn])))} :
            /\ db' = IF new.sock = NULL THEN closed(rest, conn) ELSE rest
            /\ apply(c, new)
       /\ ready' = (ready \/ Head(db.out[conn]).type = "SUBACK")
       /\ UNCHANGED <<load, phase, opening, breaks, late, asked, passed>>

\* The loop thread looks for messages whose answer is late; after a reconnect all
\* of them are.
Retry(c) ==
    /\ lib[c].sock # NULL
    /\ \E m \in Range(lib[c].out_messages) \cup Range(lib[c].in_messages) : due(m)
    /\ apply(c, _mosquitto_message_retry_check(lib[c]))
    /\ UNCHANGED <<load, db, opening, ready, phase, breaks, late, asked, passed>>

\* The loop thread finds that the broker has closed the connection.  What the
\* broker has sent before may be lost, too.
ConnLost(c) ==
    LET conn == lib[c].sock
    IN /\ conn # NULL /\ conn \notin held
       /\ lib' = [lib EXCEPT ![c].sock = NULL]
       /\ up' = [up EXCEPT ![conn] = <<>>] /\ db' = [db EXCEPT !.out[conn] = <<>>]
       /\ UNCHANGED <<load, opening, ready, phase, breaks, late, history>>

\* The connection of client c breaks.  The broker may get what is on the way to it.
Break(c) ==
    /\ lib[c].sock # NULL /\ ready /\ breaks < load.breaks
    /\ db' = closed(db, lib[c].sock)
    /\ lib' = [lib EXCEPT ![c].sock = NULL]
    /\ breaks' = breaks + 1
    /\ UNCHANGED <<load, up, opening, ready, phase, late, history>>

-----------------------------------------------------------------------------
(* The broker.                                                             *)

\* A packet is read from each socket that has one, in the order of the slots.
\* dead: the broken connections of which nothing more arrives.
read_slot(w, i) ==
    LET conn == w.db.contexts[i].sock
        lost == conn \in w.dead
    IN IF w.db.contexts[i] = NULL THEN w
       ELSE IF conn = NULL \/ (~lost /\ w.up[conn] = <<>>) THEN w
       ELSE [w EXCEPT
               !.up[conn] = IF lost THEN <<>> ELSE Tail(@),
               !.db = loop_handle_read(@, i, IF lost THEN [type |-> "lost"]
                                             ELSE Wire(Head(w.up[conn])))]

walked(d, dead) ==
    FoldLeft(read_slot, [db |-> d, up |-> up, dead |-> dead], SetToSortSeq(Slots, <))

accept_first(d) == IF opening = <<>> THEN d ELSE mqtt3_socket_accept(d, Head(opening))

served(d) == mqtt3_db_message_timeout_check(loop_contexts(d, {}, {}))

\* How often message m has been put into the subscriber's queue.
passed_on(d, m) ==
    LET id == id_of("sub")
        c == d.contexts[d.cih[id]]
        before == IF id \in DOMAIN db.cih THEN db.contexts[db.cih[id]].last_mid ELSE 0
    IN IF id \notin DOMAIN d.cih THEN 0
       ELSE Cardinality({k \in DOMAIN c.msgs : /\ c.msgs[k].mid > before
                                               /\ c.msgs[k].direction = "out"
                                               /\ d.store[c.msgs[k].store].payload = m})

\* The main loop reads and accepts ...
BrokerReads(dead) ==
    /\ phase = "poll" /\ phase' = "serve"
    /\ dead \subseteq db.broken \cap held
    /\ \E w \in {walked(db, dead)} :
         /\ db' = accept_first(w.db) /\ up' = w.up
         /\ passed' = [m \in Payloads |-> passed[m] + passed_on(w.db, m)]
    /\ opening' = IF opening = <<>> THEN opening ELSE Tail(opening)
    /\ UNCHANGED <<load, lib, ready, breaks, late, asked, reported, heard>>

\* ... and then frees bodies and serves the contexts.
BrokerServes ==
    /\ phase = "serve" /\ phase' = "poll"
    /\ db' = served(mqtt3_db_store_clean(db))
    /\ UNCHANGED <<load, lib, up, opening, ready, breaks, late, history>>

\* Time goes by and an answer is late, for the broker or for a client.
aged(messages) == [k \in DOMAIN messages |-> [messages[k] EXCEPT !.old = TRUE]]

BrokerLate ==
    /\ late < load.late /\ late' = late + 1
    /\ db' = [db EXCEPT !.contexts = [i \in Slots |->
                IF @[i] = NULL THEN NULL ELSE [@[i] EXCEPT !.msgs = aged(@)]]]
    /\ UNCHANGED <<load, lib, up, opening, ready, phase, breaks, history>>

ClientLate(c) ==
    /\ late < load.late /\ late' = late + 1
    /\ lib' = [lib EXCEPT ![c].out_messages = aged(@), ![c].in_messages = aged(@)]
    /\ UNCHANGED <<load, db, up, opening, ready, phase, breaks, history>>

\* What the loop thread of client c does.
LoopThread(c) == Reconnect(c) \/ ClientRead(c) \/ Retry(c) \/ ConnLost(c)

Next ==
    \/ Publish \/ BrokerLate
    \/ \E c \in Clients : LoopThread(c) \/ Break(c) \/ ClientLate(c)
    \/ \E dead \in SUBSET (db.broken \cap held) : BrokerReads(dead)
    \/ BrokerServes

\* The main loop of the broker and the loop threads of the clients go on.
Fairness ==
    /\ []<>(phase = "poll") /\ []<>(phase = "serve") /\ WF_vars(Publish)
    /\ \A c \in Clients : WF_vars(LoopThread(c))

Spec == Init /\ [][Next]_vars

FairSpec == Spec /\ Fairness

-----------------------------------------------------------------------------
(* Properties.                                                             *)

reached == {m \in Payloads : heard[m] > 0}

Abstract == INSTANCE QosDelivery WITH Messages <- Payloads

\* No step is more than a step of the abstract specification: a message of QoS 2
\* is passed on once, whatever is sent twice, and on_publish is called only for a
\* message the broker has passed on (read_handle.c, database.c, messages_mosq.c).
ImplementsQosDelivery == Abstract!Safe

\* The broker has m, which is in the subscriber's list, too.
in_broker(m) ==
    /\ id_of("sub") \in DOMAIN db.cih
    /\ \E n \in Range(db.contexts[db.cih[id_of("sub")]].msgs) : n.direction = "out" /\ n.mid = m.mid

\* A second copy of a message: the application has got the first, and the broker has
\* forgotten it (read_handle.c:157).
left_over(m) == heard[m.payload] > 0 /\ ~in_broker(m)

\* In the end every message of QoS 1 or 2 that is published has reached the subscriber and
\* is reported to the publisher, whatever connections break on the way, and all handshakes
\* are over: the publisher and the broker keep nothing and send nothing.  The subscriber
\* keeps nothing but messages that its library has stored twice.  While there is one its
\* connection is never quiet: the library asks for it at every reconnect (messages_mosq.c:334)
\* and the broker, which has forgotten it, closes the connection (database.c:415), although
\* what is preserved "should match whatever the client has got" (messages_mosq.c:175).
Delivered ==
    LET kept == Range(lib["sub"].in_messages)
    IN <>[](/\ \A m \in asked : heard[m] > 0 /\ m \in reported
            /\ lib["pub"].out_messages = <<>> /\ DOMAIN db.store = {}
            /\ \A m \in kept : left_over(m)
            /\ kept = {} => \A conn \in Conns : db.out[conn] = <<>>)

\* A message of QoS 2 is given to the application once (man/mqtt.7.xml: "exactly
\* once by using a four step handshake").
ExactlyOnce == \A m \in Payloads : Qos[m] = 2 => heard[m] <= 1
=============================================================================
