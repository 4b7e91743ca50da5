----------------------------- MODULE KeepAlive ------------------------------
(***************************************************************************)
(* How the two ends of a connection notice that the other is gone: the     *)
(* pings of libmosquitto (util_mosq.c, mosquitto_loop_misc) and the limit  *)
(* the broker sets its clients (loop.c).  Time passes in half seconds, but *)
(* both ends read it in seconds, each by a clock of its own.  ka holds     *)
(*   k         the keepalive time both agreed on, NULL before they did     *)
(*   now       the time; phase, by how much the broker's clock is ahead    *)
(*   c         the client: sock, last_msg_in, last_msg_out, ping_t (NULL   *)
(*             for 0), idle: how long its loop has slept, told: how often  *)
(*             on_disconnect was called                                    *)
(*   b         the broker's context: sock, last_msg_in, and whether it was *)
(*             looked at in this half second                               *)
(*   up, down  the packets on their way, each with its age                 *)
(*   dead      since when nothing arrives any more, NULL while it does     *)
(*   sends     how many messages were published                            *)
(***************************************************************************)
EXTENDS Topics

CONSTANTS
    Keepalives,     \* keepalive times, in seconds
    Delay,          \* how many half seconds a packet may be on its way
    LoopTime,       \* timeout of mosquitto_loop, in half seconds
    MaxTicks,       \* bound on the time
    MaxPublishes    \* bound on messages that are published

ASSUME KeepAssumption ==
    /\ Keepalives \subseteq Nat \ {0} /\ {Delay, LoopTime} \subseteq Nat
    /\ NULL \notin Nat

\* What the clients are given on top of their keepalive time, the half of it, is
\* more than a packet's way and the sleep of the loop before it.
ASSUME RoomAssumption == \A k \in Keepalives : (LoopTime + Delay) \div 2 < k \div 2

VARIABLE ka

KeepInit ==
    ka = [k |-> NULL, now |-> 0, phase |-> 0,
          c |-> [sock |-> TRUE, last_msg_in |-> 0, last_msg_out |-> 0, ping_t |-> NULL, idle |-> 0, told |-> 0],
          b |-> [sock |-> TRUE, last_msg_in |-> 0, checked |-> FALSE],
          up |-> <<>>, down |-> <<>>, dead |-> NULL, sends |-> 0]

client_time(s) == s.now \div 2
broker_time(s) == (s.now + s.phase) \div 2

\* The client has its CONNACK.
KeepStart ==
    /\ ka.k = NULL
    /\ \E k \in Keepalives, now, phase \in {0, 1} :
         LET s == [ka EXCEPT !.k = k, !.now = now, !.phase = phase]
         IN ka' = [s EXCEPT !.c.last_msg_in = client_time(s), !.c.last_msg_out = client_time(s), !.b.last_msg_in = broker_time(s)]

Running == ka.k # NULL

\* What is sent to an end that is gone is kept by the system, and nobody knows.
sent(s, way, type) == IF s.dead = NULL THEN [s EXCEPT ![way] = Append(@, [type |-> type, age |-> 0])] ELSE s

-----------------------------------------------------------------------------
(* The client.                                                             *)

packet_write(s, type) == [sent(s, "up", type) EXCEPT !.c.last_msg_out = client_time(s)]

_mosquitto_send_pingreq(s) == [packet_write(s, "PINGREQ") EXCEPT !.c.ping_t = client_time(s)]

closed(s) == [s EXCEPT !.c.sock = FALSE, !.c.told = @ + 1]

\* Mutant of is_silent: nobody minds that nothing goes out.
is_silent_in(s) == client_time(s) - s.c.last_msg_in >= s.k

is_silent(s) == client_time(s) - s.c.last_msg_out >= s.k \/ client_time(s) - s.c.last_msg_in >= s.k

check_keepalive(s) ==
    CASE ~is_silent(s) -> s
      [] is_silent(s) /\ s.c.ping_t = NULL ->
           [_mosquitto_send_pingreq(s) EXCEPT !.c.last_msg_in = client_time(s), !.c.last_msg_out = client_time(s)]
      [] OTHER -> closed(s)

\* The second check is made although the first may have closed the socket.
mosquitto_loop_misc(s) ==
    LET t == check_keepalive(s)
    IN IF t.c.ping_t # NULL /\ client_time(s) - t.c.ping_t >= s.k THEN closed(t) ELSE t

_mosquitto_handle_pingresp(s) == [s EXCEPT !.c.ping_t = NULL]

packet_read(s) ==
    LET rest == [s EXCEPT !.down = Tail(@)]
        handled == IF Head(s.down).type = "PINGRESP" THEN _mosquitto_handle_pingresp(rest) ELSE rest
    IN [handled EXCEPT !.c.last_msg_in = client_time(s)]

\* An iteration of mosquitto_loop: for a packet, for something to write, or when
\* its time is up.
mosquitto_loop ==
    /\ Running /\ ka.c.sock
    /\ \/ ka.down # <<>> /\ ka' = [mosquitto_loop_misc(packet_read(ka)) EXCEPT !.c.idle = 0]
       \/ /\ ka.sends < MaxPublishes
          /\ ka' = [mosquitto_loop_misc(packet_write(ka, "PUBLISH")) EXCEPT !.c.idle = 0, !.sends = @ + 1]
       \/ ka.c.idle = LoopTime /\ ka' = [mosquitto_loop_misc(ka) EXCEPT !.c.idle = 0]

-----------------------------------------------------------------------------
(* The broker.                                                             *)

_mosquitto_send_pingresp(s) == sent(s, "down", "PINGRESP")

_mosquitto_handle_pingreq(s) == _mosquitto_send_pingresp(s)

BrokerReads ==
    /\ Running /\ ka.b.sock /\ ka.up # <<>>
    /\ LET rest == [ka EXCEPT !.up = Tail(@)]
           handled == IF Head(ka.up).type = "PINGREQ" THEN _mosquitto_handle_pingreq(rest) ELSE rest
       IN ka' = [handled EXCEPT !.b.last_msg_in = broker_time(ka)]

BrokerPublishes ==
    /\ Running /\ ka.b.sock /\ ka.sends < MaxPublishes
    /\ ka' = [sent(ka, "down", "PUBLISH") EXCEPT !.sends = @ + 1]

\* A client may be silent for half as long again as it said.
BrokerChecks ==
    /\ Running /\ ka.b.sock /\ ~ka.b.checked
    /\ ka' = [ka EXCEPT !.b.checked = TRUE, !.b.sock = broker_time(ka) - ka.b.last_msg_in < (ka.k * 3) \div 2]

-----------------------------------------------------------------------------
(* Time and the network.                                                   *)

\* Not before everybody has done what is due.
Tick ==
    /\ Running /\ ka.now < MaxTicks
    /\ ka.c.sock => ka.c.idle < LoopTime
    /\ ka.b.sock => ka.b.checked
    /\ \A i \in DOMAIN ka.up : ka.up[i].age < Delay
    /\ \A i \in DOMAIN ka.down : ka.down[i].age < Delay
    /\ LET older(packets) == [i \in DOMAIN packets |-> [packets[i] EXCEPT !.age = @ + 1]]
       IN ka' = [ka EXCEPT !.now = @ + 1, !.up = older(@), !.down = older(@), !.b.checked = FALSE,
                           !.c.idle = IF ka.c.sock THEN @ + 1 ELSE @]

\* The other machine, or something in between, is gone, and says nothing.
Death == Running /\ ka.dead = NULL /\ ka' = [ka EXCEPT !.dead = ka.now, !.up = <<>>, !.down = <<>>]

KeepNext == KeepStart \/ mosquitto_loop \/ BrokerReads \/ BrokerPublishes \/ BrokerChecks \/ Tick \/ Death

KeepSpec == KeepInit /\ [][KeepNext]_ka

-----------------------------------------------------------------------------
(* Properties.                                                             *)

\* As long as packets arrive neither end gives up the other, whoever sends and
\* whoever is silent: the client pings when nothing went out for the keepalive
\* time, however much came in, and the broker waits half as long again, which has
\* to do for the sleep of the client's loop, the way of the packet, and for clocks
\* that are read in seconds (_mosquitto_check_keepalive, loop.c:149).  It does for
\* keepalive times of 4 seconds and more; with less a sound connection may be cut.
NoFalseTimeout == ka.dead = NULL => ka.c.sock /\ ka.b.sock

\* An end that is gone is noticed in time: by the client after at most twice the
\* keepalive time and two sleeps of its loop, however busily it publishes, by the
\* broker after one and a half.  The application is told, once or twice: the two
\* checks of mosquitto_loop_misc may both find the same ping unanswered.
DeathIsNoticed ==
    ka.dead # NULL =>
      /\ ka.c.sock => ka.now - ka.dead <= 2 * (2 * ka.k + LoopTime)
      /\ ka.b.sock => ka.now - ka.dead <= 2 * ((ka.k * 3) \div 2)
      /\ ~ka.c.sock => ka.c.told \in {1, 2}

\* An end of a connection is given up when it is gone, and only then.
GivenUpWhenGone == NoFalseTimeout /\ DeathIsNoticed
=============================================================================
