------------------------------ MODULE Packets ------------------------------
(***************************************************************************)
(* Packets on the wire (send_client_mosq.c, send_mosq.c, send_server.c,    *)
(* net_mosq.c and the parsing half of the handlers): a client and a broker *)
(* at the two ends of a connection, of which one sends.  The socket takes  *)
(* and gives as many bytes as it likes, so that packets are written and    *)
(* read in pieces.                                                         *)
(*                                                                         *)
(* Bytes come in runs: [b, n] is n times the byte b.  A text is a sequence *)
(* of runs, an optional value a sequence of at most one element.           *)
(***************************************************************************)
EXTENDS Integers, Sequences, SequencesExt, FiniteSetsExt

CONSTANTS
    Traffic,  \* what may be sent on a connection: [sender, messages]
    Pieces,   \* how many bytes the socket may take or give if not all
    MaxCuts   \* bound on the times it does not take or give all

VARIABLE link \* [sender, todo, sent, out, wire, in, got, rc, unfilled, cuts]

-----------------------------------------------------------------------------
(* Runs of bytes.                                                          *)

size(runs) == FoldLeft(LAMBDA sum, r : sum + r.n, 0, runs)

\* The first n bytes, and the others.
front(runs, n) ==
    LET step(acc, r) ==
            LET k == Min({r.n, acc.left})
            IN [left |-> acc.left - k,
                got |-> IF k = 0 THEN acc.got ELSE Append(acc.got, [r EXCEPT !.n = k])]
    IN FoldLeft(step, [left |-> n, got |-> <<>>], runs).got

rest(runs, n) ==
    LET step(acc, r) ==
            LET k == Min({r.n, acc.left})
            IN [left |-> acc.left - k,
                got |-> IF k = r.n THEN acc.got ELSE Append(acc.got, [r EXCEPT !.n = r.n - k])]
    IN FoldLeft(step, [left |-> n, got |-> <<>>], runs).got

\* One after the other; equal bytes make one run.
join(left, right) ==
    IF left # <<>> /\ right # <<>> /\ Last(left).b = Head(right).b
    THEN [left EXCEPT ![Len(left)].n = @ + Head(right).n] \o Tail(right)
    ELSE left \o right

byte_of(b) == <<[b |-> b, n |-> 1]>>

bit(condition, value) == IF condition THEN value ELSE 0

\* Some neighbouring bits of a byte: the value of the lowest, and how many values.
bits(byte, lowest, values) == (byte \div lowest) % values

\* The upper half of a byte.
kind(byte) == 16 * (byte \div 16)

-----------------------------------------------------------------------------
(* A packet that is being written: what is in it, and how long it was said *)
(* to become.                                                              *)

CONNECT == 16
CONNACK == 32
PUBLISH == 48
PUBACK == 64
PUBREC == 80
PUBREL == 96
PUBCOMP == 112
SUBSCRIBE == 128
SUBACK == 144
UNSUBSCRIBE == 160
UNSUBACK == 176
PINGREQ == 192
PINGRESP == 208
DISCONNECT == 224

PROTOCOL_NAME_v31 == <<[b |-> 77, n |-> 6]>>

PROTOCOL_VERSION_v31 == 3

\* The remaining length in base 128, with the top bit on all digits but the last.
remaining_bytes(length) ==
    LET digit(k) == (length \div 128^k) % 128
        last == Max({0} \cup {k \in 1..4 : length >= 128^k})
    IN [k \in 1..last + 1 |-> digit(k - 1) + bit(k <= last, 128)]

_mosquitto_packet_alloc(command, remaining_length) ==
    LET count == Len(remaining_bytes(remaining_length))
    IN [rc |-> IF count = 5 THEN "PAYLOAD_SIZE" ELSE "SUCCESS",
        payload |-> FoldLeft(LAMBDA bytes, b : join(bytes, byte_of(b)), byte_of(command),
                              remaining_bytes(remaining_length)),
        packet_length |-> remaining_length + 1 + count]

_mosquitto_write_bytes(packet, bytes) ==
    IF size(packet.payload) + size(bytes) > packet.packet_length THEN [packet EXCEPT !.rc = "ASSERT"]
    ELSE [packet EXCEPT !.payload = join(@, bytes)]

_mosquitto_write_byte(packet, byte) == _mosquitto_write_bytes(packet, byte_of(byte))

_mosquitto_write_uint16(packet, word) ==
    _mosquitto_write_byte(_mosquitto_write_byte(packet, (word \div 256) % 256), word % 256)

\* The length is passed as 16 bits.
_mosquitto_write_string(packet, str) ==
    LET length == size(str) % 65536
    IN _mosquitto_write_bytes(_mosquitto_write_uint16(packet, length), front(str, length))

-----------------------------------------------------------------------------
(* What the functions that send put into a packet.                         *)

\* The length that is announced and the fields that are written.
string_len(str) == 2 + size(str)

optional(packet, values) == FoldLeft(_mosquitto_write_string, packet, values)

connect_length(m) ==
    LET lengths(values) == FoldLeft(LAMBDA sum, v : sum + string_len(v), 0, values)
        will == FoldLeft(LAMBDA sum, w : sum + string_len(w.topic) + string_len(w.payload), 0, m.will)
    IN 12 + string_len(m.id) + will + lengths(m.username)
       + IF m.username = <<>> THEN 0 ELSE lengths(m.password)

connect_flags(m) ==
    LET will(w) == bit(w.retain, 32) + w.qos * 8 + 4
    IN bit(m.clean_session, 2) + (IF m.will = <<>> THEN 0 ELSE will(m.will[1]))
       + bit(m.username # <<>>, 128) + bit(m.username # <<>> /\ m.password # <<>>, 64)

_mosquitto_send_connect(m) ==
    LET named(p) == _mosquitto_write_byte(_mosquitto_write_string(p, PROTOCOL_NAME_v31),
                                          PROTOCOL_VERSION_v31)
        flagged(p) == _mosquitto_write_uint16(_mosquitto_write_byte(p, connect_flags(m)), m.keepalive)
        identified(p) == _mosquitto_write_string(flagged(named(p)), m.id)
        willed(p) == FoldLeft(LAMBDA q, w : optional(q, <<w.topic, w.payload>>), p, m.will)
        user == IF m.username = <<>> THEN <<>> ELSE m.username \o m.password
        written(p) == IF p.rc # "SUCCESS" THEN p ELSE optional(willed(identified(p)), user)
    IN written(_mosquitto_packet_alloc(CONNECT, connect_length(m)))

_mosquitto_send_subscribe(m) ==
    LET packet == _mosquitto_packet_alloc(SUBSCRIBE + bit(m.dup, 8) + 2, 2 + string_len(m.topic) + 1)
    IN _mosquitto_write_byte(
         _mosquitto_write_string(_mosquitto_write_uint16(packet, m.mid), m.topic), m.qos)

_mosquitto_send_unsubscribe(m) ==
    LET packet == _mosquitto_packet_alloc(UNSUBSCRIBE + bit(m.dup, 8) + 2, 2 + string_len(m.topic))
    IN _mosquitto_write_string(_mosquitto_write_uint16(packet, m.mid), m.topic)

_mosquitto_send_real_publish(m) ==
    LET numbered(p) == IF m.qos > 0 THEN _mosquitto_write_uint16(p, m.mid) ELSE p
        written(p) ==
          IF p.rc # "SUCCESS" THEN p
          ELSE _mosquitto_write_bytes(numbered(_mosquitto_write_string(p, m.topic)), m.payload)
    IN written(_mosquitto_packet_alloc(
                 PUBLISH + bit(m.dup, 8) + m.qos * 2 + bit(m.retain, 1),
                 string_len(m.topic) + size(m.payload) + bit(m.qos > 0, 2)))

_mosquitto_send_command_with_mid(m) ==
    _mosquitto_write_uint16(_mosquitto_packet_alloc(m.command + bit(m.dup, 8), 2), m.mid)

_mosquitto_send_simple_command(m) == _mosquitto_packet_alloc(m.command, 0)

_mosquitto_send_connack(m) ==
    _mosquitto_write_byte(_mosquitto_write_byte(_mosquitto_packet_alloc(CONNACK, 2), 0), m.result)

_mosquitto_send_suback(m) ==
    _mosquitto_write_bytes(
        _mosquitto_write_uint16(_mosquitto_packet_alloc(SUBACK, 2 + size(m.payload)), m.mid), m.payload)

compose(m) ==
    CASE m.type = "CONNECT" -> _mosquitto_send_connect(m)
      [] m.type = "SUBSCRIBE" -> _mosquitto_send_subscribe(m)
      [] m.type = "UNSUBSCRIBE" -> _mosquitto_send_unsubscribe(m)
      [] m.type = "PUBLISH" -> _mosquitto_send_real_publish(m)
      [] m.type = "mid" -> _mosquitto_send_command_with_mid(m)
      [] m.type = "simple" -> _mosquitto_send_simple_command(m)
      [] m.type = "CONNACK" -> _mosquitto_send_connack(m)
      [] m.type = "SUBACK" -> _mosquitto_send_suback(m)

-----------------------------------------------------------------------------
(* Reading the fields of a packet: p has the bytes that are left and, once *)
(* a read went beyond them, an error; v is the value that was read last,   *)
(* fields has those that were kept.                                        *)

_mosquitto_read_bytes(p, count) ==
    IF p.rc # "SUCCESS" \/ count > size(p.bytes) THEN [p EXCEPT !.rc = "PROTOCOL", !.v = <<>>]
    ELSE [p EXCEPT !.bytes = rest(@, count), !.v = front(p.bytes, count)]

_mosquitto_read_byte(p) == _mosquitto_read_bytes(p, 1)

\* The value of the bytes that were read.
number(v) ==
    LET step(sum, r) == IF r.n = 1 THEN sum * 256 + r.b ELSE sum * 65536 + r.b * 257
    IN FoldLeft(step, 0, v)

_mosquitto_read_uint16(p) == _mosquitto_read_bytes(p, 2)

\* As many bytes as the number says that was read last.
read_sized(p) == _mosquitto_read_bytes(p, number(p.v))

_mosquitto_read_string(p) == read_sized(_mosquitto_read_uint16(p))

keep_field(p, name) == [p EXCEPT !.fields = @ @@ (name :> p.v)]

\* A handler reads one field after the other; "rest" is all that is left.
read_next(p, field) ==
    keep_field(CASE field[1] = "byte" -> _mosquitto_read_byte(p)
                 [] field[1] = "uint16" -> _mosquitto_read_uint16(p)
                 [] field[1] = "string" -> _mosquitto_read_string(p)
                 [] field[1] = "rest" -> _mosquitto_read_bytes(p, size(p.bytes)), field[2])

read_fields(p, fields) == FoldLeft(read_next, p, fields)

\* The field, if it was read.
given(p, name) == IF name \in DOMAIN p.fields THEN <<p.fields[name]>> ELSE <<>>

parsed(p, m) == IF p.rc = "SUCCESS" THEN [rc |-> "SUCCESS", msg |-> <<m>>] ELSE [rc |-> p.rc, msg |-> <<>>]

refused == [rc |-> "PROTOCOL", msg |-> <<>>]

is_dup(command) == bits(command, 8, 2) = 1

\* A will, if the flags say so: topic and payload.
parse_will(p) ==
    LET check(q) == IF q.fields["topic"] = <<>> THEN [q EXCEPT !.rc = "PROTOCOL"] ELSE q
    IN IF bits(number(p.fields["flags"]), 4, 2) = 0 THEN p
       ELSE check(read_fields(p, << <<"string", "topic">>, <<"string", "payload">> >>))

\* With MQTT 3.1 a user name or password that is announced and missing is none.
parse_optional(p, flagged, name) ==
    LET read_or_none(q) == IF q.rc = "SUCCESS" THEN q ELSE p
    IN IF flagged /\ p.rc = "SUCCESS" THEN read_or_none(read_next(p, <<"string", name>>)) ELSE p

parse_user(p) == parse_optional(p, bits(number(p.fields["flags"]), 128, 2) = 1, "username")

parse_password(p) ==
    parse_optional(p, bits(number(p.fields["flags"]), 64, 2) = 1 /\ given(p, "username") # <<>>,
                   "password")

connect_message(p) ==
    LET f == p.fields
        flags == number(f["flags"])
        will == [topic |-> f["topic"], payload |-> f["payload"], qos |-> bits(flags, 8, 4),
                 retain |-> bits(flags, 32, 2) = 1]
    IN IF \/ f["name"] # PROTOCOL_NAME_v31 \/ number(f["version"]) % 128 # PROTOCOL_VERSION_v31
          \/ bits(flags, 8, 4) = 3 \/ f["id"] = <<>>
       THEN refused
       ELSE parsed(p, [type |-> "CONNECT", id |-> f["id"], clean_session |-> bits(flags, 2, 2) = 1,
                       keepalive |-> number(f["keepalive"]),
                       will |-> IF given(p, "topic") = <<>> THEN <<>> ELSE <<will>>,
                       username |-> given(p, "username"), password |-> given(p, "password")])

mqtt3_handle_connect(p) ==
    connect_message(parse_password(parse_user(parse_will(read_fields(p,
        << <<"string", "name">>, <<"byte", "version">>, <<"byte", "flags">>,
           <<"uint16", "keepalive">>, <<"string", "id">> >>)))))

\* Both sides read a PUBLISH alike.
mqtt3_handle_publish(p, command) ==
    LET qos == bits(command, 2, 4)
        mid == IF qos > 0 THEN << <<"uint16", "mid">> >> ELSE <<>>
        message(q) ==
          IF qos = 3 \/ q.fields["topic"] = <<>> THEN refused
          ELSE parsed(q, [type |-> "PUBLISH", dup |-> is_dup(command), qos |-> qos,
                          retain |-> command % 2 = 1, topic |-> q.fields["topic"],
                          mid |-> IF qos > 0 THEN number(q.fields["mid"]) ELSE 0,
                          payload |-> q.fields["payload"]])
    IN message(read_fields(p, << <<"string", "topic">> >> \o mid \o << <<"rest", "payload">> >>))

\* The library sends one topic at a time.
mqtt3_handle_subscribe(p, command) ==
    LET message(q) ==
          IF q.fields["topic"] = <<>> \/ number(q.fields["qos"]) > 2 \/ q.bytes # <<>> THEN refused
          ELSE parsed(q, [type |-> "SUBSCRIBE", dup |-> is_dup(command),
                          mid |-> number(q.fields["mid"]), topic |-> q.fields["topic"],
                          qos |-> number(q.fields["qos"])])
    IN message(read_fields(p, << <<"uint16", "mid">>, <<"string", "topic">>, <<"byte", "qos">> >>))

mqtt3_handle_unsubscribe(p, command) ==
    LET message(q) ==
          IF q.fields["topic"] = <<>> \/ q.bytes # <<>> THEN refused
          ELSE parsed(q, [type |-> "UNSUBSCRIBE", dup |-> is_dup(command),
                          mid |-> number(q.fields["mid"]), topic |-> q.fields["topic"]])
    IN message(read_fields(p, << <<"uint16", "mid">>, <<"string", "topic">> >>))

_mosquitto_handle_connack(p) ==
    LET message(q) == parsed(q, [type |-> "CONNACK", result |-> number(q.fields["result"])])
    IN message(read_fields(p, << <<"byte", "reserved">>, <<"byte", "result">> >>))

_mosquitto_handle_suback(p) ==
    LET message(q) == parsed(q, [type |-> "SUBACK", mid |-> number(q.fields["mid"]),
                                 payload |-> q.fields["payload"]])
    IN message(read_fields(p, << <<"uint16", "mid">>, <<"rest", "payload">> >>))

parse_mid(p, command) ==
    LET message(q) == parsed(q, [type |-> "mid", command |-> command - bit(is_dup(command), 8),
                                 dup |-> is_dup(command), mid |-> number(q.fields["mid"])])
    IN message(read_next(p, <<"uint16", "mid">>))

\* The sides take different commands: the broker also those of another broker.
_mosquitto_packet_handle(sender, command, payload) ==
    LET p == [rc |-> "SUCCESS", bytes |-> payload, v |-> <<>>, fields |-> <<>>]
    IN CASE kind(command) \in {PINGREQ, PINGRESP} -> parsed(p, [type |-> "simple", command |-> command])
         [] kind(command) = DISCONNECT /\ sender = "client" -> parsed(p, [type |-> "simple", command |-> command])
         [] kind(command) \in {PUBACK, PUBREC, PUBREL, PUBCOMP, UNSUBACK} -> parse_mid(p, command)
         [] kind(command) = PUBLISH -> mqtt3_handle_publish(p, command)
         [] kind(command) = CONNACK -> _mosquitto_handle_connack(p)
         [] kind(command) = SUBACK -> _mosquitto_handle_suback(p)
         [] kind(command) = CONNECT /\ sender = "client" -> mqtt3_handle_connect(p)
         [] kind(command) = SUBSCRIBE /\ sender = "client" -> mqtt3_handle_subscribe(p, command)
         [] kind(command) = UNSUBSCRIBE /\ sender = "client" -> mqtt3_handle_unsubscribe(p, command)
         [] OTHER -> refused

-----------------------------------------------------------------------------
(* The connection.                                                         *)

NoPacket ==
    [command |-> 0, have_remaining |-> FALSE, remaining_count |-> 0, remaining_mult |-> 1,
     remaining_length |-> 0, payload |-> <<>>]

_mosquitto_packet_cleanup(l) == [l EXCEPT !.in = NoPacket]

LinkInit ==
    link = [sender |-> "none", todo |-> <<>>, sent |-> <<>>, out |-> <<>>, wire |-> <<>>, in |-> NoPacket,
            got |-> <<>>, rc |-> "SUCCESS", unfilled |-> FALSE, cuts |-> 0]

\* What the allocated packet had there before goes out with it.
padded(packet) ==
    LET missing == packet.packet_length - size(packet.payload)
    IN IF missing = 0 THEN packet.payload ELSE join(packet.payload, <<[b |-> 255, n |-> missing]>>)

Open(traffic) ==
    /\ link.sender = "none"
    /\ link' = [link EXCEPT !.sender = traffic.sender, !.todo = traffic.messages]

\* A packet is made and queued.
_mosquitto_packet_queue ==
    LET l == [link EXCEPT !.todo = Tail(@)]
    IN /\ link.todo # <<>> /\ link.rc = "SUCCESS"
       /\ \E packet \in {compose(Head(link.todo))} :
            link' = CASE packet.rc = "PAYLOAD_SIZE" -> l
                      [] packet.rc = "ASSERT" -> [l EXCEPT !.rc = "ASSERT"]
                      [] OTHER -> [l EXCEPT !.sent = Append(@, Head(link.todo)),
                                            !.out = Append(@, padded(packet)),
                                            !.unfilled = @ \/ padded(packet) # packet.payload]

\* The packet that is sent is freed and the next one becomes the current one.
write_current(l) == IF l.out[1] # <<>> THEN l ELSE [l EXCEPT !.out = Tail(@)]

\* How many of the bytes that there are may be moved at once.
amounts(bytes) ==
    {size(bytes)} \cup {n \in Pieces : n < size(bytes) /\ link.cuts < MaxCuts}

\* The socket takes n bytes of the packets in turn, and no more.
_mosquitto_packet_write(n) ==
    LET step(acc, packet) ==
            LET k == Min({acc.left, size(packet)})
            IN [left |-> acc.left - k,
                l |-> IF k = 0 THEN acc.l
                      ELSE write_current([acc.l EXCEPT !.wire = join(@, front(packet, k)),
                                                       !.out[1] = rest(@, k)])]
    IN /\ link.out # <<>> /\ link.rc = "SUCCESS"
       /\ link' = [FoldLeft(step, [left |-> n, l |-> link], link.out).l EXCEPT
                     !.cuts = @ + bit(n < size(FlattenSeq(link.out)), 1)]

\* The command; clients must send CONNECT first, to the broker.
read_command(l) ==
    IF l.in.command # 0 \/ l.avail = 0 THEN l
    ELSE LET byte == l.wire[1].b
         IN [l EXCEPT !.wire = rest(@, 1), !.avail = @ - 1, !.in.command = byte,
                      !.rc = IF l.sender = "client" /\ l.got = <<>> /\ kind(byte) # CONNECT
                             THEN "PROTOCOL" ELSE @]

\* Mutant of read_remaining: a length that is cut short is begun anew.
read_remaining_restarts(l) ==
    IF l.rc # "SUCCESS" \/ l.in.command = 0 \/ l.in.have_remaining THEN l
    ELSE IF l.avail = 0 THEN [l EXCEPT !.in.remaining_mult = 1]
    ELSE LET byte == l.wire[1].b
         IN IF l.in.remaining_count = 4 THEN [l EXCEPT !.rc = "PROTOCOL"]
            ELSE [l EXCEPT !.wire = rest(@, 1), !.avail = @ - 1,
                           !.in.remaining_count = @ + 1,
                           !.in.remaining_length = @ + (byte % 128) * l.in.remaining_mult,
                           !.in.remaining_mult = @ * 128,
                           !.in.have_remaining = byte < 128]

\* A digit of the remaining length.
read_remaining(l) ==
    IF l.rc # "SUCCESS" \/ l.in.command = 0 \/ l.in.have_remaining \/ l.avail = 0 THEN l
    ELSE LET byte == l.wire[1].b
         IN IF l.in.remaining_count = 4 THEN [l EXCEPT !.rc = "PROTOCOL"]
            ELSE [l EXCEPT !.wire = rest(@, 1), !.avail = @ - 1,
                           !.in.remaining_count = @ + 1,
                           !.in.remaining_length = @ + (byte % 128) * l.in.remaining_mult,
                           !.in.remaining_mult = @ * 128,
                           !.in.have_remaining = byte < 128]

read_payload(l) ==
    IF l.rc # "SUCCESS" \/ ~l.in.have_remaining THEN l
    ELSE LET k == Min({l.avail, l.in.remaining_length - size(l.in.payload)})
         IN [l EXCEPT !.wire = rest(@, k), !.avail = @ - k, !.in.payload = join(@, front(l.wire, k))]

\* A packet that is complete is handled; an error ends the connection.
handle(l) ==
    IF l.rc # "SUCCESS" \/ ~l.in.have_remaining \/ size(l.in.payload) < l.in.remaining_length THEN l
    ELSE LET next(read) ==
               [_mosquitto_packet_cleanup(l) EXCEPT !.got = Append(@, read.msg), !.rc = read.rc]
         IN next(_mosquitto_packet_handle(l.sender, l.in.command, l.in.payload))

\* The other side reads while the socket gives bytes, n at most.
_mosquitto_packet_read(n) ==
    LET begun == read_command([link EXCEPT !.cuts = @ + bit(n < size(link.wire), 1)] @@ [avail |-> n])
        counted == FoldLeft(LAMBDA l, k : read_remaining(l), begun, <<1, 2, 3, 4, 5>>)
        done == handle(read_payload(counted))
    IN /\ link.wire # <<>> /\ link.rc = "SUCCESS"
       /\ link' = [f \in DOMAIN link |-> done[f]]

LinkNext ==
    \/ link.sender = "none" /\ \E traffic \in Traffic : Open(traffic)
    \/ _mosquitto_packet_queue
    \/ \E n \in amounts(FlattenSeq(link.out)) : _mosquitto_packet_write(n)
    \/ \E n \in amounts(link.wire) : _mosquitto_packet_read(n)

-----------------------------------------------------------------------------
(* Properties.                                                             *)

\* Texts whose length is not lost when it is written into 16 bits.  The library
\* does not look at the length of the payload of a will, of the names and of the
\* password.
Fits(m) ==
    m.type = "CONNECT" =>
        /\ \A str \in {m.id} \cup Range(m.username) \cup Range(m.password) : size(str) < 65536
        /\ \A w \in Range(m.will) : size(w.payload) < 65536

\* A password without a user name is not sent.
Sendable(m) ==
    IF m.type = "CONNECT" /\ m.username = <<>> THEN [m EXCEPT !.password = <<>>] ELSE m

\* However the bytes are cut into pieces, the messages that the receiver has
\* understood are the ones that were sent, in this order; no packet is taken for
\* two, or two for one, also if one of them has a text that does not fit.
UnderstoodAsSent ==
    /\ Len(link.got) <= Len(link.sent)
    /\ \A k \in DOMAIN link.got : Fits(link.sent[k]) => link.got[k] = <<Sendable(link.sent[k])>>

\* The length that is worked out before a packet is written is the length that is
\* written: no assertion of _mosquitto_write_bytes fails, and nothing of the
\* allocated memory goes out that was not written.
PacketsAreFilled ==
    /\ link.rc # "ASSERT"
    /\ (\A k \in DOMAIN link.sent : Fits(link.sent[k])) => ~link.unfilled

\* What is on the wire and in the queue, after what the receiver has of the packet
\* it is in, is a number of whole packets: when the queue and the wire are empty,
\* everything that was sent was understood.
NothingLeftOver ==
    link.out = <<>> /\ link.wire = <<>> /\ link.rc = "SUCCESS" =>
        Len(link.got) = Len(link.sent) /\ link.in = NoPacket

\* The receiver understands what was sent, all of it and nothing else.
PacketsArrive == UnderstoodAsSent /\ PacketsAreFilled /\ NothingLeftOver
=============================================================================
