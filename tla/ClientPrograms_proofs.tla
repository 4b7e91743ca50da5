----------------------- MODULE ClientPrograms_proofs ------------------------
(***************************************************************************)
(* Proofs about the two programs that use the client library:              *)
(* mosquitto_pub ends with success only when what it was to send has been  *)
(* sent, however its threads take turns (ClientPrograms), and for any      *)
(* keepalive times, any sleep of the loop and any delay that leaves room,  *)
(* an end that is gone is noticed in time and an end that is there is not  *)
(* given up (KeepAlive).                                                   *)
(***************************************************************************)
EXTENDS ClientPrograms, KeepAlive, FiniteSetTheorems, SequenceTheorems, TLAPS

-----------------------------------------------------------------------------
(* ClientPrograms.                                                         *)

-----------------------------------------------------------------------------
(* The inductive invariant, for any value p of prog.                       *)

ProgFields ==
    {"stage", "program", "args", "input", "s", "m", "rc", "thread", "link", "out", "unacked", "callback",
     "disconnecting", "status", "mid_sent", "last_mid", "last_mid_sent", "connected", "disconnect_sent", "subs",
     "lines", "heard", "printed", "reported", "losses"}

IsProg(p) == DOMAIN p = ProgFields

reads_lines(p) == p.s["mode"] = "stdin_line"

publishes(p) == p.s.topics[1] # <<>> /\ _mosquitto_topic_wildcard_len_check(p.s.topics[1])

Packet == [type : {"PUBLISH", "DISCONNECT"}, what : Nat]

\* The messages from n to m, the first not included: their identifiers, and as packets.
Mids(n, m) == [k \in 1..(m - n) |-> n + k]

Packets(n, m) == [k \in 1..(m - n) |-> [type |-> "PUBLISH", what |-> n + k]]

Listed(q) == q \in Seq({q[k] : k \in DOMAIN q})

\* How many messages have been written (QoS 0) or acknowledged.
done(p) == IF p.last_mid_sent = -1 THEN 0 ELSE p.last_mid_sent

\* The messages are done with in the order in which they were published, and the
\* client does not ask to be disconnected before all of them are.
InTurn(p) ==
    /\ p.last_mid_sent \in {-1} \cup (Nat \ {0}) /\ p.mid_sent \in Nat /\ done(p) <= p.mid_sent
    /\ Listed(p.lines) /\ p.mid_sent = Len(p.lines)
    /\ p.reported = 1..done(p)
    /\ p.callback # 0 => p.callback = done(p)
    /\ p.unacked = IF p.s.qos = 0 THEN <<>> ELSE Mids(done(p), p.mid_sent)
    /\ p.out \in Seq(Packet)
    /\ p.s.qos = 0 /\ p.link # "down" =>
         IF p.disconnecting THEN \A k \in DOMAIN p.out : p.out[k].type = "DISCONNECT"
                            ELSE p.out = Packets(done(p), p.mid_sent)
    /\ ~p.disconnecting => \A k \in DOMAIN p.out : p.out[k].type = "PUBLISH"
    /\ p.disconnecting => done(p) = p.mid_sent /\ p.input = <<>>

\* With lines, when no connection was lost: the loop thread goes on until it was told
\* to disconnect, and main tells it so, or lets the callback do it, when the last line
\* is read.
LinesInTurn(p) ==
    /\ p.status \in {"STATUS_CONNECTING", "STATUS_CONNACK_RECVD", "STATUS_WAITING"}
    /\ IF p.status = "STATUS_WAITING" THEN p.input = <<>> /\ p.last_mid = p.mid_sent ELSE p.last_mid = -1
    /\ p.disconnecting => p.status = "STATUS_WAITING"
    /\ p.status = "STATUS_CONNECTING" => p.mid_sent = 0
    /\ p.stage = "disconnect" => p.status = "STATUS_WAITING" /\ p.last_mid_sent = p.last_mid
    /\ p.link = "down" \/ p.thread # "runs" => p.disconnecting
    /\ p.link = "connecting" => p.status = "STATUS_CONNECTING"

\* Without lines there is one message.
OneMessage(p) ==
    /\ p.input = <<>> /\ p.mid_sent <= 1 /\ p.stage \in {"loop", "ended"}
    /\ p.link = "connecting" => p.mid_sent = 0 /\ ~p.disconnecting
    /\ p.stage = "ended" /\ p.rc => p.disconnecting

\* When it can be said what has been sent, and that it is in turn.
in_scope(p) == publishes(p) /\ (reads_lines(p) => p.losses = 0)

Sent(p) == InTurn(p) /\ IF reads_lines(p) THEN LinesInTurn(p) ELSE OneMessage(p)

RunningProg(p) ==
    /\ p.stage \notin {"off", "connect", "srv"} /\ p.thread # "none"
    /\ in_scope(p) => Sent(p)

Begun(p) ==
    /\ p.stage \in {"connect", "srv"} /\ p.thread = "none" /\ p.link = "down"
    /\ p.out = <<>> /\ p.unacked = <<>> /\ p.callback = 0 /\ ~p.disconnecting
    /\ p.status = "STATUS_CONNECTING" /\ p.mid_sent = 0 /\ p.last_mid = -1 /\ p.last_mid_sent = -1
    /\ p.lines = <<>> /\ p.reported = {}
    /\ ~reads_lines(p) => p.input = <<>>

PubInv(p) ==
    /\ p.losses \in Nat
    /\ \/ p.stage = "ended" /\ p.thread = "none"
       \/ p.s.qos \in 0..2 /\ (Begun(p) \/ RunningProg(p))

ProgInv ==
    IF prog.stage = "off" THEN ProgInit
    ELSE IsProg(prog) /\ (prog.program = "pub" => PubInv(prog))

-----------------------------------------------------------------------------
(* Sequences.                                                              *)

\* A queue of any values grows.
LEMMA ListedAppend ==
    ASSUME NEW q, Listed(q), NEW x
    PROVE  Listed(Append(q, x)) /\ Len(Append(q, x)) = Len(q) + 1 /\ Len(q) \in Nat
<1> DEFINE S == {q[k] : k \in DOMAIN q} \cup {x}
           r == Append(q, x)
<1>1. q \in Seq(S) /\ x \in S
  <2>1. q \in Seq({q[k] : k \in DOMAIN q})
    BY DEF Listed
  <2> QED
    BY <2>1, SeqMonotonic
<1>2. /\ r \in Seq(S) /\ Len(r) = Len(q) + 1 /\ Len(q) \in Nat
  BY <1>1, AppendProperties, LenProperties
<1>3. r \in Seq({r[k] : k \in DOMAIN r})
  <2> HIDE DEF r, S
  <2>1. Len(r) \in Nat /\ DOMAIN r = 1..Len(r) /\ r = [k \in 1..Len(r) |-> r[k]]
    BY <1>2, LenProperties
  <2>2. [k \in 1..Len(r) |-> r[k]] \in Seq({r[k] : k \in DOMAIN r})
    BY <2>1, IsASeq
  <2> QED
    BY <2>1, <2>2, Zenon
<1> QED
  BY <1>2, <1>3 DEF Listed

\* No line is a queue, too.
LEMMA ListedEmpty == Listed(<<>>) /\ Len(<<>>) = 0
<1>1. <<>> \in Seq({<<>>[k] : k \in DOMAIN <<>>})
  BY EmptySeq
<1> QED
  BY <1>1, EmptySeq DEF Listed

\* A place in a queue that has grown.
LEMMA LastOrBefore ==
    ASSUME NEW j \in Nat, NEW k \in 1..(j + 1)
    PROVE  k = j + 1 \/ k \in 1..j
  OBVIOUS

\* The messages that are not acknowledged yet.
LEMMA MidsChange ==
    ASSUME NEW n \in Nat, NEW m \in Nat, n <= m
    PROVE  /\ Append(Mids(n, m), m + 1) = Mids(n, m + 1)
           /\ n < m => Tail(Mids(n, m)) = Mids(n + 1, m) /\ Mids(n, m)[1] = n + 1
           /\ Mids(n, m) # <<>> <=> n < m
           /\ Mids(n, n) = <<>>
<1> DEFINE q == Mids(n, m)
<1>1. m - n \in Nat
  OBVIOUS
<1>2. q \in Seq(Nat) /\ Len(q) = m - n /\ \A k \in 1..(m - n) : q[k] = n + k
  <2>1. q \in [1..(m - n) -> Nat]
    BY DEF Mids
  <2> QED
    BY <1>1, <2>1, IsASeq, LenProperties DEF Mids
<1>3. Append(q, m + 1) = Mids(n, m + 1)
  <2>1. /\ Append(q, m + 1) \in Seq(Nat) /\ Len(Append(q, m + 1)) = (m - n) + 1
        /\ \A k \in 1..(m - n) : Append(q, m + 1)[k] = q[k]
        /\ Append(q, m + 1)[(m - n) + 1] = m + 1
    BY <1>1, <1>2, AppendProperties
  <2>2. Mids(n, m + 1) \in Seq(Nat) /\ Len(Mids(n, m + 1)) = (m - n) + 1
    <3>1. Mids(n, m + 1) \in [1..((m - n) + 1) -> Nat]
      BY DEF Mids
    <3> QED
      BY <1>1, <3>1, IsASeq, LenProperties
  <2>3. \A k \in 1..((m - n) + 1) : Append(q, m + 1)[k] = Mids(n, m + 1)[k]
    <3> SUFFICES ASSUME NEW k \in 1..((m - n) + 1)
                 PROVE  Append(q, m + 1)[k] = n + k
      BY DEF Mids
    <3>1. CASE k = (m - n) + 1
      <4>1. n + k = m + 1
        BY <3>1
      <4> QED
        BY <2>1, <3>1, <4>1
    <3>2. CASE k \in 1..(m - n)
      BY <1>2, <2>1, <3>2
    <3>3. k = (m - n) + 1 \/ k \in 1..(m - n)
      BY <1>1, LastOrBefore, Zenon
    <3> QED
      BY <3>1, <3>2, <3>3
  <2> QED
    BY <2>1, <2>2, <2>3, SeqEqual
<1>4. ASSUME n < m
      PROVE  Tail(q) = Mids(n + 1, m) /\ q[1] = n + 1
  <2>0. q # <<>> /\ (m - n) - 1 \in Nat /\ q[1] = n + 1
    BY <1>1, <1>2, <1>4, EmptySeq
  <2>1. /\ Tail(q) \in Seq(Nat) /\ Len(Tail(q)) = (m - n) - 1
        /\ \A k \in 1..((m - n) - 1) : Tail(q)[k] = q[k + 1]
    BY <1>2, <2>0, HeadTailProperties
  <2>2. Mids(n + 1, m) \in Seq(Nat) /\ Len(Mids(n + 1, m)) = (m - n) - 1
    <3>1. Mids(n + 1, m) \in [1..((m - n) - 1) -> Nat]
      BY DEF Mids
    <3> QED
      BY <2>0, <3>1, IsASeq, LenProperties
  <2>3. \A k \in 1..((m - n) - 1) : Tail(q)[k] = Mids(n + 1, m)[k]
    BY <1>2, <2>1 DEF Mids
  <2> QED
    BY <2>0, <2>1, <2>2, <2>3, SeqEqual
<1>5. q # <<>> <=> n < m
  BY <1>1, <1>2, EmptySeq
<1>6. Mids(n, n) = <<>>
  BY DEF Mids
<1> QED
  BY <1>3, <1>4, <1>5, <1>6

\* The packets of the messages of QoS 0 that are not written yet.
LEMMA PacketsChange ==
    ASSUME NEW n \in Nat, NEW m \in Nat, n <= m
    PROVE  /\ Append(Packets(n, m), [type |-> "PUBLISH", what |-> m + 1]) = Packets(n, m + 1)
           /\ n < m => /\ Tail(Packets(n, m)) = Packets(n + 1, m)
                       /\ Head(Packets(n, m)) = [type |-> "PUBLISH", what |-> n + 1]
           /\ Packets(n, m) # <<>> <=> n < m
           /\ Packets(n, n) = <<>>
<1> DEFINE q == Packets(n, m)
           p == [type |-> "PUBLISH", what |-> m + 1]
<1>1. m - n \in Nat /\ p \in Packet
  BY DEF Packet
<1>2. /\ q \in Seq(Packet) /\ Len(q) = m - n
      /\ \A k \in 1..(m - n) : q[k] = [type |-> "PUBLISH", what |-> n + k]
  <2>1. q \in [1..(m - n) -> Packet]
    BY DEF Packets, Packet
  <2> QED
    BY <1>1, <2>1, IsASeq, LenProperties DEF Packets
<1>3. Append(q, p) = Packets(n, m + 1)
  <2>1. /\ Append(q, p) \in Seq(Packet) /\ Len(Append(q, p)) = (m - n) + 1
        /\ \A k \in 1..(m - n) : Append(q, p)[k] = q[k]
        /\ Append(q, p)[(m - n) + 1] = p
    BY <1>1, <1>2, AppendProperties
  <2>2. Packets(n, m + 1) \in Seq(Packet) /\ Len(Packets(n, m + 1)) = (m - n) + 1
    <3>1. Packets(n, m + 1) \in [1..((m - n) + 1) -> Packet]
      BY DEF Packets, Packet
    <3> QED
      BY <1>1, <3>1, IsASeq, LenProperties
  <2>3. \A k \in 1..((m - n) + 1) : Append(q, p)[k] = Packets(n, m + 1)[k]
    <3> SUFFICES ASSUME NEW k \in 1..((m - n) + 1)
                 PROVE  Append(q, p)[k] = [type |-> "PUBLISH", what |-> n + k]
      BY DEF Packets
    <3>1. CASE k = (m - n) + 1
      <4>1. n + k = m + 1
        BY <3>1
      <4> QED
        BY <2>1, <3>1, <4>1
    <3>2. CASE k \in 1..(m - n)
      BY <1>2, <2>1, <3>2
    <3>3. k = (m - n) + 1 \/ k \in 1..(m - n)
      BY <1>1, LastOrBefore, Zenon
    <3> QED
      BY <3>1, <3>2, <3>3
  <2> QED
    BY <2>1, <2>2, <2>3, SeqEqual
<1>4. ASSUME n < m
      PROVE  Tail(q) = Packets(n + 1, m) /\ Head(q) = [type |-> "PUBLISH", what |-> n + 1]
  <2>0. q # <<>> /\ (m - n) - 1 \in Nat /\ q[1] = [type |-> "PUBLISH", what |-> n + 1]
    BY <1>1, <1>2, <1>4, EmptySeq
  <2>1. /\ Tail(q) \in Seq(Packet) /\ Len(Tail(q)) = (m - n) - 1 /\ Head(q) = q[1]
        /\ \A k \in 1..((m - n) - 1) : Tail(q)[k] = q[k + 1]
    BY <1>2, <2>0, HeadTailProperties
  <2>2. Packets(n + 1, m) \in Seq(Packet) /\ Len(Packets(n + 1, m)) = (m - n) - 1
    <3>1. Packets(n + 1, m) \in [1..((m - n) - 1) -> Packet]
      BY DEF Packets, Packet
    <3> QED
      BY <2>0, <3>1, IsASeq, LenProperties
  <2>3. \A k \in 1..((m - n) - 1) : Tail(q)[k] = Packets(n + 1, m)[k]
    <3> SUFFICES ASSUME NEW k \in 1..((m - n) - 1)
                 PROVE  q[k + 1] = [type |-> "PUBLISH", what |-> (n + 1) + k]
      BY <2>1 DEF Packets
    <3>1. k + 1 \in 1..(m - n) /\ n + (k + 1) = (n + 1) + k
      BY <2>0
    <3> QED
      BY <1>2, <3>1
  <2> QED
    BY <2>0, <2>1, <2>2, <2>3, SeqEqual
<1>5. q # <<>> <=> n < m
  BY <1>1, <1>2, EmptySeq
<1>6. Packets(n, n) = <<>>
  BY DEF Packets
<1> QED
  BY <1>3, <1>4, <1>5, <1>6


\* There is nothing between a message and itself.
LEMMA NoPackets == ASSUME NEW n \in Nat PROVE Packets(n, n) = <<>> /\ Mids(n, n) = <<>>
  BY DEF Packets, Mids

-----------------------------------------------------------------------------
(* The steps.  Most of them leave most of the fields alone.                *)

SameBut(p, q, F) == IsProg(q) /\ \A f \in ProgFields \ F : q[f] = p[f]

\* A connection that is closed.
LEMMA Lost ==
    ASSUME NEW p, IsProg(p)
    PROVE  /\ SameBut(p, lost(p), {"link", "out", "connected", "thread"})
           /\ lost(p).link = "down" /\ lost(p).out = <<>> /\ lost(p).connected = FALSE
           /\ lost(p).thread = IF ~p.disconnecting THEN p.thread
                              ELSE IF in_thread /\ p.s["use_srv"] THEN "stuck" ELSE "ended"
  BY DEF SameBut, IsProg, ProgFields, lost

\* A client that asks to be disconnected.
LEMMA Disconnecting ==
    ASSUME NEW p, IsProg(p)
    PROVE  /\ SameBut(p, mosquitto_disconnect(p), {"disconnecting", "out"})
           /\ mosquitto_disconnect(p).disconnecting = TRUE
           /\ mosquitto_disconnect(p).out = IF p.link = "down" THEN p.out
                                            ELSE Append(p.out, [type |-> "DISCONNECT", what |-> 0])
  BY DEF SameBut, IsProg, ProgFields, mosquitto_disconnect

\* A message that is published.
LEMMA Published ==
    ASSUME NEW p, IsProg(p), NEW length, wildcard_free, p.link # "down"
    PROVE  /\ SameBut(p, publish(p, length), {"mid_sent", "lines", "unacked", "out"})
           /\ publish(p, length).mid_sent = p.mid_sent + 1
           /\ publish(p, length).lines = Append(p.lines, length)
           /\ publish(p, length).unacked = IF p.s.qos = 0 THEN p.unacked ELSE Append(p.unacked, p.mid_sent + 1)
           /\ publish(p, length).out = Append(p.out, [type |-> "PUBLISH", what |-> p.mid_sent + 1])
  BY DEF SameBut, IsProg, ProgFields, publish

\* Whatever becomes of it, a call to publish changes no more than this.
LEMMA PublishCalled ==
    ASSUME NEW p, IsProg(p), NEW length
    PROVE  SameBut(p, publish(p, length), {"mid_sent", "lines", "unacked", "out", "disconnecting"})
  BY DEF SameBut, IsProg, ProgFields, publish, mosquitto_disconnect

\* The fields that every step of a program that has begun keeps.
Keeps(p, q) ==
    /\ IsProg(q) /\ q.stage # "off" /\ q.program = p.program /\ q.s = p.s
    /\ q.losses \in {p.losses, p.losses + 1}

\* Every step of a program that has begun keeps them.
LEMMA Kept ==
    ASSUME IsProg(prog), prog.stage # "off", ProgNext
    PROVE  Keeps(prog, prog')
<1> USE DEF SameBut, IsProg, ProgFields, Keeps
<1>1. ASSUME NEW works \in BOOLEAN, Connect(works) PROVE Keeps(prog, prog')
  BY <1>1 DEF Connect
<1>2. ASSUME NEW works \in BOOLEAN, Reconnect(works) PROVE Keeps(prog, prog')
  <2> DEFINE l == lost(prog)
  <2>1. SameBut(prog, l, {"link", "out", "connected", "thread"})
    BY Lost
  <2>2. \/ prog' = l
        \/ prog' = [prog EXCEPT !.link = "connecting"]
        \/ prog' = [prog EXCEPT !.losses = @ + 1, !.thread = IF prog.s["use_srv"] THEN "stuck" ELSE @]
    BY <1>2 DEF Reconnect
  <2> HIDE DEF l
  <2> QED
    BY <2>1, <2>2
<1>3. ASSUME NEW works \in BOOLEAN, Connack(works) PROVE Keeps(prog, prog')
  <2> DEFINE up == [prog EXCEPT !.link = "up", !.subs = IF prog.m.clean_session THEN {} ELSE @]
  <2>1. SameBut(prog, up, {"link", "subs"})
    OBVIOUS
  <2>2. CASE ~works
    <3> DEFINE l == lost(prog)
    <3>1. SameBut(prog, l, {"link", "out", "connected", "thread"})
      BY Lost
    <3>2. prog' = [l EXCEPT !.losses = @ + 1]
      BY <1>3, <2>2 DEF Connack
    <3> HIDE DEF l
    <3> QED
      BY <3>1, <3>2
  <2>3. CASE works
    <3>1. prog' = IF prog.program = "sub" THEN sub_connected(up) ELSE pub_connected(up)
      BY <1>3, <2>3 DEF Connack
    <3> HIDE DEF up
    <3>2. SameBut(up, sub_connected(up), {"out"})
      BY <2>1 DEF sub_connected
    <3>3. CASE line_mode
      <4>1. SameBut(up, pub_connected(up), {"out", "status"})
        BY <2>1, <3>3 DEF pub_connected
      <4> QED
        BY <2>1, <3>1, <3>2, <4>1
    <3>4. CASE ~line_mode
      <4>1. SameBut(up, pub_connected(up), {"mid_sent", "lines", "unacked", "out", "disconnecting"})
        BY <2>1, <3>4, PublishCalled DEF pub_connected
      <4> QED
        BY <2>1, <3>1, <3>2, <4>1
    <3> QED
      BY <3>3, <3>4
  <2> QED
    BY <2>2, <2>3
<1>4. ASSUME NEW answer \in {"found", "failed", "late"}, SrvReply(answer) PROVE Keeps(prog, prog')
  BY <1>4 DEF SrvReply
<1>5. ASSUME NEW message \in Messages, Receive(message) PROVE Keeps(prog, prog')
  BY <1>5 DEF Receive
<1>6. CASE Write
  <2> DEFINE written == [prog EXCEPT !.out = Tail(@)]
  <2>1. SameBut(prog, written, {"out"})
    OBVIOUS
  <2>2. \/ prog' = lost(written)
        \/ prog' = [written EXCEPT !.subs = @ \cup {Head(prog.out).what}]
        \/ prog' = written
        \/ prog' = [written EXCEPT !.callback = Head(prog.out).what, !.last_mid_sent = Head(prog.out).what,
                                   !.reported = @ \cup {Head(prog.out).what}]
    BY <1>6 DEF Write
  <2>3. SameBut(written, lost(written), {"link", "out", "connected", "thread"})
    BY <2>1, Lost
  <2> HIDE DEF written
  <2> QED
    BY <2>1, <2>2, <2>3
<1>7. CASE Acknowledged
  BY <1>7 DEF Acknowledged
<1>8. CASE my_publish_callback
  <2> DEFINE d == [prog EXCEPT !.callback = 0]
  <2>1. SameBut(prog, d, {"callback"})
    OBVIOUS
  <2>2. prog' = d \/ prog' = [mosquitto_disconnect(d) EXCEPT !.disconnect_sent = TRUE]
    BY <1>8 DEF my_publish_callback
  <2>3. SameBut(d, mosquitto_disconnect(d), {"disconnecting", "out"})
    BY <2>1, Disconnecting
  <2> HIDE DEF d
  <2> QED
    BY <2>1, <2>2, <2>3
<1>9. CASE LoseLink
  <2> DEFINE l == lost(prog)
  <2>1. SameBut(prog, l, {"link", "out", "connected", "thread"})
    BY Lost
  <2>2. prog' = [l EXCEPT !.losses = @ + 1]
    BY <1>9 DEF LoseLink
  <2> HIDE DEF l
  <2> QED
    BY <2>1, <2>2
<1>10. CASE ReadLine
  BY <1>10, PublishCalled DEF ReadLine
<1>11. CASE Wait
  BY <1>11 DEF Wait
<1>12. CASE Disconnect
  <2> DEFINE d == mosquitto_disconnect(prog)
  <2>1. SameBut(prog, d, {"disconnecting", "out"})
    BY Disconnecting
  <2>2. prog' = [d EXCEPT !.disconnect_sent = TRUE, !.stage = "check"]
    BY <1>12 DEF Disconnect
  <2> HIDE DEF d
  <2> QED
    BY <2>1, <2>2
<1>13. CASE Check
  BY <1>13 DEF Check
<1>14. CASE Idle
  BY <1>14 DEF Idle
<1>15. CASE Leave
  BY <1>15 DEF Leave
<1> QED
  BY <1>1, <1>2, <1>3, <1>4, <1>5, <1>6, <1>7, <1>8, <1>9, <1>10, <1>11, <1>12, <1>13, <1>14, <1>15
     DEF ProgNext

\* A step that does not touch the messages leaves them in turn.
LEMMA TurnKept ==
    ASSUME NEW p, NEW q, InTurn(p),
           SameBut(p, q, {"stage", "program", "args", "m", "rc", "thread", "status", "last_mid", "connected",
                          "disconnect_sent", "subs", "heard", "printed", "losses"})
    PROVE  InTurn(q)
  BY DEF SameBut, ProgFields, InTurn, done

\* The scope depends on the command line and the connections that were lost.
LEMMA ScopeKept ==
    ASSUME NEW p, NEW q, p.losses \in Nat, q.losses \in Nat, q.losses >= p.losses, q.s = p.s, in_scope(q)
    PROVE  in_scope(p) /\ (reads_lines(q) <=> reads_lines(p)) /\ (reads_lines(p) => q.losses = 0 /\ p.losses = 0)
  BY DEF in_scope, publishes, reads_lines

\* A client that has sent everything may ask to be disconnected.
LEMMA TurnDisconnecting ==
    ASSUME NEW p, IsProg(p), InTurn(p), done(p) = p.mid_sent, p.input = <<>>
    PROVE  InTurn(mosquitto_disconnect(p))
<1> DEFINE q == mosquitto_disconnect(p)
           packet == [type |-> "DISCONNECT", what |-> 0]
<1>1. /\ SameBut(p, q, {"disconnecting", "out"}) /\ q.disconnecting = TRUE
      /\ q.out = IF p.link = "down" THEN p.out ELSE Append(p.out, packet)
  BY Disconnecting
<1>2. packet \in Packet /\ packet.type = "DISCONNECT"
  BY DEF Packet
<1>3. p.out \in Seq(Packet) /\ done(p) \in Nat
  BY DEF InTurn, done
<1>4. q.out \in Seq(Packet)
  <2> HIDE DEF q, packet
  <2> QED
    BY <1>1, <1>2, <1>3, AppendProperties
<1>5. p.s.qos = 0 /\ p.link # "down" => \A k \in DOMAIN q.out : q.out[k].type = "DISCONNECT"
  <2> SUFFICES ASSUME p.s.qos = 0, p.link # "down" PROVE \A k \in DOMAIN q.out : q.out[k].type = "DISCONNECT"
    OBVIOUS
  <2> HIDE DEF q, packet
  <2>1. \A k \in DOMAIN p.out : p.out[k].type = "DISCONNECT"
    <3>1. CASE p.disconnecting
      BY <3>1 DEF InTurn
    <3>2. CASE ~p.disconnecting
      <4>1. p.out = Packets(done(p), done(p))
        BY <3>2 DEF InTurn
      <4>2. p.out = <<>>
        BY <1>3, <4>1, NoPackets, Zenon
      <4> QED
        BY <4>2
    <3> QED
      BY <3>1, <3>2
  <2>2. q.out = Append(p.out, packet)
    BY <1>1
  <2>3. /\ Len(p.out) \in Nat /\ DOMAIN p.out = 1..Len(p.out) /\ DOMAIN q.out = 1..(Len(p.out) + 1)
        /\ \A k \in 1..Len(p.out) : q.out[k] = p.out[k]
        /\ q.out[Len(p.out) + 1] = packet
    BY <1>2, <1>3, <2>2, AppendProperties, LenProperties
  <2> TAKE k \in DOMAIN q.out
  <2>4. k = Len(p.out) + 1 \/ k \in 1..Len(p.out)
    BY <2>3, LastOrBefore, Zenon
  <2> QED
    BY <1>2, <2>1, <2>3, <2>4
<1> QED
  <2> HIDE DEF q, packet
  <2>1. q \in {q} /\ q.s = p.s /\ q.mid_sent = p.mid_sent /\ q.lines = p.lines /\ q.reported = p.reported
        /\ q.last_mid_sent = p.last_mid_sent /\ q.callback = p.callback /\ q.unacked = p.unacked
        /\ q.link = p.link /\ q.input = p.input
    BY <1>1 DEF SameBut, ProgFields
  <2>2. done(q) = done(p) /\ q.disconnecting = TRUE
    BY <1>1, <2>1 DEF done
  <2>3. q.s.qos = 0 /\ q.link # "down" =>
          IF q.disconnecting THEN \A k \in DOMAIN q.out : q.out[k].type = "DISCONNECT"
                             ELSE q.out = Packets(done(q), q.mid_sent)
    BY <1>5, <2>1, <2>2
  <2>4. /\ q.last_mid_sent \in {-1} \cup (Nat \ {0}) /\ q.mid_sent \in Nat /\ done(q) <= q.mid_sent
        /\ Listed(q.lines) /\ q.mid_sent = Len(q.lines)
        /\ q.reported = 1..done(q)
        /\ q.callback # 0 => q.callback = done(q)
        /\ q.unacked = IF q.s.qos = 0 THEN <<>> ELSE Mids(done(q), q.mid_sent)
    BY <2>1, <2>2 DEF InTurn
  <2>5. q.disconnecting => done(q) = q.mid_sent /\ q.input = <<>>
    BY <2>1, <2>2
  <2>6. InTurn(q)
    BY <1>4, <2>2, <2>3, <2>4, <2>5 DEF InTurn
  <2> QED
    BY <2>6 DEF q

\* The rest of my_publish_callback.
LEMMA CallbackSteps ==
    ASSUME IsProg(prog), PubInv(prog), prog.stage # "off", my_publish_callback
    PROVE  PubInv(prog')
<1> DEFINE d == [prog EXCEPT !.callback = 0]
           last == IF line_mode THEN prog.callback = prog.last_mid ELSE ~prog.disconnect_sent
<1>1. /\ prog.thread = "runs" /\ prog.callback # 0
      /\ prog' = IF last THEN [mosquitto_disconnect(d) EXCEPT !.disconnect_sent = TRUE] ELSE d
  BY DEF my_publish_callback
<1>2. SameBut(prog, d, {"callback"}) /\ d.callback = 0 /\ IsProg(d)
  BY DEF SameBut, IsProg, ProgFields
<1>3. prog.losses \in Nat /\ prog.s.qos \in 0..2 /\ RunningProg(prog)
  BY <1>1 DEF PubInv, Begun
<1>4. CASE ~last
  <2>1. prog' = d
    BY <1>1, <1>4
  <2>2. ASSUME in_scope(prog') PROVE Sent(prog')
    <3>1. in_scope(prog)
      BY <2>1, <2>2, <1>2 DEF in_scope, publishes, reads_lines, SameBut, ProgFields
    <3> QED
      BY <1>2, <1>3, <2>1, <3>1 DEF RunningProg, Sent, InTurn, LinesInTurn, OneMessage, SameBut, ProgFields, done, reads_lines
  <2> QED
    BY <1>2, <1>3, <2>1, <2>2 DEF PubInv, RunningProg, SameBut, ProgFields
<1>5. CASE last
  <2> DEFINE e == mosquitto_disconnect(d)
  <2>1. SameBut(d, e, {"disconnecting", "out"}) /\ e.disconnecting = TRUE
    BY <1>2, Disconnecting
  <2>2. prog' = [e EXCEPT !.disconnect_sent = TRUE]
    BY <1>1, <1>5
  <2> HIDE DEF d, e
  <2>3. SameBut(e, prog', {"disconnect_sent"})
    BY <2>1, <2>2 DEF SameBut, IsProg, ProgFields
  <2>4. ASSUME in_scope(prog') PROVE Sent(prog')
    <3>1. in_scope(prog)
      BY <1>2, <2>1, <2>3, <2>4 DEF in_scope, publishes, reads_lines, SameBut, ProgFields
    <3>2. InTurn(d)
      BY <1>2, <1>3, <3>1 DEF RunningProg, Sent, InTurn, SameBut, ProgFields, done
    <3>3. done(d) = d.mid_sent /\ d.input = <<>> /\ (line_mode => d.status = "STATUS_WAITING")
      <4>1. prog.callback = done(prog) /\ prog.callback \in Nat /\ prog.mid_sent \in Nat /\ done(prog) <= prog.mid_sent
        BY <1>1, <1>3, <3>1 DEF RunningProg, Sent, InTurn, done
      <4>2. CASE line_mode
        BY <1>1, <1>2, <1>3, <1>5, <3>1, <4>1, <4>2 DEF RunningProg, Sent, LinesInTurn, SameBut, ProgFields, done, reads_lines, line_mode
      <4>3. CASE ~line_mode
        BY <1>1, <1>2, <1>3, <1>5, <3>1, <4>1, <4>3 DEF RunningProg, Sent, OneMessage, SameBut, ProgFields, done, reads_lines, line_mode
      <4> QED
        BY <4>2, <4>3
    <3>4. InTurn(e)
      BY <1>2, <3>2, <3>3, TurnDisconnecting DEF e
    <3>5. InTurn(prog')
      BY <2>3, <3>4, TurnKept DEF SameBut
    <3>6. CASE line_mode
      <4>1. LinesInTurn(prog) /\ reads_lines(prog')
        BY <1>2, <1>3, <2>1, <2>3, <3>1, <3>6 DEF RunningProg, Sent, SameBut, ProgFields, reads_lines, line_mode
      <4>2. LinesInTurn(prog')
        BY <1>2, <2>1, <2>3, <3>3, <3>6, <4>1 DEF LinesInTurn, SameBut, ProgFields
      <4> QED
        BY <3>5, <4>1, <4>2 DEF Sent
    <3>7. CASE ~line_mode
      <4>1. OneMessage(prog) /\ ~reads_lines(prog')
        BY <1>2, <1>3, <2>1, <2>3, <3>1, <3>7 DEF RunningProg, Sent, SameBut, ProgFields, reads_lines, line_mode
      <4>2. prog.link # "connecting"
        BY <1>1, <1>3, <3>1, <4>1 DEF OneMessage, RunningProg, Sent, InTurn, done
      <4>3. OneMessage(prog')
        BY <1>2, <2>1, <2>3, <3>7, <4>1, <4>2 DEF OneMessage, SameBut, ProgFields
      <4> QED
        BY <3>5, <4>1, <4>3 DEF Sent
    <3> QED
      BY <3>6, <3>7
  <2> QED
    BY <1>2, <1>3, <2>1, <2>3, <2>4 DEF PubInv, RunningProg, SameBut, ProgFields
<1> QED
  BY <1>4, <1>5

\* A message that is published while there is a connection is the last in turn.
LEMMA TurnPublished ==
    ASSUME NEW p, IsProg(p), InTurn(p), NEW length, wildcard_free, p.link # "down", ~p.disconnecting
    PROVE  InTurn(publish(p, length)) /\ publish(p, length).mid_sent = p.mid_sent + 1
<1> DEFINE q == publish(p, length)
           packet == [type |-> "PUBLISH", what |-> p.mid_sent + 1]
<1>1. /\ SameBut(p, q, {"mid_sent", "lines", "unacked", "out"})
      /\ q.mid_sent = p.mid_sent + 1
      /\ q.lines = Append(p.lines, length)
      /\ q.unacked = IF p.s.qos = 0 THEN p.unacked ELSE Append(p.unacked, p.mid_sent + 1)
      /\ q.out = Append(p.out, packet)
  BY Published
<1>2. p.mid_sent \in Nat /\ done(p) \in Nat /\ done(p) <= p.mid_sent /\ p.mid_sent + 1 \in Nat
  BY DEF InTurn, done
<1>3. packet \in Packet
  BY <1>2 DEF Packet
<1> HIDE DEF q
<1>4. /\ q.last_mid_sent = p.last_mid_sent /\ q.reported = p.reported /\ q.callback = p.callback
      /\ q.link = p.link /\ q.input = p.input /\ q.s = p.s /\ q.disconnecting = p.disconnecting
      /\ done(q) = done(p)
  BY <1>1 DEF SameBut, ProgFields, done
<1>5. Listed(q.lines) /\ q.mid_sent = Len(q.lines)
  <2>1. Listed(p.lines) /\ p.mid_sent = Len(p.lines)
    BY DEF InTurn
  <2>2. Listed(Append(p.lines, length)) /\ Len(Append(p.lines, length)) = Len(p.lines) + 1
    BY <2>1, ListedAppend
  <2> QED
    BY <1>1, <2>1, <2>2, Zenon
<1>6. q.unacked = IF q.s.qos = 0 THEN <<>> ELSE Mids(done(q), q.mid_sent)
  <2>1. p.unacked = IF p.s.qos = 0 THEN <<>> ELSE Mids(done(p), p.mid_sent)
    BY DEF InTurn
  <2>2. Append(Mids(done(p), p.mid_sent), p.mid_sent + 1) = Mids(done(p), p.mid_sent + 1)
    BY <1>2, MidsChange, Zenon
  <2>3. CASE p.s.qos = 0
    BY <1>1, <1>4, <2>1, <2>3, Zenon
  <2>4. CASE p.s.qos # 0
    BY <1>1, <1>4, <2>1, <2>2, <2>4, Zenon
  <2> QED
    BY <2>3, <2>4
<1>7. q.out \in Seq(Packet)
  <2>1. p.out \in Seq(Packet)
    BY DEF InTurn
  <2> HIDE DEF packet
  <2> QED
    BY <1>1, <1>3, <2>1, AppendProperties
<1>8. q.s.qos = 0 /\ q.link # "down" =>
        IF q.disconnecting THEN \A k \in DOMAIN q.out : q.out[k].type = "DISCONNECT"
                           ELSE q.out = Packets(done(q), q.mid_sent)
  <2> SUFFICES ASSUME p.s.qos = 0 PROVE q.out = Packets(done(q), q.mid_sent)
    BY <1>4
  <2>1. p.out = Packets(done(p), p.mid_sent)
    BY DEF InTurn
  <2>2. Append(Packets(done(p), p.mid_sent), packet) = Packets(done(p), p.mid_sent + 1)
    BY <1>2, PacketsChange, Zenon
  <2> QED
    BY <1>1, <1>4, <2>1, <2>2, Zenon
<1>9. /\ q.last_mid_sent \in {-1} \cup (Nat \ {0}) /\ q.mid_sent \in Nat /\ done(q) <= q.mid_sent
      /\ q.reported = 1..done(q) /\ (q.callback # 0 => q.callback = done(q)) /\ ~q.disconnecting
  <2>1. /\ p.last_mid_sent \in {-1} \cup (Nat \ {0}) /\ p.reported = 1..done(p)
        /\ p.callback # 0 => p.callback = done(p)
    BY DEF InTurn
  <2> QED
    BY <1>1, <1>2, <1>4, <2>1
<1>10. \A k \in DOMAIN q.out : q.out[k].type = "PUBLISH"
  <2>1. p.out \in Seq(Packet) /\ packet.type = "PUBLISH" /\ \A k \in DOMAIN p.out : p.out[k].type = "PUBLISH"
    BY DEF InTurn
  <2> HIDE DEF packet
  <2>2. /\ Len(p.out) \in Nat /\ DOMAIN p.out = 1..Len(p.out) /\ DOMAIN q.out = 1..(Len(p.out) + 1)
        /\ \A k \in 1..Len(p.out) : q.out[k] = p.out[k]
        /\ q.out[Len(p.out) + 1] = packet
    BY <1>1, <1>3, <2>1, AppendProperties, LenProperties
  <2> TAKE k \in DOMAIN q.out
  <2>3. k = Len(p.out) + 1 \/ k \in 1..Len(p.out)
    BY <2>2, LastOrBefore, Zenon
  <2> QED
    BY <2>1, <2>2, <2>3
<1>11. InTurn(q)
  BY <1>5, <1>6, <1>7, <1>8, <1>9, <1>10 DEF InTurn
<1> QED
  BY <1>1, <1>11 DEF q

\* Where a program that is in scope has been in scope, and what it takes to stay.
LEMMA RunningNext ==
    ASSUME IsProg(prog), prog.stage # "off", ProgNext, PubInv(prog),
           prog.s.qos \in 0..2, prog'.stage \notin {"connect", "srv"}, prog'.thread # "none",
           in_scope(prog) /\ in_scope(prog') => Sent(prog')
    PROVE  PubInv(prog')
<1>1. Keeps(prog, prog')
  BY Kept
<1>2. prog.losses \in Nat /\ prog'.losses \in Nat /\ prog'.losses >= prog.losses
  BY <1>1 DEF Keeps, PubInv
<1>3. in_scope(prog') => in_scope(prog)
  BY <1>1, <1>2, ScopeKept DEF Keeps
<1>4. RunningProg(prog')
  BY <1>1, <1>3 DEF RunningProg, Keeps
<1> QED
  BY <1>1, <1>2, <1>4 DEF PubInv, Keeps

\* Without a connection there is nothing queued.
LEMMA TurnDown ==
    ASSUME NEW p, NEW q, InTurn(p), SameBut(p, q, {"link", "out", "connected", "thread", "losses"}),
           q.link = "down", q.out = <<>>
    PROVE  InTurn(q)
<1>1. /\ q.last_mid_sent = p.last_mid_sent /\ q.reported = p.reported /\ q.callback = p.callback
      /\ q.mid_sent = p.mid_sent /\ q.lines = p.lines /\ q.unacked = p.unacked /\ q.input = p.input
      /\ q.s = p.s /\ q.disconnecting = p.disconnecting /\ done(q) = done(p)
  BY DEF SameBut, ProgFields, done
<1>2. q.out \in Seq(Packet) /\ DOMAIN q.out = {}
  BY EmptySeq
<1> QED
  BY <1>1, <1>2 DEF InTurn

\* The loop of a program that has set up its client begins.
LEMMA BeginsToRun ==
    ASSUME NEW p, NEW q, Begun(p), SameBut(p, q, {"stage", "thread", "link", "m"}),
           q.stage = "loop", q.thread = "runs", q.link = "connecting"
    PROVE  Sent(q)
<1>1. /\ q.out = <<>> /\ q.unacked = <<>> /\ q.callback = 0 /\ ~q.disconnecting
      /\ q.status = "STATUS_CONNECTING" /\ q.mid_sent = 0 /\ q.last_mid = -1 /\ q.last_mid_sent = -1
      /\ q.lines = <<>> /\ q.reported = {} /\ (~reads_lines(q) => q.input = <<>>) /\ q.s = p.s
  BY DEF Begun, SameBut, ProgFields, reads_lines
<1>2. done(q) = 0 /\ Listed(<<>>) /\ Len(<<>>) = 0 /\ Mids(0, 0) = <<>> /\ Packets(0, 0) = <<>>
      /\ <<>> \in Seq(Packet) /\ DOMAIN <<>> = {} /\ 1..0 = {}
  BY <1>1, ListedEmpty, NoPackets, EmptySeq DEF done
<1>3. InTurn(q)
  BY <1>1, <1>2 DEF InTurn
<1>4. reads_lines(q) => LinesInTurn(q)
  BY <1>1 DEF LinesInTurn
<1>5. ~reads_lines(q) => OneMessage(q)
  BY <1>1 DEF OneMessage
<1> QED
  BY <1>3, <1>4, <1>5 DEF Sent

\* The connection is made, or not.
LEMMA ConnectSteps ==
    ASSUME IsProg(prog), PubInv(prog), prog.program = "pub",
           \/ \E works \in BOOLEAN : Connect(works)
           \/ \E answer \in {"found", "failed", "late"} : SrvReply(answer)
    PROVE  PubInv(prog')
<1>1. Begun(prog) /\ prog.losses \in Nat /\ prog.s.qos \in 0..2
  BY DEF PubInv, RunningProg, Connect, SrvReply
<1>2. \/ prog' = [prog EXCEPT !.stage = "ended", !.rc = FALSE]
      \/ prog' = [prog EXCEPT !.stage = "loop", !.thread = "runs", !.link = "connecting"]
      \/ prog' = [prog EXCEPT !.stage = "loop", !.thread = "runs", !.link = "connecting",
                              !.m.host = "reply", !.m.port = 1]
  BY DEF Connect, SrvReply
<1>3. CASE prog' = [prog EXCEPT !.stage = "ended", !.rc = FALSE]
  BY <1>1, <1>3 DEF IsProg, ProgFields, PubInv, Begun
<1>4. CASE prog' # [prog EXCEPT !.stage = "ended", !.rc = FALSE]
  <2>1. /\ SameBut(prog, prog', {"stage", "thread", "link", "m"})
        /\ prog'.stage = "loop" /\ prog'.thread = "runs" /\ prog'.link = "connecting"
    BY <1>2, <1>4, ZenonT(40) DEF SameBut, IsProg, ProgFields
  <2>2. Sent(prog')
    BY <1>1, <2>1, BeginsToRun
  <2>3. prog'.losses = prog.losses /\ prog'.s = prog.s
    BY <2>1 DEF SameBut, ProgFields
  <2> QED
    BY <1>1, <2>1, <2>2, <2>3 DEF PubInv, RunningProg
<1> QED
  BY <1>3, <1>4

\* The connection is lost or refused, or made again: with lines, in scope, only after
\* the program was told to disconnect.
LEMMA LossSteps ==
    ASSUME IsProg(prog), PubInv(prog), prog.program = "pub", prog.stage # "off", ProgNext,
           \/ \E works \in BOOLEAN : Reconnect(works)
           \/ Connack(FALSE)
           \/ LoseLink
    PROVE  PubInv(prog')
<1> DEFINE l == lost(prog)
<1>1. /\ SameBut(prog, l, {"link", "out", "connected", "thread"})
      /\ l.link = "down" /\ l.out = <<>>
      /\ l.thread = IF ~prog.disconnecting THEN prog.thread
                    ELSE IF in_thread /\ prog.s["use_srv"] THEN "stuck" ELSE "ended"
  BY Lost
<1>2. prog.thread = "runs" /\ prog.losses \in Nat /\ prog.s.qos \in 0..2 /\ RunningProg(prog)
  BY DEF Reconnect, Connack, LoseLink, PubInv, Begun
<1>3. CASE prog' = [l EXCEPT !.losses = @ + 1]
  <2> HIDE DEF l
  <2>1. SameBut(prog, prog', {"link", "out", "connected", "thread", "losses"}) /\ prog'.losses = prog.losses + 1
        /\ prog'.link = "down" /\ prog'.out = <<>> /\ prog'.thread # "none"
    BY <1>1, <1>2, <1>3 DEF SameBut, IsProg, ProgFields
  <2>2. ASSUME in_scope(prog), in_scope(prog') PROVE Sent(prog')
    <3>1. ~reads_lines(prog') /\ ~reads_lines(prog)
      BY <1>2, <2>1, <2>2 DEF in_scope, reads_lines, SameBut, ProgFields
    <3>2. InTurn(prog) /\ OneMessage(prog)
      BY <1>2, <2>2, <3>1 DEF RunningProg, Sent
    <3>3. InTurn(prog')
      BY <2>1, <3>2, TurnDown
    <3>4. OneMessage(prog')
      BY <2>1, <3>2 DEF OneMessage, SameBut, ProgFields
    <3> QED
      BY <3>1, <3>3, <3>4 DEF Sent
  <2>3. prog'.stage \notin {"connect", "srv"}
    BY <1>2, <2>1 DEF RunningProg, SameBut, ProgFields
  <2> QED
    BY <1>2, <2>1, <2>2, <2>3, RunningNext
<1>4. ASSUME NEW works \in BOOLEAN, Reconnect(works)
      PROVE  PubInv(prog')
  <2>1. /\ line_mode /\ prog.link = "down"
        /\ \/ prog' = l /\ prog.disconnecting
           \/ /\ ~prog.disconnecting
              /\ \/ prog' = [prog EXCEPT !.link = "connecting"]
                 \/ prog' = [prog EXCEPT !.losses = @ + 1, !.thread = IF prog.s["use_srv"] THEN "stuck" ELSE @]
    BY <1>4 DEF Reconnect, in_thread
  <2> HIDE DEF l
  <2>2. ASSUME in_scope(prog), in_scope(prog') PROVE Sent(prog')
    <3>1. InTurn(prog) /\ LinesInTurn(prog) /\ reads_lines(prog)
      BY <1>2, <2>1, <2>2 DEF RunningProg, Sent, reads_lines, line_mode
    <3>2. prog' = l
      BY <2>1, <3>1 DEF LinesInTurn
    <3>3. InTurn(prog')
      <4>1. SameBut(prog, prog', {"link", "out", "connected", "thread", "losses"})
        BY <1>1, <3>2 DEF SameBut
      <4> QED
        BY <1>1, <3>1, <3>2, <4>1, TurnDown
    <3>4. LinesInTurn(prog') /\ reads_lines(prog')
      BY <1>1, <2>1, <3>1, <3>2 DEF LinesInTurn, reads_lines, SameBut, ProgFields
    <3> QED
      BY <3>3, <3>4 DEF Sent
  <2>3. prog'.stage \notin {"connect", "srv"} /\ prog'.thread # "none"
    <3>1. prog.stage \notin {"connect", "srv"}
      BY <1>2 DEF RunningProg
    <3>2. CASE prog' = l
      BY <1>1, <1>2, <3>1, <3>2 DEF SameBut, ProgFields
    <3>3. CASE prog' # l
      BY <1>2, <2>1, <3>1, <3>3 DEF IsProg, ProgFields
    <3> QED
      BY <3>2, <3>3
  <2> QED
    BY <1>2, <2>2, <2>3, RunningNext
<1>5. CASE Connack(FALSE) \/ LoseLink
  <2>1. prog' = [l EXCEPT !.losses = @ + 1]
    BY <1>5 DEF Connack, LoseLink
  <2> QED
    BY <1>3, <2>1
<1> QED
  BY <1>4, <1>5

\* The broker accepts: the one message is published, or lines may be read.
LEMMA ConnackSteps ==
    ASSUME IsProg(prog), PubInv(prog), prog.program = "pub", prog.stage # "off", ProgNext, Connack(TRUE)
    PROVE  PubInv(prog')
<1> DEFINE up == [prog EXCEPT !.link = "up", !.subs = IF prog.m.clean_session THEN {} ELSE @]
           queued == {up.out[k].what : k \in DOMAIN up.out}
           old == {k \in DOMAIN up.unacked : up.unacked[k] \notin queued}
           again == [k \in 1..Cardinality(old) |-> [type |-> "PUBLISH", what |-> up.unacked[k]]]
<1>1. /\ SameBut(prog, up, {"link", "subs"}) /\ up.link = "up" /\ IsProg(up)
      /\ up.out = prog.out /\ up.unacked = prog.unacked
  BY DEF SameBut, IsProg, ProgFields
<1>2. /\ prog.thread = "runs" /\ prog.link = "connecting" /\ prog.callback = 0
      /\ prog' = pub_connected(up)
  BY DEF Connack
<1>3. prog.losses \in Nat /\ prog.s.qos \in 0..2 /\ RunningProg(prog)
  BY <1>2 DEF PubInv, Begun
<1>4. CASE line_mode
  <2>1. prog' = [up EXCEPT !.out = @ \o again, !.status = "STATUS_CONNACK_RECVD"]
    <3>1. pub_connected(up) = [[up EXCEPT !.out = @ \o again] EXCEPT !.status = "STATUS_CONNACK_RECVD"]
      BY <1>4 DEF pub_connected
    <3> HIDE DEF again, up
    <3> QED
      BY <1>1, <1>2, <3>1 DEF IsProg, ProgFields
  <2>2. /\ SameBut(prog, prog', {"link", "subs", "out", "status"})
        /\ prog'.link = "up" /\ prog'.out = prog.out \o again /\ prog'.status = "STATUS_CONNACK_RECVD"
    <3> HIDE DEF again, up
    <3> QED
      BY <1>1, <2>1 DEF SameBut, IsProg, ProgFields
  <2>3. ASSUME in_scope(prog), in_scope(prog') PROVE Sent(prog')
    <3>1. InTurn(prog) /\ LinesInTurn(prog) /\ reads_lines(prog) /\ reads_lines(prog')
      BY <1>3, <1>4, <2>2, <2>3 DEF RunningProg, Sent, reads_lines, line_mode, SameBut, ProgFields
    <3>2. prog.mid_sent = 0 /\ done(prog) = 0 /\ ~prog.disconnecting /\ prog.last_mid = -1
      BY <1>2, <3>1 DEF InTurn, LinesInTurn, done
    <3>3. prog.unacked = <<>>
      BY <3>1, <3>2, NoPackets DEF InTurn
    <3>4. again = <<>>
      <4> HIDE DEF queued
      <4>1. old = {}
        BY <1>1, <3>3
      <4> HIDE DEF old
      <4>2. Cardinality(old) = 0
        BY <4>1, FS_EmptySet, Zenon
      <4> QED
        BY <4>2
    <3>5. prog'.out = prog.out
      <4> HIDE DEF again
      <4>1. prog.out \in Seq(Packet)
        BY <3>1 DEF InTurn
      <4> QED
        BY <2>2, <3>4, <4>1, ConcatEmptySeq
    <3>6. InTurn(prog')
      <4>1. /\ prog'.last_mid_sent = prog.last_mid_sent /\ prog'.mid_sent = prog.mid_sent
            /\ prog'.lines = prog.lines /\ prog'.reported = prog.reported /\ prog'.callback = prog.callback
            /\ prog'.unacked = prog.unacked /\ prog'.input = prog.input /\ prog'.s = prog.s
            /\ prog'.disconnecting = prog.disconnecting /\ done(prog') = done(prog)
        BY <2>2 DEF SameBut, ProgFields, done
      <4>2. prog.link # "down" /\ prog'.link # "down"
        BY <1>2, <2>2
      <4> QED
        BY <3>1, <3>5, <4>1, <4>2 DEF InTurn
    <3>7. LinesInTurn(prog')
      BY <1>2, <2>2, <3>1, <3>2, SMTT(30) DEF LinesInTurn, SameBut, ProgFields
    <3> QED
      BY <3>1, <3>6, <3>7 DEF Sent
  <2>4. prog'.stage \notin {"connect", "srv"} /\ prog'.thread # "none"
    BY <1>2, <1>3, <2>2 DEF RunningProg, SameBut, ProgFields
  <2> QED
    BY <1>3, <2>3, <2>4, RunningNext
<1>5. CASE ~line_mode
  <2>1. prog' = publish(up, up.s.msglen)
    BY <1>2, <1>5 DEF pub_connected
  <2>2. SameBut(up, prog', {"mid_sent", "lines", "unacked", "out", "disconnecting"})
    BY <1>1, <2>1, PublishCalled
  <2> HIDE DEF up
  <2>3. ASSUME in_scope(prog), in_scope(prog') PROVE Sent(prog')
    <3>1. InTurn(prog) /\ OneMessage(prog) /\ ~reads_lines(prog) /\ ~reads_lines(prog') /\ wildcard_free
      BY <1>1, <1>3, <1>5, <2>2, <2>3
         DEF in_scope, publishes, wildcard_free, RunningProg, Sent, reads_lines, line_mode, SameBut, ProgFields
    <3>2. prog.mid_sent = 0 /\ ~prog.disconnecting /\ done(prog) = 0
      BY <1>2, <3>1 DEF OneMessage, InTurn, done
    <3>3. InTurn(up)
      BY <1>1, <1>2, <3>1, <3>2 DEF InTurn, SameBut, ProgFields, done
    <3>4. up.link # "down" /\ ~up.disconnecting /\ up.mid_sent = 0
      BY <1>1, <3>2 DEF SameBut, ProgFields
    <3>5. InTurn(prog') /\ prog'.mid_sent = up.mid_sent + 1
      BY <1>1, <2>1, <3>1, <3>3, <3>4, TurnPublished
    <3>6. SameBut(up, prog', {"mid_sent", "lines", "unacked", "out"})
      BY <1>1, <2>1, <3>1, <3>4, Published
    <3>7. OneMessage(prog')
      BY <1>1, <1>2, <3>1, <3>4, <3>5, <3>6 DEF OneMessage, SameBut, ProgFields
    <3> QED
      BY <3>1, <3>5, <3>7 DEF Sent
  <2>4. prog'.stage \notin {"connect", "srv"} /\ prog'.thread # "none"
    BY <1>1, <1>2, <1>3, <2>2 DEF RunningProg, SameBut, ProgFields
  <2> QED
    BY <1>3, <2>3, <2>4, RunningNext
<1> QED
  BY <1>4, <1>5

\* A packet is written; of QoS 0 the message is the next in turn.
LEMMA WriteSteps ==
    ASSUME IsProg(prog), PubInv(prog), prog.program = "pub", prog.stage # "off", ProgNext, Write
    PROVE  PubInv(prog')
<1> DEFINE packet == Head(prog.out)
           written == [prog EXCEPT !.out = Tail(@)]
<1>1. SameBut(prog, written, {"out"}) /\ IsProg(written) /\ written.out = Tail(prog.out)
  BY DEF SameBut, IsProg, ProgFields
<1>2. /\ prog.thread = "runs" /\ prog.link # "down" /\ prog.out # <<>> /\ prog.callback = 0
      /\ prog' = CASE packet.type = "DISCONNECT" -> lost(written)
                   [] packet.type = "SUBSCRIBE" -> [written EXCEPT !.subs = @ \cup {packet.what}]
                   [] OTHER -> IF prog.s.qos > 0 THEN written
                               ELSE [written EXCEPT !.callback = packet.what, !.last_mid_sent = packet.what,
                                                    !.reported = @ \cup {packet.what}]
  BY DEF Write
<1>3. prog.losses \in Nat /\ prog.s.qos \in 0..2 /\ RunningProg(prog)
  BY <1>2 DEF PubInv, Begun
<1>4. /\ SameBut(written, lost(written), {"link", "out", "connected", "thread"})
      /\ lost(written).link = "down" /\ lost(written).out = <<>> /\ lost(written).thread # "none"
  <2>1. written.thread # "none"
    BY <1>1, <1>2 DEF SameBut, ProgFields
  <2> QED
    BY <1>1, <2>1, Lost
<1>5. prog'.stage \notin {"connect", "srv"} /\ prog'.thread # "none"
  <2>1. prog.stage \notin {"connect", "srv"}
    BY <1>3 DEF RunningProg
  <2>2. prog' = lost(written) \/ SameBut(written, prog', {"subs", "callback", "last_mid_sent", "reported"})
    <3> HIDE DEF written
    <3> QED
      BY <1>1, <1>2 DEF SameBut, IsProg, ProgFields
  <2> HIDE DEF written
  <2> QED
    BY <1>1, <1>2, <1>4, <2>1, <2>2 DEF SameBut, ProgFields
<1>6. ASSUME in_scope(prog), in_scope(prog') PROVE Sent(prog')
  <2>1. InTurn(prog) /\ (reads_lines(prog) => LinesInTurn(prog)) /\ (~reads_lines(prog) => OneMessage(prog))
    BY <1>3, <1>6 DEF RunningProg, Sent
  <2>2. reads_lines(prog') <=> reads_lines(prog)
    BY Kept DEF Keeps, reads_lines
  <2>3. /\ packet \in Packet /\ Tail(prog.out) \in Seq(Packet) /\ Len(prog.out) \in Nat \ {0}
        /\ packet = prog.out[1] /\ 1 \in DOMAIN prog.out
        /\ \A k \in DOMAIN Tail(prog.out) : k + 1 \in DOMAIN prog.out /\ Tail(prog.out)[k] = prog.out[k + 1]
    <3>1. prog.out \in Seq(Packet)
      BY <2>1 DEF InTurn
    <3>2. /\ Head(prog.out) \in Packet /\ Tail(prog.out) \in Seq(Packet) /\ Head(prog.out) = prog.out[1]
          /\ Len(prog.out) \in Nat /\ DOMAIN prog.out = 1..Len(prog.out) /\ Len(prog.out) # 0
          /\ Len(Tail(prog.out)) = Len(prog.out) - 1 /\ DOMAIN Tail(prog.out) = 1..Len(Tail(prog.out))
          /\ \A k \in 1..Len(Tail(prog.out)) : Tail(prog.out)[k] = prog.out[k + 1]
      BY <1>2, <3>1, HeadTailProperties, LenProperties, EmptySeq
    <3> QED
      BY <3>2
  <2>4. CASE packet.type = "DISCONNECT"
    <3>1. prog' = lost(written) /\ prog.disconnecting
      BY <1>2, <2>1, <2>3, <2>4 DEF InTurn
    <3>2. SameBut(prog, prog', {"link", "out", "connected", "thread", "losses"})
      <4> HIDE DEF written
      <4> QED
        BY <1>1, <1>4, <3>1 DEF SameBut, ProgFields
    <3>3. prog'.link = "down" /\ prog'.out = <<>>
      BY <1>4, <3>1
    <3>4. InTurn(prog')
      BY <2>1, <3>2, <3>3, TurnDown
    <3> HIDE DEF packet, written
    <3>5. reads_lines(prog) => LinesInTurn(prog')
      <4> SUFFICES ASSUME reads_lines(prog) PROVE LinesInTurn(prog')
        OBVIOUS
      <4>1. /\ prog'.status = prog.status /\ prog'.input = prog.input /\ prog'.last_mid = prog.last_mid
            /\ prog'.mid_sent = prog.mid_sent /\ prog'.disconnecting = prog.disconnecting
            /\ prog'.stage = prog.stage /\ prog'.last_mid_sent = prog.last_mid_sent
        BY <3>2 DEF SameBut, ProgFields
      <4> QED
        BY <2>1, <3>1, <3>3, <4>1 DEF LinesInTurn
    <3>6. ~reads_lines(prog) => OneMessage(prog')
      BY <2>1, <3>2, <3>3 DEF OneMessage, SameBut, ProgFields
    <3> QED
      BY <2>2, <3>4, <3>5, <3>6 DEF Sent
  <2>5. CASE packet.type = "PUBLISH" /\ prog.s.qos # 0
    <3>1. prog' = written
      BY <1>2, <1>3, <2>5
    <3> HIDE DEF written
    <3>2. InTurn(prog')
      <4>1. /\ prog'.last_mid_sent = prog.last_mid_sent /\ prog'.mid_sent = prog.mid_sent
            /\ prog'.lines = prog.lines /\ prog'.reported = prog.reported /\ prog'.callback = prog.callback
            /\ prog'.unacked = prog.unacked /\ prog'.input = prog.input /\ prog'.s = prog.s
            /\ prog'.disconnecting = prog.disconnecting /\ done(prog') = done(prog)
            /\ prog'.out = Tail(prog.out)
        BY <1>1, <3>1 DEF SameBut, ProgFields, done
      <4>2. ~prog.disconnecting => \A k \in DOMAIN prog'.out : prog'.out[k].type = "PUBLISH"
        BY <2>1, <2>3, <4>1 DEF InTurn
      <4> QED
        BY <2>1, <2>3, <2>5, <4>1, <4>2 DEF InTurn
    <3>3. reads_lines(prog) => LinesInTurn(prog')
      BY <1>1, <2>1, <3>1 DEF LinesInTurn, SameBut, ProgFields
    <3>4. ~reads_lines(prog) => OneMessage(prog')
      BY <1>1, <2>1, <3>1 DEF OneMessage, SameBut, ProgFields
    <3> QED
      BY <2>2, <3>2, <3>3, <3>4 DEF Sent
  <2>6. CASE packet.type = "PUBLISH" /\ prog.s.qos = 0
    <3> DEFINE n == done(prog)
               m == prog.mid_sent
    <3>1. n \in Nat /\ m \in Nat /\ n <= m /\ ~prog.disconnecting /\ prog.out = Packets(n, m)
      <4>1. ~prog.disconnecting
        BY <1>2, <2>1, <2>3, <2>6 DEF InTurn
      <4> QED
        BY <1>2, <2>1, <2>6, <4>1 DEF InTurn, done
    <3> HIDE DEF n, m
    <3>2. n < m /\ packet.what = n + 1 /\ Tail(prog.out) = Packets(n + 1, m)
      <4>1. n < m
        BY <1>2, <3>1, PacketsChange, Zenon
      <4>2. Head(Packets(n, m)) = [type |-> "PUBLISH", what |-> n + 1] /\ Tail(Packets(n, m)) = Packets(n + 1, m)
        BY <3>1, <4>1, PacketsChange, Zenon
      <4> QED
        BY <3>1, <4>1, <4>2
    <3>3. prog' = [written EXCEPT !.callback = packet.what, !.last_mid_sent = packet.what,
                                  !.reported = @ \cup {packet.what}]
      BY <1>2, <2>6
    <3>4. /\ SameBut(prog, prog', {"out", "callback", "last_mid_sent", "reported"})
          /\ prog'.out = Packets(n + 1, m) /\ prog'.callback = n + 1 /\ prog'.last_mid_sent = n + 1
          /\ prog'.reported = prog.reported \cup {n + 1}
      <4> HIDE DEF written, packet
      <4> QED
        BY <1>1, <3>2, <3>3 DEF SameBut, IsProg, ProgFields
    <3>5. InTurn(prog')
      <4>1. /\ prog'.mid_sent = m /\ prog'.lines = prog.lines /\ prog'.unacked = prog.unacked
            /\ prog'.input = prog.input /\ prog'.s = prog.s /\ ~prog'.disconnecting
        BY <3>1, <3>4 DEF SameBut, ProgFields, m
      <4>2. done(prog') = n + 1 /\ n + 1 \in Nat \ {0} /\ n + 1 <= m
        BY <3>1, <3>2, <3>4 DEF done
      <4>3. prog'.reported = 1..(n + 1)
        <5>1. prog.reported = 1..n
          BY <2>1 DEF InTurn, n
        <5>2. (1..n) \cup {n + 1} = 1..(n + 1)
          BY <3>1
        <5> QED
          BY <3>4, <5>1, <5>2
      <4>4. Packets(n + 1, m) \in Seq(Packet) /\ \A k \in DOMAIN Packets(n + 1, m) : Packets(n + 1, m)[k].type = "PUBLISH"
        <5>1. \A k \in DOMAIN prog.out : prog.out[k].type = "PUBLISH"
          BY <2>1, <3>1 DEF InTurn
        <5>2. \A k \in DOMAIN Tail(prog.out) : Tail(prog.out)[k].type = "PUBLISH"
          BY <2>3, <5>1
        <5> QED
          BY <2>3, <3>2, <5>2, Zenon
      <4>5. Listed(prog.lines) /\ m = Len(prog.lines) /\ prog.unacked = <<>>
        BY <2>1, <2>6 DEF InTurn, m
      <4> QED
        BY <2>6, <3>1, <3>4, <4>1, <4>2, <4>3, <4>4, <4>5 DEF InTurn
    <3>6. reads_lines(prog) => LinesInTurn(prog')
      <4> SUFFICES ASSUME reads_lines(prog) PROVE LinesInTurn(prog')
        OBVIOUS
      <4>1. prog.stage # "disconnect" /\ prog.status # "STATUS_CONNECTING"
        BY <2>1, <3>1, <3>2 DEF LinesInTurn, done, n, m
      <4> QED
        BY <2>1, <3>4, <4>1 DEF LinesInTurn, SameBut, ProgFields
    <3>7. ~reads_lines(prog) => OneMessage(prog')
      BY <2>1, <3>4 DEF OneMessage, SameBut, ProgFields
    <3> QED
      BY <2>2, <3>5, <3>6, <3>7 DEF Sent
  <2> QED
    BY <2>3, <2>4, <2>5, <2>6 DEF Packet
<1> QED
  BY <1>3, <1>5, <1>6, RunningNext

\* A message of QoS 1 or 2 is acknowledged, the next in turn.
LEMMA AcknowledgedSteps ==
    ASSUME IsProg(prog), PubInv(prog), prog.program = "pub", prog.stage # "off", ProgNext, Acknowledged
    PROVE  PubInv(prog')
<1> DEFINE mid == prog.unacked[1]
<1>1. /\ prog.thread = "runs" /\ prog.link = "up" /\ prog.callback = 0 /\ prog.unacked # <<>>
      /\ prog' = [prog EXCEPT !.unacked = Tail(@), !.callback = mid, !.last_mid_sent = mid,
                              !.reported = @ \cup {mid}]
  BY DEF Acknowledged
<1>2. /\ SameBut(prog, prog', {"unacked", "callback", "last_mid_sent", "reported"})
      /\ prog'.unacked = Tail(prog.unacked) /\ prog'.callback = mid /\ prog'.last_mid_sent = mid
      /\ prog'.reported = prog.reported \cup {mid}
  <2> HIDE DEF mid
  <2> QED
    BY <1>1 DEF SameBut, IsProg, ProgFields
<1>3. prog.losses \in Nat /\ prog.s.qos \in 0..2 /\ RunningProg(prog)
  BY <1>1 DEF PubInv, Begun
<1>4. prog'.stage \notin {"connect", "srv"} /\ prog'.thread # "none"
  BY <1>1, <1>2, <1>3 DEF RunningProg, SameBut, ProgFields
<1>5. ASSUME in_scope(prog), in_scope(prog') PROVE Sent(prog')
  <2>1. InTurn(prog) /\ (reads_lines(prog) => LinesInTurn(prog)) /\ (~reads_lines(prog) => OneMessage(prog))
    BY <1>3, <1>5 DEF RunningProg, Sent
  <2>2. reads_lines(prog') <=> reads_lines(prog)
    BY Kept DEF Keeps, reads_lines
  <2> DEFINE n == done(prog)
             m == prog.mid_sent
  <2>3. n \in Nat /\ m \in Nat /\ n <= m /\ prog.s.qos # 0 /\ prog.unacked = Mids(n, m)
    BY <1>1, <2>1 DEF InTurn, done
  <2> HIDE DEF n, m
  <2>4. n < m /\ mid = n + 1 /\ Tail(prog.unacked) = Mids(n + 1, m)
    <3>1. n < m
      BY <1>1, <2>3, MidsChange, Zenon
    <3>2. Mids(n, m)[1] = n + 1 /\ Tail(Mids(n, m)) = Mids(n + 1, m)
      BY <2>3, <3>1, MidsChange, Zenon
    <3> QED
      BY <2>3, <3>1, <3>2
  <2> HIDE DEF mid
  <2>5. ~prog.disconnecting
    BY <2>1, <2>4 DEF InTurn, n, m
  <2>6. InTurn(prog')
    <3>1. /\ prog'.mid_sent = m /\ prog'.lines = prog.lines /\ prog'.out = prog.out
          /\ prog'.input = prog.input /\ prog'.s = prog.s /\ ~prog'.disconnecting
      BY <1>2, <2>5 DEF SameBut, ProgFields, m
    <3>2. done(prog') = n + 1 /\ n + 1 \in Nat \ {0} /\ n + 1 <= m
      BY <1>2, <2>3, <2>4 DEF done
    <3>3. prog'.reported = 1..(n + 1)
      <4>1. prog.reported = 1..n
        BY <2>1 DEF InTurn, n
      <4>2. (1..n) \cup {n + 1} = 1..(n + 1)
        BY <2>3
      <4> QED
        BY <1>2, <2>4, <4>1, <4>2
    <3>4. /\ Listed(prog.lines) /\ m = Len(prog.lines) /\ prog.out \in Seq(Packet)
          /\ \A k \in DOMAIN prog.out : prog.out[k].type = "PUBLISH"
      BY <2>1, <2>5 DEF InTurn, m
    <3> QED
      BY <1>2, <2>3, <2>4, <3>1, <3>2, <3>3, <3>4 DEF InTurn
  <2>7. reads_lines(prog) => LinesInTurn(prog')
    <3> SUFFICES ASSUME reads_lines(prog) PROVE LinesInTurn(prog')
      OBVIOUS
    <3>1. prog.stage # "disconnect"
      BY <2>1, <2>3, <2>4 DEF LinesInTurn, done, n, m
    <3> QED
      BY <1>2, <2>1, <3>1 DEF LinesInTurn, SameBut, ProgFields
  <2>8. ~reads_lines(prog) => OneMessage(prog')
    BY <1>2, <2>1 DEF OneMessage, SameBut, ProgFields
  <2> QED
    BY <2>2, <2>6, <2>7, <2>8 DEF Sent
<1> QED
  BY <1>3, <1>4, <1>5, RunningNext

\* A line is read and published, or there is none left.
LEMMA ReadSteps ==
    ASSUME IsProg(prog), PubInv(prog), prog.program = "pub", prog.stage # "off", ProgNext, ReadLine
    PROVE  PubInv(prog')
<1> DEFINE published == publish(prog, Head(prog.input))
<1>1. /\ prog.stage = "loop" /\ line_mode /\ prog.status = "STATUS_CONNACK_RECVD"
      /\ prog' = IF prog.input = <<>>
                 THEN [prog EXCEPT !.last_mid = prog.mid_sent, !.status = "STATUS_WAITING", !.stage = "check"]
                 ELSE [published EXCEPT !.input = Tail(@), !.stage = "check"]
  BY DEF ReadLine
<1>2. prog.losses \in Nat /\ prog.s.qos \in 0..2 /\ RunningProg(prog)
  BY <1>1 DEF PubInv, Begun
<1>3. SameBut(prog, published, {"mid_sent", "lines", "unacked", "out", "disconnecting"})
  BY PublishCalled
<1> HIDE DEF published
<1>4. prog'.stage = "check" /\ prog'.thread = prog.thread /\ prog.thread # "none"
  BY <1>1, <1>2, <1>3 DEF RunningProg, SameBut, IsProg, ProgFields
<1>5. ASSUME in_scope(prog), in_scope(prog') PROVE Sent(prog')
  <2>1. InTurn(prog) /\ LinesInTurn(prog) /\ reads_lines(prog)
    BY <1>1, <1>2, <1>5 DEF RunningProg, Sent, reads_lines, line_mode
  <2>2. reads_lines(prog')
    BY <2>1, Kept DEF Keeps, reads_lines
  <2>3. CASE prog.input = <<>>
    <3>1. /\ SameBut(prog, prog', {"last_mid", "status", "stage"})
          /\ prog'.last_mid = prog.mid_sent /\ prog'.status = "STATUS_WAITING"
      BY <1>1, <2>3 DEF SameBut, IsProg, ProgFields
    <3>2. InTurn(prog')
      BY <2>1, <3>1, TurnKept DEF SameBut
    <3>3. LinesInTurn(prog')
      BY <1>1, <1>4, <2>1, <2>3, <3>1 DEF LinesInTurn, SameBut, ProgFields
    <3> QED
      BY <2>2, <3>2, <3>3 DEF Sent
  <2>4. CASE prog.input # <<>>
    <3>1. wildcard_free /\ prog.link # "down" /\ ~prog.disconnecting /\ prog.link # "connecting"
      BY <1>1, <1>5, <2>1 DEF in_scope, publishes, wildcard_free, LinesInTurn
    <3>2. InTurn(published) /\ SameBut(prog, published, {"mid_sent", "lines", "unacked", "out"})
      BY <2>1, <3>1, TurnPublished, Published DEF published
    <3>3. SameBut(published, prog', {"input", "stage"})
      BY <1>1, <1>3, <2>4 DEF SameBut, IsProg, ProgFields
    <3>4. InTurn(prog')
      <4>1. /\ prog'.last_mid_sent = published.last_mid_sent /\ prog'.mid_sent = published.mid_sent
            /\ prog'.lines = published.lines /\ prog'.reported = published.reported
            /\ prog'.callback = published.callback /\ prog'.unacked = published.unacked
            /\ prog'.s = published.s /\ prog'.link = published.link /\ prog'.out = published.out
            /\ ~published.disconnecting /\ ~prog'.disconnecting /\ done(prog') = done(published)
        BY <3>1, <3>2, <3>3 DEF SameBut, ProgFields, done
      <4> QED
        BY <3>2, <4>1 DEF InTurn
    <3>5. LinesInTurn(prog')
      BY <1>1, <1>4, <2>1, <3>1, <3>2, <3>3 DEF LinesInTurn, SameBut, ProgFields
    <3> QED
      BY <2>2, <3>4, <3>5 DEF Sent
  <2> QED
    BY <2>3, <2>4
<1> QED
  BY <1>2, <1>4, <1>5, RunningNext

\* Main tells the client to disconnect, having seen the last line sent.
LEMMA DisconnectSteps ==
    ASSUME IsProg(prog), PubInv(prog), prog.program = "pub", prog.stage # "off", ProgNext, Disconnect
    PROVE  PubInv(prog')
<1> DEFINE d == mosquitto_disconnect(prog)
<1>1. SameBut(prog, d, {"disconnecting", "out"}) /\ d.disconnecting = TRUE
  BY Disconnecting
<1>2. prog.stage = "disconnect" /\ prog' = [d EXCEPT !.disconnect_sent = TRUE, !.stage = "check"]
  BY DEF Disconnect
<1>3. prog.losses \in Nat /\ prog.s.qos \in 0..2 /\ RunningProg(prog)
  BY <1>2 DEF PubInv, Begun
<1> HIDE DEF d
<1>4. SameBut(d, prog', {"disconnect_sent", "stage"}) /\ prog'.stage = "check"
  BY <1>1, <1>2 DEF SameBut, IsProg, ProgFields
<1>5. prog'.thread = prog.thread /\ prog.thread # "none"
  BY <1>1, <1>3, <1>4 DEF RunningProg, SameBut, ProgFields
<1>6. ASSUME in_scope(prog), in_scope(prog') PROVE Sent(prog')
  <2>1. InTurn(prog) /\ LinesInTurn(prog) /\ reads_lines(prog)
    BY <1>2, <1>3, <1>6 DEF RunningProg, Sent, OneMessage
  <2>2. done(prog) = prog.mid_sent /\ prog.input = <<>> /\ prog.status = "STATUS_WAITING"
    BY <1>2, <2>1 DEF LinesInTurn, InTurn, done
  <2>3. InTurn(d)
    BY <2>1, <2>2, TurnDisconnecting DEF d
  <2>4. InTurn(prog')
    BY <1>4, <2>3, TurnKept DEF SameBut
  <2>5. LinesInTurn(prog') /\ reads_lines(prog')
    BY <1>1, <1>4, <2>1, <2>2 DEF LinesInTurn, reads_lines, SameBut, ProgFields
  <2> QED
    BY <2>4, <2>5 DEF Sent
<1> QED
  BY <1>3, <1>4, <1>5, <1>6, RunningNext

\* What else main does: it waits, looks at its condition, and leaves.
LEMMA MainSteps ==
    ASSUME IsProg(prog), PubInv(prog), prog.program = "pub", prog.stage # "off", ProgNext,
           Wait \/ Check \/ Idle \/ Leave
    PROVE  PubInv(prog')
<1>1. prog.stage \in {"loop", "check", "join"}
  BY DEF Wait, Check, Idle, Leave
<1>2. prog.losses \in Nat /\ prog.s.qos \in 0..2 /\ RunningProg(prog)
  BY <1>1 DEF PubInv, Begun
<1>3. /\ SameBut(prog, prog', {"stage", "thread", "rc"})
      /\ prog'.stage \in {"loop", "check", "join", "disconnect", "ended"} /\ prog'.thread # "none"
  <2>1. prog.thread # "none"
    BY <1>2 DEF RunningProg
  <2>2. CASE Wait
    BY <2>1, <2>2 DEF Wait, SameBut, IsProg, ProgFields
  <2>3. CASE Check
    BY <2>1, <2>3 DEF Check, SameBut, IsProg, ProgFields
  <2>4. CASE Idle
    BY <2>1, <2>4 DEF Idle, SameBut, IsProg, ProgFields
  <2>5. CASE Leave
    BY <2>5 DEF Leave, SameBut, IsProg, ProgFields
  <2> QED
    BY <2>2, <2>3, <2>4, <2>5
<1>4. ASSUME in_scope(prog), in_scope(prog') PROVE Sent(prog')
  <2>1. InTurn(prog) /\ (reads_lines(prog) => LinesInTurn(prog)) /\ (~reads_lines(prog) => OneMessage(prog))
    BY <1>2, <1>4 DEF RunningProg, Sent
  <2>2. (reads_lines(prog') <=> reads_lines(prog)) /\ (reads_lines(prog) <=> line_mode)
    BY <1>3 DEF reads_lines, line_mode, SameBut, ProgFields
  <2>3. InTurn(prog')
    BY <1>3, <2>1, TurnKept DEF SameBut
  <2>4. ASSUME line_mode PROVE LinesInTurn(prog')
    <3>1. prog'.stage = "disconnect" => prog.status = "STATUS_WAITING" /\ prog.last_mid_sent = prog.last_mid
      <4>1. CASE Wait
        BY <4>1 DEF Wait, IsProg, ProgFields
      <4>2. CASE Check
        BY <4>2 DEF Check, IsProg, ProgFields
      <4>3. CASE Idle
        BY <4>3 DEF Idle, IsProg, ProgFields
      <4>4. CASE Leave
        BY <4>4 DEF Leave, IsProg, ProgFields
      <4> QED
        BY <4>1, <4>2, <4>3, <4>4
    <3>2. prog'.thread = prog.thread
      <4>1. CASE Leave
        BY <2>4, <4>1 DEF Leave, IsProg, ProgFields
      <4>2. CASE Wait \/ Check \/ Idle
        BY <4>2 DEF Wait, Check, Idle, IsProg, ProgFields
      <4> QED
        BY <4>1, <4>2
    <3>3. LinesInTurn(prog)
      BY <2>1, <2>2, <2>4
    <3> QED
      BY <1>3, <3>1, <3>2, <3>3 DEF LinesInTurn, SameBut, ProgFields
  <2>5. ASSUME ~line_mode PROVE OneMessage(prog')
    <3>1. OneMessage(prog)
      BY <2>1, <2>2, <2>5
    <3>2. prog.stage = "loop"
      BY <1>1, <3>1 DEF OneMessage
    <3>3. Leave
      BY <2>5, <3>2 DEF Wait, Check, Idle
    <3>4. prog'.stage = "ended" /\ (prog'.rc => prog.disconnecting)
      BY <2>5, <3>3 DEF Leave, IsProg, ProgFields
    <3> QED
      BY <1>3, <3>1, <3>4 DEF OneMessage, SameBut, ProgFields
  <2> QED
    BY <2>2, <2>3, <2>4, <2>5 DEF Sent
<1> QED
  BY <1>2, <1>3, <1>4, RunningNext

\* The start: a command line that is not accepted ends the program, and what is
\* accepted begins with nothing sent.
LEMMA RunSteps ==
    ASSUME ProgInit, NEW c \in Commands, Run(c)
    PROVE  ProgInv'
<1> DEFINE read == parse_args(c.program, c.args)
           m == set_up(c.program, read.s)
           begun == [prog EXCEPT !.program = c.program, !.args = c.args, !.s = read.s]
           input == FlattenSeq([k \in DOMAIN c.input |-> fgets(c.input[k])])
           stage == IF m.state = "new" THEN "connect" ELSE "srv"
<1>1. prog' = IF read.rc # "none" THEN [begun EXCEPT !.stage = "ended", !.rc = read.rc = "ok"]
              ELSE IF ~m.rc THEN [begun EXCEPT !.stage = "ended", !.rc = FALSE]
              ELSE [begun EXCEPT !.m = m, !.input = input, !.stage = stage]
  BY DEF Run
<1>2. SameBut(prog, begun, {"program", "args", "s"}) /\ begun.program = c.program /\ begun.s = read.s
  BY DEF ProgInit, SameBut, IsProg, ProgFields
<1>3. c.program = "pub" /\ read.rc = "none" => read.s.qos \in 0..2 /\ (read.s["mode"] # "stdin_line" => c.input = <<>>)
  BY CommandsAssumption
<1>4. c.input = <<>> => input = <<>>
  <2> SUFFICES ASSUME c.input = <<>> PROVE input = <<>>
    OBVIOUS
  <2>1. [k \in DOMAIN c.input |-> fgets(c.input[k])] = <<>>
    OBVIOUS
  <2> QED
    BY <2>1, EmptySeq DEF FlattenSeq
<1>5. stage \in {"connect", "srv"}
  OBVIOUS
<1> HIDE DEF read, m, begun, input, stage
<1>6. /\ prog.losses = 0 /\ prog.thread = "none" /\ prog.link = "down" /\ prog.out = <<>> /\ prog.unacked = <<>>
      /\ prog.callback = 0 /\ ~prog.disconnecting /\ prog.status = "STATUS_CONNECTING" /\ prog.mid_sent = 0
      /\ prog.last_mid = -1 /\ prog.last_mid_sent = -1 /\ prog.lines = <<>> /\ prog.reported = {}
  BY DEF ProgInit
<1>7. CASE read.rc # "none" \/ ~m.rc
  <2>1. prog' = [begun EXCEPT !.stage = "ended", !.rc = read.rc = "ok"] \/ prog' = [begun EXCEPT !.stage = "ended", !.rc = FALSE]
    BY <1>1, <1>7
  <2>2. SameBut(begun, prog', {"stage", "rc"}) /\ prog'.stage = "ended"
    BY <1>2, <2>1 DEF SameBut, IsProg, ProgFields
  <2>3. IsProg(prog') /\ prog'.thread = "none" /\ prog'.losses = 0
    BY <1>2, <1>6, <2>2 DEF SameBut, ProgFields
  <2> QED
    BY <2>2, <2>3 DEF ProgInv, PubInv
<1>8. CASE read.rc = "none" /\ m.rc
  <2>1. prog' = [begun EXCEPT !.m = m, !.input = input, !.stage = stage]
    BY <1>1, <1>8
  <2>2. /\ SameBut(prog, prog', {"program", "args", "s", "m", "input", "stage"})
        /\ prog'.program = c.program /\ prog'.s = read.s /\ prog'.input = input /\ prog'.stage = stage
    BY <1>2, <2>1 DEF SameBut, IsProg, ProgFields
  <2>3. /\ IsProg(prog')
        /\ prog'.losses = 0 /\ prog'.thread = "none" /\ prog'.link = "down" /\ prog'.out = <<>> /\ prog'.unacked = <<>>
        /\ prog'.callback = 0 /\ ~prog'.disconnecting /\ prog'.status = "STATUS_CONNECTING" /\ prog'.mid_sent = 0
        /\ prog'.last_mid = -1 /\ prog'.last_mid_sent = -1 /\ prog'.lines = <<>> /\ prog'.reported = {}
    BY <1>6, <2>2 DEF SameBut, ProgFields
  <2>4. prog'.program = "pub" => PubInv(prog')
    <3> SUFFICES ASSUME c.program = "pub" PROVE PubInv(prog')
      BY <2>2
    <3>1. prog'.s.qos \in 0..2 /\ (~reads_lines(prog') => prog'.input = <<>>)
      BY <1>3, <1>4, <1>8, <2>2 DEF reads_lines
    <3>2. Begun(prog')
      BY <1>5, <2>2, <2>3, <3>1 DEF Begun
    <3> QED
      BY <2>3, <3>1, <3>2 DEF PubInv
  <2> QED
    BY <1>5, <2>2, <2>3, <2>4 DEF ProgInv
<1> QED
  BY <1>7, <1>8

-----------------------------------------------------------------------------
(* The theorem.                                                            *)

\* What mosquitto_pub has sent is in turn, in every state.
THEOREM ProgInvariant == ProgSpec => []ProgInv
<1>1. ProgInit => ProgInv
  BY DEF ProgInit, ProgInv
<1>2. ProgInv /\ [ProgNext]_prog => ProgInv'
  <2> SUFFICES ASSUME ProgInv, [ProgNext]_prog PROVE ProgInv'
    OBVIOUS
  <2>1. CASE UNCHANGED prog
    BY <2>1 DEF ProgInv, ProgInit
  <2>2. CASE prog.stage = "off" /\ ProgNext
    <3>1. ProgInit
      BY <2>2 DEF ProgInv
    <3>2. PICK c \in Commands : Run(c)
      <4>1. prog.thread = "none" /\ prog.program = "none"
        BY <3>1 DEF ProgInit
      <4> QED
        BY <2>2, <4>1 DEF ProgNext, Connect, Reconnect, Connack, SrvReply, Receive, Write, Acknowledged,
                          my_publish_callback, LoseLink, ReadLine, Wait, Disconnect, Check, Idle, Leave
    <3> QED
      BY <3>1, <3>2, RunSteps
  <2>3. CASE prog.stage # "off" /\ ProgNext
    <3>1. IsProg(prog) /\ (prog.program = "pub" => PubInv(prog))
      BY <2>3 DEF ProgInv
    <3>2. Keeps(prog, prog')
      BY <2>3, <3>1, Kept
    <3>3. ASSUME prog.program = "pub" PROVE PubInv(prog')
      <4>1. PubInv(prog)
        BY <3>1, <3>3
      <4>2. CASE \/ \E works \in BOOLEAN : Connect(works)
                 \/ \E answer \in {"found", "failed", "late"} : SrvReply(answer)
        BY <3>1, <3>3, <4>1, <4>2, ConnectSteps
      <4>3. CASE (\E works \in BOOLEAN : Reconnect(works)) \/ Connack(FALSE) \/ LoseLink
        BY <2>3, <3>1, <3>3, <4>1, <4>3, LossSteps
      <4>4. CASE Connack(TRUE)
        BY <2>3, <3>1, <3>3, <4>1, <4>4, ConnackSteps
      <4>5. CASE Write
        BY <2>3, <3>1, <3>3, <4>1, <4>5, WriteSteps
      <4>6. CASE Acknowledged
        BY <2>3, <3>1, <3>3, <4>1, <4>6, AcknowledgedSteps
      <4>7. CASE my_publish_callback
        BY <2>3, <3>1, <4>1, <4>7, CallbackSteps
      <4>8. CASE ReadLine
        BY <2>3, <3>1, <3>3, <4>1, <4>8, ReadSteps
      <4>9. CASE Disconnect
        BY <2>3, <3>1, <3>3, <4>1, <4>9, DisconnectSteps
      <4>10. CASE Wait \/ Check \/ Idle \/ Leave
        BY <2>3, <3>1, <3>3, <4>1, <4>10, MainSteps
      <4>11. CASE \E message \in Messages : Receive(message)
        BY <3>3, <4>11 DEF Receive
      <4>12. \A works \in BOOLEAN : Connack(works) => Connack(TRUE) \/ Connack(FALSE)
        <5> SUFFICES ASSUME NEW works \in BOOLEAN, Connack(works) PROVE Connack(TRUE) \/ Connack(FALSE)
          OBVIOUS
        <5>1. CASE works = TRUE
          BY <5>1
        <5>2. CASE works = FALSE
          BY <5>2
        <5> QED
          BY <5>1, <5>2
      <4> QED
        BY <2>3, <4>2, <4>3, <4>4, <4>5, <4>6, <4>7, <4>8, <4>9, <4>10, <4>11, <4>12 DEF ProgNext
    <3> QED
      BY <3>2, <3>3 DEF ProgInv, Keeps
  <2> QED
    BY <2>1, <2>2, <2>3
<1> QED
  BY <1>1, <1>2, PTL DEF ProgSpec

\* mosquitto_pub does not tell of success before everything was sent, whatever the
\* order in which main and my_publish_callback go on (pub_client.c).
THEOREM SuccessMeans == ProgSpec => []SuccessMeansSent
<1>1. ProgInv => SuccessMeansSent
  <2> SUFFICES ASSUME ProgInv, prog.stage = "ended", prog.program = "pub", prog.thread = "ended", prog.rc,
                      wildcard_free, line_mode => prog.losses = 0
               PROVE  /\ prog.unacked = <<>> /\ prog.input = <<>>
                      /\ prog.reported = 1..Len(prog.lines) /\ prog.mid_sent = Len(prog.lines)
    BY DEF SuccessMeansSent
  <2>1. RunningProg(prog)
    BY DEF ProgInv, PubInv, Begun
  <2>2. in_scope(prog) /\ (reads_lines(prog) <=> line_mode)
    BY DEF in_scope, publishes, wildcard_free, reads_lines, line_mode
  <2>3. InTurn(prog) /\ prog.disconnecting
    BY <2>1, <2>2 DEF RunningProg, Sent, LinesInTurn, OneMessage
  <2>4. /\ done(prog) = prog.mid_sent /\ prog.input = <<>> /\ prog.mid_sent = Len(prog.lines)
        /\ prog.reported = 1..done(prog) /\ prog.mid_sent \in Nat
        /\ prog.unacked = IF prog.s.qos = 0 THEN <<>> ELSE Mids(done(prog), prog.mid_sent)
    BY <2>3 DEF InTurn
  <2>5. prog.unacked = <<>>
    BY <2>4, NoPackets
  <2> QED
    BY <2>4, <2>5
<1> QED
  BY <1>1, ProgInvariant, PTL

-----------------------------------------------------------------------------
(* KeepAlive.                                                              *)

-----------------------------------------------------------------------------
(* The inductive invariant, for any value s of ka.                         *)

KeepPacket == [type : {"PINGREQ", "PINGRESP", "PUBLISH"}, age : 0..Delay]

ClientStates ==
    [sock : BOOLEAN, last_msg_in : Nat, last_msg_out : Nat, ping_t : Nat \cup {NULL},
     idle : 0..LoopTime, told : 0..2]

BrokerStates == [sock : BOOLEAN, last_msg_in : Nat, checked : BOOLEAN]

KeepStates ==
    [k : Keepalives \cup {NULL}, now : Nat, phase : {0, 1}, c : ClientStates, b : BrokerStates,
     up : Seq(KeepPacket), down : Seq(KeepPacket), dead : Nat \cup {NULL}, sends : Nat]

\* What the ends have noted is in the past, and nothing is on its way to or from
\* an end that is gone.
Past(s) ==
    /\ 2 * s.c.last_msg_in <= s.now /\ 2 * s.c.last_msg_out <= s.now
    /\ 2 * s.b.last_msg_in <= s.now + s.phase
    /\ s.c.ping_t # NULL => 2 * s.c.ping_t <= s.now
    /\ s.dead # NULL => s.dead <= s.now /\ s.up = <<>> /\ s.down = <<>>
    /\ s.c.sock <=> s.c.told = 0

\* The client found nothing overdue when its loop ran last, and so did the broker
\* in this half second or in the one before.
ClientLooked(s) ==
    s.c.sock =>
        /\ s.now - s.c.idle < 2 * (s.k + s.c.last_msg_in)
        /\ s.now - s.c.idle < 2 * (s.k + s.c.last_msg_out)
        /\ s.c.ping_t # NULL => s.now - s.c.idle < 2 * (s.k + s.c.ping_t)

BrokerLooked(s) ==
    s.b.sock =>
        /\ s.now + s.phase <= 2 * ((s.k * 3) \div 2 + s.b.last_msg_in)
        /\ s.b.checked => s.now + s.phase < 2 * ((s.k * 3) \div 2 + s.b.last_msg_in)

\* Nothing was read since the death; the one ping there may be since then was
\* sent before the keepalive time and a sleep were over.
AfterDeath(s) ==
    s.dead # NULL =>
        /\ s.b.sock => 2 * s.b.last_msg_in <= s.dead + s.phase
        /\ s.c.sock /\ s.c.ping_t = NULL => 2 * s.c.last_msg_in <= s.dead
        /\ s.c.sock /\ s.c.ping_t # NULL => 2 * s.c.ping_t <= s.dead + 2 * s.k + LoopTime

\* A ping, or its answer, is on its way.
Answering(s) ==
    \/ \E i \in DOMAIN s.up :
          s.up[i].type = "PINGREQ" /\ s.now - s.up[i].age <= 2 * s.c.ping_t + 1
    \/ \E i \in DOMAIN s.down :
          s.down[i].type = "PINGRESP" /\ s.now - s.down[i].age <= 2 * s.c.ping_t + 1 + Delay

\* As long as packets arrive, the broker has read what the client sent last, or the
\* packet it reads next was sent a keepalive time and a sleep after what it has read.
Alive(s) ==
    s.dead = NULL =>
        /\ s.c.sock /\ s.b.sock
        /\ s.up = <<>> => s.b.last_msg_in >= s.c.last_msg_out
        /\ s.up # <<>> => s.now - s.up[1].age < 2 * (s.k + s.b.last_msg_in) + LoopTime
        /\ s.c.ping_t # NULL =>
              /\ s.c.last_msg_in >= s.c.ping_t /\ s.c.last_msg_out >= s.c.ping_t
              /\ Answering(s)

Sound(s) == Past(s) /\ ClientLooked(s) /\ BrokerLooked(s) /\ AfterDeath(s) /\ Alive(s)

KeepInv == ka \in KeepStates /\ IF ka.k = NULL THEN KeepInit ELSE Sound(ka)

-----------------------------------------------------------------------------
(* The client.                                                             *)

\* The time in seconds.
LEMMA Seconds ==
    ASSUME NEW n \in Nat
    PROVE  n \div 2 \in Nat /\ 2 * (n \div 2) <= n /\ n <= 2 * (n \div 2) + 1
  OBVIOUS

\* What was not overdue is not overdue when something arrives later.
LEMMA Later ==
    ASSUME NEW now \in Nat, NEW idle \in Nat, NEW k \in Nat, NEW m \in Nat, NEW n \in Nat, m <= n,
           now - idle < 2 * (k + m)
    PROVE  now - idle < 2 * (k + n)
  OBVIOUS

\* A clock that shows half of the time is not before what it showed.
LEMMA Shown ==
    ASSUME NEW now \in Nat, NEW ahead \in Nat, NEW t \in Nat, now + ahead <= 2 * t + 1, NEW n \in Nat,
           2 * n <= now + ahead
    PROVE  n <= t
  OBVIOUS

\* Half as long again.
LEMMA HalfAsLong ==
    ASSUME NEW k \in Nat, k > 0
    PROVE  (k * 3) \div 2 \in Nat /\ (k * 3) \div 2 > 0
  OBVIOUS

\* What was just read is not overdue.
LEMMA JustRead ==
    ASSUME NEW now \in Nat, NEW t \in Nat, now <= 2 * t + 1, NEW k \in Nat, k > 0
    PROVE  now <= 2 * (k + t) /\ now < 2 * (k + t)
  OBVIOUS

\* A packet was sent before it is read.
LEMMA SentBefore ==
    ASSUME NEW now \in Nat, NEW ahead \in Nat, NEW t \in Nat, now + ahead <= 2 * t + 1,
           NEW age \in Nat, NEW k \in Nat, k > 0, NEW l \in Nat
    PROVE  now - age < 2 * (k + t) + l
  OBVIOUS

\* An answer is sent when the ping arrives.
LEMMA Answered ==
    ASSUME NEW now \in Nat, NEW d \in Nat, NEW age \in 0..d, NEW t \in Nat, now - age <= 2 * t + 1
    PROVE  now - 0 <= 2 * t + 1 + d
  OBVIOUS

\* A packet was sent at the same time, also when it is older.
LEMMA BothOlder ==
    ASSUME NEW now \in Nat, NEW age \in Nat
    PROVE  (now + 1) - (age + 1) = now - age
  OBVIOUS

\* What a packet at the end of a queue changes.
LEMMA AppendPacket ==
    ASSUME NEW q \in Seq(KeepPacket), NEW p \in KeepPacket
    PROVE  /\ Append(q, p) \in Seq(KeepPacket) /\ Append(q, p) # <<>>
           /\ q = <<>> => Append(q, p)[1] = p
           /\ q # <<>> => Append(q, p)[1] = q[1]
           /\ \A i \in DOMAIN q : i \in DOMAIN Append(q, p) /\ Append(q, p)[i] = q[i]
           /\ \E i \in DOMAIN Append(q, p) : Append(q, p)[i] = p
<1>1. Len(q) \in Nat /\ DOMAIN q = 1..Len(q) /\ (q = <<>> <=> Len(q) = 0)
  BY EmptySeq, LenProperties
<1>2. /\ Append(q, p) \in Seq(KeepPacket) /\ Len(Append(q, p)) = Len(q) + 1
      /\ DOMAIN Append(q, p) = 1..(Len(q) + 1)
      /\ \A i \in 1..Len(q) : Append(q, p)[i] = q[i]
      /\ Append(q, p)[Len(q) + 1] = p
  BY AppendProperties, LenProperties
<1> QED
  BY <1>1, <1>2

\* What is left of a queue when its first packet was taken.
LEMMA TailPacket ==
    ASSUME NEW q \in Seq(KeepPacket), q # <<>>
    PROVE  /\ Tail(q) \in Seq(KeepPacket) /\ Head(q) \in KeepPacket /\ Head(q) = q[1]
           /\ Tail(q) # <<>> => Tail(q)[1] \in KeepPacket
           /\ \A i \in DOMAIN q : i = 1 \/ (i - 1 \in DOMAIN Tail(q) /\ Tail(q)[i - 1] = q[i])
<1>1. Len(q) \in Nat /\ Len(q) > 0 /\ DOMAIN q = 1..Len(q)
  BY EmptySeq, LenProperties
<1>2. /\ Tail(q) \in Seq(KeepPacket) /\ Len(Tail(q)) = Len(q) - 1
      /\ DOMAIN Tail(q) = 1..(Len(q) - 1)
      /\ \A i \in 1..(Len(q) - 1) : Tail(q)[i] = q[i + 1]
  BY <1>1, HeadTailProperties, LenProperties
<1>3. Head(q) = q[1] /\ q[1] \in KeepPacket
  BY <1>1, ElementOfSeq
<1>4. Tail(q) # <<>> => Tail(q)[1] \in KeepPacket
  <2>1. Tail(q) # <<>> => Len(Tail(q)) # 0
    BY <1>2, EmptySeq
  <2> QED
    BY <1>1, <1>2, <2>1, ElementOfSeq
<1> QED
  BY <1>1, <1>2, <1>3, <1>4

\* A packet that is sent is behind the others, or goes nowhere.
Queued(s, q, type) ==
    IF s.dead = NULL THEN Append(q, [type |-> type, age |-> 0]) ELSE q

LEMMA KeepSent ==
    ASSUME NEW s \in KeepStates, NEW type \in {"PINGREQ", "PINGRESP", "PUBLISH"}
    PROVE  /\ sent(s, "up", type) = [s EXCEPT !.up = Queued(s, @, type)]
           /\ sent(s, "down", type) = [s EXCEPT !.down = Queued(s, @, type)]
           /\ Queued(s, s.up, type) \in Seq(KeepPacket)
           /\ Queued(s, s.down, type) \in Seq(KeepPacket)
<1>1. s.up \in Seq(KeepPacket) /\ s.down \in Seq(KeepPacket) /\ [type |-> type, age |-> 0] \in KeepPacket
  BY KeepAssumption DEF KeepStates, KeepPacket
<1>2. s = [s EXCEPT !.up = s.up] /\ s = [s EXCEPT !.down = s.down]
  BY DEF KeepStates
<1>3. sent(s, "up", type) = [s EXCEPT !.up = Queued(s, @, type)]
  BY <1>2, Zenon DEF sent, Queued
<1>4. sent(s, "down", type) = [s EXCEPT !.down = Queued(s, @, type)]
  BY <1>2, Zenon DEF sent, Queued
<1> QED
  BY <1>1, <1>3, <1>4, AppendProperties DEF Queued

\* The fields of a state.
LEMMA Fields ==
    ASSUME NEW s \in KeepStates
    PROVE  /\ s.k # NULL => s.k \in Nat /\ s.k > 0
           /\ s.now \in Nat /\ s.phase \in Nat /\ s.phase <= 1
           /\ s.c.last_msg_in \in Nat /\ s.c.last_msg_out \in Nat /\ s.b.last_msg_in \in Nat
           /\ s.c.ping_t # NULL => s.c.ping_t \in Nat
           /\ s.c.idle \in Nat /\ s.c.idle <= LoopTime /\ s.c.told \in 0..2
           /\ s.dead # NULL => s.dead \in Nat
           /\ s.up \in Seq(KeepPacket) /\ s.down \in Seq(KeepPacket)
           /\ LoopTime \in Nat /\ Delay \in Nat
<1>1. s.c \in ClientStates /\ s.b \in BrokerStates /\ s.k \in Keepalives \cup {NULL}
  BY DEF KeepStates
<1>2. s.k # NULL => s.k \in Nat /\ s.k > 0
  <2>1. \A k \in Keepalives : k \in Nat /\ k # 0
    BY KeepAssumption
  <2>2. s.k # NULL => s.k \in Nat /\ s.k # 0
    BY <1>1, <2>1
  <2> QED
    BY <2>2
<1>3. /\ s.now \in Nat /\ s.phase \in Nat /\ s.phase <= 1 /\ s.up \in Seq(KeepPacket) /\ s.down \in Seq(KeepPacket)
      /\ s.dead # NULL => s.dead \in Nat
  BY DEF KeepStates
<1>4. LoopTime \in Nat /\ Delay \in Nat
  BY KeepAssumption
<1>5. /\ s.c.last_msg_in \in Nat /\ s.c.last_msg_out \in Nat
      /\ s.c.ping_t # NULL => s.c.ping_t \in Nat
      /\ s.c.idle \in Nat /\ s.c.idle <= LoopTime /\ s.c.told \in 0..2
  BY <1>1, <1>4 DEF ClientStates
<1>6. s.b.last_msg_in \in Nat
  BY <1>1 DEF BrokerStates
<1> QED
  BY <1>2, <1>3, <1>4, <1>5, <1>6

\* The clocks of the two ends.
LEMMA Clocks ==
    ASSUME NEW s \in KeepStates
    PROVE  /\ client_time(s) \in Nat
           /\ 2 * client_time(s) <= s.now /\ s.now <= 2 * client_time(s) + 1
           /\ broker_time(s) \in Nat
           /\ 2 * broker_time(s) <= s.now + s.phase /\ s.now + s.phase <= 2 * broker_time(s) + 1
<1>1. s.now \in Nat /\ s.now + s.phase \in Nat
  BY Fields
<1> QED
  BY <1>1, Seconds DEF client_time, broker_time

\* What is in the past is not after the client's time.
LEMMA NotLater ==
    ASSUME NEW s \in KeepStates, NEW n \in Nat, 2 * n <= s.now
    PROVE  n <= client_time(s)
<1>1. s.now \in Nat /\ client_time(s) \in Nat /\ s.now <= 2 * client_time(s) + 1
  BY Clocks, Fields
<1> QED
  BY <1>1

\* What the client writes.
LEMMA Written ==
    ASSUME NEW s \in KeepStates, NEW type \in {"PINGREQ", "PUBLISH"}
    PROVE  LET r == packet_write(s, type)
           IN /\ r \in KeepStates
              /\ r.k = s.k /\ r.now = s.now /\ r.phase = s.phase /\ r.b = s.b /\ r.down = s.down
              /\ r.dead = s.dead /\ r.sends = s.sends /\ r.up = Queued(s, s.up, type)
              /\ r.c = [s.c EXCEPT !.last_msg_out = client_time(s)]
<1> DEFINE t == [s EXCEPT !.up = Queued(s, @, type)]
<1>1. client_time(s) \in Nat
  BY Seconds DEF client_time, KeepStates
<1>2. packet_write(s, type) = [t EXCEPT !.c.last_msg_out = client_time(s)]
  BY KeepSent, Zenon DEF packet_write
<1>3. /\ t \in KeepStates /\ t.k = s.k /\ t.now = s.now /\ t.phase = s.phase /\ t.b = s.b
      /\ t.c = s.c /\ t.down = s.down /\ t.dead = s.dead /\ t.sends = s.sends
      /\ t.up = Queued(s, s.up, type)
  BY KeepSent DEF KeepStates
<1> HIDE DEF t
<1>4. [s.c EXCEPT !.last_msg_out = client_time(s)] \in ClientStates
  BY <1>1 DEF KeepStates, ClientStates
<1> QED
  BY <1>2, <1>3, <1>4 DEF KeepStates

\* The next packet that the broker will read was sent in time, whether it was
\* queued before or is the one that is sent now.
LEMMA NextInTime ==
    ASSUME NEW s \in KeepStates, s.k # NULL, Sound(s), s.dead = NULL,
           NEW type \in {"PINGREQ", "PUBLISH"}
    PROVE  LET q == Queued(s, s.up, type)
           IN /\ q # <<>> /\ s.now - q[1].age < 2 * (s.k + s.b.last_msg_in) + LoopTime
              /\ \A i \in DOMAIN s.up : i \in DOMAIN q /\ q[i] = s.up[i]
              /\ \E i \in DOMAIN q : q[i] = [type |-> type, age |-> 0]
<1> DEFINE p == [type |-> type, age |-> 0]
           q == Append(s.up, p)
<1>1. p \in KeepPacket /\ p.age = 0 /\ s.up \in Seq(KeepPacket)
  BY KeepAssumption DEF KeepPacket, KeepStates
<1>2. /\ q # <<>>
      /\ s.up = <<>> => q[1] = p
      /\ s.up # <<>> => q[1] = s.up[1]
      /\ \A i \in DOMAIN s.up : i \in DOMAIN q /\ q[i] = s.up[i]
      /\ \E i \in DOMAIN q : q[i] = p
  BY <1>1, AppendPacket
<1> HIDE DEF p, q
<1>3. CASE s.up = <<>>
  <2>1. s.b.last_msg_in >= s.c.last_msg_out /\ s.c.sock
    BY <1>3 DEF Sound, Alive
  <2>2. s.now - s.c.idle < 2 * (s.k + s.c.last_msg_out)
    BY <2>1 DEF Sound, ClientLooked
  <2>3. s.now < 2 * (s.k + s.b.last_msg_in) + LoopTime
    BY <2>1, <2>2, Fields
  <2>4. s.now - q[1].age = s.now
    BY <1>1, <1>2, <1>3 DEF KeepStates
  <2> QED
    BY <1>2, <2>3, <2>4 DEF Queued, p, q
<1>4. CASE s.up # <<>>
  BY <1>2, <1>4 DEF Sound, Alive, Queued, p, q
<1> QED
  BY <1>3, <1>4

\* A message is published.
LEMMA WriteSound ==
    ASSUME NEW s \in KeepStates, s.k # NULL, Sound(s)
    PROVE  Sound(packet_write(s, "PUBLISH"))
<1> DEFINE r == packet_write(s, "PUBLISH")
           q == Queued(s, s.up, "PUBLISH")
<1>1. /\ r.c = [s.c EXCEPT !.last_msg_out = client_time(s)] /\ r \in KeepStates
      /\ r.k = s.k /\ r.now = s.now /\ r.phase = s.phase /\ r.b = s.b /\ r.down = s.down
      /\ r.dead = s.dead /\ r.up = q
  BY Written, Zenon
<1>2. /\ r.k = s.k /\ r.now = s.now /\ r.phase = s.phase /\ r.b = s.b /\ r.down = s.down
      /\ r.dead = s.dead /\ r.up = q /\ r.c.last_msg_out = client_time(s)
      /\ r.c.sock = s.c.sock /\ r.c.last_msg_in = s.c.last_msg_in /\ r.c.ping_t = s.c.ping_t
      /\ r.c.idle = s.c.idle /\ r.c.told = s.c.told
  BY <1>1 DEF KeepStates, ClientStates
<1>3. /\ client_time(s) \in Nat /\ 2 * client_time(s) <= s.now /\ s.now <= 2 * client_time(s) + 1
  BY Clocks
<1> HIDE DEF r
<1>4. Past(r)
  BY <1>2, <1>3, SMTT(30) DEF Sound, Past, Queued
<1>5. ClientLooked(r)
  <2>1. s.c.last_msg_out <= client_time(s)
    BY Fields, NotLater DEF Sound, Past
  <2>2. s.now - s.c.idle < 2 * (s.k + s.c.last_msg_out) =>
           s.now - s.c.idle < 2 * (s.k + client_time(s))
    BY <1>3, <2>1, Fields
  <2> QED
    BY <1>2, <2>2 DEF Sound, ClientLooked
<1>6. BrokerLooked(r) /\ AfterDeath(r)
  BY <1>2 DEF Sound, BrokerLooked, AfterDeath
<1>7. Alive(r)
  <2> SUFFICES ASSUME s.dead = NULL
               PROVE  Alive(r)
    BY <1>2 DEF Alive
  <2>1. /\ q # <<>> /\ s.now - q[1].age < 2 * (s.k + s.b.last_msg_in) + LoopTime
        /\ \A i \in DOMAIN s.up : i \in DOMAIN q /\ q[i] = s.up[i]
    BY NextInTime
  <2> HIDE DEF q
  <2>2. s.c.ping_t # NULL => Answering(r)
    BY <1>2, <2>1 DEF Sound, Alive, Answering
  <2>3. s.c.ping_t # NULL => client_time(s) >= s.c.ping_t
    BY Fields, NotLater DEF Sound, Past
  <2> QED
    BY <1>2, <2>1, <2>2, <2>3 DEF Sound, Alive
<1> QED
  BY <1>4, <1>5, <1>6, <1>7 DEF Sound, r

\* The client as it is after a ping, as its first check leaves it.
Pinged(s) ==
    [_mosquitto_send_pingreq(s) EXCEPT !.c.last_msg_in = client_time(s), !.c.last_msg_out = client_time(s)]

\* What a ping changes.
LEMMA PingFields ==
    ASSUME NEW s \in KeepStates
    PROVE  LET r == Pinged(s)
           IN /\ r \in KeepStates
              /\ r.k = s.k /\ r.now = s.now /\ r.phase = s.phase /\ r.b = s.b /\ r.down = s.down
              /\ r.dead = s.dead /\ r.sends = s.sends /\ r.up = Queued(s, s.up, "PINGREQ")
              /\ r.c = [s.c EXCEPT !.last_msg_in = client_time(s), !.last_msg_out = client_time(s),
                                   !.ping_t = client_time(s)]
<1> DEFINE w == packet_write(s, "PINGREQ")
           v == [w EXCEPT !.c.ping_t = client_time(s)]
           u == [v EXCEPT !.c.last_msg_in = client_time(s)]
<1>1. /\ w \in KeepStates
      /\ w.k = s.k /\ w.now = s.now /\ w.phase = s.phase /\ w.b = s.b /\ w.down = s.down
      /\ w.dead = s.dead /\ w.sends = s.sends /\ w.up = Queued(s, s.up, "PINGREQ")
      /\ w.c = [s.c EXCEPT !.last_msg_out = client_time(s)]
  BY Written, Zenon
<1>2. Pinged(s) = [u EXCEPT !.c.last_msg_out = client_time(s)]
  BY DEF Pinged, _mosquitto_send_pingreq
<1>3. client_time(s) \in Nat /\ s.c \in ClientStates
  BY Clocks DEF KeepStates
<1> HIDE DEF w
<1>4. /\ v \in KeepStates
      /\ v.k = s.k /\ v.now = s.now /\ v.phase = s.phase /\ v.b = s.b /\ v.down = s.down
      /\ v.dead = s.dead /\ v.sends = s.sends /\ v.up = Queued(s, s.up, "PINGREQ")
      /\ v.c = [s.c EXCEPT !.last_msg_out = client_time(s), !.ping_t = client_time(s)]
  <2>1. [w.c EXCEPT !.ping_t = client_time(s)] \in ClientStates
    BY <1>1, <1>3 DEF ClientStates
  <2> QED
    BY <1>1, <2>1 DEF KeepStates
<1> HIDE DEF v
<1>5. /\ u \in KeepStates
      /\ u.k = s.k /\ u.now = s.now /\ u.phase = s.phase /\ u.b = s.b /\ u.down = s.down
      /\ u.dead = s.dead /\ u.sends = s.sends /\ u.up = Queued(s, s.up, "PINGREQ")
      /\ u.c = [v.c EXCEPT !.last_msg_in = client_time(s)]
  <2>1. [v.c EXCEPT !.last_msg_in = client_time(s)] \in ClientStates
    BY <1>3, <1>4 DEF ClientStates
  <2> QED
    BY <1>4, <2>1 DEF KeepStates
<1> HIDE DEF u
<1>6. u.c = [s.c EXCEPT !.last_msg_in = client_time(s), !.last_msg_out = client_time(s),
                        !.ping_t = client_time(s)]
  BY <1>3, <1>4, <1>5 DEF ClientStates
<1>7. [u.c EXCEPT !.last_msg_out = client_time(s)] = u.c
  BY <1>3, <1>6 DEF ClientStates
<1>8. [u EXCEPT !.c.last_msg_out = client_time(s)] = u
  BY <1>5, <1>7 DEF KeepStates
<1> QED
  BY <1>2, <1>5, <1>6, <1>8

\* The two checks: nothing is overdue, or a ping is sent, or the socket is closed
\* because a ping was not answered.
LEMMA Misc ==
    ASSUME NEW s \in KeepStates, s.k # NULL
    PROVE  LET r == mosquitto_loop_misc(s)
           IN \/ /\ r = s /\ ~is_silent(s)
                 /\ s.c.ping_t # NULL => client_time(s) - s.c.ping_t < s.k
              \/ r = Pinged(s) /\ s.c.ping_t = NULL
              \/ /\ r \in {closed(s), closed(closed(s))} /\ s.c.ping_t # NULL
                 /\ is_silent(s) \/ client_time(s) - s.c.ping_t >= s.k
<1> DEFINE t == check_keepalive(s)
           r == mosquitto_loop_misc(s)
<1>1. s.k \in Nat /\ s.k > 0 /\ client_time(s) \in Nat /\ NULL \notin Nat
  BY Fields, Clocks, KeepAssumption
<1>2. CASE ~is_silent(s)
  <2>1. t = s
    BY <1>2 DEF check_keepalive
  <2>2. r = IF s.c.ping_t # NULL /\ client_time(s) - s.c.ping_t >= s.k THEN closed(s) ELSE s
    BY <2>1 DEF mosquitto_loop_misc
  <2>3. s.c.ping_t # NULL => s.c.ping_t \in Nat
    BY Fields
  <2> QED
    BY <1>1, <1>2, <2>2, <2>3
<1>3. CASE is_silent(s) /\ s.c.ping_t = NULL
  <2>1. t = Pinged(s)
    BY <1>3 DEF check_keepalive, Pinged
  <2>2. Pinged(s).c.ping_t = client_time(s) /\ Pinged(s).k = s.k
    <3>1. /\ Pinged(s).k = s.k 
          /\ Pinged(s).c = [s.c EXCEPT !.last_msg_in = client_time(s),
                               !.last_msg_out = client_time(s), !.ping_t = client_time(s)]
      BY PingFields
    <3>2. s.c \in ClientStates
      BY DEF KeepStates
    <3> QED
      BY <3>1, <3>2 DEF ClientStates
  <2>3. ~(client_time(s) - client_time(s) >= s.k)
    BY <1>1
  <2>4. r = Pinged(s)
    BY <2>1, <2>2, <2>3 DEF mosquitto_loop_misc
  <2> QED
    BY <1>3, <2>4
<1>4. CASE is_silent(s) /\ s.c.ping_t # NULL
  <2>1. t = closed(s)
    BY <1>4 DEF check_keepalive
  <2>2. r \in {closed(s), closed(closed(s))}
    BY <2>1 DEF mosquitto_loop_misc
  <2> QED
    BY <1>4, <2>2
<1> QED
  BY <1>2, <1>3, <1>4

\* There is time for a packet and its answer before a ping counts as unanswered.
LEMMA Room ==
    ASSUME NEW k \in Keepalives
    PROVE  /\ k \in Nat /\ k > 0 /\ Delay < k
           /\ 2 * k + LoopTime + Delay < 2 * ((k * 3) \div 2)
<1>1. k \in Nat /\ k # 0 /\ LoopTime \in Nat /\ Delay \in Nat
  BY KeepAssumption
<1>2. (LoopTime + Delay) \div 2 < k \div 2
  BY RoomAssumption
<1>3. (k * 3) \div 2 = k + k \div 2
  BY <1>1
<1>4. LoopTime + Delay + 1 <= 2 * ((LoopTime + Delay) \div 2) + 2
  BY <1>1
<1> QED
  BY <1>1, <1>2, <1>3, <1>4

\* A ping of a connection that carries packets has not been outstanding for the
\* keepalive time.
LEMMA PingAnswered ==
    ASSUME NEW s \in KeepStates, s.k # NULL, Sound(s), s.dead = NULL, s.c.ping_t # NULL
    PROVE  client_time(s) - s.c.ping_t < s.k /\ ~is_silent(s)
<1>1. /\ s.c.last_msg_in >= s.c.ping_t /\ s.c.last_msg_out >= s.c.ping_t
      /\ Answering(s)
  BY DEF Sound, Alive
<1>2. /\ s.now \in Nat /\ s.c.ping_t \in Nat /\ s.c.last_msg_in \in Nat
      /\ s.c.last_msg_out \in Nat /\ s.k \in Nat /\ Delay \in Nat
      /\ client_time(s) \in Nat /\ 2 * client_time(s) <= s.now
  BY Fields, Clocks
<1>3. s.now <= 2 * s.c.ping_t + 1 + 2 * Delay
  <2>1. CASE \E i \in DOMAIN s.up :
                s.up[i].type = "PINGREQ" /\ s.now - s.up[i].age <= 2 * s.c.ping_t + 1
    <3>1. PICK i \in DOMAIN s.up : s.now - s.up[i].age <= 2 * s.c.ping_t + 1
      BY <2>1
    <3>2. s.up[i] \in KeepPacket
      BY <3>1, Fields, ElementOfSeq, LenProperties
    <3>3. s.up[i].age \in 0..Delay
      BY <3>2 DEF KeepPacket
    <3> QED
      BY <1>2, <3>1, <3>3
  <2>2. CASE \E i \in DOMAIN s.down :
                /\ s.down[i].type = "PINGRESP"
                /\ s.now - s.down[i].age <= 2 * s.c.ping_t + 1 + Delay
    <3>1. PICK i \in DOMAIN s.down : s.now - s.down[i].age <= 2 * s.c.ping_t + 1 + Delay
      BY <2>2
    <3>2. s.down[i] \in KeepPacket
      BY <3>1, Fields, ElementOfSeq, LenProperties
    <3>3. s.down[i].age \in 0..Delay
      BY <3>2 DEF KeepPacket
    <3> QED
      BY <1>2, <3>1, <3>3
  <2> QED
    BY <1>1, <2>1, <2>2 DEF Answering
<1>4. Delay < s.k
  BY Room DEF KeepStates
<1>5. client_time(s) - s.c.ping_t < s.k
  BY <1>2, <1>3, <1>4
<1>6. client_time(s) - s.c.last_msg_in < s.k /\ client_time(s) - s.c.last_msg_out < s.k
  BY <1>1, <1>2, <1>5
<1> QED
  BY <1>2, <1>5, <1>6 DEF is_silent

\* The sleep of the loop starts anew.
LEMMA Awake ==
    ASSUME NEW s \in KeepStates
    PROVE  LET r == [s EXCEPT !.c.idle = 0]
           IN /\ r \in KeepStates
              /\ r.k = s.k /\ r.now = s.now /\ r.phase = s.phase /\ r.b = s.b /\ r.up = s.up
              /\ r.down = s.down /\ r.dead = s.dead /\ r.sends = s.sends
              /\ r.c.sock = s.c.sock /\ r.c.last_msg_in = s.c.last_msg_in
              /\ r.c.last_msg_out = s.c.last_msg_out /\ r.c.ping_t = s.c.ping_t
              /\ r.c.idle = 0 /\ r.c.told = s.c.told
<1> DEFINE c == [s.c EXCEPT !.idle = 0]
<1>1. s.c \in ClientStates /\ 0 \in 0..LoopTime
  BY KeepAssumption DEF KeepStates
<1>2. /\ c \in ClientStates
      /\ c.sock = s.c.sock /\ c.last_msg_in = s.c.last_msg_in
      /\ c.last_msg_out = s.c.last_msg_out /\ c.ping_t = s.c.ping_t
      /\ c.idle = 0 /\ c.told = s.c.told
  BY <1>1 DEF ClientStates
<1>3. [s EXCEPT !.c.idle = 0] = [s EXCEPT !.c = c]
  OBVIOUS
<1> HIDE DEF c
<1> QED
  BY <1>2, <1>3 DEF KeepStates

\* The ping that is sent keeps what the theorem needs to know.
LEMMA PingSound ==
    ASSUME NEW s \in KeepStates, s.k # NULL, Sound(s), s.c.sock, s.c.ping_t = NULL
    PROVE  LET r == [Pinged(s) EXCEPT !.c.idle = 0]
           IN r \in KeepStates /\ r.k = s.k /\ Sound(r)
<1> DEFINE p == Pinged(s)
           r == [p EXCEPT !.c.idle = 0]
           q == Queued(s, s.up, "PINGREQ")
           t == client_time(s)
<1>1. /\ p \in KeepStates
      /\ p.k = s.k /\ p.now = s.now /\ p.phase = s.phase /\ p.b = s.b /\ p.down = s.down
      /\ p.dead = s.dead /\ p.sends = s.sends /\ p.up = q
      /\ p.c = [s.c EXCEPT !.last_msg_in = t, !.last_msg_out = t, !.ping_t = t]
  BY PingFields, Zenon
<1>2. t \in Nat /\ 2 * t <= s.now /\ s.now <= 2 * t + 1 /\ s.c \in ClientStates
  BY Clocks DEF KeepStates
<1> HIDE DEF p, t
<1>3. /\ r \in KeepStates
      /\ r.k = s.k /\ r.now = s.now /\ r.phase = s.phase /\ r.b = s.b /\ r.down = s.down
      /\ r.dead = s.dead /\ r.up = q
      /\ r.c.sock = p.c.sock /\ r.c.last_msg_in = p.c.last_msg_in
      /\ r.c.last_msg_out = p.c.last_msg_out /\ r.c.ping_t = p.c.ping_t
      /\ r.c.idle = 0 /\ r.c.told = p.c.told
  BY <1>1, Awake
<1>4. /\ r.c.sock = s.c.sock /\ r.c.last_msg_in = t /\ r.c.last_msg_out = t
      /\ r.c.ping_t = t /\ r.c.idle = 0 /\ r.c.told = s.c.told
  BY <1>1, <1>2, <1>3 DEF ClientStates
<1> HIDE DEF r
<1>5. t # NULL /\ s.k \in Nat /\ s.k > 0 /\ s.now \in Nat
  BY <1>2, Fields, KeepAssumption
<1>6. Past(r)
  BY <1>2, <1>3, <1>4 DEF Sound, Past, Queued
<1>7. ClientLooked(r)
  <2>1. s.now - 0 < 2 * (s.k + t)
    BY <1>2, <1>5
  <2> QED
    BY <1>3, <1>4, <2>1 DEF ClientLooked
<1>8. BrokerLooked(r)
  BY <1>3 DEF Sound, BrokerLooked
<1>9. AfterDeath(r)
  <2> SUFFICES ASSUME s.dead # NULL
               PROVE  2 * t <= s.dead + 2 * s.k + LoopTime
    BY <1>3, <1>4, <1>5 DEF Sound, AfterDeath
  <2>1. 2 * s.c.last_msg_in <= s.dead /\ s.now - s.c.idle < 2 * (s.k + s.c.last_msg_in)
    BY DEF Sound, AfterDeath, ClientLooked
  <2>2. /\ s.c.last_msg_in \in Nat /\ s.dead \in Nat /\ s.c.idle \in Nat
        /\ s.c.idle <= LoopTime /\ LoopTime \in Nat
    BY Fields
  <2> QED
    BY <1>2, <1>5, <2>1, <2>2
<1>10. Alive(r)
  <2> SUFFICES ASSUME s.dead = NULL
               PROVE  Alive(r)
    BY <1>3 DEF Alive
  <2>1. /\ q # <<>> /\ s.now - q[1].age < 2 * (s.k + s.b.last_msg_in) + LoopTime
        /\ \E i \in DOMAIN q : q[i] = [type |-> "PINGREQ", age |-> 0]
    BY NextInTime
  <2> HIDE DEF q
  <2>2. Answering(r)
    <3>1. PICK i \in DOMAIN q : q[i] = [type |-> "PINGREQ", age |-> 0]
      BY <2>1
    <3>2. q[i].type = "PINGREQ" /\ s.now - q[i].age <= 2 * t + 1
      BY <1>2, <1>5, <3>1
    <3> QED
      BY <1>3, <1>4, <3>2 DEF Answering
  <2>3. t >= t /\ s.c.sock /\ s.b.sock
    BY <1>2 DEF Sound, Alive
  <2> QED
    BY <1>3, <1>4, <2>1, <2>2, <2>3 DEF Alive
<1> QED
  BY <1>3, <1>6, <1>7, <1>8, <1>9, <1>10 DEF Sound, r, p

\* What a check changes that closes the socket.
LEMMA Closed ==
    ASSUME NEW s \in KeepStates, s.c.told < 2
    PROVE  LET r == closed(s)
           IN /\ r \in KeepStates
              /\ r.k = s.k /\ r.now = s.now /\ r.phase = s.phase /\ r.b = s.b /\ r.up = s.up
              /\ r.down = s.down /\ r.dead = s.dead
              /\ ~r.c.sock /\ r.c.told = s.c.told + 1 /\ r.c.last_msg_in = s.c.last_msg_in
              /\ r.c.last_msg_out = s.c.last_msg_out /\ r.c.ping_t = s.c.ping_t
<1> DEFINE u == [s EXCEPT !.c.sock = FALSE]
           r == [u EXCEPT !.c.told = @ + 1]
<1>1. s.c \in ClientStates /\ s.c.told \in 0..2 /\ s.c.told + 1 \in 0..2
  <2>1. s.c \in ClientStates
    BY DEF KeepStates
  <2>2. s.c.told \in 0..2
    BY <2>1 DEF ClientStates
  <2> QED
    BY <2>1, <2>2
<1>2. /\ u \in KeepStates
      /\ u.k = s.k /\ u.now = s.now /\ u.phase = s.phase /\ u.b = s.b /\ u.up = s.up
      /\ u.down = s.down /\ u.dead = s.dead /\ u.sends = s.sends
      /\ u.c = [s.c EXCEPT !.sock = FALSE]
  <2>1. [s.c EXCEPT !.sock = FALSE] \in ClientStates
    BY <1>1 DEF ClientStates
  <2> QED
    BY <2>1 DEF KeepStates
<1>3. closed(s) = r
  BY DEF closed
<1> HIDE DEF u
<1>4. /\ u.c \in ClientStates /\ u.c.sock = FALSE /\ u.c.told = s.c.told
      /\ u.c.last_msg_in = s.c.last_msg_in /\ u.c.last_msg_out = s.c.last_msg_out
      /\ u.c.ping_t = s.c.ping_t
  BY <1>1, <1>2 DEF ClientStates
<1>5. [u.c EXCEPT !.told = @ + 1] = [u.c EXCEPT !.told = s.c.told + 1]
  BY <1>4
<1>6. [u.c EXCEPT !.told = s.c.told + 1] \in ClientStates
  BY <1>1, <1>4 DEF ClientStates
<1>7. /\ r \in KeepStates
      /\ r.k = s.k /\ r.now = s.now /\ r.phase = s.phase /\ r.b = s.b /\ r.up = s.up
      /\ r.down = s.down /\ r.dead = s.dead
      /\ r.c = [u.c EXCEPT !.told = s.c.told + 1]
  BY <1>2, <1>5, <1>6 DEF KeepStates
<1> HIDE DEF r
<1>8. /\ r.c.sock = FALSE /\ r.c.told = s.c.told + 1 /\ r.c.last_msg_in = s.c.last_msg_in
      /\ r.c.last_msg_out = s.c.last_msg_out /\ r.c.ping_t = s.c.ping_t
  BY <1>4, <1>7 DEF ClientStates
<1> QED
  BY <1>3, <1>7, <1>8

\* An unanswered ping means that nothing has arrived for a while: only then is the
\* socket closed.
LEMMA CloseSound ==
    ASSUME NEW s \in KeepStates, s.k # NULL, Sound(s), s.c.sock, s.dead # NULL,
           NEW x \in {closed(s), closed(closed(s))}
    PROVE  LET r == [x EXCEPT !.c.idle = 0]
           IN r \in KeepStates /\ r.k = s.k /\ Sound(r)
<1> DEFINE r == [x EXCEPT !.c.idle = 0]
<1>1. s.c.told = 0
  BY DEF Sound, Past
<1>2. /\ closed(s) \in KeepStates /\ closed(s).c.told = 1
      /\ closed(closed(s)) \in KeepStates /\ closed(closed(s)).c.told = 2
  <2>1. closed(s) \in KeepStates /\ closed(s).c.told = 1
    BY <1>1, Closed
  <2> QED
    BY <2>1, Closed
<1>3. /\ x \in KeepStates
      /\ x.k = s.k /\ x.now = s.now /\ x.phase = s.phase /\ x.b = s.b /\ x.up = s.up
      /\ x.down = s.down /\ x.dead = s.dead
      /\ ~x.c.sock /\ x.c.told \in {1, 2} /\ x.c.last_msg_in = s.c.last_msg_in
      /\ x.c.last_msg_out = s.c.last_msg_out /\ x.c.ping_t = s.c.ping_t
  BY <1>1, <1>2, Closed
<1>5. /\ r \in KeepStates
      /\ r.k = s.k /\ r.now = s.now /\ r.phase = s.phase /\ r.b = s.b /\ r.up = s.up
      /\ r.down = s.down /\ r.dead = s.dead
      /\ ~r.c.sock /\ r.c.told \in {1, 2} /\ r.c.last_msg_in = s.c.last_msg_in
      /\ r.c.last_msg_out = s.c.last_msg_out /\ r.c.ping_t = s.c.ping_t
  BY <1>3, Awake
<1> HIDE DEF r
<1>6. Past(r)
  BY <1>5 DEF Sound, Past
<1>7. ClientLooked(r) /\ BrokerLooked(r) /\ AfterDeath(r) /\ Alive(r)
  BY <1>5 DEF Sound, ClientLooked, BrokerLooked, AfterDeath, Alive
<1> QED
  BY <1>5, <1>6, <1>7 DEF Sound, r

\* The end of an iteration of the client's loop.
LEMMA MiscSound ==
    ASSUME NEW s \in KeepStates, s.k # NULL, Sound(s), s.c.sock
    PROVE  LET r == [mosquitto_loop_misc(s) EXCEPT !.c.idle = 0]
           IN r \in KeepStates /\ r.k = s.k /\ Sound(r)
<1>1. CASE /\ mosquitto_loop_misc(s) = s /\ ~is_silent(s)
           /\ s.c.ping_t # NULL => client_time(s) - s.c.ping_t < s.k
  <2> DEFINE r == [s EXCEPT !.c.idle = 0]
  <2>1. /\ r \in KeepStates
        /\ r.k = s.k /\ r.now = s.now /\ r.phase = s.phase /\ r.b = s.b /\ r.up = s.up
        /\ r.down = s.down /\ r.dead = s.dead
        /\ r.c.sock = s.c.sock /\ r.c.last_msg_in = s.c.last_msg_in
        /\ r.c.last_msg_out = s.c.last_msg_out /\ r.c.ping_t = s.c.ping_t
        /\ r.c.idle = 0 /\ r.c.told = s.c.told
    BY Awake
  <2> HIDE DEF r
  <2>2. /\ s.now \in Nat /\ client_time(s) \in Nat /\ s.now <= 2 * client_time(s) + 1
        /\ s.k \in Nat /\ s.c.last_msg_in \in Nat /\ s.c.last_msg_out \in Nat
        /\ s.c.ping_t # NULL => s.c.ping_t \in Nat
    BY Fields, Clocks
  <2>3. \A n \in Nat : client_time(s) - n < s.k => s.now - 0 < 2 * (s.k + n)
    BY <2>2
  <2>4. client_time(s) - s.c.last_msg_in < s.k /\ client_time(s) - s.c.last_msg_out < s.k
    BY <1>1, <2>2 DEF is_silent
  <2>5. ClientLooked(r)
    BY <1>1, <2>1, <2>2, <2>3, <2>4 DEF ClientLooked
  <2>6. Past(r) /\ BrokerLooked(r) /\ AfterDeath(r) /\ Alive(r)
    BY <2>1 DEF Sound, Past, BrokerLooked, AfterDeath, Alive, Answering
  <2> QED
    BY <1>1, <2>1, <2>5, <2>6 DEF Sound, r
<1>2. CASE mosquitto_loop_misc(s) = Pinged(s) /\ s.c.ping_t = NULL
  BY <1>2, PingSound
<1>3. CASE /\ mosquitto_loop_misc(s) \in {closed(s), closed(closed(s))} /\ s.c.ping_t # NULL
           /\ is_silent(s) \/ client_time(s) - s.c.ping_t >= s.k
  <2>1. s.dead # NULL
    <3> SUFFICES ASSUME s.dead = NULL
                 PROVE  FALSE
      OBVIOUS
    <3>1. client_time(s) - s.c.ping_t < s.k /\ ~is_silent(s)
      BY <1>3, PingAnswered
    <3>2. client_time(s) \in Nat /\ s.c.ping_t \in Nat /\ s.k \in Nat
      BY <1>3, Fields, Clocks
    <3> QED
      BY <1>3, <3>1, <3>2
  <2> QED
    BY <1>3, <2>1, CloseSound
<1> QED
  BY <1>1, <1>2, <1>3, Misc

\* What the client changes when it reads a packet.
LEMMA ReadFields ==
    ASSUME NEW s \in KeepStates, s.down # <<>>
    PROVE  LET r == packet_read(s)
           IN /\ r \in KeepStates
              /\ r.k = s.k /\ r.now = s.now /\ r.phase = s.phase /\ r.b = s.b /\ r.up = s.up
              /\ r.down = Tail(s.down) /\ r.dead = s.dead
              /\ r.c.sock = s.c.sock /\ r.c.last_msg_in = client_time(s)
              /\ r.c.last_msg_out = s.c.last_msg_out /\ r.c.idle = s.c.idle
              /\ r.c.told = s.c.told
              /\ r.c.ping_t = IF s.down[1].type = "PINGRESP" THEN NULL ELSE s.c.ping_t
<1> DEFINE rest == [s EXCEPT !.down = Tail(@)]
           pong == [rest EXCEPT !.c.ping_t = NULL]
           handled == IF Head(s.down).type = "PINGRESP" THEN pong ELSE rest
           r == [handled EXCEPT !.c.last_msg_in = client_time(s)]
<1>1. /\ Tail(s.down) \in Seq(KeepPacket) /\ Head(s.down) = s.down[1]
      /\ client_time(s) \in Nat /\ s.c \in ClientStates
  BY Fields, Clocks, TailPacket DEF KeepStates
<1>2. packet_read(s) = r
  BY DEF packet_read, _mosquitto_handle_pingresp
<1>3. /\ rest \in KeepStates
      /\ rest.k = s.k /\ rest.now = s.now /\ rest.phase = s.phase /\ rest.b = s.b
      /\ rest.up = s.up /\ rest.down = Tail(s.down) /\ rest.dead = s.dead
      /\ rest.sends = s.sends /\ rest.c = s.c
  BY <1>1 DEF KeepStates
<1> HIDE DEF rest
<1>4. /\ pong \in KeepStates
      /\ pong.k = s.k /\ pong.now = s.now /\ pong.phase = s.phase /\ pong.b = s.b
      /\ pong.up = s.up /\ pong.down = Tail(s.down) /\ pong.dead = s.dead
      /\ pong.sends = s.sends /\ pong.c = [s.c EXCEPT !.ping_t = NULL]
  <2>1. [s.c EXCEPT !.ping_t = NULL] \in ClientStates
    BY <1>1 DEF ClientStates
  <2> QED
    BY <1>3, <2>1 DEF KeepStates
<1> HIDE DEF pong
<1>5. PICK p : /\ p = IF Head(s.down).type = "PINGRESP" THEN NULL ELSE s.c.ping_t
               /\ handled \in KeepStates /\ p \in Nat \cup {NULL}
               /\ handled.k = s.k /\ handled.now = s.now /\ handled.phase = s.phase
               /\ handled.b = s.b /\ handled.up = s.up /\ handled.down = Tail(s.down)
               /\ handled.dead = s.dead /\ handled.sends = s.sends
               /\ handled.c = [s.c EXCEPT !.ping_t = p]
  <2>1. s.c = [s.c EXCEPT !.ping_t = s.c.ping_t] /\ s.c.ping_t \in Nat \cup {NULL}
    BY <1>1 DEF ClientStates
  <2> QED
    BY <1>3, <1>4, <2>1
<1> HIDE DEF handled
<1> DEFINE c == [handled.c EXCEPT !.last_msg_in = client_time(s)]
<1>6. /\ c \in ClientStates
      /\ c.sock = s.c.sock /\ c.last_msg_in = client_time(s) /\ c.idle = s.c.idle
      /\ c.last_msg_out = s.c.last_msg_out /\ c.told = s.c.told /\ c.ping_t = p
  BY <1>1, <1>5 DEF ClientStates
<1>7. r = [handled EXCEPT !.c = c]
  OBVIOUS
<1> HIDE DEF c
<1>8. /\ r \in KeepStates
      /\ r.k = s.k /\ r.now = s.now /\ r.phase = s.phase /\ r.b = s.b /\ r.up = s.up
      /\ r.down = Tail(s.down) /\ r.dead = s.dead /\ r.c = c
  BY <1>5, <1>6, <1>7 DEF KeepStates
<1> QED
  BY <1>1, <1>2, <1>5, <1>6, <1>8

\* A packet is read.
LEMMA ReadSound ==
    ASSUME NEW s \in KeepStates, s.k # NULL, Sound(s), s.down # <<>>
    PROVE  Sound(packet_read(s))
<1> DEFINE r == packet_read(s)
<1>1. /\ r \in KeepStates
      /\ r.k = s.k /\ r.now = s.now /\ r.phase = s.phase /\ r.b = s.b /\ r.up = s.up
      /\ r.down = Tail(s.down) /\ r.dead = s.dead
      /\ r.c.sock = s.c.sock /\ r.c.last_msg_in = client_time(s)
      /\ r.c.last_msg_out = s.c.last_msg_out /\ r.c.idle = s.c.idle
      /\ r.c.told = s.c.told
      /\ r.c.ping_t = IF s.down[1].type = "PINGRESP" THEN NULL ELSE s.c.ping_t
  BY ReadFields
<1> HIDE DEF r
<1>2. s.dead = NULL
  BY DEF Sound, Past
<1>3. 2 * client_time(s) <= s.now /\ s.c.last_msg_in <= client_time(s)
  BY Fields, Clocks, NotLater DEF Sound, Past
<1>8. s.c.ping_t # NULL => s.c.ping_t <= client_time(s)
  BY Fields, NotLater DEF Sound, Past
<1>4. Past(r)
  BY <1>1, <1>2, <1>3 DEF Sound, Past
<1>5. ClientLooked(r)
  <2>1. s.now - s.c.idle < 2 * (s.k + s.c.last_msg_in) =>
           s.now - s.c.idle < 2 * (s.k + client_time(s))
    <3>1. /\ s.now \in Nat /\ s.k \in Nat /\ s.c.idle \in Nat /\ s.c.last_msg_in \in Nat
          /\ client_time(s) \in Nat
      BY Fields, Clocks
    <3> QED
      BY <1>3, <3>1, Later, Zenon
  <2> QED
    BY <1>1, <2>1 DEF Sound, ClientLooked
<1>6. BrokerLooked(r) /\ AfterDeath(r)
  BY <1>1, <1>2 DEF Sound, BrokerLooked, AfterDeath
<1>7. Alive(r)
  <2>1. r.c.ping_t # NULL => Answering(r)
    <3> SUFFICES ASSUME r.c.ping_t # NULL
                 PROVE  Answering(r)
      OBVIOUS
    <3>1. s.down[1].type # "PINGRESP" /\ r.c.ping_t = s.c.ping_t /\ Answering(s)
      BY <1>1, <1>2 DEF Sound, Alive
    <3>2. \A i \in DOMAIN s.down :
             i = 1 \/ (i - 1 \in DOMAIN Tail(s.down) /\ Tail(s.down)[i - 1] = s.down[i])
      BY Fields, TailPacket
    <3> QED
      BY <1>1, <3>1, <3>2 DEF Answering
  <2> QED
    BY <1>1, <1>2, <1>3, <1>8, <2>1 DEF Sound, Alive
<1> QED
  BY <1>4, <1>5, <1>6, <1>7 DEF Sound, r

-----------------------------------------------------------------------------
(* The broker, the time and the network.                                   *)

\* A packet of the client is read, and a ping is answered.
LEMMA BrokerReadSound ==
    ASSUME KeepInv, BrokerReads
    PROVE  KeepInv'
<1> DEFINE rest == [ka EXCEPT !.up = Tail(@)]
           pong == sent(rest, "down", "PINGRESP")
           handled == IF Head(ka.up).type = "PINGREQ" THEN pong ELSE rest
           r == [handled EXCEPT !.b.last_msg_in = broker_time(ka)]
<1>1. /\ ka \in KeepStates /\ ka.k # NULL /\ Sound(ka) /\ ka.up # <<>> /\ ka.b.sock
      /\ ka.dead = NULL
  BY DEF KeepInv, BrokerReads, Running, Sound, Past
<1>2. ka' = r
  BY DEF BrokerReads, _mosquitto_handle_pingreq, _mosquitto_send_pingresp
<1>3. /\ Tail(ka.up) \in Seq(KeepPacket) /\ ka.up[1] \in KeepPacket /\ Head(ka.up) = ka.up[1]
      /\ Tail(ka.up) # <<>> => Tail(ka.up)[1] \in KeepPacket
      /\ \A i \in DOMAIN ka.up :
            i = 1 \/ (i - 1 \in DOMAIN Tail(ka.up) /\ Tail(ka.up)[i - 1] = ka.up[i])
  BY <1>1, Fields, TailPacket
<1>4. /\ rest \in KeepStates
      /\ rest.k = ka.k /\ rest.now = ka.now /\ rest.phase = ka.phase /\ rest.b = ka.b
      /\ rest.up = Tail(ka.up) /\ rest.down = ka.down /\ rest.dead = NULL
      /\ rest.c = ka.c /\ rest.sends = ka.sends
  BY <1>1, <1>3 DEF KeepStates
<1> HIDE DEF rest
<1>5. /\ pong = [rest EXCEPT !.down = Queued(rest, @, "PINGRESP")]
      /\ Queued(rest, ka.down, "PINGRESP") = Append(ka.down, [type |-> "PINGRESP", age |-> 0])
      /\ Queued(rest, ka.down, "PINGRESP") \in Seq(KeepPacket)
  <2>1. /\ pong = [rest EXCEPT !.down = Queued(rest, @, "PINGRESP")]
        /\ Queued(rest, rest.down, "PINGRESP") \in Seq(KeepPacket)
    BY <1>4, KeepSent
  <2> QED
    BY <1>4, <2>1 DEF Queued
<1> HIDE DEF pong
<1>6. PICK d \in Seq(KeepPacket) :
         /\ d = IF ka.up[1].type = "PINGREQ"
                THEN Append(ka.down, [type |-> "PINGRESP", age |-> 0]) ELSE ka.down
         /\ handled \in KeepStates
         /\ handled.k = ka.k /\ handled.now = ka.now /\ handled.phase = ka.phase
         /\ handled.b = ka.b /\ handled.up = Tail(ka.up) /\ handled.down = d
         /\ handled.dead = NULL /\ handled.c = ka.c /\ handled.sends = ka.sends
  BY <1>1, <1>3, <1>4, <1>5 DEF KeepStates
<1> HIDE DEF handled
<1>7. broker_time(ka) \in Nat /\ ka.b \in BrokerStates
  BY <1>1, Clocks DEF KeepStates
<1> DEFINE b == [ka.b EXCEPT !.last_msg_in = broker_time(ka)]
<1>8. /\ b \in BrokerStates
      /\ b.sock = ka.b.sock /\ b.checked = ka.b.checked /\ b.last_msg_in = broker_time(ka)
  BY <1>7 DEF BrokerStates
<1>9. r = [handled EXCEPT !.b = b]
  BY <1>6
<1> HIDE DEF b
<1>10. /\ r \in KeepStates
       /\ r.k = ka.k /\ r.now = ka.now /\ r.phase = ka.phase /\ r.b = b
       /\ r.up = Tail(ka.up) /\ r.down = d /\ r.dead = NULL /\ r.c = ka.c
  BY <1>6, <1>8, <1>9 DEF KeepStates
<1> HIDE DEF r
<1>11. /\ ka.k \in Nat /\ ka.k > 0 /\ ka.now \in Nat /\ ka.phase \in Nat /\ ka.phase <= 1
       /\ ka.b.last_msg_in \in Nat /\ ka.c.last_msg_out \in Nat /\ LoopTime \in Nat
       /\ broker_time(ka) \in Nat /\ 2 * broker_time(ka) <= ka.now + ka.phase
       /\ ka.now + ka.phase <= 2 * broker_time(ka) + 1 /\ Delay \in Nat
  BY <1>1, Fields, Clocks
<1>12. broker_time(ka) >= ka.b.last_msg_in /\ broker_time(ka) >= ka.c.last_msg_out
  <2>1. 2 * ka.b.last_msg_in <= ka.now + ka.phase /\ 2 * ka.c.last_msg_out <= ka.now
    BY <1>1 DEF Sound, Past
  <2>2. 2 * ka.c.last_msg_out <= ka.now + ka.phase
    BY <1>11, <2>1
  <2>3. ka.b.last_msg_in <= broker_time(ka) /\ ka.c.last_msg_out <= broker_time(ka)
    BY <1>11, <2>1, <2>2, Shown, Zenon
  <2> QED
    BY <1>11, <2>3
<1>13. Past(r)
  BY <1>1, <1>8, <1>10, <1>11 DEF Sound, Past
<1>14. ClientLooked(r) /\ AfterDeath(r)
  BY <1>1, <1>10 DEF Sound, ClientLooked, AfterDeath
<1>15. BrokerLooked(r)
  <2>1. (ka.k * 3) \div 2 \in Nat /\ (ka.k * 3) \div 2 > 0
    BY <1>11, HalfAsLong, Zenon
  <2>2. /\ ka.now + ka.phase <= 2 * ((ka.k * 3) \div 2 + broker_time(ka))
        /\ ka.now + ka.phase < 2 * ((ka.k * 3) \div 2 + broker_time(ka))
    <3>1. ka.now + ka.phase \in Nat
      BY <1>11
    <3> QED
      BY <1>11, <2>1, <3>1, JustRead, Zenon
  <2> QED
    BY <1>8, <1>10, <2>2 DEF BrokerLooked
<1>16. Alive(r)
  <2>1. Tail(ka.up) # <<>> =>
           ka.now - Tail(ka.up)[1].age < 2 * (ka.k + broker_time(ka)) + LoopTime
    <3> SUFFICES ASSUME Tail(ka.up) # <<>>
                 PROVE  ka.now - Tail(ka.up)[1].age < 2 * (ka.k + broker_time(ka)) + LoopTime
      OBVIOUS
    <3>1. Tail(ka.up)[1].age \in Nat
      <4>1. Tail(ka.up)[1].age \in 0..Delay
        BY <1>3 DEF KeepPacket
      <4> QED
        BY <1>11, <4>1
    <3> QED
      BY <1>11, <3>1, SentBefore, Zenon
  <2>2. ka.c.ping_t # NULL => Answering(r)
    <3> SUFFICES ASSUME ka.c.ping_t # NULL
                 PROVE  Answering(r)
      OBVIOUS
    <3>1. ka.down \in Seq(KeepPacket) /\ [type |-> "PINGRESP", age |-> 0] \in KeepPacket
      BY <1>1, <1>11 DEF KeepStates, KeepPacket
    <3>2. \A i \in DOMAIN ka.down : i \in DOMAIN d /\ d[i] = ka.down[i]
      BY <1>6, <3>1, AppendPacket
    <3>3. CASE \E i \in DOMAIN ka.down :
                  /\ ka.down[i].type = "PINGRESP"
                  /\ ka.now - ka.down[i].age <= 2 * ka.c.ping_t + 1 + Delay
      BY <1>10, <3>2, <3>3 DEF Answering
    <3>4. CASE \E i \in DOMAIN ka.up :
                  ka.up[i].type = "PINGREQ" /\ ka.now - ka.up[i].age <= 2 * ka.c.ping_t + 1
      <4>1. PICK i \in DOMAIN ka.up :
                   ka.up[i].type = "PINGREQ" /\ ka.now - ka.up[i].age <= 2 * ka.c.ping_t + 1
        BY <3>4
      <4>2. CASE i = 1
        <5>1. ka.now - 0 <= 2 * ka.c.ping_t + 1 + Delay
          <6>1. ka.up[1].age \in 0..Delay
            BY <1>3 DEF KeepPacket
          <6>2. ka.c.ping_t \in Nat
            BY <1>1, Fields
          <6>3. ka.now - ka.up[1].age <= 2 * ka.c.ping_t + 1
            BY <4>1, <4>2
          <6> QED
            BY <1>11, <6>1, <6>2, <6>3, Answered, Zenon
        <5>2. \E j \in DOMAIN d : d[j] = [type |-> "PINGRESP", age |-> 0]
          BY <1>6, <3>1, <4>1, <4>2, AppendPacket
        <5>3. PICK j \in DOMAIN d : d[j].type = "PINGRESP" /\ d[j].age = 0
          BY <5>2
        <5> QED
          BY <1>10, <5>1, <5>3 DEF Answering
      <4>3. CASE i # 1
        BY <1>3, <1>10, <4>1, <4>3 DEF Answering
      <4> QED
        BY <4>2, <4>3
    <3> QED
      BY <1>1, <3>3, <3>4 DEF Sound, Alive, Answering
  <2> QED
    BY <1>1, <1>8, <1>10, <1>12, <2>1, <2>2 DEF Sound, Alive
<1> QED
  BY <1>1, <1>2, <1>10, <1>13, <1>14, <1>15, <1>16 DEF KeepInv, Sound

\* Another message is counted.
LEMMA CountSound ==
    ASSUME NEW s \in KeepStates, Sound(s)
    PROVE  LET r == [s EXCEPT !.sends = @ + 1]
           IN r \in KeepStates /\ r.k = s.k /\ Sound(r)
<1> DEFINE r == [s EXCEPT !.sends = @ + 1]
<1>1. /\ r \in KeepStates /\ r.k = s.k /\ r.now = s.now /\ r.phase = s.phase /\ r.c = s.c
      /\ r.b = s.b /\ r.up = s.up /\ r.down = s.down /\ r.dead = s.dead
  BY DEF KeepStates
<1> HIDE DEF r
<1>2. Past(r) /\ ClientLooked(r) /\ BrokerLooked(r) /\ AfterDeath(r)
  BY <1>1 DEF Sound, Past, ClientLooked, BrokerLooked, AfterDeath
<1>3. Alive(r)
  BY <1>1 DEF Sound, Alive, Answering
<1> QED
  BY <1>1, <1>2, <1>3 DEF Sound, r

\* An iteration of the client's loop.
LEMMA LoopSound ==
    ASSUME KeepInv, mosquitto_loop
    PROVE  KeepInv'
<1>1. ka \in KeepStates /\ ka.k # NULL /\ Sound(ka) /\ ka.c.sock
  BY DEF KeepInv, mosquitto_loop, Running
<1> SUFFICES ka' \in KeepStates /\ ka'.k = ka.k /\ Sound(ka')
  BY <1>1 DEF KeepInv
<1>2. CASE ka.down # <<>> /\ ka' = [mosquitto_loop_misc(packet_read(ka)) EXCEPT !.c.idle = 0]
  <2>1. /\ packet_read(ka) \in KeepStates /\ packet_read(ka).k = ka.k
        /\ packet_read(ka).c.sock = ka.c.sock
    BY <1>1, <1>2, ReadFields
  <2>2. Sound(packet_read(ka))
    BY <1>1, <1>2, ReadSound
  <2> QED
    BY <1>1, <1>2, <2>1, <2>2, MiscSound
<1>3. CASE ka' = [mosquitto_loop_misc(packet_write(ka, "PUBLISH"))
                     EXCEPT !.c.idle = 0, !.sends = @ + 1]
  <2> DEFINE w == packet_write(ka, "PUBLISH")
             r == [mosquitto_loop_misc(w) EXCEPT !.c.idle = 0]
  <2>1. w \in KeepStates /\ w.k = ka.k /\ w.c = [ka.c EXCEPT !.last_msg_out = client_time(ka)]
    BY <1>1, Written
  <2>2. w.c.sock = ka.c.sock
    BY <1>1, <2>1 DEF KeepStates, ClientStates
  <2>3. Sound(w)
    BY <1>1, WriteSound
  <2> HIDE DEF w
  <2>4. r \in KeepStates /\ r.k = ka.k /\ Sound(r)
    BY <1>1, <2>1, <2>2, <2>3, MiscSound
  <2>5. ka' = [r EXCEPT !.sends = @ + 1]
    BY <1>3 DEF w
  <2> HIDE DEF r
  <2> QED
    BY <2>4, <2>5, CountSound
<1>4. CASE ka' = [mosquitto_loop_misc(ka) EXCEPT !.c.idle = 0]
  BY <1>1, <1>4, MiscSound
<1> QED
  BY <1>2, <1>3, <1>4 DEF mosquitto_loop

\* The broker publishes.
LEMMA BrokerPublishSound ==
    ASSUME KeepInv, BrokerPublishes
    PROVE  KeepInv'
<1> DEFINE d == Queued(ka, ka.down, "PUBLISH")
           r == [ka EXCEPT !.down = d]
<1>1. ka \in KeepStates /\ ka.k # NULL /\ Sound(ka)
  BY DEF KeepInv, BrokerPublishes, Running
<1>2. sent(ka, "down", "PUBLISH") = r /\ d \in Seq(KeepPacket)
  BY <1>1, KeepSent, Zenon
<1>3. ka' = [r EXCEPT !.sends = @ + 1]
  BY <1>2, Zenon DEF BrokerPublishes
<1>4. ka.dead = NULL => \A i \in DOMAIN ka.down : i \in DOMAIN d /\ d[i] = ka.down[i]
  <2>1. ka.down \in Seq(KeepPacket) /\ [type |-> "PUBLISH", age |-> 0] \in KeepPacket
    BY <1>1, KeepAssumption DEF KeepStates, KeepPacket
  <2> QED
    BY <2>1, AppendPacket DEF Queued
<1>5. ka.dead # NULL => d = <<>>
  BY <1>1 DEF Queued, Sound, Past
<1> HIDE DEF d
<1>6. /\ r \in KeepStates /\ r.k = ka.k /\ r.now = ka.now /\ r.phase = ka.phase /\ r.c = ka.c
      /\ r.b = ka.b /\ r.up = ka.up /\ r.down = d /\ r.dead = ka.dead
  BY <1>1, <1>2 DEF KeepStates
<1> HIDE DEF r
<1>7. Past(r) /\ ClientLooked(r) /\ BrokerLooked(r) /\ AfterDeath(r)
  BY <1>1, <1>5, <1>6 DEF Sound, Past, ClientLooked, BrokerLooked, AfterDeath
<1>8. Alive(r)
  <2>1. ka.dead = NULL /\ Answering(ka) => Answering(r)
    BY <1>4, <1>6 DEF Answering
  <2> QED
    BY <1>1, <1>6, <2>1 DEF Sound, Alive
<1>9. Sound(r)
  BY <1>7, <1>8 DEF Sound
<1> QED
  BY <1>1, <1>3, <1>6, <1>9, CountSound DEF KeepInv

\* As long as packets arrive, a client is not found silent for half as long again as
\* it said: this is what the room is for.
LEMMA NotOverdue ==
    ASSUME NEW s \in KeepStates, s.k # NULL, Sound(s), s.dead = NULL
    PROVE  broker_time(s) - s.b.last_msg_in < (s.k * 3) \div 2
<1>1. /\ s.k \in Nat /\ s.k > 0 /\ s.now \in Nat /\ s.phase \in Nat /\ s.phase <= 1
      /\ s.b.last_msg_in \in Nat /\ s.c.last_msg_out \in Nat /\ LoopTime \in Nat /\ Delay \in Nat
      /\ s.c.idle \in Nat /\ s.c.idle <= LoopTime
      /\ broker_time(s) \in Nat /\ 2 * broker_time(s) <= s.now + s.phase
  BY Fields, Clocks
<1>2. (LoopTime + Delay) \div 2 < s.k \div 2
  BY RoomAssumption DEF KeepStates
<1>3. s.now < 2 * (s.k + s.b.last_msg_in) + LoopTime + Delay
  <2>1. CASE s.up = <<>>
    <3>1. s.b.last_msg_in >= s.c.last_msg_out /\ s.now - s.c.idle < 2 * (s.k + s.c.last_msg_out)
      BY <2>1 DEF Sound, Alive, ClientLooked
    <3> QED
      BY <1>1, <3>1
  <2>2. CASE s.up # <<>>
    <3>1. s.now - s.up[1].age < 2 * (s.k + s.b.last_msg_in) + LoopTime
      BY <2>2 DEF Sound, Alive
    <3>2. s.up[1].age \in 0..Delay
      <4>1. s.up[1] \in KeepPacket
        BY <2>2, Fields, TailPacket
      <4> QED
        BY <4>1 DEF KeepPacket
    <3> HIDE <2>2
    <3> QED
      BY <1>1, <3>1, <3>2
  <2> QED
    BY <2>1, <2>2
<1> QED
  BY <1>1, <1>2, <1>3

\* The broker looks at the client.
LEMMA CheckSound ==
    ASSUME KeepInv, BrokerChecks
    PROVE  KeepInv'
<1> DEFINE fresh == broker_time(ka) - ka.b.last_msg_in < (ka.k * 3) \div 2
           b == [ka.b EXCEPT !.checked = TRUE, !.sock = fresh]
           r == [ka EXCEPT !.b = b]
<1>1. ka \in KeepStates /\ ka.k # NULL /\ Sound(ka) /\ ka.b.sock
  BY DEF KeepInv, BrokerChecks, Running
<1>2. ka' = r
  BY DEF BrokerChecks
<1>3. /\ ka.k \in Nat /\ ka.k > 0 /\ ka.now + ka.phase \in Nat
      /\ ka.b.last_msg_in \in Nat /\ broker_time(ka) \in Nat
      /\ ka.now + ka.phase <= 2 * broker_time(ka) + 1
  BY <1>1, Fields, Clocks
<1>4. fresh => ka.now + ka.phase < 2 * ((ka.k * 3) \div 2 + ka.b.last_msg_in)
  BY <1>3
<1>5. ka.dead = NULL => fresh
  BY <1>1, NotOverdue
<1>6. ka.now + ka.phase < 2 * ((ka.k * 3) \div 2 + ka.b.last_msg_in) =>
         ka.now + ka.phase <= 2 * ((ka.k * 3) \div 2 + ka.b.last_msg_in)
  BY <1>3
<1>7. fresh \in BOOLEAN
  OBVIOUS
<1> HIDE DEF fresh
<1>8. b \in BrokerStates /\ b.last_msg_in = ka.b.last_msg_in /\ b.sock = fresh
  BY <1>1, <1>7 DEF KeepStates, BrokerStates
<1> HIDE DEF b
<1>9. /\ r \in KeepStates /\ r.k = ka.k /\ r.now = ka.now /\ r.phase = ka.phase /\ r.c = ka.c
      /\ r.b = b /\ r.up = ka.up /\ r.down = ka.down /\ r.dead = ka.dead
  BY <1>1, <1>8 DEF KeepStates
<1> HIDE DEF r
<1>10. Past(r) /\ ClientLooked(r)
  BY <1>1, <1>8, <1>9 DEF Sound, Past, ClientLooked
<1>11. BrokerLooked(r)
  BY <1>4, <1>6, <1>8, <1>9 DEF BrokerLooked
<1>12. AfterDeath(r)
  BY <1>1, <1>8, <1>9 DEF Sound, AfterDeath
<1>13. Alive(r)
  BY <1>1, <1>5, <1>8, <1>9 DEF Sound, Alive, Answering
<1> QED
  BY <1>1, <1>2, <1>9, <1>10, <1>11, <1>12, <1>13 DEF KeepInv, Sound

\* A queue whose packets are all a half second older.
LEMMA Older ==
    ASSUME NEW q \in Seq(KeepPacket), \A i \in DOMAIN q : q[i].age < Delay
    PROVE  LET o == [i \in DOMAIN q |-> [q[i] EXCEPT !.age = @ + 1]]
           IN /\ o \in Seq(KeepPacket) /\ (o = <<>> <=> q = <<>>) /\ DOMAIN o = DOMAIN q
              /\ \A i \in DOMAIN q :
                    o[i].type = q[i].type /\ o[i].age = q[i].age + 1 /\ q[i].age \in Nat
              /\ q # <<>> => 1 \in DOMAIN q
<1> DEFINE o == [i \in DOMAIN q |-> [q[i] EXCEPT !.age = @ + 1]]
<1>1. Len(q) \in Nat /\ DOMAIN q = 1..Len(q) /\ (q = <<>> <=> Len(q) = 0)
  BY EmptySeq, LenProperties
<1>2. \A i \in DOMAIN q : q[i] \in KeepPacket /\ q[i].age \in Nat
  <2>1. \A i \in DOMAIN q : q[i] \in KeepPacket
    BY <1>1, ElementOfSeq
  <2> QED
    BY <2>1, KeepAssumption DEF KeepPacket
<1>3. \A i \in DOMAIN q : o[i] \in KeepPacket /\ o[i].type = q[i].type /\ o[i].age = q[i].age + 1
  <2> SUFFICES ASSUME NEW i \in DOMAIN q
               PROVE  o[i] \in KeepPacket /\ o[i].type = q[i].type /\ o[i].age = q[i].age + 1
    OBVIOUS
  <2>1. q[i].age < Delay /\ Delay \in Nat /\ q[i] \in KeepPacket /\ q[i].age \in Nat
    BY <1>2, KeepAssumption
  <2>2. o[i] = [q[i] EXCEPT !.age = @ + 1]
    OBVIOUS
  <2>3. q[i].age + 1 \in 0..Delay
    BY <2>1
  <2> QED
    BY <2>1, <2>2, <2>3 DEF KeepPacket
<1>4. o \in Seq(KeepPacket) /\ Len(o) = Len(q)
  <2>1. o \in [1..Len(q) -> KeepPacket]
    BY <1>1, <1>3
  <2> HIDE DEF o
  <2> QED
    BY <1>1, <2>1, IsASeq, LenProperties
<1>5. o = <<>> <=> q = <<>>
  BY <1>1, <1>4, EmptySeq
<1>6. DOMAIN o = DOMAIN q /\ (q # <<>> => 1 \in DOMAIN q)
  BY <1>1
<1> QED
  BY <1>2, <1>3, <1>4, <1>5, <1>6

\* A half second passes.
LEMMA TickSound ==
    ASSUME KeepInv, Tick
    PROVE  KeepInv'
<1> DEFINE older(packets) == [i \in DOMAIN packets |-> [packets[i] EXCEPT !.age = @ + 1]]
           c == [ka.c EXCEPT !.idle = IF ka.c.sock THEN @ + 1 ELSE @]
           b == [ka.b EXCEPT !.checked = FALSE]
           up == older(ka.up)
           down == older(ka.down)
           r == [ka EXCEPT !.now = @ + 1, !.up = up, !.down = down, !.b = b, !.c = c]
<1>1. /\ ka \in KeepStates /\ ka.k # NULL /\ Sound(ka)
      /\ ka.c.sock => ka.c.idle < LoopTime
      /\ ka.b.sock => ka.b.checked
      /\ \A i \in DOMAIN ka.up : ka.up[i].age < Delay
      /\ \A i \in DOMAIN ka.down : ka.down[i].age < Delay
  BY DEF KeepInv, Tick, Running
<1>2. ka' = r
  BY <1>1 DEF Tick, KeepStates
<1>3. /\ up \in Seq(KeepPacket) /\ (up = <<>> <=> ka.up = <<>>) /\ DOMAIN up = DOMAIN ka.up
      /\ \A i \in DOMAIN ka.up :
            up[i].type = ka.up[i].type /\ up[i].age = ka.up[i].age + 1 /\ ka.up[i].age \in Nat
      /\ ka.up # <<>> => 1 \in DOMAIN ka.up
  BY <1>1, Fields, Older
<1>4. /\ down \in Seq(KeepPacket) /\ (down = <<>> <=> ka.down = <<>>) /\ DOMAIN down = DOMAIN ka.down
      /\ \A i \in DOMAIN ka.down :
            /\ down[i].type = ka.down[i].type /\ down[i].age = ka.down[i].age + 1
            /\ ka.down[i].age \in Nat
  BY <1>1, Fields, Older
<1> HIDE DEF up, down, older
<1>5. /\ ka.k \in Nat /\ ka.now \in Nat /\ ka.phase \in Nat /\ ka.c.idle \in Nat
      /\ ka.c.last_msg_in \in Nat /\ ka.c.last_msg_out \in Nat /\ ka.b.last_msg_in \in Nat
      /\ LoopTime \in Nat /\ Delay \in Nat
  BY <1>1, Fields
<1>6. /\ c \in ClientStates /\ c.sock = ka.c.sock /\ c.last_msg_in = ka.c.last_msg_in
      /\ c.last_msg_out = ka.c.last_msg_out /\ c.ping_t = ka.c.ping_t /\ c.told = ka.c.told
      /\ c.sock => c.idle = ka.c.idle + 1
  <2>1. (IF ka.c.sock THEN ka.c.idle + 1 ELSE ka.c.idle) \in 0..LoopTime
    BY <1>1, <1>5 DEF KeepStates, ClientStates
  <2>2. ka.c \in ClientStates
    BY <1>1 DEF KeepStates
  <2> QED
    BY <2>1, <2>2 DEF ClientStates
<1> HIDE DEF c
<1>7. /\ b \in BrokerStates /\ b.sock = ka.b.sock /\ b.last_msg_in = ka.b.last_msg_in
      /\ ~b.checked
  BY <1>1 DEF KeepStates, BrokerStates
<1> HIDE DEF b
<1>8. /\ r \in KeepStates /\ r.k = ka.k /\ r.now = ka.now + 1 /\ r.phase = ka.phase /\ r.c = c
      /\ r.b = b /\ r.up = up /\ r.down = down /\ r.dead = ka.dead
  <2>1. ka.now + 1 \in Nat /\ up \in Seq(KeepPacket) /\ down \in Seq(KeepPacket)
    BY <1>3, <1>4, <1>5
  <2>2. b \in BrokerStates /\ c \in ClientStates /\ ka \in KeepStates
    BY <1>1, <1>6, <1>7
  <2> QED
    BY <2>1, <2>2 DEF KeepStates
<1> HIDE DEF r
<1>9. Past(r)
  <2>1. \A n \in Nat : 2 * n <= ka.now => 2 * n <= ka.now + 1
    BY <1>5
  <2>2. 2 * ka.b.last_msg_in <= ka.now + ka.phase => 2 * ka.b.last_msg_in <= ka.now + 1 + ka.phase
    BY <1>5
  <2>3. ka.dead # NULL /\ ka.dead <= ka.now => ka.dead <= ka.now + 1
    BY <1>1, <1>5, Fields
  <2>4. ka.c.ping_t # NULL => ka.c.ping_t \in Nat
    BY <1>1, Fields
  <2> QED
    BY <1>1, <1>3, <1>4, <1>5, <1>6, <1>7, <1>8, <2>1, <2>2, <2>3, <2>4, Zenon DEF Sound, Past
<1>10. ClientLooked(r)
  <2>1. ka.c.sock => r.now - r.c.idle = ka.now - ka.c.idle
    BY <1>5, <1>6, <1>8
  <2> QED
    BY <1>1, <1>6, <1>8, <2>1, Zenon DEF Sound, ClientLooked
<1>11. BrokerLooked(r)
  <2>1. (ka.k * 3) \div 2 \in Nat
    BY <1>1, <1>5, Fields, HalfAsLong, Zenon
  <2>2. ka.now + ka.phase < 2 * ((ka.k * 3) \div 2 + ka.b.last_msg_in) =>
           ka.now + 1 + ka.phase <= 2 * ((ka.k * 3) \div 2 + ka.b.last_msg_in)
    BY <1>5, <2>1
  <2> QED
    BY <1>1, <1>7, <1>8, <2>2, Zenon DEF Sound, BrokerLooked
<1>12. AfterDeath(r)
  BY <1>1, <1>6, <1>7, <1>8, Zenon DEF Sound, AfterDeath
<1>13. Alive(r)
  <2>1. \A i \in DOMAIN ka.up : r.now - up[i].age = ka.now - ka.up[i].age
    <3> SUFFICES ASSUME NEW i \in DOMAIN ka.up
                 PROVE  r.now - up[i].age = ka.now - ka.up[i].age
      OBVIOUS
    <3>1. r.now = ka.now + 1 /\ up[i].age = ka.up[i].age + 1 /\ ka.up[i].age \in Nat
      BY <1>3, <1>8
    <3>2. (ka.now + 1) - (ka.up[i].age + 1) = ka.now - ka.up[i].age
      BY <1>5, <3>1, BothOlder, Zenon
    <3> QED
      BY <3>1, <3>2, Zenon
  <2>2. \A i \in DOMAIN ka.down : r.now - down[i].age = ka.now - ka.down[i].age
    <3> SUFFICES ASSUME NEW i \in DOMAIN ka.down
                 PROVE  r.now - down[i].age = ka.now - ka.down[i].age
      OBVIOUS
    <3>1. r.now = ka.now + 1 /\ down[i].age = ka.down[i].age + 1 /\ ka.down[i].age \in Nat
      BY <1>4, <1>8
    <3>2. (ka.now + 1) - (ka.down[i].age + 1) = ka.now - ka.down[i].age
      BY <1>5, <3>1, BothOlder, Zenon
    <3> QED
      BY <3>1, <3>2, Zenon
  <2>3. Answering(ka) => Answering(r)
    BY <1>3, <1>4, <1>6, <1>8, <2>1, <2>2, Zenon DEF Answering
  <2>4. up # <<>> => r.now - up[1].age = ka.now - ka.up[1].age
    BY <1>3, <2>1, Zenon
  <2> QED
    BY <1>1, <1>3, <1>6, <1>7, <1>8, <2>3, <2>4, Zenon DEF Sound, Alive
<1> QED
  BY <1>1, <1>2, <1>8, <1>9, <1>10, <1>11, <1>12, <1>13 DEF KeepInv, Sound

\* An end is gone.
LEMMA DeathSound ==
    ASSUME KeepInv, Death
    PROVE  KeepInv'
<1> DEFINE r == [ka EXCEPT !.dead = ka.now, !.up = <<>>, !.down = <<>>]
<1>1. ka \in KeepStates /\ ka.k # NULL /\ Sound(ka) /\ ka.dead = NULL /\ ka' = r
  BY DEF KeepInv, Death, Running
<1>2. /\ r \in KeepStates /\ r.k = ka.k /\ r.now = ka.now /\ r.phase = ka.phase /\ r.c = ka.c
      /\ r.b = ka.b /\ r.up = <<>> /\ r.down = <<>> /\ r.dead = ka.now
  <2>1. <<>> \in Seq(KeepPacket)
    BY EmptySeq
  <2> QED
    BY <1>1, <2>1 DEF KeepStates
<1> HIDE DEF r
<1>3. /\ ka.k \in Nat /\ ka.now \in Nat /\ LoopTime \in Nat
      /\ ka.c.ping_t # NULL => ka.c.ping_t \in Nat
  BY <1>1, Fields
<1>4. ka.now # NULL
  BY <1>3, KeepAssumption
<1>5. Past(r) /\ ClientLooked(r) /\ BrokerLooked(r) /\ Alive(r)
  BY <1>1, <1>2, <1>3, <1>4 DEF Sound, Past, ClientLooked, BrokerLooked, Alive
<1>6. AfterDeath(r)
  <2>1. \A n \in Nat : 2 * n <= ka.now => 2 * n <= ka.now + 2 * ka.k + LoopTime
    BY <1>3
  <2> QED
    BY <1>1, <1>2, <1>3, <2>1, Zenon DEF Sound, Past, AfterDeath
<1> QED
  BY <1>1, <1>2, <1>5, <1>6 DEF KeepInv, Sound

\* The connection begins.
LEMMA StartSound ==
    ASSUME KeepInv, KeepStart
    PROVE  KeepInv'
<1>1. ka.k = NULL /\ KeepInit
  BY DEF KeepInv, KeepStart
<1>2. PICK k \in Keepalives, now \in {0, 1}, phase \in {0, 1} :
         LET s == [ka EXCEPT !.k = k, !.now = now, !.phase = phase]
         IN ka' = [s EXCEPT !.c.last_msg_in = client_time(s), !.c.last_msg_out = client_time(s),
                            !.b.last_msg_in = broker_time(s)]
  BY Zenon DEF KeepStart
<1> DEFINE t == now \div 2
           u == (now + phase) \div 2
<1>3. k \in Nat /\ k > 0 /\ k # NULL /\ LoopTime \in Nat
  BY KeepAssumption
<1>4. /\ now \in Nat /\ phase \in Nat /\ now + phase \in Nat
      /\ t \in Nat /\ 2 * t <= now /\ now <= 2 * t + 1
      /\ u \in Nat /\ 2 * u <= now + phase /\ now + phase <= 2 * u + 1 /\ u >= t
  <2>1. now \in Nat /\ phase \in Nat /\ now + phase \in Nat
    OBVIOUS
  <2>2. /\ t \in Nat /\ 2 * t <= now /\ now <= 2 * t + 1
        /\ u \in Nat /\ 2 * u <= now + phase /\ now + phase <= 2 * u + 1
    BY <2>1, Seconds
  <2> HIDE DEF t, u
  <2> QED
    BY <2>1, <2>2
<1> DEFINE r == [k |-> k, now |-> now, phase |-> phase,
                 c |-> [sock |-> TRUE, last_msg_in |-> t, last_msg_out |-> t, ping_t |-> NULL,
                        idle |-> 0, told |-> 0],
                 b |-> [sock |-> TRUE, last_msg_in |-> u, checked |-> FALSE],
                 up |-> <<>>, down |-> <<>>, dead |-> NULL, sends |-> 0]
           s == [ka EXCEPT !.k = k, !.now = now, !.phase = phase]
<1>5. ka' = r
  <2>1. /\ s = [k |-> k, now |-> now, phase |-> phase,
                c |-> [sock |-> TRUE, last_msg_in |-> 0, last_msg_out |-> 0, ping_t |-> NULL,
                       idle |-> 0, told |-> 0],
                b |-> [sock |-> TRUE, last_msg_in |-> 0, checked |-> FALSE],
                up |-> <<>>, down |-> <<>>, dead |-> NULL, sends |-> 0]
    <3> DEFINE c == [sock |-> TRUE, last_msg_in |-> 0, last_msg_out |-> 0, ping_t |-> NULL,
                     idle |-> 0, told |-> 0]
               b == [sock |-> TRUE, last_msg_in |-> 0, checked |-> FALSE]
               none == <<>>
    <3>1. ka = [k |-> NULL, now |-> 0, phase |-> 0, c |-> c, b |-> b,
                up |-> none, down |-> none, dead |-> NULL, sends |-> 0]
      BY <1>1, Zenon DEF KeepInit
    <3>2. s = [ka EXCEPT !.k = k, !.now = now, !.phase = phase]
      OBVIOUS
    <3> HIDE DEF c, b, none, s
    <3>3. s = [k |-> k, now |-> now, phase |-> phase, c |-> c, b |-> b,
               up |-> none, down |-> none, dead |-> NULL, sends |-> 0]
      BY <3>1, <3>2
    <3> QED
      BY <3>3, Zenon DEF c, b, none
  <2>2. client_time(s) = t /\ broker_time(s) = u
    BY <2>1 DEF client_time, broker_time
  <2>3. ka' = [s EXCEPT !.c.last_msg_in = t, !.c.last_msg_out = t, !.b.last_msg_in = u]
    BY <1>2, <2>2
  <2> HIDE DEF s, t, u
  <2> QED
    BY <2>1, <2>3
<1> HIDE DEF t, u, s
<1>6. r \in KeepStates
  BY <1>3, <1>4 DEF KeepStates, ClientStates, BrokerStates
<1>7. Past(r) /\ AfterDeath(r)
  BY <1>4 DEF Past, AfterDeath
<1>8. ClientLooked(r)
  <2>1. now - 0 < 2 * (k + t)
    BY <1>3, <1>4
  <2> QED
    BY <2>1 DEF ClientLooked
<1>9. BrokerLooked(r)
  <2>1. (k * 3) \div 2 \in Nat /\ (k * 3) \div 2 > 0
    BY <1>3, HalfAsLong, Zenon
  <2>2. now + phase <= 2 * ((k * 3) \div 2 + u)
    BY <1>4, <2>1, JustRead, Zenon
  <2> QED
    BY <2>2 DEF BrokerLooked
<1>10. Alive(r)
  BY <1>4 DEF Alive
<1> QED
  BY <1>3, <1>5, <1>6, <1>7, <1>8, <1>9, <1>10 DEF KeepInv, Sound

-----------------------------------------------------------------------------
(* The theorems.                                                           *)

\* Before the connection begins nothing is overdue.
LEMMA KeepBegin == KeepInit => KeepInv
<1> SUFFICES ASSUME KeepInit
             PROVE  ka \in KeepStates /\ ka.k = NULL
  BY DEF KeepInv
<1> QED
  BY KeepAssumption DEF KeepInit, KeepStates, ClientStates, BrokerStates

\* No step of either end, of the time or of the network leaves the invariant.
LEMMA KeepStep == KeepInv /\ [KeepNext]_ka => KeepInv'
<1> SUFFICES ASSUME KeepInv, [KeepNext]_ka
             PROVE  KeepInv'
  OBVIOUS
<1>1. CASE KeepStart
  BY <1>1, StartSound
<1>2. CASE mosquitto_loop
  BY <1>2, LoopSound
<1>3. CASE BrokerReads
  BY <1>3, BrokerReadSound
<1>4. CASE BrokerPublishes
  BY <1>4, BrokerPublishSound
<1>5. CASE BrokerChecks
  BY <1>5, CheckSound
<1>6. CASE Tick
  BY <1>6, TickSound
<1>7. CASE Death
  BY <1>7, DeathSound
<1>8. CASE UNCHANGED ka
  BY <1>8 DEF KeepInv, KeepInit
<1> QED
  BY <1>1, <1>2, <1>3, <1>4, <1>5, <1>6, <1>7, <1>8 DEF KeepNext

\* What the invariant says of the end of a connection.
LEMMA KeepTells == KeepInv => GivenUpWhenGone
<1> SUFFICES ASSUME KeepInv
             PROVE  NoFalseTimeout /\ DeathIsNoticed
  BY DEF GivenUpWhenGone
<1>1. CASE ka.k = NULL
  BY <1>1 DEF KeepInv, KeepInit, NoFalseTimeout, DeathIsNoticed
<1>2. CASE ka.k # NULL
  <2>1. ka \in KeepStates /\ Sound(ka)
    BY <1>2 DEF KeepInv
  <2>2. NoFalseTimeout
    BY <2>1 DEF Sound, Alive, NoFalseTimeout
  <2>3. ASSUME ka.dead # NULL, ka.c.sock
        PROVE  ka.now - ka.dead <= 2 * (2 * ka.k + LoopTime)
    <3>1. /\ ka.k \in Nat /\ ka.now \in Nat /\ ka.dead \in Nat /\ LoopTime \in Nat
          /\ ka.c.idle \in Nat /\ ka.c.idle <= LoopTime /\ ka.c.last_msg_in \in Nat
      BY <1>2, <2>1, <2>3, Fields
    <3>2. ka.now - ka.c.idle < 2 * (ka.k + ka.c.last_msg_in)
      BY <2>1, <2>3 DEF Sound, ClientLooked
    <3>3. CASE ka.c.ping_t = NULL
      <4>1. 2 * ka.c.last_msg_in <= ka.dead
        BY <2>1, <2>3, <3>3 DEF Sound, AfterDeath
      <4> QED
        BY <3>1, <3>2, <4>1
    <3>4. CASE ka.c.ping_t # NULL
      <4>1. /\ 2 * ka.c.ping_t <= ka.dead + 2 * ka.k + LoopTime
            /\ ka.now - ka.c.idle < 2 * (ka.k + ka.c.ping_t)
        BY <2>1, <2>3, <3>4 DEF Sound, AfterDeath, ClientLooked
      <4>2. ka.c.ping_t \in Nat
        BY <2>1, <3>4, Fields
      <4> QED
        BY <3>1, <4>1, <4>2
    <3> QED
      BY <3>3, <3>4
  <2>4. ASSUME ka.dead # NULL, ka.b.sock
        PROVE  ka.now - ka.dead <= 2 * ((ka.k * 3) \div 2)
    <3>1. /\ ka.now \in Nat /\ ka.dead \in Nat /\ ka.phase \in Nat /\ ka.b.last_msg_in \in Nat
          /\ (ka.k * 3) \div 2 \in Nat
      BY <1>2, <2>1, <2>4, Fields, HalfAsLong
    <3>2. /\ ka.now + ka.phase <= 2 * ((ka.k * 3) \div 2 + ka.b.last_msg_in)
          /\ 2 * ka.b.last_msg_in <= ka.dead + ka.phase
      BY <2>1, <2>4 DEF Sound, BrokerLooked, AfterDeath
    <3> QED
      BY <3>1, <3>2
  <2>5. ~ka.c.sock => ka.c.told \in {1, 2}
    BY <2>1, Fields DEF Sound, Past
  <2> QED
    BY <2>2, <2>3, <2>4, <2>5 DEF DeathIsNoticed
<1> QED
  BY <1>1, <1>2

\* KeepInv is an invariant (_mosquitto_check_keepalive, mosquitto_loop_misc and the
\* check of loop.c), for every keepalive time that leaves room.
THEOREM KeepInvariant == KeepSpec => []KeepInv
  BY KeepBegin, KeepStep, PTL DEF KeepSpec

\* As long as packets arrive neither end gives up the other, and an end that is gone
\* is given up in time, by both ends, however busy the other one is.
THEOREM GivenUp == KeepSpec => []GivenUpWhenGone
  BY KeepInvariant, KeepTells, PTL
=============================================================================
