--------------------------- MODULE ClientPrograms ---------------------------
(***************************************************************************)
(* mosquitto_pub and mosquitto_sub at work.  mosquitto_pub sends one       *)
(* message from its connect callback, in the thread of its main loop, or   *)
(* with -l the lines of its input, while the loop thread of the library    *)
(* makes the callbacks.  mosquitto_sub subscribes in its connect callback  *)
(* and leaves the rest to mosquitto_loop_forever.                          *)
(*                                                                         *)
(* The library is what the programs see of it: packets go out in turn, the *)
(* broker answers them in turn, and a message is reported when it is       *)
(* written (QoS 0) or acknowledged.  prog holds the program:               *)
(*   stage      where main is                                              *)
(*   rc         its exit status, TRUE for success                          *)
(*   thread     the loop thread, or main in its place                      *)
(*   link       "down", "connecting" or "up"                               *)
(*   out        the packets that are queued                                *)
(*   unacked    the messages of QoS 1 or 2 that are not acknowledged       *)
(*   callback   the message my_publish_callback is about, 0 if none        *)
(*   subs       what the broker knows of the subscriptions                 *)
(*   heard, printed         a message of mosquitto_sub, and whether it was  *)
(*              printed                                                    *)
(*   reported, losses       history                                        *)
(* and the variables of the programs.                                      *)
(***************************************************************************)
EXTENDS ClientOptions

CONSTANTS
    Commands,   \* how the programs may be called: [program, args, input], the
                \* input being lines [length, newline]
    Messages,   \* what others publish: [topic, retain, empty]
    MaxLosses   \* bound on connections that are lost or refused

\* mosquitto_pub takes a QoS that there is, and lines only with -l.
ASSUME CommandsAssumption ==
    \A c \in Commands :
        LET read == parse_args(c.program, c.args)
        IN c.program = "pub" /\ read.rc = "none" =>
             read.s.qos \in 0..2 /\ (read.s["mode"] # "stdin_line" => c.input = <<>>)

VARIABLE prog

ProgInit ==
    prog = [stage |-> "off", program |-> "none", args |-> <<>>, input |-> <<>>, s |-> Defaults("none"), m |-> NULL,
            rc |-> TRUE, thread |-> "none", link |-> "down", out |-> <<>>, unacked |-> <<>>,
            callback |-> 0, disconnecting |-> FALSE, status |-> "STATUS_CONNECTING", mid_sent |-> 0,
            last_mid |-> -1, last_mid_sent |-> -1, connected |-> TRUE, disconnect_sent |-> FALSE,
            subs |-> {}, lines |-> <<>>, heard |-> NULL, printed |-> FALSE, reported |-> {}, losses |-> 0]

\* fgets gives 1023 characters at most, and the last character that it gives is
\* taken for the end of the line.
fgets(line) ==
    LET length == line.length + IF line.newline THEN 1 ELSE 0
    IN [k \in 1..(length \div 1023) |-> 1022] \o IF length % 1023 = 0 THEN <<>> ELSE <<(length % 1023) - 1>>

line_mode == prog.s["mode"] = "stdin_line"

\* mosquitto_pub runs the loop itself, unless it reads lines.
in_thread == prog.program = "sub" \/ line_mode

wildcard_free == prog.s.topics[1] # <<>> /\ _mosquitto_topic_wildcard_len_check(prog.s.topics[1])

-----------------------------------------------------------------------------
(* The start.                                                              *)

Run(c) ==
    LET read == parse_args(c.program, c.args)
        m == set_up(c.program, read.s)
        begun == [prog EXCEPT !.program = c.program, !.args = c.args, !.s = read.s]
    IN /\ prog.stage = "off"
       /\ prog' = IF read.rc # "none" THEN [begun EXCEPT !.stage = "ended", !.rc = read.rc = "ok"]
                  ELSE IF ~m.rc THEN [begun EXCEPT !.stage = "ended", !.rc = FALSE]
                  ELSE [begun EXCEPT !.m = m, !.input = FlattenSeq([k \in DOMAIN c.input |-> fgets(c.input[k])]),
                                     !.stage = IF m.state = "new" THEN "connect" ELSE "srv"]

\* The TCP connection is made or not.
Connect(works) ==
    /\ prog.stage = "connect"
    /\ prog' = IF ~works THEN [prog EXCEPT !.stage = "ended", !.rc = FALSE]
               ELSE [prog EXCEPT !.stage = "loop", !.thread = "runs", !.link = "connecting"]

\* The reply to the lookup comes while the first mosquitto_loop waits for it, or
\* too late for mosquitto_pub; mosquitto_sub goes on to look for it.
SrvReply(answer) ==
    /\ prog.stage = "srv"
    /\ answer = "late" => prog.program = "pub" /\ ~in_thread
    /\ prog' = IF answer # "found" THEN [prog EXCEPT !.stage = "ended", !.rc = FALSE]
               ELSE [prog EXCEPT !.stage = "loop", !.thread = "runs", !.link = "connecting",
                                 !.m.host = "reply", !.m.port = 1]

-----------------------------------------------------------------------------
(* The library.                                                            *)

\* The request stays; what goes out depends on there being a connection.
mosquitto_disconnect(p) ==
    [p EXCEPT !.disconnecting = TRUE, !.out = IF p.link = "down" THEN @ ELSE Append(@, [type |-> "DISCONNECT", what |-> 0])]

\* Without a connection a message of QoS 1 or 2 waits, but the call fails.
publish(p, length) ==
    LET mid == p.mid_sent + 1
        kept == [p EXCEPT !.mid_sent = mid, !.lines = Append(@, length),
                          !.unacked = IF p.s.qos = 0 THEN @ ELSE Append(@, mid)]
    IN IF ~wildcard_free THEN mosquitto_disconnect(p)
       ELSE IF p.link = "down" THEN mosquitto_disconnect(kept)
       ELSE [kept EXCEPT !.out = Append(@, [type |-> "PUBLISH", what |-> mid])]

\* The socket is closed and my_disconnect_callback called.  A loop that was told to
\* disconnect ends; with SRV it holds the state mutex then, and waits for it.
lost(p) ==
    LET closed == [p EXCEPT !.link = "down", !.out = <<>>, !.connected = FALSE]
    IN IF ~p.disconnecting THEN closed
       ELSE [closed EXCEPT !.thread = IF in_thread /\ p.s["use_srv"] THEN "stuck" ELSE "ended"]

\* my_connect_callback of mosquitto_pub.  After a reconnect the messages that are
\* not acknowledged are sent again; those that are queued are the last of them.
pub_connected(p) ==
    LET queued == {p.out[k].what : k \in DOMAIN p.out}
        old == {k \in DOMAIN p.unacked : p.unacked[k] \notin queued}
        again == [p EXCEPT !.out = @ \o [k \in 1..Cardinality(old) |-> [type |-> "PUBLISH", what |-> p.unacked[k]]]]
    IN IF line_mode THEN [again EXCEPT !.status = "STATUS_CONNACK_RECVD"] ELSE publish(p, p.s.msglen)

\* my_connect_callback of mosquitto_sub; what mosquitto_subscribe returns for a
\* filter that is none is not looked at.
sub_connected(p) ==
    LET valid == SelectSeq(p.s.topics, _mosquitto_topic_wildcard_pos_check)
    IN [p EXCEPT !.out = [k \in DOMAIN valid |-> [type |-> "SUBSCRIBE", what |-> valid[k]]]]

\* The loop reads the CONNACK.  A session that is not clean has kept its
\* subscriptions.
Connack(accepted) ==
    LET up == [prog EXCEPT !.link = "up", !.subs = IF prog.m.clean_session THEN {} ELSE @]
    IN /\ prog.thread = "runs" /\ prog.link = "connecting" /\ prog.callback = 0
       /\ accepted \/ prog.losses < MaxLosses
       /\ prog' = IF ~accepted THEN [lost(prog) EXCEPT !.losses = @ + 1]
                  ELSE IF prog.program = "sub" THEN sub_connected(up) ELSE pub_connected(up)

\* The loop writes a packet.  The first step of my_publish_callback is part of
\* writing a message of QoS 0, as of its acknowledgement else.
Write ==
    LET packet == Head(prog.out)
        written == [prog EXCEPT !.out = Tail(@)]
    IN /\ prog.thread = "runs" /\ prog.link # "down" /\ prog.out # <<>> /\ prog.callback = 0
       /\ prog' = CASE packet.type = "DISCONNECT" -> lost(written)
                    [] packet.type = "SUBSCRIBE" -> [written EXCEPT !.subs = @ \cup {packet.what}]
                    [] OTHER ->
                         IF prog.s.qos > 0 THEN written
                         ELSE [written EXCEPT !.callback = packet.what, !.last_mid_sent = packet.what,
                                              !.reported = @ \cup {packet.what}]

\* The broker has answered the first message that was sent.
Acknowledged ==
    LET mid == prog.unacked[1]
    IN /\ prog.thread = "runs" /\ prog.link = "up" /\ prog.callback = 0 /\ prog.unacked # <<>>
       /\ \A k \in DOMAIN prog.out : prog.out[k].what # mid
       /\ prog' = [prog EXCEPT !.unacked = Tail(@), !.callback = mid, !.last_mid_sent = mid,
                               !.reported = @ \cup {mid}]

\* Mutant of my_publish_callback: any message ends the program.
my_publish_callback_any ==
    LET done == [prog EXCEPT !.callback = 0]
    IN /\ prog.thread = "runs" /\ prog.callback # 0
       /\ prog' = IF ~prog.disconnect_sent THEN [mosquitto_disconnect(done) EXCEPT !.disconnect_sent = TRUE]
                  ELSE done

\* The rest of my_publish_callback; main may have gone on since last_mid_sent was
\* set.
my_publish_callback ==
    LET done == [prog EXCEPT !.callback = 0]
        last == IF line_mode THEN prog.callback = prog.last_mid ELSE ~prog.disconnect_sent
    IN /\ prog.thread = "runs" /\ prog.callback # 0
       /\ prog' = IF last THEN [mosquitto_disconnect(done) EXCEPT !.disconnect_sent = TRUE] ELSE done

LoseLink ==
    /\ prog.thread = "runs" /\ prog.link # "down" /\ prog.callback = 0 /\ prog.losses < MaxLosses
    /\ prog' = [lost(prog) EXCEPT !.losses = @ + 1]

\* mosquitto_loop_forever connects again, or ends if it was told to meanwhile.
\* After an attempt that fails, with SRV, mosquitto_loop keeps the state mutex.
Reconnect(works) ==
    /\ prog.thread = "runs" /\ in_thread /\ prog.link = "down" /\ prog.stage # "srv"
    /\ works \/ (prog.losses < MaxLosses /\ ~prog.disconnecting)
    /\ prog' = IF prog.disconnecting THEN lost(prog)
               ELSE IF works THEN [prog EXCEPT !.link = "connecting"]
               ELSE [prog EXCEPT !.losses = @ + 1, !.thread = IF prog.s["use_srv"] THEN "stuck" ELSE @]

\* Whether mosquitto_sub prints anything of a message.
my_message_callback(s, message) ==
    /\ ~(message.retain /\ s["no_retain"])
    /\ \A k \in DOMAIN s.filter_outs : ~mosquitto_topic_matches_sub(s.filter_outs[k], message.topic)
    /\ message.empty => s["verbose"] /\ ~s["no_eol"]

\* A message of the broker; one is enough.
Receive(message) ==
    /\ prog.program = "sub" /\ prog.thread = "runs" /\ prog.link = "up" /\ prog.heard = NULL
    /\ \E sub \in prog.subs : Matches(sub, message.topic)
    /\ prog' = [prog EXCEPT !.heard = message, !.printed = my_message_callback(prog.s, message)]

-----------------------------------------------------------------------------
(* The main thread of mosquitto_pub.                                       *)

\* Input is read and sent while there is some.
ReadLine ==
    /\ prog.program = "pub" /\ prog.stage = "loop" /\ line_mode /\ prog.status = "STATUS_CONNACK_RECVD"
    /\ prog' = IF prog.input = <<>>
               THEN [prog EXCEPT !.last_mid = prog.mid_sent, !.status = "STATUS_WAITING", !.stage = "check"]
               ELSE [publish(prog, Head(prog.input)) EXCEPT !.input = Tail(@), !.stage = "check"]

\* Mutant of Wait: it is left to the callback to disconnect.
Wait_for_callback ==
    /\ prog.program = "pub" /\ prog.stage = "loop" /\ line_mode /\ prog.status = "STATUS_WAITING"
    /\ prog' = [prog EXCEPT !.stage = "check"]

\* Main looks whether all is sent ...
Wait ==
    /\ prog.program = "pub" /\ prog.stage = "loop" /\ line_mode /\ prog.status = "STATUS_WAITING"
    /\ prog' = [prog EXCEPT !.stage = IF prog.last_mid_sent = prog.last_mid /\ ~prog.disconnect_sent
                                      THEN "disconnect" ELSE "check"]

\* ... and disconnects then, whatever the callback has done meanwhile.
Disconnect ==
    /\ prog.stage = "disconnect"
    /\ prog' = [mosquitto_disconnect(prog) EXCEPT !.disconnect_sent = TRUE, !.stage = "check"]

\* The condition of the loop.
Check ==
    /\ prog.stage = "check"
    /\ prog' = [prog EXCEPT !.stage = IF prog.connected THEN "loop" ELSE "join"]

\* With -l the loop that does nothing but wait for the connection.
Idle ==
    /\ prog.program = "pub" /\ prog.stage = "loop" /\ line_mode /\ prog.status = "STATUS_CONNECTING"
    /\ ~prog.connected
    /\ prog' = [prog EXCEPT !.stage = "join"]

\* mosquitto_loop_stop waits for the thread.  Without -l the result of
\* mosquitto_loop ends the program, as an error unless it was told to disconnect.
Leave ==
    /\ \/ prog.stage = "join" /\ prog.thread = "ended"
       \/ prog.program = "pub" /\ prog.stage = "loop" /\ ~line_mode /\ ~prog.connected
    /\ prog' = [prog EXCEPT !.stage = "ended", !.thread = "ended", !.rc = line_mode \/ prog.disconnecting]

ProgNext ==
    \/ prog.stage = "off" /\ \E c \in Commands : Run(c)
    \/ \E works \in BOOLEAN : Connect(works) \/ Reconnect(works) \/ Connack(works)
    \/ \E answer \in {"found", "failed", "late"} : SrvReply(answer)
    \/ \E message \in Messages : Receive(message)
    \/ Write \/ Acknowledged \/ my_publish_callback \/ LoseLink
    \/ ReadLine \/ Wait \/ Disconnect \/ Check \/ Idle \/ Leave

ProgSpec == ProgInit /\ [][ProgNext]_prog

\* The threads go on, the broker answers.
ProgFairness ==
    /\ WF_prog(Write) /\ WF_prog(Acknowledged) /\ WF_prog(my_publish_callback)
    /\ WF_prog(Connack(TRUE)) /\ WF_prog(Reconnect(TRUE)) /\ WF_prog(Leave)
    /\ WF_prog(ReadLine \/ Wait \/ Disconnect \/ Check \/ Idle)

-----------------------------------------------------------------------------
(* Properties.                                                             *)

\* The options may be given in any order: a command line without options that are
\* given twice is accepted, with the same settings, if it is accepted backwards.
OrderDoesNotMatter ==
    LET other == parse_args(prog.program, Reverse(prog.args))
        options == {prog.args[k].option : k \in DOMAIN prog.args}
        once == /\ Cardinality(options) = Len(prog.args) /\ "help" \notin options
                /\ \A k \in DOMAIN prog.args : prog.args[k].value # NULL \/ k < Len(prog.args)
    IN prog.stage \in {"connect", "srv"} /\ once => other = [rc |-> "none", s |-> prog.s]

\* What was asked for on the command line is what the client is set up with.  The
\* password needs a user name, the ciphers need --tls-version, and --bind-address
\* and the port are nothing to a lookup.
OptionsAreUsed ==
    LET s == prog.s
        m == prog.m
    IN prog.stage \in {"connect", "srv"} =>
         /\ m["username"] = s["username"]
         /\ s["username"] # NULL => m["password"] = s["password"]
         /\ <<m["tls_cafile"], m["tls_capath"], m["tls_psk"]>> = <<s["cafile"], s["capath"], s["psk"]>>
         /\ s["cafile"] # NULL => <<m["tls_certfile"], m["tls_keyfile"]>> = <<s["certfile"], s["keyfile"]>>
         /\ m["tls_version"] = s["tls_version"]
         /\ s["tls_version"] # NULL => m["tls_ciphers"] = s["ciphers"]
         /\ s["will_topic"] # NULL =>
              m.will = <<[topic |-> s["will_topic"], payload |-> s["will_payload"], qos |-> s.will_qos,
                          retain |-> s["will_retain"]]>>
         /\ ~s["use_srv"] => /\ <<m.host, m.port>> = <<s["host"], s.port>>
                             /\ m.bind_address = s["bind_address"]

\* mosquitto_pub ends with success only when its message, or each line, has been
\* written or acknowledged, however the callbacks and the main thread take turns.
\* That does not hold with -l when a connection was lost, and for a topic that
\* cannot be published to.
SuccessMeansSent ==
    prog.stage = "ended" /\ prog.program = "pub" /\ prog.thread = "ended" /\ prog.rc
      /\ wildcard_free /\ (line_mode => prog.losses = 0)
    => /\ prog.unacked = <<>> /\ prog.input = <<>>
       /\ prog.reported = 1..Len(prog.lines) /\ prog.mid_sent = Len(prog.lines)

\* mosquitto_sub prints exactly the messages that none of its filters (-T) matches
\* and that -R does not leave out; of an empty one there is only the topic to
\* print.  With a filter that ends in "/#" it leaves out more: "ab/#" leaves out
\* "ac", as mosquitto_topic_matches_sub does not compare the last character.
PrintsTheRest ==
    LET s == prog.s
        m == prog.heard
        open(f) == IsSuffix(<<"/", "#">>, f)
        left_out == \/ m.retain /\ s["no_retain"]
                    \/ \E k \in DOMAIN s.filter_outs : ~open(s.filter_outs[k]) /\ Matches(s.filter_outs[k], m.topic)
        bare == m.empty /\ (s["no_eol"] \/ ~s["verbose"])
    IN prog.heard # NULL =>
         IF left_out \/ bare THEN ~prog.printed
         ELSE (\A k \in DOMAIN s.filter_outs : ~open(s.filter_outs[k])) => prog.printed

\* mosquitto_pub ends, unless it reads lines and there are none, or the connection
\* was lost or refused meanwhile, or the loop thread has locked itself out.
PubEnds ==
    (prog.program = "pub" /\ prog.stage \in {"loop", "check"} /\ (line_mode => prog.input # <<>>))
      ~> (prog.stage = "ended" \/ prog.thread = "stuck" \/ (line_mode /\ prog.losses > 0))

\* Whatever connections are lost, mosquitto_sub is subscribed to all its filters in
\* the end, unless the loop has locked itself out.
SubscribedInTheEnd ==
    (prog.program = "sub" /\ prog.stage = "loop")
      ~> \/ prog.thread = "stuck"
         \/ /\ prog.link = "up"
            /\ \A k \in DOMAIN prog.s.topics :
                 _mosquitto_topic_wildcard_pos_check(prog.s.topics[k]) => prog.s.topics[k] \in prog.subs

\* What the command line says is what the programs do: main of pub_client.c and of
\* sub_client.c take it in any order, and the callbacks go by it.
OptionsTake == OrderDoesNotMatter /\ OptionsAreUsed /\ PrintsTheRest

\* Both programs get where they are to get, whatever happens to their connections.
ProgramsGetThere == PubEnds /\ SubscribedInTheEnd
=============================================================================
