------------------------------ MODULE MCParts ------------------------------
(* The parts of the system that work on their own, each from the state it is *)
(* in before it starts.  A behaviour is one of one of the parts: the others  *)
(* stay where they are.                                                      *)
EXTENDS MCConfig, MCPackets, MCPrograms, Bridge, HashTable, PasswordFile, DbFile,
    Sockets, BrokerMain, SysTree, HexCodec, KeepAlive

\* Worlds of the sockets: what the addresses of a name do, clients with their peer,
\* and listeners.
MCLower == [n \in {"h", "H", "x", "1.2", "::1", "0::1"} |-> IF n = "H" THEN "h" ELSE n] @@ (NULL :> NULL)

MCPton == [n \in {"h", "H", "x", "1.2", "::1", "0::1"} |->
             CASE n = "1.2" -> "four" [] n \in {"::1", "0::1"} -> "sixteen" [] OTHER -> NULL]

AddressLists ==
    {<<>>, <<"ok">>, <<"refused", "ok">>, <<"no socket", "bind", "ok">>, <<"fcntl", "ok">>, <<"refused", "bind">>}

TlsClient == [tls |-> "cert", bad |-> NULL, verify |-> TRUE, tls_insecure |-> FALSE, host |-> "h", identity |-> NULL, psk |-> <<>>]

NetClients ==
    {[TlsClient EXCEPT !.tls = "none"], TlsClient, [TlsClient EXCEPT !.bad = "version"], [TlsClient EXCEPT !.bad = "key"],
     [TlsClient EXCEPT !.tls_insecure = TRUE], [TlsClient EXCEPT !.verify = FALSE],
     [TlsClient EXCEPT !.host = "1.2"], [TlsClient EXCEPT !.host = "0::1"],
     [TlsClient EXCEPT !.tls = "psk", !.identity = "i", !.psk = <<"0", "a">>]}

Certificate(san, cn) == [preverify_ok |-> TRUE, san |-> san, cn |-> cn]
Dns(name) == [type |-> "dns", name |-> name]
Root == Certificate(<<>>, "x")

Chains ==
    {<<Certificate(<<>>, "H"), Root>>, <<Certificate(<<Dns("x"), Dns("H")>>, NULL), Root>>,
     <<Certificate(<<Dns("x")>>, "h"), Root>>, <<Certificate(<<[type |-> "ip", name |-> "sixteen"]>>, "h"), Root>>,
     <<Certificate(<<>>, "h"), [Root EXCEPT !.preverify_ok = FALSE]>>, <<Certificate(<<>>, "1.2")>>}

PskIds == {<<>>, <<[identity |-> "i", psk |-> <<"a">>]>>, <<[identity |-> "j", psk |-> <<"a">>], [identity |-> "i", psk |-> <<"b">>]>>}

CertListener == [ca |-> TRUE, cert |-> TRUE, key |-> TRUE, psk_hint |-> NULL, bad |-> NULL, psk_id |-> <<>>, use_identity_as_username |-> FALSE]

NetListeners ==
    {CertListener, [CertListener EXCEPT !.key = FALSE], [CertListener EXCEPT !.bad = "crl"],
     [CertListener EXCEPT !.ca = FALSE, !.psk_hint = "hint", !.use_identity_as_username = TRUE, !.psk_id = <<[identity |-> "i", psk |-> <<"a">>]>>],
     [CertListener EXCEPT !.ca = FALSE, !.psk_hint = "hint", !.bad = "hint"]}

MCWorlds ==
    [addresses : AddressLists, client : {[TlsClient EXCEPT !.tls = "none"], TlsClient, [TlsClient EXCEPT !.bad = "key"]},
     peer : {[chain |-> <<Certificate(<<>>, "h"), Root>>, psk_id |-> <<>>]}, listener : {NULL}]
    \cup [addresses : {<<"ok">>}, client : NetClients, peer : [chain : Chains, psk_id : PskIds], listener : {NULL}]
    \cup [addresses : AddressLists, client : {NULL}, peer : {NULL}, listener : NetListeners]

\* Bridges.
topic_line(name, direction, local, remote) ==
    [direction |-> direction, local_prefix |-> local, remote_prefix |-> remote,
     local_topic |-> IF local = NULL THEN name ELSE local \o name,
     remote_topic |-> IF remote = NULL THEN name ELSE remote \o name]

PlainBridge ==
    [start_type |-> "automatic", round_robin |-> FALSE, address_count |-> 1, notifications |-> TRUE,
          clean_session |-> FALSE, threshold |-> 1, try_private |-> TRUE, restored |-> 0,
          topic_remapping |-> FALSE, topics |-> <<topic_line(<<"a">>, "both", NULL, NULL)>>,
          remote |-> [private |-> TRUE, subs |-> {}]]

\* One line now goes out that came in before; one topic stands in two lines; and
\* names that change on the way.
Turned == <<topic_line(<<"a">>, "out", NULL, NULL), topic_line(<<"b">>, "in", NULL, NULL)>>
Twice == <<topic_line(<<"a">>, "out", NULL, NULL), topic_line(<<"a">>, "in", NULL, NULL)>>
Renamed == <<topic_line(<<"#">>, "both", <<"l", "/">>, <<"r", "/">>), topic_line(<<"+">>, "both", <<"m">>, NULL)>>

MCBridges ==
    { PlainBridge,
      [PlainBridge EXCEPT !.address_count = 2, !.try_private = FALSE],
      [PlainBridge EXCEPT !.address_count = 2, !.round_robin = TRUE, !.clean_session = TRUE, !.remote.private = FALSE],
      [PlainBridge EXCEPT !.address_count = 3, !.notifications = FALSE],
      [PlainBridge EXCEPT !.topics = Turned, !.remote.subs = {<<"a">>}],
      [PlainBridge EXCEPT !.topics = Twice, !.restored = 1],
      [PlainBridge EXCEPT !.topics = Renamed, !.topic_remapping = TRUE],
      [PlainBridge EXCEPT !.start_type = "once"],
      [PlainBridge EXCEPT !.start_type = "lazy", !.threshold = 2],
      [PlainBridge EXCEPT !.start_type = "lazy", !.address_count = 2, !.clean_session = TRUE] }

MCNames ==
    {<<"a">>, <<"l">>, <<"m">>, <<"l", "/", "a">>, <<"l", "/", "r", "/", "a">>, <<"m", "a">>, <<"m", "l", "/", "b">>}

\* Elements of the hash table: two of them share a key, and most share a bucket for
\* long, so that doubling the buckets does not help.
MCKey == <<"a", "a", "b", "c", "d">>
MCHash == [k \in {"a", "b", "c", "d"} |-> CASE k = "a" -> 0 [] k = "b" -> 32 [] k = "c" -> 64 [] k = "d" -> 4]

\* All keys of psn of up to as many bytes as the buffer holds, with bytes of two
\* binary digits.
MCExportedKeys == UNION {[1..n -> 0..3] : n \in 0..KEY_BUF}

\* Configurations of the broker's process, and what fails in them.
PlainMain ==
    [daemon |-> TRUE, pid_file |-> TRUE, pid |-> "none", user |-> "mosquitto", persistence |-> TRUE, restored |-> 1,
     dest |-> {"stderr", "topic"}, plugin |-> NULL, fails |-> NULL]

MCMainConfigs ==
    {PlainMain, [PlainMain EXCEPT !.plugin = "usable"], [PlainMain EXCEPT !.dest = {"file", "syslog"}, !.persistence = FALSE, !.restored = 0],
     [PlainMain EXCEPT !.daemon = FALSE, !.pid = "other", !.user = "root"], [PlainMain EXCEPT !.plugin = "unusable"],
     [PlainMain EXCEPT !.dest = {}, !.pid_file = FALSE, !.user = NULL]}
    \cup {[PlainMain EXCEPT !.plugin = "usable", !.fails = step] :
            step \in {"config", "fork", "pid", "privileges", "db_open", "module_init", "security_init", "listen"}}

\* Password files: none, one of hashed and one of plain passwords, one with a user
\* twice, one with a name alone in its line, and one whose last line does not end.
PwLine(name, word) == [name |-> <<name>>, word |-> word, nl |-> TRUE]

Hashed(name, word) == output_new_password(<<>>, <<name>>, word, "s")[1]

MCPwFiles ==
    { NULL, <<>>,
      <<Hashed("a", <<"p">>), Hashed("b", <<"q">>)>>,
      <<PwLine("a", <<"p">>), PwLine("b", <<>>), PwLine("c", NULL)>>,
      <<Hashed("a", <<"p">>), Hashed("b", <<"q">>), Hashed("a", <<"q">>)>>,
      <<PwLine("a", NULL), Hashed("b", <<"p">>)>>,
      <<Hashed("b", <<"p">>), [Hashed("a", <<"q">>) EXCEPT !.nl = FALSE]>> }

MCPwCommands == [mode : {"c", "D", "set"}, user : {<<"a">>}] \cup {[mode |-> "U", user |-> NULL]}

MCPwWords == {<<>>, <<"p">>, <<"q">>}

\* Databases: an empty one, and one with a message without payload that the broker
\* itself has sent, one of a client, two clients, one of whom has messages, a
\* subscription and a retained message; and files of other versions, one with an
\* unknown chunk and one whose configuration says that values are shorter.
Cfg == <<[type |-> CFG, values |-> << <<0>>, <<8>>, <<2>> >>]>>
Bodies == << [type |-> MSG_STORE, values |-> << <<1>>, <<>>, <<0>>, <<0>>, <<7>>, <<0>>, <<0>>, <<>> >>],
             [type |-> MSG_STORE, values |-> << <<2>>, <<5>>, <<1>>, <<1>>, <<7, 8>>, <<2>>, <<1>>, <<9, 0>> >>] >>
Sessions == << [type |-> CLIENT, values |-> << <<5>>, <<1>>, <<100>> >>],
               [type |-> CLIENT_MSG, values |-> << <<5>>, <<2>>, <<1>>, <<2>>, <<0>>, <<1>>, <<4>>, <<0>> >>],
               [type |-> CLIENT, values |-> << <<5, 6>>, <<0>>, <<0>> >>] >>
Subs == << [type |-> SUB, values |-> << <<5>>, <<7, 8>>, <<2>> >>], [type |-> RETAIN, values |-> << <<2>> >>] >>

MCDatabases == {[cfg |-> Cfg, store |-> <<>>, clients |-> <<>>, subs |-> <<>>],
                [cfg |-> Cfg, store |-> Bodies, clients |-> Sessions, subs |-> Subs]}

MCOldFiles == {[version |-> 2, chunks |-> Cfg \o Bodies \o Sessions],
               [version |-> 3, chunks |-> Cfg \o <<[type |-> 7, values |-> << <<1, 2, 3>> >>]>> \o Bodies \o Subs],
               [version |-> 3, chunks |-> <<[type |-> CFG, values |-> << <<0>>, <<4>>, <<2>> >>]>>],
               [version |-> 4, chunks |-> Cfg]}

-----------------------------------------------------------------------------

VARIABLE part   \* the part this behaviour is about

vars == <<part, conf, link, prog, bridge, table, pw, dbf, net, main, sys, hexc, ka>>

PartNames ==
    {"config", "link", "program", "bridge", "table", "passwd", "db file", "sockets", "main",
     "sys tree", "hex", "keepalive"}

Init ==
    /\ part \in PartNames
    /\ ConfigInit
    /\ LinkInit
    /\ ProgInit
    /\ BridgeInit
    /\ TableInit
    /\ PwInit
    /\ DbInit
    /\ NetInit
    /\ MainInit
    /\ SysInit
    /\ HexInit
    /\ KeepInit

Next ==
    /\ UNCHANGED part
    /\ \/ /\ part = "config" /\ ConfigNext
          /\ UNCHANGED <<link, prog, bridge, table, pw, dbf, net, main, sys, hexc, ka>>
       \/ /\ part = "link" /\ LinkNext
          /\ UNCHANGED <<conf, prog, bridge, table, pw, dbf, net, main, sys, hexc, ka>>
       \/ /\ part = "program" /\ ProgNext
          /\ UNCHANGED <<conf, link, bridge, table, pw, dbf, net, main, sys, hexc, ka>>
       \/ /\ part = "bridge" /\ BridgeNext
          /\ UNCHANGED <<conf, link, prog, table, pw, dbf, net, main, sys, hexc, ka>>
       \/ /\ part = "table" /\ TableNext
          /\ UNCHANGED <<conf, link, prog, bridge, pw, dbf, net, main, sys, hexc, ka>>
       \/ /\ part = "passwd" /\ PwNext
          /\ UNCHANGED <<conf, link, prog, bridge, table, dbf, net, main, sys, hexc, ka>>
       \/ /\ part = "db file" /\ DbNext
          /\ UNCHANGED <<conf, link, prog, bridge, table, pw, net, main, sys, hexc, ka>>
       \/ /\ part = "sockets" /\ NetNext
          /\ UNCHANGED <<conf, link, prog, bridge, table, pw, dbf, main, sys, hexc, ka>>
       \/ /\ part = "main" /\ MainNext
          /\ UNCHANGED <<conf, link, prog, bridge, table, pw, dbf, net, sys, hexc, ka>>
       \/ /\ part = "sys tree" /\ SysNext
          /\ UNCHANGED <<conf, link, prog, bridge, table, pw, dbf, net, main, hexc, ka>>
       \/ /\ part = "hex" /\ HexNext
          /\ UNCHANGED <<conf, link, prog, bridge, table, pw, dbf, net, main, sys, ka>>
       \/ /\ part = "keepalive" /\ KeepNext
          /\ UNCHANGED <<conf, link, prog, bridge, table, pw, dbf, net, main, sys, hexc>>

Spec == Init /\ [][Next]_vars /\ ProgFairness /\ BridgeFairness /\ MainFairness

\* What one side means is what the other understands: a packet, however its bytes
\* arrive (net_mosq.c, _mosquitto_packet_read), and a topic whose name a bridge
\* changes on the way out and back (send_mosq.c, read_handle.c).
MessagesComeThrough == PacketsArrive /\ NamesComeBack
=============================================================================
