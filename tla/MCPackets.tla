----------------------------- MODULE MCPackets -----------------------------
(* The messages that are sent over a link in the run of MCParts: each kind of *)
(* packet, and remaining lengths on both sides of every size of the length.   *)
EXTENDS Packets

Text(b, n) == IF n = 0 THEN <<>> ELSE <<[b |-> b, n |-> n]>>

Will(n) == [topic |-> Text(119, 3), payload |-> Text(120, n), qos |-> 2, retain |-> TRUE]

ConnectMessages(wills, users, passwords) ==
    [type: {"CONNECT"}, id: {Text(105, 2)}, clean_session: BOOLEAN, keepalive: {255},
     will: wills, username: users, password: passwords]

PublishMessage(qos, mid, n) ==
    [type |-> "PUBLISH", dup |-> qos = 2, qos |-> qos, retain |-> qos = 1, topic |-> Text(116, 1),
     mid |-> mid, payload |-> Text(112, n)]

SubscribeMessage(n) == [type |-> "SUBSCRIBE", dup |-> FALSE, mid |-> 255, topic |-> Text(116, n), qos |-> 2]

UnsubscribeMessage == [type |-> "UNSUBSCRIBE", dup |-> FALSE, mid |-> 256, topic |-> Text(116, 2)]

Mid(command, dup) == [type |-> "mid", command |-> command, dup |-> dup, mid |-> 1]

Simple(command) == [type |-> "simple", command |-> command]

Sizes == {0, 124, 125, 16380, 16381, 2097148, 2097149, 268435452, 268435453}

Plain == [type |-> "CONNECT", id |-> Text(105, 1), clean_session |-> TRUE, keepalive |-> 60,
          will |-> <<>>, username |-> <<>>, password |-> <<>>]

Connects ==
    ConnectMessages({<<>>}, {<<>>, <<Text(117, 256)>>}, {<<>>, <<Text(118, 1)>>})
    \cup ConnectMessages({<<Will(n)>> : n \in {0, 65535, 65536, 65540}}, {<<Text(117, 1)>>}, {<<>>})

AfterConnect ==
    {PublishMessage(0, 0, 0), PublishMessage(0, 0, 125), PublishMessage(2, 65535, 1),
     SubscribeMessage(122), SubscribeMessage(123), UnsubscribeMessage}

FromClient ==
    {<<m>> : m \in Connects} \cup {<<Plain, m>> : m \in AfterConnect}
    \cup {<<Plain, Mid(PUBREL + 2, FALSE), Simple(PINGREQ), Simple(DISCONNECT)>>,
          <<PublishMessage(1, 1, 1), Plain>>}

FromBroker ==
    {<<PublishMessage(0, 0, n), Simple(PINGRESP)>> : n \in Sizes}
    \cup {<<[type |-> "CONNACK", result |-> 0],
            [type |-> "SUBACK", mid |-> 3, payload |-> <<[b |-> 0, n |-> 1], [b |-> 128, n |-> 1]>>],
            Mid(UNSUBACK, FALSE), Mid(PUBREL + 2, TRUE), PublishMessage(1, 1, 0)>>}

MCTraffic ==
    [sender: {"client"}, messages: FromClient] \cup [sender: {"broker"}, messages: FromBroker]
=============================================================================
