-------------------------- MODULE MCBrokerSessions --------------------------
(***************************************************************************)
(* Instances of BrokerSessions.  Each scenario is about one kind of        *)
(* trouble and has the few packets that make it.                           *)
(***************************************************************************)
EXTENDS BrokerSessions

MCChars == {"a", "w", "x", "$", "S", "Y", "SYS", "/", "+", "#"}

MCSlots == 1..4
MCConns == 1..3

a == <<"a">>
w == <<"w">>
x == <<"x">>
y == <<"y">>

open_config ==
    [acl_file |-> NULL, password_file |-> NULL, psk_file |-> NULL, allow_anonymous |-> TRUE,
     upgrade_outgoing_qos |-> FALSE, mount_point |-> <<>>, clientids |-> {x, y, <<"auto">>},
     allow_zero_length_clientid |-> TRUE, use_identity_as_username |-> FALSE,
     max_connections |-> 0]

Lost == [type |-> "lost"]

Connect(id, clean) ==
    [type |-> "CONNECT", valid |-> TRUE, id |-> id, auto_id |-> <<"auto">>,
     protocol |-> "mqtt31", clean_session |-> clean, will |-> NULL, username |-> NULL,
     password |-> NULL, identity |-> NULL, bridge |-> FALSE]

ConnectAs(id, clean, user, password) ==
    [Connect(id, clean) EXCEPT !.username = user, !.password = password]

WithWill(connect, conn, retain) ==
    [connect EXCEPT !.will = [topic |-> w, qos |-> 1, payload |-> <<"will1", "will2", "will3">>[conn],
                             retain |-> retain]]

Subscribe(sub, qos) == [type |-> "SUBSCRIBE", mid |-> 1, subs |-> <<[sub |-> sub, qos |-> qos]>>]

Unsubscribe(sub) == [type |-> "UNSUBSCRIBE", mid |-> 2, sub |-> sub]

Publish(topic, qos, payload, retain) ==
    [type |-> "PUBLISH", mid |-> qos, qos |-> qos, topic |-> topic, payload |-> payload,
     retain |-> retain]

Command(type, mid) == [type |-> type, mid |-> mid]

Quiet ==
    [config |-> open_config, reloads |-> {}, packets |-> [c \in MCConns |-> {Lost}],
     conns |-> 2, reads |-> 5, breaks |-> 0, faults |-> {}]

\* Two connections with one client id: clean and kept sessions, wills, takeover,
\* connections that break in the middle of a packet.
Takeover ==
    [Quiet EXCEPT
       !.packets = [c \in MCConns |->
          {Lost, WithWill(Connect(x, TRUE), c, TRUE), WithWill(Connect(x, FALSE), c, FALSE),
           Subscribe(<<"+">>, 1), Command("DISCONNECT", 0)}],
       !.reads = 5, !.breaks = 1, !.faults = {"silent", "expire"}]

\* A kept session gets messages of every QoS, acknowledges some of them, goes and
\* comes back; what is not acknowledged in time is sent again.
Messages ==
    [Quiet EXCEPT
       !.packets = [c \in MCConns |->
          IF c = 2
          THEN {Connect(y, TRUE), Publish(a, 0, "m", TRUE), Publish(a, 1, "", TRUE),
                Publish(a, 2, "o", FALSE), Command("PUBREL", 2)}
          ELSE {Connect(x, FALSE), Subscribe(<<"+">>, 2), Command("PUBACK", 1),
                Command("PUBREC", 1), Command("PUBCOMP", 1)}],
       !.conns = 3, !.reads = 6, !.faults = {"late"}]

\* The broker saves its database, dies and is started again; the client comes back.
Restarts ==
    [Quiet EXCEPT
       !.packets = [c \in MCConns |->
          IF c = 2 THEN {Connect(y, TRUE), Publish(a, 1, "n", TRUE), Publish(a, 2, "o", FALSE)}
          ELSE {Connect(x, FALSE), Subscribe(<<"a", "/", "#">>, 1)}],
       !.conns = 3, !.reads = 5, !.faults = {"save", "crash"}]

\* Refused connections and messages: a limit of one connection, wrong passwords, no
\* client id, a will and messages the access list forbids, a message too large.
Refused ==
    [Quiet EXCEPT
       !.config = [open_config EXCEPT
          !.max_connections = 2, !.allow_anonymous = FALSE,
          !.password_file = <<[username |-> "u", password |-> "p"]>>,
          !.acl_file = <<[kind |-> "user", name |-> "u"],
                         [kind |-> "topic", topic |-> a, access |-> {"read", "write"}]>>],
       !.packets = [c \in MCConns |->
          {ConnectAs(x, FALSE, "u", "p"), ConnectAs(x, FALSE, "u", "q"), Connect(y, TRUE),
           [ConnectAs(NULL, TRUE, "u", "p") EXCEPT !.protocol = "mqtt311"],
           [ConnectAs(x, FALSE, "u", "p") EXCEPT !.valid = FALSE],
           [ConnectAs(x, FALSE, "u", "p") EXCEPT !.protocol = "mqtt5"],
           ConnectAs(<<"z">>, TRUE, "u", "p"),
           WithWill(ConnectAs(x, FALSE, "u", "p"), c, FALSE),
           Publish(w, 2, "m", FALSE), Publish(a, 1, "large", FALSE), Subscribe(w, 1)}],
       !.reads = 4, !.faults = {"save"}]

\* The files that say who may do what are replaced while clients are connected.
Reloading ==
    LET user(name) == [kind |-> "user", name |-> name]
        topic(t, access) == [kind |-> "topic", topic |-> t, access |-> access]
        pattern(t, access) == [kind |-> "pattern", topic |-> t, access |-> access]
        entry(name, word) == [username |-> name, password |-> word]
        with(acl, passwords) == [open_config EXCEPT !.acl_file = acl, !.password_file = passwords]
    IN [Quiet EXCEPT
          !.config = with(<<user("v"), topic(a, {"read"}), user("u"), topic(a, {"read", "write"})>>,
                          <<entry("u", "p"), entry("v", NULL)>>),
          !.reloads = {with(<<user("u"), topic(a, {"read"}), [kind |-> "comment"]>>, NULL),
                       with(NULL, <<entry("u", "q")>>),
                       with(<<user(NULL)>>, <<entry("u", "malformed"), entry("v", "p")>>),
                       with(<<pattern(<<"%c">>, {"read", "write"})>>, <<entry("v", NULL)>>)},
          !.packets = [c \in MCConns |->
             IF c = 1 THEN {ConnectAs(x, FALSE, "u", "p"), Subscribe(a, 1), Subscribe(<<"#">>, 0)}
             ELSE {ConnectAs(x, FALSE, "v", "p"), ConnectAs(y, TRUE, "v", "p"),
                   Publish(a, 1, "m", FALSE), Unsubscribe(a)}],
          !.reads = 4]

\* What no well behaved client does: it acknowledges a message that is queued, makes
\* a new root of the tree, or uses an identifier again.
Odd ==
    [Quiet EXCEPT
       !.packets = [c \in MCConns |->
          IF c = 1 THEN {Connect(x, FALSE), Subscribe(<<"+">>, 2), Subscribe(<<"$", "x">>, 0), Command("PUBREC", 2)}
          ELSE {Connect(y, TRUE), Publish(a, 1, "m", TRUE), Publish(w, 2, "o", FALSE),
                [Publish(a, 1, "n", TRUE) EXCEPT !.mid = 2]}],
       !.reads = 6]

MCScenarios == {Takeover, Messages, Restarts, Refused, Reloading, Odd}
=============================================================================
