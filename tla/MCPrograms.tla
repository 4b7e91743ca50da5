----------------------------- MODULE MCPrograms -----------------------------
(* How the client programs are called in the run of MCParts: with every pair *)
(* of options, and the ways of sending lines and of subscribing.             *)
EXTENDS ClientPrograms

Option(o, v) == [option |-> o, value |-> v]

Options(o, values) == {Option(o, v) : v \in values}

Switches(names) == {Option(o, NULL) : o \in names}

Common ==
    UNION {Options("host", {"h"}), Options("port", {0, 8883}), Options("bind_address", {"b"}),
           Options("cafile", {"f", "missing"}), Options("capath", {"d"}), Options("certfile", {"f"}),
           Options("keyfile", {"f"}), Options("ciphers", {"c"}), Options("tls_version", {"ssl", "tlsv1"}),
           Options("psk", {"ab", "xy"}), Options("psk_identity", {"i"}), Options("username", {"u"}),
           Options("password", {"p"}), Options("will_payload", {"w"}),
           Options("will_topic", {<<"w">>, <<"#", "w">>}), Options("will_qos", {2}), Options("qos", {1, 3}),
           Options("id", {<<>>, <<"i">>}), Options("id_prefix", {<<"j">>}),
           Switches({"help", "insecure", "unknown", "use_srv", "will_retain"})}

PubOnly ==
    UNION {Options("file", {-1, 0, 4}), Options("stdin_file", {0}), Options("max_inflight", {1}),
           Switches({"null_message", "retain"})}

SubOnly ==
    UNION {Options("keepalive", {-1, 65536}), Options("filter_out", {<<"x">>}),
           Switches({"disable_clean_session", "no_eol", "no_retain", "verbose"})}

upto2(S) == {<<x, y>> : x, y \in S} \cup {<<x>> : x \in S} \cup {<<>>}

T == Option("topic", <<"t">>)

M == Option("message", 3)

Lines == Option("stdin_line", NULL)

Srv == Option("use_srv", NULL)

InputLine(n, newline) == [length |-> n, newline |-> newline]

Inputs == {<<>>, <<InputLine(2, TRUE), InputLine(0, TRUE), InputLine(2, FALSE)>>, <<InputLine(1030, TRUE)>>}

Filters ==
    {<<"#">>, <<"+">>, <<"+", "/", "+">>, <<"a", "/", "+">>, <<"a", "/", "+", "/", "b">>, <<"+", "/", "#">>,
     <<"a", "b", "/", "#">>, <<"/", "+">>, <<"a", "/", "b">>, <<"+", "/", "/", "b">>, <<"a", "/", "/", "+">>}

MCMessages ==
    [topic: UNION {[1..n -> {"a", "b", "/"}] : n \in 1..3} \cup {<<"a", "/", "/", "b">>, <<"a", "/", "b", "/", "b">>},
     retain: {FALSE}, empty: {FALSE}]
    \cup [topic: {<<"t">>}, retain: BOOLEAN, empty: BOOLEAN]

Pub(args, inputs) == [program: {"pub"}, args: args, input: inputs]

Sub(args) == [program: {"sub"}, args: args, input: {<<>>}]

MCCommands ==
    UNION {Pub({args \o <<T, M>> : args \in upto2(Common \cup PubOnly)}, {<<>>}),
           Pub({<<T, Lines, q>> : q \in Options("qos", 0..2)}, Inputs),
           Pub({<<T, Lines, Srv>>}, {<<InputLine(1, TRUE)>>}),
           Pub({<<Option("topic", <<"#">>), Lines, q>> : q \in Options("qos", {0, 1})}, {<<InputLine(1, TRUE)>>}),
           Pub({<<Option("topic", <<"#">>), M, q>> : q \in Options("qos", {0, 1})}, {<<>>}),
           Pub({<<T, mode, Option("qos", 2)>> : mode \in PubOnly}, {<<>>}),
           Pub({<<end>> : end \in Switches({"host", "id", "message", "qos", "topic"})}, {<<>>}),
           Sub({<<Option("topic", <<"#">>), Option("filter_out", f)>> : f \in Filters}),
           Sub({<<Option("topic", <<"#">>), Option("filter_out", <<"b">>), Option("filter_out", f)>> :
                   f \in {<<"a", "/", "+">>}}),
           Sub({args \o <<T>> : args \in upto2(Common \cup SubOnly)}),
           Sub({<<T, Option("topic", <<"a", "/", "#">>), Option("topic", <<"a", "#">>), x>> :
                   x \in {Option("id", <<"i">>), Srv}}),
           Sub({<<T, Option("topic", <<"u">>), Option("disable_clean_session", NULL), Option("id", <<"i">>)>>})}
=============================================================================
