------------------------------ MODULE MCConfig ------------------------------
(* How the broker may be started and reloaded in the run of MCParts. *)
EXTENDS BrokerConfig

ConfLine(o, words, nums) == [option |-> o, words |-> words, nums |-> nums, names |-> <<>>]

Word(o, word) == ConfLine(o, <<word>>, <<>>)

Num(o, num) == ConfLine(o, <<>>, <<num>>)

ConfTopic(names, words) == [option |-> "topic", words |-> words, nums |-> <<>>, names |-> names]

Mount == [option |-> "mount_point", words |-> <<>>, nums |-> <<>>, names |-> << <<"m">> >>]

Addresses == ConfLine("addresses", <<"h">>, <<1883>>)

Reloadable ==
    {Word("allow_anonymous", "false"), Word("acl_file", "f"), Word("acl_file", "g"),
     Word("persistence", "true"), ConfLine("log_dest", <<"file", "l">>, <<>>), Word("log_type", "debug"),
     Num("max_inflight", 5), Num("message_size_limit", 10), Num("retry_interval", 0),
     Num("autosave_interval", -1), ConfLine("persistent_client_expiration", <<"w">>, <<2>>),
     ConfLine("auth_opt", <<"k", "v">>, <<>>), Word("unknown", "x")}

Starting ==
    {Num("listener", 1884), Mount, Word("psk_hint", "h"), Word("cafile", "c"),
     Num("max_connections", -7), Word("require_certificate", "maybe"), Num("port", 0),
     Word("bind_address", "unresolvable"), Word("include_dir", "d"), Word("trace_level", "x"),
     Word("acl_file", "f"), Word("allow_anonymous", "false")}

Bridging ==
    {Word("connection", "c"), Word("bridge_psk", "k"), Word("bridge_identity", "i"),
     Word("bridge_cafile", "c"), Num("keepalive_interval", 1), Word("notifications", "false"),
     Word("start_type", "manual"), Word("include_dir", "d"), Addresses,
     ConfTopic(<< <<>>, <<"l">>, <<"r">> >>, <<"in">>), ConfTopic(<< <<"t">> >>, <<"both">>)}

BridgeLines == <<Word("connection", "b"), Addresses, ConfTopic(<< <<"t">> >>, <<>>)>>

upto(lines, n) == UNION {[1..k -> lines] : k \in 0..n}

Dir == << <<Num("listener", 1885), Word("include_dir", "d")>>, BridgeLines >>

Arg(o, v) == [option |-> o, value |-> v]

Args == {<<Arg("-c", NULL)>>, <<Arg("-v", NULL), Arg("-c", NULL), Arg("-p", 1886)>>}

Start1(files, args) == [args: args, disk: [file: files, dir: {Dir}]]

MCStarts ==
    Start1(upto(Starting, 2), Args)
    \cup Start1({BridgeLines \o f : f \in upto(Bridging, 2)}, {<<Arg("-c", NULL)>>})
    \cup Start1({BridgeLines \o <<Word("bridge_psk", "k"), Word("bridge_identity", "i")>> \o f :
                   f \in upto(Bridging, 1)}, {<<Arg("-c", NULL)>>})
    \cup Start1(upto(Reloadable, 2), Args)
    \cup Start1({<<>>}, {<<Arg("-p", 0)>>, <<Arg("-d", NULL)>>, <<Arg("-h", NULL)>>})

Reloaded ==
    upto(Reloadable, 1)
    \cup {<<x, Word("unknown", "x")>> : x \in Reloadable}
    \cup {<<Word("acl_file", "f"), Word("acl_file", "g")>>, <<Num("listener", 1887)>>}

MCDisks == [file: Reloaded \cup {NULL}, dir: {Dir}]
=============================================================================
