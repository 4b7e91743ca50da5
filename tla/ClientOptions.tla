--------------------------- MODULE ClientOptions ----------------------------
(***************************************************************************)
(* The command lines of mosquitto_pub and mosquitto_sub (pub_client.c,     *)
(* sub_client.c), and what the programs make of them with the functions    *)
(* that set up a libmosquitto client (mosquitto.c, will_mosq.c,            *)
(* srv_mosq.c).                                                            *)
(*                                                                         *)
(* An argument is [option, value], the options being named for what they   *)
(* set.  A value that is missing, which only the last argument's can be,   *)
(* is NULL.  The value of -f, -m and -s is the length of what is read, -1  *)
(* for a file that cannot be read.                                         *)
(***************************************************************************)
EXTENDS Topics

CONSTANTS
    OpenFiles,  \* the names of files that can be opened
    HexWords    \* the words that are hexadecimal numbers

-----------------------------------------------------------------------------
(* The options.                                                            *)

Words ==
    {"host", "bind_address", "cafile", "capath", "certfile", "keyfile", "ciphers", "tls_version",
     "psk", "psk_identity", "username", "password", "will_payload", "will_topic"}

Flags(program) ==
    {"debug", "insecure", "quiet", "use_srv", "will_retain"}
    \cup IF program = "pub" THEN {"retain"} ELSE {"no_retain", "verbose", "no_eol", "disable_clean_session"}

Numbers(program) ==
    {"port", "qos", "will_qos"} \cup IF program = "pub" THEN {"max_inflight"} ELSE {"keepalive"}

\* Kinds of messages; only one may be chosen.
Modes(program) ==
    IF program = "pub" THEN {"file", "stdin_line", "message", "null_message", "stdin_file"} ELSE {}

Defaults(program) ==
    [o \in Words \cup {"id", "id_prefix", "mode"} |-> IF o = "host" THEN "localhost" ELSE NULL]
    @@ [o \in Flags(program) |-> FALSE]
    @@ [port |-> 1883, keepalive |-> 60, qos |-> 0, will_qos |-> 0, max_inflight |-> 20,
        msglen |-> 0, topics |-> <<>>, filter_outs |-> <<>>]

\* A keepalive may be negative.
in_range(o, n) ==
    CASE o = "port" -> n \in 1..65535
      [] o \in {"qos", "will_qos"} -> n \in 0..2
      [] o = "keepalive" -> n <= 65535
      [] OTHER -> TRUE

MaxPayload == 268435455

\* A file may neither be empty nor too large, the input may be as long as it likes.
load_file(length) == length \in 1..MaxPayload

load_stdin(length) == length > 0

message_loads(mode, value) ==
    CASE mode = "file" -> value # NULL /\ load_file(value)
      [] mode = "message" -> value # NULL
      [] mode = "stdin_file" -> load_stdin(value)
      [] OTHER -> TRUE

\* Mutant of excludes: only one order of -i and -I is refused.
excludes_one_way(s, o) == o = "id" /\ s["id_prefix"] # NULL

\* -i and -I exclude each other.
excludes(s, o) ==
    \/ o = "id" /\ s["id_prefix"] # NULL
    \/ o = "id_prefix" /\ s["id"] # NULL

\* What is read so far: the settings s, and the exit status rc, "none" while the
\* program goes on.
put(acc, field, value) == [acc EXCEPT !.s[field] = value]

wrong(acc) == [acc EXCEPT !.rc = "error"]

word_argument(acc, o, v) ==
    IF v = NULL \/ excludes(acc.s, o) THEN wrong(acc) ELSE put(acc, o, v)

number_argument(acc, o, v) ==
    IF v = NULL THEN wrong(acc) ELSE IF in_range(o, v) THEN put(acc, o, v) ELSE wrong(acc)

message_argument(acc, mode, v) ==
    IF acc.s["mode"] # NULL \/ ~message_loads(mode, v) THEN wrong(acc)
    ELSE [put(acc, "mode", mode) EXCEPT !.s.msglen = IF mode \in {"stdin_line", "null_message"} THEN 0 ELSE v]

\* mosquitto_sub takes all its topics and filters, mosquitto_pub the last topic.
topic_argument(program, acc, field, v) ==
    IF v = NULL THEN wrong(acc) ELSE put(acc, field, IF program = "pub" THEN <<v>> ELSE Append(acc.s[field], v))

client_argument(program, acc, arg) ==
    LET o == arg.option
        v == arg.value
    IN CASE acc.rc # "none" -> acc
         [] acc.rc = "none" /\ o = "help" -> [acc EXCEPT !.rc = "ok"]
         [] acc.rc = "none" /\ o \in Flags(program) -> put(acc, o, TRUE)
         [] acc.rc = "none" /\ o \in Modes(program) -> message_argument(acc, o, v)
         [] acc.rc = "none" /\ o \in Words \cup {"id", "id_prefix"} -> word_argument(acc, o, v)
         [] acc.rc = "none" /\ o \in Numbers(program) -> number_argument(acc, o, v)
         [] acc.rc = "none" /\ o = "topic" -> topic_argument(program, acc, "topics", v)
         [] acc.rc = "none" /\ o = "filter_out" /\ program = "sub" -> topic_argument(program, acc, "filter_outs", v)
         [] OTHER -> wrong(acc)

\* What has to be there together, and what may not.
consistent(program, s) ==
    LET given(o) == s[o] # NULL
    IN /\ s.topics # <<>>
       /\ program = "pub" => given("mode")
       /\ program = "sub" => (s["disable_clean_session"] => given("id") /\ ~given("id_prefix"))
       /\ given("will_payload") \/ s["will_retain"] => given("will_topic")
       /\ given("certfile") <=> given("keyfile")
       /\ ~((given("cafile") \/ given("capath")) /\ given("psk"))
       /\ given("psk") => given("psk_identity")

parse_args(program, args) ==
    LET step(acc, arg) == client_argument(program, acc, arg)
        read == FoldLeft(step, [rc |-> "none", s |-> Defaults(program)], args)
    IN IF read.rc = "none" /\ ~consistent(program, read.s) THEN [read EXCEPT !.rc = "error"] ELSE read

-----------------------------------------------------------------------------
(* The functions that set up a client.  Each returns the client, with rc   *)
(* FALSE if it has refused; the program ends then.                         *)

refuse(m) == [m EXCEPT !.rc = FALSE]

mosquitto_new(id, clean_session) ==
    [rc |-> ~(id = <<>>), id |-> id, clean_session |-> clean_session, keepalive |-> 60,
     will |-> <<>>, max_inflight_messages |-> 20, host |-> NULL, port |-> 0, bind_address |-> NULL,
     tls_insecure |-> FALSE, state |-> "new"]
    @@ [o \in {"username", "password", "tls_cafile", "tls_capath", "tls_certfile", "tls_keyfile",
               "tls_psk", "tls_psk_identity", "tls_version", "tls_ciphers"} |-> NULL]

\* A will may have wildcards in its topic, where a filter may.
mosquitto_will_set(m, topic, payload, qos, retain) ==
    IF ~_mosquitto_topic_wildcard_pos_check(topic) THEN refuse(m)
    ELSE [m EXCEPT !.will = <<[topic |-> topic, payload |-> payload, qos |-> qos, retain |-> retain]>>]

mosquitto_username_pw_set(m, username, password) ==
    [m EXCEPT !["username"] = username, !["password"] = IF username = NULL THEN NULL ELSE password]

mosquitto_tls_set(m, cafile, capath, certfile, keyfile) ==
    IF \/ cafile = NULL /\ capath = NULL
       \/ (certfile = NULL) # (keyfile = NULL)
       \/ ~({cafile, certfile, keyfile} \subseteq OpenFiles \cup {NULL})
    THEN refuse(m)
    ELSE [m EXCEPT !["tls_cafile"] = cafile, !["tls_capath"] = capath,
                   !["tls_certfile"] = certfile, !["tls_keyfile"] = keyfile]

mosquitto_tls_insecure_set(m, value) == [m EXCEPT !.tls_insecure = value]

mosquitto_tls_psk_set(m, psk, identity, ciphers) ==
    IF psk \notin HexWords THEN refuse(m)
    ELSE [m EXCEPT !["tls_psk"] = psk, !["tls_psk_identity"] = identity, !["tls_ciphers"] = ciphers]

mosquitto_tls_opts_set(m, version, ciphers) ==
    IF version \notin {"tlsv1", "tlsv1.1", "tlsv1.2"} THEN refuse(m)
    ELSE [m EXCEPT !["tls_version"] = version, !["tls_ciphers"] = ciphers]

mosquitto_max_inflight_messages_set(m, n) == [m EXCEPT !.max_inflight_messages = n]

_mosquitto_connect_init(m, host, port, keepalive, bind_address) ==
    [m EXCEPT !.host = host, !.port = port, !.keepalive = keepalive, !.bind_address = bind_address]

\* The address is left to the reply, which knows nothing of bind_address.
mosquitto_connect_srv(m, host, keepalive, bind_address) ==
    [m EXCEPT !.keepalive = keepalive, !.state = "connect_srv"]

\* A name made of the prefix and the process id, or of the process id and the host.
client_id_of(s) ==
    CASE s["id_prefix"] # NULL -> s["id_prefix"] \o <<"pid">>
      [] s["id"] # NULL -> s["id"]
      [] OTHER -> <<"pid", "hostname">>

\* What main does between the checks and the connection.
set_up(program, s) ==
    LET made == mosquitto_new(client_id_of(s), IF program = "pub" THEN TRUE ELSE ~s["disable_clean_session"])
        step(m, o) ==
          CASE o = "will" /\ s["will_topic"] # NULL ->
                 mosquitto_will_set(m, s["will_topic"], s["will_payload"], s.will_qos, s["will_retain"])
            [] o = "user" /\ s["username"] # NULL ->
                 mosquitto_username_pw_set(m, s["username"], s["password"])
            [] o = "tls" /\ (s["cafile"] # NULL \/ s["capath"] # NULL) ->
                 mosquitto_tls_set(m, s["cafile"], s["capath"], s["certfile"], s["keyfile"])
            [] o = "insecure" /\ s["insecure"] -> mosquitto_tls_insecure_set(m, TRUE)
            [] o = "psk" /\ s["psk"] # NULL -> mosquitto_tls_psk_set(m, s["psk"], s["psk_identity"], NULL)
            [] o = "opts" /\ s["tls_version"] # NULL ->
                 mosquitto_tls_opts_set(m, s["tls_version"], s["ciphers"])
            [] o = "inflight" /\ program = "pub" -> mosquitto_max_inflight_messages_set(m, s.max_inflight)
            [] OTHER -> m
        ready == FoldLeft(LAMBDA m, o : IF m.rc THEN step(m, o) ELSE m, made,
                          <<"will", "user", "tls", "insecure", "psk", "opts", "inflight">>)
    IN IF ~ready.rc THEN ready
       ELSE IF s["use_srv"] THEN mosquitto_connect_srv(ready, s["host"], s.keepalive, s["bind_address"])
       ELSE _mosquitto_connect_init(ready, s["host"], s.port, s.keepalive, s["bind_address"])
=============================================================================
