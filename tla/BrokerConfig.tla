---------------------------- MODULE BrokerConfig ----------------------------
(***************************************************************************)
(* The configuration of the broker (conf.c): the command line, the         *)
(* configuration file with the files of its include_dir, and the reload on *)
(* SIGHUP, which reads the file again into the same structure.             *)
(*                                                                         *)
(* A line is [option, words, nums, names]: what follows the option, apart  *)
(* by how it is read, as a word, a number or a topic.  A configuration is  *)
(* a record: "set" has the scalar options, "default" the default listener, *)
(* then the listeners and the bridges.                                     *)
(***************************************************************************)
EXTENDS Topics, TLC

CONSTANTS
    Starts,     \* what the broker may be started with: [args, disk]
    Disks,      \* what its files may be changed to: [file, dir], dir being the
                \* files of include_dir in the order readdir gives them
    MaxReloads  \* bound on reloads

VARIABLE conf   \* [stage, args, disk, config, rc, reloads, moves]

-----------------------------------------------------------------------------
(* The options, by the way they are read.                                  *)

GlobalBools ==
    {"allow_anonymous", "allow_duplicate_messages", "allow_zero_length_clientid",
     "autosave_on_changes", "connection_messages", "log_timestamp", "persistence",
     "queue_qos0_messages", "upgrade_outgoing_qos"}

\* With the values that are accepted.
GlobalInts ==
    [retry_interval |-> 1..3600, store_clean_interval |-> 0..65535, sys_interval |-> 0..65535,
     message_size_limit |-> 0..268435455]

\* A reload frees the value before it reads the new one.
ReloadStrings == {"acl_file", "clientid_prefixes", "password_file", "psk_file"}

GlobalStrings ==
    ReloadStrings \cup {"auth_plugin", "auto_id_prefix", "persistence_file",
                        "persistence_location", "pid_file", "user"}

ListenerStrings ==
    {"cafile", "capath", "certfile", "ciphers", "crlfile", "keyfile", "psk_hint", "tls_version"}

ListenerBools == {"require_certificate", "use_identity_as_username"}

Certificates == {"bridge_cafile", "bridge_capath", "bridge_certfile", "bridge_keyfile"}

Keys == {"bridge_identity", "bridge_psk"}

BridgeStrings ==
    Certificates \cup Keys
    \cup {"bridge_tls_version", "clientid", "notification_topic", "password", "username"}

BridgeBools == {"bridge_insecure", "cleansession", "notifications", "round_robin", "try_private"}

\* With the least value; less is raised to it.
BridgeInts == [idle_timeout |-> 1, keepalive_interval |-> 5, restart_timeout |-> 1, threshold |-> 1]

BridgeOptions ==
    BridgeStrings \cup BridgeBools \cup DOMAIN BridgeInts \cup {"addresses", "start_type", "topic"}

\* A reload passes over them: what runs points into the structures they fill.
NotReloaded ==
    BridgeOptions \cup ListenerStrings \cup ListenerBools
    \cup {"auth_plugin", "bind_address", "connection", "listener", "max_connections",
          "mount_point", "pid_file", "port", "user"}

Ignored == {"trace_level", "ffdc_output", "max_log_entries", "trace_output"}

-----------------------------------------------------------------------------
(* Defaults.                                                               *)

ReloadDefaults ==
    [o \in GlobalBools |-> o \in {"allow_anonymous", "allow_zero_length_clientid",
                                  "connection_messages", "log_timestamp"}]
    @@ [o \in ReloadStrings \cup {"auto_id_prefix", "persistence_file",
                                  "persistence_location"} |-> NULL]
    @@ [autosave_interval |-> 1800, persistent_client_expiration |-> 0, retry_interval |-> 20,
        store_clean_interval |-> 10, sys_interval |-> 10, auth_options |-> <<>>, log_file |-> NULL]

StandardTypes == {"error", "warning", "notice", "information"}

AllTypes == StandardTypes \cup {"debug", "subscribe", "unsubscribe"}

\* Mutant of _config_init_reload: the settings are not reset.
_config_init_reload_keeps_settings(config) ==
    [config EXCEPT
       !.set = (IF "persistence" \in DOMAIN @ THEN @ ELSE ReloadDefaults) @@ ReloadDefaults,
       !.log_dest = {"stderr"},
       !.log_type = IF config.verbose THEN AllTypes ELSE StandardTypes]

\* message_size_limit stays as it is.
_config_init_reload(config) ==
    [config EXCEPT
       !.set = ReloadDefaults @@ @,
       !.log_dest = {"stderr"},
       !.log_type = IF config.verbose THEN AllTypes ELSE StandardTypes]

\* A listener of the file begins with all bytes zero.
NewListener ==
    [o \in ListenerStrings \cup {"host", "mount_point"} |-> NULL]
    @@ [o \in ListenerBools |-> FALSE] @@ [port |-> 0, max_connections |-> 0]

NewBridge ==
    [o \in BridgeStrings |-> NULL]
    @@ [o \in BridgeBools |-> o \in {"notifications", "try_private"}]
    @@ [idle_timeout |-> 60, keepalive_interval |-> 60, restart_timeout |-> 30, threshold |-> 10,
        start_type |-> "automatic", addresses |-> <<>>, topics |-> <<>>, topic_remapping |-> FALSE]

mqtt3_config_init ==
    _config_init_reload(
      [set |-> [o \in {"auth_plugin", "pid_file", "user"} |-> NULL] @@ [message_size_limit |-> 0],
       default |-> [NewListener EXCEPT !.max_connections = -1],
       listeners |-> <<>>, bridges |-> <<>>, verbose |-> FALSE, daemon |-> FALSE,
       config_file |-> FALSE, filepath |-> NULL, log_dest |-> {}, log_type |-> {},
       max_inflight |-> 20, max_queued |-> 100])

-----------------------------------------------------------------------------
(* A line of the file.  The reader ("w") knows the configuration, what it  *)
(* keeps until the end ("cr"), the listener and the bridge it is in, and   *)
(* whether the array of either has moved since it was found ("lost"): what *)
(* is written through the old pointer is lost then.                        *)

error(w) == [w EXCEPT !.rc = 1]

set(w, o, value) == [w EXCEPT !.config.set[o] = value]

set_listener(w, o, value) ==
    IF w.listener = 0 THEN [w EXCEPT !.config.default[o] = value]
    ELSE IF "listeners" \in w.lost THEN w
    ELSE [w EXCEPT !.config.listeners[w.listener][o] = value]

set_bridge(w, o, value) ==
    IF "bridges" \in w.lost THEN w ELSE [w EXCEPT !.config.bridges[w.bridge][o] = value]

cur_listener(w) ==
    IF w.listener = 0 THEN w.config.default ELSE w.config.listeners[w.listener]

cur_bridge(w) == w.config.bridges[w.bridge]

\* What is read of a value: nothing, which is an error, or the value.
failed == [rc |-> 1]
got(value) == [rc |-> 0, value |-> value]

\* A word that is neither is reported, and passed over.
_conf_parse_bool(old, values) ==
    IF values = <<>> THEN failed
    ELSE got(CASE Head(values) = "true" -> TRUE [] Head(values) = "false" -> FALSE [] OTHER -> old)

_conf_parse_int(values) == IF values = <<>> THEN failed ELSE got(Head(values))

\* A value that is there already is an error.
_conf_parse_string(old, values) ==
    IF values = <<>> \/ old # NULL THEN failed ELSE got(Head(values))

\* Scalar options.
global_option(w, o, line) ==
    LET old == IF w.reload /\ o \in ReloadStrings THEN NULL ELSE w.config.set[o]
        read == CASE o \in GlobalBools -> _conf_parse_bool(w.config.set[o], line.words)
                  [] o \in DOMAIN GlobalInts -> _conf_parse_int(line.nums)
                  [] o \in GlobalStrings -> _conf_parse_string(old, line.words)
        put(value) == set(IF o \in DOMAIN GlobalInts /\ value \notin GlobalInts[o]
                          THEN error(w) ELSE w, o, value)
    IN IF read.rc # 0 THEN error(w) ELSE put(read.value)

\* An option of the authentication plugin: its name and its value.
auth_opt(w, line) ==
    IF Len(line.words) < 2 THEN error(w)
    ELSE set(w, "auth_options", Append(w.config.set["auth_options"], line.words))

autosave_interval(w, line) ==
    LET read == _conf_parse_int(line.nums)
    IN IF read.rc # 0 THEN error(w) ELSE set(w, "autosave_interval", IF read.value < 0 THEN 0 ELSE read.value)

\* A number of days, weeks, months or years.
persistent_client_expiration(w, line) ==
    LET unit == [d |-> 86400, w |-> 604800, m |-> 2592000, y |-> 31536000]
    IN IF line.nums = <<>> THEN w
       ELSE IF line.words = <<>> \/ Range(line.words) \ DOMAIN unit # {} THEN error(w)
       ELSE LET time == line.nums[1] * unit[line.words[1]]
            IN IF time <= 0 THEN error(set(w, "persistent_client_expiration", time))
               ELSE set(w, "persistent_client_expiration", time)

\* An option of the listener that was begun last.
listener_option(w, o, line) ==
    LET old == cur_listener(w)[o]
        read == IF o \in ListenerBools THEN _conf_parse_bool(old, line.words)
                ELSE IF o \in {"cafile", "certfile"} /\ cur_listener(w)["psk_hint"] # NULL THEN failed
                ELSE _conf_parse_string(old, line.words)
    IN IF read.rc # 0 THEN error(w) ELSE set_listener(w, o, read.value)

mount_point(w, line) ==
    LET read == _conf_parse_string(cur_listener(w)["mount_point"], line.names)
        done == set_listener(w, "mount_point", read.value)
    IN IF w.config.listeners = <<>> \/ read.rc # 0 THEN error(w)
       ELSE IF _mosquitto_topic_wildcard_len_check(read.value) THEN done ELSE error(done)

\* Nothing happens without a value.
max_connections(w, line) ==
    IF line.nums = <<>> THEN w
    ELSE set_listener(w, "max_connections", IF Head(line.nums) < 0 THEN -1 ELSE Head(line.nums))

port_of(v) == IF v \in 1..65535 THEN v ELSE NULL

\* The array has grown when the port is looked at.
listener(w, line) ==
    LET grown == [w EXCEPT !.config.listeners = Append(@, NewListener)]
        begun == [NewListener EXCEPT !.port = Head(line.nums),
                                     !.host = IF line.words = <<>> THEN NULL ELSE line.words[1]]
        last == Len(grown.config.listeners)
    IN IF line.nums = <<>> THEN error(w)
       ELSE IF port_of(Head(line.nums)) = NULL THEN error(grown)
       ELSE [grown EXCEPT !.config.listeners[last] = begun, !.listener = last,
                          !.lost = @ \ {"listeners"}]

port(w, line) ==
    LET read == _conf_parse_int(line.nums)
    IN IF read.rc # 0 \/ (read.rc = 0 /\ port_of(read.value) = NULL) THEN error(w)
       ELSE [w EXCEPT !.config.default.port = read.value]

\* The name has to be one that can be resolved.
bind_address(w, line) ==
    LET read == _conf_parse_string(w.config.default.host, line.words)
        done == [w EXCEPT !.config.default.host = read.value]
    IN IF read.rc # 0 THEN error(w) ELSE IF read.value = "unresolvable" THEN error(done) ELSE done

-----------------------------------------------------------------------------
(* Bridges.                                                                *)

connection(w, line) ==
    IF line.words = <<>> THEN error(w)
    ELSE [w EXCEPT !.config.bridges = Append(@, NewBridge @@ [name |-> Head(line.words)]),
                   !.bridge = Len(w.config.bridges) + 1, !.lost = @ \ {"bridges"}]

\* Certificates and keys exclude each other.
other_encryption(o) ==
    CASE o \in Certificates -> Keys [] o \in Keys -> Certificates [] OTHER -> {}

bridge_option(w, o, line) ==
    LET old == cur_bridge(w)[o]
        read == CASE o \in BridgeStrings -> _conf_parse_string(old, line.words)
                  [] o \in BridgeBools -> _conf_parse_bool(old, line.words)
                  [] o \in DOMAIN BridgeInts -> _conf_parse_int(line.nums)
        raised == IF o \in DOMAIN BridgeInts /\ read.value < BridgeInts[o] THEN BridgeInts[o] ELSE read.value
    IN IF read.rc # 0 \/ \E p \in other_encryption(o) : cur_bridge(w)[p] # NULL THEN error(w)
       ELSE set_bridge(w, o, raised)

\* A list of hosts with ports, once.
addresses(w, line) ==
    IF \/ line.words = <<>> \/ cur_bridge(w).addresses # <<>>
       \/ \E k \in DOMAIN line.nums : port_of(line.nums[k]) = NULL
    THEN error(w)
    ELSE set_bridge(w, "addresses", [k \in DOMAIN line.words |-> <<line.words[k], line.nums[k]>>])

start_type(w, line) ==
    IF line.words # <<>> /\ Range(line.words) \subseteq {"automatic", "lazy", "once"}
    THEN set_bridge(w, "start_type", Head(line.words)) ELSE error(w)

\* A topic line: the topic, direction, QoS and the two prefixes, each of which may
\* be missing from some place on; the empty name stands for none.
read_topic(line) ==
    LET name(k) == IF Len(line.names) < k THEN NULL
                   ELSE IF line.names[k] = <<>> THEN NULL ELSE line.names[k]
    IN [topic |-> name(1), local_prefix |-> name(2), remote_prefix |-> name(3),
        direction |-> IF line.words = <<>> THEN "out" ELSE line.words[1],
        qos |-> IF line.nums = <<>> THEN 0 ELSE line.nums[1]]

topic_is_valid(t) ==
    /\ t.direction \in {"out", "in", "both"} /\ t.qos \in 0..2
    /\ \A p \in {t.local_prefix, t.remote_prefix} : p # NULL => _mosquitto_topic_wildcard_len_check(p)
    /\ t.topic = NULL => t.local_prefix # NULL /\ t.remote_prefix # NULL

prefixed(prefix, name) ==
    CASE prefix = NULL -> name [] name = NULL -> prefix [] OTHER -> prefix \o name

\* The topic under which the local broker, and the remote one, know it.
topic(w, line) ==
    LET t == read_topic(line)
        added == Append(cur_bridge(w).topics,
                        t @@ [local_topic |-> prefixed(t.local_prefix, t.topic),
                              remote_topic |-> prefixed(t.remote_prefix, t.topic)])
    IN IF line.names = <<>> \/ ~topic_is_valid(t) THEN error(w)
       ELSE set_bridge(set_bridge(w, "topics", added), "topic_remapping",
                       cur_bridge(w).topic_remapping \/ Len(line.names) > 1)

-----------------------------------------------------------------------------
(* Logging and limits, which are kept aside until the end.                 *)

log_dest(w, line) ==
    LET put(d) == [w EXCEPT !.cr.log_dest_set = TRUE,
                            !.cr.log_dest = IF d = "none" THEN {} ELSE @ \cup {d}]
        file == put("file")
    IN CASE line.words = <<>> -> error(w)
         [] line.words # <<>> /\ Head(line.words) = "file" ->
              IF Len(line.words) < 2 \/ w.config.set["log_file"] # NULL THEN error(file)
              ELSE set(file, "log_file", line.words[2])
         [] line.words # <<>> /\ Head(line.words) \in {"none", "syslog", "stdout", "stderr", "topic"} ->
              put(Head(line.words))
         [] OTHER -> error([w EXCEPT !.cr.log_dest_set = TRUE])

log_type(w, line) ==
    LET put(types) == [w EXCEPT !.cr.log_type_set = TRUE, !.cr.log_type = types]
    IN CASE line.words = <<>> -> w
         [] line.words = <<"none">> -> put({})
         [] line.words = <<"all">> -> put(AllTypes)
         [] OTHER -> IF Head(line.words) \in AllTypes THEN put(w.cr.log_type \cup Range(line.words))
                     ELSE error(put(w.cr.log_type))

limit(w, o, line) ==
    IF line.nums = <<>> THEN w
    ELSE [w EXCEPT !.cr[o] = IF Head(line.nums) < 0 THEN 0 ELSE Head(line.nums)]

-----------------------------------------------------------------------------
(* The file.                                                               *)

\* A line of a file that is not an include_dir.
read_line(w, line) ==
    LET o == line.option
    IN IF w.rc # 0 \/ (w.reload /\ o \in NotReloaded) THEN w
       ELSE IF o \in BridgeOptions /\ w.bridge = 0 THEN error(w)
       ELSE CASE o \in GlobalBools \cup DOMAIN GlobalInts \cup GlobalStrings ->
                   global_option(w, o, line)
              [] o \in ListenerBools \cup ListenerStrings -> listener_option(w, o, line)
              [] o \in BridgeStrings \cup BridgeBools \cup DOMAIN BridgeInts ->
                   bridge_option(w, o, line)
              [] o \in {"max_inflight", "max_queued"} -> limit(w, o, line)
              [] o \in Ignored -> w
              [] o = "auth_opt" -> auth_opt(w, line)
              [] o = "autosave_interval" -> autosave_interval(w, line)
              [] o = "persistent_client_expiration" -> persistent_client_expiration(w, line)
              [] o = "mount_point" -> mount_point(w, line)
              [] o = "max_connections" -> max_connections(w, line)
              [] o = "listener" -> listener(w, line)
              [] o = "port" -> port(w, line)
              [] o = "bind_address" -> bind_address(w, line)
              [] o = "connection" -> connection(w, line)
              [] o = "addresses" -> addresses(w, line)
              [] o = "start_type" -> start_type(w, line)
              [] o = "topic" -> topic(w, line)
              [] o = "log_dest" -> log_dest(w, line)
              [] o = "log_type" -> log_type(w, line)
              [] OTHER -> error(w)

\* A file is read from outside of any listener and bridge.
read_included(w, file) ==
    LET back(inner) ==
          LET grown == {part \in {"listeners", "bridges"} :
                          w.moves /\ Len(inner.config[part]) > Len(w.config[part])}
          IN [inner EXCEPT !.listener = w.listener, !.bridge = w.bridge, !.lost = w.lost \cup grown]
    IN back(FoldLeft(LAMBDA v, line : IF line.option = "include_dir" THEN v ELSE read_line(v, line),
                     [w EXCEPT !.listener = 0, !.bridge = 0, !.lost = {}], file))

\* The files of the directory; only the main file has one.
include_dir(w, dir) ==
    IF w.rc # 0 THEN w
    ELSE FoldLeft(LAMBDA v, file : IF v.rc # 0 THEN v ELSE read_included(v, file), w, dir)

\* The file may be gone.
_config_read_file(w, disk) ==
    IF disk.file = NULL THEN error(w)
    ELSE FoldLeft(LAMBDA v, line : IF line.option = "include_dir" THEN include_dir(v, disk.dir)
                                   ELSE read_line(v, line), w, disk.file)

bridge_is_complete(b) ==
    /\ b.addresses # <<>> /\ b.topics # <<>>
    /\ b["bridge_psk"] = NULL <=> b["bridge_identity"] = NULL

with_filepath(config) ==
    LET named == IF config.set["persistence_file"] # NULL THEN config
                 ELSE [config EXCEPT !.set["persistence_file"] = "mosquitto.db"]
    IN IF ~config.set["persistence"] THEN config
       ELSE [named EXCEPT !.filepath = <<named.set["persistence_location"],
                                         named.set["persistence_file"]>>]

\* What is set at the end: first the limits; if the bridges are complete, logging.
with_limits(config, cr) ==
    [with_filepath(config) EXCEPT
       !.set["user"] = IF @ = NULL THEN "mosquitto" ELSE @,
       !.max_inflight = cr.max_inflight, !.max_queued = cr.max_queued]

with_logging(config, cr) ==
    IF \E k \in DOMAIN config.bridges : ~bridge_is_complete(config.bridges[k])
    THEN [config |-> config, rc |-> 1]
    ELSE [config |-> [config EXCEPT
                        !.log_dest = IF cr.log_dest_set THEN cr.log_dest ELSE @,
                        !.log_type = IF config.verbose THEN StandardTypes \cup {"debug"}
                                     ELSE IF cr.log_type_set THEN cr.log_type ELSE @],
          rc |-> 0]

\* After an error in a line, what the lines before it said is there.
mqtt3_config_read(config, disk, reload, moves) ==
    LET cr == [log_dest_set |-> FALSE, log_dest |-> {}, log_type_set |-> FALSE, log_type |-> {},
               max_inflight |-> 20, max_queued |-> 100]
        finished(w) == IF w.rc # 0 THEN [config |-> w.config, rc |-> 1]
                       ELSE with_logging(with_limits(w.config, w.cr), w.cr)
    IN finished(_config_read_file(
         [config |-> IF reload THEN _config_init_reload(config) ELSE config, cr |-> cr,
          reload |-> reload, listener |-> 0, bridge |-> 0, lost |-> {}, moves |-> moves,
          rc |-> 0], disk))

-----------------------------------------------------------------------------
(* The command line.                                                       *)

argument(acc, arg, disk, moves) ==
    LET read == mqtt3_config_read([acc.config EXCEPT !.config_file = TRUE], disk, FALSE, moves)
    IN IF acc.rc # 0 THEN acc
       ELSE CASE arg.option = "-c" -> read
              [] arg.option = "-d" -> [acc EXCEPT !.config.daemon = TRUE]
              [] arg.option = "-p" /\ port_of(arg.value) # NULL ->
                   [acc EXCEPT !.config.default.port = arg.value]
              [] arg.option = "-v" -> [acc EXCEPT !.config.verbose = TRUE]
              [] OTHER -> [acc EXCEPT !.rc = 1]

\* The default listener is one if there is no other or something was said of it.
uses_default(config) ==
    \/ config.listeners = <<>>
    \/ \E o \in DOMAIN NewListener \ {"tls_version"} :
         config.default[o] # [NewListener EXCEPT !.max_connections = -1][o]

completed(config) ==
    LET default == [config.default EXCEPT !.port = IF @ = 0 THEN 1883 ELSE @]
    IN [config EXCEPT
          !.listeners = IF uses_default(config) THEN Append(@, default) ELSE @,
          !.set["user"] = IF @ = NULL THEN "mosquitto" ELSE @,
          !.log_type = IF config.verbose THEN AllTypes ELSE @]

mqtt3_config_parse_args(args, disk, moves) ==
    LET step(acc, arg) == argument(acc, arg, disk, moves)
        finished(read) == IF read.rc # 0 THEN read ELSE [read EXCEPT !.config = completed(@)]
    IN finished(FoldLeft(step, [config |-> mqtt3_config_init, rc |-> 0], args))

-----------------------------------------------------------------------------
(* The broker is started, its files are changed, and it reads them again.  *)
(* moves: whether realloc moves an array that grows.                       *)

ConfigInit ==
    conf = [stage |-> "off", args |-> <<>>, disk |-> NULL, config |-> NULL, rc |-> 0, reloads |-> 0,
            moves |-> FALSE]

StartBroker(s, moves) ==
    /\ conf.stage = "off"
    /\ \E read \in {mqtt3_config_parse_args(s.args, s.disk, moves)} :
         conf' = [conf EXCEPT !.stage = IF read.rc = 0 THEN "running" ELSE "refused",
                               !.args = s.args, !.disk = s.disk, !.config = read.config,
                               !.rc = read.rc, !.moves = moves]

\* The result is not looked at: the broker goes on with what there is.
SigHup(disk) ==
    /\ conf.stage = "running" /\ conf.config.config_file /\ conf.reloads < MaxReloads
    /\ \E read \in {mqtt3_config_read(conf.config, disk, TRUE, conf.moves)} :
         conf' = [conf EXCEPT !.disk = disk, !.config = read.config, !.rc = read.rc,
                               !.reloads = @ + 1]

ConfigNext ==
    \/ conf.stage = "off" /\ \E s \in Starts, moves \in BOOLEAN : StartBroker(s, moves)
    \/ \E disk \in Disks : SigHup(disk)

-----------------------------------------------------------------------------
(* Properties.                                                             *)

\* Every bridge of a broker that runs has an address and topics with a name on
\* both sides, and encrypts in at most one way (conf.c, "Cannot use both
\* certificate and psk encryption in a single bridge"), in whatever order the
\* lines came and whichever file they were in.
BridgesAreUsable ==
    conf.stage = "running" =>
        \A k \in DOMAIN conf.config.bridges :
            LET b == conf.config.bridges[k]
            IN /\ bridge_is_complete(b)
               /\ \A l \in DOMAIN b.topics :
                    b.topics[l].local_topic # NULL /\ b.topics[l].remote_topic # NULL
               /\ ~ \E o \in Certificates, p \in Keys : b[o] # NULL /\ b[p] # NULL

\* After a reload without an error the settings are those a start with the same
\* file would give, whatever the files said before: no setting whose line was
\* taken out survives, save for message_size_limit; with -v the types of messages
\* that are logged differ.
ReloadLikeRestart ==
    LET same(fresh) ==
          /\ \A o \in DOMAIN ReloadDefaults : conf.config.set[o] = fresh.config.set[o]
          /\ conf.config.max_inflight = fresh.config.max_inflight
          /\ conf.config.max_queued = fresh.config.max_queued
          /\ conf.config.log_dest = fresh.config.log_dest
          /\ conf.config.verbose \/ conf.config.log_type = fresh.config.log_type
        holds(fresh) == fresh.rc = 0 => same(fresh)
    IN conf.reloads > 0 /\ conf.rc = 0 =>
         holds(mqtt3_config_parse_args(conf.args, conf.disk, conf.moves))

\* The configuration a broker runs with does not depend on how it came about: not
\* on the order of lines and files (conf.c), and not on what was set before.
ConfigIsSound == BridgesAreUsable /\ ReloadLikeRestart
=============================================================================
