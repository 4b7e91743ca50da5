# A TLA+ development of psn and mosquitto

psn is an instant messaging client (`src/psn.c`, `src/psn_cli.c`) on top of
MQTT. It uses the vendored client library libmosquitto (`src/mosquitto/lib`),
talks to the vendored mosquitto broker (`src/mosquitto/src`), and comes with the
broker's companion programs (`src/mosquitto/client`, `mosquitto_passwd`, `db_dump`). This
directory models these programs, checks the models with TLC and proves theorems
about psn, about the broker and about other parts of mosquitto with TLAPS. Paths below are relative to `src/`; `lib/`, `src/` and
`client/` after that stand for the directories below `src/mosquitto/`.

## 1. The system

| Component | State | Operations | Modules |
|---|---|---|---|
| Friend lists and handshake (`psn.c`) | the uthash tables `friends`, `friend_requests_incoming`, `friend_requests_outgoing` of `psn_t` | `psn_make_friend_req`, `psn_accept_friend_req`, `psn_refuse_friend_req`, `psn_delete_friend`, the `frequest` half of `psn_message_callback` | `PsnClients`, `Friendship`, `UserList` |
| Chat (`psn.c`) | none of its own; reads `friends` | `psn_send_message`, `psn_send_encrypted_message`, the `chat` half of `psn_message_callback` | `PsnClients` |
| Connection (`psn.c`) | the static flag `connected`, `psn->mosq` | `psn_connect`, `psn_disconnect`, `psn_free` (never called) | `PsnClients`, `PsnSession` |
| Config file (`psn.c`, `psn_cli.c`) | a JSON file: own name, server, three arrays of users, private key | `psn_cli_save_file`, `psn_serialize_config`, `psn_cli_load_file`, `psn_deserialize_config`, `buf_to_hex_str`, `hex_str_to_buf` | `PsnPersist`, `HexCodec` |
| Command line (`psn_cli.c`) | the `psn_t` of `main` | one command, one `psn_*` call; `-c file` at start | `PsnClients`, `PsnPersist` |
| Client library: messages (`lib/messages_mosq.c`, `lib/read_handle*.c`) | two message lists, the count in flight, the message ids | publish, the QoS 1 and 2 handshakes, retry, reset on reconnect | `LibMessages`, `MessageFlow`, `QosDelivery` |
| Client library: connections (`lib/mosquitto.c`, `lib/net_mosq.c`) | connection state, loop thread, mutexes, the clock of keepalive | connect, disconnect, `mosquitto_loop_forever` with its automatic reconnect | `PsnSession`, `KeepAlive` |
| Packets (`lib/send*.c`, `lib/net_mosq.c`, `src/send_server.c`) | queued and half read packets | composing, writing, reading, parsing | `Packets` |
| Sockets and TLS (`lib/net_mosq.c`, `lib/tls_mosq.c`, `src/net.c`) | descriptors, SSL objects | connecting, certificates and pre-shared keys, listening | `Sockets` |
| Broker: sessions (`src/read_handle_server.c`, `src/context.c`, `src/loop.c`) | contexts, the index of client ids, wills | CONNECT, DISCONNECT, takeover, timeouts, expiry | `Broker`, `BrokerSessions` |
| Broker: messages (`src/database.c`) | bodies with reference counts, a bounded list per session | insert, acknowledge, retry, queue limits | `BrokerDb` |
| Broker: subscriptions (`src/subs.c`, `lib/util_mosq.c`) | the subscription tree, retained messages | subscribe, unsubscribe, search, match | `Topics`, `SubTree` |
| Broker: access (`src/security*.c`) | access lists, patterns, passwords | check, read, reload | `Access` |
| Broker: persistence (`src/persist.c`, `src/db_dump`) | the database file | save, restore, dump | `BrokerPersist`, `DbFile` |
| Broker: configuration (`src/conf.c`) | `struct mqtt3_config` | arguments, file, `include_dir`, reload | `BrokerConfig` |
| Broker: bridges (`src/bridge.c`, `src/loop.c`) | a context with its bridge | connect, notifications, renaming of topics | `Bridge` |
| Broker: process (`src/mosquitto.c`, `src/logging.c`) | pid file, privileges, signal flags, log destinations, plugin | `main`, the signal handlers | `BrokerMain` |
| Broker: `$SYS` (`src/sys_tree.c`, `lib/memory_mosq.c`) | counters, loads, memory count | update | `SysTree` |
| `mosquitto_pub`, `mosquitto_sub` (`client/`) | options, status, the last message | command line, callbacks, reading lines | `ClientOptions`, `ClientPrograms` |
| `mosquitto_passwd` | password file, backup, temporary file | create, set, delete, update | `PasswordFile` |
| uthash (`src/uthash.h`) | buckets, chains, the list of all elements | add, delete, find, iterate, expand | `HashTable`, `OrderedTable` |

How they interact. `main` of psn runs the `psn_*` calls on the **command line
thread**. `psn_connect` starts libmosquitto's **loop thread**, which runs
`psn_message_callback` for every PUBLISH. Both threads read and write the three
tables; nothing locks them. Clients talk to each other only through the broker,
with two topics: `users/<to>/frequest/<from>` for a friend request *and* for its
acceptance, and `chat/<from>/<to>`. psn's messages are QoS 1 (at least once) and
its sessions are clean sessions (nothing is kept for a client that is away). The
broker has one thread: a pass of its main loop reads from every socket, calls a
handler per packet, and then writes, times out and frees. Its handlers meet in
shared structures (the contexts, the tree that points to them, the bodies that
the sessions' messages point to, the access lists that contexts point to), which
the configuration's reload, a save and the clean-up change under them. Signals
only set flags that the main loop reads.

What is hard here: psn's callback between two list updates of one call; requests
and acceptances that cannot be told apart, while the network repeats, delays and
drops them; the automatic reconnect, which restores the connection and not the
subscriptions; the join of a loop thread whose state both threads write; a save
that reads lists that change, and truncates first. In the broker: a session taken
over half way through a refused CONNECT; the count in flight through resets,
retries and restarts; a reload under connected clients; a kill in the middle of a
save; packets cut anywhere; a bridge that fails over and back; signals between
any two steps of `main`. The list `hazards` of `PROJECT.json` gives each with its line.

What makes it correct, per component:

* handshake: nobody is in a friend list without the consent of both sides; each
  entry uses up one consent of the list's owner; a request between connected
  clients arrives, an answer completes the friendship;
* chat: only friends' lines are shown, and friends' lines are shown;
* connection: connected clients hear each other; disconnect returns, and leaves
  no thread behind;
* config file: saving and loading make friends of nobody but earlier contacts, a
  key comes back as it was;
* library and broker together: a message of QoS 1 or 2 arrives and is reported;
  publisher and broker forget it, the subscriber but for copies it has stored twice;
  the broker passes a QoS 2 message on once;
* broker: counts, pointers and indexes agree in every state; wills tell of lost
  connections only; a restart brings back what was saved;
* the files (database, passwords): a crash leaves the old contents or the new;
* configuration: the order of lines and the way by which the broker came to a
  configuration do not matter;
* bridges and client programs: they are connected and subscribed in the end, and
  report success only when it is one;
* both ends of a connection notice that the other is gone, and only then.

## 2. Modules

| Module | Models |
|---|---|
| `UserList` | a uthash table as psn sees it: a bag of names, with `HASH_FIND_STR`, `HASH_ADD_STR`, `HASH_DEL` |
| `Friendship` | abstract specification: what the handshake promises, without a network |
| `PsnClients` | the clients of a set of users and the broker: lists, handshake, chat, connections, failures |
| `PsnPersist` | extends `PsnClients` with the config file and crashes during a save |
| `PsnPersist_proofs` | theorems about `PsnClients`, among them that it implements `Friendship`, and about `PsnPersist` |
| `PsnSession`, `PsnSession_proofs` | one client's connect and disconnect in detail: the command line thread against libmosquitto's loop threads |
| `HexCodec` | the private key as hexadecimal text |
| `Topics` | names and filters: checks, matcher, tokeniser |
| `SubTree`, `BrokerDb`, `Access`, `Broker`, `BrokerPersist` | the broker as operators on its database: subscription tree, messages, access control, packet handlers, save and restore |
| `BrokerSessions` | the broker's main loop against scenarios of clients, crashes and reloads (composes the five above) |
| `LibMessages` | the messages of a libmosquitto client, as operators on the client |
| `QosDelivery` | abstract specification: what QoS 1 and 2 promise |
| `MessageFlow` | a publisher, the broker and a subscriber (composes `Broker` and `LibMessages`, implements `QosDelivery`) |
| `BrokerConfig`, `Packets`, `ClientOptions`, `ClientPrograms`, `Bridge`, `PasswordFile`, `DbFile`, `Sockets`, `BrokerMain`, `SysTree`, `KeepAlive` | the parts of mosquitto that section 1 names them for |
| `BrokerTree_proofs` | facts about `SubTree`: it stays a tree, and what is looked for is found where it should be |
| `BrokerDb_proofs` | what each operation of `BrokerDb` preserves |
| `BrokerSessions_proofs` | what each handler of `Broker` and each step of `BrokerSessions` preserves; theorems about the broker |
| `ClientPrograms_proofs` | theorems about `ClientPrograms` and `KeepAlive` |
| `Parts_proofs` | theorems about `HexCodec`, `Sockets`, `PasswordFile`, `Bridge` and `SysTree` |
| `SequenceFolds` | induction along a fold, for the proofs about operators that walk over a list |
| `OrderedTable`, `HashTable` | abstract specification of a hash table, and uthash, which implements it |
| `MCPsnClients`, `MCPsnPersist`, `MCBrokerSessions`, `MCMessageFlow` | instances for TLC; `MCPsnPersist` puts `PsnSession` beside `PsnPersist`, and `EarlyDisconnect` runs `PsnSession` as it is |
| `MCConfig`, `MCPackets`, `MCPrograms`, `MCParts` | instances of the parts; `MCParts` puts them side by side |

The modules of mosquitto model a build with `WITH_TLS`, `WITH_TLS_PSK`, `WITH_THREADING`,
`WITH_BRIDGE`, `WITH_PERSISTENCE`, `WITH_MEMORY_TRACKING`, `WITH_SYS_TREE` and `WITH_SRV`, without
`WITH_STRICT_PROTOCOL` and `WITH_WRAP`, and with assertions: a failing assertion ends the
process. Allocation is assumed to succeed unless a module says otherwise.

### PsnClients

State and code. `friends`, `friend_requests_incoming`, `friend_requests_outgoing`
and `connected` are the fields and the flag of the same names, one per user.
`started[u]` says that the instance `psn->mosq` of `u` has a loop thread. It
differs from `connected` only after a second `psn_connect` that failed: the flag
stays true, `psn->mosq` is a new instance without a connection, and the older
instance goes on without a pointer to it. `cli[u]` is where the command line
thread is: at the prompt, or inside `psn_make_friend_req` or
`psn_accept_friend_req` after the publish. `session[u]` is the broker's view of
the client: `offline`, `subscribing` (CONNECT and the two SUBSCRIBEs are written,
not yet processed), `subscribed`, or `deaf` (connected again by the loop thread,
without subscriptions). `outq[u]` holds the messages without a PUBACK,
`inbox[u]` the broker's queue for `u`. `asked` and `shown` are history: who has
consented to whom, and whose chat line has been shown to whom.

Every `psn_*` call is an action with the code's early returns as its guards. A
call that only reports an error changes nothing and is not a step.
`psn_make_friend_req` and `psn_accept_friend_req` are two steps each, because
what the callback does in the gap matters; the others touch the lists once.
`psn_message_callback` handles the head of `inbox` in one step: its look-ups and
updates are not interrupted by anything that the command line thread could do
with a different result than before or after them.

The transport. `broker_publish` is one arrival of a message at the broker: it is
queued for its target if that is subscribed and the queue has room
(`mqtt3_db_message_insert`), and acknowledged in any case. If the PUBACK is lost
or late, the message stays in `outq` and may arrive again. The broker may send
an entry of `inbox` again as well (`send_again`). `link_lost` and `exit` take the
clean session with them. `lose_message` drops what was written to a socket that
is closed before it arrives.

Abstractions, and why they are sound for the properties:

* payloads are left out; empty chat payloads cannot be typed, so the test of
  `payloadlen` is always true. `rsa_encrypt_key` failing is an early return;
* `outq` is a set: identical messages without PUBACK are one, and their order is
  free. This allows more orders than TCP does, and resending breaks the order
  anyway. A message the broker sends again goes to the back of `inbox`;
* the two SUBSCRIBEs of `psn_connect` take effect together;
* user names are fixed, contain no topic separator or wildcard, and the broker
  enforces the ACL of `docs/proto.txt`, so `from` is the real sender;
* `psn->mosq` is uninitialised before the first connect. If it happens to be
  NULL, the inverted test at `psn.c:26` makes the connect a crash, which is
  `exit`; `PsnSession` has it as an action of its own;
* two threads in one uthash table at the same instant may corrupt memory; the
  models cover the interleavings of whole table operations only;
* `psn_disconnect` is one step and returns; when it does not is the subject of
  `PsnSession`;
* `Flaky` is the set of users whose process or link may fail. Only they connect
  again while connected, because then two instances with one client id throw
  each other out of the broker, which is a lost link.

### PsnPersist

`file[u]` is absent, empty (truncated by `fopen(.., "w")`), or a config of three
bags of names. A save is five steps: the truncation, one step for each of the
serializer's loops, and the write; the callback runs between them. No code sets
`user_t.pub_key`, so `pub_key.e == 0` always holds and all three loops take the
branch that appends to `friend_list`: this is what `Config(names, {}, {})` in
`save_write` says. A load adds every entry to its table and empties none. The
JSON of an empty file has no `username`, and the `strcpy` of NULL ends the process
(`load_empty`): a process that ends in the middle of a save has lost the saved
list, and the next load ends the new one. `MaxEntries` bounds
how often a load may multiply entries.

### PsnSession

One client process, its libmosquitto instances `1..MaxInstances` (every
`psn_connect` makes a new one and nothing is freed) and the broker as far as it
answers CONNECT. `connected_flag` and `mosq` are the flag and the pointer of `psn.c`;
`state`, `sock`, `out_packet`, `out_queue_len`, `callback_mutex` and `threaded` are the
fields of `struct mosquitto`. `command` is where the command line thread is inside
`psn_disconnect`: after the assignment of the state (`sending`), after the test of
the socket (`queueing`), in `pthread_join` (`joining`). `loop[i]` is where the thread of
instance `i` is: in `mosquitto_loop` (`select`), in the reconnect delay (`sleep`), between
the second test of the state and the assignment in `_mosquitto_reconnect`
(`reconnect`), in `_mosquitto_socket_connect` (`connecting`), waiting for the callback mutex
that it has locked itself (`hung`), or at its end (`done`). `asking`, `wire` and `owner`
are the connection to the broker: a CONNECT it has still to answer, what it has
sent, and which instance has the client id.

Steps are as fine as the two threads can see each other: `state` is written under
a mutex or in one store, so each access to it is a step of its own; reading a packet
and writing the queue are separate steps of `mosquitto_loop` in any order, since
what `select` reports depends on when data arrives. Abstractions:

* only CONNECT and DISCONNECT are kept in `out_packet`, only CONNACK and the end of
  the connection in `wire`; of the publishes their number matters, because
  `mosquitto_loop_write` runs for `out_queue_len` rounds. `in_queue_len` is always 0
  with QoS 1;
* the socket pair that wakes the loop thread is left out: `select` times out anyway;
* `EPROTO`, which ends the loop early, is set by TLS code only; `MOSQ_ERR_NOMEM` is
  left out;
* the callback mutex is initialised without attributes, so it is not recursive, and a second
  lock by its holder waits for ever;
* `_mosquitto_net_write` sets `errno` to 0, so the second round of
  `mosquitto_loop_write` does take place after a DISCONNECT;
* `_mosquitto_check_keepalive` may find the time over whenever it is called. A PINGRESP that
  does not come is a broken link;
* `exit` (`process_exit`) is typed at the prompt; a process killed while it hangs is not
  modelled.

### HexCodec

The private key leaves psn as hexadecimal text and comes back. `hexc` has the key,
the text, the bytes that come back and the last position written in the text's
buffer; lengths are unsigned, so that `(inlen - 1) / 2` wraps. The base is 2 in
place of 16 and `UINT_MAX` 255, which keeps every case of the code: no byte, some
bytes, as many as the buffer holds.

### The broker: Topics, SubTree, BrokerDb, Access, Broker, BrokerPersist, BrokerSessions

The broker has one thread, so a packet handler is one step. Handlers call each
other in many places; they are therefore operators that take the database and
return the changed one, and only `BrokerSessions` has variables. The database is a
record with the contexts, the index of client ids, the subscription tree, the
bodies with their reference counts, the access lists, and for each connection what
was written to it. A context is named by its slot, a body by its number, so that a
pointer that dangles is a number that leads nowhere.

* `Topics`: a string is a sequence of characters. `mosquitto_topic_matches_sub` is
  translated with its special cases; `Matches` is the reference definition.
* `SubTree`: a node is the path of tokens that leads to it. The tree keeps the order
  of children and the extra level below the root that the code makes.
* `BrokerDb`: inserting (sent, queued or dropped), acknowledging, retry, reset on
  reconnect, the counter `msg_count12`.
* `Access`: access lists, patterns, passwords; reading the three files and the
  reload with what it does to connected clients. A file is a sequence of lines.
* `Broker`: `mqtt3_handle_connect` with its refusals and the takeover, SUBSCRIBE,
  UNSUBSCRIBE, PUBLISH, the four acknowledgements, PINGREQ and DISCONNECT,
  `mqtt3_context_disconnect` and `mqtt3_context_cleanup`, the end of a connection,
  expiry of sessions.
* `BrokerPersist`: what a save writes and what a restore makes of it, as chunks.
* `BrokerSessions`: a pass of the main loop. `at` is how far it has come: reading from
  the slots in order, accepting, the house-keeping, then every context once more.
  A scenario says what peers send and what may happen to the broker; `saved`,
  `goodbye` and `durable` are history for the properties.

Abstractions: payloads are model values; time is "the retry interval has passed",
"the keepalive time has passed", "the session has expired", each a fault of a
scenario; a plugin's decisions are its own (its protocol is in `BrokerMain`).

### LibMessages, MessageFlow, QosDelivery

`LibMessages` has the client's two message lists, the count in flight, retry and the
reset on reconnect, in the style of the broker: operators on the client, with the
packets and callbacks that a step makes. `MessageFlow` composes two such clients,
publisher and subscriber, with `Broker`. Connections break at either end, with
everything on the way lost; the clients reconnect while the broker may still have
the old connection; answers may come later than the retry interval. `ConnLost` is a
client that finds its connection closed by the broker (a read of 0 bytes), as
after a packet that the broker does not accept. A connection that neither side has
open any more is used again, so that there may be any number of them.
`QosDelivery` is what they promise together: a message is reported only after the
broker has passed it on, and a message of QoS 2 is passed on once.
`ImplementsQosDelivery` is checked with `INSTANCE QosDelivery WITH Messages <- Payloads`.

### The other parts

Each has one variable, a record, and its own `Init` and `Next`:

* `BrokerConfig` (`conf`): the arguments, the lines of the file and of `include_dir`, one
  operator per kind of option, and the reload into the same structure, with the
  pointers `cur_listener` and `cur_bridge` that a growing array leaves behind.
* `Packets` (`link`): every packet composed as runs of bytes, written and read in
  pieces, parsed. A text keeps its true length, which goes into 16 bits modulo
  65536; so do the remaining length's one to four bytes.
* `ClientOptions`, `ClientPrograms` (`prog`): the command lines, what they set up, and the
  threads of `mosquitto_pub -l`: `my_publish_callback` is two steps (noting the message
  id, comparing), between which the main thread reads the next line.
* `Bridge` (`bridge`): one bridge with its addresses, the three kinds of start, the place
  in the set given to `poll`, notifications, subscriptions, and the renaming of
  topics. The remote broker is external.
* `HashTable` (`table`): elements with both kinds of links, buckets and their expansion,
  `noexpand`; `OrderedTable` is the abstract list. `MaxBuckets` ends the expansion.
* `PasswordFile` (`pw`): `mosquitto_passwd` step by step through backup, temporary file and
  copying back, stopped anywhere; the broker's parser reads the result.
* `DbFile` (`dbf`): the bytes of the database. A byte knows which value it is a part of, so
  that a reader that is out of step is seen. Written chunk by chunk with a crash or a
  full disk anywhere, cut off anywhere, and read by the broker and by `db_dump`.
* `Sockets` (`net`): descriptors by number (the lowest free one is taken), TLS settings, the
  certificate's names, pre-shared keys, listeners. What OpenSSL and the system
  report is a "world", chosen at the start.
* `BrokerMain` (`main`): `main` as the sequence `Steps`, of which any may fail and between
  which any signal may come; the log's destinations; the calls to a plugin.
* `SysTree` (`sys`): the counters, loads and memory of `$SYS`. One counter stands for those
  that are treated alike; the exponentials of two of the three periods are simple fractions.
* `KeepAlive` (`ka`): both ends in half seconds, each with its own clock of seconds.

## 3. Runs

| Run | Instance | Checks | Result |
|---|---|---|---|
| `Handshake` | both users may crash and lose links; two outgoing entries per name, queues of one | `TypeOK`, `FriendsByConsent`, `KnownAtMostTwice`, `ImplementsFriendship` | hold |
| `Delivery` | no failures, both add each other, queues of two | `RequestArrives`, `AcceptCompletes` | hold |
| `Chat` | `a` adds and chats, `b` may fail | `ShownByConsent`, `ChatArrives` | hold |
| `Persist` | `b` saves, loads, crashes | `PersistTypeOK`, `FriendsByContact` | hold |
| the same | beside it, `PsnSession`: two instances, links fail, connect while connected, disconnect at any time, two publishes | `SessionTypeOK`, `DisconnectedMeansClosed`, `LeakedMutexIsLast`, `DisconnectReturns` | hold |
| `BrokerSessions` | six scenarios: takeover, messages of all QoS, restarts, refusals, reloading, and a client that does what no good client does | `RefCounts`, `PointersHold`, `InFlightLimit`, `WillMeansLost`, `RestartKeepsSessions` | hold |
| `QosFlow` | one QoS 2 or QoS 1 message or one of each, a broken connection, a late answer, reconnects without bound | `ImplementsQosDelivery`, `Delivered` | hold |
| `Parts` | twelve parts, one at a time | see below | hold |
| `Reconnect` | `b`'s link may fail | `NotifiedInRealTime` | violated |
| `SaveLoad` | `b` saves and loads | `FriendsByConsent` | violated |
| `EarlyDisconnect` | one instance, links hold, the user does not wait | `DisconnectEnds` | violated |
| `ExactlyOnce` | as `QosFlow` | `ExactlyOnce` | violated |
| `SysMaximum` | three events of clients | `MaximumIsMaximum` | violated |

What the properties say is in the comment above each.

`BrokerSessions`. `RefCounts`: a body counts exactly the messages and retained messages
that point to it, or more once a new root has dropped the tree. `PointersHold`:
subscriptions, client ids, access list entries and retained messages lead where they
should. `InFlightLimit`: the counter is right for connected clients, and the limit is
kept in each direction. `WillMeansLost`: no will after a DISCONNECT.
`RestartKeepsSessions`: a restart brings back exactly what the last save had. The
history `odd` notes the three things a client may do that the broker is not made for
(section 5): an acknowledgement of a message that is still queued ("early"), a first
subscription to a new root token that starts with `$` ("root"), and a message under the
identifier of another that is not finished ("reuse"). Each is the exception of one
property; the last scenario does the first two.

`Parts`. A behaviour is one of one part: the others stay in the state they are in
before they start, so that twelve independent questions share one run.

| Part | Properties |
|---|---|
| configuration | `ConfigIsSound`: bridges are usable in whatever order their lines came; a reload gives what a restart would (but for `message_size_limit`, and the log types with `-v`) |
| packets, bridge | `MessagesComeThrough`: packets are understood as sent, however cut, lengths agree, nothing is left over (but for wills of more than 65535 bytes); names of topics come back over a bridge |
| client programs | `OptionsTake` (but for filters that end in "/#"), `SuccessMeansSent`, `ProgramsGetThere` |
| bridge | `BridgeIsSound`: notification, subscriptions, poll set (but for lazy bridges); `ConnectedInTheEnd`, at the primary address without round robin |
| hash table | `TableIsSound`: uthash's own `HASH_FSCK`, and look-ups; `ImplementsOrderedTable` |
| password file | `StoppedSafely`, `PasswordsAsTyped` |
| database file | `DatabaseFileIsSound`: whole after a crash; broker and `db_dump` agree on any cut; unknown chunks can be skipped |
| sockets | `DescriptorsBelong`: none leaked, none closed twice; `NothingInClear`: the peer is who it should be, a listener whose TLS settings are complete uses them |
| process | `MainInOrder`: log, plugin, pid file, database in an order that is safe; `MainGoesOn`: SIGTERM and SIGHUP are heeded (but for a SIGTERM before `run = 1` and a SIGHUP during a reload), log readers come to the end |
| `$SYS` | `SysTreeTells`: the retained messages say how things are (but for `clients/maximum`, see the run `SysMaximum`), loads are means, the count of memory is the size of the blocks and its maximum the most there was |
| hexadecimal codec | `KeysComeBack` |
| keepalive | `GivenUpWhenGone`: for keepalive times of 4 seconds and more; with `Keepalives` of 1 to 3 TLC finds a sound connection cut |

Where the code breaks a property in some case, the property names the case as its
exception, and section 5 lists it, with the document that says otherwise, where the
repository has one.

What the violated ones show (`findings` in `PROJECT.json`):

* `Reconnect`: the link of `b` breaks, `mosquitto_loop_forever` reconnects, nobody
  subscribes, and `b` never sees a friend's message again while `connected` is
  true. `docs/proto.txt:23` promises notification in real time.
* `SaveLoad`: a pending request is saved among the friends. `FriendsByContact`, which
  does hold, is what remains of the consent property: a load makes friends only
  of users who were in a request with the user.
* `EarlyDisconnect`: `disconnect` is typed before the CONNACK has been read.
  `_mosquitto_handle_connack` replaces `mosq_cs_disconnecting` by `mosq_cs_connected`,
  the DISCONNECT closes the socket, and the loop thread takes that for a lost
  connection. After the reconnect it blocks on the callback mutex that the
  DISCONNECT branch of `_mosquitto_packet_write` never unlocked. The prompt does not
  come back. `DisconnectReturns`, in the run `Persist`, is the other side: it returns
  unless this, a reconnect under way, or two messages without PUBACK (`hung`) come
  in between.
* `ExactlyOnce`: the subscriber's connection breaks before its PUBREC arrives. The
  broker sends the message again, the library appends it a second time
  (`lib/read_handle.c:157`), and each PUBREL gives the application one copy.
  `ImplementsQosDelivery` shows that on the way from the publisher through the broker
  there is no such duplicate. `Delivered` shows what becomes of the second copy when
  only one PUBREL comes for the two (section 5).
* `SysMaximum`: a client comes, leaves, its session expires, and `clients/maximum` falls
  from 1 to 0. What is published is the current total (`sys_tree.c:84`).

Bounds. Two users, `a` and `b`, in all runs of `PsnClients` and `PsnPersist`: the lists and
queues of different peers never meet in one condition of the code, so that an
interaction of three users is a projection of interactions of two; the theorems
hold for any number. `MaxRequests` (entries of one name among the outgoing
requests) is 1 or 2: `psn_make_friend_req` never looks for an existing entry, and a
second entry is where a list stops being a set. `MaxQueued` is 1 or 2: both a full
queue and a queue with a request and its duplicate are reached. `MaxEntries` is 3, so
that a load after a load is reached. `MaxInstances` is 2 (a second connect meets the
first; a third would meet the second in the same way) and `MaxUnacked` 2, on both
sides of the only comparison. `Symmetry` permutes the users where the instance
treats them alike and no liveness is checked.

In `BrokerSessions` `max_inflight` and `max_queued` are 1, so that the third message is
dropped; up to three connections share two client ids, and 4 to 6 packets are read
in a scenario, which is enough for two CONNECTs of one id with a subscription, a
message and a DISCONNECT between them; the broker restarts once. In `QosFlow` one
connection breaks and one answer is late for a single message; for two messages one
connection breaks. Identifiers of messages go round after `max_mid`, 2 there, as many as
there are messages; how often the subscriber has got a message is counted up to 2.
How often the clients reconnect is not bounded. The library's own limit is off (see section 5). In `Parts` faults,
losses, calls, saves and signals are bounded by 1 to 3; `Packets` cuts the stream in up
to three places into pieces of 1, 3 or all bytes; the table has five elements, most
of which share a bucket through several expansions; `KeepAlive` runs for 11 seconds, longer than
two keepalive times.

Fairness. `PsnClients`: weak fairness of the rest of a call that has published; of the
broker's processing of SUBSCRIBE; of the reconnect of the loop thread, which retries
for ever; of the arrival of an unacknowledged message *with* its PUBACK, and of the
callback with its PUBACK, because TCP delivers while the link is up and both sides
retransmit on a timer. Nothing is assumed of the user, of `psn_connect`, or of the
links: the liveness properties name a broken link or a full queue as an exception.
`SessionFairSpec` of `PsnSession`: the rest of `psn_disconnect`, each loop thread and the broker's
answer to a CONNECT: threads run and TCP delivers. `MessageFlow`: the broker's main
loop goes round for ever, and the loop thread of each client does one of what it can
do (`LoopThread`: reconnect, read, retry, find the connection closed); the
number of breaks is bounded, since with a network that breaks for ever nothing
arrives. `ClientPrograms`: both threads run, the broker answers, a reconnect works in
the end. `Bridge`: the main loop goes round, what is sent over a living connection is
read, and time passes. `BrokerMain`: the process runs.

Deadlock is checked in the passing runs but `Parts`, where each part comes to its end. In
`Persist` the sessions may rest (`Rest`): the hang described above really stops the
process, and the broker and the loop threads may have nothing left to do.

## 4. Theorems

| Theorem | States |
|---|---|
| `TypeCorrect` | `PsnClients`: `Spec => []TypeOK`; no table operation leaves the bags, so `HASH_DEL` is only applied to a name that is there |
| `Consent` | `Spec => []FriendsByConsent` |
| `ConsentToShow` | `Spec => []ShownByConsent` |
| `KnownTwice` | `Spec => []KnownAtMostTwice` |
| `Refinement` | `Spec => ImplementsFriendship` |
| `PersistTypeCorrect` | `PsnPersist`: `PersistSpec => []PersistTypeOK` |
| `FriendsFromFile` | `PersistSpec => []FriendsByContact` |
| `SessionTypeCorrect` | `PsnSession`: `Spec => []SessionTypeOK` |
| `DisconnectCloses` | `Spec => []DisconnectedMeansClosed` |
| `LeakedMutex` | `Spec => []LeakedMutexIsLast` |
| `BrokerSound` | `BrokerSessions`: `Spec => [](restarts = 0 => RefCounts /\ PointersHold /\ InFlightLimit)` |
| `GoodbyeMeansNoWill` | `Spec => [](restarts = 0 => WillMeansLost)` |
| `GivenUp` | `KeepAlive`: `KeepSpec => []GivenUpWhenGone` |
| `SuccessMeans` | `ClientPrograms`: `ProgSpec => []SuccessMeansSent` |
| `BridgeSound` | `Bridge`: `BridgeSpec => []BridgeIsSound` |
| `KeysSurvive` | `HexCodec`: `HexSpec => []KeysComeBack` |
| `DescriptorsKept`, `NothingClear` | `Sockets`: `NetSpec => []DescriptorsBelong`, `NetSpec => []NothingInClear` |
| `SafelyStopped` | `PasswordFile`: `PwSpec => []StoppedSafely` |
| `SysTreeTruth` | `SysTree`: `SysSpec => []SysTreeTells` |

Each holds for every value of the constants that satisfies the named assumption of
its module. What the assumptions ask for:

* `BoundsAssumption`, `InputsAssumption`, `SaversAssumption`, `SessionAssumption`: types.
* `BrokerDbAssumption`: the limits are numbers (0 is "no limit"), the switches booleans.
* `BrokerSessionsAssumption`: slots and connections are finitely many and numbered from 1;
  there are more slots than connections, so that a connection finds a free one, as it does
  in the code, where the array of contexts grows (`src/net.c`).
* `NullAssumption`, `ScenariosAssumption`: what packets and configurations consist of. A packet
  has the fields of its type in their ranges (QoS 0 to 2; the code ends a connection that sends
  another one), and whatever contents, order and number. A will can be told from other
  wills and from messages by its payload, which `WillMeansLost` needs to have a meaning.
* `KeepAssumption`, `RoomAssumption`: times are natural numbers, and half of the keepalive time
  is more than a packet's way and the sleep of the client's loop before it, on the
  clock of half seconds. The broker gives a client half of its keepalive time on top of it
  (`src/loop.c:149`), the only slack there is; TLC finds a sound connection cut without.
* `CommandsAssumption`: what `client_config_load` accepts has a QoS of 0 to 2 and reads lines
  only with `-l`. The code checks the first (`client/client_shared.c`), the second
  says that input of other modes is not part of the model.
* `BridgesAssumption`, `PwAssumption`: topics and lines come in lists.
* `HexAssumption`: bytes are numbers and the base is positive.
* `SysTreeAssumption`: there are finitely many counters, with topics of their own, and what
  -1 is as an unsigned number is not 0.
* `WorldsAssumption`: the outcomes of the system calls are the ones the model
  distinguishes, only settings that are in use can be wrong, and a server with
  certificates has one. The code calls OpenSSL's loading functions for the settings
  that are set and ends when the server's certificate cannot be loaded.

### Arguments

`Consent` and `ConsentToShow`. `FriendsByConsent` is not
inductive: a name enters `friends` because of an `inbox` message and an outgoing
entry, or at the end of an accept. `ConsentInv` therefore carries consent
along the whole way: every friend request in an `outq` or an `inbox` was asked
for by its sender (`OutqConsent`, `InboxConsent`, which also says that a message is
in its addressee's queue), an incoming entry by the peer and an outgoing one by
the owner (`ListConsent`), and a call that has published by its user, and if it is
an accept by the peer too (`CallConsent`). `asked` only grows, so that a message
repeated or delayed arbitrarily keeps its justification. `KnownTwice` needs only
the types: the callback adds a name to `friends` or to `incoming` only when it is
in neither, so the sum grows beyond one only through the entry that an accept
still holds in its hand. `Refinement` maps `offers` to the outgoing entries plus
the call that has published (`Consents`); the step that removes an entry from the
incoming list and publishes is `Offer`, the end of an accept or the arrival of an
answer is `Befriend`, a crash is `Forget`, and everything else stutters.

`PersistTypeCorrect` and `FriendsFromFile`. With the file, consent is lost (section 3);
contact, a request in either direction, remains. `PersistInv` says of every place a
name can be in that it is one of a contact (`Met`): the lists (`ListInv`), what a call
has in its hands while it saves or loads (`CallInv`), the file (`FileInv`) and the queues
(`QueueInv`). A crash during a save leaves an empty file or a whole one.

`DisconnectCloses` holds for every `MaxInstances`, `MaxUnacked` and every choice of the
three switches. The join alone does not give it: the command line thread sees
`loop = "done"`, and that the socket is closed then follows from the way to the
end of the loop. `SessionInv` therefore says where a thread may have a socket at
all (`Sockets`), how `threaded` and the position of the thread go together, also for
instances not yet made (`Threads`), that `psn->mosq` is the newest instance whenever a
call needs one (`NewestInstance`), and that without the flag the newest instance has no
thread (`FlagAndThread`), which a failed second connect could break.

`LeakedMutex`. `LeakInv` adds that a DISCONNECT is queued for an instance at most
once, by the call that clears `connected`, so that an instance whose mutex is
locked is not used any more or is being joined, and that its state stays
"disconnecting" away from a connection: only a CONNACK could change that, and it
needs a connection.

`BrokerSound`. A packet handler runs through many operations that each change one of
several structures, so the proof goes bottom up. `Sound` is what every operation of
`BrokerDb` keeps: types (`Typed`), no pointer without a body (`Pointed`), reference counts
(`Counts`), the topics of retained messages (`AtTopics`), and for each context the counter and
the order in its list of messages (`Flights`). The last is stronger than the limit: a
message on its way is among the first `max_inflight` of its direction (`OnTheWay`), since
otherwise the message that is admitted when another one goes could be one too many.
While a handler has taken a reference and not yet linked it, or has passed over messages
that it is about to drop, the sums differ; `SoundBut` has the messages concerned as a
parameter. `Linked` adds the index of client ids and the entries of the access list;
`Staged`, that a connection has an id exactly from its CONNECT on, without which a takeover
could meet a half-made context. Lemmas about the tree (`BrokerTree_proofs`) say that adding,
pruning and searching leave a tree and lead to its nodes; the searches are recursive functions
over the tree, whose existence is proved by induction on the depth.

`GoodbyeMeansNoWill`. `Willed` follows a will from its CONNECT: it belongs to the connection
of its context, no two contexts have one connection, and a body with the payload of a will
comes from a connection that is closed. A DISCONNECT takes the will and the
connection away together, and the ones that have gone stay away.

Both theorems speak of the broker until its first restart, with any number of clients,
scenarios and reloads. After one, they are false in this generality: `msg_count12` is not in the
file, and subscriptions are restored in the order of the file, where one to a new root
token can drop the tree ("root") though no client has done anything odd since. `BrokerInv`
says nothing more then, and the run `BrokerSessions` goes on.

`GivenUp`. `KeepInv` relates what each end has looked at to what the other has done:
where the clocks stand (`KeepStates`), when the last packet was sent, is on its way
and has been seen, and how long an end that is dead can have gone unnoticed (`Sound`).

`SuccessMeans`. `PubInv` relates four counts of `mosquitto_pub`: the lines read, the message
ids sent, the callbacks that have come and those that are due. `disconnect_sent` and
the status are set in callbacks of the loop thread while `main` reads on, in any order.

`BridgeSound`. `BridgeInv` follows the notification from the will to the retained
message (`Notified`) and the queue of subscriptions from the topics to the remote
broker (`Connection`), of which several may belong to one remote topic. The broker is
aborted only by a lazy bridge (section 5).

`KeysSurvive`. The two digits written for a byte give it back (division with
remainder), at the places that the walk over the key has reached; `HexInv` says that
text and bytes are those of the key.

`DescriptorsKept` and `NothingClear`. `NetInv` says that the open descriptors are the socket and
the pair while nothing has gone wrong (`Descriptors`), that an SSL object exists only
with the settings that made it and data flows only after a handshake (`Handshake`), and
what a listener has after each socket it has tried (`Listener`).

`SafelyStopped`. `PwInv` says what is in the file, the backup and the temporary file at each
point (`Stored`): a copy that goes on line by line is a beginning of what it copies,
and when nothing is left to copy it is the whole.

`SysTreeTruth`. `SysInv` says that a reader has what the broker compares with from the first
update on (`Followed`), before which nothing is known and every value differs from -1
(`Blank`), and that a counter and what it has counted since move together. `Told` goes
through an update topic by topic. The rates grow with what is counted, a load stays between
itself and the rate, the sum of the blocks follows each block that is added,
taken away or changed (`Sums`), and the maximum the broker keeps is the most of those
sums (`MostSoFar`). Of `clients/maximum` the theorem says nothing.

`SequenceFolds` is how induction over lists is done. Its constants are an operation and
a property; `WalkInvariant` says that what each step of `FoldLeft` preserves, the walk
preserves. A module with a walk takes an instance with operators of its own, and the
theorem about the walk becomes one about its steps. The proof is an induction on
the length. `NaturalsInduction` would need an operator as a parameter, so induction is
stated for sets of numbers (`Induction`), a hypothesis of the theorem; `NatInduct`, proved
by a least counterexample, discharges it in each module that has an instance. There are
23 of them, and every one is in sight of every proof of its module, for which reason
`SequenceFolds` extends nothing but `Integers`.

### Only model-checked

* Liveness (`AcceptCompletes`, `DisconnectReturns`, `Delivered`, `ConnectedInTheEnd` and the like): the
  prover has no fairness and no ENABLED.
* `MainInOrder`: `BrokerMain` uses RECURSIVE operators, with which the prover loses its
  arithmetic.
* What recursive functions over trees and strings compute: the matcher and which
  subscriptions a search finds (`Topics`, `SubTree`), the packets (`PacketsArrive`), the configuration
  (`ConfigIsSound`, `OptionsTake`), the database file (`DatabaseFileIsSound`), the hash table's
  expansion (`TableIsSound`).
* `RefCounts`, `PointersHold`, `InFlightLimit` and `WillMeansLost` of `BrokerSessions` after a
  restart of the broker, and `RestartKeepsSessions`.
* `PasswordsAsTyped`, which walks over lists and could be proved along `SequenceFolds`.
* The refinements `ImplementsQosDelivery` and `ImplementsOrderedTable`.
* That a bridge's names come back (`NamesComeBack`), which depends on the configuration:
  prefixes that overlap lose names, in the code as in the model.

## 5. Observations about the code

Met while translating the code; those that would break a property are named as
exceptions in it, the others are outside of what the properties say.

psn

* A request repeated between `HASH_DEL` and `HASH_ADD_STR` of `psn_accept_friend_req` is
  recorded again; accepting it makes a second entry, and `psn_delete_friend` removes
  one of the two (`psn.c:318`, `358`). `KnownAtMostTwice` is the bound.
* An acceptance that moves a user from `outgoing` to `friends` between the serializer's
  first and third loop leaves the user out of the file (`psn.c:473`).
* `buf_to_hex_str` ends the text a second time at twice its length (`psn.c:428`), which
  stays inside the buffer only for keys up to half its size; `hex_str_to_buf` takes an
  empty text for one that is too long; the export of the private key is unchecked (`558`).
* `psn_get_friend_list` writes through `*friends[i]`, wrong from the second friend on (`406`).

Client library

* `_mosquitto_packet_write` does not unlock `callback_mutex` after a DISCONNECT
  (`net_mosq.c:786`); with two publishes without PUBACK the loop thread blocks on it.
  `mosquitto_loop` returns with `state_mutex` locked without a socket (`mosquitto.c:849`).
* `_mosquitto_messages_reconnect_reset` counts before it compares (`messages_mosq.c:196`): with
  a limit of 1 in flight nothing is sent any more after a reconnect.
* A second `mosquitto_connect` loses the first socket pair (`mosquitto.c:416`), and
  `bind_address` is freed without being reset (`408`). `_mosquitto_socket_nonblock` closes
  the socket on failure, and so do its callers.
* A copy of a QoS 2 message that was stored twice (run `ExactlyOnce`) is never removed when
  only one PUBREL comes for the two. It stays over every reconnect, since what is preserved
  "should match whatever the client has got" (the comment at `lib/messages_mosq.c:175`); its
  PUBREC is sent again (`334`), the broker knows no such message (`src/database.c:415`) and closes
  the connection, and the client connects again (`lib/net_mosq.c:857`), for ever. This is
  the exception `left_over` of `Delivered`, which asks for quiet connections only when
  there is no such copy.
* Texts longer than 65535 bytes (a will's payload, names, a password) are sent with a
  truncated length; for a will's payload `lib/mosquitto.h:277` allows 268,435,455 bytes. A PUBLISH may be queued before the CONNECT (`mosquitto.c:513`).
* The two checks of `mosquitto_loop_misc` may both call `on_disconnect` (`mosquitto.c:1008`);
  with keepalive times below 4 seconds the broker may cut a sound connection (`src/loop.c:149`).
* `mosquitto_topic_matches_sub` does not compare the last character before `/#`: "ab/#"
  matches "ac", so that `mosquitto_sub -T "ab/#"` leaves out "a/", which
  `man/mosquitto_sub.1.xml:321` ("topics that match the filter") does not say; and a topic of one character does not match its own `/#` (`util_mosq.c:266`).

Broker: sessions and messages

* `mqtt3_db_message_timeout_check` never resets `new_state` between messages, and looks at
  contexts without a connection. `reconnect_reset` moves queued incoming messages to a
  publishing state; messages admitted from the queue are counted twice if incoming.
* `max_inflight_messages` is documented as the number of messages "in the process of being
  transmitted simultaneously" (`man/mosquitto.conf.5.xml:338`), but `mqtt3_db_message_write` admits
  a queued incoming message by a count of the incoming ones (`database.c:854`): with a limit
  of 2, two outgoing messages and an incoming one are in flight together (limits of 1
  do not show it, since the message counts itself). A PUBREC for a message that is
  still queued takes it out of the queue (`database.c:408`), beyond the limit.
* A takeover drops the old connection's will unsent, keeps its access list if the new
  user has no entry, never resets `is_bridge`, and keeps a clean session's
  subscriptions for a session that is not clean. A refusal by the will's access check
  after the takeover ends the connection that was taken over; a CONNACK that cannot
  be written then decrements `client_count` twice (assertion in `context.c:136`).
* A QoS 1 PUBLISH with the identifier of a QoS 2 message that is not finished gets the
  body, and so the topic, of that message: `mqtt3_db_message_store_find` looks for the
  identifier only (`src/read_handle.c:232`).
* UNSUBSCRIBE ignores the mount point. A first subscription to a new root token that
  starts with `$` drops the whole tree (`subs.c:394-411`), whose retained messages stay counted. "/a"
  and "a" have the same tokens.
* A reload closes sockets without their wills; a bad password file keeps the access
  file from being read; anonymous clients are always disconnected; patterns stay if
  there is no list; the result is ignored.
* A save ignores the results of writing clients, subscriptions and `fclose` before the
  rename (`persist.c:413-416`); a file cut at a chunk's boundary is read as whole;
  `msg_count12` is not restored; `db_dump` does not look at the version.

Broker: configuration, process, bridges, `$SYS`

* `message_size_limit` survives a reload that should reset it; `-v`, which is "equivalent to
  setting log_type to all" (`man/mosquitto.8.xml:63`), gives fewer log types after a reload than
  at the start (`conf.c:521`); duplicate lines are accepted on reload only; `cafile` and `psk_hint`
  exclude each other in one order only; options after an `include_dir` that makes the
  array of listeners or bridges grow are written through the old pointer.
* A SIGTERM between the installation of the handlers and `run = 1` (`src/mosquitto.c:330`) is
  lost, a SIGHUP or SIGUSR1 during its own reload or save as well (`loop.c:285-297`),
  though "upon receiving the SIGHUP signal, mosquitto will attempt to reload"
  (`man/mosquitto.8.xml:422`); no property speaks of SIGUSR1. The pid
  file stays behind when dropping privileges, the database or security fail; a plugin
  whose initialisation fails is not cleaned up.
* A lazy bridge gets no place in the poll set when it is started again (`loop.c:183-190`), and the
  assertion at `343` ends the broker, although it is to "be started automatically when the number
  of queued messages exceeds" the threshold (`man/mosquitto.conf.5.xml:981`); one with a clean session deletes the messages
  that woke it. Of two lines with the same remote topic the last decides; a name equal
  to the local prefix is not renamed back.
* `$SYS/broker/clients/maximum` is the current total (`sys_tree.c:84`; run `SysMaximum`).
* A listener with a `cafile` and a `certfile` but no `keyfile` comes up without TLS, and
  nothing is said of it (`net.c:355`): only complete settings count for `NothingInClear`.

Programs and uthash

* `mosquitto_pub -l` without input never ends; with a lost connection it returns success
  though lines are lost; lines of more than 1022 characters, and the last one without
  a newline, lose a character (`pub_client.c:757`); an invalid topic gives success.
  `--ciphers` without `--tls-version` is ignored, though the usage text lists it alone.
* `mosquitto_passwd` ignores `fclose`; a second run after a crash overwrites the backup; a
  last line without newline is joined to the next; deleting the last user leaves an
  empty file, which lets everyone in.
* With equal keys `HASH_FIND` returns the newest element before an expansion of the
  buckets and the oldest after it.

## 6. Not modelled, and what is left

* User settings of psn and a rename while connected (`psn_set_username`): plain
  assignments; subscriptions, client id and topics carry different names afterwards,
  and no document says what should happen.
* `psn_get_friend_list`: undefined from its second iteration on. `psn_free`: never called.
* Library initialisation; libtomcrypt and jansson (empty submodules): encryption
  decides nothing but an early return, JSON is abstracted to the names it carries.
* `mosquitto_unsubscribe`, `mosquitto_destroy` and the setters of callbacks in libmosquitto; the
  sort, select and Bloom filter macros of uthash, which nothing uses.
* The Windows service, examples, C++ and Python wrappers, the test suite, and the
  second, identical copy of mosquitto 1.3.1.

Proofs that would come next: `PasswordsAsTyped` along `SequenceFolds`; what a restart keeps
(`RestartKeepsSessions`), which needs that restoring the chunks one by one rebuilds the tree;
then the refinement of `OrderedTable` by `HashTable`.
