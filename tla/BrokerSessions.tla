--------------------------- MODULE BrokerSessions ---------------------------
(***************************************************************************)
(* The mosquitto broker and whatever its peers send: connections come and  *)
(* go, clients take over each other's sessions, the broker saves its       *)
(* database, dies, starts again, and reads its configuration again.        *)
(*                                                                         *)
(* One pass of the main loop (loop.c) reads from the sockets in the order  *)
(* of the slots, then accepts, saves, frees message bodies and reloads,    *)
(* each if its time has come, and then writes to, times out or frees every *)
(* context.  "at" is how far the pass has come.                            *)
(***************************************************************************)
EXTENDS BrokerPersist

CONSTANTS
    Chars,       \* the characters names are made of
    Slots,       \* places for contexts, 1 to their number
    Conns,       \* connections, 1 to their number, each of them made once
    Scenarios,   \* what the peers do and may happen to the broker: a set of records
                 \*   config    the configuration file
                 \*   reloads   configuration files it may be replaced by, once each
                 \*   packets   connection -> the packets it may send
                 \*   conns     how many connections are made
                 \*   reads     bound on the packets that are read
                 \*   breaks    bound on the connections that break in a handler
                 \*   faults    which of "silent", "expire", "late", "save", "crash"
                 \*             happen
    MaxRestarts  \* bound on the restarts of the broker

ASSUME BrokerSessionsAssumption ==
    /\ IsFiniteSet(Slots) /\ Slots = 1..Cardinality(Slots)
    /\ IsFiniteSet(Conns) /\ Conns = 1..Cardinality(Conns)
    /\ MaxRestarts \in Nat
    /\ \A s \in Scenarios :
         /\ DOMAIN s = {"config", "reloads", "packets", "conns", "reads", "breaks", "faults"}
         /\ s.conns \in Nat /\ s.conns <= Cardinality(Conns) /\ s.conns < Cardinality(Slots)

-----------------------------------------------------------------------------
(* What the peers can send, and what a context is made of.                 *)

Name == Seq(Chars)

\* A configuration: what the files say is in lists.
usable(config) ==
    /\ config.mount_point \in Name
    /\ config.acl_file # NULL =>
         Len(config.acl_file) \in Nat /\ DOMAIN config.acl_file = 1..Len(config.acl_file)

\* A packet that has been read: its fields have the ranges of the format, what they
\* say may be anything.
readable(p) ==
    /\ p.type = "CONNECT" =>
         /\ p.clean_session \in BOOLEAN /\ p.bridge \in BOOLEAN
         /\ p.will # NULL => /\ p.will.topic \in Name /\ p.will.qos \in 0..2
                            /\ p.will.retain \in BOOLEAN
    /\ p.type = "SUBSCRIBE" => /\ Len(p.subs) \in Nat /\ DOMAIN p.subs = 1..Len(p.subs)
                               /\ \A k \in DOMAIN p.subs : p.subs[k].sub \in Name
    /\ p.type = "UNSUBSCRIBE" => p.sub \in Name
    /\ p.type = "PUBLISH" => /\ p.topic \in Name /\ p.qos \in 0..2 /\ p.mid \in Nat
                             /\ p.retain \in BOOLEAN

sent(type) ==
    {p \in UNION {UNION {s.packets[c] : c \in Conns} : s \in Scenarios} : p.type = type}

Wills == {p.will : p \in sent("CONNECT")} \cup {NULL}
Ids == (UNION {{p.id, p.auto_id} : p \in sent("CONNECT")}) \cup {NULL}
Usernames == (UNION {{p.username, p.identity} : p \in sent("CONNECT")}) \cup {NULL}
Passwords == {p.password : p \in sent("CONNECT")} \cup {NULL}

MessageType ==
    [store : Nat, mid : Nat, direction : {"in", "out"},
     state : {"publish_qos0", "publish_qos1", "publish_qos2", "queued", "wait_for_puback",
              "wait_for_pubrec", "wait_for_pubrel", "wait_for_pubcomp", "send_pubrec",
              "resend_pubrel", "resend_pubcomp"},
     dup : BOOLEAN, qos : 0..2, retain : BOOLEAN, old : BOOLEAN]

ContextType ==
    [id : Ids, sock : Conns \cup {NULL}, state : {"new", "connected", "disconnecting"},
     clean_session : BOOLEAN, will : Wills, username : Usernames, password : Passwords,
     acl_list : Nat, listener : BOOLEAN, is_bridge : BOOLEAN,
     protocol : {"mqtt31", "mqtt311", NULL}, msgs : Seq(MessageType),
     msg_count12 : Int, last_mid : Nat]

\* NULL is not a number and not a context; the names of the $SYS tree are names.
ASSUME NullAssumption == NULL \notin Int /\ NULL \notin ContextType /\ Sys \in Name

\* A will is known by its payload: no other connection sends it, and no message.
ASSUME ScenariosAssumption ==
    \A s \in Scenarios :
       /\ usable(s.config) /\ \A config \in s.reloads : usable(config)
       /\ \A c \in Conns : \A p \in s.packets[c] :
            /\ readable(p)
            /\ p.type = "CONNECT" /\ p.will # NULL =>
                 /\ p.will.payload # ""
                 /\ \A other \in Conns : \A q \in s.packets[other] :
                      /\ q.type = "PUBLISH" => q.payload # p.will.payload
                      /\ other # c /\ q.type = "CONNECT" /\ q.will # NULL =>
                           q.will.payload # p.will.payload

VARIABLES
    db,         \* the database of the broker
    at,         \* the slot read last in this pass, or the stage of its end
    disk,       \* the database file, NULL if there is none
    scenario,   \* what happens in this behaviour
    accepted,   \* connections made so far
    reads,      \* packets read so far
    restarts,   \* restarts so far
    saved,      \* history: what the file should bring back
    goodbye,    \* history: the wills of the connections that have sent a DISCONNECT
    odd         \* history: which of "early", "root" and "reuse" has happened

vars == <<db, at, disk, scenario, accepted, reads, restarts, saved, goodbye, odd>>

\* The stages of a pass after the reads.
Accepted == Cardinality(Slots) + 1
Saved == Accepted + 1
Cleaned == Accepted + 2
Reloaded == Accepted + 3

\* What a restart may not lose: the sessions that are not clean, with their
\* subscriptions and messages, and the retained messages.
durable(d) ==
    LET kept == {i \in Slots : d.contexts[i] # NULL /\ ~d.contexts[i].clean_session}
        session(i) == [subs |-> {sub \in (DOMAIN d.subs) \X (0..2) :
                                   [context |-> i, qos |-> sub[2]] \in Range(d.subs[sub[1]].subs)},
                       msgs |-> [k \in DOMAIN d.contexts[i].msgs |->
                                   LET m == d.contexts[i].msgs[k]
                                   IN <<m.mid, m.direction, m.qos, m.state,
                                        d.store[m.store].topic, d.store[m.store].payload>>]]
    IN [sessions |-> [id \in {d.contexts[i].id : i \in kept} |->
                        session(CHOOSE i \in kept : d.contexts[i].id = id)],
        retained |-> {<<p, d.store[d.subs[p].retained].payload>> :
                        p \in {q \in DOMAIN d.subs : d.subs[q].retained # NoBody}}]

Opened(config) == mqtt3_db_open(Slots, Conns, config)

\* The process starts: the database file is read, then the security files.
started(config, file) ==
    mosquitto_security_init_default(
        IF file = NULL THEN Opened(config) ELSE mqtt3_db_restore(Opened(config), file)).db

Init ==
    /\ scenario \in Scenarios
    /\ db = started(scenario.config, NULL)
    /\ at = 0 /\ disk = NULL /\ accepted = 0 /\ reads = 0 /\ restarts = 0
    /\ saved = durable(Opened(scenario.config)) /\ goodbye = {} /\ odd = {}

\* What was written goes to the peers, who may have seen it or not.
flushed(d) == [d EXCEPT !.out = [c \in Conns |-> <<>>]]

\* What a packet may do that the broker is not made for: acknowledge a message that
\* is still queued ("early"), subscribe below a new root of the tree, which
\* takes the place of all others ("root"), or publish at QoS 1 with the identifier of
\* a message of QoS 2 that is not finished, whose body it then gets ("reuse").
oddities(d, i, p) ==
    LET msgs == d.contexts[i].msgs
        token(s) == Head(_sub_topic_tokenise(d.config.mount_point \o s.sub))
    IN {e \in {"early", "root", "reuse"} :
          \/ /\ e = "early" /\ p.type = "PUBREC"
             /\ \E k \in matching(msgs, p.mid, "out") : msgs[k].state = "queued"
          \/ /\ e = "root" /\ p.type = "SUBSCRIBE"
             /\ \E s \in Range(p.subs) : <<token(s)>> \notin DOMAIN d.subs
          \/ /\ e = "reuse" /\ p.type = "PUBLISH" /\ p.qos = 1
             /\ mqtt3_db_message_store_find(d, i, p.mid) # NULL}

\* Packet p arrives on the connection of context i; the peer may be gone by the
\* time it is answered.
Read(i, p, breaks) ==
    LET conn == db.contexts[i].sock
        d == IF breaks THEN [db EXCEPT !.broken = @ \cup {conn}] ELSE db
    IN /\ i > at /\ db.contexts[i] # NULL
       /\ conn # NULL /\ (conn \in db.broken => p.type = "lost")
       /\ reads < scenario.reads
       /\ breaks => Cardinality(db.broken) < scenario.breaks
       /\ db' = flushed(loop_handle_read(d, i, p))
       /\ at' = i /\ reads' = reads + 1
       /\ goodbye' = IF p.type = "DISCONNECT" THEN goodbye \cup {db.contexts[i].will}
                     ELSE goodbye
       /\ odd' = odd \cup oddities(db, i, p)
       /\ UNCHANGED <<disk, scenario, accepted, restarts, saved>>

\* A connection is made.
Accept ==
    /\ at < Accepted /\ accepted < scenario.conns
    /\ db' = mqtt3_socket_accept(db, accepted + 1)
    /\ at' = Accepted /\ accepted' = accepted + 1
    /\ UNCHANGED <<disk, scenario, reads, restarts, saved, goodbye, odd>>

\* The database is saved; a message without a topic ends the process instead.
Save ==
    /\ at < Saved /\ "save" \in scenario.faults /\ restarts < MaxRestarts
    /\ ~backup_crashes(db)
    /\ disk' = mqtt3_db_backup(db) /\ saved' = durable(db)
    /\ at' = Saved
    /\ UNCHANGED <<db, scenario, accepted, reads, restarts, goodbye, odd>>

Clean ==
    /\ at < Cleaned
    /\ db' = mqtt3_db_store_clean(db) /\ at' = Cleaned
    /\ UNCHANGED <<disk, scenario, accepted, reads, restarts, saved, goodbye, odd>>

\* The files have been changed, and the broker is told to read them again.
Reload ==
    /\ at < Reloaded
    /\ \E config \in scenario.reloads :
         /\ db' = security_reload([db EXCEPT !.config = config])
         /\ scenario' = [scenario EXCEPT !.reloads = @ \ {config}]
    /\ at' = Reloaded
    /\ UNCHANGED <<disk, accepted, reads, restarts, saved, goodbye, odd>>

\* Time goes by: every message has been waiting for longer than the retry
\* interval.
aged(c) ==
    [c EXCEPT !.msgs = [k \in DOMAIN c.msgs |-> [c.msgs[k] EXCEPT !.old = TRUE]]]

aged_if(late, d) ==
    [d EXCEPT !.contexts = [i \in Slots |->
       IF d.contexts[i] = NULL \/ ~late THEN d.contexts[i] ELSE aged(d.contexts[i])]]

\* The rest of the pass.
Contexts(silent, expired, late) ==
    /\ silent = {} \/ "silent" \in scenario.faults
    /\ expired = {} \/ "expire" \in scenario.faults
    /\ late => "late" \in scenario.faults
    /\ \A i \in silent \cup expired : db.contexts[i] # NULL
    /\ \A i \in silent : db.contexts[i].sock # NULL
    /\ \A i \in expired : db.contexts[i].sock = NULL
    /\ db' = flushed(mqtt3_db_message_timeout_check(
                        aged_if(late, loop_contexts(db, silent, expired))))
    /\ at' = 0
    /\ UNCHANGED <<disk, scenario, accepted, reads, restarts, saved, goodbye, odd>>

\* The process dies at any moment, or at the message it cannot save, and is
\* started again with the file it has last saved.
Crash ==
    /\ restarts < MaxRestarts
    /\ "crash" \in scenario.faults \/ ("save" \in scenario.faults /\ backup_crashes(db))
    /\ db' = started(scenario.config, disk)
    /\ at' = 0 /\ restarts' = restarts + 1
    /\ UNCHANGED <<disk, scenario, accepted, reads, saved, goodbye, odd>>

\* The process is told to stop: it saves the database and goes; it is started
\* again later.
Terminate ==
    /\ restarts < MaxRestarts /\ "save" \in scenario.faults /\ ~backup_crashes(db)
    /\ disk' = mqtt3_db_backup(db) /\ saved' = durable(db)
    /\ db' = started(scenario.config, disk')
    /\ at' = 0 /\ restarts' = restarts + 1
    /\ UNCHANGED <<scenario, accepted, reads, goodbye, odd>>

AtMostOne == {{}} \cup {{i} : i \in Slots}

Next ==
    \/ \E i \in Slots, breaks \in BOOLEAN :
         /\ db.contexts[i] # NULL /\ db.contexts[i].sock # NULL
         /\ \E p \in scenario.packets[db.contexts[i].sock] : Read(i, p, breaks)
    \/ Accept \/ Save \/ Clean \/ Reload \/ Crash \/ Terminate
    \/ \E silent, expired \in AtMostOne, late \in BOOLEAN : Contexts(silent, expired, late)

Spec == Init /\ [][Next]_vars

-----------------------------------------------------------------------------
(* Properties.                                                             *)

messages(i) == IF db.contexts[i] = NULL THEN <<>> ELSE db.contexts[i].msgs

\* What points to body s.
inflight(s) ==
    {m \in UNION {{i} \X DOMAIN messages(i) : i \in Slots} : messages(m[1])[m[2]].store = s}

retained(s) == {p \in DOMAIN db.subs : db.subs[p].retained = s}

\* Every body counts the messages and retained messages that point to it, and
\* no pointer leads to a body that is gone (database.c: ref_count).  A new root of
\* the tree (subs.c: mqtt3_sub_add) forgets retained messages that were counted.
RefCounts ==
    /\ \A s \in DOMAIN db.store :
         LET pointers == Cardinality(inflight(s)) + Cardinality(retained(s))
         IN /\ db.store[s].ref_count >= pointers
            /\ "root" \notin odd => db.store[s].ref_count = pointers
    /\ \A i \in Slots : \A k \in DOMAIN messages(i) : messages(i)[k].store \in DOMAIN db.store
    /\ \A p \in DOMAIN db.subs : db.subs[p].retained \in DOMAIN db.store \cup {NoBody}

\* Every subscription in the tree is that of a session that exists and that its
\* client id leads to (subs.c keeps a pointer to the context; context.c has to
\* take it out before the context goes).
SubscriptionsAreLive ==
    \A p \in DOMAIN db.subs : \A k \in DOMAIN db.subs[p].subs :
       LET i == db.subs[p].subs[k].context
       IN /\ db.contexts[i] # NULL
          /\ db.contexts[i].id \in DOMAIN db.cih /\ db.cih[db.contexts[i].id] = i

\* The index of client ids and the contexts agree, however connections take over
\* sessions, are refused in the middle of it, or end (clientid_index_hash).
ClientIdIndex ==
    /\ \A id \in DOMAIN db.cih : /\ db.contexts[db.cih[id]] # NULL
                                 /\ db.contexts[db.cih[id]].id = id
    /\ \A i \in Slots : db.contexts[i] # NULL /\ db.contexts[i].id # NULL =>
                           /\ db.contexts[i].id \in DOMAIN db.cih
                           /\ db.cih[db.contexts[i].id] = i

numbered(i) == {k \in DOMAIN messages(i) : messages(i)[k].qos > 0}

\* The counter that decides whether a message is sent, queued or dropped counts the
\* messages of a client that is connected, whatever has been queued, acknowledged,
\* reset and restored, also after a restart, of which it knows nothing
\* (msg_count12).  With it, no client has more messages on their way in either
\* direction than max_inflight_messages, unless it acknowledges a message before it
\* was sent, which takes that out of the queue.  In both directions together it may
\* have more, although man/mosquitto.conf.5.xml:338 knows one limit alone: an incoming
\* message is admitted without a look at the outgoing ones (database.c:854).
InFlightLimit ==
    \A i \in Slots :
       /\ db.contexts[i] # NULL /\ online(db.contexts[i]) =>
            db.contexts[i].msg_count12 = Cardinality(numbered(i))
       /\ max_inflight > 0 /\ "early" \notin odd =>
            \A direction \in {"in", "out"} :
               Cardinality({k \in numbered(i) : /\ messages(i)[k].state # "queued"
                                               /\ messages(i)[k].direction = direction}) <= max_inflight

\* The entry of the access list a context points to exists, after any reload
\* (security_default.c).
AccessListsExist ==
    \A i \in Slots : db.contexts[i] # NULL => db.contexts[i].acl_list \in 0..Len(db.acl_list)

\* A retained message is kept at its own topic, not at a filter it matches
\* (subs.c: set_retain), unless a client has published it under a second one.
RetainedAtItsTopic ==
    \A p \in DOMAIN db.subs :
       db.subs[p].retained # NoBody /\ "reuse" \notin odd =>
         node_path(_sub_topic_tokenise(db.store[db.subs[p].retained].topic)) = p

\* No will is published for a connection that has sent a DISCONNECT; no two
\* connections have the same will (context.c, read_handle_server.c).
WillMeansLost ==
    \A s \in DOMAIN db.store, will \in goodbye \ {NULL} :
       ~(db.store[s].topic = will.topic /\ db.store[s].payload = will.payload)

\* After a restart the broker knows what it knew when it saved the database last:
\* sessions, subscriptions, messages in their order and state, retained messages
\* (persist.c).
RestartKeepsSessions == [][restarts' # restarts => durable(db') = saved']_vars

\* What one structure of the broker says of another is true in every state, however
\* sessions are taken over, refused half way, expired, reloaded and restored.
PointersHold == SubscriptionsAreLive /\ ClientIdIndex /\ AccessListsExist /\ RetainedAtItsTopic
=============================================================================
