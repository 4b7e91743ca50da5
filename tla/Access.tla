------------------------------- MODULE Access -------------------------------
(***************************************************************************)
(* Access control of the broker (security.c, security_default.c): the      *)
(* access lists, the patterns and the passwords, how they are read from    *)
(* their files, what they decide, and what a reload does to the contexts.  *)
(*                                                                         *)
(* A file is the sequence of its lines, a line a record.  The context      *)
(* points to the entry of its user by the index of that entry, 0 for none. *)
(* With an authentication plugin the decisions are the plugin's; it is not *)
(* part of the repository.                                                 *)
(***************************************************************************)
EXTENDS BrokerDb

READ == "read"
WRITE == "write"
Both == {READ, WRITE}

\* The index of a user's entry; NULL is the anonymous user.
acl_user(acl_list, username) ==
    LET found == {k \in DOMAIN acl_list : acl_list[k].username = username}
    IN IF found = {} THEN 0 ELSE first(found)

_add_acl(db, user, topic, access) ==
    LET k == acl_user(db.acl_list, user)
        acl == [topic |-> topic, access |-> access]
    IN IF k = 0
       THEN [db EXCEPT !.acl_list = Append(@, [username |-> user, acl |-> <<acl>>])]
       ELSE [db EXCEPT !.acl_list[k].acl = Append(@, acl)]

_add_acl_pattern(db, topic, access) ==
    [db EXCEPT !.acl_patterns = Append(@, [topic |-> topic, access |-> access])]

\* One line of the file: "user", "topic" and "pattern" lines count, the rest is
\* passed over.  An error ends the reading, what was read before stays.
acl_line(walk, line) ==
    IF walk.rc # 0 THEN walk
    ELSE CASE line.kind = "user" /\ line.name # NULL -> [walk EXCEPT !.user = line.name]
           [] line.kind = "topic" /\ line.access \subseteq Both ->
                [walk EXCEPT !.db = _add_acl(@, walk.user, line.topic, line.access)]
           [] line.kind = "pattern" /\ line.access \subseteq Both ->
                [walk EXCEPT !.db = _add_acl_pattern(@, line.topic, line.access)]
           [] line.kind = "comment" -> walk
           [] OTHER -> [walk EXCEPT !.rc = 1]

_aclfile_parse(db) ==
    LET walk == FoldLeft(acl_line, [db |-> db, user |-> NULL, rc |-> 0], db.config.acl_file)
    IN [db |-> walk.db, rc |-> walk.rc]

\* Without access lists nothing is cleaned: the patterns stay, too.
_acl_cleanup(db) ==
    IF db.acl_list = <<>> THEN db
    ELSE [db EXCEPT !.acl_list = <<>>, !.acl_patterns = <<>>,
                    !.contexts = [i \in DOMAIN @ |->
                                    IF @[i] = NULL THEN NULL
                                    ELSE [@[i] EXCEPT !.acl_list = 0]]]

\* The users of a password or key file.
_pwfile_parse(users, file) == users \o file

\* All entries are there before the first is decoded; those behind one that
\* cannot be decoded match no password.
_unpwd_file_parse(db) ==
    LET read == _pwfile_parse(db.unpwd, db.config.password_file)
        bad == {k \in DOMAIN read : read[k].password = "malformed"}
    IN [db |-> [db EXCEPT !.unpwd =
                  [k \in DOMAIN read |->
                     IF bad # {} /\ k >= first(bad) /\ read[k].password # NULL
                     THEN [read[k] EXCEPT !.password = "undecoded"] ELSE read[k]]],
        rc |-> IF bad = {} THEN 0 ELSE 1]

\* A key has to be there and to be hexadecimal.
_psk_file_parse(db) ==
    LET read == _pwfile_parse(db.psk_id, db.config.psk_file)
    IN [db |-> [db EXCEPT !.psk_id = read],
        rc |-> IF \E k \in DOMAIN read : read[k].password \in {NULL, "malformed"} THEN 1 ELSE 0]

\* A file that cannot be read ends the sequence: the files after it are not read.
mosquitto_security_init_default(db) ==
    LET read(acc, named, parse(_)) == IF acc.rc # 0 \/ ~named THEN acc ELSE parse(acc.db)
        files == db.config
    IN read(read(read([db |-> db, rc |-> 0],
                      files.password_file # NULL, _unpwd_file_parse),
                 files.acl_file # NULL, _aclfile_parse),
            files.psk_file # NULL, _psk_file_parse)

_unpwd_cleanup(db) == [db EXCEPT !.unpwd = <<>>, !.psk_id = <<>>]

mosquitto_security_cleanup_default(db) == _unpwd_cleanup(_acl_cleanup(db))

-----------------------------------------------------------------------------
(* Decisions.                                                              *)

\* A pattern with the names of the client filled in.
filled(pattern, c) ==
    [k \in DOMAIN pattern |-> CASE pattern[k] = "%c" -> c.id
                                [] pattern[k] = "%u" -> c.username
                                [] OTHER -> pattern[k]]

\* An entry with "$" is needed for a topic with "$".
grants(acl, topic, access) ==
    /\ access \in acl.access
    /\ mosquitto_topic_matches_sub(acl.topic, topic)

\* Patterns are looked at for every client; for a client without a user name the
\* code never returns from here, so that patterns and anonymous clients exclude
\* each other.
mosquitto_acl_check_default(db, i, topic, access) ==
    LET c == db.contexts[i]
        own == IF c.acl_list = 0 THEN <<>> ELSE db.acl_list[c.acl_list].acl
        pattern(k) == [db.acl_patterns[k] EXCEPT !.topic = filled(@, c)]
    IN \/ db.acl_list = <<>> /\ db.acl_patterns = <<>>
       \/ \E k \in DOMAIN own : grants(own[k], topic, access)
       \/ \E k \in DOMAIN db.acl_patterns : grants(pattern(k), topic, access)

\* "inval": there is no user name.  The first entry of that name decides.
mosquitto_unpwd_check_default(db, username, password) ==
    LET found == {k \in DOMAIN db.unpwd : db.unpwd[k].username = username}
    IN CASE username = NULL -> "inval"
         [] username # NULL /\ db.unpwd = <<>> -> "success"
         [] OTHER -> IF found # {} /\ db.unpwd[first(found)].password \in {NULL, password}
                     THEN "success" ELSE "auth"

\* The key for a TLS-PSK handshake, or NULL.
mosquitto_psk_key_get_default(db, identity) ==
    LET found == {k \in DOMAIN db.psk_id : db.psk_id[k].username = identity}
    IN IF found = {} THEN NULL ELSE db.psk_id[first(found)].password

\* After a reload: contexts that may no longer be connected lose their socket,
\* and nothing else: no will is sent, the listener still counts them.  A context
\* without a user name is always one of them.  The others get the access list of
\* their user, or keep what they have.
mosquitto_security_apply_default(db) ==
    LET stays(c) == /\ db.config.allow_anonymous \/ c.username # NULL
                    /\ mosquitto_unpwd_check_default(db, c.username, c.password) = "success"
        k(c) == acl_user(db.acl_list, c.username)
        applied(c) == IF k(c) = 0 THEN c ELSE [c EXCEPT !.acl_list = k(c)]
    IN [db EXCEPT !.contexts =
          [i \in DOMAIN @ |->
             CASE @[i] = NULL -> NULL
               [] @[i] # NULL /\ ~stays(@[i]) ->
                    [@[i] EXCEPT !.state = "disconnecting", !.sock = NULL]
               [] OTHER -> applied(@[i])]]

\* What a reload does; errors are only logged.
security_reload(db) ==
    mosquitto_security_apply_default(
        mosquitto_security_init_default(mosquitto_security_cleanup_default(db)).db)
=============================================================================
