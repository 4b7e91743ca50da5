--------------------------- MODULE BrokerPersist ----------------------------
(***************************************************************************)
(* The database file of the broker (persist.c): what mqtt3_db_backup       *)
(* writes, in the order it writes it, and what mqtt3_db_restore makes of   *)
(* it.  A file is the sequence of its chunks, a chunk a record.            *)
(***************************************************************************)
EXTENDS Broker

in_sys(topic) == Len(topic) >= 2 /\ SubSeq(topic, 1, 2) = Sys

\* A message that was refused has no topic, which the code that writes the bodies
\* does not expect: the process ends there.
backup_crashes(db) == \E s \in DOMAIN db.store : db.store[s].topic = NoTopic

mqtt3_db_message_store_write(db) ==
    LET ids == SetToSortSeq(DOMAIN db.store, <)
        chunk(s) == LET body == db.store[s]
                    IN [type |-> "store", id |-> s, source_id |-> body.source_id,
                        source_mid |-> body.source_mid, topic |-> body.topic, qos |-> body.qos,
                        retain |-> body.retain /\ ~in_sys(body.topic), payload |-> body.payload]
    IN [k \in DOMAIN ids |-> chunk(ids[k])]

mqtt3_db_client_messages_write(c) ==
    [k \in DOMAIN c.msgs |->
       [type |-> "client_msg", client |-> c.id, store |-> c.msgs[k].store, mid |-> c.msgs[k].mid,
        qos |-> c.msgs[k].qos, retain |-> c.msgs[k].retain, dup |-> c.msgs[k].dup,
        direction |-> c.msgs[k].direction, state |-> c.msgs[k].state]]

\* Clean sessions are not written.
mqtt3_db_client_write(db) ==
    LET step(chunks, i) ==
          LET c == db.contexts[i]
          IN IF c = NULL \/ (c # NULL /\ c.clean_session) THEN chunks
             ELSE chunks \o <<[type |-> "client", client |-> c.id, last_mid |-> c.last_mid]>>
                         \o mqtt3_db_client_messages_write(c)
    IN FoldLeft(step, <<>>, SetToSortSeq(DOMAIN db.contexts, <))

\* The tree from a node downwards.  The filter is put together from the tokens on
\* the way, the doubled first one included; empty ones at the start get lost.
_db_subs_retain_write(db, top) ==
    LET tree == db.subs
        name[p \in DOMAIN tree] ==
          IF Len(p) <= 1 \/ name[Front(p)] = <<>> THEN Last(p)
          ELSE name[Front(p)] \o <<"/">> \o Last(p)
        sub(p, leaf) ==
          IF db.contexts[leaf.context].clean_session THEN <<>>
          ELSE <<[type |-> "sub", client |-> db.contexts[leaf.context].id, sub |-> name[p],
                  qos |-> leaf.qos]>>
        retained(p) ==
          IF tree[p].retained = NoBody \/ in_sys(db.store[tree[p].retained].topic) THEN <<>>
          ELSE <<[type |-> "retain", id |-> tree[p].retained]>>
        walk[p \in DOMAIN tree] ==
          FlattenSeq([k \in DOMAIN tree[p].subs |-> sub(p, tree[p].subs[k])])
          \o retained(p)
          \o FlattenSeq([k \in DOMAIN tree[p].kids |-> walk[Append(p, tree[p].kids[k])]])
    IN walk[top]

mqtt3_db_subs_retain_write(db) ==
    FlattenSeq([k \in DOMAIN db.subs[<<>>].kids |->
                  _db_subs_retain_write(db, <<db.subs[<<>>].kids[k]>>)])

\* Mutant of mqtt3_db_backup: the subscriptions are not written.
mqtt3_db_backup_without_subs(db) ==
    <<[type |-> "cfg", last_db_id |-> db.last_db_id]>>
    \o mqtt3_db_message_store_write(db) \o mqtt3_db_client_write(db)

\* The whole file; it is written beside the old one and takes its name when it is
\* complete.
mqtt3_db_backup(db) ==
    <<[type |-> "cfg", last_db_id |-> db.last_db_id]>>
    \o mqtt3_db_message_store_write(db) \o mqtt3_db_client_write(db)
    \o mqtt3_db_subs_retain_write(db)

-----------------------------------------------------------------------------
(* Reading it.                                                             *)

context_of(db, id) ==
    {i \in DOMAIN db.contexts : db.contexts[i] # NULL /\ db.contexts[i].id = id}

\* The context of a client, in the first free slot if there is none.
_db_find_or_add_context(db, id, last_mid) ==
    LET i == IF context_of(db, id) # {} THEN first(context_of(db, id))
             ELSE first({j \in DOMAIN db.contexts : db.contexts[j] = NULL})
        c == IF db.contexts[i] # NULL THEN db.contexts[i]
             ELSE [mqtt3_context_init(NULL) EXCEPT !.id = id, !.clean_session = FALSE]
    IN [db |-> [db EXCEPT !.contexts[i] =
                  [c EXCEPT !.last_mid = IF last_mid > 0 THEN last_mid ELSE @]],
        i |-> i]

_db_client_chunk_restore(db, chunk) ==
    LET r == _db_find_or_add_context(db, chunk.client, chunk.last_mid)
    IN [r.db EXCEPT !.cih = [x \in DOMAIN @ \cup {chunk.client} |->
                               IF x = chunk.client THEN r.i ELSE @[x]]]

\* The message is as old as it can be; it is not counted.
_db_client_msg_restore(db, chunk) ==
    LET r == _db_find_or_add_context(db, chunk.client, 0)
        m == [store |-> chunk.store, mid |-> chunk.mid, direction |-> chunk.direction,
              state |-> chunk.state, dup |-> chunk.dup, qos |-> chunk.qos,
              retain |-> chunk.retain, old |-> TRUE]
    IN [r.db EXCEPT !.store[chunk.store].ref_count = @ + 1,
                    !.contexts[r.i].msgs = Append(@, m)]

\* A body keeps its number.
_db_msg_store_chunk_restore(db, chunk) ==
    LET last == db.last_db_id
    IN [mqtt3_db_message_store([db EXCEPT !.last_db_id = chunk.id - 1], chunk.source_id,
                               chunk.source_mid, chunk.topic, chunk.qos, chunk.payload,
                               chunk.retain)
        EXCEPT !.last_db_id = last]

_db_retain_chunk_restore(db, chunk) ==
    LET body == db.store[chunk.id]
    IN mqtt3_db_messages_queue(db, NULL, body.topic, body.qos, body.retain, chunk.id)

_db_sub_chunk_restore(db, chunk) ==
    LET r == _db_find_or_add_context(db, chunk.client, 0)
    IN [r.db EXCEPT !.subs = mqtt3_sub_add(@, r.i, chunk.qos, _sub_topic_tokenise(chunk.sub))]

restore_chunk(db, chunk) ==
    CASE chunk.type = "cfg" -> [db EXCEPT !.last_db_id = chunk.last_db_id]
      [] chunk.type = "store" -> _db_msg_store_chunk_restore(db, chunk)
      [] chunk.type = "client" -> _db_client_chunk_restore(db, chunk)
      [] chunk.type = "client_msg" -> _db_client_msg_restore(db, chunk)
      [] chunk.type = "retain" -> _db_retain_chunk_restore(db, chunk)
      [] OTHER -> _db_sub_chunk_restore(db, chunk)

mqtt3_db_restore(db, file) == FoldLeft(restore_chunk, db, file)
=============================================================================
