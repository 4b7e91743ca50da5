------------------------------- MODULE DbFile -------------------------------
(***************************************************************************)
(* The bytes of the database file: how the broker writes them, how it      *)
(* reads them back (persist.c), and how db_dump reads them (db_dump.c).    *)
(*                                                                         *)
(* A value is a sequence of numbers, a byte [of, size, at] the at-th of    *)
(* the size bytes of the value of.  A chunk is [type, values], and a       *)
(* database [cfg, store, clients, subs] of chunks.  dbf holds              *)
(*   pc     what of a save is done                                         *)
(*   db     the database that is being saved                               *)
(*   file   the file, new the one written beside it (what a save that has  *)
(*          failed leaves of it is never read)                             *)
(*   saved  the database in the file, NULL if an older broker wrote it     *)
(*   full   whether the disk is full during the save                       *)
(*   lossy  whether it was when the file was written                       *)
(***************************************************************************)
EXTENDS Topics

CONSTANTS
    Databases,  \* what may be saved
    OldFiles,   \* files an earlier broker may have left: [version, chunks]
    MaxSaves    \* bound on saves

VARIABLE dbf

MOSQ_DB_VERSION == 3

CFG == 1
MSG_STORE == 2
CLIENT_MSG == 3
RETAIN == 4
SUB == 5
CLIENT == 6

-----------------------------------------------------------------------------
(* Writing.                                                                *)

bytes(v, size) == [k \in 1..size |-> [of |-> v, size |-> size, at |-> k]]

u8(v) == bytes(v, 1)
u16(v) == bytes(v, 2)
u32(v) == bytes(v, 4)
u64(v) == bytes(v, 8)

string(s) == u16(<<Len(s)>>) \o bytes(s, Len(s))

\* A chunk says how many bytes follow.
chunk(type, length, body) == u16(<<type>>) \o u32(<<length>>) \o body

store_chunk(v) ==
    chunk(MSG_STORE, 8 + 2 + Len(v[2]) + 2 + 2 + 2 + Len(v[5]) + 4 + Len(v[8]) + 1 + 1,
          u64(v[1]) \o string(v[2]) \o u16(v[3]) \o u16(v[4]) \o string(v[5]) \o u8(v[6]) \o u8(v[7])
            \o u32(<<Len(v[8])>>) \o bytes(v[8], Len(v[8])))

client_msg_chunk(v) ==
    chunk(CLIENT_MSG, 8 + 2 + 1 + 1 + 1 + 1 + 1 + 2 + Len(v[1]),
          string(v[1]) \o u64(v[2]) \o u16(v[3]) \o u8(v[4]) \o u8(v[5]) \o u8(v[6]) \o u8(v[7]) \o u8(v[8]))

client_chunk(v) == chunk(CLIENT, 2 + Len(v[1]) + 2 + 8, string(v[1]) \o u16(v[2]) \o u64(v[3]))

sub_chunk(v) == chunk(SUB, 2 + Len(v[1]) + 2 + Len(v[2]) + 1, string(v[1]) \o string(v[2]) \o u8(v[3]))

retain_chunk(v) == chunk(RETAIN, 8, u64(v[1]))

cfg_chunk(v) == chunk(CFG, 8 + 1 + 1, u8(v[1]) \o u8(v[2]) \o u64(v[3]))

header(version) == bytes(<<0>>, 15) \o u32(<<0>>) \o u32(<<version>>)

written(c) ==
    CASE c.type = CFG -> cfg_chunk(c.values) [] c.type = MSG_STORE -> store_chunk(c.values)
      [] c.type = CLIENT_MSG -> client_msg_chunk(c.values) [] c.type = RETAIN -> retain_chunk(c.values)
      [] c.type = SUB -> sub_chunk(c.values) [] c.type = CLIENT -> client_chunk(c.values)

write_all(chunks) == FlattenSeq([k \in DOMAIN chunks |-> written(chunks[k])])

\* A version 2 file has no times, a later one chunks that are not known here.
older(c, version) ==
    CASE c.type = CLIENT /\ version = 2 -> chunk(CLIENT, 2 + Len(c.values[1]) + 2, string(c.values[1]) \o u16(c.values[2]))
      [] c.type > CLIENT -> chunk(c.type, Len(c.values[1]), bytes(c.values[1], Len(c.values[1])))
      [] OTHER -> written(c)

-----------------------------------------------------------------------------
(* Reading: what is left, what was read, and whether there was enough.     *)

\* The value in the next bytes.
read_e(r, size) ==
    IF ~r.ok \/ Len(r.rest) < size THEN [r EXCEPT !.ok = FALSE]
    ELSE [r EXCEPT !.rest = SubSeq(@, size + 1, Len(@)),
                   !.values = Append(@, IF size = 0 THEN <<>> ELSE r.rest[1].of)]

\* A length and as many bytes; the length itself is not kept.
read_counted(r, size, empty) ==
    LET take(n, length) == IF length = 0 /\ ~empty THEN [n EXCEPT !.ok = FALSE] ELSE read_e(n, length)
        counted(n) == IF n.ok THEN take([n EXCEPT !.values = r.values], Last(n.values)[1]) ELSE n
    IN counted(read_e(r, size))

read_field(r, field) ==
    CASE field = "u8" -> read_e(r, 1) [] field = "u16" -> read_e(r, 2) [] field = "u64" -> read_e(r, 8)
      [] field = "name" -> read_counted(r, 2, FALSE)
      [] field = "string" -> read_counted(r, 2, TRUE)
      [] field = "payload" -> read_counted(r, 4, TRUE)

\* The broker.
restore_client(version) == IF version = 2 THEN <<"name", "u16">> ELSE <<"name", "u16", "u64">>
restore_client_msg == <<"name", "u64", "u16", "u8", "u8", "u8", "u8", "u8">>
restore_msg_store == <<"u64", "string", "u16", "u16", "name", "u8", "u8", "payload">>
restore_retain == <<"u64">>
restore_sub == <<"string", "string", "u8">>

restore_layout(type, version) ==
    CASE type = CFG -> <<"u8", "u8", "u64">> [] type = MSG_STORE -> restore_msg_store
      [] type = CLIENT_MSG -> restore_client_msg [] type = RETAIN -> restore_retain
      [] type = SUB -> restore_sub [] OTHER -> restore_client(version)

\* db_dump.
dump_client(version) == IF version = 2 THEN <<"name", "u16">> ELSE <<"name", "u16", "u64">>
dump_client_msg == <<"name", "u64", "u16", "u8", "u8", "u8", "u8", "u8">>
dump_retain == <<"u64">>
dump_sub == <<"string", "string", "u8">>

dump_msg_store == <<"u64", "string", "u16", "u16", "name", "u8", "u8", "payload">>

dump_layout(type, version) ==
    CASE type = CFG -> <<"u8", "u8", "u64">> [] type = MSG_STORE -> dump_msg_store
      [] type = CLIENT_MSG -> dump_client_msg [] type = RETAIN -> dump_retain
      [] type = SUB -> dump_sub [] OTHER -> dump_client(version)

reading(rest) == [rest |-> rest, values |-> <<>>, ok |-> TRUE]

\* A body that could be read; the broker wants identifiers of eight bytes.
keep_chunk(s, type, body) ==
    IF ~body.ok \/ (type = CFG /\ body.values[2] # <<8>>) THEN [s EXCEPT !.rc = 1]
    ELSE [s EXCEPT !.rest = body.rest, !.chunks = Append(@, [type |-> type, values |-> body.values])]

\* A chunk whose type and length are in head.  An unknown one is passed over.
read_chunk(s, head, version, reader) ==
    LET type == head.values[1][1]
        layout == IF reader = "broker" THEN restore_layout(type, version) ELSE dump_layout(type, version)
    IN CASE Len(s.rest) < 2 -> [s EXCEPT !.rest = <<>>]
         [] Len(s.rest) >= 2 /\ ~head.ok -> [s EXCEPT !.rc = 1]
         [] OTHER ->
              IF type > CLIENT
              THEN [s EXCEPT !.rest = SubSeq(head.rest, head.values[2][1] + 1, Len(head.rest))]
              ELSE keep_chunk(s, type, FoldLeft(read_field, reading(head.rest), layout))

\* The chunks of a file, read field by field as the reader does it.
read_file(file, latest, reader) ==
    LET step(s, version) ==
          IF s.rc = 1 \/ s.rest = <<>> THEN s
          ELSE read_chunk(s, FoldLeft(read_e, reading(s.rest), <<2, 4>>), version, reader)
        all(start, version) ==
          IF version > latest THEN [rc |-> 1, chunks |-> <<>>, rest |-> file]
          ELSE FoldLeft(step, [rc |-> 0, chunks |-> <<>>, rest |-> start.rest],
                        [k \in 1..(Len(file) \div 6) |-> version])
        opened(start) == IF start.ok THEN all(start, start.values[3][1])
                         ELSE [rc |-> 1, chunks |-> <<>>, rest |-> file]
        result(s) == [rc |-> s.rc, chunks |-> s.chunks]
    IN result(opened(FoldLeft(read_e, reading(file), <<15, 4, 4>>)))

\* A message of a client whose body is not there ends the reading.
mqtt3_db_restore(file) ==
    LET ids(chunks) == {chunks[m].values[1] : m \in {m \in DOMAIN chunks : chunks[m].type = MSG_STORE}}
        orphans(chunks) == {n \in DOMAIN chunks : chunks[n].type = CLIENT_MSG
                                                   /\ chunks[n].values[2] \notin ids(SubSeq(chunks, 1, n))}
        until(r, ns) ==
          IF ns = {} THEN r
          ELSE [rc |-> 1, chunks |-> SubSeq(r.chunks, 1, (CHOOSE n \in ns : \A m \in ns : n <= m) - 1)]
        checked(r) == until(r, orphans(r.chunks))
    IN checked(read_file(file, MOSQ_DB_VERSION, "broker"))

\* Any version is read.
db_dump(file) == read_file(file, 9, "db_dump")

-----------------------------------------------------------------------------
(* Saving.                                                                 *)

DbInit == dbf = [pc |-> "new", db |-> NULL, file |-> <<>>, new |-> <<>>, saved |-> NULL, full |-> FALSE, lossy |-> FALSE, saves |-> 0]

\* The broker starts with what an earlier one has left.
DbStart ==
    /\ dbf.pc = "new"
    /\ \E old \in OldFiles :
         dbf' = [dbf EXCEPT !.pc = "idle",
                            !.file = header(old.version) \o FlattenSeq([k \in DOMAIN old.chunks |-> older(old.chunks[k], old.version)])]

DbSave ==
    /\ dbf.pc = "idle" /\ dbf.saves < MaxSaves
    /\ \E db \in Databases :
         dbf' = [dbf EXCEPT !.pc = "store", !.db = db, !.new = header(MOSQ_DB_VERSION) \o write_all(db.cfg),
                            !.full = FALSE, !.saves = @ + 1]

\* The parts of the file, one after the other.  Once the disk is full nothing more
\* gets into the file; whether fwrite says so depends on its buffer, and only for
\* the messages is the answer looked at.
Parts == <<"store", "clients", "subs">>

\* Bound: not again while the file is one that was cut off.
may_fill == ~dbf.full /\ ~dbf.lossy

save_part(k) ==
    LET part == write_all(dbf.db[Parts[k]])
        then == IF k = 3 THEN "rename" ELSE Parts[k + 1]
        cut(n) == [dbf EXCEPT !.new = @ \o SubSeq(part, 1, n), !.full = TRUE]
    IN /\ dbf.pc = Parts[k]
       /\ \/ ~dbf.full /\ dbf' = [dbf EXCEPT !.new = @ \o part, !.pc = then]
          \/ dbf.full /\ dbf' = [dbf EXCEPT !.pc = then]
          \/ may_fill /\ \E n \in 0..(Len(part) - 1) : dbf' = [cut(n) EXCEPT !.pc = then]
          \/ may_fill /\ k = 1 /\ \E n \in 0..(Len(part) - 1) : dbf' = [cut(n) EXCEPT !.pc = "idle", !.full = FALSE, !.new = <<>>]

\* Mutant of mqtt3_db_backup: the file is written in its place.
mqtt3_db_backup_in_place ==
    \/ dbf.pc = "rename" /\ dbf' = [dbf EXCEPT !.pc = "idle", !.saved = dbf.db, !.lossy = dbf.full, !.new = <<>>]
    \/ dbf.pc \in {"store", "clients", "subs"} /\ dbf.file # dbf.new /\ dbf' = [dbf EXCEPT !.file = dbf.new]

mqtt3_db_backup == dbf.pc = "rename" /\ dbf' = [dbf EXCEPT !.pc = "idle", !.file = dbf.new, !.saved = dbf.db, !.lossy = dbf.full,
                                                        !.new = <<>>, !.full = FALSE]

DbCrash == dbf.pc \notin {"new", "idle"} /\ dbf' = [dbf EXCEPT !.pc = "idle", !.full = FALSE, !.new = <<>>]

DbNext ==
    \/ DbStart \/ DbSave \/ mqtt3_db_backup \/ DbCrash
    \/ \E k \in DOMAIN Parts : save_part(k)

-----------------------------------------------------------------------------
(* Properties.                                                             *)

\* A broker that is killed while it saves finds all of an earlier save when it
\* starts again, and a save has everything in it that was to be saved, unless
\* the disk was full while the clients or subscriptions were written, of which
\* mqtt3_db_backup in persist.c takes no notice.
FileIsWhole ==
    dbf.saved # NULL /\ ~dbf.lossy =>
      mqtt3_db_restore(dbf.file) = [rc |-> 0, chunks |-> dbf.saved.cfg \o dbf.saved.store \o dbf.saved.clients \o dbf.saved.subs]

\* db_dump shows exactly the chunks that the broker would restore, and fails when
\* the broker would, wherever the file was cut off: the two programs read the
\* same layout with two different pieces of code.
DumpAgrees ==
    dbf.pc # "new" /\ dbf.file[20].of[1] <= MOSQ_DB_VERSION => db_dump(dbf.file) = mqtt3_db_restore(dbf.file)

\* The length in each chunk is right, so that a broker that does not know a kind
\* of chunk passes over it (the default case of mqtt3_db_restore).
LengthsAreRight ==
    LET at_head(rest) == rest = <<>> \/ (Len(rest) >= 6 /\ rest[1].size = 2 /\ rest[3].size = 4 /\ rest[1].at = 1)
        skip(s, k) ==
          LET length == 6 + s.rest[3].of[1]
          IN IF ~s.ok \/ s.rest = <<>> THEN s
             ELSE LET rest == SubSeq(s.rest, length + 1, Len(s.rest))
                  IN [rest |-> rest, ok |-> length <= Len(s.rest) /\ at_head(rest)]
    IN dbf.saved # NULL /\ ~dbf.lossy =>
         FoldLeft(skip, [rest |-> SubSeq(dbf.file, 24, Len(dbf.file)), ok |-> TRUE], [k \in 1..Len(dbf.file) \div 6 |-> k]).ok

\* The file has what was saved, and every reader finds it there (persist.c,
\* db_dump.c).
DatabaseFileIsSound == FileIsWhole /\ DumpAgrees /\ LengthsAreRight
=============================================================================
