------------------------------ MODULE SysTree -------------------------------
(***************************************************************************)
(* What the broker publishes about itself (sys_tree.c) and the count of    *)
(* its memory (memory_mosq.c).  Of the eight counters that are published   *)
(* and turned into loads alike, Counters are those that are followed;      *)
(* loads are in hundredths.  sys holds                                     *)
(*   now, last_update  the time, in seconds since the machine started      *)
(*   g         the counters, with the connections as "sockets", which      *)
(*             start anew with every load                                  *)
(*   since     what each of them has counted since the last update         *)
(*   fastest   the greatest rate there was between two updates             *)
(*   contexts  the sessions: for each whether it has a client              *)
(*   expired   how many sessions have expired                              *)
(*   peak      the most clients with a connection at any update            *)
(*   blocks, memcount, max_memcount, lost  the sizes of the blocks in use, *)
(*             what is counted of them, and whether a block was lost       *)
(*   most      the most memory that was in use at once                     *)
(*   seen      for every topic the value it was last compared with         *)
(*   retained  for every topic what was last published, NULL if nothing    *)
(*   load      for every counter and period its load                       *)
(*   fresh     whether nothing has happened since the last update          *)
(* since, fastest, peak, most and fresh are history.                       *)
(***************************************************************************)
EXTENDS Topics, FiniteSets

CONSTANTS
    Counters,       \* g_msgs_received and the like
    UnsignedMax,    \* what -1 is as an unsigned number
    sys_interval,   \* the setting, in seconds
    Boot,           \* when the broker starts, later than sys_interval
    BlockSizes,          \* sizes of blocks of memory
    MaxSeconds,     \* bound on the time
    MaxSysEvents    \* bound on what happens

VARIABLE sys

Periods == {"1min", "15min"}
Loaded == Counters \cup {"sockets"}
ClientTopics == {"clients/total", "clients/inactive", "clients/active", "clients/maximum", "clients/expired"}
HeapTopics == {"heap/current", "heap/maximum"}
SysTopics == Counters \cup ClientTopics \cup HeapTopics

ASSUME SysTreeAssumption ==
    /\ IsFiniteSet(Counters) /\ Counters \cap (ClientTopics \cup HeapTopics \cup {"sockets"}) = {}
    /\ UnsignedMax \in Nat \ {0} /\ sys_interval \in Nat /\ Boot \in Nat /\ BlockSizes \subseteq Nat

SysInit ==
    sys = [now |-> Boot, last_update |-> 0, g |-> [c \in Loaded |-> 0], since |-> [c \in Loaded |-> 0], fastest |-> 0,
           contexts |-> <<>>, expired |-> 0, peak |-> 0,
           blocks |-> <<>>, memcount |-> 0, max_memcount |-> 0, lost |-> FALSE, most |-> 0,
           seen |-> [t \in SysTopics |-> UnsignedMax], retained |-> [t \in SysTopics |-> NULL],
           load |-> [c \in Loaded |-> [p \in Periods |-> 0]], fresh |-> FALSE, events |-> 0]

higher(a, b) == IF a > b THEN a ELSE b

-----------------------------------------------------------------------------
(* Memory.                                                                 *)

allocated(blocks) == FoldLeft(LAMBDA total, size : total + size, 0, blocks)

counted(s, size) ==
    [s EXCEPT !.memcount = @ + size, !.max_memcount = higher(s.memcount + size, @)]

_mosquitto_malloc(s, size) == [counted(s, size) EXCEPT !.blocks = Append(@, size)]

_mosquitto_free(s, i) == [s EXCEPT !.memcount = @ - s.blocks[i], !.blocks = RemoveAt(@, i)]

\* If there is no memory the old block stays, but is not counted any more.
_mosquitto_realloc(s, i, size) ==
    LET off == [s EXCEPT !.memcount = @ - s.blocks[i]]
    IN IF size = NULL THEN [off EXCEPT !.lost = TRUE] ELSE [counted(off, size) EXCEPT !.blocks[i] = size]

-----------------------------------------------------------------------------
(* The update.                                                             *)

\* Only what has changed is published, with retain.
tell(s, topic, value) == IF s.seen[topic] = value THEN s ELSE [s EXCEPT !.seen[topic] = value, !.retained[topic] = value]

open_sessions(s) == Cardinality({i \in DOMAIN s.contexts : s.contexts[i]})

mqtt3_db_client_count(s) ==
    [count |-> Len(s.contexts), inactive |-> Cardinality({i \in DOMAIN s.contexts : ~s.contexts[i]})]

\* Mutant of _sys_update_clients: the clients are counted before the sessions.
_sys_update_clients_stale(s) ==
    LET n == mqtt3_db_client_count(s)
        active == tell(s, "clients/active", s.seen["clients/total"] - n.inactive)
        told == tell(tell(active, "clients/total", n.count), "clients/inactive", n.inactive)
    IN tell(tell(told, "clients/maximum", n.count), "clients/expired", s.expired)

\* The maximum is whatever the number is now.
_sys_update_clients(s) ==
    LET n == mqtt3_db_client_count(s)
        told == tell(tell(s, "clients/total", n.count), "clients/inactive", n.inactive)
        active == tell(told, "clients/active", told.seen["clients/total"] - n.inactive)
    IN tell(tell(active, "clients/maximum", n.count), "clients/expired", s.expired)

_sys_update_memory(s) == tell(tell(s, "heap/current", s.memcount), "heap/maximum", s.max_memcount)

\* How much of the load so far still counts, the nearer to 1 the longer the period.
exponent == [p \in Periods |-> IF p = "1min" THEN [num |-> 1, den |-> 2] ELSE [num |-> 3, den |-> 4]]

\* A load moves on whether the change is large enough (0.01) to be published or
\* not; what readers see of it is left out.
calc_load(period, interval, current) ==
    interval + (exponent[period].num * (current - interval)) \div exponent[period].den

\* The rate of a counter in a minute, in hundredths.
rate(count, seconds) == (count * 6000) \div seconds

\* What a counter has counted since the last update.
difference(s, c) == IF c = "sockets" THEN s.g[c] ELSE (s.g[c] - s.seen[c]) % (UnsignedMax + 1)

\* Not with the first update, when there is nothing to compare with.
update_loads(s) ==
    IF s.last_update = 0 THEN s
    ELSE [s EXCEPT !.load = [c \in Loaded |-> [p \in Periods |->
              calc_load(p, rate(difference(s, c), s.now - s.last_update), s.load[c][p])]],
                   !.g["sockets"] = 0]

update_counters(s) == FoldLeft(LAMBDA t, c : tell(t, c, s.g[c]), s, SetToSeq(Counters))

mqtt3_db_sys_update ==
    /\ sys.now - sys_interval > sys.last_update
    /\ LET rates == {rate(sys.since[c], sys.now - sys.last_update) : c \in Loaded} \cup {sys.fastest}
           s == update_counters(_sys_update_memory(update_loads(_sys_update_clients(sys))))
       IN sys' = [s EXCEPT !.last_update = sys.now, !.since = [c \in Loaded |-> 0], !.fresh = TRUE,
                           !.fastest = CHOOSE r \in rates : \A q \in rates : q <= r,
                           !.peak = higher(@, open_sessions(sys))]

-----------------------------------------------------------------------------
(* What happens between updates.  The first is made before anything else.  *)

Happens(s) == sys' = [s EXCEPT !.events = @ + 1, !.fresh = FALSE, !.most = higher(@, allocated(s.blocks))]

CanHappen == sys.last_update > 0 /\ sys.events < MaxSysEvents

Count ==
    CanHappen /\ \E c \in Loaded : Happens([sys EXCEPT !.g[c] = @ + 1, !.since[c] = @ + 1])

\* A client comes, with a new session or to the one it has, or goes.
ClientComes ==
    /\ CanHappen
    /\ \/ Happens([sys EXCEPT !.contexts = Append(@, TRUE)])
       \/ \E i \in DOMAIN sys.contexts : ~sys.contexts[i] /\ Happens([sys EXCEPT !.contexts[i] = TRUE])

ClientGoes == CanHappen /\ \E i \in DOMAIN sys.contexts : sys.contexts[i] /\ Happens([sys EXCEPT !.contexts[i] = FALSE])

ClientExpires ==
    /\ CanHappen
    /\ \E i \in DOMAIN sys.contexts : ~sys.contexts[i] /\ Happens([sys EXCEPT !.contexts = RemoveAt(@, i), !.expired = @ + 1])

Memory ==
    /\ CanHappen
    /\ \/ \E size \in BlockSizes : Happens(_mosquitto_malloc(sys, size))
       \/ \E i \in DOMAIN sys.blocks : Happens(_mosquitto_free(sys, i))
       \/ \E i \in DOMAIN sys.blocks, size \in BlockSizes \cup {NULL} : Happens(_mosquitto_realloc(sys, i, size))

Second == sys.now < MaxSeconds /\ sys' = [sys EXCEPT !.now = @ + 1, !.fresh = FALSE]

SysNext == mqtt3_db_sys_update \/ Count \/ ClientComes \/ ClientGoes \/ ClientExpires \/ Memory \/ Second

SysSpec == SysInit /\ [][SysNext]_sys

-----------------------------------------------------------------------------
(* Properties.                                                             *)

\* After an update whoever reads the retained messages learns how things are:
\* every counter, the clients with a connection and without, and the memory,
\* although only what differs from the update before is published, and although
\* the comparison starts with -1 (mqtt3_db_sys_update, _sys_update_clients).  Not
\* the maximum of clients: see MaximumIsMaximum.
SysTreeAgrees ==
    sys.fresh => /\ \A c \in Counters : sys.retained[c] = sys.g[c]
                 /\ sys.retained["clients/active"] = open_sessions(sys)
                 /\ sys.retained["clients/inactive"] = Len(sys.contexts) - open_sessions(sys)
                 /\ sys.retained["clients/total"] = Len(sys.contexts)
                 /\ sys.retained["clients/expired"] = sys.expired
                 /\ sys.retained["heap/current"] = sys.memcount
                 /\ sys.retained["heap/maximum"] = sys.max_memcount

\* A load is a mean of rates that there have been: never below zero, and never
\* above the fastest.  The first update gives none: the counters' last values are
\* still -1 then (sys_tree.c:204).
LoadIsAMean == \A c \in Loaded, p \in Periods : sys.load[c][p] >= 0 /\ sys.load[c][p] <= sys.fastest

\* The count of memory in use is the size of all blocks in use, and the maximum is
\* the most there was in use at once, through every change of size, as long as there
\* is memory; a block that could not be changed in size is in neither (memory_mosq.c:101).
MemoryIsCounted ==
    /\ ~sys.lost => sys.memcount = allocated(sys.blocks) /\ sys.max_memcount = sys.most
    /\ sys.memcount <= sys.max_memcount

\* What the broker publishes about itself is so, but for the maximum of clients
\* (mqtt3_db_sys_update).
SysTreeTells == SysTreeAgrees /\ LoadIsAMean /\ MemoryIsCounted

\* clients/maximum is at least as great as the number of active clients at any update
\* there was: "the maximum number of active clients that have been connected to the
\* broker ... only calculated when the $SYS topic tree is updated"
\* (man/mosquitto.8.xml:137).  The code publishes the number of sessions of the moment
\* (_sys_update_clients).
MaximumIsMaximum == sys.fresh => sys.retained["clients/maximum"] >= sys.peak
=============================================================================
