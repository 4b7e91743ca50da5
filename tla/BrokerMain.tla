----------------------------- MODULE BrokerMain -----------------------------
(***************************************************************************)
(* The life of the broker's process: main() of src/mosquitto.c with the    *)
(* signals it gets, the log (logging.c) and the authentication plugin      *)
(* (security.c).  The work of the main loop is in Broker; here its clients *)
(* matter only as readers of the log topics.  main holds                   *)
(*   cfg       the configuration, with the step of main() that will fail   *)
(*   pc        the step that is next, 0 before the start and after the end *)
(*   how       how the process ended, NULL while it has not                *)
(*   loop      where in an iteration the main loop is                      *)
(*   pid       the pid file: "none", "mine", or "other" for an older one   *)
(*   root      whether it has the privileges of root                       *)
(*   db        "none", "open" or "closed": the subscription tree           *)
(*   contexts  the sessions, NULL when freed; n messages wait for each     *)
(*   handlers, run, flag_reload, flag_db_backup  the signals               *)
(*   dest, fptr, socks  the log destinations, whether the log file and the *)
(*             listening sockets are open                                  *)
(*   calls     what the plugin has been asked, in order                    *)
(*   saved     how many sessions were saved last, stopped how many there   *)
(*             were when the main loop ended, NULL for neither             *)
(*   unsafe, depth  whether a log message has used memory that is not      *)
(*             there, and how deep log messages have caused one another    *)
(*   term, hup a SIGTERM, a SIGHUP that is to be heeded; signals how many  *)
(*             came, events what clients have done                         *)
(***************************************************************************)
EXTENDS Topics, FiniteSets

CONSTANTS
    MainConfigs,    \* the configurations
    max_queued,     \* messages that may wait for a client
    LogBound,       \* bound on the nesting of log messages that is followed
    MaxSignals,     \* bound on signals
    MaxEvents       \* bound on clients' connecting and disconnecting

VARIABLE main

NoProcess ==
    [cfg |-> NULL, pc |-> 0, how |-> NULL, loop |-> "top", pid |-> "none", root |-> TRUE, db |-> "none",
     contexts |-> <<>>, handlers |-> FALSE, run |-> FALSE, flag_reload |-> FALSE, flag_db_backup |-> FALSE,
     dest |-> {"stderr"}, fptr |-> FALSE, socks |-> FALSE, calls |-> <<>>, saved |-> NULL, stopped |-> NULL,
     unsafe |-> FALSE, depth |-> 0, term |-> FALSE, hup |-> FALSE, signals |-> 0, events |-> 0]

MainInit == main = NoProcess

\* Mutant of Steps: the sessions are saved when they are gone.
Steps_save_late ==
    <<"fork", "pid", "privileges", "db_open", "log_init", "module_init", "security_init", "listen", "signals", "run", "loop",
      "log_close", "contexts", "backup", "db_close", "sockets", "module_cleanup", "remove", "config_cleanup">>

\* main(), in the order of its statements.
Steps ==
    <<"fork", "pid", "privileges", "db_open", "log_init", "module_init", "security_init", "listen", "signals", "run", "loop",
      "log_close", "backup", "contexts", "db_close", "sockets", "module_cleanup", "remove", "config_cleanup">>

At(step) == main.pc \in DOMAIN Steps /\ Steps[main.pc] = step
on(m) == [m EXCEPT !.pc = @ + 1]
exit(m, how) == [m EXCEPT !.pc = 0, !.how = how]

-----------------------------------------------------------------------------
(* The log.                                                                *)

\* Sending a message is itself logged with priority debug.
to_topic(m, priority) == "topic" \in m.dest /\ priority # "debug"

\* The client's queue is full: it is marked before this is logged.
dropping(m, i) == [m EXCEPT !.contexts[i].is_dropping = TRUE]

RECURSIVE _mosquitto_log_printf(_, _, _)
RECURSIVE queue_from(_, _, _)

\* A message at a log topic for every session from the i-th on: it waits, or is
\* dropped, which is logged once for each session.
queue_from(m, i, depth) ==
    CASE i > Len(m.contexts) -> m
      [] i <= Len(m.contexts) /\ m.contexts[i].n < max_queued -> queue_from([m EXCEPT !.contexts[i].n = @ + 1], i + 1, depth)
      [] i <= Len(m.contexts) /\ m.contexts[i].n >= max_queued /\ m.contexts[i].is_dropping -> queue_from(m, i + 1, depth)
      [] OTHER -> queue_from(_mosquitto_log_printf(dropping(m, i), "notice", depth + 1), i + 1, depth)

_mosquitto_log_printf(m, priority, depth) ==
    LET noted == [m EXCEPT !.depth = IF @ < depth THEN depth ELSE @]
    IN CASE m.dest = {} \/ ~to_topic(m, priority) \/ depth > LogBound -> noted
         [] to_topic(m, priority) /\ (m.db # "open" \/ m.contexts = NULL) -> [noted EXCEPT !.unsafe = TRUE]
         [] OTHER -> queue_from(noted, 1, depth)

log(m, priority) == _mosquitto_log_printf(m, priority, 1)

mqtt3_log_init(m) == [m EXCEPT !.dest = m.cfg.dest]

-----------------------------------------------------------------------------
(* The start of the process.                                               *)

\* The configuration is read, which may open the log file, or cannot be.
MainStart ==
    /\ main.how = NULL /\ main.pc = 0
    /\ \E cfg \in MainConfigs :
         LET m == [main EXCEPT !.cfg = cfg, !.pid = cfg.pid, !.fptr = "file" \in cfg.dest]
         IN main' = IF cfg.fails = "config" THEN exit(m, "config") ELSE on(m)

\* The parent of a daemon ends here, and what follows is the child.
Fork == At("fork") /\ main' = IF main.cfg.daemon /\ main.cfg.fails = "fork" THEN exit(log(main, "err"), "fork") ELSE on(main)

WritePid ==
    /\ At("pid")
    /\ main' = CASE ~main.cfg.daemon \/ ~main.cfg.pid_file -> on(main)
                 [] main.cfg.daemon /\ main.cfg.pid_file /\ main.cfg.fails = "pid" -> exit(log(main, "err"), "pid")
                 [] OTHER -> on([main EXCEPT !.pid = "mine"])

drop_privileges ==
    /\ At("privileges")
    /\ main' = CASE main.cfg.user \in {NULL, "root"} -> on(log(main, "warning"))
                 [] main.cfg.user \notin {NULL, "root"} /\ main.cfg.fails = "privileges" -> exit(log(main, "err"), "privileges")
                 [] OTHER -> on([main EXCEPT !.root = FALSE])

\* With the sessions that were saved, none of which has a client yet.
mqtt3_db_open ==
    /\ At("db_open")
    /\ main' = IF main.cfg.persistence /\ main.cfg.fails = "db_open" THEN exit(log(main, "err"), "db_open")
               ELSE on([main EXCEPT !.db = "open",
                                    !.contexts = [i \in 1..main.cfg.restored |-> [sock |-> FALSE, n |-> 0, is_dropping |-> FALSE]]])

LogInit == At("log_init") /\ main' = on(log(mqtt3_log_init(main), "info"))

\* A plugin is loaded if it has every function and the right version; one that
\* cannot be initialised ends the broker, and is not cleaned up.
mosquitto_security_module_init ==
    /\ At("module_init")
    /\ main' = CASE main.cfg.plugin = NULL -> on(main)
                 [] main.cfg.plugin = "unusable" -> exit(log(main, "err"), "module_init")
                 [] OTHER -> LET m == [main EXCEPT !.calls = Append(@, "plugin_init")]
                             IN IF main.cfg.fails = "module_init" THEN exit(log(m, "err"), "module_init") ELSE on(m)

mosquitto_security_init(m) == IF m.cfg.plugin = NULL THEN m ELSE [m EXCEPT !.calls = Append(@, "security_init")]

mosquitto_security_cleanup(m) == IF m.cfg.plugin = NULL THEN m ELSE [m EXCEPT !.calls = Append(@, "security_cleanup")]

SecurityInit ==
    /\ At("security_init")
    /\ LET m == mosquitto_security_init(main)
       IN main' = IF main.cfg.fails = "security_init" THEN exit(log(m, "err"), "security_init") ELSE on(m)

subhier_clean(m) == [m EXCEPT !.db = "closed"]
removed(m) == IF m.cfg.pid_file THEN [m EXCEPT !.pid = "none"] ELSE m

\* The sockets of the listeners; a failure is the only one that is cleaned up after.
Listen ==
    /\ At("listen")
    /\ LET m == log(main, "info")
       IN main' = IF main.cfg.fails = "listen" THEN exit(removed(subhier_clean([log(m, "err") EXCEPT !.contexts = NULL])), "listen")
                  ELSE on([m EXCEPT !.socks = TRUE])

Signals == At("signals") /\ main' = on([main EXCEPT !.handlers = TRUE])
StartRunning == At("run") /\ main' = on([main EXCEPT !.run = TRUE])

-----------------------------------------------------------------------------
(* The signals.  Before there is a handler any of them kills the process;  *)
(* one to stop that comes before "run = 1" is lost.                        *)

\* handle_sigint of mosquitto.c, which takes both SIGINT and SIGTERM.
handle_sigterm(m) == [m EXCEPT !.run = FALSE, !.term = @ \/ m.run]
handle_sigusr1(m) == [m EXCEPT !.flag_db_backup = TRUE]

\* One that comes while a reload has read the file already is lost.
handle_sighup(m) == [m EXCEPT !.flag_reload = TRUE, !.hup = @ \/ ~(m.loop \in {"security", "log"})]

Signal ==
    /\ main.pc # 0 /\ main.signals < MaxSignals
    /\ LET m == [main EXCEPT !.signals = @ + 1]
       IN main' \in IF main.handlers THEN {handle_sigterm(m), handle_sighup(m), handle_sigusr1(m)} ELSE {exit(m, "killed")}

-----------------------------------------------------------------------------
(* The main loop.                                                          *)

InLoop(where) == At("loop") /\ main.loop = where

Top ==
    /\ InLoop("top")
    /\ main' = IF main.run THEN [main EXCEPT !.loop = "serve"] ELSE on([log(main, "info") EXCEPT !.stopped = Len(main.contexts)])

\* Every connected client is sent the first message that waits for it.
send_waiting(m) ==
    LET write(s, i) == IF s.contexts[i].sock /\ s.contexts[i].n > 0 THEN log([s EXCEPT !.contexts[i].n = @ - 1], "debug") ELSE s
    IN FoldLeft(write, m, [i \in 1..Len(m.contexts) |-> i])

\* A client connects and asks for the log, or one leaves its session behind.
connected(m) ==
    LET event == [m EXCEPT !.events = @ + 1]
    IN {log([event EXCEPT !.contexts = Append(@, [sock |-> TRUE, n |-> 0, is_dropping |-> FALSE])], "notice")}
       \cup {log([event EXCEPT !.contexts[i].sock = FALSE], "notice") : i \in {j \in DOMAIN m.contexts : m.contexts[j].sock}}

Serve ==
    /\ InLoop("serve")
    /\ LET m == [send_waiting(main) EXCEPT !.loop = "backup"]
       IN main' \in {m} \cup (IF main.events < MaxEvents THEN connected(m) ELSE {})

backup_sessions(m) == [log(m, "info") EXCEPT !.saved = IF m.contexts = NULL THEN 0 ELSE Len(m.contexts)]

\* Mutant of backed_up: the flags are put down together.
backed_up_all(m) == [m EXCEPT !.flag_db_backup = FALSE, !.flag_reload = FALSE]

backed_up(m) == [m EXCEPT !.flag_db_backup = FALSE]

Backup ==
    /\ InLoop("backup")
    /\ main' = [(IF main.flag_db_backup THEN backed_up(backup_sessions(main)) ELSE main) EXCEPT !.loop = "reload"]

\* The reload, between the parts of which another signal may come.
Reload ==
    /\ InLoop("reload")
    /\ main' = IF main.flag_reload THEN [log(main, "info") EXCEPT !.hup = FALSE, !.loop = "security"] ELSE [main EXCEPT !.loop = "top"]

ReloadSecurity ==
    /\ InLoop("security")
    /\ main' = [mosquitto_security_init(mosquitto_security_cleanup(main)) EXCEPT !.loop = "log"]

ReloadLog == InLoop("log") /\ main' = [mqtt3_log_init(main) EXCEPT !.flag_reload = FALSE, !.loop = "top"]

-----------------------------------------------------------------------------
(* The end of the process.                                                 *)

\* Only the system log is closed, and it opens again with the next message.
mqtt3_log_close == At("log_close") /\ main' = on(main)

LastBackup == At("backup") /\ main' = on(IF main.cfg.persistence THEN backup_sessions(main) ELSE main)
FreeContexts == At("contexts") /\ main' = on([main EXCEPT !.contexts = NULL])
mqtt3_db_close == At("db_close") /\ main' = on(subhier_clean(main))
CloseSockets == At("sockets") /\ main' = on([main EXCEPT !.socks = FALSE])

module_cleanup(m) ==
    IF m.cfg.plugin = NULL THEN m ELSE [mosquitto_security_cleanup(m) EXCEPT !.calls = Append(@, "plugin_cleanup")]

mosquitto_security_module_cleanup == At("module_cleanup") /\ main' = on(module_cleanup(main))
RemovePid == At("remove") /\ main' = on(removed(main))
mqtt3_config_cleanup == At("config_cleanup") /\ main' = exit([main EXCEPT !.fptr = FALSE], "stopped")

MainStep ==
    \/ Fork \/ WritePid \/ drop_privileges \/ mqtt3_db_open \/ LogInit
    \/ mosquitto_security_module_init \/ SecurityInit \/ Listen \/ Signals \/ StartRunning
    \/ Top \/ Serve \/ Backup \/ Reload \/ ReloadSecurity \/ ReloadLog
    \/ mqtt3_log_close \/ LastBackup \/ FreeContexts \/ mqtt3_db_close \/ CloseSockets
    \/ mosquitto_security_module_cleanup \/ RemovePid \/ mqtt3_config_cleanup

MainNext == MainStart \/ MainStep \/ Signal

\* The process runs on whatever signals come.
MainFairness == WF_main(MainStep)

-----------------------------------------------------------------------------
(* Properties.                                                             *)

\* A log message that is published finds the subscription tree and the sessions:
\* main() sets up logging only after the database ("in case we're logging to
\* topics", mosquitto.c:245), and logs nothing between freeing them and its end,
\* although mqtt3_log_close leaves the destinations as they are.
LogsAreSafe == ~main.unsafe

\* Log messages that cause one another come to an end: a message can be dropped
\* for a client and that be logged, once for every client (mqtt3_db_message_insert).
LogNestingEnds ==
    main.depth <= 1 + main.events + IF main.cfg = NULL THEN 0 ELSE main.cfg.restored

\* Publishing the log does not feed on itself: sending a log message is logged,
\* too, but that is not published, so connected readers get to the end of it.
LogsSettle ==
    <>[](main.contexts = NULL \/ \A i \in DOMAIN main.contexts : main.contexts[i].sock => main.contexts[i].n = 0)

\* The plugin is asked in the order its interface needs: initialised once, then
\* security_init and security_cleanup in turn, through every reload, and cleaned
\* up last, when the broker stops.
PluginProtocol ==
    LET c == main.calls
        middle == {k \in DOMAIN c : k > 1 /\ c[k] # "plugin_cleanup"}
    IN c # <<>> =>
         /\ c[1] = "plugin_init"
         /\ \A k \in middle : c[k] = IF k % 2 = 0 THEN "security_init" ELSE "security_cleanup"
         /\ \A k \in DOMAIN c : c[k] = "plugin_cleanup" => k = Len(c) /\ k % 2 = 0 /\ k > 2
         /\ main.how = "stopped" => c[Len(c)] = "plugin_cleanup"

\* A broker that stops has saved the sessions it had, closed its database and its
\* sockets, and leaves no pid file; nor does one whose listeners cannot be opened.
EndsInOrder ==
    /\ main.how = "stopped" => /\ main.cfg.persistence => main.saved = main.stopped
                               /\ ~main.socks /\ ~main.fptr
    /\ main.how \in {"stopped", "listen"} => main.db = "closed" /\ main.pid # "mine" /\ (main.cfg.pid_file => main.pid = "none")

\* A SIGTERM ends the broker once it runs, and a SIGHUP makes it read its
\* configuration again unless it is to end: handle_sigint and handle_sighup, and
\* the loop that looks at what they set.
SignalsHeeded == [](main.term => <>(main.how = "stopped")) /\ [](main.hup => <>(~main.hup \/ main.how = "stopped"))

\* The process does things in an order in which what each step needs is there, from
\* the start through reloads to the end, whichever step fails.
MainInOrder == LogsAreSafe /\ LogNestingEnds /\ PluginProtocol /\ EndsInOrder

\* Nothing keeps the main loop from what it has to do in the end.
MainGoesOn == SignalsHeeded /\ LogsSettle
=============================================================================
