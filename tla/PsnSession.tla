----------------------------- MODULE PsnSession -----------------------------
(***************************************************************************)
(* psn_connect and psn_disconnect of one client in detail: the command     *)
(* line thread, the libmosquitto instances it has made and their loop      *)
(* threads, and the broker as far as it answers CONNECT.                   *)
(*                                                                         *)
(* psn_disconnect sets mosq->state and joins the loop thread, which leaves *)
(* mosquitto_loop_forever only if it finds mosq_cs_disconnecting there     *)
(* after its socket has been closed.  The loop thread itself writes the    *)
(* state too: when a CONNACK arrives and when it reconnects.               *)
(*                                                                         *)
(* An instance is never freed, and psn_connect makes a new one every time. *)
(*                                                                         *)
(* What PsnClients has too, without instances, has another name here.      *)
(***************************************************************************)
EXTENDS Integers, Sequences

CONSTANTS
    MaxInstances,   \* bound on the connects of one process
    LinkFails,      \* an established connection may break
    Patient,        \* "disconnect" is typed only after the CONNACK
    Again,          \* "connect" is typed while connected, too
    MaxUnacked      \* bound on the publishes that wait for a PUBACK

ASSUME SessionAssumption ==
    /\ MaxInstances \in Nat /\ MaxUnacked \in Nat
    /\ LinkFails \in BOOLEAN /\ Patient \in BOOLEAN /\ Again \in BOOLEAN

VARIABLES
    connected_flag,   \* the static flag of psn.c
    mosq,             \* psn->mosq: an instance, NULL or uninitialised
    made,             \* how many instances psn_connect has made
    command,          \* where the command line thread is
    state,            \* mosq->state of each instance
    sock,             \* is mosq->sock open?
    out_packet,       \* the packets the loop thread has to write
    out_queue_len,    \* how many publishes wait for a PUBACK
    callback_mutex,   \* is mosq->callback_mutex locked?
    threaded,         \* mosq->threaded
    loop,             \* where the loop thread of each instance is
    asking,           \* has the broker a CONNECT to answer?
    wire,             \* what the broker has sent and the loop not yet read
    owner             \* the instance that has the client id at the broker

instances == <<state, sock, out_packet, out_queue_len, callback_mutex, threaded, loop>>
broker == <<asking, wire, owner>>
sessionVars == <<connected_flag, mosq, made, command, instances, broker>>

Instances == 1..MaxInstances
NULL == 0
Uninitialised == -1

SessionTypeOK ==
    /\ connected_flag \in BOOLEAN
    /\ mosq \in Instances \cup {NULL, Uninitialised}
    /\ made \in 0..MaxInstances
    /\ command \in {"idle", "sending", "queueing", "joining"}
    /\ state \in [Instances -> {"new", "connected", "disconnecting"}]
    /\ sock \in [Instances -> BOOLEAN]
    /\ out_packet \in [Instances -> Seq({"CONNECT", "DISCONNECT"})]
    /\ out_queue_len \in [Instances -> 0..MaxUnacked]
    /\ callback_mutex \in [Instances -> BOOLEAN]
    /\ threaded \in [Instances -> BOOLEAN]
    /\ loop \in [Instances -> {"none", "select", "sleep", "reconnect", "connecting",
                             "hung", "done"}]
    /\ asking \in [Instances -> BOOLEAN]
    /\ wire \in [Instances -> Seq({"CONNACK", "refused", "closed"})]
    /\ owner \in Instances \cup {NULL}

-----------------------------------------------------------------------------

Fresh(value) == [i \in Instances |-> value]

\* main does not initialise psn->mosq.
SessionInit ==
    /\ connected_flag = FALSE
    /\ mosq \in {NULL, Uninitialised}
    /\ made = 0
    /\ command = "idle"
    /\ state = Fresh("new")
    /\ sock = Fresh(FALSE)
    /\ out_packet = Fresh(<<>>)
    /\ out_queue_len = Fresh(0)
    /\ callback_mutex = Fresh(FALSE)
    /\ threaded = Fresh(FALSE)
    /\ loop = Fresh("none")
    /\ asking = Fresh(FALSE)
    /\ wire = Fresh(<<>>)
    /\ owner = NULL

\* The socket of i is closed, by either side.
_mosquitto_socket_close(i) ==
    /\ sock' = [sock EXCEPT ![i] = FALSE]
    /\ wire' = [wire EXCEPT ![i] = <<>>]
    /\ asking' = [asking EXCEPT ![i] = FALSE]
    /\ owner' = IF owner = i THEN NULL ELSE owner

-----------------------------------------------------------------------------
(* The command line thread.                                                *)

\* The test of psn_connect is the wrong way round: it makes a new instance
\* whenever psn->mosq is anything but NULL.
mosquitto_new ==
    /\ command = "idle"
    /\ connected_flag => Again
    /\ mosq # NULL
    /\ made < MaxInstances
    /\ made' = made + 1
    /\ mosq' = made'

\* CONNECT and SUBSCRIBE are written before the loop thread starts.
instance_connect ==
    /\ mosquitto_new
    /\ sock' = [sock EXCEPT ![mosq'] = TRUE]
    /\ asking' = [asking EXCEPT ![mosq'] = TRUE]
    /\ threaded' = [threaded EXCEPT ![mosq'] = TRUE]
    /\ loop' = [loop EXCEPT ![mosq'] = "select"]
    /\ connected_flag' = TRUE
    /\ UNCHANGED <<command, state, out_packet, out_queue_len, callback_mutex, wire, owner>>

\* A CONNECT that cannot be written leaves the socket open.
instance_connect_fails ==
    /\ mosquitto_new
    /\ \/ UNCHANGED <<sock, out_packet>>
       \/ /\ LinkFails
          /\ sock' = [sock EXCEPT ![mosq'] = TRUE]
          /\ out_packet' = [out_packet EXCEPT ![mosq'] = <<"CONNECT">>]
    /\ UNCHANGED <<connected_flag, command, state, out_queue_len, callback_mutex, threaded, loop, broker>>

\* Every command that sends something.
instance_publish ==
    /\ command = "idle"
    /\ connected_flag
    /\ out_queue_len[mosq] < MaxUnacked
    /\ out_queue_len' = [out_queue_len EXCEPT ![mosq] = @ + 1]
    /\ UNCHANGED <<connected_flag, mosq, made, command, state, sock, out_packet, callback_mutex,
                   threaded, loop, broker>>

mosquitto_disconnect ==
    /\ command = "idle"
    /\ connected_flag
    /\ Patient => state[mosq] = "connected"
    /\ state' = [state EXCEPT ![mosq] = "disconnecting"]
    /\ command' = "sending"
    /\ UNCHANGED <<connected_flag, mosq, made, sock, out_packet, out_queue_len, callback_mutex,
                   threaded, loop, broker>>

\* mosquitto_disconnect looks at the socket; _mosquitto_send_disconnect makes
\* the packet.
_mosquitto_send_disconnect ==
    /\ command = "sending"
    /\ command' = IF sock[mosq] THEN "queueing" ELSE "joining"
    /\ UNCHANGED <<connected_flag, mosq, made, instances, broker>>

\* The loop thread will write the packet.  Without one the write is tried at
\* once, and fails as that of the CONNECT did.
_mosquitto_packet_queue ==
    /\ command = "queueing"
    /\ out_packet' = [out_packet EXCEPT ![mosq] = Append(@, "DISCONNECT")]
    /\ command' = "joining"
    /\ UNCHANGED <<connected_flag, mosq, made, state, sock, out_queue_len, callback_mutex,
                   threaded, loop, broker>>

\* Mutant of mosquitto_loop_stop: it does not join the loop thread.
mosquitto_loop_stop_no_join ==
    /\ command = "joining"
    /\ threaded' = [threaded EXCEPT ![mosq] = FALSE]
    /\ connected_flag' = FALSE
    /\ command' = "idle"
    /\ UNCHANGED <<mosq, made, state, sock, out_packet, out_queue_len, callback_mutex,
                   loop, broker>>

\* pthread_join, and the end of psn_disconnect.
mosquitto_loop_stop ==
    /\ command = "joining"
    /\ threaded[mosq] => loop[mosq] = "done"
    /\ threaded' = [threaded EXCEPT ![mosq] = FALSE]
    /\ connected_flag' = FALSE
    /\ command' = "idle"
    /\ UNCHANGED <<mosq, made, state, sock, out_packet, out_queue_len, callback_mutex,
                   loop, broker>>

\* The process ends, and a new one starts.
Restart ==
    /\ connected_flag' = FALSE
    /\ mosq' \in {NULL, Uninitialised}
    /\ made' = 0
    /\ command' = "idle"
    /\ state' = Fresh("new")
    /\ sock' = Fresh(FALSE)
    /\ out_packet' = Fresh(<<>>)
    /\ out_queue_len' = Fresh(0)
    /\ callback_mutex' = Fresh(FALSE)
    /\ threaded' = Fresh(FALSE)
    /\ loop' = Fresh("none")
    /\ asking' = Fresh(FALSE)
    /\ wire' = Fresh(<<>>)
    /\ owner' = NULL

process_exit == command = "idle" /\ Restart

\* The other branch of the test: mosquitto_reinitialise refuses the NULL, and
\* mosquitto_message_callback_set dereferences it.
psn_connect_null == command = "idle" /\ mosq = NULL /\ Restart

-----------------------------------------------------------------------------
(* The loop thread of instance i.                                          *)

\* The callback mutex is locked and unlocked around a callback that psn has not
\* set.  It is not recursive: a thread that has left it locked waits for ever.
lock_callback_mutex(i) ==
    loop' = IF callback_mutex[i] THEN [loop EXCEPT ![i] = "hung"] ELSE loop

_mosquitto_loop_rc_handle(i) ==
    /\ _mosquitto_socket_close(i)
    /\ lock_callback_mutex(i)
    /\ UNCHANGED <<connected_flag, mosq, made, command, state, out_packet, out_queue_len,
                   callback_mutex, threaded>>

receives(i, packet) ==
    /\ loop[i] = "select"
    /\ sock[i]
    /\ wire[i] # <<>>
    /\ Head(wire[i]) = packet

\* Mutant of connack: the result goes into the state.
connack_result_as_state(i) ==
    /\ receives(i, "CONNACK")
    /\ state' = [state EXCEPT ![i] = "CONNACK"]
    /\ wire' = [wire EXCEPT ![i] = Tail(@)]
    /\ lock_callback_mutex(i)
    /\ UNCHANGED <<connected_flag, mosq, made, command, sock, out_packet, out_queue_len,
                   callback_mutex, threaded, asking, owner>>

\* _mosquitto_handle_connack with result 0.  The state is not looked at before
\* it is written.
connack(i) ==
    /\ receives(i, "CONNACK")
    /\ state' = IF callback_mutex[i] THEN state ELSE [state EXCEPT ![i] = "connected"]
    /\ wire' = [wire EXCEPT ![i] = Tail(@)]
    /\ lock_callback_mutex(i)
    /\ UNCHANGED <<connected_flag, mosq, made, command, sock, out_packet, out_queue_len,
                   callback_mutex, threaded, asking, owner>>

\* _mosquitto_handle_connack with another result.  With the mutex locked the
\* thread waits before it would close the socket.
connack_refused(i) ==
    /\ receives(i, "refused")
    /\ \/ ~callback_mutex[i] /\ _mosquitto_loop_rc_handle(i)
       \/ /\ callback_mutex[i]
          /\ lock_callback_mutex(i)
          /\ UNCHANGED <<connected_flag, mosq, made, command, state, sock, out_packet, out_queue_len,
                         callback_mutex, threaded, broker>>

\* An end of file, a failed write, or a PINGRESP that has not come in time.
conn_lost(i) == receives(i, "closed") /\ _mosquitto_loop_rc_handle(i)

\* The keepalive time is over, and the state is not one that sends a PINGREQ.
_mosquitto_check_keepalive(i) ==
    /\ loop[i] = "select"
    /\ sock[i]
    /\ state[i] # "connected"
    /\ _mosquitto_loop_rc_handle(i)

_mosquitto_handle_pubackcomp(i) ==
    /\ loop[i] = "select"
    /\ sock[i]
    /\ owner = i /\ wire[i] = <<>>
    /\ out_queue_len[i] > 0
    /\ out_queue_len' = [out_queue_len EXCEPT ![i] = @ - 1]
    /\ lock_callback_mutex(i)
    /\ UNCHANGED <<connected_flag, mosq, made, command, state, sock, out_packet, callback_mutex,
                   threaded, broker>>

\* Mutant of _mosquitto_packet_write: the broker is left to close the connection.
_mosquitto_packet_write_keeps_socket(i) ==
    /\ loop[i] = "select"
    /\ sock[i]
    /\ out_packet[i] # <<>>
    /\ out_packet' = [out_packet EXCEPT ![i] = <<>>]
    /\ callback_mutex' = [callback_mutex EXCEPT
                            ![i] = @ \/ \E k \in DOMAIN out_packet[i] :
                                           out_packet[i][k] = "DISCONNECT"]
    /\ asking' = [asking EXCEPT ![i] = TRUE]
    /\ UNCHANGED <<connected_flag, mosq, made, command, state, out_queue_len, threaded, sock, wire, owner,
                   loop>>

\* All packets up to a DISCONNECT are written.  That one closes the socket and
\* locks the callback mutex, and the branch returns without unlocking it.
\* mosquitto_loop_write calls the function out_queue_len times, at least once;
\* a second call fails without a socket, and handling that locks the mutex.
_mosquitto_packet_write(i) ==
    /\ loop[i] = "select"
    /\ sock[i]
    /\ out_packet[i] # <<>>
    /\ \/ \E k \in DOMAIN out_packet[i] :
             /\ out_packet[i][k] = "DISCONNECT"
             /\ out_packet' = [out_packet EXCEPT ![i] = SubSeq(@, k + 1, Len(@))]
             /\ _mosquitto_socket_close(i)
             /\ callback_mutex' = [callback_mutex EXCEPT ![i] = TRUE]
             /\ loop' = IF callback_mutex[i] \/ out_queue_len[i] > 1
                        THEN [loop EXCEPT ![i] = "hung"] ELSE loop
       \/ /\ \A k \in DOMAIN out_packet[i] : out_packet[i][k] = "CONNECT"
          /\ out_packet' = [out_packet EXCEPT ![i] = <<>>]
          /\ asking' = [asking EXCEPT ![i] = TRUE]
          /\ UNCHANGED <<callback_mutex, sock, wire, owner, loop>>
    /\ UNCHANGED <<connected_flag, mosq, made, command, state, out_queue_len, threaded>>

\* Mutant of loop_exit: a loop that is to end polls once more.
loop_exit_polls_again(i, next) ==
    /\ loop' = [loop EXCEPT ![i] = IF state[i] = "disconnecting" THEN "select" ELSE next]
    /\ UNCHANGED <<connected_flag, mosq, made, command, state, sock, out_packet, out_queue_len,
                   callback_mutex, threaded, broker>>

\* The loop ends if it finds the state "disconnecting".
loop_exit(i, next) ==
    /\ loop' = [loop EXCEPT ![i] = IF state[i] = "disconnecting" THEN "done" ELSE next]
    /\ UNCHANGED <<connected_flag, mosq, made, command, state, sock, out_packet, out_queue_len,
                   callback_mutex, threaded, broker>>

\* Without a socket mosquitto_loop returns MOSQ_ERR_NO_CONN.
loop_no_conn(i) == loop[i] = "select" /\ ~sock[i] /\ loop_exit(i, "sleep")

\* The second test, after the reconnect delay.
loop_wake_up(i) == loop[i] = "sleep" /\ loop_exit(i, "reconnect")

_mosquitto_reconnect(i) ==
    /\ loop[i] = "reconnect"
    /\ state' = [state EXCEPT ![i] = "new"]
    /\ out_packet' = [out_packet EXCEPT ![i] = <<>>]
    /\ loop' = [loop EXCEPT ![i] = "connecting"]
    /\ UNCHANGED <<connected_flag, mosq, made, command, sock, out_queue_len, callback_mutex, threaded,
                   broker>>

\* The end of _mosquitto_reconnect; the loop goes on whatever the result.
_mosquitto_socket_connect(i) ==
    /\ loop[i] = "connecting"
    /\ loop' = [loop EXCEPT ![i] = "select"]
    /\ \/ /\ sock' = [sock EXCEPT ![i] = TRUE]
          /\ out_packet' = [out_packet EXCEPT ![i] = Append(@, "CONNECT")]
       \/ UNCHANGED <<sock, out_packet>>
    /\ UNCHANGED <<connected_flag, mosq, made, command, state, out_queue_len, callback_mutex, threaded,
                   broker>>

-----------------------------------------------------------------------------
(* The broker and the link.                                                *)

\* The broker accepts the CONNECT of i and closes the connection that had the
\* client id, or refuses it.
mqtt3_handle_connect(i) ==
    /\ asking[i]
    /\ asking' = [asking EXCEPT ![i] = FALSE]
    /\ \/ /\ owner' = i
          /\ wire' = [j \in Instances |->
                        IF j = i THEN Append(wire[j], "CONNACK")
                        ELSE IF j = owner THEN Append(wire[j], "closed")
                        ELSE wire[j]]
       \/ /\ wire' = [wire EXCEPT ![i] = Append(@, "refused")]
          /\ UNCHANGED owner
    /\ UNCHANGED <<connected_flag, mosq, made, command, instances>>

\* The connection breaks, with or without what was on its way.
instance_link_lost(i) ==
    /\ LinkFails
    /\ sock[i]
    /\ \A k \in DOMAIN wire[i] : wire[i][k] # "closed"
    /\ \/ wire' = [wire EXCEPT ![i] = <<"closed">>]
       \/ wire' = [wire EXCEPT ![i] = Append(@, "closed")]
    /\ asking' = [asking EXCEPT ![i] = FALSE]
    /\ owner' = IF owner = i THEN NULL ELSE owner
    /\ UNCHANGED <<connected_flag, mosq, made, command, instances>>

-----------------------------------------------------------------------------

Typed ==
    \/ instance_connect \/ instance_connect_fails \/ psn_connect_null
    \/ instance_publish \/ mosquitto_disconnect \/ process_exit

Returning == _mosquitto_send_disconnect \/ _mosquitto_packet_queue \/ mosquitto_loop_stop

mosquitto_loop_forever(i) ==
    \/ connack(i) \/ connack_refused(i) \/ _mosquitto_handle_pubackcomp(i)
    \/ conn_lost(i) \/ _mosquitto_check_keepalive(i)
    \/ _mosquitto_packet_write(i)
    \/ loop_no_conn(i) \/ loop_wake_up(i)
    \/ _mosquitto_reconnect(i) \/ _mosquitto_socket_connect(i)

SessionNext ==
    \/ Typed \/ Returning
    \/ \E i \in Instances :
          mosquitto_loop_forever(i) \/ mqtt3_handle_connect(i) \/ instance_link_lost(i)

SessionSpec == SessionInit /\ [][SessionNext]_sessionVars

\* The threads run, and the broker answers; the user may stop typing.
SessionFairness ==
    /\ WF_sessionVars(Returning)
    /\ \A i \in Instances :
          /\ WF_sessionVars(mosquitto_loop_forever(i))
          /\ WF_sessionVars(mqtt3_handle_connect(i))

SessionFairSpec == SessionSpec /\ SessionFairness

-----------------------------------------------------------------------------
(* Properties.                                                             *)

\* When psn_disconnect has returned, the instance it was about has neither a
\* socket nor a loop thread, so that no callback touches the friend lists any
\* more on its behalf, whatever the link and the broker did meanwhile.
DisconnectedMeansClosed ==
    ~connected_flag /\ mosq \in Instances /\ loop[mosq] # "none" =>
        ~sock[mosq] /\ loop[mosq] = "done"

\* The callback mutex that the DISCONNECT branch of _mosquitto_packet_write
\* leaves locked: while it is, the instance has no connection on which a callback
\* would be due, unless the state that ends the loop thread was overwritten and
\* it has connected once more.
LeakedMutexIsLast ==
    \A i \in Instances :
        callback_mutex[i] /\ sock[i] => state[i] # "disconnecting"

\* "This call will block until the network thread finishes.  For the network
\* thread to end, you must have previously called mosquitto_disconnect"
\* (mosquitto.h, mosquitto_loop_stop): psn_disconnect, which has called it,
\* returns.
DisconnectEnds == (command # "idle") ~> (command = "idle")

\* psn_disconnect returns, but for two things that may have happened to its loop
\* thread: the state that ends it was overwritten, by a late CONNACK or by a
\* reconnect that was under way, or it waits for the callback mutex it holds.
DisconnectReturns ==
    (command # "idle") ~> \/ command = "idle"
                      \/ state[mosq] # "disconnecting" \/ loop[mosq] = "hung"
=============================================================================
