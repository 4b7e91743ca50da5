-------------------------- MODULE PsnSession_proofs --------------------------
(***************************************************************************)
(* Type correctness of PsnSession, the proof that an instance is closed    *)
(* when psn_disconnect has returned, and the proof that a callback mutex   *)
(* that was left locked is not waited for any more, for any number of      *)
(* instances and whatever the broker and the links do.                     *)
(***************************************************************************)
EXTENDS PsnSession, SequenceTheorems, TLAPS

-----------------------------------------------------------------------------
(* The inductive invariant.                                                *)

\* psn->mosq is the newest instance, if there is one.
NewestInstance ==
    /\ mosq = made \/ (made = 0 /\ mosq = Uninitialised)
    /\ connected_flag => made > 0
    /\ command # "idle" => connected_flag

\* Where a loop thread can be, given what mosquitto_loop_start and
\* mosquitto_loop_stop have noted about it.
Threads ==
    \A i \in Instances :
        /\ i > made => loop[i] = "none" /\ ~threaded[i]
        /\ ~threaded[i] => loop[i] \in {"none", "done"}
        /\ threaded[i] => loop[i] # "none"

\* Only a thread at mosquitto_loop has a socket.
Sockets ==
    \A i \in Instances :
        loop[i] \in {"sleep", "reconnect", "connecting", "done"} => ~sock[i]

\* Without the flag the newest instance has no thread.
FlagAndThread == ~connected_flag /\ mosq \in Instances => ~threaded[mosq]

SessionInv ==
    /\ SessionTypeOK
    /\ NewestInstance
    /\ Threads
    /\ Sockets
    /\ FlagAndThread

-----------------------------------------------------------------------------
(* Types.                                                                  *)

\* What one packet queue can be after a step.
LEMMA QueueType ==
    ASSUME NEW S, NEW q \in Seq(S)
    PROVE  /\ <<>> \in Seq(S)
           /\ \A x \in S : <<x>> \in Seq(S) /\ Append(q, x) \in Seq(S)
           /\ q # <<>> => Tail(q) \in Seq(S)
           /\ \A k \in DOMAIN q : SubSeq(q, k + 1, Len(q)) \in Seq(S)
<1>1. <<>> \in Seq(S) /\ \A x \in S : <<x>> \in Seq(S) /\ Append(q, x) \in Seq(S)
  OBVIOUS
<1>2. q # <<>> => Tail(q) \in Seq(S)
  OBVIOUS
<1>3. ASSUME NEW k \in DOMAIN q
      PROVE  SubSeq(q, k + 1, Len(q)) \in Seq(S)
  <2>1. k \in 1..Len(q) /\ Len(q) \in Nat
    BY LenProperties
  <2>2. \A j \in (k + 1)..Len(q) : q[j] \in S
    BY <2>1, ElementOfSeq
  <2> QED
    BY <2>1, <2>2
<1> QED
  BY <1>1, <1>2, <1>3

\* _mosquitto_socket_close keeps the types of what it assigns.
LEMMA SocketCloseType ==
    ASSUME SessionTypeOK, NEW i \in Instances, _mosquitto_socket_close(i)
    PROVE  /\ sock' \in [Instances -> BOOLEAN]
           /\ wire' \in [Instances -> Seq({"CONNACK", "refused", "closed"})]
           /\ asking' \in [Instances -> BOOLEAN]
           /\ owner' \in Instances \cup {NULL}
           /\ ~sock'[i]
           /\ \A j \in Instances : sock'[j] => sock[j]
<1>1. <<>> \in Seq({"CONNACK", "refused", "closed"})
  OBVIOUS
<1> QED
  BY <1>1 DEF SessionTypeOK, _mosquitto_socket_close

\* psn->mosq is an instance while a call needs it to be one.
LEMMA ConnectedInstance ==
    ASSUME SessionTypeOK, NewestInstance
    PROVE  /\ connected_flag => mosq \in Instances
           /\ command # "idle" => mosq \in Instances
           /\ mosq # NULL /\ made < MaxInstances => made + 1 \in Instances
BY SessionAssumption DEF SessionTypeOK, NewestInstance, Instances

\* The queues of all instances after a step that changes one of them.
LEMMA QueueTypes ==
    ASSUME SessionTypeOK
    PROVE  /\ <<>> \in Seq({"CONNECT", "DISCONNECT"})
           /\ <<"CONNECT">> \in Seq({"CONNECT", "DISCONNECT"})
           /\ <<>> \in Seq({"CONNACK", "refused", "closed"})
           /\ <<"closed">> \in Seq({"CONNACK", "refused", "closed"})
           /\ \A i \in Instances :
               /\ Append(out_packet[i], "CONNECT") \in Seq({"CONNECT", "DISCONNECT"})
               /\ Append(out_packet[i], "DISCONNECT") \in Seq({"CONNECT", "DISCONNECT"})
               /\ \A k \in DOMAIN out_packet[i] :
                     SubSeq(out_packet[i], k + 1, Len(out_packet[i]))
                         \in Seq({"CONNECT", "DISCONNECT"})
               /\ \A x \in {"CONNACK", "refused", "closed"} :
                     Append(wire[i], x) \in Seq({"CONNACK", "refused", "closed"})
               /\ wire[i] # <<>> => Tail(wire[i]) \in Seq({"CONNACK", "refused", "closed"})
<1> SUFFICES ASSUME NEW i \in Instances
             PROVE  /\ out_packet[i] \in Seq({"CONNECT", "DISCONNECT"})
                    /\ wire[i] \in Seq({"CONNACK", "refused", "closed"})
  BY QueueType
<1> QED
  BY DEF SessionTypeOK

\* A restart leaves every variable well typed.
LEMMA RestartType ==
    ASSUME Restart
    PROVE  SessionTypeOK'
<1>1. ASSUME NEW S, NEW v \in S
      PROVE  Fresh(v) \in [Instances -> S]
  BY DEF Fresh
<1>2. <<>> \in Seq({"CONNECT", "DISCONNECT"}) /\ <<>> \in Seq({"CONNACK", "refused", "closed"})
  OBVIOUS
<1>3. 0 \in 0..MaxUnacked /\ 0 \in 0..MaxInstances
  BY SessionAssumption
<1> QED
  BY <1>1, <1>2, <1>3 DEF Restart, SessionTypeOK

\* Every step keeps the types.
LEMMA TypeStep ==
    ASSUME SessionTypeOK, NewestInstance, [SessionNext]_sessionVars
    PROVE  SessionTypeOK'
<1> USE SessionAssumption
<1>1. CASE instance_connect
  BY <1>1, ConnectedInstance DEF instance_connect, mosquitto_new, SessionTypeOK
<1>2. CASE instance_connect_fails
  <2>1. mosq' \in Instances /\ made' \in 0..MaxInstances
    BY <1>2, ConnectedInstance DEF instance_connect_fails, mosquitto_new, SessionTypeOK
  <2>2. sock' \in [Instances -> BOOLEAN]
    BY <1>2, <2>1 DEF instance_connect_fails, SessionTypeOK
  <2>3. out_packet' \in [Instances -> Seq({"CONNECT", "DISCONNECT"})]
    BY <1>2, <2>1, QueueTypes DEF instance_connect_fails, SessionTypeOK
  <2> QED
    BY <1>2, <2>1, <2>2, <2>3 DEF instance_connect_fails, SessionTypeOK, broker
<1>3. CASE psn_connect_null
  BY <1>3, RestartType DEF psn_connect_null
<1>4. CASE instance_publish
  BY <1>4, ConnectedInstance DEF instance_publish, broker, SessionTypeOK
<1>5. CASE mosquitto_disconnect
  BY <1>5, ConnectedInstance DEF mosquitto_disconnect, broker, SessionTypeOK
<1>6. CASE process_exit
  BY <1>6, RestartType DEF process_exit
<1>7. CASE _mosquitto_send_disconnect
  BY <1>7, ConnectedInstance
    DEF _mosquitto_send_disconnect, instances, broker, SessionTypeOK
<1>8. CASE _mosquitto_packet_queue
  BY <1>8, QueueTypes, ConnectedInstance DEF _mosquitto_packet_queue, broker, SessionTypeOK
<1>9. CASE mosquitto_loop_stop
  BY <1>9, ConnectedInstance DEF mosquitto_loop_stop, broker, SessionTypeOK
<1>10. ASSUME NEW i \in Instances,
             mosquitto_loop_forever(i) \/ mqtt3_handle_connect(i) \/ instance_link_lost(i)
      PROVE  SessionTypeOK'
  <2>1. CASE connack(i)
    <3>1. wire' \in [Instances -> Seq({"CONNACK", "refused", "closed"})]
      BY <2>1, QueueTypes DEF connack, receives, SessionTypeOK
    <3>2. state' \in [Instances -> {"new", "connected", "disconnecting"}]
      BY <2>1 DEF connack, SessionTypeOK
    <3> QED
      BY <2>1, <3>1, <3>2 DEF connack, lock_callback_mutex, SessionTypeOK
  <2>2. CASE connack_refused(i)
    BY <2>2, SocketCloseType
      DEF connack_refused, _mosquitto_loop_rc_handle, lock_callback_mutex, receives,
          broker, SessionTypeOK
  <2>3. CASE _mosquitto_handle_pubackcomp(i)
    <3>1. out_queue_len' \in [Instances -> 0..MaxUnacked]
      <4>1. out_queue_len[i] \in 0..MaxUnacked /\ out_queue_len[i] > 0
        BY <2>3 DEF _mosquitto_handle_pubackcomp, SessionTypeOK
      <4>2. out_queue_len[i] - 1 \in 0..MaxUnacked
        BY <4>1
      <4> QED
        BY <2>3, <4>2 DEF _mosquitto_handle_pubackcomp, SessionTypeOK
    <3> QED
      BY <2>3, <3>1 DEF _mosquitto_handle_pubackcomp, lock_callback_mutex, SessionTypeOK,
                        broker
  <2>4. CASE conn_lost(i)
    BY <2>4, SocketCloseType
      DEF conn_lost, _mosquitto_loop_rc_handle, lock_callback_mutex, receives,
          SessionTypeOK
  <2>5. CASE _mosquitto_check_keepalive(i)
    BY <2>5, SocketCloseType
      DEF _mosquitto_check_keepalive, _mosquitto_loop_rc_handle, lock_callback_mutex,
          SessionTypeOK
  <2>6. CASE _mosquitto_packet_write(i)
    <3>1. ASSUME out_packet' = [out_packet EXCEPT ![i] = <<>>],
                 asking' = [asking EXCEPT ![i] = TRUE],
                 UNCHANGED <<callback_mutex, sock, wire, owner, loop>>
          PROVE  SessionTypeOK'
      <4>1. out_packet' \in [Instances -> Seq({"CONNECT", "DISCONNECT"})]
        BY <3>1, QueueTypes DEF SessionTypeOK
      <4>2. asking' \in [Instances -> BOOLEAN]
        BY <3>1 DEF SessionTypeOK
      <4> QED
        BY <2>6, <3>1, <4>1, <4>2 DEF _mosquitto_packet_write, SessionTypeOK
    <3>2. ASSUME NEW k \in DOMAIN out_packet[i],
                 out_packet' = [out_packet EXCEPT ![i] = SubSeq(@, k + 1, Len(@))],
                 _mosquitto_socket_close(i),
                 callback_mutex' = [callback_mutex EXCEPT ![i] = TRUE],
                 loop' = IF callback_mutex[i] \/ out_queue_len[i] > 1
                         THEN [loop EXCEPT ![i] = "hung"] ELSE loop
          PROVE  SessionTypeOK'
      <4>1. out_packet' \in [Instances -> Seq({"CONNECT", "DISCONNECT"})]
        BY <3>2, QueueTypes DEF SessionTypeOK
      <4>2. callback_mutex' \in [Instances -> BOOLEAN]
        BY <3>2 DEF SessionTypeOK
      <4> QED
        BY <2>6, <3>2, <4>1, <4>2, SocketCloseType DEF _mosquitto_packet_write, SessionTypeOK
    <3> QED
      BY <2>6, <3>1, <3>2 DEF _mosquitto_packet_write
  <2>7. CASE loop_no_conn(i)
    BY <2>7 DEF loop_no_conn, loop_exit, broker, SessionTypeOK
  <2>8. CASE loop_wake_up(i)
    BY <2>8 DEF loop_wake_up, loop_exit, broker, SessionTypeOK
  <2>9. CASE _mosquitto_reconnect(i)
    BY <2>9, QueueTypes DEF _mosquitto_reconnect, broker, SessionTypeOK
  <2>10. CASE _mosquitto_socket_connect(i)
    <3>1. sock' \in [Instances -> BOOLEAN]
      BY <2>10 DEF _mosquitto_socket_connect, SessionTypeOK
    <3>2. out_packet' \in [Instances -> Seq({"CONNECT", "DISCONNECT"})]
      BY <2>10, QueueTypes DEF _mosquitto_socket_connect, SessionTypeOK
    <3> QED
      BY <2>10, <3>1, <3>2 DEF _mosquitto_socket_connect, SessionTypeOK, broker
  <2>11. CASE mqtt3_handle_connect(i)
    BY <2>11, QueueTypes DEF mqtt3_handle_connect, instances, SessionTypeOK
  <2>12. CASE instance_link_lost(i)
    BY <2>12, QueueTypes DEF instance_link_lost, instances, SessionTypeOK
  <2> QED
    BY <1>10, <2>1, <2>2, <2>3, <2>4, <2>5, <2>6, <2>7, <2>8, <2>9, <2>10, <2>11, <2>12
      DEF mosquitto_loop_forever
<1>11. CASE UNCHANGED sessionVars
  BY <1>11 DEF SessionTypeOK, sessionVars, instances, broker
<1> QED
  BY <1>1, <1>2, <1>3, <1>4, <1>5, <1>6, <1>7, <1>8, <1>9, <1>10, <1>11
    DEF SessionNext, Typed, Returning

-----------------------------------------------------------------------------
(* The control state.                                                      *)

\* A step of a thread at mosquitto_loop that opens no socket.
LEMMA SelectStep ==
    ASSUME SessionInv, NEW i \in Instances,
           loop[i] = "select",
           loop' = loop \/ loop' = [loop EXCEPT ![i] = "hung"],
           \A j \in Instances : sock'[j] => sock[j],
           UNCHANGED <<connected_flag, mosq, made, command, threaded>>
    PROVE  (NewestInstance /\ Threads /\ Sockets /\ FlagAndThread)'
<1>1. \A j \in Instances : loop'[j] = loop[j] \/ (j = i /\ loop'[j] = "hung")
  BY DEF SessionInv, SessionTypeOK
<1>2. NewestInstance' /\ FlagAndThread'
  BY DEF SessionInv, NewestInstance, FlagAndThread
<1>3. Threads'
  BY <1>1 DEF SessionInv, Threads
<1>4. Sockets'
  BY <1>1 DEF SessionInv, Sockets
<1> QED
  BY <1>2, <1>3, <1>4

\* Every step keeps the relation between the flag, the threads and the
\* sockets.
LEMMA ControlStep ==
    ASSUME SessionInv, [SessionNext]_sessionVars
    PROVE  (NewestInstance /\ Threads /\ Sockets /\ FlagAndThread)'
<1> USE SessionAssumption DEF SessionInv, Instances, NULL, Uninitialised
<1>1. CASE instance_connect
  BY <1>1
    DEF instance_connect, mosquitto_new, SessionTypeOK, NewestInstance, Threads, Sockets,
        FlagAndThread
<1>2. CASE instance_connect_fails
  <2>1. /\ made + 1 \in Instances
        /\ mosq' = made + 1
        /\ made' = made + 1
        /\ UNCHANGED <<connected_flag, command, threaded, loop>>
    BY <1>2, ConnectedInstance DEF instance_connect_fails, mosquitto_new
  <2>2. loop[made + 1] = "none" /\ ~threaded[made + 1]
    BY <2>1 DEF Threads, SessionTypeOK
  <2>3. \A i \in Instances : i # made + 1 => sock'[i] = sock[i]
    BY <1>2, <2>1 DEF instance_connect_fails, SessionTypeOK
  <2>4. NewestInstance'
    BY <1>2, <2>1 DEF NewestInstance, instance_connect_fails, mosquitto_new, SessionTypeOK
  <2>5. Threads'
    BY <2>1 DEF Threads, SessionTypeOK
  <2>6. Sockets'
    BY <2>1, <2>2, <2>3 DEF Sockets
  <2>7. FlagAndThread'
    BY <2>1, <2>2 DEF FlagAndThread
  <2> QED
    BY <2>4, <2>5, <2>6, <2>7
<1>3. CASE psn_connect_null
  BY <1>3
    DEF psn_connect_null, Restart, Fresh, SessionTypeOK, NewestInstance, Threads, Sockets,
        FlagAndThread
<1>4. CASE instance_publish
  BY <1>4
    DEF instance_publish, broker, SessionTypeOK, NewestInstance, Threads, Sockets,
        FlagAndThread
<1>5. CASE mosquitto_disconnect
  BY <1>5
    DEF mosquitto_disconnect, broker, SessionTypeOK, NewestInstance, Threads, Sockets,
        FlagAndThread
<1>6. CASE process_exit
  BY <1>6
    DEF process_exit, Restart, Fresh, SessionTypeOK, NewestInstance, Threads, Sockets,
        FlagAndThread
<1>7. CASE _mosquitto_send_disconnect
  BY <1>7
    DEF _mosquitto_send_disconnect, instances, broker, SessionTypeOK, NewestInstance,
        Threads, Sockets, FlagAndThread
<1>8. CASE _mosquitto_packet_queue
  BY <1>8
    DEF _mosquitto_packet_queue, broker, SessionTypeOK, NewestInstance, Threads, Sockets,
        FlagAndThread
<1>9. CASE mosquitto_loop_stop
  BY <1>9
    DEF mosquitto_loop_stop, broker, SessionTypeOK, NewestInstance, Threads, Sockets,
        FlagAndThread
<1>10. ASSUME NEW i \in Instances,
             mosquitto_loop_forever(i) \/ mqtt3_handle_connect(i) \/ instance_link_lost(i)
      PROVE  (NewestInstance /\ Threads /\ Sockets /\ FlagAndThread)'
  <2>1. CASE connack(i)
    BY <2>1, SelectStep DEF connack, lock_callback_mutex, receives
  <2>2. CASE connack_refused(i)
    BY <2>2, SelectStep, SocketCloseType
      DEF connack_refused, _mosquitto_loop_rc_handle, lock_callback_mutex, receives,
          broker
  <2>3. CASE _mosquitto_handle_pubackcomp(i)
    BY <2>3, SelectStep DEF _mosquitto_handle_pubackcomp, lock_callback_mutex, broker
  <2>4. CASE conn_lost(i)
    BY <2>4, SelectStep, SocketCloseType
      DEF conn_lost, _mosquitto_loop_rc_handle, lock_callback_mutex, receives
  <2>5. CASE _mosquitto_check_keepalive(i)
    BY <2>5, SelectStep, SocketCloseType
      DEF _mosquitto_check_keepalive, _mosquitto_loop_rc_handle, lock_callback_mutex
  <2>6. CASE _mosquitto_packet_write(i)
    BY <2>6, SelectStep, SocketCloseType DEF _mosquitto_packet_write
  <2>7. CASE loop_no_conn(i)
    BY <2>7
      DEF loop_no_conn, loop_exit, broker, SessionTypeOK, NewestInstance, Threads,
          Sockets, FlagAndThread
  <2>8. CASE loop_wake_up(i)
    BY <2>8
      DEF loop_wake_up, loop_exit, broker, SessionTypeOK, NewestInstance, Threads,
          Sockets, FlagAndThread
  <2>9. CASE _mosquitto_reconnect(i)
    BY <2>9
      DEF _mosquitto_reconnect, broker, SessionTypeOK, NewestInstance, Threads, Sockets,
          FlagAndThread
  <2>10. CASE _mosquitto_socket_connect(i)
    BY <2>10
      DEF _mosquitto_socket_connect, broker, SessionTypeOK, NewestInstance, Threads,
          Sockets, FlagAndThread
  <2>11. CASE mqtt3_handle_connect(i)
    BY <2>11
      DEF mqtt3_handle_connect, instances, SessionTypeOK, NewestInstance, Threads,
          Sockets, FlagAndThread
  <2>12. CASE instance_link_lost(i)
    BY <2>12
      DEF instance_link_lost, instances, SessionTypeOK, NewestInstance, Threads, Sockets,
          FlagAndThread
  <2> QED
    BY <1>10, <2>1, <2>2, <2>3, <2>4, <2>5, <2>6, <2>7, <2>8, <2>9, <2>10, <2>11, <2>12
      DEF mosquitto_loop_forever
<1>11. CASE UNCHANGED sessionVars
  BY <1>11
    DEF SessionTypeOK, NewestInstance, Threads, Sockets, FlagAndThread, sessionVars, instances,
        broker
<1> QED
  BY <1>1, <1>2, <1>3, <1>4, <1>5, <1>6, <1>7, <1>8, <1>9, <1>10, <1>11
    DEF SessionNext, Typed, Returning

-----------------------------------------------------------------------------
(* The theorems.                                                           *)

\* The invariant holds always, whatever the threads, the broker and the links
\* do.
THEOREM SessionInvariant == SessionSpec => []SessionInv
<1>1. SessionInit => SessionInv
  <2> SUFFICES ASSUME SessionInit
               PROVE  SessionInv
    OBVIOUS
  <2>1. <<>> \in Seq({"CONNECT", "DISCONNECT"}) /\ <<>> \in Seq({"CONNACK", "refused", "closed"})
    OBVIOUS
  <2>2. ASSUME NEW S, NEW v \in S
        PROVE  Fresh(v) \in [Instances -> S]
    BY DEF Fresh
  <2>3. 0 \in 0..MaxUnacked /\ 0 \in 0..MaxInstances
    BY SessionAssumption
  <2>4. SessionTypeOK
    BY <2>1, <2>2, <2>3 DEF SessionInit, SessionTypeOK
  <2>5. NewestInstance /\ Threads /\ Sockets /\ FlagAndThread
    BY DEF SessionInit, Fresh, Instances, NULL, Uninitialised, NewestInstance, Threads, Sockets,
           FlagAndThread
  <2> QED
    BY <2>4, <2>5 DEF SessionInv
<1>2. SessionInv /\ [SessionNext]_sessionVars => SessionInv'
  BY TypeStep, ControlStep DEF SessionInv
<1> QED
  BY <1>1, <1>2, PTL DEF SessionSpec

\* Every reachable state of a session is well typed; in particular
\* psn_disconnect and the publishes always have an instance to work on.
THEOREM SessionTypeCorrect == SessionSpec => []SessionTypeOK
<1>1. SessionInv => SessionTypeOK
  BY DEF SessionInv
<1> QED
  BY <1>1, SessionInvariant, PTL

\* When psn_disconnect has returned, the instance it was about has neither a
\* socket nor a loop thread.
THEOREM DisconnectCloses == SessionSpec => []DisconnectedMeansClosed
<1>1. SessionInv => DisconnectedMeansClosed
  BY DEF SessionInv, Threads, Sockets, FlagAndThread, DisconnectedMeansClosed
<1> QED
  BY <1>1, SessionInvariant, PTL

-----------------------------------------------------------------------------
(* The callback mutex that is left locked.                                 *)

DisconnectQueued(i) == \E k \in DOMAIN out_packet[i] : out_packet[i][k] = "DISCONNECT"

\* A DISCONNECT is queued once in the life of an instance, by the last call that
\* psn makes for it, and the mutex is locked when that packet is written.  So
\* nothing puts the state back to "disconnecting" when a reconnect has changed it.
LeakInv ==
    \A i \in Instances :
        /\ i > made => ~callback_mutex[i] /\ ~DisconnectQueued(i)
        /\ callback_mutex[i] \/ DisconnectQueued(i) =>
              ~(connected_flag /\ mosq = i) \/ command = "joining"
        /\ callback_mutex[i] /\ (sock[i] \/ loop[i] = "connecting") =>
              state[i] # "disconnecting"

\* A step of a loop thread, the broker or a link: it queues no DISCONNECT, it
\* locks the mutex only when it has written one and closed the socket, and it
\* opens no connection in the state "disconnecting".
LEMMA LeakFrame ==
    ASSUME LeakInv, UNCHANGED <<connected_flag, mosq, made, command>>,
           \A j \in Instances :
              /\ DisconnectQueued(j)' => DisconnectQueued(j)
              /\ callback_mutex'[j] /\ ~callback_mutex[j] =>
                    DisconnectQueued(j) /\ ~sock'[j] /\ loop'[j] # "connecting"
              /\ callback_mutex[j] /\ (sock'[j] \/ loop'[j] = "connecting") =>
                    \/ state'[j] # "disconnecting"
                    \/ state'[j] = state[j] /\ (sock[j] \/ loop[j] = "connecting")
    PROVE  LeakInv'
  BY DEF LeakInv

\* What is in a queue after some of it was written, or a CONNECT was added.
LEMMA QueuedAfter ==
    ASSUME NEW q \in Seq({"CONNECT", "DISCONNECT"})
    PROVE  /\ \A k \in DOMAIN q : \A l \in DOMAIN SubSeq(q, k + 1, Len(q)) :
                 \E m \in DOMAIN q : SubSeq(q, k + 1, Len(q))[l] = q[m]
           /\ \A l \in DOMAIN Append(q, "CONNECT") :
                 Append(q, "CONNECT")[l] = "DISCONNECT" => \E m \in DOMAIN q : q[m] = "DISCONNECT"
<1>1. ASSUME NEW k \in DOMAIN q, NEW l \in DOMAIN SubSeq(q, k + 1, Len(q))
      PROVE  \E m \in DOMAIN q : SubSeq(q, k + 1, Len(q))[l] = q[m]
  <2>1. k \in 1..Len(q) /\ Len(q) \in Nat /\ DOMAIN q = 1..Len(q)
    BY LenProperties
  <2>2. l \in 1..(Len(q) - k) /\ SubSeq(q, k + 1, Len(q))[l] = q[k + l]
    BY <2>1
  <2> QED
    BY <2>1, <2>2
<1>2. ASSUME NEW l \in DOMAIN Append(q, "CONNECT"), Append(q, "CONNECT")[l] = "DISCONNECT"
      PROVE  \E m \in DOMAIN q : q[m] = "DISCONNECT"
  <2>1. DOMAIN q = 1..Len(q) /\ Len(q) \in Nat /\ l \in 1..(Len(q) + 1)
    BY LenProperties
  <2>2. l # Len(q) + 1
    BY <1>2, <2>1
  <2> QED
    BY <1>2, <2>1, <2>2
<1> QED
  BY <1>1, <1>2

\* Every step keeps the mutex of an instance that is still in use unlocked.
LEMMA LeakStep ==
    ASSUME SessionInv, LeakInv, [SessionNext]_sessionVars
    PROVE  LeakInv'
<1> USE SessionAssumption DEF SessionInv
<1>1. CASE instance_connect
  <2>1. made + 1 \in Instances /\ mosq' = made + 1 /\ made' = made + 1
    BY <1>1, ConnectedInstance DEF instance_connect, mosquitto_new
  <2>2. \A j \in Instances : j # made + 1 => sock'[j] = sock[j] /\ loop'[j] = loop[j]
    BY <1>1, <2>1 DEF instance_connect, SessionTypeOK
  <2>3. ~callback_mutex[made + 1] /\ ~DisconnectQueued(made + 1)
    BY <2>1 DEF LeakInv, SessionTypeOK
  <2>4. \A j \in Instances : DisconnectQueued(j)' <=> DisconnectQueued(j)
    BY <1>1 DEF instance_connect, DisconnectQueued
  <2>5. UNCHANGED <<state, callback_mutex>> /\ made \in Int
    BY <1>1 DEF instance_connect, SessionTypeOK
  <2> QED
    BY <2>1, <2>2, <2>3, <2>4, <2>5 DEF LeakInv, Instances
<1>2. CASE instance_connect_fails
  <2>1. made + 1 \in Instances /\ mosq' = made + 1 /\ made' = made + 1
    BY <1>2, ConnectedInstance DEF instance_connect_fails, mosquitto_new
  <2>2. \A j \in Instances : j # made + 1 => sock'[j] = sock[j] /\ loop'[j] = loop[j]
    BY <1>2, <2>1 DEF instance_connect_fails, SessionTypeOK
  <2>3. ~callback_mutex[made + 1] /\ ~DisconnectQueued(made + 1)
    BY <2>1 DEF LeakInv, SessionTypeOK
  <2>4. \A j \in Instances : DisconnectQueued(j)' => DisconnectQueued(j)
    <3> SUFFICES ASSUME NEW j \in Instances, DisconnectQueued(j)'
                 PROVE  DisconnectQueued(j)
      OBVIOUS
    <3>1. out_packet'[j] = out_packet[j] \/ out_packet'[j] = <<"CONNECT">>
      BY <1>2, <2>1 DEF instance_connect_fails, SessionTypeOK
    <3> QED
      BY <3>1 DEF DisconnectQueued
  <2>5. UNCHANGED <<state, callback_mutex>> /\ made \in Int
    BY <1>2 DEF instance_connect_fails, SessionTypeOK
  <2> QED
    BY <2>1, <2>2, <2>3, <2>4, <2>5 DEF LeakInv, Instances
<1>3. CASE Restart
  <2>1. \A j \in Instances : callback_mutex'[j] = FALSE /\ out_packet'[j] = <<>>
    BY <1>3 DEF Restart, Fresh
  <2> QED
    BY <2>1 DEF LeakInv, DisconnectQueued
<1>4. CASE instance_publish
  BY <1>4 DEF instance_publish, LeakInv, DisconnectQueued
<1>5. CASE mosquitto_disconnect
  <2>1. \A j \in Instances : callback_mutex[j] => state'[j] = state[j]
    BY <1>5, ConnectedInstance DEF mosquitto_disconnect, LeakInv, SessionTypeOK
  <2>2. ~(callback_mutex[mosq] \/ DisconnectQueued(mosq))
    BY <1>5, ConnectedInstance DEF mosquitto_disconnect, LeakInv
  <2> QED
    BY <1>5, <2>1, <2>2 DEF mosquitto_disconnect, LeakInv, DisconnectQueued
<1>6. CASE _mosquitto_send_disconnect
  BY <1>6 DEF _mosquitto_send_disconnect, instances, LeakInv, DisconnectQueued
<1>7. CASE _mosquitto_packet_queue
  <2>1. \A j \in Instances : j # mosq => (DisconnectQueued(j)' <=> DisconnectQueued(j))
    BY <1>7 DEF _mosquitto_packet_queue, DisconnectQueued, SessionTypeOK
  <2>2. mosq \in Instances /\ ~(mosq > made)
    BY <1>7, ConnectedInstance
      DEF _mosquitto_packet_queue, NewestInstance, SessionTypeOK, Instances, Uninitialised
  <2> QED
    BY <1>7, <2>1, <2>2 DEF _mosquitto_packet_queue, LeakInv
<1>8. CASE mosquitto_loop_stop
  BY <1>8 DEF mosquitto_loop_stop, LeakInv, DisconnectQueued
<1>9. ASSUME NEW i \in Instances,
             mosquitto_loop_forever(i) \/ mqtt3_handle_connect(i) \/ instance_link_lost(i)
      PROVE  LeakInv'
  <2> USE LeakFrame DEF DisconnectQueued
  <2>1. CASE connack(i)
    BY <2>1 DEF connack, lock_callback_mutex, SessionTypeOK
  <2>2. CASE connack_refused(i)
    BY <2>2
      DEF connack_refused, _mosquitto_loop_rc_handle, _mosquitto_socket_close,
          lock_callback_mutex, broker, SessionTypeOK
  <2>3. CASE _mosquitto_handle_pubackcomp(i)
    BY <2>3 DEF _mosquitto_handle_pubackcomp, lock_callback_mutex, broker, SessionTypeOK
  <2>4. CASE conn_lost(i)
    BY <2>4
      DEF conn_lost, _mosquitto_loop_rc_handle, _mosquitto_socket_close,
          lock_callback_mutex, SessionTypeOK
  <2>5. CASE _mosquitto_check_keepalive(i)
    BY <2>5
      DEF _mosquitto_check_keepalive, _mosquitto_loop_rc_handle, _mosquitto_socket_close,
          lock_callback_mutex, SessionTypeOK
  <2>6. CASE _mosquitto_packet_write(i)
    <3>1. ASSUME out_packet' = [out_packet EXCEPT ![i] = <<>>],
                 UNCHANGED <<callback_mutex, sock, loop>>
          PROVE  LeakInv'
      BY <2>6, <3>1 DEF _mosquitto_packet_write, SessionTypeOK
    <3>2. ASSUME NEW k \in DOMAIN out_packet[i],
                 out_packet[i][k] = "DISCONNECT",
                 out_packet' = [out_packet EXCEPT ![i] = SubSeq(@, k + 1, Len(@))],
                 _mosquitto_socket_close(i),
                 callback_mutex' = [callback_mutex EXCEPT ![i] = TRUE],
                 loop' = IF callback_mutex[i] \/ out_queue_len[i] > 1
                         THEN [loop EXCEPT ![i] = "hung"] ELSE loop
          PROVE  LeakInv'
      <4>1. ~sock'[i] /\ loop'[i] # "connecting"
        BY <2>6, <3>2 DEF _mosquitto_packet_write, _mosquitto_socket_close, SessionTypeOK
      <4>2. \A j \in Instances : DisconnectQueued(j)' => DisconnectQueued(j)
        <5>1. out_packet[i] \in Seq({"CONNECT", "DISCONNECT"})
          BY DEF SessionTypeOK
        <5> QED
          BY <3>2, <5>1, QueuedAfter DEF SessionTypeOK
      <4>3. \A j \in Instances : j # i =>
               /\ callback_mutex'[j] = callback_mutex[j] /\ sock'[j] = sock[j]
               /\ loop'[j] = loop[j]
        BY <3>2 DEF _mosquitto_socket_close, SessionTypeOK
      <4>4. UNCHANGED <<connected_flag, mosq, made, command, state>>
        BY <2>6 DEF _mosquitto_packet_write
      <4> QED
        BY <3>2, <4>1, <4>2, <4>3, <4>4
    <3> QED
      BY <2>6, <3>1, <3>2 DEF _mosquitto_packet_write
  <2>7. CASE loop_no_conn(i)
    BY <2>7 DEF loop_no_conn, loop_exit, broker, SessionTypeOK
  <2>8. CASE loop_wake_up(i)
    BY <2>8 DEF loop_wake_up, loop_exit, broker, SessionTypeOK
  <2>9. CASE _mosquitto_reconnect(i)
    BY <2>9 DEF _mosquitto_reconnect, broker, SessionTypeOK
  <2>10. CASE _mosquitto_socket_connect(i)
    <3>1. out_packet[i] \in Seq({"CONNECT", "DISCONNECT"})
      BY DEF SessionTypeOK
    <3>2. \A j \in Instances : DisconnectQueued(j)' => DisconnectQueued(j)
      <4> SUFFICES ASSUME NEW j \in Instances, DisconnectQueued(j)'
                   PROVE  DisconnectQueued(j)
        OBVIOUS
      <4>1. CASE j = i
        <5>1. out_packet'[i] = Append(out_packet[i], "CONNECT") \/ out_packet'[i] = out_packet[i]
          BY <2>10 DEF _mosquitto_socket_connect, SessionTypeOK
        <5> QED
          BY <3>1, <4>1, <5>1, QueuedAfter
      <4>2. CASE j # i
        BY <2>10, <4>2 DEF _mosquitto_socket_connect, SessionTypeOK
      <4> QED
        BY <4>1, <4>2
    <3> QED
      BY <2>10, <3>2 DEF _mosquitto_socket_connect, broker, SessionTypeOK
  <2>11. CASE mqtt3_handle_connect(i)
    BY <2>11 DEF mqtt3_handle_connect, instances
  <2>12. CASE instance_link_lost(i)
    BY <2>12 DEF instance_link_lost, instances
  <2> QED
    BY <1>9, <2>1, <2>2, <2>3, <2>4, <2>5, <2>6, <2>7, <2>8, <2>9, <2>10, <2>11, <2>12
      DEF mosquitto_loop_forever
<1>10. CASE UNCHANGED sessionVars
  BY <1>10 DEF sessionVars, instances, broker, LeakInv, DisconnectQueued
<1> QED
  BY <1>1, <1>2, <1>3, <1>4, <1>5, <1>6, <1>7, <1>8, <1>9, <1>10
    DEF SessionNext, Typed, Returning, psn_connect_null, process_exit

\* A thread that has left its callback mutex locked has no connection on which a
\* callback would be due, unless the state that ends it was overwritten.
THEOREM LeakedMutex == SessionSpec => []LeakedMutexIsLast
<1>1. SessionInit => LeakInv
  <2> SUFFICES ASSUME SessionInit
               PROVE  LeakInv
    OBVIOUS
  <2>1. \A j \in Instances : callback_mutex[j] = FALSE /\ out_packet[j] = <<>>
    BY DEF SessionInit, Fresh
  <2> QED
    BY <2>1 DEF LeakInv, DisconnectQueued
<1>2. SessionInv /\ LeakInv /\ [SessionNext]_sessionVars => LeakInv'
  BY LeakStep
<1>3. LeakInv => LeakedMutexIsLast
  BY DEF LeakInv, LeakedMutexIsLast
<1> QED
  BY <1>1, <1>2, <1>3, SessionInvariant, PTL DEF SessionSpec
=============================================================================
