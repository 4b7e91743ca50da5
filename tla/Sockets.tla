------------------------------ MODULE Sockets -------------------------------
(***************************************************************************)
(* The descriptors and TLS objects of the client library (net_mosq.c,      *)
(* tls_mosq.c) and of the broker's listeners (net.c).                      *)
(*                                                                         *)
(* What the system calls will do is part of a world: the addresses a name  *)
(* resolves to, each with what becomes of an attempt to use it, and what   *)
(* is wrong with the TLS settings, NULL if nothing.  net holds             *)
(*   world     the world, NULL before the program starts                   *)
(*   open      the open descriptors; the lowest free number is taken next  *)
(*   twice     whether a descriptor was closed that was not open           *)
(*   broken    whether fcntl has failed                                    *)
(*   sock, sockpair, ssl, ssl_ctx  as in struct mosquitto; ssl is the      *)
(*             descriptor it works on, and ssl_ctx TRUE if there is one    *)
(*   shake     how far the TLS handshake is: "none", "pending" or "done"   *)
(*   inits     how often mosquitto_connect was called, tries the attempts  *)
(*   socks     the sockets of the listener, and secure whether it has a    *)
(*             TLS context                                                 *)
(*   username  what the handshake makes the name of the client             *)
(***************************************************************************)
EXTENDS Topics, FiniteSets

CONSTANTS
    Worlds,     \* the worlds: [addresses, client, peer, listener]
    lower,      \* each name in lower case
    inet_pton,  \* the address that a name denotes, NULL if it is no address
    MaxTries    \* bound on attempts to connect

\* What the settings and the system calls are made of.  Only settings that are
\* used can be wrong, and a server with certificates has one.
ASSUME WorldsAssumption ==
    /\ NULL \notin Nat \cup (Nat \X Nat)
    /\ \A world \in Worlds :
         /\ world.addresses \in Seq({"no socket", "bind", "refused", "fcntl", "ok"})
         /\ LET client == world.client
                peer == world.peer
            IN client # NULL =>
                 /\ client.psk \in Seq(STRING)
                 /\ \A n \in DOMAIN peer.psk_id : n \in Nat /\ peer.psk_id[n].psk \in Seq(STRING)
                 /\ Len(peer.chain) \in Nat /\ DOMAIN peer.chain = 1..Len(peer.chain)
                 /\ client.tls = "cert" => Len(peer.chain) > 0
                 /\ \A n \in DOMAIN peer.chain : \A san \in Range(peer.chain[n].san) :
                      san.type \in {"dns", "ip"} /\ DOMAIN san = {"type", "name"}
         /\ LET l == world.listener
            IN world.client = NULL /\ l.bad # NULL =>
                 \/ l.bad \in {"version", "ciphers"}
                 \/ l.bad \in {"ca", "cert", "key", "mismatch", "crl"} /\ l.ca /\ l.cert /\ l.key
                 \/ l.bad = "hint" /\ l.psk_hint # NULL /\ ~(l.ca /\ l.cert /\ l.key)

VARIABLE net

NetInit ==
    net = [world |-> NULL, open |-> {}, twice |-> FALSE, broken |-> FALSE, sock |-> NULL, sockpair |-> NULL,
           ssl |-> NULL, ssl_ctx |-> FALSE, shake |-> "none", inits |-> 0, tries |-> 0, socks |-> NULL,
           secure |-> FALSE, username |-> NULL, pc |-> "off"]

-----------------------------------------------------------------------------
(* Descriptors.                                                            *)

free_fd(n) == CHOOSE fd \in 1..(Cardinality(n.open) + 1) :
                fd \notin n.open /\ \A lower_fd \in 1..(fd - 1) : lower_fd \in n.open

socket(n) == [n EXCEPT !.open = @ \cup {free_fd(n)}]

COMPAT_CLOSE(n, fd) == [n EXCEPT !.open = @ \ {fd}, !.twice = @ \/ fd \notin n.open]

\* If fcntl fails the descriptor is closed here, and by some callers once more.
_mosquitto_socket_nonblock(n, fd) == [COMPAT_CLOSE(n, fd) EXCEPT !.broken = TRUE]

\* Two descriptors, or none.
_mosquitto_socketpair(n, outcome) ==
    LET r == free_fd(n)
        w == free_fd(socket(n))
        both == socket(socket(n))
    IN CASE outcome = "ok" -> [both EXCEPT !.sockpair = <<r, w>>]
         [] outcome = "fcntl" -> COMPAT_CLOSE(COMPAT_CLOSE(_mosquitto_socket_nonblock(both, r), r), w)
         [] OTHER -> n

_mosquitto_socket_close(n) ==
    LET plain == [n EXCEPT !.ssl = NULL, !.ssl_ctx = FALSE, !.shake = "none"]
    IN IF n.sock = NULL THEN plain ELSE [COMPAT_CLOSE(plain, n.sock) EXCEPT !.sock = NULL]

-----------------------------------------------------------------------------
(* The peer.                                                               *)

strcasecmp(a, b) == lower[a] = lower[b]

\* Mutant of _mosquitto_verify_certificate_hostname: the common name always does.
_mosquitto_verify_certificate_hostname_by_cn(cert, hostname) ==
    \/ \E n \in DOMAIN cert.san : cert.san[n].type = "dns" /\ strcasecmp(cert.san[n].name, hostname)
    \/ cert.cn # NULL /\ strcasecmp(cert.cn, hostname)

\* The names are gone through in turn; one that fits ends the search.
_mosquitto_verify_certificate_hostname(cert, hostname) ==
    LET fits(nval) == IF nval.type = "dns" THEN strcasecmp(nval.name, hostname)
                      ELSE inet_pton[hostname] # NULL /\ nval.name = inet_pton[hostname]
        have_san_dns == \E n \in DOMAIN cert.san : cert.san[n].type = "dns"
    IN \/ \E n \in DOMAIN cert.san : fits(cert.san[n])
       \/ ~have_san_dns /\ cert.cn # NULL /\ strcasecmp(cert.cn, hostname)

\* Asked about every certificate of the chain; the name counts for the first only.
_mosquitto_server_certificate_verify(client, chain, depth) ==
    /\ chain[depth + 1].preverify_ok
    /\ ~client.tls_insecure /\ depth = 0 => _mosquitto_verify_certificate_hostname(chain[depth + 1], client.host)

\* A number in hexadecimal as bytes, if they have room: zeros in front are lost.
_mosquitto_hex2bin(hex) ==
    LET digits == {k \in DOMAIN hex : hex[k] # "0"}
    IN IF digits = {} THEN <<>> ELSE SubSeq(hex, CHOOSE k \in digits : \A j \in digits : k <= j, Len(hex))

psk_client_callback(client) == [identity |-> client.identity, psk |-> _mosquitto_hex2bin(client.psk)]

\* The key of the first line of the identity, nothing if there is none.
mosquitto_psk_key_get(psk_id, identity) ==
    LET lines == {k \in DOMAIN psk_id : psk_id[k].identity = identity}
    IN IF lines = {} THEN <<>> ELSE psk_id[Min(lines)].psk

psk_server_callback(psk_id, identity) == _mosquitto_hex2bin(mosquitto_psk_key_get(psk_id, identity))

\* What SSL_connect makes of the peer.
accepted(client, peer) ==
    IF client.tls = "psk"
    THEN LET mine == psk_client_callback(client)
         IN mine.psk # <<>> /\ mine.psk = psk_server_callback(peer.psk_id, mine.identity)
    ELSE ~client.verify \/ \A depth \in 0..(Len(peer.chain) - 1) : _mosquitto_server_certificate_verify(client, peer.chain, depth)

-----------------------------------------------------------------------------
(* The client.                                                             *)

\* The addresses in turn until one can be connected to.
_mosquitto_try_connect(n, addresses) ==
    LET step(s, outcome) ==
          LET fd == free_fd(s.n)
              opened == socket(s.n)
          IN CASE s.sock # NULL \/ outcome = "no socket" -> s
               [] s.sock = NULL /\ outcome \in {"bind", "refused"} -> [s EXCEPT !.n = COMPAT_CLOSE(opened, fd)]
               [] s.sock = NULL /\ outcome = "fcntl" -> [s EXCEPT !.n = COMPAT_CLOSE(_mosquitto_socket_nonblock(opened, fd), fd)]
               [] s.sock = NULL /\ outcome = "ok" -> [n |-> opened, sock |-> fd]
    IN FoldLeft(step, [n |-> n, sock |-> NULL], addresses)

\* Mutant of _mosquitto_socket_connect: a TLS failure leaves the socket open.
_mosquitto_socket_connect_leaks(n) ==
    LET tried == _mosquitto_try_connect(n, n.world.addresses)
        client == n.world.client
    IN CASE tried.sock = NULL -> {tried.n}
         [] tried.sock # NULL /\ client.tls = "none" -> {[tried.n EXCEPT !.sock = tried.sock]}
         [] OTHER -> {tried.n}

\* The settings are put into a context, which stays when one of them is wrong, as
\* does the connection's own object when the handshake fails.  The handshake may
\* also go on later.
_mosquitto_socket_connect(n) ==
    LET tried == _mosquitto_try_connect(n, n.world.addresses)
        client == n.world.client
        closed == COMPAT_CLOSE(tried.n, tried.sock)
        shaking == [tried.n EXCEPT !.ssl_ctx = TRUE, !.ssl = tried.sock, !.sock = tried.sock]
        done == IF accepted(client, n.world.peer) THEN {[shaking EXCEPT !.shake = "done"]} ELSE {}
        secure == tried.sock # NULL /\ client.tls # "none"
    IN CASE tried.sock = NULL -> {tried.n}
         [] tried.sock # NULL /\ client.tls = "none" -> {[tried.n EXCEPT !.sock = tried.sock]}
         [] secure /\ client.bad = "version" -> {closed}
         [] secure /\ client.bad \notin {NULL, "version"} -> {[closed EXCEPT !.ssl_ctx = TRUE]}
         [] secure /\ client.bad = NULL -> done \cup {[shaking EXCEPT !.shake = "pending"], [closed EXCEPT !.ssl_ctx = TRUE, !.ssl = tried.sock]}

NetStart ==
    /\ net.pc = "off" /\ net.world = NULL
    /\ \E world \in Worlds : net' = [net EXCEPT !.world = world, !.pc = IF world.client = NULL THEN "listen" ELSE "new"]

\* mosquitto_connect, called while there is no connection (a call while there is
\* one forgets its descriptor): the pair of the call before is forgotten.
NetConnect ==
    /\ net.pc = "new" /\ net.sock = NULL /\ net.tries < MaxTries
    /\ \E outcome \in {"ok", "none", "fcntl"} :
         LET paired == _mosquitto_socketpair([net EXCEPT !.inits = @ + 1, !.tries = @ + 1], outcome)
         IN net' \in _mosquitto_socket_connect(paired)

\* mosquitto_reconnect, when the loop has closed the socket.
NetReconnect ==
    /\ net.pc = "new" /\ net.inits > 0 /\ net.sock = NULL /\ net.tries < MaxTries
    /\ net' \in _mosquitto_socket_connect([net EXCEPT !.tries = @ + 1])

\* The handshake ends within a read or write.
NetHandshake ==
    /\ net.shake = "pending"
    /\ net' = IF accepted(net.world.client, net.world.peer) THEN [net EXCEPT !.shake = "done"] ELSE _mosquitto_socket_close(net)

\* The connection is lost, or the client disconnects.
NetLose == net.pc = "new" /\ net.sock # NULL /\ net' = _mosquitto_socket_close(net)

_mosquitto_destroy ==
    LET closed == IF net.sock = NULL THEN net ELSE _mosquitto_socket_close(net)
        unpaired == IF closed.sockpair = NULL THEN closed
                    ELSE [COMPAT_CLOSE(COMPAT_CLOSE(closed, closed.sockpair[1]), closed.sockpair[2]) EXCEPT !.sockpair = NULL]
    IN net.pc = "new" /\ net' = [unpaired EXCEPT !.pc = "gone", !.ssl = NULL, !.ssl_ctx = FALSE]

-----------------------------------------------------------------------------
(* The listener.                                                           *)

\* Every address gets a socket; the first that cannot be used ends it.
open_sockets(n, addresses) ==
    LET step(s, outcome) ==
          LET fd == free_fd(s.n)
              opened == socket(s.n)
          IN CASE s.rc = 1 \/ outcome = "no socket" -> s
               [] s.rc = 0 /\ outcome \in {"bind", "refused"} -> [rc |-> 1, n |-> COMPAT_CLOSE(opened, fd)]
               [] s.rc = 0 /\ outcome = "fcntl" -> [rc |-> 1, n |-> _mosquitto_socket_nonblock(opened, fd)]
               [] s.rc = 0 /\ outcome = "ok" -> [rc |-> 0, n |-> [opened EXCEPT !.socks = Append(@, fd)]]
    IN FoldLeft(step, [rc |-> 0, n |-> [n EXCEPT !.socks = <<>>]], addresses)

\* Certificates count only if all three settings are there.
listen_tls(listener) ==
    LET certs == listener.ca /\ listener.cert /\ listener.key
        wrong == IF certs THEN {"version", "ciphers", "ca", "cert", "key", "mismatch", "crl"} ELSE {"version", "hint", "ciphers"}
    IN [rc |-> IF (certs \/ listener.psk_hint # NULL) /\ listener.bad \in wrong THEN 1 ELSE 0,
        secure |-> (certs \/ listener.psk_hint # NULL) /\ listener.bad \notin wrong]

\* A failure ends the broker, and its descriptors with it.
mqtt3_socket_listen ==
    LET sockets == open_sockets(net, net.world.addresses)
        tls == listen_tls(net.world.listener)
    IN /\ net.pc = "listen"
       /\ net' = IF sockets.rc = 1 \/ sockets.n.socks = <<>> \/ tls.rc = 1 THEN [net EXCEPT !.pc = "gone"]
                 ELSE [sockets.n EXCEPT !.secure = tls.secure, !.pc = "listening"]

\* A client has shown that it knows the key of an identity.
PskAccept ==
    /\ net.pc = "listening" /\ net.secure /\ net.world.listener.psk_hint # NULL /\ net.username = NULL
    /\ \E n \in DOMAIN net.world.listener.psk_id :
         LET identity == net.world.listener.psk_id[n].identity
         IN /\ psk_server_callback(net.world.listener.psk_id, identity) # <<>>
            /\ net.world.listener.use_identity_as_username
            /\ net' = [net EXCEPT !.username = identity]

NetNext == NetStart \/ NetConnect \/ NetReconnect \/ NetHandshake \/ NetLose \/ _mosquitto_destroy \/ mqtt3_socket_listen \/ PskAccept

NetSpec == NetInit /\ [][NetNext]_net

-----------------------------------------------------------------------------
(* Properties.                                                             *)

\* The descriptors that a client has open are its socket and its socket pair,
\* through every failure of _mosquitto_try_connect and _mosquitto_socket_connect
\* and every reconnection; the pairs of earlier calls of mosquitto_connect are
\* lost (lib/mosquitto.c:416), two descriptors for each.  No descriptor is closed
\* that is not open: it could be another thread's by then.  A failing fcntl breaks
\* this (_mosquitto_socket_nonblock closes, and so do its callers).
DescriptorsBelong ==
    LET mine == (IF net.sock = NULL THEN {} ELSE {net.sock}) \cup (IF net.sockpair = NULL THEN {} ELSE ToSet(net.sockpair))
    IN ~net.broken =>
         /\ ~net.twice
         /\ net.pc \in {"new", "gone"} /\ net.world # NULL /\ net.world.client # NULL =>
              mine \subseteq net.open /\ (net.inits <= 1 => net.open = mine)

\* Whoever the client exchanges data with has shown who it is: with certificates
\* the peer's is valid up to the root and bears the name the client asked for, as
\* a DNS name or address among its alternative names or, if it lists no DNS name,
\* as its common name; with pre-shared keys it has the same number as key.
TrustedPeer ==
    LET client == net.world.client
        peer == net.world.peer
        same_number(a, b) == \E k \in 0..Len(a) + Len(b) : LET zeros == [m \in 1..k |-> "0"] IN a = zeros \o b \/ b = zeros \o a
        bears(cert) == \/ [type |-> "dns", name |-> lower[client.host]] \in 
                              {[v EXCEPT !.name = lower[@]] : v \in {w \in ToSet(cert.san) : w.type = "dns"}}
                       \/ inet_pton[client.host] # NULL /\ inet_pton[client.host] \in {v.name : v \in {w \in ToSet(cert.san) : w.type = "ip"}}
                       \/ lower[client.host] = lower[cert.cn] /\ \A v \in ToSet(cert.san) : v.type = "ip"
    IN net.shake = "done" =>
         /\ net.sock # NULL /\ net.ssl = net.sock
         /\ client.tls = "cert" /\ client.verify /\ ~client.tls_insecure =>
              bears(peer.chain[1]) /\ \A n \in DOMAIN peer.chain : peer.chain[n].preverify_ok
         /\ client.tls = "psk" => \E n \in DOMAIN peer.psk_id : peer.psk_id[n].identity = client.identity /\ same_number(peer.psk_id[n].psk, client.psk)

\* A listener that is up has only sockets that are open, at least one, and uses
\* TLS whenever its settings are complete: mqtt3_socket_listen in net.c.
ListenerIsUp ==
    net.pc = "listening" =>
      /\ net.socks # <<>> /\ ToSet(net.socks) = net.open
      /\ LET l == net.world.listener IN (l.ca /\ l.cert /\ l.key) \/ l.psk_hint # NULL => net.secure /\ l.bad = NULL

\* No end of a connection falls back to less than its TLS settings ask for, whatever
\* fails on the way (tls_mosq.c, net.c).
NothingInClear == TrustedPeer /\ ListenerIsUp
=============================================================================
