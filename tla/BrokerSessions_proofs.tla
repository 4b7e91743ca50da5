------------------------ MODULE BrokerSessions_proofs -----------------------
(***************************************************************************)
(* The broker from one step of the main loop to the next: every packet,    *)
(* the end of a connection, a new one, a reload and the rest of a pass     *)
(* keep what one structure of the broker says of another, and no will of a *)
(* connection that said goodbye is published.                              *)
(***************************************************************************)
EXTENDS BrokerDb_proofs

-----------------------------------------------------------------------------
(* How the structures of the broker are linked.                            *)

\* Context e is context c, or what is left of it when the connection is gone.
Calmed(c, e) ==
    /\ c = NULL <=> e = NULL
    /\ c # NULL =>
         /\ e.id = c.id /\ e.acl_list = c.acl_list
         /\ \/ e.sock = c.sock /\ e.state = c.state /\ e.will = c.will
            \/ e.sock = NULL /\ e.will = NULL /\ e.state \in {c.state, "disconnecting"}

Named(d, j) == j \in Slots /\ d.contexts[j] # NULL /\ d.contexts[j].id # NULL

\* Context j has a will that is to be published when its connection ends.
Willing(d, j) ==
    /\ j \in Slots /\ d.contexts[j] # NULL /\ d.contexts[j].will # NULL
    /\ d.contexts[j].state # "disconnecting"

Gone(d, j) == d.contexts[j] # NULL => d.contexts[j].sock = NULL

\* Database e comes from d by what packets do that are not a CONNECT: connections
\* may end, clients with an id may subscribe, and bodies are stored whose payloads
\* are in P, or are those of the wills of connections that have ended.
Ends(d, e, P) ==
    /\ e.cih = d.cih /\ e.acl_list = d.acl_list /\ e.config = d.config
    /\ \A j \in Slots : Calmed(d.contexts[j], e.contexts[j])
    /\ \A j \in Members(e.subs) : j \in Members(d.subs) \/ Named(d, j)
    /\ DOMAIN d.store \subseteq DOMAIN e.store
    /\ \A s \in DOMAIN d.store : e.store[s].payload = d.store[s].payload
    /\ \A s \in DOMAIN e.store \ DOMAIN d.store :
         \/ e.store[s].payload \in P
         \/ \E j \in Slots : /\ Willing(d, j) /\ Gone(e, j)
                             /\ e.store[s].payload = d.contexts[j].will.payload

\* A change of the store alone ends no session wrongly.
LEMMA StoredEnds ==
    ASSUME NEW d, NEW e, NEW P, Stored(d, e, P)
    PROVE  Ends(d, e, P)
<1>1. \A j \in Slots : Calmed(d.contexts[j], e.contexts[j])
    BY DEF Stored, SamePerson, Calmed
<1> QED BY <1>1 DEF Stored, Ends

\* A step within the frame ends no session wrongly.
LEMMA FrameEnds ==
    ASSUME NEW d, NEW e, NEW P, Frame(d, e)
    PROVE  Ends(d, e, P)
BY FrameStored, StoredEnds

\* No change ends no session wrongly.
LEMMA EndsReflexive ==
    ASSUME NEW d, NEW P
    PROVE  Ends(d, d, P)
BY FrameReflexive, FrameEnds

\* A context that calmed down twice calmed down.
LEMMA CalmedTransitive ==
    ASSUME NEW a, NEW b, NEW c, Calmed(a, b), Calmed(b, c)
    PROVE  Calmed(a, c)
BY DEF Calmed

\* Two steps that end sessions are one.
LEMMA EndsTransitive ==
    ASSUME NEW d, NEW e, NEW f, NEW P, Ends(d, e, P), Ends(e, f, P)
    PROVE  Ends(d, f, P)
<1>1. /\ e.cih = d.cih /\ e.acl_list = d.acl_list /\ e.config = d.config
      /\ f.cih = e.cih /\ f.acl_list = e.acl_list /\ f.config = e.config
      /\ DOMAIN d.store \subseteq DOMAIN e.store /\ DOMAIN e.store \subseteq DOMAIN f.store
      /\ \A s \in DOMAIN d.store : e.store[s].payload = d.store[s].payload
      /\ \A s \in DOMAIN e.store : f.store[s].payload = e.store[s].payload
    BY DEF Ends
<1>2. \A j \in Slots : Calmed(d.contexts[j], e.contexts[j]) /\ Calmed(e.contexts[j], f.contexts[j])
    BY DEF Ends
<1>3. \A j \in Slots : Calmed(d.contexts[j], f.contexts[j])
    BY <1>2, CalmedTransitive
<1>4. ASSUME NEW j, Named(e, j) PROVE Named(d, j)
    BY <1>2, <1>4 DEF Named, Calmed
<1>5. \A j \in Members(f.subs) : j \in Members(d.subs) \/ Named(d, j)
    BY <1>4 DEF Ends
<1>6. ASSUME NEW s \in DOMAIN f.store \ DOMAIN d.store
      PROVE  \/ f.store[s].payload \in P
             \/ \E j \in Slots : /\ Willing(d, j) /\ Gone(f, j)
                                 /\ f.store[s].payload = d.contexts[j].will.payload
    <2>1. CASE s \in DOMAIN e.store
        <3>1. f.store[s].payload = e.store[s].payload
            BY <1>1, <2>1
        <3>2. CASE e.store[s].payload \in P
            BY <3>1, <3>2
        <3>3. CASE e.store[s].payload \notin P
            <4>1. PICK j \in Slots : /\ Willing(d, j) /\ Gone(e, j)
                                     /\ e.store[s].payload = d.contexts[j].will.payload
                BY <2>1, <3>3 DEF Ends
            <4>2. Gone(f, j)
                BY <1>2, <4>1 DEF Gone, Calmed
            <4> QED BY <3>1, <4>1, <4>2
        <3> QED BY <3>2, <3>3
    <2>2. CASE s \notin DOMAIN e.store /\ f.store[s].payload \notin P
        <3>1. PICK j \in Slots : /\ Willing(e, j) /\ Gone(f, j)
                                 /\ f.store[s].payload = e.contexts[j].will.payload
            BY <2>2 DEF Ends
        <3>2. Willing(d, j) /\ d.contexts[j].will = e.contexts[j].will
            BY <1>2, <3>1 DEF Willing, Calmed
        <3> QED BY <3>1, <3>2
    <2> QED BY <2>1, <2>2
<1>7. \A s \in DOMAIN d.store : f.store[s].payload = d.store[s].payload
    BY <1>1
<1> QED BY <1>1, <1>3, <1>5, <1>6, <1>7 DEF Ends

\* Client ids lead to contexts, contexts to entries of the access list; contexts with
\* subscriptions have an id, save for those in X.
Linked(d, X) ==
    /\ \A id \in DOMAIN d.cih : /\ id # NULL /\ d.cih[id] \in Slots
                                /\ d.contexts[d.cih[id]] # NULL /\ d.contexts[d.cih[id]].id = id
    /\ \A i \in Slots : d.contexts[i] # NULL /\ d.contexts[i].id # NULL =>
                           d.contexts[i].id \in DOMAIN d.cih /\ d.cih[d.contexts[i].id] = i
    /\ \A i \in Members(d.subs) \ X : d.contexts[i] # NULL => d.contexts[i].id # NULL
    /\ \E S : d.acl_list \in Seq(S)
    /\ \A i \in Slots : d.contexts[i] # NULL => d.contexts[i].acl_list \in 0..Len(d.acl_list)

\* A connection without an id is one that has not sent its CONNECT, save for those of
\* the contexts in X.
Staged(d, X) ==
    \A i \in Slots \ X : d.contexts[i] # NULL /\ d.contexts[i].sock # NULL =>
                            (d.contexts[i].state = "new" <=> d.contexts[i].id = NULL)

\* Steps that end sessions keep the index of client ids and the contexts in agreement.
LEMMA EndsLinked ==
    ASSUME NEW d, NEW e, NEW P, Ends(d, e, P), Linked(d, {})
    PROVE  Linked(e, {})
<1>1. /\ e.cih = d.cih /\ e.acl_list = d.acl_list
      /\ \A j \in Slots : Calmed(d.contexts[j], e.contexts[j])
      /\ \A j \in Members(e.subs) : j \in Members(d.subs) \/ Named(d, j)
    BY DEF Ends
<1>2. \A j \in Slots : /\ e.contexts[j] = NULL <=> d.contexts[j] = NULL
                       /\ e.contexts[j] # NULL => /\ e.contexts[j].id = d.contexts[j].id
                                                 /\ e.contexts[j].acl_list = d.contexts[j].acl_list
    BY <1>1 DEF Calmed
<1>3. \A j \in Slots : e.contexts[j] # NULL => d.contexts[j] # NULL
    BY <1>2
<1>4. ASSUME NEW j \in Members(e.subs), e.contexts[j] # NULL PROVE e.contexts[j].id # NULL
    <2>1. j \in Slots /\ d.contexts[j] # NULL /\ e.contexts[j].id = d.contexts[j].id
        BY <1>2, <1>4 DEF Members
    <2>2. j \in Members(d.subs) => d.contexts[j].id # NULL
        BY <2>1 DEF Linked
    <2> QED BY <1>1, <2>1, <2>2 DEF Named
<1> QED BY <1>1, <1>2, <1>4 DEF Linked

\* ... keep the connection state and the socket in agreement, once the sockets named are gone,
LEMMA EndsStaged ==
    ASSUME NEW d, NEW e, NEW P, Ends(d, e, P), NEW X, Staged(d, X), \A i \in X : Gone(e, i)
    PROVE  Staged(e, {})
<1>1. \A j \in Slots : Calmed(d.contexts[j], e.contexts[j])
    BY DEF Ends
<1>2. ASSUME NEW i \in Slots, e.contexts[i] # NULL, e.contexts[i].sock # NULL
      PROVE  e.contexts[i].state = "new" <=> e.contexts[i].id = NULL
    <2>1. i \notin X
        BY <1>2 DEF Gone
    <2>2. /\ d.contexts[i] # NULL /\ d.contexts[i].sock # NULL
          /\ e.contexts[i].state = d.contexts[i].state /\ e.contexts[i].id = d.contexts[i].id
        BY <1>1, <1>2 DEF Calmed
    <2> QED BY <2>1, <2>2 DEF Staged
<1> QED BY <1>2 DEF Staged

-----------------------------------------------------------------------------
(* Whose will is where.                                                    *)

\* The payloads of the wills that connection c may have, and those of messages; "traffic"
\* is what each connection may send.
WillsOf(traffic, c) == {p.will.payload : p \in {q \in traffic[c] : q.type = "CONNECT" /\ q.will # NULL}}

Plain(traffic) == {""} \cup {p.payload : p \in {q \in UNION {traffic[c] : c \in Conns} : q.type = "PUBLISH"}}

\* No context has connection c.
Closed(d, c) == \A i \in Slots : d.contexts[i] # NULL => d.contexts[i].sock # c

\* The first n connections have been made.  The will of a context is one its
\* connection may send, and goes with the connection; no two contexts have the same
\* connection.  A body with the payload of a will has it from a connection that is
\* closed, and so has every will in G, of which there is no body.
Willed(d, G, n, traffic) ==
    /\ \A i \in Slots : d.contexts[i] # NULL /\ d.contexts[i].sock # NULL =>
         /\ d.contexts[i].sock \in 1..n /\ d.contexts[i].state # "disconnecting"
         /\ d.contexts[i].state = "new" => d.contexts[i].will = NULL
         /\ d.contexts[i].will # NULL =>
              d.contexts[i].will.payload \in WillsOf(traffic, d.contexts[i].sock)
    /\ \A i, j \in Slots : d.contexts[i] # NULL /\ d.contexts[j] # NULL =>
         d.contexts[i].sock # d.contexts[j].sock \/ i = j \/ d.contexts[i].sock = NULL
    /\ \A i \in Slots : Willing(d, i) => d.contexts[i].sock # NULL
    /\ \A s \in DOMAIN d.store :
         \/ d.store[s].payload \in Plain(traffic)
         \/ \E c \in 1..n : d.store[s].payload \in WillsOf(traffic, c) /\ Closed(d, c)
    /\ \A will \in G \ {NULL} :
         /\ \E c \in 1..n : will.payload \in WillsOf(traffic, c) /\ Closed(d, c)
         /\ \A s \in DOMAIN d.store : d.store[s].payload # will.payload

\* No two connections have the same will, and no message its payload.
Apart(traffic, n) ==
    /\ \A c \in 1..n : WillsOf(traffic, c) \cap Plain(traffic) = {}
    /\ \A b, c \in 1..n : b # c => WillsOf(traffic, b) \cap WillsOf(traffic, c) = {}

\* ... and keep the wills those of sessions that still may need them.
LEMMA EndsWilled ==
    ASSUME NEW d, NEW e, NEW traffic, Ends(d, e, Plain(traffic)), NEW G, NEW n, Willed(d, G, n, traffic),
           Apart(traffic, n)
    PROVE  Willed(e, G, n, traffic)
<1>1. \A j \in Slots : Calmed(d.contexts[j], e.contexts[j])
    BY DEF Ends
<1>2. ASSUME NEW i \in Slots, e.contexts[i] # NULL, e.contexts[i].sock # NULL
      PROVE  /\ d.contexts[i] # NULL /\ e.contexts[i].sock = d.contexts[i].sock
             /\ e.contexts[i].state = d.contexts[i].state /\ e.contexts[i].will = d.contexts[i].will
    BY <1>1, <1>2 DEF Calmed
<1>3. ASSUME NEW i \in Slots, e.contexts[i] # NULL, e.contexts[i].sock # NULL
      PROVE  /\ e.contexts[i].sock \in 1..n /\ e.contexts[i].state # "disconnecting"
             /\ e.contexts[i].state = "new" => e.contexts[i].will = NULL
             /\ e.contexts[i].will # NULL =>
                  e.contexts[i].will.payload \in WillsOf(traffic, e.contexts[i].sock)
    BY <1>2, <1>3 DEF Willed
<1>4. ASSUME NEW i \in Slots, NEW j \in Slots, e.contexts[i] # NULL, e.contexts[j] # NULL,
             e.contexts[i].sock = e.contexts[j].sock, e.contexts[i].sock # NULL
      PROVE  i = j
    BY <1>2, <1>4 DEF Willed
<1>5. ASSUME NEW i \in Slots, Willing(e, i) PROVE e.contexts[i].sock # NULL
    <2>1. Calmed(d.contexts[i], e.contexts[i]) /\ e.contexts[i] # NULL /\ e.contexts[i].will # NULL /\ e.contexts[i].state # "disconnecting"
        BY <1>1, <1>5 DEF Willing
    <2>2. /\ d.contexts[i] # NULL /\ e.contexts[i].sock = d.contexts[i].sock
          /\ e.contexts[i].state = d.contexts[i].state /\ e.contexts[i].will = d.contexts[i].will
        BY <2>1 DEF Calmed
    <2>3. Willing(d, i)
        BY <2>1, <2>2 DEF Willing
    <2> QED BY <2>2, <2>3 DEF Willed
<1>6. ASSUME NEW c, c # NULL, Closed(d, c) PROVE Closed(e, c)
    BY <1>2, <1>6 DEF Closed
<1>7. ASSUME NEW j \in Slots, Willing(d, j), Gone(e, j)
      PROVE  /\ d.contexts[j].sock \in 1..n /\ ~Closed(d, d.contexts[j].sock)
             /\ d.contexts[j].will.payload \in WillsOf(traffic, d.contexts[j].sock)
             /\ Closed(e, d.contexts[j].sock)
    <2>1. d.contexts[j] # NULL /\ d.contexts[j].sock # NULL /\ d.contexts[j].will # NULL
        BY <1>7 DEF Willed, Willing
    <2>2. /\ d.contexts[j].sock \in 1..n
          /\ d.contexts[j].will.payload \in WillsOf(traffic, d.contexts[j].sock)
        BY <2>1 DEF Willed
    <2>3. ~Closed(d, d.contexts[j].sock)
        BY <2>1 DEF Closed
    <2>4. ASSUME NEW i \in Slots, e.contexts[i] # NULL, e.contexts[i].sock = d.contexts[j].sock
          PROVE  FALSE
        <3>1. d.contexts[i] # NULL /\ d.contexts[i].sock = d.contexts[j].sock
            BY <1>2, <2>1, <2>4
        <3>2. i = j
            BY <2>1, <3>1 DEF Willed
        <3> QED BY <1>7, <2>1, <2>4, <3>2 DEF Gone
    <2> QED BY <2>2, <2>3, <2>4 DEF Closed
<1>8. ASSUME NEW s \in DOMAIN e.store
      PROVE  \/ e.store[s].payload \in Plain(traffic)
             \/ \E c \in 1..n : e.store[s].payload \in WillsOf(traffic, c) /\ Closed(e, c)
    <2>1. CASE s \in DOMAIN d.store
        <3>1. e.store[s].payload = d.store[s].payload
            BY <2>1 DEF Ends
        <3>2. \A c \in 1..n : c # NULL
            BY NullAssumption
        <3> QED BY <1>6, <2>1, <3>1, <3>2 DEF Willed
    <2>2. CASE s \notin DOMAIN d.store /\ e.store[s].payload \notin Plain(traffic)
        <3>1. PICK j \in Slots : /\ Willing(d, j) /\ Gone(e, j)
                                 /\ e.store[s].payload = d.contexts[j].will.payload
            BY <2>2 DEF Ends
        <3> QED BY <1>7, <3>1
    <2> QED BY <2>1, <2>2
<1>9. ASSUME NEW will \in G \ {NULL}
      PROVE  /\ \E c \in 1..n : will.payload \in WillsOf(traffic, c) /\ Closed(e, c)
             /\ \A s \in DOMAIN e.store : e.store[s].payload # will.payload
    <2>1. PICK c \in 1..n : will.payload \in WillsOf(traffic, c) /\ Closed(d, c)
        BY DEF Willed
    <2>2. c # NULL
        BY NullAssumption
    <2>3. ASSUME NEW s \in DOMAIN e.store, e.store[s].payload = will.payload
          PROVE  FALSE
        <3>1. s \notin DOMAIN d.store
            BY <2>3 DEF Willed, Ends
        <3>2. e.store[s].payload \notin Plain(traffic)
            BY <2>1, <2>3 DEF Apart
        <3>3. PICK j \in Slots : /\ Willing(d, j) /\ Gone(e, j)
                                 /\ e.store[s].payload = d.contexts[j].will.payload
            BY <3>1, <3>2 DEF Ends
        <3> DEFINE b == d.contexts[j].sock
        <3>4. b \in 1..n /\ ~Closed(d, b) /\ will.payload \in WillsOf(traffic, b)
            BY <1>7, <2>3, <3>3
        <3> HIDE DEF b
        <3>5. b = c
            BY <2>1, <3>4 DEF Apart
        <3> QED BY <2>1, <3>4, <3>5
    <2> QED BY <1>6, <2>1, <2>2, <2>3
<1> QED BY <1>3, <1>4, <1>5, <1>8, <1>9 DEF Willed

-----------------------------------------------------------------------------
(* The end of a connection.                                                *)

\* What is left of a context without its connection.
Hung(c) == [c EXCEPT !.listener = FALSE, !.will = NULL, !.sock = NULL]

\* The context a closed connection leaves has the messages it had and neither socket nor will.
LEMMA HungOk ==
    ASSUME NEW c \in ContextType
    PROVE  /\ SameMessages(c, Hung(c)) /\ Hung(c) # NULL
           /\ Hung(c).sock = NULL /\ Hung(c).will = NULL
           /\ Hung(c).id = c.id /\ Hung(c).state = c.state /\ Hung(c).acl_list = c.acl_list
<1>1. NULL \in Wills
    BY DEF Wills
<1>2. Hung(c) \in ContextType /\ Hung(c).msgs = c.msgs /\ Hung(c).msg_count12 = c.msg_count12
    BY <1>1 DEF Hung, ContextType
<1>3. /\ Hung(c).sock = NULL /\ Hung(c).will = NULL
      /\ Hung(c).id = c.id /\ Hung(c).state = c.state /\ Hung(c).acl_list = c.acl_list
    BY DEF Hung, ContextType
<1> QED BY <1>2, <1>3, NullAssumption DEF SameMessages

\* A will says what a message has to say.
LEMMA WillsAre ==
    ASSUME NEW will \in Wills, will # NULL
    PROVE  Message(will, {will.payload})
<1>1. PICK p \in sent("CONNECT") : p.will = will
    BY DEF Wills
<1>2. PICK s \in Scenarios, c \in Conns : p \in s.packets[c] /\ p.type = "CONNECT"
    BY DEF sent
<1>3. readable(p)
    BY <1>2, ScenariosAssumption
<1> QED BY <1>1, <1>2, <1>3 DEF readable, Message

Uncounts(d, i) == [uncount(d, i) EXCEPT !.contexts[i].will = NULL, !.contexts[i].sock = NULL]

\* Counting a closed connection off touches no message and no other context.
LEMMA UncountsOk ==
    ASSUME NEW d, NEW w, Sound(d, w), NEW i, Live(d, i)
    PROVE  /\ Recasts(d, Uncounts(d, i), i, Hung(d.contexts[i]))
           /\ Uncounts(d, i).cih = d.cih /\ Uncounts(d, i).acl_list = d.acl_list
           /\ Uncounts(d, i).config = d.config
<1> DEFINE c == d.contexts[i]
           b == uncount(d, i)
           e == Uncounts(d, i)
<1>1. DOMAIN d = DbFields /\ c \in ContextType /\ i \in Slots /\ usable(d.config) /\ d.contexts \in [Slots -> ContextType \cup {NULL}]
    BY MsgsOfType DEF Sound, SoundBut, Typed, Live
<1>2. /\ DOMAIN b = DbFields
      /\ b.store = d.store /\ b.subs = d.subs /\ b.last_db_id = d.last_db_id
      /\ b.cih = d.cih /\ b.acl_list = d.acl_list /\ b.config = d.config
      /\ b.contexts = [d.contexts EXCEPT ![i] = [c EXCEPT !.listener = FALSE]]
    <2>1. CASE c.listener
        <3>1. b = [d EXCEPT !.client_count = @ - 1, !.contexts[i].listener = FALSE]
            BY <2>1 DEF uncount
        <3> HIDE DEF b
        <3> QED BY <1>1, <3>1 DEF DbFields
    <2>2. CASE ~c.listener
        <3>1. b = d
            BY <2>2 DEF uncount
        <3>2. c.listener = FALSE
            BY <1>1, <2>2 DEF ContextType
        <3>3. c = [c EXCEPT !.listener = FALSE]
            BY <1>1, <3>2 DEF ContextType
        <3> HIDE DEF b
        <3> QED BY <1>1, <3>1, <3>3
    <2> QED BY <2>1, <2>2
<1> HIDE DEF b
<1>3. e.contexts = [d.contexts EXCEPT ![i] = Hung(c)]
    <2>1. e.contexts = [b.contexts EXCEPT ![i] = [b.contexts[i] EXCEPT !.will = NULL, !.sock = NULL]]
        BY <1>1, <1>2 DEF Uncounts, DbFields, b
    <2>2. b.contexts[i] = [c EXCEPT !.listener = FALSE]
        BY <1>1, <1>2
    <2>3. [b.contexts[i] EXCEPT !.will = NULL, !.sock = NULL] = Hung(c)
        BY <1>1, <2>2 DEF Hung, ContextType
    <2> HIDE DEF e, c
    <2> QED BY <1>1, <1>2, <2>1, <2>3
<1>4. /\ e.store = d.store /\ e.subs = d.subs /\ e.last_db_id = d.last_db_id
      /\ e.cih = d.cih /\ e.acl_list = d.acl_list /\ e.config = d.config /\ DOMAIN e = DbFields
    BY <1>2 DEF Uncounts, DbFields, b
<1> HIDE DEF e
<1> QED BY <1>1, <1>3, <1>4 DEF Recasts, e

\* mqtt3_context_disconnect publishes the will, closes the socket and keeps the broker sound.
LEMMA DisconnectOk ==
    ASSUME NEW d, NEW w, Sound(d, w), NEW i, Live(d, i), NEW P
    PROVE  /\ Sound(mqtt3_context_disconnect(d, i), w)
           /\ Ends(d, mqtt3_context_disconnect(d, i), P)
           /\ Gone(mqtt3_context_disconnect(d, i), i)
<1> DEFINE c == d.contexts[i]
           Q == {c.will.payload}
           a == IF c.state # "disconnecting" /\ c.will # NULL
                THEN mqtt3_db_messages_easy_queue(d, c.id, c.will) ELSE d
           e == Uncounts(a, i)
<1>1. mqtt3_context_disconnect(d, i) = e
    BY DEF mqtt3_context_disconnect, Uncounts
<1>2. i \in Slots /\ c \in ContextType /\ c # NULL
    BY MsgsOfType DEF Live, Sound, SoundBut
<1>3. Safe(d, a, w, Q) /\ (~Willing(d, i) => DOMAIN a.store = DOMAIN d.store)
    <2>1. CASE c.state # "disconnecting" /\ c.will # NULL
        <3>1. Message(c.will, Q)
            BY <1>2, <2>1, WillsAre DEF ContextType
        <3>2. Willing(d, i)
            BY <1>2, <2>1 DEF Willing
        <3> HIDE DEF Q
        <3> QED BY <2>1, <3>1, <3>2, EasyQueueOk
    <2>2. CASE ~(c.state # "disconnecting" /\ c.will # NULL)
        <3>1. a = d
            BY <2>2
        <3> HIDE DEF a, Q
        <3> QED BY <3>1, SafeReflexive
    <2> QED BY <2>1, <2>2
<1> HIDE DEF a
<1>4. Sound(a, w) /\ Stored(d, a, Q) /\ Live(a, i)
    BY <1>3, SafeLive DEF Safe
<1>5. a.contexts[i] \in ContextType /\ a.contexts[i] # NULL /\ SamePerson(c, a.contexts[i])
    BY <1>2, <1>4, MsgsOfType DEF Live, Sound, SoundBut, Stored
<1> DEFINE h == Hung(a.contexts[i])
<1>6. Recasts(a, e, i, h) /\ e.cih = a.cih /\ e.acl_list = a.acl_list /\ e.config = a.config
    BY <1>4, UncountsOk
<1>7. /\ SameMessages(a.contexts[i], h) /\ h.sock = NULL /\ h.will = NULL
      /\ h.id = c.id /\ h.state = c.state /\ h.acl_list = c.acl_list /\ h # NULL
    BY <1>2, <1>5, HungOk DEF SamePerson
<1> HIDE DEF h, e
<1>8. Sound(e, w) /\ e.contexts[i] = h /\ \A j \in Slots \ {i} : e.contexts[j] = a.contexts[j]
    BY <1>2, <1>4, <1>5, <1>6, <1>7, RecastOk
<1>9. ASSUME NEW j \in Slots PROVE Calmed(d.contexts[j], e.contexts[j])
    <2>1. CASE j = i
        BY <1>2, <1>7, <1>8, <2>1 DEF Calmed
    <2>2. CASE j # i
        <3>1. e.contexts[j] = a.contexts[j] /\ SamePerson(d.contexts[j], a.contexts[j])
            BY <1>4, <1>8, <2>2 DEF Stored
        <3> QED BY <3>1 DEF Calmed, SamePerson
    <2> QED BY <2>1, <2>2
<1>10. e.store = a.store /\ e.subs = a.subs
    BY <1>6 DEF Recasts
<1>11. Gone(e, i)
    BY <1>7, <1>8 DEF Gone
<1>12. ASSUME NEW s \in DOMAIN e.store \ DOMAIN d.store
       PROVE  /\ Willing(d, i) /\ Gone(e, i)
              /\ e.store[s].payload = d.contexts[i].will.payload
    BY <1>3, <1>4, <1>10, <1>11, <1>12 DEF Stored
<1>13. Ends(d, e, P)
    BY <1>2, <1>4, <1>6, <1>9, <1>10, <1>12 DEF Ends, Stored
<1> QED BY <1>1, <1>8, <1>11, <1>13

-----------------------------------------------------------------------------
(* A context that is stripped of its connection, or freed.                 *)

\* The listener counts one less, or does not.
LEMMA UncountOk ==
    ASSUME NEW d, NEW w, Sound(d, w), NEW i, Live(d, i)
    PROVE  /\ Recasts(d, uncount(d, i), i, [d.contexts[i] EXCEPT !.listener = FALSE])
           /\ SameMessages(d.contexts[i], [d.contexts[i] EXCEPT !.listener = FALSE])
           /\ uncount(d, i).cih = d.cih /\ uncount(d, i).acl_list = d.acl_list
           /\ uncount(d, i).config = d.config
<1> DEFINE c == d.contexts[i]
           b == uncount(d, i)
<1>1. DOMAIN d = DbFields /\ c \in ContextType /\ i \in Slots /\ usable(d.config) /\ d.contexts \in [Slots -> ContextType \cup {NULL}]
    BY MsgsOfType DEF Sound, SoundBut, Typed, Live
<1>2. /\ DOMAIN b = DbFields
      /\ b.store = d.store /\ b.subs = d.subs /\ b.last_db_id = d.last_db_id
      /\ b.cih = d.cih /\ b.acl_list = d.acl_list /\ b.config = d.config
      /\ b.contexts = [d.contexts EXCEPT ![i] = [c EXCEPT !.listener = FALSE]]
    <2>1. CASE c.listener
        <3>1. b = [d EXCEPT !.client_count = @ - 1, !.contexts[i].listener = FALSE]
            BY <2>1 DEF uncount
        <3> HIDE DEF b
        <3> QED BY <1>1, <3>1 DEF DbFields
    <2>2. CASE ~c.listener
        <3>1. b = d
            BY <2>2 DEF uncount
        <3>2. c.listener = FALSE
            BY <1>1, <2>2 DEF ContextType
        <3>3. c = [c EXCEPT !.listener = FALSE]
            BY <1>1, <3>2 DEF ContextType
        <3> HIDE DEF b
        <3> QED BY <1>1, <3>1, <3>3
    <2> QED BY <2>1, <2>2
<1>3. SameMessages(c, [c EXCEPT !.listener = FALSE])
    BY <1>1 DEF SameMessages, ContextType
<1> HIDE DEF b, c
<1> QED BY <1>1, <1>2, <1>3 DEF Recasts, b, c

\* The subscriptions of a context go.
LEMMA CleanSubsOk ==
    ASSUME NEW d, NEW w, Sound(d, w), NEW i, Live(d, i)
    PROVE  LET e == [d EXCEPT !.subs = mqtt3_subs_clean_session(@, i)]
           IN Sound(e, w) /\ Frame(d, e) /\ i \notin Members(e.subs) /\ e.contexts = d.contexts
<1> DEFINE t == mqtt3_subs_clean_session(d.subs, i)
           e == WithSubs(d, t)
<1>1. TreeOk(d.subs, Chars, Slots) /\ \A j \in Members(d.subs) : d.contexts[j] # NULL
    BY DEF Sound, SoundBut, Typed
<1>2. /\ TreeOk(t, Chars, Slots) /\ LeavesOf(d.subs, t, i) /\ RetainedOf(d.subs, t)
      /\ RetainedOf(t, d.subs) /\ NoLeafOf(t, i)
    BY <1>1, CleanSessionOk
<1> HIDE DEF t
<1>3. i \notin Members(t)
    BY <1>2 DEF Members, NoLeafOf, NoneOf
<1>4. Members(t) \subseteq Members(d.subs)
    <2>1. ASSUME NEW j \in Members(t) PROVE j \in Members(d.subs)
        <3>1. PICK p \in DOMAIN t : \E k \in DOMAIN t[p].subs : t[p].subs[k].context = j
            BY DEF Members
        <3>2. j \in Slots /\ j # i
            BY <1>3 DEF Members
        <3>3. p \in DOMAIN d.subs /\ \E l \in DOMAIN d.subs[p].subs : d.subs[p].subs[l].context = j
            BY <1>2, <3>1, <3>2 DEF LeavesOf
        <3> QED BY <3>2, <3>3 DEF Members
    <2> QED BY <2>1
<1>5. Sound(e, w) /\ Frame(d, e) /\ e.subs = t /\ e.contexts = d.contexts
    BY <1>1, <1>2, <1>4, SubsOk
<1>6. e = [d EXCEPT !.subs = mqtt3_subs_clean_session(@, i)]
    BY DEF WithSubs, t
<1> HIDE DEF e
<1> QED BY <1>3, <1>5, <1>6

\* The context mqtt3_context_cleanup strips has the messages it had and no name, will or socket.
LEMMA NamelessOk ==
    ASSUME NEW c \in ContextType
    PROVE  /\ SameMessages(c, nameless(c)) /\ nameless(c) # NULL
           /\ nameless(c).sock = NULL /\ nameless(c).will = NULL /\ nameless(c).id = NULL
           /\ nameless(c).state = c.state /\ nameless(c).acl_list = c.acl_list
           /\ nameless(c).clean_session = c.clean_session
<1>1. NULL \in Wills /\ NULL \in Ids /\ NULL \in Usernames /\ NULL \in Passwords
    BY DEF Wills, Ids, Usernames, Passwords
<1> DEFINE c1 == [c EXCEPT !.sock = NULL]
           c2 == [c1 EXCEPT !.id = NULL]
           c3 == [c2 EXCEPT !.will = NULL]
           c4 == [c3 EXCEPT !.username = NULL]
           c5 == [c4 EXCEPT !.password = NULL]
<1>2. nameless(c) \in ContextType /\ nameless(c).msgs = c.msgs /\ nameless(c).msg_count12 = c.msg_count12
    <2>1. nameless(c) = c5
        BY DEF nameless, ContextType
    <2> HIDE DEF c5
    <2>2. c1 \in ContextType /\ c1.msgs = c.msgs /\ c1.msg_count12 = c.msg_count12
        BY DEF ContextType
    <2> HIDE DEF c1
    <2>3. c2 \in ContextType /\ c2.msgs = c.msgs /\ c2.msg_count12 = c.msg_count12
        BY <1>1, <2>2 DEF ContextType
    <2> HIDE DEF c2
    <2>4. c3 \in ContextType /\ c3.msgs = c.msgs /\ c3.msg_count12 = c.msg_count12
        BY <1>1, <2>3 DEF ContextType
    <2> HIDE DEF c3
    <2>5. c4 \in ContextType /\ c4.msgs = c.msgs /\ c4.msg_count12 = c.msg_count12
        BY <1>1, <2>4 DEF ContextType
    <2> HIDE DEF c4
    <2>6. c5 \in ContextType /\ c5.msgs = c.msgs /\ c5.msg_count12 = c.msg_count12
        BY <1>1, <2>5 DEF ContextType, c5
    <2> QED BY <2>1, <2>6
<1>3. /\ nameless(c).sock = NULL /\ nameless(c).will = NULL /\ nameless(c).id = NULL
      /\ nameless(c).state = c.state /\ nameless(c).acl_list = c.acl_list
      /\ nameless(c).clean_session = c.clean_session
    BY DEF nameless, ContextType
<1> QED BY <1>2, <1>3, NullAssumption DEF SameMessages

\* What mqtt3_context_cleanup makes of d.
Stripped(d, e, i) ==
    /\ e.acl_list = d.acl_list /\ e.config = d.config
    /\ DOMAIN e.cih = DOMAIN d.cih \ {d.contexts[i].id}
    /\ \A id \in DOMAIN e.cih : e.cih[id] = d.cih[id]
    /\ e.contexts[i] # NULL
    /\ e.contexts[i].id = NULL /\ e.contexts[i].sock = NULL /\ e.contexts[i].will = NULL
    /\ e.contexts[i].state = d.contexts[i].state /\ e.contexts[i].acl_list = d.contexts[i].acl_list
    /\ e.contexts[i].clean_session = d.contexts[i].clean_session
    /\ \A j \in Slots \ {i} : SamePerson(d.contexts[j], e.contexts[j])
    /\ Members(e.subs) \subseteq Members(d.subs)
    /\ d.contexts[i].clean_session => i \notin Members(e.subs) /\ Blank(e.contexts[i])
    /\ DOMAIN e.store = DOMAIN d.store
    /\ \A s \in DOMAIN d.store : e.store[s].payload = d.store[s].payload

\* mqtt3_context_cleanup keeps the broker sound and leaves the context stripped.
LEMMA CleanupOk ==
    ASSUME NEW d, NEW w, Sound(d, w), NEW i, Live(d, i), NULL \notin DOMAIN d.cih
    PROVE  Sound(mqtt3_context_cleanup(d, i), w) /\ Stripped(d, mqtt3_context_cleanup(d, i), i)
<1> DEFINE c == d.contexts[i]
           d1 == IF c.sock # NULL THEN uncount(d, i) ELSE d
           a == [d1 EXCEPT !.subs = mqtt3_subs_clean_session(@, i)]
           d2 == IF c.clean_session THEN mqtt3_db_messages_delete(a, i) ELSE d1
           d3 == IF c.id # NULL THEN unindex(d2, c.id) ELSE d2
           e == mqtt3_context_cleanup(d, i)
           b == [c EXCEPT !.listener = FALSE]
<1>0. i \in Slots /\ c # NULL /\ c \in ContextType
    BY MsgsOfType DEF Sound, SoundBut, Live
<1>1. e = [d3 EXCEPT !.contexts[i] = nameless(@)]
    BY DEF mqtt3_context_cleanup
<1>2. /\ Sound(d1, w) /\ d1.cih = d.cih /\ d1.acl_list = d.acl_list /\ d1.config = d.config
      /\ d1.contexts[i] \in {c, b} /\ \A j \in Slots \ {i} : d1.contexts[j] = d.contexts[j]
      /\ d1.store = d.store /\ d1.subs = d.subs
    <2>1. CASE c.sock # NULL
        <3>1. d1 = uncount(d, i)
            BY <2>1
        <3>2. Recasts(d, d1, i, b) /\ SameMessages(c, b) /\ d1.cih = d.cih /\ d1.acl_list = d.acl_list /\ d1.config = d.config
            BY <3>1, UncountOk
        <3> HIDE DEF b, d1
        <3>3. Sound(d1, w) /\ d1.contexts[i] = b /\ \A j \in Slots \ {i} : d1.contexts[j] = d.contexts[j]
            BY <1>0, <3>2, RecastOk
        <3> QED BY <3>2, <3>3 DEF Recasts
    <2>2. CASE ~(c.sock # NULL)
        <3>1. d1 = d
            BY <2>2
        <3> HIDE DEF d1
        <3> QED BY <3>1
    <2> QED BY <2>1, <2>2
<1>21. b \in ContextType /\ b # NULL /\ b.id = c.id /\ b.state = c.state /\ b.acl_list = c.acl_list /\ b.clean_session = c.clean_session
    <2>1. b \in ContextType /\ b.id = c.id /\ b.state = c.state /\ b.acl_list = c.acl_list /\ b.clean_session = c.clean_session
        BY <1>0 DEF ContextType
    <2> QED BY <2>1, NullAssumption
<1> HIDE DEF d1, b
<1>3. Live(d1, i) /\ d1.contexts[i].id = c.id /\ d1.contexts[i].state = c.state
      /\ d1.contexts[i].acl_list = c.acl_list /\ d1.contexts[i].clean_session = c.clean_session
    BY <1>0, <1>2, <1>21 DEF Live
<1>4. /\ Sound(d2, w) /\ Frame(d1, d2)
      /\ c.clean_session => i \notin Members(d2.subs) /\ Blank(d2.contexts[i])
    <2>1. CASE c.clean_session
        <3>1. Sound(a, w) /\ Frame(d1, a) /\ i \notin Members(a.subs) /\ a.contexts = d1.contexts
            BY <1>2, <1>3, CleanSubsOk
        <3> HIDE DEF a
        <3>2. d2 = mqtt3_db_messages_delete(a, i)
            BY <2>1
        <3>3. i \in Slots /\ a.contexts[i] # NULL
            BY <1>3, <3>1 DEF Live
        <3>4. Sound(d2, w) /\ Frame(a, d2) /\ d2.subs = a.subs /\ d2.contexts[i] = WithMessages(a.contexts[i], <<>>, 0)
            BY <3>1, <3>2, <3>3, MessagesDeleteOk
        <3>5. a.contexts[i] \in ContextType
            BY <3>1, <3>3, MsgsOfType DEF Sound, SoundBut
        <3>6. Blank(WithMessages(a.contexts[i], <<>>, 0))
            BY <3>5 DEF Blank, WithMessages, ContextType
        <3> HIDE DEF d2
        <3>7. Frame(d1, d2)
            BY <3>1, <3>4, FrameTransitive
        <3> QED BY <3>1, <3>4, <3>6, <3>7
    <2>2. CASE ~c.clean_session
        <3>1. d2 = d1
            BY <2>2
        <3> HIDE DEF d2
        <3> QED BY <1>2, <2>2, <3>1, FrameReflexive
    <2> QED BY <2>1, <2>2
<1> HIDE DEF d2, a
<1>5. /\ i \in Slots /\ Live(d2, i) /\ d2.contexts[i] \in ContextType /\ DOMAIN d2 = DbFields
      /\ usable(d2.config) /\ d2.contexts \in [Slots -> ContextType \cup {NULL}]
      /\ SamePerson(d1.contexts[i], d2.contexts[i])
    <2>1. Live(d2, i)
        BY <1>3, <1>4, FrameLive
    <2> QED BY <1>0, <1>4, <2>1, MsgsOfType DEF Live, Sound, SoundBut, Typed, Frame
<1>6. /\ DOMAIN d3 = DbFields /\ d3.contexts = d2.contexts /\ d3.store = d2.store /\ d3.subs = d2.subs
      /\ d3.last_db_id = d2.last_db_id /\ d3.acl_list = d2.acl_list /\ d3.config = d2.config
      /\ DOMAIN d3.cih = DOMAIN d2.cih \ {c.id}
      /\ \A id \in DOMAIN d3.cih : d3.cih[id] = d2.cih[id]
    <2>1. CASE c.id # NULL
        <3>1. d3 = [d2 EXCEPT !.cih = [other \in DOMAIN d2.cih \ {c.id} |-> d2.cih[other]]]
            BY <2>1 DEF unindex
        <3> HIDE DEF d3, c
        <3> QED BY <1>5, <3>1 DEF DbFields
    <2>2. CASE ~(c.id # NULL)
        <3>1. d3 = d2 /\ c.id = NULL
            BY <2>2
        <3>2. d2.cih = d.cih
            BY <1>2, <1>4 DEF Frame
        <3> HIDE DEF d3, c
        <3> QED BY <1>5, <3>1, <3>2
    <2> QED BY <2>1, <2>2
<1> HIDE DEF d3
<1> DEFINE f == nameless(d2.contexts[i])
<1>7. e.contexts = [d2.contexts EXCEPT ![i] = f]
    BY <1>1, <1>5, <1>6 DEF DbFields
<1>8. /\ DOMAIN e = DbFields /\ e.store = d2.store /\ e.subs = d2.subs
      /\ e.last_db_id = d2.last_db_id /\ e.acl_list = d2.acl_list /\ e.config = d2.config
      /\ e.cih = d3.cih
    BY <1>1, <1>5, <1>6 DEF DbFields
<1>9. /\ SameMessages(d2.contexts[i], f) /\ f # NULL /\ f.sock = NULL /\ f.will = NULL /\ f.id = NULL
      /\ f.state = d2.contexts[i].state /\ f.acl_list = d2.contexts[i].acl_list
      /\ f.clean_session = d2.contexts[i].clean_session
    BY <1>5, NamelessOk
<1> HIDE DEF e, f
<1>10. Recasts(d2, e, i, f)
    <2>1. usable(e.config)
        BY <1>5, <1>8
    <2> QED BY <1>7, <1>8, <2>1 DEF Recasts
<1>11. Sound(e, w) /\ e.contexts[i] = f /\ \A j \in Slots \ {i} : e.contexts[j] = d2.contexts[j]
    <2>1. d2.contexts[i] # NULL /\ i \in Slots /\ Sound(d2, w) /\ SameMessages(d2.contexts[i], f)
        BY <1>4, <1>5, <1>9 DEF Live
    <2> QED BY <1>10, <2>1, RecastOk
<1>12. f.state = c.state /\ f.acl_list = c.acl_list /\ f.clean_session = c.clean_session
    BY <1>3, <1>5, <1>9 DEF SamePerson, Live
<1>13. \A j \in Slots \ {i} : SamePerson(d.contexts[j], e.contexts[j])
    BY <1>2, <1>4, <1>11 DEF Frame
<1>14. Members(e.subs) \subseteq Members(d.subs)
    BY <1>2, <1>4, <1>8 DEF Frame
<1>15. c.clean_session => i \notin Members(e.subs) /\ Blank(e.contexts[i])
    BY <1>4, <1>8, <1>9, <1>11 DEF Blank, SameMessages
<1>16. DOMAIN e.store = DOMAIN d.store /\ \A s \in DOMAIN d.store : e.store[s].payload = d.store[s].payload
    BY <1>2, <1>4, <1>8 DEF Frame
<1>17. e.acl_list = d.acl_list /\ e.config = d.config
    BY <1>2, <1>4, <1>8 DEF Frame
<1>18. DOMAIN e.cih = DOMAIN d.cih \ {c.id} /\ \A id \in DOMAIN e.cih : e.cih[id] = d.cih[id]
    BY <1>2, <1>4, <1>6, <1>8 DEF Frame
<1> QED BY <1>9, <1>11, <1>12, <1>13, <1>14, <1>15, <1>16, <1>17, <1>18 DEF Stripped, e

\* What free_context makes of d.
Freed(d, e, i) ==
    /\ e.acl_list = d.acl_list /\ e.config = d.config
    /\ DOMAIN e.cih = DOMAIN d.cih \ {d.contexts[i].id}
    /\ \A id \in DOMAIN e.cih : e.cih[id] = d.cih[id]
    /\ e.contexts[i] = NULL
    /\ \A j \in Slots \ {i} : SamePerson(d.contexts[j], e.contexts[j])
    /\ Members(e.subs) \subseteq Members(d.subs) \ {i}
    /\ DOMAIN e.store = DOMAIN d.store
    /\ \A s \in DOMAIN d.store : e.store[s].payload = d.store[s].payload

\* Freeing the slot of a clean session keeps the broker sound.
LEMMA FreeOk ==
    ASSUME NEW d, NEW w, Sound(d, w), NEW i, Live(d, i), NULL \notin DOMAIN d.cih,
           d.contexts[i].clean_session
    PROVE  Sound(free_context(d, i), w) /\ Freed(d, free_context(d, i), i)
<1> DEFINE a == mqtt3_context_cleanup(d, i)
           b == mqtt3_db_messages_delete(a, i)
           e == [b EXCEPT !.contexts[i] = NULL]
<1>1. free_context(d, i) = e
    BY DEF free_context
<1>2. Sound(a, w) /\ Stripped(d, a, i)
    BY CleanupOk
<1> HIDE DEF a
<1>3. i \in Slots /\ a.contexts[i] # NULL
    BY <1>2 DEF Live, Stripped
<1>4. /\ Sound(b, w) /\ Frame(a, b) /\ b.subs = a.subs
      /\ b.contexts[i] = WithMessages(a.contexts[i], <<>>, 0)
    BY <1>2, <1>3, MessagesDeleteOk
<1> HIDE DEF b
<1>5. a.contexts[i] \in ContextType
    BY <1>2, <1>3, MsgsOfType DEF Sound, SoundBut
<1>6. Blank(b.contexts[i])
    BY <1>4, <1>5 DEF Blank, WithMessages, ContextType
<1>7. i \notin Members(b.subs)
    BY <1>2, <1>4 DEF Stripped
<1>8. DOMAIN b = DbFields /\ b.contexts \in [Slots -> ContextType \cup {NULL}]
    BY <1>4 DEF Sound, SoundBut, Typed
<1>9. /\ e.contexts = [b.contexts EXCEPT ![i] = NULL] /\ DOMAIN e = DbFields
      /\ e.store = b.store /\ e.subs = b.subs /\ e.last_db_id = b.last_db_id
      /\ e.cih = b.cih /\ e.acl_list = b.acl_list /\ e.config = b.config
    BY <1>8 DEF DbFields
<1> HIDE DEF e
<1>10. Places(b, e, i, NULL)
    BY <1>9 DEF Places
<1>11. Sound(e, w) /\ e.contexts[i] = NULL /\ \A j \in Slots \ {i} : e.contexts[j] = b.contexts[j]
    BY <1>3, <1>4, <1>6, <1>7, <1>10, SlotOk
<1>12. ASSUME NEW j \in Slots \ {i} PROVE SamePerson(d.contexts[j], e.contexts[j])
    <2>1. SamePerson(d.contexts[j], a.contexts[j]) /\ SamePerson(a.contexts[j], b.contexts[j]) /\ e.contexts[j] = b.contexts[j]
        BY <1>2, <1>4, <1>11 DEF Stripped, Frame
    <2> QED BY <2>1 DEF SamePerson
<1>13. Members(e.subs) \subseteq Members(d.subs) \ {i}
    BY <1>2, <1>4, <1>7, <1>9 DEF Stripped
<1>14. /\ DOMAIN e.cih = DOMAIN d.cih \ {d.contexts[i].id}
       /\ \A id \in DOMAIN e.cih : e.cih[id] = d.cih[id]
    BY <1>2, <1>4, <1>9 DEF Stripped, Frame
<1>15. /\ DOMAIN e.store = DOMAIN d.store
       /\ \A s \in DOMAIN d.store : e.store[s].payload = d.store[s].payload
    BY <1>2, <1>4, <1>9 DEF Stripped, Frame
<1>16. e.acl_list = d.acl_list /\ e.config = d.config
    BY <1>2, <1>4, <1>9 DEF Stripped, Frame
<1> QED BY <1>1, <1>11, <1>12, <1>13, <1>14, <1>15, <1>16 DEF Freed

-----------------------------------------------------------------------------
(* The whole invariant of the database.                                    *)

\* Everything that holds between two steps of the main loop: n connections have been
\* made, G are the wills of those that said goodbye.
Good(d, w, G, n, traffic) ==
    Sound(d, w) /\ Linked(d, {}) /\ Staged(d, {}) /\ Willed(d, G, n, traffic)

\* Steps that end sessions keep the whole invariant of the contexts and the store.
LEMMA EndsGood ==
    ASSUME NEW d, NEW w, NEW G, NEW n, NEW traffic, Good(d, w, G, n, traffic), Apart(traffic, n),
           NEW e, Sound(e, w), Ends(d, e, Plain(traffic))
    PROVE  Good(e, w, G, n, traffic)
<1>1. Linked(e, {})
    BY EndsLinked DEF Good
<1>2. Staged(e, {})
    BY EndsStaged DEF Good
<1>3. Willed(e, G, n, traffic)
    BY EndsWilled DEF Good
<1> QED BY <1>1, <1>2, <1>3 DEF Good

\* A context without a connection is freed.
LEMMA FreedGood ==
    ASSUME NEW d, NEW w, NEW G, NEW n, NEW traffic, Good(d, w, G, n, traffic),
           NEW i \in Slots, d.contexts[i] # NULL, NEW e, Sound(e, w), Freed(d, e, i)
    PROVE  Good(e, w, G, n, traffic)
<1>1. \A j \in Slots : e.contexts[j] # NULL =>
                         /\ j # i /\ d.contexts[j] # NULL /\ SamePerson(d.contexts[j], e.contexts[j])
    BY DEF Freed, SamePerson
<1>2. \A j \in Slots : e.contexts[j] # NULL =>
                         /\ j # i /\ d.contexts[j] # NULL /\ e.contexts[j].id = d.contexts[j].id
                         /\ e.contexts[j].sock = d.contexts[j].sock
                         /\ e.contexts[j].state = d.contexts[j].state
                         /\ e.contexts[j].will = d.contexts[j].will
                         /\ e.contexts[j].acl_list = d.contexts[j].acl_list
    BY <1>1 DEF SamePerson
<1>3. Linked(e, {})
    <2>1. ASSUME NEW id \in DOMAIN e.cih
          PROVE  /\ id # NULL /\ e.cih[id] \in Slots
                 /\ e.contexts[e.cih[id]] # NULL /\ e.contexts[e.cih[id]].id = id
        <3> DEFINE j == d.cih[id]
        <3>1. id \in DOMAIN d.cih /\ e.cih[id] = j /\ id # d.contexts[i].id
            BY DEF Freed
        <3>2. id # NULL /\ j \in Slots /\ d.contexts[j] # NULL /\ d.contexts[j].id = id
            BY <3>1 DEF Good, Linked
        <3> HIDE DEF j
        <3>3. j # i
            BY <3>1, <3>2
        <3>4. SamePerson(d.contexts[j], e.contexts[j])
            BY <3>2, <3>3 DEF Freed
        <3> QED BY <3>1, <3>2, <3>4 DEF SamePerson
    <2>2. ASSUME NEW j \in Slots, e.contexts[j] # NULL, e.contexts[j].id # NULL
          PROVE  e.contexts[j].id \in DOMAIN e.cih /\ e.cih[e.contexts[j].id] = j
        <3> DEFINE id == d.contexts[j].id
        <3>1. j # i /\ d.contexts[j] # NULL /\ e.contexts[j].id = id
            BY <1>2, <2>2
        <3>2. id \in DOMAIN d.cih /\ d.cih[id] = j
            BY <2>2, <3>1 DEF Good, Linked
        <3>3. id # d.contexts[i].id
            <4>1. CASE d.contexts[i].id = NULL
                BY <2>2, <3>1, <4>1
            <4>2. CASE d.contexts[i].id # NULL
                <5>1. d.cih[d.contexts[i].id] = i
                    BY <4>2 DEF Good, Linked
                <5> HIDE DEF id
                <5> QED BY <3>1, <3>2, <5>1
            <4> QED BY <4>1, <4>2
        <3> HIDE DEF id
        <3>4. id \in DOMAIN e.cih /\ e.cih[id] = d.cih[id]
            BY <3>2, <3>3 DEF Freed
        <3> QED BY <3>1, <3>2, <3>4
    <2>3. ASSUME NEW j \in Members(e.subs), e.contexts[j] # NULL PROVE e.contexts[j].id # NULL
        <3>1. j \in Slots /\ j \in Members(d.subs)
            BY DEF Freed, Members
        <3> QED BY <1>2, <2>3, <3>1 DEF Good, Linked
    <2>4. e.acl_list = d.acl_list
        BY DEF Freed
    <2>5. \E S : e.acl_list \in Seq(S)
        BY <2>4 DEF Good, Linked
    <2>6. \A j \in Slots : e.contexts[j] # NULL => e.contexts[j].acl_list \in 0..Len(e.acl_list)
        BY <1>2, <2>4 DEF Good, Linked
    <2> QED BY <2>1, <2>2, <2>3, <2>5, <2>6 DEF Linked
<1>4. Staged(e, {})
    BY <1>2 DEF Good, Staged
<1>5. Willed(e, G, n, traffic)
    <2>1. \A c : Closed(d, c) => Closed(e, c)
        BY <1>2 DEF Closed
    <2>2. DOMAIN e.store = DOMAIN d.store /\ \A s \in DOMAIN d.store : e.store[s].payload = d.store[s].payload
        BY DEF Freed
    <2>3. Willed(d, G, n, traffic)
        BY DEF Good
    <2>4. \A j \in Slots : e.contexts[j] # NULL /\ e.contexts[j].sock # NULL =>
             /\ e.contexts[j].sock \in 1..n /\ e.contexts[j].state # "disconnecting"
             /\ e.contexts[j].state = "new" => e.contexts[j].will = NULL
             /\ e.contexts[j].will # NULL =>
                  e.contexts[j].will.payload \in WillsOf(traffic, e.contexts[j].sock)
        BY <1>2, <2>3 DEF Willed
    <2>5. \A j, k \in Slots : e.contexts[j] # NULL /\ e.contexts[k] # NULL =>
             e.contexts[j].sock # e.contexts[k].sock \/ j = k \/ e.contexts[j].sock = NULL
        BY <1>2, <2>3 DEF Willed
    <2>6. \A j \in Slots : Willing(e, j) => e.contexts[j].sock # NULL
        BY <1>2, <2>3 DEF Willed, Willing
    <2>7. \A s \in DOMAIN e.store :
             \/ e.store[s].payload \in Plain(traffic)
             \/ \E c \in 1..n : e.store[s].payload \in WillsOf(traffic, c) /\ Closed(e, c)
        BY <2>1, <2>2, <2>3 DEF Willed
    <2>8. \A will \in G \ {NULL} :
             /\ \E c \in 1..n : will.payload \in WillsOf(traffic, c) /\ Closed(e, c)
             /\ \A s \in DOMAIN e.store : e.store[s].payload # will.payload
        BY <2>1, <2>2, <2>3 DEF Willed
    <2> QED BY <2>4, <2>5, <2>6, <2>7, <2>8 DEF Willed
<1> QED BY <1>3, <1>4, <1>5 DEF Good

-----------------------------------------------------------------------------
(* Packets that are not a CONNECT.                                         *)

\* Handler result r of database d.
Ran(d, r, w, P) == Sound(r.db, w) /\ Ends(d, r.db, P)

\* A handler that ran after a step that ends sessions ran after the state before it.
LEMMA RanAfter ==
    ASSUME NEW d, NEW e, NEW r, NEW w, NEW P, Ends(d, e, P), Ran(e, r, w, P)
    PROVE  Ran(d, r, w, P)
BY EndsTransitive DEF Ran

\* A step that ends sessions frees no context.
LEMMA EndsLive ==
    ASSUME NEW d, NEW e, NEW P, Ends(d, e, P), NEW i, Live(d, i)
    PROVE  Live(e, i)
BY DEF Ends, Calmed, Live

\* What only changes what the handler may change.
LEMMA DoneOk ==
    ASSUME NEW d, NEW e, NEW w, NEW P, Sound(e, w), Ends(d, e, P)
    PROVE  Ran(d, done(e), w, P) /\ Ran(d, failed(e), w, P)
<1>1. done(e).db = e /\ failed(e).db = e
    BY DEF done, failed
<1> QED BY <1>1 DEF Ran

\* A handler that ends with a packet sent kept what it had kept.
LEMMA AnsweredOk ==
    ASSUME NEW d, NEW e, NEW w, NEW P, Sound(e, w), Ends(d, e, P), NEW i, NEW packet
    PROVE  Ran(d, answered(e, i, packet), w, P)
<1> DEFINE f == send(e, i, packet)
<1>1. answered(e, i, packet).db = f
    BY DEF answered
<1>2. DOMAIN e = DbFields
    BY DEF Sound, SoundBut, Typed
<1>3. OnlyOut(e, f)
    BY <1>2, SendOk
<1> HIDE DEF f
<1>4. Sound(f, w) /\ Frame(e, f)
    BY <1>3, OnlyOutOk DEF Sound
<1>5. Ends(d, f, P)
    BY <1>4, FrameEnds, EndsTransitive
<1> QED BY <1>1, <1>4, <1>5 DEF Ran

\* ... also when the packet only carries a message identifier.
LEMMA ReplyOk ==
    ASSUME NEW d, NEW e, NEW w, NEW P, Sound(e, w), Ends(d, e, P), NEW i, NEW type, NEW mid
    PROVE  Ran(d, reply(e, i, type, mid), w, P)
BY AnsweredOk DEF reply

\* The client says goodbye: no will is sent.
LEMMA GoodbyeOk ==
    ASSUME NEW d, NEW w, Sound(d, w), NEW i, Live(d, i), NEW P
    PROVE  /\ Ran(d, mqtt3_handle_disconnect(d, i), w, P)
           /\ Gone(mqtt3_handle_disconnect(d, i).db, i)
           /\ mqtt3_handle_disconnect(d, i).db.store = d.store
<1> DEFINE b == d.contexts[i]
           c == [b EXCEPT !.state = "disconnecting"]
           a == [d EXCEPT !.contexts[i].state = "disconnecting"]
           e == Uncounts(a, i)
           r == mqtt3_handle_disconnect(d, i)
<1>1. /\ DOMAIN d = DbFields /\ b \in ContextType /\ i \in Slots /\ usable(d.config) /\ b # NULL
      /\ d.contexts \in [Slots -> ContextType \cup {NULL}]
    BY MsgsOfType DEF Sound, SoundBut, Typed, Live
<1>2. SameMessages(b, c) /\ c # NULL /\ c.state = "disconnecting" /\ c.id = b.id /\ c.acl_list = b.acl_list
    <2>1. /\ c \in ContextType /\ c.msgs = b.msgs /\ c.msg_count12 = b.msg_count12
          /\ c.state = "disconnecting" /\ c.id = b.id /\ c.acl_list = b.acl_list
        BY <1>1 DEF ContextType
    <2> HIDE DEF c
    <2> QED BY <2>1, NullAssumption DEF SameMessages
<1>3. /\ a.contexts = [d.contexts EXCEPT ![i] = c] /\ DOMAIN a = DbFields
      /\ a.store = d.store /\ a.subs = d.subs /\ a.last_db_id = d.last_db_id
      /\ a.cih = d.cih /\ a.acl_list = d.acl_list /\ a.config = d.config
    BY <1>1 DEF DbFields
<1>4. r.db = mqtt3_context_disconnect(a, i)
    BY DEF mqtt3_handle_disconnect, done
<1> HIDE DEF a, c
<1>5. Recasts(d, a, i, c)
    <2>1. usable(a.config)
        BY <1>1, <1>3
    <2> QED BY <1>3, <2>1 DEF Recasts
<1>6. Sound(a, w) /\ a.contexts[i] = c /\ \A j \in Slots \ {i} : a.contexts[j] = d.contexts[j]
    BY <1>1, <1>2, <1>5, RecastOk
<1>7. r.db = e
    BY <1>2, <1>4, <1>6 DEF mqtt3_context_disconnect, Uncounts
<1>8. Live(a, i) /\ c \in ContextType
    BY <1>1, <1>2, <1>6 DEF Live, SameMessages
<1> DEFINE h == Hung(c)
<1>9. Recasts(a, e, i, h) /\ e.cih = a.cih /\ e.acl_list = a.acl_list /\ e.config = a.config
    BY <1>6, <1>8, UncountsOk
<1>10. /\ SameMessages(c, h) /\ h.sock = NULL /\ h.will = NULL
       /\ h.id = b.id /\ h.state = "disconnecting" /\ h.acl_list = b.acl_list /\ h # NULL
    BY <1>2, <1>8, HungOk
<1> HIDE DEF h, e, r
<1>11. Sound(e, w) /\ e.contexts[i] = h /\ \A j \in Slots \ {i} : e.contexts[j] = a.contexts[j]
    <2>1. a.contexts[i] # NULL /\ SameMessages(a.contexts[i], h)
        BY <1>2, <1>6, <1>10
    <2> QED BY <1>1, <1>6, <1>9, <2>1, RecastOk
<1>12. e.store = d.store /\ e.subs = d.subs
    BY <1>3, <1>9 DEF Recasts
<1>13. ASSUME NEW j \in Slots PROVE Calmed(d.contexts[j], e.contexts[j])
    <2>1. CASE j = i
        BY <1>1, <1>10, <1>11, <2>1 DEF Calmed
    <2>2. CASE j # i
        BY <1>6, <1>11, <2>2 DEF Calmed
    <2> QED BY <2>1, <2>2
<1>14. Ends(d, e, P)
    BY <1>3, <1>9, <1>12, <1>13 DEF Ends
<1>15. Gone(e, i)
    BY <1>10, <1>11 DEF Gone
<1> QED BY <1>7, <1>11, <1>12, <1>14, <1>15 DEF Ran, r

\* The packets that only acknowledge.
LEMMA PubackcompOk ==
    ASSUME NEW d, NEW w, Sound(d, w), NEW i, Live(d, i), NEW P, NEW mid
    PROVE  Ran(d, _mosquitto_handle_pubackcomp(d, i, mid), w, P)
<1> DEFINE e == IF mid = 0 THEN d ELSE mqtt3_db_message_delete(d, i, mid, "out")
<1>1. Sound(e, w) /\ Frame(d, e)
    BY DeleteOk, FrameReflexive DEF Live
<1> HIDE DEF e
<1>2. Ran(d, done(e), w, P)
    BY <1>1, FrameEnds, DoneOk
<1> QED BY <1>2 DEF _mosquitto_handle_pubackcomp, e

\* No message is acknowledged before it was sent, unless that is known.
Early(d, i, mid) ==
    \E k \in matching(d.contexts[i].msgs, mid, "out") : d.contexts[i].msgs[k].state = "queued"

\* A PUBREC keeps the broker sound, and breaks the order of states only where "early" says so.
LEMMA PubrecOk ==
    ASSUME NEW d, NEW w, Sound(d, w), NEW i, Live(d, i), NEW P, NEW mid,
           Early(d, i, mid) => "early" \in w
    PROVE  Ran(d, _mosquitto_handle_pubrec(d, i, mid), w, P)
<1> DEFINE r == mqtt3_db_message_update(d, i, mid, "out", "wait_for_pubcomp")
           e == r.db
<1>1. Sound(e, w) /\ Frame(d, e)
    <2>1. "wait_for_pubcomp" \in States
        BY DEF States
    <2>2. "early" \in w \/ \A k \in matching(d.contexts[i].msgs, mid, "out") :
                              d.contexts[i].msgs[k].state # "queued"
        BY DEF Early
    <2> QED BY <2>1, <2>2, UpdateOk DEF Live
<1> HIDE DEF r, e
<1>2. Ran(d, reply(e, i, "PUBREL", mid), w, P)
    BY <1>1, FrameEnds, ReplyOk
<1>3. Ran(d, failed(d), w, P)
    BY EndsReflexive, DoneOk
<1> QED BY <1>2, <1>3 DEF _mosquitto_handle_pubrec, r, e

\* A PUBREL keeps the broker sound.
LEMMA PubrelOk ==
    ASSUME NEW d, NEW w, Sound(d, w), NEW i, Live(d, i), NEW P, NEW mid
    PROVE  Ran(d, _mosquitto_handle_pubrel(d, i, mid), w, P)
<1> DEFINE e == mqtt3_db_message_release(d, i, mid)
<1>1. Sound(e, w) /\ Frame(d, e)
    BY ReleaseOk
<1> HIDE DEF e
<1>2. Ran(d, reply(e, i, "PUBCOMP", mid), w, P)
    BY <1>1, FrameEnds, ReplyOk
<1> QED BY <1>2 DEF _mosquitto_handle_pubrel, e

\* A context with an id gets or loses subscriptions.
LEMMA SubsEnds ==
    ASSUME NEW d, NEW w, Sound(d, w), NEW i, Named(d, i), NEW P,
           NEW t, TreeOk(t, Chars, Slots), LeavesOf(d.subs, t, i), RetainedOf(d.subs, t),
           "root" \notin w => RetainedOf(t, d.subs)
    PROVE  Sound(WithSubs(d, t), w) /\ Ends(d, WithSubs(d, t), P)
<1>1. Members(t) \subseteq Members(d.subs) \cup {i}
    <2>1. ASSUME NEW j \in Members(t), j # i PROVE j \in Members(d.subs)
        <3>1. PICK p \in DOMAIN t : \E k \in DOMAIN t[p].subs : t[p].subs[k].context = j
            BY DEF Members
        <3>2. j \in Slots
            BY DEF Members
        <3>3. p \in DOMAIN d.subs /\ \E l \in DOMAIN d.subs[p].subs : d.subs[p].subs[l].context = j
            BY <2>1, <3>1, <3>2 DEF LeavesOf
        <3> QED BY <3>2, <3>3 DEF Members
    <2> QED BY <2>1
<1>2. \A j \in Members(t) : d.contexts[j] # NULL
    <2>1. \A j \in Members(d.subs) : d.contexts[j] # NULL
        BY DEF Sound, SoundBut, Typed
    <2> QED BY <1>1, <2>1 DEF Named
<1> DEFINE e == WithSubs(d, t)
<1>3. /\ Sound(e, w) /\ e.subs = t /\ e.contexts = d.contexts /\ e.store = d.store
      /\ e.cih = d.cih /\ e.acl_list = d.acl_list /\ e.config = d.config
    BY <1>2, SubsOk
<1> HIDE DEF e
<1>4. \A j \in Slots : Calmed(d.contexts[j], e.contexts[j])
    BY <1>3 DEF Calmed
<1>5. \A j \in Members(e.subs) : j \in Members(d.subs) \/ Named(d, j)
    BY <1>1, <1>3
<1>6. Ends(d, e, P)
    BY <1>3, <1>4, <1>5 DEF Ends
<1> QED BY <1>3, <1>6 DEF e

\* An UNSUBSCRIBE keeps the broker sound.
LEMMA UnsubscribeOk ==
    ASSUME NEW d, NEW w, Sound(d, w), NEW i, Named(d, i), NEW P, NEW p, p.sub \in Name
    PROVE  Ran(d, mqtt3_handle_unsubscribe(d, i, p), w, P)
<1> DEFINE tokens == _sub_topic_tokenise(p.sub)
           t == mqtt3_sub_remove(d.subs, i, tokens)
           e == WithSubs(d, t)
<1>1. tokens \in Path(Chars) /\ Len(tokens) >= 1
    BY TokensType DEF Name
<1>2. TreeOk(d.subs, Chars, Slots)
    BY DEF Sound, SoundBut, Typed
<1> HIDE DEF tokens
<1>3. TreeOk(t, Chars, Slots) /\ LeavesOf(d.subs, t, i) /\ RetainedOf(d.subs, t) /\ RetainedOf(t, d.subs)
    BY <1>1, <1>2, SubRemoveOk
<1> HIDE DEF t
<1>4. Sound(e, w) /\ Ends(d, e, P)
    BY <1>3, SubsEnds
<1>5. mqtt3_handle_unsubscribe(d, i, p) = failed(d)
      \/ mqtt3_handle_unsubscribe(d, i, p) = reply(e, i, "UNSUBACK", p.mid)
    BY DEF mqtt3_handle_unsubscribe, WithSubs, t, tokens
<1> HIDE DEF e
<1>6. Ran(d, failed(d), w, P) /\ Ran(d, reply(e, i, "UNSUBACK", p.mid), w, P)
    BY <1>4, ReplyOk, DoneOk, EndsReflexive
<1> QED BY <1>5, <1>6

-----------------------------------------------------------------------------
(* SUBSCRIBE.                                                              *)

\* A root that is there stays, and all others with it.
LEMMA AddKeepsNodes ==
    ASSUME NEW t, NEW i, NEW qos, NEW tokens, <<Head(tokens)>> \in DOMAIN t
    PROVE  DOMAIN t \subseteq DOMAIN mqtt3_sub_add(t, i, qos, tokens)
<1>1. root_child(t, Head(tokens)) = t
    BY DEF root_child
<1> DEFINE g == grow(t, node_path(tokens))
<1>2. DOMAIN t \subseteq DOMAIN g
    BY DEF grow
<1>3. mqtt3_sub_add(t, i, qos, tokens) = [g EXCEPT ![node_path(tokens)].subs = subscribe_leaf(@, i, qos)]
    BY <1>1 DEF mqtt3_sub_add
<1> HIDE DEF g
<1> QED BY <1>2, <1>3

\* The first token of filter sub leads to a node of the tree.
Rooted(d, sub) == <<Head(_sub_topic_tokenise(d.config.mount_point \o sub))>> \in DOMAIN d.subs

\* Database e comes from d by subscriptions of one context.
Subscribed(d, e, w, P) ==
    /\ Sound(e, w) /\ Ends(d, e, P)
    /\ "root" \notin w => DOMAIN d.subs \subseteq DOMAIN e.subs

\* One filter of a SUBSCRIBE keeps the broker sound, and drops the tree only where "root" says
\* so.
LEMMA SubscribeOk ==
    ASSUME NEW d, NEW w, NEW P, NEW acc, Subscribed(d, acc.db, w, P), NEW i, Named(d, i),
           NEW sub \in Name, NEW qos \in 0..2, "root" \in w \/ Rooted(d, sub)
    PROVE  Subscribed(d, subscribe(acc, i, sub, qos).db, w, P)
<1> DEFINE a == acc.db
           topic == a.config.mount_point \o sub
           tokens == _sub_topic_tokenise(topic)
           t == mqtt3_sub_add(a.subs, i, qos, tokens)
           b == WithSubs(a, t)
           e == mqtt3_retain_queue(b, i, topic, qos)
<1>1. Sound(a, w) /\ Ends(d, a, P)
    BY DEF Subscribed
<1>2. Named(a, i)
    BY <1>1 DEF Ends, Calmed, Named
<1>3. a.config = d.config /\ a.config.mount_point \in Name /\ TreeOk(a.subs, Chars, Slots)
    BY <1>1 DEF Ends, Sound, SoundBut, Typed, usable
<1>4. subscribe(acc, i, sub, qos).db \in {a, e}
    BY DEF subscribe, WithSubs
<1>5. topic \in Name
    BY <1>3 DEF Name
<1>6. "root" \notin w => <<Head(tokens)>> \in DOMAIN a.subs
    BY <1>3 DEF Subscribed, Rooted
<1> HIDE DEF topic
<1>7. tokens \in Path(Chars) /\ Len(tokens) >= 1
    BY <1>5, TokensType DEF Name
<1> HIDE DEF tokens
<1>8. i \in Slots
    BY DEF Named
<1>9. /\ TreeOk(t, Chars, Slots) /\ LeavesOf(a.subs, t, i) /\ RetainedOf(a.subs, t)
      /\ <<Head(tokens)>> \in DOMAIN a.subs => RetainedOf(t, a.subs)
    BY <1>3, <1>7, <1>8, SubAddOk
<1>10. "root" \notin w => DOMAIN a.subs \subseteq DOMAIN t
    BY <1>6, AddKeepsNodes
<1> HIDE DEF t
<1>11. Sound(b, w) /\ Ends(a, b, P)
    BY <1>1, <1>2, <1>6, <1>9, SubsEnds
<1>12. b.subs = t
    <2>1. DOMAIN a = DbFields
        BY <1>1 DEF Sound, SoundBut, Typed
    <2> HIDE DEF a
    <2> QED BY <2>1 DEF WithSubs, DbFields
<1> HIDE DEF b
<1>13. Live(b, i)
    BY <1>2, <1>11 DEF Ends, Calmed, Named, Live
<1>14. Queued(b, e, w)
    BY <1>5, <1>11, <1>13, RetainQueueOk
<1> HIDE DEF e
<1>15. Sound(e, w) /\ Ends(d, e, P)
    <2>1. Sound(e, w) /\ Frame(b, e)
        BY <1>14 DEF Queued
    <2>2. Ends(b, e, P)
        BY <2>1, FrameEnds
    <2> QED BY <1>1, <1>11, <2>1, <2>2, EndsTransitive
<1>16. "root" \notin w => DOMAIN d.subs \subseteq DOMAIN e.subs
    BY <1>10, <1>12, <1>14 DEF Queued, Subscribed
<1>17. Subscribed(d, e, w, P)
    BY <1>15, <1>16 DEF Subscribed
<1> QED BY <1>4, <1>17

\* The valid subscriptions of a packet are its first ones.
Firsts(n, V) == {k \in 1..n : \A l \in 1..k : l \in V}

\* The places before the first offence are an initial segment of the list.
LEMMA PrefixOk ==
    ASSUME NEW n \in Nat, NEW V
    PROVE  Cardinality(Firsts(n, V)) \in 0..n /\ Firsts(n, V) = 1..Cardinality(Firsts(n, V))
<1> DEFINE good == {k \in 1..n : \A l \in 1..k : l \in V}
<1>5. (\A k \in 1..n : k \in good) \/ (\E k \in 1..n : k \notin good)
    OBVIOUS
<1> DEFINE G == Cardinality(good) \in 0..n /\ good = 1..Cardinality(good)
<1>1. ASSUME \A k \in 1..n : k \in good PROVE G
    <2>1. good = 1..n
        BY <1>1
    <2>2. Cardinality(1..n) = n
        BY FS_Interval
    <2>3. Cardinality(good) = n
        BY <2>1, <2>2, Zenon
    <2>4. n \in 0..n
        OBVIOUS
    <2>5. good = 1..Cardinality(good)
        BY <2>1, <2>3, Zenon
    <2>6. Cardinality(good) \in 0..n
        BY <2>3, <2>4, Zenon
    <2> QED BY <2>5, <2>6
<1>2. ASSUME \E k \in 1..n : k \notin good PROVE G
    <2> DEFINE T == {k \in 1..n : k \notin good}
    <2>1. \E x \in T : \A y \in T : x <= y
        <3>1. T # {} /\ T \subseteq Nat
            BY <1>2
        <3> HIDE DEF T
        <3> QED BY <3>1, LeastNat
    <2>2. PICK x \in T : \A y \in T : x <= y
        BY <2>1
    <2>3. x \in 1..n /\ x \notin good
        OBVIOUS
    <2>4. \A k \in 1..(x - 1) : k \in good
        <3>1. ASSUME NEW k \in 1..(x - 1) PROVE k \in good
            <4>1. k \in 1..n /\ ~(x <= k)
                BY <2>3
            <4> QED BY <2>2, <4>1
        <3> QED BY <3>1
    <2>5. \A k \in good : k \in 1..(x - 1)
        <3>1. ASSUME NEW k \in good, ~(k <= x - 1) PROVE FALSE
            <4>1. k \in 1..n /\ \A l \in 1..k : l \in V
                OBVIOUS
            <4>2. \A l \in 1..x : l \in 1..k
                BY <2>3, <3>1, <4>1
            <4>3. x \in good
                BY <2>3, <4>1, <4>2
            <4> QED BY <2>3, <4>3
        <3>2. \A k \in good : k \in 1..n
            OBVIOUS
        <3> HIDE DEF T
        <3> QED BY <2>3, <3>1, <3>2
    <2>6. good = 1..(x - 1)
        BY <2>4, <2>5
    <2>7. x - 1 \in Nat /\ x - 1 \in 0..n
        BY <2>3
    <2>8. Cardinality(1..(x - 1)) = x - 1
        BY <2>7, FS_Interval
    <2>9. Cardinality(good) = x - 1
        BY <2>6, <2>8, Zenon
    <2>10. good = 1..Cardinality(good)
        BY <2>6, <2>9, Zenon
    <2>11. Cardinality(good) \in 0..n
        BY <2>7, <2>9, Zenon
    <2> QED BY <2>10, <2>11
<1>3. Firsts(n, V) = good
    BY DEF Firsts
<1>4. G
    <2> HIDE DEF good, G
    <2> QED BY <1>1, <1>2, <1>5
<1> HIDE DEF good
<1> QED BY <1>3, <1>4, Zenon

\* The first m elements of a list.
LEMMA FirstOnes ==
    ASSUME NEW seq, Len(seq) \in Nat, NEW m \in 0..Len(seq)
    PROVE  /\ Len(SubSeq(seq, 1, m)) = m /\ DOMAIN SubSeq(seq, 1, m) = 1..m
           /\ \A k \in 1..m : SubSeq(seq, 1, m)[k] = seq[k]
<1> DEFINE S == {seq[k] : k \in 1..m}
           e == SubSeq(seq, 1, m)
           n == Len(seq)
<1>1. 1 \in Int /\ m \in Int /\ m \in Nat
    <2>1. n \in Nat /\ m \in 0..n
        OBVIOUS
    <2> HIDE DEF n
    <2> QED BY <2>1
<1>2. \A k \in 1..m : seq[k] \in S
    OBVIOUS
<1> HIDE DEF S
<1>3. /\ e \in Seq(S) /\ Len(e) = IF 1 <= m THEN m - 1 + 1 ELSE 0
      /\ \A k \in 1..(m - 1 + 1) : e[k] = seq[1 + k - 1]
    BY <1>1, <1>2, SubSeqProperties
<1> HIDE DEF e
<1>4. Len(e) = m
    BY <1>1, <1>3
<1>5. \A k \in 1..m : k \in 1..(m - 1 + 1) /\ 1 + k - 1 = k
    BY <1>1
<1>6. \A k \in 1..m : e[k] = seq[k]
    BY <1>3, <1>5
<1>7. DOMAIN e = 1..m
    BY <1>3, <1>4
<1> QED BY <1>4, <1>6, <1>7 DEF e

Subscribing(c, k, acc) == Subscribed(c[1], acc.db, c[2], c[4])

subscribe_step(c, acc, s) == subscribe(acc, c[3], s.sub, s.qos)

Subscriber == INSTANCE SequenceFolds WITH op <- subscribe_step, Inv <- Subscribing

\* The induction that the theorem of Subscriber assumes.
LEMMA SubscriberInducts == Subscriber!Induction
    BY NatInduct DEF Subscriber!Induction

Subscribes(d, i, list) ==
    LET step(acc, s) == subscribe(acc, i, s.sub, s.qos)
    IN FoldLeft(step, [db |-> d, granted |-> <<>>], list)

\* The filters of a SUBSCRIBE, one after the other, keep the broker sound.
LEMMA SubscribesOk ==
    ASSUME NEW d, NEW w, Sound(d, w), NEW P, NEW i, Named(d, i), NEW list, NEW m \in Nat,
           DOMAIN list = 1..m, Len(list) = m,
           \A k \in 1..m : /\ list[k].sub \in Name /\ list[k].qos \in 0..2
                           /\ "root" \in w \/ Rooted(d, list[k].sub)
    PROVE  Sound(Subscribes(d, i, list).db, w) /\ Ends(d, Subscribes(d, i, list).db, P)
<1> DEFINE c == <<d, w, i, P>>
           start == [db |-> d, granted |-> <<>>]
           x == Subscriber!Walk(c, start, list)
<1>1. x = Subscribes(d, i, list)
    BY DEF Subscribes, Subscriber!Walk, Subscriber!Greatest, FoldLeft, MapThenFoldSet, Max, subscribe_step
<1>2. c[1] = d /\ c[2] = w /\ c[3] = i /\ c[4] = P /\ start.db = d
    OBVIOUS
<1> HIDE DEF c, start
<1>3. Subscribing(c, 0, start)
    BY <1>2, EndsReflexive DEF Subscribing, Subscribed
<1>4. ASSUME NEW k \in 1..m, NEW a, Subscribing(c, k - 1, a)
      PROVE  Subscribing(c, k, subscribe_step(c, a, list[k]))
    <2>1. Subscribed(d, a.db, w, P)
        BY <1>2, <1>4 DEF Subscribing
    <2>2. /\ list[k].sub \in Name /\ list[k].qos \in 0..2
          /\ "root" \in w \/ Rooted(d, list[k].sub)
        OBVIOUS
    <2>3. Subscribed(d, subscribe(a, i, list[k].sub, list[k].qos).db, w, P)
        BY <2>1, <2>2, SubscribeOk
    <2> QED BY <1>2, <2>3 DEF Subscribing, subscribe_step
<1>5. Subscribing(c, m, x)
    BY <1>3, <1>4, Subscriber!WalkInvariant, SubscriberInducts
<1> QED BY <1>1, <1>2, <1>5 DEF Subscribing, Subscribed

\* The SUBACK that follows keeps it.
LEMMA SubackOk ==
    ASSUME NEW d, NEW acc, NEW w, NEW P, Sound(acc.db, w), Ends(d, acc.db, P), NEW i, NEW mid
    PROVE  Ran(d, suback(acc, i, mid), w, P)
<1> DEFINE r == answered(acc.db, i, [type |-> "SUBACK", mid |-> mid, granted |-> acc.granted])
<1>1. Ran(d, r, w, P)
    BY AnsweredOk
<1>2. suback(acc, i, mid) \in {r, failed(r.db)}
    BY DEF suback
<1> HIDE DEF r
<1>3. Ran(d, failed(r.db), w, P)
    BY <1>1, DoneOk DEF Ran
<1> QED BY <1>1, <1>2, <1>3

\* A SUBSCRIBE keeps the broker sound.
LEMMA SubscribePacketOk ==
    ASSUME NEW d, NEW w, Sound(d, w), NEW P, NEW i, Named(d, i), NEW p,
           Len(p.subs) \in Nat, DOMAIN p.subs = 1..Len(p.subs),
           \A k \in DOMAIN p.subs : p.subs[k].sub \in Name /\ ("root" \in w \/ Rooted(d, p.subs[k].sub))
    PROVE  Ran(d, mqtt3_handle_subscribe(d, i, p), w, P)
<1> DEFINE valid(k) == p.subs[k].sub # <<>> /\ _mosquitto_topic_wildcard_pos_check(p.subs[k].sub)
                       /\ p.subs[k].qos \in 0..2
           good == {k \in DOMAIN p.subs : \A l \in 1..k : valid(l)}
           m == Cardinality(good)
           list == SubSeq(p.subs, 1, m)
           x == Subscribes(d, i, list)
           r == mqtt3_handle_subscribe(d, i, p)
<1>1. r = failed(x.db) \/ r = suback(x, i, p.mid)
    BY DEF mqtt3_handle_subscribe, Subscribes
<1>2. m \in 0..Len(p.subs) /\ good = 1..m
    <2> DEFINE n == Len(p.subs)
               V == {l \in 1..n : valid(l)}
    <2>1. n \in Nat /\ DOMAIN p.subs = 1..n
        OBVIOUS
    <2>2. \A k \in 1..n : (\A l \in 1..k : valid(l)) <=> (\A l \in 1..k : l \in V)
        <3>1. \A k \in 1..n : \A l \in 1..k : l \in 1..n
            BY <2>1
        <3>2. \A l \in 1..n : l \in V <=> valid(l)
            OBVIOUS
        <3> HIDE DEF V, valid, n
        <3> QED BY <3>1, <3>2
    <2>3. good = Firsts(n, V)
        <3> HIDE DEF V, valid, n
        <3> QED BY <2>1, <2>2 DEF Firsts
    <2> HIDE DEF good, V, n
    <2>4. Cardinality(good) \in 0..n /\ good = 1..Cardinality(good)
        BY <2>1, <2>3, PrefixOk
    <2> QED BY <2>4 DEF n
<1>3. \A k \in 1..m : k \in DOMAIN p.subs /\ p.subs[k].qos \in 0..2
    <2>1. ASSUME NEW k \in 1..m PROVE k \in DOMAIN p.subs /\ p.subs[k].qos \in 0..2
        <3>1. k \in good
            BY <1>2
        <3>2. k \in DOMAIN p.subs /\ \A l \in 1..k : valid(l)
            BY <3>1
        <3>3. k \in 1..k
            OBVIOUS
        <3>4. valid(k)
            BY <3>2, <3>3
        <3> QED BY <3>2, <3>4
    <2> QED BY <2>1
<1> HIDE DEF good
<1> HIDE DEF m
<1>4. Len(list) = m /\ DOMAIN list = 1..m /\ m \in Nat /\ \A k \in 1..m : list[k] = p.subs[k]
    <2>1. m \in Nat
        BY <1>2
    <2> QED BY <1>2, <2>1, FirstOnes
<1> HIDE DEF list
<1>5. \A k \in 1..m : /\ list[k].sub \in Name /\ list[k].qos \in 0..2
                      /\ "root" \in w \/ Rooted(d, list[k].sub)
    BY <1>3, <1>4
<1>6. Sound(x.db, w) /\ Ends(d, x.db, P)
    BY <1>4, <1>5, SubscribesOk
<1> HIDE DEF x
<1>7. Ran(d, failed(x.db), w, P) /\ Ran(d, suback(x, i, p.mid), w, P)
    BY <1>6, DoneOk, SubackOk
<1> HIDE DEF r
<1>8. Ran(d, r, w, P)
    BY <1>1, <1>7
<1> QED BY <1>8 DEF r

-----------------------------------------------------------------------------
(* PUBLISH.                                                                *)

\* What a PUBLISH says.
Publication(p) == p.topic \in Name /\ p.qos \in 0..2 /\ p.mid \in Nat /\ p.retain \in BOOLEAN

\* The body of a message that has come in is in the store.
LEMMA StoreFindOk ==
    ASSUME NEW d, NEW w, Sound(d, w), NEW i, Live(d, i), NEW mid
    PROVE  mqtt3_db_message_store_find(d, i, mid) # NULL =>
             mqtt3_db_message_store_find(d, i, mid) \in DOMAIN d.store
<1> DEFINE ms == d.contexts[i].msgs
           found == {k \in DOMAIN ms : /\ ms[k].direction = "in"
                                       /\ d.store[ms[k].store].source_mid = mid}
           least == CHOOSE k \in found : \A l \in found : k <= l
<1>1. i \in Slots /\ d.contexts[i] # NULL
    BY DEF Live
<1>2. msgsOf(d.contexts, i) = ms /\ DOMAIN ms \subseteq Nat
    BY <1>1, LengthOk DEF msgsOf
<1>3. \A k \in DOMAIN ms : ms[k].store \in DOMAIN d.store
    BY <1>1, <1>2 DEF Sound, SoundBut, Pointed
<1>4. ASSUME found # {} PROVE least \in DOMAIN ms
    <2>1. found \subseteq Nat /\ found \subseteq DOMAIN ms
        BY <1>2
    <2> HIDE DEF found
    <2>2. \E k \in found : \A l \in found : k <= l
        BY <1>4, <2>1, LeastNat
    <2>3. least \in found
        BY <2>2, Zenon
    <2> QED BY <2>1, <2>3
<1>5. mqtt3_db_message_store_find(d, i, mid) = IF found = {} THEN NULL ELSE ms[least].store
    BY DEF mqtt3_db_message_store_find
<1> HIDE DEF found, least, ms
<1> QED BY <1>3, <1>4, <1>5

\* A body is stored, with the payload of a message or none.
Kept(d, e, w, P, topic) ==
    Sound(e, w) /\ Ends(d, e, P) /\ e.contexts = d.contexts /\ Newest(e, topic)

\* mqtt3_db_message_store keeps the broker sound and gives a body of that topic.
LEMMA KeptOk ==
    ASSUME NEW d, NEW w, Sound(d, w), NEW P, NEW source, NEW mid, NEW topic \in Name,
           NEW qos \in 0..2, NEW payload, payload \in P, NEW retain
    PROVE  Kept(d, mqtt3_db_message_store(d, source, mid, topic, qos, payload, retain), w, P, topic)
<1> DEFINE e == mqtt3_db_message_store(d, source, mid, topic, qos, payload, retain)
<1>0. e.contexts = d.contexts
    <2>1. DOMAIN d = DbFields
        BY DEF Sound, SoundBut, Typed
    <2> QED BY <2>1 DEF mqtt3_db_message_store, DbFields
<1>1. Safe(d, e, w, P) /\ Newest(e, topic)
    BY StoreOk
<1> HIDE DEF e
<1>4. Sound(e, w) /\ Stored(d, e, P)
    BY <1>1 DEF Safe
<1>2. Ends(d, e, P)
    BY <1>4, StoredEnds
<1>3. Kept(d, e, w, P, topic)
    BY <1>0, <1>1, <1>2, <1>4 DEF Kept
<1> QED BY <1>3 DEF e

\* A QoS 2 message is put among the incoming ones of its client.
LEMMA IncomingOk ==
    ASSUME NEW d, NEW e, NEW w, NEW P, Sound(e, w), Ends(d, e, P), NEW i, Live(e, i),
           NEW mid \in Nat, NEW retain \in BOOLEAN, NEW s \in DOMAIN e.store
    PROVE  Ran(d, mqtt3_db_message_insert(e, i, mid, "in", 2, retain, s), w, P)
<1> DEFINE f == Inserted(e, i, mid, "in", 2, retain, s)
<1>1. "in" \in {"in", "out"} /\ 2 \in 0..2
    OBVIOUS
<1>2. Queued(e, f, w)
    BY <1>1, InsertedOk
<1> HIDE DEF f
<1>3. Sound(f, w) /\ Ends(e, f, P)
    BY <1>2, FrameEnds DEF Queued
<1>4. Ends(d, f, P)
    BY <1>3, EndsTransitive
<1>5. mqtt3_db_message_insert(e, i, mid, "in", 2, retain, s).db = f
    BY DEF Inserted, f
<1> QED BY <1>3, <1>4, <1>5 DEF Ran

\* The payload of a message that has none.
NoPayload == ""

\* The message is dropped and acknowledged.
LEMMA BadMessageOk ==
    ASSUME NEW d, NEW w, Sound(d, w), NEW i, Live(d, i), NEW P, NoPayload \in P, NEW p, Publication(p)
    PROVE  Ran(d, bad_message(d, i, p), w, P)
<1> DEFINE found == mqtt3_db_message_store_find(d, i, p.mid)
           e == mqtt3_db_message_store(d, d.contexts[i].id, p.mid, NoTopic, 2, NoPayload, FALSE)
           r == mqtt3_db_message_insert(e, i, p.mid, "in", 2, FALSE, e.last_db_id)
<1>1. p.qos \in 0..2 /\ p.mid \in Nat /\ FALSE \in BOOLEAN /\ 2 \in 0..2
    <2>1. p.qos \in 0..2 /\ p.mid \in Nat
        BY Zenon DEF Publication
    <2>2. FALSE \in BOOLEAN
        BY Zenon
    <2>3. 2 \in 0..2
        OBVIOUS
    <2> QED BY <2>1, <2>2, <2>3, Zenon
<1>2. NoTopic \in Name
    BY EmptySeq DEF NoTopic, Name
<1>3. Kept(d, e, w, P, NoTopic)
    BY <1>1, <1>2, KeptOk
<1>4. Ends(d, d, P)
    BY EndsReflexive
<1>5. Ran(d, done(d), w, P)
    BY <1>4, DoneOk
<1>6. Ran(d, reply(d, i, "PUBACK", p.mid), w, P) /\ Ran(d, reply(d, i, "PUBREC", p.mid), w, P)
    BY <1>4, ReplyOk
<1> HIDE DEF e, r, found
<1>7. Sound(e, w) /\ Ends(d, e, P) /\ Live(e, i) /\ e.last_db_id \in DOMAIN e.store
    BY <1>3 DEF Kept, Live, Newest
<1>8. Ran(d, r, w, P)
    BY <1>1, <1>7, IncomingOk DEF r
<1>9. bad_message(d, i, p) =
        CASE p.qos = 0 -> done(d)
          [] p.qos = 1 -> reply(d, i, "PUBACK", p.mid)
          [] p.qos = 2 /\ found # NULL -> reply(d, i, "PUBREC", p.mid)
          [] OTHER -> IF r.rc = 0 THEN reply(r.db, i, "PUBREC", p.mid) ELSE r
    BY Zenon DEF bad_message, e, found, r, NoPayload
<1>10. Sound(r.db, w) /\ Ends(d, r.db, P)
    BY <1>8 DEF Ran
<1>11. Ran(d, reply(r.db, i, "PUBREC", p.mid), w, P)
    BY <1>10, ReplyOk
<1> QED BY <1>1, <1>5, <1>6, <1>8, <1>9, <1>11

\* A message that is accepted: found is the body of the one it repeats, or NULL.
body_of(e, found) == IF found # NULL THEN found ELSE e.last_db_id

Accepts(e, i, p, topic, found) ==
    LET s == IF found # NULL THEN found ELSE e.last_db_id
    IN IF p.qos < 2 THEN puback(distribute(e, i, p, topic, s), i, p)
       ELSE pubrec(IF found # NULL THEN done(e)
                   ELSE mqtt3_db_message_insert(e, i, p.mid, "in", 2, p.retain, s),
                   i, p.mid)

\* A PUBACK sent keeps what was kept.
LEMMA PubackOk ==
    ASSUME NEW d, NEW e, NEW w, NEW P, Sound(e, w), Ends(d, e, P), NEW i, NEW p
    PROVE  Ran(d, puback(e, i, p), w, P)
<1>1. Ran(d, done(e), w, P)
    BY DoneOk
<1>2. Ran(d, reply(e, i, "PUBACK", p.mid), w, P)
    BY ReplyOk
<1> QED BY <1>1, <1>2 DEF puback

\* A PUBREC sent keeps what was kept.
LEMMA PubrecReplyOk ==
    ASSUME NEW d, NEW r, NEW w, NEW P, Ran(d, r, w, P), NEW i, NEW mid
    PROVE  Ran(d, pubrec(r, i, mid), w, P)
<1>1. Sound(r.db, w) /\ Ends(d, r.db, P)
    BY DEF Ran
<1>2. Ran(d, reply(r.db, i, "PUBREC", mid), w, P)
    BY <1>1, ReplyOk
<1>3. Ran(d, done(r.db), w, P)
    BY <1>1, DoneOk
<1> QED BY <1>2, <1>3 DEF pubrec

\* An accepted publication is queued by its qos and keeps the broker sound.
LEMMA AcceptsOk ==
    ASSUME NEW d, NEW e, NEW w, NEW P, Sound(e, w), Ends(d, e, P), NEW i, Live(e, i),
           NEW p, Publication(p), NEW topic \in Name, NEW found,
           body_of(e, found) \in DOMAIN e.store,
           p.qos < 2 => TopicIs(e, w, body_of(e, found), topic)
    PROVE  Ran(d, Accepts(e, i, p, topic, found), w, P)
<1> DEFINE s == body_of(e, found)
           q == distribute(e, i, p, topic, s)
           r == IF found # NULL THEN done(e)
                ELSE mqtt3_db_message_insert(e, i, p.mid, "in", 2, p.retain, s)
<1>1. p.qos \in 0..2 /\ p.mid \in Nat /\ p.retain \in BOOLEAN
    BY Zenon DEF Publication
<1>2. Accepts(e, i, p, topic, found) = IF p.qos < 2 THEN puback(q, i, p) ELSE pubrec(r, i, p.mid)
    BY DEF Accepts, body_of
<1> HIDE DEF s
<1>3. s \in DOMAIN e.store /\ (p.qos < 2 => TopicIs(e, w, s, topic))
    BY DEF s
<1>4. ASSUME p.qos < 2 PROVE Ran(d, puback(q, i, p), w, P)
    <2>1. Sound(q, w) /\ Frame(e, q)
        <3>1. TopicIs(e, w, s, topic)
            BY <1>3, <1>4
        <3> QED BY <1>1, <1>3, <3>1, QueueOk DEF distribute
    <2> HIDE DEF q
    <2>2. Ends(d, q, P)
        BY <2>1, FrameEnds, EndsTransitive
    <2> QED BY <2>1, <2>2, PubackOk
<1>5. Ran(d, r, w, P)
    <2>1. Ran(d, done(e), w, P)
        BY DoneOk
    <2>2. Ran(d, mqtt3_db_message_insert(e, i, p.mid, "in", 2, p.retain, s), w, P)
        BY <1>1, <1>3, IncomingOk
    <2> QED BY <2>1, <2>2
<1> HIDE DEF q, r
<1>6. Ran(d, pubrec(r, i, p.mid), w, P)
    BY <1>5, PubrecReplyOk
<1> QED BY <1>2, <1>4, <1>6

\* A QoS 1 message with the identifier of a message of QoS 2 that is not finished.
Reused(d, i, p) == p.qos = 1 /\ mqtt3_db_message_store_find(d, i, p.mid) # NULL

\* A PUBLISH keeps the broker sound, and reuses the body of another topic only where "reuse" says
\* so.
LEMMA PublishOk ==
    ASSUME NEW d, NEW w, Sound(d, w), NEW i, Live(d, i), NEW P, NoPayload \in P,
           NEW p, Publication(p), p.payload \in P, Reused(d, i, p) => "reuse" \in w
    PROVE  Ran(d, mqtt3_handle_publish(d, i, p), w, P)
<1> DEFINE topic == d.config.mount_point \o p.topic
           found == IF p.qos > 0 THEN mqtt3_db_message_store_find(d, i, p.mid) ELSE NULL
           stored == mqtt3_db_message_store(d, d.contexts[i].id, p.mid, topic, p.qos,
                                            p.payload, p.retain)
           e == IF found # NULL THEN d ELSE stored
<1>1. p.qos \in 0..2 /\ p.mid \in Nat /\ p.retain \in BOOLEAN /\ p.topic \in Name
    BY Zenon DEF Publication
<1>2. topic \in Name
    <2>1. d.config.mount_point \in Name
        BY DEF Sound, SoundBut, Typed, usable
    <2> QED BY <1>1, <2>1, ConcatProperties DEF Name
<1>3. mqtt3_handle_publish(d, i, p) =
        IF p.topic = <<>> \/ ~_mosquitto_topic_wildcard_len_check(p.topic) THEN failed(d)
        ELSE IF p.payload = "large" \/ ~mosquitto_acl_check_default(d, i, topic, WRITE)
        THEN bad_message(d, i, p)
        ELSE Accepts(e, i, p, topic, found)
    BY Zenon DEF mqtt3_handle_publish, Accepts
<1> HIDE DEF topic
<1>4. Kept(d, stored, w, P, topic)
    BY <1>1, <1>2, KeptOk
<1>5. Ends(d, d, P)
    BY EndsReflexive
<1>6. Ran(d, failed(d), w, P)
    BY <1>5, DoneOk
<1>7. Ran(d, bad_message(d, i, p), w, P)
    BY BadMessageOk
<1> HIDE DEF stored
<1>8. Sound(e, w) /\ Ends(d, e, P) /\ Live(e, i)
    BY <1>4, <1>5 DEF Kept, Live
<1>9. body_of(e, found) \in DOMAIN e.store /\ (p.qos < 2 => TopicIs(e, w, body_of(e, found), topic))
    <2>1. CASE found = NULL
        <3>1. e = stored /\ body_of(e, found) = stored.last_db_id
            BY <2>1 DEF body_of
        <3> QED BY <1>4, <3>1 DEF Kept, Newest, TopicIs
    <2>2. CASE found # NULL
        <3>1. e = d /\ body_of(e, found) = found
            BY <2>2 DEF body_of
        <3>2. p.qos > 0 /\ found = mqtt3_db_message_store_find(d, i, p.mid)
            BY <2>2
        <3>3. found \in DOMAIN d.store
            BY <2>2, <3>2, StoreFindOk
        <3>4. p.qos < 2 => "reuse" \in w
            BY <1>1, <2>2, <3>2 DEF Reused
        <3> QED BY <3>1, <3>3, <3>4 DEF TopicIs
    <2> QED BY <2>1, <2>2
<1> HIDE DEF e, found
<1>10. Ran(d, Accepts(e, i, p, topic, found), w, P)
    BY <1>2, <1>8, <1>9, AcceptsOk
<1> QED BY <1>3, <1>6, <1>7, <1>10

-----------------------------------------------------------------------------
(* Packets of a connection.                                                *)

\* What a packet may do that the broker is not made for is known.
Expected(d, i, p, w) ==
    /\ p.type = "PUBREC" => (Early(d, i, p.mid) => "early" \in w)
    /\ p.type = "PUBLISH" => (Reused(d, i, p) => "reuse" \in w)
    /\ p.type = "SUBSCRIBE" =>
         \A k \in DOMAIN p.subs : "root" \in w \/ Rooted(d, p.subs[k].sub)

\* A packet that is neither a CONNECT nor the end of the connection.
LEMMA OthersOk ==
    ASSUME NEW d, NEW w, Sound(d, w), NEW i, Named(d, i), NEW P, NoPayload \in P,
           NEW p, readable(p), p.type = "PUBLISH" => p.payload \in P, Expected(d, i, p, w),
           p.type # "CONNECT", p.type # "lost", d.contexts[i].state # "new"
    PROVE  Ran(d, mqtt3_packet_handle(d, i, p), w, P)
<1>1. Live(d, i)
    BY DEF Named, Live
<1>2. Ends(d, d, P)
    BY EndsReflexive
<1>3. Ran(d, reply(d, i, "PINGRESP", 0), w, P)
    BY <1>2, ReplyOk
<1>4. Ran(d, failed(d), w, P)
    BY <1>2, DoneOk
<1>5. Ran(d, mqtt3_handle_disconnect(d, i), w, P)
    BY <1>1, GoodbyeOk
<1>6. ASSUME p.type = "SUBSCRIBE" PROVE Ran(d, mqtt3_handle_subscribe(d, i, p), w, P)
    <2>1. Len(p.subs) \in Nat /\ DOMAIN p.subs = 1..Len(p.subs)
        BY <1>6 DEF readable
    <2>2. \A k \in DOMAIN p.subs : p.subs[k].sub \in Name /\ ("root" \in w \/ Rooted(d, p.subs[k].sub))
        BY <1>6 DEF readable, Expected
    <2> QED BY <2>1, <2>2, SubscribePacketOk
<1>7. ASSUME p.type = "UNSUBSCRIBE" PROVE Ran(d, mqtt3_handle_unsubscribe(d, i, p), w, P)
    <2>1. p.sub \in Name
        BY <1>7 DEF readable
    <2> QED BY <2>1, UnsubscribeOk
<1>8. ASSUME p.type = "PUBLISH" PROVE Ran(d, mqtt3_handle_publish(d, i, p), w, P)
    <2>1. Publication(p) /\ p.payload \in P
        BY <1>8 DEF readable, Publication
    <2>2. Reused(d, i, p) => "reuse" \in w
        BY <1>8 DEF Expected
    <2> QED BY <1>1, <2>1, <2>2, PublishOk
<1>9. Ran(d, _mosquitto_handle_pubackcomp(d, i, p.mid), w, P)
    BY <1>1, PubackcompOk
<1>10. ASSUME p.type = "PUBREC" PROVE Ran(d, _mosquitto_handle_pubrec(d, i, p.mid), w, P)
    <2>1. Early(d, i, p.mid) => "early" \in w
        BY <1>10 DEF Expected
    <2> QED BY <1>1, <2>1, PubrecOk
<1>11. Ran(d, _mosquitto_handle_pubrel(d, i, p.mid), w, P)
    BY <1>1, PubrelOk
<1> QED BY <1>3, <1>4, <1>5, <1>6, <1>7, <1>8, <1>9, <1>10, <1>11 DEF mqtt3_packet_handle

\* A result that is an error ends the connection.
LEMMA AfterOk ==
    ASSUME NEW d, NEW r, NEW w, NEW P, Ran(d, r, w, P), NEW i, Live(d, i)
    PROVE  Sound(after(r, i), w) /\ Ends(d, after(r, i), P)
<1>1. Sound(r.db, w) /\ Ends(d, r.db, P)
    BY DEF Ran
<1>2. Live(r.db, i)
    BY <1>1, EndsLive
<1> DEFINE e == mqtt3_context_disconnect(r.db, i)
<1>3. Sound(e, w) /\ Ends(r.db, e, P)
    BY <1>1, <1>2, DisconnectOk
<1> HIDE DEF e
<1>4. Ends(d, e, P)
    BY <1>1, <1>3, EndsTransitive
<1>5. after(r, i) = IF r.rc = 0 THEN r.db ELSE e
    BY DEF after, e
<1> QED BY <1>1, <1>3, <1>4, <1>5

\* The wills of those that said goodbye, with that of the packet.
parted(G, d, i, p) == IF p.type = "DISCONNECT" THEN G \cup {d.contexts[i].will} ELSE G

\* A will that went unsent is one that no body has.
LEMMA PartedOk ==
    ASSUME NEW d, NEW G, NEW n \in Nat, NEW traffic, Willed(d, G, n, traffic), Apart(traffic, n),
           NEW i, Live(d, i), d.contexts[i].sock # NULL,
           NEW e, NEW P, Ends(d, e, P), Willed(e, G, n, traffic), Gone(e, i), e.store = d.store
    PROVE  Willed(e, G \cup {d.contexts[i].will}, n, traffic)
<1> DEFINE will == d.contexts[i].will
           c == d.contexts[i].sock
<1>1. i \in Slots /\ d.contexts[i] # NULL /\ c \in 1..n
      /\ (will # NULL => will.payload \in WillsOf(traffic, c))
    BY DEF Live, Willed
<1>2. Closed(e, c)
    <2>1. ASSUME NEW j \in Slots, e.contexts[j] # NULL, e.contexts[j].sock = c PROVE FALSE
        <3>1. Calmed(d.contexts[j], e.contexts[j])
            BY DEF Ends
        <3>2. d.contexts[j] # NULL /\ d.contexts[j].sock = c
            BY <2>1, <3>1 DEF Calmed
        <3>3. j = i
            BY <1>1, <3>2 DEF Willed
        <3> QED BY <2>1, <3>3 DEF Gone
    <2> QED BY <2>1 DEF Closed
<1>3. ASSUME will # NULL, NEW s \in DOMAIN e.store PROVE e.store[s].payload # will.payload
    <2>1. \/ d.store[s].payload \in Plain(traffic)
          \/ \E b \in 1..n : d.store[s].payload \in WillsOf(traffic, b) /\ Closed(d, b)
        BY DEF Willed
    <2>2. CASE d.store[s].payload \in Plain(traffic)
        BY <1>1, <1>3, <2>2 DEF Apart
    <2>3. ASSUME NEW b \in 1..n, d.store[s].payload \in WillsOf(traffic, b), Closed(d, b)
          PROVE  d.store[s].payload # will.payload
        <3>1. b # c
            BY <1>1, <2>3 DEF Closed
        <3> QED BY <1>1, <1>3, <2>3, <3>1 DEF Apart
    <2> QED BY <2>1, <2>2, <2>3
<1> HIDE DEF will, c
<1>4. \A v \in (G \cup {will}) \ {NULL} :
         /\ \E b \in 1..n : v.payload \in WillsOf(traffic, b) /\ Closed(e, b)
         /\ \A s \in DOMAIN e.store : e.store[s].payload # v.payload
    <2>1. ASSUME NEW v \in (G \cup {will}) \ {NULL}
          PROVE  /\ \E b \in 1..n : v.payload \in WillsOf(traffic, b) /\ Closed(e, b)
                 /\ \A s \in DOMAIN e.store : e.store[s].payload # v.payload
        <3>1. CASE v \in G
            BY <3>1 DEF Willed
        <3>2. CASE v = will
            BY <1>1, <1>2, <1>3, <3>2
        <3> QED BY <3>1, <3>2
    <2> QED BY <2>1
<1>5. Willed(e, G \cup {will}, n, traffic)
    BY <1>4 DEF Willed
<1> QED BY <1>5 DEF will

\* What a context with a connection may be sent.
LEMMA PayloadPlain ==
    ASSUME NEW traffic, NEW c \in Conns, NEW p \in traffic[c], p.type = "PUBLISH"
    PROVE  p.payload \in Plain(traffic)
BY DEF Plain

\* The empty payload is no will's alone.
LEMMA NoPayloadPlain ==
    ASSUME NEW traffic
    PROVE  NoPayload \in Plain(traffic)
BY Zenon DEF Plain, NoPayload

\* The contexts there are.
Lives(d, e) == \A j : Live(d, j) <=> Live(e, j)

\* A step that ends sessions adds no connection.
LEMMA EndsLives ==
    ASSUME NEW d, NEW e, NEW P, Ends(d, e, P)
    PROVE  Lives(d, e)
BY DEF Ends, Calmed, Live, Lives

\* The loop reads a packet that is not a CONNECT, or the end of the connection.
LEMMA ReadGood ==
    ASSUME NEW d, NEW w, NEW G, NEW n \in Nat, NEW traffic, Good(d, w, G, n, traffic), Apart(traffic, n),
           NEW i, Live(d, i), d.contexts[i].sock # NULL,
           NEW p \in traffic[d.contexts[i].sock], readable(p), Expected(d, i, p, w),
           p.type # "CONNECT"
    PROVE  /\ Good(loop_handle_read(d, i, p), w, parted(G, d, i, p), n, traffic)
           /\ Lives(d, loop_handle_read(d, i, p))
<1> DEFINE r == mqtt3_packet_handle(d, i, p)
           e == after(r, i)
           c == d.contexts[i].sock
           P == Plain(traffic)
           will == d.contexts[i].will
<1>1. /\ Sound(d, w) /\ Linked(d, {}) /\ Staged(d, {}) /\ Willed(d, G, n, traffic)
      /\ i \in Slots /\ d.contexts[i] # NULL
    BY DEF Good, Live
<1>2. c \in Conns
    <2>1. d.contexts[i] \in ContextType
        BY <1>1, MsgsOfType DEF Sound, SoundBut
    <2> QED BY <2>1 DEF ContextType
<1>3. NoPayload \in P /\ (p.type = "PUBLISH" => p.payload \in P)
    BY <1>2, PayloadPlain, NoPayloadPlain
<1>4. d.contexts[i].state = "new" <=> d.contexts[i].id = NULL
    BY <1>1 DEF Staged
<1> HIDE DEF P
<1>5. Ran(d, r, w, P)
    <2>1. CASE p.type = "lost" \/ d.contexts[i].state = "new"
        <3>1. r = failed(d)
            BY <2>1 DEF mqtt3_packet_handle
        <3>2. Ran(d, failed(d), w, P)
            BY <1>1, EndsReflexive, DoneOk
        <3> HIDE DEF r
        <3> QED BY <3>1, <3>2
    <2>2. CASE ~(p.type = "lost" \/ d.contexts[i].state = "new")
        <3>1. Named(d, i)
            BY <1>1, <1>4, <2>2 DEF Named
        <3> QED BY <1>1, <1>3, <2>2, <3>1, OthersOk
    <2> QED BY <2>1, <2>2
<1>6. loop_handle_read(d, i, p) = e
    BY DEF loop_handle_read
<1> HIDE DEF r
<1>7. Sound(e, w) /\ Ends(d, e, P)
    BY <1>5, AfterOk
<1>8. Good(e, w, G, n, traffic)
    <2> HIDE DEF e
    <2> QED BY <1>7, EndsGood DEF P
<1>9. ASSUME p.type # "DISCONNECT"
      PROVE  Good(e, w, parted(G, d, i, p), n, traffic)
    <2>1. parted(G, d, i, p) = G
        BY <1>9 DEF parted
    <2> HIDE DEF e
    <2> QED BY <1>6, <1>8, <2>1
<1>10. ASSUME p.type = "DISCONNECT", d.contexts[i].state = "new"
       PROVE  Good(e, w, parted(G, d, i, p), n, traffic)
    <2>1. will = NULL
        BY <1>1, <1>10 DEF Willed
    <2>2. parted(G, d, i, p) = G \cup {NULL}
        BY <1>10, <2>1 DEF parted
    <2>3. (G \cup {NULL}) \ {NULL} = G \ {NULL}
        OBVIOUS
    <2> HIDE DEF e
    <2>4. Willed(e, G \cup {NULL}, n, traffic)
        BY <1>8, <2>3 DEF Good, Willed
    <2> QED BY <1>8, <2>2, <2>4 DEF Good
<1>11. ASSUME p.type = "DISCONNECT", d.contexts[i].state # "new"
       PROVE  Good(e, w, parted(G, d, i, p), n, traffic)
    <2> DEFINE g == mqtt3_handle_disconnect(d, i)
    <2>1. r = g
        BY <1>11 DEF r, mqtt3_packet_handle
    <2>2. g.rc = 0
        BY DEF mqtt3_handle_disconnect, done
    <2>3. Gone(g.db, i) /\ g.db.store = d.store
        BY <1>1, GoodbyeOk
    <2> HIDE DEF g
    <2>4. e = g.db
        BY <2>1, <2>2 DEF after
    <2> HIDE DEF e
    <2>5. Gone(e, i) /\ e.store = d.store
        BY <2>3, <2>4
    <2>6. Willed(e, G, n, traffic)
        BY <1>8 DEF Good
    <2>7. Willed(e, G \cup {will}, n, traffic)
        BY <1>1, <1>7, <2>5, <2>6, PartedOk
    <2>8. parted(G, d, i, p) = G \cup {will}
        BY <1>11 DEF parted
    <2> HIDE DEF will
    <2> QED BY <1>8, <2>7, <2>8 DEF Good
<1> HIDE DEF e
<1>12. Lives(d, e)
    BY <1>7, EndsLives
<1> QED BY <1>6, <1>9, <1>10, <1>11, <1>12

-----------------------------------------------------------------------------
(* CONNECT: refusals, and what becomes of the contexts.                    *)

\* A refused connection is answered or not, and closed.
LEMMA RefuseOk ==
    ASSUME NEW d, NEW w, Sound(d, w), NEW i, Live(d, i), NEW P, NEW why
    PROVE  Ran(d, refuse(d, i, why), w, P) /\ Gone(refuse(d, i, why).db, i)
<1> DEFINE a == IF why[1] = 0 THEN d ELSE _mosquitto_send_connack(d, i, why[1]).db
           e == mqtt3_context_disconnect(a, i)
<1>1. Ends(d, d, P)
    BY EndsReflexive
<1>2. Ran(d, _mosquitto_send_connack(d, i, why[1]), w, P)
    BY <1>1, AnsweredOk DEF _mosquitto_send_connack
<1>3. Sound(a, w) /\ Ends(d, a, P)
    BY <1>1, <1>2 DEF Ran
<1>4. refuse(d, i, why).db = e
    BY DEF refuse
<1> HIDE DEF a
<1>5. Live(a, i)
    BY <1>3, EndsLive
<1>6. Sound(e, w) /\ Ends(a, e, P) /\ Gone(e, i)
    BY <1>3, <1>5, DisconnectOk
<1> HIDE DEF e
<1>7. Ends(d, e, P)
    BY <1>3, <1>6, EndsTransitive
<1> QED BY <1>4, <1>6, <1>7 DEF Ran

\* The names that a packet that is not refused gives.
WellFormed(p) ==
    /\ p \in sent("CONNECT") /\ p.protocol \in {"mqtt31", "mqtt311"}
    /\ p.clean_session \in BOOLEAN /\ p.bridge \in BOOLEAN

\* A context named by its CONNECT has the messages it had.
LEMMA NamedOk ==
    ASSUME NEW c \in ContextType, NEW p, WellFormed(p), NEW by
    PROVE  SameMessages(c, named(c, p, by)) /\ SamePerson(c, named(c, p, by))
<1> DEFINE username == IF by THEN p.identity ELSE p.username
           password == IF by THEN NULL ELSE p.password
           c1 == [c EXCEPT !.protocol = p.protocol]
           c2 == [c1 EXCEPT !.username = username]
           c3 == [c2 EXCEPT !.password = password]
<1>1. username \in Usernames /\ password \in Passwords /\ p.protocol \in {"mqtt31", "mqtt311", NULL}
    BY DEF Usernames, Passwords, WellFormed
<1>2. named(c, p, by) = c3
    BY DEF named, ContextType
<1> HIDE DEF username, password, c3
<1>3. /\ c1 \in ContextType /\ c1.msgs = c.msgs /\ c1.msg_count12 = c.msg_count12
      /\ c1.id = c.id /\ c1.sock = c.sock /\ c1.state = c.state /\ c1.clean_session = c.clean_session
      /\ c1.will = c.will /\ c1.acl_list = c.acl_list /\ c1.listener = c.listener
    BY <1>1 DEF ContextType
<1> HIDE DEF c1
<1>4. /\ c2 \in ContextType /\ c2.msgs = c.msgs /\ c2.msg_count12 = c.msg_count12
      /\ c2.id = c.id /\ c2.sock = c.sock /\ c2.state = c.state /\ c2.clean_session = c.clean_session
      /\ c2.will = c.will /\ c2.acl_list = c.acl_list /\ c2.listener = c.listener
    BY <1>1, <1>3 DEF ContextType
<1> HIDE DEF c2
<1>5. /\ c3 \in ContextType /\ c3.msgs = c.msgs /\ c3.msg_count12 = c.msg_count12
      /\ c3.id = c.id /\ c3.sock = c.sock /\ c3.state = c.state /\ c3.clean_session = c.clean_session
      /\ c3.will = c.will /\ c3.acl_list = c.acl_list /\ c3.listener = c.listener
    BY <1>1, <1>4 DEF ContextType, c3
<1> QED BY <1>2, <1>5, NullAssumption DEF SameMessages, SamePerson

\* The old context gets the connection of the new one.
LEMMA ResumedOk ==
    ASSUME NEW b \in ContextType, NEW c \in ContextType
    PROVE  /\ SameMessages(b, resumed(b, c)) /\ resumed(b, c) # NULL
           /\ resumed(b, c).id = b.id /\ resumed(b, c).sock = c.sock
           /\ resumed(b, c).state = "connected" /\ resumed(b, c).will = b.will
           /\ resumed(b, c).acl_list = b.acl_list
<1> DEFINE e == resumed(b, c)
           b1 == [b EXCEPT !.state = "connected"]
           b2 == [b1 EXCEPT !.sock = c.sock]
           b3 == [b2 EXCEPT !.listener = c.listener]
           b4 == [b3 EXCEPT !.username = c.username]
<1>1. c.sock \in Conns \cup {NULL} /\ c.listener \in BOOLEAN /\ c.username \in Usernames
    BY DEF ContextType
<1>2. e = b4
    BY DEF resumed, ContextType
<1> HIDE DEF b4
<1>3. b1 \in ContextType /\ b1.msgs = b.msgs /\ b1.msg_count12 = b.msg_count12
    BY DEF ContextType
<1> HIDE DEF b1
<1>4. b2 \in ContextType /\ b2.msgs = b.msgs /\ b2.msg_count12 = b.msg_count12
    BY <1>1, <1>3 DEF ContextType
<1> HIDE DEF b2
<1>5. b3 \in ContextType /\ b3.msgs = b.msgs /\ b3.msg_count12 = b.msg_count12
    BY <1>1, <1>4 DEF ContextType
<1> HIDE DEF b3
<1>6. b4 \in ContextType /\ b4.msgs = b.msgs /\ b4.msg_count12 = b.msg_count12
    BY <1>1, <1>5 DEF ContextType, b4
<1>7. /\ e.id = b.id /\ e.sock = c.sock /\ e.state = "connected" /\ e.will = b.will
      /\ e.acl_list = b.acl_list
    BY DEF resumed, ContextType
<1> HIDE DEF e
<1>8. SameMessages(b, e) /\ e # NULL
    BY <1>2, <1>6, NullAssumption DEF SameMessages
<1> QED BY <1>7, <1>8 DEF e

\* The new one is left without.
LEMMA AbandonedOk ==
    ASSUME NEW c \in ContextType
    PROVE  /\ SameMessages(c, abandoned(c)) /\ abandoned(c) # NULL
           /\ abandoned(c).id = c.id /\ abandoned(c).sock = NULL
           /\ abandoned(c).state = "disconnecting" /\ abandoned(c).will = c.will
           /\ abandoned(c).acl_list = c.acl_list
<1> DEFINE e == abandoned(c)
<1>1. e \in ContextType /\ e.msgs = c.msgs /\ e.msg_count12 = c.msg_count12
    BY DEF abandoned, ContextType
<1>2. /\ e.id = c.id /\ e.sock = NULL /\ e.state = "disconnecting" /\ e.will = c.will
      /\ e.acl_list = c.acl_list
    BY DEF abandoned, ContextType
<1> HIDE DEF e
<1>3. SameMessages(c, e) /\ e # NULL
    BY <1>1, NullAssumption DEF SameMessages
<1> QED BY <1>2, <1>3 DEF e

\* The client id, and what comes with it.
LEMMA IdentifiedOk ==
    ASSUME NEW c \in ContextType, NEW id \in Ids, NEW p, WellFormed(p), NEW n \in Nat
    PROVE  LET e == identified([c EXCEPT !.acl_list = n], id, p)
           IN /\ SameMessages(c, e) /\ e # NULL
              /\ e.id = id /\ e.sock = c.sock /\ e.state = c.state /\ e.will = c.will
              /\ e.acl_list = n
<1> DEFINE c0 == [c EXCEPT !.acl_list = n]
           e == identified(c0, id, p)
           c1 == [c0 EXCEPT !.id = id]
           c2 == [c1 EXCEPT !.clean_session = p.clean_session]
           c3 == [c2 EXCEPT !.is_bridge = c0.is_bridge \/ p.bridge]
<1>1. p.clean_session \in BOOLEAN /\ (c0.is_bridge \/ p.bridge) \in BOOLEAN
    <2>1. p.clean_session \in BOOLEAN
        BY DEF WellFormed
    <2>2. (c0.is_bridge \/ p.bridge) \in BOOLEAN
        BY Zenon
    <2> QED BY <2>1, <2>2
<1>2. /\ c0 \in ContextType /\ c0.msgs = c.msgs /\ c0.msg_count12 = c.msg_count12
      /\ c0.sock = c.sock /\ c0.state = c.state /\ c0.will = c.will /\ c0.acl_list = n
    BY DEF ContextType
<1> HIDE DEF c0
<1>3. e = c3
    BY <1>2 DEF identified, ContextType
<1>7. e.id = id /\ e.sock = c.sock /\ e.state = c.state /\ e.will = c.will /\ e.acl_list = n
    BY <1>2 DEF identified, ContextType
<1> HIDE DEF e, c3
<1>4. c1 \in ContextType /\ c1.msgs = c.msgs /\ c1.msg_count12 = c.msg_count12
    BY <1>2 DEF ContextType
<1> HIDE DEF c1
<1>5. c2 \in ContextType /\ c2.msgs = c.msgs /\ c2.msg_count12 = c.msg_count12
    BY <1>1, <1>4 DEF ContextType
<1> HIDE DEF c2
<1>6. c3 \in ContextType /\ c3.msgs = c.msgs /\ c3.msg_count12 = c.msg_count12
    BY <1>1, <1>5 DEF ContextType, c3
<1>8. SameMessages(c, e) /\ e # NULL
    BY <1>3, <1>6, NullAssumption DEF SameMessages
<1> QED BY <1>7, <1>8 DEF e, c0

\* An entry of the access list, or none.
LEMMA AclUserOk ==
    ASSUME NEW S, NEW list \in Seq(S), NEW username
    PROVE  acl_user(list, username) \in 0..Len(list)
<1> DEFINE hits == {k \in DOMAIN list : list[k].username = username}
           n == Len(list)
<1>1. n \in Nat /\ DOMAIN list = 1..n
    BY LenProperties
<1>2. acl_user(list, username) = IF hits = {} THEN 0 ELSE first(hits)
    BY DEF acl_user
<1> HIDE DEF n
<1>3. hits \subseteq Nat /\ hits \subseteq 1..n
    BY <1>1
<1> HIDE DEF hits
<1>4. ASSUME hits # {} PROVE first(hits) \in 0..n
    <2>1. first(hits) \in hits
        BY <1>3, <1>4, FirstOk
    <2> HIDE DEF first
    <2>2. first(hits) \in 1..n
        BY <1>3, <2>1
    <2> QED BY <1>1, <2>2
<1>5. 0 \in 0..n
    BY <1>1
<1> QED BY <1>2, <1>4, <1>5 DEF n

\* One context is replaced by another with the same messages; client ids, access
\* lists and configuration are what they were.
LEMMA OnlyContext ==
    ASSUME NEW d, NEW w, Sound(d, w), NEW i, Live(d, i), NEW c, SameMessages(d.contexts[i], c)
    PROVE  LET e == [d EXCEPT !.contexts[i] = c]
           IN /\ Sound(e, w) /\ e.contexts[i] = c /\ c # NULL
              /\ \A j \in Slots \ {i} : e.contexts[j] = d.contexts[j]
              /\ e.cih = d.cih /\ e.acl_list = d.acl_list /\ e.config = d.config
              /\ e.subs = d.subs /\ e.store = d.store
<1> DEFINE e == [d EXCEPT !.contexts[i] = c]
<1>1. DOMAIN d = DbFields /\ i \in Slots /\ usable(d.config) /\ d.contexts[i] # NULL
    BY DEF Sound, SoundBut, Typed, Live
<1>2. /\ DOMAIN e = DbFields /\ e.contexts = [d.contexts EXCEPT ![i] = c]
      /\ e.store = d.store /\ e.subs = d.subs /\ e.last_db_id = d.last_db_id
      /\ e.cih = d.cih /\ e.acl_list = d.acl_list /\ e.config = d.config
    BY <1>1 DEF DbFields
<1> HIDE DEF e
<1>3. Recasts(d, e, i, c)
    <2>1. usable(e.config)
        BY <1>1, <1>2
    <2> QED BY <1>2, <2>1 DEF Recasts
<1>4. Sound(e, w) /\ e.contexts[i] = c /\ c # NULL /\ \A j \in Slots \ {i} : e.contexts[j] = d.contexts[j]
    BY <1>1, <1>3, RecastOk
<1>5. /\ Sound(e, w) /\ e.contexts[i] = c /\ c # NULL
      /\ \A j \in Slots \ {i} : e.contexts[j] = d.contexts[j]
      /\ e.cih = d.cih /\ e.acl_list = d.acl_list /\ e.config = d.config
      /\ e.subs = d.subs /\ e.store = d.store
    BY <1>2, <1>4
<1> QED BY <1>5 DEF e

\* The context of a connection gets its names.
LEMMA NameContextOk ==
    ASSUME NEW d, NEW w, Sound(d, w), NEW i, Live(d, i), NEW p, WellFormed(p)
    PROVE  Sound(name_context(d, i, p), w) /\ Frame(d, name_context(d, i, p))
<1> DEFINE by == d.config.use_identity_as_username
           b == d.contexts[i]
           c == named(b, p, by)
           e == [d EXCEPT !.contexts[i] = c]
<1>1. b \in ContextType /\ i \in Slots /\ b # NULL
    BY MsgsOfType DEF Sound, SoundBut, Live
<1>2. SameMessages(b, c) /\ SamePerson(b, c)
    BY <1>1, NamedOk
<1>3. name_context(d, i, p) = e
    BY DEF name_context
<1> HIDE DEF c
<1>4. /\ Sound(e, w) /\ e.contexts[i] = c /\ c # NULL
      /\ \A j \in Slots \ {i} : e.contexts[j] = d.contexts[j]
      /\ e.cih = d.cih /\ e.acl_list = d.acl_list /\ e.config = d.config
      /\ e.subs = d.subs /\ e.store = d.store
    BY <1>2, OnlyContext
<1> HIDE DEF e
<1>5. Frame(d, e)
    <2>1. \A j \in Slots : SamePerson(d.contexts[j], e.contexts[j])
        <3>1. ASSUME NEW j \in Slots PROVE SamePerson(d.contexts[j], e.contexts[j])
            <4>1. CASE j = i
                BY <1>2, <1>4, <4>1
            <4>2. CASE j # i
                BY <1>4, <4>2 DEF SamePerson
            <4> QED BY <4>1, <4>2
        <3> QED BY <3>1
    <2> QED BY <1>4, <2>1 DEF Frame
<1> QED BY <1>3, <1>4, <1>5

\* What taking over makes of d: context k has the connection of context i, and no
\* context has the client id.
Taken(d, e, i, k, id) ==
    /\ e.acl_list = d.acl_list /\ e.config = d.config
    /\ DOMAIN e.cih = DOMAIN d.cih \ {id} /\ \A x \in DOMAIN e.cih : e.cih[x] = d.cih[x]
    /\ e.contexts[k] # NULL /\ e.contexts[k].id = NULL /\ e.contexts[k].will = NULL
    /\ e.contexts[k].sock = d.contexts[i].sock /\ e.contexts[k].state \in {"new", "connected"}
    /\ e.contexts[k].acl_list = d.contexts[k].acl_list
    /\ k # i =>
         /\ e.contexts[i] # NULL /\ e.contexts[i].id = NULL /\ e.contexts[i].will = NULL
         /\ e.contexts[i].sock = NULL /\ e.contexts[i].state = "disconnecting"
         /\ e.contexts[i].acl_list = d.contexts[i].acl_list
    /\ \A j \in Slots \ {i, k} : SamePerson(d.contexts[j], e.contexts[j])
    /\ Members(e.subs) \subseteq Members(d.subs)
    /\ DOMAIN e.store = DOMAIN d.store
    /\ \A s \in DOMAIN d.store : e.store[s].payload = d.store[s].payload

\* A context that is not yet anyone's.
Fresh(d, i) ==
    /\ Live(d, i) /\ d.contexts[i].sock # NULL /\ d.contexts[i].id = NULL
    /\ d.contexts[i].state = "new" /\ d.contexts[i].will = NULL

\* A client id nobody holds is taken from nobody.
LEMMA NotTaken ==
    ASSUME NEW d, NEW i, Fresh(d, i), NEW id, id \notin DOMAIN d.cih
    PROVE  Taken(d, d, i, i, id)
BY DEF Taken, Fresh, Live, SamePerson

\* What is left when the session starts over is still taken.
LEMMA TakenFrame ==
    ASSUME NEW d, NEW e, NEW f, NEW i \in Slots, NEW k \in Slots, NEW id, Taken(d, e, i, k, id), Frame(e, f)
    PROVE  Taken(d, f, i, k, id)
<1>1. /\ f.cih = e.cih /\ f.acl_list = e.acl_list /\ f.config = e.config
      /\ Members(f.subs) \subseteq Members(e.subs) /\ DOMAIN f.store = DOMAIN e.store
      /\ \A s \in DOMAIN e.store : f.store[s].payload = e.store[s].payload
      /\ \A j \in Slots : SamePerson(e.contexts[j], f.contexts[j])
    BY DEF Frame
<1>2. \A j \in Slots \ {i, k} : SamePerson(d.contexts[j], f.contexts[j])
    BY <1>1 DEF Taken, SamePerson
<1>3. /\ f.contexts[k] # NULL /\ f.contexts[k].id = NULL /\ f.contexts[k].will = NULL
      /\ f.contexts[k].sock = d.contexts[i].sock /\ f.contexts[k].state \in {"new", "connected"}
      /\ f.contexts[k].acl_list = d.contexts[k].acl_list
    BY <1>1 DEF Taken, SamePerson
<1>4. k # i =>
         /\ f.contexts[i] # NULL /\ f.contexts[i].id = NULL /\ f.contexts[i].will = NULL
         /\ f.contexts[i].sock = NULL /\ f.contexts[i].state = "disconnecting"
         /\ f.contexts[i].acl_list = d.contexts[i].acl_list
    BY <1>1 DEF Taken, SamePerson
<1>5. /\ f.acl_list = d.acl_list /\ f.config = d.config
      /\ DOMAIN f.cih = DOMAIN d.cih \ {id} /\ \A x \in DOMAIN f.cih : f.cih[x] = d.cih[x]
      /\ Members(f.subs) \subseteq Members(d.subs)
      /\ DOMAIN f.store = DOMAIN d.store
      /\ \A s \in DOMAIN d.store : f.store[s].payload = d.store[s].payload
    BY <1>1 DEF Taken
<1> QED BY <1>2, <1>3, <1>4, <1>5 DEF Taken

\* The session is clean or not from now on.
LEMMA CleanSessionSet ==
    ASSUME NEW d, NEW w, Sound(d, w), NEW k, Live(d, k), NEW clean \in BOOLEAN
    PROVE  LET e == [d EXCEPT !.contexts[k].clean_session = clean]
           IN Sound(e, w) /\ Live(e, k) /\ e.cih = d.cih /\ e.acl_list = d.acl_list
              /\ e.config = d.config /\ e.subs = d.subs /\ e.store = d.store
              /\ (\A j \in Slots \ {k} : e.contexts[j] = d.contexts[j])
              /\ e.contexts[k].id = d.contexts[k].id /\ e.contexts[k].acl_list = d.contexts[k].acl_list
              /\ e.contexts[k].sock = d.contexts[k].sock /\ e.contexts[k].state = d.contexts[k].state
              /\ e.contexts[k].will = d.contexts[k].will /\ e.contexts[k].clean_session = clean
<1> DEFINE b == d.contexts[k]
           c == [b EXCEPT !.clean_session = clean]
           e == [d EXCEPT !.contexts[k].clean_session = clean]
           f == [d EXCEPT !.contexts[k] = c]
<1>1. b \in ContextType /\ k \in Slots /\ b # NULL
    BY MsgsOfType DEF Sound, SoundBut, Live
<1>2. c \in ContextType /\ c.msgs = b.msgs /\ c.msg_count12 = b.msg_count12
      /\ c.id = b.id /\ c.acl_list = b.acl_list /\ c.sock = b.sock /\ c.state = b.state
      /\ c.will = b.will /\ c.clean_session = clean
    BY <1>1 DEF ContextType
<1>3. e = f
    OBVIOUS
<1> HIDE DEF c
<1>4. SameMessages(b, c)
    BY <1>2 DEF SameMessages
<1>5. /\ Sound(f, w) /\ f.contexts[k] = c /\ c # NULL
      /\ \A j \in Slots \ {k} : f.contexts[j] = d.contexts[j]
      /\ f.cih = d.cih /\ f.acl_list = d.acl_list /\ f.config = d.config
      /\ f.subs = d.subs /\ f.store = d.store
    BY <1>4, OnlyContext
<1> HIDE DEF f
<1>6. Live(f, k)
    BY <1>1, <1>5 DEF Live
<1> HIDE DEF b, e
<1>7. /\ Sound(e, w) /\ Live(e, k) /\ e.cih = d.cih /\ e.acl_list = d.acl_list
      /\ e.config = d.config /\ e.subs = d.subs /\ e.store = d.store
      /\ (\A j \in Slots \ {k} : e.contexts[j] = d.contexts[j])
      /\ e.contexts[k].id = b.id /\ e.contexts[k].acl_list = b.acl_list
      /\ e.contexts[k].sock = b.sock /\ e.contexts[k].state = b.state
      /\ e.contexts[k].will = b.will /\ e.contexts[k].clean_session = clean
    BY <1>2, <1>3, <1>5, <1>6
<1> QED BY <1>7 DEF e, b

\* Starting a clean session over keeps the broker sound.
LEMMA ResetSessionOk ==
    ASSUME NEW d, NEW w, Sound(d, w), NEW k, Live(d, k)
    PROVE  Sound(reset_session(d, k), w) /\ Frame(d, reset_session(d, k))
<1> DEFINE e == mqtt3_db_message_reconnect_reset(d, k)
<1>1. k \in Slots /\ d.contexts[k] # NULL
    BY DEF Live
<1>2. Sound(e, w) /\ Frame(d, e)
    BY <1>1, ResetOk
<1>3. Frame(d, d)
    BY FrameReflexive
<1>4. reset_session(d, k) = IF d.contexts[k].msgs = <<>> THEN d ELSE e
    BY DEF reset_session
<1> HIDE DEF e
<1> QED BY <1>2, <1>3, <1>4

\* The connection changes contexts.
handed(d, i, k, c) ==
    [d EXCEPT !.contexts[k] = resumed(@, c), !.contexts[i] = abandoned(@)]

\* Handing the socket of a new connection to the context of an old one touches only the two.
LEMMA HandedOk ==
    ASSUME NEW d, NEW w, Sound(d, w), NEW k, Live(d, k), NEW i, Live(d, i), k # i, NEW c \in ContextType
    PROVE  LET e == handed(d, i, k, c)
           IN /\ Sound(e, w)
              /\ e.contexts[k] = resumed(d.contexts[k], c)
              /\ e.contexts[i] = abandoned(d.contexts[i])
              /\ \A j \in Slots \ {i, k} : e.contexts[j] = d.contexts[j]
              /\ e.cih = d.cih /\ e.acl_list = d.acl_list /\ e.config = d.config
              /\ e.subs = d.subs /\ e.store = d.store
<1> DEFINE b == resumed(d.contexts[k], c)
           f == [d EXCEPT !.contexts[k] = b]
           g == abandoned(f.contexts[i])
           e == [f EXCEPT !.contexts[i] = g]
<1>1. k \in Slots /\ i \in Slots /\ d.contexts[k] \in ContextType /\ d.contexts[i] \in ContextType
    BY MsgsOfType DEF Sound, SoundBut, Live
<1>2. SameMessages(d.contexts[k], b)
    BY <1>1, ResumedOk
<1>3. handed(d, i, k, c) = e
    BY DEF handed
<1> HIDE DEF b
<1>4. /\ Sound(f, w) /\ f.contexts[k] = b /\ b # NULL
      /\ \A j \in Slots \ {k} : f.contexts[j] = d.contexts[j]
      /\ f.cih = d.cih /\ f.acl_list = d.acl_list /\ f.config = d.config
      /\ f.subs = d.subs /\ f.store = d.store
    BY <1>2, OnlyContext
<1> HIDE DEF f
<1>5. f.contexts[i] = d.contexts[i] /\ Live(f, i)
    BY <1>1, <1>4 DEF Live
<1>6. SameMessages(f.contexts[i], g)
    BY <1>1, <1>5, AbandonedOk
<1>7. g = abandoned(d.contexts[i])
    BY <1>5
<1> HIDE DEF g
<1>8. /\ Sound(e, w) /\ e.contexts[i] = g /\ g # NULL
      /\ \A j \in Slots \ {i} : e.contexts[j] = f.contexts[j]
      /\ e.cih = f.cih /\ e.acl_list = f.acl_list /\ e.config = f.config
      /\ e.subs = f.subs /\ e.store = f.store
    <2>1. Sound(f, w) /\ Live(f, i) /\ SameMessages(f.contexts[i], g)
        BY <1>4, <1>5, <1>6
    <2> QED BY <2>1, OnlyContext
<1> HIDE DEF e
<1>9. /\ Sound(e, w) /\ e.contexts[k] = b /\ e.contexts[i] = abandoned(d.contexts[i])
      /\ \A j \in Slots \ {i, k} : e.contexts[j] = d.contexts[j]
      /\ e.cih = d.cih /\ e.acl_list = d.acl_list /\ e.config = d.config
      /\ e.subs = d.subs /\ e.store = d.store
    BY <1>1, <1>4, <1>7, <1>8
<1> QED BY <1>3, <1>9 DEF b

\* Taking over the session of a known client id keeps the broker sound.
LEMMA TakeoverOk ==
    ASSUME NEW d, NEW w, Sound(d, w), Linked(d, {}), NEW i, Fresh(d, i),
           NEW id \in DOMAIN d.cih, NEW p, WellFormed(p)
    PROVE  LET k == d.cih[id]
           IN /\ k # i /\ Live(d, k)
              /\ Sound(takeover(d, i, k, p), w) /\ Taken(d, takeover(d, i, k, p), i, k, id)
<1> DEFINE k == d.cih[id]
           c == d.contexts[i]
           a == [d EXCEPT !.contexts[k].clean_session = p.clean_session]
           b == mqtt3_context_cleanup(a, k)
           f == handed(b, i, k, c)
           e == reset_session(f, k)
<1>1. /\ i \in Slots /\ c # NULL /\ c.sock # NULL /\ c.id = NULL /\ c.will = NULL /\ Live(d, i)
      /\ c \in ContextType
    BY MsgsOfType DEF Fresh, Live, Sound, SoundBut
<1>2. id # NULL /\ Live(d, k) /\ d.contexts[k].id = id /\ NULL \notin DOMAIN d.cih
    BY DEF Linked, Live
<1>3. k # i
    BY <1>1, <1>2
<1>4. takeover(d, i, k, p) = e
    BY DEF takeover, handed
<1>5. p.clean_session \in BOOLEAN
    BY DEF WellFormed
<1> HIDE DEF k
<1>6. /\ Sound(a, w) /\ Live(a, k) /\ a.cih = d.cih /\ a.acl_list = d.acl_list
      /\ a.config = d.config /\ a.subs = d.subs /\ a.store = d.store
      /\ (\A j \in Slots \ {k} : a.contexts[j] = d.contexts[j])
      /\ a.contexts[k].id = id /\ a.contexts[k].acl_list = d.contexts[k].acl_list
    BY <1>2, <1>5, CleanSessionSet
<1> HIDE DEF a
<1>7. NULL \notin DOMAIN a.cih
    BY <1>2, <1>6
<1>8. Sound(b, w) /\ Stripped(a, b, k)
    BY <1>6, <1>7, CleanupOk
<1> HIDE DEF b
<1>9. /\ b.acl_list = a.acl_list /\ b.config = a.config
      /\ DOMAIN b.cih = DOMAIN a.cih \ {a.contexts[k].id}
      /\ \A x \in DOMAIN b.cih : b.cih[x] = a.cih[x]
      /\ b.contexts[k] # NULL
      /\ b.contexts[k].id = NULL /\ b.contexts[k].sock = NULL /\ b.contexts[k].will = NULL
      /\ b.contexts[k].acl_list = a.contexts[k].acl_list
      /\ \A j \in Slots \ {k} : SamePerson(a.contexts[j], b.contexts[j])
      /\ Members(b.subs) \subseteq Members(a.subs)
      /\ DOMAIN b.store = DOMAIN a.store
      /\ \A s \in DOMAIN a.store : b.store[s].payload = a.store[s].payload
    BY <1>8 DEF Stripped
<1>10. \A j \in Slots \ {k} : SamePerson(d.contexts[j], b.contexts[j])
    BY <1>6, <1>9
<1>11. /\ b.contexts[i] # NULL /\ b.contexts[i].id = NULL /\ b.contexts[i].will = NULL
       /\ b.contexts[i].acl_list = c.acl_list
    BY <1>1, <1>3, <1>10 DEF SamePerson
<1>12. k \in Slots /\ Live(b, k) /\ Live(b, i) /\ b.contexts[k] \in ContextType /\ b.contexts[i] \in ContextType
    BY <1>1, <1>2, <1>8, <1>9, <1>11, MsgsOfType DEF Live, Sound, SoundBut
<1> HIDE DEF c
<1>13. /\ Sound(f, w)
       /\ f.contexts[k] = resumed(b.contexts[k], c)
       /\ f.contexts[i] = abandoned(b.contexts[i])
       /\ \A j \in Slots \ {i, k} : f.contexts[j] = b.contexts[j]
       /\ f.cih = b.cih /\ f.acl_list = b.acl_list /\ f.config = b.config
       /\ f.subs = b.subs /\ f.store = b.store
    BY <1>1, <1>3, <1>8, <1>12, HandedOk
<1> HIDE DEF f
<1>14. /\ f.contexts[k] # NULL /\ f.contexts[k].id = NULL /\ f.contexts[k].will = NULL
       /\ f.contexts[k].sock = c.sock /\ f.contexts[k].state = "connected"
       /\ f.contexts[k].acl_list = d.contexts[k].acl_list
    BY <1>1, <1>6, <1>9, <1>12, <1>13, ResumedOk
<1>15. /\ f.contexts[i] # NULL /\ f.contexts[i].id = NULL /\ f.contexts[i].will = NULL
       /\ f.contexts[i].sock = NULL /\ f.contexts[i].state = "disconnecting"
       /\ f.contexts[i].acl_list = c.acl_list
    BY <1>11, <1>12, <1>13, AbandonedOk
<1>16. \A j \in Slots \ {i, k} : SamePerson(d.contexts[j], f.contexts[j])
    BY <1>10, <1>13
<1>17. /\ f.acl_list = d.acl_list /\ f.config = d.config
       /\ DOMAIN f.cih = DOMAIN d.cih \ {id} /\ \A x \in DOMAIN f.cih : f.cih[x] = d.cih[x]
       /\ Members(f.subs) \subseteq Members(d.subs)
       /\ DOMAIN f.store = DOMAIN d.store
       /\ \A s \in DOMAIN d.store : f.store[s].payload = d.store[s].payload
    BY <1>6, <1>9, <1>13
<1>18. Taken(d, f, i, k, id)
    BY <1>14, <1>15, <1>16, <1>17 DEF Taken, c
<1>19. Live(f, k)
    BY <1>12, <1>14 DEF Live
<1>20. Sound(e, w) /\ Frame(f, e)
    BY <1>13, <1>19, ResetSessionOk
<1> HIDE DEF e
<1>21. Taken(d, e, i, k, id)
    BY <1>1, <1>12, <1>18, <1>20, TakenFrame
<1> QED BY <1>2, <1>3, <1>4, <1>20, <1>21 DEF k

\* Database e is d, save for contexts.
OnlyContexts(d, e) == DOMAIN e = DbFields /\ \A f \in DbFields \ {"contexts"} : e[f] = d[f]

\* A step that only changes contexts leaves every other field of the database.
LEMMA OnlyContextsFields ==
    ASSUME NEW d, NEW e, OnlyContexts(d, e)
    PROVE  /\ DOMAIN e = DbFields
           /\ e.cih = d.cih /\ e.subs = d.subs /\ e.store = d.store
           /\ e.last_db_id = d.last_db_id /\ e.acl_list = d.acl_list /\ e.config = d.config
BY DEF OnlyContexts, DbFields

\* Context k with an entry of the access list.
Entitled(d, k, n) == [d.contexts EXCEPT ![k] = [d.contexts[k] EXCEPT !.acl_list = n]]

\* The access list of a context is looked up.
LEMMA AssociateOk ==
    ASSUME NEW d, NEW w, Sound(d, w), NEW k, Live(d, k), NEW S, d.acl_list \in Seq(S),
           d.contexts[k].acl_list \in 0..Len(d.acl_list)
    PROVE  /\ OnlyContexts(d, associate(d, k))
           /\ \E n \in 0..Len(d.acl_list) : associate(d, k).contexts = Entitled(d, k, n)
<1> DEFINE c == d.contexts[k]
           m == acl_user(d.acl_list, c.username)
           e == associate(d, k)
           len == Len(d.acl_list)
<1>1. /\ DOMAIN d = DbFields /\ c \in ContextType /\ k \in Slots
      /\ d.contexts \in [Slots -> ContextType \cup {NULL}]
    BY MsgsOfType DEF Sound, SoundBut, Typed, Live
<1>2. m \in 0..len /\ c.acl_list \in 0..len /\ 0 \in 0..len
    <2>1. len \in Nat
        BY LenProperties
    <2>2. m \in 0..len
        BY AclUserOk
    <2> HIDE DEF len, m, c
    <2> QED BY <2>1, <2>2 DEF c, len
<1>3. e = IF d.acl_list = <<>> THEN [d EXCEPT !.contexts[k].acl_list = 0]
          ELSE IF m = 0 THEN d ELSE [d EXCEPT !.contexts[k].acl_list = m]
    BY DEF associate
<1>4. d.contexts = Entitled(d, k, c.acl_list)
    <2>1. c = [c EXCEPT !.acl_list = c.acl_list]
        BY <1>1 DEF ContextType
    <2>2. [d.contexts EXCEPT ![k] = c] = d.contexts
        <3> HIDE DEF c
        <3> QED BY <1>1 DEF c
    <2> QED BY <2>1, <2>2, Zenon DEF Entitled
<1>5. ASSUME NEW n PROVE /\ OnlyContexts(d, [d EXCEPT !.contexts[k].acl_list = n])
                         /\ [d EXCEPT !.contexts[k].acl_list = n].contexts = Entitled(d, k, n)
    BY <1>1 DEF OnlyContexts, Entitled, DbFields
<1>6. OnlyContexts(d, d)
    BY <1>1 DEF OnlyContexts
<1> HIDE DEF m, len, e
<1>7. CASE d.acl_list = <<>>
    <2>1. e = [d EXCEPT !.contexts[k].acl_list = 0]
        BY <1>3, <1>7
    <2>2. OnlyContexts(d, e) /\ e.contexts = Entitled(d, k, 0)
        BY <1>5, <2>1
    <2> QED BY <1>2, <2>2 DEF e, len
<1>8. CASE d.acl_list # <<>> /\ m = 0
    <2>1. e = d
        BY <1>3, <1>8
    <2>2. OnlyContexts(d, e) /\ e.contexts = Entitled(d, k, c.acl_list)
        BY <1>4, <1>6, <2>1
    <2> HIDE DEF c
    <2> QED BY <1>2, <2>2 DEF e, len
<1>9. CASE d.acl_list # <<>> /\ m # 0
    <2>1. e = [d EXCEPT !.contexts[k].acl_list = m]
        BY <1>3, <1>9
    <2>2. OnlyContexts(d, e) /\ e.contexts = Entitled(d, k, m)
        BY <1>5, <2>1
    <2> QED BY <1>2, <2>2 DEF e, len
<1> QED BY <1>7, <1>8, <1>9

\* What indexing makes of d: the client id leads to context k, which has the
\* connection of context i.
Joined(d, e, i, k, id) ==
    /\ e.acl_list = d.acl_list /\ e.config = d.config
    /\ DOMAIN e.cih = DOMAIN d.cih \cup {id} /\ e.cih[id] = k
    /\ \A x \in DOMAIN d.cih \ {id} : e.cih[x] = d.cih[x]
    /\ e.contexts[k] # NULL /\ e.contexts[k].id = id /\ e.contexts[k].will = NULL
    /\ e.contexts[k].sock = d.contexts[i].sock /\ e.contexts[k].state \in {"new", "connected"}
    /\ e.contexts[k].acl_list \in 0..Len(d.acl_list)
    /\ k # i =>
         /\ e.contexts[i] # NULL /\ e.contexts[i].id = NULL /\ e.contexts[i].will = NULL
         /\ e.contexts[i].sock = NULL /\ e.contexts[i].state = "disconnecting"
         /\ e.contexts[i].acl_list = d.contexts[i].acl_list
    /\ \A j \in Slots \ {i, k} : SamePerson(d.contexts[j], e.contexts[j])
    /\ Members(e.subs) \subseteq Members(d.subs)
    /\ DOMAIN e.store = DOMAIN d.store
    /\ \A s \in DOMAIN d.store : e.store[s].payload = d.store[s].payload

\* Entering the client id into the index keeps the broker sound.
LEMMA IndexOk ==
    ASSUME NEW d, NEW x, NEW w, Sound(x, w), NEW i \in Slots, NEW k, Live(x, k),
           NEW id \in Ids, Taken(d, x, i, k, id), NEW p, WellFormed(p),
           NEW S, d.acl_list \in Seq(S), d.contexts[k].acl_list \in 0..Len(d.acl_list)
    PROVE  Sound(index_context(x, k, id, p), w) /\ Joined(d, index_context(x, k, id, p), i, k, id)
<1> DEFINE a == associate(x, k)
           b == x.contexts[k]
           e == index_context(x, k, id, p)
           len == Len(d.acl_list)
<1>1. /\ DOMAIN x = DbFields /\ k \in Slots /\ b \in ContextType /\ b # NULL /\ usable(x.config)
      /\ x.contexts \in [Slots -> ContextType \cup {NULL}]
    BY MsgsOfType DEF Sound, SoundBut, Typed, Live
<1>2. /\ x.acl_list = d.acl_list /\ b.acl_list = d.contexts[k].acl_list
      /\ x.config = d.config
    BY DEF Taken
<1>3. OnlyContexts(x, a) /\ \E n \in 0..len : a.contexts = Entitled(x, k, n)
    BY <1>2, AssociateOk
<1>4. PICK n \in 0..len : a.contexts = Entitled(x, k, n)
    BY <1>3
<1> DEFINE c == identified([b EXCEPT !.acl_list = n], id, p)
<1>5. n \in Nat
    <2> HIDE DEF len
    <2> QED BY <1>4
<1>6. /\ SameMessages(b, c) /\ c # NULL
      /\ c.id = id /\ c.sock = b.sock /\ c.state = b.state /\ c.will = b.will /\ c.acl_list = n
    BY <1>1, <1>5, IdentifiedOk
<1>7. /\ DOMAIN a = DbFields /\ a.cih = x.cih /\ a.subs = x.subs /\ a.store = x.store
      /\ a.last_db_id = x.last_db_id /\ a.acl_list = x.acl_list /\ a.config = x.config
    BY <1>3, OnlyContextsFields
<1>8. e = [a EXCEPT !.cih = [y \in DOMAIN a.cih \cup {id} |-> IF y = id THEN k ELSE a.cih[y]],
                    !.contexts[k] = identified(a.contexts[k], id, p)]
    BY DEF index_context
<1> HIDE DEF a, e
<1>9. /\ DOMAIN e = DbFields /\ e.subs = x.subs /\ e.store = x.store
      /\ e.last_db_id = x.last_db_id /\ e.acl_list = x.acl_list /\ e.config = x.config
      /\ e.cih = [y \in DOMAIN x.cih \cup {id} |-> IF y = id THEN k ELSE x.cih[y]]
      /\ e.contexts = [a.contexts EXCEPT ![k] = identified(a.contexts[k], id, p)]
    BY <1>7, <1>8 DEF DbFields
<1>10. e.contexts = [x.contexts EXCEPT ![k] = c]
    <2>1. a.contexts[k] = [b EXCEPT !.acl_list = n]
        BY <1>1, <1>4 DEF Entitled
    <2>2. identified(a.contexts[k], id, p) = c
        BY <2>1
    <2> HIDE DEF c
    <2>3. \A v : [[x.contexts EXCEPT ![k] = v] EXCEPT ![k] = c] = [x.contexts EXCEPT ![k] = c]
        BY <1>1
    <2> QED BY <1>4, <1>9, <2>2, <2>3 DEF Entitled
<1> HIDE DEF c
<1>11. Recasts(x, e, k, c)
    <2>1. usable(e.config)
        BY <1>1, <1>9
    <2> QED BY <1>9, <1>10, <2>1 DEF Recasts
<1>12. Sound(e, w) /\ e.contexts[k] = c /\ \A j \in Slots \ {k} : e.contexts[j] = x.contexts[j]
    <2>1. k \in Slots /\ x.contexts[k] # NULL /\ SameMessages(x.contexts[k], c)
        BY <1>1, <1>6
    <2> QED BY <1>11, <2>1, RecastOk
<1> HIDE DEF len, b
<1>13. /\ e.contexts[k] # NULL /\ e.contexts[k].id = id /\ e.contexts[k].will = NULL
       /\ e.contexts[k].sock = d.contexts[i].sock /\ e.contexts[k].state \in {"new", "connected"}
       /\ e.contexts[k].acl_list \in 0..len
    BY <1>4, <1>6, <1>12 DEF Taken, b
<1>14. k # i =>
         /\ e.contexts[i] # NULL /\ e.contexts[i].id = NULL /\ e.contexts[i].will = NULL
         /\ e.contexts[i].sock = NULL /\ e.contexts[i].state = "disconnecting"
         /\ e.contexts[i].acl_list = d.contexts[i].acl_list
    BY <1>12 DEF Taken
<1>15. \A j \in Slots \ {i, k} : SamePerson(d.contexts[j], e.contexts[j])
    BY <1>12 DEF Taken
<1>16. /\ e.acl_list = d.acl_list /\ e.config = d.config
       /\ Members(e.subs) \subseteq Members(d.subs)
       /\ DOMAIN e.store = DOMAIN d.store
       /\ \A s \in DOMAIN d.store : e.store[s].payload = d.store[s].payload
    BY <1>9 DEF Taken
<1>17. /\ DOMAIN e.cih = DOMAIN d.cih \cup {id} /\ e.cih[id] = k
       /\ \A y \in DOMAIN d.cih \ {id} : e.cih[y] = d.cih[y]
    <2>1. DOMAIN x.cih = DOMAIN d.cih \ {id} /\ \A y \in DOMAIN x.cih : x.cih[y] = d.cih[y]
        BY DEF Taken
    <2> QED BY <1>9, <2>1
<1> QED BY <1>12, <1>13, <1>14, <1>15, <1>16, <1>17 DEF Joined, e, len

\* Where the connection of context i goes.
Seat(d, i, k, id) ==
    \/ k = i /\ id \notin DOMAIN d.cih
    \/ k # i /\ id \in DOMAIN d.cih /\ d.cih[id] = k

\* ... and keeps the index and the contexts in agreement,
LEMMA JoinedLinked ==
    ASSUME NEW d, Linked(d, {}), NEW i, Fresh(d, i), NEW k \in Slots, NEW id, id # NULL, Seat(d, i, k, id),
           NEW e, Joined(d, e, i, k, id)
    PROVE  Linked(e, {})
<1>1. i \in Slots /\ d.contexts[i] # NULL /\ d.contexts[i].id = NULL
    BY DEF Fresh, Live
<1>2. /\ \A x \in DOMAIN d.cih : /\ x # NULL /\ d.cih[x] \in Slots
                                 /\ d.contexts[d.cih[x]] # NULL /\ d.contexts[d.cih[x]].id = x
      /\ \A j \in Slots : d.contexts[j] # NULL /\ d.contexts[j].id # NULL =>
                             d.contexts[j].id \in DOMAIN d.cih /\ d.cih[d.contexts[j].id] = j
    BY DEF Linked
<1>3. /\ DOMAIN e.cih = DOMAIN d.cih \cup {id} /\ e.cih[id] = k
      /\ \A x \in DOMAIN d.cih \ {id} : e.cih[x] = d.cih[x]
      /\ e.contexts[k] # NULL /\ e.contexts[k].id = id
      /\ k # i => e.contexts[i] # NULL /\ e.contexts[i].id = NULL
      /\ \A j \in Slots \ {i, k} : SamePerson(d.contexts[j], e.contexts[j])
    BY DEF Joined
<1>4. \A j \in Slots \ {i, k} : /\ d.contexts[j] = NULL <=> e.contexts[j] = NULL
                                /\ d.contexts[j] # NULL => e.contexts[j].id = d.contexts[j].id
    BY <1>3 DEF SamePerson
<1>5. ASSUME NEW x \in DOMAIN e.cih
      PROVE  x # NULL /\ e.cih[x] \in Slots /\ e.contexts[e.cih[x]] # NULL /\ e.contexts[e.cih[x]].id = x
    <2>1. CASE x = id
        BY <1>3, <2>1
    <2>2. CASE x # id
        <3>1. x \in DOMAIN d.cih /\ e.cih[x] = d.cih[x]
            BY <1>3, <2>2
        <3>2. x # NULL /\ d.cih[x] \in Slots /\ d.contexts[d.cih[x]] # NULL /\ d.contexts[d.cih[x]].id = x
            BY <1>2, <3>1
        <3>3. d.cih[x] # i
            BY <1>1, <3>2
        <3>4. d.cih[x] # k
            <4>1. CASE k = i
                BY <3>3, <4>1
            <4>2. CASE k # i
                <5>1. id \in DOMAIN d.cih /\ d.contexts[k].id = id
                    BY <1>2, <4>2 DEF Seat
                <5> QED BY <2>2, <3>2, <5>1
            <4> QED BY <4>1, <4>2
        <3> QED BY <1>4, <3>1, <3>2, <3>3, <3>4
    <2> QED BY <2>1, <2>2
<1>6. ASSUME NEW j \in Slots, e.contexts[j] # NULL, e.contexts[j].id # NULL
      PROVE  e.contexts[j].id \in DOMAIN e.cih /\ e.cih[e.contexts[j].id] = j
    <2>1. CASE j = k
        BY <1>3, <2>1
    <2>2. CASE j # k
        <3>1. j # i
            BY <1>3, <1>6, <2>2
        <3>2. d.contexts[j] # NULL /\ e.contexts[j].id = d.contexts[j].id
            BY <1>4, <1>6, <2>2, <3>1
        <3>3. d.contexts[j].id \in DOMAIN d.cih /\ d.cih[d.contexts[j].id] = j
            BY <1>2, <1>6, <3>2
        <3>4. d.contexts[j].id # id
            BY <2>2, <3>3 DEF Seat
        <3> QED BY <1>3, <3>2, <3>3, <3>4
    <2> QED BY <2>1, <2>2
<1>7. ASSUME NEW j \in Members(e.subs), e.contexts[j] # NULL PROVE e.contexts[j].id # NULL
    <2>1. j \in Members(d.subs) /\ j \in Slots
        BY DEF Joined, Members
    <2>2. CASE j = k
        BY <1>3, <2>2
    <2>3. CASE j # k
        <3>1. j # i
            BY <1>1, <2>1 DEF Linked
        <3> QED BY <1>4, <1>7, <2>1, <2>3, <3>1 DEF Linked
    <2> QED BY <2>2, <2>3
<1>8. (\E S : e.acl_list \in Seq(S)) /\ e.acl_list = d.acl_list
    BY DEF Joined, Linked
<1>9. ASSUME NEW j \in Slots, e.contexts[j] # NULL PROVE e.contexts[j].acl_list \in 0..Len(e.acl_list)
    <2>1. CASE j = k
        BY <1>8, <2>1 DEF Joined
    <2>2. CASE j # k /\ j = i
        BY <1>1, <1>8, <2>2 DEF Joined, Linked
    <2>3. CASE j # k /\ j # i
        BY <1>3, <1>8, <1>9, <2>3 DEF Linked, SamePerson
    <2> QED BY <2>1, <2>2, <2>3
<1> QED BY <1>5, <1>6, <1>7, <1>8, <1>9 DEF Linked

\* ... the connection state and the socket in agreement but for the one connecting,
LEMMA JoinedStaged ==
    ASSUME NEW d, Staged(d, {}), NEW i, Fresh(d, i), NEW k \in Slots, NEW id,
           NEW e, Joined(d, e, i, k, id)
    PROVE  Staged(e, {k})
<1>1. ASSUME NEW j \in Slots \ {k}, e.contexts[j] # NULL, e.contexts[j].sock # NULL
      PROVE  e.contexts[j].state = "new" <=> e.contexts[j].id = NULL
    <2>1. CASE j = i
        BY <1>1, <2>1 DEF Joined
    <2>2. CASE j # i
        <3>1. SamePerson(d.contexts[j], e.contexts[j])
            BY <1>1, <2>2 DEF Joined
        <3> QED BY <1>1, <3>1 DEF SamePerson, Staged
    <2> QED BY <2>1, <2>2
<1> QED BY <1>1 DEF Staged

\* The connection of context i is where it was, or moved to context k.
LEMMA JoinedSocks ==
    ASSUME NEW d, NEW i, Fresh(d, i), NEW k \in Slots, NEW id, NEW e, Joined(d, e, i, k, id),
           NEW j \in Slots, e.contexts[j] # NULL, e.contexts[j].sock # NULL
    PROVE  \E l \in Slots : /\ d.contexts[l] # NULL /\ d.contexts[l].sock = e.contexts[j].sock
                            /\ l = IF j = k THEN i ELSE j
                            /\ j # k => j # i /\ SamePerson(d.contexts[j], e.contexts[j])
<1>1. CASE j = k
    BY <1>1 DEF Joined, Fresh, Live
<1>2. CASE j # k
    <2>1. j # i
        BY <1>2 DEF Joined
    <2>2. SamePerson(d.contexts[j], e.contexts[j])
        BY <1>2, <2>1 DEF Joined
    <2> QED BY <1>2, <2>1, <2>2 DEF SamePerson
<1> QED BY <1>1, <1>2

\* ... and the wills those of sessions that may need them.
LEMMA JoinedWilled ==
    ASSUME NEW d, NEW G, NEW n \in Nat, NEW traffic, Willed(d, G, n, traffic),
           NEW i, Fresh(d, i), NEW k \in Slots, NEW id, NEW e, Joined(d, e, i, k, id)
    PROVE  Willed(e, G, n, traffic)
<1>1. i \in Slots /\ d.contexts[i] # NULL /\ d.contexts[i].sock # NULL
    BY DEF Fresh, Live
<1>2. e.contexts[k] # NULL /\ e.contexts[k].will = NULL /\ e.contexts[k].state \in {"new", "connected"}
      /\ e.contexts[k].sock = d.contexts[i].sock
    BY DEF Joined
<1>3. ASSUME NEW j \in Slots, e.contexts[j] # NULL, e.contexts[j].sock # NULL
      PROVE  /\ e.contexts[j].sock \in 1..n /\ e.contexts[j].state # "disconnecting"
             /\ e.contexts[j].state = "new" => e.contexts[j].will = NULL
             /\ e.contexts[j].will # NULL => e.contexts[j].will.payload \in WillsOf(traffic, e.contexts[j].sock)
    <2>1. CASE j = k
        BY <1>1, <1>2, <2>1 DEF Willed
    <2>2. CASE j # k
        <3>1. d.contexts[j] # NULL /\ SamePerson(d.contexts[j], e.contexts[j])
            BY <1>3, <2>2, JoinedSocks
        <3> QED BY <1>3, <3>1 DEF SamePerson, Willed
    <2> QED BY <2>1, <2>2
<1>4. ASSUME NEW j \in Slots, NEW m \in Slots, e.contexts[j] # NULL, e.contexts[m] # NULL,
             e.contexts[j].sock = e.contexts[m].sock, e.contexts[j].sock # NULL
      PROVE  j = m
    <2>1. \E l \in Slots : /\ d.contexts[l] # NULL /\ d.contexts[l].sock = e.contexts[j].sock
                           /\ l = (IF j = k THEN i ELSE j) /\ (j # k => j # i)
        BY <1>4, JoinedSocks
    <2>2. \E l \in Slots : /\ d.contexts[l] # NULL /\ d.contexts[l].sock = e.contexts[m].sock
                           /\ l = (IF m = k THEN i ELSE m) /\ (m # k => m # i)
        BY <1>4, JoinedSocks
    <2>3. (IF j = k THEN i ELSE j) = (IF m = k THEN i ELSE m)
        BY <1>4, <2>1, <2>2 DEF Willed
    <2> QED BY <2>1, <2>2, <2>3
<1>5. ASSUME NEW j \in Slots, Willing(e, j) PROVE e.contexts[j].sock # NULL
    <2>1. e.contexts[j] # NULL /\ e.contexts[j].will # NULL /\ e.contexts[j].state # "disconnecting"
        BY <1>5 DEF Willing
    <2>2. j # k /\ j # i
        BY <1>2, <2>1 DEF Joined
    <2>3. SamePerson(d.contexts[j], e.contexts[j])
        BY <2>2 DEF Joined
    <2>4. Willing(d, j) /\ d.contexts[j] # NULL /\ e.contexts[j].sock = d.contexts[j].sock
        BY <2>1, <2>3 DEF SamePerson, Willing
    <2> QED BY <2>4 DEF Willed
<1>6. ASSUME NEW c \in 1..n, Closed(d, c) PROVE Closed(e, c)
    <2>1. ASSUME NEW j \in Slots, e.contexts[j] # NULL, e.contexts[j].sock = c PROVE FALSE
        <3>1. e.contexts[j].sock # NULL
            BY <2>1, NullAssumption
        <3>2. \E l \in Slots : d.contexts[l] # NULL /\ d.contexts[l].sock = e.contexts[j].sock
            BY <2>1, <3>1, JoinedSocks
        <3> QED BY <1>6, <2>1, <3>2 DEF Closed
    <2> QED BY <2>1 DEF Closed
<1>7. DOMAIN e.store = DOMAIN d.store /\ \A s \in DOMAIN d.store : e.store[s].payload = d.store[s].payload
    BY DEF Joined
<1>8. ASSUME NEW s \in DOMAIN e.store
      PROVE  \/ e.store[s].payload \in Plain(traffic)
             \/ \E c \in 1..n : e.store[s].payload \in WillsOf(traffic, c) /\ Closed(e, c)
    BY <1>6, <1>7 DEF Willed
<1>9. ASSUME NEW will \in G \ {NULL}
      PROVE  /\ \E c \in 1..n : will.payload \in WillsOf(traffic, c) /\ Closed(e, c)
             /\ \A s \in DOMAIN e.store : e.store[s].payload # will.payload
    BY <1>6, <1>7 DEF Willed
<1> QED BY <1>3, <1>4, <1>5, <1>8, <1>9 DEF Willed

\* The same for an operator.
Swapped(d, e, w, i, c) ==
    /\ Sound(e, w) /\ e.contexts[i] = c /\ c # NULL
    /\ \A j \in Slots \ {i} : e.contexts[j] = d.contexts[j]
    /\ e.cih = d.cih /\ e.acl_list = d.acl_list /\ e.config = d.config
    /\ e.subs = d.subs /\ e.store = d.store

\* Changing of a context what no count looks at keeps the broker sound.
LEMMA SwappedOk ==
    ASSUME NEW d, NEW w, Sound(d, w), NEW i, Live(d, i), NEW c, SameMessages(d.contexts[i], c)
    PROVE  Swapped(d, [d EXCEPT !.contexts[i] = c], w, i, c)
BY OnlyContext DEF Swapped

\* A connection that leads to context k, which has an id, and is not yet answered.
Half(d, w, G, n, traffic, k) ==
    /\ Sound(d, w) /\ Linked(d, {}) /\ Staged(d, {k}) /\ Willed(d, G, n, traffic)
    /\ Live(d, k) /\ d.contexts[k].id # NULL /\ d.contexts[k].sock # NULL

\* The connection is greeted.
Greeted(d, k, will) == [d EXCEPT !.contexts[k].will = will, !.contexts[k].state = "connected"]

\* Storing the will of a CONNECT and moving to the connected state completes the invariant.
LEMMA GreetedGood ==
    ASSUME NEW d, NEW w, NEW G, NEW n \in Nat, NEW traffic, NEW k, Half(d, w, G, n, traffic, k),
           NEW p \in sent("CONNECT"), p \in traffic[d.contexts[k].sock]
    PROVE  Good(Greeted(d, k, p.will), w, G, n, traffic) /\ Lives(d, Greeted(d, k, p.will))
<1> DEFINE b == d.contexts[k]
           b1 == [b EXCEPT !.will = p.will]
           c == [b1 EXCEPT !.state = "connected"]
           e == [d EXCEPT !.contexts[k] = c]
           f == Greeted(d, k, p.will)
<1>1. /\ Sound(d, w) /\ Linked(d, {}) /\ Staged(d, {k}) /\ Willed(d, G, n, traffic)
      /\ Live(d, k) /\ b.id # NULL /\ b.sock # NULL /\ k \in Slots /\ b # NULL /\ b \in ContextType
    BY MsgsOfType DEF Half, Live, Sound, SoundBut
<1>2. p.will \in Wills /\ p.type = "CONNECT"
    BY DEF Wills, sent
<1>3. b1 \in ContextType /\ b1.msgs = b.msgs /\ b1.msg_count12 = b.msg_count12
      /\ b1.id = b.id /\ b1.sock = b.sock /\ b1.will = p.will /\ b1.acl_list = b.acl_list
    BY <1>1, <1>2 DEF ContextType
<1>4. f = e
    BY DEF Greeted
<1> HIDE DEF b1
<1>5. c \in ContextType /\ c.msgs = b.msgs /\ c.msg_count12 = b.msg_count12
      /\ c.id = b.id /\ c.sock = b.sock /\ c.will = p.will /\ c.acl_list = b.acl_list
      /\ c.state = "connected"
    BY <1>3 DEF ContextType
<1> HIDE DEF c, f
<1>6. SameMessages(b, c)
    BY <1>5 DEF SameMessages
<1>7. /\ Sound(e, w) /\ e.contexts[k] = c /\ c # NULL
      /\ \A j \in Slots \ {k} : e.contexts[j] = d.contexts[j]
      /\ e.cih = d.cih /\ e.acl_list = d.acl_list /\ e.config = d.config
      /\ e.subs = d.subs /\ e.store = d.store
    <2>1. Sound(d, w) /\ Live(d, k) /\ SameMessages(d.contexts[k], c)
        BY <1>1, <1>6
    <2>2. Swapped(d, e, w, k, c)
        BY <2>1, SwappedOk
    <2> HIDE DEF e, b
    <2> QED BY <2>2 DEF Swapped
<1> HIDE DEF e
<1>8. \A j \in Slots : /\ e.contexts[j] = NULL <=> d.contexts[j] = NULL
                       /\ e.contexts[j] # NULL =>
                            /\ e.contexts[j].id = d.contexts[j].id /\ e.contexts[j].acl_list = d.contexts[j].acl_list
                            /\ e.contexts[j].sock = d.contexts[j].sock
    BY <1>1, <1>5, <1>7
<1>9. Linked(e, {})
    <2>1. Members(e.subs) = Members(d.subs)
        BY <1>7
    <2>2. /\ \A id \in DOMAIN d.cih : /\ id # NULL /\ d.cih[id] \in Slots
                                     /\ d.contexts[d.cih[id]] # NULL /\ d.contexts[d.cih[id]].id = id
          /\ \A j \in Slots : d.contexts[j] # NULL /\ d.contexts[j].id # NULL =>
                                d.contexts[j].id \in DOMAIN d.cih /\ d.cih[d.contexts[j].id] = j
        BY <1>1 DEF Linked
    <2>3. /\ \A id \in DOMAIN e.cih : /\ id # NULL /\ e.cih[id] \in Slots
                                     /\ e.contexts[e.cih[id]] # NULL /\ e.contexts[e.cih[id]].id = id
          /\ \A j \in Slots : e.contexts[j] # NULL /\ e.contexts[j].id # NULL =>
                                e.contexts[j].id \in DOMAIN e.cih /\ e.cih[e.contexts[j].id] = j
        BY <1>7, <1>8, <2>2
    <2>4. \A j \in Members(e.subs) : e.contexts[j] # NULL => e.contexts[j].id # NULL
        <3>1. \A j \in Members(d.subs) : j \in Slots /\ (d.contexts[j] # NULL => d.contexts[j].id # NULL)
            BY <1>1 DEF Linked, Members
        <3> QED BY <1>8, <2>1, <3>1
    <2>5. /\ \E S : e.acl_list \in Seq(S)
          /\ \A j \in Slots : e.contexts[j] # NULL => e.contexts[j].acl_list \in 0..Len(e.acl_list)
        BY <1>1, <1>7, <1>8 DEF Linked
    <2> QED BY <2>3, <2>4, <2>5 DEF Linked
<1>10. Staged(e, {})
    BY <1>1, <1>5, <1>7 DEF Staged
<1>11. Willed(e, G, n, traffic)
    <2>1. ASSUME NEW j \in Slots, e.contexts[j] # NULL, e.contexts[j].sock # NULL
          PROVE  /\ e.contexts[j].sock \in 1..n /\ e.contexts[j].state # "disconnecting"
                 /\ e.contexts[j].state = "new" => e.contexts[j].will = NULL
                 /\ e.contexts[j].will # NULL => e.contexts[j].will.payload \in WillsOf(traffic, e.contexts[j].sock)
        <3>1. CASE j = k
            <4>1. p.will # NULL => p.will.payload \in WillsOf(traffic, b.sock)
                BY <1>2 DEF WillsOf
            <4>2. b.sock \in 1..n
                BY <1>1 DEF Willed
            <4> QED BY <1>5, <1>7, <3>1, <4>1, <4>2
        <3>2. CASE j # k
            BY <1>1, <1>7, <2>1, <3>2 DEF Willed
        <3> QED BY <3>1, <3>2
    <2>2. ASSUME NEW j \in Slots, NEW m \in Slots, e.contexts[j] # NULL, e.contexts[m] # NULL,
                 e.contexts[j].sock = e.contexts[m].sock
          PROVE  j = m \/ e.contexts[j].sock = NULL
        BY <1>1, <1>8, <2>2 DEF Willed
    <2>3. ASSUME NEW j \in Slots, Willing(e, j) PROVE e.contexts[j].sock # NULL
        <3>1. CASE j = k
            BY <1>1, <1>5, <1>7, <3>1
        <3>2. CASE j # k
            BY <1>1, <1>7, <2>3, <3>2 DEF Willing, Willed
        <3> QED BY <3>1, <3>2
    <2>4. \A m : Closed(d, m) => Closed(e, m)
        BY <1>8 DEF Closed
    <2>5. ASSUME NEW s \in DOMAIN e.store
          PROVE  \/ e.store[s].payload \in Plain(traffic)
                 \/ \E m \in 1..n : e.store[s].payload \in WillsOf(traffic, m) /\ Closed(e, m)
        BY <1>1, <1>7, <2>4 DEF Willed
    <2>6. ASSUME NEW will \in G \ {NULL}
          PROVE  /\ \E m \in 1..n : will.payload \in WillsOf(traffic, m) /\ Closed(e, m)
                 /\ \A s \in DOMAIN e.store : e.store[s].payload # will.payload
        BY <1>1, <1>7, <2>4 DEF Willed
    <2> QED BY <2>1, <2>2, <2>3, <2>5, <2>6 DEF Willed
<1>12. Good(e, w, G, n, traffic)
    BY <1>7, <1>9, <1>10, <1>11 DEF Good
<1>13. Lives(d, e)
    BY <1>8 DEF Live, Lives
<1> QED BY <1>4, <1>12, <1>13 DEF f

\* ... and so do the CONNACK and the queued messages sent after it.
LEMMA WelcomeGood ==
    ASSUME NEW d, NEW w, NEW G, NEW n \in Nat, NEW traffic, NEW k, Half(d, w, G, n, traffic, k),
           Apart(traffic, n), NEW p \in sent("CONNECT"), p \in traffic[d.contexts[k].sock]
    PROVE  Good(welcome(d, k, p).db, w, G, n, traffic) /\ Lives(d, welcome(d, k, p).db)
<1> DEFINE P == Plain(traffic)
           why == <<5, 0>>
           r == refuse(d, k, why)
           e == Greeted(d, k, p.will)
           s == _mosquitto_send_connack(e, k, 0)
<1>1. /\ Sound(d, w) /\ Linked(d, {}) /\ Staged(d, {k}) /\ Willed(d, G, n, traffic) /\ Live(d, k)
    BY DEF Half
<1>2. welcome(d, k, p) = IF p.will # NULL /\ ~mosquitto_acl_check_default(d, k, p.will.topic, WRITE)
                         THEN r ELSE s
    BY DEF welcome, Greeted
<1> HIDE DEF P, why
<1>3. Ran(d, r, w, P) /\ Gone(r.db, k)
    BY <1>1, RefuseOk
<1> HIDE DEF r
<1>4. Sound(r.db, w) /\ Ends(d, r.db, P)
    BY <1>3 DEF Ran
<1>5. Good(r.db, w, G, n, traffic)
    <2> DEFINE f == r.db
    <2>1. Sound(f, w) /\ Ends(d, f, P) /\ Gone(f, k)
        BY <1>3, <1>4
    <2> HIDE DEF f
    <2>2. Linked(f, {})
        BY <1>1, <2>1, EndsLinked
    <2>3. Staged(f, {})
        BY <1>1, <2>1, EndsStaged
    <2>4. Willed(f, G, n, traffic)
        BY <1>1, <2>1, EndsWilled DEF P
    <2>5. Good(f, w, G, n, traffic)
        BY <2>1, <2>2, <2>3, <2>4 DEF Good
    <2> QED BY <2>5 DEF f
<1>6. Good(e, w, G, n, traffic) /\ Lives(d, e)
    BY GreetedGood
<1> HIDE DEF e
<1>7. Ran(e, s, w, P)
    BY <1>6, EndsReflexive, AnsweredOk DEF _mosquitto_send_connack, Good
<1> HIDE DEF s
<1>8. Good(s.db, w, G, n, traffic)
    <2> DEFINE f == s.db
    <2>1. Sound(f, w) /\ Ends(e, f, P)
        BY <1>7 DEF Ran
    <2> HIDE DEF f
    <2>2. Good(f, w, G, n, traffic)
        BY <1>6, <2>1, EndsGood DEF P
    <2> QED BY <2>2 DEF f
<1>9. Lives(d, r.db)
    BY <1>4, EndsLives
<1>10. Lives(d, s.db)
    <2> DEFINE f == s.db
    <2>1. Ends(e, f, P)
        BY <1>7 DEF Ran
    <2> HIDE DEF f
    <2>2. Lives(e, f)
        BY <2>1, EndsLives
    <2>3. Lives(d, f)
        BY <1>6, <2>2 DEF Lives
    <2> QED BY <2>3 DEF f
<1> QED BY <1>2, <1>5, <1>8, <1>9, <1>10

\* What a packet says that is not refused.
LEMMA NotRefused ==
    ASSUME NEW d, NEW i, NEW p, refusal(d, i, p) = <<0, 0>>
    PROVE  /\ d.contexts[i].state = "new" /\ p.protocol \in {"mqtt31", "mqtt311"}
           /\ client_id(d, p) # NULL
<1> DEFINE id == client_id(d, p)
           r == refusal(d, i, p)
           s == <<identity_refusal(d, p), 0>>
<1>1. r = IF d.contexts[i].state # "new" \/ ~p.valid THEN <<0, 1>>
          ELSE IF p.protocol \notin {"mqtt31", "mqtt311"} THEN <<1, 1>>
          ELSE IF id = NULL THEN <<2, 1>>
          ELSE IF id \notin d.config.clientids THEN <<5, 0>>
          ELSE s
    BY DEF refusal
<1> HIDE DEF id, r, s
<1>2. r[2] = 0
    BY DEF r
<1>3. d.contexts[i].state = "new"
    BY <1>1, <1>2
<1>4. p.protocol \in {"mqtt31", "mqtt311"}
    BY <1>1, <1>2
<1>5. id # NULL
    BY <1>1, <1>2
<1> QED BY <1>3, <1>4, <1>5 DEF id

\* The client id a CONNECT is served under is one of the ids.
LEMMA ClientIdOk ==
    ASSUME NEW d, NEW p \in sent("CONNECT")
    PROVE  client_id(d, p) \in Ids
BY DEF client_id, Ids

\* A connection that is not refused is given to the context that has the client id,
\* or gets it.
LEMMA HalfWay ==
    ASSUME NEW d, NEW w, NEW G, NEW n \in Nat, NEW traffic, Good(d, w, G, n, traffic),
           NEW i, Fresh(d, i), NEW p, WellFormed(p), NEW id \in Ids, id # NULL
    PROVE  LET found == id \in DOMAIN d.cih
               k == IF found THEN d.cih[id] ELSE i
               e == index_context(IF found THEN takeover(d, i, k, p) ELSE d, k, id, p)
           IN /\ Half(e, w, G, n, traffic, k) /\ e.contexts[k].sock = d.contexts[i].sock
              /\ Lives(d, e)
<1> DEFINE found == id \in DOMAIN d.cih
           k == IF found THEN d.cih[id] ELSE i
           x == IF found THEN takeover(d, i, k, p) ELSE d
           e == index_context(x, k, id, p)
<1>1. /\ Sound(d, w) /\ Linked(d, {}) /\ Staged(d, {}) /\ Willed(d, G, n, traffic)
      /\ Live(d, i) /\ i \in Slots
    BY DEF Good, Fresh, Live
<1>2. Sound(x, w) /\ Taken(d, x, i, k, id) /\ Seat(d, i, k, id) /\ Live(d, k)
    <2>1. CASE found
        <3>1. k = d.cih[id] /\ x = takeover(d, i, k, p)
            BY <2>1
        <3>2. k # i /\ Live(d, k) /\ Sound(x, w) /\ Taken(d, x, i, k, id)
            BY <1>1, <2>1, <3>1, TakeoverOk
        <3> QED BY <2>1, <3>1, <3>2 DEF Seat
    <2>2. CASE ~found
        <3>1. k = i /\ x = d
            BY <2>2
        <3> HIDE DEF k, x
        <3>2. Taken(d, d, i, i, id)
            BY <2>2, NotTaken
        <3> QED BY <1>1, <2>2, <3>1, <3>2 DEF Seat
    <2> QED BY <2>1, <2>2
<1> HIDE DEF x, k
<1>3. k \in Slots /\ Live(x, k)
    BY <1>2 DEF Live, Taken
<1>4. PICK S : d.acl_list \in Seq(S)
    BY <1>1 DEF Linked
<1>5. d.contexts[k].acl_list \in 0..Len(d.acl_list)
    BY <1>1, <1>2 DEF Linked, Live
<1>6. Sound(e, w) /\ Joined(d, e, i, k, id)
    BY <1>1, <1>2, <1>3, <1>4, <1>5, IndexOk
<1> HIDE DEF e
<1>7. Linked(e, {})
    BY <1>1, <1>2, <1>3, <1>6, JoinedLinked
<1>8. Staged(e, {k})
    BY <1>1, <1>3, <1>6, JoinedStaged
<1>9. Willed(e, G, n, traffic)
    BY <1>1, <1>3, <1>6, JoinedWilled
<1>10. /\ Live(e, k) /\ e.contexts[k].id # NULL /\ e.contexts[k].sock # NULL
       /\ e.contexts[k].sock = d.contexts[i].sock /\ Live(e, i)
    BY <1>1, <1>3, <1>6 DEF Joined, Fresh, Live
<1>12. Lives(d, e)
    <2>1. \A j \in Slots \ {i, k} : d.contexts[j] = NULL <=> e.contexts[j] = NULL
        BY <1>6 DEF Joined, SamePerson
    <2> QED BY <1>1, <1>2, <1>10, <2>1 DEF Lives, Live
<1>11. Half(e, w, G, n, traffic, k)
    BY <1>6, <1>7, <1>8, <1>9, <1>10 DEF Half
<1> QED BY <1>10, <1>11, <1>12 DEF e, x, k

\* The loop reads a CONNECT.
LEMMA ConnectGood ==
    ASSUME NEW d, NEW w, NEW G, NEW n \in Nat, NEW traffic, Good(d, w, G, n, traffic), Apart(traffic, n),
           NEW i, Live(d, i), d.contexts[i].sock # NULL,
           NEW p \in sent("CONNECT"), p \in traffic[d.contexts[i].sock], readable(p)
    PROVE  Good(loop_handle_read(d, i, p), w, G, n, traffic) /\ Lives(d, loop_handle_read(d, i, p))
<1> DEFINE r == mqtt3_handle_connect(d, i, p)
           id == client_id(d, p)
           a == name_context(d, i, p)
           found == id \in DOMAIN a.cih
           k == IF found THEN a.cih[id] ELSE i
           x == index_context(IF found THEN takeover(a, i, k, p) ELSE a, k, id, p)
           P == Plain(traffic)
<1>1. /\ Sound(d, w) /\ Linked(d, {}) /\ Staged(d, {}) /\ Willed(d, G, n, traffic)
      /\ i \in Slots /\ d.contexts[i] # NULL
    BY DEF Good, Live
<1>2. p.type = "CONNECT" /\ p.clean_session \in BOOLEAN /\ p.bridge \in BOOLEAN
    BY DEF sent, readable
<1>3. loop_handle_read(d, i, p) = after(r, i)
    BY <1>2 DEF loop_handle_read, mqtt3_packet_handle
<1> HIDE DEF r, P
<1>4. CASE refusal(d, i, p) # <<0, 0>>
    <2> DEFINE s == refuse(d, i, refusal(d, i, p))
    <2>1. r = s
        BY <1>4 DEF r, mqtt3_handle_connect
    <2>2. Ran(d, s, w, P)
        BY <1>1, RefuseOk
    <2> HIDE DEF s
    <2> DEFINE e == after(s, i)
    <2>3. Sound(e, w) /\ Ends(d, e, P)
        BY <2>2, AfterOk
    <2> HIDE DEF e
    <2>4. Good(e, w, G, n, traffic) /\ Lives(d, e)
        BY <2>3, EndsGood, EndsLives DEF P
    <2> QED BY <1>3, <2>1, <2>4 DEF e
<1>5. CASE refusal(d, i, p) = <<0, 0>>
    <2>1. d.contexts[i].state = "new" /\ p.protocol \in {"mqtt31", "mqtt311"} /\ id # NULL
        BY <1>5, NotRefused
    <2>2. WellFormed(p) /\ id \in Ids
        BY <1>2, <2>1, ClientIdOk DEF WellFormed
    <2>3. Sound(a, w) /\ Frame(d, a)
        BY <1>1, <2>2, NameContextOk
    <2> HIDE DEF id
    <2>40. a.cih = d.cih
        BY <2>3 DEF Frame
    <2>41. r = welcome(x, k, p)
        BY <1>5, <2>40 DEF r, mqtt3_handle_connect, id
    <2> HIDE DEF a
    <2>5. Good(a, w, G, n, traffic) /\ Lives(d, a)
        BY <2>3, FrameEnds, EndsGood, EndsLives
    <2>6. Fresh(d, i)
        BY <1>1, <2>1 DEF Fresh, Live, Staged, Willed
    <2>7. Fresh(a, i) /\ a.contexts[i].sock = d.contexts[i].sock
        BY <2>3, <2>6 DEF Frame, Fresh, Live, SamePerson
    <2>8. Half(x, w, G, n, traffic, k) /\ x.contexts[k].sock = a.contexts[i].sock /\ Lives(a, x)
        BY <2>1, <2>2, <2>5, <2>7, HalfWay
    <2> HIDE DEF x, k
    <2>9. p \in traffic[x.contexts[k].sock]
        BY <2>7, <2>8
    <2> DEFINE e == r.db
               f == mqtt3_context_disconnect(e, i)
    <2>42. Good(e, w, G, n, traffic) /\ Lives(x, e)
        BY <2>8, <2>9, <2>41, WelcomeGood
    <2>10. Good(e, w, G, n, traffic) /\ Live(e, i) /\ Lives(d, e)
        BY <2>5, <2>8, <2>42 DEF Lives
    <2> HIDE DEF e
    <2>11. Sound(f, w) /\ Ends(e, f, P)
        BY <2>10, DisconnectOk DEF Good
    <2> HIDE DEF f
    <2>12. Good(f, w, G, n, traffic) /\ Lives(e, f)
        BY <2>10, <2>11, EndsGood, EndsLives DEF P
    <2>14. Lives(d, f)
        BY <2>10, <2>12 DEF Lives
    <2>13. after(r, i) = IF r.rc = 0 THEN e ELSE f
        BY DEF after, e, f
    <2> QED BY <1>3, <2>10, <2>12, <2>13, <2>14
<1> QED BY <1>4, <1>5

-----------------------------------------------------------------------------
(* The rest of a pass of the main loop.                                    *)

\* No context is new.
Fewer(d, e) == \A j : Live(e, j) => Live(d, j)

\* Having as many contexts is having no new one.
LEMMA LivesFewer ==
    ASSUME NEW d, NEW e, Lives(d, e)
    PROVE  Fewer(d, e)
BY DEF Lives, Fewer

\* A context without a connection whose session is clean is freed.
LEMMA FreeGood ==
    ASSUME NEW d, NEW w, NEW G, NEW n, NEW traffic, Good(d, w, G, n, traffic),
           NEW i, Live(d, i), d.contexts[i].clean_session
    PROVE  Good(free_context(d, i), w, G, n, traffic) /\ Fewer(d, free_context(d, i))
<1> DEFINE e == free_context(d, i)
<1>1. Sound(d, w) /\ Linked(d, {}) /\ i \in Slots /\ d.contexts[i] # NULL
    BY DEF Good, Live
<1>2. NULL \notin DOMAIN d.cih
    BY <1>1 DEF Linked
<1>3. Sound(e, w) /\ Freed(d, e, i)
    BY <1>1, <1>2, FreeOk
<1> HIDE DEF e
<1>4. Good(e, w, G, n, traffic)
    BY <1>1, <1>3, FreedGood
<1>5. Fewer(d, e)
    BY <1>1, <1>3 DEF Freed, Fewer, Live, SamePerson
<1> QED BY <1>4, <1>5 DEF e

\* A connection ends, or what is written to it does.
LEMMA EndedGood ==
    ASSUME NEW d, NEW w, NEW G, NEW n, NEW traffic, Good(d, w, G, n, traffic), Apart(traffic, n),
           NEW e, Sound(e, w), Ends(d, e, Plain(traffic))
    PROVE  Good(e, w, G, n, traffic) /\ Fewer(d, e)
BY EndsGood, EndsLives, LivesFewer

\* Database e is d, but for whether the session of context k is clean.
Cleaner(d, e, w, k, clean) ==
    /\ Sound(e, w) /\ Live(e, k) /\ e.cih = d.cih /\ e.acl_list = d.acl_list
    /\ e.config = d.config /\ e.subs = d.subs /\ e.store = d.store
    /\ \A j \in Slots \ {k} : e.contexts[j] = d.contexts[j]
    /\ e.contexts[k].id = d.contexts[k].id /\ e.contexts[k].acl_list = d.contexts[k].acl_list
    /\ e.contexts[k].sock = d.contexts[k].sock /\ e.contexts[k].state = d.contexts[k].state
    /\ e.contexts[k].will = d.contexts[k].will /\ e.contexts[k].clean_session = clean

\* Setting clean_session for the session resumed keeps the broker sound.
LEMMA CleanerOk ==
    ASSUME NEW d, NEW w, Sound(d, w), NEW k, Live(d, k)
    PROVE  \A clean \in BOOLEAN :
             Cleaner(d, [d EXCEPT !.contexts[k].clean_session = clean], w, k, clean)
<1> TAKE clean \in BOOLEAN
<1> DEFINE e == [d EXCEPT !.contexts[k].clean_session = clean]
<1>1. /\ Sound(e, w) /\ Live(e, k) /\ e.cih = d.cih /\ e.acl_list = d.acl_list
      /\ e.config = d.config /\ e.subs = d.subs /\ e.store = d.store
      /\ (\A j \in Slots \ {k} : e.contexts[j] = d.contexts[j])
      /\ e.contexts[k].id = d.contexts[k].id /\ e.contexts[k].acl_list = d.contexts[k].acl_list
      /\ e.contexts[k].sock = d.contexts[k].sock /\ e.contexts[k].state = d.contexts[k].state
      /\ e.contexts[k].will = d.contexts[k].will /\ e.contexts[k].clean_session = clean
    BY CleanSessionSet
<1> HIDE DEF e
<1>2. Cleaner(d, e, w, k, clean)
    BY <1>1 DEF Cleaner
<1> QED BY <1>2 DEF e

\* The session of a context whose time is up becomes a clean one.
LEMMA ExpiredGood ==
    ASSUME NEW d, NEW w, NEW G, NEW n, NEW traffic, Good(d, w, G, n, traffic), Apart(traffic, n),
           NEW i, Live(d, i)
    PROVE  LET e == [d EXCEPT !.contexts[i].clean_session = TRUE]
           IN Good(e, w, G, n, traffic) /\ Fewer(d, e) /\ Live(e, i) /\ e.contexts[i].clean_session
<1> DEFINE e == [d EXCEPT !.contexts[i].clean_session = TRUE]
           P == Plain(traffic)
<1>1. Sound(d, w) /\ i \in Slots /\ d.contexts[i] # NULL
    BY DEF Good, Live
<1>2. TRUE \in BOOLEAN
    OBVIOUS
<1>8. Cleaner(d, e, w, i, TRUE)
    BY <1>1, <1>2, CleanerOk, Zenon
<1> HIDE DEF e, P
<1>3. /\ Sound(e, w) /\ Live(e, i) /\ e.cih = d.cih /\ e.acl_list = d.acl_list
      /\ e.config = d.config /\ e.subs = d.subs /\ e.store = d.store
      /\ (\A j \in Slots \ {i} : e.contexts[j] = d.contexts[j])
      /\ e.contexts[i].id = d.contexts[i].id /\ e.contexts[i].acl_list = d.contexts[i].acl_list
      /\ e.contexts[i].sock = d.contexts[i].sock /\ e.contexts[i].state = d.contexts[i].state
      /\ e.contexts[i].will = d.contexts[i].will /\ e.contexts[i].clean_session = TRUE
    BY <1>8, Zenon DEF Cleaner
<1>4. e.contexts[i] # NULL
    BY <1>3 DEF Live
<1>5. \A j \in Slots : Calmed(d.contexts[j], e.contexts[j])
    BY <1>1, <1>3, <1>4 DEF Calmed
<1>6. Ends(d, e, P)
    BY <1>3, <1>5 DEF Ends
<1>7. Good(e, w, G, n, traffic) /\ Fewer(d, e)
    BY <1>3, <1>6, EndedGood DEF P
<1> QED BY <1>3, <1>7 DEF e

\* What the loop does for one context.
LEMMA LoopContextGood ==
    ASSUME NEW d, NEW w, NEW G, NEW n, NEW traffic, Good(d, w, G, n, traffic), Apart(traffic, n),
           NEW i \in Slots, NEW silent, NEW expired
    PROVE  /\ Good(loop_context(d, i, silent, expired), w, G, n, traffic)
           /\ Fewer(d, loop_context(d, i, silent, expired))
<1> DEFINE c == d.contexts[i]
           P == Plain(traffic)
           e == loop_context(d, i, silent, expired)
<1>1. Sound(d, w)
    BY DEF Good
<1>2. Fewer(d, d)
    BY DEF Fewer
<1>3. CASE c = NULL
    <2>1. e = d
        BY <1>3 DEF loop_context
    <2> HIDE DEF e
    <2> QED BY <1>2, <2>1 DEF e
<1>4. CASE c # NULL /\ c.sock # NULL /\ i \in silent
    <2>1. Live(d, i)
        BY <1>4 DEF Live
    <2> DEFINE f == mqtt3_context_disconnect(d, i)
    <2>2. e = f
        BY <1>4 DEF loop_context
    <2>3. Sound(f, w) /\ Ends(d, f, P)
        BY <1>1, <2>1, DisconnectOk
    <2> HIDE DEF f, e
    <2>4. Good(f, w, G, n, traffic) /\ Fewer(d, f)
        BY <2>3, EndedGood
    <2> QED BY <2>2, <2>4 DEF e
<1>5. CASE c # NULL /\ c.sock # NULL /\ i \notin silent
    <2>1. Live(d, i)
        BY <1>5 DEF Live
    <2> DEFINE r == mqtt3_db_message_write(d, i)
               f == after(r, i)
    <2>2. e = f
        BY <1>5 DEF loop_context
    <2>3. Sound(r.db, w) /\ Frame(d, r.db)
        BY <1>1, <1>5, WriteOk
    <2> HIDE DEF r, e
    <2>4. Ran(d, r, w, P)
        BY <2>3, FrameEnds DEF Ran
    <2>5. Sound(f, w) /\ Ends(d, f, P)
        BY <2>1, <2>4, AfterOk
    <2> HIDE DEF f
    <2>6. Good(f, w, G, n, traffic) /\ Fewer(d, f)
        BY <2>5, EndedGood
    <2> QED BY <2>2, <2>6 DEF e
<1>6. CASE c # NULL /\ c.sock = NULL /\ c.clean_session
    <2>1. Live(d, i)
        BY <1>6 DEF Live
    <2> DEFINE f == free_context(d, i)
    <2>2. e = f
        BY <1>6 DEF loop_context
    <2>3. Good(f, w, G, n, traffic) /\ Fewer(d, f)
        BY <1>6, <2>1, FreeGood
    <2> HIDE DEF f, e
    <2> QED BY <2>2, <2>3 DEF e
<1>7. CASE c # NULL /\ c.sock = NULL /\ ~c.clean_session /\ i \in expired
    <2>1. Live(d, i)
        BY <1>7 DEF Live
    <2> DEFINE g == [d EXCEPT !.contexts[i].clean_session = TRUE]
               f == free_context(g, i)
    <2>2. e = f
        BY <1>7 DEF loop_context
    <2>3. Good(g, w, G, n, traffic) /\ Fewer(d, g) /\ Live(g, i) /\ g.contexts[i].clean_session
        BY <2>1, ExpiredGood
    <2> HIDE DEF g, e
    <2>4. Good(f, w, G, n, traffic) /\ Fewer(g, f)
        BY <2>3, FreeGood
    <2> HIDE DEF f
    <2>5. Fewer(d, f)
        BY <2>3, <2>4 DEF Fewer
    <2> QED BY <2>2, <2>4, <2>5 DEF e
<1>8. CASE c # NULL /\ c.sock = NULL /\ ~c.clean_session /\ i \notin expired
    <2>1. e = d
        BY <1>8 DEF loop_context
    <2> HIDE DEF e
    <2> QED BY <1>2, <2>1 DEF e
<1> QED BY <1>3, <1>4, <1>5, <1>6, <1>7, <1>8

\* The contexts are visited one after another; the context of the walk is
\* <<d, w, G, n, traffic, silent, expired>>.
Looping(c, k, a) == Good(a, c[2], c[3], c[4], c[5]) /\ Fewer(c[1], a)
loop_step(c, a, i) == loop_context(a, i, c[6], c[7])
Looper == INSTANCE SequenceFolds WITH op <- loop_step, Inv <- Looping

\* The induction that the theorem of Looper assumes.
LEMMA LooperInducts == Looper!Induction
    BY NatInduct DEF Looper!Induction

\* The pass of mosquitto_main_loop over the contexts keeps the invariant.
LEMMA LoopContextsGood ==
    ASSUME NEW d, NEW w, NEW G, NEW n, NEW traffic, Good(d, w, G, n, traffic), Apart(traffic, n),
           NEW silent, NEW expired
    PROVE  /\ Good(loop_contexts(d, silent, expired), w, G, n, traffic)
           /\ Fewer(d, loop_contexts(d, silent, expired))
<1> DEFINE c == <<d, w, G, n, traffic, silent, expired>>
           seq == [i \in DOMAIN d.contexts |-> i]
           e == loop_contexts(d, silent, expired)
<1>1. /\ c[1] = d /\ c[2] = w /\ c[3] = G /\ c[4] = n /\ c[5] = traffic /\ c[6] = silent
      /\ c[7] = expired
    OBVIOUS
<1>2. DOMAIN d.contexts = Slots
    BY DEF Good, Sound, SoundBut, Typed
<1>3. DOMAIN seq = 1..SlotNumber /\ SlotNumber \in Nat /\ Slots = 1..SlotNumber
    BY <1>2, SlotsAre
<1>4. \A i \in 1..SlotNumber : seq[i] = i
    BY <1>2, <1>3
<1>5. e = Looper!Walk(c, d, seq)
    BY <1>1 DEF Looper!Walk, Looper!Greatest,
                FoldLeft, MapThenFoldSet, Max, loop_step, loop_contexts
<1> HIDE DEF c, seq, e
<1>6. Looping(c, 0, d)
    BY <1>1 DEF Looping, Fewer
<1>7. ASSUME NEW k \in 1..SlotNumber, NEW a, Looping(c, k - 1, a)
      PROVE  Looping(c, k, loop_step(c, a, seq[k]))
    <2>1. seq[k] = k /\ k \in Slots
        BY <1>3, <1>4
    <2>2. Good(a, w, G, n, traffic) /\ Fewer(d, a)
        BY <1>1, <1>7 DEF Looping
    <2> DEFINE f == loop_context(a, k, silent, expired)
    <2>3. Good(f, w, G, n, traffic) /\ Fewer(a, f)
        BY <2>1, <2>2, LoopContextGood
    <2>4. loop_step(c, a, seq[k]) = f
        BY <1>1, <2>1 DEF loop_step
    <2> HIDE DEF f
    <2>5. Fewer(d, f)
        BY <2>2, <2>3 DEF Fewer
    <2> QED BY <1>1, <2>3, <2>4, <2>5 DEF Looping
<1>8. Looping(c, SlotNumber, Looper!Walk(c, d, seq))
    BY <1>3, <1>6, <1>7, Looper!WalkInvariant, LooperInducts
<1> QED BY <1>1, <1>5, <1>8 DEF Looping, e

-----------------------------------------------------------------------------
(* A connection is made.                                                   *)

\* The context of a new connection.
Newcomer(conn) == [mqtt3_context_init(conn) EXCEPT !.listener = TRUE]

\* It has no messages, no name and no will.
LEMMA NewcomerOk ==
    ASSUME NEW conn \in Conns
    PROVE  /\ Newcomer(conn) \in ContextType /\ Newcomer(conn) # NULL /\ Blank(Newcomer(conn))
           /\ Newcomer(conn).sock = conn /\ Newcomer(conn).id = NULL
           /\ Newcomer(conn).state = "new" /\ Newcomer(conn).will = NULL
           /\ Newcomer(conn).acl_list = 0
<1> DEFINE c == Newcomer(conn)
<1>1. NULL \in Ids /\ NULL \in Wills /\ NULL \in Usernames /\ NULL \in Passwords
    BY DEF Ids, Wills, Usernames, Passwords
<1>2. <<>> \in Seq(MessageType)
    OBVIOUS
<1>3. /\ mqtt3_context_init(conn) \in ContextType
      /\ mqtt3_context_init(conn).msgs = <<>> /\ mqtt3_context_init(conn).msg_count12 = 0
      /\ mqtt3_context_init(conn).sock = conn /\ mqtt3_context_init(conn).id = NULL
      /\ mqtt3_context_init(conn).state = "new" /\ mqtt3_context_init(conn).will = NULL
      /\ mqtt3_context_init(conn).acl_list = 0
    BY <1>1, <1>2 DEF mqtt3_context_init, ContextType
<1> DEFINE b == mqtt3_context_init(conn)
<1> HIDE DEF b
<1>4. [b EXCEPT !.listener = TRUE] \in ContextType
    BY <1>3 DEF ContextType, b
<1>5. /\ [b EXCEPT !.listener = TRUE].msgs = b.msgs
      /\ [b EXCEPT !.listener = TRUE].msg_count12 = b.msg_count12
      /\ [b EXCEPT !.listener = TRUE].sock = b.sock /\ [b EXCEPT !.listener = TRUE].id = b.id
      /\ [b EXCEPT !.listener = TRUE].state = b.state /\ [b EXCEPT !.listener = TRUE].will = b.will
      /\ [b EXCEPT !.listener = TRUE].acl_list = b.acl_list
    BY <1>3 DEF ContextType, b
<1>6. c = [b EXCEPT !.listener = TRUE]
    BY DEF Newcomer, b
<1> HIDE DEF c
<1>7. c # NULL
    BY <1>4, <1>6, NullAssumption
<1> QED BY <1>3, <1>4, <1>5, <1>6, <1>7 DEF Blank, c, b

\* What is true of the wills with n connections is true with one more.
LEMMA WilledMore ==
    ASSUME NEW d, NEW G, NEW n \in Nat, NEW traffic, Willed(d, G, n, traffic)
    PROVE  Willed(d, G, n + 1, traffic)
<1>1. 1..n \subseteq 1..(n + 1)
    OBVIOUS
<1> QED BY <1>1 DEF Willed

\* One context is new, that of connection c.
Entered(d, e, i, c) ==
    /\ e.cih = d.cih /\ e.acl_list = d.acl_list /\ e.config = d.config
    /\ e.store = d.store /\ e.subs = d.subs
    /\ d.contexts[i] = NULL /\ e.contexts[i] # NULL
    /\ e.contexts[i].sock = c /\ e.contexts[i].id = NULL /\ e.contexts[i].state = "new"
    /\ e.contexts[i].will = NULL /\ e.contexts[i].acl_list = 0
    /\ \A j \in Slots \ {i} : e.contexts[j] = d.contexts[j]

\* Its slot was free, and nothing leads to it.
LEMMA EnteredGood ==
    ASSUME NEW d, NEW w, NEW G, NEW n \in Nat, NEW traffic, Good(d, w, G, n, traffic), n + 1 \in Conns,
           NEW i \in Slots, NEW e, Sound(e, w), Entered(d, e, i, n + 1)
    PROVE  Good(e, w, G, n + 1, traffic)
<1>0. n + 1 # NULL
    BY NullAssumption
<1>1. Linked(e, {})
    <2>1. PICK S : d.acl_list \in Seq(S)
        BY DEF Good, Linked
    <2>2. 0 \in 0..Len(e.acl_list)
        <3>1. Len(d.acl_list) \in Nat
            BY <2>1, LenProperties
        <3> QED BY <3>1 DEF Entered
    <2>3. \A id \in DOMAIN e.cih : /\ id # NULL /\ e.cih[id] \in Slots
                                   /\ e.contexts[e.cih[id]] # NULL /\ e.contexts[e.cih[id]].id = id
        BY DEF Good, Linked, Entered
    <2>4. \A j \in Slots : e.contexts[j] # NULL /\ e.contexts[j].id # NULL =>
                             e.contexts[j].id \in DOMAIN e.cih /\ e.cih[e.contexts[j].id] = j
        BY DEF Good, Linked, Entered
    <2>5. \A j \in Members(e.subs) \ {} : e.contexts[j] # NULL => e.contexts[j].id # NULL
        <3>1. \A j \in Members(d.subs) : j \in Slots /\ d.contexts[j] # NULL
            BY DEF Good, Sound, SoundBut, Typed, Members
        <3>2. Members(e.subs) = Members(d.subs)
            BY DEF Entered
        <3>3. \A j \in Members(d.subs) \ {} : d.contexts[j] # NULL => d.contexts[j].id # NULL
            BY DEF Good, Linked
        <3> QED BY <3>1, <3>2, <3>3 DEF Entered
    <2>6. \A j \in Slots : e.contexts[j] # NULL => e.contexts[j].acl_list \in 0..Len(e.acl_list)
        BY <2>2 DEF Good, Linked, Entered
    <2> QED BY <2>1, <2>3, <2>4, <2>5, <2>6 DEF Linked, Entered
<1>2. Staged(e, {})
    BY DEF Good, Staged, Entered
<1>3. Willed(e, G, n + 1, traffic)
    <2>1. Willed(d, G, n, traffic)
        BY DEF Good
    <2>2. \A c \in 1..n : Closed(d, c) => Closed(e, c)
        <3>1. \A c \in 1..n : c # n + 1
            OBVIOUS
        <3> QED BY <3>1 DEF Closed, Entered
    <2>3. \A j \in Slots : e.contexts[j] # NULL /\ e.contexts[j].sock # NULL =>
            /\ e.contexts[j].sock \in 1..(n + 1) /\ e.contexts[j].state # "disconnecting"
            /\ e.contexts[j].state = "new" => e.contexts[j].will = NULL
            /\ e.contexts[j].will # NULL =>
                 e.contexts[j].will.payload \in WillsOf(traffic, e.contexts[j].sock)
        <3>1. 1..n \subseteq 1..(n + 1) /\ n + 1 \in 1..(n + 1)
            OBVIOUS
        <3> QED BY <2>1, <3>1 DEF Willed, Entered
    <2>4. \A j, k \in Slots : e.contexts[j] # NULL /\ e.contexts[k] # NULL =>
            e.contexts[j].sock # e.contexts[k].sock \/ j = k \/ e.contexts[j].sock = NULL
        <3>1. n + 1 \notin 1..n
            OBVIOUS
        <3> QED BY <2>1, <3>1 DEF Willed, Entered
    <2>5. \A j \in Slots : Willing(e, j) => e.contexts[j].sock # NULL
        BY <2>1 DEF Willed, Entered, Willing
    <2>6. \A s \in DOMAIN e.store :
            \/ e.store[s].payload \in Plain(traffic)
            \/ \E c \in 1..(n + 1) : e.store[s].payload \in WillsOf(traffic, c) /\ Closed(e, c)
        <3>1. 1..n \subseteq 1..(n + 1) /\ e.store = d.store
            BY DEF Entered
        <3> QED BY <2>1, <2>2, <3>1 DEF Willed
    <2>7. \A will \in G \ {NULL} :
            /\ \E c \in 1..(n + 1) : will.payload \in WillsOf(traffic, c) /\ Closed(e, c)
            /\ \A s \in DOMAIN e.store : e.store[s].payload # will.payload
        <3>1. 1..n \subseteq 1..(n + 1) /\ e.store = d.store
            BY DEF Entered
        <3> QED BY <2>1, <2>2, <3>1 DEF Willed
    <2> QED BY <2>3, <2>4, <2>5, <2>6, <2>7 DEF Willed
<1> QED BY <1>1, <1>2, <1>3 DEF Good

\* At most one context is new.
OneMore(d, e) == \E i : \A j : Live(e, j) => Live(d, j) \/ j = i

\* A connection is accepted, or closed at once; at most one context is new.
LEMMA AcceptGood ==
    ASSUME NEW d, NEW w, NEW G, NEW n \in Nat, NEW traffic, Good(d, w, G, n, traffic), n + 1 \in Conns,
           \E i \in Slots : d.contexts[i] = NULL
    PROVE  /\ Good(mqtt3_socket_accept(d, n + 1), w, G, n + 1, traffic)
           /\ OneMore(d, mqtt3_socket_accept(d, n + 1))
<1> DEFINE free == {i \in DOMAIN d.contexts : d.contexts[i] = NULL}
           i == first(free)
           c == Newcomer(n + 1)
           limit == d.config.max_connections
           e == mqtt3_socket_accept(d, n + 1)
<1>1. Sound(d, w) /\ DOMAIN d = DbFields /\ d.contexts \in [Slots -> ContextType \cup {NULL}]
    BY DEF Good, Sound, SoundBut, Typed
<1>2. i \in Slots /\ d.contexts[i] = NULL
    <2>1. free \subseteq Slots /\ free # {} /\ free \subseteq Nat
        BY <1>1, SlotsAre
    <2>2. i \in free
        BY <2>1, FirstOk
    <2> HIDE DEF i
    <2> QED BY <1>1, <2>2
<1>3. CASE limit > 0 /\ d.client_count + 1 > limit
    <2>1. e = d
        BY <1>3 DEF mqtt3_socket_accept
    <2>2. Willed(d, G, n + 1, traffic)
        BY WilledMore DEF Good
    <2>3. Good(d, w, G, n + 1, traffic)
        BY <2>2 DEF Good
    <2> HIDE DEF e, i
    <2> QED BY <2>1, <2>3 DEF e, OneMore
<1>4. CASE ~(limit > 0 /\ d.client_count + 1 > limit)
    <2> DEFINE f == [d EXCEPT !.client_count = @ + 1, !.contexts[i] = c]
    <2>1. e = f
        BY <1>4 DEF mqtt3_socket_accept, Newcomer
    <2>2. /\ c \in ContextType /\ c # NULL /\ Blank(c) /\ c.sock = n + 1 /\ c.id = NULL
          /\ c.state = "new" /\ c.will = NULL /\ c.acl_list = 0
        BY NewcomerOk
    <2> HIDE DEF i, c, e
    <2>3. Places(d, f, i, c)
        BY <1>1 DEF Places, DbFields
    <2> HIDE DEF f
    <2>4. i \notin Members(d.subs)
        BY <1>1, <1>2 DEF Sound, SoundBut, Typed
    <2>5. /\ Sound(f, w) /\ f.contexts[i] = c
          /\ \A j \in Slots \ {i} : f.contexts[j] = d.contexts[j]
        BY <1>1, <1>2, <2>2, <2>3, <2>4, SlotOk
    <2>6. f.cih = d.cih /\ f.acl_list = d.acl_list
        BY <1>1, <1>4, <2>1 DEF e, mqtt3_socket_accept, DbFields
    <2>7. Entered(d, f, i, n + 1)
        BY <1>2, <2>2, <2>3, <2>5, <2>6 DEF Entered, Places
    <2>8. Good(f, w, G, n + 1, traffic)
        BY <1>2, <2>5, <2>7, EnteredGood
    <2>9. \A j : Live(f, j) => Live(d, j) \/ j = i
        BY <2>5 DEF Live
    <2> QED BY <2>1, <2>8, <2>9 DEF e, OneMore
<1> QED BY <1>3, <1>4

-----------------------------------------------------------------------------
(* Slots.                                                                  *)

occupied(d) == {i \in Slots : d.contexts[i] # NULL}

\* There are no more contexts than connections that were made.
Roomy(d, n) == Cardinality(occupied(d)) <= n

\* A set of slots is finite.
LEMMA OccupiedFinite ==
    ASSUME NEW d
    PROVE  IsFiniteSet(occupied(d)) /\ Cardinality(occupied(d)) \in Nat
<1>1. IsFiniteSet(Slots) /\ occupied(d) \subseteq Slots
    BY BrokerSessionsAssumption DEF occupied
<1> QED BY <1>1, FS_Subset, FS_CardinalityType

\* Without a new context there are not more.
LEMMA FewerRoomy ==
    ASSUME NEW d, NEW e, Fewer(d, e), NEW n \in Nat, Roomy(d, n)
    PROVE  Roomy(e, n)
<1>1. occupied(e) \subseteq occupied(d)
    BY DEF Fewer, Live, occupied
<1>2. Cardinality(occupied(e)) <= Cardinality(occupied(d))
    BY <1>1, OccupiedFinite, FS_Subset
<1> DEFINE x == Cardinality(occupied(e))
           y == Cardinality(occupied(d))
<1>3. x \in Nat /\ y \in Nat /\ x <= y /\ y <= n
    BY <1>2, OccupiedFinite DEF Roomy
<1> HIDE DEF x, y
<1>4. x <= n
    BY <1>3
<1> QED BY <1>4 DEF Roomy, x

\* With a new one there is one more at most.
LEMMA EnteredRoomy ==
    ASSUME NEW d, NEW e, OneMore(d, e), NEW n \in Nat, Roomy(d, n)
    PROVE  Roomy(e, n + 1)
<1>1. PICK i : \A j : Live(e, j) => Live(d, j) \/ j = i
    BY DEF OneMore
<1>2. occupied(e) \subseteq occupied(d) \cup {i}
    BY <1>1 DEF Live, occupied
<1>3. /\ IsFiniteSet(occupied(d) \cup {i})
      /\ Cardinality(occupied(d) \cup {i}) =
           IF i \in occupied(d) THEN Cardinality(occupied(d)) ELSE Cardinality(occupied(d)) + 1
    BY OccupiedFinite, FS_AddElement
<1>4. Cardinality(occupied(e)) <= Cardinality(occupied(d) \cup {i})
    BY <1>2, <1>3, FS_Subset
<1> DEFINE x == Cardinality(occupied(e))
           y == Cardinality(occupied(d))
           z == Cardinality(occupied(d) \cup {i})
<1>5. x \in Nat /\ y \in Nat /\ y <= n /\ x <= z /\ (z = y \/ z = y + 1)
    BY <1>3, <1>4, OccupiedFinite DEF Roomy
<1> HIDE DEF x, y, z
<1>6. x <= n + 1
    BY <1>5
<1> QED BY <1>6 DEF Roomy, x

\* As long as there are fewer than slots, one is free.
LEMMA RoomyFree ==
    ASSUME NEW d, NEW n \in Nat, Roomy(d, n), n < Cardinality(Slots)
    PROVE  \E i \in Slots : d.contexts[i] = NULL
<1>1. SUFFICES ASSUME \A i \in Slots : d.contexts[i] # NULL
               PROVE  FALSE
    OBVIOUS
<1>2. occupied(d) = Slots
    BY <1>1 DEF occupied
<1>3. Cardinality(Slots) <= n
    BY <1>2, Zenon DEF Roomy
<1> DEFINE x == Cardinality(Slots)
<1>4. x \in Nat /\ x <= n /\ n < x
    BY <1>3, SlotsAre DEF SlotNumber
<1> HIDE DEF x
<1> QED BY <1>4

-----------------------------------------------------------------------------
(* Reading the configuration.                                              *)

\* Context e is context c, or c without its connection; its entry of the access list
\* is one of n, or none.
KeptOn(c, e, n) ==
    /\ c = NULL <=> e = NULL
    /\ c # NULL =>
         /\ e.id = c.id /\ e.will = c.will /\ e.acl_list \in 0..n
         /\ \/ e.sock = c.sock /\ e.state = c.state
            \/ e.sock = NULL /\ e.state = "disconnecting"

\* Database e is d with other access lists and without some connections.
Reread(d, e) ==
    /\ AlikeDb(d, e) /\ e.cih = d.cih
    /\ \E S : e.acl_list \in Seq(S)
    /\ \A j \in Slots : KeptOn(d.contexts[j], e.contexts[j], Len(e.acl_list))

\* A connection that ends like this sends no will.
LEMMA RereadGood ==
    ASSUME NEW d, NEW w, NEW G, NEW n \in Nat, NEW traffic, Good(d, w, G, n, traffic),
           NEW e, Reread(d, e)
    PROVE  Good(e, w, G, n, traffic) /\ Lives(d, e)
<1>1. Sound(e, w)
    BY SoundAlike DEF Good, Sound, Reread
<1>2. e.store = d.store /\ e.subs = d.subs /\ e.cih = d.cih
    BY DEF Reread, AlikeDb
<1>3. \A j \in Slots : KeptOn(d.contexts[j], e.contexts[j], Len(e.acl_list))
    BY DEF Reread
<1>4. Linked(e, {})
    <2>1. \A id \in DOMAIN e.cih : /\ id # NULL /\ e.cih[id] \in Slots
                                   /\ e.contexts[e.cih[id]] # NULL /\ e.contexts[e.cih[id]].id = id
        BY <1>2, <1>3 DEF Good, Linked, KeptOn
    <2>2. \A j \in Slots : e.contexts[j] # NULL /\ e.contexts[j].id # NULL =>
                             e.contexts[j].id \in DOMAIN e.cih /\ e.cih[e.contexts[j].id] = j
        BY <1>2, <1>3 DEF Good, Linked, KeptOn
    <2>3. \A j \in Members(e.subs) \ {} : e.contexts[j] # NULL => e.contexts[j].id # NULL
        <3>1. \A j \in Members(d.subs) \ {} : d.contexts[j] # NULL => d.contexts[j].id # NULL
            BY DEF Good, Linked
        <3>2. \A j \in Members(d.subs) : j \in Slots
            BY DEF Members
        <3> QED BY <1>2, <1>3, <3>1, <3>2 DEF KeptOn
    <2>4. \A j \in Slots : e.contexts[j] # NULL => e.contexts[j].acl_list \in 0..Len(e.acl_list)
        BY <1>3 DEF KeptOn
    <2>5. \E S : e.acl_list \in Seq(S)
        BY DEF Reread
    <2> QED BY <2>1, <2>2, <2>3, <2>4, <2>5 DEF Linked
<1>5. Staged(e, {})
    BY <1>3 DEF Good, Staged, KeptOn
<1>6. Willed(e, G, n, traffic)
    <2>1. Willed(d, G, n, traffic)
        BY DEF Good
    <2>2. \A c \in 1..n : Closed(d, c) => Closed(e, c)
        <3>1. \A c \in 1..n : c # NULL
            BY NullAssumption
        <3> QED BY <1>3, <3>1 DEF Closed, KeptOn
    <2>3. \A j \in Slots : e.contexts[j] # NULL /\ e.contexts[j].sock # NULL =>
            /\ e.contexts[j].sock \in 1..n /\ e.contexts[j].state # "disconnecting"
            /\ e.contexts[j].state = "new" => e.contexts[j].will = NULL
            /\ e.contexts[j].will # NULL =>
                 e.contexts[j].will.payload \in WillsOf(traffic, e.contexts[j].sock)
        BY <1>3, <2>1 DEF Willed, KeptOn
    <2>4. \A j, k \in Slots : e.contexts[j] # NULL /\ e.contexts[k] # NULL =>
            e.contexts[j].sock # e.contexts[k].sock \/ j = k \/ e.contexts[j].sock = NULL
        BY <1>3, <2>1 DEF Willed, KeptOn
    <2>5. \A j \in Slots : Willing(e, j) => e.contexts[j].sock # NULL
        BY <1>3, <2>1 DEF Willed, KeptOn, Willing
    <2>6. \A s \in DOMAIN e.store :
            \/ e.store[s].payload \in Plain(traffic)
            \/ \E c \in 1..n : e.store[s].payload \in WillsOf(traffic, c) /\ Closed(e, c)
        BY <1>2, <2>1, <2>2 DEF Willed
    <2>7. \A will \in G \ {NULL} :
            /\ \E c \in 1..n : will.payload \in WillsOf(traffic, c) /\ Closed(e, c)
            /\ \A s \in DOMAIN e.store : e.store[s].payload # will.payload
        BY <1>2, <2>1, <2>2 DEF Willed
    <2> QED BY <2>3, <2>4, <2>5, <2>6, <2>7 DEF Willed
<1>7. Lives(d, e)
    BY <1>3 DEF Lives, Live, KeptOn
<1> QED BY <1>1, <1>4, <1>5, <1>6, <1>7 DEF Good

\* The files of the configuration change what decides on access, and nothing else.
Secured(d, e) ==
    /\ DOMAIN e = DbFields
    /\ e.contexts = d.contexts /\ e.cih = d.cih /\ e.subs = d.subs /\ e.store = d.store
    /\ e.last_db_id = d.last_db_id /\ e.config = d.config
    /\ \E S : e.acl_list \in Seq(S)

\* One thing after another.
LEMMA SecuredTransitive ==
    ASSUME NEW d, NEW e, NEW f, Secured(d, e), Secured(e, f)
    PROVE  Secured(d, f)
BY DEF Secured

\* Nothing done.
LEMMA SecuredReflexive ==
    ASSUME NEW d, DOMAIN d = DbFields, NEW S, d.acl_list \in Seq(S)
    PROVE  Secured(d, d)
BY DEF Secured

\* Another entry, or another line of one.
LEMMA AddAclOk ==
    ASSUME NEW d, NEW e, Secured(d, e), NEW user, NEW topic, NEW access
    PROVE  Secured(d, _add_acl(e, user, topic, access))
<1> DEFINE k == acl_user(e.acl_list, user)
           acl == [topic |-> topic, access |-> access]
           new == [username |-> user, acl |-> <<acl>>]
           old == [e.acl_list[k] EXCEPT !.acl = Append(@, acl)]
           f == [e EXCEPT !.acl_list = Append(e.acl_list, new)]
           g == [e EXCEPT !.acl_list = [e.acl_list EXCEPT ![k] = old]]
<1>1. DOMAIN e = DbFields
    BY DEF Secured
<1>2. PICK S : e.acl_list \in Seq(S)
    BY DEF Secured
<1>3. ASSUME k = 0
      PROVE  _add_acl(e, user, topic, access) = f
    BY <1>3 DEF _add_acl
<1>4. ASSUME k # 0
      PROVE  _add_acl(e, user, topic, access) = g
    BY <1>4 DEF _add_acl
<1>5. Secured(d, f)
    <2> HIDE DEF new
    <2>1. Append(e.acl_list, new) \in Seq(S \cup {new})
        <3>1. e.acl_list \in Seq(S \cup {new})
            BY <1>2
        <3> QED BY <3>1
    <2>2. f.acl_list = Append(e.acl_list, new)
        BY <1>1 DEF DbFields
    <2> QED BY <1>1, <2>1, <2>2 DEF Secured, DbFields
<1>6. Secured(d, g)
    <2> HIDE DEF k, old
    <2> DEFINE n == Len(e.acl_list)
               T == S \cup {old}
               h == [e.acl_list EXCEPT ![k] = old]
    <2>3. n \in Nat /\ DOMAIN e.acl_list = 1..n /\ e.acl_list \in [1..n -> S]
        BY <1>2, LenProperties
    <2> HIDE DEF n
    <2>4. h \in [1..n -> T]
        BY <2>3
    <2>1. h \in Seq(T)
        <3> HIDE DEF h, T
        <3> QED BY <2>3, <2>4, SeqDef
    <2>2. g.acl_list = [e.acl_list EXCEPT ![k] = old]
        BY <1>1 DEF DbFields
    <2> QED BY <1>1, <2>1, <2>2 DEF Secured, DbFields
<1> HIDE DEF f, g, k
<1> QED BY <1>3, <1>4, <1>5, <1>6

\* The walk over the lines of the file; the context of the walk is d.
Reading(c, k, walk) == DOMAIN walk = {"db", "user", "rc"} /\ Secured(c, walk.db)
line_step(c, walk, line) == acl_line(walk, line)
Reader == INSTANCE SequenceFolds WITH op <- line_step, Inv <- Reading

\* The induction that the theorem of Reader assumes.
LEMMA ReaderInducts == Reader!Induction
    BY NatInduct DEF Reader!Induction

\* One line.
LEMMA LineOk ==
    ASSUME NEW d, NEW walk, DOMAIN walk = {"db", "user", "rc"}, Secured(d, walk.db), NEW line
    PROVE  DOMAIN acl_line(walk, line) = {"db", "user", "rc"} /\ Secured(d, acl_line(walk, line).db)
<1> DEFINE e == acl_line(walk, line)
           Is(f) == DOMAIN f = {"db", "user", "rc"} /\ Secured(d, f.db)
<1>1. CASE walk.rc # 0 \/ line.kind = "comment"
    <2>1. e = walk
        BY <1>1 DEF acl_line
    <2> HIDE DEF e
    <2> QED BY <2>1 DEF e
<1>2. CASE walk.rc = 0 /\ line.kind = "user" /\ line.name # NULL
    <2>1. e = [walk EXCEPT !.user = line.name]
        BY <1>2 DEF acl_line
    <2> HIDE DEF e
    <2> QED BY <2>1 DEF e
<1>3. CASE walk.rc = 0 /\ line.kind = "topic" /\ line.access \subseteq Both
    <2> DEFINE f == _add_acl(walk.db, walk.user, line.topic, line.access)
    <2>1. e = [walk EXCEPT !.db = f]
        BY <1>3 DEF acl_line
    <2>2. Secured(d, f)
        BY AddAclOk
    <2> HIDE DEF e, f
    <2> QED BY <2>1, <2>2 DEF e
<1>4. CASE walk.rc = 0 /\ line.kind = "pattern" /\ line.access \subseteq Both
    <2> DEFINE f == _add_acl_pattern(walk.db, line.topic, line.access)
    <2>1. e = [walk EXCEPT !.db = f]
        BY <1>4 DEF acl_line
    <2>2. Secured(d, f)
        BY DEF _add_acl_pattern, Secured, DbFields
    <2> HIDE DEF e, f
    <2> QED BY <2>1, <2>2 DEF e
<1>5. CASE /\ walk.rc = 0 /\ line.kind # "comment"
           /\ ~(line.kind = "user" /\ line.name # NULL)
           /\ ~(line.kind = "topic" /\ line.access \subseteq Both)
           /\ ~(line.kind = "pattern" /\ line.access \subseteq Both)
    <2>1. e = [walk EXCEPT !.rc = 1]
        BY <1>5 DEF acl_line
    <2> HIDE DEF e
    <2> QED BY <2>1 DEF e
<1> QED BY <1>1, <1>2, <1>3, <1>4, <1>5

\* The file of the access lists.
LEMMA AclFileOk ==
    ASSUME NEW d, DOMAIN d = DbFields, NEW S, d.acl_list \in Seq(S),
           usable(d.config), d.config.acl_file # NULL
    PROVE  Secured(d, _aclfile_parse(d).db)
<1> DEFINE file == d.config.acl_file
           n == Len(file)
           base == [db |-> d, user |-> NULL, rc |-> 0]
           walk == FoldLeft(acl_line, base, file)
<1>1. n \in Nat /\ DOMAIN file = 1..n
    BY DEF usable
<1>2. walk = Reader!Walk(d, base, file)
    BY DEF Reader!Walk, Reader!Greatest,
           FoldLeft, MapThenFoldSet, Max, line_step
<1>3. _aclfile_parse(d).db = walk.db
    BY DEF _aclfile_parse
<1>4. Reading(d, 0, base)
    BY SecuredReflexive DEF Reading
<1> HIDE DEF file, n, base, walk
<1>5. ASSUME NEW k \in 1..n, NEW a, Reading(d, k - 1, a)
      PROVE  Reading(d, k, line_step(d, a, file[k]))
    BY <1>5, LineOk DEF Reading, line_step
<1>6. Reading(d, n, Reader!Walk(d, base, file))
    BY <1>1, <1>4, <1>5, Reader!WalkInvariant, ReaderInducts
<1> QED BY <1>2, <1>3, <1>6 DEF Reading

\* All the files.
LEMMA SecurityInitOk ==
    ASSUME NEW d, DOMAIN d = DbFields, NEW S, d.acl_list \in Seq(S), usable(d.config)
    PROVE  Secured(d, mosquitto_security_init_default(d).db)
<1> DEFINE r0 == [db |-> d, rc |-> 0]
           r1 == IF ~(d.config.password_file # NULL) THEN r0 ELSE _unpwd_file_parse(d)
           r2 == IF r1.rc # 0 \/ ~(d.config.acl_file # NULL) THEN r1 ELSE _aclfile_parse(r1.db)
           r3 == IF r2.rc # 0 \/ ~(d.config.psk_file # NULL) THEN r2 ELSE _psk_file_parse(r2.db)
<1>1. mosquitto_security_init_default(d) = r3
    BY DEF mosquitto_security_init_default
<1>2. Secured(d, d)
    BY SecuredReflexive
<1>3. Secured(d, r1.db)
    <2>1. Secured(d, _unpwd_file_parse(d).db)
        BY <1>2 DEF _unpwd_file_parse, Secured, DbFields
    <2> QED BY <1>2, <2>1
<1> HIDE DEF r1
<1>4. Secured(d, r2.db)
    <2>1. ASSUME d.config.acl_file # NULL PROVE Secured(r1.db, _aclfile_parse(r1.db).db)
        BY <1>3, <2>1, AclFileOk DEF Secured
    <2> QED BY <1>3, <2>1, SecuredTransitive
<1> HIDE DEF r2
<1>5. Secured(d, r3.db)
    <2>1. Secured(r2.db, _psk_file_parse(r2.db).db)
        BY <1>4 DEF _psk_file_parse, Secured, DbFields
    <2> QED BY <1>4, <2>1, SecuredTransitive
<1> QED BY <1>1, <1>5

\* A context without its connection, or with another entry of the access list, has
\* the messages it had.
SameOrLess(c, e) ==
    /\ c = NULL <=> e = NULL
    /\ c # NULL => SameMessages(c, e)

\* What changes contexts in this way, and nothing else that matters.
LEMMA AlikeOk ==
    ASSUME NEW d, NEW w, Sound(d, w), NEW e, DOMAIN e = DbFields,
           DOMAIN e.contexts = Slots, e.contexts = [j \in Slots |-> e.contexts[j]],
           e.store = d.store, e.subs = d.subs, e.last_db_id = d.last_db_id, usable(e.config),
           \A j \in Slots : SameOrLess(d.contexts[j], e.contexts[j])
    PROVE  AlikeDb(d, e)
<1>1. AlikeContexts(d.contexts, e.contexts)
    <2>1. ASSUME NEW ms PROVE Alike(ms, ms)
        BY DEF Alike
    <2> QED BY <2>1 DEF AlikeContexts, SameOrLess, SameMessages
<1> QED BY <1>1 DEF AlikeDb

\* A context with another entry of the access list.
LEMMA EntryOk ==
    ASSUME NEW c \in ContextType, NEW n \in Nat
    PROVE  LET e == [c EXCEPT !.acl_list = n]
           IN /\ SameMessages(c, e) /\ e # NULL /\ e.id = c.id /\ e.will = c.will
              /\ e.acl_list = n /\ e.sock = c.sock /\ e.state = c.state
<1> DEFINE e == [c EXCEPT !.acl_list = n]
<1>1. /\ e \in ContextType /\ e.msgs = c.msgs /\ e.msg_count12 = c.msg_count12
      /\ e.id = c.id /\ e.will = c.will
      /\ e.acl_list = n /\ e.sock = c.sock /\ e.state = c.state
    BY DEF ContextType
<1> HIDE DEF e
<1> QED BY <1>1, NullAssumption DEF SameMessages, e

\* A context that loses its connection.
LEMMA DroppedOk ==
    ASSUME NEW c \in ContextType
    PROVE  LET e == [c EXCEPT !.state = "disconnecting", !.sock = NULL]
           IN /\ SameMessages(c, e) /\ e # NULL /\ e.id = c.id /\ e.will = c.will
              /\ e.acl_list = c.acl_list /\ e.sock = NULL /\ e.state = "disconnecting"
<1> DEFINE b == [c EXCEPT !.state = "disconnecting"]
           e == [b EXCEPT !.sock = NULL]
<1>1. /\ b \in ContextType /\ b.msgs = c.msgs /\ b.msg_count12 = c.msg_count12
      /\ b.id = c.id /\ b.will = c.will /\ b.acl_list = c.acl_list /\ b.state = "disconnecting"
    BY DEF ContextType
<1>3. e = [c EXCEPT !.state = "disconnecting", !.sock = NULL]
    OBVIOUS
<1> HIDE DEF b
<1>2. /\ e \in ContextType /\ e.msgs = b.msgs /\ e.msg_count12 = b.msg_count12
      /\ e.id = b.id /\ e.will = b.will /\ e.acl_list = b.acl_list /\ e.sock = NULL
      /\ e.state = b.state
    BY <1>1 DEF ContextType
<1> HIDE DEF e
<1>4. /\ SameMessages(c, e) /\ e # NULL /\ e.id = c.id /\ e.will = c.will
      /\ e.acl_list = c.acl_list /\ e.sock = NULL /\ e.state = "disconnecting"
    BY <1>1, <1>2, NullAssumption DEF SameMessages
<1> QED BY <1>3, <1>4

\* Another configuration file.
LEMMA ConfigGood ==
    ASSUME NEW d, NEW w, NEW G, NEW n \in Nat, NEW traffic, Good(d, w, G, n, traffic),
           NEW config, usable(config)
    PROVE  LET e == [d EXCEPT !.config = config]
           IN Good(e, w, G, n, traffic) /\ Lives(d, e)
<1> DEFINE e == [d EXCEPT !.config = config]
<1>1. Sound(d, w) /\ DOMAIN d = DbFields /\ d.contexts \in [Slots -> ContextType \cup {NULL}]
    BY DEF Good, Sound, SoundBut, Typed
<1>2. /\ DOMAIN e = DbFields /\ e.contexts = d.contexts /\ e.store = d.store /\ e.subs = d.subs
      /\ e.last_db_id = d.last_db_id /\ e.config = config /\ e.cih = d.cih
      /\ e.acl_list = d.acl_list
    BY <1>1 DEF DbFields
<1> HIDE DEF e
<1>3. \A j \in Slots : SameOrLess(d.contexts[j], e.contexts[j])
    BY <1>1, <1>2 DEF SameOrLess, SameMessages
<1>4. DOMAIN e.contexts = Slots /\ e.contexts = [j \in Slots |-> e.contexts[j]]
    BY <1>1, <1>2
<1>5. AlikeDb(d, e)
    BY <1>1, <1>2, <1>3, <1>4, AlikeOk
<1>6. Linked(d, {})
    BY DEF Good
<1>7. Reread(d, e)
    BY <1>2, <1>5, <1>6 DEF Reread, KeptOn, Linked
<1> QED BY <1>7, RereadGood DEF e

\* The files are read when there is no access list.
LEMMA InitGood ==
    ASSUME NEW d, NEW w, NEW G, NEW n \in Nat, NEW traffic, Good(d, w, G, n, traffic),
           d.acl_list = <<>>
    PROVE  LET e == mosquitto_security_init_default(d).db
           IN Good(e, w, G, n, traffic) /\ Lives(d, e)
<1> DEFINE e == mosquitto_security_init_default(d).db
<1>1. /\ Sound(d, w) /\ DOMAIN d = DbFields /\ d.contexts \in [Slots -> ContextType \cup {NULL}]
      /\ usable(d.config)
    BY DEF Good, Sound, SoundBut, Typed
<1>2. d.acl_list \in Seq({})
    OBVIOUS
<1>3. Secured(d, e)
    BY <1>1, <1>2, SecurityInitOk
<1> HIDE DEF e
<1>4. \A j \in Slots : SameOrLess(d.contexts[j], e.contexts[j])
    BY <1>1, <1>3 DEF SameOrLess, SameMessages, Secured
<1>5. DOMAIN e.contexts = Slots /\ e.contexts = [j \in Slots |-> e.contexts[j]]
    BY <1>1, <1>3 DEF Secured
<1>6. AlikeDb(d, e)
    BY <1>1, <1>3, <1>4, <1>5, AlikeOk DEF Secured
<1>7. \A j \in Slots : d.contexts[j] # NULL => d.contexts[j].acl_list = 0
    <2>1. Len(d.acl_list) = 0
        OBVIOUS
    <2> QED BY <2>1 DEF Good, Linked
<1>8. 0 \in 0..Len(e.acl_list)
    <2>1. PICK S : e.acl_list \in Seq(S)
        BY <1>3 DEF Secured
    <2>2. Len(e.acl_list) \in Nat
        BY <2>1, LenProperties
    <2> QED BY <2>2
<1>9. Reread(d, e)
    BY <1>3, <1>6, <1>7, <1>8 DEF Reread, KeptOn, Secured
<1> QED BY <1>9, RereadGood DEF e

\* The access lists go, and no context has an entry of them.
LEMMA SecurityCleanupGood ==
    ASSUME NEW d, NEW w, NEW G, NEW n \in Nat, NEW traffic, Good(d, w, G, n, traffic)
    PROVE  LET e == mosquitto_security_cleanup_default(d)
           IN Good(e, w, G, n, traffic) /\ Lives(d, e) /\ e.acl_list = <<>>
<1> DEFINE e == mosquitto_security_cleanup_default(d)
           none(c) == IF c = NULL THEN NULL ELSE [c EXCEPT !.acl_list = 0]
           cs == IF d.acl_list = <<>> THEN d.contexts ELSE [i \in Slots |-> none(d.contexts[i])]
<1>1. /\ Sound(d, w) /\ DOMAIN d = DbFields /\ d.contexts \in [Slots -> ContextType \cup {NULL}]
      /\ usable(d.config)
    BY DEF Good, Sound, SoundBut, Typed
<1>2. /\ DOMAIN e = DbFields /\ e.contexts = cs /\ e.store = d.store /\ e.subs = d.subs
      /\ e.last_db_id = d.last_db_id /\ e.config = d.config /\ e.cih = d.cih
      /\ e.acl_list = <<>>
    <2>1. DOMAIN d.contexts = Slots
        BY <1>1
    <2> QED BY <1>1, <2>1 DEF mosquitto_security_cleanup_default, _unpwd_cleanup, _acl_cleanup, DbFields
<1>3. \A j \in Slots : /\ SameOrLess(d.contexts[j], e.contexts[j])
                       /\ KeptOn(d.contexts[j], e.contexts[j], 0)
    <2> TAKE j \in Slots
    <2> DEFINE c == d.contexts[j]
               f == e.contexts[j]
    <2>1. c = NULL \/ c \in ContextType
        BY <1>1
    <2>2. 0 \in 0..0 /\ 0 \in Nat
        OBVIOUS
    <2>3. CASE d.acl_list = <<>>
        <3>1. f = c
            BY <1>2, <2>3
        <3>2. Len(d.acl_list) = 0
            BY <2>3
        <3>3. c # NULL => c.acl_list \in 0..0
            BY <3>2 DEF Good, Linked
        <3> HIDE DEF c, f
        <3> QED BY <2>1, <3>1, <3>3 DEF SameOrLess, SameMessages, KeptOn, c, f
    <2>4. CASE d.acl_list # <<>>
        <3>1. f = none(c)
            BY <1>2, <2>4
        <3> DEFINE g == [c EXCEPT !.acl_list = 0]
        <3>2. c # NULL => /\ SameMessages(c, g) /\ g # NULL /\ g.id = c.id /\ g.will = c.will
                          /\ g.acl_list = 0 /\ g.sock = c.sock /\ g.state = c.state
            BY <2>1, <2>2, EntryOk
        <3>3. c = NULL => f = NULL
            BY <3>1
        <3>4. c # NULL => f = g
            BY <3>1
        <3> HIDE DEF c, f, g
        <3> QED BY <2>2, <3>2, <3>3, <3>4 DEF SameOrLess, KeptOn, c, f
    <2> QED BY <2>3, <2>4
<1>4. DOMAIN e.contexts = Slots /\ e.contexts = [j \in Slots |-> e.contexts[j]]
    BY <1>1, <1>2
<1> HIDE DEF e, cs
<1>5. AlikeDb(d, e)
    BY <1>1, <1>2, <1>3, <1>4, AlikeOk
<1>6. e.acl_list \in Seq({}) /\ Len(e.acl_list) = 0
    BY <1>2
<1>7. Reread(d, e)
    BY <1>2, <1>3, <1>5, <1>6 DEF Reread
<1> QED BY <1>2, <1>7, RereadGood DEF e

\* Contexts that may no longer be connected lose their connection; the others get
\* their entry of the access list.
LEMMA ApplyGood ==
    ASSUME NEW d, NEW w, NEW G, NEW n \in Nat, NEW traffic, Good(d, w, G, n, traffic)
    PROVE  LET e == mosquitto_security_apply_default(d)
           IN Good(e, w, G, n, traffic) /\ Lives(d, e)
<1> DEFINE e == mosquitto_security_apply_default(d)
           stays(c) == /\ d.config.allow_anonymous \/ c.username # NULL
                       /\ mosquitto_unpwd_check_default(d, c.username, c.password) = "success"
           k(c) == acl_user(d.acl_list, c.username)
           dropped(c) == [c EXCEPT !.state = "disconnecting", !.sock = NULL]
           entry(c) == [c EXCEPT !.acl_list = k(c)]
<1>1. /\ Sound(d, w) /\ DOMAIN d = DbFields /\ d.contexts \in [Slots -> ContextType \cup {NULL}]
      /\ usable(d.config)
    BY DEF Good, Sound, SoundBut, Typed
<1>2. /\ DOMAIN e = DbFields /\ e.store = d.store /\ e.subs = d.subs
      /\ e.last_db_id = d.last_db_id /\ e.config = d.config /\ e.cih = d.cih
      /\ e.acl_list = d.acl_list
    BY <1>1 DEF mosquitto_security_apply_default, DbFields
<1>3. /\ DOMAIN e.contexts = Slots
      /\ e.contexts = [j \in Slots |-> e.contexts[j]]
      /\ \A j \in Slots :
           /\ d.contexts[j] = NULL => e.contexts[j] = NULL
           /\ d.contexts[j] # NULL =>
                e.contexts[j] \in {dropped(d.contexts[j]), d.contexts[j], entry(d.contexts[j])}
    BY <1>1 DEF mosquitto_security_apply_default, DbFields
<1> HIDE DEF e
<1>4. PICK S : d.acl_list \in Seq(S)
    BY DEF Good, Linked
<1>5. \A j \in Slots : /\ SameOrLess(d.contexts[j], e.contexts[j])
                       /\ KeptOn(d.contexts[j], e.contexts[j], Len(d.acl_list))
    <2> TAKE j \in Slots
    <2> DEFINE c == d.contexts[j]
               f == e.contexts[j]
               m == k(c)
               len == Len(d.acl_list)
    <2>1. c = NULL \/ c \in ContextType
        BY <1>1
    <2>2. m \in 0..len /\ m \in Nat
        BY <1>4, AclUserOk
    <2>3. c # NULL => c.acl_list \in 0..len
        BY DEF Good, Linked
    <2> HIDE DEF len
    <2>4. CASE c = NULL
        BY <1>3, <2>4 DEF SameOrLess, KeptOn
    <2>5. CASE c # NULL /\ f = dropped(c)
        <3> DEFINE g == dropped(c)
        <3>1. /\ SameMessages(c, g) /\ g # NULL /\ g.id = c.id /\ g.will = c.will
              /\ g.acl_list = c.acl_list /\ g.sock = NULL /\ g.state = "disconnecting"
            BY <2>1, <2>5, DroppedOk
        <3>2. f = g
            BY <2>5
        <3> HIDE DEF g, c, f
        <3> QED BY <2>3, <2>5, <3>1, <3>2 DEF SameOrLess, KeptOn, c, f, len
    <2>6. CASE c # NULL /\ f = c
        <3> HIDE DEF c, f
        <3> QED BY <2>1, <2>3, <2>6 DEF SameOrLess, SameMessages, KeptOn, c, f, len
    <2>7. CASE c # NULL /\ f = entry(c)
        <3> DEFINE g == [c EXCEPT !.acl_list = m]
        <3>1. f = g
            BY <2>7
        <3> HIDE DEF m
        <3>2. /\ SameMessages(c, g) /\ g # NULL /\ g.id = c.id /\ g.will = c.will
              /\ g.acl_list = m /\ g.sock = c.sock /\ g.state = c.state
            BY <2>1, <2>2, <2>7, EntryOk
        <3> HIDE DEF g, c, f
        <3> QED BY <2>2, <2>7, <3>1, <3>2 DEF SameOrLess, KeptOn, c, f, len
    <2> QED BY <1>3, <2>4, <2>5, <2>6, <2>7
<1>6. AlikeDb(d, e)
    BY <1>1, <1>2, <1>3, <1>5, AlikeOk
<1>7. Reread(d, e)
    BY <1>2, <1>4, <1>5, <1>6 DEF Reread
<1> QED BY <1>7, RereadGood DEF e

\* The configuration is read again.
LEMMA ReloadGood ==
    ASSUME NEW d, NEW w, NEW G, NEW n \in Nat, NEW traffic, Good(d, w, G, n, traffic),
           NEW config, usable(config)
    PROVE  /\ Good(security_reload([d EXCEPT !.config = config]), w, G, n, traffic)
           /\ Lives(d, security_reload([d EXCEPT !.config = config]))
<1> DEFINE d1 == [d EXCEPT !.config = config]
           d2 == mosquitto_security_cleanup_default(d1)
           d3 == mosquitto_security_init_default(d2).db
           d4 == mosquitto_security_apply_default(d3)
<1>1. security_reload(d1) = d4
    BY DEF security_reload
<1>2. Good(d1, w, G, n, traffic) /\ Lives(d, d1)
    BY ConfigGood
<1> HIDE DEF d1
<1>3. Good(d2, w, G, n, traffic) /\ Lives(d1, d2) /\ d2.acl_list = <<>>
    BY <1>2, SecurityCleanupGood
<1> HIDE DEF d2
<1>4. Good(d3, w, G, n, traffic) /\ Lives(d2, d3)
    BY <1>3, InitGood
<1> HIDE DEF d3
<1>5. Good(d4, w, G, n, traffic) /\ Lives(d3, d4)
    BY <1>4, ApplyGood
<1> HIDE DEF d4
<1>6. Lives(d, d4)
    BY <1>2, <1>3, <1>4, <1>5 DEF Lives
<1> QED BY <1>1, <1>5, <1>6 DEF d1

-----------------------------------------------------------------------------
(* The stages of a pass.                                                   *)

\* What is true with fewer oddities is true with more.
LEMMA OddGood ==
    ASSUME NEW d, NEW w, NEW v, w \subseteq v, NEW G, NEW n, NEW traffic, Good(d, w, G, n, traffic)
    PROVE  Good(d, v, G, n, traffic)
<1>1. Sound(d, w)
    BY DEF Good
<1>2. Typed(d) /\ Pointed(d) /\ Counts(d, w) /\ AtTopics(d, w) /\ Flights(d, w, 0, {})
    BY <1>1 DEF Sound, SoundBut
<1>3. Counts(d, v)
    BY <1>2 DEF Counts
<1>4. AtTopics(d, v)
    BY <1>2 DEF AtTopics
<1>5. Flights(d, v, 0, {})
    <2>1. \A ms, G0 : OnTheWay(ms, G0, w) => OnTheWay(ms, G0, v)
        BY DEF OnTheWay
    <2> QED BY <1>2, <2>1 DEF Flights
<1>6. Sound(d, v)
    BY <1>2, <1>3, <1>4, <1>5 DEF Sound, SoundBut
<1> QED BY <1>6 DEF Good

\* Bodies that nothing points to are freed.
LEMMA CleanGood ==
    ASSUME NEW d, NEW w, NEW G, NEW n, NEW traffic, Good(d, w, G, n, traffic)
    PROVE  /\ Good(mqtt3_db_store_clean(d), w, G, n, traffic)
           /\ Lives(d, mqtt3_db_store_clean(d))
<1> DEFINE e == mqtt3_db_store_clean(d)
<1>1. /\ Sound(e, w) /\ e.contexts = d.contexts /\ e.subs = d.subs
      /\ e.cih = d.cih /\ e.acl_list = d.acl_list
      /\ DOMAIN e.store \subseteq DOMAIN d.store
      /\ \A s \in DOMAIN e.store : e.store[s] = d.store[s]
    BY StoreCleanOk DEF Good
<1> HIDE DEF e
<1>2. Linked(e, {})
    BY <1>1 DEF Good, Linked
<1>3. Staged(e, {})
    BY <1>1 DEF Good, Staged
<1>4. Willed(e, G, n, traffic)
    <2>1. \A c : Closed(e, c) <=> Closed(d, c)
        BY <1>1 DEF Closed
    <2>2. \A j : Willing(e, j) <=> Willing(d, j)
        BY <1>1 DEF Willing
    <2>3. Willed(d, G, n, traffic)
        BY DEF Good
    <2>4. \A s \in DOMAIN e.store :
            \/ e.store[s].payload \in Plain(traffic)
            \/ \E c \in 1..n : e.store[s].payload \in WillsOf(traffic, c) /\ Closed(e, c)
        BY <1>1, <2>1, <2>3 DEF Willed
    <2>5. \A will \in G \ {NULL} :
            /\ \E c \in 1..n : will.payload \in WillsOf(traffic, c) /\ Closed(e, c)
            /\ \A s \in DOMAIN e.store : e.store[s].payload # will.payload
        BY <1>1, <2>1, <2>3 DEF Willed
    <2> QED BY <1>1, <2>2, <2>3, <2>4, <2>5 DEF Willed
<1>5. Lives(d, e)
    BY <1>1 DEF Lives, Live
<1> QED BY <1>1, <1>2, <1>3, <1>4, <1>5 DEF Good, e

\* What was written has gone.
LEMMA FlushedGood ==
    ASSUME NEW d, NEW w, NEW G, NEW n, NEW traffic, Good(d, w, G, n, traffic), Apart(traffic, n)
    PROVE  Good(flushed(d), w, G, n, traffic) /\ Lives(d, flushed(d))
<1> DEFINE e == flushed(d)
<1>1. Sound(d, w) /\ DOMAIN d = DbFields
    BY DEF Good, Sound, SoundBut, Typed
<1>2. OnlyOut(d, e)
    BY <1>1 DEF flushed, OnlyOut, DbFields
<1> HIDE DEF e
<1>3. Sound(e, w) /\ Frame(d, e)
    BY <1>1, <1>2, OnlyOutOk DEF Sound
<1>4. Ends(d, e, Plain(traffic))
    BY <1>3, FrameEnds
<1> QED BY <1>3, <1>4, EndsGood, EndsLives DEF e

\* The rest of the pass: what the loop does for each context, and the messages that
\* have been waiting for too long.
LEMMA RestGood ==
    ASSUME NEW d, NEW w, NEW G, NEW n, NEW traffic, Good(d, w, G, n, traffic), Apart(traffic, n),
           NEW silent, NEW expired, NEW late \in BOOLEAN
    PROVE  LET e == flushed(mqtt3_db_message_timeout_check(
                              aged_if(late, loop_contexts(d, silent, expired))))
           IN Good(e, w, G, n, traffic) /\ Fewer(d, e)
<1> DEFINE P == Plain(traffic)
           d1 == loop_contexts(d, silent, expired)
           d2 == aged_if(late, d1)
           d3 == mqtt3_db_message_timeout_check(d2)
           d4 == flushed(d3)
<1> HIDE DEF P
<1>1. Good(d1, w, G, n, traffic) /\ Fewer(d, d1)
    BY LoopContextsGood
<1> HIDE DEF d1
<1>2. Good(d2, w, G, n, traffic) /\ Fewer(d1, d2)
    <2>1. Sound(d2, w) /\ Frame(d1, d2)
        BY <1>1, AgedOk DEF Good
    <2> HIDE DEF d2
    <2>2. Ends(d1, d2, Plain(traffic))
        BY <2>1, FrameEnds
    <2> QED BY <1>1, <2>1, <2>2, EndedGood
<1> HIDE DEF d2
<1>3. Good(d3, w, G, n, traffic) /\ Fewer(d2, d3)
    <2>1. Sound(d3, w) /\ Frame(d2, d3)
        BY <1>2, TimeoutOk DEF Good
    <2> HIDE DEF d3
    <2>2. Ends(d2, d3, Plain(traffic))
        BY <2>1, FrameEnds
    <2> QED BY <1>2, <2>1, <2>2, EndedGood
<1> HIDE DEF d3
<1>4. Good(d4, w, G, n, traffic) /\ Fewer(d3, d4)
    BY <1>3, FlushedGood, LivesFewer
<1> HIDE DEF d4
<1>5. Fewer(d, d4)
    BY <1>1, <1>2, <1>3, <1>4 DEF Fewer
<1> QED BY <1>4, <1>5 DEF d1, d2, d3, d4

\* A database in which a connection is broken, or not.
breaking(d, breaks, conn) == IF breaks THEN [d EXCEPT !.broken = @ \cup {conn}] ELSE d

\* Nothing else is different.
LEMMA BreakingGood ==
    ASSUME NEW d, NEW w, NEW G, NEW n, NEW traffic, Good(d, w, G, n, traffic), Apart(traffic, n),
           NEW breaks, NEW conn
    PROVE  LET e == breaking(d, breaks, conn)
           IN /\ Good(e, w, G, n, traffic) /\ Lives(d, e) /\ e.contexts = d.contexts
              /\ e.subs = d.subs /\ e.store = d.store /\ e.config = d.config
<1> DEFINE e == breaking(d, breaks, conn)
<1>1. Sound(d, w) /\ Typed(d) /\ DOMAIN d = DbFields
    BY DEF Good, Sound, SoundBut, Typed
<1>2. /\ DOMAIN e = DbFields /\ e.contexts = d.contexts /\ e.subs = d.subs /\ e.store = d.store
      /\ e.config = d.config /\ e.last_db_id = d.last_db_id /\ e.cih = d.cih
      /\ e.acl_list = d.acl_list
    BY <1>1 DEF breaking, DbFields
<1> HIDE DEF e
<1>3. AlikeDb(d, d)
    BY <1>1, AlikeReflexive
<1>4. AlikeDb(d, e)
    BY <1>2, <1>3 DEF AlikeDb
<1>5. Sound(e, w)
    BY <1>1, <1>4, SoundAlike DEF Sound
<1>6. Frame(d, d)
    BY FrameReflexive
<1>7. Frame(d, e)
    BY <1>2, <1>6 DEF Frame
<1>8. Ends(d, e, Plain(traffic))
    BY <1>7, FrameEnds
<1> QED BY <1>2, <1>5, <1>8, EndsGood, EndsLives DEF e

\* What a packet does that the broker is not made for is remembered.
LEMMA OdditiesExpected ==
    ASSUME NEW d, NEW i, NEW p, NEW w, oddities(d, i, p) \subseteq w
    PROVE  Expected(d, i, p, w)
<1>1. ASSUME p.type = "PUBREC", Early(d, i, p.mid)
      PROVE  "early" \in w
    <2>1. "early" \in oddities(d, i, p)
        BY <1>1 DEF oddities, Early
    <2> QED BY <2>1
<1>2. ASSUME p.type = "PUBLISH", Reused(d, i, p)
      PROVE  "reuse" \in w
    <2>1. "reuse" \in oddities(d, i, p)
        BY <1>2 DEF oddities, Reused
    <2> QED BY <2>1
<1>3. ASSUME p.type = "SUBSCRIBE", NEW k \in DOMAIN p.subs, ~Rooted(d, p.subs[k].sub)
      PROVE  "root" \in w
    <2>1. p.subs[k] \in Range(p.subs)
        BY DEF Range
    <2> DEFINE s == p.subs[k]
    <2>2. <<Head(_sub_topic_tokenise(d.config.mount_point \o s.sub))>> \notin DOMAIN d.subs
        BY <1>3 DEF Rooted
    <2>3. "root" \in oddities(d, i, p)
        BY <1>3, <2>1, <2>2 DEF oddities
    <2> QED BY <2>3
<1> QED BY <1>1, <1>2, <1>3 DEF Expected

\* The same contexts, tree and configuration: the same oddities.
LEMMA ExpectedSame ==
    ASSUME NEW d, NEW e, e.contexts = d.contexts, e.subs = d.subs, e.store = d.store,
           e.config = d.config, NEW i, NEW p, NEW w, Expected(d, i, p, w)
    PROVE  Expected(e, i, p, w)
<1>1. Early(e, i, p.mid) <=> Early(d, i, p.mid)
    BY DEF Early
<1>2. mqtt3_db_message_store_find(e, i, p.mid) = mqtt3_db_message_store_find(d, i, p.mid)
    BY DEF mqtt3_db_message_store_find
<1>3. Reused(e, i, p) <=> Reused(d, i, p)
    BY <1>2 DEF Reused
<1>4. ASSUME NEW sub PROVE Rooted(e, sub) <=> Rooted(d, sub)
    BY DEF Rooted
<1> QED BY <1>1, <1>3, <1>4 DEF Expected

\* The wills of those that said goodbye are those with or without the broken
\* connection.
LEMMA PartedSame ==
    ASSUME NEW d, NEW e, e.contexts = d.contexts, NEW G, NEW i, NEW p
    PROVE  parted(G, e, i, p) = parted(G, d, i, p)
BY DEF parted

\* A packet is read.
LEMMA PassGood ==
    ASSUME NEW d, NEW w, NEW G, NEW n \in Nat, NEW traffic, Good(d, w, G, n, traffic), Apart(traffic, n),
           NEW i, Live(d, i), d.contexts[i].sock # NULL, NEW breaks, NEW conn,
           NEW p \in traffic[d.contexts[i].sock], readable(p),
           p.type = "CONNECT" => p \in sent("CONNECT")
    PROVE  LET e == flushed(loop_handle_read(breaking(d, breaks, conn), i, p))
           IN Good(e, w \cup oddities(d, i, p), parted(G, d, i, p), n, traffic) /\ Lives(d, e)
<1> DEFINE v == w \cup oddities(d, i, p)
           b == breaking(d, breaks, conn)
           r == loop_handle_read(b, i, p)
           H == parted(G, d, i, p)
<1>1. Good(d, v, G, n, traffic)
    BY OddGood
<1>2. Expected(d, i, p, v)
    BY OdditiesExpected
<1> HIDE DEF v
<1>3. /\ Good(b, v, G, n, traffic) /\ Lives(d, b) /\ b.contexts = d.contexts
      /\ b.subs = d.subs /\ b.store = d.store /\ b.config = d.config
    BY <1>1, BreakingGood
<1> HIDE DEF b
<1>4. Expected(b, i, p, v)
    BY <1>2, <1>3, ExpectedSame
<1>5. Live(b, i) /\ b.contexts[i].sock # NULL /\ p \in traffic[b.contexts[i].sock]
    BY <1>3 DEF Live
<1>6. parted(G, b, i, p) = H
    BY <1>3, PartedSame
<1>7. Good(r, v, H, n, traffic) /\ Lives(b, r)
    <2>1. CASE p.type = "CONNECT"
        <3>1. p \in sent("CONNECT")
            BY <2>1
        <3>2. H = G
            BY <2>1 DEF parted
        <3>3. Good(r, v, G, n, traffic) /\ Lives(b, r)
            BY <1>3, <1>5, <3>1, ConnectGood
        <3> HIDE DEF r, H
        <3> QED BY <3>2, <3>3
    <2>2. CASE p.type # "CONNECT"
        <3>1. Good(r, v, parted(G, b, i, p), n, traffic) /\ Lives(b, r)
            BY <1>3, <1>4, <1>5, <2>2, ReadGood
        <3> HIDE DEF r, H
        <3> QED BY <1>6, <3>1
    <2> QED BY <2>1, <2>2
<1> HIDE DEF r, H
<1>8. Good(flushed(r), v, H, n, traffic) /\ Lives(r, flushed(r))
    BY <1>7, FlushedGood
<1>9. Lives(d, flushed(r))
    BY <1>3, <1>7, <1>8 DEF Lives
<1> QED BY <1>8, <1>9 DEF r, b, v, H

\* An empty database.
LEMMA OpenedGood ==
    ASSUME NEW config, usable(config), NEW w, NEW traffic
    PROVE  /\ Good(Opened(config), w, {}, 0, traffic) /\ Roomy(Opened(config), 0)
           /\ Opened(config).acl_list = <<>>
<1> DEFINE d == Opened(config)
<1>1. /\ DOMAIN d = DbFields /\ d.contexts = [i \in Slots |-> NULL] /\ d.cih = <<>>
      /\ d.subs = NewTree /\ d.store = <<>> /\ d.last_db_id = 0 /\ d.acl_list = <<>>
      /\ d.config = config
    BY DEF Opened, mqtt3_db_open, DbFields
<1> HIDE DEF d
<1>2. /\ TreeOk(d.subs, Chars, Slots)
      /\ \A p \in DOMAIN d.subs : d.subs[p].subs = <<>> /\ d.subs[p].retained = NoBody
    BY <1>1, NewTreeOk, NullAssumption DEF Name
<1>3. DOMAIN d.store = {} /\ DOMAIN d.cih = {} /\ (\A i \in Slots : d.contexts[i] = NULL)
    BY <1>1
<1>4. Members(d.subs) = {}
    BY <1>2 DEF Members
<1>5. Typed(d)
    <2>1. d.contexts \in [Slots -> ContextType \cup {NULL}]
        BY <1>1
    <2> QED BY <1>1, <1>2, <1>3, <1>4, <2>1 DEF Typed
<1>6. Pointed(d)
    <2>1. \A i \in Slots : msgsOf(d.contexts, i) = <<>>
        BY <1>3 DEF msgsOf
    <2> QED BY <1>2, <2>1 DEF Pointed
<1>7. Counts(d, w) /\ AtTopics(d, w) /\ Flights(d, w, 0, {})
    BY <1>2, <1>3 DEF Counts, AtTopics, Flights
<1>8. Linked(d, {})
    <2>1. d.acl_list \in Seq({})
        BY <1>1
    <2> QED BY <1>3, <1>4, <2>1 DEF Linked
<1>9. Staged(d, {}) /\ Willed(d, {}, 0, traffic)
    BY <1>3 DEF Staged, Willed, Willing
<1>10. Roomy(d, 0)
    <2>1. occupied(d) = {}
        BY <1>3 DEF occupied
    <2>2. Cardinality(occupied(d)) = 0
        BY <2>1, FS_EmptySet, Zenon
    <2> QED BY <2>2 DEF Roomy
<1> QED BY <1>1, <1>5, <1>6, <1>7, <1>8, <1>9, <1>10 DEF Good, Sound, SoundBut, d

\* The broker starts without a database file.
LEMMA StartedGood ==
    ASSUME NEW config, usable(config), NEW w, NEW traffic
    PROVE  Good(started(config, NULL), w, {}, 0, traffic) /\ Roomy(started(config, NULL), 0)
<1> DEFINE d == Opened(config)
           e == mosquitto_security_init_default(d).db
<1>1. started(config, NULL) = e
    BY DEF started
<1>2. Good(d, w, {}, 0, traffic) /\ Roomy(d, 0) /\ d.acl_list = <<>>
    BY OpenedGood
<1> HIDE DEF d
<1>3. 0 \in Nat
    OBVIOUS
<1>4. Good(e, w, {}, 0, traffic) /\ Lives(d, e)
    BY <1>2, <1>3, InitGood
<1> HIDE DEF e
<1>5. Roomy(e, 0)
    BY <1>2, <1>3, <1>4, LivesFewer, FewerRoomy
<1> QED BY <1>1, <1>4, <1>5

-----------------------------------------------------------------------------
(* What the scenarios say.                                                 *)

\* The payload of a will is neither empty nor that of a message, nor that of the will
\* of another connection.
LEMMA PayloadsApart ==
    ASSUME NEW s \in Scenarios, NEW c \in Conns, NEW p \in s.packets[c],
           p.type = "CONNECT", p.will # NULL
    PROVE  /\ p.will.payload # NoPayload
           /\ \A other \in Conns : \A q \in s.packets[other] :
                /\ q.type = "PUBLISH" => q.payload # p.will.payload
                /\ other # c /\ q.type = "CONNECT" /\ q.will # NULL =>
                     q.will.payload # p.will.payload
<1>0. \A c0 \in Conns : \A q0 \in s.packets[c0] :
        /\ readable(q0)
        /\ q0.type = "CONNECT" /\ q0.will # NULL =>
             /\ q0.will.payload # ""
             /\ \A other \in Conns : \A q \in s.packets[other] :
                  /\ q.type = "PUBLISH" => q.payload # q0.will.payload
                  /\ other # c0 /\ q.type = "CONNECT" /\ q.will # NULL =>
                       q.will.payload # q0.will.payload
    BY ScenariosAssumption, Zenon
<1>1. \A q0 \in s.packets[c] :
        q0.type = "CONNECT" /\ q0.will # NULL =>
          /\ q0.will.payload # ""
          /\ \A other \in Conns : \A q \in s.packets[other] :
               /\ q.type = "PUBLISH" => q.payload # q0.will.payload
               /\ other # c /\ q.type = "CONNECT" /\ q.will # NULL =>
                    q.will.payload # q0.will.payload
    BY <1>0, Zenon
<1>2. /\ p.will.payload # ""
      /\ \A other \in Conns : \A q \in s.packets[other] :
           /\ q.type = "PUBLISH" => q.payload # p.will.payload
           /\ other # c /\ q.type = "CONNECT" /\ q.will # NULL =>
                q.will.payload # p.will.payload
    BY <1>1, Zenon
<1>3. p.will.payload # NoPayload
    BY <1>2, Zenon DEF NoPayload
<1> QED BY <1>2, <1>3, Zenon

\* So the wills of the connections that have been made are apart.
LEMMA ScenarioApart ==
    ASSUME NEW s \in Scenarios, NEW n \in Nat, n <= Cardinality(Conns)
    PROVE  Apart(s.packets, n)
<1> DEFINE traffic == s.packets
           Published == {p.payload : p \in {q \in UNION {traffic[c] : c \in Conns} : q.type = "PUBLISH"}}
<1>1. 1..n \subseteq Conns
    <2> DEFINE m == Cardinality(Conns)
    <2>1. m \in Nat /\ Conns = 1..m
        BY BrokerSessionsAssumption, FS_CardinalityType
    <2> HIDE DEF m
    <2>2. n <= m
        BY DEF m
    <2> QED BY <2>1, <2>2
<1>2. Plain(traffic) = {NoPayload} \cup Published
    BY Zenon DEF Plain, NoPayload
<1> HIDE DEF traffic
<1>3. ASSUME NEW c \in 1..n, NEW x \in WillsOf(traffic, c) PROVE x \notin Plain(traffic)
    <2>1. PICK p \in traffic[c] : p.type = "CONNECT" /\ p.will # NULL /\ x = p.will.payload
        BY <1>3 DEF WillsOf
    <2>2. /\ p.will.payload # NoPayload
          /\ \A other \in Conns : \A q \in traffic[other] : q.type = "PUBLISH" => q.payload # p.will.payload
        BY <1>1, <2>1, PayloadsApart DEF traffic
    <2> QED BY <1>2, <2>1, <2>2
<1>4. ASSUME NEW b \in 1..n, NEW c \in 1..n, b # c, NEW x \in WillsOf(traffic, b)
      PROVE  x \notin WillsOf(traffic, c)
    <2>1. PICK p \in traffic[b] : p.type = "CONNECT" /\ p.will # NULL /\ x = p.will.payload
        BY <1>4 DEF WillsOf
    <2>2. \A other \in Conns : \A q \in traffic[other] :
             other # b /\ q.type = "CONNECT" /\ q.will # NULL => q.will.payload # p.will.payload
        BY <1>1, <2>1, PayloadsApart DEF traffic
    <2> QED BY <1>1, <1>4, <2>1, <2>2 DEF WillsOf
<1> QED BY <1>3, <1>4 DEF Apart, traffic

\* A packet that a connection may send.
LEMMA PacketOk ==
    ASSUME NEW s \in Scenarios, NEW c \in Conns, NEW p \in s.packets[c]
    PROVE  readable(p) /\ (p.type = "CONNECT" => p \in sent("CONNECT"))
<1>1. readable(p)
    BY ScenariosAssumption
<1>2. ASSUME p.type = "CONNECT" PROVE p \in sent("CONNECT")
    BY <1>2 DEF sent
<1> QED BY <1>1, <1>2

-----------------------------------------------------------------------------
(* The inductive invariant.                                                *)

\* What is left of a scenario, some of its reloads having happened.
Underway ==
    \E s \in Scenarios :
       /\ DOMAIN scenario = DOMAIN s
       /\ scenario.config = s.config /\ scenario.packets = s.packets
       /\ scenario.conns = s.conns /\ scenario.reloads \subseteq s.reloads

\* Until the broker is started again, the database is as it should be: for what has
\* happened, whoever has said goodbye, and the connections that were made.
BrokerInv ==
    /\ Underway
    /\ accepted \in Nat /\ accepted <= scenario.conns
    /\ restarts \in Nat
    /\ restarts = 0 => /\ Good(db, odd, goodbye, accepted, scenario.packets)
                       /\ Roomy(db, accepted)

\* The wills are apart at any time.
LEMMA UnderwayApart ==
    ASSUME BrokerInv
    PROVE  Apart(scenario.packets, accepted)
<1>1. PICK s \in Scenarios : scenario.packets = s.packets /\ scenario.conns = s.conns
    BY DEF BrokerInv, Underway
<1>2. s.conns \in Nat /\ s.conns <= Cardinality(Conns)
    BY BrokerSessionsAssumption
<1> DEFINE m == Cardinality(Conns)
<1>3. m \in Nat
    BY BrokerSessionsAssumption, FS_CardinalityType
<1>4. accepted <= m
    <2>1. accepted \in Nat /\ accepted <= s.conns
        BY <1>1 DEF BrokerInv
    <2> HIDE DEF m
    <2>2. s.conns <= m
        BY <1>2 DEF m
    <2> QED BY <1>2, <1>3, <2>1, <2>2
<1>5. Apart(s.packets, accepted)
    BY <1>4, ScenarioApart DEF BrokerInv
<1> QED BY <1>1, <1>5

\* The broker has been started.
LEMMA BrokerInit == Init => BrokerInv
<1> SUFFICES ASSUME Init PROVE BrokerInv
    OBVIOUS
<1>1. scenario \in Scenarios /\ accepted = 0 /\ restarts = 0 /\ goodbye = {} /\ odd = {}
      /\ db = started(scenario.config, NULL)
    BY DEF Init
<1>2. usable(scenario.config) /\ scenario.conns \in Nat
    BY <1>1, ScenariosAssumption, BrokerSessionsAssumption
<1>3. Good(started(scenario.config, NULL), odd, {}, 0, scenario.packets)
      /\ Roomy(started(scenario.config, NULL), 0)
    BY <1>2, StartedGood
<1>4. Underway
    BY <1>1 DEF Underway
<1> QED BY <1>1, <1>2, <1>3, <1>4 DEF BrokerInv

\* What stays if only the database changes.
LEMMA BrokerKept ==
    ASSUME BrokerInv, UNCHANGED <<scenario, accepted, restarts>>,
           restarts = 0 => /\ Good(db', odd', goodbye', accepted, scenario.packets)
                           /\ Roomy(db', accepted)
    PROVE  BrokerInv'
BY DEF BrokerInv, Underway

\* A packet is read.
LEMMA BrokerRead ==
    ASSUME BrokerInv, NEW i \in Slots, NEW breaks \in BOOLEAN,
           db.contexts[i] # NULL, db.contexts[i].sock # NULL,
           NEW p \in scenario.packets[db.contexts[i].sock], Read(i, p, breaks)
    PROVE  BrokerInv'
<1> DEFINE conn == db.contexts[i].sock
           traffic == scenario.packets
           b == breaking(db, breaks, conn)
           e == flushed(loop_handle_read(b, i, p))
<1>1. /\ db' = e /\ odd' = odd \cup oddities(db, i, p)
      /\ UNCHANGED <<scenario, accepted, restarts>>
    BY DEF Read, breaking
<1>2. goodbye' = parted(goodbye, db, i, p)
    BY DEF Read, parted
<1>3. ASSUME restarts = 0
      PROVE  Good(e, odd', goodbye', accepted, traffic) /\ Roomy(e, accepted)
    <2>1. /\ Good(db, odd, goodbye, accepted, traffic) /\ Roomy(db, accepted)
          /\ accepted \in Nat /\ Apart(traffic, accepted)
        BY <1>3, UnderwayApart DEF BrokerInv
    <2>2. Live(db, i)
        BY DEF Live
    <2>3. conn \in Conns
        <3>1. db.contexts[i] \in ContextType
            BY <2>1, MsgsOfType DEF Good, Sound, SoundBut
        <3> QED BY <3>1 DEF ContextType
    <2>4. readable(p) /\ (p.type = "CONNECT" => p \in sent("CONNECT"))
        <3>1. PICK s \in Scenarios : scenario.packets = s.packets
            BY DEF BrokerInv, Underway
        <3> QED BY <2>3, <3>1, PacketOk
    <2>5. Good(e, odd \cup oddities(db, i, p), parted(goodbye, db, i, p), accepted, traffic)
          /\ Lives(db, e)
        BY <2>1, <2>2, <2>4, PassGood
    <2> HIDE DEF e
    <2>6. Roomy(e, accepted)
        BY <2>1, <2>5, LivesFewer, FewerRoomy
    <2> QED BY <1>1, <1>2, <2>5, <2>6
<1> HIDE DEF e
<1> QED BY <1>1, <1>3, BrokerKept

\* A connection is made: there is a slot for it.
LEMMA BrokerAccept ==
    ASSUME BrokerInv, Accept
    PROVE  BrokerInv'
<1> DEFINE e == mqtt3_socket_accept(db, accepted + 1)
           traffic == scenario.packets
<1>1. /\ accepted < scenario.conns /\ db' = e /\ accepted' = accepted + 1
      /\ UNCHANGED <<scenario, restarts, goodbye, odd>>
    BY DEF Accept
<1>2. PICK s \in Scenarios : scenario.conns = s.conns
    BY DEF BrokerInv, Underway
<1>3. /\ s.conns \in Nat /\ s.conns <= Cardinality(Conns) /\ s.conns < Cardinality(Slots)
      /\ Conns = 1..Cardinality(Conns)
    BY BrokerSessionsAssumption
<1> DEFINE m == Cardinality(Conns)
           l == Cardinality(Slots)
<1>4. m \in Nat /\ l \in Nat
    BY BrokerSessionsAssumption, FS_CardinalityType
<1>5. /\ accepted \in Nat /\ accepted + 1 \in Nat
      /\ accepted + 1 \in 1..m /\ accepted < l /\ accepted + 1 <= scenario.conns
    <2>1. accepted \in Nat /\ accepted < s.conns /\ s.conns \in Nat
        BY <1>1, <1>2, <1>3 DEF BrokerInv
    <2> HIDE DEF m, l
    <2>2. s.conns <= m /\ s.conns < l
        BY <1>3 DEF m, l
    <2> QED BY <1>2, <1>4, <2>1, <2>2
<1>6. ASSUME restarts = 0
      PROVE  Good(e, odd, goodbye, accepted + 1, traffic) /\ Roomy(e, accepted + 1)
    <2>1. Good(db, odd, goodbye, accepted, traffic) /\ Roomy(db, accepted)
        BY <1>6 DEF BrokerInv
    <2>2. \E i \in Slots : db.contexts[i] = NULL
        BY <1>5, <2>1, RoomyFree
    <2>3. accepted + 1 \in Conns
        BY <1>3, <1>5
    <2>4. Good(e, odd, goodbye, accepted + 1, traffic) /\ OneMore(db, e)
        BY <1>5, <2>1, <2>2, <2>3, AcceptGood
    <2> HIDE DEF e
    <2>5. Roomy(e, accepted + 1)
        BY <1>5, <2>1, <2>4, EnteredRoomy
    <2> QED BY <2>4, <2>5
<1> HIDE DEF e
<1> QED BY <1>1, <1>5, <1>6 DEF BrokerInv, Underway

\* The database is saved: it does not change.
LEMMA BrokerSave ==
    ASSUME BrokerInv, Save
    PROVE  BrokerInv'
<1>1. UNCHANGED <<db, scenario, accepted, restarts, goodbye, odd>>
    BY DEF Save
<1> QED BY <1>1, BrokerKept DEF BrokerInv

\* Message bodies are freed.
LEMMA BrokerClean ==
    ASSUME BrokerInv, Clean
    PROVE  BrokerInv'
<1> DEFINE e == mqtt3_db_store_clean(db)
<1>1. db' = e /\ UNCHANGED <<scenario, accepted, restarts, goodbye, odd>>
    BY DEF Clean
<1>2. ASSUME restarts = 0
      PROVE  Good(e, odd, goodbye, accepted, scenario.packets) /\ Roomy(e, accepted)
    <2>1. /\ Good(db, odd, goodbye, accepted, scenario.packets) /\ Roomy(db, accepted)
          /\ accepted \in Nat
        BY <1>2 DEF BrokerInv
    <2>2. Good(e, odd, goodbye, accepted, scenario.packets) /\ Lives(db, e)
        BY <2>1, CleanGood
    <2> HIDE DEF e
    <2> QED BY <2>1, <2>2, LivesFewer, FewerRoomy
<1> HIDE DEF e
<1> QED BY <1>1, <1>2, BrokerKept

\* The configuration is read again.
LEMMA BrokerReload ==
    ASSUME BrokerInv, Reload
    PROVE  BrokerInv'
<1>1. PICK config \in scenario.reloads :
         /\ db' = security_reload([db EXCEPT !.config = config])
         /\ scenario' = [scenario EXCEPT !.reloads = @ \ {config}]
    BY DEF Reload
<1>2. UNCHANGED <<accepted, restarts, goodbye, odd>>
    BY DEF Reload
<1>3. PICK s \in Scenarios :
        /\ DOMAIN scenario = DOMAIN s
        /\ scenario.config = s.config /\ scenario.packets = s.packets
        /\ scenario.conns = s.conns /\ scenario.reloads \subseteq s.reloads
    BY DEF BrokerInv, Underway
<1>4. /\ usable(config)
      /\ DOMAIN s = {"config", "reloads", "packets", "conns", "reads", "breaks", "faults"}
    <2>1. config \in s.reloads
        BY <1>1, <1>3
    <2> QED BY <2>1, ScenariosAssumption, BrokerSessionsAssumption
<1>5. /\ DOMAIN scenario' = DOMAIN s
      /\ scenario'.config = s.config /\ scenario'.packets = s.packets
      /\ scenario'.conns = s.conns /\ scenario'.reloads \subseteq s.reloads
    BY <1>1, <1>3, <1>4
<1> DEFINE e == security_reload([db EXCEPT !.config = config])
<1>6. ASSUME restarts = 0
      PROVE  Good(e, odd, goodbye, accepted, scenario.packets) /\ Roomy(e, accepted)
    <2>1. /\ Good(db, odd, goodbye, accepted, scenario.packets) /\ Roomy(db, accepted)
          /\ accepted \in Nat
        BY <1>6 DEF BrokerInv
    <2>2. Good(e, odd, goodbye, accepted, scenario.packets) /\ Lives(db, e)
        BY <1>4, <2>1, ReloadGood
    <2> HIDE DEF e
    <2> QED BY <2>1, <2>2, LivesFewer, FewerRoomy
<1>7. db' = e
    BY <1>1
<1> HIDE DEF e
<1>8. accepted' \in Nat /\ accepted' <= scenario'.conns /\ restarts' \in Nat
    BY <1>2, <1>3, <1>5 DEF BrokerInv
<1>9. Underway'
    BY <1>5 DEF Underway
<1> QED BY <1>2, <1>3, <1>5, <1>6, <1>7, <1>8, <1>9 DEF BrokerInv

\* The rest of a pass.
LEMMA BrokerContexts ==
    ASSUME BrokerInv, NEW silent, NEW expired, NEW late \in BOOLEAN,
           Contexts(silent, expired, late)
    PROVE  BrokerInv'
<1> DEFINE e == flushed(mqtt3_db_message_timeout_check(
                          aged_if(late, loop_contexts(db, silent, expired))))
<1>1. db' = e /\ UNCHANGED <<scenario, accepted, restarts, goodbye, odd>>
    BY DEF Contexts
<1>2. ASSUME restarts = 0
      PROVE  Good(e, odd, goodbye, accepted, scenario.packets) /\ Roomy(e, accepted)
    <2>1. /\ Good(db, odd, goodbye, accepted, scenario.packets) /\ Roomy(db, accepted)
          /\ accepted \in Nat /\ Apart(scenario.packets, accepted)
        BY <1>2, UnderwayApart DEF BrokerInv
    <2>2. Good(e, odd, goodbye, accepted, scenario.packets) /\ Fewer(db, e)
        BY <2>1, RestGood
    <2> HIDE DEF e
    <2> QED BY <2>1, <2>2, FewerRoomy
<1> HIDE DEF e
<1> QED BY <1>1, <1>2, BrokerKept

\* The broker is started again: it has been.
LEMMA BrokerRestart ==
    ASSUME BrokerInv, Crash \/ Terminate
    PROVE  BrokerInv'
<1>1. restarts' = restarts + 1 /\ UNCHANGED <<scenario, accepted>>
    BY DEF Crash, Terminate
<1>2. restarts' \in Nat /\ restarts' # 0
    BY <1>1 DEF BrokerInv
<1> QED BY <1>1, <1>2 DEF BrokerInv, Underway

\* Every step of the broker keeps it.
LEMMA BrokerNext == BrokerInv /\ [Next]_vars => BrokerInv'
<1> SUFFICES ASSUME BrokerInv, [Next]_vars PROVE BrokerInv'
    OBVIOUS
<1>1. CASE UNCHANGED vars
    BY <1>1, BrokerKept DEF BrokerInv, vars
<1>2. ASSUME NEW i \in Slots, NEW breaks \in BOOLEAN,
             db.contexts[i] # NULL, db.contexts[i].sock # NULL,
             NEW p \in scenario.packets[db.contexts[i].sock], Read(i, p, breaks)
      PROVE  BrokerInv'
    BY <1>2, BrokerRead
<1>3. CASE Accept
    BY <1>3, BrokerAccept
<1>4. CASE Save
    BY <1>4, BrokerSave
<1>5. CASE Clean
    BY <1>5, BrokerClean
<1>6. CASE Reload
    BY <1>6, BrokerReload
<1>7. CASE Crash \/ Terminate
    BY <1>7, BrokerRestart
<1>8. ASSUME NEW silent \in AtMostOne, NEW expired \in AtMostOne, NEW late \in BOOLEAN,
             Contexts(silent, expired, late)
      PROVE  BrokerInv'
    BY <1>8, BrokerContexts
<1> QED BY <1>1, <1>2, <1>3, <1>4, <1>5, <1>6, <1>7, <1>8 DEF Next

-----------------------------------------------------------------------------
(* What follows from it.                                                   *)

\* What points to a body is what is counted.
LEMMA SoundCounts ==
    ASSUME Sound(db, odd)
    PROVE  RefCounts
<1>1. Typed(db) /\ Pointed(db) /\ Counts(db, odd)
    BY DEF Sound, SoundBut
<1>2. ASSUME NEW i \in Slots PROVE messages(i) = msgsOf(db.contexts, i)
    BY DEF messages, msgsOf
<1>3. ASSUME NEW s PROVE inflight(s) = pairs(db.contexts, s)
    BY DEF inflight, pairs, messages, msgsOf
<1>4. ASSUME NEW s PROVE retained(s) = rets(db.subs, s)
    BY DEF retained, rets
<1>5. ASSUME NEW s \in DOMAIN db.store
      PROVE  LET pointers == Cardinality(inflight(s)) + Cardinality(retained(s))
             IN /\ db.store[s].ref_count >= pointers
                /\ "root" \notin odd => db.store[s].ref_count = pointers
    BY <1>1, <1>3, <1>4 DEF Counts, held
<1>6. \A i \in Slots : \A k \in DOMAIN messages(i) : messages(i)[k].store \in DOMAIN db.store
    BY <1>1, <1>2 DEF Pointed
<1>7. \A p \in DOMAIN db.subs : db.subs[p].retained \in DOMAIN db.store \cup {NoBody}
    BY <1>1 DEF Pointed
<1> QED BY <1>5, <1>6, <1>7 DEF RefCounts

\* Ids and subscriptions lead to contexts, contexts to entries of the access list.
LEMMA GoodHolds ==
    ASSUME NEW G, NEW n, NEW traffic, Good(db, odd, G, n, traffic)
    PROVE  PointersHold
<1>1. Typed(db) /\ AtTopics(db, odd) /\ Linked(db, {})
    BY DEF Good, Sound, SoundBut
<1>2. SubscriptionsAreLive
    <2> SUFFICES ASSUME NEW p \in DOMAIN db.subs, NEW k \in DOMAIN db.subs[p].subs
                 PROVE  LET i == db.subs[p].subs[k].context
                        IN /\ db.contexts[i] # NULL
                           /\ db.contexts[i].id \in DOMAIN db.cih /\ db.cih[db.contexts[i].id] = i
        BY DEF SubscriptionsAreLive
    <2> DEFINE i == db.subs[p].subs[k].context
    <2>1. i \in Slots
        <3>1. db.subs[p] \in Node(Chars, Slots)
            BY <1>1 DEF Typed, TreeOk
        <3>2. db.subs[p].subs \in Seq(Leaf(Slots))
            BY <3>1 DEF Node
        <3>3. db.subs[p].subs[k] \in Leaf(Slots)
            BY <3>2
        <3> QED BY <3>3 DEF Leaf
    <2>2. i \in Members(db.subs)
        BY <2>1 DEF Members
    <2> HIDE DEF i
    <2>3. db.contexts[i] # NULL
        BY <1>1, <2>2 DEF Typed
    <2>4. db.contexts[i].id # NULL
        BY <1>1, <2>2, <2>3 DEF Linked
    <2>5. db.contexts[i].id \in DOMAIN db.cih /\ db.cih[db.contexts[i].id] = i
        BY <1>1, <2>1, <2>3, <2>4 DEF Linked
    <2> QED BY <2>3, <2>5 DEF i
<1>3. ClientIdIndex
    BY <1>1 DEF ClientIdIndex, Linked
<1>4. AccessListsExist
    BY <1>1 DEF AccessListsExist, Linked
<1>5. RetainedAtItsTopic
    BY <1>1 DEF RetainedAtItsTopic, AtTopics
<1> QED BY <1>2, <1>3, <1>4, <1>5 DEF PointersHold

\* A set of places in a list that is not empty has a last one.
LEMMA LastPlace ==
    ASSUME NEW n \in Nat, NEW D, D \subseteq 1..n, D # {}
    PROVE  \E m \in D : \A k \in D : k <= m
<1> DEFINE T == {n - k : k \in D}
<1>1. T \subseteq Nat /\ T # {}
    <2>1. ASSUME NEW k \in D PROVE n - k \in Nat
        <3>1. k \in Int /\ k <= n
            OBVIOUS
        <3> QED BY <3>1
    <2>2. PICK k \in D : TRUE
        OBVIOUS
    <2>3. n - k \in T
        OBVIOUS
    <2> QED BY <2>1, <2>3
<1>2. PICK t \in T : \A u \in T : t <= u
    BY <1>1, LeastNat
<1>3. PICK m \in D : t = n - m
    OBVIOUS
<1>4. ASSUME NEW k \in D PROVE k <= m
    <2>1. n - k \in T
        OBVIOUS
    <2> HIDE DEF T
    <2>2. t <= n - k
        BY <1>2, <2>1
    <2>3. m \in Int /\ k \in Int
        OBVIOUS
    <2> QED BY ONLY <1>3, <2>2, <2>3, n \in Nat
<1> QED BY <1>4

\* The last message of a direction that is not queued is among the first max_inflight of
\* that direction, and so are all before it.
LEMMA OnTheWayLimit ==
    ASSUME NEW ms \in Messages, NEW w, OnTheWay(ms, {}, w), max_inflight > 0, "early" \notin w,
           NEW dir \in {"in", "out"}
    PROVE  Cardinality({k \in DOMAIN ms : /\ ms[k].qos > 0 /\ ms[k].state # "queued"
                                          /\ ms[k].direction = dir}) <= max_inflight
<1> DEFINE n == Len(ms)
           D == {k \in DOMAIN ms : ms[k].qos > 0 /\ ms[k].state # "queued" /\ ms[k].direction = dir}
<1>1. n \in Nat /\ DOMAIN ms = 1..n /\ D \subseteq 1..n
    BY MessagesType
<1>2. CASE D = {}
    <2>1. Cardinality(D) = 0
        BY <1>2, FS_EmptySet, Zenon
    <2> HIDE DEF D
    <2> QED BY <2>1, BrokerDbAssumption DEF D
<1>3. CASE D # {}
    <2> HIDE DEF n
    <2>1. PICK m \in D : \A k \in D : k <= m
        BY <1>1, <1>3, LastPlace
    <2>2. m \in DOMAIN ms \ {} /\ ms[m].qos > 0 /\ ms[m].state # "queued" /\ ms[m].direction = dir
        BY <2>1
    <2> DEFINE U == upto(ms, <<dir>>, m, {})
    <2>3. Cardinality(U) <= max_inflight
        BY <2>2 DEF OnTheWay
    <2>4. D \subseteq U
        <3> SUFFICES ASSUME NEW k \in D PROVE k \in U
            OBVIOUS
        <3>1. k \in 1..m
            BY <1>1, <2>1
        <3>2. Picks(ms[k], <<dir>>)
            BY DEF Picks
        <3> QED BY <3>1, <3>2 DEF upto
    <2>5. IsFiniteSet(U) /\ Cardinality(U) \in Nat
        <3>1. m \in Nat
            BY <1>1
        <3> QED BY <3>1, UptoFinite
    <2>6. Cardinality(D) \in Nat /\ Cardinality(D) <= Cardinality(U)
        <3> HIDE DEF D, U
        <3> QED BY <2>4, <2>5, FS_Subset, FS_CardinalityType
    <2> DEFINE x == Cardinality(D)
               y == Cardinality(U)
    <2>7. x <= y /\ y <= max_inflight /\ x \in Nat /\ y \in Nat
        BY <2>3, <2>5, <2>6
    <2> HIDE DEF x, y
    <2>8. x <= max_inflight
        BY <2>7, BrokerDbAssumption
    <2> QED BY <2>8 DEF x
<1> QED BY <1>2, <1>3

\* No client has more messages on their way than the limit allows.
LEMMA SoundLimit ==
    ASSUME Sound(db, odd)
    PROVE  InFlightLimit
<1>1. Typed(db) /\ Flights(db, odd, 0, {})
    BY DEF Sound, SoundBut
<1> SUFFICES ASSUME NEW i \in Slots
             PROVE  /\ db.contexts[i] # NULL /\ online(db.contexts[i]) =>
                         db.contexts[i].msg_count12 = Cardinality(numbered(i))
                    /\ max_inflight > 0 /\ "early" \notin odd =>
                         \A direction \in {"in", "out"} :
                            Cardinality({k \in numbered(i) :
                                           /\ messages(i)[k].state # "queued"
                                           /\ messages(i)[k].direction = direction}) <= max_inflight
    BY DEF InFlightLimit
<1> DEFINE ms == messages(i)
<1>2. ms \in Messages /\ ms = msgsOf(db.contexts, i)
    BY <1>1, MsgsOfType DEF messages, msgsOf
<1>3. db.contexts[i] # NULL => ms = db.contexts[i].msgs
    BY DEF messages
<1>4. numbered(i) = {k \in DOMAIN ms : ms[k].qos > 0}
    BY DEF numbered
<1>5. db.contexts[i] = NULL => ms = <<>>
    BY DEF messages
<1> HIDE DEF ms
<1>6. ASSUME db.contexts[i] # NULL
      PROVE  db.contexts[i].msg_count12 = Cardinality(numbered(i))
    <2>1. numbered(i) = sel(ms, <<"out">>)
        BY <1>4 DEF sel, Picks
    <2>2. Counted(db.contexts[i])
        BY <1>1, <1>6 DEF Flights
    <2> QED BY <1>3, <1>6, <2>1, <2>2 DEF Counted
<1>7. OnTheWay(ms, {}, odd)
    <2>1. CASE db.contexts[i] # NULL
        BY <1>1, <1>3, <2>1 DEF Flights
    <2>2. CASE db.contexts[i] = NULL
        BY <1>5, <2>2 DEF OnTheWay
    <2> QED BY <2>1, <2>2
<1>8. ASSUME max_inflight > 0, "early" \notin odd, NEW direction \in {"in", "out"}
      PROVE  Cardinality({k \in numbered(i) : /\ ms[k].state # "queued"
                                             /\ ms[k].direction = direction}) <= max_inflight
    <2> DEFINE A == {k \in numbered(i) : ms[k].state # "queued" /\ ms[k].direction = direction}
               B == {k \in DOMAIN ms : /\ ms[k].qos > 0 /\ ms[k].state # "queued"
                                       /\ ms[k].direction = direction}
    <2>1. A = B
        BY <1>4
    <2>2. Cardinality(B) <= max_inflight
        BY <1>2, <1>7, <1>8, OnTheWayLimit
    <2> HIDE DEF B
    <2> QED BY <2>1, <2>2
<1> QED BY <1>6, <1>8 DEF ms

\* No body has the payload of the will of a connection that said goodbye.
LEMMA GoodWills ==
    ASSUME NEW w, NEW n, NEW traffic, Good(db, w, goodbye, n, traffic)
    PROVE  WillMeansLost
<1>1. \A will \in goodbye \ {NULL} : \A s \in DOMAIN db.store : db.store[s].payload # will.payload
    BY DEF Good, Willed
<1> QED BY <1>1 DEF WillMeansLost

\* Until the broker is started again, whatever its peers send, its bodies count what
\* points to them, its pointers lead to what they name, and no client has more
\* messages on their way than the limit (database.c, context.c, subs.c).
THEOREM BrokerSound ==
    Spec => [](restarts = 0 => RefCounts /\ PointersHold /\ InFlightLimit)
<1>1. Init => BrokerInv
    BY BrokerInit
<1>2. BrokerInv /\ [Next]_vars => BrokerInv'
    BY BrokerNext
<1>3. BrokerInv => (restarts = 0 => RefCounts /\ PointersHold /\ InFlightLimit)
    <2> SUFFICES ASSUME BrokerInv, restarts = 0 PROVE RefCounts /\ PointersHold /\ InFlightLimit
        OBVIOUS
    <2>1. Good(db, odd, goodbye, accepted, scenario.packets) /\ Sound(db, odd)
        BY DEF BrokerInv, Good
    <2> QED BY <2>1, SoundCounts, GoodHolds, SoundLimit
<1> QED BY <1>1, <1>2, <1>3, PTL DEF Spec

\* Until then, no will of a connection that has sent a DISCONNECT is published, also
\* when its context was taken over, timed out or freed (context.c).
THEOREM GoodbyeMeansNoWill ==
    Spec => [](restarts = 0 => WillMeansLost)
<1>1. Init => BrokerInv
    BY BrokerInit
<1>2. BrokerInv /\ [Next]_vars => BrokerInv'
    BY BrokerNext
<1>3. BrokerInv => (restarts = 0 => WillMeansLost)
    BY GoodWills DEF BrokerInv
<1> QED BY <1>1, <1>2, <1>3, PTL DEF Spec
=============================================================================
