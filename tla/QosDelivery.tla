---------------------------- MODULE QosDelivery -----------------------------
(***************************************************************************)
(* What the broker and the client library promise together about messages  *)
(* of QoS 1 and 2: a message is reported as published only when the broker *)
(* has passed it on, a message of QoS 2 is passed on once, and every       *)
(* message reaches the subscriber.                                         *)
(***************************************************************************)
EXTENDS Integers

CONSTANTS Messages, Qos   \* Qos[m]: 1 or 2

VARIABLES
    asked,      \* the messages the application has published
    passed,     \* how often the broker has passed a message on
    reported,   \* the messages reported as published
    reached     \* the messages the subscriber has got

Init ==
    /\ asked = {} /\ reported = {} /\ reached = {}
    /\ passed = [m \in Messages |-> 0]

Ask(m) ==
    /\ m \notin asked
    /\ asked' = asked \cup {m}
    /\ UNCHANGED <<passed, reported, reached>>

Pass(m) ==
    /\ m \in asked
    /\ Qos[m] = 2 => passed[m] = 0
    /\ passed' = [passed EXCEPT ![m] = @ + 1]
    /\ UNCHANGED <<asked, reported, reached>>

Report(m) ==
    /\ passed[m] > 0 /\ m \notin reported
    /\ reported' = reported \cup {m}
    /\ UNCHANGED <<asked, passed, reached>>

Reach(m) ==
    /\ passed[m] > 0
    /\ reached' = reached \cup {m}
    /\ UNCHANGED <<asked, passed, reported>>

Next == \E m \in Messages : Ask(m) \/ Pass(m) \/ Report(m) \/ Reach(m)

vars == <<asked, passed, reported, reached>>

Safe == Init /\ [][Next]_vars
=============================================================================
