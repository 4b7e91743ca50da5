---------------------------- MODULE MCPsnPersist ----------------------------
(***************************************************************************)
(* What psn keeps and what it opens, for TLC: the lists and the file of    *)
(* PsnPersist, where a asks b and one of them saves, and the sessions of   *)
(* PsnSession.  A behaviour is one of one of the two: the other stays as   *)
(* it is in the beginning.                                                 *)
(***************************************************************************)
EXTENDS PsnPersist, PsnSession

CONSTANTS a, b

Nobody == [u \in Users |-> {}]
OneWay == [u \in Users |-> IF u = a THEN {b} ELSE {}]

VARIABLE part   \* what this behaviour is about

InitParts ==
    /\ part \in {"file", "session"}
    /\ PersistInit
    /\ SessionInit /\ (part = "file" => mosq = NULL)

\* The threads of a session may have nothing left to do, or hang.
Rest == part = "session" /\ UNCHANGED <<persistVars, sessionVars>>

NextParts ==
    /\ UNCHANGED part
    /\ \/ Rest
       \/ part = "file" /\ PersistNext /\ UNCHANGED sessionVars
       \/ part = "session" /\ SessionNext /\ UNCHANGED persistVars

SpecParts ==
    /\ InitParts /\ [][NextParts]_<<part, persistVars, sessionVars>>
    /\ SessionFairness
=============================================================================
