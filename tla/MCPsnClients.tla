---------------------------- MODULE MCPsnClients ----------------------------
(***************************************************************************)
(* Instances of PsnClients for TLC.                                        *)
(***************************************************************************)
EXTENDS PsnClients, TLC

CONSTANTS a, b

\* Whom the users name: nobody, each other, or only a names b.
Nobody == [u \in Users |-> {}]
Others == [u \in Users |-> Users \ {u}]
OneWay == [u \in Users |-> IF u = a THEN {b} ELSE {}]

\* The users are interchangeable; used for safety runs only.
Symmetry == Permutations(Users)
=============================================================================
