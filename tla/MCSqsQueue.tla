----------------------------- MODULE MCSqsQueue -----------------------------
(* Instances of SqsQueue for TLC. *)
EXTENDS SqsQueue

CONSTANTS w1, w2, w3

\* Every worker was started without --kind.
ServesAll == [w \in Workers |-> Jobs]

\* The last worker was started for another kind.
ServesMixed == [w \in Workers |-> IF w = w3 THEN {} ELSE Jobs]

=============================================================================
