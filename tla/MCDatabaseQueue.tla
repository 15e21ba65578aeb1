-------------------------- MODULE MCDatabaseQueue ---------------------------
(* Instances of DatabaseQueue for TLC. *)
EXTENDS DatabaseQueue

\* Every worker was started without --kind.
ServesAll == [w \in Workers |-> Jobs]

=============================================================================
