------------------------------ MODULE MCDaemon ------------------------------
(* TLC instances of the session daemon: one per question, each with the     *)
(* constants that make that question's cases happen.                        *)
EXTENDS DaemonProperties, TLC

(* Client programs are interchangeable: nothing orders or names them.       *)
ClientSymmetry == Permutations(Clients)
=============================================================================
