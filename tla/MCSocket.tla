------------------------------- MODULE MCSocket -------------------------------
(* TLC instances of Socket. *)
EXTENDS Socket

===============================================================================
