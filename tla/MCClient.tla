------------------------------- MODULE MCClient -------------------------------
(* TLC instance of Client. *)
EXTENDS Client

===============================================================================
