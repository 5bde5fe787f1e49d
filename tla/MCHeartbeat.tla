------------------------------ MODULE MCHeartbeat ------------------------------
(* TLC instances of Heartbeat. *)
EXTENDS Heartbeat

===============================================================================
