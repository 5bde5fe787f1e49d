---------------------------- MODULE MCFecReassembly ----------------------------
(* TLC instances of FecReassembly. *)
EXTENDS FecReassembly

===============================================================================
