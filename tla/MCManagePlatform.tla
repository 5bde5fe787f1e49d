--------------------------- MODULE MCManagePlatform ----------------------------
(* TLC instance of ManagePlatform. *)
EXTENDS ManagePlatform

===============================================================================
