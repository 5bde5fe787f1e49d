------------------------------- MODULE MCServer -------------------------------
(* TLC instance of Server: the streams are interchangeable. *)
EXTENDS Server, TLC

StreamSymmetry == Permutations(Streams)

===============================================================================
