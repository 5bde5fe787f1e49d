--------------------------- MODULE MCServerReceive ----------------------------
(* TLC instance of ServerReceive: with bytes of base 4 a message of 15 bytes is
   the longest whose length fits its header. *)
EXTENDS ServerReceive

InfoBytes == <<3, 1>>
Longest == [i \in 1 .. 15 |-> i % 4]
Messages == {Longest}

===============================================================================
