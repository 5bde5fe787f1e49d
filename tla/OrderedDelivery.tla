---------------------------- MODULE OrderedDelivery ----------------------------
(***************************************************************************)
(* What a channel promises the application, whichever way its messages     *)
(* travel: they arrive in the order sent, each at most once, and none that *)
(* was not sent.  A channel that closes may drop messages (MaySkip); frame *)
(* reassembly may only be late.                                            *)
(*                                                                         *)
(* StreamChannel and FecReassembly implement this specification.           *)
(***************************************************************************)
EXTENDS Naturals, Sequences

CONSTANT MaySkip   \* may a message be dropped and a later one arrive?

VARIABLES sent,      \* messages sent so far: they are numbered 1, 2, ...
          delivered  \* messages the application has, in arrival order

Last == IF delivered = <<>> THEN 0 ELSE delivered[Len(delivered)]

Init == sent = 0 /\ delivered = <<>>

Send == sent' = sent + 1 /\ UNCHANGED delivered

Deliver ==
  \E m \in Last + 1 .. sent :
    /\ m > Last + 1 => MaySkip
    /\ delivered' = Append(delivered, m)
    /\ UNCHANGED sent

Next == Send \/ Deliver

Spec == Init /\ [][Next]_<<sent, delivered>>

===============================================================================
