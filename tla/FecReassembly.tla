----------------------------- MODULE FecReassembly -----------------------------
(***************************************************************************)
(* Frames over datagrams: SendFecDatagram of socket.go splits a frame into *)
(* DataShards + ParityShards datagrams; at the other end one goroutine of  *)
(* the socket, HandleChannelStreamDatagram, gathers shards by group and    *)
(* StreamChannel.FecDecode releases the frames in group order, each as soon*)
(* as DataShards of its shards are there.                                  *)
(*                                                                         *)
(* The Reed-Solomon code itself (github.com/klauspost/reedsolomon) is taken*)
(* at its word: any DataShards shards of a group give back its frame.  The *)
(* released frame goes to the unbuffered Channel of the StreamChannel,     *)
(* which the reader of the stream closes when the stream ends.             *)
(***************************************************************************)
EXTENDS Naturals, Sequences, FiniteSets

CONSTANTS DataShards, ParityShards,
          Frames,   \* bound: frames the sender sends
          MaxLost   \* bound: shards of one group that the network loses

ASSUME ShardsAreCounts == DataShards \in Nat \ {0} /\ ParityShards \in Nat \ {0}
ASSUME BoundsAreNat == Frames \in Nat /\ MaxLost \in Nat

VARIABLES
  sent,      \* frames sent: group g = 0, 1, ... carries frame g + 1
  net,       \* datagrams in flight: pairs <<group, shard index>>
  lost,      \* shards of each group that were lost
  encoder,   \* Encoder # nil at the receiver
  groups,    \* FecGroups: the shard indexes received of each known group
  next,      \* NextGroupId
  dpc,       \* where the datagram goroutine is
  frame,     \* the frame it holds, 0 if none
  chanOpen,  \* Channel is open; closed and nil once the stream has ended
  delivered, \* frames the application received (history)
  arrived,   \* shards that ever arrived, by group (history)
  panic      \* "none", or why the process died

vars == <<sent, net, lost, encoder, groups, next, dpc, frame, chanOpen, delivered, arrived, panic>>

GroupIds == 0 .. Frames - 1
Shards   == 0 .. DataShards + ParityShards - 1

Init ==
  /\ sent = 0
  /\ net = {}
  /\ lost = [g \in GroupIds |-> 0]
  /\ encoder \in BOOLEAN
  /\ groups = [g \in {} |-> {}]
  /\ next = 0
  /\ dpc = "recv"
  /\ frame = 0
  /\ chanOpen = TRUE
  /\ delivered = <<>>
  /\ arrived = [g \in GroupIds |-> {}]
  /\ panic = "none"

-------------------------------------------------------------------------------
(* The sender and the network.                                             *)

(* One datagram per shard; the caller numbers its frames from 0. *)
SendFecDatagram ==
  /\ sent < Frames
  /\ sent' = sent + 1
  /\ net' = net \cup ({sent} \X Shards)
  /\ UNCHANGED <<lost, encoder, groups, next, dpc, frame, chanOpen, delivered, arrived, panic>>

Lose(p) ==
  /\ lost[p[1]] < MaxLost
  /\ lost' = [lost EXCEPT ![p[1]] = @ + 1]
  /\ net' = net \ {p}
  /\ UNCHANGED <<sent, encoder, groups, next, dpc, frame, chanOpen, delivered, arrived, panic>>

-------------------------------------------------------------------------------
(* The receiver.                                                           *)

(* The server sets the encoder of a channel when that channel's stream is
   accepted; its datagrams may come first. *)
SetFecParam ==
  /\ ~encoder
  /\ encoder' = TRUE
  /\ UNCHANGED <<sent, net, lost, groups, next, dpc, frame, chanOpen, delivered, arrived, panic>>

ShardsOf(g) == IF g \in DOMAIN groups THEN groups[g] ELSE {}

(* Mutant: shard indexes are counted from 1. *)
FileShardOffByOne(p) ==
  /\ dpc = "recv" /\ chanOpen
  /\ net' = net \ {p}
  /\ groups' = [g \in DOMAIN groups \cup {p[1]} |->
                  ShardsOf(g) \cup (IF g = p[1] THEN {p[2] + 1} ELSE {})]
  /\ arrived' = [arrived EXCEPT ![p[1]] = @ \cup {p[2]}]
  /\ dpc' = "drain"
  /\ UNCHANGED <<sent, lost, encoder, next, frame, chanOpen, delivered, panic>>

(* A datagram is taken and its shard filed; a slot already filled stays. *)
FileShard(p) ==
  /\ dpc = "recv" /\ chanOpen
  /\ net' = net \ {p}
  /\ groups' = [g \in DOMAIN groups \cup {p[1]} |->
                  ShardsOf(g) \cup (IF g = p[1] THEN {p[2]} ELSE {})]
  /\ arrived' = [arrived EXCEPT ![p[1]] = @ \cup {p[2]}]
  /\ dpc' = "drain"
  /\ UNCHANGED <<sent, lost, encoder, next, frame, chanOpen, delivered, panic>>

(* A datagram for a channel whose Channel is nil ends the goroutine. *)
ChannelGone(p) ==
  /\ dpc = "recv" /\ ~chanOpen
  /\ net' = net \ {p}
  /\ dpc' = "gone"
  /\ UNCHANGED <<sent, lost, encoder, groups, next, frame, chanOpen, delivered, arrived, panic>>

(* The connection is closed: ReceiveDatagram fails. *)
ReceiveFails ==
  /\ dpc = "recv"
  /\ dpc' = "gone"
  /\ UNCHANGED <<sent, net, lost, encoder, groups, next, frame, chanOpen, delivered, arrived, panic>>

(* Mutants: one shard too few, and all of them. *)
CompleteTooSoon == Cardinality(ShardsOf(next)) >= DataShards - 1
CompleteOnlyWhole == Cardinality(ShardsOf(next)) >= DataShards + ParityShards

Complete == Cardinality(ShardsOf(next)) >= DataShards

(* Mutant: NextGroupId is not advanced. *)
ReleaseSameAgain ==
  /\ dpc = "drain" /\ Complete /\ encoder /\ chanOpen
  /\ frame' = next + 1
  /\ dpc' = "send"
  /\ UNCHANGED <<sent, net, lost, encoder, groups, next, chanOpen, delivered, arrived, panic>>

(* Mutant: the whole of FecGroups is dropped with the group. *)
ReleaseDropsAll ==
  /\ dpc = "drain" /\ Complete /\ encoder /\ chanOpen
  /\ groups' = [g \in {} |-> {}]
  /\ next' = next + 1
  /\ frame' = next + 1
  /\ dpc' = "send"
  /\ UNCHANGED <<sent, net, lost, encoder, chanOpen, delivered, arrived, panic>>

(* One round of FecDecode's loop.  With Channel nil a complete group is
   neither removed nor passed on and the loop goes round again: a step that
   changes nothing. *)
Release ==
  /\ dpc = "drain" /\ Complete /\ encoder /\ chanOpen
  /\ groups' = [g \in DOMAIN groups \ {next} |-> groups[g]]
  /\ next' = next + 1
  /\ frame' = next + 1
  /\ dpc' = "send"
  /\ UNCHANGED <<sent, net, lost, encoder, chanOpen, delivered, arrived, panic>>

DrainDone ==
  /\ dpc = "drain" /\ ~Complete
  /\ dpc' = "recv"
  /\ UNCHANGED <<sent, net, lost, encoder, groups, next, frame, chanOpen, delivered, arrived, panic>>

NilEncoder ==
  /\ dpc = "drain" /\ Complete /\ ~encoder
  /\ panic' = "encoder"
  /\ UNCHANGED <<sent, net, lost, encoder, groups, next, dpc, frame, chanOpen, delivered, arrived>>

(* Channel is loaded again for the send; a send to nil never returns. *)
LoadChannel ==
  /\ dpc = "send"
  /\ dpc' = IF chanOpen THEN "offer" ELSE "stuck"
  /\ UNCHANGED <<sent, net, lost, encoder, groups, next, frame, chanOpen, delivered, arrived, panic>>

Consume ==
  /\ dpc = "offer"
  /\ delivered' = Append(delivered, frame)
  /\ frame' = 0
  /\ dpc' = "drain"
  /\ UNCHANGED <<sent, net, lost, encoder, groups, next, chanOpen, arrived, panic>>

(* The reader of the stream closes Channel: a sender blocked in it panics. *)
StreamEnds ==
  /\ chanOpen
  /\ chanOpen' = FALSE
  /\ panic' = IF dpc = "offer" THEN "send on closed channel" ELSE panic
  /\ UNCHANGED <<sent, net, lost, encoder, groups, next, dpc, frame, delivered, arrived>>

Decode == Release \/ DrainDone \/ NilEncoder \/ LoadChannel

Next ==
  /\ panic = "none"
  /\ \/ SendFecDatagram \/ SetFecParam \/ Decode \/ Consume \/ ReceiveFails \/ StreamEnds
     \/ \E p \in net : Lose(p) \/ FileShard(p) \/ ChannelGone(p)

Spec == Init /\ [][Next]_vars

(* The goroutine runs, what the network does not lose arrives, the stream is
   accepted at last, and the application keeps receiving. *)
Fairness ==
  /\ WF_vars(panic = "none" /\ Decode)
  /\ \A g \in GroupIds, i \in Shards :
       WF_vars(panic = "none" /\ <<g, i>> \in net /\ FileShard(<<g, i>>))
  /\ WF_vars(panic = "none" /\ SetFecParam)
  /\ WF_vars(panic = "none" /\ Consume)

FairSpec == Spec /\ Fairness

-------------------------------------------------------------------------------

TypeOK ==
  /\ sent \in 0 .. Frames
  /\ net \subseteq GroupIds \X Shards
  /\ lost \in [GroupIds -> Nat]
  /\ encoder \in BOOLEAN
  /\ DOMAIN groups \subseteq GroupIds
  /\ \A g \in DOMAIN groups : groups[g] \subseteq Shards
  /\ next \in 0 .. Frames
  /\ dpc \in {"recv", "drain", "send", "offer", "stuck", "gone"}
  /\ frame \in 0 .. Frames
  /\ chanOpen \in BOOLEAN
  /\ delivered \in Seq(1 .. Frames)
  /\ arrived \in [GroupIds -> SUBSET Shards]
  /\ panic \in {"none", "encoder", "send on closed channel"}

(* channel.go:216-243, changelog.md:18 "reassembly in order": what the
   application has, with the frame on its way to it, is every frame released
   so far, once each and in the order sent, whatever order the shards of all
   frames arrive in and whichever are lost. *)
InOrder ==
  delivered \o (IF frame = 0 THEN <<>> ELSE <<frame>>) = [i \in 1 .. next |-> i]

(* A frame is released only when DataShards different shards of its group
   have arrived; what is left of groups released earlier is never counted
   for it. *)
ReleasedIsDecodable ==
  \A g \in GroupIds : g < next => Cardinality(arrived[g]) >= DataShards

(* No shard of a frame still to come is forgotten when other frames are
   released, and a group is never started afresh while its frame is due. *)
ShardsKept ==
  \A g \in GroupIds : g >= next => ShardsOf(g) = arrived[g]

(* While the stream is up and the receiver runs, losing no more than
   ParityShards shards of any group delays frames but blocks none; a group
   that lost more holds up every later one for good. *)
AllDelivered ==
  \A g \in GroupIds :
    sent > g ~> \/ \E i \in DOMAIN delivered : delivered[i] = g + 1
                \/ \E h \in 0 .. g : lost[h] > ParityShards
                \/ ~chanOpen \/ dpc = "gone" \/ panic # "none"

(* socket.go:279, "leave the loop gracefully, so that the CPU does not go to
   100%": a round of FecDecode that started comes to an end. *)
DrainEnds == dpc = "drain" ~> dpc # "drain" \/ panic # "none"

Promise == INSTANCE OrderedDelivery WITH MaySkip <- FALSE

ImplementsOrderedDelivery == Promise!Spec

===============================================================================
