------------------------------- MODULE FecProofs -------------------------------
(***************************************************************************)
(* Proofs about frame reassembly, for any number of data and parity shards,*)
(* frames and losses.                                                      *)
(***************************************************************************)
EXTENDS FecReassembly, FiniteSetTheorems, TLAPS

(* The first n frames. *)
FirstFrames(n) == [i \in 1 .. n |-> i]

(* Only frames already sent are in flight or known to the receiver. *)
OnlySent ==
  /\ \A p \in net : p[1] < sent
  /\ \A g \in DOMAIN groups : g < sent
  /\ next <= sent

(* The goroutine holds the frame it released last, from the release to the
   end of the handoff. *)
HoldsLast ==
  IF dpc \in {"send", "offer", "stuck"}
  THEN next > 0 /\ frame = next /\ delivered = FirstFrames(next - 1)
  ELSE frame = 0 /\ delivered = FirstFrames(next)

FecInv == TypeOK /\ OnlySent /\ HoldsLast /\ ShardsKept /\ ReleasedIsDecodable

(* The numbers of TypeOK, apart from the rest of it. *)
LEMMA Counts ==
  TypeOK => /\ sent \in Nat /\ next \in Nat /\ frame \in Nat
            /\ sent <= Frames /\ next <= Frames /\ frame <= Frames
<1>1. TypeOK => sent \in 0 .. Frames /\ next \in 0 .. Frames /\ frame \in 0 .. Frames
  BY DEF TypeOK
<1>2. QED
  BY <1>1, BoundsAreNat

LEMMA GroupIdsAreBelow ==
  \A g : g \in GroupIds <=> g \in Nat /\ g < Frames
  BY BoundsAreNat DEF GroupIds

LEMMA FirstFramesGrow ==
  ASSUME NEW n \in Nat
  PROVE  /\ FirstFrames(n) \in Seq(Nat) /\ Len(FirstFrames(n)) = n
         /\ Append(FirstFrames(n), n + 1) = FirstFrames(n + 1)
         /\ FirstFrames(n) \o <<n + 1>> = FirstFrames(n + 1)
  BY DEF FirstFrames

LEMMA ShardsFinite ==
  /\ IsFiniteSet(Shards)
  /\ \A S \in SUBSET Shards : IsFiniteSet(S) /\ Cardinality(S) \in Nat
<1>1. 0 \in Int /\ DataShards + ParityShards - 1 \in Int
  BY ShardsAreCounts
<1>2. IsFiniteSet(Shards)
  BY <1>1, FS_Interval DEF Shards
<1>3. QED
  BY <1>2, FS_Subset, FS_CardinalityType

(* A complete group is a group that is there, of a frame that was sent. *)
LEMMA CompleteIsKnown == TypeOK /\ Complete => next \in DOMAIN groups /\ next \in GroupIds
<1> SUFFICES ASSUME TypeOK, Complete PROVE next \in DOMAIN groups
  BY DEF TypeOK
<1>1. ASSUME ShardsOf(next) = {} PROVE FALSE
  BY <1>1, ShardsAreCounts, FS_EmptySet DEF Complete
<1>2. QED
  BY <1>1 DEF ShardsOf

LEMMA InitFec == Init => FecInv
<1> SUFFICES ASSUME Init PROVE FecInv
  OBVIOUS
<1>1. TypeOK
  BY BoundsAreNat DEF Init, TypeOK
<1>2. OnlySent /\ HoldsLast
  BY DEF Init, OnlySent, HoldsLast, FirstFrames
<1>3. ShardsKept /\ ReleasedIsDecodable
  BY DEF Init, ShardsKept, ShardsOf, ReleasedIsDecodable, GroupIds
<1>4. QED
  BY <1>1, <1>2, <1>3 DEF FecInv

LEMMA FileShardKeeps ==
  ASSUME FecInv, NEW p \in net, FileShard(p)
  PROVE  FecInv'
<1> USE DEF FecInv, FileShard
<1>1. p[1] \in GroupIds /\ p[2] \in Shards /\ p[1] < sent
  <2>1. p \in GroupIds \X Shards
    BY DEF TypeOK
  <2>2. QED
    BY <2>1 DEF OnlySent
<1>2. DOMAIN groups' = DOMAIN groups \cup {p[1]}
  OBVIOUS
<1>3. \A g \in GroupIds : ShardsOf(g)' = ShardsOf(g) \cup (IF g = p[1] THEN {p[2]} ELSE {})
  BY <1>2 DEF ShardsOf
<1>4. \A g \in GroupIds : arrived'[g] = arrived[g] \cup (IF g = p[1] THEN {p[2]} ELSE {})
  BY <1>1 DEF TypeOK
<1>5. TypeOK'
  <2>1. \A g \in DOMAIN groups' : groups'[g] \subseteq Shards
    BY <1>1, <1>2 DEF TypeOK, ShardsOf
  <2>2. DOMAIN groups' \subseteq GroupIds
    BY <1>1, <1>2 DEF TypeOK
  <2>3. QED
    BY <1>1, <2>1, <2>2 DEF TypeOK
<1>6. OnlySent'
  BY <1>1, <1>2 DEF OnlySent
<1>7. HoldsLast'
  BY DEF HoldsLast
<1>8. ShardsKept'
  <2>1. ASSUME NEW g \in GroupIds, g >= next PROVE ShardsOf(g)' = arrived'[g]
    <3>1. ShardsOf(g) = arrived[g]
      BY <2>1 DEF ShardsKept
    <3>2. QED
      BY <1>3, <1>4, <3>1 DEF ShardsOf
  <2>2. next' = next
    OBVIOUS
  <2>3. QED
    BY <2>1, <2>2 DEF ShardsKept
<1>9. ReleasedIsDecodable'
  <2>1. ASSUME NEW g \in GroupIds, g < next PROVE Cardinality(arrived'[g]) >= DataShards
    <3>1. arrived[g] \subseteq arrived'[g] /\ arrived'[g] \in SUBSET Shards /\ arrived[g] \in SUBSET Shards
      BY <1>1, <1>4 DEF TypeOK
    <3>2. Cardinality(arrived[g]) <= Cardinality(arrived'[g])
      BY <3>1, ShardsFinite, FS_Subset
    <3>3. QED
      BY <2>1, <3>1, <3>2, ShardsFinite, ShardsAreCounts DEF ReleasedIsDecodable
  <2>2. QED
    BY <2>1 DEF ReleasedIsDecodable
<1>10. QED
  BY <1>5, <1>6, <1>7, <1>8, <1>9

LEMMA ReleaseKeeps ==
  ASSUME FecInv, Release
  PROVE  FecInv'
<1> USE DEF FecInv, Release
<1>1. next \in DOMAIN groups /\ next \in GroupIds /\ next < sent
  BY CompleteIsKnown DEF OnlySent
<1>2. next \in Nat /\ next + 1 <= Frames
  BY <1>1, Counts, GroupIdsAreBelow, BoundsAreNat
<1>3. TypeOK'
  <2>1. next' \in 0 .. Frames /\ frame' \in 0 .. Frames
    BY <1>2
  <2>2. QED
    BY <2>1 DEF TypeOK
<1>4. OnlySent'
  BY <1>1, <1>2, Counts DEF OnlySent
<1>5. HoldsLast'
  BY <1>2 DEF HoldsLast
<1>6. ShardsKept'
  BY <1>2 DEF ShardsKept, ShardsOf, GroupIds
<1>7. Cardinality(arrived[next]) >= DataShards
  BY <1>1, <1>2 DEF Complete, ShardsKept
<1>8. ReleasedIsDecodable'
  BY <1>2, <1>7 DEF ReleasedIsDecodable, GroupIds
<1>9. QED
  BY <1>3, <1>4, <1>5, <1>6, <1>8

LEMMA ConsumeKeeps ==
  ASSUME FecInv, Consume
  PROVE  FecInv'
<1> USE DEF FecInv, Consume
<1>1. next \in Nat /\ next > 0 /\ frame = next /\ delivered = FirstFrames(next - 1)
  BY Counts DEF HoldsLast
<1>2. delivered' = FirstFrames(next)
  <2>1. next - 1 \in Nat /\ (next - 1) + 1 = next
    BY <1>1
  <2>2. QED
    BY <1>1, <2>1, FirstFramesGrow
<1>3. HoldsLast'
  BY <1>2 DEF HoldsLast
<1>4. TypeOK'
  <2>1. next \in Nat /\ next <= Frames
    BY Counts
  <2>2. FirstFrames(next) \in Seq(1 .. Frames)
    BY <2>1, BoundsAreNat DEF FirstFrames
  <2>3. 0 \in 0 .. Frames
    BY BoundsAreNat
  <2>4. QED
    BY <1>2, <2>2, <2>3 DEF TypeOK
<1>5. OnlySent' /\ ShardsKept' /\ ReleasedIsDecodable'
  BY DEF OnlySent, ShardsKept, ShardsOf, ReleasedIsDecodable
<1>6. QED
  BY <1>3, <1>4, <1>5

LEMMA NextFec == FecInv /\ [Next]_vars => FecInv'
<1> SUFFICES ASSUME FecInv, [Next]_vars PROVE FecInv'
  OBVIOUS
<1> USE DEF FecInv, OnlySent, HoldsLast, ShardsKept, ShardsOf, ReleasedIsDecodable
<1>1. CASE SendFecDatagram
  <2>1. sent \in GroupIds /\ sent \in Nat /\ next \in Nat
    BY <1>1, Counts, GroupIdsAreBelow DEF SendFecDatagram
  <2>2. TypeOK'
    <3>1. sent' \in 0 .. Frames
      BY <1>1, <2>1, GroupIdsAreBelow, BoundsAreNat DEF SendFecDatagram
    <3>2. net' \subseteq GroupIds \X Shards
      BY <1>1, <2>1 DEF SendFecDatagram, TypeOK
    <3>3. QED
      BY <1>1, <3>1, <3>2 DEF SendFecDatagram, TypeOK
  <2>3. OnlySent'
    <3>1. \A p \in net' : p[1] < sent'
      <4> SUFFICES ASSUME NEW p \in net' PROVE p[1] < sent + 1
        BY <1>1 DEF SendFecDatagram
      <4>1. CASE p \in net
        <5>1. p[1] \in GroupIds /\ p[1] < sent
          BY <4>1 DEF TypeOK
        <5>2. QED
          BY <2>1, <5>1, GroupIdsAreBelow
      <4>2. CASE p \in {sent} \X Shards
        BY <2>1, <4>2
      <4>3. QED
        BY <1>1, <4>1, <4>2 DEF SendFecDatagram
    <3>2. \A g \in DOMAIN groups : g < sent + 1
      <4>1. ASSUME NEW g \in DOMAIN groups PROVE g \in GroupIds /\ g < sent
        BY DEF TypeOK
      <4>2. QED
        BY <2>1, <4>1, GroupIdsAreBelow
    <3>3. QED
      BY <1>1, <2>1, <3>1, <3>2 DEF SendFecDatagram
  <2>4. HoldsLast' /\ ShardsKept' /\ ReleasedIsDecodable'
    BY <1>1 DEF SendFecDatagram
  <2>5. QED
    BY <2>2, <2>3, <2>4
<1>2. CASE SetFecParam \/ ReceiveFails \/ StreamEnds
  BY <1>2 DEF SetFecParam, ReceiveFails, StreamEnds, TypeOK
<1>3. CASE DrainDone \/ NilEncoder \/ LoadChannel
  BY <1>3 DEF DrainDone, NilEncoder, LoadChannel, TypeOK
<1>4. CASE Release
  BY <1>4, ReleaseKeeps
<1>5. CASE Consume
  BY <1>5, ConsumeKeeps
<1>6. ASSUME NEW p \in net, Lose(p) \/ ChannelGone(p) PROVE FecInv'
  <2>1. p[1] \in GroupIds
    BY DEF TypeOK
  <2>2. TypeOK'
    <3>1. CASE Lose(p)
      <4>1. lost' \in [GroupIds -> Nat]
        <5>1. lost \in [GroupIds -> Nat]
          BY DEF TypeOK
        <5>2. QED
          BY <2>1, <3>1, <5>1 DEF Lose
      <4>2. QED
        BY <3>1, <4>1 DEF Lose, TypeOK
    <3>2. CASE ChannelGone(p)
      BY <3>2 DEF ChannelGone, TypeOK
    <3>3. QED
      BY <1>6, <3>1, <3>2
  <2>3. OnlySent' /\ HoldsLast' /\ ShardsKept' /\ ReleasedIsDecodable'
    BY <1>6 DEF Lose, ChannelGone
  <2>4. QED
    BY <2>2, <2>3
<1>7. ASSUME NEW p \in net, FileShard(p) PROVE FecInv'
  BY <1>7, FileShardKeeps
<1>8. CASE UNCHANGED vars
  BY <1>8 DEF vars, TypeOK
<1>9. QED
  BY <1>1, <1>2, <1>3, <1>4, <1>5, <1>6, <1>7, <1>8 DEF Next, Decode

THEOREM FecInvariance == Spec => []FecInv
  BY InitFec, NextFec, PTL DEF Spec

(* Type correctness. *)
THEOREM FecTypeCorrect == Spec => []TypeOK
  BY FecInvariance, PTL DEF FecInv

(* Frames come out in the order sent, each once, none missing in between. *)
THEOREM FramesInOrder == Spec => []InOrder
<1>1. FecInv => InOrder
  <2> SUFFICES ASSUME FecInv PROVE InOrder
    OBVIOUS
  <2>1. next \in Nat
    BY Counts DEF FecInv
  <2>2. CASE dpc \in {"send", "offer", "stuck"}
    BY <2>1, <2>2, FirstFramesGrow DEF FecInv, HoldsLast, InOrder, FirstFrames
  <2>3. CASE dpc \notin {"send", "offer", "stuck"}
    BY <2>1, <2>3, FirstFramesGrow DEF FecInv, HoldsLast, InOrder, FirstFrames
  <2>4. QED
    BY <2>2, <2>3
<1>2. QED
  BY <1>1, FecInvariance, PTL

(* No frame is released before enough of its own shards have arrived. *)
THEOREM ReleasesAreDecodable == Spec => []ReleasedIsDecodable
  BY FecInvariance, PTL DEF FecInv

(* The shards of a frame still due are all kept. *)
THEOREM ShardsAreKept == Spec => []ShardsKept
  BY FecInvariance, PTL DEF FecInv

LEMMA FecInitRefines == Init => Promise!Init
  BY DEF Init, Promise!Init

LEMMA FecNextRefines == FecInv /\ [Next]_vars => [Promise!Next]_<<sent, delivered>>
<1> SUFFICES ASSUME FecInv, [Next]_vars PROVE Promise!Next \/ UNCHANGED <<sent, delivered>>
  OBVIOUS
<1>1. CASE SendFecDatagram
  BY <1>1 DEF SendFecDatagram, Promise!Next, Promise!Send
<1>2. CASE Consume
  <2>1. next \in Nat /\ next > 0 /\ frame = next /\ delivered = FirstFrames(next - 1) /\ next <= sent
    BY <1>2, Counts DEF Consume, FecInv, HoldsLast, OnlySent
  <2>2. Promise!Last = next - 1
    BY <2>1 DEF Promise!Last, FirstFrames
  <2>3. frame \in Promise!Last + 1 .. sent
    BY <2>1, <2>2, Counts DEF FecInv
  <2>4. Promise!Deliver
    BY <1>2, <2>1, <2>2, <2>3 DEF Consume, Promise!Deliver
  <2>5. QED
    BY <2>4 DEF Promise!Next
<1>3. CASE SetFecParam \/ ReceiveFails \/ StreamEnds \/ Decode
  BY <1>3 DEF SetFecParam, ReceiveFails, StreamEnds, Decode, Release, DrainDone, NilEncoder, LoadChannel
<1>4. ASSUME NEW p \in net, Lose(p) \/ FileShard(p) \/ ChannelGone(p)
      PROVE UNCHANGED <<sent, delivered>>
  BY <1>4 DEF Lose, FileShard, ChannelGone
<1>5. CASE UNCHANGED vars
  BY <1>5 DEF vars
<1>6. QED
  BY <1>1, <1>2, <1>3, <1>4, <1>5 DEF Next

(* Reassembly implements in-order delivery without gaps. *)
THEOREM FecImplementsOrderedDelivery == Spec => ImplementsOrderedDelivery
  BY FecInitRefines, FecNextRefines, FecInvariance, PTL
  DEF Spec, ImplementsOrderedDelivery, Promise!Spec

===============================================================================
