-------------------------------- MODULE Framing --------------------------------
(***************************************************************************)
(* framework/utils/stream.go and framework/network/stream.go: what is      *)
(* written to a quic stream and how it is taken apart again.               *)
(*                                                                         *)
(* A stream begins with its StreamInfo, behind its length as a signed      *)
(* varint; messages follow, each behind its length in two bytes.  A byte   *)
(* has Base values, 256 in the code, and a varint digit half as many.      *)
(***************************************************************************)
EXTENDS Integers, Sequences

CONSTANT Base

ASSUME BaseIsEven == Base \in Nat /\ Base > 2 /\ Base % 2 = 0

Bytes == 0 .. Base - 1
UShort == Base * Base  \* lengths that two bytes can tell apart

(* binary.BigEndian.PutUint16(uint16(n)): a longer length is cut. *)
PutUint16(n) == <<(n \div Base) % Base, n % Base>>

Uint16(w) == w[1] * Base + w[2]

(* Header and payload in one Write; an empty message is not written. *)
WriteStreamByHeader(data) == IF data = <<>> THEN <<>> ELSE PutUint16(Len(data)) \o data

(* io.ReadFull of the header and of the payload: they have arrived. *)
HasMessage(w) == Len(w) >= 2 /\ Len(w) >= 2 + Uint16(w)
MessageOf(w) == SubSeq(w, 3, 2 + Uint16(w))
AfterMessage(w) == SubSeq(w, 3 + Uint16(w), Len(w))

(* What a reader of whole messages makes of w. *)
Unframed[w \in Seq(Bytes)] ==
  IF HasMessage(w) THEN MessageOf(w) \o Unframed[AfterMessage(w)] ELSE <<>>

-------------------------------------------------------------------------------

Digits == Base \div 2

PutUvarint[n \in Nat] ==
  IF n < Digits THEN <<n>> ELSE <<Digits + (n % Digits)>> \o PutUvarint[n \div Digits]

(* binary.PutVarint of a length, which is not negative. *)
PutVarint(n) == PutUvarint[2 * n]

Uvarint[h \in Seq(Bytes)] ==
  IF h = <<>> THEN 0 ELSE (Head(h) % Digits) + Digits * Uvarint[Tail(h)]

Varint(h) == LET u == Uvarint[h] IN IF u % 2 = 0 THEN u \div 2 ELSE -((u + 1) \div 2)

(* ReadStreamLen reads bytes up to the first one that is not continued. *)
HasVarint(w) == \E i \in 1 .. Len(w) : w[i] < Digits
VarintOf(w) ==
  SubSeq(w, 1, CHOOSE i \in 1 .. Len(w) : w[i] < Digits /\ \A j \in 1 .. i - 1 : w[j] >= Digits)

InfoLen(w) == Varint(VarintOf(w))
HasInfo(w) == HasVarint(w) /\ Len(w) >= Len(VarintOf(w)) + InfoLen(w)
InfoOf(w) == SubSeq(w, Len(VarintOf(w)) + 1, Len(VarintOf(w)) + InfoLen(w))
AfterInfo(w) == SubSeq(w, Len(VarintOf(w)) + InfoLen(w) + 1, Len(w))

===============================================================================
