----------------------------- MODULE StreamChannel -----------------------------
(***************************************************************************)
(* framework/network/channel.go: one StreamChannel per quic stream.        *)
(*                                                                         *)
(* A reader goroutine moves messages from the quic stream to an unbuffered *)
(* Go channel, a consumer takes them from there through ReceiveDataToBuffer*)
(* and the one-message Buffer, a sender writes to the stream, and Close    *)
(* cancels the stream and waits up to 100ms for the reader.  No lock       *)
(* protects the fields, so a step reads or writes one shared field, or     *)
(* several that nobody else changes in between.                            *)
(*                                                                         *)
(* A nil dereference ends the process: panic names it, and no step follows.*)
(***************************************************************************)
EXTENDS Naturals, Sequences

CONSTANTS Channels,    \* indexes of the channels of one socket
          Consumers,   \* channels the application receives from
          Senders,     \* channels the application sends on
          MaxMessages, \* bound: messages the peer sends on one stream
          MaxParts     \* bound: calls the application needs to take one message

ASSUME ChannelsAreIndexes == Channels \subseteq Nat
ASSUME UsersAreOfChannels == Consumers \subseteq Channels /\ Senders \subseteq Channels
ASSUME BoundsAreNat == MaxMessages \in Nat /\ MaxParts \in Nat \ {0}

VARIABLES
  wire,      \* messages the peer sent and the reader has not read
  sent,      \* how many messages the peer sent: they are numbered 1, 2, ...
  quic,      \* "open"; "fin" after the peer's last byte; "dead" once cancelled
  rpc,       \* where the reader is in HandleChannelStreamData
  inHand,    \* buf, the message the reader holds
  streamSet, \* Stream # nil
  done,      \* Done, set together with close(Channel) and Channel = nil
  closing,   \* closeLock is held: OnClosing is running
  isClosed,  \* IsClosed
  buffer,    \* Buffer
  offset,    \* Buffer.Offset, in parts
  cpc,       \* where the consumer is in ReceiveDataToBuffer and its caller
  got,       \* the value received and not yet stored in Buffer
  wpc,       \* where the sender is in Send
  delivered, \* messages the application has taken (history)
  panic      \* which nil pointer was dereferenced, or "none"

peerVars     == <<wire, sent, quic>>
readerVars   == <<rpc, inHand, done>>
closeVars    == <<closing, isClosed>>
bufferVars   == <<buffer, offset>>
consumerVars == <<cpc, got, delivered>>
channelVars  == <<peerVars, readerVars, streamSet, closeVars, bufferVars,
                  consumerVars, wpc, panic>>

Nothing == 0   \* no message; also Buffer = nil

ReaderPlaces   == {"off", "attach", "context", "check", "load", "read", "got",
                   "offer", "exit", "callback", "gone"}
ConsumerPlaces == {"idle", "slot", "call", "recv", "stuck", "store", "have", "index",
                   "take", "use"}
SenderPlaces   == {"idle", "slot", "call", "write"}

ChannelInit ==
  /\ wire = [c \in Channels |-> <<>>]
  /\ sent = [c \in Channels |-> 0]
  /\ quic = [c \in Channels |-> "open"]
  /\ rpc = [c \in Channels |-> "off"]
  /\ inHand = [c \in Channels |-> Nothing]
  /\ streamSet = [c \in Channels |-> FALSE]
  /\ done = [c \in Channels |-> FALSE]
  /\ closing = [c \in Channels |-> FALSE]
  /\ isClosed = [c \in Channels |-> FALSE]
  /\ buffer = [c \in Channels |-> Nothing] /\ offset = [c \in Channels |-> 0]
  /\ cpc = [c \in Channels |-> "idle"]
  /\ got = [c \in Channels |-> Nothing]
  /\ wpc = [c \in Channels |-> "idle"]
  /\ delivered = [c \in Channels |-> <<>>]
  /\ panic = "none"

(* Program counters of the three goroutines. *)
ReaderGoes(c, from, to)   == rpc[c] = from /\ rpc' = [rpc EXCEPT ![c] = to]
ConsumerGoes(c, from, to) == cpc[c] = from /\ cpc' = [cpc EXCEPT ![c] = to]
SenderGoes(c, from, to)   == wpc[c] = from /\ wpc' = [wpc EXCEPT ![c] = to]

-------------------------------------------------------------------------------
(* The quic stream, as the code of the repository uses it.                 *)

PeerSend(c) ==
  /\ quic[c] = "open" /\ sent[c] < MaxMessages
  /\ sent' = [sent EXCEPT ![c] = @ + 1]
  /\ wire' = [wire EXCEPT ![c] = Append(@, sent[c] + 1)]
  /\ UNCHANGED <<quic, readerVars, streamSet, closeVars, bufferVars, consumerVars, wpc, panic>>

(* The peer closes its direction, or sends the empty frame that
   HandleChannelStreamData treats as a disconnect. *)
PeerFin(c) ==
  /\ quic[c] = "open"
  /\ quic' = [quic EXCEPT ![c] = "fin"]
  /\ UNCHANGED <<wire, sent, readerVars, streamSet, closeVars, bufferVars, consumerVars, wpc, panic>>

(* The peer resets the stream or the connection times out: reads fail and
   what was not read is gone. *)
StreamLost(c) ==
  /\ quic[c] # "dead"
  /\ quic' = [quic EXCEPT ![c] = "dead"]
  /\ UNCHANGED <<wire, sent, readerVars, streamSet, closeVars, bufferVars, consumerVars, wpc, panic>>

-------------------------------------------------------------------------------
(* The reader: HandleChannelStreamData.                                    *)

Attach(c) ==
  /\ ReaderGoes(c, "attach", "context")
  /\ streamSet' = [streamSet EXCEPT ![c] = TRUE]
  /\ UNCHANGED <<peerVars, inHand, done, closeVars, bufferVars, consumerVars, wpc, panic>>

(* sc.Stream.Context(): Stream is loaded again. *)
UseContext(c) ==
  /\ IF streamSet[c] THEN ReaderGoes(c, "context", "check") /\ UNCHANGED panic
                     ELSE rpc[c] = "context" /\ panic' = "context" /\ UNCHANGED rpc
  /\ UNCHANGED <<peerVars, inHand, done, streamSet, closeVars, bufferVars, consumerVars, wpc>>

CheckOpen(c) ==
  /\ ReaderGoes(c, "check", IF isClosed[c] THEN "exit" ELSE "load")
  /\ UNCHANGED <<peerVars, inHand, done, streamSet, closeVars, bufferVars, consumerVars, wpc, panic>>

(* The argument of ReadStreamByHeaderUShort; Read on a nil stream panics. *)
LoadStream(c) ==
  /\ IF streamSet[c] THEN ReaderGoes(c, "load", "read") /\ UNCHANGED panic
                     ELSE rpc[c] = "load" /\ panic' = "read" /\ UNCHANGED rpc
  /\ UNCHANGED <<peerVars, inHand, done, streamSet, closeVars, bufferVars, consumerVars, wpc>>

ReadMessage(c) ==
  /\ quic[c] # "dead" /\ wire[c] # <<>>
  /\ ReaderGoes(c, "read", "got")
  /\ inHand' = [inHand EXCEPT ![c] = Head(wire[c])]
  /\ wire' = [wire EXCEPT ![c] = Tail(@)]
  /\ UNCHANGED <<sent, quic, done, streamSet, closeVars, bufferVars, consumerVars, wpc, panic>>

(* Mutant: only io.EOF ends the loop. *)
ReadEndsOnEof(c) ==
  /\ quic[c] = "fin" /\ wire[c] = <<>>
  /\ ReaderGoes(c, "read", "exit")
  /\ UNCHANGED <<peerVars, inHand, done, streamSet, closeVars, bufferVars, consumerVars, wpc, panic>>

(* io.EOF, an empty frame, or the error of a cancelled stream. *)
ReadEnds(c) ==
  /\ quic[c] = "dead" \/ (quic[c] = "fin" /\ wire[c] = <<>>)
  /\ ReaderGoes(c, "read", "exit")
  /\ UNCHANGED <<peerVars, inHand, done, streamSet, closeVars, bufferVars, consumerVars, wpc, panic>>

(* The second IsClosed check; a message read by then is dropped. *)
CheckStillOpen(c) ==
  /\ ReaderGoes(c, "got", IF isClosed[c] THEN "exit" ELSE "offer")
  /\ inHand' = [inHand EXCEPT ![c] = IF isClosed[c] THEN Nothing ELSE @]
  /\ UNCHANGED <<peerVars, done, streamSet, closeVars, bufferVars, consumerVars, wpc, panic>>

(* sc.Channel <- meets <-sc.Channel. *)
Handoff(c) ==
  /\ ReaderGoes(c, "offer", "check")
  /\ ConsumerGoes(c, "recv", "store")
  /\ got' = [got EXCEPT ![c] = inHand[c]]
  /\ inHand' = [inHand EXCEPT ![c] = Nothing]
  /\ UNCHANGED <<peerVars, done, streamSet, closeVars, bufferVars, delivered, wpc, panic>>

(* Mutant: the reader is left in a place of its own. *)
ReaderExitNowhere(c) ==
  /\ ReaderGoes(c, "exit", "done")
  /\ done' = [done EXCEPT ![c] = TRUE]
  /\ UNCHANGED <<peerVars, inHand, streamSet, closeVars, bufferVars, consumerVars, wpc, panic>>

(* The deferred function up to OnDisconnect. *)
ReaderExit(c) ==
  /\ ReaderGoes(c, "exit", "callback")
  /\ done' = [done EXCEPT ![c] = TRUE]
  /\ UNCHANGED <<peerVars, inHand, streamSet, closeVars, bufferVars, consumerVars, wpc, panic>>

ReaderStep(c) ==
  \/ Attach(c) \/ UseContext(c) \/ CheckOpen(c) \/ LoadStream(c) \/ ReadMessage(c)
  \/ ReadEnds(c) \/ CheckStillOpen(c) \/ ReaderExit(c)

-------------------------------------------------------------------------------
(* The consumer: ReceiveDataToBuffer, and what its callers do with Buffer. *)

(* Mutant: the Go channel is read although Buffer still holds a message. *)
ReceiveOverBuffer(c) ==
  /\ ConsumerGoes(c, "call", IF done[c] THEN "stuck" ELSE "recv")
  /\ UNCHANGED <<peerVars, readerVars, streamSet, closeVars, bufferVars, got, delivered, wpc, panic>>

(* Channel is loaded when Buffer is empty: nil after the reader's exit, and
   a receive from a nil channel never returns. *)
Receive(c) ==
  /\ ConsumerGoes(c, "call", IF buffer[c] # Nothing THEN "have"
                             ELSE IF done[c] THEN "stuck" ELSE "recv")
  /\ UNCHANGED <<peerVars, readerVars, streamSet, closeVars, bufferVars, got, delivered, wpc, panic>>

(* Mutant: Channel is set to nil without close(Channel). *)
ReceiveNotWoken(c) ==
  /\ done[c] /\ ConsumerGoes(c, "recv", "stuck")
  /\ UNCHANGED <<peerVars, readerVars, streamSet, closeVars, bufferVars, got, delivered, wpc, panic>>

ReceiveClosed(c) ==
  /\ done[c] /\ ConsumerGoes(c, "recv", "have")
  /\ UNCHANGED <<peerVars, readerVars, streamSet, closeVars, bufferVars, got, delivered, wpc, panic>>

StoreBuffer(c) ==
  /\ ConsumerGoes(c, "store", "have")
  /\ buffer' = [buffer EXCEPT ![c] = got[c]]
  /\ offset' = [offset EXCEPT ![c] = 0]
  /\ got' = [got EXCEPT ![c] = Nothing]
  /\ UNCHANGED <<peerVars, readerVars, streamSet, closeVars, delivered, wpc, panic>>

(* The caller's memory holds only a part of what is left in Buffer. *)
PartTaken(c, from) ==
  /\ buffer[c] # Nothing /\ offset[c] + 1 < MaxParts
  /\ ConsumerGoes(c, from, "idle")
  /\ offset' = [offset EXCEPT ![c] = @ + 1]
  /\ UNCHANGED <<peerVars, readerVars, streamSet, closeVars, buffer, got, delivered, wpc, panic>>

(* Mutant: Buffer is not cleared after the last part. *)
TakenAndKept(c, from) ==
  /\ ConsumerGoes(c, from, "idle")
  /\ delivered' = [delivered EXCEPT ![c] = IF buffer[c] = Nothing THEN @
                                           ELSE Append(@, buffer[c])]
  /\ UNCHANGED <<peerVars, readerVars, streamSet, closeVars, bufferVars, got, wpc, panic>>

(* It holds the rest, and Buffer is cleared; an empty one is an error. *)
Taken(c, from) ==
  /\ ConsumerGoes(c, from, "idle")
  /\ delivered' = [delivered EXCEPT ![c] = IF buffer[c] = Nothing THEN @
                                           ELSE Append(@, buffer[c])]
  /\ buffer' = [buffer EXCEPT ![c] = Nothing] /\ offset' = [offset EXCEPT ![c] = 0]
  /\ UNCHANGED <<peerVars, readerVars, streamSet, closeVars, got, wpc, panic>>

(* ClientChannelReceive looks at Buffer once, and copies. *)
TakePart(c) == PartTaken(c, "take")
Take(c) == Taken(c, "take")

ConsumerStep(c) ==
  Receive(c) \/ ReceiveClosed(c) \/ StoreBuffer(c) \/ TakePart(c) \/ Take(c)

-------------------------------------------------------------------------------
(* The sender: Send.                                                       *)

SendCheck(c) ==
  /\ SenderGoes(c, "call", IF isClosed[c] \/ ~streamSet[c] THEN "idle" ELSE "write")
  /\ UNCHANGED <<peerVars, readerVars, streamSet, closeVars, bufferVars, consumerVars, panic>>

(* Stream is loaded again for the write. *)
SendWrite(c) ==
  /\ IF streamSet[c] THEN SenderGoes(c, "write", "idle") /\ UNCHANGED panic
                     ELSE wpc[c] = "write" /\ panic' = "write" /\ UNCHANGED wpc
  /\ UNCHANGED <<peerVars, readerVars, streamSet, closeVars, bufferVars, consumerVars>>

SenderStep(c) == SendCheck(c) \/ SendWrite(c)

-------------------------------------------------------------------------------
(* Close, with OnClosing and OnClosed.                                     *)

CloseBegin(c) ==
  /\ ~closing[c] /\ ~isClosed[c]
  /\ closing' = [closing EXCEPT ![c] = TRUE]
  /\ quic' = [quic EXCEPT ![c] = IF streamSet[c] THEN "dead" ELSE @]
  /\ streamSet' = [streamSet EXCEPT ![c] = FALSE]
  /\ UNCHANGED <<wire, sent, readerVars, isClosed, bufferVars, consumerVars, wpc, panic>>

(* The wait is over, because Done was seen or after 100 rounds of 1ms: it
   is bounded, so it can end in any state of the reader. *)
CloseEnd(c) ==
  /\ closing[c]
  /\ closing' = [closing EXCEPT ![c] = FALSE]
  /\ isClosed' = [isClosed EXCEPT ![c] = TRUE]
  /\ buffer' = [buffer EXCEPT ![c] = Nothing] /\ offset' = [offset EXCEPT ![c] = 0]
  /\ UNCHANGED <<peerVars, readerVars, streamSet, consumerVars, wpc, panic>>

PeerStep(c) == PeerSend(c) \/ PeerFin(c) \/ StreamLost(c)

-------------------------------------------------------------------------------

Messages == 0 .. MaxMessages

ChannelTypeOK ==
  /\ wire \in [Channels -> Seq(Messages)]
  /\ sent \in [Channels -> Messages]
  /\ quic \in [Channels -> {"open", "fin", "dead"}]
  /\ rpc \in [Channels -> ReaderPlaces]
  /\ inHand \in [Channels -> Messages] /\ got \in [Channels -> Messages]
  /\ buffer \in [Channels -> Messages] /\ offset \in [Channels -> 0 .. MaxParts - 1]
  /\ streamSet \in [Channels -> BOOLEAN] /\ done \in [Channels -> BOOLEAN]
  /\ closing \in [Channels -> BOOLEAN] /\ isClosed \in [Channels -> BOOLEAN]
  /\ cpc \in [Channels -> ConsumerPlaces]
  /\ wpc \in [Channels -> SenderPlaces]
  /\ delivered \in [Channels -> Seq(Messages)]
  /\ panic \in {"none", "context", "read", "write", "slot", "buffer"}

One(m) == IF m = Nothing THEN <<>> ELSE <<m>>

Pipeline(c) == delivered[c] \o One(buffer[c]) \o One(got[c]) \o One(inHand[c]) \o wire[c]

(* Until Close begins, every message the peer sent is in exactly one place
   between the stream and the application, and in order: the reader, the
   rendezvous, Buffer and the partial consumer never lose, copy or swap one. *)
NothingLost ==
  \A c \in Channels :
    ~closing[c] /\ ~isClosed[c] => Pipeline(c) = [i \in 1 .. sent[c] |-> i]

(* Also during and after a close, which may drop what Buffer or the reader
   holds, the application never sees a message twice or out of order. *)
Promise(c) == INSTANCE OrderedDelivery WITH
  MaySkip <- TRUE, sent <- sent[c], delivered <- delivered[c]

ImplementsOrderedDelivery ==
  /\ \A c \in Channels : Promise(c)!Init
  /\ [][\A c \in Channels : Promise(c)!Next \/ UNCHANGED <<sent[c], delivered[c]>>]_channelVars

(* Close cancels the stream before it waits, so a reader blocked in Read
   gets out, unless it is left offering a message nobody receives.  A reader
   that attaches its stream after the cancellation is not released: Close
   found no stream to cancel. *)
ReaderReleased ==
  \A c \in Channels :
    closing[c] /\ ~streamSet[c] /\ rpc[c] \notin {"off", "attach"}
      ~> rpc[c] \in {"offer", "gone"} \/ panic # "none"

(* A receiver that is blocked when the reader exits is woken by close(Channel). *)
ReceiverReleased ==
  \A c \in Channels : cpc[c] = "recv" /\ done[c] ~> cpc[c] = "idle" \/ panic # "none"

(* changelog.md:51, "closing a quic stream revokes the reads and writes in
   progress": a reader in its loop (channel.go:140) and a sender past its test
   (193) see an error, never a nil stream.  The reader that begins on a channel closed under
   it (121) has no read in progress and is no matter of this. *)
OperationsSurviveClose == panic \notin {"read", "write"}

===============================================================================
