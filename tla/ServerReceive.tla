----------------------------- MODULE ServerReceive -----------------------------
(***************************************************************************)
(* ServerSocketReceive, exports/openapi.go: one goroutine of the           *)
(* application receives from all channels of all clients.  It takes the    *)
(* sockets of socketMap, waits in a select over their channels and hands   *)
(* the message it got out of currentBuffer, in parts.                      *)
(*                                                                         *)
(* The bytes are followed from the client's Send through the quic stream   *)
(* and the reader of the channel to the application.  Sockets and channels *)
(* end as in modules Server and Socket, in as few steps as the receive can *)
(* tell apart; a client connects once, and before ServerClose (module      *)
(* Server follows the others).                                             *)
(***************************************************************************)
EXTENDS Framing, FiniteSets

CONSTANTS Sockets,    \* clients
          Indexes,    \* channels of a client
          PerSocket,  \* channels the receive reserves room for, 3 in the code
          Info,       \* the StreamInfo a client sends, as bytes
          MaxInfo,    \* the longest one that is read, 1024 in the code
          Payloads,   \* messages a client may send
          Sizes,      \* lengths of the application's buffer
          MaxWrites,  \* bound: messages a client sends on one channel
          MaxLost     \* bound: bytes under way that a stream's end loses

ASSUME InfoFits == Info \in Seq(Bytes) /\ Len(Info) \in 1 .. MaxInfo
ASSUME Inputs == Payloads \subseteq Seq(Bytes) /\ Sizes \subseteq Nat \ {0}
ASSUME Numbers == PerSocket \in Nat \ {0} /\ MaxWrites \in Nat /\ MaxLost \in Nat

Channels == Sockets \X Indexes
ChannelsOf(s) == {s} \X Indexes
None == [from |-> <<>>, rest |-> <<>>]  \* currentBuffer = nil

VARIABLES
  wire,     \* bytes of each stream that the server has not read
  cli,      \* the client's end of the stream
  sent,     \* messages the client sent (history)
  rpc,      \* the goroutine that processes the stream, then reads its channel
  inHand,   \* the message it offers on Channel
  slot,     \* StreamChannels[i] # nil
  phase,    \* each socket
  mapped,   \* socketMap
  proxied,  \* ProxyServerCreate was called, not ServerCreate
  ctx,      \* serverCtx or managerCtx
  apc,      \* where the application is in ServerSocketReceive
  room,     \* count, while it is used
  listed,   \* channels in channelCaseList, while it is used
  current,  \* currentBuffer: whose it is and what is left of it
  got,      \* bytes the application has of each channel (history)
  panic     \* what ended the process, or "none"

peerVars   == <<wire, cli, sent>>
readerVars == <<rpc, inHand>>
sockVars   == <<slot, phase, mapped, proxied, ctx>>
appVars    == <<apc, room, listed, current, got>>
vars       == <<peerVars, readerVars, sockVars, appVars, panic>>

Init ==
  /\ wire = [c \in Channels |-> <<>>] /\ cli = [c \in Channels |-> "none"]
  /\ sent = [c \in Channels |-> <<>>]
  /\ rpc = [c \in Channels |-> "off"] /\ inHand = [c \in Channels |-> <<>>]
  /\ slot = [c \in Channels |-> FALSE]
  /\ phase = [s \in Sockets |-> "off"]
  /\ mapped = {} /\ proxied \in BOOLEAN /\ ctx = "open"
  /\ apc = "idle" /\ room = 0 /\ listed = {} /\ current = None
  /\ got = [c \in Channels |-> <<>>]
  /\ panic = "none"

ReaderGoes(c, from, to) == rpc[c] = from /\ rpc' = [rpc EXCEPT ![c] = to]
AppGoes(from, to) == apc = from /\ apc' = to

-------------------------------------------------------------------------------
(* The client.                                                             *)

(* managerCtx.Close leaves the agents' servers as they are. *)
Listening == ctx = "open" \/ proxied

(* CreateStream writes the length and the info one after the other; what
   the reader makes of the first alone is what End leaves of both. *)
OpenStream(c) ==
  /\ cli[c] = "none" /\ ctx = "open" /\ phase[c[1]] \in {"off", "up"}
  /\ cli' = [cli EXCEPT ![c] = "open"]
  /\ wire' = [wire EXCEPT ![c] = PutVarint(Len(Info)) \o Info]
  /\ ReaderGoes(c, "off", "info")
  /\ UNCHANGED <<sent, inHand, sockVars, appVars, panic>>

Send(c, data) ==
  /\ cli[c] = "open" /\ Len(sent[c]) < MaxWrites
  /\ sent' = [sent EXCEPT ![c] = Append(@, data)]
  /\ wire' = [wire EXCEPT ![c] = @ \o WriteStreamByHeader(data)]
  /\ UNCHANGED <<cli, readerVars, sockVars, appVars, panic>>

(* The client closes or resets the stream, or its connection is lost: some
   of what was on its way still arrives. *)
End(c, lost) ==
  /\ cli[c] = "open" /\ lost <= Len(wire[c])
  /\ cli' = [cli EXCEPT ![c] = "ended"]
  /\ wire' = [wire EXCEPT ![c] = SubSeq(@, 1, Len(@) - lost)]
  /\ UNCHANGED <<sent, readerVars, sockVars, appVars, panic>>

-------------------------------------------------------------------------------
(* processStream and the reader of the channel.                            *)

(* The socket of the client's first stream enters socketMap. *)
Accept(c) ==
  LET s == c[1] first == phase[s] = "off" IN
  /\ phase[s] \in {"off", "up"} /\ Listening
  /\ HasInfo(wire[c]) /\ InfoLen(wire[c]) \in 0 .. MaxInfo /\ InfoOf(wire[c]) = Info
  /\ ReaderGoes(c, "info", "read")
  /\ wire' = [wire EXCEPT ![c] = AfterInfo(@)]
  /\ phase' = [phase EXCEPT ![s] = "up"]
  /\ slot' = IF first THEN [d \in Channels |-> slot[d] \/ d[1] = s] ELSE slot
  /\ mapped' = IF first THEN mapped \cup {s} ELSE mapped
  /\ UNCHANGED <<cli, sent, inHand, proxied, ctx, appVars, panic>>

(* The info is cut or too long, or its sign or time is not accepted. *)
Reject(c) ==
  /\ HasInfo(wire[c]) \/ cli[c] = "ended"
  /\ ReaderGoes(c, "info", "rejected")
  /\ cli' = [cli EXCEPT ![c] = "ended"]
  /\ wire' = [wire EXCEPT ![c] = <<>>]
  /\ UNCHANGED <<sent, inHand, sockVars, appVars, panic>>

(* An empty message is taken for a disconnect. *)
ReadMessage(c) ==
  /\ HasMessage(wire[c])
  /\ inHand' = [inHand EXCEPT ![c] = MessageOf(wire[c])]
  /\ ReaderGoes(c, "read", IF MessageOf(wire[c]) = <<>> THEN "exit" ELSE "offer")
  /\ wire' = [wire EXCEPT ![c] = AfterMessage(@)]
  /\ UNCHANGED <<cli, sent, sockVars, appVars, panic>>

(* Mutant: only io.EOF ends the loop, not io.ErrUnexpectedEOF. *)
ReadFailsOnEof(c) ==
  /\ cli[c] = "ended" /\ wire[c] = <<>>
  /\ ReaderGoes(c, "read", "exit")
  /\ UNCHANGED <<peerVars, inHand, sockVars, appVars, panic>>

ReadFails(c) ==
  /\ cli[c] = "ended" /\ ~HasMessage(wire[c])
  /\ ReaderGoes(c, "read", "exit")
  /\ UNCHANGED <<peerVars, inHand, sockVars, appVars, panic>>

(* The deferred function: close(Channel), Channel = nil. *)
CloseChannel(c) ==
  /\ ReaderGoes(c, "exit", "closed")
  /\ UNCHANGED <<peerVars, inHand, sockVars, appVars, panic>>

(* Channel.OnDisconnect: the channel leaves the table, and the socket closes
   when it was the last. *)
Disconnect(c) ==
  LET s == c[1] IN
  /\ ReaderGoes(c, "closed", "gone")
  /\ IF phase[s] = "up"
     THEN /\ slot' = [slot EXCEPT ![c] = FALSE]
          /\ cli' = [cli EXCEPT ![c] = "ended"] /\ wire' = [wire EXCEPT ![c] = <<>>]
          /\ phase' = [phase EXCEPT ![s] = IF \E d \in ChannelsOf(s) : slot'[d] THEN "up"
                                           ELSE "closing"]
     ELSE UNCHANGED <<slot, cli, wire, phase>>
  /\ UNCHANGED <<sent, inHand, mapped, proxied, ctx, appVars, panic>>

-------------------------------------------------------------------------------
(* A socket closes: each channel, then the table, then the callback.       *)

CloseSocket(s) ==
  /\ phase[s] = "up" /\ ctx # "nil"
  /\ phase' = [phase EXCEPT ![s] = "closing"]
  /\ UNCHANGED <<peerVars, readerVars, slot, mapped, proxied, ctx, appVars, panic>>

ClearSlot(c) ==
  /\ phase[c[1]] = "closing" /\ slot[c]
  /\ slot' = [slot EXCEPT ![c] = FALSE]
  /\ cli' = [cli EXCEPT ![c] = "ended"] /\ wire' = [wire EXCEPT ![c] = <<>>]
  /\ UNCHANGED <<sent, readerVars, phase, mapped, proxied, ctx, appVars, panic>>

(* ChannelCount = 0, and the connection is closed. *)
CloseConn(s) ==
  /\ phase[s] = "closing" /\ \A c \in ChannelsOf(s) : ~slot[c]
  /\ phase' = [phase EXCEPT ![s] = "closed"]
  /\ cli' = [c \in Channels |-> IF c[1] = s THEN "ended" ELSE cli[c]]
  /\ wire' = [c \in Channels |-> IF c[1] = s THEN <<>> ELSE wire[c]]
  /\ UNCHANGED <<sent, readerVars, slot, mapped, proxied, ctx, appVars, panic>>

(* Only the callback of ProxyServerCreate takes the socket out of socketMap:
   nobody calls the OnSocketDisConnected that ServerCreate sets. *)
OnDisconnect(s) ==
  /\ phase[s] = "closed"
  /\ phase' = [phase EXCEPT ![s] = "told"]
  /\ mapped' = IF proxied THEN mapped \ {s} ELSE mapped
  /\ UNCHANGED <<peerVars, readerVars, slot, proxied, ctx, appVars, panic>>

-------------------------------------------------------------------------------
(* ServerClose.                                                            *)

ClearMap ==
  /\ ctx = "open"
  /\ mapped' = {} /\ ctx' = "clearing"
  /\ UNCHANGED <<peerVars, readerVars, slot, phase, proxied, appVars, panic>>

ServerCloses ==
  /\ ctx = "clearing" /\ ~proxied
  /\ IF \E s \in Sockets : phase[s] = "up"
     THEN UNCHANGED ctx /\ phase' = [s \in Sockets |-> IF phase[s] = "up" THEN "closing"
                                                       ELSE phase[s]]
     ELSE /\ \A s \in Sockets : phase[s] \in {"off", "told"}
          /\ ctx' = "closed" /\ UNCHANGED phase
  /\ UNCHANGED <<peerVars, readerVars, slot, mapped, proxied, appVars, panic>>

(* Nobody tests managerCtx.IsClosed here, so only serverCtx is "closed". *)
ForgetServer ==
  /\ ctx = (IF proxied THEN "clearing" ELSE "closed") /\ ctx' = "nil"
  /\ UNCHANGED <<peerVars, readerVars, slot, phase, mapped, proxied, appVars, panic>>

-------------------------------------------------------------------------------
(* ServerSocketReceive.                                                    *)

Call ==
  /\ ctx # "nil" /\ AppGoes("idle", "wait")
  /\ UNCHANGED <<peerVars, readerVars, sockVars, room, listed, current, got, panic>>

(* Mutant: every call waits for a message, whatever is left of the last. *)
WaitDropsRest ==
  /\ ctx # "closed" /\ mapped # {}
  /\ AppGoes("wait", "list") /\ room' = Cardinality(mapped) * PerSocket
  /\ UNCHANGED <<peerVars, readerVars, sockVars, listed, current, got, panic>>

(* serverCtx may be seen closed before it is nil.  The wait is over when
   socketMap is not empty; its length is the room of the list. *)
WaitEnds ==
  /\ \/ ctx = "closed" /\ AppGoes("wait", "idle") /\ UNCHANGED room
     \/ /\ ctx # "closed" /\ mapped # {}
        /\ IF current = None
           THEN AppGoes("wait", "list") /\ room' = Cardinality(mapped) * PerSocket
           ELSE AppGoes("wait", "copy") /\ UNCHANGED room
  /\ UNCHANGED <<peerVars, readerVars, sockVars, listed, current, got, panic>>

(* The list is built from the sockets that are mapped by now.  A nil entry
   of a table is dereferenced; a closed channel is nil and never ready. *)
InTables == {c \in Channels : c[1] \in mapped /\ phase[c[1]] \in {"up", "closing"}}

List ==
  /\ IF \E c \in InTables : ~slot[c]
     THEN apc = "list" /\ panic' = "slot" /\ UNCHANGED <<apc, listed>>
     ELSE IF InTables = {}
     THEN AppGoes("list", "idle") /\ UNCHANGED <<listed, panic>>
     ELSE IF Cardinality(InTables) # room  \* out of range, or a zero SelectCase
     THEN apc = "list" /\ panic' = "list" /\ UNCHANGED <<apc, listed>>
     ELSE /\ AppGoes("list", "select")
          /\ listed' = {c \in InTables : rpc[c] \notin {"closed", "gone"}}
          /\ UNCHANGED panic
  /\ room' = 0
  /\ UNCHANGED <<peerVars, readerVars, sockVars, current, got>>

(* Mutant: the application is told the client, and channel 0 of it. *)
SelectSocket(c) ==
  /\ c \in listed /\ AppGoes("select", "copy")
  /\ ReaderGoes(c, "offer", "read")
  /\ current' = [from |-> c[1], rest |-> inHand[c]]
  /\ inHand' = [inHand EXCEPT ![c] = <<>>]
  /\ listed' = {}
  /\ UNCHANGED <<peerVars, sockVars, room, got, panic>>

(* reflect.Select takes an offer and the reader goes on. *)
Select(c) ==
  /\ c \in listed /\ AppGoes("select", "copy")
  /\ ReaderGoes(c, "offer", "read")
  /\ current' = [from |-> c, rest |-> inHand[c]]
  /\ inHand' = [inHand EXCEPT ![c] = <<>>]
  /\ listed' = {}
  /\ UNCHANGED <<peerVars, sockVars, room, got, panic>>

SelectClosed(c) ==
  /\ c \in listed /\ rpc[c] \in {"closed", "gone"} /\ AppGoes("select", "idle")
  /\ listed' = {}
  /\ UNCHANGED <<peerVars, readerVars, sockVars, room, current, got, panic>>

(* As much as the buffer takes; the rest is for the next call. *)
Copy(n) ==
  LET c == current.from
      copied == SubSeq(current.rest, 1, IF n < Len(current.rest) THEN n ELSE Len(current.rest))
      rest == SubSeq(current.rest, Len(copied) + 1, Len(current.rest))
  IN /\ AppGoes("copy", "idle")
     /\ got' = [got EXCEPT ![c] = @ \o copied]
     /\ current' = IF rest = <<>> THEN None ELSE [current EXCEPT !.rest = rest]
     /\ UNCHANGED <<peerVars, readerVars, sockVars, room, listed, panic>>

Receive ==
  \/ Call \/ WaitEnds \/ List
  \/ \E c \in Channels : Select(c) \/ SelectClosed(c)
  \/ \E n \in Sizes : Copy(n)

-------------------------------------------------------------------------------

ClientStep(c) ==
  OpenStream(c) \/ (\E data \in Payloads : Send(c, data))
    \/ \E lost \in 0 .. MaxLost : End(c, lost)

ReaderStep(c) ==
  Accept(c) \/ Reject(c) \/ ReadMessage(c) \/ ReadFails(c) \/ CloseChannel(c) \/ Disconnect(c)

CloseStep ==
  \/ \E s \in Sockets : CloseConn(s) \/ OnDisconnect(s)
  \/ \E c \in Channels : ClearSlot(c)
  \/ ServerCloses \/ ForgetServer

ServerStep == CloseStep \/ \E c \in Channels : ReaderStep(c)

Next ==
  /\ panic = "none"
  /\ \/ \E c \in Channels : ClientStep(c)
     \/ \E s \in Sockets : CloseSocket(s)
     \/ ServerStep \/ ClearMap \/ Receive

Spec == Init /\ [][Next]_vars

(* The server's goroutines run, and the application, which calls
   ServerSocketReceive in a loop.  Clients need not act. *)
Fairness == WF_vars(panic = "none" /\ ServerStep) /\ WF_vars(panic = "none" /\ Receive)

FairSpec == Spec /\ Fairness

-------------------------------------------------------------------------------

ReceiveTypeOK ==
  /\ wire \in [Channels -> Seq(Bytes)]
  /\ cli \in [Channels -> {"none", "open", "ended"}]
  /\ \A c \in Channels : \A i \in DOMAIN sent[c] : sent[c][i] \in Payloads
  /\ rpc \in [Channels -> {"off", "info", "rejected", "read", "offer", "exit", "closed", "gone"}]
  /\ inHand \in [Channels -> Seq(Bytes)]
  /\ slot \in [Channels -> BOOLEAN]
  /\ phase \in [Sockets -> {"off", "up", "closing", "closed", "told"}]
  /\ mapped \subseteq Sockets /\ proxied \in BOOLEAN
  /\ ctx \in {"open", "clearing", "closed", "nil"}
  /\ apc \in {"idle", "wait", "list", "select", "copy"}
  /\ room \in Nat /\ listed \subseteq Channels
  /\ current = None \/ (current.from \in Channels /\ current.rest \in Seq(Bytes) \ {<<>>})
  /\ got \in [Channels -> Seq(Bytes)]
  /\ panic \in {"none", "slot", "list"}

Flat[ms \in Seq(Seq(Bytes))] == IF ms = <<>> THEN <<>> ELSE Head(ms) \o Flat[Tail(ms)]
Pending(c) == IF current # None /\ current.from = c THEN current.rest ELSE <<>>

(* openapi.go:453-533 with stream.go:126 and channel.go:140: as long as no
   message is longer than two bytes can tell, the application has of each
   channel a prefix of what its client sent on that channel, to the byte and
   with the right id and index, however its buffer cuts the messages and
   however the clients' messages interleave.  And nothing is lost between
   the client and the application while both ends of the stream are open. *)
BytesIntact ==
  \A c \in Channels :
    (\A i \in DOMAIN sent[c] : Len(sent[c][i]) < UShort) =>
      LET all == Flat[sent[c]] IN
      /\ got[c] = SubSeq(all, 1, Len(got[c]))
      /\ cli[c] = "open" /\ rpc[c] \in {"read", "offer"} =>
           got[c] \o Pending(c) \o inHand[c] \o Unframed[wire[c]] = all

(* The application does not wait for ever in a select when one of its channels
   has a message to offer, or belongs to a stream that its client ended, even
   in the middle of a message, or to a server that closes. *)
BlockedIsWoken ==
  (/\ apc = "select"
   /\ \E c \in listed : \/ rpc[c] \in {"offer", "exit", "closed"}
                        \/ rpc[c] = "read" /\ (cli[c] = "ended" \/ ~Listening))
    ~> (apc # "select" \/ panic # "none")

===============================================================================
