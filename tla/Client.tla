-------------------------------- MODULE Client --------------------------------
(***************************************************************************)
(* client/client.go and the exported functions that use it: ClientConnect, *)
(* ClientClose and ClientChannelClose on one client, with the readers of   *)
(* its channels.                                                           *)
(*                                                                         *)
(* Two objects close, one inside the other.  The client's own lock is the  *)
(* CloseableObject this module extends; its OnClosing closes the socket,   *)
(* which is Sock, the protocol that module Socket is shown to implement.   *)
(* clientCtx, cli.Socket and the table of channels are read without a lock *)
(* and loaded again after each test: what is nil by then is a panic.       *)
(***************************************************************************)
EXTENDS CloseableObject

CONSTANTS Main,         \* the goroutine that calls ClientConnect
          Droppers,     \* those that call ClientChannelClose; the others call ClientClose
          ChannelCount

ASSUME MainIsACaller == Main \in Callers /\ Droppers \subseteq Callers \ {Main}
ASSUME ChannelsAsked ==
  /\ ChannelCount \in Nat \ {0}
  /\ (Callers \cup {NoOne}) \cap (0 .. ChannelCount - 1) = {}

Channels == 0 .. ChannelCount - 1  \* each also names its reader
Closers == Callers \ ({Main} \cup Droppers)

VARIABLES
  clientSet,  \* clientCtx # nil
  socketSet,  \* clientCtx.Socket # nil
  way,        \* how ClientConnect reaches the server
  netConn,    \* cli.NetConn # nil
  udp,        \* the UDP socket made for the client: "none", "open" or "closed"
  slots,      \* the channels in Socket.StreamChannels
  at,         \* where each goroutine is outside Close
  next,       \* the channel ConnectToNet opens next
  part,       \* where the client's OnClosing is
  panic,      \* a nil pointer was used: the process has ended
  early,      \* a close began before ConnectToNet had its socket (history)
  sIsClosed, sCloseLock, sPc, sClosedRuns  \* the socket's CloseableObject

netVars == <<netConn, udp>>
socketVars == <<sIsClosed, sCloseLock, sPc, sClosedRuns>>
clientVars == <<vars, socketVars, clientSet, socketSet, way, netVars, slots, at, next, part,
                panic, early>>

(* Both constructors set the handler. *)
Sock == INSTANCE CloseableObject WITH
  Callers <- Callers \cup Channels, isClosed <- sIsClosed,
  closeLock <- sCloseLock, pc <- sPc, closedRuns <- sClosedRuns

ClientInit ==
  /\ Init /\ handler
  /\ sIsClosed = FALSE /\ sCloseLock = NoOne /\ sClosedRuns = 0
  /\ sPc = [g \in Callers \cup Channels |-> "idle"]
  /\ clientSet = FALSE /\ socketSet = FALSE
  /\ way \in {"direct", "proxy", "ice"}
  /\ netConn = FALSE /\ udp = "none"
  /\ slots = {}
  /\ at = [g \in Callers \cup Channels |-> "idle"]
  /\ next = 0
  /\ part = "none"
  /\ panic = FALSE
  /\ early = FALSE

Goes(g, from, to) == at[g] = from /\ at' = [at EXCEPT ![g] = to]

(* A step that needs a pointer: it goes on, or the process ends. *)
Needs(pointer, g, from, to) ==
  IF pointer THEN Goes(g, from, to) /\ UNCHANGED panic
             ELSE at[g] = from /\ panic' = TRUE /\ UNCHANGED at

-------------------------------------------------------------------------------
(* ClientConnect and ConnectToNet.                                         *)

NewClient ==
  /\ Goes(Main, "idle", "connect")
  /\ clientSet' = TRUE
  /\ UNCHANGED <<vars, socketVars, socketSet, way, netVars, slots, next, part, panic, early>>

(* Connect makes a UDP socket, and so do the proxy's agent and the ICE worker. *)
NewUdpSocketClient ==
  /\ Goes(Main, "connect", "opened")
  /\ udp' = "open"
  /\ UNCHANGED <<vars, socketVars, clientSet, socketSet, way, netConn, slots, next, part, panic,
                 early>>

(* The proxy's agent failed, with its UDP socket or without, or the ICE answer has no
   address: nothing is connected and ClientConnect goes on to its last line. *)
NoConnection ==
  /\ \/ way # "direct" /\ Goes(Main, "connect", "report")
     \/ way = "proxy" /\ Goes(Main, "opened", "report")
  /\ UNCHANGED <<vars, socketVars, clientSet, socketSet, way, netVars, slots, next, part,
                 panic, early>>

(* The UDP socket cannot be made, or a stream not be opened. *)
ConnectCloses ==
  /\ \/ way = "direct" /\ Goes(Main, "connect", "failing")
     \/ Goes(Main, "stream", "failing")
  /\ Call(Main)
  /\ UNCHANGED <<socketVars, clientSet, socketSet, way, netVars, slots, next, part, panic, early>>

ConnectReturns ==
  /\ pc[Main] = "idle" /\ Goes(Main, "failing", "failed")
  /\ UNCHANGED <<vars, socketVars, clientSet, socketSet, way, netVars, slots, next, part,
                 panic, early>>

(* The server's address does not resolve: Connect returns with the UDP socket
   open, and no field holds it. *)
ResolveFails ==
  /\ way = "direct" /\ Goes(Main, "opened", "failed")
  /\ UNCHANGED <<vars, socketVars, clientSet, socketSet, way, netVars, slots, next, part,
                 panic, early>>

SetNetConn ==
  /\ ~socketSet /\ Goes(Main, "opened", "dial")
  /\ netConn' = TRUE
  /\ UNCHANGED <<vars, socketVars, clientSet, socketSet, way, udp, slots, next, part, panic, early>>

(* Nobody answers: the client stays open, with its NetConn. *)
DialFails ==
  /\ Goes(Main, "dial", "failed")
  /\ UNCHANGED <<vars, socketVars, clientSet, socketSet, way, netVars, slots, next, part,
                 panic, early>>

DialSucceeds ==
  /\ udp = "open" /\ Goes(Main, "dial", "dialled")
  /\ UNCHANGED <<vars, socketVars, clientSet, socketSet, way, netVars, slots, next, part,
                 panic, early>>

(* Mutant: the table is one channel too long. *)
NewSocketTooLong ==
  /\ Goes(Main, "dialled", "configure")
  /\ socketSet' = TRUE
  /\ slots' = 0 .. ChannelCount
  /\ UNCHANGED <<vars, socketVars, clientSet, way, netVars, next, part, panic, early>>

NewSocket ==
  /\ Goes(Main, "dialled", "configure")
  /\ socketSet' = TRUE
  /\ slots' = Channels
  /\ UNCHANGED <<vars, socketVars, clientSet, way, netVars, next, part, panic, early>>

(* Each use of cli.Socket.StreamChannels[i] before the stream is opened. *)
Configure ==
  /\ Needs(socketSet /\ next \in slots, Main, "configure", "stream")
  /\ UNCHANGED <<vars, socketVars, clientSet, socketSet, way, netVars, slots, next, part, early>>

(* CreateStream: a stream, or nil without an error when the first write
   fails, which its reader then uses. *)
StreamOpens ==
  /\ \E written \in BOOLEAN : Needs(written, Main, "stream", "attach")
  /\ UNCHANGED <<vars, socketVars, clientSet, socketSet, way, netVars, slots, next, part, early>>

StartReader ==
  /\ at[Main] = "attach"
  /\ IF socketSet
     THEN /\ at' = [at EXCEPT ![next] = "started",
                              ![Main] = IF next + 1 < ChannelCount THEN "configure" ELSE "report"]
          /\ UNCHANGED panic
     ELSE panic' = TRUE /\ UNCHANGED at
  /\ next' = next + 1
  /\ UNCHANGED <<vars, socketVars, clientSet, socketSet, way, netVars, slots, part, early>>

(* ClientConnect ends with clientCtx.Socket.ChannelCount. *)
Report ==
  /\ Needs(clientSet /\ socketSet, Main, "report", "connected")
  /\ UNCHANGED <<vars, socketVars, clientSet, socketSet, way, netVars, slots, next, part, early>>

Connect ==
  \/ NewClient \/ NewUdpSocketClient \/ NoConnection \/ ConnectCloses \/ ConnectReturns
  \/ ResolveFails \/ SetNetConn \/ DialFails \/ DialSucceeds \/ NewSocket \/ Configure
  \/ StreamOpens \/ StartReader \/ Report

-------------------------------------------------------------------------------
(* The reader of a channel, from its start to Socket.Close.                *)

ReaderBegins(c) ==
  /\ Needs(c \in slots, c, "started", "reading")
  /\ UNCHANGED <<vars, socketVars, clientSet, socketSet, way, netVars, slots, next, part, early>>

StreamEnds(c) ==
  /\ Goes(c, "reading", IF sIsClosed THEN "gone" ELSE "drop")
  /\ UNCHANGED <<vars, socketVars, clientSet, socketSet, way, netVars, slots, next, part,
                 panic, early>>

ReaderDrops(c) ==
  /\ Goes(c, "drop", "scan")
  /\ slots' = slots \ {c}
  /\ UNCHANGED <<vars, socketVars, clientSet, socketSet, way, netVars, next, part, panic, early>>

(* Mutant: the reader leaves the close to the application. *)
ReaderScansOnly(c) ==
  /\ Goes(c, "scan", "gone")
  /\ UNCHANGED <<vars, socketVars, clientSet, socketSet, way, netVars, slots, next, part,
                 panic, early>>

ReaderScans(c) ==
  /\ IF slots # {} THEN Goes(c, "scan", "gone") /\ UNCHANGED socketVars
                   ELSE Goes(c, "scan", "closing") /\ Sock!Call(c)
  /\ UNCHANGED <<vars, clientSet, socketSet, way, netVars, slots, next, part, panic, early>>

ReaderReturns(c) ==
  /\ sPc[c] = "idle" /\ Goes(c, "closing", "gone")
  /\ UNCHANGED <<vars, socketVars, clientSet, socketSet, way, netVars, slots, next, part,
                 panic, early>>

Reader(c) ==
  ReaderBegins(c) \/ ReaderDrops(c) \/ ReaderScans(c) \/ ReaderReturns(c)

-------------------------------------------------------------------------------
(* ClientClose and ClientChannelClose.                                     *)

(* Both begin with a test of clientCtx. *)
TestClient(g) ==
  /\ g # Main /\ clientSet
  /\ Goes(g, "idle", IF g \in Droppers THEN "test" ELSE "close")
  /\ UNCHANGED <<vars, socketVars, clientSet, socketSet, way, netVars, slots, next, part,
                 panic, early>>

ClientClose(g) ==
  /\ Needs(clientSet, g, "close", "closing")
  /\ IF clientSet THEN Call(g) ELSE UNCHANGED vars
  /\ UNCHANGED <<socketVars, clientSet, socketSet, way, netVars, slots, next, part, early>>

(* Close has returned; ClientClose forgets the client. *)
ClientReturns(g) ==
  /\ g \in Closers \cup Droppers /\ pc[g] = "idle" /\ Goes(g, "closing", "idle")
  /\ clientSet' = (clientSet /\ g \in Droppers)
  /\ UNCHANGED <<vars, socketVars, socketSet, way, netVars, slots, next, part, panic, early>>

CloseChannelTest(g) ==
  /\ Needs(clientSet, g, "test", IF isClosed \/ ~socketSet THEN "scan" ELSE "drop")
  /\ UNCHANGED <<vars, socketVars, clientSet, socketSet, way, netVars, slots, next, part, early>>

(* Socket.CloseChannel, one step because channelEditLock is held over it. *)
CloseChannel(g, c) ==
  /\ g \in Droppers /\ Needs(socketSet, g, "drop", "scan")
  /\ slots' = slots \ {c}
  /\ UNCHANGED <<vars, socketVars, clientSet, socketSet, way, netVars, next, part, early>>

TestSocket(g) ==
  /\ g \in Droppers
  /\ Needs(clientSet, g, "scan", IF socketSet THEN "count" ELSE "close")
  /\ UNCHANGED <<vars, socketVars, clientSet, socketSet, way, netVars, slots, next, part, early>>

CountChannels(g) ==
  /\ Needs(clientSet /\ socketSet, g, "count", IF slots = {} THEN "close" ELSE "idle")
  /\ UNCHANGED <<vars, socketVars, clientSet, socketSet, way, netVars, slots, next, part, early>>

Exported(g) ==
  \/ ClientClose(g) \/ ClientReturns(g) \/ CloseChannelTest(g) \/ TestSocket(g)
  \/ CountChannels(g) \/ \E c \in Channels : CloseChannel(g, c)

-------------------------------------------------------------------------------
(* The client's Close, with OnClosing, and the socket's inside it.         *)

OnClosing(g) ==
  /\ Begin(g)
  /\ part' = "socket"
  /\ early' = (early \/ at[Main] \in {"connect", "opened", "dial", "dialled"})
  /\ UNCHANGED <<socketVars, clientSet, socketSet, way, netVars, slots, at, next, panic>>

CloseSocket(g) ==
  /\ pc[g] = "closing" /\ part = "socket"
  /\ IF socketSet THEN part' = "wait" /\ Sock!Call(g)
                  ELSE part' = "net" /\ UNCHANGED socketVars
  /\ UNCHANGED <<vars, clientSet, socketSet, way, netVars, slots, at, next, panic, early>>

ForgetSocket(g) ==
  /\ pc[g] = "closing" /\ part = "wait" /\ sPc[g] = "idle"
  /\ socketSet' = FALSE
  /\ part' = "net"
  /\ UNCHANGED <<vars, socketVars, clientSet, way, netVars, slots, at, next, panic, early>>

(* Mutant: NetConn is closed by the quic connection, if there is one. *)
CloseNetConnOfSocket(g) ==
  /\ part = "net" /\ Agree(g)
  /\ udp' = IF netConn /\ sIsClosed THEN "closed" ELSE udp
  /\ part' = "none"
  /\ UNCHANGED <<socketVars, clientSet, socketSet, way, netConn, slots, at, next, panic, early>>

CloseNetConn(g) ==
  /\ part = "net" /\ Agree(g)
  /\ udp' = IF netConn THEN "closed" ELSE udp
  /\ part' = "none"
  /\ UNCHANGED <<socketVars, clientSet, socketSet, way, netConn, slots, at, next, panic, early>>

OnClosed(g) ==
  /\ Finish(g)
  /\ UNCHANGED <<socketVars, clientSet, socketSet, way, netVars, slots, at, next, part, panic,
                 early>>

(* Lock acquired on a closed client. *)
CloseAgain(g) ==
  /\ Skip(g)
  /\ UNCHANGED <<socketVars, clientSet, socketSet, way, netVars, slots, at, next, part, panic,
                 early>>

SocketWaits(g) ==
  /\ Sock!Skip(g) \/ Sock!Begin(g)
  /\ UNCHANGED <<vars, clientSet, socketSet, way, netVars, slots, at, next, part, panic, early>>

(* Socket.OnClosing empties the table. *)
SocketCloses(g) ==
  /\ Sock!Agree(g)
  /\ slots' = {}
  /\ UNCHANGED <<vars, clientSet, socketSet, way, netVars, at, next, part, panic, early>>

(* Socket.OnClosed tells the application, and over a proxy closes the
   agent's UDP socket, which is NetConn. *)
SocketTells(g) ==
  /\ Sock!Finish(g)
  /\ udp' = IF way = "proxy" THEN "closed" ELSE udp
  /\ UNCHANGED <<vars, clientSet, socketSet, way, netConn, slots, at, next, part, panic, early>>

LockStep(g) == OnClosing(g) \/ CloseAgain(g)

RunStep(g) ==
  \/ Exported(g) \/ CloseSocket(g) \/ ForgetSocket(g) \/ CloseNetConn(g) \/ OnClosed(g)

SocketRuns(g) == SocketCloses(g) \/ SocketTells(g)

-------------------------------------------------------------------------------

ClientNext ==
  /\ ~panic
  /\ \/ Connect
     \/ \E g \in Callers : TestClient(g) \/ LockStep(g) \/ RunStep(g)
     \/ \E c \in Channels : Reader(c) \/ StreamEnds(c)
     \/ \E g \in Callers \cup Channels : SocketWaits(g) \/ SocketRuns(g)

ClientSpec == ClientInit /\ [][ClientNext]_clientVars

-------------------------------------------------------------------------------

Connecting == {"connect", "opened", "dial", "dialled", "configure", "stream", "attach", "report"}

Spots == Connecting \cup {"idle", "failing", "failed", "connected", "started", "reading",
                          "drop", "scan", "closing", "gone", "test", "close", "count"}

ClientTypeOK ==
  /\ TypeOK
  /\ sIsClosed \in BOOLEAN /\ sCloseLock \in Callers \cup Channels \cup {NoOne}
  /\ sPc \in [Callers \cup Channels -> Places] /\ sClosedRuns \in Nat
  /\ clientSet \in BOOLEAN /\ socketSet \in BOOLEAN
  /\ way \in {"direct", "proxy", "ice"}
  /\ netConn \in BOOLEAN /\ udp \in {"none", "open", "closed"}
  /\ slots \subseteq Channels
  /\ at \in [Callers \cup Channels -> Spots]
  /\ next \in 0 .. ChannelCount
  /\ part \in {"none", "socket", "wait", "net"}
  /\ panic \in BOOLEAN /\ early \in BOOLEAN

(* client.go:53-64: once Close is through, on whatever path the client came
   to be closed (a stream that did not open, a failed dial, ClientClose, the
   last ClientChannelClose, any two of them at once), no UDP socket made for
   it is open, its socket is closed, with the application told, and it points
   to none.  Two exceptions.  A close that begins while ConnectToNet has no
   socket yet: NetConn and Socket are set behind its back.  And a UDP socket
   that never became NetConn, since the address did not resolve (91-95) or the
   proxy's agent failed (agent/common.go:98-110): no Close can reach it. *)
ReleasedOnClose ==
  isClosed /\ closeLock = NoOne /\ ~early =>
    /\ udp = "open" => ~netConn /\ at[Main] \in {"failed", "report"}
    /\ ~socketSet /\ (next > 0 => sIsClosed /\ sClosedRuns = 1)

Resting == {"idle", "failed", "connected", "gone"}

(* Readers and ClientChannelClose remove channels and look for the last one
   with different eyes; when all have come to rest and no channel of a
   connected client is left, one of them has closed the socket and told the
   application, once. *)
LastChannelCloses ==
  (/\ at[Main] = "connected" /\ slots = {} /\ ~panic
   /\ \A g \in Callers \cup Channels : at[g] \in Resting) => sIsClosed /\ sClosedRuns = 1

(* No cycle of waiting between the two locks, and none kept for ever: who
   holds the client's lock can go on or waits for the socket's, and who holds
   the socket's (a reader, or the same goroutine) can go on. *)
HoldersRun ==
  ~panic =>
    /\ sCloseLock # NoOne => ENABLED SocketRuns(sCloseLock)
    /\ closeLock # NoOne =>
         sCloseLock # NoOne \/ ENABLED (RunStep(closeLock) \/ SocketWaits(closeLock))

===============================================================================
