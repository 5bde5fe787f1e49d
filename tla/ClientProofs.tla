----------------------------- MODULE ClientProofs -----------------------------
(***************************************************************************)
(* Proofs about the close of a client, for any number of channels and of   *)
(* goroutines that connect, close and drop channels.                       *)
(*                                                                         *)
(* The client's Close and the one of its socket are instances of the same  *)
(* protocol: each step of the client is shown to be a step of both, or to  *)
(* leave them alone, and what CloseableObjectProofs proves of the protocol *)
(* then holds of both locks.  ClientInv says how the two are nested and    *)
(* what each goroutine's place implies of the socket.                      *)
(***************************************************************************)
EXTENDS Client, CloseableObjectProofs

SockP == INSTANCE CloseableObjectProofs WITH
  Callers <- Callers \cup Channels, isClosed <- sIsClosed,
  closeLock <- sCloseLock, pc <- sPc, closedRuns <- sClosedRuns

NoSocketYet == {"idle", "connect", "opened", "dial", "dialled"}
OpeningStreams == {"configure", "stream", "attach"}
SocketDone == sIsClosed /\ sClosedRuns = 1

(* Which places each kind of goroutine visits. *)
PlacesInv ==
  /\ at[Main] \in Connecting \cup {"idle", "failing", "failed", "connected"}
  /\ \A g \in Callers \ {Main} :
       at[g] \in {"idle", "test", "drop", "scan", "count", "close", "closing"}
  /\ \A c \in Channels :
       at[c] \in {"idle", "started", "reading", "drop", "scan", "closing", "gone"}

(* Inside Close, of the client or of the socket, a goroutine stands where it
   called it, and the socket's Close is called from the client's OnClosing
   or by a reader. *)
CallsInv ==
  /\ pc[Main] # "idle" => at[Main] = "failing"
  /\ \A g \in Callers \ {Main} : pc[g] # "idle" => at[g] = "closing"
  /\ \A g \in Callers : sPc[g] # "idle" => pc[g] = "closing" /\ part = "wait"
  /\ \A c \in Channels : sPc[c] # "idle" => at[c] = "closing"
  /\ \A g \in Callers : pc[g] = "closing" => part # "none"
  /\ part # "none" => closeLock \in Callers /\ pc[closeLock] = "closing"

(* How far ClientConnect has come, and what nobody can have done before. *)
ConnectInv ==
  /\ handler
  /\ at[Main] = "idle" => ~clientSet /\ \A g \in Callers : at[g] = "idle"
  /\ at[Main] \in NoSocketYet =>
       /\ ~socketSet /\ next = 0 /\ ~sIsClosed
       /\ \A g \in Callers : sPc[g] = "idle"
  /\ at[Main] \in OpeningStreams /\ ~panic => next < ChannelCount
  /\ at[Main] = "report" /\ socketSet => next = ChannelCount
  /\ at[Main] = "connected" => next = ChannelCount

(* A socket that the client no longer points to, that somebody has closed or
   that all readers have left, is closed. *)
DoneInv ==
  /\ (next > 0 \/ at[Main] \in OpeningStreams) /\ ~socketSet => SocketDone
  /\ \A g \in Callers : pc[g] = "closing" /\ part = "wait" /\ sPc[g] = "idle" => SocketDone
  /\ \A c \in Channels : at[c] = "closing" /\ sPc[c] = "idle" => SocketDone
  /\ sIsClosed => slots = {}

(* The readers of the channels below next run, and one that has dropped its
   channel leaves it out of the table. *)
ReadersInv ==
  /\ \A c \in Channels : next <= c => at[c] = "idle"
  /\ \A c \in Channels : c < next /\ ~panic => at[c] # "idle"
  /\ \A c \in Channels : at[c] \in {"scan", "closing", "gone"} => c \notin slots
  /\ (\A c \in Channels : at[c] = "gone") => sIsClosed

(* The UDP socket that is open and not NetConn: ConnectToNet will take it, or
   Connect, or the proxy's agent, has failed and left it behind, and there is
   no socket. *)
LostInv ==
  /\ at[Main] \in {"dial", "dialled"} \/ socketSet => netConn
  /\ udp = "open" /\ ~netConn => at[Main] \in {"opened", "failed", "report"}

(* What a close that began with a socket in place has released. *)
ReleaseInv ==
  /\ LostInv
  /\ ~early /\ (isClosed \/ closeLock # NoOne) => at[Main] \notin NoSocketYet
  /\ ~early /\ isClosed /\ netConn => udp # "open"
  /\ ~early /\ (isClosed \/ part = "net") => ~socketSet

NestInv == PlacesInv /\ CallsInv /\ ConnectInv /\ DoneInv /\ ReadersInv /\ ReleaseInv

ClientInv == ClientTypeOK /\ IInv /\ SockP!IInv /\ NestInv

-------------------------------------------------------------------------------

(* Goroutines, readers and the free mutex are told apart. *)
LEMMA NamesDiffer ==
  /\ NoOne \notin Callers \cup Channels
  /\ Main \in Callers /\ Droppers \subseteq Callers
  /\ \A g \in Callers : g \notin Channels
  /\ ChannelCount \in Nat /\ ChannelCount > 0
  /\ \A c \in Channels : c \in Nat /\ c < ChannelCount
  /\ \A n \in Nat : n < ChannelCount => n \in Channels
BY NoOneIsNotACaller, MainIsACaller, ChannelsAsked DEF Channels

(* A step of the client is a step of its close protocol or none. *)
LEMMA NextIsCloseStep == ClientNext => [Next]_vars
<1> SUFFICES ASSUME ClientNext PROVE [Next]_vars
  OBVIOUS
<1> USE NamesDiffer
<1>1. CASE Connect
  BY <1>1 DEF Connect, NewClient, NewUdpSocketClient, NoConnection, ConnectCloses,
     ConnectReturns, ResolveFails, SetNetConn, DialFails, DialSucceeds, NewSocket, Configure,
     StreamOpens, StartReader, Report, Next
<1>2. ASSUME NEW g \in Callers, TestClient(g) \/ LockStep(g) \/ RunStep(g) PROVE [Next]_vars
  BY <1>2 DEF TestClient, LockStep, RunStep, OnClosing, CloseAgain, Exported, ClientClose,
     ClientReturns, CloseChannelTest, TestSocket, CountChannels, CloseChannel, CloseSocket,
     ForgetSocket, CloseNetConn, OnClosed, Next, Step
<1>3. ASSUME NEW c \in Channels, Reader(c) \/ StreamEnds(c) PROVE [Next]_vars
  BY <1>3 DEF Reader, StreamEnds, ReaderBegins, ReaderDrops, ReaderScans, ReaderReturns
<1>4. ASSUME NEW g \in Callers \cup Channels, SocketWaits(g) \/ SocketRuns(g)
      PROVE  [Next]_vars
  BY <1>4 DEF SocketWaits, SocketRuns, SocketCloses, SocketTells
<1>5. QED
  BY <1>1, <1>2, <1>3, <1>4 DEF ClientNext

(* And a step of its socket's, or none. *)
LEMMA NextIsSocketStep == ClientTypeOK /\ ClientNext => [Sock!Next]_(Sock!vars)
<1> SUFFICES ASSUME ClientTypeOK, ClientNext PROVE [Sock!Next]_(Sock!vars)
  OBVIOUS
<1> USE NamesDiffer DEF Sock!vars, socketVars
<1>0. UNCHANGED vars => UNCHANGED handler
  BY DEF vars
<1>1. CASE Connect
  BY <1>1, <1>0 DEF Connect, NewClient, NewUdpSocketClient, NoConnection, ConnectCloses,
     ConnectReturns, ResolveFails, SetNetConn, DialFails, DialSucceeds, NewSocket, Configure,
     StreamOpens, StartReader, Report, Call
<1>2. ASSUME NEW g \in Callers, TestClient(g) \/ LockStep(g) \/ RunStep(g)
      PROVE  [Sock!Next]_(Sock!vars)
  BY <1>2, <1>0 DEF TestClient, LockStep, RunStep, OnClosing, CloseAgain, Exported, ClientClose,
     ClientReturns, CloseChannelTest, TestSocket, CountChannels, CloseChannel, CloseSocket,
     ForgetSocket, CloseNetConn, OnClosed, Call, Begin, Skip, Agree, Finish, Sock!Next
<1>3. ASSUME NEW c \in Channels, Reader(c) \/ StreamEnds(c) PROVE [Sock!Next]_(Sock!vars)
  BY <1>3, <1>0 DEF Reader, StreamEnds, ReaderBegins, ReaderDrops, ReaderScans, ReaderReturns,
     Sock!Next
<1>4. ASSUME NEW g \in Callers \cup Channels, SocketWaits(g) \/ SocketRuns(g)
      PROVE  [Sock!Next]_(Sock!vars)
  BY <1>4, <1>0 DEF SocketWaits, SocketRuns, SocketCloses, SocketTells, Sock!Next, Sock!Step
<1>5. QED
  BY <1>1, <1>2, <1>3, <1>4 DEF ClientNext

(* The socket's lock obeys the invariant of the protocol. *)
LEMMA SocketProtocol ==
  /\ SockP!IInv /\ [Sock!Next]_(Sock!vars) => SockP!IInv'
  /\ Sock!Init => SockP!IInv
<1>1. [Sock!Next]_(Sock!vars) => [SockP!Next]_(SockP!vars)
  BY DEF Sock!Next, SockP!Next, Sock!vars, SockP!vars, Sock!SetOnCloseHandler,
     SockP!SetOnCloseHandler, Sock!Call, SockP!Call, Sock!Step, SockP!Step, Sock!Skip, SockP!Skip,
     Sock!Begin, SockP!Begin, Sock!Agree, SockP!Agree, Sock!Refuse, SockP!Refuse, Sock!Finish,
     SockP!Finish
<1>2. Sock!Init => SockP!Init
  BY DEF Sock!Init, SockP!Init
<1>3. QED
  BY <1>1, <1>2, NamesDiffer, SockP!NextIInv, SockP!InitIInv

(* ClientConnect. *)
LEMMA ConnectKeeps ==
  ASSUME ClientInv, ~panic, IInv', SockP!IInv', Connect
  PROVE  NestInv'
<1> USE NamesDiffer
        DEF Goes, Needs, vars, socketVars, ClientInv, ClientTypeOK, TypeOK, Places, Spots,
            Connecting, NestInv, PlacesInv, CallsInv, ConnectInv, DoneInv, ReadersInv,
            ReleaseInv, LostInv, netVars, NoSocketYet, OpeningStreams, SocketDone, IInv,
            LockMatchesPlaces, Holding, SockP!IInv, SockP!TypeOK, SockP!ClosedRunsMatch
<1>1. CASE NewClient
  BY <1>1 DEF NewClient
<1>2. CASE NoConnection
  <2>1. /\ at[Main] \in {"connect", "opened"} /\ at' = [at EXCEPT ![Main] = "report"]
        /\ UNCHANGED <<vars, socketVars, clientSet, socketSet, way, netVars, slots, next, part,
                       panic, early>>
    BY <1>2 DEF NoConnection
  <2>2. QED
    BY <2>1
<1>3. CASE ConnectCloses
  BY <1>3 DEF ConnectCloses, Call
<1>4. CASE ConnectReturns
  BY <1>4 DEF ConnectReturns
<1>5. CASE SetNetConn
  BY <1>5 DEF SetNetConn
<1>6. CASE DialFails
  BY <1>6 DEF DialFails
<1>7. CASE DialSucceeds
  BY <1>7 DEF DialSucceeds
<1>8. CASE NewSocket
  BY <1>8 DEF NewSocket
<1>9. CASE Configure
  BY <1>9 DEF Configure
<1>10. CASE StreamOpens
  BY <1>10 DEF StreamOpens
<1>11. CASE StartReader
  BY <1>11 DEF StartReader
<1>12. CASE Report
  <2>1. /\ at[Main] = "report"
        /\ UNCHANGED <<vars, socketVars, clientSet, socketSet, way, netVars, slots, next, part,
                       early>>
    BY <1>12 DEF Report
  <2>2. CASE clientSet /\ socketSet
    <3>1. at' = [at EXCEPT ![Main] = "connected"] /\ ~panic'
      BY <2>2, <1>12 DEF Report
    <3>2. QED
      BY <2>1, <2>2, <3>1
  <2>3. CASE ~(clientSet /\ socketSet)
    <3>1. at' = at /\ panic'
      BY <2>3, <1>12 DEF Report
    <3>2. QED
      BY <2>1, <3>1
  <2>4. QED
    BY <2>2, <2>3
<1>13. CASE NewUdpSocketClient
  BY <1>13 DEF NewUdpSocketClient
<1>14. CASE ResolveFails
  BY <1>14 DEF ResolveFails
<1> HIDE DEF NestInv, ClientInv, IInv, SockP!IInv
<1>15. QED
  BY <1>1, <1>2, <1>3, <1>4, <1>5, <1>6, <1>7, <1>8, <1>9, <1>10, <1>11, <1>12, <1>13, <1>14,
     Zenon DEF Connect

(* ClientClose and ClientChannelClose. *)
LEMMA ExportedKeeps ==
  ASSUME ClientInv, ~panic, IInv', SockP!IInv',
         NEW g \in Callers, TestClient(g) \/ Exported(g)
  PROVE  NestInv'
<1> USE NamesDiffer
        DEF Goes, Needs, vars, socketVars, ClientInv, ClientTypeOK, TypeOK, Places, Spots,
            Connecting, NestInv, PlacesInv, CallsInv, ConnectInv, DoneInv, ReadersInv,
            ReleaseInv, LostInv, netVars, NoSocketYet, OpeningStreams, SocketDone, IInv,
            LockMatchesPlaces, Holding, SockP!IInv, SockP!TypeOK, SockP!ClosedRunsMatch
<1>1. CASE TestClient(g)
  BY <1>1 DEF TestClient
<1>2. CASE ClientClose(g)
  <2>1. g # Main
    BY <1>2 DEF ClientClose
  <2>2. CASE clientSet
    <3>1. /\ pc[g] = "idle" /\ pc' = [pc EXCEPT ![g] = "waiting"]
          /\ at[g] = "close" /\ at' = [at EXCEPT ![g] = "closing"]
      BY <1>2, <2>2 DEF ClientClose, Call
    <3>2. UNCHANGED <<isClosed, closeLock, handler, closedRuns, sIsClosed, sCloseLock, sPc,
                      sClosedRuns, clientSet, socketSet, way, netVars, slots, next, part, panic,
                      early>>
      BY <1>2, <2>2 DEF ClientClose, Call
    <3>3. QED
      BY <2>1, <3>1, <3>2
  <2>3. CASE ~clientSet
    BY <1>2, <2>3 DEF ClientClose
  <2>4. QED
    BY <2>2, <2>3
<1>3. CASE ClientReturns(g)
  BY <1>3 DEF ClientReturns
<1>4. CASE CloseChannelTest(g)
  BY <1>4 DEF CloseChannelTest
<1>5. CASE TestSocket(g)
  BY <1>5 DEF TestSocket
<1>6. CASE CountChannels(g)
  BY <1>6 DEF CountChannels
<1>7. CASE \E c \in Channels : CloseChannel(g, c)
  BY <1>7 DEF CloseChannel
<1>8. QED
  BY <1>1, <1>2, <1>3, <1>4, <1>5, <1>6, <1>7 DEF Exported

(* The client's Close. *)
LEMMA ClosingKeeps ==
  ASSUME ClientInv, ~panic, IInv', SockP!IInv',
         NEW g \in Callers, LockStep(g) \/ RunStep(g), ~Exported(g)
  PROVE  NestInv'
<1> USE NamesDiffer
        DEF Goes, Needs, vars, socketVars, ClientInv, ClientTypeOK, TypeOK, Places, Spots,
            Connecting, NestInv, PlacesInv, CallsInv, ConnectInv, DoneInv, ReadersInv,
            ReleaseInv, LostInv, netVars, NoSocketYet, OpeningStreams, SocketDone, IInv,
            LockMatchesPlaces, Holding, SockP!IInv, SockP!TypeOK, SockP!ClosedRunsMatch
<1>1. CASE OnClosing(g)
  <2>1. PlacesInv'
    BY <1>1 DEF OnClosing, Begin
  <2>2. CallsInv'
    BY <1>1 DEF OnClosing, Begin
  <2>3. ConnectInv'
    BY <1>1 DEF OnClosing, Begin
  <2>4. DoneInv'
    BY <1>1 DEF OnClosing, Begin
  <2>5. ReadersInv'
    BY <1>1 DEF OnClosing, Begin
  <2>6. ReleaseInv'
    BY <1>1 DEF OnClosing, Begin
  <2>7. QED
    BY <2>1, <2>2, <2>3, <2>4, <2>5, <2>6 DEF NestInv
<1>2. CASE CloseAgain(g)
  BY <1>2 DEF CloseAgain, Skip
<1>3. CASE CloseSocket(g)
  BY <1>3 DEF CloseSocket, Sock!Call
<1>4. CASE ForgetSocket(g)
  BY <1>4 DEF ForgetSocket
<1>5. CASE CloseNetConn(g)
  BY <1>5 DEF CloseNetConn, Agree
<1>6. CASE OnClosed(g)
  BY <1>6 DEF OnClosed, Finish
<1>7. QED
  BY <1>1, <1>2, <1>3, <1>4, <1>5, <1>6 DEF LockStep, RunStep

(* The readers. *)
LEMMA ReaderKeeps ==
  ASSUME ClientInv, ~panic, IInv', SockP!IInv',
         NEW c \in Channels, Reader(c) \/ StreamEnds(c)
  PROVE  NestInv'
<1> USE NamesDiffer
        DEF Goes, Needs, vars, socketVars, ClientInv, ClientTypeOK, TypeOK, Places, Spots,
            Connecting, NestInv, PlacesInv, CallsInv, ConnectInv, DoneInv, ReadersInv,
            ReleaseInv, LostInv, netVars, NoSocketYet, OpeningStreams, SocketDone, IInv,
            LockMatchesPlaces, Holding, SockP!IInv, SockP!TypeOK, SockP!ClosedRunsMatch
<1>1. CASE ReaderBegins(c)
  BY <1>1 DEF ReaderBegins
<1>2. CASE StreamEnds(c)
  BY <1>2 DEF StreamEnds
<1>3. CASE ReaderDrops(c)
  BY <1>3 DEF ReaderDrops
<1>4. CASE ReaderScans(c)
  BY <1>4 DEF ReaderScans, Sock!Call
<1>5. CASE ReaderReturns(c)
  BY <1>5 DEF ReaderReturns
<1>6. QED
  BY <1>1, <1>2, <1>3, <1>4, <1>5 DEF Reader

(* The socket's Close. *)
LEMMA SocketKeeps ==
  ASSUME ClientInv, ~panic, IInv', SockP!IInv',
         NEW g \in Callers \cup Channels, SocketWaits(g) \/ SocketRuns(g)
  PROVE  NestInv'
<1> USE NamesDiffer
        DEF Goes, Needs, vars, socketVars, ClientInv, ClientTypeOK, TypeOK, Places, Spots,
            Connecting, NestInv, PlacesInv, CallsInv, ConnectInv, DoneInv, ReadersInv,
            ReleaseInv, LostInv, netVars, NoSocketYet, OpeningStreams, SocketDone, IInv,
            LockMatchesPlaces, Holding, SockP!IInv, SockP!TypeOK, SockP!ClosedRunsMatch
<1>1. CASE SocketWaits(g) /\ Sock!Skip(g)
  BY <1>1 DEF SocketWaits, Sock!Skip
<1>2. CASE SocketWaits(g) /\ Sock!Begin(g)
  BY <1>2 DEF SocketWaits, Sock!Begin
<1>3. CASE SocketCloses(g)
  BY <1>3 DEF SocketCloses, Sock!Agree
<1>4. CASE SocketTells(g)
  BY <1>4 DEF SocketTells, Sock!Finish
<1>5. QED
  BY <1>1, <1>2, <1>3, <1>4 DEF SocketWaits, SocketRuns

-------------------------------------------------------------------------------

(* The types that are not the two protocols'. *)
OtherTypes ==
  /\ clientSet \in BOOLEAN /\ socketSet \in BOOLEAN
  /\ way \in {"direct", "proxy", "ice"}
  /\ netConn \in BOOLEAN /\ udp \in {"none", "open", "closed"}
  /\ slots \subseteq Channels
  /\ next \in 0 .. ChannelCount
  /\ part \in {"none", "socket", "wait", "net"}
  /\ panic \in BOOLEAN /\ early \in BOOLEAN

OwnTypes == at \in [Callers \cup Channels -> Spots] /\ OtherTypes

(* The protocols' types come with their invariants. *)
LEMMA TypesSplit == IInv /\ SockP!IInv => (ClientTypeOK <=> OwnTypes)
  BY DEF IInv, SockP!IInv, SockP!TypeOK, SockP!Places, Places, ClientTypeOK, OwnTypes, OtherTypes

(* The places that the actions name. *)
LEMMA SpotNames ==
  /\ "connect" \in Spots /\ "opened" \in Spots /\ "dial" \in Spots /\ "dialled" \in Spots
  /\ "configure" \in Spots
  /\ "stream" \in Spots /\ "attach" \in Spots /\ "report" \in Spots /\ "idle" \in Spots
  /\ "failing" \in Spots /\ "failed" \in Spots /\ "connected" \in Spots /\ "started" \in Spots
  /\ "reading" \in Spots /\ "drop" \in Spots /\ "scan" \in Spots /\ "closing" \in Spots
  /\ "gone" \in Spots /\ "test" \in Spots /\ "close" \in Spots /\ "count" \in Spots
  BY DEF Spots, Connecting

(* Every step keeps them. *)
LEMMA TypesKept == ClientInv /\ ClientNext => OwnTypes'
<1> SUFFICES ASSUME ClientInv, ~panic, ClientNext PROVE OwnTypes'
  BY DEF ClientNext
<1>0. OwnTypes
  BY TypesSplit DEF ClientInv
<1>1. next < ChannelCount \/ at[Main] # "attach"
  BY DEF ClientInv, NestInv, ConnectInv, OpeningStreams
<1> USE DEF Goes, Needs
<1>2. at' \in [Callers \cup Channels -> Spots]
  <2> USE NamesDiffer, SpotNames, <1>0 DEF OwnTypes
  <2>1. CASE Connect
    BY <2>1 DEF Connect, NewClient, NewUdpSocketClient, NoConnection, ConnectCloses,
     ConnectReturns, ResolveFails, SetNetConn, DialFails, DialSucceeds, NewSocket, Configure,
     StreamOpens, StartReader, Report
  <2>2. ASSUME NEW g \in Callers, TestClient(g) \/ LockStep(g) \/ RunStep(g)
        PROVE  at' \in [Callers \cup Channels -> Spots]
    BY <2>2 DEF TestClient, LockStep, RunStep, OnClosing, CloseAgain, Exported, ClientClose,
       ClientReturns, CloseChannelTest, TestSocket, CountChannels, CloseChannel, CloseSocket,
       ForgetSocket, CloseNetConn, OnClosed
  <2>3. ASSUME NEW c \in Channels, Reader(c) \/ StreamEnds(c)
        PROVE  at' \in [Callers \cup Channels -> Spots]
    BY <2>3 DEF Reader, StreamEnds, ReaderBegins, ReaderDrops, ReaderScans, ReaderReturns
  <2>4. ASSUME NEW g \in Callers \cup Channels, SocketWaits(g) \/ SocketRuns(g)
        PROVE  at' \in [Callers \cup Channels -> Spots]
    BY <2>4 DEF SocketWaits, SocketRuns, SocketCloses, SocketTells
  <2>5. QED
    BY <2>1, <2>2, <2>3, <2>4 DEF ClientNext
<1>3. OtherTypes'
  <2>0. OtherTypes
    BY <1>0 DEF OwnTypes
  <2> USE <2>0 DEF OtherTypes, netVars
  <2>1. CASE Connect
    <3>1. CASE StartReader
      <4>1. next' = next + 1 /\ next < ChannelCount /\ panic' \in BOOLEAN
        BY <1>1, <3>1 DEF StartReader
      <4>2. UNCHANGED <<clientSet, socketSet, way, netVars, slots, part, early>>
        BY <3>1 DEF StartReader
      <4>3. QED
        BY <4>1, <4>2, NamesDiffer
    <3>2. CASE NewClient \/ NewUdpSocketClient \/ SetNetConn \/ NewSocket
      BY <3>2, NamesDiffer DEF NewClient, NewUdpSocketClient, SetNetConn, NewSocket
    <3>3. CASE NoConnection \/ ConnectCloses \/ ConnectReturns \/ ResolveFails \/ DialFails
               \/ DialSucceeds
      BY <3>3 DEF NoConnection, ConnectCloses, ConnectReturns, ResolveFails, DialFails,
         DialSucceeds
    <3>4. CASE Configure \/ StreamOpens \/ Report
      BY <3>4 DEF Configure, StreamOpens, Report
    <3> HIDE <2>0
    <3> HIDE DEF OtherTypes
    <3>5. QED
      BY <2>1, <3>1, <3>2, <3>3, <3>4 DEF Connect
  <2>2. ASSUME NEW g \in Callers, TestClient(g) \/ LockStep(g) \/ RunStep(g) PROVE OtherTypes'
    <3>1. CASE TestClient(g) \/ LockStep(g)
      BY <3>1 DEF TestClient, LockStep, OnClosing, CloseAgain
    <3>2. CASE Exported(g)
      <4>1. CASE ClientClose(g) \/ ClientReturns(g) \/ CloseChannelTest(g)
        <5>1. CASE ClientClose(g)
          BY <5>1 DEF ClientClose
        <5>2. CASE ClientReturns(g)
          BY <5>2 DEF ClientReturns
        <5>3. CASE CloseChannelTest(g)
          BY <5>3 DEF CloseChannelTest
        <5>4. QED
          BY <4>1, <5>1, <5>2, <5>3
      <4>2. CASE TestSocket(g) \/ CountChannels(g)
        BY <4>2 DEF TestSocket, CountChannels
      <4>3. CASE \E c \in Channels : CloseChannel(g, c)
        BY <4>3 DEF CloseChannel
      <4>4. QED
        BY <3>2, <4>1, <4>2, <4>3 DEF Exported
    <3>3. CASE CloseSocket(g) \/ ForgetSocket(g)
      BY <3>3 DEF CloseSocket, ForgetSocket
    <3>4. CASE CloseNetConn(g) \/ OnClosed(g)
      BY <3>4 DEF CloseNetConn, OnClosed
    <3>5. QED
      BY <2>2, <3>1, <3>2, <3>3, <3>4 DEF RunStep
  <2>3. ASSUME NEW c \in Channels, Reader(c) \/ StreamEnds(c) PROVE OtherTypes'
    BY <2>3 DEF Reader, StreamEnds, ReaderBegins, ReaderDrops, ReaderScans, ReaderReturns
  <2>4. ASSUME NEW g \in Callers \cup Channels, SocketWaits(g) \/ SocketRuns(g)
        PROVE  OtherTypes'
    BY <2>4 DEF SocketWaits, SocketRuns, SocketCloses, SocketTells
  <2>5. QED
    BY <2>1, <2>2, <2>3, <2>4 DEF ClientNext
<1>4. QED
  BY <1>2, <1>3 DEF OwnTypes

(* A new client satisfies the invariant. *)
LEMMA InitClientInv == ClientInit => ClientInv
<1> SUFFICES ASSUME ClientInit PROVE ClientInv
  OBVIOUS
<1> USE NamesDiffer DEF ClientInit, Init
<1>1. IInv
  BY InitIInv
<1>2. SockP!IInv
  BY SocketProtocol DEF Sock!Init
<1>3. ClientTypeOK
  <2>1. OtherTypes
    <3>1. next \in 0 .. ChannelCount
      OBVIOUS
    <3>2. QED
      BY <3>1 DEF OtherTypes
  <2>2. at \in [Callers \cup Channels -> Spots]
    BY SpotNames
  <2>3. QED
    BY <1>1, <1>2, <2>1, <2>2, TypesSplit DEF OwnTypes
<1>4. NestInv
  BY DEF NestInv, PlacesInv, CallsInv, ConnectInv, DoneInv, ReadersInv, ReleaseInv, LostInv,
     NoSocketYet, OpeningStreams, Connecting
<1>5. QED
  BY <1>1, <1>2, <1>3, <1>4 DEF ClientInv

(* Every step of the client keeps the invariant. *)
LEMMA NextClientInv == ClientInv /\ [ClientNext]_clientVars => ClientInv'
<1> SUFFICES ASSUME ClientInv, [ClientNext]_clientVars PROVE ClientInv'
  OBVIOUS
<1>1. CASE ClientNext
  <2>1. IInv'
    BY <1>1, NextIsCloseStep, NextIInv DEF ClientInv
  <2>2. SockP!IInv'
    BY <1>1, NextIsSocketStep, SocketProtocol DEF ClientInv
  <2>3. NestInv'
    <3>1. ~panic
      BY <1>1 DEF ClientNext
    <3>2. CASE Connect
      BY <2>1, <2>2, <3>1, <3>2, ConnectKeeps
    <3>3. ASSUME NEW g \in Callers, TestClient(g) \/ LockStep(g) \/ RunStep(g)
          PROVE  NestInv'
      BY <2>1, <2>2, <3>1, <3>3, ExportedKeeps, ClosingKeeps
    <3>4. ASSUME NEW c \in Channels, Reader(c) \/ StreamEnds(c)
          PROVE  NestInv'
      BY <2>1, <2>2, <3>1, <3>4, ReaderKeeps
    <3>5. ASSUME NEW g \in Callers \cup Channels, SocketWaits(g) \/ SocketRuns(g)
          PROVE  NestInv'
      BY <2>1, <2>2, <3>1, <3>5, SocketKeeps
    <3>6. QED
      BY <1>1, <3>2, <3>3, <3>4, <3>5 DEF ClientNext
  <2>4. ClientTypeOK'
    BY <1>1, <2>1, <2>2, TypesKept DEF IInv, SockP!IInv, SockP!TypeOK, SockP!Places, Places,
       ClientTypeOK, OwnTypes, OtherTypes
  <2>5. QED
    BY <2>1, <2>2, <2>3, <2>4 DEF ClientInv
<1>2. CASE UNCHANGED clientVars
  BY <1>2 DEF clientVars, vars, socketVars, netVars, ClientInv, ClientTypeOK, TypeOK, IInv,
     LockMatchesPlaces, ClosedRunsMatch, SockP!IInv, SockP!TypeOK, SockP!LockMatchesPlaces,
     SockP!ClosedRunsMatch, NestInv, PlacesInv, CallsInv, ConnectInv, DoneInv, ReadersInv,
     ReleaseInv, LostInv, SocketDone
<1>3. QED
  BY <1>1, <1>2

(* The inductive invariant: how the two closes are nested, and what each
   goroutine's place implies of the socket. *)
THEOREM ClientInvariance == ClientSpec => []ClientInv
  BY InitClientInv, NextClientInv, PTL DEF ClientSpec

(* Type correctness. *)
THEOREM ClientTypes == ClientSpec => []ClientTypeOK
  BY ClientInvariance, PTL DEF ClientInv

(* On whatever path the client came to be closed, NetConn and its socket are
   closed and it points to no socket, unless the close began while
   ConnectToNet had no socket yet (client.go:53).  A UDP socket that is still
   open never was NetConn: Connect or the proxy's agent failed behind it. *)
THEOREM ClientReleases == ClientSpec => []ReleasedOnClose
<1>1. ClientInv => ReleasedOnClose
  BY DEF ClientInv, NestInv, ReleaseInv, LostInv, DoneInv, SocketDone, NoSocketYet,
     ReleasedOnClose
<1>2. QED
  BY <1>1, ClientInvariance, PTL

(* When all readers have left, one of them or the application has closed the
   socket and it was told, once (socket.go's CloseChannel and the readers). *)
THEOREM ClientLastChannelCloses == ClientSpec => []LastChannelCloses
<1>1. ASSUME ClientInv, at[Main] = "connected",
             \A g \in Callers \cup Channels : at[g] \in Resting, ~panic
      PROVE  sIsClosed /\ sClosedRuns = 1
  <2> USE NamesDiffer, <1>1 DEF ClientInv, NestInv, Resting
  <2>1. \A c \in Channels : at[c] = "gone"
    BY DEF PlacesInv, ConnectInv, ReadersInv
  <2>2. sIsClosed
    BY <2>1 DEF ReadersInv
  <2>3. \A g \in Callers \cup Channels : sPc[g] = "idle"
    BY <2>1 DEF CallsInv, ClientTypeOK, TypeOK
  <2>4. sCloseLock = NoOne
    BY <2>3 DEF SockP!IInv, SockP!TypeOK, SockP!LockMatchesPlaces, SockP!Holding
  <2>5. QED
    BY <2>2, <2>4 DEF SockP!IInv, SockP!ClosedRunsMatch
<1>2. ClientInv => LastChannelCloses
  BY <1>1 DEF LastChannelCloses
<1>3. QED
  BY <1>2, ClientInvariance, PTL

(* The client closes by the protocol of CloseableObject, *)
THEOREM ClientImplementsProtocol == ClientSpec => Spec
<1>1. ClientInit => Init
  BY DEF ClientInit
<1>2. [ClientNext]_clientVars => [Next]_vars
  BY NextIsCloseStep DEF clientVars
<1>3. QED
  BY <1>1, <1>2, PTL DEF ClientSpec, Spec

(* and so does the socket its OnClosing and its readers close. *)
THEOREM ClientSocketImplementsProtocol == ClientSpec => Sock!Spec
<1>1. ClientInit => Sock!Init
  BY DEF ClientInit, Init, Sock!Init
<1>2. ClientInv /\ [ClientNext]_clientVars => [Sock!Next]_(Sock!vars)
  BY NextIsSocketStep DEF clientVars, vars, socketVars, Sock!vars, ClientInv
<1>3. QED
  BY <1>1, <1>2, ClientInvariance, PTL DEF ClientSpec, Sock!Spec

(* The client's OnClosed runs once, and has run when its lock is free on a
   closed client. *)
THEOREM ClientClosesOnce == ClientSpec => []ClosedOnce
  BY ClientImplementsProtocol, ClosesOnce, PTL

(* ClientClose and ClientChannelClose return from Close with the client
   closed: nobody but the caller of a refused close sees it open, and the
   client's OnClosing never refuses. *)
THEOREM ClientReturnsClosed == ClientSpec => ReturnMeansClosed
  BY ClientImplementsProtocol, ReturnsClosed, PTL

(* The two locks are taken in one order: who holds the socket's is in its
   callbacks, which wait for nobody, and if it is not a reader it has the
   client's lock already.  So who waits for the socket's lock while holding
   the client's waits for someone that can go on (client.go:55). *)
LocksNest ==
  /\ \A g \in Callers \cup Channels :
       sCloseLock = g => sPc[g] \in Holding /\ (g \in Callers => closeLock = g)
  /\ \A g \in Callers : closeLock = g => pc[g] \in Holding

THEOREM ClientLocksNest == ClientSpec => []LocksNest
<1>1. ClientInv => LocksNest
  BY NamesDiffer DEF ClientInv, NestInv, CallsInv, IInv, LockMatchesPlaces, Holding, LocksNest,
     SockP!IInv, SockP!LockMatchesPlaces, SockP!Holding
<1>2. QED
  BY <1>1, ClientInvariance, PTL

===============================================================================
