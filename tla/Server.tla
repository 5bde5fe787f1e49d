-------------------------------- MODULE Server --------------------------------
(***************************************************************************)
(* server/server.go: the table of sockets by client id, and the goroutines *)
(* that share it:                                                          *)
(*                                                                         *)
(*   - the listener, which accepts connections until the server is closed; *)
(*   - processStream, one per accepted stream: it finds or creates the     *)
(*     socket of the client and attaches the stream to it;                 *)
(*   - Closers, each a call of CloseSocket (exports ServerSocketClose);    *)
(*   - the reader of a socket's last channel, which closes the socket;     *)
(*   - Main, which closes the server.                                      *)
(*                                                                         *)
(* processStream and CloseSocket edit the table under lock; the OnDisconnect*)
(* callback of a socket, the loop of OnClosing and the look-up after Unlock*)
(* use it without.  The Go map is read and written atomically here.        *)
(*                                                                         *)
(* A socket is what module Socket makes of it: Close takes its closeLock,  *)
(* OnClosing empties StreamChannels, then IsClosed is set and OnClosed     *)
(* calls OnDisconnect, still under closeLock.                              *)
(***************************************************************************)
EXTENDS Naturals

CONSTANTS Ids,       \* client ids
          Indexes,   \* channel numbers of a socket
          Streams,   \* bound: the streams the clients open
          MaxSockets,\* bound: the sockets the server creates
          Closers, Main,
          NoOne,     \* a mutex nobody holds
          Datagrams  \* Config.EnableDatagrams

Sockets    == 1 .. MaxSockets
Workers    == Streams \cup Closers \cup {Main}
Goroutines == Workers \cup Sockets   \* a socket's last reader is named by the socket
None       == 0                      \* no socket

ASSUME GoroutinesDiffer ==
  /\ MaxSockets \in Nat /\ Workers \cap Sockets = {} /\ Streams \cap Closers = {}
  /\ Main \notin Streams \cup Closers /\ NoOne \notin Goroutines
ASSUME ClientsHaveIds == Ids # {} /\ Indexes # {} /\ Datagrams \in BOOLEAN

VARIABLES
  table, tableNil, \* Sockets[id], and Sockets = nil
  lock,            \* the goroutine holding lock
  sClosed,         \* IsClosed of the server
  listener, lpc,   \* listener # nil, and where StartListen is
  connected,       \* a connection has been accepted
  phase,           \* of each socket: "none", "open", "swept" by OnClosing, "closed"
  owner,           \* its Id
  closeLock,       \* the goroutine holding its closeLock
  attached,        \* its channels that got a stream
  pc, at, arg,     \* where a goroutine is, the socket and the id it deals with
  must, visited,   \* the keys the range of OnClosing has to visit, and has visited
  accepted, ended, \* calls of OnAcceptSocket and onDisconnect for a socket (history)
  overlap,         \* it was created before an earlier socket of its client had ended,
                   \* or while the server was being closed (history)
  early,           \* it got a stream before the application was told of it (history)
  panic            \* "none", or what the process died of

tableVars  == <<table, tableNil>>
listenVars == <<listener, lpc, connected>>
socketVars == <<phase, owner, closeLock, attached, overlap>>
closeVars  == <<must, visited, sClosed>>
toldVars   == <<accepted, ended, early>>
vars == <<tableVars, lock, listenVars, socketVars, pc, at, arg, closeVars, toldVars, panic>>

(* The server listens and no client has come. *)
Init ==
  /\ table = [i \in Ids |-> None] /\ tableNil = FALSE
  /\ lock = NoOne /\ sClosed = FALSE
  /\ listener = TRUE /\ lpc = "load" /\ connected = FALSE
  /\ phase = [n \in Sockets |-> "none"]
  /\ owner \in [Sockets -> {CHOOSE i \in Ids : TRUE}]
  /\ closeLock = [n \in Sockets |-> NoOne]
  /\ attached = [n \in Sockets |-> {}]
  /\ pc = [g \in Goroutines |-> "idle"]
  /\ at = [g \in Goroutines |-> None]
  /\ arg \in [Workers -> {CHOOSE i \in Ids : TRUE}]
  /\ must = {} /\ visited = {}
  /\ accepted = [n \in Sockets |-> 0] /\ ended = [n \in Sockets |-> 0]
  /\ overlap = [n \in Sockets |-> FALSE] /\ early = [n \in Sockets |-> FALSE]
  /\ panic = "none"

Goes(g, from, to) == pc[g] = from /\ pc' = [pc EXCEPT ![g] = to]
Dies(g, from, why) == pc[g] = from /\ panic' = why /\ UNCHANGED pc

-------------------------------------------------------------------------------
(* StartListen, from the loop on.                                          *)

ListenGoes(from, to) == lpc = from /\ lpc' = to

ListenVarsButPc == <<listener, connected>>
Elsewhere == <<tableVars, lock, socketVars, pc, at, arg, closeVars, toldVars>>

(* s.listener was found to be there and is loaded again for Accept. *)
ListenLoad ==
  /\ IF listener THEN ListenGoes("load", "accept") /\ UNCHANGED panic
                 ELSE lpc = "load" /\ panic' = "listener" /\ UNCHANGED lpc
  /\ UNCHANGED <<ListenVarsButPc, Elsewhere>>

(* A connection, for which acceptConnection is started, and round the loop:
   IsClosed, and s.listener # nil. *)
Accept ==
  /\ listener /\ ListenGoes("accept", "load")
  /\ connected' = TRUE
  /\ UNCHANGED <<listener, Elsewhere, panic>>

(* The listener was closed under Accept, or the last connection is dropped. *)
AcceptFails ==
  /\ ~listener /\ ListenGoes("accept", "gone")
  /\ UNCHANGED <<ListenVarsButPc, Elsewhere, panic>>

Listen == ListenLoad \/ Accept \/ AcceptFails

-------------------------------------------------------------------------------
(* acceptConnection and processStream.                                     *)

(* A stream whose StreamInfo is read and valid; others are closed at once. *)
AcceptStream(t, i) ==
  /\ connected /\ Goes(t, "idle", "lock")
  /\ arg' = [arg EXCEPT ![t] = i]
  /\ UNCHANGED <<tableVars, lock, listenVars, socketVars, at, closeVars, toldVars, panic>>

(* Taken before the table is looked at. *)
LockTable(g) == lock = NoOne /\ lock' = g

FindSocket(t) ==
  /\ Goes(t, "lock", "encoder") /\ LockTable(t)
  /\ table[arg[t]] # None
  /\ UNCHANGED <<tableVars, listenVars, socketVars, at, arg, closeVars, toldVars, panic>>

NotEnded(i) ==
  \E n \in Sockets : owner[n] = i /\ (phase[n] \in {"open", "swept"} \/ closeLock[n] # NoOne)

(* NewSocket; the table gets it before the application does. *)
CreateSocket(t) ==
  \E n \in Sockets :
    /\ pc[t] = "lock" /\ LockTable(t)
    /\ phase[n] = "none" /\ \A m \in Sockets : m < n => phase[m] # "none"
    /\ table[arg[t]] = None
    /\ IF tableNil
         THEN Dies(t, "lock", "nil map") /\ UNCHANGED <<table, socketVars, at>>
         ELSE /\ Goes(t, "lock", "announce")
              /\ table' = [table EXCEPT ![arg[t]] = n]
              /\ phase' = [phase EXCEPT ![n] = "open"]
              /\ owner' = [owner EXCEPT ![n] = arg[t]]
              /\ overlap' = [overlap EXCEPT ![n] = NotEnded(arg[t]) \/ pc[Main] # "idle"]
              /\ at' = [at EXCEPT ![t] = n]
              /\ UNCHANGED <<closeLock, attached, panic>>
    /\ UNCHANGED <<tableNil, listenVars, arg, closeVars, toldVars>>

OnAcceptSocket(t) ==
  /\ Goes(t, "announce", "encoder")
  /\ accepted' = [accepted EXCEPT ![at[t]] = @ + 1]
  /\ UNCHANGED <<tableVars, lock, listenVars, socketVars, at, arg, closeVars, ended, early, panic>>

(* With datagrams the channel's Encoder is looked at through the table: the
   socket may be gone from it, or its channels gone from the socket.  Then
   Unlock. *)
UseEncoder(t) ==
  LET n == table[arg[t]]
  IN /\ IF Datagrams /\ (n = None \/ phase[n] # "open")
          THEN Dies(t, "encoder", "nil channel") /\ UNCHANGED lock
          ELSE Goes(t, "encoder", "lookup") /\ lock' = NoOne /\ UNCHANGED panic
     /\ UNCHANGED <<tableVars, listenVars, socketVars, at, arg, closeVars, toldVars>>

(* s.Sockets[info.Id] once more, after Unlock. *)
Lookup(t) ==
  /\ IF table[arg[t]] = None
       THEN Dies(t, "lookup", "nil socket") /\ UNCHANGED at
       ELSE /\ Goes(t, "lookup", "attach") /\ UNCHANGED panic
            /\ at' = [at EXCEPT ![t] = table[arg[t]]]
  /\ UNCHANGED <<tableVars, lock, listenVars, socketVars, arg, closeVars, toldVars>>

(* Mutant: the stream goes to the channel after its own. *)
AttachStreamOffByOne(t, c) ==
  /\ Goes(t, "attach", "gone") /\ phase[at[t]] = "open"
  /\ attached' = [attached EXCEPT ![at[t]] = @ \cup {c + 1}]
  /\ at' = [at EXCEPT ![t] = None]
  /\ UNCHANGED <<tableVars, lock, listenVars, phase, owner, closeLock, overlap, arg,
                 closeVars, toldVars, panic>>

(* HandleChannelStreamData of the socket. *)
AttachStream(t, c) ==
  /\ pc[t] = "attach"
  /\ IF phase[at[t]] = "open"
       THEN /\ Goes(t, "attach", "gone") /\ UNCHANGED panic
            /\ attached' = [attached EXCEPT ![at[t]] = @ \cup {c}]
            /\ early' = [early EXCEPT ![at[t]] = @ \/ accepted[at[t]] = 0]
            /\ at' = [at EXCEPT ![t] = None]
       ELSE Dies(t, "attach", "nil channel") /\ UNCHANGED <<attached, early, at>>
  /\ UNCHANGED <<tableVars, lock, listenVars, phase, owner, closeLock, overlap, arg,
                 closeVars, accepted, ended>>

ProcessStream(t) ==
  \/ OnAcceptSocket(t) \/ UseEncoder(t)
  \/ Lookup(t) \/ \E c \in Indexes : AttachStream(t, c)

-------------------------------------------------------------------------------
(* Close of a socket, by CloseSocket or by the reader of its last channel. *)

(* Every channel got its stream, and the readers have ended. *)
SocketEnds(n) ==
  /\ phase[n] \in {"open", "swept"} /\ attached[n] = Indexes
  /\ Goes(n, "idle", "close")
  /\ at' = [at EXCEPT ![n] = n]
  /\ UNCHANGED <<tableVars, lock, listenVars, socketVars, arg, closeVars, toldVars, panic>>

Returns(g) == IF g \in Sockets THEN "gone" ELSE "remove"

CloseAgain(g) ==
  /\ Goes(g, "close", Returns(g)) /\ closeLock[at[g]] = NoOne /\ phase[at[g]] = "closed"
  /\ at' = [at EXCEPT ![g] = None]
  /\ UNCHANGED <<tableVars, lock, listenVars, socketVars, arg, closeVars, toldVars, panic>>

(* Mutant: IsClosed is not looked at. *)
CloseEnterAgain(g) ==
  /\ Goes(g, "close", "agree") /\ closeLock[at[g]] = NoOne
  /\ closeLock' = [closeLock EXCEPT ![at[g]] = g]
  /\ phase' = [phase EXCEPT ![at[g]] = "swept"]
  /\ UNCHANGED <<tableVars, lock, listenVars, owner, attached, overlap, at, arg,
                 closeVars, toldVars, panic>>

(* closeLock is taken, and OnClosing empties the socket. *)
CloseEnter(g) ==
  /\ Goes(g, "close", "agree") /\ closeLock[at[g]] = NoOne /\ phase[at[g]] # "closed"
  /\ closeLock' = [closeLock EXCEPT ![at[g]] = g]
  /\ phase' = [phase EXCEPT ![at[g]] = "swept"]
  /\ UNCHANGED <<tableVars, lock, listenVars, owner, attached, overlap, at, arg,
                 closeVars, toldVars, panic>>

(* IsClosed is set and OnDisconnect of the socket called: it looks the entry
   up by id, sets it to nil and deletes it, each without lock, and tells the
   application. *)
LookEntry(g) ==
  /\ Goes(g, "agree", IF table[owner[at[g]]] = None THEN "tell" ELSE "clear")
  /\ phase' = [phase EXCEPT ![at[g]] = "closed"]
  /\ UNCHANGED <<tableVars, lock, listenVars, owner, closeLock, attached, overlap, at, arg,
                 closeVars, toldVars, panic>>

(* Mutant: OnDisconnect takes lock for the table. *)
ClearEntryLocked(g) ==
  /\ lock = NoOne /\ ~tableNil /\ Goes(g, "clear", "delete")
  /\ table' = [table EXCEPT ![owner[at[g]]] = None]
  /\ UNCHANGED <<tableNil, lock, listenVars, socketVars, at, arg, closeVars, toldVars, panic>>

ClearEntry(g) ==
  /\ IF tableNil THEN Dies(g, "clear", "nil map") /\ UNCHANGED table
                 ELSE /\ Goes(g, "clear", "delete") /\ UNCHANGED panic
                      /\ table' = [table EXCEPT ![owner[at[g]]] = None]
  /\ UNCHANGED <<tableNil, lock, listenVars, socketVars, at, arg, closeVars, toldVars>>

DeleteEntry(g) ==
  /\ Goes(g, "delete", "tell")
  /\ table' = [table EXCEPT ![owner[at[g]]] = None]
  /\ UNCHANGED <<tableNil, lock, listenVars, socketVars, at, arg, closeVars, toldVars, panic>>

Tell(g) ==
  /\ Goes(g, "tell", Returns(g))
  /\ ended' = [ended EXCEPT ![at[g]] = @ + 1]
  /\ closeLock' = [closeLock EXCEPT ![at[g]] = NoOne]
  /\ at' = [at EXCEPT ![g] = None]
  /\ UNCHANGED <<tableVars, lock, listenVars, phase, owner, attached, overlap, arg,
                 closeVars, accepted, early, panic>>

OnDisconnect(g) == LookEntry(g) \/ ClearEntry(g) \/ DeleteEntry(g) \/ Tell(g)

-------------------------------------------------------------------------------
(* CloseSocket.                                                            *)

ServerSocketClose(k, i) ==
  /\ Goes(k, "idle", "lock")
  /\ arg' = [arg EXCEPT ![k] = i]
  /\ UNCHANGED <<tableVars, lock, listenVars, socketVars, at, closeVars, toldVars, panic>>

CloseSocketDone(g, from) == Goes(g, from, IF g = Main THEN "range" ELSE "gone")

LookSocket(g) ==
  /\ pc[g] = "lock"
  /\ IF table[arg[g]] = None THEN lock = NoOne /\ CloseSocketDone(g, "lock") /\ UNCHANGED lock
                             ELSE LockTable(g) /\ Goes(g, "lock", "load")
  /\ UNCHANGED <<tableVars, listenVars, socketVars, at, arg, closeVars, toldVars, panic>>

(* Mutant: lock is given up before the socket is closed. *)
LoadSocketUnlocks(g) ==
  /\ table[arg[g]] # None /\ Goes(g, "load", "close") /\ lock' = NoOne
  /\ at' = [at EXCEPT ![g] = table[arg[g]]]
  /\ UNCHANGED <<tableVars, listenVars, socketVars, arg, closeVars, toldVars, panic>>

(* s.Sockets[id] is loaded again for the call of Close. *)
LoadSocket(g) ==
  /\ IF table[arg[g]] = None
       THEN Dies(g, "load", "nil socket") /\ UNCHANGED at
       ELSE /\ Goes(g, "load", "close") /\ UNCHANGED panic
            /\ at' = [at EXCEPT ![g] = table[arg[g]]]
  /\ UNCHANGED <<tableVars, lock, listenVars, socketVars, arg, closeVars, toldVars>>

RemoveSocket(g) ==
  /\ IF tableNil THEN Dies(g, "remove", "nil map") /\ UNCHANGED <<table, lock>>
                 ELSE /\ CloseSocketDone(g, "remove") /\ lock' = NoOne /\ UNCHANGED panic
                      /\ table' = [table EXCEPT ![arg[g]] = None]
  /\ UNCHANGED <<tableNil, listenVars, socketVars, at, arg, closeVars, toldVars>>

CloseSocket(g) == LoadSocket(g) \/ RemoveSocket(g)

-------------------------------------------------------------------------------
(* Close of the server: OnClosing, then IsClosed.                          *)

Present == {i \in Ids : table[i] # None}

ServerClose ==
  /\ Goes(Main, "idle", "range")
  /\ listener' = FALSE
  /\ must' = Present
  /\ UNCHANGED <<tableVars, lock, lpc, connected, socketVars, at, arg, visited, sClosed,
                 toldVars, panic>>

(* A key put into a Go map during the range may be visited or not. *)
RangeNext(i) ==
  /\ i \in Present \ visited /\ Goes(Main, "range", "lock")
  /\ visited' = visited \cup {i}
  /\ arg' = [arg EXCEPT ![Main] = i]
  /\ UNCHANGED <<tableVars, lock, listenVars, socketVars, at, must, sClosed, toldVars, panic>>

(* Mutant: the loop ends before it has seen every key. *)
RangeDoneAtOnce ==
  /\ Goes(Main, "range", "closing")
  /\ table' = [i \in Ids |-> None] /\ tableNil' = TRUE
  /\ UNCHANGED <<lock, listenVars, socketVars, at, arg, closeVars, toldVars, panic>>

RangeDone ==
  /\ must \cap Present \subseteq visited /\ Goes(Main, "range", "closing")
  /\ table' = [i \in Ids |-> None] /\ tableNil' = TRUE
  /\ UNCHANGED <<lock, listenVars, socketVars, at, arg, closeVars, toldVars, panic>>

ServerClosed ==
  /\ Goes(Main, "closing", "gone")
  /\ sClosed' = TRUE
  /\ UNCHANGED <<tableVars, lock, listenVars, socketVars, at, arg, must, visited, toldVars, panic>>

-------------------------------------------------------------------------------

LockStep(g) ==
  \/ g \in Streams /\ (FindSocket(g) \/ CreateSocket(g))
  \/ g \in Workers \ Streams /\ LookSocket(g)
  \/ CloseAgain(g) \/ CloseEnter(g)

RunStep(g) ==
  \/ g \in Streams /\ ProcessStream(g)
  \/ OnDisconnect(g)
  \/ g \in Workers /\ CloseSocket(g)
  \/ g = Main /\ (RangeDone \/ ServerClosed \/ \E i \in Ids : RangeNext(i))

Next ==
  /\ panic = "none"
  /\ \/ Listen \/ ServerClose
     \/ \E g \in Goroutines : LockStep(g) \/ RunStep(g)
     \/ \E t \in Streams, i \in Ids : AcceptStream(t, i)
     \/ \E k \in Closers, i \in Ids : ServerSocketClose(k, i)
     \/ \E n \in Sockets : SocketEnds(n)

Spec == Init /\ [][Next]_vars

-------------------------------------------------------------------------------

Places == {"idle", "lock", "announce", "encoder", "lookup", "attach", "gone", "load",
           "close", "agree", "clear", "delete", "tell", "remove", "range", "closing"}

TypeOK ==
  /\ table \in [Ids -> Sockets \cup {None}] /\ tableNil \in BOOLEAN
  /\ lock \in Workers \cup {NoOne} /\ sClosed \in BOOLEAN
  /\ listener \in BOOLEAN /\ connected \in BOOLEAN
  /\ lpc \in {"load", "accept", "gone"}
  /\ phase \in [Sockets -> {"none", "open", "swept", "closed"}]
  /\ owner \in [Sockets -> Ids]
  /\ closeLock \in [Sockets -> Goroutines \cup {NoOne}]
  /\ attached \in [Sockets -> SUBSET Indexes]
  /\ pc \in [Goroutines -> Places]
  /\ at \in [Goroutines -> Sockets \cup {None}]
  /\ arg \in [Workers -> Ids]
  /\ must \subseteq Ids /\ visited \subseteq Ids
  /\ accepted \in [Sockets -> Nat] /\ ended \in [Sockets -> Nat]
  /\ overlap \in [Sockets -> BOOLEAN] /\ early \in [Sockets -> BOOLEAN]
  /\ panic \in {"none", "listener", "nil map", "nil channel", "nil socket"}

(* server.go:188-217: the application is told of each socket once, and of its
   end at most once, when everything is closed, and never before it was told
   of the socket, whoever closes it.  The one exception is a stream whose own
   socket was closed between Unlock and the look-up that follows it: it
   attaches to the next socket of the client, which another stream is just
   announcing. *)
AcceptedThenEnded ==
  \A n \in Sockets :
    /\ accepted[n] <= 1 /\ ended[n] <= 1
    /\ ended[n] = 1 => phase[n] = "closed"
    /\ ended[n] > accepted[n] => early[n]

(* An open socket is the one the table has for its client, where CloseSocket
   and the close of the server will find it, although OnDisconnect removes
   entries by id and without lock.  Only a client that comes back before its
   old socket has ended, or while the server is being closed, can end up with
   a socket that is out of reach. *)
TableFindsSockets ==
  \A n \in Sockets : phase[n] = "open" /\ ~overlap[n] => table[owner[n]] = n

(* server.go:76-79: when the server is closed so is every socket, with the
   same exception. *)
ServerCloseEndsSockets ==
  sClosed => \A n \in Sockets : phase[n] \in {"none", "closed"} \/ overlap[n]

(* While any goroutine is inside processStream, CloseSocket or Close, one of
   them can go on: lock is taken before the closeLock of a socket, and
   OnDisconnect, which runs under closeLock, takes no lock. *)
NoDeadlock ==
  panic = "none" /\ (\E g \in Goroutines : pc[g] \notin {"idle", "gone"})
    => \E g \in Goroutines : ENABLED (LockStep(g) \/ RunStep(g))

===============================================================================
