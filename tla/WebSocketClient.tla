---------------------------- MODULE WebSocketClient ----------------------------
(***************************************************************************)
(* websocket/client.go: the client that signals through a server and, while *)
(* Reconnect is set, connects again whenever its connection ends.           *)
(*                                                                          *)
(* Nothing in it is locked.  For each connection c that was dialled there   *)
(* are                                                                      *)
(*   - its worker, the goroutine that ran Connect (the application's first, *)
(*     ReconnectWorking afterwards) and stays in Heart;                     *)
(*   - its reader, which Connect starts.                                    *)
(* Both, and the Closer, call Disconnect, which starts ReconnectWorking.    *)
(* Goroutines asleep in ReconnectWorking or in Dial are all alike, and are  *)
(* counted.  The model has no clock: a sleep may end at any time.           *)
(***************************************************************************)
EXTENDS Naturals

CONSTANT MaxConns   \* bound: dials that succeed

Conns   == 1 .. MaxConns
None    == 0        \* a nil Conn or heartTicker
Worker(c) == c
Reader(c) == MaxConns + c
Closer    == 0
Procs     == 0 .. 2 * MaxConns

ASSUME BoundIsPositive == MaxConns \in Nat \ {0}

VARIABLES
  conn, connected,  \* Conn and Connected
  reconnect,        \* Reconnect
  isClosed,
  heartMessage,     \* HeartMessage is not empty, as the caller of Connect chose
  ticker,           \* heartTicker: the connection whose worker made it
  running,          \* the tickers that were not stopped
  net,              \* of each connection: "none", "up", "closed" by HangUp
  pc,
  holds,            \* what a goroutine waits on: a reader's connection, a worker's ticker
  sleeping,         \* goroutines in the Sleep of ReconnectWorking
  dialing,          \* goroutines in Dial
  panic             \* the process died of a nil dereference

sharedVars == <<conn, connected, reconnect, isClosed, heartMessage, ticker, running>>
countVars  == <<sleeping, dialing>>
vars == <<sharedVars, net, pc, holds, countVars, panic>>

(* The application has called Connect. *)
Init ==
  /\ conn = None /\ connected = FALSE /\ reconnect = TRUE /\ isClosed = FALSE
  /\ heartMessage \in BOOLEAN
  /\ ticker = None /\ running = {}
  /\ net = [c \in Conns |-> "none"]
  /\ pc = [p \in Procs |-> "idle"]
  /\ holds = [p \in Procs |-> None]
  /\ sleeping = 0 /\ dialing = 1
  /\ panic = FALSE

Goes(p, from, to) == pc[p] = from /\ pc' = [pc EXCEPT ![p] = to]
Dies(p, from) == pc[p] = from /\ panic' = TRUE /\ UNCHANGED pc

(* Mutant: the loops do not look at IsClosed. *)
MustStopButNotClosed == conn = None \/ ~connected

(* The three checks that the loops of the reader and of Heart begin with. *)
MustStop == conn = None \/ ~connected \/ isClosed

-------------------------------------------------------------------------------
(* Connect.                                                                *)

(* Mutant: a dial that failed is not tried again. *)
DialFailsForGood ==
  /\ dialing > 0 /\ dialing' = dialing - 1
  /\ UNCHANGED <<sharedVars, net, pc, holds, sleeping, panic>>

DialFails ==
  /\ dialing > 0 /\ dialing' = dialing - 1
  /\ sleeping' = IF reconnect THEN sleeping + 1 ELSE sleeping
  /\ UNCHANGED <<sharedVars, net, pc, holds, panic>>

(* c.Conn is set to the new connection, whatever it was. *)
DialSucceeds(c) ==
  /\ dialing > 0 /\ dialing' = dialing - 1
  /\ net[c] = "none" /\ \A b \in Conns : b < c => net[b] # "none"
  /\ net' = [net EXCEPT ![c] = "up"] /\ conn' = c
  /\ Goes(Worker(c), "idle", "dialled")
  /\ UNCHANGED <<connected, reconnect, isClosed, heartMessage, ticker, running, holds, sleeping,
                 panic>>

(* Connected is set and OnConnected called. *)
SetConnected(c) ==
  /\ Goes(Worker(c), "dialled", "handler")
  /\ connected' = TRUE
  /\ UNCHANGED <<conn, reconnect, isClosed, heartMessage, ticker, running, net, holds, countVars,
                 panic>>

(* c.Conn is loaded again for its close handler; then the reader starts. *)
StartReader(c) ==
  /\ IF conn = None
       THEN Dies(Worker(c), "handler")
       ELSE /\ pc[Worker(c)] = "handler" /\ UNCHANGED panic
            /\ pc' = [pc EXCEPT ![Worker(c)] = "heart", ![Reader(c)] = "check"]
  /\ UNCHANGED <<sharedVars, net, holds, countVars>>

Connect(c) == DialSucceeds(c) \/ SetConnected(c) \/ StartReader(c)

-------------------------------------------------------------------------------
(* The reader.                                                             *)

Breaks(p, from) == Goes(p, from, "test") /\ holds' = [holds EXCEPT ![p] = None]

ReaderCheck(c) ==
  LET r == Reader(c)
  IN /\ IF MustStop THEN Breaks(r, "check") ELSE Goes(r, "check", "load") /\ UNCHANGED holds
     /\ UNCHANGED <<sharedVars, net, countVars, panic>>

(* c.Conn is loaded again: by now it may be nil, or another connection. *)
ReaderLoad(c) ==
  LET r == Reader(c)
  IN /\ IF conn = None
          THEN Dies(r, "load") /\ UNCHANGED holds
          ELSE Goes(r, "load", "read") /\ holds' = [holds EXCEPT ![r] = conn] /\ UNCHANGED panic
     /\ UNCHANGED <<sharedVars, net, countVars>>

(* A message or a pong. *)
ReadMessage(c) ==
  /\ pc[Reader(c)] = "read" /\ net[holds[Reader(c)]] = "up"
  /\ Goes(Reader(c), "read", "check")
  /\ UNCHANGED <<sharedVars, net, holds, countVars, panic>>

(* The connection ended, or the message is no JSON object. *)
ReadEnds(c) ==
  /\ Breaks(Reader(c), "read")
  /\ UNCHANGED <<sharedVars, net, countVars, panic>>

(* A close frame: the close handler calls Disconnect inside ReadMessage. *)
CloseFrame(c) ==
  LET r == Reader(c)
  IN /\ pc[r] = "read" /\ net[holds[r]] = "up"
     /\ Goes(r, "read", "test")
     /\ UNCHANGED <<sharedVars, net, holds, countVars, panic>>

Read(c) == ReaderCheck(c) \/ ReaderLoad(c) \/ ReadMessage(c) \/ ReadEnds(c) \/ CloseFrame(c)

-------------------------------------------------------------------------------
(* Heart.                                                                  *)

(* Without a message Heart returns at once: no ticker, no Disconnect. *)
NoHeart(c) ==
  /\ ~heartMessage /\ Goes(Worker(c), "heart", "gone")
  /\ UNCHANGED <<sharedVars, net, holds, countVars, panic>>

NewTicker(c) ==
  /\ heartMessage /\ Goes(Worker(c), "heart", "range")
  /\ ticker' = c /\ running' = running \cup {c}
  /\ UNCHANGED <<conn, connected, reconnect, isClosed, heartMessage, net, holds, countVars, panic>>

(* range c.heartTicker.C loads the ticker again, once. *)
RangeTicker(c) ==
  LET w == Worker(c)
  IN /\ IF ticker = None
          THEN Dies(w, "range") /\ UNCHANGED holds
          ELSE Goes(w, "range", "wait") /\ holds' = [holds EXCEPT ![w] = ticker] /\ UNCHANGED panic
     /\ UNCHANGED <<sharedVars, net, countVars>>

(* At a tick, which comes unless the ticker was stopped, Heart must stop, or
   the pong is overdue, as it can be at any time.  The heartbeat it sends
   otherwise changes nothing here. *)
HeartEnds(c) ==
  LET w == Worker(c)
  IN /\ pc[w] = "wait" /\ holds[w] \in running
     /\ Breaks(w, "wait")
     /\ UNCHANGED <<sharedVars, net, countVars, panic>>

Heart(c) == NoHeart(c) \/ NewTicker(c) \/ RangeTicker(c) \/ HeartEnds(c)

-------------------------------------------------------------------------------
(* Disconnect.                                                             *)

(* From a close handler ReadMessage returns an error, and the deferred
   Disconnect follows. *)
Return(p) ==
  IF p > MaxConns /\ holds[p] # None
    THEN pc' = [pc EXCEPT ![p] = "test"] /\ holds' = [holds EXCEPT ![p] = None]
    ELSE /\ pc' = [pc EXCEPT ![p] = IF p = Closer THEN "closing" ELSE "gone"]
         /\ UNCHANGED holds

(* OnDisconnected is called, once Connected was seen. *)
TestConnected(p) ==
  /\ pc[p] = "test"
  /\ IF connected
       THEN Goes(p, "test", "ticker") /\ UNCHANGED holds
       ELSE Return(p)
  /\ UNCHANGED <<sharedVars, net, countVars, panic>>

AfterTicker == IF conn # None THEN "hangup" ELSE "clear"

TestTicker(p) ==
  /\ Goes(p, "ticker", IF ticker # None THEN "stop" ELSE AfterTicker)
  /\ UNCHANGED <<sharedVars, net, holds, countVars, panic>>

StopTicker(p) ==
  /\ IF ticker = None
       THEN Dies(p, "stop") /\ UNCHANGED <<ticker, running>>
       ELSE /\ Goes(p, "stop", AfterTicker) /\ UNCHANGED panic
            /\ running' = running \ {ticker} /\ ticker' = None
  /\ UNCHANGED <<conn, connected, reconnect, isClosed, heartMessage, net, holds, countVars>>

HangUp(p) ==
  /\ IF conn = None
       THEN Dies(p, "hangup") /\ UNCHANGED <<conn, net>>
       ELSE /\ Goes(p, "hangup", "clear") /\ UNCHANGED panic
            /\ net' = [net EXCEPT ![conn] = "closed"] /\ conn' = None
  /\ UNCHANGED <<connected, reconnect, isClosed, heartMessage, ticker, running, holds, countVars>>

(* Connected becomes false, and ReconnectWorking is started. *)
Clear(p) ==
  /\ pc[p] = "clear" /\ Return(p)
  /\ connected' = FALSE
  /\ sleeping' = IF reconnect THEN sleeping + 1 ELSE sleeping
  /\ UNCHANGED <<conn, reconnect, isClosed, heartMessage, ticker, running, net, dialing, panic>>

Disconnect(p) ==
  \/ TestConnected(p) \/ TestTicker(p) \/ StopTicker(p) \/ HangUp(p) \/ Clear(p)

(* Mutant: it runs although nobody started it. *)
WakeUnstarted ==
  /\ sleeping' = sleeping - 1
  /\ dialing' = IF reconnect /\ ~connected THEN dialing + 1 ELSE dialing
  /\ UNCHANGED <<sharedVars, net, pc, holds, panic>>

(* ReconnectWorking after its Sleep. *)
Wake ==
  /\ sleeping > 0 /\ sleeping' = sleeping - 1
  /\ dialing' = IF reconnect /\ ~connected THEN dialing + 1 ELSE dialing
  /\ UNCHANGED <<sharedVars, net, pc, holds, panic>>

-------------------------------------------------------------------------------
(* Close: OnClosing, then IsClosed.                                        *)

Close ==
  /\ Goes(Closer, "idle", "test") /\ reconnect' = FALSE
  /\ UNCHANGED <<conn, connected, isClosed, heartMessage, ticker, running, net, holds, countVars,
                 panic>>

SetClosed ==
  /\ Goes(Closer, "closing", "gone") /\ isClosed' = TRUE
  /\ UNCHANGED <<conn, connected, reconnect, heartMessage, ticker, running, net, holds, countVars,
                 panic>>

-------------------------------------------------------------------------------

Next ==
  /\ ~panic
  /\ \/ DialFails \/ Wake \/ Close \/ SetClosed
     \/ \E c \in Conns : Connect(c) \/ Read(c) \/ Heart(c)
     \/ \E p \in Procs : Disconnect(p)

ReadsClosed(c) == pc[Reader(c)] = "read" /\ net[holds[Reader(c)]] = "closed"

(* What happens without the peer: Dial and Sleep end, goroutines go on,
   ReadMessage returns from a connection closed here, a running ticker ticks.
   No order among the goroutines is asked for, only that something of it
   happens while something can. *)
Progress ==
  /\ ~panic
  /\ \/ DialFails \/ Wake \/ SetClosed
     \/ \E c \in Conns :
          \/ Connect(c) \/ ReaderCheck(c) \/ ReaderLoad(c) \/ (ReadsClosed(c) /\ ReadEnds(c))
          \/ NoHeart(c) \/ NewTicker(c) \/ RangeTicker(c) \/ (MustStop /\ HeartEnds(c))
     \/ \E p \in Procs : Disconnect(p)

Spec == Init /\ [][Next]_vars
FairSpec == Spec /\ WF_vars(Progress)

-------------------------------------------------------------------------------

Places == {"idle", "dialled", "handler", "heart", "range", "wait", "check", "load", "read", "test", "ticker", "stop", "hangup", "clear",
           "closing", "gone"}

TypeOK ==
  /\ conn \in Conns \cup {None} /\ ticker \in Conns \cup {None} /\ running \subseteq Conns
  /\ connected \in BOOLEAN /\ reconnect \in BOOLEAN /\ isClosed \in BOOLEAN
  /\ heartMessage \in BOOLEAN
  /\ net \in [Conns -> {"none", "up", "closed"}]
  /\ pc \in [Procs -> Places]
  /\ holds \in [Procs -> Conns \cup {None}]
  /\ sleeping \in Nat /\ dialing \in Nat
  /\ panic \in BOOLEAN

(* client.go:55-58 and 201-203: the client reconnects by itself.  As long as Reconnect is set
   and there is no connection, a goroutine sleeps, dials or is about to set
   Connected: however the reader, the heartbeat and their reconnections
   overlap, the client is never left without anyone trying. *)
NeverStranded ==
  reconnect /\ ~connected =>
    sleeping + dialing > 0 \/ \E c \in Conns : pc[Worker(c)] = "dialled"

(* A reader waits on a connection that the peer keeps. *)
Abandoned ==
  ~heartMessage /\ \E c \in Conns : pc[Reader(c)] = "read" /\ net[holds[Reader(c)]] = "up"

(* client.go:150-155 and 207-215: OnClosing clears Reconnect and disconnects
   at one moment, while a sleep, a dial or another Disconnect may be under
   way: in the end nobody sleeps or dials any more, and a connection made
   meanwhile is given up by its own reader or heartbeat.  Without a heart
   message one may stay, until the peer sends or closes: announced behind
   OnClosing's Disconnect, its reader waits in ReadMessage, and Heart, whose
   next tick would end it, has returned at once (117-119). *)
Quiet == sleeping = 0 /\ dialing = 0 /\ (connected => Abandoned)
CloseEndsReconnecting == <>isClosed => <>[](Quiet \/ panic)

===============================================================================
