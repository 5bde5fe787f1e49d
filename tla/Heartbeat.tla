------------------------------- MODULE Heartbeat -------------------------------
(***************************************************************************)
(* agent/manage.go, Hearts, with the loop of exports/openapi.go that starts *)
(* it at every turn, and the Close of the manager.                          *)
(*                                                                          *)
(* A goroutine in Hearts is to keep one connection to the platform alive    *)
(* and to close it when the platform has been silent for too long.  But     *)
(* wsConn, heartTicker and the time of the last message belong to the       *)
(* manager, none of them is locked, and goroutines of earlier turns go on:  *)
(* ManagePlatform has the loop in full and no Hearts, this module has the   *)
(* Hearts of one manager, and of the loop what they meet.                   *)
(***************************************************************************)
EXTENDS Naturals

CONSTANT MaxTurns   \* bound: turns of the loop, each with a dial and a Hearts

ASSUME TurnsArePositive == MaxTurns \in Nat \ {0}

Hearts == 1 .. MaxTurns   \* a goroutine, its ticker and its dial have the turn's number
None   == 0               \* a nil pointer
Loop   == 0
Procs  == 0 .. MaxTurns   \* whoever writes to the websocket

VARIABLES
  turn,       \* turns begun
  wsConn,     \* the connection dialled in that turn
  net,        \* of each connection: "none", "up", "down"
  isClosed,   \* IsClosed
  silent,     \* lastMessageTime is too long ago
  ticker,     \* heartTicker
  running,    \* the tickers that were not stopped
  at,         \* where the loop and each Hearts are
  holds,      \* the ticker a Hearts waits on
  out,        \* the connection a goroutine writes to
  reads,      \* the connection the loop reads from
  closer,     \* where Close is
  panic       \* "none", or where the process died

connVars   == <<wsConn, net>>
tickerVars == <<ticker, running>>
vars == <<turn, connVars, isClosed, silent, tickerVars, at, holds, out, reads, closer, panic>>

Init ==
  /\ turn = 0 /\ wsConn = None
  /\ net = [c \in Hearts |-> "none"]
  /\ isClosed = FALSE /\ silent = FALSE
  /\ ticker = None /\ running = {}
  /\ at = [p \in Procs |-> IF p = Loop THEN "check" ELSE "idle"]
  /\ holds = [h \in Hearts |-> None]
  /\ out = [p \in Procs |-> None] /\ reads = None
  /\ closer = "idle" /\ panic = "none"

Goes(p, from, to) == at[p] = from /\ at' = [at EXCEPT ![p] = to]
Dies(p, from) == at[p] = from /\ panic' = from /\ UNCHANGED at

(* The test that both the loop and Hearts begin with: OnClosed sets wsConn to
   nil only after IsClosed, so that its two loads make one. *)
MustStop == wsConn = None \/ isClosed

-------------------------------------------------------------------------------
(* sendJson: of the loop after a dial, and of Hearts at a tick.            *)

AfterSend(p) == IF p = Loop THEN "spawn" ELSE "wait"

SendTest(p) ==
  /\ Goes(p, "ping", IF wsConn = None THEN AfterSend(p) ELSE "send")
  /\ UNCHANGED <<turn, connVars, isClosed, silent, tickerVars, holds, out, reads, closer, panic>>

(* wsConn is loaded again; the websocket panics when two goroutines write. *)
SendBegin(p) ==
  /\ IF wsConn = None \/ \E q \in Procs : out[q] = wsConn
       THEN Dies(p, "send") /\ UNCHANGED out
       ELSE Goes(p, "send", "write") /\ out' = [out EXCEPT ![p] = wsConn] /\ UNCHANGED panic
  /\ UNCHANGED <<turn, connVars, isClosed, silent, tickerVars, holds, reads, closer>>

SendEnd(p) ==
  /\ Goes(p, "write", AfterSend(p)) /\ out' = [out EXCEPT ![p] = None]
  /\ UNCHANGED <<turn, connVars, isClosed, silent, tickerVars, holds, reads, closer, panic>>

-------------------------------------------------------------------------------
(* The loop.                                                               *)

CheckClosed ==
  /\ isClosed \/ turn < MaxTurns
  /\ Goes(Loop, "check", IF isClosed THEN "gone" ELSE "dial")
  /\ turn' = IF isClosed THEN turn ELSE turn + 1
  /\ UNCHANGED <<connVars, isClosed, silent, tickerVars, holds, out, reads, closer, panic>>

DialFails ==
  /\ Goes(Loop, "dial", "spawn")
  /\ UNCHANGED <<turn, connVars, isClosed, silent, tickerVars, holds, out, reads, closer, panic>>

DialSucceeds ==
  /\ Goes(Loop, "dial", "ping")
  /\ wsConn' = turn /\ net' = [net EXCEPT ![turn] = "up"]
  /\ UNCHANGED <<turn, isClosed, silent, tickerVars, holds, out, reads, closer, panic>>

(* go managerCtx.Hearts() *)
StartHearts ==
  /\ at[Loop] = "spawn"
  /\ at' = [at EXCEPT ![Loop] = "listen", ![turn] = "make"]
  /\ UNCHANGED <<turn, connVars, isClosed, silent, tickerVars, holds, out, reads, closer, panic>>

ListenTest ==
  /\ Goes(Loop, "listen", IF MustStop THEN "check" ELSE "load")
  /\ UNCHANGED <<turn, connVars, isClosed, silent, tickerVars, holds, out, reads, closer, panic>>

ListenLoad ==
  /\ IF wsConn = None
       THEN Dies(Loop, "load") /\ UNCHANGED reads
       ELSE Goes(Loop, "load", "read") /\ reads' = wsConn /\ UNCHANGED panic
  /\ UNCHANGED <<turn, connVars, isClosed, silent, tickerVars, holds, out, closer>>

(* Any message, the answer to a ping among them, sets lastMessageTime. *)
Message ==
  /\ at[Loop] = "read" /\ net[reads] = "up" /\ Goes(Loop, "read", "listen")
  /\ silent' = FALSE /\ reads' = None
  /\ UNCHANGED <<turn, connVars, isClosed, tickerVars, holds, out, closer, panic>>

(* After the error of ReadMessage the loop ends, or sleeps and goes round. *)
ReadFails ==
  /\ at[Loop] = "read" /\ net[reads] # "up"
  /\ Goes(Loop, "read", IF isClosed THEN "gone" ELSE "check")
  /\ reads' = None
  /\ UNCHANGED <<turn, connVars, isClosed, silent, tickerVars, holds, out, closer, panic>>

LoopStep ==
  CheckClosed \/ DialFails \/ DialSucceeds \/ StartHearts \/ ListenTest \/ ListenLoad

-------------------------------------------------------------------------------
(* Hearts.                                                                 *)

(* Mutant: the ticker is started before it is in heartTicker. *)
MakeTickerLost(h) ==
  /\ Goes(h, "make", "range")
  /\ running' = running \cup {h + 1} /\ ticker' = h
  /\ UNCHANGED <<turn, connVars, isClosed, silent, holds, out, reads, closer, panic>>

(* heartTicker is set, and id is loaded. *)
MakeTicker(h) ==
  /\ Goes(h, "make", "range")
  /\ running' = running \cup {h} /\ ticker' = h
  /\ UNCHANGED <<turn, connVars, isClosed, silent, holds, out, reads, closer, panic>>

(* range mgr.heartTicker.C loads heartTicker again, once. *)
RangeTicker(h) ==
  /\ IF ticker = None
       THEN Dies(h, "range") /\ UNCHANGED holds
       ELSE Goes(h, "range", "wait") /\ holds' = [holds EXCEPT ![h] = ticker] /\ UNCHANGED panic
  /\ UNCHANGED <<turn, connVars, isClosed, silent, tickerVars, out, reads, closer>>

Tick(h) ==
  /\ holds[h] \in running /\ Goes(h, "wait", "tick")
  /\ UNCHANGED <<turn, connVars, isClosed, silent, tickerVars, holds, out, reads, closer, panic>>

(* Mutant: the ping goes on whatever became of the manager. *)
TestGoesOn(h) ==
  /\ Goes(h, "tick", "late")
  /\ UNCHANGED <<turn, connVars, isClosed, silent, tickerVars, holds, out, reads, closer, panic>>

(* The third test compares config.Id with what it was, and it never changes. *)
TestStop(h) ==
  /\ Goes(h, "tick", IF MustStop THEN "leave" ELSE "late")
  /\ UNCHANGED <<turn, connVars, isClosed, silent, tickerVars, holds, out, reads, closer, panic>>

(* Mutant: the time of the last message is not looked at. *)
NeverLate(h) ==
  /\ Goes(h, "late", "ping")
  /\ UNCHANGED <<turn, connVars, isClosed, silent, tickerVars, holds, out, reads, closer, panic>>

TestLate(h) ==
  /\ Goes(h, "late", IF silent THEN "hangup" ELSE "ping")
  /\ UNCHANGED <<turn, connVars, isClosed, silent, tickerVars, holds, out, reads, closer, panic>>

HangUp(h) ==
  /\ IF wsConn = None
       THEN Dies(h, "hangup") /\ UNCHANGED net
       ELSE /\ Goes(h, "hangup", "leave") /\ UNCHANGED panic
            /\ net' = [net EXCEPT ![wsConn] = "down"]
  /\ UNCHANGED <<turn, wsConn, isClosed, silent, tickerVars, holds, out, reads, closer>>

(* The deferred function stops whatever ticker heartTicker is by now. *)
LeaveTest(h) ==
  /\ Goes(h, "leave", IF ticker = None THEN "gone" ELSE "stop")
  /\ UNCHANGED <<turn, connVars, isClosed, silent, tickerVars, holds, out, reads, closer, panic>>

LeaveStop(h) ==
  /\ IF ticker = None
       THEN Dies(h, "stop") /\ UNCHANGED running
       ELSE Goes(h, "stop", "clear") /\ running' = running \ {ticker} /\ UNCHANGED panic
  /\ UNCHANGED <<turn, connVars, isClosed, silent, ticker, holds, out, reads, closer>>

LeaveClear(h) ==
  /\ Goes(h, "clear", "gone") /\ ticker' = None
  /\ UNCHANGED <<turn, connVars, isClosed, silent, running, holds, out, reads, closer, panic>>

HeartStep(h) ==
  \/ MakeTicker(h) \/ RangeTicker(h) \/ Tick(h) \/ TestStop(h) \/ TestLate(h) \/ HangUp(h)
  \/ LeaveTest(h) \/ LeaveStop(h) \/ LeaveClear(h)

SendStep(p) == SendTest(p) \/ SendBegin(p) \/ SendEnd(p)

-------------------------------------------------------------------------------
(* Close: OnClosing stops the ticker, IsClosed, OnClosed.                  *)

CloserGoes(from, to) ==
  /\ closer = from /\ closer' = to
  /\ UNCHANGED <<turn, silent, at, holds, out, reads>>

CloseTest ==
  /\ CloserGoes("idle", IF ticker = None THEN "set" ELSE "halt")
  /\ UNCHANGED <<connVars, isClosed, tickerVars, panic>>

CloseStop ==
  /\ ticker # None /\ CloserGoes("halt", "forget")
  /\ running' = running \ {ticker}
  /\ UNCHANGED <<connVars, isClosed, ticker, panic>>

CloseDies ==
  /\ ticker = None /\ closer = "halt" /\ panic' = "halt"
  /\ UNCHANGED <<turn, connVars, isClosed, silent, tickerVars, at, holds, out, reads, closer>>

CloseClear ==
  /\ CloserGoes("forget", "set") /\ ticker' = None
  /\ UNCHANGED <<connVars, isClosed, running, panic>>

SetClosed ==
  /\ CloserGoes("set", "hangup") /\ isClosed' = TRUE
  /\ UNCHANGED <<connVars, tickerVars, panic>>

OnClosed ==
  /\ CloserGoes("hangup", "closed")
  /\ net' = [c \in Hearts |-> IF c = wsConn THEN "down" ELSE net[c]] /\ wsConn' = None
  /\ UNCHANGED <<isClosed, tickerVars, panic>>

CloseStep == CloseStop \/ CloseDies \/ CloseClear \/ SetClosed \/ OnClosed

-------------------------------------------------------------------------------

(* Time passes without a message; a connection ends. *)
Silence ==
  /\ ~silent /\ silent' = TRUE
  /\ UNCHANGED <<turn, connVars, isClosed, tickerVars, at, holds, out, reads, closer, panic>>

ConnectionEnds(c) ==
  /\ net[c] = "up" /\ net' = [net EXCEPT ![c] = "down"]
  /\ UNCHANGED <<turn, wsConn, isClosed, silent, tickerVars, at, holds, out, reads, closer, panic>>

Next ==
  /\ panic = "none"
  /\ \/ LoopStep \/ Message \/ ReadFails \/ CloseTest \/ CloseStep \/ Silence
     \/ \E h \in Hearts : HeartStep(h)
     \/ \E p \in Procs : SendStep(p)
     \/ \E c \in Hearts : ConnectionEnds(c)

Spec == Init /\ [][Next]_vars

(* Every goroutine that can run does, a running ticker ticks, and a Close that
   began goes on.  Nothing is asked of the platform. *)
Fairness ==
  /\ WF_vars(panic = "none" /\ (LoopStep \/ ReadFails \/ SendStep(Loop)))
  /\ WF_vars(panic = "none" /\ CloseStep)
  /\ \A h \in Hearts : WF_vars(panic = "none" /\ (HeartStep(h) \/ SendStep(h)))

FairSpec == Spec /\ Fairness

-------------------------------------------------------------------------------

TypeOK ==
  /\ turn \in 0 .. MaxTurns /\ wsConn \in Hearts \cup {None}
  /\ net \in [Hearts -> {"none", "up", "down"}]
  /\ isClosed \in BOOLEAN /\ silent \in BOOLEAN
  /\ ticker \in Hearts \cup {None} /\ running \subseteq Hearts
  /\ at \in [Procs -> {"idle", "check", "dial", "ping", "send", "write", "spawn", "listen",
                       "load", "read", "make", "range", "wait", "tick", "late", "hangup",
                       "leave", "stop", "clear", "gone"}]
  /\ holds \in [Hearts -> Hearts \cup {None}]
  /\ out \in [Procs -> Hearts \cup {None}] /\ reads \in Hearts \cup {None}
  /\ closer \in {"idle", "halt", "forget", "set", "hangup", "closed"}
  /\ panic \in {"none", "send", "load", "range", "hangup", "stop", "halt"}

Robbed(h) == at[h] = "wait" /\ holds[h] \notin running

(* manage.go:139-143: a connection on which the platform is silent is closed,
   so that the loop dials again, however many goroutines of earlier turns share
   wsConn and the time of the last message, unless one of them stopped the
   ticker of the connection's own. *)
SilentIsClosed ==
  \A h \in Hearts :
    wsConn = h /\ net[h] = "up" /\ silent /\ at[h] # "idle" ~>
      wsConn # h \/ net[h] # "up" \/ ~silent \/ Robbed(h) \/ isClosed \/ panic # "none"

(* manage.go:84-100, OnClosing stops one ticker of as many as there are, at any
   moment of their goroutines, one that is just being started among them: in
   the end none of them ticks any more, and the loop has ended. *)
CloseEndsHearts ==
  closer = "closed" ~>
    \/ panic # "none"
    \/ at[Loop] = "gone" /\ \A h \in Hearts : at[h] \in {"idle", "gone"} \/ Robbed(h)

===============================================================================
