---------------------------- MODULE WebSocketProofs ----------------------------
(***************************************************************************)
(* Proofs about WebSocketClient, for any number of connections.  What       *)
(* keeps the client from being stranded is a count: a goroutine leaves the  *)
(* sleep or the dial only into the other, or into a connection, or when     *)
(* there is one, and a Disconnect that undoes the connection adds a sleeper. *)
(* What keeps a connection watched is the order in which a worker announces *)
(* it, starts its reader and enters Heart, and a reader leaves.             *)
(***************************************************************************)
EXTENDS WebSocketClient, TLAPS

Counted == sleeping \in Nat /\ dialing \in Nat /\ connected \in BOOLEAN /\ reconnect \in BOOLEAN

StrandedInv ==
  /\ Counted
  /\ pc \in [Procs -> Places]
  /\ NeverStranded

LEMMA WorkersAreProcs == \A c \in Conns : Worker(c) \in Procs /\ Reader(c) \in Procs
BY BoundIsPositive, SMT DEF Worker, Reader, Procs, Conns

(* A step that leaves the counts and the flags alone, and no worker with a
   connection it has not announced. *)
LEMMA QuietStepKeeps ==
  ASSUME StrandedInv, UNCHANGED <<sleeping, dialing, connected, reconnect>>,
         pc' \in [Procs -> Places],
         \A p \in Procs : pc[p] = "dialled" => pc'[p] = "dialled"
  PROVE  StrandedInv'
BY WorkersAreProcs DEF StrandedInv, Counted, NeverStranded

LEMMA InitStranded == Init => StrandedInv
<1> SUFFICES ASSUME Init PROVE StrandedInv
  OBVIOUS
<1>1. pc \in [Procs -> Places]
  BY DEF Init, Places
<1>2. sleeping = 0 /\ dialing = 1 /\ connected = FALSE /\ reconnect = TRUE
  BY Zenon DEF Init
<1>3. sleeping \in Nat /\ dialing \in Nat /\ sleeping + dialing > 0
  BY <1>2
<1>4. Counted
  BY <1>2, <1>3, Zenon DEF Counted
<1> QED BY <1>1, <1>3, <1>4 DEF StrandedInv, NeverStranded

(* Moving one goroutine, which was not "dialled", to another place. *)
LEMMA MoveKeeps ==
  ASSUME StrandedInv, UNCHANGED <<sleeping, dialing, connected, reconnect>>,
         NEW p \in Procs, NEW to \in Places, pc[p] # "dialled", pc' = [pc EXCEPT ![p] = to]
  PROVE  StrandedInv'
<1>1. pc' \in [Procs -> Places]
  BY DEF StrandedInv
<1>2. \A q \in Procs : pc[q] = "dialled" => pc'[q] = "dialled"
  BY DEF StrandedInv
<1> QED BY <1>1, <1>2, QuietStepKeeps

LEMMA ConnectKeeps ==
  ASSUME StrandedInv, NEW c \in Conns, Connect(c) PROVE StrandedInv'
<1> USE WorkersAreProcs
<1>1. CASE DialSucceeds(c)
  <2>1. pc' = [pc EXCEPT ![Worker(c)] = "dialled"] /\ pc' \in [Procs -> Places]
    BY <1>1 DEF DialSucceeds, Goes, StrandedInv, Places
  <2>2. pc'[Worker(c)] = "dialled"
    BY <2>1 DEF StrandedInv
  <2>3. dialing \in Nat /\ dialing > 0 /\ dialing' = dialing - 1 /\ sleeping' = sleeping
    BY <1>1 DEF DialSucceeds, StrandedInv, Counted
  <2>4. Counted'
    BY <1>1, <2>3 DEF DialSucceeds, StrandedInv, Counted
  <2> QED BY <2>1, <2>2, <2>4 DEF StrandedInv, NeverStranded
<1>2. CASE SetConnected(c)
  <2>1. pc' \in [Procs -> Places]
    BY <1>2 DEF SetConnected, Goes, StrandedInv, Places
  <2>2. connected' = TRUE /\ UNCHANGED <<sleeping, dialing, reconnect>>
    BY <1>2 DEF SetConnected, countVars
  <2> QED BY <2>1, <2>2 DEF StrandedInv, Counted, NeverStranded
<1>3. CASE StartReader(c)
  <2>1. CASE conn = None
    BY <1>3, <2>1, QuietStepKeeps DEF StartReader, Dies, sharedVars, countVars, StrandedInv
  <2>2. CASE conn # None
    <3>1. /\ pc[Worker(c)] = "handler"
          /\ pc' = [pc EXCEPT ![Worker(c)] = "heart", ![Reader(c)] = "check"]
      BY <1>3, <2>2 DEF StartReader
    <3>2. pc' \in [Procs -> Places]
      BY <3>1 DEF StrandedInv, Places
    <3>3. NeverStranded'
      <4>1. UNCHANGED <<sleeping, dialing, connected, reconnect>>
        BY <1>3 DEF StartReader, sharedVars, countVars
      <4>2. \A b \in Conns : pc[Worker(b)] = "dialled" => pc'[Worker(b)] = "dialled"
        BY <3>1, BoundIsPositive DEF StrandedInv, Worker, Reader, Conns, Procs
      <4> QED BY <4>1, <4>2 DEF StrandedInv, NeverStranded
    <3> QED BY <1>3, <3>2, <3>3 DEF StartReader, sharedVars, countVars, StrandedInv, Counted
  <2> QED BY <2>1, <2>2
<1> QED BY <1>1, <1>2, <1>3 DEF Connect

LEMMA ReadKeeps ==
  ASSUME StrandedInv, NEW c \in Conns, Read(c) PROVE StrandedInv'
<1> DEFINE r == Reader(c)
<1>1. r \in Procs /\ UNCHANGED <<sleeping, dialing, connected, reconnect>>
  BY WorkersAreProcs
     DEF Read, ReaderCheck, ReaderLoad, ReadMessage, ReadEnds, CloseFrame, sharedVars, countVars
<1>2. CASE pc' = pc
  BY <1>1, <1>2, QuietStepKeeps DEF StrandedInv
<1>3. ASSUME NEW to \in {"check", "load", "read", "test"},
             pc[r] \in {"check", "load", "read"}, pc' = [pc EXCEPT ![r] = to]
      PROVE  StrandedInv'
  <2>1. to \in Places /\ pc[r] # "dialled"
    BY <1>3 DEF Places
  <2> QED BY <1>1, <1>3, <2>1, MoveKeeps
<1>4. \/ pc' = pc
      \/ /\ pc[r] \in {"check", "load", "read"}
         /\ \E to \in {"check", "load", "read", "test"} : pc' = [pc EXCEPT ![r] = to]
  BY DEF Read, ReaderCheck, ReaderLoad, ReadMessage, ReadEnds, CloseFrame, Breaks, Goes, Dies
<1> QED BY <1>2, <1>3, <1>4

LEMMA HeartKeeps ==
  ASSUME StrandedInv, NEW c \in Conns, Heart(c) PROVE StrandedInv'
<1> DEFINE w == Worker(c)
<1>1. w \in Procs /\ UNCHANGED <<sleeping, dialing, connected, reconnect>>
  BY WorkersAreProcs DEF Heart, NoHeart, NewTicker, RangeTicker, HeartEnds, sharedVars, countVars
<1>2. CASE pc' = pc
  BY <1>1, <1>2, QuietStepKeeps DEF StrandedInv
<1>3. ASSUME NEW to \in {"range", "wait", "test", "gone"},
             pc[w] \in {"heart", "range", "wait"}, pc' = [pc EXCEPT ![w] = to]
      PROVE  StrandedInv'
  <2>1. to \in Places /\ pc[w] # "dialled"
    BY <1>3 DEF Places
  <2> QED BY <1>1, <1>3, <2>1, MoveKeeps
<1>4. \/ pc' = pc
      \/ /\ pc[w] \in {"heart", "range", "wait"}
         /\ \E to \in {"range", "wait", "test", "gone"} : pc' = [pc EXCEPT ![w] = to]
  BY DEF Heart, NoHeart, NewTicker, RangeTicker, HeartEnds, Breaks, Goes, Dies
<1> QED BY <1>2, <1>3, <1>4

(* A Disconnect that undoes the connection leaves a sleeper behind. *)
LEMMA DisconnectKeeps ==
  ASSUME StrandedInv, NEW p \in Procs, Disconnect(p) PROVE StrandedInv'
<1>1. CASE Clear(p)
  <2>1. /\ pc[p] = "clear"
        /\ \E to \in {"test", "closing", "gone"} : pc' = [pc EXCEPT ![p] = to]
    BY <1>1 DEF Clear, Return
  <2>2. pc' \in [Procs -> Places]
    BY <2>1 DEF StrandedInv, Places
  <2>3. /\ connected' = FALSE /\ reconnect' = reconnect /\ dialing' = dialing
        /\ sleeping' = IF reconnect THEN sleeping + 1 ELSE sleeping
    BY <1>1 DEF Clear
  <2>4. Counted
    BY DEF StrandedInv
  <2>5. sleeping' \in Nat /\ dialing' \in Nat /\ (reconnect' => sleeping' + dialing' > 0)
    BY <2>3, <2>4 DEF Counted
  <2>6. Counted'
    BY <2>3, <2>4, <2>5, Zenon DEF Counted
  <2> QED BY <2>2, <2>5, <2>6 DEF StrandedInv, NeverStranded
<1>2. CASE ~Clear(p)
  <2>1. UNCHANGED <<sleeping, dialing, connected, reconnect>>
    BY <1>2 DEF Disconnect, TestConnected, TestTicker, StopTicker, HangUp, sharedVars, countVars
  <2>2. \/ pc' = pc
        \/ /\ pc[p] \in {"test", "ticker", "stop", "hangup"}
           /\ \E to \in {"test", "ticker", "stop", "hangup", "clear", "closing", "gone"} :
                pc' = [pc EXCEPT ![p] = to]
    BY <1>2 DEF Disconnect, TestConnected, TestTicker, StopTicker, HangUp, Return, AfterTicker, Goes, Dies
  <2>3. CASE pc' = pc
    BY <2>1, <2>3, QuietStepKeeps DEF StrandedInv
  <2>4. ASSUME NEW to \in {"test", "ticker", "stop", "hangup", "clear", "closing", "gone"},
               pc[p] \in {"test", "ticker", "stop", "hangup"}, pc' = [pc EXCEPT ![p] = to]
        PROVE  StrandedInv'
    <3>1. to \in Places /\ pc[p] # "dialled"
      BY <2>4 DEF Places
    <3> QED BY <2>1, <2>4, <3>1, MoveKeeps
  <2> QED BY <2>2, <2>3, <2>4
<1> QED BY <1>1, <1>2

(* The goroutines that are only counted. *)
LEMMA CountersKeep ==
  ASSUME StrandedInv, DialFails \/ Wake PROVE StrandedInv'
<1>1. Counted /\ UNCHANGED <<connected, reconnect, pc>>
  BY DEF StrandedInv, DialFails, Wake, sharedVars
<1>2. CASE DialFails
  <2>1. /\ dialing > 0 /\ dialing' = dialing - 1
        /\ sleeping' = IF reconnect THEN sleeping + 1 ELSE sleeping
    BY <1>2 DEF DialFails
  <2>2. Counted' /\ (reconnect => sleeping' + dialing' > 0)
    BY <1>1, <2>1 DEF Counted
  <2> QED BY <1>1, <2>2 DEF StrandedInv, NeverStranded
<1>3. CASE Wake
  <2>1. /\ sleeping > 0 /\ sleeping' = sleeping - 1
        /\ dialing' = IF reconnect /\ ~connected THEN dialing + 1 ELSE dialing
    BY <1>3 DEF Wake
  <2>2. Counted' /\ (reconnect /\ ~connected => sleeping' + dialing' > 0)
    BY <1>1, <2>1 DEF Counted
  <2> QED BY <1>1, <2>2 DEF StrandedInv, NeverStranded
<1> QED BY <1>2, <1>3

LEMMA CloserKeeps ==
  ASSUME StrandedInv, Close \/ SetClosed PROVE StrandedInv'
<1>1. Closer \in Procs
  BY BoundIsPositive DEF Closer, Procs
<1>2. CASE Close
  <2>1. /\ pc' = [pc EXCEPT ![Closer] = "test"] /\ reconnect' = FALSE
        /\ UNCHANGED <<sleeping, dialing, connected>>
    BY <1>2 DEF Close, Goes, countVars
  <2>2. pc' \in [Procs -> Places]
    BY <2>1 DEF StrandedInv, Places
  <2> QED BY <2>1, <2>2 DEF StrandedInv, Counted, NeverStranded
<1>3. CASE SetClosed
  <2>1. /\ pc[Closer] = "closing" /\ pc' = [pc EXCEPT ![Closer] = "gone"]
        /\ UNCHANGED <<sleeping, dialing, connected, reconnect>>
    BY <1>3 DEF SetClosed, Goes, countVars
  <2>2. "gone" \in Places /\ pc[Closer] # "dialled"
    BY <2>1 DEF Places
  <2> QED BY <1>1, <2>1, <2>2, MoveKeeps
<1> QED BY <1>2, <1>3

LEMMA NextStranded == StrandedInv /\ [Next]_vars => StrandedInv'
<1> SUFFICES ASSUME StrandedInv, [Next]_vars PROVE StrandedInv'
  OBVIOUS
<1>1. CASE UNCHANGED vars
  BY <1>1, QuietStepKeeps DEF vars, sharedVars, countVars, StrandedInv
<1>2. CASE Next
  BY <1>2, ConnectKeeps, ReadKeeps, HeartKeeps, DisconnectKeeps, CountersKeep, CloserKeeps DEF Next
<1> QED BY <1>1, <1>2

-------------------------------------------------------------------------------

(* The counts and the flags keep their types, and NeverStranded is inductive
   with them. *)
THEOREM StrandedInvariance == Spec => []StrandedInv
<1> QED BY InitStranded, NextStranded, PTL DEF Spec

(* While Reconnect is set and there is no connection, a goroutine of the
   client sleeps, dials or is about to announce a connection, for any number
   of connections and any overlap of readers, heartbeats and reconnections. *)
THEOREM NotStranded == Spec => []NeverStranded
<1>1. StrandedInv => NeverStranded
  BY DEF StrandedInv
<1> QED BY <1>1, StrandedInvariance, PTL

-------------------------------------------------------------------------------
(* Types.                                                                  *)

(* A goroutine holds a connection or nothing, and so do the two pointers. *)
PointerTypes ==
  /\ conn \in Conns \cup {None} /\ ticker \in Conns \cup {None} /\ running \subseteq Conns
  /\ isClosed \in BOOLEAN /\ heartMessage \in BOOLEAN /\ panic \in BOOLEAN
  /\ net \in [Conns -> {"none", "up", "closed"}]
  /\ holds \in [Procs -> Conns \cup {None}]

(* Every step keeps these types. *)
LEMMA PointerTypesKept ==
  ASSUME PointerTypes, Next
  PROVE  PointerTypes'
PROOF
<1> USE DEF PointerTypes
<1>1. CASE DialFails \/ Wake \/ Close \/ SetClosed
  BY <1>1 DEF DialFails, Wake, Close, SetClosed, sharedVars
<1>2. ASSUME NEW c \in Conns, Connect(c)
      PROVE  PointerTypes'
  BY <1>2 DEF Connect, DialSucceeds, SetConnected, StartReader, Dies, sharedVars
<1>3. ASSUME NEW c \in Conns, Read(c)
      PROVE  PointerTypes'
  BY <1>3 DEF Read, ReaderCheck, ReaderLoad, ReadMessage, ReadEnds, CloseFrame, Breaks, Dies,
     sharedVars
<1>4. ASSUME NEW c \in Conns, Heart(c)
      PROVE  PointerTypes'
  BY <1>4 DEF Heart, NoHeart, NewTicker, RangeTicker, HeartEnds, Breaks, Dies, sharedVars
<1>5. ASSUME NEW p \in Procs, Disconnect(p)
      PROVE  PointerTypes'
  BY <1>5 DEF Disconnect, TestConnected, TestTicker, StopTicker, HangUp, Clear, Return, Dies,
     sharedVars
<1> QED
  BY <1>1, <1>2, <1>3, <1>4, <1>5 DEF Next

(* WebSocketClient.TypeOK: every variable of the client keeps its type. *)
THEOREM WebSocketTypes == Spec => []TypeOK
PROOF
<1>1. Init => PointerTypes
  BY DEF Init, PointerTypes
<1>2. PointerTypes /\ [Next]_vars => PointerTypes'
  <2>1. ASSUME PointerTypes, UNCHANGED vars
        PROVE  PointerTypes'
    BY <2>1 DEF PointerTypes, vars, sharedVars
  <2> QED
    BY <2>1, PointerTypesKept
<1>3. PointerTypes /\ StrandedInv => TypeOK
  BY DEF PointerTypes, StrandedInv, Counted, TypeOK
<1> QED
  BY <1>1, <1>2, <1>3, StrandedInvariance, PTL DEF Spec

-------------------------------------------------------------------------------
(* Who watches the connection.                                             *)

(* The worker of c is about to start the reader of c, or that reader goes on. *)
Watches(c) == pc[Worker(c)] = "handler" \/ pc[Reader(c)] \notin {"idle", "gone"}

(* client.go:66-112, 184-205: that a connection ended is seen by whoever reads.  As long
   as the client calls itself connected there is a reader that will, or one
   that is about to start, however many goroutines of other connections leave. *)
NeverUnwatched == connected => \E c \in Conns : Watches(c)

WatchInv == pc \in [Procs -> Places] /\ NeverUnwatched

(* The goroutines of one connection, those of another and Close are not the same. *)
LEMMA ProcsDiffer ==
  \A c \in Conns : /\ Worker(c) # Closer /\ Reader(c) # Closer
                   /\ \A b \in Conns : Worker(b) # Reader(c) /\ (b # c => Reader(b) # Reader(c))
BY BoundIsPositive, SMT DEF Worker, Reader, Closer, Conns

(* A goroutine that is not about to start a reader goes on, and ends only when
   nothing is connected. *)
LEMMA StepWatches ==
  ASSUME WatchInv, NEW p \in Procs, NEW to \in Places, pc' = [pc EXCEPT ![p] = to],
         pc[p] # "handler" \/ to = "handler", to = "gone" => ~connected', to # "idle",
         connected' => connected
  PROVE  WatchInv'
PROOF
<1>1. pc' \in [Procs -> Places] /\ \A q \in Procs : pc'[q] = IF q = p THEN to ELSE pc[q]
  BY DEF WatchInv
<1>2. ASSUME connected', NEW c \in Conns, Watches(c)
      PROVE  Watches(c)'
  BY <1>1, <1>2, WorkersAreProcs DEF Watches
<1> QED
  BY <1>1, <1>2 DEF WatchInv, NeverUnwatched

(* Nobody moves, or only a goroutine that is no reader and starts none. *)
LEMMA AsideWatches ==
  ASSUME WatchInv, connected' = connected, pc' \in [Procs -> Places],
         \A c \in Conns : pc'[Reader(c)] = pc[Reader(c)]
                          /\ (pc[Worker(c)] = "handler" => pc'[Worker(c)] = "handler")
  PROVE  WatchInv'
BY DEF WatchInv, NeverUnwatched, Watches

(* The worker that announces a connection is the one that starts its reader. *)
LEMMA ConnectWatches ==
  ASSUME WatchInv, NEW c \in Conns, Connect(c)
  PROVE  WatchInv'
PROOF
<1>1. Worker(c) \in Procs /\ Reader(c) \in Procs /\ Worker(c) # Reader(c)
  BY WorkersAreProcs, ProcsDiffer
<1>2. CASE DialSucceeds(c)
  <2>1. /\ pc[Worker(c)] = "idle" /\ pc' = [pc EXCEPT ![Worker(c)] = "dialled"]
        /\ connected' = connected
    BY <1>2 DEF DialSucceeds, Goes
  <2> QED
    BY <1>1, <2>1, StepWatches DEF Places
<1>3. CASE SetConnected(c)
  <2>1. pc' = [pc EXCEPT ![Worker(c)] = "handler"]
    BY <1>3 DEF SetConnected, Goes
  <2>2. pc' \in [Procs -> Places] /\ pc'[Worker(c)] = "handler"
    BY <1>1, <2>1 DEF WatchInv, Places
  <2> QED
    BY <2>2 DEF WatchInv, NeverUnwatched, Watches
<1>4. CASE StartReader(c) /\ conn = None
  BY <1>4, AsideWatches DEF StartReader, Dies, sharedVars, WatchInv
<1>5. CASE StartReader(c) /\ conn # None
  <2>1. pc' = [pc EXCEPT ![Worker(c)] = "heart", ![Reader(c)] = "check"]
    BY <1>5 DEF StartReader
  <2>2. pc' \in [Procs -> Places] /\ pc'[Reader(c)] = "check"
    BY <1>1, <2>1 DEF WatchInv, Places
  <2> QED
    BY <2>2 DEF WatchInv, NeverUnwatched, Watches
<1> QED
  BY <1>2, <1>3, <1>4, <1>5 DEF Connect

(* A Heart that has no message ends beside the reader. *)
LEMMA NoHeartWatches ==
  ASSUME WatchInv, NEW c \in Conns, NoHeart(c)
  PROVE  WatchInv'
PROOF
<1>1. pc[Worker(c)] = "heart" /\ pc' = [pc EXCEPT ![Worker(c)] = "gone"] /\ connected' = connected
  BY DEF NoHeart, Goes, sharedVars
<1>2. /\ pc' \in [Procs -> Places]
      /\ \A q \in Procs : q # Worker(c) => pc'[q] = pc[q]
  BY <1>1 DEF WatchInv, Places
<1> QED
  BY <1>1, <1>2, WorkersAreProcs, ProcsDiffer, AsideWatches

(* The loops of the reader and of Heart leave only into Disconnect. *)
LEMMA LoopsWatch ==
  ASSUME WatchInv, NEW c \in Conns, Read(c) \/ (Heart(c) /\ ~NoHeart(c))
  PROVE  WatchInv'
PROOF
<1>1. Worker(c) \in Procs /\ Reader(c) \in Procs
  BY WorkersAreProcs
<1>2. connected' = connected
  BY DEF Read, ReaderCheck, ReaderLoad, ReadMessage, ReadEnds, CloseFrame, Heart, NewTicker,
     RangeTicker, HeartEnds, sharedVars
<1>3. \/ pc' = pc
      \/ \E p \in {Worker(c), Reader(c)} :
           \E to \in {"check", "load", "read", "range", "wait", "test"} :
             pc[p] \in {"check", "load", "read", "heart", "range", "wait"}
             /\ pc' = [pc EXCEPT ![p] = to]
  BY DEF Read, ReaderCheck, ReaderLoad, ReadMessage, ReadEnds, CloseFrame, Heart, NewTicker,
     RangeTicker, HeartEnds, Breaks, Goes, Dies
<1>4. CASE pc' = pc
  BY <1>2, <1>4, AsideWatches DEF WatchInv
<1>5. ASSUME NEW p \in Procs,
             NEW to \in {"check", "load", "read", "range", "wait", "test"},
             pc[p] \in {"check", "load", "read", "heart", "range", "wait"},
             pc' = [pc EXCEPT ![p] = to]
      PROVE  WatchInv'
  BY <1>2, <1>5, StepWatches DEF Places
<1> QED
  BY <1>1, <1>3, <1>4, <1>5

(* A Disconnect returns when it finds nothing connected, or has made it so. *)
LEMMA DisconnectWatches ==
  ASSUME WatchInv, NEW p \in Procs, Disconnect(p)
  PROVE  WatchInv'
PROOF
<1>1. connected' => connected
  BY DEF Disconnect, TestConnected, TestTicker, StopTicker, HangUp, Clear, sharedVars
<1>2. \/ pc' = pc /\ connected' = connected
      \/ \E to \in {"test", "ticker", "stop", "hangup", "clear", "closing", "gone"} :
           /\ pc[p] \in {"test", "ticker", "stop", "hangup", "clear"}
           /\ pc' = [pc EXCEPT ![p] = to] /\ (to = "gone" => ~connected')
  BY DEF Disconnect, TestConnected, TestTicker, StopTicker, HangUp, Clear, Return, AfterTicker,
     Goes, Dies, sharedVars
<1>3. CASE pc' = pc /\ connected' = connected
  BY <1>3, AsideWatches DEF WatchInv
<1>4. ASSUME NEW to \in {"test", "ticker", "stop", "hangup", "clear", "closing", "gone"},
             pc[p] \in {"test", "ticker", "stop", "hangup", "clear"},
             pc' = [pc EXCEPT ![p] = to], to = "gone" => ~connected'
      PROVE  WatchInv'
  BY <1>1, <1>4, StepWatches DEF Places
<1> QED
  BY <1>2, <1>3, <1>4

(* Every step keeps somebody watching. *)
LEMMA NextWatched == WatchInv /\ [Next]_vars => WatchInv'
PROOF
<1> SUFFICES ASSUME WatchInv, [Next]_vars
             PROVE  WatchInv'
  OBVIOUS
<1>1. CASE UNCHANGED vars
  BY <1>1, AsideWatches DEF vars, sharedVars, WatchInv
<1>2. CASE DialFails \/ Wake
  BY <1>2, AsideWatches DEF DialFails, Wake, sharedVars, WatchInv
<1>3. CASE Close \/ SetClosed
  <2>1. Closer \in Procs /\ connected' = connected
    BY <1>3, BoundIsPositive DEF Closer, Procs, Close, SetClosed
  <2>2. \E to \in {"test", "gone"} : pc' = [pc EXCEPT ![Closer] = to]
    BY <1>3 DEF Close, SetClosed, Goes
  <2>3. /\ pc' \in [Procs -> Places]
        /\ \A q \in Procs : q # Closer => pc'[q] = pc[q]
    BY <2>2 DEF WatchInv, Places
  <2> QED
    BY <2>1, <2>3, WorkersAreProcs, ProcsDiffer, AsideWatches
<1> QED
  BY <1>1, <1>2, <1>3, ConnectWatches, NoHeartWatches, LoopsWatch, DisconnectWatches DEF Next

(* The client never calls itself connected without a reader that watches the
   connection or is about to be started, for any number of connections. *)
THEOREM ConnectionWatched == Spec => []NeverUnwatched
PROOF
<1>1. Init => WatchInv
  BY DEF Init, WatchInv, NeverUnwatched, Places
<1>2. WatchInv => NeverUnwatched
  BY DEF WatchInv
<1> QED
  BY <1>1, <1>2, NextWatched, PTL DEF Spec

-------------------------------------------------------------------------------
(* After Close.                                                            *)

(* client.go:55-58, 150-155, 201-213: from the moment OnClosing cleared Reconnect no step,
   of a sleep, a dial or a Disconnect that was under way, adds a goroutine that
   sleeps or dials, and Reconnect is never set again. *)
OnlyWindsDown ==
  ~reconnect => ~reconnect' /\ sleeping' <= sleeping /\ dialing' <= dialing

(* One step, whoever takes it. *)
LEMMA StepWindsDown == StrandedInv /\ [Next]_vars => OnlyWindsDown
PROOF
<1> SUFFICES ASSUME StrandedInv, [Next]_vars, ~reconnect
             PROVE  ~reconnect' /\ sleeping' <= sleeping /\ dialing' <= dialing
  BY DEF OnlyWindsDown
<1>1. sleeping \in Nat /\ dialing \in Nat
  BY DEF StrandedInv, Counted
<1>2. CASE UNCHANGED <<sleeping, dialing, reconnect>>
  BY <1>1, <1>2
<1>3. CASE DialFails \/ Wake
  BY <1>1, <1>3 DEF DialFails, Wake, sharedVars
<1>4. CASE Close \/ SetClosed
  BY <1>1, <1>4 DEF Close, SetClosed, countVars
<1>5. ASSUME NEW c \in Conns, Connect(c)
      PROVE  ~reconnect' /\ sleeping' <= sleeping /\ dialing' <= dialing
  BY <1>1, <1>5 DEF Connect, DialSucceeds, SetConnected, StartReader, sharedVars, countVars
<1>6. ASSUME NEW c \in Conns, Read(c) \/ Heart(c)
      PROVE  UNCHANGED <<sleeping, dialing, reconnect>>
  BY <1>6 DEF Read, ReaderCheck, ReaderLoad, ReadMessage, ReadEnds, CloseFrame, Heart,
     NoHeart, NewTicker, RangeTicker, HeartEnds, sharedVars, countVars
<1>7. ASSUME NEW p \in Procs, Disconnect(p)
      PROVE  ~reconnect' /\ sleeping' <= sleeping /\ dialing' <= dialing
  BY <1>1, <1>7 DEF Disconnect, TestConnected, TestTicker, StopTicker, HangUp, Clear,
     sharedVars, countVars
<1> QED
  BY <1>2, <1>3, <1>4, <1>5, <1>6, <1>7 DEF Next, vars, sharedVars, countVars

(* Once OnClosing cleared Reconnect the goroutines that sleep or dial only
   become fewer, however many there were. *)
THEOREM ClosingWindsDown == Spec => [][OnlyWindsDown]_vars
PROOF
<1> QED
  BY StrandedInvariance, StepWindsDown, PTL DEF Spec

===============================================================================
