------------------------------ MODULE ServerProofs -----------------------------
(***************************************************************************)
(* The table of sockets of module Server, its locks, and what the          *)
(* application is told: proofs for any number of clients, channels,        *)
(* streams, sockets and closers.                                           *)
(*                                                                         *)
(* Moves restates Next with the ways the process can die put apart (Stops).*)
(* Six lemmas say which moves change which variables, and OwnSteps that a *)
(* goroutine is where it was unless it took the step itself; each part of  *)
(* the invariant is then kept by the few moves that can disturb it.  At the *)
(* end each socket of the table is shown to close by the protocol of       *)
(* CloseableObject, and the calls to come to their ends.                   *)
(***************************************************************************)
EXTENDS Server, TLAPS

-------------------------------------------------------------------------------
(* The steps, those in which the process dies apart from the others.       *)

Stops ==
  /\ lock' = lock \/ (lock = NoOne /\ lock' \in Streams)
  /\ panic' \in {"listener", "nil map", "nil channel", "nil socket"}
  /\ UNCHANGED <<tableVars, listenVars, socketVars, pc, at, arg, closeVars, toldVars>>

Created(t, n) ==
  /\ Goes(t, "lock", "announce") /\ LockTable(t)
  /\ phase[n] = "none" /\ table[arg[t]] = None
  /\ table' = [table EXCEPT ![arg[t]] = n]
  /\ phase' = [phase EXCEPT ![n] = "open"]
  /\ owner' = [owner EXCEPT ![n] = arg[t]]
  /\ overlap' = [overlap EXCEPT ![n] = NotEnded(arg[t]) \/ pc[Main] # "idle"]
  /\ at' = [at EXCEPT ![t] = n]
  /\ UNCHANGED <<tableNil, listenVars, closeLock, attached, arg, closeVars, toldVars, panic>>

EncoderUsed(t) ==
  /\ Goes(t, "encoder", "lookup") /\ lock' = NoOne
  /\ UNCHANGED <<tableVars, listenVars, socketVars, at, arg, closeVars, toldVars, panic>>

LookedUp(t) ==
  /\ Goes(t, "lookup", "attach") /\ table[arg[t]] # None
  /\ at' = [at EXCEPT ![t] = table[arg[t]]]
  /\ UNCHANGED <<tableVars, lock, listenVars, socketVars, arg, closeVars, toldVars, panic>>

Attached(t, c) ==
  /\ Goes(t, "attach", "gone") /\ phase[at[t]] = "open"
  /\ attached' = [attached EXCEPT ![at[t]] = @ \cup {c}]
  /\ early' = [early EXCEPT ![at[t]] = @ \/ accepted[at[t]] = 0]
  /\ at' = [at EXCEPT ![t] = None]
  /\ UNCHANGED <<tableVars, lock, listenVars, phase, owner, closeLock, overlap, arg,
                 closeVars, accepted, ended, panic>>

EntryCleared(g) ==
  /\ Goes(g, "clear", "delete")
  /\ table' = [table EXCEPT ![owner[at[g]]] = None]
  /\ UNCHANGED <<tableNil, lock, listenVars, socketVars, at, arg, closeVars, toldVars, panic>>

NoSocket(g) ==
  /\ CloseSocketDone(g, "lock") /\ table[arg[g]] = None
  /\ UNCHANGED <<tableVars, lock, listenVars, socketVars, at, arg, closeVars, toldVars, panic>>

SocketSeen(g) ==
  /\ Goes(g, "lock", "load") /\ LockTable(g)
  /\ UNCHANGED <<tableVars, listenVars, socketVars, at, arg, closeVars, toldVars, panic>>

SocketLoaded(g) ==
  /\ Goes(g, "load", "close") /\ table[arg[g]] # None
  /\ at' = [at EXCEPT ![g] = table[arg[g]]]
  /\ UNCHANGED <<tableVars, lock, listenVars, socketVars, arg, closeVars, toldVars, panic>>

SocketRemoved(g) ==
  /\ CloseSocketDone(g, "remove") /\ lock' = NoOne
  /\ table' = [table EXCEPT ![arg[g]] = None]
  /\ UNCHANGED <<tableNil, listenVars, socketVars, at, arg, closeVars, toldVars, panic>>

Listens == Listen /\ UNCHANGED <<tableVars, lock, socketVars, pc, at, arg, closeVars, toldVars>>

StreamMoves(t) ==
  \/ FindSocket(t) \/ (\E n \in Sockets : Created(t, n)) \/ OnAcceptSocket(t) \/ EncoderUsed(t)
  \/ LookedUp(t) \/ (\E c \in Indexes : Attached(t, c)) \/ \E i \in Ids : AcceptStream(t, i)

CloseMoves(g) ==
  CloseAgain(g) \/ CloseEnter(g) \/ LookEntry(g) \/ EntryCleared(g) \/ DeleteEntry(g) \/ Tell(g)

CloseSocketMoves(g) == NoSocket(g) \/ SocketSeen(g) \/ SocketLoaded(g) \/ SocketRemoved(g)

MainMoves == ServerClose \/ RangeDone \/ ServerClosed \/ \E i \in Ids : RangeNext(i)

Moves ==
  \/ Stops \/ Listens \/ MainMoves
  \/ \E t \in Streams : StreamMoves(t)
  \/ \E g \in Goroutines : CloseMoves(g)
  \/ \E g \in Workers : CloseSocketMoves(g)
  \/ \E k \in Closers, i \in Ids : ServerSocketClose(k, i)
  \/ \E n \in Sockets : SocketEnds(n)

(* Every step of Next is one of the moves, or stops the process. *)
LEMMA EveryStepMoves ==
  ASSUME panic \in {"none", "listener", "nil map", "nil channel", "nil socket"}, Next
  PROVE  Moves
PROOF
<1>1. Listen => Listens
  BY DEF Listen, ListenLoad, Accept, AcceptFails, Listens, Elsewhere, ListenVarsButPc
<1>2. ASSUME NEW t \in Streams, CreateSocket(t)
      PROVE  Stops \/ \E n \in Sockets : Created(t, n)
  <2>1. PICK n \in Sockets : CreateSocket(t)!(n)
    BY <1>2 DEF CreateSocket
  <2>2. CASE tableNil
    BY <2>1, <2>2 DEF Stops, Dies, LockTable, tableVars, socketVars
  <2>3. CASE ~tableNil
    BY <2>1, <2>3 DEF Created
  <2> QED
    BY <2>2, <2>3
<1>3. ASSUME NEW t \in Streams, ProcessStream(t)
      PROVE  Stops \/ StreamMoves(t)
  <2>1. UseEncoder(t) => Stops \/ EncoderUsed(t)
    BY DEF UseEncoder, Stops, Dies, EncoderUsed
  <2>2. Lookup(t) => Stops \/ LookedUp(t)
    BY DEF Lookup, Stops, Dies, LookedUp
  <2>3. ASSUME NEW c \in Indexes, AttachStream(t, c)
        PROVE  Stops \/ Attached(t, c)
    BY <2>3 DEF AttachStream, Stops, Dies, Attached, socketVars, toldVars
  <2> QED
    BY <1>3, <2>1, <2>2, <2>3 DEF ProcessStream, StreamMoves
<1>4. ASSUME NEW g \in Goroutines, OnDisconnect(g)
      PROVE  Stops \/ CloseMoves(g)
  <2>1. ClearEntry(g) => Stops \/ EntryCleared(g)
    BY DEF ClearEntry, Stops, Dies, EntryCleared, tableVars
  <2> QED
    BY <1>4, <2>1 DEF OnDisconnect, CloseMoves
<1>5. ASSUME NEW g \in Workers, LookSocket(g) \/ CloseSocket(g)
      PROVE  Stops \/ CloseSocketMoves(g)
  <2>1. LookSocket(g) => NoSocket(g) \/ SocketSeen(g)
    BY DEF LookSocket, NoSocket, SocketSeen
  <2>2. LoadSocket(g) => Stops \/ SocketLoaded(g)
    BY DEF LoadSocket, Stops, Dies, SocketLoaded
  <2>3. RemoveSocket(g) => Stops \/ SocketRemoved(g)
    BY DEF RemoveSocket, Stops, Dies, SocketRemoved, tableVars
  <2> QED
    BY <1>5, <2>1, <2>2, <2>3 DEF CloseSocket, CloseSocketMoves
<1>6. ASSUME NEW g \in Goroutines, LockStep(g) \/ RunStep(g)
      PROVE  Moves
  <2>1. CASE LockStep(g)
    BY <2>1, <1>2, <1>5 DEF LockStep, Moves, StreamMoves, CloseMoves, Goroutines, Workers
  <2>2. CASE RunStep(g)
    BY <2>2, <1>3, <1>4, <1>5 DEF RunStep, Moves, MainMoves
  <2> QED
    BY <1>6, <2>1, <2>2
<1> QED
  BY <1>1, <1>6 DEF Next, Moves, StreamMoves, MainMoves

-------------------------------------------------------------------------------
(* What a step leaves alone.                                               *)

(* Who changes the table. *)
LEMMA TableSteps ==
  ASSUME Moves
  PROVE  \/ UNCHANGED table
         \/ RangeDone
         \/ \E h \in Streams, n \in Sockets : Created(h, n)
         \/ \E h \in Goroutines : EntryCleared(h) \/ DeleteEntry(h)
         \/ \E h \in Workers : SocketRemoved(h)
PROOF
<1> DEFINE Frame ==
       \/ UNCHANGED table
       \/ RangeDone
       \/ \E h \in Streams, n \in Sockets : Created(h, n)
       \/ \E h \in Goroutines : EntryCleared(h) \/ DeleteEntry(h)
       \/ \E h \in Workers : SocketRemoved(h)
<1>1. Stops => Frame
  BY DEF Stops, tableVars, listenVars, socketVars, closeVars, toldVars
<1>2. Listens => Frame
  BY DEF Listens, Listen, ListenLoad, Accept, AcceptFails, ListenGoes, tableVars,
     socketVars, closeVars, toldVars
<1>3. MainMoves => Frame
  BY DEF MainMoves, ServerClose, Goes, Present, RangeNext, ServerClosed, tableVars,
     socketVars, toldVars, listenVars
<1>4. ASSUME NEW t \in Streams, StreamMoves(t)
      PROVE  Frame
  BY <1>4 DEF StreamMoves, FindSocket, Goes, LockTable, OnAcceptSocket, EncoderUsed, LookedUp,
     Attached, AcceptStream, tableVars, listenVars, socketVars, closeVars, toldVars
<1>5. ASSUME NEW g \in Goroutines, CloseMoves(g)
      PROVE  Frame
  BY <1>5 DEF CloseMoves, CloseAgain, Goes, Returns, CloseEnter, LookEntry, Tell, tableVars,
     listenVars, socketVars, closeVars, toldVars
<1>6. ASSUME NEW g \in Workers, CloseSocketMoves(g)
      PROVE  Frame
  BY <1>6 DEF CloseSocketMoves, NoSocket, Goes, CloseSocketDone, SocketSeen, LockTable,
     SocketLoaded, tableVars, listenVars, socketVars, closeVars, toldVars
<1>7. ASSUME NEW k \in Closers, NEW i \in Ids, ServerSocketClose(k, i)
      PROVE  Frame
  BY <1>7 DEF ServerSocketClose, Goes, tableVars, listenVars, socketVars, closeVars, toldVars
<1>8. ASSUME NEW s \in Sockets, SocketEnds(s)
      PROVE  Frame
  BY <1>8 DEF SocketEnds, Goes, tableVars, listenVars, socketVars, closeVars, toldVars
<1> QED
  BY <1>1, <1>2, <1>3, <1>4, <1>5, <1>6, <1>7, <1>8 DEF Moves

(* Who changes the state of a socket. *)
LEMMA PhaseSteps ==
  ASSUME Moves
  PROVE  \/ UNCHANGED <<phase, owner, closeLock, overlap>>
         \/ \E h \in Streams, n \in Sockets : Created(h, n)
         \/ \E h \in Goroutines : CloseEnter(h) \/ LookEntry(h) \/ Tell(h)
PROOF
<1> DEFINE Frame ==
       \/ UNCHANGED <<phase, owner, closeLock, overlap>>
       \/ \E h \in Streams, n \in Sockets : Created(h, n)
       \/ \E h \in Goroutines : CloseEnter(h) \/ LookEntry(h) \/ Tell(h)
<1>1. Stops => Frame
  BY DEF Stops, tableVars, listenVars, socketVars, closeVars, toldVars
<1>2. Listens => Frame
  BY DEF Listens, Listen, ListenLoad, Accept, AcceptFails, ListenGoes, tableVars,
     socketVars, closeVars, toldVars
<1>3. MainMoves => Frame
  BY DEF MainMoves, ServerClose, Goes, Present, RangeNext, RangeDone, ServerClosed,
     tableVars, socketVars, toldVars, listenVars, closeVars
<1>4. ASSUME NEW t \in Streams, StreamMoves(t)
      PROVE  Frame
  BY <1>4 DEF StreamMoves, FindSocket, Goes, LockTable, OnAcceptSocket, EncoderUsed, LookedUp,
     Attached, AcceptStream, tableVars, listenVars, socketVars, closeVars, toldVars
<1>5. ASSUME NEW g \in Goroutines, CloseMoves(g)
      PROVE  Frame
  BY <1>5 DEF CloseMoves, CloseAgain, Goes, Returns, EntryCleared, DeleteEntry, tableVars,
     listenVars, socketVars, closeVars, toldVars
<1>6. ASSUME NEW g \in Workers, CloseSocketMoves(g)
      PROVE  Frame
  BY <1>6 DEF CloseSocketMoves, NoSocket, Goes, CloseSocketDone, SocketSeen, LockTable,
     SocketLoaded, SocketRemoved, tableVars, listenVars, socketVars, closeVars, toldVars
<1>7. ASSUME NEW k \in Closers, NEW i \in Ids, ServerSocketClose(k, i)
      PROVE  Frame
  BY <1>7 DEF ServerSocketClose, Goes, tableVars, listenVars, socketVars, closeVars, toldVars
<1>8. ASSUME NEW s \in Sockets, SocketEnds(s)
      PROVE  Frame
  BY <1>8 DEF SocketEnds, Goes, tableVars, listenVars, socketVars, closeVars, toldVars
<1> QED
  BY <1>1, <1>2, <1>3, <1>4, <1>5, <1>6, <1>7, <1>8 DEF Moves

(* Who attaches streams and tells the application. *)
LEMMA ToldSteps ==
  ASSUME Moves
  PROVE  \/ UNCHANGED <<attached, accepted, ended, early>>
         \/ \E h \in Streams : OnAcceptSocket(h) \/ \E j \in Indexes : Attached(h, j)
         \/ \E h \in Goroutines : Tell(h)
PROOF
<1> DEFINE Frame ==
       \/ UNCHANGED <<attached, accepted, ended, early>>
       \/ \E h \in Streams : OnAcceptSocket(h) \/ \E j \in Indexes : Attached(h, j)
       \/ \E h \in Goroutines : Tell(h)
<1>1. Stops => Frame
  BY DEF Stops, tableVars, listenVars, socketVars, closeVars, toldVars
<1>2. Listens => Frame
  BY DEF Listens, Listen, ListenLoad, Accept, AcceptFails, ListenGoes, tableVars,
     socketVars, closeVars, toldVars
<1>3. MainMoves => Frame
  BY DEF MainMoves, ServerClose, Goes, Present, RangeNext, RangeDone, ServerClosed,
     tableVars, socketVars, toldVars, listenVars, closeVars
<1>4. ASSUME NEW t \in Streams, StreamMoves(t)
      PROVE  Frame
  BY <1>4 DEF StreamMoves, FindSocket, Goes, LockTable, Created, EncoderUsed, LookedUp,
     AcceptStream, tableVars, listenVars, socketVars, closeVars, toldVars
<1>5. ASSUME NEW g \in Goroutines, CloseMoves(g)
      PROVE  Frame
  BY <1>5 DEF CloseMoves, CloseAgain, Goes, Returns, CloseEnter, LookEntry, EntryCleared,
     DeleteEntry, tableVars, listenVars, socketVars, closeVars, toldVars
<1>6. ASSUME NEW g \in Workers, CloseSocketMoves(g)
      PROVE  Frame
  BY <1>6 DEF CloseSocketMoves, NoSocket, Goes, CloseSocketDone, SocketSeen, LockTable,
     SocketLoaded, SocketRemoved, tableVars, listenVars, socketVars, closeVars, toldVars
<1>7. ASSUME NEW k \in Closers, NEW i \in Ids, ServerSocketClose(k, i)
      PROVE  Frame
  BY <1>7 DEF ServerSocketClose, Goes, tableVars, listenVars, socketVars, closeVars, toldVars
<1>8. ASSUME NEW s \in Sockets, SocketEnds(s)
      PROVE  Frame
  BY <1>8 DEF SocketEnds, Goes, tableVars, listenVars, socketVars, closeVars, toldVars
<1> QED
  BY <1>1, <1>2, <1>3, <1>4, <1>5, <1>6, <1>7, <1>8 DEF Moves

(* Who changes what the close of the server has done. *)
LEMMA CloseVarsSteps ==
  ASSUME Moves
  PROVE  \/ UNCHANGED closeVars
         \/ ServerClose
         \/ \E j \in Ids : RangeNext(j)
         \/ ServerClosed
PROOF
<1> DEFINE Frame ==
       \/ UNCHANGED closeVars
       \/ ServerClose
       \/ \E j \in Ids : RangeNext(j)
       \/ ServerClosed
<1>1. Stops => Frame
  BY DEF Stops, tableVars, listenVars, socketVars, closeVars, toldVars
<1>2. Listens => Frame
  BY DEF Listens, Listen, ListenLoad, Accept, AcceptFails, ListenGoes, tableVars,
     socketVars, closeVars, toldVars
<1>3. MainMoves => Frame
  BY DEF MainMoves, RangeDone, Goes, listenVars, socketVars, closeVars, toldVars
<1>4. ASSUME NEW t \in Streams, StreamMoves(t)
      PROVE  Frame
  BY <1>4 DEF StreamMoves, FindSocket, Goes, LockTable, Created, OnAcceptSocket, EncoderUsed,
     LookedUp, Attached, AcceptStream, tableVars, listenVars, socketVars, closeVars, toldVars
<1>5. ASSUME NEW g \in Goroutines, CloseMoves(g)
      PROVE  Frame
  BY <1>5 DEF CloseMoves, CloseAgain, Goes, Returns, CloseEnter, LookEntry, EntryCleared,
     DeleteEntry, Tell, tableVars, listenVars, socketVars, closeVars, toldVars
<1>6. ASSUME NEW g \in Workers, CloseSocketMoves(g)
      PROVE  Frame
  BY <1>6 DEF CloseSocketMoves, NoSocket, Goes, CloseSocketDone, SocketSeen, LockTable,
     SocketLoaded, SocketRemoved, tableVars, listenVars, socketVars, closeVars, toldVars
<1>7. ASSUME NEW k \in Closers, NEW i \in Ids, ServerSocketClose(k, i)
      PROVE  Frame
  BY <1>7 DEF ServerSocketClose, Goes, tableVars, listenVars, socketVars, closeVars, toldVars
<1>8. ASSUME NEW s \in Sockets, SocketEnds(s)
      PROVE  Frame
  BY <1>8 DEF SocketEnds, Goes, tableVars, listenVars, socketVars, closeVars, toldVars
<1> QED
  BY <1>1, <1>2, <1>3, <1>4, <1>5, <1>6, <1>7, <1>8 DEF Moves

(* Who gives the lock away. *)
LEMMA LockSteps ==
  ASSUME Moves
  PROVE  \/ UNCHANGED lock
         \/ lock = NoOne
         \/ \E h \in Streams : EncoderUsed(h)
         \/ \E h \in Workers : SocketRemoved(h)
PROOF
<1> DEFINE Frame ==
       \/ UNCHANGED lock
       \/ lock = NoOne
       \/ \E h \in Streams : EncoderUsed(h)
       \/ \E h \in Workers : SocketRemoved(h)
<1>1. Stops => Frame
  BY DEF Stops, tableVars, listenVars, socketVars, closeVars, toldVars
<1>2. Listens => Frame
  BY DEF Listens, Listen, ListenLoad, Accept, AcceptFails, ListenGoes, tableVars,
     socketVars, closeVars, toldVars
<1>3. MainMoves => Frame
  BY DEF MainMoves, ServerClose, Goes, Present, RangeNext, RangeDone, ServerClosed,
     tableVars, socketVars, toldVars, listenVars, closeVars
<1>4. ASSUME NEW t \in Streams, StreamMoves(t)
      PROVE  Frame
  BY <1>4 DEF StreamMoves, FindSocket, Goes, LockTable, Created, OnAcceptSocket, LookedUp,
     Attached, AcceptStream, tableVars, listenVars, socketVars, closeVars, toldVars
<1>5. ASSUME NEW g \in Goroutines, CloseMoves(g)
      PROVE  Frame
  BY <1>5 DEF CloseMoves, CloseAgain, Goes, Returns, CloseEnter, LookEntry, EntryCleared,
     DeleteEntry, Tell, tableVars, listenVars, socketVars, closeVars, toldVars
<1>6. ASSUME NEW g \in Workers, CloseSocketMoves(g)
      PROVE  Frame
  BY <1>6 DEF CloseSocketMoves, NoSocket, Goes, CloseSocketDone, SocketSeen, LockTable,
     SocketLoaded, tableVars, listenVars, socketVars, closeVars, toldVars
<1>7. ASSUME NEW k \in Closers, NEW i \in Ids, ServerSocketClose(k, i)
      PROVE  Frame
  BY <1>7 DEF ServerSocketClose, Goes, tableVars, listenVars, socketVars, closeVars, toldVars
<1>8. ASSUME NEW s \in Sockets, SocketEnds(s)
      PROVE  Frame
  BY <1>8 DEF SocketEnds, Goes, tableVars, listenVars, socketVars, closeVars, toldVars
<1> QED
  BY <1>1, <1>2, <1>3, <1>4, <1>5, <1>6, <1>7, <1>8 DEF Moves

(* Who takes the lock, while the process lives. *)
LEMMA LockTakers ==
  ASSUME Moves, panic' = "none"
  PROVE  \/ UNCHANGED lock
         \/ lock' = NoOne
         \/ \E h \in Streams : FindSocket(h) \/ \E n \in Sockets : Created(h, n)
         \/ \E h \in Workers : SocketSeen(h)
PROOF
<1> DEFINE Frame ==
       \/ UNCHANGED lock
       \/ lock' = NoOne
       \/ \E h \in Streams : FindSocket(h) \/ \E n \in Sockets : Created(h, n)
       \/ \E h \in Workers : SocketSeen(h)
<1>1. Stops => Frame
  BY DEF Stops, tableVars, listenVars, socketVars, closeVars, toldVars
<1>2. Listens => Frame
  BY DEF Listens, Listen, ListenLoad, Accept, AcceptFails, ListenGoes, tableVars,
     socketVars, closeVars, toldVars
<1>3. MainMoves => Frame
  BY DEF MainMoves, ServerClose, Goes, Present, RangeNext, RangeDone, ServerClosed,
     tableVars, socketVars, toldVars, listenVars, closeVars
<1>4. ASSUME NEW t \in Streams, StreamMoves(t)
      PROVE  Frame
  BY <1>4 DEF StreamMoves, Goes, OnAcceptSocket, LookedUp,
     EncoderUsed, Attached, AcceptStream, tableVars, listenVars, socketVars, closeVars, toldVars
<1>5. ASSUME NEW g \in Goroutines, CloseMoves(g)
      PROVE  Frame
  BY <1>5 DEF CloseMoves, CloseAgain, Goes, Returns, CloseEnter, LookEntry, EntryCleared,
     DeleteEntry, Tell, tableVars, listenVars, socketVars, closeVars, toldVars
<1>6. ASSUME NEW g \in Workers, CloseSocketMoves(g)
      PROVE  Frame
  BY <1>6 DEF CloseSocketMoves, NoSocket, Goes, CloseSocketDone,
     SocketLoaded, SocketRemoved, tableVars, listenVars, socketVars, closeVars, toldVars
<1>7. ASSUME NEW k \in Closers, NEW i \in Ids, ServerSocketClose(k, i)
      PROVE  Frame
  BY <1>7 DEF ServerSocketClose, Goes, tableVars, listenVars, socketVars, closeVars, toldVars
<1>8. ASSUME NEW s \in Sockets, SocketEnds(s)
      PROVE  Frame
  BY <1>8 DEF SocketEnds, Goes, tableVars, listenVars, socketVars, closeVars, toldVars
<1> QED
  BY <1>1, <1>2, <1>3, <1>4, <1>5, <1>6, <1>7, <1>8 DEF Moves

Own(w) ==
  \/ w \in Streams /\ StreamMoves(w)
  \/ CloseMoves(w)
  \/ w \in Workers /\ CloseSocketMoves(w)
  \/ w = Main /\ MainMoves
  \/ w \in Closers /\ \E i \in Ids : ServerSocketClose(w, i)
  \/ w \in Sockets /\ SocketEnds(w)

Stays(w) == pc'[w] = pc[w] /\ at'[w] = at[w] /\ (w \in Workers => arg'[w] = arg[w])

(* A step of another leaves w where it is. *)
LEMMA OwnSteps ==
  ASSUME TypeOK, Moves, NEW w \in Goroutines
  PROVE  Own(w) \/ Stays(w)
PROOF
<1>1. pc \in [Goroutines -> Places] /\ at \in [Goroutines -> Sockets \cup {None}]
      /\ arg \in [Workers -> Ids]
  BY DEF TypeOK
<1>2. (Stops \/ Listens) => Stays(w)
  BY DEF Stops, Listens, Stays, tableVars, socketVars, closeVars, toldVars
<1>3. ASSUME MainMoves, w # Main
      PROVE  Stays(w)
  BY <1>3, <1>1, GoroutinesDiffer DEF Workers, Goroutines, Stays, MainMoves, ServerClose,
     Goes, Present, RangeNext, RangeDone, ServerClosed, tableVars, socketVars, toldVars,
     listenVars, closeVars
<1>4. ASSUME NEW t \in Streams, StreamMoves(t), w # t
      PROVE  Stays(w)
  BY <1>4, <1>1, GoroutinesDiffer DEF Workers, Goroutines, Stays, StreamMoves, FindSocket,
     Goes, LockTable, Created, OnAcceptSocket, EncoderUsed, LookedUp, Attached,
     AcceptStream, tableVars, listenVars, socketVars, closeVars, toldVars
<1>5. ASSUME NEW g \in Goroutines, CloseMoves(g), w # g
      PROVE  Stays(w)
  BY <1>5, <1>1, GoroutinesDiffer DEF Workers, Goroutines, Stays, CloseMoves, CloseAgain,
     Goes, Returns, CloseEnter, LookEntry, EntryCleared, DeleteEntry, Tell, tableVars,
     listenVars, socketVars, closeVars, toldVars
<1>6. ASSUME NEW g \in Workers, CloseSocketMoves(g), w # g
      PROVE  Stays(w)
  BY <1>6, <1>1, GoroutinesDiffer DEF Workers, Goroutines, Stays, CloseSocketMoves,
     NoSocket, Goes, CloseSocketDone, SocketSeen, LockTable, SocketLoaded, SocketRemoved,
     tableVars, listenVars, socketVars, closeVars, toldVars
<1>7. ASSUME NEW k \in Closers, NEW i \in Ids, ServerSocketClose(k, i), w # k
      PROVE  Stays(w)
  BY <1>7, <1>1, GoroutinesDiffer DEF Workers, Goroutines, Stays, ServerSocketClose, Goes,
     tableVars, listenVars, socketVars, closeVars, toldVars
<1>8. ASSUME NEW s \in Sockets, SocketEnds(s), w # s
      PROVE  Stays(w)
  BY <1>8, <1>1, GoroutinesDiffer DEF Workers, Goroutines, Stays, SocketEnds, Goes,
     tableVars, listenVars, socketVars, closeVars, toldVars
<1> QED
  BY <1>2, <1>3, <1>4, <1>5, <1>6, <1>7, <1>8 DEF Moves, Own

-------------------------------------------------------------------------------
(* The invariant, in parts.                                                *)

Closing   == {"agree", "clear", "delete", "tell"}  \* inside Close of a socket
Uses      == Closing \cup {"close"}
UnderLock == Uses \cup {"announce", "encoder", "load", "remove"}

(* Who deals with a socket deals with one that was created; the table has
   such sockets only. *)
PlacesOK ==
  \A g \in Goroutines :
    pc[g] \in Uses \cup {"announce", "attach"} => at[g] \in Sockets /\ phase[at[g]] # "none"

EntriesOK == \A i \in Ids : table[i] # None => phase[table[i]] # "none"

(* Each lock is held by who is in its critical section. *)
LockHeld == \A g \in Workers : pc[g] \in UnderLock => lock = g

CloseLockHeld ==
  \A g \in Goroutines :
    /\ pc[g] \in Closing => closeLock[at[g]] = g
    /\ pc[g] = "agree" => phase[at[g]] = "swept"
    /\ pc[g] \in Closing \ {"agree"} => phase[at[g]] = "closed"

(* Who has a lock is in its critical section, as long as the process lives. *)
HoldersInside ==
  panic = "none" =>
    /\ \A g \in Workers : lock = g => pc[g] \in UnderLock
    /\ \A g \in Goroutines, n \in Sockets : closeLock[n] = g => pc[g] \in Closing /\ at[g] = n

NoneUntouched ==
  \A n \in Sockets :
    phase[n] = "none" => closeLock[n] = NoOne /\ attached[n] = {} /\ accepted[n] = 0 /\ ended[n] = 0

(* A socket that is live and was created when its client had no other. *)
Sole(n) == phase[n] \in {"open", "swept"} /\ ~overlap[n]

SoleInTable == \A n \in Sockets : Sole(n) => table[owner[n]] = n

SoleAlone ==
  \A n, m \in Sockets :
    Sole(n) /\ m # n /\ owner[m] = owner[n] /\ phase[m] # "none" =>
      phase[m] = "closed" /\ closeLock[m] = NoOne

(* CloseSocket closes the sole socket of its client, and has done so when it
   removes the entry. *)
SoleOfCloser ==
  \A g \in Workers, n \in Sockets :
    Sole(n) /\ owner[n] = arg[g] => (pc[g] \in Uses => n = at[g]) /\ pc[g] # "remove"

Visiting == Uses \cup {"lock", "load", "remove"}

(* What OnClosing has visited is closed, but for the one it is at. *)
MainStarts == (pc[Main] = "idle" => visited = {}) /\ (sClosed => pc[Main] = "gone")

MainRanges ==
  \A n \in Sockets : Sole(n) =>
    /\ pc[Main] # "idle" => owner[n] \in must
    /\ owner[n] \in visited => arg[Main] = owner[n] /\ pc[Main] \in Visiting
    /\ pc[Main] \notin {"closing", "gone"}

(* A socket the application does not know of is still being announced, under
   lock, or has an early stream. *)
Announced ==
  \A n \in Sockets :
    /\ accepted[n] <= 1
    /\ phase[n] # "none" =>
         accepted[n] = 1 \/ (lock \in Streams /\ pc[lock] = "announce" /\ at[lock] = n)
    /\ attached[n] # {} => accepted[n] = 1 \/ early[n]

Announcing == \A t \in Streams : pc[t] = "announce" => accepted[at[t]] = 0

ClosedKnown == \A g \in Goroutines : pc[g] \in Uses => accepted[at[g]] = 1 \/ early[at[g]]

EndedOnce ==
  \A n \in Sockets :
    \/ ended[n] = 0
    \/ /\ ended[n] = 1 /\ phase[n] = "closed" /\ closeLock[n] = NoOne
       /\ accepted[n] = 1 \/ early[n]

-------------------------------------------------------------------------------
(* Types.                                                                  *)

(* Every step keeps the types of the variables. *)
LEMMA TypeKept ==
  ASSUME TypeOK, PlacesOK, EntriesOK, Moves
  PROVE  TypeOK'
PROOF
<1> USE GoroutinesDiffer, ClientsHaveIds DEF Workers, Goroutines, None, Places, Closing, Uses
<1>1. ASSUME Stops
      PROVE  TypeOK'
  BY <1>1 DEF TypeOK, PlacesOK, Stops, tableVars, listenVars, socketVars, closeVars, toldVars
<1>2. ASSUME Listens
      PROVE  TypeOK'
  <2>1. ListenGoes("load", "accept") \/ ListenGoes("accept", "load") \/ ListenGoes("accept", "gone")
       \/ UNCHANGED lpc
    BY <1>2 DEF Listens, Listen, ListenLoad, Accept, AcceptFails
  <2>2. lpc' \in {"load", "accept", "gone"}
    BY <2>1 DEF TypeOK, ListenGoes
  <2>3. listener' \in BOOLEAN /\ connected' \in BOOLEAN
    BY <1>2 DEF TypeOK, Listens, Listen, ListenLoad, Accept, AcceptFails, ListenVarsButPc
  <2>4. panic' \in {"none", "listener", "nil map", "nil channel", "nil socket"}
    BY <1>2 DEF TypeOK, Listens, Listen, ListenLoad, Accept, AcceptFails
  <2> QED
    BY <1>2, <2>2, <2>3, <2>4 DEF TypeOK, Listens, tableVars, socketVars, closeVars, toldVars
<1>3. ASSUME ServerClose
      PROVE  TypeOK'
  BY <1>3 DEF TypeOK, PlacesOK, ServerClose, Goes, Present, tableVars, socketVars, toldVars
<1>4. ASSUME NEW i \in Ids, RangeNext(i)
      PROVE  TypeOK'
  BY <1>4, ZenonT(60)
  DEF TypeOK, PlacesOK, RangeNext, Goes, Present, tableVars, listenVars, socketVars,
     toldVars
<1>5. ASSUME RangeDone
      PROVE  TypeOK'
  BY <1>5 DEF TypeOK, PlacesOK, RangeDone, Goes, listenVars, socketVars, closeVars, toldVars
<1>6. ASSUME ServerClosed
      PROVE  TypeOK'
  BY <1>6 DEF TypeOK, PlacesOK, ServerClosed, Goes, tableVars, listenVars, socketVars, toldVars
<1>7. ASSUME NEW g \in Streams, FindSocket(g)
      PROVE  TypeOK'
  BY <1>7 DEF TypeOK, PlacesOK, FindSocket, Goes, LockTable, tableVars, listenVars, socketVars,
     closeVars, toldVars
<1>8. ASSUME NEW g \in Streams, NEW m \in Sockets, Created(g, m)
      PROVE  TypeOK'
  BY <1>8 DEF TypeOK, PlacesOK, Created, Goes, LockTable, listenVars, closeVars, toldVars
<1>9. ASSUME NEW g \in Streams, OnAcceptSocket(g)
      PROVE  TypeOK'
  <2>1. at[g] \in Sockets
    BY <1>9 DEF TypeOK, PlacesOK, OnAcceptSocket, Goes
  <2>2. accepted' \in [Sockets -> Nat]
    <3>0. accepted \in [Sockets -> Nat]
      BY DEF TypeOK
    <3>1. accepted[at[g]] + 1 \in Nat
      BY <2>1, <3>0
    <3>2. accepted' = [accepted EXCEPT ![at[g]] = accepted[at[g]] + 1]
      BY <1>9 DEF OnAcceptSocket
    <3> QED
      BY <3>0, <3>1, <3>2
  <2>3. pc' \in [Goroutines -> Places]
    BY <1>9 DEF TypeOK, OnAcceptSocket, Goes
  <2> QED
    BY <1>9, <2>2, <2>3, ZenonT(60)
    DEF TypeOK, OnAcceptSocket, tableVars, listenVars, socketVars, closeVars
<1>10. ASSUME NEW g \in Streams, EncoderUsed(g)
       PROVE  TypeOK'
  BY <1>10 DEF TypeOK, PlacesOK, EncoderUsed, Goes, tableVars, listenVars, socketVars,
     closeVars, toldVars
<1>11. ASSUME NEW g \in Streams, LookedUp(g)
       PROVE  TypeOK'
  BY <1>11, ZenonT(60)
  DEF TypeOK, PlacesOK, LookedUp, Goes, tableVars, listenVars, socketVars, closeVars,
     toldVars
<1>12. ASSUME NEW g \in Streams, NEW c \in Indexes, Attached(g, c)
       PROVE  TypeOK'
  <2>1. at[g] \in Sockets
    BY <1>12 DEF TypeOK, PlacesOK, Attached, Goes
  <2>2. attached' \in [Sockets -> SUBSET Indexes]
    BY <1>12, <2>1 DEF TypeOK, Attached
  <2>3. early' \in [Sockets -> BOOLEAN]
    <3>1. (early[at[g]] \/ accepted[at[g]] = 0) \in BOOLEAN
      OBVIOUS
    <3> QED
      BY <1>12, <3>1, Zenon DEF TypeOK, Attached
  <2>4. pc' \in [Goroutines -> Places] /\ at' \in [Goroutines -> Sockets \cup {None}]
    BY <1>12 DEF TypeOK, Attached, Goes
  <2> QED
    BY <1>12, <2>2, <2>3, <2>4, ZenonT(60)
    DEF TypeOK, Attached, tableVars, listenVars, closeVars
<1>13. ASSUME NEW g \in Streams, NEW i \in Ids, AcceptStream(g, i)
       PROVE  TypeOK'
  BY <1>13 DEF TypeOK, PlacesOK, AcceptStream, Goes, tableVars, listenVars, socketVars,
     closeVars, toldVars
<1>14. ASSUME NEW g \in Goroutines, CloseAgain(g)
       PROVE  TypeOK'
  BY <1>14, ZenonT(60)
  DEF TypeOK, PlacesOK, CloseAgain, Goes, Returns, tableVars, listenVars, socketVars,
     closeVars, toldVars
<1>15. ASSUME NEW g \in Goroutines, CloseEnter(g)
       PROVE  TypeOK'
  BY <1>15, ZenonT(60)
  DEF TypeOK, PlacesOK, CloseEnter, Goes, tableVars, listenVars, closeVars, toldVars
<1>16. ASSUME NEW g \in Goroutines, LookEntry(g)
       PROVE  TypeOK'
  BY <1>16, ZenonT(60)
  DEF TypeOK, PlacesOK, LookEntry, Goes, tableVars, listenVars, closeVars, toldVars
<1>17. ASSUME NEW g \in Goroutines, EntryCleared(g)
       PROVE  TypeOK'
  BY <1>17, ZenonT(60)
  DEF TypeOK, PlacesOK, EntryCleared, Goes, listenVars, socketVars, closeVars,
     toldVars
<1>18. ASSUME NEW g \in Goroutines, DeleteEntry(g)
       PROVE  TypeOK'
  BY <1>18, ZenonT(60)
  DEF TypeOK, PlacesOK, DeleteEntry, Goes, listenVars, socketVars, closeVars, toldVars
<1>19. ASSUME NEW g \in Goroutines, Tell(g)
       PROVE  TypeOK'
  <2>1. at[g] \in Sockets
    BY <1>19 DEF TypeOK, PlacesOK, Tell, Goes
  <2>2. ended' \in [Sockets -> Nat]
    <3>0. ended \in [Sockets -> Nat]
      BY DEF TypeOK
    <3>1. ended[at[g]] + 1 \in Nat
      BY <2>1, <3>0
    <3>2. ended' = [ended EXCEPT ![at[g]] = ended[at[g]] + 1]
      BY <1>19 DEF Tell
    <3> QED
      BY <3>0, <3>1, <3>2
  <2>3. closeLock' \in [Sockets -> Goroutines \cup {NoOne}]
    BY <1>19, <2>1 DEF TypeOK, Tell
  <2>4. pc' \in [Goroutines -> Places] /\ at' \in [Goroutines -> Sockets \cup {None}]
    BY <1>19 DEF TypeOK, Tell, Goes, Returns
  <2> QED
    BY <1>19, <2>2, <2>3, <2>4, ZenonT(60) DEF TypeOK, Tell, tableVars, listenVars, closeVars
<1>20. ASSUME NEW g \in Workers, NoSocket(g)
       PROVE  TypeOK'
  BY <1>20, ZenonT(60)
  DEF TypeOK, PlacesOK, NoSocket, Goes, CloseSocketDone, tableVars, listenVars,
     socketVars, closeVars, toldVars
<1>21. ASSUME NEW g \in Workers, SocketSeen(g)
       PROVE  TypeOK'
  BY <1>21, ZenonT(60) DEF TypeOK, PlacesOK, SocketSeen, Goes, LockTable, tableVars, listenVars,
     socketVars, closeVars, toldVars
<1>22. ASSUME NEW g \in Workers, SocketLoaded(g)
       PROVE  TypeOK'
  BY <1>22, ZenonT(60)
  DEF TypeOK, PlacesOK, SocketLoaded, Goes, tableVars, listenVars, socketVars,
     closeVars, toldVars
<1>23. ASSUME NEW g \in Workers, SocketRemoved(g)
       PROVE  TypeOK'
  BY <1>23 DEF TypeOK, PlacesOK, SocketRemoved, Goes, CloseSocketDone, listenVars, socketVars,
     closeVars, toldVars
<1>24. ASSUME NEW g \in Closers, NEW i \in Ids, ServerSocketClose(g, i)
       PROVE  TypeOK'
  BY <1>24, ZenonT(60)
  DEF TypeOK, PlacesOK, ServerSocketClose, Goes, tableVars, listenVars, socketVars,
     closeVars, toldVars
<1>25. ASSUME NEW s \in Sockets, SocketEnds(s)
       PROVE  TypeOK'
  BY <1>25, ZenonT(60)
  DEF TypeOK, PlacesOK, SocketEnds, Goes, tableVars, listenVars, socketVars,
     closeVars, toldVars
<1> QED
  BY <1>1, <1>2, <1>3, <1>4, <1>5, <1>6, <1>7, <1>8, <1>9, <1>10, <1>11, <1>12, <1>13, <1>14,
     <1>15, <1>16, <1>17, <1>18, <1>19, <1>20, <1>21, <1>22, <1>23, <1>24, <1>25
  DEF Moves, MainMoves, StreamMoves, CloseMoves, CloseSocketMoves

-------------------------------------------------------------------------------
(* Places, entries and locks.                                              *)

(* A socket that was created keeps its client, and is never uncreated. *)
LEMMA PhaseKept ==
  ASSUME TypeOK, Moves, NEW n \in Sockets, phase[n] # "none"
  PROVE  phase'[n] # "none" /\ owner'[n] = owner[n] /\ overlap'[n] = overlap[n]
PROOF
<1>1. phase \in [Sockets -> {"none", "open", "swept", "closed"}]
      /\ owner \in [Sockets -> Ids] /\ overlap \in [Sockets -> BOOLEAN]
  BY DEF TypeOK
<1>2. ASSUME NEW t \in Streams, NEW m \in Sockets, Created(t, m)
      PROVE  phase'[n] # "none" /\ owner'[n] = owner[n] /\ overlap'[n] = overlap[n]
  BY <1>1, <1>2 DEF Created
<1>3. ASSUME NEW g \in Goroutines, CloseEnter(g) \/ LookEntry(g) \/ Tell(g)
      PROVE  phase'[n] # "none" /\ owner'[n] = owner[n] /\ overlap'[n] = overlap[n]
  BY <1>1, <1>3 DEF CloseEnter, LookEntry, Tell
<1> QED
  BY <1>2, <1>3, PhaseSteps

(* A goroutine gets its socket from the table, from its creation, or is the
   socket's own reader. *)
LEMMA PlacesKept ==
  ASSUME TypeOK, PlacesOK, EntriesOK, Moves
  PROVE  PlacesOK'
PROOF
<1> SUFFICES ASSUME NEW w \in Goroutines, pc'[w] \in Uses \cup {"announce", "attach"}
             PROVE  at'[w] \in Sockets /\ phase'[at'[w]] # "none"
  BY DEF PlacesOK, Goroutines, Sockets, Workers
<1>1. pc \in [Goroutines -> Places] /\ at \in [Goroutines -> Sockets \cup {None}]
      /\ table \in [Ids -> Sockets \cup {None}] /\ (w \in Workers => arg[w] \in Ids)
  BY DEF TypeOK
<1>2. pc[w] \in Uses \cup {"announce", "attach"} => at[w] \in Sockets /\ phase[at[w]] # "none"
  BY DEF PlacesOK
<1>3. CASE Stays(w)
  BY <1>2, <1>3, PhaseKept DEF Stays
<1>4. CASE w \in Streams /\ StreamMoves(w)
  <2>1. ASSUME NEW n \in Sockets, Created(w, n)
        PROVE  at'[w] \in Sockets /\ phase'[at'[w]] # "none"
    <3>1. phase \in [Sockets -> {"none", "open", "swept", "closed"}]
      BY DEF TypeOK
    <3> QED
      BY <1>1, <2>1, <3>1 DEF Created
  <2>2. CASE LookedUp(w)
    <3>1. at'[w] = table[arg[w]] /\ table[arg[w]] # None /\ arg[w] \in Ids
      BY <1>1, <1>4, <2>2 DEF LookedUp, Workers
    <3>2. at'[w] \in Sockets /\ phase[at'[w]] # "none"
      BY <1>1, <3>1 DEF EntriesOK
    <3> QED
      BY <3>2, PhaseKept
  <2>3. CASE FindSocket(w) \/ OnAcceptSocket(w) \/ EncoderUsed(w)
             \/ (\E c \in Indexes : Attached(w, c)) \/ \E i \in Ids : AcceptStream(w, i)
    BY <1>1, <2>3
    DEF FindSocket, OnAcceptSocket, EncoderUsed, Attached, AcceptStream, Goes, Uses, Closing
  <2> QED
    BY <1>4, <2>1, <2>2, <2>3 DEF StreamMoves
<1>5. CASE CloseMoves(w)
  <2>1. pc[w] \in Uses /\ at'[w] = at[w]
    BY <1>1, <1>5 DEF CloseMoves, CloseAgain, CloseEnter, LookEntry, EntryCleared, DeleteEntry,
       Tell, Goes, Returns, Uses, Closing
  <2> QED
    BY <1>2, <2>1, PhaseKept
<1>6. CASE w \in Workers /\ CloseSocketMoves(w)
  <2>1. at'[w] = table[arg[w]] /\ table[arg[w]] # None /\ arg[w] \in Ids
    BY <1>1, <1>6 DEF CloseSocketMoves, NoSocket, SocketSeen, SocketLoaded, SocketRemoved,
       CloseSocketDone, Goes, Uses, Closing
  <2>2. at'[w] \in Sockets /\ phase[at'[w]] # "none"
    BY <1>1, <2>1 DEF EntriesOK
  <2> QED
    BY <2>2, PhaseKept
<1>7. CASE w = Main /\ MainMoves
  BY <1>1, <1>7 DEF MainMoves, ServerClose, RangeNext, RangeDone, ServerClosed, Goes, Uses,
     Closing
<1>8. CASE w \in Closers /\ \E i \in Ids : ServerSocketClose(w, i)
  BY <1>1, <1>8 DEF ServerSocketClose, Goes, Uses, Closing
<1>9. CASE w \in Sockets /\ SocketEnds(w)
  <2>1. at'[w] = w /\ phase[w] # "none"
    BY <1>1, <1>9 DEF SocketEnds
  <2> QED
    BY <1>9, <2>1, PhaseKept
<1> QED
  BY <1>3, <1>4, <1>5, <1>6, <1>7, <1>8, <1>9, OwnSteps DEF Own

(* The table never gets a socket that was not created. *)
LEMMA EntriesKept ==
  ASSUME TypeOK, PlacesOK, EntriesOK, Moves
  PROVE  EntriesOK'
PROOF
<1> SUFFICES ASSUME NEW i \in Ids, table'[i] # None
             PROVE  phase'[table'[i]] # "none"
  BY DEF EntriesOK
<1>1. table \in [Ids -> Sockets \cup {None}]
      /\ phase \in [Sockets -> {"none", "open", "swept", "closed"}]
  BY DEF TypeOK
<1>2. table'[i] = table[i] => phase'[table'[i]] # "none"
  <2>1. table'[i] = table[i] => table'[i] \in Sockets /\ phase[table'[i]] # "none"
    BY <1>1 DEF EntriesOK
  <2> QED
    BY <2>1, PhaseKept
<1>3. ASSUME NEW t \in Streams, NEW n \in Sockets, Created(t, n)
      PROVE  table'[i] = table[i] \/ phase'[table'[i]] # "none"
  <2>1. table'[i] = table[i] \/ table'[i] = n
    BY <1>1, <1>3 DEF Created
  <2>2. phase'[n] = "open"
    BY <1>1, <1>3 DEF Created
  <2> QED
    BY <2>1, <2>2
<1>4. ASSUME NEW g \in Goroutines, EntryCleared(g) \/ DeleteEntry(g)
      PROVE  table'[i] = table[i]
  BY <1>1, <1>4 DEF EntryCleared, DeleteEntry
<1>5. ASSUME NEW g \in Workers, SocketRemoved(g)
      PROVE  table'[i] = table[i]
  BY <1>1, <1>5 DEF SocketRemoved
<1>6. ~RangeDone
  BY DEF RangeDone
<1> QED
  BY <1>2, <1>3, <1>4, <1>5, <1>6, TableSteps

(* lock is taken on the way into a critical section and given up on the way out. *)
LEMMA LockKept ==
  ASSUME TypeOK, LockHeld, Moves
  PROVE  LockHeld'
PROOF
<1> SUFFICES ASSUME NEW w \in Workers, pc'[w] \in UnderLock
             PROVE  lock' = w
  BY DEF LockHeld, Workers
<1>1. pc \in [Goroutines -> Places] /\ w \in Goroutines /\ w # NoOne
  BY GoroutinesDiffer DEF TypeOK, Goroutines
<1>2. pc[w] \in UnderLock => lock = w
  BY DEF LockHeld
<1>3. CASE pc[w] \in UnderLock
  <2>1. ASSUME NEW t \in Streams, EncoderUsed(t)
        PROVE  FALSE
    <3>1. pc[t] = "encoder" /\ t \in Workers
      BY <2>1 DEF EncoderUsed, Goes, Workers
    <3>2. t = w
      BY <1>2, <1>3, <3>1 DEF LockHeld, UnderLock
    <3> QED
      BY <1>1, <2>1, <3>2 DEF EncoderUsed, Goes, UnderLock, Uses, Closing
  <2>2. ASSUME NEW g \in Workers, SocketRemoved(g)
        PROVE  FALSE
    <3>1. pc[g] = "remove"
      BY <2>2 DEF SocketRemoved, CloseSocketDone, Goes
    <3>2. g = w
      BY <1>2, <1>3, <3>1 DEF LockHeld, UnderLock
    <3> QED
      BY <1>1, <2>2, <3>2 DEF SocketRemoved, CloseSocketDone, Goes, UnderLock, Uses, Closing
  <2> QED
    BY <1>1, <1>2, <1>3, <2>1, <2>2, LockSteps
<1>4. CASE pc[w] \notin UnderLock
  <2>1. CASE Stays(w)
    BY <1>4, <2>1 DEF Stays
  <2>2. CASE w \in Streams /\ StreamMoves(w)
    BY <1>1, <1>4, <2>2 DEF StreamMoves, FindSocket, Created, OnAcceptSocket, EncoderUsed,
       LookedUp, Attached, AcceptStream, Goes, LockTable, UnderLock, Uses, Closing
  <2>3. CASE CloseMoves(w)
    BY <1>1, <1>4, <2>3 DEF CloseMoves, CloseAgain, CloseEnter, LookEntry, EntryCleared,
       DeleteEntry, Tell, Goes, UnderLock, Uses, Closing
  <2>4. CASE CloseSocketMoves(w)
    BY <1>1, <1>4, <2>4 DEF CloseSocketMoves, NoSocket, SocketSeen, SocketLoaded,
       SocketRemoved, CloseSocketDone, Goes, LockTable, UnderLock, Uses, Closing
  <2>5. CASE MainMoves /\ w = Main
    BY <1>1, <2>5 DEF MainMoves, ServerClose, RangeNext, RangeDone, ServerClosed, Goes,
       UnderLock, Uses, Closing
  <2>6. CASE \E i \in Ids : ServerSocketClose(w, i)
    BY <1>1, <2>6 DEF ServerSocketClose, Goes, UnderLock, Uses, Closing
  <2>7. w \notin Sockets
    BY GoroutinesDiffer
  <2> QED
    BY <1>1, <2>1, <2>2, <2>3, <2>4, <2>5, <2>6, <2>7, OwnSteps DEF Own
<1> QED
  BY <1>3, <1>4

(* closeLock keeps two closes of one socket apart. *)
LEMMA CloseLockKept ==
  ASSUME TypeOK, PlacesOK, CloseLockHeld, Moves
  PROVE  CloseLockHeld'
PROOF
<1> SUFFICES ASSUME NEW w \in Goroutines, pc'[w] \in Closing
             PROVE  /\ closeLock'[at'[w]] = w
                    /\ pc'[w] = "agree" => phase'[at'[w]] = "swept"
                    /\ pc'[w] # "agree" => phase'[at'[w]] = "closed"
  BY DEF CloseLockHeld, Closing, Goroutines, Workers, Sockets
<1>1. /\ pc \in [Goroutines -> Places] /\ at \in [Goroutines -> Sockets \cup {None}]
      /\ phase \in [Sockets -> {"none", "open", "swept", "closed"}]
      /\ closeLock \in [Sockets -> Goroutines \cup {NoOne}]
      /\ w # NoOne
  BY GoroutinesDiffer DEF TypeOK
<1>2. ASSUME NEW g \in Goroutines, pc[g] \in Closing
      PROVE  /\ at[g] \in Sockets /\ phase[at[g]] # "none" /\ closeLock[at[g]] = g
             /\ pc[g] = "agree" => phase[at[g]] = "swept"
             /\ pc[g] # "agree" => phase[at[g]] = "closed"
  BY <1>2 DEF PlacesOK, CloseLockHeld, Uses, Closing
<1>3. CASE Stays(w)
  <2>1. pc[w] \in Closing /\ at'[w] = at[w] /\ pc'[w] = pc[w]
    BY <1>3 DEF Stays
  <2>2. ASSUME NEW t \in Streams, NEW n \in Sockets, Created(t, n)
        PROVE  phase'[at[w]] = phase[at[w]] /\ closeLock'[at[w]] = closeLock[at[w]]
    BY <1>1, <1>2, <2>1, <2>2 DEF Created
  <2>3. ASSUME NEW g \in Goroutines, CloseEnter(g)
        PROVE  phase'[at[w]] = phase[at[w]] /\ closeLock'[at[w]] = closeLock[at[w]]
    BY <1>1, <1>2, <2>1, <2>3 DEF CloseEnter
  <2>4. ASSUME NEW g \in Goroutines, LookEntry(g)
        PROVE  phase'[at[w]] = phase[at[w]] /\ closeLock'[at[w]] = closeLock[at[w]]
    <3>1. pc[g] = "agree" /\ g # w
      BY <1>1, <2>1, <2>4 DEF LookEntry, Goes
    <3>2. at[g] # at[w]
      BY <1>2, <2>1, <3>1 DEF Closing
    <3> QED
      BY <1>1, <1>2, <2>1, <2>4, <3>2 DEF LookEntry
  <2>5. ASSUME NEW g \in Goroutines, Tell(g)
        PROVE  phase'[at[w]] = phase[at[w]] /\ closeLock'[at[w]] = closeLock[at[w]]
    <3>1. pc[g] = "tell" /\ g # w
      BY <1>1, <2>1, <2>5 DEF Tell, Goes, Returns
    <3>2. at[g] # at[w]
      BY <1>2, <2>1, <3>1 DEF Closing
    <3> QED
      BY <1>1, <1>2, <2>1, <2>5, <3>2 DEF Tell
  <2>6. phase'[at[w]] = phase[at[w]] /\ closeLock'[at[w]] = closeLock[at[w]]
    BY <2>2, <2>3, <2>4, <2>5, PhaseSteps
  <2> QED
    BY <1>2, <2>1, <2>6
<1>4. CASE CloseMoves(w)
  <2>1. CASE CloseEnter(w)
    <3>1. at[w] \in Sockets
      BY <2>1 DEF PlacesOK, CloseEnter, Goes, Uses
    <3> QED
      BY <1>1, <2>1, <3>1 DEF CloseEnter, Goes
  <2>2. CASE LookEntry(w)
    <3>1. pc[w] = "agree" /\ at'[w] = at[w] /\ pc'[w] # "agree"
      BY <1>1, <2>2 DEF LookEntry, Goes
    <3> QED
      BY <1>1, <1>2, <2>2, <3>1 DEF LookEntry, Closing
  <2>3. CASE EntryCleared(w) \/ DeleteEntry(w)
    <3>1. pc[w] \in {"clear", "delete"} /\ at'[w] = at[w] /\ pc'[w] # "agree"
      BY <1>1, <2>3 DEF EntryCleared, DeleteEntry, Goes
    <3>2. UNCHANGED <<phase, closeLock>>
      BY <2>3 DEF EntryCleared, DeleteEntry, socketVars
    <3> QED
      BY <1>1, <1>2, <3>1, <3>2 DEF Closing
  <2>4. ~CloseAgain(w) /\ ~Tell(w)
    BY <1>1 DEF CloseAgain, Tell, Goes, Returns, Closing
  <2> QED
    BY <1>4, <2>1, <2>2, <2>3, <2>4 DEF CloseMoves
<1>5. ~(w \in Streams /\ StreamMoves(w))
  BY <1>1 DEF StreamMoves, FindSocket, Created, OnAcceptSocket, EncoderUsed, LookedUp,
     Attached, AcceptStream, Goes, Closing
<1>6. ~CloseSocketMoves(w)
  BY <1>1 DEF CloseSocketMoves, NoSocket, SocketSeen, SocketLoaded, SocketRemoved,
     CloseSocketDone, Goes, Closing
<1>7. ~(w = Main /\ MainMoves)
  BY <1>1 DEF MainMoves, ServerClose, RangeNext, RangeDone, ServerClosed, Goes, Closing
<1>8. ~(\E i \in Ids : ServerSocketClose(w, i)) /\ ~SocketEnds(w)
  BY <1>1 DEF ServerSocketClose, SocketEnds, Goes, Closing
<1> QED
  BY <1>3, <1>4, <1>5, <1>6, <1>7, <1>8, OwnSteps DEF Own

(* Who has lock after a step had it or has just taken it, and leaves its
   critical section only by giving it up. *)
LEMMA LockHolderKept ==
  ASSUME TypeOK, HoldersInside, Moves, panic = "none", panic' = "none",
         NEW w \in Workers, lock' = w
  PROVE  pc'[w] \in UnderLock
PROOF
<1>1. pc \in [Goroutines -> Places] /\ w \in Goroutines /\ w # NoOne
  BY GoroutinesDiffer DEF TypeOK, Goroutines
<1>2. lock = w => pc[w] \in UnderLock
  BY DEF HoldersInside
<1>3. \/ UNCHANGED lock \/ lock' = NoOne
      \/ \E h \in Streams : FindSocket(h) \/ \E n \in Sockets : Created(h, n)
      \/ \E h \in Workers : SocketSeen(h)
  BY LockTakers
<1>4. ASSUME NEW h \in Workers, lock' = h, h # w
      PROVE  FALSE
  BY <1>4
<1>5. ASSUME FindSocket(w) \/ \E n \in Sockets : Created(w, n)
      PROVE  pc'[w] \in UnderLock
  BY <1>1, <1>5 DEF FindSocket, Created, Goes, UnderLock
<1>6. ASSUME SocketSeen(w)
      PROVE  pc'[w] \in UnderLock
  BY <1>1, <1>6 DEF SocketSeen, Goes, UnderLock
<1>7. ASSUME lock = w
      PROVE  pc'[w] \in UnderLock
  <2>1. CASE Stays(w)
    BY <1>2, <1>7, <2>1 DEF Stays
  <2>2. CASE w \in Streams /\ StreamMoves(w)
    BY <1>1, <1>2, <1>7, <2>2 DEF StreamMoves, FindSocket, Created, OnAcceptSocket, EncoderUsed,
       LookedUp, Attached, AcceptStream, Goes, LockTable, UnderLock, Uses, Closing
  <2>3. CASE CloseMoves(w)
    <3>1. w \notin Sockets
      BY GoroutinesDiffer
    <3> QED
      BY <1>1, <2>3, <3>1 DEF CloseMoves, CloseAgain, CloseEnter, LookEntry, EntryCleared,
         DeleteEntry, Tell, Goes, Returns, UnderLock, Uses, Closing
  <2>4. CASE CloseSocketMoves(w)
    BY <1>1, <1>2, <1>7, <2>4 DEF CloseSocketMoves, NoSocket, SocketSeen, SocketLoaded,
       SocketRemoved, CloseSocketDone, Goes, LockTable, UnderLock, Uses, Closing
  <2>5. CASE MainMoves /\ w = Main
    BY <1>1, <1>2, <1>7, <2>5 DEF MainMoves, ServerClose, RangeNext, RangeDone, ServerClosed,
       Goes, UnderLock, Uses, Closing
  <2>6. CASE \E i \in Ids : ServerSocketClose(w, i)
    BY <1>1, <1>2, <1>7, <2>6 DEF ServerSocketClose, Goes, UnderLock, Uses, Closing
  <2>7. w \notin Sockets
    BY GoroutinesDiffer
  <2> QED
    BY <1>1, <2>1, <2>2, <2>3, <2>4, <2>5, <2>6, <2>7, OwnSteps DEF Own
<1> QED
  BY <1>1, <1>3, <1>5, <1>6, <1>7 DEF FindSocket, Created, SocketSeen, LockTable, Workers

(* Who has the closeLock of a socket after a step is inside the close of that
   socket: Tell is the only way out, and gives it up. *)
LEMMA CloseLockHolderKept ==
  ASSUME TypeOK, PlacesOK, HoldersInside, Moves, panic = "none", panic' = "none",
         NEW w \in Goroutines, NEW n \in Sockets, closeLock'[n] = w
  PROVE  pc'[w] \in Closing /\ at'[w] = n
PROOF
<1>1. /\ pc \in [Goroutines -> Places] /\ at \in [Goroutines -> Sockets \cup {None}]
      /\ closeLock \in [Sockets -> Goroutines \cup {NoOne}] /\ w # NoOne
  BY GoroutinesDiffer DEF TypeOK
<1>2. closeLock[n] = w => pc[w] \in Closing /\ at[w] = n
  BY DEF HoldersInside
<1>3. ASSUME NEW g \in Goroutines, CloseEnter(g), closeLock[n] # w
      PROVE  pc'[w] \in Closing /\ at'[w] = n
  <2>1. g = w /\ at[g] = n
    BY <1>1, <1>3 DEF CloseEnter
  <2> QED
    BY <1>1, <1>3, <2>1 DEF CloseEnter, Goes, Closing
<1>4. ASSUME NEW g \in Goroutines, Tell(g)
      PROVE  closeLock[n] = w /\ g # w
  <2>1. closeLock' = [closeLock EXCEPT ![at[g]] = NoOne] /\ pc[g] = "tell" /\ at[g] \in Sockets
    BY <1>1, <1>4 DEF Tell, Goes, PlacesOK, Uses, Closing
  <2>2. at[g] # n
    BY <1>1, <2>1
  <2> QED
    BY <1>1, <1>2, <2>1, <2>2
<1>5. ASSUME closeLock[n] # w
      PROVE  \E g \in Goroutines : CloseEnter(g)
  <2>1. ASSUME NEW t \in Streams, NEW m \in Sockets, Created(t, m)
        PROVE  FALSE
    BY <1>5, <2>1 DEF Created
  <2>2. ASSUME NEW g \in Goroutines, LookEntry(g)
        PROVE  FALSE
    BY <1>5, <2>2 DEF LookEntry
  <2> QED
    BY <1>4, <1>5, <2>1, <2>2, PhaseSteps
<1>6. ASSUME closeLock[n] = w
      PROVE  pc'[w] \in Closing /\ at'[w] = n
  <2>1. pc[w] \in Closing /\ at[w] = n
    BY <1>2, <1>6
  <2>2. CASE Stays(w)
    BY <2>1, <2>2 DEF Stays
  <2>3. CASE CloseMoves(w)
    BY <1>1, <1>4, <2>1, <2>3 DEF CloseMoves, CloseAgain, CloseEnter, LookEntry, EntryCleared,
       DeleteEntry, Goes, Closing
  <2>4. ~(w \in Streams /\ StreamMoves(w))
    BY <1>1, <2>1 DEF StreamMoves, FindSocket, Created, OnAcceptSocket, EncoderUsed, LookedUp,
       Attached, AcceptStream, Goes, Closing
  <2>5. ~CloseSocketMoves(w)
    BY <1>1, <2>1 DEF CloseSocketMoves, NoSocket, SocketSeen, SocketLoaded, SocketRemoved,
       CloseSocketDone, Goes, Closing
  <2>6. ~(w = Main /\ MainMoves)
    BY <1>1, <2>1 DEF MainMoves, ServerClose, RangeNext, RangeDone, ServerClosed, Goes, Closing
  <2>7. ~(\E i \in Ids : ServerSocketClose(w, i)) /\ ~SocketEnds(w)
    BY <1>1, <2>1 DEF ServerSocketClose, SocketEnds, Goes, Closing
  <2> QED
    BY <2>2, <2>3, <2>4, <2>5, <2>6, <2>7, OwnSteps DEF Own
<1> QED
  BY <1>3, <1>5, <1>6

(* Nothing happens to a socket before its creation. *)
LEMMA NoneStaysUntouched ==
  ASSUME TypeOK, PlacesOK, NoneUntouched, Moves
  PROVE  NoneUntouched'
PROOF
<1> SUFFICES ASSUME NEW n \in Sockets, phase'[n] = "none"
             PROVE  /\ closeLock'[n] = NoOne /\ attached'[n] = {}
                    /\ accepted'[n] = 0 /\ ended'[n] = 0
  BY DEF NoneUntouched, Sockets
<1>1. /\ phase \in [Sockets -> {"none", "open", "swept", "closed"}]
      /\ closeLock \in [Sockets -> Goroutines \cup {NoOne}]
      /\ attached \in [Sockets -> SUBSET Indexes]
      /\ accepted \in [Sockets -> Nat] /\ ended \in [Sockets -> Nat]
  BY DEF TypeOK
<1>2. phase[n] = "none"
  BY PhaseKept
<1>3. closeLock[n] = NoOne /\ attached[n] = {} /\ accepted[n] = 0 /\ ended[n] = 0
  BY <1>2 DEF NoneUntouched
<1>4. ASSUME NEW g \in Goroutines, pc[g] \in Uses \cup {"announce", "attach"}
      PROVE  at[g] # n
  BY <1>2, <1>4 DEF PlacesOK
<1>5. ASSUME NEW g \in Goroutines, CloseEnter(g) \/ LookEntry(g) \/ Tell(g)
      PROVE  /\ closeLock'[n] = closeLock[n]
             /\ UNCHANGED ended \/ ended'[n] = ended[n]
  <2>1. at[g] # n
    BY <1>4, <1>5 DEF CloseEnter, LookEntry, Tell, Goes, Uses, Closing
  <2> QED
    BY <1>1, <1>5, <2>1 DEF CloseEnter, LookEntry, Tell, toldVars
<1>6. ASSUME NEW t \in Streams, NEW m \in Sockets, Created(t, m)
      PROVE  closeLock'[n] = closeLock[n]
  BY <1>6 DEF Created
<1>7. closeLock'[n] = closeLock[n]
  BY <1>5, <1>6, PhaseSteps
<1>8. ASSUME NEW t \in Streams, OnAcceptSocket(t)
      PROVE  attached'[n] = attached[n] /\ accepted'[n] = accepted[n] /\ ended'[n] = ended[n]
  <2>1. at[t] # n
    BY <1>4, <1>8 DEF OnAcceptSocket, Goes, Goroutines, Workers
  <2> QED
    BY <1>1, <1>8, <2>1 DEF OnAcceptSocket, socketVars
<1>9. ASSUME NEW t \in Streams, NEW c \in Indexes, Attached(t, c)
      PROVE  attached'[n] = attached[n] /\ accepted'[n] = accepted[n] /\ ended'[n] = ended[n]
  <2>1. at[t] # n
    BY <1>4, <1>9 DEF Attached, Goes, Goroutines, Workers
  <2> QED
    BY <1>1, <1>9, <2>1 DEF Attached
<1>10. ASSUME NEW g \in Goroutines, Tell(g)
       PROVE  attached'[n] = attached[n] /\ accepted'[n] = accepted[n] /\ ended'[n] = ended[n]
  <2>1. at[g] # n
    BY <1>4, <1>10 DEF Tell, Goes, Uses, Closing
  <2> QED
    BY <1>1, <1>10, <2>1 DEF Tell
<1>11. attached'[n] = attached[n] /\ accepted'[n] = accepted[n] /\ ended'[n] = ended[n]
  BY <1>8, <1>9, <1>10, ToldSteps
<1> QED
  BY <1>3, <1>7, <1>11

-------------------------------------------------------------------------------
(* The sole socket of a client stays in the table and is closed by nobody   *)
(* who thinks it is another one.                                            *)

(* A socket becomes the sole one of its client at its creation only. *)
LEMMA SoleKept ==
  ASSUME TypeOK, PlacesOK, Moves, NEW n \in Sockets, Sole(n)'
  PROVE  (Sole(n) /\ owner'[n] = owner[n]) \/ \E t \in Streams : Created(t, n)
PROOF
<1>1. /\ phase \in [Sockets -> {"none", "open", "swept", "closed"}]
      /\ owner \in [Sockets -> Ids] /\ overlap \in [Sockets -> BOOLEAN]
  BY DEF TypeOK
<1>2. phase'[n] \in {"open", "swept"} /\ ~overlap'[n]
  BY DEF Sole
<1>3. ASSUME NEW t \in Streams, NEW m \in Sockets, Created(t, m), m # n
      PROVE  Sole(n) /\ owner'[n] = owner[n]
  BY <1>1, <1>2, <1>3 DEF Created, Sole
<1>4. ASSUME NEW g \in Goroutines, CloseEnter(g) \/ LookEntry(g) \/ Tell(g)
      PROVE  Sole(n) /\ owner'[n] = owner[n]
  <2>1. at[g] \in Sockets /\ phase[at[g]] # "none"
    BY <1>4 DEF PlacesOK, CloseEnter, LookEntry, Tell, Goes, Uses, Closing
  <2>2. UNCHANGED <<owner, overlap>>
    BY <1>4 DEF CloseEnter, LookEntry, Tell
  <2>3. phase[n] \in {"open", "swept"}
    BY <1>1, <1>2, <1>4, <2>1 DEF CloseEnter, LookEntry, Tell
  <2> QED
    BY <1>2, <2>2, <2>3 DEF Sole
<1>5. CASE UNCHANGED <<phase, owner, closeLock, overlap>>
  BY <1>2, <1>5 DEF Sole
<1> QED
  BY <1>3, <1>4, <1>5, PhaseSteps

(* Nobody takes the entry of a sole socket away: OnDisconnect of an earlier
   socket of the client is over, CloseSocket has closed this one first, and the
   range of OnClosing has visited its key. *)
LEMMA SoleStaysInTable ==
  ASSUME TypeOK, PlacesOK, CloseLockHeld, SoleInTable, SoleAlone, SoleOfCloser, MainRanges, Moves
  PROVE  SoleInTable'
PROOF
<1> SUFFICES ASSUME NEW n \in Sockets, Sole(n)'
             PROVE  table'[owner'[n]] = n
  BY DEF SoleInTable, Sockets
<1>1. /\ table \in [Ids -> Sockets \cup {None}] /\ owner \in [Sockets -> Ids]
      /\ arg \in [Workers -> Ids]
  BY DEF TypeOK
<1>2. n # None
  BY GoroutinesDiffer DEF Sockets, None
<1>3. ASSUME NEW t \in Streams, Created(t, n)
      PROVE  table'[owner'[n]] = n
  BY <1>1, <1>3 DEF Created, Workers
<1>4. ASSUME Sole(n), owner'[n] = owner[n]
      PROVE  table'[owner'[n]] = n
  <2>1. table[owner[n]] = n /\ owner[n] \in Ids
    BY <1>1, <1>4 DEF SoleInTable
  <2>2. ASSUME NEW t \in Streams, NEW m \in Sockets, Created(t, m)
        PROVE  table'[owner[n]] = n
    BY <1>1, <1>2, <2>1, <2>2 DEF Created
  <2>3. ASSUME NEW g \in Goroutines, EntryCleared(g) \/ DeleteEntry(g)
        PROVE  table'[owner[n]] = n
    <3>1. pc[g] \in {"clear", "delete"} /\ table' = [table EXCEPT ![owner[at[g]]] = None]
      BY <2>3 DEF EntryCleared, DeleteEntry, Goes
    <3>2. at[g] \in Sockets /\ phase[at[g]] = "closed" /\ closeLock[at[g]] = g
      BY <3>1 DEF PlacesOK, CloseLockHeld, Uses, Closing
    <3>3. owner[at[g]] # owner[n]
      BY <1>4, <3>2, GoroutinesDiffer DEF SoleAlone, Sole
    <3> QED
      BY <1>1, <2>1, <3>1, <3>3
  <2>4. ASSUME NEW g \in Workers, SocketRemoved(g)
        PROVE  table'[owner[n]] = n
    <3>1. pc[g] = "remove" /\ table' = [table EXCEPT ![arg[g]] = None]
      BY <2>4 DEF SocketRemoved, CloseSocketDone, Goes
    <3>2. arg[g] # owner[n]
      BY <1>4, <3>1 DEF SoleOfCloser
    <3> QED
      BY <1>1, <2>1, <3>1, <3>2
  <2>5. ~RangeDone
    <3>1. SUFFICES ASSUME RangeDone PROVE FALSE
      OBVIOUS
    <3>2. pc[Main] = "range" /\ must \cap Present \subseteq visited
      BY <3>1 DEF RangeDone, Goes
    <3>3. owner[n] \in must \cap Present
      BY <1>2, <1>4, <2>1, <3>2 DEF MainRanges, Present
    <3> QED
      BY <1>4, <3>2, <3>3 DEF MainRanges, Visiting, Uses, Closing
  <2> QED
    BY <1>4, <2>1, <2>2, <2>3, <2>4, <2>5, TableSteps
<1> QED
  BY <1>3, <1>4, SoleKept

(* While a client has a live socket in the table, it gets no other one. *)
LEMMA SoleStaysAlone ==
  ASSUME TypeOK, PlacesOK, CloseLockHeld, SoleInTable, SoleAlone, Moves
  PROVE  SoleAlone'
PROOF
<1> SUFFICES ASSUME NEW n \in Sockets, NEW m \in Sockets, Sole(n)', m # n,
                    owner'[m] = owner'[n], phase'[m] # "none"
             PROVE  phase'[m] = "closed" /\ closeLock'[m] = NoOne
  BY DEF SoleAlone, Sockets
<1>1. /\ phase \in [Sockets -> {"none", "open", "swept", "closed"}]
      /\ owner \in [Sockets -> Ids] /\ overlap \in [Sockets -> BOOLEAN]
      /\ closeLock \in [Sockets -> Goroutines \cup {NoOne}]
  BY DEF TypeOK
<1>2. ASSUME NEW t \in Streams, Created(t, n)
      PROVE  phase'[m] = "closed" /\ closeLock'[m] = NoOne
  <2>1. /\ owner'[n] = arg[t] /\ ~NotEnded(arg[t])
        /\ owner'[m] = owner[m] /\ phase'[m] = phase[m] /\ closeLock'[m] = closeLock[m]
    BY <1>1, <1>2 DEF Created, Sole
  <2> QED
    BY <1>1, <2>1 DEF NotEnded
<1>3. ASSUME Sole(n), owner'[n] = owner[n]
      PROVE  phase'[m] = "closed" /\ closeLock'[m] = NoOne
  <2>1. owner[m] = owner[n] /\ phase[m] # "none" => phase[m] = "closed" /\ closeLock[m] = NoOne
    BY <1>3 DEF SoleAlone
  <2>2. ASSUME NEW t \in Streams, NEW k \in Sockets, Created(t, k)
        PROVE  phase'[m] = "closed" /\ closeLock'[m] = NoOne
    <3>1. k # m
      <4>1. table[arg[t]] = None /\ owner'[k] = arg[t]
        BY <1>1, <2>2 DEF Created
      <4>2. table[owner[n]] # None
        BY <1>3, GoroutinesDiffer DEF SoleInTable, Sockets, None
      <4> QED
        BY <1>3, <4>1, <4>2
    <3>2. owner'[m] = owner[m] /\ phase'[m] = phase[m] /\ closeLock'[m] = closeLock[m]
      BY <1>1, <2>2, <3>1 DEF Created
    <3> QED
      BY <1>3, <2>1, <3>2
  <2>3. ASSUME NEW g \in Goroutines, CloseEnter(g) \/ LookEntry(g) \/ Tell(g)
        PROVE  phase'[m] = "closed" /\ closeLock'[m] = NoOne
    <3>1. owner' = owner /\ at[g] \in Sockets /\ phase[at[g]] # "none"
      BY <2>3 DEF PlacesOK, CloseEnter, LookEntry, Tell, Goes, Uses, Closing
    <3>2. phase[m] # "none"
      BY <1>1, <2>3, <3>1 DEF CloseEnter, LookEntry, Tell
    <3>3. phase[m] = "closed" /\ closeLock[m] = NoOne
      BY <1>3, <2>1, <3>1, <3>2
    <3> QED
      BY <1>1, <2>3, <3>3 DEF CloseEnter, LookEntry, Tell
  <2> QED
    BY <1>3, <2>1, <2>2, <2>3, PhaseSteps
<1> QED
  BY <1>2, <1>3, SoleKept

(* CloseSocket closes what the table has, and lock keeps that from changing. *)
LEMMA SoleStaysOfCloser ==
  ASSUME TypeOK, PlacesOK, LockHeld, CloseLockHeld, SoleInTable, SoleOfCloser, Moves
  PROVE  SoleOfCloser'
PROOF
<1> SUFFICES ASSUME NEW w \in Workers, NEW n \in Sockets, Sole(n)', owner'[n] = arg'[w]
             PROVE  (pc'[w] \in Uses => n = at'[w]) /\ pc'[w] # "remove"
  BY DEF SoleOfCloser, Sockets, Workers
<1>1. /\ pc \in [Goroutines -> Places] /\ at \in [Goroutines -> Sockets \cup {None}]
      /\ arg \in [Workers -> Ids]
      /\ w \in Goroutines /\ w # NoOne /\ w \notin Sockets
  BY GoroutinesDiffer DEF TypeOK, Goroutines
<1>2. ASSUME NEW t \in Streams, Created(t, n)
      PROVE  (pc'[w] \in Uses => n = at'[w]) /\ pc'[w] # "remove"
  <2>1. pc' = [pc EXCEPT ![t] = "announce"] /\ lock = NoOne
    BY <1>2 DEF Created, Goes, LockTable
  <2>2. pc[w] \notin Uses \cup {"remove"}
    BY <1>1, <2>1 DEF LockHeld, UnderLock
  <2> QED
    BY <1>1, <2>1, <2>2 DEF Uses, Closing
<1>3. ASSUME Sole(n), owner'[n] = owner[n]
      PROVE  (pc'[w] \in Uses => n = at'[w]) /\ pc'[w] # "remove"
  <2>1. owner[n] = arg[w] => (pc[w] \in Uses => n = at[w]) /\ pc[w] # "remove"
    BY <1>3 DEF SoleOfCloser
  <2>2. CASE Stays(w)
    BY <1>3, <2>1, <2>2 DEF Stays
  <2>3. CASE w \in Streams /\ StreamMoves(w)
    BY <1>1, <2>3 DEF StreamMoves, FindSocket, Created, OnAcceptSocket, EncoderUsed, LookedUp,
       Attached, AcceptStream, Goes, Uses, Closing
  <2>4. CASE CloseMoves(w)
    <3>1. pc[w] \in Uses /\ arg' = arg
      BY <2>4 DEF CloseMoves, CloseAgain, CloseEnter, LookEntry, EntryCleared, DeleteEntry,
         Tell, Goes, Uses, Closing
    <3>2. n = at[w]
      BY <1>3, <2>1, <3>1
    <3>3. ~CloseAgain(w) /\ ~Tell(w)
      BY <1>1, <1>3, <3>2 DEF CloseAgain, Tell, Goes, Sole, CloseLockHeld, Closing
    <3> QED
      BY <1>1, <2>4, <3>2, <3>3
      DEF CloseMoves, CloseEnter, LookEntry, EntryCleared, DeleteEntry, Goes
  <2>5. CASE CloseSocketMoves(w)
    <3>1. CASE SocketLoaded(w)
      <4>1. arg' = arg /\ at'[w] = table[arg[w]] /\ pc'[w] = "close"
        BY <1>1, <3>1 DEF SocketLoaded, Goes
      <4> QED
        BY <1>3, <4>1 DEF SoleInTable
    <3>2. CASE NoSocket(w) \/ SocketSeen(w) \/ SocketRemoved(w)
      BY <1>1, <3>2 DEF NoSocket, SocketSeen, SocketRemoved, CloseSocketDone, Goes, Uses,
         Closing
    <3> QED
      BY <2>5, <3>1, <3>2 DEF CloseSocketMoves
  <2>6. CASE w = Main /\ MainMoves
    BY <1>1, <2>6 DEF MainMoves, ServerClose, RangeNext, RangeDone, ServerClosed, Goes,
       Uses, Closing
  <2>7. CASE \E i \in Ids : ServerSocketClose(w, i)
    BY <1>1, <2>7 DEF ServerSocketClose, Goes, Uses, Closing
  <2> QED
    BY <1>1, <2>2, <2>3, <2>4, <2>5, <2>6, <2>7, OwnSteps DEF Own
<1> QED
  BY <1>2, <1>3, SoleKept

-------------------------------------------------------------------------------
(* The close of the server.                                                *)

(* The server is closed once, and nothing is visited before. *)
LEMMA MainStartsKept ==
  ASSUME TypeOK, MainStarts, Moves
  PROVE  MainStarts'
PROOF
<1>1. pc \in [Goroutines -> Places] /\ Main \in Goroutines /\ Main \notin Sockets
  BY GoroutinesDiffer DEF TypeOK, Goroutines, Workers
<1>2. Own(Main) => pc[Main] # "gone" /\ pc'[Main] # "idle"
  <2>1. CASE StreamMoves(Main)
    BY <1>1, <2>1 DEF StreamMoves, FindSocket, Created, OnAcceptSocket, EncoderUsed, LookedUp,
       Attached, AcceptStream, Goes
  <2>2. CASE CloseMoves(Main)
    BY <1>1, <2>2 DEF CloseMoves, CloseAgain, CloseEnter, LookEntry, EntryCleared, DeleteEntry,
       Tell, Goes, Returns
  <2>3. CASE CloseSocketMoves(Main)
    BY <1>1, <2>3 DEF CloseSocketMoves, NoSocket, SocketSeen, SocketLoaded, SocketRemoved,
       CloseSocketDone, Goes
  <2>4. CASE MainMoves
    BY <1>1, <2>4 DEF MainMoves, ServerClose, RangeNext, RangeDone, ServerClosed, Goes
  <2>5. ~(Main \in Closers)
    BY GoroutinesDiffer
  <2> QED
    BY <1>1, <2>1, <2>2, <2>3, <2>4, <2>5 DEF Own
<1>3. (pc'[Main] = "idle" => pc[Main] = "idle") /\ (pc[Main] = "gone" => pc'[Main] = "gone")
  BY <1>1, <1>2, OwnSteps DEF Stays
<1>4. CASE UNCHANGED closeVars
  BY <1>3, <1>4 DEF MainStarts, closeVars
<1>5. CASE ServerClose \/ \E i \in Ids : RangeNext(i)
  <2>1. pc[Main] # "gone" /\ pc'[Main] # "idle" /\ sClosed' = sClosed
    BY <1>1, <1>5 DEF ServerClose, RangeNext, Goes
  <2> QED
    BY <1>5, <2>1 DEF MainStarts
<1>6. CASE ServerClosed
  BY <1>1, <1>6 DEF MainStarts, ServerClosed, Goes
<1> QED
  BY <1>4, <1>5, <1>6, CloseVarsSteps

(* OnClosing does not get past a sole socket. *)
LEMMA MainRangesKept ==
  ASSUME TypeOK, PlacesOK, SoleInTable, SoleOfCloser, MainStarts, MainRanges, Moves
  PROVE  MainRanges'
PROOF
<1> SUFFICES ASSUME NEW n \in Sockets, Sole(n)'
             PROVE  /\ pc'[Main] # "idle" => owner'[n] \in must'
                    /\ owner'[n] \in visited' =>
                         arg'[Main] = owner'[n] /\ pc'[Main] \in Visiting
                    /\ pc'[Main] \notin {"closing", "gone"}
  BY DEF MainRanges, Sockets
<1>1. /\ pc \in [Goroutines -> Places] /\ arg \in [Workers -> Ids] /\ owner \in [Sockets -> Ids]
      /\ Main \in Goroutines /\ Main \in Workers /\ Main \notin Sockets
      /\ Main \notin Streams /\ Main \notin Closers
  BY GoroutinesDiffer DEF TypeOK, Goroutines, Workers
<1>2. ASSUME NEW t \in Streams, Created(t, n)
      PROVE  pc'[Main] = "idle" /\ visited' = {}
  <2>1. pc[Main] = "idle"
    BY <1>1, <1>2 DEF Created, Sole, TypeOK
  <2>2. pc'[Main] = pc[Main] /\ visited' = visited
    BY <1>1, <1>2 DEF Created, Goes, closeVars
  <2> QED
    BY <2>1, <2>2 DEF MainStarts
<1>3. ASSUME Sole(n), owner'[n] = owner[n]
      PROVE  /\ pc'[Main] # "idle" => owner'[n] \in must'
             /\ owner'[n] \in visited' => arg'[Main] = owner'[n] /\ pc'[Main] \in Visiting
             /\ pc'[Main] \notin {"closing", "gone"}
  <2>1. /\ pc[Main] # "idle" => owner[n] \in must
        /\ owner[n] \in visited => arg[Main] = owner[n] /\ pc[Main] \in Visiting
        /\ pc[Main] \notin {"closing", "gone"}
    BY <1>3 DEF MainRanges
  <2>2. table[owner[n]] = n /\ n # None /\ owner[n] \in Ids
    BY <1>1, <1>3, GoroutinesDiffer DEF SoleInTable, Sockets, None
  <2>3. CASE MainMoves
    <3>1. CASE ServerClose
      <4>1. pc[Main] = "idle" /\ pc'[Main] = "range" /\ must' = Present /\ visited' = visited
        BY <1>1, <3>1 DEF ServerClose, Goes
      <4>2. visited' = {} /\ owner[n] \in must'
        BY <2>2, <4>1 DEF MainStarts, Present
      <4> QED
        BY <1>3, <4>1, <4>2
    <3>2. ASSUME NEW i \in Ids, RangeNext(i)
          PROVE  /\ pc'[Main] # "idle" => owner'[n] \in must'
                 /\ owner'[n] \in visited' => arg'[Main] = owner'[n] /\ pc'[Main] \in Visiting
                 /\ pc'[Main] \notin {"closing", "gone"}
      <4>1. /\ pc[Main] = "range" /\ pc'[Main] = "lock" /\ must' = must
            /\ visited' = visited \cup {i} /\ arg'[Main] = i
        BY <1>1, <3>2 DEF RangeNext, Goes
      <4>2. owner[n] \notin visited
        BY <2>1, <4>1 DEF Visiting, Uses, Closing
      <4> QED
        BY <1>3, <2>1, <4>1, <4>2 DEF Visiting
    <3>3. ~RangeDone
      <4>1. SUFFICES ASSUME RangeDone PROVE FALSE
        OBVIOUS
      <4>2. pc[Main] = "range" /\ must \cap Present \subseteq visited
        BY <4>1 DEF RangeDone, Goes
      <4>3. owner[n] \in must \cap Present
        BY <2>1, <2>2, <4>2 DEF Present
      <4> QED
        BY <2>1, <4>2, <4>3 DEF Visiting, Uses, Closing
    <3>4. ~ServerClosed
      BY <2>1 DEF ServerClosed, Goes
    <3> QED
      BY <2>3, <3>1, <3>2, <3>3, <3>4 DEF MainMoves
  <2>4. CASE ~MainMoves
    <3>1. must' = must /\ visited' = visited
      BY <2>4, CloseVarsSteps DEF MainMoves, closeVars
    <3>2. CASE Stays(Main)
      BY <1>1, <1>3, <2>1, <3>1, <3>2 DEF Stays
    <3>3. CASE CloseMoves(Main)
      <4>1. pc[Main] \in Uses /\ pc'[Main] \in Uses \cup {"remove"} /\ arg' = arg
        BY <1>1, <3>3 DEF CloseMoves, CloseAgain, CloseEnter, LookEntry, EntryCleared,
           DeleteEntry, Tell, Goes, Returns, Uses, Closing
      <4> QED
        BY <1>3, <2>1, <3>1, <4>1 DEF Visiting, Uses, Closing
    <3>4. CASE CloseSocketMoves(Main)
      <4>1. arg' = arg /\ pc[Main] \in {"lock", "load", "remove"}
        BY <3>4 DEF CloseSocketMoves, NoSocket, SocketSeen, SocketLoaded, SocketRemoved,
           CloseSocketDone, Goes
      <4>2. CASE NoSocket(Main) \/ SocketRemoved(Main)
        <5>1. arg[Main] # owner[n]
          BY <1>1, <1>3, <2>2, <4>2
          DEF NoSocket, SocketRemoved, CloseSocketDone, Goes, SoleOfCloser
        <5>2. pc'[Main] = "range"
          BY <1>1, <4>2 DEF NoSocket, SocketRemoved, CloseSocketDone, Goes
        <5> QED
          BY <1>3, <2>1, <3>1, <4>1, <5>1, <5>2
      <4>3. CASE SocketSeen(Main) \/ SocketLoaded(Main)
        <5>1. pc'[Main] \in {"load", "close"}
          BY <1>1, <4>3 DEF SocketSeen, SocketLoaded, Goes
        <5> QED
          BY <1>3, <2>1, <3>1, <4>1, <5>1 DEF Visiting, Uses
      <4> QED
        BY <3>4, <4>2, <4>3 DEF CloseSocketMoves
    <3> QED
      BY <1>1, <2>4, <3>2, <3>3, <3>4, OwnSteps DEF Own
  <2> QED
    BY <2>3, <2>4
<1> QED
  BY <1>2, <1>3, SoleKept

-------------------------------------------------------------------------------
(* What the application is told.                                           *)

(* Nobody but the holder of the lock announces a socket. *)
LEMMA AnnouncerAlone ==
  ASSUME LockHeld, NEW t \in Streams, pc[t] = "announce"
  PROVE  t = lock
PROOF
  BY DEF LockHeld, UnderLock, Workers

(* What the application was told is not taken back. *)
LEMMA ToldKept ==
  ASSUME TypeOK, PlacesOK, Announcing, Moves, NEW n \in Sockets
  PROVE  (accepted[n] = 1 => accepted'[n] = 1) /\ (early[n] => early'[n])
PROOF
<1>1. /\ accepted \in [Sockets -> Nat] /\ early \in [Sockets -> BOOLEAN]
      /\ at \in [Goroutines -> Sockets \cup {None}]
  BY DEF TypeOK
<1>2. ASSUME NEW t \in Streams, OnAcceptSocket(t), accepted[n] = 1
      PROVE  accepted'[n] = 1
  <2>1. accepted[at[t]] = 0
    BY <1>2 DEF Announcing, OnAcceptSocket, Goes
  <2> QED
    BY <1>1, <1>2, <2>1 DEF OnAcceptSocket
<1>3. ASSUME NEW t \in Streams, NEW c \in Indexes, Attached(t, c)
      PROVE  accepted'[n] = accepted[n] /\ (early[n] => early'[n])
  BY <1>1, <1>3 DEF Attached
<1>4. ASSUME NEW g \in Goroutines, Tell(g)
      PROVE  accepted'[n] = accepted[n] /\ early'[n] = early[n]
  BY <1>4 DEF Tell
<1>5. ASSUME NEW t \in Streams, OnAcceptSocket(t)
      PROVE  early'[n] = early[n]
  BY <1>5 DEF OnAcceptSocket
<1> QED
  BY <1>2, <1>3, <1>4, <1>5, ToldSteps

(* A socket that was created is announced by the goroutine holding lock. *)
LEMMA AnnouncedKept ==
  ASSUME TypeOK, PlacesOK, LockHeld, NoneUntouched, Announced, Announcing, Moves
  PROVE  Announced'
PROOF
<1> SUFFICES ASSUME NEW n \in Sockets
             PROVE  /\ accepted'[n] <= 1
                    /\ phase'[n] # "none" =>
                         \/ accepted'[n] = 1
                         \/ lock' \in Streams /\ pc'[lock'] = "announce" /\ at'[lock'] = n
                    /\ attached'[n] # {} => accepted'[n] = 1 \/ early'[n]
  BY DEF Announced, Sockets
<1>1. /\ accepted \in [Sockets -> Nat] /\ early \in [Sockets -> BOOLEAN]
      /\ attached \in [Sockets -> SUBSET Indexes]
      /\ phase \in [Sockets -> {"none", "open", "swept", "closed"}]
      /\ pc \in [Goroutines -> Places] /\ at \in [Goroutines -> Sockets \cup {None}]
  BY DEF TypeOK
<1>2. /\ accepted[n] <= 1
      /\ phase[n] # "none" =>
           accepted[n] = 1 \/ (lock \in Streams /\ pc[lock] = "announce" /\ at[lock] = n)
      /\ attached[n] # {} => accepted[n] = 1 \/ early[n]
  BY DEF Announced
<1>3. accepted'[n] <= 1
  <2>1. ASSUME NEW t \in Streams, OnAcceptSocket(t)
        PROVE  accepted'[n] <= 1
    <3>1. accepted[at[t]] = 0
      BY <2>1 DEF Announcing, OnAcceptSocket, Goes
    <3> QED
      BY <1>1, <1>2, <2>1, <3>1 DEF OnAcceptSocket
  <2>2. ASSUME NEW t \in Streams, NEW c \in Indexes, Attached(t, c)
        PROVE  accepted' = accepted
    BY <2>2 DEF Attached
  <2>3. ASSUME NEW g \in Goroutines, Tell(g)
        PROVE  accepted' = accepted
    BY <2>3 DEF Tell
  <2> QED
    BY <1>2, <2>1, <2>2, <2>3, ToldSteps
<1>4. ASSUME phase'[n] # "none"
      PROVE  \/ accepted'[n] = 1
             \/ lock' \in Streams /\ pc'[lock'] = "announce" /\ at'[lock'] = n
  <2>1. CASE accepted[n] = 1
    BY <2>1, ToldKept
  <2>2. CASE lock \in Streams /\ pc[lock] = "announce" /\ at[lock] = n
    <3>1. lock # NoOne /\ lock \in Goroutines /\ lock \notin Sockets /\ lock # Main
          /\ lock \notin Closers
      BY <2>2, GoroutinesDiffer DEF Goroutines, Workers
    <3>2. CASE Stays(lock)
      <4>1. ASSUME NEW t \in Streams, EncoderUsed(t) PROVE t # lock /\ t = lock
        BY <2>2, <4>1 DEF EncoderUsed, Goes, LockHeld, UnderLock, Workers
      <4>2. ASSUME NEW g \in Workers, SocketRemoved(g) PROVE g # lock /\ g = lock
        BY <2>2, <4>2 DEF SocketRemoved, CloseSocketDone, Goes, LockHeld, UnderLock
      <4>3. lock' = lock
        BY <3>1, <4>1, <4>2, LockSteps
      <4> QED
        BY <2>2, <3>2, <4>3 DEF Stays
    <3>3. CASE StreamMoves(lock)
      <4>1. OnAcceptSocket(lock)
        BY <2>2, <3>3 DEF StreamMoves, FindSocket, Created, EncoderUsed, LookedUp, Attached,
           AcceptStream, Goes
      <4>2. accepted[at[lock]] = 0
        BY <2>2 DEF Announcing
      <4> QED
        BY <1>1, <2>2, <4>1, <4>2 DEF OnAcceptSocket
    <3>4. ~CloseMoves(lock) /\ ~CloseSocketMoves(lock)
      BY <2>2 DEF CloseMoves, CloseAgain, CloseEnter, LookEntry, EntryCleared, DeleteEntry,
         Tell, CloseSocketMoves, NoSocket, SocketSeen, SocketLoaded, SocketRemoved,
         CloseSocketDone, Goes
    <3> QED
      BY <3>1, <3>2, <3>3, <3>4, OwnSteps DEF Own
  <2>3. CASE phase[n] = "none"
    <3>1. ASSUME NEW t \in Streams, Created(t, n)
          PROVE  lock' \in Streams /\ pc'[lock'] = "announce" /\ at'[lock'] = n
      BY <1>1, <3>1 DEF Created, Goes, LockTable, Goroutines, Workers
    <3>2. ASSUME NEW t \in Streams, NEW m \in Sockets, Created(t, m), m # n
          PROVE  FALSE
      BY <1>1, <1>4, <2>3, <3>2 DEF Created
    <3>3. ASSUME NEW g \in Goroutines, CloseEnter(g) \/ LookEntry(g) \/ Tell(g)
          PROVE  FALSE
      <4>1. at[g] # n
        BY <2>3, <3>3 DEF PlacesOK, CloseEnter, LookEntry, Tell, Goes, Uses, Closing
      <4> QED
        BY <1>1, <1>4, <2>3, <3>3, <4>1 DEF CloseEnter, LookEntry, Tell
    <3> QED
      BY <1>4, <2>3, <3>1, <3>2, <3>3, PhaseSteps
  <2> QED
    BY <1>2, <2>1, <2>2, <2>3
<1>5. ASSUME attached'[n] # {}
      PROVE  accepted'[n] = 1 \/ early'[n]
  <2>1. attached[n] # {} => accepted'[n] = 1 \/ early'[n]
    BY <1>2, ToldKept
  <2>2. ASSUME NEW t \in Streams, NEW c \in Indexes, Attached(t, c), at[t] = n
        PROVE  accepted'[n] = 1 \/ early'[n]
    <3>1. early'[n] = (early[n] \/ accepted[n] = 0) /\ accepted' = accepted
      BY <1>1, <2>2 DEF Attached
    <3>2. accepted[n] = 0 \/ accepted[n] = 1
      BY <1>1, <1>2
    <3> QED
      BY <3>1, <3>2
  <2>3. ASSUME NEW t \in Streams, NEW c \in Indexes, Attached(t, c), at[t] # n
        PROVE  attached'[n] = attached[n]
    BY <1>1, <2>3 DEF Attached
  <2>4. ASSUME NEW t \in Streams, OnAcceptSocket(t)
        PROVE  attached' = attached
    BY <2>4 DEF OnAcceptSocket, socketVars
  <2>5. ASSUME NEW g \in Goroutines, Tell(g)
        PROVE  attached' = attached
    BY <2>5 DEF Tell
  <2> QED
    BY <1>5, <2>1, <2>2, <2>3, <2>4, <2>5, ToldSteps
<1> QED
  BY <1>3, <1>4, <1>5

(* No socket is announced twice. *)
LEMMA AnnouncingKept ==
  ASSUME TypeOK, PlacesOK, LockHeld, NoneUntouched, Announcing, Moves
  PROVE  Announcing'
PROOF
<1> SUFFICES ASSUME NEW w \in Streams, pc'[w] = "announce"
             PROVE  accepted'[at'[w]] = 0
  BY DEF Announcing
<1>1. /\ pc \in [Goroutines -> Places] /\ at \in [Goroutines -> Sockets \cup {None}]
      /\ w \in Goroutines /\ w \notin Sockets /\ w # Main /\ w \notin Closers
  BY GoroutinesDiffer DEF TypeOK, Goroutines, Workers
<1>2. CASE Stays(w)
  <2>1. pc[w] = "announce" /\ at'[w] = at[w] /\ accepted[at[w]] = 0
    BY <1>2 DEF Stays, Announcing
  <2>2. ASSUME NEW t \in Streams, OnAcceptSocket(t)
        PROVE  FALSE
    <3>1. t = w
      BY <2>1, <2>2, AnnouncerAlone DEF OnAcceptSocket, Goes
    <3> QED
      BY <1>1, <2>2, <3>1 DEF OnAcceptSocket, Goes
  <2>3. ASSUME NEW t \in Streams, NEW c \in Indexes, Attached(t, c)
        PROVE  accepted' = accepted
    BY <2>3 DEF Attached
  <2>4. ASSUME NEW g \in Goroutines, Tell(g)
        PROVE  accepted' = accepted
    BY <2>4 DEF Tell
  <2> QED
    BY <2>1, <2>2, <2>3, <2>4, ToldSteps
<1>3. CASE StreamMoves(w)
  <2>1. PICK m \in Sockets : Created(w, m)
    BY <1>1, <1>3 DEF StreamMoves, FindSocket, OnAcceptSocket, EncoderUsed, LookedUp, Attached,
       AcceptStream, Goes
  <2>2. phase[m] = "none" /\ at'[w] = m /\ accepted' = accepted
    BY <1>1, <2>1 DEF Created, toldVars
  <2> QED
    BY <2>2 DEF NoneUntouched
<1>4. ~CloseMoves(w) /\ ~CloseSocketMoves(w)
  BY <1>1 DEF CloseMoves, CloseAgain, CloseEnter, LookEntry, EntryCleared, DeleteEntry, Tell,
     Returns, CloseSocketMoves, NoSocket, SocketSeen, SocketLoaded, SocketRemoved,
     CloseSocketDone, Goes
<1> QED
  BY <1>1, <1>2, <1>3, <1>4, OwnSteps DEF Own

(* Nobody closes a socket the application was not told of, but for an early
   stream. *)
LEMMA ClosedKnownKept ==
  ASSUME TypeOK, PlacesOK, EntriesOK, LockHeld, Announced, Announcing, ClosedKnown, Moves
  PROVE  ClosedKnown'
PROOF
<1> SUFFICES ASSUME NEW w \in Goroutines, pc'[w] \in Uses
             PROVE  accepted'[at'[w]] = 1 \/ early'[at'[w]]
  BY DEF ClosedKnown, Goroutines, Workers, Sockets
<1>1. /\ pc \in [Goroutines -> Places] /\ at \in [Goroutines -> Sockets \cup {None}]
      /\ table \in [Ids -> Sockets \cup {None}] /\ arg \in [Workers -> Ids]
  BY DEF TypeOK
<1>2. ASSUME pc[w] \in Uses, at'[w] = at[w]
      PROVE  accepted'[at'[w]] = 1 \/ early'[at'[w]]
  <2>1. at[w] \in Sockets /\ (accepted[at[w]] = 1 \/ early[at[w]])
    BY <1>2 DEF PlacesOK, ClosedKnown
  <2> QED
    BY <1>2, <2>1, ToldKept
<1>3. CASE Stays(w)
  BY <1>2, <1>3 DEF Stays
<1>4. ~(w \in Streams /\ StreamMoves(w))
  BY <1>1 DEF StreamMoves, FindSocket, Created, OnAcceptSocket, EncoderUsed, LookedUp,
     Attached, AcceptStream, Goes, Uses, Closing
<1>5. CASE CloseMoves(w)
  <2>1. pc[w] \in Uses /\ at'[w] = at[w]
    BY <1>1, <1>5 DEF CloseMoves, CloseAgain, CloseEnter, LookEntry, EntryCleared, DeleteEntry,
       Tell, Goes, Returns, Uses, Closing
  <2> QED
    BY <1>2, <2>1
<1>6. CASE w \in Workers /\ CloseSocketMoves(w)
  <2>1. SocketLoaded(w)
    BY <1>1, <1>6 DEF CloseSocketMoves, NoSocket, SocketSeen, SocketRemoved, CloseSocketDone,
       Goes, Uses, Closing
  <2>2. lock = w /\ pc[w] = "load"
    BY <1>6, <2>1 DEF SocketLoaded, Goes, LockHeld, UnderLock
  <2>3. at'[w] = table[arg[w]] /\ table[arg[w]] \in Sockets /\ phase[table[arg[w]]] # "none"
    BY <1>1, <1>6, <2>1 DEF SocketLoaded, EntriesOK
  <2>4. accepted[table[arg[w]]] = 1
    BY <2>2, <2>3 DEF Announced
  <2> QED
    BY <2>1, <2>3, <2>4 DEF SocketLoaded, toldVars
<1>7. ~(w = Main /\ MainMoves)
  BY <1>1 DEF MainMoves, ServerClose, RangeNext, RangeDone, ServerClosed, Goes, Uses, Closing
<1>8. ~(\E i \in Ids : ServerSocketClose(w, i))
  BY <1>1 DEF ServerSocketClose, Goes, Uses, Closing
<1>9. CASE w \in Sockets /\ SocketEnds(w)
  <2>1. at'[w] = w /\ attached[w] # {} /\ UNCHANGED toldVars
    BY <1>1, <1>9, ClientsHaveIds DEF SocketEnds
  <2> QED
    BY <1>9, <2>1 DEF Announced, toldVars
<1> QED
  BY <1>3, <1>4, <1>5, <1>6, <1>7, <1>8, <1>9, OwnSteps DEF Own

(* onDisconnect is called once for a socket, under its closeLock. *)
LEMMA EndedOnceKept ==
  ASSUME TypeOK, PlacesOK, CloseLockHeld, Announcing, ClosedKnown, EndedOnce, Moves
  PROVE  EndedOnce'
PROOF
<1> SUFFICES ASSUME NEW n \in Sockets
             PROVE  \/ ended'[n] = 0
                    \/ /\ ended'[n] = 1 /\ phase'[n] = "closed" /\ closeLock'[n] = NoOne
                       /\ accepted'[n] = 1 \/ early'[n]
  BY DEF EndedOnce, Sockets
<1>1. /\ ended \in [Sockets -> Nat] /\ closeLock \in [Sockets -> Goroutines \cup {NoOne}]
      /\ phase \in [Sockets -> {"none", "open", "swept", "closed"}]
      /\ NoOne \notin Goroutines
  BY GoroutinesDiffer DEF TypeOK
<1>2. \/ ended[n] = 0
      \/ /\ ended[n] = 1 /\ phase[n] = "closed" /\ closeLock[n] = NoOne
         /\ accepted[n] = 1 \/ early[n]
  BY DEF EndedOnce
<1>3. ASSUME NEW g \in Goroutines, Tell(g), at[g] = n
      PROVE  /\ ended'[n] = 1 /\ phase'[n] = "closed" /\ closeLock'[n] = NoOne
             /\ accepted'[n] = 1 \/ early'[n]
  <2>1. pc[g] = "tell"
    BY <1>3 DEF Tell, Goes
  <2>2. phase[n] = "closed" /\ closeLock[n] = g /\ (accepted[n] = 1 \/ early[n])
    BY <1>3, <2>1 DEF CloseLockHeld, ClosedKnown, Uses, Closing
  <2>3. ended[n] = 0
    BY <1>1, <1>2, <2>2
  <2> QED
    BY <1>1, <1>3, <2>2, <2>3 DEF Tell
<1>4. ASSUME \A g \in Goroutines : ~(Tell(g) /\ at[g] = n)
      PROVE  \/ ended'[n] = 0
             \/ /\ ended'[n] = 1 /\ phase'[n] = "closed" /\ closeLock'[n] = NoOne
                /\ accepted'[n] = 1 \/ early'[n]
  <2>1. ended'[n] = ended[n]
    <3>1. ASSUME NEW g \in Goroutines, Tell(g)
          PROVE  ended'[n] = ended[n]
      BY <1>1, <1>4, <3>1 DEF Tell
    <3>2. ASSUME NEW t \in Streams, OnAcceptSocket(t) \/ \E c \in Indexes : Attached(t, c)
          PROVE  ended' = ended
      BY <3>2 DEF OnAcceptSocket, Attached
    <3> QED
      BY <3>1, <3>2, ToldSteps
  <2>2. ASSUME phase[n] = "closed", closeLock[n] = NoOne
        PROVE  phase'[n] = "closed" /\ closeLock'[n] = NoOne
    <3>1. ASSUME NEW t \in Streams, NEW m \in Sockets, Created(t, m)
          PROVE  phase'[n] = "closed" /\ closeLock'[n] = NoOne
      BY <1>1, <2>2, <3>1 DEF Created
    <3>2. ASSUME NEW g \in Goroutines, CloseEnter(g) \/ LookEntry(g) \/ Tell(g)
          PROVE  phase'[n] = "closed" /\ closeLock'[n] = NoOne
      <4>1. at[g] # n
        BY <1>1, <2>2, <3>2 DEF CloseEnter, LookEntry, Tell, Goes, CloseLockHeld, Closing
      <4> QED
        BY <1>1, <2>2, <3>2, <4>1 DEF CloseEnter, LookEntry, Tell
    <3> QED
      BY <2>2, <3>1, <3>2, PhaseSteps
  <2> QED
    BY <1>2, <2>1, <2>2, ToldKept
<1> QED
  BY <1>3, <1>4

-------------------------------------------------------------------------------
(* The invariant of the specification, and what follows from it.           *)

Inv ==
  /\ TypeOK /\ PlacesOK /\ EntriesOK /\ LockHeld /\ CloseLockHeld
  /\ HoldersInside /\ NoneUntouched
  /\ SoleInTable /\ SoleAlone /\ SoleOfCloser /\ MainStarts /\ MainRanges
  /\ Announced /\ Announcing /\ ClosedKnown /\ EndedOnce

(* It holds at the start: no socket was created and everybody is idle. *)
LEMMA InvStarts ==
  ASSUME Init
  PROVE  Inv
PROOF
<1>1. /\ \A g \in Goroutines : pc[g] = "idle"
      /\ \A n \in Sockets : /\ phase[n] = "none" /\ closeLock[n] = NoOne /\ attached[n] = {}
                            /\ accepted[n] = 0 /\ ended[n] = 0
      /\ \A i \in Ids : table[i] = None
      /\ pc[Main] = "idle" /\ visited = {} /\ ~sClosed
  BY DEF Init, Goroutines, Workers
<1>2. TypeOK
  <2>1. (CHOOSE i \in Ids : TRUE) \in Ids
    BY ClientsHaveIds
  <2>2. owner \in [Sockets -> Ids] /\ arg \in [Workers -> Ids]
    BY <2>1 DEF Init
  <2> QED
    BY <2>2, GoroutinesDiffer DEF Init, TypeOK, Places
<1>3. PlacesOK /\ CloseLockHeld /\ ClosedKnown
  BY <1>1 DEF PlacesOK, CloseLockHeld, ClosedKnown, Uses, Closing
<1>4. LockHeld /\ HoldersInside /\ Announcing
  BY <1>1, GoroutinesDiffer
  DEF Init, HoldersInside, LockHeld, Announcing, UnderLock, Uses, Closing, Goroutines, Workers
<1>5. EntriesOK /\ NoneUntouched /\ EndedOnce /\ Announced
  BY <1>1 DEF EntriesOK, NoneUntouched, EndedOnce, Announced
<1>6. \A n \in Sockets : ~Sole(n)
  BY <1>1 DEF Sole
<1>7. SoleInTable /\ SoleAlone /\ SoleOfCloser /\ MainRanges
  BY <1>6 DEF SoleInTable, SoleAlone, SoleOfCloser, MainRanges
<1>8. MainStarts
  BY <1>1 DEF MainStarts
<1> QED
  BY <1>2, <1>3, <1>4, <1>5, <1>7, <1>8 DEF Inv

(* Every step keeps the invariant. *)
LEMMA InvKept ==
  ASSUME Inv, [Next]_vars
  PROVE  Inv'
PROOF
<1>1. CASE Next
  <2>1. Moves
    BY <1>1, EveryStepMoves DEF Inv, TypeOK
  <2>2. TypeOK' /\ PlacesOK' /\ EntriesOK'
    BY <2>1, TypeKept, PlacesKept, EntriesKept DEF Inv
  <2>3. LockHeld' /\ CloseLockHeld' /\ NoneUntouched'
    BY <2>1, LockKept, CloseLockKept, NoneStaysUntouched DEF Inv
  <2>7. HoldersInside'
    <3>1. panic = "none"
      BY <1>1 DEF Next
    <3> QED
      BY <2>1, <3>1, LockHolderKept, CloseLockHolderKept DEF Inv, HoldersInside, Workers,
         Goroutines, Sockets
  <2>4. SoleInTable' /\ SoleAlone' /\ SoleOfCloser'
    BY <2>1, SoleStaysInTable, SoleStaysAlone, SoleStaysOfCloser DEF Inv
  <2>5. MainStarts' /\ MainRanges'
    BY <2>1, MainStartsKept, MainRangesKept DEF Inv
  <2>6. Announced' /\ Announcing' /\ ClosedKnown' /\ EndedOnce'
    BY <2>1, AnnouncedKept, AnnouncingKept, ClosedKnownKept, EndedOnceKept DEF Inv
  <2> QED
    BY <2>2, <2>3, <2>4, <2>5, <2>6, <2>7 DEF Inv
<1>2. CASE UNCHANGED vars
  <2>1. TypeOK'
    BY <1>2 DEF Inv, TypeOK, vars, tableVars, listenVars, socketVars, closeVars, toldVars
  <2>2. PlacesOK' /\ EntriesOK' /\ LockHeld' /\ CloseLockHeld' /\ HoldersInside'
       /\ NoneUntouched'
    BY <1>2 DEF Inv, PlacesOK, EntriesOK, LockHeld, CloseLockHeld, HoldersInside, NoneUntouched,
       vars, tableVars, socketVars, toldVars
  <2>3. SoleInTable' /\ SoleAlone' /\ SoleOfCloser' /\ MainStarts' /\ MainRanges'
    BY <1>2 DEF Inv, Sole, SoleInTable, SoleAlone, SoleOfCloser, MainStarts, MainRanges,
       vars, tableVars, socketVars, closeVars
  <2>4. Announced' /\ Announcing' /\ ClosedKnown' /\ EndedOnce'
    BY <1>2 DEF Inv, Announced, Announcing, ClosedKnown, EndedOnce, vars, socketVars, toldVars
  <2> QED
    BY <2>1, <2>2, <2>3, <2>4 DEF Inv
<1> QED
  BY <1>1, <1>2

(* The invariant holds in every state of the server. *)
THEOREM ServerInvariance == Spec => []Inv
PROOF
<1>1. Init => Inv
  BY InvStarts
<1>2. Inv /\ [Next]_vars => Inv'
  BY InvKept
<1> QED
  BY <1>1, <1>2, PTL DEF Spec

(* The variables of server.go keep their types, whatever the streams, the
   closers, the readers and Main do, and in whatever order. *)
THEOREM ServerTypes == Spec => []TypeOK
PROOF
<1>1. Inv => TypeOK
  BY DEF Inv
<1> QED
  BY <1>1, ServerInvariance, PTL

(* server.go:188-217: the application is told of each socket at most once, and
   of its end at most once, when the socket is closed, and after it was told of
   the socket unless a stream attached to the socket early. *)
THEOREM ServerTellsInOrder == Spec => []AcceptedThenEnded
PROOF
<1>1. Inv => AcceptedThenEnded
  <2> SUFFICES ASSUME Inv, NEW n \in Sockets
               PROVE  /\ accepted[n] <= 1 /\ ended[n] <= 1
                      /\ ended[n] = 1 => phase[n] = "closed"
                      /\ ended[n] > accepted[n] => early[n]
    BY DEF AcceptedThenEnded
  <2>1. accepted \in [Sockets -> Nat] /\ ended \in [Sockets -> Nat]
    BY DEF Inv, TypeOK
  <2>2. \/ ended[n] = 0
        \/ /\ ended[n] = 1 /\ phase[n] = "closed"
           /\ accepted[n] = 1 \/ early[n]
    BY DEF Inv, EndedOnce
  <2>3. accepted[n] <= 1
    BY DEF Inv, Announced
  <2> QED
    BY <2>1, <2>2, <2>3
<1> QED
  BY <1>1, ServerInvariance, PTL

(* server.go:88-217: an open socket is the one the table has for its client,
   although OnDisconnect takes entries away by id and without lock, unless the
   client came back before its old socket had ended, or during the close of the
   server. *)
THEOREM ServerFindsSockets == Spec => []TableFindsSockets
PROOF
<1>1. Inv => TableFindsSockets
  BY DEF Inv, SoleInTable, Sole, TableFindsSockets
<1> QED
  BY <1>1, ServerInvariance, PTL

(* server.go:76-79: when the server is closed so is every socket, with the same
   exceptions. *)
THEOREM ServerEndsSockets == Spec => []ServerCloseEndsSockets
PROOF
<1>1. Inv => ServerCloseEndsSockets
  <2> SUFFICES ASSUME Inv, sClosed, NEW n \in Sockets
               PROVE  phase[n] \in {"none", "closed"} \/ overlap[n]
    BY DEF ServerCloseEndsSockets
  <2>1. ~Sole(n)
    BY DEF Inv, MainStarts, MainRanges
  <2>2. phase[n] \in {"none", "open", "swept", "closed"}
    BY DEF Inv, TypeOK
  <2> QED
    BY <2>1, <2>2 DEF Sole
<1> QED
  BY <1>1, ServerInvariance, PTL

(* Who waits for a lock that somebody has. *)
Waits(g) ==
  \/ pc[g] = "lock" /\ lock # NoOne
  \/ pc[g] = "close" /\ closeLock[at[g]] # NoOne

(* Of the goroutines inside processStream, CloseSocket or Close some wait for
   no lock, as long as the process lives. *)
WaitersWaitForRunner ==
  panic = "none" /\ (\E g \in Goroutines : Waits(g)) =>
    \E h \in Goroutines : pc[h] \notin {"idle", "gone"} /\ ~Waits(h)

(* server.go:88-217, dispose.go:32-52: whoever waits for lock or for the
   closeLock of a socket waits, in at most two steps, for a goroutine that
   waits for no lock: CloseSocket takes closeLock under lock, and the
   OnDisconnect that runs under closeLock takes none. *)
THEOREM ServerWaitersWaitForRunner == Spec => []WaitersWaitForRunner
PROOF
<1>1. ASSUME Inv, panic = "none", NEW g \in Goroutines, pc[g] = "close",
             closeLock[at[g]] # NoOne
      PROVE  \E h \in Goroutines : pc[h] \notin {"idle", "gone"} /\ ~Waits(h)
  <2>1. at[g] \in Sockets /\ closeLock[at[g]] \in Goroutines
    BY <1>1 DEF Inv, TypeOK, PlacesOK, Uses
  <2>2. pc[closeLock[at[g]]] \in Closing
    BY <1>1, <2>1 DEF Inv, HoldersInside
  <2> QED
    BY <2>1, <2>2 DEF Waits, Closing
<1>2. ASSUME Inv, panic = "none", lock # NoOne
      PROVE  \E h \in Goroutines : pc[h] \notin {"idle", "gone"} /\ ~Waits(h)
  <2>1. lock \in Workers /\ lock \in Goroutines
    BY <1>2 DEF Inv, TypeOK, Goroutines
  <2>2. pc[lock] \in UnderLock
    BY <1>2, <2>1 DEF Inv, HoldersInside
  <2>3. CASE Waits(lock)
    BY <1>1, <1>2, <2>1, <2>2, <2>3 DEF Waits, UnderLock, Uses, Closing
  <2> QED
    BY <2>1, <2>2, <2>3 DEF UnderLock, Uses, Closing
<1>3. Inv => WaitersWaitForRunner
  BY <1>1, <1>2 DEF Waits, WaitersWaitForRunner
<1> QED
  BY <1>3, ServerInvariance, PTL

-------------------------------------------------------------------------------
(* Each socket of the table is closed by the protocol of CloseableObject.  *)

PlaceIn(n, place, m) ==
  IF m # n THEN "idle"
  ELSE CASE place = "close" -> "waiting"
         [] place = "agree" -> "closing"
         [] place \in {"clear", "delete", "tell"} -> "notifying"
         [] OTHER -> "idle"

PlacesIn(n) == [g \in Goroutines |-> PlaceIn(n, pc[g], at[g])]

(* OnClosing empties the socket; OnClosed is OnDisconnect, with the table
   edits and the application's callback. *)
Protocol(n) == INSTANCE CloseableObject WITH
  Callers <- Goroutines,
  isClosed <- phase[n] = "closed",
  closeLock <- closeLock[n],
  handler <- TRUE,
  closedRuns <- ended[n],
  pc <- PlacesIn(n)

protocolVars(n) == <<phase[n] = "closed", closeLock[n], ended[n], PlacesIn(n)>>

ProtocolStep(n) == Protocol(n)!Next \/ UNCHANGED protocolVars(n)

(* A step that leaves the socket alone. *)
Aside(n) ==
  /\ (phase'[n] = "closed") <=> (phase[n] = "closed")
  /\ closeLock'[n] = closeLock[n] /\ ended'[n] = ended[n]
  /\ PlacesIn(n)' = PlacesIn(n)

LEMMA AsideStutters ==
  ASSUME NEW n \in Sockets, Aside(n)
  PROVE  ProtocolStep(n)
  BY DEF Aside, ProtocolStep, protocolVars

(* Only g moves: to a place, and to a socket. *)
MovesTo(g, place, m) ==
  pc' = [pc EXCEPT ![g] = place] /\ at' = [at EXCEPT ![g] = m]

LEMMA MovesAlone ==
  ASSUME TypeOK, NEW g \in Goroutines, NEW place, pc' = [pc EXCEPT ![g] = place], at' = at
  PROVE  MovesTo(g, place, at[g])
  BY DEF TypeOK, MovesTo

LEMMA OneMoves ==
  ASSUME NEW n \in Sockets, NEW g \in Goroutines, NEW place, NEW m,
         TypeOK, MovesTo(g, place, m)
  PROVE  PlacesIn(n)' = [PlacesIn(n) EXCEPT ![g] = PlaceIn(n, place, m)]
<1>1. pc \in [Goroutines -> Places] /\ at \in [Goroutines -> Sockets \cup {None}]
  BY DEF TypeOK
<1>2. QED
  BY <1>1 DEF PlacesIn, MovesTo

(* A goroutine that is inside no Close before and after its step. *)
LEMMA OneAside ==
  ASSUME NEW n \in Sockets, NEW g \in Goroutines, NEW place, NEW m,
         TypeOK, MovesTo(g, place, m), PlaceIn(n, place, m) = PlaceIn(n, pc[g], at[g])
  PROVE  PlacesIn(n)' = PlacesIn(n)
<1>1. PlacesIn(n)' = [PlacesIn(n) EXCEPT ![g] = PlaceIn(n, place, m)]
  BY ONLY TypeOK, MovesTo(g, place, m), OneMoves, Zenon
<1>2. PlacesIn(n)[g] = PlaceIn(n, place, m) /\ DOMAIN PlacesIn(n) = Goroutines
  BY DEF PlacesIn
<1>3. PlacesIn(n) = [h \in Goroutines |-> PlacesIn(n)[h]]
  BY DEF PlacesIn
<1>4. QED
  BY <1>1, <1>2, <1>3

(* server.go:95-186: streams, and the close of the server but for the sockets
   it closes. *)
LEMMA OthersAside ==
  ASSUME Inv, NEW n \in Sockets,
         \/ Stops \/ Listens \/ MainMoves
         \/ \E t \in Streams : StreamMoves(t)
         \/ \E k \in Closers, i \in Ids : ServerSocketClose(k, i)
  PROVE  Aside(n)
<1> USE DEF tableVars, listenVars, socketVars, closeVars, toldVars
<1>1. TypeOK /\ Streams \subseteq Goroutines /\ Closers \subseteq Goroutines /\ Main \in Goroutines
  BY DEF Inv, Goroutines, Workers
<1>2. CASE Stops \/ Listens
  BY <1>2 DEF Stops, Listens, Aside, PlacesIn
<1>3. CASE MainMoves
  <2>1. /\ UNCHANGED <<phase, closeLock, ended, at>>
        /\ \E to \in Places : /\ MovesTo(Main, to, at[Main])
                              /\ to \notin Uses /\ pc[Main] \notin Uses
    BY <1>1, <1>3, MovesAlone DEF MainMoves, ServerClose, RangeDone, ServerClosed, RangeNext, Goes,
       Places, Uses, Closing
  <2>2. PlacesIn(n)' = PlacesIn(n)
    BY <1>1, <2>1, OneAside DEF PlaceIn, Uses, Closing
  <2>3. QED
    BY <2>1, <2>2 DEF Aside
<1>4. ASSUME NEW t \in Streams, StreamMoves(t) PROVE Aside(n)
  <2>1. \E to \in Places, m \in Sockets \cup {None} :
          /\ MovesTo(t, to, m)
          /\ to \notin Uses /\ pc[t] \notin Uses
    <3>1. at \in [Goroutines -> Sockets \cup {None}] /\ table \in [Ids -> Sockets \cup {None}]
          /\ arg \in [Workers -> Ids] /\ t \in Goroutines /\ t \in Workers
      BY <1>1 DEF TypeOK, Workers
    <3>2. CASE \E m \in Sockets : Created(t, m)
      BY <3>2 DEF MovesTo, Created, Goes, Places, Uses, Closing
    <3>3. CASE LookedUp(t)
      BY <3>1, <3>3 DEF MovesTo, LookedUp, Goes, Places, Uses, Closing
    <3>4. CASE \E c \in Indexes : Attached(t, c)
      BY <3>4 DEF MovesTo, Attached, Goes, Places, Uses, Closing
    <3>5. CASE \/ FindSocket(t) \/ OnAcceptSocket(t) \/ EncoderUsed(t)
               \/ \E i \in Ids : AcceptStream(t, i)
      BY <1>1, <3>1, <3>5, MovesAlone DEF FindSocket, OnAcceptSocket, EncoderUsed, AcceptStream,
         Goes, Places, Uses, Closing
    <3>6. QED
      BY <1>4, <3>2, <3>3, <3>4, <3>5 DEF StreamMoves
  <2>2. PlacesIn(n)' = PlacesIn(n)
    BY <1>1, <2>1, OneAside DEF PlaceIn, Uses, Closing
  <2>3. /\ (phase'[n] = "closed") <=> (phase[n] = "closed")
        /\ closeLock'[n] = closeLock[n] /\ ended'[n] = ended[n]
    BY <1>1, <1>4 DEF StreamMoves, FindSocket, Created, OnAcceptSocket, EncoderUsed, LookedUp,
       Attached, AcceptStream, TypeOK
  <2>4. QED
    BY <2>2, <2>3 DEF Aside
<1>5. ASSUME NEW k \in Closers, NEW i \in Ids, ServerSocketClose(k, i) PROVE Aside(n)
  <2>1. PlacesIn(n)' = PlacesIn(n)
    BY <1>1, <1>5, MovesAlone, OneAside DEF ServerSocketClose, Goes, PlaceIn
  <2>2. QED
    BY <1>5, <2>1 DEF ServerSocketClose, Aside
<1>6. QED
  BY <1>2, <1>3, <1>4, <1>5

(* CloseSocket and the reader of the last channel call Close. *)
LEMMA CallsByProtocol ==
  ASSUME Inv, NEW n \in Sockets, NEW g \in Goroutines,
         \/ g \in Sockets /\ SocketEnds(g)
         \/ g \in Workers /\ CloseSocketMoves(g)
  PROVE  ProtocolStep(n)
<1> USE DEF tableVars, listenVars, socketVars, closeVars, toldVars
<1>1. TypeOK
  BY DEF Inv
<1>2. /\ UNCHANGED <<phase, closeLock, ended>>
      /\ \E to \in Places, m \in Sockets \cup {None} :
           /\ MovesTo(g, to, m)
           /\ \/ to = "close" /\ pc[g] \in {"idle", "load"}
              \/ to \notin Uses /\ pc[g] \notin Uses
  <2>1. CASE SocketEnds(g) /\ g \in Sockets
    BY <2>1 DEF MovesTo, SocketEnds, Goes, Places
  <2>2. CASE SocketLoaded(g) /\ g \in Workers
    <3>1. table[arg[g]] \in Sockets \cup {None}
      BY <1>1, <2>2 DEF TypeOK
    <3>2. QED
      BY <2>2, <3>1 DEF MovesTo, SocketLoaded, Goes, Places
  <2>3. CASE (NoSocket(g) \/ SocketSeen(g) \/ SocketRemoved(g)) /\ g \in Workers
    <3>1. at[g] \in Sockets \cup {None}
      BY <1>1 DEF TypeOK
    <3>2. QED
      BY <1>1, <2>3, <3>1, MovesAlone DEF NoSocket, SocketSeen, SocketRemoved, CloseSocketDone,
         Goes, Places, Uses, Closing
  <2>4. QED
    BY <2>1, <2>2, <2>3 DEF CloseSocketMoves
<1>3. PICK to \in Places, m \in Sockets \cup {None} :
        /\ MovesTo(g, to, m)
        /\ \/ to = "close" /\ pc[g] \in {"idle", "load"}
           \/ to \notin Uses /\ pc[g] \notin Uses
  BY <1>2
<1>4. CASE to = "close" /\ m = n
  <2>1. PlacesIn(n)' = [PlacesIn(n) EXCEPT ![g] = "waiting"]
    <3>1. PlacesIn(n)' = [PlacesIn(n) EXCEPT ![g] = PlaceIn(n, to, m)]
      BY <1>1, <1>3, OneMoves, Zenon
    <3>2. QED
      BY <1>4, <3>1 DEF PlaceIn
  <2>2. PlacesIn(n)[g] = "idle"
    BY <1>3, <1>4 DEF PlacesIn, PlaceIn, Uses, Closing
  <2>3. Protocol(n)!Call(g)
    BY <1>2, <2>1, <2>2 DEF Protocol!Call
  <2>4. QED
    BY <2>3 DEF ProtocolStep, Protocol!Next
<1>5. CASE ~(to = "close" /\ m = n)
  <2>1. PlaceIn(n, to, m) = PlaceIn(n, pc[g], at[g])
    BY <1>3, <1>5 DEF PlaceIn, Uses, Closing
  <2>2. PlacesIn(n)' = PlacesIn(n)
    BY <1>1, <1>3, <2>1, OneAside
  <2>3. QED
    BY <1>2, <2>2, AsideStutters DEF Aside
<1>6. QED
  BY <1>4, <1>5

(* Inside Close. *)
LEMMA ClosesByProtocol ==
  ASSUME Inv, NEW n \in Sockets, NEW g \in Goroutines, CloseMoves(g)
  PROVE  ProtocolStep(n)
<1> USE DEF tableVars, listenVars, socketVars, closeVars, toldVars
<1>1. TypeOK /\ at[g] \in Sockets
  BY DEF Inv, PlacesOK, CloseMoves, CloseAgain, CloseEnter, LookEntry, EntryCleared, DeleteEntry,
     Tell, Goes, Uses, Closing
<1>2. \E to \in Places, m \in Sockets \cup {None} :
        /\ MovesTo(g, to, m)
        /\ m = at[g] \/ to \in {"gone", "remove"}
  <2>1. CASE CloseAgain(g) \/ Tell(g)
    BY <2>1 DEF CloseAgain, Tell, Goes, Returns, Places, MovesTo
  <2>2. CASE CloseEnter(g) \/ LookEntry(g) \/ EntryCleared(g) \/ DeleteEntry(g)
    BY <1>1, <2>2, MovesAlone DEF CloseEnter, LookEntry, EntryCleared, DeleteEntry, Goes, Places
  <2>3. QED
    BY <2>1, <2>2 DEF CloseMoves
<1>3. CASE at[g] # n
  <2>1. PlacesIn(n)' = PlacesIn(n)
    BY <1>1, <1>2, <1>3, OneAside DEF PlaceIn
  <2>2. /\ (phase'[n] = "closed") <=> (phase[n] = "closed")
        /\ closeLock'[n] = closeLock[n] /\ ended'[n] = ended[n]
    BY <1>1, <1>3 DEF CloseMoves, CloseAgain, CloseEnter, LookEntry, EntryCleared, DeleteEntry,
       Tell, TypeOK
  <2>3. QED
    BY <2>1, <2>2, AsideStutters DEF Aside
<1>4. CASE at[g] = n
  <2>1. ASSUME NEW to \in Places, MovesTo(g, to, n) \/ (MovesTo(g, to, None) /\ to \notin Uses)
        PROVE  PlacesIn(n)' = [PlacesIn(n) EXCEPT ![g] = PlaceIn(n, to, n)]
    <3>1. CASE MovesTo(g, to, n)
      BY <1>1, <3>1, OneMoves, Zenon
    <3>2. CASE MovesTo(g, to, None) /\ to \notin Uses
      <4>1. PlacesIn(n)' = [PlacesIn(n) EXCEPT ![g] = PlaceIn(n, to, None)]
        BY <1>1, <3>2, OneMoves, Zenon
      <4>2. PlaceIn(n, to, None) = PlaceIn(n, to, n)
        BY <3>2 DEF PlaceIn, Uses, Closing
      <4>3. QED
        BY <4>1, <4>2
    <3>3. QED
      BY <2>1, <3>1, <3>2
  <2>2. PlacesIn(n)[g] = PlaceIn(n, pc[g], n)
    BY <1>4 DEF PlacesIn
  <2>3. CASE CloseAgain(g)
    <3>1. PlacesIn(n)' = [PlacesIn(n) EXCEPT ![g] = "idle"] /\ PlacesIn(n)[g] = "waiting"
      <4>1. MovesTo(g, Returns(g), None) /\ Returns(g) \in Places \ Uses
        BY <2>3 DEF CloseAgain, Goes, Returns, MovesTo, Places, Uses, Closing
      <4>2. PlacesIn(n)' = [PlacesIn(n) EXCEPT ![g] = PlaceIn(n, Returns(g), n)]
        BY <2>1, <4>1
      <4>3. QED
        BY <2>2, <2>3, <4>1, <4>2 DEF CloseAgain, Goes, PlaceIn, Uses, Closing
    <3>2. Protocol(n)!Skip(g)
      BY <1>1, <1>4, <2>3, <3>1 DEF CloseAgain, TypeOK, Protocol!Skip
    <3>3. QED
      BY <3>2 DEF ProtocolStep, Protocol!Next, Protocol!Step
  <2>4. CASE CloseEnter(g)
    <3>1. PlacesIn(n)' = [PlacesIn(n) EXCEPT ![g] = "closing"] /\ PlacesIn(n)[g] = "waiting"
      <4>1. MovesTo(g, "agree", n)
        BY <1>1, <1>4, <2>4, MovesAlone DEF CloseEnter, Goes
      <4>2. QED
        BY <2>1, <2>2, <2>4, <4>1 DEF CloseEnter, Goes, PlaceIn, Places
    <3>2. Protocol(n)!Begin(g)
      BY <1>1, <1>4, <2>4, <3>1 DEF CloseEnter, TypeOK, Protocol!Begin
    <3>3. QED
      BY <3>2 DEF ProtocolStep, Protocol!Next, Protocol!Step
  <2>5. CASE LookEntry(g)
    <3>1. PlacesIn(n)' = [PlacesIn(n) EXCEPT ![g] = "notifying"] /\ PlacesIn(n)[g] = "closing"
      <4>1. MovesTo(g, "tell", n) \/ MovesTo(g, "clear", n)
        BY <1>1, <1>4, <2>5, MovesAlone DEF LookEntry, Goes
      <4>2. QED
        BY <2>1, <2>2, <2>5, <4>1 DEF LookEntry, Goes, PlaceIn, Places
    <3>2. Protocol(n)!Agree(g)
      BY <1>1, <1>4, <2>5, <3>1 DEF LookEntry, TypeOK, Protocol!Agree
    <3>3. QED
      BY <3>2 DEF ProtocolStep, Protocol!Next, Protocol!Step
  <2>6. CASE EntryCleared(g) \/ DeleteEntry(g)
    <3>1. PlacesIn(n)' = PlacesIn(n)
      BY <1>1, <1>4, <2>6, MovesAlone, OneAside DEF EntryCleared, DeleteEntry, Goes, PlaceIn
    <3>2. QED
      BY <2>6, <3>1, AsideStutters DEF EntryCleared, DeleteEntry, Aside
  <2>7. CASE Tell(g)
    <3>1. PlacesIn(n)' = [PlacesIn(n) EXCEPT ![g] = "idle"] /\ PlacesIn(n)[g] = "notifying"
      <4>1. MovesTo(g, Returns(g), None) /\ Returns(g) \in Places \ Uses
        BY <2>7 DEF Tell, Goes, Returns, MovesTo, Places, Uses, Closing
      <4>2. PlacesIn(n)' = [PlacesIn(n) EXCEPT ![g] = PlaceIn(n, Returns(g), n)]
        BY <2>1, <4>1
      <4>3. QED
        BY <2>2, <2>7, <4>1, <4>2 DEF Tell, Goes, PlaceIn, Uses, Closing
    <3>2. Protocol(n)!Finish(g)
      BY <1>1, <1>4, <2>7, <3>1 DEF Tell, TypeOK, Protocol!Finish
    <3>3. QED
      BY <3>2 DEF ProtocolStep, Protocol!Next, Protocol!Step
  <2>8. QED
    BY <2>3, <2>4, <2>5, <2>6, <2>7 DEF CloseMoves
<1>5. QED
  BY <1>3, <1>4

LEMMA StepsByProtocol ==
  ASSUME Inv, NEW n \in Sockets, [Next]_vars
  PROVE  ProtocolStep(n)
<1>1. CASE UNCHANGED vars
  <2>1. Aside(n)
    <3>1. UNCHANGED <<phase, closeLock, ended, pc, at>>
      BY <1>1 DEF vars, socketVars, toldVars
    <3>2. QED
      BY <3>1 DEF Aside, PlacesIn
  <2>2. QED
    BY <2>1, AsideStutters
<1>2. CASE Next
  <2>1. Moves
    BY <1>2, EveryStepMoves DEF Inv, TypeOK
  <2>2. ASSUME NEW g \in Sockets, SocketEnds(g) PROVE ProtocolStep(n)
    <3>1. g \in Goroutines
      BY DEF Goroutines
    <3>2. QED
      BY <2>2, <3>1, CallsByProtocol
  <2>3. ASSUME NEW g \in Workers, CloseSocketMoves(g) PROVE ProtocolStep(n)
    <3>1. g \in Goroutines
      BY DEF Goroutines
    <3>2. QED
      BY <2>3, <3>1, CallsByProtocol
  <2>4. ASSUME NEW g \in Goroutines, CloseMoves(g) PROVE ProtocolStep(n)
    BY <2>4, ClosesByProtocol
  <2>5. CASE \/ Stops \/ Listens \/ MainMoves
             \/ \E t \in Streams : StreamMoves(t)
             \/ \E k \in Closers, i \in Ids : ServerSocketClose(k, i)
    BY <2>5, OthersAside, AsideStutters
  <2>6. QED
    BY <2>1, <2>2, <2>3, <2>4, <2>5 DEF Moves
<1>3. QED
  BY <1>1, <1>2

LEMMA StartsByProtocol ==
  ASSUME Init, NEW n \in Sockets
  PROVE  Protocol(n)!Init
  BY GoroutinesDiffer DEF Init, PlacesIn, PlaceIn, Protocol!Init

(* server.go:188-217, dispose.go:32-52: whoever closes a socket of the server,
   CloseSocket, the close of the server or the reader of its last channel, each
   socket goes through the close protocol of its own, table edits and the
   application's callback included. *)
THEOREM ServerSocketsImplementProtocol ==
  ASSUME NEW n \in Sockets
  PROVE  Spec => Protocol(n)!Spec
<1>1. Init => Protocol(n)!Init
  BY StartsByProtocol
<1>2. Inv /\ [Next]_vars => [Protocol(n)!Next]_(Protocol(n)!vars)
  BY StepsByProtocol DEF ProtocolStep, protocolVars, Protocol!vars
<1> QED
  BY <1>1, <1>2, ServerInvariance, PTL DEF Spec, Protocol!Spec

(* A socket that is closed, its closeLock free, has been reported. *)
ClosedTold ==
  \A n \in Sockets : phase[n] = "closed" /\ closeLock[n] = NoOne => ended[n] = 1

LEMMA ClosedToldKept == Inv /\ ClosedTold /\ [Next]_vars => ClosedTold'
<1> SUFFICES ASSUME Inv, ClosedTold, Next, NEW n \in Sockets,
                    phase'[n] = "closed", closeLock'[n] = NoOne
             PROVE  ended'[n] = 1
  BY DEF ClosedTold, vars, socketVars, toldVars, Sockets
<1>1. Moves /\ EndedOnce /\ EndedOnce'
  BY InvKept, EveryStepMoves DEF Inv, TypeOK
<1>2. /\ ended \in [Sockets -> Nat] /\ closeLock \in [Sockets -> Goroutines \cup {NoOne}]
      /\ phase \in [Sockets -> {"none", "open", "swept", "closed"}]
      /\ NoOne \notin Goroutines
  BY GoroutinesDiffer DEF Inv, TypeOK
<1>3. ended'[n] # 0 => ended'[n] = 1
  BY <1>1 DEF EndedOnce, Sockets
<1>4. ASSUME NEW g \in Goroutines, Tell(g), at[g] = n PROVE ended'[n] = 1
  BY <1>2, <1>3, <1>4 DEF Tell
<1>5. ASSUME phase[n] = "closed", closeLock[n] = NoOne PROVE ended'[n] = 1
  <2>1. ended[n] = 1
    BY <1>5 DEF ClosedTold
  <2>2. ASSUME NEW g \in Goroutines, Tell(g), at[g] # n PROVE ended'[n] = ended[n]
    BY <1>2, <2>2 DEF Tell
  <2>3. ASSUME NEW t \in Streams, OnAcceptSocket(t) \/ \E c \in Indexes : Attached(t, c)
        PROVE  ended' = ended
    BY <2>3 DEF OnAcceptSocket, Attached
  <2>4. QED
    BY <1>1, <1>4, <2>1, <2>2, <2>3, ToldSteps
<1>6. ASSUME NEW t \in Streams, NEW m \in Sockets, Created(t, m) PROVE ended'[n] = 1
  BY <1>2, <1>5, <1>6 DEF Created
<1>7. ASSUME NEW g \in Goroutines, CloseEnter(g) \/ LookEntry(g) \/ (Tell(g) /\ at[g] # n)
      PROVE  ended'[n] = 1
  <2>1. at[g] \in Sockets
    BY <1>7 DEF Inv, PlacesOK, CloseEnter, LookEntry, Tell, Goes, Uses, Closing
  <2>2. CASE at[g] = n
    <3>1. LookEntry(g) => closeLock[n] = g
      BY <2>2 DEF Inv, CloseLockHeld, LookEntry, Goes, Closing
    <3>2. QED
      BY <1>2, <1>7, <2>2, <3>1 DEF CloseEnter, LookEntry
  <2>3. CASE at[g] # n
    BY <1>2, <1>5, <1>7, <2>1, <2>3 DEF CloseEnter, LookEntry, Tell
  <2>4. QED
    BY <2>2, <2>3
<1>8. QED
  BY <1>1, <1>4, <1>5, <1>6, <1>7, PhaseSteps

(* Who comes out of Close of a socket finds it closed, and the application
   told of it. *)
ReturnsTold ==
  \A g \in Goroutines, n \in Sockets :
    at[g] = n /\ pc[g] \in Uses /\ pc'[g] \notin Uses => phase'[n] = "closed" /\ ended'[n] = 1

(* dispose.go:32-52, server.go:206-215: a CloseSocket that finds the reader of
   the last channel in Close already returns only after its OnDisconnect: the
   application never hears of the end of a socket it has closed. *)
THEOREM ServerCloseReturnsTold == Spec => [][ReturnsTold]_vars
<1>1. ASSUME Inv, ClosedTold, ClosedTold', Next PROVE ReturnsTold
  <2> SUFFICES ASSUME NEW g \in Goroutines, NEW n \in Sockets,
                      at[g] = n, pc[g] \in Uses, pc'[g] \notin Uses
               PROVE  phase'[n] = "closed" /\ ended'[n] = 1
    BY DEF ReturnsTold
  <2>1. Moves /\ TypeOK
    BY <1>1, EveryStepMoves DEF Inv, TypeOK
  <2>2. /\ closeLock \in [Sockets -> Goroutines \cup {NoOne}]
        /\ phase \in [Sockets -> {"none", "open", "swept", "closed"}]
    BY <2>1 DEF TypeOK
  <2>3. Own(g)
    BY <2>1, OwnSteps DEF Stays
  <2>4. CloseAgain(g) \/ Tell(g)
    <3> USE DEF Goes, Uses, Closing
    <3>1. pc \in [Goroutines -> Places]
      BY <2>1 DEF TypeOK
    <3>2. ~StreamMoves(g)
      BY <3>1 DEF StreamMoves, FindSocket, Created, OnAcceptSocket, EncoderUsed, LookedUp, Attached,
         AcceptStream
    <3>3. ~CloseEnter(g) /\ ~LookEntry(g) /\ ~EntryCleared(g) /\ ~DeleteEntry(g)
      BY <3>1 DEF CloseEnter, LookEntry, EntryCleared, DeleteEntry
    <3>4. ~CloseSocketMoves(g)
      BY <3>1 DEF CloseSocketMoves, NoSocket, SocketSeen, SocketLoaded, SocketRemoved,
         CloseSocketDone
    <3>5. ~(g = Main /\ MainMoves)
      BY <3>1 DEF MainMoves, ServerClose, RangeDone, ServerClosed, RangeNext
    <3>6. ~SocketEnds(g) /\ \A i \in Ids : ~ServerSocketClose(g, i)
      BY <3>1 DEF ServerSocketClose, SocketEnds
    <3>7. QED
      BY <2>3, <3>2, <3>3, <3>4, <3>5, <3>6 DEF Own, CloseMoves
  <2>5. phase'[n] = "closed" /\ closeLock'[n] = NoOne
    <3>1. CASE CloseAgain(g)
      BY <3>1 DEF CloseAgain, socketVars
    <3>2. CASE Tell(g)
      <4>1. phase[n] = "closed"
        BY <1>1, <3>2 DEF Tell, Goes, Inv, CloseLockHeld, Closing
      <4>2. QED
        BY <2>2, <3>2, <4>1 DEF Tell
    <3>3. QED
      BY <2>4, <3>1, <3>2
  <2>6. QED
    BY <1>1, <2>5 DEF ClosedTold, Sockets
<1>2. Init => ClosedTold
  BY DEF Init, ClosedTold
<1>3. Inv /\ ClosedTold /\ ClosedTold' /\ [Next]_vars => [ReturnsTold]_vars
  BY <1>1
<1>4. QED
  BY <1>2, <1>3, ClosedToldKept, ServerInvariance, PTL DEF Spec

-------------------------------------------------------------------------------
(* A call goes on, and comes to its end.                                   *)

(* How many steps at most are left of a call that is at place p. *)
Left(p) ==
  CASE p = "idle" -> 11
    [] p = "lock" -> 10
    [] p \in {"announce", "load"} -> 9
    [] p \in {"encoder", "close"} -> 8
    [] p \in {"lookup", "agree"} -> 7
    [] p \in {"attach", "clear"} -> 6
    [] p = "delete" -> 5
    [] p = "tell" -> 4
    [] p = "remove" -> 3
    [] p = "range" -> 2
    [] p = "closing" -> 1
    [] OTHER -> 0

(* server.go:77-79: only the loop of OnClosing goes back, to a key it has not
   visited yet. *)
NextKey(g) ==
  /\ g = Main /\ pc[g] = "range" /\ pc'[g] = "lock"
  /\ \E i \in Ids \ visited : visited' = visited \cup {i}

Onward(g) == Left(pc'[g]) < Left(pc[g]) \/ NextKey(g)

(* server.go:65-81, 169-226: whatever the others do to the table and to
   the sockets meanwhile, a step of a goroutine in processStream, CloseSocket or
   Close brings it nearer to its end, unless the process dies of it, and nobody
   else moves it. *)
CallsGoOn ==
  \A g \in Goroutines :
    /\ LockStep(g) \/ RunStep(g) => Onward(g) \/ (pc' = pc /\ panic' # "none")
    /\ pc'[g] # pc[g] => Onward(g) \/ pc[g] = "idle"

(* The numbers of the places. *)
LEMMA LeftOf ==
  /\ Left("lock") = 10 /\ Left("announce") = 9 /\ Left("load") = 9
  /\ Left("encoder") = 8 /\ Left("close") = 8 /\ Left("lookup") = 7 /\ Left("agree") = 7
  /\ Left("attach") = 6 /\ Left("clear") = 6 /\ Left("delete") = 5 /\ Left("tell") = 4
  /\ Left("remove") = 3 /\ Left("range") = 2 /\ Left("closing") = 1 /\ Left("gone") = 0
BY DEF Left

(* A goroutine at one place goes to another with a smaller number. *)
LEMMA GoesOnward ==
  ASSUME pc \in [Goroutines -> Places], NEW g \in Goroutines, NEW a, NEW b,
         Goes(g, a, b), Left(b) < Left(a)
  PROVE  Onward(g)
BY DEF Goes, Onward

(* The mutex and the closeLock are taken at the beginning. *)
LEMMA LockStepOnward ==
  ASSUME pc \in [Goroutines -> Places], NEW g \in Goroutines, LockStep(g)
  PROVE  Onward(g) \/ (pc' = pc /\ panic' # "none")
PROOF
<1>1. CASE FindSocket(g)
  BY <1>1, GoesOnward, LeftOf DEF FindSocket
<1>2. CASE CreateSocket(g)
  <2>1. Goes(g, "lock", "announce") \/ Dies(g, "lock", "nil map")
    BY <1>2 DEF CreateSocket
  <2>2. CASE Goes(g, "lock", "announce")
    BY <2>2, GoesOnward, LeftOf
  <2>3. CASE Dies(g, "lock", "nil map")
    BY <2>3 DEF Dies
  <2> QED
    BY <2>1, <2>2, <2>3
<1>3. CASE LookSocket(g)
  <2>1. Goes(g, "lock", "range") \/ Goes(g, "lock", "gone") \/ Goes(g, "lock", "load")
    BY <1>3 DEF LookSocket, CloseSocketDone
  <2> QED
    BY <2>1, GoesOnward, LeftOf
<1>4. CASE CloseAgain(g)
  <2>1. Goes(g, "close", "gone") \/ Goes(g, "close", "remove")
    BY <1>4 DEF CloseAgain, Returns
  <2> QED
    BY <2>1, GoesOnward, LeftOf
<1>5. CASE CloseEnter(g)
  BY <1>5, GoesOnward, LeftOf DEF CloseEnter
<1> QED
  BY <1>1, <1>2, <1>3, <1>4, <1>5 DEF LockStep

(* The steps that wait for nobody. *)
LEMMA RunStepOnward ==
  ASSUME pc \in [Goroutines -> Places], NEW g \in Goroutines, RunStep(g)
  PROVE  Onward(g) \/ (pc' = pc /\ panic' # "none")
PROOF
<1>1. CASE ProcessStream(g)
  <2>1. \/ Goes(g, "announce", "encoder") \/ Goes(g, "encoder", "lookup")
        \/ Goes(g, "lookup", "attach") \/ Goes(g, "attach", "gone")
        \/ (pc' = pc /\ panic' # "none")
    BY <1>1 DEF ProcessStream, OnAcceptSocket, UseEncoder, Lookup, AttachStream, Dies
  <2> QED
    BY <2>1, GoesOnward, LeftOf
<1>2. CASE OnDisconnect(g)
  <2>1. \/ Goes(g, "agree", "tell") \/ Goes(g, "agree", "clear") \/ Goes(g, "clear", "delete")
        \/ Goes(g, "delete", "tell") \/ Goes(g, "tell", "gone") \/ Goes(g, "tell", "remove")
        \/ (pc' = pc /\ panic' # "none")
    BY <1>2 DEF OnDisconnect, LookEntry, ClearEntry, DeleteEntry, Tell, Returns, Dies
  <2> QED
    BY <2>1, GoesOnward, LeftOf
<1>3. CASE CloseSocket(g)
  <2>1. \/ Goes(g, "load", "close") \/ Goes(g, "remove", "range") \/ Goes(g, "remove", "gone")
        \/ (pc' = pc /\ panic' # "none")
    BY <1>3 DEF CloseSocket, LoadSocket, RemoveSocket, CloseSocketDone, Dies
  <2> QED
    BY <2>1, GoesOnward, LeftOf
<1>4. CASE g = Main /\ (RangeDone \/ ServerClosed)
  <2>1. Goes(g, "range", "closing") \/ Goes(g, "closing", "gone")
    BY <1>4 DEF RangeDone, ServerClosed
  <2> QED
    BY <2>1, GoesOnward, LeftOf
<1>5. ASSUME g = Main, NEW i \in Ids, RangeNext(i)
      PROVE  Onward(g)
  BY <1>5 DEF RangeNext, Goes, Onward, NextKey
<1> QED
  BY <1>1, <1>2, <1>3, <1>4, <1>5 DEF RunStep

(* Whoever moves takes a step of its own, or begins. *)
LEMMA MoversStep ==
  ASSUME pc \in [Goroutines -> Places], [Next]_vars
  PROVE  \A g \in Goroutines :
           pc'[g] # pc[g] => LockStep(g) \/ RunStep(g) \/ pc[g] = "idle"
PROOF
<1> SUFFICES ASSUME NEW g \in Goroutines, pc'[g] # pc[g]
             PROVE  LockStep(g) \/ RunStep(g) \/ pc[g] = "idle"
  OBVIOUS
<1>1. ASSUME NEW h \in Goroutines, LockStep(h) \/ RunStep(h)
      PROVE  pc' = pc \/ \E b : pc' = [pc EXCEPT ![h] = b]
  BY <1>1 DEF LockStep, RunStep, FindSocket, CreateSocket, LookSocket, CloseSocketDone,
     CloseAgain, CloseEnter, ProcessStream, OnAcceptSocket, UseEncoder, Lookup, AttachStream,
     OnDisconnect, LookEntry, ClearEntry, DeleteEntry, Tell, CloseSocket, LoadSocket,
     RemoveSocket, RangeDone, ServerClosed, RangeNext, Goes, Dies
<1>2. ASSUME NEW h \in Goroutines, LockStep(h) \/ RunStep(h)
      PROVE  LockStep(g) \/ RunStep(g)
  <2>1. g = h
    BY <1>1, <1>2
  <2> QED
    BY <1>2, <2>1
<1>3. ASSUME NEW h \in Goroutines, NEW b, Goes(h, "idle", b)
      PROVE  pc[g] = "idle"
  BY <1>3 DEF Goes
<1>4. CASE Listen
  BY <1>4 DEF Listen, ListenLoad, Accept, AcceptFails, Elsewhere
<1>5. CASE ServerClose
  BY <1>3, <1>5 DEF ServerClose, Goroutines, Workers
<1>6. ASSUME NEW t \in Streams, NEW i \in Ids, AcceptStream(t, i)
      PROVE  pc[g] = "idle"
  BY <1>3, <1>6 DEF AcceptStream, Goroutines, Workers
<1>7. ASSUME NEW k \in Closers, NEW i \in Ids, ServerSocketClose(k, i)
      PROVE  pc[g] = "idle"
  BY <1>3, <1>7 DEF ServerSocketClose, Goroutines, Workers
<1>8. ASSUME NEW n \in Sockets, SocketEnds(n)
      PROVE  pc[g] = "idle"
  BY <1>3, <1>8 DEF SocketEnds, Goroutines
<1>9. CASE UNCHANGED vars
  BY <1>9 DEF vars
<1> QED
  BY <1>2, <1>4, <1>5, <1>6, <1>7, <1>8, <1>9 DEF Next

(* A goroutine in processStream, CloseSocket or the Close of a socket takes ten
   steps of its own at most, and the Close of the server as many for each
   client: with ServerWaitersWaitForRunner, no call is lost in the two locks, and
   none goes round in circles. *)
THEOREM ServerCallsGoOn == Spec => [][CallsGoOn]_vars
PROOF
<1>1. TypeOK /\ [Next]_vars => CallsGoOn
  <2> SUFFICES ASSUME TypeOK, [Next]_vars, NEW g \in Goroutines
               PROVE  /\ LockStep(g) \/ RunStep(g) => Onward(g) \/ (pc' = pc /\ panic' # "none")
                      /\ pc'[g] # pc[g] => Onward(g) \/ pc[g] = "idle"
    BY DEF CallsGoOn
  <2>1. pc \in [Goroutines -> Places]
    BY DEF TypeOK
  <2>2. LockStep(g) \/ RunStep(g) => Onward(g) \/ (pc' = pc /\ panic' # "none")
    BY <2>1, LockStepOnward, RunStepOnward
  <2>3. pc'[g] # pc[g] => LockStep(g) \/ RunStep(g) \/ pc[g] = "idle"
    BY <2>1, MoversStep
  <2>4. pc'[g] # pc[g] => pc' # pc
    OBVIOUS
  <2> QED
    BY <2>2, <2>3, <2>4
<1> QED
  BY <1>1, ServerTypes, PTL DEF Spec

===============================================================================
