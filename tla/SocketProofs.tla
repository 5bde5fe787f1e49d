----------------------------- MODULE SocketProofs -----------------------------
(***************************************************************************)
(* Proofs about the shutdown of a socket and about the messages of its     *)
(* channels, for any number of channels and goroutines.                    *)
(*                                                                         *)
(* The properties of Socket are not inductive: that a channel out of the   *)
(* table is closed, say, depends on who holds channelEditLock and how far  *)
(* it has come.  ShutdownInv adds what each place in the code implies of   *)
(* the two locks and of the channel being closed.  At the end the calls    *)
(* are shown to count down to their return, and what CloseableObjectProofs *)
(* proves of the protocol to hold of the socket.                           *)
(***************************************************************************)
EXTENDS Socket, TLAPS, SequenceTheorems, FiniteSetTheorems

EditPlaces  == {"dropping", "clearing", "sweep", "closing", "clear"}
CloseHeld   == ClosePlaces \ {"close"}

ShutdownTypes ==
  /\ slot \in [Channels -> BOOLEAN] /\ sockClosed \in BOOLEAN
  /\ closing \in [Channels -> BOOLEAN] /\ isClosed \in [Channels -> BOOLEAN]
  /\ quic \in [Channels -> {"open", "fin", "dead"}]
  /\ closeLock \in Goroutines \cup {NoOne} /\ editLock \in Goroutines \cup {NoOne}
  /\ spc \in [Goroutines -> {"idle"} \cup DropPlaces \cup ClosePlaces]
  /\ target \in [Goroutines -> Channels]
  /\ notified \in Nat

(* Each lock is held exactly at the places between Lock and Unlock. *)
LocksMatchPlaces ==
  /\ \A g \in Goroutines : spc[g] \in EditPlaces <=> editLock = g
  /\ \A g \in Goroutines : spc[g] \in CloseHeld <=> closeLock = g

(* The channel that the holder of channelEditLock is closing. *)
TargetMatchesPlace ==
  \A g \in Goroutines :
    /\ spc[g] \in {"dropping", "closing"} =>
         slot[target[g]] /\ closing[target[g]] /\ ~isClosed[target[g]]
    /\ spc[g] \in {"clearing", "clear"} => isClosed[target[g]]

(* Before IsClosed is set nobody was notified; once OnClosing has ended the
   table is empty and every stream dead. *)
ClosedMatchesPlaces ==
  /\ \A g \in Goroutines : /\ spc[g] \in {"edit", "sweep", "closing", "clear", "agree"} => ~sockClosed
                           /\ spc[g] = "notify" => sockClosed /\ notified = 0
                           /\ spc[g] = "agree" => \A c \in Channels : ~slot[c] /\ quic[c] = "dead"
  /\ ~sockClosed => notified = 0
  /\ sockClosed => \A c \in Channels : ~slot[c] /\ quic[c] = "dead"
  /\ notified <= 1

ShutdownInv ==
  /\ ShutdownTypes
  /\ LocksMatchPlaces
  /\ TargetMatchesPlace
  /\ ClosedMatchesPlaces
  /\ TableMatchesChannels
  /\ OneCloserPerChannel

shutdownVars == <<socketVars, closing, isClosed>>

(* A step of a reader, a user or the peer that takes no part in a shutdown. *)
Inert == UNCHANGED shutdownVars /\ \A c \in Channels : quic[c] = "dead" => quic'[c] = "dead"

LEMMA PlacesDiffer ==
  /\ EditPlaces \subseteq DropPlaces \cup ClosePlaces
  /\ "idle" \notin DropPlaces \cup ClosePlaces
  BY DEF EditPlaces, DropPlaces, ClosePlaces

LEMMA InertKeeps == ShutdownInv /\ Inert /\ quic' \in [Channels -> {"open", "fin", "dead"}] => ShutdownInv'
<1> SUFFICES ASSUME ShutdownInv, Inert, quic' \in [Channels -> {"open", "fin", "dead"}]
             PROVE ShutdownInv'
  OBVIOUS
<1> USE DEF ShutdownInv, Inert, shutdownVars, socketVars
<1>1. ShutdownTypes'
  BY DEF ShutdownTypes
<1>2. LocksMatchPlaces' /\ TargetMatchesPlace'
  BY DEF LocksMatchPlaces, TargetMatchesPlace
<1>3. ClosedMatchesPlaces'
  BY DEF ClosedMatchesPlaces
<1>4. TableMatchesChannels' /\ OneCloserPerChannel'
  BY DEF TableMatchesChannels, OneCloserPerChannel
<1>5. QED
  BY <1>1, <1>2, <1>3, <1>4

LEMMA InitShutdown == Init => ShutdownInv
<1> SUFFICES ASSUME Init PROVE ShutdownInv
  OBVIOUS
<1> USE SocketHasAChannel, GoroutinesDiffer DEF Init, ChannelInit
<1>1. ShutdownTypes
  BY DEF ShutdownTypes
<1>2. LocksMatchPlaces
  BY DEF LocksMatchPlaces, EditPlaces, CloseHeld, ClosePlaces
<1>3. TargetMatchesPlace
  BY DEF TargetMatchesPlace
<1>4. ClosedMatchesPlaces
  BY DEF ClosedMatchesPlaces
<1>5. TableMatchesChannels /\ OneCloserPerChannel
  BY DEF TableMatchesChannels, OneCloserPerChannel
<1>6. QED
  BY <1>1, <1>2, <1>3, <1>4, <1>5 DEF ShutdownInv

(* The steps that take no part in a shutdown. *)
LEMMA UserStepsInert ==
  ASSUME ShutdownInv, NEW c \in Channels,
         \/ UserStep(c)
         \/ HandleChannelStream(c)
         \/ (ReaderStep(c) \/ PeerStep(c) \/ Handoff(c)) /\ UNCHANGED socketVars
  PROVE  Inert /\ quic' \in [Channels -> {"open", "fin", "dead"}]
<1> USE DEF ShutdownInv, ShutdownTypes, Inert, shutdownVars, socketVars, closeVars, peerVars
<1>1. CASE ReceiveCheck(c) \/ ReceiveSlot(c) \/ ReceiveEnds(c)
  BY <1>1 DEF ReceiveCheck, ReceiveSlot, ReceiveEnds, ReceiveRecheck, ReceiveIndex, ReceiveGoesOn, UseNothing,
              UseBuffer, PartTaken, Taken
<1>2. CASE SendSlotCheck(c) \/ SendSlot(c)
  BY <1>2 DEF SendSlotCheck, SendSlot
<1>3. CASE ConsumerStep(c) /\ UNCHANGED socketVars
  BY <1>3 DEF ConsumerStep, Receive, ReceiveClosed, StoreBuffer, TakePart, Take,
              PartTaken, Taken
<1>4. CASE SenderStep(c) /\ UNCHANGED socketVars
  BY <1>4 DEF SenderStep, SendCheck, SendWrite
<1>5. CASE HandleChannelStream(c)
  BY <1>5 DEF HandleChannelStream
<1>6. CASE ReaderStep(c) /\ UNCHANGED socketVars
  BY <1>6 DEF ReaderStep, Attach, UseContext, CheckOpen, LoadStream, ReadMessage, ReadEnds,
              CheckStillOpen, ReaderExit
<1>7. CASE PeerStep(c) /\ UNCHANGED socketVars
  BY <1>7 DEF PeerStep, PeerSend, PeerFin, StreamLost
<1>8. CASE Handoff(c) /\ UNCHANGED socketVars
  BY <1>8 DEF Handoff
<1>9. QED
  BY <1>1, <1>2, <1>3, <1>4, <1>5, <1>6, <1>7, <1>8 DEF UserStep

LEMMA ReaderDisconnectKeeps ==
  ASSUME ShutdownInv, NEW c \in Channels, ReaderDisconnect(c)
  PROVE  ShutdownInv'
<1> USE GoroutinesDiffer DEF ShutdownInv, ReaderDisconnect, ReaderGoes, Goes, channelVars, socketVars, closeVars, peerVars,
        DropPlaces, ClosePlaces, EditPlaces, CloseHeld
<1> USE DEF ShutdownTypes
<1>1. ShutdownTypes'
  BY DEF Goroutines
<1>2. LocksMatchPlaces'
  BY DEF LocksMatchPlaces, Goroutines
<1>3. TargetMatchesPlace'
  BY DEF TargetMatchesPlace, LocksMatchPlaces, OneCloserPerChannel, TableMatchesChannels, Goroutines
<1>4. ClosedMatchesPlaces'
  BY DEF ClosedMatchesPlaces, LocksMatchPlaces
<1>5. TableMatchesChannels'
  BY DEF TableMatchesChannels, LocksMatchPlaces, TargetMatchesPlace
<1>6. OneCloserPerChannel'
  BY DEF OneCloserPerChannel, LocksMatchPlaces, TargetMatchesPlace
<1>7. QED
  BY <1>1, <1>2, <1>3, <1>4, <1>5, <1>6

LEMMA CloseChannelKeeps ==
  ASSUME ShutdownInv, NEW g \in Goroutines, NEW c \in Channels, CloseChannel(g, c)
  PROVE  ShutdownInv'
<1> USE GoroutinesDiffer DEF ShutdownInv, CloseChannel, Goes, channelVars, socketVars, closeVars, peerVars,
        DropPlaces, ClosePlaces, EditPlaces, CloseHeld
<1> USE DEF ShutdownTypes
<1>1. ShutdownTypes'
  BY DEF Goroutines
<1>2. LocksMatchPlaces'
  BY DEF LocksMatchPlaces
<1>3. TargetMatchesPlace'
  BY DEF TargetMatchesPlace, LocksMatchPlaces, OneCloserPerChannel, TableMatchesChannels
<1>4. ClosedMatchesPlaces'
  BY DEF ClosedMatchesPlaces, LocksMatchPlaces
<1>5. TableMatchesChannels'
  BY DEF TableMatchesChannels, LocksMatchPlaces, TargetMatchesPlace
<1>6. OneCloserPerChannel'
  BY DEF OneCloserPerChannel, LocksMatchPlaces, TargetMatchesPlace
<1>7. QED
  BY <1>1, <1>2, <1>3, <1>4, <1>5, <1>6

LEMMA DropBeginKeeps ==
  ASSUME ShutdownInv, NEW g \in Goroutines, DropBegin(g)
  PROVE  ShutdownInv'
<1> USE GoroutinesDiffer DEF ShutdownInv, DropBegin, CloseBegin, Goes, channelVars, socketVars, closeVars, peerVars,
        DropPlaces, ClosePlaces, EditPlaces, CloseHeld
<1> USE DEF ShutdownTypes
<1>1. ShutdownTypes'
  BY DEF Goroutines
<1>2. LocksMatchPlaces'
  BY DEF LocksMatchPlaces
<1>3. TargetMatchesPlace'
  BY DEF TargetMatchesPlace, LocksMatchPlaces, OneCloserPerChannel, TableMatchesChannels
<1>4. ClosedMatchesPlaces'
  BY DEF ClosedMatchesPlaces, LocksMatchPlaces
<1>5. TableMatchesChannels'
  BY DEF TableMatchesChannels, LocksMatchPlaces, TargetMatchesPlace
<1>6. OneCloserPerChannel'
  BY DEF OneCloserPerChannel, LocksMatchPlaces, TargetMatchesPlace
<1>7. QED
  BY <1>1, <1>2, <1>3, <1>4, <1>5, <1>6

LEMMA DropNothingKeeps ==
  ASSUME ShutdownInv, NEW g \in Goroutines, DropNothing(g)
  PROVE  ShutdownInv'
<1> USE GoroutinesDiffer DEF ShutdownInv, DropNothing, Goes, channelVars, socketVars, closeVars, peerVars,
        DropPlaces, ClosePlaces, EditPlaces, CloseHeld
<1> USE DEF ShutdownTypes
<1>1. ShutdownTypes'
  BY DEF Goroutines
<1>2. LocksMatchPlaces'
  BY DEF LocksMatchPlaces
<1>3. TargetMatchesPlace'
  BY DEF TargetMatchesPlace, LocksMatchPlaces, OneCloserPerChannel, TableMatchesChannels
<1>4. ClosedMatchesPlaces'
  BY DEF ClosedMatchesPlaces, LocksMatchPlaces
<1>5. TableMatchesChannels'
  BY DEF TableMatchesChannels, LocksMatchPlaces, TargetMatchesPlace
<1>6. OneCloserPerChannel'
  BY DEF OneCloserPerChannel, LocksMatchPlaces, TargetMatchesPlace
<1>7. QED
  BY <1>1, <1>2, <1>3, <1>4, <1>5, <1>6

LEMMA DropEndKeeps ==
  ASSUME ShutdownInv, NEW g \in Goroutines, DropEnd(g)
  PROVE  ShutdownInv'
<1> USE GoroutinesDiffer DEF ShutdownInv, DropEnd, CloseEnd, Goes, channelVars, socketVars, closeVars, peerVars,
        DropPlaces, ClosePlaces, EditPlaces, CloseHeld
<1> USE DEF ShutdownTypes
<1>1. ShutdownTypes'
  BY DEF Goroutines
<1>2. LocksMatchPlaces'
  BY DEF LocksMatchPlaces
<1>3. TargetMatchesPlace'
  BY DEF TargetMatchesPlace, LocksMatchPlaces, OneCloserPerChannel, TableMatchesChannels
<1>4. ClosedMatchesPlaces'
  BY DEF ClosedMatchesPlaces, LocksMatchPlaces
<1>5. TableMatchesChannels'
  BY DEF TableMatchesChannels, LocksMatchPlaces, TargetMatchesPlace
<1>6. OneCloserPerChannel'
  BY DEF OneCloserPerChannel, LocksMatchPlaces, TargetMatchesPlace
<1>7. QED
  BY <1>1, <1>2, <1>3, <1>4, <1>5, <1>6

LEMMA DropClearKeeps ==
  ASSUME ShutdownInv, NEW g \in Goroutines, DropClear(g)
  PROVE  ShutdownInv'
<1> USE GoroutinesDiffer DEF ShutdownInv, DropClear, Goes, channelVars, socketVars, closeVars, peerVars,
        DropPlaces, ClosePlaces, EditPlaces, CloseHeld
<1> USE DEF ShutdownTypes
<1>1. ShutdownTypes'
  BY DEF Goroutines
<1>2. LocksMatchPlaces'
  BY DEF LocksMatchPlaces
<1>3. TargetMatchesPlace'
  BY DEF TargetMatchesPlace, LocksMatchPlaces, OneCloserPerChannel, TableMatchesChannels
<1>4. ClosedMatchesPlaces'
  BY DEF ClosedMatchesPlaces, LocksMatchPlaces
<1>5. TableMatchesChannels'
  BY DEF TableMatchesChannels, LocksMatchPlaces, TargetMatchesPlace
<1>6. OneCloserPerChannel'
  BY DEF OneCloserPerChannel, LocksMatchPlaces, TargetMatchesPlace
<1>7. QED
  BY <1>1, <1>2, <1>3, <1>4, <1>5, <1>6

LEMMA ScanKeeps ==
  ASSUME ShutdownInv, NEW g \in Goroutines, Scan(g)
  PROVE  ShutdownInv'
<1> USE GoroutinesDiffer DEF ShutdownInv, Scan, Goes, channelVars, socketVars, closeVars, peerVars,
        DropPlaces, ClosePlaces, EditPlaces, CloseHeld
<1> USE DEF ShutdownTypes
<1>1. ShutdownTypes'
  BY DEF Goroutines
<1>2. LocksMatchPlaces'
  BY DEF LocksMatchPlaces
<1>3. TargetMatchesPlace'
  BY DEF TargetMatchesPlace, LocksMatchPlaces, OneCloserPerChannel, TableMatchesChannels
<1>4. ClosedMatchesPlaces'
  BY DEF ClosedMatchesPlaces, LocksMatchPlaces
<1>5. TableMatchesChannels'
  BY DEF TableMatchesChannels, LocksMatchPlaces, TargetMatchesPlace
<1>6. OneCloserPerChannel'
  BY DEF OneCloserPerChannel, LocksMatchPlaces, TargetMatchesPlace
<1>7. QED
  BY <1>1, <1>2, <1>3, <1>4, <1>5, <1>6

LEMMA CloseKeeps ==
  ASSUME ShutdownInv, NEW g \in Goroutines, Close(g)
  PROVE  ShutdownInv'
<1> USE GoroutinesDiffer DEF ShutdownInv, Close, Goes, channelVars, socketVars, closeVars, peerVars,
        DropPlaces, ClosePlaces, EditPlaces, CloseHeld
<1> USE DEF ShutdownTypes
<1>1. ShutdownTypes'
  BY DEF Goroutines
<1>2. LocksMatchPlaces'
  BY DEF LocksMatchPlaces
<1>3. TargetMatchesPlace'
  BY DEF TargetMatchesPlace, LocksMatchPlaces, OneCloserPerChannel, TableMatchesChannels
<1>4. ClosedMatchesPlaces'
  BY DEF ClosedMatchesPlaces, LocksMatchPlaces
<1>5. TableMatchesChannels'
  BY DEF TableMatchesChannels, LocksMatchPlaces, TargetMatchesPlace
<1>6. OneCloserPerChannel'
  BY DEF OneCloserPerChannel, LocksMatchPlaces, TargetMatchesPlace
<1>7. QED
  BY <1>1, <1>2, <1>3, <1>4, <1>5, <1>6

LEMMA CloseAgainKeeps ==
  ASSUME ShutdownInv, NEW g \in Goroutines, CloseAgain(g)
  PROVE  ShutdownInv'
<1> USE GoroutinesDiffer DEF ShutdownInv, CloseAgain, Goes, channelVars, socketVars, closeVars, peerVars,
        DropPlaces, ClosePlaces, EditPlaces, CloseHeld
<1> USE DEF ShutdownTypes
<1>1. ShutdownTypes'
  BY DEF Goroutines
<1>2. LocksMatchPlaces'
  BY DEF LocksMatchPlaces
<1>3. TargetMatchesPlace'
  BY DEF TargetMatchesPlace, LocksMatchPlaces, OneCloserPerChannel, TableMatchesChannels
<1>4. ClosedMatchesPlaces'
  BY DEF ClosedMatchesPlaces, LocksMatchPlaces
<1>5. TableMatchesChannels'
  BY DEF TableMatchesChannels, LocksMatchPlaces, TargetMatchesPlace
<1>6. OneCloserPerChannel'
  BY DEF OneCloserPerChannel, LocksMatchPlaces, TargetMatchesPlace
<1>7. QED
  BY <1>1, <1>2, <1>3, <1>4, <1>5, <1>6

LEMMA CloseEnterKeeps ==
  ASSUME ShutdownInv, NEW g \in Goroutines, CloseEnter(g)
  PROVE  ShutdownInv'
<1> USE GoroutinesDiffer DEF ShutdownInv, CloseEnter, Goes, channelVars, socketVars, closeVars, peerVars,
        DropPlaces, ClosePlaces, EditPlaces, CloseHeld
<1> USE DEF ShutdownTypes
<1>1. ShutdownTypes'
  BY DEF Goroutines
<1>2. LocksMatchPlaces'
  BY DEF LocksMatchPlaces
<1>3. TargetMatchesPlace'
  BY DEF TargetMatchesPlace, LocksMatchPlaces, OneCloserPerChannel, TableMatchesChannels
<1>4. ClosedMatchesPlaces'
  BY DEF ClosedMatchesPlaces, LocksMatchPlaces
<1>5. TableMatchesChannels'
  BY DEF TableMatchesChannels, LocksMatchPlaces, TargetMatchesPlace
<1>6. OneCloserPerChannel'
  BY DEF OneCloserPerChannel, LocksMatchPlaces, TargetMatchesPlace
<1>7. QED
  BY <1>1, <1>2, <1>3, <1>4, <1>5, <1>6

LEMMA OnClosingLockKeeps ==
  ASSUME ShutdownInv, NEW g \in Goroutines, OnClosingLock(g)
  PROVE  ShutdownInv'
<1> USE GoroutinesDiffer DEF ShutdownInv, OnClosingLock, Goes, channelVars, socketVars, closeVars, peerVars,
        DropPlaces, ClosePlaces, EditPlaces, CloseHeld
<1> USE DEF ShutdownTypes
<1>1. ShutdownTypes'
  BY DEF Goroutines
<1>2. LocksMatchPlaces'
  BY DEF LocksMatchPlaces
<1>3. TargetMatchesPlace'
  BY DEF TargetMatchesPlace, LocksMatchPlaces, OneCloserPerChannel, TableMatchesChannels
<1>4. ClosedMatchesPlaces'
  BY DEF ClosedMatchesPlaces, LocksMatchPlaces
<1>5. TableMatchesChannels'
  BY DEF TableMatchesChannels, LocksMatchPlaces, TargetMatchesPlace
<1>6. OneCloserPerChannel'
  BY DEF OneCloserPerChannel, LocksMatchPlaces, TargetMatchesPlace
<1>7. QED
  BY <1>1, <1>2, <1>3, <1>4, <1>5, <1>6

LEMMA SweepBeginKeeps ==
  ASSUME ShutdownInv, NEW g \in Goroutines, SweepBegin(g)
  PROVE  ShutdownInv'
<1> USE GoroutinesDiffer DEF ShutdownInv, SweepBegin, CloseBegin, Goes, channelVars, socketVars, closeVars, peerVars,
        DropPlaces, ClosePlaces, EditPlaces, CloseHeld
<1> USE DEF ShutdownTypes
<1>1. ShutdownTypes'
  BY DEF Goroutines
<1>2. LocksMatchPlaces'
  BY DEF LocksMatchPlaces
<1>3. TargetMatchesPlace'
  BY DEF TargetMatchesPlace, LocksMatchPlaces, OneCloserPerChannel, TableMatchesChannels
<1>4. ClosedMatchesPlaces'
  BY DEF ClosedMatchesPlaces, LocksMatchPlaces
<1>5. TableMatchesChannels'
  BY DEF TableMatchesChannels, LocksMatchPlaces, TargetMatchesPlace
<1>6. OneCloserPerChannel'
  BY DEF OneCloserPerChannel, LocksMatchPlaces, TargetMatchesPlace
<1>7. QED
  BY <1>1, <1>2, <1>3, <1>4, <1>5, <1>6

LEMMA SweepEndKeeps ==
  ASSUME ShutdownInv, NEW g \in Goroutines, SweepEnd(g)
  PROVE  ShutdownInv'
<1> USE GoroutinesDiffer DEF ShutdownInv, SweepEnd, CloseEnd, Goes, channelVars, socketVars, closeVars, peerVars,
        DropPlaces, ClosePlaces, EditPlaces, CloseHeld
<1> USE DEF ShutdownTypes
<1>1. ShutdownTypes'
  BY DEF Goroutines
<1>2. LocksMatchPlaces'
  BY DEF LocksMatchPlaces
<1>3. TargetMatchesPlace'
  BY DEF TargetMatchesPlace, LocksMatchPlaces, OneCloserPerChannel, TableMatchesChannels
<1>4. ClosedMatchesPlaces'
  BY DEF ClosedMatchesPlaces, LocksMatchPlaces
<1>5. TableMatchesChannels'
  BY DEF TableMatchesChannels, LocksMatchPlaces, TargetMatchesPlace
<1>6. OneCloserPerChannel'
  BY DEF OneCloserPerChannel, LocksMatchPlaces, TargetMatchesPlace
<1>7. QED
  BY <1>1, <1>2, <1>3, <1>4, <1>5, <1>6

LEMMA SweepClearKeeps ==
  ASSUME ShutdownInv, NEW g \in Goroutines, SweepClear(g)
  PROVE  ShutdownInv'
<1> USE GoroutinesDiffer DEF ShutdownInv, SweepClear, Goes, channelVars, socketVars, closeVars, peerVars,
        DropPlaces, ClosePlaces, EditPlaces, CloseHeld
<1> USE DEF ShutdownTypes
<1>1. ShutdownTypes'
  BY DEF Goroutines
<1>2. LocksMatchPlaces'
  BY DEF LocksMatchPlaces
<1>3. TargetMatchesPlace'
  BY DEF TargetMatchesPlace, LocksMatchPlaces, OneCloserPerChannel, TableMatchesChannels
<1>4. ClosedMatchesPlaces'
  BY DEF ClosedMatchesPlaces, LocksMatchPlaces
<1>5. TableMatchesChannels'
  BY DEF TableMatchesChannels, LocksMatchPlaces, TargetMatchesPlace
<1>6. OneCloserPerChannel'
  BY DEF OneCloserPerChannel, LocksMatchPlaces, TargetMatchesPlace
<1>7. QED
  BY <1>1, <1>2, <1>3, <1>4, <1>5, <1>6

LEMMA OnClosingDoneKeeps ==
  ASSUME ShutdownInv, NEW g \in Goroutines, OnClosingDone(g)
  PROVE  ShutdownInv'
<1> USE GoroutinesDiffer DEF ShutdownInv, OnClosingDone, Live, Goes, channelVars, socketVars, closeVars, peerVars,
        DropPlaces, ClosePlaces, EditPlaces, CloseHeld
<1> USE DEF ShutdownTypes
<1>1. ShutdownTypes'
  BY DEF Goroutines
<1>2. LocksMatchPlaces'
  BY DEF LocksMatchPlaces
<1>3. TargetMatchesPlace'
  BY DEF TargetMatchesPlace, LocksMatchPlaces, OneCloserPerChannel, TableMatchesChannels
<1>4. ClosedMatchesPlaces'
  BY DEF ClosedMatchesPlaces, LocksMatchPlaces
<1>5. TableMatchesChannels'
  BY DEF TableMatchesChannels, LocksMatchPlaces, TargetMatchesPlace
<1>6. OneCloserPerChannel'
  BY DEF OneCloserPerChannel, LocksMatchPlaces, TargetMatchesPlace
<1>7. QED
  BY <1>1, <1>2, <1>3, <1>4, <1>5, <1>6

LEMMA SetClosedKeeps ==
  ASSUME ShutdownInv, NEW g \in Goroutines, SetClosed(g)
  PROVE  ShutdownInv'
<1> USE GoroutinesDiffer DEF ShutdownInv, SetClosed, Goes, channelVars, socketVars, closeVars, peerVars,
        DropPlaces, ClosePlaces, EditPlaces, CloseHeld
<1> USE DEF ShutdownTypes
<1>1. ShutdownTypes'
  BY DEF Goroutines
<1>2. LocksMatchPlaces'
  BY DEF LocksMatchPlaces
<1>3. TargetMatchesPlace'
  BY DEF TargetMatchesPlace, LocksMatchPlaces, OneCloserPerChannel, TableMatchesChannels
<1>4. ClosedMatchesPlaces'
  BY DEF ClosedMatchesPlaces, LocksMatchPlaces
<1>5. TableMatchesChannels'
  BY DEF TableMatchesChannels, LocksMatchPlaces, TargetMatchesPlace
<1>6. OneCloserPerChannel'
  BY DEF OneCloserPerChannel, LocksMatchPlaces, TargetMatchesPlace
<1>7. QED
  BY <1>1, <1>2, <1>3, <1>4, <1>5, <1>6

LEMMA OnClosedKeeps ==
  ASSUME ShutdownInv, NEW g \in Goroutines, OnClosed(g)
  PROVE  ShutdownInv'
<1> USE GoroutinesDiffer DEF ShutdownInv, OnClosed, Goes, channelVars, socketVars, closeVars, peerVars,
        DropPlaces, ClosePlaces, EditPlaces, CloseHeld
<1> USE DEF ShutdownTypes
<1>1. ShutdownTypes'
  BY DEF Goroutines
<1>2. LocksMatchPlaces'
  BY DEF LocksMatchPlaces
<1>3. TargetMatchesPlace'
  BY DEF TargetMatchesPlace, LocksMatchPlaces, OneCloserPerChannel, TableMatchesChannels
<1>4. ClosedMatchesPlaces'
  BY DEF ClosedMatchesPlaces, LocksMatchPlaces
<1>5. TableMatchesChannels'
  BY DEF TableMatchesChannels, LocksMatchPlaces, TargetMatchesPlace
<1>6. OneCloserPerChannel'
  BY DEF OneCloserPerChannel, LocksMatchPlaces, TargetMatchesPlace
<1>7. QED
  BY <1>1, <1>2, <1>3, <1>4, <1>5, <1>6

-------------------------------------------------------------------------------

LEMMA NextShutdown == ShutdownInv /\ [Next]_vars => ShutdownInv'
<1> SUFFICES ASSUME ShutdownInv, [Next]_vars PROVE ShutdownInv'
  OBVIOUS
<1>1. ASSUME NEW g \in Goroutines, LockStep(g) \/ RunStep(g) \/ Close(g) PROVE ShutdownInv'
  BY <1>1, DropBeginKeeps, DropNothingKeeps, DropEndKeeps, DropClearKeeps, ScanKeeps,
     CloseKeeps, CloseAgainKeeps, CloseEnterKeeps, OnClosingLockKeeps, SweepBeginKeeps,
     SweepEndKeeps, SweepClearKeeps, OnClosingDoneKeeps, SetClosedKeeps, OnClosedKeeps
  DEF LockStep, RunStep
<1>2. ASSUME NEW g \in Goroutines, NEW c \in Channels, CloseChannel(g, c) PROVE ShutdownInv'
  BY <1>2, CloseChannelKeeps
<1>3. ASSUME NEW c \in Channels, ReaderRuns(c) \/ UserStep(c) PROVE ShutdownInv'
  BY <1>3, UserStepsInert, InertKeeps, ReaderDisconnectKeeps DEF ReaderRuns
<1>4. ASSUME NEW c \in Channels, (PeerStep(c) \/ Handoff(c)) /\ UNCHANGED socketVars
      PROVE ShutdownInv'
  BY <1>4, UserStepsInert, InertKeeps
<1>5. CASE UNCHANGED vars
  <2>1. Inert /\ quic' \in [Channels -> {"open", "fin", "dead"}]
    BY <1>5 DEF vars, channelVars, closeVars, peerVars, Inert, shutdownVars, ShutdownInv, ShutdownTypes
  <2>2. QED
    BY <2>1, InertKeeps
<1>6. QED
  BY <1>1, <1>2, <1>3, <1>4, <1>5 DEF Next

THEOREM ShutdownInvariance == Spec => []ShutdownInv
  BY InitShutdown, NextShutdown, PTL DEF Spec

(* A channel leaves the table only closed, and is closed there only by the
   goroutine that is about to take it out. *)
THEOREM TableIsKept == Spec => []TableMatchesChannels
  BY ShutdownInvariance, PTL DEF ShutdownInv

(* No two goroutines are ever inside Close of one channel. *)
THEOREM ChannelsCloseOnce == Spec => []OneCloserPerChannel
  BY ShutdownInvariance, PTL DEF ShutdownInv

(* The application is notified once, when everything is closed. *)
THEOREM NotifiesOnce == Spec => []NotifiedOnce
<1>1. ShutdownInv => NotifiedOnce
  BY DEF ShutdownInv, ClosedMatchesPlaces, TableMatchesChannels, NotifiedOnce
<1>2. QED
  BY <1>1, ShutdownInvariance, PTL

(* One goroutine at a time runs the shutdown. *)
THEOREM ShutdownIsExclusive == Spec => []ShutdownExclusive
<1>1. ShutdownInv => ShutdownExclusive
  BY DEF ShutdownInv, LocksMatchPlaces, CloseHeld, ShutdownExclusive
<1>2. QED
  BY <1>1, ShutdownInvariance, PTL

-------------------------------------------------------------------------------
(* What a step may not do to a closed socket, and the refinement.          *)

StaysClosed == sockClosed => sockClosed' /\ slot' = slot /\ \A c \in Channels : isClosed'[c]

LEMMA InertStaysClosed == ShutdownInv /\ Inert => StaysClosed
  BY DEF ShutdownInv, ClosedMatchesPlaces, TableMatchesChannels, StaysClosed, Inert,
         shutdownVars, socketVars

LEMMA ShutdownStaysClosed ==
  ASSUME ShutdownInv, NEW g \in Goroutines, LockStep(g) \/ RunStep(g) \/ Close(g)
  PROVE  StaysClosed
<1> SUFFICES ASSUME sockClosed
             PROVE sockClosed' /\ slot' = slot /\ \A c \in Channels : isClosed'[c]
  BY DEF StaysClosed
<1> USE DEF ShutdownInv, ShutdownTypes, Goes, channelVars, closeVars
<1>1. \A c \in Channels : ~slot[c] /\ isClosed[c]
  BY DEF ClosedMatchesPlaces, TableMatchesChannels
<1>2. ~DropBegin(g) /\ ~SweepBegin(g)
  BY <1>1 DEF DropBegin, SweepBegin
<1>3. ~DropEnd(g) /\ ~SweepEnd(g)
  BY <1>1 DEF DropEnd, SweepEnd, TargetMatchesPlace
<1>4. CASE DropClear(g) \/ SweepClear(g)
  <2>1. target[g] \in Channels /\ slot[target[g]] = FALSE
    BY <1>1
  <2>2. [slot EXCEPT ![target[g]] = FALSE] = slot
    BY <2>1
  <2>3. slot' = slot
    BY <1>4, <2>2 DEF DropClear, SweepClear
  <2>4. isClosed' = isClosed /\ sockClosed' = sockClosed
    BY <1>4 DEF DropClear, SweepClear
  <2>5. QED
    BY <1>1, <2>3, <2>4
<1>5. CASE LockStep(g) /\ ~DropBegin(g)
  BY <1>1, <1>5 DEF LockStep, DropNothing, CloseAgain, CloseEnter, OnClosingLock
<1>6. CASE Scan(g) \/ OnClosingDone(g) \/ SetClosed(g) \/ OnClosed(g) \/ Close(g)
  BY <1>1, <1>6 DEF Scan, OnClosingDone, SetClosed, OnClosed, Close
<1>7. QED
  BY <1>2, <1>3, <1>4, <1>5, <1>6 DEF RunStep

(* A closed socket stays closed, with its table empty and its channels shut. *)
THEOREM ClosedStaysClosed == Spec => ClosedIsFinal
<1>1. ShutdownInv /\ [Next]_vars =>
        [sockClosed => /\ sockClosed' /\ slot' = slot
                       /\ \A c \in Channels : isClosed'[c]]_vars
  <2> SUFFICES ASSUME ShutdownInv, Next PROVE StaysClosed
    BY DEF StaysClosed
  <2>1. ASSUME NEW g \in Goroutines, LockStep(g) \/ RunStep(g) \/ Close(g) PROVE StaysClosed
    BY <2>1, ShutdownStaysClosed
  <2>2. ASSUME NEW g \in Goroutines, NEW c \in Channels, CloseChannel(g, c) PROVE StaysClosed
    BY <2>2 DEF CloseChannel, channelVars, closeVars, StaysClosed, ShutdownInv,
                ClosedMatchesPlaces, TableMatchesChannels
  <2>3. ASSUME NEW c \in Channels, ReaderDisconnect(c) PROVE StaysClosed
    BY <2>3 DEF ReaderDisconnect, closeVars, StaysClosed, ShutdownInv,
                ClosedMatchesPlaces, TableMatchesChannels
  <2>4. ASSUME NEW c \in Channels, (ReaderRuns(c) /\ ~ReaderDisconnect(c)) \/ UserStep(c)
                                   \/ ((PeerStep(c) \/ Handoff(c)) /\ UNCHANGED socketVars)
        PROVE StaysClosed
    BY <2>4, UserStepsInert, InertStaysClosed DEF ReaderRuns
  <2>5. QED
    BY <2>1, <2>2, <2>3, <2>4 DEF Next
<1>2. QED
  BY <1>1, ShutdownInvariance, PTL DEF Spec, ClosedIsFinal

(* The shutdown implements the close protocol. *)
LEMMA InitRefines == Init => Protocol!Init
  BY DEF Init, Protocol!Init

LEMMA NextRefines == ShutdownInv /\ [Next]_vars => [Protocol!Next]_(Protocol!vars)
<1> SUFFICES ASSUME ShutdownInv, [Next]_vars PROVE Protocol!Next \/ UNCHANGED Protocol!vars
  OBVIOUS
<1> DEFINE place(g) == CASE spc[g] = "close" -> "waiting"
                         [] spc[g] \in {"edit", "sweep", "closing", "clear", "agree"} -> "closing"
                         [] spc[g] = "notify" -> "notifying"
                         [] OTHER -> "idle"
           placeOf == [g \in Goroutines |-> place(g)]
           Still == UNCHANGED <<sockClosed, closeLock, notified>> /\ placeOf' = placeOf
<1> USE DEF ShutdownInv, ShutdownTypes, Goes, socketVars
<1>1. Still => UNCHANGED Protocol!vars
  BY DEF Protocol!vars
<1>2. ASSUME NEW g \in Goroutines, LockStep(g) \/ RunStep(g) \/ Close(g)
      PROVE Protocol!Next \/ UNCHANGED Protocol!vars
  <2>1. ASSUME NEW to, spc' = [spc EXCEPT ![g] = to]
        PROVE  placeOf' = [placeOf EXCEPT ![g] =
                 CASE to = "close" -> "waiting"
                   [] to \in {"edit", "sweep", "closing", "clear", "agree"} -> "closing"
                   [] to = "notify" -> "notifying"
                   [] OTHER -> "idle"]
    BY <2>1
  <2>2. CASE Close(g)
    <3>1. Protocol!Call(g)
      BY <2>1, <2>2 DEF Close, Protocol!Call
    <3>2. QED
      BY <3>1 DEF Protocol!Next
  <2>3. CASE CloseAgain(g)
    <3>1. Protocol!Skip(g)
      BY <2>1, <2>3 DEF CloseAgain, Protocol!Skip
    <3>2. QED
      BY <3>1 DEF Protocol!Next, Protocol!Step
  <2>4. CASE CloseEnter(g)
    <3>1. Protocol!Begin(g)
      BY <2>1, <2>4 DEF CloseEnter, Protocol!Begin
    <3>2. QED
      BY <3>1 DEF Protocol!Next, Protocol!Step
  <2>5. CASE SetClosed(g)
    <3>1. Protocol!Agree(g)
      BY <2>1, <2>5 DEF SetClosed, Protocol!Agree
    <3>2. QED
      BY <3>1 DEF Protocol!Next, Protocol!Step
  <2>6. CASE OnClosed(g)
    <3>1. Protocol!Finish(g)
      BY <2>1, <2>6 DEF OnClosed, Protocol!Finish
    <3>2. QED
      BY <3>1 DEF Protocol!Next, Protocol!Step
  <2>7. CASE DropBegin(g) \/ DropNothing(g) \/ DropEnd(g) \/ DropClear(g)
    BY <1>1, <2>1, <2>7 DEF DropBegin, DropNothing, DropEnd, DropClear
  <2>8. CASE OnClosingLock(g) \/ SweepBegin(g) \/ SweepEnd(g) \/ SweepClear(g) \/ OnClosingDone(g)
    BY <1>1, <2>1, <2>8 DEF OnClosingLock, SweepBegin, SweepEnd, SweepClear, OnClosingDone
  <2>9. CASE Scan(g)
    <3>1. CASE spc' = [spc EXCEPT ![g] = "idle"]
      BY <1>1, <2>1, <2>9, <3>1 DEF Scan
    <3>2. CASE spc' = [spc EXCEPT ![g] = "close"]
      <4>1. Protocol!Call(g)
        BY <2>1, <2>9, <3>2 DEF Scan, Protocol!Call
      <4>2. QED
        BY <4>1 DEF Protocol!Next
    <3>3. QED
      BY <2>9, <3>1, <3>2 DEF Scan
  <2>10. QED
    BY <1>2, <2>2, <2>3, <2>4, <2>5, <2>6, <2>7, <2>8, <2>9 DEF LockStep, RunStep
<1>3. ASSUME NEW g \in Goroutines, NEW c \in Channels, CloseChannel(g, c)
      PROVE UNCHANGED Protocol!vars
  BY <1>1, <1>3 DEF CloseChannel
<1>4. ASSUME NEW c \in Channels, ReaderDisconnect(c) PROVE UNCHANGED Protocol!vars
  BY <1>1, <1>4 DEF ReaderDisconnect, Goroutines
<1>5. ASSUME Inert PROVE UNCHANGED Protocol!vars
  BY <1>1, <1>5 DEF Inert, shutdownVars
<1>6. ASSUME NEW c \in Channels, (ReaderRuns(c) /\ ~ReaderDisconnect(c)) \/ UserStep(c)
                                 \/ ((PeerStep(c) \/ Handoff(c)) /\ UNCHANGED socketVars)
      PROVE UNCHANGED Protocol!vars
  BY <1>5, <1>6, UserStepsInert DEF ReaderRuns
<1>7. CASE UNCHANGED vars
  BY <1>1, <1>7 DEF vars
<1>8. QED
  BY <1>2, <1>3, <1>4, <1>6, <1>7 DEF Next

THEOREM SocketImplementsProtocol == Spec => ImplementsProtocol
  BY InitRefines, NextRefines, ShutdownInvariance, PTL DEF Spec, ImplementsProtocol, Protocol!Spec

-------------------------------------------------------------------------------
(***************************************************************************)
(* The messages of a channel, from the stream to the application, for any  *)
(* number of channels and any bounds.                                      *)
(***************************************************************************)

flowVars == <<wire, sent, inHand, got, buffer, delivered>>

(* Who moves a message. *)
LEMMA FlowSteps ==
  ASSUME ShutdownTypes, Next
  PROVE  \/ UNCHANGED flowVars
         \/ \E d \in Channels :
              \/ PeerSend(d) \/ ReadMessage(d) \/ CheckStillOpen(d) \/ Handoff(d)
              \/ StoreBuffer(d) \/ Taken(d, "take") \/ Taken(d, "use") \/ CloseEnd(d)
PROOF
<1> DEFINE Frame ==
       \/ UNCHANGED flowVars
       \/ \E d \in Channels :
            \/ PeerSend(d) \/ ReadMessage(d) \/ CheckStillOpen(d) \/ Handoff(d)
            \/ StoreBuffer(d) \/ Taken(d, "take") \/ Taken(d, "use") \/ CloseEnd(d)
<1>1. ASSUME NEW g \in Goroutines, LockStep(g) \/ RunStep(g) \/ Close(g)
      PROVE  Frame
  <2>1. target[g] \in Channels
    BY DEF ShutdownTypes
  <2>2. CASE DropEnd(g) \/ SweepEnd(g)
    BY <2>1, <2>2 DEF DropEnd, SweepEnd
  <2>3. CASE ~(DropEnd(g) \/ SweepEnd(g))
    BY <1>1, <2>3 DEF LockStep, RunStep, DropBegin, DropNothing, CloseAgain, CloseEnter,
       OnClosingLock, DropClear, Scan, SweepBegin, SweepClear, OnClosingDone, SetClosed, OnClosed,
       Close, CloseBegin, flowVars, channelVars, peerVars, readerVars, bufferVars, consumerVars
  <2> QED
    BY <2>2, <2>3
<1>2. ASSUME NEW g \in Goroutines, NEW c \in Channels, CloseChannel(g, c)
      PROVE  Frame
  BY <1>2 DEF CloseChannel, flowVars, channelVars, peerVars, readerVars, bufferVars, consumerVars
<1>3. ASSUME NEW c \in Channels, ReaderRuns(c)
      PROVE  Frame
  BY <1>3 DEF ReaderRuns, HandleChannelStream, ReaderDisconnect, ReaderStep, Attach, UseContext,
     CheckOpen, LoadStream, ReadEnds, ReaderExit,
     flowVars, peerVars, readerVars, bufferVars, consumerVars
<1>4. ASSUME NEW c \in Channels, UserStep(c)
      PROVE  Frame
  BY <1>4 DEF UserStep, ReceiveCheck, ReceiveSlot, ReceiveEnds, ReceiveRecheck, ReceiveIndex, ReceiveGoesOn,
     UseNothing, UseBuffer, PartTaken, SendSlotCheck, SendSlot, ConsumerStep, Receive,
     ReceiveClosed, TakePart, Take, SenderStep, SendCheck, SendWrite,
     flowVars, peerVars, readerVars, bufferVars, consumerVars
<1>5. ASSUME NEW c \in Channels, PeerStep(c) \/ Handoff(c)
      PROVE  Frame
  BY <1>5 DEF PeerStep, PeerFin, StreamLost,
     flowVars, readerVars, bufferVars, consumerVars
<1> QED
  BY <1>1, <1>2, <1>3, <1>4, <1>5 DEF Next

(* Where a channel's reader and its messages are changes by its own steps. *)
LEMMA ReaderSteps ==
  ASSUME rpc \in [Channels -> ReaderPlaces], inHand \in [Channels -> Messages],
         ShutdownTypes, Next, NEW c \in Channels
  PROVE  \/ rpc'[c] = rpc[c] /\ inHand'[c] = inHand[c]
         \/ ReaderRuns(c)
         \/ Handoff(c)
PROOF
<1> DEFINE Frame ==
       \/ rpc'[c] = rpc[c] /\ inHand'[c] = inHand[c]
       \/ ReaderRuns(c)
       \/ Handoff(c)
<1>1. ASSUME NEW g \in Goroutines, LockStep(g) \/ RunStep(g) \/ Close(g)
      PROVE  Frame
  BY <1>1 DEF LockStep, RunStep, DropBegin, DropNothing, CloseAgain, CloseEnter,
       OnClosingLock, DropClear, Scan, SweepBegin, SweepClear, OnClosingDone, SetClosed, OnClosed,
       Close, CloseBegin, CloseEnd, DropEnd, SweepEnd, channelVars, readerVars
<1>2. ASSUME NEW g \in Goroutines, NEW d \in Channels, CloseChannel(g, d)
      PROVE  Frame
  BY <1>2 DEF CloseChannel, channelVars, readerVars
<1>3. ASSUME NEW d \in Channels, ReaderRuns(d), d # c
      PROVE  Frame
  BY <1>3 DEF ReaderRuns, HandleChannelStream, ReaderDisconnect, ReaderStep, Attach, UseContext,
     CheckOpen, LoadStream, ReadMessage, ReadEnds, CheckStillOpen, ReaderExit, ReaderGoes
<1>4. ASSUME NEW d \in Channels, UserStep(d)
      PROVE  Frame
  BY <1>4 DEF UserStep, ReceiveCheck, ReceiveSlot, ReceiveEnds, ReceiveRecheck, ReceiveIndex, ReceiveGoesOn,
     UseNothing, UseBuffer, PartTaken, Taken, SendSlotCheck, SendSlot, ConsumerStep, Receive,
     ReceiveClosed, StoreBuffer, TakePart, Take, SenderStep, SendCheck, SendWrite, readerVars
<1>5. ASSUME NEW d \in Channels, PeerStep(d) \/ (Handoff(d) /\ d # c)
      PROVE  Frame
  BY <1>5 DEF PeerStep, PeerSend, PeerFin, StreamLost, Handoff, ReaderGoes, readerVars
<1> QED
  BY <1>1, <1>2, <1>3, <1>4, <1>5 DEF Next

(* The steps of the consumer of one channel. *)
ConsumerMoves(c) ==
  \/ ReceiveCheck(c) \/ ReceiveSlot(c) \/ ReceiveEnds(c) \/ ConsumerStep(c) \/ Handoff(c)

(* Only a close takes a channel's Buffer from its consumer; the rest is the consumer's. *)
LEMMA ConsumerSteps ==
  ASSUME cpc \in [Channels -> ConsumerPlaces], got \in [Channels -> Messages],
         buffer \in [Channels -> Messages], ShutdownTypes, Next, NEW c \in Channels
  PROVE  \/ /\ cpc'[c] = cpc[c] /\ got'[c] = got[c]
            /\ buffer'[c] = buffer[c] \/ buffer'[c] = Nothing
         \/ ConsumerMoves(c)
PROOF
<1> DEFINE Frame ==
       \/ /\ cpc'[c] = cpc[c] /\ got'[c] = got[c]
          /\ buffer'[c] = buffer[c] \/ buffer'[c] = Nothing
       \/ ConsumerMoves(c)
<1>1. ASSUME NEW g \in Goroutines, LockStep(g) \/ RunStep(g) \/ Close(g)
      PROVE  Frame
  <2>1. target[g] \in Channels
    BY DEF ShutdownTypes
  <2> QED
    BY <1>1, <2>1 DEF LockStep, RunStep, DropBegin, DropNothing, CloseAgain, CloseEnter,
       OnClosingLock, DropClear, Scan, SweepBegin, SweepClear, OnClosingDone, SetClosed, OnClosed,
       Close, CloseBegin, CloseEnd, DropEnd, SweepEnd, channelVars, consumerVars, bufferVars
<1>2. ASSUME NEW g \in Goroutines, NEW d \in Channels, CloseChannel(g, d)
      PROVE  Frame
  BY <1>2 DEF CloseChannel, channelVars, consumerVars, bufferVars
<1>3. ASSUME NEW d \in Channels, ReaderRuns(d)
      PROVE  Frame
  BY <1>3 DEF ReaderRuns, HandleChannelStream, ReaderDisconnect, ReaderStep, Attach, UseContext,
     CheckOpen, LoadStream, ReadMessage, ReadEnds, CheckStillOpen, ReaderExit,
     consumerVars, bufferVars
<1>4. ASSUME NEW d \in Channels, UserStep(d)
      PROVE  Frame
  <2>1. CASE d = c
    BY <1>4, <2>1 DEF UserStep, ConsumerMoves, SendSlotCheck, SendSlot,
       SenderStep, SendCheck, SendWrite, consumerVars, bufferVars
  <2>2. CASE d # c
    BY <1>4, <2>2 DEF UserStep, ReceiveCheck, ReceiveSlot, ReceiveEnds, ReceiveRecheck, ReceiveIndex,
       ReceiveGoesOn, UseNothing, UseBuffer, PartTaken, Taken, SendSlotCheck, SendSlot,
       ConsumerStep, Receive, ReceiveClosed, StoreBuffer, TakePart, Take, SenderStep, SendCheck,
       SendWrite, ConsumerGoes, consumerVars, bufferVars
  <2> QED
    BY <2>1, <2>2
<1>5. ASSUME NEW d \in Channels, PeerStep(d) \/ (Handoff(d) /\ d # c)
      PROVE  Frame
  BY <1>5 DEF PeerStep, PeerSend, PeerFin, StreamLost, Handoff, ConsumerGoes,
     consumerVars, bufferVars
<1>6. ASSUME Handoff(c)
      PROVE  Frame
  BY <1>6 DEF ConsumerMoves
<1> QED
  BY <1>1, <1>2, <1>3, <1>4, <1>5, <1>6 DEF Next

-------------------------------------------------------------------------------
(* Types.                                                                  *)

FlowTypes ==
  /\ wire \in [Channels -> Seq(Messages)] /\ sent \in [Channels -> Messages]
  /\ inHand \in [Channels -> Messages] /\ got \in [Channels -> Messages]
  /\ buffer \in [Channels -> Messages] /\ delivered \in [Channels -> Seq(Messages)]

PlaceTypes ==
  /\ rpc \in [Channels -> ReaderPlaces] /\ cpc \in [Channels -> ConsumerPlaces]
  /\ wpc \in [Channels -> SenderPlaces]
  /\ streamSet \in [Channels -> BOOLEAN] /\ done \in [Channels -> BOOLEAN]
  /\ offset \in [Channels -> 0 .. MaxParts - 1]
  /\ panic \in {"none", "context", "read", "write", "slot", "buffer"}

(* The types of the messages are kept: the bound holds at the only step that counts. *)
LEMMA FlowTypesKept ==
  ASSUME ShutdownTypes, FlowTypes, Next
  PROVE  FlowTypes'
PROOF
<1> USE DEF FlowTypes
<1>1. CASE UNCHANGED flowVars
  BY <1>1 DEF flowVars
<1>2. ASSUME NEW c \in Channels, PeerSend(c)
      PROVE  FlowTypes'
  <2>1. sent[c] + 1 \in Messages
    BY <1>2, BoundsAreNat DEF PeerSend, Messages
  <2>2. Append(wire[c], sent[c] + 1) \in Seq(Messages)
    BY <2>1
  <2>3. sent' = [sent EXCEPT ![c] = sent[c] + 1]
        /\ wire' = [wire EXCEPT ![c] = Append(wire[c], sent[c] + 1)]
    BY <1>2 DEF PeerSend
  <2>4. sent' \in [Channels -> Messages] /\ wire' \in [Channels -> Seq(Messages)]
    BY <2>1, <2>2, <2>3
  <2> QED
    BY <1>2, <2>4 DEF PeerSend, readerVars, bufferVars, consumerVars
<1>3. ASSUME NEW c \in Channels, ReadMessage(c)
      PROVE  FlowTypes'
  <2>1. wire[c] \in Seq(Messages) /\ wire[c] # <<>>
    BY <1>3 DEF ReadMessage
  <2>2. Head(wire[c]) \in Messages /\ Tail(wire[c]) \in Seq(Messages)
    BY <2>1, HeadTailProperties
  <2>3. inHand' = [inHand EXCEPT ![c] = Head(wire[c])]
        /\ wire' = [wire EXCEPT ![c] = Tail(wire[c])]
    BY <1>3 DEF ReadMessage
  <2>4. inHand' \in [Channels -> Messages] /\ wire' \in [Channels -> Seq(Messages)]
    BY <2>2, <2>3
  <2> QED
    BY <1>3, <2>4 DEF ReadMessage, bufferVars, consumerVars
<1>4. Nothing \in Messages
  BY BoundsAreNat DEF Nothing, Messages
<1>5. ASSUME NEW c \in Channels, CheckStillOpen(c) \/ Handoff(c) \/ StoreBuffer(c) \/ CloseEnd(c)
      PROVE  FlowTypes'
  <2>1. CASE CheckStillOpen(c) \/ CloseEnd(c)
    BY <1>4, <2>1 DEF CheckStillOpen, CloseEnd, peerVars, readerVars, bufferVars, consumerVars
  <2>2. CASE Handoff(c)
    BY <1>4, <2>2 DEF Handoff, peerVars, bufferVars
  <2>3. CASE StoreBuffer(c)
    BY <1>4, <2>3 DEF StoreBuffer, peerVars, readerVars
  <2> QED
    BY <1>5, <2>1, <2>2, <2>3
<1>6. ASSUME NEW c \in Channels, Taken(c, "take") \/ Taken(c, "use")
      PROVE  FlowTypes'
  <2>1. Append(delivered[c], buffer[c]) \in Seq(Messages)
    OBVIOUS
  <2>2. delivered' \in [Channels -> Seq(Messages)]
    BY <1>6, <2>1 DEF Taken
  <2>3. buffer' \in [Channels -> Messages] /\ UNCHANGED <<wire, sent, inHand, got>>
    BY <1>4, <1>6 DEF Taken, peerVars, readerVars
  <2> QED
    BY <2>2, <2>3
<1> QED
  BY <1>1, <1>2, <1>3, <1>5, <1>6, FlowSteps

(* So are the types of the places, of the two flags and of the offset in Buffer. *)
LEMMA PlaceTypesKept ==
  ASSUME ShutdownTypes, PlaceTypes, Next
  PROVE  PlaceTypes'
PROOF
<1> USE DEF PlaceTypes
<1>1. 0 \in 0 .. MaxParts - 1
  BY BoundsAreNat
<1>2. ASSUME NEW g \in Goroutines, LockStep(g) \/ RunStep(g) \/ Close(g)
      PROVE  PlaceTypes'
  <2>1. target[g] \in Channels
    BY DEF ShutdownTypes
  <2>2. CASE DropBegin(g) \/ SweepBegin(g)
    BY <2>1, <2>2 DEF DropBegin, SweepBegin, CloseBegin, readerVars, bufferVars, consumerVars
  <2>3. CASE DropEnd(g) \/ SweepEnd(g)
    BY <1>1, <2>1, <2>3 DEF DropEnd, SweepEnd, CloseEnd, readerVars, bufferVars, consumerVars
  <2>4. CASE ~(DropBegin(g) \/ SweepBegin(g) \/ DropEnd(g) \/ SweepEnd(g))
    BY <1>2, <2>4 DEF LockStep, RunStep, DropNothing, CloseAgain, CloseEnter, OnClosingLock,
       DropClear, Scan, SweepClear, OnClosingDone, SetClosed, OnClosed, Close,
       channelVars, peerVars, readerVars, bufferVars, consumerVars
  <2> QED
    BY <2>2, <2>3, <2>4
<1>3. ASSUME NEW g \in Goroutines, NEW c \in Channels, CloseChannel(g, c)
      PROVE  PlaceTypes'
  BY <1>3 DEF CloseChannel, channelVars, readerVars, bufferVars, consumerVars
<1>4. ASSUME NEW c \in Channels, ReaderRuns(c)
      PROVE  PlaceTypes'
  BY <1>4 DEF ReaderRuns, HandleChannelStream, ReaderDisconnect, ReaderStep, Attach, UseContext,
     CheckOpen, LoadStream, ReadMessage, ReadEnds, CheckStillOpen, ReaderExit, ReaderGoes,
     ReaderPlaces, NilSlot, readerVars, bufferVars, consumerVars
<1>5. ASSUME NEW c \in Channels, PartTaken(c, "take") \/ PartTaken(c, "use")
      PROVE  PlaceTypes'
  <2>1. offset[c] + 1 \in 0 .. MaxParts - 1
    BY <1>5, BoundsAreNat DEF PartTaken
  <2>2. offset' = [offset EXCEPT ![c] = offset[c] + 1]
    BY <1>5 DEF PartTaken
  <2>3. offset' \in [Channels -> 0 .. MaxParts - 1]
    BY <2>1, <2>2
  <2> QED
    BY <1>5, <2>3 DEF PartTaken, ConsumerGoes, ConsumerPlaces, readerVars
<1>6. ASSUME NEW c \in Channels, UserStep(c)
      PROVE  PlaceTypes'
  <2>1. CASE PartTaken(c, "take") \/ PartTaken(c, "use")
    BY <1>5, <2>1
  <2>2. CASE ~(PartTaken(c, "take") \/ PartTaken(c, "use"))
    BY <1>1, <1>6, <2>2, ZenonT(60) DEF UserStep, ReceiveCheck, ReceiveSlot, ReceiveEnds, ReceiveRecheck, ReceiveIndex,
       ReceiveGoesOn, UseNothing, UseBuffer, Taken, SendSlotCheck, SendSlot, ConsumerStep,
       Receive, ReceiveClosed, StoreBuffer, TakePart, Take, SenderStep, SendCheck, SendWrite,
       ConsumerGoes, SenderGoes, ConsumerPlaces, SenderPlaces, NilSlot,
       readerVars, bufferVars, consumerVars
  <2> QED
    BY <2>1, <2>2
<1>7. ASSUME NEW c \in Channels, PeerStep(c) \/ Handoff(c)
      PROVE  PlaceTypes'
  BY <1>7 DEF PeerStep, PeerSend, PeerFin, StreamLost, Handoff, ReaderGoes, ConsumerGoes,
     ReaderPlaces, ConsumerPlaces, readerVars, bufferVars, consumerVars
<1> QED
  BY <1>2, <1>3, <1>4, <1>6, <1>7 DEF Next

-------------------------------------------------------------------------------
(* Where a message can be.                                                 *)

(* The reader holds one between its two looks at IsClosed and the hand-over,
   the consumer between the hand-over and Buffer, which is empty by then. *)
HeldAt ==
  \A c \in Channels :
    /\ inHand[c] # Nothing => rpc[c] \in {"got", "offer"}
    /\ got[c] # Nothing => cpc[c] = "store"
    /\ cpc[c] \in {"recv", "store"} => buffer[c] = Nothing

(* Nobody holds a message anywhere else: a hand-over moves it, a close drops it. *)
LEMMA HeldAtKept ==
  ASSUME ShutdownTypes, FlowTypes, PlaceTypes, HeldAt, Next
  PROVE  HeldAt'
PROOF
<1> SUFFICES ASSUME NEW c \in Channels
             PROVE  /\ inHand'[c] # Nothing => rpc'[c] \in {"got", "offer"}
                    /\ got'[c] # Nothing => cpc'[c] = "store"
                    /\ cpc'[c] \in {"recv", "store"} => buffer'[c] = Nothing
  BY DEF HeldAt
<1>1. /\ inHand[c] # Nothing => rpc[c] \in {"got", "offer"}
      /\ got[c] # Nothing => cpc[c] = "store"
      /\ cpc[c] \in {"recv", "store"} => buffer[c] = Nothing
  BY DEF HeldAt
<1>2. /\ rpc \in [Channels -> ReaderPlaces] /\ cpc \in [Channels -> ConsumerPlaces]
      /\ inHand \in [Channels -> Messages] /\ got \in [Channels -> Messages]
      /\ buffer \in [Channels -> Messages]
  BY DEF FlowTypes, PlaceTypes
<1>3. inHand'[c] # Nothing => rpc'[c] \in {"got", "offer"}
  <2>1. CASE ReaderRuns(c)
    BY <1>1, <1>2, <2>1 DEF ReaderRuns, HandleChannelStream, ReaderDisconnect, ReaderStep,
       Attach, UseContext, CheckOpen, LoadStream, ReadMessage, ReadEnds, CheckStillOpen,
       ReaderExit, ReaderGoes
  <2>2. CASE Handoff(c)
    BY <1>2, <2>2 DEF Handoff
  <2> QED
    BY <1>1, <1>2, <2>1, <2>2, ReaderSteps
<1>4. /\ got'[c] # Nothing => cpc'[c] = "store"
      /\ cpc'[c] \in {"recv", "store"} => buffer'[c] = Nothing
  <2>1. CASE ConsumerMoves(c)
    BY <1>1, <1>2, <2>1 DEF ConsumerMoves, ReceiveCheck, ReceiveSlot, ReceiveEnds,
       ReceiveRecheck, ReceiveIndex, ReceiveGoesOn, UseNothing, UseBuffer, PartTaken, Taken, ConsumerStep,
       Receive, ReceiveClosed, StoreBuffer, TakePart, Take, Handoff, ConsumerGoes,
       bufferVars, consumerVars
  <2> QED
    BY <1>1, <1>2, <2>1, ConsumerSteps
<1> QED
  BY <1>3, <1>4
-------------------------------------------------------------------------------
(* The messages, in order.                                                 *)

(* A channel that has begun to close stays closing or closed. *)
LEMMA CloseSteps ==
  ASSUME ShutdownTypes, Next, NEW c \in Channels
  PROVE  /\ isClosed[c] => isClosed'[c]
         /\ closing[c] => closing'[c] \/ isClosed'[c]
PROOF
<1> DEFINE Frame == /\ isClosed[c] => isClosed'[c]
                    /\ closing[c] => closing'[c] \/ isClosed'[c]
<1>1. closing \in [Channels -> BOOLEAN] /\ isClosed \in [Channels -> BOOLEAN]
  BY DEF ShutdownTypes
<1>2. ASSUME NEW g \in Goroutines, LockStep(g) \/ RunStep(g) \/ Close(g)
      PROVE  Frame
  <2>1. target[g] \in Channels
    BY DEF ShutdownTypes
  <2> QED
    BY <1>1, <1>2, <2>1 DEF LockStep, RunStep, DropBegin, DropNothing, CloseAgain, CloseEnter,
       OnClosingLock, DropClear, Scan, SweepBegin, SweepClear, OnClosingDone, SetClosed, OnClosed,
       Close, CloseBegin, CloseEnd, DropEnd, SweepEnd, channelVars, closeVars
<1>3. ASSUME NEW g \in Goroutines, NEW d \in Channels, CloseChannel(g, d)
      PROVE  Frame
  BY <1>3 DEF CloseChannel, channelVars, closeVars
<1>4. ASSUME NEW d \in Channels, ReaderRuns(d)
      PROVE  Frame
  BY <1>4 DEF ReaderRuns, HandleChannelStream, ReaderDisconnect, ReaderStep, Attach, UseContext,
     CheckOpen, LoadStream, ReadMessage, ReadEnds, CheckStillOpen, ReaderExit, closeVars
<1>5. ASSUME NEW d \in Channels, UserStep(d)
      PROVE  Frame
  BY <1>5 DEF UserStep, ReceiveCheck, ReceiveSlot, ReceiveEnds, ReceiveRecheck, ReceiveIndex, ReceiveGoesOn,
     UseNothing, UseBuffer, PartTaken, Taken, SendSlotCheck, SendSlot, ConsumerStep, Receive,
     ReceiveClosed, StoreBuffer, TakePart, Take, SenderStep, SendCheck, SendWrite, closeVars
<1>6. ASSUME NEW d \in Channels, PeerStep(d) \/ Handoff(d)
      PROVE  Frame
  BY <1>6 DEF PeerStep, PeerSend, PeerFin, StreamLost, Handoff, closeVars
<1> QED
  BY <1>2, <1>3, <1>4, <1>5, <1>6 DEF Next

Count(m) == IF m = Nothing THEN 0 ELSE 1

(* The messages of an open channel are numbered without a gap, from the first
   one the application took to the last one sent: taken are those delivered, b
   is in Buffer, g handed over, h in the reader's hand, w on the wire. *)
InSequence(d, b, g, h, w, n) ==
  /\ \A i \in 1 .. Len(d) : d[i] = i
  /\ b # 0 => b = Len(d) + 1
  /\ g # 0 => g = Len(d) + Count(b) + 1
  /\ h # 0 => h = Len(d) + Count(b) + Count(g) + 1
  /\ \A i \in 1 .. Len(w) : w[i] = Len(d) + Count(b) + Count(g) + Count(h) + i
  /\ n = Len(d) + Count(b) + Count(g) + Count(h) + Len(w)

Numbered(c) == InSequence(delivered[c], buffer[c], got[c], inHand[c], wire[c], sent[c])

OpenNumbered == \A c \in Channels : ~closing[c] /\ ~isClosed[c] => Numbered(c)

(* What each step makes of such a sequence. *)
LEMMA SequenceSteps ==
  ASSUME NEW d \in Seq(Nat), NEW b \in Nat, NEW g \in Nat, NEW h \in Nat, NEW w \in Seq(Nat),
         NEW n \in Nat, InSequence(d, b, g, h, w, n)
  PROVE  /\ InSequence(d, b, g, h, Append(w, n + 1), n + 1)
         /\ h = 0 /\ w # <<>> => InSequence(d, b, g, Head(w), Tail(w), n)
         /\ b = 0 /\ g = 0 => InSequence(d, b, h, 0, w, n)
         /\ b = 0 => InSequence(d, g, 0, h, w, n)
         /\ b # 0 => InSequence(Append(d, b), 0, g, h, w, n)
PROOF
<1>1. Len(d) \in Nat /\ Len(w) \in Nat
  OBVIOUS
<1>2. /\ Count(0) = 0
      /\ \A m \in Nat : Count(m) \in Nat /\ (m # 0 => Count(m) = 1)
  BY DEF Count, Nothing
<1>3. /\ \A i \in 1 .. Len(d) : d[i] = i
      /\ b # 0 => b = Len(d) + 1
      /\ g # 0 => g = Len(d) + Count(b) + 1
      /\ h # 0 => h = Len(d) + Count(b) + Count(g) + 1
      /\ \A i \in 1 .. Len(w) : w[i] = Len(d) + Count(b) + Count(g) + Count(h) + i
      /\ n = Len(d) + Count(b) + Count(g) + Count(h) + Len(w)
  BY DEF InSequence
<1>4. Count(b) \in Nat /\ Count(g) \in Nat /\ Count(h) \in Nat
  BY <1>2
<1>5. InSequence(d, b, g, h, Append(w, n + 1), n + 1)
  <2> DEFINE v == Append(w, n + 1)
             k == Len(d) + Count(b) + Count(g) + Count(h)
  <2>1. /\ Len(v) = Len(w) + 1
        /\ \A i \in 1 .. Len(w) : v[i] = w[i]
        /\ v[Len(w) + 1] = n + 1
    OBVIOUS
  <2>2. k \in Nat
    BY <1>1, <1>4
  <2>3. n = k + Len(w) /\ \A i \in 1 .. Len(w) : w[i] = k + i
    BY <1>3
  <2> HIDE DEF v, k
  <2>4. ASSUME NEW i \in 1 .. Len(v)
        PROVE  v[i] = k + i
    <3>1. CASE i \in 1 .. Len(w)
      BY <2>1, <2>3, <3>1
    <3>2. CASE i = Len(w) + 1
      BY <1>1, <2>1, <2>2, <2>3, <3>2
    <3> QED
      BY <1>1, <2>1, <3>1, <3>2
  <2>5. n + 1 = k + Len(v)
    BY <1>1, <2>1, <2>2, <2>3
  <2>6. InSequence(d, b, g, h, v, n + 1)
    BY <1>3, <2>4, <2>5 DEF InSequence, k
  <2> QED
    BY <2>6 DEF v
<1>6. ASSUME h = 0, w # <<>>
      PROVE  InSequence(d, b, g, Head(w), Tail(w), n)
  <2> DEFINE m == Head(w)
             t == Tail(w)
  <2>1. /\ Len(w) # 0 /\ Len(t) = Len(w) - 1 /\ m = w[1]
        /\ \A i \in 1 .. Len(t) : t[i] = w[i + 1]
    BY <1>6
  <2> HIDE DEF m, t
  <2>2. Count(h) = 0
    BY <1>2, <1>6
  <2>3. m = Len(d) + Count(b) + Count(g) + 1
    <3>1. 1 \in 1 .. Len(w)
      BY <1>1, <2>1
    <3>2. w[1] = Len(d) + Count(b) + Count(g) + Count(h) + 1
      BY <1>3, <3>1
    <3> QED
      BY <1>1, <1>4, <2>1, <2>2, <3>2
  <2>4. m \in Nat /\ m # 0
    BY <1>1, <1>4, <2>3
  <2>5. Count(m) = 1
    BY <1>2, <2>4
  <2>6. ASSUME NEW x \in Nat
        PROVE  Len(d) + Count(b) + Count(g) + Count(h) + (x + 1) =
               Len(d) + Count(b) + Count(g) + Count(m) + x
    <3> DEFINE a == Len(d) + Count(b) + Count(g)
    <3>1. a \in Nat
      BY <1>1, <1>4
    <3> HIDE DEF a
    <3>2. a + Count(h) + (x + 1) = a + Count(m) + x
      BY <2>2, <2>5, <3>1
    <3> QED
      BY <3>2 DEF a
  <2>7. ASSUME NEW i \in 1 .. Len(t)
        PROVE  t[i] = Len(d) + Count(b) + Count(g) + Count(m) + i
    <3>1. i + 1 \in 1 .. Len(w) /\ i \in Nat
      BY <1>1, <2>1
    <3>2. w[i + 1] = Len(d) + Count(b) + Count(g) + Count(h) + (i + 1)
      BY <1>3, <3>1
    <3>3. t[i] = w[i + 1]
      BY <2>1
    <3> QED
      BY <2>6, <3>1, <3>2, <3>3
  <2>8. n = Len(d) + Count(b) + Count(g) + Count(m) + Len(t)
    BY <1>1, <1>3, <1>4, <2>1, <2>2, <2>5
  <2>9. InSequence(d, b, g, m, t, n)
    BY <1>3, <2>3, <2>7, <2>8 DEF InSequence
  <2> QED
    BY <2>9 DEF m, t
<1>7. ASSUME b = 0, g = 0
      PROVE  InSequence(d, b, h, 0, w, n)
  <2>1. Count(b) = 0 /\ Count(g) = 0
    BY <1>2, <1>7
  <2>2. h # 0 => h = Len(d) + Count(b) + 1
    BY <1>1, <1>3, <2>1
  <2>3. ASSUME NEW i \in 1 .. Len(w)
        PROVE  w[i] = Len(d) + Count(b) + Count(h) + Count(0) + i
    <3>1. w[i] = Len(d) + Count(b) + Count(g) + Count(h) + i /\ i \in Nat
      BY <1>1, <1>3
    <3> QED
      BY <1>1, <1>2, <1>4, <2>1, <3>1
  <2>4. n = Len(d) + Count(b) + Count(h) + Count(0) + Len(w)
    BY <1>1, <1>2, <1>3, <1>4, <2>1
  <2> QED
    BY <1>3, <1>7, <2>2, <2>3, <2>4 DEF InSequence
<1>8. ASSUME b = 0
      PROVE  InSequence(d, g, 0, h, w, n)
  <2>1. Count(b) = 0
    BY <1>2, <1>8
  <2>2. g # 0 => g = Len(d) + 1
    BY <1>1, <1>3, <2>1
  <2>3. h # 0 => h = Len(d) + Count(g) + Count(0) + 1
    BY <1>1, <1>2, <1>3, <1>4, <2>1
  <2>4. ASSUME NEW i \in 1 .. Len(w)
        PROVE  w[i] = Len(d) + Count(g) + Count(0) + Count(h) + i
    <3>1. w[i] = Len(d) + Count(b) + Count(g) + Count(h) + i /\ i \in Nat
      BY <1>1, <1>3
    <3> QED
      BY <1>1, <1>2, <1>4, <2>1, <3>1
  <2>5. n = Len(d) + Count(g) + Count(0) + Count(h) + Len(w)
    BY <1>1, <1>2, <1>3, <1>4, <2>1
  <2> QED
    BY <1>3, <2>2, <2>3, <2>4, <2>5 DEF InSequence
<1>9. ASSUME b # 0
      PROVE  InSequence(Append(d, b), 0, g, h, w, n)
  <2> DEFINE e == Append(d, b)
  <2>1. /\ Len(e) = Len(d) + 1
        /\ \A i \in 1 .. Len(d) : e[i] = d[i]
        /\ e[Len(d) + 1] = b
    OBVIOUS
  <2> HIDE DEF e
  <2>2. Count(b) = 1 /\ Count(0) = 0 /\ b = Len(d) + 1
    BY <1>2, <1>3, <1>9
  <2>3. ASSUME NEW i \in 1 .. Len(e)
        PROVE  e[i] = i
    <3>1. CASE i \in 1 .. Len(d)
      BY <1>3, <2>1, <3>1
    <3>2. CASE i = Len(d) + 1
      BY <2>1, <2>2, <3>2
    <3> QED
      BY <1>1, <2>1, <3>1, <3>2
  <2>4. g # 0 => g = Len(e) + Count(0) + 1
    BY <1>1, <1>3, <2>1, <2>2
  <2>5. h # 0 => h = Len(e) + Count(0) + Count(g) + 1
    BY <1>1, <1>3, <1>4, <2>1, <2>2
  <2>6. ASSUME NEW i \in 1 .. Len(w)
        PROVE  w[i] = Len(e) + Count(0) + Count(g) + Count(h) + i
    <3>1. w[i] = Len(d) + Count(b) + Count(g) + Count(h) + i /\ i \in Nat
      BY <1>1, <1>3
    <3> QED
      BY <1>1, <1>4, <2>1, <2>2, <3>1
  <2>7. n = Len(e) + Count(0) + Count(g) + Count(h) + Len(w)
    BY <1>1, <1>3, <1>4, <2>1, <2>2
  <2>8. InSequence(e, 0, g, h, w, n)
    BY <2>3, <2>4, <2>5, <2>6, <2>7 DEF InSequence
  <2> QED
    BY <2>8 DEF e
<1> QED
  BY <1>5, <1>6, <1>7, <1>8, <1>9

(* Messages are numbers. *)
LEMMA NumbersAreNat ==
  ASSUME FlowTypes
  PROVE  /\ wire \in [Channels -> Seq(Nat)] /\ sent \in [Channels -> Nat]
         /\ inHand \in [Channels -> Nat] /\ got \in [Channels -> Nat]
         /\ buffer \in [Channels -> Nat] /\ delivered \in [Channels -> Seq(Nat)]
PROOF
<1>1. Messages \subseteq Nat
  BY BoundsAreNat DEF Messages
<1>2. Seq(Messages) \subseteq Seq(Nat)
  BY <1>1, SeqMonotonic
<1> QED
  BY <1>1, <1>2 DEF FlowTypes

(* No step of an open channel leaves a gap in its numbers. *)
LEMMA NumberedKept ==
  ASSUME ShutdownTypes, FlowTypes, HeldAt, OpenNumbered, Next
  PROVE  OpenNumbered'
PROOF
<1> SUFFICES ASSUME NEW c \in Channels, ~closing'[c], ~isClosed'[c]
             PROVE  Numbered(c)'
  BY DEF OpenNumbered
<1>1. ~closing[c] /\ ~isClosed[c] /\ Numbered(c)
  BY CloseSteps DEF OpenNumbered
<1>2. /\ wire \in [Channels -> Seq(Nat)] /\ sent \in [Channels -> Nat]
      /\ inHand \in [Channels -> Nat] /\ got \in [Channels -> Nat]
      /\ buffer \in [Channels -> Nat] /\ delivered \in [Channels -> Seq(Nat)]
  BY NumbersAreNat
<1>3. ASSUME wire'[c] = wire[c], sent'[c] = sent[c], inHand'[c] = inHand[c], got'[c] = got[c],
             buffer'[c] = buffer[c], delivered'[c] = delivered[c]
      PROVE  Numbered(c)'
  BY <1>1, <1>3 DEF Numbered
<1>4. CASE UNCHANGED flowVars
  BY <1>3, <1>4 DEF flowVars
<1>5. ASSUME NEW d \in Channels, d # c,
             \/ PeerSend(d) \/ ReadMessage(d) \/ CheckStillOpen(d) \/ Handoff(d)
             \/ StoreBuffer(d) \/ Taken(d, "take") \/ Taken(d, "use") \/ CloseEnd(d)
      PROVE  Numbered(c)'
  BY <1>2, <1>3, <1>5 DEF PeerSend, ReadMessage, CheckStillOpen, Handoff, StoreBuffer, Taken,
     CloseEnd, peerVars, readerVars, bufferVars, consumerVars
<1>6. CASE PeerSend(c)
  <2>1. /\ sent'[c] = sent[c] + 1 /\ wire'[c] = Append(wire[c], sent[c] + 1)
        /\ UNCHANGED <<inHand, got, buffer, delivered>>
    BY <1>2, <1>6 DEF PeerSend, readerVars, bufferVars, consumerVars
  <2> QED
    BY <1>1, <1>2, <2>1, SequenceSteps DEF Numbered
<1>7. CASE ReadMessage(c)
  <2>1. inHand[c] = Nothing
    BY <1>7 DEF HeldAt, ReadMessage, ReaderGoes
  <2>2. /\ wire[c] # <<>> /\ inHand'[c] = Head(wire[c]) /\ wire'[c] = Tail(wire[c])
        /\ UNCHANGED <<sent, got, buffer, delivered>>
    BY <1>2, <1>7 DEF ReadMessage, bufferVars, consumerVars
  <2> QED
    BY <1>1, <1>2, <2>1, <2>2, SequenceSteps DEF Numbered, Nothing
<1>8. CASE CheckStillOpen(c)
  <2>1. inHand'[c] = inHand[c] /\ UNCHANGED <<wire, sent, got, buffer, delivered>>
    BY <1>1, <1>2, <1>8 DEF CheckStillOpen, peerVars, bufferVars, consumerVars
  <2> QED
    BY <1>3, <2>1
<1>9. CASE Handoff(c)
  <2>1. got[c] = Nothing /\ buffer[c] = Nothing
    BY <1>9 DEF HeldAt, Handoff, ConsumerGoes
  <2>2. /\ got'[c] = inHand[c] /\ inHand'[c] = Nothing
        /\ UNCHANGED <<wire, sent, buffer, delivered>>
    BY <1>2, <1>9 DEF Handoff, peerVars, bufferVars
  <2> QED
    BY <1>1, <1>2, <2>1, <2>2, SequenceSteps DEF Numbered, Nothing
<1>10. CASE StoreBuffer(c)
  <2>1. buffer[c] = Nothing
    BY <1>10 DEF HeldAt, StoreBuffer, ConsumerGoes
  <2>2. /\ buffer'[c] = got[c] /\ got'[c] = Nothing
        /\ UNCHANGED <<wire, sent, inHand, delivered>>
    BY <1>2, <1>10 DEF StoreBuffer, peerVars, readerVars
  <2> QED
    BY <1>1, <1>2, <2>1, <2>2, SequenceSteps DEF Numbered, Nothing
<1>11. CASE Taken(c, "take") \/ Taken(c, "use")
  <2>1. /\ buffer'[c] = Nothing /\ UNCHANGED <<wire, sent, inHand, got>>
        /\ delivered'[c] = IF buffer[c] = Nothing THEN delivered[c]
                           ELSE Append(delivered[c], buffer[c])
    BY <1>2, <1>11 DEF Taken, peerVars, readerVars
  <2>2. CASE buffer[c] = Nothing
    BY <1>3, <2>1, <2>2
  <2>3. CASE buffer[c] # Nothing
    BY <1>1, <1>2, <2>1, <2>3, SequenceSteps DEF Numbered, Nothing
  <2> QED
    BY <2>2, <2>3
<1>12. ~CloseEnd(c)
  BY DEF CloseEnd, ShutdownTypes
<1> QED
  BY <1>4, <1>5, <1>6, <1>7, <1>8, <1>9, <1>10, <1>11, <1>12, FlowSteps

(* The next number after a numbered sequence extends it. *)
LEMMA OneMore ==
  ASSUME NEW s \in Seq(Nat), \A i \in 1 .. Len(s) : s[i] = i,
         NEW m \in Nat, m # 0 => m = Len(s) + 1
  PROVE  /\ s \o One(m) \in Seq(Nat) /\ Len(s \o One(m)) = Len(s) + Count(m)
         /\ \A i \in 1 .. Len(s \o One(m)) : (s \o One(m))[i] = i
PROOF
<1>1. CASE m = Nothing
  <2>1. One(m) = <<>> /\ Count(m) = 0
    BY <1>1 DEF One, Count
  <2>2. s \o One(m) = s
    BY <2>1
  <2> QED
    BY <2>1, <2>2
<1>2. CASE m # Nothing
  <2>1. One(m) = <<m>> /\ Count(m) = 1 /\ m = Len(s) + 1
    BY <1>2 DEF One, Count, Nothing
  <2>2. /\ s \o <<m>> \in Seq(Nat) /\ Len(s \o <<m>>) = Len(s) + 1
        /\ \A i \in 1 .. Len(s) : (s \o <<m>>)[i] = s[i]
        /\ (s \o <<m>>)[Len(s) + 1] = m
    OBVIOUS
  <2> QED
    BY <2>1, <2>2
<1> QED
  BY <1>1, <1>2

(* Such numbers are all the messages sent. *)
LEMMA NumberedIsComplete ==
  ASSUME FlowTypes, NEW c \in Channels, Numbered(c)
  PROVE  Pipeline(c) = [i \in 1 .. sent[c] |-> i]
PROOF
<1> DEFINE p1 == delivered[c] \o One(buffer[c])
           p2 == p1 \o One(got[c])
           p3 == p2 \o One(inHand[c])
<1>1. /\ wire[c] \in Seq(Nat) /\ sent[c] \in Nat /\ inHand[c] \in Nat /\ got[c] \in Nat
      /\ buffer[c] \in Nat /\ delivered[c] \in Seq(Nat)
  BY NumbersAreNat
<1>2. /\ p1 \in Seq(Nat) /\ Len(p1) = Len(delivered[c]) + Count(buffer[c])
      /\ \A i \in 1 .. Len(p1) : p1[i] = i
  BY <1>1, OneMore DEF Numbered, InSequence
<1> HIDE DEF p1
<1>3. /\ p2 \in Seq(Nat) /\ Len(p2) = Len(p1) + Count(got[c])
      /\ \A i \in 1 .. Len(p2) : p2[i] = i
  <2>1. got[c] # 0 => got[c] = Len(p1) + 1
    BY <1>2 DEF Numbered, InSequence
  <2> QED
    BY <1>1, <1>2, <2>1, OneMore
<1> HIDE DEF p2
<1>4. /\ p3 \in Seq(Nat) /\ Len(p3) = Len(p2) + Count(inHand[c])
      /\ \A i \in 1 .. Len(p3) : p3[i] = i
  <2>1. inHand[c] # 0 => inHand[c] = Len(p2) + 1
    BY <1>2, <1>3 DEF Numbered, InSequence
  <2> QED
    BY <1>1, <1>3, <2>1, OneMore
<1> HIDE DEF p3
<1>5. /\ \A i \in 1 .. Len(wire[c]) : wire[c][i] = Len(p3) + i
      /\ sent[c] = Len(p3) + Len(wire[c])
  BY <1>2, <1>3, <1>4 DEF Numbered, InSequence
<1>6. /\ p3 \o wire[c] \in Seq(Nat) /\ Len(p3 \o wire[c]) = sent[c]
      /\ \A i \in 1 .. sent[c] : (p3 \o wire[c])[i] = i
  <2>1. /\ p3 \o wire[c] \in Seq(Nat) /\ Len(p3 \o wire[c]) = Len(p3) + Len(wire[c])
        /\ \A i \in 1 .. Len(p3) + Len(wire[c]) :
             (p3 \o wire[c])[i] = IF i <= Len(p3) THEN p3[i] ELSE wire[c][i - Len(p3)]
    BY <1>1, <1>4, ConcatProperties
  <2>2. Len(p3) \in Nat /\ Len(wire[c]) \in Nat
    BY <1>1, <1>4
  <2>3. ASSUME NEW i \in 1 .. sent[c]
        PROVE  (p3 \o wire[c])[i] = i
    <3>1. CASE i <= Len(p3)
      BY <1>4, <1>5, <2>1, <2>2, <3>1
    <3>2. CASE i > Len(p3)
      <4>1. i - Len(p3) \in 1 .. Len(wire[c])
        BY <1>5, <2>2, <3>2
      <4>2. (p3 \o wire[c])[i] = wire[c][i - Len(p3)]
        BY <1>5, <2>1, <2>2, <3>2
      <4> QED
        BY <1>5, <2>2, <4>1, <4>2
    <3>3. i \in Nat
      BY <1>1
    <3>4. i <= Len(p3) \/ i > Len(p3)
      BY <2>2, <3>3
    <3> QED
      BY <3>1, <3>2, <3>4
  <2> QED
    BY <1>5, <2>1, <2>3
<1>7. Pipeline(c) = p3 \o wire[c]
  BY DEF Pipeline, p1, p2, p3
<1>8. [i \in 1 .. sent[c] |-> i] \in Seq(Nat) /\ Len([i \in 1 .. sent[c] |-> i]) = sent[c]
  BY <1>1
<1> QED
  BY <1>6, <1>7, <1>8, SeqEqual
-------------------------------------------------------------------------------
(* What the application has is in order, a close included.                 *)

LastOf(s) == IF s = <<>> THEN 0 ELSE s[Len(s)]

(* Later places hold later messages; 0 is no message. *)
InOrder(l, b, g, h, w, n) ==
  /\ l <= n
  /\ b # 0 => l < b /\ b <= n
  /\ g # 0 => l < g /\ b < g /\ g <= n
  /\ h # 0 => l < h /\ b < h /\ g < h /\ h <= n
  /\ \A i \in 1 .. Len(w) : l < w[i] /\ b < w[i] /\ g < w[i] /\ h < w[i] /\ w[i] <= n
  /\ \A i, j \in 1 .. Len(w) : i < j => w[i] < w[j]

Ordered(c) ==
  InOrder(LastOf(delivered[c]), buffer[c], got[c], inHand[c], wire[c], sent[c])

AllOrdered == \A c \in Channels : Ordered(c)

(* What each step makes of such an order. *)
LEMMA OrderSteps ==
  ASSUME NEW l \in Nat, NEW b \in Nat, NEW g \in Nat, NEW h \in Nat, NEW w \in Seq(Nat),
         NEW n \in Nat, InOrder(l, b, g, h, w, n)
  PROVE  /\ InOrder(l, b, g, h, Append(w, n + 1), n + 1)
         /\ h = 0 /\ w # <<>> => InOrder(l, b, g, Head(w), Tail(w), n)
         /\ InOrder(l, b, g, 0, w, n)
         /\ b = 0 => InOrder(l, b, h, 0, w, n)
         /\ b = 0 => InOrder(l, g, 0, h, w, n)
         /\ InOrder(l, 0, g, h, w, n)
         /\ b # 0 => InOrder(b, 0, g, h, w, n)
PROOF
<1>1. Len(w) \in Nat /\ \A i \in 1 .. Len(w) : w[i] \in Nat
  OBVIOUS
<1>2. InOrder(l, b, g, h, Append(w, n + 1), n + 1)
  <2> DEFINE v == Append(w, n + 1)
  <2>1. /\ Len(v) = Len(w) + 1
        /\ \A i \in 1 .. Len(w) : v[i] = w[i]
        /\ v[Len(w) + 1] = n + 1
    OBVIOUS
  <2> HIDE DEF v
  <2>2. \A i \in 1 .. Len(v) : i \in 1 .. Len(w) \/ i = Len(w) + 1
    BY <1>1, <2>1
  <2>3. /\ l < n + 1 /\ b < n + 1 /\ g < n + 1 /\ h < n + 1
        /\ \A i \in 1 .. Len(w) : w[i] < n + 1
    BY <1>1 DEF InOrder
  <2>4. ASSUME NEW i \in 1 .. Len(v)
        PROVE  l < v[i] /\ b < v[i] /\ g < v[i] /\ h < v[i] /\ v[i] <= n + 1
    <3>1. CASE i \in 1 .. Len(w)
      <4>1. /\ v[i] = w[i] /\ v[i] \in Nat
            /\ l < w[i] /\ b < w[i] /\ g < w[i] /\ h < w[i]
        BY <1>1, <2>1, <3>1 DEF InOrder
      <4> QED
        BY <2>3, <3>1, <4>1
    <3>2. CASE i = Len(w) + 1
      BY <2>1, <2>3, <3>2
    <3> QED
      BY <2>2, <3>1, <3>2
  <2>5. ASSUME NEW i \in 1 .. Len(v), NEW j \in 1 .. Len(v), i < j
        PROVE  v[i] < v[j]
    <3>1. i \in 1 .. Len(w)
      BY <1>1, <2>1, <2>5
    <3>2. CASE j \in 1 .. Len(w)
      BY <2>1, <2>5, <3>1, <3>2 DEF InOrder
    <3>3. CASE j = Len(w) + 1
      BY <2>1, <2>3, <3>1, <3>3
    <3> QED
      BY <2>2, <3>2, <3>3
  <2>6. /\ l <= n + 1
        /\ b # 0 => l < b /\ b <= n + 1
        /\ g # 0 => l < g /\ b < g /\ g <= n + 1
        /\ h # 0 => l < h /\ b < h /\ g < h /\ h <= n + 1
    BY DEF InOrder
  <2>7. InOrder(l, b, g, h, v, n + 1)
    BY <2>4, <2>5, <2>6 DEF InOrder
  <2> QED
    BY <2>7 DEF v
<1>3. ASSUME h = 0, w # <<>>
      PROVE  InOrder(l, b, g, Head(w), Tail(w), n)
  <2> DEFINE m == Head(w)
             t == Tail(w)
  <2>1. /\ Len(w) # 0 /\ Len(t) = Len(w) - 1 /\ m = w[1]
        /\ \A i \in 1 .. Len(t) : t[i] = w[i + 1]
    BY <1>3
  <2> HIDE DEF m, t
  <2>2. 1 \in 1 .. Len(w)
    BY <1>1, <2>1
  <2>3. m \in Nat /\ l < m /\ b < m /\ g < m /\ m <= n
    BY <1>1, <2>1, <2>2 DEF InOrder
  <2>4. \A i \in 1 .. Len(t) : i \in Nat /\ i + 1 \in 1 .. Len(w) /\ 1 < i + 1
    BY <1>1, <2>1
  <2>5. ASSUME NEW i \in 1 .. Len(t)
        PROVE  l < t[i] /\ b < t[i] /\ g < t[i] /\ m < t[i] /\ t[i] <= n
    <3>1. i + 1 \in 1 .. Len(w) /\ 1 < i + 1 /\ t[i] = w[i + 1]
      BY <2>1, <2>4
    <3> QED
      BY <2>1, <2>2, <3>1 DEF InOrder
  <2>6. ASSUME NEW i \in 1 .. Len(t), NEW j \in 1 .. Len(t), i < j
        PROVE  t[i] < t[j]
    <3>1. /\ i + 1 \in 1 .. Len(w) /\ t[i] = w[i + 1]
          /\ j + 1 \in 1 .. Len(w) /\ t[j] = w[j + 1]
      BY <2>1, <2>4
    <3>2. i + 1 < j + 1
      BY <2>4, <2>6
    <3> QED
      BY <3>1, <3>2 DEF InOrder
  <2>7. InOrder(l, b, g, m, t, n)
    BY <2>3, <2>5, <2>6 DEF InOrder
  <2> QED
    BY <2>7 DEF m, t
<1>4. InOrder(l, b, g, 0, w, n) /\ InOrder(l, 0, g, h, w, n)
  BY <1>1 DEF InOrder
<1>5. ASSUME b = 0
      PROVE  InOrder(l, b, h, 0, w, n) /\ InOrder(l, g, 0, h, w, n)
  BY <1>1, <1>5 DEF InOrder
<1>6. ASSUME b # 0
      PROVE  InOrder(b, 0, g, h, w, n)
  BY <1>1, <1>6 DEF InOrder
<1> QED
  BY <1>2, <1>3, <1>4, <1>5, <1>6

(* What was appended is last. *)
LEMMA LastAppended ==
  ASSUME NEW s \in Seq(Nat), NEW m \in Nat
  PROVE  LastOf(Append(s, m)) = m
  BY DEF LastOf

(* No step, a close included, puts an earlier message behind a later one. *)
LEMMA OrderedKept ==
  ASSUME ShutdownTypes, FlowTypes, HeldAt, AllOrdered, Next
  PROVE  AllOrdered'
PROOF
<1> SUFFICES ASSUME NEW c \in Channels
             PROVE  Ordered(c)'
  BY DEF AllOrdered
<1>1. Ordered(c)
  BY DEF AllOrdered
<1>2. /\ wire \in [Channels -> Seq(Nat)] /\ sent \in [Channels -> Nat]
      /\ inHand \in [Channels -> Nat] /\ got \in [Channels -> Nat]
      /\ buffer \in [Channels -> Nat] /\ delivered \in [Channels -> Seq(Nat)]
  BY NumbersAreNat
<1>3. LastOf(delivered[c]) \in Nat
  <2>1. delivered[c] \in Seq(Nat)
    BY <1>2
  <2> QED
    BY <2>1 DEF LastOf
<1>4. ASSUME wire'[c] = wire[c], sent'[c] = sent[c], inHand'[c] = inHand[c], got'[c] = got[c],
             buffer'[c] = buffer[c], delivered'[c] = delivered[c]
      PROVE  Ordered(c)'
  BY <1>1, <1>4 DEF Ordered
<1>5. CASE UNCHANGED flowVars
  BY <1>4, <1>5 DEF flowVars
<1>6. ASSUME NEW d \in Channels, d # c,
             \/ PeerSend(d) \/ ReadMessage(d) \/ CheckStillOpen(d) \/ Handoff(d)
             \/ StoreBuffer(d) \/ Taken(d, "take") \/ Taken(d, "use") \/ CloseEnd(d)
      PROVE  Ordered(c)'
  BY <1>2, <1>4, <1>6 DEF PeerSend, ReadMessage, CheckStillOpen, Handoff, StoreBuffer, Taken,
     CloseEnd, peerVars, readerVars, bufferVars, consumerVars
<1>7. CASE PeerSend(c)
  <2>1. /\ sent'[c] = sent[c] + 1 /\ wire'[c] = Append(wire[c], sent[c] + 1)
        /\ UNCHANGED <<inHand, got, buffer, delivered>>
    BY <1>2, <1>7 DEF PeerSend, readerVars, bufferVars, consumerVars
  <2> QED
    BY <1>1, <1>2, <1>3, <2>1, OrderSteps DEF Ordered
<1>8. CASE ReadMessage(c)
  <2>1. inHand[c] = Nothing
    BY <1>8 DEF HeldAt, ReadMessage, ReaderGoes
  <2>2. /\ wire[c] # <<>> /\ inHand'[c] = Head(wire[c]) /\ wire'[c] = Tail(wire[c])
        /\ UNCHANGED <<sent, got, buffer, delivered>>
    BY <1>2, <1>8 DEF ReadMessage, bufferVars, consumerVars
  <2>3. InOrder(LastOf(delivered[c]), buffer[c], got[c], Head(wire[c]), Tail(wire[c]), sent[c])
    BY <1>1, <1>2, <1>3, <2>1, <2>2, OrderSteps DEF Ordered, Nothing
  <2> QED
    BY <2>2, <2>3 DEF Ordered
<1>9. CASE CheckStillOpen(c)
  <2>1. /\ inHand'[c] = inHand[c] \/ inHand'[c] = Nothing
        /\ UNCHANGED <<wire, sent, got, buffer, delivered>>
    BY <1>2, <1>9 DEF CheckStillOpen, peerVars, bufferVars, consumerVars
  <2>2. CASE inHand'[c] = Nothing
    BY <1>1, <1>2, <1>3, <2>1, <2>2, OrderSteps DEF Ordered, Nothing
  <2> QED
    BY <1>4, <2>1, <2>2
<1>10. CASE Handoff(c)
  <2>1. buffer[c] = Nothing
    BY <1>10 DEF HeldAt, Handoff, ConsumerGoes
  <2>2. /\ got'[c] = inHand[c] /\ inHand'[c] = Nothing
        /\ UNCHANGED <<wire, sent, buffer, delivered>>
    BY <1>2, <1>10 DEF Handoff, peerVars, bufferVars
  <2>3. InOrder(LastOf(delivered[c]), buffer[c], inHand[c], 0, wire[c], sent[c])
    BY <1>1, <1>2, <1>3, <2>1, OrderSteps DEF Ordered, Nothing
  <2> QED
    BY <2>2, <2>3 DEF Ordered, Nothing
<1>11. CASE StoreBuffer(c)
  <2>1. buffer[c] = Nothing
    BY <1>11 DEF HeldAt, StoreBuffer, ConsumerGoes
  <2>2. /\ buffer'[c] = got[c] /\ got'[c] = Nothing
        /\ UNCHANGED <<wire, sent, inHand, delivered>>
    BY <1>2, <1>11 DEF StoreBuffer, peerVars, readerVars
  <2>3. InOrder(LastOf(delivered[c]), got[c], 0, inHand[c], wire[c], sent[c])
    BY <1>1, <1>2, <1>3, <2>1, OrderSteps DEF Ordered, Nothing
  <2> QED
    BY <2>2, <2>3 DEF Ordered, Nothing
<1>12. CASE Taken(c, "take") \/ Taken(c, "use")
  <2>1. /\ buffer'[c] = Nothing /\ UNCHANGED <<wire, sent, inHand, got>>
        /\ delivered'[c] = IF buffer[c] = Nothing THEN delivered[c]
                           ELSE Append(delivered[c], buffer[c])
    BY <1>2, <1>12 DEF Taken, peerVars, readerVars
  <2>2. CASE buffer[c] = Nothing
    BY <1>4, <2>1, <2>2
  <2>3. CASE buffer[c] # Nothing
    <3>1. LastOf(delivered'[c]) = buffer[c]
      BY <1>2, <2>1, <2>3, LastAppended
    <3>2. InOrder(buffer[c], 0, got[c], inHand[c], wire[c], sent[c])
      BY <1>1, <1>2, <1>3, <2>3, OrderSteps DEF Ordered, Nothing
    <3> QED
      BY <2>1, <3>1, <3>2 DEF Ordered, Nothing
  <2> QED
    BY <2>2, <2>3
<1>13. CASE CloseEnd(c)
  <2>1. buffer'[c] = Nothing /\ UNCHANGED <<wire, sent, inHand, got, delivered>>
    BY <1>2, <1>13 DEF CloseEnd, peerVars, readerVars, consumerVars
  <2> QED
    BY <1>1, <1>2, <1>3, <2>1, OrderSteps DEF Ordered, Nothing
<1> QED
  BY <1>5, <1>6, <1>7, <1>8, <1>9, <1>10, <1>11, <1>12, <1>13, FlowSteps

(* Each step sends the next message, delivers a later one, or does neither. *)
LEMMA StepDelivers ==
  ASSUME ShutdownTypes, FlowTypes, AllOrdered, Next, NEW c \in Channels
  PROVE  Promise(c)!Next \/ UNCHANGED <<sent[c], delivered[c]>>
PROOF
<1>1. Ordered(c)
  BY DEF AllOrdered
<1>2. /\ wire \in [Channels -> Seq(Nat)] /\ sent \in [Channels -> Nat]
      /\ inHand \in [Channels -> Nat] /\ got \in [Channels -> Nat]
      /\ buffer \in [Channels -> Nat] /\ delivered \in [Channels -> Seq(Nat)]
  BY NumbersAreNat
<1>3. CASE UNCHANGED flowVars
  BY <1>3 DEF flowVars
<1>4. ASSUME NEW d \in Channels, d # c,
             \/ PeerSend(d) \/ ReadMessage(d) \/ CheckStillOpen(d) \/ Handoff(d)
             \/ StoreBuffer(d) \/ Taken(d, "take") \/ Taken(d, "use") \/ CloseEnd(d)
      PROVE  UNCHANGED <<sent[c], delivered[c]>>
  BY <1>2, <1>4 DEF PeerSend, ReadMessage, CheckStillOpen, Handoff, StoreBuffer, Taken,
     CloseEnd, peerVars, readerVars, bufferVars, consumerVars
<1>5. CASE ReadMessage(c) \/ CheckStillOpen(c) \/ Handoff(c) \/ StoreBuffer(c) \/ CloseEnd(c)
  BY <1>5 DEF ReadMessage, CheckStillOpen, Handoff, StoreBuffer, CloseEnd, peerVars, consumerVars
<1>6. CASE PeerSend(c)
  <2>1. sent'[c] = sent[c] + 1 /\ delivered'[c] = delivered[c]
    BY <1>2, <1>6 DEF PeerSend, consumerVars
  <2> QED
    BY <2>1 DEF Promise!Next, Promise!Send
<1>7. CASE Taken(c, "take") \/ Taken(c, "use")
  <2>1. /\ sent'[c] = sent[c]
        /\ delivered'[c] = IF buffer[c] = Nothing THEN delivered[c]
                           ELSE Append(delivered[c], buffer[c])
    BY <1>2, <1>7 DEF Taken, peerVars
  <2>2. CASE buffer[c] = Nothing
    BY <2>1, <2>2
  <2>3. CASE buffer[c] # Nothing
    <3>1. Promise(c)!Last = LastOf(delivered[c])
      BY DEF Promise!Last, LastOf
    <3>2. LastOf(delivered[c]) \in Nat
      <4>1. delivered[c] \in Seq(Nat)
        BY <1>2
      <4> QED
        BY <4>1 DEF LastOf
    <3>3. LastOf(delivered[c]) < buffer[c] /\ buffer[c] <= sent[c]
      BY <1>1, <2>3 DEF Ordered, InOrder, Nothing
    <3>4. buffer[c] \in Promise(c)!Last + 1 .. sent[c]
      BY <1>2, <3>1, <3>2, <3>3
    <3>5. Promise(c)!Deliver
      BY <2>1, <2>3, <3>4 DEF Promise!Deliver
    <3> QED
      BY <3>5 DEF Promise!Next
  <2> QED
    BY <2>2, <2>3
<1> QED
  BY <1>3, <1>4, <1>5, <1>6, <1>7, FlowSteps

-------------------------------------------------------------------------------
(* The invariant, and what follows from it.                                *)

ChannelInv ==
  ShutdownTypes /\ FlowTypes /\ PlaceTypes /\ HeldAt /\ OpenNumbered /\ AllOrdered

(* The invariant holds at first. *)
LEMMA InitChannel == Init => ChannelInv
PROOF
<1> SUFFICES ASSUME Init
             PROVE  ChannelInv
  OBVIOUS
<1>1. ShutdownTypes
  BY InitShutdown DEF ShutdownInv
<1>2. Nothing \in Messages /\ 0 \in Messages /\ 0 \in 0 .. MaxParts - 1
  BY BoundsAreNat DEF Nothing, Messages
<1>3. FlowTypes /\ PlaceTypes
  BY <1>2 DEF Init, ChannelInit, FlowTypes, PlaceTypes, ReaderPlaces, ConsumerPlaces, SenderPlaces
<1>4. HeldAt
  BY DEF Init, ChannelInit, HeldAt
<1>5. ASSUME NEW c \in Channels
      PROVE  Numbered(c) /\ Ordered(c)
  <2>1. /\ delivered[c] = <<>> /\ wire[c] = <<>> /\ sent[c] = 0
        /\ buffer[c] = 0 /\ got[c] = 0 /\ inHand[c] = 0
    BY DEF Init, ChannelInit, Nothing
  <2>2. Count(0) = 0 /\ LastOf(<<>>) = 0
    BY DEF Count, Nothing, LastOf
  <2>3. InSequence(<<>>, 0, 0, 0, <<>>, 0)
    BY <2>2 DEF InSequence
  <2>4. InOrder(0, 0, 0, 0, <<>>, 0)
    BY DEF InOrder
  <2> QED
    BY <2>1, <2>2, <2>3, <2>4 DEF Numbered, Ordered
<1> QED
  BY <1>1, <1>3, <1>4, <1>5 DEF ChannelInv, OpenNumbered, AllOrdered

(* It speaks of nothing but the variables. *)
LEMMA ChannelUnchanged == ChannelInv /\ UNCHANGED vars => ChannelInv'
  BY DEF ChannelInv, ShutdownTypes, FlowTypes, PlaceTypes, HeldAt, OpenNumbered, Numbered,
     AllOrdered, Ordered, vars, channelVars, socketVars, peerVars, readerVars, closeVars,
     bufferVars, consumerVars

(* Every step keeps it. *)
LEMMA NextChannel == ChannelInv /\ ShutdownTypes' /\ [Next]_vars => ChannelInv'
PROOF
<1>1. ASSUME ChannelInv, ShutdownTypes', Next
      PROVE  ChannelInv'
  BY <1>1, FlowTypesKept, PlaceTypesKept, HeldAtKept, NumberedKept, OrderedKept DEF ChannelInv
<1> QED
  BY <1>1, ChannelUnchanged

(* Every reachable state keeps the types and the places and order of messages. *)
THEOREM ChannelInvariance == Spec => []ChannelInv
PROOF
<1>1. ShutdownInv => ShutdownTypes
  BY DEF ShutdownInv
<1> QED
  BY <1>1, InitChannel, NextChannel, ShutdownInvariance, PTL DEF Spec

(* Socket.TypeOK: every variable of the socket and its channels keeps its type. *)
THEOREM SocketTypes == Spec => []TypeOK
PROOF
<1>1. ShutdownInv /\ ChannelInv => TypeOK
  BY DEF ShutdownInv, ChannelInv, ShutdownTypes, FlowTypes, PlaceTypes, TypeOK, ChannelTypeOK
<1> QED
  BY <1>1, ChannelInvariance, ShutdownInvariance, PTL

(* channel.go:160-226: until Close begins every message sent is in exactly one
   place between the stream and the application, in the order sent. *)
THEOREM ChannelsLoseNothing == Spec => []NothingLost
PROOF
<1>1. ChannelInv => NothingLost
  BY NumberedIsComplete DEF ChannelInv, OpenNumbered, NothingLost
<1> QED
  BY <1>1, ChannelInvariance, PTL

(* channel.go:160-226: also through a close, the application gets messages
   that were sent, in order and each at most once. *)
THEOREM ChannelsDeliverInOrder == Spec => ImplementsOrderedDelivery
PROOF
<1> DEFINE Starts == \A c \in Channels : Promise(c)!Init
           Moves  == \A c \in Channels : Promise(c)!Next \/ UNCHANGED <<sent[c], delivered[c]>>
<1>1. Init => Starts
  <2> SUFFICES ASSUME Init, NEW c \in Channels
               PROVE  Promise(c)!Init
    OBVIOUS
  <2>1. sent[c] = 0 /\ delivered[c] = <<>>
    BY DEF Init, ChannelInit
  <2> QED
    BY <2>1 DEF Promise!Init
<1>2. ChannelInv /\ [Next]_vars => [Moves]_channelVars
  BY StepDelivers DEF ChannelInv, vars
<1>3. ImplementsOrderedDelivery <=> Starts /\ [][Moves]_channelVars
  BY DEF ImplementsOrderedDelivery
<1> HIDE DEF Starts, Moves
<1> QED
  BY <1>1, <1>2, <1>3, ChannelInvariance, PTL DEF Spec

-------------------------------------------------------------------------------
(* The last channel.                                                       *)

Dropping == {"drop", "dropping", "clearing"}

(* A reader that has left was the one to remove its channel, or found the
   socket closed; the last one to look for a channel found none. *)
GoneInv ==
  /\ \A c \in Channels : rpc[c] # "gone" => spc[c] = "idle"
  /\ \A c \in Channels : spc[c] \in Dropping => target[c] = c
  /\ \A c \in Channels : rpc[c] = "gone" /\ spc[c] \notin Dropping => ~slot[c]
  /\ (\A c \in Channels : rpc[c] = "gone" /\ spc[c] = "idle") => sockClosed
  /\ sockClosed /\ (\A g \in Goroutines : spc[g] # "notify") => notified = 1

(* Nobody has left a new socket. *)
LEMMA InitGone == Init => GoneInv
  BY SocketHasAChannel DEF Init, ChannelInit, GoneInv, Dropping, Goroutines

(* Steps outside the shutdown make no reader leave. *)
LEMMA NobodyLeaves ==
  ASSUME rpc \in [Channels -> ReaderPlaces], NEW c \in Channels,
         \/ UserStep(c)
         \/ HandleChannelStream(c)
         \/ (ReaderStep(c) \/ PeerStep(c) \/ Handoff(c)) /\ UNCHANGED socketVars
  PROVE  /\ UNCHANGED socketVars
         /\ \A d \in Channels : rpc'[d] = "gone" <=> rpc[d] = "gone"
<1>1. CASE UserStep(c)
  BY <1>1 DEF UserStep, ReceiveCheck, ReceiveSlot, ReceiveEnds, ReceiveRecheck, ReceiveIndex, ReceiveGoesOn,
     UseNothing, UseBuffer, PartTaken, Taken, SendSlotCheck, SendSlot, ConsumerStep, Receive,
     ReceiveClosed, StoreBuffer, TakePart, Take, SenderStep, SendCheck, SendWrite, readerVars
<1>2. CASE HandleChannelStream(c)
  BY <1>2 DEF HandleChannelStream, ReaderGoes
<1>3. CASE ReaderStep(c) /\ UNCHANGED socketVars
  BY <1>3 DEF ReaderStep, Attach, UseContext, CheckOpen, LoadStream, ReadMessage, ReadEnds,
     CheckStillOpen, ReaderExit, ReaderGoes
<1>4. CASE (PeerStep(c) \/ Handoff(c)) /\ UNCHANGED socketVars
  BY <1>4 DEF PeerStep, PeerSend, PeerFin, StreamLost, Handoff, ReaderGoes, readerVars
<1>5. QED
  BY <1>1, <1>2, <1>3, <1>4

(* Every step keeps what is known of the readers that have left. *)
LEMMA NextGone == GoneInv /\ ShutdownInv /\ TypeOK /\ [Next]_vars => GoneInv'
<1> SUFFICES ASSUME GoneInv, ShutdownInv, TypeOK, [Next]_vars PROVE GoneInv'
  OBVIOUS
<1>0. /\ rpc \in [Channels -> ReaderPlaces] /\ ShutdownTypes /\ ClosedMatchesPlaces
  BY DEF TypeOK, ChannelTypeOK, ShutdownInv
<1> USE <1>0, SocketHasAChannel, GoroutinesDiffer
        DEF GoneInv, Dropping, ShutdownTypes, Goroutines, Goes, socketVars, channelVars, readerVars
<1>1. CASE UNCHANGED vars
  BY <1>1 DEF vars
<1>2. ASSUME NEW c \in Channels,
             \/ UserStep(c)
             \/ HandleChannelStream(c)
             \/ (ReaderStep(c) \/ PeerStep(c) \/ Handoff(c)) /\ UNCHANGED socketVars
      PROVE  GoneInv'
  BY <1>2, NobodyLeaves
<1>3. ASSUME NEW c \in Channels, ReaderDisconnect(c) PROVE GoneInv'
  BY <1>3 DEF ReaderDisconnect, ReaderGoes, ClosedMatchesPlaces
<1>4. ASSUME NEW g \in Goroutines, NEW c \in Channels, CloseChannel(g, c) PROVE GoneInv'
  BY <1>4 DEF CloseChannel
<1>5. ASSUME NEW g \in Goroutines, LockStep(g) PROVE GoneInv'
  <2>1. CASE DropBegin(g)
    BY <2>1 DEF DropBegin, CloseBegin
  <2>2. CASE DropNothing(g)
    BY <2>2 DEF DropNothing
  <2>3. CASE CloseAgain(g)
    BY <2>3 DEF CloseAgain
  <2>4. CASE CloseEnter(g)
    BY <2>4 DEF CloseEnter
  <2>5. CASE OnClosingLock(g)
    BY <2>5 DEF OnClosingLock
  <2>6. QED
    BY <1>5, <2>1, <2>2, <2>3, <2>4, <2>5 DEF LockStep
<1>6. ASSUME NEW g \in Goroutines, RunStep(g) PROVE GoneInv'
  <2>1. CASE DropEnd(g)
    BY <2>1 DEF DropEnd, CloseEnd
  <2>2. CASE DropClear(g)
    BY <2>2 DEF DropClear
  <2>3. CASE Scan(g)
    BY <2>3 DEF Scan
  <2>4. CASE SweepBegin(g)
    BY <2>4 DEF SweepBegin, CloseBegin
  <2>5. CASE SweepEnd(g)
    BY <2>5 DEF SweepEnd, CloseEnd
  <2>6. CASE SweepClear(g)
    BY <2>6 DEF SweepClear
  <2>7. CASE OnClosingDone(g)
    BY <2>7 DEF OnClosingDone
  <2>8. CASE SetClosed(g)
    BY <2>8 DEF SetClosed
  <2>9. CASE OnClosed(g)
    BY <2>9 DEF OnClosed, ClosedMatchesPlaces
  <2>10. QED
    BY <1>6, <2>1, <2>2, <2>3, <2>4, <2>5, <2>6, <2>7, <2>8, <2>9 DEF RunStep
<1>7. ASSUME NEW g \in Goroutines, Close(g) PROVE GoneInv'
  BY <1>7 DEF Close
<1>8. QED
  BY <1>1, <1>2, <1>3, <1>4, <1>5, <1>6, <1>7 DEF Next, ReaderRuns

(* changelog.md:39: whichever readers, droppers and closers removed the
   channels, when all readers have left and everybody has returned, one of
   them has closed the socket and told the application (socket.go:125-178). *)
THEOREM LastChannelNotifies == Spec => []AllGoneNotified
<1>1. GoneInv => AllGoneNotified
  BY DEF GoneInv, AllGoneNotified, Goroutines
<1>2. Spec => []GoneInv
  BY InitGone, NextGone, ShutdownInvariance, SocketTypes, PTL DEF Spec
<1>3. QED
  BY <1>1, <1>2, PTL

-------------------------------------------------------------------------------
(* Whom a caller waits for, and how many steps a call takes.               *)

(* Inside Lock of channelEditLock or of closeLock while it is taken. *)
Waits(g) ==
  \/ spc[g] \in {"drop", "edit"} /\ editLock # NoOne
  \/ spc[g] = "close" /\ closeLock # NoOne

HeldBy(g) == IF spc[g] = "close" THEN closeLock ELSE editLock

Runs(g) == g \in Goroutines /\ spc[g] # "idle" /\ ~Waits(g)

(* Who waits for a lock waits for a goroutine that runs, or for one that waits
   for another one, not for the first, that does. *)
WaitersWaitForRunner ==
  \A g \in Goroutines : Waits(g) =>
    Runs(HeldBy(g)) \/ (HeldBy(HeldBy(g)) # g /\ Runs(HeldBy(HeldBy(g))))

(* socket.go:113-178: closeLock is taken first and channelEditLock under it,
   and nobody takes a third lock, a reader that closes the socket from its own
   callback included: no ring of waiters. *)
THEOREM SocketWaitersWaitForRunner == Spec => []WaitersWaitForRunner
<1>1. ASSUME ShutdownInv, NEW g \in Goroutines, editLock = g PROVE Runs(g)
  BY <1>1 DEF ShutdownInv, LocksMatchPlaces, EditPlaces, Waits, Runs
<1>2. ASSUME ShutdownInv, NEW g \in Goroutines, closeLock = g
      PROVE  Runs(g) \/ (HeldBy(g) = editLock /\ editLock # NoOne)
  BY <1>2 DEF ShutdownInv, LocksMatchPlaces, CloseHeld, ClosePlaces, Waits, Runs, HeldBy
<1>3. ASSUME ShutdownInv, NEW g \in Goroutines, Waits(g)
      PROVE  Runs(HeldBy(g)) \/ (HeldBy(HeldBy(g)) # g /\ Runs(HeldBy(HeldBy(g))))
  <2>1. editLock \in Goroutines \cup {NoOne} /\ closeLock \in Goroutines \cup {NoOne}
    BY <1>3 DEF ShutdownInv, ShutdownTypes
  <2>2. CASE spc[g] \in {"drop", "edit"}
    BY <1>1, <1>3, <2>1, <2>2 DEF Waits, HeldBy
  <2>3. CASE spc[g] = "close"
    <3>1. HeldBy(g) = closeLock /\ closeLock \in Goroutines
      BY <1>3, <2>1, <2>3 DEF Waits, HeldBy
    <3>2. CASE ~Runs(closeLock)
      <4>1. HeldBy(closeLock) = editLock /\ editLock \in Goroutines
        BY <1>2, <1>3, <2>1, <3>1, <3>2
      <4>2. spc[editLock] \in EditPlaces
        BY <1>3, <4>1 DEF ShutdownInv, LocksMatchPlaces
      <4>3. QED
        BY <1>1, <1>3, <2>3, <3>1, <4>1, <4>2 DEF EditPlaces
    <3>3. QED
      BY <3>1, <3>2
  <2>4. QED
    BY <1>3, <2>2, <2>3 DEF Waits
<1>4. ShutdownInv => WaitersWaitForRunner
  BY <1>3 DEF WaitersWaitForRunner
<1>5. QED
  BY <1>4, ShutdownInvariance, PTL

(* How many channels a table holds. *)
Size(s) == Cardinality({c \in Channels : s[c]})

LEMMA SizeIsNat ==
  ASSUME NEW s
  PROVE  Size(s) \in Nat /\ Size(s) <= Cardinality(Channels)
<1>1. {c \in Channels : s[c]} \in SUBSET Channels
  OBVIOUS
<1>2. IsFiniteSet({c \in Channels : s[c]}) /\ Size(s) <= Cardinality(Channels)
  BY <1>1, TableIsFinite, FS_Subset DEF Size
<1>3. QED
  BY <1>2, FS_CardinalityType DEF Size

LEMMA OneTakenOut ==
  ASSUME NEW s \in [Channels -> BOOLEAN], NEW c \in Channels
  PROVE  Size([s EXCEPT ![c] = FALSE]) = IF s[c] THEN Size(s) - 1 ELSE Size(s)
<1> DEFINE S == {d \in Channels : s[d]}
<1>1. IsFiniteSet(S)
  <2>1. S \in SUBSET Channels
    OBVIOUS
  <2>2. QED
    BY <2>1, TableIsFinite, FS_Subset
<1>2. {d \in Channels : [s EXCEPT ![c] = FALSE][d]} = S \ {c}
  OBVIOUS
<1>3. Cardinality(S \ {c}) = IF c \in S THEN Cardinality(S) - 1 ELSE Cardinality(S)
  <2> HIDE DEF S
  <2> QED
    BY <1>1, FS_RemoveElement, Zenon
<1>4. QED
  BY <1>2, <1>3, Zenon DEF Size

(* The steps a call can still take from a place, with n channels in the table:
   one round of OnClosing takes three. *)
StepsFrom(place, n) ==
  CASE place = "drop" -> 3 * n + 9
    [] place = "dropping" -> 3 * n + 8
    [] place = "clearing" -> 3 * n + 7
    [] place = "scan" -> 3 * n + 6
    [] place = "close" -> 3 * n + 5
    [] place = "edit" -> 3 * n + 4
    [] place = "sweep" -> 3 * n + 3
    [] place = "closing" -> 3 * n + 2
    [] place = "clear" -> 3 * n + 1
    [] place = "agree" -> 2
    [] place = "notify" -> 1
    [] OTHER -> 0

(* The steps from one place to the next that leave the table alone. *)
KeepingTable ==
  {<<"drop", "dropping">>, <<"drop", "scan">>, <<"dropping", "clearing">>,
   <<"scan", "idle">>, <<"scan", "close">>, <<"close", "idle">>, <<"close", "edit">>,
   <<"edit", "sweep">>, <<"sweep", "closing">>, <<"closing", "clear">>,
   <<"sweep", "agree">>, <<"agree", "notify">>, <<"notify", "idle">>}

StepsLeft(g) == StepsFrom(spc[g], Size(slot))

LEMMA StepsFromBounded ==
  ASSUME NEW place, NEW n \in Nat, NEW m \in Nat, n <= m
  PROVE  StepsFrom(place, n) \in 0 .. 3 * m + 9
<1>1. StepsFrom(place, n) \in Nat /\ StepsFrom(place, n) <= 3 * n + 9
  BY DEF StepsFrom
<1>2. QED
  BY <1>1

LEMMA PlacesCountDown ==
  ASSUME NEW n \in Nat, NEW from, NEW to, <<from, to>> \in KeepingTable
  PROVE  StepsFrom(to, n) < StepsFrom(from, n)
  BY DEF StepsFrom, KeepingTable

(* The channel that is being taken out is still in the table. *)
TargetInTable ==
  \A g \in Goroutines :
    spc[g] \in {"dropping", "clearing", "closing", "clear"} => slot[target[g]]

(* No step of another goroutine adds to what a call has left to do, and each
   step of its own takes some of it away. *)
CountsDown ==
  \A g \in Goroutines : spc[g] # "idle" =>
    /\ StepsLeft(g)' <= StepsLeft(g)
    /\ spc'[g] # spc[g] => StepsLeft(g)' < StepsLeft(g)

(* What the shutdown of a goroutine g may do to its place and to the table. *)
Advances(g) ==
  \/ slot' = slot /\ <<spc[g], spc'[g]>> \in KeepingTable
  \/ /\ <<spc[g], spc'[g]>> \in {<<"clearing", "scan">>, <<"clear", "sweep">>}
     /\ slot' = [slot EXCEPT ![target[g]] = FALSE]

LEMMA StepsAdvance ==
  ASSUME ShutdownInv, NEW g \in Goroutines, LockStep(g) \/ RunStep(g)
  PROVE  Advances(g) /\ \A h \in Goroutines \ {g} : spc'[h] = spc[h] /\ target'[h] = target[h]
<1> USE DEF ShutdownInv, ShutdownTypes, Goes, KeepingTable
<1>1. CASE LockStep(g)
  BY <1>1 DEF LockStep, DropBegin, DropNothing, CloseAgain, CloseEnter, OnClosingLock, Advances
<1>2. CASE DropEnd(g) \/ Scan(g) \/ SetClosed(g) \/ OnClosed(g)
  BY <1>2 DEF DropEnd, Scan, SetClosed, OnClosed, Advances
<1>3. CASE SweepBegin(g) \/ SweepEnd(g) \/ OnClosingDone(g)
  BY <1>3 DEF SweepBegin, SweepEnd, OnClosingDone, Advances
<1>4. CASE DropClear(g) \/ SweepClear(g)
  BY <1>4 DEF DropClear, SweepClear, Advances
<1>5. QED
  BY <1>1, <1>2, <1>3, <1>4 DEF RunStep

LEMMA InitTarget == Init => TargetInTable
  BY DEF Init, TargetInTable

LEMMA TargetInTableKept == TargetInTable /\ ShutdownInv /\ [Next]_vars => TargetInTable'
<1> SUFFICES ASSUME TargetInTable, ShutdownInv, [Next]_vars PROVE TargetInTable'
  OBVIOUS
<1> DEFINE Busy == {"dropping", "clearing", "closing", "clear"}
<1> USE DEF TargetInTable, ShutdownInv, ShutdownTypes
<1>1. ASSUME NEW g \in Goroutines, LockStep(g) \/ RunStep(g) PROVE TargetInTable'
  <2>1. ASSUME NEW h \in Goroutines \ {g}, spc'[h] \in Busy PROVE slot'[target'[h]]
    <3>1. editLock = h /\ slot[target[h]]
      BY <1>1, <2>1, StepsAdvance DEF LocksMatchPlaces, EditPlaces
    <3>2. slot' = slot
      BY <1>1, <2>1, <3>1, StepsAdvance DEF Advances, LocksMatchPlaces, EditPlaces
    <3>3. QED
      BY <1>1, <2>1, <3>1, <3>2, StepsAdvance
  <2>2. ASSUME spc'[g] \in Busy PROVE slot'[target'[g]]
    <3>1. DropBegin(g) \/ DropEnd(g) \/ SweepBegin(g) \/ SweepEnd(g)
      BY <1>1, <2>2 DEF LockStep, RunStep, DropNothing, CloseAgain, CloseEnter, OnClosingLock,
         DropClear, Scan, SweepClear, OnClosingDone, SetClosed, OnClosed, Goes
    <3>2. QED
      BY <2>2, <3>1 DEF DropBegin, DropEnd, SweepBegin, SweepEnd, Goes
  <2>3. QED
    BY <2>1, <2>2
<1>2. ASSUME NEW g \in Goroutines, Close(g) \/ (\E c \in Channels : CloseChannel(g, c))
      PROVE  TargetInTable'
  BY <1>2 DEF Close, CloseChannel, Goes
<1>3. ASSUME NEW c \in Channels, ReaderDisconnect(c) PROVE TargetInTable'
  <2>1. c \in Goroutines
    BY DEF Goroutines
  <2>2. QED
    BY <1>3, <2>1 DEF ReaderDisconnect, Goes
<1>4. CASE UNCHANGED socketVars
  BY <1>4 DEF socketVars
<1>5. ASSUME NEW c \in Channels, (ReaderRuns(c) /\ ~ReaderDisconnect(c)) \/ UserStep(c)
                                 \/ ((PeerStep(c) \/ Handoff(c)) /\ UNCHANGED socketVars)
      PROVE TargetInTable'
  BY <1>4, <1>5, UserStepsInert DEF ReaderRuns, Inert, shutdownVars, socketVars
<1>6. QED
  BY <1>1, <1>2, <1>3, <1>4, <1>5 DEF Next, vars

LEMMA RankOfPlace ==
  ASSUME NEW g \in Goroutines, ShutdownInv, TargetInTable, Advances(g)
  PROVE  /\ Size(slot') <= Size(slot)
         /\ StepsLeft(g)' < StepsLeft(g)
<1>1. CASE slot' = slot /\ <<spc[g], spc'[g]>> \in KeepingTable
  <2>1. Size(slot) \in Nat /\ Size(slot') = Size(slot)
    BY <1>1, SizeIsNat
  <2>2. QED
    BY <1>1, <2>1, PlacesCountDown DEF StepsLeft
<1>2. CASE /\ <<spc[g], spc'[g]>> \in {<<"clearing", "scan">>, <<"clear", "sweep">>}
           /\ slot' = [slot EXCEPT ![target[g]] = FALSE]
  <2>1. slot[target[g]] /\ target[g] \in Channels /\ slot \in [Channels -> BOOLEAN]
    BY <1>2 DEF TargetInTable, ShutdownInv, ShutdownTypes
  <2>2. Size(slot') = Size(slot) - 1
    BY <1>2, <2>1, OneTakenOut
  <2>3. Size(slot) \in Nat /\ Size(slot') \in Nat
    BY SizeIsNat
  <2>4. QED
    BY <1>2, <2>2, <2>3 DEF StepsLeft, StepsFrom
<1>3. QED
  BY <1>1, <1>2 DEF Advances

LEMMA NoneAdds ==
  ASSUME ShutdownInv, NEW h \in Goroutines, spc'[h] = spc[h], Size(slot') <= Size(slot)
  PROVE  StepsLeft(h)' <= StepsLeft(h)
  BY SizeIsNat DEF StepsLeft, StepsFrom, ShutdownInv, ShutdownTypes

LEMMA NextCountsDown ==
  TargetInTable /\ ShutdownInv /\ [Next]_vars => CountsDown
<1> SUFFICES ASSUME TargetInTable, ShutdownInv, [Next]_vars PROVE CountsDown
  OBVIOUS
<1> USE DEF CountsDown
<1>1. ASSUME NEW g \in Goroutines, LockStep(g) \/ RunStep(g) PROVE CountsDown
  BY <1>1, StepsAdvance, RankOfPlace, NoneAdds, SizeIsNat DEF StepsLeft, StepsFrom
<1>2. ASSUME slot' = slot, \A h \in Goroutines : spc[h] # "idle" => spc'[h] = spc[h]
      PROVE  CountsDown
  BY <1>2, NoneAdds, SizeIsNat
<1>3. ASSUME NEW g \in Goroutines, Close(g) \/ (\E c \in Channels : CloseChannel(g, c))
      PROVE  CountsDown
  BY <1>2, <1>3 DEF Close, CloseChannel, Goes, ShutdownInv, ShutdownTypes
<1>4. ASSUME NEW c \in Channels, ReaderDisconnect(c) PROVE CountsDown
  <2>1. c \in Goroutines
    BY DEF Goroutines
  <2>2. QED
    BY <1>2, <1>4, <2>1 DEF ReaderDisconnect, Goes, ShutdownInv, ShutdownTypes
<1>5. CASE UNCHANGED socketVars
  BY <1>2, <1>5 DEF socketVars
<1>6. ASSUME NEW c \in Channels, (ReaderRuns(c) /\ ~ReaderDisconnect(c)) \/ UserStep(c)
                                 \/ ((PeerStep(c) \/ Handoff(c)) /\ UNCHANGED socketVars)
      PROVE CountsDown
  BY <1>5, <1>6, UserStepsInert DEF ReaderRuns, Inert, shutdownVars, socketVars
<1>7. QED
  BY <1>1, <1>3, <1>4, <1>5, <1>6 DEF Next, vars

(* socket.go:113-178, channel.go:66-91: Close, CloseChannel and the
   OnDisconnect of a reader return after a bounded number of steps of their
   own, at most three for each channel of the table and nine, whatever the
   others do meanwhile: no step of another goroutine sends a call back. *)
THEOREM CallsCountDown ==
  Spec => /\ [][CountsDown]_vars
          /\ [](\A g \in Goroutines : StepsLeft(g) \in 0 .. 3 * Cardinality(Channels) + 9)
<1>1. TargetInTable /\ ShutdownInv /\ [Next]_vars => [CountsDown]_vars
  BY NextCountsDown
<1>2. ASSUME NEW g \in Goroutines PROVE StepsLeft(g) \in 0 .. 3 * Cardinality(Channels) + 9
  <2>1. Cardinality(Channels) \in Nat
    BY TableIsFinite, FS_CardinalityType
  <2>2. Size(slot) \in Nat /\ Size(slot) <= Cardinality(Channels)
    BY SizeIsNat
  <2>3. QED
    BY <2>1, <2>2, StepsFromBounded DEF StepsLeft
<1>3. \A g \in Goroutines : StepsLeft(g) \in 0 .. 3 * Cardinality(Channels) + 9
  BY <1>2
<1>4. QED
  BY <1>1, <1>3, InitTarget, TargetInTableKept, ShutdownInvariance, PTL DEF Spec

(* What CloseableObjectProofs proves of the protocol holds of the shutdown. *)
Closes == INSTANCE CloseableObjectProofs WITH
  Callers <- Goroutines,
  isClosed <- sockClosed,
  handler <- TRUE,
  closedRuns <- notified,
  pc <- [g \in Goroutines |->
           CASE spc[g] = "close" -> "waiting"
             [] spc[g] \in {"edit", "sweep", "closing", "clear", "agree"} -> "closing"
             [] spc[g] = "notify" -> "notifying"
             [] OTHER -> "idle"]

(* Who comes out of Close finds the socket closed and the application told. *)
ReturnsTold ==
  \A g \in Goroutines :
    spc[g] \in ClosePlaces /\ spc'[g] = "idle" => sockClosed' /\ notified' = 1

(* dispose.go:32-52, socket.go:113-146: a second Close, of another goroutine
   or of a reader, returns only after the first one's OnDisconnect; no caller
   is back while the table is still being emptied. *)
THEOREM SocketCloseReturnsTold == Spec => [][ReturnsTold]_vars
<1>1. Protocol!Init => Closes!IInv
  <2>1. Protocol!Init => Closes!Init
    BY DEF Protocol!Init, Closes!Init
  <2>2. QED
    BY <2>1, GoroutinesDiffer, Closes!InitIInv
<1>2. Closes!IInv /\ [Protocol!Next]_(Protocol!vars) => Closes!IInv'
  <2>1. [Protocol!Next]_(Protocol!vars) => [Closes!Next]_(Closes!vars)
    BY DEF Protocol!Next, Closes!Next, Protocol!vars, Closes!vars, Protocol!SetOnCloseHandler,
       Closes!SetOnCloseHandler, Protocol!Call, Closes!Call, Protocol!Step, Closes!Step,
       Protocol!Skip, Closes!Skip, Protocol!Begin, Closes!Begin, Protocol!Agree, Closes!Agree,
       Protocol!Refuse, Closes!Refuse, Protocol!Finish, Closes!Finish
  <2>2. QED
    BY <2>1, GoroutinesDiffer, Closes!NextIInv
<1>3. ShutdownInv /\ Closes!IInv' /\ [Next]_vars => [ReturnsTold]_vars
  <2> SUFFICES ASSUME ShutdownInv, Closes!IInv', Next PROVE ReturnsTold
    OBVIOUS
  <2> SUFFICES ASSUME NEW g \in Goroutines, spc[g] \in ClosePlaces, spc'[g] = "idle"
               PROVE  sockClosed' /\ notified' = 1
    BY DEF ReturnsTold
  <2>1. LockStep(g) \/ RunStep(g)
    <3>1. spc'[g] # spc[g] /\ spc[g] # "idle"
      BY DEF ClosePlaces
    <3>2. ASSUME NEW h \in Goroutines \ {g}, LockStep(h) \/ RunStep(h) PROVE FALSE
      BY <3>1, <3>2, StepsAdvance
    <3>3. ASSUME NEW h \in Goroutines, Close(h) \/ (\E c \in Channels : CloseChannel(h, c))
          PROVE FALSE
      BY <3>1, <3>3 DEF Close, CloseChannel, Goes, ShutdownInv, ShutdownTypes
    <3>4. ASSUME NEW c \in Channels, ReaderDisconnect(c) PROVE FALSE
      BY <3>1, <3>4 DEF ReaderDisconnect, Goes, ShutdownInv, ShutdownTypes, Goroutines
    <3>5. ASSUME NEW c \in Channels, (ReaderRuns(c) /\ ~ReaderDisconnect(c)) \/ UserStep(c)
                                     \/ ((PeerStep(c) \/ Handoff(c)) /\ UNCHANGED socketVars)
          PROVE FALSE
      BY <3>1, <3>5, UserStepsInert DEF ReaderRuns, Inert, shutdownVars, socketVars
    <3>6. QED
      BY <3>2, <3>3, <3>4, <3>5 DEF Next
  <2>2. CloseAgain(g) \/ OnClosed(g)
    BY <2>1 DEF LockStep, RunStep, DropBegin, DropNothing, DropEnd, DropClear, Scan, CloseEnter,
       OnClosingLock, SweepBegin, SweepEnd, SweepClear, OnClosingDone, SetClosed, Goes, ClosePlaces,
       ShutdownInv, ShutdownTypes
  <2>3. sockClosed' /\ closeLock' = NoOne
    BY <2>2 DEF CloseAgain, OnClosed, ShutdownInv, ClosedMatchesPlaces, Goes
  <2>4. QED
    BY <2>3 DEF Closes!IInv, Closes!ClosedRunsMatch
<1>4. QED
  BY <1>1, <1>2, <1>3, SocketImplementsProtocol, ShutdownInvariance, PTL
  DEF Spec, ImplementsProtocol, Protocol!Spec

===============================================================================
