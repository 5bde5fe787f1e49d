-------------------------------- MODULE Socket --------------------------------
(***************************************************************************)
(* framework/network/socket.go: the socket that owns the StreamChannels of *)
(* one connection and the shutdown between the goroutines that share it:   *)
(*                                                                         *)
(*   - the reader of each channel, which on its way out removes its channel*)
(*     from the table (OnDisconnect) and closes the socket when it finds no*)
(*     live channel left;                                                  *)
(*   - Closers, which call Close (ClientClose, ServerSocketClose, ...);    *)
(*   - Droppers, which close single channels and then the socket when the  *)
(*     table is empty (exports ClientChannelClose).                        *)
(*                                                                         *)
(* Two mutexes: closeLock is held by Close from OnClosing to the end of    *)
(* OnClosed, channelEditLock over each edit of the table and, inside the   *)
(* lock, over the 100ms wait of StreamChannel.Close.  Users of the socket  *)
(* read the table without a lock.                                          *)
(***************************************************************************)
EXTENDS StreamChannel, FiniteSets

CONSTANTS Closers, Droppers,
          NoOne  \* a mutex nobody holds

Goroutines == Channels \cup Closers \cup Droppers  \* a reader is named by its channel

ASSUME GoroutinesDiffer ==
  /\ Channels \cap (Closers \cup Droppers) = {} /\ Closers \cap Droppers = {}
  /\ NoOne \notin Goroutines
ASSUME SocketHasAChannel == 0 \in Channels  \* the client asks for at least one
ASSUME TableIsFinite == IsFiniteSet(Channels)  \* it is a slice of a given length

VARIABLES
  slot,       \* StreamChannels[c] # nil
  sockClosed, \* IsClosed
  closeLock, editLock, \* the goroutine holding closeLock, channelEditLock
  spc,        \* where each goroutine is in the shutdown
  target,     \* the channel each goroutine is closing
  notified    \* how many times OnDisconnect has been called (history)

socketVars == <<slot, sockClosed, closeLock, editLock, spc, target, notified>>
vars == <<channelVars, socketVars>>

DropPlaces  == {"drop", "dropping", "clearing", "scan"}
ClosePlaces == {"close", "edit", "sweep", "closing", "clear", "agree", "notify"}

Init ==
  /\ ChannelInit
  /\ slot = [c \in Channels |-> TRUE]
  /\ sockClosed = FALSE
  /\ closeLock = NoOne /\ editLock = NoOne
  /\ spc = [g \in Goroutines |-> "idle"]
  /\ target = [g \in Goroutines |-> 0]
  /\ notified = 0

Goes(g, from, to) == spc[g] = from /\ spc' = [spc EXCEPT ![g] = to]

Live == \E c \in Channels : slot[c]

-------------------------------------------------------------------------------
(* Removing one channel: CloseChannel, and OnDisconnect of a channel.      *)

(* Mutant: the channel's number is counted from 1. *)
ReaderDisconnectOffByOne(c) ==
  /\ ReaderGoes(c, "callback", "gone")
  /\ IF sockClosed THEN UNCHANGED <<spc, target>>
     ELSE Goes(c, "idle", "drop") /\ target' = [target EXCEPT ![c] = c + 1]
  /\ UNCHANGED <<peerVars, inHand, done, streamSet, closeVars, bufferVars, consumerVars, wpc,
                 panic, slot, sockClosed, closeLock, editLock, notified>>

(* The end of a reader's deferred function. *)
ReaderDisconnect(c) ==
  /\ ReaderGoes(c, "callback", "gone")
  /\ IF sockClosed THEN UNCHANGED <<spc, target>>
     ELSE Goes(c, "idle", "drop") /\ target' = [target EXCEPT ![c] = c]
  /\ UNCHANGED <<peerVars, inHand, done, streamSet, closeVars, bufferVars, consumerVars, wpc,
                 panic, slot, sockClosed, closeLock, editLock, notified>>

CloseChannel(g, c) ==
  /\ g \in Droppers /\ Goes(g, "idle", "drop")
  /\ target' = [target EXCEPT ![g] = c]
  /\ UNCHANGED <<channelVars, slot, sockClosed, closeLock, editLock, notified>>

(* channelEditLock taken: StreamChannel.Close starts. *)
DropBegin(g) ==
  /\ editLock = NoOne /\ slot[target[g]] /\ Goes(g, "drop", "dropping")
  /\ editLock' = g
  /\ CloseBegin(target[g])
  /\ UNCHANGED <<slot, sockClosed, closeLock, target, notified>>

(* channelEditLock taken and released: the channel is gone already. *)
DropNothing(g) ==
  /\ editLock = NoOne /\ ~slot[target[g]] /\ Goes(g, "drop", "scan")
  /\ UNCHANGED <<channelVars, slot, sockClosed, closeLock, editLock, target, notified>>

DropEnd(g) ==
  /\ Goes(g, "dropping", "clearing")
  /\ CloseEnd(target[g])
  /\ UNCHANGED <<slot, sockClosed, closeLock, editLock, target, notified>>

(* Mutant: the closed channel stays in the table. *)
DropAndKeepSlot(g) ==
  /\ Goes(g, "clearing", "scan")
  /\ editLock' = NoOne
  /\ UNCHANGED <<channelVars, slot, sockClosed, closeLock, target, notified>>

(* Mutant: nobody looks whether that was the last channel. *)
DropWithoutScan(g) ==
  /\ Goes(g, "clearing", "idle")
  /\ slot' = [slot EXCEPT ![target[g]] = FALSE]
  /\ editLock' = NoOne
  /\ UNCHANGED <<channelVars, sockClosed, closeLock, target, notified>>

DropClear(g) ==
  /\ Goes(g, "clearing", "scan")
  /\ slot' = [slot EXCEPT ![target[g]] = FALSE]
  /\ editLock' = NoOne
  /\ UNCHANGED <<channelVars, sockClosed, closeLock, target, notified>>

(* The table is read without a lock.  OnDisconnect counts only channels that
   are not closed, ClientChannelClose every channel that is there. *)
Scan(g) ==
  /\ LET counts(c) == slot[c] /\ (g \in Channels => ~isClosed[c])
     IN Goes(g, "scan", IF \E c \in Channels : counts(c) THEN "idle" ELSE "close")
  /\ UNCHANGED <<channelVars, slot, sockClosed, closeLock, editLock, target, notified>>

-------------------------------------------------------------------------------
(* Close, with OnClosing and OnClosed.                                     *)

Close(g) ==
  /\ g \in Closers /\ Goes(g, "idle", "close")
  /\ UNCHANGED <<channelVars, slot, sockClosed, closeLock, editLock, target, notified>>

(* Mutant: IsClosed is read before closeLock is taken. *)
CloseAgainEarly(g) ==
  /\ sockClosed /\ Goes(g, "close", "idle")
  /\ UNCHANGED <<channelVars, slot, sockClosed, closeLock, editLock, target, notified>>

CloseAgain(g) ==
  /\ closeLock = NoOne /\ sockClosed /\ Goes(g, "close", "idle")
  /\ UNCHANGED <<channelVars, slot, sockClosed, closeLock, editLock, target, notified>>

(* Mutant: Close without closeLock. *)
CloseEnterUnlocked(g) ==
  /\ ~sockClosed /\ Goes(g, "close", "edit")
  /\ UNCHANGED <<channelVars, slot, sockClosed, closeLock, editLock, target, notified>>

CloseEnter(g) ==
  /\ closeLock = NoOne /\ ~sockClosed /\ Goes(g, "close", "edit")
  /\ closeLock' = g
  /\ UNCHANGED <<channelVars, slot, sockClosed, editLock, target, notified>>

(* Mutant: OnClosing edits the table without channelEditLock. *)
OnClosingUnlocked(g) ==
  /\ Goes(g, "edit", "sweep")
  /\ UNCHANGED <<channelVars, slot, sockClosed, closeLock, editLock, target, notified>>

OnClosingLock(g) ==
  /\ editLock = NoOne /\ Goes(g, "edit", "sweep")
  /\ editLock' = g
  /\ UNCHANGED <<channelVars, slot, sockClosed, closeLock, target, notified>>

(* The channels are closed one after the other in index order. *)
SweepBegin(g) ==
  \E c \in Channels :
    /\ slot[c] /\ \A d \in Channels : slot[d] => c <= d
    /\ Goes(g, "sweep", "closing")
    /\ target' = [target EXCEPT ![g] = c]
    /\ CloseBegin(c)
    /\ UNCHANGED <<slot, sockClosed, closeLock, editLock, notified>>

SweepEnd(g) ==
  /\ Goes(g, "closing", "clear")
  /\ CloseEnd(target[g])
  /\ UNCHANGED <<slot, sockClosed, closeLock, editLock, target, notified>>

SweepClear(g) ==
  /\ Goes(g, "clear", "sweep")
  /\ slot' = [slot EXCEPT ![target[g]] = FALSE]
  /\ UNCHANGED <<channelVars, sockClosed, closeLock, editLock, target, notified>>

(* The table is emptied and the connection closed, which ends every stream. *)
OnClosingDone(g) ==
  /\ ~Live /\ Goes(g, "sweep", "agree")
  /\ quic' = [c \in Channels |-> "dead"]
  /\ editLock' = NoOne
  /\ UNCHANGED <<wire, sent, readerVars, streamSet, closeVars, bufferVars, consumerVars, wpc,
                 panic, slot, sockClosed, closeLock, target, notified>>

(* Mutant: IsClosed is left to OnClosed, which does not set it. *)
SetClosedForgotten(g) ==
  /\ Goes(g, "agree", "notify")
  /\ UNCHANGED <<channelVars, slot, sockClosed, closeLock, editLock, target, notified>>

SetClosed(g) ==
  /\ Goes(g, "agree", "notify")
  /\ sockClosed' = TRUE
  /\ UNCHANGED <<channelVars, slot, closeLock, editLock, target, notified>>

(* Mutant: Unlock is missing when OnDisconnect is set. *)
OnClosedLocked(g) ==
  /\ Goes(g, "notify", "idle")
  /\ notified' = notified + 1
  /\ UNCHANGED <<channelVars, slot, sockClosed, closeLock, editLock, target>>

(* OnClosed calls the application's OnDisconnect, then closeLock is free. *)
OnClosed(g) ==
  /\ Goes(g, "notify", "idle")
  /\ notified' = notified + 1
  /\ closeLock' = NoOne
  /\ UNCHANGED <<channelVars, slot, sockClosed, editLock, target>>

-------------------------------------------------------------------------------
(* The socket's users.  Each checks the table and then indexes it again:   *)
(* a slot that is nil, or a table emptied, by then is a panic.             *)

NilSlot == panic' = "slot"

(* OnClosing has replaced the table by one of no channels. *)
TableEmpty == sockClosed \/ \E g \in Goroutines : spc[g] = "agree"

HandleChannelStream(c) ==
  /\ IF slot[c] THEN ReaderGoes(c, "off", "attach") /\ UNCHANGED panic
                ELSE rpc[c] = "off" /\ NilSlot /\ UNCHANGED rpc
  /\ UNCHANGED <<peerVars, inHand, done, streamSet, closeVars, bufferVars, consumerVars, wpc,
                 socketVars>>

ReceiveCheck(c) ==
  /\ c \in Consumers /\ slot[c] /\ ConsumerGoes(c, "idle", "slot")
  /\ UNCHANGED <<peerVars, readerVars, streamSet, closeVars, bufferVars, got, delivered, wpc,
                 panic, socketVars>>

ReceiveSlot(c) ==
  /\ IF slot[c] THEN ConsumerGoes(c, "slot", "call") /\ UNCHANGED panic
                ELSE cpc[c] = "slot" /\ NilSlot /\ UNCHANGED cpc
  /\ UNCHANGED <<peerVars, readerVars, streamSet, closeVars, bufferVars, got, delivered, wpc,
                 socketVars>>

(* ClientChannelReceive looks at the socket again after the wait, *)
ReceiveRecheck(c) ==
  /\ ConsumerGoes(c, "have", IF sockClosed \/ ~slot[c] THEN "idle" ELSE "index")
  /\ UNCHANGED <<peerVars, readerVars, streamSet, closeVars, bufferVars, got, delivered, wpc,
                 panic, socketVars>>

(* and indexes the table once more: a slot that is nil now ends the call, but
   a table that is empty now the process. *)
ReceiveIndex(c) ==
  /\ IF TableEmpty THEN cpc[c] = "index" /\ NilSlot /\ UNCHANGED cpc
                   ELSE /\ ConsumerGoes(c, "index", IF slot[c] THEN "take" ELSE "idle")
                        /\ UNCHANGED panic
  /\ UNCHANGED <<peerVars, readerVars, streamSet, closeVars, bufferVars, got, delivered, wpc,
                 socketVars>>

(* ServerSocketChannelReceive looks only whether the socket is closed or its
   table emptied, and then uses the channel and its Buffer. *)
ReceiveGoesOn(c) ==
  /\ ConsumerGoes(c, "have", IF sockClosed \/ TableEmpty THEN "idle" ELSE "use")
  /\ UNCHANGED <<peerVars, readerVars, streamSet, closeVars, bufferVars, got, delivered, wpc,
                 panic, socketVars>>

UseNothing(c) ==
  /\ cpc[c] = "use" /\ (~slot[c] \/ buffer[c] = Nothing)
  /\ panic' = "buffer"
  /\ UNCHANGED <<peerVars, readerVars, streamSet, closeVars, bufferVars, consumerVars, wpc,
                 socketVars>>

UseBuffer(c) ==
  /\ slot[c] /\ buffer[c] # Nothing
  /\ PartTaken(c, "use") \/ Taken(c, "use")
  /\ UNCHANGED socketVars

ReceiveEnds(c) ==
  ReceiveRecheck(c) \/ ReceiveIndex(c) \/ ReceiveGoesOn(c) \/ UseNothing(c) \/ UseBuffer(c)

SendSlotCheck(c) ==
  /\ c \in Senders /\ ~sockClosed /\ slot[c] /\ SenderGoes(c, "idle", "slot")
  /\ UNCHANGED <<peerVars, readerVars, streamSet, closeVars, bufferVars, consumerVars, panic,
                 socketVars>>

SendSlot(c) ==
  /\ IF slot[c] THEN SenderGoes(c, "slot", "call") /\ UNCHANGED panic
                ELSE wpc[c] = "slot" /\ NilSlot /\ UNCHANGED wpc
  /\ UNCHANGED <<peerVars, readerVars, streamSet, closeVars, bufferVars, consumerVars,
                 socketVars>>

-------------------------------------------------------------------------------

(* A goroutine that waits for one of the two mutexes, and one that runs. *)
LockStep(g) ==
  DropBegin(g) \/ DropNothing(g) \/ CloseAgain(g) \/ CloseEnter(g) \/ OnClosingLock(g)

RunStep(g) ==
  \/ DropEnd(g) \/ DropClear(g) \/ Scan(g) \/ SweepBegin(g) \/ SweepEnd(g)
  \/ SweepClear(g) \/ OnClosingDone(g) \/ SetClosed(g) \/ OnClosed(g)

UserStep(c) ==
  \/ ReceiveCheck(c) \/ ReceiveSlot(c) \/ ReceiveEnds(c) \/ SendSlotCheck(c) \/ SendSlot(c)
  \/ ((ConsumerStep(c) \/ SenderStep(c)) /\ UNCHANGED socketVars)

ReaderRuns(c) ==
  \/ HandleChannelStream(c) \/ ReaderDisconnect(c)
  \/ (ReaderStep(c) /\ UNCHANGED socketVars)

Next ==
  /\ panic = "none"
  /\ \/ \E g \in Goroutines : LockStep(g) \/ RunStep(g) \/ Close(g)
     \/ \E g \in Goroutines, c \in Channels : CloseChannel(g, c)
     \/ \E c \in Channels : ReaderRuns(c) \/ UserStep(c)
     \/ \E c \in Channels : (PeerStep(c) \/ Handoff(c)) /\ UNCHANGED socketVars

Spec == Init /\ [][Next]_vars

(* Go's scheduler runs every goroutine that can run, and a mutex in
   starvation mode is handed to the longest waiter.  Nobody has to call
   Close, Receive or Send, and nothing is assumed of the peer. *)
Fairness ==
  /\ \A g \in Goroutines : /\ WF_vars(panic = "none" /\ RunStep(g))
                           /\ SF_vars(panic = "none" /\ LockStep(g))
  /\ \A c \in Channels : /\ WF_vars(panic = "none" /\ ReaderRuns(c))
                         /\ WF_vars(panic = "none" /\ Handoff(c) /\ UNCHANGED socketVars)
  /\ \A c \in Consumers :
       WF_vars(panic = "none" /\ (\/ ReceiveSlot(c) \/ ReceiveEnds(c)
                                  \/ (ConsumerStep(c) /\ UNCHANGED socketVars)))

FairSpec == Spec /\ Fairness

-------------------------------------------------------------------------------

TypeOK ==
  /\ ChannelTypeOK
  /\ slot \in [Channels -> BOOLEAN]
  /\ sockClosed \in BOOLEAN
  /\ closeLock \in Goroutines \cup {NoOne}
  /\ editLock \in Goroutines \cup {NoOne}
  /\ spc \in [Goroutines -> {"idle"} \cup DropPlaces \cup ClosePlaces]
  /\ target \in [Goroutines -> Channels]
  /\ notified \in Nat

(* socket.go:113-178: a channel leaves the table only closed, and while it
   is in the table it is open unless the holder of channelEditLock is just
   removing it; so no channel is left running out of reach, and no user is
   handed a closed one for longer than that. *)
TableMatchesChannels ==
  \A c \in Channels :
    /\ ~slot[c] => isClosed[c]
    /\ slot[c] /\ isClosed[c] =>
         \E g \in Goroutines : /\ editLock = g /\ target[g] = c
                               /\ spc[g] \in {"clearing", "clear"}

(* StreamChannel.Close is never entered by two goroutines, although readers,
   droppers and closers all call it and a second caller of the same socket
   Close does not wait for it on the channel's own lock. *)
OneCloserPerChannel ==
  \A c \in Channels : closing[c] =>
    \E g \in Goroutines : /\ editLock = g /\ target[g] = c
                          /\ spc[g] \in {"dropping", "closing"}

(* socket.go:141: the application hears of the disconnect once, however many
   goroutines find the last channel gone, and by then everything is closed:
   no table entry, no open channel, no stream that still delivers. *)
NotifiedOnce ==
  /\ notified <= 1
  /\ notified = 1 => /\ sockClosed
                     /\ \A c \in Channels : ~slot[c] /\ isClosed[c] /\ quic[c] = "dead"

(* Two readers may both find the table empty, but the shutdown itself is run
   by one goroutine. *)
ShutdownExclusive ==
  \A g, h \in Goroutines :
    spc[g] \in ClosePlaces \ {"close"} /\ spc[h] \in ClosePlaces \ {"close"} => g = h

(* Once IsClosed is set no step puts a channel back, reopens the socket or
   notifies twice, and Close stays closed for whoever was waiting. *)
ClosedIsFinal ==
  [][sockClosed => /\ sockClosed' /\ slot' = slot
                   /\ \A c \in Channels : isClosed'[c]]_vars

(* Every Close and every CloseChannel returns: the bounded wait and the
   order of the two mutexes leave no goroutine waiting for ever, a reader
   that closes the socket from its own callback included. *)
CloseReturns ==
  \A g \in Goroutines : spc[g] # "idle" ~> spc[g] = "idle" \/ panic # "none"

(* changelog.md:39, the readers and droppers that remove channels each look
   for the last one: when all readers are gone and nobody is inside Close or
   CloseChannel, one of them has closed the socket and told the application. *)
AllGoneNotified ==
  (/\ panic = "none" /\ \A c \in Channels : rpc[c] = "gone"
   /\ \A g \in Goroutines : spc[g] = "idle") => notified = 1

(* The shutdown implements the close protocol of module CloseableObject:
   everything between closeLock and the assignment of IsClosed is OnClosing. *)
Protocol == INSTANCE CloseableObject WITH
  Callers <- Goroutines,
  isClosed <- sockClosed,
  handler <- TRUE,
  closedRuns <- notified,
  pc <- [g \in Goroutines |->
           CASE spc[g] = "close" -> "waiting"
             [] spc[g] \in {"edit", "sweep", "closing", "clear", "agree"} -> "closing"
             [] spc[g] = "notify" -> "notifying"
             [] OTHER -> "idle"]

ImplementsProtocol == Protocol!Spec

===============================================================================
