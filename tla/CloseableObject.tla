---------------------------- MODULE CloseableObject ----------------------------
(***************************************************************************)
(* framework/dispose.go: the close protocol that StreamChannel, Socket,    *)
(* Server, Client, ManagePlatform and the websocket client all embed.      *)
(*                                                                         *)
(* Close takes closeLock, and if the object is still open and a handler is *)
(* set it runs the handler's OnClosing; when that agrees, IsClosed becomes *)
(* true and OnClosed runs, still under the lock.  Go's mutex is not        *)
(* reentrant and the lock is held across both callbacks.                   *)
(*                                                                         *)
(* This is also the abstract specification that the detailed shutdown of   *)
(* module Socket implements.                                               *)
(***************************************************************************)
EXTENDS Naturals

CONSTANTS Callers,   \* goroutines that may call Close
          NoOne      \* the value of a mutex nobody holds

ASSUME NoOneIsNotACaller == NoOne \notin Callers

VARIABLES isClosed,  \* IsClosed
          closeLock, \* the goroutine that holds closeLock, or NoOne
          handler,   \* onCloseHandler # nil
          pc,        \* where each caller is in Close
          closedRuns \* how many times OnClosed has run to its end (history)

vars == <<isClosed, closeLock, handler, pc, closedRuns>>

Places == {"idle", "waiting", "closing", "notifying"}

Init ==
  /\ isClosed = FALSE
  /\ closeLock = NoOne
  /\ handler \in BOOLEAN
  /\ pc = [t \in Callers |-> "idle"]
  /\ closedRuns = 0

-------------------------------------------------------------------------------

(* Mutant: the handler is stored where a flag is expected. *)
SetHandlerMistyped == handler' = NoOne /\ UNCHANGED <<isClosed, closeLock, pc, closedRuns>>

(* The owner installs its handler; every constructor of the repository does
   so before the object is shared. *)
SetOnCloseHandler ==
  /\ handler' = TRUE
  /\ UNCHANGED <<isClosed, closeLock, pc, closedRuns>>

(* A goroutine calls Close and queues for the lock. *)
Call(t) ==
  /\ pc[t] = "idle"
  /\ pc' = [pc EXCEPT ![t] = "waiting"]
  /\ UNCHANGED <<isClosed, closeLock, handler, closedRuns>>

(* Lock acquired, nothing to do: closed before, or no handler. *)
Skip(t) ==
  /\ pc[t] = "waiting" /\ closeLock = NoOne
  /\ isClosed \/ ~handler
  /\ pc' = [pc EXCEPT ![t] = "idle"]
  /\ UNCHANGED <<isClosed, closeLock, handler, closedRuns>>

(* Mutant: IsClosed is not looked at. *)
BeginAgain(t) ==
  /\ pc[t] = "waiting" /\ closeLock = NoOne /\ handler
  /\ closeLock' = t
  /\ pc' = [pc EXCEPT ![t] = "closing"]
  /\ UNCHANGED <<isClosed, handler, closedRuns>>

(* Mutant: the lock protects the check of IsClosed only. *)
BeginUnlocked(t) ==
  /\ pc[t] = "waiting" /\ closeLock = NoOne
  /\ ~isClosed /\ handler
  /\ pc' = [pc EXCEPT ![t] = "closing"]
  /\ UNCHANGED <<isClosed, closeLock, handler, closedRuns>>

(* Lock acquired on an open object: OnClosing starts. *)
Begin(t) ==
  /\ pc[t] = "waiting" /\ closeLock = NoOne
  /\ ~isClosed /\ handler
  /\ closeLock' = t
  /\ pc' = [pc EXCEPT ![t] = "closing"]
  /\ UNCHANGED <<isClosed, handler, closedRuns>>

(* OnClosing returned true. *)
Agree(t) ==
  /\ pc[t] = "closing"
  /\ isClosed' = TRUE
  /\ pc' = [pc EXCEPT ![t] = "notifying"]
  /\ UNCHANGED <<closeLock, handler, closedRuns>>

(* OnClosing returned false: the object stays open and Close returns. *)
Refuse(t) ==
  /\ pc[t] = "closing"
  /\ closeLock' = NoOne
  /\ pc' = [pc EXCEPT ![t] = "idle"]
  /\ UNCHANGED <<isClosed, handler, closedRuns>>

(* Mutant: Unlock is missing on the way out. *)
FinishLocked(t) ==
  /\ pc[t] = "notifying"
  /\ closedRuns' = closedRuns + 1
  /\ pc' = [pc EXCEPT ![t] = "idle"]
  /\ UNCHANGED <<isClosed, closeLock, handler>>

(* OnClosed has run; the deferred Unlock follows. *)
Finish(t) ==
  /\ pc[t] = "notifying"
  /\ closedRuns' = closedRuns + 1
  /\ closeLock' = NoOne
  /\ pc' = [pc EXCEPT ![t] = "idle"]
  /\ UNCHANGED <<isClosed, handler>>

Step(t) == Skip(t) \/ Begin(t) \/ Agree(t) \/ Refuse(t) \/ Finish(t)

Next == SetOnCloseHandler \/ \E t \in Callers : Call(t) \/ Step(t)

Spec == Init /\ [][Next]_vars

-------------------------------------------------------------------------------

TypeOK ==
  /\ isClosed \in BOOLEAN
  /\ closeLock \in Callers \cup {NoOne}
  /\ handler \in BOOLEAN
  /\ pc \in [Callers -> Places]
  /\ closedRuns \in Nat

Holding == {"closing", "notifying"}

(* dispose.go:40, "prevent running several times": however many goroutines
   close the object, OnClosed runs once, and by the time the lock is free
   again on a closed object it has run. *)
ClosedOnce ==
  /\ closedRuns <= 1
  /\ isClosed /\ closeLock = NoOne => closedRuns = 1

(* The two callbacks of one object never overlap, and a callback in progress
   always owns the lock. *)
CallbacksExclusive ==
  \A t, u \in Callers : pc[t] \in Holding /\ pc[u] \in Holding => t = u

ClosedOrNoHandlerOrRefused(t) ==
  \/ isClosed' /\ closedRuns' = 1
  \/ ~handler
  \/ pc[t] = "closing"

(* dispose.go:12, "OnClosed ... only once the closing is complete": a call
   of Close that returns leaves the object closed unless there was no
   handler or OnClosing refused; in particular a second caller returns only
   after the first one's OnClosed. *)
ReturnMeansClosed ==
  [][\A t \in Callers :
       pc[t] # "idle" /\ pc'[t] = "idle" => ClosedOrNoHandlerOrRefused(t)]_vars

===============================================================================
