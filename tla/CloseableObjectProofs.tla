------------------------- MODULE CloseableObjectProofs -------------------------
(* Proofs about the close protocol, for any number of callers. *)
EXTENDS CloseableObject, TLAPS

(* The lock is held exactly inside the callbacks, OnClosed's half of the
   critical section is entered with IsClosed set, and OnClosed is counted
   when it ends. *)
LockMatchesPlaces ==
  \A t \in Callers : pc[t] \in Holding <=> closeLock = t

ClosedRunsMatch ==
  /\ closedRuns \in {0, 1}
  /\ ~isClosed => closedRuns = 0
  /\ \A t \in Callers : /\ pc[t] = "closing" => ~isClosed
                        /\ pc[t] = "notifying" => isClosed /\ closedRuns = 0
  /\ isClosed /\ closeLock = NoOne => closedRuns = 1

IInv == TypeOK /\ LockMatchesPlaces /\ ClosedRunsMatch

LEMMA InitIInv == Init => IInv
<1> SUFFICES ASSUME Init PROVE IInv
  OBVIOUS
<1>1. TypeOK
  BY DEF Init, TypeOK, Places
<1>2. LockMatchesPlaces
  BY NoOneIsNotACaller DEF Init, LockMatchesPlaces, Holding
<1>3. ClosedRunsMatch
  BY DEF Init, ClosedRunsMatch
<1>4. QED
  BY <1>1, <1>2, <1>3 DEF IInv

LEMMA NextIInv == IInv /\ [Next]_vars => IInv'
<1> SUFFICES ASSUME IInv, [Next]_vars PROVE IInv'
  OBVIOUS
<1> USE NoOneIsNotACaller DEF IInv, TypeOK, Places, LockMatchesPlaces, ClosedRunsMatch, Holding
<1>1. CASE SetOnCloseHandler
  BY <1>1 DEF SetOnCloseHandler
<1>2. ASSUME NEW t \in Callers, Call(t) PROVE IInv'
  BY <1>2 DEF Call
<1>3. ASSUME NEW t \in Callers, Skip(t) PROVE IInv'
  BY <1>3 DEF Skip
<1>4. ASSUME NEW t \in Callers, Begin(t) PROVE IInv'
  BY <1>4 DEF Begin
<1>5. ASSUME NEW t \in Callers, Agree(t) PROVE IInv'
  BY <1>5 DEF Agree
<1>6. ASSUME NEW t \in Callers, Refuse(t) PROVE IInv'
  BY <1>6 DEF Refuse
<1>7. ASSUME NEW t \in Callers, Finish(t) PROVE IInv'
  BY <1>7 DEF Finish
<1>8. CASE UNCHANGED vars
  BY <1>8 DEF vars
<1>9. QED
  BY <1>1, <1>2, <1>3, <1>4, <1>5, <1>6, <1>7, <1>8 DEF Next, Step

THEOREM Invariance == Spec => []IInv
<1>1. QED
  BY InitIInv, NextIInv, PTL DEF Spec

(* Type correctness. *)
THEOREM TypeCorrect == Spec => []TypeOK
  BY Invariance, PTL DEF IInv

(* OnClosed runs once, however many goroutines close the object. *)
THEOREM ClosesOnce == Spec => []ClosedOnce
<1>1. IInv => ClosedOnce
  BY DEF IInv, ClosedRunsMatch, ClosedOnce
<1>2. QED
  BY <1>1, Invariance, PTL

(* The callbacks of an object never overlap. *)
THEOREM CallbacksAreExclusive == Spec => []CallbacksExclusive
<1>1. IInv => CallbacksExclusive
  BY NoOneIsNotACaller DEF IInv, LockMatchesPlaces, CallbacksExclusive
<1>2. QED
  BY <1>1, Invariance, PTL

(* A Close that returns leaves the object closed and notified, unless there
   was no handler or it refused. *)
THEOREM ReturnsClosed == Spec => ReturnMeansClosed
<1>1. IInv /\ [Next]_vars =>
        [\A t \in Callers :
           pc[t] # "idle" /\ pc'[t] = "idle" => ClosedOrNoHandlerOrRefused(t)]_vars
  <2> SUFFICES ASSUME IInv, [Next]_vars, NEW t \in Callers, pc[t] # "idle", pc'[t] = "idle"
               PROVE ClosedOrNoHandlerOrRefused(t)
    OBVIOUS
  <2> USE DEF IInv, TypeOK, Places, LockMatchesPlaces, ClosedRunsMatch, Holding,
              ClosedOrNoHandlerOrRefused
  <2>1. ~SetOnCloseHandler /\ ~UNCHANGED vars
    BY DEF SetOnCloseHandler, vars
  <2>2. PICK u \in Callers : Call(u) \/ Step(u)
    BY <2>1 DEF Next
  <2>3. ~Call(u) /\ ~Begin(u) /\ ~Agree(u)
    BY DEF Call, Begin, Agree
  <2>4. CASE Skip(u)
    BY <2>4 DEF Skip
  <2>5. CASE Refuse(u)
    BY <2>5 DEF Refuse
  <2>6. CASE Finish(u)
    BY <2>6 DEF Finish
  <2>7. QED
    BY <2>2, <2>3, <2>4, <2>5, <2>6 DEF Step
<1>2. QED
  BY <1>1, Invariance, PTL DEF Spec, ReturnMeansClosed

===============================================================================
