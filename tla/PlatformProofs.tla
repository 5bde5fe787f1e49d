---------------------------- MODULE PlatformProofs -----------------------------
(***************************************************************************)
(* Proofs about ManagePlatform, the exchange of ProxyAuth and, by an        *)
(* instance with variables of its own, Heartbeat: for any number of         *)
(* managers, connections, agents, attempts and turns.                       *)
(***************************************************************************)
EXTENDS ManagePlatform, TLAPS

CONSTANT MaxTurns     \* bound of Heartbeat
VARIABLES             \* the Hearts of one manager, each as Heartbeat names it
  turn, conn, connNet, isClosed, silent, ticker, running, at, holds, out, heard, closer, died

Beat == INSTANCE Heartbeat WITH wsConn <- conn, net <- connNet, reads <- heard, panic <- died

LoopPlaces == {"idle", "check", "connect", "dial", "hearts", "listen", "test",
               "load", "read", "auth", "error", "sleep", "gone"}

-------------------------------------------------------------------------------
(* An open manager has a loop.                                             *)

ServedInv ==
  /\ managerCtx \in Managers \cup {None} /\ created \in 0 .. MaxManagers
  /\ mClosed \in [Managers -> BOOLEAN]
  /\ pc \in [Loops -> LoopPlaces]
  /\ AlwaysServed

LEMMA InitServed == Init => ServedInv
<1> SUFFICES ASSUME Init PROVE ServedInv
  OBVIOUS
<1>1. created \in 0 .. MaxManagers
  BY BoundsAreNat DEF Init
<1>2. managerCtx = None /\ mClosed \in [Managers -> BOOLEAN] /\ pc \in [Loops -> LoopPlaces]
  BY DEF Init, LoopPlaces
<1> QED BY <1>1, <1>2 DEF ServedInv, AlwaysServed, Gone

(* A loop goes to another place, and ends only when there is nothing to serve. *)
LEMMA LoopMoveServes ==
  ASSUME ServedInv, UNCHANGED <<managerCtx, created, mClosed>>,
         NEW l \in Loops, NEW to \in LoopPlaces, pc' = [pc EXCEPT ![l] = to],
         to \in {"idle", "gone"} => Gone
  PROVE  ServedInv'
<1>1. pc' \in [Loops -> LoopPlaces] /\ pc'[l] = to
  BY DEF ServedInv
<1>2. AlwaysServed'
  BY <1>1 DEF AlwaysServed, Gone
<1> QED BY <1>1, <1>2 DEF ServedInv

LEMMA StayServes ==
  ASSUME ServedInv, UNCHANGED <<managerCtx, created, mClosed, pc>> PROVE ServedInv'
BY DEF ServedInv, AlwaysServed, Gone

LEMMA ApplicationServes ==
  ASSUME ServedInv, ProxyServerCreate \/ CloseBegin \/ OnClosed \/ ServerClose
  PROVE  ServedInv'
<1>1. CASE ProxyServerCreate
  <2> DEFINE m == created + 1
  <2>1. m \in Managers /\ m \in Loops
    BY <1>1, BoundsAreNat DEF ProxyServerCreate, ServedInv, Managers, Loops
  <2>2. m \in 0 .. MaxManagers
    BY <2>1, BoundsAreNat DEF Managers
  <2>3. pc' = [pc EXCEPT ![m] = "check"] /\ managerCtx' = m /\ created' = m /\ mClosed' = mClosed
    BY <1>1 DEF ProxyServerCreate, Goes, mgrVars
  <2>4. pc' \in [Loops -> LoopPlaces] /\ pc'[m] = "check"
    BY <2>1, <2>3 DEF ServedInv, LoopPlaces
  <2>5. AlwaysServed'
    BY <2>1, <2>4 DEF AlwaysServed
  <2> QED BY <2>1, <2>2, <2>3, <2>4, <2>5 DEF ServedInv
<1>2. CASE CloseBegin
  <2>1. /\ mClosed' = [mClosed EXCEPT ![managerCtx] = TRUE] /\ managerCtx \in Managers
        /\ UNCHANGED <<managerCtx, created, pc>>
    BY <1>2 DEF CloseBegin, ServedInv
  <2>2. mClosed' \in [Managers -> BOOLEAN] /\ mClosed'[managerCtx']
    BY <2>1 DEF ServedInv
  <2> QED BY <2>1, <2>2 DEF ServedInv, AlwaysServed, Gone
<1>3. CASE OnClosed
  BY <1>3, StayServes DEF OnClosed
<1>4. CASE ServerClose
  <2>1. managerCtx' = None /\ UNCHANGED <<created, mClosed, pc>>
    BY <1>4 DEF ServerClose, mgrVars
  <2> QED BY <2>1 DEF ServedInv, AlwaysServed, Gone
<1> QED BY <1>1, <1>2, <1>3, <1>4

(* Every step of a loop moves it to one place or leaves it, and it is gone only after a look
   at managerCtx. *)
LEMMA LoopServes ==
  ASSUME ServedInv, NEW l \in Loops, LoopStep(l) \/ PeerStep(l) PROVE ServedInv'
<1>1. UNCHANGED <<managerCtx, created, mClosed>>
  BY DEF LoopStep, PeerStep, CheckClosed, ConnectToPlatform, Enters, DialFails, DialSucceeds,
         StartHearts, ListenAgentConnect, TestConn, LoadConn, Authenticate, AgentConnects,
         AgentRetries, AgentFails, ReadFails, AfterError, Wake, OtherMessage, ProxyAnswers,
         ProxyMessage, appVars, mgrVars
<1>2. \/ pc' = pc
      \/ \E to \in LoopPlaces : /\ pc' = [pc EXCEPT ![l] = to]
                                /\ to \in {"idle", "gone"} => Gone
  <2>1. CASE CheckClosed(l) \/ AfterError(l)
    BY <2>1, Zenon DEF CheckClosed, AfterError, Goes, LoopPlaces
  <2>2. CASE ConnectToPlatform(l) \/ StartHearts(l) \/ ListenAgentConnect(l)
    BY <2>2 DEF ConnectToPlatform, StartHearts, ListenAgentConnect, Enters, Goes, Dies, LoopPlaces
  <2>3. CASE DialFails(l) \/ \E c \in Conns : DialSucceeds(l, c)
    BY <2>3 DEF DialFails, DialSucceeds, Goes, LoopPlaces
  <2>4. CASE TestConn(l) \/ LoadConn(l) \/ ReadFails(l) \/ Wake(l)
    BY <2>4 DEF TestConn, LoadConn, ReadFails, Wake, Goes, Dies, LoopPlaces
  <2>5. CASE Authenticate(l) \/ AgentRetries(l) \/ AgentConnects(l) \/ AgentFails(l)
    BY <2>5 DEF Authenticate, AgentRetries, AgentConnects, AgentFails, AuthEnds, Goes, LoopPlaces
  <2>6. CASE PeerStep(l)
    BY <2>6 DEF PeerStep, OtherMessage, ProxyAnswers, ProxyMessage, Goes, LoopPlaces
  <2> QED BY <2>1, <2>2, <2>3, <2>4, <2>5, <2>6 DEF LoopStep
<1>3. CASE pc' = pc
  BY <1>1, <1>3, StayServes
<1> QED BY <1>1, <1>2, <1>3, LoopMoveServes

LEMMA NextServed == ServedInv /\ [Next]_vars => ServedInv'
<1> SUFFICES ASSUME ServedInv, [Next]_vars PROVE ServedInv'
  OBVIOUS
<1>1. CASE UNCHANGED vars
  BY <1>1, StayServes DEF vars, appVars, mgrVars
<1>2. ASSUME NEW c \in Conns, ConnectionEnds(c) PROVE ServedInv'
  BY <1>2, StayServes DEF ConnectionEnds, appVars, mgrVars
<1> QED BY <1>1, <1>2, ApplicationServes, LoopServes DEF Next

(* The places, and AlwaysServed, which is inductive with them. *)
THEOREM ServedInvariance == Spec => []ServedInv
<1> QED BY InitServed, NextServed, PTL DEF Spec

(* An open manager has a loop, for any number of managers: a loop ends only
   after it saw that managerCtx is nil or closed, and a new manager is
   created only then and brings its own loop. *)
THEOREM ManagersAreServed == Spec => []AlwaysServed
<1>1. ServedInv => AlwaysServed
  BY DEF ServedInv
<1> QED BY <1>1, ServedInvariance, PTL

-------------------------------------------------------------------------------
(* Authentication.                                                         *)

(* An answer to REQ is under way only if a REQ was accepted, and only an
   exchange that is still going on waits for answers. *)
Sound(a) ==
  /\ a \in Exchange
  /\ "req" \in a.air => a.accepted
  /\ a.sent => Waits(a)
  /\ a.stage = "ok" => a.accepted /\ ~a.deadline

AuthInv == auth \in [Loops -> Exchange] /\ \A l \in Loops : Sound(auth[l])

LEMMA BeginsSound ==
  Sound(NoExchange) /\ \A address \in 1 .. 2 : Sound(Begin(address))
<1>1. NoExchange \in Exchange
  BY AttemptsArePositive DEF NoExchange, Exchange
<1>2. Sound(NoExchange)
  BY <1>1 DEF Sound, NoExchange, Waits
<1>3. ASSUME NEW address \in 1 .. 2 PROVE Sound(Begin(address))
  <2>1. /\ NoExchange.air = {} /\ ~NoExchange.sent
        /\ Begin(address) = [NoExchange EXCEPT !.stage = "syn", !.attempt = 1,
                                              !.address = address]
    BY DEF Begin, NoExchange
  <2>2. 1 \in 0 .. Attempts /\ address \in 0 .. 2
    BY AttemptsArePositive
  <2> QED BY <1>1, <2>1, <2>2 DEF Sound, Exchange, Waits
<1> QED BY <1>2, <1>3

LEMMA RetrySound ==
  ASSUME NEW a, Sound(a), Waits(a) PROVE Sound(Retry(a))
<1>1. CASE a.attempt = Attempts
  <2>1. Retry(a) = [a EXCEPT !.stage = "failed", !.sent = FALSE]
    BY <1>1 DEF Retry
  <2> QED BY <2>1, ZenonT(60) DEF Sound, Exchange, Waits
<1>2. CASE a.attempt # Attempts
  <2>1. Retry(a) = [a EXCEPT !.attempt = a.attempt + 1, !.sent = FALSE]
    BY <1>2 DEF Retry
  <2>2. a.attempt + 1 \in 0 .. Attempts
    BY <1>2, AttemptsArePositive DEF Sound, Exchange
  <2> QED BY <2>1, <2>2 DEF Sound, Exchange, Waits
<1> QED BY <1>1, <1>2

LEMMA AuthStepsSound ==
  ASSUME NEW a, Sound(a), NEW b \in AuthSteps(a) PROVE Sound(b)
<1>1. CASE b \in Send(a)
  BY <1>1 DEF Send, Sound, Exchange, Waits
<1>2. CASE b \in TimesOut(a)
  BY <1>2, RetrySound DEF TimesOut, Sound
<1>3. CASE b \in ReadSyn(a)
  <2>1. 1 \in 0 .. Attempts
    BY AttemptsArePositive
  <2>2. PICK d \in a.air : /\ b = [a EXCEPT !.stage = "req", !.attempt = 1, !.sent = FALSE,
                                            !.air = a.air \ {d}]
    BY <1>3 DEF ReadSyn
  <2> QED BY <2>1, <2>2 DEF Sound, Exchange, Waits
<1>4. CASE b \in ReadReq(a)
  <2>1. PICK d \in a.air :
          /\ a.stage = "req" /\ a.sent
          /\ b = IF d = "req"
                   THEN [a EXCEPT !.stage = "ok", !.sent = FALSE, !.air = a.air \ {d},
                                  !.deadline = FALSE]
                   ELSE Retry([a EXCEPT !.air = a.air \ {d}])
    BY <1>4 DEF ReadReq
  <2>2. CASE d = "req"
    BY <2>1, <2>2 DEF Sound, Exchange, Waits
  <2>3. CASE d # "req"
    <3> DEFINE c == [a EXCEPT !.air = a.air \ {d}]
    <3>1. Sound(c) /\ Waits(c)
      BY <2>1 DEF Sound, Exchange, Waits
    <3>2. b = Retry(c)
      BY <2>1, <2>3
    <3> HIDE DEF c
    <3> QED BY <3>1, <3>2, RetrySound
  <2> QED BY <2>2, <2>3
<1>5. CASE b \in IoFails(a)
  BY <1>5, ZenonT(60) DEF IoFails, Sound, Exchange, Waits
<1> QED BY <1>1, <1>2, <1>3, <1>4, <1>5 DEF AuthSteps

LEMMA ProxyStepsSound ==
  ASSUME NEW a, Sound(a), NEW b \in ProxySteps(a) PROVE Sound(b)
<1>1. CASE b \in AnswerSyn(a)
  BY <1>1 DEF AnswerSyn, Sound, Exchange, Waits
<1>2. CASE b \in AnswerReq(a)
  <2>1. /\ b = [a EXCEPT !.air = a.air \cup {"req"}, !.accepted = TRUE]
        /\ a.stage = "req"
    BY <1>2 DEF AnswerReq
  <2>2. a.air \cup {"req"} \in SUBSET {"syn", "req"}
    BY DEF Sound, Exchange
  <2>3. /\ b \in Exchange /\ b.accepted /\ b.stage = "req"
    BY <2>1, <2>2 DEF Sound, Exchange
  <2> QED BY <2>3 DEF Sound, Waits
<1> QED BY <1>1, <1>2 DEF ProxySteps

(* The exchange of one loop takes a step, or begins, or is forgotten. *)
LEMMA ExchangeKeeps ==
  ASSUME AuthInv, NEW l \in Loops, NEW b, Sound(b), auth' = [auth EXCEPT ![l] = b]
  PROVE  AuthInv'
<1>1. b \in Exchange
  BY DEF Sound
<1>2. auth' \in [Loops -> Exchange] /\ \A k \in Loops : auth'[k] = IF k = l THEN b ELSE auth[k]
  BY <1>1 DEF AuthInv
<1>3. \A k \in Loops : Sound(auth'[k])
  BY <1>2, Zenon DEF AuthInv
<1> QED BY <1>2, <1>3, Zenon DEF AuthInv

LEMMA NoExchangeKeeps == ASSUME AuthInv, UNCHANGED auth PROVE AuthInv'
BY Zenon DEF AuthInv

LEMMA InitAuth == Init => AuthInv
<1> SUFFICES ASSUME Init PROVE AuthInv
  OBVIOUS
<1>1. auth = [l \in Loops |-> NoExchange]
  BY Zenon DEF Init
<1>2. NoExchange \in Exchange
  BY BeginsSound DEF Sound
<1> QED BY <1>1, <1>2, BeginsSound DEF AuthInv

LEMMA LoopAuth ==
  ASSUME AuthInv, NEW l \in Loops, LoopStep(l) \/ PeerStep(l) PROVE AuthInv'
<1>1. CASE Authenticate(l)
  <2>1. PICK b \in AuthSteps(auth[l]) : auth' = [auth EXCEPT ![l] = b]
    BY <1>1 DEF Authenticate
  <2>2. Sound(b)
    BY AuthStepsSound DEF AuthInv
  <2> QED BY <2>1, <2>2, ExchangeKeeps
<1>2. CASE ProxyAnswers(l)
  <2>1. PICK b \in ProxySteps(auth[l]) : auth' = [auth EXCEPT ![l] = b]
    BY <1>2 DEF ProxyAnswers
  <2>2. Sound(b)
    BY ProxyStepsSound DEF AuthInv
  <2> QED BY <2>1, <2>2, ExchangeKeeps
<1>3. CASE AgentRetries(l)
  <2>1. auth' = [auth EXCEPT ![l] = Begin(2)] /\ Sound(Begin(2))
    BY <1>3, BeginsSound DEF AgentRetries
  <2> QED BY <2>1, ExchangeKeeps
<1>4. CASE AgentConnects(l) \/ AgentFails(l)
  <2>1. auth' = [auth EXCEPT ![l] = NoExchange]
    BY <1>4, Zenon DEF AgentConnects, AgentFails, AuthEnds
  <2> QED BY <2>1, BeginsSound, ExchangeKeeps
<1>5. CASE \E i \in Idxs : ProxyMessage(l, i)
  <2>1. PICK b \in {NoExchange, Begin(1)} : auth' = [auth EXCEPT ![l] = b]
    BY <1>5 DEF ProxyMessage
  <2>2. Sound(b)
    BY <2>1, BeginsSound
  <2> QED BY <2>1, <2>2, ExchangeKeeps
<1>6. CASE \/ CheckClosed(l) \/ ConnectToPlatform(l) \/ DialFails(l)
           \/ (\E c \in Conns : DialSucceeds(l, c)) \/ StartHearts(l)
           \/ ListenAgentConnect(l) \/ TestConn(l) \/ LoadConn(l) \/ ReadFails(l)
           \/ AfterError(l) \/ Wake(l) \/ OtherMessage(l)
  <2>1. auth' = auth
    BY <1>6 DEF CheckClosed, ConnectToPlatform, Enters, DialFails, DialSucceeds, StartHearts,
                ListenAgentConnect, TestConn, LoadConn, ReadFails, AfterError, Wake,
                OtherMessage, loopVars
  <2> QED BY <2>1, NoExchangeKeeps
<1> QED BY <1>1, <1>2, <1>3, <1>4, <1>5, <1>6 DEF LoopStep, PeerStep

LEMMA NextAuth == AuthInv /\ [Next]_vars => AuthInv'
<1> SUFFICES ASSUME AuthInv, [Next]_vars PROVE AuthInv'
  OBVIOUS
<1>1. CASE \/ ProxyServerCreate \/ CloseBegin \/ OnClosed \/ ServerClose
           \/ (\E c \in Conns : ConnectionEnds(c)) \/ UNCHANGED vars
  <2>1. auth' = auth
    BY <1>1 DEF ProxyServerCreate, CloseBegin, OnClosed, ServerClose, ConnectionEnds, vars, loopVars
  <2> QED BY <2>1, NoExchangeKeeps
<1> QED BY <1>1, LoopAuth DEF Next

(* The soundness of every exchange, by the steps of ProxyAuth. *)
THEOREM AuthInvariance == Spec => []AuthInv
<1> QED BY InitAuth, NextAuth, PTL DEF Spec

(* An exchange succeeds only when the proxy accepted a REQ, and leaves no
   read deadline, for any number of attempts and however answers are lost,
   late or repeated: only an answer to REQ takes it to "ok", and there is one
   only after the proxy accepted. *)
THEOREM AgentsAreAuthenticated == Spec => []AgentsAuthenticated
<1>1. AuthInv => AgentsAuthenticated
  BY DEF AuthInv, Sound, AgentsAuthenticated
<1> QED BY <1>1, AuthInvariance, PTL

-------------------------------------------------------------------------------
(* Types.                                                                  *)

AppTypes ==
  /\ app \in {"idle", "closed", "nil"}
  /\ shared \in BOOLEAN
  /\ panic \in {"none", "connect", "hearts", "listen", "load"}

(* Where a loop is in a method of a manager, it has one. *)
ConnTypes ==
  /\ wsConn \in [Managers -> Conns \cup {None}]
  /\ net \in [Conns -> {"none", "up", "down"}]
  /\ reads \in [Loops -> Conns \cup {None}]
  /\ mgr \in [Loops -> Managers \cup {None}]
  /\ \A l \in Loops : pc[l] \in {"idle", "check", "connect", "gone"} \/ mgr[l] # None

AgentTypes ==
  /\ agents \in [Managers -> SUBSET Idxs]
  /\ asked \in [Loops -> Idxs]
  /\ made \in [Managers -> [Idxs -> Nat]]

(* Every step keeps the types of what the application sees, and of panic. *)
LEMMA AppTypesKept ==
  ASSUME AppTypes, Next
  PROVE  AppTypes'
PROOF
<1>1. ASSUME NEW l \in Loops, LoopStep(l)
      PROVE  AppTypes'
  BY <1>1 DEF AppTypes, LoopStep, CheckClosed, ConnectToPlatform, Enters, Dies, Goes, DialFails,
     DialSucceeds, StartHearts, ListenAgentConnect, TestConn, LoadConn, Authenticate,
     AgentConnects, AgentRetries, AgentFails, ReadFails, AfterError, Wake, appVars
<1>2. ASSUME NEW l \in Loops, PeerStep(l)
      PROVE  AppTypes'
  BY <1>2 DEF AppTypes, PeerStep, OtherMessage, ProxyAnswers, ProxyMessage, appVars
<1>3. CASE \/ ProxyServerCreate \/ CloseBegin \/ OnClosed \/ ServerClose
           \/ \E c \in Conns : ConnectionEnds(c)
  BY <1>3 DEF AppTypes, ProxyServerCreate, CloseBegin, OnClosed, ServerClose, ConnectionEnds,
     appVars
<1> QED
  BY <1>1, <1>2, <1>3 DEF Next

(* Every step keeps those of the connections; a loop enters its methods with a manager. *)
LEMMA ConnTypesKept ==
  ASSUME ServedInv, ConnTypes, Next
  PROVE  ConnTypes'
PROOF
<1> USE DEF ConnTypes
<1>1. pc \in [Loops -> LoopPlaces] /\ managerCtx \in Managers \cup {None}
      /\ None \notin Managers /\ Loops = Managers
  BY BoundsAreNat DEF ServedInv, None, Managers, Loops
<1>2. CASE ProxyServerCreate
  BY <1>1, <1>2 DEF ProxyServerCreate, Goes, mgrVars, loopVars
<1>3. CASE CloseBegin \/ ServerClose
  BY <1>3 DEF CloseBegin, ServerClose, mgrVars, loopVars
<1>4. CASE OnClosed
  BY <1>4 DEF OnClosed, loopVars
<1>5. ASSUME NEW c \in Conns, ConnectionEnds(c)
      PROVE  ConnTypes'
  BY <1>5 DEF ConnectionEnds, mgrVars, loopVars
<1>6. ASSUME NEW l \in Loops, LoopStep(l)
      PROVE  ConnTypes'
  <2>1. CASE ConnectToPlatform(l) \/ StartHearts(l) \/ ListenAgentConnect(l)
    BY <1>1, <2>1 DEF ConnectToPlatform, StartHearts, ListenAgentConnect, Enters, Dies, Goes
  <2>2. CASE LoadConn(l)
    BY <1>1, <2>2 DEF LoadConn, Dies, Goes, mgrVars
  <2>3. ASSUME NEW c \in Conns, DialSucceeds(l, c)
        PROVE  ConnTypes'
    BY <1>1, <2>3 DEF DialSucceeds, Goes, loopVars
  <2>4. CASE \/ CheckClosed(l) \/ DialFails(l) \/ TestConn(l) \/ AfterError(l) \/ Wake(l)
             \/ ReadFails(l) \/ Authenticate(l) \/ AgentRetries(l)
    BY <1>1, <2>4 DEF CheckClosed, DialFails, TestConn, AfterError, Wake, ReadFails,
       Authenticate, AgentRetries, Goes, mgrVars, loopVars
  <2>5. CASE AgentConnects(l) \/ AgentFails(l)
    BY <1>1, <2>5 DEF AgentConnects, AgentFails, AuthEnds, Goes, mgrVars
  <2> QED
    BY <1>6, <2>1, <2>2, <2>3, <2>4, <2>5 DEF LoopStep
<1>7. ASSUME NEW l \in Loops, PeerStep(l)
      PROVE  ConnTypes'
  BY <1>1, <1>7 DEF PeerStep, OtherMessage, ProxyAnswers, ProxyMessage, Goes, mgrVars
<1> QED
  BY <1>2, <1>3, <1>4, <1>5, <1>6, <1>7 DEF Next

(* The agents of a manager change in one step alone. *)
LEMMA AgentSteps ==
  ASSUME Next
  PROVE  \/ UNCHANGED <<agents, made>> /\ (asked' = asked \/ \E l \in Loops, i \in Idxs :
                                              asked' = [asked EXCEPT ![l] = i])
         \/ \E l \in Loops : AgentConnects(l)
PROOF
<1> DEFINE Frame ==
       \/ UNCHANGED <<agents, made>> /\ (asked' = asked \/ \E l \in Loops, i \in Idxs :
                                            asked' = [asked EXCEPT ![l] = i])
       \/ \E l \in Loops : AgentConnects(l)
<1>1. ASSUME NEW l \in Loops, LoopStep(l)
      PROVE  Frame
  BY <1>1 DEF LoopStep, CheckClosed, ConnectToPlatform, Enters, DialFails,
     DialSucceeds, StartHearts, ListenAgentConnect, TestConn, LoadConn, Authenticate,
     AgentRetries, AgentFails, ReadFails, AfterError, Wake, mgrVars, loopVars
<1>2. ASSUME NEW l \in Loops, PeerStep(l)
      PROVE  Frame
  BY <1>2 DEF PeerStep, OtherMessage, ProxyAnswers, ProxyMessage, mgrVars, loopVars
<1>3. CASE \/ ProxyServerCreate \/ CloseBegin \/ OnClosed \/ ServerClose
           \/ \E c \in Conns : ConnectionEnds(c)
  BY <1>3 DEF ProxyServerCreate, CloseBegin, OnClosed, ServerClose, ConnectionEnds,
     mgrVars, loopVars
<1> QED
  BY <1>1, <1>2, <1>3 DEF Next

(* What AgentConnects makes of the counts. *)
LEMMA ConnectCounts ==
  ASSUME AgentTypes, ConnTypes, NEW l \in Loops, AgentConnects(l)
  PROVE  /\ mgr[l] \in Managers /\ asked[l] \in Idxs /\ asked' = asked
         /\ agents' \in [Managers -> SUBSET Idxs] /\ made' \in [Managers -> [Idxs -> Nat]]
         /\ \A m \in Managers :
              agents'[m] = IF m = mgr[l] THEN agents[m] \cup {asked[l]} ELSE agents[m]
         /\ \A m \in Managers, i \in Idxs :
              made'[m][i] = IF m = mgr[l] /\ i = asked[l] THEN made[m][i] + 1 ELSE made[m][i]
PROOF
<1>1. mgr[l] \in Managers /\ asked[l] \in Idxs /\ asked' = asked
  BY DEF AgentTypes, ConnTypes, AgentConnects, AuthEnds, Goes
<1>2. /\ agents' = [agents EXCEPT ![mgr[l]] = agents[mgr[l]] \cup {asked[l]}]
      /\ made' = [made EXCEPT ![mgr[l]] = [made[mgr[l]] EXCEPT ![asked[l]] =
                                             made[mgr[l]][asked[l]] + 1]]
  BY DEF AgentConnects
<1>3. made[mgr[l]] \in [Idxs -> Nat] /\ agents[mgr[l]] \cup {asked[l]} \in SUBSET Idxs
  BY <1>1 DEF AgentTypes
<1>4. [made[mgr[l]] EXCEPT ![asked[l]] = made[mgr[l]][asked[l]] + 1] \in [Idxs -> Nat]
  BY <1>1, <1>3
<1>5. agents' \in [Managers -> SUBSET Idxs] /\ made' \in [Managers -> [Idxs -> Nat]]
  BY <1>1, <1>2, <1>3, <1>4 DEF AgentTypes
<1>6. \A m \in Managers :
        agents'[m] = IF m = mgr[l] THEN agents[m] \cup {asked[l]} ELSE agents[m]
  BY <1>1, <1>2 DEF AgentTypes
<1>7. ASSUME NEW m \in Managers, NEW i \in Idxs
      PROVE  made'[m][i] = IF m = mgr[l] /\ i = asked[l] THEN made[m][i] + 1 ELSE made[m][i]
  <2>1. made'[m] = IF m = mgr[l] THEN [made[m] EXCEPT ![asked[l]] = made[m][asked[l]] + 1]
                   ELSE made[m]
    BY <1>1, <1>2 DEF AgentTypes
  <2>2. made[m] \in [Idxs -> Nat]
    BY DEF AgentTypes
  <2> QED
    BY <1>1, <2>1, <2>2
<1> QED
  BY <1>1, <1>5, <1>6, <1>7

(* Every step keeps those of the agents. *)
LEMMA AgentTypesKept ==
  ASSUME AgentTypes, ConnTypes, Next
  PROVE  AgentTypes'
PROOF
<1>1. ASSUME NEW l \in Loops, AgentConnects(l)
      PROVE  AgentTypes'
  BY <1>1, ConnectCounts DEF AgentTypes
<1>2. CASE UNCHANGED <<agents, made>> /\ (asked' = asked \/ \E l \in Loops, i \in Idxs :
                                            asked' = [asked EXCEPT ![l] = i])
  BY <1>2 DEF AgentTypes
<1> QED
  BY <1>1, <1>2, AgentSteps

-------------------------------------------------------------------------------
(* One connection for each agent.                                          *)

(* As long as every loop served its own manager, an agent that was connected is in
   Agents, and one that is being authenticated is not. *)
OnceInv ==
  \/ shared
  \/ /\ \A l \in Loops : mgr[l] \in {None, l}
     /\ \A l \in Loops : pc[l] = "auth" => asked[l] \notin agents[l]
     /\ \A m \in Managers, i \in Idxs :
          made[m][i] = 0 \/ (made[m][i] = 1 /\ i \in agents[m])

(* A loop's own manager has what the loop knows of it: nobody else adds to Agents. *)
LEMMA OnceKept ==
  ASSUME ServedInv, ConnTypes, AgentTypes, OnceInv, Next
  PROVE  OnceInv'
PROOF
<1> DEFINE Own(l)  == mgr[l] \in {None, l}
           Fresh(l) == pc[l] = "auth" => asked[l] \notin agents[l]
           Counted == \A m \in Managers, i \in Idxs :
                        made[m][i] = 0 \/ (made[m][i] = 1 /\ i \in agents[m])
<1>1. pc \in [Loops -> LoopPlaces] /\ mgr \in [Loops -> Managers \cup {None}]
      /\ asked \in [Loops -> Idxs] /\ None \notin Managers /\ Loops = Managers
  BY BoundsAreNat DEF ServedInv, ConnTypes, AgentTypes, None, Managers, Loops
<1>2. shared => shared'
  BY DEF Next, LoopStep, PeerStep, CheckClosed, ConnectToPlatform, Enters, DialFails,
     DialSucceeds, StartHearts, ListenAgentConnect, TestConn, LoadConn, Authenticate,
     AgentConnects, AgentRetries, AgentFails, ReadFails, AfterError, Wake, OtherMessage,
     ProxyAnswers, ProxyMessage, ProxyServerCreate, CloseBegin, OnClosed, ServerClose,
     ConnectionEnds
<1>3. SUFFICES ASSUME ~shared, ~shared'
               PROVE  (\A l \in Loops : Own(l)' /\ Fresh(l)') /\ Counted'
  BY <1>2 DEF OnceInv
<1>4. (\A l \in Loops : Own(l) /\ Fresh(l)) /\ Counted
  BY <1>3 DEF OnceInv
<1>5. ASSUME NEW l \in Loops, AgentConnects(l)
      PROVE  (\A k \in Loops : Own(k)' /\ Fresh(k)') /\ Counted'
  <2>1. /\ pc[l] = "auth" /\ pc' = [pc EXCEPT ![l] = "test"] /\ mgr' = mgr
    BY <1>5 DEF AgentConnects, AuthEnds, Goes
  <2>2. mgr[l] = l
    <3>1. mgr[l] \in Managers
      BY <1>5, ConnectCounts
    <3> QED
      BY <1>1, <1>4, <3>1
  <2>3. /\ asked[l] \in Idxs /\ asked' = asked
        /\ \A m \in Managers :
             agents'[m] = IF m = l THEN agents[m] \cup {asked[l]} ELSE agents[m]
        /\ \A m \in Managers, i \in Idxs :
             made'[m][i] = IF m = l /\ i = asked[l] THEN made[m][i] + 1 ELSE made[m][i]
    <3>1. /\ asked[l] \in Idxs /\ asked' = asked
          /\ \A m \in Managers :
               agents'[m] = IF m = mgr[l] THEN agents[m] \cup {asked[l]} ELSE agents[m]
          /\ \A m \in Managers, i \in Idxs :
               made'[m][i] = IF m = mgr[l] /\ i = asked[l] THEN made[m][i] + 1 ELSE made[m][i]
      BY <1>5, ConnectCounts
    <3> QED
      BY <2>2, <3>1
  <2>4. ASSUME NEW k \in Loops
        PROVE  Own(k)' /\ Fresh(k)'
    <3>1. CASE k = l
      BY <1>1, <1>4, <2>1, <3>1
    <3>2. CASE k # l
      <4>1. agents'[k] = agents[k] /\ pc'[k] = pc[k]
        BY <1>1, <2>1, <2>3, <3>2
      <4> QED
        BY <1>4, <2>1, <2>3, <4>1
    <3> QED
      BY <3>1, <3>2
  <2>5. made[l][asked[l]] = 0
    BY <1>1, <1>4, <2>1, <2>3
  <2>6. ASSUME NEW m \in Managers, NEW i \in Idxs
        PROVE  made'[m][i] = 0 \/ (made'[m][i] = 1 /\ i \in agents'[m])
    <3>1. /\ agents'[m] = IF m = l THEN agents[m] \cup {asked[l]} ELSE agents[m]
          /\ made'[m][i] = IF m = l /\ i = asked[l] THEN made[m][i] + 1 ELSE made[m][i]
          /\ made[m][i] = 0 \/ (made[m][i] = 1 /\ i \in agents[m])
      BY <1>4, <2>3
    <3>2. CASE m = l /\ i = asked[l]
      BY <2>5, <3>1, <3>2
    <3>3. CASE ~(m = l /\ i = asked[l])
      BY <3>1, <3>3
    <3> QED
      BY <3>2, <3>3
  <2> QED
    BY <2>4, <2>6
<1>6. ASSUME UNCHANGED <<agents, made>>
      PROVE  Counted'
  BY <1>4, <1>6
<1>7. ASSUME NEW l \in Loops, LoopStep(l), ~AgentConnects(l), NEW k \in Loops
      PROVE  UNCHANGED <<agents, made>> /\ Own(k)' /\ Fresh(k)'
  <2>1. CASE ConnectToPlatform(l) \/ StartHearts(l) \/ ListenAgentConnect(l)
    <3>1. /\ UNCHANGED <<agents, made, asked>>
          /\ \/ UNCHANGED <<pc, mgr>>
             \/ /\ shared' = (shared \/ managerCtx # l)
                /\ mgr' = [mgr EXCEPT ![l] = managerCtx]
                /\ \E to \in {"dial", "listen", "test"} : pc' = [pc EXCEPT ![l] = to]
      BY <2>1 DEF ConnectToPlatform, StartHearts, ListenAgentConnect, Enters, Dies, Goes
    <3>2. CASE UNCHANGED <<pc, mgr>>
      BY <1>4, <3>1, <3>2
    <3>3. ASSUME shared' = (shared \/ managerCtx # l)
          PROVE  managerCtx = l
      BY <1>3, <3>3, Zenon
    <3>4. CASE /\ mgr' = [mgr EXCEPT ![l] = l]
               /\ \E to \in {"dial", "listen", "test"} : pc' = [pc EXCEPT ![l] = to]
      BY <1>1, <1>4, <3>1, <3>4
    <3> QED
      BY <3>1, <3>2, <3>3, <3>4, Zenon
  <2>2. CASE LoadConn(l) \/ (\E c \in Conns : DialSucceeds(l, c))
             \/ CheckClosed(l) \/ DialFails(l) \/ TestConn(l) \/ AfterError(l) \/ Wake(l)
             \/ ReadFails(l) \/ Authenticate(l) \/ AgentRetries(l) \/ AgentFails(l)
    BY <1>1, <1>4, <2>2 DEF LoadConn, DialSucceeds, CheckClosed, DialFails, TestConn,
       AfterError, Wake, ReadFails, Authenticate, AgentRetries, AgentFails, AuthEnds, Dies,
       Goes, mgrVars, loopVars
  <2> QED
    BY <1>7, <2>1, <2>2 DEF LoopStep
<1>8. ASSUME NEW l \in Loops, PeerStep(l), NEW k \in Loops
      PROVE  UNCHANGED <<agents, made>> /\ Own(k)' /\ Fresh(k)'
  <2>1. CASE OtherMessage(l) \/ ProxyAnswers(l)
    BY <1>1, <1>4, <2>1 DEF OtherMessage, ProxyAnswers, Goes, mgrVars
  <2>2. ASSUME NEW i \in Idxs, ProxyMessage(l, i)
        PROVE  UNCHANGED <<agents, made>> /\ Own(k)' /\ Fresh(k)'
    <3>1. mgr[l] = l
      BY <1>1, <1>4, <2>2 DEF ConnTypes, ProxyMessage, Goes
    <3> QED
      BY <1>1, <1>4, <2>2, <3>1 DEF ProxyMessage, Goes, mgrVars
  <2> QED
    BY <1>8, <2>1, <2>2 DEF PeerStep
<1>9. ASSUME NEW k \in Loops,
             \/ ProxyServerCreate \/ CloseBegin \/ OnClosed \/ ServerClose
             \/ \E c \in Conns : ConnectionEnds(c)
      PROVE  UNCHANGED <<agents, made>> /\ Own(k)' /\ Fresh(k)'
  BY <1>1, <1>4, <1>9 DEF ProxyServerCreate, CloseBegin, OnClosed, ServerClose, ConnectionEnds,
     Goes, mgrVars, loopVars
<1>10. 1 \in Loops
  BY BoundsAreNat DEF Loops, Managers
<1> QED
  BY <1>5, <1>6, <1>7, <1>8, <1>9, <1>10 DEF Next

-------------------------------------------------------------------------------

(* The two parts together. *)
PlatformInv == AppTypes /\ ConnTypes /\ AgentTypes /\ OnceInv

(* All of it holds at first. *)
LEMMA InitPlatform == Init => PlatformInv
PROOF
<1> SUFFICES ASSUME Init
             PROVE  PlatformInv
  OBVIOUS
<1>1. (CHOOSE i \in Idxs : TRUE) \in Idxs
  BY AgentsExist
<1>2. AppTypes
  BY DEF Init, AppTypes
<1>3. ConnTypes
  BY DEF Init, ConnTypes
<1>4. AgentTypes
  BY <1>1 DEF Init, AgentTypes
<1>5. OnceInv
  BY DEF Init, OnceInv
<1> QED
  BY <1>2, <1>3, <1>4, <1>5 DEF PlatformInv

(* Every step keeps all of it. *)
LEMMA NextPlatform == PlatformInv /\ ServedInv /\ [Next]_vars => PlatformInv'
PROOF
<1>1. ASSUME PlatformInv, UNCHANGED vars
      PROVE  PlatformInv'
  BY <1>1 DEF PlatformInv, AppTypes, ConnTypes, AgentTypes, OnceInv, vars, appVars, mgrVars,
     loopVars
<1> QED
  BY <1>1, AppTypesKept, ConnTypesKept, AgentTypesKept, OnceKept DEF PlatformInv

(* The types, and what makes the test of Agents enough (manage.go:194). *)
THEOREM PlatformInvariance == Spec => []PlatformInv
PROOF
<1> QED
  BY InitPlatform, NextPlatform, ServedInvariance, PTL DEF Spec

(* ManagePlatform.TypeOK: every variable keeps its type. *)
THEOREM PlatformTypes == Spec => []TypeOK
PROOF
<1>1. PlatformInv /\ ServedInv /\ AuthInv => TypeOK
  BY DEF PlatformInv, ServedInv, AuthInv, AppTypes, ConnTypes, AgentTypes, TypeOK, LoopPlaces
<1> QED
  BY <1>1, PlatformInvariance, ServedInvariance, AuthInvariance, PTL

(* manage.go:194: an agent is connected once for each manager, however often the
   platform names it, over any number of connections, unless a loop served a
   manager it was not started for. *)
THEOREM AgentsConnectOnce == Spec => []AgentConnectedOnce
PROOF
<1>1. PlatformInv => AgentConnectedOnce
  BY DEF PlatformInv, OnceInv, AgentConnectedOnce
<1> QED
  BY <1>1, PlatformInvariance, PTL

-------------------------------------------------------------------------------
(* Who is in Agents.                                                       *)

(* manage.go:194-213, common.go:139-215: what a step adds to the Agents of a
   manager is the agent that a loop in a method of this manager was asked to
   connect, after an exchange that the agent's proxy accepted and whose read
   deadline is off again; and nothing is ever taken out. *)
AgentsByExchange ==
  \A m \in Managers :
    /\ agents[m] \subseteq agents'[m]
    /\ \A i \in agents'[m] \ agents[m] :
         \E l \in Loops : mgr[l] = m /\ asked[l] = i /\ auth[l].accepted /\ ~auth[l].deadline

(* Only AgentConnects writes to Agents. *)
LEMMA AgentsOfOthers ==
  ASSUME [Next]_vars
  PROVE  agents' = agents \/ \E l \in Loops : AgentConnects(l)
PROOF
<1>1. ASSUME NEW l \in Loops, LoopStep(l), ~AgentConnects(l)
      PROVE  agents' = agents
  BY <1>1 DEF LoopStep, CheckClosed, ConnectToPlatform, DialFails, DialSucceeds, StartHearts,
     ListenAgentConnect, Enters, TestConn, LoadConn, Authenticate, AgentRetries, AgentFails,
     ReadFails, AfterError, Wake, mgrVars
<1>2. ASSUME NEW l \in Loops, PeerStep(l)
      PROVE  agents' = agents
  BY <1>2 DEF PeerStep, OtherMessage, ProxyAnswers, ProxyMessage, mgrVars
<1>3. CASE \/ ProxyServerCreate \/ CloseBegin \/ OnClosed \/ ServerClose
           \/ \E c \in Conns : ConnectionEnds(c)
  BY <1>3 DEF ProxyServerCreate, CloseBegin, OnClosed, ServerClose, ConnectionEnds, mgrVars
<1>4. CASE UNCHANGED vars
  BY <1>4 DEF vars, mgrVars
<1> QED
  BY <1>1, <1>2, <1>3, <1>4 DEF Next

(* An agent comes into Agents only by an exchange its proxy accepted, and stays, for
   any number of managers, loops, connections and agents. *)
THEOREM AgentsComeByExchange == Spec => [][AgentsByExchange]_vars
PROOF
<1>1. TypeOK /\ AgentsAuthenticated /\ [Next]_vars => AgentsByExchange
  <2> SUFFICES ASSUME TypeOK, AgentsAuthenticated, [Next]_vars
               PROVE  AgentsByExchange
    OBVIOUS
  <2>1. CASE agents' = agents
    BY <2>1 DEF AgentsByExchange
  <2>2. ASSUME NEW l \in Loops, AgentConnects(l)
        PROVE  AgentsByExchange
    <3>1. /\ auth[l].stage = "ok"
          /\ agents' = [agents EXCEPT ![mgr[l]] = agents[mgr[l]] \cup {asked[l]}]
          /\ agents \in [Managers -> SUBSET Idxs]
      BY <2>2 DEF AgentConnects, AuthEnds, TypeOK
    <3>2. auth[l].accepted /\ ~auth[l].deadline
      BY <3>1 DEF AgentsAuthenticated
    <3>3. ASSUME NEW m \in Managers
          PROVE  agents'[m] = IF m = mgr[l] THEN agents[m] \cup {asked[l]} ELSE agents[m]
      BY <3>1
    <3> QED
      BY <3>2, <3>3 DEF AgentsByExchange
  <2> QED
    BY <2>1, <2>2, AgentsOfOthers
<1> QED
  BY <1>1, PlatformTypes, AgentsAreAuthenticated, PTL DEF Spec

-------------------------------------------------------------------------------
(* Hearts.                                                                 *)

(* A ticker that somebody can still load, stop or wait on. *)
Known(t) == t = ticker \/ t \in running \/ \E h \in Beat!Hearts : holds[h] = t

(* A turn begins after the last that was begun, and the Hearts of a turn makes
   its ticker only once. *)
TurnsInOrder ==
  /\ \A h \in Beat!Hearts : h > turn => at[h] = "idle"
  /\ at[Beat!Loop] \in {"dial", "ping", "send", "write", "spawn"} =>
       turn \in Beat!Hearts /\ at[turn] = "idle"
  /\ \A t \in Beat!Hearts : Known(t) => at[t] \notin {"idle", "make"}

HeartsInv == Beat!TypeOK /\ TurnsInOrder

(* The loop is none of the goroutines that it starts. *)
LEMMA LoopIsNoHeart ==
  ASSUME MaxTurns \in Nat \ {0}
  PROVE  /\ Beat!Hearts = 1 .. MaxTurns /\ Beat!Procs = 0 .. MaxTurns
         /\ Beat!Loop \in Beat!Procs /\ Beat!Loop \notin Beat!Hearts
         /\ Beat!None \notin Beat!Hearts
         /\ \A h \in Beat!Hearts : h \in Beat!Procs
BY SMT DEF Beat!Hearts, Beat!Procs, Beat!Loop, Beat!None

(* The places are the ones of TypeOK. *)
HeartPlaces ==
  {"idle", "check", "dial", "ping", "send", "write", "spawn", "listen", "load", "read", "make",
   "range", "wait", "tick", "late", "hangup", "leave", "stop", "clear", "gone"}

(* All of it holds before the first turn. *)
LEMMA InitHearts ==
  ASSUME MaxTurns \in Nat \ {0}, Beat!Init
  PROVE  HeartsInv
PROOF
<1>1. turn \in 0 .. MaxTurns
  BY DEF Beat!Init
<1>2. Beat!TypeOK
  BY <1>1 DEF Beat!Init, Beat!TypeOK
<1>3. TurnsInOrder
  BY LoopIsNoHeart DEF Beat!Init, TurnsInOrder, Known
<1> QED
  BY <1>2, <1>3 DEF HeartsInv

(* A step that moves one goroutine, not the loop into a turn, no goroutine to
   its beginning, and makes no ticker known. *)
LEMMA MoveKeepsOrder ==
  ASSUME MaxTurns \in Nat \ {0}, HeartsInv, turn' = turn,
         NEW p \in Beat!Procs, NEW to \in HeartPlaces, at' = [at EXCEPT ![p] = to],
         to \notin {"idle", "make"}, at[p] # "idle",
         p = Beat!Loop /\ to \in {"dial", "ping", "send", "write", "spawn"} =>
           at[p] \in {"dial", "ping", "send", "write", "spawn"},
         \A t \in Beat!Hearts : Known(t)' => Known(t)
  PROVE  TurnsInOrder'
PROOF
<1>1. \A q \in Beat!Procs : at'[q] = IF q = p THEN to ELSE at[q]
  BY DEF HeartsInv, Beat!TypeOK
<1>2. \A h \in Beat!Hearts : (at'[h] \in {"idle", "make"} => at'[h] = at[h])
                               /\ (at[h] = "idle" => at'[h] = "idle")
  BY <1>1, LoopIsNoHeart
<1> QED
  BY <1>1, <1>2, LoopIsNoHeart DEF HeartsInv, TurnsInOrder

(* A step in which every goroutine stays where it is, and no ticker is made. *)
LEMMA StayKeepsOrder ==
  ASSUME HeartsInv, turn' = turn, at' = at, \A t \in Beat!Hearts : Known(t)' => Known(t)
  PROVE  TurnsInOrder'
BY DEF HeartsInv, TurnsInOrder

(* sendJson leaves the tickers to the others, and the turn to the loop. *)
LEMMA SendKeepsHearts ==
  ASSUME MaxTurns \in Nat \ {0}, HeartsInv, NEW p \in Beat!Procs, Beat!SendStep(p)
  PROVE  HeartsInv'
PROOF
<1>1. Beat!TypeOK'
  BY DEF HeartsInv, Beat!TypeOK, Beat!SendStep, Beat!SendTest, Beat!SendBegin,
     Beat!SendEnd, Beat!Goes, Beat!Dies, Beat!AfterSend, Beat!connVars,
     Beat!tickerVars
<1>2. UNCHANGED <<turn, ticker, running, holds>>
  BY DEF Beat!SendStep, Beat!SendTest, Beat!SendBegin, Beat!SendEnd, Beat!tickerVars
<1>3. \A t \in Beat!Hearts : Known(t)' => Known(t)
  BY <1>2 DEF Known
<1>4. \/ at' = at
      \/ /\ at[p] \in {"ping", "send", "write"}
         /\ \E to \in {"spawn", "wait", "send", "write"} : at' = [at EXCEPT ![p] = to]
  BY DEF Beat!SendStep, Beat!SendTest, Beat!SendBegin, Beat!SendEnd, Beat!Goes,
     Beat!Dies, Beat!AfterSend
<1>5. ASSUME NEW to \in {"spawn", "wait", "send", "write"}, at[p] \in {"ping", "send", "write"},
             at' = [at EXCEPT ![p] = to]
      PROVE  TurnsInOrder'
  BY <1>2, <1>3, <1>5, MoveKeepsOrder DEF HeartPlaces
<1>6. TurnsInOrder'
  BY <1>2, <1>3, <1>4, <1>5, StayKeepsOrder
<1> QED
  BY <1>1, <1>6 DEF HeartsInv

(* The loop begins the next turn, and starts its Hearts. *)
LEMMA TurnKeepsHearts ==
  ASSUME MaxTurns \in Nat \ {0}, HeartsInv, Beat!CheckClosed \/ Beat!StartHearts
  PROVE  HeartsInv'
PROOF
<1>1. Beat!Loop \in Beat!Procs /\ turn \in 0 .. MaxTurns
  BY LoopIsNoHeart DEF HeartsInv, Beat!TypeOK
<1>2. UNCHANGED <<ticker, running, holds>>
  BY DEF Beat!CheckClosed, Beat!StartHearts, Beat!tickerVars
<1>3. \A t \in Beat!Hearts : Known(t)' <=> Known(t)
  BY <1>2 DEF Known
<1>4. CASE Beat!CheckClosed /\ isClosed
  <2>1. at[Beat!Loop] = "check" /\ at' = [at EXCEPT ![Beat!Loop] = "gone"] /\ turn' = turn
    BY <1>4 DEF Beat!CheckClosed, Beat!Goes
  <2>2. TurnsInOrder'
    BY <1>1, <1>3, <2>1, MoveKeepsOrder DEF HeartPlaces
  <2>3. Beat!TypeOK'
    BY <1>4, <2>1 DEF HeartsInv, Beat!TypeOK, Beat!CheckClosed, Beat!connVars,
       Beat!tickerVars
  <2> QED
    BY <2>2, <2>3 DEF HeartsInv
<1>5. CASE Beat!CheckClosed /\ ~isClosed
  <2>1. /\ turn < MaxTurns /\ at[Beat!Loop] = "check" /\ turn' = turn + 1
        /\ at' = [at EXCEPT ![Beat!Loop] = "dial"]
    BY <1>5 DEF Beat!CheckClosed, Beat!Goes
  <2>2. /\ turn' \in 0 .. MaxTurns /\ turn' \in Beat!Hearts
        /\ \A h \in Beat!Hearts : h > turn' => h > turn
        /\ turn' > turn
    BY <1>1, <2>1, LoopIsNoHeart
  <2>3. /\ at'[Beat!Loop] = "dial"
        /\ \A h \in Beat!Hearts : at'[h] = at[h]
    BY <1>1, <2>1, LoopIsNoHeart DEF HeartsInv, Beat!TypeOK
  <2>4. TurnsInOrder'
    BY <1>3, <2>2, <2>3 DEF HeartsInv, TurnsInOrder
  <2>5. Beat!TypeOK'
    BY <1>5, <2>1, <2>2 DEF HeartsInv, Beat!TypeOK, Beat!CheckClosed, Beat!connVars,
       Beat!tickerVars
  <2> QED
    BY <2>4, <2>5 DEF HeartsInv
<1>6. CASE Beat!StartHearts
  <2>1. /\ at[Beat!Loop] = "spawn" /\ turn' = turn
        /\ at' = [at EXCEPT ![Beat!Loop] = "listen", ![turn] = "make"]
    BY <1>6 DEF Beat!StartHearts
  <2>2. turn \in Beat!Hearts /\ at[turn] = "idle"
    BY <2>1 DEF HeartsInv, TurnsInOrder
  <2>3. /\ at'[Beat!Loop] = "listen" /\ at'[turn] = "make"
        /\ \A h \in Beat!Hearts : h # turn => at'[h] = at[h]
    BY <1>1, <2>1, <2>2, LoopIsNoHeart DEF HeartsInv, Beat!TypeOK
  <2>4. TurnsInOrder'
    <3>1. \A h \in Beat!Hearts : h > turn => h # turn
      BY <1>1, LoopIsNoHeart
    <3> QED
      BY <1>3, <2>1, <2>2, <2>3, <3>1 DEF HeartsInv, TurnsInOrder
  <2>5. turn \in Beat!Procs /\ at' \in [Beat!Procs -> HeartPlaces]
    BY <1>1, <2>1, <2>2, LoopIsNoHeart DEF HeartsInv, Beat!TypeOK, HeartPlaces
  <2>6. Beat!TypeOK'
    BY <1>6, <2>1, <2>5 DEF HeartsInv, Beat!TypeOK, HeartPlaces, Beat!StartHearts,
       Beat!connVars, Beat!tickerVars
  <2> QED
    BY <2>4, <2>6 DEF HeartsInv
<1> QED
  BY <1>4, <1>5, <1>6

(* The rest of the loop is in the turn that was begun, or leaves it. *)
LEMMA LoopKeepsHearts ==
  ASSUME MaxTurns \in Nat \ {0}, HeartsInv,
         \/ Beat!DialFails \/ Beat!DialSucceeds \/ Beat!ListenTest \/ Beat!ListenLoad
         \/ Beat!Message \/ Beat!ReadFails
  PROVE  HeartsInv'
PROOF
<1>1. Beat!Loop \in Beat!Procs
  BY LoopIsNoHeart
<1>2. at[Beat!Loop] = "dial" => turn \in Beat!Hearts
  BY DEF HeartsInv, TurnsInOrder
<1>3. Beat!TypeOK'
  <2>1. CASE Beat!DialFails \/ Beat!DialSucceeds
    BY <1>1, <1>2, <2>1 DEF HeartsInv, Beat!TypeOK, Beat!DialFails, Beat!DialSucceeds,
       Beat!Goes, Beat!connVars, Beat!tickerVars
  <2>2. CASE Beat!ListenTest
    BY <1>1, <2>2 DEF HeartsInv, Beat!TypeOK, Beat!ListenTest, Beat!Goes, Beat!connVars,
       Beat!tickerVars
  <2>3. CASE Beat!ListenLoad
    BY <1>1, <2>3 DEF HeartsInv, Beat!TypeOK, Beat!ListenLoad, Beat!Goes, Beat!Dies,
       Beat!connVars, Beat!tickerVars
  <2>4. CASE Beat!Message
    BY <1>1, <2>4 DEF HeartsInv, Beat!TypeOK, Beat!Message, Beat!Goes, Beat!connVars,
       Beat!tickerVars
  <2>5. CASE Beat!ReadFails
    BY <1>1, <2>5 DEF HeartsInv, Beat!TypeOK, Beat!ReadFails, Beat!Goes, Beat!connVars,
       Beat!tickerVars
  <2> QED
    BY <2>1, <2>2, <2>3, <2>4, <2>5
<1>4. UNCHANGED <<turn, ticker, running, holds>>
  BY DEF Beat!DialFails, Beat!DialSucceeds, Beat!ListenTest, Beat!ListenLoad,
     Beat!Message, Beat!ReadFails, Beat!tickerVars
<1>5. \A t \in Beat!Hearts : Known(t)' => Known(t)
  BY <1>4 DEF Known
<1>6. \/ at' = at
      \/ /\ at[Beat!Loop] \in {"listen", "load", "read"}
         /\ \E to \in {"check", "load", "read", "listen", "gone"} :
              at' = [at EXCEPT ![Beat!Loop] = to]
      \/ /\ at[Beat!Loop] = "dial"
         /\ \E to \in {"spawn", "ping"} : at' = [at EXCEPT ![Beat!Loop] = to]
  BY DEF Beat!DialFails, Beat!DialSucceeds, Beat!ListenTest, Beat!ListenLoad,
     Beat!Message, Beat!ReadFails, Beat!Goes, Beat!Dies
<1>7. ASSUME NEW to \in {"check", "load", "read", "listen", "gone"},
             at[Beat!Loop] \in {"listen", "load", "read"},
             at' = [at EXCEPT ![Beat!Loop] = to]
      PROVE  TurnsInOrder'
  BY <1>1, <1>4, <1>5, <1>7, MoveKeepsOrder DEF HeartPlaces
<1>8. ASSUME NEW to \in {"spawn", "ping"}, at[Beat!Loop] = "dial",
             at' = [at EXCEPT ![Beat!Loop] = to]
      PROVE  TurnsInOrder'
  BY <1>1, <1>4, <1>5, <1>8, MoveKeepsOrder DEF HeartPlaces
<1>9. TurnsInOrder'
  BY <1>4, <1>5, <1>6, <1>7, <1>8, StayKeepsOrder
<1> QED
  BY <1>3, <1>9 DEF HeartsInv

(* Hearts makes the ticker of its turn. *)
LEMMA TickerKeepsHearts ==
  ASSUME MaxTurns \in Nat \ {0}, HeartsInv, NEW h \in Beat!Hearts, Beat!MakeTicker(h)
  PROVE  HeartsInv'
PROOF
<1>1. h \in Beat!Procs
  BY LoopIsNoHeart
<1>2. /\ at[h] = "make" /\ at' = [at EXCEPT ![h] = "range"] /\ turn' = turn
      /\ running' = running \cup {h} /\ ticker' = h /\ holds' = holds
  BY DEF Beat!MakeTicker, Beat!Goes
<1>3. Beat!TypeOK'
  BY <1>1, <1>2 DEF HeartsInv, Beat!TypeOK, Beat!MakeTicker, Beat!connVars
<1>4. at'[h] = "range" /\ \A p \in Beat!Procs : p # h => at'[p] = at[p]
  BY <1>1, <1>2 DEF HeartsInv, Beat!TypeOK
<1>5. \A t \in Beat!Hearts : Known(t)' => t = h \/ Known(t)
  BY <1>2 DEF Known
<1>6. TurnsInOrder'
  BY <1>2, <1>4, <1>5, LoopIsNoHeart DEF HeartsInv, TurnsInOrder
<1> QED
  BY <1>3, <1>6 DEF HeartsInv

(* The rest of Hearts waits on a ticker somebody made, and stops and forgets. *)
LEMMA HeartKeepsHearts ==
  ASSUME MaxTurns \in Nat \ {0}, HeartsInv, NEW h \in Beat!Hearts,
         \/ Beat!RangeTicker(h) \/ Beat!Tick(h) \/ Beat!TestStop(h) \/ Beat!TestLate(h)
         \/ Beat!HangUp(h) \/ Beat!LeaveTest(h) \/ Beat!LeaveStop(h)
         \/ Beat!LeaveClear(h)
  PROVE  HeartsInv'
PROOF
<1>1. h \in Beat!Procs /\ h # Beat!Loop /\ Beat!None \notin Beat!Hearts
  BY LoopIsNoHeart
<1>2. Beat!TypeOK'
  BY <1>1 DEF HeartsInv, Beat!TypeOK, Beat!RangeTicker, Beat!Tick, Beat!TestStop,
     Beat!TestLate, Beat!HangUp, Beat!LeaveTest, Beat!LeaveStop, Beat!LeaveClear,
     Beat!Goes, Beat!Dies, Beat!connVars, Beat!tickerVars
<1>3. /\ turn' = turn /\ ticker' \in {ticker, Beat!None} /\ running' \subseteq running
      /\ holds' = holds \/ holds' = [holds EXCEPT ![h] = ticker]
  BY DEF Beat!RangeTicker, Beat!Tick, Beat!TestStop, Beat!TestLate, Beat!HangUp,
     Beat!LeaveTest, Beat!LeaveStop, Beat!LeaveClear, Beat!tickerVars
<1>4. \A t \in Beat!Hearts : Known(t)' => Known(t)
  BY <1>1, <1>3 DEF Known, HeartsInv, Beat!TypeOK
<1>5. \/ at' = at
      \/ /\ at[h] \in {"range", "wait", "tick", "late", "hangup", "leave", "stop", "clear"}
         /\ \E to \in {"wait", "tick", "leave", "late", "hangup", "ping", "gone", "stop",
                       "clear"} :
              at' = [at EXCEPT ![h] = to]
  BY DEF Beat!RangeTicker, Beat!Tick, Beat!TestStop, Beat!TestLate, Beat!HangUp,
     Beat!LeaveTest, Beat!LeaveStop, Beat!LeaveClear, Beat!Goes, Beat!Dies
<1>6. ASSUME NEW to \in {"wait", "tick", "leave", "late", "hangup", "ping", "gone", "stop",
                         "clear"},
             at[h] \in {"range", "wait", "tick", "late", "hangup", "leave", "stop", "clear"},
             at' = [at EXCEPT ![h] = to]
      PROVE  TurnsInOrder'
  BY <1>1, <1>3, <1>4, <1>6, MoveKeepsOrder DEF HeartPlaces
<1>7. TurnsInOrder'
  BY <1>3, <1>4, <1>5, <1>6, StayKeepsOrder
<1> QED
  BY <1>2, <1>7 DEF HeartsInv

(* Close, time and the network move none of these goroutines. *)
LEMMA OthersKeepHearts ==
  ASSUME MaxTurns \in Nat \ {0}, HeartsInv,
         \/ Beat!CloseTest \/ Beat!CloseStep \/ Beat!Silence
         \/ \E c \in Beat!Hearts : Beat!ConnectionEnds(c)
  PROVE  HeartsInv'
PROOF
<1>1. Beat!TypeOK'
  <2>1. CASE Beat!Silence
    BY <2>1 DEF HeartsInv, Beat!TypeOK, Beat!Silence, Beat!connVars, Beat!tickerVars
  <2>2. ASSUME NEW c \in Beat!Hearts, Beat!ConnectionEnds(c)
        PROVE  Beat!TypeOK'
    BY <2>2 DEF HeartsInv, Beat!TypeOK, Beat!ConnectionEnds, Beat!tickerVars
  <2>3. CASE Beat!CloseTest
    BY <2>3 DEF HeartsInv, Beat!TypeOK, Beat!CloseTest, Beat!CloserGoes, Beat!connVars,
       Beat!tickerVars
  <2>4. CASE Beat!CloseDies
    BY <2>4 DEF HeartsInv, Beat!TypeOK, Beat!CloseDies, Beat!connVars, Beat!tickerVars
  <2>5. CASE Beat!SetClosed
    BY <2>5 DEF HeartsInv, Beat!TypeOK, Beat!SetClosed, Beat!CloserGoes, Beat!connVars,
       Beat!tickerVars
  <2>6. CASE Beat!CloseStop \/ Beat!CloseClear
    BY <2>6 DEF HeartsInv, Beat!TypeOK, Beat!CloseStop, Beat!CloseClear, Beat!CloserGoes,
       Beat!connVars
  <2>7. CASE Beat!OnClosed
    BY <2>7 DEF HeartsInv, Beat!TypeOK, Beat!OnClosed, Beat!CloserGoes, Beat!tickerVars
  <2> QED
    BY <2>1, <2>2, <2>3, <2>4, <2>5, <2>6, <2>7 DEF Beat!CloseStep
<1>2. /\ UNCHANGED <<turn, at, holds>>
      /\ ticker' \in {ticker, Beat!None} /\ running' \subseteq running
  BY DEF Beat!CloseTest, Beat!CloseStep, Beat!CloseStop, Beat!CloseDies,
     Beat!CloseClear, Beat!SetClosed, Beat!OnClosed, Beat!Silence,
     Beat!ConnectionEnds, Beat!CloserGoes, Beat!tickerVars
<1>3. \A t \in Beat!Hearts : Known(t)' => Known(t)
  BY <1>2, LoopIsNoHeart DEF Known
<1> QED
  BY <1>1, <1>2, <1>3, StayKeepsOrder DEF HeartsInv

(* Every step keeps the types and the order of the turns. *)
LEMMA NextHearts ==
  ASSUME MaxTurns \in Nat \ {0}, HeartsInv, [Beat!Next]_(Beat!vars)
  PROVE  HeartsInv'
PROOF
<1>1. CASE UNCHANGED Beat!vars
  BY <1>1 DEF HeartsInv, Beat!TypeOK, TurnsInOrder, Known, Beat!vars, Beat!connVars,
     Beat!tickerVars
<1>2. CASE Beat!LoopStep \/ Beat!Message \/ Beat!ReadFails
  BY <1>2, TurnKeepsHearts, LoopKeepsHearts DEF Beat!LoopStep
<1>3. ASSUME NEW h \in Beat!Hearts, Beat!HeartStep(h)
      PROVE  HeartsInv'
  BY <1>3, TickerKeepsHearts, HeartKeepsHearts DEF Beat!HeartStep
<1> QED
  BY <1>1, <1>2, <1>3, SendKeepsHearts, OthersKeepHearts DEF Beat!Next

(* Heartbeat, for any number of turns: the types hold, and the Hearts of a turn is
   started once and makes its ticker once. *)
THEOREM HeartbeatInvariance ==
  ASSUME MaxTurns \in Nat \ {0}
  PROVE  Beat!Spec => []HeartsInv
PROOF
<1>1. Beat!Init => HeartsInv
  BY InitHearts
<1>2. HeartsInv /\ [Beat!Next]_(Beat!vars) => HeartsInv'
  BY NextHearts
<1> QED
  BY <1>1, <1>2, PTL DEF Beat!Spec

(* Heartbeat.TypeOK: every variable keeps its type. *)
THEOREM HeartbeatTypes ==
  ASSUME MaxTurns \in Nat \ {0}
  PROVE  Beat!Spec => []Beat!TypeOK
PROOF
<1>1. HeartsInv => Beat!TypeOK
  BY DEF HeartsInv
<1> QED
  BY <1>1, HeartbeatInvariance, PTL

(* manage.go:84-91, 122-129: a Hearts that waits on a ticker which another
   goroutine, or OnClosing, stopped. *)
StaysRobbed == \A h \in Beat!Hearts : Beat!Robbed(h) => Beat!Robbed(h)'

(* No step starts its ticker again, and it takes none itself. *)
LEMMA StepLeavesRobbed ==
  ASSUME MaxTurns \in Nat \ {0}, HeartsInv, [Beat!Next]_(Beat!vars)
  PROVE  StaysRobbed
PROOF
<1> SUFFICES ASSUME NEW h \in Beat!Hearts, at[h] = "wait", holds[h] \notin running
             PROVE  at'[h] = "wait" /\ holds'[h] \notin running'
  BY DEF StaysRobbed, Beat!Robbed
<1>1. /\ h \in Beat!Procs /\ h # Beat!Loop
      /\ at \in [Beat!Procs -> HeartPlaces]
      /\ holds \in [Beat!Hearts -> Beat!Hearts \cup {Beat!None}]
      /\ Beat!Loop \in Beat!Procs
  BY LoopIsNoHeart DEF HeartsInv, Beat!TypeOK, HeartPlaces
<1>2. ASSUME UNCHANGED <<at, holds>>, running' \subseteq running
      PROVE  at'[h] = "wait" /\ holds'[h] \notin running'
  BY <1>2
<1>3. CASE Beat!StartHearts
  <2>1. turn \in Beat!Hearts /\ at[turn] = "idle"
    BY <1>3 DEF HeartsInv, TurnsInOrder, Beat!StartHearts
  <2> QED
    BY <1>1, <1>3, <2>1 DEF Beat!StartHearts, Beat!tickerVars
<1>4. CASE Beat!CheckClosed \/ Beat!DialFails \/ Beat!DialSucceeds \/ Beat!ListenTest
           \/ Beat!ListenLoad \/ Beat!Message \/ Beat!ReadFails
  BY <1>1, <1>4 DEF Beat!CheckClosed, Beat!DialFails, Beat!DialSucceeds,
     Beat!ListenTest, Beat!ListenLoad, Beat!Message, Beat!ReadFails, Beat!Goes,
     Beat!Dies, Beat!tickerVars
<1>5. ASSUME NEW p \in Beat!Procs, Beat!SendStep(p)
      PROVE  at'[h] = "wait" /\ holds'[h] \notin running'
  BY <1>1, <1>5 DEF Beat!SendStep, Beat!SendTest, Beat!SendBegin, Beat!SendEnd,
     Beat!Goes, Beat!Dies, Beat!tickerVars
<1>6. ASSUME NEW k \in Beat!Hearts, Beat!MakeTicker(k)
      PROVE  at'[h] = "wait" /\ holds'[h] \notin running'
  <2>1. k \in Beat!Procs /\ at[k] = "make" /\ at' = [at EXCEPT ![k] = "range"]
        /\ running' = running \cup {k} /\ holds' = holds
    BY <1>6, LoopIsNoHeart DEF Beat!MakeTicker, Beat!Goes
  <2>2. holds[h] # k
    BY <2>1 DEF HeartsInv, TurnsInOrder, Known
  <2> QED
    BY <1>1, <2>1, <2>2
<1>7. ASSUME NEW k \in Beat!Hearts, Beat!HeartStep(k), ~Beat!MakeTicker(k)
      PROVE  at'[h] = "wait" /\ holds'[h] \notin running'
  BY <1>1, <1>7, LoopIsNoHeart DEF Beat!HeartStep, Beat!RangeTicker, Beat!Tick,
     Beat!TestStop, Beat!TestLate, Beat!HangUp, Beat!LeaveTest, Beat!LeaveStop,
     Beat!LeaveClear, Beat!Goes, Beat!Dies, Beat!tickerVars
<1>8. CASE \/ Beat!CloseTest \/ Beat!CloseStep \/ Beat!Silence
           \/ \E c \in Beat!Hearts : Beat!ConnectionEnds(c)
  BY <1>2, <1>8 DEF Beat!CloseTest, Beat!CloseStep, Beat!CloseStop, Beat!CloseDies,
     Beat!CloseClear, Beat!SetClosed, Beat!OnClosed, Beat!Silence,
     Beat!ConnectionEnds, Beat!CloserGoes, Beat!tickerVars
<1>9. CASE UNCHANGED Beat!vars
  BY <1>2, <1>9 DEF Beat!vars, Beat!tickerVars
<1> QED
  BY <1>3, <1>4, <1>5, <1>6, <1>7, <1>8, <1>9 DEF Beat!Next, Beat!LoopStep

(* A Hearts whose ticker somebody else stopped waits on it for ever, whoever goes
   on and however many turns follow: the goroutine is lost, not late. *)
THEOREM RobbedForGood ==
  ASSUME MaxTurns \in Nat \ {0}
  PROVE  Beat!Spec => [][StaysRobbed]_(Beat!vars)
PROOF
<1>1. HeartsInv /\ [Beat!Next]_(Beat!vars) => StaysRobbed
  BY StepLeavesRobbed
<1> QED
  BY <1>1, HeartbeatInvariance, PTL DEF Beat!Spec

===============================================================================
