---------------------------- MODULE ManagePlatform -----------------------------
(***************************************************************************)
(* agent/manage.go and the exports that drive it (exports/openapi.go:       *)
(* ProxyServerCreate, ServerClose): a loop keeps a websocket to the         *)
(* management platform, connects to the agents the platform names, and      *)
(* dials again when the websocket ends.                                     *)
(*                                                                          *)
(* The loop of a manager does not hold it: at every turn it loads the       *)
(* global managerCtx, which the application sets to nil when it closes the  *)
(* manager and to a new manager when it creates one again.  So the loop of  *)
(* an earlier manager may find itself serving the next.                     *)
(***************************************************************************)
EXTENDS ProxyAuth

CONSTANTS MaxManagers, \* bound: managers created
          MaxConns,    \* bound: dials that succeed
          Idxs         \* the agents the platform may name

Managers == 1 .. MaxManagers
Loops    == Managers      \* a loop is named by the manager it was started for
Conns    == 1 .. MaxConns
None     == 0             \* a nil pointer

ASSUME BoundsAreNat == MaxManagers \in Nat \ {0} /\ MaxConns \in Nat
ASSUME AgentsExist == Idxs # {}

VARIABLES
  managerCtx,
  created,         \* managers created so far
  mClosed,         \* IsClosed of each manager
  wsConn,          \* wsConn of each manager
  agents,          \* Agents of each manager: the indexes that are set
  net,             \* of each connection: "none", "up", "down"
  app,             \* where the application is in ServerClose
  pc,              \* where a loop is
  mgr,             \* the manager whose method it is in
  reads, asked,    \* the connection it reads from, the agent it was asked to connect
  auth,            \* its exchange with the proxy of that agent
  made,            \* the times an agent was connected, of each manager (history)
  shared,          \* a loop served a manager it was not started for (history)
  panic            \* "none", or where the process died

appVars  == <<managerCtx, created, app>>
mgrVars  == <<mClosed, wsConn, agents>>
loopVars == <<mgr, reads, asked, auth>>
vars == <<appVars, mgrVars, net, pc, loopVars, made, shared, panic>>

Init ==
  /\ managerCtx = None /\ created = 0 /\ app = "idle"
  /\ mClosed = [m \in Managers |-> FALSE]
  /\ wsConn = [m \in Managers |-> None]
  /\ agents = [m \in Managers |-> {}]
  /\ net = [c \in Conns |-> "none"]
  /\ pc = [l \in Loops |-> "idle"]
  /\ mgr = [l \in Loops |-> None]
  /\ reads = [l \in Loops |-> None]
  /\ asked \in [Loops -> {CHOOSE i \in Idxs : TRUE}]
  /\ auth = [l \in Loops |-> NoExchange]
  /\ made = [m \in Managers |-> [i \in Idxs |-> 0]]
  /\ shared = FALSE /\ panic = "none"

Goes(l, from, to) == pc[l] = from /\ pc' = [pc EXCEPT ![l] = to]
Dies(l, from) == pc[l] = from /\ panic' = from /\ UNCHANGED pc

Gone == managerCtx # None => mClosed[managerCtx]

-------------------------------------------------------------------------------
(* The application, which makes one call at a time.                        *)

ProxyServerCreate ==
  LET m == created + 1
  IN /\ app = "idle" /\ created < MaxManagers
     /\ Gone
     /\ managerCtx' = m /\ created' = m
     /\ Goes(m, "idle", "check")
     /\ UNCHANGED <<app, mgrVars, net, loopVars, made, shared, panic>>

(* Close of the manager up to IsClosed. *)
CloseBegin ==
  /\ app = "idle" /\ managerCtx # None /\ app' = "closed"
  /\ mClosed' = [mClosed EXCEPT ![managerCtx] = TRUE]
  /\ UNCHANGED <<managerCtx, created, wsConn, agents, net, pc, loopVars, made,
                 shared, panic>>

(* Mutant: wsConn is only forgotten. *)
OnClosedForgets ==
  /\ app = "closed" /\ app' = "nil"
  /\ wsConn' = [wsConn EXCEPT ![managerCtx] = None]
  /\ UNCHANGED <<managerCtx, created, mClosed, agents, net, pc, loopVars, made,
                 shared, panic>>

OnClosed ==
  /\ app = "closed" /\ app' = "nil"
  /\ net' = [c \in Conns |-> IF c = wsConn[managerCtx] THEN "down" ELSE net[c]]
  /\ wsConn' = [wsConn EXCEPT ![managerCtx] = None]
  /\ UNCHANGED <<managerCtx, created, mClosed, agents, pc, loopVars, made,
                 shared, panic>>

ServerClose ==
  /\ app = "nil" /\ app' = "idle" /\ managerCtx' = None
  /\ UNCHANGED <<created, mgrVars, net, pc, loopVars, made, shared, panic>>

-------------------------------------------------------------------------------
(* The loop.                                                               *)

CheckClosed(l) ==
  /\ Goes(l, "check", IF Gone THEN "gone" ELSE "connect")
  /\ UNCHANGED <<appVars, mgrVars, net, loopVars, made, shared, panic>>

(* Each method is called on managerCtx as it is by then, and dies of nil. *)
Enters(l, from, to) ==
  /\ IF managerCtx = None
       THEN Dies(l, from) /\ UNCHANGED <<mgr, shared>>
       ELSE /\ Goes(l, from, to) /\ UNCHANGED panic
            /\ mgr' = [mgr EXCEPT ![l] = managerCtx]
            /\ shared' = (shared \/ managerCtx # l)
  /\ UNCHANGED <<appVars, wsConn, agents, mClosed, net, reads, asked, auth, made>>

ConnectToPlatform(l) == Enters(l, "connect", "dial")

DialFails(l) ==
  /\ Goes(l, "dial", "hearts")
  /\ UNCHANGED <<appVars, mgrVars, net, loopVars, made, shared, panic>>

(* The connection takes the place of the last one, and REG is sent. *)
DialSucceeds(l, c) ==
  /\ Goes(l, "dial", "hearts")
  /\ net[c] = "none" /\ \A b \in Conns : b < c => net[b] # "none"
  /\ net' = [net EXCEPT ![c] = "up"]
  /\ wsConn' = [wsConn EXCEPT ![mgr[l]] = c]
  /\ UNCHANGED <<appVars, mClosed, agents, loopVars, made, shared, panic>>

(* go managerCtx.Hearts() *)
StartHearts(l) == Enters(l, "hearts", "listen")

ListenAgentConnect(l) == Enters(l, "listen", "test")

(* Without a connection it returns nil at once, and the loop goes round. *)
TestConn(l) ==
  /\ pc[l] = "test"
  /\ Goes(l, "test", IF wsConn[mgr[l]] = None \/ mClosed[mgr[l]] THEN "check" ELSE "load")
  /\ UNCHANGED <<appVars, mgrVars, net, loopVars, made, shared, panic>>

LoadConn(l) ==
  /\ pc[l] = "load"
  /\ LET c == wsConn[mgr[l]]
     IN IF c = None THEN Dies(l, "load") /\ UNCHANGED reads
                    ELSE /\ Goes(l, "load", "read") /\ UNCHANGED panic
                         /\ reads' = [reads EXCEPT ![l] = c]
  /\ UNCHANGED <<appVars, mgrVars, net, mgr, asked, auth, made, shared>>

(* A pong, an answer to REG, or what is no successful proxy action. *)
OtherMessage(l) ==
  /\ pc[l] = "read" /\ net[reads[l]] = "up"
  /\ Goes(l, "read", "test") /\ reads' = [reads EXCEPT ![l] = None]
  /\ UNCHANGED <<appVars, mgrVars, net, mgr, asked, auth, made, shared, panic>>

(* Mutant: the agent is connected whether or not there is one. *)
ProxyMessageAgain(l, i) ==
  /\ pc[l] = "read" /\ net[reads[l]] = "up"
  /\ Goes(l, "read", "auth")
  /\ asked' = [asked EXCEPT ![l] = i] /\ reads' = [reads EXCEPT ![l] = None]
  /\ auth' = [auth EXCEPT ![l] = Begin(1)]
  /\ UNCHANGED <<appVars, mgrVars, net, mgr, made, shared, panic>>

(* The platform names an agent: it is connected unless it is there. *)
ProxyMessage(l, i) ==
  /\ pc[l] = "read" /\ net[reads[l]] = "up"
  /\ Goes(l, "read", IF i \in agents[mgr[l]] THEN "test" ELSE "auth")
  /\ asked' = [asked EXCEPT ![l] = i] /\ reads' = [reads EXCEPT ![l] = None]
  /\ auth' = [auth EXCEPT ![l] = IF i \in agents[mgr[l]] THEN NoExchange ELSE Begin(1)]
  /\ UNCHANGED <<appVars, mgrVars, net, mgr, made, shared, panic>>

Authenticate(l) ==
  /\ pc[l] = "auth" /\ \E a \in AuthSteps(auth[l]) : auth' = [auth EXCEPT ![l] = a]
  /\ UNCHANGED <<appVars, mgrVars, net, pc, mgr, reads, asked, made, shared, panic>>

AuthEnds(l, stage) ==
  /\ auth[l].stage = stage /\ Goes(l, "auth", "test")
  /\ auth' = [auth EXCEPT ![l] = NoExchange]

(* Mutant: the agent is stored under the next index. *)
AgentConnectsOffByOne(l) ==
  /\ AuthEnds(l, "ok")
  /\ agents' = [agents EXCEPT ![mgr[l]] = @ \cup {asked[l] + 1}]
  /\ UNCHANGED <<appVars, mClosed, wsConn, net, mgr, reads, asked, made, shared,
                 panic>>

(* The server on the authenticated connection, and Agents[i]. *)
AgentConnects(l) ==
  /\ AuthEnds(l, "ok")
  /\ agents' = [agents EXCEPT ![mgr[l]] = @ \cup {asked[l]}]
  /\ made' = [made EXCEPT ![mgr[l]][asked[l]] = @ + 1]
  /\ UNCHANGED <<appVars, mClosed, wsConn, net, mgr, reads, asked, shared, panic>>

(* With AllowExternal there is a second address to try. *)
AgentRetries(l) ==
  /\ pc[l] = "auth" /\ auth[l].stage = "failed" /\ auth[l].address = 1
  /\ auth' = [auth EXCEPT ![l] = Begin(2)]
  /\ UNCHANGED <<appVars, mgrVars, net, pc, mgr, reads, asked, made, shared, panic>>

AgentFails(l) ==
  /\ AuthEnds(l, "failed")
  /\ UNCHANGED <<appVars, mgrVars, net, mgr, reads, asked, made, shared, panic>>

ReadFails(l) ==
  /\ pc[l] = "read" /\ net[reads[l]] # "up"
  /\ Goes(l, "read", "error") /\ reads' = [reads EXCEPT ![l] = None]
  /\ UNCHANGED <<appVars, mgrVars, net, mgr, asked, auth, made, shared, panic>>

(* Mutant: the loop ends with its first error. *)
AfterErrorGone(l) ==
  /\ Goes(l, "error", "gone")
  /\ UNCHANGED <<appVars, mgrVars, net, loopVars, made, shared, panic>>

(* The loop ends, or sleeps for three seconds. *)
AfterError(l) ==
  /\ Goes(l, "error", IF Gone THEN "gone" ELSE "sleep")
  /\ UNCHANGED <<appVars, mgrVars, net, loopVars, made, shared, panic>>

Wake(l) ==
  /\ Goes(l, "sleep", "check")
  /\ UNCHANGED <<appVars, mgrVars, net, loopVars, made, shared, panic>>

LoopStep(l) ==
  \/ CheckClosed(l) \/ ConnectToPlatform(l)
  \/ DialFails(l) \/ \E c \in Conns : DialSucceeds(l, c)
  \/ StartHearts(l) \/ ListenAgentConnect(l) \/ TestConn(l) \/ LoadConn(l)
  \/ Authenticate(l) \/ AgentConnects(l) \/ AgentRetries(l) \/ AgentFails(l) \/ ReadFails(l) \/ AfterError(l) \/ Wake(l)

ProxyAnswers(l) ==
  /\ pc[l] = "auth" /\ \E a \in ProxySteps(auth[l]) : auth' = [auth EXCEPT ![l] = a]
  /\ UNCHANGED <<appVars, mgrVars, net, pc, mgr, reads, asked, made, shared, panic>>

PeerStep(l) == OtherMessage(l) \/ ProxyAnswers(l) \/ \E i \in Idxs : ProxyMessage(l, i)

-------------------------------------------------------------------------------

(* The peer or the network ends a connection, or a goroutine in Hearts closes
   it because the pong is overdue; wsConn stays. *)
ConnectionEnds(c) ==
  /\ net[c] = "up" /\ net' = [net EXCEPT ![c] = "down"]
  /\ UNCHANGED <<appVars, mgrVars, pc, loopVars, made, shared, panic>>

Next ==
  /\ panic = "none"
  /\ \/ ProxyServerCreate \/ CloseBegin \/ OnClosed \/ ServerClose
     \/ \E l \in Loops : LoopStep(l) \/ PeerStep(l)
     \/ \E c \in Conns : ConnectionEnds(c)

(* What happens without the platform and new calls. *)
Progress ==
  panic = "none" /\ (OnClosed \/ ServerClose \/ \E l \in Loops : LoopStep(l))

Spec == Init /\ [][Next]_vars
FairSpec == Spec /\ WF_vars(Progress)

-------------------------------------------------------------------------------

TypeOK ==
  /\ managerCtx \in Managers \cup {None} /\ created \in 0 .. MaxManagers
  /\ app \in {"idle", "closed", "nil"}
  /\ mClosed \in [Managers -> BOOLEAN]
  /\ wsConn \in [Managers -> Conns \cup {None}]
  /\ agents \in [Managers -> SUBSET Idxs]
  /\ net \in [Conns -> {"none", "up", "down"}]
  /\ pc \in [Loops -> {"idle", "check", "connect", "dial", "hearts", "listen", "test",
                       "load", "read", "auth", "error", "sleep", "gone"}]
  /\ mgr \in [Loops -> Managers \cup {None}]
  /\ reads \in [Loops -> Conns \cup {None}] /\ asked \in [Loops -> Idxs]
  /\ auth \in [Loops -> Exchange]
  /\ made \in [Managers -> [Idxs -> Nat]]
  /\ shared \in BOOLEAN
  /\ panic \in {"none", "connect", "hearts", "listen", "load"}

(* manage.go:194: however often the platform names an agent, over however
   many connections, it is connected once, unless the loop of an earlier
   manager serves this one too. *)
AgentConnectedOnce ==
  \A m \in Managers, i \in Idxs : made[m][i] <= 1 \/ shared

(* common.go:139-215: an exchange succeeds only if the proxy accepted a REQ of
   it, however late or often answers come, and leaves a connection without
   the read deadline that would stop the server on it. *)
AgentsAuthenticated ==
  \A l \in Loops : auth[l].stage = "ok" => auth[l].accepted /\ ~auth[l].deadline

(* openapi.go:602-630: an open manager has a loop that serves it or will,
   whatever became of its connections and of the manager before it. *)
AlwaysServed ==
  ~Gone => \E l \in Loops : pc[l] \notin {"idle", "gone"}

(* openapi.go:604: once the application has closed the manager for good,
   every loop ends, from whatever step it was in. *)
LoopsEnd ==
  <>[](managerCtx = None)
    => <>(shared \/ panic # "none") \/ <>[](\A l \in Loops : pc[l] \in {"idle", "gone"})

(* openapi.go:604: after the manager was closed the loop connects no more.  A
   ServerClose that comes to its end while the loop is in ConnectToPlatform,
   that is in the dial, ends the loop, and not the process. *)
CloseEndsLoop == panic # "hearts"

===============================================================================
