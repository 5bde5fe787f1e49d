------------------------------- MODULE ProxyAuth -------------------------------
(***************************************************************************)
(* agent/common.go, authAgent: the exchange of datagrams by which a host    *)
(* authenticates to a proxy, SYN then REQ, each sent up to three times with *)
(* 100 ms for its answer.  One exchange is a record, and each step of it a  *)
(* set of records, from which the module that owns the exchange picks.      *)
(*                                                                          *)
(* The network loses, delays and repeats datagrams; the proxy, which is     *)
(* external, answers what reaches it, a REQ only if it accepts it.          *)
(***************************************************************************)
EXTENDS Naturals

CONSTANT Attempts   \* tries of each datagram: 3 in the code

ASSUME AttemptsArePositive == Attempts \in Nat \ {0}

Exchange ==
  [stage : {"none", "syn", "req", "ok", "failed"},
   attempt : 0 .. Attempts,
   sent : BOOLEAN,               \* the datagram is out, ReadFrom waits
   air : SUBSET {"syn", "req"},  \* answers on their way
   accepted : BOOLEAN,           \* the proxy accepted a REQ (history)
   deadline : BOOLEAN,           \* the connection has a read deadline
   address : 0 .. 2]             \* which of the two addresses of the proxy

NoExchange ==
  [stage |-> "none", attempt |-> 0, sent |-> FALSE, air |-> {}, accepted |-> FALSE,
   deadline |-> FALSE, address |-> 0]

(* A new connection: no answer to an earlier one reaches it. *)
Begin(address) ==
  [NoExchange EXCEPT !.stage = "syn", !.attempt = 1, !.address = address]

Waits(a) == a.stage \in {"syn", "req"}

(* WriteTo and SetReadDeadline. *)
Send(a) ==
  {b \in {[a EXCEPT !.sent = TRUE, !.deadline = TRUE]} : Waits(a) /\ ~a.sent}

Retry(a) ==
  IF a.attempt = Attempts
    THEN [a EXCEPT !.stage = "failed", !.sent = FALSE]
    ELSE [a EXCEPT !.attempt = @ + 1, !.sent = FALSE]

TimesOut(a) == {b \in {Retry(a)} : a.sent}

(* The wait for the answer to SYN takes whatever comes. *)
ReadSyn(a) ==
  {[a EXCEPT !.stage = "req", !.attempt = 1, !.sent = FALSE, !.air = @ \ {d}] :
     d \in {e \in a.air : a.stage = "syn" /\ a.sent}}

(* Mutant: the wait for the answer to REQ does, too. *)
ReadReqAny(a) ==
  {[a EXCEPT !.stage = "ok", !.sent = FALSE, !.air = @ \ {d}, !.deadline = FALSE] :
     d \in {e \in a.air : a.stage = "req" /\ a.sent}}

(* That for REQ looks at its flag; the late answer to a SYN uses up one of
   its attempts.  The deadline is cleared for quic's use of the connection. *)
ReadReq(a) ==
  {IF d = "req"
     THEN [a EXCEPT !.stage = "ok", !.sent = FALSE, !.air = @ \ {d}, !.deadline = FALSE]
     ELSE Retry([a EXCEPT !.air = @ \ {d}]) :
     d \in {e \in a.air : a.stage = "req" /\ a.sent}}

(* WriteTo or SetReadDeadline fails. *)
IoFails(a) == {b \in {[a EXCEPT !.stage = "failed", !.sent = FALSE]} : Waits(a) /\ ~a.sent}

AuthSteps(a) == Send(a) \cup TimesOut(a) \cup ReadSyn(a) \cup ReadReq(a) \cup IoFails(a)

(* A SYN was sent, in this stage or before. *)
AnswerSyn(a) ==
  {b \in {[a EXCEPT !.air = @ \cup {"syn"}]} :
     a.stage = "req" \/ (a.stage = "syn" /\ (a.sent \/ a.attempt > 1))}

AnswerReq(a) ==
  {b \in {[a EXCEPT !.air = @ \cup {"req"}, !.accepted = TRUE]} :
     a.stage = "req" /\ (a.sent \/ a.attempt > 1)}

ProxySteps(a) == AnswerSyn(a) \cup AnswerReq(a)

===============================================================================
