---------------------------- MODULE CallContract ----------------------------
(***************************************************************************)
(* What one method call of a Quesen client promises to its caller: an      *)
(* at-least-once remote call.  The engine may act on a call several times, *)
(* at most once per attempt and possibly after the call has returned; a    *)
(* call that returns an answer returns one the engine gave to that very    *)
(* call; any call may instead raise.                                       *)
(*                                                                         *)
(* ClientCalls implements this specification; FirewallGuard is built on it,*)
(* with MaxAttempts a positive number.                                     *)
(***************************************************************************)
EXTENDS Naturals

CONSTANTS
  Callers,      \* threads or tasks that share one client
  AllAnswers,   \* everything a 2xx response can carry
  MaxAttempts,  \* retries + 1
  MaxCalls      \* bound: calls one caller makes

VARIABLES
  phase,        \* phase[c]: is a call of c open?
  round,        \* round[c]: number of the latest call of c
  result,       \* result[c]: what the latest call of c returned
  effects       \* what the engine did: one record per attempt it acted on

contractVars == <<phase, round, result, effects>>

Effects == [caller : Callers, round : 1 .. MaxCalls,
            attempt : 0 .. MaxAttempts - 1, answer : AllAnswers]

Results == {[kind |-> "none"], [kind |-> "error"]}
             \cup [kind : {"ok"}, answer : AllAnswers]

TypeOK ==
  /\ phase \in [Callers -> {"idle", "open"}]
  /\ round \in [Callers -> 0 .. MaxCalls]
  /\ result \in [Callers -> Results]
  /\ effects \subseteq Effects

Init ==
  /\ phase = [c \in Callers |-> "idle"]
  /\ round = [c \in Callers |-> 0]
  /\ result = [c \in Callers |-> [kind |-> "none"]]
  /\ effects = {}

Begin(c) ==
  /\ phase[c] = "idle"
  /\ round[c] < MaxCalls
  /\ phase' = [phase EXCEPT ![c] = "open"]
  /\ round' = [round EXCEPT ![c] = @ + 1]
  /\ result' = [result EXCEPT ![c] = [kind |-> "none"]]
  /\ UNCHANGED effects

\* The engine acts on attempt k of call r of caller c.  The call may be over.
Act(c, r, k, a) ==
  /\ r \in 1 .. round[c]
  /\ \A e \in effects : <<e.caller, e.round, e.attempt>> # <<c, r, k>>
  /\ effects' = effects \cup
       {[caller |-> c, round |-> r, attempt |-> k, answer |-> a]}
  /\ UNCHANGED <<phase, round, result>>

ReturnAnswer(c, e) ==
  /\ phase[c] = "open"
  /\ e.caller = c
  /\ e.round = round[c]
  /\ phase' = [phase EXCEPT ![c] = "idle"]
  /\ result' = [result EXCEPT ![c] = [kind |-> "ok", answer |-> e.answer]]
  /\ UNCHANGED <<round, effects>>

Raise(c) ==
  /\ phase[c] = "open"
  /\ phase' = [phase EXCEPT ![c] = "idle"]
  /\ result' = [result EXCEPT ![c] = [kind |-> "error"]]
  /\ UNCHANGED <<round, effects>>

EngineActs ==
  \E c \in Callers, r \in 1 .. MaxCalls, k \in 0 .. MaxAttempts - 1,
     a \in AllAnswers : Act(c, r, k, a)

CallReturns(c) == \/ \E e \in effects : ReturnAnswer(c, e)
                  \/ Raise(c)

Next == \/ EngineActs
        \/ \E c \in Callers : Begin(c) \/ CallReturns(c)

Spec == Init /\ [][Next]_contractVars
=============================================================================
