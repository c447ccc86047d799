---------------------------- MODULE FirewallGuard ----------------------------
(***************************************************************************)
(* QuesenFirewall (quesen_sdk/firewall.py): the gate in front of an agent's *)
(* action.  One function wrapped by @fw.guard, and actions gated inline by  *)
(* require_pass(), run by several threads that share the firewall and its   *)
(* client.                                                                  *)
(*                                                                          *)
(* The call to the engine inside check() is a call of CallContract, which   *)
(* ClientCalls implements: it may act several times, act late, or raise.    *)
(***************************************************************************)
EXTENDS Naturals

CONSTANTS
  Callers,      \* threads that invoke the wrapped function
  Decisions,    \* what an engine may put in "decision", "PASS" among others
  MaxAttempts,  \* attempts per call to the engine
  MaxCalls      \* bound: invocations one thread makes

ASSUME FirewallAssumption ==
  /\ MaxAttempts \in Nat \ {0}
  /\ MaxCalls \in Nat
  /\ "PASS" \in Decisions

VARIABLES
  phase, round, result, effects,   \* the engine calls, as in CallContract
  gate,           \* gate[c]: where thread c is in _wrapper or require_pass
  via,            \* via[c]: "guard" or "require_pass"
  decision,       \* decision[c]: the local variable of _wrapper
  lastDecision,   \* the attribute _wrapper.last_decision
  ended,          \* ended[c]: how the latest invocation of c ended
  ran             \* the invocations in which the gated action was executed

Call == INSTANCE CallContract WITH AllAnswers <- Decisions

gateVars == <<gate, via, decision, lastDecision, ended, ran>>
vars == <<phase, round, result, effects, gate, via, decision, lastDecision, ended, ran>>

None == [by |-> "none"]
Verdict(c) == [by |-> c, round |-> round[c], decision |-> decision[c]]

Init ==
  /\ Call!Init
  /\ gate = [c \in Callers |-> "idle"]
  /\ via = [c \in Callers |-> "guard"]
  /\ decision = [c \in Callers |-> "none"]
  /\ lastDecision = None
  /\ ended = [c \in Callers |-> "none"]
  /\ ran = {}

\* The gated function is called: check() builds the context and calls the engine.
Enter(c, how) ==
  /\ gate[c] = "idle"
  /\ Call!Begin(c)
  /\ gate' = [gate EXCEPT ![c] = "check"]
  /\ via' = [via EXCEPT ![c] = how]
  /\ decision' = [decision EXCEPT ![c] = "none"]
  /\ ended' = [ended EXCEPT ![c] = "none"]
  /\ UNCHANGED <<lastDecision, ran>>

End(c, how) == /\ gate' = [gate EXCEPT ![c] = "idle"]
               /\ ended' = [ended EXCEPT ![c] = how]

\* validate_tsc() returns a decision.
Decided(c) ==
  /\ gate[c] = "check"
  /\ \E e \in effects : /\ Call!ReturnAnswer(c, e)
                        /\ decision' = [decision EXCEPT ![c] = e.answer]
  /\ gate' = [gate EXCEPT ![c] = IF via[c] = "guard" THEN "record" ELSE "require"]
  /\ UNCHANGED <<via, lastDecision, ended, ran>>

\* Mutants: the wrapper records the verdict it does not have; it goes on when
\* the engine cannot be asked; it makes up a BLOCK for the audit.
RaiseRecordsNothing(c) ==
  /\ gate[c] = "check"
  /\ Call!Raise(c)
  /\ End(c, "raised")
  /\ lastDecision' = Verdict(c)
  /\ UNCHANGED <<via, decision, ran>>

RaiseFailsOpen(c) ==
  /\ gate[c] = "check"
  /\ Call!Raise(c)
  /\ gate' = [gate EXCEPT ![c] = "run"]
  /\ UNCHANGED <<via, decision, lastDecision, ended, ran>>

RaiseMakesUpBlock(c) ==
  /\ gate[c] = "check"
  /\ Call!Raise(c)
  /\ End(c, "raised")
  /\ lastDecision' = [by |-> c, round |-> round[c], decision |-> "BLOCK"]
  /\ UNCHANGED <<via, decision, ran>>

\* validate_tsc() raises: the exception leaves check() and the gate.
CheckRaises(c) ==
  /\ gate[c] = "check"
  /\ Call!Raise(c)
  /\ End(c, "raised")
  /\ UNCHANGED <<via, decision, lastDecision, ran>>

\* Mutant: only the verdicts that stop the action are recorded.
RecordBlocks(c) ==
  /\ gate[c] = "record"
  /\ lastDecision' = IF decision[c] = "PASS" THEN lastDecision ELSE Verdict(c)
  /\ gate' = [gate EXCEPT ![c] = "require"]
  /\ UNCHANGED <<phase, round, result, effects, via, decision, ended, ran>>

Record(c) ==
  /\ gate[c] = "record"
  /\ lastDecision' = Verdict(c)
  /\ gate' = [gate EXCEPT ![c] = "require"]
  /\ UNCHANGED <<phase, round, result, effects, via, decision, ended, ran>>

\* Mutant: the wrapper asks last_decision, which all threads share.
AdmitShared(c) ==
  /\ gate[c] = "require"
  /\ lastDecision # None
  /\ lastDecision.decision = "PASS"
  /\ gate' = [gate EXCEPT ![c] = "run"]
  /\ UNCHANGED <<phase, round, result, effects, via, decision, lastDecision, ended, ran>>

\* decision.require_pass(): `allowed` is an explicit PASS.
Admit(c) ==
  /\ gate[c] = "require"
  /\ decision[c] = "PASS"
  /\ gate' = [gate EXCEPT ![c] = "run"]
  /\ UNCHANGED <<phase, round, result, effects, via, decision, lastDecision, ended, ran>>

Block(c) ==
  /\ gate[c] = "require"
  /\ decision[c] # "PASS"
  /\ End(c, "blocked")
  /\ UNCHANGED <<phase, round, result, effects, via, decision, lastDecision, ran>>

\* fn(*args, **kwargs), which may raise an exception of its own.
Run(c) ==
  /\ gate[c] = "run"
  /\ ran' = ran \cup {[caller |-> c, round |-> round[c]]}
  /\ End(c, "ran")
  /\ UNCHANGED <<phase, round, result, effects, via, decision, lastDecision>>

EngineActs == Call!EngineActs /\ UNCHANGED gateVars

ThreadStep(c) == \/ \E how \in {"guard", "require_pass"} : Enter(c, how)
                 \/ Decided(c) \/ CheckRaises(c)
                 \/ Record(c) \/ Admit(c) \/ Block(c) \/ Run(c)

Next == EngineActs \/ \E c \in Callers : ThreadStep(c)

Spec == Init /\ [][Next]_vars
-----------------------------------------------------------------------------
Gates == {"idle", "check", "record", "require", "run"}

\* The gate's variables stay in their types; the wrapped function's
\* last_decision is None or a verdict of some invocation.
TypeOK ==
  /\ Call!TypeOK
  /\ gate \in [Callers -> Gates]
  /\ via \in [Callers -> {"guard", "require_pass"}]
  /\ decision \in [Callers -> Decisions \cup {"none"}]
  /\ lastDecision \in {None} \cup
       [by : Callers, round : 1 .. MaxCalls, decision : Decisions]
  /\ ended \in [Callers -> {"none", "raised", "blocked", "ran"}]
  /\ ran \subseteq [caller : Callers, round : 1 .. MaxCalls]

\* The gated action is executed only in an invocation for which the engine
\* itself said PASS to that very invocation's call: not for an earlier call of
\* the thread, not for another thread's, and never when the engine could not
\* be asked.
RunsOnlyOnOwnPass == \A r \in ran : \E e \in effects :
  e.caller = r.caller /\ e.round = r.round /\ e.answer = "PASS"

\* Fail-closed: an invocation that ended in TscBlocked or in the exception of
\* the engine call has not executed the action, and one whose every answer was
\* other than PASS cannot end otherwise.
FailClosed == \A c \in Callers :
  LET here == [caller |-> c, round |-> round[c]] IN
  /\ ended[c] \in {"raised", "blocked"} => here \notin ran
  /\ (\A e \in effects : e.caller = c /\ e.round = round[c] => e.answer # "PASS")
        => ended[c] # "ran" /\ gate[c] # "run"

\* Every verdict in last_decision is one the engine gave to the invocation it
\* is attributed to, however the threads interleave.
AuditGenuine == lastDecision # None => \E e \in effects :
  /\ e.caller = lastDecision.by
  /\ e.round = lastDecision.round
  /\ e.answer = lastDecision.decision

\* While the wrapped function runs, last_decision is never a verdict left over
\* from an earlier invocation of the same thread, nor missing: only another
\* thread can have overtaken it.  With one thread it is AuditMatchesRun below.
AuditNotStale == \A c \in Callers :
  gate[c] = "run" /\ via[c] = "guard" =>
    /\ lastDecision # None
    /\ lastDecision.by = c => lastDecision = Verdict(c)

\* guard(): "The verdict is attached to the wrapper as .last_decision for
\* auditing": when the wrapped function runs, .last_decision is the verdict
\* that let it run.
AuditMatchesRun == \A c \in Callers :
  gate[c] = "run" /\ via[c] = "guard" => lastDecision = Verdict(c)
=============================================================================
