------------------------- MODULE FirewallGuardProofs -------------------------
(***************************************************************************)
(* The gate is sound for every number of threads and invocations, every    *)
(* retry count and every set of decisions the engine may return.           *)
(***************************************************************************)
EXTENDS FirewallGuard, TLAPS

-----------------------------------------------------------------------------
(* The invariant.                                                           *)

\* The engine gave answer a to the current call of c.
Gave(c, a) == \E e \in effects : e.caller = c /\ e.round = round[c] /\ e.answer = a

\* A thread past check() holds a verdict the engine gave to this invocation,
\* and runs the action only if it is PASS.
GateOf(c) ==
  /\ gate[c] \in {"record", "require", "run"} => Gave(c, decision[c])
  /\ gate[c] = "run" => decision[c] = "PASS"
  /\ gate[c] # "idle" => ended[c] = "none" /\ round[c] > 0
  /\ ended[c] = "ran" => Gave(c, "PASS")

\* The executions so far belong to invocations already begun; the current one is
\* among them only if it ended by running the action.
RanInv == \A r \in ran : /\ r.round <= round[r.caller]
                         /\ r.round = round[r.caller] => ended[r.caller] = "ran"

\* Past Record, the verdict of thread c is in last_decision unless another thread
\* has written there since.
FreshFor(c) == gate[c] \in {"require", "run"} /\ via[c] = "guard" =>
  /\ lastDecision # None
  /\ lastDecision.by = c => lastDecision = Verdict(c)

GInv == /\ TypeOK
        /\ \A c \in Callers : GateOf(c)
        /\ RanInv
        /\ RunsOnlyOnOwnPass
        /\ AuditGenuine
        /\ \A c \in Callers : FreshFor(c)

\* Effects are never withdrawn, and a step of the engine is all that adds one.
LEMMA EffectsGrow == ASSUME [Next]_vars PROVE effects \subseteq effects'
BY DEF Next, ThreadStep, EngineActs, Enter, Decided, CheckRaises, Record, Admit, Block,
       Run, Call!EngineActs, Call!Act, Call!Begin, Call!ReturnAnswer, Call!Raise, vars

\* Every step keeps the types.
LEMMA TypeStep == TypeOK /\ (\A c \in Callers : GateOf(c)) /\ [Next]_vars => TypeOK'
<1> SUFFICES ASSUME TypeOK, \A c \in Callers : GateOf(c), [Next]_vars PROVE TypeOK'
  OBVIOUS
<1> USE FirewallAssumption
<1>1. ASSUME NEW c \in Callers, NEW how \in {"guard", "require_pass"}, Enter(c, how)
      PROVE  TypeOK'
  <2>1. Call!TypeOK'
    BY <1>1 DEF Enter, Call!Begin, TypeOK, Call!TypeOK, Call!Results
  <2> QED BY <1>1, <2>1 DEF Enter, TypeOK, Gates
<1>2. ASSUME NEW c \in Callers, Decided(c) PROVE TypeOK'
  <2>1. PICK e \in effects : /\ Call!ReturnAnswer(c, e)
                             /\ decision' = [decision EXCEPT ![c] = e.answer]
    BY <1>2 DEF Decided
  <2>2. e.answer \in Decisions
    BY <2>1 DEF TypeOK, Call!TypeOK, Call!Effects
  <2>3. Call!TypeOK'
    BY <2>1, <2>2 DEF Call!ReturnAnswer, TypeOK, Call!TypeOK, Call!Results
  <2> QED BY <1>2, <2>1, <2>2, <2>3 DEF Decided, TypeOK, Gates
<1>3. ASSUME NEW c \in Callers, CheckRaises(c) PROVE TypeOK'
  <2>1. Call!TypeOK'
    BY <1>3 DEF CheckRaises, Call!Raise, TypeOK, Call!TypeOK, Call!Results
  <2> QED BY <1>3, <2>1 DEF CheckRaises, End, TypeOK, Gates
<1>4. ASSUME UNCHANGED <<phase, round, result, effects>> PROVE Call!TypeOK'
  BY <1>4 DEF TypeOK, Call!TypeOK
<1>5. ASSUME NEW c \in Callers, Record(c) PROVE TypeOK'
  <2>1. Verdict(c) \in [by : Callers, round : 1 .. MaxCalls, decision : Decisions]
    <3>1. round[c] \in 1 .. MaxCalls
      BY <1>5 DEF Record, GateOf, TypeOK, Call!TypeOK
    <3>2. decision[c] \in Decisions
      BY <1>5 DEF Record, GateOf, Gave, TypeOK, Call!TypeOK, Call!Effects
    <3> QED BY <3>1, <3>2 DEF Verdict
  <2> QED BY <1>4, <1>5, <2>1 DEF Record, TypeOK, Gates
<1>6. ASSUME NEW c \in Callers, Admit(c) PROVE TypeOK'
  BY <1>4, <1>6 DEF Admit, TypeOK, Gates
<1>7. ASSUME NEW c \in Callers, Block(c) PROVE TypeOK'
  BY <1>4, <1>7 DEF Block, End, TypeOK, Gates
<1>8. ASSUME NEW c \in Callers, Run(c) PROVE TypeOK'
  <2>1. round[c] \in 1 .. MaxCalls
    BY <1>8 DEF Run, GateOf, TypeOK, Call!TypeOK
  <2> QED BY <1>4, <1>8, <2>1 DEF Run, End, TypeOK, Gates
<1>9. CASE EngineActs
  <2>1. Call!TypeOK'
    <3>1. PICK d \in Callers, r \in 1 .. MaxCalls, k \in 0 .. MaxAttempts - 1,
               a \in Decisions : Call!Act(d, r, k, a)
      BY <1>9 DEF EngineActs, Call!EngineActs
    <3> QED BY <3>1 DEF Call!Act, TypeOK, Call!TypeOK, Call!Effects
  <2> QED BY <1>9, <2>1 DEF EngineActs, gateVars, TypeOK
<1>10. CASE UNCHANGED vars
  BY <1>4, <1>10 DEF vars, TypeOK
<1> QED
  BY <1>1, <1>2, <1>3, <1>5, <1>6, <1>7, <1>8, <1>9, <1>10 DEF Next, ThreadStep

-----------------------------------------------------------------------------
(* The gate.                                                                *)

\* What the engine gave to an invocation stays given until the next one.
LEMMA GaveStays ==
  ASSUME [Next]_vars, NEW c \in Callers, NEW a, round'[c] = round[c], Gave(c, a)
  PROVE  Gave(c, a)'
BY EffectsGrow DEF Gave

\* Every step keeps each thread's place in the gate justified.
LEMMA GateStep ==
  ASSUME GInv, [Next]_vars, NEW d \in Callers
  PROVE  GateOf(d)'
<1>0. /\ TypeOK /\ GateOf(d)
      /\ gate \in [Callers -> Gates] /\ ended \in [Callers -> {"none", "raised", "blocked", "ran"}]
      /\ round \in [Callers -> Nat] /\ decision \in [Callers -> Decisions \cup {"none"}]
  BY FirewallAssumption DEF GInv, TypeOK, Call!TypeOK
<1>1. ASSUME NEW c \in Callers, NEW how, Enter(c, how) PROVE GateOf(d)'
  <2>1. CASE d = c
    <3>1. gate'[d] = "check" /\ ended'[d] = "none" /\ round'[d] > 0
      BY <1>0, <1>1, <2>1 DEF Enter, Call!Begin
    <3> QED BY <3>1 DEF GateOf
  <2>2. CASE d # c
    <3>1. /\ gate'[d] = gate[d] /\ ended'[d] = ended[d] /\ round'[d] = round[d]
          /\ decision'[d] = decision[d]
      BY <1>0, <1>1, <2>2 DEF Enter, Call!Begin
    <3> QED BY <1>0, <3>1, GaveStays DEF GateOf
  <2> QED BY <2>1, <2>2
<1>2. ASSUME NEW c \in Callers, Decided(c) PROVE GateOf(d)'
  <2>1. PICK e \in effects : /\ Call!ReturnAnswer(c, e)
                             /\ decision' = [decision EXCEPT ![c] = e.answer]
    BY <1>2 DEF Decided
  <2>2. Gave(c, e.answer)'
    BY <2>1 DEF Gave, Call!ReturnAnswer
  <2>3. CASE d = c
    <3>1. /\ gate'[d] \in {"record", "require"} /\ decision'[d] = e.answer
          /\ ended'[d] = "none" /\ round'[d] > 0
      BY <1>0, <1>2, <2>1, <2>3 DEF Decided, Call!ReturnAnswer, GateOf
    <3> QED BY <2>2, <2>3, <3>1 DEF GateOf
  <2>4. CASE d # c
    BY <1>0, <1>2, <2>1, <2>4, GaveStays DEF Decided, Call!ReturnAnswer, GateOf
  <2> QED BY <2>3, <2>4
<1>3. ASSUME NEW c \in Callers, CheckRaises(c) PROVE GateOf(d)'
  BY <1>0, <1>3, GaveStays DEF CheckRaises, Call!Raise, End, GateOf
<1>4. ASSUME NEW c \in Callers, Record(c) PROVE GateOf(d)'
  BY <1>0, <1>4, GaveStays DEF Record, GateOf
<1>5. ASSUME NEW c \in Callers, Admit(c) PROVE GateOf(d)'
  BY <1>0, <1>5, GaveStays DEF Admit, GateOf
<1>6. ASSUME NEW c \in Callers, Block(c) PROVE GateOf(d)'
  BY <1>0, <1>6, GaveStays DEF Block, End, GateOf
<1>7. ASSUME NEW c \in Callers, Run(c) PROVE GateOf(d)'
  BY <1>0, <1>7, GaveStays DEF Run, End, GateOf
<1>8. CASE EngineActs
  BY <1>0, <1>8, GaveStays DEF EngineActs, Call!EngineActs, Call!Act, gateVars, GateOf
<1>9. CASE UNCHANGED vars
  BY <1>0, <1>9, GaveStays DEF vars, GateOf
<1> QED
  BY <1>1, <1>2, <1>3, <1>4, <1>5, <1>6, <1>7, <1>8, <1>9 DEF Next, ThreadStep

\* An execution is added only by Run, in an invocation that has not run yet.
LEMMA RanStep == GInv /\ [Next]_vars => RanInv' /\ RunsOnlyOnOwnPass'
<1> SUFFICES ASSUME GInv, [Next]_vars PROVE RanInv' /\ RunsOnlyOnOwnPass'
  OBVIOUS
<1>0. /\ TypeOK /\ RanInv /\ RunsOnlyOnOwnPass /\ \A c \in Callers : GateOf(c)
      /\ ended \in [Callers -> {"none", "raised", "blocked", "ran"}]
      /\ round \in [Callers -> Nat]
      /\ \A r \in ran : r.caller \in Callers /\ r.round \in Nat
  BY FirewallAssumption DEF GInv, TypeOK, Call!TypeOK
<1>1. ASSUME NEW c \in Callers, NEW how, Enter(c, how) PROVE RanInv' /\ ran' = ran
  BY <1>0, <1>1 DEF Enter, Call!Begin, RanInv
<1>2. ASSUME NEW c \in Callers, gate[c] # "idle", UNCHANGED <<round, ran>>,
             \/ UNCHANGED ended
             \/ \E how \in {"raised", "blocked"} : End(c, how)
      PROVE  RanInv' /\ ran' = ran
  BY <1>0, <1>2 DEF End, GateOf, RanInv
<1>3. ASSUME NEW c \in Callers, Run(c) PROVE RanInv' /\ RunsOnlyOnOwnPass'
  <2>1. Gave(c, "PASS")
    BY <1>0, <1>3 DEF Run, GateOf
  <2>2. RunsOnlyOnOwnPass'
    BY <1>0, <1>3, <2>1 DEF Run, Gave, RunsOnlyOnOwnPass
  <2>3. RanInv'
    BY <1>0, <1>3 DEF Run, End, RanInv
  <2> QED BY <2>2, <2>3
<1>4. ASSUME UNCHANGED <<round, ran, ended>> PROVE RanInv' /\ ran' = ran
  BY <1>0, <1>4 DEF RanInv
<1>5. ASSUME ran' = ran PROVE RunsOnlyOnOwnPass'
  BY <1>0, <1>5, EffectsGrow DEF RunsOnlyOnOwnPass
<1>6. ASSUME NEW c \in Callers, ThreadStep(c) PROVE RanInv' /\ RunsOnlyOnOwnPass'
  <2>1. ASSUME CheckRaises(c) \/ Block(c) PROVE RanInv' /\ ran' = ran
    BY <1>2, <2>1 DEF CheckRaises, Block, Call!Raise
  <2>2. ASSUME Decided(c) \/ Record(c) \/ Admit(c) PROVE RanInv' /\ ran' = ran
    BY <1>4, <2>2 DEF Decided, Record, Admit, Call!ReturnAnswer
  <2> QED BY <1>1, <1>3, <1>5, <1>6, <2>1, <2>2 DEF ThreadStep
<1>7. CASE EngineActs
  BY <1>4, <1>5, <1>7 DEF EngineActs, Call!EngineActs, Call!Act, gateVars
<1>8. CASE UNCHANGED vars
  BY <1>4, <1>5, <1>8 DEF vars
<1> QED BY <1>6, <1>7, <1>8 DEF Next

\* last_decision is written only with the verdict its writer was given.
LEMMA AuditStep == GInv /\ [Next]_vars => AuditGenuine'
<1> SUFFICES ASSUME GInv, [Next]_vars PROVE AuditGenuine'
  OBVIOUS
<1>0. AuditGenuine /\ \A c \in Callers : GateOf(c)
  BY DEF GInv
<1>1. ASSUME NEW c \in Callers, Record(c) PROVE AuditGenuine'
  BY <1>0, <1>1 DEF Record, GateOf, Gave, AuditGenuine, Verdict
<1>2. CASE lastDecision' = lastDecision
  BY <1>0, <1>2, EffectsGrow DEF AuditGenuine
<1> QED
  BY <1>1, <1>2 DEF Next, ThreadStep, EngineActs, Enter, Decided, CheckRaises, Admit,
                    Block, Run, gateVars, vars

\* Only Record writes last_decision, and only the verdict of its own thread.
LEMMA FreshStep ==
  ASSUME GInv, [Next]_vars, NEW d \in Callers
  PROVE  FreshFor(d)'
<1>0. /\ TypeOK /\ FreshFor(d) /\ GateOf(d)
      /\ gate \in [Callers -> Gates] /\ via \in [Callers -> {"guard", "require_pass"}]
      /\ round \in [Callers -> Nat] /\ decision \in [Callers -> Decisions \cup {"none"}]
  BY FirewallAssumption DEF GInv, TypeOK, Call!TypeOK
<1>1. ASSUME NEW c \in Callers, Record(c) PROVE FreshFor(d)'
  <2>1. Verdict(c).by = c /\ Verdict(c) # None
    BY DEF Verdict, None
  <2>2. Verdict(c)' = Verdict(c)
    BY <1>1 DEF Record, Verdict
  <2> QED BY <1>0, <1>1, <2>1, <2>2 DEF Record, FreshFor
<1>2. ASSUME UNCHANGED lastDecision, gate'[d] = gate[d], via'[d] = via[d],
             round'[d] = round[d], decision'[d] = decision[d]
      PROVE  FreshFor(d)'
  BY <1>0, <1>2 DEF FreshFor, Verdict
<1>3. ASSUME gate'[d] \notin {"require", "run"} \/ via'[d] # "guard" PROVE FreshFor(d)'
  BY <1>3 DEF FreshFor
<1>4. ASSUME NEW c \in Callers, NEW how, Enter(c, how) PROVE FreshFor(d)'
  BY <1>0, <1>2, <1>3, <1>4 DEF Enter, Call!Begin
<1>5. ASSUME NEW c \in Callers, Decided(c) PROVE FreshFor(d)'
  BY <1>0, <1>2, <1>3, <1>5 DEF Decided, Call!ReturnAnswer
<1>6. ASSUME NEW c \in Callers, CheckRaises(c) \/ Block(c) \/ Run(c) PROVE FreshFor(d)'
  BY <1>0, <1>2, <1>3, <1>6 DEF CheckRaises, Call!Raise, Block, Run, End
<1>7. ASSUME NEW c \in Callers, Admit(c) PROVE FreshFor(d)'
  BY <1>0, <1>7 DEF Admit, FreshFor, Verdict
<1>8. CASE EngineActs \/ UNCHANGED vars
  BY <1>2, <1>8 DEF EngineActs, Call!EngineActs, Call!Act, gateVars, vars
<1> QED BY <1>1, <1>4, <1>5, <1>6, <1>7, <1>8 DEF Next, ThreadStep

-----------------------------------------------------------------------------
(* The theorems.                                                            *)

\* The invariant holds of every firewall, in every interleaving.
THEOREM Invariant == Spec => []GInv
<1>1. Init => GInv
  <2> SUFFICES ASSUME Init PROVE GInv
    OBVIOUS
  <2>1. TypeOK
    BY FirewallAssumption DEF Init, TypeOK, Gates, Call!Init, Call!TypeOK, Call!Results
  <2>2. \A c \in Callers : GateOf(c)
    BY DEF Init, GateOf
  <2>3. RanInv /\ RunsOnlyOnOwnPass /\ AuditGenuine
    BY DEF Init, RanInv, RunsOnlyOnOwnPass, AuditGenuine
  <2>4. \A c \in Callers : FreshFor(c)
    BY DEF Init, FreshFor
  <2> QED BY <2>1, <2>2, <2>3, <2>4 DEF GInv
<1>2. GInv /\ [Next]_vars => GInv'
  BY TypeStep, GateStep, RanStep, AuditStep, FreshStep DEF GInv
<1> QED BY <1>1, <1>2, PTL DEF Spec

\* The gate's variables keep their types.
THEOREM TypeCorrect == Spec => []TypeOK
<1>1. GInv => TypeOK
  BY DEF GInv
<1> QED BY <1>1, Invariant, PTL

\* The gated action runs only on a PASS the engine gave to that invocation.
THEOREM GateSound == Spec => []RunsOnlyOnOwnPass
<1>1. GInv => RunsOnlyOnOwnPass
  BY DEF GInv
<1> QED BY <1>1, Invariant, PTL

\* Whatever is not an explicit PASS, errors included, leaves the action undone.
THEOREM GateFailsClosed == Spec => []FailClosed
<1>1. GInv => FailClosed
  <2> SUFFICES ASSUME GInv, NEW c \in Callers
               PROVE  /\ ended[c] \in {"raised", "blocked"} =>
                           [caller |-> c, round |-> round[c]] \notin ran
                      /\ ~Gave(c, "PASS") => ended[c] # "ran" /\ gate[c] # "run"
    BY DEF FailClosed, Gave
  <2>1. GateOf(c) /\ RanInv
    BY DEF GInv
  <2>2. ended[c] \in {"raised", "blocked"} => [caller |-> c, round |-> round[c]] \notin ran
    BY <2>1 DEF RanInv
  <2>3. ~Gave(c, "PASS") => ended[c] # "ran" /\ gate[c] # "run"
    BY <2>1 DEF GateOf
  <2> QED BY <2>2, <2>3
<1> QED BY <1>1, Invariant, PTL

\* last_decision always holds a verdict the engine gave to its invocation.
THEOREM AuditSound == Spec => []AuditGenuine
<1>1. GInv => AuditGenuine
  BY DEF GInv
<1> QED BY <1>1, Invariant, PTL

\* While the wrapped function runs, last_decision is no older verdict of its
\* own thread.
THEOREM AuditFresh == Spec => []AuditNotStale
<1>1. GInv => AuditNotStale
  BY DEF GInv, FreshFor, AuditNotStale
<1> QED BY <1>1, Invariant, PTL
=============================================================================
