---------------------- MODULE AuthorizedExecutionProofs ----------------------
(***************************************************************************)
(* What a grant and the evidence of an execution are worth, for all grants, *)
(* actions and snapshot hashes, and amounts of any length.                  *)
(***************************************************************************)
EXTENDS AuthorizedExecution, DecimalProofs

-----------------------------------------------------------------------------
(* Grants.                                                                  *)

\* An action a narrower grant admits is admitted by the wider one: no rule of
\* the wider grant asks for more.
LEMMA NarrowerAdmitsLess ==
  ASSUME NEW g, NEW h, NEW a, IsGrant(g), IsGrant(h), IsAction(a),
         Narrower(g, h), Admissible(g, a)
  PROVE  Admissible(h, a)
<1> DEFINE amount == Parameters(a).amount
           qty == Parameters(a).qty
<1>0. /\ ActionViolations(g, a) = {} /\ TargetViolations(g, a) = {}
      /\ CurrencyViolations(g, a) = {} /\ AmountViolations(g, a) = {}
      /\ QtyViolations(g, a) = {}
  BY DEF Admissible, Violations
<1>1. ActionViolations(h, a) = {} /\ TargetViolations(h, a) = {}
  BY <1>0 DEF ActionViolations, TargetViolations, Code, Narrower, NarrowerList
<1>2. CurrencyViolations(h, a) = {}
  BY <1>0 DEF CurrencyViolations, Code, Narrower, NarrowerList
<1>3. AmountViolations(h, a) = {}
  <2>1. CASE h.max_amount = None
    BY <2>1 DEF AmountViolations
  <2>2. CASE h.max_amount # None
    <3>1. /\ amount # None /\ Malformed \notin {amount, g.max_amount}
          /\ ~(CmpDecimal(amount, g.max_amount) > 0) /\ g.max_amount # None
      BY <1>0, <2>2 DEF AmountViolations, Code, Narrower, NarrowerCap
    <3>2. h.max_amount # Malformed /\ CmpDecimal(g.max_amount, h.max_amount) <= 0
      BY <2>2, <3>1 DEF Narrower, NarrowerCap
    <3>3. IsDecimal(amount) /\ IsDecimal(g.max_amount) /\ IsDecimal(h.max_amount)
      BY <2>2, <3>1, <3>2, ExecutionAssumption DEF IsGrant, IsAction
    <3>4. CmpDecimal(amount, g.max_amount) <= 0
      BY <3>1 DEF CmpDecimal, Order
    <3>5. CmpDecimal(amount, h.max_amount) <= 0
      BY <3>2, <3>3, <3>4, CmpTransitive
    <3>6. ~(CmpDecimal(amount, h.max_amount) > 0)
      BY <3>5 DEF CmpDecimal, Order
    <3>7. Malformed \notin {amount, h.max_amount}
      BY <3>1, <3>2
    <3> QED BY <2>2, <3>1, <3>6, <3>7 DEF AmountViolations, Code
  <2> QED BY <2>1, <2>2
<1>4. QtyViolations(h, a) = {}
  <2>1. CASE h.max_qty = None
    BY <2>1 DEF QtyViolations
  <2>2. CASE h.max_qty # None
    <3>1. /\ qty # None /\ qty # Malformed /\ g.max_qty # Malformed
          /\ ~(qty > g.max_qty) /\ g.max_qty # None
      BY <1>0, <2>2 DEF QtyViolations, Code, Narrower, NarrowerQty
    <3>2. h.max_qty # Malformed /\ g.max_qty <= h.max_qty
      BY <2>2, <3>1 DEF Narrower, NarrowerQty
    <3>3. qty \in Int /\ g.max_qty \in Int /\ h.max_qty \in Int
      BY <2>2, <3>1, <3>2 DEF IsGrant, IsAction
    <3> QED BY <3>1, <3>2, <3>3 DEF QtyViolations, Code
  <2> QED BY <2>1, <2>2
<1> QED BY <1>1, <1>2, <1>3, <1>4 DEF Admissible, Violations

\* A negative amount is below a cap without a sign in value; any other amount
\* that is not above it by the comparison is not above it in value.
LEMMA WithinCap ==
  ASSUME NEW a, NEW b, IsDecimal(a), Unsigned(b), ~(CmpDecimal(a, b) > 0)
  PROVE  NumericCmp(a, b) <= 0
<1>1. CASE Unsigned(a)
  <2>1. NumericCmp(a, b) = CmpDecimal(a, b)
    BY <1>1, NumericOrder
  <2>2. CmpDecimal(a, b) \in {-1, 0, 1}
    BY CmpCases DEF IsDecimal
  <2> QED BY <2>1, <2>2
<1>2. CASE Negative(a)
  <2> DEFINE w == Width(a.frac, b.frac)
  <2>1. w \in Nat
    BY <1>2, LenProperties DEF Width, Unsigned, Negative
  <2> HIDE DEF w
  <2> DEFINE s == Tail(a.whole) \o Pad(<<>>, w)
             t == b.whole \o Pad(b.frac, w)
  <2>2. s \in Seq(Digits)
    BY <1>2, <2>1, NoDigits, PadType, ConcatProperties DEF Negative
  <2>3. t \in Seq(Digits)
    BY <2>1, PadType, ConcatProperties DEF Unsigned
  <2>4. ~Negative(b)
    BY UnsignedNotNegative
  <2>5. Units(a, w) = -Number[s] /\ Units(b, w) = Number[t]
    BY <1>2, <2>4 DEF Units
  <2> HIDE DEF s, t
  <2>6. Number[s] \in Nat /\ Number[t] \in Nat
    BY <2>2, <2>3, NumberEquation
  <2>7. Compare(Units(a, w), Units(b, w)) <= 0
    BY <2>5, <2>6 DEF Compare
  <2> QED BY <2>7 DEF NumericCmp, w
<1> QED BY <1>1, <1>2 DEF IsDecimal

\* What a grant admits is within its limits: no rule is lost between the codes a
\* check returns and the caps they are about.
LEMMA AdmissibleWithin ==
  ASSUME NEW g, NEW a, IsGrant(g), IsAction(a), Admissible(g, a)
  PROVE  WithinLimits(g, a)
<1> DEFINE p == Parameters(a)
<1>0. /\ ActionViolations(g, a) = {} /\ TargetViolations(g, a) = {}
      /\ CurrencyViolations(g, a) = {} /\ AmountViolations(g, a) = {}
      /\ QtyViolations(g, a) = {}
  BY DEF Admissible, Violations
<1>1. /\ g.allowed_actions # None => a.action \in g.allowed_actions
      /\ g.allowed_targets # None => a.target \in g.allowed_targets
      /\ g.allowed_currencies # None => p.currency \in g.allowed_currencies
  BY <1>0 DEF ActionViolations, TargetViolations, CurrencyViolations, Code
<1>2. ASSUME g.max_qty # None
      PROVE  g.max_qty \in Int /\ p.qty \in Int /\ p.qty <= g.max_qty
  <2>1. /\ p.qty # None /\ p.qty # Malformed /\ g.max_qty # Malformed
        /\ ~(p.qty > g.max_qty)
    BY <1>0, <1>2 DEF QtyViolations, Code
  <2>2. g.max_qty \in Int /\ p.qty \in Int
    BY <1>2, <2>1 DEF IsGrant, IsAction
  <2> QED BY <2>1, <2>2
<1>3. ASSUME g.max_amount # None
      PROVE  /\ g.max_amount \in Amounts /\ p.amount \in Amounts
             /\ Unsigned(g.max_amount) => NumericCmp(p.amount, g.max_amount) <= 0
  <2>1. /\ p.amount # None /\ Malformed \notin {p.amount, g.max_amount}
        /\ ~(CmpDecimal(p.amount, g.max_amount) > 0)
    BY <1>0, <1>3 DEF AmountViolations, Code
  <2>2. g.max_amount \in Amounts /\ p.amount \in Amounts /\ IsDecimal(p.amount)
    BY <1>3, <2>1, ExecutionAssumption DEF IsGrant, IsAction
  <2> HIDE DEF p
  <2> QED BY <2>1, <2>2, WithinCap
<1> QED BY <1>1, <1>2, <1>3 DEF WithinLimits

\* A grant's hash, and an action's, determine every rule's verdict.
LEMMA HashesDecide ==
  ASSUME NEW g, NEW h, NEW a, NEW b,
         GrantHash(g) = GrantHash(h), ActionHash(a) = ActionHash(b)
  PROVE  Violations(g, a) = Violations(h, b)
<1>1. /\ g.allowed_actions = h.allowed_actions /\ g.allowed_targets = h.allowed_targets
      /\ g.allowed_currencies = h.allowed_currencies
      /\ g.max_amount = h.max_amount /\ g.max_qty = h.max_qty
  BY DEF GrantHash
<1>2. a.action = b.action /\ a.target = b.target /\ a.parameters = b.parameters
  BY DEF ActionHash
<1>3. Parameters(a) = Parameters(b)
  BY <1>2 DEF Parameters
<1>4. ActionViolations(g, a) = ActionViolations(h, b)
  BY <1>1, <1>2 DEF ActionViolations
<1>5. TargetViolations(g, a) = TargetViolations(h, b)
  BY <1>1, <1>2 DEF TargetViolations
<1>6. CurrencyViolations(g, a) = CurrencyViolations(h, b)
  BY <1>1, <1>3 DEF CurrencyViolations
<1>7. AmountViolations(g, a) = AmountViolations(h, b)
  BY <1>1, <1>3 DEF AmountViolations
<1>8. QtyViolations(g, a) = QtyViolations(h, b)
  BY <1>1, <1>3 DEF QtyViolations
<1> QED BY <1>4, <1>5, <1>6, <1>7, <1>8 DEF Violations

-----------------------------------------------------------------------------
(* The invariant.                                                           *)

\* Evidence was computed from the action, the receipt and some grant.
Founded(x) ==
  /\ x.action \in Actions /\ x.receipt \in receipts
  /\ \E g \in Grants : x.evidence = Evidence(x.receipt, g, x.action)

AInv == /\ grant \in Grants
        /\ receipts \subseteq Receipts
        /\ \A x \in executions : Founded(x)

\* The invariant holds whatever is granted, authorized and executed.
THEOREM Invariant == Spec => []AInv
<1>1. Init => AInv
  BY DEF Init, AInv
<1>2. AInv /\ [Next]_vars => AInv'
  <2> SUFFICES ASSUME AInv, [Next]_vars PROVE AInv'
    OBVIOUS
  <2>1. ASSUME NEW g \in Grants, ReviseGrant(g) PROVE AInv'
    BY <2>1 DEF ReviseGrant, AInv, Founded
  <2>2. ASSUME NEW r \in Receipts, Authorize(r) PROVE AInv'
    BY <2>2 DEF Authorize, AInv, Founded
  <2>3. ASSUME NEW a \in Actions, NEW r \in receipts, Execute(a, r) PROVE AInv'
    <3>1. PICK w : w = [action |-> a, receipt |-> r, evidence |-> Evidence(r, grant, a)]
      OBVIOUS
    <3>2. executions' = executions \cup {w}
      BY <2>3, <3>1 DEF Execute
    <3>3. Founded(w)'
      BY <2>3, <3>1 DEF Execute, AInv, Founded
    <3>4. \A x \in executions : Founded(x)'
      BY <2>3 DEF Execute, AInv, Founded
    <3> QED BY <2>3, <3>2, <3>3, <3>4 DEF Execute, AInv
  <2>4. CASE UNCHANGED vars
    BY <2>4 DEF vars, AInv, Founded
  <2> QED BY <2>1, <2>2, <2>3, <2>4 DEF Next
<1> QED BY <1>1, <1>2, PTL DEF Spec

\* What evidence says of the action, receipt and grant it was computed from.
LEMMA EvidenceFields ==
  ASSUME NEW r, NEW g, NEW a
  PROVE  LET e == Evidence(r, g, a) IN
         /\ e.snap = r.snap /\ e.decision = r.decision
         /\ e.grant_hash = GrantHash(g) /\ e.execution_binding = ActionHash(a)
         /\ e.admissible = Admissible(g, a) /\ e.violations = Violations(g, a)
BY DEF Evidence

\* Bound evidence names the action's hash, and the receipt's snapshot if it has
\* one.
LEMMA BoundMeaning ==
  ASSUME NEW r, NEW a, NEW x, Bound(r, a, x)
  PROVE  /\ x.evidence.execution_binding = ActionHash(a)
         /\ r.snap # None => x.evidence.snap = r.snap
BY DEF Bound, Binding

-----------------------------------------------------------------------------
(* The theorems.                                                            *)

\* Evidence is well-formed: the verdict it states agrees with its list.
THEOREM TypeCorrect == Spec => []TypeOK
<1>1. AInv => TypeOK
  <2> SUFFICES ASSUME AInv, NEW x \in executions
               PROVE  /\ x.action \in Actions /\ x.receipt \in receipts
                      /\ x.evidence.admissible <=> x.evidence.violations = {}
    BY DEF AInv, TypeOK
  <2>1. PICK g \in Grants : x.evidence = Evidence(x.receipt, g, x.action)
    BY DEF AInv, Founded
  <2>2. x.evidence.admissible = Admissible(g, x.action)
    BY <2>1, EvidenceFields, SMT
  <2>3. x.evidence.violations = Violations(g, x.action)
    BY <2>1, EvidenceFields
  <2>4. x.evidence.admissible <=> x.evidence.violations = {}
    BY <2>2, <2>3, Zenon DEF Admissible
  <2> QED BY <2>4 DEF AInv, Founded
<1> QED BY <1>1, Invariant, PTL

\* Amounts without a sign are compared as the numbers they stand for.
THEOREM ComparisonNumeric == Spec => []ComparisonIsNumeric
<1>1. ComparisonIsNumeric
  BY NumericOrder DEF ComparisonIsNumeric
<1> QED BY <1>1, PTL

\* What evidence calls admissible was within every limit of the grant it names,
\* amounts taken by value.
THEOREM AdmittedWithinLimits == Spec => []AdmittedIsWithinLimits
<1>1. AInv => AdmittedIsWithinLimits
  <2> SUFFICES ASSUME AInv, NEW x \in executions
               PROVE  x.evidence.admissible =>
                        \E g \in Grants : /\ GrantHash(g) = x.evidence.grant_hash
                                          /\ WithinLimits(g, x.action)
    BY DEF AdmittedIsWithinLimits
  <2>1. /\ x.action \in Actions
        /\ \E g \in Grants : x.evidence = Evidence(x.receipt, g, x.action)
    BY DEF AInv, Founded
  <2>2. PICK g \in Grants : x.evidence = Evidence(x.receipt, g, x.action)
    BY <2>1
  <2>3. GrantHash(g) = x.evidence.grant_hash
    BY <2>2, EvidenceFields
  <2>4. x.evidence.admissible => Admissible(g, x.action)
    <3>1. x.evidence.admissible = Admissible(g, x.action)
      BY <2>2, EvidenceFields, SMT
    <3> QED BY <3>1, Zenon
  <2>5. IsGrant(g) /\ IsAction(x.action)
    BY <2>1, ExecutionAssumption
  <2>6. Admissible(g, x.action) => WithinLimits(g, x.action)
    BY <2>2, <2>5, AdmissibleWithin
  <2> QED BY <2>3, <2>4, <2>6, Zenon
<1> QED BY <1>1, Invariant, PTL

\* Evidence bound to an action within the grant is evidence of an execution
\* within the grant.
THEOREM BoundIsAdmissible == Spec => []BoundMeansAdmissible
<1>1. AInv => BoundMeansAdmissible
  <2> SUFFICES ASSUME AInv, NEW x \in executions, NEW a \in Actions, NEW r \in receipts,
                      Bound(r, a, x), Admissible(grant, a)
               PROVE  Admissible(grant, x.action)
    BY DEF BoundMeansAdmissible
  <2>1. x.evidence.execution_binding = ActionHash(x.action)
    BY EvidenceFields DEF AInv, Founded
  <2>2. ActionHash(x.action) = ActionHash(a)
    BY <2>1, BoundMeaning
  <2> QED BY <2>2, HashesDecide DEF Admissible
<1> QED BY <1>1, Invariant, PTL

\* What bound evidence says was decided, the engine decided of the context of the
\* receipt it is bound to, in a receipt of its own if not in that one.
THEOREM DecisionIssued == Spec => []DecisionWasIssued
<1>1. AInv => DecisionWasIssued
  <2> SUFFICES ASSUME AInv, NEW x \in executions, NEW a \in Actions, NEW r \in receipts,
                      Bound(r, a, x), r.snap # None
               PROVE  \E q \in receipts : /\ q.snap = r.snap
                                          /\ q.decision = x.evidence.decision
    BY DEF DecisionWasIssued
  <2>1. /\ x.evidence.snap = x.receipt.snap /\ x.evidence.decision = x.receipt.decision
        /\ x.receipt \in receipts
    BY EvidenceFields DEF AInv, Founded
  <2>2. x.receipt.snap = r.snap
    BY <2>1, BoundMeaning
  <2> QED BY <2>1, <2>2
<1> QED BY <1>1, Invariant, PTL

\* Evidence whose hashes match tells what a check would find now.
THEOREM EvidenceIsTrue == Spec => []EvidenceStaysTrue
<1>1. AInv => EvidenceStaysTrue
  <2> SUFFICES ASSUME AInv, NEW x \in executions, NEW a \in Actions, NEW r \in receipts,
                      Bound(r, a, x), x.evidence.grant_hash = GrantHash(grant)
               PROVE  x.evidence.violations = Violations(grant, a)
    BY DEF EvidenceStaysTrue
  <2>1. PICK g \in Grants : x.evidence = Evidence(x.receipt, g, x.action)
    BY DEF AInv, Founded
  <2>2. GrantHash(g) = GrantHash(grant) /\ x.evidence.violations = Violations(g, x.action)
    BY <2>1, EvidenceFields
  <2>3. ActionHash(x.action) = ActionHash(a)
    BY <2>1, EvidenceFields, BoundMeaning
  <2> QED BY <2>2, <2>3, HashesDecide
<1> QED BY <1>1, Invariant, PTL

\* Narrowing the grant in force admits nothing new.
THEOREM NarrowingIsSafe == Spec => NarrowingNeverAdmits
<1> DEFINE Safe == Narrower(grant', grant) =>
                     \A a \in Actions : Admissible(grant', a) => Admissible(grant, a)
<1>1. AInv /\ AInv' /\ [Next]_vars => [Safe]_vars
  <2> SUFFICES ASSUME AInv, AInv', Narrower(grant', grant), NEW a \in Actions,
                      Admissible(grant', a)
               PROVE  Admissible(grant, a)
    OBVIOUS
  <2>1. grant \in Grants /\ grant' \in Grants
    BY DEF AInv
  <2>2. IsGrant(grant) /\ IsGrant(grant') /\ IsAction(a)
    BY <2>1, ExecutionAssumption
  <2> QED BY <2>2, NarrowerAdmitsLess
<1> QED BY <1>1, Invariant, PTL DEF Spec, NarrowingNeverAdmits
=============================================================================
