------------------------- MODULE AuthorizedExecution -------------------------
(***************************************************************************)
(* Authority, authorization and execution together: a principal sets the   *)
(* grant in force, the engine issues receipts, an executor acts and leaves *)
(* evidence (admissibility_evidence), and an auditor later holds any       *)
(* receipt, any action and any piece of evidence against each other with   *)
(* verify_execution_binding and check_admissibility.                       *)
(*                                                                         *)
(* Nothing in the SDK forces an executor to do what was authorized: it     *)
(* performs any action under any receipt.  What the checks promise is that *)
(* this shows.                                                             *)
(***************************************************************************)
EXTENDS Admissibility

CONSTANTS
  Grants,         \* grants a principal may set
  Actions,        \* actions an executor may perform
  Amounts,        \* decimals that amounts and caps may be
  Snaps,          \* snapshot hashes of the contexts the engine judges
  MaxReceipts,    \* bound: receipts issued
  MaxExecutions   \* bound: executions

Decisions == {"PASS", "BLOCK"}
Receipts == [snap : Snaps \cup {None}, decision : Decisions]

\* What an amount, a cap and a quantity may be.
IsGrant(g) ==
  /\ g.max_amount \in {None, Malformed} \cup Amounts
  /\ g.max_qty \in {None, Malformed} \cup Int
IsAction(a) ==
  /\ Parameters(a).amount \in {None, Malformed} \cup Amounts
  /\ Parameters(a).qty \in {None, Malformed} \cup Int

ASSUME ExecutionAssumption ==
  /\ None # Malformed /\ None \notin Snaps
  /\ None \notin Int /\ Malformed \notin Int
  /\ None \notin Amounts /\ Malformed \notin Amounts
  /\ \A d \in Amounts : IsDecimal(d)
  /\ \A g \in Grants : IsGrant(g)
  /\ \A a \in Actions : IsAction(a)
  /\ MaxReceipts \in Nat /\ MaxExecutions \in Nat

VARIABLES
  grant,          \* the grant in force
  receipts,       \* what the engine issued
  executions      \* what was done, under which receipt, with its evidence

vars == <<grant, receipts, executions>>

Init ==
  /\ grant \in Grants
  /\ receipts = {}
  /\ executions = {}

ReviseGrant(g) ==
  /\ grant' = g
  /\ UNCHANGED <<receipts, executions>>

\* The engine issues a receipt.  It may decide the same context differently under
\* another ruleset (commit_sha tells them apart, the snapshot hash does not), and a
\* receipt may carry no snapshot hash, which verify_execution_binding allows for.
Authorize(r) ==
  /\ Cardinality(receipts) < MaxReceipts
  /\ receipts' = receipts \cup {r}
  /\ UNCHANGED <<grant, executions>>

\* The executor acts under a receipt; the evidence says what it did, what it
\* was authorized by and whether the grant in force allowed it.
Execute(a, r) ==
  /\ Cardinality(executions) < MaxExecutions
  /\ "raised" \notin Violations(grant, a)
  /\ executions' = executions \cup
       {[action |-> a, receipt |-> r, evidence |-> Evidence(r, grant, a)]}
  /\ UNCHANGED <<grant, receipts>>

Next ==
  \/ \E g \in Grants : ReviseGrant(g)
  \/ \E r \in Receipts : Authorize(r)
  \/ \E a \in Actions, r \in receipts : Execute(a, r)

Spec == Init /\ [][Next]_vars

-----------------------------------------------------------------------------
\* The variables stay in their types.  Evidence calls an execution admissible
\* exactly when it lists no violation.
TypeOK ==
  /\ grant \in Grants
  /\ receipts \subseteq Receipts
  /\ \A x \in executions :
       /\ x.action \in Actions /\ x.receipt \in receipts
       /\ x.evidence.admissible <=> x.evidence.violations = {}

\* _cmp_decimal is the numeric order on all amounts without a sign.  It does not
\* depend on the state, and is evaluated where nothing has happened yet.
ComparisonIsNumeric == receipts = {} /\ executions = {} =>
  \A a, b \in {d \in Amounts : Unsigned(d)} : CmpDecimal(a, b) = NumericCmp(a, b)

\* What an admissible execution may not do: exceed a cap in value, negative
\* amounts included, leave an amount, a currency or a quantity out that the
\* grant limits, or go where the grant does not.  Under a cap that is malformed
\* nothing is admissible: neither the violation of an amount nor the comparison
\* that raises on a quantity may come out as "no limit".  A cap below zero is no
\* limit: the comparison takes its sign for a character.
WithinLimits(g, a) ==
  LET p == Parameters(a) IN
  /\ g.max_amount # None =>
       /\ g.max_amount \in Amounts /\ p.amount \in Amounts
       /\ Unsigned(g.max_amount) => NumericCmp(p.amount, g.max_amount) <= 0
  /\ g.max_qty # None =>
       g.max_qty \in Int /\ p.qty \in Int /\ p.qty <= g.max_qty
  /\ g.allowed_currencies # None => p.currency \in g.allowed_currencies
  /\ g.allowed_targets # None => a.target \in g.allowed_targets
  /\ g.allowed_actions # None => a.action \in g.allowed_actions
AdmittedIsWithinLimits ==
  \A x \in executions : x.evidence.admissible =>
    \E g \in Grants : GrantHash(g) = x.evidence.grant_hash /\ WithinLimits(g, x.action)

\* The auditor's verdict on action a, receipt r and the evidence of x.
Bound(r, a, x) == Binding(r, a, x.evidence).ok

\* The engine approved a, the executor did something else: that does not pass
\* unnoticed.  If evidence is bound to an action that is within the grant, then
\* what was really executed is within the grant, in every field a grant can
\* constrain, although the two actions need not be the same.
BoundMeansAdmissible ==
  \A x \in executions, a \in Actions, r \in receipts :
    Bound(r, a, x) /\ Admissible(grant, a) => Admissible(grant, x.action)

\* The decision that bound evidence names is one the engine gave of the context of
\* the receipt the auditor holds: not one of another context.  It need not be that
\* receipt's own, since one context may have been decided twice; where the engine
\* only ever passed it, the executor acted on a PASS.
DecisionWasIssued ==
  \A x \in executions, a \in Actions, r \in receipts :
    Bound(r, a, x) /\ r.snap # None =>
      \E q \in receipts : q.snap = r.snap /\ q.decision = x.evidence.decision

\* Evidence is not outdated by a revision of the grant as long as the hashes
\* agree: its verdict is that of the grant the auditor holds, on the action it
\* is bound to.
EvidenceStaysTrue ==
  \A x \in executions, a \in Actions, r \in receipts :
    Bound(r, a, x) /\ x.evidence.grant_hash = GrantHash(grant) =>
      x.evidence.violations = Violations(grant, a)

\* g constrains at least as much as h.
NarrowerList(s, t) == t # None => s # None /\ s \subseteq t
NarrowerCap(c, d) == d # None =>
  /\ c # None
  /\ d = Malformed => c = Malformed
  /\ Malformed \notin {c, d} => CmpDecimal(c, d) <= 0
NarrowerQty(p, q) == q # None =>
  /\ p # None
  /\ q = Malformed => p = Malformed
  /\ Malformed \notin {p, q} => p <= q
Narrower(g, h) ==
  /\ NarrowerList(g.allowed_actions, h.allowed_actions)
  /\ NarrowerList(g.allowed_targets, h.allowed_targets)
  /\ NarrowerList(g.allowed_currencies, h.allowed_currencies)
  /\ NarrowerCap(g.max_amount, h.max_amount)
  /\ NarrowerQty(g.max_qty, h.max_qty)

\* Narrowing a grant -- a shorter list, down to the empty one, a lower cap, a
\* constraint where there was none -- never admits an action it did not admit.
NarrowingNeverAdmits ==
  [][Narrower(grant', grant) =>
       \A a \in Actions : Admissible(grant', a) => Admissible(grant, a)]_vars

-----------------------------------------------------------------------------
(* What the documentation says.                                             *)

\* execution.py: "execution evidence is bound to this action and authorization".
BoundMeansLinked ==
  \A x \in executions, a \in Actions, r \in receipts :
    Bound(r, a, x) => Binding(r, a, x.evidence).linked
=============================================================================
