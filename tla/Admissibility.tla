---------------------------- MODULE Admissibility ----------------------------
(***************************************************************************)
(* Constraint-bound authority (quesen_sdk/admissibility.py): whether an    *)
(* action is within a grant, and the evidence of an execution.             *)
(***************************************************************************)
EXTENDS ExecutionBinding, Decimals

CONSTANTS
  Malformed       \* an amount, cap or quantity of the wrong type or form

-----------------------------------------------------------------------------
(* check_admissibility.  A grant constrains what its fields say and nothing *)
(* else; the rules are independent of each other.                           *)

NoParameters == [amount |-> None, currency |-> None, qty |-> None]

\* `parameters or {}`
Parameters(a) == IF a.parameters = None THEN NoParameters ELSE a.parameters

Code(code, violated) == IF violated THEN {code} ELSE {}

ActionViolations(g, a) ==
  Code("ACTION_NOT_ALLOWED",
       g.allowed_actions # None /\ a.action \notin g.allowed_actions)

\* Mutant: an empty list allows everything, as if it had been tested by its
\* truth value.
TargetsIfAny(g, a) ==
  Code("TARGET_NOT_ALLOWED",
       g.allowed_targets \notin {None, {}} /\ a.target \notin g.allowed_targets)

TargetViolations(g, a) ==
  Code("TARGET_NOT_ALLOWED",
       g.allowed_targets # None /\ a.target \notin g.allowed_targets)

CurrencyViolations(g, a) ==
  LET currency == Parameters(a).currency IN
  IF g.allowed_currencies = None THEN {}
  ELSE IF currency = None THEN {"CURRENCY_REQUIRED"}
  ELSE Code("CURRENCY_NOT_ALLOWED", currency \notin g.allowed_currencies)

AmountViolations(g, a) ==
  LET amount == Parameters(a).amount IN
  IF g.max_amount = None THEN {}
  ELSE IF amount = None THEN {"AMOUNT_REQUIRED"}
  ELSE IF Malformed \in {amount, g.max_amount} THEN {"AMOUNT_MALFORMED"}
  ELSE Code("AMOUNT_EXCEEDS_MAX", CmpDecimal(amount, g.max_amount) > 0)

\* A max_qty that is no number makes the comparison raise, and no result is
\* returned at all.  A finite float or True bounds the (integer) quantities as the
\* integer below it does, so Int stands for them.
QtyViolations(g, a) ==
  LET qty == Parameters(a).qty IN
  IF g.max_qty = None THEN {}
  ELSE IF qty = None THEN {"QTY_REQUIRED"}
  ELSE IF qty = Malformed THEN {"QTY_MALFORMED"}
  ELSE IF g.max_qty = Malformed THEN {"raised"}
  ELSE Code("QTY_EXCEEDS_MAX", qty > g.max_qty)

Violations(g, a) ==
  UNION {ActionViolations(g, a), TargetViolations(g, a),
         CurrencyViolations(g, a), AmountViolations(g, a), QtyViolations(g, a)}

\* Mutant: only what exceeds a cap makes an action inadmissible.
AdmissibleUnderCap(g, a) ==
  Violations(g, a) \cap {"AMOUNT_EXCEEDS_MAX", "QTY_EXCEEDS_MAX"} = {}

Admissible(g, a) == Violations(g, a) = {}

\* Mutant: the caps are left out of the hashed fields.
HashWithoutCaps(g) == <<g.allowed_actions, g.allowed_targets, g.allowed_currencies>>

\* grant_hash: all the fields that are not null.  The bytes also tell the order
\* of a list and whether an amount is a number or a string, which no rule does.
GrantHash(g) == <<g.allowed_actions, g.allowed_targets, g.allowed_currencies,
                  g.max_amount, g.max_qty>>

\* admissibility_evidence: computed from what it is given, whatever the receipt
\* decided.
Evidence(receipt, g, a) ==
  [snap |-> receipt.snap, decision |-> receipt.decision,
   grant_hash |-> GrantHash(g), execution_binding |-> ActionHash(a),
   admissible |-> Admissible(g, a), violations |-> Violations(g, a)]
=============================================================================
