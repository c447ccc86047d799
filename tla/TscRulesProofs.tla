--------------------------- MODULE TscRulesProofs ---------------------------
(***************************************************************************)
(* Lemmas about the ordered rules of decide, for every set of scopes and   *)
(* every choice of the enumerations: what each rule returns, the decision  *)
(* by the facts alone, and that it is monotone in the risk.                *)
(***************************************************************************)
EXTENDS TscRules, FiniteSetTheorems, TLAPS

\* The fields of a context have the values normalize gives them.
LEMMA ContextFields ==
  ASSUME NEW n \in Contexts
  PROVE  /\ n.verified \in BOOLEAN /\ n.suspected \in BOOLEAN
         /\ n.blocks \subseteq OptionalBlocks
         /\ n.granted \subseteq Scopes /\ n.toolScopes \subseteq Scopes
         /\ n.required \subseteq Scopes
         /\ n.granted # {} \/ n.required # {} => "permissions" \in n.blocks
BY DEF Contexts

\* The optional blocks of a context are finitely many, at most five, and when
\* four named ones are missing at most one is left.
LEMMA BlockCount ==
  ASSUME NEW B \in SUBSET OptionalBlocks
  PROVE  /\ IsFiniteSet(B) /\ Cardinality(B) \in 0 .. 5
         /\ B \cap {"target", "tool", "data", "signals"} = {} => Cardinality(B) <= 1
<1>1. IsFiniteSet({"permissions"}) /\ Cardinality({"permissions"}) = 1
  BY FS_Singleton
<1>2. /\ IsFiniteSet({"permissions", "target"})
      /\ Cardinality({"permissions", "target"}) = 2
  <2>1. {"permissions", "target"} = {"permissions"} \cup {"target"}
    OBVIOUS
  <2> QED BY <1>1, <2>1, FS_AddElement
<1>3. /\ IsFiniteSet({"permissions", "target", "tool"})
      /\ Cardinality({"permissions", "target", "tool"}) = 3
  <2>1. {"permissions", "target", "tool"} = {"permissions", "target"} \cup {"tool"}
    OBVIOUS
  <2> QED BY <1>2, <2>1, FS_AddElement
<1>4. /\ IsFiniteSet({"permissions", "target", "tool", "data"})
      /\ Cardinality({"permissions", "target", "tool", "data"}) = 4
  <2>1. {"permissions", "target", "tool", "data"}
          = {"permissions", "target", "tool"} \cup {"data"}
    OBVIOUS
  <2> QED BY <1>3, <2>1, FS_AddElement
<1>5. IsFiniteSet(OptionalBlocks) /\ Cardinality(OptionalBlocks) = 5
  <2>1. OptionalBlocks = {"permissions", "target", "tool", "data"} \cup {"signals"}
    BY DEF OptionalBlocks
  <2> QED BY <1>4, <2>1, FS_AddElement
<1>6. IsFiniteSet(B) /\ Cardinality(B) <= 5 /\ Cardinality(B) \in Nat
  BY <1>5, FS_Subset, FS_CardinalityType
<1>7. B \cap {"target", "tool", "data", "signals"} = {} => Cardinality(B) <= 1
  <2> SUFFICES ASSUME B \cap {"target", "tool", "data", "signals"} = {}
               PROVE  Cardinality(B) <= 1
    OBVIOUS
  <2>1. B \subseteq {"permissions"}
    BY DEF OptionalBlocks
  <2>2. Cardinality(B) <= Cardinality({"permissions"})
    BY <1>1, <2>1, FS_Subset
  <2> QED BY <1>1, <1>6, <2>2
<1> QED BY <1>6, <1>7

\* What each rule of decide returns.
LEMMA Rulings ==
  ASSUME NEW s \in BOOLEAN
  PROVE  /\ Ruling("EGRESS_SECRET_UNTRUSTED", s) = <<"BLOCK", 100>>
         /\ s => Ruling("PRIVILEGE_MISMATCH", s) = <<"BLOCK", 85>>
         /\ ~s => Ruling("PRIVILEGE_MISMATCH", s) = <<"REVIEW", 50>>
         /\ Ruling("UNVERIFIED_GRANT", s) = <<"REVIEW", 50>>
         /\ Ruling("PROMPT_INJECTION_SUSPECTED", s) = <<"REVIEW", 60>>
         /\ Ruling("PII_EGRESS_REVIEW", s) = <<"REVIEW", 55>>
         /\ Ruling("INSUFFICIENT_CONTEXT", s) = <<"SKIP", 0>>
         /\ Ruling("NO_ADVERSE_SIGNAL", s) = <<"PASS", 10>>
BY DEF Ruling

\* The decision, by the facts alone: what the early returns amount to.
Blocked(n) == SecretLeak(n) \/ (Missing(n) # {} /\ Sensitive(n))
Reviewed(n) == Missing(n) # {} \/ UnverifiedGrant(n) \/ n.suspected \/ PrivateEgress(n)

LEMMA DecisionByFacts ==
  ASSUME NEW n
  PROVE  /\ Blocked(n) => Decide(n).decision = "BLOCK" /\ Decide(n).risk \in {85, 100}
         /\ ~Blocked(n) /\ Reviewed(n) =>
              Decide(n).decision = "REVIEW" /\ Decide(n).risk \in 50 .. 60
         /\ ~Blocked(n) /\ ~Reviewed(n) /\ Insufficient(n) =>
              Decide(n).decision = "SKIP" /\ Decide(n).risk = 0
         /\ ~Blocked(n) /\ ~Reviewed(n) /\ ~Insufficient(n) =>
              Decide(n).decision = "PASS" /\ Decide(n).risk = 10
<1>1. Sensitive(n) \in BOOLEAN
  BY DEF Sensitive
<1>2. /\ Decide(n).decision = Ruling(Reason(n), Sensitive(n))[1]
      /\ Decide(n).risk = Ruling(Reason(n), Sensitive(n))[2]
  BY DEF Decide
<1>3. CASE SecretLeak(n)
  <2>1. Reason(n) = "EGRESS_SECRET_UNTRUSTED"
    BY <1>3 DEF Reason
  <2>2. Ruling(Reason(n), Sensitive(n)) = <<"BLOCK", 100>>
    BY <1>1, <2>1, Rulings
  <2>3. Decide(n).decision = "BLOCK" /\ Decide(n).risk = 100
    BY <1>2, <2>2
  <2>4. Blocked(n)
    BY <1>3 DEF Blocked
  <2> QED BY <2>3, <2>4
<1>4. CASE ~SecretLeak(n) /\ Missing(n) # {}
  <2>1. Reason(n) = "PRIVILEGE_MISMATCH"
    BY <1>4 DEF Reason
  <2> QED BY <1>1, <1>2, <1>4, <2>1, Rulings DEF Blocked, Reviewed
<1>5. CASE ~SecretLeak(n) /\ Missing(n) = {}
  <2>1. ~Blocked(n)
    BY <1>5 DEF Blocked
  <2>2. CASE Reviewed(n)
    <3>1. Reason(n) \in {"UNVERIFIED_GRANT", "PROMPT_INJECTION_SUSPECTED",
                         "PII_EGRESS_REVIEW"}
      BY <1>5, <2>2 DEF Reason, Reviewed
    <3> QED BY <1>1, <1>2, <2>1, <2>2, <3>1, Rulings
  <2>3. CASE ~Reviewed(n)
    <3>1. Reason(n) = IF Insufficient(n) THEN "INSUFFICIENT_CONTEXT"
                      ELSE "NO_ADVERSE_SIGNAL"
      BY <1>5, <2>3 DEF Reason, Reviewed
    <3> QED BY <1>1, <1>2, <2>1, <2>3, <3>1, Rulings
  <2> QED BY <2>2, <2>3
<1> QED BY <1>3, <1>4, <1>5

-----------------------------------------------------------------------------
\* A verdict has the shape TscDecision.from_dict expects.
LEMMA DecideType ==
  ASSUME NEW n \in Contexts
  PROVE  Decide(n) \in Verdicts
<1>1. Decide(n).decision \in {"PASS", "REVIEW", "BLOCK", "SKIP"}
      /\ Decide(n).risk \in 0 .. 100
  BY DecisionByFacts
<1>2. Reason(n) \in {"EGRESS_SECRET_UNTRUSTED", "PRIVILEGE_MISMATCH",
        "UNVERIFIED_GRANT", "PROMPT_INJECTION_SUSPECTED", "PII_EGRESS_REVIEW",
        "INSUFFICIENT_CONTEXT", "NO_ADVERSE_SIGNAL"}
  BY DEF Reason
<1>3. Confidence(n) \in 2 .. 7
  BY ContextFields, BlockCount DEF Confidence
<1>4. SummaryAttested(n) \in BOOLEAN
  BY ContextFields DEF SummaryAttested
<1>5. Decide(n) = [decision |-> Decide(n).decision, risk |-> Decide(n).risk,
                   reason |-> Reason(n), confidence |-> Confidence(n),
                   attested |-> SummaryAttested(n)]
  BY DEF Decide
<1> QED BY <1>1, <1>2, <1>3, <1>4, <1>5 DEF Verdicts

-----------------------------------------------------------------------------
\* The facts behind BLOCK and REVIEW only grow with the risk.
LEMMA FactsGrow ==
  ASSUME NEW n, NEW m, AtLeastAsRisky(n, m)
  PROVE  /\ Blocked(n) => Blocked(m)
         /\ Reviewed(n) => Blocked(m) \/ Reviewed(m)
<1>1. SecretLeak(n) => SecretLeak(m)
  BY DEF AtLeastAsRisky, SecretLeak
<1>2. PrivateEgress(n) => PrivateEgress(m)
  BY DEF AtLeastAsRisky, PrivateEgress
<1>3. Missing(n) \subseteq Missing(m)
  BY DEF AtLeastAsRisky, Missing
<1>4. Sensitive(n) => Sensitive(m)
  BY DEF AtLeastAsRisky
<1>5. UnverifiedGrant(n) => UnverifiedGrant(m)
  BY DEF AtLeastAsRisky, UnverifiedGrant
<1>6. n.suspected => m.suspected
  BY DEF AtLeastAsRisky
<1> QED BY <1>1, <1>2, <1>3, <1>4, <1>5, <1>6 DEF Blocked, Reviewed

\* A decision has a severity.
LEMMA SeverityType ==
  ASSUME NEW n
  PROVE  Severity(Decide(n).decision) \in 0 .. 2
<1>1. /\ Severity("BLOCK") = 2 /\ Severity("REVIEW") = 1
      /\ Severity("PASS") = 0 /\ Severity("SKIP") = 0
  BY DEF Severity
<1>2. Decide(n).decision \in {"BLOCK", "REVIEW", "PASS", "SKIP"}
  BY DecisionByFacts
<1> QED BY <1>1, <1>2

\* decide is monotone: of any two contexts, however many fields they differ
\* in, the riskier one never gets the softer decision.
THEOREM DecideMonotone ==
  ASSUME NEW n, NEW m, AtLeastAsRisky(n, m)
  PROVE  Severity(Decide(n).decision) <= Severity(Decide(m).decision)
<1>1. /\ Severity("BLOCK") = 2 /\ Severity("REVIEW") = 1
      /\ Severity("PASS") = 0 /\ Severity("SKIP") = 0
  BY DEF Severity
<1>2. CASE Blocked(n)
  <2>1. Decide(n).decision = "BLOCK" /\ Decide(m).decision = "BLOCK"
    BY <1>2, FactsGrow, DecisionByFacts
  <2> QED BY <1>1, <2>1
<1>3. CASE ~Blocked(n) /\ Reviewed(n)
  <2>1. Decide(n).decision = "REVIEW"
    BY <1>3, DecisionByFacts
  <2>2. Decide(m).decision \in {"BLOCK", "REVIEW"}
    BY <1>3, FactsGrow, DecisionByFacts
  <2> QED BY <1>1, <2>1, <2>2
<1>4. CASE ~Blocked(n) /\ ~Reviewed(n)
  <2>1. Decide(n).decision \in {"PASS", "SKIP"}
    BY <1>4, DecisionByFacts
  <2>2. Decide(m).decision \in {"PASS", "SKIP", "REVIEW", "BLOCK"}
    BY DecisionByFacts
  <2> QED BY <1>1, <2>1, <2>2
<1> QED BY <1>2, <1>3, <1>4

\* A graver decision always has the higher score, in any two contexts.
LEMMA ScoresSeparate ==
  ASSUME NEW n \in Contexts, NEW m \in Contexts,
         Severity(Decide(n).decision) < Severity(Decide(m).decision)
  PROVE  Decide(n).risk < Decide(m).risk
<1>1. /\ Severity("BLOCK") = 2 /\ Severity("REVIEW") = 1
      /\ Severity("PASS") = 0 /\ Severity("SKIP") = 0
  BY DEF Severity
<1>2. ASSUME NEW k \in Contexts
      PROVE  \/ Severity(Decide(k).decision) = 2 /\ Decide(k).risk \in 85 .. 100
             \/ Severity(Decide(k).decision) = 1 /\ Decide(k).risk \in 50 .. 60
             \/ Severity(Decide(k).decision) = 0 /\ Decide(k).risk \in 0 .. 10
  BY <1>1, DecisionByFacts
<1>3. \/ Severity(Decide(n).decision) = 2 /\ Decide(n).risk \in 85 .. 100
      \/ Severity(Decide(n).decision) = 1 /\ Decide(n).risk \in 50 .. 60
      \/ Severity(Decide(n).decision) = 0 /\ Decide(n).risk \in 0 .. 10
  BY <1>2
<1>4. \/ Severity(Decide(m).decision) = 2 /\ Decide(m).risk \in 85 .. 100
      \/ Severity(Decide(m).decision) = 1 /\ Decide(m).risk \in 50 .. 60
      \/ Severity(Decide(m).decision) = 0 /\ Decide(m).risk \in 0 .. 10
  BY <1>2
<1> QED BY <1>3, <1>4

-----------------------------------------------------------------------------
\* Dropping the scopes a context claims leaves a valid context.
LEMMA WithoutClaims ==
  ASSUME NEW n \in Contexts, NEW m,
         m = [n EXCEPT !.granted = {}, !.toolScopes = {}]
  PROVE  /\ m \in Contexts /\ Granted(m) = {}
         /\ Attested(m) = Attested(n) /\ Sensitive(m) = Sensitive(n)
         /\ Egress(m) = Egress(n) /\ Untrusted(m) = Untrusted(n)
         /\ m.classes = n.classes /\ m.required = n.required
         /\ m.suspected = n.suspected /\ Insufficient(m) = Insufficient(n)
<1>1. m \in Contexts
  BY DEF Contexts
<1>2. /\ m.classes = n.classes /\ m.required = n.required
      /\ m.suspected = n.suspected /\ m.action = n.action /\ m.cap = n.cap
      /\ m.dest = n.dest /\ m.verified = n.verified /\ m.source = n.source
      /\ m.blocks = n.blocks /\ m.granted = {} /\ m.toolScopes = {}
  BY DEF Contexts
<1> QED BY <1>1, <1>2
        DEF Granted, Attested, Sensitive, Egress, Untrusted, Insufficient
=============================================================================
