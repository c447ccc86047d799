------------------------- MODULE TscReferenceProofs -------------------------
(***************************************************************************)
(* Theorems about the offline reference evaluator, for every set of scopes *)
(* and every choice of the enumerations.  RInv is the invariant: a verdict *)
(* is always decide of the context beside it.  The rest is the reasoning   *)
(* about the ordered rules of decide in TscRulesProofs.                    *)
(***************************************************************************)
EXTENDS TscReference, TscRulesProofs

\* The verdict on record is the one decide gives for the context on record.
RInv == ctx \in Contexts /\ verdict = Decide(ctx)

-----------------------------------------------------------------------------
\* Leaving out every optional part is valid.
LEMMA BareContext == Bare \in Contexts
BY ReferenceAssumption DEF Bare, Contexts

LEMMA InvStep ==
  ASSUME RInv, [Next]_vars
  PROVE  RInv'
<1>1. CASE Next
  BY <1>1 DEF Next, Edits, Replay, RInv
<1>2. CASE UNCHANGED vars
  BY <1>2 DEF vars, RInv
<1> QED BY <1>1, <1>2

\* Every behaviour keeps the verdict beside its own context.
THEOREM Invariant == Spec => []RInv
<1>1. Init => RInv
  BY BareContext DEF Init, RInv
<1> QED BY <1>1, InvStep, PTL DEF Spec

\* replay returns a well-formed verdict for every context (TypeOK).
THEOREM TypeCorrect == Spec => []TypeOK
<1>1. RInv => TypeOK
  BY DecideType DEF RInv, TypeOK
<1> QED BY <1>1, Invariant, PTL

\* Adding risk to a context never softens its decision (RiskNeverSoftens).
THEOREM RiskMonotone == Spec => RiskNeverSoftens
<1>1. RInv /\ RInv' /\ [Next]_vars =>
        [AtLeastAsRisky(ctx, ctx') =>
           Severity(verdict.decision) <= Severity(verdict'.decision)]_vars
  BY DecideMonotone DEF RInv
<1> QED BY <1>1, Invariant, PTL DEF Spec, RiskNeverSoftens

\* The risk score orders contexts as the decision does (RiskScoreFollows).
THEOREM ScoreFollows == Spec => RiskScoreFollows
<1>1. RInv /\ RInv' /\ [Next]_vars =>
        [Severity(verdict.decision) < Severity(verdict'.decision) =>
           verdict.risk < verdict'.risk]_vars
  BY ScoresSeparate DEF RInv
<1> QED BY <1>1, Invariant, PTL DEF Spec, RiskScoreFollows

-----------------------------------------------------------------------------
\* PASS is earned (PassIsEarned): required scopes were verifiably granted, and
\* claims of an unattested caller contributed nothing.
THEOREM PassEarned == Spec => []PassIsEarned
<1>1. ASSUME NEW n \in Contexts, Decide(n).decision = "PASS"
      PROVE  /\ n.required # {} => Attested(n) /\ n.required \subseteq Granted(n)
             /\ ~Attested(n) =>
                  Decide([n EXCEPT !.granted = {}, !.toolScopes = {}]).decision = "PASS"
  <2>1. ~Blocked(n) /\ ~Reviewed(n) /\ ~Insufficient(n)
    BY <1>1, DecisionByFacts
  <2>2. Missing(n) = {}
    BY <2>1 DEF Reviewed
  <2>3. n.required # {} => Attested(n) /\ n.required \subseteq Granted(n)
    BY <2>2 DEF Missing
  <2>4. ASSUME ~Attested(n)
        PROVE  Decide([n EXCEPT !.granted = {}, !.toolScopes = {}]).decision = "PASS"
    <3> DEFINE m == [n EXCEPT !.granted = {}, !.toolScopes = {}]
    <3>1. /\ m \in Contexts /\ Granted(m) = {}
          /\ Attested(m) = Attested(n) /\ Sensitive(m) = Sensitive(n)
          /\ Egress(m) = Egress(n) /\ Untrusted(m) = Untrusted(n)
          /\ m.classes = n.classes /\ m.required = n.required
          /\ m.suspected = n.suspected /\ Insufficient(m) = Insufficient(n)
      BY WithoutClaims
    <3> HIDE DEF m
    <3>2. n.required = {}
      BY <2>3, <2>4
    <3>3. Missing(m) = {}
      BY <3>1, <3>2 DEF Missing
    <3>4. SecretLeak(m) = SecretLeak(n) /\ PrivateEgress(m) = PrivateEgress(n)
      BY <3>1 DEF SecretLeak, PrivateEgress
    <3>5. ~UnverifiedGrant(m)
      BY <3>1 DEF UnverifiedGrant
    <3>6. ~Blocked(m) /\ ~Reviewed(m) /\ ~Insufficient(m)
      BY <2>1, <3>1, <3>3, <3>4, <3>5 DEF Blocked, Reviewed
    <3>7. Decide(m).decision = "PASS"
      BY <3>1, <3>6, DecisionByFacts
    <3> QED BY <3>7 DEF m
  <2> QED BY <2>3, <2>4
<1>2. Decide(ctx).attested <=> Attested(ctx)
  BY DEF Decide, Attested, SummaryAttested
<1>3. RInv => PassIsEarned
  BY <1>1, <1>2 DEF RInv, PassIsEarned
<1> QED BY <1>3, Invariant, PTL

\* SKIP is honest (SkipIsHonest): nothing but a satisfied permissions block
\* was there to reason over.
THEOREM SkipHonest == Spec => []SkipIsHonest
<1>1. ASSUME NEW n \in Contexts, Decide(n).decision = "SKIP"
      PROVE  /\ Confidence(n) <= 3
             /\ n.required \subseteq Granted(n)
             /\ n.required # {} => Attested(n)
  <2>1. ~Blocked(n) /\ ~Reviewed(n) /\ Insufficient(n)
    BY <1>1, DecisionByFacts
  <2>2. Missing(n) = {}
    BY <2>1 DEF Reviewed
  <2>3. Cardinality(n.blocks) \in 0 .. 5 /\ Cardinality(n.blocks) <= 1
    BY <2>1, ContextFields, BlockCount DEF Insufficient
  <2> QED BY <2>2, <2>3 DEF Missing, Confidence
<1>2. /\ Decide(ctx).attested <=> Attested(ctx)
      /\ Decide(ctx).confidence = Confidence(ctx)
  BY DEF Decide, Attested, SummaryAttested
<1>3. RInv => SkipIsHonest
  BY <1>1, <1>2 DEF RInv, SkipIsHonest
<1> QED BY <1>3, Invariant, PTL
=============================================================================
