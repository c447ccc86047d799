---------------------------- MODULE TscReference ----------------------------
(***************************************************************************)
(* Offline replay (quesen_sdk/replay.py) of the reference evaluator: the   *)
(* behaviours are those of an integrator who replays a context, revises    *)
(* one field of it and replays it again, so that a step relates the        *)
(* verdicts on two neighbouring contexts.                                  *)
(***************************************************************************)
EXTENDS TscRules

VARIABLES
  ctx,            \* the normalized context that was replayed last
  verdict         \* what replay returned for it

vars == <<ctx, verdict>>

-----------------------------------------------------------------------------
\* The least context that is valid: every optional part left out.
Bare == [action |-> "other", source |-> "client_asserted", verified |-> FALSE,
         cap |-> "none", toolScopes |-> {}, granted |-> {}, required |-> {},
         classes |-> {}, dest |-> "absent", suspected |-> FALSE, blocks |-> {}]

Init == ctx = Bare /\ verdict = Decide(Bare)

Replay(n) == /\ ctx' = n
             /\ verdict' = Decide(n)

\* What the integrator may change between two replays.
Edits(n) == Contexts \cap
  UNION {{[n EXCEPT !.action = v] : v \in Actions},
         {[n EXCEPT !.source = v] : v \in Sources},
         {[n EXCEPT !.verified = v] : v \in BOOLEAN},
         {[n EXCEPT !.cap = v] : v \in Capabilities \cup {"none"}},
         {[n EXCEPT !.toolScopes = v] : v \in SUBSET Scopes},
         {[n EXCEPT !.granted = v] : v \in SUBSET Scopes},
         {[n EXCEPT !.required = v] : v \in SUBSET Scopes},
         {[n EXCEPT !.classes = v] : v \in SUBSET Classes},
         {[n EXCEPT !.dest = v] : v \in Trusts \cup {"absent"}},
         {[n EXCEPT !.suspected = v] : v \in BOOLEAN},
         {[n EXCEPT !.blocks = v] : v \in SUBSET OptionalBlocks}}

Next == \E n \in Edits(ctx) : Replay(n)

Spec == Init /\ [][Next]_vars

-----------------------------------------------------------------------------
\* The context is one that normalize returns, and the verdict has the shape
\* TscDecision.from_dict expects: one of the four decisions, a risk score in
\* [0, 1] and a confidence in sevenths.
TypeOK == ctx \in Contexts /\ verdict \in Verdicts

\* Adding risk to a context -- a data class, a required scope, a finding, a
\* less trusted destination, the loss of its attestation -- never softens the
\* decision, although each early return hides the rules behind it.
RiskNeverSoftens ==
  [][AtLeastAsRisky(ctx, ctx') =>
       Severity(verdict.decision) <= Severity(verdict'.decision)]_vars

\* The risk score orders contexts as the decision does: an integrator who
\* thresholds risk_score never lets a graver decision through before a
\* milder one.
RiskScoreFollows ==
  [][Severity(verdict.decision) < Severity(verdict'.decision) =>
       verdict.risk < verdict'.risk]_vars

\* PASS is earned: when the policy requires scopes, the provenance summary of
\* a PASS says attested and every required scope was granted; and an
\* unattested context that passes would pass without the scopes it claims.
PassIsEarned == verdict.decision = "PASS" =>
  /\ ctx.required # {} => verdict.attested /\ ctx.required \subseteq Granted(ctx)
  /\ ~verdict.attested =>
       Decide([ctx EXCEPT !.granted = {}, !.toolScopes = {}]).decision = "PASS"

\* SKIP is honest: the evaluator declines only when at most the permissions
\* block could have told it anything, and anything adverse in that block has
\* been ruled on first.
SkipIsHonest == verdict.decision = "SKIP" =>
  /\ verdict.confidence <= 3
  /\ ctx.required \subseteq Granted(ctx)
  /\ ctx.required # {} => verdict.attested
=============================================================================
