------------------------------ MODULE TscRules ------------------------------
(***************************************************************************)
(* The rules of the offline reference evaluator (quesen_sdk/reference.py,  *)
(* decide): the contract-level verdict on a normalized TSC v2 context.  An *)
(* ordered list of rules with early returns, a pure function.              *)
(***************************************************************************)
EXTENDS Integers, FiniteSets

CONSTANTS
  Actions,        \* action.kind values in use
  Sources,        \* provenance.source values in use
  Capabilities,   \* tool.capability_class values in use
  Classes,        \* data.class values in use
  Trusts,         \* trust_tier values in use
  Scopes          \* permission scopes

ActionKinds == {"tool_call", "http_request", "data_read", "data_write",
                "data_egress", "message_post", "payment", "code_exec",
                "file_access", "other"}
SourceKinds == {"client_asserted", "adapter_derived", "engine_derived",
                "trusted_metadata"}
CapabilityClasses == {"read", "write", "network", "exec", "financial",
                      "admin", "comms", "filesystem", "other"}
DataClasses == {"public", "internal", "confidential", "pii", "financial",
                "credential", "secret", "regulated", "unknown"}
TrustTiers == {"trusted", "verified", "unverified", "unknown"}

ASSUME ReferenceAssumption ==
  /\ Actions \subseteq ActionKinds /\ "other" \in Actions
  /\ Sources \subseteq SourceKinds /\ "client_asserted" \in Sources
  /\ Capabilities \subseteq CapabilityClasses
  /\ Classes \subseteq DataClasses
  /\ Trusts \subseteq TrustTiers

\* The optional blocks decide looks at.  `blocks` holds those that are not
\* empty after normalization, which is what `n.get(block)` tests.
OptionalBlocks == {"target", "tool", "permissions", "data", "signals"}

\* What decide can see of a context that normalize returned.
Contexts ==
  {n \in [action : Actions, source : Sources, verified : BOOLEAN,
          cap : Capabilities \cup {"none"}, toolScopes : SUBSET Scopes,
          granted : SUBSET Scopes, required : SUBSET Scopes,
          classes : SUBSET Classes, dest : Trusts \cup {"absent"},
          suspected : BOOLEAN, blocks : SUBSET OptionalBlocks] :
     /\ n.cap # "none" \/ n.toolScopes # {} => "tool" \in n.blocks
     /\ n.granted # {} \/ n.required # {} => "permissions" \in n.blocks
     /\ n.classes # {} \/ n.dest # "absent" => "data" \in n.blocks
     /\ n.suspected => "signals" \in n.blocks}

-----------------------------------------------------------------------------
(* The facts the rules of decide test.                                      *)

SENSITIVE_ACTIONS ==
  {"payment", "code_exec", "data_egress", "data_write", "file_access"}
SENSITIVE_CAPABILITIES == {"financial", "admin", "exec", "write", "filesystem"}

Attested(n) == n.verified \/ n.source \in {"engine_derived", "trusted_metadata"}

Sensitive(n) == n.action \in SENSITIVE_ACTIONS \/ n.cap \in SENSITIVE_CAPABILITIES

Egress(n) == n.action \in {"data_egress", "message_post", "http_request"}

\* A destination that was not given counts as "unknown".
Untrusted(n) == n.dest \in {"absent", "unverified", "unknown"}

Granted(n) == n.granted \cup n.toolScopes

\* Mutant: claimed scopes count whether or not they are attested.
MissingClaimed(n) == n.required \ Granted(n)

Missing(n) == n.required \ (IF Attested(n) THEN Granted(n) ELSE {})

SecretLeak(n) ==
  n.classes \cap {"credential", "secret"} # {} /\ Egress(n) /\ Untrusted(n)

UnverifiedGrant(n) == Sensitive(n) /\ Granted(n) # {} /\ ~Attested(n)

PrivateEgress(n) ==
  n.classes \cap {"pii", "financial", "regulated"} # {} /\ Egress(n) /\ Untrusted(n)

\* Mutant: the tool block is forgotten.
InsufficientNoTool(n) ==
  n.action = "other" /\ n.blocks \cap {"target", "data", "signals"} = {}

Insufficient(n) ==
  n.action = "other" /\ n.blocks \cap {"target", "tool", "data", "signals"} = {}

\* Mutant: the privilege rule before the hard deny.
ReasonSwapped(n) ==
  IF Missing(n) # {} THEN "PRIVILEGE_MISMATCH"
  ELSE IF SecretLeak(n) THEN "EGRESS_SECRET_UNTRUSTED"
  ELSE IF UnverifiedGrant(n) THEN "UNVERIFIED_GRANT"
  ELSE IF n.suspected THEN "PROMPT_INJECTION_SUSPECTED"
  ELSE IF PrivateEgress(n) THEN "PII_EGRESS_REVIEW"
  ELSE IF Insufficient(n) THEN "INSUFFICIENT_CONTEXT"
  ELSE "NO_ADVERSE_SIGNAL"

\* The rules in the order of the code; the first that applies decides.
Reason(n) ==
  IF SecretLeak(n) THEN "EGRESS_SECRET_UNTRUSTED"
  ELSE IF Missing(n) # {} THEN "PRIVILEGE_MISMATCH"
  ELSE IF UnverifiedGrant(n) THEN "UNVERIFIED_GRANT"
  ELSE IF n.suspected THEN "PROMPT_INJECTION_SUSPECTED"
  ELSE IF PrivateEgress(n) THEN "PII_EGRESS_REVIEW"
  ELSE IF Insufficient(n) THEN "INSUFFICIENT_CONTEXT"
  ELSE "NO_ADVERSE_SIGNAL"

\* Mutant: the score of a privilege mismatch ignores the sensitivity.
RulingFlat(reason, sensitive) ==
  CASE reason = "EGRESS_SECRET_UNTRUSTED" -> <<"BLOCK", 100>>
    [] reason = "PRIVILEGE_MISMATCH" ->
         <<IF sensitive THEN "BLOCK" ELSE "REVIEW", 50>>
    [] reason = "UNVERIFIED_GRANT" -> <<"REVIEW", 50>>
    [] reason = "PROMPT_INJECTION_SUSPECTED" -> <<"REVIEW", 60>>
    [] reason = "PII_EGRESS_REVIEW" -> <<"REVIEW", 55>>
    [] reason = "INSUFFICIENT_CONTEXT" -> <<"SKIP", 0>>
    [] reason = "NO_ADVERSE_SIGNAL" -> <<"PASS", 10>>

\* Decision and risk score (in hundredths) a rule returns.
Ruling(reason, sensitive) ==
  CASE reason = "EGRESS_SECRET_UNTRUSTED" -> <<"BLOCK", 100>>
    [] reason = "PRIVILEGE_MISMATCH" ->
         IF sensitive THEN <<"BLOCK", 85>> ELSE <<"REVIEW", 50>>
    [] reason = "UNVERIFIED_GRANT" -> <<"REVIEW", 50>>
    [] reason = "PROMPT_INJECTION_SUSPECTED" -> <<"REVIEW", 60>>
    [] reason = "PII_EGRESS_REVIEW" -> <<"REVIEW", 55>>
    [] reason = "INSUFFICIENT_CONTEXT" -> <<"SKIP", 0>>
    [] reason = "NO_ADVERSE_SIGNAL" -> <<"PASS", 10>>

\* Mutant: provenance is counted too.
ConfidenceOverSeven(n) == 3 + Cardinality(n.blocks)

\* Sevenths: subject and action are always there.
Confidence(n) == 2 + Cardinality(n.blocks)

\* What the provenance summary says; the code works it out a second time.
SummaryAttested(n) == n.source \in {"engine_derived", "trusted_metadata"} \/ n.verified

Decide(n) ==
  LET ruling == Ruling(Reason(n), Sensitive(n)) IN
  [decision |-> ruling[1], risk |-> ruling[2], reason |-> Reason(n),
   confidence |-> Confidence(n), attested |-> SummaryAttested(n)]

-----------------------------------------------------------------------------
(* How verdicts and contexts compare.                                       *)

Verdicts == [decision : {"PASS", "REVIEW", "BLOCK", "SKIP"}, risk : 0 .. 100,
             reason : {"EGRESS_SECRET_UNTRUSTED", "PRIVILEGE_MISMATCH",
                       "UNVERIFIED_GRANT", "PROMPT_INJECTION_SUSPECTED",
                       "PII_EGRESS_REVIEW", "INSUFFICIENT_CONTEXT",
                       "NO_ADVERSE_SIGNAL"},
             confidence : 2 .. 7, attested : BOOLEAN]

Severity(decision) == CASE decision \in {"PASS", "SKIP"} -> 0
                        [] decision = "REVIEW" -> 1
                        [] decision = "BLOCK" -> 2

\* m is at least as risky as n.  Scopes work in two directions: of an attested
\* caller, fewer of them are a risk; of an unattested one, claiming any is.
AtLeastAsRisky(n, m) ==
  /\ Sensitive(n) => Sensitive(m)
  /\ Egress(n) => Egress(m)
  /\ n.classes \subseteq m.classes
  /\ Untrusted(n) => Untrusted(m)
  /\ n.required \subseteq m.required
  /\ n.suspected => m.suspected
  /\ Attested(m) => Attested(n) /\ Granted(m) \subseteq Granted(n)
  /\ ~Attested(n) /\ Granted(n) # {} => Granted(m) # {}
=============================================================================
