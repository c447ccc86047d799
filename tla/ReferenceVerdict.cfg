SPECIFICATION Spec
CONSTANTS
  Actions = {"data_egress", "message_post", "payment", "other"}
  Sources = {"client_asserted", "engine_derived"}
  Capabilities = {"exec"}
  Classes = {"secret", "pii"}
  Trusts = {"unverified", "trusted"}
  Scopes = {s1, s2}
SYMMETRY Symmetry
INVARIANTS
  TypeOK
  PassIsEarned
  SkipIsHonest
PROPERTIES
  RiskNeverSoftens
  RiskScoreFollows
