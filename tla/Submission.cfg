SPECIFICATION Spec
CONSTANTS
  Actions = {"data_egress", "payment", "tool_call", "other"}
  Sources = {"client_asserted", "adapter_derived", "trusted_metadata"}
  Capabilities = {"financial", "other"}
  Classes = {"secret", "pii", "unknown"}
  Trusts = {"trusted", "unverified", "unknown"}
  Scopes = {s1}
  Texts = {"text"}
  Ids = {"id1", "id2"}
  None = None
  Bases <- MCBases
  Descriptions <- MCDescriptions
  MaxEdits = 1
  MaxSends = 2
CHECK_DEADLOCK FALSE
INVARIANTS
  TypeOK
  BuiltIsJudged
  DescriptionsAreRuled
  CallsKeepTheirIds
PROPERTIES
  OmissionNeverSoftens
  HashDecides
  SentReplays
