SPECIFICATION Spec
CONSTANTS
  Actions = {"data_egress", "payment", "tool_call", "other"}
  Sources = {"client_asserted", "adapter_derived", "trusted_metadata"}
  Capabilities = {"financial", "other"}
  Classes = {"secret", "pii", "unknown"}
  Trusts = {"trusted", "unverified", "unknown"}
  Scopes = {s1}
  Texts = {"text"}
  Ids = {"id1"}
  None = None
  Bases <- MCBases
  Descriptions <- MCDescriptions
  MaxEdits = 2
  MaxSends = 0
INVARIANT NeverRaises
CHECK_DEADLOCK FALSE
