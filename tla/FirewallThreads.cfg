SPECIFICATION Spec
CONSTANTS
  Callers = {c1, c2}
  Decisions = {"PASS", "BLOCK"}
  MaxAttempts = 1
  MaxCalls = 2
SYMMETRY Symmetry
INVARIANTS
  TypeOK
  RunsOnlyOnOwnPass
  FailClosed
  AuditGenuine
  AuditNotStale
CHECK_DEADLOCK FALSE
