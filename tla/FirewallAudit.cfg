SPECIFICATION Spec
CONSTANTS
  Callers = {c1, c2}
  Decisions = {"PASS", "BLOCK"}
  MaxAttempts = 2
  MaxCalls = 1
INVARIANTS
  AuditMatchesRun
CHECK_DEADLOCK FALSE
