SPECIFICATION FairSpec
CONSTANTS
  Callers = {c1}
  Ops = {"report", "mintOnly"}
  Keys = {k1}
  NoKey = NoKey
  Verdicts = {"PASS"}
  Retries = 1
  MaxCalls = 2
  Cancellable = TRUE
INVARIANTS
  RetryDiscipline
PROPERTIES
  ImplementsContract
  CallsReturn
CHECK_DEADLOCK FALSE
