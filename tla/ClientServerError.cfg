SPECIFICATION Spec
CONSTANTS
  Callers = {c1}
  Ops = {"report"}
  Keys = {k1}
  NoKey = NoKey
  Verdicts = {"PASS"}
  Retries = 1
  MaxCalls = 1
  Cancellable = FALSE
INVARIANTS
  ServerErrorMeansExhausted
CHECK_DEADLOCK FALSE
