SPECIFICATION Spec
CONSTANTS
  Callers = {c1, c2}
  Ops = {"decide", "mint"}
  Keys = {k1, k2}
  NoKey = NoKey
  Verdicts = {"PASS"}
  Retries = 0
  MaxCalls = 2
  Cancellable = FALSE
SYMMETRY Symmetry
INVARIANTS
  NoAuthErrorAfterMint
PROPERTIES
  KeyNeverLost
CHECK_DEADLOCK FALSE
