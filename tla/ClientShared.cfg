SPECIFICATION Spec
CONSTANTS
  Callers = {c1, c2}
  Ops = {"decide", "mint"}
  Keys = {k1}
  NoKey = NoKey
  Verdicts = {"PASS"}
  Retries = 1
  MaxCalls = 1
  Cancellable = FALSE
SYMMETRY Symmetry
INVARIANTS
  TypeOK
  AnswerIsOurs
  StableHeaders
  IInv
CHECK_DEADLOCK FALSE
