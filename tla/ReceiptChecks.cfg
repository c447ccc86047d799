SPECIFICATION Spec
CONSTANTS
  x1 = x1
  x2 = x2
  h1 = h1
  h2 = h2
  why = why
  Contexts = {x1, x2}
  BadContexts = {x3}
  RaisingContexts = {x4}
  Decisions = {"PASS", "BLOCK"}
  ReasonLists = {why}
  Hashes = {h1, h2}
  Reference <- MCReference
  Shas = {g1}
  MaxIssued = 2
INVARIANTS
  TypeOK
  AcceptedIsAuthentic
  AcceptedIsReproduced
  AcceptedIsDecided
  MoreChecksAcceptLess
