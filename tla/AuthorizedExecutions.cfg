SPECIFICATION Spec
CONSTANTS
  None = None
  Malformed = Malformed
  Grants <- MCGrants
  Actions <- MCActions
  Amounts <- MCAmounts
  Snaps = {h1, h2}
  MaxReceipts = 2
  MaxExecutions = 2
  DigitsUsed = {0, 1, 9}
  MaxWhole = 2
  MaxFrac = 2
SYMMETRY Symmetry
INVARIANTS
  TypeOK
  ComparisonIsNumeric
  AdmittedIsWithinLimits
  BoundMeansAdmissible
  DecisionWasIssued
  EvidenceStaysTrue
PROPERTIES
  NarrowingNeverAdmits
