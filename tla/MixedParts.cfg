CONSTANTS
  ItemCount = 5
  Parts = {1, 2, 3}
  PartOf <- MixedPartOf
  Linear = {2, 3}
  Simultaneous = {2}
  Sections = {1, 2}
  SectionPath <- MixedPath
  Control <- MixedControl
  Adaptive = {2}
  PreConditions <- MixedPre
  BranchRules <- MixedBranch
  TemplateItems = {1, 2, 4}
  DeclaredMax <- NoMax
  MinTime <- NoMin
  AllowLate = {}
  ExtraTime <- NoExtraTime
  NoLimit = NoLimit
  NoResult = NoResult
  TestOutcomes = {0, 1, 2, 3, 4, 5}
  DefaultOutcomes = 0
  Results <- MixedResults
  ClockSteps = {1}
  MaxClock = 0
  MaxCommitted = 2
  MaxRejected = 1
  Evaluate <- MCEvaluate
  OutcomeRules <- MCOutcomeRules
SPECIFICATION Spec
INVARIANTS
  LedgerAgrees
  ReportAddsUp
  ReportNumbersAttempts
PROPERTIES
  ImplementsLedger
