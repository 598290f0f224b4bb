CONSTANTS
  ItemCount = 3
  Parts = {1, 2}
  PartOf <- TimedPartOf
  Linear = {1}
  Simultaneous = {2}
  Sections = {1, 2, 3}
  SectionPath <- TimedPath
  Control <- TimedControl
  Adaptive = {}
  PreConditions <- TimedPre
  BranchRules <- TimedBranch
  TemplateItems = {3}
  DeclaredMax <- TimedMax
  MinTime <- TimedMin
  AllowLate <- TimedLate
  ExtraTime <- TimedExtra
  NoLimit = NoLimit
  NoResult = NoResult
  TestOutcomes = {0, 1, 2, 3, 4, 5}
  DefaultOutcomes = 0
  Results <- TimedResults
  ClockSteps = {1}
  MaxClock = 4
  MaxCommitted = 1
  MaxRejected = 1
  Evaluate <- MCEvaluate
  OutcomeRules <- MCOutcomeRules
SPECIFICATION FairSpec
INVARIANTS
  CurrentInTime
  NoTimeLost
  NextOfferIsHonoured
PROPERTIES
  OverdueTestCloses
