CONSTANTS
  ItemCount = 4
  Parts = {1, 2}
  PartOf <- HeldPartOf
  Linear = {2}
  Simultaneous = {1}
  Sections = {1, 2}
  SectionPath <- HeldPath
  Control <- HeldControl
  Adaptive = {}
  PreConditions <- HeldPre
  BranchRules <- HeldBranch
  TemplateItems = {}
  DeclaredMax <- NoMax
  MinTime <- NoMin
  AllowLate = {}
  ExtraTime <- NoExtraTime
  NoLimit = NoLimit
  NoResult = NoResult
  TestOutcomes = {0, 1, 2, 3, 4, 5}
  DefaultOutcomes = 0
  Results <- MixedResults
  ClockSteps = {1}
  MaxClock = 0
  MaxCommitted = 2
  MaxRejected = 1
  Evaluate <- MCEvaluate
  OutcomeRules <- MCOutcomeRules
SPECIFICATION Spec
PROPERTIES
  EnteredPartMeetsPreConditions
