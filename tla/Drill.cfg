CONSTANTS
  ItemCount = 4
  Parts = {1, 2}
  PartOf <- DrillPartOf
  Linear = {1, 2}
  Simultaneous = {}
  Sections = {1, 2, 3}
  SectionPath <- DrillPath
  Control <- DrillControl
  Adaptive = {}
  PreConditions <- DrillPre
  BranchRules <- DrillBranch
  TemplateItems = {1}
  DeclaredMax <- DrillMax
  MinTime <- DrillMin
  AllowLate = {}
  ExtraTime <- NoExtraTime
  NoLimit = NoLimit
  NoResult = NoResult
  TestOutcomes = {0, 1, 2, 3, 4, 5}
  DefaultOutcomes = 0
  Results <- DrillResults
  ClockSteps <- BothWays
  MaxClock = 1
  MaxCommitted = 1
  MaxRejected = 1
  Evaluate <- MCEvaluate
  OutcomeRules <- MCOutcomeRules
SPECIFICATION Spec
INVARIANTS
  PlansAreAdmissible
  LinearItemsServed
PROPERTIES
  TimeNeverDecreases
  BranchesMoveForward
