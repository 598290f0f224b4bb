CONSTANTS
  ItemCount = 2
  Parts = {1}
  PartOf <- RetryPartOf
  Linear = {1}
  Simultaneous = {}
  Sections = {1}
  SectionPath <- RetryPath
  Control <- RetryControl
  Adaptive = {}
  PreConditions <- RetryPre
  BranchRules <- RetryBranch
  TemplateItems = {}
  DeclaredMax <- NoMax
  MinTime <- NoMin
  AllowLate = {}
  ExtraTime <- NoExtraTime
  NoLimit = NoLimit
  NoResult = NoResult
  TestOutcomes = {0, 1, 2, 3, 4, 5, 6}
  DefaultOutcomes = 0
  Results <- AnswerResults
  ClockSteps = {1}
  MaxClock = 1
  MaxCommitted = 2
  MaxRejected = 1
  Evaluate <- MCEvaluate
  OutcomeRules <- MCOutcomeRules
  Resolvable = {1, 2}
  Imperative = {1}
  Responses <- Answers
  NoResponse = "blank"
  Stopped = Stopped
  NoStore = NoStore
  NoInstance = NoInstance
  NoState = NoState
  ResetsAnywhere = FALSE
  MaxMade = 1
  Score <- MCScore
  Completes <- MCCompletes
  NextAttempt <- MCNextAttempt
  Absent = Absent
SPECIFICATION SessionSpec
INVARIANTS
  NoAttemptInvented
