CONSTANTS
  ItemCount = 3
  Parts = {1, 2}
  PartOf <- FlowPartOf
  Linear = {2}
  Simultaneous = {}
  Sections = {1, 2}
  SectionPath <- FlowPath
  Control <- FlowControl
  Adaptive = {3}
  PreConditions <- FlowPre
  BranchRules <- FlowBranch
  TemplateItems = {2, 3}
  DeclaredMax <- NoMax
  MinTime <- NoMin
  AllowLate = {}
  ExtraTime <- NoExtraTime
  NoLimit = NoLimit
  NoResult = NoResult
  TestOutcomes = {0, 1, 2, 3, 4, 5, 6}
  DefaultOutcomes = 0
  Results <- AnswerResults
  ClockSteps = {1}
  MaxClock = 0
  MaxCommitted = 1
  MaxRejected = 1
  Evaluate <- MCEvaluate
  OutcomeRules <- MCOutcomeRules
  Resolvable = {1, 2, 3}
  Imperative = {2}
  Responses <- Answers
  NoResponse = "blank"
  Stopped = Stopped
  NoStore = NoStore
  NoInstance = NoInstance
  NoState = NoState
  ResetsAnywhere = FALSE
  MaxMade = 1
  Score <- MCScore
  Completes <- MCCompletes
  NextAttempt <- MCNextAttempt
  Absent = Absent
SPECIFICATION SessionSpec
INVARIANTS
  InputSurvives
  NullLogicIsSound
  GateIsSound
  NothingHalfDone
  ScorersAgree
PROPERTIES
  ClonesStayOnRecord
