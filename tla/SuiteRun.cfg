CONSTANTS
    Suites <- SomeSuites
    Cases <- SomeCases
    Root = "root"
    Children <- Tree
    Hooks <- BeforeHooks
    Written <- WithBody
    MaxStray = 1
    ExitCodes = 3
SPECIFICATION Spec
INVARIANTS ReportIsTrue HooksComeFirst NothingAfterBail ZeroMeansPassed
PROPERTIES RunEnds
CHECK_DEADLOCK FALSE
