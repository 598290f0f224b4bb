CONSTANTS
    s1 = s1
    s2 = s2
    Packages = {p1}
    Sessions = {s1}
    NoSession = NoSession
    Registrations = {r1, r2}
    NoRegistration = NoRegistration
    RequestIds = {}
    NoId = NoId
    MoveOns = {"Passed", "Completed", "CompletedAndPassed", "CompletedOrPassed", "NotApplicable"}
    FetchTtl = 1
    AuthTtl = 1
    MaxTime = 1
    MaxLaunches <- LaunchBound
    MaxStatements <- WholeSession
    TornWrites = FALSE
SPECIFICATION AdapterSpec
INVARIANTS LogsWellFormed NoDeadEnd FileIsMemory
PROPERTIES DecisionsStand
