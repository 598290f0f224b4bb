CONSTANTS
    s1 = s1
    s2 = s2
    Packages = {p1}
    Sessions <- TwoSessions
    NoSession = NoSession
    Registrations = {r1}
    NoRegistration = NoRegistration
    RequestIds = {q1, q2}
    NoId = NoId
    MoveOns = {"NotApplicable"}
    FetchTtl = 1
    AuthTtl = 1
    MaxTime = 0
    MaxLaunches <- LaunchBound
    MaxStatements <- FirstStatement
    TornWrites = TRUE
SPECIFICATION AdapterSpec
INVARIANTS TokensAreConfined AcknowledgedIdsRemembered
