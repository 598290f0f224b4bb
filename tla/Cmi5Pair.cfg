CONSTANTS
    Packages <- OnePackage
    Runners <- TwoRunners
    PackageId <- SharedId
    Sessions <- RunnerSessions
    NoSession = NoSession
    Registrations <- RunnerSessions
    NoRegistration = NoRegistration
    RequestIds <- TwoRunners
    NoId = NoId
    MoveOns <- AllMoveOns
    Uploads <- UploadChoice
    Adverts <- AdvertChoice
    FetchTtl = 1
    AuthTtl = 1
    MaxTime = 0
    MaxLaunches <- Unbounded
    MaxStatements <- Unbounded
    TornWrites = FALSE
SPECIFICATION RunnerSpec
INVARIANTS RunsDoNotInterfere NoEmptyPass
CHECK_DEADLOCK FALSE
