SPECIFICATION WaitingSpec
CONSTANTS
    Plugins = {"a", "b"}
    Reaches <- MCReaches
    Sources <- MCSources
    MaxTokens = 5
    MaxPushes = 1
    MaxDeaths = 1
    HandoffCap = 1
    Prompts = {k}
    Sessions = {s}
    NoSession = none
    MaxIssues = 2
    MaxActs = 2
    MaxBoots = 1
    Appts = {1, 2}
    Specs <- MCSpecs
    Skews = {0, 2}
    Grace = 1
    max_total = 1
    MaxCalls = 2
    MaxTime = 3
    MaxAdjusts = 1
    MaxDistrust = 1
    MaxAppointmentBoots = 1
    WatchKeys = {1, 2}
    WatchSpecs <- MCWatchSpecs
    Readings = {"low", "high", "other"}
    BusCapacity = 2
    MaxRate = 2
    MaxWatches = 1
    MaxReadings = 4
    MaxWatchCalls = 2
    MaxWatchTime = 4
    MaxDoubts = 1
    Offsets = {0, 1, 2}
    MaxSteps = 1
INVARIANTS
    OwnReply
    UnloadAlone
    OutcomeAgrees
    FiresBounded
    PendingDurable
    CooldownKept
    DurationHeld
PROPERTIES
    CallsEnd
    RequestsAnswered
    DueFires
CHECK_DEADLOCK FALSE
