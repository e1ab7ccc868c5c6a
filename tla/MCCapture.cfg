CONSTANTS
    Parts = {"cycles", "caps", "paper", "feed", "facts"}
    None = None
    Processes = {q1, q2}
    Cycles = {c1, c2}
    Batch <- MCBatch
    ScheduledAt <- MCScheduledAt
    Start = 0
    End = 2
    Sessions = {0, 1}
    RequireAll = FALSE
    MaxBarAge = 2
    MaxObservations = 3
    PageSize = 2
    MaxPages = 2
    Ids = {1, 2, 3, 4}
    Times = {2, 3, 4}
    Unset = Unset
    Evaluators = {q1, q2}
    Evaluations = {e1, e2}
    DecisionOf <- MCDecisionOf
    CapturedAt <- MCCapturedAt
    MaxAttempts = 3
    Decisions = {d1}
    EvaluatedAt <- MCEvaluatedAt
    Measurements <- MCMeasurements
    PaperTimes = {1, 2, 3}
    FeedStart = 1
    FeedEnd = 4
    ItemsPerPage = 1
    PageLimits <- MCPageLimits
    MaxRecords = 3
    MaxRequests = 2
    MaxVersion = 2
    MaxLate = 1
    Versions <- MCVersions
    NoKey = None
    NoTime = None
    Sources = {"A", "B"}
    Labels = {"x", "y"}
    Subjects = {"u"}
    Collectors = {k1, k2}
    Bounds = {1}
    MaxBatch = 2
    MaxTime = 1
    c1 = c1
    c2 = c2
    e1 = e1
    e2 = e2
    d1 = d1
    k1 = k1
    k2 = k2
SPECIFICATION PartsSpec
INVARIANTS
    EvidenceIsSound
    ResultIsExplained
    FetchIsExact
    HistoriesAreSound
PROPERTIES
    CaptureKeepsPromise
    ResultsAreFinal
    PastsAndCallsSettle
CHECK_DEADLOCK FALSE
