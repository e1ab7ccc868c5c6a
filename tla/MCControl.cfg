CONSTANTS
    Parts = {"alerts", "commands"}
    k1 = k1
    k2 = k2
    p1 = p1
    p2 = p2
    r1 = r1
    c1 = c1
    c2 = c2
    c3 = c3
    c4 = c4
    Workers = {w1, w2}
    Keys = {k1, k2}
    Allowed = {k1, k2}
    Times <- MCTimes
    EvalAt <- MCEvalAt
    MaxAttempt = 2
    Planes = {p1, p2}
    Ids = {c1, c2, c3, c4}
    Commands <- MCCommands
    Grants <- MCGrants
    Runs = {r1}
    Schedule <- MCSchedule
    CommandTimes <- MCCommandTimes
    MaxJobs = 1
    MaxEvents = 9
SPECIFICATION PartsSpec
INVARIANTS
    AtMostOnce
    OutboxTellsTheTruth
    EffectAtMostOnce
    ResponseIsHonest
PROPERTIES
    ResolvedForGood
    ImplementsPromise
    LedgerIsFinal
    CallEnds
