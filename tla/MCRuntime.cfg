CONSTANTS
    r1 = r1
    r2 = r2
    r3 = r3
    d1 = d1
    d2 = d2
    Runs = {r1, r2, r3}
    Times <- MCTimes
    MaxJobs = 2
    MaxEvents = 3
    Decisions = {d1, d2}
    EvalAt <- MCEvalAt
    Alerting = {d1}
    Destinations = {"desk"}
    Plan <- SharedDecision
SPECIFICATION Spec
INVARIANTS
    CommittedStepsHold
    AlertsAreSound
    RunsAreExplained
PROPERTIES
    RunsOnlyAdvance
    ImplementsLedger
CHECK_DEADLOCK FALSE
