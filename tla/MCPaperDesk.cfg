CONSTANTS
    Parts = {"orders", "plans"}
    Threads = {t1, t2}
    Orders = {o1, o2}
    ApprovalCap = 1
    HistoryLimit = 2
    SyncLimit = 2
    S = S
    Symbols <- MCSymbols
    Prices = {2, 3}
    StartCash = 7
    MaxPlans = 2
    Inputs <- MCInputs
SPECIFICATION PartsSpec
SYMMETRY OrderSymmetry
INVARIANTS
    SentOnceAndJournalled
    JournalNeverAhead
    PlansAreSafe
PROPERTY UnansweredForGood
