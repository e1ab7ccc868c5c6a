CONSTANTS
    Parts = {"plans"}
    Threads = {t1}
    Orders = {o1}
    ApprovalCap = 1
    HistoryLimit = 1
    SyncLimit = 1
    S = S
    Symbols <- MCSymbols
    Prices = {2, 3}
    StartCash = 7
    MaxPlans = 2
    Inputs <- MCWholeInputs
SPECIFICATION PartsSpec
INVARIANT CashIsKept
