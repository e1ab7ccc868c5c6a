CONSTANTS
    Parts = {"saves"}
    c1 = c1
    c2 = c2
    Threads = {t1}
    Closes <- MCCloses
    MaxScans = 0
    MaxProbes = 1
    MaxSaves = 1
    MaxCrashes = 0
    Null = Null
    Requests = {q1, q2}
    Users = {u1, u2}
    Codes = {c1, c2}
    Offers <- MCOffers
    Ends <- MCEnds
    MaxNow = 1
SPECIFICATION PartsSpec
INVARIANT EverySaveNeedsAFreshTest
CHECK_DEADLOCK FALSE
