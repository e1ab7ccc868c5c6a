CONSTANTS
    Parts = {"accounts"}
    c1 = c1
    c2 = c2
    Threads = {t1, t2}
    Closes <- MCCloses
    MaxScans = 3
    MaxProbes = 1
    MaxSaves = 2
    MaxCrashes = 1
    Null = Null
    Requests = {q1, q2}
    Users = {u1, u2}
    Codes = {c1, c2}
    Offers <- OneOffer
    Ends <- MCEnds
    MaxNow = 1
SPECIFICATION PartsSpec
INVARIANT LimitIsKept
CHECK_DEADLOCK FALSE
