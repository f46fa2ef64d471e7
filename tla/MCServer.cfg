CONSTANTS
    Apps <- MCApps
    Requests = {r1, r2}
    Tokens = {t1, t2}
    Users = {u}
    Data = {d}
    None = None
    HasMetrics = TRUE
    Callers = {c}
SPECIFICATION FairSpec
INVARIANTS CookieFollowsStore AnsweredOnce StopsWhole
PROPERTIES NoForgedAction ServingEnds
CHECK_DEADLOCK FALSE
