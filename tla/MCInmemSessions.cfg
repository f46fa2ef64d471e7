CONSTANTS
    Tokens = {t1, t2}
    Users = {u1, u2}
    Data = {d1, d2}
    Watches = {w1, w2}
    None = None
SPECIFICATION FairSpec
INVARIANTS CalledOnceForClosed NothingMissed
PROPERTIES ClosedIsFinal ImplementsManager WatchesAreReleased
