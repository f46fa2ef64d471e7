CONSTANTS
    Streams = {a, b}
    Tokens = {t1}
    Users <- PairUsers
    Data = {d}
    None = None
    mNotice1 = mNotice1
    mNotice2 = mNotice2
    mBroadcast = mBroadcast
    Msgs <- PairMsgs
    SubjectOf <- MCSubjectOf
    Capacity = 1
    Lossy = FALSE
    NotifyMayFail = FALSE
SPECIFICATION FairSpec
INVARIANTS SubscribedSinceHead
PROPERTIES EndedStreamReturns StreamCleansUp
