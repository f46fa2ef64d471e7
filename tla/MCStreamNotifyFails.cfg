CONSTANTS
    Streams = {a}
    Tokens = {t1}
    Users <- MCUsers
    Data = {d}
    None = None
    mNotice1 = mNotice1
    mNotice2 = mNotice2
    mBroadcast = mBroadcast
    Msgs <- PairMsgs
    SubjectOf <- MCSubjectOf
    Capacity = 1
    Lossy = FALSE
    NotifyMayFail = TRUE
SPECIFICATION Spec
INVARIANTS StreamCloseFollowsOpen
