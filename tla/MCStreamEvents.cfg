CONSTANTS
    Streams = {a}
    Tokens = {t1, t2}
    Users <- MCUsers
    Data = {d}
    None = None
    mNotice1 = mNotice1
    mNotice2 = mNotice2
    mBroadcast = mBroadcast
    Msgs <- DataMsgs
    SubjectOf <- MCSubjectOf
    Capacity = 2
    Lossy = TRUE
    NotifyMayFail = TRUE
SPECIFICATION Spec
INVARIANTS AddressedOnly
PROPERTIES QuietAfterClose
