CONSTANTS
    Subs = {s1}
    TopicSets <- MCTopicSets
    m1 = m1
    m2 = m2
    Msgs <- MCMsgs
    SubjectOf <- MCSubjectOf
    Local = local
    Conns = {local}
    ChanBuffer = 1
    None = None
SPECIFICATION FairSpec
INVARIANTS NoSendOnClosed NothingLeftOpen
PROPERTIES NoAddDuringWait CloseReturns ReachesTheSubscribed ImplementsBroker
