CONSTANTS
    Subs = {s1, s2}
    Publishers = {p1, p2}
    Closers = {c1, c2}
    Published <- MCPublished
    TopicSets <- MCTopicSets
    ChanBuffer = 1
    None = None
SPECIFICATION FairSpec
INVARIANTS TypeOK NoSendOnClosed TablesExact CloseIsFinal
PROPERTIES ImplementsBroker PublishReturns CloseReturns
