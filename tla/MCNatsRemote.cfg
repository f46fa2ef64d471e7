CONSTANTS
    Subs = {s1}
    TopicSets <- MCTopicSets
    m1 = m1
    m2 = m2
    Msgs <- MCMsgs
    SubjectOf <- MCSubjectOf
    Local = local
    Conns = {local, remote}
    ChanBuffer = 1
    None = None
SPECIFICATION Spec
PROPERTIES ReachesTheSubscribed
