CONSTANTS
    Signals = {"room"}
    Literals = {"a", "b", "_$", "anon"}
    Depth = 4
    Index = "PageIndex"
    Suffixes <- ActionSuffixes
    Values = {"a", "b", "*"}
    MaxFields = 2
    Applications <- AllApplications
SPECIFICATION Spec
INVARIANT
    CountedAsDispatched
    HandledAsDispatched
    SentWhatConcernsIt
    SentOnce
    TakenFromThePromoted
    DeclaredRoutesRegister
    ReachesItsPage
CHECK_DEADLOCK FALSE
