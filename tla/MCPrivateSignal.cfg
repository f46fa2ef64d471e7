CONSTANTS
    Signals = {"room"}
    Literals = {"a", "b", "_$", "anon"}
    Depth = 4
    Index = "PageIndex"
    Suffixes <- ActionSuffixes
    Values = {"a", "b", "*"}
    MaxFields = 3
    Applications <- UserAndSignal
SPECIFICATION Spec
INVARIANT
    SentWhatConcernsIt
CHECK_DEADLOCK FALSE
