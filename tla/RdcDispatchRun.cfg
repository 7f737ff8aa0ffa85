CONSTANTS
    t1 = t1
    t2 = t2
    None = None
    Tokens <- TwoTokens
    MaxMisses = 2
    MaxFaults = 3
    Faults = {"api", "patch", "conflict", "crash", "forget", "edit", "operator"}
SPECIFICATION FairSpec
INVARIANTS RunsAreAccounted RecordedOnlyIfRun
PROPERTIES Diagnosed
CHECK_DEADLOCK FALSE
