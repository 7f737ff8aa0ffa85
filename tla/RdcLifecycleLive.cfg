CONSTANTS
    Kinds <- EndingKinds
    MaxCreates = 3
    MaxFaults = 2
    Faults = {"api", "denied", "conflict", "crash", "lose", "edit", "definition"}
SPECIFICATION FairSpec
PROPERTIES Converges DeletionCompletes
CHECK_DEADLOCK FALSE
