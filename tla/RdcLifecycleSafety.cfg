CONSTANTS
    Kinds <- AllKinds
    MaxCreates = 3
    MaxFaults = 2
    Faults = {"api", "denied", "conflict", "crash", "lose", "edit", "definition"}
SPECIFICATION Spec
INVARIANTS AvailableOnlyIfReal
PROPERTIES CreatesOnlyWhenBlind OrphanedOnlyByDesign PendingIsNotRecreated KeepsContract
CHECK_DEADLOCK FALSE
