CONSTANTS
    base = base
    attachment = attachment
    Kinds <- SomeKinds
    Stages <- TwoStages
    Base <- base
    NoToken = NoToken
    MaxFaults = 2
    Faults = {"rotate", "authn", "credential", "stage", "upstream", "lost", "read", "predicate",
              "conflict", "undo", "crash", "operator", "worker"}
SPECIFICATION FairSpec
INVARIANTS NeverReplayed IdentifiedIsNotOrphaned
PROPERTIES Settles
CHECK_DEADLOCK FALSE
