CONSTANTS
    theSecret = theSecret
    FullSpec = fullSpec
    fullSpec = fullSpec
    Absent = Absent
    NoSignature = NoSignature
    NoRole = NoRole
    Nodes <- AllNodes
    Inferred <- TypedNodes
    Specs <- AllSpecs
    Secrets <- OneSecret
    Paths <- AllPaths
    Kinds <- AllKinds
    Api <- AllApis
    MaxDriftRepeats = 3
    MaxEdits = 1
    MaxFaults = 1
    Faults = {"api", "patch", "crash", "drift", "role", "rbac"}
SPECIFICATION FairSpec
INVARIANTS FutileUpdatesAreBounded NoGrantOutlivesItsCR
PROPERTIES ReportsFirstClash Settles EditIsTried
CHECK_DEADLOCK FALSE
