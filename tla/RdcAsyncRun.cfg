CONSTANTS
    Kinds <- AddressableKinds
    MaxCreates = 4
    MaxFaults = 3
    Faults = {"api", "patch", "conflict", "crash", "fails", "timeout"}
SPECIFICATION FairSpec
INVARIANTS PendingIsJustified
PROPERTIES FollowedNotRepeated HandleIsGivenUpForIdentity Followed
