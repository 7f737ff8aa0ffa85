CONSTANTS
    Apis <- AllApis
    Ceiling = 3
    MaxItems = 7
    MaxFaults = 2
    Faults = {"api", "omits", "drops", "shrinks"}
SPECIFICATION FairSpec
INVARIANTS DeclaredBoundDecides
PROPERTIES AnswersAsOneRead GivesUpOnlyAtItsBound WalkEnds
