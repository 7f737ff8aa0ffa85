CONSTANTS
    ours = ours
    theirs = theirs
    near = near
    far = far
    key = key
    cert = cert
    Definitions <- TwoDefinitions
    Namespaces <- TwoNamespaces
    Secrets <- TwoSecrets
    Configurable <- TwoConfigurations
    NoRole = NoRole
    NoDigest = NoDigest
    MaxEdits = 1
    MaxFaults = 1
SPECIFICATION FairSpec
INVARIANTS NoGrantIsForgotten
PROPERTIES ReadsWhatItRefersTo DeployedWithItsGrants
CHECK_DEADLOCK FALSE
