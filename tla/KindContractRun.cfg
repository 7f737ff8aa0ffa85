SPECIFICATION ContractSpec
CONSTANTS
    Kinds <- MCKinds
    Def <- MCDef
    Edits <- MCEdits
    Names <- MCNames
    Leaves <- MCLeaves
    Whole = "whole"
    ConfigurationRef = "configurationRef"
    AuthorizationNames = {}
    CredentialNames = {"token"}
    Documents = {"main", "other"}
    Types = {"string", "integer"}
    NoOrigin = NoOrigin
INVARIANTS
    ContractTypeOK
    NothingIsMissing
    ObjectsAreForetold
    DroppedFieldsAreAnnounced
    AbsenceIsForetold
PROPERTY
    FoundIsNotLost
