SPECIFICATION Spec
CONSTANTS
    Downloads <- TwoDownloads
    Archives <- AllArchives
    Replacements <- NextReleases
    TailWindow = 3
    DirectoryMax = 2
    MaxMember = 2
INVARIANTS
    StagedFilesOwned
    ResultIsMember
    VerdictDeserved
PROPERTIES
    Completes
