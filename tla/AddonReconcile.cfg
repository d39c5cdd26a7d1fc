CONSTANTS
    c1 = c1
    c2 = c2
    Versions = {v1, v2, v3}
    Configs = {c1}
    Service <- SameService
    None = None
    Link = Link
    KeepVersions = 2
    MaxRevision = 3
    MaxUninstalls = 0
    MaxFailures = 1
SPECIFICATION Spec
INVARIANTS
    TypeOK
    RollbackIsPossible
    InUseIsInstalled
    AppliedMeansRunning
PROPERTIES
    FailureKeepsCurrent
