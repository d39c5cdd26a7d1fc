CONSTANTS
    c1 = c1
    c2 = c2
    Versions = {v1, v2}
    Configs = {c1, c2}
    Service <- OwnService
    None = None
    Link = Link
    KeepVersions = 2
    MaxRevision = 2
    MaxUninstalls = 1
    MaxFailures = 1
SPECIFICATION FairSpec
PROPERTIES
    Converges
