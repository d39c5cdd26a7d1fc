CONSTANTS
    Request = {r1}
    Loop = Loop
    File = {acl, passwords}
    None = None
    MaxChanges = 2
    MaxUpsets = 2
SPECIFICATION FairSpec
INVARIANTS
    TypeOK
    OneVersion
    LostOnlyByFailure
PROPERTIES
    Recovers
