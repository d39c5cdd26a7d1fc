SPECIFICATION FairSpec
CONSTANTS
    Request = {q1, q2}
    Mode = {"git", "core_host"}
    AuditMode = "core_host"
    None = None
    MaxTarget = 2
    OperatorKey = {m1}
    MaxOps = 2
INVARIANTS TypeOK
PROPERTIES KeyOnce NeverStuck AuditReaches
