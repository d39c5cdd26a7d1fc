SPECIFICATION Spec
CONSTANTS
    User = {u1}
    Device = {d1, d2}
    Enrollment = {e1, e2}
    Challenge = {c1}
    Login = {l1}
    Request = {q1, q2}
    None = None
    Legacy = {d1}
    Owner = u1
    MaxPerUser = 1
    MaxPerCore = 1
    MaxOps = 2
SYMMETRY Symmetry
INVARIANTS TypeOK WithinLimits RevocationClosesSessions SuspendedUserIsOut
PROPERTIES RevokedForGood SingleUse
CHECK_DEADLOCK FALSE
