CONSTANTS
    Supervisor = {v1}
    Session = {s1, s2}
    Device = {d1, d2}
    Request = {q1, q2}
    None = None
    MaxOps = 5
SPECIFICATION Spec
SYMMETRY Symmetry
INVARIANT CanceledIsRejected
CHECK_DEADLOCK FALSE
