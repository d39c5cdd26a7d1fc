CONSTANTS
    Nodes = {n1}
    Nonces = {x1}
    Onboarding = {o1}
    Reauth = {}
    Requests = {q1}
    None = None
    MaxToken = 2
    MaxFailures = 0
SPECIFICATION Spec
INVARIANT RevokedIsDeprovisioned
