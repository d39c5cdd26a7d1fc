CONSTANTS
    Nodes = {n1}
    Nonces = {x1}
    Onboarding = {o1}
    Reauth = {r1}
    Requests = {q1, q2}
    None = None
    MaxToken = 5
    MaxFailures = 1
SPECIFICATION FairSpec
INVARIANTS
    TypeOK
    TrustNeedsApproval
    ReplayOnlyByIssuer
    TrustedHasRecord
    ConsumedAfterIssue
    CredentialIsOwn
PROPERTIES
    TokensMoveForward
    DecisionStands
    ApprovedIsCollected
