CONSTANTS
    i1 = i1
    i2 = i2
    w1 = w1
    w2 = w2
    s1 = s1
    s2 = s2
    k1 = k1
    k2 = k2
    InstanceId <- MCInstanceId
    WorkspaceId <- MCWorkspaceId
    SessionId <- MCSessionId
    Key <- MCKey
    NoResult = NoResult
    Capacity = 1
    MaxSequence = 1
    MaxAccepted = 3
SYMMETRY Symmetric
SPECIFICATION Spec
INVARIANTS
    TypeOK
    OneInstancePerSession
    IdempotencyWindow
PROPERTY
    RegistrationContinuity
