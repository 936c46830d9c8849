SPECIFICATION Spec
CONSTANTS
    NoProc = NoProc
    Procs = {p1, p2}
    N = 4
    Kind <- RecoveryKind
    Decision <- RecoveryDecision
    BoundVerify = {}
    AuthorizedAdvisory = {}
    SelfLocking = {4}
    MaxFaults = 2
    MaxInterventions = 2
SYMMETRY Symmetric
INVARIANTS
    MutationRecoverable
    RestoreReturnsOriginals
    DriverChangeAudited
    CompletionHasProof
