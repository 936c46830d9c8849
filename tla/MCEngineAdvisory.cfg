SPECIFICATION Spec
CONSTANTS
    NoProc = NoProc
    Procs = {p1}
    N = 4
    Kind <- AdvisoryKind
    Decision <- AdvisoryDecision
    BoundVerify = {}
    AuthorizedAdvisory = {2}
    SelfLocking = {}
    MaxFaults = 0
    MaxInterventions = 0
INVARIANTS
    OptimizeCompletesPhaseOne
