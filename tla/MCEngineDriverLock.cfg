SPECIFICATION FairSpec
CONSTANTS
    NoProc = NoProc
    Procs = {p1}
    N = 2
    Kind <- DriverKind
    Decision <- TwoAuto
    BoundVerify = {}
    AuthorizedAdvisory = {}
    SelfLocking = {2}
    MaxFaults = 0
    MaxInterventions = 0
PROPERTIES
    DriverStepCompletes
