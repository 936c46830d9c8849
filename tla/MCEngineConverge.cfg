SPECIFICATION FairSpec
CONSTANTS
    NoProc = NoProc
    Procs = {p1}
    N = 7
    Kind <- CatalogKind
    Decision <- CatalogDecision
    BoundVerify = {4}
    AuthorizedAdvisory = {}
    SelfLocking = {}
    MaxFaults = 2
    MaxInterventions = 2
INVARIANTS
    TypeOK
PROPERTIES
    RecordedStepsSurvive
    
