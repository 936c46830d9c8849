SPECIFICATION Spec
CONSTANTS
    Procs = {p1, p2}
    Users = {u1, u2}
    NoUser = NoUser
    NoProc = NoProc
    MaxGenerations = 2
    MaxFaults = 1
    ExtraSignIns = FALSE
SYMMETRY Symmetric
INVARIANTS
    RemovalNeverTrapsInSafeMode
    SameUserHandoff
    HandoffRetained
PROPERTIES
    LifecycleSpec
