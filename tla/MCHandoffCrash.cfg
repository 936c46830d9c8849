SPECIFICATION FairSpec
CONSTANTS
    Procs = {p1}
    Users = {u1, u2}
    NoUser = NoUser
    NoProc = NoProc
    MaxGenerations = 1
    MaxFaults = 3
    ExtraSignIns = TRUE
INVARIANTS
    TypeOK
    SafeBootHasLauncher
    ProgressNeverAhead
PROPERTIES
    SafeModeIsLeft
    FinalRetryConverges
