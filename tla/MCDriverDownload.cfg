SPECIFICATION PartsSpec
CONSTANTS
    None = None
    Names = {1, 2}
    Artifacts = {1}
    Items = {i1, i2}
    Cs2Items = {i1}
    Policy = policy
    CaptureWindow = 0
    AuthorizationWindow = 1
    MaxNow = 0
    MaxFaults = 0
    MaxDrift = 0
    Components = {"display", "audio", "app"}
    Required = {"display"}
    Depends <- MCDepends
    Presets <- MCPresets
    Installers <- MCInstallers
    Deselections <- MCDeselections
    MaxArtifact = 2
    MaxEntries = 5
    MaxFile = 2
    MaxExpanded = 6
    MaxRatio = 2
    MaxStops = 0
    MaxEdits = 0
    Global = global
    Cs2 = cs2
    Alias = alias
    Other = other
    Apps = {a1, a2}
    MainApp = a1
    Settings = {s1}
    Values = {0, 1}
    Target = 1
PROPERTY DownloadPublishes
CHECK_DEADLOCK FALSE
