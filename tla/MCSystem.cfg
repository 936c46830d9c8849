SPECIFICATION PartsSpec
CONSTANTS
    None = None
    Active = {"network", "pagefile", "settings", "cleanup", "config",
              "clean", "install", "benchmark", "gui"}
    Devices = {d1, d2}
    Indexes = {1, 2}
    Servers = {"auto", "own"}
    Policies = {"ports", "app"}
    PageTarget = "C"
    PageOthers = {"D"}
    Sizes = {1, 2}
    FreeSpace = 2
    SettingNames = {"gpu", "interrupt", "service", "hags"}
    SettingOwners = {"o1", "o2"}
    Values = {"a"}
    Dirs = {"d1", "d2"}
    Files = {"f1", "f2"}
    MaxNodes = 3
    Installs = {"i1", "i2"}
    Legacy <- MCLegacy
    Optional = {"net", "eq"}
    MaxMinute = 1
    Vendors <- MCVendors
    ScopeChoices <- MCScopeChoices
    CleanChoices <- MCCleanChoices
    Missing <- MCMissing
    Components = {"driver", "view", "shadow", "telemetry"}
    Required = {"driver"}
    Depends <- MCDepends
    PresetChoices <- MCPresets
    Selections <- MCSelections
    Packages <- MCPackages
    InstallChoices <- MCInstallChoices
    Bloat = {"telemetry"}
    Captures <- MCCaptures
    Strategies <- MCStrategies
    MinRuns = 2
    MaxHistory = 2
    MaxCaptures = 3
    ShownSources <- MCShownSources
    Supported <- MCSupported
    MaxGeneration = 2
    MaxStarts = 1
    MaxNetworkChanges = 4
    MaxCleanChanges = 3
    MaxConfigRuns = 2
    MaxChanges = 2
    MaxSettingChanges = 1
    MaxEdits = 1
    MaxFaults = 1
    MaxRuns = 2
INVARIANTS PartsTypeOK OriginalKept ScopesOnlyAdd PreparedTreeSound ExactRetries
PROPERTIES OnlyCapturedAdapter RestoreComplete DeletesOnlyOwn RestoresCaptured
           OnlyCapturedObject OriginalReturns DeletesOnlySeen ReportTrue FinalStays ActsOnShown
CHECK_DEADLOCK FALSE
