---------------------------- MODULE FoundryClean ----------------------------
(***************************************************************************)
(* Driver Foundry's cleanup planner.  run_clean turns a vendor, a set of   *)
(* removal scopes and the vendor's catalog files into a journal of planned *)
(* actions, stage by stage; nothing is executed, and a request to execute  *)
(* is refused.  A loop over the tokens of one catalog file is one entry    *)
(* of the journal, named after the file.                                   *)
(***************************************************************************)
EXTENDS Integers, Sequences, FiniteSets

CONSTANTS
    None,
    Vendors,      \* the vendors of the instance, out of AllVendors
    ScopeChoices, \* sets of removal scopes a user may select
    FlagChoices,  \* sets of the other options
    Missing       \* sets of catalog files that may be absent or unsafe

VARIABLES request, stage, journal, result

vars == <<request, stage, journal, result>>

AllVendors == {"nvidia", "amd", "intel", "lisuan", "realtek"}
RemoveScopes == {"gfe", "nvb", "kmpfd", "igs", "npu", "oneapi", "endurance", "vulkan",
                 "physx", "audiobus", "monitors", "unpackNvidia", "unpackAmd", "installCache"}
CleanFlags == {"dryRun", "cacheOnly", "blockSearch", "noRestorePoint", "noSetupApi",
               "restart", "shutdown", "prepareSafeboot", "clearSafeboot", "planReport"}

IsAudio(v) == v = "realtek"
FilterVendors == {"nvidia", "amd"}

\* JournalEntry: what is planned, on which surface, and for which scope.
Entry(surface, target, scope) == [surface |-> surface, target |-> target, scope |-> scope]
Base(surface, target) == <<Entry(surface, target, "base")>>
When(condition, entries) == IF condition THEN entries ELSE <<>>

-----------------------------------------------------------------------------
\* Catalogs: load_lines fails on a file that is missing or holds an unsafe
\* entry, try_load_lines takes it for empty.

LoadLines(req, file) == file \notin req.missing
TryLoadLines(req, surface, file, scope) ==
    When(LoadLines(req, file), <<Entry(surface, file, scope)>>)

GpuCatalogLoads(req) == LoadLines(req, "services") /\ LoadLines(req, "driverfiles")

-----------------------------------------------------------------------------
\* The stages.

SafemodeEntries(req) ==
    When("clearSafeboot" \in req.flags, Base("SafeMode", "delete_safeboot"))
    \o When("prepareSafeboot" \in req.flags,
            Base("SafeMode", "set_safeboot") \o Base("SafeMode", "schedule_restart"))

StageResolveGpu(req) ==
    When("noRestorePoint" \notin req.flags, Base("Policy", "create_restore_point"))
    \o When("blockSearch" \in req.flags, Base("Policy", "block_driver_search"))

\* The services of the catalog, then those of the scopes that overlay it.
StageEarlyServices(req) ==
    Base("Process", "hints") \o Base("Service", "services") \o Base("Process", "services")
    \o When(req.vendor = "nvidia" /\ "gfe" \in req.scopes,
            TryLoadLines(req, "Service", "gfeservice", "gfe"))
    \o When(req.vendor = "nvidia" /\ "nvb" \in req.scopes,
            TryLoadLines(req, "Service", "nvbservice", "nvb"))
    \o When(req.vendor = "intel" /\ "igs" \in req.scopes,
            TryLoadLines(req, "Service", "servicesigs", "igs"))

StageIntelPackageScopes(req) ==
    When("igs" \in req.scopes, TryLoadLines(req, "Registry", "clsidleftoverigs", "igs")
                               \o TryLoadLines(req, "AppX", "packagesigs", "igs"))
    \o When("npu" \in req.scopes, TryLoadLines(req, "AppX", "packagesnpu", "npu"))
    \o When("oneapi" \in req.scopes, TryLoadLines(req, "AppX", "packagesoneapi", "oneapi"))
    \o When("endurance" \in req.scopes, TryLoadLines(req, "AppX", "packagesendurance", "endurance"))

RemoveVendorAppx(req) ==
    When(req.vendor \in {"nvidia", "amd", "intel"}, Base("AppX", "control panel"))
    \o When(req.vendor = "nvidia" /\ "gfe" \in req.scopes, <<Entry("AppX", "NVIDIA", "gfe")>>)

StagePrecleanPackages(req) ==
    TryLoadLines(req, "Registry", "classroot", "base")
    \o TryLoadLines(req, "Registry", "clsidleftover", "base")
    \o TryLoadLines(req, "Registry", "interface", "base")
    \o TryLoadLines(req, "AppX", "packages", "base")
    \o When(req.vendor = "nvidia" /\ "gfe" \in req.scopes,
            TryLoadLines(req, "Registry", "classrootgfe", "gfe")
            \o TryLoadLines(req, "Registry", "clsidleftoverGFE", "gfe")
            \o TryLoadLines(req, "Registry", "interfaceGFE", "gfe"))
    \o When(req.vendor = "nvidia" /\ "nvb" \in req.scopes,
            TryLoadLines(req, "Registry", "clsidleftoverNVB", "nvb"))
    \o When(req.vendor = "intel", StageIntelPackageScopes(req))
    \o RemoveVendorAppx(req)

MmDevicesEntries(scope) ==
    <<Entry("Registry", "clean_mmdevices", scope), Entry("Registry", "mmdevices_flow", scope),
      Entry("Registry", "mmdevices_summary", scope)>>

StageSetupApi(req) ==
    Base("Device", "vendor targets")
    \o When(req.vendor = "intel" /\ "npu" \in req.scopes, <<Entry("Device", "npu", "npu")>>)
    \o When(req.vendor = "amd" /\ "kmpfd" \in req.scopes,
            <<Entry("Device", "KMPFD", "kmpfd")>>
            \o TryLoadLines(req, "File", "driverfilesKMPFD", "kmpfd"))
    \o TryLoadLines(req, "Service", "servicesaudio", "base")
    \o TryLoadLines(req, "Device", "servicesaudio", "base")
    \o When("audiobus" \in req.scopes,
            <<Entry("Device", "audiobus", "audiobus")>> \o MmDevicesEntries("audiobus"))
    \o When("monitors" \in req.scopes, <<Entry("Device", "monitors", "monitors")>>)

\* The files of an overlay take the place of those of the base catalog.
DeepFileTokensReplaced(req) ==
    IF req.vendor = "nvidia" /\ "gfe" \in req.scopes
    THEN TryLoadLines(req, "File", "gfedriverfiles", "gfe")
    ELSE Base("File", "driverfiles")

DeepFileTokens(req) ==
    Base("File", "driverfiles")
    \o When(req.vendor = "nvidia" /\ "gfe" \in req.scopes,
            TryLoadLines(req, "File", "gfedriverfiles", "gfe"))
    \o When(req.vendor = "nvidia" /\ "nvb" \in req.scopes,
            TryLoadLines(req, "File", "nvbdriverfiles", "nvb"))
    \o When(req.vendor = "amd" /\ "kmpfd" \in req.scopes,
            TryLoadLines(req, "File", "driverfilesKMPFD", "kmpfd")
            \o TryLoadLines(req, "File", "driverfilesKMAFD", "kmpfd"))
    \o When(req.vendor = "intel", TryLoadLines(req, "File", "shareddriverfiles", "base"))

\* With GeForce Experience or the install caches the wipe of the install
\* caches takes the place of the wipe of the shader caches.
CleanCaches(req) ==
    IF "gfe" \in req.scopes THEN <<Entry("Wipe", "install caches", "gfe")>>
    ELSE IF "installCache" \in req.scopes THEN <<Entry("Wipe", "install caches", "installCache")>>
    ELSE Base("Wipe", "shader caches")

CleanUnpackTargets(req) ==
    When(req.vendor = "nvidia" /\ "unpackNvidia" \in req.scopes,
         <<Entry("Wipe", "C:/NVIDIA", "unpackNvidia")>>)
    \o When(req.vendor = "amd" /\ "unpackAmd" \in req.scopes,
            <<Entry("Wipe", "C:/AMD", "unpackAmd")>>)

CleanOptionalRuntimeScopes(req) ==
    When("physx" \in req.scopes,
         <<Entry("File", "PhysX", "physx"), Entry("Registry", "physx_leftover", "physx")>>)
    \o When("vulkan" \in req.scopes,
            <<Entry("File", "vulkan-1.dll", "vulkan"), Entry("Registry", "vulkan_layers", "vulkan")>>)

StageDeepClean(req) ==
    DeepFileTokens(req) \o Base("Service", "services") \o Base("Task", "vendor tasks")
    \o CleanCaches(req) \o CleanUnpackTargets(req) \o CleanOptionalRuntimeScopes(req)

\* plan_pci_root_entries: NVIDIA and AMD have bus filters to strip.
PciRootEntries(v) ==
    Base("Device", "clean_pci_root") \o Base("Registry", "enum_bus_scan")
    \o When(v \in FilterVendors,
            Base("Service", "pci filters") \o Base("Registry", "StripFilterValues"))

StageFinalizeGpu(req) ==
    Base("DriverStore", "clean_driverstore") \o Base("Registry", "fix_driverstore_registry")
    \o Base("Registry", "fix_pnp_orphans") \o PciRootEntries(req.vendor)

RunAudioPath(req) ==
    Base("Service", "services") \o Base("Process", "services")
    \o TryLoadLines(req, "Registry", "classroot", "base")
    \o TryLoadLines(req, "Registry", "clsidleftover", "base")
    \o TryLoadLines(req, "AppX", "packages", "base")
    \o Base("Device", "vendor targets") \o MmDevicesEntries("base") \o Base("File", "driverfiles")
    \o Base("DriverStore", "clean_driverstore") \o Base("Registry", "fix_pnp_orphans")
    \o PciRootEntries(req.vendor)

RunCacheOnly(req) ==
    Base("Wipe", "shader caches")
    \o When({"installCache", "gfe"} \cap req.scopes # {},
            <<Entry("Wipe", "install caches",
                    IF "gfe" \in req.scopes THEN "gfe" ELSE "installCache")>>)
    \o CleanUnpackTargets(req)

RequestPower(req) ==
    When("restart" \in req.flags, Base("Power", "restart"))
    \o When("shutdown" \in req.flags, Base("Power", "shutdown"))

\* run_gpu_stages and its siblings: the entries of each stage, in order.
Stages(req) ==
    IF IsAudio(req.vendor)
    THEN <<SafemodeEntries(req), RunAudioPath(req), RequestPower(req)>>
    ELSE IF "cacheOnly" \in req.flags
    THEN <<SafemodeEntries(req), RunCacheOnly(req), RequestPower(req)>>
    ELSE <<SafemodeEntries(req), StageResolveGpu(req), StageEarlyServices(req),
           StagePrecleanPackages(req), When("noSetupApi" \notin req.flags, StageSetupApi(req)),
           StageDeepClean(req), StageFinalizeGpu(req), RequestPower(req)>>

CatalogLoads(req) ==
    IF "cacheOnly" \in req.flags /\ ~IsAudio(req.vendor) THEN LoadLines(req, "services")
    ELSE GpuCatalogLoads(req)

-----------------------------------------------------------------------------
TypeOK ==
    /\ result \in {None, "refused", "catalog error", "report exists", "planned"}
    /\ stage \in 0 .. 9
    /\ \A i \in DOMAIN journal : journal[i].scope \in RemoveScopes \cup {"base"}

Init == request = None /\ stage = 0 /\ journal = <<>> /\ result = None

\* The command line and the GUI hand the options to run_clean, which refuses
\* to execute and needs the vendor's catalogs.
RunClean ==
    /\ request = None
    /\ \E v \in Vendors, s \in ScopeChoices, f \in FlagChoices, m \in Missing :
        LET req == [vendor |-> v, scopes |-> s, flags |-> f, missing |-> m]
        IN  /\ request' = req
            /\ IF "dryRun" \notin f THEN result' = "refused" /\ stage' = 0
               ELSE IF ~CatalogLoads(req) THEN result' = "catalog error" /\ stage' = 0
               ELSE result' = None /\ stage' = 1
    /\ UNCHANGED journal

RunStage ==
    /\ request # None /\ stage \in DOMAIN Stages(request)
    /\ journal' = journal \o Stages(request)[stage]
    /\ stage' = stage + 1
    /\ UNCHANGED <<request, result>>

\* The report file is created anew, never overwritten.
WritePlanReport ==
    /\ request # None /\ stage = Len(Stages(request)) + 1 /\ result = None
    /\ result' \in IF "planReport" \in request.flags THEN {"planned", "report exists"} ELSE {"planned"}
    /\ UNCHANGED <<request, stage, journal>>

\* The next request of the same window starts from nothing.
NextRequest ==
    /\ result # None
    /\ request' = None /\ stage' = 0 /\ journal' = <<>> /\ result' = None

Next == RunClean \/ RunStage \/ WritePlanReport \/ NextRequest

Spec == Init /\ [][Next]_vars

-----------------------------------------------------------------------------
\* Properties.

Planned == {journal[i] : i \in DOMAIN journal}
FlatPlan(req) ==
    LET all == Stages(req) IN UNION {{all[k][i] : i \in DOMAIN all[k]} : k \in DOMAIN all}

\* Selecting more scopes never loses an action: the plan of a request holds
\* the plan of the same request without any scope, the choice between shader
\* and install caches aside, and all it adds belongs to a selected scope.
ScopesOnlyAdd ==
    result = "planned" =>
        LET base == FlatPlan([request EXCEPT !.scopes = {}])
        IN  /\ base \ {Entry("Wipe", "shader caches", "base")} \subseteq Planned
            /\ \A e \in Planned \ base : e.scope \in request.scopes
=============================================================================
