------------------------------ MODULE MCSystem ------------------------------
(***************************************************************************)
(* SuiteParts with the inputs its parts are checked with.                  *)
(***************************************************************************)
EXTENDS SuiteParts

\* Driver Foundry: vendors, scopes, options and absent catalog files.
MCVendors == {"nvidia", "amd", "intel", "realtek"}
Scopes == {"gfe", "nvb", "kmpfd", "igs", "npu", "oneapi", "endurance", "vulkan", "physx",
           "audiobus", "monitors", "unpackNvidia", "unpackAmd", "installCache"}
MCCleanChoices == {{}, {"dryRun"}, {"dryRun", "cacheOnly", "noSetupApi", "restart"},
                   {"dryRun", "noSetupApi", "planReport", "blockSearch"},
                   {"dryRun", "blockSearch", "noRestorePoint", "noSetupApi", "restart", "shutdown",
                    "prepareSafeboot", "clearSafeboot", "planReport"}}
MCScopeChoices == {{}, Scopes} \cup {{s} : s \in Scopes}
MCMissing == {{}, {"services"}, {"gfeservice", "servicesaudio"}}

\* A component that needs another one, one that is bloat, and a package without
\* the display driver.
MCDepends == [c \in Components |-> IF c = "shadow" THEN {"view"} ELSE {}]
MCPresets == [minimal |-> {}, clean |-> {"shadow"}]
MCSelections == {<<{}, {}>>, <<{"shadow"}, {"view"}>>}
MCPackages == {Components, {"shadow", "view"}}
MCInstallChoices == {{"install", "report"}, {"export", "zip", "report", "pinned", "uninstall"},
                     {"7z"}, {"force"}}

\* A capture that supports a cap of 60, one without P1, one whose second run has a
\* P1 above its average.
MCCaptures == {<< <<100, 60>>, <<101, 61>> >>, << <<90, 0>> >>, << <<100, 60>>, <<50, 70>> >>}
MCStrategies == {[kind |-> "raw", cap |-> 0], [kind |-> "vrr", refresh |-> 63, margin |-> 3]}

MCLegacy == <<"net">>
MCShownSources == {"c1"}
MCSupported == {<<"c1", "raw">>}
=============================================================================
