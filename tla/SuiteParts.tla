----------------------------- MODULE SuiteParts -----------------------------
(***************************************************************************)
(* The parts of the program around the driver, the engine and the reboot   *)
(* handoff, side by side: a behaviour is one of a single part, the one that  *)
(* "active" names.  The parts share no state but backup.json and the       *)
(* benchmark files, of which each models the records it writes.            *)
(***************************************************************************)
EXTENDS Integers, Sequences, FiniteSets

CONSTANTS
    None,
    Active,                                  \* the parts of the run
    Devices, Indexes, Servers, Policies,     \* network stack
    PageTarget, PageOthers, Sizes, FreeSpace,
    SettingNames, SettingOwners, Values,     \* system settings
    Dirs, Files, MaxNodes,                   \* cache cleanup
    Installs, Legacy, Optional, MaxMinute,   \* CS2 configuration
    Vendors, ScopeChoices, CleanChoices, Missing, \* Driver Foundry: clean
    Components, Required, Depends, Bloat,    \* Driver Foundry: install
    PresetChoices, Selections, Packages, InstallChoices,
    Captures, Strategies, MinRuns, MaxHistory, MaxCaptures,   \* benchmarks
    ShownSources, Supported, MaxGeneration, MaxStarts,   \* GUI
    MaxNetworkChanges, MaxCleanChanges, MaxConfigRuns,
    MaxChanges, MaxSettingChanges, MaxEdits, MaxFaults, MaxRuns

VARIABLES
    active,
    adapters, rss, nla, policy, dns, netEntry, dnsEntry, netOp, netChanges,
    automatic, pageFiles, pageEntry, pageOp, made, wrote, pageChanges, pageFaults,
    value, object, booted, checklist, settingsBackup, settingsOp, settingsRuns,
    settingsChanges, settingsFaults,
    place, linked, reparse, busy, late, cleanOp, cleanResults, cleanChanges,
    cfgFiles, bak, install, minute, cfgBackup, cfgOp, cfgRuns, cfgChanges, cfgFaults,
    owed, uneven,
    request, stage, journal, result,
    run, pc, installDisk, source, root, copied, kept, stripped, ui, rivals,
    sourceEdits, installRuns,
    state, progress, history, strategy, commit, clock, commitFaults,
    authentic, admin, open, area, dialog, reads, reading, readResults, native,
    elevated, session, version, finished, started

networkVars == <<adapters, rss, nla, policy, dns, netEntry, dnsEntry, netOp, netChanges>>
pagefileVars == <<automatic, pageFiles, pageEntry, pageOp, made, wrote, pageChanges, pageFaults>>
settingsVars == <<value, object, booted, checklist, settingsBackup, settingsOp, settingsRuns,
                  settingsChanges, settingsFaults>>
cleanupVars == <<place, linked, reparse, busy, late, cleanOp, cleanResults, cleanChanges>>
configVars == <<cfgFiles, bak, install, minute, cfgBackup, cfgOp, cfgRuns, cfgChanges,
                cfgFaults, owed, uneven>>
cleanVars == <<request, stage, journal, result>>
installVars == <<run, pc, installDisk, source, root, copied, kept, stripped, ui, rivals,
                 sourceEdits, installRuns>>
benchmarkVars == <<state, progress, history, strategy, commit, clock, commitFaults>>
guiVars == <<authentic, admin, open, area, dialog, reads, reading, readResults, native,
             elevated, session, version, finished, started>>
allVars == <<active, networkVars, pagefileVars, settingsVars, cleanupVars, configVars,
             cleanVars, installVars, benchmarkVars, guiVars>>

-----------------------------------------------------------------------------
N == INSTANCE NetworkStack WITH
        MaxChanges <- MaxNetworkChanges, entry <- netEntry, op <- netOp, changes <- netChanges
F == INSTANCE Pagefile WITH
        Target <- PageTarget, Others <- PageOthers, files <- pageFiles, entry <- pageEntry,
        op <- pageOp, changes <- pageChanges, faults <- pageFaults
S == INSTANCE SystemSettings WITH
        Settings <- SettingNames, Objects <- SettingOwners,
        MaxChanges <- MaxSettingChanges, backup <- settingsBackup, op <- settingsOp,
        runs <- settingsRuns, changes <- settingsChanges, faults <- settingsFaults
L == INSTANCE CacheCleanup WITH
        MaxChanges <- MaxCleanChanges, op <- cleanOp, results <- cleanResults,
        changes <- cleanChanges
C == INSTANCE Cs2Config WITH
        MaxRuns <- MaxConfigRuns, MaxChanges <- MaxEdits,
        files <- cfgFiles, backup <- cfgBackup, op <- cfgOp, runs <- cfgRuns,
        changes <- cfgChanges, faults <- cfgFaults
D == INSTANCE FoundryClean WITH FlagChoices <- CleanChoices
I == INSTANCE FoundryInstall WITH
        FlagChoices <- InstallChoices, MaxRivals <- MaxEdits,
        disk <- installDisk, package <- source, edits <- sourceEdits, runs <- installRuns
B == INSTANCE Benchmark WITH
        MaxRuns <- MaxCaptures, MaxFaults <- MaxRuns,
        config <- strategy, op <- commit, faults <- commitFaults
G == INSTANCE Gui WITH
        Captures <- ShownSources, MaxDisk <- MaxStarts,
        package <- authentic, results <- readResults, disk <- version

\* None is no network entry of a backup, and there are DNS servers.
ASSUME NetworkAssumption ==
    /\ None \notin N!Records /\ None \notin N!DnsRecords
    /\ Servers # {}

\* None is no size, and no page file entry.
ASSUME PagefileAssumption == None \notin Sizes /\ None \notin F!Entries

\* Every setting has an object and a value the suite gives it.
ASSUME SettingsAssumption == SettingOwners # {} /\ Values # {}

\* The tree is finite, and None is no directory of it.
ASSUME CleanupAssumption == IsFiniteSet(Dirs \cup Files) /\ None \notin L!Roots

\* The files of P1:34 are among the finitely many embedded ones; no file has the
\* name by which the model calls an owner, and None is no content.
ASSUME ConfigAssumption ==
    /\ Installs # {} /\ IsFiniteSet(Optional) /\ Legacy \in Seq(Optional)
    /\ C!Targets \cap {"nobody", "user", "edit"} = {}
    /\ None \notin C!Contents

\* None is no result of a cleanup plan.
ASSUME CleanAssumption == None \notin {"refused", "catalog error", "report exists", "planned"}

\* The catalog of Driver Foundry is finite and lists what is required.
ASSUME InstallAssumption == IsFiniteSet(Components) /\ Required \subseteq Components

\* None is no number, capture or record; the history has room for the baseline and
\* the final benchmark.
ASSUME BenchmarkAssumption ==
    /\ None \notin Nat /\ None # B!Txn /\ None \notin Captures
    /\ None \notin B!Figures /\ None \notin B!Receipts
    /\ MaxHistory \in Nat /\ MaxHistory >= 2
    /\ Strategies \subseteq [kind : {"raw"}, cap : Nat]
                           \cup [kind : {"vrr"}, refresh : Nat, margin : Nat]

\* The bound on the writes the GUI's operations make.
ASSUME GuiAssumption == MaxStarts \in Nat

-----------------------------------------------------------------------------
\* The choices a part makes at the start are left open only where it is active.
PartsInit ==
    /\ active \in Active
    /\ N!Init /\ F!Init /\ S!Init /\ L!Init /\ C!Init /\ D!Init /\ I!Init /\ B!Init /\ G!Init
    /\ active # "benchmark" => strategy.kind = "raw"
    /\ active # "gui" => authentic /\ admin

PartsNext ==
    \/ /\ active = "network" /\ N!Next
       /\ UNCHANGED <<active, pagefileVars, settingsVars, cleanupVars, configVars,
                      cleanVars, installVars, benchmarkVars, guiVars>>
    \/ /\ active = "pagefile" /\ F!Next
       /\ UNCHANGED <<active, networkVars, settingsVars, cleanupVars, configVars,
                      cleanVars, installVars, benchmarkVars, guiVars>>
    \/ /\ active = "settings" /\ S!Next
       /\ UNCHANGED <<active, networkVars, pagefileVars, cleanupVars, configVars,
                      cleanVars, installVars, benchmarkVars, guiVars>>
    \/ /\ active = "cleanup" /\ L!Next
       /\ UNCHANGED <<active, networkVars, pagefileVars, settingsVars, configVars,
                      cleanVars, installVars, benchmarkVars, guiVars>>
    \/ /\ active = "config" /\ C!Next
       /\ UNCHANGED <<active, networkVars, pagefileVars, settingsVars, cleanupVars,
                      cleanVars, installVars, benchmarkVars, guiVars>>
    \/ /\ active = "clean" /\ D!Next
       /\ UNCHANGED <<active, networkVars, pagefileVars, settingsVars, cleanupVars,
                      configVars, installVars, benchmarkVars, guiVars>>
    \/ /\ active = "install" /\ I!Next
       /\ UNCHANGED <<active, networkVars, pagefileVars, settingsVars, cleanupVars,
                      configVars, cleanVars, benchmarkVars, guiVars>>
    \/ /\ active = "benchmark" /\ B!Next
       /\ UNCHANGED <<active, networkVars, pagefileVars, settingsVars, cleanupVars,
                      configVars, cleanVars, installVars, guiVars>>
    \/ /\ active = "gui" /\ G!Next
       /\ UNCHANGED <<active, networkVars, pagefileVars, settingsVars, cleanupVars,
                      configVars, cleanVars, installVars, benchmarkVars>>

PartsSpec ==
    /\ PartsInit /\ [][PartsNext]_allVars
    /\ active = "network" => WF_networkVars(N!Step) /\ WF_networkVars(N!Capture("this"))

PartsTypeOK ==
    /\ N!TypeOK /\ F!TypeOK /\ S!TypeOK /\ L!TypeOK /\ C!TypeOK
    /\ D!TypeOK /\ I!TypeOK /\ B!TypeOK /\ G!TypeOK

-----------------------------------------------------------------------------
\* Properties of the parts.

\* RSS and DNS change only on the adapter whose originals the backup holds.
OnlyCapturedAdapter == N!OnlyCapturedAdapter

\* The network entry leaves the backup only when all it records is back.
RestoreComplete == N!RestoreComplete

\* "Run only the catalogued P1:16 NIC latency transaction through the normal
\* engine": a machine that keeps one Ethernet adapter with the RSS setting gets
\* it enabled.
RssGetsEnabled == active = "network" => N!RssGetsEnabled

\* No page file is deleted that the suite did not create.
DeletesOnlyOwn == F!DeletesOnlyOwn

\* The page file entry leaves the backup only when all it records is back.
RestoresCaptured == F!RestoresCaptured

\* "Supported restore paths revalidate target identity before restoring captured
\* registry, configuration, network, or other owned entries": restore refuses
\* to undo its change of a page file only when that has another size by now.
UpdateIsRestored == F!UpdateIsRestored

\* A setting changes only on the installation or device that was captured.
OnlyCapturedObject == S!OnlyCapturedObject

\* An entry leaves the backup only when its value is the original again.
OriginalReturns == S!OriginalReturns

\* The cleanup deletes only what was in the tree when it was opened.
DeletesOnlySeen == L!DeletesOnlySeen

\* A cleanup that reports completion has emptied its root.
ReportTrue == L!ReportTrue

\* What the suite replaced in a configuration file stays in the backup, unless a
\* restore has separated entries that share the file.
OriginalKept == C!OriginalKept

\* "Exact original bytes are persisted before mutation and remain available to
\* recovery": the same with no exception.
OriginalAvailable == C!OriginalAvailable

\* Selecting more scopes never loses an action of Driver Foundry's clean plan.
ScopesOnlyAdd == D!ScopesOnlyAdd

\* A successful install run kept what is required and what its selection needs.
PreparedTreeSound == I!PreparedTreeSound

\* An exact retry completes every interrupted baseline and final benchmark.
ExactRetries == B!ExactRetries

\* No later capture makes the files disagree about a recorded final benchmark.
FinalStays == B!FinalStays

\* The GUI restores rows that are current and saves what was reviewed.
ActsOnShown == G!ActsOnShown
=============================================================================
