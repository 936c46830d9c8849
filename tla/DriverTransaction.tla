------------------------- MODULE DriverTransaction -------------------------
(***************************************************************************)
(* The NVIDIA driver transaction: prepare-nvidia, the removal of P2:2, the *)
(* installation of P3:1 with the restoration of the driver profiles, and   *)
(* reconcile-nvidia.  driver-transaction.json is a record that only ever   *)
(* moves along the stages of the lifecycle; every command loads it, checks *)
(* what it finds on disk against it, does one thing to the machine and     *)
(* writes it back.  A command may fail or the machine may stop between any *)
(* two of these, and the next command starts from what is durable.         *)
(*                                                                         *)
(* A driver package is a pair <<published name, Driver Store identity>>.   *)
(* What the Driver Store holds and what the display devices are started    *)
(* with are two things: an inspection joins them, and fails where they do  *)
(* not fit.  A digest is the value it is the digest of.  Time is counted   *)
(* in units in which the windows below are small.                          *)
(***************************************************************************)
EXTENDS Integers, FiniteSets

CONSTANTS
    None,                 \* an absent file or field
    Names,                \* published names (oemN.inf) of the target GPU, a set of numbers
    Artifacts,            \* installers a user may ask for, a set of positive numbers
    Items,                \* records of the customised driver profiles
    Cs2Items,             \* those among them for the five settings of the CS2 policy
    Policy,               \* the five settings with the values of the policy, as one record
    CaptureWindow,        \* 15 minutes
    AuthorizationWindow,  \* 24 hours
    MaxNow, MaxFaults, MaxDrift   \* bounds: clock, failing steps, foreign driver changes

VARIABLES
    tx,          \* driver-transaction.json
    backupFile,  \* driver-profile-backup.json
    archive,     \* driver-previous-transaction.json
    package,     \* the prepared package directory
    store,       \* packages in the Driver Store
    bound,       \* published names that started display devices of the target use
    inbox,       \* whether a started display device of the target uses Windows' own driver
    drs,         \* profile records the driver holds
    safeMode, now,
    op,          \* the running command
    faults, drift

durable == <<tx, backupFile, archive, package>>
devices == <<store, bound, inbox>>
machine == <<devices, drs>>
vars == <<durable, machine, safeMode, now, op, faults, drift>>

-----------------------------------------------------------------------------
Foreign == 0 - 1       \* identity of a package somebody else installed

Present(r)  == r # None
NamesOf(ps) == {p[1] : p \in ps}
AllPackages == Names \X ({Foreign, 0} \cup Artifacts)

Records == Items \cup {Policy}

\* What the installer of artifact a publishes.
InstalledBy(a) == {<<n, a>> : n \in Names}

Stages == <<"InstallerAuthenticated", "ProfileBackupPersisted", "StateCapturePersisted",
            "SafeModeHandoffArmed", "CleanupComplete", "InstallationComplete",
            "NeedsProfileReconciliation", "ProfilesRestored", "BaselineApplied", "Verified">>

StageNames == {Stages[i] : i \in 1 .. 10}

\* What driver-transaction.json may hold.
Transactions ==
    [stage : StageNames, artifact : Artifacts, plan : SUBSET AllPackages,
     packageDigest : Artifacts, authorizedAt : Nat,
     profileBackup : {None} \cup SUBSET Records,
     capture : {None} \cup [packages : SUBSET AllPackages, at : Nat],
     removed : BOOLEAN, installed : BOOLEAN,
     reconciliation : SUBSET Records, accepted : SUBSET Records,
     cs2Backup : {None} \cup SUBSET (Cs2Items \cup {Policy})]

ASSUME BoundsAssumption == MaxNow \in Nat
ASSUME RecordsAssumption == Cs2Items \subseteq Items /\ Policy \notin Items
ASSUME NoneAssumption == /\ None \notin Transactions /\ None \notin StageNames
                         /\ \A rs \in SUBSET Records : rs # None

Stage(t) == IF t = None THEN None ELSE t.stage

AllowsTransition(from, to) ==
    \/ \E i \in 1 .. 9 : from = Stages[i] /\ to = Stages[i + 1]
    \/ from = "InstallationComplete" /\ to = "ProfilesRestored"

\* A record the program writes holds exactly the evidence of its stage.
StageFieldsCoherent(t) ==
    LET reached(s) == \E i, j \in 1 .. 10 : /\ Stages[i] = s
                                            /\ Stages[j] = t.stage
                                            /\ i <= j
    IN  /\ Present(t.profileBackup) <=> reached("ProfileBackupPersisted")
        /\ Present(t.capture) <=> reached("StateCapturePersisted")
        /\ t.removed <=> reached("CleanupComplete")
        /\ t.installed <=> reached("InstallationComplete")
        /\ t.reconciliation # {} <=> t.stage = "NeedsProfileReconciliation"
        /\ t.accepted # {} => reached("ProfilesRestored")
        /\ Present(t.cs2Backup) => reached("ProfilesRestored")
        /\ reached("BaselineApplied") => Present(t.cs2Backup)
        /\ t.packageDigest # None

PreparedV2(a, plan) ==
    [stage |-> "InstallerAuthenticated", artifact |-> a, plan |-> plan,
     packageDigest |-> a, authorizedAt |-> now, profileBackup |-> None,
     capture |-> None, removed |-> FALSE, installed |-> FALSE,
     reconciliation |-> {}, accepted |-> {}, cs2Backup |-> None]

\* persist_driver_transaction: an incoherent record is refused, nothing is written.
CanPersist(t) == StageFieldsCoherent(t)

\* transition: the stage moves, or the command fails where it is not allowed to.
Advance(t, stage) == [t EXCEPT !.stage = IF AllowsTransition(t.stage, stage) THEN stage ELSE "refused"]

LoadProfileBackup(t) == Present(t.profileBackup) /\ backupFile = t.profileBackup
VerifyPreparedPackage(t) == package = t.packageDigest

-----------------------------------------------------------------------------
\* Evidence.

CaptureFresh(at) == now - at <= CaptureWindow

CapturedForPlan(t) == NamesOf(t.capture.packages) = NamesOf(t.plan)

\* The authorization binds the exact packages the plan recorded.
ResumeAuthorized(t) == CapturedForPlan(t) /\ t.capture.packages = t.plan

Authorized(t) == /\ ResumeAuthorized(t)
                 /\ CaptureFresh(t.capture.at)
                 /\ now <= t.authorizedAt + AuthorizationWindow

\* inspect_published_packages: every started display device of the target has
\* a published package, which the Driver Store holds; anything else is an error.
Inspects == ~inbox /\ bound \subseteq NamesOf(store)

\* The packages it returns, with the identities the Driver Store gives them.
Inspected == {p \in store : p[1] \in bound}

\* captured_package_removal_started: what is in use is of the capture, and of
\* the capture what the Driver Store holds is in use.
WithinCapture(t) ==
    /\ Inspects
    /\ Inspected \subseteq t.capture.packages
    /\ \A p \in t.capture.packages : p[1] \in NamesOf(store) <=> p \in Inspected
RemovalStarted(t) == \E p \in t.capture.packages : p[1] \notin NamesOf(store)

RemovalEvidenceValid(t, outcomes, authorizedAt) ==
    /\ Inspects
    /\ \A p \in t.capture.packages : outcomes[p] \in {"removed", "absent"}
    /\ NamesOf(t.capture.packages) \cap bound = {}
    /\ CaptureFresh(authorizedAt)

-----------------------------------------------------------------------------
\* Profile records.

\* The policy and the user's records are values of the same five settings.
Overwritten(rs) == (IF Policy \in rs THEN Cs2Items ELSE {})
                   \cup (IF rs \cap Cs2Items # {} THEN {Policy} ELSE {})
Put(ds, rs) == (ds \ Overwritten(rs)) \cup rs

Cs2Records == drs \cap (Cs2Items \cup {Policy})

-----------------------------------------------------------------------------
Idle == [pc |-> "idle"]
End == op' = Idle
Goto(pc) == op' = [op EXCEPT !.pc = pc]

\* Only a removal that had been armed and has begun may use the capture
\* without its window; anything else needs the live authorization.
Resuming == op.armed /\ RemovalStarted(tx)

MayRemove == /\ op.armed => WithinCapture(tx)
             /\ IF Resuming THEN ResumeAuthorized(tx) ELSE Authorized(tx)

MayBegin == /\ WithinCapture(tx)
            /\ IF op.resuming THEN safeMode /\ RemovalStarted(tx)
                              ELSE CaptureFresh(tx.capture.at) /\ ~RemovalStarted(tx)

\* Packages go in the order of their names.
IsNext(p) == p \in op.left /\ \A q \in op.left : p[1] <= q[1]

\* A package that is there must be in use as it was captured.
MayDelete(p) == p[1] \in NamesOf(store) => Inspects /\ p \in Inspected

\* What the running command must find before its next step; without it the
\* command returns an error.
Accepts ==
    CASE op.pc = "archive"   -> LoadProfileBackup(tx)
      [] op.pc = "build"     -> Inspects /\ bound # {}
      [] op.pc = "capture"   -> Inspects /\ bound = NamesOf(tx.plan)
      [] op.pc = "authorize" -> MayRemove
      [] op.pc = "begin"     -> MayBegin
      [] op.pc = "remove"    -> /\ \A p \in op.left : IsNext(p) => MayDelete(p)
                                /\ op.left = {} => RemovalEvidenceValid(tx, op.outcomes, op.authorizedAt)
      [] op.pc = "launch"    -> VerifyPreparedPackage(tx)
      [] op.pc = "installed" -> Inspects /\ bound # {}
      [] op.pc = "restore"   -> LoadProfileBackup(tx)
      [] op.pc = "apply"     -> Policy \in drs \/ Cs2Records = tx.cs2Backup
      [] op.pc = "verify"    -> Present(tx.cs2Backup) /\ Policy \in drs
      [] OTHER               -> TRUE

At(pc) == op.pc = pc /\ Accepts

\* The commands, each with what it carries from one step to the next.
Commands ==
    [pc : {"idle", "launch", "installed", "restore", "baseline", "apply", "applied", "verify"}]
    \cup [pc : {"archive", "clear", "build", "backup"}, artifact : Artifacts]
    \cup [pc : {"prepared", "backup"}, artifact : Artifacts, plan : SUBSET AllPackages]
    \cup [pc : {"backedUp"}, digest : SUBSET Records]
    \cup [pc : {"capture", "authorize"}, armed : BOOLEAN]
    \cup [pc : {"begin"}, resuming : BOOLEAN]
    \cup [pc : {"remove"}, left : SUBSET AllPackages, authorizedAt : Nat,
          outcomes : UNION {[S -> {"pending", "absent", "removed", "failed"}] :
                                S \in SUBSET AllPackages}]
    \cup [pc : {"restored"}, rejected : SUBSET Records]

TypeOK ==
    /\ tx \in {None} \cup Transactions
    /\ backupFile \in {None} \cup SUBSET Records
    /\ archive \in {None} \cup [transaction : Transactions, profiles : SUBSET Records]
    /\ package \in {None} \cup Artifacts
    /\ store \subseteq AllPackages /\ bound \subseteq Names /\ inbox \in BOOLEAN
    /\ drs \subseteq Records
    /\ safeMode \in BOOLEAN
    /\ now \in 0 .. MaxNow
    /\ op \in Commands

Init ==
    /\ tx = None /\ backupFile = None /\ archive = None /\ package = None
    /\ store = {<<n, 0>> : n \in Names} /\ bound = Names /\ inbox = FALSE
    /\ drs = Items
    /\ safeMode = FALSE /\ now = 0
    /\ op = Idle
    /\ faults = 0 /\ drift = 0

-----------------------------------------------------------------------------
\* prepare-nvidia

\* A preparation that does not keep the transaction it replaces.
PrepareUnarchived(a) ==
    /\ op = Idle /\ ~safeMode
    /\ \/ Stage(tx) \in {None, "Verified"} /\ op' = [pc |-> "clear", artifact |-> a]
       \/ /\ Stage(tx) = "InstallerAuthenticated"
          /\ tx.artifact = a /\ VerifyPreparedPackage(tx)
          /\ op' = [pc |-> "backup", artifact |-> a]
    /\ UNCHANGED <<durable, machine, safeMode, now, faults, drift>>

\* resume_preparation decides what is left to do for the requested artifact.
Prepare(a) ==
    /\ op = Idle /\ ~safeMode
    /\ \/ tx = None /\ op' = [pc |-> "clear", artifact |-> a]
       \/ Stage(tx) = "Verified" /\ op' = [pc |-> "archive", artifact |-> a]
       \/ /\ Stage(tx) = "InstallerAuthenticated"
          /\ tx.artifact = a /\ VerifyPreparedPackage(tx)
          /\ op' = [pc |-> "backup", artifact |-> a]
    /\ UNCHANGED <<durable, machine, safeMode, now, faults, drift>>

ArchiveVerified ==
    /\ At("archive")
    /\ archive' = [transaction |-> tx, profiles |-> backupFile]
    /\ Goto("clear")
    /\ UNCHANGED <<tx, backupFile, package, machine, safeMode, now, faults, drift>>

\* clear_stale_preparation_outputs, only over a replaceable transaction.
ClearStaleOutputs ==
    /\ op.pc = "clear"
    /\ Stage(tx) \in {None, "Verified"}
    /\ package' = None
    /\ Goto("build")
    /\ UNCHANGED <<tx, backupFile, archive, machine, safeMode, now, faults, drift>>

\* Acquire, authenticate, extract and build the package.
BuildPackage ==
    /\ At("build")
    /\ package' = op.artifact
    /\ op' = [pc |-> "prepared", artifact |-> op.artifact, plan |-> Inspected]
    /\ UNCHANGED <<tx, backupFile, archive, machine, safeMode, now, faults, drift>>

PersistPrepared ==
    /\ op.pc = "prepared"
    /\ tx' = PreparedV2(op.artifact, op.plan)
    /\ CanPersist(tx')
    /\ Goto("backup")
    /\ UNCHANGED <<backupFile, archive, package, machine, safeMode, now, faults, drift>>

\* finish_preparation: the profiles are captured and read back before the
\* transaction names them.
PersistProfileBackup ==
    /\ op.pc = "backup"
    /\ Stage(tx) = "InstallerAuthenticated"
    /\ backupFile' = drs
    /\ op' = [pc |-> "backedUp", digest |-> drs]
    /\ UNCHANGED <<tx, archive, package, machine, safeMode, now, faults, drift>>

FinishPreparation ==
    /\ op.pc = "backedUp"
    /\ tx' = [Advance(tx, "ProfileBackupPersisted") EXCEPT !.profileBackup = op.digest]
    /\ CanPersist(tx')
    /\ End
    /\ UNCHANGED <<backupFile, archive, package, machine, safeMode, now, faults, drift>>

-----------------------------------------------------------------------------
\* P2:2, which phase2 runs in Safe Mode only

ResumableRemoval == {"StateCapturePersisted", "SafeModeHandoffArmed"}

RemoveDriver ==
    /\ op = Idle /\ safeMode
    /\ tx # None /\ ~tx.removed
    /\ VerifyPreparedPackage(tx)
    /\ LoadProfileBackup(tx)
    /\ \/ /\ tx.stage = "ProfileBackupPersisted"
          /\ op' = [pc |-> "capture", armed |-> FALSE]
       \/ /\ tx.stage \in ResumableRemoval
          /\ op' = [pc |-> "authorize", armed |-> tx.stage = "SafeModeHandoffArmed"]
    /\ UNCHANGED <<durable, machine, safeMode, now, faults, drift>>

CaptureExecution ==
    /\ At("capture")
    /\ tx' = [Advance(tx, "StateCapturePersisted") EXCEPT
                !.capture = [packages |-> Inspected, at |-> now]]
    /\ CanPersist(tx')
    /\ Goto("authorize")
    /\ UNCHANGED <<backupFile, archive, package, machine, safeMode, now, faults, drift>>

\* A removal that starts before its stage is durable.
AuthorizeRemovalUnrecorded ==
    /\ At("authorize")
    /\ op' = [pc |-> "begin", resuming |-> Resuming]
    /\ UNCHANGED <<durable, machine, safeMode, now, faults, drift>>

AuthorizeRemoval ==
    /\ At("authorize")
    /\ op' = [pc |-> "begin", resuming |-> Resuming]
    /\ \/ tx.stage = "SafeModeHandoffArmed" /\ UNCHANGED tx
       \/ /\ tx.stage = "StateCapturePersisted"
          /\ tx' = Advance(tx, "SafeModeHandoffArmed")
          /\ CanPersist(tx')
    /\ UNCHANGED <<backupFile, archive, package, machine, safeMode, now, faults, drift>>

\* remove_captured_packages and resume_captured_package_removal
BeginRemoval ==
    /\ At("begin")
    /\ op' = [pc |-> "remove", left |-> tx.capture.packages,
              outcomes |-> [p \in tx.capture.packages |-> "pending"],
              authorizedAt |-> IF op.resuming THEN now ELSE tx.capture.at]
    /\ UNCHANGED <<durable, machine, safeMode, now, faults, drift>>

\* remove_published_package: a package that is not there is absent, whatever
\* became of its device; PnPUtil may fail and leave the package.  A device
\* that used the package may be stopped, or run on until it is started anew.
RemovePackage ==
    /\ At("remove")
    /\ \E p \in op.left :
        /\ IsNext(p)
        /\ \/ /\ p[1] \notin NamesOf(store)
              /\ op' = [op EXCEPT !.left = @ \ {p}, !.outcomes[p] = "absent"]
              /\ UNCHANGED <<store, bound, faults>>
           \/ /\ p \in store
              /\ store' = store \ {p} /\ bound' \in {bound, bound \ {p[1]}}
              /\ op' = [op EXCEPT !.left = @ \ {p}, !.outcomes[p] = "removed"]
              /\ UNCHANGED faults
           \/ /\ p \in store
              /\ faults < MaxFaults /\ faults' = faults + 1
              /\ bound' \in {bound, bound \ {p[1]}}
              /\ op' = [op EXCEPT !.left = @ \ {p}, !.outcomes[p] = "failed"]
              /\ UNCHANGED store
    /\ UNCHANGED <<durable, inbox, drs, safeMode, now, drift>>

FinishRemoval ==
    /\ At("remove") /\ op.left = {}
    /\ tx' = [Advance(tx, "CleanupComplete") EXCEPT !.removed = TRUE]
    /\ CanPersist(tx')
    /\ End
    /\ UNCHANGED <<backupFile, archive, package, machine, safeMode, now, faults, drift>>

-----------------------------------------------------------------------------
\* P3:1, which phase3 runs after a normal start, and reconcile-nvidia

\* resume_action: where a transaction with an installation goes on.
ResumeAction(stage) ==
    CASE stage = "InstallationComplete" -> "restore"
      [] stage = "ProfilesRestored"     -> "baseline"
      [] stage = "BaselineApplied"      -> "verify"
      [] OTHER                          -> "idle"

InstallDriver ==
    /\ op = Idle /\ ~safeMode /\ tx # None
    /\ \/ /\ tx.installed
          /\ ResumeAction(tx.stage) # "idle"
          /\ op' = [pc |-> ResumeAction(tx.stage)]
       \/ /\ ~tx.installed /\ tx.removed
          /\ VerifyPreparedPackage(tx) /\ ResumeAuthorized(tx)
          /\ op' = [pc |-> "launch"]
    /\ UNCHANGED <<durable, machine, safeMode, now, faults, drift>>

\* Every device gets the new driver, which starts without the customised records.
Installed == /\ store' = InstalledBy(tx.artifact) /\ bound' = Names /\ inbox' = FALSE
             /\ drs' = {}

\* An exit status other than zero ends the command, whatever the installer
\* had done by then.
LaunchInstaller ==
    /\ At("launch")
    /\ \/ Installed /\ Goto("installed") /\ UNCHANGED faults
       \/ /\ faults < MaxFaults /\ faults' = faults + 1
          /\ Installed \/ UNCHANGED machine
          /\ End
    /\ UNCHANGED <<durable, safeMode, now, drift>>

PersistInstallation ==
    /\ At("installed")
    /\ tx' = [Advance(tx, "InstallationComplete") EXCEPT !.installed = TRUE]
    /\ CanPersist(tx')
    /\ Goto("restore")
    /\ UNCHANGED <<backupFile, archive, package, machine, safeMode, now, faults, drift>>

\* merge_customized_profiles saves what the driver accepts and reports the rest.
RestoreProfiles ==
    /\ At("restore")
    /\ \E rejected \in SUBSET backupFile :
        /\ drs' = Put(drs, backupFile \ rejected)
        /\ op' = [pc |-> "restored", rejected |-> rejected \ drs']
    /\ UNCHANGED <<durable, devices, safeMode, now, faults, drift>>

\* A restoration that takes every record for accepted.
PersistRestoredUnchecked ==
    /\ op.pc = "restored"
    /\ tx' = Advance(tx, "ProfilesRestored")
    /\ CanPersist(tx')
    /\ op' = [pc |-> "baseline"]
    /\ UNCHANGED <<backupFile, archive, package, machine, safeMode, now, faults, drift>>

PersistRestored ==
    /\ op.pc = "restored"
    /\ LET next == IF op.rejected = {} THEN "ProfilesRestored"
                                       ELSE "NeedsProfileReconciliation"
       IN  /\ tx' = [Advance(tx, next) EXCEPT !.reconciliation = op.rejected]
           /\ op' = IF op.rejected = {} THEN [pc |-> "baseline"] ELSE Idle
    /\ CanPersist(tx')
    /\ UNCHANGED <<backupFile, archive, package, machine, safeMode, now, faults, drift>>

ReconcileProfiles ==
    /\ op = Idle /\ ~safeMode
    /\ Stage(tx) = "NeedsProfileReconciliation"
    /\ tx' = [Advance(tx, "ProfilesRestored") EXCEPT
                !.accepted = tx.reconciliation, !.reconciliation = {}]
    /\ CanPersist(tx')
    /\ op' = [pc |-> "baseline"]
    /\ UNCHANGED <<backupFile, archive, package, machine, safeMode, now, faults, drift>>

\* apply_baseline: the CS2 recovery record is durable before the policy is applied.
CaptureBaseline ==
    /\ op.pc = "baseline"
    /\ \/ tx.cs2Backup # None /\ UNCHANGED tx
       \/ /\ tx.cs2Backup = None
          /\ tx' = [tx EXCEPT !.cs2Backup = Cs2Records]
          /\ CanPersist(tx')
    /\ Goto("apply")
    /\ UNCHANGED <<backupFile, archive, package, machine, safeMode, now, faults, drift>>

\* apply_cs2_profile writes over the user's records of the five settings, also
\* over those that the merge has just brought back; a policy that is already
\* there is left as it is.
ApplyBaseline ==
    /\ At("apply")
    /\ drs' = IF Policy \in drs THEN drs ELSE Put(drs, {Policy})
    /\ Goto("applied")
    /\ UNCHANGED <<durable, devices, safeMode, now, faults, drift>>

PersistBaseline ==
    /\ op.pc = "applied"
    /\ tx' = Advance(tx, "BaselineApplied")
    /\ CanPersist(tx')
    /\ Goto("verify")
    /\ UNCHANGED <<backupFile, archive, package, machine, safeMode, now, faults, drift>>

VerifyBaseline ==
    /\ At("verify")
    /\ tx' = Advance(tx, "Verified")
    /\ CanPersist(tx')
    /\ End
    /\ UNCHANGED <<backupFile, archive, package, machine, safeMode, now, faults, drift>>

-----------------------------------------------------------------------------
\* The environment.

\* The command returns an error because a check failed.
Refuse == /\ op # Idle /\ ~Accepts
          /\ End
          /\ UNCHANGED <<durable, machine, safeMode, now, faults, drift>>

\* Any call of a running command may fail, and the machine may stop.
Stop == /\ op # Idle
        /\ faults < MaxFaults /\ faults' = faults + 1
        /\ End
        /\ UNCHANGED <<durable, machine, safeMode, now, drift>>

Reboot == /\ op = Idle
          /\ safeMode' = ~safeMode
          /\ UNCHANGED <<durable, machine, now, op, faults, drift>>

Tick == /\ now < MaxNow /\ now' = now + 1
        /\ UNCHANGED <<durable, machine, safeMode, op, faults, drift>>

\* Windows Update installs another package under one of the names, and may
\* start a device with it.
Drift == /\ drift < MaxDrift /\ drift' = drift + 1
         /\ ~safeMode
         /\ \E n \in Names :
              /\ store' = {p \in store : p[1] # n} \cup {<<n, Foreign>>}
              /\ bound' \in {bound, bound \cup {n}}
         /\ inbox' = (inbox /\ bound' # Names)
         /\ UNCHANGED <<durable, drs, safeMode, now, op, faults>>

\* Windows starts the display devices that have lost their package anew: with
\* what the Driver Store still offers, with its own driver, or not at all.
Rebind == /\ bound # Names \/ ~(bound \subseteq NamesOf(store))
          /\ \E b \in SUBSET NamesOf(store) :
               bound \cap NamesOf(store) \subseteq b /\ bound' = b
          /\ inbox' \in BOOLEAN /\ (inbox' => bound' # Names)
          /\ UNCHANGED <<durable, store, drs, safeMode, now, op, faults, drift>>

Step == \/ ArchiveVerified \/ ClearStaleOutputs \/ BuildPackage \/ PersistPrepared
        \/ PersistProfileBackup \/ FinishPreparation
        \/ CaptureExecution \/ AuthorizeRemoval \/ BeginRemoval
        \/ RemovePackage \/ FinishRemoval
        \/ LaunchInstaller \/ PersistInstallation
        \/ RestoreProfiles \/ PersistRestored
        \/ CaptureBaseline \/ ApplyBaseline \/ PersistBaseline \/ VerifyBaseline

Next == \/ \E a \in Artifacts : Prepare(a)
        \/ RemoveDriver \/ InstallDriver \/ ReconcileProfiles
        \/ Step \/ Refuse \/ Stop
        \/ Reboot \/ Tick \/ Drift \/ Rebind

\* A command that runs goes on or returns.  The user who has a driver to
\* finish restarts the machine and repeats P2:2 and P3:1 until they succeed.
Fairness == /\ WF_vars(Step \/ Refuse)
            /\ WF_vars(Reboot)
            /\ SF_vars(RemoveDriver)
            /\ SF_vars(InstallDriver)

Spec == Init /\ [][Next]_vars /\ Fairness

-----------------------------------------------------------------------------
\* Properties.

\* A package leaves the Driver Store through P2:2 only while the machine is
\* in Safe Mode, the durable stage says that the removal was armed, and
\* everything the removal is to be undone with is still there: the profiles
\* the transaction names and the package it prepared.  This holds at the step,
\* after any crash, drift or retry since these were checked.
RemovalJustified ==
    [][RemovePackage /\ store' # store =>
        /\ safeMode
        /\ Stage(tx) = "SafeModeHandoffArmed"
        /\ LoadProfileBackup(tx) /\ VerifyPreparedPackage(tx)
        /\ store \ store' \subseteq tx.plan]_vars

\* The records that the CS2 policy has replaced or is about to replace.
Originals(t) == IF Present(t.cs2Backup) THEN t.cs2Backup ELSE {}

\* From ProfilesRestored on every record the user had when the transaction was
\* prepared is in the driver, or among those that the user agreed to lose, or
\* is one of the five CS2 settings that the baseline overwrites and then in
\* the CS2 recovery record, which was durable before.  A stop between the
\* capture, the write to the driver and the stage makes no difference.
ProfilesSurvive ==
    Stage(tx) \in {"ProfilesRestored", "BaselineApplied", "Verified"}
        => tx.profileBackup \subseteq drs \cup tx.accepted \cup Originals(tx)

\* A new transaction takes the place of none, or of a verified one which the
\* archive holds together with the profiles it names.
ReplacementArchived ==
    [][Stage(tx') = "InstallerAuthenticated" /\ tx' # tx =>
        \/ tx = None
        \/ /\ tx.stage = "Verified"
           /\ archive = [transaction |-> tx, profiles |-> tx.profileBackup]]_vars

\* The display devices of the target run with the packages that the Driver
\* Store holds, each of which is in use.
DisplayAgrees == ~inbox /\ bound = NamesOf(store)

RemovalBegun == Stage(tx) = "SafeModeHandoffArmed" /\ RemovalStarted(tx) /\ drift = 0

\* The new driver is in place, or waits for the user's agreement to the
\* records that it refused.
DriverIsBack == Stage(tx) \in {"NeedsProfileReconciliation", "Verified"} \/ drift > 0

=============================================================================
