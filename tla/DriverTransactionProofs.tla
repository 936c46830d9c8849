---------------------- MODULE DriverTransactionProofs ----------------------
(***************************************************************************)
(* What the NVIDIA driver transaction guarantees for every set of published *)
(* names, installers and profile records, every length of its two windows  *)
(* and any number of faults, restarts and foreign driver changes.  The     *)
(* argument is that the durable record and the step a command is at never  *)
(* drift apart: a command acts on a record it has checked, no other        *)
(* command runs meanwhile, and a machine does not leave Safe Mode under a  *)
(* running one.                                                            *)
(***************************************************************************)
EXTENDS DriverTransaction, TLAPS

RemovalPcs == {"capture", "authorize", "begin", "remove"}

\* The command at each of its steps and the durable record it works on.
CommandInv ==
    /\ op.pc \in RemovalPcs =>
          safeMode /\ tx # None /\ LoadProfileBackup(tx) /\ VerifyPreparedPackage(tx)
    /\ op.pc = "archive" => Stage(tx) = "Verified"
    /\ op.pc \in {"clear", "build", "prepared"} =>
          \/ tx = None
          \/ /\ tx.stage = "Verified"
             /\ archive = [transaction |-> tx, profiles |-> tx.profileBackup]
    /\ op.pc = "backedUp" => Stage(tx) = "InstallerAuthenticated"
    /\ op.pc = "capture" => Stage(tx) = "ProfileBackupPersisted"
    /\ op.pc = "authorize" => Stage(tx) \in ResumableRemoval
    /\ op.pc \in {"begin", "remove"} =>
          Stage(tx) = "SafeModeHandoffArmed" /\ tx.capture.packages = tx.plan
    /\ op.pc = "remove" => op.left \subseteq tx.capture.packages
    /\ op.pc \in {"launch", "installed"} => Stage(tx) = "CleanupComplete"
    /\ op.pc \in {"restore", "restored"} => Stage(tx) = "InstallationComplete"
    /\ op.pc = "restored" => tx.profileBackup \subseteq drs \cup op.rejected
    /\ op.pc \in {"baseline", "apply", "applied"} => Stage(tx) = "ProfilesRestored"
    /\ op.pc = "apply" => Present(tx.cs2Backup)
    /\ op.pc = "verify" => Stage(tx) = "BaselineApplied"

\* The durable record holds the evidence of its stage.
RecordInv ==
    /\ tx # None => StageFieldsCoherent(tx)
    /\ Stage(tx) = "NeedsProfileReconciliation" =>
          tx.profileBackup \subseteq drs \cup tx.reconciliation

Inv == TypeOK /\ CommandInv /\ RecordInv /\ ProfilesSurvive

-----------------------------------------------------------------------------
(* The lifecycle *)

\* The stages in their order.
LEMMA StageOrder ==
    /\ Stages[1] = "InstallerAuthenticated" /\ Stages[2] = "ProfileBackupPersisted"
    /\ Stages[3] = "StateCapturePersisted" /\ Stages[4] = "SafeModeHandoffArmed"
    /\ Stages[5] = "CleanupComplete" /\ Stages[6] = "InstallationComplete"
    /\ Stages[7] = "NeedsProfileReconciliation" /\ Stages[8] = "ProfilesRestored"
    /\ Stages[9] = "BaselineApplied" /\ Stages[10] = "Verified"
  BY DEF Stages

\* The set of the stages.
LEMMA StageSet ==
    StageNames = {"InstallerAuthenticated", "ProfileBackupPersisted", "StateCapturePersisted",
                  "SafeModeHandoffArmed", "CleanupComplete", "InstallationComplete",
                  "NeedsProfileReconciliation", "ProfilesRestored", "BaselineApplied", "Verified"}
<1>1. \A i \in 1 .. 10 : i \in {1, 2, 3, 4, 5, 6, 7, 8, 9, 10}
  OBVIOUS
<1>2. QED
  BY <1>1, StageOrder DEF StageNames

\* The transitions the commands make are allowed.
LEMMA Transitions ==
    /\ AllowsTransition("InstallerAuthenticated", "ProfileBackupPersisted")
    /\ AllowsTransition("ProfileBackupPersisted", "StateCapturePersisted")
    /\ AllowsTransition("StateCapturePersisted", "SafeModeHandoffArmed")
    /\ AllowsTransition("SafeModeHandoffArmed", "CleanupComplete")
    /\ AllowsTransition("CleanupComplete", "InstallationComplete")
    /\ AllowsTransition("InstallationComplete", "NeedsProfileReconciliation")
    /\ AllowsTransition("InstallationComplete", "ProfilesRestored")
    /\ AllowsTransition("NeedsProfileReconciliation", "ProfilesRestored")
    /\ AllowsTransition("ProfilesRestored", "BaselineApplied")
    /\ AllowsTransition("BaselineApplied", "Verified")
<1>1. \A i \in 1 .. 9 : AllowsTransition(Stages[i], Stages[i + 1])
  BY DEF AllowsTransition
<1>2. /\ 1 \in 1 .. 9 /\ 2 \in 1 .. 9 /\ 3 \in 1 .. 9 /\ 4 \in 1 .. 9 /\ 5 \in 1 .. 9
      /\ 6 \in 1 .. 9 /\ 7 \in 1 .. 9 /\ 8 \in 1 .. 9 /\ 9 \in 1 .. 9
      /\ 1 + 1 = 2 /\ 2 + 1 = 3 /\ 3 + 1 = 4 /\ 4 + 1 = 5 /\ 5 + 1 = 6 /\ 6 + 1 = 7
      /\ 7 + 1 = 8 /\ 8 + 1 = 9 /\ 9 + 1 = 10
  OBVIOUS
<1>3. AllowsTransition("InstallationComplete", "ProfilesRestored")
  BY DEF AllowsTransition
<1>4. QED
  BY <1>1, <1>2, <1>3, StageOrder

\* An allowed transition changes the stage and nothing else.
LEMMA AdvanceTo ==
    ASSUME NEW t \in Transactions, NEW s \in StageNames, AllowsTransition(t.stage, s)
    PROVE  Advance(t, s) = [t EXCEPT !.stage = s] /\ Advance(t, s) \in Transactions
  BY DEF Advance, Transactions

\* From the capture on, a coherent record holds one.
LEMMA HasCapture ==
    ASSUME NEW t \in Transactions, StageFieldsCoherent(t),
           t.stage \in {"StateCapturePersisted", "SafeModeHandoffArmed", "CleanupComplete"}
    PROVE  t.capture \in [packages : SUBSET AllPackages, at : Nat]
<1>1. \E i, j \in 1 .. 10 : Stages[i] = "StateCapturePersisted" /\ Stages[j] = t.stage /\ i <= j
  <2>1. 3 \in 1 .. 10 /\ 4 \in 1 .. 10 /\ 5 \in 1 .. 10 /\ 3 <= 3 /\ 3 <= 4 /\ 3 <= 5
    OBVIOUS
  <2>2. QED BY <2>1, StageOrder
<1>2. t.capture # None
  BY <1>1 DEF StageFieldsCoherent, Present
<1>3. QED
  BY <1>2 DEF Transactions

\* A record whose packages are removed and whose driver is not installed is
\* at one stage only.
LEMMA OnlyRemoved ==
    ASSUME NEW t \in Transactions, StageFieldsCoherent(t), t.removed, ~t.installed
    PROVE  t.stage = "CleanupComplete"
<1>1. PICK i, j \in 1 .. 10 : Stages[i] = "CleanupComplete" /\ Stages[j] = t.stage /\ i <= j
  BY DEF StageFieldsCoherent
<1>2. i = 5
  <2>1. i \in {1, 2, 3, 4, 5, 6, 7, 8, 9, 10}
    OBVIOUS
  <2>2. QED BY <1>1, <2>1, StageOrder
<1>3. ~(6 <= j)
  <2>1. 6 \in 1 .. 10
    OBVIOUS
  <2>2. QED BY <1>1, <2>1, StageOrder DEF StageFieldsCoherent
<1>4. QED
  BY <1>1, <1>2, <1>3, StageOrder

\* What a command carries at each of its steps.
LEMMA CommandShape ==
    ASSUME op \in Commands
    PROVE  /\ op.pc \in {"idle", "launch", "installed", "restore", "baseline", "apply",
                         "applied", "verify"} => op = [pc |-> op.pc]
           /\ op.pc \in {"archive", "clear", "build"} =>
                 op.artifact \in Artifacts /\ op = [pc |-> op.pc, artifact |-> op.artifact]
           /\ op.pc = "prepared" =>
                 /\ op.artifact \in Artifacts /\ op.plan \subseteq AllPackages
                 /\ op = [pc |-> op.pc, artifact |-> op.artifact, plan |-> op.plan]
           /\ op.pc = "backedUp" => op.digest \subseteq Records
           /\ op.pc \in {"capture", "authorize"} =>
                 op.armed \in BOOLEAN /\ op = [pc |-> op.pc, armed |-> op.armed]
           /\ op.pc = "remove" =>
                 op \in [pc : {"remove"}, left : SUBSET AllPackages, authorizedAt : Nat,
                         outcomes : UNION {[S -> {"pending", "absent", "removed", "failed"}] :
                                                S \in SUBSET AllPackages}]
           /\ op.pc = "restored" => op.rejected \subseteq Records
  BY DEF Commands

-----------------------------------------------------------------------------
(* The initial state and the steps of prepare-nvidia *)

\* There is no transaction and no command at the start.
LEMMA InvInit == Init => Inv
<1> SUFFICES ASSUME Init PROVE Inv
  OBVIOUS
<1>1. store \subseteq AllPackages /\ bound \subseteq Names /\ drs \subseteq Records
  BY DEF Init, AllPackages, Records
<1>2. TypeOK
  <2>1. op \in Commands
    BY DEF Init, Idle, Commands
  <2>2. now \in 0 .. MaxNow
    BY BoundsAssumption DEF Init
  <2>3. QED
    BY <1>1, <2>1, <2>2 DEF Init, TypeOK
<1>3. QED
  BY <1>2, NoneAssumption, StageSet
     DEF Init, Inv, CommandInv, RecordInv, ProfilesSurvive, Idle, Stage, RemovalPcs

\* prepare-nvidia may start from any record.
LEMMA PrepareInv ==
    ASSUME Inv, NEW a \in Artifacts, Prepare(a)
    PROVE  Inv'
<1> USE DEF durable, machine, devices, Inv, Prepare
<1>1. op' \in Commands
  BY DEF Commands
<1>2. TypeOK'
  BY <1>1 DEF TypeOK
<1>3. CommandInv'
  BY <1>2, NoneAssumption, StageSet DEF CommandInv, Stage, RemovalPcs
<1>4. RecordInv' /\ ProfilesSurvive'
  BY DEF RecordInv, ProfilesSurvive, StageFieldsCoherent, Stage
<1>5. QED
  BY <1>2, <1>3, <1>4

\* The archive takes the verified transaction with the profiles it names.
LEMMA ArchiveInv ==
    ASSUME Inv, ArchiveVerified
    PROVE  Inv'
<1> USE DEF durable, machine, devices, Inv, ArchiveVerified
<1>1. tx \in Transactions /\ tx.stage = "Verified" /\ backupFile = tx.profileBackup
      /\ backupFile \in SUBSET Records
  BY NoneAssumption, StageSet DEF At, Accepts, LoadProfileBackup, Present, CommandInv, Stage, TypeOK
<1>2. op.artifact \in Artifacts /\ op' = [pc |-> "clear", artifact |-> op.artifact]
  BY CommandShape DEF TypeOK, At, Goto
<1>3. TypeOK'
  BY <1>1, <1>2 DEF TypeOK, Commands
<1>4. CommandInv'
  BY <1>1, <1>2 DEF CommandInv, RemovalPcs
<1>5. RecordInv' /\ ProfilesSurvive'
  BY DEF RecordInv, ProfilesSurvive, StageFieldsCoherent, Stage
<1>6. QED
  BY <1>3, <1>4, <1>5

\* The stale package goes before a new one is built.
LEMMA ClearInv ==
    ASSUME Inv, ClearStaleOutputs
    PROVE  Inv'
<1> USE DEF durable, machine, devices, Inv, ClearStaleOutputs
<1>1. op.artifact \in Artifacts /\ op' = [pc |-> "build", artifact |-> op.artifact]
  BY CommandShape DEF TypeOK, Goto
<1>2. TypeOK'
  BY <1>1 DEF TypeOK, Commands
<1>3. CommandInv'
  BY <1>1 DEF CommandInv, RemovalPcs
<1>4. RecordInv' /\ ProfilesSurvive'
  BY DEF RecordInv, ProfilesSurvive, StageFieldsCoherent, Stage
<1>5. QED
  BY <1>2, <1>3, <1>4

\* The package is that of the chosen artifact.
LEMMA BuildInv ==
    ASSUME Inv, BuildPackage
    PROVE  Inv'
<1> USE DEF durable, machine, devices, Inv, BuildPackage
<1>1. op.artifact \in Artifacts /\ op.pc = "build"
  BY CommandShape DEF TypeOK, At
<1>2. TypeOK'
  BY <1>1 DEF TypeOK, Commands, Inspected
<1>3. CommandInv'
  BY <1>1 DEF CommandInv, RemovalPcs
<1>4. RecordInv' /\ ProfilesSurvive'
  BY DEF RecordInv, ProfilesSurvive, StageFieldsCoherent, Stage
<1>5. QED
  BY <1>2, <1>3, <1>4

\* The new record names the package and the planned removals.
LEMMA PersistPreparedInv ==
    ASSUME Inv, PersistPrepared
    PROVE  Inv'
<1> USE DEF durable, machine, devices, Inv, PersistPrepared
<1>1. op.artifact \in Artifacts /\ op.plan \subseteq AllPackages
      /\ op' = [pc |-> "backup", artifact |-> op.artifact, plan |-> op.plan]
  BY CommandShape DEF TypeOK, Goto
<1>2. tx' \in Transactions /\ tx'.stage = "InstallerAuthenticated"
  BY <1>1, StageSet DEF PreparedV2, Transactions, TypeOK
<1>3. TypeOK'
  BY <1>1, <1>2 DEF TypeOK, Commands
<1>4. CommandInv'
  BY <1>1 DEF CommandInv, RemovalPcs
<1>5. RecordInv' /\ ProfilesSurvive'
  BY <1>2, NoneAssumption DEF RecordInv, ProfilesSurvive, CanPersist, StageFieldsCoherent, Stage
<1>6. QED
  BY <1>3, <1>4, <1>5

\* The profiles are written before the record names them.
LEMMA PersistBackupInv ==
    ASSUME Inv, PersistProfileBackup
    PROVE  Inv'
<1> USE DEF durable, machine, devices, Inv, PersistProfileBackup
<1>1. TypeOK'
  BY DEF TypeOK, Commands
<1>2. CommandInv'
  BY DEF CommandInv, RemovalPcs, Stage
<1>3. RecordInv' /\ ProfilesSurvive'
  BY DEF RecordInv, ProfilesSurvive, StageFieldsCoherent, Stage
<1>4. QED
  BY <1>1, <1>2, <1>3

\* The record advances once package and profiles are there.
LEMMA FinishPreparationInv ==
    ASSUME Inv, FinishPreparation
    PROVE  Inv'
<1> USE DEF durable, machine, devices, Inv, FinishPreparation
<1>1. tx \in Transactions /\ tx.stage = "InstallerAuthenticated" /\ op.digest \subseteq Records
  BY CommandShape, NoneAssumption, StageSet DEF TypeOK, CommandInv, Stage
<1>2. Advance(tx, "ProfileBackupPersisted") = [tx EXCEPT !.stage = "ProfileBackupPersisted"]
      /\ Advance(tx, "ProfileBackupPersisted") \in Transactions
  BY <1>1, AdvanceTo, Transitions, StageSet
<1>3. tx' \in Transactions /\ tx'.stage = "ProfileBackupPersisted"
  BY <1>1, <1>2 DEF Transactions
<1>4. TypeOK'
  BY <1>3 DEF TypeOK, End, Idle, Commands
<1>5. CommandInv'
  BY DEF CommandInv, RemovalPcs, End, Idle
<1>6. RecordInv' /\ ProfilesSurvive'
  BY <1>3, NoneAssumption DEF RecordInv, ProfilesSurvive, CanPersist, StageFieldsCoherent, Stage
<1>7. QED
  BY <1>4, <1>5, <1>6

-----------------------------------------------------------------------------
(* The steps of P2:2 *)

\* P2:2 goes on where the record says it was.
LEMMA RemoveDriverInv ==
    ASSUME Inv, RemoveDriver
    PROVE  Inv'
<1> USE DEF durable, machine, devices, Inv, RemoveDriver
<1>1. TypeOK'
  <2>1. ASSUME NEW b \in BOOLEAN
        PROVE  /\ [pc |-> "capture", armed |-> b] \in Commands
               /\ [pc |-> "authorize", armed |-> b] \in Commands
    BY DEF Commands
  <2>2. op' \in Commands
    BY <2>1, Zenon
  <2>3. QED BY <2>2 DEF TypeOK
<1>2. CommandInv'
  BY DEF CommandInv, RemovalPcs, Stage, LoadProfileBackup, VerifyPreparedPackage
<1>3. RecordInv' /\ ProfilesSurvive'
  BY DEF RecordInv, ProfilesSurvive, StageFieldsCoherent, Stage
<1>4. QED
  BY <1>1, <1>2, <1>3

\* The capture of the Driver Store is recorded in Safe Mode.
LEMMA CaptureInv ==
    ASSUME Inv, CaptureExecution
    PROVE  Inv'
<1> USE DEF durable, machine, devices, Inv, CaptureExecution
<1>1. tx \in Transactions /\ tx.stage = "ProfileBackupPersisted" /\ op.pc = "capture"
      /\ op.armed \in BOOLEAN /\ op' = [pc |-> "authorize", armed |-> op.armed]
      /\ safeMode /\ LoadProfileBackup(tx) /\ VerifyPreparedPackage(tx)
  BY CommandShape DEF TypeOK, CommandInv, RemovalPcs, Stage, At, Goto
<1>2. Advance(tx, "StateCapturePersisted") = [tx EXCEPT !.stage = "StateCapturePersisted"]
      /\ Advance(tx, "StateCapturePersisted") \in Transactions
  BY <1>1, AdvanceTo, Transitions, StageSet
<1>3. /\ tx' \in Transactions /\ tx'.stage = "StateCapturePersisted"
      /\ tx'.profileBackup = tx.profileBackup /\ tx'.packageDigest = tx.packageDigest
  <2>1. Inspected \in SUBSET AllPackages
    BY DEF Inspected, TypeOK
  <2>2. QED
    BY <1>1, <1>2, <2>1, BoundsAssumption DEF Transactions, TypeOK
<1>4. TypeOK'
  BY <1>1, <1>3 DEF TypeOK, Commands
<1>5. CommandInv'
  BY <1>1, <1>3, NoneAssumption
     DEF CommandInv, RemovalPcs, Stage, ResumableRemoval, LoadProfileBackup, VerifyPreparedPackage
<1>6. RecordInv' /\ ProfilesSurvive'
  BY <1>3, NoneAssumption DEF RecordInv, ProfilesSurvive, CanPersist, StageFieldsCoherent, Stage
<1>7. QED
  BY <1>4, <1>5, <1>6

\* The authorization binds the capture that was just checked.
LEMMA AuthorizeInv ==
    ASSUME Inv, AuthorizeRemoval
    PROVE  Inv'
<1> USE DEF durable, machine, devices, Inv, AuthorizeRemoval
<1>1. tx \in Transactions /\ op.pc = "authorize" /\ op.armed \in BOOLEAN
      /\ safeMode /\ LoadProfileBackup(tx) /\ VerifyPreparedPackage(tx)
      /\ tx.capture.packages = tx.plan
  BY CommandShape DEF TypeOK, CommandInv, RemovalPcs, At, Accepts, MayRemove,
                      Authorized, ResumeAuthorized
<1>2. /\ tx' \in Transactions /\ tx'.stage = "SafeModeHandoffArmed"
      /\ tx'.profileBackup = tx.profileBackup /\ tx'.packageDigest = tx.packageDigest
      /\ tx'.capture = tx.capture /\ tx'.plan = tx.plan
      /\ StageFieldsCoherent(tx')
  <2>1. CASE tx.stage = "SafeModeHandoffArmed" /\ UNCHANGED tx
    BY <1>1, <2>1, NoneAssumption DEF RecordInv
  <2>2. CASE tx.stage = "StateCapturePersisted" /\ tx' = Advance(tx, "SafeModeHandoffArmed")
             /\ CanPersist(tx')
    <3>1. tx' = [tx EXCEPT !.stage = "SafeModeHandoffArmed"] /\ tx' \in Transactions
      BY <1>1, <2>2, AdvanceTo, Transitions, StageSet
    <3>2. QED
      BY <1>1, <2>2, <3>1 DEF Transactions, CanPersist
  <2>3. QED
    BY <2>1, <2>2
<1>3. op' = [pc |-> "begin", resuming |-> Resuming] /\ Resuming \in BOOLEAN
  BY <1>1 DEF Resuming, RemovalStarted
<1>4. TypeOK'
  BY <1>2, <1>3 DEF TypeOK, Commands
<1>5. CommandInv'
  BY <1>1, <1>2, <1>3, NoneAssumption
     DEF CommandInv, RemovalPcs, Stage, LoadProfileBackup, VerifyPreparedPackage
<1>6. RecordInv' /\ ProfilesSurvive'
  BY <1>2, NoneAssumption DEF RecordInv, ProfilesSurvive, StageFieldsCoherent, Stage
<1>7. QED
  BY <1>4, <1>5, <1>6

\* The removal begins with all packages of the capture.
LEMMA BeginRemovalInv ==
    ASSUME Inv, BeginRemoval
    PROVE  Inv'
<1> USE DEF durable, machine, devices, Inv, BeginRemoval
<1>1. op.pc = "begin" /\ tx \in Transactions /\ tx.stage = "SafeModeHandoffArmed"
      /\ StageFieldsCoherent(tx)
  BY NoneAssumption, StageSet DEF TypeOK, CommandInv, RecordInv, Stage, At
<1>2. tx.capture.packages \in SUBSET AllPackages /\ tx.capture.at \in Nat
  BY <1>1, HasCapture
<1>3. op' \in Commands /\ op'.pc = "remove" /\ op'.left = tx.capture.packages
  <2>1. [p \in tx.capture.packages |-> "pending"] \in
            UNION {[S -> {"pending", "absent", "removed", "failed"}] : S \in SUBSET AllPackages}
    BY <1>2
  <2>2. (IF op.resuming THEN now ELSE tx.capture.at) \in Nat
    BY <1>2, BoundsAssumption DEF TypeOK
  <2>3. QED
    BY <1>2, <2>1, <2>2 DEF Commands
<1>4. TypeOK'
  BY <1>3 DEF TypeOK
<1>5. CommandInv'
  BY <1>1, <1>3 DEF CommandInv, RemovalPcs, Stage, LoadProfileBackup, VerifyPreparedPackage
<1>6. RecordInv' /\ ProfilesSurvive'
  BY DEF RecordInv, ProfilesSurvive, StageFieldsCoherent, Stage
<1>7. QED
  BY <1>4, <1>5, <1>6

\* Removing a package leaves the command where it is and takes at most that
\* package out of the store.
LEMMA RemovePackageStep ==
    ASSUME Inv, RemovePackage
    PROVE  /\ op' \in Commands /\ op'.pc = "remove" /\ op'.left \subseteq op.left
           /\ store' \subseteq store /\ store \ store' \subseteq op.left
           /\ bound' \subseteq bound
<1> DEFINE Outcomes == {"pending", "absent", "removed", "failed"}
<1>1. PICK p \in op.left : \E r \in Outcomes :
            /\ op' = [op EXCEPT !.left = @ \ {p}, !.outcomes[p] = r]
            /\ store' \in {store, store \ {p}}
            /\ bound' \subseteq bound
  BY DEF RemovePackage, IsNext
<1>2. PICK r \in Outcomes : /\ op' = [op EXCEPT !.left = @ \ {p}, !.outcomes[p] = r]
                            /\ store' \in {store, store \ {p}}
                            /\ bound' \subseteq bound
  BY <1>1
<1>3. op \in [pc : {"remove"}, left : SUBSET AllPackages, authorizedAt : Nat,
              outcomes : UNION {[S -> Outcomes] : S \in SUBSET AllPackages}]
  BY CommandShape DEF RemovePackage, At, Inv, TypeOK
<1>4. PICK S \in SUBSET AllPackages : op.outcomes \in [S -> Outcomes]
  BY <1>3
<1>5. [op.outcomes EXCEPT ![p] = r] \in [S -> Outcomes]
  BY <1>2, <1>4
<1>6. op' = [op EXCEPT !.left = op.left \ {p}, !.outcomes = [op.outcomes EXCEPT ![p] = r]]
  BY <1>2
<1>7. /\ op' \in [pc : {"remove"}, left : SUBSET AllPackages, authorizedAt : Nat,
                   outcomes : UNION {[T -> Outcomes] : T \in SUBSET AllPackages}]
      /\ op'.left = op.left \ {p}
  <2>1. [op.outcomes EXCEPT ![p] = r] \in UNION {[T -> Outcomes] : T \in SUBSET AllPackages}
    BY <1>5
  <2>2. QED
    BY <1>3, <1>6, <2>1
<1>8. op' \in Commands /\ op'.pc = "remove"
  BY <1>7 DEF Commands
<1>9. QED
  BY <1>2, <1>7, <1>8

\* Each removed package is one that is left to remove.
LEMMA RemovePackageInv ==
    ASSUME Inv, RemovePackage
    PROVE  Inv'
<1> USE DEF durable, machine, devices, Inv
<1>1. op' \in Commands /\ op'.pc = "remove" /\ op'.left \subseteq op.left
      /\ store' \subseteq store /\ bound' \subseteq bound /\ op.pc = "remove"
  BY RemovePackageStep DEF RemovePackage, At
<1>2. UNCHANGED <<tx, backupFile, archive, package, inbox, drs, safeMode, now>>
  BY DEF RemovePackage
<1>3. TypeOK'
  BY <1>1, <1>2 DEF TypeOK
<1>4. CommandInv'
  BY <1>1, <1>2 DEF CommandInv, RemovalPcs, Stage, LoadProfileBackup, VerifyPreparedPackage
<1>5. RecordInv' /\ ProfilesSurvive'
  BY <1>2 DEF RecordInv, ProfilesSurvive, StageFieldsCoherent, Stage
<1>6. QED
  BY <1>3, <1>4, <1>5

\* The removal ends when none is left.
LEMMA FinishRemovalInv ==
    ASSUME Inv, FinishRemoval
    PROVE  Inv'
<1> USE DEF durable, machine, devices, Inv, FinishRemoval
<1>1. tx \in Transactions /\ tx.stage = "SafeModeHandoffArmed"
  BY NoneAssumption, StageSet DEF TypeOK, CommandInv, Stage, At
<1>2. Advance(tx, "CleanupComplete") = [tx EXCEPT !.stage = "CleanupComplete"]
      /\ Advance(tx, "CleanupComplete") \in Transactions
  BY <1>1, AdvanceTo, Transitions, StageSet
<1>3. tx' \in Transactions /\ tx'.stage = "CleanupComplete"
  BY <1>1, <1>2 DEF Transactions
<1>4. TypeOK'
  BY <1>3 DEF TypeOK, End, Idle, Commands
<1>5. CommandInv'
  BY DEF CommandInv, RemovalPcs, End, Idle
<1>6. RecordInv' /\ ProfilesSurvive'
  BY <1>3, NoneAssumption DEF RecordInv, ProfilesSurvive, CanPersist, StageFieldsCoherent, Stage
<1>7. QED
  BY <1>4, <1>5, <1>6

-----------------------------------------------------------------------------
(* The steps of P3:1 and reconcile-nvidia *)

\* P3:1 goes on where the record says it was.
LEMMA InstallDriverInv ==
    ASSUME Inv, InstallDriver
    PROVE  Inv'
<1> USE DEF durable, machine, devices, Inv, InstallDriver
<1>1. tx \in Transactions
  BY DEF TypeOK
<1>2. \/ op' = [pc |-> "restore"] /\ tx.stage = "InstallationComplete"
      \/ op' = [pc |-> "baseline"] /\ tx.stage = "ProfilesRestored"
      \/ op' = [pc |-> "verify"] /\ tx.stage = "BaselineApplied"
      \/ op' = [pc |-> "launch"] /\ tx.stage = "CleanupComplete"
  <2>1. CASE ResumeAction(tx.stage) # "idle" /\ op' = [pc |-> ResumeAction(tx.stage)]
    BY <2>1 DEF ResumeAction
  <2>2. CASE ~tx.installed /\ tx.removed /\ op' = [pc |-> "launch"]
    <3>1. tx.stage = "CleanupComplete"
      <4>1. StageFieldsCoherent(tx)
        BY <1>1, NoneAssumption DEF RecordInv
      <4>2. QED
        BY <1>1, <2>2, <4>1, OnlyRemoved
    <3>2. QED BY <2>2, <3>1
  <2>3. QED
    BY <2>1, <2>2
<1>3. TypeOK'
  BY <1>2 DEF TypeOK, Commands
<1>4. CommandInv'
  BY <1>1, <1>2, NoneAssumption DEF CommandInv, RemovalPcs, Stage
<1>5. RecordInv' /\ ProfilesSurvive'
  BY DEF RecordInv, ProfilesSurvive, StageFieldsCoherent, Stage
<1>6. QED
  BY <1>3, <1>4, <1>5

\* The installer brings the driver and may lose its profiles.
LEMMA LaunchInv ==
    ASSUME Inv, LaunchInstaller
    PROVE  Inv'
<1> USE DEF durable, machine, devices, Inv, LaunchInstaller
<1>1. tx \in Transactions /\ tx.stage = "CleanupComplete" /\ op.pc = "launch"
      /\ op = [pc |-> "launch"]
  BY NoneAssumption, StageSet, CommandShape DEF TypeOK, CommandInv, Stage, At
<1>2. op' \in {[pc |-> "installed"], [pc |-> "idle"]}
  BY <1>1 DEF Goto, End, Idle
<1>3. /\ store' \subseteq AllPackages /\ bound' \subseteq Names /\ inbox' \in BOOLEAN
      /\ drs' \subseteq Records
  <2>1. InstalledBy(tx.artifact) \subseteq AllPackages
    BY <1>1 DEF InstalledBy, AllPackages, Transactions
  <2>2. QED
    BY <2>1 DEF Installed, TypeOK
<1>4. TypeOK'
  BY <1>2, <1>3 DEF TypeOK, Commands
<1>5. CommandInv'
  BY <1>1, <1>2, NoneAssumption DEF CommandInv, RemovalPcs, Stage
<1>6. RecordInv' /\ ProfilesSurvive'
  BY <1>1, NoneAssumption DEF RecordInv, ProfilesSurvive, StageFieldsCoherent, Stage
<1>7. QED
  BY <1>4, <1>5, <1>6

\* The record advances once the driver is there.
LEMMA PersistInstallationInv ==
    ASSUME Inv, PersistInstallation
    PROVE  Inv'
<1> USE DEF durable, machine, devices, Inv, PersistInstallation
<1>1. tx \in Transactions /\ tx.stage = "CleanupComplete" /\ op' = [pc |-> "restore"]
  BY NoneAssumption, StageSet, CommandShape DEF TypeOK, CommandInv, Stage, At, Goto
<1>2. Advance(tx, "InstallationComplete") = [tx EXCEPT !.stage = "InstallationComplete"]
      /\ Advance(tx, "InstallationComplete") \in Transactions
  BY <1>1, AdvanceTo, Transitions, StageSet
<1>3. tx' \in Transactions /\ tx'.stage = "InstallationComplete"
  BY <1>1, <1>2 DEF Transactions
<1>4. TypeOK'
  BY <1>1, <1>3 DEF TypeOK, Commands
<1>5. CommandInv'
  BY <1>1, <1>3, NoneAssumption DEF CommandInv, RemovalPcs, Stage
<1>6. RecordInv' /\ ProfilesSurvive'
  BY <1>3, NoneAssumption DEF RecordInv, ProfilesSurvive, CanPersist, StageFieldsCoherent, Stage
<1>7. QED
  BY <1>4, <1>5, <1>6

\* Every record of the backup is in the driver afterwards or rejected.
LEMMA RestoreProfilesInv ==
    ASSUME Inv, RestoreProfiles
    PROVE  Inv'
<1> USE DEF durable, machine, devices, Inv, RestoreProfiles
<1>1. /\ tx \in Transactions /\ tx.stage = "InstallationComplete"
      /\ backupFile = tx.profileBackup /\ backupFile \subseteq Records
  BY NoneAssumption, StageSet
     DEF TypeOK, CommandInv, Stage, At, Accepts, LoadProfileBackup, Present
<1>2. PICK rejected \in SUBSET backupFile :
          /\ drs' = Put(drs, backupFile \ rejected)
          /\ op' = [pc |-> "restored", rejected |-> rejected \ drs']
  OBVIOUS
<1>3. /\ drs' \subseteq Records /\ backupFile \ rejected \subseteq drs'
      /\ rejected \ drs' \in SUBSET Records
  BY <1>1, <1>2 DEF Put, TypeOK
<1>4. TypeOK'
  BY <1>1, <1>2, <1>3 DEF TypeOK, Commands
<1>5. CommandInv'
  BY <1>1, <1>2, <1>3, NoneAssumption DEF CommandInv, RemovalPcs, Stage
<1>6. RecordInv' /\ ProfilesSurvive'
  BY <1>1, NoneAssumption DEF RecordInv, ProfilesSurvive, StageFieldsCoherent, Stage
<1>7. QED
  BY <1>4, <1>5, <1>6

\* The rejected records are named in the record.
LEMMA PersistRestoredInv ==
    ASSUME Inv, PersistRestored
    PROVE  Inv'
<1> USE DEF durable, machine, devices, Inv, PersistRestored
<1> DEFINE next == IF op.rejected = {} THEN "ProfilesRestored" ELSE "NeedsProfileReconciliation"
<1>1. /\ tx \in Transactions /\ tx.stage = "InstallationComplete" /\ op.rejected \subseteq Records
      /\ tx.profileBackup \subseteq drs \cup op.rejected
  BY NoneAssumption, StageSet, CommandShape DEF TypeOK, CommandInv, Stage
<1>2. Advance(tx, next) = [tx EXCEPT !.stage = next] /\ Advance(tx, next) \in Transactions
  BY <1>1, AdvanceTo, Transitions, StageSet
<1>3. /\ tx' \in Transactions /\ tx'.stage = next /\ tx'.reconciliation = op.rejected
      /\ tx'.profileBackup = tx.profileBackup
  BY <1>1, <1>2 DEF Transactions
<1>4. TypeOK'
  BY <1>3 DEF TypeOK, Idle, Commands
<1>5. CommandInv'
  BY <1>3, NoneAssumption DEF CommandInv, RemovalPcs, Stage, Idle
<1>6. RecordInv' /\ ProfilesSurvive'
  BY <1>1, <1>3, NoneAssumption DEF RecordInv, ProfilesSurvive, CanPersist, StageFieldsCoherent, Stage
<1>7. QED
  BY <1>4, <1>5, <1>6

\* The user accepts the loss of exactly the named records.
LEMMA ReconcileInv ==
    ASSUME Inv, ReconcileProfiles
    PROVE  Inv'
<1> USE DEF durable, machine, devices, Inv, ReconcileProfiles
<1>1. /\ tx \in Transactions /\ tx.stage = "NeedsProfileReconciliation"
      /\ tx.profileBackup \subseteq drs \cup tx.reconciliation
  BY NoneAssumption, StageSet DEF TypeOK, RecordInv, Stage
<1>2. Advance(tx, "ProfilesRestored") = [tx EXCEPT !.stage = "ProfilesRestored"]
      /\ Advance(tx, "ProfilesRestored") \in Transactions
  BY <1>1, AdvanceTo, Transitions, StageSet
<1>3. /\ tx' \in Transactions /\ tx'.stage = "ProfilesRestored"
      /\ tx'.accepted = tx.reconciliation /\ tx'.profileBackup = tx.profileBackup
  BY <1>1, <1>2 DEF Transactions
<1>4. TypeOK'
  BY <1>3 DEF TypeOK, Commands
<1>5. CommandInv'
  BY <1>3, NoneAssumption DEF CommandInv, RemovalPcs, Stage
<1>6. RecordInv' /\ ProfilesSurvive'
  BY <1>1, <1>3, NoneAssumption DEF RecordInv, ProfilesSurvive, CanPersist, StageFieldsCoherent, Stage
<1>7. QED
  BY <1>4, <1>5, <1>6

\* The baseline is captured before it changes.
LEMMA CaptureBaselineInv ==
    ASSUME Inv, CaptureBaseline
    PROVE  Inv'
<1> USE DEF durable, machine, devices, Inv, CaptureBaseline
<1>1. /\ tx \in Transactions /\ tx.stage = "ProfilesRestored"
      /\ op' = [pc |-> "apply"] /\ StageFieldsCoherent(tx)
  BY NoneAssumption, StageSet, CommandShape DEF TypeOK, CommandInv, RecordInv, Stage, Goto
<1>2. /\ tx' \in Transactions /\ tx'.stage = "ProfilesRestored" /\ StageFieldsCoherent(tx')
      /\ tx'.profileBackup = tx.profileBackup /\ tx'.accepted = tx.accepted
      /\ Present(tx'.cs2Backup) /\ Originals(tx) \subseteq Originals(tx')
  <2>1. CASE tx.cs2Backup # None /\ UNCHANGED tx
    BY <1>1, <2>1 DEF Present
  <2>2. CASE tx.cs2Backup = None /\ tx' = [tx EXCEPT !.cs2Backup = Cs2Records] /\ CanPersist(tx')
    <3>1. Cs2Records \in SUBSET (Cs2Items \cup {Policy}) /\ Cs2Records # None
      BY NoneAssumption DEF Cs2Records, TypeOK
    <3>2. tx'.cs2Backup = Cs2Records
      BY <1>1, <2>2 DEF Transactions
    <3>3. Present(tx'.cs2Backup) /\ Originals(tx) = {}
      BY <2>2, <3>1, <3>2 DEF Present, Originals
    <3>4. QED
      BY <1>1, <2>2, <3>1, <3>3 DEF Transactions, CanPersist
  <2>3. QED BY <2>1, <2>2
<1>3. TypeOK'
  BY <1>1, <1>2 DEF TypeOK, Commands
<1>4. CommandInv'
  BY <1>1, <1>2, NoneAssumption DEF CommandInv, RemovalPcs, Stage
<1>5. RecordInv' /\ ProfilesSurvive'
  BY <1>1, <1>2, NoneAssumption DEF RecordInv, ProfilesSurvive, StageFieldsCoherent, Stage
<1>6. QED
  BY <1>3, <1>4, <1>5

\* What the policy writes over is in the recovery record.
LEMMA ApplyBaselineInv ==
    ASSUME Inv, ApplyBaseline
    PROVE  Inv'
<1> USE DEF durable, machine, devices, Inv, ApplyBaseline
<1>1. /\ Stage(tx) = "ProfilesRestored" /\ op' = [pc |-> "applied"]
      /\ Present(tx.cs2Backup)
      /\ Policy \in drs \/ Cs2Records = tx.cs2Backup
  BY CommandShape DEF TypeOK, CommandInv, At, Accepts, Goto
<1>2. drs' \subseteq Records /\ drs \subseteq drs' \cup Originals(tx)
  <2>1. CASE Policy \in drs
    BY <2>1 DEF TypeOK
  <2>2. CASE Policy \notin drs /\ Cs2Records = tx.cs2Backup
    <3>1. Originals(tx) = Cs2Records
      BY <1>1, <2>2 DEF Originals
    <3>2. Overwritten({Policy}) \subseteq Cs2Items \cup {Policy}
      BY DEF Overwritten
    <3>3. drs' = (drs \ Overwritten({Policy})) \cup {Policy}
      BY <2>2 DEF Put
    <3>4. QED
      BY <3>1, <3>2, <3>3 DEF Cs2Records, Records, TypeOK
  <2>3. QED
    BY <1>1, <2>1, <2>2
<1>3. TypeOK'
  BY <1>1, <1>2 DEF TypeOK, Commands
<1>4. CommandInv'
  BY <1>1 DEF CommandInv, RemovalPcs, Stage
<1>5. RecordInv' /\ ProfilesSurvive'
  BY <1>1, <1>2 DEF RecordInv, ProfilesSurvive, StageFieldsCoherent, Stage
<1>6. QED
  BY <1>3, <1>4, <1>5

\* The record advances once the baseline is applied.
LEMMA PersistBaselineInv ==
    ASSUME Inv, PersistBaseline
    PROVE  Inv'
<1> USE DEF durable, machine, devices, Inv, PersistBaseline
<1>1. /\ tx \in Transactions /\ tx.stage = "ProfilesRestored" /\ op' = [pc |-> "verify"]
  BY NoneAssumption, StageSet, CommandShape DEF TypeOK, CommandInv, Stage, Goto
<1>2. tx' = [tx EXCEPT !.stage = "BaselineApplied"] /\ tx' \in Transactions
  BY <1>1, AdvanceTo, Transitions, StageSet
<1>3. /\ tx'.stage = "BaselineApplied"
      /\ tx'.profileBackup = tx.profileBackup /\ tx'.accepted = tx.accepted
      /\ Originals(tx') = Originals(tx)
  BY <1>1, <1>2 DEF Transactions, Originals
<1>4. TypeOK'
  BY <1>1, <1>2 DEF TypeOK, Commands
<1>5. CommandInv'
  BY <1>1, <1>2, <1>3, NoneAssumption DEF CommandInv, RemovalPcs, Stage
<1>6. RecordInv' /\ ProfilesSurvive'
  BY <1>1, <1>2, <1>3, NoneAssumption
     DEF RecordInv, ProfilesSurvive, CanPersist, StageFieldsCoherent, Stage
<1>7. QED
  BY <1>4, <1>5, <1>6

\* The transaction is verified last.
LEMMA VerifyBaselineInv ==
    ASSUME Inv, VerifyBaseline
    PROVE  Inv'
<1> USE DEF durable, machine, devices, Inv, VerifyBaseline
<1>1. tx \in Transactions /\ tx.stage = "BaselineApplied"
  BY NoneAssumption, StageSet DEF TypeOK, CommandInv, Stage, At
<1>2. tx' = [tx EXCEPT !.stage = "Verified"] /\ tx' \in Transactions
  BY <1>1, AdvanceTo, Transitions, StageSet
<1>3. /\ tx'.stage = "Verified"
      /\ tx'.profileBackup = tx.profileBackup /\ tx'.accepted = tx.accepted
      /\ Originals(tx') = Originals(tx)
  BY <1>1, <1>2 DEF Transactions, Originals
<1>4. TypeOK'
  BY <1>2 DEF TypeOK, End, Idle, Commands
<1>5. CommandInv'
  BY DEF CommandInv, RemovalPcs, End, Idle
<1>6. RecordInv' /\ ProfilesSurvive'
  BY <1>1, <1>2, <1>3, NoneAssumption
     DEF RecordInv, ProfilesSurvive, CanPersist, StageFieldsCoherent, Stage
<1>7. QED
  BY <1>4, <1>5, <1>6

-----------------------------------------------------------------------------
(* The environment *)

\* A command that ends and leaves every file and the machine alone.
LEMMA EndInv ==
    ASSUME Inv, End, UNCHANGED <<durable, machine, safeMode, now>>
    PROVE  Inv'
<1> USE DEF durable, machine, devices, Inv
<1>1. op' \in Commands /\ op'.pc = "idle"
  BY DEF End, Idle, Commands
<1>2. TypeOK'
  BY <1>1 DEF TypeOK
<1>3. CommandInv'
  BY <1>1 DEF CommandInv, RemovalPcs
<1>4. RecordInv' /\ ProfilesSurvive'
  BY DEF RecordInv, ProfilesSurvive, StageFieldsCoherent, Stage
<1>5. QED
  BY <1>2, <1>3, <1>4

\* Reboots, time and changes of the Driver Store end or outdate commands.
LEMMA EnvironmentInv ==
    ASSUME Inv, Reboot \/ Tick \/ Drift \/ Rebind
    PROVE  Inv'
<1> USE DEF durable, machine, devices, Inv
<1>1. UNCHANGED <<tx, backupFile, archive, package, drs, op>>
  BY DEF Reboot, Tick, Drift, Rebind
<1>2. op.pc \in RemovalPcs => safeMode' = safeMode
  BY DEF Reboot, Tick, Drift, Rebind, Idle, RemovalPcs
<1>3. TypeOK'
  <2>1. now' \in 0 .. MaxNow
    BY BoundsAssumption DEF Reboot, Tick, Drift, Rebind, TypeOK
  <2>2. safeMode' \in BOOLEAN /\ inbox' \in BOOLEAN
    BY Zenon DEF Reboot, Tick, Drift, Rebind, TypeOK
  <2>3. store' \subseteq AllPackages
    BY DEF Reboot, Tick, Drift, Rebind, TypeOK, AllPackages
  <2>4. NamesOf(store) \subseteq Names
    BY DEF NamesOf, TypeOK, AllPackages
  <2>5. bound' \subseteq Names
    BY <2>4 DEF Reboot, Tick, Drift, Rebind, TypeOK
  <2>6. QED
    BY <1>1, <2>1, <2>2, <2>3, <2>5 DEF TypeOK
<1>4. CommandInv'
  BY <1>1, <1>2 DEF CommandInv, RemovalPcs, Stage, LoadProfileBackup, VerifyPreparedPackage
<1>5. RecordInv' /\ ProfilesSurvive'
  BY <1>1 DEF RecordInv, ProfilesSurvive, StageFieldsCoherent, Stage
<1>6. QED
  BY <1>3, <1>4, <1>5

\* Every step keeps the invariant.
LEMMA InvStep ==
    ASSUME Inv, [Next]_vars
    PROVE  Inv'
<1>1. CASE UNCHANGED vars
  BY <1>1 DEF vars, durable, machine, devices, Inv, TypeOK, CommandInv, RecordInv, ProfilesSurvive,
              StageFieldsCoherent, Stage, LoadProfileBackup, VerifyPreparedPackage
<1>2. ASSUME NEW a \in Artifacts, Prepare(a) PROVE Inv'
  BY <1>2, PrepareInv
<1>3. CASE Step
  BY <1>3, ArchiveInv, ClearInv, BuildInv, PersistPreparedInv, PersistBackupInv,
     FinishPreparationInv, CaptureInv, AuthorizeInv, BeginRemovalInv, RemovePackageInv,
     FinishRemovalInv, LaunchInv, PersistInstallationInv, RestoreProfilesInv,
     PersistRestoredInv, CaptureBaselineInv, ApplyBaselineInv, PersistBaselineInv,
     VerifyBaselineInv DEF Step
<1>4. CASE RemoveDriver \/ InstallDriver \/ ReconcileProfiles
  BY <1>4, RemoveDriverInv, InstallDriverInv, ReconcileInv
<1>5. CASE Refuse \/ Stop
  BY <1>5, EndInv DEF Refuse, Stop
<1>6. CASE Reboot \/ Tick \/ Drift \/ Rebind
  BY <1>6, EnvironmentInv
<1>7. QED
  BY <1>1, <1>2, <1>3, <1>4, <1>5, <1>6 DEF Next

\* The invariant holds in every reachable state.
THEOREM DriverInvariant == Spec => []Inv
<1>1. Init => Inv
  BY InvInit
<1>2. Inv /\ [Next]_vars => Inv'
  BY InvStep
<1>3. QED
  BY <1>1, <1>2, PTL DEF Spec

-----------------------------------------------------------------------------
(* The results *)

\* The record, the files, the machine and the commands keep their types, for
\* any number of names, installers, records, faults and driver changes.
THEOREM DriverTypeCorrect == Spec => []TypeOK
<1>1. Inv => TypeOK
  BY DEF Inv
<1>2. QED
  BY <1>1, DriverInvariant, PTL

\* Once the profiles count as restored, every record the user had before the
\* removal is in the driver, agreed to be lost, or overwritten by the CS2 policy
\* and in its durable recovery record.
THEOREM ProfilesAlwaysSurvive == Spec => []ProfilesSurvive
<1>1. Inv => ProfilesSurvive
  BY DEF Inv
<1>2. QED
  BY <1>1, DriverInvariant, PTL

\* What a step that takes a package out of the store relies on.
RemovalEvidence ==
    RemovePackage /\ store' # store =>
        /\ safeMode
        /\ Stage(tx) = "SafeModeHandoffArmed"
        /\ LoadProfileBackup(tx) /\ VerifyPreparedPackage(tx)
        /\ store \ store' \subseteq tx.plan

\* A package leaves the Driver Store only by a removal that has its evidence.
LEMMA RemovalStep == Inv /\ [Next]_vars => [RemovalEvidence]_vars
<1> SUFFICES ASSUME Inv, RemovePackage PROVE RemovalEvidence
  BY DEF RemovalEvidence
<1>1. op.pc = "remove" /\ store \ store' \subseteq op.left
  BY RemovePackageStep DEF RemovePackage, At
<1>2. QED
  BY <1>1 DEF RemovalEvidence, Inv, CommandInv, RemovalPcs

\* No package leaves the Driver Store but in Safe Mode, under a durable record
\* of the removal, and with the profiles and the package that undo it at hand:
\* what was checked when the command began still holds at every removal.
THEOREM RemovalsAreJustified == Spec => RemovalJustified
<1>1. QED
  BY RemovalStep, DriverInvariant, PTL DEF Spec, RemovalJustified, RemovalEvidence

\* What a step that begins a transaction relies on.
Replaced ==
    Stage(tx') = "InstallerAuthenticated" /\ tx' # tx =>
        \/ tx = None
        \/ /\ tx.stage = "Verified"
           /\ archive = [transaction |-> tx, profiles |-> tx.profileBackup]

\* Only prepare-nvidia writes a record of the first stage.
LEMMA ReplacementStep == Inv /\ [Next]_vars => [Replaced]_vars
<1> SUFFICES ASSUME Inv, Next, tx' # tx, Stage(tx') = "InstallerAuthenticated"
             PROVE  Replaced
  BY DEF Replaced
<1>1. CASE PersistPrepared
  BY <1>1 DEF PersistPrepared, Replaced, Inv, CommandInv
<1>2. CASE tx = None
  BY <1>2 DEF Replaced
<1>3. ASSUME tx # None, ~PersistPrepared PROVE FALSE
  <2>1. tx \in Transactions
    BY <1>3 DEF Inv, TypeOK
  <2>3. tx' # None /\ tx'.stage = "InstallerAuthenticated"
    BY NoneAssumption, StageSet DEF Stage
  <2>4. CASE FinishPreparation \/ CaptureExecution \/ AuthorizeRemoval
    BY <2>1, <2>3, <2>4 DEF FinishPreparation, CaptureExecution, AuthorizeRemoval,
                            Advance, Transactions
  <2>5. CASE FinishRemoval \/ PersistInstallation \/ ReconcileProfiles
    BY <2>1, <2>3, <2>5 DEF FinishRemoval, PersistInstallation, ReconcileProfiles,
                            Advance, Transactions
  <2>6. CASE PersistRestored
    BY <2>1, <2>3, <2>6 DEF PersistRestored, Advance, Transactions
  <2>7. CASE PersistBaseline \/ VerifyBaseline
    BY <2>1, <2>3, <2>7 DEF PersistBaseline, VerifyBaseline, Advance, Transactions
  <2>8. CASE CaptureBaseline
    BY <1>3, <2>1, <2>3, <2>8 DEF CaptureBaseline, Inv, CommandInv, Stage, Transactions
  <2>9. CASE Refuse \/ Stop \/ Reboot \/ Tick \/ Drift \/ Rebind
    BY <2>9 DEF Refuse, Stop, Reboot, Tick, Drift, Rebind, durable
  <2>10. CASE RemoveDriver \/ InstallDriver \/ \E a \in Artifacts : Prepare(a)
    BY <2>10 DEF RemoveDriver, InstallDriver, Prepare, durable
  <2>11. CASE \/ ArchiveVerified \/ ClearStaleOutputs \/ BuildPackage \/ PersistProfileBackup
              \/ BeginRemoval \/ RemovePackage \/ LaunchInstaller \/ RestoreProfiles
              \/ ApplyBaseline
    BY <2>11 DEF ArchiveVerified, ClearStaleOutputs, BuildPackage, PersistProfileBackup,
                 BeginRemoval, RemovePackage, LaunchInstaller, RestoreProfiles,
                 ApplyBaseline, durable
  <2>12. QED
    BY <1>3, <2>4, <2>5, <2>6, <2>7, <2>8, <2>9, <2>10, <2>11 DEF Next, Step
<1>4. QED
  BY <1>1, <1>2, <1>3

\* A transaction is replaced only once it is verified and the archive holds it
\* with the profiles it names, wherever an earlier preparation was stopped.
THEOREM ReplacementsAreArchived == Spec => ReplacementArchived
<1>1. QED
  BY ReplacementStep, DriverInvariant, PTL DEF Spec, ReplacementArchived, Replaced
=============================================================================
