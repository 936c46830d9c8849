--------------------------- MODULE RebootHandoff ---------------------------
(***************************************************************************)
(* The three-boot workflow of frametime.  `optimize` (normal boot)         *)
(* publishes a runtime and arms Safe Mode; `phase2` runs from an HKLM      *)
(* RunOnce value in Safe Mode, clears Safe Boot, removes the GPU driver    *)
(* and arms an HKCU Run value; `phase3` and `final-benchmark` run in the   *)
(* next normal boot and clear that value.  Nothing survives between the    *)
(* boots but state.json, progress.json, benchmark_history.json, the driver *)
(* evidence, the runtime selector, one BCD setting and two registry        *)
(* values, and they are written one at a time.                             *)
(*                                                                         *)
(* Every durable write is an action of its own, so a process can crash,    *)
(* and the machine can lose power, between any two of them.  A command     *)
(* first reads the session and authorizes itself WITHOUT the work lock,    *)
(* and only its transaction re-reads the session under the lock.           *)
(***************************************************************************)
EXTENDS Integers, FiniteSets

CONSTANTS
    Procs,           \* process slots: how many commands can run at once
    Users,           \* user SIDs that sign in on the machine
    NoUser, NoProc,  \* "none" values
    MaxGenerations,  \* bound: runtime generations published
    MaxFaults,       \* bound: I/O faults, crashes and power losses
    ExtraSignIns     \* TRUE: users also sign in again without a restart

ASSUME NoUserAssumption == NoUser \notin Users
ASSUME NoProcAssumption == NoProc \notin Procs
ASSUME MaxGenerationsAssumption == MaxGenerations \in Nat
ASSUME MaxFaultsAssumption == MaxFaults \in Nat
ASSUME ExtraSignInsAssumption == ExtraSignIns \in BOOLEAN

VARIABLES
    boot,       \* how Windows was started: "normal" or "safe"
    safeboot,   \* the BCD safeboot value of {current}
    runOnce,    \* HKLM RunOnce "*!FRAMETIME_Phase2": the generation it starts, 0 absent
    run,        \* HKCU Run value of each user: the generation it starts, 0 absent
    selected,   \* runtime-current.json: the selected generation, 0 absent
    state,      \* state.json, the fields of the reboot workflow
    progress,   \* progress.json, the keys of the reboot workflow
    history,    \* benchmark_history.json holds the final record
    removed,    \* the driver transaction holds coherent removal evidence
    lock,       \* holder of the work lock
    proc,       \* the running commands
    logonDue,   \* this boot's first sign-in has not happened yet
    faults,     \* faults so far
    consumed,   \* history: a process started from RunOnce has exited
    rollback    \* history: outcome of the P1:38 rollbacks so far

disk == <<safeboot, runOnce, run, selected, state, progress, history, removed>>
vars == <<boot, disk, lock, proc, logonDue, faults, consumed, rollback>>

-----------------------------------------------------------------------------
(* Data *)

\* The stages of a reboot transaction; 0 stands for "no transaction".
NoTransaction         == 0
PhaseOneSafeModeArmed == 1
PhaseTwoSafeMode      == 2
PhaseThreeArmed       == 3
PhaseThreeComplete    == 4
Stages == 0 .. 4

Generations == 1 .. MaxGenerations
GenOrNone   == 0 .. MaxGenerations

\* "P1" stands for "every Phase 1 engine step is resolved", "P3_rest" for
\* "P3:2 to P3:12 are resolved"; the others are single catalog steps.
Keys == {"P1", "P1_38", "P2_1", "P2_2", "P2_2_skipped", "P2_3",
         "P3_1", "P3_1_skipped", "P3_rest", "P3_13"}
PhaseTwoLaterKeys == {"P2_2", "P2_2_skipped", "P2_3"}
LaterPhaseKeys    == Keys \ {"P1", "P1_38"}

States == [ready   : BOOLEAN,              \* phase1_safe_mode_ready
           stage   : Stages,               \* active_reboot_transaction.stage
           runtime : GenOrNone,            \* ... .runtime
           sid     : Users \cup {NoUser},  \* ... .initiator_user_sid
           final   : BOOLEAN]              \* final_benchmark receipt present

EmptyState == [ready |-> FALSE, stage |-> NoTransaction, runtime |-> 0,
               sid |-> NoUser, final |-> FALSE]

Commands == {"optimize", "boot_safe_mode", "phase2", "phase2_rest",
             "phase3_handoff", "phase3", "final_benchmark", "reset_progress"}

PackageCommands == {"optimize", "reset_progress"}

ArmPcs   == {"arm_runonce", "arm_safeboot", "arm_state"}
UndoPcs  == {"undo_safeboot", "undo_runonce"}
LockPcs  == ArmPcs \cup UndoPcs \cup
            {"arm_progress", "clear_safeboot", "clear_state", "clear_progress",
             "removing", "arm3_run", "arm3_state", "arm3_progress",
             "fb_history", "fb_state", "fb_progress"}
FreePcs  == {"auth", "p1", "publish", "launch", "arm", "clear", "remove",
             "arm3", "relaunch", "route", "install", "p3rest", "route_again",
             "fb", "authclear", "clear_run", "reset", "exit"}
Pcs == {"idle"} \cup LockPcs \cup FreePcs

Processes == [pc : Pcs, cmd : Commands \cup {"none"},
              user : Users \cup {NoUser},
              rt : GenOrNone,        \* the generation of the process image
              st : States,           \* the session as last read
              pr : SUBSET Keys,
              wrote : BOOLEAN,       \* P1:38 wrote the RunOnce value
              setsb : BOOLEAN,       \* P1:38 set Safe Boot
              once : BOOLEAN]        \* started by Windows from RunOnce

IdleProcess == [pc |-> "idle", cmd |-> "none", user |-> NoUser, rt |-> 0,
                st |-> EmptyState, pr |-> {}, wrote |-> FALSE,
                setsb |-> FALSE, once |-> FALSE]

-----------------------------------------------------------------------------
(* The guards of the domain crate, over a session s, p already read *)

FinalEvidence(s, p) == \/ s.final \/ s.stage = PhaseThreeComplete
                       \/ "P3_13" \in p \/ history

FinalCoherent(s, p) == /\ s.final /\ s.stage = PhaseThreeComplete
                       /\ {"P3_1", "P3_rest", "P3_13"} \subseteq p
                       /\ history

CompletedPhaseTwo(s, p, u) == /\ run[u] # 0 /\ s.sid = u
                              /\ {"P2_1", "P2_2", "P2_3"} \subseteq p

AuthorizeOptimize(s, p) ==
    /\ boot = "normal"
    /\ safeboot = "absent" /\ runOnce = 0
    /\ selected = 0               \* the package image is never the selected one
    /\ ~s.ready /\ s.stage = NoTransaction
    /\ p \cap LaterPhaseKeys = {}

AuthorizeSafeModeArm(s, p, g) ==
    /\ boot = "normal" /\ "P1" \in p /\ g = selected
    /\ s.stage = NoTransaction

\* Wrong variant: wants Safe Boot cleared before P2:1 as well as after it.
AuthorizePhaseTwoAlwaysCleared(s, p, g) ==
    /\ boot = "safe" /\ g = selected
    /\ s.ready /\ runOnce # 0 /\ "P1_38" \in p /\ safeboot = "absent"
    /\ IF "P2_1" \in p
       THEN s.stage = PhaseTwoSafeMode
       ELSE p \cap PhaseTwoLaterKeys = {} /\ s.stage = PhaseOneSafeModeArmed

AuthorizePhaseTwo(s, p, g) ==
    /\ boot = "safe" /\ g = selected
    /\ s.ready /\ runOnce # 0 /\ "P1_38" \in p
    /\ IF "P2_1" \in p
       THEN s.stage = PhaseTwoSafeMode /\ safeboot = "absent"
       ELSE /\ p \cap PhaseTwoLaterKeys = {}
            /\ s.stage = PhaseOneSafeModeArmed /\ safeboot # "absent"

AuthorizePhaseThree(s, p, u, g) ==
    /\ boot = "normal" /\ g = selected
    /\ s.stage = PhaseThreeArmed
    /\ CompletedPhaseTwo(s, p, u)

\* Wrong variant: refuses a transaction that is already complete.
AuthorizeFinalBenchmarkOnce(s, p, u, g) == AuthorizePhaseThree(s, p, u, g)

AuthorizeFinalBenchmark(s, p, u, g) ==
    /\ boot = "normal" /\ g = selected
    /\ s.stage \in {PhaseThreeArmed, PhaseThreeComplete}
    /\ CompletedPhaseTwo(s, p, u)

AuthorizeHandoffClear(s, p, u) ==
    /\ s.stage = PhaseThreeComplete
    /\ run[u] # 0 /\ s.sid = u
    /\ {"P3_1", "P3_13"} \subseteq p

RequireCleanRebootState(s, u) ==
    /\ boot = "normal" /\ safeboot = "absent"
    /\ runOnce = 0 /\ run[u] = 0
    /\ ~s.ready /\ s.stage = NoTransaction

Authorized(c, s, p, u, g) ==
    CASE c = "optimize"        -> AuthorizeOptimize(s, p) /\ run[u] = 0
      [] c = "boot_safe_mode"  -> AuthorizeSafeModeArm(s, p, g)
      [] c = "phase2"          -> AuthorizePhaseTwo(s, p, g)
      [] c = "phase2_rest"     -> AuthorizePhaseTwo(s, p, g) /\ "P2_1" \in p
      [] c \in {"phase3_handoff", "phase3"} -> AuthorizePhaseThree(s, p, u, g)
      [] c = "final_benchmark" -> AuthorizeFinalBenchmark(s, p, u, g)
      [] c = "reset_progress"  -> RequireCleanRebootState(s, u)

-----------------------------------------------------------------------------
(* What each step of a command checks.  A step at a pc not listed is        *)
(* unconditional.                                                           *)

LockFree == lock = NoProc

\* Open handles on runtime-current.json keep it from being replaced.
RetainsSelector(q) == /\ proc[q].pc \notin {"idle", "launch"}
                      /\ proc[q].rt # 0 /\ proc[q].rt = selected

MayPublish(p) == /\ "P1" \in progress
                 /\ \A q \in Procs : ~RetainsSelector(q)

\* Wrong variant: adopts whatever transaction it finds.
MayArmAnyTransaction(p) == LockFree /\ state.stage <= PhaseOneSafeModeArmed

\* P1:38 starts a transaction or adopts its own from an earlier attempt.
MayArm(p) == /\ LockFree
             /\ \/ state.stage = NoTransaction
                \/ /\ state.stage = PhaseOneSafeModeArmed
                   /\ state.runtime = proc[p].rt /\ state.sid = proc[p].user

MayClear(p) == /\ LockFree
               /\ state.stage = PhaseOneSafeModeArmed
               /\ state.runtime = proc[p].rt /\ runOnce = proc[p].rt

\* Wrong variant: does not compare the user who signed in to Safe Mode with
\* the one who armed it.
MayArmThreeForAnyone(p) == /\ LockFree
                           /\ "P2_2" \in progress /\ removed
                           /\ state.stage = PhaseTwoSafeMode
                           /\ state.runtime = proc[p].rt

MayArmThree(p) == /\ LockFree
                  /\ "P2_2" \in progress /\ removed
                  /\ state.stage = PhaseTwoSafeMode
                  /\ state.runtime = proc[p].rt /\ state.sid = proc[p].user

MayRelaunch(p) == /\ LockFree
                  /\ state.stage = PhaseThreeArmed
                  /\ state.runtime = proc[p].rt /\ state.sid = proc[p].user
                  /\ "P2_3" \in progress /\ run[proc[p].user] = proc[p].rt

MayRecordFinal(p) ==
    /\ LockFree
    /\ IF "P3_13" \in progress
       THEN FinalCoherent(state, progress)
       ELSE /\ {"P3_1", "P3_rest"} \subseteq progress
            /\ \/ state.stage = PhaseThreeArmed /\ ~state.final
               \/ state.stage = PhaseThreeComplete /\ state.final

MayClearRun(p) == /\ LockFree
                  /\ FinalCoherent(state, progress)
                  /\ state.runtime = proc[p].rt /\ state.sid = proc[p].user
                  /\ run[proc[p].user] = proc[p].rt

EngineIdle(p, keys) == keys \cap proc[p].pr # {} \/ LockFree

Permitted(p) ==
    LET P == proc[p] IN
    CASE P.pc = "auth"        -> Authorized(P.cmd, P.st, P.pr, P.user, P.rt)
      [] P.pc = "p1"          -> EngineIdle(p, {"P1"})
      [] P.pc = "publish"     -> MayPublish(p)
      [] P.pc = "launch"      -> P.rt = selected
      [] P.pc = "arm"         -> MayArm(p)
      [] P.pc = "arm_runonce" -> runOnce \in {0, P.rt}
      [] P.pc = "clear"       -> MayClear(p)
      [] P.pc = "remove"      -> EngineIdle(p, {"P2_2", "P2_2_skipped"})
      [] P.pc = "arm3"        -> MayArmThree(p)
      [] P.pc = "arm3_run"    -> run[P.user] \in {0, P.rt}
      [] P.pc = "relaunch"    -> MayRelaunch(p)
      [] P.pc = "route"       -> /\ LockFree
                                 /\ FinalEvidence(state, progress)
                                      => FinalCoherent(state, progress)
      [] P.pc = "install"     -> EngineIdle(p, {"P3_1", "P3_1_skipped"})
      [] P.pc = "p3rest"      -> EngineIdle(p, {"P3_rest"})
      [] P.pc = "route_again" -> LockFree /\ FinalCoherent(state, progress)
      [] P.pc = "fb"          -> MayRecordFinal(p)
      [] P.pc = "authclear"   -> AuthorizeHandoffClear(P.st, P.pr, P.user)
      [] P.pc = "clear_run"   -> MayClearRun(p)
      [] P.pc = "reset"       -> LockFree
      [] OTHER                -> TRUE

-----------------------------------------------------------------------------
(* Steps of a running command *)

At(p, q) == proc[p].pc = q /\ Permitted(p)

Goto(p, q) == proc' = [proc EXCEPT ![p].pc = q]

\* A session re-read: the snapshot becomes what is on disk now.
GotoReloaded(p, q) ==
    proc' = [proc EXCEPT ![p].pc = q, ![p].st = state, ![p].pr = progress]

\* A write whose readback fails has happened, and the command fails all the same.
GotoOrFault(p, q, failure) ==
    \/ Goto(p, q) /\ UNCHANGED faults
    \/ faults < MaxFaults /\ faults' = faults + 1 /\ Goto(p, failure)

\* Wrong variant: the rollback forgets Safe Boot.
FailurePcLeavesSafeBoot(p) ==
    IF proc[p].pc \in ArmPcs THEN "undo_runonce" ELSE "exit"

\* Where a failing step leads: P1:38 rolls back until state.json is written.
FailurePc(p) == IF proc[p].pc \in ArmPcs THEN "undo_safeboot" ELSE "exit"

quiet == <<boot, logonDue, consumed, rollback>>

Start(p, c, u) ==
    /\ proc[p].pc = "idle"
    /\ c \in PackageCommands \/ selected # 0
    /\ proc' = [proc EXCEPT ![p] =
          [IdleProcess EXCEPT !.pc = IF c = "phase3" THEN "route" ELSE "auth",
                              !.cmd = c, !.user = u,
                              !.rt = IF c \in PackageCommands THEN 0 ELSE selected,
                              !.st = state, !.pr = progress]]
    /\ UNCHANGED <<quiet, disk, lock, faults>>

FirstPc == [optimize |-> "p1", boot_safe_mode |-> "arm", phase2 |-> "remove",
            phase2_rest |-> "remove", phase3_handoff |-> "relaunch",
            phase3 |-> "install", final_benchmark |-> "fb",
            reset_progress |-> "reset"]

\* Wrong variant: phase2 starts with the driver, before Safe Boot is cleared.
AfterAuthorizeRemovalFirst(p) == FirstPc[proc[p].cmd]

\* phase2 clears Safe Boot first, unless an earlier launch of it has.
AfterAuthorize(p) ==
    IF proc[p].cmd = "phase2" /\ "P2_1" \notin proc[p].pr
    THEN "clear" ELSE FirstPc[proc[p].cmd]

Authorize(p) ==
    /\ At(p, "auth")
    /\ Goto(p, AfterAuthorize(p))
    /\ UNCHANGED <<quiet, disk, lock, faults>>

\* An engine run persists its own in-memory progress, whatever is on disk.
PersistEngineProgress(p, key, q) ==
    /\ progress' = IF key \in proc[p].pr THEN progress ELSE proc[p].pr \cup {key}
    /\ proc' = [proc EXCEPT ![p].pc = q, ![p].pr = @ \cup {key}]
    /\ UNCHANGED <<quiet, faults, safeboot, runOnce, run, selected, state, history>>

PhaseOneWork(p) ==
    /\ At(p, "p1")
    /\ PersistEngineProgress(p, "P1", "publish")
    /\ UNCHANGED <<lock, removed>>

PublishRuntime(p) ==
    /\ At(p, "publish")
    /\ selected < MaxGenerations
    /\ selected' = selected + 1
    /\ proc' = [proc EXCEPT ![p].pc = "launch", ![p].rt = selected']
    /\ UNCHANGED <<quiet, lock, faults, safeboot, runOnce, run, state, progress,
                   history, removed>>

\* The user declines P1:38, or the machine has no NVIDIA GPU.
DeclineArming(p) ==
    /\ At(p, "publish")
    /\ Goto(p, "exit")
    /\ UNCHANGED <<quiet, disk, lock, faults>>

\* The elevated child runs `boot-safe-mode --yes`; its parent only waits.
LaunchArming(p) ==
    /\ At(p, "launch")
    /\ \E u \in Users :
          proc' = [proc EXCEPT ![p] =
             [@ EXCEPT !.pc = "auth", !.cmd = "boot_safe_mode", !.user = u,
                       !.st = state, !.pr = progress]]
    /\ UNCHANGED <<quiet, disk, lock, faults>>

(* P1:38, arm_safe_mode_handoff *)

ArmBegin(p) ==
    /\ At(p, "arm")
    /\ lock' = p
    /\ proc' = [proc EXCEPT ![p] =
          [@ EXCEPT !.pc = "arm_runonce",
                    !.st = [state EXCEPT !.ready = TRUE,
                                         !.stage = PhaseOneSafeModeArmed,
                                         !.runtime = proc[p].rt,
                                         !.sid = proc[p].user],
                    !.pr = progress,
                    !.wrote = (runOnce = 0),
                    !.setsb = (safeboot = "absent")]]
    /\ UNCHANGED <<quiet, disk, faults>>

ArmRunOnce(p) ==
    /\ At(p, "arm_runonce")
    /\ runOnce' = proc[p].rt
    /\ GotoOrFault(p, "arm_safeboot", "undo_safeboot")
    /\ UNCHANGED <<quiet, lock, safeboot, run, selected, state, progress,
                   history, removed>>

ArmSafeBoot(p) ==
    /\ At(p, "arm_safeboot")
    /\ safeboot' = "minimal"
    /\ GotoOrFault(p, "arm_state", "undo_safeboot")
    /\ UNCHANGED <<quiet, lock, runOnce, run, selected, state, progress,
                   history, removed>>

ArmState(p) ==
    /\ At(p, "arm_state")
    /\ state' = proc[p].st
    /\ GotoOrFault(p, "arm_progress", "undo_safeboot")
    /\ UNCHANGED <<quiet, lock, safeboot, runOnce, run, selected, progress,
                   history, removed>>

ArmProgress(p) ==
    /\ At(p, "arm_progress")
    /\ progress' = proc[p].pr \cup {"P1_38"}
    /\ Goto(p, "exit")
    /\ UNCHANGED <<quiet, lock, faults, safeboot, runOnce, run, selected, state,
                   history, removed>>

\* roll_back_partial_arming: undo Safe Boot, then RunOnce, each only if this
\* call wrote it.  A failure to clear Safe Boot does not stop the second undo.
UndoSafeBoot(p) ==
    /\ At(p, "undo_safeboot")
    /\ Goto(p, "undo_runonce")
    /\ \/ /\ safeboot' = IF proc[p].setsb THEN "absent" ELSE safeboot
          /\ UNCHANGED <<faults, rollback>>
       \/ /\ proc[p].setsb
          /\ faults < MaxFaults /\ faults' = faults + 1
          /\ rollback' = "incomplete"
          /\ UNCHANGED safeboot
    /\ UNCHANGED <<boot, logonDue, consumed, lock, runOnce, run, selected, state,
                   progress, history, removed>>

UndoRunOnce(p) ==
    /\ At(p, "undo_runonce")
    /\ Goto(p, "exit")
    /\ \/ /\ runOnce' = IF proc[p].wrote /\ runOnce = proc[p].rt THEN 0 ELSE runOnce
          /\ rollback' = IF \/ rollback = "incomplete"
                            \/ proc[p].wrote /\ runOnce \notin {0, proc[p].rt}
                         THEN "incomplete"
                         ELSE "complete"
          /\ UNCHANGED faults
       \/ /\ proc[p].wrote
          /\ faults < MaxFaults /\ faults' = faults + 1
          /\ rollback' = "incomplete"
          /\ UNCHANGED runOnce
    /\ UNCHANGED <<boot, logonDue, consumed, lock, safeboot, run, selected, state,
                   progress, history, removed>>

(* P2:1, complete_phase_two_safe_boot_clear *)

ClearBegin(p) ==
    /\ At(p, "clear")
    /\ lock' = p
    /\ proc' = [proc EXCEPT ![p] =
          [@ EXCEPT !.pc = "clear_safeboot",
                    !.st = [state EXCEPT !.stage = PhaseTwoSafeMode],
                    !.pr = progress]]
    /\ UNCHANGED <<quiet, disk, faults>>

\* Wrong variant: records P2:1 without advancing the transaction.
ClearSafeBootOnly(p) ==
    /\ At(p, "clear_safeboot")
    /\ safeboot' = "absent"
    /\ GotoOrFault(p, "clear_progress", "exit")
    /\ UNCHANGED <<quiet, lock, runOnce, run, selected, state, progress,
                   history, removed>>

ClearSafeBoot(p) ==
    /\ At(p, "clear_safeboot")
    /\ safeboot' = "absent"
    /\ GotoOrFault(p, "clear_state", "exit")
    /\ UNCHANGED <<quiet, lock, runOnce, run, selected, state, progress,
                   history, removed>>

ClearState(p) ==
    /\ At(p, "clear_state")
    /\ state' = proc[p].st
    /\ GotoOrFault(p, "clear_progress", "exit")
    /\ UNCHANGED <<quiet, lock, safeboot, runOnce, run, selected, progress,
                   history, removed>>

\* The rest of Phase 2 must run in this process: it is authorized afresh.
ClearProgress(p) ==
    /\ At(p, "clear_progress")
    /\ progress' = proc[p].pr \cup {"P2_1"}
    /\ lock' = NoProc
    /\ proc' = [proc EXCEPT ![p] = [@ EXCEPT !.pc = "auth", !.cmd = "phase2_rest",
                                            !.st = state, !.pr = progress']]
    /\ UNCHANGED <<quiet, faults, safeboot, runOnce, run, selected, state,
                   history, removed>>

(* P2:2, run by the engine: removal evidence first, progress last.  Whether
   it succeeds is not decided here (see Engine.tla): it may also fail, which
   is IoFault, or be declined. *)

RemoveDriver(p) ==
    /\ At(p, "remove")
    /\ {"P2_2", "P2_2_skipped"} \cap proc[p].pr = {}
    /\ lock' = p
    /\ removed' = TRUE
    /\ Goto(p, "removing")
    /\ UNCHANGED <<quiet, faults, safeboot, runOnce, run, selected, state,
                   progress, history>>

PersistRemoval(p) ==
    /\ At(p, "removing")
    /\ PersistEngineProgress(p, "P2_2", "arm3")
    /\ lock' = NoProc
    /\ UNCHANGED removed

DeclineRemoval(p) ==
    /\ At(p, "remove")
    /\ {"P2_2", "P2_2_skipped"} \cap proc[p].pr = {}
    /\ PersistEngineProgress(p, "P2_2_skipped", "arm3")
    /\ UNCHANGED <<lock, removed>>

RemovalRecorded(p) ==
    /\ At(p, "remove")
    /\ {"P2_2", "P2_2_skipped"} \cap proc[p].pr # {}
    /\ Goto(p, "arm3")
    /\ UNCHANGED <<quiet, disk, lock, faults>>

(* P2:3, arm_phase_three_handoff *)

\* Wrong variant: Phase 3 is armed before its Run value exists.
ArmThreeBeginStateFirst(p) ==
    /\ At(p, "arm3")
    /\ lock' = p
    /\ proc' = [proc EXCEPT ![p] =
          [@ EXCEPT !.pc = "arm3_state",
                    !.st = [state EXCEPT !.stage = PhaseThreeArmed],
                    !.pr = progress]]
    /\ UNCHANGED <<quiet, disk, faults>>

ArmThreeBegin(p) ==
    /\ At(p, "arm3")
    /\ lock' = p
    /\ proc' = [proc EXCEPT ![p] =
          [@ EXCEPT !.pc = "arm3_run",
                    !.st = [state EXCEPT !.stage = PhaseThreeArmed],
                    !.pr = progress]]
    /\ UNCHANGED <<quiet, disk, faults>>

ArmThreeRun(p) ==
    /\ At(p, "arm3_run")
    /\ run' = [run EXCEPT ![proc[p].user] = proc[p].rt]
    /\ GotoOrFault(p, "arm3_state", "exit")
    /\ UNCHANGED <<quiet, lock, safeboot, runOnce, selected, state, progress,
                   history, removed>>

ArmThreeState(p) ==
    /\ At(p, "arm3_state")
    /\ state' = proc[p].st
    /\ GotoOrFault(p, "arm3_progress", "exit")
    /\ UNCHANGED <<quiet, lock, safeboot, runOnce, run, selected, progress,
                   history, removed>>

ArmThreeProgress(p) ==
    /\ At(p, "arm3_progress")
    /\ progress' = proc[p].pr \cup {"P2_3"}
    /\ Goto(p, "exit")
    /\ UNCHANGED <<quiet, lock, faults, safeboot, runOnce, run, selected, state,
                   history, removed>>

(* Phase 3 *)

\* phase3-handoff elevates the selected executable as `phase3`; the elevated
\* process may run as another user.
RelaunchPhaseThree(p) ==
    /\ At(p, "relaunch")
    /\ \E u \in Users :
          proc' = [proc EXCEPT ![p] =
             [@ EXCEPT !.pc = "route", !.cmd = "phase3", !.user = u,
                       !.st = state, !.pr = progress]]
    /\ UNCHANGED <<quiet, disk, lock, faults>>

RoutePhaseThree(p) ==
    /\ At(p, "route")
    /\ Goto(p, IF FinalEvidence(state, progress) THEN "authclear" ELSE "auth")
    /\ UNCHANGED <<quiet, disk, lock, faults>>

InstallDriver(p) ==
    /\ At(p, "install")
    /\ IF {"P3_1", "P3_1_skipped"} \cap proc[p].pr # {}
       THEN Goto(p, "p3rest") /\ UNCHANGED <<quiet, disk, faults>>
       ELSE /\ \E key \in {"P3_1", "P3_1_skipped"} :
                  PersistEngineProgress(p, key, "p3rest")
            /\ UNCHANGED removed
    /\ UNCHANGED lock

PhaseThreeWork(p) ==
    /\ At(p, "p3rest")
    /\ PersistEngineProgress(p, "P3_rest", "route_again")
    /\ UNCHANGED <<lock, removed>>

\* Without a coherent receipt the command ends here (Refuse).
RouteAgain(p) ==
    /\ At(p, "route_again")
    /\ GotoReloaded(p, "authclear")
    /\ UNCHANGED <<quiet, disk, lock, faults>>

(* P3:13, persist_final_benchmark: history, state, progress, in this order *)

FinalBegin(p) ==
    /\ At(p, "fb")
    /\ IF "P3_13" \in progress
       THEN GotoReloaded(p, "authclear") /\ UNCHANGED lock
       ELSE /\ lock' = p
            /\ proc' = [proc EXCEPT ![p] =
                  [@ EXCEPT !.pc = "fb_history",
                            !.st = [state EXCEPT !.stage = PhaseThreeComplete,
                                                 !.final = TRUE],
                            !.pr = progress]]
    /\ UNCHANGED <<quiet, disk, faults>>

FinalHistory(p) ==
    /\ At(p, "fb_history")
    /\ history' = TRUE
    /\ GotoOrFault(p, "fb_state", "exit")
    /\ UNCHANGED <<quiet, lock, safeboot, runOnce, run, selected, state, progress,
                   removed>>

FinalState(p) ==
    /\ At(p, "fb_state")
    /\ state' = proc[p].st
    /\ GotoOrFault(p, "fb_progress", "exit")
    /\ UNCHANGED <<quiet, lock, safeboot, runOnce, run, selected, progress,
                   history, removed>>

FinalProgress(p) ==
    /\ At(p, "fb_progress")
    /\ progress' = proc[p].pr \cup {"P3_13"}
    /\ lock' = NoProc
    /\ proc' = [proc EXCEPT ![p] = [@ EXCEPT !.pc = "authclear",
                                            !.st = state, !.pr = progress']]
    /\ UNCHANGED <<quiet, faults, safeboot, runOnce, run, selected, state,
                   history, removed>>

AuthorizeClear(p) ==
    /\ At(p, "authclear")
    /\ Goto(p, "clear_run")
    /\ UNCHANGED <<quiet, disk, lock, faults>>

\* Wrong variant: blanks the value and leaves it in the registry.
ClearRunBlanked(p) ==
    /\ At(p, "clear_run")
    /\ run' = [run EXCEPT ![proc[p].user] = -1]
    /\ Goto(p, "exit")
    /\ UNCHANGED <<quiet, lock, faults, safeboot, runOnce, selected, state,
                   progress, history, removed>>

ClearRun(p) ==
    /\ At(p, "clear_run")
    /\ run' = [run EXCEPT ![proc[p].user] = 0]
    /\ Goto(p, "exit")
    /\ UNCHANGED <<quiet, lock, faults, safeboot, runOnce, selected, state,
                   progress, history, removed>>

(* reset-progress: the clean-state check was made before the lock is taken *)

ResetProgress(p) ==
    /\ At(p, "reset")
    /\ progress' = {}
    /\ Goto(p, "exit")
    /\ UNCHANGED <<quiet, lock, faults, safeboot, runOnce, run, selected, state,
                   history, removed>>

(* Failing and ending *)

\* A step fails without effect: a write, a tool or a driver operation.
IoFault(p) ==
    /\ proc[p].pc \notin {"idle", "exit"} \cup UndoPcs
    /\ faults < MaxFaults /\ faults' = faults + 1
    /\ Goto(p, FailurePc(p))
    /\ UNCHANGED <<quiet, disk, lock>>

\* The process ends: its lock file is deleted on close, and Windows deletes a
\* "!" RunOnce value once the process started from it has exited.
End(p) ==
    /\ proc' = [proc EXCEPT ![p] = IdleProcess]
    /\ lock' = IF lock = p THEN NoProc ELSE lock
    /\ runOnce' = IF proc[p].once THEN 0 ELSE runOnce
    /\ consumed' = (consumed \/ proc[p].once)
    /\ UNCHANGED <<boot, logonDue, rollback, safeboot, run, selected, state,
                   progress, history, removed>>

\* A check fails: P1:38 rolls back, every other command reports and exits.
Refuse(p) ==
    /\ proc[p].pc \notin {"idle", "exit"} /\ ~Permitted(p)
    /\ UNCHANGED faults
    /\ \/ /\ proc[p].pc \in ArmPcs
          /\ Goto(p, FailurePc(p)) /\ UNCHANGED <<quiet, disk, lock>>
       \/ proc[p].pc \notin ArmPcs /\ End(p)

Exit(p) == proc[p].pc = "exit" /\ End(p) /\ UNCHANGED faults

Crash(p) ==
    /\ proc[p].pc \notin {"idle", "exit"}
    /\ faults < MaxFaults /\ faults' = faults + 1
    /\ End(p)

-----------------------------------------------------------------------------
(* Windows *)

AllIdle == \A p \in Procs : proc[p].pc = "idle"

\* A restart, or a power loss while commands run.  BCD decides the boot mode.
Reboot ==
    /\ IF AllIdle THEN UNCHANGED faults
       ELSE faults < MaxFaults /\ faults' = faults + 1
    /\ boot' = IF safeboot = "absent" THEN "normal" ELSE "safe"
    /\ logonDue' = TRUE
    /\ proc' = [p \in Procs |-> IdleProcess]
    /\ lock' = NoProc
    /\ UNCHANGED <<disk, consumed, rollback>>

Launched(c, u, g, once) ==
    [IdleProcess EXCEPT !.pc = "auth", !.cmd = c, !.user = u, !.rt = g,
                        !.st = state, !.pr = progress, !.once = once]

\* Sign-in of an administrator: RunOnce starts `phase2 --yes`, in either mode.
SignInPhaseTwo(p, u) ==
    /\ proc[p].pc = "idle"
    /\ logonDue \/ ExtraSignIns
    /\ runOnce # 0
    /\ \A q \in Procs : ~proc[q].once
    /\ proc' = [proc EXCEPT ![p] = Launched("phase2", u, runOnce, TRUE)]
    /\ logonDue' = FALSE
    /\ UNCHANGED <<boot, consumed, rollback, disk, lock, faults>>

\* Sign-in of a user: the Run value of that user starts `phase3-handoff`.
SignInPhaseThree(p, u) ==
    /\ proc[p].pc = "idle"
    /\ run[u] # 0
    /\ proc' = [proc EXCEPT ![p] = Launched("phase3_handoff", u, run[u], FALSE)]
    /\ UNCHANGED <<quiet, disk, lock, faults>>

-----------------------------------------------------------------------------
Init ==
    /\ boot = "normal" /\ safeboot = "absent"
    /\ runOnce = 0 /\ run = [u \in Users |-> 0] /\ selected = 0
    /\ state = EmptyState /\ progress = {} /\ history = FALSE /\ removed = FALSE
    /\ lock = NoProc /\ proc = [p \in Procs |-> IdleProcess]
    /\ logonDue = FALSE /\ faults = 0 /\ consumed = FALSE /\ rollback = "none"

Step(p) ==
    \/ Authorize(p) \/ PhaseOneWork(p) \/ PublishRuntime(p) \/ DeclineArming(p)
    \/ LaunchArming(p) \/ ArmBegin(p) \/ ArmRunOnce(p) \/ ArmSafeBoot(p)
    \/ ArmState(p) \/ ArmProgress(p) \/ UndoSafeBoot(p) \/ UndoRunOnce(p)
    \/ ClearBegin(p) \/ ClearSafeBoot(p) \/ ClearState(p) \/ ClearProgress(p)
    \/ RemoveDriver(p) \/ PersistRemoval(p) \/ DeclineRemoval(p)
    \/ RemovalRecorded(p)
    \/ ArmThreeBegin(p) \/ ArmThreeRun(p) \/ ArmThreeState(p) \/ ArmThreeProgress(p)
    \/ RelaunchPhaseThree(p) \/ RoutePhaseThree(p) \/ InstallDriver(p)
    \/ PhaseThreeWork(p) \/ RouteAgain(p)
    \/ FinalBegin(p) \/ FinalHistory(p) \/ FinalState(p) \/ FinalProgress(p)
    \/ AuthorizeClear(p) \/ ClearRun(p) \/ ResetProgress(p)
    \/ Refuse(p) \/ Exit(p)

Disturb(p) == IoFault(p) \/ Crash(p)

SignIn == \E p \in Procs, u \in Users : SignInPhaseTwo(p, u) \/ SignInPhaseThree(p, u)

Next ==
    \/ \E p \in Procs : Step(p) \/ Disturb(p)
    \/ \E p \in Procs, u \in Users, c \in Commands \ {"phase2_rest"} : Start(p, c, u)
    \/ SignIn
    \/ Reboot

Spec == Init /\ [][Next]_vars

-----------------------------------------------------------------------------
(* Correctness *)

\* Every variable stays in its range: type invariant of the module.
TypeOK ==
    /\ boot \in {"normal", "safe"} /\ safeboot \in {"absent", "minimal"}
    /\ runOnce \in GenOrNone /\ run \in [Users -> GenOrNone]
    /\ selected \in GenOrNone
    /\ state \in States /\ progress \in SUBSET Keys
    /\ history \in BOOLEAN /\ removed \in BOOLEAN
    /\ lock \in Procs \cup {NoProc} /\ proc \in [Procs -> Processes]
    /\ logonDue \in BOOLEAN /\ faults \in 0 .. MaxFaults
    /\ consumed \in BOOLEAN /\ rollback \in {"none", "complete", "incomplete"}

\* The machine is never left set to start in Safe Mode with nothing to start
\* there, whatever write, crash or power loss interrupted P1:38 or its
\* rollback, unless Windows has used the value up or the rollback reported
\* itself incomplete (arm_safe_mode_handoff, roll_back_partial_arming).
SafeBootHasLauncher ==
    safeboot = "minimal" => runOnce # 0 \/ consumed \/ rollback = "incomplete"

\* Once the display driver is gone the next restart is a normal one, and the
\* transaction has left Phase 1: P2:2 is reached only behind P2:1, in every
\* interleaving of commands and boots.
RemovalNeverTrapsInSafeMode ==
    removed => safeboot = "absent" /\ state.stage >= PhaseTwoSafeMode

\* What the other files hold when a key of the workflow is recorded.
Grounded(keys) ==
    /\ "P1_38" \in keys => state.ready /\ state.stage >= PhaseOneSafeModeArmed
    /\ "P2_1"  \in keys => state.stage >= PhaseTwoSafeMode
    /\ "P2_2"  \in keys => removed
    /\ "P2_3"  \in keys => state.stage >= PhaseThreeArmed
    /\ "P3_13" \in keys => state.stage = PhaseThreeComplete /\ state.final /\ history

\* progress.json never runs ahead of state.json: the key of a handoff step is
\* written after the stage it stands for, and neither a crash prefix nor a
\* stale engine snapshot brings back a key whose stage was not reached.
ProgressNeverAhead == Grounded(progress)

\* A Phase 3 Run value exists only for the user who started the transaction
\* and only for the runtime that transaction is bound to.
SameUserHandoff ==
    \A u \in Users : run[u] # 0 => /\ u = state.sid /\ run[u] = state.runtime
                                   /\ state.stage >= PhaseTwoSafeMode

\* The Run value outlives everything but a complete final benchmark: once
\* Phase 3 is armed it is missing only when history and state both hold the
\* receipt.
HandoffRetained ==
    state.stage >= PhaseThreeArmed /\ run[state.sid] = 0
      => state.stage = PhaseThreeComplete /\ state.final /\ history

-----------------------------------------------------------------------------
(* What the workflow promises, as a specification of its own *)

Lifecycle == INSTANCE HandoffLifecycle WITH
    stage   <- state.stage,
    owner   <- state.sid,
    runtime <- state.runtime,
    removed <- removed,
    handoff <- (state.sid # NoUser /\ run[state.sid] # 0),
    receipt <- state.final

\* The files and registry values of the workflow implement the lifecycle of
\* one transaction: bound once, advanced stage by stage, never rebound.
LifecycleSpec == Lifecycle!Spec

-----------------------------------------------------------------------------
(* Liveness.  Commands run to their end, Windows starts what its Run and    *)
(* RunOnce values name when somebody signs in, and the user keeps retrying  *)
(* final-benchmark.  Faults are finitely many.                              *)

Fairness ==
    /\ \A p \in Procs : WF_vars(Step(p))
    /\ SF_vars(\E p \in Procs, u \in Users : SignInPhaseTwo(p, u))
    /\ \A u \in Users :
          SF_vars(\E p \in Procs : Start(p, "final_benchmark", u))

FairSpec == Spec /\ Fairness

\* A machine that starts in Safe Mode with P1:38 recorded gets its Safe Boot
\* setting cleared, unless something fails on the way.
SafeModeIsLeft ==
    \A k \in 0 .. MaxFaults :
       (/\ AllIdle /\ boot = "safe" /\ runOnce # 0 /\ logonDue /\ faults = k
        /\ state.stage = PhaseOneSafeModeArmed /\ "P1_38" \in progress)
       ~> (safeboot = "absent" \/ faults > k)

\* Retrying final-benchmark after any crash of it ends with the receipt
\* complete in all three files and the Run value gone.
FinalRetryConverges ==
    ({"P3_1", "P3_rest"} \subseteq progress)
    ~> (FinalCoherent(state, progress) /\ \A u \in Users : run[u] = 0)

=============================================================================
