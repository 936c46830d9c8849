------------------------ MODULE RebootHandoffProofs ------------------------
(***************************************************************************)
(* The reboot workflow for any number of processes, users, runtime         *)
(* generations and faults.  Two things carry the argument.  A transaction  *)
(* re-reads the session under the work lock and state.json is written only *)
(* there, so what a transaction has read stays true until it writes.  And  *)
(* the stage never goes back, so a key that was grounded when some process *)
(* read it is grounded when that process writes it again.                  *)
(***************************************************************************)
EXTENDS RebootHandoff, TLAPS

-----------------------------------------------------------------------------
(* The inductive invariant *)

\* Program counters at which a command acts for a runtime generation.
RuntimePcs == Pcs \ {"idle", "auth", "p1", "publish", "reset", "exit"}

\* A running command has a name and a user, and a generation if it needs one;
\* removal starts only from a session in which P2:1 is recorded.
CommandInv ==
    \A p \in Procs :
       /\ proc[p].pc # "idle" => proc[p].cmd \in Commands /\ proc[p].user \in Users
       /\ proc[p].pc = "auth" => proc[p].cmd \in PackageCommands \/ proc[p].rt # 0
       /\ proc[p].pc \in RuntimePcs => proc[p].rt # 0
       /\ proc[p].pc = "remove" => "P2_1" \in proc[p].pr

\* A transaction runs alone.
LockInv == \A p \in Procs : proc[p].pc \in LockPcs => lock = p

\* What state.json says about the machine, by stage.
StageInv ==
    /\ state.stage = NoTransaction => state.sid = NoUser /\ state.runtime = 0
    /\ state.stage # NoTransaction => /\ state.sid \in Users /\ state.runtime # 0
                                      /\ state.ready
    /\ state.final <=> state.stage = PhaseThreeComplete
    /\ state.stage = PhaseThreeComplete => history
    /\ state.stage >= PhaseTwoSafeMode => safeboot = "absent"

\* The session a command has read is still grounded.
SnapshotInv == \A p \in Procs : Grounded(proc[p].pr)

\* P1:38 up to its write of state.json.
ArmingAt(p) ==
    /\ proc[p].pc \in ArmPcs \cup UndoPcs =>
          /\ state.stage <= PhaseOneSafeModeArmed
          /\ proc[p].wrote /\ ~proc[p].setsb => consumed \/ rollback = "incomplete"
    /\ proc[p].pc \in ArmPcs =>
          /\ proc[p].st = [state EXCEPT !.ready = TRUE, !.stage = PhaseOneSafeModeArmed,
                                        !.runtime = proc[p].rt, !.sid = proc[p].user]
          /\ state.stage # NoTransaction =>
                state.runtime = proc[p].rt /\ state.sid = proc[p].user
    /\ proc[p].pc \in {"arm_safeboot", "arm_state"} => runOnce # 0 \/ consumed
    /\ proc[p].pc = "arm_progress" => state.stage = PhaseOneSafeModeArmed
    /\ proc[p].pc = "undo_runonce" /\ proc[p].setsb =>
          safeboot = "absent" \/ rollback = "incomplete"

ArmingInv == \A p \in Procs : ArmingAt(p)

\* P2:1, P2:2 and P2:3.
PhaseTwoAt(p) ==
    /\ proc[p].pc \in {"clear_safeboot", "clear_state"} =>
          /\ state.stage = PhaseOneSafeModeArmed
          /\ proc[p].st = [state EXCEPT !.stage = PhaseTwoSafeMode]
    /\ proc[p].pc = "clear_state" => safeboot = "absent"
    /\ proc[p].pc = "clear_progress" => state.stage = PhaseTwoSafeMode
    /\ proc[p].pc = "removing" => removed
    /\ proc[p].pc \in {"arm3_run", "arm3_state"} =>
          /\ state.stage = PhaseTwoSafeMode /\ removed
          /\ state.runtime = proc[p].rt /\ state.sid = proc[p].user
          /\ proc[p].st = [state EXCEPT !.stage = PhaseThreeArmed]
    /\ proc[p].pc = "arm3_state" => run[proc[p].user] = proc[p].rt
    /\ proc[p].pc = "arm3_progress" => state.stage = PhaseThreeArmed

PhaseTwoInv == \A p \in Procs : PhaseTwoAt(p)

\* P3:13.
FinalAt(p) ==
    /\ proc[p].pc \in {"fb_history", "fb_state"} =>
          /\ state.stage \in {PhaseThreeArmed, PhaseThreeComplete}
          /\ proc[p].st = [state EXCEPT !.stage = PhaseThreeComplete, !.final = TRUE]
    /\ proc[p].pc = "fb_state" => history
    /\ proc[p].pc = "fb_progress" => state.stage = PhaseThreeComplete

FinalInv == \A p \in Procs : FinalAt(p)

Inv == /\ TypeOK /\ CommandInv /\ LockInv
       /\ StageInv /\ SnapshotInv /\ ProgressNeverAhead
       /\ ArmingInv /\ PhaseTwoInv /\ FinalInv
       /\ SafeBootHasLauncher /\ RemovalNeverTrapsInSafeMode
       /\ SameUserHandoff /\ HandoffRetained

-----------------------------------------------------------------------------
(* How a process moves *)

\* A step that only moves p leaves every other field of every process.
LEMMA GotoFrame ==
    ASSUME TypeOK, NEW p \in Procs, NEW q, Goto(p, q)
    PROVE  \A x \in Procs :
              /\ proc'[x].pc = IF x = p THEN q ELSE proc[x].pc
              /\ proc'[x].cmd = proc[x].cmd /\ proc'[x].user = proc[x].user
              /\ proc'[x].rt = proc[x].rt /\ proc'[x].st = proc[x].st
              /\ proc'[x].pr = proc[x].pr /\ proc'[x].wrote = proc[x].wrote
              /\ proc'[x].setsb = proc[x].setsb /\ proc'[x].once = proc[x].once
  BY DEF Goto, TypeOK, Processes

\* So does a write that may fail its readback; p ends at one of two places.
LEMMA GotoOrFaultFrame ==
    ASSUME TypeOK, NEW p \in Procs, NEW q, NEW r, GotoOrFault(p, q, r)
    PROVE  /\ proc'[p].pc \in {q, r}
           /\ \A x \in Procs :
              /\ x # p => proc'[x].pc = proc[x].pc
              /\ proc'[x].cmd = proc[x].cmd /\ proc'[x].user = proc[x].user
              /\ proc'[x].rt = proc[x].rt /\ proc'[x].st = proc[x].st
              /\ proc'[x].pr = proc[x].pr /\ proc'[x].wrote = proc[x].wrote
              /\ proc'[x].setsb = proc[x].setsb /\ proc'[x].once = proc[x].once
  BY GotoFrame DEF GotoOrFault

\* The end of a process frees its lock and uses up its RunOnce value.
LEMMA EndFrame ==
    ASSUME TypeOK, NEW p \in Procs, End(p)
    PROVE  /\ proc'[p] = IdleProcess
           /\ \A x \in Procs : x # p => proc'[x] = proc[x]
           /\ lock' = IF lock = p THEN NoProc ELSE lock
           /\ runOnce' = IF proc[p].once THEN 0 ELSE runOnce
           /\ consumed' = (consumed \/ proc[p].once)
           /\ UNCHANGED <<boot, logonDue, rollback, safeboot, run, selected, state,
                          progress, history, removed>>
  BY DEF End, TypeOK

\* An engine step that persists its progress adds one key to what p has
\* read.
LEMMA EngineFrame ==
    ASSUME TypeOK, NEW p \in Procs, NEW key, NEW q, PersistEngineProgress(p, key, q)
    PROVE  /\ proc'[p].pc = q /\ proc'[p].cmd = proc[p].cmd
           /\ proc'[p].user = proc[p].user /\ proc'[p].rt = proc[p].rt
           /\ proc'[p].pr = proc[p].pr \cup {key}
           /\ \A x \in Procs : x # p => proc'[x] = proc[x]
           /\ progress' \in {progress, proc[p].pr \cup {key}}
           /\ UNCHANGED <<quiet, faults, safeboot, runOnce, run, selected, state, history>>
  BY DEF PersistEngineProgress, TypeOK, Processes

\* What a step that is not refused has checked.
LEMMA Permission ==
    ASSUME NEW p \in Procs, Permitted(p)
    PROVE  /\ proc[p].pc = "auth" =>
                 Authorized(proc[p].cmd, proc[p].st, proc[p].pr, proc[p].user, proc[p].rt)
           /\ proc[p].pc = "p1" => EngineIdle(p, {"P1"})
           /\ proc[p].pc = "arm" => MayArm(p)
           /\ proc[p].pc = "clear" => MayClear(p)
           /\ proc[p].pc = "remove" => EngineIdle(p, {"P2_2", "P2_2_skipped"})
           /\ proc[p].pc = "arm3" => MayArmThree(p)
           /\ proc[p].pc = "install" => EngineIdle(p, {"P3_1", "P3_1_skipped"})
           /\ proc[p].pc = "p3rest" => EngineIdle(p, {"P3_rest"})
           /\ proc[p].pc = "fb" => MayRecordFinal(p)
           /\ proc[p].pc = "clear_run" => MayClearRun(p)
           /\ proc[p].pc = "reset" => LockFree
  BY DEF Permitted

\* Where an authorized command starts; only phase2 behind P2:1 starts with
\* the driver.
LEMMA AuthorizeTarget ==
    ASSUME NEW p \in Procs, proc[p].cmd \in Commands
    PROVE  /\ AfterAuthorize(p) \in {"p1", "arm", "remove", "clear", "relaunch", "install",
                                     "fb", "reset"}
           /\ AfterAuthorize(p) \notin {"p1", "reset"} => proc[p].cmd \notin PackageCommands
           /\ AfterAuthorize(p) = "remove" =>
                 \/ proc[p].cmd = "phase2_rest"
                 \/ proc[p].cmd = "phase2" /\ "P2_1" \in proc[p].pr
  BY DEF AfterAuthorize, FirstPc, Commands, PackageCommands

\* P3:1 is found recorded, or is recorded while nobody holds the lock.
LEMMA InstallCases ==
    ASSUME TypeOK, NEW p \in Procs, InstallDriver(p)
    PROVE  \/ Goto(p, "p3rest") /\ UNCHANGED <<quiet, disk, faults, lock>>
           \/ /\ LockFree /\ UNCHANGED <<removed, lock>>
              /\ \E key \in {"P3_1", "P3_1_skipped"} : PersistEngineProgress(p, key, "p3rest")
  BY Permission DEF InstallDriver, At, EngineIdle

\* P3:13 is found recorded, or its transaction starts with a session read
\* under the lock.
LEMMA FinalBeginCases ==
    ASSUME TypeOK, NEW p \in Procs, FinalBegin(p)
    PROVE  /\ UNCHANGED <<quiet, disk, faults>> /\ proc[p].pc = "fb"
           /\ \A x \in Procs : x # p => proc'[x] = proc[x]
           /\ proc'[p].cmd = proc[p].cmd /\ proc'[p].user = proc[p].user
           /\ proc'[p].rt = proc[p].rt /\ proc'[p].pr = progress
           /\ \/ proc'[p].pc = "authclear" /\ UNCHANGED lock
              \/ /\ LockFree /\ lock' = p /\ proc'[p].pc = "fb_history"
                 /\ state.stage \in {PhaseThreeArmed, PhaseThreeComplete}
                 /\ proc'[p].st = [state EXCEPT !.stage = PhaseThreeComplete, !.final = TRUE]
<1>1. MayRecordFinal(p)
  BY Permission DEF FinalBegin, At
<1>2. CASE "P3_13" \in progress
  BY <1>2 DEF FinalBegin, GotoReloaded, TypeOK, Processes, At
<1>3. CASE "P3_13" \notin progress
  <2>1. LockFree /\ state.stage \in {PhaseThreeArmed, PhaseThreeComplete}
    BY <1>1, <1>3 DEF MayRecordFinal
  <2>2. /\ lock' = p /\ proc[p].pc = "fb" /\ UNCHANGED <<quiet, disk, faults>>
        /\ proc' = [proc EXCEPT ![p] =
              [@ EXCEPT !.pc = "fb_history",
                        !.st = [state EXCEPT !.stage = PhaseThreeComplete, !.final = TRUE],
                        !.pr = progress]]
    BY <1>3 DEF FinalBegin, At
  <2>3. proc \in [Procs -> Processes]
    BY DEF TypeOK
  <2>4. QED BY <2>1, <2>2, <2>3 DEF Processes
<1>4. QED BY <1>2, <1>3

-----------------------------------------------------------------------------
(* Control: commands, users, generations and the lock *)

\* A command keeps its name, user and generation, and no second
\* transaction starts while one holds the lock.
LEMMA ControlStep ==
    ASSUME TypeOK, CommandInv, LockInv, [Next]_vars
    PROVE  CommandInv' /\ LockInv'
<1> USE NoProcAssumption, NoUserAssumption
     DEF At, disk, quiet, CommandInv, LockInv, RuntimePcs, Pcs, LockPcs, FreePcs, ArmPcs,
     UndoPcs, PackageCommands
<1>1. ASSUME NEW p \in Procs, Authorize(p) PROVE CommandInv' /\ LockInv'
  <2>1. proc[p].cmd \in Commands /\ (proc[p].cmd \in PackageCommands \/ proc[p].rt # 0)
    BY <1>1 DEF Authorize
  <2>2. proc[p].cmd = "phase2_rest" => "P2_1" \in proc[p].pr
    BY <1>1, Permission DEF Authorize, Authorized
  <2>3. QED BY <1>1, <2>1, <2>2, GotoFrame, AuthorizeTarget DEF Authorize
<1>2. ASSUME NEW p \in Procs, PhaseOneWork(p) PROVE CommandInv' /\ LockInv'
  BY <1>2, EngineFrame, Permission DEF PhaseOneWork, LockFree, EngineIdle
<1>3. ASSUME NEW p \in Procs, PublishRuntime(p) PROVE CommandInv' /\ LockInv'
  BY <1>3, MaxGenerationsAssumption DEF PublishRuntime, TypeOK, Processes, GenOrNone
<1>4. ASSUME NEW p \in Procs, DeclineArming(p) PROVE CommandInv' /\ LockInv'
  BY <1>4, GotoFrame, Permission DEF DeclineArming, LockFree, EngineIdle
<1>5. ASSUME NEW p \in Procs, LaunchArming(p) PROVE CommandInv' /\ LockInv'
  BY <1>5 DEF LaunchArming, TypeOK, Processes, Commands
<1>6. ASSUME NEW p \in Procs, ArmBegin(p) PROVE CommandInv' /\ LockInv'
  BY <1>6, Permission DEF ArmBegin, TypeOK, Processes, MayArm, LockFree
<1>7. ASSUME NEW p \in Procs, ArmRunOnce(p) PROVE CommandInv' /\ LockInv'
  BY <1>7, GotoOrFaultFrame DEF ArmRunOnce
<1>8. ASSUME NEW p \in Procs, ArmSafeBoot(p) PROVE CommandInv' /\ LockInv'
  BY <1>8, GotoOrFaultFrame DEF ArmSafeBoot
<1>9. ASSUME NEW p \in Procs, ArmState(p) PROVE CommandInv' /\ LockInv'
  BY <1>9, GotoOrFaultFrame DEF ArmState
<1>10. ASSUME NEW p \in Procs, ArmProgress(p) PROVE CommandInv' /\ LockInv'
  BY <1>10, GotoFrame, Permission DEF ArmProgress, LockFree, EngineIdle
<1>11. ASSUME NEW p \in Procs, UndoSafeBoot(p) PROVE CommandInv' /\ LockInv'
  BY <1>11, GotoFrame, Permission DEF UndoSafeBoot, LockFree, EngineIdle
<1>12. ASSUME NEW p \in Procs, UndoRunOnce(p) PROVE CommandInv' /\ LockInv'
  BY <1>12, GotoFrame, Permission DEF UndoRunOnce, LockFree, EngineIdle
<1>13. ASSUME NEW p \in Procs, ClearBegin(p) PROVE CommandInv' /\ LockInv'
  BY <1>13, Permission DEF ClearBegin, TypeOK, Processes, MayClear, LockFree
<1>14. ASSUME NEW p \in Procs, ClearSafeBoot(p) PROVE CommandInv' /\ LockInv'
  BY <1>14, GotoOrFaultFrame DEF ClearSafeBoot
<1>15. ASSUME NEW p \in Procs, ClearState(p) PROVE CommandInv' /\ LockInv'
  BY <1>15, GotoOrFaultFrame DEF ClearState
<1>16. ASSUME NEW p \in Procs, ClearProgress(p) PROVE CommandInv' /\ LockInv'
  BY <1>16 DEF ClearProgress, TypeOK, Processes, Commands
<1>17. ASSUME NEW p \in Procs, RemoveDriver(p) PROVE CommandInv' /\ LockInv'
  BY <1>17, GotoFrame, Permission DEF RemoveDriver, LockFree, EngineIdle
<1>18. ASSUME NEW p \in Procs, PersistRemoval(p) PROVE CommandInv' /\ LockInv'
  BY <1>18, EngineFrame, Permission DEF PersistRemoval, LockFree, EngineIdle
<1>19. ASSUME NEW p \in Procs, DeclineRemoval(p) PROVE CommandInv' /\ LockInv'
  BY <1>19, EngineFrame, Permission DEF DeclineRemoval, LockFree, EngineIdle
<1>20. ASSUME NEW p \in Procs, RemovalRecorded(p) PROVE CommandInv' /\ LockInv'
  BY <1>20, GotoFrame, Permission DEF RemovalRecorded, LockFree, EngineIdle
<1>21. ASSUME NEW p \in Procs, ArmThreeBegin(p) PROVE CommandInv' /\ LockInv'
  BY <1>21, Permission DEF ArmThreeBegin, TypeOK, Processes, MayArmThree, LockFree
<1>22. ASSUME NEW p \in Procs, ArmThreeRun(p) PROVE CommandInv' /\ LockInv'
  BY <1>22, GotoOrFaultFrame DEF ArmThreeRun
<1>23. ASSUME NEW p \in Procs, ArmThreeState(p) PROVE CommandInv' /\ LockInv'
  BY <1>23, GotoOrFaultFrame DEF ArmThreeState
<1>24. ASSUME NEW p \in Procs, ArmThreeProgress(p) PROVE CommandInv' /\ LockInv'
  BY <1>24, GotoFrame, Permission DEF ArmThreeProgress, LockFree, EngineIdle
<1>25. ASSUME NEW p \in Procs, RelaunchPhaseThree(p) PROVE CommandInv' /\ LockInv'
  BY <1>25 DEF RelaunchPhaseThree, TypeOK, Processes, Commands
<1>26. ASSUME NEW p \in Procs, RoutePhaseThree(p) PROVE CommandInv' /\ LockInv'
  BY <1>26, GotoFrame, Permission DEF RoutePhaseThree, LockFree, EngineIdle
<1>27. ASSUME NEW p \in Procs, InstallDriver(p) PROVE CommandInv' /\ LockInv'
  <2>1. CASE Goto(p, "p3rest") /\ UNCHANGED <<quiet, disk, faults, lock>>
    BY <1>27, <2>1, GotoFrame DEF InstallDriver
  <2>2. ASSUME NEW key, PersistEngineProgress(p, key, "p3rest"), UNCHANGED lock
        PROVE  CommandInv' /\ LockInv'
    BY <1>27, <2>2, EngineFrame DEF InstallDriver
  <2>3. QED BY <1>27, <2>1, <2>2, InstallCases
<1>28. ASSUME NEW p \in Procs, PhaseThreeWork(p) PROVE CommandInv' /\ LockInv'
  BY <1>28, EngineFrame, Permission DEF PhaseThreeWork, LockFree, EngineIdle
<1>29. ASSUME NEW p \in Procs, RouteAgain(p) PROVE CommandInv' /\ LockInv'
  BY <1>29 DEF RouteAgain, TypeOK, Processes, GotoReloaded
<1>30. ASSUME NEW p \in Procs, FinalBegin(p) PROVE CommandInv' /\ LockInv'
  BY <1>30, FinalBeginCases DEF LockFree
<1>31. ASSUME NEW p \in Procs, FinalHistory(p) PROVE CommandInv' /\ LockInv'
  BY <1>31, GotoOrFaultFrame DEF FinalHistory
<1>32. ASSUME NEW p \in Procs, FinalState(p) PROVE CommandInv' /\ LockInv'
  BY <1>32, GotoOrFaultFrame DEF FinalState
<1>33. ASSUME NEW p \in Procs, FinalProgress(p) PROVE CommandInv' /\ LockInv'
  BY <1>33, Permission DEF FinalProgress, TypeOK, Processes, LockFree, EngineIdle
<1>34. ASSUME NEW p \in Procs, AuthorizeClear(p) PROVE CommandInv' /\ LockInv'
  BY <1>34, GotoFrame, Permission DEF AuthorizeClear, LockFree, EngineIdle
<1>35. ASSUME NEW p \in Procs, ClearRun(p) PROVE CommandInv' /\ LockInv'
  BY <1>35, GotoFrame, Permission DEF ClearRun, LockFree, EngineIdle
<1>36. ASSUME NEW p \in Procs, ResetProgress(p) PROVE CommandInv' /\ LockInv'
  BY <1>36, GotoFrame, Permission DEF ResetProgress, LockFree, EngineIdle
<1>37. ASSUME NEW p \in Procs, Refuse(p) PROVE CommandInv' /\ LockInv'
  <2>1. CASE proc[p].pc \in ArmPcs
    BY <1>37, <2>1, GotoFrame DEF Refuse, FailurePc
  <2>2. CASE proc[p].pc \notin ArmPcs
    BY <1>37, <2>2, EndFrame DEF Refuse, IdleProcess
  <2>3. QED BY <2>1, <2>2
<1>38. ASSUME NEW p \in Procs, Exit(p) PROVE CommandInv' /\ LockInv'
  BY <1>38, EndFrame DEF Exit, IdleProcess
<1>39. ASSUME NEW p \in Procs, IoFault(p) PROVE CommandInv' /\ LockInv'
  BY <1>39, GotoFrame DEF IoFault, FailurePc
<1>40. ASSUME NEW p \in Procs, Crash(p) PROVE CommandInv' /\ LockInv'
  BY <1>40, EndFrame DEF Crash, IdleProcess
<1>41. ASSUME NEW p \in Procs, NEW u \in Users, SignInPhaseTwo(p, u)
      PROVE CommandInv' /\ LockInv'
  BY <1>41 DEF SignInPhaseTwo, Launched, IdleProcess, TypeOK, Processes, Commands
<1>42. ASSUME NEW p \in Procs, NEW u \in Users, SignInPhaseThree(p, u)
      PROVE CommandInv' /\ LockInv'
  BY <1>42 DEF SignInPhaseThree, Launched, IdleProcess, TypeOK, Processes, Commands
<1>43. ASSUME NEW p \in Procs, NEW u \in Users, NEW c \in Commands, Start(p, c, u)
      PROVE  CommandInv' /\ LockInv'
  BY <1>43 DEF Start, IdleProcess, TypeOK, Processes
<1>44. ASSUME Reboot PROVE CommandInv' /\ LockInv'
  BY <1>44 DEF Reboot, IdleProcess
<1>45. CASE UNCHANGED vars
  BY <1>45 DEF vars
<1>46. QED
  BY <1>1, <1>2, <1>3, <1>4, <1>5, <1>6, <1>7, <1>8, <1>9, <1>10, <1>11, <1>12,
     <1>13, <1>14, <1>15, <1>16, <1>17, <1>18, <1>19, <1>20, <1>21, <1>22, <1>23,
     <1>24, <1>25, <1>26, <1>27, <1>28, <1>29, <1>30, <1>31, <1>32, <1>33, <1>34,
     <1>35, <1>36, <1>37, <1>38, <1>39, <1>40, <1>41, <1>42, <1>43, <1>44, <1>45
     DEF Next, Step, Disturb, SignIn

-----------------------------------------------------------------------------
(* Type correctness *)

\* A process that does not run and a missing state.json are typed.
LEMMA IdleType == IdleProcess \in Processes /\ EmptyState \in States
  BY MaxGenerationsAssumption
     DEF IdleProcess, Processes, Pcs, EmptyState, States, Stages, GenOrNone, NoTransaction

\* Moving a process keeps it typed.
LEMMA GotoType ==
    ASSUME TypeOK, NEW p \in Procs, NEW q \in Pcs, Goto(p, q)
    PROVE  proc' \in [Procs -> Processes]
  BY DEF Goto, TypeOK, Processes

\* So does a write that may fail its readback.
LEMMA GotoOrFaultType ==
    ASSUME TypeOK, NEW p \in Procs, NEW q \in Pcs, NEW r \in Pcs, GotoOrFault(p, q, r)
    PROVE  proc' \in [Procs -> Processes] /\ faults' \in 0 .. MaxFaults
<1>1. faults' \in 0 .. MaxFaults
  BY MaxFaultsAssumption DEF GotoOrFault, TypeOK
<1>2. QED BY <1>1, GotoType DEF GotoOrFault

\* 0 stands for an absent generation.
LEMMA ZeroType == 0 \in GenOrNone
  BY MaxGenerationsAssumption DEF GenOrNone

\* What a command has read is typed, and so is what its transaction will write.
LEMMA SessionType ==
    ASSUME TypeOK, NEW p \in Procs
    PROVE  /\ proc[p] \in Processes /\ proc[p].st \in States /\ proc[p].rt \in GenOrNone
           /\ proc[p].user \in Users \cup {NoUser} /\ proc[p].pr \in SUBSET Keys
           /\ state \in States /\ progress \in SUBSET Keys
  BY DEF TypeOK, Processes

\* What a transaction will write is a state.json.
LEMMA TargetType ==
    ASSUME TypeOK, NEW p \in Procs, NEW stage \in Stages
    PROVE  /\ [state EXCEPT !.stage = stage] \in States
           /\ [state EXCEPT !.stage = stage, !.final = TRUE] \in States
           /\ [state EXCEPT !.ready = TRUE, !.stage = stage, !.runtime = proc[p].rt,
                            !.sid = proc[p].user] \in States
  BY SessionType DEF TypeOK, States

\* The named stages are stages.
LEMMA StageType == {PhaseOneSafeModeArmed, PhaseTwoSafeMode, PhaseThreeArmed,
                    PhaseThreeComplete} \subseteq Stages
  BY DEF Stages, PhaseOneSafeModeArmed, PhaseTwoSafeMode, PhaseThreeArmed,
     PhaseThreeComplete

\* A process that has read a session and moved on is typed.
LEMMA LoadType ==
    ASSUME NEW P \in Processes, NEW q \in Pcs, NEW s \in States, NEW k \in SUBSET Keys
    PROVE  [P EXCEPT !.pc = q, !.st = s, !.pr = k] \in Processes
  BY DEF Processes

\* The same for P1:38, which also notes what it is about to write.
LEMMA LoadArmingType ==
    ASSUME NEW P \in Processes, NEW q \in Pcs, NEW s \in States, NEW k \in SUBSET Keys,
           NEW w \in BOOLEAN, NEW b \in BOOLEAN
    PROVE  [P EXCEPT !.pc = q, !.st = s, !.pr = k, !.wrote = w, !.setsb = b] \in Processes
  BY DEF Processes

\* The same for a process that goes on under another command or user.
LEMMA LoadCommandType ==
    ASSUME NEW P \in Processes, NEW q \in Pcs, NEW s \in States, NEW k \in SUBSET Keys,
           NEW c \in Commands
    PROVE  /\ [P EXCEPT !.pc = q, !.cmd = c, !.st = s, !.pr = k] \in Processes
           /\ \A u \in Users :
                 [P EXCEPT !.pc = q, !.cmd = c, !.user = u, !.st = s, !.pr = k] \in Processes
  BY DEF Processes

\* An engine step keeps its process and progress.json typed.
LEMMA EngineType ==
    ASSUME TypeOK, NEW p \in Procs, NEW key \in Keys, NEW q \in Pcs,
           PersistEngineProgress(p, key, q)
    PROVE  proc' \in [Procs -> Processes] /\ progress' \in SUBSET Keys
<1>1. proc[p].pr \cup {key} \in SUBSET Keys /\ progress \in SUBSET Keys
  BY SessionType
<1>2. proc' = [proc EXCEPT ![p] = [proc[p] EXCEPT !.pc = q, !.pr = proc[p].pr \cup {key}]]
  BY SessionType DEF PersistEngineProgress, TypeOK
<1>3. [proc[p] EXCEPT !.pc = q, !.pr = proc[p].pr \cup {key}] \in Processes
  BY <1>1, SessionType DEF Processes
<1>4. proc' \in [Procs -> Processes]
  BY <1>2, <1>3 DEF TypeOK
<1>5. QED BY <1>1, <1>4 DEF PersistEngineProgress

\* Every action keeps every variable in its range.
LEMMA TypeStep ==
    ASSUME TypeOK, CommandInv, [Next]_vars
    PROVE  TypeOK'
<1> USE NoProcAssumption, NoUserAssumption DEF At, disk, quiet
<1>1. ASSUME NEW p \in Procs, Authorize(p) PROVE TypeOK'
  <2>1. AfterAuthorize(p) \in Pcs
    BY <1>1, AuthorizeTarget DEF Authorize, CommandInv, Pcs, LockPcs, FreePcs, ArmPcs
  <2>2. QED BY <1>1, <2>1, GotoType DEF Authorize, TypeOK
<1>2. ASSUME NEW p \in Procs, PhaseOneWork(p) PROVE TypeOK'
  <2>1. "P1" \in Keys /\ "publish" \in Pcs
    BY DEF Keys, Pcs, FreePcs
  <2>2. lock' \in Procs \cup {NoProc} /\ removed' \in BOOLEAN
    BY <1>2 DEF PhaseOneWork, TypeOK
  <2>3. QED BY <1>2, <2>1, <2>2, EngineType, EngineFrame DEF PhaseOneWork, TypeOK
<1>3. ASSUME NEW p \in Procs, PublishRuntime(p) PROVE TypeOK'
  <2>1. selected' \in GenOrNone
    BY <1>3, MaxGenerationsAssumption DEF PublishRuntime, TypeOK, GenOrNone
  <2>2. "launch" \in Pcs
    BY DEF Pcs, FreePcs
  <2>3. [proc[p] EXCEPT !.pc = "launch", !.rt = selected'] \in Processes
    BY <2>1, <2>2, SessionType DEF Processes
  <2>4. proc' = [proc EXCEPT ![p] = [@ EXCEPT !.pc = "launch", !.rt = selected']]
    BY <1>3 DEF PublishRuntime
  <2>5. proc' \in [Procs -> Processes]
    BY <2>3, <2>4 DEF TypeOK
  <2>6. QED BY <1>3, <2>1, <2>5 DEF PublishRuntime, TypeOK
<1>4. ASSUME NEW p \in Procs, DeclineArming(p) PROVE TypeOK'
  <2>1. {"exit"} \subseteq Pcs
    BY DEF Pcs, LockPcs, FreePcs, ArmPcs, UndoPcs
  <2>2. QED BY <1>4, <2>1, GotoType DEF DeclineArming, TypeOK
<1>5. ASSUME NEW p \in Procs, LaunchArming(p) PROVE TypeOK'
  <2>1. PICK u \in Users :
           proc' = [proc EXCEPT ![p] = [@ EXCEPT !.pc = "auth", !.cmd = "boot_safe_mode",
                !.user = u,
                                                 !.st = state, !.pr = progress]]
    BY <1>5 DEF LaunchArming
  <2>2. "auth" \in Pcs /\ "boot_safe_mode" \in Commands
    BY DEF Pcs, FreePcs, Commands
  <2>3. proc' \in [Procs -> Processes]
    BY <2>1, <2>2, SessionType, LoadCommandType DEF TypeOK
  <2>4. QED BY <1>5, <2>3 DEF LaunchArming, TypeOK
<1>6. ASSUME NEW p \in Procs, ArmBegin(p) PROVE TypeOK'
  <2>1. "arm_runonce" \in Pcs
    BY DEF Pcs, LockPcs, FreePcs, ArmPcs, UndoPcs
  <2>2. proc' \in [Procs -> Processes]
    BY <1>6, <2>1, SessionType, TargetType, StageType, LoadArmingType, ZenonT(60)
       DEF ArmBegin, TypeOK
  <2>3. QED BY <1>6, <2>2 DEF ArmBegin, TypeOK
<1>7. ASSUME NEW p \in Procs, ArmRunOnce(p) PROVE TypeOK'
  <2>1. {"arm_safeboot", "undo_safeboot"} \subseteq Pcs
    BY DEF Pcs, LockPcs, FreePcs, ArmPcs, UndoPcs
  <2>2. runOnce' \in GenOrNone
    BY <1>7, SessionType DEF ArmRunOnce, TypeOK
  <2>3. QED BY <1>7, <2>1, <2>2, GotoOrFaultType DEF ArmRunOnce, TypeOK
<1>8. ASSUME NEW p \in Procs, ArmSafeBoot(p) PROVE TypeOK'
  <2>1. {"arm_state", "undo_safeboot"} \subseteq Pcs
    BY DEF Pcs, LockPcs, FreePcs, ArmPcs, UndoPcs
  <2>2. QED BY <1>8, <2>1, GotoOrFaultType DEF ArmSafeBoot, TypeOK
<1>9. ASSUME NEW p \in Procs, ArmState(p) PROVE TypeOK'
  <2>1. {"arm_progress", "undo_safeboot"} \subseteq Pcs
    BY DEF Pcs, LockPcs, FreePcs, ArmPcs, UndoPcs
  <2>2. state' \in States
    BY <1>9, SessionType DEF ArmState, TypeOK
  <2>3. QED BY <1>9, <2>1, <2>2, GotoOrFaultType DEF ArmState, TypeOK
<1>10. ASSUME NEW p \in Procs, ArmProgress(p) PROVE TypeOK'
  <2>1. {"exit"} \subseteq Pcs
    BY DEF Pcs, LockPcs, FreePcs, ArmPcs, UndoPcs
  <2>2. progress' \in SUBSET Keys
    BY <1>10, SessionType DEF ArmProgress, TypeOK, Keys
  <2>3. QED BY <1>10, <2>1, <2>2, GotoType DEF ArmProgress, TypeOK
<1>11. ASSUME NEW p \in Procs, UndoSafeBoot(p) PROVE TypeOK'
  <2>1. {"undo_runonce"} \subseteq Pcs
    BY DEF Pcs, LockPcs, FreePcs, ArmPcs, UndoPcs
  <2>2. faults' \in 0 .. MaxFaults
    BY <1>11, MaxFaultsAssumption DEF UndoSafeBoot, TypeOK
  <2>3. QED BY <1>11, <2>1, <2>2, GotoType DEF UndoSafeBoot, TypeOK
<1>12. ASSUME NEW p \in Procs, UndoRunOnce(p) PROVE TypeOK'
  <2>1. {"exit"} \subseteq Pcs
    BY DEF Pcs, LockPcs, FreePcs, ArmPcs, UndoPcs
  <2>2. faults' \in 0 .. MaxFaults /\ runOnce' \in GenOrNone
    BY <1>12, MaxFaultsAssumption, ZeroType DEF UndoRunOnce, TypeOK
  <2>3. QED BY <1>12, <2>1, <2>2, GotoType DEF UndoRunOnce, TypeOK
<1>13. ASSUME NEW p \in Procs, ClearBegin(p) PROVE TypeOK'
  <2>1. "clear_safeboot" \in Pcs
    BY DEF Pcs, LockPcs, FreePcs, ArmPcs, UndoPcs
  <2>2. proc' \in [Procs -> Processes]
    BY <1>13, <2>1, SessionType, TargetType, StageType, LoadType DEF ClearBegin, TypeOK
  <2>3. QED BY <1>13, <2>2 DEF ClearBegin, TypeOK
<1>14. ASSUME NEW p \in Procs, ClearSafeBoot(p) PROVE TypeOK'
  <2>1. {"clear_state", "exit"} \subseteq Pcs
    BY DEF Pcs, LockPcs, FreePcs, ArmPcs, UndoPcs
  <2>2. QED BY <1>14, <2>1, GotoOrFaultType DEF ClearSafeBoot, TypeOK
<1>15. ASSUME NEW p \in Procs, ClearState(p) PROVE TypeOK'
  <2>1. {"clear_progress", "exit"} \subseteq Pcs
    BY DEF Pcs, LockPcs, FreePcs, ArmPcs, UndoPcs
  <2>2. state' \in States
    BY <1>15, SessionType DEF ClearState, TypeOK
  <2>3. QED BY <1>15, <2>1, <2>2, GotoOrFaultType DEF ClearState, TypeOK
<1>16. ASSUME NEW p \in Procs, ClearProgress(p) PROVE TypeOK'
  <2>1. progress' \in SUBSET Keys
    BY <1>16, SessionType DEF ClearProgress, Keys
  <2>2. "auth" \in Pcs /\ "phase2_rest" \in Commands
    BY DEF Pcs, FreePcs, Commands
  <2>3. proc' \in [Procs -> Processes]
    BY <1>16, <2>1, <2>2, SessionType, LoadCommandType DEF ClearProgress, TypeOK
  <2>4. QED BY <1>16, <2>1, <2>3 DEF ClearProgress, TypeOK
<1>17. ASSUME NEW p \in Procs, RemoveDriver(p) PROVE TypeOK'
  <2>1. {"removing"} \subseteq Pcs
    BY DEF Pcs, LockPcs, FreePcs, ArmPcs, UndoPcs
  <2>2. QED BY <1>17, <2>1, GotoType DEF RemoveDriver, TypeOK
<1>18. ASSUME NEW p \in Procs, PersistRemoval(p) PROVE TypeOK'
  <2>1. "P2_2" \in Keys /\ "arm3" \in Pcs
    BY DEF Keys, Pcs, FreePcs
  <2>2. lock' \in Procs \cup {NoProc} /\ removed' \in BOOLEAN
    BY <1>18 DEF PersistRemoval, TypeOK
  <2>3. QED BY <1>18, <2>1, <2>2, EngineType, EngineFrame DEF PersistRemoval, TypeOK
<1>19. ASSUME NEW p \in Procs, DeclineRemoval(p) PROVE TypeOK'
  <2>1. "P2_2_skipped" \in Keys /\ "arm3" \in Pcs
    BY DEF Keys, Pcs, FreePcs
  <2>2. lock' \in Procs \cup {NoProc} /\ removed' \in BOOLEAN
    BY <1>19 DEF DeclineRemoval, TypeOK
  <2>3. QED BY <1>19, <2>1, <2>2, EngineType, EngineFrame DEF DeclineRemoval, TypeOK
<1>20. ASSUME NEW p \in Procs, RemovalRecorded(p) PROVE TypeOK'
  <2>1. {"arm3"} \subseteq Pcs
    BY DEF Pcs, LockPcs, FreePcs, ArmPcs, UndoPcs
  <2>2. QED BY <1>20, <2>1, GotoType DEF RemovalRecorded, TypeOK
<1>21. ASSUME NEW p \in Procs, ArmThreeBegin(p) PROVE TypeOK'
  <2>1. "arm3_run" \in Pcs
    BY DEF Pcs, LockPcs, FreePcs, ArmPcs, UndoPcs
  <2>2. proc' \in [Procs -> Processes]
    BY <1>21, <2>1, SessionType, TargetType, StageType, LoadType DEF ArmThreeBegin, TypeOK
  <2>3. QED BY <1>21, <2>2 DEF ArmThreeBegin, TypeOK
<1>22. ASSUME NEW p \in Procs, ArmThreeRun(p) PROVE TypeOK'
  <2>1. {"arm3_state", "exit"} \subseteq Pcs
    BY DEF Pcs, LockPcs, FreePcs, ArmPcs, UndoPcs
  <2>2. run' \in [Users -> GenOrNone]
    BY <1>22, SessionType DEF ArmThreeRun, TypeOK
  <2>3. QED BY <1>22, <2>1, <2>2, GotoOrFaultType DEF ArmThreeRun, TypeOK
<1>23. ASSUME NEW p \in Procs, ArmThreeState(p) PROVE TypeOK'
  <2>1. {"arm3_progress", "exit"} \subseteq Pcs
    BY DEF Pcs, LockPcs, FreePcs, ArmPcs, UndoPcs
  <2>2. state' \in States
    BY <1>23, SessionType DEF ArmThreeState, TypeOK
  <2>3. QED BY <1>23, <2>1, <2>2, GotoOrFaultType DEF ArmThreeState, TypeOK
<1>24. ASSUME NEW p \in Procs, ArmThreeProgress(p) PROVE TypeOK'
  <2>1. {"exit"} \subseteq Pcs
    BY DEF Pcs, LockPcs, FreePcs, ArmPcs, UndoPcs
  <2>2. progress' \in SUBSET Keys
    BY <1>24, SessionType DEF ArmThreeProgress, TypeOK, Keys
  <2>3. QED BY <1>24, <2>1, <2>2, GotoType DEF ArmThreeProgress, TypeOK
<1>25. ASSUME NEW p \in Procs, RelaunchPhaseThree(p) PROVE TypeOK'
  <2>1. PICK u \in Users :
           proc' = [proc EXCEPT ![p] = [@ EXCEPT !.pc = "route", !.cmd = "phase3", !.user = u,
                                                 !.st = state, !.pr = progress]]
    BY <1>25 DEF RelaunchPhaseThree
  <2>2. "route" \in Pcs /\ "phase3" \in Commands
    BY DEF Pcs, FreePcs, Commands
  <2>3. proc' \in [Procs -> Processes]
    BY <2>1, <2>2, SessionType, LoadCommandType DEF TypeOK
  <2>4. QED BY <1>25, <2>3 DEF RelaunchPhaseThree, TypeOK
<1>26. ASSUME NEW p \in Procs, RoutePhaseThree(p) PROVE TypeOK'
  <2>1. {"authclear", "auth"} \subseteq Pcs
    BY DEF Pcs, LockPcs, FreePcs, ArmPcs, UndoPcs
  <2>2. QED BY <1>26, <2>1, GotoType DEF RoutePhaseThree, TypeOK
<1>27. ASSUME NEW p \in Procs, InstallDriver(p) PROVE TypeOK'
  <2>1. CASE Goto(p, "p3rest") /\ UNCHANGED <<quiet, disk, faults, lock>>
    <3>1. "p3rest" \in Pcs
      BY DEF Pcs, FreePcs
    <3>2. QED BY <2>1, <3>1, GotoType DEF TypeOK
  <2>2. ASSUME NEW key \in {"P3_1", "P3_1_skipped"}, PersistEngineProgress(p, key, "p3rest"),
               UNCHANGED <<removed, lock>>
        PROVE  TypeOK'
    <3>1. key \in Keys /\ "p3rest" \in Pcs
      BY DEF Keys, Pcs, FreePcs
    <3>2. QED BY <2>2, <3>1, EngineType, EngineFrame DEF TypeOK
  <2>3. QED BY <1>27, <2>1, <2>2, InstallCases
<1>28. ASSUME NEW p \in Procs, PhaseThreeWork(p) PROVE TypeOK'
  <2>1. "P3_rest" \in Keys /\ "route_again" \in Pcs
    BY DEF Keys, Pcs, FreePcs
  <2>2. lock' \in Procs \cup {NoProc} /\ removed' \in BOOLEAN
    BY <1>28 DEF PhaseThreeWork, TypeOK
  <2>3. QED BY <1>28, <2>1, <2>2, EngineType, EngineFrame DEF PhaseThreeWork, TypeOK
<1>29. ASSUME NEW p \in Procs, RouteAgain(p) PROVE TypeOK'
  <2>1. "authclear" \in Pcs
    BY DEF Pcs, FreePcs
  <2>2. proc' = [proc EXCEPT ![p] = [@ EXCEPT !.pc = "authclear", !.st = state,
       !.pr = progress]]
    BY <1>29 DEF RouteAgain, GotoReloaded
  <2>3. proc' \in [Procs -> Processes]
    BY <2>1, <2>2, SessionType, LoadType DEF TypeOK
  <2>4. QED BY <1>29, <2>3 DEF RouteAgain, TypeOK
<1>30. ASSUME NEW p \in Procs, FinalBegin(p) PROVE TypeOK'
  <2>1. {"authclear", "fb_history"} \subseteq Pcs
    BY DEF Pcs, LockPcs, FreePcs
  <2>2. CASE "P3_13" \in progress
    <3>1. proc' = [proc EXCEPT ![p] =
              [@ EXCEPT !.pc = "authclear", !.st = state, !.pr = progress]]
      BY <1>30, <2>2 DEF FinalBegin, GotoReloaded
    <3>2. proc' \in [Procs -> Processes]
      BY <2>1, <3>1, SessionType, LoadType DEF TypeOK
    <3>3. QED BY <1>30, <2>2, <3>2 DEF FinalBegin, TypeOK
  <2>3. CASE "P3_13" \notin progress
    <3>1. /\ proc' = [proc EXCEPT ![p] =
                [@ EXCEPT !.pc = "fb_history",
                          !.st = [state EXCEPT !.stage = PhaseThreeComplete, !.final = TRUE],
                          !.pr = progress]]
          /\ lock' = p /\ UNCHANGED <<quiet, disk, faults>>
      BY <1>30, <2>3 DEF FinalBegin
    <3>2. [state EXCEPT !.stage = PhaseThreeComplete, !.final = TRUE] \in States
      BY TargetType, StageType
    <3>3. proc' \in [Procs -> Processes]
      BY <2>1, <3>1, <3>2, SessionType, LoadType DEF TypeOK
    <3>4. QED BY <3>1, <3>3 DEF TypeOK
  <2>4. QED BY <2>2, <2>3
<1>31. ASSUME NEW p \in Procs, FinalHistory(p) PROVE TypeOK'
  <2>1. {"fb_state", "exit"} \subseteq Pcs
    BY DEF Pcs, LockPcs, FreePcs, ArmPcs, UndoPcs
  <2>2. QED BY <1>31, <2>1, GotoOrFaultType DEF FinalHistory, TypeOK
<1>32. ASSUME NEW p \in Procs, FinalState(p) PROVE TypeOK'
  <2>1. {"fb_progress", "exit"} \subseteq Pcs
    BY DEF Pcs, LockPcs, FreePcs, ArmPcs, UndoPcs
  <2>2. state' \in States
    BY <1>32, SessionType DEF FinalState, TypeOK
  <2>3. QED BY <1>32, <2>1, <2>2, GotoOrFaultType DEF FinalState, TypeOK
<1>33. ASSUME NEW p \in Procs, FinalProgress(p) PROVE TypeOK'
  <2>1. progress' \in SUBSET Keys
    BY <1>33, SessionType DEF FinalProgress, Keys
  <2>2. "authclear" \in Pcs
    BY DEF Pcs, FreePcs, Commands
  <2>3. proc' \in [Procs -> Processes]
    BY <1>33, <2>1, <2>2, SessionType, LoadType DEF FinalProgress, TypeOK
  <2>4. QED BY <1>33, <2>1, <2>3 DEF FinalProgress, TypeOK
<1>34. ASSUME NEW p \in Procs, AuthorizeClear(p) PROVE TypeOK'
  <2>1. {"clear_run"} \subseteq Pcs
    BY DEF Pcs, LockPcs, FreePcs, ArmPcs, UndoPcs
  <2>2. QED BY <1>34, <2>1, GotoType DEF AuthorizeClear, TypeOK
<1>35. ASSUME NEW p \in Procs, ClearRun(p) PROVE TypeOK'
  <2>1. {"exit"} \subseteq Pcs
    BY DEF Pcs, LockPcs, FreePcs, ArmPcs, UndoPcs
  <2>2. run' \in [Users -> GenOrNone]
    BY <1>35, ZeroType DEF ClearRun, TypeOK
  <2>3. QED BY <1>35, <2>1, <2>2, GotoType DEF ClearRun, TypeOK
<1>36. ASSUME NEW p \in Procs, ResetProgress(p) PROVE TypeOK'
  <2>1. {"exit"} \subseteq Pcs
    BY DEF Pcs, LockPcs, FreePcs, ArmPcs, UndoPcs
  <2>2. QED BY <1>36, <2>1, GotoType DEF ResetProgress, TypeOK
<1>37. ASSUME NEW p \in Procs, Refuse(p) PROVE TypeOK'
  <2>1. faults' \in 0 .. MaxFaults
    BY <1>37, MaxFaultsAssumption DEF Refuse, TypeOK
  <2>2. CASE proc[p].pc \in ArmPcs
    <3>1. FailurePc(p) \in Pcs
      BY DEF FailurePc, Pcs, LockPcs, FreePcs, UndoPcs
    <3>2. QED BY <1>37, <2>1, <2>2, <3>1, GotoType DEF Refuse, TypeOK
  <2>3. CASE proc[p].pc \notin ArmPcs
    <3>1. proc' \in [Procs -> Processes]
      BY <1>37, <2>3, IdleType DEF Refuse, End, TypeOK
    <3>2. runOnce' \in GenOrNone
      BY <1>37, <2>3, ZeroType DEF Refuse, End, TypeOK
    <3>3. lock' \in Procs \cup {NoProc} /\ consumed' \in BOOLEAN
      BY <1>37, <2>3 DEF Refuse, End, TypeOK, Processes
    <3>4. QED BY <1>37, <2>1, <2>3, <3>1, <3>2, <3>3, EndFrame DEF Refuse, TypeOK
  <2>4. QED BY <2>2, <2>3
<1>38. ASSUME NEW p \in Procs, Exit(p) PROVE TypeOK'
  <2>1. faults' \in 0 .. MaxFaults
    BY <1>38, MaxFaultsAssumption DEF Exit, TypeOK
  <2>2. proc' \in [Procs -> Processes]
    BY <1>38, IdleType DEF Exit, End, TypeOK
  <2>3. runOnce' \in GenOrNone
    BY <1>38, ZeroType DEF Exit, End, TypeOK
  <2>4. lock' \in Procs \cup {NoProc} /\ consumed' \in BOOLEAN
    BY <1>38 DEF Exit, End, TypeOK, Processes
  <2>5. QED BY <1>38, <2>1, <2>2, <2>3, <2>4, EndFrame DEF Exit, TypeOK
<1>39. ASSUME NEW p \in Procs, IoFault(p) PROVE TypeOK'
  <2>1. faults' \in 0 .. MaxFaults
    BY <1>39, MaxFaultsAssumption DEF IoFault, TypeOK
  <2>2. FailurePc(p) \in Pcs
    BY DEF FailurePc, Pcs, LockPcs, FreePcs, UndoPcs
  <2>3. QED BY <1>39, <2>1, <2>2, GotoType DEF IoFault, TypeOK
<1>40. ASSUME NEW p \in Procs, Crash(p) PROVE TypeOK'
  <2>1. faults' \in 0 .. MaxFaults
    BY <1>40, MaxFaultsAssumption DEF Crash, TypeOK
  <2>2. proc' \in [Procs -> Processes]
    BY <1>40, IdleType DEF Crash, End, TypeOK
  <2>3. runOnce' \in GenOrNone
    BY <1>40, ZeroType DEF Crash, End, TypeOK
  <2>4. lock' \in Procs \cup {NoProc} /\ consumed' \in BOOLEAN
    BY <1>40 DEF Crash, End, TypeOK, Processes
  <2>5. QED BY <1>40, <2>1, <2>2, <2>3, <2>4, EndFrame DEF Crash, TypeOK
<1>41. ASSUME NEW p \in Procs, NEW u \in Users, SignInPhaseTwo(p, u) PROVE TypeOK'
  BY <1>41, IdleType
     DEF SignInPhaseTwo, Launched, IdleProcess, TypeOK, Processes, Pcs, FreePcs, Commands,
       GenOrNone
<1>42. ASSUME NEW p \in Procs, NEW u \in Users, SignInPhaseThree(p, u) PROVE TypeOK'
  BY <1>42, IdleType, ZenonT(60)
     DEF SignInPhaseThree, Launched, IdleProcess, TypeOK, Processes, Pcs, FreePcs, Commands,
       GenOrNone
<1>43. ASSUME NEW p \in Procs, NEW u \in Users, NEW c \in Commands, Start(p, c, u)
      PROVE  TypeOK'
  BY <1>43, IdleType
     DEF Start, IdleProcess, TypeOK, Processes, Pcs, FreePcs, PackageCommands, GenOrNone
<1>44. ASSUME Reboot PROVE TypeOK'
  BY <1>44, IdleType, MaxFaultsAssumption DEF Reboot, IdleProcess, TypeOK
<1>45. CASE UNCHANGED vars
  BY <1>45 DEF vars, TypeOK
<1>46. QED
  BY <1>1, <1>2, <1>3, <1>4, <1>5, <1>6, <1>7, <1>8, <1>9, <1>10, <1>11, <1>12,
     <1>13, <1>14, <1>15, <1>16, <1>17, <1>18, <1>19, <1>20, <1>21, <1>22, <1>23,
     <1>24, <1>25, <1>26, <1>27, <1>28, <1>29, <1>30, <1>31, <1>32, <1>33, <1>34,
     <1>35, <1>36, <1>37, <1>38, <1>39, <1>40, <1>41, <1>42, <1>43, <1>44, <1>45
     DEF Next, Step, Disturb, SignIn

-----------------------------------------------------------------------------
(* Who changes what *)

\* The steps of p that take the work lock or are taken under it.
Locked(p) ==
    \/ ArmBegin(p) \/ ArmRunOnce(p) \/ ArmSafeBoot(p) \/ ArmState(p)
    \/ UndoSafeBoot(p) \/ ClearBegin(p) \/ ClearSafeBoot(p) \/ ClearState(p)
    \/ RemoveDriver(p) \/ ArmThreeBegin(p) \/ ArmThreeRun(p) \/ ArmThreeState(p)
    \/ FinalBegin(p) \/ FinalHistory(p) \/ FinalState(p)
    \/ Refuse(p) \/ IoFault(p)

\* The steps of p that write what the safety properties speak of.
Writes(p) ==
    \/ ArmSafeBoot(p) \/ ArmState(p) \/ UndoSafeBoot(p)
    \/ ClearSafeBoot(p) \/ ClearState(p) \/ RemoveDriver(p)
    \/ ArmThreeRun(p) \/ ArmThreeState(p)
    \/ FinalHistory(p) \/ FinalState(p) \/ ClearRun(p)

\* A process inside a transaction moves by a step of that transaction, or
\* stays where it is while nothing the transaction relies on changes.
MovesAlone ==
    \A x \in Procs :
       \/ proc'[x].pc \notin LockPcs
       \/ Locked(x)
       \/ /\ proc'[x] = proc[x]
          /\ UNCHANGED <<state, safeboot, run, history, removed, rollback>>
          /\ runOnce' = runOnce \/ consumed'

\* Outside the steps of Writes the machine keeps its state, and the RunOnce
\* value goes only by the rollback or by Windows.
WritesOnly ==
    /\ UNCHANGED <<state, safeboot, run, history, removed>> \/ \E p \in Procs : Writes(p)
    /\ \/ runOnce' = runOnce \/ runOnce' # 0 \/ consumed'
       \/ \E p \in Procs : UndoRunOnce(p)
    /\ consumed => consumed'
    /\ rollback = "incomplete" => rollback' = "incomplete"

\* Every action is one of these, for every process.
LEMMA MoveStep ==
    ASSUME TypeOK, CommandInv, LockInv, [Next]_vars
    PROVE  MovesAlone /\ WritesOnly
<1> USE NoProcAssumption, NoUserAssumption
     DEF At, disk, quiet, MovesAlone, WritesOnly, LockInv, Locked, Writes, LockPcs, ArmPcs,
     UndoPcs
<1>1. ASSUME NEW p \in Procs, Authorize(p) PROVE MovesAlone /\ WritesOnly
  <2>1. AfterAuthorize(p) \notin LockPcs
    BY <1>1, AuthorizeTarget DEF Authorize, CommandInv
  <2>2. QED BY <1>1, <2>1 DEF Authorize, Goto, TypeOK, Processes
<1>2. ASSUME NEW p \in Procs, PhaseOneWork(p) PROVE MovesAlone /\ WritesOnly
  BY <1>2, EngineFrame DEF PhaseOneWork
<1>3. ASSUME NEW p \in Procs, PublishRuntime(p) PROVE MovesAlone /\ WritesOnly
  BY <1>3 DEF PublishRuntime, TypeOK, Processes
<1>4. ASSUME NEW p \in Procs, DeclineArming(p) PROVE MovesAlone /\ WritesOnly
  BY <1>4, GotoFrame DEF DeclineArming, Goto, TypeOK
<1>5. ASSUME NEW p \in Procs, LaunchArming(p) PROVE MovesAlone /\ WritesOnly
  BY <1>5 DEF LaunchArming, TypeOK, Processes
<1>6. ASSUME NEW p \in Procs, ArmBegin(p) PROVE MovesAlone /\ WritesOnly
  BY <1>6, Permission DEF ArmBegin, TypeOK, Processes, MayArm, LockFree
<1>7. ASSUME NEW p \in Procs, ArmRunOnce(p) PROVE MovesAlone /\ WritesOnly
  <2>1. \A x \in Procs : x # p => proc'[x] = proc[x]
    BY <1>7 DEF ArmRunOnce, GotoOrFault, Goto, TypeOK
  <2>2. Locked(p)
    BY <1>7 DEF ArmRunOnce, Locked, LockPcs, ArmPcs, UndoPcs, IdleProcess
  <2>3. \A x \in Procs : x # p /\ proc[x].pc \in LockPcs =>
           /\ UNCHANGED <<state, safeboot, run, history, removed, rollback>>
           /\ runOnce' = runOnce \/ consumed'
    BY <1>7 DEF ArmRunOnce, LockInv, LockPcs, ArmPcs, UndoPcs
  <2>4. WritesOnly
    BY <1>7 DEF ArmRunOnce, WritesOnly, Writes, CommandInv, RuntimePcs, Pcs, LockPcs, ArmPcs,
       UndoPcs
  <2>5. QED BY <2>1, <2>2, <2>3, <2>4 DEF MovesAlone
<1>8. ASSUME NEW p \in Procs, ArmSafeBoot(p) PROVE MovesAlone /\ WritesOnly
  BY <1>8, GotoOrFaultFrame DEF ArmSafeBoot, GotoOrFault, Goto, TypeOK
<1>9. ASSUME NEW p \in Procs, ArmState(p) PROVE MovesAlone /\ WritesOnly
  BY <1>9, GotoOrFaultFrame DEF ArmState, GotoOrFault, Goto, TypeOK
<1>10. ASSUME NEW p \in Procs, ArmProgress(p) PROVE MovesAlone /\ WritesOnly
  BY <1>10, GotoFrame DEF ArmProgress, Goto, TypeOK
<1>11. ASSUME NEW p \in Procs, UndoSafeBoot(p) PROVE MovesAlone /\ WritesOnly
  <2>1. \A x \in Procs : x # p => proc'[x] = proc[x]
    BY <1>11 DEF UndoSafeBoot, Goto, TypeOK
  <2>2. Locked(p)
    BY <1>11 DEF UndoSafeBoot, Locked, LockPcs, ArmPcs, UndoPcs, IdleProcess
  <2>3. \A x \in Procs : x # p /\ proc[x].pc \in LockPcs =>
           /\ UNCHANGED <<state, safeboot, run, history, removed, rollback>>
           /\ runOnce' = runOnce \/ consumed'
    BY <1>11 DEF UndoSafeBoot, LockInv, LockPcs, ArmPcs, UndoPcs
  <2>4. WritesOnly
    BY <1>11 DEF UndoSafeBoot, WritesOnly, Writes, CommandInv, RuntimePcs, Pcs, LockPcs,
       ArmPcs, UndoPcs
  <2>5. QED BY <2>1, <2>2, <2>3, <2>4 DEF MovesAlone
<1>12. ASSUME NEW p \in Procs, UndoRunOnce(p) PROVE MovesAlone /\ WritesOnly
  <2>1. \A x \in Procs : x # p => proc'[x] = proc[x]
    BY <1>12 DEF UndoRunOnce, Goto, TypeOK
  <2>2. proc'[p].pc \notin LockPcs
    BY <1>12, GotoFrame DEF UndoRunOnce, Locked, LockPcs, ArmPcs, UndoPcs, IdleProcess
  <2>3. \A x \in Procs : x # p /\ proc[x].pc \in LockPcs =>
           /\ UNCHANGED <<state, safeboot, run, history, removed, rollback>>
           /\ runOnce' = runOnce \/ consumed'
    BY <1>12 DEF UndoRunOnce, LockInv, LockPcs, ArmPcs, UndoPcs
  <2>4. WritesOnly
    BY <1>12 DEF UndoRunOnce, WritesOnly, Writes, CommandInv, RuntimePcs, Pcs, LockPcs,
       ArmPcs, UndoPcs
  <2>5. QED BY <2>1, <2>2, <2>3, <2>4 DEF MovesAlone
<1>13. ASSUME NEW p \in Procs, ClearBegin(p) PROVE MovesAlone /\ WritesOnly
  BY <1>13, Permission DEF ClearBegin, TypeOK, Processes, MayClear, LockFree
<1>14. ASSUME NEW p \in Procs, ClearSafeBoot(p) PROVE MovesAlone /\ WritesOnly
  BY <1>14, GotoOrFaultFrame DEF ClearSafeBoot, GotoOrFault, Goto, TypeOK
<1>15. ASSUME NEW p \in Procs, ClearState(p) PROVE MovesAlone /\ WritesOnly
  BY <1>15, GotoOrFaultFrame DEF ClearState, GotoOrFault, Goto, TypeOK
<1>16. ASSUME NEW p \in Procs, ClearProgress(p) PROVE MovesAlone /\ WritesOnly
  BY <1>16 DEF ClearProgress, TypeOK, Processes
<1>17. ASSUME NEW p \in Procs, RemoveDriver(p) PROVE MovesAlone /\ WritesOnly
  <2>1. \A x \in Procs : x # p => proc'[x] = proc[x]
    BY <1>17 DEF RemoveDriver, Goto, TypeOK
  <2>2. Locked(p)
    BY <1>17 DEF RemoveDriver, Locked, LockPcs, ArmPcs, UndoPcs, IdleProcess
  <2>3. \A x \in Procs : x # p /\ proc[x].pc \in LockPcs =>
           /\ UNCHANGED <<state, safeboot, run, history, removed, rollback>>
           /\ runOnce' = runOnce \/ consumed'
    BY <1>17, Permission
       DEF RemoveDriver, LockInv, LockPcs, ArmPcs, UndoPcs, EngineIdle, LockFree
  <2>4. WritesOnly
    BY <1>17 DEF RemoveDriver, WritesOnly, Writes, CommandInv, RuntimePcs, Pcs, LockPcs,
       ArmPcs, UndoPcs
  <2>5. QED BY <2>1, <2>2, <2>3, <2>4 DEF MovesAlone
<1>18. ASSUME NEW p \in Procs, PersistRemoval(p) PROVE MovesAlone /\ WritesOnly
  BY <1>18, EngineFrame DEF PersistRemoval
<1>19. ASSUME NEW p \in Procs, DeclineRemoval(p) PROVE MovesAlone /\ WritesOnly
  BY <1>19, EngineFrame DEF DeclineRemoval
<1>20. ASSUME NEW p \in Procs, RemovalRecorded(p) PROVE MovesAlone /\ WritesOnly
  BY <1>20, GotoFrame DEF RemovalRecorded, Goto, TypeOK
<1>21. ASSUME NEW p \in Procs, ArmThreeBegin(p) PROVE MovesAlone /\ WritesOnly
  BY <1>21, Permission DEF ArmThreeBegin, TypeOK, Processes, MayArmThree, LockFree
<1>22. ASSUME NEW p \in Procs, ArmThreeRun(p) PROVE MovesAlone /\ WritesOnly
  <2>1. \A x \in Procs : x # p => proc'[x] = proc[x]
    BY <1>22 DEF ArmThreeRun, GotoOrFault, Goto, TypeOK
  <2>2. Locked(p)
    BY <1>22 DEF ArmThreeRun, Locked, LockPcs, ArmPcs, UndoPcs, IdleProcess
  <2>3. \A x \in Procs : x # p /\ proc[x].pc \in LockPcs =>
           /\ UNCHANGED <<state, safeboot, run, history, removed, rollback>>
           /\ runOnce' = runOnce \/ consumed'
    BY <1>22 DEF ArmThreeRun, LockInv, LockPcs, ArmPcs, UndoPcs
  <2>4. WritesOnly
    BY <1>22 DEF ArmThreeRun, WritesOnly, Writes, CommandInv, RuntimePcs, Pcs, LockPcs,
       ArmPcs, UndoPcs
  <2>5. QED BY <2>1, <2>2, <2>3, <2>4 DEF MovesAlone
<1>23. ASSUME NEW p \in Procs, ArmThreeState(p) PROVE MovesAlone /\ WritesOnly
  BY <1>23, GotoOrFaultFrame DEF ArmThreeState, GotoOrFault, Goto, TypeOK
<1>24. ASSUME NEW p \in Procs, ArmThreeProgress(p) PROVE MovesAlone /\ WritesOnly
  BY <1>24, GotoFrame DEF ArmThreeProgress, Goto, TypeOK
<1>25. ASSUME NEW p \in Procs, RelaunchPhaseThree(p) PROVE MovesAlone /\ WritesOnly
  BY <1>25 DEF RelaunchPhaseThree, TypeOK, Processes
<1>26. ASSUME NEW p \in Procs, RoutePhaseThree(p) PROVE MovesAlone /\ WritesOnly
  BY <1>26, GotoFrame DEF RoutePhaseThree, Goto, TypeOK
<1>27. ASSUME NEW p \in Procs, InstallDriver(p) PROVE MovesAlone /\ WritesOnly
  <2>1. CASE Goto(p, "p3rest") /\ UNCHANGED <<quiet, disk, faults, lock>>
    BY <1>27, <2>1, GotoFrame DEF InstallDriver, Goto, TypeOK
  <2>2. ASSUME NEW key, PersistEngineProgress(p, key, "p3rest"), UNCHANGED <<removed, lock>>
        PROVE  MovesAlone /\ WritesOnly
    BY <1>27, <2>2, EngineFrame DEF InstallDriver
  <2>3. QED BY <1>27, <2>1, <2>2, InstallCases
<1>28. ASSUME NEW p \in Procs, PhaseThreeWork(p) PROVE MovesAlone /\ WritesOnly
  BY <1>28, EngineFrame DEF PhaseThreeWork
<1>29. ASSUME NEW p \in Procs, RouteAgain(p) PROVE MovesAlone /\ WritesOnly
  BY <1>29 DEF RouteAgain, TypeOK, Processes, GotoReloaded
<1>30. ASSUME NEW p \in Procs, FinalBegin(p) PROVE MovesAlone /\ WritesOnly
  BY <1>30, FinalBeginCases DEF LockFree
<1>31. ASSUME NEW p \in Procs, FinalHistory(p) PROVE MovesAlone /\ WritesOnly
  <2>1. \A x \in Procs : x # p => proc'[x] = proc[x]
    BY <1>31 DEF FinalHistory, GotoOrFault, Goto, TypeOK
  <2>2. Locked(p)
    BY <1>31 DEF FinalHistory, Locked, LockPcs, ArmPcs, UndoPcs, IdleProcess
  <2>3. \A x \in Procs : x # p /\ proc[x].pc \in LockPcs =>
           /\ UNCHANGED <<state, safeboot, run, history, removed, rollback>>
           /\ runOnce' = runOnce \/ consumed'
    BY <1>31 DEF FinalHistory, LockInv, LockPcs, ArmPcs, UndoPcs
  <2>4. WritesOnly
    BY <1>31 DEF FinalHistory, WritesOnly, Writes, CommandInv, RuntimePcs, Pcs, LockPcs,
       ArmPcs, UndoPcs
  <2>5. QED BY <2>1, <2>2, <2>3, <2>4 DEF MovesAlone
<1>32. ASSUME NEW p \in Procs, FinalState(p) PROVE MovesAlone /\ WritesOnly
  BY <1>32, GotoOrFaultFrame DEF FinalState, GotoOrFault, Goto, TypeOK
<1>33. ASSUME NEW p \in Procs, FinalProgress(p) PROVE MovesAlone /\ WritesOnly
  BY <1>33 DEF FinalProgress, TypeOK, Processes
<1>34. ASSUME NEW p \in Procs, AuthorizeClear(p) PROVE MovesAlone /\ WritesOnly
  BY <1>34, GotoFrame DEF AuthorizeClear, Goto, TypeOK
<1>35. ASSUME NEW p \in Procs, ClearRun(p) PROVE MovesAlone /\ WritesOnly
  <2>1. \A x \in Procs : x # p => proc'[x] = proc[x]
    BY <1>35 DEF ClearRun, Goto, TypeOK
  <2>2. proc'[p].pc \notin LockPcs
    BY <1>35, GotoFrame DEF ClearRun, Locked, LockPcs, ArmPcs, UndoPcs, IdleProcess
  <2>3. \A x \in Procs : x # p /\ proc[x].pc \in LockPcs =>
           /\ UNCHANGED <<state, safeboot, run, history, removed, rollback>>
           /\ runOnce' = runOnce \/ consumed'
    BY <1>35, Permission DEF ClearRun, LockInv, LockPcs, ArmPcs, UndoPcs, MayClearRun, LockFree
  <2>4. WritesOnly
    BY <1>35 DEF ClearRun, WritesOnly, Writes, CommandInv, RuntimePcs, Pcs, LockPcs, ArmPcs,
       UndoPcs
  <2>5. QED BY <2>1, <2>2, <2>3, <2>4 DEF MovesAlone
<1>36. ASSUME NEW p \in Procs, ResetProgress(p) PROVE MovesAlone /\ WritesOnly
  BY <1>36, GotoFrame, Permission DEF ResetProgress, LockFree, Goto, TypeOK
<1>37. ASSUME NEW p \in Procs, Refuse(p) PROVE MovesAlone /\ WritesOnly
  <2>1. /\ \A x \in Procs : x # p => proc'[x] = proc[x]
        /\ UNCHANGED <<state, safeboot, run, history, removed, rollback>>
        /\ runOnce' = runOnce \/ consumed'
        /\ consumed => consumed'
    <3>1. CASE proc[p].pc \in ArmPcs
      <4>1. UNCHANGED <<quiet, disk>>
        BY <1>37, <3>1, Zenon DEF Refuse
      <4>2. \A x \in Procs : x # p => proc'[x] = proc[x]
        BY <1>37, <3>1 DEF Refuse, Goto, TypeOK
      <4>3. QED BY <4>1, <4>2 DEF quiet, disk
    <3>2. CASE proc[p].pc \notin ArmPcs
      BY <1>37, <3>2, EndFrame DEF Refuse, TypeOK
    <3>3. QED BY <3>1, <3>2
  <2>2. Locked(p)
    BY <1>37 DEF Locked
  <2>3. MovesAlone
    BY <2>1, <2>2, Zenon DEF MovesAlone
  <2>4. WritesOnly
    BY <2>1, Zenon DEF WritesOnly
  <2>5. QED BY <2>3, <2>4
<1>38. ASSUME NEW p \in Procs, Exit(p) PROVE MovesAlone /\ WritesOnly
  <2>1. \A x \in Procs : x # p => proc'[x] = proc[x]
    BY <1>38, EndFrame DEF Exit, TypeOK
  <2>2. proc'[p].pc \notin LockPcs
    BY <1>38, EndFrame DEF Exit, Locked, LockPcs, ArmPcs, UndoPcs, IdleProcess
  <2>3. \A x \in Procs : x # p /\ proc[x].pc \in LockPcs =>
           /\ UNCHANGED <<state, safeboot, run, history, removed, rollback>>
           /\ runOnce' = runOnce \/ consumed'
    BY <1>38, EndFrame DEF Exit, LockInv, LockPcs, ArmPcs, UndoPcs
  <2>4. WritesOnly
    BY <1>38, EndFrame
       DEF Exit, WritesOnly, Writes, CommandInv, RuntimePcs, Pcs, LockPcs, ArmPcs, UndoPcs
  <2>5. QED BY <2>1, <2>2, <2>3, <2>4 DEF MovesAlone
<1>39. ASSUME NEW p \in Procs, IoFault(p) PROVE MovesAlone /\ WritesOnly
  <2>1. \A x \in Procs : x # p => proc'[x] = proc[x]
    BY <1>39 DEF IoFault, Goto, TypeOK
  <2>2. Locked(p)
    BY <1>39 DEF IoFault, Locked, LockPcs, ArmPcs, UndoPcs, IdleProcess
  <2>3. \A x \in Procs : x # p /\ proc[x].pc \in LockPcs =>
           /\ UNCHANGED <<state, safeboot, run, history, removed, rollback>>
           /\ runOnce' = runOnce \/ consumed'
    BY <1>39 DEF IoFault, LockInv, LockPcs, ArmPcs, UndoPcs
  <2>4. WritesOnly
    BY <1>39 DEF IoFault, WritesOnly, Writes, CommandInv, RuntimePcs, Pcs, LockPcs, ArmPcs,
       UndoPcs
  <2>5. QED BY <2>1, <2>2, <2>3, <2>4 DEF MovesAlone
<1>40. ASSUME NEW p \in Procs, Crash(p) PROVE MovesAlone /\ WritesOnly
  <2>1. \A x \in Procs : x # p => proc'[x] = proc[x]
    BY <1>40, EndFrame DEF Crash, TypeOK
  <2>2. proc'[p].pc \notin LockPcs
    BY <1>40, EndFrame DEF Crash, Locked, LockPcs, ArmPcs, UndoPcs, IdleProcess
  <2>3. \A x \in Procs : x # p /\ proc[x].pc \in LockPcs =>
           /\ UNCHANGED <<state, safeboot, run, history, removed, rollback>>
           /\ runOnce' = runOnce \/ consumed'
    BY <1>40, EndFrame DEF Crash, LockInv, LockPcs, ArmPcs, UndoPcs
  <2>4. WritesOnly
    BY <1>40, EndFrame
       DEF Crash, WritesOnly, Writes, CommandInv, RuntimePcs, Pcs, LockPcs, ArmPcs, UndoPcs
  <2>5. QED BY <2>1, <2>2, <2>3, <2>4 DEF MovesAlone
<1>41. ASSUME NEW p \in Procs, NEW u \in Users, SignInPhaseTwo(p, u)
      PROVE MovesAlone /\ WritesOnly
  BY <1>41 DEF SignInPhaseTwo, Launched, IdleProcess, TypeOK, Processes
<1>42. ASSUME NEW p \in Procs, NEW u \in Users, SignInPhaseThree(p, u)
      PROVE MovesAlone /\ WritesOnly
  BY <1>42 DEF SignInPhaseThree, Launched, IdleProcess, TypeOK, Processes
<1>43. ASSUME NEW p \in Procs, NEW u \in Users, NEW c \in Commands, Start(p, c, u)
      PROVE  MovesAlone /\ WritesOnly
  BY <1>43 DEF Start, IdleProcess, TypeOK, Processes
<1>44. ASSUME Reboot PROVE MovesAlone /\ WritesOnly
  BY <1>44 DEF Reboot, IdleProcess
<1>45. CASE UNCHANGED vars
  BY <1>45 DEF vars
<1>46. QED
  BY <1>1, <1>2, <1>3, <1>4, <1>5, <1>6, <1>7, <1>8, <1>9, <1>10, <1>11, <1>12,
     <1>13, <1>14, <1>15, <1>16, <1>17, <1>18, <1>19, <1>20, <1>21, <1>22, <1>23,
     <1>24, <1>25, <1>26, <1>27, <1>28, <1>29, <1>30, <1>31, <1>32, <1>33, <1>34,
     <1>35, <1>36, <1>37, <1>38, <1>39, <1>40, <1>41, <1>42, <1>43, <1>44, <1>45
     DEF Next, Step, Disturb, SignIn

-----------------------------------------------------------------------------
(* What a transaction has read stays true until it writes *)

\* P1:38 and its rollback keep their part of the invariant.
LEMMA ArmingStep ==
    ASSUME Inv, [Next]_vars
    PROVE  ArmingInv'
<1> SUFFICES ASSUME NEW p \in Procs PROVE ArmingAt(p)'
  BY DEF ArmingInv
<1> USE DEF At, disk, quiet, NoTransaction, PhaseOneSafeModeArmed, PhaseTwoSafeMode,
     PhaseThreeArmed,
     PhaseThreeComplete
<1>1. /\ TypeOK /\ CommandInv /\ LockInv /\ StageInv /\ SafeBootHasLauncher
      /\ ArmingAt(p) /\ RemovalNeverTrapsInSafeMode /\ SameUserHandoff
  BY DEF Inv, ArmingInv
<1>2. MovesAlone /\ WritesOnly
  BY <1>1, MoveStep
<1>3. CASE proc'[p].pc \notin LockPcs
  BY <1>3 DEF ArmingAt, LockPcs, ArmPcs, UndoPcs
<1>4. CASE /\ proc'[p] = proc[p]
           /\ UNCHANGED <<state, safeboot, run, history, removed, rollback>>
           /\ runOnce' = runOnce \/ consumed'
  BY <1>1, <1>2, <1>4 DEF ArmingAt, WritesOnly
<1>5. CASE ArmBegin(p)
  <2>1. MayArm(p) /\ proc[p].pc = "arm"
    BY <1>5, Permission DEF ArmBegin
  <2>2. proc[p] \in Processes /\ state \in States
    BY <1>1, SessionType
  <2>3. /\ proc'[p] = [proc[p] EXCEPT
              !.pc = "arm_runonce",
              !.st = [state EXCEPT !.ready = TRUE, !.stage = PhaseOneSafeModeArmed,
                                   !.runtime = proc[p].rt, !.sid = proc[p].user],
              !.pr = progress, !.wrote = (runOnce = 0), !.setsb = (safeboot = "absent")]
        /\ UNCHANGED <<state, safeboot, runOnce, consumed, rollback>>
    BY <1>1, <1>5 DEF ArmBegin, TypeOK
  <2>4. /\ proc'[p].pc = "arm_runonce" /\ proc'[p].rt = proc[p].rt
        /\ proc'[p].user = proc[p].user
        /\ proc'[p].wrote = (runOnce = 0) /\ proc'[p].setsb = (safeboot = "absent")
        /\ proc'[p].st = [state EXCEPT !.ready = TRUE, !.stage = PhaseOneSafeModeArmed,
                                       !.runtime = proc[p].rt, !.sid = proc[p].user]
    BY <2>2, <2>3 DEF Processes
  <2>5. safeboot \in {"absent", "minimal"}
    BY <1>1 DEF TypeOK
  <2>6. proc'[p].wrote /\ ~proc'[p].setsb => consumed \/ rollback = "incomplete"
    BY <1>1, <2>4, <2>5 DEF SafeBootHasLauncher
  <2>7. state.stage <= PhaseOneSafeModeArmed
    BY <2>1 DEF MayArm
  <2>8. state.stage # NoTransaction => state.runtime = proc[p].rt /\ state.sid = proc[p].user
    BY <2>1 DEF MayArm
  <2>9. QED BY <2>3, <2>4, <2>6, <2>7, <2>8 DEF ArmingAt, ArmPcs, UndoPcs
<1>6. CASE ArmRunOnce(p)
  <2>1. /\ proc[p].pc = "arm_runonce" /\ proc'[p].pc \in {"arm_safeboot", "undo_safeboot"}
        /\ proc'[p].st = proc[p].st /\ proc'[p].rt = proc[p].rt /\ proc'[p].user = proc[p].user
        /\ proc'[p].wrote = proc[p].wrote /\ proc'[p].setsb = proc[p].setsb
        /\ UNCHANGED <<state, consumed, rollback>> /\ runOnce' = proc[p].rt
    BY <1>1, <1>6, GotoOrFaultFrame DEF ArmRunOnce
  <2>2. proc[p].rt # 0
    BY <1>1, <2>1 DEF CommandInv, RuntimePcs, Pcs, LockPcs, ArmPcs
  <2>3. QED BY <1>1, <2>1, <2>2 DEF ArmingAt, ArmPcs, UndoPcs
<1>7. CASE ArmSafeBoot(p)
  <2>1. /\ proc[p].pc = "arm_safeboot" /\ proc'[p].pc \in {"arm_state", "undo_safeboot"}
        /\ proc'[p].st = proc[p].st /\ proc'[p].rt = proc[p].rt /\ proc'[p].user = proc[p].user
        /\ proc'[p].wrote = proc[p].wrote /\ proc'[p].setsb = proc[p].setsb
        /\ UNCHANGED <<state, runOnce, consumed, rollback>>
    BY <1>1, <1>7, GotoOrFaultFrame DEF ArmSafeBoot
  <2>2. QED BY <1>1, <2>1 DEF ArmingAt, ArmPcs, UndoPcs
<1>8. CASE ArmState(p)
  <2>1. /\ proc[p].pc = "arm_state" /\ proc'[p].pc \in {"arm_progress", "undo_safeboot"}
        /\ state' = proc[p].st
        /\ proc'[p].wrote = proc[p].wrote /\ proc'[p].setsb = proc[p].setsb
        /\ UNCHANGED <<consumed, rollback, safeboot, run, removed, history>>
    BY <1>1, <1>8, GotoOrFaultFrame DEF ArmState
  <2>2. state'.stage = PhaseOneSafeModeArmed
    BY <1>1, <2>1, SessionType DEF ArmingAt, States, ArmPcs
  <2>3. QED BY <1>1, <2>1, <2>2 DEF ArmingAt, ArmPcs, UndoPcs
<1>9. CASE UndoSafeBoot(p)
  BY <1>1, <1>9, GotoFrame DEF UndoSafeBoot, ArmingAt, ArmPcs, UndoPcs
<1>10. CASE ClearBegin(p)
  BY <1>1, <1>10, Permission
     DEF ClearBegin, ArmingAt, ArmPcs, UndoPcs, TypeOK, Processes, MayClear
<1>11. CASE ClearSafeBoot(p)
  BY <1>1, <1>11, GotoOrFaultFrame DEF ClearSafeBoot, ArmingAt, ArmPcs, UndoPcs
<1>12. CASE ClearState(p)
  BY <1>1, <1>12, GotoOrFaultFrame DEF ClearState, ArmingAt, ArmPcs, UndoPcs
<1>13. CASE RemoveDriver(p)
  BY <1>1, <1>13, GotoFrame DEF RemoveDriver, ArmingAt, ArmPcs, UndoPcs
<1>14. CASE ArmThreeBegin(p)
  BY <1>1, <1>14, Permission
     DEF ArmThreeBegin, ArmingAt, ArmPcs, UndoPcs, TypeOK, Processes, MayArmThree
<1>15. CASE ArmThreeRun(p)
  BY <1>1, <1>15, GotoOrFaultFrame DEF ArmThreeRun, ArmingAt, ArmPcs, UndoPcs
<1>16. CASE ArmThreeState(p)
  BY <1>1, <1>16, GotoOrFaultFrame DEF ArmThreeState, ArmingAt, ArmPcs, UndoPcs
<1>17. CASE FinalBegin(p)
  BY <1>1, <1>17, FinalBeginCases DEF FinalBegin, ArmingAt, ArmPcs, UndoPcs
<1>18. CASE FinalHistory(p)
  BY <1>1, <1>18, GotoOrFaultFrame DEF FinalHistory, ArmingAt, ArmPcs, UndoPcs
<1>19. CASE FinalState(p)
  BY <1>1, <1>19, GotoOrFaultFrame DEF FinalState, ArmingAt, ArmPcs, UndoPcs
<1>20. CASE Refuse(p)
  <2>1. CASE proc[p].pc \in ArmPcs
    BY <1>1, <1>20, <2>1, GotoFrame DEF Refuse, ArmingAt, ArmPcs, UndoPcs, FailurePc
  <2>2. CASE proc[p].pc \notin ArmPcs
    BY <1>1, <1>20, <2>2, EndFrame DEF Refuse, ArmingAt, ArmPcs, UndoPcs, IdleProcess
  <2>3. QED BY <2>1, <2>2
<1>21. CASE IoFault(p)
  BY <1>1, <1>21, GotoFrame DEF IoFault, ArmingAt, ArmPcs, UndoPcs, FailurePc
<1>22. QED
  BY <1>2, <1>3, <1>4, <1>5, <1>6, <1>7, <1>8, <1>9, <1>10, <1>11, <1>12,
     <1>13, <1>14, <1>15, <1>16, <1>17, <1>18, <1>19, <1>20, <1>21
     DEF MovesAlone, Locked

\* So do the transactions of Phase 2.
LEMMA PhaseTwoStep ==
    ASSUME Inv, [Next]_vars
    PROVE  PhaseTwoInv'
<1> SUFFICES ASSUME NEW p \in Procs PROVE PhaseTwoAt(p)'
  BY DEF PhaseTwoInv
<1> USE DEF At, disk, quiet, NoTransaction, PhaseOneSafeModeArmed, PhaseTwoSafeMode,
     PhaseThreeArmed,
     PhaseThreeComplete
<1>1. /\ TypeOK /\ CommandInv /\ LockInv /\ StageInv /\ SafeBootHasLauncher
      /\ PhaseTwoAt(p) /\ RemovalNeverTrapsInSafeMode /\ SameUserHandoff
  BY DEF Inv, PhaseTwoInv
<1>2. MovesAlone /\ WritesOnly
  BY <1>1, MoveStep
<1>3. CASE proc'[p].pc \notin LockPcs
  BY <1>3 DEF PhaseTwoAt, LockPcs, ArmPcs, UndoPcs
<1>4. CASE /\ proc'[p] = proc[p]
           /\ UNCHANGED <<state, safeboot, run, history, removed, rollback>>
           /\ runOnce' = runOnce \/ consumed'
  BY <1>1, <1>2, <1>4 DEF PhaseTwoAt, WritesOnly
<1>5. CASE ArmBegin(p)
  BY <1>1, <1>5, Permission DEF ArmBegin, PhaseTwoAt, ArmPcs, UndoPcs, TypeOK, Processes, MayArm
<1>6. CASE ArmRunOnce(p)
  BY <1>1, <1>6, GotoOrFaultFrame DEF ArmRunOnce, PhaseTwoAt, ArmPcs, UndoPcs
<1>7. CASE ArmSafeBoot(p)
  BY <1>1, <1>7, GotoOrFaultFrame DEF ArmSafeBoot, PhaseTwoAt, ArmPcs, UndoPcs
<1>8. CASE ArmState(p)
  BY <1>1, <1>8, GotoOrFaultFrame DEF ArmState, PhaseTwoAt, ArmPcs, UndoPcs
<1>9. CASE UndoSafeBoot(p)
  BY <1>1, <1>9, GotoFrame DEF UndoSafeBoot, PhaseTwoAt, ArmPcs, UndoPcs
<1>10. CASE ClearBegin(p)
  BY <1>1, <1>10, Permission
     DEF ClearBegin, PhaseTwoAt, ArmPcs, UndoPcs, TypeOK, Processes, MayClear
<1>11. CASE ClearSafeBoot(p)
  BY <1>1, <1>11, GotoOrFaultFrame DEF ClearSafeBoot, PhaseTwoAt, ArmPcs, UndoPcs
<1>12. CASE ClearState(p)
  <2>1. /\ proc[p].pc = "clear_state" /\ proc'[p].pc \in {"clear_progress", "exit"}
        /\ state' = proc[p].st
        /\ proc'[p].wrote = proc[p].wrote /\ proc'[p].setsb = proc[p].setsb
        /\ UNCHANGED <<consumed, rollback, safeboot, run, removed, history>>
    BY <1>1, <1>12, GotoOrFaultFrame DEF ClearState
  <2>2. state'.stage = PhaseTwoSafeMode
    BY <1>1, <2>1, SessionType DEF PhaseTwoAt, States, ArmPcs
  <2>3. QED BY <1>1, <2>1, <2>2 DEF PhaseTwoAt, ArmPcs, UndoPcs
<1>13. CASE RemoveDriver(p)
  BY <1>1, <1>13, GotoFrame DEF RemoveDriver, PhaseTwoAt, ArmPcs, UndoPcs
<1>14. CASE ArmThreeBegin(p)
  BY <1>1, <1>14, Permission
     DEF ArmThreeBegin, PhaseTwoAt, ArmPcs, UndoPcs, TypeOK, Processes, MayArmThree
<1>15. CASE ArmThreeRun(p)
  <2>1. /\ proc[p].pc = "arm3_run" /\ proc'[p].pc \in {"arm3_state", "exit"}
        /\ proc'[p].st = proc[p].st /\ proc'[p].rt = proc[p].rt /\ proc'[p].user = proc[p].user
        /\ UNCHANGED <<state, removed, safeboot>>
    BY <1>1, <1>15, GotoOrFaultFrame DEF ArmThreeRun
  <2>2. proc[p].user \in Users
    BY <1>1, <2>1 DEF CommandInv
  <2>3. run'[proc[p].user] = proc[p].rt
    BY <1>1, <2>2, <1>15 DEF ArmThreeRun, TypeOK
  <2>4. QED BY <1>1, <2>1, <2>3 DEF PhaseTwoAt
<1>16. CASE ArmThreeState(p)
  <2>1. /\ proc[p].pc = "arm3_state" /\ proc'[p].pc \in {"arm3_progress", "exit"}
        /\ state' = proc[p].st
        /\ proc'[p].wrote = proc[p].wrote /\ proc'[p].setsb = proc[p].setsb
        /\ UNCHANGED <<consumed, rollback, safeboot, run, removed, history>>
    BY <1>1, <1>16, GotoOrFaultFrame DEF ArmThreeState
  <2>2. state'.stage = PhaseThreeArmed
    BY <1>1, <2>1, SessionType DEF PhaseTwoAt, States, ArmPcs
  <2>3. QED BY <1>1, <2>1, <2>2 DEF PhaseTwoAt, ArmPcs, UndoPcs
<1>17. CASE FinalBegin(p)
  BY <1>1, <1>17, FinalBeginCases DEF FinalBegin, PhaseTwoAt, ArmPcs, UndoPcs
<1>18. CASE FinalHistory(p)
  BY <1>1, <1>18, GotoOrFaultFrame DEF FinalHistory, PhaseTwoAt, ArmPcs, UndoPcs
<1>19. CASE FinalState(p)
  BY <1>1, <1>19, GotoOrFaultFrame DEF FinalState, PhaseTwoAt, ArmPcs, UndoPcs
<1>20. CASE Refuse(p)
  <2>1. CASE proc[p].pc \in ArmPcs
    BY <1>1, <1>20, <2>1, GotoFrame DEF Refuse, PhaseTwoAt, ArmPcs, UndoPcs, FailurePc
  <2>2. CASE proc[p].pc \notin ArmPcs
    BY <1>1, <1>20, <2>2, EndFrame DEF Refuse, PhaseTwoAt, ArmPcs, UndoPcs, IdleProcess
  <2>3. QED BY <2>1, <2>2
<1>21. CASE IoFault(p)
  BY <1>1, <1>21, GotoFrame DEF IoFault, PhaseTwoAt, ArmPcs, UndoPcs, FailurePc
<1>22. QED
  BY <1>2, <1>3, <1>4, <1>5, <1>6, <1>7, <1>8, <1>9, <1>10, <1>11, <1>12,
     <1>13, <1>14, <1>15, <1>16, <1>17, <1>18, <1>19, <1>20, <1>21
     DEF MovesAlone, Locked

\* And the final benchmark.
LEMMA FinalStep ==
    ASSUME Inv, [Next]_vars
    PROVE  FinalInv'
<1> SUFFICES ASSUME NEW p \in Procs PROVE FinalAt(p)'
  BY DEF FinalInv
<1> USE DEF At, disk, quiet, NoTransaction, PhaseOneSafeModeArmed, PhaseTwoSafeMode,
     PhaseThreeArmed,
     PhaseThreeComplete
<1>1. /\ TypeOK /\ CommandInv /\ LockInv /\ StageInv /\ SafeBootHasLauncher
      /\ FinalAt(p) /\ RemovalNeverTrapsInSafeMode /\ SameUserHandoff
  BY DEF Inv, FinalInv
<1>2. MovesAlone /\ WritesOnly
  BY <1>1, MoveStep
<1>3. CASE proc'[p].pc \notin LockPcs
  BY <1>3 DEF FinalAt, LockPcs, ArmPcs, UndoPcs
<1>4. CASE /\ proc'[p] = proc[p]
           /\ UNCHANGED <<state, safeboot, run, history, removed, rollback>>
           /\ runOnce' = runOnce \/ consumed'
  BY <1>1, <1>2, <1>4 DEF FinalAt, WritesOnly
<1>5. CASE ArmBegin(p)
  BY <1>1, <1>5, Permission DEF ArmBegin, FinalAt, ArmPcs, UndoPcs, TypeOK, Processes, MayArm
<1>6. CASE ArmRunOnce(p)
  BY <1>1, <1>6, GotoOrFaultFrame DEF ArmRunOnce, FinalAt, ArmPcs, UndoPcs
<1>7. CASE ArmSafeBoot(p)
  BY <1>1, <1>7, GotoOrFaultFrame DEF ArmSafeBoot, FinalAt, ArmPcs, UndoPcs
<1>8. CASE ArmState(p)
  BY <1>1, <1>8, GotoOrFaultFrame DEF ArmState, FinalAt, ArmPcs, UndoPcs
<1>9. CASE UndoSafeBoot(p)
  BY <1>1, <1>9, GotoFrame DEF UndoSafeBoot, FinalAt, ArmPcs, UndoPcs
<1>10. CASE ClearBegin(p)
  BY <1>1, <1>10, Permission
     DEF ClearBegin, FinalAt, ArmPcs, UndoPcs, TypeOK, Processes, MayClear
<1>11. CASE ClearSafeBoot(p)
  BY <1>1, <1>11, GotoOrFaultFrame DEF ClearSafeBoot, FinalAt, ArmPcs, UndoPcs
<1>12. CASE ClearState(p)
  BY <1>1, <1>12, GotoOrFaultFrame DEF ClearState, FinalAt, ArmPcs, UndoPcs
<1>13. CASE RemoveDriver(p)
  BY <1>1, <1>13, GotoFrame DEF RemoveDriver, FinalAt, ArmPcs, UndoPcs
<1>14. CASE ArmThreeBegin(p)
  BY <1>1, <1>14, Permission
     DEF ArmThreeBegin, FinalAt, ArmPcs, UndoPcs, TypeOK, Processes, MayArmThree
<1>15. CASE ArmThreeRun(p)
  BY <1>1, <1>15, GotoOrFaultFrame DEF ArmThreeRun, FinalAt, ArmPcs, UndoPcs
<1>16. CASE ArmThreeState(p)
  BY <1>1, <1>16, GotoOrFaultFrame DEF ArmThreeState, FinalAt, ArmPcs, UndoPcs
<1>17. CASE FinalBegin(p)
  BY <1>1, <1>17, FinalBeginCases DEF FinalBegin, FinalAt, ArmPcs, UndoPcs
<1>18. CASE FinalHistory(p)
  BY <1>1, <1>18, GotoOrFaultFrame DEF FinalHistory, FinalAt, ArmPcs, UndoPcs
<1>19. CASE FinalState(p)
  <2>1. /\ proc[p].pc = "fb_state" /\ proc'[p].pc \in {"fb_progress", "exit"}
        /\ state' = proc[p].st
        /\ proc'[p].wrote = proc[p].wrote /\ proc'[p].setsb = proc[p].setsb
        /\ UNCHANGED <<consumed, rollback, safeboot, run, removed, history>>
    BY <1>1, <1>19, GotoOrFaultFrame DEF FinalState
  <2>2. state'.stage = PhaseThreeComplete
    BY <1>1, <2>1, SessionType DEF FinalAt, States, ArmPcs
  <2>3. QED BY <1>1, <2>1, <2>2 DEF FinalAt, ArmPcs, UndoPcs
<1>20. CASE Refuse(p)
  <2>1. CASE proc[p].pc \in ArmPcs
    BY <1>1, <1>20, <2>1, GotoFrame DEF Refuse, FinalAt, ArmPcs, UndoPcs, FailurePc
  <2>2. CASE proc[p].pc \notin ArmPcs
    BY <1>1, <1>20, <2>2, EndFrame DEF Refuse, FinalAt, ArmPcs, UndoPcs, IdleProcess
  <2>3. QED BY <2>1, <2>2
<1>21. CASE IoFault(p)
  BY <1>1, <1>21, GotoFrame DEF IoFault, FinalAt, ArmPcs, UndoPcs, FailurePc
<1>22. QED
  BY <1>2, <1>3, <1>4, <1>5, <1>6, <1>7, <1>8, <1>9, <1>10, <1>11, <1>12,
     <1>13, <1>14, <1>15, <1>16, <1>17, <1>18, <1>19, <1>20, <1>21
     DEF MovesAlone, Locked

-----------------------------------------------------------------------------
(* The machine *)

\* What the writes of state.json leave there.
LEMMA StateWrites ==
    ASSUME Inv, NEW p \in Procs
    PROVE  /\ ArmState(p) =>
                /\ state.stage <= PhaseOneSafeModeArmed
                /\ state'.stage = PhaseOneSafeModeArmed /\ state'.ready
                /\ state'.runtime = proc[p].rt /\ state'.sid = proc[p].user
                /\ state'.final = state.final /\ proc[p].rt # 0 /\ proc[p].user \in Users
                /\ state.stage # NoTransaction =>
                      state.runtime = proc[p].rt /\ state.sid = proc[p].user
           /\ ClearState(p) =>
                /\ state.stage = PhaseOneSafeModeArmed /\ state'.stage = PhaseTwoSafeMode
                /\ state'.ready = state.ready /\ state'.runtime = state.runtime
                /\ state'.sid = state.sid /\ state'.final = state.final
                /\ safeboot = "absent"
           /\ ArmThreeState(p) =>
                /\ state.stage = PhaseTwoSafeMode /\ state'.stage = PhaseThreeArmed
                /\ state'.ready = state.ready /\ state'.runtime = state.runtime
                /\ state'.sid = state.sid /\ state'.final = state.final
                /\ removed /\ run[state.sid] = state.runtime
           /\ FinalState(p) =>
                /\ state.stage \in {PhaseThreeArmed, PhaseThreeComplete}
                /\ state'.stage = PhaseThreeComplete
                /\ state'.ready = state.ready /\ state'.runtime = state.runtime
                /\ state'.sid = state.sid /\ state'.final
                /\ history
<1>1. state \in States
  BY SessionType DEF Inv
<1>2. ArmingAt(p) /\ PhaseTwoAt(p) /\ FinalAt(p) /\ CommandInv
  BY DEF Inv, ArmingInv, PhaseTwoInv, FinalInv
<1>3. ASSUME ArmState(p)
      PROVE  /\ state.stage <= PhaseOneSafeModeArmed
             /\ state'.stage = PhaseOneSafeModeArmed /\ state'.ready
             /\ state'.runtime = proc[p].rt /\ state'.sid = proc[p].user
             /\ state'.final = state.final /\ proc[p].rt # 0 /\ proc[p].user \in Users
             /\ state.stage # NoTransaction =>
                   state.runtime = proc[p].rt /\ state.sid = proc[p].user
  BY <1>1, <1>2, <1>3
     DEF ArmState, At, ArmingAt, ArmPcs, States, CommandInv, RuntimePcs, Pcs, LockPcs
<1>4. ASSUME ClearState(p)
      PROVE  /\ state.stage = PhaseOneSafeModeArmed /\ state'.stage = PhaseTwoSafeMode
             /\ state'.ready = state.ready /\ state'.runtime = state.runtime
             /\ state'.sid = state.sid /\ state'.final = state.final
             /\ safeboot = "absent"
  BY <1>1, <1>2, <1>4 DEF ClearState, At, PhaseTwoAt, States
<1>5. ASSUME ArmThreeState(p)
      PROVE  /\ state.stage = PhaseTwoSafeMode /\ state'.stage = PhaseThreeArmed
             /\ state'.ready = state.ready /\ state'.runtime = state.runtime
             /\ state'.sid = state.sid /\ state'.final = state.final
             /\ removed /\ run[state.sid] = state.runtime
  BY <1>1, <1>2, <1>5 DEF ArmThreeState, At, PhaseTwoAt, States
<1>6. ASSUME FinalState(p)
      PROVE  /\ state.stage \in {PhaseThreeArmed, PhaseThreeComplete}
             /\ state'.stage = PhaseThreeComplete
             /\ state'.ready = state.ready /\ state'.runtime = state.runtime
             /\ state'.sid = state.sid /\ state'.final
             /\ history
  BY <1>1, <1>2, <1>6 DEF FinalState, At, FinalAt, States
<1>7. QED BY <1>3, <1>4, <1>5, <1>6

\* The transaction only moves forward, and what it has recorded stays.
Grows == /\ state.ready => state'.ready
         /\ state'.stage >= state.stage
         /\ state.final => state'.final
         /\ removed => removed'
         /\ history => history'

MachineInv == /\ StageInv /\ RemovalNeverTrapsInSafeMode
              /\ SameUserHandoff /\ HandoffRetained

\* Every write of the machine's state keeps the invariant and goes forward.
LEMMA MachineStep ==
    ASSUME Inv, [Next]_vars
    PROVE  MachineInv' /\ Grows
<1> USE NoUserAssumption
     DEF At, disk, quiet, NoTransaction, PhaseOneSafeModeArmed, PhaseTwoSafeMode,
     PhaseThreeArmed,
     PhaseThreeComplete
<1>1. /\ TypeOK /\ CommandInv /\ MachineInv
      /\ \A p \in Procs : ArmingAt(p) /\ PhaseTwoAt(p) /\ FinalAt(p)
  BY DEF Inv, MachineInv, ArmingInv, PhaseTwoInv, FinalInv
<1>2. state.stage \in 0 .. 4 /\ run \in [Users -> GenOrNone]
  BY <1>1 DEF TypeOK, States, Stages
<1>3. CASE UNCHANGED <<state, safeboot, run, history, removed>>
  BY <1>1, <1>2, <1>3 DEF Grows, MachineInv, StageInv, RemovalNeverTrapsInSafeMode,
     SameUserHandoff, HandoffRetained
<1>4. ASSUME NEW p \in Procs, ArmSafeBoot(p) PROVE MachineInv' /\ Grows
  <2>1. /\ state.stage <= PhaseOneSafeModeArmed
        /\ UNCHANGED <<state, run, history, removed>>
    BY <1>1, <1>4 DEF ArmSafeBoot, ArmingAt, ArmPcs
  <2>2. QED BY <1>1, <1>2, <2>1 DEF Grows, MachineInv, StageInv, RemovalNeverTrapsInSafeMode,
       SameUserHandoff, HandoffRetained
<1>5. ASSUME NEW p \in Procs, ArmState(p) PROVE MachineInv' /\ Grows
  <2>1. UNCHANGED <<safeboot, run, history, removed>>
    BY <1>5 DEF ArmState
  <2>2. StageInv' /\ Grows
    BY <1>1, <1>2, <1>5, <2>1, StateWrites DEF MachineInv, StageInv, Grows
  <2>3. RemovalNeverTrapsInSafeMode'
    BY <1>1, <1>2, <1>5, <2>1, StateWrites DEF MachineInv, RemovalNeverTrapsInSafeMode
  <2>4. SameUserHandoff'
    BY <1>1, <1>2, <1>5, <2>1, StateWrites DEF MachineInv, SameUserHandoff
  <2>5. HandoffRetained'
    BY <1>1, <1>2, <1>5, <2>1, StateWrites DEF MachineInv, StageInv, HandoffRetained
  <2>6. QED BY <2>2, <2>3, <2>4, <2>5 DEF MachineInv
<1>6. ASSUME NEW p \in Procs, UndoSafeBoot(p) PROVE MachineInv' /\ Grows
  <2>1. /\ safeboot' \in {"absent", safeboot}
        /\ UNCHANGED <<state, run, history, removed>>
    BY <1>1, <1>6 DEF UndoSafeBoot
  <2>2. QED BY <1>1, <1>2, <2>1 DEF Grows, MachineInv, StageInv, RemovalNeverTrapsInSafeMode,
       SameUserHandoff, HandoffRetained
<1>7. ASSUME NEW p \in Procs, ClearSafeBoot(p) PROVE MachineInv' /\ Grows
  <2>1. /\ safeboot' = "absent"
        /\ UNCHANGED <<state, run, history, removed>>
    BY <1>1, <1>7 DEF ClearSafeBoot
  <2>2. QED BY <1>1, <1>2, <2>1 DEF Grows, MachineInv, StageInv, RemovalNeverTrapsInSafeMode,
       SameUserHandoff, HandoffRetained
<1>8. ASSUME NEW p \in Procs, ClearState(p) PROVE MachineInv' /\ Grows
  <2>1. UNCHANGED <<safeboot, run, history, removed>>
    BY <1>8 DEF ClearState
  <2>2. StageInv' /\ Grows
    BY <1>1, <1>2, <1>8, <2>1, StateWrites DEF MachineInv, StageInv, Grows
  <2>3. RemovalNeverTrapsInSafeMode'
    BY <1>1, <1>2, <1>8, <2>1, StateWrites DEF MachineInv, RemovalNeverTrapsInSafeMode
  <2>4. SameUserHandoff'
    BY <1>1, <1>2, <1>8, <2>1, StateWrites DEF MachineInv, SameUserHandoff
  <2>5. HandoffRetained'
    BY <1>1, <1>2, <1>8, <2>1, StateWrites DEF MachineInv, StageInv, HandoffRetained
  <2>6. QED BY <2>2, <2>3, <2>4, <2>5 DEF MachineInv
<1>9. ASSUME NEW p \in Procs, RemoveDriver(p) PROVE MachineInv' /\ Grows
  <2>1. removed' /\ UNCHANGED <<state, run, safeboot, history>>
    BY <1>9 DEF RemoveDriver
  <2>2. Grounded(proc[p].pr) /\ "P2_1" \in proc[p].pr
    BY <1>1, <1>9 DEF Inv, SnapshotInv, CommandInv, RemoveDriver
  <2>3. QED BY <1>1, <1>2, <2>1, <2>2
       DEF Grounded, Grows, MachineInv, StageInv, RemovalNeverTrapsInSafeMode,
       SameUserHandoff, HandoffRetained
<1>10. ASSUME NEW p \in Procs, ArmThreeRun(p) PROVE MachineInv' /\ Grows
  <2>1. /\ state.stage = PhaseTwoSafeMode
        /\ state.runtime = proc[p].rt /\ state.sid = proc[p].user
        /\ run' = [run EXCEPT ![state.sid] = state.runtime]
        /\ UNCHANGED <<state, safeboot, history, removed>>
    BY <1>1, <1>10 DEF ArmThreeRun, PhaseTwoAt
  <2>2. QED BY <1>1, <1>2, <2>1 DEF Grows, MachineInv, StageInv, RemovalNeverTrapsInSafeMode,
       SameUserHandoff, HandoffRetained
<1>11. ASSUME NEW p \in Procs, ArmThreeState(p) PROVE MachineInv' /\ Grows
  <2>1. UNCHANGED <<safeboot, run, history, removed>>
    BY <1>11 DEF ArmThreeState
  <2>2. StageInv' /\ Grows
    BY <1>1, <1>2, <1>11, <2>1, StateWrites DEF MachineInv, StageInv, Grows
  <2>3. RemovalNeverTrapsInSafeMode'
    BY <1>1, <1>2, <1>11, <2>1, StateWrites DEF MachineInv, RemovalNeverTrapsInSafeMode
  <2>4. SameUserHandoff'
    BY <1>1, <1>2, <1>11, <2>1, StateWrites DEF MachineInv, SameUserHandoff
  <2>5. HandoffRetained'
    BY <1>1, <1>2, <1>11, <2>1, StateWrites DEF MachineInv, StageInv, HandoffRetained
  <2>6. QED BY <2>2, <2>3, <2>4, <2>5 DEF MachineInv
<1>12. ASSUME NEW p \in Procs, FinalHistory(p) PROVE MachineInv' /\ Grows
  <2>1. /\ history'
        /\ UNCHANGED <<state, run, safeboot, removed>>
    BY <1>1, <1>12 DEF FinalHistory
  <2>2. QED BY <1>1, <1>2, <2>1 DEF Grows, MachineInv, StageInv, RemovalNeverTrapsInSafeMode,
       SameUserHandoff, HandoffRetained
<1>13. ASSUME NEW p \in Procs, FinalState(p) PROVE MachineInv' /\ Grows
  <2>1. UNCHANGED <<safeboot, run, history, removed>>
    BY <1>13 DEF FinalState
  <2>2. StageInv' /\ Grows
    BY <1>1, <1>2, <1>13, <2>1, StateWrites DEF MachineInv, StageInv, Grows
  <2>3. RemovalNeverTrapsInSafeMode'
    BY <1>1, <1>2, <1>13, <2>1, StateWrites DEF MachineInv, RemovalNeverTrapsInSafeMode
  <2>4. SameUserHandoff'
    BY <1>1, <1>2, <1>13, <2>1, StateWrites DEF MachineInv, SameUserHandoff
  <2>5. HandoffRetained'
    BY <1>1, <1>2, <1>13, <2>1, StateWrites DEF MachineInv, StageInv, HandoffRetained
  <2>6. QED BY <2>2, <2>3, <2>4, <2>5 DEF MachineInv
<1>14. ASSUME NEW p \in Procs, ClearRun(p) PROVE MachineInv' /\ Grows
  <2>1. /\ state.final /\ state.stage = PhaseThreeComplete /\ history
        /\ \A u \in Users : run'[u] \in {0, run[u]}
        /\ UNCHANGED <<state, safeboot, history, removed>>
    BY <1>1, <1>2, <1>14, Permission DEF ClearRun, MayClearRun, FinalCoherent
  <2>2. QED BY <1>1, <1>2, <2>1 DEF Grows, MachineInv, StageInv, RemovalNeverTrapsInSafeMode,
       SameUserHandoff, HandoffRetained
<1>15. WritesOnly
  BY <1>1, MoveStep DEF Inv
<1>16. QED
  BY <1>15, <1>3, <1>4, <1>5, <1>6, <1>7, <1>8, <1>9, <1>10, <1>11, <1>12, <1>13, <1>14
     DEF WritesOnly, Writes

\* The RunOnce value goes only when Safe Boot is gone, or by Windows.
LEMMA LauncherStep ==
    ASSUME Inv, [Next]_vars
    PROVE  SafeBootHasLauncher'
<1> USE DEF At, disk, quiet
<1>1. TypeOK /\ SafeBootHasLauncher /\ \A p \in Procs : ArmingAt(p)
  BY DEF Inv, ArmingInv
<1>2. WritesOnly
  BY MoveStep DEF Inv
<1>3. ASSUME NEW p \in Procs, UndoRunOnce(p) PROVE SafeBootHasLauncher'
  BY <1>1, <1>3 DEF UndoRunOnce, ArmingAt, ArmPcs, UndoPcs, SafeBootHasLauncher
<1>4. ASSUME NEW p \in Procs, ArmSafeBoot(p) PROVE SafeBootHasLauncher'
  BY <1>1, <1>4 DEF ArmSafeBoot, ArmingAt, SafeBootHasLauncher
<1>5. ASSUME NEW p \in Procs, Writes(p), ~ArmSafeBoot(p)
      PROVE  safeboot' \in {"absent", safeboot}
  BY <1>5 DEF Writes, ArmState, UndoSafeBoot, ClearSafeBoot, ClearState, RemoveDriver,
     ArmThreeRun, ArmThreeState, FinalHistory, FinalState, ClearRun
<1>6. QED
  BY <1>1, <1>2, <1>3, <1>4, <1>5 DEF WritesOnly, SafeBootHasLauncher

-----------------------------------------------------------------------------
(* The recorded keys *)

\* The steps of p that record a key.
Records(p) ==
    \/ PhaseOneWork(p) \/ ArmProgress(p) \/ ClearProgress(p) \/ PersistRemoval(p)
    \/ DeclineRemoval(p) \/ ArmThreeProgress(p) \/ InstallDriver(p)
    \/ PhaseThreeWork(p) \/ FinalProgress(p)

\* A command's session is what it read, what it wrote, or empty.
SessionMoves ==
    /\ \A x \in Procs : proc'[x].pr \in {proc[x].pr, progress, progress', {}}
    /\ progress' \in {progress, {}} \/ \E p \in Procs : Records(p)

\* After an engine step p holds what it held or what is now on disk.
LEMMA EngineSession ==
    ASSUME TypeOK, NEW p \in Procs, NEW key, NEW q, PersistEngineProgress(p, key, q)
    PROVE  \A x \in Procs : proc'[x].pr \in {proc[x].pr, progress'}
<1>1. key \in proc[p].pr => proc[p].pr \cup {key} = proc[p].pr
  OBVIOUS
<1>2. key \notin proc[p].pr => progress' = proc[p].pr \cup {key}
  BY DEF PersistEngineProgress
<1>3. QED BY <1>1, <1>2, EngineFrame

\* Every action is of this form.
LEMMA SessionStep ==
    ASSUME TypeOK, [Next]_vars
    PROVE  SessionMoves
<1> USE NoProcAssumption, NoUserAssumption DEF At, disk, quiet, SessionMoves, Records
<1>1. ASSUME NEW p \in Procs, Authorize(p) PROVE SessionMoves
  BY <1>1, GotoFrame DEF Authorize
<1>2. ASSUME NEW p \in Procs, PhaseOneWork(p) PROVE SessionMoves
  BY <1>2, EngineSession DEF PhaseOneWork
<1>3. ASSUME NEW p \in Procs, PublishRuntime(p) PROVE SessionMoves
  BY <1>3 DEF PublishRuntime, TypeOK, Processes
<1>4. ASSUME NEW p \in Procs, DeclineArming(p) PROVE SessionMoves
  BY <1>4, GotoFrame DEF DeclineArming
<1>5. ASSUME NEW p \in Procs, LaunchArming(p) PROVE SessionMoves
  BY <1>5 DEF LaunchArming, TypeOK, Processes
<1>6. ASSUME NEW p \in Procs, ArmBegin(p) PROVE SessionMoves
  BY <1>6 DEF ArmBegin, TypeOK, Processes
<1>7. ASSUME NEW p \in Procs, ArmRunOnce(p) PROVE SessionMoves
  BY <1>7, GotoOrFaultFrame DEF ArmRunOnce
<1>8. ASSUME NEW p \in Procs, ArmSafeBoot(p) PROVE SessionMoves
  BY <1>8, GotoOrFaultFrame DEF ArmSafeBoot
<1>9. ASSUME NEW p \in Procs, ArmState(p) PROVE SessionMoves
  BY <1>9, GotoOrFaultFrame DEF ArmState
<1>10. ASSUME NEW p \in Procs, ArmProgress(p) PROVE SessionMoves
  BY <1>10, GotoFrame DEF ArmProgress
<1>11. ASSUME NEW p \in Procs, UndoSafeBoot(p) PROVE SessionMoves
  BY <1>11, GotoFrame DEF UndoSafeBoot
<1>12. ASSUME NEW p \in Procs, UndoRunOnce(p) PROVE SessionMoves
  BY <1>12, GotoFrame DEF UndoRunOnce
<1>13. ASSUME NEW p \in Procs, ClearBegin(p) PROVE SessionMoves
  BY <1>13 DEF ClearBegin, TypeOK, Processes
<1>14. ASSUME NEW p \in Procs, ClearSafeBoot(p) PROVE SessionMoves
  BY <1>14, GotoOrFaultFrame DEF ClearSafeBoot
<1>15. ASSUME NEW p \in Procs, ClearState(p) PROVE SessionMoves
  BY <1>15, GotoOrFaultFrame DEF ClearState
<1>16. ASSUME NEW p \in Procs, ClearProgress(p) PROVE SessionMoves
  BY <1>16 DEF ClearProgress, TypeOK, Processes
<1>17. ASSUME NEW p \in Procs, RemoveDriver(p) PROVE SessionMoves
  BY <1>17, GotoFrame DEF RemoveDriver
<1>18. ASSUME NEW p \in Procs, PersistRemoval(p) PROVE SessionMoves
  BY <1>18, EngineSession DEF PersistRemoval
<1>19. ASSUME NEW p \in Procs, DeclineRemoval(p) PROVE SessionMoves
  BY <1>19, EngineSession DEF DeclineRemoval
<1>20. ASSUME NEW p \in Procs, RemovalRecorded(p) PROVE SessionMoves
  BY <1>20, GotoFrame DEF RemovalRecorded
<1>21. ASSUME NEW p \in Procs, ArmThreeBegin(p) PROVE SessionMoves
  BY <1>21 DEF ArmThreeBegin, TypeOK, Processes
<1>22. ASSUME NEW p \in Procs, ArmThreeRun(p) PROVE SessionMoves
  BY <1>22, GotoOrFaultFrame DEF ArmThreeRun
<1>23. ASSUME NEW p \in Procs, ArmThreeState(p) PROVE SessionMoves
  BY <1>23, GotoOrFaultFrame DEF ArmThreeState
<1>24. ASSUME NEW p \in Procs, ArmThreeProgress(p) PROVE SessionMoves
  BY <1>24, GotoFrame DEF ArmThreeProgress
<1>25. ASSUME NEW p \in Procs, RelaunchPhaseThree(p) PROVE SessionMoves
  BY <1>25 DEF RelaunchPhaseThree, TypeOK, Processes
<1>26. ASSUME NEW p \in Procs, RoutePhaseThree(p) PROVE SessionMoves
  BY <1>26, GotoFrame DEF RoutePhaseThree
<1>27. ASSUME NEW p \in Procs, InstallDriver(p) PROVE SessionMoves
  <2>1. CASE Goto(p, "p3rest") /\ UNCHANGED <<quiet, disk, faults, lock>>
    BY <1>27, <2>1, GotoFrame
  <2>2. ASSUME NEW key, PersistEngineProgress(p, key, "p3rest")
        PROVE  SessionMoves
    BY <1>27, <2>2, EngineSession
  <2>3. QED BY <1>27, <2>1, <2>2, InstallCases
<1>28. ASSUME NEW p \in Procs, PhaseThreeWork(p) PROVE SessionMoves
  BY <1>28, EngineSession DEF PhaseThreeWork
<1>29. ASSUME NEW p \in Procs, RouteAgain(p) PROVE SessionMoves
  BY <1>29 DEF RouteAgain, TypeOK, Processes, GotoReloaded
<1>30. ASSUME NEW p \in Procs, FinalBegin(p) PROVE SessionMoves
  BY <1>30, FinalBeginCases
<1>31. ASSUME NEW p \in Procs, FinalHistory(p) PROVE SessionMoves
  BY <1>31, GotoOrFaultFrame DEF FinalHistory
<1>32. ASSUME NEW p \in Procs, FinalState(p) PROVE SessionMoves
  BY <1>32, GotoOrFaultFrame DEF FinalState
<1>33. ASSUME NEW p \in Procs, FinalProgress(p) PROVE SessionMoves
  BY <1>33 DEF FinalProgress, TypeOK, Processes
<1>34. ASSUME NEW p \in Procs, AuthorizeClear(p) PROVE SessionMoves
  BY <1>34, GotoFrame DEF AuthorizeClear
<1>35. ASSUME NEW p \in Procs, ClearRun(p) PROVE SessionMoves
  BY <1>35, GotoFrame DEF ClearRun
<1>36. ASSUME NEW p \in Procs, ResetProgress(p) PROVE SessionMoves
  BY <1>36, GotoFrame DEF ResetProgress
<1>37. ASSUME NEW p \in Procs, Refuse(p) PROVE SessionMoves
  <2>1. CASE proc[p].pc \in ArmPcs
    BY <1>37, <2>1, GotoFrame DEF Refuse
  <2>2. CASE proc[p].pc \notin ArmPcs
    BY <1>37, <2>2, EndFrame DEF Refuse, IdleProcess
  <2>3. QED BY <2>1, <2>2
<1>38. ASSUME NEW p \in Procs, Exit(p) PROVE SessionMoves
  BY <1>38, EndFrame DEF Exit, IdleProcess
<1>39. ASSUME NEW p \in Procs, IoFault(p) PROVE SessionMoves
  BY <1>39, GotoFrame DEF IoFault
<1>40. ASSUME NEW p \in Procs, Crash(p) PROVE SessionMoves
  BY <1>40, EndFrame DEF Crash, IdleProcess
<1>41. ASSUME NEW p \in Procs, NEW u \in Users, SignInPhaseTwo(p, u) PROVE SessionMoves
  BY <1>41 DEF SignInPhaseTwo, Launched, IdleProcess, TypeOK, Processes
<1>42. ASSUME NEW p \in Procs, NEW u \in Users, SignInPhaseThree(p, u) PROVE SessionMoves
  BY <1>42 DEF SignInPhaseThree, Launched, IdleProcess, TypeOK, Processes
<1>43. ASSUME NEW p \in Procs, NEW u \in Users, NEW c \in Commands, Start(p, c, u)
      PROVE  SessionMoves
  BY <1>43 DEF Start, IdleProcess, TypeOK, Processes
<1>44. ASSUME Reboot PROVE SessionMoves
  BY <1>44 DEF Reboot, IdleProcess
<1>45. CASE UNCHANGED vars
  BY <1>45 DEF vars
<1>46. QED
  BY <1>1, <1>2, <1>3, <1>4, <1>5, <1>6, <1>7, <1>8, <1>9, <1>10, <1>11, <1>12,
     <1>13, <1>14, <1>15, <1>16, <1>17, <1>18, <1>19, <1>20, <1>21, <1>22, <1>23,
     <1>24, <1>25, <1>26, <1>27, <1>28, <1>29, <1>30, <1>31, <1>32, <1>33, <1>34,
     <1>35, <1>36, <1>37, <1>38, <1>39, <1>40, <1>41, <1>42, <1>43, <1>44, <1>45
     DEF Next, Step, Disturb, SignIn

\* A key is recorded after what it stands for.
LEMMA KeyStep ==
    ASSUME Inv, [Next]_vars, NEW p \in Procs, Records(p)
    PROVE  ProgressNeverAhead'
<1> USE DEF At, quiet, NoTransaction, PhaseOneSafeModeArmed, PhaseTwoSafeMode, PhaseThreeArmed,
        PhaseThreeComplete
<1>1. /\ TypeOK /\ StageInv /\ Grounded(proc[p].pr) /\ Grounded(progress)
      /\ ArmingAt(p) /\ PhaseTwoAt(p) /\ FinalAt(p)
  BY DEF Inv, SnapshotInv, ProgressNeverAhead, ArmingInv, PhaseTwoInv, FinalInv
<1>2. state.stage \in 0 .. 4
  BY <1>1 DEF TypeOK, States, Stages
<1>3. ASSUME UNCHANGED <<state, history, removed>>,
             \/ progress' = progress
             \/ \E key \in {"P1", "P2_2_skipped", "P3_1", "P3_1_skipped", "P3_rest"} :
                   progress' = proc[p].pr \cup {key}
      PROVE  ProgressNeverAhead'
  BY <1>1, <1>3 DEF Grounded, ProgressNeverAhead
<1>4. CASE PhaseOneWork(p)
  BY <1>3, <1>4 DEF PhaseOneWork, PersistEngineProgress
<1>5. CASE DeclineRemoval(p)
  BY <1>3, <1>5 DEF DeclineRemoval, PersistEngineProgress
<1>6. CASE PhaseThreeWork(p)
  BY <1>3, <1>6 DEF PhaseThreeWork, PersistEngineProgress
<1>7. CASE InstallDriver(p)
  BY <1>3, <1>7 DEF InstallDriver, PersistEngineProgress, disk
<1>8. CASE ArmProgress(p)
  BY <1>1, <1>2, <1>8 DEF ArmProgress, ArmingAt, Grounded, ProgressNeverAhead, StageInv
<1>9. CASE ClearProgress(p)
  BY <1>1, <1>2, <1>9 DEF ClearProgress, PhaseTwoAt, Grounded, ProgressNeverAhead
<1>10. CASE PersistRemoval(p)
  <2>1. removed /\ UNCHANGED <<state, history, removed>>
        /\ progress' \in {progress, proc[p].pr \cup {"P2_2"}}
    BY <1>1, <1>10 DEF PersistRemoval, PersistEngineProgress, PhaseTwoAt
  <2>2. QED BY <1>1, <2>1 DEF Grounded, ProgressNeverAhead
<1>11. CASE ArmThreeProgress(p)
  BY <1>1, <1>2, <1>11 DEF ArmThreeProgress, PhaseTwoAt, Grounded, ProgressNeverAhead
<1>12. CASE FinalProgress(p)
  BY <1>1, <1>2, <1>12 DEF FinalProgress, FinalAt, Grounded, ProgressNeverAhead, StageInv
<1>13. QED
  BY <1>4, <1>5, <1>6, <1>7, <1>8, <1>9, <1>10, <1>11, <1>12 DEF Records

\* A key that was grounded stays grounded, whoever writes it again.
LEMMA ProgressStep ==
    ASSUME Inv, [Next]_vars
    PROVE  ProgressNeverAhead' /\ SnapshotInv'
<1> USE DEF PhaseOneSafeModeArmed, PhaseTwoSafeMode, PhaseThreeArmed, PhaseThreeComplete
<1>1. SessionMoves
  BY SessionStep DEF Inv
<1>2. Grows /\ TypeOK'
  BY MachineStep, TypeStep DEF Inv
<1>3. state.stage \in 0 .. 4 /\ state'.stage \in 0 .. 4
  BY <1>2 DEF Inv, TypeOK, States, Stages
<1>4. /\ "P1_38" \in progress => state'.ready /\ state'.stage >= PhaseOneSafeModeArmed
      /\ "P2_1"  \in progress => state'.stage >= PhaseTwoSafeMode
      /\ "P2_2"  \in progress => removed'
      /\ "P2_3"  \in progress => state'.stage >= PhaseThreeArmed
      /\ "P3_13" \in progress => state'.stage = PhaseThreeComplete /\ state'.final /\ history'
  BY <1>2, <1>3 DEF Inv, ProgressNeverAhead, Grounded, Grows
<1>5. ProgressNeverAhead'
  BY <1>1, <1>4, KeyStep DEF SessionMoves, ProgressNeverAhead, Grounded
<1>6. ASSUME NEW p \in Procs PROVE Grounded(proc[p].pr)'
  <2>1. Grounded(proc[p].pr)
    BY DEF Inv, SnapshotInv
  <2>2. CASE proc'[p].pr = proc[p].pr
    BY <1>2, <1>3, <2>1, <2>2 DEF Grounded, Grows
  <2>3. CASE proc'[p].pr = progress
    BY <1>4, <2>3 DEF Grounded
  <2>4. CASE proc'[p].pr = progress'
    BY <1>5, <2>4 DEF Grounded, ProgressNeverAhead
  <2>5. CASE proc'[p].pr = {}
    BY <2>5 DEF Grounded
  <2>6. QED BY <1>1, <2>2, <2>3, <2>4, <2>5 DEF SessionMoves
<1>7. QED BY <1>5, <1>6 DEF SnapshotInv

-----------------------------------------------------------------------------
(* The theorems *)

\* A machine on which frametime was never run satisfies the invariant.
LEMMA InvInit == Init => Inv
<1> SUFFICES ASSUME Init PROVE Inv
  OBVIOUS
<1> USE DEF NoTransaction, PhaseOneSafeModeArmed, PhaseTwoSafeMode, PhaseThreeArmed,
            PhaseThreeComplete
<1>1. TypeOK
  <2>1. proc \in [Procs -> Processes] /\ state \in States /\ lock \in Procs \cup {NoProc}
    BY IdleType DEF Init
  <2>2. run \in [Users -> GenOrNone] /\ runOnce \in GenOrNone /\ selected \in GenOrNone
    BY ZeroType DEF Init
  <2>3. faults \in 0 .. MaxFaults
    BY MaxFaultsAssumption DEF Init
  <2>4. QED BY <2>1, <2>2, <2>3 DEF Init, TypeOK
<1>2. \A p \in Procs : proc[p].pc = "idle" /\ proc[p].pr = {}
  BY DEF Init, IdleProcess
<1>3. CommandInv /\ LockInv
  BY <1>2 DEF CommandInv, LockInv, RuntimePcs, LockPcs, ArmPcs, UndoPcs
<1>4. StageInv /\ RemovalNeverTrapsInSafeMode /\ HandoffRetained /\ SafeBootHasLauncher
  BY DEF Init, EmptyState, StageInv, RemovalNeverTrapsInSafeMode, HandoffRetained,
     SafeBootHasLauncher
<1>5. SameUserHandoff
  BY DEF Init, SameUserHandoff
<1>6. SnapshotInv /\ ProgressNeverAhead
  BY <1>2 DEF Init, SnapshotInv, ProgressNeverAhead, Grounded
<1>7. ArmingInv /\ PhaseTwoInv /\ FinalInv
  BY <1>2 DEF ArmingInv, ArmingAt, PhaseTwoInv, PhaseTwoAt, FinalInv, FinalAt, ArmPcs, UndoPcs
<1>8. QED BY <1>1, <1>3, <1>4, <1>5, <1>6, <1>7 DEF Inv

\* Every step of every command, every fault, sign-in and restart keeps it.
LEMMA InvStep == Inv /\ [Next]_vars => Inv'
<1> SUFFICES ASSUME Inv, [Next]_vars PROVE Inv'
  OBVIOUS
<1>1. TypeOK' /\ CommandInv' /\ LockInv'
  BY TypeStep, ControlStep DEF Inv
<1>2. ArmingInv' /\ PhaseTwoInv' /\ FinalInv'
  BY ArmingStep, PhaseTwoStep, FinalStep
<1>3. MachineInv'
  BY MachineStep
<1>4. SafeBootHasLauncher'
  BY LauncherStep
<1>5. ProgressNeverAhead' /\ SnapshotInv'
  BY ProgressStep
<1>6. QED BY <1>1, <1>2, <1>3, <1>4, <1>5 DEF Inv, MachineInv

\* The invariant holds throughout, for any number of processes, users,
\* generations and faults.
THEOREM InvHolds == Spec => []Inv
<1>1. QED BY InvInit, InvStep, PTL DEF Spec

\* Type correctness of the workflow.
THEOREM HandoffTypeCorrect == Spec => []TypeOK
<1>1. Inv => TypeOK
  BY DEF Inv
<1>2. QED BY <1>1, InvHolds, PTL

\* A machine set to start in Safe Mode has something to start there, unless
\* Windows used it up or the rollback of P1:38 said it was incomplete.
THEOREM SafeBootIsLaunchable == Spec => []SafeBootHasLauncher
<1>1. Inv => SafeBootHasLauncher
  BY DEF Inv
<1>2. QED BY <1>1, InvHolds, PTL

\* After the display driver is removed the machine starts normally.
THEOREM RemovalLeavesSafeMode == Spec => []RemovalNeverTrapsInSafeMode
<1>1. Inv => RemovalNeverTrapsInSafeMode
  BY DEF Inv
<1>2. QED BY <1>1, InvHolds, PTL

\* progress.json never claims a handoff step that the other files do not show.
THEOREM ProgressIsGrounded == Spec => []ProgressNeverAhead
<1>1. Inv => ProgressNeverAhead
  BY DEF Inv
<1>2. QED BY <1>1, InvHolds, PTL

\* Phase 3 is registered only for the user and the runtime of the transaction.
THEOREM HandoffIsSameUser == Spec => []SameUserHandoff
<1>1. Inv => SameUserHandoff
  BY DEF Inv
<1>2. QED BY <1>1, InvHolds, PTL

\* The Phase 3 value is kept until the final benchmark is in state and history.
THEOREM HandoffIsRetained == Spec => []HandoffRetained
<1>1. Inv => HandoffRetained
  BY DEF Inv
<1>2. QED BY <1>1, InvHolds, PTL

-----------------------------------------------------------------------------
(* The workflow implements the lifecycle of one transaction *)

\* A machine on which frametime was never run has no transaction.
LEMMA LifecycleInit == Init => Lifecycle!Init
  BY DEF Init, EmptyState, NoTransaction, Lifecycle!Init

\* Each write of the machine's state is one step of the lifecycle or none.
LEMMA LifecycleStep ==
    ASSUME Inv, [Next]_vars
    PROVE  [Lifecycle!Next]_(Lifecycle!avars)
<1> USE NoUserAssumption
     DEF NoTransaction, PhaseOneSafeModeArmed, PhaseTwoSafeMode, PhaseThreeArmed,
        PhaseThreeComplete, Lifecycle!avars
<1>1. WritesOnly /\ TypeOK'
  BY MoveStep, TypeStep DEF Inv
<1>2. /\ state.stage \in 0 .. 4 /\ run \in [Users -> GenOrNone]
      /\ StageInv /\ SameUserHandoff /\ HandoffRetained /\ RemovalNeverTrapsInSafeMode
      /\ \A p \in Procs : PhaseTwoAt(p)
  BY DEF Inv, TypeOK, States, Stages, PhaseTwoInv
<1>3. CASE UNCHANGED <<state, safeboot, run, history, removed>>
  BY <1>3
<1>4. ASSUME NEW p \in Procs,
     ArmSafeBoot(p) \/ UndoSafeBoot(p) \/ ClearSafeBoot(p) \/ FinalHistory(p)
      PROVE  UNCHANGED <<state, run, removed>>
  BY <1>4 DEF ArmSafeBoot, UndoSafeBoot, ClearSafeBoot, FinalHistory
<1>5. ASSUME NEW p \in Procs, ArmState(p) PROVE [Lifecycle!Next]_(Lifecycle!avars)
  <2>1. UNCHANGED <<run, removed>>
    BY <1>5 DEF ArmState
  <2>2. \A u \in Users : run[u] = 0
    BY <1>2, <1>5, StateWrites DEF SameUserHandoff
  <2>3. CASE state.stage = NoTransaction
    <3>1. state'.runtime \in 1 .. MaxGenerations
      BY <1>1, <1>5, StateWrites, MaxGenerationsAssumption DEF TypeOK, States, GenOrNone
    <3>2. Lifecycle!Arm
      BY <1>2, <1>5, <2>1, <2>2, <2>3, <3>1, StateWrites DEF Lifecycle!Arm, StageInv
    <3>3. QED BY <3>2 DEF Lifecycle!Next
  <2>4. CASE state.stage # NoTransaction
    BY <1>2, <1>5, <2>1, <2>4, StateWrites
  <2>5. QED BY <2>3, <2>4
<1>6. ASSUME NEW p \in Procs, ClearState(p) PROVE [Lifecycle!Next]_(Lifecycle!avars)
  <2>1. UNCHANGED <<run, removed>>
    BY <1>6 DEF ClearState
  <2>2. Lifecycle!ClearSafeBoot
    BY <1>6, <2>1, StateWrites DEF Lifecycle!ClearSafeBoot
  <2>3. QED BY <2>2 DEF Lifecycle!Next
<1>7. ASSUME NEW p \in Procs, RemoveDriver(p) PROVE [Lifecycle!Next]_(Lifecycle!avars)
  <2>1. removed' /\ UNCHANGED <<state, run>>
    BY <1>7 DEF RemoveDriver
  <2>2. Grounded(proc[p].pr) /\ "P2_1" \in proc[p].pr
    BY <1>7 DEF Inv, SnapshotInv, CommandInv, RemoveDriver, At
  <2>3. Lifecycle!RemoveDriver
    BY <2>1, <2>2 DEF Lifecycle!RemoveDriver, Grounded
  <2>4. QED BY <2>3 DEF Lifecycle!Next
<1>8. ASSUME NEW p \in Procs, ArmThreeRun(p) PROVE [Lifecycle!Next]_(Lifecycle!avars)
  <2>1. /\ state.stage = PhaseTwoSafeMode /\ removed
        /\ run' = [run EXCEPT ![state.sid] = state.runtime]
        /\ UNCHANGED <<state, removed>>
    BY <1>2, <1>8 DEF ArmThreeRun, PhaseTwoAt, At
  <2>2. Lifecycle!RegisterHandoff
    BY <1>2, <2>1 DEF Lifecycle!RegisterHandoff, StageInv
  <2>3. QED BY <2>2 DEF Lifecycle!Next
<1>9. ASSUME NEW p \in Procs, ArmThreeState(p) PROVE [Lifecycle!Next]_(Lifecycle!avars)
  <2>1. UNCHANGED <<run, removed>>
    BY <1>9 DEF ArmThreeState
  <2>2. Lifecycle!ArmPhaseThree
    BY <1>2, <1>9, <2>1, StateWrites DEF Lifecycle!ArmPhaseThree, StageInv
  <2>3. QED BY <2>2 DEF Lifecycle!Next
<1>10. ASSUME NEW p \in Procs, FinalState(p) PROVE [Lifecycle!Next]_(Lifecycle!avars)
  <2>1. UNCHANGED <<run, removed>>
    BY <1>10 DEF FinalState
  <2>2. CASE state.stage = PhaseThreeArmed
    <3>1. Lifecycle!Complete
      BY <1>2, <1>10, <2>1, <2>2, StateWrites DEF Lifecycle!Complete, StageInv, HandoffRetained
    <3>2. QED BY <3>1 DEF Lifecycle!Next
  <2>3. CASE state.stage = PhaseThreeComplete
    <3>1. state.final /\ state'.final /\ state.final \in BOOLEAN /\ state'.final \in BOOLEAN
      BY <1>1, <1>2, <1>10, <2>3, StateWrites DEF StageInv, Inv, TypeOK, States
    <3>2. QED BY <1>10, <2>1, <2>3, <3>1, StateWrites
  <2>4. QED BY <1>10, <2>2, <2>3, StateWrites
<1>11. ASSUME NEW p \in Procs, ClearRun(p) PROVE [Lifecycle!Next]_(Lifecycle!avars)
  <2>1. /\ state.final /\ state.stage = PhaseThreeComplete
        /\ run' = [run EXCEPT ![state.sid] = 0]
        /\ UNCHANGED <<state, removed>>
    BY <1>11, Permission DEF ClearRun, MayClearRun, FinalCoherent, At
  <2>2. Lifecycle!ReleaseHandoff
    BY <1>2, <2>1 DEF Lifecycle!ReleaseHandoff, StageInv
  <2>3. QED BY <2>2 DEF Lifecycle!Next
<1>12. QED
  BY <1>1, <1>3, <1>4, <1>5, <1>6, <1>7, <1>8, <1>9, <1>10, <1>11 DEF WritesOnly, Writes

\* The files, the registry values and the BCD setting implement the lifecycle:
\* a transaction is bound once and advanced stage by stage.
THEOREM WorkflowImplementsLifecycle == Spec => LifecycleSpec
<1>1. Inv /\ [Next]_vars => [Lifecycle!Next]_(Lifecycle!avars)
  BY LifecycleStep
<1>2. QED BY <1>1, LifecycleInit, InvHolds, PTL DEF Spec, LifecycleSpec, Lifecycle!Spec

=============================================================================
