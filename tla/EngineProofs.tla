---------------------------- MODULE EngineProofs ----------------------------
(***************************************************************************)
(* What Engine guarantees for every number of processes, every catalog,    *)
(* every profile and every number of faults.  The argument is that of the  *)
(* work lock: between capture and completion one process alone changes a   *)
(* setting, backup.json or audit.json, so what it captured stays true      *)
(* until it has acted on it.                                               *)
(***************************************************************************)
EXTENDS Engine, TLAPS

USE StepsAssumption, NoProcAssumption

-----------------------------------------------------------------------------
(* Type correctness *)

\* A process slot that runs nothing is typed.
LEMMA IdleType == IdleProcess \in Processes
  BY DEF IdleProcess, Processes, Pcs, Records, NoRecords

\* Moving a process keeps it typed.
LEMMA GotoType ==
    ASSUME proc \in [Procs -> Processes], NEW p \in Procs, NEW q \in Pcs, Goto(p, q)
    PROVE  proc' \in [Procs -> Processes]
  BY DEF Goto, Processes

\* So does the end of a process, which frees its lock.
LEMMA EndType ==
    ASSUME TypeOK, NEW p \in Procs, End(p)
    PROVE  proc' \in [Procs -> Processes] /\ lock' \in Procs \cup {NoProc}
  BY IdleType DEF End, TypeOK

\* Writing progress.json from a process's memory keeps every variable typed.
LEMMA PersistType ==
    ASSUME TypeOK, NEW p \in Procs, NEW r \in Records,
           Current(p) \in Steps, PersistProgress(p, r)
    PROVE  TypeOK'
<1>1. proc' \in [Procs -> Processes]
  BY DEF PersistProgress, TypeOK, Processes, Pcs, Current, Steps
<1>2. QED
  BY <1>1 DEF PersistProgress, TypeOK, bounds

\* The step of a process that is past Admit is a step of the catalog, and
\* its kind is the one its program counter is for.
LosslessPcs == {"capture", "backed", "apply", "verify"}
ManualPcs   == {"audit", "audited", "manual_apply", "manual_verify", "finalize",
                "fail_audit"}

StepInv ==
    \A p \in Procs :
       /\ proc[p].pc \notin {"idle", "next", "restoring"} => proc[p].step \in Steps
       /\ proc[p].pc \in LosslessPcs => Kind[proc[p].step] = "lossless"
       /\ proc[p].pc \in ManualPcs => Kind[proc[p].step] = "manual"
       /\ proc[p].pc = "evidence" => Kind[proc[p].step] = "evidence"
       /\ proc[p].pc = "direct_verify" => Kind[proc[p].step] \in {"lossless", "check"}
       /\ proc[p].pc = "complete" =>
             Kind[proc[p].step] \in {"lossless", "check", "evidence"}
       /\ proc[p].pc = "complete_locked" =>
             Kind[proc[p].step] \in {"lossless", "manual"}

\* One process alone is between capture and completion.
LockInv == \A p \in Procs : proc[p].pc \in LockPcs => lock = p

\* A restore works on entries of backup.json, and what it has put back and
\* will drop is at its original.
RestoreInv ==
    \A p \in Procs : proc[p].pc = "restoring" =>
       /\ proc[p].todo \subseteq Entries /\ proc[p].kept \subseteq Entries
       /\ \A s \in Lossless \ (proc[p].todo \cup proc[p].kept) : setting[s] = base[s]

\* Recording a step gives a progress record.
LEMMA RecordsType ==
    ASSUME NEW r \in Records, NEW s \in Steps
    PROVE  Complete(r, s) \in Records /\ Skip(r, s) \in Records /\ Advise(r, s) \in Records
  BY DEF Records, Complete, Skip, Advise

\* An inspection leads to one of six places.
LEMMA AfterInspectionType ==
    ASSUME NEW s \in Steps
    PROVE  AfterInspection(s) \in {"direct_verify", "capture", "audit", "evidence",
                                   "advisory", "inapplicable"}
  BY KindAssumption DEF AfterInspection, Kinds

\* The initial state is typed.
LEMMA TypeInit == Init => TypeOK
<1>1. SUFFICES ASSUME Init PROVE TypeOK
  OBVIOUS
<1>2. proc \in [Procs -> Processes]
  BY <1>1, IdleType DEF Init
<1>3. base \in [Steps -> Values] /\ setting \in [Steps -> Values]
  BY <1>1 DEF Init, Values
<1>4. audits \in [Steps -> Audits] /\ progress \in Records
  BY <1>1 DEF Init, Audits, NoAudit, Records, NoRecords
<1>5. QED
  BY <1>1, <1>2, <1>3, <1>4, BoundsAssumption DEF Init, TypeOK

\* Every action keeps every variable in its range.
LEMMA TypeStep ==
    ASSUME TypeOK, StepInv, RestoreInv, [Next]_vars
    PROVE  TypeOK'
<1> USE DEF durable, bounds, At, Current
<1>m. \A p \in Procs : proc[p].mem \in Records
  BY DEF TypeOK, Processes
<1>1. ASSUME NEW p \in Procs, StartRun(p) PROVE TypeOK'
  <2>0. progress \in Records
    BY DEF TypeOK
  <2>1. [IdleProcess EXCEPT !.pc = "next", !.mem = progress] \in Processes
    BY <2>0, IdleType DEF Processes, Pcs
  <2>2. proc' \in [Procs -> Processes]
    BY <1>1, <2>1 DEF StartRun, TypeOK
  <2>3. QED BY <1>1, <2>2 DEF StartRun, TypeOK
<1>2. ASSUME NEW p \in Procs, PassRecorded(p) PROVE TypeOK'
  <2>1. proc[p].step + 1 \in 1 .. (N + 1)
    BY <1>2 DEF PassRecorded, Steps
  <2>2. proc' \in [Procs -> Processes]
    BY <1>2, <2>1 DEF PassRecorded, TypeOK, Processes
  <2>3. QED BY <1>2, <2>2 DEF PassRecorded, TypeOK
<1>3. ASSUME NEW p \in Procs, DeclineStep(p) PROVE TypeOK'
  BY <1>3, <1>m, PersistType, RecordsType DEF DeclineStep
<1>4. ASSUME NEW p \in Procs, Admit(p) PROVE TypeOK'
  BY <1>4, GotoType DEF Admit, TypeOK, Pcs
<1>5. ASSUME NEW p \in Procs, Inspect(p) PROVE TypeOK'
  BY <1>5, GotoType, AfterInspectionType DEF Inspect, TypeOK, StepInv, Pcs
<1>6. ASSUME NEW p \in Procs, RecordInapplicable(p) PROVE TypeOK'
  BY <1>6, <1>m, PersistType, RecordsType DEF RecordInapplicable, StepInv
<1>7. ASSUME NEW p \in Procs, RecordAdvisory(p) PROVE TypeOK'
  BY <1>7, <1>m, PersistType, RecordsType DEF RecordAdvisory, StepInv
<1>8. ASSUME NEW p \in Procs, VerifyDirect(p) PROVE TypeOK'
  BY <1>8, GotoType DEF VerifyDirect, TypeOK, Pcs
<1>9. ASSUME NEW p \in Procs, RecordEvidence(p) PROVE TypeOK'
  BY <1>9, GotoType DEF RecordEvidence, TypeOK, Pcs, StepInv
<1>10. ASSUME NEW p \in Procs, RecordCompletion(p) PROVE TypeOK'
  BY <1>10, <1>m, PersistType, RecordsType DEF RecordCompletion, StepInv
<1>11. ASSUME NEW p \in Procs, FinishRun(p) PROVE TypeOK'
  BY <1>11, EndType DEF FinishRun, TypeOK
<1>12. ASSUME NEW p \in Procs, Capture(p) PROVE TypeOK'
  BY <1>12, GotoType DEF Capture, TypeOK, Pcs, LockPcs
<1>13. ASSUME NEW p \in Procs, PersistBackups(p) PROVE TypeOK'
  BY <1>13, GotoType DEF PersistBackups, FirstValue, TypeOK, Pcs, LockPcs
<1>14. ASSUME NEW p \in Procs, Apply(p) PROVE TypeOK'
  BY <1>14, GotoType DEF Apply, TypeOK, Values, Pcs, LockPcs
<1>15. ASSUME NEW p \in Procs, VerifyApplied(p) PROVE TypeOK'
  BY <1>15, GotoType DEF VerifyApplied, TypeOK, Pcs, LockPcs
<1>16. ASSUME NEW p \in Procs, CaptureAudit(p) PROVE TypeOK'
  BY <1>16, GotoType DEF CaptureAudit, TypeOK, Pcs, LockPcs
<1>17. ASSUME NEW p \in Procs, PersistAudit(p) PROVE TypeOK'
  BY <1>17, GotoType DEF PersistAudit, TypeOK, Audits, Pcs, LockPcs
<1>18. ASSUME NEW p \in Procs, ApplyManual(p) PROVE TypeOK'
  BY <1>18, GotoType DEF ApplyManual, TypeOK, Values, Pcs, LockPcs
<1>19. ASSUME NEW p \in Procs, ApplyManualRefused(p) PROVE TypeOK'
  BY <1>19, GotoType DEF ApplyManualRefused, TypeOK, Pcs, LockPcs
<1>20. ASSUME NEW p \in Procs, VerifyManual(p) PROVE TypeOK'
  BY <1>20, GotoType DEF VerifyManual, TypeOK, Pcs, LockPcs
<1>21. ASSUME NEW p \in Procs, FinalizeAudit(p) PROVE TypeOK'
  BY <1>21, GotoType DEF FinalizeAudit, TypeOK, Audits, Pcs, LockPcs
<1>22. ASSUME NEW p \in Procs, FailAudit(p) PROVE TypeOK'
  BY <1>22, EndType DEF FailAudit, TypeOK, Audits
<1>23. ASSUME NEW p \in Procs, RestoreEntry(p) PROVE TypeOK'
  <2>1. PICK s \in proc[p].todo : /\ setting' = [setting EXCEPT ![s] = backup[s]]
                                  /\ proc' = [proc EXCEPT ![p].todo = @ \ {s}]
    BY <1>23 DEF RestoreEntry
  <2>2. backup[s] \in Values
    BY <1>23 DEF RestoreEntry, RestoreInv, Entries, TypeOK
  <2>3. proc' \in [Procs -> Processes]
    BY <2>1 DEF TypeOK, Processes
  <2>4. setting' \in [Steps -> Values]
    BY <2>1, <2>2 DEF TypeOK
  <2>5. QED BY <1>23, <2>3, <2>4 DEF RestoreEntry, TypeOK
<1>24. ASSUME NEW p \in Procs, FinishRestore(p) PROVE TypeOK'
  BY <1>24, EndType DEF FinishRestore, TypeOK
<1>25. ASSUME NEW p \in Procs, Refuse(p) PROVE TypeOK'
  BY <1>25, EndType DEF Refuse, TypeOK
<1>26. ASSUME NEW p \in Procs, ApplyTorn(p) PROVE TypeOK'
  <2>1. faults' \in 0 .. MaxFaults
    BY <1>26, BoundsAssumption DEF ApplyTorn, TypeOK
  <2>2. setting' \in [Steps -> Values]
    BY <1>26 DEF ApplyTorn, TypeOK, Values
  <2>3. QED BY <1>26, <2>1, <2>2, EndType DEF ApplyTorn, TypeOK
<1>27. ASSUME NEW p \in Procs, ApplyManualFails(p) PROVE TypeOK'
  BY <1>27, GotoType, BoundsAssumption DEF ApplyManualFails, TypeOK, Values, Pcs, LockPcs
<1>28. ASSUME NEW p \in Procs, RestoreFails(p) PROVE TypeOK'
  <2>1. PICK s \in proc[p].todo :
            /\ setting' \in {setting, [setting EXCEPT ![s] = "torn"]}
            /\ proc' = [proc EXCEPT ![p].todo = @ \ {s}, ![p].kept = @ \cup {s}]
    BY <1>28 DEF RestoreFails
  <2>2. s \in Steps
    BY DEF TypeOK, Processes
  <2>3. proc' \in [Procs -> Processes]
    <3>1. proc \in [Procs -> Processes]
      BY DEF TypeOK
    <3>2. proc[p].todo \ {s} \in SUBSET Steps /\ proc[p].kept \cup {s} \in SUBSET Steps
      BY <3>1, <2>2 DEF Processes
    <3>3. QED BY <2>1, <3>1, <3>2 DEF Processes
  <2>4. setting' \in [Steps -> Values]
    BY <2>1 DEF TypeOK, Values
  <2>5. faults' \in 0 .. MaxFaults
    BY <1>28, BoundsAssumption DEF RestoreFails, TypeOK
  <2>6. QED BY <1>28, <2>3, <2>4, <2>5 DEF RestoreFails, TypeOK
<1>29. ASSUME NEW p \in Procs, Stop(p) PROVE TypeOK'
  BY <1>29, EndType, BoundsAssumption DEF Stop, TypeOK
<1>30. ASSUME NEW p \in Procs, StartRestore(p) PROVE TypeOK'
  <2>1. PICK c \in {Steps} \cup {{s} : s \in Steps} :
            proc' = [proc EXCEPT ![p] =
               [IdleProcess EXCEPT !.pc = "restoring", !.todo = Entries \cap c,
                                   !.kept = Entries \ c]]
    BY <1>30 DEF StartRestore
  <2>2. proc' \in [Procs -> Processes]
    BY <2>1, IdleType DEF TypeOK, Processes, Pcs, LockPcs, Entries
  <2>3. QED BY <1>30, <2>2, BoundsAssumption DEF StartRestore, Intervene, TypeOK
<1>31. ASSUME ResetProgress PROVE TypeOK'
  BY <1>31, BoundsAssumption DEF ResetProgress, Intervene, TypeOK, Records, NoRecords
<1>32. ASSUME ClearBackup PROVE TypeOK'
  BY <1>32, BoundsAssumption DEF ClearBackup, Intervene, TypeOK
<1>33. CASE UNCHANGED vars
  BY <1>33 DEF vars, TypeOK
<1>34. QED
  BY <1>1, <1>2, <1>3, <1>4, <1>5, <1>6, <1>7, <1>8, <1>9, <1>10, <1>11, <1>12, <1>13,
     <1>14, <1>15, <1>16, <1>17, <1>18, <1>19, <1>20, <1>21, <1>22, <1>23, <1>24, <1>25,
     <1>26, <1>27, <1>28, <1>29, <1>30, <1>31, <1>32, <1>33 DEF Next, Work, Disturb

-----------------------------------------------------------------------------
(* The inductive invariant *)

\* backup.json records nothing but originals of lossless steps, and the step
\* about to be applied is recorded.
BackupInv ==
    /\ \A s \in Steps : backup[s] # NoBackup => s \in Lossless /\ backup[s] = base[s]
    /\ \A p \in Procs : proc[p].pc = "apply" => backup[proc[p].step] # NoBackup

\* From the persisted audit to its outcome exactly one entry is pending.
AuditInv ==
    \A p \in Procs :
       proc[p].pc \in {"manual_apply", "manual_verify", "finalize", "fail_audit"}
         => audits[proc[p].step].pending = 1

\* The proof that a completed step owes.
Proved(s) == /\ Kind[s] = "manual"   => audits[s].applied
             /\ Kind[s] = "evidence" => s \in receipts

ProofInv ==
    \A p \in Procs :
       /\ \A s \in proc[p].mem.completed : Proved(s)
       /\ proc[p].pc \in {"complete", "complete_locked"} => Proved(proc[p].step)

Inv == /\ TypeOK /\ StepInv /\ LockInv
       /\ RestoreInv /\ BackupInv /\ MutationRecoverable
       /\ AuditInv /\ DriverChangeAudited
       /\ ProofInv /\ CompletionHasProof

-----------------------------------------------------------------------------
(* What the three ways of moving a process leave alone *)

\* A step that only moves p leaves everything else about every process.
LEMMA GotoFrame ==
    ASSUME TypeOK, NEW p \in Procs, NEW q, Goto(p, q)
    PROVE  \A x \in Procs : /\ proc'[x].pc = IF x = p THEN q ELSE proc[x].pc
                            /\ proc'[x].step = proc[x].step /\ proc'[x].mem = proc[x].mem
                            /\ proc'[x].todo = proc[x].todo /\ proc'[x].kept = proc[x].kept
  BY DEF Goto, TypeOK, Processes

\* The end of a process clears it and frees its lock.
LEMMA EndFrame ==
    ASSUME TypeOK, NEW p \in Procs, End(p)
    PROVE  /\ proc'[p].pc = "idle" /\ proc'[p].mem.completed = {}
           /\ \A x \in Procs : x # p => proc'[x] = proc[x]
           /\ lock' = IF lock = p THEN NoProc ELSE lock
  BY DEF End, TypeOK, IdleProcess, NoRecords

\* Writing progress.json ends the step of p and frees its lock.
LEMMA PersistFrame ==
    ASSUME TypeOK, NEW p \in Procs, NEW r \in Records, PersistProgress(p, r)
    PROVE  /\ proc'[p].pc = "next" /\ proc'[p].mem = r
           /\ \A x \in Procs : x # p => proc'[x] = proc[x]
           /\ lock' = NoProc /\ lock \in {NoProc, p}
           /\ progress' = r
           /\ UNCHANGED <<setting, base, backup, audits, receipts>>
  BY DEF PersistProgress, TypeOK, Processes, LockFree

-----------------------------------------------------------------------------
(* Control: the program counter, the step and the lock agree *)

\* A process works on a step of the right kind, and one transaction at a
\* time holds the lock.
LEMMA ControlStep ==
    ASSUME TypeOK, StepInv, LockInv, [Next]_vars
    PROVE  StepInv' /\ LockInv'
<1> USE DEF durable, bounds, At, Current, StepInv, LockInv, LosslessPcs, ManualPcs, LockPcs
<1>m. \A p \in Procs : proc[p].mem \in Records
  BY DEF TypeOK, Processes
<1>1. ASSUME NEW p \in Procs, StartRun(p) PROVE StepInv' /\ LockInv'
  BY <1>1 DEF StartRun, TypeOK, Processes, IdleProcess
<1>2. ASSUME NEW p \in Procs, PassRecorded(p) PROVE StepInv' /\ LockInv'
  BY <1>2 DEF PassRecorded, TypeOK, Processes
<1>3. ASSUME NEW p \in Procs, DeclineStep(p) PROVE StepInv' /\ LockInv'
  BY <1>3, <1>m, PersistFrame, RecordsType DEF DeclineStep
<1>4. ASSUME NEW p \in Procs, Admit(p) PROVE StepInv' /\ LockInv'
  BY <1>4, GotoFrame DEF Admit
<1>5. ASSUME NEW p \in Procs, Inspect(p) PROVE StepInv' /\ LockInv'
  BY <1>5, GotoFrame, KindAssumption DEF Inspect, AfterInspection, Kinds
<1>6. ASSUME NEW p \in Procs, RecordInapplicable(p) PROVE StepInv' /\ LockInv'
  BY <1>6, <1>m, PersistFrame, RecordsType DEF RecordInapplicable
<1>7. ASSUME NEW p \in Procs, RecordAdvisory(p) PROVE StepInv' /\ LockInv'
  BY <1>7, <1>m, PersistFrame, RecordsType DEF RecordAdvisory
<1>8. ASSUME NEW p \in Procs, VerifyDirect(p) PROVE StepInv' /\ LockInv'
  BY <1>8, GotoFrame DEF VerifyDirect
<1>9. ASSUME NEW p \in Procs, RecordEvidence(p) PROVE StepInv' /\ LockInv'
  BY <1>9, GotoFrame DEF RecordEvidence
<1>10. ASSUME NEW p \in Procs, RecordCompletion(p) PROVE StepInv' /\ LockInv'
  BY <1>10, <1>m, PersistFrame, RecordsType DEF RecordCompletion
<1>11. ASSUME NEW p \in Procs, FinishRun(p) PROVE StepInv' /\ LockInv'
  BY <1>11, EndFrame DEF FinishRun
<1>12. ASSUME NEW p \in Procs, Capture(p) PROVE StepInv' /\ LockInv'
  BY <1>12, GotoFrame DEF Capture, LockFree
<1>13. ASSUME NEW p \in Procs, PersistBackups(p) PROVE StepInv' /\ LockInv'
  BY <1>13, GotoFrame DEF PersistBackups
<1>14. ASSUME NEW p \in Procs, Apply(p) PROVE StepInv' /\ LockInv'
  BY <1>14, GotoFrame DEF Apply
<1>15. ASSUME NEW p \in Procs, VerifyApplied(p) PROVE StepInv' /\ LockInv'
  BY <1>15, GotoFrame DEF VerifyApplied
<1>16. ASSUME NEW p \in Procs, CaptureAudit(p) PROVE StepInv' /\ LockInv'
  BY <1>16, GotoFrame DEF CaptureAudit, LockFree
<1>17. ASSUME NEW p \in Procs, PersistAudit(p) PROVE StepInv' /\ LockInv'
  BY <1>17, GotoFrame DEF PersistAudit
<1>18. ASSUME NEW p \in Procs, ApplyManual(p) PROVE StepInv' /\ LockInv'
  BY <1>18, GotoFrame DEF ApplyManual
<1>19. ASSUME NEW p \in Procs, ApplyManualRefused(p) PROVE StepInv' /\ LockInv'
  BY <1>19, GotoFrame DEF ApplyManualRefused
<1>20. ASSUME NEW p \in Procs, VerifyManual(p) PROVE StepInv' /\ LockInv'
  BY <1>20, GotoFrame DEF VerifyManual
<1>21. ASSUME NEW p \in Procs, FinalizeAudit(p) PROVE StepInv' /\ LockInv'
  BY <1>21, GotoFrame DEF FinalizeAudit
<1>22. ASSUME NEW p \in Procs, FailAudit(p) PROVE StepInv' /\ LockInv'
  BY <1>22, EndFrame DEF FailAudit
<1>23. ASSUME NEW p \in Procs, RestoreEntry(p) PROVE StepInv' /\ LockInv'
  BY <1>23 DEF RestoreEntry, TypeOK, Processes
<1>24. ASSUME NEW p \in Procs, FinishRestore(p) PROVE StepInv' /\ LockInv'
  BY <1>24, EndFrame DEF FinishRestore
<1>25. ASSUME NEW p \in Procs, Refuse(p) PROVE StepInv' /\ LockInv'
  BY <1>25, EndFrame DEF Refuse
<1>26. ASSUME NEW p \in Procs, ApplyTorn(p) PROVE StepInv' /\ LockInv'
  BY <1>26, EndFrame DEF ApplyTorn
<1>27. ASSUME NEW p \in Procs, ApplyManualFails(p) PROVE StepInv' /\ LockInv'
  BY <1>27, GotoFrame DEF ApplyManualFails
<1>28. ASSUME NEW p \in Procs, RestoreFails(p) PROVE StepInv' /\ LockInv'
  BY <1>28 DEF RestoreFails, TypeOK, Processes
<1>29. ASSUME NEW p \in Procs, Stop(p) PROVE StepInv' /\ LockInv'
  BY <1>29, EndFrame DEF Stop
<1>30. ASSUME NEW p \in Procs, StartRestore(p) PROVE StepInv' /\ LockInv'
  BY <1>30 DEF StartRestore, TypeOK, Processes, IdleProcess, LockFree
<1>31. ASSUME ResetProgress \/ ClearBackup PROVE StepInv' /\ LockInv'
  BY <1>31 DEF ResetProgress, ClearBackup
<1>32. CASE UNCHANGED vars
  BY <1>32 DEF vars
<1>33. QED
  BY <1>1, <1>2, <1>3, <1>4, <1>5, <1>6, <1>7, <1>8, <1>9, <1>10, <1>11, <1>12, <1>13, <1>14,
     <1>15, <1>16, <1>17, <1>18, <1>19, <1>20, <1>21, <1>22, <1>23, <1>24, <1>25, <1>26,
       <1>27, <1>28, <1>29, <1>30, <1>31, <1>32
     DEF Next, Work, Disturb

-----------------------------------------------------------------------------
(* Recovery: an original is recorded before its setting changes, and stays *)

\* A changed setting keeps its original in the backup, and a restore its
\* entries.
LEMMA RecoveryStep ==
    ASSUME TypeOK, StepInv, LockInv, RestoreInv, BackupInv, MutationRecoverable, [Next]_vars
    PROVE  RestoreInv' /\ BackupInv' /\ MutationRecoverable'
<1> USE DEF durable, bounds, At, Current, StepInv, LockInv, LosslessPcs, ManualPcs, LockPcs,
        RestoreInv, BackupInv, MutationRecoverable, Entries, Lossless, NoBackup, Values
<1>m. \A p \in Procs : proc[p].mem \in Records
  BY DEF TypeOK, Processes
<1>1. ASSUME NEW p \in Procs, StartRun(p)
      PROVE RestoreInv' /\ BackupInv' /\ MutationRecoverable'
  BY <1>1 DEF StartRun, TypeOK, Processes, IdleProcess
<1>2. ASSUME NEW p \in Procs, PassRecorded(p)
      PROVE RestoreInv' /\ BackupInv' /\ MutationRecoverable'
  BY <1>2 DEF PassRecorded, TypeOK, Processes
<1>3. ASSUME NEW p \in Procs, DeclineStep(p)
      PROVE RestoreInv' /\ BackupInv' /\ MutationRecoverable'
  BY <1>3, <1>m, PersistFrame, RecordsType DEF DeclineStep
<1>4. ASSUME NEW p \in Procs, Admit(p) PROVE RestoreInv' /\ BackupInv' /\ MutationRecoverable'
  BY <1>4, GotoFrame DEF Admit
<1>5. ASSUME NEW p \in Procs, Inspect(p) PROVE RestoreInv' /\ BackupInv' /\ MutationRecoverable'
  BY <1>5, GotoFrame, AfterInspectionType DEF Inspect
<1>6. ASSUME NEW p \in Procs, RecordInapplicable(p)
      PROVE RestoreInv' /\ BackupInv' /\ MutationRecoverable'
  BY <1>6, <1>m, PersistFrame, RecordsType DEF RecordInapplicable
<1>7. ASSUME NEW p \in Procs, RecordAdvisory(p)
      PROVE RestoreInv' /\ BackupInv' /\ MutationRecoverable'
  BY <1>7, <1>m, PersistFrame, RecordsType DEF RecordAdvisory
<1>8. ASSUME NEW p \in Procs, VerifyDirect(p)
      PROVE RestoreInv' /\ BackupInv' /\ MutationRecoverable'
  BY <1>8, GotoFrame DEF VerifyDirect
<1>9. ASSUME NEW p \in Procs, RecordEvidence(p)
      PROVE RestoreInv' /\ BackupInv' /\ MutationRecoverable'
  BY <1>9, GotoFrame DEF RecordEvidence
<1>10. ASSUME NEW p \in Procs, RecordCompletion(p)
      PROVE RestoreInv' /\ BackupInv' /\ MutationRecoverable'
  BY <1>10, <1>m, PersistFrame, RecordsType DEF RecordCompletion
<1>11. ASSUME NEW p \in Procs, FinishRun(p)
      PROVE RestoreInv' /\ BackupInv' /\ MutationRecoverable'
  BY <1>11, EndFrame DEF FinishRun
<1>12. ASSUME NEW p \in Procs, Capture(p)
      PROVE RestoreInv' /\ BackupInv' /\ MutationRecoverable'
  BY <1>12, GotoFrame DEF Capture
<1>13. ASSUME NEW p \in Procs, PersistBackups(p)
      PROVE RestoreInv' /\ BackupInv' /\ MutationRecoverable'
  BY <1>13, GotoFrame DEF PersistBackups, FirstValue, TypeOK
<1>14. ASSUME NEW p \in Procs, Apply(p) PROVE RestoreInv' /\ BackupInv' /\ MutationRecoverable'
  BY <1>14, GotoFrame DEF Apply, TypeOK
<1>15. ASSUME NEW p \in Procs, VerifyApplied(p)
      PROVE RestoreInv' /\ BackupInv' /\ MutationRecoverable'
  BY <1>15, GotoFrame DEF VerifyApplied
<1>16. ASSUME NEW p \in Procs, CaptureAudit(p)
      PROVE RestoreInv' /\ BackupInv' /\ MutationRecoverable'
  BY <1>16, GotoFrame DEF CaptureAudit
<1>17. ASSUME NEW p \in Procs, PersistAudit(p)
      PROVE RestoreInv' /\ BackupInv' /\ MutationRecoverable'
  BY <1>17, GotoFrame DEF PersistAudit
<1>18. ASSUME NEW p \in Procs, ApplyManual(p)
      PROVE RestoreInv' /\ BackupInv' /\ MutationRecoverable'
  BY <1>18, GotoFrame DEF ApplyManual, TypeOK
<1>19. ASSUME NEW p \in Procs, ApplyManualRefused(p)
      PROVE RestoreInv' /\ BackupInv' /\ MutationRecoverable'
  BY <1>19, GotoFrame DEF ApplyManualRefused
<1>20. ASSUME NEW p \in Procs, VerifyManual(p)
      PROVE RestoreInv' /\ BackupInv' /\ MutationRecoverable'
  BY <1>20, GotoFrame DEF VerifyManual
<1>21. ASSUME NEW p \in Procs, FinalizeAudit(p)
      PROVE RestoreInv' /\ BackupInv' /\ MutationRecoverable'
  BY <1>21, GotoFrame DEF FinalizeAudit
<1>22. ASSUME NEW p \in Procs, FailAudit(p)
      PROVE RestoreInv' /\ BackupInv' /\ MutationRecoverable'
  BY <1>22, EndFrame DEF FailAudit
<1>23. ASSUME NEW p \in Procs, RestoreEntry(p)
      PROVE RestoreInv' /\ BackupInv' /\ MutationRecoverable'
  BY <1>23 DEF RestoreEntry, TypeOK, Processes
<1>24. ASSUME NEW p \in Procs, FinishRestore(p)
      PROVE RestoreInv' /\ BackupInv' /\ MutationRecoverable'
  BY <1>24, EndFrame DEF FinishRestore, TypeOK
<1>25. ASSUME NEW p \in Procs, Refuse(p) PROVE RestoreInv' /\ BackupInv' /\ MutationRecoverable'
  BY <1>25, EndFrame DEF Refuse
<1>26. ASSUME NEW p \in Procs, ApplyTorn(p)
      PROVE RestoreInv' /\ BackupInv' /\ MutationRecoverable'
  BY <1>26, EndFrame DEF ApplyTorn, TypeOK
<1>27. ASSUME NEW p \in Procs, ApplyManualFails(p)
      PROVE RestoreInv' /\ BackupInv' /\ MutationRecoverable'
  BY <1>27, GotoFrame DEF ApplyManualFails, TypeOK
<1>28. ASSUME NEW p \in Procs, RestoreFails(p)
      PROVE RestoreInv' /\ BackupInv' /\ MutationRecoverable'
  BY <1>28 DEF RestoreFails, TypeOK, Processes
<1>29. ASSUME NEW p \in Procs, Stop(p) PROVE RestoreInv' /\ BackupInv' /\ MutationRecoverable'
  BY <1>29, EndFrame DEF Stop
<1>30. ASSUME NEW p \in Procs, StartRestore(p)
      PROVE RestoreInv' /\ BackupInv' /\ MutationRecoverable'
  BY <1>30 DEF StartRestore, TypeOK, Processes, IdleProcess
<1>31. ASSUME ResetProgress PROVE RestoreInv' /\ BackupInv' /\ MutationRecoverable'
  BY <1>31 DEF ResetProgress
<1>32. ASSUME ClearBackup PROVE RestoreInv' /\ BackupInv' /\ MutationRecoverable'
  BY <1>32 DEF ClearBackup, LockFree, TypeOK
<1>33. CASE UNCHANGED vars
  BY <1>33 DEF vars
<1>34. QED
  BY <1>1, <1>2, <1>3, <1>4, <1>5, <1>6, <1>7, <1>8, <1>9, <1>10, <1>11, <1>12, <1>13, <1>14,
     <1>15, <1>16, <1>17, <1>18, <1>19, <1>20, <1>21, <1>22, <1>23, <1>24, <1>25, <1>26,
       <1>27, <1>28, <1>29, <1>30, <1>31, <1>32, <1>33
     DEF Next, Work, Disturb

-----------------------------------------------------------------------------
(* Audit: one pending entry from before the driver changes to its outcome *)

\* A driver is changed only behind a persisted audit.
LEMMA AuditStep ==
    ASSUME TypeOK, StepInv, LockInv, RestoreInv, BackupInv, AuditInv, DriverChangeAudited,
         [Next]_vars
    PROVE  AuditInv' /\ DriverChangeAudited'
<1> USE DEF durable, bounds, At, Current, StepInv, LockInv, LosslessPcs, ManualPcs, LockPcs,
        AuditInv, DriverChangeAudited, Manual, NoAudit
<1>m. \A p \in Procs : proc[p].mem \in Records
  BY DEF TypeOK, Processes
<1>1. ASSUME NEW p \in Procs, StartRun(p) PROVE AuditInv' /\ DriverChangeAudited'
  BY <1>1 DEF StartRun, TypeOK, Processes, IdleProcess
<1>2. ASSUME NEW p \in Procs, PassRecorded(p) PROVE AuditInv' /\ DriverChangeAudited'
  BY <1>2 DEF PassRecorded, TypeOK, Processes
<1>3. ASSUME NEW p \in Procs, DeclineStep(p) PROVE AuditInv' /\ DriverChangeAudited'
  BY <1>3, <1>m, PersistFrame, RecordsType DEF DeclineStep
<1>4. ASSUME NEW p \in Procs, Admit(p) PROVE AuditInv' /\ DriverChangeAudited'
  BY <1>4, GotoFrame DEF Admit
<1>5. ASSUME NEW p \in Procs, Inspect(p) PROVE AuditInv' /\ DriverChangeAudited'
  BY <1>5, GotoFrame, AfterInspectionType DEF Inspect
<1>6. ASSUME NEW p \in Procs, RecordInapplicable(p) PROVE AuditInv' /\ DriverChangeAudited'
  BY <1>6, <1>m, PersistFrame, RecordsType DEF RecordInapplicable
<1>7. ASSUME NEW p \in Procs, RecordAdvisory(p) PROVE AuditInv' /\ DriverChangeAudited'
  BY <1>7, <1>m, PersistFrame, RecordsType DEF RecordAdvisory
<1>8. ASSUME NEW p \in Procs, VerifyDirect(p) PROVE AuditInv' /\ DriverChangeAudited'
  BY <1>8, GotoFrame DEF VerifyDirect
<1>9. ASSUME NEW p \in Procs, RecordEvidence(p) PROVE AuditInv' /\ DriverChangeAudited'
  BY <1>9, GotoFrame DEF RecordEvidence
<1>10. ASSUME NEW p \in Procs, RecordCompletion(p) PROVE AuditInv' /\ DriverChangeAudited'
  BY <1>10, <1>m, PersistFrame, RecordsType DEF RecordCompletion
<1>11. ASSUME NEW p \in Procs, FinishRun(p) PROVE AuditInv' /\ DriverChangeAudited'
  BY <1>11, EndFrame DEF FinishRun
<1>12. ASSUME NEW p \in Procs, Capture(p) PROVE AuditInv' /\ DriverChangeAudited'
  BY <1>12, GotoFrame DEF Capture
<1>13. ASSUME NEW p \in Procs, PersistBackups(p) PROVE AuditInv' /\ DriverChangeAudited'
  BY <1>13, GotoFrame DEF PersistBackups
<1>14. ASSUME NEW p \in Procs, Apply(p) PROVE AuditInv' /\ DriverChangeAudited'
  BY <1>14, GotoFrame DEF Apply, TypeOK, Audits
<1>15. ASSUME NEW p \in Procs, VerifyApplied(p) PROVE AuditInv' /\ DriverChangeAudited'
  BY <1>15, GotoFrame DEF VerifyApplied
<1>16. ASSUME NEW p \in Procs, CaptureAudit(p) PROVE AuditInv' /\ DriverChangeAudited'
  BY <1>16, GotoFrame DEF CaptureAudit
<1>17. ASSUME NEW p \in Procs, PersistAudit(p) PROVE AuditInv' /\ DriverChangeAudited'
  BY <1>17, GotoFrame DEF PersistAudit, TypeOK, Audits
<1>18. ASSUME NEW p \in Procs, ApplyManual(p) PROVE AuditInv' /\ DriverChangeAudited'
  <2>1. audits[proc[p].step].pending = 1
    BY <1>18 DEF ApplyManual
  <2>2. audits[proc[p].step] # NoAudit
    BY <2>1
  <2>3. \A s \in Steps : s # proc[p].step => setting'[s] = setting[s]
    BY <1>18 DEF ApplyManual, TypeOK
  <2>4. DriverChangeAudited'
    BY <1>18, <2>2, <2>3 DEF ApplyManual
  <2>5. AuditInv'
    BY <1>18, GotoFrame DEF ApplyManual
  <2>6. QED BY <2>4, <2>5
<1>19. ASSUME NEW p \in Procs, ApplyManualRefused(p) PROVE AuditInv' /\ DriverChangeAudited'
  BY <1>19, GotoFrame DEF ApplyManualRefused
<1>20. ASSUME NEW p \in Procs, VerifyManual(p) PROVE AuditInv' /\ DriverChangeAudited'
  BY <1>20, GotoFrame DEF VerifyManual
<1>21. ASSUME NEW p \in Procs, FinalizeAudit(p) PROVE AuditInv' /\ DriverChangeAudited'
  <2>1. /\ audits'[proc[p].step].pending = 0 /\ audits'[proc[p].step].applied
        /\ \A s \in Steps : s # proc[p].step => audits'[s] = audits[s]
    BY <1>21 DEF FinalizeAudit, TypeOK, Audits
  <2>2. audits'[proc[p].step] # NoAudit
    BY <2>1
  <2>3. DriverChangeAudited'
    <3>1. UNCHANGED <<setting, base>>
      BY <1>21 DEF FinalizeAudit
    <3>2. ASSUME NEW s \in Manual
          PROVE  (setting'[s] # base'[s] => audits'[s] # NoAudit) /\ audits'[s].pending <= 1
      BY <2>1, <2>2, <3>1
    <3>3. QED BY <3>2
  <2>4. AuditInv'
    <3>1. \A x \in Procs : x # p => proc[x].pc \notin LockPcs
      BY <1>21 DEF FinalizeAudit
    <3>2. QED BY <1>21, <3>1, GotoFrame DEF FinalizeAudit
  <2>5. QED BY <2>3, <2>4
<1>22. ASSUME NEW p \in Procs, FailAudit(p) PROVE AuditInv' /\ DriverChangeAudited'
  <2>1. /\ audits'[proc[p].step].pending = 0 /\ audits'[proc[p].step].failed
        /\ \A s \in Steps : s # proc[p].step => audits'[s] = audits[s]
    BY <1>22 DEF FailAudit, TypeOK, Audits
  <2>2. audits'[proc[p].step] # NoAudit
    BY <2>1
  <2>3. DriverChangeAudited'
    <3>1. UNCHANGED <<setting, base>>
      BY <1>22 DEF FailAudit
    <3>2. ASSUME NEW s \in Manual
          PROVE  (setting'[s] # base'[s] => audits'[s] # NoAudit) /\ audits'[s].pending <= 1
      BY <2>1, <2>2, <3>1
    <3>3. QED BY <3>2
  <2>4. AuditInv'
    <3>1. \A x \in Procs : x # p => proc[x].pc \notin LockPcs
      BY <1>22 DEF FailAudit
    <3>2. QED BY <1>22, <3>1, EndFrame DEF FailAudit
  <2>5. QED BY <2>3, <2>4
<1>23. ASSUME NEW p \in Procs, RestoreEntry(p) PROVE AuditInv' /\ DriverChangeAudited'
  BY <1>23 DEF RestoreEntry, TypeOK, Processes, RestoreInv, BackupInv, Entries, Lossless
<1>24. ASSUME NEW p \in Procs, FinishRestore(p) PROVE AuditInv' /\ DriverChangeAudited'
  BY <1>24, EndFrame DEF FinishRestore
<1>25. ASSUME NEW p \in Procs, Refuse(p) PROVE AuditInv' /\ DriverChangeAudited'
  BY <1>25, EndFrame DEF Refuse
<1>26. ASSUME NEW p \in Procs, ApplyTorn(p) PROVE AuditInv' /\ DriverChangeAudited'
  BY <1>26, EndFrame DEF ApplyTorn, TypeOK, Audits
<1>27. ASSUME NEW p \in Procs, ApplyManualFails(p) PROVE AuditInv' /\ DriverChangeAudited'
  BY <1>27, GotoFrame DEF ApplyManualFails, TypeOK, Audits
<1>28. ASSUME NEW p \in Procs, RestoreFails(p) PROVE AuditInv' /\ DriverChangeAudited'
  BY <1>28 DEF RestoreFails, TypeOK, Processes, RestoreInv, BackupInv, Entries, Lossless
<1>29. ASSUME NEW p \in Procs, Stop(p) PROVE AuditInv' /\ DriverChangeAudited'
  BY <1>29, EndFrame DEF Stop
<1>30. ASSUME NEW p \in Procs, StartRestore(p) PROVE AuditInv' /\ DriverChangeAudited'
  BY <1>30 DEF StartRestore, TypeOK, Processes, IdleProcess
<1>31. ASSUME ResetProgress PROVE AuditInv' /\ DriverChangeAudited'
  BY <1>31 DEF ResetProgress
<1>32. ASSUME ClearBackup PROVE AuditInv' /\ DriverChangeAudited'
  BY <1>32 DEF ClearBackup, Lossless, TypeOK
<1>33. CASE UNCHANGED vars
  BY <1>33 DEF vars
<1>34. QED
  BY <1>1, <1>2, <1>3, <1>4, <1>5, <1>6, <1>7, <1>8, <1>9, <1>10, <1>11, <1>12, <1>13, <1>14,
     <1>15, <1>16, <1>17, <1>18, <1>19, <1>20, <1>21, <1>22, <1>23, <1>24, <1>25, <1>26,
       <1>27, <1>28, <1>29, <1>30, <1>31, <1>32, <1>33
     DEF Next, Work, Disturb

-----------------------------------------------------------------------------
(* Completion: the proof is on disk before the step is recorded, by any run *)

\* A completion is recorded only with its proof.
LEMMA CompletionStep ==
    ASSUME TypeOK, StepInv, ProofInv, CompletionHasProof, [Next]_vars
    PROVE  ProofInv' /\ CompletionHasProof'
<1> USE DEF durable, bounds, At, Current, StepInv, ManualPcs, LosslessPcs, ProofInv,
     CompletionHasProof, Proved
<1>m. \A p \in Procs : proc[p].mem \in Records
  BY DEF TypeOK, Processes
<1>1. ASSUME NEW p \in Procs, StartRun(p) PROVE ProofInv' /\ CompletionHasProof'
  BY <1>1 DEF StartRun, TypeOK, Processes, IdleProcess
<1>2. ASSUME NEW p \in Procs, PassRecorded(p) PROVE ProofInv' /\ CompletionHasProof'
  BY <1>2 DEF PassRecorded, TypeOK, Processes
<1>3. ASSUME NEW p \in Procs, DeclineStep(p) PROVE ProofInv' /\ CompletionHasProof'
  BY <1>3, <1>m, PersistFrame, RecordsType DEF DeclineStep, Skip
<1>4. ASSUME NEW p \in Procs, Admit(p) PROVE ProofInv' /\ CompletionHasProof'
  BY <1>4, GotoFrame DEF Admit
<1>5. ASSUME NEW p \in Procs, Inspect(p) PROVE ProofInv' /\ CompletionHasProof'
  BY <1>5, GotoFrame, AfterInspectionType DEF Inspect
<1>6. ASSUME NEW p \in Procs, RecordInapplicable(p) PROVE ProofInv' /\ CompletionHasProof'
  BY <1>6, <1>m, PersistFrame, RecordsType DEF RecordInapplicable, Skip
<1>7. ASSUME NEW p \in Procs, RecordAdvisory(p) PROVE ProofInv' /\ CompletionHasProof'
  BY <1>7, <1>m, PersistFrame, RecordsType DEF RecordAdvisory, Advise
<1>8. ASSUME NEW p \in Procs, VerifyDirect(p) PROVE ProofInv' /\ CompletionHasProof'
  BY <1>8, GotoFrame DEF VerifyDirect
<1>9. ASSUME NEW p \in Procs, RecordEvidence(p) PROVE ProofInv' /\ CompletionHasProof'
  BY <1>9, GotoFrame DEF RecordEvidence
<1>10. ASSUME NEW p \in Procs, RecordCompletion(p) PROVE ProofInv' /\ CompletionHasProof'
  BY <1>10, <1>m, PersistFrame, RecordsType DEF RecordCompletion, Complete
<1>11. ASSUME NEW p \in Procs, FinishRun(p) PROVE ProofInv' /\ CompletionHasProof'
  BY <1>11, EndFrame DEF FinishRun
<1>12. ASSUME NEW p \in Procs, Capture(p) PROVE ProofInv' /\ CompletionHasProof'
  BY <1>12, GotoFrame DEF Capture
<1>13. ASSUME NEW p \in Procs, PersistBackups(p) PROVE ProofInv' /\ CompletionHasProof'
  BY <1>13, GotoFrame DEF PersistBackups
<1>14. ASSUME NEW p \in Procs, Apply(p) PROVE ProofInv' /\ CompletionHasProof'
  BY <1>14, GotoFrame DEF Apply
<1>15. ASSUME NEW p \in Procs, VerifyApplied(p) PROVE ProofInv' /\ CompletionHasProof'
  BY <1>15, GotoFrame DEF VerifyApplied
<1>16. ASSUME NEW p \in Procs, CaptureAudit(p) PROVE ProofInv' /\ CompletionHasProof'
  BY <1>16, GotoFrame DEF CaptureAudit
<1>17. ASSUME NEW p \in Procs, PersistAudit(p) PROVE ProofInv' /\ CompletionHasProof'
  BY <1>17, GotoFrame, SMTT(30) DEF PersistAudit, TypeOK, Audits
<1>18. ASSUME NEW p \in Procs, ApplyManual(p) PROVE ProofInv' /\ CompletionHasProof'
  BY <1>18, GotoFrame DEF ApplyManual
<1>19. ASSUME NEW p \in Procs, ApplyManualRefused(p) PROVE ProofInv' /\ CompletionHasProof'
  BY <1>19, GotoFrame DEF ApplyManualRefused
<1>20. ASSUME NEW p \in Procs, VerifyManual(p) PROVE ProofInv' /\ CompletionHasProof'
  BY <1>20, GotoFrame DEF VerifyManual
<1>21. ASSUME NEW p \in Procs, FinalizeAudit(p) PROVE ProofInv' /\ CompletionHasProof'
  BY <1>21, GotoFrame DEF FinalizeAudit, TypeOK, Audits
<1>22. ASSUME NEW p \in Procs, FailAudit(p) PROVE ProofInv' /\ CompletionHasProof'
  BY <1>22, EndFrame DEF FailAudit, TypeOK, Audits
<1>23. ASSUME NEW p \in Procs, RestoreEntry(p) PROVE ProofInv' /\ CompletionHasProof'
  BY <1>23 DEF RestoreEntry, TypeOK, Processes
<1>24. ASSUME NEW p \in Procs, FinishRestore(p) PROVE ProofInv' /\ CompletionHasProof'
  BY <1>24, EndFrame DEF FinishRestore
<1>25. ASSUME NEW p \in Procs, Refuse(p) PROVE ProofInv' /\ CompletionHasProof'
  BY <1>25, EndFrame DEF Refuse
<1>26. ASSUME NEW p \in Procs, ApplyTorn(p) PROVE ProofInv' /\ CompletionHasProof'
  BY <1>26, EndFrame DEF ApplyTorn
<1>27. ASSUME NEW p \in Procs, ApplyManualFails(p) PROVE ProofInv' /\ CompletionHasProof'
  BY <1>27, GotoFrame DEF ApplyManualFails
<1>28. ASSUME NEW p \in Procs, RestoreFails(p) PROVE ProofInv' /\ CompletionHasProof'
  BY <1>28 DEF RestoreFails, TypeOK, Processes
<1>29. ASSUME NEW p \in Procs, Stop(p) PROVE ProofInv' /\ CompletionHasProof'
  BY <1>29, EndFrame DEF Stop
<1>30. ASSUME NEW p \in Procs, StartRestore(p) PROVE ProofInv' /\ CompletionHasProof'
  BY <1>30 DEF StartRestore, TypeOK, Processes, IdleProcess, NoRecords
<1>31. ASSUME ResetProgress PROVE ProofInv' /\ CompletionHasProof'
  BY <1>31 DEF ResetProgress, NoRecords
<1>32. ASSUME ClearBackup PROVE ProofInv' /\ CompletionHasProof'
  BY <1>32 DEF ClearBackup
<1>33. CASE UNCHANGED vars
  BY <1>33 DEF vars
<1>34. QED
  BY <1>1, <1>2, <1>3, <1>4, <1>5, <1>6, <1>7, <1>8, <1>9, <1>10, <1>11, <1>12, <1>13, <1>14,
     <1>15, <1>16, <1>17, <1>18, <1>19, <1>20, <1>21, <1>22, <1>23, <1>24, <1>25, <1>26,
       <1>27, <1>28, <1>29, <1>30, <1>31, <1>32, <1>33
     DEF Next, Work, Disturb

-----------------------------------------------------------------------------
(* Theorems *)

\* The initial state satisfies the invariant.
LEMMA InvInit == Init => Inv
<1>1. SUFFICES ASSUME Init PROVE Inv
  OBVIOUS
<1>2. TypeOK
  BY <1>1, TypeInit
<1>3. \A p \in Procs : proc[p] = IdleProcess
  BY <1>1 DEF Init
<1>4. StepInv /\ LockInv /\ RestoreInv /\ AuditInv
  BY <1>3 DEF IdleProcess, StepInv, LockInv, RestoreInv, AuditInv, LosslessPcs,
     ManualPcs, LockPcs
<1>5. BackupInv /\ MutationRecoverable
  BY <1>1, <1>3 DEF Init, IdleProcess, BackupInv, MutationRecoverable, Lossless
<1>6. DriverChangeAudited
  BY <1>1 DEF Init, DriverChangeAudited, NoAudit, Manual
<1>7. ProofInv /\ CompletionHasProof
  BY <1>1, <1>3 DEF Init, IdleProcess, NoRecords, ProofInv, CompletionHasProof
<1>8. QED
  BY <1>2, <1>4, <1>5, <1>6, <1>7 DEF Inv

\* Every action keeps the invariant.
LEMMA InvStep == Inv /\ [Next]_vars => Inv'
  BY TypeStep, ControlStep, RecoveryStep, AuditStep, CompletionStep DEF Inv

\* Every reachable state satisfies the inductive invariant.
THEOREM InvHolds == Spec => []Inv
  BY InvInit, InvStep, PTL DEF Spec

\* The engine and the commands beside it keep every variable in its range.
THEOREM EngineTypeCorrect == Spec => []TypeOK
<1>1. Inv => TypeOK
  BY DEF Inv
<1>2. QED BY <1>1, InvHolds, PTL

\* Whatever was changed can be put back: a lossless setting that differs from
\* its original has that original in backup.json, for any number of
\* processes, retries, crashes and failing restores.
THEOREM MutationsAreRecoverable == Spec => []MutationRecoverable
<1>1. Inv => MutationRecoverable
  BY DEF Inv
<1>2. QED BY <1>1, InvHolds, PTL

\* A restore that keeps no entry has put every lossless setting back.
THEOREM RestoreIsComplete == Spec => []RestoreReturnsOriginals
<1>1. Inv => RestoreReturnsOriginals
  BY DEF Inv, RestoreInv, RestoreReturnsOriginals, At
<1>2. QED BY <1>1, InvHolds, PTL

\* No driver change without its audit entry, and never two pending entries.
THEOREM DriverChangesAreAudited == Spec => []DriverChangeAudited
<1>1. Inv => DriverChangeAudited
  BY DEF Inv
<1>2. QED BY <1>1, InvHolds, PTL

\* progress.json claims no driver step without an applied audit and no
\* evidence step without its receipt, although runs overwrite each other.
THEOREM CompletionsAreProved == Spec => []CompletionHasProof
<1>1. Inv => CompletionHasProof
  BY DEF Inv
<1>2. QED BY <1>1, InvHolds, PTL

-----------------------------------------------------------------------------
(* One process *)

\* No second process runs.
Alone == \A p, q \in Procs : p = q

\* What progress.json records, the memory of a run records too: reset-progress
\* is the only other command that writes the file, and it empties it.
MemoryInv ==
    \A p \in Procs : proc[p].pc \notin {"idle", "restoring"} =>
        \A s \in Steps : Recorded(progress, s) => Recorded(proc[p].mem, s)

\* A write of progress.json loses no step.
NothingLost ==
    \/ progress' = NoRecords
    \/ \A s \in Steps : Recorded(progress, s) => Recorded(progress', s)

\* Recording the outcome of a step keeps what is recorded of all steps.
LEMMA RecordsGrow ==
    ASSUME NEW r \in Records, NEW s \in Steps, NEW t \in Steps, Recorded(r, t)
    PROVE  Recorded(Complete(r, s), t) /\ Recorded(Skip(r, s), t) /\ Recorded(Advise(r, s), t)
  BY DEF Records, Recorded, Complete, Skip, Advise

\* A single process that writes a grown memory loses nothing and remembers it.
LEMMA PersistKeeps ==
    ASSUME Alone, TypeOK, MemoryInv, NEW p \in Procs, NEW r \in Records, PersistProgress(p, r),
           proc[p].pc \notin {"idle", "restoring"},
           \A s \in Steps : Recorded(proc[p].mem, s) => Recorded(r, s)
    PROVE  MemoryInv' /\ NothingLost
<1>1. progress' = r /\ proc'[p].mem = r
  BY DEF PersistProgress, TypeOK, Processes
<1>2. \A q \in Procs : q = p
  BY DEF Alone
<1>3. QED
  BY <1>1, <1>2 DEF MemoryInv, NothingLost

\* A step that leaves the file and the memory of a run alone.
LEMMA MemoryFrame ==
    ASSUME Alone, MemoryInv, NEW p \in Procs, progress' = progress,
           \/ proc'[p].pc \in {"idle", "restoring"}
           \/ proc'[p].mem = proc[p].mem /\ proc[p].pc \notin {"idle", "restoring"}
    PROVE  MemoryInv' /\ NothingLost
<1>1. \A q \in Procs : q = p
  BY DEF Alone
<1>2. QED
  BY <1>1 DEF MemoryInv, NothingLost

\* Every action of a single process keeps what is recorded.
LEMMA MemoryStep ==
    ASSUME Alone, Inv, MemoryInv, [Next]_vars
    PROVE  MemoryInv' /\ NothingLost
<1> USE DEF durable, bounds, At, Current
<1>t. TypeOK /\ \A p \in Procs : proc[p].mem \in Records
  BY DEF Inv, TypeOK, Processes
<1>1. ASSUME NEW p \in Procs, StartRun(p) PROVE MemoryInv' /\ NothingLost
  <2>1. progress' = progress /\ proc'[p].mem = progress
    BY <1>1, <1>t DEF StartRun, TypeOK, IdleProcess
  <2>2. \A q \in Procs : q = p
    BY DEF Alone
  <2>3. QED
    BY <2>1, <2>2 DEF MemoryInv, NothingLost
<1>2. ASSUME NEW p \in Procs,
             DeclineStep(p) \/ RecordInapplicable(p) \/ RecordAdvisory(p) \/ RecordCompletion(p)
      PROVE  MemoryInv' /\ NothingLost
  <2>1. proc[p].step \in Steps /\ proc[p].pc \notin {"idle", "restoring"}
    BY <1>2 DEF DeclineStep, RecordInapplicable, RecordAdvisory, RecordCompletion, Inv, StepInv
  <2>2. PICK r \in {Complete(proc[p].mem, proc[p].step), Skip(proc[p].mem, proc[p].step),
                    Advise(proc[p].mem, proc[p].step)} : PersistProgress(p, r)
    BY <1>2 DEF DeclineStep, RecordInapplicable, RecordAdvisory, RecordCompletion
  <2>3. r \in Records /\ \A s \in Steps : Recorded(proc[p].mem, s) => Recorded(r, s)
    BY <1>t, <2>1, RecordsType, RecordsGrow
  <2>4. QED
    BY <1>t, <2>1, <2>2, <2>3, PersistKeeps
<1>3. ASSUME NEW p \in Procs,
             \/ PassRecorded(p) \/ Admit(p) \/ Inspect(p) \/ VerifyDirect(p) \/ RecordEvidence(p)
             \/ Capture(p) \/ PersistBackups(p) \/ Apply(p) \/ VerifyApplied(p)
             \/ CaptureAudit(p) \/ PersistAudit(p) \/ ApplyManual(p) \/ ApplyManualRefused(p)
             \/ VerifyManual(p) \/ FinalizeAudit(p) \/ ApplyManualFails(p)
      PROVE  MemoryInv' /\ NothingLost
  <2>1. progress' = progress /\ proc[p].pc \notin {"idle", "restoring"}
    BY <1>3 DEF PassRecorded, Admit, Inspect, VerifyDirect, RecordEvidence, Capture,
       PersistBackups, Apply, VerifyApplied, CaptureAudit, PersistAudit, ApplyManual,
       ApplyManualRefused, VerifyManual, FinalizeAudit, ApplyManualFails
  <2>2. proc' = [proc EXCEPT ![p].step = @ + 1] \/ \E q \in Pcs \cup STRING : Goto(p, q)
    <3>1. AfterInspection(proc[p].step) \in Pcs \/ ~Inspect(p)
      BY AfterInspectionType DEF Inspect, Inv, StepInv, Pcs
    <3>2. QED
      BY <1>3, <3>1 DEF PassRecorded, Admit, Inspect, VerifyDirect, RecordEvidence, Capture,
         PersistBackups, Apply, VerifyApplied, CaptureAudit, PersistAudit, ApplyManual,
         ApplyManualRefused, VerifyManual, FinalizeAudit, ApplyManualFails, Pcs, LockPcs
  <2>3. proc'[p].mem = proc[p].mem
    BY <1>t, <2>2 DEF Goto, TypeOK, Processes
  <2>4. QED
    BY <2>1, <2>3, MemoryFrame
<1>4. ASSUME NEW p \in Procs,
             FinishRun(p) \/ FailAudit(p) \/ FinishRestore(p) \/ Refuse(p) \/ ApplyTorn(p) \/ Stop(p)
      PROVE  MemoryInv' /\ NothingLost
  <2>1. progress' = progress /\ proc'[p].pc = "idle"
    BY <1>4, <1>t DEF FinishRun, FailAudit, FinishRestore, Refuse, ApplyTorn, Stop, End,
       IdleProcess, TypeOK
  <2>2. QED
    BY <2>1, MemoryFrame
<1>5. ASSUME NEW p \in Procs, StartRestore(p) \/ RestoreEntry(p) \/ RestoreFails(p)
      PROVE  MemoryInv' /\ NothingLost
  <2>1. progress' = progress
    BY <1>5 DEF StartRestore, RestoreEntry, RestoreFails
  <2>2. proc'[p].pc = "restoring"
    <3>1. CASE StartRestore(p)
      BY <3>1, <1>t DEF StartRestore, TypeOK, IdleProcess
    <3>2. CASE RestoreEntry(p)
      BY <3>2, <1>t DEF RestoreEntry, TypeOK, Processes
    <3>3. CASE RestoreFails(p)
      <4>1. PICK s \in proc[p].todo :
               proc' = [proc EXCEPT ![p].todo = @ \ {s}, ![p].kept = @ \cup {s}]
        BY <3>3 DEF RestoreFails
      <4>2. QED
        BY <3>3, <4>1, <1>t DEF RestoreFails, TypeOK, Processes
    <3>4. QED
      BY <1>5, <3>1, <3>2, <3>3
  <2>3. QED
    BY <2>1, <2>2, MemoryFrame
<1>6. CASE ResetProgress
  BY <1>6 DEF ResetProgress, MemoryInv, NothingLost, NoRecords, Recorded
<1>7. CASE ClearBackup
  BY <1>7 DEF ClearBackup, MemoryInv, NothingLost
<1>8. CASE UNCHANGED vars
  BY <1>8 DEF vars, MemoryInv, NothingLost
<1>9. QED
  BY <1>1, <1>2, <1>3, <1>4, <1>5, <1>6, <1>7, <1>8 DEF Next, Work, Disturb

\* Without a second process no write of progress.json loses a recorded step: the
\* memory a run writes back is never older than the file.
THEOREM RecordedStepsAreKept == ASSUME Alone PROVE Spec => RecordedStepsSurvive
<1>1. Init => MemoryInv
  BY DEF Init, MemoryInv, IdleProcess
<1>2. Inv /\ MemoryInv /\ [Next]_vars => MemoryInv'
  BY MemoryStep
<1>3. Inv /\ MemoryInv /\ [Next]_vars => [NothingLost]_vars
  BY MemoryStep
<1>4. QED
  BY <1>1, <1>2, <1>3, InvHolds, PTL DEF Spec, RecordedStepsSurvive, NothingLost
=============================================================================
