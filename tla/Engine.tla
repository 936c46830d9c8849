------------------------------- MODULE Engine -------------------------------
(***************************************************************************)
(* The step engine over the live backend.  One run walks the catalog steps *)
(* of a phase; for each it asks the policy, inspects the machine, captures *)
(* and persists what recovery needs, applies, verifies and records.  The   *)
(* engine keeps its progress in memory and writes all of it each time; the *)
(* work lock is taken when a step captures and given back when its         *)
(* progress is written, so inspection, direct verification and the reading *)
(* of the session happen outside it.  Restore, reset-progress and          *)
(* clear-backup take the same lock.                                        *)
(*                                                                         *)
(* Every durable write is an action.  An error is returned through every   *)
(* caller and drops the backend with its lock, so a failing step without   *)
(* effect and a crash of the process are one action, Stop.                 *)
(***************************************************************************)
EXTENDS Integers, FiniteSets

CONSTANTS
    Procs, NoProc,      \* process slots, and "nobody"
    N,                  \* the steps of the run are 1 .. N, in catalog order
    Kind,               \* what each step is to the backend
    Decision,           \* what the profile decides for each step
    BoundVerify,        \* lossless steps verified only against what they captured
    AuthorizedAdvisory, \* advisories that resolve their step (P1:2 and P1:9)
    SelfLocking,        \* driver steps whose operation takes the work lock itself
    MaxFaults,          \* bound: failing steps and crashes
    MaxInterventions    \* bound: restore, reset-progress and clear-backup commands

Steps == 1 .. N
Kinds == {"lossless", "manual", "check", "evidence", "advisory", "inapplicable"}

ASSUME NoProcAssumption == NoProc \notin Procs
ASSUME StepsAssumption == N \in Nat
ASSUME KindAssumption == Kind \in [Steps -> Kinds]
ASSUME DecisionAssumption == Decision \in [Steps -> {"auto", "prompt", "skip"}]
ASSUME BoundVerifyAssumption == \A s \in BoundVerify : s \in Steps /\ Kind[s] = "lossless"
ASSUME AuthorizedAdvisoryAssumption == AuthorizedAdvisory \subseteq Steps
ASSUME SelfLockingAssumption == SelfLocking \subseteq Steps
ASSUME BoundsAssumption == MaxFaults \in Nat /\ MaxInterventions \in Nat

VARIABLES
    setting,    \* what each step controls on the machine
    base,       \* history: its value when no recovery record is owed for it
    backup,     \* backup.json: the recorded original of each step
    audits,     \* audit.json: the irreversible audits of each step
    receipts,   \* observations.json: steps with a persisted receipt
    progress,   \* progress.json
    lock,       \* holder of the work lock
    proc,       \* the running commands
    faults, interventions

durable == <<setting, backup, audits, receipts, progress>>
vars == <<durable, base, lock, proc, faults, interventions>>

-----------------------------------------------------------------------------
Values   == {"old", "torn", "want"}
NoBackup == "none"

Lossless == {s \in Steps : Kind[s] = "lossless"}
Manual   == {s \in Steps : Kind[s] = "manual"}

Records == [completed : SUBSET Steps, skipped : SUBSET Steps, advisories : SUBSET Steps]
NoRecords == [completed |-> {}, skipped |-> {}, advisories |-> {}]

\* The audit file holds any number of settled entries per step.
Audits  == [pending : Nat, applied : BOOLEAN, failed : BOOLEAN]
NoAudit == [pending |-> 0, applied |-> FALSE, failed |-> FALSE]

LockPcs == {"backed", "apply", "verify", "audited", "manual_apply", "manual_verify",
            "finalize", "fail_audit", "complete_locked", "restoring"}
Pcs == LockPcs \cup {"idle", "next", "inspect", "direct_verify", "capture", "audit",
                     "evidence", "complete", "inapplicable", "advisory"}

Processes == [pc : Pcs, step : 1 .. (N + 1), mem : Records,
              todo : SUBSET Steps,    \* restore: entries not yet tried
              kept : SUBSET Steps]    \* restore: entries to write back

IdleProcess == [pc |-> "idle", step |-> 1, mem |-> NoRecords, todo |-> {}, kept |-> {}]

LockFree == lock = NoProc
At(p, q) == proc[p].pc = q
Goto(p, q) == proc' = [proc EXCEPT ![p].pc = q]
Current(p) == proc[p].step


\* The process ends, or the backend is dropped with the lock it holds.
End(p) == /\ proc' = [proc EXCEPT ![p] = IdleProcess]
          /\ lock' = IF lock = p THEN NoProc ELSE lock

bounds == <<faults, interventions>>

-----------------------------------------------------------------------------
(* progress.json *)

Recorded(r, s) == s \in r.completed \cup r.skipped \cup r.advisories

Complete(r, s) == [completed  |-> r.completed \cup {s}, skipped |-> r.skipped \ {s},
                   advisories |-> r.advisories \ {s}]
Skip(r, s)     == [completed  |-> r.completed \ {s}, skipped |-> r.skipped \cup {s},
                   advisories |-> r.advisories \ {s}]
Advise(r, s)   == [completed  |-> r.completed \ {s}, skipped |-> r.skipped \ {s},
                   advisories |-> r.advisories \cup {s}]

\* Wrong variant: the engine's memory is not replaced after the write.
PersistProgressForgetful(p, r) ==
    /\ LockFree \/ lock = p
    /\ progress' = r
    /\ lock' = NoProc
    /\ proc' = [proc EXCEPT ![p].pc = "next", ![p].step = @ + 1]
    /\ UNCHANGED <<setting, base, backup, audits, receipts, bounds>>

\* The whole in-memory record is written, under the lock the step retained
\* or a temporary one; the memory is replaced only after the write.
PersistProgress(p, r) ==
    /\ LockFree \/ lock = p
    /\ progress' = r
    /\ lock' = NoProc
    /\ proc' = [proc EXCEPT ![p].pc = "next", ![p].step = @ + 1, ![p].mem = r]
    /\ UNCHANGED <<setting, base, backup, audits, receipts, bounds>>

-----------------------------------------------------------------------------
(* A run *)

StartRun(p) ==
    /\ At(p, "idle")
    /\ proc' = [proc EXCEPT ![p] = [IdleProcess EXCEPT !.pc = "next", !.mem = progress]]
    /\ UNCHANGED <<durable, base, lock, bounds>>

PassRecorded(p) ==
    /\ At(p, "next") /\ Current(p) \in Steps
    /\ Recorded(proc[p].mem, Current(p))
    /\ proc' = [proc EXCEPT ![p].step = @ + 1]
    /\ UNCHANGED <<durable, base, lock, bounds>>

\* Refused by the profile's decision or, when it prompts, by the user.
DeclineStep(p) ==
    /\ At(p, "next") /\ Current(p) \in Steps
    /\ ~Recorded(proc[p].mem, Current(p))
    /\ Decision[Current(p)] # "auto"
    /\ PersistProgress(p, Skip(proc[p].mem, Current(p)))

Admit(p) ==
    /\ At(p, "next") /\ Current(p) \in Steps
    /\ ~Recorded(proc[p].mem, Current(p))
    /\ Decision[Current(p)] # "skip"
    /\ Goto(p, "inspect")
    /\ UNCHANGED <<durable, base, lock, bounds>>

\* Where an inspection leads; a driver step is never found satisfied.
AfterInspection(s) ==
    CASE Kind[s] = "lossless" -> IF setting[s] = "want" THEN "direct_verify" ELSE "capture"
      [] Kind[s] = "manual"   -> "audit"
      [] Kind[s] = "check"    -> "direct_verify"
      [] OTHER                -> Kind[s]

\* Inspection holds no lock: what it saw may be gone when the step acts.
Inspect(p) ==
    /\ At(p, "inspect")
    /\ Goto(p, AfterInspection(Current(p)))
    /\ UNCHANGED <<durable, base, lock, bounds>>

RecordInapplicable(p) ==
    /\ At(p, "inapplicable")
    /\ PersistProgress(p, Skip(proc[p].mem, Current(p)))

RecordAdvisory(p) ==
    /\ At(p, "advisory")
    /\ PersistProgress(p, Advise(proc[p].mem, Current(p)))

\* A satisfied or check-only step is verified as it stands, without a capture.
Verifies(s) == Kind[s] = "lossless" => setting[s] = "want" /\ s \notin BoundVerify

VerifyDirect(p) ==
    /\ At(p, "direct_verify") /\ Verifies(Current(p))
    /\ Goto(p, "complete")
    /\ UNCHANGED <<durable, base, lock, bounds>>

\* Wrong variant: the receipt stays in memory.
RecordEvidenceUnwritten(p) ==
    /\ At(p, "evidence")
    /\ Goto(p, "complete")
    /\ UNCHANGED <<durable, base, lock, bounds>>

RecordEvidence(p) ==
    /\ At(p, "evidence")
    /\ receipts' = receipts \cup {Current(p)}
    /\ Goto(p, "complete")
    /\ UNCHANGED <<setting, base, backup, audits, progress, lock, bounds>>

RecordCompletion(p) ==
    /\ At(p, "complete") \/ At(p, "complete_locked")
    /\ PersistProgress(p, Complete(proc[p].mem, Current(p)))

FinishRun(p) ==
    /\ At(p, "next") /\ Current(p) = N + 1
    /\ End(p)
    /\ UNCHANGED <<durable, base, bounds>>

-----------------------------------------------------------------------------
(* Lossless steps: capture, persist, apply, verify *)

Capture(p) ==
    /\ At(p, "capture") /\ LockFree
    /\ lock' = p
    /\ Goto(p, "backed")
    /\ UNCHANGED <<durable, base, bounds>>

\* Wrong variant: each attempt records what it finds.
LatestValue(s) == [backup EXCEPT ![s] = setting[s]]

\* push_first_value: an original already recorded is never replaced.
FirstValue(s) == [backup EXCEPT ![s] = IF @ = NoBackup THEN setting[s] ELSE @]

PersistBackups(p) ==
    /\ At(p, "backed")
    /\ backup' = FirstValue(Current(p))
    /\ Goto(p, "apply")
    /\ UNCHANGED <<setting, base, audits, receipts, progress, lock, bounds>>

Apply(p) ==
    /\ At(p, "apply")
    /\ setting' = [setting EXCEPT ![Current(p)] = "want"]
    /\ Goto(p, "verify")
    /\ UNCHANGED <<backup, base, audits, receipts, progress, lock, bounds>>

\* An apply that fails part-way ends the run and leaves the setting torn.
ApplyTorn(p) ==
    /\ At(p, "apply")
    /\ faults < MaxFaults /\ faults' = faults + 1
    /\ setting' = [setting EXCEPT ![Current(p)] = "torn"]
    /\ End(p)
    /\ UNCHANGED <<backup, base, audits, receipts, progress, interventions>>

VerifyApplied(p) ==
    /\ At(p, "verify") /\ setting[Current(p)] = "want"
    /\ Goto(p, "complete_locked")
    /\ UNCHANGED <<durable, base, lock, bounds>>

-----------------------------------------------------------------------------
(* Driver steps P2:2 and P3:1: a pending audit, apply, verify, its outcome *)

CaptureAudit(p) ==
    /\ At(p, "audit") /\ LockFree
    /\ audits[Current(p)].pending <= 1
    /\ lock' = p
    /\ Goto(p, "audited")
    /\ UNCHANGED <<durable, base, bounds>>

\* Wrong variant: a retry adds a second pending entry.
PersistAuditAgain(p) ==
    /\ At(p, "audited")
    /\ audits' = [audits EXCEPT ![Current(p)].pending = @ + 1]
    /\ Goto(p, "manual_apply")
    /\ UNCHANGED <<setting, base, backup, receipts, progress, lock, bounds>>

\* The entry left pending by an interrupted attempt is taken up again.
PersistAudit(p) ==
    /\ At(p, "audited")
    /\ audits' = [audits EXCEPT ![Current(p)].pending = 1]
    /\ Goto(p, "manual_apply")
    /\ UNCHANGED <<setting, base, backup, receipts, progress, lock, bounds>>

\* persist_driver_transaction, the first thing that removal and installation
\* do, creates the lock file that this very process holds open.
DriverMayWork(p) == Current(p) \notin SelfLocking

ApplyManual(p) ==
    /\ At(p, "manual_apply") /\ DriverMayWork(p)
    /\ setting' = [setting EXCEPT ![Current(p)] = "want"]
    /\ Goto(p, "manual_verify")
    /\ UNCHANGED <<backup, base, audits, receipts, progress, lock, bounds>>

ApplyManualRefused(p) ==
    /\ At(p, "manual_apply") /\ ~DriverMayWork(p)
    /\ Goto(p, "fail_audit")
    /\ UNCHANGED <<durable, base, lock, bounds>>

ApplyManualFails(p) ==
    /\ At(p, "manual_apply") /\ DriverMayWork(p)
    /\ faults < MaxFaults /\ faults' = faults + 1
    /\ setting' \in {setting, [setting EXCEPT ![Current(p)] = "torn"]}
    /\ Goto(p, "fail_audit")
    /\ UNCHANGED <<backup, base, audits, receipts, progress, lock, interventions>>

VerifyManual(p) ==
    /\ At(p, "manual_verify")
    /\ Goto(p, "finalize")
    /\ UNCHANGED <<durable, base, lock, bounds>>

FinalizeAudit(p) ==
    /\ At(p, "finalize") /\ audits[Current(p)].pending = 1
    /\ audits' = [audits EXCEPT ![Current(p)] = [@ EXCEPT !.pending = 0, !.applied = TRUE]]
    /\ Goto(p, "complete_locked")
    /\ UNCHANGED <<setting, base, backup, receipts, progress, lock, bounds>>

\* The outcome is recorded, the lock given back, and the error returned.
FailAudit(p) ==
    /\ At(p, "fail_audit") /\ audits[Current(p)].pending = 1
    /\ audits' = [audits EXCEPT ![Current(p)] = [@ EXCEPT !.pending = 0, !.failed = TRUE]]
    /\ End(p)
    /\ UNCHANGED <<setting, base, backup, receipts, progress, bounds>>

-----------------------------------------------------------------------------
(* Restore, reset-progress and clear-backup *)

\* Wrong variant: restores steps that recorded nothing.
EntriesOfEveryStep == Steps

Entries == {s \in Steps : backup[s] # NoBackup}

Intervene == interventions < MaxInterventions /\ interventions' = interventions + 1

\* All entries, or those of one step.
StartRestore(p) ==
    /\ At(p, "idle") /\ LockFree /\ Intervene
    /\ \E chosen \in {Steps} \cup {{s} : s \in Steps} :
          proc' = [proc EXCEPT ![p] =
             [IdleProcess EXCEPT !.pc = "restoring", !.todo = Entries \cap chosen,
                                 !.kept = Entries \ chosen]]
    /\ lock' = p
    /\ UNCHANGED <<durable, base, faults>>

RestoreEntry(p) ==
    /\ At(p, "restoring")
    /\ \E s \in proc[p].todo :
          /\ setting' = [setting EXCEPT ![s] = backup[s]]
          /\ proc' = [proc EXCEPT ![p].todo = @ \ {s}]
    /\ UNCHANGED <<backup, base, audits, receipts, progress, lock, bounds>>

\* Wrong variant: an entry that could not be restored is dropped.
RestoreFailsDropped(p) ==
    /\ At(p, "restoring")
    /\ faults < MaxFaults /\ faults' = faults + 1
    /\ \E s \in proc[p].todo : proc' = [proc EXCEPT ![p].todo = @ \ {s}]
    /\ UNCHANGED <<durable, base, lock, interventions>>

RestoreFails(p) ==
    /\ At(p, "restoring")
    /\ faults < MaxFaults /\ faults' = faults + 1
    /\ \E s \in proc[p].todo :
          /\ setting' \in {setting, [setting EXCEPT ![s] = "torn"]}
          /\ proc' = [proc EXCEPT ![p].todo = @ \ {s}, ![p].kept = @ \cup {s}]
    /\ UNCHANGED <<backup, base, audits, receipts, progress, lock, interventions>>

\* One write at the end; progress.json is left as it is.
FinishRestore(p) ==
    /\ At(p, "restoring") /\ proc[p].todo = {}
    /\ backup' = [s \in Steps |-> IF s \in proc[p].kept THEN backup[s] ELSE NoBackup]
    /\ End(p)
    /\ UNCHANGED <<setting, base, audits, receipts, progress, bounds>>

ResetProgress ==
    /\ LockFree /\ Intervene
    /\ progress' = NoRecords
    /\ UNCHANGED <<setting, base, backup, audits, receipts, lock, proc, faults>>

\* The user accepts the settings as they are.
ClearBackup ==
    /\ LockFree /\ Intervene
    /\ backup' = [s \in Steps |-> NoBackup]
    /\ base' = [s \in Steps |-> IF s \in Lossless THEN setting[s] ELSE base[s]]
    /\ UNCHANGED <<setting, audits, receipts, progress, lock, proc, faults>>

-----------------------------------------------------------------------------
(* Failing *)

NeedsLock(p) ==
    \/ proc[p].pc \in {"capture", "audit", "complete", "inapplicable", "advisory"}
    \/ /\ At(p, "next") /\ Current(p) \in Steps
       /\ ~Recorded(proc[p].mem, Current(p)) /\ Decision[Current(p)] # "auto"

\* The lock is taken, or a check fails: the error ends the run.
Refuse(p) ==
    /\ \/ NeedsLock(p) /\ ~LockFree
       \/ At(p, "audit") /\ audits[Current(p)].pending > 1
       \/ At(p, "direct_verify") /\ ~Verifies(Current(p))
    /\ End(p)
    /\ UNCHANGED <<durable, base, bounds>>

\* A crash, a step that fails without effect, an unsupported inspection, or
\* Ctrl-C seen between two steps.
Stop(p) ==
    /\ proc[p].pc # "idle"
    /\ faults < MaxFaults /\ faults' = faults + 1
    /\ End(p)
    /\ UNCHANGED <<durable, base, interventions>>

-----------------------------------------------------------------------------
Init ==
    /\ base \in [Steps -> {"old", "want"}]
    /\ \A s \in Steps : Kind[s] # "lossless" => base[s] = "old"
    /\ setting = base
    /\ backup = [s \in Steps |-> NoBackup]
    /\ audits = [s \in Steps |-> NoAudit] /\ receipts = {}
    /\ progress = NoRecords
    /\ lock = NoProc /\ proc = [p \in Procs |-> IdleProcess]
    /\ faults = 0 /\ interventions = 0

Work(p) ==
    \/ PassRecorded(p) \/ DeclineStep(p) \/ Admit(p) \/ Inspect(p)
    \/ RecordInapplicable(p) \/ RecordAdvisory(p) \/ VerifyDirect(p)
    \/ RecordEvidence(p) \/ RecordCompletion(p) \/ FinishRun(p)
    \/ Capture(p) \/ PersistBackups(p) \/ Apply(p) \/ VerifyApplied(p)
    \/ CaptureAudit(p) \/ PersistAudit(p) \/ ApplyManual(p) \/ ApplyManualRefused(p)
    \/ VerifyManual(p) \/ FinalizeAudit(p) \/ FailAudit(p)
    \/ RestoreEntry(p) \/ FinishRestore(p) \/ Refuse(p)

Disturb(p) ==
    ApplyTorn(p) \/ ApplyManualFails(p) \/ RestoreFails(p) \/ Stop(p)

Next ==
    \/ \E p \in Procs : StartRun(p) \/ Work(p) \/ Disturb(p) \/ StartRestore(p)
    \/ ResetProgress \/ ClearBackup

Spec == Init /\ [][Next]_vars

-----------------------------------------------------------------------------
(* Correctness *)

\* Every variable stays in its range: type invariant of the module.
TypeOK ==
    /\ setting \in [Steps -> Values] /\ base \in [Steps -> Values]
    /\ backup \in [Steps -> Values \cup {NoBackup}]
    /\ audits \in [Steps -> Audits] /\ receipts \in SUBSET Steps
    /\ progress \in Records
    /\ lock \in Procs \cup {NoProc} /\ proc \in [Procs -> Processes]
    /\ faults \in 0 .. MaxFaults /\ interventions \in 0 .. MaxInterventions

\* Whatever lossless setting differs from its original has that original, and
\* not a later value, in backup.json: across retries of half-applied steps,
\* crashes, failing restores and commands that run at the same time.
MutationRecoverable ==
    \A s \in Lossless : setting[s] # base[s] => backup[s] = base[s]

\* When a restore has tried its entries and keeps none, every lossless
\* setting is back at its original (restore_matching reports success then).
RestoreReturnsOriginals ==
    \A p \in Procs :
       At(p, "restoring") /\ proc[p].todo = {} /\ proc[p].kept = {}
         => \A s \in Lossless : setting[s] = base[s]

\* The driver is never touched without an audit entry that says so, and a
\* crash or a retry never leaves two pending entries, which no later attempt
\* could tell apart (capture_irreversible_audit, persist_irreversible_audit).
DriverChangeAudited ==
    \A s \in Manual : /\ setting[s] # base[s] => audits[s] # NoAudit
                      /\ audits[s].pending <= 1

\* A step recorded as completed has the proof its kind requires on disk: an
\* applied audit or an observation receipt.  Stale progress written by
\* another run, or restored by a retry, never claims more than that.
CompletionHasProof ==
    \A s \in progress.completed :
       /\ Kind[s] = "manual"   => audits[s].applied
       /\ Kind[s] = "evidence" => s \in receipts

\* Without a second process, no later write of progress.json loses a step
\* that an earlier one recorded; only reset-progress does.
RecordedStepsSurvive ==
    [][\/ progress' = NoRecords
       \/ \A s \in Steps : Recorded(progress, s) => Recorded(progress', s)]_vars

-----------------------------------------------------------------------------
(* Liveness: a command runs to its end, and the user runs it again. *)

Fairness == \A p \in Procs : WF_vars(Work(p)) /\ WF_vars(StartRun(p))

FairSpec == Spec /\ Fairness

\* The run has come to a bound step whose setting is already as wanted, but
\* which no record holds: its verification is refused on every retry.
Obstructed ==
    \E b \in BoundVerify :
       /\ setting[b] = "want" /\ ~Recorded(progress, b)
       /\ \A s \in 1 .. b - 1 : Recorded(progress, s)


-----------------------------------------------------------------------------
(* Statements of the repository that the code does not meet *)

\* "performs guarded work, clears Safe Boot, and records the same-user Phase 3
\* handoff": a driver step that was admitted and audited gets done.
DriverStepCompletes ==
    \A s \in Manual : (audits[s].pending = 1) ~> (s \in progress.completed)

\* require_resolved_phase_one, over the progress read after the run
ResolvedPhaseOne(r) ==
    \A s \in Steps : s \in r.completed \cup r.skipped
                          \cup (r.advisories \cap AuthorizedAdvisory)

\* "`optimize` completes Phase 1": a run that returned Ok has resolved it.
OptimizeCompletesPhaseOne ==
    \A p \in Procs : At(p, "next") /\ Current(p) = N + 1
                        => ResolvedPhaseOne(proc[p].mem)
=============================================================================
