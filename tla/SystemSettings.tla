--------------------------- MODULE SystemSettings ---------------------------
(***************************************************************************)
(* The single-value settings of Windows and their entries in backup.json:  *)
(* capture, apply and verify of the ones this release changes, and restore *)
(* of every kind the backup may hold.  Game Mode, the GPU preference of    *)
(* CS2 and Safe Boot are changed by this release; HAGS, the dynamic tick,  *)
(* services, tasks, power plans and interrupt policies were by earlier     *)
(* ones, whose entries may still be in the file: Capture of one of those   *)
(* stands for that release.                                                *)
(* The GPU preference is named after the CS2 executable and an interrupt   *)
(* policy after its device, which may be another one when restore runs.    *)
(***************************************************************************)
EXTENDS Collections

CONSTANTS
    None,
    Settings,     \* a subset of AllSettings
    Objects,      \* CS2 installations, devices
    Values,       \* the values a setting may have
    MaxRuns,      \* bound: steps that are applied
    MaxChanges,   \* bound: changes by Windows and the user
    MaxFaults     \* bound: calls that fail and crashes

VARIABLES
    value,        \* value[s][o]
    object,       \* object[s]: the installation, device, service, task or plan found
    booted,       \* the value of HAGS that Windows runs with
    checklist,    \* the final checklist, P3:12, was passed
    backup,       \* the entries of backup.json
    op, runs, changes, faults

machine == <<value, object, booted>>
vars == <<machine, checklist, backup, op, runs, changes, faults>>

AllSettings == {"game", "gpu", "safeboot", "hags", "tick", "service", "task", "plan", "interrupt",
                "autostart"}

\* Settings whose name holds an identity; of the others there is one each.
Bound == {"gpu", "interrupt", "autostart"}

\* Kinds whose restore reads the value back before it succeeds.
ReadBack == {"hags", "tick", "service", "task", "plan", "interrupt", "autostart"}

\* What has a place of its own: it may be gone, or another one found there.
Placed == {"gpu", "interrupt", "service", "task", "plan", "hags", "autostart"}

Suite == CHOOSE v \in Values : TRUE
Idle == [pc |-> "idle"]
ObjectsOf(s) == IF s \in Bound THEN Objects ELSE {CHOOSE o \in Objects : TRUE}
Entry(s, o) == [setting |-> s, object |-> o, original |-> value[s][o]]

\* BackupEntry, of the kinds that hold one value.
Entries == [setting : Settings, object : Objects, original : {None} \cup Values]

TypeOK ==
    /\ DOMAIN value = Settings /\ DOMAIN object = Settings
    /\ \A s \in Settings : value[s] \in [ObjectsOf(s) -> {None} \cup Values]
    /\ \A s \in Settings : object[s] \in {None} \cup ObjectsOf(s)
    /\ backup \in Seq(Entries)
    /\ \A i \in DOMAIN backup : backup[i].object \in ObjectsOf(backup[i].setting)
    /\ changes \in Nat
    /\ \A i, j \in DOMAIN backup :
          backup[i].setting = backup[j].setting /\ backup[i].object = backup[j].object => i = j

Init ==
    /\ value = [s \in Settings |-> [o \in ObjectsOf(s) |-> None]]
    /\ object = [s \in Settings |-> CHOOSE o \in ObjectsOf(s) : TRUE]
    /\ booted = None /\ checklist = FALSE
    /\ backup = <<>> /\ op = Idle
    /\ runs = 0 /\ changes = 0 /\ faults = 0

-----------------------------------------------------------------------------
Wanted(s) == IF s \in {"safeboot", "autostart"} THEN None ELSE Suite

\* inspect_action, without the applications that change nothing: the code finds a
\* value that is there already for some settings only, and rewrites the others.
NeedsApply(s) == object[s] # None /\ value[s][object[s]] # Wanted(s)

\* A capture that does not look for an earlier entry.
CaptureAnother(s) ==
    /\ op = Idle /\ runs < MaxRuns
    /\ NeedsApply(s)
    /\ runs' = runs + 1
    /\ backup' = Append(backup, Entry(s, object[s]))
    /\ op' = [pc |-> "apply", setting |-> s, object |-> object[s]]
    /\ UNCHANGED <<machine, checklist, changes, faults>>

\* capture_actions and push_first_value: the first entry of an identity stays.
Capture(s) ==
    /\ op = Idle /\ runs < MaxRuns
    /\ NeedsApply(s)
    /\ runs' = runs + 1
    /\ backup' = IF \E i \in DOMAIN backup :
                       backup[i].setting = s /\ backup[i].object = object[s]
                 THEN backup ELSE Append(backup, Entry(s, object[s]))
    /\ op' = [pc |-> "apply", setting |-> s, object |-> object[s]]
    /\ UNCHANGED <<machine, checklist, changes, faults>>

\* An apply to what is found now.
ApplyUnbound ==
    /\ op.pc = "apply"
    /\ LET o == object[op.setting]
       IN  /\ value' = IF o = None THEN value ELSE [value EXCEPT ![op.setting][o] = Wanted(op.setting)]
           /\ op' = IF o = None THEN Idle ELSE [op EXCEPT !.pc = "verify"]
    /\ UNCHANGED <<object, booted, checklist, backup, runs, changes, faults>>

\* apply_action after the binding has been observed again; deleting what is not
\* there fails.
Apply ==
    /\ op.pc = "apply"
    /\ LET s == op.setting
           fails == \/ object[s] # op.object
                    \/ Wanted(s) = None /\ value[s][op.object] = None
       IN  /\ value' = IF fails THEN value ELSE
                       [value EXCEPT ![s][op.object] = Wanted(s)]
           /\ op' = IF fails THEN Idle ELSE [op EXCEPT !.pc = "verify"]
    /\ UNCHANGED <<object, booted, checklist, backup, runs, changes, faults>>

Verify ==
    /\ op.pc = "verify"
    /\ op' = Idle
    /\ UNCHANGED <<machine, checklist, backup, runs, changes, faults>>

-----------------------------------------------------------------------------
\* restore_matching: all entries or those of one step, in reverse order; what
\* fails is retained, and the file is written once, at the end.
Restore ==
    /\ op = Idle /\ backup # <<>>
    /\ \E chosen \in {Settings} \cup {{s} : s \in Settings} :
        op' = [pc |-> "restore", next |-> Len(backup), written |-> 0, since |-> changes,
               chosen |-> chosen, kept |-> {}]
    /\ UNCHANGED <<machine, checklist, backup, runs, changes, faults>>

Current == backup[op.next]
Restoring == op.pc = "restore" /\ op.next > 0
Retain == op' = [op EXCEPT !.next = @ - 1, !.kept = @ \cup {Current}, !.written = 0]
Skip == /\ Restoring /\ op.written = 0
        /\ Current.setting \notin op.chosen
        /\ Retain
        /\ UNCHANGED <<machine, checklist, backup, runs, changes, faults>>

Gone(e) == value[e.setting][e.object] = None

\* The devices that are present and work, and what makes one the captured one:
\* its instance, class and PCI numbers, not its driver.
Observed(s) == {object[s]} \ {None}
SameDevice(e, o) == e.object = o

\* validate_cs2_restore_binding and reobserve_device: exactly one match.
Resolved(e) == \E o \in Observed(e.setting) : SameDevice(e, o)

\* registry_delete is an error when the value is not there.
RestorableRegistry(e) == /\ e.setting = "gpu" => Resolved(e)
                         /\ e.original = None => ~Gone(e)

\* bcdedit /set and /deletevalue, which fails likewise.
RestorableBoot(e) == e.original = None => ~Gone(e)

\* restore_hags_entry does not look at the adapters.
RestorableHags(e) == e.original = None => ~Gone(e)

\* The service must exist; it is configured, then started or stopped.
RestorableService(e) == Observed("service") # {}

\* A task that was there is opened, one that was not is deleted.
RestorableTask(e) == Observed("task") # {} /\ (e.original = None => ~Gone(e))

\* powercfg /setactive of the plan, then /delete of the suite's own.
RestorablePlan(e) == Observed("plan") # {}

\* Deleting an interrupt policy that is not there succeeds.
RestorableInterrupt(e) == Resolved(e)

\* A Run value is restored only under a name the configuration lists now.
RestorableAutostart(e) == Resolved(e) /\ e.original # None

CanRestore(e) ==
    CASE e.setting \in {"game", "gpu"} -> RestorableRegistry(e)
      [] e.setting \in {"safeboot", "tick"} -> RestorableBoot(e)
      [] e.setting = "hags" -> RestorableHags(e)
      [] e.setting = "service" -> RestorableService(e)
      [] e.setting = "task" -> RestorableTask(e)
      [] e.setting = "plan" -> RestorablePlan(e)
      [] e.setting = "interrupt" -> RestorableInterrupt(e)
      [] e.setting = "autostart" -> RestorableAutostart(e)

\* restore_entry up to the write; an interrupt policy or value is written for
\* the object that was resolved.
RestoreWrite ==
    /\ Restoring /\ op.written = 0
    /\ Current.setting \in op.chosen
    /\ IF CanRestore(Current)
       THEN LET o == IF Current.setting \in Bound THEN object[Current.setting]
                     ELSE Current.object
            IN  /\ value' = [value EXCEPT ![Current.setting][o] = Current.original]
                /\ op' = [op EXCEPT !.written = op.next]
       ELSE UNCHANGED value /\ Retain
    /\ UNCHANGED <<object, booted, checklist, backup, runs, changes, faults>>

\* The readback, for the kinds that have one.
RestoreReadBack ==
    /\ Restoring /\ op.written = op.next
    /\ IF Current.setting \in ReadBack /\ value[Current.setting][Current.object] # Current.original
       THEN Retain
       ELSE op' = [op EXCEPT !.next = @ - 1, !.written = 0]
    /\ UNCHANGED <<machine, checklist, backup, runs, changes, faults>>

\* The loop forgets what it could not restore.
FinishRestoreDropping ==
    /\ op.pc = "restore" /\ op.next = 0
    /\ backup' = Retained(backup, {i \in DOMAIN backup : /\ backup[i] \in op.kept
                                                         /\ backup[i].setting \notin op.chosen})
    /\ op' = Idle
    /\ UNCHANGED <<machine, checklist, runs, changes, faults>>

FinishRestore ==
    /\ op.pc = "restore" /\ op.next = 0
    /\ backup' = Retained(backup, {i \in DOMAIN backup : backup[i] \in op.kept})
    /\ op' = Idle
    /\ UNCHANGED <<machine, checklist, runs, changes, faults>>

\* A restored service was configured but could not be started, a plan activated
\* but the suite's not deleted, or any other call failed; the entry is retained.
RestoreFails ==
    /\ faults < MaxFaults /\ faults' = faults + 1
    /\ Restoring /\ Current.setting \in op.chosen
    /\ value' \in {value} \cup
          {[value EXCEPT ![Current.setting][Current.object] = Current.original] :
              x \in {Current.setting} \cap {"service", "plan"}}
    /\ Retain
    /\ UNCHANGED <<object, booted, checklist, backup, runs, changes>>

Crash ==
    /\ faults < MaxFaults /\ faults' = faults + 1
    /\ op # Idle /\ op' = Idle
    /\ UNCHANGED <<machine, checklist, backup, runs, changes>>

\* Windows, the user and other programs: values, devices, installations.
Change ==
    /\ changes < MaxChanges /\ changes' = changes + 1
    /\ \/ \E s \in Settings, v \in Values \cup {None} : \E o \in ObjectsOf(s) :
            value[s][o] # v /\ value' = [value EXCEPT ![s][o] = v] /\ UNCHANGED object
       \/ \E s \in Settings \cap Placed : \E o \in ObjectsOf(s) \cup {None} :
            object[s] # o /\ object' = [object EXCEPT ![s] = o] /\ UNCHANGED value
    /\ UNCHANGED <<booted, checklist, backup, op, runs, faults>>

\* hags_pending_verification: the adapters are the captured ones and Windows
\* reports the scheduler enabled on each.
HagsEffective(e) == Resolved(e) /\ booted = Suite

\* P3:12, whose other steps the engine checks.
FinalChecklist ==
    /\ op = Idle /\ ~checklist
    /\ \A i \in DOMAIN backup : backup[i].setting = "hags" => HagsEffective(backup[i])
    /\ checklist' = TRUE
    /\ UNCHANGED <<machine, backup, op, runs, changes, faults>>

Reboot ==
    /\ op = Idle /\ "hags" \in Settings
    /\ LET o == CHOOSE x \in ObjectsOf("hags") : TRUE
       IN  booted' = value["hags"][o] /\ booted' # booted
    /\ UNCHANGED <<value, object, checklist, backup, op, runs, changes, faults>>

Step == Apply \/ Verify \/ Skip \/ RestoreWrite \/ RestoreReadBack \/ FinishRestore

Next == \/ \E s \in Settings : Capture(s)
        \/ Restore \/ Step \/ RestoreFails \/ Crash \/ Change
        \/ FinalChecklist \/ Reboot

-----------------------------------------------------------------------------
\* Properties.

\* A command changes a value only of the installation or device whose original
\* is in the backup, also when another one has taken its place since.
OnlyCapturedObject ==
    [][changes' = changes =>
        \A s \in Settings : \A o \in ObjectsOf(s) : value'[s][o] # value[s][o] =>
            \E i \in DOMAIN backup : backup[i].setting = s /\ backup[i].object = o]_vars

\* An entry leaves the backup only when its value is the original again, unless
\* somebody else changed the machine during that restore: a failed, skipped or
\* crashed restore loses no original.
OriginalReturns ==
    [][\A i \in DOMAIN backup :
        (~\E j \in DOMAIN backup' : backup'[j] = backup[i]) /\ op.since = changes =>
            value[backup[i].setting][backup[i].object] = backup[i].original]_vars
=============================================================================
