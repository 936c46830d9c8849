----------------------------- MODULE Cs2Config -----------------------------
(***************************************************************************)
(* The CS2 configuration files: step P1:34, which writes optimization.cfg  *)
(* and a fixed set of embedded files, the optional deployment of single    *)
(* embedded files, and the restore of both from backup.json.  The files    *)
(* belong to an installation, which may be another one when a later step   *)
(* runs; each file is replaced atomically, the set of them is not.         *)
(***************************************************************************)
EXTENDS Collections, SequencesExt

CONSTANTS
    None,
    Installs,
    Legacy,       \* the embedded files of P1:34, in write order
    Optional,     \* all embedded files
    MaxMinute,    \* bound: the minutes that pass
    MaxRuns,      \* bound: applications
    MaxChanges,   \* bound: edits by the user and moves of the installation
    MaxFaults     \* bound: calls that fail and crashes

VARIABLES
    files,        \* files[i][t]
    bak,          \* bak[i]: optimization.cfg.bak
    install,      \* the installation HKCU SteamPath leads to, or None
    minute,
    backup, op, runs, changes, faults,
    owed,         \* owed[i][t]: what the suite has replaced and not yet put back
    uneven        \* a restore put back one of two entries that share a file

disk == <<files, bak>>
bounds == <<runs, changes, faults>>
history == <<owed, uneven>>
vars == <<disk, install, minute, backup, op, bounds, history>>

Main == "P1:34"
Extra == "CS2:CFG"
Targets == {"optimization"} \cup Optional
Idle == [pc |-> "idle"]

\* A file's content: absent, the user's, the user's change to a file that an
\* entry of the backup already covers, or the suite's.
Absent == [by |-> "nobody", at |-> 0]
User(n) == [by |-> "user", at |-> n]
Edit(n) == [by |-> "edit", at |-> n]
Suite(t, m) == [by |-> t, at |-> IF t = "optimization" THEN m ELSE 0]

\* for_request: optimization.cfg first, then the embedded files.
ForRequest == <<"optimization">> \o Legacy
Wanted(e, t) == Suite(t, e.minute)

\* dedupe_identity: step, installation and the list of files.
SameIdentity(e, f) == /\ e.step = f.step /\ e.install = f.install
                      /\ e.targets = f.targets
PushFirstValue(e) == IF \E i \in DOMAIN backup : SameIdentity(backup[i], e)
                     THEN backup ELSE Append(backup, e)

\* What a file may hold, and BackupEntry::Cs2ConfigTransaction: an original for
\* each of its files.
Contents == [by : {"nobody", "user", "edit"} \cup Targets, at : Nat]
Entries == {e \in [step : {Main, Extra}, install : Installs, targets : Seq(Targets),
                   minute : Nat, original : [Targets -> {None} \cup Contents]] :
               \A t \in ToSet(e.targets) : e.original[t] # None}

TypeOK ==
    /\ files \in [Installs -> [Targets -> Contents]]
    /\ bak \in [Installs -> Contents]
    /\ install \in {None} \cup Installs
    /\ minute \in Nat /\ changes \in Nat
    /\ backup \in Seq(Entries)
    /\ owed \in [Installs -> [Targets -> {None} \cup Contents]]
    /\ uneven \in BOOLEAN

Init ==
    /\ files = [i \in Installs |-> [t \in Targets |-> IF t \in Optional THEN User(0) ELSE Absent]]
    /\ bak = [i \in Installs |-> Absent]
    /\ install = CHOOSE i \in Installs : TRUE
    /\ minute = 0 /\ backup = <<>> /\ op = Idle
    /\ runs = 0 /\ changes = 0 /\ faults = 0
    /\ owed = [i \in Installs |-> [t \in Targets |-> None]] /\ uneven = FALSE

-----------------------------------------------------------------------------
\* capture_targets: the bytes of every file, before any is written.
Snapshot(step, targets) ==
    [step |-> step, install |-> install, targets |-> targets, minute |-> minute,
     original |-> [t \in Targets |-> IF t \in ToSet(targets) THEN files[install][t] ELSE None]]

\* A file is written before the backup holds its original.
CaptureUnpersisted(step, targets) ==
    /\ op = Idle /\ runs < MaxRuns /\ install # None
    /\ runs' = runs + 1
    /\ op' = [pc |-> "apply", entry |-> Snapshot(step, targets), at |-> 1]
    /\ UNCHANGED <<disk, install, minute, backup, changes, faults, history>>

\* capture_cs2_config_transaction and capture_optional_...; the entry is in
\* backup.json before the first write.
Capture(step, targets) ==
    /\ op = Idle /\ runs < MaxRuns /\ install # None
    /\ runs' = runs + 1
    /\ backup' = PushFirstValue(Snapshot(step, targets))
    /\ op' = [pc |-> "apply", entry |-> Snapshot(step, targets), at |-> 1]
    /\ UNCHANGED <<disk, install, minute, changes, faults, history>>

\* inspect_cs2_config: optimization.cfg names the minute it was generated in, so
\* it is up to date for a minute only.
Satisfied == \A t \in ToSet(ForRequest) : files[install][t] = Suite(t, minute)

CaptureMain == install # None /\ ~Satisfied /\ Capture(Main, ForRequest)
CaptureOptional == \E assets \in (SUBSET Optional) \ {{}} : Capture(Extra, SetToSeq(assets))

\* The suite puts c in the place of file t, and owes what was there; by first
\* value, it never owes a change the user made after a capture.
Replace(i, t, c) ==
    /\ files' = [files EXCEPT ![i][t] = c]
    /\ owed' = [owed EXCEPT ![i][t] =
                  CASE c = @ -> None
                    [] @ = None /\ files[i][t] # c /\ files[i][t].by \in {"nobody", "user"} -> files[i][t]
                    [] OTHER -> @]

Refused(e) == install # e.install

\* create_optimization_backup: only if there is no copy yet.
CopyOptimization(i) ==
    bak' = [bak EXCEPT ![i] = IF @ = Absent THEN files[i]["optimization"] ELSE @]

\* reobserve_cs2_config_binding, then write_and_verify of one file after another;
\* an optional file must still be as it was captured.
ApplyWrite ==
    /\ op.pc = "apply" /\ op.at <= Len(op.entry.targets)
    /\ LET e == op.entry
           t == e.targets[op.at]
       IN  IF \/ op.at = 1 /\ Refused(e)
              \/ e.step = Extra /\ files[e.install][t] # e.original[t]
           THEN op' = Idle /\ UNCHANGED <<disk, owed>>
           ELSE /\ Replace(e.install, t, Wanted(e, t))
                /\ IF t = "optimization" THEN CopyOptimization(e.install) ELSE UNCHANGED bak
                /\ op' = [op EXCEPT !.at = @ + 1]
    /\ UNCHANGED <<install, minute, backup, bounds, uneven>>

\* verify compares every file with what this run wrote.
ApplyVerify ==
    /\ op.pc = "apply" /\ op.at > Len(op.entry.targets)
    /\ op' = Idle
    /\ UNCHANGED <<disk, install, minute, backup, bounds, history>>

-----------------------------------------------------------------------------
\* restore_matching over the entries of this kind: all of them, or one step's.
Restore ==
    /\ op = Idle /\ backup # <<>>
    /\ \E chosen \in {{Main, Extra}, {Main}, {Extra}} :
        op' = [pc |-> "restore", chosen |-> chosen, next |-> Len(backup), at |-> 1, kept |-> {}]
    /\ UNCHANGED <<disk, install, minute, backup, bounds, history>>

Restoring == op.pc = "restore" /\ op.next > 0
Current == backup[op.next]
Retain == op' = [op EXCEPT !.next = @ - 1, !.at = 1, !.kept = @ \cup {op.next}]

\* An entry of another step, another installation or, for P1:34, another set of
\* files than this release writes stays in the backup.
RestoreRefuses ==
    /\ Restoring /\ op.at = 1
    /\ \/ Current.step \notin op.chosen
       \/ Refused(Current)
       \/ Current.step = Main /\ Current.targets # ForRequest
    /\ Retain
    /\ UNCHANGED <<disk, install, minute, backup, bounds, history>>

\* restore_targets: a file that was not there is deleted.
RestoreWrite ==
    /\ Restoring /\ op.at <= Len(Current.targets)
    /\ Current.step \in op.chosen
    /\ op.at = 1 => ~Refused(Current)
    /\ LET t == Current.targets[op.at] IN Replace(Current.install, t, Current.original[t])
    /\ op' = [op EXCEPT !.at = @ + 1]
    /\ UNCHANGED <<bak, install, minute, backup, bounds, uneven>>

RestoredEntry ==
    /\ Restoring /\ op.at > Len(Current.targets)
    /\ op' = [op EXCEPT !.next = @ - 1, !.at = 1]
    /\ UNCHANGED <<disk, install, minute, backup, bounds, history>>

Covers(e, i, t) == e.install = i /\ t \in ToSet(e.targets)
Overlap(e, f) == e.install = f.install /\ ToSet(e.targets) \cap ToSet(f.targets) # {}

FinishRestore ==
    /\ op.pc = "restore" /\ op.next = 0
    /\ backup' = Retained(backup, op.kept)
    /\ uneven' = (uneven \/ \E k \in op.kept, l \in DOMAIN backup \ op.kept :
                                Overlap(backup[k], backup[l]))
    /\ op' = Idle
    /\ UNCHANGED <<disk, install, minute, bounds, owed>>

-----------------------------------------------------------------------------
\* A write that fails ends the application, or the restore of the entry.
WriteFails ==
    /\ faults < MaxFaults /\ faults' = faults + 1
    /\ \/ op.pc = "apply" /\ op' = Idle
       \/ Restoring /\ Retain
    /\ UNCHANGED <<disk, install, minute, backup, runs, changes, history>>

Crash ==
    /\ faults < MaxFaults /\ faults' = faults + 1
    /\ op # Idle /\ op' = Idle
    /\ UNCHANGED <<disk, install, minute, backup, runs, changes, history>>

UserEdit ==
    /\ changes < MaxChanges /\ changes' = changes + 1
    /\ \E i \in Installs, t \in Targets :
        files' = [files EXCEPT ![i][t] =
                    IF \E k \in DOMAIN backup : Covers(backup[k], i, t)
                    THEN Edit(changes') ELSE User(changes')]
    /\ UNCHANGED <<bak, install, minute, backup, op, runs, faults, history>>

InstallMoves ==
    /\ changes < MaxChanges /\ changes' = changes + 1
    /\ \E i \in Installs \cup {None} : i # install /\ install' = i
    /\ UNCHANGED <<disk, minute, backup, op, runs, faults, history>>

MinutePasses ==
    /\ minute < MaxMinute /\ minute' = minute + 1
    /\ UNCHANGED <<disk, install, backup, op, bounds, history>>

Next == \/ CaptureMain \/ CaptureOptional \/ ApplyWrite \/ ApplyVerify
        \/ Restore \/ RestoreRefuses \/ RestoreWrite \/ RestoredEntry \/ FinishRestore
        \/ WriteFails \/ Crash \/ UserEdit \/ InstallMoves \/ MinutePasses

-----------------------------------------------------------------------------
\* Properties.

\* "Exact original bytes are persisted before mutation and remain available to
\* recovery": what the suite replaced in a file and has not put back is the
\* original of that file in some entry of the backup.
OriginalAvailable ==
    \A i \in Installs, t \in Targets : owed[i][t] # None =>
        \E k \in DOMAIN backup : Covers(backup[k], i, t) /\ backup[k].original[t] = owed[i][t]

\* The same as long as no restore has separated two entries that share a file,
\* through crashes, failed writes, repeated runs and moves of the installation.
OriginalKept == uneven \/ OriginalAvailable
=============================================================================
