------------------------------ MODULE Pagefile ------------------------------
(***************************************************************************)
(* P1:8, the page file transaction, and its restore.  The page file        *)
(* settings are WMI instances named after their path; each call resolves   *)
(* its instance again.  The target is the page file of the system drive;   *)
(* the others must stay as they are.  A mutation that fails is compensated *)
(* at once; a crash leaves that to a later restore, which has only what    *)
(* the backup entry says.                                                  *)
(***************************************************************************)
EXTENDS Naturals

CONSTANTS
    None,
    Target,        \* the path of the system drive's page file
    Others,        \* other page file paths
    Sizes,         \* page file sizes, initial and maximum alike
    FreeSpace,     \* bound on a size: free space on the drive
    MaxChanges,    \* bound: changes by Windows and the user
    MaxFaults      \* bound: calls that fail and crashes

VARIABLES
    automatic,     \* Win32_ComputerSystem.AutomaticManagedPagefile
    files,         \* Win32_PageFileSetting: files[path] is its size
    entry,         \* the P1:8 entry of the backup
    op,            \* the running command
    made,          \* the sizes with which the suite has created the target
    wrote,         \* the size it last gave an existing one
    changes, faults

machine == <<automatic, files>>
written == <<made, wrote>>
vars == <<machine, entry, op, written, changes, faults>>

Paths == {Target} \cup Others
Layouts == [Paths -> {None} \cup Sizes]

\* BackupEntry::PagefileTransaction
Entries == [before : Layouts, automatic : BOOLEAN, token : {None} \cup Sizes,
            intent : {"update_pending", "create_pending", "created"}]

Idle == [pc |-> "idle"]
Goto(pc) == op' = [op EXCEPT !.pc = pc]

TypeOK ==
    /\ automatic \in BOOLEAN
    /\ files \in Layouts
    /\ entry \in {None} \cup Entries
    /\ entry # None => (entry.intent = "created" <=> entry.token # None)
    /\ made \subseteq Sizes /\ wrote \in {None} \cup Sizes
    /\ changes \in Nat /\ faults \in Nat

\* A token that is resolved by its path alone.
ExactPagefileByPath(size) == files[Target] # None

\* exact_pagefile: the instance still has the identity and the sizes the caller
\* knows it by.
ExactPagefile(size) == size # None /\ files[Target] = size

\* check_foreign_preservation
ForeignPreserved(before) ==
    \A p \in Others : before[p] # None => files[p] = before[p]

-----------------------------------------------------------------------------
Init ==
    /\ automatic = TRUE
    /\ files = [p \in Paths |-> None]
    /\ entry = None /\ op = Idle /\ made = {} /\ wrote = None
    /\ changes = 0 /\ faults = 0

\* inspect_pagefile, capture_pagefile_backup and push_first_value: an explicit
\* size, and the first entry of the step stays.
Capture(size) ==
    /\ op = Idle
    /\ size <= FreeSpace
    /\ op' = [pc |-> "disable", before |-> files, automatic |-> automatic,
              size |-> size, token |-> None, since |-> changes + faults]
    /\ entry' = IF entry # None THEN entry ELSE
                [before |-> files, automatic |-> automatic, token |-> None,
                 intent |-> IF files[Target] # None THEN "update_pending" ELSE "create_pending"]
    /\ UNCHANGED <<machine, written, changes, faults>>

\* begin_pagefile_mutation, first half: automatic management off, if it still
\* is as captured.
DisableAutomatic ==
    /\ op.pc = "disable"
    /\ IF automatic = op.automatic
       THEN automatic' = FALSE /\ Goto("write")
       ELSE UNCHANGED automatic /\ Goto("undo")
    /\ UNCHANGED <<files, entry, written, changes, faults>>

\* Second half: read back, then update the captured target or create it.
WriteTarget ==
    /\ op.pc = "write"
    /\ IF automatic \/ ~ForeignPreserved(op.before)
       THEN UNCHANGED <<files, written>> /\ Goto("undo")
       ELSE IF op.before[Target] # None
       THEN /\ files' = IF ExactPagefile(op.before[Target])
                        THEN [files EXCEPT ![Target] = op.size] ELSE files
            /\ wrote' = IF ExactPagefile(op.before[Target]) THEN op.size ELSE wrote
            /\ Goto(IF ExactPagefile(op.before[Target]) THEN "verify" ELSE "undo")
            /\ UNCHANGED made
       ELSE IF files[Target] # None
       THEN UNCHANGED <<files, written>> /\ Goto("undo")
       ELSE /\ files' = [files EXCEPT ![Target] = op.size]
            /\ made' = made \cup {op.size} /\ UNCHANGED wrote
            /\ op' = [op EXCEPT !.pc = "persist", !.token = op.size]
    /\ UNCHANGED <<automatic, entry, changes, faults>>

\* persist_created_pagefile_token: the entry must be the one of this creation.
PersistToken ==
    /\ op.pc = "persist"
    /\ IF entry # None /\ entry.intent = "create_pending"
       THEN entry' = [entry EXCEPT !.intent = "created", !.token = op.token] /\ Goto("verify")
       ELSE UNCHANGED entry /\ Goto("undo")
    /\ UNCHANGED <<machine, written, changes, faults>>

\* verify_pagefile_mutation
Verify ==
    /\ op.pc = "verify"
    /\ IF ~automatic /\ ForeignPreserved(op.before) /\ files[Target] = op.size
       THEN op' = Idle ELSE Goto("undo")
    /\ UNCHANGED <<machine, entry, written, changes, faults>>

\* compensate_pagefile_mutation: the created page file, or the target's sizes;
\* then automatic management, whatever became of the first.
UndoTarget ==
    /\ op.pc = "undo"
    /\ files' = IF op.token # None
                THEN IF ExactPagefile(op.token) THEN [files EXCEPT ![Target] = None] ELSE files
                ELSE IF ExactPagefile(op.before[Target])
                THEN [files EXCEPT ![Target] = op.before[Target]] ELSE files
    /\ Goto("undoAutomatic")
    /\ UNCHANGED <<automatic, entry, written, changes, faults>>

UndoAutomatic ==
    /\ op.pc = "undoAutomatic"
    /\ automatic' = op.automatic
    /\ op' = Idle
    /\ UNCHANGED <<files, entry, written, changes, faults>>

-----------------------------------------------------------------------------
\* restore_pagefile_transaction

\* parse_pagefile_restore_backup and created_pagefile_token: an entry whose
\* creation was never confirmed authorises nothing.
Restore ==
    /\ op = Idle /\ entry # None
    /\ entry.intent \in {"update_pending", "created"}
    /\ op' = [pc |-> IF entry.token # None THEN "delete" ELSE "update",
              since |-> changes + faults, known |-> files[Target]]
    /\ UNCHANGED <<machine, entry, written, changes, faults>>

\* The created instance was observed with the recorded sizes, and is so still.
RestoreDelete ==
    /\ op.pc = "delete"
    /\ IF op.known = entry.token /\ ExactPagefile(entry.token)
       THEN files' = [files EXCEPT ![Target] = None] /\ Goto("verifyRestore")
       ELSE UNCHANGED files /\ op' = Idle
    /\ UNCHANGED <<automatic, entry, written, changes, faults>>

\* store.update with the captured setting, by which it is also resolved.
RestoreUpdate ==
    /\ op.pc = "update"
    /\ IF ExactPagefile(entry.before[Target])
       THEN files' = [files EXCEPT ![Target] = entry.before[Target]] /\ Goto("verifyRestore")
       ELSE UNCHANGED files /\ op' = Idle
    /\ UNCHANGED <<automatic, entry, written, changes, faults>>

\* A restore that only looks at the page file it created.
VerifyRestoreOwn ==
    /\ op.pc = "verifyRestore"
    /\ op' = Idle
    /\ IF entry.token # None => files[Target] = None
       THEN automatic' = entry.automatic /\ entry' = None
       ELSE UNCHANGED <<automatic, entry>>
    /\ UNCHANGED <<files, written, changes, faults>>

\* verify_pagefile_restoration; the engine then drops the entry.
VerifyRestore ==
    /\ op.pc = "verifyRestore"
    /\ op' = Idle
    /\ IF /\ \A p \in Paths : entry.before[p] # None => files[p] = entry.before[p]
          /\ entry.token # None => files[Target] = None
       THEN automatic' = entry.automatic /\ entry' = None
       ELSE UNCHANGED <<automatic, entry>>
    /\ UNCHANGED <<files, written, changes, faults>>

-----------------------------------------------------------------------------
\* A call fails: a mutation is compensated, a restore ends; a page file created
\* just before the failing read has no token.
CallFails ==
    /\ faults < MaxFaults /\ faults' = faults + 1
    /\ op.pc \in {"disable", "write", "persist", "verify", "undo", "undoAutomatic",
                  "delete", "update", "verifyRestore"}
    /\ IF op.pc = "undo" THEN Goto("undoAutomatic")
       ELSE IF op.pc \in {"disable", "write", "persist", "verify"} THEN Goto("undo")
       ELSE op' = Idle
    /\ \/ UNCHANGED <<files, written>>
       \/ /\ op.pc = "write" /\ op.before[Target] = None /\ files[Target] = None
          /\ files' = [files EXCEPT ![Target] = op.size]
          /\ made' = made \cup {op.size} /\ UNCHANGED wrote
    /\ UNCHANGED <<automatic, entry, changes>>

Crash ==
    /\ faults < MaxFaults /\ faults' = faults + 1
    /\ op # Idle /\ op' = Idle
    /\ UNCHANGED <<machine, entry, written, changes>>

\* The user, or Windows, changes the settings.
Change ==
    /\ changes < MaxChanges /\ changes' = changes + 1
    /\ \/ \E p \in Paths, s \in Sizes \cup {None} :
            files[p] # s /\ files' = [files EXCEPT ![p] = s] /\ UNCHANGED automatic
       \/ automatic' = ~automatic /\ UNCHANGED files
    /\ UNCHANGED <<entry, op, written, faults>>

Step == \/ DisableAutomatic \/ WriteTarget \/ PersistToken \/ Verify
        \/ UndoTarget \/ UndoAutomatic
        \/ RestoreDelete \/ RestoreUpdate \/ VerifyRestore

Next == \/ \E size \in Sizes : Capture(size)
        \/ Restore \/ Step \/ CallFails \/ Crash \/ Change

Steps == Step

-----------------------------------------------------------------------------
\* Properties.

\* The suite removes the target page file only when it has created it itself and
\* it has a size it was created with, in the same run or, after a crash, by
\* a later restore; the page file of the user is never deleted.
DeletesOnlyOwn ==
    [][files[Target] # None /\ files'[Target] = None /\ changes' = changes =>
        files[Target] \in made]_vars

\* When the entry leaves the backup, everything it records is again as it was,
\* unless somebody changed the settings during that restore.
RestoresCaptured ==
    [][entry # None /\ entry' = None /\ op.since = changes + faults =>
        /\ \A p \in Paths : entry.before[p] # None => files'[p] = entry.before[p]
        /\ entry.before[Target] = None => files'[Target] = None
        /\ automatic' = entry.automatic]_vars

\* "Supported restore paths revalidate target identity before restoring captured
\* registry, configuration, network, or other owned entries": restore
\* refuses to undo the change of an existing page file only when it no longer
\* has the size the suite gave it.
UpdateIsRestored ==
    [][op.pc = "update" /\ op' = Idle /\ faults' = faults =>
        wrote = None \/ files[Target] # wrote]_vars
=============================================================================
