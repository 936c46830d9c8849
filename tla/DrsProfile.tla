----------------------------- MODULE DrsProfile -----------------------------
(***************************************************************************)
(* The NVIDIA driver settings store (DRS) as frametime uses it: the CS2    *)
(* profile that P3:4 and the driver transaction capture, set, verify and   *)
(* restore, and the customised profiles that are captured before a driver  *)
(* is removed and merged into the next one.  Every operation works in a    *)
(* session, a private copy that save_settings makes durable at once; a     *)
(* command that stops before it leaves the store as it was.                *)
(***************************************************************************)
EXTENDS Integers, FiniteSets

CONSTANTS
    None,
    Global,        \* the driver's global profile
    Cs2, Alias,    \* the two names of the CS2 profile
    Other,         \* a profile that has nothing to do with CS2
    Apps, MainApp, \* cs2.exe and csgos2.exe; MainApp is cs2.exe
    Settings,      \* the settings of the CS2 policy
    Values, Target,  \* their values, and the one the policy sets
    MaxEdits, MaxFaults    \* bounds: changes by the user, stops of a command

VARIABLES
    saved,       \* the store: [profiles, owner, value]
    session,     \* the private copy of the running command
    backup,      \* the durable record of the CS2 profile
    snapshot,    \* the customised profiles of the removed driver
    reported,    \* the items a running merge could not put back, for its caller
    op, edits, faults,
    before       \* the store when backup was captured; intact: nobody else changed it since

vars == <<saved, session, backup, snapshot, reported, op, edits, faults, before>>

Profiles == {Global, Cs2, Alias, Other}

\* What a store may hold.
Stores == [profiles : SUBSET Profiles,
           owner    : [Apps -> Profiles \cup {None}],
           value    : [Profiles -> [Settings -> Values \cup {None}]]]

\* A driver comes with its global profile only.
Fresh == [profiles |-> {Global},
          owner    |-> [a \in Apps |-> None],
          value    |-> [p \in Profiles |-> [s \in Settings |-> None]]]

Unknown == [store |-> Fresh, intact |-> FALSE]

-----------------------------------------------------------------------------
\* Reading a store d.

FindExistingProfile(d) ==
    IF d.owner[MainApp] \notin {None, Global} THEN d.owner[MainApp]
    ELSE IF Cs2 \in d.profiles THEN Cs2
    ELSE IF Alias \in d.profiles THEN Alias
    ELSE None

\* capture_application_originals refuses an application of another profile.
CaptureAllowed(d) == \A a \in Apps : d.owner[a] \in {None, FindExistingProfile(d)}

CaptureCs2(d) ==
    LET p == FindExistingProfile(d)
    IN  [profile  |-> IF p = None THEN Cs2 ELSE p,
         created  |-> p = None,
         settings |-> IF p = None THEN [s \in Settings |-> None] ELSE d.value[p],
         apps     |-> d.owner]

ValidateBackup(b) ==
    /\ b.created => \A a \in Apps : b.apps[a] = None
    /\ \A a \in Apps : b.apps[a] \in {None, b.profile}

\* validate_current_originals: nothing has changed since the capture.
CurrentIsOriginal(d, b) ==
    /\ b.created <=> b.profile \notin d.profiles
    /\ d.owner = b.apps
    /\ ~b.created => d.value[b.profile] = b.settings

VerifyCs2(d, b) ==
    /\ b.profile \in d.profiles
    /\ \A s \in Settings : d.value[b.profile][s] = Target
    /\ \A a \in Apps : d.owner[a] = b.profile

-----------------------------------------------------------------------------
\* Changing a session d.

\* The applications are put into a profile that is never created.
ApplyPolicyUncreated(d, b) ==
    [d EXCEPT !.owner = [a \in Apps |-> b.profile]]

ApplyPolicy(d, b) ==
    [profiles |-> d.profiles \cup {b.profile},
     owner    |-> [a \in Apps |-> IF b.apps[a] = None THEN b.profile ELSE d.owner[a]],
     value    |-> [d.value EXCEPT ![b.profile] = [s \in Settings |-> Target]]]

DeleteProfile(d, p) ==
    [profiles |-> d.profiles \ {p},
     owner    |-> [a \in Apps |-> IF d.owner[a] = p THEN None ELSE d.owner[a]],
     value    |-> [d.value EXCEPT ![p] = [s \in Settings |-> None]]]

\* NVAPI refuses to delete a setting or an application that is not there.
RestoreAllowed(d, b) ==
    /\ b.profile \in d.profiles
    /\ ~b.created =>
        /\ \A s \in Settings : b.settings[s] = None => d.value[b.profile][s] # None
        /\ \A a \in Apps : b.apps[a] = None => d.owner[a] = b.profile

\* A restore that takes every application out of the profile.
RestoreOriginalsUnbound(d, b) ==
    IF b.created THEN DeleteProfile(d, b.profile)
    ELSE [d EXCEPT !.value[b.profile] = b.settings, !.owner = [a \in Apps |-> None]]

RestoreOriginals(d, b) ==
    IF b.created THEN DeleteProfile(d, b.profile)
    ELSE [d EXCEPT !.value[b.profile] = b.settings,
                   !.owner = [a \in Apps |-> IF b.apps[a] = None THEN None ELSE d.owner[a]]]

VerifyRestored(d, b) ==
    IF b.created THEN b.profile \notin d.profiles
    ELSE /\ d.value[b.profile] = b.settings
         /\ \A a \in Apps : b.apps[a] = None => d.owner[a] = None

\* The customised items of a store: applications and settings by profile.
ItemValues(d) ==
    {<<d.owner[a], "application", a>> : a \in {x \in Apps : d.owner[x] # None}}
    \cup {<<p, s, d.value[p][s]>> : p \in d.profiles, s \in Settings}
Customised(d) == {i \in ItemValues(d) : i[3] # None}

\* merge_customized_profiles: an application that another profile owns stays
\* there; the driver may refuse any item.
Merged(d, snap, refused) ==
    LET apps  == {i \in snap.items \ refused : i[2] = "application"}
        given == {i \in snap.items \ refused : i[2] # "application"}
    IN  [profiles |-> d.profiles \cup snap.profiles,
         owner    |-> [a \in Apps |->
                        IF d.owner[a] = None /\ \E i \in apps : i[3] = a
                        THEN (CHOOSE i \in apps : i[3] = a)[1] ELSE d.owner[a]],
         value    |-> [p \in Profiles |-> [s \in Settings |->
                        IF \E i \in given : i[1] = p /\ i[2] = s
                        THEN (CHOOSE i \in given : i[1] = p /\ i[2] = s)[3]
                        ELSE d.value[p][s]]]]

\* A report of what the driver refused only.
NotMergedRefused(d, snap, refused) == snap.items \cap refused

NotMerged(d, snap, refused) ==
    {i \in snap.items : /\ i[2] = "application"
                        /\ d.owner[i[3]] # i[1]
                        /\ d.owner[i[3]] # None \/ i \in refused}
    \cup {i \in snap.items \cap refused : i[2] # "application"}

-----------------------------------------------------------------------------
Idle == "idle"

TypeOK ==
    /\ saved \in Stores /\ Global \in saved.profiles
    /\ \A a \in Apps : saved.owner[a] \in saved.profiles \cup {None}
    /\ edits \in 0 .. MaxEdits /\ faults \in 0 .. MaxFaults

Init ==
    /\ saved = Fresh /\ session = None
    /\ backup = None /\ snapshot = None /\ reported = {}
    /\ op = Idle
    /\ edits = 0 /\ faults = 0
    /\ before = Unknown

\* capture_cs2_backup, whose record is durable before anything is set.
Capture ==
    /\ op = Idle /\ backup = None /\ CaptureAllowed(saved)
    /\ backup' = CaptureCs2(saved)
    /\ before' = [store |-> saved, intact |-> TRUE]
    /\ UNCHANGED <<saved, session, snapshot, reported, op, edits, faults>>

\* apply_cs2_profile; the driver transaction does not call it when the policy
\* already holds.
Apply ==
    /\ op = Idle /\ backup # None
    /\ ValidateBackup(backup) /\ ~VerifyCs2(saved, backup) /\ CurrentIsOriginal(saved, backup)
    /\ session' = ApplyPolicy(saved, backup)
    /\ op' = "apply"
    /\ UNCHANGED <<saved, backup, snapshot, reported, edits, faults, before>>

Restore ==
    /\ op = Idle /\ backup # None
    /\ ValidateBackup(backup) /\ RestoreAllowed(saved, backup)
    /\ session' = RestoreOriginals(saved, backup)
    /\ op' = "restore"
    /\ UNCHANGED <<saved, backup, snapshot, reported, edits, faults, before>>

SaveSettings ==
    /\ session # None
    /\ saved' = session
    /\ session' = None
    /\ before' = IF op = "merge" THEN Unknown ELSE before
    /\ UNCHANGED <<backup, snapshot, reported, op, edits, faults>>

\* The store is read back; a restored entry leaves the backup.
FinishApply ==
    /\ op = "apply" /\ session = None
    /\ op' = Idle
    /\ UNCHANGED <<saved, session, backup, snapshot, reported, edits, faults, before>>

FinishRestore ==
    /\ op = "restore" /\ session = None
    /\ op' = Idle
    /\ backup' = IF VerifyRestored(saved, backup) THEN None ELSE backup
    /\ before' = IF VerifyRestored(saved, backup) THEN Unknown ELSE before
    /\ UNCHANGED <<saved, session, snapshot, reported, edits, faults>>

\* capture_customized_profiles keeps a profile of the user's even if it is empty.
CaptureCustomised ==
    /\ op = Idle /\ snapshot = None
    /\ snapshot' = [profiles |-> saved.profiles \ {Global}, items |-> Customised(saved)]
    /\ UNCHANGED <<saved, session, backup, reported, op, edits, faults, before>>

\* Another driver is installed.
Reinstall ==
    /\ op = Idle /\ snapshot # None
    /\ saved' = Fresh
    /\ before' = Unknown
    /\ UNCHANGED <<session, backup, snapshot, reported, op, edits, faults>>

MergeCustomised ==
    /\ op = Idle /\ snapshot # None
    /\ \E refused \in SUBSET snapshot.items :
        /\ session' = Merged(saved, snapshot, refused)
        /\ reported' = NotMerged(saved, snapshot, refused)
    /\ op' = "merge"
    /\ UNCHANGED <<saved, backup, snapshot, edits, faults, before>>

FinishMerge ==
    /\ op = "merge" /\ session = None
    /\ op' = Idle /\ snapshot' = None /\ reported' = {}
    /\ UNCHANGED <<saved, session, backup, edits, faults, before>>

\* Any NVAPI call may fail and the process may stop: the session is gone.
Stop ==
    /\ op # Idle /\ faults < MaxFaults
    /\ faults' = faults + 1
    /\ op' = Idle /\ session' = None /\ reported' = {}
    /\ UNCHANGED <<saved, backup, snapshot, edits, before>>

\* The user works in the NVIDIA control panel.
UserEdit ==
    /\ op = Idle /\ edits < MaxEdits
    /\ edits' = edits + 1
    /\ \/ \E p \in Profiles \ saved.profiles : saved' = [saved EXCEPT !.profiles = @ \cup {p}]
       \/ \E p \in Profiles, a \in Apps :
            saved' = [saved EXCEPT !.profiles = @ \cup {p}, !.owner[a] = p]
       \/ \E p \in saved.profiles, s \in Settings, v \in Values :
            saved' = [saved EXCEPT !.value[p][s] = v]
    /\ before' = Unknown
    /\ UNCHANGED <<session, backup, snapshot, reported, op, faults>>

Next == \/ Capture \/ Apply \/ Restore \/ SaveSettings \/ FinishApply \/ FinishRestore
        \/ CaptureCustomised \/ Reinstall \/ MergeCustomised \/ FinishMerge
        \/ Stop \/ UserEdit

Spec == Init /\ [][Next]_vars

-----------------------------------------------------------------------------
\* Properties.

\* A restore that succeeds leaves the whole store, every other profile and
\* every application included, as it was when the CS2 profile was captured,
\* unless the user, a merge or a new driver changed it in between; stops and retries make no difference.
RestoreExact ==
    [][FinishRestore /\ backup' = None /\ before.intact => saved = before.store]_vars

\* After a merge every customised item of the old driver is in the store or
\* reported, so that nothing the user had is lost without being named.
MergeAccounted ==
    [][FinishMerge => snapshot.items \subseteq Customised(saved) \cup reported]_vars
=============================================================================
