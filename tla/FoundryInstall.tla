--------------------------- MODULE FoundryInstall ---------------------------
(***************************************************************************)
(* Driver Foundry's install pipeline: a package is acquired, its resolved  *)
(* components are copied into a new workspace, tweaked, and exported as a  *)
(* tree, an archive and a report.  Only dry runs without elevation get     *)
(* that far.  Every output is created anew; other programs may create the  *)
(* same paths, and change a local package, at any time.                    *)
(***************************************************************************)
EXTENDS Collections

CONSTANTS
    None,
    Components, Required, Depends,  \* the package catalog
    Bloat,                          \* components the full preset leaves out
    PresetChoices,                  \* the optional components of each preset
    Selections,                     \* pairs <<selected, deselected>> of the user
    Packages,                       \* contents a package may have
    FlagChoices,                    \* sets of the options below
    MaxRivals, MaxEdits, MaxRuns    \* bounds

VARIABLES
    run,       \* the options of the running pipeline
    pc,        \* its stage
    disk,      \* who made each path: nobody, this run, or anyone else
    package,   \* the package at its source: each component is real or a link
    root,      \* the acquired tree: its components, real or links
    copied,    \* the prepared tree
    kept, stripped,
    ui,        \* what the window shows of the last run
    rivals, edits, runs

vars == <<run, pc, disk, package, root, copied, kept, stripped, ui, rivals, edits, runs>>

Sources == {"local", "archive", "url", "index", "synthetic"}
InstallFlags == {"force", "elevated", "liveRegistry", "pinned", "uninstall", "install", "deepInf",
                 "trySign", "export", "zip", "7z", "report"}
OutputPaths == {"work", "prepared", "extracted", "export", "archive", "report"}
Display == CHOOSE c \in Required : TRUE

-----------------------------------------------------------------------------
\* The catalog.

\* load_from_json: every dependency is known and none is circular.
Closure(ids) == Reachable(Components, Depends, ids)
CatalogValid == \A c \in Components : Depends[c] \subseteq Components /\ c \notin Closure(Depends[c])

\* The full preset is every optional component that is not bloat.
CreateSelection(preset) ==
    IF preset = "full" THEN Components \ (Required \cup Bloat)
    ELSE PresetChoices[preset] \cap Components

\* The selection as it is.
ResolveWithDepsUnclosed(selected) == Required \cup (selected \cap Components)

\* add_with_deps stops at a component that is in already, and the required
\* ones are put in first, without their dependencies.
ResolveWithDeps(selected) == Required \cup Closure((selected \cap Components) \ Required)

ResolveSelection(req) ==
    ResolveWithDeps((CreateSelection(req.preset) \cup req.choice[1]) \ req.choice[2])

-----------------------------------------------------------------------------
\* Paths.

\* validate_new_path and create_new: the path must not exist.
CanCreate(p) == disk[p] = "absent"
Created(ps) == [p \in OutputPaths |-> IF p \in ps THEN "ours" ELSE disk[p]]

TypeOK ==
    /\ disk \in [OutputPaths -> {"absent", "ours", "theirs"}]
    /\ pc \in {"idle", "acquire", "uninstall", "filter", "copy", "tweaks", "install",
               "export", "archive", "report", "done"}
    /\ kept \subseteq Components /\ stripped \subseteq Components
    /\ DOMAIN copied \subseteq Components

Init ==
    /\ run = None /\ pc = "idle"
    /\ disk = [p \in OutputPaths |-> "absent"]
    /\ package = None /\ root = None
    /\ copied = <<>> /\ kept = {} /\ stripped = {}
    /\ ui = [kept |-> {}, report |-> FALSE, log |-> "empty"]
    /\ rivals = 0 /\ edits = 0 /\ runs = 0

Go(next) == pc' = next

Shows(log) ==
    ui' = IF log = "error" THEN [ui EXCEPT !.log = "error"]
          ELSE [kept |-> kept, report |-> "report" \in run.flags, log |-> log]

\* Every `?` of the pipeline: the run ends, what it made stays where it is.
Fail ==
    /\ pc \notin {"idle", "done"}
    /\ pc' = "idle" /\ run' = None /\ root' = None
    /\ ui' = [ui EXCEPT !.log = "error"]
    /\ UNCHANGED <<disk, package, copied, kept, stripped, rivals, edits, runs>>

-----------------------------------------------------------------------------
\* The pipeline.

\* validate_pre_workspace_live_options.
OptionsAllowed(flags) == {"force", "elevated", "liveRegistry"} \cap flags = {}

\* prepare: the options are refused before anything is written.
Prepare ==
    /\ pc = "idle" /\ runs < MaxRuns
    /\ runs' = runs + 1
    /\ \E preset \in (DOMAIN PresetChoices) \cup {"full"}, choice \in Selections,
          source \in Sources, flags \in FlagChoices, p \in Packages :
        LET req == [preset |-> preset, choice |-> choice, source |-> source, flags |-> flags,
                    resolved |-> {}]
        IN  /\ package' = [c \in p |-> "real"]
            /\ IF OptionsAllowed(flags) /\ CatalogValid /\ CanCreate("work")
               THEN /\ run' = [req EXCEPT !.resolved = ResolveSelection(req)]
                    /\ disk' = Created({"work"})
                    /\ Go("acquire") /\ UNCHANGED ui
               ELSE /\ ui' = [ui EXCEPT !.log = "error"]
                    /\ UNCHANGED <<run, disk, pc>>
    /\ copied' = <<>> /\ kept' = {} /\ stripped' = {} /\ root' = None
    /\ UNCHANGED <<rivals, edits>>

\* acquire_package: a local tree is used where it is, an archive is unpacked
\* into the workspace, a synthetic package has every component.
AcquireLocal ==
    /\ pc = "acquire" /\ run.source = "local"
    /\ root' = None
    /\ Go("uninstall")
    /\ UNCHANGED <<run, disk, package, copied, kept, stripped, ui, rivals, edits, runs>>

AcquireArchive ==
    /\ pc = "acquire" /\ run.source \in {"archive", "url", "index"} /\ CanCreate("extracted")
    /\ root' = package
    /\ disk' = Created({"extracted"})
    /\ Go("uninstall")
    /\ UNCHANGED <<run, package, copied, kept, stripped, ui, rivals, edits, runs>>

\* extract_download keeps a download that no helper can unpack as setup.exe.
AcquireRawSetup ==
    /\ pc = "acquire" /\ run.source \in {"url", "index"} /\ CanCreate("extracted")
    /\ root' = [c \in {} |-> "real"]
    /\ disk' = Created({"extracted"})
    /\ Go("uninstall")
    /\ UNCHANGED <<run, package, copied, kept, stripped, ui, rivals, edits, runs>>

\* download_https with a pin refuses other bytes and removes them.
DownloadMismatch ==
    /\ pc = "acquire" /\ run.source \in {"url", "index"} /\ "pinned" \in run.flags
    /\ Fail

AcquireSynthetic ==
    /\ pc = "acquire" /\ run.source = "synthetic"
    /\ root' = [c \in Components |-> "real"]
    /\ Go("uninstall")
    /\ UNCHANGED <<run, disk, package, copied, kept, stripped, ui, rivals, edits, runs>>

\* A dry run writes its plan for the drivers into the workspace.
RunUninstallStage ==
    /\ pc = "uninstall"
    /\ Go("filter")
    /\ UNCHANGED <<run, disk, package, root, copied, kept, stripped, ui, rivals, edits, runs>>

Tree == IF root = None THEN package ELSE root

\* An entry is looked up, opened and compared with what was looked up; links
\* are refused at every level.
Copyable(c) == c \in DOMAIN Tree /\ Tree[c] # "link"

FilterComponents ==
    /\ pc = "filter" /\ CanCreate("prepared")
    /\ disk' = Created({"prepared"})
    /\ Go("copy")
    /\ UNCHANGED <<run, package, root, copied, kept, stripped, ui, rivals, edits, runs>>

\* prepare_copy_strip, one catalog entry after the other: the entry is looked
\* up when it is reached; a required one must be there.
CopyComponent ==
    /\ pc = "copy"
    /\ \E c \in Components \ (kept \cup stripped) :
        \/ /\ c \in run.resolved /\ Copyable(c)
           /\ copied' = [x \in DOMAIN copied \cup {c} |-> IF x = c THEN Tree[c] ELSE copied[x]]
           /\ kept' = kept \cup {c} /\ UNCHANGED stripped
        \/ /\ c \notin run.resolved /\ (c \in DOMAIN Tree => Copyable(c))
           /\ stripped' = stripped \cup {c} /\ UNCHANGED <<copied, kept>>
    /\ UNCHANGED <<run, pc, disk, package, root, ui, rivals, edits, runs>>

\* The loop is over; optional components the package lacks are passed over.
FilterDone ==
    /\ pc = "copy"
    /\ \A c \in Components \ (kept \cup stripped) :
        c \in run.resolved \ Required /\ c \notin DOMAIN Tree
    /\ Go("tweaks")
    /\ UNCHANGED <<run, disk, package, root, copied, kept, stripped, ui, rivals, edits, runs>>

\* apply_tweaks and rebuild_catalog write inside the prepared tree.
ApplyTweaks ==
    /\ pc = "tweaks"
    /\ Go("install")
    /\ UNCHANGED <<run, disk, package, root, copied, kept, stripped, ui, rivals, edits, runs>>

\* plan_install: a dry run launches nothing.
PlanInstall ==
    /\ pc = "install"
    /\ Go("export")
    /\ UNCHANGED <<run, disk, package, root, copied, kept, stripped, ui, rivals, edits, runs>>

ExportWorkspace ==
    /\ pc = "export"
    /\ "export" \in run.flags => CanCreate("export")
    /\ disk' = IF "export" \in run.flags THEN Created({"export"}) ELSE disk
    /\ Go("archive")
    /\ UNCHANGED <<run, package, root, copied, kept, stripped, ui, rivals, edits, runs>>

\* build_zip writes in a stage of its own and links the result in; 7z and
\* self-extracting archives are refused.
BuildArchive ==
    /\ pc = "archive" /\ "7z" \notin run.flags
    /\ "zip" \in run.flags => CanCreate("archive")
    /\ disk' = IF "zip" \in run.flags THEN Created({"archive"}) ELSE disk
    /\ Go("report")
    /\ UNCHANGED <<run, package, root, copied, kept, stripped, ui, rivals, edits, runs>>

WriteReport ==
    /\ pc = "report"
    /\ "report" \in run.flags => CanCreate("report")
    /\ disk' = IF "report" \in run.flags THEN Created({"report"}) ELSE disk
    /\ Go("done")
    /\ UNCHANGED <<run, package, root, copied, kept, stripped, ui, rivals, edits, runs>>

\* into_result: without the display driver the exit code is an error.
IntoResult ==
    /\ pc = "done"
    /\ Shows(IF Display \in kept THEN "ok" ELSE "incomplete")
    /\ pc' = "idle" /\ run' = None
    /\ UNCHANGED <<disk, package, root, copied, kept, stripped, rivals, edits, runs>>

-----------------------------------------------------------------------------
\* Everyone else.

RivalCreates ==
    /\ rivals < MaxRivals
    /\ \E p \in OutputPaths : disk[p] = "absent" /\ disk' = [disk EXCEPT ![p] = "theirs"]
    /\ rivals' = rivals + 1
    /\ UNCHANGED <<run, pc, package, root, copied, kept, stripped, ui, edits, runs>>

\* A component of a local package is replaced, removed, or turned into a link.
EditPackage ==
    /\ edits < MaxEdits /\ run # None /\ run.source = "local"
    /\ edits' = edits + 1
    /\ \E c \in DOMAIN package :
        \/ package' = [package EXCEPT ![c] = "link"]
        \/ package' = [x \in DOMAIN package \ {c} |-> package[x]]
    /\ UNCHANGED <<run, pc, disk, root, copied, kept, stripped, ui, rivals, runs>>

Next ==
    \/ Prepare \/ AcquireLocal \/ AcquireArchive \/ AcquireRawSetup \/ DownloadMismatch
    \/ AcquireSynthetic \/ RunUninstallStage \/ FilterComponents \/ CopyComponent \/ FilterDone
    \/ ApplyTweaks \/ PlanInstall \/ ExportWorkspace \/ BuildArchive \/ WriteReport \/ IntoResult
    \/ Fail \/ RivalCreates \/ EditPackage

Spec == Init /\ [][Next]_vars

-----------------------------------------------------------------------------
\* Properties.

\* A run that reports success kept the display driver and, for every optional
\* component it kept, each dependency the package had to offer; nothing it
\* copied came through a link, and what it did not resolve is not in the tree.
PreparedTreeSound ==
    pc = "done" =>
        /\ Required \subseteq kept /\ DOMAIN copied = kept /\ kept \subseteq run.resolved
        /\ \A c \in kept : copied[c] # "link"
        /\ \A c \in kept \ Required : Depends[c] \subseteq run.resolved
=============================================================================
