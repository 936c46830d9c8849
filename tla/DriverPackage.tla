--------------------------- MODULE DriverPackage ---------------------------
(***************************************************************************)
(* How prepare-nvidia turns an installer into the package that P3:1        *)
(* launches: the installer is downloaded or copied into driver-artifacts,  *)
(* authenticated, unpacked into driver-extracted, and the selected         *)
(* components are copied into driver-package together with a manifest.     *)
(* The command may stop between any two file operations; a later one finds *)
(* what was left.  Bytes are model values and a digest is what it is the   *)
(* digest of; sizes are counted in units in which the limits are small.    *)
(***************************************************************************)
EXTENDS Collections, Sequences
LOCAL INSTANCE SequencesExt

CONSTANTS
    None,
    Components,     \* the catalog of component directories
    Required,       \* the components it marks as required
    Depends,        \* Depends[c]: the components c needs
    Presets,        \* the component sets a user may start from
    Installers,     \* payloads: [signed, length, entries]
    Deselections,   \* component sets a user may deselect
    MaxArtifact, MaxEntries, MaxFile, MaxExpanded, MaxRatio,
    MaxFaults, MaxEdits    \* bounds: stops of a command, edits of the package

VARIABLES
    temporary,   \* <leaf>.download.tmp: [installer, bytes]
    artifact,    \* the installer at its final name: [installer, bytes]
    extracted,   \* driver-extracted, a set of files
    package,     \* driver-package: [files, manifest]
    prepared,    \* what the transaction records: [digest, selection, installer],
                 \* and, as history, wanted: the preset without what was deselected
    handle,      \* a handle this process holds on temporary, opened without sharing
    op, stops, edits

files == <<temporary, artifact, extracted, package, prepared>>
vars == <<files, handle, op, stops, edits>>

-----------------------------------------------------------------------------
\* The component selection.

\* add_with_dependencies: everything reachable from the selected components.
DependencyClosure(S) == Reachable(Components, Depends, S)

\* from_json: no catalog is used whose components need unknown ones or themselves.
CatalogValid ==
    /\ Required \subseteq Components
    /\ \A c \in Components : /\ Depends[c] \subseteq Components
                            /\ c \notin DependencyClosure(Depends[c])

\* A selection that does not start without what was deselected, but keeps of
\* it what the preset names.
ResolveSelectionUnasked(preset, deselected) ==
    DependencyClosure(preset \cup Required)

\* A deselected component stays when it is required, or when one that is
\* kept needs it.
ResolveSelection(preset, deselected) ==
    DependencyClosure((preset \ (deselected \ Required)) \cup Required)

-----------------------------------------------------------------------------
\* The archive.  An entry is a file [dir, leaf, fold, unsafe, size, packed,
\* actual]: dir is its component, or None at the root; fold is its path
\* without case; unsafe is a path that escapes or a reparse point; actual is
\* the size it really unpacks to.

SumSizes(es) == FoldSeq(LAMBDA e, total : total + e.size, 0, es)

ValidEntry(e) ==
    /\ ~e.unsafe
    /\ e.size <= MaxFile
    /\ e.size > 0 => e.packed > 0
    /\ e.packed > 0 => e.size \div e.packed <= MaxRatio

ValidateEntries(es) ==
    /\ Len(es) \in 1 .. MaxEntries
    /\ \A i \in 1 .. Len(es) : ValidEntry(es[i])
    /\ \A i, j \in 1 .. Len(es) : i # j => es[i].fold # es[j].fold
    /\ SumSizes(es) <= MaxExpanded

\* The installers' tables of contents are sequences of entries.
Entries == UNION {{i.entries[k] : k \in 1 .. Len(i.entries)} : i \in Installers}

FileOf(e) == [dir |-> e.dir, leaf |-> e.leaf, data |-> e.fold]
FilesOf(es) == {FileOf(es[i]) : i \in 1 .. Len(es)}
AtRoot(fs, leaf) == \E f \in fs : f.dir = None /\ f.leaf = leaf

\* A file is copied unless it belongs to a known component that is not selected.
Included(f, selection) == f.dir \in Components => f.dir \in selection

SetupCfg == [dir |-> None, leaf |-> "setup.cfg", data |-> "generated"]

\* A check that reads the manifest and not the files.
VerifyPackageUnread(p, digest) ==
    /\ p # None /\ p.manifest # None
    /\ AtRoot(p.files, "setup.exe") /\ AtRoot(p.files, "setup.cfg")
    /\ p.manifest = digest

\* verify_prepared_nvidia_package, and the digest bound to the transaction.
VerifyPackage(p, digest) ==
    /\ p # None /\ p.manifest # None
    /\ p.files = p.manifest.files
    /\ AtRoot(p.files, "setup.exe") /\ AtRoot(p.files, "setup.cfg")
    /\ p.manifest = digest

-----------------------------------------------------------------------------
Idle == [pc |-> "idle"]
Goto(pc) == op' = [op EXCEPT !.pc = pc]
End == op' = Idle
Keep == UNCHANGED <<stops, edits>>

\* A downloaded or staged installer, whole or not.
Downloads == [installer : Installers, bytes : {"partial", "whole"}]

TypeOK ==
    /\ handle \in BOOLEAN
    /\ stops \in 0 .. MaxFaults /\ edits \in 0 .. MaxEdits
    /\ temporary \in {None} \cup Downloads
    /\ artifact \in {None} \cup Downloads
    /\ prepared # None => prepared.selection \subseteq Components

Init ==
    /\ temporary = None /\ artifact = None /\ extracted = None
    /\ package = None /\ prepared = None
    /\ handle = FALSE
    /\ op = Idle
    /\ stops = 0 /\ edits = 0

\* prepare_nvidia_driver_with_options with no active transaction: what an
\* earlier command left in the two directories is removed first.
Prepare(installer, local, preset, deselected) ==
    /\ op = Idle /\ prepared = None
    /\ extracted' = None /\ package' = None
    /\ op' = [pc |-> IF local THEN "stage" ELSE "download",
              installer |-> installer, preset |-> preset, deselected |-> deselected]
    /\ UNCHANGED <<temporary, artifact, prepared, handle>> /\ Keep

\* stage_local_installer: the leaf is removed, then written in place.
StageRemove ==
    /\ op.pc = "stage"
    /\ artifact' = None
    /\ Goto("copy")
    /\ UNCHANGED <<temporary, extracted, package, prepared, handle>> /\ Keep

CopyLocal ==
    /\ op.pc = "copy"
    /\ \/ /\ artifact = None
          /\ artifact' = [installer |-> op.installer, bytes |-> "partial"]
          /\ UNCHANGED op
       \/ /\ artifact # None
          /\ artifact' = [artifact EXCEPT !.bytes = "whole"]
          /\ Goto("acquire")
    /\ UNCHANGED <<temporary, extracted, package, prepared, handle>> /\ Keep

\* acquire of an official location: a fixed sibling is created anew.
CreateTemporary ==
    /\ op.pc = "download"
    /\ temporary' = [installer |-> op.installer, bytes |-> "partial"]
    /\ handle' = TRUE
    /\ Goto("stream")
    /\ UNCHANGED <<artifact, extracted, package, prepared>> /\ Keep

StreamResponse ==
    /\ op.pc = "stream"
    /\ \/ /\ op.installer.length \in 1 .. MaxArtifact
          /\ temporary' = [temporary EXCEPT !.bytes = "whole"]
          /\ Goto("publish")
          /\ UNCHANGED handle
       \/ /\ op.installer.length \notin 1 .. MaxArtifact
          /\ temporary' = None /\ handle' = FALSE
          /\ End
    /\ UNCHANGED <<artifact, extracted, package, prepared>> /\ Keep

\* Windows refuses to rename a file that somebody holds open without sharing
\* its deletion, the process that asks for it included.
RenameAtomically(source) == IF handle THEN None ELSE source

\* A failed publication closes the handle and deletes the sibling.
PublishDownload ==
    /\ op.pc = "publish"
    /\ LET renamed == RenameAtomically(temporary)
       IN  /\ artifact' = IF renamed = None THEN artifact ELSE renamed
           /\ IF renamed = None THEN End ELSE Goto("acquire")
    /\ temporary' = None /\ handle' = FALSE
    /\ UNCHANGED <<extracted, package, prepared>> /\ Keep

\* acquire_verified: from here on the file is held open and cannot be
\* replaced; only whole bytes carry a valid signature.
Acquire ==
    /\ op.pc = "acquire"
    /\ IF /\ artifact # None
          /\ artifact.installer.length \in 1 .. MaxArtifact
          /\ artifact.bytes = "whole" /\ artifact.installer.signed
       THEN op' = [op EXCEPT !.pc = "extract", !.installer = artifact.installer]
       ELSE End
    /\ UNCHANGED <<files, handle>> /\ Keep

\* extract_nvidia_sfx: the entries are judged before the directory exists.
ExtractBegin ==
    /\ op.pc = "extract"
    /\ \/ /\ extracted = None /\ ValidateEntries(op.installer.entries)
          /\ extracted' = {}
          /\ op' = [pc |-> "entries", installer |-> op.installer, preset |-> op.preset,
                    deselected |-> op.deselected, left |-> op.installer.entries]
       \/ /\ ~(extracted = None /\ ValidateEntries(op.installer.entries))
          /\ End /\ UNCHANGED extracted
    /\ UNCHANGED <<temporary, artifact, package, prepared, handle>> /\ Keep

\* An entry that unpacks to another size than it declares removes everything.
ExtractEntry ==
    /\ op.pc = "entries" /\ op.left # <<>>
    /\ LET e == Head(op.left)
       IN  \/ /\ e.actual = e.size
              /\ extracted' = extracted \cup {FileOf(e)}
              /\ op' = [op EXCEPT !.left = Tail(@)]
           \/ e.actual # e.size /\ extracted' = None /\ End
    /\ UNCHANGED <<temporary, artifact, package, prepared, handle>> /\ Keep

\* resolve_component_selection and build_nvidia_package.
BuildBegin ==
    /\ op.pc = "entries" /\ op.left = <<>>
    /\ package = None
    /\ package' = [files |-> {}, manifest |-> None]
    /\ op' = IF CatalogValid
             THEN [pc |-> "assemble", installer |-> op.installer,
                   selection |-> ResolveSelection(op.preset, op.deselected),
                   wanted |-> op.preset \ op.deselected]
             ELSE Idle
    /\ UNCHANGED <<temporary, artifact, extracted, prepared, handle>> /\ Keep

CopyVendorFile ==
    /\ op.pc = "assemble"
    /\ \E f \in extracted \ package.files :
        /\ Included(f, op.selection)
        /\ package' = [package EXCEPT !.files = @ \cup {f}]
    /\ UNCHANGED <<temporary, artifact, extracted, prepared, handle, op>> /\ Keep

\* setup.cfg and the manifest are created, never replaced.
WriteGenerated ==
    /\ op.pc = "assemble"
    /\ \A f \in extracted : Included(f, op.selection) => f \in package.files
    /\ LET all == package.files \cup {SetupCfg}
       IN  \/ /\ ~AtRoot(package.files, "setup.cfg")
              /\ package' = [files |-> all,
                             manifest |-> [files |-> all, selection |-> op.selection]]
              /\ Goto("verify")
           \/ /\ AtRoot(package.files, "setup.cfg")
              /\ package' = None /\ End
    /\ UNCHANGED <<temporary, artifact, extracted, prepared, handle>> /\ Keep

\* verified_prepared_package_digest, then the transaction is written.
RecordPrepared ==
    /\ op.pc = "verify"
    /\ prepared' = IF VerifyPackage(package, package.manifest)
                   THEN [digest |-> package.manifest, selection |-> op.selection,
                         installer |-> op.installer, wanted |-> op.wanted]
                   ELSE None
    /\ End
    /\ UNCHANGED <<temporary, artifact, extracted, package, handle>> /\ Keep

-----------------------------------------------------------------------------
\* The process or the machine stops; handles are closed, files stay.
Stop == /\ op # Idle /\ stops < MaxFaults
        /\ stops' = stops + 1
        /\ handle' = FALSE
        /\ End
        /\ UNCHANGED <<files, edits>>

\* A file of the prepared package is damaged, lost or added.
Edit == /\ prepared # None /\ package # None /\ edits < MaxEdits
        /\ edits' = edits + 1
        /\ \E f \in package.files :
            \E fs \in {{}, {[f EXCEPT !.data = "damaged"]}} :
                package' = [package EXCEPT !.files = (@ \ {f}) \cup fs]
        /\ UNCHANGED <<temporary, artifact, extracted, prepared, handle, op, stops>>

Next == \/ \E i \in Installers, l \in BOOLEAN, p \in Presets, d \in Deselections : Prepare(i, l, p, d)
        \/ StageRemove \/ CopyLocal
        \/ CreateTemporary \/ StreamResponse \/ PublishDownload
        \/ Acquire \/ ExtractBegin \/ ExtractEntry
        \/ BuildBegin \/ CopyVendorFile \/ WriteGenerated \/ RecordPrepared
        \/ Stop \/ Edit

Steps == \/ StageRemove \/ CopyLocal \/ CreateTemporary \/ StreamResponse \/ PublishDownload
         \/ Acquire \/ ExtractBegin \/ ExtractEntry
         \/ BuildBegin \/ CopyVendorFile \/ WriteGenerated \/ RecordPrepared

Spec == Init /\ [][Next]_vars /\ WF_vars(Steps)

-----------------------------------------------------------------------------
\* Properties.

\* A package that passes the check made before every use of it holds, file for
\* file, what the signed installer has for the recorded selection, whatever
\* was interrupted, left over or damaged on the way.
PackageFaithful ==
    prepared # None /\ VerifyPackage(package, prepared.digest) =>
        /\ prepared.installer.signed
        /\ package.files = {f \in FilesOf(prepared.installer.entries) :
                                Included(f, prepared.selection)} \cup {SetupCfg}

\* The recorded selection holds what is required and whatever its components
\* need, and nothing else than what the user wanted: a component that was
\* deselected, or never asked for, is in only if it is required or another
\* selected component needs it.
SelectionSound ==
    prepared # None =>
        LET s == prepared.selection
        IN  /\ Required \subseteq s
            /\ \A c \in s : Depends[c] \subseteq s
            /\ \A c \in s \ (Required \cup prepared.wanted) :
                    \E k \in s \ {c} : c \in Depends[k]

\* "A partial download never occupies the retained final leaf. A retry removes
\* only this fixed sibling, flushes and hashes it, then atomically publishes
\* the verified bytes": a download that nothing interrupts is published.
DownloadPublishes ==
    \A i \in {j \in Installers : j.length \in 1 .. MaxArtifact} :
        (op.pc = "download" /\ op.installer = i)
            ~> (stops > 0 \/ (artifact # None /\ artifact.installer = i))
=============================================================================
