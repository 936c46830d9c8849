---------------------------- MODULE DriverSystem ----------------------------
(***************************************************************************)
(* The three parts of the driver subsystem, side by side: a behaviour is   *)
(* one of DriverTransaction, of DriverPackage or of DrsProfile.  They meet *)
(* at interfaces that each models for itself: the digest of the prepared   *)
(* package, and the records a merge could not put back.                    *)
(***************************************************************************)
EXTENDS DriverTransaction, Sequences

CONSTANTS
    Components, Required, Depends, Presets, Installers, Deselections,
    MaxArtifact, MaxEntries, MaxFile, MaxExpanded, MaxRatio,
    MaxStops, MaxEdits,
    Global, Cs2, Alias, Other, Apps, MainApp, Settings, Values, Target

VARIABLES
    active,
    temporary, artifact, extracted, built, prepared, handle, buildOp, stops, edits,
    saved, session, backup, snapshot, reported, drsOp, drsEdits, drsStops, before

packageVars == <<temporary, artifact, extracted, built, prepared, handle, buildOp, stops, edits>>
profileVars == <<saved, session, backup, snapshot, reported, drsOp, drsEdits, drsStops, before>>
allVars == <<active, vars, packageVars, profileVars>>

P == INSTANCE DriverPackage WITH
        MaxFaults <- MaxStops, package <- built, op <- buildOp
R == INSTANCE DrsProfile WITH
        MaxFaults <- MaxStops, op <- drsOp, edits <- drsEdits, faults <- drsStops

ASSUME CatalogAssumption == IsFiniteSet(Components) /\ Presets \subseteq SUBSET Components
ASSUME InstallersAssumption == \A i \in Installers : i.entries \in Seq(P!Entries)
ASSUME StopsAssumption == MaxStops \in Nat /\ MaxEdits \in Nat
ASSUME ProfilesAssumption ==
    /\ None \notin R!Profiles /\ None \notin R!Stores
    /\ Global \notin {Cs2, Alias, Other}
    /\ MainApp \in Apps /\ Target \in Values
    /\ "application" \notin Settings

PartsInit == /\ active \in {"transaction", "package", "profile"}
             /\ Init /\ P!Init /\ R!Init

PartsNext == \/ active = "transaction" /\ Next /\ UNCHANGED <<active, packageVars, profileVars>>
             \/ active = "package" /\ P!Next /\ UNCHANGED <<active, vars, profileVars>>
             \/ active = "profile" /\ R!Next /\ UNCHANGED <<active, vars, packageVars>>

PartsSpec == /\ PartsInit /\ [][PartsNext]_allVars
             /\ active = "transaction" => Fairness
             /\ active = "package" => WF_packageVars(P!Steps)

PartsTypeOK == TypeOK /\ P!TypeOK /\ R!TypeOK

-----------------------------------------------------------------------------
\* The package that prepare-nvidia recorded and that passes its check is the
\* selected part of a signed installer, whatever was interrupted on the way.
PackageFaithful == P!PackageFaithful

\* The recorded selection holds what is required and what its members need.
SelectionSound == P!SelectionSound

\* A restore that succeeds leaves the whole DRS store as it was captured.
RestoreExact == R!RestoreExact

\* Every customised record is merged into the new driver or reported.
MergeAccounted == R!MergeAccounted

\* "A partial download never occupies the retained final leaf. A retry removes
\* only this fixed sibling, flushes and hashes it, then atomically publishes
\* the verified bytes": a download that nothing interrupts is published.
DownloadPublishes == active = "package" => P!DownloadPublishes
=============================================================================
