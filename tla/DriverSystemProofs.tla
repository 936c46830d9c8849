------------------------- MODULE DriverSystemProofs -------------------------
(***************************************************************************)
(* What the parts of the driver subsystem guarantee for every catalog,     *)
(* every set of installers and selections, and any number of stops.  The   *)
(* transaction's own results are in DriverTransactionProofs; here they are *)
(* carried over to the subsystem, next to those of the package builder and *)
(* of the driver profiles.                                                 *)
(***************************************************************************)
EXTENDS DriverSystem, DriverTransactionProofs, CollectionsProofs

-----------------------------------------------------------------------------
(* The package builder *)

\* The commands of the package builder, with what each carries.
Builds ==
    [pc : {"idle"}]
    \cup [pc : {"stage", "copy", "download", "stream", "publish", "acquire", "extract"},
          installer : Installers, preset : Presets, deselected : Deselections]
    \cup [pc : {"entries"}, installer : Installers, preset : Presets, deselected : Deselections,
          left : Seq(P!Entries)]
    \cup [pc : {"assemble", "verify"}, installer : Installers, selection : SUBSET Components,
          wanted : SUBSET Components]

\* What a package of the installer i with the selection s holds.
Expected(i, s) ==
    {f \in P!FilesOf(i.entries) : P!Included(f, s)} \cup {P!SetupCfg}

\* A selection s that serves the wish w and holds nothing besides.
Sound(s, w) ==
    /\ s \subseteq Components /\ Required \subseteq s /\ Closed(Depends, s)
    /\ \A c \in s \ (Required \cup w) : \E k \in s \ {c} : c \in Depends[k]

\* How far the command has come, and what is on disk by then.
BuilderInv ==
    /\ buildOp \in Builds
    /\ buildOp.pc # "idle" => prepared = None
    /\ buildOp.pc \in {"stream", "publish"} => temporary \in P!Downloads
    /\ buildOp.pc \in {"extract", "entries", "assemble", "verify"} => buildOp.installer.signed
    /\ buildOp.pc = "entries" =>
          extracted \cup P!FilesOf(buildOp.left) = P!FilesOf(buildOp.installer.entries)
    /\ buildOp.pc = "assemble" =>
          /\ extracted = P!FilesOf(buildOp.installer.entries)
          /\ built = [files |-> built.files, manifest |-> None]
          /\ built.files \subseteq {f \in extracted : P!Included(f, buildOp.selection)}
    /\ buildOp.pc = "verify" =>
          built.manifest.files = Expected(buildOp.installer, buildOp.selection)
    /\ buildOp.pc \in {"assemble", "verify"} => Sound(buildOp.selection, buildOp.wanted)

\* What the transaction records of the package.
PreparedInv ==
    prepared # None =>
        /\ prepared.installer.signed
        /\ prepared.digest.files = Expected(prepared.installer, prepared.selection)
        /\ Sound(prepared.selection, prepared.wanted)

PackageInv == P!TypeOK /\ BuilderInv /\ PreparedInv

\* What a step of the builder carries.
LEMMA BuildShape ==
    ASSUME buildOp \in Builds
    PROVE  /\ buildOp.pc \in {"stage", "copy", "download", "stream", "publish", "acquire",
                              "extract"} =>
                 buildOp \in [pc : {"stage", "copy", "download", "stream", "publish",
                                    "acquire", "extract"},
                              installer : Installers, preset : Presets,
                              deselected : Deselections]
           /\ buildOp.pc = "entries" =>
                 buildOp \in [pc : {"entries"}, installer : Installers, preset : Presets,
                              deselected : Deselections, left : Seq(P!Entries)]
           /\ buildOp.pc \in {"assemble", "verify"} =>
                 buildOp \in [pc : {"assemble", "verify"}, installer : Installers,
                              selection : SUBSET Components, wanted : SUBSET Components]
  BY DEF Builds

\* The first entry of an archive, and the others.
LEMMA FilesSplit ==
    ASSUME NEW S, NEW es \in Seq(S), es # <<>>
    PROVE  P!FilesOf(es) = {P!FileOf(Head(es))} \cup P!FilesOf(Tail(es))
<1>1. Len(es) \in Nat /\ Len(es) >= 1 /\ Len(Tail(es)) = Len(es) - 1 /\ Head(es) = es[1]
  OBVIOUS
<1>2. \A i \in 1 .. Len(Tail(es)) : Tail(es)[i] = es[i + 1]
  OBVIOUS
<1>3. ASSUME NEW f \in P!FilesOf(es) PROVE f \in {P!FileOf(Head(es))} \cup P!FilesOf(Tail(es))
  <2>1. PICK i \in 1 .. Len(es) : f = P!FileOf(es[i])
    BY DEF P!FilesOf
  <2>2. CASE i = 1
    BY <1>1, <2>1, <2>2
  <2>3. CASE i # 1
    <3>1. i - 1 \in 1 .. Len(Tail(es)) /\ Tail(es)[i - 1] = es[i]
      BY <1>1, <1>2, <2>3
    <3>2. QED BY <2>1, <3>1 DEF P!FilesOf
  <2>4. QED BY <2>2, <2>3
<1>4. ASSUME NEW f \in P!FilesOf(Tail(es)) PROVE f \in P!FilesOf(es)
  <2>1. PICK i \in 1 .. Len(Tail(es)) : f = P!FileOf(Tail(es)[i])
    BY DEF P!FilesOf
  <2>2. i + 1 \in 1 .. Len(es) /\ Tail(es)[i] = es[i + 1]
    BY <1>1, <1>2
  <2>3. QED BY <2>1, <2>2 DEF P!FilesOf
<1>5. P!FileOf(Head(es)) \in P!FilesOf(es)
  BY <1>1 DEF P!FilesOf
<1>6. QED
  BY <1>3, <1>4, <1>5

\* An archive with no entries left has no files left.
LEMMA FilesEmpty == P!FilesOf(<<>>) = {}
  BY DEF P!FilesOf

\* A selection is resolved to a sound one, whatever was deselected.
LEMMA ResolvedIsSound ==
    ASSUME P!CatalogValid, NEW p \in Presets, NEW d
    PROVE  Sound(P!ResolveSelection(p, d), p \ d)
<1> DEFINE S == (p \ (d \ Required)) \cup Required
<1>1. S \in SUBSET Components /\ Required \subseteq S /\ IsFiniteSet(Components)
      /\ \A c \in Components : Depends[c] \subseteq Components
  BY CatalogAssumption DEF P!CatalogValid
<1>2. P!ResolveSelection(p, d) = Reachable(Components, Depends, S)
  <2>1. P!Cardinality(Components) = Cardinality(Components)
    BY DEF P!Cardinality, Cardinality
  <2>2. P!Reachable(Components, Depends, S) = Reachable(Components, Depends, S)
    BY <2>1 DEF P!Reachable, Reachable, P!Grow, Grow
  <2>3. QED
    BY <2>2 DEF P!ResolveSelection, P!DependencyClosure
<1>3. S \subseteq Required \cup (p \ d)
  OBVIOUS
<1> HIDE DEF S
<1> DEFINE s == Reachable(Components, Depends, S)
<1>4. /\ S \subseteq s /\ s \subseteq Components /\ Closed(Depends, s)
      /\ \A T : S \subseteq T /\ Closed(Depends, T) => s \subseteq T
  BY <1>1, ReachableClosed
<1>5. ASSUME NEW c \in Components PROVE c \notin Depends[c]
  <2>1. P!Reachable(Components, Depends, Depends[c]) = Reachable(Components, Depends, Depends[c])
    <3>1. P!Cardinality(Components) = Cardinality(Components)
      BY DEF P!Cardinality, Cardinality
    <3>2. QED
      BY <3>1 DEF P!Reachable, Reachable, P!Grow, Grow
  <2>2. Depends[c] \subseteq Reachable(Components, Depends, Depends[c])
    BY <1>1, ReachableClosed
  <2>3. c \notin P!Reachable(Components, Depends, Depends[c])
    BY DEF P!CatalogValid, P!DependencyClosure
  <2>4. QED
    BY <2>1, <2>2, <2>3
<1> HIDE DEF s
<1>6. ASSUME NEW c \in s \ (Required \cup (p \ d)) PROVE \E k \in s \ {c} : c \in Depends[k]
  <2> DEFINE T == s \cap (S \cup UNION {Depends[k] : k \in s})
  <2>1. S \subseteq T /\ Closed(Depends, T)
    BY <1>4 DEF Closed
  <2>2. c \in T
    BY <1>4, <2>1
  <2>3. PICK k \in s : c \in Depends[k]
    BY <1>3, <2>2
  <2>4. QED
    BY <1>4, <1>5, <2>3
<1>7. QED
  BY <1>1, <1>2, <1>4, <1>6 DEF Sound, s

\* Nothing is downloaded, extracted or built at the start.
LEMMA PackageInit == P!Init => PackageInv
<1> SUFFICES ASSUME P!Init PROVE PackageInv
  OBVIOUS
<1>1. P!TypeOK
  <2>1. stops \in 0 .. MaxStops /\ edits \in 0 .. MaxEdits
    BY StopsAssumption DEF P!Init
  <2>2. handle \in BOOLEAN
    BY Zenon DEF P!Init
  <2>3. QED
    BY <2>1, <2>2 DEF P!Init, P!TypeOK
<1>2. buildOp \in Builds /\ buildOp.pc = "idle"
  BY DEF P!Init, P!Idle, Builds
<1>3. QED
  BY <1>1, <1>2 DEF P!Init, PackageInv, BuilderInv, PreparedInv

\* A step of the builder that writes nothing the invariant speaks of but the
\* command itself.
LEMMA PrepareBuildInv ==
    ASSUME PackageInv, NEW i \in Installers, NEW l \in BOOLEAN, NEW p \in Presets,
           NEW d \in Deselections, P!Prepare(i, l, p, d)
    PROVE  PackageInv'
<1> USE DEF P!Prepare, P!Keep, P!Idle, PackageInv
<1>1. buildOp' \in Builds /\ buildOp'.pc \in {"stage", "download"}
  BY DEF Builds
<1>2. P!TypeOK'
  BY DEF P!TypeOK, P!Downloads
<1>3. BuilderInv'
  BY <1>1 DEF BuilderInv
<1>4. PreparedInv'
  BY DEF PreparedInv
<1>5. QED
  BY <1>2, <1>3, <1>4

\* Staging removes the old artifact; a local installer is copied in its place.
LEMMA StageInv ==
    ASSUME PackageInv, P!StageRemove \/ P!CopyLocal
    PROVE  PackageInv'
<1> USE DEF P!StageRemove, P!CopyLocal, P!Keep, P!Goto, PackageInv
<1>1. buildOp \in [pc : {"stage", "copy"}, installer : Installers, preset : Presets,
                   deselected : Deselections]
  BY BuildShape DEF BuilderInv
<1>2. buildOp' \in Builds /\ buildOp'.pc \in {"copy", "acquire"} /\ prepared = None
  BY <1>1 DEF Builds, BuilderInv
<1>3. artifact' \in {None} \cup P!Downloads
  BY <1>1 DEF P!Downloads, P!TypeOK
<1>4. P!TypeOK'
  BY <1>3 DEF P!TypeOK, P!Downloads
<1>5. BuilderInv'
  BY <1>2 DEF BuilderInv
<1>6. PreparedInv'
  BY DEF PreparedInv
<1>7. QED
  BY <1>4, <1>5, <1>6

\* A download goes to the temporary file, whole or in part.
LEMMA DownloadInv ==
    ASSUME PackageInv, P!CreateTemporary \/ P!StreamResponse
    PROVE  PackageInv'
<1> USE DEF P!CreateTemporary, P!StreamResponse, P!Keep, P!Goto, P!End, P!Idle, PackageInv
<1>1. buildOp \in [pc : {"download", "stream"}, installer : Installers, preset : Presets,
                   deselected : Deselections]
  BY BuildShape DEF BuilderInv
<1>2. /\ buildOp' \in Builds /\ buildOp'.pc \in {"stream", "publish", "idle"}
      /\ prepared = None
  BY <1>1 DEF Builds, BuilderInv
<1>3. /\ temporary' \in {None} \cup P!Downloads
      /\ buildOp'.pc \in {"stream", "publish"} => temporary' \in P!Downloads
  BY <1>1 DEF P!Downloads, P!TypeOK, BuilderInv
<1>4. handle' \in BOOLEAN
  BY Zenon DEF P!TypeOK
<1>5. P!TypeOK'
  BY <1>3, <1>4 DEF P!TypeOK, P!Downloads
<1>6. BuilderInv'
  BY <1>2, <1>3 DEF BuilderInv
<1>7. PreparedInv'
  BY DEF PreparedInv
<1>8. QED
  BY <1>5, <1>6, <1>7

\* What is published or acquired is authenticated before it is used.
LEMMA AcquireInv ==
    ASSUME PackageInv, P!PublishDownload \/ P!Acquire
    PROVE  PackageInv'
<1> USE DEF P!PublishDownload, P!Acquire, P!RenameAtomically, P!Keep, P!Goto, P!End, P!Idle,
            P!files, PackageInv
<1>1. buildOp \in [pc : {"publish", "acquire"}, installer : Installers, preset : Presets,
                   deselected : Deselections]
  BY BuildShape DEF BuilderInv
<1>2. CASE P!PublishDownload
  <2>1. buildOp' \in Builds /\ buildOp'.pc \in {"acquire", "idle"} /\ prepared = None
    BY <1>1, <1>2 DEF Builds, BuilderInv
  <2>2. artifact' \in {None} \cup P!Downloads
    BY <1>2 DEF P!TypeOK
  <2>3. P!TypeOK'
    BY <1>2, <2>2 DEF P!TypeOK, P!Downloads
  <2>4. BuilderInv' /\ PreparedInv'
    BY <1>2, <2>1 DEF BuilderInv, PreparedInv
  <2>5. QED
    BY <2>3, <2>4
<1>3. CASE P!Acquire
  <2>1. /\ buildOp' \in Builds /\ buildOp'.pc \in {"extract", "idle"} /\ prepared = None
        /\ buildOp'.pc = "extract" => buildOp'.installer.signed
    <3> DEFINE good == /\ artifact # None
                       /\ artifact.installer.length \in 1 .. MaxArtifact
                       /\ artifact.bytes = "whole" /\ artifact.installer.signed
    <3>1. CASE good
      <4>1. artifact \in P!Downloads
        BY <3>1 DEF P!TypeOK
      <4>2. buildOp' = [buildOp EXCEPT !.pc = "extract", !.installer = artifact.installer]
        BY <1>3, <3>1
      <4>3. /\ buildOp' \in [pc : {"extract"}, installer : Installers, preset : Presets,
                             deselected : Deselections]
            /\ buildOp'.installer = artifact.installer
        BY <1>1, <4>1, <4>2 DEF P!Downloads
      <4>4. buildOp' \in Builds /\ buildOp'.pc = "extract"
        BY <4>3 DEF Builds
      <4>5. QED
        BY <1>1, <3>1, <4>3, <4>4 DEF BuilderInv
    <3>2. CASE ~good
      BY <1>1, <1>3, <3>2 DEF Builds, BuilderInv
    <3>3. QED BY <3>1, <3>2
  <2>2. P!TypeOK'
    BY <1>3 DEF P!TypeOK, P!Downloads
  <2>3. BuilderInv' /\ PreparedInv'
    BY <1>3, <2>1 DEF BuilderInv, PreparedInv
  <2>4. QED
    BY <2>2, <2>3
<1>4. QED
  BY <1>2, <1>3

\* Extraction adds only entries of the authenticated installer.
LEMMA ExtractInv ==
    ASSUME PackageInv, P!ExtractBegin \/ P!ExtractEntry
    PROVE  PackageInv'
<1> USE DEF P!Keep, P!End, P!Idle, PackageInv
<1>0. P!TypeOK' /\ PreparedInv'
  BY DEF P!ExtractBegin, P!ExtractEntry, P!TypeOK, P!Downloads, PreparedInv
<1>1. CASE buildOp' = P!Idle
  BY <1>0, <1>1 DEF BuilderInv, Builds
<1>2. CASE P!ExtractBegin /\ buildOp' # P!Idle
  <2>1. buildOp \in [pc : {"extract"}, installer : Installers, preset : Presets,
                     deselected : Deselections]
    BY <1>2, BuildShape DEF BuilderInv, P!ExtractBegin
  <2>2. /\ buildOp' = [pc |-> "entries", installer |-> buildOp.installer,
                       preset |-> buildOp.preset, deselected |-> buildOp.deselected,
                       left |-> buildOp.installer.entries]
        /\ extracted' = {} /\ prepared' = prepared
    BY <1>2 DEF P!ExtractBegin
  <2>3. buildOp.installer.entries \in Seq(P!Entries)
    BY <2>1, InstallersAssumption
  <2>4. buildOp' \in Builds
    BY <2>1, <2>2, <2>3 DEF Builds
  <2>5. BuilderInv'
    BY <2>1, <2>2, <2>4 DEF BuilderInv, P!FilesOf, P!FileOf
  <2>6. QED
    BY <1>0, <2>5
<1>3. CASE P!ExtractEntry /\ buildOp' # P!Idle
  <2>1. buildOp \in [pc : {"entries"}, installer : Installers, preset : Presets,
                     deselected : Deselections, left : Seq(P!Entries)]
    BY <1>3, BuildShape DEF BuilderInv, P!ExtractEntry
  <2>2. /\ buildOp.left # <<>>
        /\ extracted' = extracted \cup {P!FileOf(Head(buildOp.left))}
        /\ buildOp' = [buildOp EXCEPT !.left = Tail(buildOp.left)]
        /\ prepared' = prepared
    BY <1>3 DEF P!ExtractEntry
  <2>3. Tail(buildOp.left) \in Seq(P!Entries)
    BY <2>1, <2>2
  <2>4. buildOp' \in Builds /\ buildOp'.pc = "entries" /\ buildOp'.left = Tail(buildOp.left)
        /\ buildOp'.installer = buildOp.installer
    BY <2>1, <2>2, <2>3 DEF Builds
  <2>5. P!FilesOf(buildOp.left)
            = {P!FileOf(Head(buildOp.left))} \cup P!FilesOf(Tail(buildOp.left))
    BY <2>1, <2>2, FilesSplit
  <2>6. extracted' \cup P!FilesOf(buildOp'.left) = P!FilesOf(buildOp'.installer.entries)
    BY <2>1, <2>2, <2>4, <2>5 DEF BuilderInv
  <2>7. (P!FilesOf(buildOp.left))' = P!FilesOf(buildOp'.left)
    BY DEF P!FilesOf, P!FileOf
  <2>8. (P!FilesOf(buildOp.installer.entries))' = P!FilesOf(buildOp'.installer.entries)
    BY DEF P!FilesOf, P!FileOf
  <2>9. BuilderInv'
    BY <2>1, <2>2, <2>4, <2>6, <2>7, <2>8 DEF BuilderInv
  <2>10. QED
    BY <1>0, <2>9
<1>4. QED
  BY <1>1, <1>2, <1>3

\* A build starts from what was extracted, with a sound selection.
LEMMA BuildBeginInv ==
    ASSUME PackageInv, P!BuildBegin
    PROVE  PackageInv'
<1> USE DEF P!BuildBegin, P!Keep, P!Idle, PackageInv
<1>1. buildOp \in [pc : {"entries"}, installer : Installers, preset : Presets,
                   deselected : Deselections, left : Seq(P!Entries)]
  BY BuildShape DEF BuilderInv
<1>2. extracted = P!FilesOf(buildOp.installer.entries) /\ prepared = None
  BY FilesEmpty DEF BuilderInv
<1>3. P!TypeOK' /\ PreparedInv'
  BY DEF P!TypeOK, P!Downloads, PreparedInv
<1>4. CASE P!CatalogValid
  <2> DEFINE sel == P!ResolveSelection(buildOp.preset, buildOp.deselected)
  <2> DEFINE wish == buildOp.preset \ buildOp.deselected
  <2>1. Sound(sel, wish) /\ wish \in SUBSET Components
    BY <1>1, <1>4, ResolvedIsSound, CatalogAssumption
  <2>2. buildOp' = [pc |-> "assemble", installer |-> buildOp.installer, selection |-> sel,
                    wanted |-> wish]
    BY <1>4
  <2> HIDE DEF sel, wish
  <2>3. buildOp' \in Builds
    BY <1>1, <2>1, <2>2 DEF Builds, Sound
  <2>4. Sound(buildOp'.selection, buildOp'.wanted) /\ buildOp'.installer = buildOp.installer
        /\ buildOp'.pc = "assemble"
    <3>1. buildOp'.selection = sel /\ buildOp'.wanted = wish
      BY <2>2
    <3>2. QED BY <2>1, <2>2, <3>1 DEF Sound
  <2>5. built' = [files |-> {}, manifest |-> None] /\ UNCHANGED <<extracted, prepared>>
    OBVIOUS
  <2>6. BuilderInv'
    BY <1>1, <1>2, <2>3, <2>4, <2>5 DEF BuilderInv, P!FilesOf, P!FileOf, Sound, Closed
  <2>7. QED
    BY <1>3, <2>6
<1>5. CASE ~P!CatalogValid
  BY <1>3, <1>5 DEF BuilderInv, Builds
<1>6. QED
  BY <1>4, <1>5

\* A vendor file that is copied is one the selection includes.
LEMMA CopyInv ==
    ASSUME PackageInv, P!CopyVendorFile
    PROVE  PackageInv'
<1> USE DEF P!CopyVendorFile, P!Keep, PackageInv
<1>1. PICK f \in extracted \ built.files :
          /\ P!Included(f, buildOp.selection)
          /\ built' = [built EXCEPT !.files = built.files \cup {f}]
  OBVIOUS
<1>2. built' = [files |-> built.files \cup {f}, manifest |-> None]
  BY <1>1 DEF BuilderInv
<1>3. P!TypeOK' /\ PreparedInv'
  BY DEF P!TypeOK, P!Downloads, PreparedInv
<1>4. BuilderInv'
  <2>1. UNCHANGED <<extracted, buildOp, prepared>> /\ buildOp.pc = "assemble"
    OBVIOUS
  <2>2. built'.files = built.files \cup {f} /\ built'.manifest = None
    BY <1>2
  <2>3. built'.files \subseteq {g \in extracted : P!Included(g, buildOp.selection)}
    BY <1>1, <2>1, <2>2 DEF BuilderInv
  <2>4. built' = [files |-> built'.files, manifest |-> None]
    BY <1>2
  <2>5. QED
    BY <2>1, <2>3, <2>4 DEF BuilderInv, P!FilesOf, P!FileOf, P!Included, Sound, Closed, Builds
<1>5. QED
  BY <1>3, <1>4

\* The manifest lists the files that the selection calls for.
LEMMA WriteInv ==
    ASSUME PackageInv, P!WriteGenerated
    PROVE  PackageInv'
<1> USE DEF P!WriteGenerated, P!Keep, P!Goto, P!End, P!Idle, PackageInv
<1>1. /\ buildOp \in [pc : {"assemble"}, installer : Installers,
                       selection : SUBSET Components, wanted : SUBSET Components]
      /\ prepared = None /\ buildOp.installer.signed /\ Sound(buildOp.selection, buildOp.wanted)
  BY BuildShape DEF BuilderInv
<1>2. built.files \cup {P!SetupCfg} = Expected(buildOp.installer, buildOp.selection)
  BY <1>1 DEF BuilderInv, Expected
<1>3. P!TypeOK' /\ PreparedInv'
  BY DEF P!TypeOK, P!Downloads, PreparedInv
<1>4. CASE P!AtRoot(built.files, "setup.cfg")
  BY <1>1, <1>3, <1>4 DEF BuilderInv, Builds
<1>5. CASE ~P!AtRoot(built.files, "setup.cfg")
  <2>1. /\ built' = [files |-> built.files \cup {P!SetupCfg},
                     manifest |-> [files |-> built.files \cup {P!SetupCfg},
                                   selection |-> buildOp.selection]]
        /\ buildOp' = [buildOp EXCEPT !.pc = "verify"]
    BY <1>5
  <2>2. /\ buildOp' \in Builds /\ buildOp'.pc = "verify"
        /\ buildOp'.installer = buildOp.installer /\ buildOp'.selection = buildOp.selection
        /\ buildOp'.wanted = buildOp.wanted
    BY <1>1, <2>1 DEF Builds
  <2>3. built'.manifest.files = Expected(buildOp'.installer, buildOp'.selection)
    BY <1>2, <2>1, <2>2
  <2>4. (Expected(buildOp.installer, buildOp.selection))'
            = Expected(buildOp'.installer, buildOp'.selection)
    BY DEF Expected, P!FilesOf, P!FileOf, P!Included, P!SetupCfg
  <2>5. BuilderInv'
    BY <1>1, <2>2, <2>3, <2>4 DEF BuilderInv, Sound, Closed
  <2>6. QED
    BY <1>3, <2>5
<1>6. QED
  BY <1>4, <1>5

\* A package is recorded as prepared only after its check.
LEMMA RecordInvariant ==
    ASSUME PackageInv, P!RecordPrepared
    PROVE  PackageInv'
<1> USE DEF P!RecordPrepared, P!Keep, P!End, P!Idle, PackageInv
<1>1. /\ buildOp \in [pc : {"verify"}, installer : Installers,
                       selection : SUBSET Components, wanted : SUBSET Components]
      /\ buildOp.installer.signed /\ Sound(buildOp.selection, buildOp.wanted)
      /\ built.manifest.files = Expected(buildOp.installer, buildOp.selection)
  BY BuildShape DEF BuilderInv
<1>2. BuilderInv'
  BY DEF BuilderInv, Builds
<1>3. CASE prepared' = None
  BY <1>2, <1>3 DEF P!TypeOK, P!Downloads, PreparedInv
<1>4. CASE prepared' # None
  <2>1. prepared' = [digest |-> built.manifest, selection |-> buildOp.selection,
                     installer |-> buildOp.installer, wanted |-> buildOp.wanted]
    BY <1>4
  <2>2. /\ prepared'.installer = buildOp.installer /\ prepared'.selection = buildOp.selection
        /\ prepared'.digest = built.manifest /\ prepared'.wanted = buildOp.wanted
    BY <2>1
  <2>3. (Expected(prepared.installer, prepared.selection))'
            = Expected(prepared'.installer, prepared'.selection)
    BY DEF Expected, P!FilesOf, P!FileOf, P!Included, P!SetupCfg
  <2>4. PreparedInv'
    BY <1>1, <2>2, <2>3 DEF PreparedInv, Sound, Closed
  <2>5. P!TypeOK'
    BY <1>1, <2>2 DEF P!TypeOK, P!Downloads
  <2>6. QED
    BY <1>2, <2>4, <2>5
<1>5. QED
  BY <1>3, <1>4

\* A stop ends the command; damage touches the built package only.
LEMMA PackageEnvironmentInv ==
    ASSUME PackageInv, P!Stop \/ P!Edit
    PROVE  PackageInv'
<1> USE DEF PackageInv, P!Stop, P!Edit, P!files, P!End, P!Idle
<1>1. UNCHANGED <<temporary, artifact, extracted, prepared>>
  OBVIOUS
<1>2. stops' \in 0 .. MaxStops /\ edits' \in 0 .. MaxEdits
  BY StopsAssumption DEF P!TypeOK
<1>3. handle' \in BOOLEAN
  BY Zenon DEF P!TypeOK
<1>4. P!TypeOK'
  BY <1>1, <1>2, <1>3 DEF P!TypeOK, P!Downloads
<1>5. PreparedInv'
  BY <1>1 DEF PreparedInv, Expected, Sound, Closed, P!FilesOf, P!FileOf, P!Included, P!SetupCfg
<1>6. BuilderInv'
  <2>1. CASE P!Stop
    BY <2>1 DEF BuilderInv, Builds
  <2>2. CASE P!Edit
    <3>1. UNCHANGED buildOp /\ buildOp.pc = "idle"
      BY <2>2 DEF BuilderInv
    <3>2. QED BY <3>1 DEF BuilderInv, Builds
  <2>3. QED BY <2>1, <2>2
<1>7. QED
  BY <1>4, <1>5, <1>6

\* Every step of the builder keeps its invariant.
LEMMA PackageStep ==
    ASSUME PackageInv, P!Next \/ UNCHANGED packageVars
    PROVE  PackageInv'
<1>1. CASE UNCHANGED packageVars
  BY <1>1 DEF packageVars, PackageInv, BuilderInv, PreparedInv, P!TypeOK, Builds, Expected,
              Sound, Closed, P!FilesOf, P!FileOf, P!Included, P!SetupCfg, P!Downloads
<1>2. CASE \E i \in Installers, l \in BOOLEAN, p \in Presets, d \in Deselections :
               P!Prepare(i, l, p, d)
  BY <1>2, PrepareBuildInv
<1>3. QED
  BY <1>1, <1>2, StageInv, DownloadInv, AcquireInv, ExtractInv, BuildBeginInv, CopyInv,
     WriteInv, RecordInvariant, PackageEnvironmentInv DEF P!Next

-----------------------------------------------------------------------------
(* The driver profiles *)

\* A store in which an application belongs to a profile that exists, and a
\* profile that does not exist has no settings.
WellFormed(d) ==
    /\ d \in R!Stores /\ Global \in d.profiles
    /\ \A a \in Apps : d.owner[a] \in d.profiles \cup {None}
    /\ \A p \in R!Profiles \ d.profiles : d.value[p] = [s \in Settings |-> None]

\* Records of the CS2 profile: it is never the global one, and one that the
\* suite is to create belongs to nobody yet.
Backups == [profile : R!Profiles \ {Global}, created : BOOLEAN,
            settings : [Settings -> Values \cup {None}], apps : [Apps -> R!Profiles \cup {None}]]

\* The customised items of a removed driver: one profile for an application,
\* one value for a setting of a profile.
SnapshotOK(snap) ==
    /\ snap.profiles \subseteq R!Profiles
    /\ \A i \in snap.items :
          \/ \E p \in snap.profiles \cup {Global}, a \in Apps : i = <<p, "application", a>>
          \/ \E p \in snap.profiles \cup {Global}, s \in Settings, v \in Values \cup {None} :
                i = <<p, s, v>>
    /\ \A i \in snap.items : i[3] # None
    /\ \A i, j \in snap.items : i[2] = "application" /\ j[2] = "application" /\ i[3] = j[3] => i = j
    /\ \A i, j \in snap.items :
          i[2] # "application" /\ i[1] = j[1] /\ i[2] = j[2] => i = j

ProfileTypes ==
    /\ WellFormed(saved)
    /\ session = None \/ WellFormed(session)
    /\ backup = None \/ backup \in Backups
    /\ snapshot = None \/ SnapshotOK(snapshot)
    /\ before \in [store : R!Stores, intact : BOOLEAN]
    /\ drsOp \in {"idle", "apply", "restore", "merge"}
    /\ drsOp = "idle" => session = None
    /\ drsEdits \in 0 .. MaxEdits /\ drsStops \in 0 .. MaxStops

\* While nobody else has changed the store, it is the captured one or the one
\* with the policy, and the record is that of the captured one.
IntactInv ==
    before.intact =>
        /\ WellFormed(before.store) /\ R!CaptureAllowed(before.store)
        /\ backup = R!CaptureCs2(before.store)
        /\ saved \in {before.store, R!ApplyPolicy(before.store, backup)}
        /\ drsOp = "apply" /\ session # None => session = R!ApplyPolicy(before.store, backup)
        /\ drsOp = "restore" => (IF session # None THEN session ELSE saved) = before.store

\* A running merge has put every item into its session or reported it.
MergeInv ==
    drsOp = "merge" =>
        /\ snapshot # None
        /\ snapshot.items \subseteq
              R!Customised(IF session # None THEN session ELSE saved) \cup reported

ProfileInv == ProfileTypes /\ IntactInv /\ MergeInv

\* The store of a new driver is well formed.
LEMMA FreshWellFormed == WellFormed(R!Fresh)
<1>1. R!Fresh \in R!Stores
  BY DEF R!Fresh, R!Stores, R!Profiles
<1>2. R!Fresh.profiles = {Global} /\ R!Fresh.owner = [a \in Apps |-> None]
      /\ R!Fresh.value = [p \in R!Profiles |-> [s \in Settings |-> None]]
  BY DEF R!Fresh
<1>3. QED
  BY <1>1, <1>2 DEF WellFormed

\* The profile that is captured exists and is not the global one.
LEMMA ExistingProfile ==
    ASSUME NEW d, WellFormed(d)
    PROVE  /\ R!FindExistingProfile(d) \in (R!Profiles \ {Global}) \cup {None}
           /\ R!FindExistingProfile(d) # None => R!FindExistingProfile(d) \in d.profiles
<1>1. d.owner[MainApp] \in d.profiles \cup {None} /\ d.profiles \subseteq R!Profiles
  BY ProfilesAssumption DEF WellFormed, R!Stores
<1>2. QED
  BY <1>1, ProfilesAssumption DEF R!FindExistingProfile, R!Profiles

\* A captured record has the type of a backup.
LEMMA CaptureIsBackup ==
    ASSUME NEW d, WellFormed(d)
    PROVE  R!CaptureCs2(d) \in Backups
<1> DEFINE p == R!FindExistingProfile(d)
<1>1. p \in (R!Profiles \ {Global}) \cup {None} /\ None \notin R!Profiles
  BY ExistingProfile, ProfilesAssumption
<1> HIDE DEF p
<1>2. (IF p = None THEN Cs2 ELSE p) \in R!Profiles \ {Global}
  BY <1>1, ProfilesAssumption DEF R!Profiles
<1>3. (IF p = None THEN [s \in Settings |-> None] ELSE d.value[p]) \in [Settings -> Values \cup {None}]
  BY <1>1 DEF WellFormed, R!Stores
<1>4. d.owner \in [Apps -> R!Profiles \cup {None}]
  BY DEF WellFormed, R!Stores
<1>5. (p = None) \in BOOLEAN
  OBVIOUS
<1>6. QED
  BY <1>2, <1>3, <1>4, <1>5 DEF Backups, R!CaptureCs2, p

\* Setting the policy keeps a store well formed.
LEMMA ApplyWellFormed ==
    ASSUME NEW d, WellFormed(d), NEW b \in Backups
    PROVE  WellFormed(R!ApplyPolicy(d, b))
<1> DEFINE e == R!ApplyPolicy(d, b)
<1>1. /\ e.profiles = d.profiles \cup {b.profile}
      /\ e.owner = [a \in Apps |-> IF b.apps[a] = None THEN b.profile ELSE d.owner[a]]
      /\ e.value = [d.value EXCEPT ![b.profile] = [s \in Settings |-> Target]]
      /\ e = [profiles |-> e.profiles, owner |-> e.owner, value |-> e.value]
  BY DEF R!ApplyPolicy
<1> HIDE DEF e
<1>2. b.profile \in R!Profiles
  BY DEF Backups
<1>3. e.profiles \subseteq R!Profiles /\ Global \in e.profiles
  BY <1>1, <1>2 DEF WellFormed, R!Stores
<1>4. \A a \in Apps : e.owner[a] \in e.profiles \cup {None}
  BY <1>1 DEF WellFormed
<1>5. e.owner \in [Apps -> R!Profiles \cup {None}]
  BY <1>1, <1>2, <1>3, <1>4
<1>6. e.value \in [R!Profiles -> [Settings -> Values \cup {None}]]
  <2>1. [s \in Settings |-> Target] \in [Settings -> Values \cup {None}]
    BY ProfilesAssumption
  <2>2. QED
    BY <1>1, <1>2, <2>1 DEF WellFormed, R!Stores
<1>7. \A p \in R!Profiles \ e.profiles : e.value[p] = [s \in Settings |-> None]
  BY <1>1 DEF WellFormed, R!Stores
<1>8. e \in R!Stores
  BY <1>1, <1>3, <1>5, <1>6 DEF R!Stores
<1>9. QED
  BY <1>3, <1>4, <1>7, <1>8 DEF WellFormed, e

\* Taking the policy back keeps a store well formed.
LEMMA RestoreWellFormed ==
    ASSUME NEW d, WellFormed(d), NEW b \in Backups, R!RestoreAllowed(d, b)
    PROVE  WellFormed(R!RestoreOriginals(d, b))
<1> DEFINE e == R!RestoreOriginals(d, b)
<1>0. /\ b.profile \in R!Profiles /\ b.profile # Global
      /\ b.settings \in [Settings -> Values \cup {None}]
      /\ d \in R!Stores /\ b.profile \in d.profiles
  BY DEF Backups, WellFormed, R!RestoreAllowed
<1>1. CASE b.created
  <2>1. /\ e.profiles = d.profiles \ {b.profile}
        /\ e.owner = [a \in Apps |-> IF d.owner[a] = b.profile THEN None ELSE d.owner[a]]
        /\ e.value = [d.value EXCEPT ![b.profile] = [s \in Settings |-> None]]
        /\ e = [profiles |-> e.profiles, owner |-> e.owner, value |-> e.value]
    BY <1>1 DEF R!RestoreOriginals, R!DeleteProfile
  <2> HIDE DEF e
  <2>2. e.profiles \subseteq R!Profiles /\ Global \in e.profiles
    BY <1>0, <2>1 DEF WellFormed, R!Stores
  <2>3. \A a \in Apps : e.owner[a] \in e.profiles \cup {None}
    BY <2>1 DEF WellFormed
  <2>4. e.owner \in [Apps -> R!Profiles \cup {None}]
    BY <2>1, <2>2, <2>3
  <2>5. e.value \in [R!Profiles -> [Settings -> Values \cup {None}]]
    BY <1>0, <2>1 DEF R!Stores
  <2>6. \A p \in R!Profiles \ e.profiles : e.value[p] = [s \in Settings |-> None]
    BY <1>0, <2>1 DEF WellFormed, R!Stores
  <2>7. e \in R!Stores
    BY <2>1, <2>2, <2>4, <2>5 DEF R!Stores
  <2>8. QED
    BY <2>2, <2>3, <2>6, <2>7 DEF WellFormed, e
<1>2. CASE ~b.created
  <2>1. /\ e.profiles = d.profiles
        /\ e.owner = [a \in Apps |-> IF b.apps[a] = None THEN None ELSE d.owner[a]]
        /\ e.value = [d.value EXCEPT ![b.profile] = b.settings]
        /\ e = [profiles |-> e.profiles, owner |-> e.owner, value |-> e.value]
    BY <1>0, <1>2 DEF R!RestoreOriginals, R!Stores
  <2> HIDE DEF e
  <2>2. e.profiles \subseteq R!Profiles /\ Global \in e.profiles
    BY <1>0, <2>1 DEF WellFormed, R!Stores
  <2>3. \A a \in Apps : e.owner[a] \in e.profiles \cup {None}
    BY <2>1 DEF WellFormed
  <2>4. e.owner \in [Apps -> R!Profiles \cup {None}]
    BY <2>1, <2>2, <2>3
  <2>5. e.value \in [R!Profiles -> [Settings -> Values \cup {None}]]
    BY <1>0, <2>1 DEF R!Stores
  <2>6. \A p \in R!Profiles \ e.profiles : e.value[p] = [s \in Settings |-> None]
    BY <1>0, <2>1 DEF WellFormed, R!Stores
  <2>7. e \in R!Stores
    BY <2>1, <2>2, <2>4, <2>5 DEF R!Stores
  <2>8. QED
    BY <2>2, <2>3, <2>6, <2>7 DEF WellFormed, e
<1>3. QED
  BY <1>1, <1>2

\* Two stores with the same parts are the same.
LEMMA SameStore ==
    ASSUME NEW d \in R!Stores, NEW e \in R!Stores,
           d.profiles = e.profiles,
           \A a \in Apps : d.owner[a] = e.owner[a],
           \A p \in R!Profiles : d.value[p] = e.value[p]
    PROVE  d = e
<1>1. d.owner = e.owner
  BY DEF R!Stores
<1>2. d.value = e.value
  BY DEF R!Stores
<1>3. QED
  BY <1>1, <1>2 DEF R!Stores

\* Restoring the captured store, with or without the policy, gives the
\* captured store.
LEMMA RestoreReturns ==
    ASSUME NEW d, WellFormed(d), R!CaptureAllowed(d),
           NEW b, b = R!CaptureCs2(d),
           NEW e \in {d, R!ApplyPolicy(d, b)}, R!RestoreAllowed(e, b)
    PROVE  R!RestoreOriginals(e, b) = d
<1> DEFINE p == R!FindExistingProfile(d)
           r == R!RestoreOriginals(e, b)
<1>1. b \in Backups
  BY CaptureIsBackup
<1>2. WellFormed(e)
  BY <1>1, ApplyWellFormed
<1>3. WellFormed(r)
  BY <1>1, <1>2, RestoreWellFormed
<1>4. d \in R!Stores /\ e \in R!Stores /\ r \in R!Stores
  BY <1>2, <1>3 DEF WellFormed
<1>5. /\ b.profile = (IF p = None THEN Cs2 ELSE p)
      /\ b.created = (p = None)
      /\ p # None => b.settings = d.value[p]
      /\ b.apps = d.owner
  BY DEF R!CaptureCs2
<1>6. /\ p = None => Cs2 \notin d.profiles
      /\ p # None => p \in d.profiles
      /\ \A a \in Apps : d.owner[a] \in {None, p}
      /\ b.profile \in R!Profiles /\ b.profile # None
  <2>1. p = None => Cs2 \notin d.profiles
    BY ProfilesAssumption DEF R!FindExistingProfile, R!Profiles
  <2>2. b.profile \in R!Profiles /\ b.profile # None
    BY <1>1, ProfilesAssumption DEF Backups
  <2>3. QED
    BY <2>1, <2>2, ExistingProfile DEF R!CaptureAllowed
<1>7. b.profile \in e.profiles
  BY DEF R!RestoreAllowed
<1> HIDE DEF p
<1>8. CASE e = d
  <2>1. p # None
    BY <1>5, <1>6, <1>7, <1>8
  <2>2. /\ r.profiles = d.profiles
        /\ r.owner = [a \in Apps |-> IF b.apps[a] = None THEN None ELSE d.owner[a]]
        /\ r.value = [d.value EXCEPT ![b.profile] = b.settings]
    BY <1>4, <1>5, <1>8, <2>1 DEF R!RestoreOriginals, R!Stores
  <2> HIDE DEF r
  <2>3. \A q \in R!Profiles : r.value[q] = d.value[q]
    BY <1>4, <1>5, <2>1, <2>2 DEF R!Stores
  <2>4. \A a \in Apps : r.owner[a] = d.owner[a]
    BY <1>5, <2>2
  <2>5. r = d
    BY <1>4, <2>2, <2>3, <2>4, SameStore
  <2>6. QED
    BY <2>5 DEF r
<1>9. CASE e = R!ApplyPolicy(d, b)
  <2>1. /\ e.profiles = d.profiles \cup {b.profile}
        /\ e.owner = [a \in Apps |-> b.profile]
        /\ e.value = [d.value EXCEPT ![b.profile] = [s \in Settings |-> Target]]
    BY <1>5, <1>6, <1>9 DEF R!ApplyPolicy
  <2>2. CASE p = None
    <3>1. /\ r.profiles = e.profiles \ {b.profile}
          /\ r.owner = [a \in Apps |-> IF e.owner[a] = b.profile THEN None ELSE e.owner[a]]
          /\ r.value = [e.value EXCEPT ![b.profile] = [s \in Settings |-> None]]
      BY <1>5, <2>2 DEF R!RestoreOriginals, R!DeleteProfile
    <3> HIDE DEF r
    <3>2. r.profiles = d.profiles
      BY <1>5, <1>6, <2>1, <2>2, <3>1
    <3>3. \A a \in Apps : r.owner[a] = d.owner[a]
      BY <1>6, <2>1, <2>2, <3>1
    <3>4. \A q \in R!Profiles : r.value[q] = d.value[q]
      <4>1. \A q \in R!Profiles : q # b.profile => r.value[q] = d.value[q]
        BY <1>4, <1>6, <2>1, <3>1 DEF R!Stores
      <4>2. r.value[b.profile] = [s \in Settings |-> None]
        BY <1>4, <1>6, <2>1, <3>1 DEF R!Stores
      <4>3. d.value[b.profile] = [s \in Settings |-> None]
        BY <1>5, <1>6, <2>2 DEF WellFormed
      <4>4. QED
        BY <4>1, <4>2, <4>3
    <3>5. r = d
      BY <1>4, <3>2, <3>3, <3>4, SameStore
    <3>6. QED
      BY <3>5 DEF r
  <2>3. CASE p # None
    <3>1. /\ r.profiles = e.profiles
          /\ r.owner = [a \in Apps |-> IF b.apps[a] = None THEN None ELSE e.owner[a]]
          /\ r.value = [e.value EXCEPT ![b.profile] = b.settings]
      BY <1>4, <1>5, <2>3 DEF R!RestoreOriginals, R!Stores
    <3> HIDE DEF r
    <3>2. r.profiles = d.profiles
      BY <1>5, <1>6, <2>1, <2>3, <3>1
    <3>3. \A a \in Apps : r.owner[a] = d.owner[a]
      BY <1>5, <1>6, <2>1, <2>3, <3>1
    <3>4. \A q \in R!Profiles : r.value[q] = d.value[q]
      <4>1. \A q \in R!Profiles : q # b.profile => r.value[q] = d.value[q]
        BY <1>4, <1>6, <2>1, <3>1 DEF R!Stores
      <4>2. r.value[b.profile] = b.settings
        BY <1>4, <1>6, <2>1, <3>1 DEF R!Stores
      <4>3. QED
        BY <1>5, <2>3, <4>1, <4>2
    <3>5. r = d
      BY <1>4, <3>2, <3>3, <3>4, SameStore
    <3>6. QED
      BY <3>5 DEF r
  <2>4. QED
    BY <2>2, <2>3
<1>10. QED
  BY <1>8, <1>9

\* Setting the policy a second time changes nothing.
LEMMA ApplyTwice ==
    ASSUME NEW d, WellFormed(d), NEW b, b = R!CaptureCs2(d),
           NEW e \in {d, R!ApplyPolicy(d, b)}
    PROVE  R!ApplyPolicy(e, b) = R!ApplyPolicy(d, b)
<1> DEFINE x == R!ApplyPolicy(d, b)
           y == R!ApplyPolicy(x, b)
<1>1. b \in Backups
  BY CaptureIsBackup
<1>2. WellFormed(x) /\ WellFormed(y)
  BY <1>1, ApplyWellFormed
<1>3. d \in R!Stores /\ x \in R!Stores /\ y \in R!Stores /\ b.profile \in R!Profiles
  BY <1>1, <1>2 DEF WellFormed, Backups
<1>4. /\ y.profiles = x.profiles \cup {b.profile}
      /\ y.owner = [a \in Apps |-> IF b.apps[a] = None THEN b.profile ELSE x.owner[a]]
      /\ y.value = [x.value EXCEPT ![b.profile] = [s \in Settings |-> Target]]
  BY DEF R!ApplyPolicy
<1>5. /\ x.profiles = d.profiles \cup {b.profile}
      /\ x.owner = [a \in Apps |-> IF b.apps[a] = None THEN b.profile ELSE d.owner[a]]
      /\ x.value = [d.value EXCEPT ![b.profile] = [s \in Settings |-> Target]]
  BY DEF R!ApplyPolicy
<1> HIDE DEF x, y
<1>6. y.profiles = x.profiles
  BY <1>4, <1>5
<1>7. \A a \in Apps : y.owner[a] = x.owner[a]
  BY <1>4, <1>5
<1>8. \A q \in R!Profiles : y.value[q] = x.value[q]
  BY <1>3, <1>4, <1>5 DEF R!Stores
<1>9. y = x
  BY <1>3, <1>6, <1>7, <1>8, SameStore
<1>10. QED
  BY <1>9 DEF x, y

\* What is captured of a store has one profile for each application and one
\* value for each setting.
LEMMA CustomisedIsSnapshot ==
    ASSUME NEW d, WellFormed(d)
    PROVE  SnapshotOK([profiles |-> d.profiles \ {Global}, items |-> R!Customised(d)])
<1> DEFINE A == {<<d.owner[a], "application", a>> : a \in {x \in Apps : d.owner[x] # None}}
           V == {<<p, s, d.value[p][s]>> : p \in d.profiles, s \in Settings}
           snap == [profiles |-> d.profiles \ {Global}, items |-> R!Customised(d)]
<1>1. snap.profiles = d.profiles \ {Global} /\ snap.items = {i \in A \cup V : i[3] # None}
  BY DEF R!Customised, R!ItemValues
<1>2. d \in R!Stores /\ d.profiles \subseteq R!Profiles
  BY DEF WellFormed, R!Stores
<1>3. ASSUME NEW i \in A
      PROVE  \E p \in snap.profiles \cup {Global}, a \in Apps :
                i = <<p, "application", a>> /\ p = d.owner[a]
  <2>1. PICK a \in Apps : d.owner[a] # None /\ i = <<d.owner[a], "application", a>>
    OBVIOUS
  <2>2. d.owner[a] \in snap.profiles \cup {Global}
    BY <1>1, <2>1 DEF WellFormed
  <2>3. QED
    BY <2>1, <2>2
<1>4. ASSUME NEW i \in V
      PROVE  \E p \in snap.profiles \cup {Global}, s \in Settings, v \in Values \cup {None} :
                i = <<p, s, v>> /\ v = d.value[p][s]
  <2>1. PICK p \in d.profiles, s \in Settings : i = <<p, s, d.value[p][s]>>
    OBVIOUS
  <2>2. d.value[p][s] \in Values \cup {None}
    BY <1>2 DEF R!Stores
  <2>3. QED
    BY <1>1, <2>1, <2>2
<1> HIDE DEF A, V, snap
<1>5. \A i \in snap.items : i[2] = "application" <=> i \in A
  <2>1. \A i \in A : i[2] = "application"
    BY <1>3
  <2>2. \A i \in V : i[2] # "application"
    BY <1>4, ProfilesAssumption
  <2>3. QED
    BY <1>1, <2>1, <2>2
<1>6. \A i, j \in A : i[3] = j[3] => i = j
  BY <1>3
<1>7. \A i, j \in V : i[1] = j[1] /\ i[2] = j[2] => i = j
  BY <1>4
<1>8. ASSUME NEW i \in snap.items, NEW j \in snap.items,
             i[2] = "application", j[2] = "application", i[3] = j[3]
      PROVE  i = j
  BY <1>5, <1>6, <1>8
<1>9. ASSUME NEW i \in snap.items, NEW j \in snap.items,
             i[2] # "application", i[1] = j[1], i[2] = j[2]
      PROVE  i = j
  BY <1>1, <1>5, <1>7, <1>9
<1>10. ASSUME NEW i \in snap.items
       PROVE  \/ \E p \in snap.profiles \cup {Global}, a \in Apps : i = <<p, "application", a>>
              \/ \E p \in snap.profiles \cup {Global}, s \in Settings, v \in Values \cup {None} :
                    i = <<p, s, v>>
  BY <1>1, <1>3, <1>4
<1>11. SnapshotOK(snap)
  BY <1>1, <1>2, <1>8, <1>9, <1>10 DEF SnapshotOK
<1>12. QED
  BY <1>11 DEF snap

\* The items of a snapshot that are applications, and the ones that are
\* settings, after the driver has refused some.
AppItems(snap, refused) == {i \in snap.items \ refused : i[2] = "application"}
SettingItems(snap, refused) == {i \in snap.items \ refused : i[2] # "application"}

\* The parts of a merged store.
LEMMA MergedParts ==
    ASSUME NEW d, NEW snap, NEW refused
    PROVE  LET m == R!Merged(d, snap, refused)
               A == AppItems(snap, refused)
               V == SettingItems(snap, refused)
           IN  /\ m = [profiles |-> m.profiles, owner |-> m.owner, value |-> m.value]
               /\ m.profiles = d.profiles \cup snap.profiles
               /\ m.owner = [a \in Apps |->
                      IF d.owner[a] = None /\ \E i \in A : i[3] = a
                      THEN (CHOOSE i \in A : i[3] = a)[1] ELSE d.owner[a]]
               /\ m.value = [p \in R!Profiles |-> [s \in Settings |->
                      IF \E i \in V : i[1] = p /\ i[2] = s
                      THEN (CHOOSE i \in V : i[1] = p /\ i[2] = s)[3] ELSE d.value[p][s]]]
  BY DEF R!Merged, AppItems, SettingItems

\* What the items of a snapshot look like.
LEMMA SnapshotItems ==
    ASSUME NEW snap, SnapshotOK(snap), NEW refused
    PROVE  /\ \A i \in AppItems(snap, refused) :
                 /\ i[1] \in snap.profiles \cup {Global} /\ i[3] \in Apps
                 /\ i = <<i[1], "application", i[3]>>
           /\ \A i \in SettingItems(snap, refused) :
                 /\ i[1] \in snap.profiles \cup {Global} /\ i[2] \in Settings
                 /\ i[3] \in Values \cup {None}
                 /\ i = <<i[1], i[2], i[3]>>
<1>1. ASSUME NEW i \in AppItems(snap, refused)
      PROVE  /\ i[1] \in snap.profiles \cup {Global} /\ i[3] \in Apps
             /\ i = <<i[1], "application", i[3]>>
  <2>1. i \in snap.items /\ i[2] = "application"
    BY DEF AppItems
  <2>2. \/ \E p \in snap.profiles \cup {Global}, a \in Apps : i = <<p, "application", a>>
        \/ \E p \in snap.profiles \cup {Global}, s \in Settings, v \in Values \cup {None} :
              i = <<p, s, v>>
    BY <2>1 DEF SnapshotOK
  <2>3. QED
    BY <2>1, <2>2, ProfilesAssumption
<1>2. ASSUME NEW i \in SettingItems(snap, refused)
      PROVE  /\ i[1] \in snap.profiles \cup {Global} /\ i[2] \in Settings
             /\ i[3] \in Values \cup {None}
             /\ i = <<i[1], i[2], i[3]>>
  <2>1. i \in snap.items /\ i[2] # "application"
    BY DEF SettingItems
  <2>2. \/ \E p \in snap.profiles \cup {Global}, a \in Apps : i = <<p, "application", a>>
        \/ \E p \in snap.profiles \cup {Global}, s \in Settings, v \in Values \cup {None} :
              i = <<p, s, v>>
    BY <2>1 DEF SnapshotOK
  <2>3. QED
    BY <2>1, <2>2
<1>3. QED
  BY <1>1, <1>2

\* A merge keeps a store well formed.
LEMMA MergedWellFormed ==
    ASSUME NEW d, WellFormed(d), NEW snap, SnapshotOK(snap), NEW refused
    PROVE  WellFormed(R!Merged(d, snap, refused))
<1> DEFINE m == R!Merged(d, snap, refused)
           A == AppItems(snap, refused)
           V == SettingItems(snap, refused)
<1>1. /\ m = [profiles |-> m.profiles, owner |-> m.owner, value |-> m.value]
      /\ m.profiles = d.profiles \cup snap.profiles
      /\ m.owner = [a \in Apps |->
             IF d.owner[a] = None /\ \E i \in A : i[3] = a
             THEN (CHOOSE i \in A : i[3] = a)[1] ELSE d.owner[a]]
      /\ m.value = [p \in R!Profiles |-> [s \in Settings |->
             IF \E i \in V : i[1] = p /\ i[2] = s
             THEN (CHOOSE i \in V : i[1] = p /\ i[2] = s)[3] ELSE d.value[p][s]]]
  BY MergedParts
<1>2. /\ \A i \in A : i[1] \in snap.profiles \cup {Global}
      /\ \A i \in V : i[1] \in snap.profiles \cup {Global} /\ i[3] \in Values \cup {None}
  BY SnapshotItems
<1> HIDE DEF m, A, V
<1>3. /\ d \in R!Stores /\ d.profiles \subseteq R!Profiles /\ Global \in d.profiles
      /\ snap.profiles \subseteq R!Profiles
  BY DEF WellFormed, R!Stores, SnapshotOK
<1>4. m.profiles \subseteq R!Profiles /\ Global \in m.profiles
  BY <1>1, <1>3
<1>5. ASSUME NEW a \in Apps PROVE m.owner[a] \in m.profiles \cup {None}
  <2>1. CASE d.owner[a] = None /\ \E i \in A : i[3] = a
    <3>1. (CHOOSE i \in A : i[3] = a) \in A
      BY <2>1
    <3>2. QED
      BY <1>1, <1>2, <1>3, <2>1, <3>1
  <2>2. CASE ~(d.owner[a] = None /\ \E i \in A : i[3] = a)
    BY <1>1, <2>2 DEF WellFormed
  <2>3. QED
    BY <2>1, <2>2
<1>6. m.owner \in [Apps -> R!Profiles \cup {None}]
  BY <1>1, <1>4, <1>5
<1>7. ASSUME NEW p \in R!Profiles, NEW s \in Settings
      PROVE  /\ m.value[p][s] \in Values \cup {None}
             /\ p \notin m.profiles => m.value[p][s] = None
  <2>1. CASE \E i \in V : i[1] = p /\ i[2] = s
    <3> DEFINE c == CHOOSE i \in V : i[1] = p /\ i[2] = s
    <3>1. c \in V /\ c[1] = p
      BY <2>1
    <3>2. m.value[p][s] = c[3]
      BY <1>1, <2>1
    <3>3. p \in m.profiles
      BY <1>1, <1>2, <1>3, <3>1
    <3>4. QED
      BY <1>2, <3>1, <3>2, <3>3
  <2>2. CASE ~\E i \in V : i[1] = p /\ i[2] = s
    <3>1. m.value[p][s] = d.value[p][s]
      BY <1>1, <2>2
    <3>2. QED
      BY <1>1, <1>3, <3>1 DEF WellFormed, R!Stores
  <2>3. QED
    BY <2>1, <2>2
<1>8. m.value \in [R!Profiles -> [Settings -> Values \cup {None}]]
  <2>1. \A p \in R!Profiles : m.value[p] \in [Settings -> Values \cup {None}]
    BY <1>1, <1>7
  <2>2. QED
    BY <1>1, <2>1
<1>9. \A p \in R!Profiles \ m.profiles : m.value[p] = [s \in Settings |-> None]
  BY <1>1, <1>7
<1>10. m \in R!Stores
  BY <1>1, <1>4, <1>6, <1>8 DEF R!Stores
<1>11. WellFormed(m)
  BY <1>4, <1>5, <1>9, <1>10 DEF WellFormed
<1>12. QED
  BY <1>11 DEF m

\* A merge puts every item of the snapshot into the store or reports it.
LEMMA MergeAccounts ==
    ASSUME NEW d, WellFormed(d), NEW snap, SnapshotOK(snap), NEW refused
    PROVE  snap.items \subseteq
               R!Customised(R!Merged(d, snap, refused)) \cup R!NotMerged(d, snap, refused)
<1> DEFINE m == R!Merged(d, snap, refused)
           A == AppItems(snap, refused)
           V == SettingItems(snap, refused)
<1> SUFFICES ASSUME NEW i \in snap.items, i \notin R!NotMerged(d, snap, refused)
             PROVE  i \in R!Customised(m)
  OBVIOUS
<1>1. /\ m.profiles = d.profiles \cup snap.profiles
      /\ m.owner = [a \in Apps |->
             IF d.owner[a] = None /\ \E j \in A : j[3] = a
             THEN (CHOOSE j \in A : j[3] = a)[1] ELSE d.owner[a]]
      /\ m.value = [p \in R!Profiles |-> [s \in Settings |->
             IF \E j \in V : j[1] = p /\ j[2] = s
             THEN (CHOOSE j \in V : j[1] = p /\ j[2] = s)[3] ELSE d.value[p][s]]]
  BY MergedParts
<1>2. /\ i[3] # None
      /\ i[2] = "application" => /\ i[1] \in snap.profiles \cup {Global} /\ i[3] \in Apps
                                 /\ i = <<i[1], "application", i[3]>>
      /\ i[2] # "application" => /\ i[1] \in snap.profiles \cup {Global} /\ i[2] \in Settings
                                 /\ i = <<i[1], i[2], i[3]>>
  <2>1. i[3] # None
    BY DEF SnapshotOK
  <2>2. i[2] = "application" => i \in AppItems(snap, {})
    BY DEF AppItems
  <2>3. i[2] # "application" => i \in SettingItems(snap, {})
    BY DEF SettingItems
  <2>4. QED
    BY <2>1, <2>2, <2>3, SnapshotItems
<1>3. /\ Global \in d.profiles /\ snap.profiles \subseteq R!Profiles
      /\ d.profiles \subseteq R!Profiles /\ None \notin R!Profiles
  BY ProfilesAssumption DEF WellFormed, R!Stores, SnapshotOK
<1>4. CASE i[2] = "application"
  <2> DEFINE a == i[3]
  <2>1. d.owner[a] = i[1] \/ (d.owner[a] = None /\ i \notin refused)
    BY <1>4 DEF R!NotMerged
  <2>2. i[1] # None
    BY <1>2, <1>3, <1>4
  <2>3. m.owner[a] = i[1]
    <3>1. CASE d.owner[a] = i[1]
      BY <1>1, <1>2, <1>4, <2>2, <3>1
    <3>2. CASE d.owner[a] = None /\ i \notin refused
      <4>1. i \in A
        BY <1>4, <3>2 DEF AppItems
      <4> DEFINE c == CHOOSE j \in A : j[3] = a
      <4>2. c \in A /\ c[3] = a
        BY <4>1
      <4>3. c \in snap.items /\ c[2] = "application"
        BY <4>2 DEF AppItems
      <4>4. c = i
        BY <1>4, <4>2, <4>3 DEF SnapshotOK
      <4>5. m.owner[a] = c[1]
        BY <1>1, <1>2, <1>4, <3>2, <4>1
      <4>6. QED
        BY <4>4, <4>5
    <3>3. QED
      BY <2>1, <3>1, <3>2
  <2>4. i = <<m.owner[a], "application", a>> /\ a \in {x \in Apps : m.owner[x] # None}
    BY <1>2, <1>4, <2>2, <2>3
  <2>5. QED
    BY <1>2, <2>4 DEF R!Customised, R!ItemValues
<1>5. CASE i[2] # "application"
  <2> DEFINE p == i[1]
             s == i[2]
  <2>1. i \notin refused
    BY <1>5 DEF R!NotMerged
  <2>2. i \in V
    BY <1>5, <2>1 DEF SettingItems
  <2> DEFINE c == CHOOSE j \in V : j[1] = p /\ j[2] = s
  <2>3. c \in V /\ c[1] = p /\ c[2] = s
    BY <2>2
  <2>4. c = i
    <3>1. c \in snap.items
      BY <2>3 DEF SettingItems
    <3>2. QED
      BY <1>5, <2>3, <3>1 DEF SnapshotOK
  <2>5. p \in m.profiles /\ p \in R!Profiles /\ s \in Settings
    BY <1>1, <1>2, <1>3, <1>5
  <2>6. m.value[p][s] = c[3]
    BY <1>1, <2>2, <2>5
  <2>7. i = <<p, s, m.value[p][s]>>
    BY <1>2, <1>5, <2>4, <2>6
  <2>8. QED
    BY <1>2, <2>5, <2>7 DEF R!Customised, R!ItemValues
<1>6. QED
  BY <1>4, <1>5

\* A user's change keeps a store well formed.
LEMMA EditWellFormed ==
    ASSUME NEW d, WellFormed(d), NEW e,
           \/ \E p \in R!Profiles \ d.profiles : e = [d EXCEPT !.profiles = @ \cup {p}]
           \/ \E p \in R!Profiles, a \in Apps :
                 e = [d EXCEPT !.profiles = @ \cup {p}, !.owner[a] = p]
           \/ \E p \in d.profiles, s \in Settings, v \in Values :
                 e = [d EXCEPT !.value[p][s] = v]
    PROVE  WellFormed(e)
<1>1. d \in R!Stores /\ d.profiles \subseteq R!Profiles /\ Global \in d.profiles
  BY DEF WellFormed, R!Stores
<1>2. ASSUME NEW p \in R!Profiles \ d.profiles, e = [d EXCEPT !.profiles = @ \cup {p}]
      PROVE  WellFormed(e)
  <2>1. e \in R!Stores /\ e.profiles = d.profiles \cup {p} /\ e.owner = d.owner
        /\ e.value = d.value
    BY <1>1, <1>2 DEF R!Stores
  <2>2. QED
    BY <1>1, <2>1 DEF WellFormed
<1>3. ASSUME NEW p \in R!Profiles, NEW a \in Apps,
             e = [d EXCEPT !.profiles = @ \cup {p}, !.owner[a] = p]
      PROVE  WellFormed(e)
  <2>1. e \in R!Stores /\ e.profiles = d.profiles \cup {p}
        /\ e.owner = [d.owner EXCEPT ![a] = p] /\ e.value = d.value
    BY <1>1, <1>3 DEF R!Stores
  <2>2. \A b \in Apps : e.owner[b] \in e.profiles \cup {None}
    BY <1>1, <2>1 DEF WellFormed, R!Stores
  <2>3. QED
    BY <1>1, <2>1, <2>2 DEF WellFormed
<1>4. ASSUME NEW p \in d.profiles, NEW s \in Settings, NEW v \in Values,
             e = [d EXCEPT !.value[p][s] = v]
      PROVE  WellFormed(e)
  <2>1. /\ e.profiles = d.profiles /\ e.owner = d.owner
        /\ e.value = [d.value EXCEPT ![p] = [d.value[p] EXCEPT ![s] = v]]
        /\ e = [profiles |-> e.profiles, owner |-> e.owner, value |-> e.value]
    BY <1>1, <1>4 DEF R!Stores
  <2>2. e.value \in [R!Profiles -> [Settings -> Values \cup {None}]]
    <3>1. d.value \in [R!Profiles -> [Settings -> Values \cup {None}]]
      BY <1>1 DEF R!Stores
    <3>2. d.value[p] \in [Settings -> Values \cup {None}]
      BY <1>1, <3>1
    <3>3. [d.value[p] EXCEPT ![s] = v] \in [Settings -> Values \cup {None}]
      BY <3>2
    <3>4. QED
      BY <2>1, <3>1, <3>3
  <2>3. \A q \in R!Profiles \ e.profiles : e.value[q] = [t \in Settings |-> None]
    BY <1>1, <2>1 DEF WellFormed, R!Stores
  <2>4. e \in R!Stores
    BY <1>1, <2>1, <2>2 DEF R!Stores
  <2>5. QED
    BY <1>1, <2>1, <2>3, <2>4 DEF WellFormed
<1>5. QED
  BY <1>2, <1>3, <1>4

\* What the invariant says of the next state.
LEMMA ProfilePrimes ==
    /\ (WellFormed(saved))' <=> WellFormed(saved')
    /\ (WellFormed(session))' <=> WellFormed(session')
    /\ (WellFormed(before.store))' <=> WellFormed(before'.store)
    /\ (R!CaptureAllowed(before.store))' <=> R!CaptureAllowed(before'.store)
    /\ (R!CaptureCs2(before.store))' = R!CaptureCs2(before'.store)
    /\ (R!ApplyPolicy(before.store, backup))' = R!ApplyPolicy(before'.store, backup')
    /\ (SnapshotOK(snapshot))' <=> SnapshotOK(snapshot')
    /\ (R!Customised(IF session # None THEN session ELSE saved))'
          = R!Customised(IF session' # None THEN session' ELSE saved')
    /\ Backups' = Backups /\ (R!Stores)' = R!Stores
<1>1. (WellFormed(saved))' <=> WellFormed(saved')
  BY DEF WellFormed, R!Stores, R!Profiles
<1>2. (WellFormed(session))' <=> WellFormed(session')
  BY DEF WellFormed, R!Stores, R!Profiles
<1>3. (WellFormed(before.store))' <=> WellFormed(before'.store)
  BY DEF WellFormed, R!Stores, R!Profiles
<1>4. (R!CaptureAllowed(before.store))' <=> R!CaptureAllowed(before'.store)
  BY DEF R!CaptureAllowed, R!FindExistingProfile
<1>5. (R!CaptureCs2(before.store))' = R!CaptureCs2(before'.store)
  BY DEF R!CaptureCs2, R!FindExistingProfile
<1>6. (R!ApplyPolicy(before.store, backup))' = R!ApplyPolicy(before'.store, backup')
  BY DEF R!ApplyPolicy
<1>7. (SnapshotOK(snapshot))' <=> SnapshotOK(snapshot')
  BY DEF SnapshotOK, R!Profiles
<1>8. (R!Customised(IF session # None THEN session ELSE saved))'
          = R!Customised(IF session' # None THEN session' ELSE saved')
  BY DEF R!Customised, R!ItemValues
<1>9. Backups' = Backups /\ (R!Stores)' = R!Stores
  BY DEF Backups, R!Stores, R!Profiles
<1>10. QED
  BY <1>1, <1>2, <1>3, <1>4, <1>5, <1>6, <1>7, <1>8, <1>9

\* No session is open at the start, and nothing is known of the store before.
LEMMA ProfileInit == R!Init => ProfileInv
<1> SUFFICES ASSUME R!Init PROVE ProfileInv
  OBVIOUS
<1>1. before \in [store : R!Stores, intact : BOOLEAN] /\ ~before.intact
  BY FreshWellFormed DEF R!Init, R!Unknown, WellFormed
<1>2. drsEdits \in 0 .. MaxEdits /\ drsStops \in 0 .. MaxStops
  BY StopsAssumption DEF R!Init
<1>3. ProfileTypes
  BY <1>1, <1>2, FreshWellFormed DEF R!Init, R!Idle, ProfileTypes
<1>4. IntactInv /\ MergeInv
  BY <1>1 DEF R!Init, R!Idle, IntactInv, MergeInv
<1>5. QED
  BY <1>3, <1>4 DEF ProfileInv

\* A capture records every original and remembers the store as it was.
LEMMA CaptureProfileInv ==
    ASSUME ProfileInv, R!Capture
    PROVE  ProfileInv'
<1> USE ProfilePrimes DEF R!Capture, R!Idle, ProfileInv
<1>1. before' = [store |-> saved, intact |-> TRUE] /\ before'.store = saved
  OBVIOUS
<1>2. WellFormed(saved) /\ saved \in R!Stores
  BY DEF ProfileTypes, WellFormed
<1>3. ProfileTypes'
  BY <1>1, <1>2, CaptureIsBackup DEF ProfileTypes
<1>4. IntactInv'
  BY <1>1, <1>2 DEF IntactInv
<1>5. MergeInv'
  BY DEF MergeInv
<1>6. QED
  BY <1>3, <1>4, <1>5

\* Applying the profile writes to the session alone.
LEMMA ApplyProfileInv ==
    ASSUME ProfileInv, R!Apply
    PROVE  ProfileInv'
<1> USE ProfilePrimes DEF R!Apply, R!Idle, ProfileInv
<1>1. WellFormed(saved) /\ backup \in Backups
  BY DEF ProfileTypes
<1>2. WellFormed(session')
  BY <1>1, ApplyWellFormed
<1>3. ProfileTypes'
  BY <1>1, <1>2 DEF ProfileTypes
<1>4. IntactInv'
  <2>1. SUFFICES ASSUME before.intact
                 PROVE  session' = R!ApplyPolicy(before.store, backup)
    BY DEF IntactInv
  <2>2. QED
    BY <2>1, ApplyTwice DEF IntactInv
<1>5. MergeInv'
  BY DEF MergeInv
<1>6. QED
  BY <1>3, <1>4, <1>5

\* A restore rebuilds the session from the saved store and the originals.
LEMMA RestoreProfileInv ==
    ASSUME ProfileInv, R!Restore
    PROVE  ProfileInv'
<1> USE ProfilePrimes DEF R!Restore, R!Idle, ProfileInv
<1>1. WellFormed(saved) /\ backup \in Backups
  BY DEF ProfileTypes
<1>2. WellFormed(session')
  BY <1>1, RestoreWellFormed
<1>3. session' # None
  BY <1>2, ProfilesAssumption DEF WellFormed
<1>4. ProfileTypes'
  BY <1>1, <1>2 DEF ProfileTypes
<1>5. IntactInv'
  <2>1. SUFFICES ASSUME before.intact
                 PROVE  session' = before.store
    BY <1>3 DEF IntactInv
  <2>2. QED
    BY <2>1, RestoreReturns DEF IntactInv
<1>6. MergeInv'
  BY DEF MergeInv
<1>7. QED
  BY <1>4, <1>5, <1>6

\* What is saved is the session, whose difference from the store the backup tells.
LEMMA SaveProfileInv ==
    ASSUME ProfileInv, R!SaveSettings
    PROVE  ProfileInv'
<1> USE ProfilePrimes DEF R!SaveSettings, ProfileInv
<1>1. WellFormed(saved') /\ drsOp \in {"apply", "restore", "merge"}
  BY DEF ProfileTypes
<1>2. before' \in [store : R!Stores, intact : BOOLEAN]
  <2>1. R!Unknown \in [store : R!Stores, intact : BOOLEAN]
    BY FreshWellFormed DEF R!Unknown, WellFormed
  <2>2. QED
    BY <2>1 DEF ProfileTypes
<1>3. ProfileTypes'
  BY <1>1, <1>2 DEF ProfileTypes
<1>4. IntactInv'
  <2>1. CASE drsOp = "merge"
    <3>1. ~before'.intact
      BY <2>1 DEF R!Unknown
    <3>2. QED
      BY <3>1 DEF IntactInv
  <2>2. CASE drsOp \in {"apply", "restore"}
    BY <2>2 DEF IntactInv
  <2>3. QED
    BY <1>1, <2>1, <2>2
<1>5. MergeInv'
  BY DEF MergeInv
<1>6. QED
  BY <1>3, <1>4, <1>5

\* The end of a command forgets the captured store only with its backup.
LEMMA FinishProfileInv ==
    ASSUME ProfileInv, R!FinishApply \/ R!FinishRestore \/ R!FinishMerge
    PROVE  ProfileInv'
<1> USE ProfilePrimes DEF R!FinishApply, R!FinishRestore, R!FinishMerge, R!Idle, ProfileInv
<1>1. before' \in [store : R!Stores, intact : BOOLEAN] /\ (before' = before \/ ~before'.intact)
      /\ (before' = before => backup' = backup \/ ~before.intact)
  <2>1. R!Unknown \in [store : R!Stores, intact : BOOLEAN] /\ ~R!Unknown.intact
    BY FreshWellFormed DEF R!Unknown, WellFormed
  <2>2. QED
    BY <2>1 DEF ProfileTypes
<1>2. ProfileTypes'
  BY <1>1 DEF ProfileTypes
<1>3. IntactInv'
  BY <1>1 DEF IntactInv
<1>4. MergeInv'
  BY DEF MergeInv
<1>5. QED
  BY <1>2, <1>3, <1>4

\* The customised records are those of the saved store.
LEMMA SnapshotProfileInv ==
    ASSUME ProfileInv, R!CaptureCustomised
    PROVE  ProfileInv'
<1> USE ProfilePrimes DEF R!CaptureCustomised, R!Idle, ProfileInv
<1>1. SnapshotOK(snapshot')
  BY CustomisedIsSnapshot DEF ProfileTypes
<1>2. ProfileTypes'
  BY <1>1 DEF ProfileTypes
<1>3. IntactInv'
  BY DEF IntactInv
<1>4. MergeInv'
  BY DEF MergeInv
<1>5. QED
  BY <1>2, <1>3, <1>4

\* What the driver refuses in a merge is reported.
LEMMA MergeProfileInv ==
    ASSUME ProfileInv, R!MergeCustomised
    PROVE  ProfileInv'
<1> USE ProfilePrimes DEF R!MergeCustomised, R!Idle, ProfileInv
<1>1. PICK refused \in SUBSET snapshot.items :
          /\ session' = R!Merged(saved, snapshot, refused)
          /\ reported' = R!NotMerged(saved, snapshot, refused)
  OBVIOUS
<1>2. WellFormed(saved) /\ SnapshotOK(snapshot)
  BY DEF ProfileTypes
<1>3. WellFormed(session') /\ session' # None
  BY <1>1, <1>2, MergedWellFormed, ProfilesAssumption DEF WellFormed
<1>4. ProfileTypes'
  BY <1>2, <1>3 DEF ProfileTypes
<1>5. IntactInv'
  BY DEF IntactInv
<1>6. MergeInv'
  BY <1>1, <1>2, <1>3, MergeAccounts DEF MergeInv
<1>7. QED
  BY <1>4, <1>5, <1>6

\* A stop, the user and a new driver.
LEMMA ProfileEnvironmentInv ==
    ASSUME ProfileInv, R!Stop \/ R!UserEdit \/ R!Reinstall
    PROVE  ProfileInv'
<1> USE ProfilePrimes DEF R!Stop, R!UserEdit, R!Reinstall, R!Idle, ProfileInv
<1>1. R!Unknown \in [store : R!Stores, intact : BOOLEAN] /\ ~R!Unknown.intact
  BY FreshWellFormed DEF R!Unknown, WellFormed
<1>2. WellFormed(saved')
  <2>1. CASE R!Stop
    BY <2>1 DEF ProfileTypes
  <2>2. CASE R!UserEdit
    BY <2>2, EditWellFormed DEF ProfileTypes
  <2>3. CASE R!Reinstall
    BY <2>3, FreshWellFormed
  <2>4. QED
    BY <2>1, <2>2, <2>3
<1>3. drsEdits' \in 0 .. MaxEdits /\ drsStops' \in 0 .. MaxStops
  <2>1. drsEdits' = drsEdits \/ (drsEdits < MaxEdits /\ drsEdits' = drsEdits + 1)
    OBVIOUS
  <2>2. drsStops' = drsStops \/ (drsStops < MaxStops /\ drsStops' = drsStops + 1)
    OBVIOUS
  <2>3. drsEdits \in 0 .. MaxEdits /\ drsStops \in 0 .. MaxStops
    BY DEF ProfileTypes
  <2> HIDE ProfilePrimes DEF R!Stop, R!UserEdit, R!Reinstall, R!Idle, ProfileInv
  <2>4. QED
    BY ONLY <2>1, <2>2, <2>3, StopsAssumption
<1>4. ProfileTypes'
  BY <1>1, <1>2, <1>3 DEF ProfileTypes
<1>5. IntactInv'
  <2>1. CASE R!Stop
    BY <2>1 DEF IntactInv
  <2>2. CASE R!UserEdit \/ R!Reinstall
    BY <1>1, <2>2 DEF IntactInv
  <2>3. QED
    BY <2>1, <2>2
<1>6. MergeInv'
  BY DEF MergeInv
<1>7. QED
  BY <1>4, <1>5, <1>6

\* Every step on the driver profiles keeps their invariant.
LEMMA ProfileStep ==
    ASSUME ProfileInv, R!Next \/ UNCHANGED profileVars
    PROVE  ProfileInv'
<1>1. CASE UNCHANGED profileVars
  BY <1>1, ProfilePrimes DEF profileVars, ProfileInv, ProfileTypes, IntactInv, MergeInv
<1>2. QED
  BY <1>1, CaptureProfileInv, ApplyProfileInv, RestoreProfileInv, SaveProfileInv,
     FinishProfileInv, SnapshotProfileInv, MergeProfileInv, ProfileEnvironmentInv DEF R!Next

-----------------------------------------------------------------------------
(* The subsystem *)

\* The three parts keep their invariants side by side.
SystemInv == Inv /\ PackageInv /\ ProfileInv

\* The invariants of the three parts hold at the start.
LEMMA SystemInit == PartsInit => SystemInv
  BY InvInit, PackageInit, ProfileInit DEF PartsInit, SystemInv

\* A step is one of a part that leaves the others alone.
LEMMA SystemParts ==
    ASSUME [PartsNext]_allVars
    PROVE  /\ [Next]_vars
           /\ P!Next \/ UNCHANGED packageVars
           /\ R!Next \/ UNCHANGED profileVars
  BY DEF PartsNext, allVars

\* A step of one part keeps the invariants of all three.
LEMMA SystemStep ==
    ASSUME SystemInv, [PartsNext]_allVars
    PROVE  SystemInv'
<1>1. Inv'
  BY SystemParts, InvStep DEF SystemInv
<1>2. PackageInv'
  BY SystemParts, PackageStep DEF SystemInv
<1>3. ProfileInv'
  BY SystemParts, ProfileStep DEF SystemInv
<1>4. QED
  BY <1>1, <1>2, <1>3 DEF SystemInv

\* The invariant holds in every reachable state of the subsystem.
THEOREM SystemInvariant == PartsSpec => []SystemInv
<1>1. PartsInit => SystemInv
  BY SystemInit
<1>2. SystemInv /\ [PartsNext]_allVars => SystemInv'
  BY SystemStep
<1>3. QED
  BY <1>1, <1>2, PTL DEF PartsSpec

\* The transaction, the package and the driver profiles keep their types, for
\* any catalog, any installers and any bounds.
THEOREM PartsTypeCorrect == PartsSpec => []PartsTypeOK
<1>1. ProfileInv => R!TypeOK
  BY DEF ProfileInv, ProfileTypes, WellFormed, R!TypeOK
<1>2. SystemInv => PartsTypeOK
  BY <1>1 DEF SystemInv, Inv, PackageInv, PartsTypeOK
<1>3. QED
  BY <1>2, SystemInvariant, PTL

\* The prepared package that passes its check is, file for file, the selected
\* part of an installer with a good signature: no stop, leftover or damage
\* makes another package pass.
THEOREM PackageIsFaithful == PartsSpec => []PackageFaithful
<1>1. SystemInv => PackageFaithful
  BY DEF SystemInv, PackageInv, PreparedInv, Expected, PackageFaithful, P!PackageFaithful,
         P!VerifyPackage
<1>2. QED
  BY <1>1, SystemInvariant, PTL

\* The recorded selection contains the required components, is closed under
\* their dependencies and holds nothing that was deselected or not asked for
\* but what these need, for every catalog.
THEOREM SelectionIsSound == PartsSpec => []SelectionSound
<1>1. SystemInv => SelectionSound
  BY DEF SystemInv, PackageInv, PreparedInv, Sound, Closed, SelectionSound, P!SelectionSound
<1>2. QED
  BY <1>1, SystemInvariant, PTL

\* What a restore that succeeds leaves behind.
RestoredExactly == R!FinishRestore /\ backup' = None /\ before.intact => saved = before.store

\* A restore of the CS2 profile that succeeds gives back the whole store as it
\* was captured, after any number of applies, stops and retries, if nobody
\* else changed it.
THEOREM RestoreIsExact == PartsSpec => RestoreExact
<1>1. SystemInv /\ [PartsNext]_allVars => [RestoredExactly]_(R!vars)
  <2>1. SUFFICES ASSUME SystemInv, R!FinishRestore, before.intact
                 PROVE  saved = before.store
    BY DEF RestoredExactly
  <2>2. QED
    BY <2>1 DEF SystemInv, ProfileInv, IntactInv, R!FinishRestore
<1>2. QED
  BY <1>1, SystemInvariant, PTL DEF PartsSpec, RestoreExact, R!RestoreExact, RestoredExactly

\* What a merge that ends has accounted for.
AllAccounted == R!FinishMerge => snapshot.items \subseteq R!Customised(saved) \cup reported

\* When a merge ends, every customised item of the removed driver is in the
\* new store or reported, whatever the driver refused.
THEOREM MergeIsAccounted == PartsSpec => MergeAccounted
<1>1. SystemInv /\ [PartsNext]_allVars => [AllAccounted]_(R!vars)
  BY DEF AllAccounted, SystemInv, ProfileInv, MergeInv, R!FinishMerge
<1>2. QED
  BY <1>1, SystemInvariant, PTL DEF PartsSpec, MergeAccounted, R!MergeAccounted, AllAccounted
=============================================================================
