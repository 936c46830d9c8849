------------------------- MODULE ApplicationProofs -------------------------
(***************************************************************************)
(* What Driver Foundry's install pipeline and cleanup planner, the         *)
(* benchmark files and the window guarantee, for any catalog, selection,   *)
(* package and capture, and for any number of runs, interruptions and      *)
(* steps of other programs; and the type correctness of all the parts.     *)
(***************************************************************************)
EXTENDS SettingsProofs, FilesProofs

(* The install pipeline of Driver Foundry *)

\* A selection is resolved: all that is required, and all that its optional
\* components need.
Resolved(T) ==
    /\ Required \subseteq T /\ T \subseteq Components
    /\ \A c \in T \ Required : Depends[c] \subseteq T

\* The tree that a run has prepared so far holds resolved components only, and
\* none that came through a link.
TreeInv ==
    /\ Resolved(run.resolved)
    /\ DOMAIN copied = kept /\ kept \subseteq run.resolved
    /\ stripped \cap run.resolved = {}
    /\ \A c \in kept : copied[c] # "link"

InstallInv ==
    /\ I!TypeOK
    /\ pc # "idle" => TreeInv
    /\ pc \notin {"idle", "acquire", "uninstall", "filter", "copy"} => Required \subseteq kept

\* What ResolveSelection returns is resolved.
LEMMA SelectionResolved ==
    ASSUME I!CatalogValid, NEW req
    PROVE  Resolved(I!ResolveSelection(req))
<1> DEFINE chosen == (I!CreateSelection(req.preset) \cup req.choice[1]) \ req.choice[2]
           T == (chosen \cap Components) \ Required
           R == Reachable(Components, Depends, T)
<1>1. I!Closure(T) = R
  <2>1. I!Cardinality(Components) = Cardinality(Components)
    BY DEF I!Cardinality, Cardinality
  <2>2. QED
    BY <2>1 DEF I!Closure, I!Reachable, Reachable, I!Grow, Grow
<1>2. I!ResolveSelection(req) = Required \cup R
  BY <1>1 DEF I!ResolveSelection, I!ResolveWithDeps
<1>3. T \subseteq Components /\ \A c \in Components : Depends[c] \subseteq Components
  BY DEF I!CatalogValid
<1> HIDE DEF T
<1>4. R \subseteq Components /\ Closed(Depends, R)
  BY <1>3, ReachableClosed, InstallAssumption
<1> HIDE DEF R
<1>5. QED
  BY <1>2, <1>4, InstallAssumption DEF Resolved, Closed

\* The invariant holds at the start.
LEMMA InstallInit == I!Init => InstallInv
  BY DEF I!Init, InstallInv, I!TypeOK

\* A run starts with an empty tree and a resolved selection.
LEMMA PrepareInv ==
    ASSUME InstallInv, I!Prepare
    PROVE  InstallInv'
<1>1. copied' = <<>> /\ kept' = {} /\ stripped' = {} /\ pc = "idle" /\ DOMAIN copied' = {}
  BY DEF I!Prepare
<1>2. PICK req : \/ /\ I!CatalogValid
                    /\ run'.resolved = I!ResolveSelection(req)
                    /\ installDisk' = I!Created({"work"}) /\ pc' = "acquire"
                 \/ UNCHANGED <<run, installDisk, pc>>
  <2>1. PICK preset \in (DOMAIN PresetChoices) \cup {"full"}, choice \in Selections,
             src \in I!Sources, flags \in InstallChoices :
          LET req == [preset |-> preset, choice |-> choice, source |-> src, flags |-> flags,
                      resolved |-> {}]
          IN  \/ /\ I!CatalogValid
                 /\ run' = [req EXCEPT !.resolved = I!ResolveSelection(req)]
                 /\ installDisk' = I!Created({"work"}) /\ pc' = "acquire"
              \/ UNCHANGED <<run, installDisk, pc>>
    BY DEF I!Prepare, I!Go
  <2> DEFINE req == [preset |-> preset, choice |-> choice, source |-> src, flags |-> flags,
                     resolved |-> {}]
  <2>2. [req EXCEPT !.resolved = I!ResolveSelection(req)].resolved = I!ResolveSelection(req)
    OBVIOUS
  <2> HIDE DEF req
  <2>3. \/ /\ I!CatalogValid
           /\ run'.resolved = I!ResolveSelection(req)
           /\ installDisk' = I!Created({"work"}) /\ pc' = "acquire"
        \/ UNCHANGED <<run, installDisk, pc>>
    BY <2>1, <2>2 DEF req
  <2>4. QED
    BY <2>3
<1>3. CASE /\ I!CatalogValid /\ run'.resolved = I!ResolveSelection(req)
           /\ installDisk' = I!Created({"work"}) /\ pc' = "acquire"
  <2>1. Resolved(run'.resolved)
    BY <1>3, SelectionResolved
  <2>2. TreeInv'
    BY <1>1, <2>1 DEF TreeInv, Resolved
  <2>3. I!TypeOK'
    BY <1>1, <1>3 DEF InstallInv, I!TypeOK, I!Created
  <2>4. QED
    BY <1>3, <2>2, <2>3 DEF InstallInv
<1>4. CASE UNCHANGED <<run, installDisk, pc>>
  BY <1>1, <1>4 DEF InstallInv, I!TypeOK
<1>5. QED
  BY <1>2, <1>3, <1>4

\* The stages of a run that leave the prepared tree alone.
LEMMA InstallStagesInv ==
    ASSUME InstallInv,
           \/ I!AcquireLocal \/ I!AcquireArchive \/ I!AcquireRawSetup \/ I!AcquireSynthetic
           \/ I!RunUninstallStage \/ I!FilterComponents \/ I!ApplyTweaks \/ I!PlanInstall
           \/ I!ExportWorkspace \/ I!BuildArchive \/ I!WriteReport
    PROVE  InstallInv'
<1>1. UNCHANGED <<run, copied, kept, stripped>> /\ pc # "idle"
  BY DEF I!AcquireLocal, I!AcquireArchive, I!AcquireRawSetup, I!AcquireSynthetic,
     I!RunUninstallStage, I!FilterComponents, I!ApplyTweaks, I!PlanInstall,
     I!ExportWorkspace, I!BuildArchive, I!WriteReport
<1>2. installDisk' = installDisk \/ \E ps : installDisk' = I!Created(ps)
  BY DEF I!AcquireLocal, I!AcquireArchive, I!AcquireRawSetup, I!AcquireSynthetic,
     I!RunUninstallStage, I!FilterComponents, I!ApplyTweaks, I!PlanInstall,
     I!ExportWorkspace, I!BuildArchive, I!WriteReport
<1>3. installDisk' \in [I!OutputPaths -> {"absent", "ours", "theirs"}]
  BY <1>2 DEF InstallInv, I!TypeOK, I!Created
<1>4. /\ pc' \in {"uninstall", "filter", "copy", "install", "export", "archive", "report", "done"}
      /\ pc' \in {"uninstall", "filter", "copy"}
         \/ pc \notin {"idle", "acquire", "uninstall", "filter", "copy"}
  BY DEF I!AcquireLocal, I!AcquireArchive, I!AcquireRawSetup, I!AcquireSynthetic,
     I!RunUninstallStage, I!FilterComponents, I!ApplyTweaks, I!PlanInstall,
     I!ExportWorkspace, I!BuildArchive, I!WriteReport, I!Go
<1>5. TreeInv'
  BY <1>1 DEF InstallInv, TreeInv, Resolved
<1>6. I!TypeOK'
  BY <1>1, <1>3, <1>4 DEF InstallInv, I!TypeOK
<1>7. QED
  BY <1>1, <1>4, <1>5, <1>6 DEF InstallInv

\* A component that is copied is resolved and no link; one that is not resolved
\* is left out.
LEMMA CopyComponentInv ==
    ASSUME InstallInv, I!CopyComponent
    PROVE  InstallInv'
<1>1. UNCHANGED <<run, pc, installDisk>> /\ pc = "copy" /\ TreeInv
  BY DEF I!CopyComponent, InstallInv
<1>2. PICK c \in Components :
        \/ /\ c \in run.resolved /\ I!Copyable(c)
           /\ copied' = [x \in DOMAIN copied \cup {c} |->
                           IF x = c THEN I!Tree[c] ELSE copied[x]]
           /\ kept' = kept \cup {c} /\ UNCHANGED stripped
        \/ /\ c \notin run.resolved
           /\ stripped' = stripped \cup {c} /\ UNCHANGED <<copied, kept>>
  BY DEF I!CopyComponent
<1>3. TreeInv' /\ kept' \subseteq Components /\ stripped' \subseteq Components
  BY <1>1, <1>2 DEF TreeInv, Resolved, I!Copyable, InstallInv, I!TypeOK
<1>4. DOMAIN copied' \subseteq Components
  BY <1>3 DEF TreeInv
<1>5. QED
  BY <1>1, <1>3, <1>4 DEF InstallInv, I!TypeOK

\* When the loop is over, the required components are in the tree.
LEMMA FilterDoneInv ==
    ASSUME InstallInv, I!FilterDone
    PROVE  InstallInv'
<1>1. UNCHANGED <<run, copied, kept, stripped, installDisk>> /\ pc = "copy" /\ pc' = "tweaks"
      /\ TreeInv
  BY DEF I!FilterDone, I!Go, InstallInv
<1>2. Required \subseteq kept
  BY <1>1, InstallAssumption DEF I!FilterDone, TreeInv, Resolved
<1>3. QED
  BY <1>1, <1>2 DEF InstallInv, I!TypeOK, TreeInv, Resolved

\* A run that ends or fails leaves its tree; other programs never change it.
LEMMA InstallOtherInv ==
    ASSUME InstallInv, I!IntoResult \/ I!Fail \/ I!RivalCreates \/ I!EditPackage
    PROVE  InstallInv'
<1>1. UNCHANGED <<copied, kept, stripped>>
  BY DEF I!IntoResult, I!Fail, I!RivalCreates, I!EditPackage
<1>2. installDisk' \in [I!OutputPaths -> {"absent", "ours", "theirs"}]
  BY DEF I!IntoResult, I!Fail, I!RivalCreates, I!EditPackage, InstallInv, I!TypeOK
<1>3. pc' = "idle" \/ UNCHANGED <<pc, run>>
  BY DEF I!IntoResult, I!Fail, I!RivalCreates, I!EditPackage
<1>4. I!TypeOK'
  BY <1>1, <1>2, <1>3 DEF InstallInv, I!TypeOK
<1>5. pc' # "idle" => TreeInv'
  BY <1>1, <1>3 DEF InstallInv, TreeInv, Resolved
<1>6. QED
  BY <1>1, <1>3, <1>4, <1>5 DEF InstallInv

\* Every step of the pipeline keeps the invariant.
LEMMA InstallStep ==
    ASSUME InstallInv, I!Next \/ UNCHANGED installVars
    PROVE  InstallInv'
<1>1. CASE UNCHANGED installVars
  BY <1>1 DEF installVars, InstallInv, I!TypeOK, TreeInv, Resolved
<1>2. CASE I!DownloadMismatch
  BY <1>2, InstallOtherInv DEF I!DownloadMismatch
<1>3. QED
  BY <1>1, <1>2, PrepareInv, InstallStagesInv, CopyComponentInv, FilterDoneInv,
     InstallOtherInv DEF I!Next

\* A step of the suite is a step of the pipeline or leaves it alone.
LEMMA InstallPart ==
    ASSUME [PartsNext]_allVars
    PROVE  I!Next \/ UNCHANGED installVars
  BY DEF PartsNext, allVars

\* The invariant of the pipeline holds in every reachable state.
THEOREM InstallInvariant == PartsSpec => []InstallInv
<1>1. PartsInit => InstallInv
  BY InstallInit DEF PartsInit
<1>2. InstallInv /\ [PartsNext]_allVars => InstallInv'
  BY InstallPart, InstallStep
<1>3. QED
  BY <1>1, <1>2, PTL DEF PartsSpec

\* A run that succeeds prepared a tree with all that is required and selected and
\* with what that needs, and nothing else.
THEOREM PreparedTreesAreSound == PartsSpec => []PreparedTreeSound
<1>1. InstallInv => PreparedTreeSound
  BY DEF InstallInv, TreeInv, Resolved, PreparedTreeSound, I!PreparedTreeSound
<1>2. QED
  BY <1>1, InstallInvariant, PTL

-----------------------------------------------------------------------------
(* The cleanup planner of Driver Foundry *)

\* What a journal holds, and what makes it a plan.
Held(s) == {s[i] : i \in DOMAIN s}
IsPlan(s) == s \in Seq(Held(s)) /\ \A e \in Held(s) : e.scope \in D!RemoveScopes \cup {"base"}
ShaderWipe == D!Entry("Wipe", "shader caches", "base")

\* Plan s is plan b with more entries, all of a selected scope; only the wipe of the
\* shader caches may be missing.
Extends(scopes, s, b) ==
    /\ IsPlan(s) /\ IsPlan(b)
    /\ \A e \in Held(b) : e \in Held(s) \/ e = ShaderWipe
    /\ \A e \in Held(s) : e \in Held(b) \/ e.scope \in scopes

\* The entries of two plans in a row.
LEMMA HeldInARow ==
    ASSUME NEW s, NEW t, IsPlan(s), IsPlan(t)
    PROVE  IsPlan(s \o t) /\ Held(s \o t) = Held(s) \cup Held(t)
<1> DEFINE both == Held(s) \cup Held(t)
<1>0. s \in Seq(both) /\ t \in Seq(both)
  BY DEF IsPlan
<1> HIDE DEF both
<1>1. /\ s \o t \in Seq(both) /\ DOMAIN (s \o t) = 1 .. Len(s) + Len(t)
      /\ DOMAIN s = 1 .. Len(s) /\ DOMAIN t = 1 .. Len(t) /\ Len(s) \in Nat /\ Len(t) \in Nat
      /\ \A i \in 1 .. Len(s) + Len(t) : (s \o t)[i] = IF i <= Len(s) THEN s[i] ELSE t[i - Len(s)]
  BY <1>0
<1>2. ASSUME NEW i \in DOMAIN (s \o t) PROVE (s \o t)[i] \in Held(s) \cup Held(t)
  <2>1. CASE i <= Len(s)
    BY <1>1, <2>1 DEF Held
  <2>2. CASE i > Len(s)
    <3>1. i - Len(s) \in DOMAIN t /\ (s \o t)[i] = t[i - Len(s)]
      BY <1>1, <2>2
    <3>2. QED
      BY <3>1 DEF Held
  <2>3. QED
    BY <1>1, <2>1, <2>2
<1>3. ASSUME NEW i \in DOMAIN s PROVE s[i] \in Held(s \o t)
  <2>1. i \in DOMAIN (s \o t) /\ (s \o t)[i] = s[i]
    BY <1>1
  <2>2. QED
    BY <2>1 DEF Held
<1>4. ASSUME NEW i \in DOMAIN t PROVE t[i] \in Held(s \o t)
  <2>1. Len(s) + i \in DOMAIN (s \o t) /\ (s \o t)[Len(s) + i] = t[i]
    BY <1>1
  <2>2. QED
    BY <2>1 DEF Held
<1>5. \A e \in Held(s \o t) : e \in Held(s) \cup Held(t)
  BY <1>2 DEF Held
<1>6. \A e \in Held(s) \cup Held(t) : e \in Held(s \o t)
  BY <1>3, <1>4 DEF Held
<1>7. Held(s \o t) = both
  BY <1>5, <1>6 DEF both
<1>8. QED
  BY <1>1, <1>7 DEF IsPlan, both

\* Two extended plans in a row extend the two plans in a row.
LEMMA ExtendsInARow ==
    ASSUME NEW K, NEW s, NEW b, NEW t, NEW d, Extends(K, s, b), Extends(K, t, d)
    PROVE  Extends(K, s \o t, b \o d)
<1>1. /\ IsPlan(s \o t) /\ Held(s \o t) = Held(s) \cup Held(t)
      /\ IsPlan(b \o d) /\ Held(b \o d) = Held(b) \cup Held(d)
  BY HeldInARow DEF Extends
<1>2. QED
  BY <1>1 DEF Extends

\* A plan extends itself.
LEMMA ExtendsItself ==
    ASSUME NEW K, NEW s, IsPlan(s)
    PROVE  Extends(K, s, s)
  BY DEF Extends

\* What is planned for a selected scope comes on top.
LEMMA ExtendsNothing ==
    ASSUME NEW K, NEW s, IsPlan(s), \A e \in Held(s) : e.scope \in K
    PROVE  Extends(K, s, <<>>)
<1>1. IsPlan(<<>>) /\ Held(<<>>) = {}
  BY DEF Held, IsPlan
<1>2. QED
  BY <1>1 DEF Extends

\* One entry.
LEMMA OneEntry ==
    ASSUME NEW surface, NEW target, NEW scope \in D!RemoveScopes \cup {"base"}
    PROVE  LET s == <<D!Entry(surface, target, scope)>>
           IN  IsPlan(s) /\ \A e \in Held(s) : e.scope = scope
<1> DEFINE e == D!Entry(surface, target, scope)
<1>1. e.scope = scope
  BY DEF D!Entry
<1> HIDE DEF e
<1>2. <<e>> \in Seq({e}) /\ Held(<<e>>) = {e}
  BY DEF Held
<1>3. QED
  BY <1>1, <1>2 DEF IsPlan, e

\* An entry that is always planned, and one for a selected scope.
LEMMA EntryExtends ==
    ASSUME NEW K, NEW surface, NEW target
    PROVE  /\ Extends(K, D!Base(surface, target), D!Base(surface, target))
           /\ \A k \in D!RemoveScopes \cap K :
                Extends(K, <<D!Entry(surface, target, k)>>, <<>>)
<1>1. "base" \in D!RemoveScopes \cup {"base"}
  OBVIOUS
<1>2. IsPlan(D!Base(surface, target))
  BY <1>1, OneEntry, Zenon DEF D!Base
<1>3. ASSUME NEW k \in D!RemoveScopes \cap K
      PROVE  Extends(K, <<D!Entry(surface, target, k)>>, <<>>)
  <2> DEFINE s == <<D!Entry(surface, target, k)>>
  <2>1. IsPlan(s) /\ \A e \in Held(s) : e.scope = k
    BY OneEntry, Zenon
  <2> HIDE DEF s
  <2>2. Extends(K, s, <<>>)
    BY <2>1, ExtendsNothing
  <2>3. QED
    BY <2>2 DEF s
<1>4. QED
  BY <1>2, <1>3, ExtendsItself

\* Nothing extends nothing.
LEMMA EmptyExtends == ASSUME NEW K PROVE Extends(K, <<>>, <<>>)
  BY DEF Extends, IsPlan, Held

\* Request z is request r without any scope.
Unscoped(r, z) ==
    /\ z.vendor = r.vendor /\ z.flags = r.flags /\ z.missing = r.missing /\ z.scopes = {}

\* The entries of a catalog file of the base, and of one of a scope.
LEMMA FileExtends ==
    ASSUME NEW r, NEW z, Unscoped(r, z), NEW surface, NEW file
    PROVE  /\ Extends(r.scopes, D!TryLoadLines(r, surface, file, "base"),
                      D!TryLoadLines(z, surface, file, "base"))
           /\ \A k \in D!RemoveScopes \cap r.scopes :
                Extends(r.scopes, D!TryLoadLines(r, surface, file, k), <<>>)
<1>1. Extends(r.scopes, <<D!Entry(surface, file, "base")>>, <<D!Entry(surface, file, "base")>>)
  BY EntryExtends, Zenon DEF D!Base
<1>2. Extends(r.scopes, D!TryLoadLines(r, surface, file, "base"),
              D!TryLoadLines(z, surface, file, "base"))
  BY <1>1, EmptyExtends DEF D!TryLoadLines, D!LoadLines, D!When, Unscoped
<1>3. ASSUME NEW k \in D!RemoveScopes \cap r.scopes
      PROVE  Extends(r.scopes, D!TryLoadLines(r, surface, file, k), <<>>)
  <2>1. Extends(r.scopes, <<D!Entry(surface, file, k)>>, <<>>)
    BY EntryExtends, Zenon
  <2>2. QED
    BY <2>1, EmptyExtends DEF D!TryLoadLines, D!When
<1>4. QED
  BY <1>2, <1>3

\* The entries of the bus scan depend on the vendor alone.
LEMMA PciRoot ==
    ASSUME NEW K, NEW v
    PROVE  Extends(K, D!PciRootEntries(v), D!PciRootEntries(v))
<1> DEFINE a == D!Base("Device", "clean_pci_root") \o D!Base("Registry", "enum_bus_scan")
           b == D!Base("Service", "pci filters") \o D!Base("Registry", "StripFilterValues")
           c == D!When(v \in D!FilterVendors, b)
<1>1. Extends(K, a, a) /\ Extends(K, b, b)
  BY EntryExtends, ExtendsInARow
<1>2. Extends(K, c, c)
  BY <1>1, EmptyExtends DEF D!When
<1>3. D!PciRootEntries(v) = a \o c
  BY DEF D!PciRootEntries
<1> HIDE DEF a, c
<1>4. QED
  BY <1>1, <1>2, <1>3, ExtendsInARow

\* The stages that look at no scope.
LEMMA PlainStages ==
    ASSUME NEW r, NEW z, Unscoped(r, z)
    PROVE  /\ Extends(r.scopes, D!SafemodeEntries(r), D!SafemodeEntries(z))
           /\ Extends(r.scopes, D!StageResolveGpu(r), D!StageResolveGpu(z))
           /\ Extends(r.scopes, D!StageFinalizeGpu(r), D!StageFinalizeGpu(z))
           /\ Extends(r.scopes, D!RequestPower(r), D!RequestPower(z))
<1> DEFINE K == r.scopes
<1>1. Extends(K, D!SafemodeEntries(r), D!SafemodeEntries(z))
  <2> DEFINE a(q) == D!When("clearSafeboot" \in q.flags, D!Base("SafeMode", "delete_safeboot"))
             b(q) == D!When("prepareSafeboot" \in q.flags,
                            D!Base("SafeMode", "set_safeboot")
                              \o D!Base("SafeMode", "schedule_restart"))
  <2>1. Extends(K, a(r), a(z))
    BY EntryExtends, EmptyExtends DEF D!When, Unscoped
  <2>2. Extends(K, b(r), b(z))
    BY EntryExtends, EmptyExtends, ExtendsInARow DEF D!When, Unscoped
  <2>3. D!SafemodeEntries(r) = a(r) \o b(r) /\ D!SafemodeEntries(z) = a(z) \o b(z)
    BY DEF D!SafemodeEntries
  <2> HIDE DEF a, b, K
  <2>4. QED
    BY <2>1, <2>2, <2>3, ExtendsInARow
<1>2. Extends(K, D!StageResolveGpu(r), D!StageResolveGpu(z))
  <2> DEFINE a(q) == D!When("noRestorePoint" \notin q.flags,
                            D!Base("Policy", "create_restore_point"))
             b(q) == D!When("blockSearch" \in q.flags, D!Base("Policy", "block_driver_search"))
  <2>1. Extends(K, a(r), a(z)) /\ Extends(K, b(r), b(z))
    BY EntryExtends, EmptyExtends DEF D!When, Unscoped
  <2>2. D!StageResolveGpu(r) = a(r) \o b(r) /\ D!StageResolveGpu(z) = a(z) \o b(z)
    BY DEF D!StageResolveGpu
  <2> HIDE DEF a, b, K
  <2>3. QED
    BY <2>1, <2>2, ExtendsInARow
<1>3. Extends(K, D!StageFinalizeGpu(r), D!StageFinalizeGpu(z))
  <2> DEFINE a == D!Base("DriverStore", "clean_driverstore")
             b == D!Base("Registry", "fix_driverstore_registry")
             c == D!Base("Registry", "fix_pnp_orphans")
             d == D!PciRootEntries(r.vendor)
  <2>1. Extends(K, a, a) /\ Extends(K, b, b) /\ Extends(K, c, c) /\ Extends(K, d, d)
    BY PciRoot, EntryExtends
  <2>2. D!StageFinalizeGpu(r) = a \o b \o c \o d /\ D!StageFinalizeGpu(z) = a \o b \o c \o d
    BY DEF D!StageFinalizeGpu, Unscoped
  <2> HIDE DEF a, b, c, d, K
  <2>3. QED
    BY <2>1, <2>2, ExtendsInARow
<1>4. Extends(K, D!RequestPower(r), D!RequestPower(z))
  <2> DEFINE a(q) == D!When("restart" \in q.flags, D!Base("Power", "restart"))
             b(q) == D!When("shutdown" \in q.flags, D!Base("Power", "shutdown"))
  <2>1. Extends(K, a(r), a(z)) /\ Extends(K, b(r), b(z))
    BY EntryExtends, EmptyExtends DEF D!When, Unscoped
  <2>2. D!RequestPower(r) = a(r) \o b(r) /\ D!RequestPower(z) = a(z) \o b(z)
    BY DEF D!RequestPower
  <2> HIDE DEF a, b, K
  <2>3. QED
    BY <2>1, <2>2, ExtendsInARow
<1>5. QED
  BY <1>1, <1>2, <1>3, <1>4

\* The services of the catalog, and those of the scopes.
LEMMA EarlyServices ==
    ASSUME NEW r, NEW z, Unscoped(r, z)
    PROVE  Extends(r.scopes, D!StageEarlyServices(r), D!StageEarlyServices(z))
<1> DEFINE K == r.scopes
           a == D!Base("Process", "hints") \o D!Base("Service", "services")
                  \o D!Base("Process", "services")
           b(q) == D!When(q.vendor = "nvidia" /\ "gfe" \in q.scopes,
                          D!TryLoadLines(q, "Service", "gfeservice", "gfe"))
           c(q) == D!When(q.vendor = "nvidia" /\ "nvb" \in q.scopes,
                          D!TryLoadLines(q, "Service", "nvbservice", "nvb"))
           d(q) == D!When(q.vendor = "intel" /\ "igs" \in q.scopes,
                          D!TryLoadLines(q, "Service", "servicesigs", "igs"))
<1>1. Extends(K, a, a)
  BY EntryExtends, ExtendsInARow
<1>2. Extends(K, b(r), b(z)) /\ Extends(K, c(r), c(z)) /\ Extends(K, d(r), d(z))
  BY FileExtends, EmptyExtends DEF D!When, Unscoped, D!RemoveScopes
<1>3. /\ D!StageEarlyServices(r) = a \o b(r) \o c(r) \o d(r)
      /\ D!StageEarlyServices(z) = a \o b(z) \o c(z) \o d(z)
  BY DEF D!StageEarlyServices
<1> HIDE DEF a, b, c, d, K
<1>4. QED
  BY <1>1, <1>2, <1>3, ExtendsInARow DEF K

\* The entries of the audio endpoints, for a selected scope or for all.
LEMMA AudioDevices ==
    ASSUME NEW K
    PROVE  /\ Extends(K, D!MmDevicesEntries("base"), D!MmDevicesEntries("base"))
           /\ \A k \in D!RemoveScopes \cap K : Extends(K, D!MmDevicesEntries(k), <<>>)
<1>1. ASSUME NEW k \in D!RemoveScopes \cup {"base"}
      PROVE  /\ IsPlan(D!MmDevicesEntries(k))
             /\ \A x \in Held(D!MmDevicesEntries(k)) : x.scope = k
  <2> DEFINE a == D!Entry("Registry", "clean_mmdevices", k)
             b == D!Entry("Registry", "mmdevices_flow", k)
             c == D!Entry("Registry", "mmdevices_summary", k)
  <2>1. D!MmDevicesEntries(k) = <<a, b, c>> /\ a.scope = k /\ b.scope = k /\ c.scope = k
    BY DEF D!MmDevicesEntries, D!Entry
  <2> HIDE DEF a, b, c
  <2>2. <<a, b, c>> \in Seq({a, b, c}) /\ Held(<<a, b, c>>) = {a, b, c}
    BY DEF Held
  <2>3. QED
    BY <2>1, <2>2 DEF IsPlan
<1>2. IsPlan(D!MmDevicesEntries("base"))
  BY <1>1
<1>3. QED
  BY <1>1, <1>2, ExtendsItself, ExtendsNothing

\* The packages and registry keys of the base, and those of the scopes.
LEMMA PrecleanPackages ==
    ASSUME NEW r, NEW z, Unscoped(r, z)
    PROVE  Extends(r.scopes, D!StagePrecleanPackages(r), D!StagePrecleanPackages(z))
<1> DEFINE K == r.scopes
<1>1. Extends(K, D!StageIntelPackageScopes(r), D!StageIntelPackageScopes(z))
  <2> DEFINE a(q) == D!When("igs" \in q.scopes,
                            D!TryLoadLines(q, "Registry", "clsidleftoverigs", "igs")
                              \o D!TryLoadLines(q, "AppX", "packagesigs", "igs"))
             b(q) == D!When("npu" \in q.scopes,
                            D!TryLoadLines(q, "AppX", "packagesnpu", "npu"))
             c(q) == D!When("oneapi" \in q.scopes,
                            D!TryLoadLines(q, "AppX", "packagesoneapi", "oneapi"))
             d(q) == D!When("endurance" \in q.scopes,
                            D!TryLoadLines(q, "AppX", "packagesendurance", "endurance"))
  <2>1. Extends(K, a(r), a(z))
    <3>1. CASE "igs" \in K
      <4>1. /\ Extends(K, D!TryLoadLines(r, "Registry", "clsidleftoverigs", "igs"), <<>>)
            /\ Extends(K, D!TryLoadLines(r, "AppX", "packagesigs", "igs"), <<>>)
        BY <3>1, FileExtends DEF D!RemoveScopes
      <4>2. a(z) = <<>> \o <<>>
        BY DEF D!When, Unscoped
      <4>3. a(r) = D!TryLoadLines(r, "Registry", "clsidleftoverigs", "igs")
                     \o D!TryLoadLines(r, "AppX", "packagesigs", "igs")
        BY <3>1 DEF D!When
      <4> HIDE DEF a, K
      <4>4. QED
        BY <4>1, <4>2, <4>3, ExtendsInARow
    <3>2. CASE "igs" \notin K
      BY <3>2, EmptyExtends DEF D!When, Unscoped
    <3>3. QED
      BY <3>1, <3>2
  <2>2. Extends(K, b(r), b(z)) /\ Extends(K, c(r), c(z)) /\ Extends(K, d(r), d(z))
    BY FileExtends, EmptyExtends DEF D!When, Unscoped, D!RemoveScopes
  <2>3. /\ D!StageIntelPackageScopes(r) = a(r) \o b(r) \o c(r) \o d(r)
        /\ D!StageIntelPackageScopes(z) = a(z) \o b(z) \o c(z) \o d(z)
    BY DEF D!StageIntelPackageScopes
  <2> HIDE DEF a, b, c, d, K
  <2>4. QED
    BY <2>1, <2>2, <2>3, ExtendsInARow
<1>2. Extends(K, D!RemoveVendorAppx(r), D!RemoveVendorAppx(z))
  <2> DEFINE a(q) == D!When(q.vendor \in {"nvidia", "amd", "intel"},
                            D!Base("AppX", "control panel"))
             b(q) == D!When(q.vendor = "nvidia" /\ "gfe" \in q.scopes,
                            <<D!Entry("AppX", "NVIDIA", "gfe")>>)
  <2>1. Extends(K, a(r), a(z))
    BY EntryExtends, EmptyExtends DEF D!When, Unscoped
  <2>2. Extends(K, b(r), b(z))
    BY EntryExtends, EmptyExtends DEF D!When, Unscoped, D!RemoveScopes
  <2>3. /\ D!RemoveVendorAppx(r) = a(r) \o b(r) /\ D!RemoveVendorAppx(z) = a(z) \o b(z)
    BY DEF D!RemoveVendorAppx
  <2> HIDE DEF a, b, K
  <2>4. QED
    BY <2>1, <2>2, <2>3, ExtendsInARow
<1> DEFINE a(q) == D!TryLoadLines(q, "Registry", "classroot", "base")
           b(q) == D!TryLoadLines(q, "Registry", "clsidleftover", "base")
           c(q) == D!TryLoadLines(q, "Registry", "interface", "base")
           d(q) == D!TryLoadLines(q, "AppX", "packages", "base")
           gfe(q) == D!TryLoadLines(q, "Registry", "classrootgfe", "gfe")
                       \o D!TryLoadLines(q, "Registry", "clsidleftoverGFE", "gfe")
                       \o D!TryLoadLines(q, "Registry", "interfaceGFE", "gfe")
           e(q) == D!When(q.vendor = "nvidia" /\ "gfe" \in q.scopes, gfe(q))
           f(q) == D!When(q.vendor = "nvidia" /\ "nvb" \in q.scopes,
                          D!TryLoadLines(q, "Registry", "clsidleftoverNVB", "nvb"))
           g(q) == D!When(q.vendor = "intel", D!StageIntelPackageScopes(q))
           h(q) == D!RemoveVendorAppx(q)
<1>3. /\ Extends(K, a(r), a(z)) /\ Extends(K, b(r), b(z)) /\ Extends(K, c(r), c(z))
      /\ Extends(K, d(r), d(z))
  BY FileExtends
<1>4. Extends(K, e(r), e(z))
  <2>1. CASE r.vendor = "nvidia" /\ "gfe" \in K
    <3>1. /\ Extends(K, D!TryLoadLines(r, "Registry", "classrootgfe", "gfe"), <<>>)
          /\ Extends(K, D!TryLoadLines(r, "Registry", "clsidleftoverGFE", "gfe"), <<>>)
          /\ Extends(K, D!TryLoadLines(r, "Registry", "interfaceGFE", "gfe"), <<>>)
      BY <2>1, FileExtends DEF D!RemoveScopes
    <3>2. e(z) = <<>> \o <<>> \o <<>>
      BY DEF D!When, Unscoped
    <3>3. e(r) = gfe(r)
      BY <2>1 DEF D!When
    <3> HIDE DEF e, K
    <3>4. QED
      BY <3>1, <3>2, <3>3, ExtendsInARow
  <2>2. CASE ~(r.vendor = "nvidia" /\ "gfe" \in K)
    BY <2>2, EmptyExtends DEF D!When, Unscoped
  <2>3. QED
    BY <2>1, <2>2
<1>5. Extends(K, f(r), f(z))
  BY FileExtends, EmptyExtends DEF D!When, Unscoped, D!RemoveScopes
<1>6. Extends(K, g(r), g(z))
  BY <1>1, EmptyExtends DEF D!When, Unscoped
<1>7. \A q \in {r, z} : D!StagePrecleanPackages(q)
          = a(q) \o b(q) \o c(q) \o d(q) \o e(q) \o f(q) \o g(q) \o h(q)
  BY DEF D!StagePrecleanPackages
<1> HIDE DEF a, b, c, d, e, f, g, K
<1>8. Extends(K, a(r) \o b(r) \o c(r) \o d(r), a(z) \o b(z) \o c(z) \o d(z))
  BY <1>3, ExtendsInARow
<1>9. QED
  BY <1>2, <1>4, <1>5, <1>6, <1>7, <1>8, ExtendsInARow DEF K

\* The devices of the vendor, and those of the scopes.
LEMMA SetupApi ==
    ASSUME NEW r, NEW z, Unscoped(r, z)
    PROVE  Extends(r.scopes, D!StageSetupApi(r), D!StageSetupApi(z))
<1> DEFINE K == r.scopes
           a == D!Base("Device", "vendor targets")
           b(q) == D!When(q.vendor = "intel" /\ "npu" \in q.scopes,
                          <<D!Entry("Device", "npu", "npu")>>)
           c(q) == D!When(q.vendor = "amd" /\ "kmpfd" \in q.scopes,
                          <<D!Entry("Device", "KMPFD", "kmpfd")>>
                            \o D!TryLoadLines(q, "File", "driverfilesKMPFD", "kmpfd"))
           d(q) == D!TryLoadLines(q, "Service", "servicesaudio", "base")
           e(q) == D!TryLoadLines(q, "Device", "servicesaudio", "base")
           f(q) == D!When("audiobus" \in q.scopes,
                          <<D!Entry("Device", "audiobus", "audiobus")>>
                            \o D!MmDevicesEntries("audiobus"))
           g(q) == D!When("monitors" \in q.scopes, <<D!Entry("Device", "monitors", "monitors")>>)
<1>1. Extends(K, a, a)
  BY EntryExtends
<1>2. Extends(K, b(r), b(z)) /\ Extends(K, g(r), g(z))
  BY EntryExtends, EmptyExtends DEF D!When, Unscoped, D!RemoveScopes
<1>3. Extends(K, c(r), c(z))
  <2>1. CASE r.vendor = "amd" /\ "kmpfd" \in K
    <3>1. /\ Extends(K, <<D!Entry("Device", "KMPFD", "kmpfd")>>, <<>>)
          /\ Extends(K, D!TryLoadLines(r, "File", "driverfilesKMPFD", "kmpfd"), <<>>)
      BY <2>1, FileExtends, EntryExtends DEF D!RemoveScopes
    <3>2. c(z) = <<>> \o <<>>
      BY DEF D!When, Unscoped
    <3>3. c(r) = <<D!Entry("Device", "KMPFD", "kmpfd")>>
                   \o D!TryLoadLines(r, "File", "driverfilesKMPFD", "kmpfd")
      BY <2>1 DEF D!When
    <3> HIDE DEF c, K
    <3>4. QED
      BY <3>1, <3>2, <3>3, ExtendsInARow
  <2>2. CASE ~(r.vendor = "amd" /\ "kmpfd" \in K)
    BY <2>2, EmptyExtends DEF D!When, Unscoped
  <2>3. QED
    BY <2>1, <2>2
<1>4. Extends(K, d(r), d(z)) /\ Extends(K, e(r), e(z))
  BY FileExtends
<1>5. Extends(K, f(r), f(z))
  <2>1. CASE "audiobus" \in K
    <3>1. Extends(K, <<D!Entry("Device", "audiobus", "audiobus")>>, <<>>)
      BY <2>1, EntryExtends DEF D!RemoveScopes
    <3>2. Extends(K, D!MmDevicesEntries("audiobus"), <<>>)
      BY <2>1, AudioDevices DEF D!RemoveScopes
    <3>3. f(z) = <<>> \o <<>>
      BY DEF D!When, Unscoped
    <3>4. f(r) = <<D!Entry("Device", "audiobus", "audiobus")>> \o D!MmDevicesEntries("audiobus")
      BY <2>1 DEF D!When
    <3> HIDE DEF f, K
    <3>5. QED
      BY <3>1, <3>2, <3>3, <3>4, ExtendsInARow
  <2>2. CASE "audiobus" \notin K
    BY <2>2, EmptyExtends DEF D!When, Unscoped
  <2>3. QED
    BY <2>1, <2>2
<1>6. \A q \in {r, z} :
        D!StageSetupApi(q) = a \o b(q) \o c(q) \o d(q) \o e(q) \o f(q) \o g(q)
  BY DEF D!StageSetupApi
<1> HIDE DEF a, b, c, d, e, f, g, K
<1>7. Extends(K, a \o b(r) \o c(r), a \o b(z) \o c(z))
  BY <1>1, <1>2, <1>3, ExtendsInARow
<1>8. QED
  BY <1>2, <1>4, <1>5, <1>6, <1>7, ExtendsInARow DEF K

\* The install caches, and the folders that installers unpack to.
LEMMA CachesExtend ==
    ASSUME NEW r, NEW z, Unscoped(r, z)
    PROVE  /\ Extends(r.scopes, D!CleanCaches(r), D!CleanCaches(z))
           /\ Extends(r.scopes, D!CleanUnpackTargets(r), D!CleanUnpackTargets(z))
           /\ Extends(r.scopes, D!RunCacheOnly(r), D!RunCacheOnly(z))
<1> DEFINE K == r.scopes
<1>1. Extends(K, D!CleanCaches(r), D!CleanCaches(z))
  <2> DEFINE w == <<ShaderWipe>>
  <2>1. Extends(K, w, w) /\ D!CleanCaches(z) = w
    BY EntryExtends DEF D!CleanCaches, D!Base, Unscoped, ShaderWipe
  <2>2. \A s : Extends(K, s, <<>>) => Extends(K, s, w)
    <3>1. Held(w) = {ShaderWipe} /\ Held(<<>>) = {} /\ IsPlan(w)
      BY <2>1 DEF Held, Extends
    <3>2. QED
      BY <3>1 DEF Extends
  <2>3. \A k \in D!RemoveScopes \cap K :
          Extends(K, <<D!Entry("Wipe", "install caches", k)>>, w)
    BY <2>2, EntryExtends
  <2> HIDE DEF w
  <2>4. CASE "gfe" \in K
    BY <2>1, <2>3, <2>4 DEF D!CleanCaches, D!RemoveScopes
  <2>5. CASE "gfe" \notin K /\ "installCache" \in K
    BY <2>1, <2>3, <2>5 DEF D!CleanCaches, D!RemoveScopes
  <2>6. CASE "gfe" \notin K /\ "installCache" \notin K
    BY <2>1, <2>6 DEF D!CleanCaches, D!Base, ShaderWipe, w
  <2>7. QED
    BY <2>4, <2>5, <2>6
<1>2. Extends(K, D!CleanUnpackTargets(r), D!CleanUnpackTargets(z))
  <2> DEFINE a(q) == D!When(q.vendor = "nvidia" /\ "unpackNvidia" \in q.scopes,
                            <<D!Entry("Wipe", "C:/NVIDIA", "unpackNvidia")>>)
             b(q) == D!When(q.vendor = "amd" /\ "unpackAmd" \in q.scopes,
                            <<D!Entry("Wipe", "C:/AMD", "unpackAmd")>>)
  <2>1. Extends(K, a(r), a(z)) /\ Extends(K, b(r), b(z))
    BY EntryExtends, EmptyExtends DEF D!When, Unscoped, D!RemoveScopes
  <2>2. \A q \in {r, z} : D!CleanUnpackTargets(q) = a(q) \o b(q)
    BY DEF D!CleanUnpackTargets
  <2> HIDE DEF a, b, K
  <2>3. QED
    BY <2>1, <2>2, ExtendsInARow
<1>3. Extends(K, D!RunCacheOnly(r), D!RunCacheOnly(z))
  <2> DEFINE a == D!Base("Wipe", "shader caches")
             b(q) == D!When({"installCache", "gfe"} \cap q.scopes # {},
                            <<D!Entry("Wipe", "install caches",
                                      IF "gfe" \in q.scopes THEN "gfe" ELSE "installCache")>>)
  <2>1. Extends(K, a, a)
    BY EntryExtends
  <2>2. Extends(K, b(r), b(z))
    <3> DEFINE k == IF "gfe" \in K THEN "gfe" ELSE "installCache"
    <3>1. b(z) = <<>>
      BY DEF D!When, Unscoped
    <3>2. CASE {"installCache", "gfe"} \cap K # {}
      <4>1. k \in D!RemoveScopes \cap K
        BY <3>2 DEF D!RemoveScopes
      <4>2. b(r) = <<D!Entry("Wipe", "install caches", k)>>
        BY <3>2 DEF D!When
      <4> HIDE DEF k, b, K
      <4>3. QED
        BY <3>1, <4>1, <4>2, EntryExtends
    <3>3. CASE {"installCache", "gfe"} \cap K = {}
      BY <3>1, <3>3, EmptyExtends DEF D!When
    <3>4. QED
      BY <3>2, <3>3
  <2>3. \A q \in {r, z} : D!RunCacheOnly(q) = a \o b(q) \o D!CleanUnpackTargets(q)
    BY DEF D!RunCacheOnly
  <2> HIDE DEF a, b, K
  <2>4. QED
    BY <1>2, <2>1, <2>2, <2>3, ExtendsInARow
<1>4. QED
  BY <1>1, <1>2, <1>3

\* The files of the base, and those of the scopes.
LEMMA DeepClean ==
    ASSUME NEW r, NEW z, Unscoped(r, z)
    PROVE  Extends(r.scopes, D!StageDeepClean(r), D!StageDeepClean(z))
<1> DEFINE K == r.scopes
<1>1. Extends(K, D!DeepFileTokens(r), D!DeepFileTokens(z))
  <2> DEFINE a == D!Base("File", "driverfiles")
             b(q) == D!When(q.vendor = "nvidia" /\ "gfe" \in q.scopes,
                            D!TryLoadLines(q, "File", "gfedriverfiles", "gfe"))
             c(q) == D!When(q.vendor = "nvidia" /\ "nvb" \in q.scopes,
                            D!TryLoadLines(q, "File", "nvbdriverfiles", "nvb"))
             d(q) == D!When(q.vendor = "amd" /\ "kmpfd" \in q.scopes,
                            D!TryLoadLines(q, "File", "driverfilesKMPFD", "kmpfd")
                              \o D!TryLoadLines(q, "File", "driverfilesKMAFD", "kmpfd"))
             e(q) == D!When(q.vendor = "intel",
                            D!TryLoadLines(q, "File", "shareddriverfiles", "base"))
  <2>1. Extends(K, a, a)
    BY EntryExtends
  <2>2. Extends(K, b(r), b(z)) /\ Extends(K, c(r), c(z))
    BY FileExtends, EmptyExtends DEF D!When, Unscoped, D!RemoveScopes
  <2>3. Extends(K, d(r), d(z))
    <3>1. CASE r.vendor = "amd" /\ "kmpfd" \in K
      <4>1. /\ Extends(K, D!TryLoadLines(r, "File", "driverfilesKMPFD", "kmpfd"), <<>>)
            /\ Extends(K, D!TryLoadLines(r, "File", "driverfilesKMAFD", "kmpfd"), <<>>)
        BY <3>1, FileExtends DEF D!RemoveScopes
      <4>2. d(z) = <<>> \o <<>>
        BY DEF D!When, Unscoped
      <4>3. d(r) = D!TryLoadLines(r, "File", "driverfilesKMPFD", "kmpfd")
                     \o D!TryLoadLines(r, "File", "driverfilesKMAFD", "kmpfd")
        BY <3>1 DEF D!When
      <4> HIDE DEF d, K
      <4>4. QED
        BY <4>1, <4>2, <4>3, ExtendsInARow
    <3>2. CASE ~(r.vendor = "amd" /\ "kmpfd" \in K)
      BY <3>2, EmptyExtends DEF D!When, Unscoped
    <3>3. QED
      BY <3>1, <3>2
  <2>4. Extends(K, e(r), e(z))
    BY FileExtends, EmptyExtends DEF D!When, Unscoped
  <2>5. \A q \in {r, z} : D!DeepFileTokens(q) = a \o b(q) \o c(q) \o d(q) \o e(q)
    BY DEF D!DeepFileTokens
  <2> HIDE DEF a, b, c, d, e, K
  <2>6. QED
    BY <2>1, <2>2, <2>3, <2>4, <2>5, ExtendsInARow
<1>2. Extends(K, D!CleanOptionalRuntimeScopes(r), D!CleanOptionalRuntimeScopes(z))
  <2> DEFINE a(q) == D!When("physx" \in q.scopes,
                            <<D!Entry("File", "PhysX", "physx"),
                              D!Entry("Registry", "physx_leftover", "physx")>>)
             b(q) == D!When("vulkan" \in q.scopes,
                            <<D!Entry("File", "vulkan-1.dll", "vulkan"),
                              D!Entry("Registry", "vulkan_layers", "vulkan")>>)
  <2>1. \A x, y : \A k \in D!RemoveScopes \cap K :
          x.scope = k /\ y.scope = k => Extends(K, <<x, y>>, <<>>)
    <3> SUFFICES ASSUME NEW x, NEW y, NEW k \in D!RemoveScopes \cap K, x.scope = k, y.scope = k
                 PROVE  Extends(K, <<x, y>>, <<>>)
      OBVIOUS
    <3>1. <<x, y>> \in Seq({x, y}) /\ Held(<<x, y>>) = {x, y}
      BY DEF Held
    <3>2. IsPlan(<<x, y>>)
      BY <3>1 DEF IsPlan
    <3> DEFINE s == <<x, y>>
    <3>3. \A i \in Held(s) : i.scope \in K
      BY <3>1
    <3> HIDE DEF s
    <3>4. Extends(K, s, <<>>)
      BY <3>2, <3>3, ExtendsNothing DEF s
    <3>5. QED
      BY <3>4 DEF s
  <2>2. Extends(K, a(r), a(z))
    BY <2>1, EmptyExtends DEF D!When, Unscoped, D!RemoveScopes, D!Entry
  <2>3. Extends(K, b(r), b(z))
    BY <2>1, EmptyExtends DEF D!When, Unscoped, D!RemoveScopes, D!Entry
  <2>4. \A q \in {r, z} : D!CleanOptionalRuntimeScopes(q) = a(q) \o b(q)
    BY DEF D!CleanOptionalRuntimeScopes
  <2> HIDE DEF a, b, K
  <2>5. QED
    BY <2>2, <2>3, <2>4, ExtendsInARow
<1>3. Extends(K, D!CleanCaches(r), D!CleanCaches(z))
      /\ Extends(K, D!CleanUnpackTargets(r), D!CleanUnpackTargets(z))
  BY CachesExtend
<1> DEFINE s == D!Base("Service", "services")
           t == D!Base("Task", "vendor tasks")
<1>4. Extends(K, s, s) /\ Extends(K, t, t)
  BY EntryExtends
<1>5. \A q \in {r, z} : D!StageDeepClean(q)
          = D!DeepFileTokens(q) \o s \o t \o D!CleanCaches(q) \o D!CleanUnpackTargets(q)
              \o D!CleanOptionalRuntimeScopes(q)
  BY DEF D!StageDeepClean
<1> HIDE DEF s, t, K
<1>6. QED
  BY <1>1, <1>2, <1>3, <1>4, <1>5, ExtendsInARow DEF K

\* The plan for an audio vendor looks at no scope.
LEMMA AudioPath ==
    ASSUME NEW r, NEW z, Unscoped(r, z)
    PROVE  Extends(r.scopes, D!RunAudioPath(r), D!RunAudioPath(z))
<1> DEFINE K == r.scopes
           a == D!Base("Service", "services") \o D!Base("Process", "services")
           b(q) == D!TryLoadLines(q, "Registry", "classroot", "base")
           c(q) == D!TryLoadLines(q, "Registry", "clsidleftover", "base")
           d(q) == D!TryLoadLines(q, "AppX", "packages", "base")
           e == D!Base("Device", "vendor targets")
           f == D!MmDevicesEntries("base")
           g == D!Base("File", "driverfiles")
           h == D!Base("DriverStore", "clean_driverstore")
           i == D!Base("Registry", "fix_pnp_orphans")
           j == D!PciRootEntries(r.vendor)
<1>1. Extends(K, a, a)
  BY EntryExtends, ExtendsInARow
<1>2. Extends(K, b(r), b(z)) /\ Extends(K, c(r), c(z)) /\ Extends(K, d(r), d(z))
  BY FileExtends
<1>3. /\ Extends(K, e, e) /\ Extends(K, f, f) /\ Extends(K, g, g) /\ Extends(K, h, h)
      /\ Extends(K, i, i) /\ Extends(K, j, j)
  BY EntryExtends, AudioDevices, PciRoot
<1>4. \A q \in {r, z} : D!RunAudioPath(q)
          = a \o b(q) \o c(q) \o d(q) \o e \o f \o g \o h \o i \o j
  BY DEF D!RunAudioPath, Unscoped
<1> HIDE DEF a, b, c, d, e, f, g, h, i, j, K
<1>5. Extends(K, a \o b(r) \o c(r) \o d(r) \o e, a \o b(z) \o c(z) \o d(z) \o e)
  BY <1>1, <1>2, <1>3, ExtendsInARow
<1>6. QED
  BY <1>3, <1>4, <1>5, ExtendsInARow DEF K

\* The stages of a request extend those of the request without its scopes, one by
\* one.
LEMMA StagesExtend ==
    ASSUME NEW r, NEW z, Unscoped(r, z)
    PROVE  LET s == D!Stages(r)
               b == D!Stages(z)
           IN  /\ Len(s) \in 1 .. 8 /\ DOMAIN s = 1 .. Len(s) /\ DOMAIN b = 1 .. Len(s)
               /\ \A k \in 1 .. Len(s) : Extends(r.scopes, s[k], b[k])
<1> DEFINE K == r.scopes
           s == D!Stages(r)
           b == D!Stages(z)
           first(q) == D!SafemodeEntries(q)
           last(q) == D!RequestPower(q)
           setup(q) == D!When("noSetupApi" \notin q.flags, D!StageSetupApi(q))
<1>1. Extends(K, first(r), first(z)) /\ Extends(K, last(r), last(z))
  BY PlainStages
<1>2. CASE D!IsAudio(r.vendor)
  <2> DEFINE m(q) == D!RunAudioPath(q)
  <2>1. Extends(K, m(r), m(z))
    BY AudioPath
  <2>2. s = <<first(r), m(r), last(r)>> /\ b = <<first(z), m(z), last(z)>>
    BY <1>2 DEF D!Stages, Unscoped
  <2> HIDE DEF first, last, m, s, b, K
  <2>3. QED
    BY <1>1, <2>1, <2>2 DEF s, b, K
<1>3. CASE ~D!IsAudio(r.vendor) /\ "cacheOnly" \in r.flags
  <2> DEFINE m(q) == D!RunCacheOnly(q)
  <2>1. Extends(K, m(r), m(z))
    BY CachesExtend
  <2>2. s = <<first(r), m(r), last(r)>> /\ b = <<first(z), m(z), last(z)>>
    BY <1>3 DEF D!Stages, Unscoped
  <2> HIDE DEF first, last, m, s, b, K
  <2>3. QED
    BY <1>1, <2>1, <2>2 DEF s, b, K
<1>4. CASE ~D!IsAudio(r.vendor) /\ "cacheOnly" \notin r.flags
  <2> DEFINE g1(q) == D!StageResolveGpu(q)
             g2(q) == D!StageEarlyServices(q)
             g3(q) == D!StagePrecleanPackages(q)
             g5(q) == D!StageDeepClean(q)
             g6(q) == D!StageFinalizeGpu(q)
  <2>1. /\ Extends(K, g1(r), g1(z)) /\ Extends(K, g2(r), g2(z)) /\ Extends(K, g3(r), g3(z))
        /\ Extends(K, g5(r), g5(z)) /\ Extends(K, g6(r), g6(z))
    BY PlainStages, EarlyServices, PrecleanPackages, DeepClean
  <2>2. Extends(K, setup(r), setup(z))
    BY SetupApi, EmptyExtends DEF D!When, Unscoped
  <2>3. /\ s = <<first(r), g1(r), g2(r), g3(r), setup(r), g5(r), g6(r), last(r)>>
        /\ b = <<first(z), g1(z), g2(z), g3(z), setup(z), g5(z), g6(z), last(z)>>
    BY <1>4 DEF D!Stages, Unscoped
  <2> HIDE DEF first, last, setup, g1, g2, g3, g5, g6, s, b, K
  <2>4. QED
    BY <1>1, <2>1, <2>2, <2>3 DEF s, b, K
<1>5. QED
  BY <1>2, <1>3, <1>4

-----------------------------------------------------------------------------
\* What a request may be, and it without its scopes.
Requests == [vendor : Vendors, scopes : ScopeChoices, flags : CleanChoices, missing : Missing]
Stripped(r) == [r EXCEPT !.scopes = {}]

\* A stripped request asks for the same with no scope.
LEMMA StrippedIsUnscoped == \A r \in Requests : Unscoped(r, Stripped(r))
  BY DEF Requests, Unscoped, Stripped

\* The journal holds the entries of the stages that are done, and a plan is
\* finished when all of them are.
CleanInv ==
    /\ D!TypeOK
    /\ request = None => journal = <<>>
    /\ request # None =>
          /\ request \in Requests /\ IsPlan(journal)
          /\ \A x : x \in Held(journal) <=>
                \E k \in 1 .. Len(D!Stages(request)) :
                    k < stage /\ x \in Held(D!Stages(request)[k])
    /\ result = "planned" => request # None /\ stage = Len(D!Stages(request)) + 1

\* The planner starts with an empty journal.
LEMMA CleanInit == D!Init => CleanInv
<1> SUFFICES ASSUME D!Init PROVE CleanInv
  OBVIOUS
<1>1. request = None /\ journal = <<>> /\ DOMAIN journal = {}
  BY DEF D!Init
<1>2. result = None /\ result # "planned"
  BY CleanAssumption DEF D!Init
<1>3. stage \in 0 .. 9
  BY DEF D!Init
<1>4. D!TypeOK
  BY <1>1, <1>2, <1>3 DEF D!TypeOK
<1>5. QED
  BY <1>1, <1>2, <1>4 DEF CleanInv

\* A request that is refused or whose catalog is missing plans nothing.
LEMMA RunCleanInv ==
    ASSUME CleanInv, D!RunClean
    PROVE  CleanInv'
<1>1. PICK v \in Vendors, s \in ScopeChoices, f \in CleanChoices, m \in Missing :
        /\ request' = [vendor |-> v, scopes |-> s, flags |-> f, missing |-> m]
        /\ \/ result' \in {"refused", "catalog error"} /\ stage' = 0
           \/ result' = None /\ stage' = 1
  BY DEF D!RunClean
<1>2. request' \in Requests
  BY <1>1 DEF Requests
<1>3. journal' = <<>>
  BY DEF D!RunClean, CleanInv
<1>4. DOMAIN journal' = {} /\ Held(journal') = {} /\ IsPlan(journal')
  <2>1. DOMAIN journal' = {} /\ journal' \in Seq({})
    BY <1>3
  <2>2. Held(journal') = {}
    BY <2>1 DEF Held
  <2>3. QED
    BY <2>1, <2>2 DEF IsPlan
<1>5. result' \in {"refused", "catalog error", None} /\ result' # "planned"
  BY <1>1, CleanAssumption
<1>6. D!TypeOK'
  <2>1. stage' \in {0, 1}
    BY <1>1
  <2>2. stage' \in 0 .. 9
    BY <2>1
  <2>3. QED
    BY <1>4, <1>5, <2>2 DEF D!TypeOK
<1>7. \A n : \A k \in 1 .. n : ~(k < stage')
  <2>1. stage' \in {0, 1}
    BY <1>1
  <2>2. QED
    BY <2>1
<1>8. QED
  BY <1>2, <1>3, <1>4, <1>5, <1>6, <1>7 DEF CleanInv

\* A stage adds its entries to the journal.
LEMMA RunStageInv ==
    ASSUME CleanInv, D!RunStage
    PROVE  CleanInv'
<1> DEFINE all == D!Stages(request)
           n == Len(all)
<1>1. /\ request # None /\ request \in Requests /\ IsPlan(journal) /\ D!TypeOK
      /\ \A x : x \in Held(journal) <=> \E k \in 1 .. n : k < stage /\ x \in Held(all[k])
      /\ result = "planned" => stage = n + 1
  BY DEF CleanInv, D!RunStage
<1>2. /\ stage \in DOMAIN all /\ journal' = journal \o all[stage] /\ stage' = stage + 1
      /\ request' = request /\ result' = result
  BY DEF D!RunStage
<1>3. n \in 1 .. 8 /\ DOMAIN all = 1 .. n /\ IsPlan(all[stage])
  <2>1. Unscoped(request, Stripped(request))
    BY <1>1, StrippedIsUnscoped
  <2>2. QED
    BY <1>2, <2>1, StagesExtend DEF Extends
<1> HIDE DEF n, all
<1>4. IsPlan(journal') /\ Held(journal') = Held(journal) \cup Held(all[stage])
  BY <1>1, <1>2, <1>3, HeldInARow
<1>5. stage \in 1 .. n /\ stage' \in 1 .. 9 /\ n \in Nat
  BY <1>2, <1>3
<1>6. \A x : x \in Held(journal') <=> \E k \in 1 .. n : k < stage' /\ x \in Held(all[k])
  <2>1. \A k \in 1 .. n : k < stage' <=> k < stage \/ k = stage
    BY <1>2, <1>5
  <2>2. QED
    BY <1>1, <1>4, <1>5, <2>1
<1>7. result # "planned"
  BY <1>1, <1>5
<1>8. D!TypeOK'
  <2>1. \A i \in DOMAIN journal' : journal'[i] \in Held(journal')
    BY DEF Held
  <2>2. \A i \in DOMAIN journal' : journal'[i].scope \in D!RemoveScopes \cup {"base"}
    BY <1>4, <2>1 DEF IsPlan
  <2>3. stage' \in 0 .. 9
    BY <1>5
  <2>4. QED
    BY <1>1, <1>2, <2>2, <2>3 DEF D!TypeOK
<1>9. QED
  BY <1>1, <1>2, <1>4, <1>5, <1>6, <1>7, <1>8 DEF CleanInv, all, n

\* The report ends a plan, and the next request starts from nothing.
LEMMA CleanOtherInv ==
    ASSUME CleanInv, D!WritePlanReport \/ D!NextRequest \/ UNCHANGED cleanVars
    PROVE  CleanInv'
<1>1. CASE D!WritePlanReport
  <2>1. /\ request # None /\ stage = Len(D!Stages(request)) + 1
        /\ result' \in {"planned", "report exists"}
        /\ UNCHANGED <<request, stage, journal>>
    BY <1>1 DEF D!WritePlanReport
  <2>2. D!TypeOK'
    BY <2>1 DEF D!TypeOK, CleanInv
  <2>3. QED
    BY <2>1, <2>2 DEF CleanInv
<1>2. CASE D!NextRequest
  <2>1. request' = None /\ journal' = <<>> /\ DOMAIN journal' = {}
    BY <1>2 DEF D!NextRequest
  <2>2. result' = None /\ result' # "planned"
    BY <1>2, CleanAssumption DEF D!NextRequest
  <2>3. stage' \in 0 .. 9
    BY <1>2 DEF D!NextRequest
  <2>4. D!TypeOK'
    BY <2>1, <2>2, <2>3 DEF D!TypeOK
  <2>5. QED
    BY <2>1, <2>2, <2>4 DEF CleanInv
<1>3. CASE UNCHANGED cleanVars
  BY <1>3 DEF cleanVars, CleanInv, D!TypeOK
<1>4. QED
  BY <1>1, <1>2, <1>3

\* A step of the suite is a step of the planner or leaves it alone.
LEMMA CleanPart ==
    ASSUME [PartsNext]_allVars
    PROVE  D!Next \/ UNCHANGED cleanVars
  BY DEF PartsNext, allVars

\* The invariant of the planner holds in every reachable state.
THEOREM CleanInvariant == PartsSpec => []CleanInv
<1>1. PartsInit => CleanInv
  BY CleanInit DEF PartsInit
<1>2. CleanInv /\ [PartsNext]_allVars => CleanInv'
  BY CleanPart, RunCleanInv, RunStageInv, CleanOtherInv DEF D!Next
<1>3. QED
  BY <1>1, <1>2, PTL DEF PartsSpec

\* Selecting more scopes never loses an action, the choice between shader and
\* install caches aside, and all it adds belongs to a selected scope.
THEOREM ScopesNeverRemove == PartsSpec => []ScopesOnlyAdd
<1>1. ASSUME CleanInv PROVE D!ScopesOnlyAdd
  <2> SUFFICES ASSUME result = "planned"
               PROVE  LET base == D!FlatPlan(Stripped(request))
                      IN  /\ base \ {ShaderWipe} \subseteq D!Planned
                          /\ \A e \in D!Planned \ base : e.scope \in request.scopes
    BY DEF D!ScopesOnlyAdd, ShaderWipe, Stripped
  <2> DEFINE s == D!Stages(request)
             b == D!Stages(Stripped(request))
             n == Len(s)
  <2>1. Unscoped(request, Stripped(request))
    BY <1>1, StrippedIsUnscoped DEF CleanInv
  <2>2. /\ n \in 1 .. 8 /\ DOMAIN s = 1 .. n /\ DOMAIN b = 1 .. n
        /\ \A k \in 1 .. n : Extends(request.scopes, s[k], b[k])
    BY <2>1, StagesExtend
  <2>3. D!Planned = Held(journal)
    BY DEF D!Planned, Held
  <2>4. \A x : x \in Held(journal) <=> \E k \in 1 .. n : k < stage /\ x \in Held(s[k])
    BY <1>1 DEF CleanInv
  <2>5. stage = n + 1
    BY <1>1 DEF CleanInv
  <2>6. D!FlatPlan(Stripped(request)) = UNION {Held(b[k]) : k \in 1 .. n}
    BY <2>2 DEF D!FlatPlan, Held
  <2> HIDE DEF s, b, n
  <2>7. \A k \in 1 .. n : k < stage
    BY <2>2, <2>5
  <2>8. \A e \in D!FlatPlan(Stripped(request)) : e \in D!Planned \/ e = ShaderWipe
    BY <2>2, <2>3, <2>4, <2>6, <2>7 DEF Extends
  <2>9. \A e \in D!Planned : e \in D!FlatPlan(Stripped(request)) \/ e.scope \in request.scopes
    BY <2>2, <2>3, <2>4, <2>6, <2>7 DEF Extends
  <2>10. QED
    BY <2>8, <2>9
<1>2. QED
  BY <1>1, CleanInvariant, PTL DEF ScopesOnlyAdd

-----------------------------------------------------------------------------
(* The benchmark files *)

\* The records of a history h that look like one of the final benchmark.
Prefix(h) == {k \in DOMAIN h : \/ h[k].label = B!FinalLabel
                               \/ h[k].receipt # None \/ h[k].txn # None}
BaselineOf(h) == {k \in DOMAIN h : h[k].label = B!BaselineLabel}

\* What evidence, where there is any, says of the figures and the cap.
Proven(capture, evidence) ==
    /\ B!CaptureIsComplete(capture)
    /\ evidence # None => capture = B!Aggregate(evidence)
                          /\ B!MeasuredFpsCap(strategy, evidence) # None

\* The state carries a receipt as a whole or not at all.
StateSound(s) ==
    /\ s.stage = "complete" => s.final # None
    /\ s.final # None =>
          /\ s.stage = "complete" /\ s.cap = s.final.cap
          /\ s.capture = s.final.capture /\ s.capAt = s.final.at
          /\ Proven(s.final.capture, s.final.evidence)
          /\ s.final.evidence # None =>
                s.final.cap = B!MeasuredFpsCap(strategy, s.final.evidence)

\* A record with a receipt is one of the final benchmark, a record of the baseline
\* is what was captured.
RecordSound(r) ==
    /\ r.receipt # None => /\ r.label = B!FinalLabel /\ r.txn = B!Txn
                           /\ Proven(r.capture, r.evidence)
    /\ r.txn # None => r.receipt # None
    /\ r.label = B!BaselineLabel =>
          /\ r.receipt = None /\ r.evidence # None
          /\ B!CaptureIsComplete(r.capture) /\ r.capture = B!Aggregate(r.evidence)

HistorySound(h) == \A k \in DOMAIN h : RecordSound(h[k])

\* State and history agree about both benchmarks.
BothAgree(s, h) ==
    /\ s.final = None => s.stage = "armed" \/ \A k \in DOMAIN h : h[k].receipt = None
    /\ s.final # None => \A k \in Prefix(h) : B!Matches(s.final, h[k])
    /\ s.baseline # None => \A k \in BaselineOf(h) : h[k].capture = s.baseline

\* A benchmark that is complete has one record, which nothing but the baseline
\* follows.
CompleteAgree(s, p, h) ==
    p.final # None =>
        /\ s.final # None /\ p.final = s.final.at
        /\ \E k \in DOMAIN h :
              /\ B!Matches(s.final, h[k]) /\ Prefix(h) = {k}
              /\ k = Len(h) \/ (k = Len(h) - 1 /\ Len(h) \in BaselineOf(h))

Good(s, p, h) ==
    /\ s \in B!States /\ p \in B!Progresses /\ h \in Seq(B!Records) /\ Len(h) <= MaxHistory
    /\ StateSound(s) /\ HistorySound(h) /\ BothAgree(s, h) /\ CompleteAgree(s, p, h)

\* The files stay good through each of the writes that a commit has left, and no
\* write takes back that the final benchmark is complete.
CommitSound(o) ==
    /\ progress.final # None => o.progress.final # None
    /\ \/ /\ o.todo = <<"history", "state", "progress">>
          /\ Good(state, progress, o.history) /\ Good(o.state, progress, o.history)
          /\ Good(o.state, o.progress, o.history)
       \/ /\ o.todo = <<"state", "progress">>
          /\ Good(o.state, progress, history) /\ Good(o.state, o.progress, history)
       \/ o.todo = <<"progress">> /\ Good(state, o.progress, history)
       \/ /\ o.todo = <<"state", "history">>
          /\ Good(o.state, progress, history) /\ Good(o.state, progress, o.history)
       \/ o.todo = <<"history">> /\ Good(state, progress, o.history)
       \/ o.todo = <<"state">> /\ Good(o.state, progress, history)

Commits == [todo : {<<"history", "state", "progress">>, <<"state", "progress">>, <<"progress">>,
                    <<"state", "history">>, <<"history">>, <<"state">>},
            state : B!States, progress : B!Progresses, history : Seq(B!Records)]

BenchmarkInv ==
    /\ clock \in Nat /\ strategy \in Strategies
    /\ Good(state, progress, history)
    /\ commit = B!Idle \/ (commit \in Commits /\ CommitSound(commit))

\* A record is appended at the end, and the oldest d records make room for it.
LEMMA AppendedRecord ==
    ASSUME NEW h \in Seq(B!Records), NEW r \in B!Records
    PROVE  LET n == B!AppendRecord(h, r)
           IN  \E d \in Nat :
                 /\ n \in Seq(B!Records) /\ Len(n) >= 1 /\ Len(n) <= MaxHistory
                 /\ Len(n) = Len(h) + 1 - d /\ n[Len(n)] = r
                 /\ \A k \in DOMAIN n : k = Len(n) \/ (k + d \in DOMAIN h /\ n[k] = h[k + d])
                 /\ d # 0 => Len(n) = MaxHistory
<1> DEFINE all == Append(h, r)
           from == IF Len(all) > MaxHistory THEN Len(all) - MaxHistory + 1 ELSE 1
           d == from - 1
           n == SubSeq(all, from, Len(all))
<1>1. /\ all \in Seq(B!Records) /\ Len(all) = Len(h) + 1 /\ Len(h) \in Nat
      /\ all[Len(all)] = r /\ \A k \in 1 .. Len(h) : all[k] = h[k]
      /\ DOMAIN h = 1 .. Len(h)
  OBVIOUS
<1> HIDE DEF all
<1>2. MaxHistory \in Nat /\ MaxHistory >= 2
  BY BenchmarkAssumption
<1>3. d \in Nat /\ from = d + 1 /\ from <= Len(all) /\ (d # 0 => Len(all) - d = MaxHistory)
      /\ Len(all) - d <= MaxHistory
  BY <1>1, <1>2
<1> HIDE DEF d, from
<1>4. /\ n \in Seq(B!Records) /\ Len(n) = Len(all) - d /\ DOMAIN n = 1 .. Len(all) - d
      /\ \A k \in 1 .. Len(all) - d : n[k] = all[k + d]
  <2>1. \A k \in from .. Len(all) : k \in DOMAIN all
    BY <1>1, <1>3
  <2>2. n = [k \in 1 .. (1 + Len(all) - from) |-> all[from + k - 1]]
    BY <1>1, <1>3
  <2>3. 1 + Len(all) - from = Len(all) - d /\ Len(all) - d \in Nat
        /\ \A k \in 1 .. Len(all) - d : from + k - 1 = k + d /\ k + d \in DOMAIN all
    BY <1>1, <1>3
  <2>4. n = [k \in 1 .. Len(all) - d |-> all[k + d]]
    BY <2>2, <2>3
  <2> HIDE DEF n
  <2>5. \A k \in 1 .. Len(all) - d : all[k + d] \in B!Records
    BY <1>1, <2>3
  <2>6. QED
    BY <2>3, <2>4, <2>5
<1>5. B!AppendRecord(h, r) = n
  BY <1>1 DEF B!AppendRecord, all, from, n
<1> HIDE DEF n
<1>6. Len(n) >= 1 /\ Len(n) <= MaxHistory /\ Len(n) = Len(h) + 1 - d /\ Len(n) \in DOMAIN n
      /\ Len(n) + d = Len(all)
  BY <1>1, <1>3, <1>4
<1>7. n[Len(n)] = r
  BY <1>1, <1>4, <1>6
<1>8. ASSUME NEW k \in DOMAIN n PROVE k = Len(n) \/ (k + d \in DOMAIN h /\ n[k] = h[k + d])
  <2>1. k \in Int /\ 1 <= k /\ k <= Len(all) - d
    BY <1>4, <1>8
  <2>2. CASE k < Len(n)
    BY <1>1, <1>3, <1>4, <1>6, <2>1, <2>2
  <2>3. QED
    BY <1>3, <1>6, <2>1, <2>2
<1>9. QED
  BY <1>3, <1>4, <1>5, <1>6, <1>7, <1>8

\* A cap that is authorized is a number.
LEMMA CapsAreNumbers ==
    ASSUME NEW s \in Strategies
    PROVE  /\ \A c : B!MeasuredFpsCap(s, c) # None => B!MeasuredFpsCap(s, c) \in Nat
           /\ \A a : B!LegacyAggregateFpsCap(s, a) # None => B!LegacyAggregateFpsCap(s, a) \in Nat
<1>1. s \in [kind : {"raw"}, cap : Nat] \cup [kind : {"vrr"}, refresh : Nat, margin : Nat]
  BY BenchmarkAssumption
<1>2. B!RequestedCap(s) \in Int
  BY <1>1 DEF B!RequestedCap
<1>3. ASSUME NEW c, B!MeasuredFpsCap(s, c) # None PROVE B!MeasuredFpsCap(s, c) \in Nat
  BY <1>2, <1>3 DEF B!MeasuredFpsCap, B!SustainableCap
<1>4. ASSUME NEW a, B!LegacyAggregateFpsCap(s, a) # None
      PROVE  B!LegacyAggregateFpsCap(s, a) \in Nat
  <2> DEFINE q == B!RequestedCap(s)
             none == s.kind = "raw" /\ s.cap = 0
             met == q > 0 /\ a.p1 >= 10 * q /\ a.runs >= MinRuns
  <2>1. (met => q \in Nat) /\ (none => ~met)
    BY <1>2 DEF B!RequestedCap
  <2>2. B!LegacyAggregateFpsCap(s, a) = CASE none -> 0 [] met -> q [] OTHER -> None
    BY DEF B!LegacyAggregateFpsCap
  <2> HIDE DEF q, met, none
  <2>3. QED
    BY <1>4, <2>1, <2>2
<1>5. QED
  BY <1>3, <1>4

\* What a record holds.
LEMMA RecordHolds ==
    ASSUME NEW at \in Nat, NEW label \in B!Labels \cup {B!BaselineLabel},
           NEW a \in B!Figures, NEW evidence \in {None} \cup Captures,
           NEW receipt \in {None} \cup Nat, NEW txn \in {None, B!Txn}
    PROVE  LET r == B!Record(at, label, a, evidence, receipt, txn)
           IN  /\ r \in B!Records /\ r.at = at /\ r.label = label /\ r.capture = a
               /\ r.evidence = evidence /\ r.receipt = receipt /\ r.txn = txn
  BY DEF B!Record, B!Records

\* The labels differ.
LEMMA LabelsDiffer ==
    /\ B!BaselineLabel \notin B!Labels /\ B!FinalLabel \in B!Labels
    /\ B!BaselineLabel # B!FinalLabel
  BY DEF B!BaselineLabel, B!Labels, B!FinalLabel

\* The figures of a capture.
LEMMA AggregateFigures == \A c \in Captures : B!Aggregate(c) \in B!Figures
  BY DEF B!Figures

\* What is true of all records and of the new one is true of a history with it.
LEMMA HistoryExtended ==
    ASSUME NEW h \in Seq(B!Records), HistorySound(h), NEW r \in B!Records, RecordSound(r)
    PROVE  HistorySound(B!AppendRecord(h, r))
<1> DEFINE n == B!AppendRecord(h, r)
<1>1. PICK d \in Nat : /\ n[Len(n)] = r
                       /\ \A k \in DOMAIN n :
                             k = Len(n) \/ (k + d \in DOMAIN h /\ n[k] = h[k + d])
  BY AppendedRecord
<1> HIDE DEF n
<1>2. QED
  BY <1>1 DEF HistorySound, n

\* An advisory capture touches neither benchmark, as long as the state has no
\* receipt.
LEMMA AdvisoryGood ==
    ASSUME NEW s, NEW p, NEW h, Good(s, p, h), s.final = None,
           NEW a \in B!Figures, NEW evidence \in {None} \cup Captures, NEW cap \in Nat,
           NEW at \in Nat, NEW label \in B!Labels
    PROVE  LET s1 == [s EXCEPT !.capture = a, !.cap = cap, !.capAt = at]
               h1 == B!AppendRecord(h, B!Record(at, label, a, evidence, None, None))
           IN  /\ s1 \in B!States /\ h1 \in Seq(B!Records)
               /\ Good(s1, p, h) /\ Good(s1, p, h1)
<1> DEFINE s1 == [s EXCEPT !.capture = a, !.cap = cap, !.capAt = at]
           r == B!Record(at, label, a, evidence, None, None)
           h1 == B!AppendRecord(h, r)
<1>1. s \in B!States /\ p \in B!Progresses /\ h \in Seq(B!Records) /\ Len(h) <= MaxHistory
      /\ StateSound(s) /\ HistorySound(h) /\ BothAgree(s, h) /\ CompleteAgree(s, p, h)
  BY DEF Good
<1>2. s1 \in B!States /\ s1.final = None /\ s1.stage = s.stage /\ s1.baseline = s.baseline
  BY <1>1 DEF B!States
<1>3. /\ r \in B!Records /\ r.label \in B!Labels /\ r.receipt = None /\ r.txn = None
  BY RecordHolds
<1>4. PICK d \in Nat :
        /\ h1 \in Seq(B!Records) /\ Len(h1) <= MaxHistory /\ h1[Len(h1)] = r
        /\ \A k \in DOMAIN h1 : k = Len(h1) \/ (k + d \in DOMAIN h /\ h1[k] = h[k + d])
  BY <1>1, <1>3, AppendedRecord
<1>5. HistorySound(h1)
  <2>1. RecordSound(r)
    BY <1>3, LabelsDiffer DEF RecordSound
  <2> HIDE DEF r
  <2>2. QED
    BY <1>1, <1>3, <2>1, HistoryExtended
<1> HIDE DEF s1, r, h1
<1>6. StateSound(s1)
  BY <1>1, <1>2 DEF StateSound
<1>7. p.final = None
  BY <1>1 DEF CompleteAgree
<1>8. BothAgree(s1, h)
  BY <1>1, <1>2 DEF BothAgree
<1>9. BothAgree(s1, h1)
  <2>1. \A k \in DOMAIN h1 : h1[k] = r \/ \E j \in DOMAIN h : h1[k] = h[j]
    BY <1>4
  <2>2. s1.stage = "armed" \/ \A k \in DOMAIN h1 : h1[k].receipt = None
    BY <1>1, <1>2, <1>3, <2>1 DEF BothAgree
  <2>3. \A k \in BaselineOf(h1) : \E j \in BaselineOf(h) : h1[k] = h[j]
    BY <1>3, <2>1, LabelsDiffer DEF BaselineOf
  <2>4. QED
    BY <1>1, <1>2, <2>2, <2>3 DEF BothAgree
<1>10. CompleteAgree(s1, p, h) /\ CompleteAgree(s1, p, h1)
  BY <1>7 DEF CompleteAgree
<1>11. QED
  BY <1>1, <1>2, <1>4, <1>5, <1>6, <1>8, <1>9, <1>10 DEF Good, s1, h1, r

\* A baseline is recorded once, after whatever the history holds.
LEMMA BaselineGood ==
    ASSUME NEW s, NEW p, NEW h, Good(s, p, h), NEW c \in Captures, NEW at \in Nat,
           B!CaptureIsComplete(B!Aggregate(c)),
           \A k \in BaselineOf(h) : h[k].capture = B!Aggregate(c),
           s.baseline # None => BaselineOf(h) # {}
    PROVE  LET a == B!Aggregate(c)
               s1 == [s EXCEPT !.baseline = a]
               p1 == [p EXCEPT !.baseline = at]
               h1 == IF BaselineOf(h) = {}
                     THEN B!AppendRecord(h, B!Record(at, B!BaselineLabel, a, c, None, None))
                     ELSE h
           IN  /\ s1 \in B!States /\ p1 \in B!Progresses /\ h1 \in Seq(B!Records)
               /\ p1.final = p.final
               /\ Good(s, p, h1) /\ Good(s1, p, h1) /\ Good(s1, p1, h1)
<1> DEFINE a == B!Aggregate(c)
           s1 == [s EXCEPT !.baseline = a]
           p1 == [p EXCEPT !.baseline = at]
           r == B!Record(at, B!BaselineLabel, a, c, None, None)
           n == B!AppendRecord(h, r)
           h1 == IF BaselineOf(h) = {} THEN n ELSE h
<1>1. s \in B!States /\ p \in B!Progresses /\ h \in Seq(B!Records) /\ Len(h) <= MaxHistory
      /\ StateSound(s) /\ HistorySound(h) /\ BothAgree(s, h) /\ CompleteAgree(s, p, h)
  BY DEF Good
<1>2. a \in B!Figures
  BY AggregateFigures
<1>3. /\ s1 \in B!States /\ s1.final = s.final /\ s1.stage = s.stage /\ s1.baseline = a
      /\ s1.cap = s.cap /\ s1.capture = s.capture /\ s1.capAt = s.capAt
  BY <1>1, <1>2 DEF B!States
<1>4. p1 \in B!Progresses /\ p1.final = p.final
  <2>1. p = [baseline |-> p.baseline, final |-> p.final, ready |-> p.ready]
        /\ p.final \in {None} \cup Nat /\ p.ready \in BOOLEAN
    BY <1>1 DEF B!Progresses
  <2>2. p1 = [baseline |-> at, final |-> p.final, ready |-> p.ready]
    BY <2>1
  <2>3. QED
    BY <2>1, <2>2 DEF B!Progresses
<1>5. /\ r \in B!Records /\ r.label = B!BaselineLabel /\ r.receipt = None /\ r.txn = None
      /\ r.capture = a /\ r.evidence = c
  BY <1>2, RecordHolds
<1>6. RecordSound(r)
  BY <1>5, BenchmarkAssumption DEF RecordSound
<1> HIDE DEF r, a
<1>7. PICK d \in Nat :
        /\ n \in Seq(B!Records) /\ Len(n) >= 1 /\ Len(n) <= MaxHistory
        /\ Len(n) = Len(h) + 1 - d /\ n[Len(n)] = r
        /\ \A k \in DOMAIN n : k = Len(n) \/ (k + d \in DOMAIN h /\ n[k] = h[k + d])
        /\ d # 0 => Len(n) = MaxHistory
  BY <1>1, <1>5, AppendedRecord
<1>8. HistorySound(n)
  BY <1>1, <1>5, <1>6, HistoryExtended
<1> HIDE DEF n, s1, p1
<1>9. \A k \in DOMAIN n : (k = Len(n) /\ n[k] = r) \/ \E j \in DOMAIN h : n[k] = h[j]
  BY <1>7
<1>10. ASSUME BaselineOf(h) = {}
       PROVE  /\ BothAgree(s, n) /\ CompleteAgree(s, p, n)
              /\ \A k \in BaselineOf(n) : n[k].capture = a
  <2>1. \A k \in BaselineOf(n) : n[k] = r
    BY <1>9, <1>10 DEF BaselineOf
  <2>2. \A k \in Prefix(n) : \E j \in Prefix(h) : n[k] = h[j]
    BY <1>5, <1>9, LabelsDiffer DEF Prefix
  <2>3. BothAgree(s, n)
    <3>1. s.baseline = None
      BY <1>10
    <3>2. s.final = None => s.stage = "armed" \/ \A k \in DOMAIN n : n[k].receipt = None
      BY <1>1, <1>5, <1>9 DEF BothAgree
    <3>3. s.final # None => \A k \in Prefix(n) : B!Matches(s.final, n[k])
      BY <1>1, <2>2 DEF BothAgree
    <3>4. QED
      BY <3>1, <3>2, <3>3 DEF BothAgree
  <2>4. ASSUME p.final # None PROVE CompleteAgree(s, p, n)
    <3>1. s.final # None /\ p.final = s.final.at
      BY <1>1, <2>4 DEF CompleteAgree
    <3>2. PICK k \in DOMAIN h : B!Matches(s.final, h[k]) /\ Prefix(h) = {k} /\ k = Len(h)
      BY <1>1, <1>10, <2>4 DEF CompleteAgree
    <3>3. Len(h) \in Nat /\ Len(n) \in Nat /\ DOMAIN n = 1 .. Len(n) /\ k >= 1
      BY <1>1, <1>7, <3>2
    <3>4. k - d \in DOMAIN n /\ k - d = Len(n) - 1 /\ k - d # Len(n)
      BY <1>1, <1>7, <3>2, <3>3, BenchmarkAssumption
    <3>5. (k - d) + d = k
      BY <3>2, <3>3
    <3>6. n[k - d] = h[k]
      BY <1>7, <3>4, <3>5
    <3>7. k - d \in Prefix(n)
      BY <3>2, <3>4, <3>6 DEF Prefix
    <3>8. \A j \in Prefix(n) : j = k - d
      <4> SUFFICES ASSUME NEW j \in Prefix(n) PROVE j = k - d
        OBVIOUS
      <4>1. j \in DOMAIN n /\ j # Len(n)
        BY <1>5, <1>7, LabelsDiffer DEF Prefix
      <4>2. j + d \in Prefix(h)
        BY <1>7, <4>1 DEF Prefix
      <4>3. j + d = k /\ j \in Int
        BY <3>2, <3>3, <4>1, <4>2
      <4>4. QED
        BY <4>3
    <3>9. Len(n) \in BaselineOf(n)
      BY <1>5, <1>7, <3>3 DEF BaselineOf
    <3>10. Prefix(n) = {k - d}
      BY <3>7, <3>8
    <3>11. QED
      BY <3>1, <3>2, <3>4, <3>6, <3>9, <3>10 DEF CompleteAgree
  <2>5. QED
    BY <1>5, <2>1, <2>3, <2>4 DEF CompleteAgree
<1>11. /\ h1 \in Seq(B!Records) /\ Len(h1) <= MaxHistory /\ HistorySound(h1)
       /\ BothAgree(s, h1) /\ CompleteAgree(s, p, h1)
       /\ \A k \in BaselineOf(h1) : h1[k].capture = a
  BY <1>1, <1>7, <1>8, <1>10 DEF a
<1> HIDE DEF h1
<1>12. StateSound(s1) /\ BothAgree(s1, h1)
  BY <1>1, <1>3, <1>11 DEF StateSound, BothAgree
<1>13. CompleteAgree(s1, p, h1) /\ CompleteAgree(s1, p1, h1)
  BY <1>3, <1>4, <1>11 DEF CompleteAgree
<1>14. Good(s, p, h1) /\ Good(s1, p, h1) /\ Good(s1, p1, h1)
  BY <1>1, <1>3, <1>4, <1>11, <1>12, <1>13 DEF Good
<1>15. QED
  BY <1>3, <1>4, <1>11, <1>14 DEF s1, p1, h1, n, r, a

\* The state once it carries receipt r, and what it holds.
Carrying(s, r) == [s EXCEPT !.capture = r.capture, !.cap = r.cap, !.capAt = r.at,
                            !.final = r, !.stage = "complete"]

\* The state that carries a receipt has the receipt's cap and capture.
LEMMA StateHolds ==
    ASSUME NEW s \in B!States, NEW r \in B!Receipts
    PROVE  LET s1 == Carrying(s, r)
           IN  /\ s1 \in B!States /\ s1.final = r /\ s1.stage = "complete"
               /\ s1.baseline = s.baseline /\ s1.cap = r.cap /\ s1.capture = r.capture
               /\ s1.capAt = r.at
<1> DEFINE a == r.capture
           cap == r.cap
           at == r.at
           m == [s EXCEPT !.capture = a, !.cap = cap, !.capAt = at]
           n == [m EXCEPT !.final = r]
           s1 == [n EXCEPT !.stage = "complete"]
<1>1. a \in B!Figures /\ cap \in Nat /\ at \in Nat
  BY DEF B!Receipts
<1> HIDE DEF a, cap, at
<1>2. m \in B!States /\ m.baseline = s.baseline /\ m.cap = cap /\ m.capture = a /\ m.capAt = at
  BY <1>1 DEF B!States
<1>3. s1 = [[m EXCEPT !.final = r] EXCEPT !.stage = "complete"]
  OBVIOUS
<1> HIDE DEF m
<1>4. /\ n \in B!States /\ n.baseline = s.baseline /\ n.cap = cap /\ n.capture = a
      /\ n.capAt = at /\ n.final = r
  BY <1>2 DEF B!States
<1> HIDE DEF n
<1>5. /\ s1 \in B!States /\ s1.baseline = s.baseline /\ s1.cap = cap /\ s1.capture = a
      /\ s1.capAt = at /\ s1.final = r /\ s1.stage = "complete"
  BY <1>4 DEF B!States
<1>6. Carrying(s, r) = s1
  BY DEF Carrying, n, m, a, cap, at
<1>7. QED
  BY <1>5, <1>6 DEF a, cap, at

\* The final benchmark takes the place of what an attempt has left of it.
LEMMA FinalGood ==
    ASSUME NEW s, NEW p, NEW h, Good(s, p, h), p.final = None,
           NEW r \in B!Receipts, Proven(r.capture, r.evidence),
           r.evidence # None => r.cap = B!MeasuredFpsCap(strategy, r.evidence),
           s.final # None => s.final = r, s.final = None => s.stage = "armed"
    PROVE  LET s1 == Carrying(s, r)
               p1 == [p EXCEPT !.final = r.at]
               h1 == B!AppendRecord(Retained(h, DOMAIN h \ Prefix(h)),
                                    B!Record(r.at, B!FinalLabel, r.capture, r.evidence, r.id,
                                             B!Txn))
           IN  /\ s1 \in B!States /\ p1 \in B!Progresses /\ h1 \in Seq(B!Records)
               /\ Good(s, p, h1) /\ Good(s1, p, h1) /\ Good(s1, p1, h1)
<1> DEFINE s1 == Carrying(s, r)
           p1 == [p EXCEPT !.final = r.at]
           K == DOMAIN h \ Prefix(h)
           o == Retained(h, K)
           x == B!Record(r.at, B!FinalLabel, r.capture, r.evidence, r.id, B!Txn)
           h1 == B!AppendRecord(o, x)
<1>1. s \in B!States /\ p \in B!Progresses /\ h \in Seq(B!Records) /\ Len(h) <= MaxHistory
      /\ StateSound(s) /\ HistorySound(h) /\ BothAgree(s, h) /\ CompleteAgree(s, p, h)
  BY DEF Good
<1>2. /\ r.id \in Nat /\ r.at \in Nat /\ r.capture \in B!Figures
      /\ r.evidence \in {None} \cup Captures /\ r.cap \in Nat
  BY DEF B!Receipts
<1>3. /\ s1 \in B!States /\ s1.final = r /\ s1.stage = "complete" /\ s1.baseline = s.baseline
      /\ s1.cap = r.cap /\ s1.capture = r.capture /\ s1.capAt = r.at
  BY <1>1, StateHolds
<1>4. p1 \in B!Progresses /\ p1.final = r.at
  <2>1. p = [baseline |-> p.baseline, final |-> p.final, ready |-> p.ready]
        /\ p.baseline \in {None} \cup Nat /\ p.ready \in BOOLEAN
    BY <1>1 DEF B!Progresses
  <2>2. p1 = [baseline |-> p.baseline, final |-> r.at, ready |-> p.ready]
    BY <2>1
  <2>3. QED
    BY <1>2, <2>1, <2>2 DEF B!Progresses
<1>5. /\ x \in B!Records /\ x.label = B!FinalLabel /\ x.receipt = r.id /\ x.txn = B!Txn
      /\ x.capture = r.capture /\ x.evidence = r.evidence /\ B!Matches(r, x)
  <2>1. B!FinalLabel \in B!Labels \cup {B!BaselineLabel} /\ B!Txn \in {None, B!Txn}
        /\ r.id \in {None} \cup Nat
    BY <1>2, LabelsDiffer
  <2>2. /\ x \in B!Records /\ x.label = B!FinalLabel /\ x.receipt = r.id /\ x.txn = B!Txn
        /\ x.capture = r.capture /\ x.evidence = r.evidence
    <3> DEFINE a == r.capture
               e == r.evidence
               at == r.at
               id == r.id
    <3>1. a \in B!Figures /\ e \in {None} \cup Captures /\ at \in Nat /\ id \in {None} \cup Nat
      BY <1>2, <2>1
    <3> HIDE DEF a, e, at, id
    <3>2. LET z == B!Record(at, B!FinalLabel, a, e, id, B!Txn)
          IN  /\ z \in B!Records /\ z.at = at /\ z.label = B!FinalLabel /\ z.capture = a
              /\ z.evidence = e /\ z.receipt = id /\ z.txn = B!Txn
      BY <2>1, <3>1 DEF B!Record, B!Records
    <3>3. QED
      BY <3>2 DEF a, e, at, id
  <2>3. B!Matches(r, x)
    BY DEF B!Matches
  <2>4. QED
    BY <2>2, <2>3
<1>6. /\ o \in Seq(B!Records)
      /\ \A k \in DOMAIN o : \E j \in DOMAIN h : j \notin Prefix(h) /\ o[k] = h[j]
  <2>1. K \in SUBSET (DOMAIN h)
    OBVIOUS
  <2> HIDE DEF K
  <2>2. PICK g : /\ Ascending(g, K) /\ DOMAIN g = 1 .. Len(o)
                 /\ o \in Seq(B!Records) /\ \A j \in DOMAIN g : o[j] = h[g[j]]
    BY <1>1, <2>1, RetainedInOrder
  <2> HIDE DEF o
  <2>3. \A j \in DOMAIN g : g[j] \in K
    BY <2>2 DEF Ascending
  <2>4. \A k \in DOMAIN o : \E j \in K : o[k] = h[j]
    BY <2>2, <2>3
  <2>5. QED
    BY <2>2, <2>4 DEF K
<1>7. HistorySound(o)
  BY <1>1, <1>6 DEF HistorySound
<1> HIDE DEF o, x
<1>8. RecordSound(x)
  <2>1. Proven(x.capture, x.evidence)
    BY <1>5
  <2>2. x.receipt # None /\ x.label # B!BaselineLabel
    BY <1>2, <1>5, LabelsDiffer, BenchmarkAssumption
  <2>3. QED
    BY <1>5, <2>1, <2>2 DEF RecordSound
<1>9. PICK d \in Nat :
        /\ h1 \in Seq(B!Records) /\ Len(h1) >= 1 /\ Len(h1) <= MaxHistory
        /\ h1[Len(h1)] = x
        /\ \A k \in DOMAIN h1 : k = Len(h1) \/ (k + d \in DOMAIN o /\ h1[k] = o[k + d])
  BY <1>5, <1>6, AppendedRecord
<1>10. HistorySound(h1)
  BY <1>5, <1>6, <1>7, <1>8, HistoryExtended
<1> HIDE DEF h1, s1, p1
<1>11. \A k \in DOMAIN h1 : \/ k = Len(h1) /\ h1[k] = x
                            \/ k # Len(h1) /\ \E j \in DOMAIN h : j \notin Prefix(h) /\ h1[k] = h[j]
  BY <1>6, <1>9
<1>12. Len(h1) \in DOMAIN h1 /\ Prefix(h1) = {Len(h1)}
  <2>1. Len(h1) \in DOMAIN h1
    BY <1>9
  <2>2. \A k \in Prefix(h1) : k = Len(h1)
    BY <1>11 DEF Prefix
  <2>3. Len(h1) \in Prefix(h1)
    BY <1>5, <1>9, <2>1 DEF Prefix
  <2>4. QED
    BY <2>1, <2>2, <2>3
<1>13. \A k \in BaselineOf(h1) : \E j \in BaselineOf(h) : h1[k] = h[j]
  BY <1>5, <1>11, LabelsDiffer DEF BaselineOf
<1>14. BothAgree(s, h1) /\ BothAgree(s1, h1)
  <2>1. r # None
    BY BenchmarkAssumption
  <2>2. \A k \in Prefix(h1) : B!Matches(r, h1[k])
    BY <1>5, <1>9, <1>12
  <2>3. s.baseline # None => \A k \in BaselineOf(h1) : h1[k].capture = s.baseline
    BY <1>1, <1>13 DEF BothAgree
  <2>4. QED
    BY <1>3, <2>1, <2>2, <2>3 DEF BothAgree
<1>15. StateSound(s1)
  BY <1>3, BenchmarkAssumption DEF StateSound
<1>16. CompleteAgree(s, p, h1) /\ CompleteAgree(s1, p, h1)
  BY DEF CompleteAgree
<1>17. CompleteAgree(s1, p1, h1)
  BY <1>3, <1>4, <1>5, <1>9, <1>12, BenchmarkAssumption DEF CompleteAgree
<1>18. Good(s, p, h1) /\ Good(s1, p, h1) /\ Good(s1, p1, h1)
  BY <1>1, <1>3, <1>4, <1>9, <1>10, <1>14, <1>15, <1>16, <1>17 DEF Good
<1>19. QED
  BY <1>3, <1>4, <1>9, <1>18 DEF s1, p1, h1, o, x, K

\* The invariant holds at the start.
LEMMA BenchmarkInit == B!Init => BenchmarkInv
<1> SUFFICES ASSUME B!Init PROVE BenchmarkInv
  OBVIOUS
<1>1. state = [baseline |-> None, capture |-> None, cap |-> 0, capAt |-> 0,
               final |-> None, stage |-> "none"]
      /\ progress = [baseline |-> None, final |-> None, ready |-> FALSE]
      /\ history = <<>> /\ clock = 0 /\ strategy \in Strategies /\ commit = B!Idle
  BY DEF B!Init
<1>2. state \in B!States
  BY <1>1 DEF B!States
<1>3. FALSE \in BOOLEAN
  OBVIOUS
<1>4. progress \in B!Progresses /\ progress.final = None
  BY <1>1, <1>3 DEF B!Progresses
<1>5. history \in Seq(B!Records) /\ Len(history) = 0 /\ DOMAIN history = {}
  BY <1>1
<1>6. StateSound(state) /\ HistorySound(history)
  BY <1>1, <1>5 DEF StateSound, HistorySound
<1>7. BothAgree(state, history) /\ CompleteAgree(state, progress, history)
  BY <1>1, <1>4, <1>5 DEF BothAgree, CompleteAgree
<1>8. Good(state, progress, history)
  BY <1>2, <1>4, <1>5, <1>6, <1>7, BenchmarkAssumption DEF Good
<1>9. QED
  BY <1>1, <1>8 DEF BenchmarkInv

\* What is good depends on the files and on the strategy, which never changes.
LEMMA GoodStays ==
    ASSUME strategy' = strategy
    PROVE  \A s, p, h : Good(s, p, h)' <=> Good(s, p, h)
  BY DEF Good, StateSound, HistorySound, RecordSound, Proven, BothAgree, CompleteAgree,
     B!MeasuredFpsCap

\* A commit is begun with the files as they are.
LEMMA CommitBegins ==
    ASSUME BenchmarkInv, NEW o \in Commits, CommitSound(o),
           B!Commit(o.state, o.progress, o.history, o.todo)
    PROVE  BenchmarkInv'
<1>1. UNCHANGED <<state, progress, history, strategy>> /\ clock' \in Nat
  BY DEF B!Commit, B!files, BenchmarkInv
<1>2. commit' = o
  <2>1. o = [todo |-> o.todo, state |-> o.state, progress |-> o.progress, history |-> o.history]
    BY DEF Commits
  <2>2. QED
    BY <2>1 DEF B!Commit
<1>3. Good(state, progress, history)' /\ CommitSound(o)'
  <2>1. \A s, p, h : Good(s, p, h)' <=> Good(s, p, h)
    BY <1>1, GoodStays
  <2>2. QED
    BY <1>1, <2>1 DEF CommitSound, BenchmarkInv
<1>4. QED
  BY <1>1, <1>2, <1>3 DEF BenchmarkInv

\* An advisory capture is recorded only while the state has no receipt.
LEMMA AdvisoryInv ==
    ASSUME BenchmarkInv, NEW a \in B!Figures, NEW evidence \in {None} \cup Captures,
           NEW cap \in Nat, NEW label \in B!Labels, B!Advisory(a, evidence, cap, label)
    PROVE  BenchmarkInv'
<1> DEFINE at == clock + 1
           s1 == [state EXCEPT !.capture = a, !.cap = cap, !.capAt = at]
           h1 == B!AppendRecord(history, B!Record(at, label, a, evidence, None, None))
           todo == IF a.p1 > 0 THEN <<"state", "history">> ELSE <<"state">>
           o == [todo |-> todo, state |-> s1, progress |-> progress, history |-> h1]
<1>1. state.final = None /\ B!Commit(s1, progress, h1, todo)
  BY DEF B!Advisory
<1>2. at \in Nat /\ Good(state, progress, history) /\ progress \in B!Progresses
  BY DEF BenchmarkInv, Good
<1> HIDE DEF at
<1>3. /\ s1 \in B!States /\ h1 \in Seq(B!Records)
      /\ Good(s1, progress, history) /\ Good(s1, progress, h1)
  BY <1>1, <1>2, AdvisoryGood
<1>4. todo = <<"state", "history">> \/ todo = <<"state">>
  OBVIOUS
<1> HIDE DEF s1, h1, todo
<1>5. o.todo = todo /\ o.state = s1 /\ o.progress = progress /\ o.history = h1
  OBVIOUS
<1>6. o \in Commits
  BY <1>2, <1>3, <1>4 DEF Commits
<1> HIDE DEF o
<1>7. CommitSound(o)
  BY <1>3, <1>4, <1>5 DEF CommitSound
<1>8. QED
  BY <1>1, <1>5, <1>6, <1>7, CommitBegins

\* The captures of run_fps_cap.
LEMMA FpsCapInv ==
    ASSUME BenchmarkInv, B!RunFpsCap
    PROVE  BenchmarkInv'
<1>1. CASE B!Advisory(B!Bare, None, 0, "CS2 capture")
  BY <1>1, AdvisoryInv DEF B!Figures, B!Labels
<1>2. CASE \E c \in Captures, s \in Strategies, label \in B!Labels :
             /\ B!MeasuredFpsCap(s, c) # None
             /\ B!Advisory(B!Aggregate(c), c, B!MeasuredFpsCap(s, c), label)
  <2>1. PICK c \in Captures, s \in Strategies, label \in B!Labels :
             /\ B!MeasuredFpsCap(s, c) # None
             /\ B!Advisory(B!Aggregate(c), c, B!MeasuredFpsCap(s, c), label)
    BY <1>2
  <2>2. B!MeasuredFpsCap(s, c) \in Nat /\ B!Aggregate(c) \in B!Figures
    BY <2>1, CapsAreNumbers, AggregateFigures
  <2>3. QED
    BY <2>1, <2>2, AdvisoryInv
<1>3. QED
  BY <1>1, <1>2 DEF B!RunFpsCap

\* The baseline is recorded only where it agrees with what is there.
LEMMA BaselineInv ==
    ASSUME BenchmarkInv, B!RunBaseline
    PROVE  BenchmarkInv'
<1> DEFINE at == IF B!Baselines = {} THEN clock + 1
                 ELSE history[CHOOSE k \in B!Baselines : TRUE].at
<1>1. PICK c \in Captures :
        /\ B!BaselineAccepted(c)
        /\ B!Commit([state EXCEPT !.baseline = B!Aggregate(c)],
                    [progress EXCEPT !.baseline = at],
                    IF B!Baselines = {}
                    THEN B!AppendRecord(history, B!Record(at, B!BaselineLabel, B!Aggregate(c),
                                                          c, None, None))
                    ELSE history,
                    <<"history", "state", "progress">>)
  BY DEF B!RunBaseline
<1>2. B!Baselines = BaselineOf(history)
  BY DEF B!Baselines, BaselineOf
<1>3. Good(state, progress, history) /\ history \in Seq(B!Records) /\ clock \in Nat
  BY DEF BenchmarkInv, Good
<1>4. at \in Nat
  <2>1. CASE B!Baselines = {}
    BY <1>3, <2>1
  <2>2. CASE B!Baselines # {}
    <3>1. (CHOOSE k \in B!Baselines : TRUE) \in DOMAIN history
      BY <2>2 DEF B!Baselines
    <3>2. history[CHOOSE k \in B!Baselines : TRUE] \in B!Records
      BY <1>3, <3>1
    <3>3. QED
      BY <2>2, <3>2 DEF B!Records
  <2>3. QED
    BY <2>1, <2>2
<1>5. /\ B!CaptureIsComplete(B!Aggregate(c))
      /\ \A k \in BaselineOf(history) : history[k].capture = B!Aggregate(c)
      /\ state.baseline # None => BaselineOf(history) # {}
  BY <1>1, <1>2 DEF B!BaselineAccepted
<1> HIDE DEF at
<1> DEFINE s1 == [state EXCEPT !.baseline = B!Aggregate(c)]
           p1 == [progress EXCEPT !.baseline = at]
           h1 == IF BaselineOf(history) = {}
                 THEN B!AppendRecord(history, B!Record(at, B!BaselineLabel, B!Aggregate(c), c,
                                                       None, None))
                 ELSE history
           todo == <<"history", "state", "progress">>
           o == [todo |-> todo, state |-> s1, progress |-> p1, history |-> h1]
<1>6. /\ s1 \in B!States /\ p1 \in B!Progresses /\ h1 \in Seq(B!Records)
      /\ p1.final = progress.final
      /\ Good(state, progress, h1) /\ Good(s1, progress, h1) /\ Good(s1, p1, h1)
  BY <1>3, <1>4, <1>5, BaselineGood
<1>7. B!Commit(s1, p1, h1, todo)
  BY <1>1, <1>2
<1> HIDE DEF s1, p1, h1
<1>8. o.todo = todo /\ o.state = s1 /\ o.progress = p1 /\ o.history = h1
  OBVIOUS
<1>9. o \in Commits
  BY <1>6 DEF Commits
<1> HIDE DEF o
<1>10. CommitSound(o)
  BY <1>6, <1>8 DEF CommitSound
<1>11. QED
  BY <1>7, <1>8, <1>9, <1>10, CommitBegins

\* The receipt of a final benchmark that is accepted.
LEMMA ReceiptSound ==
    ASSUME BenchmarkInv, NEW c \in Captures, B!FinalAccepted(c)
    PROVE  LET r == B!FinalReceipt(c)
           IN  /\ r \in B!Receipts /\ Proven(r.capture, r.evidence)
               /\ r.evidence # None => r.cap = B!MeasuredFpsCap(strategy, r.evidence)
               /\ state.final # None => state.final = r
               /\ state.final = None => state.stage = "armed"
               /\ progress.final = None
<1> DEFINE src == B!Source(c)
           r == B!FinalReceipt(c)
           cap == IF src.evidence = None THEN B!LegacyAggregateFpsCap(strategy, B!Aggregate(c))
                  ELSE B!MeasuredFpsCap(strategy, src.evidence)
<1>1. /\ history \in Seq(B!Records) /\ state \in B!States /\ clock \in Nat
      /\ strategy \in Strategies
  BY DEF BenchmarkInv, Good
<1>2. /\ B!CaptureIsComplete(B!Aggregate(c)) /\ progress.final = None
      /\ B!FinalPrefix # {} => B!PrefixAccepted(B!PrefixRecord, c)
      /\ state.final # None => B!StateAccepted(c)
      /\ state.final = None => state.stage = "armed"
      /\ r.cap # None /\ (state.final # None => state.final = r)
  BY DEF B!FinalAccepted
<1>3. src.id \in Nat /\ src.at \in Nat /\ src.evidence \in {None, c}
  <2>1. CASE B!FinalPrefix # {}
    <3>1. (CHOOSE k \in B!FinalPrefix : TRUE) \in DOMAIN history
      BY <2>1 DEF B!FinalPrefix
    <3>2. B!PrefixRecord \in B!Records
      BY <1>1, <3>1 DEF B!PrefixRecord
    <3>3. B!PrefixRecord.receipt # None /\ B!PrefixRecord.evidence \in {None, c}
      BY <1>2, <2>1 DEF B!PrefixAccepted
    <3>4. B!PrefixRecord.receipt \in Nat /\ B!PrefixRecord.at \in Nat
      BY <3>2, <3>3 DEF B!Records
    <3>5. src = [id |-> B!PrefixRecord.receipt, at |-> B!PrefixRecord.at,
                 evidence |-> B!PrefixRecord.evidence]
      BY <2>1 DEF B!Source
    <3>6. QED
      BY <3>3, <3>4, <3>5
  <2>2. CASE B!FinalPrefix = {} /\ state.final # None
    <3>1. state.final \in B!Receipts
      BY <1>1, <2>2 DEF B!States
    <3>2. state.final.evidence \in {None, c}
      BY <1>2, <2>2 DEF B!StateAccepted
    <3>3. state.final.id \in Nat /\ state.final.at \in Nat
      BY <3>1 DEF B!Receipts
    <3>4. src = [id |-> state.final.id, at |-> state.final.at,
                 evidence |-> state.final.evidence]
      BY <2>2 DEF B!Source
    <3>5. QED
      BY <3>2, <3>3, <3>4
  <2>3. CASE B!FinalPrefix = {} /\ state.final = None
    <3>1. src = [id |-> clock + 1, at |-> clock + 1, evidence |-> c]
      BY <2>3 DEF B!Source
    <3>2. QED
      BY <1>1, <3>1
  <2>4. QED
    BY <2>1, <2>2, <2>3
<1>4. r = [id |-> src.id, at |-> src.at, capture |-> B!Aggregate(c),
           evidence |-> src.evidence, cap |-> cap]
  BY DEF B!FinalReceipt
<1> HIDE DEF src, r
<1>5. cap \in Nat
  BY <1>1, <1>2, <1>4, CapsAreNumbers
<1>6. src.evidence # None => cap = B!MeasuredFpsCap(strategy, src.evidence)
                             /\ src.evidence = c /\ cap # None
  BY <1>2, <1>3, <1>4
<1> HIDE DEF cap
<1>7. /\ r.id = src.id /\ r.at = src.at /\ r.capture = B!Aggregate(c)
      /\ r.evidence = src.evidence /\ r.cap = cap
  BY <1>4
<1>8. r \in B!Receipts
  <2>1. B!Aggregate(c) \in B!Figures /\ src.evidence \in {None} \cup Captures
    BY <1>3, AggregateFigures
  <2>2. QED
    BY <1>3, <1>4, <1>5, <2>1 DEF B!Receipts
<1>9. Proven(r.capture, r.evidence)
  BY <1>2, <1>6, <1>7 DEF Proven
<1>10. QED
  BY <1>2, <1>6, <1>7, <1>8, <1>9 DEF r

\* The final benchmark is recorded.
LEMMA FinalInv ==
    ASSUME BenchmarkInv, B!RunFinal
    PROVE  BenchmarkInv'
<1>1. PICK c \in Captures :
        LET r == B!FinalReceipt(c)
            others == B!Retained(history, DOMAIN history \ B!FinalPrefix)
        IN  /\ B!FinalAccepted(c)
            /\ B!Commit([state EXCEPT !.capture = r.capture, !.cap = r.cap, !.capAt = r.at,
                                      !.final = r, !.stage = "complete"],
                        [progress EXCEPT !.final = r.at],
                        B!AppendRecord(others, B!Record(r.at, B!FinalLabel, r.capture,
                                                        r.evidence, r.id, B!Txn)),
                        <<"history", "state", "progress">>)
  BY DEF B!RunFinal
<1> DEFINE r == B!FinalReceipt(c)
           s1 == Carrying(state, r)
           p1 == [progress EXCEPT !.final = r.at]
           h1 == B!AppendRecord(Retained(history, DOMAIN history \ Prefix(history)),
                                B!Record(r.at, B!FinalLabel, r.capture, r.evidence, r.id, B!Txn))
           todo == <<"history", "state", "progress">>
           o == [todo |-> todo, state |-> s1, progress |-> p1, history |-> h1]
<1>2. /\ r \in B!Receipts /\ Proven(r.capture, r.evidence)
      /\ r.evidence # None => r.cap = B!MeasuredFpsCap(strategy, r.evidence)
      /\ state.final # None => state.final = r
      /\ state.final = None => state.stage = "armed"
      /\ progress.final = None
  BY <1>1, ReceiptSound
<1>3. B!FinalPrefix = Prefix(history)
  BY DEF B!FinalPrefix, Prefix
<1>4. B!Retained(history, DOMAIN history \ Prefix(history))
        = Retained(history, DOMAIN history \ Prefix(history))
  BY DEF B!Retained, Retained, B!Ascending, Ascending, B!Cardinality, Cardinality
<1>5. B!Commit(s1, p1, h1, todo)
  BY <1>1, <1>3, <1>4 DEF Carrying
<1>6. Good(state, progress, history)
  BY DEF BenchmarkInv
<1> HIDE DEF r
<1>7. /\ s1 \in B!States /\ p1 \in B!Progresses /\ h1 \in Seq(B!Records)
      /\ Good(state, progress, h1) /\ Good(s1, progress, h1) /\ Good(s1, p1, h1)
  BY <1>2, <1>6, FinalGood
<1> HIDE DEF s1, p1, h1
<1>8. o.todo = todo /\ o.state = s1 /\ o.progress = p1 /\ o.history = h1
  OBVIOUS
<1>9. o \in Commits
  BY <1>7 DEF Commits
<1> HIDE DEF o
<1>10. CommitSound(o)
  BY <1>2, <1>7, <1>8 DEF CommitSound
<1>11. QED
  BY <1>5, <1>8, <1>9, <1>10, CommitBegins

\* What an earlier release leaves: a record without evidence, and the receipt for it
\* in the state or not.
LEMMA EarlierGood ==
    ASSUME NEW s, NEW p, NEW h, Good(s, p, h), s.stage = "armed", Prefix(h) = {},
           NEW r \in B!Receipts, B!CaptureIsComplete(r.capture), r.evidence = None
    PROVE  LET x == B!Record(r.at, B!FinalLabel, r.capture, None, r.id, B!Txn)
               h1 == B!AppendRecord(h, x)
           IN  Good(s, p, h1) /\ Good(Carrying(s, r), p, h1)
<1> DEFINE x == B!Record(r.at, B!FinalLabel, r.capture, None, r.id, B!Txn)
           h1 == B!AppendRecord(h, x)
           s1 == Carrying(s, r)
<1>1. s \in B!States /\ p \in B!Progresses /\ h \in Seq(B!Records) /\ Len(h) <= MaxHistory
      /\ StateSound(s) /\ HistorySound(h) /\ BothAgree(s, h) /\ CompleteAgree(s, p, h)
  BY DEF Good
<1>2. r.id \in Nat /\ r.at \in Nat /\ r.capture \in B!Figures /\ r.cap \in Nat
  BY DEF B!Receipts
<1>3. /\ s1 \in B!States /\ s1.final = r /\ s1.stage = "complete" /\ s1.baseline = s.baseline
      /\ s1.cap = r.cap /\ s1.capture = r.capture /\ s1.capAt = r.at
  BY <1>1, StateHolds
<1>4. /\ x \in B!Records /\ x.label = B!FinalLabel /\ x.receipt = r.id /\ x.txn = B!Txn
      /\ x.capture = r.capture /\ x.evidence = None /\ B!Matches(r, x)
  <2>1. B!FinalLabel \in B!Labels \cup {B!BaselineLabel}
    BY LabelsDiffer
  <2>2. B!Matches(r, x)
    BY DEF B!Matches
  <2>3. QED
    BY <1>2, <2>1, <2>2 DEF B!Record, B!Records
<1> HIDE DEF x
<1>5. RecordSound(x)
  BY <1>2, <1>4, LabelsDiffer, BenchmarkAssumption DEF RecordSound, Proven
<1>6. PICK d \in Nat :
        /\ h1 \in Seq(B!Records) /\ Len(h1) <= MaxHistory /\ h1[Len(h1)] = x
        /\ \A k \in DOMAIN h1 : k = Len(h1) \/ (k + d \in DOMAIN h /\ h1[k] = h[k + d])
  BY <1>1, <1>4, AppendedRecord
<1>7. HistorySound(h1)
  BY <1>1, <1>4, <1>5, HistoryExtended
<1> HIDE DEF h1, s1
<1>8. \A k \in DOMAIN h1 : h1[k] = x \/ \E j \in DOMAIN h : h1[k] = h[j]
  BY <1>6
<1>9. s.final = None /\ p.final = None
  BY <1>1 DEF StateSound, CompleteAgree
<1>10. \A k \in Prefix(h1) : h1[k] = x
  BY <1>8 DEF Prefix
<1>11. \A k \in BaselineOf(h1) : \E j \in BaselineOf(h) : h1[k] = h[j]
  BY <1>4, <1>8, LabelsDiffer DEF BaselineOf
<1>12. BothAgree(s, h1) /\ BothAgree(s1, h1)
  BY <1>1, <1>3, <1>4, <1>9, <1>10, <1>11, BenchmarkAssumption DEF BothAgree
<1>13. StateSound(s1)
  BY <1>3, BenchmarkAssumption DEF StateSound, Proven
<1>14. CompleteAgree(s, p, h1) /\ CompleteAgree(s1, p, h1)
  BY <1>9 DEF CompleteAgree
<1>15. QED
  BY <1>1, <1>3, <1>6, <1>7, <1>12, <1>13, <1>14 DEF Good, h1, s1, x

\* What an earlier release left is a final benchmark that is not yet complete.
LEMMA EarlierReleaseInv ==
    ASSUME BenchmarkInv, B!EarlierRelease
    PROVE  BenchmarkInv'
<1> DEFINE at == clock + 1
<1>1. /\ commit = B!Idle /\ state.stage = "armed" /\ Prefix(history) = {}
      /\ UNCHANGED <<progress, strategy, commit>> /\ clock' = at /\ at \in Nat
  BY DEF B!EarlierRelease, B!FinalPrefix, Prefix, BenchmarkInv
<1>2. PICK c \in Captures, both \in BOOLEAN :
        LET a == B!Aggregate(c)
            cap == B!LegacyAggregateFpsCap(strategy, a)
        IN  /\ B!CaptureIsComplete(a) /\ cap # None
            /\ history' = B!AppendRecord(history, B!Record(at, B!FinalLabel, a, None, at, B!Txn))
            /\ state' = IF ~both THEN state
                        ELSE [state EXCEPT !.capture = a, !.cap = cap, !.capAt = at,
                                !.stage = "complete",
                                !.final = [id |-> at, at |-> at, capture |-> a,
                                           evidence |-> None, cap |-> cap]]
  BY DEF B!EarlierRelease
<1> DEFINE a == B!Aggregate(c)
           cap == B!LegacyAggregateFpsCap(strategy, a)
           r == [id |-> at, at |-> at, capture |-> a, evidence |-> None, cap |-> cap]
<1>3. B!CaptureIsComplete(a) /\ cap \in Nat /\ a \in B!Figures
  BY <1>2, CapsAreNumbers, AggregateFigures DEF BenchmarkInv
<1>4. /\ history' = B!AppendRecord(history, B!Record(at, B!FinalLabel, a, None, at, B!Txn))
      /\ state' = state
         \/ state' = [state EXCEPT !.capture = a, !.cap = cap, !.capAt = at,
                                   !.stage = "complete", !.final = r]
  BY <1>2
<1> HIDE DEF a, cap, at
<1>5. /\ r \in B!Receipts /\ r.id = at /\ r.at = at /\ r.capture = a /\ r.evidence = None
      /\ r.cap = cap
  BY <1>1, <1>3 DEF B!Receipts
<1> HIDE DEF r
<1>6. state' = state \/ state' = Carrying(state, r)
  <2>1. state \in B!States
    BY DEF BenchmarkInv, Good
  <2>2. [state EXCEPT !.capture = a, !.cap = cap, !.capAt = at, !.stage = "complete",
                      !.final = r]
        = [state EXCEPT !.capture = a, !.cap = cap, !.capAt = at, !.final = r,
                        !.stage = "complete"]
    <3> DEFINE m == [state EXCEPT !.capture = a, !.cap = cap, !.capAt = at]
    <3>1. m \in B!States
      BY <1>1, <1>3, <2>1 DEF B!States
    <3>2. [state EXCEPT !.capture = a, !.cap = cap, !.capAt = at, !.stage = "complete",
                        !.final = r]
            = [[m EXCEPT !.stage = "complete"] EXCEPT !.final = r]
          /\ [state EXCEPT !.capture = a, !.cap = cap, !.capAt = at, !.final = r,
                           !.stage = "complete"]
               = [[m EXCEPT !.final = r] EXCEPT !.stage = "complete"]
      OBVIOUS
    <3> HIDE DEF m
    <3>3. [[m EXCEPT !.stage = "complete"] EXCEPT !.final = r]
            = [[m EXCEPT !.final = r] EXCEPT !.stage = "complete"]
      BY <3>1 DEF B!States
    <3>4. QED
      BY <3>2, <3>3
  <2>3. QED
    BY <1>4, <1>5, <2>2 DEF Carrying
<1>7. Good(state, progress, history)
  BY DEF BenchmarkInv
<1>8. Good(state', progress, history')
  <2>1. B!CaptureIsComplete(r.capture)
    BY <1>3, <1>5
  <2>2. history' = B!AppendRecord(history, B!Record(r.at, B!FinalLabel, r.capture, None, r.id,
                                                    B!Txn))
    BY <1>4, <1>5
  <2>3. LET x == B!Record(r.at, B!FinalLabel, r.capture, None, r.id, B!Txn)
            h1 == B!AppendRecord(history, x)
        IN  Good(state, progress, h1) /\ Good(Carrying(state, r), progress, h1)
    BY <1>1, <1>5, <1>7, <2>1, EarlierGood
  <2>4. QED
    BY <1>6, <2>2, <2>3
<1>9. Good(state, progress, history)'
  BY <1>1, <1>8, GoodStays
<1>10. QED
  BY <1>1, <1>9 DEF BenchmarkInv

\* A write takes the files to the next ones of its commit.
LEMMA WriteInv ==
    ASSUME BenchmarkInv, B!Write
    PROVE  /\ BenchmarkInv'
           /\ progress.final # None => progress'.final # None
<1>1. commit.todo # <<>> /\ UNCHANGED <<strategy, clock>>
  BY DEF B!Write
<1>2. commit # B!Idle
  BY <1>1 DEF B!Idle
<1>3. commit \in Commits /\ CommitSound(commit)
  BY <1>2 DEF BenchmarkInv
<1>4. /\ commit = [todo |-> commit.todo, state |-> commit.state, progress |-> commit.progress,
                   history |-> commit.history]
      /\ commit.state \in B!States /\ commit.progress \in B!Progresses
      /\ commit.history \in Seq(B!Records)
  BY <1>3 DEF Commits
<1>5. \A s, p, h : Good(s, p, h)' <=> Good(s, p, h)
  BY <1>1, GoodStays
<1> DEFINE z == Tail(commit.todo)
<1>6. Len(commit.todo) # 1 => commit' = [todo |-> z, state |-> commit.state,
                                         progress |-> commit.progress,
                                         history |-> commit.history]
  <2>1. Len(commit.todo) # 1 => commit' = [commit EXCEPT !.todo = z]
    BY <1>4 DEF B!Write
  <2> HIDE DEF z
  <2>2. [commit EXCEPT !.todo = z] = [todo |-> z, state |-> commit.state,
                                      progress |-> commit.progress,
                                      history |-> commit.history]
    BY <1>4
  <2>3. QED
    BY <2>1, <2>2
<1> HIDE DEF z
<1> DEFINE More(rest) == /\ commit' = [todo |-> rest, state |-> commit.state,
                                       progress |-> commit.progress,
                                       history |-> commit.history]
                         /\ commit'.todo = rest /\ commit'.state = commit.state
                         /\ commit'.progress = commit.progress
                         /\ commit'.history = commit.history
<1>7. CASE commit.todo = <<"history", "state", "progress">>
  <2>1. /\ Head(commit.todo) = "history" /\ Len(commit.todo) = 3
        /\ Tail(commit.todo) = <<"state", "progress">>
    BY <1>7
  <2>2. history' = commit.history /\ UNCHANGED <<state, progress>>
    BY <2>1 DEF B!Write
  <2>3. Len(commit.todo) # 1 /\ z = <<"state", "progress">>
    BY <2>1 DEF z
  <2>4. More(<<"state", "progress">>)
    BY <1>6, <2>3
  <2>5. commit' \in Commits
    BY <1>4, <2>4 DEF Commits
  <2>6. /\ Good(state, progress, commit.history) /\ Good(commit.state, progress, commit.history)
        /\ Good(commit.state, commit.progress, commit.history)
        /\ progress.final # None => commit.progress.final # None
    BY <1>3, <1>7 DEF CommitSound
  <2>7. CommitSound(commit)' /\ Good(state, progress, history)'
    BY <1>5, <2>2, <2>4, <2>6 DEF CommitSound
  <2>8. QED
    BY <1>1, <2>2, <2>5, <2>7 DEF BenchmarkInv
<1>8. CASE commit.todo = <<"state", "progress">>
  <2>1. /\ Head(commit.todo) = "state" /\ Len(commit.todo) = 2
        /\ Tail(commit.todo) = <<"progress">>
    BY <1>8
  <2>2. state' = commit.state /\ UNCHANGED <<progress, history>>
    BY <2>1 DEF B!Write
  <2>3. Len(commit.todo) # 1 /\ z = <<"progress">>
    BY <2>1 DEF z
  <2>4. More(<<"progress">>)
    BY <1>6, <2>3
  <2>5. commit' \in Commits
    BY <1>4, <2>4 DEF Commits
  <2>6. /\ Good(commit.state, progress, history) /\ Good(commit.state, commit.progress, history)
        /\ progress.final # None => commit.progress.final # None
    BY <1>3, <1>8 DEF CommitSound
  <2>7. CommitSound(commit)' /\ Good(state, progress, history)'
    BY <1>5, <2>2, <2>4, <2>6 DEF CommitSound
  <2>8. QED
    BY <1>1, <2>2, <2>5, <2>7 DEF BenchmarkInv
<1>9. CASE commit.todo = <<"state", "history">>
  <2>1. /\ Head(commit.todo) = "state" /\ Len(commit.todo) = 2
        /\ Tail(commit.todo) = <<"history">>
    BY <1>9
  <2>2. state' = commit.state /\ UNCHANGED <<progress, history>>
    BY <2>1 DEF B!Write
  <2>3. Len(commit.todo) # 1 /\ z = <<"history">>
    BY <2>1 DEF z
  <2>4. More(<<"history">>)
    BY <1>6, <2>3
  <2>5. commit' \in Commits
    BY <1>4, <2>4 DEF Commits
  <2>6. /\ Good(commit.state, progress, history) /\ Good(commit.state, progress, commit.history)
        /\ progress.final # None => commit.progress.final # None
    BY <1>3, <1>9 DEF CommitSound
  <2>7. CommitSound(commit)' /\ Good(state, progress, history)'
    BY <1>5, <2>2, <2>4, <2>6 DEF CommitSound
  <2>8. QED
    BY <1>1, <2>2, <2>5, <2>7 DEF BenchmarkInv
<1>10. CASE commit.todo \in {<<"progress">>, <<"history">>, <<"state">>}
  <2>1. Len(commit.todo) = 1 /\ commit.todo = <<Head(commit.todo)>>
    BY <1>10
  <2>2. commit' = B!Idle
    BY <2>1 DEF B!Write
  <2>3. /\ Good(state', progress', history')
        /\ progress.final # None => progress'.final # None
    <3>1. CASE commit.todo = <<"progress">>
      <4>1. Head(commit.todo) = "progress"
        BY <3>1
      <4>2. progress' = commit.progress /\ UNCHANGED <<state, history>>
        BY <4>1 DEF B!Write
      <4>3. Good(state, commit.progress, history)
            /\ (progress.final # None => commit.progress.final # None)
        BY <1>3, <3>1 DEF CommitSound
      <4>4. QED
        BY <4>2, <4>3
    <3>2. CASE commit.todo = <<"history">>
      <4>1. Head(commit.todo) = "history"
        BY <3>2
      <4>2. history' = commit.history /\ UNCHANGED <<state, progress>>
        BY <4>1 DEF B!Write
      <4>3. Good(state, progress, commit.history)
        BY <1>3, <3>2 DEF CommitSound
      <4>4. QED
        BY <4>2, <4>3
    <3>3. CASE commit.todo = <<"state">>
      <4>1. Head(commit.todo) = "state"
        BY <3>3
      <4>2. state' = commit.state /\ UNCHANGED <<progress, history>>
        BY <4>1 DEF B!Write
      <4>3. Good(commit.state, progress, history)
        BY <1>3, <3>3 DEF CommitSound
      <4>4. QED
        BY <4>2, <4>3
    <3>4. QED
      BY <1>10, <3>1, <3>2, <3>3
  <2>4. Good(state, progress, history)'
    BY <1>5, <2>3
  <2>5. QED
    BY <1>1, <2>2, <2>3, <2>4 DEF BenchmarkInv
<1>11. QED
  BY <1>3, <1>7, <1>8, <1>9, <1>10 DEF Commits

\* A process that stops leaves the files; Phase 3 arrives once.
LEMMA BenchmarkOtherInv ==
    ASSUME BenchmarkInv, B!Stops \/ B!PhaseThree
    PROVE  BenchmarkInv' /\ progress'.final = progress.final
<1>1. Good(state, progress, history) /\ state \in B!States /\ progress \in B!Progresses
  BY DEF BenchmarkInv, Good
<1>2. CASE B!Stops
  <2>1. UNCHANGED <<state, progress, history, strategy, clock>> /\ commit' = B!Idle
    BY <1>2 DEF B!Stops, B!files
  <2>2. Good(state, progress, history)'
    BY <1>1, <2>1, GoodStays
  <2>3. QED
    BY <2>1, <2>2 DEF BenchmarkInv
<1>3. CASE /\ state.stage = "none" /\ state' = [state EXCEPT !.stage = "armed"]
           /\ UNCHANGED <<progress, history, strategy, commit, clock>> /\ commit = B!Idle
  <2>1. /\ state' \in B!States /\ state'.stage = "armed" /\ state'.final = state.final
        /\ state'.baseline = state.baseline
    BY <1>1, <1>3 DEF B!States
  <2>2. StateSound(state) /\ BothAgree(state, history) /\ CompleteAgree(state, progress, history)
        /\ history \in Seq(B!Records) /\ Len(history) <= MaxHistory /\ HistorySound(history)
    BY <1>1 DEF Good
  <2>3. state.final = None
    BY <1>3, <2>2 DEF StateSound
  <2>4. StateSound(state') /\ BothAgree(state', history)
        /\ CompleteAgree(state', progress, history)
    BY <2>1, <2>2, <2>3 DEF StateSound, BothAgree, CompleteAgree
  <2>5. Good(state', progress, history)
    BY <1>1, <2>1, <2>2, <2>4 DEF Good
  <2>6. Good(state, progress, history)'
    BY <1>3, <2>5, GoodStays
  <2>7. QED
    BY <1>3, <2>6 DEF BenchmarkInv
<1>4. CASE /\ progress' = [progress EXCEPT !.ready = TRUE]
           /\ UNCHANGED <<state, history, strategy, commit, clock>> /\ commit = B!Idle
  <2>1. progress = [baseline |-> progress.baseline, final |-> progress.final,
                    ready |-> progress.ready]
        /\ progress.baseline \in {None} \cup Nat /\ progress.final \in {None} \cup Nat
    BY <1>1 DEF B!Progresses
  <2>2. progress' = [baseline |-> progress.baseline, final |-> progress.final, ready |-> TRUE]
    BY <1>4, <2>1
  <2>3. progress' \in B!Progresses /\ progress'.final = progress.final
    BY <2>1, <2>2 DEF B!Progresses
  <2>4. Good(state, progress', history)
    BY <1>1, <2>3 DEF Good, CompleteAgree
  <2>5. Good(state, progress, history)'
    BY <1>4, <2>4, GoodStays
  <2>6. QED
    BY <1>4, <2>3, <2>5 DEF BenchmarkInv
<1>5. QED
  BY <1>2, <1>3, <1>4 DEF B!PhaseThree

\* Every step keeps the invariant, and a final benchmark that is complete stays so.
LEMMA BenchmarkStep ==
    ASSUME BenchmarkInv, B!Next \/ UNCHANGED benchmarkVars
    PROVE  /\ BenchmarkInv'
           /\ progress.final # None => progress'.final # None
<1>1. CASE UNCHANGED benchmarkVars
  <2>1. UNCHANGED <<state, progress, history, strategy, commit, clock>>
    BY <1>1 DEF benchmarkVars
  <2>2. \A s, p, h : Good(s, p, h)' <=> Good(s, p, h)
    BY <2>1, GoodStays
  <2>3. CommitSound(commit) => CommitSound(commit)'
    BY <2>1, <2>2 DEF CommitSound
  <2>4. QED
    BY <2>1, <2>2, <2>3 DEF BenchmarkInv
<1>2. CASE B!RunFpsCap \/ B!RunBaseline \/ B!RunFinal
  <2>1. progress' = progress
    BY <1>2 DEF B!RunFpsCap, B!Advisory, B!RunBaseline, B!RunFinal, B!Commit, B!files
  <2>2. QED
    BY <1>2, <2>1, FpsCapInv, BaselineInv, FinalInv
<1>3. CASE B!EarlierRelease
  BY <1>3, EarlierReleaseInv DEF B!EarlierRelease
<1>4. QED
  BY <1>1, <1>2, <1>3, WriteInv, BenchmarkOtherInv DEF B!Next

\* A step of the suite is a step on the benchmark files or leaves them alone.
LEMMA BenchmarkPart ==
    ASSUME [PartsNext]_allVars
    PROVE  B!Next \/ UNCHANGED benchmarkVars
  BY DEF PartsNext, allVars

\* The invariant of the benchmark files holds in every reachable state.
THEOREM BenchmarkInvariant == PartsSpec => []BenchmarkInv
<1>1. PartsInit => BenchmarkInv
  BY BenchmarkInit DEF PartsInit
<1>2. BenchmarkInv /\ [PartsNext]_allVars => BenchmarkInv'
  BY BenchmarkPart, BenchmarkStep
<1>3. QED
  BY <1>1, <1>2, PTL DEF PartsSpec

\* The files agree about a final benchmark exactly when its progress says so.
LEMMA CoherentFiles ==
    ASSUME BenchmarkInv
    PROVE  B!Coherent <=> progress.final # None
<1>1. /\ state \in B!States /\ StateSound(state)
      /\ CompleteAgree(state, progress, history) /\ history \in Seq(B!Records)
  BY DEF BenchmarkInv, Good
<1>2. ASSUME B!Coherent PROVE progress.final # None
  <2>1. state.final \in B!Receipts /\ progress.final = state.final.at
    BY <1>1, <1>2 DEF B!Coherent, B!States
  <2>2. QED
    BY <2>1, BenchmarkAssumption DEF B!Receipts
<1>3. ASSUME progress.final # None PROVE B!Coherent
  <2>1. state.final # None /\ progress.final = state.final.at
    BY <1>1, <1>3 DEF CompleteAgree
  <2>2. /\ state.stage = "complete" /\ state.cap = state.final.cap
        /\ state.capture = state.final.capture /\ state.capAt = state.final.at
    BY <1>1, <2>1 DEF StateSound
  <2>3. PICK k \in DOMAIN history : B!Matches(state.final, history[k]) /\ Prefix(history) = {k}
    BY <1>1, <1>3 DEF CompleteAgree
  <2> DEFINE mine == {j \in DOMAIN history : history[j].receipt = state.final.id
                                             \/ history[j].txn = B!Txn}
  <2>4. state.final.id # None
    BY <1>1, <2>1, BenchmarkAssumption DEF B!States, B!Receipts
  <2>5. \A j \in mine : j \in Prefix(history)
    BY <2>4, BenchmarkAssumption DEF Prefix
  <2>6. k \in mine
    BY <2>3 DEF B!Matches, B!Record
  <2>7. mine = {k}
    BY <2>3, <2>5, <2>6
  <2> HIDE DEF mine
  <2>8. B!Cardinality(mine) = 1
    <3>1. Cardinality(mine) = 1
      BY <2>7, FS_Singleton
    <3>2. QED
      BY <3>1 DEF B!Cardinality, Cardinality
  <2>9. \A j \in mine : B!Matches(state.final, history[j])
    BY <2>3, <2>7
  <2>10. QED
    BY <2>1, <2>2, <2>8, <2>9 DEF B!Coherent, mine
<1>4. QED
  BY <1>2, <1>3

\* No later capture makes the files disagree about a recorded final benchmark.
THEOREM FinalBenchmarkStays == PartsSpec => FinalStays
<1>1. BenchmarkInv /\ BenchmarkInv' /\ [PartsNext]_allVars
        => [B!Coherent => B!Coherent']_(B!vars)
  <2> SUFFICES ASSUME BenchmarkInv, BenchmarkInv', [PartsNext]_allVars, B!Coherent
               PROVE  B!Coherent'
    OBVIOUS
  <2>1. progress.final # None
    BY CoherentFiles
  <2>2. progress'.final # None
    BY <2>1, BenchmarkPart, BenchmarkStep
  <2>3. (B!Coherent <=> progress.final # None)'
    BY CoherentFiles, PTL
  <2>4. QED
    BY <2>2, <2>3
<1>2. QED
  BY <1>1, BenchmarkInvariant, PTL DEF PartsSpec, FinalStays, B!FinalStays

\* What a record that matches a receipt holds.
LEMMA MatchHolds ==
    ASSUME NEW r, NEW rec, B!Matches(r, rec)
    PROVE  /\ rec.label = B!FinalLabel /\ rec.receipt = r.id /\ rec.txn = B!Txn
           /\ rec.capture = r.capture /\ rec.evidence = r.evidence /\ rec.at = r.at
  BY DEF B!Matches, B!Record

\* A record of the final benchmark matches the receipt made from it.
LEMMA MatchMade ==
    ASSUME NEW rec \in B!Records, rec.label = B!FinalLabel, rec.txn = B!Txn, NEW cap
    PROVE  B!Matches([id |-> rec.receipt, at |-> rec.at, capture |-> rec.capture,
                      evidence |-> rec.evidence, cap |-> cap], rec)
<1>1. rec = [at |-> rec.at, label |-> rec.label, capture |-> rec.capture,
             evidence |-> rec.evidence, receipt |-> rec.receipt, txn |-> rec.txn]
  BY DEF B!Records
<1>2. QED
  BY <1>1 DEF B!Matches, B!Record

\* Two members of a set with at most one are the same.
LEMMA OneAtMost ==
    ASSUME NEW P, IsFiniteSet(P), Cardinality(P) <= 1, NEW x \in P, NEW y \in P
    PROVE  x = y
<1> SUFFICES ASSUME x # y PROVE FALSE
  OBVIOUS
<1>1. {x, y} \subseteq P /\ IsFiniteSet({x}) /\ Cardinality({x}) = 1 /\ y \notin {x}
  BY FS_Singleton
<1>2. Cardinality({x} \cup {y}) = 2 /\ {x} \cup {y} = {x, y}
  BY <1>1, FS_AddElement
<1>3. Cardinality({x, y}) <= Cardinality(P) /\ Cardinality(P) \in Nat
  BY <1>1, FS_Subset, FS_CardinalityType
<1>4. QED
  BY <1>2, <1>3

\* The records of the final benchmark are finitely many.
LEMMA PrefixIsFinite ==
    ASSUME NEW h \in Seq(B!Records)
    PROVE  IsFiniteSet(Prefix(h))
<1>1. DOMAIN h = 1 .. Len(h) /\ Len(h) \in Nat
  OBVIOUS
<1>2. IsFiniteSet(1 .. Len(h))
  BY <1>1, FS_Interval
<1>3. Prefix(h) \subseteq 1 .. Len(h)
  BY <1>1 DEF Prefix
<1>4. QED
  BY <1>2, <1>3, FS_Subset

\* A retry finds the receipt in the state, and a record, if there is one, is its.
LEMMA RetryOfState ==
    ASSUME Good(state, progress, history), NEW c \in Captures,
           progress.final = None, progress.ready, B!Cardinality(B!FinalPrefix) <= 1,
           state.final # None, state.final.evidence = c
    PROVE  B!FinalAccepted(c)
<1> DEFINE f == state.final
           P == B!FinalPrefix
           rec == B!PrefixRecord
           r == B!FinalReceipt(c)
<1>1. /\ state \in B!States /\ history \in Seq(B!Records) /\ StateSound(state)
      /\ BothAgree(state, history)
  BY DEF Good
<1>2. f \in B!Receipts /\ c # None
  BY <1>1, BenchmarkAssumption DEF B!States
<1>3. /\ f = [id |-> f.id, at |-> f.at, capture |-> f.capture, evidence |-> f.evidence,
              cap |-> f.cap]
      /\ f.id \in Nat /\ f.cap \in Nat
  BY <1>2 DEF B!Receipts
<1>4. /\ state.stage = "complete" /\ state.cap = f.cap /\ state.capture = f.capture
      /\ state.capAt = f.at /\ B!CaptureIsComplete(f.capture)
      /\ f.capture = B!Aggregate(c) /\ f.cap = B!MeasuredFpsCap(strategy, c)
  BY <1>1, <1>2 DEF StateSound, Proven
<1>5. P = Prefix(history)
  BY DEF B!FinalPrefix, Prefix
<1>6. P # {} => B!Matches(f, rec)
  BY <1>1, <1>5 DEF BothAgree, B!PrefixRecord
<1>7. B!Source(c) = [id |-> f.id, at |-> f.at, evidence |-> c]
  <2>1. CASE P # {}
    <3>1. rec.receipt = f.id /\ rec.at = f.at /\ rec.evidence = c
      BY <1>6, <2>1, MatchHolds
    <3>2. B!Source(c) = [id |-> rec.receipt, at |-> rec.at, evidence |-> rec.evidence]
      BY <2>1 DEF B!Source
    <3>3. QED
      BY <3>1, <3>2
  <2>2. CASE P = {}
    BY <2>2 DEF B!Source
  <2>3. QED
    BY <2>1, <2>2
<1>8. r = f
  <2>1. r = [id |-> f.id, at |-> f.at, capture |-> B!Aggregate(c), evidence |-> c,
             cap |-> B!MeasuredFpsCap(strategy, c)]
    BY <1>2, <1>7 DEF B!FinalReceipt
  <2>2. QED
    BY <1>3, <1>4, <2>1
<1>9. P # {} => B!PrefixAccepted(rec, c) /\ B!Matches(r, rec)
  <2> SUFFICES ASSUME P # {} PROVE B!PrefixAccepted(rec, c) /\ B!Matches(r, rec)
    OBVIOUS
  <2>1. /\ rec.label = B!FinalLabel /\ rec.receipt = f.id /\ rec.txn = B!Txn
        /\ rec.capture = f.capture /\ rec.evidence = f.evidence /\ B!Matches(f, rec)
    BY <1>6, MatchHolds
  <2>2. f.id # None
    BY <1>3, BenchmarkAssumption
  <2>3. QED
    BY <1>4, <1>8, <2>1, <2>2 DEF B!PrefixAccepted
<1>10. B!StateAccepted(c)
  BY <1>4 DEF B!StateAccepted
<1>11. r.cap # None
  BY <1>3, <1>8, BenchmarkAssumption
<1>12. B!CaptureIsComplete(B!Aggregate(c)) /\ state.final = r
  BY <1>4, <1>8
<1> HIDE DEF r, P, rec
<1>13. QED
  BY <1>9, <1>10, <1>11, <1>12 DEF B!FinalAccepted, r, P, rec

\* A retry finds the record in the history, and the state is yet to be written.
LEMMA RetryOfRecord ==
    ASSUME Good(state, progress, history), NEW c \in Captures,
           progress.final = None, progress.ready, B!Cardinality(B!FinalPrefix) <= 1,
           state.final = None,
           NEW k \in B!FinalPrefix, history[k].receipt # None, history[k].evidence = c
    PROVE  B!FinalAccepted(c)
<1> DEFINE P == B!FinalPrefix
           rec == B!PrefixRecord
           r == B!FinalReceipt(c)
<1>1. /\ state \in B!States /\ history \in Seq(B!Records) /\ HistorySound(history)
      /\ BothAgree(state, history) /\ c # None
  BY BenchmarkAssumption DEF Good
<1>2. k \in DOMAIN history /\ P = Prefix(history)
  BY DEF B!FinalPrefix, Prefix
<1>3. rec = history[k]
  <2>1. Cardinality(P) <= 1 /\ IsFiniteSet(P)
    BY <1>1, <1>2, PrefixIsFinite DEF B!Cardinality, Cardinality
  <2>2. (CHOOSE j \in P : TRUE) = k
    BY <2>1, OneAtMost
  <2>3. QED
    BY <2>2 DEF B!PrefixRecord
<1>4. rec \in B!Records /\ RecordSound(rec)
  BY <1>1, <1>2, <1>3 DEF HistorySound
<1>5. /\ rec.receipt # None /\ rec.evidence = c /\ rec.label = B!FinalLabel
      /\ rec.txn = B!Txn /\ B!CaptureIsComplete(rec.capture)
      /\ rec.capture = B!Aggregate(c) /\ B!MeasuredFpsCap(strategy, c) # None
  BY <1>1, <1>3, <1>4 DEF RecordSound, Proven
<1>6. state.stage = "armed"
  BY <1>1, <1>2 DEF BothAgree
<1>7. B!Source(c) = [id |-> rec.receipt, at |-> rec.at, evidence |-> rec.evidence]
  BY DEF B!Source
<1>8. r = [id |-> rec.receipt, at |-> rec.at, capture |-> rec.capture,
           evidence |-> rec.evidence, cap |-> B!MeasuredFpsCap(strategy, c)]
  BY <1>1, <1>5, <1>7 DEF B!FinalReceipt
<1>9. B!Matches(r, rec)
  BY <1>4, <1>5, <1>8, MatchMade
<1>10. r.cap # None
  BY <1>5, <1>8
<1>11. B!PrefixAccepted(rec, c)
  BY <1>5 DEF B!PrefixAccepted
<1> HIDE DEF r, P, rec
<1>12. QED
  BY <1>5, <1>6, <1>9, <1>10, <1>11 DEF B!FinalAccepted, r, P, rec

\* A retry finds the one record of the baseline.
LEMMA RetryOfBaseline ==
    ASSUME Good(state, progress, history), NEW c \in Captures, progress.baseline = None,
           NEW k \in B!Baselines, B!Baselines = {k}, history[k].evidence = c
    PROVE  B!BaselineAccepted(c)
<1>1. /\ HistorySound(history) /\ BothAgree(state, history)
  BY DEF Good
<1>2. k \in DOMAIN history /\ history[k].label = B!BaselineLabel
      /\ B!Baselines = BaselineOf(history)
  BY DEF B!Baselines, BaselineOf
<1>3. B!CaptureIsComplete(history[k].capture) /\ history[k].capture = B!Aggregate(c)
  BY <1>1, <1>2 DEF HistorySound, RecordSound
<1>4. B!Cardinality(B!Baselines) <= 1
  <2>1. Cardinality({k}) = 1
    BY FS_Singleton
  <2>2. B!Cardinality(B!Baselines) = 1
    BY <2>1 DEF B!Cardinality, Cardinality
  <2>3. QED
    BY <2>2
<1>5. state.baseline # None => B!Baselines # {} /\ state.baseline = B!Aggregate(c)
  BY <1>1, <1>2, <1>3 DEF BothAgree
<1>6. QED
  BY <1>3, <1>4, <1>5 DEF B!BaselineAccepted

\* An exact retry completes every interrupted baseline and final benchmark.
THEOREM RetriesComplete == PartsSpec => []ExactRetries
<1>1. ASSUME BenchmarkInv PROVE B!ExactRetries
  <2>1. Good(state, progress, history)
    BY <1>1 DEF BenchmarkInv
  <2> SUFFICES ASSUME NEW c \in Captures
               PROVE  /\ (/\ progress.final = None /\ progress.ready
                          /\ B!Cardinality(B!FinalPrefix) <= 1
                          /\ \/ state.final # None /\ state.final.evidence = c
                             \/ \E k \in B!FinalPrefix :
                                   history[k].receipt # None /\ history[k].evidence = c)
                         => B!FinalAccepted(c)
                      /\ (/\ progress.baseline = None
                          /\ \E k \in B!Baselines : B!Baselines = {k} /\ history[k].evidence = c)
                         => B!BaselineAccepted(c)
    BY DEF B!ExactRetries
  <2>2. ASSUME NEW k \in B!FinalPrefix, state.final # None,
               history[k].receipt # None, history[k].evidence = c
        PROVE  state.final.evidence = c
    <3>1. B!FinalPrefix = Prefix(history)
      BY DEF B!FinalPrefix, Prefix
    <3>2. B!Matches(state.final, history[k])
      BY <2>1, <2>2, <3>1 DEF Good, BothAgree
    <3>3. QED
      BY <2>2, <3>2, MatchHolds
  <2>3. QED
    BY <2>1, <2>2, RetryOfState, RetryOfRecord, RetryOfBaseline
<1>2. QED
  BY <1>1, BenchmarkInvariant, PTL DEF ExactRetries

-----------------------------------------------------------------------------
(* The window *)

\* What the read worker and the window hold.
Snaps == [state : {"Loading", "Ready", "Empty", "Stale", "Failed"}, rows : {None} \cup Nat,
          gen : Nat]
ReadStates == [generation : Nat, snapshots : [G!Resources -> {None} \cup Snaps],
               queue : [G!Resources -> {None} \cup Nat]]
Readings == [resource : G!Resources, gen : Nat]
ReadAnswers == [resource : G!Resources, gen : Nat, rows : {None} \cup Nat, empty : BOOLEAN]

\* Every request has a generation of its own: what a request waits for, what is
\* being read for it and what was read for it never have the same one.
OwnGenerations(rd, cur, rs) ==
    /\ \A r \in G!Resources :
          /\ rd.snapshots[r] # None => rd.snapshots[r].gen <= rd.generation
          /\ rd.queue[r] # None => rd.queue[r] <= rd.generation
    /\ cur # None => cur.gen <= rd.generation /\ cur.gen # rd.queue[cur.resource]
    /\ \A i \in DOMAIN rs :
          /\ rs[i].gen <= rd.generation /\ rs[i].gen # rd.queue[rs[i].resource]
          /\ cur # None => <<rs[i].resource, rs[i].gen>> # <<cur.resource, cur.gen>>
          /\ \A j \in DOMAIN rs :
                i # j => <<rs[i].resource, rs[i].gen>> # <<rs[j].resource, rs[j].gen>>

\* Rows that are shown as current, or would be, were read at version v or later.
CurrentRows(rd, rs, v) ==
    /\ \A r \in G!Resources : rd.snapshots[r] # None =>
          /\ rd.snapshots[r].state = "Ready" =>
                rd.snapshots[r].rows \in Nat /\ rd.snapshots[r].rows >= v
          /\ \A i \in DOMAIN rs :
                (/\ rs[i].resource = r /\ rs[i].gen = rd.snapshots[r].gen /\ rs[i].rows # None)
                => rs[i].rows >= v

ReadsGood(rd, cur, rs, v) ==
    /\ rd \in ReadStates /\ cur \in {None} \cup Readings /\ rs \in Seq(ReadAnswers) /\ v \in Nat
    /\ OwnGenerations(rd, cur, rs) /\ CurrentRows(rd, rs, v)

\* A session and an operation have their fields.
SessionShape(s) ==
    /\ s = [stage |-> s.stage, capture |-> s.capture, settings |-> s.settings,
            outcome |-> s.outcome, failure |-> s.failure, pending |-> s.pending]
    /\ s.stage \in {"Import", "Evaluate", "Review", "Save", "Saved"}
NativeShape(n) ==
    n = [op |-> n.op, request |-> n.request, critical |-> n.critical, wrote |-> n.wrote,
         result |-> n.result]

\* A save that runs is the one the session waits for.
SaveIsReviewed ==
    native # None /\ native.op = "FpsSave" =>
        /\ session.stage = "Save" /\ session.pending
        /\ native.request = <<session.capture, session.settings>>

GuiInv ==
    /\ area \in G!Areas /\ elevated \in {"none", "running", "exited"}
    /\ version \in Nat /\ version <= MaxStarts /\ finished \in Nat /\ finished <= version
    /\ ReadsGood(reads, reading, readResults, finished)
    /\ SessionShape(session) /\ (native # None => NativeShape(native))
    /\ SaveIsReviewed

\* A request gets the next generation; what was read before does not answer it.
LEMMA RequestedGood ==
    ASSUME NEW rd, NEW cur, NEW rs, NEW v, ReadsGood(rd, cur, rs, v), NEW r \in G!Resources
    PROVE  ReadsGood(G!Requested(rd, r), cur, rs, v)
<1> DEFINE g == rd.generation + 1
           rows == IF rd.snapshots[r] = None THEN None ELSE rd.snapshots[r].rows
           s == [state |-> "Loading", rows |-> rows, gen |-> g]
           ss == [rd.snapshots EXCEPT ![r] = s]
           qq == [rd.queue EXCEPT ![r] = g]
           n == G!Requested(rd, r)
<1>1. /\ rd.generation \in Nat /\ rd.snapshots \in [G!Resources -> {None} \cup Snaps]
      /\ rd.queue \in [G!Resources -> {None} \cup Nat] /\ cur \in {None} \cup Readings
      /\ rs \in Seq(ReadAnswers) /\ v \in Nat /\ OwnGenerations(rd, cur, rs)
      /\ CurrentRows(rd, rs, v)
  BY DEF ReadsGood, ReadStates
<1>2. g \in Nat /\ g > rd.generation
  BY <1>1
<1>3. rows \in {None} \cup Nat
  BY <1>1 DEF Snaps
<1> HIDE DEF g, rows
<1>4. s \in Snaps /\ s.state = "Loading" /\ s.gen = g
  BY <1>2, <1>3 DEF Snaps
<1> HIDE DEF s
<1>5. /\ ss \in [G!Resources -> {None} \cup Snaps] /\ ss[r] = s
      /\ \A x \in G!Resources : x # r => ss[x] = rd.snapshots[x]
  BY <1>1, <1>4
<1>6. /\ qq \in [G!Resources -> {None} \cup Nat] /\ qq[r] = g
      /\ \A x \in G!Resources : x # r => qq[x] = rd.queue[x]
  BY <1>1, <1>2
<1>7. n = [generation |-> g, snapshots |-> ss, queue |-> qq]
  BY DEF G!Requested, g, rows, s
<1> HIDE DEF ss, qq, n
<1>8. /\ n \in ReadStates /\ n.generation = g /\ n.snapshots = ss /\ n.queue = qq
  BY <1>2, <1>5, <1>6, <1>7 DEF ReadStates
<1>9. \A i \in DOMAIN rs : rs[i] \in ReadAnswers
  BY <1>1
<1>10. \A i \in DOMAIN rs : /\ rs[i].gen \in Nat /\ rs[i].gen <= rd.generation
                            /\ rs[i].resource \in G!Resources /\ rs[i].gen # g
  BY <1>1, <1>2, <1>9 DEF OwnGenerations, ReadAnswers
<1>11. cur # None => /\ cur.gen \in Nat /\ cur.gen <= rd.generation
                     /\ cur.resource \in G!Resources /\ cur.gen # g
  BY <1>1, <1>2 DEF OwnGenerations, Readings
<1>12. OwnGenerations(n, cur, rs)
  <2>1. \A x \in G!Resources : /\ ss[x] # None => ss[x].gen <= g
                               /\ qq[x] # None => qq[x] <= g
    <3> SUFFICES ASSUME NEW x \in G!Resources
                 PROVE  /\ ss[x] # None => ss[x].gen <= g
                        /\ qq[x] # None => qq[x] <= g
      OBVIOUS
    <3>1. CASE x = r
      BY <1>2, <1>4, <1>5, <1>6, <3>1
    <3>2. CASE x # r
      <4>1. rd.snapshots[x] # None => rd.snapshots[x].gen \in Nat
                                      /\ rd.snapshots[x].gen <= rd.generation
        BY <1>1 DEF OwnGenerations, Snaps
      <4>2. rd.queue[x] # None => rd.queue[x] \in Nat /\ rd.queue[x] <= rd.generation
        BY <1>1 DEF OwnGenerations
      <4>3. QED
        BY <1>1, <1>2, <1>5, <1>6, <3>2, <4>1, <4>2
    <3>3. QED
      BY <3>1, <3>2
  <2>2. cur # None => cur.gen <= g /\ cur.gen # qq[cur.resource]
    BY <1>1, <1>2, <1>6, <1>11 DEF OwnGenerations
  <2>3. \A i \in DOMAIN rs : rs[i].gen <= g /\ rs[i].gen # qq[rs[i].resource]
    BY <1>1, <1>2, <1>6, <1>10 DEF OwnGenerations
  <2>4. QED
    BY <1>1, <1>8, <2>1, <2>2, <2>3 DEF OwnGenerations
<1>13. CurrentRows(n, rs, v)
  BY <1>1, <1>4, <1>5, <1>8, <1>10 DEF CurrentRows
<1>14. QED
  BY <1>1, <1>8, <1>12, <1>13 DEF ReadsGood, n

\* After invalidate no snapshot is current, and nothing that was read answers one.
LEMMA InvalidatedGood ==
    ASSUME NEW rd, NEW cur, NEW rs, NEW u, ReadsGood(rd, cur, rs, u), NEW v \in Nat
    PROVE  ReadsGood(G!Invalidated(rd), cur, rs, v)
<1> DEFINE g == rd.generation + 1
           Drop(s) == IF s = None THEN None
                      ELSE [state |-> IF s.rows = None THEN "Loading" ELSE "Stale",
                            rows |-> s.rows, gen |-> g]
           ss == [r \in G!Resources |-> Drop(rd.snapshots[r])]
           qq == [r \in G!Resources |-> None]
           n == G!Invalidated(rd)
<1>1. /\ rd.generation \in Nat /\ rd.snapshots \in [G!Resources -> {None} \cup Snaps]
      /\ rd.queue \in [G!Resources -> {None} \cup Nat] /\ cur \in {None} \cup Readings
      /\ rs \in Seq(ReadAnswers) /\ OwnGenerations(rd, cur, rs)
  BY DEF ReadsGood, ReadStates
<1>2. g \in Nat /\ g > rd.generation
  BY <1>1
<1>3. n = [generation |-> g, snapshots |-> ss, queue |-> qq]
  BY DEF G!Invalidated
<1> HIDE DEF g
<1>4. \A r \in G!Resources :
        /\ ss[r] \in {None} \cup Snaps
        /\ ss[r] # None => ss[r].gen = g /\ ss[r].state # "Ready"
  BY <1>1, <1>2 DEF Snaps
<1>5. ss \in [G!Resources -> {None} \cup Snaps]
  <2>1. ss = [r \in G!Resources |-> ss[r]]
    OBVIOUS
  <2> HIDE DEF ss
  <2>2. QED
    BY <1>4, <2>1
<1>6. qq \in [G!Resources -> {None} \cup Nat] /\ \A r \in G!Resources : qq[r] = None
  OBVIOUS
<1> HIDE DEF ss, qq, n
<1>7. /\ n \in ReadStates /\ n.generation = g /\ n.snapshots = ss /\ n.queue = qq
  BY <1>2, <1>3, <1>5, <1>6 DEF ReadStates
<1>8. \A i \in DOMAIN rs : rs[i] \in ReadAnswers
  BY <1>1
<1>9. \A i \in DOMAIN rs : /\ rs[i].gen \in Nat /\ rs[i].gen <= rd.generation
                           /\ rs[i].resource \in G!Resources
  BY <1>1, <1>8 DEF OwnGenerations, ReadAnswers
<1>10. cur # None => /\ cur.gen \in Nat /\ cur.gen <= rd.generation
                     /\ cur.resource \in G!Resources
  BY <1>1 DEF OwnGenerations, Readings
<1>11. OwnGenerations(n, cur, rs)
  <2>1. \A r \in G!Resources : (ss[r] # None => ss[r].gen <= g) /\ qq[r] = None
    BY <1>2, <1>4, <1>6
  <2>2. cur # None => cur.gen <= g /\ cur.gen # qq[cur.resource]
    BY <1>1, <1>2, <1>6, <1>10, BenchmarkAssumption
  <2>3. \A i \in DOMAIN rs : rs[i].gen <= g /\ rs[i].gen # qq[rs[i].resource]
    BY <1>1, <1>2, <1>6, <1>9, BenchmarkAssumption
  <2>4. QED
    BY <1>1, <1>7, <2>1, <2>2, <2>3 DEF OwnGenerations
<1>12. CurrentRows(n, rs, v)
  <2>1. \A i \in DOMAIN rs : rs[i].gen # g
    BY <1>1, <1>2, <1>9
  <2>2. QED
    BY <1>4, <1>7, <2>1 DEF CurrentRows
<1>13. QED
  BY <1>1, <1>7, <1>11, <1>12 DEF ReadsGood, n

\* A result that is presented keeps the generation, and Ready rows are its own.
LEMMA PresentedHolds ==
    ASSUME NEW s \in Snaps, NEW res \in ReadAnswers
    PROVE  LET p == G!Presented(s, res)
           IN  /\ p \in Snaps /\ p.gen = s.gen
               /\ p.state = "Ready" => p.rows = res.rows /\ res.rows # None
<1> DEFINE p == G!Presented(s, res)
           st == IF res.empty THEN "Empty" ELSE "Ready"
           rows == res.rows
<1>1. s = [state |-> s.state, rows |-> s.rows, gen |-> s.gen] /\ s.gen \in Nat
      /\ s.rows \in {None} \cup Nat /\ rows \in {None} \cup Nat
  BY DEF Snaps, ReadAnswers
<1>2. st \in {"Empty", "Ready"}
  OBVIOUS
<1>3. CASE rows # None
  <2>1. p = [s EXCEPT !.state = st, !.rows = rows]
    BY <1>3 DEF G!Presented
  <2> HIDE DEF st, rows, p
  <2>2. p = [state |-> st, rows |-> rows, gen |-> s.gen]
    BY <1>1, <2>1
  <2>3. QED
    BY <1>1, <1>2, <1>3, <2>2 DEF Snaps, p, rows
<1>4. CASE rows = None /\ s.rows # None
  <2>1. p = [s EXCEPT !.state = "Stale"]
    BY <1>4 DEF G!Presented
  <2> HIDE DEF rows, p
  <2>2. p = [state |-> "Stale", rows |-> s.rows, gen |-> s.gen]
    BY <1>1, <2>1
  <2>3. QED
    BY <1>1, <2>2 DEF Snaps, p, rows
<1>5. CASE rows = None /\ s.rows = None
  <2>1. p = [s EXCEPT !.state = "Failed"]
    BY <1>5 DEF G!Presented
  <2> HIDE DEF rows, p
  <2>2. p = [state |-> "Failed", rows |-> s.rows, gen |-> s.gen]
    BY <1>1, <2>1
  <2>3. QED
    BY <1>1, <2>2 DEF Snaps, p, rows
<1>6. QED
  BY <1>3, <1>4, <1>5

\* The results that answer a snapshot are at most one, and it is the one presented.
LEMMA OneAnswer ==
    ASSUME NEW rd, NEW cur, NEW rs, NEW v, ReadsGood(rd, cur, rs, v), NEW r \in G!Resources
    PROVE  \A i, j \in DOMAIN rs :
             (/\ rs[i].resource = r /\ rs[j].resource = r /\ rs[i].gen = rs[j].gen) => i = j
  BY DEF ReadsGood, OwnGenerations

\* Rows that a poll shows as Ready were read at version v or later.
LEMMA PolledGood ==
    ASSUME NEW rd, NEW cur, NEW rs, NEW v, ReadsGood(rd, cur, rs, v)
    PROVE  ReadsGood(G!Polled(rd, rs), cur, <<>>, v)
<1> DEFINE mine == [r \in G!Resources |->
                      {i \in DOMAIN rs : /\ rs[i].resource = r /\ rd.snapshots[r] # None
                                         /\ rs[i].gen = rd.snapshots[r].gen}]
           pick(r) == CHOOSE i \in mine[r] : \A j \in mine[r] : j <= i
           show(r) == IF mine[r] = {} THEN rd.snapshots[r]
                      ELSE G!Presented(rd.snapshots[r], rs[pick(r)])
           ss == [r \in G!Resources |-> show(r)]
           n == G!Polled(rd, rs)
<1>1. /\ rd \in ReadStates /\ rd.generation \in Nat
      /\ rd.snapshots \in [G!Resources -> {None} \cup Snaps]
      /\ rd.queue \in [G!Resources -> {None} \cup Nat] /\ cur \in {None} \cup Readings
      /\ rs \in Seq(ReadAnswers) /\ v \in Nat /\ OwnGenerations(rd, cur, rs)
      /\ CurrentRows(rd, rs, v)
  BY DEF ReadsGood, ReadStates
<1>2. ASSUME NEW r \in G!Resources, mine[r] # {}
      PROVE  /\ pick(r) \in DOMAIN rs /\ rd.snapshots[r] \in Snaps /\ rd.snapshots[r] # None
             /\ rs[pick(r)] \in ReadAnswers /\ rs[pick(r)].resource = r
             /\ rs[pick(r)].gen = rd.snapshots[r].gen
  <2>1. PICK i \in mine[r] : TRUE
    BY <1>2
  <2>2. \A j \in mine[r] : j = i
    BY OneAnswer
  <2>3. i \in Nat
    BY <1>1
  <2>4. \A j \in mine[r] : j <= i
    BY <2>2, <2>3
  <2>5. pick(r) \in mine[r]
    <3> HIDE DEF mine
    <3>1. QED
      BY <2>1, <2>4
  <2>6. QED
    BY <1>1, <2>5
<1>3. \A r \in G!Resources :
        /\ show(r) \in {None} \cup Snaps
        /\ show(r) # None => rd.snapshots[r] # None /\ show(r).gen = rd.snapshots[r].gen
        /\ show(r) # None /\ show(r).state = "Ready" => show(r).rows \in Nat /\ show(r).rows >= v
  <2> SUFFICES ASSUME NEW r \in G!Resources
               PROVE  /\ show(r) \in {None} \cup Snaps
                      /\ show(r) # None =>
                            rd.snapshots[r] # None /\ show(r).gen = rd.snapshots[r].gen
                      /\ show(r) # None /\ show(r).state = "Ready" =>
                            show(r).rows \in Nat /\ show(r).rows >= v
    OBVIOUS
  <2>1. CASE mine[r] = {}
    BY <1>1, <2>1 DEF CurrentRows
  <2>2. CASE mine[r] # {}
    <3>0. /\ pick(r) \in DOMAIN rs /\ rd.snapshots[r] \in Snaps /\ rd.snapshots[r] # None
          /\ rs[pick(r)] \in ReadAnswers /\ rs[pick(r)].resource = r
          /\ rs[pick(r)].gen = rd.snapshots[r].gen
      <4> HIDE DEF mine, pick
      <4>1. QED
        BY <1>2, <2>2
    <3> DEFINE s == rd.snapshots[r]
               k == pick(r)
               p == G!Presented(s, rs[k])
    <3>1. /\ k \in DOMAIN rs /\ s \in Snaps /\ s # None /\ rs[k] \in ReadAnswers
          /\ rs[k].resource = r /\ rs[k].gen = s.gen
      <4> HIDE DEF pick
      <4>1. QED
        BY <3>0
    <3>2. show(r) = p
      BY <2>2
    <3>3. rs[k].rows \in {None} \cup Nat /\ (rs[k].rows # None => rs[k].rows >= v)
      <4>1. rs[k].rows \in {None} \cup Nat
        BY <3>1 DEF ReadAnswers
      <4> HIDE DEF k, mine
      <4>2. QED
        BY <1>1, <3>1, <4>1 DEF CurrentRows
    <3> HIDE DEF s, k, mine
    <3>4. /\ p \in Snaps /\ p.gen = s.gen
          /\ p.state = "Ready" => p.rows = rs[k].rows /\ rs[k].rows # None
      BY <3>1, PresentedHolds
    <3>5. s # None /\ s = rd.snapshots[r]
      BY <3>1 DEF s
    <3> HIDE DEF p
    <3>6. QED
      BY <3>2, <3>3, <3>4, <3>5
  <2>3. QED
    BY <2>1, <2>2
<1>4. n = [rd EXCEPT !.snapshots = ss]
  BY DEF G!Polled, G!Showing
<1> HIDE DEF show
<1>5. ss \in [G!Resources -> {None} \cup Snaps] /\ \A r \in G!Resources : ss[r] = show(r)
  BY <1>3
<1> HIDE DEF ss, n
<1>6. n = [generation |-> rd.generation, snapshots |-> ss, queue |-> rd.queue]
  BY <1>1, <1>4 DEF ReadStates
<1>7. /\ n \in ReadStates /\ n.generation = rd.generation /\ n.snapshots = ss
      /\ n.queue = rd.queue
  BY <1>1, <1>5, <1>6 DEF ReadStates
<1>8. <<>> \in Seq(ReadAnswers) /\ DOMAIN <<>> = {}
  OBVIOUS
<1>9. OwnGenerations(n, cur, <<>>)
  <2>1. \A r \in G!Resources : ss[r] # None => ss[r].gen <= rd.generation
    BY <1>1, <1>3, <1>5 DEF OwnGenerations
  <2>2. QED
    BY <1>1, <1>7, <1>8, <2>1 DEF OwnGenerations
<1>10. CurrentRows(n, <<>>, v)
  BY <1>3, <1>5, <1>7, <1>8 DEF CurrentRows
<1>11. QED
  BY <1>1, <1>7, <1>8, <1>9, <1>10 DEF ReadsGood, n

\* What navigation and the end of an operation request.
LEMMA RefreshGood ==
    ASSUME NEW rd, NEW cur, NEW rs, NEW v, ReadsGood(rd, cur, rs, v), NEW a
    PROVE  ReadsGood(G!RefreshAreaData(rd, a), cur, rs, v)
<1>1. a \in DOMAIN G!ResourceOf => G!ResourceOf[a] \in G!Resources
  BY DEF G!ResourceOf, G!Resources
<1>2. QED
  BY <1>1, RequestedGood DEF G!RefreshAreaData

\* The end of an operation makes every snapshot stale and asks for the shown one.
LEMMA AfterOperationGood ==
    ASSUME NEW rd, NEW cur, NEW rs, NEW u, ReadsGood(rd, cur, rs, u), NEW v \in Nat
    PROVE  ReadsGood(G!InvalidateAfterOperation(rd), cur, rs, v)
  BY InvalidatedGood, RefreshGood DEF G!InvalidateAfterOperation

\* The window opens with one request and nothing running.
LEMMA GuiInit == G!Init => GuiInv
<1> SUFFICES ASSUME G!Init PROVE GuiInv
  OBVIOUS
<1> DEFINE rd == [generation |-> 0, snapshots |-> [r \in G!Resources |-> None],
                  queue |-> [r \in G!Resources |-> None]]
<1>1. ReadsGood(rd, None, <<>>, 0)
  <2>1. rd \in ReadStates /\ \A r \in G!Resources : rd.snapshots[r] = None /\ rd.queue[r] = None
    BY DEF ReadStates
  <2>2. <<>> \in Seq(ReadAnswers) /\ DOMAIN <<>> = {} /\ 0 \in Nat
    OBVIOUS
  <2> HIDE DEF rd
  <2>3. QED
    BY <2>1, <2>2 DEF ReadsGood, OwnGenerations, CurrentRows
<1> HIDE DEF rd
<1>2. "Overview" \in G!Resources /\ "Overview" \in G!Areas
  BY DEF G!Resources, G!Areas
<1>3. ReadsGood(G!Requested(rd, "Overview"), None, <<>>, 0)
  BY <1>1, <1>2, RequestedGood
<1>4. /\ reads = G!Requested(rd, "Overview") /\ reading = None /\ readResults = <<>>
      /\ area = "Overview" /\ elevated = "none" /\ native = None
  BY DEF G!Init, rd
<1>5. version = 0 /\ finished = 0 /\ session = G!EmptySession
  BY DEF G!Init
<1>6. version \in Nat /\ version <= MaxStarts /\ finished \in Nat /\ finished <= version
  BY <1>5, GuiAssumption
<1>7. SessionShape(session)
  BY <1>5 DEF SessionShape, G!EmptySession
<1>8. QED
  BY <1>2, <1>3, <1>4, <1>5, <1>6, <1>7 DEF GuiInv, SaveIsReviewed

\* What a step that touches neither session nor operation has to show.
LEMMA GuiFrame ==
    ASSUME GuiInv, UNCHANGED <<session, native>>, area' \in G!Areas,
           elevated' \in {"none", "running", "exited"},
           version' \in Nat, version' <= MaxStarts, finished' \in Nat, finished' <= version',
           ReadsGood(reads', reading', readResults', finished')
    PROVE  GuiInv'
  BY DEF GuiInv, SaveIsReviewed, SessionShape, NativeShape

\* The read worker takes a request, and answers it with what the files hold now.
LEMMA ReadWorkerInv ==
    ASSUME GuiInv, G!NextRequest \/ G!SendResult
    PROVE  GuiInv'
<1>1. /\ reads \in ReadStates /\ reads.generation \in Nat
      /\ reads.snapshots \in [G!Resources -> {None} \cup Snaps]
      /\ reads.queue \in [G!Resources -> {None} \cup Nat] /\ reading \in {None} \cup Readings
      /\ readResults \in Seq(ReadAnswers) /\ finished \in Nat
      /\ OwnGenerations(reads, reading, readResults)
      /\ CurrentRows(reads, readResults, finished)
  BY DEF GuiInv, ReadsGood, ReadStates
<1>2. CASE G!NextRequest
  <2>1. PICK i \in DOMAIN G!ReadOrder :
          /\ reads.queue[G!ReadOrder[i]] # None
          /\ reading' = [resource |-> G!ReadOrder[i], gen |-> reads.queue[G!ReadOrder[i]]]
          /\ reads' = [reads EXCEPT !.queue[G!ReadOrder[i]] = None]
    BY <1>2 DEF G!NextRequest
  <2>2. /\ reading = None
        /\ UNCHANGED <<area, readResults, native, elevated, session, version, finished>>
    BY <1>2 DEF G!NextRequest
  <2> DEFINE r == G!ReadOrder[i]
             g == reads.queue[r]
             qq == [reads.queue EXCEPT ![r] = None]
  <2>3. r \in G!Resources
    BY DEF G!ReadOrder, G!Resources
  <2> HIDE DEF r
  <2>4. g \in Nat /\ g # None /\ g <= reads.generation
    BY <1>1, <2>1, <2>3 DEF OwnGenerations, r
  <2>5. /\ qq \in [G!Resources -> {None} \cup Nat] /\ qq[r] = None
        /\ \A x \in G!Resources : x # r => qq[x] = reads.queue[x]
    BY <1>1, <2>3
  <2>6. reads' = [generation |-> reads.generation, snapshots |-> reads.snapshots, queue |-> qq]
    BY <1>1, <2>1 DEF ReadStates, r
  <2>7. reading' = [resource |-> r, gen |-> g]
    BY <2>1 DEF r
  <2>8. \A k \in DOMAIN readResults :
          /\ readResults[k].gen # g \/ readResults[k].resource # r
          /\ readResults[k].gen \in Nat /\ readResults[k].resource \in G!Resources
    <3>1. \A k \in DOMAIN readResults : readResults[k] \in ReadAnswers
      BY <1>1
    <3>2. \A k \in DOMAIN readResults :
            readResults[k].gen \in Nat /\ readResults[k].resource \in G!Resources
      BY <3>1 DEF ReadAnswers
    <3>3. \A k \in DOMAIN readResults : readResults[k].gen # reads.queue[readResults[k].resource]
      BY <1>1 DEF OwnGenerations
    <3>4. QED
      BY <3>2, <3>3
  <2> HIDE DEF g, qq
  <2>9. /\ reads' \in ReadStates /\ reads'.generation = reads.generation
        /\ reads'.snapshots = reads.snapshots /\ reads'.queue = qq
    BY <1>1, <2>5, <2>6 DEF ReadStates
  <2>10. /\ reading' \in Readings /\ reading'.resource = r /\ reading'.gen = g
    BY <2>3, <2>4, <2>7 DEF Readings
  <2>11. OwnGenerations(reads', reading', readResults)
    <3>1. \A x \in G!Resources :
            /\ reads.snapshots[x] # None => reads.snapshots[x].gen <= reads.generation
            /\ qq[x] # None => qq[x] <= reads.generation
      BY <1>1, <2>5 DEF OwnGenerations
    <3>2. g <= reads.generation /\ g # qq[r]
      BY <2>4, <2>5
    <3>3. \A k \in DOMAIN readResults :
            /\ readResults[k].gen <= reads.generation
            /\ readResults[k].gen # qq[readResults[k].resource]
            /\ <<readResults[k].resource, readResults[k].gen>> # <<r, g>>
      <4> SUFFICES ASSUME NEW k \in DOMAIN readResults
                   PROVE  /\ readResults[k].gen <= reads.generation
                          /\ readResults[k].gen # qq[readResults[k].resource]
                          /\ <<readResults[k].resource, readResults[k].gen>> # <<r, g>>
        OBVIOUS
      <4>1. readResults[k].gen <= reads.generation
            /\ readResults[k].gen # reads.queue[readResults[k].resource]
        BY <1>1 DEF OwnGenerations
      <4>2. readResults[k].gen # None
        BY <2>8, BenchmarkAssumption
      <4>3. QED
        BY <2>5, <2>8, <4>1, <4>2
    <3>4. QED
      BY <1>1, <2>9, <2>10, <3>1, <3>2, <3>3 DEF OwnGenerations
  <2>12. CurrentRows(reads', readResults, finished)
    BY <1>1, <2>9 DEF CurrentRows
  <2>13. ReadsGood(reads', reading', readResults', finished')
    BY <1>1, <2>2, <2>9, <2>10, <2>11, <2>12 DEF ReadsGood
  <2>14. QED
    BY <2>2, <2>13, GuiFrame DEF GuiInv
<1>3. CASE G!SendResult
  <2>1. PICK rows \in {None, version}, empty \in BOOLEAN :
          readResults' = Append(readResults, [resource |-> reading.resource,
                                              gen |-> reading.gen, rows |-> rows,
                                              empty |-> empty])
    BY <1>3 DEF G!SendResult
  <2>2. /\ reading # None /\ reading' = None
        /\ UNCHANGED <<area, reads, native, elevated, session, version, finished>>
    BY <1>3 DEF G!SendResult
  <2> DEFINE x == [resource |-> reading.resource, gen |-> reading.gen, rows |-> rows,
                   empty |-> empty]
             n == Len(readResults) + 1
  <2>3. version \in Nat /\ finished <= version
    BY DEF GuiInv
  <2>4. reading.resource \in G!Resources /\ reading.gen \in Nat
    BY <1>1, <2>2 DEF Readings
  <2>5. /\ x \in ReadAnswers /\ x.resource = reading.resource /\ x.gen = reading.gen
        /\ x.rows = rows
    <3> DEFINE a == reading.resource
               b == reading.gen
    <3> HIDE DEF a, b
    <3>1. /\ [resource |-> a, gen |-> b, rows |-> rows, empty |-> empty] \in ReadAnswers
      BY <2>3, <2>4 DEF ReadAnswers, a, b
    <3>2. QED
      BY <3>1 DEF a, b
  <2>6. rows # None => rows >= finished
    BY <1>1, <2>3
  <2>7. readResults' = Append(readResults, x)
    BY <2>1
  <2> HIDE DEF x
  <2>8. /\ readResults' \in Seq(ReadAnswers) /\ Len(readResults') = n
        /\ DOMAIN readResults' = 1 .. n /\ DOMAIN readResults = 1 .. Len(readResults)
        /\ readResults'[n] = x /\ Len(readResults) \in Nat
        /\ \A k \in DOMAIN readResults : readResults'[k] = readResults[k]
    BY <1>1, <2>5, <2>7
  <2>9. \A k \in DOMAIN readResults' : k = n \/ k \in DOMAIN readResults
    BY <2>8
  <2>10. x.gen <= reads.generation /\ x.gen # reads.queue[x.resource]
    BY <1>1, <2>2, <2>5 DEF OwnGenerations
  <2>11. \A k \in DOMAIN readResults :
           <<readResults[k].resource, readResults[k].gen>> # <<x.resource, x.gen>>
    BY <1>1, <2>2, <2>5 DEF OwnGenerations
  <2> HIDE DEF n
  <2>12. OwnGenerations(reads', reading', readResults')
    <3>1. \A k \in DOMAIN readResults' :
            /\ readResults'[k].gen <= reads.generation
            /\ readResults'[k].gen # reads.queue[readResults'[k].resource]
      BY <1>1, <2>8, <2>9, <2>10 DEF OwnGenerations
    <3>2. \A j, k \in DOMAIN readResults' : j # k =>
            <<readResults'[j].resource, readResults'[j].gen>>
              # <<readResults'[k].resource, readResults'[k].gen>>
      <4> SUFFICES ASSUME NEW j \in DOMAIN readResults', NEW k \in DOMAIN readResults', j # k
                   PROVE  <<readResults'[j].resource, readResults'[j].gen>>
                            # <<readResults'[k].resource, readResults'[k].gen>>
        OBVIOUS
      <4>1. CASE j \in DOMAIN readResults /\ k \in DOMAIN readResults
        BY <1>1, <2>8, <4>1 DEF OwnGenerations
      <4>2. CASE j = n /\ k \in DOMAIN readResults
        BY <2>8, <2>11, <4>2
      <4>3. CASE k = n /\ j \in DOMAIN readResults
        BY <2>8, <2>11, <4>3
      <4>4. QED
        BY <2>9, <4>1, <4>2, <4>3
    <3>3. \A r \in G!Resources :
            /\ reads.snapshots[r] # None => reads.snapshots[r].gen <= reads.generation
            /\ reads.queue[r] # None => reads.queue[r] <= reads.generation
      BY <1>1 DEF OwnGenerations
    <3>4. QED
      BY <2>2, <3>1, <3>2, <3>3 DEF OwnGenerations
  <2>13. CurrentRows(reads', readResults', finished')
    BY <1>1, <2>2, <2>5, <2>6, <2>8, <2>9 DEF CurrentRows
  <2>14. ReadsGood(reads', reading', readResults', finished')
    BY <1>1, <2>2, <2>8, <2>12, <2>13 DEF ReadsGood
  <2>15. QED
    BY <2>2, <2>14, GuiFrame DEF GuiInv
<1>4. QED
  BY <1>2, <1>3

\* The operation's worker writes and ends, and so does the elevated copy.
LEMMA GuiWorkersInv ==
    ASSUME GuiInv, G!WorkerWrites \/ G!WorkerEnds \/ G!ElevatedCopy
    PROVE  GuiInv'
<1>1. /\ version \in Nat /\ version <= MaxStarts /\ finished \in Nat /\ finished <= version
      /\ MaxStarts \in Nat /\ ReadsGood(reads, reading, readResults, finished)
      /\ area \in G!Areas /\ elevated \in {"none", "running", "exited"}
      /\ SessionShape(session) /\ (native # None => NativeShape(native)) /\ SaveIsReviewed
  BY GuiAssumption DEF GuiInv
<1>2. /\ UNCHANGED <<area, reads, reading, readResults, session, finished>>
      /\ elevated' \in {"none", "running", "exited"}
  BY <1>1 DEF G!WorkerWrites, G!WorkerEnds, G!ElevatedCopy, G!workers
<1>3. version' \in Nat /\ version' <= MaxStarts /\ finished <= version'
  <2>1. version' = version \/ (version < MaxStarts /\ version' = version + 1)
    BY DEF G!WorkerWrites, G!WorkerEnds, G!ElevatedCopy, G!workers
  <2>2. QED
    BY <1>1, <2>1
<1>4. \/ native' = native
      \/ /\ native # None /\ NativeShape(native') /\ native'.op = native.op
         /\ native'.request = native.request
  <2>1. CASE G!WorkerWrites
    <3>1. native # None /\ native' = [native EXCEPT !.wrote = TRUE]
      BY <2>1 DEF G!WorkerWrites
    <3>2. native' = [op |-> native.op, request |-> native.request,
                     critical |-> native.critical, wrote |-> TRUE, result |-> native.result]
      BY <1>1, <3>1 DEF NativeShape
    <3>3. QED
      BY <3>1, <3>2 DEF NativeShape
  <2>2. CASE G!WorkerEnds
    <3>1. native # None /\ \E res : native' = [native EXCEPT !.result = res]
      BY <2>2 DEF G!WorkerEnds
    <3>2. PICK res : native' = [native EXCEPT !.result = res]
      BY <3>1
    <3>3. native' = [op |-> native.op, request |-> native.request,
                     critical |-> native.critical, wrote |-> native.wrote, result |-> res]
      BY <1>1, <3>1, <3>2 DEF NativeShape
    <3>4. QED
      BY <3>1, <3>3 DEF NativeShape
  <2>3. CASE G!ElevatedCopy
    BY <2>3 DEF G!ElevatedCopy
  <2>4. QED
    BY <2>1, <2>2, <2>3
<1>5. (native' # None => NativeShape(native')) /\ SaveIsReviewed'
  BY <1>1, <1>2, <1>4 DEF SaveIsReviewed
<1>6. QED
  BY <1>1, <1>2, <1>3, <1>5 DEF GuiInv, SessionShape

\* A session with one stage of the five and any other fields is one.
LEMMA SessionMade ==
    ASSUME NEW a \in {"Import", "Evaluate", "Review", "Save", "Saved"},
           NEW b, NEW c, NEW d, NEW e, NEW f
    PROVE  SessionShape([stage |-> a, capture |-> b, settings |-> c, outcome |-> d,
                         failure |-> e, pending |-> f])
  BY DEF SessionShape

\* A session with one field changed is one.
LEMMA SessionField ==
    ASSUME NEW s, SessionShape(s), NEW x,
           NEW a \in {"Import", "Evaluate", "Review", "Save", "Saved"}
    PROVE  /\ SessionShape([s EXCEPT !.stage = a])
           /\ SessionShape([s EXCEPT !.capture = x])
           /\ SessionShape([s EXCEPT !.settings = x])
           /\ SessionShape([s EXCEPT !.outcome = x])
           /\ SessionShape([s EXCEPT !.failure = x])
           /\ SessionShape([s EXCEPT !.pending = x])
<1>1. SessionShape([s EXCEPT !.stage = a])
  BY DEF SessionShape
<1>2. SessionShape([s EXCEPT !.capture = x])
  BY DEF SessionShape
<1>3. SessionShape([s EXCEPT !.settings = x])
  BY DEF SessionShape
<1>4. SessionShape([s EXCEPT !.outcome = x])
  BY DEF SessionShape
<1>5. SessionShape([s EXCEPT !.failure = x])
  BY DEF SessionShape
<1>6. SessionShape([s EXCEPT !.pending = x])
  BY DEF SessionShape
<1>7. QED
  BY <1>1, <1>2, <1>3, <1>4, <1>5, <1>6, Zenon

\* The updates that the session's operations make keep its shape.
LEMMA SessionUpdated ==
    ASSUME NEW s, SessionShape(s), NEW x, NEW y,
           NEW a \in {"Import", "Evaluate", "Review", "Save", "Saved"}
    PROVE  /\ SessionShape([s EXCEPT !.settings = x, !.outcome = y])
           /\ SessionShape([s EXCEPT !.stage = a, !.failure = x])
           /\ SessionShape([s EXCEPT !.pending = x, !.failure = y])
           /\ SessionShape([s EXCEPT !.capture = x, !.stage = a])
           /\ SessionShape([s EXCEPT !.stage = a, !.pending = x, !.failure = y])
<1>1. SessionShape([s EXCEPT !.settings = x, !.outcome = y])
  <2> DEFINE t == [s EXCEPT !.settings = x]
  <2>1. SessionShape(t)
    BY SessionField
  <2>2. [s EXCEPT !.settings = x, !.outcome = y] = [t EXCEPT !.outcome = y]
    OBVIOUS
  <2> HIDE DEF t
  <2>3. SessionShape([t EXCEPT !.outcome = y])
    BY <2>1, SessionField
  <2>4. QED
    BY <2>2, <2>3, Zenon
<1>2. SessionShape([s EXCEPT !.stage = a, !.failure = x])
  <2> DEFINE t == [s EXCEPT !.stage = a]
  <2>1. SessionShape(t)
    BY SessionField
  <2>2. [s EXCEPT !.stage = a, !.failure = x] = [t EXCEPT !.failure = x]
    OBVIOUS
  <2> HIDE DEF t
  <2>3. SessionShape([t EXCEPT !.failure = x])
    BY <2>1, SessionField
  <2>4. QED
    BY <2>2, <2>3, Zenon
<1>3. SessionShape([s EXCEPT !.pending = x, !.failure = y])
  <2> DEFINE t == [s EXCEPT !.pending = x]
  <2>1. SessionShape(t)
    BY SessionField
  <2>2. [s EXCEPT !.pending = x, !.failure = y] = [t EXCEPT !.failure = y]
    OBVIOUS
  <2> HIDE DEF t
  <2>3. SessionShape([t EXCEPT !.failure = y])
    BY <2>1, SessionField
  <2>4. QED
    BY <2>2, <2>3, Zenon
<1>4. SessionShape([s EXCEPT !.capture = x, !.stage = a])
  <2> DEFINE t == [s EXCEPT !.capture = x]
  <2>1. SessionShape(t)
    BY SessionField
  <2>2. [s EXCEPT !.capture = x, !.stage = a] = [t EXCEPT !.stage = a]
    OBVIOUS
  <2> HIDE DEF t
  <2>3. SessionShape([t EXCEPT !.stage = a])
    BY <2>1, SessionField
  <2>4. QED
    BY <2>2, <2>3, Zenon
<1>5. SessionShape([s EXCEPT !.stage = a, !.pending = x, !.failure = y])
  <2> DEFINE t == [s EXCEPT !.stage = a]
             u == [t EXCEPT !.pending = x]
  <2>1. SessionShape(t)
    BY SessionField
  <2>2. [s EXCEPT !.stage = a, !.pending = x, !.failure = y] = [u EXCEPT !.failure = y]
    OBVIOUS
  <2> HIDE DEF t
  <2>3. SessionShape(u)
    BY <2>1, SessionField
  <2> HIDE DEF u
  <2>4. SessionShape([u EXCEPT !.failure = y])
    BY <2>3, SessionField
  <2>5. QED
    BY <2>2, <2>4, Zenon
<1>6. QED
  BY <1>1, <1>2, <1>3, <1>4, <1>5, Zenon

\* The fields of a session after each of its operations.
LEMMA SessionShapes ==
    ASSUME NEW s, SessionShape(s)
    PROVE  /\ SessionShape(G!EmptySession)
           /\ \A c : SessionShape([G!EmptySession EXCEPT !.capture = c])
           /\ SessionShape(G!Invalidate(s))
           /\ \A x : SessionShape(G!Evaluated(s, x))
           /\ SessionShape(G!BeginReview(s))
           /\ \A ok \in BOOLEAN : SessionShape(G!FinishSave(s, ok))
<1> DEFINE empty == G!EmptySession
           inv == G!Invalidate(s)
<1>1. SessionShape(empty)
  <2>1. SessionShape([stage |-> "Import", capture |-> None, settings |-> None,
                      outcome |-> FALSE, failure |-> FALSE, pending |-> FALSE])
    BY SessionMade, Zenon
  <2>2. QED
    BY <2>1, Zenon DEF G!EmptySession
<1>2. inv = [empty EXCEPT !.capture = s.capture,
                          !.stage = IF s.capture = None THEN "Import" ELSE "Evaluate"]
  BY Zenon DEF G!Invalidate
<1> HIDE DEF empty
<1>3. ASSUME NEW c PROVE SessionShape([empty EXCEPT !.capture = c])
  BY <1>1, SessionField
<1>4. SessionShape(inv)
  <2> DEFINE a == IF s.capture = None THEN "Import" ELSE "Evaluate"
             c == s.capture
  <2>1. a \in {"Import", "Evaluate", "Review", "Save", "Saved"}
    OBVIOUS
  <2>2. inv = [empty EXCEPT !.capture = c, !.stage = a]
    BY <1>2, Zenon
  <2> HIDE DEF a, c, inv
  <2>3. SessionShape([empty EXCEPT !.capture = c, !.stage = a])
    BY <1>1, <2>1, SessionUpdated, Zenon
  <2>4. QED
    BY <2>2, <2>3, Zenon
<1>5. ASSUME NEW x PROVE SessionShape(G!Evaluated(s, x))
  <2>1. \/ G!Evaluated(s, x) = [inv EXCEPT !.settings = x, !.outcome = TRUE]
        \/ G!Evaluated(s, x) = [inv EXCEPT !.failure = TRUE]
    BY DEF G!Evaluated
  <2> HIDE DEF inv
  <2>2. SessionShape([inv EXCEPT !.settings = x, !.outcome = TRUE])
    BY <1>4, SessionUpdated, Zenon
  <2>3. SessionShape([inv EXCEPT !.failure = TRUE])
    BY <1>4, SessionField, Zenon
  <2>4. QED
    BY <2>1, <2>2, <2>3, Zenon
<1>6. SessionShape(G!BeginReview(s))
  <2>1. SessionShape([s EXCEPT !.stage = "Review", !.failure = FALSE])
    BY SessionUpdated, Zenon
  <2>2. SessionShape([s EXCEPT !.failure = TRUE])
    BY SessionField, Zenon
  <2>3. QED
    BY <2>1, <2>2, Zenon DEF G!BeginReview
<1>7. ASSUME NEW ok \in BOOLEAN PROVE SessionShape(G!FinishSave(s, ok))
  <2> DEFINE a == [s EXCEPT !.stage = "Saved", !.pending = FALSE, !.failure = FALSE]
             b == [s EXCEPT !.pending = FALSE, !.failure = TRUE]
             c == [s EXCEPT !.failure = TRUE]
             f == G!FinishSave(s, ok)
  <2>1. SessionShape(a)
    BY SessionUpdated, Zenon
  <2>2. SessionShape(b)
    BY SessionUpdated, Zenon
  <2>3. SessionShape(c)
    BY SessionField, Zenon
  <2>4. f = CASE s.stage = "Save" /\ ~s.pending -> s
              [] s.stage = "Save" /\ s.pending /\ ok -> a
              [] s.stage = "Save" /\ s.pending /\ ~ok -> b
              [] OTHER -> c
    BY DEF G!FinishSave
  <2> HIDE DEF a, b, c, f
  <2>5. f = s \/ f = a \/ f = b \/ f = c
    <3>1. CASE s.stage = "Save" /\ ~s.pending
      BY <2>4, <3>1
    <3>2. CASE s.stage = "Save" /\ s.pending /\ ok
      BY <2>4, <3>2
    <3>3. CASE s.stage = "Save" /\ s.pending /\ ~ok
      BY <2>4, <3>3
    <3>4. CASE s.stage # "Save"
      BY <2>4, <3>4
    <3>5. QED
      BY <3>1, <3>2, <3>3, <3>4
  <2>6. SessionShape(f)
    BY <2>1, <2>2, <2>3, <2>5, Zenon
  <2>7. QED
    BY <2>6, Zenon DEF f
<1>8. QED
  BY <1>1, <1>3, <1>4, <1>5, <1>6, <1>7, Zenon DEF empty

\* A save keeps what was reviewed and waits for its result.
LEMMA SavingHolds ==
    ASSUME NEW s, SessionShape(s),
           NEW t, t = [s EXCEPT !.stage = "Save", !.pending = TRUE, !.failure = FALSE]
    PROVE  /\ SessionShape(t) /\ t.stage = "Save" /\ t.pending
           /\ t.capture = s.capture /\ t.settings = s.settings
<1>1. SessionShape(t)
  BY SessionUpdated, Zenon
<1>2. ASSUME NEW x, NEW y, t = [s EXCEPT !.stage = "Save", !.pending = x, !.failure = y]
      PROVE  /\ t.stage = "Save" /\ t.pending = x
             /\ t.capture = s.capture /\ t.settings = s.settings
  BY <1>2 DEF SessionShape
<1> DEFINE yes == TRUE
           no == FALSE
<1>3. t = [s EXCEPT !.stage = "Save", !.pending = yes, !.failure = no] /\ yes
  OBVIOUS
<1> HIDE DEF yes, no
<1>4. QED
  BY <1>1, <1>2, <1>3

\* What presenting an operation's result requests.
LEMMA PresentedReadsGood ==
    ASSUME NEW rd, NEW cur, NEW rs, NEW v, ReadsGood(rd, cur, rs, v), NEW n
    PROVE  ReadsGood(G!PresentedReads(rd, n), cur, rs, v)
<1>1. G!PresentedReads(rd, n) \in {G!RefreshAreaData(rd, "Recovery"),
                                   G!RefreshAreaData(rd, "Benchmark"), rd}
  BY DEF G!PresentedReads
<1>2. QED
  BY <1>1, RefreshGood

\* The timer shows what has ended and what was read since.
LEMMA PollTimerInv ==
    ASSUME GuiInv, G!PollTimer
    PROVE  GuiInv'
<1> DEFINE exited == elevated = "exited"
           taken == native # None /\ native.result # None
           ends == taken /\ native.op \notin {"Diagnostic", "FpsRead"}
           rd1 == IF exited THEN G!InvalidateAfterOperation(reads) ELSE reads
           rd2 == IF ends THEN G!InvalidateAfterOperation(rd1) ELSE rd1
           rd3 == IF taken THEN G!PresentedReads(rd2, native) ELSE rd2
           v1 == IF exited THEN version ELSE finished
           v2 == IF exited \/ ends THEN version ELSE finished
<1>1. /\ version \in Nat /\ version <= MaxStarts /\ finished \in Nat /\ finished <= version
      /\ ReadsGood(reads, reading, readResults, finished)
      /\ area \in G!Areas /\ elevated \in {"none", "running", "exited"}
      /\ SessionShape(session) /\ (native # None => NativeShape(native)) /\ SaveIsReviewed
  BY DEF GuiInv
<1>2. /\ elevated' = (IF exited THEN "none" ELSE elevated)
      /\ native' = (IF taken THEN None ELSE native)
      /\ finished' = v2 /\ reads' = G!Polled(rd3, readResults) /\ readResults' = <<>>
      /\ area' = area /\ reading' = reading /\ version' = version
  BY DEF G!PollTimer
<1>3. \/ taken /\ \E s \in G!Settings :
            session' = G!Evaluated([G!EmptySession EXCEPT !.capture = native.request], s)
      \/ taken /\ session' = G!FinishSave(session, native.result = "ok")
      \/ session' = session
  BY DEF G!PollTimer
<1>4. ReadsGood(reads', reading', readResults', finished')
  <2>1. v1 \in Nat /\ v2 \in Nat
    BY <1>1
  <2> HIDE DEF ends, taken, exited
  <2>2. ReadsGood(rd1, reading, readResults, v1)
    BY <1>1, AfterOperationGood
  <2>3. ReadsGood(rd2, reading, readResults, v2)
    <3> HIDE DEF rd1
    <3>1. CASE ends
      BY <1>1, <2>1, <2>2, <3>1, AfterOperationGood
    <3>2. CASE ~ends
      BY <2>2, <3>2
    <3>3. QED
      BY <3>1, <3>2
  <2> HIDE DEF rd2, v2
  <2>4. ReadsGood(rd3, reading, readResults, v2)
    BY <2>3, PresentedReadsGood
  <2> HIDE DEF rd3
  <2>5. QED
    BY <1>2, <2>4, PolledGood, Zenon
<1>5. SessionShape(session')
  <2>1. ASSUME NEW x, NEW s
        PROVE  SessionShape(G!Evaluated([G!EmptySession EXCEPT !.capture = x], s))
    <3> DEFINE e == [G!EmptySession EXCEPT !.capture = x]
    <3>1. SessionShape(e)
      BY <1>1, SessionShapes, Zenon
    <3> HIDE DEF e
    <3>2. SessionShape(G!Evaluated(e, s))
      BY <3>1, SessionShapes, Zenon
    <3>3. QED
      BY <3>2, Zenon DEF e
  <2>2. SessionShape(G!FinishSave(session, native.result = "ok"))
    <3>1. (native.result = "ok") \in BOOLEAN
      BY Zenon
    <3>2. QED
      BY <1>1, <3>1, SessionShapes, Zenon
  <2> HIDE DEF taken
  <2>3. QED
    BY <1>1, <1>3, <2>1, <2>2, Zenon
<1>6. (native' # None => NativeShape(native')) /\ SaveIsReviewed'
  <2>1. CASE taken
    BY <1>2, <2>1 DEF SaveIsReviewed
  <2>2. CASE ~taken
    <3> HIDE DEF taken
    <3>1. native' = native /\ session' = session
      BY <1>2, <1>3, <2>2, Zenon
    <3>2. QED
      BY <1>1, <3>1 DEF SaveIsReviewed
  <2>3. QED
    BY <2>1, <2>2
<1>7. /\ area' \in G!Areas /\ elevated' \in {"none", "running", "exited"}
      /\ version' \in Nat /\ version' <= MaxStarts /\ finished' \in Nat /\ finished' <= version'
  BY <1>1, <1>2
<1>8. QED
  BY <1>4, <1>5, <1>6, <1>7, Zenon DEF GuiInv

\* An operation starts with all its fields.
LEMMA StartedHolds ==
    ASSUME NEW a, NEW b, NEW c, G!Start(a, b, c)
    PROVE  NativeShape(native') /\ native'.op = a /\ native'.request = b
<1>1. ASSUME NEW d, NEW n,
             n = [op |-> a, request |-> b, critical |-> c, wrote |-> d, result |-> None]
      PROVE  NativeShape(n) /\ n.op = a /\ n.request = b
  BY <1>1 DEF NativeShape
<1> DEFINE no == FALSE
<1>2. native' = [op |-> a, request |-> b, critical |-> c, wrote |-> no, result |-> None]
  BY Zenon DEF G!Start
<1> HIDE DEF no
<1>3. QED
  BY <1>1, <1>2

\* What a command of the user has to show: it starts nothing, or something else than
\* a save, or the save of what the session holds.
LEMMA GuiCommand ==
    ASSUME GuiInv, UNCHANGED <<reading, readResults, version, finished>>,
           ReadsGood(reads', reading, readResults, finished), area' \in G!Areas,
           elevated' \in {"none", "running", "exited"}, SessionShape(session'),
           \/ UNCHANGED <<native, session>>
           \/ native' = None
           \/ \E a, b, c : a # "FpsSave" /\ G!Start(a, b, c)
           \/ /\ G!Start("FpsSave", <<session.capture, session.settings>>, TRUE)
              /\ session' = [session EXCEPT !.stage = "Save", !.pending = TRUE, !.failure = FALSE]
    PROVE  GuiInv'
<1>1. /\ version \in Nat /\ version <= MaxStarts /\ finished \in Nat /\ finished <= version
      /\ SessionShape(session) /\ (native # None => NativeShape(native)) /\ SaveIsReviewed
  BY DEF GuiInv
<1>2. (native' # None => NativeShape(native')) /\ SaveIsReviewed'
  <2>1. CASE UNCHANGED <<native, session>>
    BY <1>1, <2>1 DEF SaveIsReviewed
  <2>2. CASE native' = None
    BY <2>2 DEF SaveIsReviewed
  <2>3. CASE \E a, b, c : a # "FpsSave" /\ G!Start(a, b, c)
    BY <2>3, StartedHolds DEF SaveIsReviewed
  <2>4. CASE /\ G!Start("FpsSave", <<session.capture, session.settings>>, TRUE)
             /\ session' = [session EXCEPT !.stage = "Save", !.pending = TRUE, !.failure = FALSE]
    <3>1. NativeShape(native') /\ native'.request = <<session.capture, session.settings>>
      BY <2>4, StartedHolds, Zenon
    <3>2. /\ session'.stage = "Save" /\ session'.pending
          /\ session'.capture = session.capture /\ session'.settings = session.settings
      BY <1>1, <2>4, SavingHolds, Zenon
    <3>3. QED
      BY <3>1, <3>2 DEF SaveIsReviewed
  <2>5. QED
    BY <2>1, <2>2, <2>3, <2>4
<1>3. version' \in Nat /\ version' <= MaxStarts /\ finished' \in Nat /\ finished' <= version'
  BY <1>1
<1>4. ReadsGood(reads', reading', readResults', finished')
  BY Zenon
<1>5. QED
  BY <1>2, <1>3, <1>4, Zenon DEF GuiInv

\* Commands that ask or start an operation outside the FPS workflow.
LEMMA GuiStartsInv ==
    ASSUME GuiInv,
           \/ \E c \in DOMAIN G!Access : G!Command(c)
           \/ G!NetworkApply \/ G!StartDiagnostic \/ G!Dismiss \/ G!Close \/ G!OpenFile
    PROVE  GuiInv'
<1>1. /\ ReadsGood(reads, reading, readResults, finished) /\ area \in G!Areas
      /\ elevated \in {"none", "running", "exited"} /\ SessionShape(session)
  BY DEF GuiInv
<1>2. "FpsSave" \notin DOMAIN G!Access
  BY DEF G!Access
<1>3. UNCHANGED <<area, reads, reading, readResults, version, session, finished>>
  BY DEF G!Command, G!NetworkApply, G!StartDiagnostic, G!Dismiss, G!Close, G!OpenFile,
         G!workers
<1>4. ASSUME NEW c \in DOMAIN G!Access, NEW key, G!StartNativeRecovery(c, key)
      PROVE  /\ elevated' \in {"none", "running", "exited"}
             /\ native' = native \/ \E a, b, d : a # "FpsSave" /\ G!Start(a, b, d)
  <2>1. CASE G!RelaunchElevated
    BY <2>1 DEF G!RelaunchElevated
  <2>2. CASE G!Start(c, key, G!Access[c] # "ReadOnly") /\ UNCHANGED elevated
    BY <1>1, <1>2, <2>2, Zenon
  <2>3. QED
    BY <1>4, <2>1, <2>2, Zenon DEF G!StartNativeRecovery
<1>5. /\ elevated' \in {"none", "running", "exited"}
      /\ native' = native \/ \E a, b, d : a # "FpsSave" /\ G!Start(a, b, d)
  <2>1. CASE \E c \in DOMAIN G!Access : G!Command(c)
    <3>1. \/ UNCHANGED <<native, elevated>>
          \/ \E c \in DOMAIN G!Access : G!StartNativeRecovery(c, None)
      BY <2>1, Zenon DEF G!Command
    <3>2. QED
      BY <1>1, <1>4, <3>1, Zenon
  <2>2. CASE G!StartDiagnostic
    BY <1>1, <2>2, Zenon DEF G!StartDiagnostic
  <2>3. CASE G!NetworkApply \/ G!Dismiss \/ G!Close \/ G!OpenFile
    BY <1>1, <2>3 DEF G!NetworkApply, G!Dismiss, G!Close, G!OpenFile
  <2>4. QED
    BY <2>1, <2>2, <2>3
<1>6. QED
  BY <1>1, <1>3, <1>5, GuiCommand, Zenon

\* The answer to a dialog starts what the dialog asked about.
LEMMA AnswerYesInv ==
    ASSUME GuiInv, G!AnswerYes
    PROVE  GuiInv'
<1>1. /\ ReadsGood(reads, reading, readResults, finished) /\ area \in G!Areas
      /\ elevated \in {"none", "running", "exited"} /\ SessionShape(session)
  BY DEF GuiInv
<1>2. "FpsSave" \notin DOMAIN G!Access
  BY DEF G!Access
<1>3. UNCHANGED <<area, reads, reading, readResults, version, finished>>
  BY DEF G!AnswerYes, G!workers
<1>4. \/ /\ \E c \in DOMAIN G!Access : \E key : G!StartNativeRecovery(c, key)
         /\ session' = session
      \/ /\ \/ G!RelaunchElevated
            \/ G!Start("network", None, TRUE) /\ elevated' = elevated
         /\ session' = session
      \/ /\ \E c : G!Start("FpsRead", c, FALSE)
         /\ session' = G!Invalidate(G!EmptySession) /\ elevated' = elevated
      \/ UNCHANGED <<native, elevated, session>>
  BY Zenon DEF G!AnswerYes
<1>5. SessionShape(session')
  <2>1. SessionShape(G!EmptySession)
    BY <1>1, SessionShapes, Zenon
  <2>2. SessionShape(G!Invalidate(G!EmptySession))
    BY <2>1, SessionShapes, Zenon
  <2>3. session' = session \/ session' = G!Invalidate(G!EmptySession)
    BY <1>4, Zenon
  <2>4. QED
    BY <1>1, <2>2, <2>3, Zenon
<1>6. G!RelaunchElevated => elevated' \in {"none", "running", "exited"} /\ native' = native
  BY DEF G!RelaunchElevated
<1>7. elevated' \in {"none", "running", "exited"}
  BY <1>1, <1>4, <1>6, Zenon DEF G!StartNativeRecovery
<1>8. \/ UNCHANGED <<native, session>>
      \/ \E a, b, d : a # "FpsSave" /\ G!Start(a, b, d)
  <2>1. ASSUME NEW c \in DOMAIN G!Access, NEW key, G!StartNativeRecovery(c, key)
        PROVE  native' = native \/ \E a, b, d : a # "FpsSave" /\ G!Start(a, b, d)
    BY <1>2, <1>6, <2>1, Zenon DEF G!StartNativeRecovery
  <2>2. "network" # "FpsSave" /\ "FpsRead" # "FpsSave"
    OBVIOUS
  <2>3. QED
    BY <1>4, <1>6, <2>1, <2>2, Zenon
<1>9. QED
  BY <1>1, <1>3, <1>5, <1>7, <1>8, GuiCommand, Zenon

\* Navigation asks for what the area shows.
LEMMA NavigateInv ==
    ASSUME GuiInv, G!Navigate
    PROVE  GuiInv'
<1>1. /\ ReadsGood(reads, reading, readResults, finished) /\ SessionShape(session)
      /\ elevated \in {"none", "running", "exited"}
  BY DEF GuiInv
<1>2. PICK a \in G!Areas : area' = a /\ reads' = G!RefreshAreaData(reads, a)
  BY DEF G!Navigate
<1>3. UNCHANGED <<reading, readResults, version, native, elevated, session, finished>>
  BY DEF G!Navigate, G!workers
<1>4. ReadsGood(reads', reading, readResults, finished)
  BY <1>1, <1>2, RefreshGood, Zenon
<1>5. QED
  BY <1>1, <1>2, <1>3, <1>4, GuiCommand, Zenon

\* The FPS workflow changes its session only while nothing runs.
LEMMA FpsInv ==
    ASSUME GuiInv, (\E f \in BOOLEAN : G!InputChanged(f)) \/ G!NextStage \/ G!Back
    PROVE  GuiInv'
<1>1. /\ ReadsGood(reads, reading, readResults, finished) /\ area \in G!Areas
      /\ elevated \in {"none", "running", "exited"} /\ SessionShape(session)
  BY DEF GuiInv
<1>2. /\ native = None
      /\ UNCHANGED <<area, reads, reading, readResults, version, elevated, finished>>
  BY DEF G!InputChanged, G!NextStage, G!Back, G!FpsCommand, G!Running, G!workers
<1>3. SessionShape(G!EmptySession)
  BY <1>1, SessionShapes, Zenon
<1>4. \/ /\ native' = native
         /\ \/ session' = G!Invalidate(G!EmptySession) \/ session' = G!Invalidate(session)
            \/ \E x : session' = G!Evaluated(session, x)
            \/ session' = G!BeginReview(session) \/ session' = G!EmptySession
            \/ session' = [G!EmptySession EXCEPT !.capture = session.capture]
      \/ session' = session /\ \E c : G!Start("FpsRead", c, FALSE)
      \/ /\ G!Start("FpsSave", <<session.capture, session.settings>>, TRUE)
         /\ session' = [session EXCEPT !.stage = "Save", !.pending = TRUE, !.failure = FALSE]
  <2>1. CASE \E f \in BOOLEAN : G!InputChanged(f)
    BY <2>1, Zenon DEF G!InputChanged
  <2>2. CASE G!NextStage
    BY <2>2, Zenon DEF G!NextStage
  <2>3. CASE G!Back
    BY <2>3, Zenon DEF G!Back
  <2>4. QED
    BY <2>1, <2>2, <2>3
<1>5. SessionShape(session')
  <2>1. /\ SessionShape(G!Invalidate(session)) /\ SessionShape(G!BeginReview(session))
        /\ \A x : SessionShape(G!Evaluated(session, x))
        /\ \A c : SessionShape([G!EmptySession EXCEPT !.capture = c])
    BY <1>1, SessionShapes, Zenon
  <2>2. SessionShape(G!Invalidate(G!EmptySession))
    BY <1>3, SessionShapes, Zenon
  <2>3. session' = [session EXCEPT !.stage = "Save", !.pending = TRUE, !.failure = FALSE]
        => SessionShape(session')
    BY <1>1, SavingHolds, Zenon
  <2>4. QED
    BY <1>1, <1>3, <1>4, <2>1, <2>2, <2>3, Zenon
<1>6. \/ native' = None
      \/ \E a, b, c : a # "FpsSave" /\ G!Start(a, b, c)
      \/ /\ G!Start("FpsSave", <<session.capture, session.settings>>, TRUE)
         /\ session' = [session EXCEPT !.stage = "Save", !.pending = TRUE, !.failure = FALSE]
  <2>1. "FpsRead" # "FpsSave"
    OBVIOUS
  <2>2. QED
    BY <1>2, <1>4, <2>1, Zenon
<1>7. QED
  BY <1>1, <1>2, <1>5, <1>6, GuiCommand, Zenon

\* Every step of the window and its workers keeps the invariant.
LEMMA GuiPart == GuiInv /\ G!Next => GuiInv'
  BY ReadWorkerInv, GuiWorkersInv, PollTimerInv, GuiStartsInv, AnswerYesInv, NavigateInv,
     FpsInv, Zenon DEF G!Next

\* A step of another part leaves the window alone.
LEMMA GuiStep ==
    ASSUME [PartsNext]_allVars
    PROVE  G!Next \/ UNCHANGED guiVars
  BY DEF PartsNext, allVars

\* The invariant of the window and its workers holds in every reachable state.
THEOREM GuiInvariant == PartsSpec => []GuiInv
<1>1. PartsInit => GuiInv
  BY GuiInit DEF PartsInit
<1>2. GuiInv /\ [PartsNext]_allVars => GuiInv'
  <2> SUFFICES ASSUME GuiInv, [PartsNext]_allVars PROVE GuiInv'
    OBVIOUS
  <2>1. CASE UNCHANGED guiVars
    BY <2>1 DEF guiVars, GuiInv, SaveIsReviewed
  <2>2. QED
    BY <2>1, GuiPart, GuiStep
<1>3. QED
  BY <1>1, <1>2, PTL DEF PartsSpec

\* A selected restore asks about rows of a Ready snapshot, and only it does.
LEMMA SelectedIsCurrent ==
    ASSUME GuiInv, G!Next, dialog' # dialog, dialog' # None,
           dialog'.kind = "restoreSelected"
    PROVE  dialog'.key >= finished
<1>1. PICK c \in DOMAIN G!Access : G!Command(c)
  <2>1. ASSUME G!NetworkApply \/ G!Close \/ G!OpenFile PROVE FALSE
    BY <2>1 DEF G!NetworkApply, G!Close, G!OpenFile
  <2>2. ASSUME \/ G!NextRequest \/ G!SendResult \/ G!WorkerWrites \/ G!WorkerEnds
               \/ G!ElevatedCopy \/ G!PollTimer
        PROVE FALSE
    BY <2>2 DEF G!NextRequest, G!SendResult, G!WorkerWrites, G!WorkerEnds, G!ElevatedCopy,
                G!PollTimer
  <2>3. ASSUME \/ G!StartDiagnostic \/ G!Navigate \/ G!NextStage \/ G!Back
               \/ G!AnswerYes \/ G!Dismiss \/ \E f \in BOOLEAN : G!InputChanged(f)
        PROVE FALSE
    BY <2>3 DEF G!StartDiagnostic, G!Navigate, G!NextStage, G!Back, G!AnswerYes, G!Dismiss,
                G!InputChanged
  <2>4. QED
    BY <2>1, <2>2, <2>3, Zenon DEF G!Next
<1>2. /\ dialog' = [kind |-> c, key |-> IF c = "restoreSelected" THEN G!SelectedKey ELSE None]
      /\ c = "restoreSelected" => G!SelectedKey # None
  BY <1>1 DEF G!Command
<1>3. c = "restoreSelected" /\ dialog'.key = G!SelectedKey /\ G!SelectedKey # None
  BY <1>2
<1>4. "Recovery" \in G!Resources
  BY DEF G!Resources
<1>5. CurrentRows(reads, readResults, finished)
  BY DEF GuiInv, ReadsGood
<1>6. /\ reads.snapshots["Recovery"] # None /\ reads.snapshots["Recovery"].state = "Ready"
      /\ G!SelectedKey = reads.snapshots["Recovery"].rows
  BY <1>3 DEF G!SelectedKey
<1>7. QED
  BY <1>3, <1>4, <1>5, <1>6 DEF CurrentRows

\* A selected restore takes its entry from rows read after the last operation that
\* was shown as ended, and a running save is the one that was reviewed.
THEOREM GuiActsOnShown == PartsSpec => ActsOnShown
<1> DEFINE Selects == dialog' # dialog /\ dialog' # None /\ dialog'.kind = "restoreSelected"
                      => dialog'.key >= finished
           Saves == native' # None /\ native'.op = "FpsSave"
                    => /\ session'.stage = "Save" /\ session'.pending
                       /\ native'.request = <<session'.capture, session'.settings>>
<1>1. GuiInv /\ GuiInv' /\ [PartsNext]_allVars => [Selects /\ Saves]_(G!vars)
  <2> SUFFICES ASSUME GuiInv, GuiInv', [PartsNext]_allVars, ~UNCHANGED G!vars
               PROVE  Selects /\ Saves
    OBVIOUS
  <2>1. G!Next
    BY GuiStep DEF guiVars, G!vars
  <2>2. Selects
    BY <2>1, SelectedIsCurrent, Zenon
  <2>3. Saves
    BY Zenon DEF GuiInv, SaveIsReviewed
  <2>4. QED
    BY <2>2, <2>3
<1>2. QED
  BY <1>1, GuiInvariant, PTL DEF PartsSpec, ActsOnShown, G!ActsOnShown

-----------------------------------------------------------------------------
(* The parts together *)

\* Every part keeps its type: each of their invariants includes it.
THEOREM SuiteTypeCorrect == PartsSpec => []PartsTypeOK
<1>1. BenchmarkInv => B!TypeOK
  BY DEF BenchmarkInv, Good, B!TypeOK
<1>2. GuiInv => G!TypeOK
  <2> SUFFICES ASSUME GuiInv PROVE G!TypeOK
    OBVIOUS
  <2>1. /\ area \in G!Areas /\ elevated \in {"none", "running", "exited"}
        /\ finished <= version /\ version <= MaxStarts
        /\ session.stage \in {"Import", "Evaluate", "Review", "Save", "Saved"}
    BY DEF GuiInv, SessionShape
  <2>2. \A r \in G!Resources : reads.snapshots[r] # None =>
            reads.snapshots[r].gen <= reads.generation
    BY DEF GuiInv, ReadsGood, OwnGenerations
  <2>3. QED
    BY <2>1, <2>2 DEF G!TypeOK
<1>3. (/\ NetworkInv /\ PagefileInv /\ SettingsInv /\ CleanupInv /\ ConfigInv /\ CleanInv
       /\ InstallInv /\ BenchmarkInv /\ GuiInv)
      => PartsTypeOK
  BY <1>1, <1>2, Zenon DEF PartsTypeOK, NetworkInv, PagefileInv, SettingsInv, CleanupInv,
     ConfigInv, CleanInv, InstallInv
<1>4. QED
  BY <1>3, NetworkInvariant, PagefileInvariant, SettingsInvariant, CleanupInvariant,
     ConfigInvariant, CleanInvariant, InstallInvariant, BenchmarkInvariant, GuiInvariant, PTL
=============================================================================
