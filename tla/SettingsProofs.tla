--------------------------- MODULE SettingsProofs ---------------------------
(***************************************************************************)
(* What the network stack, the page file and the single-value settings     *)
(* guarantee, for any adapters, page files, settings and devices, and for  *)
(* any number of changes by Windows, failed calls and crashes.             *)
(***************************************************************************)
EXTENDS SuiteParts, CollectionsProofs

-----------------------------------------------------------------------------
(* The network stack *)

\* The commands of the network stack, with what each carries.
NetworkOps ==
    [pc : {"idle", "failed"}]
    \cup [pc : {"apply", "verify"}, adapter : N!Adapters]
    \cup [pc : {"restore"}, left : {<<"rss", "nla">>, <<"nla">>, <<>>},
          policies : SUBSET Policies, since : Nat]

\* A command works on the adapter of the entry, which stays while it runs.
AdapterInv ==
    /\ netOp \in NetworkOps
    /\ netOp.pc \in {"apply", "verify"} =>
          netEntry \in N!Records /\ netEntry.adapter = netOp.adapter
    /\ netOp.pc = "restore" =>
          /\ netEntry \in N!Records /\ netOp.since <= netChanges
          /\ netOp.left # <<>> => netOp.policies = Policies

\* What a restore has put back stays put back while nobody else interferes.
PutBackInv ==
    netOp.pc = "restore" /\ netOp.since = netChanges =>
        /\ netOp.left # <<"rss", "nla">> =>
              (netEntry.rss # None => rss[netEntry.adapter.device] = netEntry.rss)
        /\ netOp.left = <<>> =>
              /\ nla.key = netEntry.nla.key /\ nla.value = netEntry.nla.value
              /\ \A p \in Policies \ netOp.policies : policy[p] = netEntry.policies[p]

NetworkInv == N!TypeOK /\ AdapterInv /\ PutBackInv

\* What a command carries.
LEMMA NetworkShape ==
    ASSUME netOp \in NetworkOps
    PROVE  /\ netOp.pc \in {"apply", "verify"} =>
                 netOp \in [pc : {"apply", "verify"}, adapter : N!Adapters]
           /\ netOp.pc = "restore" =>
                 netOp \in [pc : {"restore"}, left : {<<"rss", "nla">>, <<"nla">>, <<>>},
                            policies : SUBSET Policies, since : Nat]
  BY DEF NetworkOps

\* The invariant holds at the start.
LEMMA NetworkInit == N!Init => NetworkInv
<1> SUFFICES ASSUME N!Init PROVE NetworkInv
  OBVIOUS
<1>1. dns \in [Devices -> Servers]
  BY NetworkAssumption DEF N!Init
<1>2. nla \in N!NlaStates
  BY DEF N!Init, N!NlaStates
<1>3. N!TypeOK
  BY <1>1, <1>2 DEF N!Init, N!TypeOK, N!Makers
<1>4. netOp \in NetworkOps /\ netOp.pc = "idle"
  BY DEF N!Init, N!Idle, NetworkOps
<1>5. QED
  BY <1>3, <1>4 DEF NetworkInv, AdapterInv, PutBackInv

\* The one adapter that is selected is observed.
LEMMA SelectedAdapter ==
    ASSUME N!SelectAdapter # None
    PROVE  N!SelectAdapter \in adapters
<1>1. N!Cardinality(adapters) = 1 /\ N!SelectAdapter = CHOOSE a \in adapters : TRUE
  BY DEF N!SelectAdapter
<1>2. N!Cardinality(adapters) = Cardinality(adapters)
  BY DEF N!Cardinality, Cardinality
<1>3. adapters # {}
  BY <1>1, <1>2, FS_EmptySet
<1>4. QED
  BY <1>1, <1>3

\* A capture records the selected adapter as it is now.
LEMMA CaptureNetworkInv ==
    ASSUME NetworkInv, NEW release \in {"this", "earlier"}, N!Capture(release)
    PROVE  NetworkInv'
<1> DEFINE a == N!SelectAdapter
           t == N!RecordedBy(release, a)
<1> USE DEF NetworkInv
<1>1. a \in adapters /\ adapters \subseteq N!Adapters
  BY SelectedAdapter DEF N!Capture, N!TypeOK
<1>2. UNCHANGED <<adapters, rss, nla, policy, dns, dnsEntry, netChanges>>
  BY DEF N!Capture, N!settings
<1>3. CASE N!ValidateTransaction(t)
  <2>1. netEntry' = t /\ netOp' = [pc |-> "apply", adapter |-> t.adapter]
    BY <1>3 DEF N!Capture
  <2>2. t = [adapter |-> a, rss |-> rss[a.device], nla |-> nla,
             settings |-> IF release = "this" THEN N!Captured ELSE N!Inventory,
             policies |-> IF release = "this" THEN <<>> ELSE policy]
    BY DEF N!RecordedBy
  <2>3. release # "this"
    BY <1>3, <2>2 DEF N!ValidateTransaction, N!Captured, N!Inventory
  <2>4. t \in N!Records /\ t.adapter \in N!Adapters
    <3>1. a \in N!Adapters /\ a.device \in Devices
      BY <1>1 DEF N!Adapters
    <3>2. rss[a.device] \in {None, 0, N!Target}
      BY <3>1 DEF N!TypeOK
    <3>3. QED
      BY <2>2, <2>3, <3>1, <3>2 DEF N!TypeOK, N!Records
  <2> HIDE DEF a, t
  <2>5. netOp' \in NetworkOps /\ netOp'.pc = "apply" /\ netOp'.adapter = netEntry'.adapter
    BY <2>1, <2>4 DEF NetworkOps
  <2>6. N!TypeOK'
    BY <1>2, <2>1, <2>4 DEF N!TypeOK, N!Adapters, N!Records, N!NlaStates, N!Makers, N!DnsRecords
  <2>7. AdapterInv' /\ PutBackInv'
    BY <2>1, <2>4, <2>5 DEF AdapterInv, PutBackInv
  <2>8. QED
    BY <2>6, <2>7
<1>4. CASE ~N!ValidateTransaction(t)
  <2>1. netEntry' = None /\ netOp' = [pc |-> "failed"]
    BY <1>4 DEF N!Capture
  <2>2. netOp' \in NetworkOps
    BY <2>1 DEF NetworkOps
  <2>3. N!TypeOK'
    BY <1>2, <2>1 DEF N!TypeOK
  <2>4. AdapterInv' /\ PutBackInv'
    BY <2>1, <2>2 DEF AdapterInv, PutBackInv
  <2>5. QED
    BY <2>3, <2>4
<1>5. QED
  BY <1>3, <1>4

\* Applying writes to the adapter of the entry, and an earlier release left one.
LEMMA ApplyNetworkInv ==
    ASSUME NetworkInv,
           N!CaptureFailed \/ N!Apply \/ N!Verify \/ \E s \in Servers : N!EarlierRelease(s)
    PROVE  NetworkInv'
<1> USE DEF NetworkInv, N!End, N!Idle, N!ExactAdapter
<1>1. CASE N!CaptureFailed \/ N!Verify
  <2>1. UNCHANGED <<adapters, rss, nla, policy, dns, netEntry, dnsEntry, netChanges>>
        /\ netOp' = [pc |-> "idle"]
    BY <1>1 DEF N!CaptureFailed, N!Verify, N!settings
  <2>2. netOp' \in NetworkOps
    BY <2>1 DEF NetworkOps
  <2>3. QED
    BY <2>1, <2>2 DEF N!TypeOK, AdapterInv, PutBackInv
<1>2. CASE N!Apply
  <2>1. netOp \in [pc : {"apply"}, adapter : N!Adapters] /\ netOp.adapter.device \in Devices
    BY <1>2, NetworkShape DEF N!Apply, AdapterInv, N!Adapters
  <2>2. rss' \in [Devices -> {None, 0, N!Target}]
    BY <1>2, <2>1 DEF N!Apply, N!TypeOK
  <2>3. UNCHANGED <<adapters, nla, policy, dns, netEntry, dnsEntry, netChanges>>
    BY <1>2 DEF N!Apply
  <2>4. N!TypeOK'
    BY <2>2, <2>3 DEF N!TypeOK
  <2>5. /\ netOp' \in NetworkOps /\ netOp'.pc \in {"verify", "idle"}
        /\ netOp'.pc = "verify" => netOp'.adapter = netOp.adapter
    BY <1>2, <2>1 DEF N!Apply, NetworkOps
  <2>6. AdapterInv' /\ PutBackInv'
    BY <2>1, <2>3, <2>5 DEF AdapterInv, PutBackInv
  <2>7. QED
    BY <2>4, <2>6
<1>3. ASSUME NEW s \in Servers, N!EarlierRelease(s) PROVE NetworkInv'
  <2>1. netOp \in [pc : {"verify"}, adapter : N!Adapters] /\ netOp.adapter.device \in Devices
    BY <1>3, NetworkShape DEF N!EarlierRelease, AdapterInv, N!Adapters
  <2>2. dns' \in [Devices -> Servers] /\ dns[netOp.adapter.device] \in Servers
    BY <1>3, <2>1 DEF N!EarlierRelease, N!TypeOK
  <2>3. dnsEntry' \in N!DnsRecords
    BY <1>3, <2>1, <2>2 DEF N!EarlierRelease, N!DnsRecords
  <2>4. nla' \in N!NlaStates /\ nla'.key
    BY <1>3 DEF N!EarlierRelease, N!TypeOK, N!NlaStates
  <2>5. policy' \in [Policies -> N!Makers]
    BY <1>3 DEF N!EarlierRelease, N!TypeOK, N!Makers
  <2>6. UNCHANGED <<adapters, rss, netEntry, netOp, netChanges>>
    BY <1>3 DEF N!EarlierRelease
  <2>7. N!TypeOK'
    BY <2>2, <2>3, <2>4, <2>5, <2>6 DEF N!TypeOK
  <2>8. AdapterInv' /\ PutBackInv'
    BY <2>1, <2>6 DEF AdapterInv, PutBackInv
  <2>9. QED
    BY <2>7, <2>8
<1>4. QED
  BY <1>1, <1>2, <1>3

\* A restore starts with everything still to be put back.
LEMMA BeginNetworkRestoreInv ==
    ASSUME NetworkInv, N!Restore \/ N!RestoreDns
    PROVE  NetworkInv'
<1> USE DEF NetworkInv, N!Idle, N!settings
<1>1. CASE N!Restore
  <2>1. UNCHANGED <<adapters, rss, nla, policy, dns, netEntry, dnsEntry, netChanges>>
        /\ netOp' = [pc |-> "restore", left |-> <<"rss", "nla">>, policies |-> Policies,
                     since |-> netChanges]
        /\ netEntry \in N!Records
    BY <1>1 DEF N!Restore, N!TypeOK
  <2>2. netOp' \in NetworkOps /\ netChanges \in Nat
    BY <2>1 DEF NetworkOps, N!TypeOK
  <2>3. <<"rss", "nla">> # <<>>
    OBVIOUS
  <2>4. AdapterInv'
    BY <2>1, <2>2 DEF AdapterInv
  <2>5. PutBackInv'
    BY <2>1, <2>3 DEF PutBackInv
  <2>6. QED
    BY <2>1, <2>4, <2>5 DEF N!TypeOK
<1>2. CASE N!RestoreDns
  <2>1. UNCHANGED <<adapters, rss, nla, policy, netEntry, netOp, netChanges>>
        /\ netOp.pc = "idle" /\ dnsEntry' = None
    BY <1>2 DEF N!RestoreDns
  <2>2. dnsEntry \in N!DnsRecords
    BY <1>2 DEF N!RestoreDns, N!TypeOK
  <2>3. dns' \in [Devices -> Servers]
    BY <1>2, <2>2 DEF N!RestoreDns, N!TypeOK, N!DnsRecords
  <2>4. QED
    BY <2>1, <2>3 DEF N!TypeOK, AdapterInv, PutBackInv
<1>3. QED
  BY <1>1, <1>2

\* The RSS value is put back on the very device that was captured.
LEMMA RestoreRssInv ==
    ASSUME NetworkInv, N!RestoreRss
    PROVE  NetworkInv'
<1> USE DEF NetworkInv, N!RestoreRss, N!End, N!Idle, N!Done
<1> DEFINE d == netEntry.adapter.device
<1>1. /\ netOp \in [pc : {"restore"}, left : {<<"rss", "nla">>, <<"nla">>, <<>>},
                    policies : SUBSET Policies, since : Nat]
      /\ netEntry \in N!Records /\ netOp.since <= netChanges
  BY NetworkShape DEF AdapterInv
<1>2. netOp.left = <<"rss", "nla">> /\ Tail(netOp.left) = <<"nla">>
  <2>1. Head(<<"nla">>) = "nla" /\ Tail(<<"rss", "nla">>) = <<"nla">>
    OBVIOUS
  <2>2. QED
    BY <1>1, <2>1
<1>3. netEntry.rss \in {None, 0, N!Target} /\ d \in Devices
  BY <1>1 DEF N!Records, N!Adapters
<1>4. UNCHANGED <<adapters, nla, policy, dns, netEntry, dnsEntry, netChanges>>
  OBVIOUS
<1>5. CASE netOp' = [pc |-> "idle"] /\ UNCHANGED rss
  <2>1. netOp' \in NetworkOps
    BY <1>5 DEF NetworkOps
  <2>2. QED
    BY <1>4, <1>5, <2>1 DEF N!TypeOK, AdapterInv, PutBackInv
<1>6. CASE /\ rss' = IF netEntry.rss = None THEN rss ELSE [rss EXCEPT ![d] = netEntry.rss]
           /\ netOp' = [netOp EXCEPT !.left = Tail(@)]
  <2>1. rss' \in [Devices -> {None, 0, N!Target}]
        /\ (netEntry.rss # None => rss'[d] = netEntry.rss)
    BY <1>3, <1>6 DEF N!TypeOK
  <2>2. /\ netOp' \in NetworkOps /\ netOp'.pc = "restore" /\ netOp'.left = <<"nla">>
        /\ netOp'.since = netOp.since /\ netOp'.policies = netOp.policies
    BY <1>1, <1>2, <1>6 DEF NetworkOps
  <2>3. <<"nla">> # <<>>
    OBVIOUS
  <2>4. N!TypeOK'
    BY <1>4, <2>1 DEF N!TypeOK
  <2>5. AdapterInv' /\ PutBackInv'
    BY <1>1, <1>4, <2>1, <2>2, <2>3 DEF AdapterInv, PutBackInv
  <2>6. QED
    BY <2>4, <2>5
<1>7. QED
  BY <1>5, <1>6

\* The NLA value is put back as captured.
LEMMA RestoreNlaInv ==
    ASSUME NetworkInv, N!RestoreNla
    PROVE  NetworkInv'
<1> USE DEF NetworkInv, N!RestoreNla, N!End, N!Idle, N!Done
<1> DEFINE new == N!RestoredNla(netEntry.nla)
<1>1. /\ netOp \in [pc : {"restore"}, left : {<<"rss", "nla">>, <<"nla">>, <<>>},
                    policies : SUBSET Policies, since : Nat]
      /\ netEntry \in N!Records /\ netOp.since <= netChanges
  BY NetworkShape DEF AdapterInv
<1>2. netOp.left = <<"nla">> /\ Tail(netOp.left) = <<>> /\ <<"nla">> # <<"rss", "nla">>
  <2>1. Head(<<"rss", "nla">>) = "rss" /\ Tail(<<"nla">>) = <<>> /\ <<"nla">> # <<"rss", "nla">>
    OBVIOUS
  <2>2. QED
    BY <1>1, <2>1
<1>3. netEntry.nla \in N!NlaStates
  BY <1>1 DEF N!Records
<1>4. new # None => new \in N!NlaStates /\ (new.value # None => new.key)
  BY <1>3 DEF N!RestoredNla, N!NlaStates, N!TypeOK
<1>5. UNCHANGED <<adapters, rss, policy, dns, netEntry, dnsEntry, netChanges>>
  OBVIOUS
<1>6. nla' = (IF N!ExactAdapter(netEntry.adapter) /\ new # None THEN new ELSE nla)
  OBVIOUS
<1>7. \/ netOp' = [pc |-> "idle"]
      \/ /\ netOp' = [netOp EXCEPT !.left = Tail(@)]
         /\ new # None /\ N!ExactAdapter(netEntry.adapter) /\ N!SameNla(new, netEntry.nla)
  OBVIOUS
<1> HIDE DEF new
<1>8. N!TypeOK'
  <2>1. nla' \in N!NlaStates /\ (nla'.value # None => nla'.key)
    BY <1>4, <1>6 DEF N!TypeOK
  <2>2. QED
    BY <1>5, <2>1 DEF N!TypeOK
<1>9. CASE netOp' = [pc |-> "idle"]
  BY <1>8, <1>9 DEF AdapterInv, PutBackInv, NetworkOps
<1>10. CASE /\ netOp' = [netOp EXCEPT !.left = Tail(@)]
            /\ new # None /\ N!ExactAdapter(netEntry.adapter) /\ N!SameNla(new, netEntry.nla)
  <2>1. /\ netOp' \in NetworkOps /\ netOp'.pc = "restore" /\ netOp'.left = <<>>
        /\ netOp'.since = netOp.since /\ netOp'.policies = netOp.policies
    BY <1>1, <1>2, <1>10 DEF NetworkOps
  <2>2. netOp'.policies = Policies
    BY <1>2, <2>1 DEF AdapterInv
  <2>3. AdapterInv'
    BY <1>1, <1>5, <2>1 DEF AdapterInv
  <2>4. PutBackInv'
    BY <1>1, <1>2, <1>5, <1>6, <1>10, <2>1, <2>2 DEF PutBackInv, N!SameNla
  <2>5. QED
    BY <1>8, <2>3, <2>4
<1>11. QED
  BY <1>7, <1>9, <1>10

\* A policy is put back after the values.
LEMMA RestorePolicyInv ==
    ASSUME NetworkInv, NEW p \in Policies, N!RestorePolicy(p)
    PROVE  NetworkInv'
<1> USE DEF NetworkInv, N!RestorePolicy, N!End, N!Idle
<1>1. /\ netOp \in [pc : {"restore"}, left : {<<"rss", "nla">>, <<"nla">>, <<>>},
                    policies : SUBSET Policies, since : Nat]
      /\ netEntry \in N!Records /\ netOp.since <= netChanges /\ netOp.left = <<>>
  BY NetworkShape DEF AdapterInv
<1>2. netEntry.policies \in [Policies -> N!Makers]
  BY <1>1 DEF N!Records
<1>3. UNCHANGED <<adapters, rss, nla, dns, netEntry, dnsEntry, netChanges>>
  OBVIOUS
<1>4. CASE netOp' = [pc |-> "idle"] /\ UNCHANGED policy
  <2>1. netOp' \in NetworkOps
    BY <1>4 DEF NetworkOps
  <2>2. QED
    BY <1>3, <1>4, <2>1 DEF N!TypeOK, AdapterInv, PutBackInv
<1>5. CASE /\ policy' = [policy EXCEPT ![p] = netEntry.policies[p]]
           /\ netOp' = [netOp EXCEPT !.policies = @ \ {p}]
  <2>1. policy' \in [Policies -> N!Makers]
    BY <1>2, <1>5 DEF N!TypeOK
  <2>2. /\ netOp' \in NetworkOps /\ netOp'.pc = "restore" /\ netOp'.left = <<>>
        /\ netOp'.since = netOp.since /\ netOp'.policies = netOp.policies \ {p}
    BY <1>1, <1>5 DEF NetworkOps
  <2>3. N!TypeOK'
    BY <1>3, <2>1 DEF N!TypeOK
  <2>4. AdapterInv'
    BY <1>1, <1>3, <2>2 DEF AdapterInv
  <2>5. ASSUME netOp.since = netChanges, NEW q \in Policies \ netOp'.policies
        PROVE  policy'[q] = netEntry.policies[q]
    <3>1. CASE q = p
      BY <1>5, <3>1 DEF N!TypeOK
    <3>2. CASE q # p
      <4>1. policy[q] = netEntry.policies[q]
        BY <1>1, <2>2, <2>5, <3>2 DEF PutBackInv
      <4>2. QED
        BY <1>5, <3>2, <4>1 DEF N!TypeOK
    <3>3. QED
      BY <3>1, <3>2
  <2>6. PutBackInv'
    BY <1>1, <1>3, <2>2, <2>5 DEF PutBackInv
  <2>7. QED
    BY <2>3, <2>4, <2>6
<1>6. QED
  BY <1>4, <1>5

\* The entry goes with the last part of the restore.
LEMMA FinishNetworkRestoreInv ==
    ASSUME NetworkInv, N!FinishRestore
    PROVE  NetworkInv'
<1> USE DEF NetworkInv, N!FinishRestore, N!End, N!Idle, N!settings
<1>1. netOp' = [pc |-> "idle"] /\ netEntry' = None
      /\ UNCHANGED <<adapters, rss, nla, policy, dns, dnsEntry, netChanges>>
  OBVIOUS
<1>2. netOp' \in NetworkOps
  BY <1>1 DEF NetworkOps
<1>3. QED
  BY <1>1, <1>2 DEF N!TypeOK, AdapterInv, PutBackInv

\* Windows and other programs may change everything but the backup; a restore
\* that was running counts as disturbed from then on.
LEMMA NetworkChangeInv ==
    ASSUME NetworkInv, N!Change
    PROVE  NetworkInv'
<1> USE DEF NetworkInv, N!settings
<1>1. netChanges \in Nat /\ netChanges' = netChanges + 1
  BY DEF N!Change, N!TypeOK
<1>2. UNCHANGED <<netEntry, dnsEntry, netOp, dns>>
  BY DEF N!Change, N!Plug, N!Unplug, N!DriverUpdate, N!OtherProgram
<1>3. adapters' \subseteq N!Adapters
  BY DEF N!Change, N!Plug, N!Unplug, N!DriverUpdate, N!OtherProgram, N!TypeOK
<1>4. rss' \in [Devices -> {None, 0, N!Target}]
  BY DEF N!Change, N!Plug, N!Unplug, N!DriverUpdate, N!OtherProgram, N!TypeOK
<1>5. nla' \in N!NlaStates /\ (nla'.value # None => nla'.key)
  BY DEF N!Change, N!Plug, N!Unplug, N!DriverUpdate, N!OtherProgram, N!TypeOK, N!NlaStates
<1>6. policy' \in [Policies -> N!Makers]
  BY DEF N!Change, N!Plug, N!Unplug, N!DriverUpdate, N!OtherProgram, N!TypeOK, N!Makers,
         N!Foreign
<1>7. N!TypeOK'
  BY <1>1, <1>2, <1>3, <1>4, <1>5, <1>6 DEF N!TypeOK
<1>8. netOp.pc = "restore" => netOp.since \in Nat /\ netOp.since <= netChanges
  BY NetworkShape DEF AdapterInv
<1>9. AdapterInv'
  BY <1>1, <1>2, <1>8 DEF AdapterInv
<1>10. PutBackInv'
  BY <1>1, <1>2, <1>8 DEF PutBackInv
<1>11. QED
  BY <1>7, <1>9, <1>10

\* Every step on the network stack keeps its invariant.
LEMMA NetworkStep ==
    ASSUME NetworkInv, N!Next \/ UNCHANGED networkVars
    PROVE  NetworkInv'
<1>1. CASE UNCHANGED networkVars
  BY <1>1 DEF networkVars, NetworkInv, N!TypeOK, AdapterInv, PutBackInv
<1>2. ASSUME NEW p \in Policies, N!RestorePolicy(p) PROVE NetworkInv'
  BY <1>2, RestorePolicyInv
<1>3. ASSUME NEW release \in {"this", "earlier"}, N!Capture(release) PROVE NetworkInv'
  BY <1>3, CaptureNetworkInv
<1>4. QED
  BY <1>1, <1>2, <1>3, ApplyNetworkInv, BeginNetworkRestoreInv, RestoreRssInv, RestoreNlaInv,
     FinishNetworkRestoreInv, NetworkChangeInv DEF N!Next, N!Step

\* What a command that writes the RSS value or the DNS servers relies on.
WritesCaptured ==
    \A d \in Devices :
        /\ rss'[d] # rss[d] /\ netChanges' = netChanges =>
            netEntry # None /\ netEntry.adapter.device = d /\ netEntry.adapter \in adapters
        /\ dns'[d] # dns[d] =>
            \E e \in {dnsEntry, dnsEntry'} :
                e # None /\ e.adapter.device = d /\ e.adapter \in adapters

\* Every write goes to the adapter of the entry, which has just been observed.
LEMMA CapturedAdapterStep ==
    ASSUME NetworkInv, N!Next
    PROVE  WritesCaptured
<1> USE DEF NetworkInv, N!settings
<1>1. ASSUME NEW d \in Devices, rss'[d] # rss[d], netChanges' = netChanges
      PROVE  netEntry # None /\ netEntry.adapter.device = d /\ netEntry.adapter \in adapters
  <2>1. netChanges \in Nat
    BY DEF N!TypeOK
  <2>2. N!Apply \/ N!RestoreRss
    <3>1. ~N!Change
      BY <1>1, <2>1 DEF N!Change
    <3>2. QED
      BY <1>1, <3>1 DEF N!Next, N!Step, N!Capture, N!EarlierRelease, N!Restore, N!RestoreDns,
         N!CaptureFailed, N!Verify, N!RestoreNla, N!FinishRestore, N!RestorePolicy
  <2>3. CASE N!Apply
    <3>1. netEntry \in N!Records /\ netEntry.adapter = netOp.adapter
      BY <2>3 DEF N!Apply, AdapterInv
    <3>2. rss' = [rss EXCEPT ![netOp.adapter.device] = N!Target] /\ netOp.adapter \in adapters
      BY <1>1, <2>3 DEF N!Apply, N!ExactAdapter
    <3>3. QED
      BY <1>1, <3>1, <3>2, NetworkAssumption DEF N!TypeOK
  <2>4. CASE N!RestoreRss
    <3>1. netEntry \in N!Records
      BY <2>4 DEF N!RestoreRss, AdapterInv
    <3>2. /\ rss' = [rss EXCEPT ![netEntry.adapter.device] = netEntry.rss]
          /\ netEntry.adapter \in adapters
      BY <1>1, <2>4 DEF N!RestoreRss, N!ExactAdapter
    <3>3. QED
      BY <1>1, <3>1, <3>2, NetworkAssumption DEF N!TypeOK
  <2>5. QED
    BY <2>2, <2>3, <2>4
<1>2. ASSUME NEW d \in Devices, dns'[d] # dns[d]
      PROVE  \E e \in {dnsEntry, dnsEntry'} :
                e # None /\ e.adapter.device = d /\ e.adapter \in adapters
  <2>1. (\E s \in Servers : N!EarlierRelease(s)) \/ N!RestoreDns
    BY <1>2 DEF N!Next, N!Step, N!Capture, N!Restore, N!Apply, N!RestoreRss,
         N!CaptureFailed, N!Verify, N!RestoreNla, N!FinishRestore, N!RestorePolicy, N!Change,
         N!Plug, N!Unplug, N!DriverUpdate, N!OtherProgram
  <2>2. CASE \E s \in Servers : N!EarlierRelease(s)
    <3>1. PICK s \in Servers : N!EarlierRelease(s)
      BY <2>2
    <3>2. /\ dnsEntry' = [adapter |-> netOp.adapter, servers |-> dns[netOp.adapter.device]]
          /\ dns' = [dns EXCEPT ![netOp.adapter.device] = s] /\ netOp.adapter \in adapters
      BY <3>1 DEF N!EarlierRelease, N!ExactAdapter
    <3>3. netOp.adapter \in N!Adapters /\ netOp.adapter.device \in Devices
      BY <3>2 DEF N!TypeOK, N!Adapters
    <3>4. dnsEntry' # None
      BY <3>2, <3>3, NetworkAssumption DEF N!TypeOK, N!DnsRecords
    <3>5. QED
      BY <1>2, <3>2, <3>4 DEF N!TypeOK
  <2>3. CASE N!RestoreDns
    BY <1>2, <2>3 DEF N!RestoreDns, N!ExactAdapter, N!TypeOK
  <2>4. QED
    BY <2>1, <2>2, <2>3
<1>3. QED
  BY <1>1, <1>2 DEF WritesCaptured

\* What a restore that ends has put back.
PutBack ==
    netEntry # None /\ netEntry' = None /\ netOp.since = netChanges =>
        /\ netEntry.rss # None => rss[netEntry.adapter.device] = netEntry.rss
        /\ N!SameNla(nla, netEntry.nla)
        /\ policy = netEntry.policies

\* Only the end of a restore takes the entry out of the backup.
LEMMA PutBackStep ==
    ASSUME NetworkInv, N!Next
    PROVE  PutBack
<1> SUFFICES ASSUME netEntry # None, netEntry' = None, netOp.since = netChanges
             PROVE  /\ netEntry.rss # None => rss[netEntry.adapter.device] = netEntry.rss
                    /\ N!SameNla(nla, netEntry.nla)
                    /\ policy = netEntry.policies
  BY DEF PutBack
<1> USE DEF NetworkInv, N!settings
<1>1. N!FinishRestore
  BY DEF N!Next, N!Step, N!Capture, N!EarlierRelease, N!Restore, N!RestoreDns, N!Apply,
         N!CaptureFailed, N!Verify, N!RestoreRss, N!RestoreNla, N!RestorePolicy, N!Change,
         N!Plug, N!Unplug, N!DriverUpdate, N!OtherProgram
<1>2. /\ netOp.pc = "restore" /\ netOp.left = <<>> /\ netOp.policies = {}
      /\ netEntry \in N!Records /\ <<>> # <<"rss", "nla">>
  BY <1>1 DEF N!FinishRestore, AdapterInv
<1>3. /\ netEntry.rss # None => rss[netEntry.adapter.device] = netEntry.rss
      /\ nla.key = netEntry.nla.key /\ nla.value = netEntry.nla.value
      /\ \A p \in Policies : policy[p] = netEntry.policies[p]
  BY <1>2 DEF PutBackInv
<1>4. policy = netEntry.policies
  BY <1>2, <1>3 DEF N!TypeOK, N!Records
<1>5. QED
  BY <1>3, <1>4 DEF N!SameNla

\* A step of the suite is a step of the network stack or leaves it alone.
LEMMA NetworkPart ==
    ASSUME [PartsNext]_allVars
    PROVE  N!Next \/ UNCHANGED networkVars
  BY DEF PartsNext, allVars

\* The invariant of the network stack holds in every reachable state.
THEOREM NetworkInvariant == PartsSpec => []NetworkInv
<1>1. PartsInit => NetworkInv
  BY NetworkInit DEF PartsInit
<1>2. NetworkInv /\ [PartsNext]_allVars => NetworkInv'
  BY NetworkPart, NetworkStep
<1>3. QED
  BY <1>1, <1>2, PTL DEF PartsSpec

\* No command writes the RSS value or the DNS servers of an adapter other than
\* the captured one, however many there are and however often they are replaced
\* and numbered anew.
THEOREM OnlyTheCapturedAdapter == PartsSpec => OnlyCapturedAdapter
<1>1. NetworkInv /\ [PartsNext]_allVars => [WritesCaptured]_(N!vars)
  <2>1. SUFFICES ASSUME NetworkInv, [PartsNext]_allVars PROVE [WritesCaptured]_(N!vars)
    OBVIOUS
  <2>2. CASE N!Next
    BY <2>1, <2>2, CapturedAdapterStep
  <2>3. CASE UNCHANGED networkVars
    BY <2>3 DEF networkVars, N!vars, N!settings
  <2>4. QED
    BY <2>1, <2>2, <2>3, NetworkPart
<1>2. QED
  BY <1>1, NetworkInvariant, PTL
     DEF PartsSpec, OnlyCapturedAdapter, N!OnlyCapturedAdapter, WritesCaptured

\* A restore that nobody disturbs removes the network entry from the backup only
\* when the RSS value, the NLA value and the policies are again what it records,
\* after any number of failed restores and of changes before it.
THEOREM NetworkRestoreIsComplete == PartsSpec => RestoreComplete
<1>1. NetworkInv /\ [PartsNext]_allVars => [PutBack]_(N!vars)
  <2>1. SUFFICES ASSUME NetworkInv, [PartsNext]_allVars PROVE [PutBack]_(N!vars)
    OBVIOUS
  <2>2. CASE N!Next
    BY <2>1, <2>2, PutBackStep
  <2>3. CASE UNCHANGED networkVars
    BY <2>3 DEF networkVars, N!vars, N!settings
  <2>4. QED
    BY <2>1, <2>2, <2>3, NetworkPart
<1>2. QED
  BY <1>1, NetworkInvariant, PTL DEF PartsSpec, RestoreComplete, N!RestoreComplete, PutBack

-----------------------------------------------------------------------------
(* The page file *)

\* The commands of the page file transaction, with what each carries.
PageMutations == [pc : {"disable", "write", "persist", "verify", "undo", "undoAutomatic"},
                  before : F!Layouts, automatic : BOOLEAN, size : Sizes,
                  token : {None} \cup Sizes, since : Nat]
PageRestores == [pc : {"delete", "update", "verifyRestore"}, since : Nat,
                 known : {None} \cup Sizes]
PageOps == [pc : {"idle"}] \cup PageMutations \cup PageRestores

\* A token is the size of a page file the suite created, wherever it is kept, and
\* a restore runs only on an entry that says what to do.
TokenInv ==
    /\ pageOp \in PageOps
    /\ pageOp \in PageMutations =>
          /\ pageOp.token \in {None} \cup made
          /\ pageOp.pc = "persist" => pageOp.token # None
    /\ pageOp \in PageRestores =>
          pageEntry \in F!Entries /\ pageEntry.intent \in {"update_pending", "created"}
    /\ pageEntry \in F!Entries =>
          /\ pageEntry.token \in {None} \cup made
          /\ pageEntry.intent = "update_pending" => pageEntry.before[PageTarget] # None

PagefileInv == F!TypeOK /\ TokenInv

\* What a command carries, told by where it is.
LEMMA PageShape ==
    ASSUME pageOp \in PageOps
    PROVE  /\ pageOp.pc \in {"disable", "write", "persist", "verify", "undo", "undoAutomatic"} =>
                 pageOp \in PageMutations
           /\ pageOp.pc \in {"delete", "update", "verifyRestore"} => pageOp \in PageRestores
           /\ pageOp \in PageMutations => pageOp \notin PageRestores /\ pageOp # F!Idle
           /\ pageOp \in PageRestores => pageOp \notin PageMutations /\ pageOp # F!Idle
  BY DEF PageOps, PageMutations, PageRestores, F!Idle

\* The same of the next one.
LEMMA PageShapeNext ==
    /\ F!Idle \in PageOps /\ F!Idle \notin PageMutations /\ F!Idle \notin PageRestores
    /\ \A o \in PageMutations : \A at \in {"disable", "write", "persist", "verify", "undo",
                                           "undoAutomatic"} :
          /\ [o EXCEPT !.pc = at] \in PageMutations
          /\ [o EXCEPT !.pc = at].token = o.token /\ [o EXCEPT !.pc = at].pc = at
    /\ \A o \in PageRestores :
          [o EXCEPT !.pc = "verifyRestore"] \in PageRestores
    /\ \A o \in PageMutations : o \notin PageRestores /\ o \in PageOps
    /\ \A o \in PageRestores : o \notin PageMutations /\ o \in PageOps
  BY DEF PageOps, PageMutations, PageRestores, F!Idle

\* The invariant holds at the start.
LEMMA PagefileInit == F!Init => PagefileInv
<1> SUFFICES ASSUME F!Init PROVE PagefileInv
  OBVIOUS
<1>1. pageOp \in PageOps /\ pageOp \notin PageMutations /\ pageOp \notin PageRestores
  BY PageShapeNext DEF F!Init
<1>2. F!TypeOK
  BY PagefileAssumption DEF F!Init, F!TypeOK, F!Layouts
<1>3. QED
  BY <1>1, <1>2, PagefileAssumption DEF PagefileInv, TokenInv, F!Init

\* A capture keeps the entry of an earlier one, or records what it finds.
LEMMA PageCaptureInv ==
    ASSUME PagefileInv, NEW size \in Sizes, F!Capture(size)
    PROVE  PagefileInv'
<1> USE DEF PagefileInv
<1>1. UNCHANGED <<automatic, pageFiles, made, wrote, pageChanges, pageFaults>>
  BY DEF F!Capture, F!machine, F!written
<1>2. pageChanges + pageFaults \in Nat
  BY DEF F!TypeOK
<1>3. pageOp' \in PageMutations /\ pageOp'.token = None /\ pageOp'.pc = "disable"
  <2>1. pageFiles \in F!Layouts /\ automatic \in BOOLEAN
    BY Zenon DEF F!TypeOK
  <2>2. QED
    BY <1>2, <2>1 DEF F!Capture, PageMutations
<1>4. CASE pageEntry # None
  <2>1. pageEntry' = pageEntry
    BY <1>4 DEF F!Capture
  <2>2. F!TypeOK'
    BY <1>1, <2>1 DEF F!TypeOK
  <2>3. QED
    BY <1>1, <1>3, <2>1, <2>2, PageShapeNext DEF TokenInv
<1>5. CASE pageEntry = None
  <2>1. pageEntry' = [before |-> pageFiles, automatic |-> automatic, token |-> None,
                      intent |-> IF pageFiles[PageTarget] # None THEN "update_pending"
                                 ELSE "create_pending"]
    BY <1>5 DEF F!Capture
  <2>2. pageEntry' \in F!Entries
    <3>1. pageFiles \in F!Layouts /\ automatic \in BOOLEAN
      BY Zenon DEF F!TypeOK
    <3>2. QED
      BY <2>1, <3>1 DEF F!Entries
  <2>3. F!TypeOK'
    BY <1>1, <2>1, <2>2 DEF F!TypeOK
  <2>4. QED
    BY <1>1, <1>3, <2>1, <2>2, <2>3, PageShapeNext DEF TokenInv
<1>6. QED
  BY <1>4, <1>5

\* A mutation that goes on keeps its token.
LEMMA PageAdvances ==
    ASSUME NEW at \in {"disable", "write", "verify", "undo", "undoAutomatic"},
           pageOp \in PageMutations, pageOp' = [pageOp EXCEPT !.pc = at]
    PROVE  /\ pageOp' \in PageMutations /\ pageOp' \notin PageRestores /\ pageOp' \in PageOps
           /\ pageOp'.token = pageOp.token /\ pageOp'.pc # "persist"
<1>1. pageOp' \in PageMutations /\ pageOp'.token = pageOp.token /\ pageOp'.pc = at
  BY DEF PageMutations
<1>2. QED
  BY <1>1, PageShapeNext

\* The steps of a mutation and of its compensation.
LEMMA PageMutationInv ==
    ASSUME PagefileInv,
           \/ F!DisableAutomatic \/ F!WriteTarget \/ F!PersistToken \/ F!Verify
           \/ F!UndoTarget \/ F!UndoAutomatic
    PROVE  PagefileInv'
<1> USE DEF PagefileInv, F!Goto, F!machine, F!written
<1>1. pageOp \in PageMutations /\ pageOp \in PageOps
  BY PageShape DEF TokenInv, F!DisableAutomatic, F!WriteTarget, F!PersistToken, F!Verify,
     F!UndoTarget, F!UndoAutomatic
<1>2. /\ pageOp.before \in F!Layouts /\ pageOp.size \in Sizes
      /\ pageOp.before[PageTarget] \in {None} \cup Sizes
  BY <1>1 DEF PageMutations, F!Layouts, F!Paths
<1>3. pageOp.automatic \in BOOLEAN
  BY <1>1, Zenon DEF PageMutations
<1>4. UNCHANGED <<pageChanges, pageFaults>>
  BY DEF F!DisableAutomatic, F!WriteTarget, F!PersistToken, F!Verify, F!UndoTarget,
     F!UndoAutomatic
<1>5. CASE F!DisableAutomatic
  <2>1. UNCHANGED <<pageFiles, pageEntry, made, wrote>> /\ automatic' \in {automatic, FALSE}
        /\ \E at \in {"write", "undo"} : pageOp' = [pageOp EXCEPT !.pc = at]
    BY <1>5 DEF F!DisableAutomatic
  <2>2. automatic' \in BOOLEAN
    BY <2>1, Zenon DEF F!TypeOK
  <2>3. F!TypeOK'
    BY <1>4, <2>1, <2>2 DEF F!TypeOK
  <2>4. QED
    BY <1>1, <2>1, <2>3, PageAdvances DEF TokenInv
<1>6. CASE F!WriteTarget
  <2>1. UNCHANGED <<automatic, pageEntry>>
    BY <1>6 DEF F!WriteTarget
  <2>2. pageFiles' \in F!Layouts /\ made \subseteq made' /\ made' \subseteq Sizes
        /\ wrote' \in {None} \cup Sizes
    BY <1>2, <1>6 DEF F!WriteTarget, F!TypeOK, F!Layouts, F!Paths
  <2>3. \/ \E at \in {"undo", "verify"} : pageOp' = [pageOp EXCEPT !.pc = at]
        \/ /\ pageOp' = [pageOp EXCEPT !.pc = "persist", !.token = pageOp.size]
           /\ pageOp.size \in made'
    BY <1>6 DEF F!WriteTarget
  <2>4. /\ pageOp' \in PageMutations /\ pageOp'.token \in {None} \cup made'
        /\ pageOp'.pc = "persist" => pageOp'.token # None
    <3>1. CASE \E at \in {"undo", "verify"} : pageOp' = [pageOp EXCEPT !.pc = at]
      BY <1>1, <2>2, <3>1, PageAdvances DEF TokenInv
    <3>2. CASE /\ pageOp' = [pageOp EXCEPT !.pc = "persist", !.token = pageOp.size]
               /\ pageOp.size \in made'
      <4>1. pageOp' \in PageMutations /\ pageOp'.token = pageOp.size
        BY <1>1, <1>2, <3>2 DEF PageMutations
      <4>2. QED
        BY <1>2, <3>2, <4>1, PagefileAssumption
    <3>3. QED
      BY <2>3, <3>1, <3>2
  <2>5. F!TypeOK'
    BY <1>4, <2>1, <2>2 DEF F!TypeOK
  <2>6. QED
    BY <2>1, <2>2, <2>4, <2>5, PageShapeNext DEF TokenInv
<1>7. CASE F!PersistToken
  <2>1. UNCHANGED <<automatic, pageFiles, made, wrote>>
        /\ \E at \in {"verify", "undo"} : pageOp' = [pageOp EXCEPT !.pc = at]
    BY <1>7 DEF F!PersistToken
  <2>2. pageOp.token \in made /\ pageOp.token # None /\ made \subseteq Sizes
    BY <1>1, <1>7 DEF F!PersistToken, TokenInv, F!TypeOK
  <2>3. CASE pageEntry' = pageEntry
    <3>1. F!TypeOK'
      BY <1>4, <2>1, <2>3 DEF F!TypeOK
    <3>2. QED
      BY <1>1, <2>1, <2>3, <3>1, PageAdvances DEF TokenInv
  <2>4. CASE /\ pageEntry # None
             /\ pageEntry' = [pageEntry EXCEPT !.intent = "created", !.token = pageOp.token]
    <3>1. pageEntry \in F!Entries
      BY <2>4 DEF F!TypeOK
    <3>2. /\ pageEntry' \in F!Entries /\ pageEntry'.token = pageOp.token
          /\ pageEntry'.intent = "created"
      BY <2>2, <2>4, <3>1 DEF F!Entries
    <3>3. F!TypeOK'
      BY <1>4, <2>1, <2>2, <3>2 DEF F!TypeOK
    <3>4. QED
      BY <1>1, <2>1, <2>2, <3>2, <3>3, PageAdvances DEF TokenInv
  <2>5. QED
    BY <1>7, <2>3, <2>4 DEF F!PersistToken
<1>8. CASE F!Verify
  <2>1. UNCHANGED <<automatic, pageFiles, pageEntry, made, wrote>>
        /\ (pageOp' = F!Idle \/ pageOp' = [pageOp EXCEPT !.pc = "undo"])
    BY <1>8 DEF F!Verify
  <2>2. F!TypeOK'
    BY <1>4, <2>1 DEF F!TypeOK
  <2>3. QED
    BY <1>1, <2>1, <2>2, PageAdvances, PageShapeNext DEF TokenInv
<1>9. CASE F!UndoTarget
  <2>1. UNCHANGED <<automatic, pageEntry, made, wrote>>
        /\ pageOp' = [pageOp EXCEPT !.pc = "undoAutomatic"]
    BY <1>9 DEF F!UndoTarget
  <2>2. pageFiles' \in F!Layouts
    BY <1>2, <1>9 DEF F!UndoTarget, F!TypeOK, F!Layouts, F!Paths
  <2>3. F!TypeOK'
    BY <1>4, <2>1, <2>2 DEF F!TypeOK
  <2>4. QED
    BY <1>1, <2>1, <2>3, PageAdvances DEF TokenInv
<1>10. CASE F!UndoAutomatic
  <2>1. UNCHANGED <<pageFiles, pageEntry, made, wrote>> /\ pageOp' = F!Idle
        /\ automatic' = pageOp.automatic
    BY <1>10 DEF F!UndoAutomatic
  <2>2. F!TypeOK'
    BY <1>3, <1>4, <2>1 DEF F!TypeOK
  <2>3. QED
    BY <2>1, <2>2, PageShapeNext DEF TokenInv
<1>11. QED
  BY <1>5, <1>6, <1>7, <1>8, <1>9, <1>10

\* The steps of a restore.
LEMMA PageRestoreInv ==
    ASSUME PagefileInv, F!Restore \/ F!RestoreDelete \/ F!RestoreUpdate \/ F!VerifyRestore
    PROVE  PagefileInv'
<1> USE DEF PagefileInv, F!Goto, F!machine, F!written
<1>1. UNCHANGED <<made, wrote, pageChanges, pageFaults>>
  BY DEF F!Restore, F!RestoreDelete, F!RestoreUpdate, F!VerifyRestore
<1>2. CASE F!Restore
  <2>1. UNCHANGED <<automatic, pageFiles, pageEntry>>
        /\ pageEntry \in F!Entries /\ pageEntry.intent \in {"update_pending", "created"}
    BY <1>2 DEF F!Restore, F!TypeOK
  <2>2. pageChanges + pageFaults \in Nat
    BY DEF F!TypeOK
  <2>3. pageFiles[PageTarget] \in {None} \cup Sizes
    BY DEF F!TypeOK, F!Layouts, F!Paths
  <2>4. pageOp' \in PageRestores
    BY <1>2, <2>2, <2>3 DEF F!Restore, PageRestores
  <2>5. F!TypeOK'
    BY <1>1, <2>1 DEF F!TypeOK
  <2>6. QED
    BY <1>1, <2>1, <2>4, <2>5, PageShapeNext DEF TokenInv
<1>3. CASE F!RestoreDelete \/ F!RestoreUpdate \/ F!VerifyRestore
  <2>1. pageOp \in PageRestores /\ pageEntry \in F!Entries
        /\ pageEntry.intent \in {"update_pending", "created"}
    BY <1>3, PageShape DEF TokenInv, F!RestoreDelete, F!RestoreUpdate, F!VerifyRestore
  <2>2. pageOp' = F!Idle \/ pageOp' = [pageOp EXCEPT !.pc = "verifyRestore"]
    BY <1>3 DEF F!RestoreDelete, F!RestoreUpdate, F!VerifyRestore
  <2>3. pageEntry.automatic \in BOOLEAN
    BY <2>1, Zenon DEF F!Entries
  <2>4. pageEntry.before[PageTarget] \in {None} \cup Sizes
    BY <2>1 DEF F!Entries, F!Layouts, F!Paths
  <2>5. pageFiles' \in F!Layouts
    BY <1>3, <2>4 DEF F!RestoreDelete, F!RestoreUpdate, F!VerifyRestore, F!TypeOK, F!Layouts,
       F!Paths
  <2>6. /\ automatic' \in {automatic, pageEntry.automatic}
        /\ (pageEntry' = pageEntry \/ (pageEntry' = None /\ pageOp' = F!Idle))
    BY <1>3 DEF F!RestoreDelete, F!RestoreUpdate, F!VerifyRestore
  <2>7. automatic' \in BOOLEAN
    BY <2>3, <2>6, Zenon DEF F!TypeOK
  <2>8. F!TypeOK'
    BY <1>1, <2>1, <2>5, <2>6, <2>7 DEF F!TypeOK
  <2>9. QED
    BY <1>1, <2>1, <2>2, <2>6, <2>8, PageShapeNext, PagefileAssumption DEF TokenInv
<1>4. QED
  BY <1>2, <1>3

\* Calls that fail, crashes and changes by others.
LEMMA PageDisturbanceInv ==
    ASSUME PagefileInv, F!CallFails \/ F!Crash \/ F!Change
    PROVE  PagefileInv'
<1> USE DEF PagefileInv, F!Goto, F!machine, F!written
<1>1. pageChanges' \in Nat /\ pageFaults' \in Nat
  BY DEF F!CallFails, F!Crash, F!Change, F!TypeOK
<1>2. CASE F!Crash
  <2>1. F!TypeOK'
    BY <1>1, <1>2 DEF F!Crash, F!TypeOK
  <2>2. QED
    BY <1>2, <2>1, PageShapeNext DEF F!Crash, TokenInv
<1>3. CASE F!Change
  <2>1. UNCHANGED <<pageEntry, pageOp, made, wrote>>
    BY <1>3 DEF F!Change
  <2>2. pageFiles' \in F!Layouts
    BY <1>3 DEF F!Change, F!TypeOK, F!Layouts
  <2>3. automatic' \in BOOLEAN
    <3>1. automatic' = automatic \/ automatic' = ~automatic
      BY <1>3, Zenon DEF F!Change
    <3>2. QED
      BY <3>1, Zenon DEF F!TypeOK
  <2>4. F!TypeOK'
    BY <1>1, <2>1, <2>2, <2>3 DEF F!TypeOK
  <2>5. QED
    BY <2>1, <2>4 DEF TokenInv
<1>4. CASE F!CallFails
  <2>1. UNCHANGED <<automatic, pageEntry>> /\ pageOp \in PageOps
    BY <1>4 DEF F!CallFails, TokenInv
  <2>2. /\ \/ pageOp' = F!Idle
           \/ \E at \in {"undo", "undoAutomatic"} :
                 pageOp \in PageMutations /\ pageOp' = [pageOp EXCEPT !.pc = at]
        /\ \/ UNCHANGED <<pageFiles, made, wrote>>
           \/ /\ pageOp \in PageMutations
              /\ pageFiles' = [pageFiles EXCEPT ![PageTarget] = pageOp.size]
              /\ made' = made \cup {pageOp.size} /\ UNCHANGED wrote
    BY <1>4, <2>1, PageShape DEF F!CallFails
  <2>3. /\ pageFiles' \in F!Layouts /\ made \subseteq made' /\ made' \subseteq Sizes
        /\ wrote' \in {None} \cup Sizes
    BY <2>2 DEF F!TypeOK, F!Layouts, F!Paths, PageMutations
  <2>4. F!TypeOK'
    BY <1>1, <2>1, <2>3 DEF F!TypeOK
  <2>5. QED
    BY <2>1, <2>2, <2>3, <2>4, PageAdvances, PageShapeNext DEF TokenInv
<1>5. QED
  BY <1>2, <1>3, <1>4

\* Every step on the page file keeps its invariant.
LEMMA PagefileStep ==
    ASSUME PagefileInv, F!Next \/ UNCHANGED pagefileVars
    PROVE  PagefileInv'
<1>1. CASE UNCHANGED pagefileVars
  BY <1>1 DEF pagefileVars, PagefileInv, F!TypeOK, TokenInv
<1>2. ASSUME NEW size \in Sizes, F!Capture(size) PROVE PagefileInv'
  BY <1>2, PageCaptureInv
<1>3. QED
  BY <1>1, <1>2, PageMutationInv, PageRestoreInv, PageDisturbanceInv DEF F!Next, F!Step

\* A step of the suite is a step of the page file transaction or leaves it alone.
LEMMA PagefilePart ==
    ASSUME [PartsNext]_allVars
    PROVE  F!Next \/ UNCHANGED pagefileVars
  BY DEF PartsNext, allVars

\* The invariant of the page file holds in every reachable state.
THEOREM PagefileInvariant == PartsSpec => []PagefileInv
<1>1. PartsInit => PagefileInv
  BY PagefileInit DEF PartsInit
<1>2. PagefileInv /\ [PartsNext]_allVars => PagefileInv'
  BY PagefilePart, PagefileStep
<1>3. QED
  BY <1>1, <1>2, PTL DEF PartsSpec

\* What a step that removes the target removes.
DeletesOwn ==
    pageFiles[PageTarget] # None /\ pageFiles'[PageTarget] = None /\ pageChanges' = pageChanges =>
        pageFiles[PageTarget] \in made

\* Only compensation and restore remove the target, and both resolve it by a token.
LEMMA DeletesOwnStep ==
    ASSUME PagefileInv, F!Next
    PROVE  DeletesOwn
<1> SUFFICES ASSUME pageFiles[PageTarget] # None, pageFiles'[PageTarget] = None,
                    pageChanges' = pageChanges
             PROVE  pageFiles[PageTarget] \in made
  BY DEF DeletesOwn
<1> USE DEF PagefileInv, F!machine, F!written
<1>1. F!UndoTarget \/ F!RestoreDelete \/ F!RestoreUpdate \/ F!WriteTarget \/ F!CallFails
  <2>1. ~F!Change
    BY DEF F!Change, F!TypeOK
  <2>2. QED
    BY <2>1 DEF F!Next, F!Step, F!Capture, F!Restore, F!Crash, F!DisableAutomatic,
       F!PersistToken, F!Verify, F!UndoAutomatic, F!VerifyRestore
<1>2. pageFiles \in F!Layouts /\ PageTarget \in F!Paths
  BY DEF F!TypeOK, F!Paths
<1>3. CASE F!WriteTarget \/ F!CallFails
  <2>1. pageOp.pc = "write" /\ pageFiles' = [pageFiles EXCEPT ![PageTarget] = pageOp.size]
    BY <1>3 DEF F!WriteTarget, F!CallFails
  <2>2. pageOp.size \in Sizes
    BY <2>1, PageShape DEF TokenInv, PageMutations
  <2>3. QED
    BY <1>2, <2>1, <2>2, PagefileAssumption DEF F!Layouts
<1>4. CASE F!UndoTarget
  <2>1. pageOp.token \in {None} \cup made
    BY <1>4, PageShape DEF F!UndoTarget, TokenInv
  <2>2. CASE pageOp.token # None
    BY <1>4, <2>1, <2>2 DEF F!UndoTarget, F!ExactPagefile
  <2>3. CASE pageOp.token = None
    BY <1>2, <1>4, <2>3 DEF F!UndoTarget, F!ExactPagefile, F!Layouts
  <2>4. QED
    BY <2>2, <2>3
<1>5. CASE F!RestoreDelete
  BY <1>5, PageShape DEF F!RestoreDelete, F!ExactPagefile, TokenInv
<1>6. CASE F!RestoreUpdate
  BY <1>2, <1>6 DEF F!RestoreUpdate, F!ExactPagefile, F!Layouts
<1>7. QED
  BY <1>1, <1>3, <1>4, <1>5, <1>6

\* The suite never deletes a page file it did not create, whatever is changed,
\* fails or crashes, and however often.
THEOREM DeletesOnlyItsOwn == PartsSpec => DeletesOnlyOwn
<1>1. PagefileInv /\ [PartsNext]_allVars => [DeletesOwn]_(F!vars)
  <2>1. SUFFICES ASSUME PagefileInv, [PartsNext]_allVars PROVE [DeletesOwn]_(F!vars)
    OBVIOUS
  <2>2. CASE F!Next
    BY <2>1, <2>2, DeletesOwnStep
  <2>3. CASE UNCHANGED pagefileVars
    BY <2>3 DEF pagefileVars, F!vars, F!machine, F!written
  <2>4. QED
    BY <2>1, <2>2, <2>3, PagefilePart
<1>2. QED
  BY <1>1, PagefileInvariant, PTL DEF PartsSpec, DeletesOnlyOwn, F!DeletesOnlyOwn, DeletesOwn

\* What a restore of the page file that succeeds has put back.
PageReturned ==
    pageEntry # None /\ pageEntry' = None /\ pageOp.since = pageChanges + pageFaults =>
        /\ \A p \in F!Paths : pageEntry.before[p] # None => pageFiles'[p] = pageEntry.before[p]
        /\ pageEntry.before[PageTarget] = None => pageFiles'[PageTarget] = None
        /\ automatic' = pageEntry.automatic

\* The readback compares all captured page files; an entry without the target
\* that is restored is one of a confirmed creation.
LEMMA PageReturnedStep ==
    ASSUME PagefileInv, F!Next
    PROVE  PageReturned
<1> SUFFICES ASSUME pageEntry # None, pageEntry' = None
             PROVE  /\ \A p \in F!Paths : pageEntry.before[p] # None =>
                          pageFiles'[p] = pageEntry.before[p]
                    /\ pageEntry.before[PageTarget] = None => pageFiles'[PageTarget] = None
                    /\ automatic' = pageEntry.automatic
  BY DEF PageReturned
<1> USE DEF PagefileInv, F!machine, F!written
<1>1. pageEntry \in F!Entries
  BY DEF F!TypeOK
<1>2. ~F!PersistToken
  <2>1. ASSUME pageEntry' = [pageEntry EXCEPT !.intent = "created", !.token = pageOp.token],
               pageOp.pc = "persist"
        PROVE  FALSE
    <3>1. pageOp.token \in {None} \cup Sizes
      BY <2>1, PageShape DEF TokenInv, PageMutations
    <3>2. pageEntry' \in F!Entries
      BY <1>1, <2>1, <3>1 DEF F!Entries
    <3>3. QED
      BY <3>2, PagefileAssumption
  <2>2. QED
    BY <2>1 DEF F!PersistToken
<1>3. F!VerifyRestore
  BY <1>2 DEF F!Next, F!Step, F!Capture, F!Restore, F!Crash, F!Change, F!CallFails,
     F!DisableAutomatic, F!WriteTarget, F!Verify, F!UndoTarget, F!UndoAutomatic,
     F!RestoreDelete, F!RestoreUpdate
<1>4. pageEntry.intent \in {"update_pending", "created"}
  BY <1>3, PageShape DEF F!VerifyRestore, TokenInv
<1>5. pageEntry.before[PageTarget] = None => pageEntry.token # None
  BY <1>1, <1>4 DEF F!TypeOK, TokenInv
<1>6. QED
  BY <1>3, <1>5 DEF F!VerifyRestore

\* The page file entry leaves the backup only when automatic management and
\* every page file it records are as they were captured.
THEOREM PagefileRestoresCaptured == PartsSpec => RestoresCaptured
<1>1. PagefileInv /\ [PartsNext]_allVars => [PageReturned]_(F!vars)
  <2>1. SUFFICES ASSUME PagefileInv, [PartsNext]_allVars PROVE [PageReturned]_(F!vars)
    OBVIOUS
  <2>2. CASE F!Next
    BY <2>1, <2>2, PageReturnedStep
  <2>3. CASE UNCHANGED pagefileVars
    BY <2>3 DEF pagefileVars, F!vars, F!machine, F!written
  <2>4. QED
    BY <2>1, <2>2, <2>3, PagefilePart
<1>2. QED
  BY <1>1, PagefileInvariant, PTL
     DEF PartsSpec, RestoresCaptured, F!RestoresCaptured, PageReturned

-----------------------------------------------------------------------------
(* The single-value settings *)

\* The commands of the settings, with what each carries.
SettingChanges == [pc : {"apply", "verify"}, setting : SettingNames, object : SettingOwners]
SettingRestores == [pc : {"restore"}, next : Nat, written : Nat, since : Nat,
                    chosen : SUBSET SettingNames, kept : SUBSET S!Entries]
SettingOps == [pc : {"idle"}] \cup SettingChanges \cup SettingRestores

\* The value of an entry is the original again.
Returned(e) == value[e.setting][e.object] = e.original

\* An entry of the backup names the object.
CapturedIn(backup, s, o) ==
    \E i \in DOMAIN backup : backup[i].setting = s /\ backup[i].object = o

\* A command changes what the backup holds; a restore has put back or kept all
\* that it has passed, and what it has just written is still there.
SettingsCommandInv ==
    /\ settingsOp \in SettingOps
    /\ settingsOp \in SettingChanges =>
          /\ settingsOp.object \in S!ObjectsOf(settingsOp.setting)
          /\ CapturedIn(settingsBackup, settingsOp.setting, settingsOp.object)
    /\ settingsOp \in SettingRestores =>
          /\ settingsOp.next <= Len(settingsBackup)
          /\ settingsOp.written \in {0, settingsOp.next}
          /\ settingsOp.since <= settingsChanges

ReturnedInv ==
    settingsOp \in SettingRestores /\ settingsOp.since = settingsChanges =>
        /\ \A i \in DOMAIN settingsBackup : i > settingsOp.next =>
              settingsBackup[i] \in settingsOp.kept \/ Returned(settingsBackup[i])
        /\ settingsOp.next > 0 /\ settingsOp.written = settingsOp.next =>
              Returned(settingsBackup[settingsOp.next])

SettingsInv == S!TypeOK /\ SettingsCommandInv /\ ReturnedInv

\* What a command carries, told by where it is.
LEMMA SettingShape ==
    ASSUME settingsOp \in SettingOps
    PROVE  /\ settingsOp.pc \in {"apply", "verify"} => settingsOp \in SettingChanges
           /\ settingsOp.pc = "restore" => settingsOp \in SettingRestores
  BY DEF SettingOps, SettingChanges, SettingRestores

\* The three kinds of commands exclude each other.
LEMMA SettingKinds ==
    /\ S!Idle \in SettingOps /\ S!Idle \notin SettingChanges /\ S!Idle \notin SettingRestores
    /\ \A o \in SettingChanges : o \notin SettingRestores /\ o \in SettingOps
    /\ \A o \in SettingRestores : o \notin SettingChanges /\ o \in SettingOps
  BY DEF SettingOps, SettingChanges, SettingRestores, S!Idle

\* The objects of a setting are objects, and there is one.
LEMMA SettingObjects ==
    ASSUME NEW s
    PROVE  S!ObjectsOf(s) \subseteq SettingOwners /\ S!ObjectsOf(s) # {}
  BY SettingsAssumption DEF S!ObjectsOf

\* What the suite wants is a value.
LEMMA WantedValue ==
    ASSUME NEW s
    PROVE  S!Wanted(s) \in {None} \cup Values
  BY SettingsAssumption DEF S!Wanted, S!Suite

\* An idle program carries nothing.
LEMMA IdleSettings ==
    ASSUME S!TypeOK, settingsOp = S!Idle
    PROVE  SettingsInv
  BY SettingKinds DEF SettingsInv, SettingsCommandInv, ReturnedInv

\* The invariant holds at the start.
LEMMA SettingsInit == S!Init => SettingsInv
<1> SUFFICES ASSUME S!Init PROVE SettingsInv
  OBVIOUS
<1>1. \A s \in SettingNames : value[s] \in [S!ObjectsOf(s) -> {None} \cup Values]
  BY DEF S!Init
<1>2. \A s \in SettingNames : object[s] \in S!ObjectsOf(s)
  BY SettingObjects DEF S!Init
<1>3. S!TypeOK
  BY <1>1, <1>2 DEF S!Init, S!TypeOK
<1>4. QED
  BY <1>3, IdleSettings DEF S!Init

\* A write of one value changes that value only.
LEMMA OneValueWritten ==
    ASSUME S!TypeOK, NEW s \in SettingNames, NEW o \in S!ObjectsOf(s),
           NEW v \in {None} \cup Values,
           value' = [value EXCEPT ![s][o] = v]
    PROVE  /\ DOMAIN value' = SettingNames
           /\ \A t \in SettingNames : value'[t] \in [S!ObjectsOf(t) -> {None} \cup Values]
           /\ value'[s][o] = v
           /\ \A t \in SettingNames : \A x \in S!ObjectsOf(t) :
                 (t # s \/ x # o) => value'[t][x] = value[t][x]
<1>1. value' = [value EXCEPT ![s] = [value[s] EXCEPT ![o] = v]]
  OBVIOUS
<1>2. DOMAIN value' = SettingNames /\ value'[s] = [value[s] EXCEPT ![o] = v]
      /\ \A t \in SettingNames : t # s => value'[t] = value[t]
  BY <1>1 DEF S!TypeOK
<1>3. value[s] \in [S!ObjectsOf(s) -> {None} \cup Values]
  BY DEF S!TypeOK
<1>4. value'[s] \in [S!ObjectsOf(s) -> {None} \cup Values] /\ value'[s][o] = v
      /\ \A x \in S!ObjectsOf(s) : x # o => value'[s][x] = value[s][x]
  BY <1>2, <1>3
<1>5. \A t \in SettingNames : value'[t] \in [S!ObjectsOf(t) -> {None} \cup Values]
  BY <1>2, <1>4 DEF S!TypeOK
<1>6. QED
  BY <1>2, <1>4, <1>5

\* The first entry of an identity stays, and a new one records what is there.
LEMMA SettingCaptureInv ==
    ASSUME SettingsInv, NEW s \in SettingNames, S!Capture(s)
    PROVE  SettingsInv'
<1> USE DEF SettingsInv
<1> DEFINE o == object[s]
           e == S!Entry(s, o)
<1>1. UNCHANGED <<value, object, settingsChanges>>
  BY DEF S!Capture, S!machine
<1>2. o \in S!ObjectsOf(s) /\ o \in SettingOwners
  BY SettingObjects DEF S!Capture, S!NeedsApply, S!TypeOK
<1>3. settingsOp' = [pc |-> "apply", setting |-> s, object |-> o]
      /\ settingsOp' \in SettingChanges
  BY <1>2 DEF S!Capture, SettingChanges
<1>4. CASE CapturedIn(settingsBackup, s, o)
  <2>1. settingsBackup' = settingsBackup
    BY <1>4 DEF S!Capture, CapturedIn
  <2>2. S!TypeOK'
    BY <1>1, <2>1 DEF S!TypeOK
  <2>3. SettingsCommandInv'
    BY <1>2, <1>3, <1>4, <2>1, SettingKinds DEF SettingsCommandInv, CapturedIn
  <2>4. QED
    BY <1>3, <2>2, <2>3, SettingKinds DEF ReturnedInv
<1>5. CASE ~CapturedIn(settingsBackup, s, o)
  <2>1. settingsBackup' = Append(settingsBackup, e)
    BY <1>5 DEF S!Capture, CapturedIn
  <2>2. e \in S!Entries /\ e.setting = s /\ e.object = o
    <3>1. value[s][o] \in {None} \cup Values
      BY <1>2 DEF S!TypeOK
    <3>2. QED
      BY <1>2, <3>1 DEF S!Entry, S!Entries
  <2> DEFINE n == Len(settingsBackup)
  <2> HIDE DEF e, o
  <2>3. /\ settingsBackup \in Seq(S!Entries) /\ n \in Nat /\ settingsBackup' \in Seq(S!Entries)
        /\ DOMAIN settingsBackup = 1 .. n
        /\ DOMAIN settingsBackup' = 1 .. n + 1 /\ settingsBackup'[n + 1] = e
        /\ \A i \in 1 .. n : settingsBackup'[i] = settingsBackup[i]
    BY <2>1, <2>2 DEF S!TypeOK
  <2> HIDE DEF n
  <2>4. \A i \in DOMAIN settingsBackup' : i = n + 1 \/ i \in DOMAIN settingsBackup
    BY <2>3
  <2>5. \A i \in DOMAIN settingsBackup' :
           settingsBackup'[i].object \in S!ObjectsOf(settingsBackup'[i].setting)
    BY <1>2, <2>2, <2>3, <2>4 DEF S!TypeOK
  <2>6. ASSUME NEW i \in DOMAIN settingsBackup', NEW j \in DOMAIN settingsBackup',
               settingsBackup'[i].setting = settingsBackup'[j].setting,
               settingsBackup'[i].object = settingsBackup'[j].object
        PROVE  i = j
    <3>1. CASE i \in DOMAIN settingsBackup /\ j \in DOMAIN settingsBackup
      BY <2>3, <2>6, <3>1 DEF S!TypeOK
    <3>2. CASE i = n + 1 /\ j \in DOMAIN settingsBackup
      BY <1>5, <2>2, <2>3, <2>6, <3>2 DEF CapturedIn
    <3>3. CASE i \in DOMAIN settingsBackup /\ j = n + 1
      BY <1>5, <2>2, <2>3, <2>6, <3>3 DEF CapturedIn
    <3>4. QED
      BY <2>4, <2>6, <3>1, <3>2, <3>3
  <2>7. S!TypeOK'
    BY <1>1, <2>3, <2>5, <2>6 DEF S!TypeOK
  <2>8. CapturedIn(settingsBackup', s, o)
    BY <2>2, <2>3 DEF CapturedIn
  <2>9. SettingsCommandInv'
    BY <1>2, <1>3, <2>8, SettingKinds DEF SettingsCommandInv, CapturedIn
  <2>10. QED
    BY <1>3, <2>7, <2>9, SettingKinds DEF ReturnedInv
<1>6. QED
  BY <1>4, <1>5

\* An apply writes the captured object only.
LEMMA SettingApplyInv ==
    ASSUME SettingsInv, S!Apply \/ S!Verify
    PROVE  SettingsInv'
<1> USE DEF SettingsInv
<1>1. settingsOp \in SettingChanges
  BY SettingShape DEF SettingsCommandInv, S!Apply, S!Verify
<1>2. UNCHANGED <<object, settingsBackup, settingsChanges>>
  BY DEF S!Apply, S!Verify, S!machine
<1>3. CASE S!Verify
  <2>1. S!TypeOK'
    BY <1>2, <1>3 DEF S!Verify, S!machine, S!TypeOK
  <2>2. QED
    BY <1>3, <2>1, SettingKinds DEF S!Verify, SettingsCommandInv, ReturnedInv
<1>4. CASE S!Apply
  <2> DEFINE s == settingsOp.setting
             o == settingsOp.object
  <2>1. s \in SettingNames /\ o \in S!ObjectsOf(s)
    BY <1>1 DEF SettingsCommandInv, SettingChanges
  <2>2. CASE value' = value /\ settingsOp' = S!Idle
    <3>1. S!TypeOK'
      BY <1>2, <2>2 DEF S!TypeOK
    <3>2. QED
      BY <2>2, <3>1, SettingKinds DEF SettingsCommandInv, ReturnedInv
  <2>3. CASE /\ value' = [value EXCEPT ![s][o] = S!Wanted(s)]
             /\ settingsOp' = [settingsOp EXCEPT !.pc = "verify"]
    <3>1. S!TypeOK'
      BY <1>2, <2>1, <2>3, WantedValue, OneValueWritten DEF S!TypeOK
    <3>2. /\ settingsOp' \in SettingChanges /\ settingsOp'.setting = s
          /\ settingsOp'.object = o
      BY <1>1, <2>3 DEF SettingChanges
    <3>3. SettingsCommandInv'
      BY <1>1, <1>2, <3>2, SettingKinds DEF SettingsCommandInv, CapturedIn
    <3>4. QED
      BY <3>1, <3>2, <3>3, SettingKinds DEF ReturnedInv
  <2>4. QED
    BY <1>4, <2>2, <2>3 DEF S!Apply
<1>5. QED
  BY <1>3, <1>4

\* The start of a restore.
LEMMA SettingRestoreInv ==
    ASSUME SettingsInv, S!Restore
    PROVE  SettingsInv'
<1> USE DEF SettingsInv
<1>1. UNCHANGED <<value, object, settingsBackup, settingsChanges>>
  BY DEF S!Restore, S!machine
<1>2. settingsBackup \in Seq(S!Entries) /\ settingsChanges \in Nat
  BY DEF S!TypeOK
<1>3. PICK chosen \in SUBSET SettingNames :
        settingsOp' = [pc |-> "restore", next |-> Len(settingsBackup), written |-> 0,
                       since |-> settingsChanges, chosen |-> chosen, kept |-> {}]
  BY DEF S!Restore
<1>4. Len(settingsBackup) \in Nat /\ DOMAIN settingsBackup = 1 .. Len(settingsBackup)
  BY <1>2
<1>5. /\ settingsOp' \in SettingRestores /\ settingsOp'.next = Len(settingsBackup)
      /\ settingsOp'.written = 0 /\ settingsOp'.since = settingsChanges
  BY <1>2, <1>3, <1>4 DEF SettingRestores
<1>6. S!TypeOK'
  BY <1>1 DEF S!TypeOK
<1>7. SettingsCommandInv'
  BY <1>1, <1>2, <1>4, <1>5, SettingKinds DEF SettingsCommandInv
<1>8. \A i \in DOMAIN settingsBackup : ~(i > settingsOp'.next)
  BY <1>4, <1>5
<1>9. ReturnedInv'
  BY <1>1, <1>4, <1>5, <1>8 DEF ReturnedInv
<1>10. QED
  BY <1>6, <1>7, <1>9

\* What a restore that is at an entry knows.
LEMMA SettingAtEntry ==
    ASSUME SettingsInv, S!Restoring
    PROVE  /\ settingsOp \in SettingRestores
           /\ settingsOp.next \in Nat /\ settingsOp.next > 0
           /\ settingsOp.next \in DOMAIN settingsBackup
           /\ S!Current \in S!Entries /\ S!Current.setting \in SettingNames
           /\ S!Current.object \in S!ObjectsOf(S!Current.setting)
           /\ S!Current.original \in {None} \cup Values
           /\ S!Current = settingsBackup[settingsOp.next]
<1>1. settingsOp \in SettingRestores /\ settingsOp.next > 0
  BY SettingShape DEF SettingsInv, SettingsCommandInv, S!Restoring
<1>2. settingsBackup \in Seq(S!Entries) /\ settingsOp.next \in Nat
      /\ settingsOp.next <= Len(settingsBackup)
  BY <1>1 DEF SettingsInv, SettingsCommandInv, S!TypeOK, SettingRestores
<1>3. settingsOp.next \in DOMAIN settingsBackup
  BY <1>1, <1>2
<1>4. S!Current = settingsBackup[settingsOp.next] /\ S!Current \in S!Entries
  BY <1>2, <1>3 DEF S!Current
<1>5. S!Current.object \in S!ObjectsOf(S!Current.setting)
  BY <1>3, <1>4 DEF SettingsInv, S!TypeOK
<1>6. S!Current.setting \in SettingNames /\ S!Current.original \in {None} \cup Values
  BY <1>4 DEF S!Entries
<1>7. QED
  BY <1>1, <1>2, <1>3, <1>4, <1>5, <1>6

\* Giving the current entry its original back leaves alone what was put back
\* before: no two entries are about the same object.
LEMMA OthersStayReturned ==
    ASSUME SettingsInv, S!Restoring,
           value' = value \/ value' = [value EXCEPT ![S!Current.setting][S!Current.object] =
                                                        S!Current.original],
           NEW i \in DOMAIN settingsBackup, i > settingsOp.next, Returned(settingsBackup[i])
    PROVE  value'[settingsBackup[i].setting][settingsBackup[i].object] =
              settingsBackup[i].original
<1> DEFINE e == settingsBackup[i]
<1>1. /\ e \in S!Entries /\ e.setting \in SettingNames /\ e.object \in S!ObjectsOf(e.setting)
  <2>1. settingsBackup \in Seq(S!Entries) /\ e.object \in S!ObjectsOf(e.setting)
    BY DEF SettingsInv, S!TypeOK
  <2>2. e \in S!Entries
    BY <2>1
  <2>3. QED
    BY <2>1, <2>2 DEF S!Entries
<1>2. i # settingsOp.next
  BY SettingAtEntry
<1>3. e.setting # S!Current.setting \/ e.object # S!Current.object
  BY <1>2, SettingAtEntry DEF SettingsInv, S!TypeOK
<1>4. CASE value' = value
  BY <1>4 DEF Returned
<1>5. CASE value' = [value EXCEPT ![S!Current.setting][S!Current.object] = S!Current.original]
  <2>1. value'[e.setting][e.object] = value[e.setting][e.object]
    BY <1>1, <1>3, <1>5, SettingAtEntry, OneValueWritten DEF SettingsInv
  <2>2. QED
    BY <2>1 DEF Returned
<1>6. QED
  BY <1>4, <1>5

\* An entry that is retained or put back lets the restore go on to the next.
LEMMA SettingPassed ==
    ASSUME SettingsInv, S!Restoring,
           value' = value \/ value' = [value EXCEPT ![S!Current.setting][S!Current.object] =
                                                        S!Current.original],
           UNCHANGED <<object, settingsBackup, settingsChanges>>,
           \/ S!Retain
           \/ /\ settingsOp' = [settingsOp EXCEPT !.next = @ - 1, !.written = 0]
              /\ value' = value
              /\ settingsOp.since = settingsChanges => Returned(S!Current)
    PROVE  SettingsInv'
<1> USE DEF SettingsInv
<1>1. S!TypeOK'
  BY SettingAtEntry, OneValueWritten DEF S!TypeOK
<1>2. /\ settingsOp' \in SettingRestores
      /\ settingsOp'.next = settingsOp.next - 1 /\ settingsOp'.written = 0
      /\ settingsOp'.since = settingsOp.since
      /\ settingsOp.kept \subseteq settingsOp'.kept
  <2>1. settingsOp.next - 1 \in Nat
    BY SettingAtEntry
  <2>2. settingsOp.kept \cup {S!Current} \in SUBSET S!Entries
    BY SettingAtEntry DEF SettingRestores
  <2>3. 0 \in Nat /\ settingsOp \in SettingRestores
    BY SettingAtEntry
  <2>4. CASE S!Retain
    <3>1. settingsOp' = [settingsOp EXCEPT !.next = settingsOp.next - 1,
                           !.kept = settingsOp.kept \cup {S!Current}, !.written = 0]
      BY <2>3, <2>4 DEF S!Retain, SettingRestores
    <3>2. QED
      BY <2>1, <2>2, <2>3, <3>1 DEF SettingRestores
  <2>5. CASE settingsOp' = [settingsOp EXCEPT !.next = @ - 1, !.written = 0]
    BY <2>1, <2>3, <2>5 DEF SettingRestores
  <2>6. QED
    BY <2>4, <2>5
<1>3. \/ S!Current \in settingsOp'.kept
      \/ value' = value /\ (settingsOp.since = settingsChanges => Returned(S!Current))
  BY SettingAtEntry, ZenonT(60) DEF S!Retain, SettingRestores
<1>4. SettingsCommandInv'
  <2>1. settingsOp.next <= Len(settingsBackup) /\ settingsOp.since <= settingsChanges
        /\ Len(settingsBackup) \in Nat /\ settingsOp.next \in Nat
    BY SettingAtEntry DEF SettingsCommandInv, S!TypeOK
  <2>2. settingsOp'.next <= Len(settingsBackup)
    BY <1>2, <2>1
  <2>3. QED
    BY <1>2, <2>1, <2>2, SettingKinds DEF SettingsCommandInv
<1>5. ReturnedInv'
  <2>1. SUFFICES ASSUME settingsOp.since = settingsChanges, NEW i \in DOMAIN settingsBackup,
                        i > settingsOp.next - 1
                 PROVE  \/ settingsBackup[i] \in settingsOp'.kept
                        \/ value'[settingsBackup[i].setting][settingsBackup[i].object] =
                              settingsBackup[i].original
    <3>1. ~(settingsOp'.next > 0 /\ settingsOp'.written = settingsOp'.next)
      BY <1>2, SettingAtEntry
    <3>2. QED
      BY <1>2, <2>1, <3>1 DEF ReturnedInv, Returned
  <2>2. i = settingsOp.next \/ i > settingsOp.next
    BY <2>1, SettingAtEntry DEF S!TypeOK
  <2>3. CASE i = settingsOp.next
    BY <1>3, <2>1, <2>3, SettingAtEntry DEF Returned
  <2>4. CASE i > settingsOp.next
    <3>1. settingsBackup[i] \in settingsOp.kept \/ Returned(settingsBackup[i])
      BY <2>1, <2>4, SettingAtEntry DEF ReturnedInv
    <3>2. QED
      BY <1>2, <2>4, <3>1, OthersStayReturned
  <2>5. QED
    BY <2>2, <2>3, <2>4
<1>6. QED
  BY <1>1, <1>4, <1>5

\* The object restore writes is the one of the entry: it is resolved first.
LEMMA WritesEntryObject ==
    ASSUME SettingsInv, S!RestoreWrite, S!CanRestore(S!Current)
    PROVE  /\ value' = [value EXCEPT ![S!Current.setting][S!Current.object] = S!Current.original]
           /\ settingsOp' = [settingsOp EXCEPT !.written = settingsOp.next]
<1>1. S!Current.setting \in S!Bound => object[S!Current.setting] = S!Current.object
  <2>1. SUFFICES ASSUME S!Current.setting \in S!Bound
                 PROVE  S!Resolved(S!Current)
    BY DEF S!Resolved, S!Observed, S!SameDevice
  <2>2. S!Current.setting \in {"gpu", "interrupt", "autostart"}
    BY <2>1 DEF S!Bound
  <2>3. QED
    BY <2>2 DEF S!CanRestore, S!RestorableRegistry, S!RestorableInterrupt,
       S!RestorableAutostart
<1>2. QED
  BY <1>1 DEF S!RestoreWrite

\* The write of a restore and the steps around it.
LEMMA SettingRestoresInv ==
    ASSUME SettingsInv, S!Skip \/ S!RestoreWrite \/ S!RestoreReadBack \/ S!RestoreFails
    PROVE  SettingsInv'
<1> USE DEF S!machine
<1>1. UNCHANGED <<object, settingsBackup, settingsChanges>> /\ S!Restoring
  BY DEF S!Skip, S!RestoreWrite, S!RestoreReadBack, S!RestoreFails
<1>2. CASE S!Skip
  BY <1>1, <1>2, SettingPassed DEF S!Skip
<1>3. CASE S!RestoreFails
  <2>1. value' = value \/ value' = [value EXCEPT ![S!Current.setting][S!Current.object] =
                                                     S!Current.original]
    BY <1>3 DEF S!RestoreFails
  <2>2. QED
    BY <1>1, <1>3, <2>1, SettingPassed DEF S!RestoreFails
<1>4. CASE S!RestoreReadBack
  <2>1. settingsOp.since = settingsChanges => Returned(S!Current)
    BY <1>1, <1>4, SettingAtEntry DEF S!RestoreReadBack, SettingsInv, ReturnedInv
  <2>2. QED
    BY <1>1, <1>4, <2>1, SettingPassed DEF S!RestoreReadBack
<1>5. CASE S!RestoreWrite /\ ~S!CanRestore(S!Current)
  BY <1>1, <1>5, SettingPassed DEF S!RestoreWrite
<1>6. CASE S!RestoreWrite /\ S!CanRestore(S!Current)
  <2>1. value' = [value EXCEPT ![S!Current.setting][S!Current.object] = S!Current.original]
        /\ settingsOp' = [settingsOp EXCEPT !.written = settingsOp.next]
    BY <1>6, WritesEntryObject
  <2>2. S!TypeOK' /\ value'[S!Current.setting][S!Current.object] = S!Current.original
    BY <1>1, <2>1, SettingAtEntry, OneValueWritten DEF S!TypeOK, SettingsInv
  <2>3. /\ settingsOp' \in SettingRestores /\ settingsOp'.next = settingsOp.next
        /\ settingsOp'.written = settingsOp.next /\ settingsOp'.since = settingsOp.since
        /\ settingsOp'.kept = settingsOp.kept
    BY <1>1, <2>1, SettingAtEntry DEF SettingRestores
  <2>4. SettingsCommandInv'
    BY <1>1, <2>3, SettingAtEntry, SettingKinds DEF SettingsInv, SettingsCommandInv
  <2>5. ASSUME settingsOp.since = settingsChanges, NEW i \in DOMAIN settingsBackup,
               i > settingsOp.next
        PROVE  \/ settingsBackup[i] \in settingsOp.kept
               \/ value'[settingsBackup[i].setting][settingsBackup[i].object] =
                     settingsBackup[i].original
    <3>1. settingsBackup[i] \in settingsOp.kept \/ Returned(settingsBackup[i])
      BY <1>1, <2>5, SettingAtEntry DEF SettingsInv, ReturnedInv
    <3>2. QED
      BY <1>1, <2>1, <2>5, <3>1, OthersStayReturned
  <2>6. ReturnedInv'
    BY <1>1, <2>2, <2>3, <2>5, SettingAtEntry DEF ReturnedInv, Returned
  <2>7. QED
    BY <2>2, <2>4, <2>6 DEF SettingsInv
<1>7. QED
  BY <1>2, <1>3, <1>4, <1>5, <1>6

\* Retaining the kept entries loses none of them and makes no entry twice.
LEMMA KeptStay ==
    ASSUME SettingsInv, S!FinishRestore
    PROVE  /\ settingsBackup' \in Seq(S!Entries)
           /\ \A i \in DOMAIN settingsBackup' :
                 settingsBackup'[i].object \in S!ObjectsOf(settingsBackup'[i].setting)
           /\ \A i, j \in DOMAIN settingsBackup' :
                 /\ settingsBackup'[i].setting = settingsBackup'[j].setting
                 /\ settingsBackup'[i].object = settingsBackup'[j].object
                 => i = j
           /\ \A i \in DOMAIN settingsBackup : settingsBackup[i] \in settingsOp.kept =>
                 \E j \in DOMAIN settingsBackup' : settingsBackup'[j] = settingsBackup[i]
<1> DEFINE Stay == {i \in DOMAIN settingsBackup : settingsBackup[i] \in settingsOp.kept}
<1>1. settingsBackup' = Retained(settingsBackup, Stay)
  BY DEF S!FinishRestore, S!Retained, Retained, S!Ascending, Ascending, S!Cardinality,
     Cardinality
<1>2. settingsBackup \in Seq(S!Entries) /\ Stay \in SUBSET (DOMAIN settingsBackup)
  BY DEF SettingsInv, S!TypeOK
<1>3. \A i \in DOMAIN settingsBackup : settingsBackup[i] \in settingsOp.kept => i \in Stay
  OBVIOUS
<1> HIDE DEF Stay
<1>4. PICK g : /\ Ascending(g, Stay)
               /\ DOMAIN g = 1 .. Len(settingsBackup')
               /\ settingsBackup' \in Seq(S!Entries)
               /\ \A j \in DOMAIN g : settingsBackup'[j] = settingsBackup[g[j]]
  BY <1>1, <1>2, RetainedInOrder
<1>5. DOMAIN settingsBackup' = DOMAIN g /\ DOMAIN g \subseteq Int
  BY <1>4
<1>6. \A j \in DOMAIN g : g[j] \in Stay /\ g[j] \in DOMAIN settingsBackup /\ g[j] \in Int
  <2>1. \A j \in DOMAIN g : g[j] \in Stay
    BY <1>4 DEF Ascending
  <2>2. Stay \subseteq DOMAIN settingsBackup /\ DOMAIN settingsBackup \subseteq Int
    BY <1>2
  <2>3. QED
    BY <2>1, <2>2
<1>7. \A i, j \in DOMAIN g : g[i] = g[j] => i = j
  BY <1>4, <1>5, <1>6 DEF Ascending
<1>8. \A i \in DOMAIN settingsBackup' :
         settingsBackup'[i].object \in S!ObjectsOf(settingsBackup'[i].setting)
  BY <1>4, <1>5, <1>6 DEF SettingsInv, S!TypeOK
<1>9. ASSUME NEW i \in DOMAIN settingsBackup', NEW j \in DOMAIN settingsBackup',
             settingsBackup'[i].setting = settingsBackup'[j].setting,
             settingsBackup'[i].object = settingsBackup'[j].object
      PROVE  i = j
  <2>1. g[i] = g[j]
    BY <1>4, <1>5, <1>6, <1>9 DEF SettingsInv, S!TypeOK
  <2>2. QED
    BY <1>5, <1>7, <2>1
<1>10. ASSUME NEW i \in DOMAIN settingsBackup, settingsBackup[i] \in settingsOp.kept
       PROVE  \E j \in DOMAIN settingsBackup' : settingsBackup'[j] = settingsBackup[i]
  <2>1. PICK j \in DOMAIN g : g[j] = i
    BY <1>3, <1>4, <1>10 DEF Ascending
  <2>2. QED
    BY <1>4, <1>5, <2>1
<1>11. QED
  BY <1>4, <1>8, <1>9, <1>10

\* The end of a restore, crashes, and what happens around the program.
LEMMA SettingOtherInv ==
    ASSUME SettingsInv,
           S!FinishRestore \/ S!Crash \/ S!Change \/ S!FinalChecklist \/ S!Reboot
    PROVE  SettingsInv'
<1> USE DEF S!machine
<1>1. CASE S!FinishRestore
  <2>1. UNCHANGED <<value, object, settingsChanges>> /\ settingsOp' = S!Idle
    BY <1>1 DEF S!FinishRestore
  <2>2. S!TypeOK'
    BY <1>1, <2>1, KeptStay DEF S!TypeOK, SettingsInv
  <2>3. QED
    BY <2>1, <2>2, SettingKinds DEF SettingsInv, SettingsCommandInv, ReturnedInv
<1>2. CASE S!Crash
  <2>1. UNCHANGED <<value, object, settingsBackup, settingsChanges>> /\ settingsOp' = S!Idle
    BY <1>2 DEF S!Crash
  <2>2. S!TypeOK'
    BY <2>1 DEF S!TypeOK, SettingsInv
  <2>3. QED
    BY <2>1, <2>2, SettingKinds DEF SettingsInv, SettingsCommandInv, ReturnedInv
<1>3. CASE S!FinalChecklist \/ S!Reboot
  <2>1. UNCHANGED <<value, object, settingsBackup, settingsOp, settingsChanges>>
    BY <1>3 DEF S!FinalChecklist, S!Reboot
  <2>2. QED
    BY <2>1 DEF SettingsInv, S!TypeOK, SettingsCommandInv, ReturnedInv, CapturedIn, Returned
<1>4. CASE S!Change
  <2>1. UNCHANGED <<settingsBackup, settingsOp>> /\ settingsChanges \in Nat
        /\ settingsChanges' = settingsChanges + 1
    BY <1>4 DEF S!Change, SettingsInv, S!TypeOK
  <2>2. S!TypeOK'
    <3>1. CASE /\ UNCHANGED object
               /\ \E s \in SettingNames, v \in {None} \cup Values : \E o \in S!ObjectsOf(s) :
                     value' = [value EXCEPT ![s][o] = v]
      <4> PICK s \in SettingNames, v \in {None} \cup Values :
                \E o \in S!ObjectsOf(s) : value' = [value EXCEPT ![s][o] = v]
        BY <3>1
      <4>1. PICK o \in S!ObjectsOf(s) : value' = [value EXCEPT ![s][o] = v]
        OBVIOUS
      <4>2. /\ DOMAIN value' = SettingNames
            /\ \A t \in SettingNames : value'[t] \in [S!ObjectsOf(t) -> {None} \cup Values]
        BY <4>1, OneValueWritten DEF SettingsInv
      <4>3. QED
        BY <2>1, <3>1, <4>2 DEF S!TypeOK, SettingsInv
    <3>2. CASE /\ UNCHANGED value
               /\ \E s \in SettingNames : \E o \in S!ObjectsOf(s) \cup {None} :
                     object' = [object EXCEPT ![s] = o]
      BY <2>1, <3>2 DEF S!TypeOK, SettingsInv
    <3>3. QED
      BY <1>4, <3>1, <3>2 DEF S!Change
  <2>3. settingsOp \in SettingRestores => settingsOp.since \in Nat
    BY DEF SettingRestores
  <2>4. SettingsCommandInv'
    BY <2>1, <2>3 DEF SettingsInv, SettingsCommandInv, CapturedIn
  <2>5. ReturnedInv'
    <3>1. settingsOp \in SettingRestores => settingsOp.since # settingsChanges'
      BY <2>1, <2>3 DEF SettingsInv, SettingsCommandInv
    <3>2. QED
      BY <2>1, <3>1 DEF ReturnedInv
  <2>6. QED
    BY <2>2, <2>4, <2>5 DEF SettingsInv
<1>5. QED
  BY <1>1, <1>2, <1>3, <1>4

\* Every step on the settings keeps their invariant.
LEMMA SettingsStep ==
    ASSUME SettingsInv, S!Next \/ UNCHANGED settingsVars
    PROVE  SettingsInv'
<1>1. CASE UNCHANGED settingsVars
  BY <1>1 DEF settingsVars, SettingsInv, S!TypeOK, SettingsCommandInv, ReturnedInv, CapturedIn,
     Returned
<1>2. ASSUME NEW s \in SettingNames, S!Capture(s) PROVE SettingsInv'
  BY <1>2, SettingCaptureInv
<1>3. QED
  BY <1>1, <1>2, SettingApplyInv, SettingRestoreInv, SettingRestoresInv, SettingOtherInv
     DEF S!Next, S!Step

\* A step of the suite is a step on the settings or leaves them alone.
LEMMA SettingsPart ==
    ASSUME [PartsNext]_allVars
    PROVE  S!Next \/ UNCHANGED settingsVars
  BY DEF PartsNext, allVars

\* The invariant of the settings holds in every reachable state.
THEOREM SettingsInvariant == PartsSpec => []SettingsInv
<1>1. PartsInit => SettingsInv
  BY SettingsInit DEF PartsInit
<1>2. SettingsInv /\ [PartsNext]_allVars => SettingsInv'
  BY SettingsPart, SettingsStep
<1>3. QED
  BY <1>1, <1>2, PTL DEF PartsSpec

\* What a command may change.
ChangesCaptured ==
    settingsChanges' = settingsChanges =>
        \A s \in SettingNames : \A o \in S!ObjectsOf(s) : value'[s][o] # value[s][o] =>
            \E i \in DOMAIN settingsBackup :
                settingsBackup[i].setting = s /\ settingsBackup[i].object = o

\* A step of the suite changes only what is captured.
LEMMA ChangesCapturedStep ==
    ASSUME SettingsInv, S!Next
    PROVE  ChangesCaptured
<1> SUFFICES ASSUME settingsChanges' = settingsChanges, NEW s \in SettingNames,
                    NEW o \in S!ObjectsOf(s), value'[s][o] # value[s][o]
             PROVE  CapturedIn(settingsBackup, s, o)
  BY DEF ChangesCaptured, CapturedIn
<1> USE DEF S!machine
<1>1. S!Apply \/ S!RestoreWrite \/ S!RestoreFails
  <2>1. ~S!Change
    BY DEF S!Change, SettingsInv, S!TypeOK
  <2>2. QED
    BY <2>1 DEF S!Next, S!Step, S!Capture, S!Restore, S!Verify, S!Skip, S!RestoreReadBack,
       S!FinishRestore, S!Crash, S!FinalChecklist, S!Reboot
<1>2. CASE S!Apply
  <2>1. settingsOp \in SettingChanges
    BY <1>2, SettingShape DEF SettingsInv, SettingsCommandInv, S!Apply
  <2>2. /\ settingsOp.setting \in SettingNames
        /\ settingsOp.object \in S!ObjectsOf(settingsOp.setting)
        /\ CapturedIn(settingsBackup, settingsOp.setting, settingsOp.object)
    BY <2>1 DEF SettingsInv, SettingsCommandInv, SettingChanges
  <2>3. value' = [value EXCEPT ![settingsOp.setting][settingsOp.object] =
                                   S!Wanted(settingsOp.setting)]
    BY <1>2 DEF S!Apply
  <2>4. s = settingsOp.setting /\ o = settingsOp.object
    BY <2>2, <2>3, WantedValue, OneValueWritten DEF SettingsInv
  <2>5. QED
    BY <2>2, <2>4
<1>3. CASE S!RestoreWrite \/ S!RestoreFails
  <2>1. S!Restoring
    BY <1>3 DEF S!RestoreWrite, S!RestoreFails
  <2>2. value' = [value EXCEPT ![S!Current.setting][S!Current.object] = S!Current.original]
    <3>1. CASE S!RestoreFails
      BY <3>1 DEF S!RestoreFails
    <3>2. CASE S!RestoreWrite
      <4>1. S!CanRestore(S!Current)
        BY <3>2 DEF S!RestoreWrite
      <4>2. QED
        BY <3>2, <4>1, WritesEntryObject
    <3>3. QED
      BY <1>3, <3>1, <3>2
  <2>3. s = S!Current.setting /\ o = S!Current.object
    BY <2>1, <2>2, SettingAtEntry, OneValueWritten DEF SettingsInv
  <2>4. QED
    BY <2>1, <2>3, SettingAtEntry DEF CapturedIn
<1>4. QED
  BY <1>1, <1>2, <1>3

\* A setting changes only on the installation or device whose original is in the
\* backup, for any number of them and whatever takes whose place.
THEOREM OnlyTheCapturedObject == PartsSpec => OnlyCapturedObject
<1>1. SettingsInv /\ [PartsNext]_allVars => [ChangesCaptured]_(S!vars)
  <2>1. SUFFICES ASSUME SettingsInv, [PartsNext]_allVars PROVE [ChangesCaptured]_(S!vars)
    OBVIOUS
  <2>2. CASE S!Next
    BY <2>1, <2>2, ChangesCapturedStep
  <2>3. CASE UNCHANGED settingsVars
    BY <2>3 DEF settingsVars, S!vars, S!machine
  <2>4. QED
    BY <2>1, <2>2, <2>3, SettingsPart
<1>2. QED
  BY <1>1, SettingsInvariant, PTL
     DEF PartsSpec, OnlyCapturedObject, S!OnlyCapturedObject, ChangesCaptured

\* What has returned when an entry leaves the backup.
LeavesReturned ==
    \A i \in DOMAIN settingsBackup :
        (~\E j \in DOMAIN settingsBackup' : settingsBackup'[j] = settingsBackup[i])
        /\ settingsOp.since = settingsChanges =>
            value[settingsBackup[i].setting][settingsBackup[i].object] =
                settingsBackup[i].original

\* Only the end of a restore takes entries out, and it keeps what it retained.
LEMMA LeavesReturnedStep ==
    ASSUME SettingsInv, S!Next
    PROVE  LeavesReturned
<1> SUFFICES ASSUME NEW i \in DOMAIN settingsBackup, settingsOp.since = settingsChanges,
                    ~\E j \in DOMAIN settingsBackup' : settingsBackup'[j] = settingsBackup[i]
             PROVE  Returned(settingsBackup[i])
  BY DEF LeavesReturned, Returned
<1> USE DEF S!machine
<1>1. settingsBackup \in Seq(S!Entries)
  BY DEF SettingsInv, S!TypeOK
<1>2. ASSUME NEW s \in SettingNames, S!Capture(s) PROVE FALSE
  <2>1. PICK e : settingsBackup' = settingsBackup \/ settingsBackup' = Append(settingsBackup, e)
    BY <1>2 DEF S!Capture
  <2>2. i \in DOMAIN settingsBackup' /\ settingsBackup'[i] = settingsBackup[i]
    BY <1>1, <2>1
  <2>3. QED
    BY <2>2
<1>3. S!FinishRestore
  BY <1>2 DEF S!Next, S!Step, S!Restore, S!Apply, S!Verify, S!Skip, S!RestoreWrite,
     S!RestoreReadBack, S!RestoreFails, S!Crash, S!Change, S!FinalChecklist, S!Reboot
<1>4. settingsBackup[i] \notin settingsOp.kept
  BY <1>3, KeptStay
<1>5. settingsOp \in SettingRestores /\ i > settingsOp.next
  BY <1>1, <1>3, SettingShape DEF SettingsInv, SettingsCommandInv, S!FinishRestore
<1>6. QED
  BY <1>4, <1>5 DEF SettingsInv, ReturnedInv

\* An entry leaves the backup only when its value is the original again, unless
\* somebody else changed the machine during that restore, for any settings,
\* any number of entries and however often calls fail or the program stops.
THEOREM OriginalsReturn == PartsSpec => OriginalReturns
<1>1. SettingsInv /\ [PartsNext]_allVars => [LeavesReturned]_(S!vars)
  <2>1. SUFFICES ASSUME SettingsInv, [PartsNext]_allVars PROVE [LeavesReturned]_(S!vars)
    OBVIOUS
  <2>2. CASE S!Next
    BY <2>1, <2>2, LeavesReturnedStep
  <2>3. CASE UNCHANGED settingsVars
    BY <2>3 DEF settingsVars, S!vars, S!machine
  <2>4. QED
    BY <2>1, <2>2, <2>3, SettingsPart
<1>2. QED
  BY <1>1, SettingsInvariant, PTL
     DEF PartsSpec, OriginalReturns, S!OriginalReturns, LeavesReturned
=============================================================================
