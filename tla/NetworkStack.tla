---------------------------- MODULE NetworkStack ----------------------------
(***************************************************************************)
(* P1:16, the Ethernet transaction, and the restore of what the backup has *)
(* for the network: the RSS setting of one adapter, the "Do not use NLA"   *)
(* value, the two QoS policies and, from an earlier release, DNS servers.  *)
(* Everything is bound to the exact identity of an adapter, which is       *)
(* observed again before each read and write; in between adapters come, go *)
(* and are numbered anew, drivers gain and lose settings, and other        *)
(* programs write the same values.                                         *)
(***************************************************************************)
EXTENDS Integers, Sequences, FiniteSets

CONSTANTS
    None,
    Devices,       \* PnP devices with an Ethernet interface
    Indexes,       \* interface indexes Windows may give them
    Servers,       \* DNS server lists
    Policies,      \* CS2_UDP_Ports and CS2_App
    MaxChanges     \* bound: changes by Windows and other programs

VARIABLES
    adapters,   \* the active physical wired adapters, [device, index]
    rss,        \* rss[d]: the *RSS value of d's driver key
    nla,        \* the QoS key: [key, others, value]
    policy,     \* policy[p]: who made it
    dns,        \* dns[d]
    entry,      \* the network-stack entry of the backup
    dnsEntry,   \* its DNS entry
    op, changes

settings == <<rss, nla, policy, dns>>
vars == <<adapters, settings, entry, dnsEntry, op, changes>>

-----------------------------------------------------------------------------
Inventory == {"RssEnabled", "QosNlaBypass"}     \* P1_16_INVENTORY, two of its five
Captured  == {"RssEnabled"}                     \* SETTINGS
Target    == 1
Suite     == "suite"
Foreign   == "foreign"

\* NetworkAdapterIdentity, what the registry says of the QoS key, and the two
\* entries of the backup.
Adapters   == [device : Devices, index : Indexes]
NlaStates  == [key : BOOLEAN, others : BOOLEAN, value : {None, 0, Target}]
Makers     == {None, Suite, Foreign}
Records    == [adapter : Adapters, rss : {None, 0, Target}, nla : NlaStates,
               settings : SUBSET Inventory, policies : [Policies -> Makers]]
DnsRecords == [adapter : Adapters, servers : Servers]

\* A match by interface index, whatever device has it now.
ExactAdapterByIndex(a) == \E b \in adapters : b.index = a.index

\* exact_adapter: the one observed adapter with the captured identity.
ExactAdapter(a) == a \in adapters

\* select_adapter
SelectAdapter == IF Cardinality(adapters) = 1 THEN CHOOSE a \in adapters : TRUE ELSE None

\* NetworkStackTransaction::validate: every setting and policy of the inventory
\* once, and existence that agrees with the value.
ValidateTransaction(t) ==
    /\ t.settings = Inventory
    /\ DOMAIN t.policies = Policies
    /\ t.nla.value # None => t.nla.key

\* What a release records: this one the RSS setting, an earlier one everything.
RecordedBy(release, a) ==
    [adapter |-> a, rss |-> rss[a.device], nla |-> nla,
     settings |-> IF release = "this" THEN Captured ELSE Inventory,
     policies |-> IF release = "this" THEN <<>> ELSE policy]

\* restore_nla and the readback after it: fails where it would have to
\* overwrite or remove what the suite did not write.
RestoredNla(was) ==
    IF was.value # None
    THEN IF nla.key THEN [nla EXCEPT !.value = was.value] ELSE None
    ELSE IF ~nla.key THEN IF was.key THEN None ELSE nla
    ELSE IF nla.value \notin {None, Target} THEN None
    ELSE IF was.key \/ nla.others \/ nla.value = None THEN [nla EXCEPT !.value = None]
    ELSE [nla EXCEPT !.value = None, !.key = FALSE]

SameNla(x, y) == x.key = y.key /\ x.value = y.value

-----------------------------------------------------------------------------
Idle == [pc |-> "idle"]
End == op' = Idle

TypeOK ==
    /\ adapters \subseteq Adapters
    /\ rss \in [Devices -> {None, 0, Target}]
    /\ nla \in NlaStates /\ (nla.value # None => nla.key)
    /\ policy \in [Policies -> Makers]
    /\ dns \in [Devices -> Servers]
    /\ entry \in {None} \cup Records /\ dnsEntry \in {None} \cup DnsRecords
    /\ changes \in Nat

Init ==
    /\ adapters = {}
    /\ rss = [d \in Devices |-> None]
    /\ nla = [key |-> FALSE, others |-> FALSE, value |-> None]
    /\ policy = [p \in Policies |-> None]
    /\ dns \in [Devices -> {CHOOSE s \in Servers : TRUE}]
    /\ entry = None /\ dnsEntry = None
    /\ op = Idle /\ changes = 0

\* inspect_network_stack and capture_network_stack: without exactly one
\* adapter that has the setting there is nothing to do; a record that does
\* not validate fails the step before anything is durable.
Capture(release) ==
    /\ op = Idle /\ entry = None
    /\ SelectAdapter # None
    /\ rss[SelectAdapter.device] # None
    /\ LET t == RecordedBy(release, SelectAdapter)
       IN  IF ValidateTransaction(t)
           THEN entry' = t /\ op' = [pc |-> "apply", adapter |-> t.adapter]
           ELSE entry' = None /\ op' = [pc |-> "failed"]
    /\ UNCHANGED <<adapters, settings, dnsEntry, changes>>

\* The engine reports the failed capture and the run ends.
CaptureFailed ==
    /\ op.pc = "failed"
    /\ End
    /\ UNCHANGED <<adapters, settings, entry, dnsEntry, changes>>

\* apply_network_stack: reobserve, read, write, reobserve, read back.
Apply ==
    /\ op.pc = "apply"
    /\ IF ExactAdapter(op.adapter) /\ rss[op.adapter.device] # None
       THEN rss' = [rss EXCEPT ![op.adapter.device] = Target]
       ELSE UNCHANGED rss
    /\ IF ExactAdapter(op.adapter) THEN op' = [op EXCEPT !.pc = "verify"] ELSE End
    /\ UNCHANGED <<adapters, nla, policy, dns, entry, dnsEntry, changes>>

Verify ==
    /\ op.pc = "verify"
    /\ End
    /\ UNCHANGED <<adapters, settings, entry, dnsEntry, changes>>

\* What an earlier release set besides: the NLA value, its policies where no
\* policy had the name, and the DNS servers, each recorded first.
EarlierRelease(servers) ==
    /\ op.pc = "verify" /\ nla.value = None /\ ExactAdapter(op.adapter)
    /\ nla' = [nla EXCEPT !.key = TRUE, !.value = Target]
    /\ policy' = [p \in Policies |-> IF policy[p] = None THEN Suite ELSE policy[p]]
    /\ dnsEntry' = [adapter |-> op.adapter, servers |-> dns[op.adapter.device]]
    /\ dns' = [dns EXCEPT ![op.adapter.device] = servers]
    /\ UNCHANGED <<adapters, rss, entry, op, changes>>

-----------------------------------------------------------------------------
\* restore_network_stack, one item after the other; a failure ends it and the
\* entry stays in the backup.

Restore ==
    /\ op = Idle /\ entry # None
    /\ op' = [pc |-> "restore", left |-> <<"rss", "nla">>, policies |-> Policies,
              since |-> changes]
    /\ UNCHANGED <<adapters, settings, entry, dnsEntry, changes>>

Done == op' = [op EXCEPT !.left = Tail(@)]

\* A driver that has lost the setting fails the write; one that never had it
\* is left alone.
RestoreRss ==
    /\ op.pc = "restore" /\ op.left # <<>> /\ Head(op.left) = "rss"
    /\ LET d == entry.adapter.device
       IN  \/ /\ ~ExactAdapter(entry.adapter) \/ (entry.rss # None /\ rss[d] = None)
              /\ End /\ UNCHANGED rss
           \/ /\ ExactAdapter(entry.adapter) /\ ~(entry.rss # None /\ rss[d] = None)
              /\ rss' = IF entry.rss = None THEN rss ELSE [rss EXCEPT ![d] = entry.rss]
              /\ Done
    /\ UNCHANGED <<adapters, nla, policy, dns, entry, dnsEntry, changes>>

RestoreNla ==
    /\ op.pc = "restore" /\ op.left # <<>> /\ Head(op.left) = "nla"
    /\ LET new == RestoredNla(entry.nla)
       IN  /\ nla' = IF ExactAdapter(entry.adapter) /\ new # None THEN new ELSE nla
           /\ IF ExactAdapter(entry.adapter) /\ new # None /\ SameNla(new, entry.nla)
              THEN Done ELSE End
    /\ UNCHANGED <<adapters, rss, policy, dns, entry, dnsEntry, changes>>

\* A policy that exists is left alone.
RestorePolicyIfMissing(p) ==
    /\ op.pc = "restore" /\ op.left = <<>> /\ p \in op.policies
    /\ policy' = IF policy[p] = None THEN [policy EXCEPT ![p] = entry.policies[p]] ELSE policy
    /\ op' = [op EXCEPT !.policies = @ \ {p}]
    /\ UNCHANGED <<adapters, rss, nla, dns, entry, dnsEntry, changes>>

\* restore_policy creates what is missing and never replaces; delete_policy
\* removes whatever has the name.
RestorePolicy(p) ==
    /\ op.pc = "restore" /\ op.left = <<>> /\ p \in op.policies
    /\ IF entry.policies[p] \notin {None, policy[p]} /\ policy[p] # None
       THEN End /\ UNCHANGED policy
       ELSE /\ policy' = [policy EXCEPT ![p] = entry.policies[p]]
            /\ op' = [op EXCEPT !.policies = @ \ {p}]
    /\ UNCHANGED <<adapters, rss, nla, dns, entry, dnsEntry, changes>>

FinishRestore ==
    /\ op.pc = "restore" /\ op.left = <<>> /\ op.policies = {}
    /\ entry' = None
    /\ End
    /\ UNCHANGED <<adapters, settings, dnsEntry, changes>>

\* restore_dns_entry
RestoreDns ==
    /\ op = Idle /\ dnsEntry # None
    /\ ExactAdapter(dnsEntry.adapter)
    /\ dns' = [dns EXCEPT ![dnsEntry.adapter.device] = dnsEntry.servers]
    /\ dnsEntry' = None
    /\ UNCHANGED <<adapters, rss, nla, policy, entry, op, changes>>

-----------------------------------------------------------------------------
\* The machine around it.

Plug == /\ \E a \in Adapters :
            /\ \A b \in adapters : b.device # a.device /\ b.index # a.index
            /\ adapters' = adapters \cup {a}
        /\ UNCHANGED <<settings, entry, dnsEntry, op>>

Unplug == /\ \E a \in adapters : adapters' = adapters \ {a}
          /\ UNCHANGED <<settings, entry, dnsEntry, op>>

DriverUpdate == /\ \E d \in Devices, v \in {None, 0, Target} : rss' = [rss EXCEPT ![d] = v]
                /\ UNCHANGED <<adapters, nla, policy, dns, entry, dnsEntry, op>>

OtherProgram == /\ \/ /\ nla' \in {[nla EXCEPT !.key = TRUE, !.value = 0],
                                   [nla EXCEPT !.key = TRUE, !.others = TRUE]}
                      /\ UNCHANGED policy
                   \/ /\ \E p \in Policies, by \in {None, Foreign} : policy' = [policy EXCEPT ![p] = by]
                      /\ UNCHANGED nla
                /\ UNCHANGED <<adapters, rss, dns, entry, dnsEntry, op>>

Change == /\ changes < MaxChanges
          /\ changes' = changes + 1
          /\ Plug \/ Unplug \/ DriverUpdate \/ OtherProgram

Step == \/ CaptureFailed \/ Apply \/ Verify
        \/ RestoreRss \/ RestoreNla \/ FinishRestore
        \/ \E p \in Policies : RestorePolicy(p)

Next == \/ \E release \in {"this", "earlier"} : Capture(release)
        \/ \E servers \in Servers : EarlierRelease(servers)
        \/ Restore \/ RestoreDns
        \/ Step \/ Change

Fairness == WF_vars(Step) /\ WF_vars(Capture("this"))

-----------------------------------------------------------------------------
\* Properties.

\* No command ever writes the RSS value or the DNS servers of an adapter other
\* than the one whose originals the backup holds, however adapters are
\* unplugged, replaced or numbered anew while it runs.
OnlyCapturedAdapter ==
    [][\A d \in Devices :
        /\ rss'[d] # rss[d] /\ changes' = changes =>
            entry # None /\ entry.adapter.device = d /\ entry.adapter \in adapters
        /\ dns'[d] # dns[d] =>
            \E e \in {dnsEntry, dnsEntry'} :
                e # None /\ e.adapter.device = d /\ e.adapter \in adapters]_vars

\* The entry leaves the backup only when everything it records is again what
\* it was, unless somebody else changed the machine during that restore;
\* changes before it, and restores that failed half-way, make no difference.
RestoreComplete ==
    [][entry # None /\ entry' = None /\ op.since = changes =>
        /\ entry.rss # None => rss[entry.adapter.device] = entry.rss
        /\ SameNla(nla, entry.nla)
        /\ policy = entry.policies]_vars

\* "Run only the catalogued P1:16 NIC latency transaction through the normal
\* engine": a machine that keeps one Ethernet adapter with the RSS setting
\* gets it enabled.
RssGetsEnabled ==
    \A a \in Adapters :
        <>[](adapters = {a} /\ rss[a.device] # None) => <>(rss[a.device] = Target)
=============================================================================
