---------------------------- MODULE FilesProofs ----------------------------
(***************************************************************************)
(* What the cleanup of a cache directory and the configuration files of    *)
(* CS2 guarantee, for any tree, any installations and files, and for any   *)
(* number of changes by other programs, failed calls and crashes.          *)
(***************************************************************************)
EXTENDS SuiteParts, CollectionsProofs

\* A finite set can be listed, each element once.
LEMMA EnumerationExists ==
    ASSUME NEW T, IsFiniteSet(T)
    PROVE  /\ Cardinality(T) \in Nat
           /\ \E f \in [1 .. Cardinality(T) -> T] :
                 /\ \A a, b \in DOMAIN f : f[a] = f[b] => a = b
                 /\ \A t \in T : \E a \in 1 .. Cardinality(T) : f[a] = t
<1>1. PICK n \in Nat : ExistsBijection(1 .. n, T)
  BY FS_NatBijection
<1>2. Cardinality(T) = n
  BY <1>1, FS_CountingElements
<1>3. PICK f : f \in Bijection(1 .. n, T)
  BY <1>1 DEF ExistsBijection
<1>4. f \in [1 .. n -> T] /\ (\A a, b \in DOMAIN f : f[a] = f[b] => a = b)
      /\ \A t \in T : \E a \in 1 .. n : f[a] = t
  BY <1>3 DEF Bijection, Injection, Surjection, IsInjective
<1>5. QED
  BY <1>2, <1>4

-----------------------------------------------------------------------------
(* The cleanup of a directory *)

\* The objects and directories a node may name, and the commands.
NodesBelow(parents) == [object : L!Objects, parent : parents]
AnyNode == NodesBelow(L!Roots \cup L!Objects)
Deleting == {"delete", "dispose"}
Cleanups == [pc : {"open", "recheck"} \cup Deleting, nodes : Seq(AnyNode),
             held : Seq(L!Objects), failures : Nat, deleted : Nat, looked : Nat,
             pending : Seq(AnyNode)]

\* The root of the running action.
CleanRoot == L!RootOf[L!Action]

\* Every opened object is held by its handle and lies in the root or in a
\* directory opened before it; none came to its place after that.
HeldInv ==
    /\ cleanOp \in [pc : {"idle"}] \cup Cleanups
    /\ cleanOp \in Cleanups =>
          /\ Len(cleanResults) < Len(L!Actions) /\ CleanRoot \in L!Roots
          /\ Len(cleanOp.held) = Len(cleanOp.nodes)
          /\ \A i \in 1 .. Len(cleanOp.nodes) :
                /\ cleanOp.held[i] = cleanOp.nodes[i].object
                /\ cleanOp.nodes[i].object \notin late
                /\ \/ cleanOp.nodes[i].parent = CleanRoot
                   \/ \E j \in 1 .. Len(cleanOp.nodes) :
                         j < i /\ cleanOp.nodes[j].object = cleanOp.nodes[i].parent
          /\ cleanOp.pc = "open" => \A i \in 1 .. Len(cleanOp.pending) :
                \/ cleanOp.pending[i].parent = CleanRoot
                \/ \E j \in 1 .. Len(cleanOp.nodes) :
                      cleanOp.nodes[j].object = cleanOp.pending[i].parent

\* Once deletion has begun, what is left in the root is still to be deleted, came
\* later, or a failure has been counted.
RootInv ==
    cleanOp \in Cleanups /\ cleanOp.pc \in Deleting /\ cleanOp.failures = 0 =>
        \A o \in L!Objects \ late : place[o] = CleanRoot =>
            \E j \in 1 .. Len(cleanOp.nodes) : cleanOp.nodes[j].object = o

\* From the last look at a node to its deletion its handle keeps it in its place;
\* what else has become of it became so after that look.
LookInv ==
    cleanOp \in Cleanups /\ cleanOp.pc = "dispose" =>
        /\ cleanOp.held # <<>> /\ cleanOp.looked <= cleanChanges
        /\ LET n == L!Last(cleanOp.nodes)
           IN  /\ place[n.object] = n.parent
               /\ n.object \in linked \cup reparse => cleanOp.looked < cleanChanges

CleanupInv == L!TypeOK /\ HeldInv /\ RootInv /\ LookInv

\* A command that is not idle is one of a cleanup.
LEMMA CleanupShape ==
    ASSUME cleanOp \in [pc : {"idle"}] \cup Cleanups, cleanOp.pc \in {"open", "recheck"} \cup Deleting
    PROVE  /\ cleanOp \in Cleanups
           /\ cleanOp.nodes \in Seq(AnyNode) /\ cleanOp.held \in Seq(L!Objects)
           /\ cleanOp.pending \in Seq(AnyNode)
           /\ cleanOp.failures \in Nat /\ cleanOp.deleted \in Nat
           /\ cleanOp.looked \in Nat
  BY DEF Cleanups, Deleting

\* The idle command is none of a cleanup.
LEMMA IdleIsNoCleanup == L!Idle \notin Cleanups /\ L!Idle \in [pc : {"idle"}]
  BY DEF Cleanups, L!Idle

\* There are four actions, of which two have a root.
LEMMA CleanupActions ==
    /\ Len(L!Actions) = 4
    /\ \A a \in DOMAIN L!RootOf : L!RootOf[a] \in L!Roots
    /\ \A n \in 0 .. 3 : L!Actions[n + 1] \in L!ToSet(L!Actions)
<1>1. Len(L!Actions) = 4 /\ DOMAIN L!Actions = 1 .. 4
  <2>1. DOMAIN L!Actions = 1 .. 4
    BY DEF L!Actions
  <2>2. Len(L!Actions) = 4
    BY DEF L!Actions
  <2>3. QED
    BY <2>1, <2>2
<1>2. L!ToSet(L!Actions) = {L!Actions[i] : i \in 1 .. 4}
  BY <1>1 DEF L!ToSet
<1>3. \A a \in DOMAIN L!RootOf : L!RootOf[a] \in L!Roots
  BY DEF L!RootOf, L!Roots
<1>4. \A n \in 0 .. 3 : n + 1 \in 1 .. 4
  OBVIOUS
<1>5. QED
  BY <1>1, <1>2, <1>3, <1>4

\* The children of a directory, listed.
LEMMA ChildrenListed ==
    ASSUME NEW d
    PROVE  L!SetToSeq({[object |-> o, parent |-> d] : o \in L!Children(d)}) \in
              Seq({[object |-> o, parent |-> d] : o \in L!Children(d)})
<1> DEFINE T == {[object |-> o, parent |-> d] : o \in L!Children(d)}
<1>1. IsFiniteSet(L!Children(d))
  <2>1. L!Children(d) \subseteq Dirs \cup Files
    BY DEF L!Children, L!Objects
  <2>2. QED
    BY <2>1, FS_Subset, CleanupAssumption
<1>2. IsFiniteSet(T)
  <2> DEFINE f == [o \in L!Children(d) |-> [object |-> o, parent |-> d]]
  <2>1. f \in Surjection(L!Children(d), T)
    BY DEF Surjection
  <2> HIDE DEF T, f
  <2>2. QED
    BY <1>1, <2>1, FS_Surjection
<1> HIDE DEF T
<1>3. L!SetToSeq(T) = CHOOSE f \in [1 .. Cardinality(T) -> T] : L!IsInjective(f)
  BY DEF L!SetToSeq, L!Cardinality, Cardinality
<1>4. PICK f \in [1 .. Cardinality(T) -> T] : \A a, b \in DOMAIN f : f[a] = f[b] => a = b
  BY <1>2, EnumerationExists
<1>5. L!IsInjective(f)
  BY <1>4 DEF L!IsInjective
<1>6. L!SetToSeq(T) \in [1 .. Cardinality(T) -> T]
  BY <1>3, <1>4, <1>5
<1>7. Cardinality(T) \in Nat
  BY <1>2, EnumerationExists
<1>8. L!SetToSeq(T) \in Seq(T)
  BY <1>6, <1>7
<1>9. QED
  BY <1>8 DEF T

\* The invariant holds at the start.
LEMMA CleanupInit == L!Init => CleanupInv
<1> SUFFICES ASSUME L!Init PROVE CleanupInv
  OBVIOUS
<1>1. place \in [L!Objects -> {None, "elsewhere"} \cup L!Roots \cup Dirs]
  BY DEF L!Init, L!Roots
<1>2. cleanResults \in Seq(L!Results) /\ Len(cleanResults) <= Len(L!Actions)
  BY CleanupActions DEF L!Init
<1>3. L!TypeOK
  BY <1>1, <1>2 DEF L!Init, L!TypeOK
<1>4. QED
  BY <1>3, IdleIsNoCleanup DEF L!Init, CleanupInv, HeldInv, RootInv, LookInv

\* Ending an action gives one more outcome.
LEMMA ConcludeInv ==
    ASSUME CleanupInv, Len(cleanResults) < Len(L!Actions),
           NEW outcome \in {"completed", "failed", "deferred"}, NEW n \in Nat,
           L!Conclude(outcome, n), UNCHANGED <<place, linked, reparse, busy, cleanChanges>>,
           late' \subseteq late
    PROVE  CleanupInv'
<1>1. cleanResults \in Seq(L!Results) /\ Len(cleanResults) \in 0 .. 3
  <2>1. cleanResults \in Seq(L!Results)
    BY DEF CleanupInv, L!TypeOK
  <2>2. Len(cleanResults) \in Nat
    BY <2>1
  <2>3. Len(cleanResults) < 4
    BY CleanupActions
  <2>4. \A m \in Nat : m < 4 => m \in 0 .. 3
    OBVIOUS
  <2>5. QED
    BY <2>1, <2>2, <2>3, <2>4
<1>2. L!Action \in L!ToSet(L!Actions)
  BY <1>1, CleanupActions DEF L!Action
<1>3. [action |-> L!Action, outcome |-> outcome, items |-> n] \in L!Results
  BY <1>2 DEF L!Results
<1>4. cleanResults' \in Seq(L!Results) /\ Len(cleanResults') = Len(cleanResults) + 1
  BY <1>1, <1>3 DEF L!Conclude
<1>5. Len(cleanResults') <= Len(L!Actions)
  BY <1>1, <1>4, CleanupActions
<1>6. L!TypeOK'
  BY <1>4, <1>5 DEF CleanupInv, L!TypeOK
<1>7. QED
  BY <1>6, IdleIsNoCleanup DEF L!Conclude, CleanupInv, HeldInv, RootInv, LookInv

\* The calls, and the start of a cleanup.
LEMMA CleanupStartInv ==
    ASSUME CleanupInv, L!Call \/ L!Begin
    PROVE  CleanupInv'
<1> USE DEF L!disk
<1>1. CASE L!Call
  <2>1. PICK outcome \in {"completed", "failed", "deferred"} : L!Conclude(outcome, 0)
    BY <1>1 DEF L!Call
  <2>2. Len(cleanResults) < Len(L!Actions) /\ late' \subseteq late
        /\ UNCHANGED <<place, linked, reparse, busy, cleanChanges>>
    BY <1>1 DEF L!Call
  <2>3. QED
    BY <2>1, <2>2, ConcludeInv
<1>2. CASE L!Begin
  <2> DEFINE T == {[object |-> o, parent |-> CleanRoot] : o \in L!Children(CleanRoot)}
  <2>1. UNCHANGED <<place, linked, reparse, busy, cleanResults, cleanChanges>> /\ late' = {}
    BY <1>2 DEF L!Begin
  <2>2. cleanOp' = [pc |-> "open", nodes |-> <<>>, held |-> <<>>, failures |-> 0,
                    deleted |-> 0, looked |-> 0, pending |-> L!SetToSeq(T)]
    BY <1>2 DEF L!Begin, CleanRoot
  <2>3. CleanRoot \in L!Roots /\ Len(cleanResults) < Len(L!Actions)
    BY <1>2, CleanupActions DEF L!Begin, CleanRoot
  <2>4. L!SetToSeq(T) \in Seq(T)
    BY ChildrenListed
  <2>5. T \subseteq AnyNode /\ \A n \in T : n.parent = CleanRoot
    BY <2>3 DEF AnyNode, NodesBelow, L!Children
  <2> HIDE DEF T
  <2>6. L!SetToSeq(T) \in Seq(AnyNode)
        /\ \A i \in 1 .. Len(L!SetToSeq(T)) : L!SetToSeq(T)[i].parent = CleanRoot
    BY <2>4, <2>5
  <2>7. <<>> \in Seq(AnyNode) /\ <<>> \in Seq(L!Objects) /\ Len(<<>>) = 0
    OBVIOUS
  <2>8. cleanOp' \in Cleanups /\ cleanOp'.pc = "open" /\ cleanOp'.nodes = <<>>
        /\ cleanOp'.held = <<>> /\ cleanOp'.pending = L!SetToSeq(T)
    BY <2>2, <2>6, <2>7 DEF Cleanups
  <2>9. CleanRoot' = CleanRoot
    BY <2>1 DEF CleanRoot, L!Action
  <2>10. 1 .. Len(<<>>) = {}
    BY <2>7
  <2>11. HeldInv'
    BY <2>1, <2>3, <2>6, <2>8, <2>9, <2>10 DEF HeldInv
  <2>12. RootInv' /\ LookInv'
    BY <2>8 DEF RootInv, LookInv, Deleting
  <2>13. L!TypeOK'
    BY <2>1 DEF CleanupInv, L!TypeOK
  <2>14. QED
    BY <2>11, <2>12, <2>13 DEF CleanupInv
<1>3. QED
  BY <1>1, <1>2

\* An object that is opened is pending no more, and its children are.
LEMMA CleanupOpenInv ==
    ASSUME CleanupInv, L!Open
    PROVE  CleanupInv'
<1> DEFINE n == Head(cleanOp.pending)
           T == {[object |-> o, parent |-> n.object] : o \in L!Children(n.object)}
           new == L!SetToSeq(T)
           more == Tail(cleanOp.pending)
           k == Len(cleanOp.nodes)
<1> USE DEF L!disk
<1>1. /\ cleanOp \in Cleanups /\ cleanOp.pc = "open"
      /\ cleanOp.nodes \in Seq(AnyNode) /\ cleanOp.held \in Seq(L!Objects)
      /\ cleanOp.pending \in Seq(AnyNode) /\ cleanOp.pending # <<>>
  BY CleanupShape DEF L!Open, CleanupInv, HeldInv
<1>2. UNCHANGED <<place, linked, reparse, busy, cleanChanges>>
  BY DEF L!Open
<1>3. CASE L!Conclude("failed", 0) /\ UNCHANGED late
  BY <1>1, <1>2, <1>3, ConcludeInv DEF CleanupInv, HeldInv
<1>4. CASE /\ cleanOp' = [cleanOp EXCEPT !.nodes = Append(cleanOp.nodes, n),
                             !.held = Append(cleanOp.held, n.object), !.pending = new \o more]
           /\ late' = late \ {n.object} /\ UNCHANGED cleanResults
  <2>1. n \in AnyNode /\ more \in Seq(AnyNode) /\ n = cleanOp.pending[1]
        /\ Len(cleanOp.pending) \in Nat /\ 1 \in 1 .. Len(cleanOp.pending)
        /\ \A i \in 1 .. Len(more) : more[i] = cleanOp.pending[i + 1]
                                     /\ i + 1 \in 1 .. Len(cleanOp.pending)
    BY <1>1
  <2>2. n.object \in L!Objects
    BY <2>1 DEF AnyNode, NodesBelow
  <2>3. T \subseteq AnyNode /\ \A m \in T : m.parent = n.object
    BY <2>2 DEF AnyNode, NodesBelow, L!Children
  <2>4. new \in Seq(T)
    BY ChildrenListed
  <2> HIDE DEF T, new, n, more
  <2>5. new \in Seq(AnyNode) /\ \A i \in 1 .. Len(new) : new[i].parent = n.object
    BY <2>3, <2>4
  <2>6. /\ new \o more \in Seq(AnyNode)
        /\ \A i \in 1 .. Len(new \o more) :
              \/ i \in 1 .. Len(new) /\ (new \o more)[i] = new[i]
              \/ \E j \in 1 .. Len(more) : (new \o more)[i] = more[j]
    <3>1. Len(new) \in Nat /\ Len(more) \in Nat /\ Len(new \o more) = Len(new) + Len(more)
          /\ new \o more \in Seq(AnyNode)
      BY <2>1, <2>5
    <3>2. ASSUME NEW i \in 1 .. Len(new \o more), i \notin 1 .. Len(new)
          PROVE  \E j \in 1 .. Len(more) : (new \o more)[i] = more[j]
      <4>1. i - Len(new) \in 1 .. Len(more) /\ (new \o more)[i] = more[i - Len(new)]
        BY <2>1, <2>5, <3>1, <3>2
      <4>2. QED
        BY <4>1
    <3>3. \A i \in 1 .. Len(new) : (new \o more)[i] = new[i]
      BY <2>1, <2>5, <3>1
    <3>4. QED
      BY <3>1, <3>2, <3>3
  <2>7. /\ Append(cleanOp.nodes, n) \in Seq(AnyNode)
        /\ Append(cleanOp.held, n.object) \in Seq(L!Objects)
        /\ k \in Nat /\ Len(Append(cleanOp.nodes, n)) = k + 1
        /\ Append(cleanOp.nodes, n)[k + 1] = n
        /\ \A i \in 1 .. k : Append(cleanOp.nodes, n)[i] = cleanOp.nodes[i]
        /\ Len(Append(cleanOp.held, n.object)) = k + 1
        /\ Append(cleanOp.held, n.object)[k + 1] = n.object
        /\ \A i \in 1 .. k : Append(cleanOp.held, n.object)[i] = cleanOp.held[i]
    <3>1. Len(cleanOp.held) = k
      BY <1>1 DEF CleanupInv, HeldInv
    <3>2. QED
      BY <1>1, <2>1, <2>2, <3>1
  <2>8. /\ cleanOp' \in Cleanups /\ cleanOp'.pc = "open"
        /\ cleanOp'.nodes = Append(cleanOp.nodes, n)
        /\ cleanOp'.held = Append(cleanOp.held, n.object)
        /\ cleanOp'.pending = new \o more
    BY <1>1, <1>4, <2>6, <2>7 DEF Cleanups
  <2>9. CleanRoot' = CleanRoot /\ CleanRoot \in L!Roots
        /\ Len(cleanResults') < Len(L!Actions)
    BY <1>1, <1>4 DEF CleanRoot, L!Action, CleanupInv, HeldInv
  <2> HIDE DEF k
  <2>10. \A i \in 1 .. k + 1 : i = k + 1 \/ i \in 1 .. k
    BY <2>7
  <2>11. \A i \in 1 .. k : i \in 1 .. k + 1 /\ i < k + 1 /\ k + 1 \in 1 .. k + 1
    BY <2>7
  <2>12. \/ n.parent = CleanRoot
         \/ \E j \in 1 .. k : cleanOp.nodes[j].object = n.parent
    BY <1>1, <2>1 DEF CleanupInv, HeldInv, k
  <2>13. ASSUME NEW i \in 1 .. k + 1
         PROVE  /\ cleanOp'.held[i] = cleanOp'.nodes[i].object
                /\ cleanOp'.nodes[i].object \notin late'
                /\ \/ cleanOp'.nodes[i].parent = CleanRoot
                   \/ \E j \in 1 .. k + 1 :
                         j < i /\ cleanOp'.nodes[j].object = cleanOp'.nodes[i].parent
    <3>1. CASE i = k + 1
      BY <1>4, <2>7, <2>8, <2>11, <2>12, <3>1
    <3>2. CASE i \in 1 .. k
      <4>1. /\ cleanOp.held[i] = cleanOp.nodes[i].object
            /\ cleanOp.nodes[i].object \notin late
            /\ \/ cleanOp.nodes[i].parent = CleanRoot
               \/ \E j \in 1 .. k : j < i /\ cleanOp.nodes[j].object = cleanOp.nodes[i].parent
        BY <1>1, <3>2 DEF CleanupInv, HeldInv, k
      <4>2. QED
        BY <1>4, <2>7, <2>8, <2>11, <3>2, <4>1
    <3>3. QED
      BY <2>10, <3>1, <3>2
  <2>14. ASSUME NEW i \in 1 .. Len(cleanOp'.pending)
         PROVE  \/ cleanOp'.pending[i].parent = CleanRoot
                \/ \E j \in 1 .. k + 1 : cleanOp'.nodes[j].object = cleanOp'.pending[i].parent
    <3>1. CASE i \in 1 .. Len(new) /\ (new \o more)[i] = new[i]
      <4>1. cleanOp'.pending[i].parent = n.object /\ k + 1 \in 1 .. k + 1
        BY <2>5, <2>7, <2>8, <3>1
      <4>2. QED
        BY <2>7, <2>8, <4>1
    <3>2. ASSUME NEW j \in 1 .. Len(more), (new \o more)[i] = more[j]
          PROVE  \/ cleanOp'.pending[i].parent = CleanRoot
                 \/ \E m \in 1 .. k + 1 : cleanOp'.nodes[m].object = cleanOp'.pending[i].parent
      <4>1. cleanOp'.pending[i] = cleanOp.pending[j + 1] /\ j + 1 \in 1 .. Len(cleanOp.pending)
        BY <2>1, <2>8, <3>2
      <4>2. \/ cleanOp'.pending[i].parent = CleanRoot
            \/ \E m \in 1 .. k : cleanOp.nodes[m].object = cleanOp'.pending[i].parent
        BY <1>1, <4>1 DEF CleanupInv, HeldInv, k
      <4>3. QED
        BY <2>7, <2>8, <2>11, <4>2
    <3>3. QED
      BY <2>6, <2>8, <2>14, <3>1, <3>2
  <2>15. HeldInv'
    BY <2>7, <2>8, <2>9, <2>13, <2>14 DEF HeldInv
  <2>16. RootInv' /\ LookInv'
    BY <2>8 DEF RootInv, LookInv, Deleting
  <2>17. L!TypeOK'
    BY <1>2, <1>4 DEF CleanupInv, L!TypeOK
  <2>18. QED
    BY <2>15, <2>16, <2>17 DEF CleanupInv
<1>5. QED
  BY <1>1, <1>3, <1>4 DEF L!Open, Cleanups

\* The second enumeration finds the root's children among the opened objects.
LEMMA CleanupRecheckInv ==
    ASSUME CleanupInv, L!Opened \/ L!Recheck
    PROVE  CleanupInv'
<1> USE DEF L!disk
<1>1. /\ cleanOp \in Cleanups /\ cleanOp.nodes \in Seq(AnyNode)
      /\ Len(cleanResults) < Len(L!Actions)
  BY CleanupShape DEF L!Opened, L!Recheck, CleanupInv, HeldInv
<1>2. UNCHANGED <<place, linked, reparse, busy, late, cleanChanges>>
  BY DEF L!Opened, L!Recheck
<1>3. CASE L!Conclude("failed", 0)
  BY <1>1, <1>2, <1>3, ConcludeInv
<1>4. ASSUME NEW at \in {"recheck", "delete"}, cleanOp' = [cleanOp EXCEPT !.pc = at],
             UNCHANGED cleanResults,
             at = "delete" => L!Children(CleanRoot) \subseteq L!Nodes
      PROVE  CleanupInv'
  <2>1. /\ cleanOp' \in Cleanups /\ cleanOp'.pc = at /\ cleanOp'.nodes = cleanOp.nodes
        /\ cleanOp'.held = cleanOp.held /\ cleanOp'.pending = cleanOp.pending
    BY <1>1, <1>4 DEF Cleanups, Deleting
  <2>2. CleanRoot' = CleanRoot
    BY <1>4 DEF CleanRoot, L!Action
  <2>3. HeldInv'
    BY <1>1, <1>2, <1>4, <2>1, <2>2 DEF CleanupInv, HeldInv
  <2>4. at = "delete" => \A o \in L!Objects \ late : place[o] = CleanRoot =>
           \E j \in 1 .. Len(cleanOp.nodes) : cleanOp.nodes[j].object = o
    <3>1. DOMAIN cleanOp.nodes = 1 .. Len(cleanOp.nodes)
      BY <1>1
    <3>2. QED
      BY <1>4, <3>1 DEF L!Children, L!Nodes
  <2>5. RootInv' /\ LookInv'
    BY <1>2, <2>1, <2>2, <2>4 DEF RootInv, LookInv, Deleting, L!Objects
  <2>6. L!TypeOK'
    BY <1>2, <1>4 DEF CleanupInv, L!TypeOK
  <2>7. QED
    BY <2>3, <2>5, <2>6 DEF CleanupInv
<1>5. CASE L!Opened
  BY <1>4, <1>5 DEF L!Opened
<1>6. CASE L!Recheck
  BY <1>3, <1>4, <1>6 DEF L!Recheck, CleanRoot
<1>7. QED
  BY <1>5, <1>6

\* The last of the opened objects goes, or a failure is counted.
LEMMA PassedInv ==
    ASSUME CleanupInv, cleanOp.pc \in Deleting, cleanOp.held # <<>>, NEW failed \in {0, 1},
           cleanOp' = L!Passed(failed),
           UNCHANGED <<linked, reparse, busy, late, cleanResults, cleanChanges>>,
           \/ failed = 1 /\ UNCHANGED place
           \/ failed = 0 /\ place' = [place EXCEPT ![L!Last(cleanOp.nodes).object] = None]
    PROVE  CleanupInv'
<1> DEFINE k == Len(cleanOp.nodes)
           n == L!Last(cleanOp.nodes)
           nodes == L!Front(cleanOp.nodes)
           held == L!Front(cleanOp.held)
<1>1. /\ cleanOp \in Cleanups
      /\ cleanOp.nodes \in Seq(AnyNode) /\ cleanOp.held \in Seq(L!Objects)
      /\ cleanOp.failures \in Nat /\ cleanOp.deleted \in Nat /\ cleanOp.held # <<>>
  BY CleanupShape DEF CleanupInv, HeldInv
<1>2. Len(cleanOp.held) = k /\ k \in Nat /\ k > 0
  BY <1>1 DEF CleanupInv, HeldInv
<1>3. n = cleanOp.nodes[k] /\ k \in 1 .. k /\ n \in AnyNode
  BY <1>1, <1>2 DEF L!Last
<1>4. n.object \in L!Objects
  BY <1>3 DEF AnyNode, NodesBelow
<1>5. /\ \/ failed = 1 /\ place' = place
         \/ failed = 0 /\ place' = [place EXCEPT ![n.object] = None]
      /\ cleanOp' = [cleanOp EXCEPT !.pc = "delete", !.nodes = nodes, !.held = held,
                       !.deleted = cleanOp.deleted + 1,
                       !.failures = cleanOp.failures + failed]
  BY <1>1 DEF L!Passed, Cleanups
<1> HIDE DEF n
<1>6. /\ nodes \in Seq(AnyNode) /\ Len(nodes) = k - 1
      /\ \A i \in 1 .. k - 1 : nodes[i] = cleanOp.nodes[i]
      /\ held \in Seq(L!Objects) /\ Len(held) = k - 1
      /\ \A i \in 1 .. k - 1 : held[i] = cleanOp.held[i]
  BY <1>1, <1>2 DEF L!Front
<1> HIDE DEF nodes, held
<1>7. /\ cleanOp.deleted + 1 \in Nat
      /\ cleanOp.failures + failed \in Nat
  BY <1>1
<1>8. /\ cleanOp' \in Cleanups /\ cleanOp'.nodes = nodes /\ cleanOp'.held = held
      /\ cleanOp'.pending = cleanOp.pending /\ cleanOp'.pc = "delete"
      /\ cleanOp'.failures = cleanOp.failures + failed
  BY <1>1, <1>5, <1>6, <1>7 DEF Cleanups, Deleting
<1> HIDE DEF k
<1>9. \A i \in 1 .. k - 1 : i \in 1 .. k /\ i < k
  BY <1>2
<1>10. \A i \in 1 .. k : i = k \/ i \in 1 .. k - 1
  BY <1>2
<1>11. CleanRoot' = CleanRoot /\ CleanRoot \in L!Roots /\ Len(cleanResults') < Len(L!Actions)
  BY <1>1 DEF CleanRoot, L!Action, CleanupInv, HeldInv
<1>12. HeldInv'
  <2>1. ASSUME NEW i \in 1 .. k - 1
        PROVE  /\ held[i] = nodes[i].object /\ nodes[i].object \notin late
               /\ \/ nodes[i].parent = CleanRoot
                  \/ \E j \in 1 .. k - 1 : j < i /\ nodes[j].object = nodes[i].parent
    <3>1. /\ cleanOp.held[i] = cleanOp.nodes[i].object
          /\ cleanOp.nodes[i].object \notin late
          /\ \/ cleanOp.nodes[i].parent = CleanRoot
             \/ \E j \in 1 .. k : j < i /\ cleanOp.nodes[j].object = cleanOp.nodes[i].parent
      BY <1>1, <1>9, <2>1 DEF CleanupInv, HeldInv, k
    <3>2. \A j \in 1 .. k : j < i => j \in 1 .. k - 1
      BY <1>2, <2>1
    <3>3. QED
      BY <1>6, <2>1, <3>1, <3>2
  <2>2. QED
    BY <1>6, <1>8, <1>11, <2>1 DEF HeldInv
<1>13. RootInv'
  <2>1. SUFFICES ASSUME cleanOp'.failures = 0, NEW o \in L!Objects \ late,
                        place'[o] = CleanRoot
                 PROVE  \E j \in 1 .. k - 1 : nodes[j].object = o
    BY <1>6, <1>8, <1>11 DEF RootInv, L!Objects
  <2>2. cleanOp.failures = 0 /\ failed = 0
    BY <1>1, <1>8, <2>1
  <2>3. o # n.object
    BY <1>4, <1>5, <1>11, <2>1, <2>2, CleanupAssumption DEF CleanupInv, L!TypeOK
  <2>4. place[o] = CleanRoot
    BY <1>4, <1>5, <2>1, <2>3 DEF CleanupInv, L!TypeOK
  <2>5. PICK j \in 1 .. k : cleanOp.nodes[j].object = o
    BY <1>1, <2>1, <2>2, <2>4 DEF CleanupInv, RootInv, k
  <2>6. j \in 1 .. k - 1
    BY <1>3, <1>10, <2>3, <2>5
  <2>7. QED
    BY <1>6, <2>5, <2>6
<1>14. L!TypeOK'
  BY <1>4, <1>5 DEF CleanupInv, L!TypeOK
<1>15. LookInv'
  BY <1>8 DEF LookInv
<1>16. QED
  BY <1>12, <1>13, <1>14, <1>15 DEF CleanupInv

\* A look that finds the node as it was, and one that does not.
LEMMA CleanupValidateInv ==
    ASSUME CleanupInv, L!Validate
    PROVE  CleanupInv'
<1> DEFINE n == L!Last(cleanOp.nodes)
<1> USE DEF L!disk
<1>1. /\ cleanOp \in Cleanups /\ cleanOp.pc = "delete" /\ cleanOp.held # <<>>
      /\ UNCHANGED <<place, linked, reparse, busy, late, cleanResults, cleanChanges>>
      /\ cleanChanges \in Nat
  BY CleanupShape DEF L!Validate, Deleting, CleanupInv, HeldInv, L!TypeOK
<1>2. CASE cleanOp' = L!Passed(1)
  BY <1>1, <1>2, PassedInv DEF Deleting
<1>3. CASE L!SameNode(n) /\ cleanOp' = [cleanOp EXCEPT !.pc = "dispose", !.looked = cleanChanges]
  <2>1. /\ cleanOp' \in Cleanups /\ cleanOp'.pc = "dispose" /\ cleanOp'.nodes = cleanOp.nodes
        /\ cleanOp'.held = cleanOp.held /\ cleanOp'.pending = cleanOp.pending
        /\ cleanOp'.failures = cleanOp.failures /\ cleanOp'.looked = cleanChanges
    BY <1>1, <1>3 DEF Cleanups, Deleting
  <2>2. CleanRoot' = CleanRoot
    BY <1>1 DEF CleanRoot, L!Action
  <2>3. HeldInv'
    BY <1>1, <2>1, <2>2 DEF CleanupInv, HeldInv
  <2>4. RootInv'
    BY <1>1, <2>1, <2>2 DEF CleanupInv, RootInv, Deleting, L!Objects
  <2>5. LookInv'
    BY <1>1, <1>3, <2>1 DEF LookInv, L!SameNode
  <2>6. L!TypeOK'
    BY <1>1 DEF CleanupInv, L!TypeOK
  <2>7. QED
    BY <2>3, <2>4, <2>5, <2>6 DEF CleanupInv
<1>4. QED
  BY <1>2, <1>3 DEF L!Validate

\* A deletion, and one that the file system refuses.
LEMMA CleanupDisposeInv ==
    ASSUME CleanupInv, L!Dispose
    PROVE  CleanupInv'
<1>1. /\ cleanOp.pc \in Deleting /\ cleanOp.held # <<>>
      /\ UNCHANGED <<linked, reparse, busy, late, cleanResults, cleanChanges>>
  BY CleanupShape DEF L!Dispose, Deleting, CleanupInv, HeldInv, LookInv
<1>2. \/ UNCHANGED place /\ cleanOp' = L!Passed(1)
      \/ /\ place' = [place EXCEPT ![L!Last(cleanOp.nodes).object] = None]
         /\ cleanOp' = L!Passed(0)
  BY DEF L!Dispose
<1>3. QED
  BY <1>1, <1>2, PassedInv

\* The end of an action.
LEMMA CleanupFinishInv ==
    ASSUME CleanupInv, L!Finish
    PROVE  CleanupInv'
<1>1. /\ cleanOp \in Cleanups /\ cleanOp.deleted \in Nat
      /\ Len(cleanResults) < Len(L!Actions)
  BY CleanupShape DEF L!Finish, Deleting, CleanupInv, HeldInv
<1>2. UNCHANGED <<place, linked, reparse, busy, late, cleanChanges>>
  BY DEF L!Finish, L!disk
<1>3. L!Conclude("completed", cleanOp.deleted) \/ L!Conclude("failed", 0)
  BY DEF L!Finish
<1>4. QED
  BY <1>1, <1>2, <1>3, ConcludeInv

\* Other programs can neither move what is held nor take it from its place.
LEMMA CleanupOtherInv ==
    ASSUME CleanupInv, L!OtherProgram
    PROVE  CleanupInv'
<1>1. UNCHANGED <<cleanOp, cleanResults>> /\ cleanChanges \in Nat
      /\ cleanChanges' = cleanChanges + 1
  BY DEF L!OtherProgram, CleanupInv, L!TypeOK
<1>2. CleanRoot' = CleanRoot
  BY <1>1 DEF CleanRoot, L!Action
<1>3. /\ place' \in [L!Objects -> {None, "elsewhere"} \cup L!Roots \cup Dirs]
      /\ linked' \subseteq Files /\ reparse' \subseteq Dirs /\ busy' \subseteq L!Objects
      /\ late' \subseteq L!Objects
  BY DEF L!OtherProgram, L!Put, L!Erase, CleanupInv, L!TypeOK
<1>4. L!TypeOK'
  BY <1>1, <1>3 DEF CleanupInv, L!TypeOK
<1>5. \A o \in late' : o \in late \/ o \notin L!Held
  BY DEF L!OtherProgram, L!Put, L!Erase
<1>6. ASSUME cleanOp \in Cleanups, NEW i \in 1 .. Len(cleanOp.nodes)
      PROVE  cleanOp.nodes[i].object \in L!Held
  <2>1. /\ cleanOp.held \in Seq(L!Objects) /\ Len(cleanOp.held) = Len(cleanOp.nodes)
        /\ cleanOp.held[i] = cleanOp.nodes[i].object
        /\ cleanOp.pc # "idle"
    BY <1>6 DEF CleanupInv, HeldInv, Cleanups, Deleting
  <2>2. i \in DOMAIN cleanOp.held
    BY <1>6, <2>1
  <2>3. QED
    BY <2>1, <2>2 DEF L!Held, L!ToSet
<1>7. HeldInv'
  BY <1>1, <1>2, <1>5, <1>6 DEF CleanupInv, HeldInv
<1>8. \A o \in L!Objects \ late' : o \notin late /\ (place'[o] # place[o] => place'[o] = None)
  BY DEF L!OtherProgram, L!Put, L!Erase, CleanupInv, L!TypeOK
<1>9. RootInv'
  <2>1. SUFFICES ASSUME cleanOp \in Cleanups, cleanOp.pc \in Deleting,
                        cleanOp.failures = 0, NEW o \in L!Objects \ late',
                        place'[o] = CleanRoot
                 PROVE  \E j \in 1 .. Len(cleanOp.nodes) : cleanOp.nodes[j].object = o
    BY <1>1, <1>2 DEF RootInv, L!Objects
  <2>2. CleanRoot # None
    BY <2>1, CleanupAssumption DEF CleanupInv, HeldInv
  <2>3. o \notin late /\ place[o] = CleanRoot
    BY <1>8, <2>1, <2>2
  <2>4. QED
    BY <2>1, <2>3 DEF CleanupInv, RootInv
<1>10. \A o \in L!Held \cap L!Objects : place'[o] = place[o]
  BY DEF L!OtherProgram, L!Put, L!Erase, CleanupInv, L!TypeOK
<1>11. LookInv'
  <2>1. SUFFICES ASSUME cleanOp \in Cleanups, cleanOp.pc = "dispose"
                 PROVE  /\ cleanOp.held # <<>> /\ cleanOp.looked < cleanChanges'
                        /\ place'[L!Last(cleanOp.nodes).object] = L!Last(cleanOp.nodes).parent
    BY <1>1 DEF LookInv, Cleanups
  <2>2. /\ cleanOp.held # <<>> /\ cleanOp.looked <= cleanChanges
        /\ place[L!Last(cleanOp.nodes).object] = L!Last(cleanOp.nodes).parent
    BY <2>1 DEF CleanupInv, LookInv
  <2>3. cleanOp.looked < cleanChanges'
    BY <1>1, <2>1, <2>2 DEF Cleanups
  <2>4. /\ Len(cleanOp.nodes) \in 1 .. Len(cleanOp.nodes)
        /\ L!Last(cleanOp.nodes) \in AnyNode
    <3>1. /\ cleanOp.held \in Seq(L!Objects) /\ cleanOp.nodes \in Seq(AnyNode)
          /\ Len(cleanOp.held) = Len(cleanOp.nodes)
      BY <2>1 DEF CleanupInv, HeldInv, Cleanups
    <3>2. QED
      BY <2>2, <3>1 DEF L!Last
  <2>5. L!Last(cleanOp.nodes).object \in L!Held \cap L!Objects
    BY <1>6, <2>1, <2>4 DEF L!Last, AnyNode, NodesBelow
  <2>6. QED
    BY <1>10, <2>2, <2>3, <2>5
<1>12. QED
  BY <1>4, <1>7, <1>9, <1>11 DEF CleanupInv

\* Every step of a cleanup keeps its invariant.
LEMMA CleanupStep ==
    ASSUME CleanupInv, L!Next \/ UNCHANGED cleanupVars
    PROVE  CleanupInv'
<1>1. CASE UNCHANGED cleanupVars
  BY <1>1 DEF cleanupVars, CleanupInv, L!TypeOK, HeldInv, RootInv, LookInv,
        CleanRoot, L!Action, L!Objects
<1>2. QED
  BY <1>1, CleanupStartInv, CleanupOpenInv, CleanupRecheckInv, CleanupValidateInv,
     CleanupDisposeInv, CleanupFinishInv, CleanupOtherInv DEF L!Next, L!Steps

\* A step of the suite is a step of the cleanup or leaves it alone.
LEMMA CleanupPart ==
    ASSUME [PartsNext]_allVars
    PROVE  L!Next \/ UNCHANGED cleanupVars
  BY DEF PartsNext, allVars

\* The invariant of the cleanup holds in every reachable state.
THEOREM CleanupInvariant == PartsSpec => []CleanupInv
<1>1. PartsInit => CleanupInv
  BY CleanupInit DEF PartsInit
<1>2. CleanupInv /\ [PartsNext]_allVars => CleanupInv'
  BY CleanupPart, CleanupStep
<1>3. QED
  BY <1>1, <1>2, PTL DEF PartsSpec

\* What a step of the cleanup may delete.
DeletesSeen ==
    cleanChanges' = cleanChanges =>
        \A o \in L!Objects : place[o] # None /\ place'[o] = None =>
            /\ o \notin late /\ place[o] \in {L!RootOf[L!Action]} \cup L!Nodes
            /\ o \in linked \cup reparse => cleanOp.looked < cleanChanges

\* Only Dispose deletes, and only the object of the last handle.
LEMMA DeletesSeenStep ==
    ASSUME CleanupInv, L!Next
    PROVE  DeletesSeen
<1> SUFFICES ASSUME cleanChanges' = cleanChanges, NEW o \in L!Objects, place[o] # None,
                    place'[o] = None
             PROVE  /\ o \notin late /\ place[o] \in {L!RootOf[L!Action]} \cup L!Nodes
                    /\ o \in linked \cup reparse => cleanOp.looked < cleanChanges
  BY DEF DeletesSeen
<1>1. L!Dispose
  <2>1. ~L!OtherProgram
    BY DEF L!OtherProgram, CleanupInv, L!TypeOK
  <2>2. QED
    BY <2>1 DEF L!Next, L!Steps, L!Call, L!Begin, L!Open, L!Opened, L!Recheck, L!Validate,
       L!Finish, L!disk
<1> DEFINE n == L!Last(cleanOp.nodes)
           k == Len(cleanOp.nodes)
<1>2. /\ cleanOp \in Cleanups /\ cleanOp.pc = "dispose" /\ cleanOp.nodes \in Seq(AnyNode)
      /\ cleanOp.held \in Seq(L!Objects)
  BY <1>1, CleanupShape DEF L!Dispose, Deleting, CleanupInv, HeldInv
<1>3. /\ cleanOp.held # <<>> /\ place[n.object] = n.parent
      /\ n.object \in linked \cup reparse => cleanOp.looked < cleanChanges
  BY <1>2 DEF CleanupInv, LookInv
<1>4. Len(cleanOp.held) = k /\ k \in Nat /\ k > 0
  BY <1>2, <1>3 DEF CleanupInv, HeldInv
<1>5. n = cleanOp.nodes[k] /\ k \in 1 .. k /\ DOMAIN cleanOp.nodes = 1 .. k
  BY <1>2, <1>4 DEF L!Last
<1>6. o = n.object
  BY <1>1 DEF L!Dispose, CleanupInv, L!TypeOK
<1> HIDE DEF n
<1>7. n.object \notin late
      /\ \/ n.parent = CleanRoot
         \/ \E j \in 1 .. k : cleanOp.nodes[j].object = n.parent
  BY <1>2, <1>5 DEF CleanupInv, HeldInv
<1>8. n.parent = CleanRoot \/ n.parent \in L!Nodes
  BY <1>5, <1>7 DEF L!Nodes
<1>9. QED
  BY <1>3, <1>6, <1>7, <1>8 DEF CleanRoot

\* Whatever the tree, and whatever other programs create, move, link or replace
\* while it runs, the cleanup deletes only what it found below its root; a second
\* name or a reparse point that goes is younger than the last look at the object.
THEOREM DeletesOnlyTheSeen == PartsSpec => DeletesOnlySeen
<1>1. CleanupInv /\ [PartsNext]_allVars => [DeletesSeen]_(L!vars)
  <2>1. SUFFICES ASSUME CleanupInv, [PartsNext]_allVars PROVE [DeletesSeen]_(L!vars)
    OBVIOUS
  <2>2. CASE L!Next
    BY <2>1, <2>2, DeletesSeenStep
  <2>3. CASE UNCHANGED cleanupVars
    BY <2>3 DEF cleanupVars, L!vars, L!disk
  <2>4. QED
    BY <2>1, <2>2, <2>3, CleanupPart
<1>2. QED
  BY <1>1, CleanupInvariant, PTL
     DEF PartsSpec, DeletesOnlySeen, L!DeletesOnlySeen, DeletesSeen

\* What a report of completion says of the root.
ReportsTruth ==
    Len(cleanResults') > Len(cleanResults) /\ L!Action \in DOMAIN L!RootOf =>
        (L!Last(cleanResults').outcome = "completed" =>
            \A o \in L!Objects \ late : place[o] # L!RootOf[L!Action])

\* The outcome of an action is the one it ends with.
LEMMA ConcludedOutcome ==
    ASSUME CleanupInv, NEW outcome, NEW n, L!Conclude(outcome, n)
    PROVE  L!Last(cleanResults').outcome = outcome
<1> DEFINE r == [action |-> L!Action, outcome |-> outcome, items |-> n]
<1>1. cleanResults \in Seq(L!Results) /\ cleanResults' = Append(cleanResults, r)
  BY DEF L!Conclude, CleanupInv, L!TypeOK
<1>2. r.outcome = outcome
  OBVIOUS
<1> HIDE DEF r
<1>3. Len(cleanResults') = Len(cleanResults) + 1 /\ cleanResults'[Len(cleanResults) + 1] = r
  BY <1>1
<1>4. QED
  BY <1>2, <1>3 DEF L!Last

\* Only the end of a deletion without failures reports completion of a root.
LEMMA ReportsTruthStep ==
    ASSUME CleanupInv, L!Next
    PROVE  ReportsTruth
<1> SUFFICES ASSUME Len(cleanResults') > Len(cleanResults), L!Action \in DOMAIN L!RootOf,
                    L!Last(cleanResults').outcome = "completed",
                    NEW o \in L!Objects \ late
             PROVE  place[o] # CleanRoot
  BY DEF ReportsTruth, CleanRoot
<1>1. cleanResults' # cleanResults
  <2>1. Len(cleanResults) \in Nat
    BY DEF CleanupInv, L!TypeOK
  <2>2. QED
    BY <2>1
<1>2. ~L!Conclude("failed", 0)
  BY ConcludedOutcome
<1>3. L!Finish /\ cleanOp.failures = 0
  BY <1>1, <1>2 DEF L!Next, L!Steps, L!Call, L!Begin, L!Open, L!Opened, L!Recheck, L!Validate,
     L!Dispose, L!Finish, L!OtherProgram
<1>4. /\ cleanOp \in Cleanups /\ cleanOp.pc = "delete" /\ cleanOp.held = <<>>
      /\ Len(cleanOp.held) = Len(cleanOp.nodes)
  BY <1>3, CleanupShape DEF L!Finish, Deleting, CleanupInv, HeldInv
<1>5. 1 .. Len(cleanOp.nodes) = {}
  BY <1>4
<1>6. QED
  BY <1>3, <1>4, <1>5 DEF CleanupInv, RootInv, Deleting

\* A cleanup that reports completion has emptied its root of all that was there
\* when it was opened, for any tree and any interference.
THEOREM ReportsAreTrue == PartsSpec => ReportTrue
<1>1. CleanupInv /\ [PartsNext]_allVars => [ReportsTruth]_(L!vars)
  <2>1. SUFFICES ASSUME CleanupInv, [PartsNext]_allVars PROVE [ReportsTruth]_(L!vars)
    OBVIOUS
  <2>2. CASE L!Next
    BY <2>1, <2>2, ReportsTruthStep
  <2>3. CASE UNCHANGED cleanupVars
    BY <2>3 DEF cleanupVars, L!vars, L!disk
  <2>4. QED
    BY <2>1, <2>2, <2>3, CleanupPart
<1>2. QED
  BY <1>1, CleanupInvariant, PTL DEF PartsSpec, ReportTrue, L!ReportTrue, ReportsTruth

-----------------------------------------------------------------------------
(* The configuration files of CS2 *)

\* The commands, with what each carries.
ConfigRuns == [pc : {"apply"}, entry : C!Entries, at : Nat \ {0}]
ConfigRestores == [pc : {"restore"}, chosen : SUBSET {C!Main, C!Extra}, next : Nat,
                   at : Nat \ {0}, kept : SUBSET Nat]
ConfigOps == [pc : {"idle"}] \cup ConfigRuns \cup ConfigRestores

\* An application works on an entry that is in the backup, a restore on the
\* entries from the last one down.
ConfigCommandInv ==
    /\ cfgOp \in ConfigOps
    /\ cfgOp \in ConfigRuns =>
          \E k \in DOMAIN cfgBackup : C!SameIdentity(cfgBackup[k], cfgOp.entry)
    /\ cfgOp \in ConfigRestores =>
          cfgOp.next <= Len(cfgBackup) /\ cfgOp.kept \subseteq DOMAIN cfgBackup

\* The entries of a backup b about file t of installation i, and content that was
\* there before the suite came.
About(b, i, t) == {k \in DOMAIN b : C!Covers(b[k], i, t)}
OfUser(c) == c.by \in {"nobody", "user"}

\* If the file has such content c, one of the entries about it records it.
Found(b, c, i, t) ==
    OfUser(c) /\ About(b, i, t) # {} => \E k \in About(b, i, t) : b[k].original[t] = c

\* The entries that record such content agree, and the first of all entries about
\* the file is one of them.
Agree(b, i, t) ==
    \A k \in About(b, i, t) : OfUser(b[k].original[t]) =>
        \A l \in About(b, i, t) :
            /\ OfUser(b[l].original[t]) => b[l].original[t] = b[k].original[t]
            /\ (\A m \in About(b, i, t) : l <= m) => OfUser(b[l].original[t])

\* The command o, if it is a restore, has not passed entry k for good.
Remains(b, o, k, t) ==
    o \in ConfigRestores =>
        \/ k < o.next \/ k \in o.kept
        \/ k = o.next /\ \A j \in 1 .. o.at - 1 : b[k].targets[j] # t

\* What the suite owes, w, is recorded by an entry that remains.
Recorded(b, o, w, i, t) ==
    w # None => \E k \in About(b, i, t) : b[k].original[t] = w /\ Remains(b, o, k, t)

FilesInv ==
    \A i \in Installs, t \in C!Targets :
        /\ Found(cfgBackup, cfgFiles[i][t], i, t)
        /\ Agree(cfgBackup, i, t)
        /\ Recorded(cfgBackup, cfgOp, owed[i][t], i, t)

\* Nothing is claimed once a restore has separated entries that share a file.
ConfigInv == C!TypeOK /\ ConfigCommandInv /\ (uneven \/ FilesInv)

\* What a command carries, told by where it is.
LEMMA ConfigShape ==
    ASSUME cfgOp \in ConfigOps
    PROVE  /\ cfgOp.pc = "apply" => cfgOp \in ConfigRuns
           /\ cfgOp.pc = "restore" => cfgOp \in ConfigRestores
  BY DEF ConfigOps, ConfigRuns, ConfigRestores

\* The kinds of commands exclude each other.
LEMMA ConfigKinds ==
    /\ C!Idle \in ConfigOps /\ C!Idle \notin ConfigRuns /\ C!Idle \notin ConfigRestores
    /\ \A o \in ConfigRuns : o \in ConfigOps /\ o \notin ConfigRestores
    /\ \A o \in ConfigRestores : o \in ConfigOps /\ o \notin ConfigRuns
  BY DEF ConfigOps, ConfigRuns, ConfigRestores, C!Idle

\* The invariant holds at the start.
LEMMA ConfigInit == C!Init => ConfigInv
<1> SUFFICES ASSUME C!Init PROVE ConfigInv
  OBVIOUS
<1>1. C!Absent \in C!Contents /\ C!User(0) \in C!Contents
  BY DEF C!Absent, C!User, C!Contents
<1>2. cfgFiles \in [Installs -> [C!Targets -> C!Contents]] /\ bak \in [Installs -> C!Contents]
  BY <1>1 DEF C!Init
<1>3. install \in Installs
  BY ConfigAssumption DEF C!Init
<1>4. cfgBackup = <<>> /\ cfgBackup \in Seq(C!Entries) /\ DOMAIN cfgBackup = {}
  BY DEF C!Init
<1>5. uneven \in BOOLEAN
  BY Zenon DEF C!Init
<1>6. C!TypeOK
  BY <1>2, <1>3, <1>4, <1>5 DEF C!Init, C!TypeOK
<1>7. \A i \in Installs, t \in C!Targets : About(cfgBackup, i, t) = {} /\ owed[i][t] = None
  BY <1>4 DEF About, C!Init
<1>8. FilesInv
  BY <1>7 DEF FilesInv, Found, Agree, Recorded
<1>9. QED
  BY <1>6, <1>8, ConfigKinds DEF ConfigInv, ConfigCommandInv, C!Init

\* Steps that change no file and no entry, and pass none for good.
LEMMA FilesUntouched ==
    ASSUME ConfigInv, UNCHANGED <<cfgFiles, owed, cfgBackup, uneven>>,
           \A i \in Installs, t \in C!Targets : \A k \in About(cfgBackup, i, t) :
              Remains(cfgBackup, cfgOp, k, t) => Remains(cfgBackup, cfgOp', k, t)
    PROVE  uneven' \/ FilesInv'
<1> SUFFICES ASSUME ~uneven, NEW i \in Installs, NEW t \in C!Targets
             PROVE  /\ Found(cfgBackup, cfgFiles[i][t], i, t)
                    /\ Agree(cfgBackup, i, t)
                    /\ Recorded(cfgBackup, cfgOp', owed[i][t], i, t)
  BY DEF FilesInv, Found, Agree, Recorded, About
<1>1. /\ Found(cfgBackup, cfgFiles[i][t], i, t) /\ Agree(cfgBackup, i, t)
      /\ Recorded(cfgBackup, cfgOp, owed[i][t], i, t)
  BY DEF ConfigInv, FilesInv
<1>2. QED
  BY <1>1 DEF Recorded

\* The steps that end a command, and what happens around the program.
LEMMA ConfigIdleInv ==
    ASSUME ConfigInv,
           \/ C!ApplyVerify \/ C!Crash \/ C!InstallMoves \/ C!MinutePasses
           \/ C!WriteFails /\ cfgOp' = C!Idle
    PROVE  ConfigInv'
<1> USE DEF C!disk, C!bounds, C!history
<1>1. UNCHANGED <<cfgFiles, bak, cfgBackup, owed, uneven>>
  BY DEF C!ApplyVerify, C!Crash, C!InstallMoves, C!MinutePasses, C!WriteFails
<1>2. install' \in {None} \cup Installs /\ minute' \in Nat /\ cfgChanges' \in Nat
  BY DEF C!ApplyVerify, C!Crash, C!InstallMoves, C!MinutePasses, C!WriteFails, ConfigInv,
     C!TypeOK
<1>3. C!TypeOK'
  BY <1>1, <1>2 DEF ConfigInv, C!TypeOK
<1>4. cfgOp' = cfgOp \/ cfgOp' = C!Idle
  BY DEF C!ApplyVerify, C!Crash, C!InstallMoves, C!MinutePasses, C!WriteFails
<1>5. ConfigCommandInv'
  <2>1. CASE cfgOp' = C!Idle
    BY <2>1, ConfigKinds DEF ConfigCommandInv
  <2>2. CASE cfgOp' = cfgOp
    BY <1>1, <2>2 DEF ConfigInv, ConfigCommandInv, C!SameIdentity
  <2>3. QED
    BY <1>4, <2>1, <2>2
<1>6. \A i \in Installs, t \in C!Targets : \A k \in About(cfgBackup, i, t) :
         Remains(cfgBackup, cfgOp, k, t) => Remains(cfgBackup, cfgOp', k, t)
  BY <1>4, ConfigKinds DEF Remains
<1>7. QED
  BY <1>1, <1>3, <1>5, <1>6, FilesUntouched DEF ConfigInv

\* The files of an entry that is captured.
LEMMA CapturedTargets ==
    /\ C!ForRequest \in Seq(C!Targets)
    /\ \A assets \in SUBSET Optional : C!SetToSeq(assets) \in Seq(C!Targets)
<1>1. C!ForRequest \in Seq(C!Targets)
  <2>1. Legacy \in Seq(C!Targets) /\ <<"optimization">> \in Seq(C!Targets)
    BY ConfigAssumption DEF C!Targets
  <2>2. QED
    BY <2>1 DEF C!ForRequest
<1>2. ASSUME NEW T \in SUBSET Optional PROVE C!SetToSeq(T) \in Seq(C!Targets)
  <2>1. IsFiniteSet(T)
    BY FS_Subset, ConfigAssumption
  <2>2. C!SetToSeq(T) = CHOOSE f \in [1 .. Cardinality(T) -> T] : C!IsInjective(f)
    BY DEF C!SetToSeq, C!Cardinality, Cardinality
  <2>3. PICK f \in [1 .. Cardinality(T) -> T] : \A x, y \in DOMAIN f : f[x] = f[y] => x = y
    BY <2>1, EnumerationExists
  <2>4. C!IsInjective(f)
    BY <2>3 DEF C!IsInjective
  <2>5. C!SetToSeq(T) \in [1 .. Cardinality(T) -> T]
    BY <2>2, <2>3, <2>4
  <2>6. Cardinality(T) \in Nat
    BY <2>1, EnumerationExists
  <2>7. T \subseteq C!Targets
    BY DEF C!Targets
  <2>8. QED
    BY <2>5, <2>6, <2>7
<1>3. QED
  BY <1>1, <1>2

\* A snapshot is an entry that records what is there.
LEMMA SnapshotEntry ==
    ASSUME C!TypeOK, install # None, NEW step \in {C!Main, C!Extra},
           NEW targets \in Seq(C!Targets)
    PROVE  LET e == C!Snapshot(step, targets)
           IN  /\ e \in C!Entries /\ e.install = install /\ e.targets = targets
               /\ e.install \in Installs
               /\ \A t \in C!ToSet(targets) :
                     t \in C!Targets /\ e.original[t] = cfgFiles[install][t]
<1> DEFINE orig == [t \in C!Targets |-> IF t \in C!ToSet(targets) THEN cfgFiles[install][t]
                                         ELSE None]
           e == C!Snapshot(step, targets)
<1>1. install \in Installs /\ minute \in Nat
      /\ cfgFiles[install] \in [C!Targets -> C!Contents]
  BY DEF C!TypeOK
<1>2. C!ToSet(targets) \subseteq C!Targets
  BY DEF C!ToSet
<1>3. e = [step |-> step, install |-> install, targets |-> targets, minute |-> minute,
           original |-> orig]
  BY DEF C!Snapshot
<1>4. orig \in [C!Targets -> {None} \cup C!Contents]
      /\ \A t \in C!ToSet(targets) : orig[t] = cfgFiles[install][t] /\ orig[t] # None
  BY <1>1, <1>2, ConfigAssumption
<1> HIDE DEF orig, e
<1>5. e \in [step : {C!Main, C!Extra}, install : Installs, targets : Seq(C!Targets),
             minute : Nat, original : [C!Targets -> {None} \cup C!Contents]]
      /\ e.original = orig /\ e.targets = targets /\ e.install = install
  BY <1>1, <1>3, <1>4
<1>6. e \in C!Entries
  BY <1>4, <1>5 DEF C!Entries
<1>7. QED
  BY <1>1, <1>2, <1>4, <1>5, <1>6 DEF e

\* A new entry at the end of the backup agrees with those before it.
LEMMA FilesCaptured ==
    ASSUME NEW b \in Seq(C!Entries), NEW e \in C!Entries, NEW i, NEW t, NEW c, NEW w,
           NEW o, NEW p, p \notin ConfigRestores,
           Found(b, c, i, t), Agree(b, i, t), Recorded(b, o, w, i, t),
           C!Covers(e, i, t) => e.original[t] = c
    PROVE  LET n == Append(b, e)
           IN  Found(n, c, i, t) /\ Agree(n, i, t) /\ Recorded(n, p, w, i, t)
<1> DEFINE n == Append(b, e)
           z == Len(b) + 1
           old == About(b, i, t)
           new == About(n, i, t)
<1>1. /\ DOMAIN b = 1 .. Len(b) /\ Len(b) \in Nat /\ DOMAIN n = 1 .. z /\ n[z] = e
      /\ \A k \in DOMAIN b : n[k] = b[k] /\ k \in DOMAIN n /\ k < z
      /\ \A k \in DOMAIN n : k \in DOMAIN b \/ k = z
      /\ z \in DOMAIN n /\ z \notin DOMAIN b
  OBVIOUS
<1> HIDE DEF n, z
<1>2. /\ \A k \in new : k \in old \/ (k = z /\ C!Covers(e, i, t))
      /\ \A k \in old : k \in new /\ n[k] = b[k] /\ k < z /\ k \in Int
      /\ C!Covers(e, i, t) => z \in new
      /\ z \in Int
  BY <1>1 DEF About
<1>3. Agree(b, i, t) /\ Found(b, c, i, t) /\ Recorded(b, o, w, i, t)
  OBVIOUS
<1> DEFINE P(k) == n[k].original[t]
<1>4. \A k \in old : P(k) = b[k].original[t]
  BY <1>2
<1>5. z \in new => P(z) = c
  BY <1>1, <1>2 DEF About
<1>6. Found(n, c, i, t)
  <2>1. CASE old = {}
    BY <1>2, <1>5, <2>1 DEF Found
  <2>2. CASE old # {}
    BY <1>2, <1>3, <1>4, <2>2 DEF Found
  <2>3. QED
    BY <2>1, <2>2
<1>7. ASSUME NEW k \in new, OfUser(P(k)) PROVE old = {} \/ \E m \in old : OfUser(P(m)) /\ P(m) = P(k)
  <2>1. CASE k \in old
    BY <1>7, <2>1
  <2>2. CASE k = z
    BY <1>3, <1>4, <1>5, <1>7, <2>2 DEF Found
  <2>3. QED
    BY <1>2, <1>7, <2>1, <2>2
<1>8. ASSUME NEW k \in new, OfUser(P(k)), NEW l \in new, OfUser(P(l))
      PROVE  P(l) = P(k)
  <2>1. CASE old = {}
    BY <1>2, <1>8, <2>1
  <2>2. CASE old # {}
    <3>1. PICK m \in old : OfUser(P(m)) /\ P(m) = P(k)
      BY <1>7, <1>8, <2>2
    <3>2. PICK q \in old : OfUser(P(q)) /\ P(q) = P(l)
      BY <1>7, <1>8, <2>2
    <3>3. P(m) = P(q)
      BY <1>3, <1>4, <3>1, <3>2 DEF Agree
    <3>4. QED
      BY <3>1, <3>2, <3>3
  <2>3. QED
    BY <2>1, <2>2
<1>9. ASSUME NEW k \in new, OfUser(P(k)), NEW l \in new, \A m \in new : l <= m
      PROVE  OfUser(P(l))
  <2>1. CASE old = {}
    BY <1>2, <1>9, <2>1
  <2>2. CASE old # {}
    <3>1. PICK m \in old : OfUser(P(m))
      BY <1>7, <1>9, <2>2
    <3>2. l \in old
      BY <1>2, <1>9, <3>1
    <3>3. \A q \in old : l <= q
      BY <1>2, <1>9
    <3>4. QED
      BY <1>3, <1>4, <3>1, <3>2, <3>3 DEF Agree
  <2>3. QED
    BY <2>1, <2>2
<1>10. Agree(n, i, t)
  BY <1>8, <1>9 DEF Agree
<1>11. Recorded(n, p, w, i, t)
  BY <1>2, <1>3, <1>4 DEF Recorded, Remains
<1>12. QED
  BY <1>6, <1>10, <1>11 DEF n

\* A capture keeps the first entry of an identity or adds one.
LEMMA ConfigCaptureInv ==
    ASSUME ConfigInv, NEW step \in {C!Main, C!Extra}, NEW targets \in Seq(C!Targets),
           C!Capture(step, targets)
    PROVE  ConfigInv'
<1> USE DEF C!disk, C!history
<1> DEFINE e == C!Snapshot(step, targets)
<1>1. UNCHANGED <<cfgFiles, bak, install, minute, cfgChanges, owed, uneven>> /\ install # None
      /\ cfgOp' = [pc |-> "apply", entry |-> e, at |-> 1]
  BY DEF C!Capture
<1>2. /\ e \in C!Entries /\ e.install = install /\ e.install \in Installs /\ e.targets = targets
      /\ \A t \in C!ToSet(targets) : t \in C!Targets /\ e.original[t] = cfgFiles[install][t]
  BY <1>1, SnapshotEntry DEF ConfigInv
<1>3. cfgBackup' = IF \E k \in DOMAIN cfgBackup : C!SameIdentity(cfgBackup[k], e)
                   THEN cfgBackup ELSE Append(cfgBackup, e)
  BY DEF C!Capture, C!PushFirstValue
<1> HIDE DEF e
<1>4. cfgOp' \in ConfigRuns /\ cfgOp'.entry = e
  BY <1>1, <1>2 DEF ConfigRuns
<1>5. cfgBackup \in Seq(C!Entries)
  BY DEF ConfigInv, C!TypeOK
<1>6. C!SameIdentity(e, e)
  BY DEF C!SameIdentity
<1>7. CASE \E k \in DOMAIN cfgBackup : C!SameIdentity(cfgBackup[k], e)
  <2>1. cfgBackup' = cfgBackup
    BY <1>3, <1>7
  <2>2. C!TypeOK'
    BY <1>1, <2>1 DEF ConfigInv, C!TypeOK
  <2>3. ConfigCommandInv'
    BY <1>4, <1>7, <2>1, ConfigKinds DEF ConfigCommandInv, C!SameIdentity
  <2>4. \A i \in Installs, t \in C!Targets : \A k \in About(cfgBackup, i, t) :
           Remains(cfgBackup, cfgOp, k, t) => Remains(cfgBackup, cfgOp', k, t)
    BY <1>4, ConfigKinds DEF Remains
  <2>5. QED
    BY <1>1, <2>1, <2>2, <2>3, <2>4, FilesUntouched DEF ConfigInv
<1>8. CASE ~\E k \in DOMAIN cfgBackup : C!SameIdentity(cfgBackup[k], e)
  <2>1. cfgBackup' = Append(cfgBackup, e)
    BY <1>3, <1>8
  <2>2. /\ cfgBackup' \in Seq(C!Entries) /\ Len(cfgBackup) + 1 \in DOMAIN cfgBackup'
        /\ cfgBackup'[Len(cfgBackup) + 1] = e
    BY <1>2, <1>5, <2>1
  <2>3. C!TypeOK'
    BY <1>1, <2>2 DEF ConfigInv, C!TypeOK
  <2>4. ConfigCommandInv'
    BY <1>4, <1>6, <2>2, ConfigKinds DEF ConfigCommandInv, C!SameIdentity
  <2>5. ASSUME ~uneven, NEW i \in Installs, NEW t \in C!Targets
        PROVE  /\ Found(cfgBackup', cfgFiles[i][t], i, t) /\ Agree(cfgBackup', i, t)
               /\ Recorded(cfgBackup', cfgOp', owed[i][t], i, t)
    <3>1. /\ Found(cfgBackup, cfgFiles[i][t], i, t) /\ Agree(cfgBackup, i, t)
          /\ Recorded(cfgBackup, cfgOp, owed[i][t], i, t)
      BY <2>5 DEF ConfigInv, FilesInv
    <3>2. C!Covers(e, i, t) => e.original[t] = cfgFiles[i][t]
      BY <1>2 DEF C!Covers
    <3>3. cfgOp' \notin ConfigRestores
      BY <1>4, ConfigKinds
    <3>4. QED
      BY <1>2, <1>5, <2>1, <3>1, <3>2, <3>3, FilesCaptured
  <2>6. uneven' \/ FilesInv'
    BY <1>1, <2>5 DEF FilesInv
  <2>7. QED
    BY <2>3, <2>4, <2>6 DEF ConfigInv
<1>9. QED
  BY <1>7, <1>8

\* Replacing one file changes that file and what is owed for it.
LEMMA FileReplaced ==
    ASSUME C!TypeOK, NEW i \in Installs, NEW t \in C!Targets, NEW c \in C!Contents,
           C!Replace(i, t, c)
    PROVE  /\ cfgFiles' \in [Installs -> [C!Targets -> C!Contents]]
           /\ owed' \in [Installs -> [C!Targets -> {None} \cup C!Contents]]
           /\ cfgFiles'[i][t] = c
           /\ \A j \in Installs, u \in C!Targets : j # i \/ u # t =>
                 cfgFiles'[j][u] = cfgFiles[j][u] /\ owed'[j][u] = owed[j][u]
           /\ \/ owed'[i][t] = None
              \/ /\ OfUser(cfgFiles[i][t]) /\ cfgFiles[i][t] # c
                 /\ owed'[i][t] = cfgFiles[i][t]
              \/ owed'[i][t] = owed[i][t] /\ owed[i][t] # c
<1> DEFINE w == CASE c = owed[i][t] -> None
                  [] owed[i][t] = None /\ cfgFiles[i][t] # c
                     /\ cfgFiles[i][t].by \in {"nobody", "user"} -> cfgFiles[i][t]
                  [] OTHER -> owed[i][t]
<1>1. cfgFiles \in [Installs -> [C!Targets -> C!Contents]]
      /\ owed \in [Installs -> [C!Targets -> {None} \cup C!Contents]]
  BY DEF C!TypeOK
<1>2. /\ cfgFiles' = [cfgFiles EXCEPT ![i] = [cfgFiles[i] EXCEPT ![t] = c]]
      /\ owed' = [owed EXCEPT ![i] = [owed[i] EXCEPT ![t] = w]]
  BY <1>1 DEF C!Replace
<1>3. /\ \/ w = None
         \/ OfUser(cfgFiles[i][t]) /\ cfgFiles[i][t] # c /\ w = cfgFiles[i][t]
         \/ w = owed[i][t] /\ owed[i][t] # c
      /\ w \in {None} \cup C!Contents
  <2>1. None # c
    BY ConfigAssumption
  <2>2. owed[i][t] \in {None} \cup C!Contents /\ cfgFiles[i][t] \in C!Contents
    BY <1>1
  <2>3. CASE c = owed[i][t]
    BY <2>1, <2>3
  <2>4. CASE c # owed[i][t]
    BY <2>2, <2>4 DEF OfUser
  <2>5. QED
    BY <2>3, <2>4
<1> HIDE DEF w
<1>4. [cfgFiles[i] EXCEPT ![t] = c] \in [C!Targets -> C!Contents]
      /\ [owed[i] EXCEPT ![t] = w] \in [C!Targets -> {None} \cup C!Contents]
  BY <1>1, <1>3
<1>5. /\ cfgFiles' \in [Installs -> [C!Targets -> C!Contents]]
      /\ owed' \in [Installs -> [C!Targets -> {None} \cup C!Contents]]
  BY <1>1, <1>2, <1>4
<1>6. cfgFiles'[i] = [cfgFiles[i] EXCEPT ![t] = c] /\ owed'[i] = [owed[i] EXCEPT ![t] = w]
      /\ \A j \in Installs : j # i => cfgFiles'[j] = cfgFiles[j] /\ owed'[j] = owed[j]
  BY <1>1, <1>2
<1>7. cfgFiles'[i][t] = c /\ owed'[i][t] = w
      /\ \A u \in C!Targets : u # t =>
            cfgFiles'[i][u] = cfgFiles[i][u] /\ owed'[i][u] = owed[i][u]
  BY <1>1, <1>6
<1>8. QED
  BY <1>3, <1>5, <1>6, <1>7

\* What an application writes is not the user's, and what it replaces is in the
\* backup.
LEMMA ConfigApplyInv ==
    ASSUME ConfigInv, C!ApplyWrite
    PROVE  ConfigInv'
<1> USE DEF C!disk, C!bounds, C!history
<1> DEFINE e == cfgOp.entry
           i == e.install
           t == e.targets[cfgOp.at]
           c == C!Wanted(e, t)
<1>1. /\ cfgOp \in ConfigRuns /\ e \in C!Entries /\ cfgOp.at \in Nat \ {0}
      /\ cfgOp.at <= Len(e.targets)
  BY ConfigShape DEF C!ApplyWrite, ConfigInv, ConfigCommandInv, ConfigRuns
<1>2. UNCHANGED <<install, minute, cfgBackup, cfgChanges, uneven>>
  BY DEF C!ApplyWrite
<1>3. CASE cfgOp' = C!Idle /\ UNCHANGED <<cfgFiles, bak, owed>>
  <2>1. C!TypeOK'
    BY <1>2, <1>3 DEF ConfigInv, C!TypeOK
  <2>2. ConfigCommandInv'
    BY <1>3, ConfigKinds DEF ConfigCommandInv
  <2>3. \A j \in Installs, u \in C!Targets : \A k \in About(cfgBackup, j, u) :
           Remains(cfgBackup, cfgOp, k, u) => Remains(cfgBackup, cfgOp', k, u)
    BY <1>3, ConfigKinds DEF Remains
  <2>4. QED
    BY <1>2, <1>3, <2>1, <2>2, <2>3, FilesUntouched DEF ConfigInv
<1>4. CASE /\ C!Replace(i, t, c)
           /\ C!CopyOptimization(i) \/ UNCHANGED bak
           /\ cfgOp' = [cfgOp EXCEPT !.at = cfgOp.at + 1]
  <2>1. /\ i \in Installs /\ e.targets \in Seq(C!Targets) /\ e.minute \in Nat
    BY <1>1 DEF C!Entries
  <2>2. t \in C!Targets /\ t \in C!ToSet(e.targets)
    BY <1>1, <2>1 DEF C!ToSet
  <2>3. c \in C!Contents /\ ~OfUser(c)
    BY <2>1, <2>2, ConfigAssumption DEF C!Wanted, C!Suite, C!Contents, OfUser
  <2>4. PICK k \in DOMAIN cfgBackup : C!SameIdentity(cfgBackup[k], e)
    BY <1>1 DEF ConfigInv, ConfigCommandInv
  <2>5. k \in About(cfgBackup, i, t)
    BY <2>2, <2>4 DEF About, C!Covers, C!SameIdentity
  <2>6. cfgOp' \in ConfigRuns /\ cfgOp'.entry = e
    BY <1>1, <1>4 DEF ConfigRuns
  <2>7. bak' \in [Installs -> C!Contents]
    <3>1. "optimization" \in C!Targets
      BY DEF C!Targets
    <3>2. cfgFiles[i]["optimization"] \in C!Contents
      BY <2>1, <3>1 DEF ConfigInv, C!TypeOK
    <3>3. QED
      BY <1>4, <2>1, <3>2 DEF C!CopyOptimization, ConfigInv, C!TypeOK
  <2> HIDE DEF e, i, t, c
  <2>8. /\ cfgFiles' \in [Installs -> [C!Targets -> C!Contents]]
        /\ owed' \in [Installs -> [C!Targets -> {None} \cup C!Contents]]
        /\ cfgFiles'[i][t] = c
        /\ \A j \in Installs, u \in C!Targets : j # i \/ u # t =>
              cfgFiles'[j][u] = cfgFiles[j][u] /\ owed'[j][u] = owed[j][u]
        /\ \/ owed'[i][t] = None
           \/ /\ OfUser(cfgFiles[i][t]) /\ owed'[i][t] = cfgFiles[i][t]
           \/ owed'[i][t] = owed[i][t]
    BY <1>4, <2>1, <2>2, <2>3, FileReplaced DEF ConfigInv
  <2>9. C!TypeOK'
    BY <1>2, <2>7, <2>8 DEF ConfigInv, C!TypeOK
  <2>10. ConfigCommandInv'
    BY <1>2, <2>4, <2>6, ConfigKinds DEF ConfigCommandInv, C!SameIdentity
  <2>11. ASSUME ~uneven, NEW j \in Installs, NEW u \in C!Targets
         PROVE  /\ Found(cfgBackup, cfgFiles'[j][u], j, u) /\ Agree(cfgBackup, j, u)
                /\ Recorded(cfgBackup, cfgOp', owed'[j][u], j, u)
    <3>1. /\ Found(cfgBackup, cfgFiles[j][u], j, u) /\ Agree(cfgBackup, j, u)
          /\ Recorded(cfgBackup, cfgOp, owed[j][u], j, u)
      BY <2>11 DEF ConfigInv, FilesInv
    <3>2. \A m : Remains(cfgBackup, cfgOp', m, u)
      BY <2>6, ConfigKinds DEF Remains
    <3>3. CASE j # i \/ u # t
      BY <2>8, <2>11, <3>1, <3>2, <3>3 DEF Recorded
    <3>4. CASE j = i /\ u = t
      <4>1. Found(cfgBackup, cfgFiles'[j][u], j, u)
        BY <2>3, <2>8, <3>4 DEF Found
      <4>2. Recorded(cfgBackup, cfgOp', owed'[j][u], j, u)
        BY <2>5, <2>8, <3>1, <3>2, <3>4 DEF Recorded, Found
      <4>3. QED
        BY <3>1, <4>1, <4>2
    <3>5. QED
      BY <3>3, <3>4
  <2>12. uneven' \/ FilesInv'
    BY <1>2, <2>11 DEF FilesInv
  <2>13. QED
    BY <2>9, <2>10, <2>12 DEF ConfigInv
<1>5. QED
  BY <1>1, <1>3, <1>4 DEF C!ApplyWrite, ConfigRuns

\* The user's edits of files that entries are about count as edits.
LEMMA ConfigEditInv ==
    ASSUME ConfigInv, C!UserEdit
    PROVE  ConfigInv'
<1>1. UNCHANGED <<bak, install, minute, cfgBackup, cfgOp, owed, uneven>>
      /\ cfgChanges' \in Nat
  BY DEF C!UserEdit, C!history, ConfigInv, C!TypeOK
<1>2. PICK i \in Installs, t \in C!Targets :
        cfgFiles' = [cfgFiles EXCEPT ![i][t] =
                       IF \E k \in DOMAIN cfgBackup : C!Covers(cfgBackup[k], i, t)
                       THEN C!Edit(cfgChanges') ELSE C!User(cfgChanges')]
  BY DEF C!UserEdit
<1> DEFINE c == IF About(cfgBackup, i, t) # {} THEN C!Edit(cfgChanges') ELSE C!User(cfgChanges')
<1>3. cfgFiles' = [cfgFiles EXCEPT ![i] = [cfgFiles[i] EXCEPT ![t] = c]]
  BY <1>2 DEF About
<1>4. c \in C!Contents /\ (About(cfgBackup, i, t) # {} => ~OfUser(c))
  BY <1>1 DEF C!Edit, C!User, C!Contents, OfUser
<1> HIDE DEF c
<1>5. cfgFiles \in [Installs -> [C!Targets -> C!Contents]]
  BY DEF ConfigInv, C!TypeOK
<1>6. [cfgFiles[i] EXCEPT ![t] = c] \in [C!Targets -> C!Contents]
  BY <1>4, <1>5
<1>7. /\ cfgFiles' \in [Installs -> [C!Targets -> C!Contents]] /\ cfgFiles'[i][t] = c
      /\ \A j \in Installs, u \in C!Targets : j # i \/ u # t => cfgFiles'[j][u] = cfgFiles[j][u]
  BY <1>3, <1>5, <1>6
<1>8. C!TypeOK'
  BY <1>1, <1>7 DEF ConfigInv, C!TypeOK
<1>9. ConfigCommandInv'
  BY <1>1 DEF ConfigInv, ConfigCommandInv, C!SameIdentity
<1>10. ASSUME ~uneven, NEW j \in Installs, NEW u \in C!Targets
       PROVE  /\ Found(cfgBackup, cfgFiles'[j][u], j, u) /\ Agree(cfgBackup, j, u)
              /\ Recorded(cfgBackup, cfgOp, owed[j][u], j, u)
  <2>1. /\ Found(cfgBackup, cfgFiles[j][u], j, u) /\ Agree(cfgBackup, j, u)
        /\ Recorded(cfgBackup, cfgOp, owed[j][u], j, u)
    BY <1>10 DEF ConfigInv, FilesInv
  <2>2. Found(cfgBackup, cfgFiles'[j][u], j, u)
    BY <1>4, <1>7, <1>10, <2>1 DEF Found
  <2>3. QED
    BY <2>1, <2>2
<1>11. uneven' \/ FilesInv'
  BY <1>1, <1>10 DEF FilesInv
<1>12. QED
  BY <1>8, <1>9, <1>11 DEF ConfigInv

\* The steps of a restore that touch no file: where it starts, what it leaves in
\* the backup and an entry whose files are all back.
LEMMA ConfigWalkInv ==
    ASSUME ConfigInv,
           \/ C!Restore \/ C!RestoreRefuses \/ C!RestoredEntry
           \/ C!WriteFails /\ C!Restoring /\ C!Retain
    PROVE  ConfigInv'
<1> USE DEF C!disk, C!bounds, C!history
<1>1. UNCHANGED <<cfgFiles, bak, install, minute, cfgBackup, cfgChanges, owed, uneven>>
  BY DEF C!Restore, C!RestoreRefuses, C!RestoredEntry, C!WriteFails
<1>2. C!TypeOK'
  BY <1>1 DEF ConfigInv, C!TypeOK
<1>3. cfgBackup \in Seq(C!Entries) /\ DOMAIN cfgBackup = 1 .. Len(cfgBackup)
      /\ Len(cfgBackup) \in Nat
  BY DEF ConfigInv, C!TypeOK
<1>4. CASE C!Restore
  <2>1. PICK chosen \in {{C!Main, C!Extra}, {C!Main}, {C!Extra}} :
          cfgOp' = [pc |-> "restore", chosen |-> chosen, next |-> Len(cfgBackup), at |-> 1,
                    kept |-> {}]
    BY <1>4 DEF C!Restore
  <2>2. /\ cfgOp' \in ConfigRestores /\ cfgOp'.next = Len(cfgBackup) /\ cfgOp'.at = 1
        /\ cfgOp'.kept = {}
    BY <1>3, <2>1 DEF ConfigRestores
  <2>3. ConfigCommandInv'
    BY <1>1, <1>3, <2>2, ConfigKinds DEF ConfigCommandInv
  <2>4. \A k \in DOMAIN cfgBackup : \A t : Remains(cfgBackup, cfgOp', k, t)
    BY <1>3, <2>2 DEF Remains
  <2>5. \A i \in Installs, t \in C!Targets : \A k \in About(cfgBackup, i, t) :
           Remains(cfgBackup, cfgOp, k, t) => Remains(cfgBackup, cfgOp', k, t)
    BY <2>4 DEF About
  <2>6. QED
    BY <1>1, <1>2, <2>3, <2>5, FilesUntouched DEF ConfigInv
<1>5. ASSUME C!Restoring, NEW keep, keep = cfgOp.kept \/ keep = cfgOp.kept \cup {cfgOp.next},
             cfgOp' = [cfgOp EXCEPT !.next = cfgOp.next - 1, !.at = 1, !.kept = keep],
             cfgOp.next \in keep \/ cfgOp.at > Len(cfgBackup[cfgOp.next].targets)
      PROVE  ConfigInv'
  <2>1. /\ cfgOp \in ConfigRestores /\ cfgOp.next \in Nat /\ cfgOp.next > 0
        /\ cfgOp.next <= Len(cfgBackup) /\ cfgOp.kept \subseteq DOMAIN cfgBackup
        /\ cfgOp.at \in Nat \ {0}
    BY <1>5, ConfigShape DEF C!Restoring, ConfigInv, ConfigCommandInv, ConfigRestores
  <2>2. cfgOp.next \in DOMAIN cfgBackup /\ keep \subseteq DOMAIN cfgBackup
    BY <1>3, <1>5, <2>1
  <2>3. keep \subseteq Nat
    BY <1>3, <2>2
  <2>4. /\ cfgOp' \in ConfigRestores /\ cfgOp'.next = cfgOp.next - 1 /\ cfgOp'.at = 1
        /\ cfgOp'.kept = keep
    <3>1. cfgOp.next - 1 \in Nat /\ 1 \in Nat \ {0} /\ keep \in SUBSET Nat
      BY <2>1, <2>3
    <3>2. cfgOp = [pc |-> cfgOp.pc, chosen |-> cfgOp.chosen, next |-> cfgOp.next,
                   at |-> cfgOp.at, kept |-> cfgOp.kept]
          /\ cfgOp.pc = "restore" /\ cfgOp.chosen \in SUBSET {C!Main, C!Extra}
      BY <2>1 DEF ConfigRestores
    <3>3. cfgOp' = [pc |-> "restore", chosen |-> cfgOp.chosen, next |-> cfgOp.next - 1,
                    at |-> 1, kept |-> keep]
      BY <1>5, <3>2
    <3>4. QED
      BY <3>1, <3>2, <3>3 DEF ConfigRestores
  <2>5. ConfigCommandInv'
    BY <1>1, <1>3, <2>1, <2>2, <2>4, ConfigKinds DEF ConfigCommandInv
  <2>6. ASSUME NEW i \in Installs, NEW t \in C!Targets, NEW k \in About(cfgBackup, i, t),
               Remains(cfgBackup, cfgOp, k, t)
        PROVE  Remains(cfgBackup, cfgOp', k, t)
    <3>1. k \in DOMAIN cfgBackup /\ k \in Nat /\ t \in C!ToSet(cfgBackup[k].targets)
          /\ cfgBackup[k].targets \in Seq(C!Targets)
      BY <1>3, <2>6 DEF About, C!Covers, C!Entries
    <3>2. PICK j \in 1 .. Len(cfgBackup[k].targets) : cfgBackup[k].targets[j] = t
      BY <3>1 DEF C!ToSet
    <3>3. CASE k < cfgOp.next
      BY <2>1, <2>4, <3>1, <3>3 DEF Remains
    <3>4. CASE k \in cfgOp.kept
      BY <1>5, <2>4, <3>4 DEF Remains
    <3>5. CASE k = cfgOp.next /\ \A m \in 1 .. cfgOp.at - 1 : cfgBackup[k].targets[m] # t
      <4>1. ~(cfgOp.at > Len(cfgBackup[k].targets))
        BY <2>1, <3>1, <3>2, <3>5
      <4>2. k \in keep
        BY <1>5, <3>5, <4>1
      <4>3. QED
        BY <2>4, <4>2 DEF Remains
    <3>6. QED
      BY <2>1, <2>6, <3>3, <3>4, <3>5 DEF Remains
  <2>7. QED
    BY <1>1, <1>2, <2>5, <2>6, FilesUntouched DEF ConfigInv
<1>6. CASE C!RestoredEntry
  <2>1. cfgOp' = [cfgOp EXCEPT !.next = cfgOp.next - 1, !.at = 1, !.kept = cfgOp.kept]
    BY <1>6, ConfigShape DEF C!RestoredEntry, C!Restoring, ConfigInv, ConfigCommandInv,
       ConfigRestores
  <2>2. QED
    BY <1>5, <1>6, <2>1 DEF C!RestoredEntry, C!Current
<1>7. CASE C!Restoring /\ C!Retain
  <2>1. cfgOp' = [cfgOp EXCEPT !.next = cfgOp.next - 1, !.at = 1,
                               !.kept = cfgOp.kept \cup {cfgOp.next}]
    BY <1>7, ConfigShape DEF C!Retain, C!Restoring, ConfigInv, ConfigCommandInv,
       ConfigRestores
  <2>2. QED
    BY <1>5, <1>7, <2>1
<1>8. QED
  BY <1>4, <1>6, <1>7 DEF C!RestoreRefuses

\* Content of the user's that entry n does not record is recorded by one before it.
LEMMA RecordedBefore ==
    ASSUME NEW b \in Seq(C!Entries), NEW i, NEW t, NEW c, OfUser(c),
           Found(b, c, i, t), Agree(b, i, t),
           NEW n \in About(b, i, t), b[n].original[t] # c
    PROVE  \E k \in About(b, i, t) : k < n /\ b[k].original[t] = c
<1>1. About(b, i, t) \subseteq Nat
  BY DEF About
<1>2. PICK k \in About(b, i, t) : \A m \in About(b, i, t) : k <= m
  BY <1>1, LeastNumber
<1>3. PICK l \in About(b, i, t) : b[l].original[t] = c
  BY DEF Found
<1>4. OfUser(b[k].original[t])
  BY <1>2, <1>3 DEF Agree
<1>5. b[k].original[t] = c
  BY <1>3, <1>4 DEF Agree
<1>6. k < n
  BY <1>1, <1>2, <1>5
<1>7. QED
  BY <1>5, <1>6

\* A file that comes back is the original an entry recorded, and what it replaces
\* is still recorded by an entry that the restore has not passed.
LEMMA ConfigWriteBackInv ==
    ASSUME ConfigInv, C!RestoreWrite
    PROVE  ConfigInv'
<1> USE DEF C!bounds
<1> DEFINE n == cfgOp.next
           i == cfgBackup[n].install
           t == cfgBackup[n].targets[cfgOp.at]
           c == cfgBackup[n].original[t]
<1>1. UNCHANGED <<bak, install, minute, cfgBackup, cfgChanges, uneven>>
  BY DEF C!RestoreWrite
<1>2. /\ cfgOp \in ConfigRestores /\ n \in Nat /\ n > 0
      /\ n <= Len(cfgBackup) /\ cfgOp.kept \subseteq DOMAIN cfgBackup
      /\ cfgOp.at \in Nat \ {0} /\ cfgOp.at <= Len(cfgBackup[n].targets)
  BY ConfigShape DEF C!RestoreWrite, C!Restoring, C!Current, ConfigInv, ConfigCommandInv,
     ConfigRestores
<1>3. cfgBackup \in Seq(C!Entries) /\ DOMAIN cfgBackup = 1 .. Len(cfgBackup)
      /\ n \in DOMAIN cfgBackup
  BY <1>2 DEF ConfigInv, C!TypeOK
<1>4. cfgBackup[n] \in C!Entries
  BY <1>3
<1>5. /\ i \in Installs /\ cfgBackup[n].targets \in Seq(C!Targets)
      /\ cfgBackup[n].original \in [C!Targets -> {None} \cup C!Contents]
      /\ \A u \in C!ToSet(cfgBackup[n].targets) : cfgBackup[n].original[u] # None
  BY <1>4 DEF C!Entries
<1>6. t \in C!Targets /\ t \in C!ToSet(cfgBackup[n].targets)
  BY <1>2, <1>5 DEF C!ToSet
<1>7. c \in C!Contents /\ n \in About(cfgBackup, i, t)
  BY <1>3, <1>5, <1>6 DEF About, C!Covers
<1>8. C!Replace(i, t, c) /\ cfgOp' = [cfgOp EXCEPT !.at = cfgOp.at + 1]
  BY DEF C!RestoreWrite, C!Current
<1>9. /\ cfgOp' \in ConfigRestores /\ cfgOp'.next = n /\ cfgOp'.at = cfgOp.at + 1
      /\ cfgOp'.kept = cfgOp.kept
  BY <1>2, <1>8 DEF ConfigRestores
<1>10. \A k \in Int : \A u : (u # t \/ k # n) =>
          (Remains(cfgBackup, cfgOp, k, u) => Remains(cfgBackup, cfgOp', k, u))
  <2> SUFFICES ASSUME NEW k \in Int, NEW u, u # t \/ k # n,
                      Remains(cfgBackup, cfgOp, k, u)
               PROVE  Remains(cfgBackup, cfgOp', k, u)
    OBVIOUS
  <2>1. CASE k < n \/ k \in cfgOp.kept
    BY <1>9, <2>1 DEF Remains
  <2>2. CASE k = n /\ \A j \in 1 .. cfgOp.at - 1 : cfgBackup[k].targets[j] # u
    <3>1. \A j \in 1 .. cfgOp'.at - 1 : j \in 1 .. cfgOp.at - 1 \/ j = cfgOp.at
      BY <1>2, <1>9
    <3>2. \A j \in 1 .. cfgOp'.at - 1 : cfgBackup[k].targets[j] # u
      BY <2>2, <3>1
    <3>3. QED
      BY <1>9, <2>2, <3>2 DEF Remains
  <2>3. QED
    BY <1>2, <2>1, <2>2 DEF Remains
<1>11. \A k \in About(cfgBackup, i, t) : k < n => Remains(cfgBackup, cfgOp', k, t)
  BY <1>9 DEF Remains
<1>12. About(cfgBackup, i, t) \subseteq Int
  BY <1>3 DEF About
<1> HIDE DEF n, i, t, c
<1>13. /\ cfgFiles' \in [Installs -> [C!Targets -> C!Contents]]
       /\ owed' \in [Installs -> [C!Targets -> {None} \cup C!Contents]]
       /\ cfgFiles'[i][t] = c
       /\ \A j \in Installs, u \in C!Targets : j # i \/ u # t =>
             cfgFiles'[j][u] = cfgFiles[j][u] /\ owed'[j][u] = owed[j][u]
       /\ \/ owed'[i][t] = None
          \/ /\ OfUser(cfgFiles[i][t]) /\ cfgFiles[i][t] # c
             /\ owed'[i][t] = cfgFiles[i][t]
          \/ owed'[i][t] = owed[i][t] /\ owed[i][t] # c
  BY <1>5, <1>6, <1>7, <1>8, FileReplaced DEF ConfigInv
<1>14. C!TypeOK'
  BY <1>1, <1>13 DEF ConfigInv, C!TypeOK
<1>15. ConfigCommandInv'
  BY <1>1, <1>2, <1>9, ConfigKinds DEF ConfigCommandInv
<1>16. ASSUME ~uneven, NEW j \in Installs, NEW u \in C!Targets
       PROVE  /\ Found(cfgBackup, cfgFiles'[j][u], j, u) /\ Agree(cfgBackup, j, u)
              /\ Recorded(cfgBackup, cfgOp', owed'[j][u], j, u)
  <2>1. /\ Found(cfgBackup, cfgFiles[j][u], j, u) /\ Agree(cfgBackup, j, u)
        /\ Recorded(cfgBackup, cfgOp, owed[j][u], j, u)
    BY <1>16 DEF ConfigInv, FilesInv
  <2>2. CASE j # i \/ u # t
    <3>1. \A k \in About(cfgBackup, j, u) : k \in Int /\ (k = n => j = i)
      BY <1>3, <1>7 DEF About, C!Covers
    <3>2. Recorded(cfgBackup, cfgOp', owed[j][u], j, u)
      BY <1>10, <2>1, <2>2, <3>1 DEF Recorded
    <3>3. QED
      BY <1>13, <1>16, <2>1, <2>2, <3>2
  <2>3. CASE j = i /\ u = t
    <3>1. Found(cfgBackup, cfgFiles'[j][u], j, u)
      BY <1>7, <1>13, <2>3 DEF Found, c
    <3>2. CASE owed'[i][t] = None
      BY <2>1, <2>3, <3>1, <3>2 DEF Recorded
    <3>3. CASE OfUser(cfgFiles[i][t]) /\ cfgFiles[i][t] # c /\ owed'[i][t] = cfgFiles[i][t]
      <4>1. \E k \in About(cfgBackup, i, t) :
               k < n /\ cfgBackup[k].original[t] = cfgFiles[i][t]
        <5>1. cfgBackup[n].original[t] # cfgFiles[i][t]
          BY <3>3 DEF c
        <5>2. Found(cfgBackup, cfgFiles[i][t], i, t) /\ Agree(cfgBackup, i, t)
          BY <2>1, <2>3
        <5>3. QED
          BY <1>3, <1>7, <3>3, <5>1, <5>2, RecordedBefore
      <4>2. Recorded(cfgBackup, cfgOp', owed'[i][t], i, t)
        BY <1>11, <3>3, <4>1 DEF Recorded
      <4>3. QED
        BY <2>1, <2>3, <3>1, <4>2
    <3>4. CASE owed'[i][t] = owed[i][t] /\ owed[i][t] # c
      <4>1. \A k \in About(cfgBackup, i, t) :
               cfgBackup[k].original[t] = owed[i][t] => k # n
        BY <3>4 DEF c
      <4>2. Recorded(cfgBackup, cfgOp', owed'[i][t], i, t)
        BY <1>10, <1>12, <2>1, <2>3, <3>4, <4>1 DEF Recorded
      <4>3. QED
        BY <2>1, <2>3, <3>1, <4>2
    <3>5. QED
      BY <1>13, <3>2, <3>3, <3>4
  <2>4. QED
    BY <2>2, <2>3
<1>17. uneven' \/ FilesInv'
  BY <1>1, <1>16 DEF FilesInv
<1>18. QED
  BY <1>14, <1>15, <1>17 DEF ConfigInv

\* Keeping all the entries about a file keeps what they say of it.
LEMMA FilesRetained ==
    ASSUME NEW b \in Seq(C!Entries), NEW K \in SUBSET (DOMAIN b), NEW i, NEW t, NEW c, NEW w,
           NEW o, o \notin ConfigRestores,
           Found(b, c, i, t), Agree(b, i, t),
           w # None => \E k \in About(b, i, t) \cap K : b[k].original[t] = w,
           About(b, i, t) \subseteq K \/ About(b, i, t) \cap K = {}
    PROVE  LET r == Retained(b, K)
           IN  /\ Found(r, c, i, t) /\ Agree(r, i, t) /\ Recorded(r, o, w, i, t)
<1> DEFINE r == Retained(b, K)
           old == About(b, i, t)
           new == About(r, i, t)
<1>1. PICK g : /\ Ascending(g, K) /\ DOMAIN g = 1 .. Len(r) /\ r \in Seq(C!Entries)
               /\ \A j \in DOMAIN g : r[j] = b[g[j]]
  BY RetainedInOrder
<1> HIDE DEF r
<1>2. DOMAIN r = DOMAIN g /\ DOMAIN g \subseteq Int /\ K \subseteq Int
  BY <1>1
<1>3. /\ \A j \in DOMAIN g : g[j] \in K
      /\ \A j, k \in DOMAIN g : j < k => g[j] < g[k]
      /\ \A k \in K : \E j \in DOMAIN g : g[j] = k
  BY <1>1 DEF Ascending
<1>4. /\ \A j \in new : j \in DOMAIN g /\ g[j] \in old /\ r[j] = b[g[j]]
      /\ \A k \in old \cap K : \E j \in new : g[j] = k
  BY <1>1, <1>2, <1>3 DEF About
<1>5. \A j, k \in new : j <= k => g[j] <= g[k]
  BY <1>2, <1>3, <1>4
<1>6. CASE old \cap K = {}
  <2>1. new = {} /\ w = None
    BY <1>3, <1>4, <1>6
  <2>2. QED
    BY <2>1 DEF r, Found, Agree, Recorded
<1>7. CASE old \subseteq K
  <2>1. Found(r, c, i, t)
    BY <1>4, <1>7 DEF Found
  <2>2. Recorded(r, o, w, i, t)
    BY <1>4 DEF Recorded, Remains
  <2>3. ASSUME NEW k \in new, OfUser(r[k].original[t]), NEW l \in new
        PROVE  /\ OfUser(r[l].original[t]) => r[l].original[t] = r[k].original[t]
               /\ (\A m \in new : l <= m) => OfUser(r[l].original[t])
    <3>1. g[k] \in old /\ g[l] \in old /\ r[k] = b[g[k]] /\ r[l] = b[g[l]]
      BY <1>4, <2>3
    <3>2. (\A m \in new : l <= m) => \A m \in old : g[l] <= m
      BY <1>4, <1>5, <1>7, <2>3
    <3>3. QED
      BY <2>3, <3>1, <3>2 DEF Agree
  <2>4. Agree(r, i, t)
    BY <2>3 DEF Agree
  <2>5. QED
    BY <2>1, <2>2, <2>4 DEF r
<1>8. QED
  BY <1>6, <1>7

\* A restore that ends drops the entries it put back, all those about a file or none
\* of them unless it separates them.
LEMMA ConfigFinishInv ==
    ASSUME ConfigInv, C!FinishRestore
    PROVE  ConfigInv'
<1> USE DEF C!disk, C!bounds
<1> DEFINE K == cfgOp.kept
<1>1. UNCHANGED <<cfgFiles, bak, install, minute, cfgChanges, owed>> /\ cfgOp' = C!Idle
      /\ cfgOp.next = 0
  BY DEF C!FinishRestore
<1>2. cfgOp \in ConfigRestores /\ K \in SUBSET (DOMAIN cfgBackup)
      /\ cfgBackup \in Seq(C!Entries)
  BY ConfigShape DEF C!FinishRestore, ConfigInv, ConfigCommandInv, C!TypeOK
<1>3. C!Retained(cfgBackup, K) = Retained(cfgBackup, K)
  BY DEF C!Retained, Retained, C!Ascending, Ascending, C!Cardinality, Cardinality
<1>4. cfgBackup' = Retained(cfgBackup, K) /\ cfgBackup' \in Seq(C!Entries)
  <2>1. cfgBackup' = Retained(cfgBackup, K)
    BY <1>3 DEF C!FinishRestore
  <2>2. QED
    BY <1>2, <2>1, RetainedInOrder
<1>5. uneven' = (uneven \/ \E k \in K, l \in DOMAIN cfgBackup \ K :
                              C!Overlap(cfgBackup[k], cfgBackup[l]))
  BY DEF C!FinishRestore
<1>6. uneven' \in BOOLEAN
  BY <1>5, Zenon
<1>7. C!TypeOK'
  BY <1>1, <1>4, <1>6 DEF ConfigInv, C!TypeOK
<1>8. ConfigCommandInv'
  BY <1>1, ConfigKinds DEF ConfigCommandInv
<1>9. ASSUME ~uneven', NEW i \in Installs, NEW t \in C!Targets
      PROVE  /\ Found(cfgBackup', cfgFiles[i][t], i, t) /\ Agree(cfgBackup', i, t)
             /\ Recorded(cfgBackup', cfgOp', owed[i][t], i, t)
  <2>1. ~uneven /\ ~\E k \in K, l \in DOMAIN cfgBackup \ K :
                       C!Overlap(cfgBackup[k], cfgBackup[l])
    BY <1>5, <1>9, Zenon
  <2>2. /\ Found(cfgBackup, cfgFiles[i][t], i, t) /\ Agree(cfgBackup, i, t)
        /\ Recorded(cfgBackup, cfgOp, owed[i][t], i, t)
    BY <1>9, <2>1 DEF ConfigInv, FilesInv
  <2>3. \A k \in About(cfgBackup, i, t) : Remains(cfgBackup, cfgOp, k, t) => k \in K
    BY <1>1, <1>2 DEF About, Remains
  <2>4. owed[i][t] # None =>
          \E k \in About(cfgBackup, i, t) \cap K : cfgBackup[k].original[t] = owed[i][t]
    BY <2>2, <2>3 DEF Recorded
  <2>5. \A k, l \in About(cfgBackup, i, t) : C!Overlap(cfgBackup[k], cfgBackup[l])
    BY DEF About, C!Covers, C!Overlap
  <2>6. About(cfgBackup, i, t) \subseteq K \/ About(cfgBackup, i, t) \cap K = {}
    BY <2>1, <2>5 DEF About
  <2>7. cfgOp' \notin ConfigRestores
    BY <1>1, ConfigKinds
  <2>8. QED
    BY <1>2, <1>4, <2>2, <2>4, <2>6, <2>7, FilesRetained
<1>10. uneven' \/ FilesInv'
  BY <1>1, <1>9 DEF FilesInv
<1>11. QED
  BY <1>7, <1>8, <1>10 DEF ConfigInv

\* Every step of the configuration keeps the invariant.
LEMMA ConfigStep ==
    ASSUME ConfigInv, C!Next
    PROVE  ConfigInv'
<1>1. CASE C!CaptureMain
  BY <1>1, ConfigCaptureInv, CapturedTargets DEF C!CaptureMain
<1>2. CASE C!CaptureOptional
  <2>1. PICK assets \in SUBSET Optional : C!Capture(C!Extra, C!SetToSeq(assets))
    BY <1>2 DEF C!CaptureOptional
  <2>2. QED
    BY <2>1, ConfigCaptureInv, CapturedTargets
<1>3. CASE C!WriteFails
  BY <1>3, ConfigIdleInv, ConfigWalkInv DEF C!WriteFails
<1>4. QED
  BY <1>1, <1>2, <1>3, ConfigApplyInv, ConfigIdleInv, ConfigWalkInv, ConfigWriteBackInv,
     ConfigFinishInv, ConfigEditInv DEF C!Next

\* A step of the suite is a step on the configuration or leaves it alone.
LEMMA ConfigPart ==
    ASSUME [PartsNext]_allVars
    PROVE  C!Next \/ UNCHANGED configVars
  BY DEF PartsNext, allVars

\* A step that leaves the configuration alone keeps the invariant.
LEMMA ConfigStutters ==
    ASSUME ConfigInv, UNCHANGED configVars
    PROVE  ConfigInv'
<1>1. C!TypeOK' /\ ConfigCommandInv'
  BY DEF configVars, ConfigInv, C!TypeOK, ConfigCommandInv, C!SameIdentity
<1>2. uneven' \/ FilesInv'
  BY FilesUntouched DEF configVars
<1>3. QED
  BY <1>1, <1>2 DEF ConfigInv

\* The invariant of the configuration holds in every reachable state.
THEOREM ConfigInvariant == PartsSpec => []ConfigInv
<1>1. PartsInit => ConfigInv
  BY ConfigInit DEF PartsInit
<1>2. ConfigInv /\ [PartsNext]_allVars => ConfigInv'
  BY ConfigPart, ConfigStep, ConfigStutters
<1>3. QED
  BY <1>1, <1>2, PTL DEF PartsSpec

\* What the suite replaced in a file and has not put back is in the backup, as long
\* as no restore has separated two entries that share a file.
THEOREM OriginalsAreKept == PartsSpec => []OriginalKept
<1>1. ConfigInv => OriginalKept
  <2> SUFFICES ASSUME ConfigInv, ~uneven, NEW i \in Installs, NEW t \in C!Targets,
                      owed[i][t] # None
               PROVE  \E k \in DOMAIN cfgBackup : C!Covers(cfgBackup[k], i, t)
                         /\ cfgBackup[k].original[t] = owed[i][t]
    BY DEF OriginalKept, C!OriginalKept, C!OriginalAvailable
  <2>1. Recorded(cfgBackup, cfgOp, owed[i][t], i, t)
    BY DEF ConfigInv, FilesInv
  <2>2. QED
    BY <2>1 DEF Recorded, About
<1>2. QED
  BY <1>1, ConfigInvariant, PTL
=============================================================================
