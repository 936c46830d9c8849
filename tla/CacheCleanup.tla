---------------------------- MODULE CacheCleanup ----------------------------
(***************************************************************************)
(* cleanup: the fixed actions of a mode, one after the other whatever each *)
(* one's outcome, and the deletion of a directory tree below a fixed root  *)
(* while other programs use it.  The tree is opened completely before      *)
(* anything is deleted, by file identity and without sharing deletion; it  *)
(* is then enumerated again through the handles, and deleted in the        *)
(* reverse order, each object through its handle after another look at it, *)
(* which other programs may overtake: the handles share writing.           *)
(***************************************************************************)
EXTENDS Naturals, Sequences, FiniteSets, SequencesExt

CONSTANTS
    None,
    Dirs, Files,  \* the directories and files below the roots, and elsewhere
    MaxNodes,     \* bound of a tree: 100000 in the code
    MaxChanges    \* bound: changes by other programs

VARIABLES
    place,        \* place[o]: the directory of o, "elsewhere", or None
    linked,       \* files with a second name
    reparse,      \* directories that are reparse points
    busy,         \* objects that another program has open and does not share
    late,         \* objects that came to their place after the root was opened, unopened
    op,
    results,      \* the outcomes, in order
    changes

disk == <<place, linked, reparse, busy>>
vars == <<disk, late, op, results, changes>>

Objects == Dirs \cup Files
Idle == [pc |-> "idle"]

\* CleanupAction: the full mode adds none to the quick one.  Driver mode is the
\* handoff of RebootHandoff, and the repair actions have no caller.
Actions == <<"windowsTemp", "userTemp", "dns", "trim">>
RootOf == [windowsTemp |-> "windowsRoot", userTemp |-> "userRoot"]
Roots == {"windowsRoot", "userRoot"}

\* CleanupActionResult
Results == [action : ToSet(Actions), outcome : {"completed", "failed", "deferred"}, items : Nat]

Children(d) == {o \in Objects : place[o] = d}
Action == Actions[Len(results) + 1]
Nodes == {op.nodes[i].object : i \in DOMAIN op.nodes}
Held == IF op.pc # "idle" THEN ToSet(op.held) ELSE {}

TypeOK ==
    /\ place \in [Objects -> {None, "elsewhere"} \cup Roots \cup Dirs]
    /\ linked \subseteq Files /\ reparse \subseteq Dirs /\ busy \subseteq Objects
    /\ late \subseteq Objects
    /\ results \in Seq(Results) /\ Len(results) <= Len(Actions)
    /\ changes \in Nat

Init ==
    /\ place = [o \in Objects |-> IF o \in Dirs THEN "windowsRoot" ELSE "elsewhere"]
    /\ linked = {} /\ reparse = {} /\ busy = {} /\ late = {}
    /\ op = Idle /\ results = <<>> /\ changes = 0

-----------------------------------------------------------------------------
\* The outcome of an action; the next one runs in any case.
Conclude(outcome, n) ==
    /\ results' = Append(results, [action |-> Action, outcome |-> outcome, items |-> n])
    /\ op' = Idle

\* The actions that are one call each; what DNS cannot flush is deferred.
Call ==
    /\ op = Idle /\ Len(results) < Len(Actions) /\ Action \notin DOMAIN RootOf
    /\ \/ Conclude("completed", 0)
       \/ Action = "dns" /\ Conclude("deferred", 0)
       \/ Action # "dns" /\ Conclude("failed", 0)
    /\ UNCHANGED <<disk, late, changes>>

\* delete_fixed_roots: the handle of the root, and its enumeration.
Begin ==
    /\ op = Idle /\ Len(results) < Len(Actions) /\ Action \in DOMAIN RootOf
    /\ op' = [pc |-> "open", nodes |-> <<>>, held |-> <<>>, failures |-> 0, deleted |-> 0, looked |-> 0,
              pending |-> SetToSeq({[object |-> o, parent |-> RootOf[Action]] :
                                      o \in Children(RootOf[Action])})]
    /\ late' = {}
    /\ UNCHANGED <<disk, results, changes>>

\* observe_node and validate_node: no reparse point, one name, and the final
\* path an exact child of its parent's.
SameNode(n) ==
    /\ place[n.object] = n.parent
    /\ n.object \notin reparse /\ n.object \notin linked

\* walk_directory and push_node: an object is opened by the identity that the
\* enumeration reported; a directory is enumerated at once.
Open ==
    /\ op.pc = "open" /\ op.pending # <<>>
    /\ LET n == Head(op.pending)
       IN  IF SameNode(n) /\ n.object \notin busy /\ Len(op.nodes) < MaxNodes
           THEN /\ op' = [op EXCEPT !.nodes = Append(@, n), !.held = Append(@, n.object),
                                    !.pending = SetToSeq({[object |-> o, parent |-> n.object] :
                                                            o \in Children(n.object)}) \o Tail(@)]
                /\ late' = late \ {n.object} /\ UNCHANGED results
           ELSE Conclude("failed", 0) /\ UNCHANGED late
    /\ UNCHANGED <<disk, changes>>

Opened ==
    /\ op.pc = "open" /\ op.pending = <<>>
    /\ op' = [op EXCEPT !.pc = "recheck"]
    /\ UNCHANGED <<disk, late, results, changes>>

\* reenumerate_retained_handles: the same objects in the same directories.
Recheck ==
    /\ op.pc = "recheck"
    /\ IF /\ \A i \in DOMAIN op.nodes : SameNode(op.nodes[i])
          /\ \A d \in {RootOf[Action]} \cup (Nodes \cap Dirs) : Children(d) \subseteq Nodes
       THEN op' = [op EXCEPT !.pc = "delete"] /\ UNCHANGED results
       ELSE Conclude("failed", 0)
    /\ UNCHANGED <<disk, late, changes>>

\* The loop goes on below the last node, whose handle is closed in any case.
Passed(failed) == [op EXCEPT !.pc = "delete", !.nodes = Front(@), !.held = Front(@),
                             !.deleted = @ + 1, !.failures = @ + failed]

\* delete_postorder, validate_node: another look at the last node.  looked, which
\* the code does not keep, is when that was.
Validate ==
    /\ op.pc = "delete" /\ op.held # <<>>
    /\ op' = IF SameNode(Last(op.nodes)) THEN [op EXCEPT !.pc = "dispose", !.looked = changes]
             ELSE Passed(1)
    /\ UNCHANGED <<disk, late, results, changes>>

\* The children of a directory go with it, as with remove_dir_all.
DisposeRecursive ==
    /\ op.pc = "dispose" /\ op' = Passed(0)
    /\ LET d == Last(op.nodes).object
       IN  place' = [o \in Objects |-> IF o = d \/ place[o] = d THEN None ELSE place[o]]
    /\ UNCHANGED <<linked, reparse, busy, late, results, changes>>

\* A deletion that the file system refuses is not counted.
DisposeSilent ==
    /\ op.pc = "dispose" /\ op' = Passed(0)
    /\ LET o == Last(op.nodes).object
       IN  \/ Children(o) = {} /\ place' = [place EXCEPT ![o] = None]
           \/ UNCHANGED place
    /\ UNCHANGED <<linked, reparse, busy, late, results, changes>>

\* delete_postorder, SetFileInformationByHandle: the handle deletes its own object,
\* a reparse point itself and of a file the name in the tree, as long as a directory
\* is empty and the file system agrees.
Dispose ==
    /\ op.pc = "dispose"
    /\ LET o == Last(op.nodes).object
       IN  \/ Children(o) = {} /\ place' = [place EXCEPT ![o] = None] /\ op' = Passed(0)
           \/ UNCHANGED place /\ op' = Passed(1)
    /\ UNCHANGED <<linked, reparse, busy, late, results, changes>>

\* The count is of the nodes that were opened.
Finish ==
    /\ op.pc = "delete" /\ op.held = <<>>
    /\ IF op.failures = 0 THEN Conclude("completed", op.deleted) ELSE Conclude("failed", 0)
    /\ UNCHANGED <<disk, late, changes>>

-----------------------------------------------------------------------------
\* Other programs.  What the cleanup holds open they can neither delete nor
\* move; they can still add to a directory, make an empty one a reparse point, and
\* give a file a second name.
Put(o, d) ==
    /\ o \notin Held /\ d # o
    /\ d \in Dirs => place[d] \notin {None, o} /\ d \notin reparse
    /\ (o \in Dirs /\ d # "elsewhere") => Children(o) = {}
    /\ place[o] # d /\ place' = [place EXCEPT ![o] = d]
    /\ late' = late \cup {o}
    /\ UNCHANGED <<linked, reparse, busy>>

Erase(o) ==
    /\ o \notin Held /\ place[o] # None /\ Children(o) = {}
    /\ place' = [place EXCEPT ![o] = None]
    /\ UNCHANGED <<linked, reparse, busy, late>>

OtherProgram ==
    /\ changes < MaxChanges /\ changes' = changes + 1
    /\ \/ \E o \in Objects, d \in Roots \cup Dirs \cup {"elsewhere"} : Put(o, d)
       \/ \E o \in Objects : Erase(o)
       \/ \E f \in Files \ linked : linked' = linked \cup {f} /\ UNCHANGED <<place, reparse, busy, late>>
       \/ \E d \in Dirs \ reparse :
            Children(d) = {} /\ reparse' = reparse \cup {d} /\ UNCHANGED <<place, linked, busy, late>>
       \/ \E o \in Objects \ Held : /\ busy' = (busy \ {o}) \cup ({o} \ busy)
                                    /\ UNCHANGED <<place, linked, reparse, late>>
    /\ UNCHANGED <<op, results>>

Steps == Call \/ Begin \/ Open \/ Opened \/ Recheck \/ Validate \/ Dispose \/ Finish
Next == Steps \/ OtherProgram

-----------------------------------------------------------------------------
\* Properties.

\* The cleanup deletes only what was in the tree when it was opened and has been
\* there since, nothing that another program created or moved in meanwhile and
\* nothing outside the root; and what has a second name or is a reparse point only
\* when another program made it so between the last look at it and its deletion.
DeletesOnlySeen ==
    [][changes' = changes =>
        \A o \in Objects : place[o] # None /\ place'[o] = None =>
            /\ o \notin late /\ place[o] \in {RootOf[Action]} \cup Nodes
            /\ o \in linked \cup reparse => op.looked < changes]_vars

\* An action that reports completion has emptied its root but for what came after
\* the root was opened, whatever changed in it meanwhile.
ReportTrue ==
    [][Len(results') > Len(results) /\ Action \in DOMAIN RootOf =>
        (Last(results').outcome = "completed" =>
            \A o \in Objects \ late : place[o] # RootOf[Action])]_vars
=============================================================================
