-------------------------------- MODULE Gui --------------------------------
(***************************************************************************)
(* The graphical front end.  One window thread handles commands, a poll    *)
(* timer and modal dialogs; the timer keeps firing while a dialog is open. *)
(* One operation at a time runs on a worker thread of its own, another     *)
(* worker reads what the tables show, and work that needs administrator    *)
(* rights hides this window behind an elevated copy of it.  The content of *)
(* the files is a version number that every write raises.                  *)
(***************************************************************************)
EXTENDS Naturals, Sequences

CONSTANTS
    None,
    Captures,       \* captures a source can hold; any other source is refused
    Supported,      \* the <<capture, settings>> that evaluate_fps_cap accepts
    MaxGeneration,  \* bound: reads requested by navigation
    MaxStarts,      \* bound: operations started
    MaxDisk         \* bound: writes

VARIABLES
    package, admin,   \* the package is authenticated; the process is elevated
    open, area, dialog,
    reads,            \* SnapshotWorker: snapshots, pending requests, generation
    reading, results, \* the read worker and its channel
    native,           \* the operation on its worker thread
    elevated,         \* the elevated copy: "none", "running" or "exited"
    session,          \* FpsSession
    disk, finished,   \* version of the files; version when the last operation was shown
    started

vars == <<package, admin, open, area, dialog, reads, reading, results, native,
          elevated, session, disk, finished, started>>
identity == <<package, admin, started>>
workers == <<reading, results, disk>>

Areas == {"Overview", "Benchmark", "Recovery", "SetupVerify", "Network"}
ResourceOf == [Overview |-> "Overview", Benchmark |-> "History", Recovery |-> "Recovery"]
\* In the order of the pending requests; other areas show nothing that is read.
ReadOrder == <<"Overview", "History", "Recovery">>
Resources == {"Overview", "History", "Recovery"}
Settings == {"raw", "vrr"}

\* NativeAccess of the operations that start_native_recovery runs.
Access == [optimize |-> "ElevatedWrite", profile |-> "ElevatedWrite", clear |-> "ElevatedWrite",
           restoreAll |-> "ElevatedWrite", restoreSelected |-> "ElevatedWrite",
           export |-> "Write", vprof |-> "Write", verify |-> "ReadOnly"]
HomeOf == [optimize |-> "SetupVerify", profile |-> "SetupVerify", verify |-> "SetupVerify",
           restoreAll |-> "Recovery", restoreSelected |-> "Recovery", clear |-> "Recovery",
           export |-> "Recovery", vprof |-> "Benchmark"]
Asks == {"restoreAll", "restoreSelected", "clear", "export"}
MainActions == {"profile", "export"}

EmptySession == [stage |-> "Import", capture |-> None, settings |-> None, outcome |-> FALSE,
                 failure |-> FALSE, pending |-> FALSE]

Running == elevated # "none" \/ native # None
Usable == dialog = None /\ elevated = "none"

-----------------------------------------------------------------------------
\* SnapshotWorker::request, invalidate and poll.
Requested(rd, r) ==
    LET g == rd.generation + 1
        rows == IF rd.snapshots[r] = None THEN None ELSE rd.snapshots[r].rows
    IN  [generation |-> g,
         snapshots |-> [rd.snapshots EXCEPT ![r] = [state |-> "Loading", rows |-> rows, gen |-> g]],
         queue |-> [rd.queue EXCEPT ![r] = g]]

Invalidated(rd) ==
    LET g == rd.generation + 1
        Drop(s) == IF s = None THEN None
                   ELSE [state |-> IF s.rows = None THEN "Loading" ELSE "Stale",
                         rows |-> s.rows, gen |-> g]
    IN  [generation |-> g,
         snapshots |-> [r \in Resources |-> Drop(rd.snapshots[r])],
         queue |-> [r \in Resources |-> None]]

Presented(s, res) ==
    CASE res.rows # None -> [s EXCEPT !.state = IF res.empty THEN "Empty" ELSE "Ready", !.rows = res.rows]
      [] res.rows = None /\ s.rows # None -> [s EXCEPT !.state = "Stale"]
      [] OTHER -> [s EXCEPT !.state = "Failed"]

\* The snapshots once the results at the places mine[r] are presented.
Showing(rd, rs, mine) ==
    [rd EXCEPT !.snapshots = [r \in Resources |->
        IF mine[r] = {} THEN rd.snapshots[r]
        ELSE Presented(rd.snapshots[r], rs[CHOOSE i \in mine[r] : \A j \in mine[r] : j <= i])]]

\* A result is shown for the resource it was read for, whenever it arrives.
PolledAnyGeneration(rd, rs) ==
    Showing(rd, rs, [r \in Resources |->
        {i \in DOMAIN rs : rs[i].resource = r /\ rd.snapshots[r] # None}])

\* A result of an earlier generation is dropped.  Every request has a generation of
\* its own, so at most one result answers it.
Polled(rd, rs) ==
    Showing(rd, rs, [r \in Resources |->
        {i \in DOMAIN rs : /\ rs[i].resource = r /\ rd.snapshots[r] # None
                           /\ rs[i].gen = rd.snapshots[r].gen}])

RefreshAreaData(rd, a) == IF a \in DOMAIN ResourceOf THEN Requested(rd, ResourceOf[a]) ELSE rd
InvalidateAfterOperation(rd) == RefreshAreaData(Invalidated(rd), area)

\* The read worker takes the first pending request and reads the files.
NextRequest ==
    /\ reading = None
    /\ \E i \in DOMAIN ReadOrder :
        LET r == ReadOrder[i]
        IN  /\ reads.queue[r] # None
            /\ \A j \in 1..(i - 1) : reads.queue[ReadOrder[j]] = None
            /\ reading' = [resource |-> r, gen |-> reads.queue[r]]
            /\ reads' = [reads EXCEPT !.queue[r] = None]
    /\ UNCHANGED <<identity, open, area, dialog, results, native, elevated, session, disk, finished>>

SendResult ==
    /\ reading # None
    /\ \E rows \in {None, disk}, empty \in BOOLEAN :
        results' = Append(results, [resource |-> reading.resource, gen |-> reading.gen,
                                    rows |-> rows, empty |-> empty])
    /\ reading' = None
    /\ UNCHANGED <<identity, open, area, dialog, reads, native, elevated, session, disk, finished>>

-----------------------------------------------------------------------------
\* FpsSession
Invalidate(s) ==
    [EmptySession EXCEPT !.capture = s.capture,
                         !.stage = IF s.capture = None THEN "Import" ELSE "Evaluate"]

Evaluated(s, settings) ==
    CASE <<s.capture, settings>> \in Supported ->
            [Invalidate(s) EXCEPT !.settings = settings, !.outcome = TRUE]
      [] OTHER -> [Invalidate(s) EXCEPT !.failure = TRUE]

BeginReview(s) ==
    IF s.stage = "Evaluate" /\ s.outcome
    THEN [s EXCEPT !.stage = "Review", !.failure = FALSE] ELSE [s EXCEPT !.failure = TRUE]

FinishSave(s, ok) ==
    CASE s.stage = "Save" /\ ~s.pending -> s
      [] s.stage = "Save" /\ s.pending /\ ok ->
            [s EXCEPT !.stage = "Saved", !.pending = FALSE, !.failure = FALSE]
      [] s.stage = "Save" /\ s.pending /\ ~ok -> [s EXCEPT !.pending = FALSE, !.failure = TRUE]
      [] OTHER -> [s EXCEPT !.failure = TRUE]

Start(op, request, critical) ==
    native' = [op |-> op, request |-> request, critical |-> critical, wrote |-> FALSE, result |-> None]

-----------------------------------------------------------------------------
\* The operation's worker: its writes, and its result; a worker may also end
\* without one.
Writes(op) == op \notin {"Diagnostic", "FpsRead", "verify"}

WorkerWrites ==
    /\ native # None /\ native.result = None /\ Writes(native.op) /\ disk < MaxDisk
    /\ disk' = disk + 1 /\ native' = [native EXCEPT !.wrote = TRUE]
    /\ UNCHANGED <<identity, open, area, dialog, reads, reading, results, elevated, session, finished>>

WorkerEnds ==
    /\ native # None /\ native.result = None
    /\ \E result \in {"ok", "err", "gone"} :
        /\ result = "ok" /\ native.op = "FpsSave" => native.wrote
        /\ result = "ok" /\ native.op = "FpsRead" => native.request # None
        /\ native' = [native EXCEPT !.result = result]
    /\ UNCHANGED <<identity, open, area, dialog, reads, workers, elevated, session, finished>>

\* The elevated copy writes, and ends.
ElevatedCopy ==
    /\ elevated = "running"
    /\ \/ elevated' = "exited" /\ UNCHANGED disk
       \/ disk < MaxDisk /\ disk' = disk + 1 /\ UNCHANGED elevated
    /\ UNCHANGED <<identity, open, area, dialog, reads, reading, results, native, session, finished>>

\* present_native_result, the part that requests reads.
PresentedReads(rd, n) ==
    CASE n.op \in DOMAIN Access /\ n.result = "ok" -> RefreshAreaData(rd, "Recovery")
      [] n.op = "Diagnostic" /\ n.result # "gone" /\ n.request = "Etw" -> RefreshAreaData(rd, "Benchmark")
      [] OTHER -> rd

\* handle_poll_timer: poll_elevation_watchdog, take_native_result, poll_reads.
PollTimer ==
    LET exited == elevated = "exited"
        taken == native # None /\ native.result # None
        ends == taken /\ native.op \notin {"Diagnostic", "FpsRead"}
        rd1 == IF exited THEN InvalidateAfterOperation(reads) ELSE reads
        rd2 == IF ends THEN InvalidateAfterOperation(rd1) ELSE rd1
        rd3 == IF taken THEN PresentedReads(rd2, native) ELSE rd2
    IN  /\ exited \/ taken \/ results # <<>>
        /\ elevated' = IF exited THEN "none" ELSE elevated
        /\ native' = IF taken THEN None ELSE native
        /\ finished' = IF exited \/ ends THEN disk ELSE finished
        /\ reads' = Polled(rd3, results)
        /\ results' = <<>>
        /\ IF taken /\ native.op = "FpsRead" /\ native.result = "ok"
           THEN \E s \in Settings :
                    session' = Evaluated([EmptySession EXCEPT !.capture = native.request], s)
           ELSE session' = IF taken /\ native.op = "FpsSave"
                           THEN FinishSave(session, native.result = "ok") ELSE session
        /\ UNCHANGED <<identity, open, area, dialog, reading, disk>>

-----------------------------------------------------------------------------
\* relaunch_elevated: the elevated copy starts and this window hides, or the user
\* declines.
RelaunchElevated ==
    /\ elevated' \in {"running", "none"}
    /\ UNCHANGED native

\* start_native_recovery
MayStart(c) == package /\ (Running => Access[c] = "ElevatedWrite" /\ ~admin)
StartNativeRecovery(c, key) ==
    IF Access[c] = "ElevatedWrite" /\ ~admin THEN RelaunchElevated
    ELSE Start(c, key, Access[c] # "ReadOnly") /\ UNCHANGED elevated

Counted == started < MaxStarts /\ started' = started + 1 /\ UNCHANGED <<package, admin>>

\* selected_recovery_step: the key of the selected row of a Ready snapshot.
SelectedKey ==
    LET s == reads.snapshots["Recovery"]
    IN  IF s = None THEN None ELSE IF s.state # "Ready" THEN None ELSE s.rows

Command(c) ==
    /\ Usable /\ area = HomeOf[c]
    /\ c \in MainActions => ~Running
    /\ c = "export" => package
    /\ c = "restoreSelected" => SelectedKey # None
    /\ IF c \in Asks
       THEN /\ dialog' = [kind |-> c, key |-> IF c = "restoreSelected" THEN SelectedKey ELSE None]
            /\ UNCHANGED <<identity, native, elevated>>
       ELSE Counted /\ MayStart(c) /\ StartNativeRecovery(c, None) /\ UNCHANGED dialog
    /\ UNCHANGED <<open, area, reads, workers, session, finished>>

\* start_network_apply asks after its checks; start_diagnostic does not ask.
NetworkApply ==
    /\ Usable /\ area = "Network" /\ package /\ ~Running
    /\ dialog' = [kind |-> "network", key |-> None]
    /\ UNCHANGED <<identity, open, area, reads, workers, native, elevated, session, finished>>

StartDiagnostic ==
    /\ Usable /\ Counted /\ ~Running
    /\ \E kind \in {"Etw", "Whea"} : Start("Diagnostic", kind, FALSE)
    /\ UNCHANGED <<open, area, dialog, reads, workers, elevated, session, finished>>

\* The answer to a dialog: the operation starts now, if it still may.
AnswerYes ==
    /\ dialog # None
    /\ \/ /\ dialog.kind \in DOMAIN Access /\ MayStart(dialog.kind)
          /\ Counted /\ StartNativeRecovery(dialog.kind, dialog.key)
          /\ UNCHANGED <<session, open>>
       \/ /\ dialog.kind = "network"
          /\ Counted
          /\ IF ~admin THEN RelaunchElevated ELSE Start("network", None, TRUE) /\ UNCHANGED elevated
          /\ UNCHANGED <<session, open>>
       \/ /\ dialog.kind = "file"
          /\ \E c \in Captures \cup {None} : Start("FpsRead", c, FALSE)
          /\ session' = Invalidate(EmptySession) /\ UNCHANGED <<identity, elevated, open>>
       \/ /\ dialog.kind = "close" /\ open' = FALSE
          /\ UNCHANGED <<identity, native, elevated, session>>
    /\ dialog' = None
    /\ UNCHANGED <<area, reads, workers, finished>>

\* The dialog is dismissed, or what it confirms may not start any more.
Dismiss ==
    /\ dialog # None /\ dialog' = None
    /\ UNCHANGED <<identity, open, area, reads, workers, native, elevated, session, finished>>

Navigate ==
    /\ Usable /\ reads.generation < MaxGeneration
    /\ \E a \in Areas : area' = a /\ reads' = RefreshAreaData(reads, a)
    /\ UNCHANGED <<identity, open, dialog, workers, native, elevated, session, finished>>

\* handle_close refuses while a write runs, asks while anything else runs.
Close ==
    /\ Usable
    /\ native # None => ~native.critical
    /\ IF Running THEN dialog' = [kind |-> "close", key |-> None] /\ UNCHANGED open
                  ELSE open' = FALSE /\ UNCHANGED dialog
    /\ UNCHANGED <<identity, area, reads, workers, native, elevated, session, finished>>

-----------------------------------------------------------------------------
\* The FPS workflow.
InputChangedWhileRunning(source) ==
    /\ Usable
    /\ session' = Invalidate(IF source THEN EmptySession ELSE session)
    /\ UNCHANGED <<identity, open, area, dialog, reads, workers, native, elevated, finished>>

InputChanged(source) ==
    /\ Usable /\ ~Running
    /\ session' = Invalidate(IF source THEN EmptySession ELSE session)
    /\ UNCHANGED <<identity, open, area, dialog, reads, workers, native, elevated, finished>>

FpsCommand == Usable /\ ~Running /\ area = "Benchmark"

OpenFile ==
    /\ FpsCommand /\ dialog' = [kind |-> "file", key |-> None]
    /\ UNCHANGED <<identity, open, area, reads, workers, native, elevated, session, finished>>

NextStage ==
    /\ FpsCommand
    /\ \/ /\ session.stage = "Import" /\ session.capture = None
          /\ \E c \in Captures \cup {None} : Start("FpsRead", c, FALSE)
          /\ UNCHANGED <<identity, session>>
       \/ /\ session.capture # None /\ session.stage \in {"Import", "Evaluate"} /\ ~session.outcome
          /\ \E s \in Settings : session' = Evaluated(session, s)
          /\ UNCHANGED <<identity, native>>
       \/ /\ session.stage = "Evaluate" /\ session.outcome
          /\ session' = BeginReview(session) /\ UNCHANGED <<identity, native>>
       \/ /\ session.stage = "Review" /\ package /\ admin /\ Counted
          /\ session' = [session EXCEPT !.stage = "Save", !.pending = TRUE, !.failure = FALSE]
          /\ Start("FpsSave", <<session.capture, session.settings>>, TRUE)
       \/ /\ session.stage \in {"Save", "Saved"}
          /\ session' = EmptySession /\ UNCHANGED <<identity, native>>
    /\ UNCHANGED <<open, area, dialog, reads, workers, elevated, finished>>

Back ==
    /\ FpsCommand
    /\ \/ session.stage = "Review" /\ session' = Invalidate(session)
       \/ session.stage = "Evaluate" /\ session' = [EmptySession EXCEPT !.capture = session.capture]
    /\ UNCHANGED <<identity, open, area, dialog, reads, workers, native, elevated, finished>>

Init ==
    /\ package \in BOOLEAN /\ admin \in BOOLEAN
    /\ open = TRUE /\ area = "Overview" /\ dialog = None
    /\ reads = Requested([generation |-> 0, snapshots |-> [r \in Resources |-> None],
                          queue |-> [r \in Resources |-> None]], "Overview")
    /\ reading = None /\ results = <<>> /\ native = None /\ elevated = "none"
    /\ session = EmptySession /\ disk = 0 /\ finished = 0 /\ started = 0

\* The process and its threads end with the window.
Next ==
    /\ open
    /\ \/ NextRequest \/ SendResult \/ WorkerWrites \/ WorkerEnds \/ ElevatedCopy \/ PollTimer
       \/ \E c \in DOMAIN Access : Command(c)
       \/ NetworkApply \/ StartDiagnostic \/ Navigate \/ Close \/ OpenFile \/ NextStage \/ Back
       \/ AnswerYes \/ Dismiss \/ \E source \in BOOLEAN : InputChanged(source)

-----------------------------------------------------------------------------
\* Properties.

TypeOK ==
    /\ area \in Areas /\ elevated \in {"none", "running", "exited"}
    /\ finished <= disk /\ disk <= MaxDisk
    /\ \A r \in Resources : reads.snapshots[r] # None => reads.snapshots[r].gen <= reads.generation
    /\ session.stage \in {"Import", "Evaluate", "Review", "Save", "Saved"}

\* The GUI acts on what it shows.  A selected restore takes its entry from rows
\* read after the last operation this GUI showed as ended, however late the read
\* worker answers; and while a save runs, the session holds the very capture and
\* settings that were reviewed and sent, and waits for that save's result.
ActsOnShown ==
    [][/\ dialog' # dialog /\ dialog' # None /\ dialog'.kind = "restoreSelected"
          => dialog'.key >= finished
       /\ native' # None /\ native'.op = "FpsSave"
          => /\ session'.stage = "Save" /\ session'.pending
             /\ native'.request = <<session'.capture, session'.settings>>]_vars
=============================================================================
