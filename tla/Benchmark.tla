----------------------------- MODULE Benchmark -----------------------------
(***************************************************************************)
(* Benchmark captures and the three files that record them: state.json,    *)
(* progress.json and benchmark_history.json.  An advisory capture writes   *)
(* the state and then the history; the baseline (P1:17) and the final      *)
(* benchmark (P3:13) write history, state and progress in that order.  The *)
(* process may stop between two writes; a retry has to find what the       *)
(* earlier attempt left and finish it with the same receipt.               *)
(* Frame rates are whole numbers, aggregates are in tenths.                *)
(***************************************************************************)
EXTENDS Collections

CONSTANTS
    None,
    Captures,     \* VProf captures: sequences of observations <<avg, p1>>
    Strategies,   \* cap strategies: [kind |-> "raw", cap] or [kind |-> "vrr", refresh, margin]
    MinRuns,      \* MIN_CAP_AUTHORIZATION_RUNS
    MaxHistory,   \* MAX_BENCHMARK_HISTORY
    MaxRuns,      \* bound: captures that are recorded
    MaxFaults     \* bound: writes that fail and processes that stop

VARIABLES
    state, progress, history,
    config,       \* the cap strategy of the verified runtime
    op,           \* the commit being written
    clock, faults

vars == <<state, progress, history, config, op, clock, faults>>
files == <<state, progress, history>>

FinalLabel == "After all optimizations"
BaselineLabel == "Baseline (before optimizations)"
Labels == {"CS2 capture", FinalLabel}
Txn == "txn"
Idle == [todo |-> <<>>]

-----------------------------------------------------------------------------
\* aggregate: the mean of the observations, rounded to one decimal, half up.
SumOf(c, j) ==
    LET upTo[n \in 0 .. Len(c)] == IF n = 0 THEN 0 ELSE upTo[n - 1] + c[n][j]
    IN  upTo[Len(c)]
Mean(c, j) == (20 * SumOf(c, j) + Len(c)) \div (2 * Len(c))
Aggregate(c) == [avg |-> Mean(c, 1), p1 |-> Mean(c, 2), runs |-> Len(c)]

\* A run supports a cap when its P1 is no higher than its average and no lower
\* than the cap.
FailingRuns(c, cap) == {i \in DOMAIN c : ~(c[i][2] <= c[i][1] /\ c[i][2] >= cap)}
SustainableCap(cap, c) ==
    IF cap > 0 /\ Len(c) >= MinRuns /\ FailingRuns(c, cap) = {} THEN cap ELSE None

RequestedCap(s) == IF s.kind = "raw" THEN s.cap ELSE s.refresh - s.margin
MeasuredFpsCap(s, c) ==
    IF s.kind = "raw" /\ s.cap = 0 THEN 0 ELSE SustainableCap(RequestedCap(s), c)

\* Records of earlier releases have no observations, only their aggregate.
LegacyAggregateFpsCap(s, a) ==
    CASE s.kind = "raw" /\ s.cap = 0 -> 0
      [] RequestedCap(s) > 0 /\ a.p1 >= 10 * RequestedCap(s) /\ a.runs >= MinRuns -> RequestedCap(s)
      [] OTHER -> None

CaptureIsComplete(a) == a.avg > 0 /\ a.p1 > 0 /\ a.p1 <= a.avg /\ a.runs > 0

Record(at, label, a, evidence, receipt, txn) ==
    [at |-> at, label |-> label, capture |-> a, evidence |-> evidence,
     receipt |-> receipt, txn |-> txn]

\* The newest MAX_BENCHMARK_HISTORY records stay.
AppendRecord(h, r) ==
    LET all == Append(h, r)
    IN  SubSeq(all, IF Len(all) > MaxHistory THEN Len(all) - MaxHistory + 1 ELSE 1, Len(all))

\* The figures of a capture, and of a bare average.
Bare == [avg |-> 100, p1 |-> 0, runs |-> 1]
Figures == {Aggregate(c) : c \in Captures} \cup {Bare}

\* FinalBenchmarkReceipt, and what the three files hold.
Receipts == [id : Nat, at : Nat, capture : Figures, evidence : {None} \cup Captures, cap : Nat]
Records == [at : Nat, label : Labels \cup {BaselineLabel}, capture : Figures,
            evidence : {None} \cup Captures, receipt : {None} \cup Nat, txn : {None, Txn}]
States == [baseline : {None} \cup Figures, capture : {None} \cup Figures, cap : Nat, capAt : Nat,
           final : {None} \cup Receipts, stage : {"none", "armed", "complete"}]
Progresses == [baseline : {None} \cup Nat, final : {None} \cup Nat, ready : BOOLEAN]

TypeOK ==
    /\ state \in States /\ progress \in Progresses /\ clock \in Nat /\ config \in Strategies
    /\ history \in Seq(Records) /\ Len(history) <= MaxHistory

Init ==
    /\ state = [baseline |-> None, capture |-> None, cap |-> 0, capAt |-> 0,
                final |-> None, stage |-> "none"]
    /\ progress = [baseline |-> None, final |-> None, ready |-> FALSE]
    /\ history = <<>> /\ op = Idle /\ clock = 0 /\ faults = 0
    /\ config \in Strategies

\* A commit is a new content for each file, written in a fixed order.
Commit(s, p, h, todo) ==
    /\ op = Idle /\ clock < MaxRuns
    /\ clock' = clock + 1
    /\ op' = [todo |-> todo, state |-> s, progress |-> p, history |-> h]
    /\ UNCHANGED <<files, config, faults>>

-----------------------------------------------------------------------------
\* An advisory capture takes the place of the final one.
AdvisoryAlways(a, evidence, cap, label) ==
    Commit([state EXCEPT !.capture = a, !.cap = cap, !.capAt = clock + 1], progress,
           AppendRecord(history, Record(clock + 1, label, a, evidence, None, None)),
           IF a.p1 > 0 THEN <<"state", "history">> ELSE <<"state">>)

\* persist_fps_capture, with a cap strategy and a label of the user's choice; a
\* bare average has no P1, no observations and no place in the history.
Advisory(a, evidence, cap, label) ==
    /\ state.final = None
    /\ Commit([state EXCEPT !.capture = a, !.cap = cap, !.capAt = clock + 1], progress,
              AppendRecord(history, Record(clock + 1, label, a, evidence, None, None)),
              IF a.p1 > 0 THEN <<"state", "history">> ELSE <<"state">>)

RunFpsCap ==
    \/ \E c \in Captures, s \in Strategies, label \in Labels :
         /\ MeasuredFpsCap(s, c) # None
         /\ Advisory(Aggregate(c), c, MeasuredFpsCap(s, c), label)
    \/ Advisory(Bare, None, 0, "CS2 capture")

-----------------------------------------------------------------------------
\* prepare_baseline_benchmark_commit: one record has the baseline's label; it is
\* this capture's, and the state agrees with it as far as it was written.
Baselines == {k \in DOMAIN history : history[k].label = BaselineLabel}

BaselineAccepted(c) ==
    LET a == Aggregate(c)
    IN  /\ CaptureIsComplete(a)
        /\ Cardinality(Baselines) <= 1
        /\ \A k \in Baselines : history[k].capture = a /\ history[k].evidence \in {None, c}
        /\ state.baseline # None => Baselines # {} /\ state.baseline = a
        /\ progress.baseline = None

RunBaseline ==
    \E c \in Captures :
        LET a == Aggregate(c)
            at == IF Baselines = {} THEN clock + 1 ELSE history[CHOOSE k \in Baselines : TRUE].at
        IN  /\ BaselineAccepted(c)
            /\ Commit([state EXCEPT !.baseline = a], [progress EXCEPT !.baseline = at],
                      IF Baselines = {}
                      THEN AppendRecord(history, Record(at, BaselineLabel, a, c, None, None))
                      ELSE history,
                      <<"history", "state", "progress">>)

-----------------------------------------------------------------------------
\* final_history_prefix: what looks like a record of the final benchmark.
FinalPrefix == {k \in DOMAIN history : \/ history[k].label = FinalLabel
                                       \/ history[k].receipt # None
                                       \/ history[k].txn # None}
PrefixRecord == history[CHOOSE k \in FinalPrefix : TRUE]

Matches(r, rec) == rec = Record(r.at, FinalLabel, r.capture, r.evidence, r.id, Txn)

\* history_prefix_commit_inputs
PrefixAccepted(rec, c) ==
    /\ rec.label = FinalLabel /\ rec.receipt # None /\ rec.txn = Txn
    /\ rec.capture = Aggregate(c) /\ rec.evidence \in {None, c}
    /\ state.final # None => Matches(state.final, rec)

\* validate_partial_final_state
StateAccepted(c) ==
    /\ state.stage = "complete"
    /\ state.final.capture = Aggregate(c) /\ state.final.evidence \in {None, c}
    /\ state.cap = state.final.cap /\ state.capture = state.final.capture
    /\ state.capAt = state.final.at

\* Every attempt has an identity of its own.
SourceFresh(c) == [id |-> clock + 1, at |-> clock + 1, evidence |-> c]

\* select_commit_inputs: the identity and the evidence of the attempt the files
\* already hold, the history's before the state's, or fresh ones.
Source(c) ==
    CASE FinalPrefix # {} ->
            [id |-> PrefixRecord.receipt, at |-> PrefixRecord.at, evidence |-> PrefixRecord.evidence]
      [] FinalPrefix = {} /\ state.final # None ->
            [id |-> state.final.id, at |-> state.final.at, evidence |-> state.final.evidence]
      [] OTHER -> [id |-> clock + 1, at |-> clock + 1, evidence |-> c]

FinalReceipt(c) ==
    LET src == Source(c)
    IN  [id |-> src.id, at |-> src.at, capture |-> Aggregate(c), evidence |-> src.evidence,
         cap |-> IF src.evidence = None THEN LegacyAggregateFpsCap(config, Aggregate(c))
                                        ELSE MeasuredFpsCap(config, src.evidence)]

\* reconcile_final_benchmark, and prepare_final_benchmark_commit under it.
FinalAccepted(c) ==
    LET r == FinalReceipt(c)
    IN  /\ CaptureIsComplete(Aggregate(c))
        /\ progress.final = None /\ progress.ready
        /\ Cardinality(FinalPrefix) <= 1
        /\ FinalPrefix # {} => PrefixAccepted(PrefixRecord, c)
        /\ IF state.final # None THEN StateAccepted(c) ELSE state.stage = "armed"
        /\ r.cap # None
        /\ state.final # None => state.final = r
        /\ FinalPrefix # {} => Matches(r, PrefixRecord)

RunFinal ==
    \E c \in Captures :
        LET r == FinalReceipt(c)
            others == Retained(history, DOMAIN history \ FinalPrefix)
        IN  /\ FinalAccepted(c)
            /\ Commit([state EXCEPT !.capture = r.capture, !.cap = r.cap, !.capAt = r.at,
                                    !.final = r, !.stage = "complete"],
                      [progress EXCEPT !.final = r.at],
                      AppendRecord(others, Record(r.at, FinalLabel, r.capture, r.evidence, r.id, Txn)),
                      <<"history", "state", "progress">>)

\* An earlier release got as far as the history, or the state, without evidence.
EarlierRelease ==
    /\ op = Idle /\ clock < MaxRuns /\ state.stage = "armed" /\ FinalPrefix = {}
    /\ \E c \in Captures, both \in BOOLEAN :
        LET a == Aggregate(c)
            at == clock + 1
            cap == LegacyAggregateFpsCap(config, a)
        IN  /\ CaptureIsComplete(a) /\ cap # None
            /\ history' = AppendRecord(history, Record(at, FinalLabel, a, None, at, Txn))
            /\ state' = IF ~both THEN state
                        ELSE [state EXCEPT !.capture = a, !.cap = cap, !.capAt = at, !.stage = "complete",
                                !.final = [id |-> at, at |-> at, capture |-> a, evidence |-> None, cap |-> cap]]
    /\ clock' = clock + 1
    /\ UNCHANGED <<progress, config, op, faults>>

-----------------------------------------------------------------------------
\* write_json_atomic_trusted of the next file, read back.
Write ==
    /\ op.todo # <<>>
    /\ CASE Head(op.todo) = "state" -> state' = op.state /\ UNCHANGED <<progress, history>>
         [] Head(op.todo) = "history" -> history' = op.history /\ UNCHANGED <<state, progress>>
         [] OTHER -> progress' = op.progress /\ UNCHANGED <<state, history>>
    /\ op' = IF Len(op.todo) = 1 THEN Idle ELSE [op EXCEPT !.todo = Tail(@)]
    /\ UNCHANGED <<config, clock, faults>>

\* The process stops, or a write fails and ends the call.
Stops ==
    /\ op # Idle /\ faults < MaxFaults
    /\ op' = Idle /\ faults' = faults + 1
    /\ UNCHANGED <<files, config, clock>>

\* The reboot handoff arrives in Phase 3, and its engine resolves P3:1 to P3:12.
PhaseThree ==
    /\ op = Idle
    /\ \/ state.stage = "none" /\ state' = [state EXCEPT !.stage = "armed"] /\ UNCHANGED progress
       \/ /\ state.stage # "none" /\ ~progress.ready
          /\ progress' = [progress EXCEPT !.ready = TRUE] /\ UNCHANGED state
    /\ UNCHANGED <<history, config, op, clock, faults>>

Next == RunFpsCap \/ RunBaseline \/ RunFinal \/ EarlierRelease \/ Write \/ Stops \/ PhaseThree

-----------------------------------------------------------------------------
\* Properties.

\* validate_persisted_final_benchmark
Coherent ==
    /\ state.final # None /\ state.stage = "complete"
    /\ progress.final = state.final.at
    /\ state.cap = state.final.cap /\ state.capture = state.final.capture
    /\ state.capAt = state.final.at
    /\ LET mine == {k \in DOMAIN history : history[k].receipt = state.final.id \/ history[k].txn = Txn}
       IN  Cardinality(mine) = 1 /\ \A k \in mine : Matches(state.final, history[k])

\* Once a final benchmark is recorded in full, no later capture makes the three
\* files disagree about it.
FinalStays == [][Coherent => Coherent']_vars

\* An exact retry completes what an attempt has left in the history or in the
\* state, for the final benchmark and for the baseline, whatever was recorded in
\* between; only a user's record under a reserved label stands in the way.
ExactRetries ==
    op = Idle => \A c \in Captures :
        /\ (/\ progress.final = None /\ progress.ready /\ Cardinality(FinalPrefix) <= 1
            /\ \/ state.final # None /\ state.final.evidence = c
               \/ \E k \in FinalPrefix : history[k].receipt # None /\ history[k].evidence = c)
           => FinalAccepted(c)
        /\ (/\ progress.baseline = None
            /\ \E k \in Baselines : Baselines = {k} /\ history[k].evidence = c)
           => BaselineAccepted(c)
=============================================================================
