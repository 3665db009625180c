----------------------------- MODULE LogSpikes ------------------------------
(***************************************************************************)
(* LogAnalyzer.analyze() (log-analyzer.ts): errors in a batch of log       *)
(* entries are reported one by one, and as a spike where enough of them    *)
(* fall into one window.  An entry is a time and a level.                  *)
(***************************************************************************)
EXTENDS Integers, Sequences, FiniteSets, Selection

CONSTANTS
    LogBatches,         \* the batches to analyse, sequences of entries
    ErrorThreshold,
    WindowMs

Entries == [time : Int, level : {"info", "warn", "error", "fatal"}]

ASSUME SpikeAssumption ==
    /\ ErrorThreshold \in Nat \ {0} /\ WindowMs \in Nat
    /\ \A b \in LogBatches : b \in Seq(Entries)

VARIABLES
    analysis,           \* "idle", "read", "scanning", "done"
    logs,               \* the batch
    errorLogs,          \* its errors, each of which is an anomaly by itself
    scanFrom,           \* the error whose window the loop looks at next
    spikes              \* the spikes found: [time, count, severity]

spikeVars == <<analysis, logs, errorLogs, scanFrom, spikes>>

SpikeInit ==
    /\ analysis = "idle" /\ logs = <<>> /\ errorLogs = <<>>
    /\ scanFrom = 1 /\ spikes = {}

(* analyzeLogs(): the batch is read from its file. *)
ReadLogs ==
    /\ analysis = "idle"
    /\ analysis' = "read"
    /\ logs' \in LogBatches
    /\ UNCHANGED <<errorLogs, scanFrom, spikes>>

IsError(entry) == entry.level \in {"error", "fatal"}

(* sort() by the time; entries of one time keep their order. *)
NoLater(batch, i, j) ==
    \/ batch[i].time < batch[j].time
    \/ batch[i].time = batch[j].time /\ i <= j

ByTime(batch, places) == {r \in places \X places : NoLater(batch, r[1], r[2])}

SortedLogs(batch) ==
    LET order == Sorted(DOMAIN batch, ByTime(batch, DOMAIN batch))
    IN  [k \in DOMAIN batch |-> batch[order[k]]]

ErrorsOf(sorted) == Kept(sorted, {k \in DOMAIN sorted : IsError(sorted[k])})

Analyze ==
    /\ analysis = "read"
    /\ analysis' = "scanning"
    /\ errorLogs' = ErrorsOf(SortedLogs(logs))
    /\ UNCHANGED <<logs, scanFrom, spikes>>

(* The errors from the i-th on, up to the first behind the window it opens. *)
CountInWindow(errors, i) ==
    Cardinality({j \in i .. Len(errors) :
                    \A k \in i .. j : errors[k].time <= errors[i].time + WindowMs})

\* Slip: one error too many is skipped after a spike.
NextStartTooFar(i, count) == i + count + 1

(* The loop goes on behind the spike it reported. *)
NextStart(i, count) == i + count

InLoop == scanFrom <= Len(errorLogs) - ErrorThreshold + 1

(* One round of the loop. *)
ScanWindow ==
    /\ analysis = "scanning" /\ InLoop
    /\ LET count == CountInWindow(errorLogs, scanFrom)
       IN  IF count >= ErrorThreshold
           THEN /\ spikes' = spikes \union
                        {[time |-> errorLogs[scanFrom].time, count |-> count,
                          severity |-> IF count >= 2 * ErrorThreshold THEN "CRITICAL" ELSE "HIGH"]}
                /\ scanFrom' = NextStart(scanFrom, count)
           ELSE scanFrom' = scanFrom + 1 /\ UNCHANGED spikes
    /\ UNCHANGED <<analysis, logs, errorLogs>>

ReturnAnomalies ==
    /\ analysis = "scanning" /\ ~InLoop
    /\ analysis' = "done"
    /\ UNCHANGED <<logs, errorLogs, scanFrom, spikes>>

SpikeNext == ReadLogs \/ Analyze \/ ScanWindow \/ ReturnAnomalies

SpikeSpec == SpikeInit /\ [][SpikeNext]_spikeVars

-----------------------------------------------------------------------------
(* The errors of the batch, as it was read, in the window that opens at t. *)
ErrorsWithin(t) ==
    {p \in DOMAIN logs : IsError(logs[p]) /\ logs[p].time \in t .. t + WindowMs}

Within(t, s) == t \in s.time .. s.time + WindowMs

(* No spike is passed over and none is told twice, in whatever order the   *)
(* entries came: an error whose window has enough errors falls into the    *)
(* window of a spike that was reported, a spike counts all the errors of   *)
(* its window, and no two windows reported overlap.                        *)
SpikesCovered ==
    analysis = "done" =>
        /\ \A p \in DOMAIN logs :
              IsError(logs[p]) /\ Cardinality(ErrorsWithin(logs[p].time)) >= ErrorThreshold =>
                  \E s \in spikes : Within(logs[p].time, s)
        /\ \A s \in spikes : s.count = Cardinality(ErrorsWithin(s.time))
        /\ \A s, t \in spikes : s # t => ~Within(t.time, s)
=============================================================================
