--------------------------- MODULE BatchProcessor ---------------------------
(***************************************************************************)
(* BatchContractCallProcessor (batch-contract-call-processor.ts) with the  *)
(* GasProfiler it calls (gas-profiler.ts): a batch of call descriptors is  *)
(* validated, and the valid ones go through a pool of workers that share   *)
(* one index.                                                              *)
(*                                                                         *)
(* A worker runs from one await to the next without interruption: it takes *)
(* an index, profiles that entry and waits; which waiting worker goes on   *)
(* next is left open.  An entry is a record: object says whether it is an  *)
(* object at all, complete whether address, method and payload are there,  *)
(* print stands for its fingerprint, and throws for a profiler that was    *)
(* injected and throws on it.  process() of something that is not an array *)
(* returns at once and is left out.                                        *)
(***************************************************************************)
EXTENDS Integers, Sequences, FiniteSets, Selection

CONSTANTS
    Batches,            \* the sequences of entries process() is called with
    MaxConcurrency,     \* maxConcurrency; the constructor makes it at least 1
    MaxPayload          \* maxPayloadBytes

(* A size or a number of signatures below 0 is one the profiler refuses. *)
Descriptors ==
    [object : BOOLEAN, complete : BOOLEAN, print : Nat, size : Int, signatures : Int,
     throws : BOOLEAN]

ASSUME BatchAssumption ==
    /\ \A b \in Batches : b \in Seq(Descriptors)
    /\ MaxConcurrency \in Nat \ {0} /\ MaxPayload \in Nat \ {0}

VARIABLES
    batch,
    nextIndex,          \* the index the workers share
    holding,            \* the task each worker waits for, 0 for none
    poolResults,
    entries,            \* the entries of the BatchResult, <<>> before it is returned
    returned,
    simulations         \* history: how often each entry was profiled

batchVars == <<batch, nextIndex, holding, poolResults, entries, returned, simulations>>

Workers == 1 .. MaxConcurrency

-----------------------------------------------------------------------------
(* GasProfiler.simulate() for one operation, as processEntry() calls it.   *)
BaseFee == 100
FeePerSignature == 500
FeePerByte == 2
LowComplexity == 100
MaxGasLimit == 10000000

TotalGas(e) ==
    BaseFee + e.signatures * FeePerSignature + LowComplexity + e.size * FeePerByte

Severity(gas) ==
    IF gas > MaxGasLimit THEN "CRITICAL"
    ELSE IF gas * 10 > MaxGasLimit * 8 THEN "HIGH"
    ELSE IF gas * 2 > MaxGasLimit THEN "MEDIUM" ELSE "LOW"

(* A request it calls invalid has severity LOW and is not ok. *)
Simulate(e) ==
    IF e.signatures < 0 \/ e.size < 0 THEN [ok |-> FALSE, severity |-> "LOW"]
    ELSE [ok |-> TRUE, severity |-> Severity(TotalGas(e))]

-----------------------------------------------------------------------------
(* validateDescriptor(): an error, or "" for a valid entry. *)
ValidationError(e) ==
    IF ~(e.object /\ e.complete) THEN "INVALID_DESCRIPTOR"
    ELSE IF e.size > MaxPayload THEN "PAYLOAD_TOO_LARGE" ELSE ""

(* Every entry that shares its fingerprint with another, the invalid ones  *)
(* included.                                                               *)
IsDuplicate(i) ==
    batch[i].object /\ \E j \in DOMAIN batch \ {i} : batch[j].object /\ batch[j].print = batch[i].print

EntryResult(i, ok, error) == [index |-> i, ok |-> ok, duplicate |-> IsDuplicate(i), error |-> error]

(* processEntry() *)
ProcessEntry(i) ==
    LET gas == Simulate(batch[i])
    IN  IF batch[i].throws THEN EntryResult(i, FALSE, "PROFILER_ERROR")
        ELSE IF gas.severity = "CRITICAL" THEN EntryResult(i, FALSE, "GAS_LIMIT_EXCEEDED")
        ELSE EntryResult(i, gas.ok, IF gas.ok THEN "" ELSE "INVALID_REQUEST")

(* poolTasks: the valid entries in order, each with its slot. *)
PoolTasks ==
    LET valid == {i \in DOMAIN batch : ValidationError(batch[i]) = ""}
    IN  Sorted(valid, NotAbove(valid))

BatchInit ==
    /\ batch \in Batches
    /\ nextIndex = 1
    /\ holding = [w \in Workers |-> 0]
    /\ poolResults = <<>>
    /\ entries = <<>>
    /\ returned = FALSE
    /\ simulations = [i \in DOMAIN batch |-> 0]

Started == poolResults # <<>>

(* Promise.all of the workers has settled, or there was nothing to do. *)
PoolDone ==
    /\ \A w \in Workers : holding[w] = 0
    /\ Started \/ PoolTasks = <<>>

Smallest(a, b) == IF a <= b THEN a ELSE b

(* The workers are started one after the other, each up to its first await. *)
StartPool ==
    LET n == Smallest(MaxConcurrency, Len(PoolTasks))
    IN  /\ ~Started /\ ~returned /\ n > 0
        /\ poolResults' = [j \in DOMAIN PoolTasks |-> EntryResult(PoolTasks[j], FALSE, "undefined")]
        /\ holding' = [w \in Workers |-> IF w <= n THEN w ELSE 0]
        /\ nextIndex' = n + 1
        /\ simulations' = [i \in DOMAIN batch |->
              IF \E j \in 1 .. n : PoolTasks[j] = i THEN 1 ELSE 0]
        /\ UNCHANGED <<batch, entries, returned>>

\* Slip: the worker increments the index when its task is done, not before it waits.
ResumeLate(w) ==
    LET next == IF holding[w] = nextIndex THEN nextIndex + 1 ELSE nextIndex
        more == next <= Len(PoolTasks)
    IN  /\ holding[w] # 0
        /\ poolResults' = [poolResults EXCEPT ![holding[w]] = ProcessEntry(PoolTasks[holding[w]])]
        /\ holding' = [holding EXCEPT ![w] = IF more THEN next ELSE 0]
        /\ nextIndex' = next
        /\ simulations' = IF more THEN [simulations EXCEPT ![PoolTasks[next]] = @ + 1] ELSE simulations
        /\ UNCHANGED <<batch, entries, returned>>

(* A worker's await ends: it stores the result and takes the next task, or *)
(* ends.                                                                   *)
Resume(w) ==
    /\ holding[w] # 0
    /\ poolResults' = [poolResults EXCEPT ![holding[w]] = ProcessEntry(PoolTasks[holding[w]])]
    /\ IF nextIndex <= Len(PoolTasks)
          THEN /\ holding' = [holding EXCEPT ![w] = nextIndex]
               /\ nextIndex' = nextIndex + 1
               /\ simulations' = [simulations EXCEPT ![PoolTasks[nextIndex]] = @ + 1]
          ELSE /\ holding' = [holding EXCEPT ![w] = 0]
               /\ UNCHANGED <<nextIndex, simulations>>
    /\ UNCHANGED <<batch, entries, returned>>

(* All workers have ended: the pool's results go to their slots between    *)
(* the entries that failed validation.                                     *)
Return ==
    /\ ~returned
    /\ PoolDone
    /\ entries' = [i \in DOMAIN batch |->
          IF ValidationError(batch[i]) # ""
          THEN EntryResult(i, FALSE, ValidationError(batch[i]))
          ELSE poolResults[CHOOSE j \in DOMAIN PoolTasks : PoolTasks[j] = i]]
    /\ returned' = TRUE
    /\ UNCHANGED <<batch, nextIndex, holding, poolResults, simulations>>

BatchNext == StartPool \/ (\E w \in Workers : Resume(w)) \/ Return

(* The event loop runs what is ready. *)
BatchFairness == WF_batchVars(BatchNext)

BatchSpec == BatchInit /\ [][BatchNext]_batchVars /\ BatchFairness

-----------------------------------------------------------------------------
(* Every entry has its own result in its own place, whatever order the     *)
(* workers ended in; it was profiled once if it is valid and never         *)
(* otherwise, and a duplicate is flagged on both sides.                    *)
EachEntryOnce ==
    /\ Len(entries) = Len(batch)
    /\ \A i \in DOMAIN batch :
          /\ entries[i].index = i
          /\ entries[i].error # "undefined"
          /\ simulations[i] = IF ValidationError(batch[i]) = "" THEN 1 ELSE 0
    /\ \A i, j \in DOMAIN batch :
          i # j /\ batch[i].object /\ batch[j].object /\ batch[i].print = batch[j].print
              => entries[i].duplicate

(* "Never throws": process() returns, whatever the entries do to the       *)
(* profiler, and its workers have shared the batch out without losing an   *)
(* entry or profiling one twice.                                           *)
BatchCompletes == (batch # <<>>) ~> (returned /\ EachEntryOnce)
=============================================================================
