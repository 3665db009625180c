----------------------------- MODULE MCMonitors -----------------------------
(* Four components that share no state, each on its own: a behaviour is    *)
(* about one of them, and the others stay as they started.                 *)
EXTENDS IngestionGuard, TrafficWatch, BatchProcessor, NonceWatcher

VARIABLE focus

allVars == <<focus, guardVars, trafficVars, batchVars, watcherVars>>

Entry(object, complete, print, size, signatures, throws) ==
    [object |-> object, complete |-> complete, print |-> print, size |-> size,
     signatures |-> signatures, throws |-> throws]

(* Just within the gas limit, and just above it. *)
Fits      == Entry(TRUE, TRUE, 1, 150, 19999, FALSE)
Exceeds   == Entry(TRUE, TRUE, 1, 151, 19999, FALSE)
Throws    == Entry(TRUE, TRUE, 2, 10, 1, TRUE)
Unsigned  == Entry(TRUE, TRUE, 3, 10, -1, FALSE)
TooLarge  == Entry(TRUE, TRUE, 2, 152, 1, FALSE)
Partial   == Entry(TRUE, FALSE, 4, 10, 1, FALSE)
NoObject  == Entry(FALSE, FALSE, 1, 0, 0, FALSE)

MCBatches ==
    { <<>>, <<NoObject, Partial>>, <<Fits, NoObject, Exceeds>>,
      <<TooLarge, Fits, Throws, Unsigned, Fits>>, <<Fits, Unsigned, Throws, Exceeds, Fits, Unsigned>> }

MCInit ==
    \/ focus = "guard" /\ GuardInit /\ TrafficInit /\ WatcherInit /\ BatchInit /\ batch = <<>> /\ limiter = "monitor"
    \/ focus = "traffic" /\ GuardInit /\ TrafficInit /\ WatcherInit /\ BatchInit /\ batch = <<>> /\ now = 0
    \/ focus = "batch" /\ GuardInit /\ TrafficInit /\ WatcherInit /\ BatchInit /\ limiter = "monitor" /\ now = 0
    \/ focus = "watcher" /\ GuardInit /\ TrafficInit /\ WatcherInit /\ BatchInit /\ batch = <<>> /\ limiter = "monitor" /\ now = 0

BatchRuns == focus = "batch" /\ BatchNext /\ UNCHANGED <<focus, guardVars, trafficVars, watcherVars>>

MCNext ==
    \/ focus = "guard" /\ GuardNext /\ UNCHANGED <<focus, trafficVars, batchVars, watcherVars>>
    \/ focus = "traffic" /\ TrafficNext /\ UNCHANGED <<focus, guardVars, batchVars, watcherVars>>
    \/ focus = "watcher" /\ WatcherNext /\ UNCHANGED <<focus, guardVars, trafficVars, batchVars>>
    \/ BatchRuns

MCSpec == MCInit /\ [][MCNext]_allVars /\ WF_allVars(BatchRuns)
=============================================================================
