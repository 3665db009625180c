------------------------ MODULE ProtocolStateMachine ------------------------
(***************************************************************************)
(* protocol-state-machine.ts: the in-memory record of the scan lifecycle   *)
(* IDLE -> SCANNING -> REPORTING -> DONE/FAILED that the policy engine     *)
(* feeds with events.  An event is accepted (and recorded in a capped      *)
(* history) or refused with an error and no state change.                  *)
(*                                                                         *)
(* Timestamps matter only through the skew test, so an event carries       *)
(* `skewed`: whether its timestamp is outside the window around now.       *)
(* Snapshot hashes are a function of the record sequence and are left out; *)
(* the sequence itself is kept.                                            *)
(* Observers are told of commits and refusals and do not call back into    *)
(* the machine, like the console observer the policy engine installs.      *)
(***************************************************************************)
EXTENDS Integers, Sequences

CONSTANTS
    ScanIds,            \* scan identifiers
    NoScan,             \* null
    MaxHistoryDepth,    \* options.maxHistoryDepth
    MaxTransitions      \* bound: no event is offered beyond this many commits

ASSUME MachineAssumption ==
    /\ NoScan \notin ScanIds
    /\ MaxHistoryDepth \in Nat
    /\ MaxTransitions \in Nat

VARIABLES
    state, activeScanId, transitionCount, history, shutdown,
    errors      \* codes of the errors the observers have been told of

machineVars == <<state, activeScanId, transitionCount, history, shutdown, errors>>

States == {"IDLE", "SCANNING", "REPORTING", "DONE", "FAILED"}

ScanEvents == {"SCAN_STARTED", "SCAN_COMPLETED", "SCAN_FAILED",
               "REPORT_STARTED", "REPORT_DELIVERED", "REPORT_FAILED"}

ErrorCodes == {"INVALID_TRANSITION", "SCAN_ID_MISMATCH",
               "TIMESTAMP_VIOLATION", "STATE_MACHINE_SHUTDOWN"}

(* RESET carries no scanId. *)
Events ==
    [type : ScanEvents, scanId : ScanIds, skewed : BOOLEAN]
        \cup [type : {"RESET"}, scanId : {NoScan}, skewed : BOOLEAN]

TransitionRecord ==
    [seq : Nat, fromState : States, toState : States,
     type : ScanEvents \cup {"RESET"}, scanId : ScanIds \cup {NoScan}]

(* The transition table; {} where it has no entry. *)
Transitions(from, type) ==
    CASE from = "IDLE" /\ type = "SCAN_STARTED" -> {"SCANNING"}
      [] from = "SCANNING" /\ type = "SCAN_COMPLETED" -> {"REPORTING"}
      [] from = "SCANNING" /\ type = "SCAN_FAILED" -> {"FAILED"}
      [] from = "REPORTING" /\ type = "REPORT_STARTED" -> {"REPORTING"}
      [] from = "REPORTING" /\ type = "REPORT_DELIVERED" -> {"DONE"}
      [] from = "REPORTING" /\ type = "REPORT_FAILED" -> {"FAILED"}
      [] OTHER -> {}

-----------------------------------------------------------------------------
(* The machine as one value, so that a handler that applies several events *)
(* without yielding can be written as a composition of ApplyEvent.         *)

Machine ==
    [state |-> state, activeScanId |-> activeScanId, count |-> transitionCount,
     history |-> history, shutdown |-> shutdown, errors |-> errors]

Becomes(m) ==
    /\ state' = m.state
    /\ activeScanId' = m.activeScanId
    /\ transitionCount' = m.count
    /\ history' = m.history
    /\ shutdown' = m.shutdown
    /\ errors' = m.errors

\* Slip: the scan id of an event is not compared with the active scan's.
RefusalNoScanIdCheck(m, e) ==
    IF m.shutdown THEN "STATE_MACHINE_SHUTDOWN"
    ELSE IF e.skewed THEN "TIMESTAMP_VIOLATION"
    ELSE IF e.type = "RESET" THEN "none"
    ELSE IF Transitions(m.state, e.type) = {} THEN "INVALID_TRANSITION"
    ELSE "none"

(* The checks of apply(), in the code's order. *)
Refusal(m, e) ==
    IF m.shutdown THEN "STATE_MACHINE_SHUTDOWN"
    ELSE IF e.skewed THEN "TIMESTAMP_VIOLATION"
    ELSE IF e.type = "RESET" THEN "none"
    ELSE IF /\ e.type # "SCAN_STARTED"
            /\ m.activeScanId \notin {NoScan, e.scanId} THEN "SCAN_ID_MISMATCH"
    ELSE IF Transitions(m.state, e.type) = {} THEN "INVALID_TRANSITION"
    ELSE "none"

(* history.push(record), then shift() once the cap is exceeded. *)
PushCapped(h, r) ==
    IF Len(h) + 1 > MaxHistoryDepth THEN Tail(Append(h, r)) ELSE Append(h, r)

(* _commit *)
Commit(m, toState, e) ==
    [m EXCEPT
        !.state = toState,
        !.count = m.count + 1,
        !.activeScanId = IF e.type = "SCAN_STARTED" THEN e.scanId
                         ELSE IF toState = "IDLE" THEN NoScan
                         ELSE m.activeScanId,
        !.history = PushCapped(m.history,
            [seq |-> m.count + 1, fromState |-> m.state, toState |-> toState,
             type |-> e.type, scanId |-> e.scanId])]

(* apply().  A refused event only tells the observers. *)
ApplyEvent(m, e) ==
    IF Refusal(m, e) # "none"
    THEN [m EXCEPT !.errors = m.errors \cup {Refusal(m, e)}]
    ELSE IF e.type = "RESET" THEN Commit(m, "IDLE", e)
    ELSE Commit(m, CHOOSE s \in Transitions(m.state, e.type) : TRUE, e)

-----------------------------------------------------------------------------
MachineInit ==
    /\ state = "IDLE"
    /\ activeScanId = NoScan
    /\ transitionCount = 0
    /\ history = <<>>
    /\ shutdown = FALSE
    /\ errors = {}

Apply(e) ==
    /\ transitionCount < MaxTransitions
    /\ Becomes(ApplyEvent(Machine, e))

Shutdown ==
    /\ shutdown' = TRUE
    /\ UNCHANGED <<state, activeScanId, transitionCount, history, errors>>

MachineNext ==
    \/ \E e \in Events : Apply(e)
    \/ Shutdown

MachineSpec == MachineInit /\ [][MachineNext]_machineVars

-----------------------------------------------------------------------------
MachineTypeOK ==
    /\ state \in States
    /\ activeScanId \in ScanIds \cup {NoScan}
    /\ transitionCount \in Nat
    /\ history \in Seq(TransitionRecord)
    /\ shutdown \in BOOLEAN
    /\ errors \subseteq ErrorCodes

(* The history is the unbroken tail of the accepted transitions: at most   *)
(* maxHistoryDepth records, numbered consecutively up to transitionCount,  *)
(* each starting where the one before ended, the last ending in the        *)
(* current state.                                                          *)
HistoryIsUnbrokenTail ==
    /\ Len(history) <= MaxHistoryDepth
    /\ Len(history) <= transitionCount
    /\ Len(history) < MaxHistoryDepth => Len(history) = transitionCount
    /\ \A i \in 1 .. Len(history) :
          history[i].seq = transitionCount - Len(history) + i
    /\ \A i \in 1 .. Len(history) - 1 :
          history[i].toState = history[i + 1].fromState
    /\ Len(history) > 0 => history[Len(history)].toState = state

(* Within the retained history the records of one session, from a          *)
(* SCAN_STARTED to the next RESET, all carry the scan id that opened it:   *)
(* an event of another scan is never recorded in between.                  *)
OneScanPerSession ==
    \A i \in 1 .. Len(history) - 1 :
        /\ history[i].type # "RESET" /\ history[i + 1].type # "RESET"
        => history[i + 1].scanId = history[i].scanId

(* What an auditor can read from the machine: the history is an unbroken   *)
(* tail of the accepted transitions, in which every session, from its      *)
(* SCAN_STARTED to the next RESET, belongs to one scan -- through refused   *)
(* events, evictions at the cap, resets in the middle and a shutdown.      *)
HistoryFaithful == HistoryIsUnbrokenTail /\ OneScanPerSession
=============================================================================
