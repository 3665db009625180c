-------------------------- MODULE SeverityTiering ---------------------------
(***************************************************************************)
(* SeverityTieringEngine (severity-tiering.ts): a confirmed event gets a   *)
(* tier, which repetition raises, and the tier decides who is told.        *)
(*                                                                         *)
(* Tiers are their weights, 1 LOW to 4 CRITICAL.  marked is the tier that  *)
(* the words of the event and its value call for: that of the most severe  *)
(* list one of its words is on, HIGH at least for a high value, else LOW.  *)
(***************************************************************************)
EXTENDS Integers, Sequences, FiniteSets, Selection

CONSTANTS
    EventTypes,
    MaxEvents,          \* bound on the events of a type, and on the failures
    MaxEventTime,       \* bound on their timestamps
    BurstWindowSecs,
    LowToMedium, MediumToHigh, HighToCritical   \* the thresholds

ASSUME TieringAssumption ==
    /\ MaxEvents \in Nat /\ MaxEventTime \in Nat /\ BurstWindowSecs \in Nat
    /\ {LowToMedium, MediumToHigh, HighToCritical} \subseteq Nat

Tiers == 1 .. 4

VARIABLES
    eventHistory,       \* the timestamps kept of each type
    action,             \* the last action that evaluateAndEscalate() returned
    failures,           \* number of failures in the telemetry stream
    dispatched,         \* the result of the last dispatchEscalation()
    arrivals            \* history: the timestamps of all events of each type

tieringVars == <<eventHistory, action, failures, dispatched, arrivals>>

NoAction == [tier |-> 0, base |-> 0, type |-> "none", targets |-> {}]

TieringInit ==
    /\ eventHistory = [t \in EventTypes |-> <<>>]
    /\ action = NoAction
    /\ failures = 0
    /\ dispatched = "none"
    /\ arrivals = [t \in EventTypes |-> <<>>]

Higher(a, b) == IF a > b THEN a ELSE b

(* An event that repeats is raised to the tier above its own. *)
AfterRepeats(tier, repeats) ==
    IF repeats >= HighToCritical /\ tier >= 3 THEN 4
    ELSE IF repeats >= MediumToHigh /\ tier >= 2 THEN 3
    ELSE IF repeats >= LowToMedium THEN 2
    ELSE tier

AfterBurst(tier, count) ==
    IF count >= HighToCritical /\ tier = 3 THEN 4
    ELSE IF count >= MediumToHigh /\ tier = 2 THEN 3
    ELSE IF count >= LowToMedium /\ tier = 1 THEN 2
    ELSE tier

\* Slip: an event at the very start of the window is forgotten.
ValidHistoryStrict(times, now) ==
    Kept(times, {i \in DOMAIN times : times[i] > now - BurstWindowSecs})

ValidHistory(times, now) ==
    Kept(times, {i \in DOMAIN times : times[i] >= now - BurstWindowSecs})

Targets(tier) ==
    {"telemetry_log"}
    \union (IF tier >= 2 THEN {"dashboard_alert"} ELSE {})
    \union (IF tier = 3 THEN {"on_call_primary"} ELSE {})
    \union (IF tier = 4 THEN {"all_on_call_roles"} ELSE {})

(* evaluateAndEscalate() of an event that classifyEvent() refuses: not     *)
(* confirmed, no id, no time, too large, or with a suspicious text.        *)
Refused ==
    /\ failures < MaxEvents
    /\ failures' = failures + 1
    /\ UNCHANGED <<eventHistory, action, dispatched, arrivals>>

(* evaluateAndEscalate() of an event with rawSeverity raw. *)
EvaluateAndEscalate(type, raw, marked, repeats, now) ==
    LET base == Higher(raw, marked)
        history == Append(ValidHistory(eventHistory[type], now), now)
        tier == AfterBurst(AfterRepeats(base, repeats), Len(history))
    IN  /\ Len(arrivals[type]) < MaxEvents
        /\ eventHistory' = [eventHistory EXCEPT ![type] = history]
        /\ action' = [tier |-> tier, base |-> base, type |-> type, targets |-> Targets(tier)]
        /\ arrivals' = [arrivals EXCEPT ![type] = Append(@, now)]
        /\ dispatched' = "none"
        /\ UNCHANGED failures

(* dispatchEscalation(): the dashboard answers, then the page is tried and *)
(* may throw; both are optional, pushed and paged are TRUE without them.   *)
DispatchEscalation(pushed, paged) ==
    LET pages == action.targets \intersect {"on_call_primary", "all_on_call_roles"} # {}
    IN  /\ action # NoAction /\ dispatched = "none" /\ failures < MaxEvents
        /\ (~pushed => "dashboard_alert" \in action.targets) /\ (~paged => pages)
        /\ dispatched' = IF pushed /\ paged THEN "ok" ELSE "failed"
        /\ failures' = IF paged THEN failures ELSE failures + 1
        /\ UNCHANGED <<eventHistory, action, arrivals>>

(* Below the thresholds, or at one of them: all that repeatCount decides.  *)
Repeats == {0, LowToMedium, MediumToHigh, HighToCritical}

TieringNext ==
    \/ Refused
    \/ \E type \in EventTypes, raw, marked \in Tiers, repeats \in Repeats,
          now \in 1 .. MaxEventTime : EvaluateAndEscalate(type, raw, marked, repeats, now)
    \/ \E pushed, paged \in BOOLEAN : DispatchEscalation(pushed, paged)

TieringSpec == TieringInit /\ [][TieringNext]_tieringVars

-----------------------------------------------------------------------------
InOrder(times) == \A i, j \in DOMAIN times : i < j => times[i] <= times[j]

(* Repetition raises and never lowers: the tier is never below what the    *)
(* event has by itself, and the event that completes a burst, as many as   *)
(* the threshold within the window, is raised unless it is CRITICAL.  The  *)
(* second needs events that come in the order of their time: a late event  *)
(* finds the earlier ones of its window forgotten.  Both need thresholds   *)
(* that do not rise from tier to tier; the defaults are equal.             *)
BurstsRaise ==
    action # NoAction =>
        LET times == arrivals[action.type]
            now == times[Len(times)]
            burst == Cardinality({i \in DOMAIN times : times[i] >= now - BurstWindowSecs})
        IN  /\ action.tier >= action.base
            /\ InOrder(times) /\ action.base < 4 /\ burst >= LowToMedium
                  => action.tier > action.base
=============================================================================
