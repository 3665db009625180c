---------------------------- MODULE NonceWatcher ----------------------------
(***************************************************************************)
(* NonceAnomalyWatcher (watcher/nonce-anomaly-watcher.ts): a timer starts  *)
(* synchronisations that compare the nonce the engine registered for each  *)
(* account with the chain's.                                               *)
(*                                                                         *)
(* syncNonces() keeps a reference to an account's state object across two  *)
(* awaits, the chain's answer and the alert's delivery, while              *)
(* registerEngineNonce() puts a new object into the Map; so the objects    *)
(* live in a heap and the Map holds their numbers.  The timer does not     *)
(* wait for the synchronisation before.                                    *)
(***************************************************************************)
EXTENDS Integers, Sequences, FiniteSets

CONSTANTS
    Accounts,
    Nonces,             \* the nonces an engine or a chain can be at
    Syncs,              \* bound: the synchronisations that can be under way
    HistoryLimit,       \* MAX_DRIFT_HISTORY
    MaxObjects,         \* bound on the registrations
    MaxAlerts,          \* bound on the alerts
    MaxTimers           \* bound on the intervals that run

ASSUME WatcherAssumption ==
    /\ Nonces \subseteq Nat
    /\ HistoryLimit \in Nat \ {0} /\ MaxObjects \in Nat /\ MaxAlerts \in Nat /\ MaxTimers \in Nat

VARIABLES
    heap,               \* the state objects
    order,              \* the accounts of the Map in the order of their insertion
    states,             \* the Map: the object of each account, 0 for none
    timers, handle,     \* the intervals that run; whether syncTimer is set
    sync,               \* where each synchronisation is
    alertHistory,
    raised,             \* history: the alerts raised for each account
    missed              \* history: the updates of each account's objects that had been replaced

watcherVars == <<heap, order, states, timers, handle, sync, alertHistory, raised, missed>>

NotSyncing == [at |-> "none", pos |-> 0, object |-> 0, drift |-> 0, chain |-> 0]

WatcherInit ==
    /\ heap = <<>> /\ order = <<>>
    /\ states = [a \in Accounts |-> 0]
    /\ timers = 0 /\ handle = FALSE
    /\ sync = [s \in Syncs |-> NotSyncing]
    /\ alertHistory = <<>>
    /\ raised = [a \in Accounts |-> 0]
    /\ missed = [a \in Accounts |-> 0]

Drift(engine, chain) == IF engine >= chain THEN engine - chain ELSE chain - engine

-----------------------------------------------------------------------------
\* Slip: a new registration starts the counts again.
RegisteredAnew(a, nonce) ==
    [account |-> a, engineNonce |-> nonce, chainNonce |-> nonce, driftCount |-> 0, maxDrift |-> 0]

(* The object registerEngineNonce() makes: it takes over what the previous *)
(* one had counted.                                                        *)
Registered(a, nonce) ==
    IF states[a] = 0
    THEN [account |-> a, engineNonce |-> nonce, chainNonce |-> nonce, driftCount |-> 0, maxDrift |-> 0]
    ELSE [heap[states[a]] EXCEPT !.engineNonce = nonce]

(* registerEngineNonce() *)
RegisterEngineNonce(a, nonce) ==
    /\ Len(heap) < MaxObjects
    /\ heap' = Append(heap, Registered(a, nonce))
    /\ states' = [states EXCEPT ![a] = Len(heap) + 1]
    /\ order' = IF states[a] = 0 THEN Append(order, a) ELSE order
    /\ UNCHANGED <<timers, handle, sync, alertHistory, raised, missed>>

(* The iteration of a Map is live: it goes on to the account after pos,    *)
(* and takes the object that is in the Map at that moment.                 *)
Visit(pos) ==
    IF pos <= Len(order)
    THEN [at |-> "query", pos |-> pos, object |-> states[order[pos]], drift |-> 0, chain |-> 0]
    ELSE NotSyncing

(* syncNonces() is called: by start(), or by an interval. *)
BeginSync(s) ==
    /\ sync[s].at = "none"
    /\ sync' = [sync EXCEPT ![s] = Visit(1)]

(* start(): a second call forgets the interval of the first. *)
Start(s) ==
    /\ timers < MaxTimers
    /\ BeginSync(s)
    /\ timers' = timers + 1 /\ handle' = TRUE
    /\ UNCHANGED <<heap, order, states, alertHistory, raised, missed>>

IntervalFires(s) ==
    /\ timers > 0
    /\ order # <<>>
    /\ BeginSync(s)
    /\ UNCHANGED <<heap, order, states, timers, handle, alertHistory, raised, missed>>

(* stop(): synchronisations under way go on. *)
Stop ==
    /\ handle
    /\ timers' = timers - 1 /\ handle' = FALSE
    /\ UNCHANGED <<heap, order, states, sync, alertHistory, raised, missed>>

(* getChainNonce() fails, or the nonces agree: on to the next account. *)
NoDrift(s) ==
    /\ sync[s].at = "query"
    /\ sync' = [sync EXCEPT ![s] = Visit(sync[s].pos + 1)]
    /\ UNCHANGED <<heap, order, states, timers, handle, alertHistory, raised, missed>>

(* The chain's nonce differs from the one in the object that was read      *)
(* before the call: the alert goes to the history and to the webhook.      *)
RaiseAlert(s, chain) ==
    LET object == sync[s].object
        drift == Drift(heap[object].engineNonce, chain)
        account == heap[object].account
        history == Append(alertHistory, account)
    IN  /\ sync[s].at = "query"
        /\ drift > 0
        /\ raised[account] < MaxAlerts
        /\ alertHistory' = IF Len(history) > HistoryLimit THEN Tail(history) ELSE history
        /\ raised' = [raised EXCEPT ![account] = @ + 1]
        /\ sync' = [sync EXCEPT ![s].at = "alert", ![s].drift = drift, ![s].chain = chain]
        /\ UNCHANGED <<heap, order, states, timers, handle, missed>>

Updated(s) ==
    [heap[sync[s].object] EXCEPT
        !.chainNonce = sync[s].chain,
        !.driftCount = @ + 1,
        !.maxDrift = IF sync[s].drift > @ THEN sync[s].drift ELSE @]

(* triggerAlert() has returned, whatever became of the webhook and of the  *)
(* audit log, whose errors it swallows: the object is updated, in the Map  *)
(* or no longer.                                                           *)
UpdateState(s) ==
    LET object == sync[s].object
        account == heap[object].account
    IN  /\ sync[s].at = "alert"
        /\ heap' = [heap EXCEPT ![object] = Updated(s)]
        /\ sync' = [sync EXCEPT ![s] = Visit(sync[s].pos + 1)]
        /\ missed' = IF object = states[account] THEN missed
                     ELSE [missed EXCEPT ![account] = @ + 1]
        /\ UNCHANGED <<order, states, timers, handle, alertHistory, raised>>

WatcherNext ==
    \/ \E a \in Accounts, nonce \in Nonces : RegisterEngineNonce(a, nonce)
    \/ \E s \in Syncs : Start(s)
    \/ \E s \in Syncs : IntervalFires(s)
    \/ Stop
    \/ \E s \in Syncs : NoDrift(s)
    \/ \E s \in Syncs, chain \in Nonces : RaiseAlert(s, chain)
    \/ \E s \in Syncs : UpdateState(s)

WatcherSpec == WatcherInit /\ [][WatcherNext]_watcherVars

-----------------------------------------------------------------------------
InFlight(a) ==
    {s \in Syncs : sync[s].at = "alert" /\ heap[sync[s].object].account = a}

(* Every alert raised for an account is in its driftCount, is being        *)
(* delivered, or its update went to an object that a registration had      *)
(* replaced under the synchronisation: overlapping synchronisations lose   *)
(* and repeat nothing between them, and a registration takes over exactly  *)
(* what was counted before it.                                             *)
DriftAccounted ==
    \A a \in Accounts : states[a] # 0 =>
        heap[states[a]].driftCount + Cardinality(InFlight(a)) + missed[a] = raised[a]
=============================================================================
