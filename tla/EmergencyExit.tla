---------------------------- MODULE EmergencyExit ----------------------------
(***************************************************************************)
(* EmergencyExitEngine (audit-guard/src/core/emergency-exit.ts): halts the *)
(* engine, approves withdrawals while it is halted, and recovers it.       *)
(*                                                                         *)
(* Every operation runs behind the _locked flag.  The state is committed   *)
(* before the notification hook is awaited, and the flag stays set until   *)
(* the hook settles; an operation called meanwhile throws and changes      *)
(* nothing.  Callers persist snapshots with getState() and bring one back  *)
(* with setState() or with a new engine.                                   *)
(***************************************************************************)
EXTENDS Integers, Sequences

CONSTANTS
    Auths,              \* signed payloads
    AuthTime,           \* AuthTime[a]: the timestamp signed in a
    Valid,              \* payloads of authorised callers with a good signature
    AuthWindow,         \* authWindowMs
    MaxTime,            \* bound on the clock
    MaxReceipts,        \* bound on the transitions between two rehydrations
    MaxVersion,         \* bound on the state version
    HasNotifyHook       \* whether notifyOnCall is injected

ASSUME ExitAssumption ==
    /\ AuthTime \in [Auths -> Nat]
    /\ Valid \subseteq Auths
    /\ AuthWindow \in Nat /\ MaxTime \in Nat /\ MaxReceipts \in Nat /\ MaxVersion \in Nat
    /\ HasNotifyHook \in BOOLEAN

VARIABLES
    now,            \* Date.now()
    state,          \* the engine state
    locked,         \* _locked
    notifying,      \* ranks of the receipts whose hook has not settled
    persisted,      \* the snapshot the callers keep
    base,           \* history: the version the engine was last rehydrated with
    receipts,       \* history: receipts since then
    withdrawals     \* history: version and approval time of the withdrawals since then

vars == <<now, state, locked, notifying, persisted, base, receipts, withdrawals>>

Statuses == {"ACTIVE", "HALTED", "RECOVERED"}

Snapshots == [status : Statuses, stateVersion : Nat]

-----------------------------------------------------------------------------
Init ==
    /\ now = 0
    /\ state = [status |-> "ACTIVE", stateVersion |-> 0]
    /\ locked = FALSE
    /\ notifying = {}
    /\ persisted = state
    /\ base = state
    /\ receipts = <<>>
    /\ withdrawals = {}

(* requireAuth(): fresh, in either direction, and authorised. *)
RequireAuth(a) ==
    /\ AuthTime[a] - now <= AuthWindow
    /\ now - AuthTime[a] <= AuthWindow
    /\ a \in Valid

(* The state is replaced, the receipt issued, and the hook called. *)
Commit(a, action, status) ==
    LET next == [status |-> status, stateVersion |-> state.stateVersion + 1]
    IN  /\ Len(receipts) < MaxReceipts /\ state.stateVersion < MaxVersion
        /\ state' = next
        /\ receipts' = Append(receipts,
              [auth |-> a, action |-> action, at |-> now,
               priorStateVersion |-> state.stateVersion,
               newStateVersion |-> next.stateVersion])
        /\ locked' = HasNotifyHook
        /\ notifying' = notifying \cup (IF HasNotifyHook THEN {Len(receipts) + 1} ELSE {})
        /\ UNCHANGED <<now, persisted, base, withdrawals>>

\* Slip: the reentrancy guard is missing.
TriggerEmergencyExitUnlocked(a) ==
    /\ state.status # "HALTED"
    /\ RequireAuth(a)
    /\ Commit(a, "HALT", "HALTED")

TriggerEmergencyExit(a) ==
    /\ ~locked
    /\ state.status # "HALTED"
    /\ RequireAuth(a)
    /\ Commit(a, "HALT", "HALTED")

\* Slip: withdrawals are still approved after recovery.
WithdrawFundsNotActive(a) ==
    /\ ~locked
    /\ state.status # "ACTIVE"
    /\ RequireAuth(a)
    /\ withdrawals' = withdrawals \cup {[version |-> state.stateVersion, auth |-> a, at |-> now]}
    /\ UNCHANGED <<now, state, locked, notifying, persisted, base, receipts>>

(* withdrawFunds(): approves an amount the reported balance covers (amounts *)
(* are abstracted: neither is kept), synchronously.                         *)
WithdrawFunds(a) ==
    /\ ~locked
    /\ state.status = "HALTED"
    /\ RequireAuth(a)
    /\ withdrawals' = withdrawals \cup {[version |-> state.stateVersion, auth |-> a, at |-> now]}
    /\ UNCHANGED <<now, state, locked, notifying, persisted, base, receipts>>

RecoverEngine(a) ==
    /\ ~locked
    /\ state.status = "HALTED"
    /\ RequireAuth(a)
    /\ Commit(a, "RECOVERY", "RECOVERED")

\* Slip: a failed notification keeps the lock.
NotifySettlesKeepingLock(i) ==
    /\ i \in notifying
    /\ notifying' = notifying \ {i}
    /\ locked' \in {locked, FALSE}
    /\ UNCHANGED <<now, state, persisted, base, receipts, withdrawals>>

(* The awaited hook resolves or rejects; either way the lock is released. *)
NotifySettles(i) ==
    /\ i \in notifying
    /\ notifying' = notifying \ {i}
    /\ locked' = FALSE
    /\ UNCHANGED <<now, state, persisted, base, receipts, withdrawals>>

(* A caller stores getState(). *)
Persist ==
    /\ persisted' = state
    /\ UNCHANGED <<now, state, locked, notifying, base, receipts, withdrawals>>

(* Both ways of bringing a snapshot back start a new history. *)
Rehydrated ==
    /\ state' = persisted
    /\ base' = persisted
    /\ receipts' = <<>>
    /\ withdrawals' = {}
    /\ UNCHANGED <<now, persisted>>

(* setState() on the running engine: not behind the lock. *)
SetState ==
    /\ Rehydrated
    /\ notifying' = {0 : i \in notifying}
    /\ UNCHANGED locked

(* The process is restarted with the snapshot as initialState. *)
Restart ==
    /\ Rehydrated
    /\ notifying' = {}
    /\ locked' = FALSE

Tick ==
    /\ now < MaxTime
    /\ now' = now + 1
    /\ UNCHANGED <<state, locked, notifying, persisted, base, receipts, withdrawals>>

Next ==
    \/ \E a \in Auths : TriggerEmergencyExit(a) \/ WithdrawFunds(a) \/ RecoverEngine(a)
    \/ \E i \in notifying : NotifySettles(i)
    \/ Persist \/ SetState \/ Restart \/ Tick

SafetySpec == Init /\ [][Next]_vars

(* The hook's promise settles. *)
Spec == SafetySpec /\ WF_vars(\E i \in notifying : NotifySettles(i))

-----------------------------------------------------------------------------
ReceiptStates ==
    [auth : Auths, action : {"HALT", "RECOVERY"}, at : Nat,
     priorStateVersion : Nat, newStateVersion : Nat]

TypeOK ==
    /\ now \in Nat
    /\ state \in Snapshots /\ persisted \in Snapshots /\ base \in Snapshots
    /\ locked \in BOOLEAN
    /\ notifying \subseteq Nat
    /\ receipts \in Seq(ReceiptStates)
    /\ withdrawals \subseteq [version : Nat, auth : Auths, at : Nat]

Halting(i) ==
    IF i = 0 THEN base.status = "HALTED" ELSE receipts[i].action = "HALT"

(* The receipts are a gapless chain of versions in which halts and         *)
(* recoveries alternate, and the state is what the last one says: no halt  *)
(* is issued for an engine that is halted already.                         *)
ReceiptsChain ==
    /\ state.stateVersion = base.stateVersion + Len(receipts)
    /\ (state.status = "HALTED") = Halting(Len(receipts))
    /\ \A i \in 1 .. Len(receipts) :
          /\ receipts[i].priorStateVersion = base.stateVersion + i - 1
          /\ receipts[i].newStateVersion = base.stateVersion + i
          /\ Halting(i) # Halting(i - 1)

(* Transitions are announced one at a time and in order: while a hook is   *)
(* outstanding the engine is locked and no later transition is committed.  *)
AnnouncedInOrder ==
    /\ notifying # {} => locked
    /\ notifying \subseteq {0, Len(receipts)}
    /\ \A i, j \in notifying : i = j

(* State, receipts and announcements tell one story: each halt and each    *)
(* recovery takes the version after the last one, and is announced before  *)
(* the next may begin.                                                     *)
TransitionsSerial == ReceiptsChain /\ AnnouncedInOrder

(* A withdrawal is approved only under a version at which the engine was   *)
(* halted, by a payload that was fresh then.                               *)
WithdrawnWhileHalted ==
    \A w \in withdrawals :
        /\ w.version - base.stateVersion \in 0 .. Len(receipts)
        /\ Halting(w.version - base.stateVersion)
        /\ w.at - AuthTime[w.auth] <= AuthWindow

(* The lock is never kept for good, so an engine that was halted can be    *)
(* withdrawn from and recovered.                                           *)
LockIsReleased == locked ~> ~locked
==============================================================================
