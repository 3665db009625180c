---------------------------- MODULE AuditProofs -----------------------------
(***************************************************************************)
(* Proofs about what an audit leaves behind, for any number of             *)
(* evaluations, reports and processes: the history of the protocol state   *)
(* machine and the policy engine's verdicts, the lines of the log in their *)
(* archive and backup, the hashes anchored on the ledger; and, for every   *)
(* policy of roles, what the RBAC audit finds in it.                       *)
(***************************************************************************)
EXTENDS PolicyEvaluation, ReportAnchor, ReportStore, RoleMapper, FiniteSetTheorems,
        TLAPS

(* The machine as a value, as Machine and Becomes handle it. *)
Machines ==
    [state : States, activeScanId : ScanIds \cup {NoScan}, count : Nat,
     history : Seq(TransitionRecord), shutdown : BOOLEAN, errors : SUBSET ErrorCodes]

UnbrokenTail(h, count, s) ==
    /\ Len(h) <= MaxHistoryDepth
    /\ Len(h) <= count
    /\ Len(h) < MaxHistoryDepth => Len(h) = count
    /\ \A i \in 1 .. Len(h) : h[i].seq = count - Len(h) + i
    /\ \A i \in 1 .. Len(h) - 1 : h[i].toState = h[i + 1].fromState
    /\ Len(h) > 0 => h[Len(h)].toState = s

Unbroken(m) == UnbrokenTail(m.history, m.count, m.state)

OneScan(m) ==
    \A i \in 1 .. Len(m.history) - 1 :
        /\ m.history[i].type # "RESET" /\ m.history[i + 1].type # "RESET"
        => m.history[i + 1].scanId = m.history[i].scanId

(* What OneScan needs of the present: the machine is outside a session     *)
(* exactly when no scan is active, and inside one the newest record bears  *)
(* the active scan's id.                                                   *)
InSession(m) ==
    /\ m.state = "IDLE" <=> m.activeScanId = NoScan
    /\ Len(m.history) > 0 /\ m.history[Len(m.history)].type # "RESET" =>
          m.state # "IDLE" /\ m.history[Len(m.history)].scanId = m.activeScanId

MachineInv(m) == m \in Machines /\ Unbroken(m) /\ OneScan(m) /\ InSession(m)

-----------------------------------------------------------------------------
(* A table entry has one target; a scan starts from IDLE and nothing else  *)
(* does, and only RESET leads there.                                       *)
LEMMA TransitionTarget ==
    ASSUME NEW from, NEW type, Transitions(from, type) # {}
    PROVE  LET to == CHOOSE s \in Transitions(from, type) : TRUE
           IN  /\ to \in States \ {"IDLE"}
               /\ Transitions(from, type) = {to}
               /\ type \in ScanEvents
               /\ from = "IDLE" <=> type = "SCAN_STARTED"
  BY DEF Transitions, States, ScanEvents

(* The capped push keeps the newest records, in their order: all but the   *)
(* oldest d, where d is 1 exactly when the history is full.                *)
LEMMA PushCappedKeepsTail ==
    ASSUME NEW h \in Seq(TransitionRecord), NEW r \in TransitionRecord,
           Len(h) <= MaxHistoryDepth
    PROVE  \E d \in {0, 1} :
               /\ d = 0 <=> Len(h) < MaxHistoryDepth
               /\ PushCapped(h, r) \in Seq(TransitionRecord)
               /\ Len(PushCapped(h, r)) = Len(h) + 1 - d
               /\ \A i \in 1 .. Len(h) - d : PushCapped(h, r)[i] = h[i + d]
               /\ Len(h) + 1 - d > 0 => PushCapped(h, r)[Len(h) + 1 - d] = r
  <1>1. /\ Append(h, r) \in Seq(TransitionRecord) /\ Len(Append(h, r)) = Len(h) + 1
        /\ \A i \in 1 .. Len(h) : Append(h, r)[i] = h[i]
        /\ Append(h, r)[Len(h) + 1] = r
    OBVIOUS
  <1>2. CASE Len(h) + 1 > MaxHistoryDepth
    <2> DEFINE k == Tail(Append(h, r))
    <2>1. /\ k \in Seq(TransitionRecord) /\ Len(k) = Len(h)
          /\ \A i \in 1 .. Len(h) : k[i] = Append(h, r)[i + 1]
      BY <1>1
    <2>2. PushCapped(h, r) = k
      BY <1>2 DEF PushCapped
    <2> HIDE DEF k
    <2>3. \A i \in 1 .. Len(h) - 1 : k[i] = h[i + 1]
      BY <1>1, <2>1
    <2>4. Len(h) > 0 => k[Len(h)] = r
      BY <1>1, <2>1
    <2>5. QED
      BY <1>2, <2>1, <2>2, <2>3, <2>4, MachineAssumption
  <1>3. CASE ~(Len(h) + 1 > MaxHistoryDepth)
    <2>1. PushCapped(h, r) = Append(h, r)
      BY <1>3 DEF PushCapped
    <2>2. QED
      BY <1>1, <1>3, <2>1, MachineAssumption
  <1>4. QED
    BY <1>2, <1>3

(* A commit of an event that fits the machine's state keeps its invariant. *)
LEMMA CommitKeeps ==
    ASSUME NEW m, MachineInv(m), NEW e \in Events, NEW to \in States,
           e.type = "RESET" <=> to = "IDLE",
           e.type = "SCAN_STARTED" => m.state = "IDLE",
           e.type \notin {"RESET", "SCAN_STARTED"} =>
               m.state # "IDLE" /\ m.activeScanId = e.scanId
    PROVE  MachineInv(Commit(m, to, e))
  <1> DEFINE r == [seq |-> m.count + 1, fromState |-> m.state, toState |-> to,
                   type |-> e.type, scanId |-> e.scanId]
             h == m.history
             k == PushCapped(h, r)
             n == Commit(m, to, e)
             a == IF e.type = "SCAN_STARTED" THEN e.scanId
                  ELSE IF to = "IDLE" THEN NoScan ELSE m.activeScanId
  <1>1. /\ m \in Machines /\ h \in Seq(TransitionRecord) /\ Len(h) \in Nat
        /\ m.count \in Nat /\ m.state \in States
    BY DEF MachineInv, Machines
  <1>2. /\ e.type \in ScanEvents \cup {"RESET"} /\ e.scanId \in ScanIds \cup {NoScan}
        /\ e.type # "RESET" => e.scanId \in ScanIds
    BY DEF Events, ScanEvents
  <1>3. r \in TransitionRecord
    BY <1>1, <1>2 DEF TransitionRecord
  <1>4. /\ Len(h) <= MaxHistoryDepth /\ Len(h) <= m.count
        /\ Len(h) < MaxHistoryDepth => Len(h) = m.count
        /\ \A i \in 1 .. Len(h) : h[i].seq = m.count - Len(h) + i
        /\ \A i \in 1 .. Len(h) - 1 : h[i].toState = h[i + 1].fromState
        /\ Len(h) > 0 => h[Len(h)].toState = m.state
    BY DEF MachineInv, Unbroken, UnbrokenTail
  <1>5. /\ \A i \in 1 .. Len(h) - 1 :
              h[i].type # "RESET" /\ h[i + 1].type # "RESET" => h[i + 1].scanId = h[i].scanId
        /\ Len(h) > 0 /\ h[Len(h)].type # "RESET" =>
              m.state # "IDLE" /\ h[Len(h)].scanId = m.activeScanId
    BY DEF MachineInv, OneScan, InSession
  <1>6. a \in ScanIds \cup {NoScan} /\ (to = "IDLE" <=> a = NoScan)
    BY <1>2, MachineAssumption DEF MachineInv, Machines, InSession, ScanEvents
  <1>7. e.type # "RESET" => a = e.scanId
    BY <1>2
  <1> HIDE DEF k, h, n, a
  <1>8. PICK d \in {0, 1} :
            /\ d = 0 <=> Len(h) < MaxHistoryDepth
            /\ k \in Seq(TransitionRecord)
            /\ Len(k) = Len(h) + 1 - d
            /\ \A i \in 1 .. Len(h) - d : k[i] = h[i + d]
            /\ Len(h) + 1 - d > 0 => k[Len(h) + 1 - d] = r
    BY <1>1, <1>3, <1>4, PushCappedKeepsTail DEF k
  <1>9. /\ n \in Machines
        /\ n.state = to /\ n.activeScanId = a /\ n.count = m.count + 1 /\ n.history = k
    <2>1. n = [m EXCEPT !.state = to, !.count = m.count + 1, !.activeScanId = a, !.history = k]
      BY DEF Commit, k, n, a, h
    <2>2. m.count + 1 \in Nat
      BY <1>1
    <2>3. QED
      BY <2>1, <2>2, <1>1, <1>6, <1>8 DEF Machines
  <1>10. Unbroken(n)
    <2>1. \A i \in 1 .. Len(k) : k[i].seq = m.count + 1 - Len(k) + i
      <3> TAKE i \in 1 .. Len(k)
      <3>1. CASE i \in 1 .. Len(h) - d
        <4>1. k[i] = h[i + d] /\ i + d \in 1 .. Len(h)
          BY <3>1, <1>1, <1>8
        <4>2. h[i + d].seq = m.count - Len(h) + (i + d)
          BY <4>1, <1>4
        <4>3. m.count + 1 - Len(k) + i = m.count - Len(h) + (i + d)
          BY <1>1, <1>8
        <4>4. QED
          BY <4>1, <4>2, <4>3
      <3>2. CASE i = Len(h) + 1 - d
        BY <3>2, <1>1, <1>8
      <3>3. QED
        BY <3>1, <3>2, <1>1, <1>8
    <2>2. \A i \in 1 .. Len(k) - 1 : k[i].toState = k[i + 1].fromState
      <3> TAKE i \in 1 .. Len(k) - 1
      <3>1. CASE i \in 1 .. Len(h) - d - 1
        <4>1. k[i] = h[i + d] /\ k[i + 1] = h[i + d + 1] /\ i + d \in 1 .. Len(h) - 1
          BY <3>1, <1>1, <1>8
        <4>2. QED
          BY <4>1, <1>4
      <3>2. CASE i = Len(h) - d
        <4>1. k[i] = h[Len(h)] /\ k[i + 1] = r /\ Len(h) > 0
          BY <3>2, <1>1, <1>8
        <4>2. QED
          BY <4>1, <1>4
      <3>3. QED
        BY <3>1, <3>2, <1>1, <1>8
    <2>3. Len(k) > 0 => k[Len(k)].toState = to
      BY <1>8
    <2>4. /\ Len(k) <= MaxHistoryDepth /\ Len(k) <= m.count + 1
          /\ Len(k) < MaxHistoryDepth => Len(k) = m.count + 1
      BY <1>1, <1>4, <1>8, MachineAssumption
    <2>5. Len(k) \in Nat /\ m.count \in Nat
      BY <1>1, <1>8
    <2>6. UnbrokenTail(k, m.count + 1, to)
      BY <2>1, <2>2, <2>3, <2>4, <2>5 DEF UnbrokenTail
    <2>7. QED
      BY <2>6, <1>9 DEF Unbroken
  <1>11. OneScan(n)
    <2> SUFFICES ASSUME NEW i \in 1 .. Len(k) - 1, k[i].type # "RESET", k[i + 1].type # "RESET"
                 PROVE  k[i + 1].scanId = k[i].scanId
      BY <1>9 DEF OneScan
    <2>1. CASE i \in 1 .. Len(h) - d - 1
      <3>1. k[i] = h[i + d] /\ k[i + 1] = h[i + d + 1] /\ i + d \in 1 .. Len(h) - 1
        BY <2>1, <1>1, <1>8
      <3>2. QED
        BY <3>1, <1>5
    <2>2. CASE i = Len(h) - d
      <3>1. k[i] = h[Len(h)] /\ k[i + 1] = r /\ Len(h) > 0
        BY <2>2, <1>1, <1>8
      <3>2. QED
        BY <3>1, <1>5
    <2>3. QED
      BY <2>1, <2>2, <1>1, <1>8
  <1>12. InSession(n)
    <2>1. Len(k) > 0 => k[Len(k)] = r
      BY <1>8
    <2>2. QED
      BY <2>1, <1>6, <1>7, <1>9 DEF InSession
  <1>13. QED
    BY <1>9, <1>10, <1>11, <1>12 DEF MachineInv, n

(* apply() keeps the machine's invariant, whatever event it is given.      *)
LEMMA ApplyKeeps ==
    ASSUME NEW m, MachineInv(m), NEW e \in Events
    PROVE  MachineInv(ApplyEvent(m, e))
  <1>1. CASE Refusal(m, e) # "none"
    <2>1. Refusal(m, e) \in ErrorCodes
      BY <1>1 DEF Refusal, ErrorCodes
    <2>2. ApplyEvent(m, e) = [m EXCEPT !.errors = m.errors \cup {Refusal(m, e)}]
      BY <1>1 DEF ApplyEvent
    <2>3. QED
      BY <2>1, <2>2 DEF MachineInv, Machines, Unbroken, OneScan, InSession
  <1>2. CASE Refusal(m, e) = "none" /\ e.type = "RESET"
    <2>1. ApplyEvent(m, e) = Commit(m, "IDLE", e)
      BY <1>2 DEF ApplyEvent
    <2>2. QED
      BY <2>1, <1>2, CommitKeeps DEF States
  <1>3. CASE Refusal(m, e) = "none" /\ e.type # "RESET"
    <2> DEFINE to == CHOOSE s \in Transitions(m.state, e.type) : TRUE
    <2>1. /\ Transitions(m.state, e.type) # {}
          /\ e.type # "SCAN_STARTED" => m.activeScanId \in {NoScan, e.scanId}
      BY <1>3 DEF Refusal
    <2>2. ApplyEvent(m, e) = Commit(m, to, e)
      BY <1>3 DEF ApplyEvent
    <2>3. to \in States \ {"IDLE"} /\ (m.state = "IDLE" <=> e.type = "SCAN_STARTED")
      BY <2>1, TransitionTarget
    <2> HIDE DEF to
    <2>4. e.type # "SCAN_STARTED" => m.activeScanId = e.scanId
      BY <2>1, <2>3 DEF MachineInv, InSession
    <2>5. QED
      BY <1>3, <2>2, <2>3, <2>4, CommitKeeps
  <1>4. QED
    BY <1>1, <1>2, <1>3

-----------------------------------------------------------------------------
(* What the invariant says of the machine as a value holds of its          *)
(* variables.                                                              *)
LEMMA MachineNow ==
    MachineInv(Machine) => MachineTypeOK /\ HistoryFaithful
  BY DEF MachineInv, Machines, Machine, Unbroken, UnbrokenTail, OneScan, MachineTypeOK,
         HistoryFaithful, HistoryIsUnbrokenTail, OneScanPerSession

(* Becomes assigns the whole machine. *)
LEMMA BecomesMachine ==
    ASSUME NEW m \in Machines, Becomes(m) PROVE Machine' = m
  BY DEF Becomes, Machine, Machines

(* A new machine is idle and has no history. *)
LEMMA MachineInitial == MachineInit => MachineInv(Machine)
  <1> SUFFICES ASSUME MachineInit PROVE MachineInv(Machine)
    OBVIOUS
  <1>1. Machine = [state |-> "IDLE", activeScanId |-> NoScan, count |-> 0,
                   history |-> <<>>, shutdown |-> FALSE, errors |-> {}]
    BY Zenon DEF MachineInit, Machine
  <1>2. "IDLE" \in States /\ <<>> \in Seq(TransitionRecord) /\ Len(<<>>) = 0
    BY DEF States
  <1>3. Machine \in Machines
    BY <1>1, <1>2 DEF Machines
  <1>4. QED
    BY <1>1, <1>2, <1>3, MachineAssumption DEF MachineInv, Unbroken, UnbrokenTail, OneScan, InSession

(* Whatever events the machine is offered, in whatever order, also skewed, *)
(* of other scans or after a shutdown, and whatever the history's cap: its *)
(* history is an unbroken tail of the accepted transitions in which every  *)
(* session belongs to one scan.                                            *)
THEOREM MachineHistory == MachineSpec => [](MachineTypeOK /\ HistoryFaithful)
  <1>1. MachineInv(Machine) /\ [MachineNext]_machineVars => MachineInv(Machine)'
    <2> SUFFICES ASSUME MachineInv(Machine), [MachineNext]_machineVars
                 PROVE  MachineInv(Machine)'
      OBVIOUS
    <2>1. ASSUME NEW e \in Events, Apply(e) PROVE MachineInv(Machine)'
      <3>1. MachineInv(ApplyEvent(Machine, e))
        BY ApplyKeeps
      <3>2. Machine' = ApplyEvent(Machine, e)
        BY <2>1, <3>1, BecomesMachine DEF Apply, MachineInv
      <3>3. QED
        BY <3>1, <3>2
    <2>2. CASE Shutdown
      <3>1. Machine' = [state |-> state, activeScanId |-> activeScanId, count |-> transitionCount,
                        history |-> history, shutdown |-> TRUE, errors |-> errors]
        BY <2>2, Zenon DEF Shutdown, Machine
      <3>2. QED
        BY <3>1 DEF MachineInv, Machines, Machine, Unbroken, OneScan, InSession
    <2>3. CASE UNCHANGED machineVars
      <3>1. Machine' = Machine
        BY <2>3 DEF machineVars, Machine
      <3>2. QED
        BY <3>1
    <2>4. QED
      BY <2>1, <2>2, <2>3 DEF MachineNext
  <1>2. QED
    BY <1>1, MachineInitial, MachineNow, PTL DEF MachineSpec

-----------------------------------------------------------------------------
(* The policy engine's evaluations.                                        *)

(* What evaluate() submits are events of the machine. *)
LEMMA EventsOfEvaluate ==
    /\ \A s \in ScanIds, type \in ScanEvents : ScanEvent(type, s) \in Events
    /\ ResetEvent \in Events
  BY DEF ScanEvent, ResetEvent, Events

AfterTail(m, s) ==
    ApplyEvent(ApplyEvent(ApplyEvent(m, ScanEvent("SCAN_COMPLETED", s)),
                          ScanEvent("REPORT_DELIVERED", s)), ResetEvent)

(* The tail of evaluate() has one outcome for the machine. *)
LEMMA TailIs == ASSUME NEW m, NEW s PROVE ReportTail(m, s) = {AfterTail(m, s)}
  BY DEF ReportTail, Then, AfterTail

(* Submitting the report and ending the session keeps the machine sound. *)
LEMMA TailKeeps ==
    ASSUME NEW m, MachineInv(m), NEW s \in ScanIds
    PROVE  MachineInv(AfterTail(m, s))
  BY ApplyKeeps, EventsOfEvaluate DEF AfterTail, ScanEvents

(* Nothing evaluate() applies shuts the machine down. *)
LEMMA ApplyKeepsShutdown ==
    ASSUME NEW m \in Machines, NEW e \in Events
    PROVE  ApplyEvent(m, e).shutdown = m.shutdown
  BY DEF ApplyEvent, Commit, Machines

(* evaluate() never shuts the machine down. *)
LEMMA TailKeepsShutdown ==
    ASSUME NEW m, MachineInv(m), NEW s \in ScanIds
    PROVE  AfterTail(m, s).shutdown = m.shutdown
  <1> DEFINE e1 == ScanEvent("SCAN_COMPLETED", s)
             e2 == ScanEvent("REPORT_DELIVERED", s)
             m1 == ApplyEvent(m, e1)
             m2 == ApplyEvent(m1, e2)
  <1>1. e1 \in Events /\ e2 \in Events /\ ResetEvent \in Events
    BY EventsOfEvaluate DEF ScanEvents
  <1>2. MachineInv(m1) /\ MachineInv(m2)
    BY <1>1, ApplyKeeps
  <1>3. m1.shutdown = m.shutdown /\ m2.shutdown = m1.shutdown
    BY <1>1, <1>2, ApplyKeepsShutdown DEF MachineInv
  <1>4. ApplyEvent(m2, ResetEvent).shutdown = m2.shutdown
    BY <1>1, <1>2, ApplyKeepsShutdown DEF MachineInv
  <1>5. QED
    BY <1>3, <1>4 DEF AfterTail

(* Where evaluate() owns the session, its tail is accepted event by event, *)
(* and leaves the delivery in a history of at least two records.           *)
LEMMA SoloTail ==
    ASSUME NEW m, MachineInv(m), NEW s \in ScanIds, MaxHistoryDepth >= 2,
           m.state = "SCANNING", m.activeScanId = s, m.shutdown = FALSE
    PROVE  LET h == AfterTail(m, s).history
           IN  \E i \in 1 .. Len(h) : /\ h[i].seq > m.count
                                      /\ h[i].type = "REPORT_DELIVERED"
                                      /\ h[i].scanId = s
  <1> DEFINE e1 == ScanEvent("SCAN_COMPLETED", s)
             e2 == ScanEvent("REPORT_DELIVERED", s)
             m1 == ApplyEvent(m, e1)
             m2 == ApplyEvent(m1, e2)
             m3 == ApplyEvent(m2, ResetEvent)
  <1>1. e1 \in Events /\ e2 \in Events /\ ResetEvent \in Events
    BY EventsOfEvaluate DEF ScanEvents
  <1>2. MachineInv(m1) /\ MachineInv(m2) /\ MachineInv(m3)
    BY <1>1, ApplyKeeps
  <1>3. m1.shutdown = FALSE /\ m2.shutdown = FALSE
    BY <1>1, <1>2, ApplyKeepsShutdown DEF MachineInv
  <1>4. m1 = Commit(m, "REPORTING", e1)
    <2>1. Transitions("SCANNING", "SCAN_COMPLETED") = {"REPORTING"}
      BY DEF Transitions
    <2>2. QED
      BY <2>1 DEF ApplyEvent, Refusal, ScanEvent
  <1>5. m1.state = "REPORTING" /\ m1.activeScanId = s /\ m1.count = m.count + 1
    BY <1>4 DEF Commit, ScanEvent, MachineInv, Machines
  <1> HIDE DEF m1
  <1>6. m2 = Commit(m1, "DONE", e2)
    <2>1. Transitions("REPORTING", "REPORT_DELIVERED") = {"DONE"}
      BY DEF Transitions
    <2>2. QED
      BY <2>1, <1>3, <1>5 DEF ApplyEvent, Refusal, ScanEvent
  <1> DEFINE r == [seq |-> m1.count + 1, fromState |-> m1.state, toState |-> "DONE",
                   type |-> "REPORT_DELIVERED", scanId |-> s]
             h == m2.history
  <1>7. m2.count = m1.count + 1 /\ h = PushCapped(m1.history, r)
    BY <1>2, <1>6 DEF Commit, ScanEvent, MachineInv, Machines
  <1> HIDE DEF m2, h
  <1>8. m3 = Commit(m2, "IDLE", ResetEvent)
    BY <1>3 DEF ApplyEvent, Refusal, ResetEvent
  <1> DEFINE q == [seq |-> m2.count + 1, fromState |-> m2.state, toState |-> "IDLE",
                   type |-> "RESET", scanId |-> NoScan]
             k == m3.history
  <1>9. k = PushCapped(h, q)
    BY <1>2, <1>8 DEF Commit, ResetEvent, MachineInv, Machines, h
  <1>10. m.count \in Nat /\ m1.count \in Nat /\ m1.state \in States /\ m2.count \in Nat
         /\ m2.state \in States /\ h \in Seq(TransitionRecord) /\ Len(h) \in Nat
         /\ m1.history \in Seq(TransitionRecord)
    BY <1>2 DEF MachineInv, Machines, h
  <1>11. r \in TransitionRecord /\ q \in TransitionRecord
    BY <1>10 DEF TransitionRecord, States, ScanEvents
  <1>12. /\ Len(m1.history) <= MaxHistoryDepth /\ Len(h) <= MaxHistoryDepth
         /\ Len(h) < MaxHistoryDepth => Len(h) = m2.count
    BY <1>2 DEF MachineInv, Unbroken, UnbrokenTail, h
  <1> HIDE DEF r, q, k
  <1>13. Len(h) > 0 /\ h[Len(h)] = r
    <2>1. PICK d \in {0, 1} :
             /\ Len(h) = Len(m1.history) + 1 - d
             /\ Len(m1.history) + 1 - d > 0 => h[Len(m1.history) + 1 - d] = r
      BY <1>7, <1>10, <1>11, <1>12, PushCappedKeepsTail
    <2>2. Len(h) > 0
      BY <1>7, <1>10, <1>12, MachineAssumption
    <2>3. QED
      BY <2>1, <2>2
  <1>14. PICK d \in {0, 1} :
            /\ d = 0 <=> Len(h) < MaxHistoryDepth
            /\ k \in Seq(TransitionRecord)
            /\ Len(k) = Len(h) + 1 - d
            /\ \A i \in 1 .. Len(h) - d : k[i] = h[i + d]
    BY <1>9, <1>10, <1>11, <1>12, PushCappedKeepsTail
  <1>15. Len(h) - d \in 1 .. Len(k) /\ k[Len(h) - d] = r
    BY <1>10, <1>12, <1>13, <1>14, MachineAssumption
  <1>16. r.seq > m.count /\ r.type = "REPORT_DELIVERED" /\ r.scanId = s
    BY <1>5, <1>10 DEF r
  <1>17. AfterTail(m, s).history = k
    BY DEF AfterTail, k, m1, m2
  <1>18. QED
    BY <1>15, <1>16, <1>17

EvalRecords ==
    [pc : {"new", "returned", "threw"} \cup Running,
     scanId : ScanIds \cup {NoScan}, started : BOOLEAN, overlapped : BOOLEAN,
     delivered : BOOLEAN, earned : BOOLEAN, status : Statuses \cup {"none"}]

(* What evaluate() may rely on between its awaits: it has its scan id, and *)
(* the machine has not been shut down.                                     *)
EvalsOK ==
    /\ evals \in [Evaluations -> EvalRecords]
    /\ \A e \in Evaluations : evals[e].pc \in Running => evals[e].scanId \in ScanIds
    /\ shutdown = FALSE

(* A running evaluation that started a scan and was never overlapped is    *)
(* the only one under way, and the machine's session is its own.           *)
SoloOwns ==
    \A e \in Evaluations :
        /\ evals[e].pc \in Running
        /\ evals[e].started
        /\ ~evals[e].overlapped
        => /\ InFlight = {e}
           /\ state = "SCANNING"
           /\ activeScanId = evals[e].scanId

PolicyInv == MachineInv(Machine) /\ EvalsOK

(* Nothing is under way at first. *)
LEMMA PolicyInitial == PolicyInit => PolicyInv /\ FailsClosed /\ SoloOwns /\ SoloIsRecorded
  <1> SUFFICES ASSUME PolicyInit PROVE PolicyInv /\ FailsClosed /\ SoloOwns /\ SoloIsRecorded
    OBVIOUS
  <1>1. MachineInv(Machine)
    BY MachineInitial DEF PolicyInit
  <1>2. \A e \in Evaluations :
          evals[e] = [pc |-> "new", scanId |-> NoScan, started |-> FALSE, overlapped |-> FALSE,
                      delivered |-> FALSE, earned |-> FALSE, status |-> "none"]
    BY DEF PolicyInit
  <1>3. evals \in [Evaluations -> EvalRecords] /\ shutdown = FALSE
    BY DEF PolicyInit, MachineInit, EvalRecords
  <1>4. QED
    BY <1>1, <1>2, <1>3 DEF PolicyInv, EvalsOK, Running, FailsClosed, SoloOwns, SoloIsRecorded

(* One step of the engine, as the proofs below use it: the machine becomes *)
(* another one that keeps its invariant and is not shut down.              *)
LEMMA BecomesKeeps ==
    ASSUME NEW m, MachineInv(m), m.shutdown = FALSE, Becomes(m)
    PROVE  MachineInv(Machine)' /\ shutdown' = FALSE
  <1>1. Machine' = m
    BY BecomesMachine DEF MachineInv
  <1>2. QED
    BY <1>1 DEF Becomes

(* Steps that leave the machine alone. *)
LEMMA UnchangedKeeps ==
    ASSUME MachineInv(Machine), UNCHANGED machineVars PROVE MachineInv(Machine)'
  <1>1. Machine' = Machine
    BY DEF machineVars, Machine
  <1>2. QED
    BY <1>1

(* What evaluate() returns is one of the three statuses, and COMPLIANT     *)
(* only where it is earned.                                                *)
LEMMA OutcomeOf ==
    ASSUME NEW o \in Outcomes
    PROVE  /\ o.status \in Statuses /\ o.earned \in BOOLEAN
           /\ o.status = "COMPLIANT" => o.earned
  <1>1. PICK primary \in Statuses \cup {"throws"},
             bundle \in {"unconfigured", "verified", "failed", "throws"} :
             o = [status |-> Verdict(primary, bundle),
                  earned |-> primary = "COMPLIANT" /\ bundle \in {"unconfigured", "verified"}]
    BY DEF Outcomes
  <1>2. o.status = Verdict(primary, bundle)
    BY <1>1
  <1>3. o.earned = (primary = "COMPLIANT" /\ bundle \in {"unconfigured", "verified"})
    BY <1>1
  <1>4. o.earned \in BOOLEAN
    BY <1>3, Zenon
  <1>5. Verdict(primary, bundle) \in Statuses
    BY DEF Verdict, Statuses
  <1>6. Verdict(primary, bundle) = "COMPLIANT" =>
            primary = "COMPLIANT" /\ bundle \in {"unconfigured", "verified"}
    BY DEF Verdict
  <1>7. QED
    BY <1>2, <1>3, <1>4, <1>5, <1>6

(* Every step of an evaluation keeps the invariant. *)
LEMMA PolicyInvStep == PolicyInv /\ [PolicyNext]_policyVars => PolicyInv'
  <1> SUFFICES ASSUME PolicyInv, [PolicyNext]_policyVars PROVE PolicyInv'
    OBVIOUS
  <1> USE DEF PolicyInv
  <1>0. Machine.shutdown = FALSE /\ Machine \in Machines
    BY DEF Machine, EvalsOK, MachineInv
  <1>1. ASSUME NEW e \in Evaluations, NEW s \in ScanIds, Evaluate(e, s) PROVE PolicyInv'
    <2> DEFINE event == ScanEvent("SCAN_STARTED", s)
               ok == Refusal(Machine, event) = "none"
    <2>1. event \in Events
      BY EventsOfEvaluate DEF ScanEvents
    <2>2. MachineInv(Machine)' /\ shutdown' = FALSE
      BY <1>0, <1>1, <2>1, ApplyKeeps, ApplyKeepsShutdown, BecomesKeeps DEF Evaluate
    <2>3. ok \in BOOLEAN
      OBVIOUS
    <2>4. evals' = [f \in Evaluations |->
              IF f = e
              THEN [evals[e] EXCEPT !.pc = "checking", !.scanId = s,
                                    !.started = ok, !.overlapped = InFlight # {}]
              ELSE [evals[f] EXCEPT !.overlapped = @ \/ f \in InFlight]]
      BY <1>1 DEF Evaluate
    <2> HIDE DEF ok, event
    <2>5. \A f \in Evaluations :
            evals'[f] \in EvalRecords /\ (evals'[f].pc \in Running => evals'[f].scanId \in ScanIds)
      <3> TAKE f \in Evaluations
      <3>1. evals[f] \in EvalRecords
        BY DEF EvalsOK
      <3>2. CASE f = e
        <4>1. \E b \in BOOLEAN :
                 evals'[f] = [evals[f] EXCEPT !.pc = "checking", !.scanId = s,
                                              !.started = ok, !.overlapped = b]
          BY <2>4, <3>2, Zenon
        <4>2. QED
          BY <4>1, <3>1, <2>3 DEF EvalRecords, Running
      <3>3. CASE f # e
        <4>1. \E b \in BOOLEAN : evals'[f] = [evals[f] EXCEPT !.overlapped = b]
          BY <2>4, <3>3, Zenon
        <4>2. QED
          BY <4>1, <3>1 DEF EvalsOK, EvalRecords
      <3>4. QED
        BY <3>2, <3>3
    <2>6. evals' \in [Evaluations -> EvalRecords]
      BY <2>4, <2>5
    <2>7. QED
      BY <2>2, <2>5, <2>6 DEF EvalsOK
  <1>2. ASSUME NEW e \in Evaluations, FilesChecked(e) \/ FilesCheckThrows(e) PROVE PolicyInv'
    <2>1. MachineInv(Machine)' /\ shutdown' = FALSE
      BY <1>2, UnchangedKeeps DEF FilesChecked, FilesCheckThrows, machineVars, EvalsOK
    <2>2. QED
      BY <1>2, <2>1 DEF FilesChecked, FilesCheckThrows, EvalsOK, EvalRecords, Running
  <1>3. ASSUME NEW e \in Evaluations, NEW o \in Outcomes, Conclude(e, o) PROVE PolicyInv'
    <2> DEFINE after == AfterTail(Machine, evals[e].scanId)
    <2>1. evals[e].scanId \in ScanIds
      BY <1>3 DEF Conclude, EvalsOK, Running
    <2>2. MachineInv(after)
      BY <2>1, TailKeeps
    <2>3. after.shutdown = FALSE
      BY <2>1, <1>0, TailKeepsShutdown
    <2>4. Becomes(after)
      BY <1>3, TailIs DEF Conclude
    <2>5. MachineInv(Machine)' /\ shutdown' = FALSE
      BY <2>2, <2>3, <2>4, BecomesKeeps
    <2>6. o.status \in Statuses /\ o.earned \in BOOLEAN
      BY OutcomeOf
    <2>7. PICK b \in BOOLEAN :
             evals' = [evals EXCEPT ![e] = [@ EXCEPT !.pc = "returned", !.status = o.status,
                                                     !.earned = o.earned, !.delivered = b]]
      BY <1>3, Zenon DEF Conclude
    <2>8. \A f \in Evaluations :
            evals'[f] \in EvalRecords /\ (evals'[f].pc \in Running => evals'[f].scanId \in ScanIds)
      <3> TAKE f \in Evaluations
      <3>1. evals[f] \in EvalRecords
        BY DEF EvalsOK
      <3>2. CASE f = e
        <4>1. evals'[f] = [evals[f] EXCEPT !.pc = "returned", !.status = o.status,
                                           !.earned = o.earned, !.delivered = b]
          BY <2>7, <3>2 DEF EvalsOK
        <4>2. QED
          BY <4>1, <3>1, <2>6 DEF EvalRecords, Running
      <3>3. CASE f # e
        BY <2>7, <3>1, <3>3 DEF EvalsOK
      <3>4. QED
        BY <3>2, <3>3
    <2>9. evals' \in [Evaluations -> EvalRecords]
      BY <2>7, <2>8 DEF EvalsOK
    <2>10. QED
      BY <2>5, <2>8, <2>9 DEF EvalsOK
  <1>4. CASE UNCHANGED policyVars
    <2>1. MachineInv(Machine)'
      BY <1>4, UnchangedKeeps DEF policyVars
    <2>2. QED
      BY <1>4, <2>1 DEF policyVars, machineVars, EvalsOK
  <1>5. QED
    BY <1>1, <1>2, <1>3, <1>4 DEF PolicyNext, Progress

(* The invariant of the composition gives the properties of the machine. *)
LEMMA PolicyNow == PolicyInv => PolicyTypeOK /\ HistoryFaithful
  BY MachineNow DEF PolicyInv, EvalsOK, EvalRecords, PolicyTypeOK

(* The same of the one machine that all evaluations of an engine share,    *)
(* however they overlap and whichever of them throw.                       *)
THEOREM PolicyHistory == PolicySafety => [](PolicyTypeOK /\ HistoryFaithful)
  <1>1. QED
    BY PolicyInitial, PolicyInvStep, PolicyNow, PTL DEF PolicySafety

(* What the steps of an evaluation do to the records of all of them. *)
LEMMA EvaluateEffect ==
    ASSUME PolicyInv, NEW e \in Evaluations, NEW s \in ScanIds, Evaluate(e, s)
    PROVE  /\ evals[e].pc = "new"
           /\ \A f \in Evaluations :
                 /\ evals'[f].pc = (IF f = e THEN "checking" ELSE evals[f].pc)
                 /\ evals'[f].scanId = (IF f = e THEN s ELSE evals[f].scanId)
                 /\ f # e => evals'[f].started = evals[f].started
                 /\ f # e => (evals'[f].overlapped <=> evals[f].overlapped \/ f \in InFlight)
                 /\ f = e => evals'[f].started =
                                 (Refusal(Machine, ScanEvent("SCAN_STARTED", s)) = "none")
                 /\ f = e => evals'[f].overlapped = (InFlight # {})
                 /\ evals'[f].delivered = evals[f].delivered
                 /\ evals'[f].status = evals[f].status
                 /\ evals'[f].earned = evals[f].earned
  <1>1. \A f \in Evaluations : evals[f] \in EvalRecords
    BY DEF PolicyInv, EvalsOK
  <1>2. QED
    BY <1>1 DEF Evaluate, EvalRecords

(* What the end of evaluate() does, in terms of the machine as a value. *)
LEMMA ConcludeEffect ==
    ASSUME PolicyInv, NEW e \in Evaluations, NEW o \in Outcomes, Conclude(e, o)
    PROVE  LET h == AfterTail(Machine, evals[e].scanId).history
           IN  /\ evals[e].pc = "evaluating"
               /\ Becomes(AfterTail(Machine, evals[e].scanId))
               /\ \A f \in Evaluations \ {e} : evals'[f] = evals[f]
               /\ evals'[e].pc = "returned" /\ evals'[e].status = o.status
               /\ evals'[e].earned = o.earned
               /\ evals'[e].started = evals[e].started
               /\ evals'[e].overlapped = evals[e].overlapped
               /\ evals'[e].scanId = evals[e].scanId
               /\ evals'[e].delivered = \E i \in 1 .. Len(h) :
                      /\ h[i].seq > transitionCount
                      /\ h[i].type = "REPORT_DELIVERED"
                      /\ h[i].scanId = evals[e].scanId
  <1> DEFINE h == AfterTail(Machine, evals[e].scanId).history
             d == \E i \in 1 .. Len(h) : /\ h[i].seq > transitionCount
                                         /\ h[i].type = "REPORT_DELIVERED"
                                         /\ h[i].scanId = evals[e].scanId
  <1>1. evals[e] \in EvalRecords /\ evals \in [Evaluations -> EvalRecords]
    BY DEF PolicyInv, EvalsOK
  <1>2. /\ evals[e].pc = "evaluating" /\ Becomes(AfterTail(Machine, evals[e].scanId))
        /\ evals' = [evals EXCEPT ![e] = [@ EXCEPT !.pc = "returned", !.status = o.status,
                                                   !.earned = o.earned, !.delivered = d]]
    <2>1. PICK after \in ReportTail(Machine, evals[e].scanId) :
             /\ Becomes(after)
             /\ evals' = [evals EXCEPT
                   ![e] = [@ EXCEPT !.pc = "returned", !.status = o.status,
                                    !.earned = o.earned,
                                    !.delivered = \E i \in 1 .. Len(after.history) :
                                         /\ after.history[i].seq > transitionCount
                                         /\ after.history[i].type = "REPORT_DELIVERED"
                                         /\ after.history[i].scanId = evals[e].scanId]]
      BY Zenon DEF Conclude
    <2>2. after = AfterTail(Machine, evals[e].scanId)
      BY TailIs
    <2>3. evals[e].pc = "evaluating"
      BY DEF Conclude
    <2>4. QED
      BY <2>1, <2>2, <2>3, Zenon
  <1> HIDE DEF d
  <1>3. evals'[e] = [evals[e] EXCEPT !.pc = "returned", !.status = o.status,
                                     !.earned = o.earned, !.delivered = d]
    BY <1>1, <1>2
  <1>4. \A f \in Evaluations \ {e} : evals'[f] = evals[f]
    BY <1>1, <1>2
  <1>5. QED
    BY <1>1, <1>2, <1>3, <1>4 DEF EvalRecords, d

(* For any number of overlapping evaluations: a pull request is COMPLIANT  *)
(* only if the evaluator said so, and neither a crash nor a bundle that    *)
(* failed its verification was involved.                                   *)
THEOREM PolicyFailsClosed == PolicySafety => []FailsClosed
  <1>1. PolicyInv /\ FailsClosed /\ [PolicyNext]_policyVars => FailsClosed'
    <2> SUFFICES ASSUME PolicyInv, FailsClosed, [PolicyNext]_policyVars PROVE FailsClosed'
      OBVIOUS
    <2>1. ASSUME NEW e \in Evaluations, NEW s \in ScanIds, Evaluate(e, s) PROVE FailsClosed'
      BY <2>1, EvaluateEffect DEF FailsClosed
    <2>2. ASSUME NEW e \in Evaluations, FilesChecked(e) \/ FilesCheckThrows(e)
          PROVE  FailsClosed'
      BY <2>2 DEF FailsClosed, FilesChecked, FilesCheckThrows, PolicyInv, EvalsOK, EvalRecords
    <2>3. ASSUME NEW e \in Evaluations, NEW o \in Outcomes, Conclude(e, o) PROVE FailsClosed'
      <3>1. /\ \A f \in Evaluations \ {e} : evals'[f] = evals[f]
            /\ evals'[e].status = o.status /\ evals'[e].earned = o.earned
        BY <2>3, ConcludeEffect
      <3>2. o.status = "COMPLIANT" => o.earned
        BY OutcomeOf
      <3>3. QED
        BY <3>1, <3>2 DEF FailsClosed
    <2>4. CASE UNCHANGED policyVars
      BY <2>4 DEF policyVars, FailsClosed
    <2>5. QED
      BY <2>1, <2>2, <2>3, <2>4 DEF PolicyNext, Progress
  <1>2. QED
    BY <1>1, PolicyInitial, PolicyInvStep, PTL DEF PolicySafety

(* An evaluation that is not overlapped keeps its session until it         *)
(* concludes.                                                              *)
LEMMA SoloStep ==
    ASSUME MaxHistoryDepth >= 2, PolicyInv, SoloOwns, SoloIsRecorded, [PolicyNext]_policyVars
    PROVE  SoloOwns' /\ SoloIsRecorded'
  <1>0. \A f \in Evaluations : evals[f] \in EvalRecords
    BY DEF PolicyInv, EvalsOK
  <1>1. ASSUME NEW e \in Evaluations, NEW s \in ScanIds, Evaluate(e, s)
        PROVE  SoloOwns' /\ SoloIsRecorded'
    <2> DEFINE event == ScanEvent("SCAN_STARTED", s)
    <2>1. SoloIsRecorded'
      BY <1>1, EvaluateEffect DEF SoloIsRecorded
    <2> SUFFICES ASSUME NEW f \in Evaluations, evals'[f].pc \in Running,
                        evals'[f].started, ~evals'[f].overlapped
                 PROVE  InFlight' = {f} /\ state' = "SCANNING" /\ activeScanId' = evals'[f].scanId
      BY <2>1 DEF SoloOwns
    <2>2. f = e
      BY <1>1, EvaluateEffect DEF InFlight
    <2>3. InFlight' = {e}
      <3>1. InFlight = {}
        BY <1>1, <2>2, EvaluateEffect
      <3>2. \A g \in Evaluations : evals'[g].pc = (IF g = e THEN "checking" ELSE evals[g].pc)
        BY <1>1, EvaluateEffect
      <3>3. QED
        BY <3>1, <3>2 DEF InFlight, Running
    <2>4. Refusal(Machine, event) = "none"
      BY <1>1, <2>2, EvaluateEffect
    <2>5. Transitions(Machine.state, "SCAN_STARTED") # {}
      BY <2>4 DEF Refusal, ScanEvent
    <2>6. Machine.state = "IDLE"
      BY <2>5, TransitionTarget
    <2>7. Transitions("IDLE", "SCAN_STARTED") = {"SCANNING"}
      BY DEF Transitions
    <2>8. ApplyEvent(Machine, event) = Commit(Machine, "SCANNING", event)
      BY <2>4, <2>6, <2>7 DEF ApplyEvent, ScanEvent
    <2>9. state' = "SCANNING" /\ activeScanId' = s
      <3>1. Becomes(Commit(Machine, "SCANNING", event))
        BY <1>1, <2>8 DEF Evaluate
      <3>2. /\ Commit(Machine, "SCANNING", event).state = "SCANNING"
            /\ Commit(Machine, "SCANNING", event).activeScanId = s
        BY DEF Commit, ScanEvent, Machine
      <3>3. QED
        BY <3>1, <3>2 DEF Becomes
    <2>10. QED
      BY <1>1, <2>2, <2>3, <2>9, EvaluateEffect
  <1>2. ASSUME NEW e \in Evaluations, FilesChecked(e) \/ FilesCheckThrows(e)
        PROVE  SoloOwns' /\ SoloIsRecorded'
    <2>1. /\ \A f \in Evaluations \ {e} : evals'[f] = evals[f]
          /\ evals[e].pc = "checking" /\ evals'[e].pc \in {"evaluating", "threw"}
          /\ evals'[e].started = evals[e].started /\ evals'[e].overlapped = evals[e].overlapped
          /\ evals'[e].scanId = evals[e].scanId
          /\ state' = state /\ activeScanId' = activeScanId
      BY <1>2, <1>0 DEF FilesChecked, FilesCheckThrows, machineVars, PolicyInv, EvalsOK, EvalRecords
    <2>2. SoloIsRecorded'
      BY <2>1 DEF SoloIsRecorded
    <2> SUFFICES ASSUME NEW f \in Evaluations, evals'[f].pc \in Running,
                        evals'[f].started, ~evals'[f].overlapped
                 PROVE  InFlight' = {f} /\ state' = "SCANNING" /\ activeScanId' = evals'[f].scanId
      BY <2>2 DEF SoloOwns
    <2>3. InFlight = {f} /\ state = "SCANNING" /\ activeScanId = evals[f].scanId
      BY <2>1 DEF SoloOwns, Running
    <2>4. f = e
      BY <2>1, <2>3 DEF InFlight, Running
    <2>5. InFlight' = {e}
      BY <2>1, <2>3, <2>4 DEF InFlight, Running
    <2>6. QED
      BY <2>1, <2>3, <2>4, <2>5
  <1>3. ASSUME NEW e \in Evaluations, NEW o \in Outcomes, Conclude(e, o)
        PROVE  SoloOwns' /\ SoloIsRecorded'
    <2> DEFINE h == AfterTail(Machine, evals[e].scanId).history
               d == \E i \in 1 .. Len(h) : /\ h[i].seq > transitionCount
                                           /\ h[i].type = "REPORT_DELIVERED"
                                           /\ h[i].scanId = evals[e].scanId
    <2>1. /\ \A f \in Evaluations \ {e} : evals'[f] = evals[f]
          /\ evals[e].pc = "evaluating" /\ evals'[e].pc = "returned"
          /\ evals'[e].started = evals[e].started /\ evals'[e].overlapped = evals[e].overlapped
          /\ evals'[e].delivered = d
      BY <1>3, ConcludeEffect
    <2>2. evals[e].started /\ ~evals[e].overlapped => d
      <3> SUFFICES ASSUME evals[e].started, ~evals[e].overlapped PROVE d
        OBVIOUS
      <3>1. state = "SCANNING" /\ activeScanId = evals[e].scanId
        BY <2>1 DEF SoloOwns, Running
      <3>2. evals[e].scanId \in ScanIds /\ shutdown = FALSE
        BY <2>1 DEF PolicyInv, EvalsOK, Running
      <3>3. /\ MachineInv(Machine) /\ Machine.state = "SCANNING" /\ Machine.shutdown = FALSE
            /\ Machine.activeScanId = evals[e].scanId /\ Machine.count = transitionCount
        BY <3>1, <3>2 DEF PolicyInv, Machine
      <3>4. QED
        BY <3>2, <3>3, SoloTail
    <2> HIDE DEF d
    <2>3. SoloIsRecorded'
      BY <2>1, <2>2 DEF SoloIsRecorded
    <2>4. SoloOwns'
      <3> SUFFICES ASSUME NEW f \in Evaluations, evals'[f].pc \in Running,
                          evals'[f].started, ~evals'[f].overlapped
                   PROVE  FALSE
        BY DEF SoloOwns
      <3>1. f # e
        BY <2>1 DEF Running
      <3>2. InFlight = {f}
        BY <2>1, <3>1 DEF SoloOwns
      <3>3. QED
        BY <2>1, <3>1, <3>2 DEF InFlight, Running
    <2>5. QED
      BY <2>3, <2>4
  <1>4. CASE UNCHANGED policyVars
    BY <1>4 DEF policyVars, machineVars, SoloOwns, SoloIsRecorded, InFlight
  <1>5. QED
    BY <1>1, <1>2, <1>3, <1>4 DEF PolicyNext, Progress

(* For any number of evaluations and scan ids: one whose scan was accepted *)
(* and that no other overlapped has its report recorded as delivered.  The *)
(* history must hold two records, the delivery and the reset after it; the *)
(* engine leaves maxHistoryDepth at its default of 1000.                   *)
THEOREM PolicySoloRecorded ==
    ASSUME MaxHistoryDepth >= 2 PROVE PolicySafety => []SoloIsRecorded
  <1>1. SoloOwns /\ SoloIsRecorded /\ PolicyInv /\ [PolicyNext]_policyVars
            => SoloOwns' /\ SoloIsRecorded'
    BY SoloStep
  <1>2. QED
    BY <1>1, PolicyInitial, PolicyInvStep, PTL DEF PolicySafety

(* The RESET at the end of evaluate() is always accepted. *)
LEMMA TailEnds ==
    ASSUME NEW m, MachineInv(m), m.shutdown = FALSE, NEW s \in ScanIds
    PROVE  AfterTail(m, s).state = "IDLE"
  <1> DEFINE e1 == ScanEvent("SCAN_COMPLETED", s)
             e2 == ScanEvent("REPORT_DELIVERED", s)
             m1 == ApplyEvent(m, e1)
             m2 == ApplyEvent(m1, e2)
  <1>1. e1 \in Events /\ e2 \in Events
    BY EventsOfEvaluate DEF ScanEvents
  <1>2. MachineInv(m1) /\ MachineInv(m2)
    BY <1>1, ApplyKeeps
  <1>3. m1.shutdown = m.shutdown /\ m2.shutdown = m1.shutdown
    BY <1>1, <1>2, ApplyKeepsShutdown DEF MachineInv
  <1>4. m2 \in Machines /\ m2.shutdown = FALSE /\ AfterTail(m, s) = ApplyEvent(m2, ResetEvent)
    BY <1>2, <1>3 DEF MachineInv, AfterTail
  <1> HIDE DEF m2
  <1>5. ApplyEvent(m2, ResetEvent) = Commit(m2, "IDLE", ResetEvent)
    BY <1>4 DEF ApplyEvent, Refusal, ResetEvent
  <1>6. QED
    BY <1>4, <1>5 DEF Commit, Machines

(* An open session has someone behind it: an evaluation that will end it,  *)
(* or one that died in the overflow checker and never will.                *)
SessionsAreHeld ==
    state # "IDLE" => InFlight # {} \/ \E e \in Evaluations : evals[e].pc = "threw"

(* However evaluations overlap, none that returns leaves a session open    *)
(* behind it: the machine is stuck only where one died.  SessionsEnd, that *)
(* the evaluations under way do come to their end, rests on fairness.      *)
THEOREM NoSessionLeftOpen == PolicySafety => []SessionsAreHeld
  <1>1. PolicyInit => SessionsAreHeld
    BY DEF PolicyInit, MachineInit, SessionsAreHeld
  <1>2. PolicyInv /\ SessionsAreHeld /\ [PolicyNext]_policyVars => SessionsAreHeld'
    <2> SUFFICES ASSUME PolicyInv, SessionsAreHeld, [PolicyNext]_policyVars
                 PROVE  SessionsAreHeld'
      OBVIOUS
    <2>1. ASSUME NEW e \in Evaluations, NEW s \in ScanIds, Evaluate(e, s)
          PROVE  SessionsAreHeld'
      <3>1. evals'[e].pc = "checking"
        BY <2>1, EvaluateEffect
      <3>2. QED
        BY <3>1 DEF SessionsAreHeld, InFlight, Running
    <2>2. ASSUME NEW e \in Evaluations, FilesChecked(e) \/ FilesCheckThrows(e)
          PROVE  SessionsAreHeld'
      <3>1. evals'[e].pc \in {"evaluating", "threw"}
        BY <2>2 DEF FilesChecked, FilesCheckThrows, PolicyInv, EvalsOK, EvalRecords
      <3>2. QED
        BY <3>1 DEF SessionsAreHeld, InFlight, Running
    <2>3. ASSUME NEW e \in Evaluations, NEW o \in Outcomes, Conclude(e, o)
          PROVE  SessionsAreHeld'
      <3>1. Becomes(AfterTail(Machine, evals[e].scanId)) /\ evals[e].pc = "evaluating"
        BY <2>3, ConcludeEffect
      <3>2. evals[e].scanId \in ScanIds /\ MachineInv(Machine) /\ Machine.shutdown = FALSE
        BY <3>1 DEF PolicyInv, EvalsOK, Running, Machine
      <3>3. AfterTail(Machine, evals[e].scanId).state = "IDLE"
        BY <3>2, TailEnds
      <3>4. state' = "IDLE"
        BY <3>1, <3>3 DEF Becomes
      <3>5. QED
        BY <3>4 DEF SessionsAreHeld
    <2>4. CASE UNCHANGED policyVars
      BY <2>4 DEF policyVars, machineVars, SessionsAreHeld, InFlight
    <2>5. QED
      BY <2>1, <2>2, <2>3, <2>4 DEF PolicyNext, Progress
  <1>3. QED
    BY <1>1, <1>2, PolicyInitial, PolicyInvStep, PTL DEF PolicySafety

-----------------------------------------------------------------------------
(* The logs on disk.                                                       *)

(* What LinesAccounted needs of the archiver between two of its steps:     *)
(* what is about to be unlinked is in the bucket as it was read.           *)
StoreInv ==
    /\ LinesAccounted
    /\ lines \in Nat
    /\ archiver = "sent" => bucket = upload

(* For any number of lines, archive runs, backups, restores and deaths     *)
(* between their steps: no line is lost but in the ways the code allows,   *)
(* and only a restore ever holds a line in the backup alone.               *)
THEOREM StoreAccountsForLines == StoreSpec => []LinesAccounted
  <1>1. StoreInit => StoreInv
    BY DEF StoreInit, StoreInv, LinesAccounted
  <1>2. StoreInv /\ [StoreNext]_storeVars => StoreInv'
    <2> SUFFICES ASSUME StoreInv, [StoreNext]_storeVars PROVE StoreInv'
      OBVIOUS
    <2> USE DEF StoreInv, LinesAccounted
    <2>1. CASE AppendLine
      <3>1. 1 .. lines' = (1 .. lines) \union {lines + 1}
        BY <2>1 DEF AppendLine
      <3>2. QED
        BY <2>1, <3>1 DEF AppendLine
    <2>2. CASE GrowsOld
      BY <2>2 DEF GrowsOld
    <2>3. CASE FindOld
      BY <2>3 DEF FindOld
    <2>4. CASE ReadForUpload
      BY <2>4 DEF ReadForUpload
    <2>5. CASE Uploaded
      BY <2>5 DEF Uploaded
    <2>6. CASE Unlink
      BY <2>6 DEF Unlink, MayUnlink
    <2>7. CASE ArchiverStops
      BY <2>7 DEF ArchiverStops
    <2>8. CASE BeginBackup
      BY <2>8 DEF BeginBackup
    <2>9. CASE EndBackup
      BY <2>9 DEF EndBackup
    <2>10. CASE BeginRestore
      BY <2>10 DEF BeginRestore
    <2>11. CASE EndRestore
      BY <2>11 DEF EndRestore
    <2>12. CASE CopyDies
      BY <2>12 DEF CopyDies
    <2>13. CASE UNCHANGED storeVars
      BY <2>13 DEF storeVars
    <2>14. QED
      BY <2>1, <2>2, <2>3, <2>4, <2>5, <2>6, <2>7, <2>8, <2>9, <2>10, <2>11, <2>12, <2>13
         DEF StoreNext
  <1>3. QED
    BY <1>1, <1>2, PTL DEF StoreSpec, StoreInv

-----------------------------------------------------------------------------
(* The anchors on the ledger.                                              *)

Hashes == Contents \union {"none"}

Memos == Hashes \union {Prefix(c) : c \in Contents} \union {Malformed}

Transactions ==
    [source : {Trusted, "other account"}, successful : BOOLEAN,
     memoType : {"hash", "text", "return", "none"}, memo : Memos]

Anchors ==
    [at : {"idle", "load", "submit", "ended"}, pos : Nat \ {0}, hash : Hashes, seq : Nat]

Verifications ==
    [at : {"idle", "lookup", "answer", "ended"}, file : Files \union {"none"},
     tx : Nat, legacy : BOOLEAN, hash : Hashes, found : Nat]

Anchored == [tx : Nat \ {0}, file : Files, hash : Hashes]

TrailTypeOK ==
    /\ content \in [Files -> Contents]
    /\ ledger \in Seq(Transactions)
    /\ anchorer \in [Anchorers -> Anchors]
    /\ verifier \in [Verifiers -> Verifications]
    /\ exitCode \in [Anchorers \union Verifiers -> {-1, 0, 1, 2}]
    /\ DOMAIN verdict = Verifiers
    /\ anchored \subseteq Anchored
    /\ \A p \in Anchorers : anchorer[p].at \in {"load", "submit"} => anchorer[p].pos <= Len(Reports)

(* A verifier compares with a transaction that is on the ledger, and does  *)
(* nothing after its verdict.                                              *)
LookedUp ==
    \A v \in Verifiers :
        /\ verifier[v].at = "answer" => verifier[v].found <= Len(ledger)
        /\ verifier[v].at \in {"lookup", "answer"} => verifier[v].file \in Files
        /\ verifier[v].at = "ended" => exitCode[v] # -1
        /\ IsVerified(verdict[v].reason) => verifier[v].at = "ended" /\ verifier[v].tx > 0

TrailInv == TrailTypeOK /\ LookedUp /\ TrailSound

(* The sequence number of the trusted account is a number. *)
LEMMA TrustedCountType == ASSUME TrailTypeOK PROVE TrustedCount \in Nat
  <1>1. DOMAIN ledger = 1 .. Len(ledger) /\ Len(ledger) \in Nat
    BY DEF TrailTypeOK
  <1>2. IsFiniteSet({i \in DOMAIN ledger : ledger[i].source = Trusted})
    <2>1. IsFiniteSet(DOMAIN ledger)
      BY <1>1, FS_Interval
    <2>2. {i \in DOMAIN ledger : ledger[i].source = Trusted} \in SUBSET DOMAIN ledger
      OBVIOUS
    <2>3. QED
      BY <2>1, <2>2, FS_Subset
  <1>3. QED
    BY <1>2, FS_CardinalityType DEF TrustedCount

(* Nothing has been anchored. *)
LEMMA TrailInitial == TrailInit => TrailInv
  <1> SUFFICES ASSUME TrailInit PROVE TrailInv
    OBVIOUS
  <1>1. ledger \in Seq(Transactions)
    <2>1. PICK c \in Contents :
             \/ ledger \in { <<>>, <<Tx("other account", TRUE, "hash", c)>>,
                           <<Tx(Trusted, FALSE, "hash", c)>> }
             \/ ledger \in {<<tx>> : tx \in TrustedTxs(c)}
      BY DEF TrailInit
    <2>2. c \in Memos /\ Prefix(c) \in Memos /\ Malformed \in Memos
      BY DEF Memos, Hashes
    <2>3. /\ Tx("other account", TRUE, "hash", c) \in Transactions
          /\ Tx(Trusted, FALSE, "hash", c) \in Transactions
          /\ TrustedTxs(c) \subseteq Transactions
      BY <2>2 DEF Tx, Transactions, TrustedTxs
    <2>4. <<>> \in Seq(Transactions) /\ \A t \in Transactions : <<t>> \in Seq(Transactions)
      OBVIOUS
    <2>5. CASE ledger \in {<<tx>> : tx \in TrustedTxs(c)}
      <3>1. PICK tx \in TrustedTxs(c) : ledger = <<tx>>
        BY <2>5
      <3>2. QED
        BY <2>3, <2>4, <3>1, Zenon
    <2>6. QED
      BY <2>1, <2>3, <2>4, <2>5, Zenon
  <1>2. \A v \in Verifiers : ~IsVerified(verdict[v].reason)
    BY DEF TrailInit, NoVerdict, IsVerified
  <1>3. TrailTypeOK
    <2>1. anchorer \in [Anchorers -> Anchors]
      <3>1. 1 \in Nat \ {0} /\ 0 \in Nat
        OBVIOUS
      <3>2. [at |-> "idle", pos |-> 1, hash |-> "none", seq |-> 0] \in Anchors
        BY <3>1, Zenon DEF Anchors, Hashes
      <3>3. QED
        BY <3>2 DEF TrailInit
    <2>2. verifier \in [Verifiers -> Verifications]
      BY DEF TrailInit, Verifications, Hashes
    <2>3. exitCode \in [Anchorers \union Verifiers -> {-1, 0, 1, 2}]
      BY DEF TrailInit
    <2>4. \A p \in Anchorers : anchorer[p].at = "idle"
      BY DEF TrailInit
    <2>5. content \in [Files -> Contents] /\ DOMAIN verdict = Verifiers /\ anchored \subseteq Anchored
      BY DEF TrailInit
    <2>6. QED
      BY <1>1, <2>1, <2>2, <2>3, <2>4, <2>5 DEF TrailTypeOK
  <1>4. QED
    BY <1>2, <1>3 DEF TrailInv, LookedUp, TrailSound, AnchoredIsOnLedger, VerifiedIsAnchored,
                      TrailInit

(* A report in the order of readdirSync() is one of the files. *)
LEMMA ReportsAreFiles ==
    ASSUME NEW i \in Nat \ {0}, i <= Len(Reports) PROVE Reports[i] \in Files
  BY TrailAssumption DEF Files

(* A step that appends at most one transaction to the ledger leaves what   *)
(* was on it.                                                              *)
LEMMA LedgerGrows ==
    ASSUME NEW l \in Seq(Transactions), NEW t \in Transactions
    PROVE  /\ Append(l, t) \in Seq(Transactions)
           /\ Len(Append(l, t)) = Len(l) + 1
           /\ \A i \in Nat \ {0} : i <= Len(l) => Append(l, t)[i] = l[i]
           /\ Append(l, t)[Len(l) + 1] = t
  OBVIOUS

(* What else the trusted account does is a transaction. *)
LEMMA OtherIsTransaction == Tx(Trusted, TRUE, "none", Malformed) \in Transactions
  BY DEF Tx, Transactions, Memos

(* The states of a verification. *)
LEMMA VerifierMoves ==
    ASSUME NEW r \in Verifications, NEW at \in {"answer", "ended"}, NEW n \in Nat
    PROVE  /\ [r EXCEPT !.at = at] \in Verifications
           /\ [r EXCEPT !.at = at, !.found = n] \in Verifications
  BY DEF Verifications

(* The states of an anchoring run. *)
LEMMA AnchorerMoves ==
    ASSUME NEW r \in Anchors
    PROVE  /\ [r EXCEPT !.at = "ended"] \in Anchors
           /\ [r EXCEPT !.at = "idle", !.pos = @ + 1] \in Anchors
  <1>1. \A n \in Nat \ {0} : [r EXCEPT !.at = "idle", !.pos = n] \in Anchors
    BY DEF Anchors
  <1>2. r.pos + 1 \in Nat \ {0}
    BY DEF Anchors
  <1>3. QED
    BY <1>1, <1>2 DEF Anchors

(* Every step keeps the types. *)
LEMMA TrailTypeStep == TrailInv /\ [TrailNext]_trailVars => TrailTypeOK'
  <1> SUFFICES ASSUME TrailInv, [TrailNext]_trailVars PROVE TrailTypeOK'
    OBVIOUS
  <1> USE DEF TrailInv, TrailTypeOK
  <1>1. ASSUME NEW f \in Files, NEW c \in Contents, WriteReport(f, c) PROVE TrailTypeOK'
    BY <1>1 DEF WriteReport
  <1>2. ASSUME NEW p \in Anchorers, HashNext(p) PROVE TrailTypeOK'
    <2>1. anchorer[p] \in Anchors /\ anchorer[p].pos \in Nat \ {0} /\ Len(Reports) \in Nat
      BY TrailAssumption DEF Anchors
    <2>2. CASE anchorer[p].pos > Len(Reports)
      BY <1>2, <2>2 DEF HashNext
    <2>3. CASE ~(anchorer[p].pos > Len(Reports))
      <3>1. content[Reports[anchorer[p].pos]] \in Hashes
        BY <2>1, <2>3, ReportsAreFiles DEF Hashes
      <3>2. anchorer' = [anchorer EXCEPT ![p] = [anchorer[p] EXCEPT
                !.at = "load", !.hash = content[Reports[anchorer[p].pos]]]]
        BY <1>2, <2>3 DEF HashNext
      <3>3. anchorer' \in [Anchorers -> Anchors]
        BY <2>1, <3>1, <3>2 DEF Anchors
      <3>4. \A q \in Anchorers : anchorer'[q].at \in {"load", "submit"} =>
                anchorer'[q].pos <= Len(Reports)
        BY <2>1, <2>3, <3>2 DEF Anchors
      <3>5. QED
        BY <1>2, <2>3, <3>3, <3>4 DEF HashNext
    <2>4. QED
      BY <2>2, <2>3
  <1>3. ASSUME NEW p \in Anchorers, LoadAccount(p) PROVE TrailTypeOK'
    <2>1. anchorer' = [anchorer EXCEPT ![p] = [anchorer[p] EXCEPT
              !.at = "submit", !.seq = TrustedCount]]
      BY <1>3 DEF LoadAccount
    <2>2. anchorer' \in [Anchorers -> Anchors]
      BY <2>1, TrustedCountType DEF Anchors
    <2>3. \A q \in Anchorers : anchorer'[q].at \in {"load", "submit"} =>
              anchorer'[q].pos <= Len(Reports)
      BY <1>3, <2>1 DEF Anchors, LoadAccount
    <2>4. QED
      BY <1>3, <2>2, <2>3 DEF LoadAccount
  <1>4. ASSUME NEW p \in Anchorers, NEW answered \in BOOLEAN, Submit(p, answered)
        PROVE  TrailTypeOK'
    <2> DEFINE r == anchorer[p]
               t == Tx(Trusted, TRUE, "hash", MemoOf(p))
               a == [tx |-> Len(ledger) + 1, file |-> Reports[r.pos], hash |-> r.hash]
    <2>1. /\ r \in Anchors /\ r.pos \in Nat \ {0} /\ r.at = "submit" /\ r.hash \in Hashes
          /\ r.pos <= Len(Reports)
      BY <1>4 DEF Anchors, Submit
    <2>2. t \in Transactions
      BY <2>1 DEF Tx, Transactions, MemoOf, Memos
    <2>3. ledger' \in Seq(Transactions)
      BY <1>4, <2>2, LedgerGrows DEF Submit
    <2>4. a \in Anchored
      BY <2>1, ReportsAreFiles DEF Anchored
    <2>5. anchored' \subseteq Anchored /\ exitCode' \in [Anchorers \union Verifiers -> {-1, 0, 1, 2}]
      BY <1>4, <2>4 DEF Submit
    <2>6. \/ anchorer' = [anchorer EXCEPT ![p] = [r EXCEPT !.at = "idle", !.pos = @ + 1]]
          \/ anchorer' = [anchorer EXCEPT ![p] = [r EXCEPT !.at = "ended"]]
      BY <1>4 DEF Submit
    <2>7. anchorer' \in [Anchorers -> Anchors]
      BY <2>1, <2>6, AnchorerMoves
    <2>8. ASSUME NEW q \in Anchorers, anchorer'[q].at \in {"load", "submit"}
          PROVE  anchorer'[q].pos <= Len(Reports)
      <3>1. anchorer'[p].at \notin {"load", "submit"}
        <4>1. anchorer'[p].at = "idle" \/ anchorer'[p].at = "ended"
          <5>1. CASE anchorer' = [anchorer EXCEPT ![p] = [r EXCEPT !.at = "idle", !.pos = @ + 1]]
            BY <2>1, <5>1 DEF Anchors
          <5>2. CASE anchorer' = [anchorer EXCEPT ![p] = [r EXCEPT !.at = "ended"]]
            BY <2>1, <5>2 DEF Anchors
          <5>3. QED
            BY <2>6, <5>1, <5>2
        <4>2. QED
          BY <4>1
      <3>2. q # p /\ anchorer'[q] = anchorer[q]
        BY <2>6, <2>8, <3>1
      <3>3. QED
        BY <2>8, <3>2
    <2>9. QED
      BY <1>4, <2>3, <2>5, <2>7, <2>8 DEF Submit
  <1>5. ASSUME NEW p \in Anchorers, AnchorFails(p) PROVE TrailTypeOK'
    BY <1>5 DEF AnchorFails, Anchors
  <1>6. ASSUME NEW v \in Verifiers, NEW f \in Files, NEW tx \in 1 .. MaxLedger,
               NEW legacy \in BOOLEAN, BeginVerify(v, f, tx, legacy)
        PROVE  TrailTypeOK'
    <2>1. tx \in Nat /\ content[f] \in Hashes
      BY TrailAssumption DEF Hashes
    <2>2. [at |-> "lookup", file |-> f, tx |-> tx, legacy |-> legacy, hash |-> content[f], found |-> 0]
            \in Verifications
      BY <2>1 DEF Verifications
    <2>3. QED
      BY <1>6, <2>2 DEF BeginVerify
  <1>7. ASSUME NEW v \in Verifiers, VerifyFails(v) PROVE TrailTypeOK'
    <2>1. verifier' = [verifier EXCEPT ![v] = [verifier[v] EXCEPT !.at = "ended"]]
      BY <1>7 DEF VerifyFails
    <2>2. verifier' \in [Verifiers -> Verifications]
      BY <2>1, VerifierMoves
    <2>3. QED
      BY <1>7, <2>2 DEF VerifyFails
  <1>8. ASSUME NEW v \in Verifiers, NEW found \in 0 .. Len(ledger), Lookup(v, found)
        PROVE  TrailTypeOK'
    <2>1. verifier' = [verifier EXCEPT ![v] = [verifier[v] EXCEPT !.at = "answer", !.found = found]]
      BY <1>8 DEF Lookup
    <2>2. found \in Nat
      OBVIOUS
    <2>3. verifier' \in [Verifiers -> Verifications]
      BY <2>1, <2>2, VerifierMoves
    <2>4. QED
      BY <1>8, <2>3 DEF Lookup
  <1>9. ASSUME NEW v \in Verifiers, Decide(v) PROVE TrailTypeOK'
    <2>1. verifier' = [verifier EXCEPT ![v] = [verifier[v] EXCEPT !.at = "ended"]]
      BY <1>9 DEF Decide
    <2>2. verifier' \in [Verifiers -> Verifications]
      BY <2>1, VerifierMoves
    <2>3. exitCode' \in [Anchorers \union Verifiers -> {-1, 0, 1, 2}]
      BY <1>9 DEF Decide
    <2>4. QED
      BY <1>9, <2>2, <2>3 DEF Decide
  <1>10. CASE OtherTransaction
    <2>1. ledger' \in Seq(Transactions)
      BY <1>10, OtherIsTransaction, LedgerGrows DEF OtherTransaction
    <2>2. QED
      BY <1>10, <2>1 DEF OtherTransaction
  <1>11. CASE UNCHANGED trailVars
    BY <1>11 DEF trailVars
  <1>12. QED
    BY <1>1, <1>2, <1>3, <1>4, <1>5, <1>6, <1>7, <1>8, <1>9, <1>10, <1>11 DEF TrailNext

(* A step that leaves the verdicts, the verifications that ended and the   *)
(* transactions on the ledger as they are.                                 *)
LEMMA TrailKept ==
    ASSUME TrailInv, verdict' = verdict, anchored' = anchored, ledger' = ledger,
           \A v \in Verifiers : verifier[v].at = "ended" => verifier'[v] = verifier[v]
    PROVE  TrailSound'
  BY DEF TrailInv, LookedUp, TrailSound, AnchoredIsOnLedger, VerifiedIsAnchored

(* A step that ends processes at most, and leaves the ledger as it is or   *)
(* appends to it: what was found stays there.                              *)
LEMMA LookedUpKept ==
    ASSUME TrailInv, verdict' = verdict, verifier' = verifier, Len(ledger) <= Len(ledger'),
           ledger' \in Seq(Transactions),
           \A v \in Verifiers : exitCode'[v] = exitCode[v] \/ exitCode'[v] # -1
    PROVE  LookedUp'
  BY DEF TrailInv, LookedUp, TrailTypeOK, Verifications

(* A transaction that is appended disturbs neither what verifications      *)
(* found and accepted nor what anchoring reported.                         *)
LEMMA TrailGrows ==
    ASSUME TrailInv, NEW t \in Transactions, ledger' = Append(ledger, t),
           verdict' = verdict, verifier' = verifier,
           \A v \in Verifiers : exitCode'[v] = exitCode[v] \/ exitCode'[v] # -1
    PROVE  /\ Len(ledger') = Len(ledger) + 1 /\ ledger'[Len(ledger) + 1] = t
           /\ LookedUp' /\ VerifiedIsAnchored'
           /\ \A b \in anchored : b.tx # Len(ledger) + 1 /\ b.tx <= Len(ledger')
           /\ \A b \in anchored : ledger'[b.tx] = Tx(Trusted, TRUE, "hash", b.hash)
  <1>1. /\ TrailTypeOK /\ LookedUp /\ VerifiedIsAnchored /\ AnchoredIsOnLedger
        /\ Len(ledger) \in Nat /\ ledger \in Seq(Transactions)
    BY DEF TrailInv, TrailTypeOK, TrailSound
  <1>2. /\ ledger' \in Seq(Transactions)
        /\ Len(ledger') = Len(ledger) + 1
        /\ \A i \in Nat \ {0} : i <= Len(ledger) => ledger'[i] = ledger[i]
        /\ ledger'[Len(ledger) + 1] = t
    BY <1>1, LedgerGrows
  <1>3. LookedUp'
    BY <1>1, <1>2, LookedUpKept
  <1>4. VerifiedIsAnchored'
    <2> SUFFICES ASSUME NEW v \in Verifiers, IsVerified(verdict[v].reason)
                 PROVE  /\ verifier[v].tx <= Len(ledger')
                        /\ ledger'[verifier[v].tx] = ledger[verifier[v].tx]
      BY <1>1 DEF VerifiedIsAnchored
    <2>1. verifier[v].tx \in Nat \ {0}
      BY <1>1 DEF LookedUp, TrailTypeOK, Verifications
    <2>2. verifier[v].tx <= Len(ledger)
      BY <1>1 DEF VerifiedIsAnchored
    <2>3. QED
      BY <2>1, <2>2, <1>1, <1>2
  <1>5. ASSUME NEW b \in anchored
        PROVE  /\ b.tx # Len(ledger) + 1 /\ b.tx <= Len(ledger')
               /\ ledger'[b.tx] = Tx(Trusted, TRUE, "hash", b.hash)
    <2>1. /\ b.tx \in Nat \ {0} /\ b.tx <= Len(ledger)
          /\ ledger[b.tx] = Tx(Trusted, TRUE, "hash", b.hash)
      BY <1>1 DEF TrailTypeOK, AnchoredIsOnLedger, Anchored
    <2>2. PICK n \in Nat \ {0} : n = b.tx
      BY <2>1
    <2>3. n # Len(ledger) + 1 /\ n <= Len(ledger') /\ ledger'[n] = ledger[n]
      BY <2>1, <2>2, <1>1, <1>2
    <2>4. QED
      BY <2>1, <2>2, <2>3
  <1>6. QED
    BY <1>2, <1>3, <1>4, <1>5

(* What Decide accepts: the very transaction that was asked for, of the    *)
(* trusted account, with a memo of the right type.                         *)
LEMMA ReasonAccepts ==
    ASSUME NEW v \in Verifiers, IsVerified(Reason(v)),
           ledger[verifier[v].found] \in Transactions
    PROVE  LET r == verifier[v]
               t == ledger[r.found]
               h == content[r.file]
           IN  /\ r.found = r.tx /\ r.found # 0
               /\ \/ t = Tx(Trusted, TRUE, "hash", h)
                  \/ /\ t = Tx(Trusted, TRUE, "text", Prefix(h))
                     /\ Reason(v) = "verified (legacy)" /\ r.legacy
  <1> DEFINE r == verifier[v]
             t == ledger[r.found]
             h == content[r.file]
             m == MemoReason(t, h, r.legacy)
  <1>1. /\ Reason(v) = m
        /\ r.found = r.tx /\ r.found # 0 /\ t.successful /\ t.source = Trusted
    BY DEF Reason, LocalHash, SourceTrusted, IsVerified
  <1>2. \/ t.memoType = "hash" /\ t.memo = h
        \/ t.memoType = "text" /\ t.memo = Prefix(h) /\ r.legacy /\ m = "verified (legacy)"
    BY <1>1 DEF MemoReason, IsVerified
  <1>3. t = Tx(t.source, t.successful, t.memoType, t.memo) /\ t.successful = TRUE
    BY <1>1 DEF Transactions, Tx
  <1>4. QED
    BY <1>1, <1>2, <1>3

(* Every step keeps reports and verdicts sound. *)
LEMMA TrailSoundStep ==
    TrailInv /\ [TrailNext]_trailVars => LookedUp' /\ TrailSound'
  <1> SUFFICES ASSUME TrailInv, [TrailNext]_trailVars PROVE LookedUp' /\ TrailSound'
    OBVIOUS
  <1>0. TrailTypeOK /\ TrailTypeOK' /\ LookedUp
    BY TrailTypeStep DEF TrailInv, TrailTypeOK
  <1>l. Len(ledger) \in Nat
    BY <1>0 DEF TrailTypeOK
  <1>a. AnchoredIsOnLedger
    BY DEF TrailInv, TrailSound
  <1>1. CASE /\ \/ \E f \in Files, c \in Contents : WriteReport(f, c)
                \/ \E p \in Anchorers : HashNext(p) \/ LoadAccount(p) \/ AnchorFails(p)
                \/ UNCHANGED trailVars
    <2>1. verdict' = verdict /\ anchored' = anchored /\ ledger' = ledger /\ verifier' = verifier
      BY <1>1 DEF WriteReport, HashNext, LoadAccount, AnchorFails, trailVars
    <2>2. \/ exitCode' = exitCode
          \/ \E p \in Anchorers, n \in {0, 1} : exitCode' = [exitCode EXCEPT ![p] = n]
      BY <1>1 DEF WriteReport, HashNext, LoadAccount, AnchorFails, trailVars
    <2>3. \A v \in Verifiers : exitCode'[v] = exitCode[v] \/ exitCode'[v] # -1
      BY <1>0, <2>2 DEF TrailTypeOK
    <2>4. QED
      BY <2>1, <2>3, <1>0, TrailKept, LookedUpKept DEF TrailTypeOK
  <1>2. ASSUME NEW p \in Anchorers, NEW answered \in BOOLEAN, Submit(p, answered)
        PROVE  LookedUp' /\ TrailSound'
    <2> DEFINE r == anchorer[p]
               t == Tx(Trusted, TRUE, "hash", r.hash)
               a == [tx |-> Len(ledger) + 1, file |-> Reports[r.pos], hash |-> r.hash]
    <2>1. ledger' = Append(ledger, t) /\ verdict' = verdict /\ verifier' = verifier
      BY <1>2 DEF Submit, MemoOf
    <2>2. t \in Transactions
      <3>1. r.hash \in Hashes
        BY <1>0 DEF TrailTypeOK, Anchors
      <3>2. QED
        BY <3>1 DEF Tx, Transactions, Memos
    <2>3. \A v \in Verifiers : exitCode'[v] = exitCode[v] \/ exitCode'[v] # -1
      BY <1>0, <1>2 DEF Submit, TrailTypeOK
    <2> HIDE DEF t
    <2>4. /\ Len(ledger') = Len(ledger) + 1 /\ ledger'[Len(ledger) + 1] = t
          /\ LookedUp' /\ VerifiedIsAnchored'
          /\ \A b \in anchored : b.tx # Len(ledger) + 1 /\ b.tx <= Len(ledger')
          /\ \A b \in anchored : ledger'[b.tx] = Tx(Trusted, TRUE, "hash", b.hash)
      BY <2>1, <2>2, <2>3, TrailGrows
    <2>5. anchored' \subseteq anchored \union {a}
      BY <1>2 DEF Submit
    <2>6. a.tx = Len(ledger) + 1 /\ t = Tx(Trusted, TRUE, "hash", a.hash)
      BY DEF t
    <2> HIDE DEF a
    <2>7. ASSUME NEW b \in anchored'
          PROVE  b.tx <= Len(ledger') /\ ledger'[b.tx] = Tx(Trusted, TRUE, "hash", b.hash)
      <3>1. CASE b \in anchored
        BY <3>1, <2>4
      <3>2. CASE b = a
        <4>1. b.tx = Len(ledger')
          BY <3>2, <2>4, <2>6
        <4>2. Len(ledger') <= Len(ledger')
          BY <2>4, <1>l
        <4>3. QED
          BY <3>2, <4>1, <4>2, <2>4, <2>6
      <3>3. QED
        BY <3>1, <3>2, <2>5
    <2>8. ASSUME NEW b \in anchored', NEW c \in anchored', b.tx = c.tx PROVE b = c
      <3>1. \A d, e \in anchored : d.tx = e.tx => d = e
        BY <1>a DEF AnchoredIsOnLedger
      <3>2. \A d \in anchored : d.tx # Len(ledger) + 1
        BY <2>4
      <3>3. QED
        BY <2>8, <3>1, <3>2, <2>5, <2>6
    <2>9. QED
      BY <2>4, <2>7, <2>8 DEF TrailSound, AnchoredIsOnLedger
  <1>3. CASE OtherTransaction
    <2> DEFINE t == Tx(Trusted, TRUE, "none", Malformed)
    <2>1. /\ t \in Transactions /\ ledger' = Append(ledger, t) /\ verdict' = verdict
          /\ verifier' = verifier /\ anchored' = anchored /\ exitCode' = exitCode
      BY <1>3, OtherIsTransaction DEF OtherTransaction
    <2> HIDE DEF t
    <2>2. /\ Len(ledger') = Len(ledger) + 1 /\ LookedUp' /\ VerifiedIsAnchored'
          /\ \A b \in anchored : b.tx # Len(ledger) + 1 /\ b.tx <= Len(ledger')
          /\ \A b \in anchored : ledger'[b.tx] = Tx(Trusted, TRUE, "hash", b.hash)
      BY <2>1, TrailGrows
    <2>3. AnchoredIsOnLedger'
      BY <2>1, <2>2, <1>a DEF AnchoredIsOnLedger
    <2>4. QED
      BY <2>2, <2>3 DEF TrailSound
  <1>4. ASSUME NEW v \in Verifiers, NEW f \in Files, NEW tx \in 1 .. MaxLedger,
               NEW legacy \in BOOLEAN, BeginVerify(v, f, tx, legacy)
        PROVE  LookedUp' /\ TrailSound'
    <2>1. /\ verifier[v].at = "idle" /\ verdict' = verdict /\ anchored' = anchored /\ ledger' = ledger
          /\ verifier'[v].at = "lookup" /\ verifier'[v].file = f /\ exitCode' = exitCode
          /\ \A w \in Verifiers \ {v} : verifier'[w] = verifier[w]
      BY <1>4, <1>0 DEF BeginVerify, TrailTypeOK
    <2>2. LookedUp'
      BY <2>1, <1>0 DEF LookedUp
    <2>3. QED
      BY <2>1, <2>2, TrailKept
  <1>5. ASSUME NEW v \in Verifiers, VerifyFails(v) PROVE LookedUp' /\ TrailSound'
    <2>1. /\ exitCode[v] = -1 /\ verdict' = verdict /\ anchored' = anchored /\ ledger' = ledger
          /\ verifier'[v].at = "ended" /\ exitCode'[v] = 1
          /\ \A w \in Verifiers \ {v} : verifier'[w] = verifier[w] /\ exitCode'[w] = exitCode[w]
      BY <1>5, <1>0 DEF VerifyFails, TrailTypeOK, Verifications
    <2>2. verifier[v].at # "ended" /\ ~IsVerified(verdict[v].reason)
      BY <2>1, <1>0 DEF LookedUp
    <2>3. LookedUp'
      BY <2>1, <2>2, <1>0 DEF LookedUp
    <2>4. QED
      BY <2>1, <2>2, <2>3, TrailKept
  <1>6. ASSUME NEW v \in Verifiers, NEW found \in 0 .. Len(ledger), Lookup(v, found)
        PROVE  LookedUp' /\ TrailSound'
    <2>1. /\ verifier[v].at = "lookup" /\ verdict' = verdict /\ anchored' = anchored
          /\ ledger' = ledger /\ exitCode' = exitCode
          /\ verifier'[v].at = "answer" /\ verifier'[v].found <= Len(ledger)
          /\ verifier'[v].file = verifier[v].file
          /\ \A w \in Verifiers \ {v} : verifier'[w] = verifier[w]
      BY <1>6, <1>0 DEF Lookup, TrailTypeOK, Verifications
    <2>2. LookedUp'
      BY <2>1, <1>0 DEF LookedUp
    <2>3. QED
      BY <2>1, <2>2, TrailKept
  <1>7. ASSUME NEW v \in Verifiers, Decide(v) PROVE LookedUp' /\ TrailSound'
    <2> DEFINE r == verifier[v]
               h == content[r.file]
    <2>1. /\ r.at = "answer" /\ verifier'[v].at = "ended" /\ exitCode'[v] # -1
          /\ verifier'[v].tx = r.tx /\ verifier'[v].legacy = r.legacy
          /\ \A w \in Verifiers \ {v} : verifier'[w] = verifier[w] /\ exitCode'[w] = exitCode[w]
          /\ anchored' = anchored /\ ledger' = ledger
      BY <1>7, <1>0 DEF Decide, TrailTypeOK, Verifications
    <2>2. /\ verdict'[v].reason = Reason(v) /\ verdict'[v].hash = h
          /\ \A w \in Verifiers \ {v} : verdict'[w] = verdict[w]
      BY <1>7, <1>0 DEF Decide, TrailTypeOK
    <2>3. r.found \in Nat /\ r.tx \in Nat /\ r.found <= Len(ledger)
      BY <2>1, <1>0 DEF LookedUp, TrailTypeOK, Verifications
    <2>4. r.found # 0 => ledger[r.found] \in Transactions
      BY <2>3, <1>0 DEF TrailTypeOK
    <2>5. IsVerified(Reason(v)) =>
            /\ r.found = r.tx /\ r.found # 0
            /\ \/ ledger[r.tx] = Tx(Trusted, TRUE, "hash", h)
               \/ /\ ledger[r.tx] = Tx(Trusted, TRUE, "text", Prefix(h))
                  /\ Reason(v) = "verified (legacy)" /\ r.legacy
      <3>1. IsVerified(Reason(v)) => r.found # 0
        BY DEF Reason, IsVerified
      <3>2. QED
        BY <2>4, <3>1, ReasonAccepts
    <2>6. LookedUp'
      <3>1. ASSUME IsVerified(Reason(v)) PROVE verifier'[v].tx > 0
        <4>1. r.tx # 0 /\ r.tx \in Nat
          BY <2>3, <2>5, <3>1
        <4>2. r.tx > 0
          BY <4>1
        <4>3. QED
          BY <4>2, <2>1
      <3>2. \A w \in Verifiers \ {v} : verdict'[w] = verdict[w] /\ ledger' = ledger
        BY <2>1, <2>2
      <3>3. QED
        BY <2>1, <2>2, <3>1, <3>2, <1>0 DEF LookedUp
    <2>7. VerifiedIsAnchored'
      <3> SUFFICES ASSUME NEW w \in Verifiers, IsVerified(verdict'[w].reason)
                   PROVE  /\ verifier'[w].tx <= Len(ledger)
                          /\ \/ ledger[verifier'[w].tx] = Tx(Trusted, TRUE, "hash", verdict'[w].hash)
                             \/ /\ ledger[verifier'[w].tx]
                                     = Tx(Trusted, TRUE, "text", Prefix(verdict'[w].hash))
                                /\ verdict'[w].reason = "verified (legacy)" /\ verifier'[w].legacy
        BY <2>1 DEF VerifiedIsAnchored
      <3>1. CASE w = v
        BY <3>1, <2>1, <2>2, <2>3, <2>5
      <3>2. CASE w # v
        <4>1. verifier'[w] = verifier[w] /\ verdict'[w] = verdict[w]
          BY <3>2, <2>1, <2>2
        <4>2. VerifiedIsAnchored
          BY DEF TrailInv, TrailSound
        <4>3. QED
          BY <4>1, <4>2 DEF VerifiedIsAnchored
      <3>3. QED
        BY <3>1, <3>2
    <2>8. QED
      BY <1>a, <2>1, <2>6, <2>7 DEF TrailSound, AnchoredIsOnLedger
  <1>8. QED
    BY <1>1, <1>2, <1>3, <1>4, <1>5, <1>6, <1>7 DEF TrailNext

(* For any number of reports, anchoring and verifying processes, whatever  *)
(* is rewritten, lost or raced meanwhile: what anchoring reports is on the *)
(* ledger, and what verification accepts was anchored there.               *)
THEOREM TrailIsSound == TrailSpec => []TrailSound
  <1>1. TrailInv /\ [TrailNext]_trailVars => TrailInv'
    BY TrailTypeStep, TrailSoundStep DEF TrailInv
  <1>2. QED
    BY <1>1, TrailInitial, PTL DEF TrailSpec, TrailInv

-----------------------------------------------------------------------------
(* The role mapper: what a role inherits.                                  *)

PolicyOK ==
    /\ rbac.inherits \in [Roles -> Seq(Roles)]
    /\ rbac.kind \in [Roles -> Kinds]
    /\ rbac.holds \in Seq(Roles)

(* A policy that passes the validation names only its own roles. *)
LEMMA ValidatedPolicy ==
    ASSUME rbac \in Policies, ValidPolicy
    PROVE  PolicyOK
  <1>1. /\ rbac.inherits \in [Roles -> Seq(Nat)] /\ rbac.kind \in [Roles -> Kinds]
        /\ rbac.holds \in Seq(Nat)
    BY RoleAssumption
  <1>2. ASSUME NEW s \in Seq(Nat), Range(s) \subseteq Roles PROVE s \in Seq(Roles)
    <2>1. Len(s) \in Nat /\ s \in [1 .. Len(s) -> Nat] /\ DOMAIN s = 1 .. Len(s)
      OBVIOUS
    <2>2. \A k \in 1 .. Len(s) : s[k] \in Roles
      BY <1>2, <2>1 DEF Range
    <2>3. s \in [1 .. Len(s) -> Roles]
      BY <2>1, <2>2
    <2>4. QED
      BY <2>1, <2>3
  <1>3. \A r \in Roles : rbac.inherits[r] \in Seq(Roles)
    BY <1>1, <1>2 DEF ValidPolicy
  <1>4. rbac.inherits \in [Roles -> Seq(Roles)]
    BY <1>1, <1>3
  <1>5. rbac.holds \in Seq(Roles)
    BY <1>1, <1>2 DEF ValidPolicy
  <1>6. QED
    BY <1>1, <1>4, <1>5 DEF PolicyOK

(* The parents of a role are roles, and the places of its list have them.  *)
LEMMA ParentsAreRoles ==
    ASSUME PolicyOK, NEW r \in Roles
    PROVE  /\ Parents(r) \in SUBSET Roles
           /\ Len(rbac.inherits[r]) \in Nat
           /\ DOMAIN rbac.inherits[r] = 1 .. Len(rbac.inherits[r])
           /\ \A i \in 1 .. Len(rbac.inherits[r]) :
                 rbac.inherits[r][i] \in Parents(r) /\ rbac.inherits[r][i] \in Roles
           /\ \A p \in Parents(r) : \E i \in 1 .. Len(rbac.inherits[r]) : rbac.inherits[r][i] = p
  <1>1. PICK s : s = rbac.inherits[r]
    OBVIOUS
  <1>2. s \in Seq(Roles)
    BY <1>1 DEF PolicyOK
  <1>3. Len(s) \in Nat /\ DOMAIN s = 1 .. Len(s) /\ \A i \in 1 .. Len(s) : s[i] \in Roles
    BY <1>2
  <1>4. Parents(r) = {s[i] : i \in 1 .. Len(s)}
    BY <1>1, <1>3 DEF Parents, Range
  <1>5. QED
    BY <1>1, <1>3, <1>4

Closed(S) == \A s \in S : Parents(s) \subseteq S

(* A set of roles with their parents that has a role has its ancestors.    *)
LEMMA AncestorsLeast ==
    ASSUME NEW r, NEW S \in SUBSET Roles, r \in S, Closed(S)
    PROVE  Ancestors(r) \subseteq S
  BY DEF Ancestors, Closed

(* The ancestors of a role are such a set. *)
LEMMA AncestorsClosed ==
    ASSUME PolicyOK, NEW r \in Roles
    PROVE  Ancestors(r) \in SUBSET Roles /\ r \in Ancestors(r) /\ Closed(Ancestors(r))
  <1>1. Ancestors(r) \in SUBSET Roles /\ r \in Ancestors(r)
    BY DEF Ancestors
  <1>2. ASSUME NEW q \in Ancestors(r), NEW p \in Parents(q) PROVE p \in Ancestors(r)
    <2>1. q \in Roles /\ p \in Roles
      BY <1>1, <1>2, ParentsAreRoles
    <2>2. ASSUME NEW S \in SUBSET Roles, r \in S, \A s \in S : Parents(s) \subseteq S PROVE p \in S
      <3>1. q \in S
        BY <1>2, <2>2 DEF Ancestors
      <3>2. QED
        BY <1>2, <2>2, <3>1
    <2>3. QED
      BY <2>1, <2>2 DEF Ancestors
  <1>3. QED
    BY <1>1, <1>2 DEF Closed

(* Ancestors of an ancestor are ancestors. *)
LEMMA AncestorsOfAncestor ==
    ASSUME PolicyOK, NEW r \in Roles, NEW q \in Ancestors(r)
    PROVE  Ancestors(q) \subseteq Ancestors(r)
  BY AncestorsClosed, AncestorsLeast

(* The roles above r, through a parent. *)
Above(r) == UNION {Ancestors(p) : p \in Parents(r)}

(* An ancestor is the role itself or above it, and what is above it has    *)
(* its parents, and theirs.                                                *)
LEMMA AboveRole ==
    ASSUME PolicyOK, NEW r \in Roles
    PROVE  /\ Ancestors(r) \subseteq {r} \union Above(r)
           /\ Parents(r) \subseteq Above(r)
           /\ Above(r) \in SUBSET Roles
           /\ Closed(Above(r))
           /\ \A q \in Above(r) : Ancestors(q) \subseteq Above(r)
  <1>1. /\ Parents(r) \in SUBSET Roles
        /\ \A p \in Parents(r) : /\ Ancestors(p) \in SUBSET Roles /\ p \in Ancestors(p)
                                 /\ Closed(Ancestors(p))
    BY ParentsAreRoles, AncestorsClosed
  <1>2. Parents(r) \subseteq Above(r) /\ Above(r) \in SUBSET Roles
    BY <1>1 DEF Above
  <1>3. Closed(Above(r))
    BY <1>1 DEF Above, Closed
  <1>4. Closed({r} \union Above(r))
    BY <1>2, <1>3 DEF Closed
  <1>5. Ancestors(r) \subseteq {r} \union Above(r)
    BY <1>2, <1>4, AncestorsLeast
  <1>6. \A q \in Above(r) : Ancestors(q) \subseteq Above(r)
    BY <1>2, <1>3, AncestorsLeast
  <1>7. QED
    BY <1>2, <1>3, <1>5, <1>6

-----------------------------------------------------------------------------
(* The calls of its searches.                                              *)

Perms == {"*", "manage:users", "reports:*"}

Frames == [role : Roles, at : Nat, perms : SUBSET Perms]

(* What a role owns tells its kind. *)
LEMMA OwnKind ==
    ASSUME NEW r
    PROVE  /\ OwnPermissions(r) \in SUBSET Perms
           /\ OwnPermissions(r) \intersect Dangerous # {} => rbac.kind[r] \in {"dangerous", "wildcard"}
           /\ rbac.kind[r] \in {"dangerous", "wildcard"} => OwnPermissions(r) \intersect Dangerous # {}
  <1>1. CASE rbac.kind[r] = "dangerous"
    BY <1>1 DEF OwnPermissions, Perms, Dangerous
  <1>2. CASE rbac.kind[r] = "wildcard"
    BY <1>2 DEF OwnPermissions, Perms, Dangerous
  <1>3. CASE rbac.kind[r] = "scoped"
    BY <1>3 DEF OwnPermissions, Perms, Dangerous
  <1>4. CASE rbac.kind[r] \notin {"dangerous", "wildcard", "scoped"}
    BY <1>4 DEF OwnPermissions, Perms, Dangerous
  <1>5. QED
    BY <1>1, <1>2, <1>3, <1>4

(* The stack t is s with the last call one parent further. *)
WentOn(s, perms, t) ==
    /\ t \in Seq(Frames) /\ Len(t) = Len(s)
    /\ \A k \in 1 .. Len(s) : k < Len(s) => t[k] = s[k]
    /\ t[Len(s)].role = s[Len(s)].role
    /\ t[Len(s)].at = s[Len(s)].at + 1
    /\ t[Len(s)].perms = s[Len(s)].perms \union perms

(* GoOn() changes the last call and no other. *)
LEMMA GoOnFrames ==
    ASSUME NEW s \in Seq(Frames), Len(s) > 0, NEW perms \in SUBSET Perms
    PROVE  WentOn(s, perms, GoOn(s, perms))
  <1>1. PICK n, f : n = Len(s) /\ f = s[Len(s)]
    OBVIOUS
  <1>2. n \in Nat /\ n > 0 /\ s \in [1 .. n -> Frames] /\ f \in Frames
    BY <1>1
  <1>3. PICK g : g = Frame(f.role, f.at + 1, f.perms \union perms)
    OBVIOUS
  <1>4. g \in Frames /\ g.role = f.role /\ g.at = f.at + 1 /\ g.perms = f.perms \union perms
    BY <1>2, <1>3 DEF Frames, Frame
  <1>5. PICK t : t = GoOn(s, perms)
    OBVIOUS
  <1>6. t = [s EXCEPT ![n] = g]
    BY <1>1, <1>3, <1>5 DEF GoOn
  <1>7. t \in [1 .. n -> Frames] /\ t[n] = g /\ \A k \in 1 .. n : k < n => t[k] = s[k]
    BY <1>2, <1>4, <1>6
  <1>8. t \in Seq(Frames) /\ Len(t) = n
    BY <1>2, <1>7
  <1>9. WentOn(s, perms, t)
    BY <1>1, <1>4, <1>7, <1>8 DEF WentOn
  <1>10. QED
    BY <1>5, <1>9

(* The stack t is s with one more call. *)
Called(s, f, t) ==
    /\ t \in Seq(Frames) /\ Len(t) = Len(s) + 1 /\ t[Len(s) + 1] = f
    /\ \A k \in 1 .. Len(s) : t[k] = s[k]

(* Append() adds a call. *)
LEMMA AppendFrames ==
    ASSUME NEW s \in Seq(Frames), NEW f \in Frames
    PROVE  Called(s, f, Append(s, f))
  BY DEF Called

(* Without its last call a stack has the others. *)
LEMMA PopFrames ==
    ASSUME NEW s \in Seq(Frames), Len(s) > 1, NEW t, t = SubSeq(s, 1, Len(s) - 1)
    PROVE  t \in Seq(Frames) /\ Len(t) = Len(s) - 1 /\ \A k \in 1 .. Len(t) : t[k] = s[k]
  OBVIOUS

(* Each call looks at a parent of its role, or has looked at them all, and *)
(* has been made for the parent that the call below it looks at.           *)
Places(f) == Len(rbac.inherits[f.role])

Linked(s) ==
    \A k \in 1 .. Len(s) :
        /\ s[k].at \in 1 .. Places(s[k]) + 1
        /\ k < Len(s) => /\ s[k].at <= Places(s[k])
                         /\ rbac.inherits[s[k].role][s[k].at] = s[k + 1].role

(* Going on keeps this, if there is a parent to go on from. *)
LEMMA GoOnLinked ==
    ASSUME PolicyOK, NEW s \in Seq(Frames), Len(s) > 0, Linked(s),
           s[Len(s)].at <= Places(s[Len(s)]),
           NEW perms, NEW t, WentOn(s, perms, t)
    PROVE  Linked(t)
  <1> SUFFICES ASSUME NEW k \in 1 .. Len(s)
               PROVE  /\ t[k].at \in 1 .. Places(t[k]) + 1
                      /\ k < Len(s) => /\ t[k].at <= Places(t[k])
                                       /\ rbac.inherits[t[k].role][t[k].at] = t[k + 1].role
    BY DEF Linked, WentOn
  <1>0. Len(s) \in Nat
    OBVIOUS
  <1>1. \A j \in 1 .. Len(s) : t[j].role = s[j].role
    <2> TAKE j \in 1 .. Len(s)
    <2>1. CASE j < Len(s)
      BY <2>1 DEF WentOn
    <2>2. CASE j = Len(s)
      BY <2>2 DEF WentOn
    <2>3. QED
      BY <1>0, <2>1, <2>2
  <1>2. CASE k < Len(s)
    <2>1. t[k] = s[k] /\ k + 1 \in 1 .. Len(s) /\ t[k + 1].role = s[k + 1].role
      BY <1>0, <1>1, <1>2 DEF WentOn
    <2>2. QED
      BY <1>2, <2>1 DEF Linked
  <1>3. CASE k = Len(s)
    <2>1. t[k].at = s[k].at + 1 /\ t[k].role = s[k].role
      BY <1>3 DEF WentOn
    <2>2. s[k].role \in Roles /\ s[k].at \in Nat
      <3>1. s[k] \in Frames
        OBVIOUS
      <3>2. QED
        BY <3>1 DEF Frames
    <2>3. Places(s[k]) \in Nat /\ Places(t[k]) = Places(s[k])
      BY <2>1, <2>2, ParentsAreRoles DEF Places
    <2>4. s[k].at + 1 \in 1 .. Places(s[k]) + 1
      BY <1>3, <2>2, <2>3
    <2>5. QED
      BY <1>0, <1>3, <2>1, <2>3, <2>4
  <1>4. QED
    BY <1>0, <1>2, <1>3

(* So does a call for the parent looked at. *)
LEMMA CallLinked ==
    ASSUME PolicyOK, NEW s \in Seq(Frames), Linked(s), NEW perms, NEW p \in Roles,
           Len(s) > 0 => /\ s[Len(s)].at <= Places(s[Len(s)])
                         /\ rbac.inherits[s[Len(s)].role][s[Len(s)].at] = p,
           NEW t, Called(s, Call(p, perms), t)
    PROVE  Linked(t)
  <1> SUFFICES ASSUME NEW k \in 1 .. Len(s) + 1
               PROVE  /\ t[k].at \in 1 .. Places(t[k]) + 1
                      /\ k < Len(s) + 1 => /\ t[k].at <= Places(t[k])
                                           /\ rbac.inherits[t[k].role][t[k].at] = t[k + 1].role
    BY DEF Linked, Called
  <1>1. Len(s) \in Nat /\ t[Len(s) + 1].role = p /\ t[Len(s) + 1].at = 1
    BY DEF Called, Call, Frame
  <1>2. CASE k <= Len(s)
    <2>1. t[k] = s[k] /\ k \in 1 .. Len(s) /\ s[k].at \in 1 .. Places(s[k]) + 1
      BY <1>1, <1>2 DEF Called, Linked
    <2>2. CASE k < Len(s)
      <3>1. t[k + 1] = s[k + 1] /\ s[k].at <= Places(s[k])
            /\ rbac.inherits[s[k].role][s[k].at] = s[k + 1].role
        BY <1>1, <2>1, <2>2 DEF Called, Linked
      <3>2. QED
        BY <2>1, <3>1
    <2>3. CASE k = Len(s)
      BY <1>1, <2>1, <2>3
    <2>4. QED
      BY <1>1, <1>2, <2>2, <2>3
  <1>3. CASE k = Len(s) + 1
    <2>1. Places(t[k]) \in Nat
      BY <1>1, <1>3, ParentsAreRoles DEF Places
    <2>2. QED
      BY <1>1, <1>3, <2>1
  <1>4. QED
    BY <1>1, <1>2, <1>3

(* So does a return; the call below looks at the role it was made for.     *)
LEMMA PopLinked ==
    ASSUME PolicyOK, NEW s \in Seq(Frames), Linked(s), Len(s) > 1,
           NEW t, t = SubSeq(s, 1, Len(s) - 1)
    PROVE  /\ t \in Seq(Frames) /\ Len(t) = Len(s) - 1 /\ Len(t) > 0
           /\ Linked(t) /\ t[Len(t)] = s[Len(t)]
           /\ s[Len(t)].at <= Places(s[Len(t)])
           /\ rbac.inherits[s[Len(t)].role][s[Len(t)].at] = s[Len(s)].role
  <1>1. t \in Seq(Frames) /\ Len(t) = Len(s) - 1 /\ \A k \in 1 .. Len(t) : t[k] = s[k]
    BY PopFrames
  <1>2. Len(s) \in Nat /\ Len(t) \in 1 .. Len(s) /\ Len(t) < Len(s) /\ Len(t) + 1 = Len(s)
    BY <1>1
  <1>3. Linked(t)
    <2> SUFFICES ASSUME NEW k \in 1 .. Len(t)
                 PROVE  /\ t[k].at \in 1 .. Places(t[k]) + 1
                        /\ k < Len(t) => /\ t[k].at <= Places(t[k])
                                         /\ rbac.inherits[t[k].role][t[k].at] = t[k + 1].role
      BY DEF Linked
    <2>1. k \in 1 .. Len(s) /\ k < Len(s) /\ t[k] = s[k]
      BY <1>1, <1>2
    <2>2. k < Len(t) => t[k + 1] = s[k + 1]
      BY <1>1, <1>2
    <2>3. QED
      BY <2>1, <2>2 DEF Linked
  <1>4. s[Len(t)].at <= Places(s[Len(t)])
        /\ rbac.inherits[s[Len(t)].role][s[Len(t)].at] = s[Len(s)].role
    BY <1>2 DEF Linked
  <1>5. QED
    BY <1>1, <1>2, <1>3, <1>4

-----------------------------------------------------------------------------
(* Its permissions.                                                        *)

(* All that r owns or inherits. *)
Reach(r) == UNION {OwnPermissions(q) : q \in Ancestors(r)}

(* A role reaches what it owns and what its ancestors reach. *)
LEMMA ReachOf ==
    ASSUME PolicyOK, NEW r \in Roles
    PROVE  /\ OwnPermissions(r) \subseteq Reach(r) /\ Reach(r) \in SUBSET Perms
           /\ \A q \in Ancestors(r) : Reach(q) \subseteq Reach(r)
           /\ \A p \in Parents(r) : Reach(p) \subseteq Reach(r)
  <1>1. r \in Ancestors(r) /\ Closed(Ancestors(r))
    BY AncestorsClosed
  <1>2. OwnPermissions(r) \subseteq Reach(r) /\ Reach(r) \in SUBSET Perms
    BY <1>1, OwnKind DEF Reach
  <1>3. \A q \in Ancestors(r) : Reach(q) \subseteq Reach(r)
    BY AncestorsOfAncestor DEF Reach
  <1>4. Parents(r) \subseteq Ancestors(r)
    BY <1>1 DEF Closed
  <1>5. QED
    BY <1>2, <1>3, <1>4

(* No step changes what a policy says. *)
LEMMA SamePolicy ==
    ASSUME rbac' = rbac
    PROVE  /\ PolicyOK => PolicyOK'
           /\ \A r : Parents(r)' = Parents(r)
           /\ \A r : Ancestors(r)' = Ancestors(r)
           /\ \A r : OwnPermissions(r)' = OwnPermissions(r)
           /\ \A r : Reach(r)' = Reach(r)
  <1>1. PolicyOK => PolicyOK'
    BY DEF PolicyOK
  <1>2. \A r : Parents(r)' = Parents(r)
    BY DEF Parents
  <1>3. \A r : Ancestors(r)' = Ancestors(r)
    BY <1>2 DEF Ancestors
  <1>4. \A r : OwnPermissions(r)' = OwnPermissions(r)
    BY DEF OwnPermissions
  <1>5. \A r : Reach(r)' = Reach(r)
    BY <1>3, <1>4 DEF Reach
  <1>6. QED
    BY <1>1, <1>2, <1>3, <1>4, <1>5

(* What the cache has for a role is between what the role owns and what it *)
(* reaches.                                                                *)
CacheOK ==
    /\ DOMAIN cache \subseteq Roles
    /\ \A q \in DOMAIN cache : OwnPermissions(q) \subseteq cache[q] /\ cache[q] \subseteq Reach(q)

(* And so is what a call has collected. *)
Carries(s) ==
    \A k \in 1 .. Len(s) :
        OwnPermissions(s[k].role) \subseteq s[k].perms /\ s[k].perms \subseteq Reach(s[k].role)

(* Adding what a parent reaches keeps it so. *)
LEMMA GoOnCarries ==
    ASSUME NEW s \in Seq(Frames), Len(s) > 0, Carries(s),
           NEW perms, perms \subseteq Reach(s[Len(s)].role), NEW t, WentOn(s, perms, t)
    PROVE  Carries(t)
  <1>1. Len(s) \in Nat /\ Len(t) = Len(s)
    BY DEF WentOn
  <1> SUFFICES ASSUME NEW k \in 1 .. Len(s)
               PROVE  /\ OwnPermissions(t[k].role) \subseteq t[k].perms
                      /\ t[k].perms \subseteq Reach(t[k].role)
    BY <1>1 DEF Carries
  <1>2. CASE k < Len(s)
    <2>1. t[k] = s[k]
      BY <1>2 DEF WentOn
    <2>2. QED
      BY <2>1 DEF Carries
  <1>3. CASE k = Len(s)
    <2>1. t[k].role = s[k].role /\ t[k].perms = s[k].perms \union perms
      BY <1>3 DEF WentOn
    <2>2. OwnPermissions(s[k].role) \subseteq s[k].perms /\ s[k].perms \subseteq Reach(s[k].role)
      BY DEF Carries
    <2>3. QED
      BY <1>3, <2>1, <2>2
  <1>4. QED
    BY <1>1, <1>2, <1>3

(* A call begins with what its role owns. *)
LEMMA CallCarries ==
    ASSUME PolicyOK, NEW s \in Seq(Frames), Carries(s), NEW p \in Roles,
           NEW t, Called(s, Call(p, OwnPermissions(p)), t)
    PROVE  Carries(t)
  <1>1. Len(s) \in Nat /\ Len(t) = Len(s) + 1
    BY DEF Called
  <1> SUFFICES ASSUME NEW k \in 1 .. Len(s) + 1
               PROVE  /\ OwnPermissions(t[k].role) \subseteq t[k].perms
                      /\ t[k].perms \subseteq Reach(t[k].role)
    BY <1>1 DEF Carries
  <1>2. CASE k \in 1 .. Len(s)
    <2>1. t[k] = s[k]
      BY <1>2 DEF Called
    <2>2. QED
      BY <1>2, <2>1 DEF Carries
  <1>3. CASE k = Len(s) + 1
    <2>1. t[k].role = p /\ t[k].perms = OwnPermissions(p)
      BY <1>3 DEF Called, Call, Frame
    <2>2. QED
      BY <2>1, ReachOf
  <1>4. QED
    BY <1>1, <1>2, <1>3

Common == PolicyOK /\ stack \in Seq(Frames) /\ Linked(stack) /\ CacheOK

ResolveInv ==
    /\ Common
    /\ resolving \in 1 .. NumRoles + 1
    /\ \A q \in Roles : q < resolving => q \in DOMAIN cache
    /\ Carries(stack)

(* The parent that the last call looks at. *)
LEMMA TopLooks ==
    ASSUME Common, stack # <<>>
    PROVE  /\ Len(stack) \in Nat /\ Len(stack) > 0 /\ Top \in Frames
           /\ Top.role \in Roles
           /\ AtParent => /\ Top.at <= Places(Top) /\ Parent \in Parents(Top.role) /\ Parent \in Roles
           /\ AtReturn => \A p \in Parents(Top.role) :
                             \E i \in 1 .. Top.at - 1 : rbac.inherits[Top.role][i] = p
  <1>1. stack \in Seq(Frames) /\ PolicyOK /\ Linked(stack)
    BY DEF Common
  <1>2. PICK n, f : n = Len(stack) /\ f = Top
    OBVIOUS
  <1>3. n \in Nat /\ n > 0
    BY <1>1, <1>2
  <1>4. f = stack[n] /\ f \in Frames
    BY <1>1, <1>2, <1>3 DEF Top
  <1>5. f.role \in Roles /\ f.at \in Nat
    BY <1>4 DEF Frames
  <1>6. f.at \in 1 .. Places(f) + 1
    BY <1>1, <1>2, <1>3, <1>4 DEF Linked
  <1>7. /\ Places(f) \in Nat /\ DOMAIN rbac.inherits[f.role] = 1 .. Places(f)
        /\ \A i \in 1 .. Places(f) : /\ rbac.inherits[f.role][i] \in Parents(f.role)
                                     /\ rbac.inherits[f.role][i] \in Roles
        /\ \A p \in Parents(f.role) : \E i \in 1 .. Places(f) : rbac.inherits[f.role][i] = p
    BY <1>1, <1>5, ParentsAreRoles DEF Places
  <1>8. AtParent => /\ Top.at <= Places(Top) /\ Parent \in Parents(Top.role) /\ Parent \in Roles
    BY <1>2, <1>5, <1>6, <1>7 DEF AtParent, Parent
  <1>9. ASSUME AtReturn
        PROVE  \A p \in Parents(f.role) : \E i \in 1 .. f.at - 1 : rbac.inherits[f.role][i] = p
    <2>1. f.at - 1 = Places(f)
      BY <1>2, <1>5, <1>6, <1>7, <1>9 DEF AtReturn
    <2>2. QED
      BY <1>7, <2>1
  <1>10. QED
    BY <1>2, <1>3, <1>4, <1>5, <1>8, <1>9

(* Looking at a parent keeps this. *)
LEMMA ResolveParentKeeps ==
    ASSUME ResolveInv, ResolveParent
    PROVE  ResolveInv'
  <1>1. /\ Common /\ PolicyOK /\ stack \in Seq(Frames) /\ Linked(stack) /\ CacheOK
        /\ Carries(stack) /\ stack # <<>> /\ AtParent
        /\ UNCHANGED <<rbac, stage, resolving, cache, judging, findings, status>>
    BY DEF ResolveInv, Common, ResolveParent, AtParent
  <1>2. PICK p, s, t, f : p = Parent /\ s = stack /\ t = stack' /\ f = Top
    OBVIOUS
  <1>3. /\ Len(s) \in Nat /\ Len(s) > 0 /\ f \in Frames /\ f.role \in Roles /\ f = s[Len(s)]
        /\ f.at <= Places(f) /\ p \in Parents(f.role) /\ p \in Roles
        /\ p = rbac.inherits[f.role][f.at]
    BY <1>1, <1>2, TopLooks DEF Top, Parent
  <1>4. Reach(p) \subseteq Reach(f.role) /\ OwnPermissions(p) \subseteq Reach(p) /\ Reach(p) \in SUBSET Perms
    BY <1>1, <1>3, ReachOf
  <1>5. t \in Seq(Frames) /\ Linked(t) /\ Carries(t)
    <2>1. ASSUME NEW perms, perms \subseteq Reach(p), t = GoOn(s, perms)
          PROVE  t \in Seq(Frames) /\ Linked(t) /\ Carries(t)
      <3>1. perms \in SUBSET Perms /\ perms \subseteq Reach(s[Len(s)].role)
        BY <1>3, <1>4, <2>1
      <3>2. WentOn(s, perms, t)
        BY <1>1, <1>2, <1>3, <2>1, <3>1, GoOnFrames
      <3>3. Linked(t)
        BY <1>1, <1>2, <1>3, <3>2, GoOnLinked
      <3>4. Carries(t)
        BY <1>1, <1>2, <1>3, <3>1, <3>2, GoOnCarries
      <3>5. QED
        BY <3>2, <3>3, <3>4 DEF WentOn
    <2>2. CASE p \in DOMAIN cache /\ t = GoOn(s, cache[p])
      <3>1. cache[p] \subseteq Reach(p)
        BY <1>1, <2>2 DEF CacheOK
      <3>2. QED
        BY <2>1, <2>2, <3>1
    <2>3. CASE t = GoOn(s, OwnPermissions(p))
      BY <1>4, <2>1, <2>3
    <2>4. CASE t = Append(s, Call(p, OwnPermissions(p)))
      <3>1. Call(p, OwnPermissions(p)) \in Frames
        BY <1>3, <1>4 DEF Call, Frame, Frames
      <3>2. Called(s, Call(p, OwnPermissions(p)), t)
        BY <1>1, <1>2, <2>4, <3>1, AppendFrames
      <3>3. Linked(t)
        BY <1>1, <1>2, <1>3, <3>2, CallLinked
      <3>4. Carries(t)
        BY <1>1, <1>2, <1>3, <3>2, CallCarries
      <3>5. QED
        BY <3>2, <3>3, <3>4 DEF Called
    <2>5. QED
      BY <1>2, <2>2, <2>3, <2>4 DEF ResolveParent
  <1>6. /\ PolicyOK' /\ CacheOK'
        /\ \A r : OwnPermissions(r)' = OwnPermissions(r) /\ Reach(r)' = Reach(r)
    BY <1>1, SamePolicy DEF CacheOK
  <1>7. stack' \in Seq(Frames) /\ Linked(stack)' /\ Carries(stack)'
    BY <1>1, <1>2, <1>5, <1>6 DEF Linked, Carries, Places
  <1>8. QED
    BY <1>1, <1>6, <1>7 DEF ResolveInv, Common

(* So does the return from a call, which caches what it collected.         *)
LEMMA ReturnPermissionsKeeps ==
    ASSUME ResolveInv, ReturnPermissions
    PROVE  ResolveInv'
  <1>1. /\ Common /\ PolicyOK /\ stack \in Seq(Frames) /\ Linked(stack) /\ CacheOK
        /\ Carries(stack) /\ stack # <<>>
        /\ UNCHANGED <<rbac, stage, resolving, judging, findings, status>>
    BY DEF ResolveInv, Common, ReturnPermissions, AtReturn
  <1>2. PICK s, t, f : s = stack /\ t = stack' /\ f = Top
    OBVIOUS
  <1>3. Len(s) \in Nat /\ Len(s) > 0 /\ f \in Frames /\ f.role \in Roles /\ f = s[Len(s)]
    BY <1>1, <1>2, TopLooks DEF Top
  <1>4. OwnPermissions(f.role) \subseteq f.perms /\ f.perms \subseteq Reach(f.role) /\ f.perms \in SUBSET Perms
    BY <1>1, <1>2, <1>3 DEF Carries, Frames
  <1>5. /\ DOMAIN cache' = DOMAIN cache \union {f.role}
        /\ \A q \in DOMAIN cache' : cache'[q] = IF q = f.role THEN f.perms ELSE cache[q]
    BY <1>2 DEF ReturnPermissions
  <1>6. /\ PolicyOK' /\ \A r : OwnPermissions(r)' = OwnPermissions(r) /\ Reach(r)' = Reach(r)
    BY <1>1, SamePolicy
  <1>7. CacheOK'
    <2>1. DOMAIN cache' \subseteq Roles
      BY <1>1, <1>3, <1>5 DEF CacheOK
    <2>2. ASSUME NEW q \in DOMAIN cache'
          PROVE  OwnPermissions(q) \subseteq cache'[q] /\ cache'[q] \subseteq Reach(q)
      <3>1. CASE q = f.role
        BY <1>4, <1>5, <3>1
      <3>2. CASE q # f.role
        BY <1>1, <1>5, <3>2 DEF CacheOK
      <3>3. QED
        BY <3>1, <3>2
    <2>3. QED
      BY <1>6, <2>1, <2>2 DEF CacheOK
  <1>8. t \in Seq(Frames) /\ Linked(t) /\ Carries(t)
    <2>1. CASE Len(s) = 1
      <3>1. t = <<>>
        BY <1>2, <2>1 DEF ReturnPermissions, Return
      <3>2. QED
        BY <3>1 DEF Linked, Carries
    <2>2. CASE Len(s) > 1
      <3>1. PICK u : u = SubSeq(s, 1, Len(s) - 1)
        OBVIOUS
      <3>2. t = GoOn(u, f.perms)
        BY <1>2, <1>3, <2>2, <3>1 DEF ReturnPermissions, Return
      <3>3. /\ u \in Seq(Frames) /\ Len(u) = Len(s) - 1 /\ Len(u) > 0
            /\ Linked(u) /\ u[Len(u)] = s[Len(u)]
            /\ s[Len(u)].at <= Places(s[Len(u)])
            /\ rbac.inherits[s[Len(u)].role][s[Len(u)].at] = f.role
        BY <1>1, <1>2, <1>3, <2>2, <3>1, PopLinked
      <3>4. \A k \in 1 .. Len(u) : u[k] = s[k]
        BY <1>1, <1>2, <2>2, <3>1, PopFrames
      <3>5. Carries(u)
        BY <1>1, <1>2, <1>3, <3>3, <3>4 DEF Carries
      <3>6. f.role \in Parents(u[Len(u)].role) /\ u[Len(u)].role \in Roles
        <4>1. u[Len(u)] \in Frames
          BY <3>3
        <4>2. u[Len(u)].role \in Roles /\ u[Len(u)].at \in Nat
          BY <4>1 DEF Frames
        <4>3. u[Len(u)].at \in 1 .. Places(u[Len(u)])
          BY <3>3, <4>2 DEF Linked
        <4>4. QED
          BY <1>1, <3>3, <4>2, <4>3, ParentsAreRoles DEF Places
      <3>7. f.perms \subseteq Reach(u[Len(u)].role)
        BY <1>1, <1>4, <3>6, ReachOf
      <3>8. WentOn(u, f.perms, t)
        BY <1>4, <3>2, <3>3, GoOnFrames
      <3>9. Linked(t)
        BY <1>1, <3>3, <3>8, GoOnLinked
      <3>10. Carries(t)
        BY <3>3, <3>5, <3>7, <3>8, GoOnCarries
      <3>11. QED
        BY <3>8, <3>9, <3>10 DEF WentOn
    <2>3. Len(s) = 1 \/ Len(s) > 1
      BY <1>3
    <2>4. QED
      BY <2>1, <2>2, <2>3
  <1>9. stack' \in Seq(Frames) /\ Linked(stack)' /\ Carries(stack)'
    BY <1>1, <1>2, <1>6, <1>8 DEF Linked, Carries, Places
  <1>10. \A q \in Roles : q < resolving => q \in DOMAIN cache'
    BY <1>5 DEF ResolveInv
  <1>11. QED
    BY <1>1, <1>6, <1>7, <1>9, <1>10 DEF ResolveInv, Common

(* So does the call for the next role. *)
LEMMA ResolveRoleKeeps ==
    ASSUME ResolveInv, ResolveRole
    PROVE  ResolveInv'
  <1>1. /\ Common /\ PolicyOK /\ stack = <<>> /\ CacheOK /\ resolving \in Roles
        /\ NumRoles \in Nat /\ resolving \in 1 .. NumRoles + 1
        /\ UNCHANGED <<rbac, stage, cache, judging, findings, status>>
    BY RoleAssumption DEF ResolveInv, Common, ResolveRole
  <1>2. /\ PolicyOK' /\ CacheOK'
        /\ \A r : OwnPermissions(r)' = OwnPermissions(r) /\ Reach(r)' = Reach(r)
    BY <1>1, SamePolicy DEF CacheOK
  <1>3. CASE resolving \in DOMAIN cache
    <2>1. resolving' = resolving + 1 /\ stack' = <<>>
      BY <1>1, <1>3 DEF ResolveRole
    <2>2. Linked(stack)' /\ Carries(stack)' /\ stack' \in Seq(Frames)
      BY <2>1 DEF Linked, Carries
    <2>3. resolving + 1 \in 1 .. NumRoles + 1
      BY <1>1 DEF Roles
    <2>4. \A q \in Roles : q < resolving + 1 => q \in DOMAIN cache
      BY <1>1, <1>3 DEF ResolveInv, Roles
    <2>5. QED
      BY <1>1, <1>2, <2>1, <2>2, <2>3, <2>4 DEF ResolveInv, Common
  <1>4. CASE resolving \notin DOMAIN cache
    <2>1. PICK p, t, f : p = resolving /\ t = stack' /\ f = Call(p, OwnPermissions(p))
      OBVIOUS
    <2>2. resolving' = resolving /\ t = <<f>> /\ p \in Roles
      BY <1>1, <1>4, <2>1 DEF ResolveRole
    <2>3. f \in Frames
      BY <2>1, <2>2, OwnKind DEF Call, Frame, Frames
    <2>10. PICK s : s = <<>>
      OBVIOUS
    <2>4. s \in Seq(Frames) /\ Len(s) = 0 /\ ~(Len(s) > 0) /\ Called(s, f, t)
      BY <2>2, <2>3, <2>10 DEF Called
    <2>5. Linked(s) /\ Carries(s)
      BY <2>4 DEF Linked, Carries
    <2>6. Linked(t)
      BY <1>1, <2>1, <2>2, <2>4, <2>5, CallLinked
    <2>7. Carries(t)
      BY <1>1, <2>1, <2>2, <2>4, <2>5, CallCarries
    <2>8. stack' \in Seq(Frames) /\ Linked(stack)' /\ Carries(stack)'
      BY <1>1, <1>2, <2>1, <2>4, <2>6, <2>7 DEF Linked, Carries, Places, Called
    <2>9. QED
      BY <1>1, <1>2, <2>2, <2>8 DEF ResolveInv, Common
  <1>5. QED
    BY <1>3, <1>4

-----------------------------------------------------------------------------
(* Its search for administrators.                                          *)

(* From a role of S no administrator is reached, unless through V. *)
Clean(S, V) ==
    \A s \in S : Parents(s) \subseteq S \union V /\ Parents(s) \intersect AdminRoleIds = {}

Cleared(V) == UNION {S \in SUBSET Roles : Clean(S, V)}

RuledOut(V, p) == p \notin AdminRoleIds /\ (p \in V \/ p \in Cleared(V))

(* What is cleared together is clean. *)
LEMMA ClearedClean ==
    ASSUME NEW V
    PROVE  Cleared(V) \in SUBSET Roles /\ Clean(Cleared(V), V)
  BY DEF Cleared, Clean

(* A role whose parents are all ruled out is cleared. *)
LEMMA ClearOne ==
    ASSUME NEW V, NEW q \in Roles, \A p \in Parents(q) : RuledOut(V \union {q}, p)
    PROVE  q \in Cleared(V)
  <1>1. PICK W, S : W = V \union {q} /\ S = Cleared(W)
    OBVIOUS
  <1>2. S \in SUBSET Roles /\ Clean(S, W)
    BY <1>1, ClearedClean
  <1>3. Parents(q) \subseteq S \union W /\ Parents(q) \intersect AdminRoleIds = {}
    BY <1>1 DEF RuledOut
  <1>4. S \union {q} \in SUBSET Roles
    BY <1>2
  <1>5. Clean(S \union {q}, V)
    BY <1>1, <1>2, <1>3 DEF Clean
  <1>6. QED
    BY <1>4, <1>5 DEF Cleared

(* The roles of the first k calls of s. *)
Below(s, k) == {s[j].role : j \in 1 .. k}

(* The parents that a call has looked at are ruled out, the roles of the   *)
(* calls after the first are no administrators' and above the first.       *)
Searching(s) ==
    \A k \in 1 .. Len(s) :
        /\ \A i \in 1 .. s[k].at - 1 : RuledOut(Below(s, k), rbac.inherits[s[k].role][i])
        /\ k > 1 => s[k].role \notin AdminRoleIds /\ s[k].role \in Above(s[1].role)

(* Going on keeps this, if the parent is ruled out. *)
LEMMA GoOnSearching ==
    ASSUME NEW s \in Seq(Frames), Len(s) > 0, Searching(s),
           RuledOut(Below(s, Len(s)), rbac.inherits[s[Len(s)].role][s[Len(s)].at]),
           NEW perms, NEW t, WentOn(s, perms, t)
    PROVE  Searching(t)
  <1>1. Len(s) \in Nat /\ Len(t) = Len(s)
    BY DEF WentOn
  <1>2. \A j \in 1 .. Len(s) : t[j].role = s[j].role
    <2> TAKE j \in 1 .. Len(s)
    <2>1. CASE j < Len(s)
      BY <2>1 DEF WentOn
    <2>2. CASE j = Len(s)
      BY <2>2 DEF WentOn
    <2>3. QED
      BY <1>1, <2>1, <2>2
  <1> SUFFICES ASSUME NEW k \in 1 .. Len(s)
               PROVE  /\ \A i \in 1 .. t[k].at - 1 : RuledOut(Below(t, k), rbac.inherits[t[k].role][i])
                      /\ k > 1 => t[k].role \notin AdminRoleIds /\ t[k].role \in Above(t[1].role)
    BY <1>1 DEF Searching
  <1>3. Below(t, k) = Below(s, k)
    BY <1>1, <1>2 DEF Below
  <1>4. k > 1 => t[k].role \notin AdminRoleIds /\ t[k].role \in Above(t[1].role)
    <2>1. t[k].role = s[k].role /\ t[1].role = s[1].role
      BY <1>1, <1>2
    <2>2. QED
      BY <2>1 DEF Searching
  <1>5. ASSUME NEW i \in 1 .. t[k].at - 1
        PROVE  RuledOut(Below(s, k), rbac.inherits[s[k].role][i])
    <2>1. CASE k < Len(s)
      <3>1. t[k] = s[k]
        BY <2>1 DEF WentOn
      <3>2. QED
        BY <1>5, <3>1 DEF Searching
    <2>2. CASE k = Len(s)
      <3>1. t[k].at = s[k].at + 1
        BY <2>2 DEF WentOn
      <3>2. s[k].at \in Nat
        <4>1. s[k] \in Frames
          OBVIOUS
        <4>2. QED
          BY <4>1 DEF Frames
      <3>3. CASE i = s[k].at
        BY <2>2, <3>3
      <3>4. CASE i # s[k].at
        <4>1. i \in 1 .. s[k].at - 1
          BY <1>5, <3>1, <3>2, <3>4
        <4>2. QED
          BY <4>1 DEF Searching
      <3>5. QED
        BY <3>3, <3>4
    <2>3. QED
      BY <1>1, <2>1, <2>2
  <1>6. t[k].role = s[k].role
    BY <1>2
  <1>7. QED
    BY <1>3, <1>4, <1>5, <1>6

(* So does a call for a parent that is not an administrator's. *)
LEMMA CallSearching ==
    ASSUME PolicyOK, NEW s \in Seq(Frames), Len(s) > 0, Searching(s),
           NEW p \in Parents(s[Len(s)].role), p \notin AdminRoleIds,
           NEW perms, NEW t, Called(s, Call(p, perms), t)
    PROVE  Searching(t)
  <1>1. /\ Len(s) \in Nat /\ Len(t) = Len(s) + 1
        /\ t[Len(s) + 1].role = p /\ t[Len(s) + 1].at = 1
        /\ \A k \in 1 .. Len(s) : t[k] = s[k]
    BY DEF Called, Call, Frame
  <1>2. \A k \in 1 .. Len(s) : s[k].role \in Roles
    <2>1. \A k \in 1 .. Len(s) : s[k] \in Frames
      OBVIOUS
    <2>2. QED
      BY <2>1 DEF Frames
  <1> SUFFICES ASSUME NEW k \in 1 .. Len(s) + 1
               PROVE  /\ \A i \in 1 .. t[k].at - 1 : RuledOut(Below(t, k), rbac.inherits[t[k].role][i])
                      /\ k > 1 => t[k].role \notin AdminRoleIds /\ t[k].role \in Above(t[1].role)
    BY <1>1 DEF Searching
  <1>3. t[1] = s[1] /\ s[1].role \in Roles
    BY <1>1, <1>2
  <1>4. CASE k \in 1 .. Len(s)
    <2>1. t[k] = s[k]
      BY <1>1, <1>4
    <2>2. Below(t, k) = Below(s, k)
      BY <1>1, <1>4 DEF Below
    <2>3. QED
      BY <1>3, <1>4, <2>1, <2>2 DEF Searching
  <1>5. CASE k = Len(s) + 1
    <2>1. p \in Above(s[1].role)
      <3>1. CASE Len(s) = 1
        BY <1>3, <3>1, AboveRole
      <3>2. CASE Len(s) > 1
        <4>1. s[Len(s)].role \in Above(s[1].role)
          BY <1>1, <3>2 DEF Searching
        <4>2. QED
          BY <1>3, <4>1, AboveRole DEF Closed
      <3>3. Len(s) = 1 \/ Len(s) > 1
        <4>1. PICK n : n = Len(s)
          OBVIOUS
        <4>2. n \in Nat /\ n > 0
          BY <4>1
        <4>3. n = 1 \/ n > 1
          BY <4>2
        <4>4. QED
          BY <4>1, <4>3
      <3>4. QED
        BY <3>1, <3>2, <3>3
    <2>2. 1 .. t[k].at - 1 = {}
      BY <1>1, <1>5
    <2>3. QED
      BY <1>1, <1>3, <1>5, <2>1, <2>2
  <1>6. QED
    BY <1>1, <1>4, <1>5

(* A call that has looked at all parents clears its role; without it the   *)
(* others keep this, and the role is ruled out for the call below.         *)
LEMMA PopSearching ==
    ASSUME NEW s \in Seq(Frames), Len(s) > 0, Searching(s),
           \A p \in Parents(s[Len(s)].role) :
               \E i \in 1 .. s[Len(s)].at - 1 : rbac.inherits[s[Len(s)].role][i] = p,
           NEW t, t = SubSeq(s, 1, Len(s) - 1)
    PROVE  /\ Len(s) > 1 => /\ Searching(t)
                            /\ RuledOut(Below(t, Len(t)), s[Len(s)].role)
           /\ Len(s) = 1 => s[1].role \in Cleared({})
  <1>1. PICK n, q : n = Len(s) /\ q = s[n].role
    OBVIOUS
  <1>2. n \in Nat /\ n \in 1 .. Len(s) /\ q \in Roles
    <2>1. n \in Nat /\ n \in 1 .. Len(s) /\ s[n] \in Frames
      BY <1>1
    <2>2. QED
      BY <1>1, <2>1 DEF Frames
  <1>3. \A p \in Parents(q) : RuledOut(Below(s, n), p)
    BY <1>1, <1>2 DEF Searching
  <1>4. Below(s, n) = Below(s, n - 1) \union {q}
    BY <1>1, <1>2 DEF Below
  <1>5. q \in Cleared(Below(s, n - 1))
    BY <1>2, <1>3, <1>4, ClearOne
  <1>6. CASE n = 1
    <2>1. Below(s, n - 1) = {}
      BY <1>6 DEF Below
    <2>2. q \in Cleared({})
      BY <1>5, <2>1
    <2>3. ~(Len(s) > 1) /\ q = s[1].role
      BY <1>1, <1>6
    <2>4. QED
      BY <2>2, <2>3
  <1>7. CASE n > 1
    <2>1. t \in Seq(Frames) /\ Len(t) = n - 1 /\ \A k \in 1 .. Len(t) : t[k] = s[k]
      BY <1>1, <1>7, PopFrames
    <2>2. \A k \in 1 .. Len(t) : Below(t, k) = Below(s, k)
      BY <1>2, <2>1 DEF Below
    <2>3. Searching(t)
      <3> SUFFICES ASSUME NEW k \in 1 .. Len(t)
                   PROVE  /\ \A i \in 1 .. t[k].at - 1 : RuledOut(Below(t, k), rbac.inherits[t[k].role][i])
                          /\ k > 1 => t[k].role \notin AdminRoleIds /\ t[k].role \in Above(t[1].role)
        BY DEF Searching
      <3>1. t[k] = s[k] /\ t[1] = s[1] /\ Below(t, k) = Below(s, k) /\ k \in 1 .. Len(s)
        BY <1>1, <1>2, <1>7, <2>1, <2>2
      <3>2. QED
        BY <3>1 DEF Searching
    <2>4. q \notin AdminRoleIds
      BY <1>1, <1>2, <1>7 DEF Searching
    <2>5. Below(t, Len(t)) = Below(s, n - 1)
      BY <1>2, <1>7, <2>1, <2>2
    <2>6. QED
      BY <1>1, <1>5, <1>7, <2>3, <2>4, <2>5 DEF RuledOut
  <1>8. QED
    BY <1>1, <1>2, <1>6, <1>7

-----------------------------------------------------------------------------
(* Its judgement.                                                          *)

(* What a finding for the role r has to be about. *)
Accused(r) ==
    \/ OwnsPower(r)
    \/ \E p \in Parents(r) : \E q \in Ancestors(p) : OwnsPower(q) \/ LooksAdmin(q)

Complete == Common /\ DOMAIN cache = Roles

(* A dangerous permission that a role reaches is owned by it or above it. *)
LEMMA DangerIsOwned ==
    ASSUME Complete, NEW r \in Roles, cache[r] \intersect Dangerous # {}
    PROVE  \E q \in Ancestors(r) : OwnsPower(q)
  <1>1. PICK x \in Dangerous : x \in Reach(r)
    BY DEF Complete, Common, CacheOK
  <1>2. PICK q \in Ancestors(r) : x \in OwnPermissions(q)
    BY <1>1 DEF Reach
  <1>3. OwnPermissions(q) \intersect Dangerous # {}
    BY <1>1, <1>2
  <1>4. OwnsPower(q)
    BY <1>3, OwnKind DEF OwnsPower
  <1>5. QED
    BY <1>4

(* A role that is an administrator's and above another accuses it. *)
LEMMA AdminAccuses ==
    ASSUME Complete, NEW r \in Roles, NEW p \in AdminRoleIds, p \in Above(r)
    PROVE  Accused(r)
  <1>1. PolicyOK /\ p \in Roles /\ \A q \in Above(r) : Ancestors(q) \subseteq Above(r)
    BY AboveRole DEF Complete, Common, AdminRoleIds
  <1>2. \E q \in Above(r) : OwnsPower(q) \/ LooksAdmin(q)
    <2>1. CASE LooksAdmin(p)
      BY <2>1
    <2>2. CASE cache[p] \intersect Dangerous # {}
      BY <1>1, <2>2, DangerIsOwned
    <2>3. QED
      BY <2>1, <2>2 DEF AdminRoleIds
  <1>3. QED
    BY <1>2 DEF Accused, Above

(* What a role is judged for by itself it owns, or it is owned above it. *)
LEMMA DirectAccuses ==
    ASSUME Complete, NEW r \in Roles, DirectSeverity(r) # "none"
    PROVE  Accused(r)
  <1>1. CASE rbac.kind[r] \in {"flagged", "named"}
    BY <1>1 DEF Accused, OwnsPower
  <1>2. CASE rbac.kind[r] \notin {"flagged", "named"}
    <2>1. cache[r] \intersect Dangerous # {}
      BY <1>2 DEF DirectSeverity, Dangerous
    <2>2. PICK q \in Ancestors(r) : OwnsPower(q)
      BY <2>1, DangerIsOwned
    <2>3. q = r \/ q \in Above(r)
      BY AboveRole DEF Complete, Common
    <2>4. QED
      BY <2>2, <2>3 DEF Accused, Above
  <1>3. QED
    BY <1>1, <1>2

(* A role that is neither judged for anything by itself nor reaches an     *)
(* administrator is not accused.                                           *)
LEMMA ClearedIsInnocent ==
    ASSUME Complete, NEW r \in Cleared({}), DirectSeverity(r) = "none"
    PROVE  ~Accused(r)
  <1>1. PICK S : S = Cleared({})
    OBVIOUS
  <1>2. /\ S \in SUBSET Roles /\ r \in S
        /\ \A s \in S : Parents(s) \subseteq S /\ Parents(s) \intersect AdminRoleIds = {}
    BY <1>1, ClearedClean DEF Clean
  <1>3. /\ PolicyOK /\ DOMAIN cache = Roles
        /\ \A q \in Roles : OwnPermissions(q) \subseteq cache[q]
    BY DEF Complete, Common, CacheOK
  <1>4. ASSUME NEW q \in Roles, OwnsPower(q), cache[q] \intersect Dangerous = {}
        PROVE  rbac.kind[q] \in {"flagged", "named"}
    <2>1. OwnPermissions(q) \intersect Dangerous = {}
      BY <1>3, <1>4
    <2>2. QED
      BY <1>4, <2>1, OwnKind DEF OwnsPower
  <1>5. ~OwnsPower(r)
    <2>1. /\ rbac.kind[r] # "flagged" /\ rbac.kind[r] # "named"
          /\ "*" \notin cache[r] /\ "manage:users" \notin cache[r]
      BY DEF DirectSeverity
    <2>2. cache[r] \intersect Dangerous = {}
      BY <2>1 DEF Dangerous
    <2>3. QED
      BY <1>2, <1>4, <2>1, <2>2
  <1>6. ASSUME NEW p \in Parents(r), NEW q \in Ancestors(p)
        PROVE  ~OwnsPower(q) /\ ~LooksAdmin(q)
    <2>1. PICK U : U = {s \in S : s \notin AdminRoleIds}
      OBVIOUS
    <2>2. U \in SUBSET Roles /\ p \in U /\ Closed(U)
      BY <1>2, <2>1 DEF Closed
    <2>3. q \in U
      BY <2>2, AncestorsLeast
    <2>4. q \in Roles /\ ~LooksAdmin(q) /\ cache[q] \intersect Dangerous = {}
      BY <1>2, <2>1, <2>3 DEF AdminRoleIds
    <2>5. QED
      BY <1>4, <2>4 DEF LooksAdmin
  <1>7. QED
    BY <1>5, <1>6 DEF Accused

(* The roles judged so far have a finding or are cleared. *)
Settled ==
    \A j \in 1 .. Len(rbac.holds) :
        j < judging => \/ \E f \in findings : f.role = rbac.holds[j]
                       \/ DirectSeverity(rbac.holds[j]) = "none" /\ rbac.holds[j] \in Cleared({})

Justified == \A f \in findings : f.role \in Roles /\ Accused(f.role)

JudgeInv ==
    /\ Complete
    /\ judging \in 1 .. Len(rbac.holds) + 1
    /\ Settled /\ Justified
    /\ stack # <<>> => /\ judging <= Len(rbac.holds) /\ stack[1].role = Judged
                       /\ DirectSeverity(Judged) = "none" /\ Searching(stack)

(* With the same policy and permissions, the judgement is the same. *)
LEMMA SameJudgement ==
    ASSUME rbac' = rbac, cache' = cache
    PROVE  /\ AdminRoleIds' = AdminRoleIds
           /\ \A r : DirectSeverity(r)' = DirectSeverity(r)
           /\ Cleared({})' = Cleared({})
           /\ \A r : Accused(r)' = Accused(r)
           /\ \A s : Linked(s)' = Linked(s)
           /\ \A s : Searching(s)' = Searching(s)
  <1>1. /\ \A r : Parents(r)' = Parents(r)
        /\ \A r : Ancestors(r)' = Ancestors(r)
    BY SamePolicy
  <1>2. AdminRoleIds' = AdminRoleIds
    BY DEF AdminRoleIds, LooksAdmin
  <1>3. \A r : DirectSeverity(r)' = DirectSeverity(r)
    BY DEF DirectSeverity
  <1>4. \A V : Cleared(V)' = Cleared(V)
    BY <1>1, <1>2 DEF Cleared, Clean
  <1>5. \A r : Accused(r)' = Accused(r)
    BY <1>1 DEF Accused, OwnsPower, LooksAdmin
  <1>6. \A s : Linked(s)' = Linked(s)
    BY DEF Linked, Places
  <1>7. \A s : Searching(s)' = Searching(s)
    <2>1. \A r : Above(r)' = Above(r)
      BY <1>1 DEF Above
    <2>2. \A V, p : RuledOut(V, p)' = RuledOut(V, p)
      BY <1>2, <1>4 DEF RuledOut
    <2>3. \A s, k : Below(s, k)' = Below(s, k)
      BY DEF Below
    <2>4. QED
      BY <1>2, <2>1, <2>2 DEF Searching, Below
  <1>8. QED
    BY <1>2, <1>3, <1>4, <1>5, <1>6, <1>7

(* A step that leaves the policy and the permissions leaves this.          *)
LEMMA CompleteStays ==
    ASSUME Complete, rbac' = rbac, cache' = cache, stack' \in Seq(Frames), Linked(stack')
    PROVE  Complete'
  <1>1. PolicyOK' /\ CacheOK'
    BY SamePolicy DEF Complete, Common, CacheOK
  <1>2. Linked(stack)'
    BY DEF Linked, Places
  <1>3. QED
    BY <1>1, <1>2 DEF Complete, Common

(* So does one that ends the judgement of a role with a finding, or with   *)
(* the role cleared.                                                       *)
LEMMA JudgedIsSettled ==
    ASSUME JudgeInv, judging <= Len(rbac.holds), rbac' = rbac, cache' = cache,
           judging' = judging + 1, findings \subseteq findings',
           \/ \E f \in findings' : f.role = Judged
           \/ DirectSeverity(Judged) = "none" /\ Judged \in Cleared({})
    PROVE  Settled' /\ judging' \in 1 .. Len(rbac.holds) + 1
  <1>1. PICK n : n = Len(rbac.holds)
    OBVIOUS
  <1>2. n \in Nat /\ judging \in 1 .. n
    <2>1. rbac.holds \in Seq(Roles)
      BY DEF JudgeInv, Complete, Common, PolicyOK
    <2>2. n \in Nat
      BY <1>1, <2>1
    <2>3. QED
      BY <1>1, <2>2 DEF JudgeInv
  <1>3. ASSUME NEW j \in 1 .. n, j < judging'
        PROVE  \/ \E f \in findings' : f.role = rbac.holds[j]
               \/ DirectSeverity(rbac.holds[j]) = "none" /\ rbac.holds[j] \in Cleared({})
    <2>1. CASE j < judging
      BY <1>1, <1>3, <2>1 DEF JudgeInv, Settled
    <2>2. CASE j = judging
      BY <2>2 DEF Judged
    <2>3. QED
      BY <1>2, <1>3, <2>1, <2>2
  <1>4. (\A r : DirectSeverity(r)' = DirectSeverity(r)) /\ Cleared({})' = Cleared({})
    BY SameJudgement
  <1>5. Settled'
    BY <1>1, <1>3, <1>4 DEF Settled
  <1>6. judging' \in 1 .. n + 1
    BY <1>2
  <1>7. QED
    BY <1>1, <1>5, <1>6

(* When all roles are resolved, the judgement begins. *)
LEMMA AllResolvedKeeps ==
    ASSUME ResolveInv, judging = 1, findings = {}, AllResolved
    PROVE  JudgeInv'
  <1>1. /\ Common /\ PolicyOK /\ CacheOK /\ stack = <<>> /\ NumRoles \in Nat
        /\ resolving \in 1 .. NumRoles + 1 /\ resolving \notin Roles
        /\ rbac' = rbac /\ cache' = cache /\ stack' = <<>> /\ judging' = 1 /\ findings' = {}
    BY RoleAssumption DEF ResolveInv, Common, AllResolved
  <1>2. \A q \in Roles : q < resolving
    BY <1>1 DEF Roles
  <1>3. DOMAIN cache = Roles
    BY <1>1, <1>2 DEF ResolveInv, CacheOK
  <1>4. Complete
    BY <1>1, <1>3 DEF Complete
  <1>5. stack' \in Seq(Frames) /\ Linked(stack')
    BY <1>1 DEF Linked
  <1>6. Complete'
    BY <1>1, <1>4, <1>5, CompleteStays
  <1>7. Len(rbac.holds) \in Nat
    <2>1. rbac.holds \in Seq(Roles)
      BY <1>1 DEF PolicyOK
    <2>2. QED
      BY <2>1
  <1>8. judging' \in 1 .. Len(rbac'.holds) + 1
    BY <1>1, <1>7
  <1>9. Settled'
    BY <1>1 DEF Settled
  <1>10. Justified'
    BY <1>1 DEF Justified
  <1>11. QED
    BY <1>1, <1>6, <1>8, <1>9, <1>10 DEF JudgeInv

(* A role that a user holds is a role of the policy. *)
LEMMA JudgedIsRole ==
    ASSUME Complete, judging \in DOMAIN rbac.holds
    PROVE  Judged \in Roles /\ judging <= Len(rbac.holds)
  <1>1. PICK s : s = rbac.holds
    OBVIOUS
  <1>2. s \in Seq(Roles)
    BY <1>1 DEF Complete, Common, PolicyOK
  <1>3. DOMAIN s = 1 .. Len(s) /\ \A k \in 1 .. Len(s) : s[k] \in Roles
    BY <1>2
  <1>4. QED
    BY <1>1, <1>3 DEF Judged

(* Judging a role by itself keeps the judgement. *)
LEMMA JudgeRoleKeeps ==
    ASSUME JudgeInv, JudgeRole
    PROVE  JudgeInv'
  <1>1. /\ Complete /\ PolicyOK /\ Settled /\ Justified /\ stack = <<>>
        /\ judging \in DOMAIN rbac.holds /\ judging \in 1 .. Len(rbac.holds) + 1
        /\ rbac' = rbac /\ cache' = cache
    BY DEF JudgeInv, JudgeRole, Complete, Common
  <1>2. PICK r : r = Judged
    OBVIOUS
  <1>3. r \in Roles /\ judging <= Len(rbac.holds)
    BY <1>1, <1>2, JudgedIsRole
  <1>4. /\ \A q : DirectSeverity(q)' = DirectSeverity(q)
        /\ \A q : Accused(q)' = Accused(q)
        /\ Cleared({})' = Cleared({})
        /\ \A s : Linked(s)' = Linked(s) /\ Searching(s)' = Searching(s)
    BY <1>1, SameJudgement
  <1>5. CASE DirectSeverity(Judged) # "none"
    <2>1. PICK f : f = [role |-> r, severity |-> DirectSeverity(r)]
      OBVIOUS
    <2>2. f.role = r /\ findings' = findings \union {f} /\ judging' = judging + 1 /\ stack' = <<>>
      BY <1>1, <1>2, <1>5, <2>1 DEF JudgeRole, Finds
    <2>3. Accused(r)
      BY <1>1, <1>2, <1>3, <1>5, DirectAccuses
    <2>4. Justified'
      BY <1>1, <1>3, <1>4, <2>2, <2>3 DEF Justified
    <2>5. Settled' /\ judging' \in 1 .. Len(rbac.holds) + 1
      BY <1>1, <1>2, <1>3, <2>2, JudgedIsSettled
    <2>6. stack' \in Seq(Frames) /\ Linked(stack')
      BY <2>2 DEF Linked
    <2>7. Complete'
      BY <1>1, <2>6, CompleteStays
    <2>8. QED
      BY <1>1, <2>2, <2>4, <2>5, <2>7 DEF JudgeInv
  <1>6. CASE DirectSeverity(Judged) = "none"
    <2>1. PICK f, s, t : f = Call(r, {}) /\ s = <<>> /\ t = <<f>>
      OBVIOUS
    <2>2. stack' = t /\ findings' = findings /\ judging' = judging
      BY <1>2, <1>6, <2>1 DEF JudgeRole
    <2>3. f \in Frames /\ f.role = r /\ f.at = 1
      BY <1>3, <2>1 DEF Call, Frame, Frames
    <2>4. s \in Seq(Frames) /\ Len(s) = 0 /\ ~(Len(s) > 0) /\ Called(s, f, t)
      BY <2>1, <2>3 DEF Called
    <2>5. Linked(s)
      BY <2>4 DEF Linked
    <2>6. Linked(t)
      BY <1>1, <1>3, <2>1, <2>4, <2>5, CallLinked
    <2>7. t \in Seq(Frames) /\ Len(t) = 1 /\ t[1] = f
      BY <2>1, <2>3
    <2>8. Searching(t)
      BY <2>3, <2>7 DEF Searching
    <2>9. Complete'
      BY <1>1, <2>2, <2>6, <2>7, CompleteStays
    <2>10. Settled'
      BY <1>1, <1>4, <2>2 DEF Settled
    <2>11. Justified'
      BY <1>1, <1>4, <2>2 DEF Justified
    <2>12. Judged' = r /\ Searching(stack)' /\ stack[1].role' = r /\ DirectSeverity(Judged)' = "none"
      BY <1>1, <1>2, <1>4, <1>6, <2>2, <2>3, <2>7, <2>8 DEF Judged
    <2>13. QED
      BY <1>1, <1>3, <2>2, <2>9, <2>10, <2>11, <2>12 DEF JudgeInv
  <1>7. QED
    BY <1>5, <1>6

(* The parent that the search looks at is above the role that is judged.   *)
LEMMA LooksAbove ==
    ASSUME Complete, Searching(stack), stack # <<>>, AtParent
    PROVE  stack[1].role \in Roles /\ Parent \in Above(stack[1].role)
  <1>1. PICK n, b, q : n = Len(stack) /\ b = stack[1].role /\ q = Top.role
    OBVIOUS
  <1>2. /\ PolicyOK /\ stack \in Seq(Frames) /\ n \in Nat /\ n > 0
        /\ q \in Roles /\ Parent \in Parents(q) /\ q = stack[n].role
    BY <1>1, TopLooks DEF Complete, Common, Top
  <1>3. b \in Roles
    <2>1. stack[1] \in Frames
      BY <1>1, <1>2
    <2>2. QED
      BY <1>1, <2>1 DEF Frames
  <1>4. CASE n = 1
    BY <1>1, <1>2, <1>3, <1>4, AboveRole
  <1>5. CASE n > 1
    <2>1. q \in Above(b)
      BY <1>1, <1>2, <1>5 DEF Searching
    <2>2. QED
      BY <1>1, <1>2, <1>3, <2>1, AboveRole DEF Closed
  <1>6. QED
    BY <1>2, <1>4, <1>5

(* Finding a chain keeps the judgement. *)
LEMMA FindChainKeeps ==
    ASSUME JudgeInv, FindChain
    PROVE  JudgeInv'
  <1>1. /\ Complete /\ PolicyOK /\ Settled /\ Justified /\ stack # <<>> /\ AtParent
        /\ judging <= Len(rbac.holds) /\ stack[1].role = Judged /\ Searching(stack)
        /\ rbac' = rbac /\ cache' = cache /\ stack' = <<>> /\ Parent \in AdminRoleIds
    BY DEF JudgeInv, FindChain, AtParent, Complete, Common
  <1>2. PICK r, f : r = Judged /\ f = [role |-> r, severity |-> "HIGH"]
    OBVIOUS
  <1>3. f.role = r /\ findings' = findings \union {f} /\ judging' = judging + 1
    BY <1>2 DEF FindChain, Finds
  <1>4. r \in Roles /\ Accused(r)
    BY <1>1, <1>2, LooksAbove, AdminAccuses
  <1>5. \A q : Accused(q)' = Accused(q)
    BY <1>1, SameJudgement
  <1>6. Justified'
    BY <1>1, <1>3, <1>4, <1>5 DEF Justified
  <1>7. Settled' /\ judging' \in 1 .. Len(rbac.holds) + 1
    BY <1>1, <1>2, <1>3, JudgedIsSettled
  <1>8. stack' \in Seq(Frames) /\ Linked(stack')
    BY <1>1 DEF Linked
  <1>9. Complete'
    BY <1>1, <1>8, CompleteStays
  <1>10. QED
    BY <1>1, <1>6, <1>7, <1>9 DEF JudgeInv

(* So does a step of the search that leaves it underway. *)
LEMMA SearchGoesOn ==
    ASSUME JudgeInv, stack # <<>>, rbac' = rbac, cache' = cache, judging' = judging,
           findings' = findings, stack' \in Seq(Frames), Linked(stack'), Searching(stack'),
           stack'[1].role = stack[1].role
    PROVE  JudgeInv'
  <1>1. /\ \A q : DirectSeverity(q)' = DirectSeverity(q)
        /\ \A q : Accused(q)' = Accused(q)
        /\ Cleared({})' = Cleared({})
        /\ \A s : Searching(s)' = Searching(s)
    BY SameJudgement
  <1>2. Complete'
    BY CompleteStays DEF JudgeInv
  <1>3. Settled'
    BY <1>1 DEF Settled, JudgeInv
  <1>4. Justified'
    BY <1>1 DEF Justified, JudgeInv
  <1>5. Judged' = Judged /\ DirectSeverity(Judged)' = DirectSeverity(Judged) /\ Searching(stack)'
    BY <1>1 DEF Judged
  <1>6. QED
    BY <1>2, <1>3, <1>4, <1>5 DEF JudgeInv

(* So does looking at a parent that is no administrator's. *)
LEMMA SearchParentKeeps ==
    ASSUME JudgeInv, SearchParent
    PROVE  JudgeInv'
  <1>1. /\ Complete /\ PolicyOK /\ Common /\ Linked(stack) /\ Searching(stack)
        /\ stack \in Seq(Frames) /\ stack # <<>> /\ AtParent
        /\ rbac' = rbac /\ cache' = cache /\ judging' = judging /\ findings' = findings
    BY DEF JudgeInv, SearchParent, AtParent, Complete, Common
  <1>2. PICK s, t, f, p : s = stack /\ t = stack' /\ f = Top /\ p = Parent
    OBVIOUS
  <1>3. /\ Len(s) \in Nat /\ Len(s) > 0 /\ f \in Frames /\ f.role \in Roles /\ f = s[Len(s)]
        /\ f.at <= Places(f) /\ p \in Parents(f.role) /\ p \in Roles
        /\ p = rbac.inherits[f.role][f.at] /\ p \notin AdminRoleIds
    BY <1>1, <1>2, TopLooks DEF Top, Parent, SearchParent
  <1>4. {} \in SUBSET Perms
    OBVIOUS
  <1>5. CASE p \in Visited
    <2>1. WentOn(s, {}, t)
      BY <1>1, <1>2, <1>3, <1>4, <1>5, GoOnFrames DEF SearchParent
    <2>2. RuledOut(Below(s, Len(s)), p)
      BY <1>1, <1>2, <1>3, <1>5 DEF RuledOut, Below, Visited
    <2>3. Searching(t)
      BY <1>1, <1>2, <1>3, <2>1, <2>2, GoOnSearching
    <2>4. Linked(t)
      BY <1>1, <1>2, <1>3, <2>1, GoOnLinked
    <2>5. t \in Seq(Frames) /\ t[1].role = s[1].role
      BY <1>3, <2>1 DEF WentOn
    <2>6. QED
      BY <1>1, <1>2, <2>3, <2>4, <2>5, SearchGoesOn
  <1>6. CASE p \notin Visited
    <2>1. Call(p, {}) \in Frames
      BY <1>3 DEF Call, Frame, Frames
    <2>2. Called(s, Call(p, {}), t)
      BY <1>1, <1>2, <1>6, <2>1, AppendFrames DEF SearchParent
    <2>3. Searching(t)
      BY <1>1, <1>2, <1>3, <2>2, CallSearching
    <2>4. Linked(t)
      BY <1>1, <1>2, <1>3, <2>2, CallLinked
    <2>5. t \in Seq(Frames) /\ t[1].role = s[1].role
      BY <1>3, <2>2 DEF Called
    <2>6. QED
      BY <1>1, <1>2, <2>3, <2>4, <2>5, SearchGoesOn
  <1>7. QED
    BY <1>5, <1>6

(* So does the return from a role that reaches no administrator; the first *)
(* call's clears the role judged.                                          *)
LEMMA ReturnNoChainKeeps ==
    ASSUME JudgeInv, ReturnNoChain
    PROVE  JudgeInv'
  <1>1. /\ Complete /\ PolicyOK /\ Common /\ Linked(stack) /\ Searching(stack)
        /\ Settled /\ Justified /\ judging <= Len(rbac.holds)
        /\ stack[1].role = Judged /\ DirectSeverity(Judged) = "none"
        /\ stack \in Seq(Frames) /\ stack # <<>> /\ AtReturn
        /\ rbac' = rbac /\ cache' = cache /\ findings' = findings
    BY DEF JudgeInv, ReturnNoChain, AtReturn, Complete, Common
  <1>2. PICK s, t, n : s = stack /\ t = stack' /\ n = Len(s)
    OBVIOUS
  <1>3. /\ n \in Nat /\ n > 0 /\ Top = s[n]
        /\ \A p \in Parents(s[n].role) : \E i \in 1 .. s[n].at - 1 : rbac.inherits[s[n].role][i] = p
    BY <1>1, <1>2, TopLooks DEF Top
  <1>4. CASE n = 1
    <2>1. t = <<>> /\ judging' = judging + 1
      BY <1>2, <1>4 DEF ReturnNoChain, Return
    <2>2. PICK u : u = SubSeq(s, 1, Len(s) - 1)
      OBVIOUS
    <2>3. Judged \in Cleared({})
      <3>1. /\ s \in Seq(Frames) /\ Len(s) > 0 /\ Len(s) = 1 /\ Searching(s) /\ s[1].role = Judged
            /\ \A p \in Parents(s[Len(s)].role) :
                  \E i \in 1 .. s[Len(s)].at - 1 : rbac.inherits[s[Len(s)].role][i] = p
        BY <1>1, <1>2, <1>3, <1>4
      <3>2. s[1].role \in Cleared({})
        BY <3>1, <2>2, PopSearching
      <3>3. QED
        BY <3>1, <3>2
    <2>4. Settled' /\ judging' \in 1 .. Len(rbac.holds) + 1
      BY <1>1, <2>1, <2>3, JudgedIsSettled
    <2>5. Justified'
      BY <1>1, SameJudgement DEF Justified
    <2>6. stack' \in Seq(Frames) /\ Linked(stack')
      BY <1>2, <2>1 DEF Linked
    <2>7. Complete'
      BY <1>1, <2>6, CompleteStays
    <2>8. QED
      BY <1>1, <1>2, <2>1, <2>4, <2>5, <2>7 DEF JudgeInv
  <1>5. CASE n > 1
    <2>1. PICK u : u = SubSeq(s, 1, Len(s) - 1)
      OBVIOUS
    <2>2. t = GoOn(u, {}) /\ judging' = judging
      BY <1>2, <1>3, <1>5, <2>1 DEF ReturnNoChain, Return
    <2>3. /\ u \in Seq(Frames) /\ Len(u) = n - 1 /\ Len(u) > 0
          /\ Linked(u) /\ u[Len(u)] = s[Len(u)]
          /\ s[Len(u)].at <= Places(s[Len(u)])
          /\ rbac.inherits[s[Len(u)].role][s[Len(u)].at] = s[n].role
      BY <1>1, <1>2, <1>5, <2>1, PopLinked
    <2>4. \A k \in 1 .. Len(u) : u[k] = s[k]
      BY <1>1, <1>2, <1>5, <2>1, PopFrames
    <2>5. Searching(u) /\ RuledOut(Below(u, Len(u)), s[n].role)
      BY <1>1, <1>2, <1>3, <1>5, <2>1, PopSearching
    <2>6. WentOn(u, {}, t)
      BY <2>2, <2>3, GoOnFrames
    <2>7. Searching(t)
      BY <2>3, <2>5, <2>6, GoOnSearching
    <2>8. Linked(t)
      BY <1>1, <2>3, <2>6, GoOnLinked
    <2>9. t \in Seq(Frames) /\ t[1].role = s[1].role
      <3>1. 1 \in 1 .. Len(u) /\ u[1] = s[1]
        BY <2>3, <2>4
      <3>2. t[1].role = u[1].role
        BY <2>3, <2>6 DEF WentOn
      <3>3. QED
        BY <2>6, <3>1, <3>2 DEF WentOn
    <2>10. QED
      BY <1>1, <1>2, <2>2, <2>7, <2>8, <2>9, SearchGoesOn
  <1>6. QED
    BY <1>3, <1>4, <1>5

-----------------------------------------------------------------------------
(* The whole audit.                                                        *)

NotBegun ==
    /\ resolving = 1 /\ cache = <<>> /\ judging = 1 /\ findings = {}
    /\ status = "none" /\ stack = <<>>

RoleInv ==
    /\ stage \in {"idle", "read", "resolving", "judging", "done"}
    /\ stage \in {"idle", "read"} => NotBegun
    /\ stage = "read" => rbac \in Policies
    /\ stage = "resolving" => ResolveInv /\ judging = 1 /\ findings = {} /\ status = "none"
    /\ stage = "judging" => JudgeInv /\ status = "none"
    /\ stage = "done" => \/ status = "UNKNOWN_ROLE" /\ cache = <<>>
                         \/ JudgeInv /\ judging \notin DOMAIN rbac.holds
    /\ status = "SAFE" => stage = "done" /\ findings = {}

(* A scan starts from nothing. *)
LEMMA BeginScanResolves ==
    ASSUME NotBegun, rbac \in Policies, ValidPolicy, BeginScan, stage' = "resolving"
    PROVE  ResolveInv'
  <1>1. /\ PolicyOK /\ stack = <<>> /\ cache = <<>> /\ resolving = 1 /\ NumRoles \in Nat
        /\ rbac' = rbac /\ stack' = stack /\ cache' = cache /\ resolving' = resolving
    BY ValidatedPolicy, RoleAssumption DEF NotBegun, BeginScan
  <1>2. stack \in Seq(Frames) /\ Linked(stack)' /\ Carries(stack)'
    BY <1>1 DEF Linked, Carries
  <1>3. DOMAIN cache' = {}
    BY <1>1
  <1>4. CacheOK'
    BY <1>3 DEF CacheOK
  <1>5. resolving' \in 1 .. NumRoles + 1 /\ \A q \in Roles : ~(q < resolving')
    BY <1>1 DEF Roles
  <1>6. PolicyOK'
    BY <1>1 DEF PolicyOK
  <1>7. QED
    BY <1>1, <1>2, <1>4, <1>5, <1>6 DEF ResolveInv, Common

(* A step that changes none of this keeps the judgement. *)
LEMMA JudgeInvStays ==
    ASSUME JudgeInv, UNCHANGED <<rbac, cache, judging, findings, stack>>
    PROVE  JudgeInv'
  <1>1. /\ \A q : DirectSeverity(q)' = DirectSeverity(q)
        /\ \A q : Accused(q)' = Accused(q)
        /\ Cleared({})' = Cleared({})
        /\ \A s : Searching(s)' = Searching(s)
        /\ \A s : Linked(s)' = Linked(s)
    BY SameJudgement
  <1>2. Complete'
    <2>1. stack' \in Seq(Frames) /\ Linked(stack')
      BY DEF JudgeInv, Complete, Common
    <2>2. QED
      BY <2>1, CompleteStays DEF JudgeInv
  <1>3. Settled'
    BY <1>1 DEF Settled, JudgeInv
  <1>4. Justified'
    BY <1>1 DEF Justified, JudgeInv
  <1>5. Judged' = Judged /\ DirectSeverity(Judged)' = DirectSeverity(Judged)
        /\ (Searching(stack) => Searching(stack)')
    BY <1>1 DEF Judged
  <1>6. QED
    BY <1>2, <1>3, <1>4, <1>5 DEF JudgeInv

LEMMA ResolveInvStays ==
    ASSUME ResolveInv, UNCHANGED <<rbac, cache, resolving, stack>>
    PROVE  ResolveInv'
  <1>1. PolicyOK' /\ CacheOK'
    BY SamePolicy DEF ResolveInv, Common, CacheOK
  <1>2. Linked(stack)' /\ Carries(stack)'
    BY SamePolicy DEF ResolveInv, Common, Linked, Carries, Places
  <1>3. QED
    BY <1>1, <1>2 DEF ResolveInv, Common

(* Every step of the audit keeps what the audit has found out right.       *)
LEMMA RoleInvHolds == RoleSpec => []RoleInv
  <1>1. RoleInit => RoleInv
    BY DEF RoleInit, RoleInv, NotBegun
  <1>2. RoleInv /\ [RoleNext]_roleVars => RoleInv'
    <2> SUFFICES ASSUME RoleInv, [RoleNext]_roleVars PROVE RoleInv'
      OBVIOUS
    <2>1. CASE ReadPolicy
      BY <2>1 DEF RoleInv, ReadPolicy, NotBegun
    <2>2. CASE BeginScan
      <3>1. /\ stage = "read" /\ NotBegun /\ rbac \in Policies /\ status = "none"
            /\ judging' = 1 /\ findings' = {}
        BY <2>2 DEF RoleInv, BeginScan, NotBegun
      <3>2. CASE ValidPolicy
        <4>1. stage' = "resolving" /\ status' = "none"
          BY <2>2, <3>1, <3>2 DEF BeginScan
        <4>2. ResolveInv'
          BY <2>2, <3>1, <3>2, <4>1, BeginScanResolves
        <4>3. QED
          BY <3>1, <4>1, <4>2 DEF RoleInv
      <3>3. CASE ~ValidPolicy
        <4>1. stage' = "done" /\ status' = "UNKNOWN_ROLE" /\ cache' = <<>>
          BY <2>2, <3>1, <3>3 DEF BeginScan, NotBegun
        <4>2. QED
          BY <4>1 DEF RoleInv
      <3>4. QED
        BY <3>2, <3>3
    <2>3. CASE ResolveRole \/ ResolveParent \/ ReturnPermissions
      <3>1. /\ stage = "resolving" /\ stage' = stage /\ judging' = judging
            /\ findings' = findings /\ status' = status
        BY <2>3 DEF ResolveRole, ResolveParent, ReturnPermissions
      <3>2. ResolveInv /\ judging = 1 /\ findings = {} /\ status = "none"
        BY <3>1 DEF RoleInv
      <3>3. ResolveInv'
        BY <2>3, <3>2, ResolveRoleKeeps, ResolveParentKeeps, ReturnPermissionsKeeps
      <3>4. QED
        BY <3>1, <3>2, <3>3 DEF RoleInv
    <2>4. CASE AllResolved
      <3>1. stage = "resolving" /\ stage' = "judging" /\ status' = status
        BY <2>4 DEF AllResolved
      <3>2. ResolveInv /\ judging = 1 /\ findings = {} /\ status = "none"
        BY <3>1 DEF RoleInv
      <3>3. JudgeInv'
        BY <2>4, <3>2, AllResolvedKeeps
      <3>4. QED
        BY <3>1, <3>2, <3>3 DEF RoleInv
    <2>5. CASE JudgeRole \/ FindChain \/ SearchParent \/ ReturnNoChain
      <3>1. stage = "judging" /\ stage' = stage /\ status' = status
        BY <2>5 DEF JudgeRole, FindChain, SearchParent, ReturnNoChain
      <3>2. JudgeInv /\ status = "none"
        BY <3>1 DEF RoleInv
      <3>3. JudgeInv'
        BY <2>5, <3>2, JudgeRoleKeeps, FindChainKeeps, SearchParentKeeps, ReturnNoChainKeeps
      <3>4. QED
        BY <3>1, <3>2, <3>3 DEF RoleInv
    <2>6. CASE EndScan
      <3>1. /\ stage = "judging" /\ stage' = "done" /\ judging \notin DOMAIN rbac.holds
            /\ UNCHANGED <<rbac, resolving, cache, judging, findings, stack>>
            /\ status' = "SAFE" => findings = {}
        BY <2>6 DEF EndScan
      <3>2. JudgeInv'
        BY <3>1, JudgeInvStays DEF RoleInv
      <3>3. QED
        BY <3>1, <3>2 DEF RoleInv
    <2>7. CASE UNCHANGED roleVars
      <3>1. UNCHANGED <<rbac, stage, resolving, cache, judging, findings, status, stack>>
        BY <2>7 DEF roleVars
      <3>2. stage = "resolving" => ResolveInv'
        BY <3>1, ResolveInvStays DEF RoleInv
      <3>3. stage = "judging" => JudgeInv'
        BY <3>1, JudgeInvStays DEF RoleInv
      <3>4. stage \in {"idle", "read"} => NotBegun'
        BY <3>1 DEF RoleInv, NotBegun
      <3>5. stage = "done" => \/ status = "UNKNOWN_ROLE" /\ cache' = <<>>
                              \/ JudgeInv' /\ judging' \notin DOMAIN rbac'.holds
        BY <3>1, JudgeInvStays DEF RoleInv
      <3>6. QED
        BY <3>1, <3>2, <3>3, <3>4, <3>5 DEF RoleInv
    <2>8. QED
      BY <2>1, <2>2, <2>3, <2>4, <2>5, <2>6, <2>7 DEF RoleNext
  <1>3. QED
    BY <1>1, <1>2, PTL DEF RoleSpec

(* The effective permissions of a role (resolveAllPermissions()) are never *)
(* more than it owns and inherits, and never less than it owns: a circle   *)
(* or the depth can only take away what is inherited.                      *)
THEOREM EffectiveIsOwned == RoleSpec => []CacheOK
  <1>1. RoleInv => CacheOK
    <2>1. cache = <<>> => CacheOK
      BY DEF CacheOK
    <2>2. QED
      BY <2>1 DEF RoleInv, NotBegun, ResolveInv, JudgeInv, Complete, Common
  <1>2. QED
    BY <1>1, RoleInvHolds, PTL

(* The findings of an audit are exactly those that the policy deserves:    *)
(* detectPrivilegeEscalation() accuses a role that a user holds if, and    *)
(* only if, it has or inherits an administrator's power, whatever circles  *)
(* and depth have kept out of the cache.                                   *)
THEOREM EscalationsAreFound == RoleSpec => []FindingsAreExact
  <1>1. RoleInv => FindingsAreExact
    <2> SUFFICES ASSUME RoleInv, stage = "done", status # "UNKNOWN_ROLE", NEW r \in Range(rbac.holds)
                 PROVE  (\E f \in findings : f.role = r) <=> Accused(r)
      BY DEF FindingsAreExact, Accused
    <2>1. JudgeInv /\ Complete /\ Settled /\ Justified /\ judging \notin DOMAIN rbac.holds
      BY DEF RoleInv, JudgeInv
    <2>2. PICK s : s = rbac.holds
      OBVIOUS
    <2>3. s \in Seq(Roles)
      BY <2>1, <2>2 DEF Complete, Common, PolicyOK
    <2>4. Len(s) \in Nat /\ DOMAIN s = 1 .. Len(s) /\ judging \in 1 .. Len(s) + 1
      BY <2>1, <2>2, <2>3 DEF JudgeInv
    <2>5. PICK j \in 1 .. Len(s) : s[j] = r
      BY <2>2, <2>4 DEF Range
    <2>6. j < judging
      BY <2>1, <2>2, <2>4
    <2>7. \/ \E f \in findings : f.role = r
          \/ DirectSeverity(r) = "none" /\ r \in Cleared({})
      BY <2>1, <2>2, <2>5, <2>6 DEF Settled
    <2>8. (\E f \in findings : f.role = r) => Accused(r)
      BY <2>1 DEF Justified
    <2>9. QED
      BY <2>1, <2>7, <2>8, ClearedIsInnocent
  <1>2. QED
    BY <1>1, RoleInvHolds, PTL

(* An audit that says SAFE has overlooked nobody: with no finding, no role *)
(* that a user holds has an administrator's power or inherits it.          *)
THEOREM SafeAuditsAreRight == RoleSpec => []SafeMeansNoAdmin
  <1>1. RoleInv /\ FindingsAreExact => SafeMeansNoAdmin
    <2> SUFFICES ASSUME RoleInv, FindingsAreExact, status = "SAFE",
                        NEW r \in Range(rbac.holds), NEW q \in Ancestors(r)
                 PROVE  ~OwnsPower(q)
      BY DEF SafeMeansNoAdmin
    <2>1. stage = "done" /\ findings = {} /\ JudgeInv /\ PolicyOK
      BY DEF RoleInv, JudgeInv, Complete, Common
    <2>2. ~Accused(r)
      BY <2>1 DEF FindingsAreExact, Accused
    <2>3. r \in Roles
      <3>1. PICK s : s = rbac.holds
        OBVIOUS
      <3>2. s \in Seq(Roles)
        BY <2>1, <3>1 DEF PolicyOK
      <3>3. QED
        BY <3>1, <3>2 DEF Range
    <2>4. q = r \/ q \in Above(r)
      BY <2>1, <2>3, AboveRole
    <2>5. QED
      BY <2>2, <2>4 DEF Accused, Above
  <1>2. QED
    BY <1>1, RoleInvHolds, EscalationsAreFound, PTL


(* Neither search enters a role that it is in already, so that it is never *)
(* deeper than there are roles; and the first keeps to its depth limit.    *)
Distinct(s) == \A i, j \in 1 .. Len(s) : s[i].role = s[j].role => i = j

SearchesBounded ==
    /\ stack \in Seq(Frames) /\ Distinct(stack)
    /\ Len(stack) <= NumRoles
    /\ stage = "resolving" => Len(stack) <= MaxDepth + 1

(* Where roles differ there are no more calls than roles. *)
LEMMA NoMoreThanRoles ==
    ASSUME NEW s \in Seq(Frames), Distinct(s)
    PROVE  Len(s) <= NumRoles
  <1>1. PICK n, f : n = Len(s) /\ f = [k \in 1 .. n |-> s[k].role]
    OBVIOUS
  <1>2. n \in Nat /\ NumRoles \in Nat
    BY <1>1, RoleAssumption
  <1>3. \A k \in 1 .. n : s[k].role \in Roles
    <2>1. \A k \in 1 .. n : s[k] \in Frames
      BY <1>1
    <2>2. QED
      BY <2>1 DEF Frames
  <1>4. /\ IsFiniteSet(1 .. n) /\ Cardinality(1 .. n) = n
        /\ IsFiniteSet(Roles) /\ Cardinality(Roles) = NumRoles
    BY <1>2, FS_Interval DEF Roles
  <1>5. f \in Injection(1 .. n, Roles)
    <2>1. f \in [1 .. n -> Roles]
      BY <1>1, <1>3
    <2>2. \A i, j \in 1 .. n : f[i] = f[j] => i = j
      BY <1>1 DEF Distinct
    <2>3. QED
      BY <2>1, <2>2 DEF Injection, IsInjective
  <1>6. Cardinality(1 .. n) <= Cardinality(Roles)
    BY <1>4, <1>5, FS_Injection
  <1>7. QED
    BY <1>1, <1>4, <1>6

(* Going on, calling and returning keep the roles apart. *)
LEMMA GoOnDistinct ==
    ASSUME NEW s \in Seq(Frames), Len(s) > 0, Distinct(s), NEW perms, NEW t, WentOn(s, perms, t)
    PROVE  Distinct(t)
  <1>1. Len(s) \in Nat /\ Len(t) = Len(s)
    BY DEF WentOn
  <1>2. \A j \in 1 .. Len(s) : t[j].role = s[j].role
    <2> TAKE j \in 1 .. Len(s)
    <2>1. CASE j < Len(s)
      BY <2>1 DEF WentOn
    <2>2. CASE j = Len(s)
      BY <2>2 DEF WentOn
    <2>3. QED
      BY <1>1, <2>1, <2>2
  <1>3. QED
    BY <1>1, <1>2 DEF Distinct

LEMMA CallDistinct ==
    ASSUME NEW s \in Seq(Frames), Distinct(s), NEW f, \A k \in 1 .. Len(s) : s[k].role # f.role,
           NEW t, Called(s, f, t)
    PROVE  Distinct(t)
  <1>1. /\ Len(s) \in Nat /\ Len(t) = Len(s) + 1 /\ t[Len(s) + 1] = f
        /\ \A k \in 1 .. Len(s) : t[k] = s[k]
    BY DEF Called
  <1>2. \A k \in 1 .. Len(s) + 1 : k \in 1 .. Len(s) \/ k = Len(s) + 1
    BY <1>1
  <1>3. QED
    BY <1>1, <1>2 DEF Distinct

LEMMA PopDistinct ==
    ASSUME NEW s \in Seq(Frames), Distinct(s), Len(s) > 1,
           NEW perms \in SUBSET Perms, NEW t, t = GoOn(SubSeq(s, 1, Len(s) - 1), perms)
    PROVE  Distinct(t) /\ t \in Seq(Frames) /\ Len(t) = Len(s) - 1
  <1>1. PICK u : u = SubSeq(s, 1, Len(s) - 1)
    OBVIOUS
  <1>2. u \in Seq(Frames) /\ Len(u) = Len(s) - 1 /\ \A k \in 1 .. Len(u) : u[k] = s[k]
    BY <1>1, PopFrames
  <1>3. Len(s) \in Nat /\ Len(u) > 0 /\ Len(u) < Len(s)
    BY <1>2
  <1>4. Distinct(u)
    BY <1>2, <1>3 DEF Distinct
  <1>5. WentOn(u, perms, t)
    BY <1>1, <1>2, <1>3, GoOnFrames
  <1>6. QED
    BY <1>2, <1>3, <1>4, <1>5, GoOnDistinct DEF WentOn

(* Whatever the circles, both searches come to an end: each call is for a  *)
(* role that no call underway is for.                                      *)
THEOREM SearchesAreBounded == RoleSpec => []SearchesBounded
  <1>1. RoleInit => SearchesBounded
    BY RoleAssumption DEF RoleInit, SearchesBounded, Distinct
  <1>2. ASSUME RoleInv, RoleInv', SearchesBounded, [RoleNext]_roleVars PROVE SearchesBounded'
    <2>0. MaxDepth \in Nat /\ MaxDepth > 0 /\ NumRoles \in Nat
      BY RoleAssumption
    <2> SUFFICES Distinct(stack') /\ stack' \in Seq(Frames) /\ (stage' = "resolving" => Len(stack') <= MaxDepth + 1)
      <3>1. Distinct(stack') /\ stack' \in Seq(Frames) => Len(stack') <= NumRoles
        BY NoMoreThanRoles
      <3>2. Distinct(stack') => Distinct(stack)'
        BY DEF Distinct
      <3>3. QED
        BY <3>1, <3>2 DEF SearchesBounded
    <2>1. PICK s, t : s = stack /\ t = stack'
      OBVIOUS
    <2>2. Distinct(s) /\ (stage = "resolving" => Len(s) <= MaxDepth + 1)
      BY <1>2, <2>1 DEF SearchesBounded, Distinct
    <2>3. ASSUME t = <<>> PROVE Distinct(t) /\ t \in Seq(Frames) /\ Len(t) <= MaxDepth + 1
      BY <2>0, <2>3 DEF Distinct
    <2>4. ASSUME NEW f \in Frames, t = <<f>>
          PROVE  Distinct(t) /\ t \in Seq(Frames) /\ Len(t) <= MaxDepth + 1
      <3>1. t \in Seq(Frames) /\ Len(t) = 1
        BY <2>4
      <3>2. QED
        BY <2>0, <3>1 DEF Distinct
    <2>5. CASE ReadPolicy \/ BeginScan
      <3>1. s = <<>> /\ t = s
        BY <1>2, <2>1, <2>5 DEF ReadPolicy, BeginScan, RoleInv, NotBegun
      <3>2. QED
        BY <2>1, <2>3, <3>1
    <2>6. CASE ResolveRole
      <3>1. ResolveInv /\ stack = <<>> /\ resolving \in Roles
        BY <1>2, <2>6 DEF ResolveRole, RoleInv
      <3>2. Call(resolving, OwnPermissions(resolving)) \in Frames
        BY <3>1, OwnKind DEF Call, Frame, Frames
      <3>3. t = <<>> \/ t = <<Call(resolving, OwnPermissions(resolving))>>
        BY <2>1, <2>6, <3>1 DEF ResolveRole
      <3>4. QED
        BY <2>1, <2>3, <2>4, <3>2, <3>3
    <2>7. CASE ResolveParent
      <3>1. /\ ResolveInv /\ Common /\ stack # <<>> /\ AtParent /\ stage = "resolving"
            /\ stack \in Seq(Frames) /\ CacheOK /\ PolicyOK
        BY <1>2, <2>7 DEF ResolveParent, RoleInv, ResolveInv, Common, AtParent
      <3>2. Len(s) \in Nat /\ Len(s) > 0 /\ Parent \in Roles
        BY <2>1, <3>1, TopLooks
      <3>3. ASSUME NEW perms \in SUBSET Perms, t = GoOn(s, perms)
            PROVE  Distinct(t) /\ t \in Seq(Frames) /\ Len(t) = Len(s)
        <4>1. s \in Seq(Frames) /\ Len(s) > 0
          BY <2>1, <3>1, <3>2
        <4>2. WentOn(s, perms, t)
          BY <3>3, <4>1, GoOnFrames
        <4>3. QED
          BY <2>2, <4>1, <4>2, GoOnDistinct DEF WentOn
      <3>4. CASE Parent \in DOMAIN cache /\ t = GoOn(s, cache[Parent])
        <4>1. cache[Parent] \in SUBSET Perms
          BY <3>1, <3>2, <3>4, ReachOf DEF CacheOK
        <4>2. QED
          BY <2>1, <2>2, <3>1, <3>3, <3>4, <4>1
      <3>5. CASE t = GoOn(s, OwnPermissions(Parent))
        BY <2>1, <2>2, <3>1, <3>3, <3>5, OwnKind
      <3>6. CASE ~CutShort /\ t = Append(s, Call(Parent, OwnPermissions(Parent)))
        <4>1. PICK f : f = Call(Parent, OwnPermissions(Parent))
          OBVIOUS
        <4>2. f \in Frames /\ f.role = Parent
          BY <3>2, <4>1, OwnKind DEF Call, Frame, Frames
        <4>3. Called(s, f, t)
          BY <2>1, <3>1, <3>6, <4>1, <4>2, AppendFrames
        <4>4. (\A k \in 1 .. Len(s) : s[k].role # f.role) /\ ~(Len(s) > MaxDepth)
          BY <2>1, <3>1, <3>6, <4>2 DEF CutShort, Visited
        <4>5. Distinct(t)
          BY <2>1, <2>2, <3>1, <4>3, <4>4, CallDistinct
        <4>6. Len(t) <= MaxDepth + 1
          BY <2>0, <3>2, <4>3, <4>4 DEF Called
        <4>7. QED
          BY <2>1, <4>3, <4>5, <4>6 DEF Called
      <3>7. QED
        BY <2>1, <2>7, <3>4, <3>5, <3>6 DEF ResolveParent
    <2>8. CASE ReturnPermissions \/ ReturnNoChain
      <3>1. PICK perms : perms = IF stage = "resolving" THEN Top.perms ELSE {}
        OBVIOUS
      <3>2. Common /\ stack # <<>> /\ Return(perms) /\ stage' = stage /\ stack \in Seq(Frames)
        BY <1>2, <2>8, <3>1 DEF ReturnPermissions, ReturnNoChain, AtReturn, RoleInv, ResolveInv,
                          JudgeInv, Complete, Common
      <3>3. Len(s) \in Nat /\ Len(s) > 0 /\ Top.perms \in SUBSET Perms
        BY <2>1, <3>2, TopLooks DEF Frames
      <3>4. perms \in SUBSET Perms
        BY <3>1, <3>3
      <3>5. CASE Len(s) = 1
        BY <2>1, <2>3, <3>2, <3>5 DEF Return
      <3>6. CASE Len(s) > 1
        <4>0. Len(stack) # 1
          <5>1. PICK n : n = Len(s)
            OBVIOUS
          <5>2. n \in Nat /\ n > 1
            BY <3>3, <3>6, <5>1
          <5>3. n # 1
            BY <5>2
          <5>4. QED
            BY <2>1, <5>1, <5>3
        <4>1. t = GoOn(SubSeq(s, 1, Len(s) - 1), perms)
          <5>1. stack' = GoOn(SubSeq(stack, 1, Len(stack) - 1), perms)
            BY <3>2, <4>0 DEF Return
          <5>2. QED
            BY <2>1, <5>1
        <4>2. Distinct(t) /\ t \in Seq(Frames) /\ Len(t) = Len(s) - 1
          BY <2>1, <2>2, <3>2, <3>4, <3>6, <4>1, PopDistinct
        <4>3. stage = "resolving" => Len(t) <= MaxDepth + 1
          BY <2>0, <2>2, <3>3, <4>2
        <4>4. QED
          BY <2>1, <3>2, <4>2, <4>3
      <3>7. Len(s) = 1 \/ Len(s) > 1
        <4>1. PICK n : n = Len(s)
          OBVIOUS
        <4>2. n \in Nat /\ n > 0
          BY <3>3, <4>1
        <4>3. n = 1 \/ n > 1
          BY <4>2
        <4>4. QED
          BY <4>1, <4>3
      <3>8. QED
        BY <3>5, <3>6, <3>7
    <2>9. CASE JudgeRole
      <3>1. JudgeInv /\ Complete /\ judging \in DOMAIN rbac.holds /\ stage' # "resolving"
        BY <1>2, <2>9 DEF JudgeRole, RoleInv, JudgeInv
      <3>2. Judged \in Roles
        BY <3>1, JudgedIsRole
      <3>3. Call(Judged, {}) \in Frames
        BY <3>2 DEF Call, Frame, Frames
      <3>4. t = <<>> \/ t = <<Call(Judged, {})>>
        BY <2>1, <2>9 DEF JudgeRole
      <3>5. QED
        BY <2>1, <2>3, <2>4, <3>3, <3>4
    <2>10. CASE SearchParent
      <3>1. /\ JudgeInv /\ Common /\ stack # <<>> /\ AtParent /\ stage' # "resolving"
            /\ stack \in Seq(Frames)
        BY <1>2, <2>10 DEF SearchParent, RoleInv, JudgeInv, Complete, Common, AtParent
      <3>2. Len(s) \in Nat /\ Len(s) > 0 /\ Parent \in Roles
        BY <2>1, <3>1, TopLooks
      <3>3. CASE t = GoOn(s, {})
        <4>1. {} \in SUBSET Perms
          OBVIOUS
        <4>2. WentOn(s, {}, t)
          BY <2>1, <3>1, <3>2, <3>3, <4>1, GoOnFrames
        <4>3. QED
          BY <2>1, <2>2, <3>1, <3>2, <4>2, GoOnDistinct DEF WentOn
      <3>4. CASE Parent \notin Visited /\ t = Append(s, Call(Parent, {}))
        <4>1. PICK f : f = Call(Parent, {})
          OBVIOUS
        <4>2. f \in Frames /\ f.role = Parent
          BY <3>2, <4>1 DEF Call, Frame, Frames
        <4>3. Called(s, f, t)
          BY <2>1, <3>1, <3>4, <4>1, <4>2, AppendFrames
        <4>4. \A k \in 1 .. Len(s) : s[k].role # f.role
          BY <2>1, <3>1, <3>4, <4>2 DEF Visited
        <4>5. QED
          BY <2>1, <2>2, <3>1, <4>3, <4>4, CallDistinct DEF Called
      <3>5. QED
        BY <2>1, <2>10, <3>3, <3>4 DEF SearchParent
    <2>11. CASE AllResolved \/ FindChain \/ EndScan
      <3>1. t = <<>>
        BY <2>1, <2>11 DEF AllResolved, FindChain, EndScan
      <3>2. QED
        BY <2>1, <2>3, <3>1
    <2>12. CASE UNCHANGED roleVars
      <3>1. t = s /\ stage' = stage
        BY <2>1, <2>12 DEF roleVars
      <3>2. stack \in Seq(Frames)
        BY <1>2 DEF SearchesBounded
      <3>3. QED
        BY <2>1, <2>2, <3>1, <3>2
    <2>13. QED
      BY <1>2, <2>1, <2>5, <2>6, <2>7, <2>8, <2>9, <2>10, <2>11, <2>12 DEF RoleNext
  <1>3. QED
    BY <1>1, <1>2, RoleInvHolds, PTL DEF RoleSpec
=============================================================================
