------------------------- MODULE AtomicBridgeProofs -------------------------
(***************************************************************************)
(* Proofs about the bridge, for any number of requests, endpoints, retries *)
(* and values, and any faulty minority.                                    *)
(***************************************************************************)
EXTENDS AtomicBridge, FiniteSetTheorems, TLAPS

(* What holds of relay(r), its local state being x and the number of       *)
(* upstream requests issued for it n.                                      *)
RelayOK(r, x, n) ==
    /\ x \in RelayStates
    /\ n \in Nat
    /\ x.pc \in {"new", "executing"} => x.endpoint >= 1
    /\ x.pc = "new" => x.endpoint = 1 /\ x.attempts = 0 /\ n = 0
    /\ x.pc \in {"executing", "verifying"} =>
          /\ x.endpoint <= Len(Route[r])
          /\ x.attempts < AttemptsPerEndpoint(r)
    /\ x.pc = "verifying" =>
          /\ Kind[r] = "replayable"
          /\ x.primary \in Answers(Route[r][x.endpoint])
          /\ \A u \in Upstreams : x.votes[u] \in Answers(u) \cup {"pending", "rejected"}
    /\ x.result.status = "verified" => x.result.data = Truth
    /\ x.blamed \subseteq Faulty
    /\ Kind[r] # "replayable" => n <= 1 /\ x.endpoint = 1

RelaysOK == \A r \in Requests : RelayOK(r, relays[r], sent[r])

Typed ==
    /\ relays \in [Requests -> RelayStates]
    /\ sent \in [Requests -> Nat]
    /\ auditLog \in Seq(Responses)
    /\ cleared \subseteq Requests

IInv == Typed /\ RelaysOK

-----------------------------------------------------------------------------
(* The voters of a request are the primary and its secondaries, and there  *)
(* are finitely many of them.                                              *)
LEMMA VotersSplit ==
    ASSUME NEW r \in Requests, relays[r].endpoint \in 1 .. Len(Route[r])
    PROVE  /\ Upstream(r) \in Voters(r)
           /\ Voters(r) \subseteq Upstreams
           /\ IsFiniteSet(Voters(r))
           /\ IsFiniteSet(Secondaries(r))
           /\ Cardinality(Voters(r)) = Cardinality(Secondaries(r)) + 1
           /\ Cardinality(Voters(r)) \in Nat
  <1>1. Route[r] \in Seq(Upstreams)
    BY BridgeAssumption
  <1>2. Upstream(r) \in Voters(r)
    BY <1>1 DEF Upstream, Voters, Range
  <1>3. Voters(r) \subseteq Upstreams
    BY <1>1 DEF Voters, Range
  <1>4. IsFiniteSet(Voters(r))
    BY <1>3, FS_Subset, BridgeAssumption
  <1>5. IsFiniteSet(Secondaries(r)) /\ Cardinality(Secondaries(r)) \in Nat
    BY <1>4, FS_Subset, FS_CardinalityType DEF Secondaries
  <1>6. Voters(r) = Secondaries(r) \cup {Upstream(r)} /\ Upstream(r) \notin Secondaries(r)
    BY <1>2 DEF Secondaries
  <1>7. Cardinality(Voters(r)) = Cardinality(Secondaries(r)) + 1
    BY <1>5, <1>6, FS_AddElement
  <1>8. QED
    BY <1>2, <1>3, <1>4, <1>5, <1>7

(* The faulty voters are fewer than half. *)
LEMMA FaultyFew ==
    ASSUME NEW r \in Requests, relays[r].endpoint \in 1 .. Len(Route[r])
    PROVE  /\ IsFiniteSet(Faulty \cap Voters(r))
           /\ Cardinality(Faulty \cap Voters(r)) \in Nat
           /\ 2 * Cardinality(Faulty \cap Voters(r)) < Cardinality(Voters(r))
  <1>1. IsFiniteSet(Faulty \cap Voters(r))
    BY VotersSplit, FS_Subset
  <1>2. Voters(r) # {}
    BY VotersSplit
  <1>3. QED
    BY <1>1, <1>2, FS_CardinalityType, HonestMajorityAssumption DEF HonestMajority

(* A majority of the voters contains an honest one. *)
LEMMA MajorityHasHonest ==
    ASSUME NEW r \in Requests, relays[r].endpoint \in 1 .. Len(Route[r]),
           VoteOutcome(r) = "verified"
    PROVE  \E u \in MatchingVoters(r) : u \notin Faulty
  <1> DEFINE M == MatchingVoters(r)
             n == Cardinality(Voters(r))
  <1>1. M \subseteq Voters(r)
    BY VotersSplit DEF MatchingVoters, Secondaries
  <1>2. IsFiniteSet(M) /\ Cardinality(M) \in Nat
    BY <1>1, VotersSplit, FS_Subset, FS_CardinalityType
  <1>3. Cardinality(M) >= (n \div 2) + 1
    <2>1. Cardinality(M) >= RequiredVotes(Cardinality(Secondaries(r)) + 1)
      BY DEF VoteOutcome
    <2>2. QED
      BY <2>1, VotersSplit DEF RequiredVotes
  <1>4. SUFFICES ASSUME M \subseteq Faulty PROVE FALSE
    OBVIOUS
  <1>5. M \subseteq Faulty \cap Voters(r)
    BY <1>1, <1>4
  <1>6. Cardinality(M) <= Cardinality(Faulty \cap Voters(r))
    BY <1>5, FaultyFew, FS_Subset
  <1>7. QED
    BY <1>2, <1>3, <1>6, FaultyFew, VotersSplit

(* Therefore what a quorum verifies is the truth. *)
LEMMA VerifiedPrimaryIsTruth ==
    ASSUME NEW r \in Requests, relays[r].endpoint \in 1 .. Len(Route[r]),
           relays[r].primary \in Answers(Upstream(r)),
           \A u \in Upstreams :
              relays[r].votes[u] \in Answers(u) \cup {"pending", "rejected"},
           VoteOutcome(r) = "verified"
    PROVE  relays[r].primary = Truth
  <1>1. PICK u \in MatchingVoters(r) : u \notin Faulty
    BY MajorityHasHonest
  <1>2. u \in Upstreams
    BY <1>1, VotersSplit DEF MatchingVoters, Secondaries
  <1>3. CASE u = Upstream(r)
    BY <1>1, <1>3 DEF Answers
  <1>4. CASE u # Upstream(r)
    <2>1. relays[r].votes[u] = relays[r].primary
      BY <1>1, <1>4 DEF MatchingVoters
    <2>2. relays[r].primary \in Values
      BY BridgeAssumption DEF Answers
    <2>3. QED
      BY <1>1, <1>2, <2>1, <2>2, BridgeAssumption DEF Answers
  <1>5. QED
    BY <1>3, <1>4

(* k = |M u U| voters agree or are silent, d disagree: too many for both   *)
(* k and d to be minorities.                                               *)
LEMMA QuorumArithmetic ==
    ASSUME NEW n \in Nat, NEW m \in Nat, NEW s \in Nat, NEW k \in Nat,
           NEW d \in Nat, NEW f \in Nat,
           k <= m + s, n = k + d, d <= f, 2 * f < n, m + s < (n \div 2) + 1
    PROVE  FALSE
  OBVIOUS

(* An honest primary is never voted down: the voters that explicitly       *)
(* disagree with the truth are faulty, and too few.                        *)
LEMMA VotedDownIsFaulty ==
    ASSUME NEW r \in Requests, relays[r].endpoint \in 1 .. Len(Route[r]),
           relays[r].primary \in Answers(Upstream(r)),
           \A u \in Secondaries(r) : relays[r].votes[u] \in Answers(u) \cup {"rejected"},
           VoteOutcome(r) = "failed"
    PROVE  Upstream(r) \in Faulty
  <1> SUFFICES ASSUME Upstream(r) \notin Faulty PROVE FALSE
    OBVIOUS
  <1> DEFINE V == Voters(r)
             M == MatchingVoters(r)
             U == UnavailableVoters(r)
             D == V \ (M \cup U)
  <1>1. relays[r].primary = Truth
    BY DEF Answers
  <1>2. M \subseteq V /\ U \subseteq V
    BY VotersSplit DEF MatchingVoters, UnavailableVoters, Secondaries
  <1>3. D \subseteq Faulty \cap V
    <2> SUFFICES ASSUME NEW u \in D PROVE u \in Faulty
      OBVIOUS
    <2>1. u \in Secondaries(r)
      BY DEF MatchingVoters, Secondaries
    <2>2. relays[r].votes[u] # Truth /\ relays[r].votes[u] # "rejected"
      BY <1>1, <2>1 DEF MatchingVoters, UnavailableVoters
    <2>3. QED
      BY <2>1, <2>2 DEF Answers
  <1>4. /\ IsFiniteSet(M) /\ IsFiniteSet(U) /\ IsFiniteSet(D)
        /\ IsFiniteSet(M \cup U)
    BY <1>2, VotersSplit, FS_Subset, FS_Union
  <1>5. /\ Cardinality(M) \in Nat /\ Cardinality(U) \in Nat
        /\ Cardinality(D) \in Nat /\ Cardinality(M \cup U) \in Nat
    BY <1>4, FS_CardinalityType
  <1>6. Cardinality(M \cup U) <= Cardinality(M) + Cardinality(U)
    <2>1. IsFiniteSet(M \cap U)
      BY <1>4, FS_Intersection
    <2>2. Cardinality(M \cap U) \in Nat
      BY <2>1, FS_CardinalityType
    <2>3. Cardinality(M \cup U) = Cardinality(M) + Cardinality(U) - Cardinality(M \cap U)
      BY <1>4, FS_Union
    <2>4. QED
      BY <1>5, <2>2, <2>3
  <1>7. Cardinality(V) = Cardinality(M \cup U) + Cardinality(D)
    <2>1. V \cap (M \cup U) = M \cup U
      BY <1>2
    <2>2. Cardinality(D) = Cardinality(V) - Cardinality(V \cap (M \cup U))
      BY VotersSplit, FS_Difference
    <2>3. Cardinality(V) \in Nat
      BY VotersSplit
    <2>4. Cardinality(D) = Cardinality(V) - Cardinality(M \cup U)
      BY <2>1, <2>2
    <2> HIDE DEF V, M, U, D
    <2>5. QED
      BY <1>5, <2>3, <2>4
  <1>8. Cardinality(D) <= Cardinality(Faulty \cap V)
    BY <1>3, FaultyFew, FS_Subset
  <1>9. Cardinality(M) + Cardinality(U) < (Cardinality(V) \div 2) + 1
    <2>1. /\ ~(Cardinality(M) >= RequiredVotes(Cardinality(Secondaries(r)) + 1))
          /\ ~(Cardinality(M) + Cardinality(U)
                  >= RequiredVotes(Cardinality(Secondaries(r)) + 1))
      BY DEF VoteOutcome
    <2>2. QED
      BY <1>5, <2>1, VotersSplit DEF RequiredVotes
  <1>10. /\ Cardinality(V) \in Nat
         /\ Cardinality(Faulty \cap V) \in Nat
         /\ 2 * Cardinality(Faulty \cap V) < Cardinality(V)
    BY FaultyFew, VotersSplit
  <1> HIDE DEF V, M, U, D
  <1>11. QED
    BY <1>5, <1>6, <1>7, <1>8, <1>9, <1>10, QuorumArithmetic

-----------------------------------------------------------------------------
(* A step of relay(r): it writes relays[r] and sent[r], appends at most    *)
(* one response, and preserves RelayOK.                                    *)
StepOK(r, q, n) ==
    /\ relays' = [relays EXCEPT ![r] = q]
    /\ sent' = [sent EXCEPT ![r] = n]
    /\ auditLog' \in Seq(Responses)
    /\ cleared' = cleared
    /\ RelayOK(r, q, n)

(* What is known of one relay survives its own well-behaved step. *)
LEMMA StepIInv ==
    ASSUME IInv, NEW r \in Requests, NEW q, NEW n, StepOK(r, q, n)
    PROVE  IInv'
  <1>1. q \in RelayStates /\ n \in Nat
    BY DEF StepOK, RelayOK
  <1>2. Typed'
    BY <1>1 DEF IInv, Typed, StepOK
  <1>3. RelaysOK'
    <2> SUFFICES ASSUME NEW p \in Requests PROVE RelayOK(p, relays'[p], sent'[p])
      BY DEF RelaysOK
    <2>1. CASE p = r
      <3>1. relays'[p] = q /\ sent'[p] = n
        BY <2>1 DEF IInv, Typed, StepOK
      <3>2. QED
        BY <2>1, <3>1 DEF StepOK
    <2>2. CASE p # r
      <3>1. relays'[p] = relays[p] /\ sent'[p] = sent[p]
        BY <2>2 DEF IInv, Typed, StepOK
      <3>2. QED
        BY <3>1 DEF IInv, RelaysOK
    <2>3. QED
      BY <2>1, <2>2
  <1>4. QED
    BY <1>2, <1>3 DEF IInv

(* A response is recorded for r. *)
LEMMA RespondOK ==
    ASSUME IInv, NEW r \in Requests, NEW success \in BOOLEAN, NEW status \in Statuses,
           NEW data \in Values \cup {NoValue}, status = "verified" => data = Truth,
           relays[r].pc # "returned",
           Respond(r, success, status, data), sent' = sent, cleared' = cleared
    PROVE  IInv'
  <1> DEFINE x == relays[r]
             response == [request |-> r, success |-> success, status |-> status,
                          data |-> data]
             q == [x EXCEPT !.pc = "returned", !.result = response]
  <1>1. response \in Responses
    BY DEF Responses
  <1>2. x \in RelayStates /\ RelayOK(r, x, sent[r])
    BY DEF IInv, Typed, RelaysOK
  <1>3. q \in RelayStates
    BY <1>1, <1>2 DEF RelayStates
  <1>4. RelayOK(r, q, sent[r])
    BY <1>2, <1>3 DEF RelayOK, RelayStates
  <1>5. auditLog' \in Seq(Responses)
    BY <1>1 DEF Respond, IInv, Typed
  <1>6. sent' = [sent EXCEPT ![r] = sent[r]]
    BY DEF IInv, Typed
  <1>7. StepOK(r, q, sent[r])
    BY <1>4, <1>5, <1>6 DEF StepOK, Respond
  <1>8. QED
    BY <1>7, StepIInv
(* The loop heads after a failed attempt. *)
LEMMA NextAttemptOK ==
    ASSUME IInv, NEW r \in Requests, NEW x \in RelayStates,
           relays[r].pc \in {"executing", "verifying"},
           x.endpoint = relays[r].endpoint, x.attempts = relays[r].attempts,
           x.result = relays[r].result, x.blamed \subseteq Faulty,
           NextAttempt(r, x), cleared' = cleared
    PROVE  IInv'
  <1>1. RelayOK(r, relays[r], sent[r]) /\ sent[r] \in Nat
    BY DEF IInv, RelaysOK, Typed
  <1>2. /\ Len(Route[r]) \in Nat
        /\ MaxRetries \in Nat
        /\ x.endpoint \in Nat /\ x.endpoint >= 1 /\ x.endpoint <= Len(Route[r])
        /\ x.attempts \in Nat /\ x.attempts < AttemptsPerEndpoint(r)
    BY <1>1, BridgeAssumption DEF RelayOK, RelayStates
  <1>3. CASE /\ AttemptsLeft(r)
             /\ relays' = [relays EXCEPT ![r] =
                    [x EXCEPT !.pc = "executing", !.attempts = x.attempts + 1]]
             /\ sent' = [sent EXCEPT ![r] = sent[r] + 1]
             /\ UNCHANGED auditLog
    <2> DEFINE q == [x EXCEPT !.pc = "executing", !.attempts = x.attempts + 1]
    <2>1. Kind[r] = "replayable" /\ x.attempts + 1 < AttemptsPerEndpoint(r)
      BY <1>2, <1>3 DEF AttemptsLeft, AttemptsPerEndpoint
    <2>2. q \in RelayStates
      <3> DEFINE k == x.attempts + 1
      <3>1. k \in Nat
        BY <1>2
      <3> HIDE DEF k
      <3>2. [x EXCEPT !.pc = "executing", !.attempts = k] \in RelayStates
        BY <3>1 DEF RelayStates
      <3>3. QED
        BY <3>2 DEF k
    <2>3. RelayOK(r, q, sent[r] + 1)
      BY <1>1, <1>2, <2>1, <2>2 DEF RelayOK, RelayStates
    <2>4. StepOK(r, q, sent[r] + 1)
      BY <1>3, <2>3 DEF StepOK, IInv, Typed
    <2>5. QED
      BY <2>4, StepIInv
  <1>4. CASE /\ relays[r].endpoint < EligibleEndpoints(r)
             /\ relays' = [relays EXCEPT ![r] =
                    [x EXCEPT !.pc = "executing", !.attempts = 0,
                              !.endpoint = x.endpoint + 1]]
             /\ sent' = [sent EXCEPT ![r] = sent[r] + 1]
             /\ UNCHANGED auditLog
    <2> DEFINE q == [x EXCEPT !.pc = "executing", !.attempts = 0,
                              !.endpoint = x.endpoint + 1]
    <2>1. Kind[r] = "replayable" /\ x.endpoint + 1 <= Len(Route[r])
      BY <1>2, <1>4 DEF EligibleEndpoints
    <2>2. q \in RelayStates
      <3> DEFINE k == x.endpoint + 1
      <3>1. k \in Nat \ {0}
        BY <1>2
      <3> HIDE DEF k
      <3>2. [x EXCEPT !.pc = "executing", !.attempts = 0, !.endpoint = k] \in RelayStates
        BY <3>1 DEF RelayStates
      <3>3. QED
        BY <3>2 DEF k
    <2>3. 0 < AttemptsPerEndpoint(r)
      BY <1>2 DEF AttemptsPerEndpoint
    <2>4. RelayOK(r, q, sent[r] + 1)
      BY <1>1, <1>2, <2>1, <2>2, <2>3 DEF RelayOK, RelayStates
    <2>5. StepOK(r, q, sent[r] + 1)
      BY <1>4, <2>4 DEF StepOK, IInv, Typed
    <2>6. QED
      BY <2>5, StepIInv
  <1>5. CASE LET response == [request |-> r, success |-> FALSE,
                              status |-> x.lastStatus, data |-> NoValue]
             IN  /\ relays' = [relays EXCEPT ![r] =
                         [x EXCEPT !.pc = "returned", !.result = response]]
                 /\ auditLog' = Append(auditLog, response)
                 /\ UNCHANGED sent
    <2> DEFINE response == [request |-> r, success |-> FALSE,
                            status |-> x.lastStatus, data |-> NoValue]
               q == [x EXCEPT !.pc = "returned", !.result = response]
    <2>1. response \in Responses /\ response.status # "verified"
      BY DEF Responses, Statuses, RelayStates
    <2>2. q \in RelayStates
      BY <2>1 DEF RelayStates
    <2>3. RelayOK(r, q, sent[r])
      BY <1>1, <1>2, <2>1, <2>2 DEF RelayOK, RelayStates
    <2>4. auditLog' \in Seq(Responses)
      BY <1>5, <2>1 DEF IInv, Typed
    <2>5. StepOK(r, q, sent[r])
      BY <1>5, <2>3, <2>4 DEF StepOK, IInv, Typed
    <2>6. QED
      BY <2>5, StepIInv
  <1>6. QED
    BY <1>3, <1>4, <1>5 DEF NextAttempt

(* relay() starts with the first endpoint. *)
LEMMA RelayIInv ==
    ASSUME IInv, NEW r \in Requests, Relay(r)
    PROVE  IInv'
  <1>1. CASE Respond(r, FALSE, "skipped", NoValue) /\ UNCHANGED sent
    BY <1>1, RespondOK DEF Relay, Statuses
  <1>2. CASE /\ EligibleEndpoints(r) > 0
             /\ AttemptsPerEndpoint(r) > 0
             /\ relays' = [relays EXCEPT ![r] = [relays[r] EXCEPT !.pc = "executing"]]
             /\ sent' = [sent EXCEPT ![r] = sent[r] + 1]
             /\ UNCHANGED auditLog
    <2> DEFINE q == [relays[r] EXCEPT !.pc = "executing"]
    <2>1. /\ RelayOK(r, relays[r], sent[r])
          /\ relays[r].pc = "new"
      BY DEF IInv, RelaysOK, Relay
    <2>2. 1 <= Len(Route[r])
      BY <1>2, BridgeAssumption DEF EligibleEndpoints
    <2>3. q \in RelayStates
      BY <2>1 DEF RelayOK, RelayStates
    <2>4. RelayOK(r, q, sent[r] + 1)
      BY <1>2, <2>1, <2>2, <2>3 DEF RelayOK, RelayStates
    <2>5. StepOK(r, q, sent[r] + 1)
      BY <1>2, <2>4 DEF StepOK, IInv, Typed, Relay
    <2>6. QED
      BY <2>5, StepIInv
  <1>3. QED
    BY <1>1, <1>2 DEF Relay

(* A failed attempt is followed by the next, or by giving up. *)
LEMMA ExecuteFailsIInv ==
    ASSUME IInv, NEW r \in Requests, ExecuteFails(r)
    PROVE  IInv'
  <1>1. relays[r] \in RelayStates /\ relays[r].blamed \subseteq Faulty
    BY DEF IInv, Typed, RelaysOK, RelayOK
  <1>2. QED
    BY <1>1, NextAttemptOK DEF ExecuteFails

(* The primary answer is kept and put to the vote. *)
LEMMA ExecuteSucceedsIInv ==
    ASSUME IInv, NEW r \in Requests, NEW v \in Values, ExecuteSucceeds(r, v)
    PROVE  IInv'
  <1>1. /\ RelayOK(r, relays[r], sent[r])
        /\ relays[r].pc = "executing"
        /\ v \in Answers(Upstream(r))
    BY DEF IInv, RelaysOK, ExecuteSucceeds
  <1>2. CASE Respond(r, TRUE, "skipped", v) /\ UNCHANGED sent
    BY <1>1, <1>2, RespondOK DEF ExecuteSucceeds, Statuses
  <1>3. CASE Respond(r, FALSE, "unavailable", NoValue) /\ UNCHANGED sent
    BY <1>1, <1>3, RespondOK DEF ExecuteSucceeds, Statuses
  <1>4. CASE /\ NeedsVerification(r)
             /\ relays' = [relays EXCEPT ![r] =
                    [relays[r] EXCEPT
                        !.pc = "verifying", !.primary = v,
                        !.votes = [u \in Upstreams |->
                            IF u \in Secondaries(r) THEN "pending" ELSE "rejected"]]]
             /\ sent' = [sent EXCEPT ![r] = sent[r] + Cardinality(Secondaries(r))]
             /\ UNCHANGED auditLog
    <2> DEFINE w == [u \in Upstreams |->
                        IF u \in Secondaries(r) THEN "pending" ELSE "rejected"]
               q == [relays[r] EXCEPT !.pc = "verifying", !.primary = v, !.votes = w]
               n == sent[r] + Cardinality(Secondaries(r))
    <2>1. w \in [Upstreams -> {"pending", "rejected"}]
      OBVIOUS
    <2>2. q \in RelayStates
      BY <1>1, <2>1 DEF RelayOK, RelayStates, Votes
    <2>3. relays[r].endpoint \in 1 .. Len(Route[r])
      BY <1>1, BridgeAssumption DEF RelayOK, RelayStates
    <2>4. n \in Nat
      BY <1>1, <2>3, VotersSplit, FS_CardinalityType DEF RelayOK
    <2>5. Kind[r] = "replayable"
      BY <1>4 DEF NeedsVerification
    <2>6. q.endpoint = relays[r].endpoint /\ q.primary = v /\ q.votes = w
      BY <1>1 DEF RelayOK, RelayStates
    <2>7. v \in Answers(Route[r][q.endpoint])
      BY <1>1, <2>6 DEF Upstream
    <2>8. RelayOK(r, q, n)
      BY <1>1, <2>1, <2>2, <2>4, <2>5, <2>6, <2>7 DEF RelayOK, RelayStates
    <2>9. StepOK(r, q, n)
      BY <1>4, <2>8 DEF StepOK, IInv, Typed, ExecuteSucceeds
    <2>10. QED
      BY <2>9, StepIInv
  <1>5. QED
    BY <1>2, <1>3, <1>4 DEF ExecuteSucceeds

(* One verification call settles, in any order. *)
LEMMA VoteIInv ==
    ASSUME IInv, NEW r \in Requests, NEW u \in Upstreams,
           NEW v \in Values \cup {"rejected"}, Vote(r, u, v)
    PROVE  IInv'
  <1> DEFINE b == IF v \in Unprojectable THEN "rejected" ELSE v
             w == [relays[r].votes EXCEPT ![u] = b]
             q == [relays[r] EXCEPT !.votes = w]
  <1>1. /\ RelayOK(r, relays[r], sent[r])
        /\ relays[r].pc = "verifying"
    BY DEF IInv, RelaysOK, Vote
  <1>2. relays[r].votes \in [Upstreams -> Votes]
    BY <1>1 DEF RelayOK, RelayStates
  <1>3. b \in Answers(u) \cup {"rejected"} /\ b \in Votes
    BY DEF Vote, Votes
  <1>4. w \in [Upstreams -> Votes]
    BY <1>2, <1>3
  <1>5. q \in RelayStates
    BY <1>1, <1>4 DEF RelayOK, RelayStates
  <1>6. \A p \in Upstreams : w[p] \in Answers(p) \cup {"pending", "rejected"}
    BY <1>1, <1>2, <1>3 DEF RelayOK
  <1>7. /\ q.votes = w /\ q.pc = "verifying"
        /\ q.endpoint = relays[r].endpoint /\ q.primary = relays[r].primary
        /\ q.attempts = relays[r].attempts /\ q.result = relays[r].result
        /\ q.blamed = relays[r].blamed
    BY <1>1 DEF RelayOK, RelayStates
  <1>8. RelayOK(r, q, sent[r])
    BY <1>1, <1>5, <1>6, <1>7 DEF RelayOK
  <1>9. StepOK(r, q, sent[r])
    <2>1. relays' = [relays EXCEPT ![r] = q]
      BY DEF Vote
    <2>2. QED
      BY <1>8, <2>1 DEF StepOK, Vote, IInv, Typed
  <1>10. QED
    BY <1>9, StepIInv
(* All votes are in. *)
LEMMA TallyIInv ==
    ASSUME IInv, NEW r \in Requests, Tally(r)
    PROVE  IInv'
  <1>1. /\ RelayOK(r, relays[r], sent[r])
        /\ relays[r] \in RelayStates
        /\ relays[r].pc = "verifying"
    BY DEF IInv, RelaysOK, Typed, Tally
  <1>2. /\ relays[r].endpoint \in 1 .. Len(Route[r])
        /\ relays[r].primary \in Answers(Upstream(r))
        /\ relays[r].primary \in Values
        /\ \A u \in Upstreams :
              relays[r].votes[u] \in Answers(u) \cup {"pending", "rejected"}
    BY <1>1, BridgeAssumption DEF RelayOK, RelayStates, Upstream, Answers
  <1>3. CASE /\ VoteOutcome(r) = "verified"
             /\ Respond(r, TRUE, "verified", relays[r].primary)
             /\ UNCHANGED sent
    <2>1. relays[r].primary = Truth
      BY <1>2, <1>3, VerifiedPrimaryIsTruth
    <2>2. QED
      BY <1>1, <1>2, <1>3, <2>1, RespondOK DEF Tally, Statuses
  <1>4. CASE Respond(r, FALSE, "unavailable", NoValue) /\ UNCHANGED sent
    BY <1>1, <1>4, RespondOK DEF Tally, Statuses
  <1>5. CASE /\ VoteOutcome(r) = "failed"
             /\ NextAttempt(r, [relays[r] EXCEPT !.lastStatus = "failed",
                                   !.blamed = relays[r].blamed \cup {Upstream(r)}])
    <2> DEFINE x == [relays[r] EXCEPT !.lastStatus = "failed",
                                     !.blamed = relays[r].blamed \cup {Upstream(r)}]
    <2>1. \A u \in Secondaries(r) : relays[r].votes[u] \in Answers(u) \cup {"rejected"}
      <3>1. Secondaries(r) \subseteq Upstreams
        BY <1>2, VotersSplit DEF Secondaries
      <3>2. QED
        BY <1>2, <3>1 DEF Tally, AllSettled
    <2>2. Upstream(r) \in Faulty
      BY <1>2, <1>5, <2>1, VotedDownIsFaulty
    <2>3. Upstream(r) \in Upstreams
      BY <2>2, BridgeAssumption
    <2>4. x \in RelayStates
      BY <1>1, <2>3 DEF RelayStates
    <2>5. /\ x.endpoint = relays[r].endpoint /\ x.attempts = relays[r].attempts
          /\ x.result = relays[r].result
          /\ x.blamed = relays[r].blamed \cup {Upstream(r)}
      BY <1>1 DEF RelayStates
    <2>6. x.blamed \subseteq Faulty
      BY <1>1, <2>2, <2>5 DEF RelayOK
    <2>7. NextAttempt(r, x) /\ cleared' = cleared
      BY <1>5 DEF Tally
    <2> HIDE DEF x
    <2>8. QED
      BY <1>1, <2>4, <2>5, <2>6, <2>7, NextAttemptOK
  <1>6. QED
    BY <1>3, <1>4, <1>5 DEF Tally

(* clearAuditLog() touches no relay. *)
LEMMA ClearIInv == IInv /\ ClearAuditLog => IInv'
  <1> SUFFICES ASSUME IInv, ClearAuditLog PROVE IInv'
    OBVIOUS
  <1>1. \A i \in 1 .. Len(auditLog) : auditLog[i].request \in Requests
    <2>1. auditLog \in Seq(Responses)
      BY DEF IInv, Typed
    <2>2. \A i \in 1 .. Len(auditLog) : auditLog[i] \in Responses
      BY <2>1
    <2>3. \A e \in Responses : e.request \in Requests
      BY DEF Responses
    <2>4. QED
      BY <2>2, <2>3
  <1>2. Typed'
    <2>1. {auditLog[i].request : i \in 1 .. Len(auditLog)} \subseteq Requests
      BY <1>1
    <2>2. cleared' \subseteq Requests
      BY <2>1 DEF IInv, Typed, ClearAuditLog
    <2>3. auditLog' \in Seq(Responses)
      BY DEF ClearAuditLog
    <2>4. relays' = relays /\ sent' = sent
      BY DEF ClearAuditLog
    <2>5. QED
      BY <2>2, <2>3, <2>4 DEF IInv, Typed
  <1>3. RelaysOK'
    BY DEF IInv, RelaysOK, ClearAuditLog
  <1>4. QED
    BY <1>2, <1>3 DEF IInv

(* Nothing has been sent. *)
LEMMA InitIInv == Init => IInv
  <1> SUFFICES ASSUME Init PROVE IInv
    OBVIOUS
  <1>1. ASSUME NEW r \in Requests
        PROVE  /\ relays[r] \in RelayStates
               /\ RelayOK(r, relays[r], sent[r])
    <2>1. NoResult(r) \in Responses /\ NoResult(r).status = "none"
      BY DEF NoResult, Responses
    <2>2. NoVotes \in [Upstreams -> Votes]
      BY DEF NoVotes, Votes
    <2>3. relays[r] \in RelayStates
      BY <2>1, <2>2 DEF Init, RelayStates
    <2>4. QED
      BY <2>1, <2>3 DEF Init, RelayOK
  <1>2. Typed
    <2>1. relays \in [Requests -> RelayStates]
      BY <1>1 DEF Init
    <2>2. QED
      BY <2>1 DEF Init, Typed
  <1>3. QED
    BY <1>1, <1>2 DEF IInv, RelaysOK

(* Every step of the bridge keeps the invariant. *)
LEMMA NextIInv == IInv /\ [Next]_vars => IInv'
  <1> SUFFICES ASSUME IInv, [Next]_vars PROVE IInv'
    OBVIOUS
  <1>1. ASSUME NEW r \in Requests, Relay(r) PROVE IInv'
    BY <1>1, RelayIInv
  <1>2. ASSUME NEW r \in Requests, Progress(r) PROVE IInv'
    BY <1>2, ExecuteFailsIInv, ExecuteSucceedsIInv, VoteIInv, TallyIInv DEF Progress
  <1>3. CASE ClearAuditLog
    BY <1>3, ClearIInv
  <1>4. CASE UNCHANGED vars
    BY <1>4 DEF vars, IInv, Typed, RelaysOK
  <1>5. QED
    BY <1>1, <1>2, <1>3, <1>4 DEF Next

-----------------------------------------------------------------------------
(* The strengthened invariant holds in every reachable state. *)
THEOREM Invariance == SafetySpec => []IInv
  BY InitIInv, NextIInv, PTL DEF SafetySpec

(* The bridge stays within its types: in particular no relay indexes past  *)
(* its endpoints or runs more than attemptsPerEndpoint attempts on one.    *)
THEOREM TypeCorrect == SafetySpec => []TypeOK
  <1>1. IInv => TypeOK
    BY DEF IInv, Typed, RelaysOK, RelayOK, TypeOK
  <1>2. QED
    BY <1>1, Invariance, PTL

(* Whatever a faulty minority of the endpoints answers, only the truth is  *)
(* ever reported as verified.                                              *)
THEOREM VerificationSound == SafetySpec => []VerifiedIsTrue
  <1>1. IInv => VerifiedIsTrue
    BY DEF IInv, RelaysOK, RelayOK, VerifiedIsTrue
  <1>2. QED
    BY <1>1, Invariance, PTL

(* An honest endpoint is never voted down by a faulty minority. *)
THEOREM HonestNotVotedDown == SafetySpec => []OnlyFaultyVotedDown
  <1>1. IInv => OnlyFaultyVotedDown
    BY DEF IInv, RelaysOK, RelayOK, OnlyFaultyVotedDown
  <1>2. QED
    BY <1>1, Invariance, PTL

(* A request that may not be repeated reaches at most one endpoint, once. *)
THEOREM AtMostOnce == SafetySpec => []AtMostOneSubmission
  <1>1. IInv => AtMostOneSubmission
    BY DEF IInv, RelaysOK, RelayOK, AtMostOneSubmission
  <1>2. QED
    BY <1>1, Invariance, PTL

(* With an honest majority, voting verifies only the truth and rejects only *)
(* faulty endpoints.                                                       *)
THEOREM VotingSound == SafetySpec => []VotesSound
  BY VerificationSound, HonestNotVotedDown, PTL DEF VotesSound

-----------------------------------------------------------------------------
(* Traffic: the attempts of a relay are numbered through all endpoints,    *)
(* and each costs at most one request to every distinct endpoint.          *)
Round(x) == (x.endpoint - 1) * MaxRetries + x.attempts

Within(r, x, n) ==
    Kind[r] = "replayable" =>
        /\ x.pc = "executing" => n <= Round(x) * Cardinality(Voters(r)) + 1
        /\ x.pc = "verifying" => n <= (Round(x) + 1) * Cardinality(Voters(r))
        /\ n <= Len(Route[r]) * MaxRetries * Cardinality(Voters(r))

AllWithin == \A r \in Requests : Within(r, relays[r], sent[r])

(* What a step of a replayable relay does to its number of requests.       *)
Advances(r, x, n, y, m) ==
    \/ /\ x.pc = "new" /\ y.pc = "executing"
       /\ y.endpoint = 1 /\ y.attempts = 0 /\ n = 0 /\ m = 1
    \/ /\ x.pc \in {"executing", "verifying"} /\ y.pc = "executing"
       /\ m = n + 1 /\ Round(y) = Round(x) + 1
    \/ /\ x.pc = "executing" /\ y.pc = "verifying"
       /\ m = n + Cardinality(Voters(r)) - 1 /\ Round(y) = Round(x)
    \/ x.pc = "verifying" /\ y.pc = "verifying" /\ m = n /\ Round(y) = Round(x)
    \/ y.pc = "returned" /\ m = n

(* Arithmetic of products, for rounds times endpoints. *)
LEMMA ProductFacts ==
    /\ \A a, b \in Nat : a * b \in Nat
    /\ \A a, b \in Int : (a + 1) * b = a * b + b
    /\ \A a, b, c \in Nat : a <= b => a * c <= b * c
  OBVIOUS

(* The rounds of a relay are at most maxRetries for each endpoint. *)
LEMMA RoundInBounds ==
    ASSUME NEW r \in Requests, NEW x, NEW n, RelayOK(r, x, n), Kind[r] = "replayable",
           x.pc \in {"executing", "verifying"}
    PROVE  /\ Round(x) \in Nat /\ Round(x) + 1 <= Len(Route[r]) * MaxRetries
           /\ Len(Route[r]) * MaxRetries \in Nat
  <1>1. PICK e, a, len : e = x.endpoint /\ a = x.attempts /\ len = Len(Route[r])
    OBVIOUS
  <1>2. /\ e \in Nat /\ 1 <= e /\ e <= len /\ len \in Nat
        /\ a \in Nat /\ a < MaxRetries /\ MaxRetries \in Nat
    BY <1>1, BridgeAssumption DEF RelayOK, RelayStates, AttemptsPerEndpoint
  <1>3. e - 1 \in Nat /\ (e - 1) * MaxRetries \in Nat /\ len * MaxRetries \in Nat
    BY <1>2, ProductFacts
  <1>4. (e - 1) * MaxRetries + MaxRetries = e * MaxRetries
    <2>1. ((e - 1) + 1) * MaxRetries = (e - 1) * MaxRetries + MaxRetries
      BY <1>2, <1>3, ProductFacts
    <2>2. (e - 1) + 1 = e
      BY <1>2
    <2>3. QED
      BY <2>1, <2>2
  <1>5. e * MaxRetries <= len * MaxRetries
    BY <1>2, ProductFacts
  <1>6. e * MaxRetries \in Nat
    BY <1>2, ProductFacts
  <1>7. PICK p, t, l : p = (e - 1) * MaxRetries /\ t = e * MaxRetries /\ l = len * MaxRetries
    OBVIOUS
  <1>8. p + a \in Nat /\ (p + a) + 1 <= l
    BY <1>2, <1>3, <1>4, <1>5, <1>6, <1>7
  <1>9. QED
    BY <1>1, <1>3, <1>7, <1>8 DEF Round

(* A step that advances the round pays for what it sends. *)
LEMMA AdvancesWithin ==
    ASSUME NEW r \in Requests, NEW x, NEW n, NEW y, NEW m, RelayOK(r, x, n), RelayOK(r, y, m),
           Within(r, x, n), Kind[r] = "replayable" => Advances(r, x, n, y, m)
    PROVE  Within(r, y, m)
  <1> SUFFICES ASSUME Kind[r] = "replayable" PROVE Within(r, y, m)
    BY DEF Within
  <1> PICK v, lm : v = Cardinality(Voters(r)) /\ lm = Len(Route[r]) * MaxRetries
    OBVIOUS
  <1>1. CASE y.pc = "returned" /\ m = n
    BY <1>1 DEF Within
  <1>2. CASE y.pc \in {"executing", "verifying"}
    <2>1. v \in Nat /\ v >= 1
      <3>1. y.endpoint \in 1 .. Len(Route[r]) /\ Route[r] \in Seq(Upstreams)
        BY <1>2, BridgeAssumption DEF RelayOK, RelayStates
      <3>2. Route[r][y.endpoint] \in Voters(r) /\ Voters(r) \subseteq Upstreams
        BY <3>1 DEF Voters, Range
      <3>3. IsFiniteSet(Voters(r)) /\ Voters(r) # {}
        BY <3>2, FS_Subset, BridgeAssumption
      <3>4. QED
        BY <3>3, FS_EmptySet, FS_CardinalityType
    <2>2. PICK j : j = Round(y)
      OBVIOUS
    <2>3. j \in Nat /\ j + 1 <= lm /\ lm \in Nat
      BY <1>2, <2>2, RoundInBounds
    <2>4. PICK p, q : p = j * v /\ q = lm * v
      OBVIOUS
    <2>5. p \in Nat /\ q \in Nat /\ (j + 1) * v = p + v /\ p + v <= q
      <3>0. (j + 1) * v = j * v + v
        BY <2>1, <2>3, ProductFacts
      <3>1. p \in Nat /\ q \in Nat /\ (j + 1) * v = p + v
        BY <2>1, <2>3, <2>4, <3>0, ProductFacts
      <3>2. j + 1 \in Nat
        BY <2>3
      <3>3. (j + 1) * v <= q
        BY <2>1, <2>3, <2>4, <3>2, ProductFacts
      <3>4. QED
        BY <3>1, <3>3
    <2>6. n \in Nat /\ m \in Nat
      BY DEF RelayOK
    <2>7. CASE y.pc = "executing"
      <3>1. m <= p + 1
        <4>1. CASE x.pc = "new" /\ m = 1
          BY <4>1, <2>5
        <4>2. CASE x.pc \in {"executing", "verifying"} /\ m = n + 1 /\ j = Round(x) + 1
          <5>1. PICK i : i = Round(x)
            OBVIOUS
          <5>2. i \in Nat /\ j = i + 1
            BY <4>2, <5>1, RoundInBounds
          <5>3. PICK o : o = i * v
            OBVIOUS
          <5>4. o \in Nat /\ (i + 1) * v = o + v
            BY <2>1, <5>2, <5>3, ProductFacts
          <5>5. p = o + v
            BY <2>4, <5>2, <5>4
          <5>6. n <= o + v
            <6>1. CASE x.pc = "executing"
              <7>1. n <= o + 1
                BY <5>1, <5>3, <6>1 DEF Within
              <7>2. QED
                BY <7>1, <2>1, <2>6, <5>4
            <6>2. CASE x.pc = "verifying"
              BY <5>1, <5>4, <6>2 DEF Within
            <6>3. QED
              BY <4>2, <6>1, <6>2
          <5>7. QED
            BY <4>2, <5>4, <5>5, <5>6, <2>1, <2>6
        <4>3. QED
          BY <2>2, <2>7, <4>1, <4>2 DEF Advances
      <3>2. m <= q
        BY <3>1, <2>1, <2>5, <2>6
      <3>3. QED
        BY <2>2, <2>4, <2>7, <3>1, <3>2 DEF Within
    <2>8. CASE y.pc = "verifying"
      <3>1. m <= p + v
        <4>1. CASE x.pc = "executing" /\ m = n + v - 1 /\ j = Round(x)
          <5>1. n <= p + 1
            BY <4>1, <2>4 DEF Within
          <5>2. QED
            BY <4>1, <5>1, <2>1, <2>5, <2>6
        <4>2. CASE x.pc = "verifying" /\ m = n /\ j = Round(x)
          BY <4>2, <2>5 DEF Within
        <4>3. QED
          BY <2>2, <2>8, <4>1, <4>2 DEF Advances
      <3>2. m <= q
        BY <3>1, <2>1, <2>5, <2>6
      <3>3. QED
        BY <2>2, <2>4, <2>5, <2>8, <3>1, <3>2 DEF Within
    <2>9. QED
      BY <1>2, <2>7, <2>8
  <1>3. QED
    BY <1>1, <1>2 DEF Advances

(* A step of relay(r) advances it and leaves the others alone. *)
LEMMA AdvanceKeeps ==
    ASSUME IInv, IInv', AllWithin, NEW r \in Requests, NEW y, NEW m,
           relays' = [relays EXCEPT ![r] = y], sent' = [sent EXCEPT ![r] = m],
           Kind[r] = "replayable" => Advances(r, relays[r], sent[r], y, m)
    PROVE  AllWithin'
  <1>1. /\ relays'[r] = y /\ sent'[r] = m
        /\ \A p \in Requests \ {r} : relays'[p] = relays[p] /\ sent'[p] = sent[p]
    BY DEF IInv, Typed
  <1>2. RelayOK(r, relays[r], sent[r]) /\ RelayOK(r, y, m)
    BY <1>1 DEF IInv, RelaysOK
  <1>3. Within(r, relays[r], sent[r])
    BY DEF AllWithin
  <1>4. Within(r, y, m)
    BY <1>2, <1>3, AdvancesWithin
  <1>5. QED
    BY <1>1, <1>4 DEF AllWithin

(* Responding sends nothing. *)
LEMMA RespondWithin ==
    ASSUME IInv, IInv', AllWithin, NEW r \in Requests, NEW success, NEW status, NEW data,
           Respond(r, success, status, data), UNCHANGED sent
    PROVE  AllWithin'
  <1>1. PICK z : relays' = [relays EXCEPT ![r] = [relays[r] EXCEPT !.pc = "returned", !.result = z]]
    BY DEF Respond
  <1>2. PICK y : y = [relays[r] EXCEPT !.pc = "returned", !.result = z]
    OBVIOUS
  <1>3. y.pc = "returned"
    BY <1>2 DEF IInv, Typed, RelayStates
  <1>4. sent' = [sent EXCEPT ![r] = sent[r]]
    BY DEF IInv, Typed
  <1>5. Advances(r, relays[r], sent[r], y, sent[r])
    BY <1>3 DEF Advances
  <1>6. QED
    BY <1>1, <1>2, <1>4, <1>5, AdvanceKeeps

(* The next attempt opens the next round. *)
LEMMA NextAttemptWithin ==
    ASSUME IInv, IInv', AllWithin, NEW r \in Requests, NEW x \in RelayStates,
           relays[r].pc \in {"executing", "verifying"},
           x.endpoint = relays[r].endpoint, x.attempts = relays[r].attempts, NextAttempt(r, x)
    PROVE  AllWithin'
  <1>1. PICK e, a : e = relays[r].endpoint /\ a = relays[r].attempts
    OBVIOUS
  <1>2. /\ e \in Nat \ {0} /\ a \in Nat /\ a < AttemptsPerEndpoint(r) /\ MaxRetries \in Nat
        /\ x.endpoint = e /\ x.attempts = a
    BY <1>1, BridgeAssumption DEF IInv, RelaysOK, RelayOK, RelayStates
  <1>3. CASE /\ relays' = [relays EXCEPT ![r] =
                    [x EXCEPT !.pc = "executing", !.attempts = x.attempts + 1]]
             /\ sent' = [sent EXCEPT ![r] = sent[r] + 1]
    <2>1. PICK y : y = [x EXCEPT !.pc = "executing", !.attempts = x.attempts + 1]
      OBVIOUS
    <2>2. y.pc = "executing" /\ y.endpoint = e /\ y.attempts = a + 1
      BY <1>2, <2>1 DEF RelayStates
    <2>3. Round(y) = Round(relays[r]) + 1
      <3>1. PICK p : p = (e - 1) * MaxRetries
        OBVIOUS
      <3>2. p \in Nat
        BY <1>2, <3>1, ProductFacts
      <3>3. p + (a + 1) = (p + a) + 1
        BY <1>2, <3>2
      <3>4. QED
        BY <1>1, <2>2, <3>1, <3>3 DEF Round
    <2>4. Advances(r, relays[r], sent[r], y, sent[r] + 1)
      BY <2>2, <2>3 DEF Advances
    <2>5. QED
      BY <1>3, <2>1, <2>4, AdvanceKeeps
  <1>4. CASE /\ ~AttemptsLeft(r)
             /\ relays' = [relays EXCEPT ![r] =
                    [x EXCEPT !.pc = "executing", !.attempts = 0, !.endpoint = x.endpoint + 1]]
             /\ sent' = [sent EXCEPT ![r] = sent[r] + 1]
    <2>1. PICK y : y = [x EXCEPT !.pc = "executing", !.attempts = 0, !.endpoint = x.endpoint + 1]
      OBVIOUS
    <2>2. y.pc = "executing" /\ y.endpoint = e + 1 /\ y.attempts = 0
      BY <1>2, <2>1 DEF RelayStates
    <2>3. ASSUME Kind[r] = "replayable" PROVE Round(y) = Round(relays[r]) + 1
      <3>1. PICK p, t : p = (e - 1) * MaxRetries /\ t = e * MaxRetries
        OBVIOUS
      <3>2. p \in Nat /\ t \in Nat
        BY <1>2, <3>1, ProductFacts
      <3>3. t = p + MaxRetries
        <4>1. ((e - 1) + 1) * MaxRetries = (e - 1) * MaxRetries + MaxRetries
          BY <1>2, ProductFacts
        <4>2. (e - 1) + 1 = e
          BY <1>2
        <4>3. QED
          BY <3>1, <4>1, <4>2
      <3>4. a + 1 = MaxRetries
        BY <1>1, <1>2, <1>4, <2>3 DEF AttemptsLeft, AttemptsPerEndpoint
      <3>5. t + 0 = (p + a) + 1
        BY <1>2, <3>2, <3>3, <3>4
      <3>6. (e + 1) - 1 = e
        BY <1>2
      <3>7. QED
        BY <1>1, <2>2, <3>1, <3>5, <3>6 DEF Round
    <2>4. Kind[r] = "replayable" => Advances(r, relays[r], sent[r], y, sent[r] + 1)
      BY <2>2, <2>3 DEF Advances
    <2>5. QED
      BY <1>4, <2>1, <2>4, AdvanceKeeps
  <1>5. ASSUME NEW z, relays' = [relays EXCEPT ![r] = [x EXCEPT !.pc = "returned", !.result = z]],
               UNCHANGED sent
        PROVE  AllWithin'
    <2>1. PICK y : y = [x EXCEPT !.pc = "returned", !.result = z]
      OBVIOUS
    <2>2. y.pc = "returned"
      BY <2>1 DEF RelayStates
    <2>3. sent' = [sent EXCEPT ![r] = sent[r]]
      BY <1>5 DEF IInv, Typed
    <2>4. Advances(r, relays[r], sent[r], y, sent[r])
      BY <2>2 DEF Advances
    <2>5. QED
      BY <1>5, <2>1, <2>3, <2>4, AdvanceKeeps
  <1>6. QED
    BY <1>3, <1>4, <1>5 DEF NextAttempt

(* The first attempt opens the first round. *)
LEMMA RelayWithin ==
    ASSUME IInv, IInv', AllWithin, NEW r \in Requests, Relay(r)
    PROVE  AllWithin'
  <1>1. CASE Respond(r, FALSE, "skipped", NoValue) /\ UNCHANGED sent
    BY <1>1, RespondWithin
  <1>2. CASE /\ relays' = [relays EXCEPT ![r] = [relays[r] EXCEPT !.pc = "executing"]]
             /\ sent' = [sent EXCEPT ![r] = sent[r] + 1]
    <2>1. PICK y : y = [relays[r] EXCEPT !.pc = "executing"]
      OBVIOUS
    <2>2. relays[r].pc = "new" /\ relays[r] \in RelayStates /\ sent[r] = 0 /\ sent[r] + 1 = 1
          /\ relays[r].endpoint = 1 /\ relays[r].attempts = 0
      BY DEF Relay, IInv, RelaysOK, RelayOK
    <2>3. y.pc = "executing" /\ y.endpoint = 1 /\ y.attempts = 0
      BY <2>1, <2>2 DEF RelayStates
    <2>4. Advances(r, relays[r], sent[r], y, sent[r] + 1)
      BY <2>2, <2>3 DEF Advances
    <2>5. QED
      BY <1>2, <2>1, <2>4, AdvanceKeeps
  <1>3. QED
    BY <1>1, <1>2 DEF Relay

(* The verification calls belong to the round of their attempt. *)
LEMMA ExecuteSucceedsWithin ==
    ASSUME IInv, IInv', AllWithin, NEW r \in Requests, NEW v \in Values, ExecuteSucceeds(r, v)
    PROVE  AllWithin'
  <1>1. CASE Respond(r, TRUE, "skipped", v) /\ UNCHANGED sent
    BY <1>1, RespondWithin
  <1>2. CASE Respond(r, FALSE, "unavailable", NoValue) /\ UNCHANGED sent
    BY <1>2, RespondWithin
  <1>3. ASSUME NEW w,
               relays' = [relays EXCEPT ![r] =
                   [relays[r] EXCEPT !.pc = "verifying", !.primary = v, !.votes = w]],
               sent' = [sent EXCEPT ![r] = sent[r] + Cardinality(Secondaries(r))]
        PROVE  AllWithin'
    <2>1. PICK y : y = [relays[r] EXCEPT !.pc = "verifying", !.primary = v, !.votes = w]
      OBVIOUS
    <2>2. relays[r].pc = "executing" /\ relays[r] \in RelayStates /\ sent[r] \in Nat
          /\ relays[r].endpoint \in 1 .. Len(Route[r])
      BY BridgeAssumption DEF ExecuteSucceeds, IInv, RelaysOK, RelayOK, RelayStates
    <2>3. y.pc = "verifying" /\ y.endpoint = relays[r].endpoint /\ y.attempts = relays[r].attempts
      BY <2>1, <2>2 DEF RelayStates
    <2>4. sent[r] + Cardinality(Secondaries(r)) = sent[r] + Cardinality(Voters(r)) - 1
      <3>1. /\ Cardinality(Voters(r)) = Cardinality(Secondaries(r)) + 1
            /\ Cardinality(Secondaries(r)) \in Nat
        BY <2>2, VotersSplit, FS_CardinalityType
      <3>2. QED
        BY <3>1, <2>2
    <2>5. Round(y) = Round(relays[r])
      BY <2>3 DEF Round
    <2>6. Advances(r, relays[r], sent[r], y, sent[r] + Cardinality(Secondaries(r)))
      BY <2>2, <2>3, <2>4, <2>5 DEF Advances
    <2>7. QED
      BY <1>3, <2>1, <2>6, AdvanceKeeps
  <1>4. QED
    BY <1>1, <1>2, <1>3 DEF ExecuteSucceeds

(* A vote has been paid for when it was sent. *)
LEMMA VoteWithin ==
    ASSUME IInv, IInv', AllWithin, NEW r \in Requests, NEW u \in Upstreams,
           NEW v \in Values \cup {"rejected"}, Vote(r, u, v)
    PROVE  AllWithin'
  <1>1. PICK w : relays' = [relays EXCEPT ![r] = [relays[r] EXCEPT !.votes[u] = w]]
    BY DEF Vote
  <1>2. PICK y : y = [relays[r] EXCEPT !.votes[u] = w]
    OBVIOUS
  <1>3. relays[r].pc = "verifying" /\ relays[r] \in RelayStates
    BY DEF Vote, IInv, Typed
  <1>4. y.pc = "verifying" /\ y.endpoint = relays[r].endpoint /\ y.attempts = relays[r].attempts
    BY <1>2, <1>3 DEF RelayStates
  <1>5. sent' = [sent EXCEPT ![r] = sent[r]]
    BY DEF IInv, Typed, Vote
  <1>6. Advances(r, relays[r], sent[r], y, sent[r])
    BY <1>3, <1>4 DEF Advances, Round
  <1>7. QED
    BY <1>1, <1>2, <1>5, <1>6, AdvanceKeeps

(* A verdict against the primary is followed by the next round, or the end. *)
LEMMA TallyWithin ==
    ASSUME IInv, IInv', AllWithin, NEW r \in Requests, Tally(r)
    PROVE  AllWithin'
  <1>1. CASE Respond(r, TRUE, "verified", relays[r].primary) /\ UNCHANGED sent
    BY <1>1, RespondWithin
  <1>2. CASE Respond(r, FALSE, "unavailable", NoValue) /\ UNCHANGED sent
    BY <1>2, RespondWithin
  <1>3. ASSUME NEW b, b = relays[r].blamed \cup {Upstream(r)},
               NextAttempt(r, [relays[r] EXCEPT !.lastStatus = "failed", !.blamed = b])
        PROVE  AllWithin'
    <2>1. PICK x : x = [relays[r] EXCEPT !.lastStatus = "failed", !.blamed = b]
      OBVIOUS
    <2>2. /\ relays[r].pc = "verifying" /\ relays[r] \in RelayStates
          /\ relays[r].endpoint \in 1 .. Len(Route[r])
      BY BridgeAssumption DEF Tally, IInv, RelaysOK, RelayOK, RelayStates
    <2>3. b \subseteq Upstreams
      BY <1>3, <2>2, VotersSplit DEF RelayStates
    <2>4. x \in RelayStates /\ x.endpoint = relays[r].endpoint /\ x.attempts = relays[r].attempts
      BY <2>1, <2>2, <2>3 DEF RelayStates
    <2>5. QED
      BY <1>3, <2>1, <2>2, <2>4, NextAttemptWithin
  <1>4. QED
    BY <1>1, <1>2, <1>3 DEF Tally

(* However the endpoints fail, time out or disagree: a replayable request  *)
(* costs at most maxRetries rounds on each configured endpoint, each of    *)
(* one request to every distinct endpoint.                                 *)
THEOREM TrafficIsBounded == SafetySpec => []TrafficBounded
  <1>1. Init => AllWithin
    <2> SUFFICES ASSUME Init, NEW r \in Requests PROVE Within(r, relays[r], sent[r])
      BY DEF AllWithin
    <2>1. relays[r].pc = "new" /\ sent[r] = 0
      BY DEF Init
    <2>2. IsFiniteSet(Voters(r))
      <3>1. Voters(r) \subseteq Upstreams
        BY BridgeAssumption DEF Voters, Range
      <3>2. QED
        BY <3>1, FS_Subset, BridgeAssumption
    <2>3. Len(Route[r]) * MaxRetries * Cardinality(Voters(r)) \in Nat
      <3>1. Len(Route[r]) \in Nat /\ MaxRetries \in Nat /\ Cardinality(Voters(r)) \in Nat
        BY <2>2, FS_CardinalityType, BridgeAssumption
      <3>2. QED
        BY <3>1, ProductFacts
    <2>4. QED
      BY <2>1, <2>3 DEF Within
  <1>2. IInv /\ IInv' /\ AllWithin /\ [Next]_vars => AllWithin'
    <2> SUFFICES ASSUME IInv, IInv', AllWithin, [Next]_vars PROVE AllWithin'
      OBVIOUS
    <2>1. ASSUME NEW r \in Requests, ExecuteFails(r) PROVE AllWithin'
      <3>1. relays[r] \in RelayStates
        BY DEF IInv, Typed
      <3>2. QED
        BY <2>1, <3>1, NextAttemptWithin DEF ExecuteFails
    <2>2. CASE ClearAuditLog \/ UNCHANGED vars
      BY <2>2 DEF ClearAuditLog, vars, AllWithin
    <2>3. QED
      BY <2>1, <2>2, RelayWithin, ExecuteSucceedsWithin, VoteWithin, TallyWithin DEF Next, Progress
  <1>3. AllWithin => TrafficBounded
    BY DEF AllWithin, Within, TrafficBounded
  <1>4. QED
    BY <1>1, <1>2, <1>3, Invariance, PTL DEF SafetySpec


-----------------------------------------------------------------------------
(* The audit log tells what relay() answered: each answer is in it once,   *)
(* unless the log was cleared since, and nothing else is.                  *)
InLog(r) == \E i \in 1 .. Len(auditLog) : auditLog[i].request = r /\ auditLog[i] = relays[r].result

Recorded(i) ==
    LET r == auditLog[i].request
    IN  r \in Requests /\ relays[r].pc = "returned" /\ relays[r].result = auditLog[i]

AuditLogExact ==
    /\ \A r \in Requests : relays[r].pc = "returned" => r \in cleared \/ InLog(r)
    /\ \A i \in 1 .. Len(auditLog) : Recorded(i)
    /\ \A i, j \in 1 .. Len(auditLog) : auditLog[i].request = auditLog[j].request => i = j

(* What a step of relay(r) may do: go on, or return with its response      *)
(* appended to the log.                                                    *)
GoesOn(r) == relays'[r].pc # "returned" /\ auditLog' = auditLog

Returns(r) ==
    /\ relays'[r].pc = "returned"
    /\ relays'[r].result \in Responses /\ relays'[r].result.request = r
    /\ auditLog' = Append(auditLog, relays'[r].result)

Works(r) ==
    /\ relays[r].pc # "returned"
    /\ \A q \in Requests \ {r} : relays'[q] = relays[q]
    /\ cleared' = cleared
    /\ GoesOn(r) \/ Returns(r)

(* recordResponse() returns and logs one response. *)
LEMMA RespondWorks ==
    ASSUME IInv, NEW r \in Requests, NEW success \in BOOLEAN, NEW status \in Statuses,
           NEW data \in Values \cup {NoValue}, relays[r].pc # "returned",
           Respond(r, success, status, data), cleared' = cleared
    PROVE  Works(r)
  <1> DEFINE response == [request |-> r, success |-> success, status |-> status,
                          data |-> data]
  <1>1. response \in Responses /\ response.request = r
    BY DEF Responses
  <1>2. /\ relays' = [relays EXCEPT ![r] = [relays[r] EXCEPT !.pc = "returned", !.result = response]]
        /\ auditLog' = Append(auditLog, response)
    BY DEF Respond
  <1> HIDE DEF response
  <1>3. relays \in [Requests -> RelayStates] /\ relays[r] \in RelayStates
    BY DEF IInv, Typed
  <1>4. /\ relays'[r] = [relays[r] EXCEPT !.pc = "returned", !.result = response]
        /\ \A q \in Requests \ {r} : relays'[q] = relays[q]
    BY <1>2, <1>3
  <1>5. relays'[r].pc = "returned" /\ relays'[r].result = response
    BY <1>3, <1>4 DEF RelayStates
  <1>6. QED
    BY <1>1, <1>2, <1>4, <1>5 DEF Works, Returns

(* After a failed attempt the next one begins, or the relay returns. *)
LEMMA NextAttemptWorks ==
    ASSUME IInv, NEW r \in Requests, NEW x \in RelayStates, relays[r].pc # "returned",
           NextAttempt(r, x), cleared' = cleared
    PROVE  Works(r)
  <1>1. relays \in [Requests -> RelayStates]
    BY DEF IInv, Typed
  <1>2. ASSUME NEW y, y.pc = "executing", relays' = [relays EXCEPT ![r] = y], auditLog' = auditLog
        PROVE  Works(r)
    BY <1>1, <1>2 DEF Works, GoesOn
  <1>3. CASE AttemptsLeft(r) /\ NextAttempt(r, x)
    <2>1. PICK y : y = [x EXCEPT !.pc = "executing", !.attempts = x.attempts + 1]
      OBVIOUS
    <2>2. relays' = [relays EXCEPT ![r] = y] /\ auditLog' = auditLog
      BY <1>3, <2>1 DEF NextAttempt
    <2>3. y.pc = "executing"
      BY <2>1 DEF RelayStates
    <2>4. QED
      BY <1>2, <2>2, <2>3
  <1>4. CASE ~AttemptsLeft(r) /\ relays[r].endpoint < EligibleEndpoints(r) /\ auditLog' = auditLog
             /\ relays' = [relays EXCEPT ![r] = [x EXCEPT !.pc = "executing", !.attempts = 0,
                                                          !.endpoint = x.endpoint + 1]]
    <2>1. PICK y : y = [x EXCEPT !.pc = "executing", !.attempts = 0, !.endpoint = x.endpoint + 1]
      OBVIOUS
    <2>2. y.pc = "executing"
      BY <2>1 DEF RelayStates
    <2>3. QED
      BY <1>2, <1>4, <2>1, <2>2
  <1>5. ASSUME NEW response,
               response = [request |-> r, success |-> FALSE, status |-> x.lastStatus,
                           data |-> NoValue],
               relays' = [relays EXCEPT ![r] = [x EXCEPT !.pc = "returned", !.result = response]],
               auditLog' = Append(auditLog, response)
        PROVE  Works(r)
    <2>1. response \in Responses /\ response.request = r
      BY <1>5 DEF Responses, RelayStates, Statuses
    <2>2. /\ relays'[r] = [x EXCEPT !.pc = "returned", !.result = response]
          /\ \A q \in Requests \ {r} : relays'[q] = relays[q]
      BY <1>1, <1>5
    <2>3. relays'[r].pc = "returned" /\ relays'[r].result = response
      BY <2>2 DEF RelayStates
    <2>4. QED
      BY <1>5, <2>1, <2>2, <2>3 DEF Works, Returns
  <1>6. QED
    BY <1>3, <1>4, <1>5 DEF NextAttempt

(* Every step of a relay is one of these. *)
LEMMA ProgressWorks ==
    ASSUME IInv, NEW r \in Requests, Relay(r) \/ Progress(r)
    PROVE  Works(r)
  <1>0. relays \in [Requests -> RelayStates] /\ relays[r] \in RelayStates
    BY DEF IInv, Typed
  <1>1. CASE Relay(r)
    <2>1. CASE Respond(r, FALSE, "skipped", NoValue)
      BY <1>1, <2>1, RespondWorks DEF Relay, Statuses
    <2>2. CASE relays' = [relays EXCEPT ![r] = [relays[r] EXCEPT !.pc = "executing"]]
               /\ auditLog' = auditLog
      BY <1>0, <1>1, <2>2 DEF Relay, RelayStates, Works, GoesOn
    <2>3. QED
      BY <1>1, <2>1, <2>2 DEF Relay
  <1>2. CASE ExecuteFails(r)
    BY <1>0, <1>2, NextAttemptWorks DEF ExecuteFails
  <1>3. ASSUME NEW v \in Values, ExecuteSucceeds(r, v) PROVE Works(r)
    <2>1. relays[r].pc = "executing" /\ cleared' = cleared
      BY <1>3 DEF ExecuteSucceeds
    <2>2. CASE Respond(r, TRUE, "skipped", v)
      BY <2>1, <2>2, RespondWorks DEF Statuses
    <2>3. CASE Respond(r, FALSE, "unavailable", NoValue)
      BY <2>1, <2>3, RespondWorks DEF Statuses
    <2>4. ASSUME NEW votes, auditLog' = auditLog,
                 relays' = [relays EXCEPT ![r] = [relays[r] EXCEPT !.pc = "verifying",
                                                      !.primary = v, !.votes = votes]]
          PROVE  Works(r)
      BY <1>0, <2>1, <2>4 DEF RelayStates, Works, GoesOn
    <2>5. QED
      BY <1>3, <2>2, <2>3, <2>4 DEF ExecuteSucceeds
  <1>4. ASSUME NEW u \in Upstreams, NEW v, Vote(r, u, v) PROVE Works(r)
    <2>1. PICK w : w = IF v \in Unprojectable THEN "rejected" ELSE v
      OBVIOUS
    <2>2. /\ relays[r].pc = "verifying" /\ auditLog' = auditLog /\ cleared' = cleared
          /\ relays' = [relays EXCEPT ![r] = [relays[r] EXCEPT !.votes[u] = w]]
      BY <1>4, <2>1 DEF Vote
    <2>3. relays'[r].pc = "verifying" /\ \A q \in Requests \ {r} : relays'[q] = relays[q]
      BY <1>0, <2>2 DEF RelayStates
    <2>4. QED
      BY <2>2, <2>3 DEF Works, GoesOn
  <1>5. CASE Tally(r)
    <2>1. relays[r].pc = "verifying" /\ cleared' = cleared
      BY <1>5 DEF Tally
    <2>2. CASE Respond(r, TRUE, "verified", relays[r].primary)
      BY <1>0, <2>1, <2>2, RespondWorks DEF Statuses, RelayStates
    <2>3. CASE Respond(r, FALSE, "unavailable", NoValue)
      BY <2>1, <2>3, RespondWorks DEF Statuses
    <2>4. ASSUME NEW b, b = relays[r].blamed \cup {Upstream(r)},
                 NextAttempt(r, [relays[r] EXCEPT !.lastStatus = "failed", !.blamed = b])
          PROVE  Works(r)
      <3>1. PICK x : x = [relays[r] EXCEPT !.lastStatus = "failed", !.blamed = b]
        OBVIOUS
      <3>2. relays[r].endpoint \in 1 .. Len(Route[r])
        BY <2>1, BridgeAssumption DEF IInv, RelaysOK, RelayOK, RelayStates
      <3>3. b \subseteq Upstreams
        BY <1>0, <2>4, <3>2, VotersSplit DEF RelayStates
      <3>4. x \in RelayStates
        BY <1>0, <3>1, <3>3 DEF RelayStates
      <3>5. QED
        BY <2>1, <2>4, <3>1, <3>4, NextAttemptWorks
    <2>5. QED
      BY <1>5, <2>2, <2>3, <2>4 DEF Tally
  <1>6. QED
    BY <1>1, <1>2, <1>3, <1>4, <1>5 DEF Progress

(* However relays overlap, fail over and are voted down, and whenever the  *)
(* log is cleared: a relay that has returned is in the log with exactly    *)
(* what it returned, once, unless its entry was cleared.  That it does     *)
(* return (EveryRelayReturns) rests on fairness.                           *)
THEOREM LogIsExact == SafetySpec => []AuditLogExact
  <1>1. Init => AuditLogExact
    <2>1. Init => Len(auditLog) = 0 /\ \A r \in Requests : relays[r].pc = "new"
      BY DEF Init
    <2>2. QED
      BY <2>1 DEF AuditLogExact
  <1>2. IInv /\ AuditLogExact /\ [Next]_vars => AuditLogExact'
    <2> SUFFICES ASSUME IInv, AuditLogExact, [Next]_vars PROVE AuditLogExact'
      OBVIOUS
    <2>1. ASSUME NEW r \in Requests, Works(r), GoesOn(r) PROVE AuditLogExact'
      <3>1. \A i \in 1 .. Len(auditLog) : auditLog[i].request # r
        BY <2>1 DEF AuditLogExact, Recorded, Works
      <3>2. \A i \in 1 .. Len(auditLog) : Recorded(i)'
        BY <2>1, <3>1 DEF AuditLogExact, Recorded, Works, GoesOn
      <3>3. \A q \in Requests : relays'[q].pc = "returned" => q \in cleared' \/ InLog(q)'
        BY <2>1 DEF AuditLogExact, InLog, Works, GoesOn
      <3>4. QED
        BY <2>1, <3>2, <3>3 DEF AuditLogExact, GoesOn
    <2>2. ASSUME NEW r \in Requests, Works(r), Returns(r) PROVE AuditLogExact'
      <3>1. PICK n, a, x : n = Len(auditLog) /\ a = auditLog' /\ x = relays'[r].result
        OBVIOUS
      <3>2. n \in Nat /\ x \in Responses /\ x.request = r
        BY <2>2, <3>1 DEF Returns, IInv, Typed
      <3>3. /\ Len(a) = n + 1 /\ a[n + 1] = x
            /\ \A i \in 1 .. n : a[i] = auditLog[i]
        BY <2>2, <3>1, <3>2 DEF Returns, IInv, Typed
      <3>4. \A i \in 1 .. n : auditLog[i].request # r
        BY <2>2, <3>1 DEF AuditLogExact, Recorded, Works
      <3>5. \A i \in 1 .. n + 1 : i \in 1 .. n \/ i = n + 1
        BY <3>2
      <3>6. \A i \in 1 .. n + 1 : Recorded(i)'
        <4> SUFFICES ASSUME NEW i \in 1 .. n + 1 PROVE Recorded(i)'
          OBVIOUS
        <4>1. CASE i \in 1 .. n
          <5>1. Recorded(i) /\ a[i] = auditLog[i] /\ a[i].request # r
            BY <3>1, <3>3, <3>4, <4>1 DEF AuditLogExact
          <5>2. QED
            BY <2>2, <3>1, <5>1 DEF Recorded, Works
        <4>2. CASE i = n + 1
          BY <2>2, <3>1, <3>2, <3>3, <4>2 DEF Recorded, Returns
        <4>3. QED
          BY <3>5, <4>1, <4>2
      <3>7. \A q \in Requests : relays'[q].pc = "returned" => q \in cleared' \/ InLog(q)'
        <4> SUFFICES ASSUME NEW q \in Requests, relays'[q].pc = "returned", q \notin cleared'
                     PROVE  InLog(q)'
          OBVIOUS
        <4>1. CASE q = r
          <5>1. n + 1 \in 1 .. Len(a) /\ a[n + 1].request = q /\ a[n + 1] = relays'[q].result
            BY <3>1, <3>2, <3>3, <4>1
          <5>2. QED
            BY <3>1, <5>1 DEF InLog
        <4>2. CASE q # r
          <5>1. relays'[q] = relays[q] /\ InLog(q)
            BY <2>2, <4>2 DEF Works, AuditLogExact
          <5>2. PICK i \in 1 .. n : auditLog[i].request = q /\ auditLog[i] = relays[q].result
            BY <3>1, <5>1 DEF InLog
          <5>3. i \in 1 .. Len(a) /\ a[i].request = q /\ a[i] = relays'[q].result
            BY <3>2, <3>3, <5>1, <5>2
          <5>4. QED
            BY <3>1, <5>3 DEF InLog
        <4>3. QED
          BY <4>1, <4>2
      <3>8. \A i, j \in 1 .. n + 1 : a[i].request = a[j].request => i = j
        <4>1. \A i, j \in 1 .. n : auditLog[i].request = auditLog[j].request => i = j
          BY <3>1 DEF AuditLogExact
        <4>2. QED
          BY <3>2, <3>3, <3>4, <3>5, <4>1
      <3>9. QED
        BY <3>1, <3>3, <3>6, <3>7, <3>8 DEF AuditLogExact
    <2>3. CASE ClearAuditLog
      <3>1. Len(auditLog') = 0 /\ relays' = relays
        BY <2>3 DEF ClearAuditLog
      <3>2. \A r \in Requests : relays[r].pc = "returned" => r \in cleared'
        BY <2>3 DEF ClearAuditLog, AuditLogExact, InLog
      <3>3. QED
        BY <3>1, <3>2 DEF AuditLogExact
    <2>4. CASE UNCHANGED vars
      BY <2>4 DEF vars, AuditLogExact, InLog, Recorded
    <2>5. QED
      BY <2>1, <2>2, <2>3, <2>4, ProgressWorks DEF Next, Works
  <1>3. QED
    BY <1>1, <1>2, Invariance, PTL DEF SafetySpec
=============================================================================
