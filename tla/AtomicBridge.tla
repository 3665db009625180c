---------------------------- MODULE AtomicBridge ----------------------------
(***************************************************************************)
(* AtomicRpcRelayerBridge (atomic-rpc-relayer-bridge/src/index.ts): relays *)
(* a request to RPC endpoints in priority order, retries and fails over    *)
(* when the request may be replayed, and accepts a replayable response     *)
(* only if a majority of the distinct endpoints agree with it.             *)
(*                                                                         *)
(* The endpoints are external: an honest one answers Truth, a faulty one   *)
(* any value, and each call may fail or time out, in which case the caller *)
(* cannot know whether the request was carried out.  Values stand for      *)
(* canonical JSON projections; for the ones in Unprojectable the           *)
(* projection or the canonicalisation throws.                              *)
(***************************************************************************)
EXTENDS Integers, Sequences, FiniteSets, Functions

CONSTANTS
    Requests,
    Kind,               \* "badKey": empty idempotency key; "once": neither GET nor
                        \* idempotent; "replayable": everything else
    Upstreams,          \* endpoint identities (resolved URLs)
    Route,              \* Route[r]: the identities of the endpoints, sorted by
                        \* descending priority; entries may repeat
    MaxRetries,
    RequireVerification,
    Values, Truth, Unprojectable, NoValue,
    Faulty

Voters(r) == Range(Route[r])

ASSUME BridgeAssumption ==
    /\ IsFiniteSet(Upstreams)
    /\ Kind \in [Requests -> {"badKey", "once", "replayable"}]
    /\ Route \in [Requests -> Seq(Upstreams)]
    /\ MaxRetries \in Nat
    /\ RequireVerification \in BOOLEAN
    /\ Truth \in Values \ Unprojectable
    /\ NoValue \notin Values
    /\ "pending" \notin Values /\ "rejected" \notin Values
    /\ Faulty \subseteq Upstreams

(* Faulty endpoints are a strict minority of each request's voters. *)
HonestMajority ==
    \A r \in Requests :
        Voters(r) # {} => 2 * Cardinality(Faulty \cap Voters(r)) < Cardinality(Voters(r))

ASSUME HonestMajorityAssumption == HonestMajority

VARIABLES
    relays,     \* relays[r]: the local variables of relay(r)
    sent,       \* sent[r]: upstream requests issued on behalf of r
    auditLog,   \* the audit log, a sequence of responses
    cleared     \* requests whose log entry clearAuditLog() removed

vars == <<relays, sent, auditLog, cleared>>

Votes == Values \cup {"pending", "rejected"}

-----------------------------------------------------------------------------
\* Slip: an idempotency key or flag is not needed for a retry.
EligibleEndpointsAll(r) == Len(Route[r])

(* Number of endpoints tried, and attempts on each. *)
EligibleEndpoints(r) ==
    IF Kind[r] = "replayable" \/ Len(Route[r]) = 0 THEN Len(Route[r]) ELSE 1

AttemptsPerEndpoint(r) == IF Kind[r] = "replayable" THEN MaxRetries ELSE 1

Upstream(r) == Route[r][relays[r].endpoint]

(* distinctSecondaryEndpoints *)
Secondaries(r) == Voters(r) \ {Upstream(r)}

RequiredVotes(n) == (n \div 2) + 1

Answers(u) == IF u \in Faulty THEN Values ELSE {Truth}

\* Slip: endpoints that did not answer count as agreeing.
MatchingVotersWithSilent(r) ==
    {Upstream(r)} \cup
    {u \in Secondaries(r) : relays[r].votes[u] \in {relays[r].primary, "rejected"}}

(* The voters that agree with the primary, itself included. *)
MatchingVoters(r) ==
    {Upstream(r)} \cup {u \in Secondaries(r) : relays[r].votes[u] = relays[r].primary}

UnavailableVoters(r) == {u \in Secondaries(r) : relays[r].votes[u] = "rejected"}

(* The verdict of verifyAtomicity once every secondary has settled. *)
VoteOutcome(r) ==
    LET required == RequiredVotes(Cardinality(Secondaries(r)) + 1)
        matching == Cardinality(MatchingVoters(r))
    IN  IF matching >= required THEN "verified"
        ELSE IF matching + Cardinality(UnavailableVoters(r)) >= required
             THEN "unavailable"
        ELSE "failed"

-----------------------------------------------------------------------------
(* recordResponse: the response is logged and returned. *)
Respond(r, success, status, data) ==
    LET response == [request |-> r, success |-> success, status |-> status, data |-> data]
    IN  /\ relays' = [relays EXCEPT ![r] =
                         [relays[r] EXCEPT !.pc = "returned", !.result = response]]
        /\ auditLog' = Append(auditLog, response)

\* Slip: one attempt too many on each endpoint.
AttemptsLeftOffByOne(r) == relays[r].attempts <= AttemptsPerEndpoint(r)

AttemptsLeft(r) == relays[r].attempts + 1 < AttemptsPerEndpoint(r)

(* The failed attempt's `attempts++` and the loop heads after it: the next *)
(* attempt is issued, or the response for exhausted endpoints is recorded. *)
(* `x` is relays[r] with what the attempt learned.                         *)
NextAttempt(r, x) ==
    \/ /\ AttemptsLeft(r)
       /\ relays' = [relays EXCEPT ![r] =
                        [x EXCEPT !.pc = "executing", !.attempts = x.attempts + 1]]
       /\ sent' = [sent EXCEPT ![r] = sent[r] + 1]
       /\ UNCHANGED auditLog
    \/ /\ ~AttemptsLeft(r)
       /\ relays[r].endpoint < EligibleEndpoints(r)
       /\ relays' = [relays EXCEPT ![r] =
                        [x EXCEPT !.pc = "executing", !.attempts = 0,
                                  !.endpoint = x.endpoint + 1]]
       /\ sent' = [sent EXCEPT ![r] = sent[r] + 1]
       /\ UNCHANGED auditLog
    \/ LET response == [request |-> r, success |-> FALSE, status |-> x.lastStatus,
                        data |-> NoValue]
       IN  /\ ~AttemptsLeft(r)
           /\ relays[r].endpoint >= EligibleEndpoints(r)
           /\ relays' = [relays EXCEPT ![r] =
                            [x EXCEPT !.pc = "returned", !.result = response]]
           /\ auditLog' = Append(auditLog, response)
           /\ UNCHANGED sent

-----------------------------------------------------------------------------
NoResult(r) == [request |-> r, success |-> FALSE, status |-> "none", data |-> NoValue]

NoVotes == [u \in Upstreams |-> "rejected"]

Init ==
    /\ relays = [r \in Requests |->
          [pc |-> "new", endpoint |-> 1, attempts |-> 0, primary |-> NoValue,
           votes |-> NoVotes, lastStatus |-> "skipped", blamed |-> {},
           result |-> NoResult(r)]]
    /\ sent = [r \in Requests |-> 0]
    /\ auditLog = <<>>
    /\ cleared = {}

(* relay(): up to the first upstream request. *)
Relay(r) ==
    /\ relays[r].pc = "new"
    /\ UNCHANGED cleared
    /\ \/ /\ \/ Kind[r] = "badKey"
             \/ EligibleEndpoints(r) = 0
             \/ AttemptsPerEndpoint(r) = 0
          /\ Respond(r, FALSE, "skipped", NoValue)
          /\ UNCHANGED sent
       \/ /\ Kind[r] # "badKey"
          /\ EligibleEndpoints(r) > 0
          /\ AttemptsPerEndpoint(r) > 0
          /\ relays' = [relays EXCEPT ![r] = [relays[r] EXCEPT !.pc = "executing"]]
          /\ sent' = [sent EXCEPT ![r] = sent[r] + 1]
          /\ UNCHANGED auditLog

(* executeRequest() rejects: a refusal, a timeout or a malformed URL. *)
ExecuteFails(r) ==
    /\ relays[r].pc = "executing"
    /\ NextAttempt(r, relays[r])
    /\ UNCHANGED cleared

NeedsVerification(r) == RequireVerification /\ Kind[r] = "replayable"

(* executeRequest() resolves with v, and the code runs on to the next      *)
(* await: the secondaries are asked, all at once.                          *)
ExecuteSucceeds(r, v) ==
    /\ relays[r].pc = "executing"
    /\ v \in Answers(Upstream(r))
    /\ UNCHANGED cleared
    /\ \/ /\ ~NeedsVerification(r)
          /\ Respond(r, TRUE, "skipped", v)
          /\ UNCHANGED sent
       \/ /\ NeedsVerification(r)
          /\ Secondaries(r) = {} \/ v \in Unprojectable
          /\ Respond(r, FALSE, "unavailable", NoValue)
          /\ UNCHANGED sent
       \/ /\ NeedsVerification(r)
          /\ Secondaries(r) # {} /\ v \notin Unprojectable
          /\ relays' = [relays EXCEPT ![r] =
                [relays[r] EXCEPT
                    !.pc = "verifying", !.primary = v,
                    !.votes = [u \in Upstreams |->
                        IF u \in Secondaries(r) THEN "pending" ELSE "rejected"]]]
          /\ sent' = [sent EXCEPT ![r] = sent[r] + Cardinality(Secondaries(r))]
          /\ UNCHANGED auditLog

(* The promise of secondary u settles. *)
Vote(r, u, v) ==
    /\ relays[r].pc = "verifying"
    /\ relays[r].votes[u] = "pending"
    /\ v = "rejected" \/ v \in Answers(u)
    /\ relays' = [relays EXCEPT ![r] =
          [relays[r] EXCEPT !.votes[u] = IF v \in Unprojectable THEN "rejected" ELSE v]]
    /\ UNCHANGED <<sent, auditLog, cleared>>

\* Slip: the tally waits for an answer of every secondary.
AllSettledAnswered(r) ==
    \A u \in Secondaries(r) : relays[r].votes[u] \notin {"pending", "rejected"}

AllSettled(r) == \A u \in Secondaries(r) : relays[r].votes[u] # "pending"

(* Promise.allSettled resolves and relay() acts on the verdict. *)
Tally(r) ==
    /\ relays[r].pc = "verifying"
    /\ AllSettled(r)
    /\ UNCHANGED cleared
    /\ \/ /\ VoteOutcome(r) = "verified"
          /\ Respond(r, TRUE, "verified", relays[r].primary)
          /\ UNCHANGED sent
       \/ /\ VoteOutcome(r) = "unavailable"
          /\ Respond(r, FALSE, "unavailable", NoValue)
          /\ UNCHANGED sent
       \/ /\ VoteOutcome(r) = "failed"
          /\ NextAttempt(r, [relays[r] EXCEPT !.lastStatus = "failed",
                                !.blamed = relays[r].blamed \cup {Upstream(r)}])

ClearAuditLog ==
    /\ cleared' = cleared \cup {auditLog[i].request : i \in 1 .. Len(auditLog)}
    /\ auditLog' = <<>>
    /\ UNCHANGED <<relays, sent>>

Progress(r) ==
    \/ ExecuteFails(r)
    \/ \E v \in Values : ExecuteSucceeds(r, v)
    \/ \E u \in Upstreams, v \in Values \cup {"rejected"} : Vote(r, u, v)
    \/ Tally(r)

Next ==
    \/ \E r \in Requests : Relay(r) \/ Progress(r)
    \/ ClearAuditLog

SafetySpec == Init /\ [][Next]_vars

(* An upstream call settles: axios gives up after timeoutMs. *)
Spec == SafetySpec /\ \A r \in Requests : WF_vars(Progress(r))

-----------------------------------------------------------------------------
Statuses == {"verified", "failed", "unavailable", "skipped"}

Responses ==
    [request : Requests, success : BOOLEAN, status : Statuses \cup {"none"},
     data : Values \cup {NoValue}]

RelayStates ==
    [pc : {"new", "executing", "verifying", "returned"},
     endpoint : Nat \ {0}, attempts : Nat, primary : Values \cup {NoValue},
     votes : [Upstreams -> Votes], lastStatus : {"skipped", "failed"},
     blamed : SUBSET Upstreams, result : Responses]

TypeOK ==
    /\ relays \in [Requests -> RelayStates]
    /\ \A r \in Requests :
          relays[r].pc \in {"executing", "verifying"} =>
              /\ relays[r].endpoint <= Len(Route[r])
              /\ relays[r].attempts < AttemptsPerEndpoint(r)
    /\ sent \in [Requests -> Nat]
    /\ auditLog \in Seq(Responses)
    /\ cleared \subseteq Requests

(* A faulty minority cannot get a false answer verified, whichever         *)
(* endpoint is asked first and whichever secondaries stay silent.          *)
VerifiedIsTrue ==
    \A r \in Requests :
        relays[r].result.status = "verified" => relays[r].result.data = Truth

(* With an honest majority, an endpoint whose answer is voted down (and    *)
(* therefore retried or failed over) really was faulty.                    *)
OnlyFaultyVotedDown == \A r \in Requests : relays[r].blamed \subseteq Faulty

(* Voting decides right in both directions: what it verifies is the truth, *)
(* and whom it rejects is faulty, for every order of answers and silences. *)
VotesSound == VerifiedIsTrue /\ OnlyFaultyVotedDown

(* README: "POST, PUT, and DELETE use one upstream request unless the      *)
(* caller explicitly enables idempotency" -- also when the answer is lost  *)
(* in a timeout.                                                           *)
AtMostOneSubmission == \A r \in Requests : Kind[r] # "replayable" => sent[r] <= 1

(* Retries are bounded: maxRetries attempts on each configured endpoint,   *)
(* each asking every distinct endpoint at most once.                       *)
TrafficBounded ==
    \A r \in Requests :
        Kind[r] = "replayable" =>
            sent[r] <= Len(Route[r]) * MaxRetries * Cardinality(Voters(r))

(* relay() always answers: no failure pattern of the endpoints makes it    *)
(* wait or retry forever, and what it answers is in the audit log unless   *)
(* the log was cleared since.                                              *)
EveryRelayReturns ==
    \A r \in Requests :
        (relays[r].pc # "new") ~>
            /\ relays[r].pc = "returned"
            /\ r \in cleared \/ relays[r].result \in Range(auditLog)
=============================================================================
