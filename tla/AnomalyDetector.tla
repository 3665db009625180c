--------------------------- MODULE AnomalyDetector ---------------------------
(***************************************************************************)
(* The polling loop of the anomaly detector (anomaly-detector/src):        *)
(* monitor(), NodeHealthChecker, RpcFailoverMonitor, ThreatFeedFetcher.    *)
(*                                                                         *)
(* setInterval() does not wait for its async callback, so polls overlap    *)
(* while a feed or a node is slow.  A poll is a process that advances from *)
(* one await to the next; what it does in between is one step.  Requests   *)
(* carry timeouts, so each of them is answered or fails.                   *)
(***************************************************************************)
EXTENDS Integers, Sequences, FiniteSets

CONSTANTS
    NumNodes,           \* length of RPC_NODE_URLS
    NumFeeds,           \* length of THREAT_FEED_URLS
    Lists,              \* what each feed lists, a function on 1 .. NumFeeds
    Relayers,           \* relayer addresses
    Polls,              \* polls that may be in flight at once
    FailoverEventCap,   \* RPC_FAILOVER_EVENT_CAP
    MaxDropped          \* droppedEvents is counted up to this bound

ASSUME DetectorAssumption ==
    /\ NumNodes \in Nat \ {0} /\ NumFeeds \in Nat \ {0}
    /\ FailoverEventCap \in Nat \ {0} /\ MaxDropped \in Nat \ {0}
    /\ Lists \in [1 .. NumFeeds -> SUBSET Relayers]

Nodes == 1 .. NumNodes

VARIABLES
    up,                 \* environment: the nodes that answer eth_blockNumber
    healthy,            \* NodeStatus.healthy of each node
    currentNode,        \* currentNodeIndex
    failing,            \* nodes with an entry in firstFailureTimes
    events, droppedEvents,
    threats, lastUpdated,   \* threatAddresses; whether lastUpdated is set
    booted,             \* monitor() has set up the interval
    polls,
    unreported          \* history: a listed address was analyzed without an alert

nodeVars == <<healthy, currentNode, failing, events, droppedEvents>>
feedVars == <<threats, lastUpdated>>
detectorVars == <<up, nodeVars, feedVars, booted, polls, unreported>>

(* A poll between two awaits: the feed or node it waits for, what it has   *)
(* collected, and how many feeds have answered.                            *)
IdlePoll == [pc |-> "idle", at |-> 0, newThreats |-> {}, successes |-> 0, statuses |-> <<>>]
StartedPoll == [IdlePoll EXCEPT !.pc = "feed", !.at = 1]

Boot == CHOOSE p \in Polls : TRUE

DetectorInit ==
    /\ up \in SUBSET Nodes
    /\ healthy = [n \in Nodes |-> TRUE]
    /\ currentNode = 1
    /\ failing = {}
    /\ events = <<>> /\ droppedEvents = 0
    /\ threats = {} /\ lastUpdated = FALSE
    /\ booted = FALSE
    /\ polls = [p \in Polls |-> IF p = Boot THEN StartedPoll ELSE IdlePoll]
    /\ unreported = FALSE

-----------------------------------------------------------------------------
(* The timer fires. *)
Tick(p) ==
    /\ booted
    /\ polls[p].pc = "idle"
    /\ polls' = [polls EXCEPT ![p] = StartedPoll]
    /\ UNCHANGED <<up, nodeVars, feedVars, booted, unreported>>

\* Slip: the cache is replaced even when every feed failed.
CommitFeedAlways(newThreats, successes) ==
    /\ threats' = newThreats
    /\ lastUpdated' = TRUE

(* The end of updateFeed(): one feed that answered replaces the cache. *)
CommitFeed(newThreats, successes) ==
    IF successes > 0 THEN /\ threats' = newThreats
                          /\ lastUpdated' = TRUE
                     ELSE UNCHANGED feedVars

(* parseFeedData(): the addresses found anywhere in the answer of a feed. *)
ParseFeedData(feed) == Lists[feed]

(* One axios.get() of updateFeed() is answered or fails. *)
FeedSettles(p, answered) ==
    LET q == polls[p]
        newThreats == IF answered THEN q.newThreats \cup ParseFeedData(q.at) ELSE q.newThreats
        successes == IF answered THEN q.successes + 1 ELSE q.successes
    IN  /\ q.pc = "feed"
        /\ IF q.at < NumFeeds
              THEN /\ polls' = [polls EXCEPT ![p] =
                         [q EXCEPT !.at = @ + 1, !.newThreats = newThreats,
                                   !.successes = successes]]
                   /\ UNCHANGED feedVars
              ELSE /\ polls' = [polls EXCEPT ![p] = [IdlePoll EXCEPT !.pc = "health", !.at = 1]]
                   /\ CommitFeed(newThreats, successes)
        /\ UNCHANGED <<up, nodeVars, booted, unreported>>

(* recordFailover(): the event list keeps its newest FailoverEventCap.  The *)
(* latency it reports is above zero exactly when from is in failing.        *)
RecordFailover(from, to) ==
    LET all == Append(events, [from |-> from, to |-> to])
        drop == IF Len(all) > FailoverEventCap THEN Len(all) - FailoverEventCap ELSE 0
    IN  /\ events' = SubSeq(all, drop + 1, Len(all))
        /\ droppedEvents' = IF droppedEvents + drop > MaxDropped THEN MaxDropped
                                                                ELSE droppedEvents + drop

\* Slip: the old url is read after the index was changed.
FailOverLateRead(table) ==
    LET others == {n \in Nodes : n # currentNode /\ table[n]}
        first == CHOOSE n \in others : \A m \in others : n <= m
    IN  IF ~table[currentNode] /\ others # {}
           THEN currentNode' = first /\ RecordFailover(first, first)
           ELSE UNCHANGED <<currentNode, events, droppedEvents>>

\* Slip: findIndex() is compared with 0 in place of -1.
FailOverNotToFirst(table) ==
    LET others == {n \in Nodes : n # currentNode /\ table[n]}
        first == CHOOSE n \in others : \A m \in others : n <= m
    IN  IF ~table[currentNode] /\ others # {} /\ first # 1
           THEN currentNode' = first /\ RecordFailover(currentNode, first)
           ELSE UNCHANGED <<currentNode, events, droppedEvents>>

(* The end of checkHealth(): findIndex() takes the first healthy other node. *)
FailOver(table) ==
    LET others == {n \in Nodes : n # currentNode /\ table[n]}
        first == CHOOSE n \in others : \A m \in others : n <= m
    IN  IF ~table[currentNode] /\ others # {}
           THEN currentNode' = first /\ RecordFailover(currentNode, first)
           ELSE UNCHANGED <<currentNode, events, droppedEvents>>

(* recordCheck() of every status of one poll. *)
RecordChecks(statuses) ==
    failing' = {n \in Nodes : ~statuses[n]}

(* One probe of checkHealth().  The last one goes on to the failover, its  *)
(* callbacks and the recording of the statuses without another await; the  *)
(* check of the start is not recorded.                                     *)
Probe(p) ==
    LET q == polls[p]
        ok == q.at \in up
        table == [healthy EXCEPT ![q.at] = ok]
        statuses == Append(q.statuses, ok)
    IN  /\ q.pc = "health"
        /\ healthy' = table
        /\ IF q.at < NumNodes
              THEN /\ polls' = [polls EXCEPT ![p] =
                         [q EXCEPT !.at = @ + 1, !.statuses = statuses]]
                   /\ UNCHANGED <<currentNode, failing, events, droppedEvents, booted>>
              ELSE /\ FailOver(table)
                   /\ booted' = TRUE
                   /\ IF booted
                         THEN /\ RecordChecks(statuses)
                              /\ polls' = [polls EXCEPT ![p] = [IdlePoll EXCEPT !.pc = "metrics"]]
                         ELSE /\ polls' = [polls EXCEPT ![p] = IdlePoll]
                              /\ UNCHANGED failing
        /\ UNCHANGED <<up, feedVars, unreported>>

(* fetchMetrics() answers with metrics of the addresses in batch, and      *)
(* runOnce() lets those in accepted past the ingestion guard.  All alerts  *)
(* are emitted, or none: saveNonces() and a timestamp that is no date      *)
(* throw, which the poll reports as an error.                              *)
Metrics(p, accepted, throws) ==
    /\ polls[p].pc = "metrics"
    /\ polls' = [polls EXCEPT ![p] = IdlePoll]
    /\ unreported' = (unreported \/ (~throws /\ lastUpdated /\
          \E a \in accepted : (\A f \in 1 .. NumFeeds : a \in Lists[f]) /\ a \notin threats))
    /\ UNCHANGED <<up, nodeVars, feedVars, booted>>

(* A node fails or comes back. *)
NodeChanges(n) ==
    /\ up' = IF n \in up THEN up \ {n} ELSE up \cup {n}
    /\ UNCHANGED <<nodeVars, feedVars, booted, polls, unreported>>

PollStep(p) ==
    \/ \E answered \in BOOLEAN : FeedSettles(p, answered)
    \/ Probe(p)
    \/ \E accepted \in SUBSET Relayers, throws \in BOOLEAN : Metrics(p, accepted, throws)

DetectorNext ==
    \/ \E p \in Polls : Tick(p) \/ PollStep(p)
    \/ \E n \in Nodes : NodeChanges(n)

(* Requests have timeouts and the timer keeps firing. *)
DetectorSpec ==
    /\ DetectorInit /\ [][DetectorNext]_detectorVars
    /\ \A p \in Polls : WF_detectorVars(Tick(p)) /\ WF_detectorVars(PollStep(p))

-----------------------------------------------------------------------------
(* The failovers recorded by the callbacks form one chain that ends at the *)
(* node getCurrentNode() returns, however many polls decide about it, and  *)
(* what the cap dropped was its beginning.                                 *)
FailoverChain ==
    /\ \A i \in 1 .. Len(events) - 1 : events[i].to = events[i + 1].from
    /\ events # <<>> => events[Len(events)].to = currentNode
    /\ events # <<>> /\ droppedEvents = 0 => events[1].from = 1
    /\ \A i \in 1 .. Len(events) : events[i].from # events[i].to
    /\ Len(events) <= FailoverEventCap

(* "If fetching fails, it keeps the last successfully cached data": an     *)
(* address that every feed lists is blocked and reported from the first    *)
(* answer of any feed on, through failing feeds and overlapping updates.   *)
ListedStaysReported ==
    /\ ~unreported
    /\ lastUpdated => {a \in Relayers : \A f \in 1 .. NumFeeds : a \in Lists[f]} \subseteq threats

(* When in the end one node alone answers, the checker ends up there.      *)
SettlesOnLiveNode ==
    \A n \in Nodes : <>[](up = {n}) => <>[](currentNode = n)
==============================================================================
