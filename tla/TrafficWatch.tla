---------------------------- MODULE TrafficWatch ----------------------------
(***************************************************************************)
(* The two sliding-window limiters: RateLimitMonitor                       *)
(* (rate-limit-monitor.ts) and IPTracker (ip-tracker.ts).  Both keep the   *)
(* request times of each client in a JavaScript Map, whose insertion order *)
(* serves as the order of recent use; the tracker also bans.               *)
(*                                                                         *)
(* A Map is a sequence of entries.  The clock does not go back.  limiter   *)
(* says which of the two classes a behaviour is about.                     *)
(***************************************************************************)
EXTENDS Integers, Sequences, FiniteSets, Selection

CONSTANTS
    Clients,
    Threshold,      \* threshold; maxReqPerMin
    Window,         \* windowMs; one minute
    MaxTracked,     \* maxTrackedClients; maxTrackedIps
    BanTtl,         \* banTtl
    MaxBurst,       \* bound on the requests of a client in the Map
    MaxTrafficTime         \* bound on the clock

(* The constructor of RateLimitMonitor throws otherwise. *)
ASSUME TrafficAssumption ==
    /\ Threshold \in Nat \ {0} /\ Window \in Nat \ {0} /\ MaxTracked \in Nat \ {0}
    /\ BanTtl \in Nat /\ MaxBurst \in Nat /\ MaxTrafficTime \in Nat

VARIABLES
    limiter,           \* "monitor" or "tracker"
    time,
    requests,       \* sequence of [id, times]
    banList,        \* sequence of [id, expiry]
    allowed,        \* history: times of the allowed requests of each client in
                    \* the window, since it was last forgotten
    banned          \* history: when each client's ban ends, -1 for none

trafficVars == <<limiter, time, requests, banList, allowed, banned>>

InWindow(t) == t > time - Window

Ids(map) == {map[i].id : i \in DOMAIN map}
Get(map, c) == map[CHOOSE i \in DOMAIN map : map[i].id = c]
Without(map, c) == Kept(map, {i \in DOMAIN map : map[i].id # c})
TimesOf(map, c) == IF c \in Ids(map) THEN Get(map, c).times ELSE <<>>

(* What a sweep leaves of map: it deletes from the front up to the first   *)
(* live entry; live has the positions of the live ones.                    *)
Swept(map, live) == Kept(map, {i \in DOMAIN map : \E j \in live : j <= i})

StaleEntry(e) == ~InWindow(e.times[Len(e.times)])

\* Slip: a ban ends at its expiry, one tick early.
BanOverEarly(e) == time >= e.expiry

BanOver(e) == time > e.expiry

SweptRequests == Swept(requests, {i \in DOMAIN requests : ~StaleEntry(requests[i])})

SweptBans == Swept(banList, {i \in DOMAIN banList : ~BanOver(banList[i])})

(* enforceCaps(): the oldest entries go. *)
Capped(map) == Kept(map, {i \in DOMAIN map : Len(map) - i < MaxTracked})

TrafficInit ==
    /\ limiter \in {"monitor", "tracker"}
    /\ time = 0
    /\ requests = <<>> /\ banList = <<>>
    /\ allowed = [c \in Clients |-> <<>>]
    /\ banned = [c \in Clients |-> -1]

-----------------------------------------------------------------------------
(* The clients that the step evicts start anew in the histories. *)
Forget(map, old) == Ids(old) \ Ids(map)

\* Slip: the times kept are those of the window before the sweep's.
KeptTimesHalfOpen(times) == Kept(times, {i \in DOMAIN times : times[i] > time - Window + 1})

KeptTimes(times) == Kept(times, {i \in DOMAIN times : InWindow(times[i])})

(* The common part of record() and recordRequest(): sweep, filter, push,   *)
(* move to the back, cap.                                                  *)
Touched(c) ==
    LET swept == SweptRequests
        times == Append(KeptTimes(TimesOf(swept, c)), time)
    IN  [times |-> times, all |-> Append(Without(swept, c), [id |-> c, times |-> times]),
         map |-> Capped(Append(Without(swept, c), [id |-> c, times |-> times]))]

(* RateLimitMonitor.record(): a request above the limit is counted too.    *)
Record(c) ==
    LET t == Touched(c)
    IN  /\ limiter = "monitor"
        /\ Len(TimesOf(requests, c)) < MaxBurst
        /\ requests' = t.map
        /\ allowed' = [d \in Clients |->
              IF d \in Forget(t.map, t.all) THEN <<>>
              ELSE IF d = c /\ Len(t.times) <= Threshold THEN Append(allowed[c], time)
              ELSE allowed[d]]
        /\ UNCHANGED <<limiter, time, banList, banned>>

(* IPTracker.recordRequest(): refused while banned, and banned above the   *)
(* limit.                                                                  *)
RecordRequest(c) ==
    LET bans == SweptBans
        t == Touched(c)
        over == Len(t.times) > Threshold
        added == Append(Without(bans, c), [id |-> c, expiry |-> time + BanTtl])
    IN  /\ limiter = "tracker"
        /\ IF c \in Ids(bans) /\ ~BanOver(Get(bans, c))
              THEN /\ requests' = SweptRequests
                   /\ banList' = bans
                   /\ UNCHANGED <<allowed, banned>>
              ELSE /\ Len(TimesOf(requests, c)) < MaxBurst
                   /\ requests' = t.map
                   /\ banList' = IF over THEN Capped(added) ELSE Capped(Without(bans, c))
                   /\ allowed' = [d \in Clients |->
                         IF d \in Forget(t.map, t.all) THEN <<>>
                         ELSE IF d = c /\ ~over THEN Append(allowed[c], time)
                         ELSE allowed[d]]
                   /\ banned' = [d \in Clients |->
                         IF over /\ d \in Forget(Capped(added), added) THEN -1
                         ELSE IF over /\ d = c THEN time + BanTtl
                         ELSE banned[d]]
        /\ UNCHANGED <<limiter, time>>

(* getRequestCount() of the monitor drops what is outside the window, the  *)
(* tracker's keeps it; both move the client to the back of the Map.        *)
GetRequestCount(c) ==
    LET swept == SweptRequests
        kept == KeptTimes(TimesOf(swept, c))
        times == IF limiter = "monitor" THEN kept ELSE TimesOf(swept, c)
    IN  /\ requests' = IF times = <<>> THEN Without(swept, c)
                       ELSE Append(Without(swept, c), [id |-> c, times |-> times])
        /\ banList' = IF limiter = "monitor" THEN banList ELSE SweptBans
        /\ UNCHANGED <<limiter, time, allowed, banned>>

(* isBanned() *)
IsBanned(c) ==
    LET bans == SweptBans
    IN  /\ limiter = "tracker"
        /\ requests' = SweptRequests
        /\ banList' = IF c \in Ids(bans) /\ BanOver(Get(bans, c)) THEN Without(bans, c) ELSE bans
        /\ UNCHANGED <<limiter, time, allowed, banned>>

(* unban() *)
Unban(c) ==
    /\ limiter = "tracker"
    /\ banList' = Without(banList, c)
    /\ requests' = Without(requests, c)
    /\ allowed' = [allowed EXCEPT ![c] = <<>>]
    /\ banned' = [banned EXCEPT ![c] = -1]
    /\ UNCHANGED <<limiter, time>>

(* Time passes; the history lets go of what left the window. *)
TimePasses ==
    /\ time < MaxTrafficTime
    /\ time' = time + 1
    /\ allowed' = [c \in Clients |->
          Kept(allowed[c], {i \in DOMAIN allowed[c] : allowed[c][i] > time' - Window})]
    /\ UNCHANGED <<limiter, requests, banList, banned>>

TrafficNext ==
    \/ \E c \in Clients : Record(c)
    \/ \E c \in Clients : RecordRequest(c)
    \/ \E c \in Clients : GetRequestCount(c)
    \/ \E c \in Clients : IsBanned(c)
    \/ \E c \in Clients : Unban(c)
    \/ TimePasses

TrafficSpec == TrafficInit /\ [][TrafficNext]_trafficVars

-----------------------------------------------------------------------------
(* In every window a client is allowed at most Threshold requests, unless  *)
(* it was evicted or unbanned meanwhile: queries, sweeps and the requests  *)
(* of others never make record() or recordRequest() undercount.  The Map   *)
(* keeps to its cap.                                                       *)
AllowedBounded ==
    /\ \A c \in Clients : Len(allowed[c]) <= Threshold
    /\ Len(requests) <= MaxTracked

(* A ban is not lost before it is over, except by unban() or to the cap,   *)
(* and it does not outlive its term.                                       *)
BansHold ==
    /\ \A c \in Clients : banned[c] >= time => c \in Ids(banList)
    /\ \A i \in DOMAIN banList : banList[i].expiry = banned[banList[i].id]
=============================================================================
