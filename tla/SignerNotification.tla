------------------------- MODULE SignerNotification -------------------------
(***************************************************************************)
(* From an anomaly to a human: notifySigners() posts to every signer's     *)
(* endpoint (multisig-webhook-notifier.ts) and, when one of them fails,    *)
(* pages the on-call roster (oncall-roster.ts), which the incident         *)
(* response functions (irps.ts) page directly.                             *)
(*                                                                         *)
(* The notifier and irps.ts each make a roster of their own when they      *)
(* first need one, and keep it; both write the rotation to one file.  A    *)
(* call waits for each delivery and each page, and other calls and         *)
(* rotations come in between.                                              *)
(***************************************************************************)
EXTENDS Integers, Sequences, FiniteSets

CONSTANTS
    Endpoints,
    NotifyCalls,                \* calls of notifySigners()
    IncidentCalls,              \* calls of escalateIncident(), triggerCircuitBreaker()
    NumPrimaries, NumSecondaries, NumManagers,      \* contacts by role
    MaxDays,                    \* bound on the rotation periods that pass
    MaxRotations                \* bound on the calls of rotate()

Calls == NotifyCalls \union IncidentCalls
Rosters == {"notifier", "irps"}

ASSUME RosterAssumption ==
    /\ NotifyCalls \intersect IncidentCalls = {}
    /\ NumPrimaries \in Nat /\ NumSecondaries \in Nat /\ NumManagers \in Nat
    /\ MaxDays \in Nat /\ MaxRotations \in Nat

VARIABLES
    today,          \* rotation periods since the start
    file,           \* the state file: [index, day], NoFile or Torn
    roster,         \* each roster's state, NoRoster before it is made
    throwOnAnyFailure,
    call,           \* where each call is, and how it ended
    onCall,         \* the contacts each call that pages has looked up
    outcome,        \* what became of each call's post to each endpoint
    pages,          \* the contacts each call has paged, with the rotation
    rosterLogged,   \* calls that logged that paging failed
    rotations

signerVars ==
    <<today, file, roster, throwOnAnyFailure, call, onCall, outcome, pages, rosterLogged, rotations>>

NoFile == [index |-> -1, day |-> 0]
Torn == [index |-> -2, day |-> 0]
NoRoster == [index |-> -1, day |-> 0]

SignerInit ==
    /\ today = 0
    /\ file \in {NoFile, [index |-> 0, day |-> 0]}
    /\ roster = [r \in Rosters |-> NoRoster]
    /\ throwOnAnyFailure \in BOOLEAN
    /\ call = [c \in Calls |-> "idle"]
    /\ onCall = [c \in Calls |-> <<>>]
    /\ outcome = [c \in NotifyCalls |-> [e \in Endpoints |-> "none"]]
    /\ pages = [c \in Calls |-> <<>>]
    /\ rosterLogged = {}
    /\ rotations = 0

-----------------------------------------------------------------------------
(* The roster of OnCallRoster.                                             *)

(* loadState() and autoRotate(), in the constructor. *)
LoadState == IF file \in {NoFile, Torn} THEN [index |-> 0, day |-> today] ELSE file

AutoRotated(s) ==
    IF today > s.day
    THEN [index |-> IF NumPrimaries > 0 THEN (s.index + today - s.day) % NumPrimaries ELSE s.index,
          day |-> today]
    ELSE s

(* saveState() overwrites the file in place and swallows its errors: the   *)
(* old content, the new one, or a torn file.                               *)
SavedState(s) == {s, file, Torn}

RosterOf(c) == IF c \in NotifyCalls THEN "notifier" ELSE "irps"

Nth(n, index) == IF n > 0 THEN index % n ELSE -1

(* getCurrentOnCall(): -1 stands for the contact "N/A". *)
OnCall(index) ==
    << [role |-> "PRIMARY", who |-> Nth(NumPrimaries, index), rotation |-> index],
       [role |-> "SECONDARY", who |-> Nth(NumSecondaries, index), rotation |-> index],
       [role |-> "MANAGER", who |-> Nth(NumManagers, index), rotation |-> index] >>

(* getRoster() and getCurrentOnCall() of a call that begins to page.       *)
BeginPaging(c) ==
    LET r == RosterOf(c)
        loaded == AutoRotated(LoadState)
        state == IF roster[r] = NoRoster THEN loaded ELSE roster[r]
    IN  /\ roster' = [roster EXCEPT ![r] = state]
        /\ IF roster[r] = NoRoster /\ loaded # LoadState
              THEN file' \in SavedState(loaded) ELSE file' = file
        /\ call' = [call EXCEPT ![c] = "paging"]
        /\ onCall' = [onCall EXCEPT ![c] = OnCall(state.index)]

(* rotate() of a roster that exists. *)
Rotate(r) ==
    LET s == [index |-> IF NumPrimaries > 0 THEN (roster[r].index + 1) % NumPrimaries ELSE roster[r].index,
              day |-> today]
    IN  /\ roster[r] # NoRoster /\ rotations < MaxRotations
        /\ roster' = [roster EXCEPT ![r] = s]
        /\ file' \in SavedState(s)
        /\ rotations' = rotations + 1
        /\ UNCHANGED <<today, throwOnAnyFailure, call, outcome, pages, rosterLogged, onCall>>

(* resetRoster() of irps.ts *)
ResetRoster ==
    /\ roster["irps"] # NoRoster
    /\ roster' = [roster EXCEPT !["irps"] = NoRoster]
    /\ UNCHANGED <<today, file, throwOnAnyFailure, call, outcome, pages, rosterLogged, rotations, onCall>>

DayPasses ==
    /\ today < MaxDays
    /\ today' = today + 1
    /\ UNCHANGED <<file, roster, throwOnAnyFailure, call, outcome, pages, rosterLogged, rotations, onCall>>

-----------------------------------------------------------------------------
(* notifySigners() of an input that validateInput() refuses, or without a  *)
(* secret or an endpoint: it throws before any request.                    *)
Refuse(c) ==
    /\ call[c] = "idle"
    /\ call' = [call EXCEPT ![c] = "refused"]
    /\ UNCHANGED <<today, file, roster, throwOnAnyFailure, outcome, pages, rosterLogged, rotations, onCall>>

(* notifySigners() posts to all endpoints at once. *)
Notify(c) ==
    /\ call[c] = "idle"
    /\ Endpoints # {}
    /\ call' = [call EXCEPT ![c] = "posting"]
    /\ outcome' = [outcome EXCEPT ![c] = [e \in Endpoints |-> "pending"]]
    /\ UNCHANGED <<today, file, roster, throwOnAnyFailure, pages, rosterLogged, rotations, onCall>>

(* deliverToEndpoint() settles; it never throws. *)
EndpointSettles(c, e, result) ==
    /\ outcome[c][e] = "pending"
    /\ outcome' = [outcome EXCEPT ![c][e] = result]
    /\ UNCHANGED <<today, file, roster, throwOnAnyFailure, call, pages, rosterLogged, rotations, onCall>>

(* A 2xx status, or anything else: another status, a timeout, a network    *)
(* error.                                                                  *)
Results == {"delivered", "failed"}
Failures(c) == {e \in Endpoints : outcome[c][e] = "failed"}

\* Slip: goes on when all have delivered, as if a failure threw.
AllAnsweredWell(c) == \A e \in Endpoints : outcome[c][e] = "delivered"

(* Promise.all(deliveryPromises) *)
AllAnswered(c) == \A e \in Endpoints : outcome[c][e] # "pending"

MustPage(c) == Failures(c) # {}

(* The answers are in: return, or page for the failures. *)
Evaluate(c) ==
    /\ call[c] = "posting"
    /\ AllAnswered(c)
    /\ \/ /\ ~MustPage(c)
          /\ call' = [call EXCEPT ![c] = "returned"]
          /\ UNCHANGED <<roster, file, onCall>>
       \/ MustPage(c) /\ BeginPaging(c)
    /\ UNCHANGED <<today, throwOnAnyFailure, outcome, pages, rosterLogged, rotations>>

(* escalateIncident() and triggerCircuitBreaker() page at once. *)
Escalate(c) ==
    /\ call[c] = "idle"
    /\ BeginPaging(c)
    /\ UNCHANGED <<today, throwOnAnyFailure, outcome, pages, rosterLogged, rotations>>

-----------------------------------------------------------------------------
\* Slip: whom to page is looked up again for every page.
NextContactNow(c) == OnCall(roster[RosterOf(c)].index)[Len(pages[c]) + 1]

(* pageCurrentOnCall() pages the contacts it looked up when it began. *)
NextContact(c) == onCall[c][Len(pages[c]) + 1]

(* deliverPage(): the page is logged; then it goes to the webhook, if      *)
(* there is one, whose errors are swallowed.                               *)
DeliverPage(c) ==
    /\ call[c] = "paging"
    /\ Len(pages[c]) < 3
    /\ pages' = [pages EXCEPT ![c] = Append(@, NextContact(c))]
    /\ UNCHANGED <<today, file, roster, throwOnAnyFailure, call, outcome, rosterLogged, rotations, onCall>>

(* What a notification that paged, or tried to, ends with. *)
Ending(c) == IF c \in NotifyCalls /\ ~throwOnAnyFailure THEN "returned" ELSE "threw"

(* The page log cannot be written: the contacts that are left are not      *)
(* paged.  notifySigners() logs it; the functions of irps.ts throw.        *)
PageFails(c) ==
    /\ call[c] = "paging"
    /\ Len(pages[c]) < 3
    /\ call' = [call EXCEPT ![c] = Ending(c)]
    /\ rosterLogged' = IF c \in NotifyCalls THEN rosterLogged \union {c} ELSE rosterLogged
    /\ UNCHANGED <<today, file, roster, throwOnAnyFailure, outcome, pages, rotations, onCall>>

(* All have been paged. *)
PagingEnds(c) ==
    /\ call[c] = "paging"
    /\ Len(pages[c]) = 3
    /\ call' = [call EXCEPT ![c] = IF c \in NotifyCalls THEN Ending(c) ELSE "returned"]
    /\ UNCHANGED <<today, file, roster, throwOnAnyFailure, outcome, pages, rosterLogged, rotations, onCall>>

SignerProgress ==
    \/ \E c \in NotifyCalls, e \in Endpoints, result \in Results : EndpointSettles(c, e, result)
    \/ \E c \in NotifyCalls : Evaluate(c)
    \/ \E c \in Calls : DeliverPage(c)
    \/ \E c \in Calls : PageFails(c)
    \/ \E c \in Calls : PagingEnds(c)

SignerNext ==
    \/ \E r \in Rosters : Rotate(r)
    \/ ResetRoster
    \/ DayPasses
    \/ \E c \in NotifyCalls : Refuse(c)
    \/ \E c \in NotifyCalls : Notify(c)
    \/ \E c \in IncidentCalls : Escalate(c)
    \/ SignerProgress

(* Every request has a timeout or fails by itself, and file operations end. *)
SignerSpec == SignerInit /\ [][SignerNext]_signerVars /\ WF_signerVars(SignerProgress)

-----------------------------------------------------------------------------
(* A failed delivery is never silent: a notification that ends after one   *)
(* of its endpoints failed has paged the primary, the secondary and the    *)
(* manager, all of one rotation, or has logged that it could not; and if   *)
(* it pages, something failed.  "a silent failure on this path [...] is    *)
(* impossible", multisig-webhook-notifier.ts:26.                           *)
NoSilentFailure ==
    /\ \A c \in NotifyCalls :
          /\ call[c] \in {"returned", "threw"} /\ Failures(c) # {} =>
                Len(pages[c]) = 3 \/ c \in rosterLogged
          /\ pages[c] # <<>> => Failures(c) # {}
    /\ \A c \in Calls : \A i \in DOMAIN pages[c] :
          pages[c][i] = OnCall(pages[c][1].rotation)[i]

(* Every notification and every escalation ends. *)
EveryCallSettles ==
    \A c \in Calls :
        call[c] # "idle" ~> call[c] \in {"refused", "returned", "threw"}
=============================================================================
