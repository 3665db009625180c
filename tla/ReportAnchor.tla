---------------------------- MODULE ReportAnchor ----------------------------
(***************************************************************************)
(* The verifiable audit trail (verifiable-audit-trail/src/index.ts):       *)
(* auditAndAnchor() writes the hash of each report into a Stellar          *)
(* transaction, verifyReport() compares a report with one transaction.     *)
(* The reports directory is shared with whoever writes reports.            *)
(*                                                                         *)
(* A content stands for its SHA-256 digest, Prefix for the 22 digits of it *)
(* that a legacy memo kept.  The ledger is external: a sequence of         *)
(* transactions, as Horizon serves them, whose position is their hash; the *)
(* trusted account's next sequence number is the number of its             *)
(* transactions, which need not be anchors.                                *)
(***************************************************************************)
EXTENDS Integers, Sequences, FiniteSets

CONSTANTS
    Contents,           \* what a report can hold
    Prefix(_),          \* legacyMemoIdentifierFromSha256Hex()
    Reports,            \* the report files, in the order readdirSync() lists them
    Anchorers, Verifiers,       \* processes that run the command line
    MaxLedger           \* bound on the transactions

ASSUME TrailAssumption == Reports \in Seq(STRING) /\ MaxLedger \in Nat

Files == {Reports[i] : i \in DOMAIN Reports}

VARIABLES
    content,            \* what each report holds
    ledger,             \* the transactions: [source, successful, memoType, memo]
    anchorer,           \* [at, pos, hash, seq] of each process that anchors
    verifier,           \* [at, file, tx, legacy, hash, found] of each that verifies
    exitCode,           \* of every process, -1 while it runs
    verdict,            \* history: what each verifier decided, and from what
    anchored            \* history: the transactions anchorHash() returned, per file

trailVars == <<content, ledger, anchorer, verifier, exitCode, verdict, anchored>>

Trusted == "anchor account"
Tx(source, successful, memoType, memo) ==
    [source |-> source, successful |-> successful, memoType |-> memoType, memo |-> memo]

(* What memo holds without a memo, and if it has another form than that of *)
(* its type: neither 32 bytes in Base64 nor the text of a legacy memo.     *)
Malformed == "malformed"

(* The memos of a transaction of the trusted account: its anchors, those   *)
(* of the legacy form, and whatever its other transactions bear.           *)
TrustedTxs(c) ==
    { Tx(Trusted, TRUE, "hash", c), Tx(Trusted, TRUE, "hash", Malformed),
      Tx(Trusted, TRUE, "text", Prefix(c)), Tx(Trusted, TRUE, "text", Malformed),
      Tx(Trusted, TRUE, "return", c), Tx(Trusted, TRUE, "none", Malformed) }

NoVerdict == [reason |-> "none", hash |-> "none"]

TrailInit ==
    /\ content \in [Files -> Contents]
    /\ \E c \in Contents :
          ledger \in { <<>>, <<Tx("other account", TRUE, "hash", c)>>,
                       <<Tx(Trusted, FALSE, "hash", c)>> }
                    \union {<<tx>> : tx \in TrustedTxs(c)}
    /\ anchorer = [p \in Anchorers |-> [at |-> "idle", pos |-> 1, hash |-> "none", seq |-> 0]]
    /\ verifier = [v \in Verifiers |-> [at |-> "idle", file |-> "none", tx |-> 0,
                                       legacy |-> FALSE, hash |-> "none", found |-> 0]]
    /\ exitCode = [p \in Anchorers \union Verifiers |-> -1]
    /\ verdict = [v \in Verifiers |-> NoVerdict]
    /\ anchored = {}

(* A report is written again. *)
WriteReport(f, c) ==
    /\ content[f] # c
    /\ content' = [content EXCEPT ![f] = c]
    /\ UNCHANGED <<ledger, anchorer, verifier, exitCode, verdict, anchored>>

(* The trusted account is used for something else than an anchor, which    *)
(* takes a sequence number as well.                                        *)
OtherTransaction ==
    /\ Len(ledger) < MaxLedger
    /\ ledger' = Append(ledger, Tx(Trusted, TRUE, "none", Malformed))
    /\ UNCHANGED <<content, anchorer, verifier, exitCode, verdict, anchored>>

-----------------------------------------------------------------------------
(* auditAndAnchor() *)

TrustedCount == Cardinality({i \in DOMAIN ledger : ledger[i].source = Trusted})

(* The next report is hashed.  (Without AUDIT_KEYPAIR_SECRET that is all;  *)
(* such a dry run is left out.)                                            *)
HashNext(p) ==
    /\ exitCode[p] = -1 /\ anchorer[p].at = "idle"
    /\ IF anchorer[p].pos > Len(Reports)
          THEN exitCode' = [exitCode EXCEPT ![p] = 0] /\ UNCHANGED anchorer
          ELSE /\ anchorer' = [anchorer EXCEPT ![p].at = "load", ![p].hash = content[Reports[anchorer[p].pos]]]
               /\ UNCHANGED exitCode
    /\ UNCHANGED <<content, ledger, verifier, verdict, anchored>>

(* loadAccount() answers: the transaction gets the next sequence number. *)
LoadAccount(p) ==
    /\ anchorer[p].at = "load"
    /\ anchorer' = [anchorer EXCEPT ![p].at = "submit", ![p].seq = TrustedCount]
    /\ UNCHANGED <<content, ledger, verifier, exitCode, verdict, anchored>>

(* Memo.hash(hash) *)
MemoOf(p) == anchorer[p].hash

(* submitTransaction(): the network takes the transaction if nobody used   *)
(* its sequence number meanwhile, and the answer comes back, or is lost    *)
(* and the process ends with an error.                                     *)
Submit(p, answered) ==
    /\ anchorer[p].at = "submit"
    /\ anchorer[p].seq = TrustedCount
    /\ Len(ledger) < MaxLedger
    /\ ledger' = Append(ledger, Tx(Trusted, TRUE, "hash", MemoOf(p)))
    /\ IF answered
          THEN /\ anchored' = anchored \union
                     {[tx |-> Len(ledger) + 1, file |-> Reports[anchorer[p].pos], hash |-> anchorer[p].hash]}
               /\ anchorer' = [anchorer EXCEPT ![p].at = "idle", ![p].pos = @ + 1]
               /\ UNCHANGED exitCode
          ELSE /\ anchorer' = [anchorer EXCEPT ![p].at = "ended"]
               /\ exitCode' = [exitCode EXCEPT ![p] = 1]
               /\ UNCHANGED anchored
    /\ UNCHANGED <<content, verifier, verdict>>

(* Any of its steps fails, the reading of the directory or of a report     *)
(* that was removed included: nothing is caught, and the reports that are  *)
(* left are not anchored.                                                  *)
AnchorFails(p) ==
    /\ \/ anchorer[p].at \in {"load", "submit"}
       \/ /\ anchorer[p].at = "idle" /\ exitCode[p] = -1
          /\ anchorer[p].pos = 1 \/ anchorer[p].pos <= Len(Reports)
    /\ anchorer' = [anchorer EXCEPT ![p].at = "ended"]
    /\ exitCode' = [exitCode EXCEPT ![p] = 1]
    /\ UNCHANGED <<content, ledger, verifier, verdict, anchored>>

-----------------------------------------------------------------------------
(* verifyReport(): the report is hashed and the transaction looked up. *)
BeginVerify(v, f, tx, legacy) ==
    /\ exitCode[v] = -1 /\ verifier[v].at = "idle"
    /\ verifier' = [verifier EXCEPT ![v] =
          [at |-> "lookup", file |-> f, tx |-> tx, legacy |-> legacy, hash |-> content[f], found |-> 0]]
    /\ UNCHANGED <<content, ledger, anchorer, exitCode, verdict, anchored>>

(* The arguments are refused, the report cannot be read, before the lookup *)
(* or after it, or the lookup fails or times out: an error, not a verdict. *)
VerifyFails(v) ==
    /\ exitCode[v] = -1
    /\ verifier' = [verifier EXCEPT ![v].at = "ended"]
    /\ exitCode' = [exitCode EXCEPT ![v] = 1]
    /\ UNCHANGED <<content, ledger, anchorer, verdict, anchored>>

(* Horizon finds the transaction, or hands out another one (found), at     *)
(* some moment before the answer arrives.                                  *)
Lookup(v, found) ==
    /\ verifier[v].at = "lookup"
    /\ verifier' = [verifier EXCEPT ![v].at = "answer", ![v].found = found]
    /\ UNCHANGED <<content, ledger, anchorer, exitCode, verdict, anchored>>

\* Slip: the report is not hashed again after the lookup.
LocalHashStale(v) == verifier[v].hash

(* hashFile() after the lookup. *)
LocalHash(v) == content[verifier[v].file]

SourceTrusted(tx) == tx.source = Trusted

(* decodeMemoHash() *)
IsHashMemo(memo) == memo \in Contents

(* LEGACY_MEMO_PATTERN *)
IsLegacyMemo(memo) == memo \in {Prefix(c) : c \in Contents}

\* Slip: only a memo of type text is told from a hash.
MemoReasonLoose(tx, hash, legacy) ==
    CASE tx.memoType # "text" /\ ~IsHashMemo(tx.memo) -> "MEMO_MISSING_OR_INVALID"
      [] tx.memoType # "text" /\ IsHashMemo(tx.memo) ->
            IF tx.memo = hash THEN "verified" ELSE "HASH_MISMATCH"
      [] tx.memoType = "text" /\ ~legacy -> "LEGACY_MEMO_DISABLED"
      [] OTHER -> IF tx.memo = Prefix(hash) THEN "verified (legacy)" ELSE "HASH_MISMATCH"

(* What the memo says of the report. *)
MemoReason(tx, hash, legacy) ==
    CASE tx.memoType = "hash" /\ IsHashMemo(tx.memo) ->
            IF tx.memo = hash THEN "verified" ELSE "HASH_MISMATCH"
      [] tx.memoType = "text" /\ IsLegacyMemo(tx.memo) ->
            IF ~legacy THEN "LEGACY_MEMO_DISABLED"
            ELSE IF tx.memo = Prefix(hash) THEN "verified (legacy)" ELSE "HASH_MISMATCH"
      [] OTHER -> "MEMO_MISSING_OR_INVALID"

(* The checks in their order; the first that fails names the reason. *)
Reason(v) ==
    LET r == verifier[v]
        tx == ledger[r.found]
    IN  IF r.found = 0 THEN "ANCHOR_NOT_FOUND"
        ELSE IF r.hash # LocalHash(v) THEN "REPORT_CHANGED_DURING_VERIFICATION"
        ELSE IF ~tx.successful THEN "TRANSACTION_FAILED"
        ELSE IF r.found # r.tx THEN "TRANSACTION_HASH_MISMATCH"
        ELSE IF ~SourceTrusted(tx) THEN "ANCHOR_ACCOUNT_MISMATCH"
        ELSE MemoReason(tx, LocalHash(v), r.legacy)

IsVerified(reason) == reason \in {"verified", "verified (legacy)"}

(* The verdict: exit code 0, or an integrity incident and exit code 2. *)
Decide(v) ==
    /\ verifier[v].at = "answer"
    /\ verdict' = [verdict EXCEPT ![v] = [reason |-> Reason(v), hash |-> content[verifier[v].file]]]
    /\ exitCode' = [exitCode EXCEPT ![v] = IF IsVerified(Reason(v)) THEN 0 ELSE 2]
    /\ verifier' = [verifier EXCEPT ![v].at = "ended"]
    /\ UNCHANGED <<content, ledger, anchorer, anchored>>

TrailNext ==
    \/ \E f \in Files, c \in Contents : WriteReport(f, c)
    \/ OtherTransaction
    \/ \E p \in Anchorers : HashNext(p)
    \/ \E p \in Anchorers : LoadAccount(p)
    \/ \E p \in Anchorers, answered \in BOOLEAN : Submit(p, answered)
    \/ \E p \in Anchorers : AnchorFails(p)
    \/ \E v \in Verifiers, f \in Files, tx \in 1 .. MaxLedger, legacy \in BOOLEAN :
          BeginVerify(v, f, tx, legacy)
    \/ \E v \in Verifiers : VerifyFails(v)
    \/ \E v \in Verifiers, found \in 0 .. Len(ledger) : Lookup(v, found)
    \/ \E v \in Verifiers : Decide(v)

TrailSpec == TrailInit /\ [][TrailNext]_trailVars

-----------------------------------------------------------------------------
(* A report that was verified held, at that moment, what the trusted       *)
(* account had anchored in the very transaction that was named and that    *)
(* took effect, as a memo of the right type, however the report was        *)
(* rewritten during the lookup and whatever else the account was used for; *)
(* with a legacy memo, only up to the prefix.                              *)
VerifiedIsAnchored ==
    \A v \in Verifiers : IsVerified(verdict[v].reason) =>
        /\ verifier[v].tx <= Len(ledger)
        /\ \/ ledger[verifier[v].tx] = Tx(Trusted, TRUE, "hash", verdict[v].hash)
           \/ /\ ledger[verifier[v].tx] = Tx(Trusted, TRUE, "text", Prefix(verdict[v].hash))
              /\ verdict[v].reason = "verified (legacy)" /\ verifier[v].legacy

(* What anchorHash() reports is on the ledger: the transaction it names    *)
(* bears the hash that auditAndAnchor() computed and logged for the        *)
(* report, and no two reports of all processes share one.                  *)
AnchoredIsOnLedger ==
    /\ \A a \in anchored :
          a.tx <= Len(ledger) /\ ledger[a.tx] = Tx(Trusted, TRUE, "hash", a.hash)
    /\ \A a, b \in anchored : a.tx = b.tx => a = b

(* The trail can be trusted from both ends: what anchoring reports is on   *)
(* the ledger, and what verification accepts was anchored there.           *)
TrailSound == AnchoredIsOnLedger /\ VerifiedIsAnchored
=============================================================================
