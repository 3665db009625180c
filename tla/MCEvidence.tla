----------------------------- MODULE MCEvidence -----------------------------
(* What is kept of an audit: its anchor on the ledger, and the logs on     *)
(* disk, in the bucket and in the backup.  The two share no state: a       *)
(* behaviour is about one of them.                                         *)
EXTENDS ReportAnchor, ReportStore, TLC

CONSTANTS a, b, c

VARIABLE kept

evidenceVars == <<kept, trailVars, storeVars>>

MCReports == <<"report-1">>

(* The digests of a and b begin with the same digits. *)
MCPrefix(digest) == IF digest \in {a, b} THEN "vero:ab" ELSE "vero:c"

MCSymmetry == Permutations(Anchorers) \union Permutations({a, b})

MCInit ==
    /\ kept \in {"anchors", "logs"}
    /\ TrailInit /\ StoreInit
    /\ kept = "logs" => ledger = <<>> /\ content = [f \in Files |-> c]

MCNext ==
    \/ kept = "anchors" /\ TrailNext /\ UNCHANGED <<kept, storeVars>>
    \/ kept = "logs" /\ StoreNext /\ UNCHANGED <<kept, trailVars>>

MCSpec == MCInit /\ [][MCNext]_evidenceVars
=============================================================================
