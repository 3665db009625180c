----------------------------- MODULE NonceStore -----------------------------
(***************************************************************************)
(* The nonce database of the anomaly detector                              *)
(* (anomaly-detector/src/index.ts): detector processes analyse polled      *)
(* metrics against their own map of last nonces and merge that map into a  *)
(* shared JSON file under a lock directory.                                *)
(*                                                                         *)
(* A poll is analysed and saved synchronously, so only the file operations *)
(* of different processes interleave.  A process may crash between any two *)
(* of them; nothing removes the lock directory of a process that died.     *)
(* The temporary file has a name of its own per write and is not modelled; *)
(* a map from addresses to nonces has Absent where it has no key.          *)
(***************************************************************************)
EXTENDS Integers

CONSTANTS
    Procs,
    Addrs,
    MaxNonce,           \* bound on the nonces
    Batches,            \* the accepted metrics of a poll: the last one per address
    MaxCrashes,         \* bound on the crashes
    NoProc

Absent == -1

Nonces == 0 .. MaxNonce

NonceMaps == [Addrs -> Nonces \cup {Absent}]

ASSUME StoreAssumption ==
    /\ MaxNonce \in Nat /\ MaxCrashes \in Nat
    /\ Batches \subseteq NonceMaps
    /\ NoProc \notin Procs

Empty == [a \in Addrs |-> Absent]

VARIABLES
    renameOverFails,    \* rename() refuses to replace an existing file (Windows)
    disk,       \* the contents of nonce-db.json; Empty when it is missing
    lock,       \* the process that made the lock directory, or NoProc
    procs,      \* procs[p]: the state of a process
    crashes,    \* number of crashes
    acked,      \* history: for each address, the highest nonce a save returned
    own         \* history: own[p]: the same for p since it started, and whether
                \* all its saves succeeded

vars == <<renameOverFails, disk, lock, procs, crashes, acked, own>>

Max2(m, n) == IF m >= n THEN m ELSE n

Idle(p) == procs[p].pc = "idle"

-----------------------------------------------------------------------------
NoOwn == [saved |-> Empty, clean |-> TRUE]

Init ==
    /\ renameOverFails \in BOOLEAN
    /\ disk = Empty
    /\ lock = NoProc
    /\ procs = [p \in Procs |-> [pc |-> "down", local |-> Empty, merged |-> Empty]]
    /\ crashes = 0
    /\ acked = Empty
    /\ own = [p \in Procs |-> NoOwn]

(* The module is loaded: the file is read without the lock. *)
Start(p) ==
    /\ procs[p].pc = "down"
    /\ procs' = [procs EXCEPT ![p] = [procs[p] EXCEPT !.pc = "idle", !.local = disk]]
    /\ own' = [own EXCEPT ![p] = NoOwn]
    /\ UNCHANGED <<renameOverFails, disk, lock, crashes, acked>>

(* analyze(): every metric overwrites the local nonce, then saveNonces()   *)
(* waits for the lock.                                                     *)
Analyze(p, b) ==
    /\ Idle(p)
    /\ procs' = [procs EXCEPT ![p] =
          [procs[p] EXCEPT !.pc = "locking",
              !.local = [a \in Addrs |-> IF b[a] = Absent THEN procs[p].local[a] ELSE b[a]]]]
    /\ UNCHANGED <<renameOverFails, disk, lock, crashes, acked, own>>

\* Slip: an existing lock directory is taken for one's own.
AcquireNonceDbLockShared(p) ==
    /\ procs[p].pc = "locking"
    /\ lock' = p
    /\ procs' = [procs EXCEPT ![p] = [procs[p] EXCEPT !.pc = "locked"]]
    /\ UNCHANGED <<disk, crashes, acked, own>>

AcquireNonceDbLock(p) ==
    /\ procs[p].pc = "locking"
    /\ lock = NoProc
    /\ lock' = p
    /\ procs' = [procs EXCEPT ![p] = [procs[p] EXCEPT !.pc = "locked"]]
    /\ UNCHANGED <<disk, crashes, acked, own>>

\* Slip: mkdir is retried without a deadline.
LockTimesOutNever(p) == procs[p].pc = "locking" /\ lock # NoProc /\ UNCHANGED vars

(* acquireNonceDbLock() throws, at the deadline or because mkdir failed for *)
(* another reason than EEXIST, and with it saveNonces() and analyze(): the  *)
(* local map keeps what the poll brought.                                   *)
LockTimesOut(p) ==
    /\ procs[p].pc = "locking"
    /\ procs' = [procs EXCEPT ![p] = [procs[p] EXCEPT !.pc = "idle"]]
    /\ own' = [own EXCEPT ![p] = [own[p] EXCEPT !.clean = FALSE]]
    /\ UNCHANGED <<disk, lock, crashes, acked>>

\* Slip: the local nonce wins over the one on disk.
MergedLocalWins(p) ==
    [a \in Addrs |-> IF procs[p].local[a] = Absent THEN disk[a] ELSE procs[p].local[a]]

Merged(p) ==
    [a \in Addrs |-> IF procs[p].local[a] = Absent THEN disk[a]
                     ELSE Max2(disk[a], procs[p].local[a])]

(* persistNonceMap(): the file is read and merged. *)
ReadAndMerge(p) ==
    /\ procs[p].pc = "locked"
    /\ procs' = [procs EXCEPT ![p] =
          [procs[p] EXCEPT !.pc = "merged", !.merged = Merged(p)]]
    /\ UNCHANGED <<disk, lock, crashes, acked, own>>

(* atomicWriteJson(): the temporary file replaces the database at once ... *)
Rename(p) ==
    /\ procs[p].pc = "merged"
    /\ ~renameOverFails \/ disk = Empty
    /\ disk' = procs[p].merged
    /\ procs' = [procs EXCEPT ![p] = [procs[p] EXCEPT !.pc = "written"]]
    /\ UNCHANGED <<lock, crashes, acked, own>>

(* ... or the database is unlinked first and the rename repeated ... *)
Unlink(p) ==
    /\ procs[p].pc = "merged"
    /\ renameOverFails /\ disk # Empty
    /\ disk' = Empty
    /\ UNCHANGED <<lock, procs, crashes, acked, own>>

(* ... or writing the temporary file throws. *)
WriteFails(p) ==
    /\ procs[p].pc = "merged"
    /\ procs' = [procs EXCEPT ![p] = [procs[p] EXCEPT !.pc = "failed"]]
    /\ UNCHANGED <<disk, lock, crashes, acked, own>>

(* saveNonces() copies the merged map back and analyze() returns. *)
ReturnSaved(p) ==
    /\ procs' = [procs EXCEPT ![p] =
          [procs[p] EXCEPT !.pc = "idle", !.local = procs[p].merged]]
    /\ acked' = [a \in Addrs |-> Max2(acked[a], procs[p].merged[a])]
    /\ own' = [own EXCEPT ![p] = [own[p] EXCEPT
                  !.saved = [a \in Addrs |-> Max2(own[p].saved[a], procs[p].merged[a])]]]

(* releaseNonceDbLock() in the finally block; a failing rmdir is ignored. *)
ReleaseNonceDbLock(p) ==
    /\ lock' \in {NoProc, lock}
    /\ \/ /\ procs[p].pc = "written"
          /\ ReturnSaved(p)
       \/ /\ procs[p].pc = "failed"
          /\ procs' = [procs EXCEPT ![p] = [procs[p] EXCEPT !.pc = "idle"]]
          /\ own' = [own EXCEPT ![p] = [own[p] EXCEPT !.clean = FALSE]]
          /\ UNCHANGED acked
    /\ UNCHANGED <<disk, crashes>>

(* The process dies; a lock directory it made stays. *)
Crash(p) ==
    /\ crashes < MaxCrashes
    /\ procs[p].pc # "down"
    /\ crashes' = crashes + 1
    /\ procs' = [procs EXCEPT ![p] = [procs[p] EXCEPT !.pc = "down"]]
    /\ UNCHANGED <<renameOverFails, disk, lock, acked, own>>

Save(p) ==
    /\ \/ AcquireNonceDbLock(p) \/ LockTimesOut(p) \/ ReadAndMerge(p)
       \/ Rename(p) \/ Unlink(p) \/ WriteFails(p) \/ ReleaseNonceDbLock(p)
    /\ UNCHANGED renameOverFails

Next ==
    \E p \in Procs :
        Start(p) \/ (\E b \in Batches : Analyze(p, b)) \/ Save(p) \/ Crash(p)

SafetySpec == Init /\ [][Next]_vars

(* A process in the middle of saveNonces() runs on. *)
Spec == SafetySpec /\ \A p \in Procs : WF_vars(Save(p))

-----------------------------------------------------------------------------
ProcStates ==
    [pc : {"down", "idle", "locking", "locked", "merged", "written", "failed"},
     local : NonceMaps, merged : NonceMaps]

TypeOK ==
    /\ disk \in NonceMaps
    /\ lock \in Procs \cup {NoProc}
    /\ procs \in [Procs -> ProcStates]
    /\ crashes \in 0 .. MaxCrashes
    /\ acked \in NonceMaps
    /\ own \in [Procs -> [saved : NonceMaps, clean : BOOLEAN]]

(* p is about to rename over the database, and what it will bring there is *)
(* no less than what is there.                                             *)
Replacing(p) ==
    lock = p /\ procs[p].pc = "merged" /\ \A a \in Addrs : procs[p].merged[a] >= disk[a]

(* "concurrent writers cannot clobber each other": whatever the processes  *)
(* save, and wherever they crash, the nonce on disk never goes back.  Only *)
(* where rename does not replace files may it be missing, taken away by    *)
(* the one process that holds the lock and has all of it in its temporary  *)
(* file, and for good only if that process dies or fails there.            *)
DiskMonotone ==
    [][\/ \A a \in Addrs : disk'[a] >= disk[a]
       \/ renameOverFails /\ disk' = Empty /\ \E p \in Procs : Replacing(p) /\ Replacing(p)']_vars

AckedOnDisk == \A a \in Addrs : disk[a] >= acked[a]

(* What a save returned is on disk from then on, where rename replaces     *)
(* files.                                                                  *)
AckedSurvives == ~renameOverFails => AckedOnDisk

(* A process all of whose saves succeeded compares the next poll with      *)
(* nonces no lower than those it has saved, though a reused nonce had      *)
(* overwritten its local one: a second reuse is noticed as well.           *)
LocalCoversOwn ==
    \A p \in Procs :
        Idle(p) /\ own[p].clean => \A a \in Addrs : procs[p].local[a] >= own[p].saved[a]

(* saveNonces() returns or throws: the lock of another process, dead or    *)
(* alive, cannot hang the detector.                                        *)
EverySaveEnds ==
    \A p \in Procs : (procs[p].pc = "locking") ~> (procs[p].pc \in {"idle", "down"})
=============================================================================
