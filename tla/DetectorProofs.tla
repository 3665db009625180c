--------------------------- MODULE DetectorProofs ---------------------------
(***************************************************************************)
(* Proofs about the two halves of the anomaly detector.                    *)
(*                                                                         *)
(* NonceStore for any number of processes, addresses, nonces and crashes.  *)
(* On every platform the lock directory admits one writer at a time, and   *)
(* what that one merged is still at least what is on disk when it renames; *)
(* where rename replaces the file (POSIX), nothing saved is lost.          *)
(*                                                                         *)
(* The polling loop of AnomalyDetector, for any number of nodes, feeds and *)
(* overlapping polls: the chain of failovers, when the checker leaves a    *)
(* node and when it does not, and the threat cache.                        *)
(***************************************************************************)
EXTENDS NonceStore, AnomalyDetector, NaturalsInduction, WellFoundedInduction, TLAPS

Writing(p) == procs[p].pc \in {"locked", "merged", "written", "failed"}

OneWriter == \A p \in Procs : Writing(p) => lock = p

Leq(f, g) == \A a \in Addrs : f[a] <= g[a]

MergedIsAbove == \A p \in Procs : procs[p].pc = "merged" => Leq(disk, procs[p].merged)

WrittenIsOnDisk == \A p \in Procs : procs[p].pc = "written" => disk = procs[p].merged

OwnBelowAcked == \A p \in Procs : Leq(own[p].saved, acked)

IInv ==
    /\ TypeOK /\ OneWriter /\ MergedIsAbove /\ WrittenIsOnDisk
    /\ AckedOnDisk /\ OwnBelowAcked /\ LocalCoversOwn

-----------------------------------------------------------------------------
(* Facts about the nonce maps. *)
LEMMA MapValues == ASSUME NEW f \in NonceMaps, NEW a \in Addrs PROVE f[a] \in Int
  BY StoreAssumption DEF NonceMaps, Nonces, Absent

(* The empty database is one. *)
LEMMA EmptyMap == Empty \in NonceMaps
  BY DEF Empty, NonceMaps

(* Every database is above the empty one. *)
LEMMA EmptyIsLeast == ASSUME NEW f \in NonceMaps PROVE Leq(Empty, f)
  BY StoreAssumption DEF Empty, NonceMaps, Nonces, Absent, Leq

(* The order of databases is transitive. *)
LEMMA LeqTransitive ==
    ASSUME NEW f \in NonceMaps, NEW g \in NonceMaps, NEW h \in NonceMaps,
           Leq(f, g), Leq(g, h)
    PROVE  Leq(f, h)
  BY MapValues DEF Leq

(* The merge is above both of its parts, and is the greater of two         *)
(* comparable ones.                                                        *)
LEMMA MaxMap ==
    ASSUME NEW f \in NonceMaps, NEW g \in NonceMaps
    PROVE  LET m == [a \in Addrs |-> Max2(f[a], g[a])]
           IN  /\ m \in NonceMaps /\ Leq(f, m) /\ Leq(g, m)
               /\ Leq(f, g) => m = g
  <1> DEFINE m == [a \in Addrs |-> Max2(f[a], g[a])]
  <1>1. m \in NonceMaps
    BY DEF NonceMaps, Max2
  <1>2. Leq(f, m) /\ Leq(g, m)
    BY MapValues DEF Leq, Max2
  <1>3. ASSUME Leq(f, g) PROVE m = g
    <2>1. \A a \in Addrs : m[a] = g[a]
      BY <1>3, MapValues DEF Leq, Max2
    <2>2. QED
      BY <2>1 DEF NonceMaps
  <1>4. QED
    BY <1>1, <1>2, <1>3

(* What saveNonces() merges is not below what is on disk. *)
LEMMA MergedAbove == ASSUME TypeOK, NEW p \in Procs
                     PROVE  Merged(p) \in NonceMaps /\ Leq(disk, Merged(p))
  <1>1. disk \in NonceMaps /\ procs[p].local \in NonceMaps
    BY DEF TypeOK, ProcStates
  <1>2. Merged(p) \in NonceMaps
    BY <1>1 DEF Merged, NonceMaps, Max2
  <1>3. \A a \in Addrs : disk[a] <= Merged(p)[a]
    BY <1>1, MapValues DEF Merged, Max2
  <1>4. QED
    BY <1>2, <1>3 DEF Leq

(* AckedOnDisk and LocalCoversOwn in terms of Leq. *)
LEMMA AsLeq == ASSUME TypeOK
               PROVE  /\ AckedOnDisk <=> Leq(acked, disk)
                      /\ LocalCoversOwn <=> \A p \in Procs : Idle(p) /\ own[p].clean =>
                                                Leq(own[p].saved, procs[p].local)
  <1>1. /\ acked \in NonceMaps /\ disk \in NonceMaps
        /\ \A p \in Procs : own[p].saved \in NonceMaps /\ procs[p].local \in NonceMaps
    BY DEF TypeOK, ProcStates
  <1>2. AckedOnDisk <=> Leq(acked, disk)
    BY <1>1, MapValues DEF AckedOnDisk, Leq
  <1>3. \A p \in Procs : Leq(own[p].saved, procs[p].local)
                            <=> \A a \in Addrs : procs[p].local[a] >= own[p].saved[a]
    BY <1>1, MapValues DEF Leq
  <1>4. QED
    BY <1>2, <1>3 DEF LocalCoversOwn

-----------------------------------------------------------------------------
(* At first nobody holds the lock. *)
LEMMA InitIInv == Init => IInv
  <1> SUFFICES ASSUME Init PROVE IInv
    OBVIOUS
  <1>1. TypeOK
    BY EmptyMap, StoreAssumption DEF Init, TypeOK, ProcStates, NoOwn
  <1>2. \A p \in Procs : procs[p].pc = "down" /\ own[p].saved = Empty
    BY DEF Init, NoOwn
  <1>3. OneWriter /\ MergedIsAbove /\ WrittenIsOnDisk
    BY <1>2 DEF OneWriter, Writing, MergedIsAbove, WrittenIsOnDisk
  <1>4. AckedOnDisk /\ OwnBelowAcked /\ LocalCoversOwn
    BY <1>1, <1>2, AsLeq, EmptyMap, EmptyIsLeast DEF Init, OwnBelowAcked, Idle
  <1>5. QED
    BY <1>1, <1>3, <1>4 DEF IInv

(* A step of p that only moves p, outside the file and the history. *)
Moves(p, pc) ==
    /\ procs' \in [Procs -> ProcStates]
    /\ \A q \in Procs : q # p => procs'[q] = procs[q]
    /\ procs'[p].pc = pc
    /\ UNCHANGED <<disk, acked>>

(* Such a step keeps the invariant if p ends up outside the critical       *)
(* section with nothing new to compare with.                               *)
LEMMA MovesOut ==
    ASSUME IInv, NEW p \in Procs, NEW pc \in {"locking", "down", "failed"}, Moves(p, pc),
           own' = own, lock' = lock, crashes' \in 0 .. MaxCrashes, pc = "failed" => lock = p
    PROVE  IInv'
  <1>1. TypeOK'
    BY DEF IInv, TypeOK, Moves
  <1>2. OneWriter' /\ MergedIsAbove' /\ WrittenIsOnDisk'
    BY DEF IInv, OneWriter, Writing, MergedIsAbove, WrittenIsOnDisk, Moves
  <1>3. AckedOnDisk' /\ OwnBelowAcked'
    BY DEF IInv, AckedOnDisk, OwnBelowAcked, Moves, Leq
  <1>4. LocalCoversOwn'
    BY DEF IInv, LocalCoversOwn, Idle, Moves
  <1>5. QED
    BY <1>1, <1>2, <1>3, <1>4 DEF IInv

(* A process loads what is on disk. *)
LEMMA StartIInv == ASSUME IInv, NEW p \in Procs, Start(p) PROVE IInv'
  <1>0. TypeOK /\ disk \in NonceMaps
    BY DEF IInv, TypeOK
  <1>1. Moves(p, "idle") /\ procs'[p].local = disk /\ lock' = lock /\ crashes' = crashes
    BY <1>0 DEF TypeOK, ProcStates, Start, Moves
  <1>2. own' \in [Procs -> [saved : NonceMaps, clean : BOOLEAN]]
    BY <1>0, EmptyMap DEF TypeOK, Start, NoOwn
  <1>3. own'[p].saved = Empty /\ \A q \in Procs : q # p => own'[q] = own[q]
    BY <1>0 DEF TypeOK, Start, NoOwn
  <1>4. TypeOK'
    BY <1>0, <1>1, <1>2 DEF TypeOK, Moves
  <1>5. OneWriter' /\ MergedIsAbove' /\ WrittenIsOnDisk'
    BY <1>1 DEF IInv, OneWriter, Writing, MergedIsAbove, WrittenIsOnDisk, Moves
  <1>6. AckedOnDisk' /\ OwnBelowAcked'
    BY <1>0, <1>1, <1>3, EmptyIsLeast
       DEF IInv, TypeOK, AckedOnDisk, OwnBelowAcked, Moves
  <1>7. LocalCoversOwn'
    <2>1. Leq(own'[p].saved, procs'[p].local)
      BY <1>0, <1>1, <1>3, EmptyIsLeast
    <2>2. \A q \in Procs : Idle(q)' /\ own'[q].clean => Leq(own'[q].saved, procs'[q].local)
      BY <1>0, <1>1, <1>3, <2>1, AsLeq DEF IInv, Idle, Moves
    <2>3. QED
      BY <1>4, <2>2, AsLeq DEF LocalCoversOwn, Idle, Leq, TypeOK, ProcStates
  <1>8. QED
    BY <1>4, <1>5, <1>6, <1>7 DEF IInv

(* Analysing changes only what is in memory. *)
LEMMA AnalyzeIInv == ASSUME IInv, NEW p \in Procs, NEW b \in Batches, Analyze(p, b) PROVE IInv'
  <1> DEFINE l == [a \in Addrs |-> IF b[a] = Absent THEN procs[p].local[a] ELSE b[a]]
  <1>1. b \in NonceMaps /\ procs[p].local \in NonceMaps
    BY StoreAssumption DEF IInv, TypeOK, ProcStates
  <1>2. l \in NonceMaps
    BY <1>1 DEF NonceMaps
  <1>3. /\ procs' = [procs EXCEPT ![p] = [procs[p] EXCEPT !.pc = "locking", !.local = l]]
        /\ UNCHANGED <<disk, acked>>
    BY DEF Analyze
  <1> HIDE DEF l
  <1>4. Moves(p, "locking")
    BY <1>2, <1>3 DEF IInv, TypeOK, ProcStates, Moves
  <1>5. QED
    BY <1>4, MovesOut DEF IInv, TypeOK, Analyze

(* A crash leaves disk and lock as they are. *)
LEMMA CrashIInv == ASSUME IInv, NEW p \in Procs, Crash(p) PROVE IInv'
  <1>1. Moves(p, "down")
    BY DEF IInv, TypeOK, ProcStates, Crash, Moves
  <1>2. crashes' \in 0 .. MaxCrashes
    BY StoreAssumption DEF IInv, TypeOK, Crash
  <1>3. QED
    BY <1>1, <1>2, MovesOut DEF Crash

(* A failed write leaves the file as it was. *)
LEMMA WriteFailsIInv == ASSUME IInv, NEW p \in Procs, WriteFails(p) PROVE IInv'
  <1>1. Moves(p, "failed") /\ lock = p
    BY DEF IInv, TypeOK, ProcStates, OneWriter, Writing, WriteFails, Moves
  <1>2. QED
    BY <1>1, MovesOut DEF IInv, TypeOK, WriteFails

(* The lock directory is made only where there is none. *)
LEMMA AcquireIInv == ASSUME IInv, NEW p \in Procs, AcquireNonceDbLock(p) PROVE IInv'
  <1>1. Moves(p, "locked") /\ lock = NoProc /\ lock' = p /\ own' = own /\ crashes' = crashes
    BY DEF IInv, TypeOK, ProcStates, AcquireNonceDbLock, Moves
  <1>2. TypeOK'
    BY <1>1 DEF IInv, TypeOK, Moves
  <1>3. OneWriter' /\ MergedIsAbove' /\ WrittenIsOnDisk'
    BY <1>1, StoreAssumption
       DEF IInv, OneWriter, Writing, MergedIsAbove, WrittenIsOnDisk, Moves
  <1>4. AckedOnDisk' /\ OwnBelowAcked' /\ LocalCoversOwn'
    BY <1>1 DEF IInv, AckedOnDisk, OwnBelowAcked, LocalCoversOwn, Idle, Moves, Leq
  <1>5. QED
    BY <1>2, <1>3, <1>4 DEF IInv

(* A process that waited too long gives up without writing. *)
LEMMA TimesOutIInv == ASSUME IInv, NEW p \in Procs, LockTimesOut(p) PROVE IInv'
  <1>1. Moves(p, "idle") /\ lock' = lock /\ crashes' = crashes
    BY DEF IInv, TypeOK, ProcStates, LockTimesOut, Moves
  <1>2. /\ own' \in [Procs -> [saved : NonceMaps, clean : BOOLEAN]]
        /\ own'[p].saved = own[p].saved /\ own'[p].clean = FALSE
        /\ \A q \in Procs : q # p => own'[q] = own[q]
    BY DEF IInv, TypeOK, LockTimesOut
  <1>3. TypeOK'
    BY <1>1, <1>2 DEF IInv, TypeOK, Moves
  <1>4. OneWriter' /\ MergedIsAbove' /\ WrittenIsOnDisk'
    BY <1>1 DEF IInv, OneWriter, Writing, MergedIsAbove, WrittenIsOnDisk, Moves
  <1>5. AckedOnDisk' /\ OwnBelowAcked'
    BY <1>1, <1>2 DEF IInv, AckedOnDisk, OwnBelowAcked, Moves, Leq
  <1>6. LocalCoversOwn'
    BY <1>1, <1>2 DEF IInv, LocalCoversOwn, Idle, Moves
  <1>7. QED
    BY <1>3, <1>4, <1>5, <1>6 DEF IInv

(* What is read under the lock is what is on disk. *)
LEMMA MergeIInv == ASSUME IInv, NEW p \in Procs, ReadAndMerge(p) PROVE IInv'
  <1>0. Merged(p) \in NonceMaps /\ Leq(disk, Merged(p))
    BY MergedAbove DEF IInv
  <1>1. /\ Moves(p, "merged") /\ procs'[p].merged = Merged(p)
        /\ lock' = lock /\ own' = own /\ crashes' = crashes
    BY <1>0 DEF IInv, TypeOK, ProcStates, ReadAndMerge, Moves
  <1>2. TypeOK'
    BY <1>1 DEF IInv, TypeOK, Moves
  <1>3. OneWriter' /\ MergedIsAbove' /\ WrittenIsOnDisk'
    BY <1>0, <1>1
       DEF IInv, OneWriter, Writing, MergedIsAbove, WrittenIsOnDisk, Moves, ReadAndMerge
  <1>4. AckedOnDisk' /\ OwnBelowAcked' /\ LocalCoversOwn'
    BY <1>1 DEF IInv, AckedOnDisk, OwnBelowAcked, LocalCoversOwn, Idle, Moves, Leq
  <1>5. QED
    BY <1>2, <1>3, <1>4 DEF IInv

(* The writer renames: by OneWriter nobody else is past the lock, and the  *)
(* file only grows.                                                        *)
LEMMA RenameIInv == ASSUME IInv, NEW p \in Procs, Rename(p) PROVE IInv' /\ Leq(disk, disk')
  <1>0. /\ disk \in NonceMaps /\ acked \in NonceMaps /\ procs[p].merged \in NonceMaps
        /\ procs[p].pc = "merged" /\ lock = p
    BY DEF IInv, TypeOK, ProcStates, OneWriter, Writing, Rename
  <1>1. /\ procs' \in [Procs -> ProcStates] /\ \A q \in Procs : q # p => procs'[q] = procs[q]
        /\ procs'[p].pc = "written" /\ procs'[p].merged = procs[p].merged
        /\ disk' = procs[p].merged
        /\ UNCHANGED <<lock, crashes, acked, own>>
    BY DEF IInv, TypeOK, ProcStates, Rename
  <1>2. Leq(disk, disk')
    BY <1>0, <1>1 DEF IInv, MergedIsAbove
  <1>3. TypeOK'
    BY <1>0, <1>1 DEF IInv, TypeOK
  <1>4. \A q \in Procs : q # p => ~Writing(q)
    BY <1>0 DEF IInv, OneWriter
  <1>5. OneWriter' /\ MergedIsAbove' /\ WrittenIsOnDisk'
    BY <1>0, <1>1, <1>4 DEF OneWriter, Writing, MergedIsAbove, WrittenIsOnDisk
  <1>6. AckedOnDisk'
    <2>1. Leq(acked, disk')
      BY <1>0, <1>1, <1>2, AsLeq, LeqTransitive DEF IInv
    <2>2. QED
      BY <1>0, <1>1, <2>1, MapValues DEF AckedOnDisk, Leq
  <1>7. OwnBelowAcked' /\ LocalCoversOwn'
    BY <1>1 DEF IInv, OwnBelowAcked, LocalCoversOwn, Idle, Leq
  <1>8. QED
    BY <1>2, <1>3, <1>5, <1>6, <1>7 DEF IInv

(* The lock is let go; the save is acknowledged only if its copy is on disk. *)
LEMMA ReleaseIInv == ASSUME IInv, NEW p \in Procs, ReleaseNonceDbLock(p) PROVE IInv'
  <1>0. /\ disk' = disk /\ crashes' = crashes /\ lock' \in {NoProc, lock}
        /\ disk \in NonceMaps /\ acked \in NonceMaps
        /\ procs[p].merged \in NonceMaps /\ own[p].saved \in NonceMaps
        /\ Writing(p) /\ lock = p
    BY DEF IInv, TypeOK, ProcStates, OneWriter, Writing, ReleaseNonceDbLock
  <1>1. \A q \in Procs : q # p => ~Writing(q)
    BY <1>0 DEF IInv, OneWriter
  <1>2. CASE /\ procs[p].pc = "failed" /\ acked' = acked
             /\ procs' = [procs EXCEPT ![p] = [procs[p] EXCEPT !.pc = "idle"]]
             /\ own' = [own EXCEPT ![p] = [own[p] EXCEPT !.clean = FALSE]]
    <2>1. Moves(p, "idle")
      BY <1>0, <1>2 DEF IInv, TypeOK, ProcStates, Moves
    <2>2. /\ own' \in [Procs -> [saved : NonceMaps, clean : BOOLEAN]]
          /\ own'[p].saved = own[p].saved /\ own'[p].clean = FALSE
          /\ \A q \in Procs : q # p => own'[q] = own[q]
      BY <1>2 DEF IInv, TypeOK
    <2>3. TypeOK'
      BY <1>0, <2>1, <2>2 DEF IInv, TypeOK, Moves
    <2>4. OneWriter' /\ MergedIsAbove' /\ WrittenIsOnDisk'
      BY <1>1, <2>1 DEF OneWriter, Writing, MergedIsAbove, WrittenIsOnDisk, Moves
    <2>5. AckedOnDisk' /\ OwnBelowAcked' /\ LocalCoversOwn'
      BY <2>1, <2>2
         DEF IInv, AckedOnDisk, OwnBelowAcked, LocalCoversOwn, Idle, Moves, Leq
    <2>6. QED
      BY <2>3, <2>4, <2>5 DEF IInv
  <1>3. CASE procs[p].pc = "written" /\ ReturnSaved(p)
    <2> DEFINE m == procs[p].merged
               mine == [a \in Addrs |-> Max2(own[p].saved[a], m[a])]
    <2>1. m = disk /\ Leq(acked, m)
      BY <1>3, AsLeq DEF IInv, WrittenIsOnDisk
    <2>2. acked' = m
      BY <1>0, <1>3, <2>1, MaxMap DEF ReturnSaved
    <2>3. Leq(own[p].saved, m)
      BY <1>0, <2>1, LeqTransitive DEF IInv, OwnBelowAcked
    <2>4. mine = m
      BY <1>0, <2>3, MaxMap
    <2>5. /\ procs' = [procs EXCEPT ![p] = [procs[p] EXCEPT !.pc = "idle", !.local = m]]
          /\ own' = [own EXCEPT ![p] = [own[p] EXCEPT !.saved = mine]]
      BY <1>3 DEF ReturnSaved
    <2> HIDE DEF m, mine
    <2>6. m \in NonceMaps
      BY <1>0 DEF m
    <2>7. /\ procs' \in [Procs -> ProcStates] /\ \A q \in Procs : q # p => procs'[q] = procs[q]
          /\ procs'[p].pc = "idle" /\ procs'[p].local = m
      BY <2>5, <2>6 DEF IInv, TypeOK, ProcStates
    <2>8. /\ own' \in [Procs -> [saved : NonceMaps, clean : BOOLEAN]]
          /\ own'[p].saved = m /\ \A q \in Procs : q # p => own'[q] = own[q]
      BY <2>4, <2>5, <2>6 DEF IInv, TypeOK
    <2>9. TypeOK'
      BY <1>0, <2>2, <2>6, <2>7, <2>8 DEF IInv, TypeOK
    <2>10. OneWriter' /\ MergedIsAbove' /\ WrittenIsOnDisk'
      BY <1>1, <2>7 DEF OneWriter, Writing, MergedIsAbove, WrittenIsOnDisk
    <2>11. Leq(m, m)
      BY <2>6, MapValues DEF Leq
    <2>12. AckedOnDisk'
      BY <1>0, <2>1, <2>2, <2>6, MapValues DEF AckedOnDisk
    <2>13. OwnBelowAcked'
      <3> SUFFICES ASSUME NEW q \in Procs PROVE Leq(own'[q].saved, acked')
        BY DEF OwnBelowAcked
      <3>1. own[q].saved \in NonceMaps /\ Leq(own[q].saved, acked)
        BY DEF IInv, TypeOK, OwnBelowAcked
      <3>2. Leq(own[q].saved, m)
        BY <1>0, <2>1, <2>6, <3>1, LeqTransitive
      <3>3. QED
        BY <2>2, <2>8, <2>11, <3>2
    <2>14. LocalCoversOwn'
      <3> SUFFICES ASSUME NEW q \in Procs, Idle(q)', own'[q].clean, NEW a \in Addrs
                   PROVE  procs'[q].local[a] >= own'[q].saved[a]
        BY DEF LocalCoversOwn
      <3>1. CASE q = p
        BY <2>6, <2>7, <2>8, <3>1, MapValues
      <3>2. CASE q # p
        BY <2>7, <2>8, <3>2 DEF IInv, LocalCoversOwn, Idle
      <3>3. QED
        BY <3>1, <3>2
    <2>15. QED
      BY <2>9, <2>10, <2>12, <2>13, <2>14 DEF IInv
  <1>4. QED
    BY <1>2, <1>3 DEF ReleaseNonceDbLock

(* Where rename replaces the file, every step keeps the invariant and no   *)
(* step lowers a nonce on disk.                                            *)
LEMMA NextIInv == ~renameOverFails /\ IInv /\ [Next]_vars => IInv' /\ Leq(disk, disk')
  <1> SUFFICES ASSUME ~renameOverFails, IInv, [Next]_vars PROVE IInv' /\ Leq(disk, disk')
    OBVIOUS
  <1>0. Leq(disk, disk)
    BY MapValues DEF IInv, TypeOK, Leq
  <1>1. CASE UNCHANGED vars
    <2>1. UNCHANGED <<renameOverFails, disk, lock, procs, crashes, acked, own>>
      BY <1>1 DEF vars
    <2>2. TypeOK' /\ OneWriter' /\ MergedIsAbove' /\ WrittenIsOnDisk'
      BY <2>1 DEF IInv, TypeOK, OneWriter, Writing, MergedIsAbove, WrittenIsOnDisk, Leq
    <2>3. AckedOnDisk' /\ OwnBelowAcked' /\ LocalCoversOwn'
      BY <2>1 DEF IInv, AckedOnDisk, OwnBelowAcked, LocalCoversOwn, Idle, Leq
    <2>4. QED
      BY <1>0, <2>1, <2>2, <2>3 DEF IInv
  <1>2. ASSUME NEW p \in Procs,
               Start(p) \/ (\E b \in Batches : Analyze(p, b)) \/ Save(p) \/ Crash(p)
        PROVE  IInv' /\ Leq(disk, disk')
    <2>1. CASE Start(p)
      BY <1>0, <2>1, StartIInv DEF Start
    <2>2. CASE \E b \in Batches : Analyze(p, b)
      BY <1>0, <2>2, AnalyzeIInv DEF Analyze
    <2>3. CASE Crash(p)
      BY <1>0, <2>3, CrashIInv DEF Crash
    <2>4. CASE AcquireNonceDbLock(p) \/ LockTimesOut(p)
      BY <1>0, <2>4, AcquireIInv, TimesOutIInv DEF AcquireNonceDbLock, LockTimesOut
    <2>5. CASE ReadAndMerge(p) \/ WriteFails(p)
      BY <1>0, <2>5, MergeIInv, WriteFailsIInv DEF ReadAndMerge, WriteFails
    <2>6. CASE Rename(p)
      BY <2>6, RenameIInv
    <2>7. CASE ReleaseNonceDbLock(p)
      BY <1>0, <2>7, ReleaseIInv DEF ReleaseNonceDbLock
    <2>8. ~Unlink(p)
      BY DEF Unlink
    <2>9. QED
      BY <1>2, <2>1, <2>2, <2>3, <2>4, <2>5, <2>6, <2>7, <2>8 DEF Save
  <1>3. QED
    BY <1>1, <1>2 DEF Next

-----------------------------------------------------------------------------
(* The strengthened invariant holds in every reachable state where rename  *)
(* replaces the file, which never changes.                                 *)
THEOREM Invariance == SafetySpec => [](~renameOverFails => IInv)
  <1> DEFINE Posix == ~renameOverFails => IInv
  <1>1. Init => Posix
    BY InitIInv
  <1>2. Posix /\ [Next]_vars => Posix'
    <2> SUFFICES ASSUME Posix, [Next]_vars, ~renameOverFails' PROVE IInv'
      OBVIOUS
    <2>1. renameOverFails' = renameOverFails
      BY DEF Next, vars, Start, Analyze, Save, Crash
    <2>2. QED
      BY <2>1, NextIInv
  <1>3. QED
    BY <1>1, <1>2, PTL DEF SafetySpec

(* What persistNonceMap() returned is never lost, whatever crashes. *)
THEOREM SavedForGood == SafetySpec => []AckedSurvives
  <1>1. (~renameOverFails => IInv) => AckedSurvives
    BY DEF IInv, AckedSurvives
  <1>2. QED
    BY <1>1, Invariance, PTL

(* A detector whose saves succeeded never forgets a nonce it saved. *)
THEOREM ReuseStaysVisible == SafetySpec => [](~renameOverFails => LocalCoversOwn)
  <1>1. (~renameOverFails => IInv) => (~renameOverFails => LocalCoversOwn)
    BY DEF IInv
  <1>2. QED
    BY <1>1, Invariance, PTL

-----------------------------------------------------------------------------
(* What holds of the lock also where rename does not replace the file.     *)
SavesExclude ==
    /\ \A p, q \in Procs : Writing(p) /\ Writing(q) => p = q
    /\ WrittenIsOnDisk

SaveInv == TypeOK /\ OneWriter /\ WrittenIsOnDisk

(* A step of p within its save or around it, whatever it writes.           *)
Steps(p) ==
    /\ procs' \in [Procs -> ProcStates]
    /\ \A q \in Procs : q # p => procs'[q] = procs[q]

(* A step that leaves the disk alone. *)
LEMMA StepsOff ==
    ASSUME SaveInv, NEW p \in Procs, Steps(p), disk' = disk, procs'[p].pc # "written"
    PROVE  WrittenIsOnDisk'
  BY DEF SaveInv, WrittenIsOnDisk, Steps

(* A step into, or within, the save of the process that holds the lock. *)
LEMMA StepsInside ==
    ASSUME SaveInv, NEW p \in Procs, Steps(p), lock' = lock,
           Writing(p)' => Writing(p) \/ lock = p
    PROVE  OneWriter'
  BY DEF SaveInv, OneWriter, Writing, Steps

(* Loading, analysing, giving up and dying happen outside the file.        *)
LEMMA OutsideSaveInv ==
    ASSUME SaveInv, NEW p \in Procs,
           Start(p) \/ (\E b \in Batches : Analyze(p, b)) \/ LockTimesOut(p) \/ Crash(p)
    PROVE  SaveInv'
  <1>0. TypeOK /\ \A q \in Procs : procs[q] \in ProcStates
    BY DEF SaveInv, TypeOK
  <1>1. Steps(p) /\ disk' = disk /\ lock' = lock /\ procs'[p].pc \in {"idle", "locking", "down"}
    <2>1. CASE Start(p)
      BY <1>0, <2>1 DEF Start, TypeOK, ProcStates, Steps
    <2>2. ASSUME NEW b \in Batches, Analyze(p, b)
          PROVE  Steps(p) /\ disk' = disk /\ lock' = lock /\ procs'[p].pc = "locking"
      <3> DEFINE l == [a \in Addrs |-> IF b[a] = Absent THEN procs[p].local[a] ELSE b[a]]
      <3>1. b \in NonceMaps /\ procs[p].local \in NonceMaps
        BY <1>0, StoreAssumption DEF ProcStates
      <3>2. l \in NonceMaps
        BY <3>1 DEF NonceMaps
      <3>3. /\ procs' = [procs EXCEPT ![p] = [procs[p] EXCEPT !.pc = "locking", !.local = l]]
            /\ disk' = disk /\ lock' = lock
        BY <2>2 DEF Analyze
      <3> HIDE DEF l
      <3>4. QED
        BY <1>0, <3>2, <3>3 DEF TypeOK, ProcStates, Steps
    <2>3. CASE LockTimesOut(p)
      BY <1>0, <2>3 DEF LockTimesOut, TypeOK, ProcStates, Steps
    <2>4. CASE Crash(p)
      BY <1>0, <2>4 DEF Crash, TypeOK, ProcStates, Steps
    <2>5. QED
      BY <2>1, <2>2, <2>3, <2>4
  <1>2. own' \in [Procs -> [saved : NonceMaps, clean : BOOLEAN]]
    <2>1. \/ own' = own
          \/ own' = [own EXCEPT ![p] = NoOwn]
          \/ own' = [own EXCEPT ![p] = [own[p] EXCEPT !.clean = FALSE]]
      BY DEF Start, Analyze, LockTimesOut, Crash
    <2>2. NoOwn \in [saved : NonceMaps, clean : BOOLEAN]
      BY EmptyMap DEF NoOwn
    <2>3. [own[p] EXCEPT !.clean = FALSE] \in [saved : NonceMaps, clean : BOOLEAN]
      BY <1>0 DEF TypeOK
    <2>4. QED
      BY <1>0, <2>1, <2>2, <2>3 DEF TypeOK
  <1>3. crashes' \in 0 .. MaxCrashes /\ acked' = acked
    <2>1. CASE Crash(p)
      BY <1>0, <2>1, StoreAssumption DEF TypeOK, Crash
    <2>2. CASE Start(p)
      BY <1>0, <2>2 DEF TypeOK, Start
    <2>3. CASE LockTimesOut(p)
      BY <1>0, <2>3 DEF TypeOK, LockTimesOut
    <2>4. ASSUME NEW b \in Batches, Analyze(p, b)
          PROVE  crashes' \in 0 .. MaxCrashes /\ acked' = acked
      BY <1>0, <2>4 DEF TypeOK, Analyze
    <2>5. QED
      BY <2>1, <2>2, <2>3, <2>4
  <1>4. TypeOK'
    BY <1>0, <1>1, <1>2, <1>3 DEF TypeOK, Steps
  <1>5. QED
    BY <1>1, <1>4, StepsOff, StepsInside DEF SaveInv, Writing

(* The steps of a save under the lock, up to the write: on the platform    *)
(* where the database is unlinked first, too.                              *)
LEMMA WritingSaveInv ==
    ASSUME SaveInv, NEW p \in Procs,
           ReadAndMerge(p) \/ Rename(p) \/ Unlink(p) \/ WriteFails(p)
    PROVE  SaveInv'
  <1>0. TypeOK /\ Writing(p) /\ lock = p /\ disk \in NonceMaps /\ procs[p].merged \in NonceMaps
    BY DEF SaveInv, TypeOK, OneWriter, Writing, ProcStates, ReadAndMerge, Rename, Unlink, WriteFails
  <1>1. UNCHANGED <<lock, crashes, acked, own>>
    BY DEF ReadAndMerge, Rename, Unlink, WriteFails
  <1>2. \A q \in Procs : q # p => ~Writing(q)
    BY <1>0 DEF SaveInv, OneWriter
  <1>3. Merged(p) \in NonceMaps
    <2>1. procs[p].local \in NonceMaps
      BY <1>0 DEF TypeOK, ProcStates
    <2>2. \A a \in Addrs : disk[a] \in Nonces \cup {Absent} /\ procs[p].local[a] \in Nonces \cup {Absent}
      BY <1>0, <2>1 DEF NonceMaps
    <2>3. QED
      BY <2>2 DEF Merged, NonceMaps, Max2
  <1>4. /\ Steps(p) /\ disk' \in NonceMaps
        /\ procs'[p].pc = "written" => disk' = procs'[p].merged
    <2>1. CASE ReadAndMerge(p)
      BY <1>0, <1>3, <2>1 DEF ReadAndMerge, TypeOK, ProcStates, Steps
    <2>2. CASE Rename(p)
      BY <1>0, <2>2 DEF Rename, TypeOK, ProcStates, Steps
    <2>3. CASE Unlink(p)
      BY <1>0, <2>3, EmptyMap DEF Unlink, TypeOK, ProcStates, Steps
    <2>4. CASE WriteFails(p)
      BY <1>0, <2>4 DEF WriteFails, TypeOK, ProcStates, Steps
    <2>5. QED
      BY <2>1, <2>2, <2>3, <2>4
  <1>5. TypeOK'
    BY <1>0, <1>1, <1>4 DEF TypeOK, Steps
  <1>6. OneWriter'
    BY <1>0, <1>1, <1>4, StepsInside
  <1>7. WrittenIsOnDisk'
    BY <1>2, <1>4 DEF WrittenIsOnDisk, Writing, Steps
  <1>8. QED
    BY <1>5, <1>6, <1>7 DEF SaveInv

(* The lock is made where there is none, and let go by the one it admitted. *)
LEMMA LockSaveInv ==
    ASSUME SaveInv, NEW p \in Procs, AcquireNonceDbLock(p) \/ ReleaseNonceDbLock(p)
    PROVE  SaveInv'
  <1>0. TypeOK /\ disk' = disk /\ crashes' = crashes /\ procs[p] \in ProcStates
    BY DEF SaveInv, TypeOK, AcquireNonceDbLock, ReleaseNonceDbLock
  <1>1. CASE AcquireNonceDbLock(p)
    <2>1. Steps(p) /\ procs'[p].pc = "locked" /\ lock = NoProc /\ lock' = p
          /\ UNCHANGED <<acked, own>>
      BY <1>0, <1>1 DEF AcquireNonceDbLock, TypeOK, ProcStates, Steps
    <2>2. TypeOK'
      BY <1>0, <2>1 DEF TypeOK, Steps
    <2>3. OneWriter'
      BY <2>1, StoreAssumption DEF SaveInv, OneWriter, Writing, Steps
    <2>4. QED
      BY <1>0, <2>1, <2>2, <2>3, StepsOff DEF SaveInv
  <1>2. CASE ReleaseNonceDbLock(p)
    <2>0. Writing(p) /\ lock = p /\ lock' \in {NoProc, lock}
      BY <1>2 DEF SaveInv, OneWriter, Writing, ReleaseNonceDbLock
    <2>1. \A q \in Procs : q # p => ~Writing(q)
      BY <2>0 DEF SaveInv, OneWriter
    <2>2. Steps(p) /\ procs'[p].pc = "idle"
      <3>1. \E l \in NonceMaps :
               procs' = [procs EXCEPT ![p] = [procs[p] EXCEPT !.pc = "idle", !.local = l]]
        <4>1. procs[p].local \in NonceMaps /\ procs[p].merged \in NonceMaps
          BY <1>0 DEF ProcStates
        <4>2. CASE ReturnSaved(p)
          BY <4>1, <4>2 DEF ReturnSaved
        <4>3. CASE procs' = [procs EXCEPT ![p] = [procs[p] EXCEPT !.pc = "idle"]]
          <5>1. [procs[p] EXCEPT !.pc = "idle", !.local = procs[p].local]
                    = [procs[p] EXCEPT !.pc = "idle"]
            BY <1>0 DEF ProcStates
          <5>2. QED
            BY <4>1, <4>3, <5>1
        <4>4. QED
          BY <1>2, <4>2, <4>3 DEF ReleaseNonceDbLock
      <3>2. PICK l \in NonceMaps :
               procs' = [procs EXCEPT ![p] = [procs[p] EXCEPT !.pc = "idle", !.local = l]]
        BY <3>1
      <3>3. /\ [procs[p] EXCEPT !.pc = "idle", !.local = l] \in ProcStates
            /\ [procs[p] EXCEPT !.pc = "idle", !.local = l].pc = "idle"
        BY <1>0 DEF ProcStates
      <3>4. QED
        BY <1>0, <3>2, <3>3 DEF TypeOK, Steps
    <2>3. acked' \in NonceMaps /\ own' \in [Procs -> [saved : NonceMaps, clean : BOOLEAN]]
      <3>1. CASE ReturnSaved(p)
        <4> DEFINE all == [a \in Addrs |-> Max2(acked[a], procs[p].merged[a])]
                   mine == [a \in Addrs |-> Max2(own[p].saved[a], procs[p].merged[a])]
        <4>1. acked \in NonceMaps /\ own[p].saved \in NonceMaps /\ procs[p].merged \in NonceMaps
          BY <1>0 DEF TypeOK, ProcStates
        <4>2. all \in NonceMaps /\ mine \in NonceMaps
          BY <4>1 DEF NonceMaps, Max2
        <4>3. acked' = all /\ own' = [own EXCEPT ![p] = [own[p] EXCEPT !.saved = mine]]
          BY <3>1 DEF ReturnSaved
        <4> HIDE DEF all, mine
        <4>4. QED
          BY <1>0, <4>2, <4>3 DEF TypeOK
      <3>2. CASE acked' = acked /\ own' = [own EXCEPT ![p] = [own[p] EXCEPT !.clean = FALSE]]
        BY <1>0, <3>2 DEF TypeOK
      <3>3. QED
        BY <1>2, <3>1, <3>2 DEF ReleaseNonceDbLock
    <2>4. TypeOK'
      BY <1>0, <2>0, <2>2, <2>3 DEF TypeOK, Steps
    <2>5. OneWriter'
      BY <2>1, <2>2 DEF OneWriter, Writing, Steps
    <2>6. QED
      BY <1>0, <2>2, <2>4, <2>5, StepsOff DEF SaveInv
  <1>3. QED
    BY <1>1, <1>2

(* This much holds on either platform. *)
LEMMA SaveInvariance == SafetySpec => []SaveInv
  <1>1. Init => SaveInv
    BY InitIInv DEF IInv, SaveInv
  <1>2. SaveInv /\ [Next]_vars => SaveInv'
    <2> SUFFICES ASSUME SaveInv, [Next]_vars PROVE SaveInv'
      OBVIOUS
    <2>1. CASE UNCHANGED vars
      BY <2>1 DEF vars, SaveInv, TypeOK, OneWriter, WrittenIsOnDisk, Writing
    <2>2. QED
      BY <2>1, OutsideSaveInv, WritingSaveInv, LockSaveInv DEF Next, Save
  <1>3. QED
    BY <1>1, <1>2, PTL DEF SafetySpec

(* The store stays within its types. *)
THEOREM TypeCorrect == SafetySpec => []TypeOK
  <1>1. SaveInv => TypeOK
    BY DEF SaveInv
  <1>2. QED
    BY <1>1, SaveInvariance, PTL

(* Wherever processes crash and however rename behaves, the lock directory *)
(* admits one of them at a time, and what a save is about to return is     *)
(* what the file then holds.                                               *)
THEOREM OneSaveAtATime == SafetySpec => []SavesExclude
  <1>1. SaveInv => SavesExclude
    BY DEF SaveInv, SavesExclude, OneWriter
  <1>2. QED
    BY <1>1, SaveInvariance, PTL

(* A step outside the merge and the write leaves alone what is merged and  *)
(* what is on disk.                                                        *)
LEMMA LeavesDisk ==
    ASSUME SaveInv, NEW p \in Procs,
           \/ Start(p) \/ (\E b \in Batches : Analyze(p, b)) \/ LockTimesOut(p) \/ Crash(p)
           \/ AcquireNonceDbLock(p) \/ ReleaseNonceDbLock(p) \/ WriteFails(p)
    PROVE  /\ disk' = disk /\ procs'[p].pc # "merged"
           /\ \A q \in Procs : q # p => procs'[q] = procs[q]
  <1>0. procs \in [Procs -> ProcStates]
    BY DEF SaveInv, TypeOK
  <1>1. disk' = disk
    BY DEF Start, Analyze, LockTimesOut, Crash, AcquireNonceDbLock, ReleaseNonceDbLock, WriteFails
  <1>2. \E l \in NonceMaps, pc \in {"down", "idle", "locking", "locked", "failed"} :
            procs' = [procs EXCEPT ![p] = [procs[p] EXCEPT !.pc = pc, !.local = l]]
    <2>1. procs[p] \in ProcStates /\ procs[p].local \in NonceMaps /\ procs[p].merged \in NonceMaps
          /\ disk \in NonceMaps
      BY <1>0 DEF ProcStates, SaveInv, TypeOK
    <2>2. \A pc \in {"down", "idle", "locking", "locked", "failed"} :
             [procs[p] EXCEPT !.pc = pc] = [procs[p] EXCEPT !.pc = pc, !.local = procs[p].local]
      BY <2>1 DEF ProcStates
    <2>3. CASE Start(p) \/ ReturnSaved(p)
      BY <2>1, <2>3 DEF Start, ReturnSaved
    <2>4. ASSUME NEW b \in Batches, Analyze(p, b)
          PROVE  \E l \in NonceMaps :
                    procs' = [procs EXCEPT ![p] = [procs[p] EXCEPT !.pc = "locking", !.local = l]]
      <3>1. b \in NonceMaps
        BY StoreAssumption
      <3>2. [a \in Addrs |-> IF b[a] = Absent THEN procs[p].local[a] ELSE b[a]] \in NonceMaps
        BY <2>1, <3>1 DEF NonceMaps
      <3>3. QED
        BY <2>4, <3>2 DEF Analyze
    <2>5. CASE \E pc \in {"down", "idle", "locking", "locked", "failed"} :
                  procs' = [procs EXCEPT ![p] = [procs[p] EXCEPT !.pc = pc]]
      <3>1. PICK pc \in {"down", "idle", "locking", "locked", "failed"} :
                procs' = [procs EXCEPT ![p] = [procs[p] EXCEPT !.pc = pc]]
        BY <2>5
      <3>2. procs' = [procs EXCEPT ![p] =
                         [procs[p] EXCEPT !.pc = pc, !.local = procs[p].local]]
        BY <2>2, <3>1
      <3>3. QED
        BY <2>1, <3>2, Zenon
    <2>6. QED
      BY <2>3, <2>4, <2>5
         DEF LockTimesOut, Crash, AcquireNonceDbLock, ReleaseNonceDbLock, WriteFails
  <1>3. PICK l \in NonceMaps, pc \in {"down", "idle", "locking", "locked", "failed"} :
            procs' = [procs EXCEPT ![p] = [procs[p] EXCEPT !.pc = pc, !.local = l]]
    BY <1>2
  <1>4. [procs[p] EXCEPT !.pc = pc, !.local = l].pc = pc
    BY <1>0 DEF ProcStates
  <1>5. QED
    BY <1>0, <1>1, <1>3, <1>4

(* On either platform, what the holder of the lock has merged stays above  *)
(* the file, and it alone may take the file away.                          *)
LEMMA AboveStep ==
    ASSUME SaveInv, MergedIsAbove, [Next]_vars
    PROVE  /\ MergedIsAbove'
           /\ \/ Leq(disk, disk')
              \/ renameOverFails /\ disk' = Empty /\ \E p \in Procs : Replacing(p) /\ Replacing(p)'
  <1>0. /\ TypeOK /\ disk \in NonceMaps /\ procs \in [Procs -> ProcStates]
        /\ Leq(disk, disk)
    BY MapValues DEF SaveInv, TypeOK, Leq
  <1>1. CASE UNCHANGED vars
    BY <1>0, <1>1 DEF vars, MergedIsAbove, Leq
  <1>2. ASSUME NEW p \in Procs,
               \/ Start(p) \/ (\E b \in Batches : Analyze(p, b)) \/ LockTimesOut(p) \/ Crash(p)
               \/ AcquireNonceDbLock(p) \/ ReleaseNonceDbLock(p) \/ WriteFails(p)
        PROVE  MergedIsAbove' /\ Leq(disk, disk')
    <2>1. /\ disk' = disk /\ procs'[p].pc # "merged"
          /\ \A q \in Procs : q # p => procs'[q] = procs[q]
      BY <1>2, LeavesDisk
    <2>2. QED
      BY <1>0, <2>1 DEF MergedIsAbove, Leq
  <1>3. ASSUME NEW p \in Procs, ReadAndMerge(p) PROVE MergedIsAbove' /\ Leq(disk, disk')
    <2>1. /\ disk' = disk /\ procs'[p].merged = Merged(p)
          /\ \A q \in Procs : q # p => procs'[q] = procs[q]
      BY <1>0, <1>3 DEF ReadAndMerge, ProcStates
    <2>2. Leq(disk, Merged(p))
      BY <1>0, MergedAbove
    <2>3. QED
      BY <1>0, <2>1, <2>2 DEF MergedIsAbove, Leq
  <1>4. ASSUME NEW p \in Procs, Rename(p) PROVE MergedIsAbove' /\ Leq(disk, disk')
    <2>1. /\ procs[p].pc = "merged" /\ disk' = procs[p].merged /\ procs'[p].pc = "written"
          /\ \A q \in Procs : q # p => procs'[q] = procs[q]
      BY <1>0, <1>4 DEF Rename, ProcStates
    <2>2. \A q \in Procs : q # p => procs[q].pc # "merged"
      BY <2>1 DEF SaveInv, OneWriter, Writing
    <2>3. QED
      BY <2>1, <2>2 DEF MergedIsAbove
  <1>5. ASSUME NEW p \in Procs, Unlink(p)
        PROVE  /\ MergedIsAbove'
               /\ renameOverFails /\ disk' = Empty /\ Replacing(p) /\ Replacing(p)'
    <2>1. /\ procs[p].pc = "merged" /\ lock = p /\ renameOverFails
          /\ disk' = Empty /\ procs' = procs /\ lock' = lock
      BY <1>5 DEF Unlink, SaveInv, OneWriter, Writing
    <2>2. \A q \in Procs : procs[q].merged \in NonceMaps
      BY <1>0 DEF ProcStates
    <2>3. \A q \in Procs : Leq(Empty, procs[q].merged)
      BY <2>2, EmptyIsLeast
    <2>4. MergedIsAbove'
      BY <2>1, <2>3 DEF MergedIsAbove, Leq
    <2>5. \A a \in Addrs : procs[p].merged[a] \in Int /\ disk[a] \in Int /\ Empty[a] \in Int
      BY <1>0, <2>2, MapValues, EmptyMap
    <2>6. Leq(disk, procs[p].merged)
      BY <2>1 DEF MergedIsAbove
    <2>7. \A a \in Addrs : procs[p].merged[a] >= disk[a] /\ procs[p].merged[a] >= Empty[a]
      BY <2>3, <2>5, <2>6 DEF Leq
    <2>8. QED
      BY <2>1, <2>4, <2>7 DEF Replacing
  <1>6. QED
    BY <1>1, <1>2, <1>3, <1>4, <1>5 DEF Next, Save

(* Concurrent writers cannot clobber each other: no step lowers a nonce on *)
(* disk, but the unlink of the process that is about to bring it back.     *)
THEOREM NeverClobbered == SafetySpec => DiskMonotone
  <1>1. Init => MergedIsAbove
    BY InitIInv DEF IInv
  <1>2. SaveInv /\ MergedIsAbove /\ [Next]_vars => MergedIsAbove'
    BY AboveStep
  <1>3. SaveInv /\ SaveInv' /\ MergedIsAbove /\ [Next]_vars
           => [\/ \A a \in Addrs : disk'[a] >= disk[a]
               \/ renameOverFails /\ disk' = Empty
                    /\ \E p \in Procs : Replacing(p) /\ Replacing(p)']_vars
    <2> SUFFICES ASSUME SaveInv, SaveInv', [Next]_vars, Leq(disk, disk')
                 PROVE  \A a \in Addrs : disk'[a] >= disk[a]
      BY AboveStep
    <2>1. disk \in NonceMaps /\ disk' \in NonceMaps
      BY DEF SaveInv, TypeOK
    <2>2. QED
      BY <2>1, MapValues DEF Leq
  <1>4. QED
    BY <1>1, <1>2, <1>3, SaveInvariance, PTL DEF SafetySpec, DiskMonotone

-----------------------------------------------------------------------------
(* The polling loop.                                                       *)

(* findIndex() finds the least index there is. *)
LEMMA LeastIndex ==
    ASSUME NEW T, T \subseteq Nat, T # {}
    PROVE  \E x \in T : \A y \in T : x <= y
  <1> DEFINE R == {p \in Nat \X Nat : p[1] < p[2]}
  <1>1. IsWellFoundedOn(R, Nat)
    <2>1. R = OpToRel(<, Nat)
      BY DEF OpToRel
    <2>2. QED
      BY <2>1, NatLessThanWellFounded
  <1> HIDE DEF R
  <1>2. \E x \in T : \A y \in T : ~(<<y, x>> \in R)
    BY <1>1, WFMin
  <1>3. \A x, y \in Nat : ~(<<y, x>> \in R) => x <= y
    BY DEF R
  <1>4. QED
    BY <1>2, <1>3

FailoverEvents == [from : Nodes, to : Nodes]

(* Before the first failover the first node is the current one, and        *)
(* nothing has been dropped.                                               *)
FailoverInv ==
    /\ currentNode \in Nodes
    /\ events \in Seq(FailoverEvents)
    /\ droppedEvents \in Nat
    /\ events = <<>> => currentNode = 1 /\ droppedEvents = 0
    /\ FailoverChain

(* A failover continues the chain, or starts it at the first node. *)
LEMMA FailOverKeeps ==
    ASSUME FailoverInv, NEW table, FailOver(table)
    PROVE  FailoverInv'
  <1> DEFINE others == {n \in Nodes : n # currentNode /\ table[n]}
             first == CHOOSE n \in others : \A m \in others : n <= m
  <1>1. CASE UNCHANGED <<currentNode, events, droppedEvents>>
    BY <1>1 DEF FailoverInv, FailoverChain
  <1>2. CASE others # {} /\ currentNode' = first /\ RecordFailover(currentNode, first)
    <2>1. others \subseteq Nat
      BY DEF Nodes
    <2>2. first \in others
      BY <1>2, <2>1, LeastIndex
    <2>3. first \in Nodes /\ first # currentNode
      BY <2>2
    <2> HIDE DEF others, first
    <2> DEFINE e == [from |-> currentNode, to |-> first]
               all == Append(events, e)
               drop == IF Len(all) > FailoverEventCap THEN Len(all) - FailoverEventCap ELSE 0
    <2>4. e \in FailoverEvents /\ events \in Seq(FailoverEvents) /\ Len(events) \in Nat
      BY <2>3 DEF FailoverEvents, FailoverInv
    <2>5. /\ all \in Seq(FailoverEvents) /\ Len(all) = Len(events) + 1
          /\ \A i \in 1 .. Len(events) : all[i] = events[i]
          /\ all[Len(events) + 1] = e
      BY <2>4
    <2>6. Len(events) <= FailoverEventCap /\ FailoverEventCap \in Nat \ {0}
      BY DetectorAssumption DEF FailoverInv, FailoverChain
    <2>7. /\ drop \in {0, 1}
          /\ drop = 1 <=> Len(events) = FailoverEventCap
      BY <2>4, <2>5, <2>6
    <2>8. /\ \A i \in 1 .. Len(all) - 1 : all[i].to = all[i + 1].from
          /\ \A i \in 1 .. Len(all) : all[i].from # all[i].to
      <3>1. \A i \in 1 .. Len(all) - 1 : all[i].to = all[i + 1].from
        <4> TAKE i \in 1 .. Len(all) - 1
        <4>1. CASE i < Len(events)
          BY <4>1, <2>4, <2>5 DEF FailoverInv, FailoverChain
        <4>2. CASE i = Len(events)
          BY <4>2, <2>4, <2>5 DEF FailoverInv, FailoverChain
        <4>3. QED
          BY <4>1, <4>2, <2>4, <2>5
      <3>2. \A i \in 1 .. Len(all) : all[i].from # all[i].to
        <4> TAKE i \in 1 .. Len(all)
        <4>1. CASE i <= Len(events)
          BY <4>1, <2>4, <2>5 DEF FailoverInv, FailoverChain
        <4>2. CASE i = Len(events) + 1
          BY <4>2, <2>3, <2>5
        <4>3. QED
          BY <4>1, <4>2, <2>4, <2>5
      <3>3. QED
        BY <3>1, <3>2
    <2>9. events = <<>> => all[1].from = 1
      BY <2>4, <2>5 DEF FailoverInv
    <2>10. events # <<>> /\ droppedEvents = 0 => all[1].from = 1
      <3>1. events # <<>> => 1 \in 1 .. Len(events)
        BY <2>4
      <3>2. QED
        BY <3>1, <2>5 DEF FailoverInv, FailoverChain
    <2>11. events' = SubSeq(all, drop + 1, Len(all))
      BY <1>2 DEF RecordFailover
    <2>12. droppedEvents' = IF droppedEvents + drop > MaxDropped THEN MaxDropped
                                                                ELSE droppedEvents + drop
      BY <1>2 DEF RecordFailover
    <2> HIDE DEF all, drop, e
    <2>13. /\ events' \in Seq(FailoverEvents) /\ Len(events') = Len(all) - drop
           /\ \A i \in 1 .. Len(all) - drop : events'[i] = all[i + drop]
      BY <2>4, <2>5, <2>7, <2>11
    <2>14. droppedEvents' \in Nat /\ (droppedEvents' = 0 => droppedEvents = 0 /\ drop = 0)
      BY <2>7, <2>12, DetectorAssumption DEF FailoverInv
    <2>15. Len(events') > 0 /\ events' # <<>> /\ Len(events') <= FailoverEventCap
      BY <2>4, <2>5, <2>6, <2>7, <2>13
    <2>16. events'[Len(events')].to = currentNode'
      <3>1. events'[Len(events')] = all[Len(all)]
        BY <2>4, <2>5, <2>7, <2>13, <2>15
      <3>2. all[Len(all)] = e
        BY <2>5
      <3>3. QED
        BY <3>1, <3>2, <1>2 DEF e
    <2>17. droppedEvents' = 0 => events'[1].from = 1
      <3>1. 1 \in 1 .. Len(all) - drop
        BY <2>4, <2>5, <2>13, <2>15
      <3>2. droppedEvents' = 0 => events'[1] = all[1]
        BY <3>1, <2>13, <2>14
      <3>3. QED
        BY <3>2, <2>9, <2>10, <2>14
    <2>18. \A i \in 1 .. Len(events') - 1 : events'[i].to = events'[i + 1].from
      <3> TAKE i \in 1 .. Len(events') - 1
      <3>1. /\ i \in 1 .. Len(all) - drop /\ i + 1 \in 1 .. Len(all) - drop
            /\ i + drop \in 1 .. Len(all) - 1
            /\ (i + 1) + drop = (i + drop) + 1
        BY <2>4, <2>5, <2>7, <2>13
      <3>2. events'[i] = all[i + drop] /\ events'[i + 1] = all[(i + drop) + 1]
        BY <3>1, <2>13
      <3>3. QED
        BY <3>1, <3>2, <2>8
    <2>19. \A i \in 1 .. Len(events') : events'[i].from # events'[i].to
      <3> TAKE i \in 1 .. Len(events')
      <3>1. i \in 1 .. Len(all) - drop /\ i + drop \in 1 .. Len(all)
        BY <2>4, <2>5, <2>7, <2>13
      <3>2. events'[i] = all[i + drop]
        BY <3>1, <2>13
      <3>3. QED
        BY <3>1, <3>2, <2>8
    <2>20. QED
      BY <1>2, <2>3, <2>13, <2>14, <2>15, <2>16, <2>17, <2>18, <2>19
         DEF FailoverInv, FailoverChain
  <1>3. QED
    BY <1>1, <1>2 DEF FailOver

(* For any number of nodes, polls that overlap in any way and any cap on   *)
(* the events: the failovers recorded form one chain that ends at the      *)
(* current node, without its dropped beginning.                            *)
THEOREM FailoversChain == DetectorSpec => []FailoverChain
  <1>1. DetectorInit => FailoverInv
    <2>1. <<>> \in Seq(FailoverEvents) /\ Len(<<>>) = 0
      OBVIOUS
    <2>2. QED
      BY <2>1, DetectorAssumption DEF DetectorInit, FailoverInv, FailoverChain, Nodes
  <1>2. FailoverInv /\ [DetectorNext]_detectorVars => FailoverInv'
    <2> SUFFICES ASSUME FailoverInv, [DetectorNext]_detectorVars PROVE FailoverInv'
      OBVIOUS
    <2>1. CASE UNCHANGED <<currentNode, events, droppedEvents>>
      BY <2>1 DEF FailoverInv, FailoverChain
    <2>2. ASSUME NEW p \in Polls, Probe(p)
          PROVE  \/ UNCHANGED <<currentNode, events, droppedEvents>>
                 \/ \E table : FailOver(table)
      BY <2>2 DEF Probe
    <2>3. ASSUME NEW p \in Polls, Tick(p) \/ PollStep(p), ~Probe(p)
          PROVE  UNCHANGED <<currentNode, events, droppedEvents>>
      BY <2>3 DEF Tick, PollStep, FeedSettles, Metrics, nodeVars
    <2>4. ASSUME NEW n \in Nodes, NodeChanges(n)
          PROVE  UNCHANGED <<currentNode, events, droppedEvents>>
      BY <2>4 DEF NodeChanges, nodeVars
    <2>5. CASE UNCHANGED detectorVars
      BY <2>1, <2>5 DEF detectorVars, nodeVars
    <2>6. QED
      BY <2>1, <2>2, <2>3, <2>4, <2>5, FailOverKeeps DEF DetectorNext
  <1>3. QED
    BY <1>1, <1>2, PTL DEF DetectorSpec, FailoverInv

-----------------------------------------------------------------------------
(* The addresses that every feed lists. *)
ListedByAll == {a \in Relayers : \A f \in 1 .. NumFeeds : a \in Lists[f]}

StatusLists == Seq(BOOLEAN)

PollRecords ==
    [pc : {"idle", "feed", "health", "metrics"}, at : Nat, newThreats : SUBSET Relayers,
     successes : Nat, statuses : StatusLists]

(* An update that has heard from a feed has all that every feed lists, so  *)
(* it may replace the cache at any time.                                   *)
FeedInv ==
    /\ polls \in [Polls -> PollRecords]
    /\ lastUpdated \in BOOLEAN
    /\ \A p \in Polls : polls[p].pc = "feed" =>
          /\ polls[p].at \in 1 .. NumFeeds
          /\ polls[p].successes > 0 => ListedByAll \subseteq polls[p].newThreats
    /\ lastUpdated => ListedByAll \subseteq threats
    /\ unreported = FALSE

(* The states that a poll is put into. *)
LEMMA PollShapes ==
    /\ IdlePoll \in PollRecords /\ StartedPoll \in PollRecords
    /\ [IdlePoll EXCEPT !.pc = "health", !.at = 1] \in PollRecords
    /\ [IdlePoll EXCEPT !.pc = "metrics"] \in PollRecords
  <1>1. <<>> \in StatusLists
    BY DEF StatusLists
  <1>2. QED
    BY <1>1 DEF IdlePoll, StartedPoll, PollRecords

(* A feed answers or fails; after the last one the cache may be replaced. *)
LEMMA FeedSettlesKeeps ==
    ASSUME FeedInv, NEW p \in Polls, NEW answered \in BOOLEAN, FeedSettles(p, answered)
    PROVE  FeedInv'
  <1> DEFINE q == polls[p]
             heard == IF answered THEN q.newThreats \cup ParseFeedData(q.at) ELSE q.newThreats
             count == IF answered THEN q.successes + 1 ELSE q.successes
  <1>1. /\ q \in PollRecords /\ q.pc = "feed" /\ q.at \in 1 .. NumFeeds
        /\ q.newThreats \subseteq Relayers /\ q.successes \in Nat
        /\ q.successes > 0 => ListedByAll \subseteq q.newThreats
    BY DEF FeedInv, FeedSettles, PollRecords
  <1>2. Lists[q.at] \subseteq Relayers /\ ListedByAll \subseteq Lists[q.at]
    BY <1>1, DetectorAssumption DEF ListedByAll
  <1>3. /\ heard \subseteq Relayers /\ count \in Nat
        /\ count > 0 => ListedByAll \subseteq heard
    BY <1>1, <1>2 DEF ParseFeedData
  <1>4. unreported' = FALSE
    BY DEF FeedSettles, FeedInv
  <1>5. CASE q.at < NumFeeds
    <2>1. /\ polls' = [polls EXCEPT ![p] =
                [q EXCEPT !.at = @ + 1, !.newThreats = heard, !.successes = count]]
          /\ threats' = threats /\ lastUpdated' = lastUpdated
      BY <1>5 DEF FeedSettles, feedVars
    <2> HIDE DEF heard, count
    <2>2. q.at + 1 \in 1 .. NumFeeds /\ q.at + 1 \in Nat
      BY <1>1, <1>5, DetectorAssumption
    <2>3. [q EXCEPT !.at = @ + 1, !.newThreats = heard, !.successes = count] \in PollRecords
      BY <1>1, <1>3, <2>2 DEF PollRecords
    <2>4. polls' \in [Polls -> PollRecords]
      BY <2>1, <2>3 DEF FeedInv
    <2>5. /\ polls'[p].at = q.at + 1 /\ polls'[p].newThreats = heard /\ polls'[p].successes = count
          /\ \A r \in Polls \ {p} : polls'[r] = polls[r]
      BY <2>1, <1>1 DEF FeedInv, PollRecords
    <2>6. QED
      BY <2>1, <2>2, <2>4, <2>5, <1>3, <1>4 DEF FeedInv
  <1>6. CASE ~(q.at < NumFeeds)
    <2>1. /\ polls' = [polls EXCEPT ![p] = [IdlePoll EXCEPT !.pc = "health", !.at = 1]]
          /\ CommitFeed(heard, count)
      BY <1>6 DEF FeedSettles
    <2> HIDE DEF heard, count
    <2>2. polls' \in [Polls -> PollRecords]
      BY <2>1, PollShapes DEF FeedInv
    <2>3. /\ polls'[p].pc = "health"
          /\ \A r \in Polls \ {p} : polls'[r] = polls[r]
      BY <2>1 DEF FeedInv, IdlePoll
    <2>4. lastUpdated' \in BOOLEAN /\ (lastUpdated' => ListedByAll \subseteq threats')
      BY <2>1, <1>3 DEF CommitFeed, feedVars, FeedInv
    <2>5. QED
      BY <2>2, <2>3, <2>4, <1>4 DEF FeedInv
  <1>7. QED
    BY <1>5, <1>6

(* Probing a node leaves the feeds alone. *)
LEMMA ProbeKeepsFeed ==
    ASSUME FeedInv, NEW p \in Polls, Probe(p) PROVE FeedInv'
  <1> DEFINE q == polls[p]
             ok == q.at \in up
             statuses == Append(q.statuses, ok)
  <1>1. q \in PollRecords /\ q.pc = "health" /\ q.at \in Nat /\ q.statuses \in StatusLists
    BY DEF FeedInv, Probe, PollRecords
  <1>2. statuses \in StatusLists
    <2>1. ok \in BOOLEAN
      OBVIOUS
    <2> HIDE DEF ok
    <2>2. QED
      BY <1>1, <2>1 DEF StatusLists
  <1>3. /\ \/ polls' = [polls EXCEPT ![p] = [q EXCEPT !.at = @ + 1, !.statuses = statuses]]
           \/ polls' = [polls EXCEPT ![p] = [IdlePoll EXCEPT !.pc = "metrics"]]
           \/ polls' = [polls EXCEPT ![p] = IdlePoll]
        /\ threats' = threats /\ lastUpdated' = lastUpdated /\ unreported' = unreported
    BY Zenon DEF Probe, feedVars
  <1> HIDE DEF statuses
  <1>4. [q EXCEPT !.at = @ + 1, !.statuses = statuses] \in PollRecords
    <2>1. \A n \in Nat : [q EXCEPT !.at = n, !.statuses = statuses] \in PollRecords
      BY <1>1, <1>2 DEF PollRecords
    <2>2. q.at + 1 \in Nat
      BY <1>1
    <2>3. QED
      BY <2>1, <2>2, <1>1 DEF PollRecords
  <1>5. polls' \in [Polls -> PollRecords]
    BY <1>3, <1>4, PollShapes DEF FeedInv
  <1>6. /\ polls'[p].pc # "feed"
        /\ \A r \in Polls \ {p} : polls'[r] = polls[r]
    <2>1. \A r \in Polls \ {p} : polls'[r] = polls[r]
      BY <1>3 DEF FeedInv
    <2>2. \/ polls'[p] = [q EXCEPT !.at = @ + 1, !.statuses = statuses]
          \/ polls'[p] = [IdlePoll EXCEPT !.pc = "metrics"]
          \/ polls'[p] = IdlePoll
      BY <1>3 DEF FeedInv
    <2>3. [q EXCEPT !.at = @ + 1, !.statuses = statuses].pc = "health"
      BY <1>1 DEF PollRecords
    <2>4. [IdlePoll EXCEPT !.pc = "metrics"].pc = "metrics" /\ IdlePoll.pc = "idle"
      BY DEF IdlePoll
    <2>5. QED
      BY <2>1, <2>2, <2>3, <2>4
  <1>7. QED
    BY <1>3, <1>5, <1>6 DEF FeedInv

(* No feed has been heard from at first. *)
LEMMA FeedInitial == DetectorInit => FeedInv
  <1> SUFFICES ASSUME DetectorInit PROVE FeedInv
    OBVIOUS
  <1>1. \A p \in Polls : polls[p] \in {StartedPoll, IdlePoll}
    BY DEF DetectorInit
  <1>2. polls \in [Polls -> PollRecords]
    BY PollShapes DEF DetectorInit
  <1>3. \A p \in Polls : polls[p].pc = "feed" => polls[p].at = 1 /\ polls[p].successes = 0
    <2>1. StartedPoll.at = 1 /\ StartedPoll.successes = 0 /\ IdlePoll.pc = "idle"
      BY DEF StartedPoll, IdlePoll
    <2>2. QED
      BY <1>1, <2>1
  <1>4. 1 \in 1 .. NumFeeds
    BY DetectorAssumption
  <1>5. lastUpdated = FALSE /\ unreported = FALSE
    BY DEF DetectorInit
  <1>6. \A p \in Polls : polls[p].pc = "feed" =>
          /\ polls[p].at \in 1 .. NumFeeds
          /\ polls[p].successes > 0 => ListedByAll \subseteq polls[p].newThreats
    BY <1>3, <1>4
  <1>7. QED
    BY <1>2, <1>5, <1>6, Zenon DEF FeedInv

(* Every step of the polling loop keeps what is known of the feeds. *)
LEMMA FeedStep == FeedInv /\ [DetectorNext]_detectorVars => FeedInv'
  <1> SUFFICES ASSUME FeedInv, [DetectorNext]_detectorVars PROVE FeedInv'
    OBVIOUS
  <1>1. ASSUME NEW p \in Polls, Tick(p) PROVE FeedInv'
    <2>1. /\ polls' = [polls EXCEPT ![p] = StartedPoll]
          /\ threats' = threats /\ lastUpdated' = lastUpdated /\ unreported' = unreported
      BY <1>1 DEF Tick, feedVars
    <2>2. polls' \in [Polls -> PollRecords]
      BY <2>1, PollShapes DEF FeedInv
    <2>3. /\ polls'[p].at = 1 /\ polls'[p].successes = 0
          /\ \A r \in Polls \ {p} : polls'[r] = polls[r]
      BY <2>1 DEF FeedInv, StartedPoll, IdlePoll
    <2>4. 1 \in 1 .. NumFeeds
      BY DetectorAssumption
    <2>5. QED
      BY <2>1, <2>2, <2>3, <2>4 DEF FeedInv
  <1>2. ASSUME NEW p \in Polls, NEW accepted \in SUBSET Relayers, NEW throws \in BOOLEAN,
               Metrics(p, accepted, throws)
        PROVE  FeedInv'
    <2>1. /\ polls' = [polls EXCEPT ![p] = IdlePoll]
          /\ threats' = threats /\ lastUpdated' = lastUpdated
      BY <1>2 DEF Metrics, feedVars
    <2>2. unreported' = FALSE
      BY <1>2, Zenon DEF Metrics, FeedInv, ListedByAll
    <2>3. polls' \in [Polls -> PollRecords]
      BY <2>1, PollShapes DEF FeedInv
    <2>4. /\ polls'[p].pc = "idle"
          /\ \A r \in Polls \ {p} : polls'[r] = polls[r]
      BY <2>1 DEF FeedInv, IdlePoll
    <2>5. QED
      BY <2>1, <2>2, <2>3, <2>4 DEF FeedInv
  <1>3. ASSUME NEW n \in Nodes, NodeChanges(n) PROVE FeedInv'
    BY <1>3 DEF NodeChanges, feedVars, FeedInv
  <1>4. CASE UNCHANGED detectorVars
    BY <1>4 DEF detectorVars, feedVars, FeedInv
  <1>5. QED
    BY <1>1, <1>2, <1>3, <1>4, FeedSettlesKeeps, ProbeKeepsFeed DEF DetectorNext, PollStep

(* For any number of feeds and relayers and any overlap of the updates: an *)
(* address that every feed lists is blocked and reported from the first    *)
(* answer of any feed on.                                                  *)
THEOREM ListedStays == DetectorSpec => []ListedStaysReported
  <1>1. FeedInv => ListedStaysReported
    BY DEF FeedInv, ListedStaysReported, ListedByAll
  <1>2. QED
    BY <1>1, FeedInitial, FeedStep, PTL DEF DetectorSpec

-----------------------------------------------------------------------------
(* A poll that probes asks a node there is, and the table says of each     *)
(* node whether it was healthy.                                            *)
NodesInv ==
    /\ FeedInv
    /\ healthy \in [Nodes -> BOOLEAN]
    /\ currentNode \in Nodes
    /\ \A p \in Polls : polls[p].pc = "health" => polls[p].at \in Nodes

(* The checker leaves the node it is on only for a reason: the table that  *)
(* the polls share lists it as down and the one it goes to as healthy.     *)
(* While the node is up and listed so, no poll, however long ago its other *)
(* probes were, takes the checker away from it.                            *)
LeavesForAReason(from, to) == to # from => ~healthy'[from] /\ healthy'[to]

StaysWhereItIsUp(n) == n \in up /\ healthy[n] => currentNode' = n /\ healthy'[n]

FailoverIsJustified ==
    [][LeavesForAReason(currentNode, currentNode') /\ StaysWhereItIsUp(currentNode)]_detectorVars

(* The first healthy other node is one. *)
LEMMA FailOverTo ==
    ASSUME NEW table \in [Nodes -> BOOLEAN], currentNode \in Nodes, FailOver(table)
    PROVE  /\ currentNode' \in Nodes
           /\ currentNode' # currentNode => ~table[currentNode] /\ table[currentNode']
           /\ table[currentNode] => currentNode' = currentNode
  <1> DEFINE others == {n \in Nodes : n # currentNode /\ table[n]}
             first == CHOOSE n \in others : \A m \in others : n <= m
  <1>1. CASE ~table[currentNode] /\ others # {} /\ currentNode' = first
    <2>1. others \subseteq Nat
      BY DEF Nodes
    <2>2. first \in others
      BY <1>1, <2>1, LeastIndex
    <2> HIDE DEF first
    <2>3. QED
      BY <1>1, <2>2
  <1>2. CASE currentNode' = currentNode
    BY <1>2
  <1>3. QED
    BY <1>1, <1>2 DEF FailOver

(* One probe, and what it may do to the node the checker is on. *)
LEMMA ProbeJustified ==
    ASSUME NodesInv, NEW p \in Polls, Probe(p)
    PROVE  /\ healthy' \in [Nodes -> BOOLEAN] /\ currentNode' \in Nodes
           /\ LeavesForAReason(currentNode, currentNode') /\ StaysWhereItIsUp(currentNode)
  <1> DEFINE at == polls[p].at
             ok == at \in up
             table == [healthy EXCEPT ![at] = ok]
  <1>1. at \in Nodes /\ healthy' = table
    BY DEF NodesInv, Probe
  <1>2. currentNode' = currentNode \/ FailOver(table)
    BY DEF Probe
  <1>3. ok \in BOOLEAN /\ (ok <=> at \in up)
    OBVIOUS
  <1> HIDE DEF at, ok
  <1>4. table \in [Nodes -> BOOLEAN] /\ table[at] = ok
        /\ \A n \in Nodes \ {at} : table[n] = healthy[n]
    BY <1>1, <1>3 DEF NodesInv
  <1> HIDE DEF table
  <1>5. /\ currentNode' \in Nodes
        /\ currentNode' # currentNode => ~table[currentNode] /\ table[currentNode']
        /\ table[currentNode] => currentNode' = currentNode
    BY <1>2, <1>4, FailOverTo DEF NodesInv
  <1>6. currentNode \in up /\ healthy[currentNode] => table[currentNode]
    <2>1. CASE currentNode = at
      BY <1>3, <1>4, <2>1
    <2>2. CASE currentNode # at
      BY <1>4, <2>2 DEF NodesInv
    <2>3. QED
      BY <2>1, <2>2
  <1>7. QED
    BY <1>1, <1>4, <1>5, <1>6 DEF LeavesForAReason, StaysWhereItIsUp

(* Every probe asks a node there is. *)
LEMMA ProbesNodes ==
    ASSUME NodesInv, NEW p \in Polls, Tick(p) \/ PollStep(p)
    PROVE  \A r \in Polls : polls'[r].pc = "health" => polls'[r].at \in Nodes
  <1>0. polls \in [Polls -> PollRecords] /\ 1 \in Nodes
    BY DetectorAssumption DEF NodesInv, FeedInv, Nodes
  <1>1. \A r \in Polls \ {p} : polls'[r] = polls[r]
    BY <1>0 DEF Tick, PollStep, FeedSettles, Probe, Metrics
  <1>2. polls'[p].pc = "health" => polls'[p].at \in Nodes
    <2>1. CASE Tick(p)
      BY <1>0, <2>1 DEF Tick, StartedPoll, IdlePoll
    <2>2. ASSUME NEW answered \in BOOLEAN, FeedSettles(p, answered)
          PROVE  polls'[p].pc = "health" => polls'[p].at \in Nodes
      <3>1. polls[p].pc = "feed" /\ polls[p] \in PollRecords
        BY <1>0, <2>2 DEF FeedSettles
      <3>2. \/ polls'[p].pc = polls[p].pc
            \/ polls'[p] = [IdlePoll EXCEPT !.pc = "health", !.at = 1]
        BY <1>0, <2>2, <3>1 DEF FeedSettles, PollRecords
      <3>3. [IdlePoll EXCEPT !.pc = "health", !.at = 1].at = 1
        BY DEF IdlePoll
      <3>4. QED
        BY <1>0, <3>1, <3>2, <3>3
    <2>3. CASE Probe(p)
      <3> DEFINE statuses == Append(polls[p].statuses, polls[p].at \in up)
      <3>1. polls[p] \in PollRecords /\ polls[p].at \in Nodes
        BY <1>0, <2>3 DEF NodesInv, Probe
      <3>2. \/ /\ polls[p].at < NumNodes
               /\ polls'[p] = [polls[p] EXCEPT !.at = @ + 1, !.statuses = statuses]
            \/ polls'[p] = [IdlePoll EXCEPT !.pc = "metrics"]
            \/ polls'[p] = IdlePoll
        BY <1>0, <2>3, Zenon DEF Probe
      <3> HIDE DEF statuses
      <3>3. [IdlePoll EXCEPT !.pc = "metrics"].pc = "metrics" /\ IdlePoll.pc = "idle"
        BY DEF IdlePoll
      <3>4. [polls[p] EXCEPT !.at = @ + 1, !.statuses = statuses].at = polls[p].at + 1
        BY <3>1 DEF PollRecords
      <3>5. polls[p].at < NumNodes => polls[p].at + 1 \in Nodes
        BY <3>1, DetectorAssumption DEF Nodes
      <3>6. QED
        BY <3>2, <3>3, <3>4, <3>5
    <2>4. ASSUME NEW accepted, NEW throws, Metrics(p, accepted, throws)
          PROVE  polls'[p].pc = "health" => polls'[p].at \in Nodes
      BY <1>0, <2>4 DEF Metrics, IdlePoll
    <2>5. QED
      BY <2>1, <2>2, <2>3, <2>4 DEF PollStep
  <1>3. QED
    BY <1>1, <1>2 DEF NodesInv

(* For any number of nodes and of polls that overlap on the one table: a   *)
(* node is left only while it is listed as down, for one that is listed as *)
(* healthy.  That the checker ends up on the node that stays alive         *)
(* (SettlesOnLiveNode) rests on fairness; this is why it stays there.      *)
THEOREM FailoversAreJustified == DetectorSpec => FailoverIsJustified
  <1>1. DetectorInit => NodesInv
    <2> SUFFICES ASSUME DetectorInit PROVE NodesInv
      OBVIOUS
    <2>1. \A p \in Polls : polls[p].pc # "health"
      BY DEF DetectorInit, StartedPoll, IdlePoll
    <2>2. healthy \in [Nodes -> BOOLEAN] /\ currentNode \in Nodes
      BY DetectorAssumption DEF DetectorInit, Nodes
    <2>3. QED
      BY <2>1, <2>2, FeedInitial DEF NodesInv
  <1>2. NodesInv /\ [DetectorNext]_detectorVars
           => /\ NodesInv'
              /\ [LeavesForAReason(currentNode, currentNode') /\ StaysWhereItIsUp(currentNode)]_detectorVars
    <2> SUFFICES ASSUME NodesInv, [DetectorNext]_detectorVars
                 PROVE  /\ NodesInv'
                        /\ LeavesForAReason(currentNode, currentNode')
                        /\ StaysWhereItIsUp(currentNode)
      OBVIOUS
    <2>0. FeedInv'
      BY FeedStep DEF NodesInv
    <2>1. CASE UNCHANGED <<healthy, currentNode, polls>>
      BY <2>0, <2>1 DEF NodesInv, LeavesForAReason, StaysWhereItIsUp
    <2>2. ASSUME NEW p \in Polls, Tick(p) \/ PollStep(p), UNCHANGED <<healthy, currentNode>>
          PROVE  /\ NodesInv'
                 /\ LeavesForAReason(currentNode, currentNode')
                 /\ StaysWhereItIsUp(currentNode)
      <3>1. \A r \in Polls : polls'[r].pc = "health" => polls'[r].at \in Nodes
        BY <2>2, ProbesNodes
      <3>2. QED
        BY <2>0, <2>2, <3>1 DEF NodesInv, LeavesForAReason, StaysWhereItIsUp
    <2>3. ASSUME NEW p \in Polls, Probe(p)
          PROVE  /\ NodesInv'
                 /\ LeavesForAReason(currentNode, currentNode')
                 /\ StaysWhereItIsUp(currentNode)
      <3>1. \A r \in Polls : polls'[r].pc = "health" => polls'[r].at \in Nodes
        BY <2>3, ProbesNodes DEF PollStep
      <3>2. QED
        BY <2>0, <2>3, <3>1, ProbeJustified DEF NodesInv
    <2>4. ASSUME NEW p \in Polls, Tick(p) \/ PollStep(p), ~Probe(p)
          PROVE  UNCHANGED <<healthy, currentNode>>
      BY <2>4 DEF Tick, PollStep, FeedSettles, Metrics, nodeVars
    <2>5. ASSUME NEW n \in Nodes, NodeChanges(n) PROVE UNCHANGED <<healthy, currentNode, polls>>
      BY <2>5 DEF NodeChanges, nodeVars
    <2>6. UNCHANGED detectorVars => UNCHANGED <<healthy, currentNode, polls>>
      BY DEF detectorVars, nodeVars
    <2>7. QED
      BY <2>1, <2>2, <2>3, <2>4, <2>5, <2>6 DEF DetectorNext
  <1>3. QED
    BY <1>1, <1>2, PTL DEF DetectorSpec, FailoverIsJustified
=============================================================================
