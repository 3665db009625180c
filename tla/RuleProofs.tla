----------------------------- MODULE RuleProofs -----------------------------
(***************************************************************************)
(* Proofs about the components that select from lists: BatchProcessor, for *)
(* any batch and any concurrency; PolicyBundle, for any bundle;            *)
(* SeverityTiering, for any window and thresholds that do not rise;        *)
(* TrafficWatch, for any limits and any number of clients; LogSpikes, for  *)
(* any batch, window and threshold.  They share the facts about Selection  *)
(* that come first.                                                        *)
(***************************************************************************)
EXTENDS BatchProcessor, PolicyBundle, SeverityTiering, TrafficWatch, LogSpikes,
        FiniteSetTheorems, NaturalsInduction, WellFoundedInduction, TLAPS

-----------------------------------------------------------------------------
(* Sorting a set, and keeping part of a list.                              *)

(* R orders S in a line. *)
TotalOrder(S, R) ==
    /\ \A x \in S : <<x, x>> \in R
    /\ \A x, y \in S : <<x, y>> \in R \/ <<y, x>> \in R
    /\ \A x, y \in S : <<x, y>> \in R /\ <<y, x>> \in R => x = y
    /\ \A x, y, z \in S : <<x, y>> \in R /\ <<y, z>> \in R => <<x, z>> \in R

(* Sorting a set lists each element once, and in order. *)
LEMMA SortedLists ==
    ASSUME NEW S, IsFiniteSet(S), NEW R, TotalOrder(S, R),
           NEW n, n = Cardinality(S), NEW o, o = Sorted(S, R)
    PROVE  /\ n \in Nat
           /\ o \in [1 .. n -> S]
           /\ \A x \in S : \E k \in 1 .. n : o[k] = x
           /\ \A k, l \in 1 .. n : o[k] = o[l] => k = l
           /\ \A k, l \in 1 .. n : k <= l => <<o[k], o[l]>> \in R
  <1> DEFINE rank == [x \in S |-> Cardinality(UpTo(S, R, x))]
  <1>0. n = Cardinality(S)
    OBVIOUS
  <1>1. n \in Nat
    BY <1>0, FS_CardinalityType
  <1>2. \A x \in S : UpTo(S, R, x) \in SUBSET S /\ IsFiniteSet(UpTo(S, R, x))
    BY FS_Subset DEF UpTo
  <1>3. \A x \in S : rank[x] \in 1 .. n
    <2> TAKE x \in S
    <2>1. x \in UpTo(S, R, x)
      BY DEF UpTo, TotalOrder
    <2>2. UpTo(S, R, x) # {}
      BY <2>1
    <2>3. Cardinality(UpTo(S, R, x)) \in Nat /\ Cardinality(UpTo(S, R, x)) # 0
      BY <1>2, <2>2, FS_CardinalityType, FS_EmptySet
    <2>4. Cardinality(UpTo(S, R, x)) <= n
      BY <1>0, <1>2, FS_Subset
    <2>5. QED
      BY <1>1, <2>3, <2>4
  <1>4. \A x, y \in S : <<x, y>> \in R /\ x # y => rank[x] < rank[y]
    <2> TAKE x, y \in S
    <2> HAVE <<x, y>> \in R /\ x # y
    <2>1. UpTo(S, R, x) \in SUBSET UpTo(S, R, y)
      BY DEF UpTo, TotalOrder
    <2>2. y \in UpTo(S, R, y) /\ y \notin UpTo(S, R, x)
      BY DEF UpTo, TotalOrder
    <2>3. Cardinality(UpTo(S, R, x)) <= Cardinality(UpTo(S, R, y))
      BY <1>2, <2>1, FS_Subset
    <2>4. Cardinality(UpTo(S, R, x)) # Cardinality(UpTo(S, R, y))
      BY <1>2, <2>1, <2>2, FS_Subset
    <2>5. rank[x] = Cardinality(UpTo(S, R, x)) /\ rank[y] = Cardinality(UpTo(S, R, y))
          /\ rank[x] \in Nat /\ rank[y] \in Nat
      BY <1>3
    <2>6. QED
      BY <2>3, <2>4, <2>5
  <1>5. \A x, y \in S : rank[x] = rank[y] => x = y
    <2> TAKE x, y \in S
    <2> HAVE rank[x] = rank[y]
    <2>1. <<x, y>> \in R \/ <<y, x>> \in R
      BY DEF TotalOrder
    <2>2. rank[x] \in 1 .. n /\ rank[y] \in 1 .. n
      BY <1>3
    <2> HIDE DEF rank
    <2>3. QED
      BY <1>4, <2>1, <2>2
  <1>6. \A k \in 1 .. n : \E x \in S : rank[x] = k
    <2>1. rank \in Injection(S, 1 .. n)
      <3>1. rank \in [S -> 1 .. n]
        BY <1>3
      <3>2. \A x, y \in DOMAIN rank : rank[x] = rank[y] => x = y
        BY <1>5
      <3> HIDE DEF rank
      <3>3. QED
        BY <3>1, <3>2 DEF Injection, IsInjective
    <2>2. IsFiniteSet(1 .. n) /\ Cardinality(1 .. n) = n
      BY <1>1, FS_Interval
    <2>3. rank \in Surjection(S, 1 .. n)
      BY <1>0, <2>1, <2>2, FS_Injection
    <2>4. QED
      BY <2>3 DEF Surjection
  <1>7. o = Sorted(S, R)
    OBVIOUS
  <1>8. \A k \in 1 .. n : o[k] \in S /\ rank[o[k]] = k
    <2> TAKE k \in 1 .. n
    <2>1. \E x \in S : Cardinality(UpTo(S, R, x)) = k
      BY <1>6
    <2>2. o[k] = CHOOSE x \in S : Cardinality(UpTo(S, R, x)) = k
      BY <1>0, <1>7 DEF Sorted
    <2>3. QED
      BY <2>1, <2>2
  <1>9. DOMAIN o = 1 .. n /\ o = [k \in DOMAIN o |-> o[k]]
    BY <1>0, <1>7 DEF Sorted
  <1> HIDE DEF rank
  <1>10. o \in [1 .. n -> S]
    BY <1>8, <1>9
  <1>11. \A x \in S : \E k \in 1 .. n : o[k] = x
    BY <1>3, <1>5, <1>8
  <1>12. \A k, l \in 1 .. n : o[k] = o[l] => k = l
    BY <1>8
  <1>13. \A k, l \in 1 .. n : k <= l => <<o[k], o[l]>> \in R
    <2> TAKE k, l \in 1 .. n
    <2> HAVE k <= l
    <2>1. o[k] \in S /\ o[l] \in S /\ rank[o[k]] = k /\ rank[o[l]] = l
      BY <1>8
    <2>2. CASE <<o[l], o[k]>> \in R /\ o[l] # o[k]
      <3>1. l < k
        BY <1>4, <2>1, <2>2
      <3>2. QED
        BY <3>1, <1>1
    <2>3. CASE <<o[k], o[l]>> \in R \/ o[l] = o[k]
      BY <2>1, <2>3 DEF TotalOrder
    <2>4. QED
      BY <2>1, <2>2, <2>3 DEF TotalOrder
  <1>14. QED
    BY <1>0, <1>1, <1>7, <1>10, <1>11, <1>12, <1>13

(* Positions in a list are finitely many and in a total order. *)
LEMMA PositionsOrdered ==
    ASSUME NEW n \in Nat, NEW P, P \subseteq 1 .. n
    PROVE  IsFiniteSet(P) /\ TotalOrder(P, NotAbove(P))
  <1>1. IsFiniteSet(1 .. n)
    <2>1. 1 \in Int /\ n \in Int
      OBVIOUS
    <2>2. QED
      BY <2>1, FS_Interval
  <1>2. IsFiniteSet(P)
    BY <1>1, FS_Subset
  <1>3. P \subseteq Nat
    OBVIOUS
  <1>4. TotalOrder(P, NotAbove(P))
    BY <1>3 DEF TotalOrder, NotAbove
  <1>5. QED
    BY <1>2, <1>4

(* t has the elements of s at the positions in P, in their order: that of  *)
(* place k in t is at o[k] in s.                                           *)
Filters(o, s, P, t) ==
    /\ o \in [1 .. Len(t) -> P]
    /\ \A k \in 1 .. Len(t) : t[k] = s[o[k]]
    /\ \A i \in P : \E k \in 1 .. Len(t) : o[k] = i
    /\ \A k, l \in 1 .. Len(t) : k < l => o[k] < o[l]

(* Keeping a list keeps its elements in order, each in one place. *)
LEMMA KeptList ==
    ASSUME NEW E, NEW s \in Seq(E), NEW P \in SUBSET DOMAIN s
    PROVE  /\ Kept(s, P) \in Seq(E) /\ Len(Kept(s, P)) \in Nat
           /\ Len(Kept(s, P)) = Cardinality(P)
           /\ \E o : Filters(o, s, P, Kept(s, P))
  <1>0. PICK t : t = Kept(s, P)
    OBVIOUS
  <1>1. Len(s) \in Nat /\ DOMAIN s = 1 .. Len(s)
    OBVIOUS
  <1>2. IsFiniteSet(P) /\ TotalOrder(P, NotAbove(P))
    BY <1>1, PositionsOrdered
  <1>3. PICK n, o : n = Cardinality(P) /\ o = Sorted(P, NotAbove(P))
    OBVIOUS
  <1>4. /\ n \in Nat /\ o \in [1 .. n -> P]
        /\ \A i \in P : \E k \in 1 .. n : o[k] = i
        /\ \A k, l \in 1 .. n : o[k] = o[l] => k = l
        /\ \A k, l \in 1 .. n : k <= l => <<o[k], o[l]>> \in NotAbove(P)
    BY <1>2, <1>3, SortedLists
  <1>5. t = [k \in 1 .. n |-> s[o[k]]]
    BY <1>0, <1>3 DEF Kept
  <1>6. \A k \in 1 .. n : s[o[k]] \in E
    BY <1>1, <1>4
  <1>7. t \in [1 .. n -> E]
    BY <1>5, <1>6
  <1>8. t \in Seq(E) /\ Len(t) = n
    BY <1>4, <1>7
  <1>9. ASSUME NEW k \in 1 .. n, NEW l \in 1 .. n, k < l PROVE o[k] < o[l]
    <2>1. k <= l /\ k # l
      BY <1>4, <1>9
    <2>2. o[k] <= o[l] /\ o[k] # o[l]
      BY <1>4, <2>1 DEF NotAbove
    <2>3. o[k] \in Nat /\ o[l] \in Nat
      BY <1>1, <1>4
    <2>4. QED
      BY <2>2, <2>3
  <1>10. Filters(o, s, P, t)
    BY <1>4, <1>5, <1>8, <1>9 DEF Filters
  <1>11. QED
    BY <1>0, <1>3, <1>4, <1>8, <1>10

(* Of natural numbers there is a least one.                                *)
LEMMA LeastOf ==
    ASSUME NEW T, T \subseteq Nat, T # {}
    PROVE  \E x \in T : \A y \in T : x <= y
  <1> DEFINE R == {p \in Nat \X Nat : p[1] < p[2]}
  <1>1. IsWellFoundedOn(R, Nat)
    <2>1. R = OpToRel(<, Nat)
      BY DEF OpToRel
    <2>2. QED
      BY <2>1, NatLessThanWellFounded
  <1> HIDE DEF R
  <1>2. \E x \in T : \A y \in T : ~(<<y, x>> \in R)
    BY <1>1, WFMin
  <1>3. \A x, y \in Nat : ~(<<y, x>> \in R) => x <= y
    BY DEF R
  <1>4. QED
    BY <1>2, <1>3

-----------------------------------------------------------------------------
(* The batch processor: an inventory of its tasks.                         *)

Valid == {i \in DOMAIN batch : ValidationError(batch[i]) = ""}

NumTasks == Cardinality(Valid)

Unstarted ==
    /\ poolResults = <<>> /\ nextIndex = 1
    /\ \A w \in Workers : holding[w] = 0
    /\ \A i \in DOMAIN batch : simulations[i] = 0

(* Every task taken is held by one worker or has its result; the tasks     *)
(* taken are those profiled; and while there are tasks left a worker is at *)
(* work.                                                                   *)
Underway ==
    /\ NumTasks > 0 /\ DOMAIN poolResults = 1 .. NumTasks
    /\ nextIndex \in 1 .. NumTasks + 1
    /\ \A w \in Workers : holding[w] \in 0 .. nextIndex - 1
    /\ \A v, w \in Workers : holding[v] = holding[w] /\ holding[v] # 0 => v = w
    /\ \A j \in 1 .. NumTasks :
          \/ j >= nextIndex
          \/ \E w \in Workers : holding[w] = j
          \/ poolResults[j] = ProcessEntry(PoolTasks[j])
    /\ nextIndex <= NumTasks => \E w \in Workers : holding[w] # 0
    /\ \A i \in DOMAIN batch :
          simulations[i] = IF \E j \in 1 .. NumTasks : j < nextIndex /\ PoolTasks[j] = i
                           THEN 1 ELSE 0

BatchInv ==
    /\ batch \in Seq(Descriptors)
    /\ DOMAIN holding = Workers /\ DOMAIN simulations = DOMAIN batch
    /\ Unstarted \/ Underway
    /\ returned => EachEntryOnce /\ \A w \in Workers : holding[w] = 0

(* A list of n places has length n. *)
LEMMA LenOfList ==
    ASSUME NEW n \in Nat, NEW f, f = [i \in 1 .. n |-> f[i]]
    PROVE  Len(f) = n
  <1>1. PICK S : S = {f[i] : i \in 1 .. n}
    OBVIOUS
  <1>2. f \in [1 .. n -> S]
    BY <1>1
  <1>3. QED
    BY <1>2

(* The pool has each valid entry as one task. *)
LEMMA Tasks ==
    ASSUME batch \in Seq(Descriptors)
    PROVE  /\ NumTasks \in Nat /\ Valid \subseteq DOMAIN batch
           /\ PoolTasks \in [1 .. NumTasks -> Valid] /\ Len(PoolTasks) = NumTasks
           /\ DOMAIN PoolTasks = 1 .. NumTasks
           /\ \A i \in Valid : \E j \in 1 .. NumTasks : PoolTasks[j] = i
           /\ \A j, k \in 1 .. NumTasks : PoolTasks[j] = PoolTasks[k] => j = k
  <1>1. DOMAIN batch = 1 .. Len(batch) /\ Len(batch) \in Nat
    OBVIOUS
  <1>2. IsFiniteSet(Valid) /\ Valid \subseteq Nat
    <2>1. 1 \in Int /\ Len(batch) \in Int
      BY <1>1
    <2>2. IsFiniteSet(1 .. Len(batch))
      BY <2>1, FS_Interval
    <2>3. Valid \in SUBSET (1 .. Len(batch))
      BY <1>1 DEF Valid
    <2>4. IsFiniteSet(Valid)
      BY <2>2, <2>3, FS_Subset
    <2>5. Valid \subseteq Nat
      BY <1>1, <2>3
    <2>6. QED
      BY <2>4, <2>5
  <1>3. TotalOrder(Valid, NotAbove(Valid))
    BY <1>2 DEF TotalOrder, NotAbove
  <1>4. PoolTasks = Sorted(Valid, NotAbove(Valid))
    BY DEF PoolTasks, Valid
  <1>5. /\ NumTasks \in Nat /\ PoolTasks \in [1 .. NumTasks -> Valid]
        /\ \A i \in Valid : \E j \in 1 .. NumTasks : PoolTasks[j] = i
        /\ \A j, k \in 1 .. NumTasks : PoolTasks[j] = PoolTasks[k] => j = k
    BY <1>2, <1>3, <1>4, SortedLists DEF NumTasks
  <1>6. Len(PoolTasks) = NumTasks
    BY <1>5
  <1>7. Valid \subseteq DOMAIN batch
    BY DEF Valid
  <1>9. DOMAIN PoolTasks = 1 .. NumTasks
    BY <1>5
  <1>10. QED
    BY <1>5, <1>6, <1>7, <1>9

(* A result says which entry it is of, and whether it is a duplicate. *)
LEMMA ResultOfEntry ==
    ASSUME NEW i
    PROVE  /\ ProcessEntry(i).index = i /\ ProcessEntry(i).duplicate = IsDuplicate(i)
           /\ ProcessEntry(i).error # "undefined"
  <1>2. \E ok : \E e \in {"PROFILER_ERROR", "GAS_LIMIT_EXCEEDED", "", "INVALID_REQUEST"} :
            ProcessEntry(i) = EntryResult(i, ok, e)
    BY DEF ProcessEntry
  <1>3. PICK ok : \E e \in {"PROFILER_ERROR", "GAS_LIMIT_EXCEEDED", "", "INVALID_REQUEST"} :
            ProcessEntry(i) = EntryResult(i, ok, e)
    BY <1>2
  <1>4. PICK e \in {"PROFILER_ERROR", "GAS_LIMIT_EXCEEDED", "", "INVALID_REQUEST"} :
            ProcessEntry(i) = EntryResult(i, ok, e)
    BY <1>3
  <1>5. e # "undefined"
    OBVIOUS
  <1>6. /\ ProcessEntry(i).index = i /\ ProcessEntry(i).error = e
        /\ ProcessEntry(i).duplicate = IsDuplicate(i)
    <2>1. PICK r, d : r = ProcessEntry(i) /\ d = IsDuplicate(i)
      OBVIOUS
    <2>2. r = [index |-> i, ok |-> ok, duplicate |-> d, error |-> e]
      BY <1>4, <2>1 DEF EntryResult
    <2>3. r.index = i /\ r.error = e /\ r.duplicate = d
      BY <2>2
    <2>4. QED
      BY <2>1, <2>3
  <1>7. QED
    BY <1>5, <1>6, Zenon

(* What depends on the batch alone stays. *)
LEMMA BatchStays ==
    ASSUME batch' = batch
    PROVE  /\ PoolTasks' = PoolTasks /\ Valid' = Valid /\ NumTasks' = NumTasks
           /\ \A i : ProcessEntry(i)' = ProcessEntry(i) /\ IsDuplicate(i)' = IsDuplicate(i)
  <1>1. PoolTasks' = PoolTasks /\ Valid' = Valid /\ NumTasks' = NumTasks
    BY DEF PoolTasks, Valid, NumTasks, ValidationError
  <1>2. \A i : IsDuplicate(i)' = IsDuplicate(i)
    BY DEF IsDuplicate
  <1>3. \A i : ProcessEntry(i)' = ProcessEntry(i)
    BY <1>2 DEF ProcessEntry, EntryResult
  <1>4. QED
    BY <1>1, <1>2, <1>3

(* Starting the workers. *)
LEMMA StartPoolKeeps ==
    ASSUME BatchInv, StartPool
    PROVE  BatchInv'
  <1>1. PICK T, N : T = PoolTasks /\ N = NumTasks
    OBVIOUS
  <1>2. /\ N \in Nat /\ T \in [1 .. N -> Valid] /\ Len(T) = N /\ DOMAIN T = 1 .. N
        /\ Valid \subseteq DOMAIN batch
        /\ \A j, k \in 1 .. N : T[j] = T[k] => j = k
    BY <1>1, Tasks DEF BatchInv
  <1>3. PICK n : n = Smallest(MaxConcurrency, N)
    OBVIOUS
  <1>4. /\ n \in 1 .. N /\ n <= MaxConcurrency /\ batch' = batch
        /\ DOMAIN poolResults' = 1 .. N
        /\ holding' = [w \in Workers |-> IF w <= n THEN w ELSE 0]
        /\ nextIndex' = n + 1
        /\ simulations' = [i \in DOMAIN batch |-> IF \E j \in 1 .. n : T[j] = i THEN 1 ELSE 0]
        /\ ~returned /\ returned' = returned
    BY <1>1, <1>2, <1>3, BatchAssumption DEF StartPool, Smallest
  <1>5. PoolTasks' = T /\ NumTasks' = N
    BY <1>1, <1>4, BatchStays
  <1>6. Underway'
    <2>1. \A w \in Workers : holding'[w] \in 0 .. nextIndex' - 1
      BY <1>2, <1>4 DEF Workers
    <2>2. \A v, w \in Workers : holding'[v] = holding'[w] /\ holding'[v] # 0 => v = w
      BY <1>2, <1>4 DEF Workers
    <2>3. \A j \in 1 .. N : j >= nextIndex' \/ \E w \in Workers : holding'[w] = j
      <3> SUFFICES ASSUME NEW j \in 1 .. N, ~(j >= nextIndex') PROVE holding'[j] = j /\ j \in Workers
        OBVIOUS
      <3>1. QED
        BY <1>2, <1>4, BatchAssumption DEF Workers
    <2>4. 1 \in Workers /\ holding'[1] # 0
      BY <1>2, <1>4, BatchAssumption DEF Workers
    <2>5. ASSUME NEW i \in DOMAIN batch
          PROVE  simulations'[i] = IF \E j \in 1 .. N : j < nextIndex' /\ T[j] = i THEN 1 ELSE 0
      <3>1. (\E j \in 1 .. N : j < nextIndex' /\ T[j] = i) <=> (\E j \in 1 .. n : T[j] = i)
        BY <1>2, <1>4
      <3>2. QED
        BY <1>4, <3>1
    <2>6. QED
      BY <1>2, <1>4, <1>5, <2>1, <2>2, <2>3, <2>4, <2>5 DEF Underway
  <1>7. QED
    BY <1>4, <1>6 DEF BatchInv

(* A worker finishes its task and takes the next. *)
LEMMA ResumeKeeps ==
    ASSUME BatchInv, NEW w \in Workers, Resume(w)
    PROVE  BatchInv'
  <1>1. PICK T, N, h, m : T = PoolTasks /\ N = NumTasks /\ h = holding[w] /\ m = nextIndex
    OBVIOUS
  <1>2. /\ N \in Nat /\ T \in [1 .. N -> Valid] /\ Len(T) = N /\ DOMAIN T = 1 .. N
        /\ Valid \subseteq DOMAIN batch
        /\ \A j, k \in 1 .. N : T[j] = T[k] => j = k
    BY <1>1, Tasks DEF BatchInv
  <1>3. Underway /\ h # 0 /\ ~returned /\ DOMAIN holding = Workers /\ DOMAIN simulations = DOMAIN batch
    BY <1>1 DEF BatchInv, Unstarted, Resume
  <1>4. N > 0 /\ m \in 1 .. N + 1 /\ h \in 1 .. m - 1 /\ h \in 1 .. N
    BY <1>1, <1>2, <1>3 DEF Underway
  <1>5. /\ batch' = batch /\ returned' = returned
        /\ poolResults' = [poolResults EXCEPT ![h] = ProcessEntry(T[h])]
    BY <1>1 DEF Resume
  <1>6. /\ PoolTasks' = T /\ NumTasks' = N
        /\ \A i : ProcessEntry(i)' = ProcessEntry(i)
    BY <1>1, <1>5, BatchStays
  <1>7. /\ DOMAIN poolResults' = 1 .. N /\ poolResults'[h] = ProcessEntry(T[h])
        /\ \A j \in 1 .. N : j # h => poolResults'[j] = poolResults[j]
    BY <1>1, <1>3, <1>4, <1>5 DEF Underway
  <1>8. /\ \A j \in 1 .. N : j >= m \/ (\E v \in Workers : holding[v] = j)
                             \/ poolResults[j] = ProcessEntry(T[j])
        /\ \A v \in Workers : holding[v] \in 0 .. m - 1
        /\ \A u, v \in Workers : holding[u] = holding[v] /\ holding[u] # 0 => u = v
        /\ \A i \in DOMAIN batch :
              simulations[i] = IF \E j \in 1 .. N : j < m /\ T[j] = i THEN 1 ELSE 0
    BY <1>1, <1>3 DEF Underway
  <1>9. CASE m <= N
    <2>1. /\ holding' = [holding EXCEPT ![w] = m] /\ nextIndex' = m + 1
          /\ simulations' = [simulations EXCEPT ![T[m]] = @ + 1]
      BY <1>1, <1>2, <1>9 DEF Resume
    <2>2. /\ holding'[w] = m /\ DOMAIN holding' = Workers
          /\ \A v \in Workers \ {w} : holding'[v] = holding[v]
      BY <1>3, <2>1
    <2>3. \A v \in Workers : holding'[v] \in 0 .. nextIndex' - 1
      BY <1>4, <1>8, <2>1, <2>2
    <2>4. \A u, v \in Workers : holding'[u] = holding'[v] /\ holding'[u] # 0 => u = v
      <3>1. \A v \in Workers : holding[v] # m
        BY <1>4, <1>8
      <3>2. QED
        BY <1>8, <2>2, <3>1
    <2>5. \A j \in 1 .. N : \/ j >= nextIndex' \/ \E v \in Workers : holding'[v] = j
                            \/ poolResults'[j] = ProcessEntry(T[j])
      <3> TAKE j \in 1 .. N
      <3>1. CASE j >= m
        BY <1>4, <2>1, <2>2, <3>1
      <3>2. CASE j = h
        BY <1>7, <3>2
      <3>3. ASSUME NEW v \in Workers, holding[v] = j, j # h PROVE holding'[v] = j
        BY <1>1, <2>2, <3>3
      <3>4. QED
        BY <1>7, <1>8, <3>1, <3>2, <3>3
    <2>6. T[m] \in DOMAIN batch /\ m \in 1 .. N
      BY <1>2, <1>4, <1>9
    <2>7. ASSUME NEW i \in DOMAIN batch
          PROVE  simulations'[i] = IF \E j \in 1 .. N : j < nextIndex' /\ T[j] = i THEN 1 ELSE 0
      <3>1. CASE i = T[m]
        <4>1. ~ \E j \in 1 .. N : j < m /\ T[j] = i
          BY <1>2, <1>4, <2>6, <3>1
        <4>2. simulations[i] = 0
          BY <1>8, <4>1
        <4>3. simulations'[i] = 1
          BY <1>3, <2>1, <2>6, <3>1, <4>2
        <4>4. m < nextIndex'
          BY <1>4, <2>1
        <4>5. QED
          BY <2>6, <3>1, <4>3, <4>4
      <3>2. CASE i # T[m]
        <4>1. simulations'[i] = simulations[i]
          BY <1>3, <2>1, <3>2
        <4>2. (\E j \in 1 .. N : j < m /\ T[j] = i) <=> (\E j \in 1 .. N : j < nextIndex' /\ T[j] = i)
          BY <1>4, <2>1, <3>2
        <4>3. QED
          BY <1>8, <4>1, <4>2
      <3>3. QED
        BY <3>1, <3>2
    <2>8. nextIndex' \in 1 .. N + 1 /\ holding'[w] # 0
      BY <1>2, <1>4, <1>9, <2>1, <2>2
    <2>9. Underway'
      BY <1>4, <1>5, <1>6, <1>7, <2>3, <2>4, <2>5, <2>7, <2>8 DEF Underway
    <2>10. DOMAIN simulations' = DOMAIN batch'
      BY <1>3, <1>5, <2>1
    <2>11. QED
      BY <1>3, <1>5, <2>2, <2>9, <2>10 DEF BatchInv
  <1>10. CASE ~(m <= N)
    <2>1. holding' = [holding EXCEPT ![w] = 0] /\ UNCHANGED <<nextIndex, simulations>>
      BY <1>1, <1>2, <1>10 DEF Resume
    <2>2. /\ holding'[w] = 0 /\ DOMAIN holding' = Workers
          /\ \A v \in Workers \ {w} : holding'[v] = holding[v]
      BY <1>3, <2>1
    <2>3. \A v \in Workers : holding'[v] \in 0 .. m - 1
      BY <1>4, <1>8, <2>2
    <2>4. \A u, v \in Workers : holding'[u] = holding'[v] /\ holding'[u] # 0 => u = v
      BY <1>8, <2>2
    <2>5. \A j \in 1 .. N : \/ j >= m \/ \E v \in Workers : holding'[v] = j
                            \/ poolResults'[j] = ProcessEntry(T[j])
      <3> TAKE j \in 1 .. N
      <3>1. CASE j = h
        BY <1>7, <3>1
      <3>2. ASSUME NEW v \in Workers, holding[v] = j, j # h PROVE holding'[v] = j
        BY <1>1, <2>2, <3>2
      <3>3. QED
        BY <1>7, <1>8, <3>1, <3>2
    <2>6. Underway'
      BY <1>1, <1>4, <1>5, <1>6, <1>7, <1>8, <1>10, <2>1, <2>3, <2>4, <2>5 DEF Underway
    <2>7. QED
      BY <1>3, <1>5, <2>1, <2>2, <2>6 DEF BatchInv
  <1>11. QED
    BY <1>9, <1>10

(* The call returns, having dealt with every entry once. *)
LEMMA ReturnKeeps ==
    ASSUME BatchInv, Return
    PROVE  BatchInv'
  <1>1. PICK T, N : T = PoolTasks /\ N = NumTasks
    OBVIOUS
  <1>2. /\ N \in Nat /\ T \in [1 .. N -> Valid] /\ DOMAIN T = 1 .. N /\ Len(T) = N
        /\ \A i \in Valid : \E j \in 1 .. N : T[j] = i
        /\ \A j, k \in 1 .. N : T[j] = T[k] => j = k
    BY <1>1, Tasks DEF BatchInv
  <1>3. /\ UNCHANGED <<batch, nextIndex, holding, poolResults, simulations>>
        /\ \A w \in Workers : holding[w] = 0
        /\ Started \/ PoolTasks = <<>>
        /\ DOMAIN entries' = DOMAIN batch
        /\ \A i \in DOMAIN batch : entries'[i] =
              IF ValidationError(batch[i]) # ""
              THEN EntryResult(i, FALSE, ValidationError(batch[i]))
              ELSE poolResults[CHOOSE j \in DOMAIN PoolTasks : PoolTasks[j] = i]
    BY DEF Return, PoolDone
  <1>4. /\ \A j \in 1 .. N : poolResults[j] = ProcessEntry(T[j])
        /\ \A i \in DOMAIN batch : simulations[i] = IF i \in Valid THEN 1 ELSE 0
    <2>1. CASE Unstarted
      <3>1. N = 0
        <4>1. PoolTasks = <<>>
          BY <1>3, <2>1 DEF Started, Unstarted
        <4>2. QED
          BY <1>1, <1>2, <4>1
      <3>2. Valid = {}
        BY <1>2, <3>1
      <3>3. QED
        BY <2>1, <3>1, <3>2 DEF Unstarted
    <2>2. CASE Underway
      <3>0. /\ nextIndex \in 1 .. N + 1
            /\ nextIndex <= N => \E w \in Workers : holding[w] # 0
            /\ \A j \in 1 .. N : \/ j >= nextIndex \/ \E w \in Workers : holding[w] = j
                                 \/ poolResults[j] = ProcessEntry(T[j])
        BY <1>1, <2>2 DEF Underway
      <3>1. nextIndex = N + 1
        <4>1. ~(nextIndex <= N)
          BY <1>3, <3>0
        <4>2. QED
          BY <1>2, <3>0, <4>1
      <3>2. ASSUME NEW j \in 1 .. N PROVE poolResults[j] = ProcessEntry(T[j])
        <4>1. ~(j >= nextIndex) /\ j # 0
          BY <1>2, <3>1
        <4>2. QED
          BY <1>3, <3>0, <4>1
      <3>3. \A i \in DOMAIN batch : (\E j \in 1 .. N : j < nextIndex /\ T[j] = i) <=> i \in Valid
        BY <1>2, <3>1
      <3>4. QED
        BY <1>1, <2>2, <3>2, <3>3 DEF Underway
    <2>3. QED
      BY <2>1, <2>2 DEF BatchInv
  <1>5. ASSUME NEW i \in DOMAIN batch
        PROVE  /\ entries'[i].index = i /\ entries'[i].error # "undefined"
               /\ entries'[i].duplicate = IsDuplicate(i)
    <2>1. CASE i \in Valid
      <3>1. PICK j : j = CHOOSE k \in DOMAIN PoolTasks : PoolTasks[k] = i
        OBVIOUS
      <3>2. \E k \in DOMAIN PoolTasks : PoolTasks[k] = i
        BY <1>1, <1>2, <2>1
      <3>3. j \in 1 .. N /\ T[j] = i
        BY <1>1, <1>2, <3>1, <3>2
      <3>4. entries'[i] = poolResults[j]
        BY <1>3, <2>1, <3>1 DEF Valid
      <3>5. entries'[i] = ProcessEntry(i)
        BY <1>4, <3>3, <3>4
      <3>6. QED
        BY <3>5, ResultOfEntry
    <2>2. CASE i \notin Valid
      <3>1. PICK e \in {"INVALID_DESCRIPTOR", "PAYLOAD_TOO_LARGE"} : e = ValidationError(batch[i])
        BY <2>2 DEF Valid, ValidationError
      <3>2. entries'[i] = EntryResult(i, FALSE, e)
        BY <1>3, <3>1
      <3>3. QED
        BY <3>2 DEF EntryResult
    <2>3. QED
      BY <2>1, <2>2
  <1>6. EachEntryOnce'
    <2>1. Len(entries') = Len(batch) /\ DOMAIN batch = 1 .. Len(batch) /\ Len(batch) \in Nat
      <3>1. DOMAIN batch = 1 .. Len(batch) /\ Len(batch) \in Nat
        BY DEF BatchInv
      <3>2. DOMAIN entries' = 1 .. Len(batch)
        BY <1>3, <3>1
      <3>3. entries' = [i \in 1 .. Len(batch) |-> entries'[i]]
        <4>1. PICK es : es = entries'
          OBVIOUS
        <4> DEFINE result(i) ==
                IF ValidationError(batch[i]) # ""
                THEN EntryResult(i, FALSE, ValidationError(batch[i]))
                ELSE poolResults[CHOOSE j \in DOMAIN PoolTasks : PoolTasks[j] = i]
        <4>2. es = [i \in DOMAIN batch |-> result(i)]
          BY <4>1 DEF Return
        <4> HIDE DEF result
        <4>3. es = [i \in DOMAIN es |-> es[i]]
          BY <4>2
        <4>4. QED
          BY <3>2, <4>1, <4>3
      <3>4. Len(entries') = Len(batch)
        BY <3>1, <3>3, LenOfList
      <3>5. QED
        BY <3>1, <3>4
    <2>2. ASSUME NEW i \in DOMAIN batch
          PROVE  simulations'[i] = IF ValidationError(batch[i]) = "" THEN 1 ELSE 0
      BY <1>3, <1>4 DEF Valid
    <2>3. ASSUME NEW i \in DOMAIN batch, NEW j \in DOMAIN batch, i # j,
                 batch[i].object, batch[j].object, batch[i].print = batch[j].print
          PROVE  entries'[i].duplicate
      BY <1>5, <2>3 DEF IsDuplicate
    <2>4. QED
      BY <1>3, <1>5, <2>1, <2>2, <2>3 DEF EachEntryOnce, ValidationError
  <1>7. /\ PoolTasks' = PoolTasks /\ NumTasks' = NumTasks
        /\ \A i : ProcessEntry(i)' = ProcessEntry(i)
        /\ UNCHANGED <<batch, nextIndex, holding, poolResults, simulations>>
    BY <1>3, BatchStays
  <1>8. (Unstarted \/ Underway)'
    BY <1>7 DEF BatchInv, Unstarted, Underway
  <1>9. QED
    BY <1>3, <1>6, <1>8 DEF BatchInv

(* For any batch and any number of workers, in whatever order they go on:  *)
(* a batch that is returned has for every entry its own result in its own  *)
(* place, and profiled each valid entry once.                              *)
THEOREM BatchIsExact == BatchSpec => [](returned => EachEntryOnce)
  <1>1. BatchInit => BatchInv
    <2> SUFFICES ASSUME BatchInit PROVE BatchInv
      OBVIOUS
    <2>1. batch \in Seq(Descriptors)
      BY BatchAssumption DEF BatchInit
    <2>2. QED
      BY <2>1 DEF BatchInit, BatchInv, Unstarted
  <1>2. BatchInv /\ [BatchNext]_batchVars => BatchInv'
    <2> SUFFICES ASSUME BatchInv, [BatchNext]_batchVars PROVE BatchInv'
      OBVIOUS
    <2>1. CASE UNCHANGED batchVars
      <3>1. /\ UNCHANGED <<batch, nextIndex, holding, poolResults, entries, returned, simulations>>
            /\ PoolTasks' = PoolTasks /\ NumTasks' = NumTasks
            /\ \A i : ProcessEntry(i)' = ProcessEntry(i)
        BY <2>1, BatchStays DEF batchVars
      <3>2. (Unstarted \/ Underway)' /\ (EachEntryOnce => EachEntryOnce')
        BY <3>1 DEF BatchInv, Unstarted, Underway, EachEntryOnce, ValidationError
      <3>3. QED
        BY <3>1, <3>2 DEF BatchInv
    <2>2. QED
      BY <2>1, StartPoolKeeps, ResumeKeeps, ReturnKeeps DEF BatchNext
  <1>3. BatchInv => (returned => EachEntryOnce)
    BY DEF BatchInv
  <1>4. QED
    BY <1>1, <1>2, <1>3, PTL DEF BatchSpec

-----------------------------------------------------------------------------
(* The policy bundle: what is signed is what is read.                      *)

(* The place of the later entry of a path. *)
LastOf(files, p) ==
    CHOOSE i \in DOMAIN files :
        files[i].path = p /\ \A j \in DOMAIN files : files[j].path = p => j <= i

(* A path that is listed has a last entry. *)
LEMMA LastOfExists ==
    ASSUME NEW files \in Seq(Files), NEW p \in {files[i].path : i \in DOMAIN files}
    PROVE  \E i \in DOMAIN files :
              files[i].path = p /\ \A j \in DOMAIN files : files[j].path = p => j <= i
  <1> DEFINE S == {i \in DOMAIN files : files[i].path = p}
  <1>1. Len(files) \in Nat /\ DOMAIN files = 1 .. Len(files)
    OBVIOUS
  <1>2. S \subseteq 1 .. Len(files) /\ S # {}
    BY <1>1
  <1> HIDE DEF S
  <1>3. IsFiniteSet(S) /\ TotalOrder(S, NotAbove(S))
    BY <1>1, <1>2, PositionsOrdered
  <1>4. PICK n, o : n = Cardinality(S) /\ o = Sorted(S, NotAbove(S))
    OBVIOUS
  <1>5. /\ n \in Nat /\ o \in [1 .. n -> S]
        /\ \A x \in S : \E k \in 1 .. n : o[k] = x
        /\ \A k, l \in 1 .. n : k <= l => <<o[k], o[l]>> \in NotAbove(S)
    BY <1>3, <1>4, SortedLists
  <1>6. n \in 1 .. n
    <2>1. PICK x \in S : TRUE
      BY <1>2
    <2>2. PICK k \in 1 .. n : o[k] = x
      BY <1>5
    <2>3. QED
      BY <1>5, <2>2
  <1>7. o[n] \in S
    BY <1>5, <1>6
  <1>8. \A j \in S : j <= o[n]
    <2>1. \A x, y \in S : <<x, y>> \in NotAbove(S) => x <= y
      BY DEF NotAbove
    <2>2. ASSUME NEW j \in S PROVE j <= o[n]
      <3>1. PICK k \in 1 .. n : o[k] = j
        BY <1>5
      <3>2. k <= n
        BY <1>5
      <3>3. QED
        BY <1>5, <1>6, <1>7, <2>1, <3>1, <3>2
    <2>3. QED
      BY <2>2
  <1>9. QED
    BY <1>7, <1>8 DEF S

(* Built as a map, a list gives each path what its last entry says. *)
LEMMA AsMapOf ==
    ASSUME NEW files \in Seq(Files)
    PROVE  AsMap(files) = [p \in {files[i].path : i \in DOMAIN files} |->
                              files[LastOf(files, p)].sha256]
  BY DEF AsMap, LastOf

(* Sorting the entries by path leaves the map as it is: entries of one     *)
(* path keep their order, so that the same one counts.                     *)
LEMMA CanonicalKeepsMap ==
    ASSUME NEW files \in Seq(Files)
    PROVE  AsMap(CanonicalizeManifest(files)) = AsMap(files)
  <1>15. PICK D, R : D = DOMAIN files /\ R = ByPath(files, DOMAIN files)
    OBVIOUS
  <1>1. PICK n, c, o : /\ n = Len(files) /\ c = CanonicalizeManifest(files)
                       /\ o = Sorted(D, R)
    OBVIOUS
  <1>2. n \in Nat /\ D = 1 .. n
    BY <1>1, <1>15
  <1>3. c = [k \in D |-> files[o[k]]]
    BY <1>1, <1>15 DEF CanonicalizeManifest
  <1>4. PICK q : q = [i \in D |-> files[i].path]
    OBVIOUS
  <1>14. q \in [D -> Nat] /\ \A i \in D : files[i] \in Files /\ q[i] = files[i].path
    <2>1. \A i \in D : files[i] \in Files
      BY <1>15
    <2>2. \A i \in D : files[i].path \in Nat
      BY <2>1 DEF Files
    <2>3. QED
      BY <1>4, <2>1, <2>2
  <1>5. IsFiniteSet(D) /\ Cardinality(D) = n
    <2>1. 1 \in Int /\ n \in Int
      BY <1>2
    <2>2. IsFiniteSet(1 .. n) /\ Cardinality(1 .. n) = n
      BY <1>2, <2>1, FS_Interval
    <2>3. QED
      BY <1>2, <2>2
  <1>6. \A i, j \in D : <<i, j>> \in R <=> q[i] < q[j] \/ (q[i] = q[j] /\ i <= j)
    <2> SUFFICES ASSUME NEW i \in D, NEW j \in D
                 PROVE  <<i, j>> \in R <=> q[i] < q[j] \/ (q[i] = q[j] /\ i <= j)
      OBVIOUS
    <2>1. R = {r \in D \X D : NotAfter(files, r[1], r[2])}
      BY <1>15 DEF ByPath
    <2>4. <<i, j>> \in R <=> NotAfter(files, i, j)
      BY <2>1
    <2>2. q[i] = files[i].path /\ q[j] = files[j].path
      BY <1>14
    <2>3. QED
      BY <2>2, <2>4 DEF NotAfter
  <1>7. TotalOrder(D, R)
    <2>1. \A i \in D : i \in Nat /\ q[i] \in Nat
      BY <1>2, <1>14
    <2>2. \A x \in D : <<x, x>> \in R
      BY <1>6, <2>1
    <2>3. ASSUME NEW x \in D, NEW y \in D PROVE <<x, y>> \in R \/ <<y, x>> \in R
      <3>1. \/ q[x] < q[y] \/ (q[x] = q[y] /\ x <= y)
            \/ q[y] < q[x] \/ (q[y] = q[x] /\ y <= x)
        BY <2>1
      <3>2. QED
        BY <1>6, <3>1
    <2>4. \A x, y \in D : <<x, y>> \in R /\ <<y, x>> \in R => x = y
      BY <1>6, <2>1
    <2>5. \A x, y, z \in D : <<x, y>> \in R /\ <<y, z>> \in R => <<x, z>> \in R
      BY <1>6, <2>1
    <2>6. QED
      BY <2>2, <2>3, <2>4, <2>5 DEF TotalOrder
  <1>8. /\ o \in [D -> D]
        /\ \A i \in D : \E k \in D : o[k] = i
        /\ \A k, l \in D : o[k] = o[l] => k = l
        /\ \A k, l \in D : k <= l => <<o[k], o[l]>> \in R
    <2>1. QED
      BY <1>1, <1>2, <1>5, <1>7, SortedLists
  <1>9. c \in Seq(Files) /\ DOMAIN c = D /\ \A k \in D : c[k] = files[o[k]]
    <2>1. c \in [1 .. n -> Files]
      BY <1>2, <1>3, <1>14, <1>8
    <2>2. QED
      BY <1>2, <1>3, <2>1
  <1>10. {c[i].path : i \in DOMAIN c} = {files[i].path : i \in DOMAIN files}
    BY <1>8, <1>9, <1>15
  <1>11. ASSUME NEW p \in {files[i].path : i \in DOMAIN files}
         PROVE  c[LastOf(c, p)].sha256 = files[LastOf(files, p)].sha256
    <2>1. PICK i, k : i = LastOf(files, p) /\ k = LastOf(c, p)
      OBVIOUS
    <2>2. /\ i \in D /\ files[i].path = p
          /\ \A j \in D : files[j].path = p => j <= i
      BY <1>15, <2>1, LastOfExists DEF LastOf
    <2>3. /\ k \in D /\ c[k].path = p
          /\ \A j \in D : c[j].path = p => j <= k
      BY <1>9, <1>10, <2>1, LastOfExists DEF LastOf
    <2>4. PICK l \in D : o[l] = i
      BY <1>8, <2>2
    <2>5. l <= k /\ files[o[k]].path = p /\ o[k] \in D
      BY <1>8, <1>9, <2>2, <2>3, <2>4
    <2>6. o[k] <= i
      BY <2>2, <2>5
    <2>7. i <= o[k]
      <3>1. <<i, o[k]>> \in R
        BY <1>8, <2>3, <2>4, <2>5
      <3>2. q[i] = p /\ q[o[k]] = p /\ p \in Nat
        BY <1>14, <2>2, <2>5
      <3>3. QED
        BY <1>6, <2>2, <2>5, <3>1, <3>2
    <2>8. o[k] = i
      BY <1>2, <2>2, <2>5, <2>6, <2>7
    <2>9. QED
      BY <1>9, <2>1, <2>3, <2>8
  <1>12. QED
    BY <1>1, <1>9, <1>10, <1>11, AsMapOf

(* Until it is done, nothing is verified; what is verified was compared    *)
(* with a manifest of which a trusted signer signed the canonical form.    *)
Compared ==
    /\ signature.at = "present" /\ signature.key \in trustedSigners
    /\ \E m \in Manifests : AsMap(live) = AsMap(m) /\ signature.payload = CanonicalizeManifest(m)

BundleInv ==
    /\ manifestFile.files \in Manifests /\ manifestFile.at \in {"missing", "malformed", "present"}
    /\ signature.at \in {"missing", "malformed", "present"}
    /\ reading # "done" => bundle = NotVerified
    /\ bundle.verified => reading = "done" /\ Compared

(* Whatever others write to the policies and to the manifest while the     *)
(* verifier reads them: a bundle that is found verified was read exactly   *)
(* as a trusted signer signed it.                                          *)
THEOREM BundleIsSigned == BundleSpec => []VerifiedIsSigned
  <1>1. BundleInit => BundleInv
    <2> SUFFICES ASSUME BundleInit PROVE BundleInv
      OBVIOUS
    <2>1. ~bundle.verified /\ bundle = NotVerified
      BY DEF BundleInit, NotVerified
    <2>2. manifestFile.files \in Manifests /\ manifestFile.at = "present"
      BY DEF BundleInit
    <2>3. signature.at \in {"missing", "malformed", "present"}
      BY DEF BundleInit
    <2>4. QED
      BY <2>1, <2>2, <2>3 DEF BundleInv
  <1>2. BundleInv /\ [BundleNext]_bundleVars => BundleInv'
    <2> SUFFICES ASSUME BundleInv, [BundleNext]_bundleVars PROVE BundleInv'
      OBVIOUS
    <2>1. ASSUME UNCHANGED <<signature, trustedSigners, live>> PROVE Compared' = Compared
      BY <2>1 DEF Compared
    <2>2. ASSUME NEW p \in Paths, NEW c \in Policy \union {"absent"}, WritePolicy(p, c)
          PROVE  BundleInv'
      BY <2>1, <2>2 DEF WritePolicy, BundleInv
    <2>3. ASSUME NEW at \in {"missing", "malformed", "present"}, NEW m \in Manifests,
                 WriteManifest(at, m)
          PROVE  BundleInv'
      BY <2>1, <2>3 DEF WriteManifest, BundleInv
    <2>4. ASSUME NEW errors PROVE [NotVerified EXCEPT !.errors = errors].verified = FALSE
      BY DEF NotVerified
    <2>5. ~NotVerified.verified
      BY DEF NotVerified
    <2>6. CASE CollectBundleFiles
      BY <2>1, <2>4, <2>5, <2>6 DEF CollectBundleFiles, Fails, BundleInv
    <2>7. CASE ReadNext
      <3>1. UNCHANGED <<manifestFile, signature>> /\ reading = "reading"
        BY <2>7 DEF ReadNext
      <3>2. ~bundle'.verified /\ (reading' # "done" => bundle' = NotVerified)
        BY <2>4, <2>5, <2>7, <3>1 DEF ReadNext, Fails, BundleInv
      <3>3. QED
        BY <3>1, <3>2 DEF BundleInv
    <2>8. CASE Verify
      <3>1. PICK f, s : f = manifestFile.files /\ s = SignatureError(f)
        OBVIOUS
      <3>2. /\ UNCHANGED <<manifestFile, signature, trustedSigners, live>> /\ reading' = "done"
            /\ f \in Manifests
        BY <2>8, <3>1 DEF Verify, BundleInv
      <3>3. ASSUME bundle'.verified PROVE Compared
        <4>1. manifestFile.at = "present" /\ ~Drifted(f) /\ s = "none"
          BY <2>8, <3>1, <3>3 DEF Verify, BundleInv
        <4>2. /\ signature.at = "present" /\ signature.key \in trustedSigners
              /\ signature.payload = CanonicalizeManifest(f)
          BY <3>1, <4>1 DEF SignatureError, BundleInv
        <4>3. AsMap(live) = AsMap(f)
          BY <4>1 DEF Drifted
        <4>4. QED
          BY <3>2, <4>2, <4>3 DEF Compared
      <3>4. QED
        BY <2>1, <3>2, <3>3 DEF BundleInv
    <2>9. CASE UNCHANGED bundleVars
      BY <2>1, <2>9 DEF bundleVars, BundleInv
    <2>10. QED
      BY <2>2, <2>3, <2>6, <2>7, <2>8, <2>9 DEF BundleNext
  <1>3. BundleInv => VerifiedIsSigned
    <2> SUFFICES ASSUME BundleInv, bundle.verified PROVE VerifiedIsSigned
      BY DEF VerifiedIsSigned
    <2>1. PICK m \in Manifests :
              AsMap(live) = AsMap(m) /\ signature.payload = CanonicalizeManifest(m)
      BY DEF BundleInv, Compared
    <2>2. AsMap(signature.payload) = AsMap(m)
      BY <2>1, CanonicalKeepsMap, BundleAssumption
    <2>3. QED
      BY <2>1, <2>2 DEF BundleInv, Compared, VerifiedIsSigned
  <1>4. QED
    BY <1>1, <1>2, <1>3, PTL DEF BundleSpec

-----------------------------------------------------------------------------
(* Severity tiers: no event of a burst is forgotten.                       *)

(* The events that the last one of times finds in its window. *)
RecentOf(times) ==
    {i \in DOMAIN times : times[i] >= times[Len(times)] - BurstWindowSecs}

(* Each of them has its own place in the history that is kept. *)
Covers(history, times) ==
    \E f \in [RecentOf(times) -> DOMAIN history] :
        /\ \A i, j \in RecentOf(times) : f[i] = f[j] => i = j
        /\ \A i \in RecentOf(times) : history[f[i]] = times[i]

(* Trimming the history on an arrival loses no event of the window. *)
LEMMA HistoryCovers ==
    ASSUME NEW a \in Seq(Int), NEW h \in Seq(Int), NEW now \in Int,
           InOrder(a) => Covers(h, a),
           NEW b, b = Append(a, now), NEW g, g = Append(ValidHistory(h, now), now)
    PROVE  /\ b \in Seq(Int) /\ g \in Seq(Int)
           /\ InOrder(b) => Covers(g, b)
           /\ InOrder(b) => Cardinality(RecentOf(b)) <= Len(g)
  <1>1. PICK n, P, t : /\ n = Len(a) /\ P = {i \in DOMAIN h : h[i] >= now - BurstWindowSecs}
                       /\ t = Kept(h, P)
    OBVIOUS
  <1>2. n \in Nat /\ DOMAIN a = 1 .. n
    BY <1>1
  <1>3. /\ b \in Seq(Int) /\ Len(b) = n + 1 /\ DOMAIN b = 1 .. n + 1
        /\ b[n + 1] = now /\ \A i \in 1 .. n : b[i] = a[i]
    BY <1>1, <1>2
  <1>4. g = Append(t, now)
    BY <1>1 DEF ValidHistory
  <1>5. P \in SUBSET DOMAIN h
    BY <1>1
  <1>6. t \in Seq(Int) /\ Len(t) \in Nat /\ \E o : Filters(o, h, P, t)
    BY <1>1, <1>5, KeptList
  <1>12. PICK o : Filters(o, h, P, t)
    BY <1>6
  <1>13. /\ o \in [1 .. Len(t) -> P]
         /\ \A k \in 1 .. Len(t) : t[k] = h[o[k]]
         /\ \A i \in P : \E k \in 1 .. Len(t) : o[k] = i
    BY <1>12 DEF Filters
  <1>7. PICK m : m = Len(t)
    OBVIOUS
  <1>8. /\ m \in Nat /\ g \in Seq(Int) /\ Len(g) = m + 1 /\ DOMAIN g = 1 .. m + 1
        /\ g[m + 1] = now /\ \A k \in 1 .. m : g[k] = t[k]
    BY <1>4, <1>6, <1>7
  <1>9. RecentOf(b) = {i \in 1 .. n + 1 : b[i] >= now - BurstWindowSecs}
    BY <1>3 DEF RecentOf
  <1>10. ASSUME InOrder(b) PROVE Covers(g, b) /\ Cardinality(RecentOf(b)) <= Len(g)
    <2>1. InOrder(a) /\ \A i \in 1 .. n : a[i] <= now
      <3>1. \A i, j \in 1 .. n + 1 : i < j => b[i] <= b[j]
        BY <1>3, <1>10 DEF InOrder
      <3>2. ASSUME NEW i \in 1 .. n, NEW j \in 1 .. n, i < j PROVE a[i] <= a[j]
        <4>1. i \in 1 .. n + 1 /\ j \in 1 .. n + 1
          BY <1>2
        <4>2. QED
          BY <1>3, <3>1, <3>2, <4>1
      <3>3. ASSUME NEW i \in 1 .. n PROVE a[i] <= now
        <4>1. i \in 1 .. n + 1 /\ n + 1 \in 1 .. n + 1 /\ i < n + 1
          BY <1>2
        <4>2. QED
          BY <1>3, <3>1, <4>1
      <3>4. QED
        BY <1>2, <3>2, <3>3 DEF InOrder
    <2>2. PICK f \in [RecentOf(a) -> DOMAIN h] :
            /\ \A i, j \in RecentOf(a) : f[i] = f[j] => i = j
            /\ \A i \in RecentOf(a) : h[f[i]] = a[i]
      BY <2>1 DEF Covers
    <2>3. ASSUME NEW i \in RecentOf(b), i # n + 1
          PROVE  i \in RecentOf(a) /\ f[i] \in P /\ \E k \in 1 .. m : o[k] = f[i]
      <3>1. i \in 1 .. n /\ a[i] >= now - BurstWindowSecs
        BY <1>2, <1>3, <1>9, <2>3
      <3>2. n \in 1 .. n /\ a[n] \in Int /\ a[n] <= now /\ a[i] \in Int
        BY <1>2, <2>1, <3>1
      <3>3. a[i] >= a[n] - BurstWindowSecs
        <4>1. PICK x, y, z : x = a[i] /\ y = a[n] /\ z = BurstWindowSecs
          OBVIOUS
        <4>2. x \in Int /\ y \in Int /\ z \in Int /\ x >= now - z /\ y <= now
          BY <3>1, <3>2, <4>1, TieringAssumption
        <4>3. x >= y - z
          BY <4>2
        <4>4. QED
          BY <4>1, <4>3
      <3>4. i \in RecentOf(a)
        BY <1>1, <1>2, <3>1, <3>3 DEF RecentOf
      <3>5. f[i] \in P
        BY <1>1, <2>2, <3>1, <3>4
      <3>6. QED
        BY <1>7, <1>13, <3>4, <3>5
    <2> DEFINE e == [i \in RecentOf(b) |->
                        IF i = n + 1 THEN m + 1 ELSE CHOOSE k \in 1 .. m : o[k] = f[i]]
    <2>4. ASSUME NEW i \in RecentOf(b)
          PROVE  \/ i = n + 1 /\ e[i] = m + 1
                 \/ i # n + 1 /\ e[i] \in 1 .. m /\ o[e[i]] = f[i]
      BY <2>3
    <2> HIDE DEF e
    <2>5. e \in [RecentOf(b) -> DOMAIN g]
      <3>1. DOMAIN e = RecentOf(b) /\ e = [i \in RecentOf(b) |-> e[i]]
        BY DEF e
      <3>2. \A i \in RecentOf(b) : e[i] \in DOMAIN g
        BY <1>8, <2>4
      <3>3. QED
        BY <3>1, <3>2
    <2>6. ASSUME NEW i \in RecentOf(b), NEW j \in RecentOf(b), e[i] = e[j] PROVE i = j
      <3>1. CASE i = n + 1
        BY <1>8, <2>4, <2>6, <3>1
      <3>2. CASE j = n + 1
        BY <1>8, <2>4, <2>6, <3>2
      <3>3. CASE i # n + 1 /\ j # n + 1
        <4>1. f[i] = f[j]
          BY <2>4, <2>6, <3>3
        <4>2. QED
          BY <2>2, <2>3, <3>3, <4>1
      <3>4. QED
        BY <3>1, <3>2, <3>3
    <2>7. ASSUME NEW i \in RecentOf(b) PROVE g[e[i]] = b[i]
      <3>1. CASE i = n + 1
        BY <1>3, <1>8, <2>4, <3>1
      <3>2. CASE i # n + 1
        <4>1. i \in 1 .. n /\ b[i] = a[i]
          BY <1>3, <1>9, <3>2, <1>2
        <4>2. g[e[i]] = h[o[e[i]]]
          BY <1>7, <1>8, <1>13, <2>4, <3>2
        <4>3. QED
          BY <2>2, <2>3, <2>4, <3>2, <4>1, <4>2
      <3>3. QED
        BY <3>1, <3>2
    <2>8. Covers(g, b)
      BY <2>5, <2>6, <2>7 DEF Covers
    <2>9. Cardinality(RecentOf(b)) <= Len(g)
      <3>1. 1 \in Int /\ m + 1 \in Int
        BY <1>8
      <3>2. IsFiniteSet(DOMAIN g) /\ Cardinality(DOMAIN g) = m + 1
        BY <1>8, <3>1, FS_Interval
      <3>3. e \in Injection(RecentOf(b), DOMAIN g)
        BY <2>5, <2>6 DEF Injection, IsInjective
      <3>4. QED
        BY <1>8, <3>2, <3>3, FS_Injection
    <2>10. QED
      BY <2>8, <2>9
  <1>11. QED
    BY <1>3, <1>8, <1>10

TieringInv ==
    /\ eventHistory \in [EventTypes -> Seq(Int)] /\ arrivals \in [EventTypes -> Seq(Int)]
    /\ \A t \in EventTypes : InOrder(arrivals[t]) => Covers(eventHistory[t], arrivals[t])
    /\ action = NoAction \/ action.type \in EventTypes
    /\ BurstsRaise

(* With thresholds that do not rise from tier to tier, the two ways of     *)
(* raising never lower a tier, and a burst raises all but the highest.     *)
LEMMA RaisesTier ==
    ASSUME HighToCritical <= MediumToHigh, MediumToHigh <= LowToMedium,
           NEW base \in Tiers, NEW repeats \in Nat, NEW count \in Nat
    PROVE  /\ AfterBurst(AfterRepeats(base, repeats), count) >= base
           /\ base < 4 /\ count >= LowToMedium =>
                 AfterBurst(AfterRepeats(base, repeats), count) > base
  BY TieringAssumption DEF AfterBurst, AfterRepeats, Tiers

(* evaluateAndEscalate() raises as many tiers as the window demands. *)
LEMMA EvaluateKeeps ==
    ASSUME HighToCritical <= MediumToHigh, MediumToHigh <= LowToMedium, TieringInv,
           NEW type \in EventTypes, NEW raw \in Tiers, NEW marked \in Tiers,
           NEW repeats \in Repeats, NEW now \in 1 .. MaxEventTime,
           EvaluateAndEscalate(type, raw, marked, repeats, now)
    PROVE  TieringInv'
  <1>1. PICK a, h, b, g, base, tier :
          /\ a = arrivals[type] /\ h = eventHistory[type]
          /\ b = Append(a, now) /\ g = Append(ValidHistory(h, now), now)
          /\ base = Higher(raw, marked)
          /\ tier = AfterBurst(AfterRepeats(base, repeats), Len(g))
    OBVIOUS
  <1>2. /\ eventHistory' = [eventHistory EXCEPT ![type] = g]
        /\ arrivals' = [arrivals EXCEPT ![type] = b]
        /\ action' = [tier |-> tier, base |-> base, type |-> type, targets |-> Targets(tier)]
    BY <1>1 DEF EvaluateAndEscalate
  <1>3. a \in Seq(Int) /\ h \in Seq(Int) /\ now \in Int /\ (InOrder(a) => Covers(h, a))
    BY <1>1, TieringAssumption DEF TieringInv
  <1>4. /\ b \in Seq(Int) /\ g \in Seq(Int) /\ (InOrder(b) => Covers(g, b))
        /\ InOrder(b) => Cardinality(RecentOf(b)) <= Len(g)
    BY <1>1, <1>3, HistoryCovers
  <1>5. base \in Tiers /\ repeats \in Nat /\ Len(g) \in Nat
    BY <1>1, <1>4, TieringAssumption DEF Higher, Tiers, Repeats
  <1>6. tier >= base /\ (base < 4 /\ Len(g) >= LowToMedium => tier > base)
    BY <1>1, <1>5, RaisesTier
  <1>7. /\ eventHistory' \in [EventTypes -> Seq(Int)] /\ arrivals' \in [EventTypes -> Seq(Int)]
        /\ eventHistory'[type] = g /\ arrivals'[type] = b
        /\ \A t \in EventTypes \ {type} :
              eventHistory'[t] = eventHistory[t] /\ arrivals'[t] = arrivals[t]
    BY <1>2, <1>4 DEF TieringInv
  <1>8. \A t \in EventTypes : InOrder(arrivals'[t]) => Covers(eventHistory'[t], arrivals'[t])
    BY <1>4, <1>7 DEF TieringInv
  <1>9. action'.type = type /\ action'.tier = tier /\ action'.base = base
    BY <1>2
  <1>10. b[Len(b)] = now
    BY <1>1, <1>3
  <1>11. BurstsRaise'
    <2>1. PICK burst : burst = Cardinality(RecentOf(b))
      OBVIOUS
    <2>2. burst = Cardinality({i \in DOMAIN b : b[i] >= b[Len(b)] - BurstWindowSecs})
      BY <2>1 DEF RecentOf
    <2>3. burst \in Nat
      <3>1. 1 \in Int /\ Len(b) \in Int /\ DOMAIN b = 1 .. Len(b)
        BY <1>4
      <3>2. IsFiniteSet(DOMAIN b)
        BY <3>1, FS_Interval
      <3>3. RecentOf(b) \in SUBSET DOMAIN b
        BY DEF RecentOf
      <3>4. QED
        BY <2>1, <3>2, <3>3, FS_Subset, FS_CardinalityType
    <2>4. InOrder(b) /\ base < 4 /\ burst >= LowToMedium => tier > base
      BY <1>4, <1>5, <1>6, <2>1, <2>3, TieringAssumption
    <2>5. QED
      BY <1>6, <1>7, <1>9, <2>2, <2>4 DEF BurstsRaise
  <1>12. QED
    BY <1>7, <1>8, <1>9, <1>11 DEF TieringInv

(* With thresholds that do not rise from tier to tier (the defaults are    *)
(* equal): the tier is never below what the event has by itself, and an    *)
(* event that completes a burst is raised unless it is CRITICAL, if the    *)
(* events of its type came in the order of their time.                     *)
THEOREM BurstsAreRaised ==
    ASSUME HighToCritical <= MediumToHigh, MediumToHigh <= LowToMedium
    PROVE  TieringSpec => []BurstsRaise
  <1>1. TieringInit => TieringInv
    <2> SUFFICES ASSUME TieringInit PROVE TieringInv
      OBVIOUS
    <2>1. <<>> \in Seq(Int) /\ RecentOf(<<>>) = {}
      BY DEF RecentOf
    <2>2. Covers(<<>>, <<>>)
      <3>1. [i \in {} |-> 0] \in [{} -> DOMAIN <<>>]
        OBVIOUS
      <3>2. QED
        BY <2>1, <3>1 DEF Covers
    <2>3. QED
      BY <2>1, <2>2 DEF TieringInit, TieringInv, BurstsRaise
  <1>2. TieringInv /\ [TieringNext]_tieringVars => TieringInv'
    <2> SUFFICES ASSUME TieringInv, [TieringNext]_tieringVars PROVE TieringInv'
      OBVIOUS
    <2>1. ASSUME UNCHANGED <<eventHistory, action, arrivals>> PROVE TieringInv'
      BY <2>1 DEF TieringInv, BurstsRaise
    <2>2. CASE Refused \/ UNCHANGED tieringVars
      BY <2>1, <2>2 DEF Refused, tieringVars
    <2>3. ASSUME NEW pushed \in BOOLEAN, NEW paged \in BOOLEAN, DispatchEscalation(pushed, paged)
          PROVE  TieringInv'
      BY <2>1, <2>3 DEF DispatchEscalation
    <2>4. QED
      BY <2>2, <2>3, EvaluateKeeps DEF TieringNext
  <1>3. TieringInv => BurstsRaise
    BY DEF TieringInv
  <1>4. QED
    BY <1>1, <1>2, <1>3, PTL DEF TieringSpec

-----------------------------------------------------------------------------
(* Traffic: a Map is a list in which an id has one entry.                  *)

UniqueIds(map) == \A i, j \in DOMAIN map : map[i].id = map[j].id => i = j

(* Looking up the id of an entry finds that entry. *)
LEMMA GetIs ==
    ASSUME NEW map, UniqueIds(map), NEW i \in DOMAIN map
    PROVE  Get(map, map[i].id) = map[i]
  <1>1. PICK k : k = CHOOSE j \in DOMAIN map : map[j].id = map[i].id
    OBVIOUS
  <1>2. k \in DOMAIN map /\ map[k].id = map[i].id
    BY <1>1
  <1>3. k = i
    BY <1>2 DEF UniqueIds
  <1>4. QED
    BY <1>1, <1>3 DEF Get

(* Looking up an id that is present finds an entry with it. *)
LEMMA GetOf ==
    ASSUME NEW map, UniqueIds(map), NEW c \in Ids(map)
    PROVE  \E i \in DOMAIN map : map[i].id = c /\ Get(map, c) = map[i]
  BY GetIs DEF Ids

(* What a filter leaves of a Map: the entries that are kept, as they were. *)
LEMMA FilterMap ==
    ASSUME NEW E, NEW m \in Seq(E), UniqueIds(m), NEW P \in SUBSET DOMAIN m,
           NEW t, t = Kept(m, P)
    PROVE  /\ t \in Seq(E) /\ UniqueIds(t) /\ Ids(t) \subseteq Ids(m)
           /\ \A i \in P : m[i].id \in Ids(t)
           /\ \A d \in Ids(t) : \E i \in P : m[i].id = d
           /\ \A d \in Ids(t) : Get(t, d) = Get(m, d)
           /\ Len(t) \in Nat /\ Len(t) = Cardinality(P)
  <1>1. /\ t \in Seq(E) /\ Len(t) \in Nat /\ Len(t) = Cardinality(P)
        /\ \E o : Filters(o, m, P, t)
    BY KeptList
  <1>2. PICK o : Filters(o, m, P, t)
    BY <1>1
  <1>3. /\ o \in [1 .. Len(t) -> P] /\ DOMAIN t = 1 .. Len(t)
        /\ \A k \in 1 .. Len(t) : t[k] = m[o[k]]
        /\ \A i \in P : \E k \in 1 .. Len(t) : o[k] = i
        /\ \A k, l \in 1 .. Len(t) : k < l => o[k] < o[l]
    BY <1>1, <1>2 DEF Filters
  <1>4. DOMAIN m = 1 .. Len(m) /\ Len(m) \in Nat
    OBVIOUS
  <1>5. UniqueIds(t)
    <2> SUFFICES ASSUME NEW k \in DOMAIN t, NEW l \in DOMAIN t, t[k].id = t[l].id
                 PROVE  k = l
      BY DEF UniqueIds
    <2>1. o[k] = o[l]
      BY <1>3 DEF UniqueIds
    <2>2. k \in Nat /\ l \in Nat /\ o[k] \in Nat
      BY <1>1, <1>3, <1>4
    <2>3. QED
      BY <1>3, <2>1, <2>2
  <1>6. \A i \in P : m[i].id \in Ids(t)
    BY <1>3 DEF Ids
  <1>7. ASSUME NEW d \in Ids(t) PROVE \E i \in P : m[i].id = d /\ Get(t, d) = Get(m, d)
    <2>1. PICK k \in DOMAIN t : t[k].id = d
      BY DEF Ids
    <2>2. o[k] \in P /\ t[k] = m[o[k]]
      BY <1>3
    <2>3. Get(t, d) = t[k]
      BY <1>5, <2>1, GetIs
    <2>4. Get(m, d) = m[o[k]]
      BY <2>1, <2>2, GetIs
    <2>5. QED
      BY <2>1, <2>2, <2>3, <2>4
  <1>8. Ids(t) \subseteq Ids(m)
    BY <1>7 DEF Ids
  <1>9. QED
    BY <1>1, <1>5, <1>6, <1>7, <1>8

(* Filtering does not lengthen a list, and shortens it if something goes. *)
LEMMA FilterShorter ==
    ASSUME NEW E, NEW m \in Seq(E), NEW P \in SUBSET DOMAIN m
    PROVE  /\ Cardinality(P) \in Nat /\ Cardinality(P) <= Len(m)
           /\ P # DOMAIN m => Cardinality(P) < Len(m)
  <1>1. PICK n : n = Len(m)
    OBVIOUS
  <1>2. n \in Nat /\ DOMAIN m = 1 .. n /\ 1 \in Int /\ n \in Int
    BY <1>1
  <1>3. IsFiniteSet(DOMAIN m) /\ Cardinality(DOMAIN m) = n
    BY <1>2, FS_Interval
  <1>4. /\ IsFiniteSet(P) /\ Cardinality(P) <= n
        /\ Cardinality(P) = n => P = DOMAIN m
    BY <1>3, FS_Subset
  <1>5. Cardinality(P) \in Nat
    BY <1>4, FS_CardinalityType
  <1>6. QED
    BY <1>1, <1>2, <1>4, <1>5

(* t is the Map m with the entry e of c behind it. *)
Extended(t, m, c, e) ==
    /\ UniqueIds(t) /\ Ids(t) = Ids(m) \union {c}
    /\ Get(t, c) = e /\ \A d \in Ids(m) : Get(t, d) = Get(m, d)
    /\ Len(t) = Len(m) + 1

(* An entry for an id that is absent. *)
LEMMA AppendMap ==
    ASSUME NEW E, NEW m \in Seq(E), UniqueIds(m), NEW e \in E, NEW c, e.id = c, c \notin Ids(m)
    PROVE  Append(m, e) \in Seq(E) /\ Extended(Append(m, e), m, c, e)
  <1>0. PICK t : t = Append(m, e)
    OBVIOUS
  <1>1. PICK n : n = Len(m)
    OBVIOUS
  <1>2. /\ n \in Nat /\ DOMAIN m = 1 .. n
        /\ t \in Seq(E) /\ Len(t) = n + 1 /\ DOMAIN t = 1 .. n + 1
        /\ t[n + 1] = e /\ \A i \in 1 .. n : t[i] = m[i]
    BY <1>0, <1>1
  <1>3. DOMAIN t = DOMAIN m \union {n + 1} /\ n + 1 \notin DOMAIN m
    BY <1>2
  <1>4. \A i \in DOMAIN m : m[i].id # e.id /\ t[i] = m[i]
    BY <1>2 DEF Ids
  <1>5. UniqueIds(t)
    <2> SUFFICES ASSUME NEW i \in DOMAIN t, NEW j \in DOMAIN t, t[i].id = t[j].id
                 PROVE  i = j
      BY DEF UniqueIds
    <2>1. CASE i = n + 1
      BY <1>2, <1>3, <1>4, <2>1
    <2>2. CASE j = n + 1
      BY <1>2, <1>3, <1>4, <2>2
    <2>3. CASE i \in DOMAIN m /\ j \in DOMAIN m
      BY <1>4, <2>3 DEF UniqueIds
    <2>4. QED
      BY <1>3, <2>1, <2>2, <2>3
  <1>6. Ids(t) = Ids(m) \union {e.id}
    BY <1>2, <1>3, <1>4 DEF Ids
  <1>7. Get(t, e.id) = e
    <2>1. n + 1 \in DOMAIN t /\ t[n + 1] = e
      BY <1>2, <1>3
    <2>2. QED
      BY <1>5, <2>1, GetIs
  <1>8. ASSUME NEW d \in Ids(m) PROVE Get(t, d) = Get(m, d)
    <2>1. PICK i \in DOMAIN m : m[i].id = d
      BY DEF Ids
    <2>2. i \in DOMAIN t /\ t[i] = m[i]
      BY <1>3, <1>4
    <2>3. QED
      BY <1>5, <2>1, <2>2, GetIs
  <1>9. QED
    BY <1>0, <1>1, <1>2, <1>5, <1>6, <1>7, <1>8 DEF Extended

(* t is what is left of the Map m. *)
SubMap(t, m) ==
    /\ UniqueIds(t) /\ Ids(t) \subseteq Ids(m)
    /\ \A d \in Ids(t) : Get(t, d) = Get(m, d)

(* A sweep leaves part of the Map, and drops only entries that are not     *)
(* live.                                                                   *)
LEMMA SweepMap ==
    ASSUME NEW E, NEW m \in Seq(E), UniqueIds(m), NEW fresh, NEW t, t = Swept(m, fresh)
    PROVE  /\ t \in Seq(E) /\ SubMap(t, m) /\ Len(t) \in Nat /\ Len(t) <= Len(m)
           /\ \A d \in Ids(m) \ Ids(t) :
                 \E i \in DOMAIN m \ fresh : m[i].id = d /\ Get(m, d) = m[i]
  <1>1. PICK P : P = {i \in DOMAIN m : \E j \in fresh : j <= i}
    OBVIOUS
  <1>2. P \in SUBSET DOMAIN m /\ t = Kept(m, P)
    BY <1>1 DEF Swept
  <1>3. /\ t \in Seq(E) /\ UniqueIds(t) /\ Ids(t) \subseteq Ids(m)
        /\ \A i \in P : m[i].id \in Ids(t)
        /\ \A d \in Ids(t) : Get(t, d) = Get(m, d)
        /\ Len(t) \in Nat /\ Len(t) = Cardinality(P)
    BY <1>2, FilterMap
  <1>4. Len(t) <= Len(m)
    BY <1>2, <1>3, FilterShorter
  <1>5. ASSUME NEW d \in Ids(m), d \notin Ids(t)
        PROVE  \E i \in DOMAIN m \ fresh : m[i].id = d /\ Get(m, d) = m[i]
    <2>1. PICK i \in DOMAIN m : m[i].id = d /\ Get(m, d) = m[i]
      BY GetOf
    <2>2. i \notin P
      BY <1>3, <1>5, <2>1
    <2>3. i <= i
      OBVIOUS
    <2>4. i \notin fresh
      BY <1>1, <2>2, <2>3
    <2>5. QED
      BY <2>1, <2>4
  <1>6. QED
    BY <1>3, <1>4, <1>5 DEF SubMap

(* Deleting an id. *)
LEMMA WithoutMap ==
    ASSUME NEW E, NEW m \in Seq(E), UniqueIds(m), NEW c, NEW t, t = Without(m, c)
    PROVE  /\ t \in Seq(E) /\ SubMap(t, m) /\ Ids(t) = Ids(m) \ {c}
           /\ Len(t) \in Nat /\ Len(t) <= Len(m) /\ (c \in Ids(m) => Len(t) < Len(m))
  <1>1. PICK P : P = {i \in DOMAIN m : m[i].id # c}
    OBVIOUS
  <1>2. P \in SUBSET DOMAIN m /\ t = Kept(m, P)
    BY <1>1 DEF Without
  <1>3. /\ t \in Seq(E) /\ UniqueIds(t) /\ Ids(t) \subseteq Ids(m)
        /\ \A i \in P : m[i].id \in Ids(t)
        /\ \A d \in Ids(t) : \E i \in P : m[i].id = d
        /\ \A d \in Ids(t) : Get(t, d) = Get(m, d)
        /\ Len(t) \in Nat /\ Len(t) = Cardinality(P)
    BY <1>2, FilterMap
  <1>4. Len(t) <= Len(m) /\ (P # DOMAIN m => Len(t) < Len(m))
    BY <1>2, <1>3, FilterShorter
  <1>5. c \in Ids(m) => P # DOMAIN m
    BY <1>1 DEF Ids
  <1>6. Ids(t) = Ids(m) \ {c}
    <2>1. c \notin Ids(t)
      BY <1>1, <1>3
    <2>2. ASSUME NEW d \in Ids(m), d # c PROVE d \in Ids(t)
      <3>1. PICK i \in DOMAIN m : m[i].id = d
        BY DEF Ids
      <3>2. i \in P
        BY <1>1, <2>2, <3>1
      <3>3. QED
        BY <1>3, <3>1, <3>2
    <2>3. QED
      BY <1>3, <2>1, <2>2
  <1>7. QED
    BY <1>3, <1>4, <1>5, <1>6 DEF SubMap

(* The cap leaves part of the Map, all of it if it fits. *)
LEMMA CapMap ==
    ASSUME NEW E, NEW m \in Seq(E), UniqueIds(m), NEW t, t = Capped(m)
    PROVE  /\ t \in Seq(E) /\ SubMap(t, m) /\ Len(t) \in Nat /\ Len(t) <= MaxTracked
           /\ Len(m) <= MaxTracked => Ids(t) = Ids(m)
  <1>1. PICK n, K, P : n = Len(m) /\ K = MaxTracked /\ P = {i \in DOMAIN m : Len(m) - i < MaxTracked}
    OBVIOUS
  <1>2. /\ n \in Nat /\ DOMAIN m = 1 .. n /\ K \in Nat \ {0}
        /\ P = {i \in 1 .. n : n - i < K}
    BY <1>1, TrafficAssumption
  <1>3. P \in SUBSET DOMAIN m /\ t = Kept(m, P)
    BY <1>1 DEF Capped
  <1>4. /\ t \in Seq(E) /\ UniqueIds(t) /\ Ids(t) \subseteq Ids(m)
        /\ \A i \in P : m[i].id \in Ids(t)
        /\ \A d \in Ids(t) : Get(t, d) = Get(m, d)
        /\ Len(t) \in Nat /\ Len(t) = Cardinality(P)
    BY <1>3, FilterMap
  <1>5. CASE n <= K
    <2>1. P = DOMAIN m
      BY <1>2, <1>5
    <2>2. Ids(t) = Ids(m)
      BY <1>4, <2>1 DEF Ids
    <2>3. Len(t) <= n
      BY <1>1, <1>3, <1>4, FilterShorter
    <2>4. QED
      BY <1>1, <1>2, <1>4, <1>5, <2>2, <2>3 DEF SubMap
  <1>6. CASE ~(n <= K)
    <2>1. PICK a : a = n - K + 1
      OBVIOUS
    <2>2. P = a .. n /\ a \in Int /\ n \in Int /\ ~(a > n) /\ n - a + 1 = K
      BY <1>2, <1>6, <2>1
    <2>3. Cardinality(P) = n - a + 1
      BY <2>2, FS_Interval
    <2>4. QED
      BY <1>1, <1>2, <1>4, <1>6, <2>2, <2>3 DEF SubMap
  <1>7. QED
    BY <1>5, <1>6

-----------------------------------------------------------------------------
(* Every allowed request has its own place among the times kept. *)
Embeds(al, ts) ==
    \E f \in [DOMAIN al -> DOMAIN ts] :
        /\ \A i, j \in DOMAIN al : f[i] = f[j] => i = j
        /\ \A i \in DOMAIN al : ts[f[i]] = al[i]

(* A client that was allowed nothing. *)
LEMMA EmbedsNone ==
    ASSUME NEW ts
    PROVE  Embeds(<<>>, ts)
  <1>1. DOMAIN <<>> = {} /\ [i \in {} |-> 0] \in [{} -> DOMAIN ts]
    OBVIOUS
  <1>2. QED
    BY <1>1 DEF Embeds

(* What has places of its own among the kept times is no longer than they  *)
(* are.                                                                    *)
LEMMA EmbedsLen ==
    ASSUME NEW al \in Seq(Nat), NEW ts \in Seq(Nat), Embeds(al, ts)
    PROVE  Len(al) <= Len(ts)
  <1>1. PICK f \in [DOMAIN al -> DOMAIN ts] :
          \A i, j \in DOMAIN al : f[i] = f[j] => i = j
    BY DEF Embeds
  <1>2. f \in Injection(DOMAIN al, DOMAIN ts)
    BY <1>1 DEF Injection, IsInjective
  <1>3. PICK n, m : n = Len(al) /\ m = Len(ts)
    OBVIOUS
  <1>4. /\ n \in Nat /\ m \in Nat /\ DOMAIN al = 1 .. n /\ DOMAIN ts = 1 .. m
        /\ 1 \in Int /\ n \in Int /\ m \in Int
    BY <1>3
  <1>5. IsFiniteSet(DOMAIN ts) /\ Cardinality(DOMAIN ts) = m /\ Cardinality(DOMAIN al) = n
    BY <1>4, FS_Interval
  <1>6. QED
    BY <1>2, <1>3, <1>5, FS_Injection

(* Dropping the times outside the window drops nothing that is in it. *)
LEMMA EmbedsInKept ==
    ASSUME NEW al \in Seq(Nat), NEW ts \in Seq(Nat), Embeds(al, ts),
           \A i \in DOMAIN al : InWindow(al[i]), NEW ks, ks = KeptTimes(ts)
    PROVE  Embeds(al, ks)
  <1>1. PICK P : P = {i \in DOMAIN ts : InWindow(ts[i])}
    OBVIOUS
  <1>2. P \in SUBSET DOMAIN ts /\ ks = Kept(ts, P)
    BY <1>1 DEF KeptTimes
  <1>3. ks \in Seq(Nat) /\ Len(ks) \in Nat /\ \E o : Filters(o, ts, P, ks)
    BY <1>2, KeptList
  <1>4. PICK o : Filters(o, ts, P, ks)
    BY <1>3
  <1>5. /\ DOMAIN ks = 1 .. Len(ks)
        /\ \A k \in 1 .. Len(ks) : ks[k] = ts[o[k]]
        /\ \A i \in P : \E k \in 1 .. Len(ks) : o[k] = i
    BY <1>3, <1>4 DEF Filters
  <1>6. PICK f \in [DOMAIN al -> DOMAIN ts] :
          /\ \A i, j \in DOMAIN al : f[i] = f[j] => i = j
          /\ \A i \in DOMAIN al : ts[f[i]] = al[i]
    BY DEF Embeds
  <1>7. \A i \in DOMAIN al : f[i] \in P
    BY <1>1, <1>6
  <1> DEFINE e == [i \in DOMAIN al |-> CHOOSE k \in DOMAIN ks : o[k] = f[i]]
  <1>8. \A i \in DOMAIN al : e[i] \in DOMAIN ks /\ o[e[i]] = f[i]
    BY <1>5, <1>7
  <1>9. DOMAIN e = DOMAIN al /\ e = [i \in DOMAIN al |-> e[i]]
    OBVIOUS
  <1> HIDE DEF e
  <1>10. e \in [DOMAIN al -> DOMAIN ks]
    BY <1>8, <1>9
  <1>11. \A i, j \in DOMAIN al : e[i] = e[j] => i = j
    BY <1>6, <1>8
  <1>12. \A i \in DOMAIN al : ks[e[i]] = al[i]
    BY <1>5, <1>6, <1>8
  <1>0. QED
    BY <1>10, <1>11, <1>12 DEF Embeds

(* The history may let go of some of its times. *)
LEMMA EmbedsFilter ==
    ASSUME NEW al \in Seq(Nat), NEW ts \in Seq(Nat), Embeds(al, ts),
           NEW P \in SUBSET DOMAIN al, NEW bl, bl = Kept(al, P)
    PROVE  bl \in Seq(Nat) /\ Embeds(bl, ts) /\ \A k \in DOMAIN bl : \E i \in P : bl[k] = al[i]
  <1>1. bl \in Seq(Nat) /\ Len(bl) \in Nat /\ \E o : Filters(o, al, P, bl)
    BY KeptList
  <1>2. PICK o : Filters(o, al, P, bl)
    BY <1>1
  <1>3. /\ o \in [1 .. Len(bl) -> P] /\ DOMAIN bl = 1 .. Len(bl)
        /\ \A k \in 1 .. Len(bl) : bl[k] = al[o[k]]
        /\ \A k, l \in 1 .. Len(bl) : k < l => o[k] < o[l]
    BY <1>1, <1>2 DEF Filters
  <1>4. \A k, l \in DOMAIN bl : o[k] = o[l] => k = l
    <2> SUFFICES ASSUME NEW k \in DOMAIN bl, NEW l \in DOMAIN bl, o[k] = o[l] PROVE k = l
      OBVIOUS
    <2>1. k \in Nat /\ l \in Nat /\ o[k] \in Nat
      BY <1>1, <1>3
    <2>2. QED
      BY <1>3, <2>1
  <1>5. PICK f \in [DOMAIN al -> DOMAIN ts] :
          /\ \A i, j \in DOMAIN al : f[i] = f[j] => i = j
          /\ \A i \in DOMAIN al : ts[f[i]] = al[i]
    BY DEF Embeds
  <1>6. PICK e : e = [k \in DOMAIN bl |-> f[o[k]]]
    OBVIOUS
  <1>7. \A k \in DOMAIN bl : o[k] \in DOMAIN al /\ e[k] = f[o[k]] /\ e[k] \in DOMAIN ts
    BY <1>3, <1>5, <1>6
  <1>8. e \in [DOMAIN bl -> DOMAIN ts]
    BY <1>6, <1>7
  <1>9. ASSUME NEW k \in DOMAIN bl, NEW l \in DOMAIN bl, e[k] = e[l] PROVE k = l
    <2>1. o[k] = o[l]
      BY <1>5, <1>7, <1>9
    <2>2. QED
      BY <1>4, <2>1
  <1>10. \A k \in DOMAIN bl : ts[e[k]] = bl[k]
    BY <1>3, <1>5, <1>7
  <1>11. Embeds(bl, ts)
    BY <1>8, <1>9, <1>10 DEF Embeds
  <1>12. QED
    BY <1>1, <1>3, <1>11

(* A new time is kept, whether it is allowed or not. *)
LEMMA EmbedsAppend ==
    ASSUME NEW al \in Seq(Nat), NEW ts \in Seq(Nat), Embeds(al, ts), NEW x \in Nat
    PROVE  Embeds(al, Append(ts, x)) /\ Embeds(Append(al, x), Append(ts, x))
  <1>1. PICK n, m, us, bl : /\ n = Len(al) /\ m = Len(ts)
                            /\ us = Append(ts, x) /\ bl = Append(al, x)
    OBVIOUS
  <1>2. /\ n \in Nat /\ m \in Nat /\ DOMAIN al = 1 .. n /\ DOMAIN ts = 1 .. m
        /\ DOMAIN us = 1 .. m + 1 /\ us[m + 1] = x /\ \A k \in 1 .. m : us[k] = ts[k]
        /\ DOMAIN bl = 1 .. n + 1 /\ bl[n + 1] = x /\ \A k \in 1 .. n : bl[k] = al[k]
    BY <1>1
  <1>0. PICK f \in [DOMAIN al -> DOMAIN ts] :
          /\ \A i, j \in DOMAIN al : f[i] = f[j] => i = j
          /\ \A i \in DOMAIN al : ts[f[i]] = al[i]
    BY DEF Embeds
  <1>3. /\ f \in [1 .. n -> 1 .. m]
        /\ \A i, j \in 1 .. n : f[i] = f[j] => i = j
        /\ \A i \in 1 .. n : ts[f[i]] = al[i]
    BY <1>2, <1>0
  <1>4. Embeds(al, us)
    <2>1. f \in [DOMAIN al -> DOMAIN us]
      BY <1>2, <1>3
    <2>2. \A i \in DOMAIN al : us[f[i]] = al[i]
      BY <1>2, <1>3
    <2>3. QED
      BY <1>0, <2>1, <2>2 DEF Embeds
  <1>5. PICK e : e = [i \in 1 .. n + 1 |-> IF i = n + 1 THEN m + 1 ELSE f[i]]
    OBVIOUS
  <1>6. e[n + 1] = m + 1 /\ \A i \in 1 .. n : e[i] = f[i] /\ e[i] \in 1 .. m
    BY <1>2, <1>3, <1>5
  <1>7. 1 .. n + 1 = (1 .. n) \union {n + 1} /\ 1 .. m \subseteq 1 .. m + 1 /\ m + 1 \in 1 .. m + 1
        /\ m + 1 \notin 1 .. m
    BY <1>2
  <1>8. e \in [DOMAIN bl -> DOMAIN us]
    BY <1>2, <1>5, <1>6, <1>7
  <1>9. ASSUME NEW i \in DOMAIN bl, NEW j \in DOMAIN bl, e[i] = e[j] PROVE i = j
    <2>1. (i = n + 1 \/ i \in 1 .. n) /\ (j = n + 1 \/ j \in 1 .. n)
      BY <1>2, <1>7
    <2>2. CASE i = n + 1 \/ j = n + 1
      BY <1>6, <1>7, <1>9, <2>1, <2>2
    <2>3. CASE i \in 1 .. n /\ j \in 1 .. n
      BY <1>3, <1>6, <1>9, <2>3
    <2>4. QED
      BY <2>1, <2>2, <2>3
  <1>10. ASSUME NEW i \in DOMAIN bl PROVE us[e[i]] = bl[i]
    <2>1. CASE i = n + 1
      BY <1>2, <1>6, <2>1
    <2>2. CASE i \in 1 .. n
      <3>1. e[i] = f[i] /\ f[i] \in 1 .. m
        BY <1>6, <2>2
      <3>2. us[f[i]] = ts[f[i]] /\ ts[f[i]] = al[i] /\ bl[i] = al[i]
        BY <1>2, <1>3, <2>2, <3>1
      <3>3. QED
        BY <3>1, <3>2
    <2>3. QED
      BY <1>2, <1>7, <2>1, <2>2
  <1>11. Embeds(bl, us)
    BY <1>8, <1>9, <1>10 DEF Embeds
  <1>12. QED
    BY <1>1, <1>4, <1>11

-----------------------------------------------------------------------------
(* The times of an entry at the moment now. *)
GoodTimes(ts, now) ==
    /\ ts \in Seq(Nat)
    /\ \A i, j \in DOMAIN ts : i <= j => ts[i] <= ts[j]
    /\ \A i \in DOMAIN ts : ts[i] <= now

(* The present time comes last. *)
LEMMA GoodAppend ==
    ASSUME NEW ts, NEW n \in Nat, GoodTimes(ts, n), NEW us, us = Append(ts, n)
    PROVE  GoodTimes(us, n) /\ us # <<>>
  <1>1. PICK l : l = Len(ts)
    OBVIOUS
  <1>2. /\ ts \in Seq(Nat) /\ \A i, j \in DOMAIN ts : i <= j => ts[i] <= ts[j]
        /\ \A i \in DOMAIN ts : ts[i] <= n
    BY DEF GoodTimes
  <1>3. /\ l \in Nat /\ DOMAIN ts = 1 .. l /\ us \in Seq(Nat) /\ DOMAIN us = 1 .. l + 1
        /\ us[l + 1] = n /\ \A i \in 1 .. l : us[i] = ts[i]
    BY <1>1, <1>2
  <1>4. us # <<>>
    BY <1>3
  <1>5. \A i \in 1 .. l + 1 : us[i] <= n
    BY <1>2, <1>3
  <1>6. ASSUME NEW i \in 1 .. l + 1, NEW j \in 1 .. l + 1, i <= j PROVE us[i] <= us[j]
    <2>1. CASE j = l + 1
      BY <1>3, <1>5, <2>1
    <2>2. CASE j \in 1 .. l
      <3>1. i \in 1 .. l
        BY <1>3, <1>6, <2>2
      <3>2. QED
        BY <1>2, <1>3, <1>6, <2>2, <3>1
    <2>3. QED
      BY <1>3, <2>1, <2>2
  <1>7. QED
    BY <1>3, <1>4, <1>5, <1>6 DEF GoodTimes

(* Filtered, the times are still in order. *)
LEMMA GoodKept ==
    ASSUME NEW ts, NEW n \in Nat, GoodTimes(ts, n), NEW ks, ks = KeptTimes(ts)
    PROVE  GoodTimes(ks, n) /\ (ks # <<>> => ts # <<>>)
  <1>1. PICK P : P = {i \in DOMAIN ts : InWindow(ts[i])}
    OBVIOUS
  <1>2. /\ ts \in Seq(Nat) /\ \A i, j \in DOMAIN ts : i <= j => ts[i] <= ts[j]
        /\ \A i \in DOMAIN ts : ts[i] <= n
    BY DEF GoodTimes
  <1>3. P \in SUBSET DOMAIN ts /\ ks = Kept(ts, P)
    BY <1>1 DEF KeptTimes
  <1>4. ks \in Seq(Nat) /\ Len(ks) \in Nat /\ \E o : Filters(o, ts, P, ks)
    BY <1>2, <1>3, KeptList
  <1>5. PICK o : Filters(o, ts, P, ks)
    BY <1>4
  <1>6. /\ o \in [1 .. Len(ks) -> P] /\ DOMAIN ks = 1 .. Len(ks)
        /\ \A k \in 1 .. Len(ks) : ks[k] = ts[o[k]]
        /\ \A k, l \in 1 .. Len(ks) : k < l => o[k] < o[l]
    BY <1>4, <1>5 DEF Filters
  <1>7. \A k \in DOMAIN ks : o[k] \in DOMAIN ts /\ ks[k] = ts[o[k]] /\ o[k] \in Nat /\ k \in Nat
    <2>1. DOMAIN ts \subseteq Nat
      BY <1>2
    <2>2. QED
      BY <1>3, <1>6, <2>1
  <1>8. ASSUME NEW k \in DOMAIN ks, NEW l \in DOMAIN ks, k <= l PROVE ks[k] <= ks[l]
    <2>1. o[k] <= o[l]
      <3>1. CASE k = l
        BY <1>7, <3>1
      <3>2. CASE k # l
        <4>1. k < l
          BY <1>7, <1>8, <3>2
        <4>2. o[k] < o[l]
          BY <1>6, <4>1
        <4>3. QED
          BY <1>7, <4>2
      <3>3. QED
        BY <3>1, <3>2
    <2>2. QED
      BY <1>2, <1>7, <2>1
  <1>9. \A k \in DOMAIN ks : ks[k] <= n
    BY <1>2, <1>7
  <1>10. ks # <<>> => ts # <<>>
    <2> SUFFICES ASSUME ts = <<>> PROVE ks = <<>>
      OBVIOUS
    <2>1. DOMAIN ks = {}
      BY <1>7
    <2>2. QED
      BY <1>4, <2>1
  <1>11. QED
    BY <1>4, <1>8, <1>9, <1>10 DEF GoodTimes

(* When the last time has left the window, all have. *)
LEMMA StaleEntirely ==
    ASSUME NEW ts, NEW n \in Nat, GoodTimes(ts, n), ts # <<>>, ~InWindow(ts[Len(ts)]),
           NEW al \in Seq(Nat), Embeds(al, ts), \A i \in DOMAIN al : InWindow(al[i]),
           time \in Nat
    PROVE  al = <<>>
  <1>1. PICK l : l = Len(ts)
    OBVIOUS
  <1>2. /\ ts \in Seq(Nat) /\ \A i, j \in DOMAIN ts : i <= j => ts[i] <= ts[j]
    BY DEF GoodTimes
  <1>3. l \in DOMAIN ts /\ DOMAIN ts = 1 .. l /\ l \in Nat
    BY <1>1, <1>2
  <1>4. ASSUME NEW i \in DOMAIN al PROVE FALSE
    <2>1. PICK f \in [DOMAIN al -> DOMAIN ts] : \A k \in DOMAIN al : ts[f[k]] = al[k]
      BY DEF Embeds
    <2>2. PICK k \in DOMAIN ts : ts[k] = al[i]
      BY <2>1
    <2>3. InWindow(ts[k]) /\ ~InWindow(ts[l])
      BY <1>1, <2>2
    <2>4. ts[k] <= ts[l] /\ ts[k] \in Nat /\ ts[l] \in Nat
      BY <1>2, <1>3
    <2>5. QED
      BY <2>3, <2>4, TrafficAssumption DEF InWindow
  <1>5. QED
    BY <1>4

-----------------------------------------------------------------------------
RequestEntries == [id : Clients, times : Seq(Nat)]

(* The Map counts what was allowed: map holds, for each client, a place of *)
(* its own for every allowed request.                                      *)
Tracked(map, al, now) ==
    /\ map \in Seq(RequestEntries) /\ UniqueIds(map)
    /\ \A d \in Ids(map) : GoodTimes(Get(map, d).times, now) /\ Get(map, d).times # <<>>
    /\ al \in [Clients -> Seq(Nat)]
    /\ \A c \in Clients : Embeds(al[c], TimesOf(map, c))

AllRecent(al) == \A c \in Clients : \A i \in DOMAIN al[c] : InWindow(al[c][i])

(* The times of a client that is not in the Map are none. *)
LEMMA TimesOfGood ==
    ASSUME NEW map, NEW al, NEW n \in Nat, Tracked(map, al, n), NEW c
    PROVE  GoodTimes(TimesOf(map, c), n) /\ TimesOf(map, c) \in Seq(Nat)
           /\ (TimesOf(map, c) # <<>> => c \in Ids(map))
  <1>1. GoodTimes(<<>>, n)
    BY DEF GoodTimes
  <1>2. GoodTimes(TimesOf(map, c), n)
    BY <1>1 DEF Tracked, TimesOf
  <1>3. QED
    BY <1>2 DEF GoodTimes, TimesOf

(* A sweep drops only clients that were allowed nothing in the window. *)
LEMMA SweepTracked ==
    ASSUME NEW al, NEW n \in Nat, Tracked(requests, al, n), AllRecent(al), time \in Nat,
           NEW s, s = SweptRequests
    PROVE  Tracked(s, al, n) /\ Len(s) \in Nat /\ Len(s) <= Len(requests)
  <1>1. PICK m, fresh : m = requests /\ fresh = {i \in DOMAIN requests : ~StaleEntry(requests[i])}
    OBVIOUS
  <1>2. s = Swept(m, fresh) /\ m \in Seq(RequestEntries) /\ UniqueIds(m)
    BY <1>1 DEF SweptRequests, Tracked
  <1>3. /\ s \in Seq(RequestEntries) /\ SubMap(s, m) /\ Len(s) \in Nat /\ Len(s) <= Len(m)
        /\ \A d \in Ids(m) \ Ids(s) :
              \E i \in DOMAIN m \ fresh : m[i].id = d /\ Get(m, d) = m[i]
    BY <1>2, SweepMap
  <1>4. ASSUME NEW c \in Clients PROVE Embeds(al[c], TimesOf(s, c))
    <2>1. CASE c \in Ids(s)
      <3>1. TimesOf(s, c) = TimesOf(m, c)
        BY <1>3, <2>1 DEF SubMap, TimesOf
      <3>2. QED
        BY <1>1, <3>1 DEF Tracked
    <2>2. CASE c \notin Ids(m)
      <3>1. TimesOf(s, c) = TimesOf(m, c)
        BY <1>3, <2>2 DEF SubMap, TimesOf
      <3>2. QED
        BY <1>1, <3>1 DEF Tracked
    <2>3. CASE c \in Ids(m) /\ c \notin Ids(s)
      <3>1. PICK i \in DOMAIN m \ fresh : m[i].id = c /\ Get(m, c) = m[i]
        BY <1>3, <2>3
      <3>2. PICK ts : ts = Get(m, c).times
        OBVIOUS
      <3>3. ~InWindow(ts[Len(ts)])
        BY <1>1, <3>1, <3>2 DEF StaleEntry
      <3>4. GoodTimes(ts, n) /\ ts # <<>> /\ al[c] \in Seq(Nat) /\ Embeds(al[c], ts)
        BY <1>1, <2>3, <3>2 DEF Tracked, TimesOf
      <3>5. \A k \in DOMAIN al[c] : InWindow(al[c][k])
        BY DEF AllRecent
      <3>6. al[c] = <<>>
        BY <3>3, <3>4, <3>5, StaleEntirely
      <3>7. QED
        BY <3>6, EmbedsNone
    <2>4. QED
      BY <2>1, <2>2, <2>3
  <1>5. \A d \in Ids(s) : GoodTimes(Get(s, d).times, n) /\ Get(s, d).times # <<>>
    BY <1>1, <1>3 DEF SubMap, Tracked
  <1>6. Tracked(s, al, n)
    BY <1>3, <1>4, <1>5 DEF SubMap, Tracked
  <1>7. QED
    BY <1>1, <1>3, <1>6

(* An entry is written anew and goes to the back. *)
LEMMA MoveTracked ==
    ASSUME NEW m, NEW al, NEW n \in Nat, Tracked(m, al, n), NEW c \in Clients, NEW ts,
           GoodTimes(ts, n), ts # <<>>, NEW bl \in [Clients -> Seq(Nat)], Embeds(bl[c], ts),
           \A d \in Clients \ {c} : bl[d] = al[d],
           NEW t, t = Append(Without(m, c), [id |-> c, times |-> ts])
    PROVE  /\ Tracked(t, bl, n) /\ Len(t) \in Nat /\ Len(t) <= Len(m) + 1
           /\ c \in Ids(m) => Len(t) <= Len(m)
           /\ Ids(t) = Ids(m) \union {c}
  <1>1. PICK w, e : w = Without(m, c) /\ e = [id |-> c, times |-> ts]
    OBVIOUS
  <1>2. m \in Seq(RequestEntries) /\ UniqueIds(m) /\ Len(m) \in Nat
    BY DEF Tracked
  <1>3. /\ w \in Seq(RequestEntries) /\ SubMap(w, m) /\ Ids(w) = Ids(m) \ {c}
        /\ Len(w) \in Nat /\ Len(w) <= Len(m) /\ (c \in Ids(m) => Len(w) < Len(m))
    BY <1>1, <1>2, WithoutMap
  <1>4. e \in RequestEntries /\ e.id = c /\ e.times = ts
    BY <1>1 DEF RequestEntries, GoodTimes
  <1>5. e.id \notin Ids(w) /\ UniqueIds(w) /\ t = Append(w, e)
    BY <1>1, <1>3, <1>4 DEF SubMap
  <1>6. /\ t \in Seq(RequestEntries) /\ UniqueIds(t) /\ Ids(t) = Ids(w) \union {c}
        /\ Get(t, c) = e /\ \A d \in Ids(w) : Get(t, d) = Get(w, d)
        /\ Len(t) = Len(w) + 1
    <2>1. /\ w \in Seq(RequestEntries) /\ UniqueIds(w) /\ e \in RequestEntries
          /\ e.id = c /\ c \notin Ids(w)
      BY <1>3, <1>4, <1>5
    <2>2. Append(w, e) \in Seq(RequestEntries) /\ Extended(Append(w, e), w, c, e)
      BY <2>1, AppendMap
    <2>3. QED
      BY <1>5, <2>2 DEF Extended
  <1>7. \A d \in Ids(t) : GoodTimes(Get(t, d).times, n) /\ Get(t, d).times # <<>>
    <2> SUFFICES ASSUME NEW d \in Ids(t)
                 PROVE  GoodTimes(Get(t, d).times, n) /\ Get(t, d).times # <<>>
      OBVIOUS
    <2>1. CASE d = c
      BY <1>4, <1>6, <2>1
    <2>2. CASE d # c
      <3>1. d \in Ids(m) /\ Get(t, d) = Get(m, d)
        BY <1>3, <1>6, <2>2 DEF SubMap
      <3>2. QED
        BY <3>1 DEF Tracked
    <2>3. QED
      BY <2>1, <2>2
  <1>8. ASSUME NEW d \in Clients PROVE Embeds(bl[d], TimesOf(t, d))
    <2>1. CASE d = c
      <3>1. TimesOf(t, d) = ts
        BY <1>4, <1>6, <2>1 DEF TimesOf
      <3>2. QED
        BY <2>1, <3>1
    <2>2. CASE d # c
      <3>1. TimesOf(t, d) = TimesOf(m, d)
        BY <1>3, <1>6, <2>2 DEF SubMap, TimesOf
      <3>2. QED
        BY <2>2, <3>1 DEF Tracked
    <2>3. QED
      BY <2>1, <2>2
  <1>9. Tracked(t, bl, n)
    BY <1>6, <1>7, <1>8 DEF Tracked
  <1>10. QED
    BY <1>2, <1>3, <1>6, <1>9

(* Deleting a client that is forgotten. *)
LEMMA DropTracked ==
    ASSUME NEW m, NEW al, NEW n \in Nat, Tracked(m, al, n), NEW c,
           NEW bl \in [Clients -> Seq(Nat)], c \in Clients => bl[c] = <<>>,
           \A d \in Clients \ {c} : bl[d] = al[d], NEW t, t = Without(m, c)
    PROVE  Tracked(t, bl, n) /\ Len(t) \in Nat /\ Len(t) <= Len(m)
  <1>1. /\ t \in Seq(RequestEntries) /\ SubMap(t, m) /\ Ids(t) = Ids(m) \ {c}
        /\ Len(t) \in Nat /\ Len(t) <= Len(m)
    BY WithoutMap DEF Tracked
  <1>2. \A d \in Ids(t) : GoodTimes(Get(t, d).times, n) /\ Get(t, d).times # <<>>
    BY <1>1 DEF SubMap, Tracked
  <1>3. ASSUME NEW d \in Clients PROVE Embeds(bl[d], TimesOf(t, d))
    <2>1. CASE d = c
      BY <2>1, EmbedsNone
    <2>2. CASE d # c
      <3>1. TimesOf(t, d) = TimesOf(m, d)
        BY <1>1, <2>2 DEF SubMap, TimesOf
      <3>2. QED
        BY <2>2, <3>1 DEF Tracked
    <2>3. QED
      BY <2>1, <2>2
  <1>4. QED
    BY <1>1, <1>2, <1>3 DEF SubMap, Tracked

(* bl is the history al without the clients that were forgotten.           *)
Forgets(bl, al, gone) ==
    /\ bl \in [Clients -> Seq(Nat)]
    /\ \A d \in Clients : bl[d] = IF d \in gone THEN <<>> ELSE al[d]

(* What the cap evicts is forgotten. *)
LEMMA CapTracked ==
    ASSUME NEW m, NEW al, NEW n \in Nat, Tracked(m, al, n), NEW t, t = Capped(m),
           NEW bl, Forgets(bl, al, Forget(t, m))
    PROVE  Tracked(t, bl, n) /\ Len(t) \in Nat /\ Len(t) <= MaxTracked
  <1>0. /\ bl \in [Clients -> Seq(Nat)]
        /\ \A d \in Clients : bl[d] = IF d \in Forget(t, m) THEN <<>> ELSE al[d]
    BY DEF Forgets
  <1>1. /\ t \in Seq(RequestEntries) /\ SubMap(t, m) /\ Len(t) \in Nat /\ Len(t) <= MaxTracked
    BY CapMap DEF Tracked
  <1>2. \A d \in Ids(t) : GoodTimes(Get(t, d).times, n) /\ Get(t, d).times # <<>>
    BY <1>1 DEF SubMap, Tracked
  <1>4. ASSUME NEW d \in Clients PROVE Embeds(bl[d], TimesOf(t, d))
    <2>1. CASE d \in Forget(t, m)
      BY <1>0, <2>1, EmbedsNone
    <2>2. CASE d \notin Forget(t, m)
      <3>1. TimesOf(t, d) = TimesOf(m, d)
        BY <1>1, <2>2 DEF SubMap, TimesOf, Forget
      <3>2. bl[d] = al[d]
        BY <1>0, <2>2
      <3>3. QED
        BY <3>1, <3>2 DEF Tracked
    <2>3. QED
      BY <2>1, <2>2
  <1>5. QED
    BY <1>0, <1>1, <1>2, <1>4 DEF SubMap, Tracked

-----------------------------------------------------------------------------
AllowedInv ==
    /\ time \in Nat /\ Tracked(requests, allowed, time) /\ AllRecent(allowed)
    /\ Len(requests) <= MaxTracked
    /\ \A c \in Clients : Len(allowed[c]) <= Threshold

(* A request that is recorded, and allowed only up to the threshold. *)
LEMMA TouchedTracked ==
    ASSUME AllowedInv, NEW c \in Clients, NEW ok \in BOOLEAN,
           NEW t, t = Touched(c), ok => Len(t.times) <= Threshold,
           NEW bl, bl = [d \in Clients |->
                           IF d \in Forget(t.map, t.all) THEN <<>>
                           ELSE IF d = c /\ ok THEN Append(allowed[c], time) ELSE allowed[d]]
    PROVE  /\ Tracked(t.map, bl, time) /\ AllRecent(bl) /\ Len(t.map) <= MaxTracked
           /\ \A d \in Clients : Len(bl[d]) <= Threshold
  <1>1. PICK n, s, k, ts, all, map :
          /\ n = time /\ s = SweptRequests /\ k = KeptTimes(TimesOf(s, c)) /\ ts = Append(k, n)
          /\ all = Append(Without(s, c), [id |-> c, times |-> ts]) /\ map = Capped(all)
    OBVIOUS
  <1>2. t.times = ts /\ t.all = all /\ t.map = map
    BY <1>1 DEF Touched
  <1>3. /\ n \in Nat /\ time \in Nat /\ Tracked(requests, allowed, n) /\ AllRecent(allowed)
        /\ allowed \in [Clients -> Seq(Nat)]
    BY <1>1 DEF AllowedInv, Tracked
  <1>4. Tracked(s, allowed, n)
    BY <1>1, <1>3, SweepTracked
  <1>5. /\ GoodTimes(TimesOf(s, c), n) /\ TimesOf(s, c) \in Seq(Nat)
        /\ Embeds(allowed[c], TimesOf(s, c)) /\ allowed[c] \in Seq(Nat)
        /\ \A i \in DOMAIN allowed[c] : InWindow(allowed[c][i])
    BY <1>3, <1>4, TimesOfGood DEF Tracked, AllRecent
  <1>6. GoodTimes(k, n) /\ k \in Seq(Nat) /\ Embeds(allowed[c], k)
    BY <1>1, <1>3, <1>5, GoodKept, EmbedsInKept DEF GoodTimes
  <1>7. /\ GoodTimes(ts, n) /\ ts # <<>> /\ ts \in Seq(Nat) /\ Len(ts) = Len(k) + 1
        /\ Embeds(allowed[c], ts) /\ Embeds(Append(allowed[c], n), ts)
        /\ Append(allowed[c], n) \in Seq(Nat)
    <2>1. GoodTimes(ts, n) /\ ts # <<>>
      BY <1>1, <1>3, <1>6, GoodAppend
    <2>2. Embeds(allowed[c], ts) /\ Embeds(Append(allowed[c], n), ts)
      BY <1>1, <1>3, <1>5, <1>6, EmbedsAppend
    <2>3. ts \in Seq(Nat) /\ Len(ts) = Len(k) + 1 /\ Append(allowed[c], n) \in Seq(Nat)
      BY <1>1, <1>3, <1>5, <1>6
    <2>4. QED
      BY <2>1, <2>2, <2>3
  <1>8. PICK al : al = [d \in Clients |->
                          IF d = c /\ ok THEN Append(allowed[c], n) ELSE allowed[d]]
    OBVIOUS
  <1>9. /\ al \in [Clients -> Seq(Nat)] /\ Embeds(al[c], ts)
        /\ \A d \in Clients \ {c} : al[d] = allowed[d]
    BY <1>3, <1>7, <1>8
  <1>10. Tracked(all, al, n)
    BY <1>1, <1>3, <1>4, <1>7, <1>9, MoveTracked
  <1>11. /\ \A d \in Clients : bl[d] = IF d \in Forget(map, all) THEN <<>> ELSE al[d]
         /\ bl \in [Clients -> Seq(Nat)]
    <2>1. bl = [d \in Clients |-> IF d \in Forget(map, all) THEN <<>> ELSE al[d]]
      BY <1>1, <1>2, <1>8
    <2>2. <<>> \in Seq(Nat)
      OBVIOUS
    <2>3. QED
      BY <1>9, <2>1, <2>2
  <1>12. Tracked(map, bl, n) /\ Len(map) <= MaxTracked
    <2>1. map = Capped(all)
      BY <1>1
    <2>2. QED
      <3>1. Forgets(bl, al, Forget(map, all))
        BY <1>11 DEF Forgets
      <3>2. QED
        BY <1>3, <1>10, <2>1, <3>1, CapTracked
  <1>0. ASSUME NEW d \in Clients
         PROVE  Len(bl[d]) <= Threshold /\ \A i \in DOMAIN bl[d] : InWindow(bl[d][i])
    <2>1. CASE d \in Forget(map, all)
      <3>1. bl[d] = <<>>
        BY <1>11, <2>1
      <3>2. QED
        BY <3>1, TrafficAssumption
    <2>2. CASE d \notin Forget(map, all) /\ ~(d = c /\ ok)
      <3>1. bl[d] = allowed[d]
        BY <1>8, <1>11, <2>2
      <3>2. QED
        BY <3>1 DEF AllowedInv, AllRecent
    <2>3. CASE d \notin Forget(map, all) /\ d = c /\ ok
      <3>1. bl[d] = Append(allowed[c], n)
        BY <1>8, <1>11, <2>3
      <3>2. PICK x : x = allowed[c]
        OBVIOUS
      <3>3. x \in Seq(Nat) /\ Len(x) <= Len(k)
        BY <1>5, <1>6, <3>2, EmbedsLen
      <3>4. Len(bl[d]) <= Threshold
        <4>1. Len(bl[d]) = Len(x) + 1
          BY <1>3, <3>1, <3>2, <3>3
        <4>2. Len(k) + 1 <= Threshold /\ Len(k) \in Nat /\ Len(x) \in Nat /\ Threshold \in Nat
          BY <1>2, <1>6, <1>7, <2>3, <3>3, TrafficAssumption
        <4>3. QED
          BY <3>3, <4>1, <4>2
      <3>5. InWindow(n)
        BY <1>1, <1>3, TrafficAssumption DEF InWindow
      <3>6. ASSUME NEW i \in DOMAIN bl[d] PROVE InWindow(bl[d][i])
        <4>1. (i \in DOMAIN x /\ bl[d][i] = x[i]) \/ bl[d][i] = n
          <5>1. PICK l, y : l = Len(x) /\ y = Append(x, n)
            OBVIOUS
          <5>2. /\ l \in Nat /\ DOMAIN x = 1 .. l /\ DOMAIN y = 1 .. l + 1 /\ y[l + 1] = n
                /\ \A j \in 1 .. l : y[j] = x[j]
            BY <1>3, <3>3, <5>1
          <5>3. bl[d] = y /\ i \in 1 .. l + 1
            BY <3>1, <3>2, <5>1, <5>2
          <5>4. i \in 1 .. l \/ i = l + 1
            BY <5>2, <5>3
          <5>5. QED
            BY <5>2, <5>3, <5>4
        <4>2. QED
          BY <1>5, <3>2, <3>5, <4>1
      <3>7. QED
        BY <3>4, <3>6
    <2>4. QED
      BY <2>1, <2>2, <2>3
  <1>14. QED
    BY <1>1, <1>2, <1>12, <1>0 DEF AllRecent

(* The invariant after a step that takes no time. *)
LEMMA AllowedFrom ==
    ASSUME time \in Nat, time' = time, Tracked(requests', allowed', time), AllRecent(allowed'),
           Len(requests') <= MaxTracked, \A d \in Clients : Len(allowed'[d]) <= Threshold
    PROVE  AllowedInv'
  BY DEF AllowedInv, AllRecent, InWindow

(* A step that only sweeps. *)
LEMMA SweptAllowed ==
    ASSUME AllowedInv, requests' = SweptRequests, UNCHANGED <<time, allowed>>
    PROVE  AllowedInv'
  <1>1. PICK s, al, n : s = SweptRequests /\ al = allowed /\ n = time
    OBVIOUS
  <1>2. n \in Nat /\ Tracked(requests, al, n) /\ AllRecent(al) /\ Len(requests) \in Nat
    BY <1>1 DEF AllowedInv, Tracked
  <1>3. Tracked(s, al, n) /\ Len(s) \in Nat /\ Len(s) <= Len(requests)
    BY <1>1, <1>2, SweepTracked
  <1>4. Len(s) <= MaxTracked
    BY <1>2, <1>3, TrafficAssumption DEF AllowedInv
  <1>5. \A d \in Clients : Len(al[d]) <= Threshold
    BY <1>1 DEF AllowedInv
  <1>6. QED
    BY <1>1, <1>2, <1>3, <1>4, <1>5, AllowedFrom

(* getRequestCount() moves the client to the back, without its old times   *)
(* at most.                                                                *)
LEMMA QueryAllowed ==
    ASSUME AllowedInv, NEW c \in Clients, GetRequestCount(c)
    PROVE  AllowedInv'
  <1>1. PICK s, k, ts, al, n, m :
          /\ s = SweptRequests /\ k = KeptTimes(TimesOf(s, c))
          /\ ts = IF limiter = "monitor" THEN k ELSE TimesOf(s, c)
          /\ al = allowed /\ n = time /\ m = requests
    OBVIOUS
  <1>2. /\ requests' = IF ts = <<>> THEN Without(s, c)
                       ELSE Append(Without(s, c), [id |-> c, times |-> ts])
        /\ UNCHANGED <<time, allowed>>
    BY <1>1 DEF GetRequestCount
  <1>3. /\ n \in Nat /\ time \in Nat /\ Tracked(requests, al, n) /\ AllRecent(al)
        /\ al \in [Clients -> Seq(Nat)] /\ Len(m) \in Nat /\ Len(m) <= MaxTracked
        /\ \A d \in Clients : Len(al[d]) <= Threshold
    BY <1>1 DEF AllowedInv, Tracked
  <1>4. Tracked(s, al, n) /\ Len(s) \in Nat /\ Len(s) <= Len(m)
    BY <1>1, <1>3, SweepTracked
  <1>5. /\ GoodTimes(TimesOf(s, c), n) /\ TimesOf(s, c) \in Seq(Nat)
        /\ TimesOf(s, c) # <<>> => c \in Ids(s)
        /\ Embeds(al[c], TimesOf(s, c)) /\ al[c] \in Seq(Nat)
        /\ \A i \in DOMAIN al[c] : InWindow(al[c][i])
    BY <1>3, <1>4, TimesOfGood DEF Tracked, AllRecent
  <1>6. GoodTimes(k, n) /\ Embeds(al[c], k) /\ (k # <<>> => c \in Ids(s))
    BY <1>1, <1>3, <1>5, GoodKept, EmbedsInKept
  <1>7. GoodTimes(ts, n) /\ Embeds(al[c], ts) /\ (ts # <<>> => c \in Ids(s))
    BY <1>1, <1>5, <1>6
  <1>8. PICK t : t = requests'
    OBVIOUS
  <1>9. Tracked(t, al, n) /\ Len(t) \in Nat /\ Len(t) <= Len(s)
    <2>1. CASE ts = <<>>
      <3>1. al[c] = <<>>
        <4>1. DOMAIN ts = {}
          BY <2>1
        <4>2. DOMAIN al[c] = {}
          BY <1>7, <4>1 DEF Embeds
        <4>3. PICK x : x = al[c]
          OBVIOUS
        <4>4. x \in Seq(Nat) /\ DOMAIN x = {}
          BY <1>5, <4>2, <4>3
        <4>5. x = <<>>
          BY <4>4
        <4>6. QED
          BY <4>3, <4>5
      <3>2. t = Without(s, c)
        BY <1>2, <1>8, <2>1
      <3>3. QED
        BY <1>3, <1>4, <3>1, <3>2, DropTracked
    <2>2. CASE ts # <<>>
      <3>1. t = Append(Without(s, c), [id |-> c, times |-> ts])
        BY <1>2, <1>8, <2>2
      <3>2. QED
        BY <1>3, <1>4, <1>7, <2>2, <3>1, MoveTracked
    <2>3. QED
      BY <2>1, <2>2
  <1>10. Len(t) <= MaxTracked
    BY <1>3, <1>4, <1>9, TrafficAssumption
  <1>11. QED
    BY <1>1, <1>2, <1>3, <1>8, <1>9, <1>10, AllowedFrom

(* unban() forgets the client. *)
LEMMA UnbanAllowed ==
    ASSUME AllowedInv, NEW c \in Clients, Unban(c)
    PROVE  AllowedInv'
  <1>1. PICK m, al, bl, t, n : m = requests /\ al = allowed /\ n = time /\ bl = allowed' /\ t = requests'
    OBVIOUS
  <1>2. /\ t = Without(m, c) /\ bl = [al EXCEPT ![c] = <<>>] /\ time' = time
    BY <1>1 DEF Unban
  <1>3. /\ n \in Nat /\ Tracked(m, al, n) /\ AllRecent(al)
        /\ al \in [Clients -> Seq(Nat)] /\ Len(m) \in Nat /\ Len(m) <= MaxTracked
        /\ \A d \in Clients : Len(al[d]) <= Threshold
    BY <1>1 DEF AllowedInv, Tracked
  <1>4. bl \in [Clients -> Seq(Nat)] /\ bl[c] = <<>> /\ \A d \in Clients \ {c} : bl[d] = al[d]
    BY <1>2, <1>3
  <1>5. Tracked(t, bl, n) /\ Len(t) \in Nat /\ Len(t) <= Len(m)
    BY <1>2, <1>3, <1>4, DropTracked
  <1>6. AllRecent(bl) /\ \A d \in Clients : Len(bl[d]) <= Threshold
    <2>1. Len(<<>>) = 0 /\ DOMAIN <<>> = {}
      OBVIOUS
    <2>2. ASSUME NEW d \in Clients
          PROVE  Len(bl[d]) <= Threshold /\ \A i \in DOMAIN bl[d] : InWindow(bl[d][i])
      <3>1. CASE d = c
        BY <1>4, <2>1, <3>1, TrafficAssumption
      <3>2. CASE d # c
        BY <1>3, <1>4, <3>2 DEF AllRecent
      <3>3. QED
        BY <3>1, <3>2
    <2>3. QED
      BY <2>2 DEF AllRecent
  <1>7. Len(t) <= MaxTracked
    BY <1>3, <1>5, TrafficAssumption
  <1>8. QED
    BY <1>1, <1>2, <1>3, <1>5, <1>6, <1>7, AllowedFrom

(* What leaves the window leaves the history, not yet the Map. *)
LEMMA TimeAllowed ==
    ASSUME AllowedInv, TimePasses
    PROVE  AllowedInv'
  <1>1. PICK m, al, bl, n, z : /\ m = requests /\ al = allowed /\ n = time
                               /\ bl = allowed' /\ z = time'
    OBVIOUS
  <1>2. /\ n \in Nat /\ z = n + 1 /\ z \in Nat /\ requests' = m
        /\ bl = [c \in Clients |-> Kept(al[c], {i \in DOMAIN al[c] : al[c][i] > z - Window})]
    <2>1. /\ n \in Nat /\ time' = time + 1 /\ requests' = requests
          /\ allowed' = [c \in Clients |->
                Kept(allowed[c], {i \in DOMAIN allowed[c] : allowed[c][i] > time' - Window})]
      BY <1>1 DEF TimePasses, AllowedInv
    <2>2. bl = [c \in Clients |-> Kept(al[c], {i \in DOMAIN al[c] : al[c][i] > z - Window})]
      BY <1>1, <2>1, Zenon
    <2>3. QED
      BY <1>1, <2>1, <2>2
  <1>3. /\ Tracked(m, al, n) /\ al \in [Clients -> Seq(Nat)] /\ Len(m) <= MaxTracked
        /\ \A d \in Clients : Len(al[d]) <= Threshold
    BY <1>1 DEF AllowedInv, Tracked
  <1>4. ASSUME NEW c \in Clients
        PROVE  /\ bl[c] \in Seq(Nat) /\ Embeds(bl[c], TimesOf(m, c))
               /\ Len(bl[c]) <= Threshold
               /\ \A k \in DOMAIN bl[c] : bl[c][k] > z - Window
    <2>1. PICK P, x, y : /\ x = al[c] /\ y = bl[c]
                         /\ P = {i \in DOMAIN x : x[i] > z - Window}
      OBVIOUS
    <2>2. /\ x \in Seq(Nat) /\ TimesOf(m, c) \in Seq(Nat) /\ Embeds(x, TimesOf(m, c))
          /\ P \in SUBSET DOMAIN x /\ y = Kept(x, P)
      BY <1>2, <1>3, <2>1, TimesOfGood DEF Tracked
    <2>3. /\ y \in Seq(Nat) /\ Embeds(y, TimesOf(m, c))
          /\ \A k \in DOMAIN y : \E i \in P : y[k] = x[i]
      BY <2>2, EmbedsFilter
    <2>4. Len(y) = Cardinality(P) /\ Len(y) \in Nat
      BY <2>2, KeptList
    <2>5. Cardinality(P) <= Len(x)
      BY <2>2, FilterShorter
    <2>6. Len(y) <= Threshold
      BY <1>3, <2>1, <2>2, <2>4, <2>5, TrafficAssumption
    <2>7. QED
      BY <2>1, <2>3, <2>6
  <1>5. bl \in [Clients -> Seq(Nat)]
    BY <1>2, <1>4
  <1>6. ASSUME NEW d \in Ids(m)
        PROVE  GoodTimes(Get(m, d).times, z) /\ Get(m, d).times # <<>>
    <2>1. PICK ts : ts = Get(m, d).times
      OBVIOUS
    <2>2. GoodTimes(ts, n) /\ ts # <<>>
      BY <1>3, <2>1 DEF Tracked
    <2>3. ts \in Seq(Nat) /\ \A i \in DOMAIN ts : ts[i] <= n /\ ts[i] \in Nat
      BY <2>2 DEF GoodTimes
    <2>4. \A i \in DOMAIN ts : ts[i] <= z
      BY <1>2, <2>3
    <2>5. QED
      BY <2>1, <2>2, <2>4 DEF GoodTimes
  <1>7. Tracked(m, bl, z)
    BY <1>3, <1>4, <1>5, <1>6 DEF Tracked
  <1>8. \A c \in Clients : \A i \in DOMAIN allowed'[c] : allowed'[c][i] > time' - Window
    BY <1>1, <1>4
  <1>9. QED
    BY <1>1, <1>2, <1>3, <1>4, <1>7, <1>8 DEF AllowedInv, AllRecent, InWindow

(* Two branches of recording, told apart by whether the request counts as  *)
(* allowed.                                                                *)
LEMMA RecordAllowed ==
    ASSUME AllowedInv, NEW c \in Clients, NEW ok \in BOOLEAN, NEW t, t = Touched(c),
           ok => Len(t.times) <= Threshold, requests' = t.map, time' = time,
           allowed' = [d \in Clients |->
                         IF d \in Forget(t.map, t.all) THEN <<>>
                         ELSE IF d = c /\ ok THEN Append(allowed[c], time) ELSE allowed[d]]
    PROVE  AllowedInv'
  <1>1. PICK bl, n : bl = allowed' /\ n = time
    OBVIOUS
  <1>2. bl = [d \in Clients |->
                IF d \in Forget(t.map, t.all) THEN <<>>
                ELSE IF d = c /\ ok THEN Append(allowed[c], time) ELSE allowed[d]]
    BY <1>1
  <1>3. /\ Tracked(t.map, bl, time) /\ AllRecent(bl) /\ Len(t.map) <= MaxTracked
        /\ \A d \in Clients : Len(bl[d]) <= Threshold
    BY <1>2, TouchedTracked
  <1>4. time \in Nat
    BY DEF AllowedInv
  <1>5. QED
    BY <1>1, <1>3, <1>4, AllowedFrom

(* AllowedInv is inductive.                                                *)
LEMMA AllowedStep ==
    ASSUME AllowedInv, [TrafficNext]_trafficVars
    PROVE  AllowedInv'
  <1>1. ASSUME NEW c \in Clients, Record(c) PROVE AllowedInv'
    <2>1. PICK t, ok : t = Touched(c) /\ ok = (Len(t.times) <= Threshold)
      OBVIOUS
    <2>2. /\ requests' = t.map /\ time' = time
          /\ allowed' = [d \in Clients |->
               IF d \in Forget(t.map, t.all) THEN <<>>
               ELSE IF d = c /\ Len(t.times) <= Threshold THEN Append(allowed[c], time)
               ELSE allowed[d]]
      BY <1>1, <2>1, Zenon DEF Record
    <2>3. CASE Len(t.times) <= Threshold
      <3>1. PICK b \in BOOLEAN : b = TRUE
        OBVIOUS
      <3>2. allowed' = [d \in Clients |->
               IF d \in Forget(t.map, t.all) THEN <<>>
               ELSE IF d = c /\ b THEN Append(allowed[c], time) ELSE allowed[d]]
        BY <2>2, <2>3, <3>1
      <3>3. QED
        BY <2>1, <2>2, <2>3, <3>2, RecordAllowed
    <2>4. CASE ~(Len(t.times) <= Threshold)
      <3>1. PICK b \in BOOLEAN : b = FALSE
        OBVIOUS
      <3>2. allowed' = [d \in Clients |->
               IF d \in Forget(t.map, t.all) THEN <<>>
               ELSE IF d = c /\ b THEN Append(allowed[c], time) ELSE allowed[d]]
        BY <2>2, <2>4, <3>1
      <3>3. QED
        BY <2>1, <2>2, <3>1, <3>2, RecordAllowed
    <2>5. QED
      BY <2>3, <2>4
  <1>2. ASSUME NEW c \in Clients, RecordRequest(c) PROVE AllowedInv'
    <2>1. PICK t : t = Touched(c)
      OBVIOUS
    <2>2. time' = time
      BY <1>2 DEF RecordRequest
    <2>3. \/ requests' = SweptRequests /\ UNCHANGED allowed
          \/ /\ requests' = t.map
             /\ allowed' = [d \in Clients |->
                  IF d \in Forget(t.map, t.all) THEN <<>>
                  ELSE IF d = c /\ ~(Len(t.times) > Threshold) THEN Append(allowed[c], time)
                  ELSE allowed[d]]
      BY <1>2, <2>1, Zenon DEF RecordRequest
    <2>4. CASE requests' = SweptRequests /\ UNCHANGED allowed
      BY <2>2, <2>4, SweptAllowed
    <2>5. CASE /\ requests' = t.map
               /\ allowed' = [d \in Clients |->
                    IF d \in Forget(t.map, t.all) THEN <<>>
                    ELSE IF d = c /\ ~(Len(t.times) > Threshold) THEN Append(allowed[c], time)
                    ELSE allowed[d]]
      <3>1. CASE Len(t.times) > Threshold
        <4>1. PICK b \in BOOLEAN : b = FALSE
          OBVIOUS
        <4>2. allowed' = [d \in Clients |->
                 IF d \in Forget(t.map, t.all) THEN <<>>
                 ELSE IF d = c /\ b THEN Append(allowed[c], time) ELSE allowed[d]]
          BY <2>5, <3>1, <4>1
        <4>3. QED
          BY <2>1, <2>2, <2>5, <4>1, <4>2, RecordAllowed
      <3>2. CASE ~(Len(t.times) > Threshold)
        <4>1. PICK b \in BOOLEAN : b = TRUE
          OBVIOUS
        <4>2. allowed' = [d \in Clients |->
                 IF d \in Forget(t.map, t.all) THEN <<>>
                 ELSE IF d = c /\ b THEN Append(allowed[c], time) ELSE allowed[d]]
          BY <2>5, <3>2, <4>1
        <4>3. Len(t.times) <= Threshold
          <5>1. t.times = Append(KeptTimes(TimesOf(SweptRequests, c)), time)
            BY <2>1 DEF Touched
          <5>2. PICK s, k, n, al : /\ s = SweptRequests /\ k = KeptTimes(TimesOf(s, c))
                                   /\ n = time /\ al = allowed
            OBVIOUS
          <5>3. n \in Nat /\ time \in Nat /\ Tracked(requests, al, n) /\ AllRecent(al)
            BY <5>2 DEF AllowedInv
          <5>4. GoodTimes(k, n)
            BY <5>2, <5>3, SweepTracked, TimesOfGood, GoodKept
          <5>5. Len(t.times) \in Nat
            BY <5>1, <5>2, <5>3, <5>4 DEF GoodTimes
          <5>6. QED
            BY <3>2, <5>5, TrafficAssumption
        <4>4. QED
          BY <2>1, <2>2, <2>5, <4>2, <4>3, RecordAllowed
      <3>3. QED
        BY <3>1, <3>2
    <2>6. QED
      BY <2>3, <2>4, <2>5
  <1>3. ASSUME NEW c \in Clients, IsBanned(c) PROVE AllowedInv'
    BY <1>3, SweptAllowed DEF IsBanned
  <1>4. CASE UNCHANGED trafficVars
    BY <1>4 DEF trafficVars, AllowedInv, AllRecent, InWindow
  <1>5. QED
    BY <1>1, <1>2, <1>3, <1>4, QueryAllowed, UnbanAllowed, TimeAllowed DEF TrafficNext

(* A client is not allowed more than Threshold requests in a window,       *)
(* however the requests of others, queries and sweeps are interleaved      *)
(* (RateLimitMonitor.record, IPTracker.recordRequest).                     *)
THEOREM AllowedIsBounded == TrafficSpec => []AllowedBounded
  <1>1. TrafficInit => AllowedInv
    <2> SUFFICES ASSUME TrafficInit PROVE AllowedInv
      OBVIOUS
    <2>1. PICK m, al : m = requests /\ al = allowed
      OBVIOUS
    <2>2. m = <<>> /\ al = [c \in Clients |-> <<>>] /\ time = 0
      BY <2>1 DEF TrafficInit
    <2>3. m \in Seq(RequestEntries) /\ DOMAIN m = {} /\ Len(m) = 0
      BY <2>2
    <2>4. UniqueIds(m) /\ Ids(m) = {}
      BY <2>3 DEF UniqueIds, Ids
    <2>5. al \in [Clients -> Seq(Nat)] /\ \A c \in Clients : al[c] = <<>> /\ Len(al[c]) = 0
      BY <2>2
    <2>6. Tracked(m, al, 0)
      BY <2>3, <2>4, <2>5, EmbedsNone DEF Tracked
    <2>7. AllRecent(al)
      BY <2>5 DEF AllRecent
    <2>8. QED
      BY <2>1, <2>2, <2>3, <2>5, <2>6, <2>7, TrafficAssumption DEF AllowedInv
  <1>2. AllowedInv /\ [TrafficNext]_trafficVars => AllowedInv'
    BY AllowedStep
  <1>3. AllowedInv => AllowedBounded
    BY DEF AllowedInv, AllowedBounded
  <1>4. QED
    BY <1>1, <1>2, <1>3, PTL DEF TrafficSpec

-----------------------------------------------------------------------------
(* Bans.                                                                   *)

BanEntries == [id : Clients, expiry : Nat]

(* The ban list b has every ban of the history h that is not over, with    *)
(* its term.                                                               *)
Held(b, h, now) ==
    /\ b \in Seq(BanEntries) /\ UniqueIds(b) /\ Len(b) <= MaxTracked
    /\ h \in [Clients -> Int]
    /\ \A d \in Ids(b) : Get(b, d).expiry = h[d]
    /\ \A d \in Clients : h[d] >= now => d \in Ids(b)

(* The banned are clients. *)
LEMMA BannedAreClients ==
    ASSUME NEW b \in Seq(BanEntries)
    PROVE  Ids(b) \subseteq Clients
  <1> SUFFICES ASSUME NEW d \in Ids(b) PROVE d \in Clients
    OBVIOUS
  <1>1. PICK i \in DOMAIN b : b[i].id = d
    BY DEF Ids
  <1>2. b[i] \in BanEntries
    OBVIOUS
  <1>3. QED
    BY <1>1, <1>2 DEF BanEntries

(* What is left of the list will do, if what is gone is over or forgotten. *)
LEMMA SubHeld ==
    ASSUME NEW b, NEW h, NEW n \in Nat, Held(b, h, n),
           NEW s \in Seq(BanEntries), SubMap(s, b), Len(s) <= MaxTracked,
           NEW g \in [Clients -> Int], \A d \in Ids(s) : g[d] = h[d],
           \A d \in Clients \ Ids(s) : ~(g[d] >= n)
    PROVE  Held(s, g, n)
  BY DEF Held, SubMap

(* A sweep drops only bans that are over. *)
LEMMA SweptHeld ==
    ASSUME NEW h, time \in Nat, Held(banList, h, time), NEW s, s = SweptBans
    PROVE  Held(s, h, time) /\ \A d \in Ids(s) : Get(s, d).expiry \in Nat
  <1>1. PICK fresh : fresh = {i \in DOMAIN banList : ~BanOver(banList[i])}
    OBVIOUS
  <1>2. s = Swept(banList, fresh)
    BY <1>1 DEF SweptBans
  <1>3. PICK b, n : b = banList /\ n = time
    OBVIOUS
  <1>4. n \in Nat /\ Held(b, h, n) /\ s = Swept(b, fresh) /\ b \in Seq(BanEntries) /\ UniqueIds(b)
    BY <1>2, <1>3 DEF Held
  <1>5. /\ s \in Seq(BanEntries) /\ SubMap(s, b) /\ Len(s) \in Nat /\ Len(s) <= Len(b)
        /\ \A d \in Ids(b) \ Ids(s) : \E i \in DOMAIN b \ fresh : b[i].id = d /\ Get(b, d) = b[i]
    BY <1>4, SweepMap
  <1>6. ASSUME NEW d \in Clients \ Ids(s) PROVE ~(h[d] >= n)
    <2>1. CASE d \in Ids(b)
      <3>1. PICK i \in DOMAIN b \ fresh : b[i].id = d /\ Get(b, d) = b[i]
        BY <1>5, <2>1
      <3>2. n > b[i].expiry
        BY <1>1, <1>3, <3>1 DEF BanOver
      <3>3. h[d] = b[i].expiry /\ h[d] \in Int
        BY <1>4, <2>1, <3>1 DEF Held
      <3>4. QED
        BY <1>4, <3>2, <3>3
    <2>2. CASE d \notin Ids(b)
      BY <1>4, <2>2 DEF Held
    <2>3. QED
      BY <2>1, <2>2
  <1>7. /\ h \in [Clients -> Int] /\ Len(s) <= MaxTracked
        /\ \A d \in Ids(s) : h[d] = h[d]
    <2>1. Len(b) \in Nat
      BY <1>4
    <2>2. QED
      BY <1>4, <1>5, <2>1, TrafficAssumption DEF Held
  <1>8. Held(s, h, n)
    BY <1>4, <1>5, <1>6, <1>7, SubHeld
  <1>9. ASSUME NEW d \in Ids(s) PROVE Get(s, d).expiry \in Nat
    <2>1. UniqueIds(s)
      BY <1>5 DEF SubMap
    <2>2. PICK i \in DOMAIN s : Get(s, d) = s[i]
      BY <2>1, GetOf
    <2>3. s[i] \in BanEntries
      BY <1>5, <2>2
    <2>4. QED
      BY <2>2, <2>3 DEF BanEntries
  <1>10. QED
    BY <1>3, <1>8, <1>9

(* A ban that is over or lifted can be dropped. *)
LEMMA DropHeld ==
    ASSUME NEW b, NEW h, NEW n \in Nat, Held(b, h, n), NEW c, NEW s, s = Without(b, c),
           NEW g \in [Clients -> Int], \A d \in Clients \ {c} : g[d] = h[d],
           c \in Clients => ~(g[c] >= n)
    PROVE  Held(s, g, n)
  <1>1. b \in Seq(BanEntries) /\ UniqueIds(b) /\ Len(b) <= MaxTracked /\ Len(b) \in Nat
    BY DEF Held
  <1>2. /\ s \in Seq(BanEntries) /\ SubMap(s, b) /\ Ids(s) = Ids(b) \ {c}
        /\ Len(s) \in Nat /\ Len(s) <= Len(b)
    BY <1>1, WithoutMap
  <1>3. Len(s) <= MaxTracked
    BY <1>1, <1>2, TrafficAssumption
  <1>4. Ids(b) \subseteq Clients
    BY <1>1, BannedAreClients
  <1>5. \A d \in Ids(s) : g[d] = h[d]
    BY <1>2, <1>4
  <1>6. ASSUME NEW d \in Clients \ Ids(s) PROVE ~(g[d] >= n)
    <2>1. CASE d = c
      BY <2>1
    <2>2. CASE d # c
      BY <1>2, <2>2 DEF Held
    <2>3. QED
      BY <2>1, <2>2
  <1>7. QED
    BY <1>2, <1>3, <1>5, <1>6, SubHeld

(* A list within the cap is not cut. *)
LEMMA UncutHeld ==
    ASSUME NEW b, NEW h, NEW n \in Nat, Held(b, h, n), NEW s, s = Capped(b)
    PROVE  Held(s, h, n)
  <1>1. b \in Seq(BanEntries) /\ UniqueIds(b) /\ Len(b) <= MaxTracked /\ h \in [Clients -> Int]
    BY DEF Held
  <1>2. /\ s \in Seq(BanEntries) /\ SubMap(s, b) /\ Len(s) <= MaxTracked /\ Ids(s) = Ids(b)
    BY <1>1, CapMap
  <1>3. QED
    BY <1>1, <1>2 DEF Held, SubMap

(* The history h with a ban of c to x, without the clients that were       *)
(* forgotten.                                                              *)
WithBan(h, c, x, gone) ==
    [d \in Clients |-> IF d \in gone THEN -1 ELSE IF d = c THEN x ELSE h[d]]

(* A new ban; the cap may evict others, which the history forgets. *)
LEMMA AddHeld ==
    ASSUME NEW b, NEW h, NEW n \in Nat, Held(b, h, n), NEW c \in Clients, NEW x \in Nat,
           NEW m, m = Append(Without(b, c), [id |-> c, expiry |-> x]), NEW s, s = Capped(m),
           NEW g, g = WithBan(h, c, x, Forget(s, m))
    PROVE  Held(s, g, n)
  <1>0. g = [d \in Clients |-> IF d \in Forget(s, m) THEN -1 ELSE IF d = c THEN x ELSE h[d]]
    BY DEF WithBan
  <1>1. b \in Seq(BanEntries) /\ UniqueIds(b) /\ h \in [Clients -> Int]
    BY DEF Held
  <1>2. PICK w, e : w = Without(b, c) /\ e = [id |-> c, expiry |-> x]
    OBVIOUS
  <1>3. /\ w \in Seq(BanEntries) /\ SubMap(w, b) /\ Ids(w) = Ids(b) \ {c}
    BY <1>1, <1>2, WithoutMap
  <1>4. /\ e \in BanEntries /\ e.id = c /\ e.expiry = x /\ UniqueIds(w) /\ c \notin Ids(w)
        /\ m = Append(w, e)
    BY <1>2, <1>3 DEF BanEntries, SubMap
  <1>5. m \in Seq(BanEntries) /\ Extended(m, w, c, e)
    <2>1. Append(w, e) \in Seq(BanEntries) /\ Extended(Append(w, e), w, c, e)
      BY <1>3, <1>4, AppendMap
    <2>2. QED
      BY <1>4, <2>1
  <1>6. /\ UniqueIds(m) /\ Ids(m) = Ids(b) \union {c} /\ Get(m, c) = e
        /\ \A d \in Ids(w) : Get(m, d) = Get(w, d)
    BY <1>3, <1>5 DEF Extended
  <1>7. /\ s \in Seq(BanEntries) /\ SubMap(s, m) /\ Len(s) <= MaxTracked
    BY <1>5, <1>6, CapMap
  <1>8. g \in [Clients -> Int] /\ UniqueIds(s) /\ Ids(s) \subseteq Ids(m)
    <2>1. -1 \in Int /\ x \in Int
      OBVIOUS
    <2>2. ASSUME NEW d \in Clients PROVE g[d] \in Int
      BY <1>0, <1>1, <2>1
    <2>3. g \in [Clients -> Int]
      BY <1>0, <2>2
    <2>4. QED
      BY <1>7, <2>3 DEF SubMap
  <1>9. ASSUME NEW d \in Ids(s) PROVE Get(s, d).expiry = g[d]
    <2>1. d \in Clients /\ d \notin Forget(s, m) /\ d \in Ids(m) /\ Get(s, d) = Get(m, d)
      <3>1. d \in Clients
        BY <1>7, BannedAreClients
      <3>2. QED
        BY <1>7, <3>1 DEF Forget, SubMap
    <2>2. CASE d = c
      BY <1>0, <1>4, <1>6, <2>1, <2>2
    <2>3. CASE d # c
      <3>1. d \in Ids(w) /\ d \in Ids(b)
        BY <1>3, <1>6, <2>1, <2>3
      <3>2. Get(s, d) = Get(b, d)
        BY <1>3, <1>6, <2>1, <3>1 DEF SubMap
      <3>3. g[d] = h[d]
        BY <1>0, <2>1, <2>3
      <3>4. QED
        BY <3>1, <3>2, <3>3 DEF Held
    <2>4. QED
      BY <2>2, <2>3
  <1>10. ASSUME NEW d \in Clients, g[d] >= n PROVE d \in Ids(s)
    <2>1. d \notin Forget(s, m)
      <3>1. ~(-1 >= n)
        OBVIOUS
      <3>2. QED
        BY <1>0, <1>10, <3>1
    <2>2. d \in Ids(m)
      <3>1. CASE d = c
        BY <1>6, <3>1
      <3>2. CASE d # c
        <4>1. g[d] = h[d]
          BY <1>0, <2>1, <3>2
        <4>2. QED
          BY <1>6, <1>10, <4>1 DEF Held
      <3>3. QED
        BY <3>1, <3>2
    <2>3. QED
      BY <2>1, <2>2 DEF Forget
  <1>11. QED
    BY <1>7, <1>8, <1>9, <1>10 DEF Held

-----------------------------------------------------------------------------
BansInv == time \in Nat /\ Held(banList, banned, time)

(* The cases of a request that is not refused. *)
LEMMA RequestHeld ==
    ASSUME BansInv, NEW c \in Clients, RecordRequest(c)
    PROVE  BansInv'
  <1>1. PICK b, h, n, s, over, m, bl, bd :
          /\ b = banList /\ h = banned /\ n = time /\ s = SweptBans
          /\ over = (Len(Touched(c).times) > Threshold)
          /\ m = Append(Without(s, c), [id |-> c, expiry |-> n + BanTtl])
          /\ bl = banList' /\ bd = banned'
    OBVIOUS
  <1>2. n \in Nat /\ time' = n /\ Held(b, h, n) /\ h \in [Clients -> Int] /\ BanTtl \in Nat
    BY <1>1, TrafficAssumption DEF RecordRequest, BansInv, Held
  <1>3. Held(s, h, n) /\ \A d \in Ids(s) : Get(s, d).expiry \in Nat
    BY <1>1, SweptHeld DEF BansInv
  <1>4. \/ bl = s /\ bd = h
        \/ /\ ~(c \in Ids(s) /\ ~BanOver(Get(s, c)))
           /\ \/ over = TRUE /\ bl = Capped(m)
                 /\ bd = [d \in Clients |-> IF d \in Forget(Capped(m), m) THEN -1
                                            ELSE IF d = c THEN n + BanTtl ELSE h[d]]
              \/ over = FALSE /\ bl = Capped(Without(s, c)) /\ bd = [d \in Clients |-> h[d]]
    <2>1. CASE c \in Ids(s) /\ ~BanOver(Get(s, c))
      BY <1>1, <2>1 DEF RecordRequest
    <2>2. CASE ~(c \in Ids(s) /\ ~BanOver(Get(s, c)))
      <3>1. /\ bl = IF over THEN Capped(m) ELSE Capped(Without(s, c))
            /\ bd = [d \in Clients |->
                         IF over /\ d \in Forget(Capped(m), m) THEN -1
                         ELSE IF over /\ d = c THEN n + BanTtl
                         ELSE h[d]]
        BY <1>1, <2>2, Zenon DEF RecordRequest
      <3>2. over \in BOOLEAN
        BY <1>1
      <3>3. CASE over = TRUE
        BY <2>2, <3>1, <3>3
      <3>4. CASE over = FALSE
        BY <2>2, <3>1, <3>4
      <3>5. QED
        BY <3>2, <3>3, <3>4
    <2>3. QED
      BY <2>1, <2>2
  <1>5. CASE bl = s /\ bd = h
    BY <1>1, <1>2, <1>3, <1>5 DEF BansInv
  <1>6. CASE /\ bl = Capped(m)
             /\ bd = [d \in Clients |-> IF d \in Forget(Capped(m), m) THEN -1
                                        ELSE IF d = c THEN n + BanTtl ELSE h[d]]
    <2>1. PICK x : x = n + BanTtl
      OBVIOUS
    <2>2. x \in Nat /\ Held(s, h, n) /\ m = Append(Without(s, c), [id |-> c, expiry |-> x])
      BY <1>1, <1>2, <1>3, <2>1
    <2>3. PICK t : t = Capped(m)
      OBVIOUS
    <2>4. bd = WithBan(h, c, x, Forget(t, m))
      BY <1>6, <2>1, <2>3 DEF WithBan
    <2>5. Held(t, bd, n)
      BY <1>2, <2>2, <2>3, <2>4, AddHeld
    <2>6. Held(bl, bd, n)
      BY <1>6, <2>3, <2>5
    <2>7. QED
      BY <1>1, <1>2, <2>6 DEF BansInv
  <1>7. CASE /\ ~(c \in Ids(s) /\ ~BanOver(Get(s, c)))
             /\ bl = Capped(Without(s, c)) /\ bd = [d \in Clients |-> h[d]]
    <2>1. bd = h
      BY <1>2, <1>7
    <2>2. ~(h[c] >= n)
      <3>1. CASE c \in Ids(s)
        <4>1. n > Get(s, c).expiry /\ Get(s, c).expiry = h[c] /\ h[c] \in Int
          BY <1>1, <1>2, <1>3, <1>7, <3>1 DEF BanOver, Held
        <4>2. QED
          BY <1>2, <4>1
      <3>2. CASE c \notin Ids(s)
        BY <1>3, <3>2 DEF Held
      <3>3. QED
        BY <3>1, <3>2
    <2>3. PICK w : w = Without(s, c)
      OBVIOUS
    <2>4. Held(w, h, n)
      BY <1>2, <1>3, <2>2, <2>3, DropHeld
    <2>5. Held(bl, bd, n)
      BY <1>2, <1>7, <2>1, <2>3, <2>4, UncutHeld
    <2>6. QED
      BY <1>1, <1>2, <2>5 DEF BansInv
  <1>8. QED
    BY <1>4, <1>5, <1>6, <1>7

(* BansInv is inductive. *)
LEMMA BansStep ==
    ASSUME BansInv, [TrafficNext]_trafficVars
    PROVE  BansInv'
  <1>1. PICK b, h, n, s, bl : b = banList /\ h = banned /\ n = time /\ s = SweptBans /\ bl = banList'
    OBVIOUS
  <1>2. n \in Nat /\ Held(b, h, n) /\ Held(s, h, n) /\ \A d \in Ids(s) : Get(s, d).expiry \in Nat
    BY <1>1, SweptHeld DEF BansInv
  <1>3. ASSUME NEW c \in Clients, GetRequestCount(c) PROVE BansInv'
    <2>1. (bl = b \/ bl = s) /\ UNCHANGED <<time, banned>>
      BY <1>1, <1>3 DEF GetRequestCount
    <2>2. QED
      BY <1>1, <1>2, <2>1 DEF BansInv
  <1>4. ASSUME NEW c \in Clients, IsBanned(c) PROVE BansInv'
    <2>1. /\ bl = IF c \in Ids(s) /\ BanOver(Get(s, c)) THEN Without(s, c) ELSE s
          /\ UNCHANGED <<time, banned>>
      BY <1>1, <1>4 DEF IsBanned
    <2>2. CASE c \in Ids(s) /\ BanOver(Get(s, c))
      <3>1. n > Get(s, c).expiry /\ Get(s, c).expiry = h[c] /\ h \in [Clients -> Int]
        BY <1>1, <1>2, <2>2 DEF BanOver, Held
      <3>2. h[c] \in Int /\ ~(h[c] >= n)
        BY <1>2, <3>1
      <3>3. Held(bl, h, n)
        BY <1>2, <2>1, <2>2, <3>1, <3>2, DropHeld
      <3>4. QED
        BY <1>1, <1>2, <2>1, <3>3 DEF BansInv
    <2>3. CASE ~(c \in Ids(s) /\ BanOver(Get(s, c)))
      BY <1>1, <1>2, <2>1, <2>3 DEF BansInv
    <2>4. QED
      BY <2>2, <2>3
  <1>5. ASSUME NEW c \in Clients, Unban(c) PROVE BansInv'
    <2>1. PICK g : g = [h EXCEPT ![c] = -1]
      OBVIOUS
    <2>2. bl = Without(b, c) /\ banned' = g /\ time' = time
      BY <1>1, <1>5, <2>1 DEF Unban
    <2>3. /\ g \in [Clients -> Int] /\ g[c] = -1 /\ \A d \in Clients \ {c} : g[d] = h[d]
      BY <1>2, <2>1 DEF Held
    <2>4. ~(g[c] >= n)
      BY <1>2, <2>3
    <2>5. Held(bl, g, n)
      BY <1>2, <2>2, <2>3, <2>4, DropHeld
    <2>6. QED
      BY <1>1, <1>2, <2>2, <2>5 DEF BansInv
  <1>6. CASE TimePasses
    <2>1. n + 1 \in Nat /\ time' = n + 1 /\ banList' = b /\ banned' = h
      BY <1>1, <1>2, <1>6 DEF TimePasses
    <2>2. Held(b, h, n + 1)
      <3>1. ASSUME NEW d \in Clients, h[d] >= n + 1 PROVE d \in Ids(b)
        <4>1. h[d] \in Int
          BY <1>2 DEF Held
        <4>2. h[d] >= n
          BY <1>2, <3>1, <4>1
        <4>3. QED
          BY <1>2, <4>2 DEF Held
      <3>2. QED
        BY <1>2, <3>1 DEF Held
    <2>3. QED
      BY <2>1, <2>2 DEF BansInv
  <1>7. ASSUME NEW c \in Clients, Record(c) PROVE BansInv'
    BY <1>7 DEF Record, BansInv
  <1>8. CASE UNCHANGED trafficVars
    BY <1>8 DEF trafficVars, BansInv
  <1>9. QED
    BY <1>3, <1>4, <1>5, <1>6, <1>7, <1>8, RequestHeld DEF TrafficNext

(* A ban holds for its term: sweeps, queries, the requests of others and   *)
(* the cap drop only bans that are over, but for those the cap evicts      *)
(* (IPTracker.recordRequest, isBanned, enforceCaps).                       *)
THEOREM BansAreHeld == TrafficSpec => []BansHold
  <1>1. TrafficInit => BansInv
    <2> SUFFICES ASSUME TrafficInit PROVE BansInv
      OBVIOUS
    <2>1. PICK b, h : b = banList /\ h = banned
      OBVIOUS
    <2>2. b = <<>> /\ h = [c \in Clients |-> -1] /\ time = 0
      BY <2>1 DEF TrafficInit
    <2>3. b \in Seq(BanEntries) /\ DOMAIN b = {} /\ Len(b) = 0
      BY <2>2
    <2>4. UniqueIds(b) /\ Ids(b) = {}
      BY <2>3 DEF UniqueIds, Ids
    <2>5. h \in [Clients -> Int] /\ \A c \in Clients : ~(h[c] >= 0)
      <3>1. -1 \in Int /\ ~(-1 >= 0)
        OBVIOUS
      <3>2. QED
        BY <2>2, <3>1
    <2>6. Held(b, h, 0)
      BY <2>3, <2>4, <2>5, TrafficAssumption DEF Held
    <2>7. QED
      BY <2>1, <2>2, <2>6 DEF BansInv
  <1>2. BansInv /\ [TrafficNext]_trafficVars => BansInv'
    BY BansStep
  <1>3. BansInv => BansHold
    <2> SUFFICES ASSUME BansInv PROVE BansHold
      OBVIOUS
    <2>1. PICK b, h, n : b = banList /\ h = banned /\ n = time
      OBVIOUS
    <2>2. n \in Nat /\ Held(b, h, n)
      BY <2>1 DEF BansInv
    <2>3. ASSUME NEW i \in DOMAIN b PROVE b[i].expiry = h[b[i].id]
      <3>1. Get(b, b[i].id) = b[i]
        BY <2>2, GetIs DEF Held
      <3>2. b[i].id \in Ids(b)
        BY DEF Ids
      <3>3. QED
        BY <2>2, <3>1, <3>2 DEF Held
    <2>4. QED
      BY <2>1, <2>2, <2>3 DEF BansHold, Held
  <1>4. QED
    BY <1>1, <1>2, <1>3, PTL DEF TrafficSpec

-----------------------------------------------------------------------------
(* The log analyzer: the errors of a batch, one after the other.           *)

Ordered(e) == \A k, l \in 1 .. Len(e) : k <= l => e[k].time <= e[l].time

(* The list e has the errors of the batch b in the order of their time:    *)
(* that of place k is at o[k] in b.                                        *)
ListsErrors(o, b, e) ==
    /\ o \in [1 .. Len(e) -> DOMAIN b]
    /\ \A k \in 1 .. Len(e) : e[k] = b[o[k]] /\ IsError(b[o[k]])
    /\ \A p \in DOMAIN b : IsError(b[p]) => \E k \in 1 .. Len(e) : o[k] = p
    /\ \A k, l \in 1 .. Len(e) : o[k] = o[l] => k = l

(* The list c has each element of the list b in one place: that of place k *)
(* is at q[k] in b.                                                        *)
Permutes(q, b, c) ==
    /\ q \in [1 .. Len(b) -> 1 .. Len(b)]
    /\ \A k \in 1 .. Len(b) : c[k] = b[q[k]]
    /\ \A p \in 1 .. Len(b) : \E k \in 1 .. Len(b) : q[k] = p
    /\ \A k, l \in 1 .. Len(b) : q[k] = q[l] => k = l

(* Sorting a batch by time permutes it. *)
LEMMA SortedBatch ==
    ASSUME NEW b \in Seq(Entries)
    PROVE  /\ SortedLogs(b) \in Seq(Entries) /\ Len(SortedLogs(b)) = Len(b)
           /\ Ordered(SortedLogs(b))
           /\ \E q : Permutes(q, b, SortedLogs(b))
  <1>1. PICK D, R, n : D = DOMAIN b /\ R = ByTime(b, DOMAIN b) /\ n = Len(b)
    OBVIOUS
  <1>2. PICK c, q : c = SortedLogs(b) /\ q = Sorted(D, R)
    OBVIOUS
  <1>3. n \in Nat /\ D = 1 .. n
    BY <1>1
  <1>4. c = [k \in D |-> b[q[k]]]
    BY <1>1, <1>2 DEF SortedLogs
  <1>5. PICK u : u = [i \in D |-> b[i].time]
    OBVIOUS
  <1>6. \A i \in D : b[i] \in Entries /\ u[i] = b[i].time /\ u[i] \in Int
    <2>1. \A i \in D : b[i] \in Entries
      BY <1>1
    <2>2. \A i \in D : b[i].time \in Int
      BY <2>1 DEF Entries
    <2>3. QED
      BY <1>5, <2>1, <2>2
  <1>7. IsFiniteSet(D) /\ Cardinality(D) = n
    <2>1. 1 \in Int /\ n \in Int
      BY <1>3
    <2>2. IsFiniteSet(1 .. n) /\ Cardinality(1 .. n) = n
      BY <1>3, <2>1, FS_Interval
    <2>3. QED
      BY <1>3, <2>2
  <1>8. \A i, j \in D : <<i, j>> \in R <=> u[i] < u[j] \/ (u[i] = u[j] /\ i <= j)
    <2> SUFFICES ASSUME NEW i \in D, NEW j \in D
                 PROVE  <<i, j>> \in R <=> u[i] < u[j] \/ (u[i] = u[j] /\ i <= j)
      OBVIOUS
    <2>1. R = {r \in D \X D : NoLater(b, r[1], r[2])}
      BY <1>1 DEF ByTime
    <2>2. <<i, j>> \in R <=> NoLater(b, i, j)
      BY <2>1
    <2>3. u[i] = b[i].time /\ u[j] = b[j].time
      BY <1>6
    <2>4. QED
      BY <2>2, <2>3 DEF NoLater
  <1>9. TotalOrder(D, R)
    <2>1. \A i \in D : i \in Nat /\ u[i] \in Int
      BY <1>3, <1>6
    <2>2. \A x \in D : <<x, x>> \in R
      BY <1>8, <2>1
    <2>3. ASSUME NEW x \in D, NEW y \in D PROVE <<x, y>> \in R \/ <<y, x>> \in R
      <3>1. \/ u[x] < u[y] \/ (u[x] = u[y] /\ x <= y)
            \/ u[y] < u[x] \/ (u[y] = u[x] /\ y <= x)
        BY <2>1
      <3>2. QED
        BY <1>8, <3>1
    <2>4. \A x, y \in D : <<x, y>> \in R /\ <<y, x>> \in R => x = y
      BY <1>8, <2>1
    <2>5. \A x, y, z \in D : <<x, y>> \in R /\ <<y, z>> \in R => <<x, z>> \in R
      BY <1>8, <2>1
    <2>6. QED
      BY <2>2, <2>3, <2>4, <2>5 DEF TotalOrder
  <1>10. /\ q \in [1 .. n -> D]
         /\ \A i \in D : \E k \in 1 .. n : q[k] = i
         /\ \A k, l \in 1 .. n : q[k] = q[l] => k = l
         /\ \A k, l \in 1 .. n : k <= l => <<q[k], q[l]>> \in R
    BY <1>2, <1>7, <1>9, SortedLists
  <1>11. c \in [1 .. n -> Entries]
    BY <1>3, <1>4, <1>6, <1>10
  <1>12. c \in Seq(Entries) /\ Len(c) = n
    BY <1>3, <1>11
  <1>13. Ordered(c)
    <2> SUFFICES ASSUME NEW k \in 1 .. n, NEW l \in 1 .. n, k <= l
                 PROVE  c[k].time <= c[l].time
      BY <1>12 DEF Ordered
    <2>1. q[k] \in D /\ q[l] \in D /\ <<q[k], q[l]>> \in R
      BY <1>10
    <2>2. u[q[k]] <= u[q[l]]
      BY <1>6, <1>8, <2>1
    <2>3. c[k].time = u[q[k]] /\ c[l].time = u[q[l]]
      BY <1>3, <1>4, <1>6, <2>1
    <2>4. QED
      BY <2>2, <2>3
  <1>14. \A k \in 1 .. n : c[k] = b[q[k]]
    BY <1>3, <1>4
  <1>15. Permutes(q, b, c)
    BY <1>1, <1>3, <1>10, <1>14 DEF Permutes
  <1>16. QED
    BY <1>1, <1>2, <1>12, <1>13, <1>15

(* The analyzer has every error of the batch once, in the order of time.   *)
LEMMA ErrorsListed ==
    ASSUME NEW b \in Seq(Entries)
    PROVE  /\ ErrorsOf(SortedLogs(b)) \in Seq(Entries)
           /\ Ordered(ErrorsOf(SortedLogs(b)))
           /\ \E o : ListsErrors(o, b, ErrorsOf(SortedLogs(b)))
  <1>1. PICK c, n : c = SortedLogs(b) /\ n = Len(b)
    OBVIOUS
  <1>14. c \in Seq(Entries) /\ Len(c) = n /\ Ordered(c) /\ \E q : Permutes(q, b, c)
    BY <1>1, SortedBatch
  <1>15. PICK q : Permutes(q, b, c)
    BY <1>14
  <1>2. /\ c \in Seq(Entries) /\ Len(c) = n /\ Ordered(c)
        /\ q \in [1 .. n -> 1 .. n]
        /\ \A k \in 1 .. n : c[k] = b[q[k]]
        /\ \A p \in 1 .. n : \E k \in 1 .. n : q[k] = p
        /\ \A k, l \in 1 .. n : q[k] = q[l] => k = l
    BY <1>1, <1>14, <1>15 DEF Permutes
  <1>3. PICK P, e : P = {k \in DOMAIN c : IsError(c[k])} /\ e = ErrorsOf(c)
    OBVIOUS
  <1>4. P \in SUBSET DOMAIN c /\ e = Kept(c, P)
    BY <1>3 DEF ErrorsOf
  <1>5. e \in Seq(Entries) /\ Len(e) \in Nat /\ \E f : Filters(f, c, P, e)
    BY <1>2, <1>4, KeptList
  <1>6. PICK f : Filters(f, c, P, e)
    BY <1>5
  <1>7. n \in Nat /\ DOMAIN c = 1 .. n /\ DOMAIN b = 1 .. n
    BY <1>1, <1>2
  <1>8. /\ f \in [1 .. Len(e) -> 1 .. n]
        /\ \A k \in 1 .. Len(e) : e[k] = c[f[k]] /\ IsError(c[f[k]])
        /\ \A i \in 1 .. n : IsError(c[i]) => \E k \in 1 .. Len(e) : f[k] = i
        /\ \A k, l \in 1 .. Len(e) : k < l => f[k] < f[l]
    BY <1>3, <1>6, <1>7 DEF Filters
  <1>9. Ordered(e)
    <2> SUFFICES ASSUME NEW k \in 1 .. Len(e), NEW l \in 1 .. Len(e), k <= l
                 PROVE  e[k].time <= e[l].time
      BY DEF Ordered
    <2>1. f[k] \in 1 .. n /\ f[l] \in 1 .. n
      BY <1>8
    <2>2. f[k] <= f[l]
      <3>1. CASE k = l
        BY <1>7, <2>1, <3>1
      <3>2. CASE k < l
        BY <1>7, <1>8, <2>1, <3>2
      <3>3. QED
        BY <1>5, <3>1, <3>2
    <2>3. c[f[k]].time <= c[f[l]].time
      BY <1>2, <2>1, <2>2 DEF Ordered
    <2>4. QED
      BY <1>8, <2>3
  <1>10. PICK o : o = [k \in 1 .. Len(e) |-> q[f[k]]]
    OBVIOUS
  <1>11. \A k \in 1 .. Len(e) : o[k] = q[f[k]] /\ f[k] \in 1 .. n /\ o[k] \in 1 .. n
    BY <1>2, <1>8, <1>10
  <1>12. ListsErrors(o, b, e)
    <2>1. o \in [1 .. Len(e) -> DOMAIN b]
      BY <1>7, <1>10, <1>11
    <2>2. \A k \in 1 .. Len(e) : e[k] = b[o[k]] /\ IsError(b[o[k]])
      BY <1>2, <1>8, <1>11
    <2>3. ASSUME NEW p \in DOMAIN b, IsError(b[p])
          PROVE  \E k \in 1 .. Len(e) : o[k] = p
      <3>1. PICK i \in 1 .. n : q[i] = p
        BY <1>2, <1>7
      <3>2. IsError(c[i])
        BY <1>2, <2>3, <3>1
      <3>3. PICK k \in 1 .. Len(e) : f[k] = i
        BY <1>8, <3>2
      <3>4. o[k] = p
        BY <1>11, <3>1, <3>3
      <3>5. QED
        BY <3>4
    <2>4. ASSUME NEW k \in 1 .. Len(e), NEW l \in 1 .. Len(e), o[k] = o[l]
          PROVE  k = l
      <3>1. f[k] = f[l]
        BY <1>2, <1>11, <2>4
      <3>2. k \in Nat /\ l \in Nat /\ f[k] \in Nat /\ f[l] \in Nat
        BY <1>5, <1>7, <1>11
      <3>3. ~(k < l) /\ ~(l < k)
        BY <1>8, <3>1, <3>2
      <3>4. QED
        BY <3>2, <3>3
    <2>5. QED
      BY <2>1, <2>2, <2>3, <2>4 DEF ListsErrors
  <1>13. QED
    BY <1>1, <1>3, <1>5, <1>9, <1>12

(* The time of an entry is a number. *)
LEMMA TimesAreNumbers ==
    ASSUME NEW e \in Seq(Entries)
    PROVE  Len(e) \in Nat /\ DOMAIN e = 1 .. Len(e) /\ \A k \in 1 .. Len(e) : e[k].time \in Int
  <1>1. \A k \in 1 .. Len(e) : e[k] \in Entries
    OBVIOUS
  <1>2. QED
    BY <1>1 DEF Entries

(* c is the number of errors from the i-th on whose time is in the window  *)
(* that the i-th opens.                                                    *)
Counts(e, i, c) ==
    /\ c \in Nat /\ c >= 1 /\ i + c <= Len(e) + 1
    /\ \A j \in i .. Len(e) : e[j].time <= e[i].time + WindowMs <=> j < i + c

(* Counting up to the first error behind the window counts all in it.      *)
LEMMA WindowCount ==
    ASSUME NEW e \in Seq(Entries), Ordered(e), NEW i \in 1 .. Len(e)
    PROVE  Counts(e, i, CountInWindow(e, i))
  <1>1. PICK n, u, z : /\ n = Len(e) /\ u = [k \in 1 .. Len(e) |-> e[k].time]
                       /\ z = e[i].time + WindowMs
    OBVIOUS
  <1>2. /\ n \in Nat /\ i \in 1 .. n /\ \A k \in 1 .. n : u[k] \in Int /\ u[k] = e[k].time
        /\ \A k, l \in 1 .. n : k <= l => u[k] <= u[l]
    BY <1>1, TimesAreNumbers DEF Ordered
  <1>3. z \in Int /\ u[i] <= z
    BY <1>1, <1>2, SpikeAssumption
  <1>4. PICK T : T = {j \in i .. n + 1 : j = n + 1 \/ u[j] > z}
    OBVIOUS
  <1>5. T \subseteq Nat /\ n + 1 \in T
    BY <1>2, <1>4
  <1>6. PICK m \in T : \A y \in T : m <= y
    BY <1>5, LeastOf
  <1>7. m \in i + 1 .. n + 1
    BY <1>2, <1>3, <1>4, <1>6
  <1>8. \A j \in i .. n : u[j] <= z <=> j < m
    <2>1. ASSUME NEW j \in i .. n, u[j] <= z PROVE j < m
      <3>1. CASE m = n + 1
        BY <1>2, <3>1
      <3>2. CASE m \in i .. n /\ m <= j
        <4>1. u[m] <= u[j] /\ u[m] \in Int /\ u[j] \in Int
          BY <1>2, <3>2
        <4>2. u[m] > z
          BY <1>2, <1>4, <3>2
        <4>3. QED
          BY <1>3, <2>1, <4>1, <4>2
      <3>3. QED
        BY <1>2, <1>7, <3>1, <3>2
    <2>2. ASSUME NEW j \in i .. n, j < m PROVE u[j] <= z
      <3>1. j \notin T
        BY <1>2, <1>6, <1>7, <2>2
      <3>2. ~(u[j] > z) /\ u[j] \in Int
        BY <1>2, <1>4, <3>1
      <3>3. QED
        BY <1>3, <3>2
    <2>3. QED
      BY <2>1, <2>2
  <1>9. {j \in i .. Len(e) : \A k \in i .. j : e[k].time <= e[i].time + WindowMs} = i .. m - 1
    <2>1. ASSUME NEW j \in i .. n
          PROVE  (\A k \in i .. j : e[k].time <= e[i].time + WindowMs) <=> j < m
      <3>1. \A k \in i .. j : k \in i .. n /\ (e[k].time <= e[i].time + WindowMs <=> k < m)
        <4> TAKE k \in i .. j
        <4>1. k \in i .. n /\ k \in 1 .. n
          BY <1>2
        <4>2. u[k] <= z <=> k < m
          BY <1>8, <4>1
        <4>3. QED
          BY <1>1, <1>2, <4>1, <4>2
      <3>2. j \in i .. j
        BY <1>2
      <3>3. j < m => \A k \in i .. j : k < m
        BY <1>2, <1>7
      <3>4. QED
        BY <3>1, <3>2, <3>3
    <2>2. {j \in i .. n : j < m} = i .. m - 1
      BY <1>2, <1>7
    <2>3. QED
      BY <1>1, <2>1, <2>2
  <1>10. CountInWindow(e, i) = m - i
    <2>1. i \in Int /\ m - 1 \in Int /\ i <= m - 1
      BY <1>2, <1>7
    <2>2. Cardinality(i .. m - 1) = m - 1 - i + 1
      BY <2>1, FS_Interval
    <2>3. CountInWindow(e, i) = Cardinality(i .. m - 1)
      BY <1>9 DEF CountInWindow
    <2>4. QED
      BY <1>2, <1>7, <2>1, <2>2, <2>3
  <1>11. PICK c : c = CountInWindow(e, i)
    OBVIOUS
  <1>12. c \in Nat /\ c >= 1 /\ i + c = m
    BY <1>2, <1>7, <1>10, <1>11
  <1>13. Counts(e, i, c)
    <2>1. \A j \in i .. Len(e) : e[j].time <= e[i].time + WindowMs <=> j < i + c
      <3> TAKE j \in i .. Len(e)
      <3>1. j \in i .. n /\ j \in 1 .. n
        BY <1>1, <1>2
      <3>2. u[j] = e[j].time /\ (u[j] <= z <=> j < m)
        BY <1>2, <1>8, <3>1
      <3>3. QED
        BY <1>1, <1>12, <3>2
    <2>2. i + c <= Len(e) + 1
      BY <1>1, <1>2, <1>7, <1>12
    <2>3. QED
      BY <1>12, <2>1, <2>2 DEF Counts
  <1>14. QED
    BY <1>11, <1>13

(* The i-th error is the first of its time. *)
FirstOfTime(e, i) == \A k \in 1 .. Len(e) : k < i => e[k].time < e[i].time

(* The errors in the window that the first error of some time opens are    *)
(* those that the loop counts, wherever they are in the batch.             *)
LEMMA WindowOfBatch ==
    ASSUME logs \in Seq(Entries), NEW e \in Seq(Entries), Ordered(e),
           NEW o, ListsErrors(o, logs, e), NEW i \in 1 .. Len(e), FirstOfTime(e, i)
    PROVE  Cardinality(ErrorsWithin(e[i].time)) = CountInWindow(e, i)
  <1>1. PICK n, c, E : n = Len(e) /\ c = CountInWindow(e, i) /\ E = ErrorsWithin(e[i].time)
    OBVIOUS
  <1>2. Counts(e, i, c)
    BY <1>1, WindowCount
  <1>3. PICK t : t = e[i].time
    OBVIOUS
  <1>4. /\ n \in Nat /\ i \in 1 .. n /\ t \in Int /\ t + WindowMs \in Int
        /\ \A k \in 1 .. n : e[k].time \in Int
        /\ c \in Nat /\ c >= 1 /\ i + c <= n + 1
    BY <1>1, <1>2, <1>3, TimesAreNumbers, SpikeAssumption DEF Counts
  <1>5. \A k \in 1 .. n : e[k].time \in t .. t + WindowMs <=> k \in i .. i + c - 1
    <2> TAKE k \in 1 .. n
    <2>1. CASE k < i
      <3>1. e[k].time < t
        BY <1>1, <1>3, <2>1 DEF FirstOfTime
      <3>2. QED
        BY <1>4, <2>1, <3>1
    <2>2. CASE k >= i
      <3>1. t <= e[k].time
        BY <1>1, <1>3, <1>4, <2>2 DEF Ordered
      <3>2. e[k].time <= t + WindowMs <=> k < i + c
        BY <1>1, <1>2, <1>3, <1>4, <2>2 DEF Counts
      <3>3. QED
        BY <1>4, <2>2, <3>1, <3>2
    <2>3. QED
      BY <1>4, <2>1, <2>2
  <1>6. E = {p \in DOMAIN logs : IsError(logs[p]) /\ logs[p].time \in t .. t + WindowMs}
    BY <1>1, <1>3 DEF ErrorsWithin
  <1>7. /\ o \in [1 .. n -> DOMAIN logs]
        /\ \A k \in 1 .. n : e[k] = logs[o[k]] /\ IsError(logs[o[k]])
        /\ \A p \in DOMAIN logs : IsError(logs[p]) => \E k \in 1 .. n : o[k] = p
        /\ \A k, l \in 1 .. n : o[k] = o[l] => k = l
    BY <1>1 DEF ListsErrors
  <1>8. PICK I, f : I = i .. i + c - 1 /\ f = [k \in I |-> o[k]]
    OBVIOUS
  <1>9. I \subseteq 1 .. n /\ \A k \in I : f[k] = o[k]
    BY <1>4, <1>8
  <1>10. f \in [I -> E]
    <2>1. \A k \in I : o[k] \in E
      BY <1>5, <1>6, <1>7, <1>8, <1>9
    <2>2. QED
      BY <1>8, <2>1
  <1>11. \A p \in E : \E k \in I : f[k] = p
    <2> TAKE p \in E
    <2>1. PICK k \in 1 .. n : o[k] = p
      BY <1>6, <1>7
    <2>2. e[k].time \in t .. t + WindowMs
      BY <1>6, <1>7, <2>1
    <2>3. k \in I
      BY <1>5, <1>8, <2>2
    <2>4. QED
      BY <1>9, <2>1, <2>3
  <1>12. \A k, l \in I : f[k] = f[l] => k = l
    BY <1>7, <1>9
  <1>13. ExistsBijection(I, E)
    <2>1. f \in Injection(I, E)
      BY <1>10, <1>12 DEF Injection, IsInjective
    <2>2. f \in Surjection(I, E)
      BY <1>10, <1>11 DEF Surjection
    <2>3. QED
      BY <2>1, <2>2 DEF ExistsBijection, Bijection
  <1>14. IsFiniteSet(I) /\ Cardinality(I) = c
    <2>1. PICK d : d = i + c - 1
      OBVIOUS
    <2>2. i \in Int /\ d \in Int /\ i <= d
      BY <1>4, <2>1
    <2>3. IsFiniteSet(i .. d) /\ Cardinality(i .. d) = d - i + 1
      BY <2>2, FS_Interval
    <2>4. QED
      BY <1>4, <1>8, <2>1, <2>3
  <1>15. Cardinality(E) = c
    BY <1>13, <1>14, FS_Bijection
  <1>16. QED
    BY <1>1, <1>15

(* Of the errors that the loop has passed, each is in the window of a      *)
(* spike or too few follow it for one.                                     *)
Passed(e, from, sp) ==
    \A k \in 1 .. Len(e) :
        k < from => \/ \E s \in sp : Within(e[k].time, s)
                    \/ CountInWindow(e, k) < ErrorThreshold

(* The spike s begins at the i-th error, the first of its time.            *)
Opens(e, i, s) ==
    s.time = e[i].time /\ s.count = CountInWindow(e, i) /\ FirstOfTime(e, i)

(* Every spike is behind the place the loop has reached.                   *)
Reported(e, from, sp) ==
    \A s \in sp : \E i \in 1 .. Len(e) : Opens(e, i, s) /\ i + s.count <= from

Apart(sp) == \A s, t \in sp : s # t => ~Within(t.time, s)

(* What is behind the place reached is in no window of a spike reported.   *)
LEMMA BehindSpikes ==
    ASSUME NEW e \in Seq(Entries), Ordered(e), NEW from \in 1 .. Len(e),
           NEW sp, Reported(e, from, sp), NEW s \in sp
    PROVE  s.time \in Int /\ s.time + WindowMs < e[from].time
  <1>1. PICK i \in 1 .. Len(e) : Opens(e, i, s) /\ i + s.count <= from
    BY DEF Reported
  <1>2. Counts(e, i, s.count) /\ s.time = e[i].time
    BY <1>1, WindowCount DEF Opens
  <1>3. PICK t, u, c : t = s.time /\ u = e[from].time /\ c = s.count
    OBVIOUS
  <1>4. /\ Len(e) \in Nat /\ t \in Int /\ u \in Int /\ WindowMs \in Nat
        /\ c \in Nat /\ c >= 1 /\ i + c <= from
    BY <1>1, <1>2, <1>3, TimesAreNumbers, SpikeAssumption DEF Counts
  <1>5. from \in i .. Len(e) /\ ~(from < i + c)
    BY <1>4
  <1>6. u <= t + WindowMs <=> from < i + c
    BY <1>2, <1>3, <1>5 DEF Counts
  <1>7. QED
    BY <1>3, <1>4, <1>5, <1>6

(* A spike that the loop finds begins at the first error of its time.      *)
LEMMA SpikeIsFirst ==
    ASSUME NEW e \in Seq(Entries), Ordered(e), NEW from \in 1 .. Len(e), NEW sp,
           Passed(e, from, sp), Reported(e, from, sp),
           CountInWindow(e, from) >= ErrorThreshold
    PROVE  FirstOfTime(e, from)
  <1> SUFFICES ASSUME NEW k \in 1 .. Len(e), k < from
               PROVE  e[k].time < e[from].time
    BY DEF FirstOfTime
  <1>1. PICK t, u : t = e[k].time /\ u = e[from].time
    OBVIOUS
  <1>2. t \in Int /\ u \in Int /\ t <= u /\ Len(e) \in Nat /\ WindowMs \in Nat /\ ErrorThreshold \in Nat
    BY <1>1, TimesAreNumbers, SpikeAssumption DEF Ordered
  <1>3. CASE \E s \in sp : Within(e[k].time, s)
    <2>1. PICK s \in sp : Within(e[k].time, s)
      BY <1>3
    <2>2. s.time \in Int /\ s.time + WindowMs < u
      BY <1>1, BehindSpikes
    <2>3. t <= s.time + WindowMs
      BY <1>1, <1>2, <2>1, <2>2 DEF Within
    <2>4. QED
      BY <1>1, <1>2, <2>2, <2>3
  <1>4. CASE CountInWindow(e, k) < ErrorThreshold
    <2>1. PICK c, d : c = CountInWindow(e, k) /\ d = CountInWindow(e, from)
      OBVIOUS
    <2>2. Counts(e, k, c) /\ Counts(e, from, d)
      BY <2>1, WindowCount
    <2>3. /\ c \in Nat /\ d \in Nat /\ d >= 1 /\ from + d <= Len(e) + 1
          /\ c < ErrorThreshold /\ d >= ErrorThreshold
      BY <1>4, <2>1, <2>2 DEF Counts
    <2>4. PICK j : j = from + d - 1
      OBVIOUS
    <2>5. j \in from .. Len(e) /\ j \in k .. Len(e) /\ j < from + d /\ ~(j < k + c)
      BY <1>2, <2>3, <2>4
    <2>6. e[j].time <= u + WindowMs /\ ~(e[j].time <= t + WindowMs)
      BY <1>1, <2>2, <2>5 DEF Counts
    <2>7. e[j].time \in Int
      BY <1>2, <2>5, TimesAreNumbers
    <2>8. QED
      BY <1>1, <1>2, <2>6, <2>7
  <1>5. QED
    BY <1>3, <1>4 DEF Passed

(* A round that finds no spike goes on at the next error.                  *)
LEMMA QuietRound ==
    ASSUME NEW e \in Seq(Entries), NEW from \in 1 .. Len(e), NEW sp,
           Passed(e, from, sp), Reported(e, from, sp), Ordered(e),
           CountInWindow(e, from) < ErrorThreshold
    PROVE  Passed(e, from + 1, sp) /\ Reported(e, from + 1, sp)
  <1>1. Len(e) \in Nat
    OBVIOUS
  <1>2. Passed(e, from + 1, sp)
    <2> SUFFICES ASSUME NEW k \in 1 .. Len(e), k < from + 1
                 PROVE  \/ \E s \in sp : Within(e[k].time, s)
                        \/ CountInWindow(e, k) < ErrorThreshold
      BY DEF Passed
    <2>1. k < from \/ k = from
      BY <1>1
    <2>2. QED
      BY <2>1 DEF Passed
  <1>3. Reported(e, from + 1, sp)
    <2> SUFFICES ASSUME NEW s \in sp
                 PROVE  \E i \in 1 .. Len(e) : Opens(e, i, s) /\ i + s.count <= from + 1
      BY DEF Reported
    <2>1. PICK i \in 1 .. Len(e) : Opens(e, i, s) /\ i + s.count <= from
      BY DEF Reported
    <2>2. s.count \in Nat
      BY <2>1, WindowCount DEF Opens, Counts
    <2>3. i + s.count <= from + 1
      BY <1>1, <2>1, <2>2
    <2>4. QED
      BY <2>1, <2>3
  <1>4. QED
    BY <1>2, <1>3

(* A round that finds a spike reports it and goes on behind it.            *)
LEMMA SpikeRound ==
    ASSUME NEW e \in Seq(Entries), Ordered(e), NEW from \in 1 .. Len(e), NEW sp,
           Passed(e, from, sp), Reported(e, from, sp), Apart(sp),
           NEW c, c = CountInWindow(e, from), c >= ErrorThreshold,
           NEW x, x.time = e[from].time, x.count = c
    PROVE  /\ from + c \in 1 .. Len(e) + 1
           /\ Passed(e, from + c, sp \union {x})
           /\ Reported(e, from + c, sp \union {x})
           /\ Apart(sp \union {x})
  <1>1. Counts(e, from, c)
    BY WindowCount
  <1>2. Len(e) \in Nat /\ c \in Nat /\ c >= 1 /\ from + c <= Len(e) + 1 /\ WindowMs \in Nat
    BY <1>1, SpikeAssumption DEF Counts
  <1>3. \A k \in 1 .. Len(e) : e[k].time \in Int
    BY TimesAreNumbers
  <1>4. Passed(e, from + c, sp \union {x})
    <2> SUFFICES ASSUME NEW k \in 1 .. Len(e), k < from + c
                 PROVE  \/ \E s \in sp \union {x} : Within(e[k].time, s)
                        \/ CountInWindow(e, k) < ErrorThreshold
      BY DEF Passed
    <2>1. CASE k < from
      BY <2>1 DEF Passed
    <2>2. CASE k >= from
      <3>1. k \in from .. Len(e)
        BY <1>2, <2>2
      <3>2. e[k].time <= e[from].time + WindowMs
        BY <1>1, <3>1 DEF Counts
      <3>3. e[from].time <= e[k].time
        BY <2>2 DEF Ordered
      <3>4. Within(e[k].time, x)
        BY <1>2, <1>3, <3>2, <3>3 DEF Within
      <3>5. QED
        BY <3>4
    <2>3. QED
      BY <1>2, <2>1, <2>2
  <1>5. Reported(e, from + c, sp \union {x})
    <2> SUFFICES ASSUME NEW s \in sp \union {x}
                 PROVE  \E i \in 1 .. Len(e) : Opens(e, i, s) /\ i + s.count <= from + c
      BY DEF Reported
    <2>1. CASE s \in sp
      <3>1. PICK i \in 1 .. Len(e) : Opens(e, i, s) /\ i + s.count <= from
        BY <2>1 DEF Reported
      <3>2. s.count \in Nat
        BY <3>1, WindowCount DEF Opens, Counts
      <3>3. i + s.count <= from + c
        BY <1>2, <3>1, <3>2
      <3>4. QED
        BY <3>1, <3>3
    <2>2. CASE s = x
      <3>1. FirstOfTime(e, from)
        BY SpikeIsFirst
      <3>2. Opens(e, from, x)
        BY <3>1 DEF Opens
      <3>3. from + x.count <= from + c
        BY <1>2
      <3>4. QED
        BY <2>2, <3>2, <3>3
    <2>3. QED
      BY <2>1, <2>2
  <1>6. Apart(sp \union {x})
    <2>1. ASSUME NEW s \in sp PROVE ~Within(x.time, s) /\ ~Within(s.time, x)
      <3>1. s.time \in Int /\ s.time + WindowMs < e[from].time
        BY BehindSpikes
      <3>2. x.time \in Int /\ x.time = e[from].time
        BY <1>3
      <3>3. s.time < x.time /\ s.time + WindowMs < x.time
        BY <1>2, <3>1, <3>2
      <3>4. QED
        BY <1>2, <3>1, <3>2, <3>3 DEF Within
    <2>2. QED
      BY <2>1 DEF Apart
  <1>7. QED
    BY <1>2, <1>4, <1>5, <1>6

(* When the loop ends, an error whose window has enough errors is in the   *)
(* window of a spike, wherever it is in the batch.                         *)
LEMMA LoopCovers ==
    ASSUME logs \in Seq(Entries), NEW e \in Seq(Entries), Ordered(e),
           NEW o, ListsErrors(o, logs, e), NEW sp,
           NEW from \in 1 .. Len(e) + 1, Passed(e, from, sp),
           ~(from <= Len(e) - ErrorThreshold + 1),
           NEW p \in DOMAIN logs, IsError(logs[p]),
           Cardinality(ErrorsWithin(logs[p].time)) >= ErrorThreshold
    PROVE  \E s \in sp : Within(logs[p].time, s)
  <1>1. PICK t : t = logs[p].time
    OBVIOUS
  <1>2. Len(e) \in Nat /\ ErrorThreshold \in Nat /\ \A k \in 1 .. Len(e) : e[k].time \in Int
    BY TimesAreNumbers, SpikeAssumption
  <1>3. PICK T : T = {k \in 1 .. Len(e) : e[k].time = t}
    OBVIOUS
  <1>4. T \subseteq Nat /\ T # {}
    <2>1. PICK k \in 1 .. Len(e) : o[k] = p
      BY DEF ListsErrors
    <2>2. e[k] = logs[p]
      BY <2>1 DEF ListsErrors
    <2>3. k \in T
      BY <1>1, <1>3, <2>2
    <2>4. QED
      BY <1>2, <1>3, <2>3
  <1>5. PICK i \in T : \A y \in T : i <= y
    BY <1>4, LeastOf
  <1>6. i \in 1 .. Len(e) /\ e[i].time = t
    BY <1>3, <1>5
  <1>7. FirstOfTime(e, i)
    <2> SUFFICES ASSUME NEW k \in 1 .. Len(e), k < i
                 PROVE  e[k].time < e[i].time
      BY DEF FirstOfTime
    <2>1. k \notin T
      BY <1>2, <1>5, <1>6
    <2>2. e[k].time # t /\ e[k].time <= e[i].time
      BY <1>2, <1>3, <1>6, <2>1 DEF Ordered
    <2>3. QED
      BY <1>2, <1>6, <2>2
  <1>8. PICK c : c = CountInWindow(e, i)
    OBVIOUS
  <1>9. Cardinality(ErrorsWithin(t)) = c
    BY <1>6, <1>7, <1>8, WindowOfBatch
  <1>10. Counts(e, i, c)
    BY <1>6, <1>8, WindowCount
  <1>11. c \in Nat /\ c >= ErrorThreshold /\ i + c <= Len(e) + 1
    BY <1>1, <1>9, <1>10 DEF Counts
  <1>12. i < from
    BY <1>2, <1>6, <1>11
  <1>13. ~(c < ErrorThreshold)
    BY <1>2, <1>11
  <1>14. QED
    BY <1>1, <1>6, <1>8, <1>12, <1>13 DEF Passed

(* The loop has reported, up to the place it has reached, what there is to *)
(* report, and nothing twice.                                              *)
ScanInv ==
    /\ Ordered(errorLogs) /\ \E o : ListsErrors(o, logs, errorLogs)
    /\ scanFrom \in 1 .. Len(errorLogs) + 1
    /\ Passed(errorLogs, scanFrom, spikes)
    /\ Reported(errorLogs, scanFrom, spikes)
    /\ Apart(spikes)

SpikeInv ==
    /\ logs \in Seq(Entries) /\ errorLogs \in Seq(Entries)
    /\ analysis \in {"idle", "read"} => scanFrom = 1 /\ spikes = {}
    /\ analysis \in {"scanning", "done"} => ScanInv
    /\ analysis = "done" => ~InLoop

(* Whatever the order of the entries, the number of errors that makes a    *)
(* spike and the width of the window: the spikes reported leave none out,  *)
(* count all their errors and do not overlap.                              *)
THEOREM SpikesAreCovered == SpikeSpec => []SpikesCovered
  <1>1. SpikeInit => SpikeInv
    BY DEF SpikeInit, SpikeInv
  <1>2. SpikeInv /\ [SpikeNext]_spikeVars => SpikeInv'
    <2> SUFFICES ASSUME SpikeInv, [SpikeNext]_spikeVars PROVE SpikeInv'
      OBVIOUS
    <2>1. CASE ReadLogs
      <3>1. logs' \in Seq(Entries)
        BY <2>1, SpikeAssumption DEF ReadLogs
      <3>2. QED
        BY <2>1, <3>1 DEF ReadLogs, SpikeInv
    <2>2. CASE Analyze
      <3>1. /\ analysis' = "scanning" /\ logs' = logs /\ scanFrom' = 1 /\ spikes' = {}
            /\ errorLogs' = ErrorsOf(SortedLogs(logs)) /\ logs \in Seq(Entries)
        BY <2>2 DEF Analyze, SpikeInv
      <3>2. /\ errorLogs' \in Seq(Entries) /\ Ordered(errorLogs')
            /\ \E o : ListsErrors(o, logs, errorLogs')
        BY <3>1, ErrorsListed
      <3>3. Len(errorLogs') \in Nat
        BY <3>2
      <3>4. ScanInv'
        <4>1. /\ Passed(errorLogs', 1, {}) /\ Reported(errorLogs', 1, {}) /\ Apart({})
          BY <3>3 DEF Passed, Reported, Apart
        <4>2. 1 \in 1 .. Len(errorLogs') + 1
          BY <3>3
        <4>3. QED
          BY <3>1, <3>2, <4>1, <4>2 DEF ScanInv
      <3>5. QED
        BY <3>1, <3>2, <3>4 DEF SpikeInv
    <2>3. CASE ScanWindow
      <3>1. /\ analysis = "scanning" /\ analysis' = "scanning" /\ InLoop
            /\ logs' = logs /\ errorLogs' = errorLogs
            /\ logs \in Seq(Entries) /\ errorLogs \in Seq(Entries) /\ ScanInv
        BY <2>3 DEF ScanWindow, SpikeInv
      <3>2. PICK e, from, c : e = errorLogs /\ from = scanFrom /\ c = CountInWindow(e, from)
        OBVIOUS
      <3>3. /\ Ordered(e) /\ Passed(e, from, spikes) /\ Reported(e, from, spikes) /\ Apart(spikes)
            /\ e \in Seq(Entries) /\ from \in 1 .. Len(e) + 1
        BY <3>1, <3>2 DEF ScanInv
      <3>4. Len(e) \in Nat /\ ErrorThreshold \in Nat \ {0} /\ from <= Len(e) - ErrorThreshold + 1
        BY <3>1, <3>2, <3>3, SpikeAssumption DEF InLoop
      <3>5. from \in 1 .. Len(e)
        BY <3>3, <3>4
      <3>6. c \in Nat
        BY <3>2, <3>3, <3>5, WindowCount DEF Counts
      <3>7. CASE c < ErrorThreshold
        <4>1. scanFrom' = from + 1 /\ spikes' = spikes
          BY <2>3, <3>2, <3>4, <3>6, <3>7 DEF ScanWindow
        <4>2. Passed(e, from + 1, spikes) /\ Reported(e, from + 1, spikes)
          BY <3>2, <3>3, <3>5, <3>7, QuietRound
        <4>3. from + 1 \in 1 .. Len(e) + 1
          BY <3>4, <3>5
        <4>4. ScanInv'
          BY <3>1, <3>2, <3>3, <4>1, <4>2, <4>3 DEF ScanInv
        <4>5. QED
          BY <3>1, <4>4 DEF SpikeInv
      <3>8. CASE c >= ErrorThreshold
        <4>1. PICK x : x = [time |-> e[from].time, count |-> c,
                            severity |-> IF c >= 2 * ErrorThreshold THEN "CRITICAL" ELSE "HIGH"]
          OBVIOUS
        <4>2. scanFrom' = from + c /\ spikes' = spikes \union {x}
          BY <2>3, <3>2, <3>8, <4>1 DEF ScanWindow, NextStart
        <4>3. x.time = e[from].time /\ x.count = c
          BY <4>1
        <4>4. /\ from + c \in 1 .. Len(e) + 1
              /\ Passed(e, from + c, spikes \union {x})
              /\ Reported(e, from + c, spikes \union {x})
              /\ Apart(spikes \union {x})
          BY <3>2, <3>3, <3>5, <3>8, <4>3, SpikeRound
        <4>5. ScanInv'
          BY <3>1, <3>2, <3>3, <4>2, <4>4 DEF ScanInv
        <4>6. QED
          BY <3>1, <4>5 DEF SpikeInv
      <3>9. QED
        BY <3>4, <3>6, <3>7, <3>8
    <2>4. CASE ReturnAnomalies
      <3>1. /\ analysis = "scanning" /\ analysis' = "done" /\ ~InLoop
            /\ UNCHANGED <<logs, errorLogs, scanFrom, spikes>>
        BY <2>4 DEF ReturnAnomalies
      <3>2. ScanInv' /\ ~InLoop'
        BY <3>1 DEF SpikeInv, ScanInv, InLoop
      <3>3. QED
        BY <3>1, <3>2 DEF SpikeInv
    <2>5. CASE UNCHANGED spikeVars
      BY <2>5 DEF spikeVars, SpikeInv, ScanInv, InLoop
    <2>6. QED
      BY <2>1, <2>2, <2>3, <2>4, <2>5 DEF SpikeNext
  <1>3. SpikeInv => SpikesCovered
    <2> SUFFICES ASSUME SpikeInv, analysis = "done" PROVE SpikesCovered
      BY DEF SpikesCovered
    <2>1. /\ logs \in Seq(Entries) /\ errorLogs \in Seq(Entries) /\ ScanInv /\ ~InLoop
      BY DEF SpikeInv
    <2>2. PICK e, from : e = errorLogs /\ from = scanFrom
      OBVIOUS
    <2>3. /\ e \in Seq(Entries) /\ Ordered(e) /\ from \in 1 .. Len(e) + 1
          /\ Passed(e, from, spikes) /\ Reported(e, from, spikes) /\ Apart(spikes)
          /\ ~(from <= Len(e) - ErrorThreshold + 1)
      BY <2>1, <2>2 DEF ScanInv, InLoop
    <2>4. PICK o : ListsErrors(o, logs, e)
      BY <2>1, <2>2 DEF ScanInv
    <2>5. \A p \in DOMAIN logs :
             IsError(logs[p]) /\ Cardinality(ErrorsWithin(logs[p].time)) >= ErrorThreshold =>
                 \E s \in spikes : Within(logs[p].time, s)
      BY <2>1, <2>3, <2>4, LoopCovers
    <2>6. ASSUME NEW s \in spikes PROVE s.count = Cardinality(ErrorsWithin(s.time))
      <3>1. PICK i \in 1 .. Len(e) : Opens(e, i, s)
        BY <2>3 DEF Reported
      <3>2. Cardinality(ErrorsWithin(e[i].time)) = CountInWindow(e, i)
        BY <2>1, <2>3, <2>4, <3>1, WindowOfBatch DEF Opens
      <3>3. QED
        BY <3>1, <3>2 DEF Opens
    <2>7. QED
      BY <2>3, <2>5, <2>6 DEF SpikesCovered, Apart
  <1>4. QED
    BY <1>1, <1>2, <1>3, PTL DEF SpikeSpec
=============================================================================
