-------------------------- MODULE CompactionProofs --------------------------
(***************************************************************************)
(* Theorems about Compaction and about the iterators of Iteration, for any *)
(* keys, levels, numbers of writes and of snapshots, as long as no client  *)
(* calls CompactRange.                                                     *)
(***************************************************************************)
EXTENDS Iteration, WellFoundedInduction, SequenceTheorems, FiniteSetTheorems, TLAPS

\* Nothing but writes, reads and the background thread.  The store as Firebase
\* uses it: no code beside LevelDB itself calls CompactRange.
NoManual == ManualRanges = {}

Entries == 1 .. Len(hist)
Key(e) == hist[e].key
InFiles == UNION {UNION files[l] : l \in Levels}
All == mem \cup imm \cup InFiles

\* The order of internal keys, and tables that follow one another in it.
Precedes(e, x) == Key(e) < Key(x) \/ (Key(e) = Key(x) /\ e > x)
Follow(f, g) == \A e \in f, x \in g : Precedes(e, x)
Apart(f, g) == Follow(f, g) \/ Follow(g, f)

\* All keys of one are below, or all above, those of the other.
Below(f, g) == \A e \in f, x \in g : Key(e) < Key(x)
OneSide(f, g) == Below(f, g) \/ Below(g, f)

Shares(f, g) == \E e \in f, x \in g : Key(e) = Key(x)

\* The keys that are not both deleted and long.
ReadKeys == Keys \ (DeletedKeys \cap SplitKeys)

HistoryTypes ==
  /\ hist \in Seq([key : Keys, kind : {"value", "deletion"}])
  /\ Len(hist) <= MaxSeq
  /\ \A e \in Entries : hist[e].kind = "deletion" => Key(e) \in DeletedKeys
  /\ \E b \in Nat : \A e \in Entries : Key(e) <= b

TableTypes ==
  /\ mem \subseteq Entries /\ imm \subseteq Entries
  /\ files \in [Levels -> SUBSET SUBSET Entries]
  /\ \A l \in Levels : {} \notin files[l]
  /\ snapshots \subseteq 0 .. Len(hist)

\* Higher up is newer: memory, then the tables of level 0 as they were written, then level by level.
OrderInv ==
  /\ \A e \in mem, x \in imm \cup InFiles : x < e
  /\ \A e \in imm, x \in InFiles : x < e
  /\ \A f, g \in files[0] : f # g => (\A e \in f, x \in g : e < x) \/ (\A e \in f, x \in g : x < e)
  /\ \A l, m \in Levels : l < m =>
       \A f \in files[l], g \in files[m] : \A e \in f, x \in g : Key(e) = Key(x) => x < e

\* A level below 0 is sorted, and a key without long values is in one table of it.
SortedInv ==
  \A l \in Levels \ {0} : \A f, g \in files[l] : f # g =>
    /\ Apart(f, g)
    /\ \A e \in f, x \in g : Key(e) = Key(x) => Key(e) \in SplitKeys

\* What was written last before s is in S, or it is a deletion and nothing older is in S.
Newest(e, s) == e <= s /\ \A x \in Entries : x <= s /\ Key(x) = Key(e) => x <= e
Holds(S) ==
  \A s \in snapshots \cup {Len(hist)}, e \in Entries : Newest(e, s) /\ Key(e) \in ReadKeys =>
    \/ e \in S
    \/ hist[e].kind = "deletion" /\ \A x \in S : Key(x) = Key(e) => ~(x <= s)

\* The keys of E are all below lo, or all above hi; the range is clear of E.
ClearOf(E, lo, hi) == (\A e \in E : Key(e) < lo) \/ (\A e \in E : Key(e) > hi)

\* There is no gap between the tables of F that a table could be put in.
Gapless(F) ==
  \A lo, hi \in Keys : lo <= hi /\ (\A f \in F : ClearOf(f, lo, hi)) => ClearOf(UNION F, lo, hi)

\* What may be merged from level l down to the next.
Inputs(l, in0, in1) ==
  /\ l \in 0 .. NumLevels - 2
  /\ in0 \subseteq files[l] /\ in0 # {} /\ in1 \subseteq files[l + 1]
  /\ Gapless(in0 \cup in1)
  \* What stays of the keys of in0 in its level is newer.
  /\ \A f \in in0, g \in files[l] \ in0 : \A e \in f, x \in g : Key(e) = Key(x) => e < x
  \* What stays in the next level lies outside of the range of in0, what is taken does not.
  /\ \A g \in files[l + 1] \ in1 : OneSide(UNION in0, g)
  /\ \A g \in in1 : ~OneSide(UNION in0, g)

JobInv ==
  job # None =>
    /\ Inputs(job.level, job.in0, job.in1) /\ ~job.manual
    /\ job.kept \subseteq UNION (job.in0 \cup job.in1)
    /\ Holds((All \ UNION (job.in0 \cup job.in1)) \cup job.kept)

IInv ==
  /\ HistoryTypes /\ TableTypes /\ OrderInv /\ SortedInv /\ Holds(All) /\ JobInv
  /\ manual = None

-----------------------------------------------------------------------------
(* Least and greatest elements *)

\* A nonempty set of natural numbers has a least element.
LEMMA LeastNatural ==
  ASSUME NEW S \in SUBSET Nat, S # {}
  PROVE  \E m \in S : \A n \in S : m <= n
  <1>1. PICK m \in S : \A n \in S : <<n, m>> \notin OpToRel(<, Nat)
    BY WFMin, NatLessThanWellFounded, Zenon
  <1>2. \A n \in S : ~(n < m)
    BY <1>1, Zenon DEF OpToRel
  <1> QED
    BY <1>2

\* A nonempty set of integers with a lower bound has a least element.
LEMMA LeastInteger ==
  ASSUME NEW S \in SUBSET Int, S # {}, NEW b \in Int, \A x \in S : b <= x
  PROVE  Min(S) \in S /\ \A x \in S : Min(S) <= x
  <1> DEFINE T == {x - b : x \in S}
  <1>1. T \in SUBSET Nat /\ T # {}
    <2>1. PICK z \in S : TRUE
      OBVIOUS
    <2>2. z - b \in T
      BY <2>1
    <2>3. \A x \in S : x - b \in Nat
      OBVIOUS
    <2> QED
      BY <2>2, <2>3
  <1>2. PICK m \in T : \A n \in T : m <= n
    BY <1>1, LeastNatural
  <1>3. PICK x \in S : m = x - b
    OBVIOUS
  <1>4. \A y \in S : x <= y
    <2> TAKE y \in S
    <2>1. y - b \in T
      OBVIOUS
    <2>2. m <= y - b
      BY <1>2, <2>1
    <2> QED
      BY <1>3, <2>2
  <1> QED
    BY <1>4 DEF Min

\* A nonempty set of integers with an upper bound has a greatest element.
LEMMA GreatestInteger ==
  ASSUME NEW S \in SUBSET Int, S # {}, NEW b \in Int, \A x \in S : x <= b
  PROVE  Max(S) \in S /\ \A x \in S : x <= Max(S)
  <1> DEFINE T == {b - x : x \in S}
  <1>1. T \in SUBSET Nat /\ T # {}
    <2>1. PICK z \in S : TRUE
      OBVIOUS
    <2>2. b - z \in T
      BY <2>1
    <2>3. \A x \in S : b - x \in Nat
      OBVIOUS
    <2> QED
      BY <2>2, <2>3
  <1>2. PICK m \in T : \A n \in T : m <= n
    BY <1>1, LeastNatural
  <1>3. PICK x \in S : m = b - x
    OBVIOUS
  <1>4. \A y \in S : x >= y
    <2> TAKE y \in S
    <2>1. b - y \in T
      OBVIOUS
    <2>2. m <= b - y
      BY <1>2, <2>1
    <2> QED
      BY <1>3, <2>2
  <1>5. Max(S) \in S /\ \A y \in S : Max(S) >= y
    BY <1>4 DEF Max
  <1> QED
    BY <1>5

-----------------------------------------------------------------------------
(* Ranks, and what the code keeps of a table *)

\* Ranks order by key first, then by decreasing sequence number.
LEMMA RankOrder ==
  ASSUME NEW M \in Nat, NEW j \in Nat, NEW k \in Nat, NEW s \in 0 .. M, NEW t \in 0 .. M
  PROVE  /\ j * (M + 1) + (M - s) \in Nat
         /\ j * (M + 1) + (M - s) < k * (M + 1) + (M - t) <=> j < k \/ (j = k /\ s > t)
  <1> DEFINE N == M + 1
  <1>1. \A i \in Nat : i * N \in Nat /\ (i + 1) * N = i * N + N
    OBVIOUS
  <1>2. \A i, n \in Nat : (i + n) * N = i * N + n * N
    OBVIOUS
  <1>3. ASSUME NEW i \in Nat, NEW n \in Nat, i < n PROVE i * N + N <= n * N
    <2>1. n - i - 1 \in Nat /\ n = (i + 1) + (n - i - 1)
      BY <1>3
    <2>2. n * N = (i + 1) * N + (n - i - 1) * N
      BY <1>2, <2>1
    <2> QED
      BY <1>1, <2>1, <2>2
  <1>4. j * N \in Nat /\ k * N \in Nat /\ N = M + 1
    BY <1>1
  <1>5. j < k => j * N + N <= k * N
    BY <1>3
  <1>6. k < j => k * N + N <= j * N
    BY <1>3
  <1> HIDE DEF N
  <1>7. j * N + (M - s) < k * N + (M - t) <=> j < k \/ (j = k /\ s > t)
    <2> DEFINE a == j * N  b == k * N
    <2>1. a \in Nat /\ b \in Nat /\ (j < k => a + N <= b) /\ (k < j => b + N <= a) /\ (j = k => a = b)
      BY <1>4, <1>5, <1>6
    <2> HIDE DEF a, b
    <2>2. a + (M - s) < b + (M - t) <=> j < k \/ (j = k /\ s > t)
      BY <1>4, <2>1
    <2> QED
      BY <2>2 DEF a, b
  <1> QED
    BY <1>4, <1>7 DEF N

\* EntryRank gives the order of internal keys.
LEMMA Ranks ==
  ASSUME HistoryTypes
  PROVE  /\ \A e \in Entries : Key(e) \in Keys /\ Key(e) \in Nat /\ e \in Nat /\ EntryRank(e) \in Nat
         /\ \A e, x \in Entries : EntryRank(e) < EntryRank(x) <=> Precedes(e, x)
         /\ \A e \in Entries, k \in Keys, s \in 0 .. Len(hist) :
              EntryRank(e) < Rank(k, s) <=> Key(e) < k \/ (Key(e) = k /\ e > s)
  <1>1. Len(hist) \in Nat /\ MaxSeq \in Nat /\ Len(hist) <= MaxSeq /\ Keys \subseteq Nat
    BY ConstantsAssumption DEF HistoryTypes
  <1>2. \A e \in Entries : Key(e) \in Keys
    <2> TAKE e \in Entries
    <2>1. hist[e] \in [key : Keys, kind : {"value", "deletion"}]
      BY ElementOfSeq DEF HistoryTypes, Entries
    <2> QED
      BY <2>1 DEF Key
  <1>3. \A s \in 0 .. Len(hist) : s \in 0 .. MaxSeq
    BY <1>1
  <1>4. \A e \in Entries : e \in 0 .. Len(hist) /\ e \in Nat
    BY <1>1 DEF Entries
  <1>5. \A j, k \in Keys, s, t \in 0 .. Len(hist) :
          Rank(j, s) \in Nat /\ (Rank(j, s) < Rank(k, t) <=> j < k \/ (j = k /\ s > t))
    BY <1>1, <1>3, RankOrder DEF Rank
  <1>6. \A e \in Entries : EntryRank(e) = Rank(Key(e), e)
    BY DEF EntryRank, Key
  <1>7. \A e \in Entries : Key(e) \in Keys /\ Key(e) \in Nat /\ e \in Nat /\ EntryRank(e) \in Nat
    BY <1>1, <1>2, <1>4, <1>5, <1>6
  <1>8. \A e, x \in Entries : EntryRank(e) < EntryRank(x) <=> Precedes(e, x)
    <2> TAKE e, x \in Entries
    <2>1. Rank(Key(e), e) < Rank(Key(x), x) <=> Key(e) < Key(x) \/ (Key(e) = Key(x) /\ e > x)
      BY <1>2, <1>4, <1>5
    <2> QED
      BY <1>6, <2>1 DEF Precedes
  <1>9. \A e \in Entries, k \in Keys, s \in 0 .. Len(hist) :
          EntryRank(e) < Rank(k, s) <=> Key(e) < k \/ (Key(e) = k /\ e > s)
    <2> TAKE e \in Entries, k \in Keys, s \in 0 .. Len(hist)
    <2>1. Rank(Key(e), e) < Rank(k, s) <=> Key(e) < k \/ (Key(e) = k /\ e > s)
      BY <1>2, <1>4, <1>5
    <2> QED
      BY <1>6, <2>1
  <1> QED
    BY <1>7, <1>8, <1>9

\* The first and the last entry of a table, and its range of keys.
LEMMA TableRange ==
  ASSUME HistoryTypes, NEW E \in SUBSET Entries, E # {}
  PROVE  /\ \E a \in E : FirstRank(E) = EntryRank(a) /\ Lo(E) = Key(a) /\ \A e \in E : a = e \/ Precedes(a, e)
         /\ \E z \in E : LastRank(E) = EntryRank(z) /\ Hi(E) = Key(z) /\ \A e \in E : z = e \/ Precedes(e, z)
         /\ Lo(E) \in Keys /\ Hi(E) \in Keys /\ \A e \in E : Lo(E) <= Key(e) /\ Key(e) <= Hi(E)
  <1> DEFINE R == {EntryRank(e) : e \in E}
             K == UserKeys(E)
  <1>1. /\ \A e \in E : Key(e) \in Keys /\ Key(e) \in Nat /\ e \in Nat /\ EntryRank(e) \in Nat
        /\ \A e, x \in E : EntryRank(e) < EntryRank(x) <=> Precedes(e, x)
    BY Ranks
  <1>2. PICK b \in Nat : \A e \in E : Key(e) <= b
    BY DEF HistoryTypes
  <1>3. K = {Key(e) : e \in E}
    BY DEF UserKeys, Key
  <1>4. R \in SUBSET Nat /\ R # {} /\ K \in SUBSET Nat /\ K # {}
    BY <1>1, <1>3
  <1>5. /\ Min(K) \in K /\ \A k \in K : Min(K) <= k
        /\ Max(K) \in K /\ \A k \in K : k <= Max(K)
    <2>1. \A k \in K : 0 <= k /\ k <= b
      BY <1>1, <1>2, <1>3
    <2>2. K \in SUBSET Int
      BY <1>4
    <2>3. K # {} /\ 0 \in Int /\ b \in Int
      BY <1>4
    <2> HIDE DEF K
    <2>4. Min(K) \in K /\ \A k \in K : Min(K) <= k
      BY <2>1, <2>2, <2>3, LeastInteger
    <2>5. Max(K) \in K /\ \A k \in K : k <= Max(K)
      BY <2>1, <2>2, <2>3, GreatestInteger
    <2> QED
      BY <2>4, <2>5
  <1>6. Min(R) \in R /\ \A r \in R : Min(R) <= r
    <2>1. \A r \in R : 0 <= r
      BY <1>4
    <2>2. R \in SUBSET Int
      BY <1>4
    <2> HIDE DEF R
    <2> QED
      BY <1>4, <2>1, <2>2, LeastInteger
  <1>7. Max(R) \in R /\ \A r \in R : r <= Max(R)
    <2>1. \E B \in Nat : \A r \in R : r <= B
      <3>1. (b + 1) * (MaxSeq + 1) \in Nat
        BY <1>2, ConstantsAssumption
      <3>2. \A e \in E : EntryRank(e) <= (b + 1) * (MaxSeq + 1)
        <4> SUFFICES ASSUME NEW e \in E PROVE EntryRank(e) <= (b + 1) * (MaxSeq + 1)
          OBVIOUS
        <4>1. Key(e) \in Nat /\ b + 1 \in Nat /\ Key(e) < b + 1 /\ MaxSeq \in Nat
          BY <1>1, <1>2, ConstantsAssumption
        <4>2. e \in 0 .. MaxSeq /\ 0 \in 0 .. MaxSeq /\ MaxSeq \in 0 .. MaxSeq
          <5>1. e \in 1 .. Len(hist) /\ Len(hist) \in Nat /\ Len(hist) <= MaxSeq
            BY DEF HistoryTypes, Entries
          <5> QED
            BY <4>1, <5>1
        <4>3. Key(e) * (MaxSeq + 1) + (MaxSeq - e) < (b + 1) * (MaxSeq + 1) + (MaxSeq - MaxSeq)
          BY <4>1, <4>2, RankOrder
        <4>4. EntryRank(e) = Key(e) * (MaxSeq + 1) + (MaxSeq - e)
          BY DEF EntryRank, Rank, Key
        <4>5. EntryRank(e) < (b + 1) * (MaxSeq + 1) + (MaxSeq - MaxSeq)
          BY <4>3, <4>4
        <4>6. (b + 1) * (MaxSeq + 1) + (MaxSeq - MaxSeq) = (b + 1) * (MaxSeq + 1)
          BY <3>1, <4>1
        <4> QED
          BY <1>1, <3>1, <4>5, <4>6
      <3> QED
        BY <3>1, <3>2
    <2>2. R \in SUBSET Int
      BY <1>4
    <2> HIDE DEF R
    <2> QED
      BY <1>4, <2>1, <2>2, GreatestInteger
  <1>8. PICK a \in E : Min(R) = EntryRank(a)
    BY <1>6
  <1>9. PICK z \in E : Max(R) = EntryRank(z)
    BY <1>7
  <1>10. \A e \in E : EntryRank(a) <= EntryRank(e) /\ EntryRank(e) <= EntryRank(z)
    BY <1>6, <1>7, <1>8, <1>9
  <1>11. \A e \in E : (a = e \/ Precedes(a, e)) /\ (z = e \/ Precedes(e, z))
    BY <1>1, <1>10 DEF Precedes
  <1>12. Lo(E) = Key(a) /\ Hi(E) = Key(z)
    <2>1. \A e \in E : Key(a) <= Key(e) /\ Key(e) <= Key(z)
      BY <1>1, <1>11 DEF Precedes
    <2>2. PICK f \in E : Min(K) = Key(f)
      BY <1>3, <1>5
    <2>3. PICK g \in E : Max(K) = Key(g)
      BY <1>3, <1>5
    <2>4. Min(K) <= Key(a) /\ Key(z) <= Max(K)
      BY <1>3, <1>5
    <2>5. Key(a) = Key(f) /\ Key(z) = Key(g)
      BY <1>1, <2>1, <2>2, <2>3, <2>4
    <2> QED
      BY <2>2, <2>3, <2>5 DEF Lo, Hi
  <1>13. \A e \in E : Lo(E) <= Key(e) /\ Key(e) <= Hi(E)
    BY <1>1, <1>11, <1>12 DEF Precedes
  <1>14. FirstRank(E) = EntryRank(a) /\ LastRank(E) = EntryRank(z)
    BY <1>8, <1>9 DEF FirstRank, LastRank
  <1> QED
    BY <1>1, <1>11, <1>12, <1>13, <1>14

-----------------------------------------------------------------------------
(* Overlapping tables *)

\* The range of a table tells whether it overlaps a key, or another table.
LEMMA Overlaps ==
  ASSUME HistoryTypes, NEW f \in SUBSET Entries, f # {}
  PROVE  /\ \A k \in Keys : /\ Hi(f) >= k <=> ~(\A e \in f : Key(e) < k)
                            /\ Lo(f) <= k <=> ~(\A e \in f : Key(e) > k)
         /\ \A m \in SUBSET Entries : m # {} =>
              (Hi(f) >= Lo(m) /\ Lo(f) <= Hi(m) <=> ~OneSide(f, m))
  <1>1. /\ \A e \in Entries : Key(e) \in Nat
        /\ Keys \subseteq Nat
    BY Ranks, ConstantsAssumption
  <1>2. /\ \E a \in f : Lo(f) = Key(a)
        /\ \E z \in f : Hi(f) = Key(z)
        /\ Lo(f) \in Nat /\ Hi(f) \in Nat /\ \A e \in f : Lo(f) <= Key(e) /\ Key(e) <= Hi(f)
    BY <1>1, TableRange
  <1>3. ASSUME NEW k \in Keys
        PROVE  /\ Hi(f) >= k <=> ~(\A e \in f : Key(e) < k)
               /\ Lo(f) <= k <=> ~(\A e \in f : Key(e) > k)
    BY <1>1, <1>2
  <1>4. ASSUME NEW m \in SUBSET Entries, m # {}
        PROVE  Hi(f) >= Lo(m) /\ Lo(f) <= Hi(m) <=> ~OneSide(f, m)
    <2>1. /\ \E a \in m : Lo(m) = Key(a)
          /\ \E z \in m : Hi(m) = Key(z)
          /\ Lo(m) \in Nat /\ Hi(m) \in Nat /\ \A e \in m : Lo(m) <= Key(e) /\ Key(e) <= Hi(m)
      BY <1>1, <1>4, TableRange
    <2>2. Hi(f) < Lo(m) <=> Below(f, m)
      BY <1>1, <1>2, <2>1 DEF Below
    <2>3. Hi(m) < Lo(f) <=> Below(m, f)
      BY <1>1, <1>2, <2>1 DEF Below
    <2> QED
      BY <1>2, <2>1, <2>2, <2>3 DEF OneSide
  <1> QED
    BY <1>3, <1>4

\* The tables of F.
Tables(F) == \A f \in F : f \subseteq Entries /\ f # {}

\* Overlapping finds the tables that are not on one side.
LEMMA OverlappingTables ==
  ASSUME HistoryTypes, NEW F, Tables(F), NEW m \in SUBSET Entries, m # {}
  PROVE  Overlapping(F, Lo(m), Hi(m)) = {f \in F : ~OneSide(f, m)}
  <1>1. \A f \in F : Hi(f) >= Lo(m) /\ Lo(f) <= Hi(m) <=> ~OneSide(f, m)
    BY Overlaps DEF Tables
  <1> QED
    BY <1>1 DEF Overlapping

\* Nothing overlaps: all is on one side.
LEMMA NoOverlap ==
  ASSUME HistoryTypes, NEW l \in Levels, Tables(files[l]), NEW m \in SUBSET Entries, m # {}
  PROVE  OverlapInLevel(l, Lo(m), Hi(m)) <=> \E f \in files[l] : ~OneSide(f, m)
  BY OverlappingTables DEF OverlapInLevel

\* Facts about sides: of a larger set, of a set itself, and in the other order.
LEMMA Sides ==
  ASSUME HistoryTypes, NEW f \in SUBSET Entries, NEW g \in SUBSET Entries, NEW h \in SUBSET Entries
  PROVE  /\ OneSide(f, g) <=> OneSide(g, f)
         /\ f # {} => ~OneSide(f, f)
         /\ h \subseteq g /\ OneSide(f, g) => OneSide(f, h)
         /\ Shares(f, g) => ~OneSide(f, g)
  <1>1. \A e \in Entries : Key(e) \in Nat
    BY Ranks
  <1> QED
    BY <1>1 DEF OneSide, Below, Shares

\* The tables of the current version.
LEMMA VersionTables ==
  ASSUME TableTypes, NEW l \in Levels
  PROVE  Tables(files[l]) /\ (\A F \in SUBSET files[l] : Tables(F) /\ UNION F \in SUBSET Entries)
  BY DEF TableTypes, Tables

\* The tables of level l that overlap m.
Hit(l, m) == {f \in files[l] : ~OneSide(f, m)}

\* What GetOverlappingInputs takes: the tables that overlap m; at level 0 also what overlaps
\* one that is taken, but nothing else.
LEMMA OverlappingInputs ==
  ASSUME HistoryTypes, TableTypes, NEW l \in Levels, NEW m \in SUBSET Entries, m # {},
         NEW S, S = GetOverlappingInputs(l, Lo(m), Hi(m))
  PROVE  /\ Hit(l, m) \subseteq S /\ S \subseteq files[l]
         /\ l # 0 => S = Hit(l, m)
         /\ l = 0 => /\ \A f \in S, g \in files[l] : ~OneSide(f, g) => g \in S
                     /\ \A C \in SUBSET files[l] :
                          Hit(l, m) \subseteq C /\ (\A f \in C, g \in files[l] : ~OneSide(f, g) => g \in C)
                            => S \subseteq C
  <1>1. Tables(files[l])
    BY VersionTables
  <1>2. Overlapping(files[l], Lo(m), Hi(m)) = Hit(l, m)
    BY <1>1, OverlappingTables DEF Hit
  <1>3. CASE l # 0
    BY <1>2, <1>3 DEF GetOverlappingInputs, Hit
  <1>4. CASE l = 0
    <2> DEFINE closed(C) == \A f \in C : Overlapping(files[l], Lo(f), Hi(f)) \subseteq C
               Closed == {C \in SUBSET files[l] : Hit(l, m) \subseteq C /\ closed(C)}
    <2>1. S = {f \in files[l] : \A C \in SUBSET files[l] : Hit(l, m) \subseteq C /\ closed(C) => f \in C}
      BY <1>2, <1>4 DEF GetOverlappingInputs
    <2>2. \A C \in SUBSET files[l] : closed(C) <=> \A f \in C, g \in files[l] : ~OneSide(f, g) => g \in C
      <3> TAKE C \in SUBSET files[l]
      <3>1. \A f \in C : Overlapping(files[l], Lo(f), Hi(f)) = {g \in files[l] : ~OneSide(g, f)}
        BY <1>1, OverlappingTables DEF Tables
      <3>2. \A f \in C, g \in files[l] : OneSide(g, f) <=> OneSide(f, g)
        BY <1>1, Sides DEF Tables
      <3> QED
        BY <3>1, <3>2
    <2> HIDE DEF closed
    <2>3. Hit(l, m) \subseteq S /\ S \subseteq files[l]
      BY <2>1 DEF Hit
    <2>4. \A f \in S, g \in files[l] : ~OneSide(f, g) => g \in S
      <3> SUFFICES ASSUME NEW f \in S, NEW g \in files[l], ~OneSide(f, g),
                          NEW C \in SUBSET files[l], Hit(l, m) \subseteq C, closed(C)
                   PROVE  g \in C
        BY <2>1
      <3>1. f \in C
        BY <2>1
      <3> QED
        BY <2>2, <3>1
    <2>5. \A C \in SUBSET files[l] :
            Hit(l, m) \subseteq C /\ (\A f \in C, g \in files[l] : ~OneSide(f, g) => g \in C) => S \subseteq C
      BY <2>1, <2>2
    <2> QED
      BY <1>4, <2>3, <2>4, <2>5
  <1> QED
    BY <1>3, <1>4

\* FindSmallestBoundaryFile finds, among the tables that follow E with a key of E, the first.
Bounds(E, f) == Follow(E, f) /\ Shares(E, f)

LEMMA SmallestBoundary ==
  ASSUME HistoryTypes, NEW l \in Levels, Tables(files[l]), NEW E \in SUBSET Entries, E # {}
  PROVE  /\ FindSmallestBoundaryFile(l, E) \subseteq files[l]
         /\ \A y \in FindSmallestBoundaryFile(l, E) :
              Bounds(E, y) /\ \A x \in files[l] : Bounds(E, x) => FirstRank(y) <= FirstRank(x)
         /\ \A x \in files[l] : Bounds(E, x) => FindSmallestBoundaryFile(l, E) # {}
  <1> DEFINE boundary == {f \in files[l] : FirstRank(f) > LastRank(E) /\ Lo(f) = Hi(E)}
  <1>1. FindSmallestBoundaryFile(l, E) = {f \in boundary : \A g \in boundary : FirstRank(f) <= FirstRank(g)}
    BY DEF FindSmallestBoundaryFile
  <1>2. \A e \in Entries : EntryRank(e) \in Nat /\ Key(e) \in Nat
    BY Ranks
  <1>3. ASSUME NEW f \in files[l] PROVE FirstRank(f) \in Nat /\ (f \in boundary <=> Bounds(E, f))
    <2>1. f \in SUBSET Entries /\ f # {}
      BY <1>3 DEF Tables
    <2>2. PICK a \in f : /\ FirstRank(f) = EntryRank(a) /\ Lo(f) = Key(a)
                         /\ \A e \in f : a = e \/ Precedes(a, e)
      BY <2>1, TableRange
    <2>3. PICK z \in E : /\ LastRank(E) = EntryRank(z) /\ Hi(E) = Key(z)
                         /\ \A e \in E : z = e \/ Precedes(e, z)
      BY TableRange
    <2>4. a \in Entries /\ z \in Entries /\ (EntryRank(z) < EntryRank(a) <=> Precedes(z, a))
      BY <2>1, Ranks
    <2>5. f \in boundary <=> Precedes(z, a) /\ Key(a) = Key(z)
      BY <1>2, <2>2, <2>3, <2>4
    <2>6. \A e \in Entries : Key(e) \in Nat /\ e \in Nat
      BY Ranks
    <2>7. Follow(E, f) <=> Precedes(z, a)
      <3>1. Follow(E, f) => Precedes(z, a)
        BY DEF Follow
      <3>2. ASSUME Precedes(z, a), NEW e \in E, NEW x \in f PROVE Precedes(e, x)
        BY <2>1, <2>2, <2>3, <2>6, <3>2 DEF Precedes
      <3> QED
        BY <3>1, <3>2 DEF Follow
    <2>8. Precedes(z, a) => (Shares(E, f) <=> Key(a) = Key(z))
      <3>1. Key(a) = Key(z) => Shares(E, f)
        BY DEF Shares
      <3>2. ASSUME Precedes(z, a), NEW e \in E, NEW x \in f, Key(e) = Key(x) PROVE Key(a) = Key(z)
        <4>1. Key(e) <= Key(z) /\ Key(a) <= Key(x) /\ Key(z) <= Key(a)
          BY <2>1, <2>2, <2>3, <2>6, <3>2 DEF Precedes
        <4> QED
          BY <2>1, <2>6, <3>2, <4>1
      <3> QED
        BY <3>1, <3>2 DEF Shares
    <2> QED
      BY <1>2, <2>2, <2>4, <2>5, <2>7, <2>8 DEF Bounds
  <1>4. ASSUME boundary # {} PROVE \E y \in boundary : \A g \in boundary : FirstRank(y) <= FirstRank(g)
    <2> DEFINE R == {FirstRank(f) : f \in boundary}
    <2>1. R \in SUBSET Nat
      BY <1>3
    <2>2. R # {}
      BY <1>4
    <2> HIDE DEF R
    <2>3. PICK r \in R : \A n \in R : r <= n
      BY <2>1, <2>2, LeastNatural
    <2> QED
      BY <2>3 DEF R
  <1> HIDE DEF boundary
  <1>5. boundary \subseteq files[l]
    BY DEF boundary
  <1> QED
    BY <1>1, <1>3, <1>4, <1>5

\* The chain of tables that AddBoundaryInputs adds to S.
ClosedChain(l, S, T) ==
  /\ FindSmallestBoundaryFile(l, UNION S) \subseteq T
  /\ \A g \in T : FindSmallestBoundaryFile(l, g) \subseteq T

Chain(l, S) == {f \in files[l] : \A T \in SUBSET files[l] : ClosedChain(l, S, T) => f \in T}

\* The chain is the least closed one.
LEMMA ChainIsClosed ==
  ASSUME HistoryTypes, NEW l \in Levels, Tables(files[l]), NEW S \in SUBSET files[l], S # {}
  PROVE  /\ AddBoundaryInputs(l, S) = S \cup Chain(l, S)
         /\ Chain(l, S) \subseteq files[l]
         /\ ClosedChain(l, S, Chain(l, S))
         /\ \A T \in SUBSET files[l] : ClosedChain(l, S, T) => Chain(l, S) \subseteq T
  <1>1. AddBoundaryInputs(l, S) = S \cup Chain(l, S)
    BY DEF AddBoundaryInputs, Chain, ClosedChain
  <1>2. UNION S \in SUBSET Entries /\ UNION S # {}
    BY DEF Tables
  <1>3. FindSmallestBoundaryFile(l, UNION S) \subseteq files[l]
    BY <1>2, SmallestBoundary
  <1>4. \A g \in files[l] : FindSmallestBoundaryFile(l, g) \subseteq files[l]
    BY SmallestBoundary DEF Tables
  <1>5. ClosedChain(l, S, Chain(l, S))
    <2>1. FindSmallestBoundaryFile(l, UNION S) \subseteq Chain(l, S)
      BY <1>3 DEF Chain, ClosedChain
    <2>2. ASSUME NEW g \in Chain(l, S), NEW y \in FindSmallestBoundaryFile(l, g) PROVE y \in Chain(l, S)
      <3>1. g \in files[l] /\ y \in files[l]
        BY <1>4, <2>2 DEF Chain
      <3>2. ASSUME NEW T \in SUBSET files[l], ClosedChain(l, S, T) PROVE y \in T
        <4>1. g \in T
          BY <2>2, <3>2 DEF Chain
        <4> QED
          BY <2>2, <3>2, <4>1 DEF ClosedChain
      <3> QED
        BY <3>1, <3>2 DEF Chain
    <2> QED
      BY <2>1, <2>2 DEF ClosedChain
  <1> QED
    BY <1>1, <1>5 DEF Chain

\* The tables of S and the chain of its last one leave nothing older behind: only the last table
\* of S may be followed by one with its last key.
LEMMA NothingOlderLeft ==
  ASSUME HistoryTypes, NEW l \in Levels, Tables(files[l]), NEW S \in SUBSET files[l], S # {},
         \A f, g \in files[l] : f # g => Apart(f, g),
         \A t \in S, x \in files[l] \ S : Bounds(t, x) => \A u \in S : u = t \/ Follow(u, t),
         NEW t \in AddBoundaryInputs(l, S), NEW x \in files[l] \ AddBoundaryInputs(l, S),
         NEW e \in t, NEW z \in x, Key(e) = Key(z)
  PROVE  e < z
  <1> DEFINE T == AddBoundaryInputs(l, S)
             W == {u \in T : Bounds(u, x)}
  <1>1. /\ T = S \cup Chain(l, S) /\ T \subseteq files[l] /\ Chain(l, S) \subseteq files[l]
        /\ ClosedChain(l, S, Chain(l, S))
    BY ChainIsClosed
  <1>2. /\ \A f \in files[l] : f \in SUBSET Entries /\ f # {}
        /\ \A i \in Entries : Key(i) \in Nat /\ i \in Nat /\ EntryRank(i) \in Nat
        /\ \A i, j \in Entries : EntryRank(i) < EntryRank(j) <=> Precedes(i, j)
    BY Ranks DEF Tables
  <1>3. e \in Entries /\ z \in Entries
    BY <1>1, <1>2
  <1> SUFFICES ASSUME e >= z PROVE FALSE
    BY <1>2, <1>3
  <1>4. \A u, v \in files[l] : u # v /\ ~Follow(v, u) => Follow(u, v)
    BY DEF Apart
  <1>5. t \in W
    <2>1. ~Follow(x, t)
      BY <1>2, <1>3 DEF Follow, Precedes
    <2>2. Follow(t, x)
      BY <1>1, <1>4, <2>1
    <2> QED
      BY <2>2 DEF Bounds, Shares
  <1>6. \A u \in files[l] : \E a \in u : FirstRank(u) = EntryRank(a) /\ Lo(u) = Key(a) /\ \A i \in u : a = i \/ Precedes(a, i)
    BY <1>2, TableRange
  <1>7. \A u \in files[l] : \E a \in u : LastRank(u) = EntryRank(a) /\ Hi(u) = Key(a) /\ \A i \in u : a = i \/ Precedes(i, a)
    BY <1>2, TableRange
  <1>8. PICK u \in W : \A v \in W : LastRank(v) <= LastRank(u)
    <2> DEFINE R == {LastRank(v) : v \in W}
    <2>1. \A v \in W : LastRank(v) \in Nat /\ FirstRank(x) \in Nat /\ LastRank(v) < FirstRank(x)
      <3> TAKE v \in W
      <3>1. PICK a \in x : FirstRank(x) = EntryRank(a)
        BY <1>6
      <3>2. PICK b \in v : LastRank(v) = EntryRank(b)
        BY <1>1, <1>7
      <3>3. Precedes(b, a)
        BY DEF Bounds, Follow
      <3> QED
        BY <1>1, <1>2, <3>1, <3>2, <3>3
    <2>2. R \in SUBSET Int /\ R # {} /\ FirstRank(x) \in Int /\ \A r \in R : r <= FirstRank(x)
      BY <1>5, <2>1
    <2> HIDE DEF R
    <2>3. Max(R) \in R /\ \A r \in R : r <= Max(R)
      BY <2>2, GreatestInteger
    <2>4. PICK m : m = Max(R)
      OBVIOUS
    <2> QED
      BY <2>3, <2>4 DEF R
  <1>9. u \in files[l] /\ Bounds(u, x)
    BY <1>1
  <1>10. PICK y \in FindSmallestBoundaryFile(l, u) : TRUE
    BY <1>2, <1>9, SmallestBoundary
  <1>11. y \in files[l] /\ Bounds(u, y) /\ FirstRank(y) <= FirstRank(x)
    BY <1>2, <1>9, <1>10, SmallestBoundary
  <1>12. y \in T
    <2>1. CASE u \in Chain(l, S)
      BY <1>1, <1>10, <2>1 DEF ClosedChain
    <2>2. CASE u \in S
      <3>1. \A v \in S : v = u \/ Follow(v, u)
        BY <1>1, <1>9, <2>2
      <3>2. UNION S \in SUBSET Entries /\ UNION S # {}
        BY <1>2
      <3>3. PICK a \in u : LastRank(u) = EntryRank(a) /\ Hi(u) = Key(a) /\ \A i \in u : a = i \/ Precedes(i, a)
        BY <1>7, <1>9
      <3>4. PICK b \in UNION S : /\ LastRank(UNION S) = EntryRank(b) /\ Hi(UNION S) = Key(b)
                                 /\ \A i \in UNION S : b = i \/ Precedes(i, b)
        BY <3>2, TableRange
      <3>5. a = b
        <4>1. a \in Entries /\ b \in Entries /\ a \in UNION S
          BY <1>2, <1>9, <2>2, <3>2
        <4>2. b = a \/ Precedes(b, a)
          BY <3>1, <3>3 DEF Follow
        <4>3. b = a \/ Precedes(a, b)
          BY <3>4, <4>1
        <4> QED
          BY <1>2, <4>1, <4>2, <4>3 DEF Precedes
      <3>6. FindSmallestBoundaryFile(l, UNION S) = FindSmallestBoundaryFile(l, u)
        BY <3>3, <3>4, <3>5 DEF FindSmallestBoundaryFile
      <3> QED
        BY <1>1, <1>10, <3>6 DEF ClosedChain
    <2> QED
      BY <1>1, <2>1, <2>2
  <1>13. Follow(y, x)
    <2>1. y # x
      BY <1>12
    <2>2. PICK a \in y : FirstRank(y) = EntryRank(a)
      BY <1>6, <1>11
    <2>3. PICK b \in x : FirstRank(x) = EntryRank(b)
      BY <1>6
    <2>4. ~Follow(x, y)
      BY <1>2, <1>11, <2>2, <2>3 DEF Follow
    <2> QED
      BY <1>4, <1>11, <2>1, <2>4
  <1>14. Shares(y, x)
    <2>1. PICK i \in u, j \in x : Key(i) = Key(j)
      BY <1>9 DEF Bounds, Shares
    <2>2. PICK k \in u, h \in y : Key(k) = Key(h)
      BY <1>11 DEF Bounds, Shares
    <2>3. i \in Entries /\ j \in Entries /\ k \in Entries /\ h \in Entries
      BY <1>2, <1>9, <1>11
    <2>4. Precedes(i, h) /\ Precedes(k, j) /\ Precedes(h, j)
      BY <1>9, <1>11, <1>13 DEF Bounds, Follow
    <2>5. Key(h) = Key(j)
      BY <1>2, <2>1, <2>2, <2>3, <2>4 DEF Precedes
    <2> QED
      BY <2>5 DEF Shares
  <1>15. y \in W
    BY <1>12, <1>13, <1>14 DEF Bounds
  <1>16. LastRank(u) < LastRank(y)
    <2>1. PICK a \in u : LastRank(u) = EntryRank(a)
      BY <1>7, <1>9
    <2>2. PICK b \in y : LastRank(y) = EntryRank(b)
      BY <1>7, <1>11
    <2>3. Precedes(a, b)
      BY <1>11 DEF Bounds, Follow
    <2> QED
      BY <1>2, <1>9, <1>11, <2>1, <2>2, <2>3
  <1>17. LastRank(u) \in Nat /\ LastRank(y) \in Nat
    BY <1>2, <1>7, <1>9, <1>11
  <1> QED
    BY <1>8, <1>15, <1>16, <1>17

\* What overlaps a set on one side of a range is on that side of it, if it is clear of the range.
LEMMA Drawn ==
  ASSUME HistoryTypes, NEW E \in SUBSET Entries, NEW f \in SUBSET Entries, ~OneSide(E, f),
         NEW lo \in Nat, NEW hi \in Nat, lo <= hi, ClearOf(f, lo, hi)
  PROVE  /\ (\A e \in E : Key(e) < lo) => \A e \in f : Key(e) < lo
         /\ (\A e \in E : Key(e) > hi) => \A e \in f : Key(e) > hi
  <1>1. \A e \in Entries : Key(e) \in Nat
    BY Ranks
  <1>2. PICK e \in E, x \in f : Key(e) >= Key(x)
    BY <1>1 DEF OneSide, Below
  <1>3. PICK j \in E, y \in f : Key(y) >= Key(j)
    BY <1>1 DEF OneSide, Below
  <1>4. e \in Entries /\ x \in Entries /\ j \in Entries /\ y \in Entries
    OBVIOUS
  <1> QED
    BY <1>1, <1>2, <1>3, <1>4 DEF ClearOf

\* The tables that hang together with E, by overlap or as a chain, are on its side.
LEMMA DrawnChain ==
  ASSUME HistoryTypes, NEW l \in Levels, Tables(files[l]), NEW S \in SUBSET files[l], S # {},
         NEW lo \in Nat, NEW hi \in Nat, lo <= hi, ClearOf(UNION S, lo, hi),
         \A f \in AddBoundaryInputs(l, S) : ClearOf(f, lo, hi)
  PROVE  ClearOf(UNION AddBoundaryInputs(l, S), lo, hi)
  <1>1. /\ AddBoundaryInputs(l, S) = S \cup Chain(l, S) /\ Chain(l, S) \subseteq files[l]
        /\ ClosedChain(l, S, Chain(l, S))
        /\ \A T \in SUBSET files[l] : ClosedChain(l, S, T) => Chain(l, S) \subseteq T
    BY ChainIsClosed
  <1>2. /\ UNION S \in SUBSET Entries /\ UNION S # {}
        /\ \A f \in files[l] : f \in SUBSET Entries /\ f # {}
    BY DEF Tables
  <1>3. \A y \in FindSmallestBoundaryFile(l, UNION S) : y \in Chain(l, S) /\ y \in files[l] /\ ~OneSide(UNION S, y)
    <2> TAKE y \in FindSmallestBoundaryFile(l, UNION S)
    <2>1. y \in Chain(l, S) /\ y \in files[l]
      BY <1>1 DEF ClosedChain
    <2>2. Shares(UNION S, y)
      BY <1>2, SmallestBoundary DEF Bounds
    <2> QED
      BY <1>2, <2>1, <2>2, Sides
  <1>4. \A g \in Chain(l, S) : \A y \in FindSmallestBoundaryFile(l, g) : y \in Chain(l, S) /\ y \in files[l] /\ ~OneSide(g, y)
    <2> TAKE g \in Chain(l, S)
    <2> TAKE y \in FindSmallestBoundaryFile(l, g)
    <2>1. y \in Chain(l, S) /\ y \in files[l] /\ g \in files[l]
      BY <1>1 DEF ClosedChain
    <2>2. Shares(g, y)
      BY <1>2, <2>1, SmallestBoundary DEF Bounds
    <2> QED
      BY <1>2, <2>1, <2>2, Sides
  <1>5. CASE \A e \in UNION S : Key(e) < lo
    <2> DEFINE T == {g \in Chain(l, S) : \A e \in g : Key(e) < lo}
    <2>1. ClosedChain(l, S, T)
      <3>1. ASSUME NEW y \in FindSmallestBoundaryFile(l, UNION S) PROVE y \in T
        <4>1. ClearOf(y, lo, hi)
          BY <1>1, <1>3
        <4> QED
          BY <1>2, <1>3, <1>5, <4>1, Drawn
      <3>2. ASSUME NEW g \in T, NEW y \in FindSmallestBoundaryFile(l, g) PROVE y \in T
        <4>1. ClearOf(y, lo, hi) /\ g \in files[l]
          BY <1>1, <1>4
        <4> QED
          BY <1>2, <1>4, <4>1, Drawn
      <3> QED
        BY <3>1, <3>2 DEF ClosedChain
    <2>2. Chain(l, S) \subseteq T
      BY <1>1, <2>1
    <2> QED
      BY <1>1, <1>5, <2>2 DEF ClearOf
  <1>6. CASE \A e \in UNION S : Key(e) > hi
    <2> DEFINE T == {g \in Chain(l, S) : \A e \in g : Key(e) > hi}
    <2>1. ClosedChain(l, S, T)
      <3>1. ASSUME NEW y \in FindSmallestBoundaryFile(l, UNION S) PROVE y \in T
        <4>1. ClearOf(y, lo, hi)
          BY <1>1, <1>3
        <4> QED
          BY <1>2, <1>3, <1>6, <4>1, Drawn
      <3>2. ASSUME NEW g \in T, NEW y \in FindSmallestBoundaryFile(l, g) PROVE y \in T
        <4>1. ClearOf(y, lo, hi) /\ g \in files[l]
          BY <1>1, <1>4
        <4> QED
          BY <1>2, <1>4, <4>1, Drawn
      <3> QED
        BY <3>1, <3>2 DEF ClosedChain
    <2>2. Chain(l, S) \subseteq T
      BY <1>1, <2>1
    <2> QED
      BY <1>1, <1>6, <2>2 DEF ClearOf
  <1> QED
    BY <1>5, <1>6 DEF ClearOf

LEMMA DrawnInputs ==
  ASSUME HistoryTypes, TableTypes, NEW l \in Levels, NEW m \in SUBSET Entries, m # {},
         NEW S, S = GetOverlappingInputs(l, Lo(m), Hi(m)),
         NEW lo \in Nat, NEW hi \in Nat, lo <= hi, ClearOf(m, lo, hi), \A f \in S : ClearOf(f, lo, hi)
  PROVE  ClearOf(UNION S, lo, hi)
  <1>1. /\ Hit(l, m) \subseteq S /\ S \subseteq files[l]
        /\ l # 0 => S = Hit(l, m)
        /\ l = 0 => /\ \A f \in S, g \in files[l] : ~OneSide(f, g) => g \in S
                    /\ \A C \in SUBSET files[l] :
                         Hit(l, m) \subseteq C /\ (\A f \in C, g \in files[l] : ~OneSide(f, g) => g \in C)
                           => S \subseteq C
    BY OverlappingInputs
  <1>2. \A f \in files[l] : f \in SUBSET Entries /\ f # {}
    BY VersionTables DEF Tables
  <1>3. \A f \in Hit(l, m) : f \in S /\ ~OneSide(m, f)
    BY <1>1, <1>2, Sides DEF Hit
  <1>4. CASE \A e \in m : Key(e) < lo
    <2> DEFINE C == {g \in S : \A e \in g : Key(e) < lo}
    <2>1. Hit(l, m) \subseteq C
      <3> SUFFICES ASSUME NEW f \in Hit(l, m) PROVE f \in C
        OBVIOUS
      <3> QED
        BY <1>1, <1>2, <1>3, <1>4, Drawn
    <2>2. l = 0 => \A f \in C, g \in files[l] : ~OneSide(f, g) => g \in C
      <3> SUFFICES ASSUME l = 0, NEW f \in C, NEW g \in files[l], ~OneSide(f, g) PROVE g \in C
        OBVIOUS
      <3>1. g \in S /\ f \in files[l]
        BY <1>1
      <3> QED
        BY <1>2, <3>1, Drawn
    <2>3. S \subseteq C
      BY <1>1, <2>1, <2>2
    <2> QED
      BY <2>3 DEF ClearOf
  <1>5. CASE \A e \in m : Key(e) > hi
    <2> DEFINE C == {g \in S : \A e \in g : Key(e) > hi}
    <2>1. Hit(l, m) \subseteq C
      <3> SUFFICES ASSUME NEW f \in Hit(l, m) PROVE f \in C
        OBVIOUS
      <3> QED
        BY <1>1, <1>2, <1>3, <1>5, Drawn
    <2>2. l = 0 => \A f \in C, g \in files[l] : ~OneSide(f, g) => g \in C
      <3> SUFFICES ASSUME l = 0, NEW f \in C, NEW g \in files[l], ~OneSide(f, g) PROVE g \in C
        OBVIOUS
      <3>1. g \in S /\ f \in files[l]
        BY <1>1
      <3> QED
        BY <1>2, <3>1, Drawn
    <2>3. S \subseteq C
      BY <1>1, <2>1, <2>2
    <2> QED
      BY <2>3 DEF ClearOf
  <1> QED
    BY <1>4, <1>5 DEF ClearOf

\* Tables that AddBoundaryInputs may start from: at level 0 none is left that overlaps one of
\* them, below only the last may go on in the next table.
Whole(l, S) ==
  /\ S # {} /\ S \subseteq files[l]
  /\ l = 0 => \A f \in S, g \in files[l] : ~OneSide(f, g) => g \in S
  /\ l # 0 => \A t \in S, x \in files[l] \ S : Bounds(t, x) => \A u \in S : u = t \/ Follow(u, t)

\* With them nothing older of their keys stays in the level.
LEMMA OlderTaken ==
  ASSUME HistoryTypes, TableTypes, SortedInv, NEW l \in Levels, NEW S, Whole(l, S)
  PROVE  /\ S \subseteq AddBoundaryInputs(l, S) /\ AddBoundaryInputs(l, S) \subseteq files[l]
         /\ \A f \in AddBoundaryInputs(l, S), g \in files[l] \ AddBoundaryInputs(l, S) :
              \A e \in f, x \in g : Key(e) = Key(x) => e < x
  <1>1. Tables(files[l]) /\ S \in SUBSET files[l] /\ S # {}
    BY VersionTables DEF Whole
  <1>2. /\ AddBoundaryInputs(l, S) = S \cup Chain(l, S) /\ Chain(l, S) \subseteq files[l]
        /\ \A T \in SUBSET files[l] : ClosedChain(l, S, T) => Chain(l, S) \subseteq T
    BY <1>1, ChainIsClosed
  <1>3. CASE l # 0
    <2>1. \A f, g \in files[l] : f # g => Apart(f, g)
      BY <1>3 DEF SortedInv
    <2>2. \A t \in S, x \in files[l] \ S : Bounds(t, x) => \A u \in S : u = t \/ Follow(u, t)
      BY <1>3 DEF Whole
    <2>3. ASSUME NEW f \in AddBoundaryInputs(l, S), NEW g \in files[l] \ AddBoundaryInputs(l, S),
                 NEW e \in f, NEW x \in g, Key(e) = Key(x)
          PROVE  e < x
      BY <1>1, <2>1, <2>2, <2>3, NothingOlderLeft
    <2> QED
      BY <1>1, <1>2, <2>3
  <1>4. CASE l = 0
    <2>1. \A f \in files[l] : f \in SUBSET Entries /\ f # {}
      BY <1>1 DEF Tables
    <2>2. \A f \in S, g \in files[l] : Shares(f, g) => g \in S
      BY <1>1, <1>4, <2>1, Sides DEF Whole
    <2>3. ClosedChain(l, S, S)
      <3>1. ASSUME NEW y \in FindSmallestBoundaryFile(l, UNION S) PROVE y \in S
        <4>1. UNION S \in SUBSET Entries /\ UNION S # {}
          BY <1>1, <2>1
        <4>2. y \in files[l] /\ Shares(UNION S, y)
          BY <1>1, <4>1, SmallestBoundary DEF Bounds
        <4>3. PICK f \in S : Shares(f, y)
          BY <4>2 DEF Shares
        <4> QED
          BY <2>2, <4>2, <4>3
      <3>2. ASSUME NEW g \in S, NEW y \in FindSmallestBoundaryFile(l, g) PROVE y \in S
        <4>1. g \in SUBSET Entries /\ g # {}
          BY <1>1, <2>1
        <4>2. y \in files[l] /\ Shares(g, y)
          BY <1>1, <4>1, SmallestBoundary DEF Bounds
        <4> QED
          BY <2>2, <4>2
      <3> QED
        BY <3>1, <3>2 DEF ClosedChain
    <2>4. AddBoundaryInputs(l, S) = S
      BY <1>1, <1>2, <2>3
    <2> QED
      BY <1>1, <2>2, <2>4 DEF Shares
  <1> QED
    BY <1>3, <1>4

\* What a set of tables takes along from the next level: all that overlaps it.
Takes(l, in0, in1) ==
  /\ UNION in0 \in SUBSET Entries /\ UNION in0 # {} /\ in1 \subseteq files[l + 1]
  /\ \A g \in files[l + 1] \ in1 : OneSide(UNION in0, g)
  /\ \A g \in in1 : ~OneSide(UNION in0, g)
  /\ \A lo, hi \in Nat :
       lo <= hi /\ ClearOf(UNION in0, lo, hi) /\ (\A g \in in1 : ClearOf(g, lo, hi))
         => ClearOf(UNION (in0 \cup in1), lo, hi)

LEMMA TakenBelow ==
  ASSUME HistoryTypes, TableTypes, NEW l \in 0 .. NumLevels - 2,
         NEW in0 \in SUBSET files[l], in0 # {},
         NEW in1, in1 = GetOverlappingInputs(l + 1, Lo(UNION in0), Hi(UNION in0))
  PROVE  Takes(l, in0, in1)
  <1>1. l \in Levels /\ l + 1 \in Levels /\ l + 1 # 0
    BY ConstantsAssumption DEF Levels
  <1>2. /\ \A f \in files[l] : f \in SUBSET Entries /\ f # {}
        /\ \A f \in files[l + 1] : f \in SUBSET Entries /\ f # {}
    BY <1>1, VersionTables DEF Tables
  <1>3. UNION in0 \in SUBSET Entries /\ UNION in0 # {}
    BY <1>2
  <1>4. in1 = Hit(l + 1, UNION in0)
    BY <1>1, <1>3, OverlappingInputs
  <1>5. /\ in1 \subseteq files[l + 1]
        /\ \A g \in files[l + 1] : g \in in1 <=> ~OneSide(UNION in0, g)
    BY <1>2, <1>3, <1>4, Sides DEF Hit
  <1>6. ASSUME NEW lo \in Nat, NEW hi \in Nat, lo <= hi, ClearOf(UNION in0, lo, hi),
               \A g \in in1 : ClearOf(g, lo, hi)
        PROVE  ClearOf(UNION (in0 \cup in1), lo, hi)
    <2>1. CASE \A e \in UNION in0 : Key(e) < lo
      <3>1. \A g \in in1 : \A e \in g : Key(e) < lo
        <4> TAKE g \in in1
        <4>1. g \in SUBSET Entries /\ ~OneSide(UNION in0, g) /\ ClearOf(g, lo, hi)
          BY <1>2, <1>5, <1>6
        <4> QED
          BY <1>3, <1>6, <2>1, <4>1, Drawn
      <3> QED
        BY <2>1, <3>1 DEF ClearOf
    <2>2. CASE \A e \in UNION in0 : Key(e) > hi
      <3>1. \A g \in in1 : \A e \in g : Key(e) > hi
        <4> TAKE g \in in1
        <4>1. g \in SUBSET Entries /\ ~OneSide(UNION in0, g) /\ ClearOf(g, lo, hi)
          BY <1>2, <1>5, <1>6
        <4> QED
          BY <1>3, <1>6, <2>2, <4>1, Drawn
      <3> QED
        BY <2>2, <3>1 DEF ClearOf
    <2> QED
      BY <1>6, <2>1, <2>2 DEF ClearOf
  <1> QED
    BY <1>3, <1>5, <1>6 DEF Takes

\* Tables that overlap m are whole.
LEMMA HitsAreWhole ==
  ASSUME HistoryTypes, TableTypes, SortedInv, NEW l \in Levels, NEW m \in SUBSET Entries, m # {},
         Hit(l, m) # {}
  PROVE  Whole(l, GetOverlappingInputs(l, Lo(m), Hi(m)))
  <1>1. PICK S : S = GetOverlappingInputs(l, Lo(m), Hi(m))
    OBVIOUS
  <1>2. /\ Hit(l, m) \subseteq S /\ S \subseteq files[l]
        /\ l # 0 => S = Hit(l, m)
        /\ l = 0 => \A f \in S, g \in files[l] : ~OneSide(f, g) => g \in S
    BY <1>1, OverlappingInputs
  <1>3. ASSUME l # 0, NEW t \in S, NEW x \in files[l] \ S, Bounds(t, x), NEW u \in S
        PROVE  u = t \/ Follow(u, t)
    <2>1. /\ t \in files[l] /\ u \in files[l] /\ ~OneSide(t, m) /\ ~OneSide(u, m) /\ OneSide(x, m)
      BY <1>2, <1>3 DEF Hit
    <2>2. t \in SUBSET Entries /\ u \in SUBSET Entries /\ x \in SUBSET Entries
      BY <2>1, VersionTables DEF Tables
    <2>3. \A e \in Entries : Key(e) \in Nat /\ e \in Nat
      BY Ranks
    <2>4. PICK e \in t, z \in x : Key(e) = Key(z)
      BY <1>3 DEF Bounds, Shares
    <2>5. \A i \in t : Key(i) <= Key(z)
      BY <1>3, <2>2, <2>3 DEF Bounds, Follow, Precedes
    <2>6. ~Below(x, m)
      <3> SUFFICES ASSUME Below(x, m) PROVE FALSE
        OBVIOUS
      <3>1. Below(t, m)
        BY <2>2, <2>3, <2>5 DEF Below
      <3> QED
        BY <2>1, <3>1 DEF OneSide
    <2>7. \A j \in m : Key(j) < Key(e)
      BY <2>1, <2>4, <2>6 DEF OneSide, Below
    <2> SUFFICES ASSUME u # t, ~Follow(u, t) PROVE FALSE
      OBVIOUS
    <2>8. Follow(t, u)
      BY <1>3, <2>1 DEF SortedInv, Apart
    <2>9. Below(m, u)
      BY <2>2, <2>3, <2>7, <2>8 DEF Below, Follow, Precedes
    <2> QED
      BY <2>1, <2>9 DEF OneSide
  <1> QED
    BY <1>1, <1>2, <1>3 DEF Whole

\* What PickCompaction starts from.
StartTables(l, f) == IF l = 0 THEN GetOverlappingInputs(0, Lo(f), Hi(f)) ELSE {f}

LEMMA StartIsWhole ==
  ASSUME HistoryTypes, TableTypes, SortedInv, NEW l \in Levels, NEW f \in files[l]
  PROVE  /\ Whole(l, StartTables(l, f))
         /\ \A lo, hi \in Nat :
              lo <= hi /\ (\A g \in StartTables(l, f) : ClearOf(g, lo, hi)) => ClearOf(UNION StartTables(l, f), lo, hi)
  <1>1. f \in SUBSET Entries /\ f # {}
    BY VersionTables DEF Tables
  <1>2. f \in Hit(l, f)
    BY <1>1, Sides DEF Hit
  <1>3. CASE l = 0
    <2>1. Whole(l, StartTables(l, f))
      BY <1>1, <1>2, <1>3, HitsAreWhole DEF StartTables
    <2>2. ASSUME NEW lo \in Nat, NEW hi \in Nat, lo <= hi, \A g \in StartTables(l, f) : ClearOf(g, lo, hi)
          PROVE  ClearOf(UNION StartTables(l, f), lo, hi)
      <3>1. PICK S : S = GetOverlappingInputs(l, Lo(f), Hi(f))
        OBVIOUS
      <3>2. S = StartTables(l, f)
        BY <1>3, <3>1 DEF StartTables
      <3>3. f \in S
        BY <1>1, <1>2, <3>1, OverlappingInputs
      <3>4. ClearOf(f, lo, hi) /\ \A g \in S : ClearOf(g, lo, hi)
        BY <2>2, <3>2, <3>3
      <3>5. ClearOf(UNION S, lo, hi)
        BY <1>1, <2>2, <3>1, <3>4, DrawnInputs
      <3> QED
        BY <3>2, <3>5
    <2> QED
      BY <2>1, <2>2
  <1>4. CASE l # 0
    <2>1. StartTables(l, f) = {f}
      BY <1>4 DEF StartTables
    <2>2. UNION {f} = f
      OBVIOUS
    <2> QED
      BY <1>4, <2>1, <2>2 DEF Whole
  <1> QED
    BY <1>3, <1>4

\* Whatever inputs are chosen may be merged.
LEMMA ChosenInputs ==
  ASSUME HistoryTypes, TableTypes, SortedInv, NEW l \in 0 .. NumLevels - 2, NEW f \in files[l],
         NEW in \in SetupOtherInputs(l, StartTables(l, f))
  PROVE  Inputs(l, in[1], in[2])
  <1>1. l \in Levels /\ l + 1 \in Levels
    BY ConstantsAssumption DEF Levels
  <1>2. PICK S : S = StartTables(l, f)
    OBVIOUS
  <1>3. /\ Whole(l, S)
        /\ \A lo, hi \in Nat : lo <= hi /\ (\A g \in S : ClearOf(g, lo, hi)) => ClearOf(UNION S, lo, hi)
    BY <1>1, <1>2, StartIsWhole
  <1>4. PICK in0 : in0 = AddBoundaryInputs(l, S)
    OBVIOUS
  <1>5. PICK in1 : in1 = GetOverlappingInputs(l + 1, Lo(UNION in0), Hi(UNION in0))
    OBVIOUS
  <1>6. PICK all : all = UNION (in0 \cup in1)
    OBVIOUS
  <1>7. PICK S2 : S2 = GetOverlappingInputs(l, Lo(all), Hi(all))
    OBVIOUS
  <1>8. PICK exp0 : exp0 = AddBoundaryInputs(l, S2)
    OBVIOUS
  <1>9. PICK exp1 : exp1 = GetOverlappingInputs(l + 1, Lo(UNION exp0), Hi(UNION exp0))
    OBVIOUS
  <1>10. in = <<in0, in1>> \/ in = <<exp0, exp1>>
    BY <1>2, <1>4, <1>5, <1>6, <1>7, <1>8, <1>9 DEF SetupOtherInputs
  <1>11. Tables(files[l]) /\ S \in SUBSET files[l] /\ S # {} /\ Keys \subseteq Nat
    BY <1>1, <1>3, VersionTables, ConstantsAssumption DEF Whole
  <1>12. /\ S \subseteq in0 /\ in0 \subseteq files[l]
         /\ \A g \in in0, h \in files[l] \ in0 : \A e \in g, x \in h : Key(e) = Key(x) => e < x
    BY <1>1, <1>3, <1>4, OlderTaken
  <1>13. in0 \in SUBSET files[l] /\ in0 # {}
    BY <1>11, <1>12
  <1>14. /\ UNION in0 \in SUBSET Entries /\ UNION in0 # {}
         /\ in1 \subseteq files[l + 1]
         /\ \A g \in files[l + 1] \ in1 : OneSide(UNION in0, g)
         /\ \A g \in in1 : ~OneSide(UNION in0, g)
         /\ \A lo, hi \in Nat :
              lo <= hi /\ ClearOf(UNION in0, lo, hi) /\ (\A g \in in1 : ClearOf(g, lo, hi))
                => ClearOf(UNION (in0 \cup in1), lo, hi)
    <2>1. Takes(l, in0, in1)
      BY <1>5, <1>13, TakenBelow
    <2> QED
      BY <2>1 DEF Takes
  <1>15. Gapless(in0 \cup in1)
    <2> SUFFICES ASSUME NEW lo \in Keys, NEW hi \in Keys, lo <= hi, \A g \in in0 \cup in1 : ClearOf(g, lo, hi)
                 PROVE  ClearOf(UNION (in0 \cup in1), lo, hi)
      BY DEF Gapless
    <2>1. lo \in Nat /\ hi \in Nat
      BY <1>11
    <2>2. ClearOf(UNION S, lo, hi)
      BY <1>3, <1>12, <2>1
    <2>3. ClearOf(UNION in0, lo, hi)
      BY <1>1, <1>4, <1>11, <2>1, <2>2, DrawnChain
    <2> QED
      BY <1>14, <2>1, <2>3
  <1>16. CASE in = <<in0, in1>>
    BY <1>12, <1>13, <1>14, <1>15, <1>16 DEF Inputs
  <1>17. CASE in = <<exp0, exp1>>
    <2>1. all \in SUBSET Entries /\ all # {} /\ UNION in0 \subseteq all
      BY <1>1, <1>6, <1>14, VersionTables
    <2>2. in0 \subseteq Hit(l, all)
      <3> SUFFICES ASSUME NEW g \in in0 PROVE ~OneSide(g, all)
        BY <1>13 DEF Hit
      <3>1. g \in SUBSET Entries /\ g # {} /\ g \subseteq all
        BY <1>11, <1>13, <2>1 DEF Tables
      <3> QED
        BY <2>1, <3>1, Sides
    <2>3. Whole(l, S2)
      BY <1>1, <1>7, <1>13, <2>1, <2>2, HitsAreWhole
    <2>4. in0 \subseteq S2 /\ S2 \in SUBSET files[l] /\ S2 # {}
      BY <1>1, <1>7, <1>13, <2>1, <2>2, OverlappingInputs
    <2>5. /\ S2 \subseteq exp0 /\ exp0 \subseteq files[l]
          /\ \A g \in exp0, h \in files[l] \ exp0 : \A e \in g, x \in h : Key(e) = Key(x) => e < x
      BY <1>1, <1>8, <2>3, OlderTaken
    <2>6. exp0 \in SUBSET files[l] /\ exp0 # {}
      BY <2>4, <2>5
    <2>7. /\ UNION exp0 \in SUBSET Entries /\ UNION exp0 # {}
          /\ exp1 \subseteq files[l + 1]
          /\ \A g \in files[l + 1] \ exp1 : OneSide(UNION exp0, g)
          /\ \A g \in exp1 : ~OneSide(UNION exp0, g)
          /\ \A lo, hi \in Nat :
               lo <= hi /\ ClearOf(UNION exp0, lo, hi) /\ (\A g \in exp1 : ClearOf(g, lo, hi))
                 => ClearOf(UNION (exp0 \cup exp1), lo, hi)
      <3>1. Takes(l, exp0, exp1)
        BY <1>9, <2>6, TakenBelow
      <3> QED
        BY <3>1 DEF Takes
    <2>8. in1 \subseteq exp1
      <3> SUFFICES ASSUME NEW g \in in1 PROVE ~OneSide(UNION exp0, g)
        BY <1>14, <2>7
      <3>1. g \in SUBSET Entries /\ ~OneSide(UNION in0, g)
        BY <1>1, <1>14, VersionTables DEF Tables
      <3>2. UNION in0 \subseteq UNION exp0
        BY <2>4, <2>5
      <3> QED
        BY <1>14, <2>7, <3>1, <3>2, Sides
    <2>9. Gapless(exp0 \cup exp1)
      <3> SUFFICES ASSUME NEW lo \in Keys, NEW hi \in Keys, lo <= hi, \A g \in exp0 \cup exp1 : ClearOf(g, lo, hi)
                   PROVE  ClearOf(UNION (exp0 \cup exp1), lo, hi)
        BY DEF Gapless
      <3>1. lo \in Nat /\ hi \in Nat
        BY <1>11
      <3>2. ClearOf(all, lo, hi)
        <4>1. \A g \in in0 \cup in1 : ClearOf(g, lo, hi)
          BY <2>4, <2>5, <2>8
        <4> QED
          BY <1>6, <1>15, <4>1 DEF Gapless
      <3>3. ClearOf(UNION S2, lo, hi)
        <4>1. \A g \in S2 : ClearOf(g, lo, hi)
          BY <2>5
        <4> QED
          BY <1>1, <1>7, <2>1, <3>1, <3>2, <4>1, DrawnInputs
      <3>4. ClearOf(UNION exp0, lo, hi)
        BY <1>1, <1>8, <1>11, <2>4, <3>1, <3>3, DrawnChain
      <3> QED
        BY <2>7, <3>1, <3>4
    <2> QED
      BY <1>17, <2>5, <2>6, <2>7, <2>9 DEF Inputs
  <1> QED
    BY <1>10, <1>16, <1>17

-----------------------------------------------------------------------------
(* The output of a merge *)

\* The tables of F are apart, and only a key with long values goes on from one to the next.
Parted(F) ==
  \A f, g \in F : f # g => Apart(f, g) /\ \A e \in f, x \in g : Key(e) = Key(x) => Key(e) \in SplitKeys

\* The tables written have the entries kept, in order; only a key with long values goes on
\* from one table to the next.
LEMMA OutputTables ==
  ASSUME HistoryTypes, NEW kept \in SUBSET Entries, NEW new \in Outputs(kept)
  PROVE  UNION new = kept /\ Tables(new) /\ Parted(new)
  <1> DEFINE ends == {e \in kept : \/ hist[e].key \in SplitKeys
                                   \/ \A x \in kept : hist[x].key = hist[e].key => x >= e}
             run(c, e) == {x \in kept : /\ EntryRank(x) <= EntryRank(e)
                                        /\ \A d \in c : \/ EntryRank(d) >= EntryRank(e)
                                                        \/ EntryRank(x) > EntryRank(d)}
             final == {e \in kept : EntryRank(e) = LastRank(kept)}
  <1>1. PICK d \in SUBSET ends : new = {run(d \cup final, e) : e \in d \cup final}
    <2>1. Outputs(kept) = {{run(c, e) : e \in c} : c \in {d \cup final : d \in SUBSET ends}}
      BY Zenon DEF Outputs
    <2> HIDE DEF run, ends, final
    <2>2. PICK c \in {d \cup final : d \in SUBSET ends} : new = {run(c, e) : e \in c}
      BY <2>1
    <2>3. PICK d \in SUBSET ends : c = d \cup final
      BY <2>2
    <2> QED
      BY <2>2, <2>3
  <1>2. PICK c : c = d \cup final
    OBVIOUS
  <1>3. /\ \A e \in kept : EntryRank(e) \in Nat /\ Key(e) \in Nat /\ e \in Nat
        /\ \A e, x \in kept : EntryRank(e) < EntryRank(x) <=> Precedes(e, x)
    BY Ranks
  <1>4. c \in SUBSET kept /\ new = {run(c, e) : e \in c}
    BY <1>1, <1>2
  <1>5. ASSUME NEW e \in c
        PROVE  e \in run(c, e) /\ run(c, e) \in SUBSET kept
    BY <1>3, <1>4
  <1>6. Tables(new)
    BY <1>4, <1>5 DEF Tables
  <1>7. ASSUME NEW x \in kept PROVE \E e \in c : x \in run(c, e)
    <2>1. PICK z \in kept : LastRank(kept) = EntryRank(z) /\ \A e \in kept : z = e \/ Precedes(e, z)
      BY TableRange
    <2>2. z \in c /\ EntryRank(x) <= EntryRank(z)
      BY <1>2, <1>3, <2>1
    <2> DEFINE R == {EntryRank(e) : e \in {i \in c : EntryRank(i) >= EntryRank(x)}}
    <2>3. R \in SUBSET Nat
      BY <1>3, <1>4
    <2>4. EntryRank(z) \in R
      BY <1>3, <1>4, <2>2
    <2> HIDE DEF R
    <2>5. PICK r \in R : \A n \in R : r <= n
      BY <2>3, <2>4, LeastNatural
    <2>6. PICK e \in c : r = EntryRank(e) /\ EntryRank(e) >= EntryRank(x)
      BY DEF R
    <2>7. \A i \in c : EntryRank(i) >= EntryRank(e) \/ EntryRank(x) > EntryRank(i)
      <3> TAKE i \in c
      <3>1. CASE EntryRank(i) >= EntryRank(x)
        BY <2>5, <2>6, <3>1 DEF R
      <3>2. CASE EntryRank(i) < EntryRank(x)
        BY <3>2
      <3> QED
        BY <1>3, <1>4, <3>1, <3>2
    <2> QED
      BY <2>6, <2>7
  <1>8. UNION new = kept
    <2>1. \A x \in kept : x \in UNION new
      BY <1>4, <1>7
    <2> QED
      BY <1>4, <1>5, <2>1
  <1>9. ASSUME NEW i \in c, NEW j \in c, EntryRank(i) < EntryRank(j),
               NEW x \in run(c, i), NEW y \in run(c, j)
        PROVE  Precedes(x, y) /\ (Key(x) = Key(y) => Key(x) \in SplitKeys)
    <2>1. i \in kept /\ j \in kept /\ x \in kept /\ y \in kept
      BY <1>4
    <2>2. EntryRank(x) <= EntryRank(i) /\ EntryRank(i) < EntryRank(y)
      BY <1>3, <1>9, <2>1
    <2>3. Precedes(x, y) /\ Precedes(i, y) /\ (x = i \/ Precedes(x, i))
      BY <1>3, <2>1, <2>2 DEF Precedes
    <2>4. ASSUME Key(x) = Key(y) PROVE Key(x) \in SplitKeys
      <3>1. Key(i) = Key(y) /\ i > y
        BY <1>3, <2>1, <2>3, <2>4 DEF Precedes
      <3>2. i \notin final
        <4> SUFFICES ASSUME EntryRank(i) = LastRank(kept) PROVE FALSE
          OBVIOUS
        <4>1. PICK z \in kept : LastRank(kept) = EntryRank(z) /\ \A e \in kept : z = e \/ Precedes(e, z)
          BY <2>1, TableRange
        <4> QED
          BY <1>3, <2>1, <2>2, <4>1
      <3>3. i \in ends
        BY <1>2, <3>2
      <3>4. ~(\A e \in kept : hist[e].key = hist[i].key => e >= i)
        BY <1>3, <2>1, <3>1 DEF Key
      <3> QED
        BY <2>4, <3>1, <3>3, <3>4 DEF Key
    <2> QED
      BY <2>3, <2>4
  <1>10. ASSUME NEW f \in new, NEW g \in new, f # g
         PROVE  Apart(f, g) /\ \A e \in f, x \in g : Key(e) = Key(x) => Key(e) \in SplitKeys
    <2>1. PICK i \in c : f = run(c, i)
      BY <1>4
    <2>2. PICK j \in c : g = run(c, j)
      BY <1>4
    <2>3. EntryRank(i) # EntryRank(j)
      <3> SUFFICES ASSUME EntryRank(i) = EntryRank(j) PROVE FALSE
        OBVIOUS
      <3>1. run(c, i) = run(c, j)
        OBVIOUS
      <3> QED
        BY <1>10, <2>1, <2>2, <3>1
    <2> HIDE DEF run
    <2>4. CASE EntryRank(i) < EntryRank(j)
      <3>1. \A e \in f, x \in g : Precedes(e, x) /\ (Key(e) = Key(x) => Key(e) \in SplitKeys)
        BY <1>9, <2>1, <2>2, <2>4
      <3> QED
        BY <3>1 DEF Apart, Follow
    <2>5. CASE EntryRank(j) < EntryRank(i)
      <3>1. \A e \in g, x \in f : Precedes(e, x) /\ (Key(e) = Key(x) => Key(e) \in SplitKeys)
        BY <1>9, <2>1, <2>2, <2>5
      <3> QED
        BY <3>1 DEF Apart, Follow
    <2> QED
      BY <1>3, <1>4, <2>3, <2>4, <2>5
  <1> QED
    BY <1>6, <1>8, <1>10 DEF Parted

-----------------------------------------------------------------------------
(* What a step leaves as it was *)

\* History only grows.
HistoryGoesOn == Entries \subseteq Entries' /\ \A e \in Entries : hist'[e] = hist[e]

\* What is said of old entries stays true of them.
LEMMA OldEntries ==
  ASSUME HistoryGoesOn
  PROVE  /\ \A e \in Entries : Key(e)' = Key(e)
         /\ \A f, g \in SUBSET Entries : /\ OneSide(f, g)' <=> OneSide(f, g)
                                         /\ Apart(f, g)' <=> Apart(f, g)
         /\ \A f \in SUBSET Entries : \A lo, hi : ClearOf(f, lo, hi)' <=> ClearOf(f, lo, hi)
  <1>1. \A e \in Entries : Key(e)' = Key(e)
    BY DEF HistoryGoesOn, Key
  <1>2. \A f, g \in SUBSET Entries : OneSide(f, g)' <=> OneSide(f, g)
    BY <1>1 DEF OneSide, Below
  <1>3. \A f, g \in SUBSET Entries : Apart(f, g)' <=> Apart(f, g)
    BY <1>1 DEF Apart, Follow, Precedes
  <1>4. \A f \in SUBSET Entries : \A lo, hi : ClearOf(f, lo, hi)' <=> ClearOf(f, lo, hi)
    BY <1>1 DEF ClearOf
  <1> QED
    BY <1>1, <1>2, <1>3, <1>4

\* A step that writes no table leaves the levels sorted, and the inputs of a compaction what they are.
LEMMA SameFiles ==
  ASSUME TableTypes, HistoryGoesOn, files' = files
  PROVE  /\ SortedInv => SortedInv'
         /\ \A l, in0, in1 : Inputs(l, in0, in1) => Inputs(l, in0, in1)'
         /\ (\A l, m \in Levels : l < m =>
               \A f \in files[l], g \in files[m] : \A e \in f, x \in g : Key(e) = Key(x) => x < e)
            => (\A l, m \in Levels : l < m =>
               \A f \in files[l], g \in files[m] : \A e \in f, x \in g : Key(e) = Key(x) => x < e)'
  <1>1. \A l \in Levels : \A f \in files[l] : f \in SUBSET Entries
    BY DEF TableTypes
  <1>2. /\ \A l \in Levels : \A f \in files[l] : \A e \in f : Key(e)' = Key(e)
        /\ \A f, g \in SUBSET Entries : Apart(f, g)' <=> Apart(f, g)
    BY <1>1, OldEntries
  <1>3. SortedInv => SortedInv'
    BY <1>1, <1>2 DEF SortedInv
  <1>4. ASSUME NEW l, NEW in0, NEW in1, Inputs(l, in0, in1) PROVE Inputs(l, in0, in1)'
    <2>1. l \in Levels /\ l + 1 \in Levels
      BY <1>4, ConstantsAssumption DEF Inputs, Levels
    <2>2. in0 \subseteq files[l] /\ in1 \subseteq files[l + 1]
      BY <1>4 DEF Inputs
    <2>3. UNION in0 \in SUBSET Entries /\ UNION (in0 \cup in1) \in SUBSET Entries
      BY <1>1, <2>1, <2>2
    <2>4. Gapless(in0 \cup in1)'
      <3>1. \A f \in in0 \cup in1 : f \in SUBSET Entries
        BY <1>1, <2>1, <2>2
      <3>2. \A lo, hi : /\ ClearOf(UNION (in0 \cup in1), lo, hi)' <=> ClearOf(UNION (in0 \cup in1), lo, hi)
                        /\ \A f \in in0 \cup in1 : ClearOf(f, lo, hi)' <=> ClearOf(f, lo, hi)
        BY <2>3, <3>1, OldEntries
      <3>3. Gapless(in0 \cup in1)
        BY <1>4 DEF Inputs
      <3> QED
        BY <3>2, <3>3 DEF Gapless
    <2>5. \A g \in files[l + 1] : OneSide(UNION in0, g)' <=> OneSide(UNION in0, g)
      BY <1>1, <2>1, <2>3, OldEntries
    <2>6. \A f \in in0, g \in files[l] \ in0 : \A e \in f, x \in g : Key(e)' = Key(x)' => e < x
      BY <1>2, <1>4, <2>1, <2>2 DEF Inputs
    <2> QED
      BY <1>4, <2>2, <2>4, <2>5, <2>6 DEF Inputs
  <1>5. (\A l, m \in Levels : l < m =>
               \A f \in files[l], g \in files[m] : \A e \in f, x \in g : Key(e) = Key(x) => x < e)
            => (\A l, m \in Levels : l < m =>
               \A f \in files[l], g \in files[m] : \A e \in f, x \in g : Key(e) = Key(x) => x < e)'
    BY <1>2 DEF Levels
  <1> QED
    BY <1>3, <1>4, <1>5

\* What a smaller set of readers sees is still held.
LEMMA HoldsOn ==
  ASSUME hist' = hist, snapshots' \cup {Len(hist)} \subseteq snapshots \cup {Len(hist)}
  PROVE  \A S : Holds(S) => Holds(S)'
  BY DEF Holds, Newest, Key, Entries

-----------------------------------------------------------------------------
(* The steps *)

LEMMA InitStep ==
  ASSUME Init
  PROVE  IInv
  <1>1. hist = <<>> /\ mem = {} /\ imm = {} /\ files = [l \in Levels |-> {}]
        /\ snapshots = {} /\ job = None /\ manual = None
    BY DEF Init
  <1>2. Len(hist) = 0 /\ Entries = {}
    BY <1>1 DEF Entries
  <1>3. HistoryTypes
    <2>1. \A e \in Entries : Key(e) <= 0
      BY <1>2
    <2>2. <<>> \in Seq([key : Keys, kind : {"value", "deletion"}])
      OBVIOUS
    <2> QED
      BY <1>1, <1>2, <2>1, <2>2, ConstantsAssumption DEF HistoryTypes
  <1>4. TableTypes
    BY <1>1, <1>2 DEF TableTypes
  <1>5. \A l \in Levels : files[l] = {}
    BY <1>1
  <1>6. OrderInv /\ SortedInv
    <2>1. 0 \in Levels
      BY ConstantsAssumption DEF Levels
    <2> QED
      BY <1>1, <1>5, <2>1 DEF OrderInv, SortedInv
  <1>7. Holds(All)
    BY <1>2 DEF Holds
  <1> QED
    BY <1>1, <1>3, <1>4, <1>6, <1>7 DEF IInv, JobInv

\* The memtable becomes imm.
LEMMA SwitchStep ==
  ASSUME IInv, SwitchMemTable
  PROVE  IInv'
  <1>1. /\ mem # {} /\ imm = {} /\ imm' = mem /\ mem' = {}
        /\ hist' = hist /\ files' = files /\ snapshots' = snapshots /\ job' = job /\ manual' = manual
    BY DEF SwitchMemTable
  <1>2. HistoryTypes' /\ TableTypes'
    BY <1>1 DEF IInv, HistoryTypes, TableTypes, Entries, Key
  <1>3. HistoryGoesOn
    BY <1>1 DEF HistoryGoesOn, Entries
  <1>4. InFiles' = InFiles /\ All' = All
    BY <1>1 DEF InFiles, All
  <1>5. SortedInv'
    BY <1>1, <1>3, SameFiles DEF IInv
  <1>6. OrderInv'
    BY <1>1, <1>3, <1>4, SameFiles DEF IInv, OrderInv
  <1>7. \A S : Holds(S) => Holds(S)'
    BY <1>1, HoldsOn
  <1>8. JobInv'
    BY <1>1, <1>3, <1>4, <1>7, SameFiles DEF IInv, JobInv
  <1> QED
    BY <1>1, <1>2, <1>4, <1>5, <1>6, <1>7, <1>8 DEF IInv

\* Snapshots are taken and released.
LEMMA SnapshotStep ==
  ASSUME IInv, GetSnapshot \/ \E s \in snapshots : ReleaseSnapshot(s)
  PROVE  IInv'
  <1>1. /\ mem' = mem /\ imm' = imm /\ hist' = hist /\ files' = files /\ job' = job /\ manual' = manual
        /\ snapshots' \subseteq snapshots \cup {Len(hist)}
    BY DEF GetSnapshot, ReleaseSnapshot
  <1>2. HistoryTypes' /\ TableTypes'
    <2>1. Len(hist) \in 0 .. Len(hist)
      BY DEF IInv, HistoryTypes
    <2> QED
      BY <1>1, <2>1 DEF IInv, HistoryTypes, TableTypes, Entries, Key
  <1>3. HistoryGoesOn
    BY <1>1 DEF HistoryGoesOn, Entries
  <1>4. InFiles' = InFiles /\ All' = All
    BY <1>1 DEF InFiles, All
  <1>5. SortedInv'
    BY <1>1, <1>3, SameFiles DEF IInv
  <1>6. OrderInv'
    BY <1>1, <1>3, <1>4, SameFiles DEF IInv, OrderInv
  <1>7. \A S : Holds(S) => Holds(S)'
    BY <1>1, HoldsOn
  <1>8. JobInv'
    BY <1>1, <1>3, <1>4, <1>7, SameFiles DEF IInv, JobInv
  <1> QED
    BY <1>1, <1>2, <1>4, <1>5, <1>6, <1>7, <1>8 DEF IInv

\* A write adds what is newest.
LEMMA WriteHistory ==
  ASSUME HistoryTypes, TableTypes, NEW k \in Keys, NEW kind \in Kinds(k), Write(k, kind)
  PROVE  /\ Len(hist) \in Nat /\ Entries' = Entries \cup {Len(hist) + 1} /\ Len(hist') = Len(hist) + 1
         /\ HistoryTypes' /\ HistoryGoesOn
         /\ \A e \in Entries : e <= Len(hist)
  <1> DEFINE n == Len(hist) + 1
             r == [key |-> k, kind |-> kind]
  <1>1. hist \in Seq([key : Keys, kind : {"value", "deletion"}]) /\ hist' = Append(hist, r) /\ Len(hist) < MaxSeq
    BY DEF Write, HistoryTypes
  <1>2. kind \in {"value", "deletion"} /\ (kind = "deletion" => k \in DeletedKeys)
    BY DEF Kinds
  <1>3. /\ hist' \in Seq([key : Keys, kind : {"value", "deletion"}])
        /\ Len(hist') = n /\ hist'[n] = r /\ \A i \in 1 .. Len(hist) : hist'[i] = hist[i]
    BY <1>1, <1>2, AppendProperties
  <1>4. Len(hist) \in Nat /\ Entries' = Entries \cup {n} /\ \A e \in Entries : e <= Len(hist)
    BY <1>1, <1>3 DEF Entries
  <1>5. HistoryGoesOn
    BY <1>3, <1>4 DEF HistoryGoesOn, Entries
  <1>6. \E b \in Nat : \A e \in Entries' : Key(e)' <= b
    <2>1. PICK b \in Nat : \A e \in Entries : Key(e) <= b
      BY DEF HistoryTypes
    <2>2. k \in Nat /\ \A e \in Entries : Key(e) \in Nat
      BY Ranks, ConstantsAssumption
    <2>3. \A e \in Entries' : Key(e)' <= b + k
      BY <1>3, <1>4, <1>5, <2>1, <2>2 DEF HistoryGoesOn, Key
    <2>4. b + k \in Nat
      BY <2>2
    <2> QED
      BY <2>3, <2>4
  <1>7. \A e \in Entries' : hist'[e].kind = "deletion" => Key(e)' \in DeletedKeys
    BY <1>2, <1>3, <1>4, <1>5 DEF HistoryTypes, HistoryGoesOn, Key
  <1>8. Len(hist') <= MaxSeq
    BY <1>1, <1>3, <1>4, ConstantsAssumption
  <1> QED
    BY <1>3, <1>4, <1>5, <1>6, <1>7, <1>8 DEF HistoryTypes

\* With the write, what was held is held.
LEMMA WriteHolds ==
  ASSUME HistoryTypes, TableTypes, NEW k \in Keys, NEW kind \in Kinds(k), Write(k, kind),
         NEW S \in SUBSET Entries, Holds(S), NEW n, n = Len(hist) + 1
  PROVE  Holds(S \cup {n})'
  <1> DEFINE T == S \cup {n}
  <1>1. Len(hist) \in Nat /\ Entries' = Entries \cup {n} /\ Len(hist') = n /\ HistoryGoesOn
        /\ \A e \in Entries : e <= Len(hist)
    BY WriteHistory
  <1>2. snapshots' = snapshots /\ \A s \in snapshots : s \in Nat /\ s <= Len(hist)
    BY <1>1 DEF Write, TableTypes
  <1>3. \A e \in Entries : Key(e)' = Key(e) /\ hist'[e] = hist[e] /\ e \in Nat
    BY <1>1, OldEntries, Ranks DEF HistoryGoesOn
  <1> SUFFICES ASSUME NEW s \in snapshots \cup {n}, NEW e \in Entries \cup {n},
                      Newest(e, s)', Key(e)' \in ReadKeys
               PROVE  e \in T \/ (hist'[e].kind = "deletion" /\ \A x \in T : Key(x)' = Key(e)' => ~(x <= s))
    BY <1>1, <1>2 DEF Holds
  <1>4. CASE e = n
    BY <1>4
  <1>5. CASE e # n /\ s = n
    <2>1. e \in Entries /\ Key(n)' # Key(e)'
      <3>1. e \in Entries /\ ~(n <= e) /\ n <= s
        BY <1>1, <1>3, <1>5
      <3> QED
        BY <1>1, <3>1 DEF Newest
    <2>2. Newest(e, Len(hist))
      BY <1>1, <1>3, <1>5, <2>1 DEF Newest
    <2>3. e \in S \/ (hist[e].kind = "deletion" /\ \A x \in S : Key(x) = Key(e) => ~(x <= Len(hist)))
      BY <1>3, <2>1, <2>2 DEF Holds
    <2> QED
      BY <1>1, <1>3, <1>5, <2>1, <2>3
  <1>6. CASE e # n /\ s # n
    <2>1. e \in Entries /\ s \in snapshots
      BY <1>6
    <2>2. Newest(e, s)
      BY <1>1, <1>3, <2>1 DEF Newest
    <2>3. e \in S \/ (hist[e].kind = "deletion" /\ \A x \in S : Key(x) = Key(e) => ~(x <= s))
      BY <1>3, <2>1, <2>2 DEF Holds
    <2> QED
      BY <1>1, <1>2, <1>3, <2>1, <2>3
  <1> QED
    BY <1>4, <1>5, <1>6

\* A write goes to the memtable.
LEMMA WriteStep ==
  ASSUME IInv, NEW k \in Keys, NEW kind \in Kinds(k), Write(k, kind)
  PROVE  IInv'
  <1> USE DEF IInv
  <1>n. PICK n : n = Len(hist) + 1
    OBVIOUS
  <1>1. Len(hist) \in Nat /\ Entries' = Entries \cup {n} /\ Len(hist') = n /\ HistoryTypes' /\ HistoryGoesOn
        /\ \A e \in Entries : e <= Len(hist)
    BY <1>n, WriteHistory
  <1>2. /\ mem' = mem \cup {n} /\ imm' = imm /\ files' = files /\ snapshots' = snapshots /\ job' = job
        /\ manual' = manual
    BY <1>n DEF Write
  <1>3. TableTypes'
    <2>1. mem' \subseteq Entries' /\ imm' \subseteq Entries' /\ snapshots' \subseteq 0 .. Len(hist')
      BY <1>n, <1>1, <1>2 DEF TableTypes
    <2>2. files \in [Levels -> SUBSET SUBSET Entries'] /\ Levels' = Levels
      BY <1>1 DEF TableTypes, Levels
    <2> QED
      BY <1>2, <2>1, <2>2 DEF TableTypes
  <1>4. InFiles' = InFiles /\ All' = All \cup {n}
    BY <1>2 DEF InFiles, All
  <1>5. InFiles \subseteq Entries /\ imm \subseteq Entries /\ All \subseteq Entries
    BY DEF TableTypes, InFiles, All
  <1>6. SortedInv'
    BY <1>1, <1>2, SameFiles
  <1>7. OrderInv'
    <2>1. \A e \in mem', x \in imm' \cup InFiles' : x < e
      <3>1. \A x \in imm \cup InFiles : x < n
        BY <1>n, <1>1, <1>5, Ranks
      <3> QED
        BY <1>2, <1>4, <3>1 DEF OrderInv
    <2> QED
      BY <1>1, <1>2, <1>4, <2>1, SameFiles DEF OrderInv
  <1>8. Holds(All)'
    <2>1. PICK S \in SUBSET Entries : S = All
      BY <1>5
    <2>2. Holds(S \cup {n})'
      BY <1>n, <2>1, WriteHolds
    <2> QED
      BY <1>4, <2>1, <2>2
  <1>9. JobInv'
    <2> SUFFICES ASSUME job # None PROVE JobInv'
      BY <1>2 DEF JobInv
    <2> DEFINE E == UNION (job.in0 \cup job.in1)
    <2>1. E \subseteq Entries /\ n \notin Entries
      <3>1. job.level \in Levels /\ job.level + 1 \in Levels /\ job.in0 \subseteq files[job.level]
            /\ job.in1 \subseteq files[job.level + 1]
        BY ConstantsAssumption DEF JobInv, Inputs, Levels
      <3>2. E \subseteq Entries
        BY <3>1 DEF TableTypes
      <3> QED
        BY <1>n, <1>1, <3>2
    <2>2. ((All \cup {n}) \ E) \cup job.kept = ((All \ E) \cup job.kept) \cup {n}
      BY <2>1
    <2>3. PICK S \in SUBSET Entries : S = (All \ E) \cup job.kept
      BY <1>5, <2>1 DEF JobInv
    <2>4. Holds(S \cup {n})'
      BY <1>n, <2>3, WriteHolds DEF JobInv
    <2>6. ((All \ E) \cup job.kept)' = S \cup {n}
      BY <1>2, <1>4, <2>2, <2>3
    <2>7. Holds((All \ UNION (job.in0 \cup job.in1)) \cup job.kept)'
      BY <2>4, <2>6
    <2>5. Inputs(job.level, job.in0, job.in1)'
      BY <1>1, <1>2, SameFiles DEF JobInv
    <2> QED
      BY <1>2, <2>5, <2>7 DEF JobInv
  <1> QED
    BY <1>1, <1>2, <1>3, <1>6, <1>7, <1>8, <1>9

\* A range of keys is clear of the tables on one side of m.
LEMMA SidesAreClear ==
  ASSUME HistoryTypes, NEW f \in SUBSET Entries, NEW m \in SUBSET Entries, m # {}
  PROVE  /\ Lo(m) \in Keys /\ Hi(m) \in Keys /\ Lo(m) <= Hi(m)
         /\ OneSide(f, m) <=> ClearOf(f, Lo(m), Hi(m))
  <1>1. /\ Keys \subseteq Nat
        /\ \A e \in Entries : Key(e) \in Nat
    BY Ranks, ConstantsAssumption
  <1>2. /\ \E a \in m : Lo(m) = Key(a)
        /\ \E z \in m : Hi(m) = Key(z)
        /\ Lo(m) \in Keys /\ Hi(m) \in Keys /\ \A e \in m : Lo(m) <= Key(e) /\ Key(e) <= Hi(m)
    BY TableRange
  <1>3. Below(f, m) <=> \A e \in f : Key(e) < Lo(m)
    BY <1>1, <1>2 DEF Below
  <1>4. Below(m, f) <=> \A e \in f : Key(e) > Hi(m)
    BY <1>1, <1>2 DEF Below
  <1> QED
    BY <1>1, <1>2, <1>3, <1>4 DEF OneSide, ClearOf

\* A memtable goes below level 0 only if no table of the levels down to its own overlaps it.
LEMMA MemTableLevel ==
  ASSUME HistoryTypes, TableTypes, imm # {}, NEW p \in PickLevelForMemTableOutput(Lo(imm), Hi(imm))
  PROVE  /\ p \in Levels
         /\ p # 0 => \A j \in 0 .. p : \A f \in files[j] : OneSide(f, imm)
  <1> DEFINE clear == {l \in 0 .. MaxMemLevel : \A j \in 0 .. l : ~OverlapInLevel(j, Lo(imm), Hi(imm))}
  <1>1. MaxMemLevel \in Nat /\ NumLevels \in Nat /\ MaxMemLevel < NumLevels /\ 0 \in Levels
    BY ConstantsAssumption DEF Levels
  <1>2. clear # {} => Max(clear) \in clear
    <2>1. clear \in SUBSET Int /\ MaxMemLevel \in Int /\ \A l \in clear : l <= MaxMemLevel
      BY <1>1
    <2> HIDE DEF clear
    <2> QED
      BY <2>1, GreatestInteger
  <1>3. p = 0 \/ p \in clear
    BY <1>2 DEF PickLevelForMemTableOutput
  <1>4. CASE p = 0
    BY <1>1, <1>4
  <1>5. CASE p \in clear
    <2>1. p \in Levels /\ 0 .. p \subseteq Levels
      BY <1>1, <1>5 DEF Levels
    <2>2. imm \in SUBSET Entries
      BY DEF TableTypes
    <2>3. ASSUME NEW j \in 0 .. p, NEW f \in files[j] PROVE OneSide(f, imm)
      <3>1. j \in Levels /\ Tables(files[j])
        BY <2>1, VersionTables
      <3>2. ~OverlapInLevel(j, Lo(imm), Hi(imm))
        BY <1>5
      <3> QED
        BY <2>2, <3>1, <3>2, NoOverlap
    <2> QED
      BY <2>1, <2>3
  <1> QED
    BY <1>3, <1>4, <1>5

\* Tables on one side of one another follow one another, and share no key.
LEMMA SidesAreApart ==
  ASSUME HistoryTypes, NEW f \in SUBSET Entries, NEW g \in SUBSET Entries, OneSide(f, g)
  PROVE  /\ Apart(f, g) /\ Apart(g, f)
         /\ \A e \in f, x \in g : Key(e) # Key(x)
  <1>1. \A e \in Entries : Key(e) \in Nat
    BY Ranks
  <1> QED
    BY <1>1 DEF OneSide, Below, Apart, Follow, Precedes

\* A memtable that goes down among the inputs of the running compaction is not in their range.
LEMMA FlushedInputs ==
  ASSUME HistoryTypes, TableTypes, OrderInv, imm # {}, NEW p \in Levels,
         p # 0 => \A j \in 0 .. p : \A f \in files[j] : OneSide(f, imm),
         NEW l, NEW in0, NEW in1, Inputs(l, in0, in1),
         hist' = hist, files' = [files EXCEPT ![p] = @ \cup {imm}]
  PROVE  Inputs(l, in0, in1)'
  <1>1. l \in Levels /\ l + 1 \in Levels /\ l + 1 # 0 /\ l \in Nat
    BY ConstantsAssumption DEF Inputs, Levels
  <1>2. in0 \subseteq files[l] /\ in0 # {} /\ in1 \subseteq files[l + 1] /\ l \in 0 .. NumLevels - 2
    BY DEF Inputs
  <1>3. \A j \in Levels : files'[j] = IF j = p THEN files[j] \cup {imm} ELSE files[j]
    BY DEF TableTypes
  <1>4. in0 \subseteq files'[l] /\ in1 \subseteq files'[l + 1]
    BY <1>1, <1>2, <1>3
  <1>5. imm \in SUBSET Entries /\ UNION in0 \in SUBSET Entries /\ UNION (in0 \cup in1) \in SUBSET Entries
        /\ \A f \in in0 \cup in1 : f \in SUBSET Entries
    BY <1>1, <1>2 DEF TableTypes
  <1>6. Gapless(in0 \cup in1)' <=> Gapless(in0 \cup in1)
    BY DEF Gapless, ClearOf, Key
  <1>7. \A f, g : OneSide(f, g)' <=> OneSide(f, g)
    BY DEF OneSide, Below, Key
  <1>8. \A f \in in0, g \in files'[l] \ in0 : \A e \in f, x \in g : Key(e)' = Key(x)' => e < x
    <2> SUFFICES ASSUME NEW f \in in0, NEW g \in files'[l] \ in0, NEW e \in f, NEW x \in g, Key(e) = Key(x)
                 PROVE  e < x
      BY DEF Key
    <2>1. CASE g \in files[l]
      BY <2>1 DEF Inputs
    <2>2. CASE g = imm
      <3>1. e \in InFiles
        BY <1>1, <1>2 DEF InFiles
      <3> QED
        BY <2>2, <3>1 DEF OrderInv
    <2> QED
      BY <1>1, <1>3, <2>1, <2>2
  <1>9. \A g \in files'[l + 1] \ in1 : OneSide(UNION in0, g)
    <2> SUFFICES ASSUME NEW g \in files'[l + 1] \ in1 PROVE OneSide(UNION in0, g)
      OBVIOUS
    <2>1. CASE g \in files[l + 1]
      BY <2>1 DEF Inputs
    <2>2. CASE g = imm /\ p = l + 1
      <3>1. l \in 0 .. p /\ l + 1 \in 0 .. p
        BY <1>1, <2>2
      <3>2. \A f \in in0 \cup in1 : OneSide(f, imm)
        BY <1>1, <1>2, <2>2, <3>1
      <3>3. \A f \in in0 \cup in1 : ClearOf(f, Lo(imm), Hi(imm))
        BY <1>5, <3>2, SidesAreClear
      <3>4. Lo(imm) \in Keys /\ Hi(imm) \in Keys /\ Lo(imm) <= Hi(imm)
        BY <1>5, SidesAreClear
      <3>5. ClearOf(UNION (in0 \cup in1), Lo(imm), Hi(imm))
        BY <3>3, <3>4 DEF Inputs, Gapless
      <3>6. OneSide(UNION (in0 \cup in1), imm)
        BY <1>5, <3>5, SidesAreClear
      <3>7. OneSide(imm, UNION (in0 \cup in1)) /\ UNION in0 \subseteq UNION (in0 \cup in1)
        BY <1>5, <3>6, Sides
      <3>8. OneSide(imm, UNION in0)
        BY <1>5, <3>7, Sides
      <3> QED
        BY <1>5, <2>2, <3>8, Sides
    <2> QED
      BY <1>1, <1>3, <2>1, <2>2
  <1> QED
    BY <1>2, <1>4, <1>6, <1>7, <1>8, <1>9 DEF Inputs

\* A memtable is written as a table.
LEMMA FlushStep ==
  ASSUME IInv, CompactMemTable
  PROVE  IInv'
  <1> USE DEF IInv
  <1>1. PICK p \in PickLevelForMemTableOutput(Lo(imm), Hi(imm)) : files' = [files EXCEPT ![p] = @ \cup {imm}]
    BY DEF CompactMemTable
  <1>2. /\ imm # {} /\ imm' = {} /\ hist' = hist /\ mem' = mem /\ snapshots' = snapshots /\ job' = job
        /\ manual' = manual
    BY DEF CompactMemTable
  <1>3. p \in Levels /\ (p # 0 => \A j \in 0 .. p : \A f \in files[j] : OneSide(f, imm))
    BY <1>2, MemTableLevel
  <1>4. \A j \in Levels : files'[j] = IF j = p THEN files[j] \cup {imm} ELSE files[j]
    BY <1>1, <1>3 DEF TableTypes
  <1>5. imm \in SUBSET Entries /\ \A j \in Levels : \A f \in files[j] : f \in SUBSET Entries
    BY DEF TableTypes
  <1>6. HistoryTypes' /\ Entries' = Entries
    BY <1>2 DEF HistoryTypes, Entries, Key
  <1>7. TableTypes'
    <2>1. files' \in [Levels -> SUBSET SUBSET Entries]
      BY <1>1, <1>3, <1>5 DEF TableTypes
    <2>2. \A l \in Levels : {} \notin files'[l]
      BY <1>2, <1>4 DEF TableTypes
    <2> QED
      BY <1>2, <1>6, <2>1, <2>2 DEF TableTypes
  <1>8. InFiles' = InFiles \cup imm /\ All' = All
    <2>1. InFiles' = InFiles \cup imm
      <3>1. \A x : x \in InFiles <=> \E j \in Levels : \E f \in files[j] : x \in f
        BY DEF InFiles
      <3>2. \A x : x \in InFiles' <=> \E j \in Levels : \E f \in files'[j] : x \in f
        BY DEF InFiles, Levels
      <3>3. \A x : x \in InFiles' <=> x \in InFiles \/ x \in imm
        BY <1>3, <1>4, <3>1, <3>2
      <3> QED
        BY <3>3
    <2> QED
      BY <1>2, <2>1 DEF All
  <1>9. OrderInv'
    <2>1. \A e \in mem', x \in imm' \cup InFiles' : x < e
      BY <1>2, <1>8 DEF OrderInv
    <2>2. \A e \in imm', x \in InFiles' : x < e
      BY <1>2
    <2>3. \A j \in Levels : \A f \in files[j] : f \subseteq InFiles
      BY DEF InFiles
    <2>4. 0 \in Levels
      BY ConstantsAssumption DEF Levels
    <2>5. \A f, g \in files'[0] : f # g => (\A e \in f, x \in g : e < x) \/ (\A e \in f, x \in g : x < e)
      BY <1>4, <2>3, <2>4 DEF OrderInv
    <2>6. ASSUME NEW l \in Levels, NEW m \in Levels, l < m, NEW f \in files'[l], NEW g \in files'[m],
                 NEW e \in f, NEW x \in g, Key(e) = Key(x)
          PROVE  x < e
      <3>1. CASE f \in files[l] /\ g \in files[m]
        BY <2>6, <3>1 DEF OrderInv
      <3>2. CASE f = imm /\ g \in files[m]
        BY <2>3, <3>2 DEF OrderInv
      <3>3. CASE f \in files[l] /\ g = imm /\ m = p
        <4>1. p # 0 /\ l \in 0 .. p
          BY <2>6, <3>3 DEF Levels
        <4>2. OneSide(f, imm)
          BY <1>3, <3>3, <4>1
        <4> QED
          BY <1>5, <2>6, <3>3, <4>2, SidesAreApart
      <3>4. l = p /\ m = p => FALSE
        BY <2>6 DEF Levels
      <3> QED
        BY <1>4, <3>1, <3>2, <3>3, <3>4
    <2>7. \A e : Key(e)' = Key(e)
      BY <1>2 DEF Key
    <2> QED
      BY <2>1, <2>2, <2>5, <2>6, <2>7 DEF OrderInv, Levels
  <1>10. SortedInv'
    <2> SUFFICES ASSUME NEW l \in Levels \ {0}, NEW f \in files'[l], NEW g \in files'[l], f # g
                 PROVE  Apart(f, g) /\ \A e \in f, x \in g : Key(e) = Key(x) => Key(e) \in SplitKeys
      BY <1>2 DEF SortedInv, Apart, Follow, Precedes, Key, Levels
    <2>1. CASE f \in files[l] /\ g \in files[l]
      BY <2>1 DEF SortedInv
    <2>2. ASSUME NEW h \in files[l], l = p
          PROVE  Apart(h, imm) /\ Apart(imm, h) /\ \A e \in h, x \in imm : Key(e) # Key(x)
      <3>1. OneSide(h, imm)
        BY <1>3, <2>2 DEF Levels
      <3> QED
        BY <1>5, <3>1, SidesAreApart
    <2>3. CASE l = p /\ f \in files[l] /\ g = imm
      BY <2>2, <2>3
    <2>4. CASE l = p /\ f = imm /\ g \in files[l]
      BY <2>2, <2>4
    <2>5. \/ f \in files[l] /\ g \in files[l]
          \/ l = p /\ f \in files[l] /\ g = imm
          \/ l = p /\ f = imm /\ g \in files[l]
      <3>1. l \in Levels /\ f # g
        OBVIOUS
      <3>2. files'[l] = IF l = p THEN files[l] \cup {imm} ELSE files[l]
        BY <1>4, <3>1
      <3>3. /\ f \in files[l] \/ (l = p /\ f = imm)
            /\ g \in files[l] \/ (l = p /\ g = imm)
        BY <3>2
      <3> QED
        BY <3>1, <3>3
    <2> QED
      BY <2>1, <2>3, <2>4, <2>5
  <1>11. \A S : Holds(S) => Holds(S)'
    BY <1>2, HoldsOn
  <1>12. JobInv'
    <2> SUFFICES ASSUME job # None PROVE JobInv'
      BY <1>2 DEF JobInv
    <2>1. PICK l, in0, in1 : l = job.level /\ in0 = job.in0 /\ in1 = job.in1
      OBVIOUS
    <2>2. Inputs(l, in0, in1)'
      BY <1>1, <1>2, <1>3, <2>1, FlushedInputs DEF JobInv
    <2> QED
      BY <1>2, <1>8, <1>11, <2>1, <2>2 DEF JobInv
  <1> QED
    BY <1>2, <1>6, <1>7, <1>8, <1>9, <1>10, <1>11, <1>12

\* The entries E of the inputs are in tables of both levels; what stays in the next level is
\* before or after all of them, what stays in the level is newer.
EntriesOf(l, in0, in1, E) ==
  /\ l \in Levels /\ l + 1 \in Levels /\ l + 1 # 0 /\ l \in Nat /\ E \in SUBSET Entries
  /\ \A x \in E : (\E f \in in0 : f \in files[l] /\ x \in f) \/ (\E f \in in1 : f \in files[l + 1] /\ x \in f)
  /\ \A g \in files[l + 1] \ in1 :
       (Follow(E, g) \/ Follow(g, E)) /\ \A e \in E, x \in g : Key(e) = Key(x) => Key(e) \in SplitKeys
  /\ \A g \in files[l] \ in0 : \A e \in E, x \in g : Key(e) = Key(x) => e < x

LEMMA InputsInOrder ==
  ASSUME HistoryTypes, TableTypes, OrderInv, SortedInv, NEW l, NEW in0, NEW in1, Inputs(l, in0, in1)
  PROVE  EntriesOf(l, in0, in1, UNION (in0 \cup in1))
  <1>e. PICK E : E = UNION (in0 \cup in1)
    OBVIOUS
  <1>1. l \in Levels /\ l + 1 \in Levels /\ l + 1 # 0 /\ l \in Nat /\ l < l + 1
    BY ConstantsAssumption DEF Inputs, Levels
  <1>2. in0 \subseteq files[l] /\ in0 # {} /\ in1 \subseteq files[l + 1]
    BY DEF Inputs
  <1>3. E \in SUBSET Entries /\ \A j \in Levels : \A f \in files[j] : f \in SUBSET Entries /\ f # {}
    BY <1>e, <1>1, <1>2 DEF TableTypes
  <1>4. \A x \in E : (\E f \in in0 : f \in files[l] /\ x \in f) \/ (\E f \in in1 : f \in files[l + 1] /\ x \in f)
    BY <1>e, <1>2
  <1>5. \A e \in Entries : Key(e) \in Nat
    BY Ranks
  <1>6. ASSUME NEW g \in files[l + 1] \ in1
        PROVE  (Follow(E, g) \/ Follow(g, E)) /\ \A e \in E, x \in g : Key(e) = Key(x) => Key(e) \in SplitKeys
    <2>1. g \in SUBSET Entries /\ g # {} /\ UNION in0 \in SUBSET Entries /\ UNION in0 # {}
      BY <1>1, <1>2, <1>3, <1>6
    <2>2. OneSide(UNION in0, g)
      BY <1>6 DEF Inputs
    <2>3. ASSUME NEW h \in in1
          PROVE  /\ h \in SUBSET Entries /\ h # {} /\ Apart(h, g) /\ ~OneSide(UNION in0, h)
                 /\ \A e \in h, x \in g : Key(e) = Key(x) => Key(e) \in SplitKeys
      <3>1. h \in files[l + 1] /\ g \in files[l + 1] /\ h # g /\ l + 1 \in Levels \ {0}
        BY <1>1, <1>2, <1>6
      <3>2. Apart(h, g) /\ \A e \in h, x \in g : Key(e) = Key(x) => Key(e) \in SplitKeys
        BY <3>1 DEF SortedInv
      <3> QED
        BY <1>1, <1>3, <3>1, <3>2 DEF Inputs
    <2>4. CASE Below(UNION in0, g)
      <3>1. \A e \in UNION in0, x \in g : Precedes(e, x) /\ Key(e) # Key(x)
        BY <1>5, <2>1, <2>4 DEF Below, Precedes
      <3>2. ASSUME NEW h \in in1 PROVE Follow(h, g)
        <4> SUFFICES ASSUME Follow(g, h) PROVE FALSE
          BY <2>3 DEF Apart
        <4>1. ASSUME NEW e \in UNION in0, NEW x \in h PROVE Key(e) < Key(x)
          <5>1. PICK y \in g : TRUE
            BY <2>1
          <5>2. Key(e) < Key(y) /\ Key(y) <= Key(x)
            BY <1>5, <2>1, <2>3, <2>4, <5>1 DEF Below, Follow, Precedes
          <5> QED
            BY <1>5, <2>1, <2>3, <5>2
        <4> QED
          BY <2>3, <4>1 DEF OneSide, Below
      <3>3. Follow(E, g)
        <4> SUFFICES ASSUME NEW e \in E, NEW x \in g PROVE Precedes(e, x)
          BY DEF Follow
        <4>1. e \in UNION in0 \/ \E h \in in1 : e \in h
          BY <1>4
        <4> QED
          BY <3>1, <3>2, <4>1 DEF Follow
      <3>4. \A e \in E, x \in g : Key(e) = Key(x) => Key(e) \in SplitKeys
        <4> SUFFICES ASSUME NEW e \in E, NEW x \in g, Key(e) = Key(x) PROVE Key(e) \in SplitKeys
          OBVIOUS
        <4>1. e \in UNION in0 \/ \E h \in in1 : e \in h
          BY <1>4
        <4> QED
          BY <2>3, <3>1, <4>1
      <3> QED
        BY <3>3, <3>4
    <2>5. CASE Below(g, UNION in0)
      <3>1. \A e \in UNION in0, x \in g : Precedes(x, e) /\ Key(e) # Key(x)
        BY <1>5, <2>1, <2>5 DEF Below, Precedes
      <3>2. ASSUME NEW h \in in1 PROVE Follow(g, h)
        <4> SUFFICES ASSUME Follow(h, g) PROVE FALSE
          BY <2>3 DEF Apart
        <4>1. ASSUME NEW e \in UNION in0, NEW x \in h PROVE Key(x) < Key(e)
          <5>1. PICK y \in g : TRUE
            BY <2>1
          <5>2. Key(y) < Key(e) /\ Key(x) <= Key(y)
            BY <1>5, <2>1, <2>3, <2>5, <5>1 DEF Below, Follow, Precedes
          <5> QED
            BY <1>5, <2>1, <2>3, <5>2
        <4> QED
          BY <2>3, <4>1 DEF OneSide, Below
      <3>3. Follow(g, E)
        <4> SUFFICES ASSUME NEW e \in E, NEW x \in g PROVE Precedes(x, e)
          BY DEF Follow
        <4>1. e \in UNION in0 \/ \E h \in in1 : e \in h
          BY <1>4
        <4> QED
          BY <3>1, <3>2, <4>1 DEF Follow
      <3>4. \A e \in E, x \in g : Key(e) = Key(x) => Key(e) \in SplitKeys
        <4> SUFFICES ASSUME NEW e \in E, NEW x \in g, Key(e) = Key(x) PROVE Key(e) \in SplitKeys
          OBVIOUS
        <4>1. e \in UNION in0 \/ \E h \in in1 : e \in h
          BY <1>4
        <4> QED
          BY <2>3, <3>1, <4>1
      <3> QED
        BY <3>3, <3>4
    <2> QED
      BY <2>2, <2>4, <2>5 DEF OneSide
  <1>7. ASSUME NEW g \in files[l] \ in0, NEW e \in E, NEW x \in g, Key(e) = Key(x) PROVE e < x
    <2>1. CASE \E f \in in0 : e \in f
      BY <1>7, <2>1 DEF Inputs
    <2>2. CASE \E f \in in1 : f \in files[l + 1] /\ e \in f
      BY <1>1, <1>7, <2>2 DEF OrderInv
    <2> QED
      BY <1>4, <2>1, <2>2
  <1> QED
    BY <1>e, <1>1, <1>3, <1>4, <1>6, <1>7 DEF EntriesOf

\* Every entry is in one place only.
LEMMA EntryOnce ==
  ASSUME HistoryTypes, TableTypes, OrderInv, SortedInv, NEW i \in Levels, NEW j \in Levels,
         NEW f \in files[i], NEW g \in files[j], NEW x \in f, x \in g
  PROVE  i = j /\ f = g
  <1>1. x \in Nat /\ Key(x) \in Nat /\ x \in Entries
    <2>1. x \in Entries
      BY DEF TableTypes
    <2> QED
      BY <2>1, Ranks
  <1>2. \A m, n \in Levels : m \in Int /\ n \in Int
    BY DEF Levels
  <1>3. i = j
    <2>1. i < j => FALSE
      BY <1>1 DEF OrderInv
    <2>2. j < i => FALSE
      BY <1>1 DEF OrderInv
    <2> QED
      BY <1>2, <2>1, <2>2
  <1>4. CASE i = 0
    <2>1. ASSUME f # g PROVE FALSE
      <3>1. (\A e \in f, y \in g : e < y) \/ (\A e \in f, y \in g : y < e)
        BY <1>3, <1>4, <2>1 DEF OrderInv
      <3> QED
        BY <1>1, <3>1
    <2> QED
      BY <1>3, <2>1
  <1>5. CASE i # 0
    <2>1. ASSUME f # g PROVE FALSE
      <3>1. Apart(f, g)
        BY <1>3, <1>5, <2>1 DEF SortedInv
      <3> QED
        BY <1>1, <3>1 DEF Apart, Follow, Precedes
    <2> QED
      BY <1>3, <2>1
  <1> QED
    BY <1>4, <1>5

\* The inputs of a compaction are replaced by tables with entries of theirs.
Moves(l, in0, in1, new) ==
  /\ Inputs(l, in0, in1)
  /\ Tables(new) /\ Parted(new) /\ UNION new \subseteq UNION (in0 \cup in1)
  /\ files' = Replace(l, in0, in1, new)
  /\ hist' = hist /\ mem' = mem /\ imm' = imm /\ snapshots' = snapshots

LEMMA Replaced ==
  ASSUME HistoryTypes, TableTypes, OrderInv, SortedInv, NEW l, NEW in0, NEW in1, NEW new, Moves(l, in0, in1, new)
  PROVE  TableTypes' /\ OrderInv' /\ SortedInv' /\ InFiles' = (InFiles \ UNION (in0 \cup in1)) \cup UNION new
  <1> USE DEF Moves
  <1>e. PICK E : E = UNION (in0 \cup in1)
    OBVIOUS
  <1>0. EntriesOf(l, in0, in1, E)
    BY <1>e, InputsInOrder
  <1>1. /\ l \in Levels /\ l + 1 \in Levels /\ l + 1 # 0 /\ l \in Nat /\ E \in SUBSET Entries /\ 0 \in Levels
        /\ \A j \in Levels : j \in Nat
        /\ \A x \in E : (\E f \in in0 : f \in files[l] /\ x \in f) \/ (\E f \in in1 : f \in files[l + 1] /\ x \in f)
    BY <1>0, ConstantsAssumption DEF Levels, EntriesOf
  <1>2. /\ \A g \in files[l + 1] \ in1 :
             (Follow(E, g) \/ Follow(g, E)) /\ \A e \in E, x \in g : Key(e) = Key(x) => Key(e) \in SplitKeys
        /\ \A g \in files[l] \ in0 : \A e \in E, x \in g : Key(e) = Key(x) => e < x
    BY <1>0 DEF EntriesOf
  <1>3. \A j \in Levels : files'[j] = IF j = l THEN files[l] \ in0
                                      ELSE IF j = l + 1 THEN (files[l + 1] \ in1) \cup new ELSE files[j]
    <2>1. files \in [Levels -> SUBSET SUBSET Entries] /\ l # l + 1
      BY <1>1 DEF TableTypes
    <2> QED
      BY <1>1, <2>1 DEF Replace
  <1>4. \A j \in Levels : \A f \in files'[j] : \/ f \in files[j] /\ (j = l => f \notin in0) /\ (j = l + 1 => f \notin in1)
                                               \/ j = l + 1 /\ f \in new
    BY <1>1, <1>3
  <1>5. \A f \in new : f \in SUBSET Entries /\ f # {} /\ f \in SUBSET E
    BY <1>e DEF Tables
  <1>6. TableTypes'
    <2>1. \A j \in Levels : files'[j] \in SUBSET SUBSET Entries /\ {} \notin files'[j]
      BY <1>4, <1>5 DEF TableTypes
    <2>2. files' \in [Levels -> SUBSET SUBSET Entries]
      BY <1>1, <1>5 DEF Replace, TableTypes
    <2>3. Entries' = Entries /\ Levels' = Levels
      BY DEF Entries, Levels
    <2> QED
      BY <2>1, <2>2, <2>3 DEF TableTypes
  <1>7. InFiles' = (InFiles \ E) \cup UNION new
    <2>1. \A x : x \in InFiles <=> \E j \in Levels : \E f \in files[j] : x \in f
      BY DEF InFiles
    <2>2. \A x : x \in InFiles' <=> \E j \in Levels : \E f \in files'[j] : x \in f
      BY DEF InFiles, Levels
    <2>3. ASSUME NEW x \in InFiles' PROVE x \in (InFiles \ E) \cup UNION new
      <3>0. PICK j \in Levels : \E f \in files'[j] : x \in f
        BY <2>2, <2>3
      <3>1. PICK f \in files'[j] : x \in f
        BY <3>0
      <3>2. CASE j = l + 1 /\ f \in new
        BY <3>1, <3>2
      <3>3. CASE f \in files[j] /\ (j = l => f \notin in0) /\ (j = l + 1 => f \notin in1)
        <4>1. ASSUME NEW g \in in0, g \in files[l], x \in g PROVE FALSE
          <5>0. l \in Levels /\ f \in files[j] /\ x \in f
            BY <1>1, <3>1, <3>3
          <5>1. j = l /\ f = g
            BY <4>1, <5>0, EntryOnce
          <5> QED
            BY <3>3, <4>1, <5>1
        <4>2. ASSUME NEW g \in in1, g \in files[l + 1], x \in g PROVE FALSE
          <5>1. j = l + 1 /\ f = g
            BY <1>1, <3>1, <3>3, <4>2, EntryOnce
          <5> QED
            BY <3>3, <4>2, <5>1
        <4> QED
          BY <1>e, <1>1, <2>1, <3>1, <3>3, <4>1, <4>2
      <3> QED
        BY <1>4, <3>1, <3>2, <3>3
    <2>4. ASSUME NEW x \in InFiles, x \notin E PROVE x \in InFiles'
      <3>0. PICK j \in Levels : \E f \in files[j] : x \in f
        BY <2>1, <2>4
      <3>1. PICK f \in files[j] : x \in f
        BY <3>0
      <3>2. f \notin in0 /\ f \notin in1
        BY <1>e, <2>4, <3>1
      <3>3. f \in files'[j]
        BY <1>3, <3>1, <3>2
      <3> QED
        BY <2>2, <3>1, <3>3
    <2>5. ASSUME NEW f \in new PROVE f \in files'[l + 1]
      <3>1. files'[l + 1] = (files[l + 1] \ in1) \cup new
        BY <1>1, <1>3
      <3> QED
        BY <2>5, <3>1
    <2>6. UNION new \subseteq InFiles'
      BY <1>1, <2>2, <2>5
    <2> QED
      BY <2>3, <2>4, <2>6
  <1>8. OrderInv'
    <2>1. InFiles' \subseteq InFiles
      <3>1. E \subseteq InFiles
        BY <1>1 DEF InFiles
      <3> QED
        BY <1>e, <1>7, <3>1
    <2>2. /\ \A e \in mem', x \in imm' \cup InFiles' : x < e
          /\ \A e \in imm', x \in InFiles' : x < e
      BY <2>1 DEF OrderInv
    <2>3. files'[0] \subseteq files[0]
      BY <1>1, <1>3
    <2>4. \A f, g \in files'[0] : f # g => (\A e \in f, x \in g : e < x) \/ (\A e \in f, x \in g : x < e)
      BY <2>3 DEF OrderInv
    <2>5. ASSUME NEW i \in Levels, NEW j \in Levels, i < j, NEW f \in files'[i], NEW g \in files'[j],
                 NEW e \in f, NEW x \in g, Key(e) = Key(x)
          PROVE  x < e
      <3>1. CASE f \in files[i] /\ (i = l => f \notin in0) /\ g \in files[j]
        BY <2>5, <3>1 DEF OrderInv
      <3>2. CASE f \in files[i] /\ (i = l => f \notin in0) /\ j = l + 1 /\ g \in new
        <4>1. x \in E /\ e \in Entries
          BY <1>5, <3>2 DEF TableTypes
        <4>2. CASE i = l
          BY <1>2, <2>5, <3>2, <4>1, <4>2
        <4>3. CASE i # l
          <5>1. i < l /\ i < l + 1
            <6>1. i \in Nat /\ i < l + 1
              BY <1>1, <2>5, <3>2
            <6> QED
              BY <1>1, <4>3, <6>1
          <5>2. PICK h \in files[l] \cup files[l + 1] : x \in h
            BY <1>1, <4>1
          <5> QED
            BY <1>1, <2>5, <3>2, <5>1, <5>2 DEF OrderInv
        <4> QED
          BY <4>2, <4>3
      <3>3. CASE i = l + 1 /\ f \in new /\ g \in files[j]
        <4>1. e \in E /\ l < j /\ l + 1 < j
          <5>1. f \in SUBSET E
            BY <1>5, <3>3
          <5>2. j \in Nat /\ l \in Nat /\ l + 1 < j
            BY <1>1, <2>5, <3>3 DEF Levels
          <5>3. l < j
            BY <5>2
          <5>4. e \in E
            BY <2>5, <5>1
          <5> QED
            BY <5>2, <5>3, <5>4
        <4>2. PICK h \in files[l] \cup files[l + 1] : e \in h
          BY <1>1, <4>1
        <4> QED
          BY <1>1, <2>5, <3>3, <4>1, <4>2 DEF OrderInv
      <3>4. ~(i = l + 1 /\ j = l + 1)
        BY <1>1, <2>5
      <3> QED
        BY <1>4, <3>1, <3>2, <3>3, <3>4
    <2>6. \A e : Key(e)' = Key(e)
      BY DEF Key
    <2> QED
      BY <2>2, <2>4, <2>5, <2>6 DEF OrderInv, Levels
  <1>9. SortedInv'
    <2> SUFFICES ASSUME NEW j \in Levels \ {0}, NEW f \in files'[j], NEW g \in files'[j], f # g
                 PROVE  Apart(f, g) /\ \A e \in f, x \in g : Key(e) = Key(x) => Key(e) \in SplitKeys
      BY DEF SortedInv, Apart, Follow, Precedes, Key, Levels
    <2>1. CASE f \in files[j] /\ g \in files[j]
      BY <2>1 DEF SortedInv
    <2>2. ASSUME NEW h \in files[l + 1], h \notin in1, NEW t \in new
          PROVE  /\ Apart(h, t) /\ Apart(t, h)
                 /\ \A e \in h, x \in t : Key(e) = Key(x) => Key(e) \in SplitKeys
                 /\ \A e \in t, x \in h : Key(e) = Key(x) => Key(e) \in SplitKeys
      <3>1. (Follow(E, h) \/ Follow(h, E)) /\ \A e \in E, x \in h : Key(e) = Key(x) => Key(e) \in SplitKeys
        BY <1>2, <2>2
      <3>2. t \subseteq E
        BY <1>5
      <3>3. Follow(t, h) \/ Follow(h, t)
        BY <3>1, <3>2 DEF Follow
      <3>4. \A e \in t, x \in h : Key(e) = Key(x) => Key(e) \in SplitKeys
        BY <3>1, <3>2
      <3> QED
        BY <3>3, <3>4 DEF Apart
    <2>3. CASE j = l + 1 /\ f \in files[j] /\ f \notin in1 /\ g \in new
      BY <2>2, <2>3
    <2>4. CASE j = l + 1 /\ f \in new /\ g \in files[j] /\ g \notin in1
      BY <2>2, <2>4
    <2>5. CASE f \in new /\ g \in new
      BY <2>5 DEF Parted
    <2>6. /\ (f \in files[j] /\ (j = l + 1 => f \notin in1)) \/ (j = l + 1 /\ f \in new)
          /\ (g \in files[j] /\ (j = l + 1 => g \notin in1)) \/ (j = l + 1 /\ g \in new)
      BY <1>4
    <2> QED
      BY <2>1, <2>3, <2>4, <2>5, <2>6
  <1> QED
    BY <1>e, <1>6, <1>7, <1>8, <1>9

\* Of what is held, a merge drops only what no reader sees: an entry hidden by one that every
\* reader sees, and a deletion with nothing of its key below.
LEMMA MergeHolds ==
  ASSUME IInv, NEW l, NEW in0, NEW in1, Inputs(l, in0, in1), NEW E, E = UNION (in0 \cup in1)
  PROVE  Holds((All \ E) \cup (E \ Dropped(l, E, SmallestSnapshot)))
  <1> USE DEF IInv
  <1>1. EntriesOf(l, in0, in1, E)
    BY InputsInOrder
  <1>2. /\ l \in Levels /\ l + 1 \in Levels /\ l + 1 # 0 /\ l \in Nat /\ E \in SUBSET Entries
        /\ \A x \in E : (\E f \in in0 : f \in files[l] /\ x \in f) \/ (\E f \in in1 : f \in files[l + 1] /\ x \in f)
    BY <1>1 DEF EntriesOf
  <1>3. PICK S : S = (All \ E) \cup (E \ Dropped(l, E, SmallestSnapshot))
    OBVIOUS
  <1>4. PICK o : o = SmallestSnapshot
    OBVIOUS
  <1>5. Len(hist) \in Nat /\ \A s \in snapshots \cup {Len(hist)} : s \in Nat /\ s <= Len(hist)
    BY DEF HistoryTypes, TableTypes
  <1>6. o \in Nat /\ \A s \in snapshots \cup {Len(hist)} : o <= s
    <2>1. CASE snapshots = {}
      BY <1>4, <1>5, <2>1 DEF SmallestSnapshot
    <2>2. CASE snapshots # {}
      <3>1. snapshots \in SUBSET Int /\ 0 \in Int /\ \A s \in snapshots : 0 <= s
        BY <1>5
      <3>2. Min(snapshots) \in snapshots /\ \A s \in snapshots : Min(snapshots) <= s
        BY <2>2, <3>1, LeastInteger
      <3> QED
        BY <1>4, <1>5, <2>2, <3>2 DEF SmallestSnapshot
    <2> QED
      BY <2>1, <2>2
  <1>7. E \subseteq All /\ S \subseteq All /\ All \subseteq Entries
    BY <1>2, <1>3 DEF All, InFiles, TableTypes
  <1>8. \A e \in Entries : e \in Nat /\ Key(e) \in Nat /\ Key(e) \in Keys
    BY Ranks
  <1> SUFFICES ASSUME NEW s \in snapshots \cup {Len(hist)}, NEW e \in Entries, Newest(e, s), Key(e) \in ReadKeys,
                      e \notin S
               PROVE  hist[e].kind = "deletion" /\ \A x \in S : Key(x) = Key(e) => ~(x <= s)
    BY <1>3 DEF Holds
  <1>9. CASE e \notin All
    BY <1>7, <1>9 DEF Holds
  <1>10. CASE e \in All
    <2>1. e \in E /\ e \in Dropped(l, E, o)
      BY <1>3, <1>4, <1>10
    <2>2. ~\E n \in E : n > e /\ n <= o /\ hist[n].key = hist[e].key
      <3> SUFFICES ASSUME NEW n \in E, n > e, n <= o, Key(n) = Key(e) PROVE FALSE
        BY DEF Key
      <3>1. n \in Entries /\ n <= s
        BY <1>2, <1>5, <1>6, <1>8
      <3> QED
        BY <1>8, <3>1 DEF Newest
    <2>3. hist[e].kind = "deletion" /\ e <= o /\ IsBaseLevelForKey(l, Key(e))
      BY <2>1, <2>2 DEF Dropped, Key
    <2> SUFFICES ASSUME NEW x \in S, Key(x) = Key(e), x <= s PROVE FALSE
      BY <2>3
    <2>4. x \in Entries /\ x \in All /\ x < e
      <3>1. x \in Entries /\ x # e
        BY <1>7
      <3>2. x <= e
        BY <3>1 DEF Newest
      <3> QED
        BY <1>7, <1>8, <3>1, <3>2
    <2>5. x \notin E
      <3> SUFFICES ASSUME x \in E PROVE FALSE
        OBVIOUS
      <3>1. x \in Dropped(l, E, o)
        BY <2>1, <2>3, <2>4 DEF Dropped, Key
      <3> QED
        BY <1>3, <1>4, <3>1
    <2>6. PICK i \in Levels : (i = l \/ i = l + 1) /\ \E f \in files[i] : e \in f /\ (i = l => f \in in0) /\ (i = l + 1 => f \in in1)
      BY <1>2, <2>1
    <2>7. PICK f \in files[i] : e \in f /\ (i = l => f \in in0) /\ (i = l + 1 => f \in in1)
      BY <2>6
    <2>8. e \in InFiles
      BY <2>7 DEF InFiles
    <2>9. x \in InFiles
      BY <1>8, <2>4, <2>8 DEF OrderInv, All
    <2>10. PICK j \in Levels : \E g \in files[j] : x \in g
      BY <2>9 DEF InFiles
    <2>11. PICK g \in files[j] : x \in g
      BY <2>10
    <2>12. g \notin in0 /\ g \notin in1
      BY <2>5, <2>11
    <2>13. j \in Nat /\ i \in Nat /\ ~(j < i)
      <3>1. j < i => e < x
        BY <2>7, <2>11 DEF OrderInv
      <3> QED
        BY <1>8, <2>4, <3>1 DEF Levels
    <2>14. CASE j = l
      <3>1. i = l /\ f \in in0
        BY <1>2, <2>6, <2>7, <2>13, <2>14
      <3>2. e < x
        BY <2>7, <2>11, <2>12, <2>14, <3>1 DEF Inputs
      <3> QED
        BY <1>8, <2>4, <3>2
    <2>15. CASE j = l + 1
      <3>1. \A y \in E, z \in g : Key(y) = Key(z) => Key(y) \in SplitKeys
        BY <1>1, <2>12, <2>15 DEF EntriesOf
      <3>2. Key(e) \in SplitKeys
        BY <2>1, <2>11, <3>1
      <3>3. Key(e) \in DeletedKeys
        BY <2>3 DEF HistoryTypes
      <3> QED
        BY <3>2, <3>3 DEF ReadKeys
    <2>16. CASE j > l + 1
      <3>1. j \in l + 2 .. NumLevels - 1
        BY <1>2, <2>13, <2>16, ConstantsAssumption DEF Levels
      <3>2. Overlapping(files[j], Key(e), Key(e)) = {}
        BY <2>3, <3>1 DEF IsBaseLevelForKey, OverlapInLevel
      <3>3. g \in SUBSET Entries /\ g # {} /\ Key(e) \in Keys
        BY <1>8, <2>11 DEF TableTypes
      <3>4. ~(\A y \in g : Key(y) < Key(e)) /\ ~(\A y \in g : Key(y) > Key(e))
        BY <1>8, <2>11
      <3>5. Hi(g) >= Key(e) /\ Lo(g) <= Key(e)
        BY <3>3, <3>4, Overlaps
      <3> QED
        BY <2>11, <3>2, <3>5 DEF Overlapping
    <2>17. j = l \/ j = l + 1 \/ j > l + 1
      BY <1>2, <2>6, <2>13
    <2> QED
      BY <2>14, <2>15, <2>16, <2>17
  <1> QED
    BY <1>9, <1>10

\* A compaction starts to merge its inputs.
LEMMA StartStep ==
  ASSUME IInv, NEW l, NEW in0, NEW in1, Inputs(l, in0, in1), StartWork(l, in0, in1, FALSE),
         UNCHANGED <<hist, mem, imm, files, snapshots, manual>>
  PROVE  IInv'
  <1> USE DEF IInv
  <1>1. PICK E : E = UNION (in0 \cup in1)
    OBVIOUS
  <1>2. PICK kept : kept = E \ Dropped(l, E, SmallestSnapshot)
    OBVIOUS
  <1>3. job' = [level |-> l, in0 |-> in0, in1 |-> in1, manual |-> FALSE, kept |-> kept]
    BY <1>1, <1>2 DEF StartWork
  <1>4. HistoryTypes' /\ TableTypes'
    BY DEF HistoryTypes, TableTypes, Entries, Key
  <1>5. HistoryGoesOn
    BY DEF HistoryGoesOn, Entries
  <1>6. InFiles' = InFiles /\ All' = All
    BY DEF InFiles, All
  <1>7. SortedInv' /\ Inputs(l, in0, in1)'
    BY <1>5, SameFiles
  <1>8. OrderInv'
    BY <1>5, <1>6, SameFiles DEF OrderInv
  <1>9. \A S : Holds(S) => Holds(S)'
    BY HoldsOn
  <1>10. Holds((All \ E) \cup kept)
    BY <1>1, <1>2, MergeHolds
  <1>11. JobInv'
    <2>1. job'.level = l /\ job'.in0 = in0 /\ job'.in1 = in1 /\ job'.kept = kept /\ job'.manual = FALSE
      BY <1>3
    <2>2. PICK S : S = (All \ E) \cup kept
      OBVIOUS
    <2>3. Holds(S)'
      BY <1>9, <1>10, <2>2
    <2>4. ((All \ UNION (job.in0 \cup job.in1)) \cup job.kept)' = S
      BY <1>1, <1>6, <2>1, <2>2
    <2>5. Holds((All \ UNION (job.in0 \cup job.in1)) \cup job.kept)'
      BY <2>3, <2>4
    <2>6. job'.kept \subseteq UNION (job'.in0 \cup job'.in1)
      BY <1>1, <1>2, <2>1
    <2>7. Inputs(job.level, job.in0, job.in1)'
      BY <1>7, <2>1
    <2> QED
      BY <2>1, <2>5, <2>6, <2>7 DEF JobInv
  <1> QED
    BY <1>4, <1>6, <1>7, <1>8, <1>9, <1>11

\* The outputs of a merge take the place of its inputs.
LEMMA InstallStep ==
  ASSUME IInv, InstallCompactionResults
  PROVE  IInv'
  <1> USE DEF IInv
  <1>1. PICK l, in0, in1, kept : l = job.level /\ in0 = job.in0 /\ in1 = job.in1 /\ kept = job.kept
    OBVIOUS
  <1>2. PICK E : E = UNION (in0 \cup in1)
    OBVIOUS
  <1>3. Inputs(l, in0, in1) /\ ~job.manual /\ kept \subseteq E /\ Holds((All \ E) \cup kept)
    BY <1>1, <1>2 DEF InstallCompactionResults, JobInv
  <1>4. PICK new \in Outputs(kept) : files' = Replace(l, in0, in1, new)
    BY <1>1 DEF InstallCompactionResults
  <1>5. hist' = hist /\ mem' = mem /\ imm' = imm /\ snapshots' = snapshots /\ job' = None /\ manual' = None
    BY <1>3 DEF InstallCompactionResults
  <1>6. EntriesOf(l, in0, in1, E)
    BY <1>2, <1>3, InputsInOrder
  <1>7. E \in SUBSET Entries /\ kept \in SUBSET Entries
    BY <1>3, <1>6 DEF EntriesOf
  <1>8. UNION new = kept /\ Tables(new) /\ Parted(new)
    BY <1>7, OutputTables
  <1>9. TableTypes' /\ OrderInv' /\ SortedInv' /\ InFiles' = (InFiles \ E) \cup kept
    <2>1. UNION new \subseteq E
      BY <1>3, <1>8
    <2>2. TableTypes' /\ OrderInv' /\ SortedInv' /\ InFiles' = (InFiles \ E) \cup UNION new
      BY <1>2, <1>3, <1>4, <1>5, <1>8, <2>1, Replaced DEF Moves
    <2> QED
      BY <1>8, <2>2
  <1>10. All' = (All \ E) \cup kept
    <2>1. E \subseteq InFiles
      BY <1>6 DEF EntriesOf, InFiles
    <2>2. \A x \in mem \cup imm : x \notin E
      BY <1>7, <2>1, Ranks DEF OrderInv, TableTypes
    <2> QED
      BY <1>5, <1>9, <2>2 DEF All
  <1>11. Holds(All)'
    <2>1. PICK S : S = (All \ E) \cup kept
      OBVIOUS
    <2>2. Holds(S)'
      BY <1>3, <1>5, <2>1, HoldsOn
    <2> QED
      BY <1>10, <2>1, <2>2
  <1>12. HistoryTypes'
    BY <1>5 DEF HistoryTypes, Entries, Key
  <1> QED
    BY <1>5, <1>9, <1>11, <1>12 DEF JobInv

\* A lone table is moved to the next level.
LEMMA MoveStep ==
  ASSUME IInv, NEW l, NEW in0, NEW in1, Inputs(l, in0, in1), IsTrivialMove(in0, in1),
         files' = Replace(l, in0, in1, in0), job' = None,
         UNCHANGED <<hist, mem, imm, snapshots, manual>>
  PROVE  IInv'
  <1> USE DEF IInv
  <1>1. EntriesOf(l, in0, in1, UNION (in0 \cup in1))
    BY InputsInOrder
  <1>2. in1 = {} /\ in0 \in SUBSET files[l] /\ l \in Levels
    BY <1>1 DEF IsTrivialMove, Inputs, EntriesOf
  <1>3. \E f : in0 = {f}
    <2>1. Len(hist) \in Int
      BY DEF HistoryTypes
    <2>2. IsFiniteSet(Entries)
      BY <2>1, FS_Interval DEF Entries
    <2>3. in0 \in SUBSET SUBSET Entries
      BY <1>2 DEF TableTypes
    <2>4. IsFiniteSet(in0)
      BY <2>2, <2>3, FS_SUBSET, FS_Subset
    <2> QED
      BY <2>4, FS_Singleton DEF IsTrivialMove
  <1>4. Moves(l, in0, in1, in0)
    <2>1. Tables(in0)
      BY <1>2, VersionTables
    <2>2. Parted(in0)
      BY <1>3 DEF Parted
    <2> QED
      BY <2>1, <2>2 DEF Moves
  <1>5. TableTypes' /\ OrderInv' /\ SortedInv' /\ InFiles' = (InFiles \ UNION (in0 \cup in1)) \cup UNION in0
    BY <1>4, Replaced
  <1>6. All' = All
    <2>1. UNION in0 \subseteq InFiles
      BY <1>2 DEF InFiles
    <2>2. InFiles' = InFiles
      BY <1>2, <1>5, <2>1
    <2> QED
      BY <2>2 DEF All
  <1>7. Holds(All)'
    <2>1. PICK S : S = All
      OBVIOUS
    <2>2. Holds(S)'
      BY <2>1, HoldsOn
    <2> QED
      BY <1>6, <2>1, <2>2
  <1>8. HistoryTypes'
    BY DEF HistoryTypes, Entries, Key
  <1> QED
    BY <1>5, <1>7, <1>8 DEF JobInv

\* A compaction is picked: its inputs are set up, and it is a move or starts to merge.
LEMMA PickStep ==
  ASSUME IInv, PickCompaction
  PROVE  IInv'
  <1>1. PICK l \in 0 .. NumLevels - 2 : \E f \in files[l] : \E in \in SetupOtherInputs(l, StartTables(l, f)) :
           \/ /\ MustMerge(l, in[1], in[2])
              /\ StartWork(l, in[1], in[2], FALSE)
              /\ UNCHANGED files
           \/ /\ IsTrivialMove(in[1], in[2])
              /\ files' = Replace(l, in[1], {}, in[1])
              /\ job' = None
    BY DEF PickCompaction, StartTables
  <1>2. PICK f \in files[l] : \E in \in SetupOtherInputs(l, StartTables(l, f)) :
           \/ /\ MustMerge(l, in[1], in[2])
              /\ StartWork(l, in[1], in[2], FALSE)
              /\ UNCHANGED files
           \/ /\ IsTrivialMove(in[1], in[2])
              /\ files' = Replace(l, in[1], {}, in[1])
              /\ job' = None
    BY <1>1
  <1>3. PICK in \in SetupOtherInputs(l, StartTables(l, f)) :
           \/ /\ MustMerge(l, in[1], in[2])
              /\ StartWork(l, in[1], in[2], FALSE)
              /\ UNCHANGED files
           \/ /\ IsTrivialMove(in[1], in[2])
              /\ files' = Replace(l, in[1], {}, in[1])
              /\ job' = None
    BY <1>2
  <1>4. PICK in0, in1 : in0 = in[1] /\ in1 = in[2]
    OBVIOUS
  <1>5. Inputs(l, in0, in1)
    BY <1>4, ChosenInputs DEF IInv
  <1>6. UNCHANGED <<hist, mem, imm, snapshots, manual>>
    BY DEF PickCompaction
  <1>7. CASE StartWork(l, in0, in1, FALSE) /\ UNCHANGED files
    BY <1>5, <1>6, <1>7, StartStep
  <1>8. CASE IsTrivialMove(in0, in1) /\ files' = Replace(l, in0, {}, in0) /\ job' = None
    <2>1. in1 = {}
      BY <1>8 DEF IsTrivialMove
    <2> QED
      BY <1>5, <1>6, <1>8, <2>1, MoveStep
  <1> QED
    BY <1>3, <1>4, <1>7, <1>8

\* Every step preserves the invariant: without a client's CompactRange the manual steps are not taken.
LEMMA NextStep ==
  ASSUME NoManual, IInv, [Next]_vars
  PROVE  IInv'
  <1>1. CASE \E k \in Keys : \E kind \in Kinds(k) : Write(k, kind)
    BY <1>1, WriteStep
  <1>2. CASE SwitchMemTable
    BY <1>2, SwitchStep
  <1>3. CASE GetSnapshot
    BY <1>3, SnapshotStep
  <1>4. CASE \E s \in snapshots : ReleaseSnapshot(s)
    BY <1>4, SnapshotStep
  <1>5. CASE CompactMemTable
    BY <1>5, FlushStep
  <1>6. CASE PickCompaction
    BY <1>6, PickStep
  <1>7. CASE \E r \in ManualRanges : CompactRange(r)
    BY <1>7 DEF NoManual
  <1>8. CASE ManualCompaction
    BY <1>8 DEF ManualCompaction, IInv
  <1>9. CASE InstallCompactionResults
    BY <1>9, InstallStep
  <1>10. CASE UNCHANGED vars
    <2>1. /\ hist' = hist /\ mem' = mem /\ imm' = imm /\ files' = files /\ snapshots' = snapshots
          /\ job' = job /\ manual' = manual
      BY <1>10 DEF vars
    <2>2. HistoryTypes' /\ TableTypes' /\ HistoryGoesOn
      BY <2>1 DEF IInv, HistoryTypes, TableTypes, Entries, Key, HistoryGoesOn
    <2>3. InFiles' = InFiles /\ All' = All
      BY <2>1 DEF InFiles, All
    <2>4. SortedInv'
      BY <2>1, <2>2, SameFiles DEF IInv
    <2>5. OrderInv'
      BY <2>1, <2>2, <2>3, SameFiles DEF IInv, OrderInv
    <2>6. \A S : Holds(S) => Holds(S)'
      BY <2>1, HoldsOn
    <2>7. JobInv'
      BY <2>1, <2>2, <2>3, <2>6, SameFiles DEF IInv, JobInv
    <2> QED
      BY <2>1, <2>2, <2>3, <2>4, <2>5, <2>6, <2>7 DEF IInv
  <1> QED
    BY <1>1, <1>2, <1>3, <1>4, <1>5, <1>6, <1>7, <1>8, <1>9, <1>10 DEF Next

LEMMA Invariant ==
  ASSUME NoManual
  PROVE  Spec => []IInv
  <1>1. Init => IInv
    BY InitStep
  <1>2. IInv /\ [Next]_vars => IInv'
    BY NextStep
  <1> QED
    BY <1>1, <1>2, PTL DEF Spec

-----------------------------------------------------------------------------
(* Levels stay disjoint *)

LEMMA SortedLevels ==
  ASSUME HistoryTypes, TableTypes, SortedInv
  PROVE  LevelsDisjoint
  <1> SUFFICES ASSUME NEW l \in 1 .. NumLevels - 1, NEW f \in files[l], NEW g \in files[l], f # g
               PROVE  LastRank(f) < FirstRank(g) \/ LastRank(g) < FirstRank(f)
    BY DEF LevelsDisjoint
  <1>1. l \in Levels \ {0}
    BY ConstantsAssumption DEF Levels
  <1>2. f \in SUBSET Entries /\ f # {} /\ g \in SUBSET Entries /\ g # {}
    BY <1>1 DEF TableTypes
  <1>3. ASSUME NEW h \in SUBSET Entries, h # {}, NEW i \in SUBSET Entries, i # {}, Follow(h, i)
        PROVE  LastRank(h) < FirstRank(i)
    <2>1. PICK z \in h : LastRank(h) = EntryRank(z)
      BY <1>3, TableRange
    <2>2. PICK a \in i : FirstRank(i) = EntryRank(a)
      BY <1>3, TableRange
    <2>3. Precedes(z, a)
      BY <1>3 DEF Follow
    <2> QED
      BY <2>1, <2>2, <2>3, Ranks
  <1>4. Follow(f, g) \/ Follow(g, f)
    BY <1>1 DEF SortedInv, Apart
  <1> QED
    BY <1>2, <1>3, <1>4

-----------------------------------------------------------------------------
(* What a read finds *)

\* P is the part of Q that a read of k at s looks at: no hit in Q is newer than those in P.
Finds(P, Q, k, s) ==
  P \subseteq Q /\ \A e \in Hits(Q, k, s) : \E x \in Hits(P, k, s) : e <= x

\* Of level 0 the newest table with a hit is enough.
LEMMA Level0Finds ==
  ASSUME HistoryTypes, TableTypes, OrderInv, NEW k \in Keys, NEW s \in 0 .. Len(hist)
  PROVE  Finds(NewestLevel0(k, s), UNION files[0], k, s)
  <1> DEFINE F == {f \in files[0] : Hits(f, k, s) # {}}
             P == NewestLevel0(k, s)
  <1>1. 0 \in Levels /\ Len(hist) \in Nat /\ Len(hist) \in Int
    BY ConstantsAssumption DEF Levels, HistoryTypes
  <1>2. \A f \in files[0] : f \in SUBSET Entries /\ f # {}
    BY <1>1 DEF TableTypes
  <1>3. \A f \in files[0] : Max(f) \in f /\ Max(f) \in Nat /\ Max(f) <= Len(hist) /\ \A e \in f : e \in Nat /\ e <= Max(f)
    <2> TAKE f \in files[0]
    <2>1. f \in SUBSET Int /\ f # {} /\ \A e \in f : e \in Nat /\ e <= Len(hist)
      BY <1>1, <1>2 DEF Entries
    <2>2. f \in SUBSET Int /\ f # {} /\ \A e \in f : e <= Len(hist)
      BY <2>1
    <2>3. Max(f) \in f /\ \A e \in f : e <= Max(f)
      BY <1>1, <2>2, GreatestInteger
    <2> QED
      BY <2>1, <2>3
  <1>4. CASE F = {}
    <2>1. P = {}
      BY <1>4 DEF NewestLevel0
    <2>2. Hits(UNION files[0], k, s) = {}
      BY <1>4 DEF Hits
    <2> QED
      BY <2>1, <2>2 DEF Finds
  <1>5. CASE F # {}
    <2>1. \E f \in F : \A g \in F : Max(f) >= Max(g)
      <3> DEFINE M == {Max(f) : f \in F}
      <3>0. \A f \in F : Max(f) \in Int /\ Max(f) <= Len(hist)
        BY <1>3
      <3>1. M \in SUBSET Int /\ M # {} /\ \A m \in M : m <= Len(hist)
        BY <1>5, <3>0
      <3> HIDE DEF M
      <3>2. Max(M) \in M /\ \A m \in M : m <= Max(M)
        BY <1>1, <3>1, GreatestInteger
      <3>3. PICK f \in F : Max(M) = Max(f)
        BY <3>2 DEF M
      <3>4. \A g \in F : Max(f) >= Max(g)
        <4> TAKE g \in F
        <4>1. Max(g) \in M
          BY DEF M
        <4>2. Max(g) <= Max(f)
          BY <3>2, <3>3, <4>1
        <4> QED
          BY <1>3, <4>2
      <3> QED
        BY <3>4
    <2>2. P = CHOOSE f \in F : \A g \in F : Max(f) >= Max(g)
      BY <1>5 DEF NewestLevel0
    <2>3. P \in F /\ \A g \in F : Max(P) >= Max(g)
      BY <2>1, <2>2
    <2>4. ASSUME NEW e \in Hits(UNION files[0], k, s) PROVE \E x \in Hits(P, k, s) : e <= x
      <3>1. PICK g \in files[0] : e \in g /\ e \in Hits(g, k, s)
        BY DEF Hits
      <3>2. g \in F /\ P \in files[0]
        BY <2>3, <3>1
      <3>3. CASE P = g
        BY <1>3, <3>1, <3>3
      <3>4. CASE P # g
        <4>1. PICK x \in Hits(P, k, s) : TRUE
          BY <2>3
        <4>2. x \in P
          BY DEF Hits
        <4>3. (\A a \in P, b \in g : a < b) \/ (\A a \in P, b \in g : b < a)
          BY <3>2, <3>4 DEF OrderInv
        <4>4. ~(Max(P) < Max(g)) /\ Max(P) \in P /\ Max(g) \in g
          BY <1>3, <2>3, <3>2
        <4>5. e < x
          BY <3>1, <4>2, <4>3, <4>4
        <4> QED
          BY <1>3, <3>1, <3>2, <4>2, <4>5
      <3> QED
        BY <3>3, <3>4
    <2>5. P \subseteq UNION files[0]
      BY <2>3
    <2> QED
      BY <2>4, <2>5 DEF Finds
  <1> QED
    BY <1>4, <1>5

\* Below, the first table that ends at or after the key is enough, as the level is sorted.
LEMMA FileFinds ==
  ASSUME HistoryTypes, TableTypes, SortedInv, NEW k \in Keys, NEW s \in 0 .. Len(hist),
         NEW l \in Levels \ {0}
  PROVE  Finds(FindFile(l, k, s), UNION files[l], k, s)
  <1> DEFINE F == {f \in files[l] : LastRank(f) >= Rank(k, s)}
             p == CHOOSE g \in F : \A h \in F : LastRank(g) <= LastRank(h)
             P == FindFile(l, k, s)
  <1>1. \A f \in files[l] : f \in SUBSET Entries /\ f # {}
    BY DEF TableTypes
  <1>2. /\ \A e \in Entries : Key(e) \in Nat /\ e \in Nat /\ EntryRank(e) \in Nat
        /\ \A e, x \in Entries : EntryRank(e) < EntryRank(x) <=> Precedes(e, x)
        /\ \A e \in Entries : EntryRank(e) < Rank(k, s) <=> Key(e) < k \/ (Key(e) = k /\ e > s)
        /\ k \in Nat /\ s \in Nat
    BY Ranks, ConstantsAssumption
  <1>3. \A f \in files[l] : /\ LastRank(f) \in Nat
                            /\ Lo(f) \in Nat /\ \A e \in f : Lo(f) <= Key(e)
                            /\ \E z \in f : LastRank(f) = EntryRank(z) /\ \A e \in f : z = e \/ Precedes(e, z)
    <2> TAKE f \in files[l]
    <2>1. /\ \E z \in f : LastRank(f) = EntryRank(z) /\ \A e \in f : z = e \/ Precedes(e, z)
          /\ Lo(f) \in Keys /\ \A e \in f : Lo(f) <= Key(e)
      BY <1>1, TableRange
    <2>2. LastRank(f) \in Nat
      BY <1>1, <1>2, <2>1
    <2> QED
      BY <2>1, <2>2, ConstantsAssumption
  <1>4. Rank(k, s) \in Nat
    <2>1. MaxSeq \in Nat /\ Len(hist) \in Nat /\ Len(hist) <= MaxSeq
      BY ConstantsAssumption DEF HistoryTypes
    <2>2. s \in 0 .. MaxSeq
      BY <2>1
    <2> QED
      BY <1>2, <2>1, <2>2, RankOrder DEF Rank
  <1>5. F # {} => p \in F /\ \A h \in F : LastRank(p) <= LastRank(h)
    <2> SUFFICES ASSUME F # {} PROVE \E g \in F : \A h \in F : LastRank(g) <= LastRank(h)
      OBVIOUS
    <2> DEFINE R == {LastRank(f) : f \in F}
    <2>1. R \in SUBSET Nat /\ R # {}
      BY <1>3
    <2> HIDE DEF R
    <2>2. PICK m \in R : \A n \in R : m <= n
      BY <2>1, LeastNatural
    <2>3. PICK g \in F : m = LastRank(g)
      BY DEF R
    <2>4. \A h \in F : LastRank(g) <= LastRank(h)
      BY <2>2, <2>3 DEF R
    <2> QED
      BY <2>4
  <1>6. P = IF F = {} THEN {} ELSE IF Lo(p) > k THEN {} ELSE p
    BY DEF FindFile
  <1> HIDE DEF p
  <1>7. P \subseteq UNION files[l]
    BY <1>5, <1>6
  <1>8. ASSUME NEW e \in Hits(UNION files[l], k, s) PROVE \E x \in Hits(P, k, s) : e <= x
    <2>1. PICK g \in files[l] : e \in g /\ e <= s /\ Key(e) = k
      BY DEF Hits, Key
    <2>2. e \in Entries
      BY <1>1, <2>1
    <2>3. LastRank(g) >= Rank(k, s)
      <3>1. PICK z \in g : LastRank(g) = EntryRank(z) /\ (z = e \/ Precedes(e, z))
        BY <1>3, <2>1
      <3>2. EntryRank(e) <= EntryRank(z) /\ ~(EntryRank(e) < Rank(k, s))
        <4>1. z \in Entries
          BY <1>1, <3>1
        <4>2. z = e \/ EntryRank(e) < EntryRank(z)
          BY <1>2, <2>2, <3>1, <4>1
        <4>3. EntryRank(e) \in Nat /\ EntryRank(z) \in Nat
          BY <1>2, <2>2, <4>1
        <4>4. ~(EntryRank(e) < Rank(k, s))
          BY <1>2, <2>1, <2>2
        <4> QED
          BY <4>2, <4>3, <4>4
      <3>3. z \in Entries
        BY <1>1, <3>1
      <3> QED
        BY <1>2, <1>4, <2>2, <3>1, <3>2, <3>3
    <2>4. g \in F
      BY <2>3
    <2>5. p \in files[l] /\ LastRank(p) >= Rank(k, s) /\ LastRank(p) <= LastRank(g) /\ F # {}
      BY <1>5, <2>4
    <2>6. \E x \in p : Key(x) = k /\ x <= s /\ e <= x
      <3>1. CASE p = g
        BY <1>2, <2>1, <2>2, <3>1
      <3>2. CASE p # g
        <4>1. PICK z \in p : LastRank(p) = EntryRank(z)
          BY <1>3, <2>5
        <4>2. PICK y \in g : LastRank(g) = EntryRank(y)
          BY <1>3
        <4>3. z \in Entries /\ y \in Entries
          BY <1>1, <2>5, <4>1, <4>2
        <4>4. ~(EntryRank(y) < EntryRank(z)) /\ ~(EntryRank(z) < Rank(k, s))
          <5>1. EntryRank(y) \in Nat /\ EntryRank(z) \in Nat
            BY <1>2, <4>3
          <5>2. EntryRank(z) <= EntryRank(y) /\ EntryRank(z) >= Rank(k, s)
            BY <2>5, <4>1, <4>2
          <5> QED
            BY <1>4, <5>1, <5>2
        <4>5. Apart(p, g)
          BY <2>5, <3>2 DEF SortedInv
        <4>6. Precedes(z, e)
          <5>1. ~Precedes(y, z)
            BY <1>2, <4>3, <4>4
          <5>2. Follow(p, g)
            BY <4>1, <4>2, <4>5, <5>1 DEF Apart, Follow
          <5> QED
            BY <2>1, <4>1, <5>2 DEF Follow
        <4>7. ~(Key(z) < k \/ (Key(z) = k /\ z > s))
          BY <1>2, <4>3, <4>4
        <4> QED
          BY <1>2, <2>1, <2>2, <4>1, <4>3, <4>6, <4>7 DEF Precedes
      <3> QED
        BY <3>1, <3>2
    <2>7. PICK x \in p : Key(x) = k /\ x <= s /\ e <= x
      BY <2>6
    <2>8. Lo(p) <= k
      BY <1>3, <2>5, <2>7
    <2>9. P = p
      BY <1>2, <1>3, <1>6, <2>5, <2>8
    <2> QED
      BY <2>7, <2>9 DEF Hits, Key
  <1> QED
    BY <1>7, <1>8 DEF Finds

\* Where a read looks, in the order it looks.
Layer(i) == CASE i = 1 -> mem [] i = 2 -> imm [] OTHER -> UNION files[i - 3]
Place(k, s) == <<mem, imm, NewestLevel0(k, s)>> \o [l \in 1 .. NumLevels - 1 |-> FindFile(l, k, s)]

LEMMA PlacesFind ==
  ASSUME HistoryTypes, TableTypes, OrderInv, SortedInv, NEW k \in Keys, NEW s \in 0 .. Len(hist)
  PROVE  /\ DOMAIN Place(k, s) = 1 .. NumLevels + 2
         /\ \A i \in 1 .. NumLevels + 2 : Finds(Place(k, s)[i], Layer(i), k, s)
  <1> DEFINE head == <<mem, imm, NewestLevel0(k, s)>>
             tail == [l \in 1 .. NumLevels - 1 |-> FindFile(l, k, s)]
  <1>1. NumLevels - 1 \in Nat /\ NumLevels \in Nat /\ 0 \in Levels
    BY ConstantsAssumption DEF Levels
  <1>2. Finds(NewestLevel0(k, s), UNION files[0], k, s)
    BY Level0Finds
  <1>3. \A l \in 1 .. NumLevels - 1 : l \in Levels \ {0} /\ Finds(FindFile(l, k, s), UNION files[l], k, s)
    <2> TAKE l \in 1 .. NumLevels - 1
    <2>1. l \in Levels \ {0}
      BY <1>1 DEF Levels
    <2> QED
      BY <2>1, FileFinds
  <1>4. /\ mem \in SUBSET Entries /\ imm \in SUBSET Entries
        /\ \A l \in Levels : UNION files[l] \in SUBSET Entries
    BY DEF TableTypes
  <1>5. head \in Seq(SUBSET Entries) /\ Len(head) = 3
    <2>1. NewestLevel0(k, s) \in SUBSET Entries
      BY <1>1, <1>2, <1>4 DEF Finds
    <2> QED
      BY <1>4, <2>1
  <1>6. tail \in Seq(SUBSET Entries) /\ Len(tail) = NumLevels - 1
    <2>1. \A l \in 1 .. NumLevels - 1 : FindFile(l, k, s) \in SUBSET Entries
      BY <1>3, <1>4 DEF Finds
    <2>2. tail \in [1 .. NumLevels - 1 -> SUBSET Entries]
      BY <2>1
    <2>3. tail \in Seq(SUBSET Entries)
      BY <1>1, <2>2, SeqDef
    <2> QED
      BY <1>1, <2>3
  <1>7. Place(k, s) = head \o tail
    BY DEF Place
  <1> HIDE DEF head, tail
  <1>8. /\ Place(k, s) \in Seq(SUBSET Entries) /\ Len(Place(k, s)) = 3 + (NumLevels - 1)
        /\ \A i \in 1 .. 3 + (NumLevels - 1) : Place(k, s)[i] = IF i <= 3 THEN head[i] ELSE tail[i - 3]
    <2>1. /\ head \o tail \in Seq(SUBSET Entries) /\ Len(head \o tail) = Len(head) + Len(tail)
          /\ \A i \in 1 .. Len(head) + Len(tail) :
               (head \o tail)[i] = IF i <= Len(head) THEN head[i] ELSE tail[i - Len(head)]
      BY <1>5, <1>6, ConcatProperties, Zenon
    <2> QED
      BY <1>5, <1>6, <1>7, <2>1
  <1>9. 3 + (NumLevels - 1) = NumLevels + 2
    BY <1>1
  <1>10. DOMAIN Place(k, s) = 1 .. NumLevels + 2
    BY <1>8, <1>9, LenProperties
  <1>11. ASSUME NEW i \in 1 .. NumLevels + 2 PROVE Finds(Place(k, s)[i], Layer(i), k, s)
    <2>1. Place(k, s)[i] = IF i <= 3 THEN head[i] ELSE tail[i - 3]
      BY <1>8, <1>9
    <2>2. ASSUME NEW E \in SUBSET Entries PROVE Finds(E, E, k, s)
      <3>1. \A e \in Hits(E, k, s) : e <= e
        BY Ranks DEF Hits
      <3> QED
        BY <3>1 DEF Finds
    <2>3. CASE i = 1
      <3>1. Place(k, s)[i] = mem /\ Layer(i) = mem
        BY <2>1, <2>3 DEF head, Layer
      <3> QED
        BY <1>4, <2>2, <3>1
    <2>4. CASE i = 2
      <3>1. Place(k, s)[i] = imm /\ Layer(i) = imm
        BY <2>1, <2>4 DEF head, Layer
      <3> QED
        BY <1>4, <2>2, <3>1
    <2>5. CASE i = 3
      <3>1. Place(k, s)[i] = NewestLevel0(k, s) /\ Layer(i) = UNION files[0]
        BY <2>1, <2>5 DEF head, Layer
      <3> QED
        BY <1>2, <3>1
    <2>6. CASE i > 3
      <3>1. i - 3 \in 1 .. NumLevels - 1
        BY <1>1, <2>6
      <3>2. Place(k, s)[i] = FindFile(i - 3, k, s)
        BY <1>1, <2>1, <2>6, <3>1 DEF tail
      <3>3. Layer(i) = UNION files[i - 3]
        BY <2>6 DEF Layer
      <3> QED
        BY <1>3, <3>1, <3>2, <3>3
    <2> QED
      BY <1>1, <2>3, <2>4, <2>5, <2>6
  <1> QED
    BY <1>10, <1>11

\* The layers hold all entries, the newer ones of a key further up.
LEMMA Layers ==
  ASSUME HistoryTypes, TableTypes, OrderInv
  PROVE  /\ \A e \in All : \E i \in 1 .. NumLevels + 2 : e \in Layer(i)
         /\ \A i \in 1 .. NumLevels + 2 : Layer(i) \subseteq All /\ Layer(i) \subseteq Entries
         /\ \A i, j \in 1 .. NumLevels + 2 : i < j =>
              \A e \in Layer(i), x \in Layer(j) : Key(e) = Key(x) => x < e
  <1>1. NumLevels \in Nat /\ NumLevels >= 3
    BY ConstantsAssumption
  <1>2. /\ Layer(1) = mem /\ Layer(2) = imm
        /\ \A i \in 3 .. NumLevels + 2 : i - 3 \in Levels /\ Layer(i) = UNION files[i - 3]
    BY <1>1 DEF Layer, Levels
  <1>3. ASSUME NEW e \in All PROVE \E i \in 1 .. NumLevels + 2 : e \in Layer(i)
    <2>1. CASE e \in mem \/ e \in imm
      <3>1. 1 \in 1 .. NumLevels + 2 /\ 2 \in 1 .. NumLevels + 2
        BY <1>1
      <3> QED
        BY <1>2, <2>1, <3>1
    <2>2. CASE e \in InFiles
      <3>1. PICK l \in Levels : e \in UNION files[l]
        BY <2>2 DEF InFiles
      <3>2. l + 3 \in 3 .. NumLevels + 2 /\ l + 3 \in 1 .. NumLevels + 2 /\ (l + 3) - 3 = l
        BY <1>1 DEF Levels
      <3>3. Layer(l + 3) = UNION files[l]
        BY <1>2, <3>2
      <3> QED
        BY <3>1, <3>2, <3>3
    <2> QED
      BY <2>1, <2>2 DEF All
  <1>4. \A i \in 3 .. NumLevels + 2 : Layer(i) \subseteq InFiles
    BY <1>2 DEF InFiles
  <1>5. ASSUME NEW i \in 1 .. NumLevels + 2 PROVE Layer(i) \subseteq All /\ Layer(i) \subseteq Entries
    <2>1. All \subseteq Entries
      BY DEF All, InFiles, TableTypes
    <2>2. i = 1 \/ i = 2 \/ i \in 3 .. NumLevels + 2
      BY <1>1
    <2> QED
      BY <1>2, <1>4, <2>1, <2>2 DEF All
  <1>6. ASSUME NEW i \in 1 .. NumLevels + 2, NEW j \in 1 .. NumLevels + 2, i < j,
               NEW e \in Layer(i), NEW x \in Layer(j), Key(e) = Key(x)
        PROVE  x < e
    <2>1. CASE i = 1
      <3>1. j = 2 \/ j \in 3 .. NumLevels + 2
        BY <1>1, <1>6, <2>1
      <3>2. x \in imm \cup InFiles /\ e \in mem
        BY <1>2, <1>4, <2>1, <3>1
      <3> QED
        BY <3>2 DEF OrderInv
    <2>2. CASE i = 2
      <3>1. j \in 3 .. NumLevels + 2
        BY <1>1, <1>6, <2>2
      <3>2. x \in InFiles /\ e \in imm
        BY <1>2, <1>4, <2>2, <3>1
      <3> QED
        BY <3>2 DEF OrderInv
    <2>3. CASE i \in 3 .. NumLevels + 2
      <3>1. j \in 3 .. NumLevels + 2 /\ i - 3 < j - 3
        BY <1>1, <1>6, <2>3
      <3>2. PICK f \in files[i - 3] : e \in f
        BY <1>2, <2>3
      <3>3. PICK g \in files[j - 3] : x \in g
        BY <1>2, <3>1
      <3>4. i - 3 \in Levels /\ j - 3 \in Levels
        BY <1>2, <2>3, <3>1
      <3> QED
        BY <1>6, <3>1, <3>2, <3>3, <3>4 DEF OrderInv
    <2> QED
      BY <1>1, <2>1, <2>2, <2>3
  <1> QED
    BY <1>3, <1>5, <1>6

\* Get finds the newest entry of the key that the reader may see, of all there are.
LEMMA GetFindsNewest ==
  ASSUME HistoryTypes, TableTypes, OrderInv, SortedInv, NEW k \in Keys, NEW s \in 0 .. Len(hist)
  PROVE  \/ Hits(All, k, s) = {} /\ Get(k, s) = None
         \/ Get(k, s) \in Hits(All, k, s) /\ \A e \in Hits(All, k, s) : e <= Get(k, s)
  <1> DEFINE place == Place(k, s)
             found == {i \in DOMAIN place : Hits(place[i], k, s) # {}}
             N == NumLevels + 2
  <1>1. Get(k, s) = IF found = {} THEN None ELSE Max(Hits(place[Min(found)], k, s))
    BY DEF Get, Place
  <1>2. DOMAIN place = 1 .. N /\ \A i \in 1 .. N : Finds(place[i], Layer(i), k, s)
    BY PlacesFind
  <1>3. /\ \A e \in All : \E i \in 1 .. N : e \in Layer(i)
        /\ \A i \in 1 .. N : Layer(i) \subseteq All /\ Layer(i) \subseteq Entries
        /\ \A i, j \in 1 .. N : i < j => \A e \in Layer(i), x \in Layer(j) : Key(e) = Key(x) => x < e
    BY Layers
  <1>4. Len(hist) \in Nat /\ \A e \in Entries : e \in Int /\ e <= Len(hist)
    BY DEF HistoryTypes, Entries
  <1> HIDE DEF place, N
  <1>5. ASSUME NEW e \in Hits(All, k, s)
        PROVE  \E j \in found : e \in Layer(j) /\ \E x \in Hits(place[j], k, s) : e <= x
    <2>1. PICK j \in 1 .. N : e \in Layer(j)
      BY <1>3 DEF Hits
    <2>2. e \in Hits(Layer(j), k, s)
      BY <2>1 DEF Hits
    <2>3. PICK x \in Hits(place[j], k, s) : e <= x
      BY <1>2, <2>2 DEF Finds
    <2>4. j \in found
      BY <1>2, <2>3
    <2> QED
      BY <2>1, <2>3, <2>4
  <1>6. CASE found = {}
    BY <1>1, <1>5, <1>6
  <1>7. CASE found # {}
    <2>1. found \in SUBSET Int /\ \A i \in found : 1 <= i
      BY <1>2
    <2>2. PICK i : i = Min(found)
      OBVIOUS
    <2>3. i \in found /\ \A j \in found : i <= j
      <3> HIDE DEF found
      <3> QED
        BY <1>7, <2>1, <2>2, LeastInteger
    <2>4. PICK H : H = Hits(place[i], k, s)
      OBVIOUS
    <2>5. i \in 1 .. N /\ H # {}
      BY <1>2, <2>3, <2>4
    <2>6. H \subseteq Layer(i) /\ H \subseteq Entries /\ H \subseteq Hits(All, k, s)
      BY <1>2, <1>3, <2>4, <2>5 DEF Finds, Hits
    <2>7. Max(H) \in H /\ \A x \in H : x <= Max(H)
      <3>1. H \in SUBSET Int /\ H # {} /\ Len(hist) \in Int /\ \A x \in H : x <= Len(hist)
        BY <1>4, <2>5, <2>6
      <3> QED
        BY <3>1, GreatestInteger
    <2>8. Get(k, s) = Max(H)
      BY <1>1, <1>7, <2>2, <2>4
    <2>9. ASSUME NEW e \in Hits(All, k, s) PROVE e <= Max(H)
      <3>1. PICK j \in found : e \in Layer(j) /\ \E x \in Hits(place[j], k, s) : e <= x
        BY <1>5
      <3>2. j \in 1 .. N /\ i <= j /\ e \in Int /\ Max(H) \in Int
        BY <1>2, <1>3, <1>4, <2>3, <2>6, <2>7, <3>1
      <3>3. CASE j = i
        <4>1. PICK x \in H : e <= x
          BY <2>4, <3>1, <3>3
        <4>2. x \in Int /\ x <= Max(H)
          BY <1>4, <2>6, <2>7
        <4> QED
          BY <3>2, <4>1, <4>2
      <3>4. CASE i < j
        <4>1. Key(Max(H)) = k /\ Key(e) = k /\ Max(H) \in Layer(i)
          BY <2>6, <2>7 DEF Hits, Key
        <4>2. e < Max(H)
          BY <1>3, <2>5, <3>1, <3>2, <3>4, <4>1
        <4> QED
          BY <3>2, <4>2
      <3>5. i \in Int /\ j \in Int
        BY <2>5, <3>2
      <3> QED
        BY <3>2, <3>3, <3>4, <3>5
    <2> QED
      BY <2>6, <2>7, <2>8, <2>9
  <1> QED
    BY <1>6, <1>7

-----------------------------------------------------------------------------
(* The theorems *)

\* What SnapshotsReadHistory says of the keys of K.
ReadHistory(K) ==
  \A s \in snapshots \cup {Len(hist)}, k \in K :
    LET written == Hits(1 .. Len(hist), k, s)
        last == IF written = {} THEN None ELSE Max(written)
    IN  Answer(Get(k, s)) = Answer(last)

LEMMA ReadsAreRight ==
  ASSUME IInv
  PROVE  ReadHistory(ReadKeys)
  <1> USE DEF IInv
  <1>1. Len(hist) \in Nat /\ \A s \in snapshots \cup {Len(hist)} : s \in 0 .. Len(hist)
    BY DEF HistoryTypes, TableTypes
  <1> SUFFICES ASSUME NEW s \in snapshots \cup {Len(hist)}, NEW k \in ReadKeys
               PROVE  LET written == Hits(Entries, k, s)
                          last == IF written = {} THEN None ELSE Max(written)
                      IN  Answer(Get(k, s)) = Answer(last)
    BY DEF ReadHistory, Entries
  <1>2. s \in 0 .. Len(hist) /\ k \in Keys
    BY <1>1 DEF ReadKeys
  <1>3. PICK W : W = Hits(Entries, k, s)
    OBVIOUS
  <1>4. All \subseteq Entries /\ Hits(All, k, s) \subseteq W
    BY <1>3 DEF All, InFiles, TableTypes, Hits
  <1>5. PICK g : g = Get(k, s)
    OBVIOUS
  <1>6. (Hits(All, k, s) = {} /\ g = None) \/ (g \in Hits(All, k, s) /\ \A e \in Hits(All, k, s) : e <= g)
    BY <1>2, <1>5, GetFindsNewest
  <1>7. CASE W = {}
    <2>1. g = None
      BY <1>4, <1>6, <1>7
    <2> QED
      BY <1>3, <1>5, <1>7, <2>1
  <1>8. CASE W # {}
    <2>1. W \in SUBSET Int /\ Len(hist) \in Int /\ \A e \in W : e \in Entries /\ e <= Len(hist)
      BY <1>1, <1>3 DEF Hits, Entries
    <2>2. PICK w : w = Max(W)
      OBVIOUS
    <2>3. w \in W /\ \A e \in W : e <= w
      BY <1>8, <2>1, <2>2, GreatestInteger
    <2>4. w \in Entries /\ Key(w) = k /\ Newest(w, s)
      BY <1>3, <2>3 DEF Hits, Newest, Key
    <2>5. w \in All \/ (hist[w].kind = "deletion" /\ \A x \in All : Key(x) = Key(w) => ~(x <= s))
      BY <2>4 DEF Holds
    <2>6. CASE w \in All
      <3>1. w \in Hits(All, k, s)
        BY <2>4, <2>6 DEF Hits, Newest, Key
      <3>2. g \in W /\ w <= g /\ g <= w
        BY <1>4, <1>6, <2>3, <3>1
      <3>3. g = w
        BY <2>1, <2>3, <3>2
      <3> QED
        BY <1>3, <1>5, <1>8, <2>2, <3>3
    <2>7. CASE hist[w].kind = "deletion" /\ \A x \in All : Key(x) = Key(w) => ~(x <= s)
      <3>1. Hits(All, k, s) = {}
        BY <2>4, <2>7 DEF Hits, Key
      <3>2. Answer(g) = None /\ Answer(w) = None
        BY <1>6, <2>7, <3>1 DEF Answer
      <3> QED
        BY <1>3, <1>5, <1>8, <2>2, <3>2
    <2> QED
      BY <2>5, <2>6, <2>7
  <1> QED
    BY <1>7, <1>8

\* Builder::MaybeAddFile's assertion and what FindFile's binary search needs: below level 0 no
\* two tables of a level overlap, wherever memtables are flushed and tables are merged or moved
\* to, for any keys, levels and number of writes, as long as no client calls CompactRange.
THEOREM LevelsAreDisjoint ==
  ASSUME NoManual
  PROVE  Spec => []LevelsDisjoint
  <1>1. IInv => LevelsDisjoint
    BY SortedLevels DEF IInv
  <1> QED
    BY <1>1, Invariant, PTL

\* Whatever compactions have moved, merged and dropped, Get answers every live snapshot and the
\* present with what was written last before it, for every key that is not both deleted and
\* written with values so long that tables end inside it.
THEOREM MostKeysReadHistory ==
  ASSUME NoManual
  PROVE  Spec => []ReadHistory(ReadKeys)
  <1>1. IInv => ReadHistory(ReadKeys)
    BY ReadsAreRight
  <1> QED
    BY <1>1, Invariant, PTL

\* So does it for every key of a client that deletes none of its long-valued keys.
THEOREM SnapshotsAreRead ==
  ASSUME NoManual, DeletedKeys \cap SplitKeys = {}
  PROVE  Spec => []SnapshotsReadHistory
  <1>1. IInv => SnapshotsReadHistory
    <2>1. ReadKeys = Keys
      BY DEF ReadKeys
    <2> QED
      BY <2>1, ReadsAreRight DEF ReadHistory, SnapshotsReadHistory
  <1> QED
    BY <1>1, Invariant, PTL

-----------------------------------------------------------------------------
(* Iterators *)

\* What the children of an iterator hold.
Held(it) == UNION {it.children[c] : c \in DOMAIN it.children}

\* The entries a merging iterator has left behind.
Passed(m, x) ==
  Current(m) = None \/ IF m.reverse THEN Precedes(Current(m), x) ELSE Precedes(x, Current(m))

\* Every child is where the merging iterator is, but for entries that s does not see.
Placed(C, s, m) ==
  /\ DOMAIN m.at = DOMAIN C
  /\ \A c \in DOMAIN C :
       /\ m.at[c] = None \/ m.at[c] \in C[c]
       /\ \A x \in C[c] : x <= s /\ (m.at[c] = None \/ IF m.reverse THEN Precedes(m.at[c], x)
                                                       ELSE Precedes(x, m.at[c]))
                          => Passed(m, x)

ReadsAll(it) ==
  \A e \in 1 .. it.s : Newest(e, it.s) =>
    \/ e \in Held(it)
    \/ Deletes(e) /\ \A x \in Held(it) : Key(x) = Key(e) => ~(x <= it.s)

IterTypes(it) ==
  /\ DOMAIN it = {"s", "children", "growing", "m", "reverse", "valid", "skip", "saved", "loop"}
  /\ it.s \in 0 .. Len(hist)
  /\ \A c \in DOMAIN it.children : it.children[c] \subseteq Entries
  /\ MemChild \in DOMAIN it.children
  /\ it.growing => it.children[MemChild] = mem
  /\ it.loop \in {"none", "next", "prev", "before"}

Hidden(it, x) == it.skip # None /\ Key(x) <= it.skip

NextInv(it, g) ==
  /\ ~it.m.reverse /\ Placed(it.children, it.s, it.m)
  /\ it.skip = None \/ it.skip \in Nat
  /\ \A x \in Held(it) : x <= it.s =>
       IF Passed(it.m, x) THEN Hidden(it, x) \/ (Valid(it.m) => Key(x) < Key(Current(it.m)))
       ELSE it.skip # None => it.skip <= Key(x)
  /\ \A v \in Seen(it.s) : (g = None \/ Key(v) < Key(g)) => Passed(it.m, v) \/ Hidden(it, v)
  /\ g # None => ~Passed(it.m, g) /\ ~Hidden(it, g)

BeforeInv(it, g) ==
  /\ Placed(it.children, it.s, it.m) /\ Valid(it.m)
  /\ it.skip \in Nat /\ it.skip <= Key(Current(it.m)) /\ ~it.reverse /\ it.saved = None
  /\ \A v \in Seen(it.s) : Key(v) < it.skip => g # None /\ Key(v) <= Key(g)
  /\ g # None => Key(g) < it.skip

PrevInv(it, g) ==
  /\ it.m.reverse /\ Placed(it.children, it.s, it.m) /\ it.reverse
  /\ \A v \in Seen(it.s) : (g = None \/ Key(g) < Key(v)) =>
       Passed(it.m, v) /\ (it.saved # None => Key(it.saved) < Key(v))
  /\ it.saved = None /\ g # None => ~Passed(it.m, g)
  /\ it.saved # None =>
       /\ it.saved \in Held(it) /\ it.saved <= it.s /\ ~Deletes(it.saved) /\ Passed(it.m, it.saved)
       /\ \A x \in Held(it) : x <= it.s /\ Key(x) = Key(it.saved) /\ x > it.saved => ~Passed(it.m, x)
       /\ \A x \in Held(it) : x <= it.s /\ Passed(it.m, x) => Key(it.saved) <= Key(x)
       /\ g # None => g = it.saved \/ ~Passed(it.m, g)

RestInv(it, g) ==
  /\ it.valid <=> g # None
  /\ it.valid => Placed(it.children, it.s, it.m) /\ (it.reverse <=> it.m.reverse)
  /\ it.valid /\ it.reverse =>
       /\ it.saved = g
       /\ \A x \in Held(it) : x <= it.s => (Passed(it.m, x) <=> Key(g) <= Key(x))
  /\ it.valid /\ ~it.reverse => Current(it.m) = g

IterGood(it, g) ==
  /\ IterTypes(it) /\ ReadsAll(it) /\ g \in Seen(it.s) \cup {None}
  /\ it.loop = "next" => NextInv(it, g)
  /\ it.loop = "before" => BeforeInv(it, g)
  /\ it.loop = "prev" => PrevInv(it, g)
  /\ it.loop = "none" => RestInv(it, g)

IterInv == iter # None => IterGood(iter, goal)

\* Internal keys are totally ordered.
LEMMA PrecedesOrders ==
  ASSUME HistoryTypes
  PROVE  /\ \A e \in Entries : e \in Nat /\ Key(e) \in Nat /\ e # None /\ ~Precedes(e, e)
         /\ \A e, x \in Entries : e = x \/ Precedes(e, x) \/ Precedes(x, e)
         /\ \A e, x \in Entries : Precedes(e, x) => ~Precedes(x, e) /\ e # x /\ Key(e) <= Key(x)
         /\ \A e, x, y \in Entries : Precedes(e, x) /\ Precedes(x, y) => Precedes(e, y)
  <1>1. \A e \in Entries : e \in Nat /\ Key(e) \in Nat
    BY Ranks
  <1> QED
    BY <1>1, NoneAssumption DEF Precedes

\* What a child finds first, and last.
LEMMA FirstIs ==
  ASSUME HistoryTypes, NEW S \in SUBSET Entries
  PROVE  /\ S = {} => First(S) = None
         /\ S # {} => First(S) \in S /\ \A x \in S : First(S) = x \/ Precedes(First(S), x)
  <1>1. ASSUME S # {} PROVE \E e \in S : \A x \in S : EntryRank(e) <= EntryRank(x)
    <2>1. PICK a \in S : \A e \in S : a = e \/ Precedes(a, e)
      BY <1>1, TableRange
    <2>2. \A x \in S : EntryRank(x) \in Nat /\ (EntryRank(a) < EntryRank(x) <=> Precedes(a, x))
      BY Ranks
    <2>3. \A x \in S : EntryRank(a) <= EntryRank(x)
      BY <2>1, <2>2
    <2> QED
      BY <2>3
  <1>2. ASSUME S # {} PROVE First(S) \in S /\ \A x \in S : EntryRank(First(S)) <= EntryRank(x)
    BY <1>1, <1>2 DEF First
  <1>3. ASSUME S # {} PROVE \A x \in S : First(S) = x \/ Precedes(First(S), x)
    <2> TAKE x \in S
    <2>1. First(S) \in Entries /\ x \in Entries /\ EntryRank(First(S)) <= EntryRank(x)
      BY <1>2, <1>3
    <2>2. EntryRank(First(S)) \in Nat /\ EntryRank(x) \in Nat /\ ~Precedes(x, First(S))
      BY <2>1, Ranks
    <2> QED
      BY <2>1, <2>2, PrecedesOrders
  <1> QED
    BY <1>2, <1>3 DEF First

LEMMA FinalIs ==
  ASSUME HistoryTypes, NEW S \in SUBSET Entries
  PROVE  /\ S = {} => Final(S) = None
         /\ S # {} => Final(S) \in S /\ \A x \in S : Final(S) = x \/ Precedes(x, Final(S))
  <1>1. ASSUME S # {} PROVE \E e \in S : \A x \in S : EntryRank(e) >= EntryRank(x)
    <2>1. PICK z \in S : \A e \in S : z = e \/ Precedes(e, z)
      BY <1>1, TableRange
    <2>2. \A x \in S : EntryRank(x) \in Nat /\ (EntryRank(x) < EntryRank(z) <=> Precedes(x, z))
      BY Ranks
    <2>3. \A x \in S : EntryRank(z) >= EntryRank(x)
      BY <2>1, <2>2
    <2> QED
      BY <2>3
  <1>2. ASSUME S # {} PROVE Final(S) \in S /\ \A x \in S : EntryRank(Final(S)) >= EntryRank(x)
    BY <1>1, <1>2 DEF Final
  <1>3. ASSUME S # {} PROVE \A x \in S : Final(S) = x \/ Precedes(x, Final(S))
    <2> TAKE x \in S
    <2>1. Final(S) \in Entries /\ x \in Entries /\ EntryRank(Final(S)) >= EntryRank(x)
      BY <1>2, <1>3
    <2>2. EntryRank(Final(S)) \in Nat /\ EntryRank(x) \in Nat /\ ~Precedes(Final(S), x)
      BY <2>1, Ranks
    <2> QED
      BY <2>1, <2>2, PrecedesOrders
  <1> QED
    BY <1>2, <1>3 DEF Final

\* Where a merging iterator is.
LEMMA CurrentIs ==
  ASSUME HistoryTypes, NEW C, \A c \in DOMAIN C : C[c] \subseteq Entries,
         NEW m, DOMAIN m.at = DOMAIN C, \A c \in DOMAIN C : m.at[c] = None \/ m.at[c] \in C[c]
  PROVE  /\ Current(m) = None => \A c \in DOMAIN C : m.at[c] = None
         /\ Current(m) # None =>
              /\ Current(m) \in Entries
              /\ \E c \in DOMAIN C : m.at[c] = Current(m) /\ Current(m) \in C[c]
              /\ \A c \in DOMAIN C : m.at[c] = None \/ m.at[c] = Current(m)
                     \/ IF m.reverse THEN Precedes(m.at[c], Current(m)) ELSE Precedes(Current(m), m.at[c])
  <1> DEFINE E == {m.at[c] : c \in DOMAIN m.at} \ {None}
  <1>1. E \in SUBSET Entries
    OBVIOUS
  <1>2. Current(m) = IF m.reverse THEN Final(E) ELSE First(E)
    BY DEF Current
  <1>3. \A c \in DOMAIN C : m.at[c] = None \/ m.at[c] \in E
    OBVIOUS
  <1>4. \A e \in E : e # None /\ \E c \in DOMAIN C : m.at[c] = e /\ e \in C[c]
    OBVIOUS
  <1> HIDE DEF E
  <1>5. CASE E = {}
    BY <1>1, <1>2, <1>3, <1>5, FirstIs, FinalIs
  <1>6. CASE E # {}
    <2>1. /\ Current(m) \in E
          /\ \A x \in E : Current(m) = x \/ IF m.reverse THEN Precedes(x, Current(m)) ELSE Precedes(Current(m), x)
      BY <1>1, <1>2, <1>6, FirstIs, FinalIs
    <2> QED
      BY <1>1, <1>3, <1>4, <2>1
  <1> QED
    BY <1>5, <1>6

\* A merging iterator whose children are at the first entries of B, upwards closed.
LEMMA ForwardFrom ==
  ASSUME HistoryTypes, NEW C, \A c \in DOMAIN C : C[c] \subseteq Entries, NEW s,
         NEW m, ~m.reverse, DOMAIN m.at = DOMAIN C,
         NEW B, \A x \in B, y \in Entries : Precedes(x, y) => y \in B,
         \A c \in DOMAIN C : m.at[c] = None \/ m.at[c] \in C[c] \cap B,
         \A c \in DOMAIN C : \A x \in C[c] :
           x <= s /\ x \in B => m.at[c] # None /\ (m.at[c] = x \/ Precedes(m.at[c], x))
  PROVE  /\ Placed(C, s, m)
         /\ \A c \in DOMAIN C : \A x \in C[c] : x <= s => (Passed(m, x) <=> x \notin B)
         /\ Current(m) # None => Current(m) \in B
  <1>1. /\ Current(m) = None => \A c \in DOMAIN C : m.at[c] = None
        /\ Current(m) # None =>
              /\ Current(m) \in Entries
              /\ \E c \in DOMAIN C : m.at[c] = Current(m) /\ Current(m) \in C[c]
              /\ \A c \in DOMAIN C : m.at[c] = None \/ m.at[c] = Current(m) \/ Precedes(Current(m), m.at[c])
    BY CurrentIs
  <1>2. Current(m) # None => Current(m) \in B
    BY <1>1
  <1>3. ASSUME NEW c \in DOMAIN C, NEW x \in C[c], x <= s, x \in B PROVE ~Passed(m, x)
    <2>1. m.at[c] # None /\ (m.at[c] = x \/ Precedes(m.at[c], x)) /\ m.at[c] \in Entries /\ x \in Entries
      BY <1>3
    <2>2. Current(m) # None /\ Current(m) \in Entries /\ (m.at[c] = Current(m) \/ Precedes(Current(m), m.at[c]))
      BY <1>1, <2>1
    <2>3. Current(m) = x \/ Precedes(Current(m), x)
      BY <2>1, <2>2, PrecedesOrders
    <2>4. ~Precedes(x, Current(m))
      BY <2>1, <2>2, <2>3, PrecedesOrders
    <2> QED
      BY <2>2, <2>4 DEF Passed
  <1>4. ASSUME NEW c \in DOMAIN C, NEW x \in C[c], x \notin B PROVE Passed(m, x)
    <2> SUFFICES ASSUME Current(m) # None PROVE Precedes(x, Current(m))
      BY DEF Passed
    <2>1. x \in Entries /\ Current(m) \in Entries /\ Current(m) \in B
      BY <1>1, <1>2
    <2>2. x # Current(m) /\ ~Precedes(Current(m), x)
      BY <1>4, <2>1
    <2> QED
      BY <2>1, <2>2, PrecedesOrders
  <1>5. ASSUME NEW c \in DOMAIN C, NEW x \in C[c], x <= s, m.at[c] = None \/ Precedes(x, m.at[c]) PROVE Passed(m, x)
    <2>1. CASE x \in B
      <3>1. m.at[c] # None /\ (m.at[c] = x \/ Precedes(m.at[c], x)) /\ m.at[c] \in Entries /\ x \in Entries
        BY <1>5, <2>1
      <3> QED
        BY <1>5, <3>1, PrecedesOrders
    <2> QED
      BY <1>4, <2>1
  <1>6. Placed(C, s, m)
    BY <1>5 DEF Placed
  <1> QED
    BY <1>2, <1>3, <1>4, <1>6

\* A merging iterator whose children are at the last entries of B, downwards closed.
LEMMA BackwardFrom ==
  ASSUME HistoryTypes, NEW C, \A c \in DOMAIN C : C[c] \subseteq Entries, NEW s,
         NEW m, m.reverse, DOMAIN m.at = DOMAIN C,
         NEW B, \A x \in B, y \in Entries : Precedes(y, x) => y \in B,
         \A c \in DOMAIN C : m.at[c] = None \/ m.at[c] \in C[c] \cap B,
         \A c \in DOMAIN C : \A x \in C[c] :
           x <= s /\ x \in B => m.at[c] # None /\ (m.at[c] = x \/ Precedes(x, m.at[c]))
  PROVE  /\ Placed(C, s, m)
         /\ \A c \in DOMAIN C : \A x \in C[c] : x <= s => (Passed(m, x) <=> x \notin B)
         /\ Current(m) # None => Current(m) \in B
  <1>1. /\ Current(m) = None => \A c \in DOMAIN C : m.at[c] = None
        /\ Current(m) # None =>
              /\ Current(m) \in Entries
              /\ \E c \in DOMAIN C : m.at[c] = Current(m) /\ Current(m) \in C[c]
              /\ \A c \in DOMAIN C : m.at[c] = None \/ m.at[c] = Current(m) \/ Precedes(m.at[c], Current(m))
    BY CurrentIs
  <1>2. Current(m) # None => Current(m) \in B
    BY <1>1
  <1>3. ASSUME NEW c \in DOMAIN C, NEW x \in C[c], x <= s, x \in B PROVE ~Passed(m, x)
    <2>1. m.at[c] # None /\ (m.at[c] = x \/ Precedes(x, m.at[c])) /\ m.at[c] \in Entries /\ x \in Entries
      BY <1>3
    <2>2. Current(m) # None /\ Current(m) \in Entries /\ (m.at[c] = Current(m) \/ Precedes(m.at[c], Current(m)))
      BY <1>1, <2>1
    <2>3. Current(m) = x \/ Precedes(x, Current(m))
      BY <2>1, <2>2, PrecedesOrders
    <2>4. ~Precedes(Current(m), x)
      BY <2>1, <2>2, <2>3, PrecedesOrders
    <2> QED
      BY <2>2, <2>4 DEF Passed
  <1>4. ASSUME NEW c \in DOMAIN C, NEW x \in C[c], x \notin B PROVE Passed(m, x)
    <2> SUFFICES ASSUME Current(m) # None PROVE Precedes(Current(m), x)
      BY DEF Passed
    <2>1. x \in Entries /\ Current(m) \in Entries /\ Current(m) \in B
      BY <1>1, <1>2
    <2>2. x # Current(m) /\ ~Precedes(x, Current(m))
      BY <1>4, <2>1
    <2> QED
      BY <2>1, <2>2, PrecedesOrders
  <1>5. ASSUME NEW c \in DOMAIN C, NEW x \in C[c], x <= s, m.at[c] = None \/ Precedes(m.at[c], x) PROVE Passed(m, x)
    <2>1. CASE x \in B
      <3>1. m.at[c] # None /\ (m.at[c] = x \/ Precedes(x, m.at[c])) /\ m.at[c] \in Entries /\ x \in Entries
        BY <1>5, <2>1
      <3> QED
        BY <1>5, <3>1, PrecedesOrders
    <2> QED
      BY <1>4, <2>1
  <1>6. Placed(C, s, m)
    BY <1>5 DEF Placed
  <1> QED
    BY <1>2, <1>3, <1>4, <1>6

\* Moving on leaves behind the current entry and what comes before it, whatever the direction
\* was.
LEMMA NextMoves ==
  ASSUME HistoryTypes, NEW C, \A c \in DOMAIN C : C[c] \subseteq Entries, NEW s,
         NEW m, Placed(C, s, m), Current(m) # None
  PROVE  /\ ~MergeNext(C, m).reverse /\ Placed(C, s, MergeNext(C, m))
         /\ Current(MergeNext(C, m)) # None => Precedes(Current(m), Current(MergeNext(C, m)))
         /\ \A c \in DOMAIN C : \A x \in C[c] :
              x <= s => (Passed(MergeNext(C, m), x) <=> ~Precedes(Current(m), x))
  <1> DEFINE n == MergeNext(C, m)
             cur == Current(m)
             B == {x \in Entries : Precedes(cur, x)}
  <1>1. /\ DOMAIN m.at = DOMAIN C /\ cur \in Entries
        /\ \A c \in DOMAIN C : m.at[c] = None \/ m.at[c] \in C[c]
        /\ \A c \in DOMAIN C : m.at[c] = None \/ m.at[c] = cur
                     \/ IF m.reverse THEN Precedes(m.at[c], cur) ELSE Precedes(cur, m.at[c])
    <2>1. DOMAIN m.at = DOMAIN C /\ \A c \in DOMAIN C : m.at[c] = None \/ m.at[c] \in C[c]
      BY DEF Placed
    <2> QED
      BY <2>1, CurrentIs
  <1>2. /\ n.reverse = FALSE /\ DOMAIN n.at = DOMAIN C
        /\ \A c \in DOMAIN C : n.at[c] = IF m.reverse \/ m.at[c] = cur THEN After(C[c], cur) ELSE m.at[c]
    BY DEF MergeNext
  <1>3. \A x \in B, y \in Entries : Precedes(x, y) => y \in B
    BY <1>1, PrecedesOrders
  <1>4. ASSUME NEW c \in DOMAIN C
        PROVE  /\ After(C[c], cur) = None \/ After(C[c], cur) \in C[c] \cap B
               /\ \A x \in C[c] \cap B : /\ After(C[c], cur) # None
                                         /\ After(C[c], cur) = x \/ Precedes(After(C[c], cur), x)
    <2> DEFINE S == {x \in C[c] : EntryRank(x) > EntryRank(cur)}
    <2>1. \A x \in C[c] : EntryRank(x) > EntryRank(cur) <=> Precedes(cur, x)
      <3> TAKE x \in C[c]
      <3>1. EntryRank(x) \in Nat /\ EntryRank(cur) \in Nat /\ (EntryRank(cur) < EntryRank(x) <=> Precedes(cur, x))
        BY <1>1, Ranks
      <3> QED
        BY <3>1
    <2>2. S = C[c] \cap B /\ S \in SUBSET Entries
      BY <2>1
    <2>3. After(C[c], cur) = First(S)
      BY DEF After
    <2> HIDE DEF S
    <2>4. \A x \in S : x # None
      BY <2>2, PrecedesOrders
    <2> QED
      BY <2>2, <2>3, <2>4, FirstIs
  <1>5. ASSUME NEW c \in DOMAIN C
        PROVE  /\ n.at[c] = None \/ n.at[c] \in C[c] \cap B
               /\ \A x \in C[c] : x <= s /\ x \in B => n.at[c] # None /\ (n.at[c] = x \/ Precedes(n.at[c], x))
    <2>1. CASE m.reverse \/ m.at[c] = cur
      BY <1>2, <1>4, <2>1
    <2>2. CASE ~m.reverse /\ m.at[c] # cur
      <3>1. n.at[c] = m.at[c] /\ (m.at[c] = None \/ m.at[c] \in C[c] \cap B)
        BY <1>1, <1>2, <2>2
      <3>2. ASSUME NEW x \in C[c], x <= s, x \in B PROVE m.at[c] # None /\ (m.at[c] = x \/ Precedes(m.at[c], x))
        <4>1. x \in Entries /\ ~Precedes(x, cur)
          BY <1>1, <3>2, PrecedesOrders
        <4>2. ~(m.at[c] = None \/ Precedes(x, m.at[c]))
          BY <2>2, <3>2, <4>1 DEF Placed, Passed
        <4> QED
          BY <3>1, <4>1, <4>2, PrecedesOrders
      <3> QED
        BY <3>1, <3>2
    <2> QED
      BY <2>1, <2>2
  <1> HIDE DEF n, B
  <1>6. /\ Placed(C, s, n)
        /\ \A c \in DOMAIN C : \A x \in C[c] : x <= s => (Passed(n, x) <=> x \notin B)
    BY <1>2, <1>3, <1>5, ForwardFrom
  <1>9. Current(n) # None => Current(n) \in B
    BY <1>2, <1>3, <1>5, CurrentIs
  <1>7. \A x : x \in B => Precedes(cur, x)
    BY DEF B
  <1>8. \A c \in DOMAIN C : \A x \in C[c] : x \in B <=> Precedes(cur, x)
    BY DEF B
  <1> QED
    BY <1>2, <1>6, <1>7, <1>8, <1>9 DEF n

\* And moving back leaves behind the current entry and what comes after it.
LEMMA PrevMoves ==
  ASSUME HistoryTypes, NEW C, \A c \in DOMAIN C : C[c] \subseteq Entries, NEW s,
         NEW m, Placed(C, s, m), Current(m) # None
  PROVE  /\ MergePrev(C, m).reverse /\ Placed(C, s, MergePrev(C, m))
         /\ Current(MergePrev(C, m)) # None => Precedes(Current(MergePrev(C, m)), Current(m))
         /\ \A c \in DOMAIN C : \A x \in C[c] :
              x <= s => (Passed(MergePrev(C, m), x) <=> ~Precedes(x, Current(m)))
  <1> DEFINE n == MergePrev(C, m)
             cur == Current(m)
             B == {x \in Entries : Precedes(x, cur)}
  <1>1. /\ DOMAIN m.at = DOMAIN C /\ cur \in Entries
        /\ \A c \in DOMAIN C : m.at[c] = None \/ m.at[c] \in C[c]
        /\ \A c \in DOMAIN C : m.at[c] = None \/ m.at[c] = cur
                     \/ IF m.reverse THEN Precedes(m.at[c], cur) ELSE Precedes(cur, m.at[c])
    <2>1. DOMAIN m.at = DOMAIN C /\ \A c \in DOMAIN C : m.at[c] = None \/ m.at[c] \in C[c]
      BY DEF Placed
    <2> QED
      BY <2>1, CurrentIs
  <1>2. /\ n.reverse = TRUE /\ DOMAIN n.at = DOMAIN C
        /\ \A c \in DOMAIN C : n.at[c] = IF ~m.reverse \/ m.at[c] = cur THEN Before(C[c], cur) ELSE m.at[c]
    BY DEF MergePrev
  <1>3. \A x \in B, y \in Entries : Precedes(y, x) => y \in B
    BY <1>1, PrecedesOrders
  <1>4. ASSUME NEW c \in DOMAIN C
        PROVE  /\ Before(C[c], cur) = None \/ Before(C[c], cur) \in C[c] \cap B
               /\ \A x \in C[c] \cap B : /\ Before(C[c], cur) # None
                                         /\ Before(C[c], cur) = x \/ Precedes(x, Before(C[c], cur))
    <2> DEFINE S == {x \in C[c] : EntryRank(x) < EntryRank(cur)}
    <2>1. \A x \in C[c] : EntryRank(x) < EntryRank(cur) <=> Precedes(x, cur)
      BY <1>1, Ranks
    <2>2. S = C[c] \cap B /\ S \in SUBSET Entries
      BY <2>1
    <2>3. Before(C[c], cur) = Final(S)
      BY DEF Before
    <2> HIDE DEF S
    <2>4. \A x \in S : x # None
      BY <2>2, PrecedesOrders
    <2> QED
      BY <2>2, <2>3, <2>4, FinalIs
  <1>5. ASSUME NEW c \in DOMAIN C
        PROVE  /\ n.at[c] = None \/ n.at[c] \in C[c] \cap B
               /\ \A x \in C[c] : x <= s /\ x \in B => n.at[c] # None /\ (n.at[c] = x \/ Precedes(x, n.at[c]))
    <2>1. CASE ~m.reverse \/ m.at[c] = cur
      BY <1>2, <1>4, <2>1
    <2>2. CASE m.reverse /\ m.at[c] # cur
      <3>1. n.at[c] = m.at[c] /\ (m.at[c] = None \/ m.at[c] \in C[c] \cap B)
        BY <1>1, <1>2, <2>2
      <3>2. ASSUME NEW x \in C[c], x <= s, x \in B PROVE m.at[c] # None /\ (m.at[c] = x \/ Precedes(x, m.at[c]))
        <4>1. x \in Entries /\ ~Precedes(cur, x)
          BY <1>1, <3>2, PrecedesOrders
        <4>2. ~(m.at[c] = None \/ Precedes(m.at[c], x))
          BY <2>2, <3>2, <4>1 DEF Placed, Passed
        <4> QED
          BY <3>1, <4>1, <4>2, PrecedesOrders
      <3> QED
        BY <3>1, <3>2
    <2> QED
      BY <2>1, <2>2
  <1> HIDE DEF n, B
  <1>6. /\ Placed(C, s, n)
        /\ \A c \in DOMAIN C : \A x \in C[c] : x <= s => (Passed(n, x) <=> x \notin B)
    BY <1>2, <1>3, <1>5, BackwardFrom
  <1>9. Current(n) # None => Current(n) \in B
    BY <1>2, <1>3, <1>5, CurrentIs
  <1>7. \A x : x \in B => Precedes(x, cur)
    BY DEF B
  <1>8. \A c \in DOMAIN C : \A x \in C[c] : x \in B <=> Precedes(x, cur)
    BY DEF B
  <1> QED
    BY <1>2, <1>6, <1>7, <1>8, <1>9 DEF n

\* Placed at the first entries that are not below key k at s, at the very first, or at the last.
LEMMA SeekMoves ==
  ASSUME HistoryTypes, NEW C, \A c \in DOMAIN C : C[c] \subseteq Entries,
         NEW s \in 0 .. Len(hist), NEW k \in Keys
  PROVE  /\ ~MergeSeek(C, Rank(k, s)).reverse /\ Placed(C, s, MergeSeek(C, Rank(k, s)))
         /\ \A c \in DOMAIN C : \A x \in C[c] :
              x <= s => (Passed(MergeSeek(C, Rank(k, s)), x) <=> Key(x) < k)
  <1> DEFINE n == MergeSeek(C, Rank(k, s))
             B == {x \in Entries : ~(Key(x) < k \/ (Key(x) = k /\ x > s))}
  <1>1. /\ n.reverse = FALSE /\ DOMAIN n.at = DOMAIN C
        /\ \A c \in DOMAIN C : n.at[c] = SeekIn(C[c], Rank(k, s))
    BY DEF MergeSeek
  <1>2. s \in Nat /\ k \in Nat
    BY ConstantsAssumption
  <1>3. \A x \in B, y \in Entries : Precedes(x, y) => y \in B
    BY <1>2, PrecedesOrders DEF Precedes
  <1>4. ASSUME NEW c \in DOMAIN C
        PROVE  /\ n.at[c] = None \/ n.at[c] \in C[c] \cap B
               /\ \A x \in C[c] \cap B : n.at[c] # None /\ (n.at[c] = x \/ Precedes(n.at[c], x))
    <2> DEFINE S == {x \in C[c] : EntryRank(x) >= Rank(k, s)}
    <2>1. \A x \in C[c] : EntryRank(x) >= Rank(k, s) <=> x \in B
      <3> TAKE x \in C[c]
      <3>1. x \in Entries /\ (EntryRank(x) < Rank(k, s) <=> Key(x) < k \/ (Key(x) = k /\ x > s))
        BY Ranks
      <3>2. EntryRank(x) \in Nat /\ Rank(k, s) \in Int
        <4>1. Len(hist) \in Nat /\ MaxSeq \in Nat
          BY ConstantsAssumption DEF HistoryTypes
        <4>2. k * (MaxSeq + 1) \in Nat
          BY <1>2, <4>1
        <4> QED
          BY <1>2, <3>1, <4>1, <4>2, Ranks DEF Rank
      <3> QED
        BY <3>1, <3>2
    <2>2. S = C[c] \cap B /\ S \in SUBSET Entries
      BY <2>1
    <2>3. n.at[c] = First(S)
      BY <1>1 DEF SeekIn
    <2> HIDE DEF S
    <2>4. \A x \in S : x # None
      BY <2>2, PrecedesOrders
    <2> QED
      BY <2>2, <2>3, <2>4, FirstIs
  <1> HIDE DEF n, B
  <1>5. /\ Placed(C, s, n)
        /\ \A c \in DOMAIN C : \A x \in C[c] : x <= s => (Passed(n, x) <=> x \notin B)
    BY <1>1, <1>3, <1>4, ForwardFrom
  <1>6. \A c \in DOMAIN C : \A x \in C[c] : x <= s => (x \notin B <=> Key(x) < k)
    BY <1>2, PrecedesOrders DEF B
  <1> QED
    BY <1>1, <1>5, <1>6 DEF n

LEMMA FirstMoves ==
  ASSUME HistoryTypes, NEW C, \A c \in DOMAIN C : C[c] \subseteq Entries, NEW s
  PROVE  /\ ~MergeFirst(C).reverse /\ Placed(C, s, MergeFirst(C))
         /\ \A c \in DOMAIN C : \A x \in C[c] : x <= s => ~Passed(MergeFirst(C), x)
  <1> DEFINE n == MergeFirst(C)
  <1>1. /\ n.reverse = FALSE /\ DOMAIN n.at = DOMAIN C /\ \A c \in DOMAIN C : n.at[c] = First(C[c])
    BY DEF MergeFirst
  <1> HIDE DEF n
  <1>2. ASSUME NEW c \in DOMAIN C
        PROVE  /\ n.at[c] = None \/ n.at[c] \in C[c] \cap Entries
               /\ \A x \in C[c] : n.at[c] # None /\ (n.at[c] = x \/ Precedes(n.at[c], x))
    <2>1. C[c] \in SUBSET Entries /\ \A x \in C[c] : x # None
      BY PrecedesOrders
    <2> QED
      BY <1>1, <2>1, FirstIs
  <1>3. /\ Placed(C, s, n)
        /\ \A c \in DOMAIN C : \A x \in C[c] : x <= s => (Passed(n, x) <=> x \notin Entries)
    BY <1>1, <1>2, ForwardFrom
  <1> QED
    BY <1>1, <1>3 DEF n

LEMMA LastMoves ==
  ASSUME HistoryTypes, NEW C, \A c \in DOMAIN C : C[c] \subseteq Entries, NEW s
  PROVE  /\ MergeLast(C).reverse /\ Placed(C, s, MergeLast(C))
         /\ \A c \in DOMAIN C : \A x \in C[c] : x <= s => ~Passed(MergeLast(C), x)
  <1> DEFINE n == MergeLast(C)
  <1>1. /\ n.reverse = TRUE /\ DOMAIN n.at = DOMAIN C /\ \A c \in DOMAIN C : n.at[c] = Final(C[c])
    BY DEF MergeLast
  <1> HIDE DEF n
  <1>2. ASSUME NEW c \in DOMAIN C
        PROVE  /\ n.at[c] = None \/ n.at[c] \in C[c] \cap Entries
               /\ \A x \in C[c] : n.at[c] # None /\ (n.at[c] = x \/ Precedes(x, n.at[c]))
    <2>1. C[c] \in SUBSET Entries /\ \A x \in C[c] : x # None
      BY PrecedesOrders
    <2> QED
      BY <1>1, <2>1, FinalIs
  <1>3. /\ Placed(C, s, n)
        /\ \A c \in DOMAIN C : \A x \in C[c] : x <= s => (Passed(n, x) <=> x \notin Entries)
    BY <1>1, <1>2, BackwardFrom
  <1> QED
    BY <1>1, <1>3 DEF n

-----------------------------------------------------------------------------
(* What a reader at s sees *)

\* Some entry of each key is the newest.
LEMMA NewestIs ==
  ASSUME HistoryTypes, NEW s \in 0 .. Len(hist), NEW e \in Entries, e <= s
  PROVE  \E n \in Entries : Newest(n, s) /\ Key(n) = Key(e) /\ e <= n
  <1>1. PICK S : S = {x \in Entries : x <= s /\ Key(x) = Key(e)}
    OBVIOUS
  <1>2. S \in SUBSET Int /\ S # {} /\ e \in S /\ Len(hist) \in Int /\ \A x \in S : x <= Len(hist)
    BY <1>1 DEF Entries, HistoryTypes
  <1>3. PICK n : n = Max(S)
    OBVIOUS
  <1>4. n \in S /\ \A x \in S : x <= n
    BY <1>2, <1>3, GreatestInteger
  <1> QED
    BY <1>1, <1>2, <1>4 DEF Newest

LEMMA SeenIs ==
  ASSUME HistoryTypes, NEW s \in 0 .. Len(hist)
  PROVE  /\ \A v \in Seen(s) : v \in Entries /\ v <= s /\ Newest(v, s) /\ ~Deletes(v)
         /\ \A v \in Entries : Newest(v, s) /\ ~Deletes(v) => v \in Seen(s)
         /\ \A v, w \in Seen(s) : Key(v) = Key(w) => v = w
  <1>1. Len(hist) \in Nat
    BY DEF HistoryTypes
  <1>2. \A x \in Entries : x <= s <=> x \in 1 .. s
    BY <1>1 DEF Entries
  <1>3. 1 .. s \subseteq Entries
    BY <1>1 DEF Entries
  <1>4. \A v \in Seen(s) : v \in Entries /\ v <= s /\ Newest(v, s) /\ ~Deletes(v)
    BY <1>2, <1>3 DEF Seen, Newest, Key
  <1>5. \A v \in Entries : Newest(v, s) /\ ~Deletes(v) => v \in Seen(s)
    BY <1>2, <1>3 DEF Seen, Newest, Key
  <1>6. ASSUME NEW v \in Seen(s), NEW w \in Seen(s), Key(v) = Key(w) PROVE v = w
    <2>1. v <= w /\ w <= v
      BY <1>4, <1>6 DEF Newest
    <2>2. v \in Int /\ w \in Int
      BY <1>4 DEF Entries
    <2> QED
      BY <2>1, <2>2
  <1> QED
    BY <1>4, <1>5, <1>6

\* An iterator holds what is to be seen, and what it holds newest of a key is to be seen.
LEMMA HeldIs ==
  ASSUME HistoryTypes, NEW it, IterTypes(it), ReadsAll(it)
  PROVE  /\ Held(it) \subseteq Entries
         /\ Seen(it.s) \subseteq Held(it)
         /\ \A e \in Held(it) :
              e <= it.s /\ ~Deletes(e) /\ (\A x \in Held(it) : x <= it.s /\ Key(x) = Key(e) => ~(x > e))
              => e \in Seen(it.s)
  <1>1. it.s \in 0 .. Len(hist) /\ Held(it) \subseteq Entries
    BY DEF IterTypes, Held
  <1>2. \A e \in Entries : e <= it.s <=> e \in 1 .. it.s
    BY <1>1 DEF HistoryTypes, Entries
  <1>3. Seen(it.s) \subseteq Held(it)
    BY <1>1, <1>2, SeenIs DEF ReadsAll
  <1>4. ASSUME NEW e \in Held(it), e <= it.s, ~Deletes(e),
               \A x \in Held(it) : x <= it.s /\ Key(x) = Key(e) => ~(x > e)
        PROVE  e \in Seen(it.s)
    <2>1. PICK n \in Entries : Newest(n, it.s) /\ Key(n) = Key(e) /\ e <= n
      BY <1>1, <1>4, NewestIs
    <2>2. n \in Held(it)
      <3>1. n \in 1 .. it.s
        BY <1>2, <2>1 DEF Newest
      <3> QED
        BY <1>4, <2>1, <3>1 DEF ReadsAll
    <2>3. n = e
      <3>1. n \in Int /\ e \in Int /\ ~(n > e)
        BY <1>1, <1>4, <2>1, <2>2 DEF Newest, Entries
      <3> QED
        BY <2>1, <3>1
    <2> QED
      BY <1>1, <1>4, <2>1, <2>3, SeenIs
  <1> QED
    BY <1>1, <1>3, <1>4

\* The least and the greatest key that is seen.
LEMMA FirstSeen ==
  ASSUME HistoryTypes, NEW s \in 0 .. Len(hist), NEW S \in SUBSET Seen(s)
  PROVE  /\ First(S) = None <=> S = {}
         /\ First(S) # None => First(S) \in S /\ \A x \in S : x = First(S) \/ Key(First(S)) < Key(x)
         /\ Final(S) = None <=> S = {}
         /\ Final(S) # None => Final(S) \in S /\ \A x \in S : x = Final(S) \/ Key(x) < Key(Final(S))
  <1>1. S \in SUBSET Entries /\ \A v, w \in S : Key(v) = Key(w) => v = w
    BY SeenIs
  <1>2. \A v \in S : v # None /\ Key(v) \in Nat
    BY <1>1, PrecedesOrders
  <1>3. \A v, w \in S : v = w \/ (Precedes(v, w) => Key(v) < Key(w))
    BY <1>1 DEF Precedes
  <1>4. First(S) # None => First(S) \in S /\ \A x \in S : First(S) = x \/ Precedes(First(S), x)
    BY <1>1, FirstIs
  <1>5. Final(S) # None => Final(S) \in S /\ \A x \in S : Final(S) = x \/ Precedes(x, Final(S))
    BY <1>1, FinalIs
  <1>6. (First(S) = None <=> S = {}) /\ (Final(S) = None <=> S = {})
    BY <1>1, <1>2, FirstIs, FinalIs
  <1> QED
    BY <1>3, <1>4, <1>5, <1>6

-----------------------------------------------------------------------------
(* Calls *)

\* The same iterator in another place.
Like(it, j) ==
  /\ DOMAIN j = DOMAIN it /\ j.loop \in {"none", "next", "prev", "before"}
  /\ j.s = it.s /\ j.children = it.children /\ j.growing = it.growing

LEMMA LikeTypes ==
  ASSUME NEW it, IterTypes(it), ReadsAll(it), NEW j, Like(it, j)
  PROVE  IterTypes(j) /\ ReadsAll(j) /\ Held(j) = Held(it)
  <1>1. Held(j) = Held(it)
    BY DEF Like, Held
  <1>2. IterTypes(j)
    BY DEF Like, IterTypes
  <1> QED
    BY <1>1, <1>2 DEF Like, ReadsAll

\* A loop going forward starts at the entries that are neither passed nor hidden.
LEMMA NextStarts ==
  ASSUME HistoryTypes, NEW it, IterTypes(it), ReadsAll(it),
         ~it.m.reverse, Placed(it.children, it.s, it.m), it.skip = None \/ it.skip \in Nat,
         \A x \in Held(it) : x <= it.s =>
           IF Passed(it.m, x) THEN Hidden(it, x) \/ (Valid(it.m) => Key(x) < Key(Current(it.m)))
           ELSE it.skip # None => it.skip <= Key(x),
         NEW g, g = First({v \in Seen(it.s) : ~Passed(it.m, v) /\ ~Hidden(it, v)})
  PROVE  NextInv(it, g) /\ g \in Seen(it.s) \cup {None}
  <1>1. PICK S : S = {v \in Seen(it.s) : ~Passed(it.m, v) /\ ~Hidden(it, v)}
    OBVIOUS
  <1>2. it.s \in 0 .. Len(hist)
    BY DEF IterTypes
  <1>3. /\ g = None <=> S = {}
        /\ g # None => g \in S /\ \A x \in S : x = g \/ Key(g) < Key(x)
    <2>1. S \in SUBSET Seen(it.s) /\ g = First(S)
      BY <1>1
    <2> QED
      BY <1>2, <2>1, FirstSeen
  <1>4. ASSUME NEW v \in Seen(it.s), g = None \/ Key(v) < Key(g) PROVE v \notin S
    <2>1. CASE g # None
      <3>1. g \in Entries /\ v \in Entries
        BY <1>1, <1>2, <1>3, <2>1, SeenIs
      <3>2. Key(g) \in Nat /\ Key(v) \in Nat /\ Key(v) < Key(g)
        BY <1>4, <2>1, <3>1, PrecedesOrders
      <3> QED
        BY <1>3, <2>1, <3>2
    <2> QED
      BY <1>3, <2>1
  <1>5. \A v \in Seen(it.s) : (g = None \/ Key(v) < Key(g)) => Passed(it.m, v) \/ Hidden(it, v)
    BY <1>1, <1>4
  <1>6. g # None => g \in Seen(it.s) /\ ~Passed(it.m, g) /\ ~Hidden(it, g)
    BY <1>1, <1>3
  <1> QED
    BY <1>5, <1>6 DEF NextInv

\* One going back starts at the entries that are not passed.
LEMMA PrevStarts ==
  ASSUME HistoryTypes, NEW it, IterTypes(it), ReadsAll(it),
         it.m.reverse, Placed(it.children, it.s, it.m), it.reverse, it.saved = None,
         NEW g, g = Final({v \in Seen(it.s) : ~Passed(it.m, v)})
  PROVE  PrevInv(it, g) /\ g \in Seen(it.s) \cup {None}
  <1>1. PICK S : S = {v \in Seen(it.s) : ~Passed(it.m, v)}
    OBVIOUS
  <1>2. it.s \in 0 .. Len(hist)
    BY DEF IterTypes
  <1>3. /\ g = None <=> S = {}
        /\ g # None => g \in S /\ \A x \in S : x = g \/ Key(x) < Key(g)
    <2>1. S \in SUBSET Seen(it.s) /\ g = Final(S)
      BY <1>1
    <2> QED
      BY <1>2, <2>1, FirstSeen
  <1>4. ASSUME NEW v \in Seen(it.s), g = None \/ Key(g) < Key(v) PROVE v \notin S
    <2>1. CASE g # None
      <3>1. g \in Entries /\ v \in Entries
        BY <1>1, <1>2, <1>3, <2>1, SeenIs
      <3>2. Key(g) \in Nat /\ Key(v) \in Nat /\ Key(g) < Key(v)
        BY <1>4, <2>1, <3>1, PrecedesOrders
      <3> QED
        BY <1>3, <2>1, <3>2
    <2> QED
      BY <1>3, <2>1
  <1>5. \A v \in Seen(it.s) : (g = None \/ Key(g) < Key(v)) => Passed(it.m, v)
    BY <1>1, <1>4
  <1>6. g # None => g \in Seen(it.s) /\ ~Passed(it.m, g)
    BY <1>1, <1>3
  <1> QED
    BY <1>5, <1>6 DEF PrevInv

LEMMA CurrentHeld ==
  ASSUME HistoryTypes, NEW it, IterTypes(it), Placed(it.children, it.s, it.m)
  PROVE  Current(it.m) # None => Current(it.m) \in Held(it) /\ Current(it.m) \in Entries
  <1>1. \A c \in DOMAIN it.children : it.children[c] \subseteq Entries
    BY DEF IterTypes
  <1>2. DOMAIN it.m.at = DOMAIN it.children
        /\ \A c \in DOMAIN it.children : it.m.at[c] = None \/ it.m.at[c] \in it.children[c]
    BY DEF Placed
  <1>3. Current(it.m) # None =>
          /\ Current(it.m) \in Entries
          /\ \E c \in DOMAIN it.children : it.m.at[c] = Current(it.m) /\ Current(it.m) \in it.children[c]
    BY <1>1, <1>2, CurrentIs
  <1> QED
    BY <1>3 DEF Held

\* Seek and SeekToFirst, where k is below all keys.
LEMMA SeekStarts ==
  ASSUME HistoryTypes, NEW it, IterTypes(it), ReadsAll(it),
         NEW j, Like(it, j), j.loop = "next", j.skip = None,
         ~j.m.reverse, Placed(it.children, it.s, j.m), NEW k \in Nat,
         \A c \in DOMAIN it.children : \A x \in it.children[c] :
           x <= it.s => (Passed(j.m, x) <=> Key(x) < k),
         NEW g, g = First({v \in Seen(it.s) : Key(v) >= k})
  PROVE  IterGood(j, g)
  <1>1. IterTypes(j) /\ ReadsAll(j) /\ Held(j) = Held(it) /\ j.s = it.s /\ j.children = it.children
    BY LikeTypes DEF Like
  <1>2. Placed(j.children, j.s, j.m)
    BY <1>1
  <1>3. \A x \in Held(j) : x <= j.s => (Passed(j.m, x) <=> Key(x) < k)
    BY <1>1 DEF Held
  <1>4. Current(j.m) # None => Current(j.m) \in Held(j) /\ Current(j.m) \in Entries
    BY <1>1, <1>2, CurrentHeld
  <1>5. Held(j) \subseteq Entries /\ Seen(j.s) \subseteq Held(j)
    BY <1>1, HeldIs
  <1>6. ASSUME NEW x \in Held(j), x <= j.s, Passed(j.m, x), Valid(j.m) PROVE Key(x) < Key(Current(j.m))
    <2> DEFINE c == Current(j.m)
    <2>1. c \in Held(j) /\ c \in Entries /\ x \in Entries /\ c # None
      BY <1>4, <1>5, <1>6 DEF Valid
    <2>2. Precedes(x, c) /\ Key(x) < k
      BY <1>3, <1>6, <2>1 DEF Passed
    <2>3. ~Passed(j.m, c)
      BY <2>1, PrecedesOrders DEF Passed
    <2>4. Key(x) \in Nat /\ Key(c) \in Nat /\ x \in Nat /\ c \in Nat /\ j.s \in Nat
      BY <1>1, <2>1, PrecedesOrders DEF IterTypes
    <2>5. CASE c <= j.s
      <3>1. ~(Key(c) < k)
        BY <1>3, <2>1, <2>3, <2>5
      <3> QED
        BY <2>2, <2>4, <3>1
    <2>6. CASE ~(c <= j.s)
      BY <1>6, <2>2, <2>4, <2>6 DEF Precedes
    <2> QED
      BY <2>5, <2>6
  <1>7. g = First({v \in Seen(j.s) : ~Passed(j.m, v) /\ ~Hidden(j, v)})
    <2>1. \A v \in Seen(j.s) : v \in Held(j) /\ v <= j.s /\ Key(v) \in Nat
      BY <1>1, <1>5, SeenIs, PrecedesOrders DEF IterTypes
    <2>2. \A v \in Seen(j.s) : ~Passed(j.m, v) /\ ~Hidden(j, v) <=> Key(v) >= k
      BY <1>3, <2>1 DEF Hidden
    <2>3. {v \in Seen(it.s) : Key(v) >= k} = {v \in Seen(j.s) : ~Passed(j.m, v) /\ ~Hidden(j, v)}
      BY <1>1, <2>2
    <2> QED
      BY <2>3
  <1>8. NextInv(j, g) /\ g \in Seen(j.s) \cup {None}
    BY <1>1, <1>2, <1>6, <1>7, NextStarts DEF Hidden
  <1> QED
    BY <1>1, <1>8 DEF IterGood

\* Next, from the entry that is shown to the keys behind it.
LEMMA NextStartsBehind ==
  ASSUME HistoryTypes, NEW it, IterTypes(it), ReadsAll(it), NEW e \in Seen(it.s),
         NEW j, Like(it, j), j.loop = "next", j.skip = Key(e),
         ~j.m.reverse, Placed(it.children, it.s, j.m),
         \A x \in Held(it) : x <= it.s =>
           IF Passed(j.m, x) THEN Key(x) <= Key(e) ELSE Key(e) <= Key(x),
         NEW g, g = First({v \in Seen(it.s) : Key(v) > Key(e)})
  PROVE  IterGood(j, g)
  <1>1. IterTypes(j) /\ ReadsAll(j) /\ Held(j) = Held(it) /\ j.s = it.s /\ j.children = it.children
    BY LikeTypes DEF Like
  <1>2. Placed(j.children, j.s, j.m)
    BY <1>1
  <1>3. Seen(j.s) \subseteq Held(j) /\ \A v \in Seen(j.s) : v \in Entries /\ v <= j.s
    BY <1>1, HeldIs, SeenIs DEF IterTypes
  <1>4. Key(e) \in Nat /\ Key(e) # None /\ \A v \in Seen(j.s) : Key(v) \in Nat
    BY <1>1, <1>3, PrecedesOrders, NoneAssumption
  <1>5. \A v \in Seen(j.s) : ~Passed(j.m, v) /\ ~Hidden(j, v) <=> Key(v) > Key(e)
    <2> TAKE v \in Seen(j.s)
    <2>1. v \in Held(it) /\ v <= it.s
      BY <1>1, <1>3
    <2>2. IF Passed(j.m, v) THEN Key(v) <= Key(e) ELSE Key(e) <= Key(v)
      BY <2>1
    <2>3. Hidden(j, v) <=> Key(v) <= Key(e)
      BY <1>4 DEF Hidden
    <2> QED
      BY <1>4, <2>2, <2>3
  <1>6. {v \in Seen(it.s) : Key(v) > Key(e)} = {v \in Seen(j.s) : ~Passed(j.m, v) /\ ~Hidden(j, v)}
    BY <1>1, <1>5
  <1>7. j.skip = None \/ j.skip \in Nat
    BY <1>4
  <1>8. \A x \in Held(j) : x <= j.s =>
           IF Passed(j.m, x) THEN Hidden(j, x) \/ (Valid(j.m) => Key(x) < Key(Current(j.m)))
           ELSE j.skip # None => j.skip <= Key(x)
    BY <1>1, <1>4 DEF Hidden
  <1>9. g = First({v \in Seen(j.s) : ~Passed(j.m, v) /\ ~Hidden(j, v)})
    BY <1>6
  <1>10. NextInv(j, g) /\ g \in Seen(j.s) \cup {None}
    BY <1>1, <1>2, <1>7, <1>8, <1>9, NextStarts
  <1> QED
    BY <1>1, <1>10 DEF IterGood

\* SeekToLast, and Prev going back before.
LEMMA PrevStartsAt ==
  ASSUME HistoryTypes, NEW it, IterTypes(it), ReadsAll(it),
         NEW j, Like(it, j), j.loop = "prev", j.saved = None, j.reverse,
         j.m.reverse, Placed(it.children, it.s, j.m),
         NEW g, g = Final({v \in Seen(it.s) : ~Passed(j.m, v)})
  PROVE  IterGood(j, g)
  <1>1. IterTypes(j) /\ ReadsAll(j) /\ j.s = it.s /\ j.children = it.children
    BY LikeTypes DEF Like
  <1>2. PrevInv(j, g) /\ g \in Seen(j.s) \cup {None}
    BY <1>1, PrevStarts
  <1> QED
    BY <1>1, <1>2 DEF IterGood

\* Prev going forward before, from the entry e.
LEMMA BeforeStarts ==
  ASSUME HistoryTypes, NEW it, IterTypes(it), ReadsAll(it), NEW e \in Seen(it.s),
         Placed(it.children, it.s, it.m), Current(it.m) = e,
         NEW j, Like(it, j), j.loop = "before", j.m = it.m, j.skip = Key(e), j.saved = None, ~j.reverse,
         NEW g, g = Final({v \in Seen(it.s) : Key(v) < Key(e)})
  PROVE  IterGood(j, g)
  <1>1. IterTypes(j) /\ ReadsAll(j) /\ j.s = it.s /\ j.children = it.children /\ it.s \in 0 .. Len(hist)
    BY LikeTypes DEF Like, IterTypes
  <1>2. /\ e \in Entries /\ e # None /\ Key(e) \in Nat
        /\ \A v \in Seen(it.s) : v \in Entries /\ Key(v) \in Nat
    BY <1>1, SeenIs, PrecedesOrders
  <1>3. PICK S : S = {v \in Seen(it.s) : Key(v) < Key(e)}
    OBVIOUS
  <1>4. /\ g = None <=> S = {}
        /\ g # None => g \in S /\ \A x \in S : x = g \/ Key(x) < Key(g)
    <2>1. S \in SUBSET Seen(it.s) /\ g = Final(S)
      BY <1>3
    <2> QED
      BY <1>1, <2>1, FirstSeen
  <1>5. \A v \in Seen(j.s) : Key(v) < j.skip => g # None /\ Key(v) <= Key(g)
    <2> SUFFICES ASSUME NEW v \in Seen(j.s), Key(v) < Key(e) PROVE g # None /\ Key(v) <= Key(g)
      OBVIOUS
    <2>1. v \in S
      BY <1>1, <1>3
    <2>2. g # None /\ (v = g \/ Key(v) < Key(g)) /\ g \in Seen(it.s) /\ v \in Seen(it.s)
      BY <1>1, <1>3, <1>4, <2>1
    <2> QED
      BY <1>2, <2>2
  <1>6. g # None => g \in Seen(j.s) /\ Key(g) < j.skip
    BY <1>1, <1>3, <1>4
  <1>7. BeforeInv(j, g)
    BY <1>1, <1>2, <1>5, <1>6 DEF BeforeInv, Valid
  <1> QED
    BY <1>1, <1>6, <1>7 DEF IterGood

\* Wherever it was shown from, what is before the entry that is shown is passed.
NextFrom(it) ==
  IF ~it.reverse THEN it.m
  ELSE IF Valid(it.m) THEN MergeNext(it.children, it.m) ELSE MergeFirst(it.children)

LEMMA NextFromShown ==
  ASSUME HistoryTypes, NEW it, IterTypes(it), ReadsAll(it), NEW e \in Seen(it.s),
         it.valid, RestInv(it, e)
  PROVE  /\ ~NextFrom(it).reverse /\ Placed(it.children, it.s, NextFrom(it))
         /\ \A x \in Held(it) : x <= it.s =>
              IF Passed(NextFrom(it), x) THEN Key(x) <= Key(e) ELSE Key(e) <= Key(x)
  <1> DEFINE n == NextFrom(it)
             C == it.children
  <1>1. /\ Placed(C, it.s, it.m) /\ (it.reverse <=> it.m.reverse)
        /\ it.reverse => \A x \in Held(it) : x <= it.s => (Passed(it.m, x) <=> Key(e) <= Key(x))
        /\ ~it.reverse => Current(it.m) = e
    BY DEF RestInv
  <1>2. /\ \A c \in DOMAIN C : C[c] \subseteq Entries
        /\ Held(it) \subseteq Entries /\ e \in Entries
        /\ \A x \in Held(it) : \E c \in DOMAIN C : x \in C[c]
    BY HeldIs DEF IterTypes, Held
  <1>3. Key(e) \in Nat /\ e # None /\ \A x \in Held(it) : Key(x) \in Nat
    BY <1>2, PrecedesOrders
  <1>4. CASE ~it.reverse
    <2>1. n = it.m
      BY <1>4 DEF NextFrom
    <2>2. \A x \in Held(it) : Passed(n, x) <=> Precedes(x, e)
      BY <1>1, <1>3, <1>4, <2>1 DEF Passed
    <2>3. \A x \in Held(it) : IF Precedes(x, e) THEN Key(x) <= Key(e) ELSE Key(e) <= Key(x)
      BY <1>3 DEF Precedes
    <2> QED
      BY <1>1, <1>4, <2>1, <2>2, <2>3
  <1>5. CASE it.reverse /\ Valid(it.m)
    <2>1. n = MergeNext(C, it.m) /\ Current(it.m) # None
      BY <1>5 DEF NextFrom, Valid
    <2>2. /\ ~n.reverse /\ Placed(C, it.s, n)
          /\ \A c \in DOMAIN C : \A x \in C[c] : x <= it.s => (Passed(n, x) <=> ~Precedes(Current(it.m), x))
      BY <1>1, <1>2, <2>1, NextMoves
    <2>3. \A x \in Held(it) : x <= it.s => (Passed(n, x) <=> ~Passed(it.m, x))
      BY <1>1, <1>2, <1>5, <2>1, <2>2 DEF Passed
    <2>4. \A x \in Held(it) : x <= it.s => (Passed(n, x) <=> ~(Key(e) <= Key(x)))
      BY <1>1, <1>5, <2>3
    <2> QED
      BY <1>3, <2>2, <2>4
  <1>6. CASE it.reverse /\ ~Valid(it.m)
    <2>1. n = MergeFirst(C)
      BY <1>6 DEF NextFrom
    <2>2. /\ ~n.reverse /\ Placed(C, it.s, n)
          /\ \A c \in DOMAIN C : \A x \in C[c] : x <= it.s => ~Passed(n, x)
      BY <1>2, <2>1, FirstMoves
    <2>3. \A x \in Held(it) : x <= it.s => Key(e) <= Key(x)
      BY <1>1, <1>6 DEF Passed, Valid
    <2> QED
      BY <1>2, <2>2, <2>3
  <1> QED
    BY <1>4, <1>5, <1>6

-----------------------------------------------------------------------------
(* Rounds of the loops *)

\* What every round may take for granted.
LEMMA RoundTypes ==
  ASSUME HistoryTypes, NEW it, IterTypes(it), ReadsAll(it)
  PROVE  /\ it.s \in Nat /\ Held(it) \subseteq Entries /\ Seen(it.s) \subseteq Held(it)
         /\ \A x \in Held(it) : x \in Nat /\ x # None /\ Key(x) \in Nat
         /\ \A v \in Seen(it.s) : v <= it.s /\ ~Deletes(v)
         /\ \A v \in Seen(it.s), x \in Held(it) : x <= it.s /\ Key(x) = Key(v) => x <= v
         /\ \A v, w \in Seen(it.s) : Key(v) = Key(w) => v = w
  <1>1. it.s \in 0 .. Len(hist) /\ Held(it) \subseteq Entries /\ Seen(it.s) \subseteq Held(it)
    BY HeldIs DEF IterTypes
  <1>2. \A x \in Held(it) : x \in Nat /\ x # None /\ Key(x) \in Nat
    BY <1>1, PrecedesOrders
  <1>3. \A v \in Seen(it.s) : v \in Entries /\ v <= it.s /\ Newest(v, it.s) /\ ~Deletes(v)
    BY <1>1, SeenIs
  <1>4. \A v, w \in Seen(it.s) : Key(v) = Key(w) => v = w
    BY <1>1, SeenIs
  <1>5. \A v \in Seen(it.s), x \in Held(it) : x <= it.s /\ Key(x) = Key(v) => x <= v
    BY <1>1, <1>3 DEF Newest
  <1> QED
    BY <1>1, <1>2, <1>3, <1>4, <1>5

\* Going forward: what the merging iterator is at when a round shows it is the goal.
LEMMA NextShows ==
  ASSUME HistoryTypes, NEW it, IterTypes(it), ReadsAll(it), NEW g \in Seen(it.s) \cup {None},
         NextInv(it, g)
  PROVE  /\ Current(it.m) = None => g = None
         /\ Current(it.m) # None /\ Current(it.m) <= it.s /\ ~Deletes(Current(it.m))
              /\ ~Hidden(it, Current(it.m)) => g = Current(it.m)
  <1> DEFINE e == Current(it.m)
  <1> USE RoundTypes
  <1>1. e = None => g = None
    BY DEF NextInv, Passed
  <1>2. ASSUME e # None, e <= it.s, ~Deletes(e), ~Hidden(it, e) PROVE g = e
    <2>1. e \in Held(it) /\ ~it.m.reverse
      BY <1>2, CurrentHeld DEF NextInv
    <2>2. \A x \in Held(it) : Passed(it.m, x) <=> Precedes(x, e)
      BY <1>2, <2>1 DEF Passed
    <2>3. ~Passed(it.m, e)
      BY <2>1, <2>2 DEF Precedes
    <2>4. ASSUME NEW x \in Held(it), x <= it.s, Key(x) = Key(e), x > e PROVE FALSE
      <3>1. Passed(it.m, x)
        BY <2>2, <2>4 DEF Precedes
      <3>2. Hidden(it, x) \/ Key(x) < Key(e)
        BY <1>2, <2>4, <3>1 DEF NextInv, Valid
      <3> QED
        BY <1>2, <2>1, <2>4, <3>2 DEF Hidden
    <2>5. e \in Seen(it.s)
      BY <1>2, <2>1, <2>4, HeldIs
    <2>6. g # None /\ ~(Key(e) < Key(g)) /\ ~Passed(it.m, g)
      BY <1>2, <2>3, <2>5 DEF NextInv
    <2>7. g \in Held(it) /\ ~Precedes(g, e)
      BY <2>2, <2>6
    <2>8. Key(g) = Key(e)
      BY <2>1, <2>6, <2>7 DEF Precedes
    <2> QED
      BY <2>5, <2>6, <2>8
  <1> QED
    BY <1>1, <1>2

\* And a round that does not show it goes on.
LEMMA NextGoesOn ==
  ASSUME HistoryTypes, NEW it, IterTypes(it), ReadsAll(it), NEW g \in Seen(it.s) \cup {None},
         NextInv(it, g), Current(it.m) # None,
         ~(Current(it.m) <= it.s /\ ~Deletes(Current(it.m)) /\ ~Hidden(it, Current(it.m))),
         NEW j, Like(it, j), j.m = MergeNext(it.children, it.m),
         j.skip = IF Current(it.m) <= it.s /\ Deletes(Current(it.m)) THEN Key(Current(it.m)) ELSE it.skip
  PROVE  NextInv(j, g)
  <1>1. PICK e : e = Current(it.m)
    OBVIOUS
  <1>2. PICK n : n = MergeNext(it.children, it.m)
    OBVIOUS
  <1> USE RoundTypes
  <1>3. e \in Held(it) /\ e \in Entries /\ e # None /\ ~it.m.reverse
    BY <1>1, CurrentHeld DEF NextInv
  <1>4. j.s = it.s /\ j.children = it.children /\ Held(j) = Held(it)
    BY LikeTypes DEF Like
  <1>5. /\ ~n.reverse /\ Placed(it.children, it.s, n)
        /\ Current(n) # None => Precedes(e, Current(n))
        /\ \A c \in DOMAIN it.children : \A x \in it.children[c] :
             x <= it.s => (Passed(n, x) <=> ~Precedes(e, x))
    <2>1. Placed(it.children, it.s, it.m) /\ \A c \in DOMAIN it.children : it.children[c] \subseteq Entries
      BY DEF NextInv, IterTypes
    <2> QED
      BY <1>1, <1>2, <2>1, NextMoves
  <1>6. \A x \in Held(it) : x <= it.s => (Passed(n, x) <=> ~Precedes(e, x))
    BY <1>5 DEF Held
  <1>7. \A x \in Held(it) : Passed(it.m, x) <=> Precedes(x, e)
    BY <1>1, <1>3 DEF Passed
  <1>8. \A x \in Held(it) : /\ ~Precedes(e, x) <=> x = e \/ Precedes(x, e)
                            /\ Precedes(e, x) => Key(e) <= Key(x)
                            /\ Precedes(x, e) => Key(x) <= Key(e)
    BY <1>3 DEF Precedes
  <1>9. j.skip = None \/ j.skip \in Nat
    BY <1>1, <1>3 DEF NextInv
  <1>10. Current(n) # None => Key(e) <= Key(Current(n)) /\ Key(Current(n)) \in Nat
    BY <1>2, <1>3, <1>4, <1>5, LikeTypes, CurrentHeld DEF Precedes
  <1>11. ASSUME e <= it.s, Deletes(e)
         PROVE  /\ j.skip = Key(e) /\ j.skip # None
                /\ \A x \in Held(it) : Hidden(j, x) <=> Key(x) <= Key(e)
                /\ \A x \in Held(it) : Hidden(it, x) => Hidden(j, x)
    <2>1. j.skip = Key(e) /\ j.skip # None
      BY <1>1, <1>3, <1>11, NoneAssumption
    <2>2. it.skip # None => it.skip <= Key(e) /\ it.skip \in Nat
      <3>1. ~Passed(it.m, e)
        BY <1>3, <1>7 DEF Precedes
      <3> QED
        BY <1>3, <1>11, <3>1 DEF NextInv
    <2>3. \A x \in Held(it) : Hidden(j, x) <=> Key(x) <= Key(e)
      BY <2>1 DEF Hidden
    <2> QED
      BY <1>3, <2>1, <2>2, <2>3 DEF Hidden
  <1>12. ASSUME ~(e <= it.s /\ Deletes(e))
         PROVE  /\ e <= it.s => Hidden(it, e)
                /\ j.skip = it.skip
                /\ \A x \in Held(it) : Hidden(j, x) <=> Hidden(it, x)
    BY <1>1, <1>12 DEF Hidden
  <1>13. ASSUME NEW x \in Held(it), x <= it.s, Passed(n, x)
         PROVE  Hidden(j, x) \/ (Valid(n) => Key(x) < Key(Current(n)))
    <2>1. x = e \/ Precedes(x, e)
      BY <1>6, <1>8, <1>13
    <2>2. CASE x = e
      BY <1>3, <1>11, <1>12, <1>13, <2>2
    <2>3. CASE Precedes(x, e)
      <3>1. Hidden(it, x) \/ Key(x) < Key(e)
        BY <1>1, <1>3, <1>7, <1>13, <2>3 DEF NextInv, Valid
      <3>2. Hidden(it, x) => Hidden(j, x)
        BY <1>11, <1>12
      <3>3. Key(x) < Key(e) => (Valid(n) => Key(x) < Key(Current(n)))
        BY <1>3, <1>10 DEF Valid
      <3> QED
        BY <3>1, <3>2, <3>3
    <2> QED
      BY <2>1, <2>2, <2>3
  <1>14. ASSUME NEW x \in Held(it), x <= it.s, ~Passed(n, x)
         PROVE  j.skip # None => j.skip <= Key(x)
    <2>1. Precedes(e, x) /\ Key(e) <= Key(x) /\ ~Passed(it.m, x)
      BY <1>3, <1>6, <1>7, <1>8, <1>14 DEF Precedes
    <2>2. it.skip # None => it.skip <= Key(x)
      BY <1>14, <2>1 DEF NextInv
    <2> QED
      BY <1>11, <1>12, <2>1, <2>2
  <1>15. ASSUME NEW v \in Seen(it.s), g = None \/ Key(v) < Key(g) PROVE Passed(n, v) \/ Hidden(j, v)
    <2>1. Passed(it.m, v) \/ Hidden(it, v)
      BY <1>15 DEF NextInv
    <2> QED
      BY <1>6, <1>7, <1>8, <1>11, <1>12, <2>1
  <1>16. ASSUME g # None PROVE ~Passed(n, g) /\ ~Hidden(j, g)
    <2>1. g \in Held(it) /\ g \in Seen(it.s) /\ ~Passed(it.m, g) /\ ~Hidden(it, g)
      BY <1>16 DEF NextInv
    <2>2. g # e
      BY <1>1, <2>1
    <2>3. Precedes(e, g)
      BY <1>7, <1>8, <2>1, <2>2
    <2>4. ASSUME e <= it.s, Deletes(e) PROVE Key(e) < Key(g)
      <3>1. Key(e) <= Key(g) /\ (Key(e) = Key(g) => e <= g /\ e > g)
        BY <1>3, <1>8, <2>1, <2>3, <2>4 DEF Precedes
      <3> QED
        BY <1>3, <2>1, <3>1
    <2>5. ~Hidden(j, g)
      BY <1>3, <1>11, <1>12, <2>1, <2>4
    <2> QED
      BY <1>6, <2>1, <2>3, <2>5
  <1>17. j.m = n /\ Placed(j.children, j.s, n)
    BY <1>2, <1>4, <1>5
  <1> QED
    BY <1>4, <1>5, <1>9, <1>13, <1>14, <1>15, <1>16, <1>17 DEF NextInv

\* Before the key that was shown: one step back ends, comes to a smaller key, or goes on.
LEMMA BeforeRound ==
  ASSUME HistoryTypes, NEW it, IterTypes(it), ReadsAll(it), NEW g \in Seen(it.s) \cup {None},
         BeforeInv(it, g), NEW n, n = MergePrev(it.children, it.m)
  PROVE  /\ Current(n) = None => g = None
         /\ \A j : /\ Like(it, j) /\ j.m = n /\ Current(n) # None
                   /\ Key(Current(n)) < it.skip /\ j.reverse /\ j.saved = None
                   => PrevInv(j, g)
         /\ \A j : /\ Like(it, j) /\ j.m = n /\ Current(n) # None
                   /\ ~(Key(Current(n)) < it.skip) /\ j.skip = it.skip
                   /\ j.reverse = it.reverse /\ j.saved = it.saved
                   => BeforeInv(j, g)
  <1>1. PICK e : e = Current(it.m)
    OBVIOUS
  <1> USE RoundTypes
  <1>2. e \in Held(it) /\ e \in Entries /\ e # None
    BY <1>1, CurrentHeld DEF BeforeInv, Valid
  <1>3. /\ n.reverse /\ Placed(it.children, it.s, n)
        /\ Current(n) # None => Precedes(Current(n), e)
        /\ \A c \in DOMAIN it.children : \A x \in it.children[c] :
             x <= it.s => (Passed(n, x) <=> ~Precedes(x, e))
    <2>1. Placed(it.children, it.s, it.m) /\ \A c \in DOMAIN it.children : it.children[c] \subseteq Entries
      BY DEF BeforeInv, IterTypes
    <2> QED
      BY <1>1, <1>2, <2>1, PrevMoves
  <1>4. \A x \in Held(it) : x <= it.s => (Passed(n, x) <=> ~Precedes(x, e))
    BY <1>3 DEF Held
  <1>5. /\ it.skip \in Nat /\ it.skip <= Key(e)
        /\ \A v \in Seen(it.s) : Key(v) < it.skip => g # None /\ Key(v) <= Key(g)
        /\ g # None => Key(g) < it.skip
    BY <1>1 DEF BeforeInv
  <1>6. g # None => g \in Held(it) /\ g \in Seen(it.s) /\ Precedes(g, e) /\ ~Passed(n, g)
    <2> SUFFICES ASSUME g # None PROVE g \in Held(it) /\ g \in Seen(it.s) /\ Precedes(g, e) /\ ~Passed(n, g)
      OBVIOUS
    <2>1. g \in Held(it) /\ g \in Seen(it.s)
      OBVIOUS
    <2>2. Precedes(g, e)
      BY <1>2, <1>5, <2>1 DEF Precedes
    <2> QED
      BY <1>4, <2>1, <2>2
  <1>7. Current(n) = None => g = None
    BY <1>6 DEF Passed
  <1>8. ASSUME NEW j, Like(it, j), j.m = n
        PROVE  /\ j.s = it.s /\ j.children = it.children /\ Held(j) = Held(it) /\ IterTypes(j)
               /\ Current(n) # None => Current(n) \in Entries
    <2>1. j.s = it.s /\ j.children = it.children /\ Held(j) = Held(it) /\ IterTypes(j)
      BY <1>8, LikeTypes DEF Like
    <2> QED
      BY <1>3, <1>8, <2>1, CurrentHeld
  <1>9. ASSUME NEW j, Like(it, j), j.m = n, Current(n) # None,
               Key(Current(n)) < it.skip, j.reverse, j.saved = None
        PROVE  PrevInv(j, g)
    <2>1. ASSUME NEW v \in Seen(it.s), g = None \/ Key(g) < Key(v) PROVE Passed(n, v)
      <3>1. v \in Held(it) /\ Key(v) \in Nat /\ (g # None => Key(g) \in Nat)
        BY <1>6
      <3>2. ~(Key(v) < it.skip)
        BY <1>5, <2>1, <3>1
      <3>3. Key(Current(n)) \in Nat
        BY <1>8, <1>9, PrecedesOrders
      <3>4. Precedes(Current(n), v)
        BY <1>5, <1>9, <3>1, <3>2, <3>3 DEF Precedes
      <3> QED
        BY <1>3, <3>4 DEF Passed
    <2> QED
      BY <1>3, <1>6, <1>8, <1>9, <2>1 DEF PrevInv
  <1>10. ASSUME NEW j, Like(it, j), j.m = n, Current(n) # None,
                ~(Key(Current(n)) < it.skip), j.skip = it.skip,
                j.reverse = it.reverse, j.saved = it.saved
         PROVE  BeforeInv(j, g)
    <2>1. Key(Current(n)) \in Nat
      BY <1>8, <1>10, PrecedesOrders
    <2>2. j.skip <= Key(Current(j.m))
      BY <1>5, <1>10, <2>1
    <2>3. Placed(j.children, j.s, j.m) /\ Valid(j.m)
      BY <1>3, <1>8, <1>10 DEF Valid
    <2>4. ~j.reverse /\ j.saved = None
      BY <1>10 DEF BeforeInv
    <2> QED
      BY <1>5, <1>8, <1>10, <2>2, <2>3, <2>4 DEF BeforeInv
  <1> QED
    BY <1>7, <1>9, <1>10

\* Going back: the entry that was saved is the goal when a smaller key comes, or nothing.
LEMMA PrevShows ==
  ASSUME HistoryTypes, NEW it, IterTypes(it), ReadsAll(it), NEW g \in Seen(it.s) \cup {None},
         PrevInv(it, g),
         Current(it.m) = None
           \/ (it.saved # None /\ Current(it.m) <= it.s /\ Key(Current(it.m)) < Key(it.saved))
  PROVE  /\ g = it.saved
         /\ it.saved # None => \A x \in Held(it) : x <= it.s => (Passed(it.m, x) <=> Key(g) <= Key(x))
  <1> DEFINE e == Current(it.m)
  <1> USE RoundTypes
  <1>1. CASE it.saved = None
    <2>1. e = None
      BY <1>1
    <2>2. g # None => ~Passed(it.m, g)
      BY <1>1 DEF PrevInv
    <2> QED
      BY <1>1, <2>1, <2>2 DEF Passed
  <1>2. CASE it.saved # None
    <2>1. /\ it.m.reverse /\ it.saved \in Held(it) /\ it.saved <= it.s /\ ~Deletes(it.saved)
          /\ Passed(it.m, it.saved)
          /\ \A x \in Held(it) : x <= it.s /\ Passed(it.m, x) => Key(it.saved) <= Key(x)
      BY <1>2 DEF PrevInv
    <2>2. \A x \in Held(it) : x <= it.s /\ Key(it.saved) <= Key(x) => Passed(it.m, x)
      <3>1. CASE e = None
        BY <3>1 DEF Passed
      <3>2. CASE e # None
        <4>1. Key(e) < Key(it.saved) /\ Key(e) \in Nat
          BY <3>2, CurrentHeld DEF PrevInv
        <4>2. \A x \in Held(it) : Key(it.saved) <= Key(x) => Precedes(e, x)
          BY <2>1, <4>1 DEF Precedes
        <4> QED
          BY <2>1, <4>2 DEF Passed
      <3> QED
        BY <3>1, <3>2
    <2>3. it.saved \in Seen(it.s)
      <3>1. \A x \in Held(it) : x <= it.s /\ Key(x) = Key(it.saved) => ~(x > it.saved)
        BY <1>2, <2>1, <2>2 DEF PrevInv
      <3> QED
        BY <2>1, <3>1, HeldIs
    <2>4. g # None /\ ~(Key(g) < Key(it.saved))
      BY <1>2, <2>1, <2>3 DEF PrevInv
    <2>5. g = it.saved \/ ~Passed(it.m, g)
      BY <1>2, <2>4 DEF PrevInv
    <2>6. g \in Held(it) /\ g <= it.s /\ Passed(it.m, g)
      <3>1. g \in Held(it) /\ g <= it.s /\ Key(g) \in Nat /\ Key(it.saved) \in Nat
        BY <2>1, <2>4
      <3> QED
        BY <2>2, <2>4, <3>1
    <2> QED
      BY <2>1, <2>2, <2>5, <2>6
  <1> QED
    BY <1>1, <1>2

LEMMA PrevGoesOn ==
  ASSUME HistoryTypes, NEW it, IterTypes(it), ReadsAll(it), NEW g \in Seen(it.s) \cup {None},
         PrevInv(it, g), Current(it.m) # None,
         ~(it.saved # None /\ Current(it.m) <= it.s /\ Key(Current(it.m)) < Key(it.saved)),
         NEW j, Like(it, j), j.m = MergePrev(it.children, it.m), j.reverse = it.reverse,
         j.saved = IF Current(it.m) > it.s THEN it.saved
                   ELSE IF Deletes(Current(it.m)) THEN None ELSE Current(it.m)
  PROVE  PrevInv(j, g)
  <1>1. PICK e : e = Current(it.m)
    OBVIOUS
  <1>2. PICK n : n = MergePrev(it.children, it.m)
    OBVIOUS
  <1> USE RoundTypes
  <1>3. e \in Held(it) /\ e \in Entries /\ e # None /\ it.m.reverse
    BY <1>1, CurrentHeld DEF PrevInv
  <1>4. j.s = it.s /\ j.children = it.children /\ Held(j) = Held(it)
    BY LikeTypes DEF Like
  <1>5. /\ n.reverse /\ Placed(it.children, it.s, n)
        /\ \A c \in DOMAIN it.children : \A x \in it.children[c] :
             x <= it.s => (Passed(n, x) <=> ~Precedes(x, e))
    <2>1. Placed(it.children, it.s, it.m) /\ \A c \in DOMAIN it.children : it.children[c] \subseteq Entries
      BY DEF PrevInv, IterTypes
    <2> QED
      BY <1>1, <1>2, <2>1, PrevMoves
  <1>6. \A x \in Held(it) : x <= it.s => (Passed(n, x) <=> ~Precedes(x, e))
    BY <1>5 DEF Held
  <1>7. \A x \in Held(it) : Passed(it.m, x) <=> Precedes(e, x)
    BY <1>1, <1>3 DEF Passed
  <1>8. \A x \in Held(it) : /\ ~Precedes(x, e) <=> x = e \/ Precedes(e, x)
                            /\ Precedes(e, x) => Key(e) <= Key(x)
                            /\ Precedes(x, e) => Key(x) <= Key(e)
    BY <1>3 DEF Precedes
  <1>9. \A x \in Held(it) : x <= it.s => (Passed(n, x) <=> x = e \/ Passed(it.m, x))
    BY <1>6, <1>7, <1>8
  \* An entry of the key that is saved is newer than the one that is saved.
  <1>10. ASSUME it.saved # None, e <= it.s
         PROVE  it.saved \in Held(it) /\ Key(e) = Key(it.saved) /\ e > it.saved
    <2>1. it.saved \in Held(it) /\ Passed(it.m, it.saved)
      BY <1>10 DEF PrevInv
    <2>2. Precedes(e, it.saved) /\ ~(Key(e) < Key(it.saved))
      BY <1>1, <1>7, <1>10, <2>1
    <2> QED
      BY <1>3, <2>1, <2>2 DEF Precedes
  \* What is shown in the end is shown still, or is e.
  <1>11. ASSUME g # None, it.saved = None \/ e <= it.s PROVE ~Passed(it.m, g)
    <2>1. g \in Held(it) /\ g \in Seen(it.s)
      BY <1>11
    <2>2. CASE it.saved = None
      BY <1>11, <2>2 DEF PrevInv
    <2>3. CASE it.saved # None
      <3>1. it.saved \in Held(it) /\ Key(e) = Key(it.saved) /\ e > it.saved /\ e <= it.s
        BY <1>10, <1>11, <2>3
      <3>2. g # it.saved
        BY <1>3, <2>1, <3>1
      <3> QED
        BY <1>11, <2>3, <3>2 DEF PrevInv
    <2> QED
      BY <2>2, <2>3
  <1>12. ASSUME NEW v \in Seen(it.s), g = None \/ Key(g) < Key(v)
         PROVE  Passed(n, v) /\ (j.saved # None => Key(j.saved) < Key(v))
    <2>1. v \in Held(it) /\ v <= it.s /\ Passed(it.m, v) /\ (it.saved # None => Key(it.saved) < Key(v))
      BY <1>12 DEF PrevInv
    <2>2. Precedes(e, v)
      BY <1>7, <2>1
    <2>3. e <= it.s => Key(e) < Key(v)
      BY <1>3, <2>1, <2>2 DEF Precedes
    <2>4. j.saved # None => Key(j.saved) < Key(v)
      BY <1>1, <1>3, <2>1, <2>3
    <2> QED
      BY <1>9, <2>1, <2>4
  <1>13. CASE e > it.s
    <2>1. j.saved = it.saved
      BY <1>1, <1>13
    <2>2. \A x \in Held(it) : x <= it.s => (Passed(n, x) <=> Passed(it.m, x))
      BY <1>3, <1>9, <1>13
    <2>3. it.saved # None =>
            /\ it.saved \in Held(it) /\ it.saved <= it.s /\ ~Deletes(it.saved) /\ Passed(it.m, it.saved)
            /\ \A x \in Held(it) : x <= it.s /\ Key(x) = Key(it.saved) /\ x > it.saved => ~Passed(it.m, x)
            /\ \A x \in Held(it) : x <= it.s /\ Passed(it.m, x) => Key(it.saved) <= Key(x)
            /\ g # None => g = it.saved \/ ~Passed(it.m, g)
      BY DEF PrevInv
    <2>4. it.saved = None /\ g # None => ~Passed(it.m, g)
      BY DEF PrevInv
    <2>5. g # None => g \in Held(it) /\ g <= it.s
      OBVIOUS
    <2>6. j.m = n /\ Placed(j.children, j.s, n) /\ j.reverse
      BY <1>2, <1>4, <1>5 DEF PrevInv
    <2> QED
      BY <1>4, <1>5, <1>12, <2>1, <2>2, <2>3, <2>4, <2>5, <2>6 DEF PrevInv
  <1>14. CASE ~(e > it.s)
    <2>1. e <= it.s
      BY <1>3, <1>14
    <2>2. g # None => g \in Held(it) /\ g <= it.s /\ ~Deletes(g) /\ ~Passed(it.m, g)
      BY <1>11, <2>1
    <2>3. j.m = n /\ Placed(j.children, j.s, n) /\ j.reverse
      BY <1>2, <1>4, <1>5 DEF PrevInv
    <2>4. CASE Deletes(e)
      <3>1. j.saved = None
        BY <1>1, <1>14, <2>4
      <3>2. g # None => ~Passed(n, g)
        BY <1>9, <2>2, <2>4
      <3> QED
        BY <1>4, <1>5, <1>12, <2>3, <3>1, <3>2 DEF PrevInv
    <2>5. CASE ~Deletes(e)
      <3>1. j.saved = e
        BY <1>1, <1>14, <2>5
      <3>2. Passed(n, e)
        BY <1>3, <1>9, <2>1
      <3>3. \A x \in Held(it) : x <= it.s /\ Key(x) = Key(e) /\ x > e => ~Passed(n, x)
        BY <1>3, <1>6 DEF Precedes
      <3>4. \A x \in Held(it) : x <= it.s /\ Passed(n, x) => Key(e) <= Key(x)
        BY <1>3, <1>7, <1>8, <1>9
      <3>5. g # None => g = e \/ ~Passed(n, g)
        BY <1>9, <2>2
      <3> QED
        BY <1>3, <1>4, <1>5, <1>12, <2>1, <2>3, <2>5, <3>1, <3>2, <3>3, <3>4, <3>5 DEF PrevInv
    <2> QED
      BY <2>4, <2>5
  <1> QED
    BY <1>13, <1>14

-----------------------------------------------------------------------------
(* The steps of an iterator *)

\* While the store stands still, all that matters is where the iterator goes.
LEMMA GoodAfter ==
  ASSUME hist' = hist, mem' = mem, NEW j, NEW g, iter' = j, goal' = g, IterGood(j, g)
  PROVE  IterInv'
  <1>1. Current(j.m)' = Current(j.m)
    BY DEF Current, First, Final, EntryRank, Rank
  <1>2. \A x : /\ Key(x)' = Key(x) /\ (Deletes(x)' <=> Deletes(x)) /\ (x \in Entries' <=> x \in Entries)
               /\ Hidden(j, x)' <=> Hidden(j, x)
    BY DEF Key, Deletes, Entries, Hidden
  <1>3. \A x : Passed(j.m, x)' <=> Passed(j.m, x)
    BY <1>1 DEF Passed, Precedes, Key
  <1>4. Seen(j.s)' = Seen(j.s)
    BY DEF Seen, Deletes
  <1>5. Held(j)' = Held(j)
    BY DEF Held
  <1>6. Placed(j.children, j.s, j.m)' <=> Placed(j.children, j.s, j.m)
    BY <1>3 DEF Placed, Precedes, Key
  <1>7. Valid(j.m)' <=> Valid(j.m)
    BY <1>1 DEF Valid
  <1>8. ReadsAll(j)' <=> ReadsAll(j)
    BY <1>5 DEF ReadsAll, Newest, Key, Deletes, Entries
  <1>9. IterTypes(j)' <=> IterTypes(j)
    BY DEF IterTypes, Entries
  <1>10. NextInv(j, g)' <=> NextInv(j, g)
    BY <1>1, <1>2, <1>3, <1>4, <1>5, <1>6, <1>7 DEF NextInv
  <1>11. BeforeInv(j, g)' <=> BeforeInv(j, g)
    BY <1>1, <1>2, <1>3, <1>4, <1>5, <1>6, <1>7 DEF BeforeInv
  <1>12. PrevInv(j, g)' <=> PrevInv(j, g)
    BY <1>1, <1>2, <1>3, <1>4, <1>5, <1>6, <1>7 DEF PrevInv
  <1>13. RestInv(j, g)' <=> RestInv(j, g)
    BY <1>1, <1>2, <1>3, <1>4, <1>5, <1>6, <1>7 DEF RestInv
  <1>14. IterGood(j, g)'
    BY <1>4, <1>8, <1>9, <1>10, <1>11, <1>12, <1>13 DEF IterGood
  <1> QED
    BY <1>14 DEF IterInv

LEMMA CallPlaces ==
  ASSUME NEW loop \in {"next", "prev", "before"}, NEW m, NEW reverse, NEW skip, NEW e,
         IterInv, iter # None, Call(loop, m, reverse, skip, e)
  PROVE  /\ Like(iter, iter') /\ goal' = e /\ hist' = hist /\ mem' = mem
         /\ iter'.loop = loop /\ iter'.m = m /\ iter'.reverse = reverse
         /\ iter'.skip = skip /\ iter'.saved = None
  <1>1. DOMAIN iter = {"s", "children", "growing", "m", "reverse", "valid", "skip", "saved", "loop"}
    BY DEF IterInv, IterGood, IterTypes
  <1> QED
    BY <1>1 DEF Call, Like, vars

LEMMA SeekStep ==
  ASSUME HistoryTypes, IterInv, SeekToFirst \/ \E k \in Keys : IterSeek(k)
  PROVE  IterInv'
  <1>1. iter # None /\ IterTypes(iter) /\ ReadsAll(iter) /\ iter.s \in 0 .. Len(hist)
    BY DEF IterInv, IterGood, IterTypes, SeekToFirst, IterSeek, Callable
  <1>2. \A c \in DOMAIN iter.children : iter.children[c] \subseteq Entries
    BY <1>1 DEF IterTypes
  <1>3. PICK j : j = iter'
    OBVIOUS
  <1>4. PICK g : g = goal'
    OBVIOUS
  <1>5. CASE SeekToFirst
    <2>1. PICK m : m = MergeFirst(iter.children)
      OBVIOUS
    <2>2. Call("next", m, FALSE, None, First(Seen(iter.s)))
      BY <1>5, <2>1 DEF SeekToFirst
    <2>3. /\ Like(iter, j) /\ g = First(Seen(iter.s)) /\ hist' = hist /\ mem' = mem
          /\ j.loop = "next" /\ j.m = m /\ j.skip = None
      BY <1>1, <1>3, <1>4, <2>2, CallPlaces
    <2>4. /\ ~m.reverse /\ Placed(iter.children, iter.s, m)
          /\ \A c \in DOMAIN iter.children : \A x \in iter.children[c] : x <= iter.s => ~Passed(m, x)
      BY <1>2, <2>1, FirstMoves
    <2>5. \A c \in DOMAIN iter.children : \A x \in iter.children[c] : ~(Key(x) < 0)
      BY <1>2, PrecedesOrders
    <2>6. {v \in Seen(iter.s) : Key(v) >= 0} = Seen(iter.s)
      BY <1>1, SeenIs, PrecedesOrders
    <2>7. IterGood(j, g)
      BY <1>1, <2>3, <2>4, <2>5, <2>6, SeekStarts
    <2> QED
      BY <1>3, <1>4, <2>3, <2>7, GoodAfter
  <1>6. ASSUME NEW k \in Keys, IterSeek(k) PROVE IterInv'
    <2>1. PICK m : m = MergeSeek(iter.children, Rank(k, iter.s))
      OBVIOUS
    <2>2. Call("next", m, FALSE, None, First({e \in Seen(iter.s) : hist[e].key >= k}))
      BY <1>6, <2>1 DEF IterSeek
    <2>3. /\ Like(iter, j) /\ g = First({e \in Seen(iter.s) : hist[e].key >= k})
          /\ hist' = hist /\ mem' = mem /\ j.loop = "next" /\ j.m = m /\ j.skip = None
      BY <1>1, <1>3, <1>4, <2>2, CallPlaces
    <2>4. /\ ~m.reverse /\ Placed(iter.children, iter.s, m)
          /\ \A c \in DOMAIN iter.children : \A x \in iter.children[c] :
               x <= iter.s => (Passed(m, x) <=> Key(x) < k)
      BY <1>1, <1>2, <2>1, SeekMoves
    <2>5. k \in Nat /\ g = First({v \in Seen(iter.s) : Key(v) >= k})
      BY <2>3, ConstantsAssumption DEF Key
    <2>6. IterGood(j, g)
      BY <1>1, <2>3, <2>4, <2>5, SeekStarts
    <2> QED
      BY <1>3, <1>4, <2>3, <2>6, GoodAfter
  <1> QED
    BY <1>5, <1>6

LEMMA SeekToLastStep ==
  ASSUME HistoryTypes, IterInv, SeekToLast
  PROVE  IterInv'
  <1>1. iter # None /\ IterTypes(iter) /\ ReadsAll(iter)
    BY DEF IterInv, IterGood, SeekToLast, Callable
  <1>2. \A c \in DOMAIN iter.children : iter.children[c] \subseteq Entries
    BY <1>1 DEF IterTypes
  <1>3. PICK j : j = iter'
    OBVIOUS
  <1>4. PICK g : g = goal'
    OBVIOUS
  <1>5. PICK m : m = MergeLast(iter.children)
    OBVIOUS
  <1>6. Call("prev", m, TRUE, None, Final(Seen(iter.s)))
    BY <1>5 DEF SeekToLast
  <1>7. /\ Like(iter, j) /\ g = Final(Seen(iter.s)) /\ hist' = hist /\ mem' = mem
        /\ j.loop = "prev" /\ j.m = m /\ j.reverse = TRUE /\ j.saved = None
    BY <1>1, <1>3, <1>4, <1>6, CallPlaces
  <1>8. /\ m.reverse /\ Placed(iter.children, iter.s, m)
        /\ \A c \in DOMAIN iter.children : \A x \in iter.children[c] : x <= iter.s => ~Passed(m, x)
    BY <1>2, <1>5, LastMoves
  <1>9. {v \in Seen(iter.s) : ~Passed(m, v)} = Seen(iter.s)
    BY <1>1, <1>8, RoundTypes DEF Held
  <1>10. IterGood(j, g)
    BY <1>1, <1>7, <1>8, <1>9, PrevStartsAt
  <1> QED
    BY <1>3, <1>4, <1>7, <1>10, GoodAfter

\* Next and Prev are called where an entry is shown.
LEMMA ShownIs ==
  ASSUME HistoryTypes, IterInv, Callable, iter.valid
  PROVE  /\ iter # None /\ IterTypes(iter) /\ ReadsAll(iter) /\ RestInv(iter, goal)
         /\ goal \in Seen(iter.s) /\ goal # None
         /\ iter.reverse => iter.saved = goal
         /\ ~iter.reverse => Current(iter.m) = goal
  BY DEF Callable, IterInv, IterGood, RestInv

LEMMA IterNextStep ==
  ASSUME HistoryTypes, IterInv, IterNext
  PROVE  IterInv'
  <1>1. /\ iter # None /\ IterTypes(iter) /\ ReadsAll(iter) /\ RestInv(iter, goal)
        /\ goal \in Seen(iter.s) /\ iter.valid
        /\ iter.reverse => iter.saved = goal
        /\ ~iter.reverse => Current(iter.m) = goal
    BY ShownIs DEF IterNext
  <1>2. PICK j : j = iter'
    OBVIOUS
  <1>3. PICK g : g = goal'
    OBVIOUS
  <1>4. PICK m : m = NextFrom(iter)
    OBVIOUS
  <1>5. Call("next", m, FALSE, Key(goal), First({v \in Seen(iter.s) : Key(v) > Key(goal)}))
    BY <1>1, <1>4 DEF IterNext, NextFrom, Key
  <1>6. /\ Like(iter, j) /\ hist' = hist /\ mem' = mem
        /\ g = First({v \in Seen(iter.s) : Key(v) > Key(goal)})
        /\ j.loop = "next" /\ j.m = m /\ j.skip = Key(goal)
    BY <1>1, <1>2, <1>3, <1>5, CallPlaces
  <1>7. /\ ~m.reverse /\ Placed(iter.children, iter.s, m)
        /\ \A x \in Held(iter) : x <= iter.s =>
             IF Passed(m, x) THEN Key(x) <= Key(goal) ELSE Key(goal) <= Key(x)
    BY <1>1, <1>4, NextFromShown
  <1>8. IterGood(j, g)
    BY <1>1, <1>6, <1>7, NextStartsBehind
  <1> QED
    BY <1>2, <1>3, <1>6, <1>8, GoodAfter

LEMMA IterPrevStep ==
  ASSUME HistoryTypes, IterInv, IterPrev
  PROVE  IterInv'
  <1>1. /\ iter # None /\ IterTypes(iter) /\ ReadsAll(iter) /\ RestInv(iter, goal)
        /\ goal \in Seen(iter.s) /\ iter.valid
        /\ ~iter.reverse => Current(iter.m) = goal
    BY ShownIs DEF IterPrev
  <1>2. PICK j : j = iter'
    OBVIOUS
  <1>3. PICK g : g = goal'
    OBVIOUS
  <1>4. PICK h : h = Final({v \in Seen(iter.s) : Key(v) < Key(goal)})
    OBVIOUS
  <1>5. Placed(iter.children, iter.s, iter.m) /\ (iter.reverse <=> iter.m.reverse)
    BY <1>1 DEF RestInv
  <1>6. CASE iter.reverse
    <2>1. Call("prev", iter.m, TRUE, None, h)
      BY <1>4, <1>6 DEF IterPrev, Key
    <2>2. /\ Like(iter, j) /\ hist' = hist /\ mem' = mem /\ g = h
          /\ j.loop = "prev" /\ j.m = iter.m /\ j.reverse = TRUE /\ j.saved = None
      BY <1>1, <1>2, <1>3, <2>1, CallPlaces
    <2>3. \A v \in Seen(iter.s) : ~Passed(iter.m, v) <=> Key(v) < Key(goal)
      <3>1. \A v \in Seen(iter.s) : Passed(iter.m, v) <=> Key(goal) <= Key(v)
        BY <1>1, <1>6, RoundTypes DEF RestInv
      <3>2. Key(goal) \in Nat /\ \A v \in Seen(iter.s) : Key(v) \in Nat
        BY <1>1, RoundTypes
      <3> QED
        BY <3>1, <3>2
    <2>4. h = Final({v \in Seen(iter.s) : ~Passed(iter.m, v)})
      <3>1. {v \in Seen(iter.s) : ~Passed(iter.m, v)} = {v \in Seen(iter.s) : Key(v) < Key(goal)}
        BY <2>3
      <3> QED
        BY <1>4, <3>1
    <2>5. IterGood(j, g)
      BY <1>1, <1>5, <1>6, <2>2, <2>4, PrevStartsAt
    <2> QED
      BY <1>2, <1>3, <2>2, <2>5, GoodAfter
  <1>7. CASE ~iter.reverse
    <2>1. Call("before", iter.m, FALSE, Key(goal), h)
      BY <1>1, <1>4, <1>7 DEF IterPrev, Key
    <2>2. /\ Like(iter, j) /\ hist' = hist /\ mem' = mem /\ g = h
          /\ j.loop = "before" /\ j.m = iter.m /\ j.reverse = FALSE /\ j.saved = None /\ j.skip = Key(goal)
      BY <1>1, <1>2, <1>3, <2>1, CallPlaces
    <2>3. IterGood(j, g)
      BY <1>1, <1>4, <1>5, <1>7, <2>2, BeforeStarts
    <2> QED
      BY <1>2, <1>3, <2>2, <2>3, GoodAfter
  <1> QED
    BY <1>6, <1>7

\* A call that returns shows the goal.
LEMMA Returned ==
  ASSUME NEW it, IterTypes(it), ReadsAll(it), NEW g \in Seen(it.s) \cup {None},
         NEW j, Like(it, j), j.loop = "none", RestInv(j, g)
  PROVE  IterGood(j, g)
  BY LikeTypes DEF IterGood, Like

LEMMA FindNextStep ==
  ASSUME HistoryTypes, IterInv, FindNextUserEntry
  PROVE  IterInv'
  <1>1. /\ iter # None /\ IterTypes(iter) /\ ReadsAll(iter) /\ NextInv(iter, goal)
        /\ goal \in Seen(iter.s) \cup {None} /\ iter.loop = "next"
    BY DEF FindNextUserEntry, IterInv, IterGood
  <1>2. PICK e : e = Current(iter.m)
    OBVIOUS
  <1>3. PICK j : j = iter'
    OBVIOUS
  <1>4. goal' = goal /\ hist' = hist /\ mem' = mem
    BY DEF FindNextUserEntry, vars
  <1>5. DOMAIN iter = {"s", "children", "growing", "m", "reverse", "valid", "skip", "saved", "loop"}
    BY <1>1 DEF IterTypes
  <1>6. CASE e = None /\ Return(FALSE, FALSE)
    <2>1. Like(iter, j) /\ j.loop = "none" /\ j.valid = FALSE
      BY <1>3, <1>5, <1>6 DEF Return, Like
    <2>2. goal = None
      BY <1>1, <1>2, <1>6, NextShows
    <2>3. IterGood(j, goal)
      BY <1>1, <2>1, <2>2, Returned DEF RestInv
    <2> QED
      BY <1>3, <1>4, <2>3, GoodAfter
  <1>7. CASE e # None /\ (e <= iter.s /\ ~Deletes(e) /\ ~Hidden(iter, e)) /\ Return(TRUE, FALSE)
    <2>1. Like(iter, j) /\ j.loop = "none" /\ j.valid = TRUE /\ j.reverse = FALSE /\ j.m = iter.m
      BY <1>3, <1>5, <1>7 DEF Return, Like
    <2>2. goal = e
      BY <1>1, <1>2, <1>7, NextShows
    <2>3. Placed(iter.children, iter.s, iter.m) /\ ~iter.m.reverse
      BY <1>1 DEF NextInv
    <2>4. RestInv(j, goal)
      BY <1>2, <1>7, <2>1, <2>2, <2>3 DEF RestInv, Like
    <2>5. IterGood(j, goal)
      BY <1>1, <2>1, <2>4, Returned
    <2> QED
      BY <1>3, <1>4, <2>5, GoodAfter
  <1>8. CASE /\ e # None /\ ~(e <= iter.s /\ ~Deletes(e) /\ ~Hidden(iter, e))
             /\ iter' = [iter EXCEPT !.m = MergeNext(iter.children, iter.m),
                                     !.skip = IF e <= iter.s /\ Deletes(e) THEN hist[e].key ELSE @]
    <2>1. /\ Like(iter, j) /\ j.loop = "next" /\ j.m = MergeNext(iter.children, iter.m)
          /\ j.skip = IF e <= iter.s /\ Deletes(e) THEN Key(e) ELSE iter.skip
      BY <1>1, <1>3, <1>5, <1>8 DEF Like, Key
    <2>2. NextInv(j, goal)
      BY <1>1, <1>2, <1>8, <2>1, NextGoesOn
    <2>3. IterGood(j, goal)
      BY <1>1, <2>1, <2>2, LikeTypes DEF IterGood, Like
    <2> QED
      BY <1>3, <1>4, <2>3, GoodAfter
  <1> QED
    BY <1>2, <1>6, <1>7, <1>8 DEF FindNextUserEntry, Hidden, Key

LEMMA BeforeKeyStep ==
  ASSUME HistoryTypes, IterInv, BeforeKey
  PROVE  IterInv'
  <1>1. /\ iter # None /\ IterTypes(iter) /\ ReadsAll(iter) /\ BeforeInv(iter, goal)
        /\ goal \in Seen(iter.s) \cup {None} /\ iter.loop = "before"
    BY DEF BeforeKey, IterInv, IterGood
  <1>2. PICK n : n = MergePrev(iter.children, iter.m)
    OBVIOUS
  <1>3. PICK j : j = iter'
    OBVIOUS
  <1>4. goal' = goal /\ hist' = hist /\ mem' = mem
    BY DEF BeforeKey, vars
  <1>5. DOMAIN iter = {"s", "children", "growing", "m", "reverse", "valid", "skip", "saved", "loop"}
    BY <1>1 DEF IterTypes
  <1>6. /\ Current(n) = None => goal = None
        /\ \A i : /\ Like(iter, i) /\ i.m = n /\ Current(n) # None
                  /\ Key(Current(n)) < iter.skip /\ i.reverse /\ i.saved = None
                  => PrevInv(i, goal)
        /\ \A i : /\ Like(iter, i) /\ i.m = n /\ Current(n) # None
                  /\ ~(Key(Current(n)) < iter.skip) /\ i.skip = iter.skip
                  /\ i.reverse = iter.reverse /\ i.saved = iter.saved
                  => BeforeInv(i, goal)
    BY <1>1, <1>2, BeforeRound
  <1>7. CASE /\ Current(n) = None
             /\ iter' = [iter EXCEPT !.m = n, !.loop = "none", !.valid = FALSE, !.skip = None]
    <2>1. Like(iter, j) /\ j.loop = "none" /\ j.valid = FALSE
      BY <1>3, <1>5, <1>7 DEF Like
    <2>2. IterGood(j, goal)
      BY <1>1, <1>6, <1>7, <2>1, Returned DEF RestInv
    <2> QED
      BY <1>3, <1>4, <2>2, GoodAfter
  <1>8. CASE /\ Current(n) # None /\ Key(Current(n)) < iter.skip
             /\ iter' = [iter EXCEPT !.m = n, !.loop = "prev", !.reverse = TRUE, !.skip = None]
    <2>1. Like(iter, j) /\ j.loop = "prev" /\ j.m = n /\ j.reverse = TRUE /\ j.saved = iter.saved
      BY <1>3, <1>5, <1>8 DEF Like
    <2>2. j.saved = None
      BY <1>1, <2>1 DEF BeforeInv
    <2>3. PrevInv(j, goal)
      BY <1>6, <1>8, <2>1, <2>2
    <2>4. IterGood(j, goal)
      BY <1>1, <2>1, <2>3, LikeTypes DEF IterGood, Like
    <2> QED
      BY <1>3, <1>4, <2>4, GoodAfter
  <1>9. CASE /\ Current(n) # None /\ ~(Key(Current(n)) < iter.skip)
             /\ iter' = [iter EXCEPT !.m = n]
    <2>1. /\ Like(iter, j) /\ j.loop = "before" /\ j.m = n /\ j.skip = iter.skip
          /\ j.reverse = iter.reverse /\ j.saved = iter.saved
      BY <1>1, <1>3, <1>5, <1>9 DEF Like
    <2>2. BeforeInv(j, goal)
      BY <1>6, <1>9, <2>1
    <2>3. IterGood(j, goal)
      BY <1>1, <2>1, <2>2, LikeTypes DEF IterGood, Like
    <2> QED
      BY <1>3, <1>4, <2>3, GoodAfter
  <1> QED
    BY <1>2, <1>7, <1>8, <1>9 DEF BeforeKey, Key

LEMMA FindPrevStep ==
  ASSUME HistoryTypes, IterInv, FindPrevUserEntry
  PROVE  IterInv'
  <1>1. /\ iter # None /\ IterTypes(iter) /\ ReadsAll(iter) /\ PrevInv(iter, goal)
        /\ goal \in Seen(iter.s) \cup {None} /\ iter.loop = "prev"
    BY DEF FindPrevUserEntry, IterInv, IterGood
  <1>2. PICK e : e = Current(iter.m)
    OBVIOUS
  <1>3. PICK j : j = iter'
    OBVIOUS
  <1>4. goal' = goal /\ hist' = hist /\ mem' = mem
    BY DEF FindPrevUserEntry, vars
  <1>5. DOMAIN iter = {"s", "children", "growing", "m", "reverse", "valid", "skip", "saved", "loop"}
    BY <1>1 DEF IterTypes
  <1>6. Placed(iter.children, iter.s, iter.m) /\ iter.m.reverse
    BY <1>1 DEF PrevInv
  <1>7. CASE e = None /\ Return(iter.saved # None, iter.saved # None)
    <2>1. /\ Like(iter, j) /\ j.loop = "none" /\ j.m = iter.m /\ j.saved = iter.saved
          /\ (j.valid <=> iter.saved # None) /\ (j.reverse <=> iter.saved # None)
      BY <1>3, <1>5, <1>7 DEF Return, Like
    <2>2. /\ goal = iter.saved
          /\ iter.saved # None =>
               \A x \in Held(iter) : x <= iter.s => (Passed(iter.m, x) <=> Key(goal) <= Key(x))
      BY <1>1, <1>2, <1>7, PrevShows
    <2>3. Held(j) = Held(iter) /\ j.s = iter.s /\ j.children = iter.children
      BY <1>1, <2>1, LikeTypes DEF Like
    <2>4. RestInv(j, goal)
      BY <1>6, <2>1, <2>2, <2>3 DEF RestInv
    <2>5. IterGood(j, goal)
      BY <1>1, <2>1, <2>4, Returned
    <2> QED
      BY <1>3, <1>4, <2>5, GoodAfter
  <1>8. CASE e # None /\ Passes(e) /\ Return(TRUE, TRUE)
    <2>1. /\ Like(iter, j) /\ j.loop = "none" /\ j.m = iter.m /\ j.saved = iter.saved
          /\ j.valid = TRUE /\ j.reverse = TRUE
      BY <1>3, <1>5, <1>8 DEF Return, Like
    <2>2. iter.saved # None /\ e <= iter.s /\ Key(e) < Key(iter.saved)
      BY <1>8 DEF Passes, Key
    <2>3. /\ goal = iter.saved
          /\ \A x \in Held(iter) : x <= iter.s => (Passed(iter.m, x) <=> Key(goal) <= Key(x))
      BY <1>1, <1>2, <2>2, PrevShows
    <2>4. Held(j) = Held(iter) /\ j.s = iter.s /\ j.children = iter.children
      BY <1>1, <2>1, LikeTypes DEF Like
    <2>5. RestInv(j, goal)
      BY <1>6, <2>1, <2>2, <2>3, <2>4 DEF RestInv
    <2>6. IterGood(j, goal)
      BY <1>1, <2>1, <2>5, Returned
    <2> QED
      BY <1>3, <1>4, <2>6, GoodAfter
  <1>9. CASE /\ e # None /\ ~Passes(e)
             /\ iter' = [iter EXCEPT !.m = MergePrev(iter.children, iter.m),
                                     !.saved = IF e > iter.s THEN @ ELSE IF Deletes(e) THEN None ELSE e]
    <2>1. /\ Like(iter, j) /\ j.loop = "prev" /\ j.m = MergePrev(iter.children, iter.m)
          /\ j.reverse = iter.reverse
          /\ j.saved = IF e > iter.s THEN iter.saved ELSE IF Deletes(e) THEN None ELSE e
      BY <1>1, <1>3, <1>5, <1>9 DEF Like
    <2>2. ~(iter.saved # None /\ e <= iter.s /\ Key(e) < Key(iter.saved))
      BY <1>9 DEF Passes, Key
    <2>3. PrevInv(j, goal)
      BY <1>1, <1>2, <1>9, <2>1, <2>2, PrevGoesOn
    <2>4. IterGood(j, goal)
      BY <1>1, <2>1, <2>3, LikeTypes DEF IterGood, Like
    <2> QED
      BY <1>3, <1>4, <2>4, GoodAfter
  <1> QED
    BY <1>2, <1>7, <1>8, <1>9 DEF FindPrevUserEntry

\* A new iterator holds the store as it is, and the store holds what s sees.
LEMMA NewIteratorStep ==
  ASSUME IInv, ReadKeys = Keys, NEW s \in snapshots \cup {Len(hist)}, NewIterator(s)
  PROVE  IterInv'
  <1>1. PICK C : C = NewInternalIterator
    OBVIOUS
  <1>2. PICK j : j = iter'
    OBVIOUS
  <1>3. /\ j = [s |-> s, children |-> C, growing |-> TRUE,
                m |-> [at |-> [c \in DOMAIN C |-> None], reverse |-> FALSE],
                reverse |-> FALSE, valid |-> FALSE, skip |-> None, saved |-> None, loop |-> "none"]
        /\ goal' = None /\ hist' = hist /\ mem' = mem
    BY <1>1, <1>2 DEF NewIterator, vars
  <1>4. /\ DOMAIN C = {MemChild, <<-1, {}>>} \cup ({0} \X files[0]) \cup ((1 .. NumLevels - 1) \X {{}})
        /\ C[MemChild] = mem /\ C[<<-1, {}>>] = imm
        /\ \A f \in files[0] : C[<<0, f>>] = f
    BY <1>1 DEF NewInternalIterator, MemChild
  <1>5. ASSUME NEW l \in 1 .. NumLevels - 1 PROVE C[<<l, {}>>] = UNION files[l]
    <2>1. <<l, {}>> \in DOMAIN C
      BY <1>4
    <2>2. <<l, {}>>[1] = l /\ l # 0 /\ l # -1 /\ l # -2
      BY ConstantsAssumption
    <2>3. \A c \in DOMAIN C : c[1] = l /\ l # 0 /\ l # -1 /\ l # -2 => C[c] = UNION files[l]
      BY <1>1 DEF NewInternalIterator
    <2> QED
      BY <2>1, <2>2, <2>3
  <1>6. /\ NumLevels \in Nat /\ NumLevels >= 1 /\ 0 \in Levels /\ 1 .. NumLevels - 1 \subseteq Levels
        /\ Levels = {0} \cup 1 .. NumLevels - 1
    BY ConstantsAssumption DEF Levels
  <1>7. \A c \in DOMAIN C : C[c] \subseteq All
    <2> SUFFICES ASSUME NEW c \in DOMAIN C PROVE C[c] \subseteq All
      OBVIOUS
    <2>1. CASE c = MemChild \/ c = <<-1, {}>>
      BY <1>4, <2>1 DEF All
    <2>2. CASE c \in {0} \X files[0]
      <3>1. PICK f \in files[0] : c = <<0, f>>
        BY <2>2
      <3> QED
        BY <1>4, <1>6, <3>1 DEF All, InFiles
    <2>3. CASE c \in (1 .. NumLevels - 1) \X {{}}
      <3>1. PICK l \in 1 .. NumLevels - 1 : c = <<l, {}>>
        BY <2>3
      <3>2. C[c] = UNION files[l] /\ l \in Levels
        BY <1>6, <1>5, <3>1
      <3> QED
        BY <3>2 DEF All, InFiles
    <2> QED
      BY <1>4, <2>1, <2>2, <2>3
  <1>8. ASSUME NEW x \in All PROVE \E c \in DOMAIN C : x \in C[c]
    <2>1. CASE x \in mem
      BY <1>4, <2>1
    <2>2. CASE x \in imm
      BY <1>4, <2>2
    <2>3. CASE x \in InFiles
      <3>1. PICK l \in Levels : \E f \in files[l] : x \in f
        BY <2>3 DEF InFiles
      <3>2. CASE l = 0
        <4>1. PICK f \in files[0] : x \in f
          BY <3>1, <3>2
        <4>2. <<0, f>> \in DOMAIN C
          BY <1>4
        <4> QED
          BY <1>4, <4>1, <4>2
      <3>3. CASE l \in 1 .. NumLevels - 1
        <4>1. <<l, {}>> \in DOMAIN C
          BY <1>4, <3>3
        <4> QED
          BY <1>5, <3>1, <3>3, <4>1
      <3> QED
        BY <1>6, <3>1, <3>2, <3>3
    <2> QED
      BY <2>1, <2>2, <2>3 DEF All
  <1>9. Held(j) = All
    BY <1>3, <1>7, <1>8 DEF Held
  <1>10. HistoryTypes /\ All \subseteq Entries /\ s \in 0 .. Len(hist) /\ Len(hist) \in Nat
    BY DEF IInv, TableTypes, HistoryTypes, All, InFiles
  <1>11. IterTypes(j)
    BY <1>3, <1>4, <1>7, <1>10 DEF IterTypes
  <1>12. ReadsAll(j)
    <2>1. \A e \in 1 .. s : e \in Entries /\ Key(e) \in Keys
      <3>1. 1 .. s \subseteq Entries
        BY <1>10 DEF Entries
      <3> QED
        BY <1>10, <3>1, Ranks
    <2>2. \A e \in 1 .. s : Newest(e, s) =>
            e \in All \/ (hist[e].kind = "deletion" /\ \A x \in All : Key(x) = Key(e) => ~(x <= s))
      BY <2>1 DEF IInv, Holds
    <2> QED
      BY <1>3, <1>9, <2>2 DEF ReadsAll, Deletes
  <1>13. IterGood(j, None)
    BY <1>3, <1>11, <1>12 DEF IterGood, RestInv
  <1> QED
    BY <1>2, <1>3, <1>13, GoodAfter

\* FirstIs and FinalIs, for the state after a step.
FirstFinalAre ==
  HistoryTypes => \A S \in SUBSET Entries :
    /\ S = {} => First(S) = None /\ Final(S) = None
    /\ S # {} => /\ First(S) \in S /\ \A x \in S : First(S) = x \/ Precedes(First(S), x)
                 /\ Final(S) \in S /\ \A x \in S : Final(S) = x \/ Precedes(x, Final(S))

LEMMA FirstFinalFact == FirstFinalAre
  BY FirstIs, FinalIs DEF FirstFinalAre

LEMMA FirstFinalNext == FirstFinalAre'
  BY FirstFinalFact, PTL

\* The first and the last of old entries stay what they are.
LEMMA FirstFinalStay ==
  ASSUME HistoryTypes, HistoryTypes', HistoryGoesOn, NEW S \in SUBSET Entries
  PROVE  First(S)' = First(S) /\ Final(S)' = Final(S)
  <1>1. \A x \in S : hist'[x].key = hist[x].key
    BY DEF HistoryGoesOn
  <1>2. S \in SUBSET Entries'
    BY DEF HistoryGoesOn
  <1>3. PICK a, b : a = First(S)' /\ b = Final(S)'
    OBVIOUS
  <1>4. /\ S = {} => a = None /\ b = None
        /\ S # {} => a \in S /\ b \in S
    BY <1>2, <1>3, FirstFinalNext DEF FirstFinalAre
  <1>5. S # {} => \A x \in S : (First(S) = x \/ Precedes(First(S), x))' /\ (Final(S) = x \/ Precedes(x, Final(S)))'
    BY <1>2, FirstFinalNext DEF FirstFinalAre
  <1>6. S # {} => \A x \in S : (a = x \/ Precedes(a, x)) /\ (b = x \/ Precedes(x, b))
    BY <1>1, <1>3, <1>4, <1>5 DEF Precedes, Key
  <1>7. /\ S = {} => First(S) = None /\ Final(S) = None
        /\ S # {} => /\ First(S) \in S /\ \A x \in S : First(S) = x \/ Precedes(First(S), x)
                     /\ Final(S) \in S /\ \A x \in S : Final(S) = x \/ Precedes(x, Final(S))
    BY FirstIs, FinalIs
  <1>8. \A x, y \in S : Precedes(x, y) => ~Precedes(y, x)
    BY PrecedesOrders
  <1> QED
    BY <1>3, <1>4, <1>6, <1>7, <1>8

LEMMA CurrentStays ==
  ASSUME HistoryTypes, HistoryTypes', HistoryGoesOn,
         NEW m, \A c \in DOMAIN m.at : m.at[c] = None \/ m.at[c] \in Entries
  PROVE  /\ Current(m)' = Current(m)
         /\ \A x \in Entries : Passed(m, x)' <=> Passed(m, x)
         /\ Current(m) # None => Current(m) \in Entries
  <1>1. PICK E : E = {m.at[c] : c \in DOMAIN m.at} \ {None}
    OBVIOUS
  <1>2. E \in SUBSET Entries
    BY <1>1
  <1>3. First(E)' = First(E) /\ Final(E)' = Final(E)
    BY <1>2, FirstFinalStay
  <1>4. Current(m) = IF m.reverse THEN Final(E) ELSE First(E)
    BY <1>1 DEF Current
  <1>5. Current(m)' = IF m.reverse THEN Final(E)' ELSE First(E)'
    BY <1>1 DEF Current
  <1>6. Current(m)' = Current(m)
    BY <1>3, <1>4, <1>5
  <1>7. Current(m) # None => Current(m) \in Entries
    BY <1>2, <1>4, FirstIs, FinalIs
  <1>8. \A x \in Entries : Passed(m, x)' <=> Passed(m, x)
    BY <1>6, <1>7, OldEntries DEF Passed, Precedes
  <1> QED
    BY <1>6, <1>7, <1>8

\* The same iterator, over children that have grown by what is newer than the store was.
Grown(it, j) ==
  /\ DOMAIN j = DOMAIN it /\ j.s = it.s /\ j.m = it.m /\ j.reverse = it.reverse /\ j.valid = it.valid
  /\ j.skip = it.skip /\ j.saved = it.saved /\ j.loop = it.loop
  /\ DOMAIN j.children = DOMAIN it.children
  /\ \A c \in DOMAIN it.children : it.children[c] \subseteq j.children[c]
  /\ \A c \in DOMAIN it.children : \A x \in j.children[c] : x <= it.s => x \in it.children[c]

LEMMA GrownIsGood ==
  ASSUME HistoryTypes, HistoryTypes', HistoryGoesOn, NEW it, NEW g, IterGood(it, g),
         NEW j, Grown(it, j), \A c \in DOMAIN j.children : j.children[c] \subseteq Entries',
         j.growing => j.children[MemChild] = mem'
  PROVE  IterGood(j, g)'
  <1>1. IterTypes(it) /\ ReadsAll(it) /\ g \in Seen(it.s) \cup {None}
    BY DEF IterGood
  <1> USE RoundTypes
  <1>2. /\ it.s \in 0 .. Len(hist) /\ Len(hist) \in Nat /\ Len(hist') \in Nat /\ Len(hist) <= Len(hist')
        /\ 1 .. it.s \subseteq Entries
    <2>1. it.s \in 0 .. Len(hist) /\ Len(hist) \in Nat /\ Len(hist') \in Nat
      BY <1>1 DEF IterTypes, HistoryTypes
    <2>2. Len(hist) \in Entries => Len(hist) \in Entries'
      BY DEF HistoryGoesOn
    <2>3. Len(hist) <= Len(hist')
      BY <2>1, <2>2 DEF Entries
    <2> QED
      BY <2>1, <2>3 DEF Entries
  <1>3. \A x \in Entries : /\ Key(x)' = Key(x) /\ (Deletes(x)' <=> Deletes(x)) /\ x \in Entries'
                           /\ Hidden(j, x)' <=> Hidden(it, x)
    BY OldEntries DEF HistoryGoesOn, Deletes, Hidden, Grown
  <1>4. /\ \A x \in Held(it) : x \in Held(j) /\ x \in Entries
        /\ \A x \in Held(j) : x <= it.s => x \in Held(it)
    BY <1>1 DEF Grown, Held
  <1>5. Held(j)' = Held(j)
    BY DEF Held
  <1>6. Seen(j.s)' = Seen(it.s)
    <2>1. \A x \in 1 .. it.s : hist'[x] = hist[x]
      BY <1>2 DEF HistoryGoesOn
    <2> QED
      BY <2>1 DEF Seen, Deletes, Grown
  <1>7. IterTypes(j)'
    BY <1>1, <1>2 DEF IterTypes, Grown
  <1>8. ReadsAll(j)'
    <2> SUFFICES ASSUME NEW e \in 1 .. it.s, Newest(e, it.s)'
                 PROVE  \/ e \in Held(j)
                        \/ Deletes(e)' /\ \A x \in Held(j) : Key(x)' = Key(e)' => ~(x <= it.s)
      BY <1>5 DEF ReadsAll, Grown
    <2>1. e \in Entries /\ Newest(e, it.s)
      BY <1>2, <1>3 DEF Newest
    <2>2. e \in Held(it) \/ (Deletes(e) /\ \A x \in Held(it) : Key(x) = Key(e) => ~(x <= it.s))
      BY <1>1, <2>1 DEF ReadsAll
    <2> QED
      BY <1>3, <1>4, <2>1, <2>2
  <1>9. ASSUME Placed(it.children, it.s, it.m)
        PROVE  /\ Current(j.m)' = Current(it.m) /\ (Valid(j.m)' <=> Valid(it.m))
               /\ Current(it.m) # None => Key(Current(j.m))' = Key(Current(it.m))
               /\ \A x \in Entries : Passed(j.m, x)' <=> Passed(it.m, x)
               /\ Placed(j.children, j.s, j.m)'
    <2>1. j.m = it.m /\ \A c \in DOMAIN it.m.at : it.m.at[c] = None \/ it.m.at[c] \in Entries
      BY <1>1, <1>9 DEF Placed, IterTypes, Grown
    <2>2. /\ Current(it.m)' = Current(it.m) /\ (Current(it.m) # None => Current(it.m) \in Entries)
          /\ \A x \in Entries : Passed(it.m, x)' <=> Passed(it.m, x)
      BY <2>1, CurrentStays
    <2>3. Current(j.m)' = Current(it.m) /\ \A x : Passed(j.m, x)' <=> Passed(it.m, x)'
      BY <2>1, <2>2 DEF Passed
    <2>4. Current(it.m) # None => Key(Current(j.m))' = Key(Current(it.m))
      BY <2>2, <2>3 DEF HistoryGoesOn, Key
    <2>5. Placed(j.children, j.s, j.m)'
      <3>1. DOMAIN j.m.at = DOMAIN j.children
            /\ \A c \in DOMAIN j.children : j.m.at[c] = None \/ j.m.at[c] \in j.children[c]
        BY <1>9, <2>1 DEF Placed, Grown
      <3>2. ASSUME NEW c \in DOMAIN j.children, NEW x \in j.children[c], x <= j.s,
                   j.m.at[c] = None \/ IF j.m.reverse THEN Precedes(j.m.at[c], x)' ELSE Precedes(x, j.m.at[c])'
            PROVE  Passed(j.m, x)'
        <4>1. c \in DOMAIN it.children /\ x \in it.children[c] /\ x <= it.s /\ x \in Entries
          BY <1>1, <3>2 DEF Grown, IterTypes
        <4>2. it.m.at[c] = None \/ it.m.at[c] \in Entries
          BY <1>9, <2>1, <4>1 DEF Placed
        <4>3. it.m.at[c] # None => /\ Precedes(j.m.at[c], x)' <=> Precedes(it.m.at[c], x)
                                   /\ Precedes(x, j.m.at[c])' <=> Precedes(x, it.m.at[c])
          BY <1>3, <2>1, <4>1, <4>2 DEF Precedes
        <4>4. Passed(it.m, x)
          BY <1>9, <2>1, <3>2, <4>1, <4>3 DEF Placed
        <4> QED
          BY <2>2, <2>3, <4>1, <4>4
      <3> QED
        BY <3>1, <3>2 DEF Placed
    <2> QED
      BY <2>2, <2>3, <2>4, <2>5 DEF Valid
  <1>10. /\ j.m = it.m /\ j.s = it.s /\ j.reverse = it.reverse /\ j.valid = it.valid
         /\ j.skip = it.skip /\ j.saved = it.saved /\ j.loop = it.loop
    BY DEF Grown
  <1>11. g # None => g \in Seen(it.s) /\ g \in Held(it) /\ g \in Entries /\ Key(g)' = Key(g)
    BY <1>1, <1>3, <1>4
  <1>12. \A v \in Seen(it.s) : v \in Held(it) /\ v \in Entries /\ Key(v)' = Key(v)
    BY <1>1, <1>3, <1>4
  <1>13. ASSUME NextInv(it, g) PROVE NextInv(j, g)'
    <2>1. Placed(it.children, it.s, it.m)
      BY <1>13 DEF NextInv
    <2>2. ~j.m.reverse /\ Placed(j.children, j.s, j.m)' /\ (j.skip = None \/ j.skip \in Nat)
      BY <1>9, <1>10, <1>13, <2>1 DEF NextInv
    <2>3. ASSUME NEW x \in Held(j), x <= j.s
          PROVE  IF Passed(j.m, x)' THEN Hidden(j, x)' \/ (Valid(j.m)' => Key(x)' < Key(Current(j.m))')
                 ELSE j.skip # None => j.skip <= Key(x)'
      <3>1. x \in Held(it) /\ x \in Entries /\ x <= it.s
        BY <1>4, <1>10, <2>3
      <3>2. IF Passed(it.m, x) THEN Hidden(it, x) \/ (Valid(it.m) => Key(x) < Key(Current(it.m)))
            ELSE it.skip # None => it.skip <= Key(x)
        BY <1>13, <3>1 DEF NextInv
      <3> QED
        BY <1>3, <1>9, <1>10, <2>1, <3>1, <3>2 DEF Valid
    <2>4. \A v \in Seen(it.s) : (g = None \/ Key(v)' < Key(g)') => Passed(j.m, v)' \/ Hidden(j, v)'
      BY <1>3, <1>9, <1>11, <1>12, <1>13, <2>1 DEF NextInv
    <2>5. g # None => ~Passed(j.m, g)' /\ ~Hidden(j, g)'
      BY <1>3, <1>9, <1>11, <1>13, <2>1 DEF NextInv
    <2> QED
      BY <1>5, <1>6, <2>2, <2>3, <2>4, <2>5 DEF NextInv
  <1>14. ASSUME BeforeInv(it, g) PROVE BeforeInv(j, g)'
    <2>1. Placed(it.children, it.s, it.m) /\ Valid(it.m) /\ Current(it.m) # None
      BY <1>14 DEF BeforeInv, Valid
    <2>2. Placed(j.children, j.s, j.m)' /\ Valid(j.m)' /\ Key(Current(j.m))' = Key(Current(it.m))
      BY <1>9, <2>1
    <2>3. /\ j.skip \in Nat /\ j.skip <= Key(Current(j.m))' /\ ~j.reverse /\ j.saved = None
          /\ \A v \in Seen(it.s) : Key(v)' < j.skip => g # None /\ Key(v)' <= Key(g)'
          /\ g # None => Key(g)' < j.skip
      BY <1>10, <1>11, <1>12, <1>14, <2>2 DEF BeforeInv
    <2> QED
      BY <1>6, <2>2, <2>3 DEF BeforeInv
  <1>15. ASSUME PrevInv(it, g) PROVE PrevInv(j, g)'
    <2>1. Placed(it.children, it.s, it.m)
      BY <1>15 DEF PrevInv
    <2>2. j.m.reverse /\ Placed(j.children, j.s, j.m)' /\ j.reverse
      BY <1>9, <1>10, <1>15, <2>1 DEF PrevInv
    <2>3. it.saved # None => it.saved \in Held(it) /\ it.saved \in Entries /\ Key(it.saved)' = Key(it.saved)
      BY <1>3, <1>4, <1>15 DEF PrevInv
    <2>4. \A v \in Seen(it.s) : (g = None \/ Key(g)' < Key(v)') =>
            Passed(j.m, v)' /\ (j.saved # None => Key(j.saved)' < Key(v)')
      BY <1>9, <1>10, <1>11, <1>12, <1>15, <2>1, <2>3 DEF PrevInv
    <2>5. j.saved = None /\ g # None => ~Passed(j.m, g)'
      BY <1>9, <1>10, <1>11, <1>15, <2>1 DEF PrevInv
    <2>6. ASSUME j.saved # None
          PROVE  /\ j.saved \in Held(j) /\ j.saved <= j.s /\ ~Deletes(j.saved)' /\ Passed(j.m, j.saved)'
                 /\ \A x \in Held(j) : x <= j.s /\ Key(x)' = Key(j.saved)' /\ x > j.saved => ~Passed(j.m, x)'
                 /\ \A x \in Held(j) : x <= j.s /\ Passed(j.m, x)' => Key(j.saved)' <= Key(x)'
                 /\ g # None => g = j.saved \/ ~Passed(j.m, g)'
      <3>1. \A x \in Held(j) : x <= j.s => /\ x \in Held(it) /\ x <= it.s /\ Key(x)' = Key(x)
                                           /\ Passed(j.m, x)' <=> Passed(it.m, x)
        BY <1>3, <1>4, <1>9, <1>10, <2>1
      <3>2. Deletes(j.saved)' <=> Deletes(it.saved)
        BY <1>3, <1>10, <2>3, <2>6
      <3> QED
        BY <1>4, <1>9, <1>10, <1>11, <1>15, <2>1, <2>3, <2>6, <3>1, <3>2 DEF PrevInv
    <2> QED
      BY <1>5, <1>6, <2>2, <2>4, <2>5, <2>6 DEF PrevInv
  <1>16. ASSUME RestInv(it, g) PROVE RestInv(j, g)'
    <2>1. ASSUME it.valid, it.reverse
          PROVE  \A x \in Held(j) : x <= j.s => (Passed(j.m, x)' <=> Key(g)' <= Key(x)')
      <3>1. Placed(it.children, it.s, it.m) /\ g # None
        BY <1>16, <2>1 DEF RestInv
      <3>2. \A x \in Held(j) : x <= j.s => /\ x \in Held(it) /\ x <= it.s /\ Key(x)' = Key(x)
                                           /\ Passed(j.m, x)' <=> Passed(it.m, x)
        BY <1>3, <1>4, <1>9, <1>10, <3>1
      <3> QED
        BY <1>11, <1>16, <2>1, <3>1, <3>2 DEF RestInv
    <2>2. it.valid => Placed(j.children, j.s, j.m)' /\ Current(j.m)' = Current(it.m)
      BY <1>9, <1>16 DEF RestInv
    <2> QED
      BY <1>5, <1>10, <1>16, <2>1, <2>2 DEF RestInv
  <1> QED
    BY <1>1, <1>6, <1>7, <1>8, <1>10, <1>13, <1>14, <1>15, <1>16 DEF IterGood

\* What a step of the store adds to the memtable is newer than all there was.
LEMMA StoreGoesOn ==
  ASSUME NoManual, IInv, Next
  PROVE  HistoryGoesOn /\ \A x \in mem' : x \in mem \/ ~(x <= Len(hist))
  <1>1. CASE \E k \in Keys : \E kind \in Kinds(k) : Write(k, kind)
    <2>1. Len(hist) \in Nat /\ HistoryGoesOn
      BY <1>1, WriteHistory DEF IInv
    <2>2. mem' = mem \cup {Len(hist) + 1}
      BY <1>1 DEF Write
    <2> QED
      BY <2>1, <2>2
  <1>2. CASE hist' = hist /\ (mem' = mem \/ mem' = {})
    BY <1>2 DEF HistoryGoesOn, Entries
  <1>3. SwitchMemTable => hist' = hist /\ mem' = {}
    BY DEF SwitchMemTable
  <1>4. GetSnapshot \/ (\E s \in snapshots : ReleaseSnapshot(s)) => hist' = hist /\ mem' = mem
    BY DEF GetSnapshot, ReleaseSnapshot
  <1>5. CompactMemTable \/ PickCompaction \/ ManualCompaction \/ InstallCompactionResults
          => hist' = hist /\ mem' = mem
    BY DEF CompactMemTable, PickCompaction, ManualCompaction, InstallCompactionResults
  <1>6. (\E r \in ManualRanges : CompactRange(r)) => FALSE
    BY DEF NoManual
  <1> QED
    BY <1>1, <1>2, <1>3, <1>4, <1>5, <1>6 DEF Next

LEMMA StoreStepKeeps ==
  ASSUME NoManual, IInv, IterInv, StoreStep
  PROVE  IterInv'
  <1>1. Next /\ goal' = goal
    BY DEF StoreStep
  <1>2. IInv'
    BY <1>1, NextStep
  <1>3. HistoryTypes /\ HistoryTypes' /\ HistoryGoesOn
    BY <1>1, <1>2, StoreGoesOn DEF IInv
  <1>4. CASE iter = None
    BY <1>4 DEF StoreStep, IterInv
  <1>5. CASE iter # None
    <2>1. PICK j : j = iter'
      OBVIOUS
    <2>2. PICK g : g = goal
      OBVIOUS
    <2>3. IterGood(iter, g) /\ IterTypes(iter)
      BY <1>5, <2>2 DEF IterInv, IterGood
    <2>4. /\ DOMAIN iter = {"s", "children", "growing", "m", "reverse", "valid", "skip", "saved", "loop"}
          /\ MemChild \in DOMAIN iter.children /\ (iter.growing => iter.children[MemChild] = mem)
          /\ \A c \in DOMAIN iter.children : iter.children[c] \subseteq Entries'
          /\ iter.s \in 0 .. Len(hist) /\ Len(hist) \in Nat
      BY <1>3, <2>3 DEF IterTypes, HistoryGoesOn, HistoryTypes
    <2>5. CASE ~iter.growing
      <3>1. j = iter
        BY <1>5, <2>1, <2>5 DEF StoreStep
      <3>2. Grown(iter, j)
        BY <3>1 DEF Grown
      <3>3. IterGood(j, g)'
        BY <1>3, <2>3, <2>4, <2>5, <3>1, <3>2, GrownIsGood
      <3> QED
        BY <1>1, <2>1, <2>2, <3>3 DEF IterInv
    <2>6. CASE iter.growing /\ mem \subseteq mem'
      <3>1. j = [iter EXCEPT !.children[MemChild] = mem']
        BY <1>5, <2>1, <2>6 DEF StoreStep
      <3>2. /\ DOMAIN j = DOMAIN iter /\ j.s = iter.s /\ j.m = iter.m /\ j.reverse = iter.reverse
            /\ j.valid = iter.valid /\ j.skip = iter.skip /\ j.saved = iter.saved /\ j.loop = iter.loop
            /\ j.children = [iter.children EXCEPT ![MemChild] = mem']
        BY <2>4, <3>1
      <3>3. /\ DOMAIN j.children = DOMAIN iter.children /\ j.children[MemChild] = mem'
            /\ \A c \in DOMAIN iter.children : c # MemChild => j.children[c] = iter.children[c]
        BY <2>4, <3>2
      <3>4. \A x \in mem' : x \in Entries' /\ (x <= iter.s => x \in mem)
        <4>1. mem' \subseteq Entries'
          BY <1>2 DEF IInv, TableTypes
        <4>2. \A x \in mem' : x \in Nat /\ (x \in mem \/ ~(x <= Len(hist)))
          BY <1>1, <1>3, <4>1, StoreGoesOn DEF Entries, HistoryTypes
        <4> QED
          BY <2>4, <4>1, <4>2
      <3>5. Grown(iter, j)
        BY <2>4, <2>6, <3>2, <3>3, <3>4 DEF Grown
      <3>6. IterGood(j, g)'
        BY <1>3, <2>3, <2>4, <3>3, <3>4, <3>5, GrownIsGood
      <3> QED
        BY <1>1, <2>1, <2>2, <3>6 DEF IterInv
    <2>7. CASE iter.growing /\ ~(mem \subseteq mem')
      <3>1. j = [iter EXCEPT !.growing = FALSE]
        BY <1>5, <2>1, <2>7 DEF StoreStep
      <3>2. Grown(iter, j) /\ j.growing = FALSE /\ j.children = iter.children
        BY <2>4, <3>1 DEF Grown
      <3>3. IterGood(j, g)'
        BY <1>3, <2>3, <2>4, <3>2, GrownIsGood
      <3> QED
        BY <1>1, <2>1, <2>2, <3>3 DEF IterInv
    <2> QED
      BY <2>5, <2>6, <2>7
  <1> QED
    BY <1>4, <1>5

LEMMA IterStepKeeps ==
  ASSUME IInv, ReadKeys = Keys, IterInv, IterStep
  PROVE  IterInv'
  <1>1. HistoryTypes
    BY DEF IInv
  <1>2. ASSUME NEW s \in snapshots \cup {Len(hist)}, NewIterator(s) PROVE IterInv'
    BY <1>2, NewIteratorStep
  <1>3. CASE DeleteIterator
    BY <1>3 DEF DeleteIterator, IterInv
  <1>4. CASE SeekToFirst \/ \E k \in Keys : IterSeek(k)
    BY <1>1, <1>4, SeekStep
  <1>5. CASE SeekToLast
    BY <1>1, <1>5, SeekToLastStep
  <1>6. CASE IterNext
    BY <1>1, <1>6, IterNextStep
  <1>7. CASE IterPrev
    BY <1>1, <1>7, IterPrevStep
  <1>8. CASE FindNextUserEntry
    BY <1>1, <1>8, FindNextStep
  <1>9. CASE FindPrevUserEntry
    BY <1>1, <1>9, FindPrevStep
  <1>10. CASE BeforeKey
    BY <1>1, <1>10, BeforeKeyStep
  <1> QED
    BY <1>2, <1>3, <1>4, <1>5, <1>6, <1>7, <1>8, <1>9, <1>10 DEF IterStep

\* No step of an iterator is one of the store.
LEMMA IterStepStutters ==
  ASSUME IterStep
  PROVE  UNCHANGED vars
  BY DEF IterStep, NewIterator, DeleteIterator, SeekToFirst, SeekToLast, IterSeek, IterNext, IterPrev,
         Call, FindNextUserEntry, FindPrevUserEntry, BeforeKey

LEMMA IteratorInvariant ==
  ASSUME NoManual, ReadKeys = Keys
  PROVE  IterSpec => [](IInv /\ IterInv)
  <1>1. IterInit => IInv /\ IterInv
    BY InitStep DEF IterInit, IterInv
  <1>2. IInv /\ IterInv /\ [StoreStep \/ IterStep]_<<vars, iter, goal>> => (IInv /\ IterInv)'
    <2> SUFFICES ASSUME IInv, IterInv, [StoreStep \/ IterStep]_<<vars, iter, goal>>
                 PROVE  IInv' /\ IterInv'
      OBVIOUS
    <2>1. CASE StoreStep
      <3>1. Next
        BY <2>1 DEF StoreStep
      <3> QED
        BY <2>1, <3>1, NextStep, StoreStepKeeps
    <2>2. CASE IterStep
      BY <2>2, NextStep, IterStepKeeps, IterStepStutters
    <2>3. CASE UNCHANGED <<vars, iter, goal>>
      <3>1. UNCHANGED vars /\ iter' = iter /\ goal' = goal /\ hist' = hist /\ mem' = mem
        BY <2>3 DEF vars
      <3>2. IterInv'
        <4>1. CASE iter = None
          BY <3>1, <4>1 DEF IterInv
        <4>2. CASE iter # None
          <5>1. IterGood(iter, goal)
            BY <4>2 DEF IterInv
          <5>2. PICK j, g : j = iter /\ g = goal
            OBVIOUS
          <5> QED
            BY <3>1, <5>1, <5>2, GoodAfter
        <4> QED
          BY <4>1, <4>2
      <3> QED
        BY <3>1, <3>2, NextStep
    <2> QED
      BY <2>1, <2>2, <2>3
  <1> QED
    BY <1>1, <1>2, PTL DEF IterSpec

\* Whatever is written, flushed and compacted in the meantime, an iterator that a call has returned
\* from shows what was there when it was opened: after Seek, SeekToFirst or SeekToLast and any
\* number of Next and Prev in any order, for any keys, levels and numbers of writes, as long as no
\* client calls CompactRange and none deletes its long-valued keys.
THEOREM IteratorsAreRight ==
  ASSUME NoManual, DeletedKeys \cap SplitKeys = {}
  PROVE  IterSpec => []IteratorsReadHistory
  <1>1. ReadKeys = Keys
    BY DEF ReadKeys
  <1>2. IterInv => IteratorsReadHistory
    BY DEF IterInv, IterGood, RestInv, IteratorsReadHistory, Shown
  <1>3. IterSpec => [](IInv /\ IterInv)
    BY <1>1, IteratorInvariant
  <1> QED
    BY <1>2, <1>3, PTL
=============================================================================
