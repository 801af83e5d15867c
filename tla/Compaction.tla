----------------------------- MODULE Compaction -----------------------------
(***************************************************************************)
(* The multi-version side of the LevelDB store Firebase persists with: how *)
(* the tables of a version are chosen, merged and moved down the levels    *)
(* (db/version_set.cc, the compaction part of db/db_impl.cc) while writers *)
(* and snapshot readers go on.                                             *)
(*                                                                         *)
(* An entry is named by its sequence number; hist says what was written    *)
(* under it.  A table is the non-empty set of its entries.  Tables of      *)
(* level 0 come from memtables only, so the order of their file numbers is *)
(* that of their sequence numbers, and the number itself is left out.      *)
(* Sizes in bytes are left out too: wherever the code compares a size with *)
(* a limit, both answers are possible.                                     *)
(***************************************************************************)
EXTENDS Integers, Sequences, FiniteSets, FiniteSetsExt

CONSTANTS
    Keys,             \* user keys, ordered as integers
    DeletedKeys,      \* the keys clients also delete
    SplitKeys,        \* the keys whose entries an output table may end between
                      \* (the code spares none; fewer is an assumption)
    NumLevels,        \* config::kNumLevels
    MaxMemLevel,      \* config::kMaxMemCompactLevel
    ManualRanges,     \* the <<begin, end>> a client may pass to CompactRange
    MaxSeq,           \* bound: writes of a behaviour
    MaxSnapshots,     \* bound: snapshots held at once
    None

ASSUME ConstantsAssumption ==
    /\ Keys \subseteq Nat /\ DeletedKeys \subseteq Keys /\ SplitKeys \subseteq Keys
    /\ ManualRanges \subseteq Keys \X Keys
    /\ NumLevels \in Nat /\ MaxMemLevel \in 1 .. NumLevels - 2
    /\ MaxSeq \in Nat /\ MaxSnapshots \in Nat

VARIABLES
    hist,       \* hist[s]: the key and the kind of the write with number s
    mem,        \* mem_
    imm,        \* imm_, {} for nullptr
    files,      \* files_ of the current version: the tables of each level
    snapshots,  \* sequence numbers of the live snapshots
    job,        \* the table compaction in progress, or None
    manual      \* manual_compaction_ with CompactRange's loop, or None

vars == <<hist, mem, imm, files, snapshots, job, manual>>

Levels == 0 .. NumLevels - 1
Kinds(k) == {"value"} \cup (IF k \in DeletedKeys THEN {"deletion"} ELSE {})

-----------------------------------------------------------------------------
(* Keys and tables *)

\* Internal keys sort by user key, then by decreasing sequence number.
Rank(k, s) == k * (MaxSeq + 1) + (MaxSeq - s)
EntryRank(s) == Rank(hist[s].key, s)

UserKeys(E) == {hist[s].key : s \in E}
Lo(E) == Min(UserKeys(E))
Hi(E) == Max(UserKeys(E))
FirstRank(E) == Min({EntryRank(s) : s \in E})
LastRank(E) == Max({EntryRank(s) : s \in E})

Overlapping(F, lo, hi) == {f \in F : Hi(f) >= lo /\ Lo(f) <= hi}
OverlapInLevel(l, lo, hi) == Overlapping(files[l], lo, hi) # {}

\* Level 0 takes in what overlaps the tables already taken, until none does:
\* the least set with the tables hit that is closed under overlap.
GetOverlappingInputs(l, lo, hi) ==
    LET hit == Overlapping(files[l], lo, hi)
        closed(S) == \A f \in S : Overlapping(files[l], Lo(f), Hi(f)) \subseteq S
    IN  IF l # 0 THEN hit
        ELSE {f \in files[l] : \A S \in SUBSET files[l] : hit \subseteq S /\ closed(S) => f \in S}

\* The table that goes on with the last user key of E, if there is one.
FindSmallestBoundaryFile(l, E) ==
    LET boundary == {f \in files[l] : FirstRank(f) > LastRank(E) /\ Lo(f) = Hi(E)}
    IN  {f \in boundary : \A g \in boundary : FirstRank(f) <= FirstRank(g)}

\* MUTANT: the tables that share a boundary are left behind.
AddBoundaryInputs_None(l, S) == S

\* S, the table that goes on with its last user key, the one that goes on with
\* the last of that, and so on.
AddBoundaryInputs(l, S) ==
    LET next(E) == FindSmallestBoundaryFile(l, E)
        closed(T) == next(UNION S) \subseteq T /\ \A g \in T : next(g) \subseteq T
    IN  S \cup {f \in files[l] : \A T \in SUBSET files[l] : closed(T) => f \in T}

-----------------------------------------------------------------------------
(* What a read sees *)

Hits(E, k, s) == {e \in E : e <= s /\ hist[e].key = k}

\* The newest level-0 table with an answer.
NewestLevel0(k, s) ==
    LET F == {f \in files[0] : Hits(f, k, s) # {}}
    IN  IF F = {} THEN {} ELSE CHOOSE f \in F : \A g \in F : Max(f) >= Max(g)

\* The one table of a deeper level that may hold the key.
FindFile(l, k, s) ==
    LET F == {f \in files[l] : LastRank(f) >= Rank(k, s)}
        f == CHOOSE g \in F : \A h \in F : LastRank(g) <= LastRank(h)
    IN  IF F = {} THEN {} ELSE IF Lo(f) > k THEN {} ELSE f

\* The answer of Get: memory first, then level by level.
Get(k, s) ==
    LET place == <<mem, imm, NewestLevel0(k, s)>>
                     \o [l \in 1 .. NumLevels - 1 |-> FindFile(l, k, s)]
        found == {i \in DOMAIN place : Hits(place[i], k, s) # {}}
    IN  IF found = {} THEN None ELSE Max(Hits(place[Min(found)], k, s))

\* Deleted and never written are the same NotFound.
Answer(e) == IF e = None THEN None ELSE IF hist[e].kind = "deletion" THEN None ELSE e

-----------------------------------------------------------------------------
(* Writers, readers and the memtable *)

Init ==
    /\ hist = <<>> /\ mem = {} /\ imm = {}
    /\ files = [l \in Levels |-> {}]
    /\ snapshots = {} /\ job = None /\ manual = None

Write(k, kind) ==
    /\ Len(hist) < MaxSeq
    /\ hist' = Append(hist, [key |-> k, kind |-> kind])
    /\ mem' = mem \cup {Len(hist) + 1}
    /\ UNCHANGED <<imm, files, snapshots, job, manual>>

SwitchMemTable ==
    /\ mem # {} /\ imm = {}
    /\ imm' = mem /\ mem' = {}
    /\ UNCHANGED <<hist, files, snapshots, job, manual>>

GetSnapshot ==
    /\ Cardinality(snapshots) < MaxSnapshots
    /\ snapshots' = snapshots \cup {Len(hist)}
    /\ UNCHANGED <<hist, mem, imm, files, job, manual>>

ReleaseSnapshot(s) ==
    /\ snapshots' = snapshots \ {s}
    /\ UNCHANGED <<hist, mem, imm, files, job, manual>>

\* MUTANT: the level a memtable ends in is not compared with it.
PickLevelForMemTableOutput_OffByOne(lo, hi) ==
    LET clear == {l \in 0 .. MaxMemLevel : \A j \in 0 .. l - 1 : ~OverlapInLevel(j, lo, hi)}
    IN  {Max(clear)}

\* A memtable goes down while nothing overlaps it, two levels at most; it may
\* stop over a level whose grandchild level overlaps it too much.
PickLevelForMemTableOutput(lo, hi) ==
    LET clear == {l \in 0 .. MaxMemLevel : \A j \in 0 .. l : ~OverlapInLevel(j, lo, hi)}
    IN  IF clear = {} THEN {0}
        ELSE {Max(clear)} \cup {l \in clear : /\ l < Max(clear)
                                              /\ OverlapInLevel(l + 2, lo, hi)}

\* The background thread flushes imm first, also in the middle of a compaction.
CompactMemTable ==
    /\ imm # {}
    /\ \E l \in PickLevelForMemTableOutput(Lo(imm), Hi(imm)) :
           files' = [files EXCEPT ![l] = @ \cup {imm}]
    /\ imm' = {}
    /\ UNCHANGED <<hist, mem, snapshots, job, manual>>

-----------------------------------------------------------------------------
(* Choosing the inputs of a compaction *)

\* The possible results: the inputs grow only if the limit allows it.
SetupOtherInputs(l, S) ==
    LET in0 == AddBoundaryInputs(l, S)
        in1 == GetOverlappingInputs(l + 1, Lo(UNION in0), Hi(UNION in0))
        all == UNION (in0 \cup in1)
        exp0 == AddBoundaryInputs(l, GetOverlappingInputs(l, Lo(all), Hi(all)))
        exp1 == GetOverlappingInputs(l + 1, Lo(UNION exp0), Hi(UNION exp0))
        grows == /\ in1 # {} /\ Cardinality(exp0) > Cardinality(in0)
                 /\ Cardinality(exp1) = Cardinality(in1)
    IN  {<<in0, in1>>} \cup (IF grows THEN {<<exp0, exp1>>} ELSE {})

IsBaseLevelForKey(l, k) ==
    \A j \in l + 2 .. NumLevels - 1 : ~OverlapInLevel(j, k, k)

\* What the merge of the inputs drops: an entry hidden by a newer one that
\* every snapshot sees, and a deletion with nothing left below to hide.
Dropped(l, E, oldest) ==
    {e \in E : \/ \E n \in E : n > e /\ n <= oldest /\ hist[n].key = hist[e].key
               \/ /\ hist[e].kind = "deletion" /\ e <= oldest
                  /\ IsBaseLevelForKey(l, hist[e].key)}

SmallestSnapshot == IF snapshots = {} THEN Len(hist) ELSE Min(snapshots)

StartWork(l, in0, in1, isManual) ==
    LET E == UNION (in0 \cup in1)
    IN  job' = [level |-> l, in0 |-> in0, in1 |-> in1, manual |-> isManual,
                kept |-> E \ Dropped(l, E, SmallestSnapshot)]

\* The version after tables are taken from levels l and l + 1 and put in l + 1.
Replace(l, out0, out1, new) ==
    [files EXCEPT ![l] = @ \ out0, ![l + 1] = (@ \ out1) \cup new]

Idle == job = None /\ imm = {}

\* A lone table is moved, unless its grandchildren are too large for one table.
IsTrivialMove(in0, in1) == Cardinality(in0) = 1 /\ in1 = {}
MustMerge(l, in0, in1) ==
    IsTrivialMove(in0, in1) =>
        l + 2 < NumLevels /\ OverlapInLevel(l + 2, Lo(UNION in0), Hi(UNION in0))

\* Any table may be the one its level's size or a read's extra seeks point at.
\* Between two steps of a CompactRange manual_compaction_ is null, and the thread
\* may have been scheduled again already.
PickCompaction ==
    /\ Idle
    /\ \E l \in 0 .. NumLevels - 2 : \E f \in files[l] :
           LET S == IF l = 0 THEN GetOverlappingInputs(0, Lo(f), Hi(f)) ELSE {f}
           IN  \E in \in SetupOtherInputs(l, S) :
                  \/ /\ MustMerge(l, in[1], in[2])
                     /\ StartWork(l, in[1], in[2], FALSE)
                     /\ UNCHANGED files
                  \/ /\ IsTrivialMove(in[1], in[2])
                     /\ files' = Replace(l, in[1], {}, in[1])
                     /\ job' = None
    /\ UNCHANGED <<hist, mem, imm, snapshots, manual>>

-----------------------------------------------------------------------------
(* A client's CompactRange *)

MaxLevelWithFiles(lo, hi) ==
    Max({1} \cup {l \in 1 .. NumLevels - 1 : OverlapInLevel(l, lo, hi)})

\* The flush it asks for first may not happen (a null batch that joins another
\* writer's group is lost), so it changes nothing here.
CompactRange(r) ==
    /\ manual = None
    /\ manual' = [begin |-> r[1], end |-> r[2], from |-> r[1], level |-> 0,
                  top |-> MaxLevelWithFiles(r[1], r[2])]
    /\ UNCHANGED <<hist, mem, imm, files, snapshots, job>>

\* Inputs are cut, in key order, where they reach the size limit (not level 0).
ManualInputs(l, lo, hi) ==
    LET all == GetOverlappingInputs(l, lo, hi)
    IN  IF l = 0 THEN {all}
        ELSE {{g \in all : FirstRank(g) <= FirstRank(f)} : f \in all} \cup {all}

ManualCompaction ==
    /\ Idle /\ manual # None
    /\ \E S \in ManualInputs(manual.level, manual.from, manual.end) :
           IF S = {}
           THEN /\ manual' = IF manual.level + 1 = manual.top THEN None
                             ELSE [manual EXCEPT !.level = @ + 1, !.from = manual.begin]
                /\ UNCHANGED job
           ELSE \E in \in SetupOtherInputs(manual.level, S) :
                    /\ StartWork(manual.level, in[1], in[2], TRUE)
                    /\ UNCHANGED manual
    /\ UNCHANGED <<hist, mem, imm, files, snapshots>>

\* The range left starts at the end of the last input.
ManualEnd(S) ==
    LET f == CHOOSE g \in S : \A h \in S : FirstRank(h) <= FirstRank(g)
    IN  Hi(f)

-----------------------------------------------------------------------------
(* Finishing a compaction *)

\* The ways to cut the merged entries into tables.  The code ends one after any
\* entry that makes it big enough, which is SplitKeys = Keys; of a key that is not
\* in SplitKeys the entries are assumed to fall into one table.
Outputs(kept) ==
    LET ends == {e \in kept : \/ hist[e].key \in SplitKeys
                              \/ \A x \in kept : hist[x].key = hist[e].key => x >= e}
        run(c, e) == {x \in kept : /\ EntryRank(x) <= EntryRank(e)
                                   /\ \A d \in c : \/ EntryRank(d) >= EntryRank(e)
                                                   \/ EntryRank(x) > EntryRank(d)}
        final == {e \in kept : EntryRank(e) = LastRank(kept)}
    IN  {{run(c, e) : e \in c} : c \in {d \cup final : d \in SUBSET ends}}

InstallCompactionResults ==
    /\ job # None
    /\ \E new \in Outputs(job.kept) :
           files' = Replace(job.level, job.in0, job.in1, new)
    /\ manual' = IF job.manual THEN [manual EXCEPT !.from = ManualEnd(job.in0)] ELSE manual
    /\ job' = None
    /\ UNCHANGED <<hist, mem, imm, snapshots>>

Next ==
    \/ \E k \in Keys : \E kind \in Kinds(k) : Write(k, kind)
    \/ SwitchMemTable
    \/ GetSnapshot
    \/ \E s \in snapshots : ReleaseSnapshot(s)
    \/ CompactMemTable
    \/ PickCompaction
    \/ \E r \in ManualRanges : CompactRange(r)
    \/ ManualCompaction
    \/ InstallCompactionResults

Spec == Init /\ [][Next]_vars

-----------------------------------------------------------------------------
(* Properties *)

\* Every live snapshot, and the present, reads for every key what was written
\* last at or before it, wherever compactions have moved or dropped entries:
\* DoCompactionWork's drop rules, AddBoundaryInputs and Version::Get agree.
SnapshotsReadHistory ==
    \A s \in snapshots \cup {Len(hist)}, k \in Keys :
        LET written == Hits(1 .. Len(hist), k, s)
            last == IF written = {} THEN None ELSE Max(written)
        IN  Answer(Get(k, s)) = Answer(last)

\* Below level 0 the tables of a level do not overlap, as Builder::MaybeAddFile
\* asserts and FindFile's binary search needs, although a memtable may be
\* placed in a level that a running compaction writes to.
LevelsDisjoint ==
    \A l \in 1 .. NumLevels - 1 : \A f, g \in files[l] :
        f # g => LastRank(f) < FirstRank(g) \/ LastRank(g) < FirstRank(f)
=============================================================================
