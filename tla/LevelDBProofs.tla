---------------------------- MODULE LevelDBProofs ----------------------------
(***************************************************************************)
(* Theorems about LevelDB, for any number of threads, capacities, starts,  *)
(* losses of power and failed calls.                                       *)
(***************************************************************************)
EXTENDS LevelDB, FiniteSetTheorems, SequenceTheorems, WellFoundedInduction, TLAPS

\* A file of records from S, some of the first ones synced, and a set of such files.
File(x, S) == x \in [recs : Seq(S), synced : Nat] /\ x.synced <= Len(x.recs)
FilesOf(f, S) == \A n \in DOMAIN f : n \in Nat /\ File(f[n], S)

InQueue == {"asleep", "front", "waiting", "append", "sync", "insert"}
Busy == {"append", "sync", "insert"}
Places == {"todo", "done", "dead"} \cup InQueue

LastOf(r) == r.seq + Cardinality(r.batches) - 1

FileTypes ==
  /\ FilesOf(logs, Records) /\ FilesOf(manifests, ManifestStates) /\ IsFiniteSet(DOMAIN logs)
  /\ \A n \in DOMAIN tables : n \in Nat /\ tables[n] \in SUBSET Records

StoreTypes ==
  current \in Nat /\ db \in Stores \cup {None} /\ bg \in Merges \cup {None} /\ edit \in Edits \cup {None}

ThreadTypes ==
  /\ pc \in [Threads -> Places] /\ result \in [Threads -> {None, "ok", "unsure", "error"}]
  /\ queue \in Seq(Threads) /\ group \in Groups \cup {None}

Types == FileTypes /\ StoreTypes /\ ThreadTypes

\* Record r is in one of the tables N of T, or in one of the logs of L from k on; so it is in
\* what a store opened on state m would hold.
InTables(T, N, r) == \E n \in N \cap DOMAIN T : r \in T[n]
InLogs(L, k, r) == \E n \in DOMAIN L : n >= k /\ \E i \in DOMAIN L[n].recs : r = L[n].recs[i]
OnDisk(T, L, m, r) == InTables(T, Files(m), r) \/ InLogs(L, m.log, r)
InMemory(d, r) == r \in d.mem \/ (d.imm # None /\ r \in d.imm)

\* The record is in the store that runs, or in what it makes of its tables.
Firm(r) ==
  /\ db # None
  /\ \/ InMemory(db, r) \/ InTables(tables, Files(db) \cup db.pending, r)
     \/ edit # None /\ InTables(tables, Files(edit.state), r)

\* It is there, or in what a store may find that opens now.
Live(r) ==
  \/ Firm(r)
  \/ \E m \in PossibleStates : OnDisk(tables, logs, m, r)
  \/ edit # None /\ OnDisk(tables, logs, edit.state, r)
  \/ db # None /\ OnDisk(tables, logs, db, r)

\* It is the record of the group that writes.
NewRecord(r) == group # None /\ r = group.record

\* Sequence numbers have a bound, so that recovery finds the last.
Below(R, b) == \A r \in R : LastOf(r) <= b
Bounded(b) == \A r : Live(r) => LastOf(r) <= b
BoundInv == \E b \in Nat : Bounded(b)

\* They are not given twice: neither to records of the store, nor to those of logs and
\* manifests of the past; all are at most LastSequence, but for those being written.
Apart(r, q) == LastOf(r) < q.seq \/ LastOf(q) < r.seq
SequenceInv ==
  /\ \A r, q : Live(r) /\ Live(q) /\ r # q => Apart(r, q)
  /\ db # None => \A r : Firm(r) => LastOf(r) <= db.last
  /\ db # None => \A r : Live(r) => LastOf(r) <= db.last \/ NewRecord(r)
  /\ group # None => db # None /\ group.record.seq = db.last + 1
  /\ edit # None /\ edit.owner = "open" =>
       \A r : OnDisk(tables, logs, edit.state, r) => LastOf(r) <= edit.state.last

\* The threads in Write are those of the queue, all but the first asleep, and the first is
\* busy while there is a group.
QueueInv ==
  /\ \A i, j \in DOMAIN queue : queue[i] = queue[j] => i = j
  /\ \A t \in Threads : pc[t] \in InQueue <=> \E i \in DOMAIN queue : queue[i] = t
  /\ \A i \in DOMAIN queue : i # 1 <=> pc[queue[i]] = "asleep"
  /\ \A t \in Threads : result[t] # None <=> pc[t] = "done"
  /\ group # None => queue # <<>> /\ pc[queue[1]] \in Busy /\ group.size \in DOMAIN queue
  /\ \A t \in Threads : pc[t] \in Busy => group # None

\* What goes on in a store, and while there is none.
StoreInv ==
  /\ db = None => bg = None /\ pinned = None /\ queue = <<>> /\ (edit # None => edit.owner = "open")
  /\ db # None =>
       /\ edit # None => edit.owner # "open" /\ edit.at # "current" /\ edit.manifest = db.manifest
       /\ bg # None \/ edit # None => db.scheduled
       /\ db.shutting => queue = <<>> /\ pinned = None
  /\ edit # None /\ edit.owner = "compaction" => bg # None
  /\ edit # None /\ edit.owner = "move" => bg = None

\* The numbers of files rise: that of a new file is above those it could be mistaken for.
ManifestNumbers ==
  \A n \in DOMAIN manifests : \A i \in DOMAIN manifests[n].recs :
    n < manifests[n].recs[i].next /\ manifests[n].recs[i].log < manifests[n].recs[i].next

NumbersInv ==
  /\ ManifestNumbers
  /\ current = 0 => /\ db = None /\ edit = None /\ DOMAIN logs = {}
                    /\ \A n \in DOMAIN manifests : \A i \in DOMAIN manifests[n].recs :
                         Files(manifests[n].recs[i]) = {}
  /\ current # 0 => current \in DOMAIN manifests
  /\ current > 1 => manifests[current].synced > 0
  /\ db # None => /\ current = db.manifest /\ 1 < current /\ db.manifest < db.next
                  /\ db.log <= db.logfile /\ db.logfile \in DOMAIN logs
                  /\ \A n \in DOMAIN logs : n < db.next
  /\ edit # None => edit.manifest < edit.state.next /\ edit.state.log < edit.state.next
  /\ edit # None /\ edit.owner = "open" =>
       /\ edit.state.log \in DOMAIN logs /\ \A n \in DOMAIN logs : n < edit.state.next
       /\ IF edit.at = "install" THEN current = edit.manifest /\ 1 < current ELSE current < edit.manifest
  /\ edit # None /\ edit.owner # "open" => db.log <= edit.state.log /\ edit.state.log <= db.logfile

\* An edit once it is appended, and once it is synced.
EditInv ==
  edit # None /\ edit.at # "append" =>
    /\ edit.manifest \in DOMAIN manifests /\ manifests[edit.manifest].recs # <<>>
    /\ Last(manifests[edit.manifest].recs).log = edit.state.log
    /\ edit.owner = "open" => Last(manifests[edit.manifest].recs) = edit.state
    /\ edit.at # "sync" => manifests[edit.manifest].synced = Len(manifests[edit.manifest].recs)

\* No table is missing: of what is read, written, edited or may be recovered.
TablesInv ==
  /\ pinned # None => pinned \subseteq DOMAIN tables
  /\ db # None => Files(db) \subseteq DOMAIN tables
  /\ bg # None => bg.out \in db.pending /\ bg.out \in DOMAIN tables
  /\ edit # None => Files(edit.state) \subseteq DOMAIN tables
  /\ \A m \in PossibleStates : Files(m) \subseteq DOMAIN tables

Core == FileTypes /\ StoreTypes /\ StoreInv /\ NumbersInv /\ EditInv /\ TablesInv

\* The state the current manifest adds up to, and the one recovery starts from.
Base == Last(manifests[current].recs)

\* Until something fails, the manifest has the tables of the store, and then of its edit.
BaseInv ==
  db # None /\ ~db.bgError =>
    /\ edit = None \/ edit.at = "append" =>
         /\ Last(manifests[current].recs).l0 = db.l0
         /\ Last(manifests[current].recs).deep = db.deep
    /\ edit # None /\ edit.at # "append" =>
         /\ Last(manifests[current].recs).l0 = edit.state.l0
         /\ Last(manifests[current].recs).deep = edit.state.deep

\* The numbers of files and of writes rise, from state to state of the manifest, with the edit
\* and with the store at work.  A table has a number and holds numbers that the state knows
\* which has the table: a new table is not mistaken for one that is still needed, and recovery
\* need not look into tables for the last number.
Rises(m, k) == m.next <= k.next /\ m.last <= k.last
Within(T, m) ==
  /\ \A n \in Files(m) : n < m.next
  /\ \A r : InTables(T, Files(m), r) => LastOf(r) <= m.last
RisingInv ==
  /\ \A m \in PossibleStates : Rises(m, Base) /\ Within(tables, m)
  /\ edit # None => /\ current # 0 /\ manifests[current].recs # <<>>
                    /\ Rises(Base, edit.state) /\ Within(tables, edit.state)
  /\ db # None => /\ Rises(Base, db) /\ \A n \in Files(db) \cup db.pending : n < db.next
                  /\ edit # None => Rises(edit.state, db)
  /\ current = 0 => \A n \in DOMAIN manifests : Len(manifests[n].recs) <= 1

IInv ==
  Core /\ BaseInv /\ RisingInv /\ BoundInv /\ SequenceInv /\ ThreadTypes /\ QueueInv

-----------------------------------------------------------------------------
(* Numbers, records and files *)

\* Every set of naturals that is not empty has a least member.
LEMMA LeastMember ==
  ASSUME NEW S \in SUBSET Nat, S # {}
  PROVE  \E m \in S : \A n \in S : m <= n
  <1>1. PICK m \in S : \A n \in S : <<n, m>> \notin OpToRel(<, Nat)
    BY WFMin, NatLessThanWellFounded, Zenon
  <1>2. \A n \in S : ~(n < m)
    BY <1>1, Zenon DEF OpToRel
  <1>3. \A n \in S : m <= n
    BY <1>2
  <1> QED
    BY <1>3

\* One with a bound has a greatest.
LEMMA GreatestMember ==
  ASSUME NEW S \in SUBSET Nat, S # {}, NEW b \in Nat, \A x \in S : x <= b
  PROVE  \E x \in S : \A y \in S : y <= x
  <1> DEFINE D == {i \in Nat : \E x \in S : x + i = b}
  <1>1. D # {}
    <2>1. PICK x \in S : TRUE
      OBVIOUS
    <2>2. b - x \in Nat /\ x + (b - x) = b
      BY <2>1
    <2> QED
      BY <2>2
  <1>2. PICK i \in D : \A j \in D : i <= j
    BY <1>1, LeastMember
  <1>3. PICK x \in S : x + i = b
    BY <1>2
  <1>4. ASSUME NEW y \in S PROVE y <= x
    <2>1. b - y \in Nat /\ y + (b - y) = b
      OBVIOUS
    <2>2. b - y \in D
      BY <2>1
    <2>3. i <= b - y /\ i \in Nat
      <3> HIDE DEF D
      <3>1. i <= b - y
        BY <1>2, <2>2
      <3> QED
        BY <1>2, <3>1 DEF D
    <2> QED
      BY <1>3, <2>3
  <1> QED
    BY <1>3, <1>4

\* That is the Max.
LEMMA MaxOfBounded ==
  ASSUME NEW S \in SUBSET Nat, S # {}, NEW b \in Nat, \A x \in S : x <= b
  PROVE  Max(S) \in S /\ \A y \in S : y <= Max(S)
  <1>1. \E x \in S : \A y \in S : x >= y
    BY GreatestMember
  <1> QED
    BY <1>1 DEF Max

\* A finite set of naturals has a bound.
LEMMA FiniteBounded ==
  ASSUME NEW S \in SUBSET Nat, IsFiniteSet(S)
  PROVE  \E b \in Nat : \A x \in S : x <= b
  <1>1. PICK n \in Nat : \E f : f \in [1 .. n -> S] /\ \A x \in S : \E i \in 1 .. n : f[i] = x
    BY FS_CardinalityType DEF ExistsBijection, Bijection, Injection, Surjection
  <1>2. PICK f : f \in [1 .. n -> S] /\ \A x \in S : \E i \in 1 .. n : f[i] = x
    BY <1>1
  <1>n. \A i \in 1 .. n : f[i] \in Nat
    <2>1. \A i \in 1 .. n : f[i] \in S
      BY <1>2
    <2> QED
      BY <2>1
  <1> DEFINE UpTo(k) == \E b \in Nat : \A i \in 1 .. k : f[i] <= b
  <1>3. \A k \in 0 .. n : UpTo(k)
    <2> DEFINE Bad == {k \in 0 .. n : ~UpTo(k)}
    <2> HIDE DEF UpTo
    <2> SUFFICES ASSUME Bad # {} PROVE FALSE
      OBVIOUS
    <2>0. PICK k \in Bad : \A j \in Bad : k <= j
      <3>1. Bad \in SUBSET Nat
        OBVIOUS
      <3> HIDE DEF Bad
      <3> QED
        BY <3>1, LeastMember
    <2>1. k \in 0 .. n /\ ~UpTo(k) /\ \A j \in 0 .. k - 1 : UpTo(j)
      BY <2>0
    <2>2. k # 0
      <3>1. \A i \in 1 .. 0 : f[i] <= 0
        OBVIOUS
      <3> QED
        BY <2>1, <3>1 DEF UpTo
    <2>3. UpTo(k - 1)
      BY <2>1, <2>2
    <2>4. PICK b \in Nat : \A i \in 1 .. k - 1 : f[i] <= b
      BY <2>3 DEF UpTo
    <2>5. k \in 1 .. n /\ f[k] \in Nat
      BY <1>n, <2>1, <2>2
    <2>6. \A i \in 1 .. k : f[i] <= b + f[k]
      <3> TAKE i \in 1 .. k
      <3>1. f[i] \in Nat /\ (i = k \/ i \in 1 .. k - 1)
        BY <1>n, <2>5
      <3> QED
        BY <2>4, <2>5, <3>1
    <2>7. b + f[k] \in Nat
      BY <2>5
    <2> QED
      BY <2>1, <2>6, <2>7 DEF UpTo
  <1>4. UpTo(n)
    <2> HIDE DEF UpTo
    <2> QED
      BY <1>1, <1>3
  <1> QED
    BY <1>2, <1>4

\* An image of the numbers up to n is finite.
LEMMA FiniteImage ==
  ASSUME NEW n \in Nat, NEW s
  PROVE  IsFiniteSet({s[i] : i \in 1 .. n})
  <1> DEFINE f == [i \in 1 .. n |-> s[i]]
             T == {s[i] : i \in 1 .. n}
  <1>1. f \in Surjection(1 .. n, T)
    BY DEF Surjection
  <1>2. IsFiniteSet(1 .. n)
    BY FS_Interval
  <1> HIDE DEF f, T
  <1>3. IsFiniteSet(T)
    BY <1>1, <1>2, FS_Surjection, Zenon
  <1> QED
    BY <1>3 DEF T

\* The size of the batches of a record.
LEMMA RecordSize ==
  ASSUME NEW r \in Records
  PROVE  r.seq \in Nat \ {0} /\ r.batches \in SUBSET Writers /\ Cardinality(r.batches) \in Nat
  BY FS_CardinalityType DEF Records

\* The fields of a store, a manifest's state, an edit and a merge.
LEMMA Fields ==
  /\ \A d \in Stores :
       /\ d.l0 \in SUBSET Nat /\ d.deep \in SUBSET Nat /\ d.pending \in SUBSET Nat
       /\ d.log \in Nat /\ d.logfile \in Nat /\ d.next \in Nat /\ d.last \in Nat /\ d.manifest \in Nat
       /\ d.mem \in SUBSET Records /\ d.imm \in (SUBSET Records) \cup {None}
       /\ d.bgError \in BOOLEAN /\ d.scheduled \in BOOLEAN /\ d.shutting \in BOOLEAN /\ d.torn \in BOOLEAN
       /\ Files(d) \in SUBSET Nat /\ d # None
  /\ \A m \in ManifestStates :
       /\ m.l0 \in SUBSET Nat /\ m.deep \in SUBSET Nat /\ Files(m) \in SUBSET Nat
       /\ m.log \in Nat /\ m.next \in Nat /\ m.last \in Nat
  /\ \A e \in Edits :
       /\ e.at \in {"append", "sync", "current", "install"}
       /\ e.owner \in {"open", "flush", "compaction", "move"}
       /\ e.manifest \in Nat /\ e.state \in ManifestStates /\ e # None
  /\ \A b \in Merges : b.level0 \in SUBSET Nat /\ b.below \in SUBSET Nat /\ b.out \in Nat /\ b # None
  BY NoneAssumption DEF Stores, ManifestStates, Edits, Merges, Files

\* Two states of the store that differ in whether the background thread is called only.
SameButCall(d, e) ==
  /\ e \in Stores
  /\ e.l0 = d.l0 /\ e.deep = d.deep /\ e.pending = d.pending /\ e.log = d.log /\ e.logfile = d.logfile
  /\ e.next = d.next /\ e.last = d.last /\ e.manifest = d.manifest /\ e.mem = d.mem /\ e.imm = d.imm
  /\ e.shutting = d.shutting /\ e.torn = d.torn

\* MaybeScheduleCompaction and its like.
LEMMA Calls ==
  ASSUME NEW d \in Stores
  PROVE  /\ SameButCall(d, Scheduled(d)) /\ Scheduled(d).bgError = d.bgError
         /\ d.scheduled => Scheduled(d).scheduled
         /\ SameButCall(d, CallEnded(d)) /\ CallEnded(d).bgError = d.bgError
         /\ SameButCall(d, WithError(d)) /\ WithError(d).scheduled = d.scheduled
         /\ WithError(d).bgError
  <1>1. \A e \in Stores : \A b \in BOOLEAN :
          /\ SameButCall(e, [e EXCEPT !.scheduled = b]) /\ [e EXCEPT !.scheduled = b].bgError = e.bgError
          /\ [e EXCEPT !.scheduled = b].scheduled = b
          /\ SameButCall(e, [e EXCEPT !.bgError = b]) /\ [e EXCEPT !.bgError = b].scheduled = e.scheduled
    BY DEF SameButCall, Stores
  <1>2. \A e \in Stores : /\ SameButCall(e, Scheduled(e)) /\ Scheduled(e).bgError = e.bgError
                          /\ e.scheduled => Scheduled(e).scheduled
    <2> TAKE e \in Stores
    <2> DEFINE f == [e EXCEPT !.scheduled = TRUE]
    <2>1. Scheduled(e) = e \/ Scheduled(e) = f
      BY DEF Scheduled
    <2>2. SameButCall(e, e)
      BY DEF SameButCall
    <2>3. SameButCall(e, f) /\ f.bgError = e.bgError /\ f.scheduled
      BY <1>1
    <2> HIDE DEF f
    <2> QED
      BY <2>1, <2>2, <2>3
  <1>3. SameButCall(d, CallEnded(d)) /\ CallEnded(d).bgError = d.bgError
    <2> DEFINE e == [d EXCEPT !.scheduled = FALSE]
    <2>1. e \in Stores /\ SameButCall(d, e) /\ e.bgError = d.bgError
      BY <1>1 DEF SameButCall
    <2>2. CallEnded(d) = Scheduled(e)
      BY DEF CallEnded
    <2> HIDE DEF e
    <2> QED
      BY <2>1, <2>2, <1>2 DEF SameButCall
  <1>4. WithError(d).bgError
    BY DEF WithError, Stores
  <1> QED
    BY <1>1, <1>2, <1>3, <1>4 DEF WithError

\* An empty file, an added record, a sync.
LEMMA FileChanges ==
  ASSUME NEW S
  PROVE  /\ File(EmptyFile, S) /\ EmptyFile.recs = <<>>
         /\ \A x : \A r \in S : File(x, S) =>
              /\ File(Added(x, r), S) /\ Added(x, r).synced = x.synced
              /\ Added(x, r).recs = Append(x.recs, r)
         /\ \A x : File(x, S) =>
              /\ File(Synced(x), S) /\ Synced(x).recs = x.recs /\ Synced(x).synced = Len(x.recs)
  BY DEF File, EmptyFile, Added, Synced

\* A file that is put among others, or taken away, and one that changes.
LEMMA FileSets ==
  ASSUME NEW S, NEW f, FilesOf(f, S)
  PROVE  /\ \A n \in Nat : \A x : File(x, S) => FilesOf(Put(f, n, x), S)
         /\ \A N : FilesOf(Without(f, N), S)
         /\ \A n \in DOMAIN f : \A x : File(x, S) => FilesOf([f EXCEPT ![n] = x], S)
  BY DEF FilesOf, Put, Without

\* What Put and Without do.
LEMMA PutWithout ==
  ASSUME NEW f
  PROVE  /\ \A n, x : /\ DOMAIN Put(f, n, x) = DOMAIN f \cup {n} /\ Put(f, n, x)[n] = x
                      /\ \A k \in DOMAIN f : k # n => Put(f, n, x)[k] = f[k]
         /\ \A N : /\ DOMAIN Without(f, N) = DOMAIN f \ N
                   /\ \A k \in DOMAIN f \ N : Without(f, N)[k] = f[k]
  BY DEF Put, Without

\* What a loss of power leaves of each file: its synced records and perhaps more of them,
\* and all of that is synced.
LEMMA Truncated ==
  ASSUME NEW S, NEW f, FilesOf(f, S), NEW g \in Truncations(f)
  PROVE  /\ FilesOf(g, S) /\ DOMAIN g = DOMAIN f
         /\ \A n \in DOMAIN f :
              /\ f[n].synced <= Len(g[n].recs) /\ Len(g[n].recs) <= Len(f[n].recs)
              /\ g[n].synced = Len(g[n].recs)
              /\ \A i \in DOMAIN g[n].recs : i \in DOMAIN f[n].recs /\ g[n].recs[i] = f[n].recs[i]
  <1>1. /\ DOMAIN g = DOMAIN f
        /\ \A n \in DOMAIN f : \E k \in DOMAIN f : \E j \in f[k].synced .. Len(f[k].recs) :
             g[n] = [recs |-> SubSeq(f[k].recs, 1, j), synced |-> j]
        /\ \A n \in DOMAIN f : IsPrefix(g[n].recs, f[n].recs) /\ g[n].synced >= f[n].synced
    BY DEF Truncations
  <1>2. ASSUME NEW n \in DOMAIN f
        PROVE  /\ File(g[n], S) /\ n \in Nat
               /\ f[n].synced <= Len(g[n].recs) /\ Len(g[n].recs) <= Len(f[n].recs)
               /\ g[n].synced = Len(g[n].recs)
               /\ \A i \in DOMAIN g[n].recs : i \in DOMAIN f[n].recs /\ g[n].recs[i] = f[n].recs[i]
    <2>1. PICK k \in DOMAIN f : \E j \in f[k].synced .. Len(f[k].recs) :
             g[n] = [recs |-> SubSeq(f[k].recs, 1, j), synced |-> j]
      BY <1>1
    <2>2. PICK j \in f[k].synced .. Len(f[k].recs) : g[n] = [recs |-> SubSeq(f[k].recs, 1, j), synced |-> j]
      BY <2>1
    <2>3. /\ f[k].recs \in Seq(S) /\ f[k].synced \in Nat /\ f[k].synced <= Len(f[k].recs)
          /\ f[n].recs \in Seq(S) /\ f[n].synced \in Nat
      BY DEF FilesOf, File
    <2>4. j \in Nat /\ j <= Len(f[k].recs)
      BY <2>3
    <2>5. SubSeq(f[k].recs, 1, j) \in Seq(S) /\ Len(SubSeq(f[k].recs, 1, j)) = j
      BY <2>3, <2>4
    <2>6. g[n].recs \in Seq(S) /\ g[n].synced = j /\ Len(g[n].recs) = j
      BY <2>2, <2>5
    <2>7. File(g[n], S)
      BY <2>2, <2>4, <2>5 DEF File
    <2>8. /\ Len(g[n].recs) <= Len(f[n].recs) /\ g[n].synced >= f[n].synced
          /\ SubSeq(g[n].recs, 1, Len(g[n].recs)) = SubSeq(f[n].recs, 1, Len(g[n].recs))
      BY <1>1 DEF IsPrefix
    <2>9. \A i \in 1 .. Len(g[n].recs) : i \in 1 .. Len(f[n].recs) /\ g[n].recs[i] = f[n].recs[i]
      <3> TAKE i \in 1 .. Len(g[n].recs)
      <3>1. i \in 1 .. Len(f[n].recs)
        BY <2>3, <2>4, <2>6, <2>8
      <3>2. SubSeq(g[n].recs, 1, Len(g[n].recs))[i] = g[n].recs[i]
        BY <2>6, <2>4
      <3>3. SubSeq(f[n].recs, 1, Len(g[n].recs))[i] = f[n].recs[i]
        BY <2>3, <2>4, <2>6, <2>8
      <3> QED
        BY <2>8, <3>1, <3>2, <3>3
    <2>10. DOMAIN g[n].recs = 1 .. Len(g[n].recs) /\ DOMAIN f[n].recs = 1 .. Len(f[n].recs) /\ n \in Nat
      BY <2>3, <2>6 DEF FilesOf
    <2>11. f[n].synced <= Len(g[n].recs) /\ g[n].synced = Len(g[n].recs)
      BY <2>6, <2>8
    <2> QED
      BY <2>7, <2>8, <2>9, <2>10, <2>11
  <1> QED
    BY <1>1, <1>2 DEF FilesOf

\* The same when some of the files are gone altogether.
LEMMA TruncatedOrGone ==
  ASSUME NEW S, NEW f, FilesOf(f, S), NEW N, NEW g \in Truncations(Without(f, N))
  PROVE  /\ FilesOf(g, S) /\ DOMAIN g = DOMAIN f \ N
         /\ \A n \in DOMAIN g :
              /\ f[n].synced <= Len(g[n].recs) /\ Len(g[n].recs) <= Len(f[n].recs)
              /\ g[n].synced = Len(g[n].recs)
              /\ \A i \in DOMAIN g[n].recs : i \in DOMAIN f[n].recs /\ g[n].recs[i] = f[n].recs[i]
  <1> DEFINE h == Without(f, N)
  <1>1. FilesOf(h, S) /\ DOMAIN h = DOMAIN f \ N /\ \A n \in DOMAIN h : h[n] = f[n]
    BY FileSets, PutWithout
  <1> HIDE DEF h
  <1>2. g \in Truncations(h)
    BY DEF h
  <1>3. /\ FilesOf(g, S) /\ DOMAIN g = DOMAIN h
        /\ \A n \in DOMAIN h :
              /\ h[n].synced <= Len(g[n].recs) /\ Len(g[n].recs) <= Len(h[n].recs)
              /\ g[n].synced = Len(g[n].recs)
              /\ \A i \in DOMAIN g[n].recs : i \in DOMAIN h[n].recs /\ g[n].recs[i] = h[n].recs[i]
    BY <1>1, <1>2, Truncated
  <1> QED
    BY <1>1, <1>3

\* The records of a log are records, whatever is cut off.
LEMMA LogsHold ==
  ASSUME Types
  PROVE  /\ \A n \in DOMAIN logs : /\ LogRecords(n, Len(logs[n].recs)) = {logs[n].recs[i] : i \in DOMAIN logs[n].recs}
                                   /\ LogRecords(n, Len(logs[n].recs)) \in SUBSET Records
         /\ \A S : Contents(S) \in SUBSET Records
  <1>1. ASSUME NEW n \in DOMAIN logs
        PROVE  /\ LogRecords(n, Len(logs[n].recs)) = {logs[n].recs[i] : i \in DOMAIN logs[n].recs}
               /\ LogRecords(n, Len(logs[n].recs)) \in SUBSET Records
    <2>1. logs[n].recs \in Seq(Records)
      BY DEF Types, FileTypes, FilesOf, File
    <2> QED
      BY <2>1 DEF LogRecords
  <1>2. \A S : Contents(S) \in SUBSET Records
    BY DEF Contents, Types, FileTypes
  <1> QED
    BY <1>1, <1>2

\* Recovery numbers files above those it knows and those it finds.
LEMMA NextNumber ==
  ASSUME Types, NEW m \in ManifestStates, NEW L \in SUBSET DOMAIN logs
  PROVE  /\ NextFileNumber(m, L) \in Nat /\ m.next < NextFileNumber(m, L)
         /\ \A n \in L : n < NextFileNumber(m, L)
  <1> DEFINE taken(S) == Cardinality({n \in S : logs[n].recs # <<>>})
             after(n) == {k \in L : k > n}
             C == {m.next + 1 + taken(L)} \cup {n + 1 + taken(after(n)) : n \in L}
             all == Cardinality(DOMAIN logs)
  <1>1. all \in Nat /\ L \in SUBSET Nat /\ IsFiniteSet(L) /\ m.next \in Nat
    BY FS_Subset, FS_CardinalityType, Fields DEF Types, FileTypes, FilesOf
  <1>2. \A S \in SUBSET L : taken(S) \in Nat /\ taken(S) <= all
    <2> TAKE S \in SUBSET L
    <2>1. {n \in S : logs[n].recs # <<>>} \in SUBSET DOMAIN logs
      OBVIOUS
    <2> QED
      BY <2>1, FS_Subset, FS_CardinalityType DEF Types, FileTypes
  <1>3. PICK b \in Nat : \A n \in L : n <= b
    BY <1>1, FiniteBounded
  <1> HIDE DEF taken, all
  <1>4. taken(L) \in Nat /\ taken(L) <= all /\ \A n \in L : taken(after(n)) \in Nat /\ taken(after(n)) <= all
    BY <1>2
  <1> HIDE DEF after
  <1>5. C \in SUBSET Nat /\ C # {} /\ m.next + b + 1 + all \in Nat /\ \A x \in C : x <= m.next + b + 1 + all
    <2>1. m.next + 1 + taken(L) \in Nat /\ m.next + 1 + taken(L) <= m.next + b + 1 + all
      BY <1>1, <1>3, <1>4
    <2>2. \A n \in L : n + 1 + taken(after(n)) \in Nat /\ n + 1 + taken(after(n)) <= m.next + b + 1 + all
      BY <1>1, <1>3, <1>4
    <2>3. m.next + b + 1 + all \in Nat
      BY <1>1, <1>3
    <2> QED
      BY <2>1, <2>2, <2>3
  <1>6. Max(C) \in C /\ \A x \in C : x <= Max(C)
    <2> HIDE DEF C
    <2> QED
      BY <1>5, MaxOfBounded
  <1>7. NextFileNumber(m, L) = Max(C)
    BY DEF NextFileNumber, taken, after
  <1>8. Max(C) \in Nat /\ m.next + 1 + taken(L) <= Max(C) /\ \A n \in L : n + 1 + taken(after(n)) <= Max(C)
    <2>1. m.next + 1 + taken(L) \in C /\ \A n \in L : n + 1 + taken(after(n)) \in C
      OBVIOUS
    <2> HIDE DEF C
    <2> QED
      BY <1>5, <1>6, <2>1
  <1> HIDE DEF C
  <1> QED
    BY <1>1, <1>4, <1>7, <1>8

\* The tables it writes hold what the logs hold.
LEMMA Recovered ==
  ASSUME Types, NEW m \in ManifestStates, NEW a, a = RecoverLogFiles(m)
  PROVE  /\ a.next \in Nat /\ m.next < a.next
         /\ \A n \in DOMAIN logs : n >= m.log => n < a.next
         /\ DOMAIN a.new \in SUBSET Nat /\ \A k \in DOMAIN a.new : m.next < k
         /\ \A k \in DOMAIN a.new : \A r \in a.new[k] :
              \E n \in DOMAIN logs : n >= m.log /\ r \in LogRecords(n, Len(logs[n].recs))
  <1> DEFINE replayed == {n \in DOMAIN logs : n >= m.log}
             table(n) == NextFileNumber(m, {k \in replayed : k < n})
             full == {n \in replayed : logs[n].recs # <<>>}
  <1>1. /\ a.next = NextFileNumber(m, replayed)
        /\ a.new = [k \in {table(n) : n \in full} |->
                     UNION {LogRecords(n, Len(logs[n].recs)) : n \in {l \in full : table(l) = k}}]
    BY DEF RecoverLogFiles
  <1>2. replayed \in SUBSET DOMAIN logs /\ \A n \in full : {k \in replayed : k < n} \in SUBSET DOMAIN logs
    OBVIOUS
  <1>3. \A n \in full : table(n) \in Nat /\ m.next < table(n)
    BY <1>2, NextNumber
  <1>4. a.next \in Nat /\ m.next < a.next /\ \A n \in replayed : n < a.next
    BY <1>1, <1>2, NextNumber
  <1> HIDE DEF table
  <1>5. DOMAIN a.new \in SUBSET Nat /\ \A k \in DOMAIN a.new : m.next < k
    BY <1>1, <1>3
  <1>6. \A k \in DOMAIN a.new : \A r \in a.new[k] :
              \E n \in DOMAIN logs : n >= m.log /\ r \in LogRecords(n, Len(logs[n].recs))
    BY <1>1
  <1> QED
    BY <1>4, <1>5, <1>6

\* The next file number grows with the logs that are replayed.
LEMMA NextNumberGrows ==
  ASSUME Types, NEW m \in ManifestStates, NEW K \in SUBSET DOMAIN logs, NEW L \in SUBSET K
  PROVE  NextFileNumber(m, L) <= NextFileNumber(m, K)
  <1> DEFINE taken(S) == Cardinality({n \in S : logs[n].recs # <<>>})
             later(S, n) == {k \in S : k > n}
             C(S) == {m.next + 1 + taken(S)} \cup {n + 1 + taken(later(S, n)) : n \in S}
             all == Cardinality(DOMAIN logs)
  <1>1. all \in Nat /\ K \in SUBSET Nat /\ IsFiniteSet(K) /\ m.next \in Nat /\ IsFiniteSet(DOMAIN logs)
    BY FS_Subset, FS_CardinalityType, Fields DEF Types, FileTypes, FilesOf
  <1>2. \A S, R : R \subseteq K /\ S \subseteq R => taken(S) \in Nat /\ taken(R) \in Nat /\ taken(S) <= taken(R) /\ taken(R) <= all
    <2> SUFFICES ASSUME NEW S, NEW R, R \subseteq K, S \subseteq R
                 PROVE  taken(S) \in Nat /\ taken(R) \in Nat /\ taken(S) <= taken(R) /\ taken(R) <= all
      OBVIOUS
    <2> DEFINE X == {n \in S : logs[n].recs # <<>>}
               Y == {n \in R : logs[n].recs # <<>>}
    <2>1. X \subseteq Y /\ Y \subseteq DOMAIN logs
      OBVIOUS
    <2>2. taken(S) = Cardinality(X) /\ taken(R) = Cardinality(Y)
      OBVIOUS
    <2> HIDE DEF X, Y, taken
    <2>3. IsFiniteSet(Y) /\ Cardinality(Y) <= all
      BY <1>1, <2>1, FS_Subset
    <2>4. IsFiniteSet(X) /\ Cardinality(X) <= Cardinality(Y)
      BY <2>1, <2>3, FS_Subset
    <2> QED
      BY <2>2, <2>3, <2>4, FS_CardinalityType
  <1> HIDE DEF taken, all
  <1>3. \A n : later(L, n) \subseteq later(K, n) /\ later(K, n) \subseteq K /\ later(L, n) \subseteq L
    OBVIOUS
  <1>4. PICK b \in Nat : \A n \in K : n <= b
    BY <1>1, FiniteBounded
  <1>5. /\ taken(L) \in Nat /\ taken(K) \in Nat /\ taken(L) <= taken(K) /\ taken(K) <= all
        /\ \A n \in K : /\ taken(later(L, n)) \in Nat /\ taken(later(K, n)) \in Nat
                        /\ taken(later(L, n)) <= taken(later(K, n)) /\ taken(later(K, n)) <= all
    <2> HIDE DEF later
    <2>1. \A n \in K : taken(later(L, n)) \in Nat /\ taken(later(K, n)) \in Nat
                       /\ taken(later(L, n)) <= taken(later(K, n)) /\ taken(later(K, n)) <= all
      BY <1>2, <1>3
    <2>2. taken(L) \in Nat /\ taken(K) \in Nat /\ taken(L) <= taken(K) /\ taken(K) <= all
      BY <1>2
    <2> QED
      BY <2>1, <2>2
  <1> HIDE DEF later
  <1>6. /\ C(L) \in SUBSET Nat /\ C(K) \in SUBSET Nat /\ C(L) # {} /\ C(K) # {}
        /\ m.next + b + 1 + all \in Nat
        /\ \A x \in C(K) : x <= m.next + b + 1 + all
        /\ \A x \in C(L) : x <= m.next + b + 1 + all
    <2>1. \A n \in L : n \in K /\ n \in Nat
      BY <1>1
    <2> QED
      BY <1>1, <1>4, <1>5, <2>1
  <1>7. \A x \in C(L) : \E y \in C(K) : x <= y
    <2> TAKE x \in C(L)
    <2>1. CASE x = m.next + 1 + taken(L)
      BY <1>1, <1>5, <2>1
    <2>2. ASSUME NEW n \in L, x = n + 1 + taken(later(L, n)) PROVE \E y \in C(K) : x <= y
      <3>1. n \in K /\ n \in Nat
        BY <1>1
      <3>2. n + 1 + taken(later(K, n)) \in C(K)
        BY <3>1
      <3>3. x <= n + 1 + taken(later(K, n))
        BY <1>5, <2>2, <3>1
      <3> QED
        BY <3>2, <3>3
    <2> QED
      BY <2>1, <2>2
  <1>8. NextFileNumber(m, L) = Max(C(L)) /\ NextFileNumber(m, K) = Max(C(K))
    BY DEF NextFileNumber, taken, later
  <1> HIDE DEF C
  <1>9. /\ Max(C(L)) \in C(L)
        /\ Max(C(K)) \in C(K) /\ \A y \in C(K) : y <= Max(C(K))
    BY <1>6, MaxOfBounded
  <1>10. PICK y \in C(K) : Max(C(L)) <= y
    BY <1>7, <1>9
  <1>11. Max(C(L)) \in Nat /\ y \in Nat /\ Max(C(K)) \in Nat /\ y <= Max(C(K))
    BY <1>6, <1>9, <1>10
  <1> QED
    BY <1>8, <1>10, <1>11

\* The tables recovery writes have new numbers, and hold what the logs hold.
LEMMA RecoveredAll ==
  ASSUME Types, NEW m \in ManifestStates, NEW a, a = RecoverLogFiles(m)
  PROVE  /\ \A k \in DOMAIN a.new : m.next < k /\ k <= a.next
         /\ \A r : (\E k \in DOMAIN a.new : r \in a.new[k]) <=> InLogs(logs, m.log, r)
  <1> DEFINE replayed == {n \in DOMAIN logs : n >= m.log}
             before(n) == {k \in replayed : k < n}
             table(n) == NextFileNumber(m, before(n))
             full == {n \in replayed : logs[n].recs # <<>>}
             held(n) == LogRecords(n, Len(logs[n].recs))
  <1>1. /\ a.next = NextFileNumber(m, replayed)
        /\ a.new = [k \in {table(n) : n \in full} |-> UNION {held(n) : n \in {l \in full : table(l) = k}}]
    BY DEF RecoverLogFiles
  <1>2. replayed \in SUBSET DOMAIN logs /\ \A n \in full : before(n) \in SUBSET replayed
    OBVIOUS
  <1>3. \A n \in full : m.next < table(n) /\ table(n) <= a.next
    BY <1>1, <1>2, NextNumber, NextNumberGrows
  <1>4. \A n \in DOMAIN logs : held(n) = {logs[n].recs[i] : i \in DOMAIN logs[n].recs}
    BY LogsHold
  <1>5. \A n \in DOMAIN logs : logs[n].recs = <<>> => DOMAIN logs[n].recs = {}
    OBVIOUS
  <1> HIDE DEF table, held
  <1>6. \A k \in DOMAIN a.new : m.next < k /\ k <= a.next
    BY <1>1, <1>3
  <1>7. \A r : (\E k \in DOMAIN a.new : r \in a.new[k]) <=> \E n \in full : r \in held(n)
    <2> TAKE r
    <2> HIDE DEF full
    <2>1. \A k \in DOMAIN a.new : r \in a.new[k] => \E n \in full : r \in held(n)
      BY <1>1
    <2>2. \A n \in full : r \in held(n) => table(n) \in DOMAIN a.new /\ r \in a.new[table(n)]
      BY <1>1
    <2> QED
      BY <2>1, <2>2
  <1>8. \A r : (\E n \in full : r \in held(n)) <=> InLogs(logs, m.log, r)
    BY <1>4, <1>5 DEF InLogs
  <1> QED
    BY <1>6, <1>7, <1>8

\* The last sequence number is that of the last record, or the one given.
LEMMA LastSequenceFound ==
  ASSUME NEW R \in SUBSET Records, NEW last \in Nat, NEW b \in Nat, Below(R, b)
  PROVE  LastSequence(R, last) \in Nat /\ Below(R, LastSequence(R, last)) /\ last <= LastSequence(R, last)
  <1> DEFINE end(r) == r.seq + Cardinality(r.batches) - 1
             ends == {end(r) : r \in R} \cup {last}
  <1>1. \A r \in R : end(r) \in Nat /\ end(r) <= b /\ end(r) = LastOf(r)
    BY RecordSize DEF Below, LastOf
  <1> HIDE DEF end
  <1>2. ends \in SUBSET Nat /\ ends # {} /\ last + b \in Nat /\ \A x \in ends : x <= last + b
    BY <1>1
  <1>3. \E s \in ends : \A e \in ends : e <= s
    <2> HIDE DEF ends
    <2> QED
      BY <1>2, GreatestMember
  <1>4. LastSequence(R, last) = CHOOSE s \in ends : \A e \in ends : e <= s
    BY DEF LastSequence, end
  <1>5. LastSequence(R, last) \in ends /\ \A e \in ends : e <= LastSequence(R, last)
    <2> HIDE DEF ends
    <2> QED
      BY <1>3, <1>4
  <1>6. \A r \in R : end(r) \in ends
    OBVIOUS
  <1> QED
    BY <1>1, <1>2, <1>5, <1>6 DEF Below

-----------------------------------------------------------------------------
(* Threads: the queue of writers *)

\* A thread in Write that is not asleep is the first of the queue.
LEMMA FirstIsAwake ==
  ASSUME ThreadTypes, QueueInv, NEW t \in Threads, pc[t] \in InQueue, pc[t] # "asleep"
  PROVE  queue # <<>> /\ 1 \in DOMAIN queue /\ queue[1] = t /\ Head(queue) = t
  <1>1. PICK i \in DOMAIN queue : queue[i] = t
    BY DEF QueueInv
  <1>2. i = 1
    BY <1>1 DEF QueueInv
  <1> QED
    BY <1>1, <1>2 DEF ThreadTypes

\* The first thread goes from one place in Write to another.
LEMMA FirstMoves ==
  ASSUME ThreadTypes, QueueInv, NEW t \in Threads, pc[t] \in InQueue, pc[t] # "asleep",
         NEW p \in InQueue, p # "asleep", pc' = [pc EXCEPT ![t] = p], UNCHANGED <<queue, result>>,
         group' \in Groups \cup {None}, group' # None => group'.size \in DOMAIN queue,
         p \in Busy <=> group' # None
  PROVE  ThreadTypes' /\ QueueInv'
  <1>1. queue # <<>> /\ 1 \in DOMAIN queue /\ queue[1] = t
    BY FirstIsAwake
  <1>2. ThreadTypes'
    BY DEF ThreadTypes, Places
  <1>3. pc'[t] = p /\ \A u \in Threads : u # t => pc'[u] = pc[u]
    BY DEF ThreadTypes
  <1>4. \A i \in DOMAIN queue : queue[i] \in Threads /\ (queue[i] = t <=> i = 1)
    BY <1>1 DEF ThreadTypes, QueueInv
  <1>5. \A u \in Threads : pc[u] \in Busy => u = t
    <2>1. \A u \in Threads : pc[u] \in Busy => u = queue[1]
      BY FirstIsAwake DEF Busy, InQueue
    <2> QED
      BY <1>1, <2>1
  <1>6. p # "done" /\ pc[t] # "done" /\ Busy \subseteq InQueue
    BY DEF InQueue, Busy
  <1>7. /\ \A i, j \in DOMAIN queue' : queue'[i] = queue'[j] => i = j
        /\ \A u \in Threads : pc'[u] \in InQueue <=> \E i \in DOMAIN queue' : queue'[i] = u
        /\ \A i \in DOMAIN queue' : i # 1 <=> pc'[queue'[i]] = "asleep"
    BY <1>1, <1>3, <1>4 DEF QueueInv
  <1>8. \A u \in Threads : result'[u] # None <=> pc'[u] = "done"
    BY <1>3, <1>6 DEF QueueInv
  <1>9. /\ group' # None => queue' # <<>> /\ pc'[queue'[1]] \in Busy /\ group'.size \in DOMAIN queue'
        /\ \A u \in Threads : pc'[u] \in Busy => group' # None
    BY <1>1, <1>3, <1>5
  <1> QED
    BY <1>2, <1>7, <1>8, <1>9 DEF QueueInv

\* The first n writers leave.
LEMMA WritersLeave ==
  ASSUME ThreadTypes, QueueInv, NEW n \in DOMAIN queue, NEW s \in {"ok", "unsure", "error"}, Leave(n, s)
  PROVE  ThreadTypes' /\ QueueInv' /\ group' = None
  <1> DEFINE left == {queue[i] : i \in 1 .. n}
  <1>1. /\ queue' = SubSeq(queue, n + 1, Len(queue))
        /\ result' = [t \in Threads |-> IF t \in left THEN s ELSE result[t]]
        /\ pc' = [t \in Threads |-> IF t \in left THEN "done"
                                    ELSE IF n < Len(queue) /\ t = queue[n + 1] THEN "front"
                                    ELSE pc[t]]
        /\ group' = None
    BY DEF Leave
  <1>2. queue \in Seq(Threads) /\ Len(queue) \in Nat /\ DOMAIN queue = 1 .. Len(queue) /\ n \in 1 .. Len(queue)
    BY DEF ThreadTypes
  <1>3. /\ queue' \in Seq(Threads) /\ DOMAIN queue' = 1 .. Len(queue) - n
        /\ \A i \in DOMAIN queue' : n + i \in DOMAIN queue /\ queue'[i] = queue[n + i]
    <2>1. \A i \in n + 1 .. Len(queue) : queue[i] \in Threads
      BY <1>2
    <2>2. /\ queue' \in Seq(Threads) /\ Len(queue') = Len(queue) - n
          /\ \A i \in 1 .. Len(queue) - (n + 1) + 1 : queue'[i] = queue[(n + 1) + i - 1]
      <3>1. n + 1 \in Int /\ Len(queue) \in Int
        BY <1>2
      <3>2. /\ SubSeq(queue, n + 1, Len(queue)) \in Seq(Threads)
            /\ Len(SubSeq(queue, n + 1, Len(queue))) = IF n + 1 <= Len(queue) THEN Len(queue) - (n + 1) + 1 ELSE 0
            /\ \A i \in 1 .. Len(queue) - (n + 1) + 1 :
                 SubSeq(queue, n + 1, Len(queue))[i] = queue[(n + 1) + i - 1]
        BY <2>1, <3>1, SubSeqProperties
      <3> QED
        BY <1>1, <1>2, <3>2
    <2>3. ASSUME NEW i \in DOMAIN queue' PROVE n + i \in DOMAIN queue /\ queue'[i] = queue[n + i]
      <3>1. i \in 1 .. Len(queue) - (n + 1) + 1 /\ (n + 1) + i - 1 = n + i
        BY <1>2, <2>2
      <3> QED
        BY <1>2, <2>2, <3>1
    <2> QED
      BY <1>2, <2>2, <2>3
  <1>3a. \A i \in DOMAIN queue : i > n => i - n \in DOMAIN queue' /\ queue'[i - n] = queue[i]
    <2> SUFFICES ASSUME NEW i \in DOMAIN queue, i > n
                 PROVE  i - n \in DOMAIN queue' /\ queue'[i - n] = queue[i]
      OBVIOUS
    <2>1. i - n \in DOMAIN queue' /\ n + (i - n) = i
      BY <1>2, <1>3
    <2> QED
      BY <1>3, <2>1
  <1>4. \A i \in DOMAIN queue : queue[i] \in Threads /\ (queue[i] \in left <=> i <= n)
    <2> TAKE i \in DOMAIN queue
    <2>1. queue[i] \in Threads
      BY <1>2
    <2>2. ASSUME queue[i] \in left PROVE i <= n
      <3>1. PICK j \in 1 .. n : queue[j] = queue[i]
        BY <2>2
      <3>2. j \in DOMAIN queue
        BY <1>2
      <3> QED
        BY <3>1, <3>2 DEF QueueInv
    <2>3. ASSUME i <= n PROVE queue[i] \in left
      BY <1>2, <2>3
    <2> QED
      BY <2>1, <2>2, <2>3
  <1> HIDE DEF left
  <1>5. ThreadTypes'
    <2>1. pc' \in [Threads -> Places] /\ result' \in [Threads -> {None, "ok", "unsure", "error"}]
      BY <1>1 DEF ThreadTypes, Places, InQueue
    <2> QED
      BY <1>1, <1>3, <2>1 DEF ThreadTypes
  <1>6. \A i \in DOMAIN queue : /\ i > n => pc'[queue[i]] = IF i = n + 1 THEN "front" ELSE "asleep"
                                /\ i <= n => pc'[queue[i]] = "done"
    <2> TAKE i \in DOMAIN queue
    <2>1. CASE i <= n
      BY <1>1, <1>2, <1>4, <2>1
    <2>2. CASE i > n
      <3>1. queue[i] \notin left /\ queue[i] \in Threads /\ n < Len(queue) /\ n + 1 \in DOMAIN queue
        BY <1>2, <1>4, <2>2
      <3>2. queue[i] = queue[n + 1] <=> i = n + 1
        BY <3>1 DEF QueueInv
      <3>3. pc[queue[i]] = "asleep"
        BY <1>2, <2>2 DEF QueueInv
      <3> QED
        BY <1>1, <2>2, <3>1, <3>2, <3>3
    <2> QED
      BY <1>2, <2>1, <2>2
  <1>7. \A t \in Threads : t \in left => \E i \in DOMAIN queue : queue[i] = t /\ i <= n
    BY <1>2 DEF left
  <1>8. \A t \in Threads : pc'[t] \in InQueue => \E i \in DOMAIN queue : queue[i] = t /\ i > n
    <2> SUFFICES ASSUME NEW t \in Threads, pc'[t] \in InQueue
                 PROVE  \E i \in DOMAIN queue : queue[i] = t /\ i > n
      OBVIOUS
    <2>1. pc'[t] # "done" /\ t \notin left
      BY <1>6, <1>7 DEF InQueue
    <2>2. (n < Len(queue) /\ t = queue[n + 1]) \/ pc[t] \in InQueue
      BY <1>1, <2>1
    <2>3. \E i \in DOMAIN queue : queue[i] = t
      BY <1>2, <2>2 DEF QueueInv
    <2> QED
      BY <1>2, <1>4, <2>1, <2>3
  <1>9. \A i, j \in DOMAIN queue' : queue'[i] = queue'[j] => i = j
    <2> TAKE i, j \in DOMAIN queue'
    <2>1. queue[n + i] = queue[n + j] => n + i = n + j
      BY <1>3 DEF QueueInv
    <2> QED
      BY <1>2, <1>3, <2>1
  <1>10. \A i \in DOMAIN queue' : pc'[queue'[i]] = IF i = 1 THEN "front" ELSE "asleep"
    <2> TAKE i \in DOMAIN queue'
    <2>1. n + i \in DOMAIN queue /\ queue'[i] = queue[n + i] /\ n + i > n /\ (n + i = n + 1 <=> i = 1)
      BY <1>2, <1>3
    <2> QED
      BY <1>6, <2>1
  <1>11. \A t \in Threads : pc'[t] \in InQueue <=> \E i \in DOMAIN queue' : queue'[i] = t
    <2>1. \A t \in Threads : pc'[t] \in InQueue => \E i \in DOMAIN queue' : queue'[i] = t
      BY <1>3a, <1>8
    <2>2. \A i \in DOMAIN queue' : pc'[queue'[i]] \in InQueue
      BY <1>10 DEF InQueue
    <2> QED
      BY <2>1, <2>2
  <1>12. \A t \in Threads : result'[t] # None <=> pc'[t] = "done"
    <2> TAKE t \in Threads
    <2>1. CASE t \in left
      BY <1>1, <2>1, NoneAssumption
    <2>2. CASE t \notin left
      <3>1. n < Len(queue) /\ t = queue[n + 1] => pc[t] # "done"
        BY <1>2 DEF QueueInv
      <3> QED
        BY <1>1, <2>2, <3>1 DEF QueueInv
    <2> QED
      BY <2>1, <2>2
  <1>13. \A t \in Threads : pc'[t] \notin Busy
    <2>1. \A i \in DOMAIN queue' : pc'[queue'[i]] \notin Busy
      BY <1>10 DEF Busy
    <2> QED
      BY <1>11, <2>1 DEF Busy, InQueue
  <1>14. \A i \in DOMAIN queue' : i # 1 <=> pc'[queue'[i]] = "asleep"
    BY <1>10
  <1> QED
    BY <1>1, <1>5, <1>9, <1>11, <1>12, <1>13, <1>14 DEF QueueInv

\* A group is one of the first writers, and its record is numbered next.
LEMMA GroupTaken ==
  ASSUME ThreadTypes, QueueInv, NEW t \in Threads, pc[t] = "front", NEW d \in Stores, GroupWith(d)
  PROVE  /\ ThreadTypes' /\ QueueInv'
         /\ group' \in Groups /\ group' # None /\ group'.record \in Records
         /\ group'.record.seq = d.last + 1
  <1>1. queue # <<>> /\ 1 \in DOMAIN queue /\ Head(queue) = t
    BY FirstIsAwake DEF InQueue
  <1>2. PICK n \in BuildBatchGroup :
          group' = [size |-> n, record |-> [seq |-> d.last + 1,
                                            batches |-> {queue[i] : i \in 1 .. n} \cap Writers]]
    BY DEF GroupWith
  <1>3. n \in 1 .. Len(queue)
    BY <1>2 DEF BuildBatchGroup
  <1> DEFINE r == [seq |-> d.last + 1, batches |-> {queue[i] : i \in 1 .. n} \cap Writers]
  <1>4. r \in Records
    <2>0. n \in Nat
      BY <1>3 DEF ThreadTypes
    <2>1. IsFiniteSet({queue[i] : i \in 1 .. n})
      BY <2>0, FiniteImage
    <2>2. IsFiniteSet({queue[i] : i \in 1 .. n} \cap Writers)
      BY <2>1, FS_Subset
    <2>3. d.last + 1 \in Nat \ {0}
      BY Fields
    <2> QED
      BY <2>2, <2>3 DEF Records
  <1>5. group' = [size |-> n, record |-> r]
    BY <1>2
  <1> HIDE DEF r
  <1>6. group' \in Groups /\ group'.record = r /\ group'.size = n /\ n \in DOMAIN queue
    BY <1>3, <1>4, <1>5 DEF Groups, ThreadTypes
  <1>7. group' # None
    BY <1>6, NoneAssumption
  <1>8. pc' = [pc EXCEPT ![t] = "append"] /\ UNCHANGED <<queue, result>>
    BY <1>1 DEF GroupWith
  <1>9. ThreadTypes' /\ QueueInv'
    <2> DEFINE p == "append"
    <2>1. p \in InQueue /\ p # "asleep" /\ p \in Busy /\ pc[t] \in InQueue /\ pc[t] # "asleep"
      BY DEF InQueue, Busy
    <2>2. pc' = [pc EXCEPT ![t] = p]
      BY <1>8
    <2> HIDE DEF p
    <2> QED
      BY <1>6, <1>7, <1>8, <2>1, <2>2, FirstMoves
  <1>10. r.seq = d.last + 1
    BY DEF r
  <1> QED
    BY <1>4, <1>6, <1>7, <1>9, <1>10

\* Those who wait are woken.
LEMMA Signalled ==
  ASSUME ThreadTypes, QueueInv, SignalAll, UNCHANGED <<queue, group, result>>
  PROVE  ThreadTypes' /\ QueueInv'
  <1>1. /\ pc' \in [Threads -> Places]
        /\ \A t \in Threads : /\ pc'[t] \in InQueue <=> pc[t] \in InQueue
                              /\ pc'[t] = "asleep" <=> pc[t] = "asleep"
                              /\ pc'[t] = "done" <=> pc[t] = "done"
                              /\ pc'[t] \in Busy <=> pc[t] \in Busy
    BY DEF SignalAll, ThreadTypes, Places, InQueue, Busy
  <1>2. \A i \in DOMAIN queue : queue[i] \in Threads
    BY DEF ThreadTypes
  <1>3. queue # <<>> => 1 \in DOMAIN queue
    BY DEF ThreadTypes
  <1>4. ThreadTypes'
    BY <1>1 DEF ThreadTypes
  <1>5. QueueInv'
    BY <1>1, <1>2, <1>3 DEF QueueInv
  <1> QED
    BY <1>4, <1>5

\* The process is gone.
LEMMA NobodyLeft ==
  ASSUME ThreadTypes, QueueInv, ProcessGone
  PROVE  ThreadTypes' /\ QueueInv'
  <1>1. /\ queue' = <<>> /\ group' = None /\ result' = result
        /\ pc' = [t \in Threads |-> IF pc[t] \in {"todo", "done"} THEN pc[t] ELSE "dead"]
    BY DEF ProcessGone
  <1>2. pc' \in [Threads -> Places] /\ \A t \in Threads : /\ pc'[t] \notin InQueue /\ pc'[t] \notin Busy
                                                          /\ pc'[t] = "done" <=> pc[t] = "done"
    BY <1>1 DEF Places, InQueue, Busy
  <1> QED
    BY <1>1, <1>2 DEF ThreadTypes, QueueInv

\* A thread calls Write.
LEMMA ThreadEnqueued ==
  ASSUME ThreadTypes, QueueInv, NEW t \in Threads, Enqueue(t)
  PROVE  ThreadTypes' /\ QueueInv'
  <1> DEFINE last == Len(queue) + 1
             p == IF queue = <<>> THEN "front" ELSE "asleep"
  <1>1. /\ pc[t] = "todo" /\ queue' = Append(queue, t) /\ UNCHANGED <<group, result>>
        /\ pc' = [pc EXCEPT ![t] = p]
    BY DEF Enqueue
  <1>2. /\ queue' \in Seq(Threads) /\ DOMAIN queue' = DOMAIN queue \cup {last} /\ queue'[last] = t
        /\ \A i \in DOMAIN queue : queue'[i] = queue[i] /\ i # last /\ queue[i] \in Threads
        /\ last \in Nat /\ (last = 1 <=> queue = <<>>) /\ (queue # <<>> => 1 \in DOMAIN queue)
        /\ queue' # <<>>
    BY <1>1 DEF ThreadTypes
  <1>3. pc'[t] = p /\ \A u \in Threads : u # t => pc'[u] = pc[u]
    BY <1>1 DEF ThreadTypes
  <1>4. \A i \in DOMAIN queue : queue[i] # t
    BY <1>1 DEF QueueInv, InQueue
  <1>5. p \in InQueue /\ p \notin Busy /\ p # "done" /\ (p = "asleep" <=> queue # <<>>) /\ p \in Places
    BY DEF InQueue, Busy, Places
  <1> HIDE DEF p, last
  <1>6. ThreadTypes'
    BY <1>1, <1>2, <1>5 DEF ThreadTypes
  <1>7. \A i, j \in DOMAIN queue' : queue'[i] = queue'[j] => i = j
    BY <1>2, <1>4 DEF QueueInv
  <1>8. \A u \in Threads : pc'[u] \in InQueue <=> \E i \in DOMAIN queue' : queue'[i] = u
    <2> TAKE u \in Threads
    <2>1. CASE u = t
      BY <1>2, <1>3, <1>5, <2>1
    <2>2. CASE u # t
      BY <1>2, <1>3, <2>2 DEF QueueInv
    <2> QED
      BY <2>1, <2>2
  <1>9. \A i \in DOMAIN queue' : i # 1 <=> pc'[queue'[i]] = "asleep"
    <2> TAKE i \in DOMAIN queue'
    <2>1. CASE i = last
      BY <1>2, <1>3, <1>5, <2>1
    <2>2. CASE i \in DOMAIN queue
      BY <1>2, <1>3, <1>4, <2>2 DEF QueueInv
    <2> QED
      BY <1>2, <2>1, <2>2
  <1>10. \A u \in Threads : result'[u] # None <=> pc'[u] = "done"
    BY <1>1, <1>3, <1>5 DEF QueueInv
  <1>11. group' # None => queue' # <<>> /\ pc'[queue'[1]] \in Busy /\ group'.size \in DOMAIN queue'
    BY <1>1, <1>2, <1>3, <1>4 DEF QueueInv
  <1>12. \A u \in Threads : pc'[u] \in Busy => group' # None
    BY <1>1, <1>3, <1>5 DEF QueueInv
  <1> QED
    BY <1>6, <1>7, <1>8, <1>9, <1>10, <1>11, <1>12 DEF QueueInv

\* The steps of a thread in Write.
LEMMA ThreadWrites ==
  ASSUME Types, QueueInv, db # None, NEW t \in Threads, Writing(t)
  PROVE  ThreadTypes' /\ QueueInv'
  <1>0. ThreadTypes /\ db \in Stores
    BY DEF Types, StoreTypes
  <1>1. CASE WriteInRoom(t)
    BY <1>0, <1>1, GroupTaken DEF WriteInRoom
  <1>2. ASSUME pc[t] = "front", NEW s \in {"ok", "unsure", "error"}, Leave(1, s)
        PROVE  ThreadTypes' /\ QueueInv'
    <2>1. 1 \in DOMAIN queue
      BY <1>0, <1>2, FirstIsAwake DEF InQueue
    <2> QED
      BY <1>0, <1>2, <2>1, WritersLeave
  <1>3. CASE FailAfterError(t)
    BY <1>2, <1>3 DEF FailAfterError
  <1>4. CASE WaitForRoom(t)
    <2> DEFINE p == "waiting"
    <2>1. /\ pc[t] = "front" /\ pc' = [pc EXCEPT ![t] = p] /\ UNCHANGED <<queue, result, group>>
      BY <1>4 DEF WaitForRoom
    <2>2. /\ pc[t] \in InQueue /\ pc[t] # "asleep" /\ pc[t] \notin Busy
          /\ p \in InQueue /\ p # "asleep" /\ p \notin Busy
      BY <2>1 DEF InQueue, Busy
    <2>3. group = None
      <3>1. queue[1] = t
        BY <1>0, <2>2, FirstIsAwake
      <3> QED
        BY <2>2, <3>1 DEF QueueInv
    <2> HIDE DEF p
    <2> QED
      BY <1>0, <2>1, <2>2, <2>3, FirstMoves
  <1>5. CASE SwitchMemTable(t)
    <2>1. pc[t] = "front" /\ ((\E s \in {"ok", "unsure", "error"} : Leave(1, s)) \/ GroupWith(db))
      BY <1>5 DEF SwitchMemTable
    <2> QED
      BY <1>0, <1>2, <2>1, GroupTaken
  <1>6. ASSUME pc[t] \in Busy
        PROVE  /\ group # None /\ group \in Groups /\ group.size \in DOMAIN queue
               /\ pc[t] \in InQueue /\ pc[t] # "asleep"
    BY <1>0, <1>6 DEF QueueInv, ThreadTypes, Busy, InQueue
  <1>7. ASSUME NEW p \in {"sync", "insert"}, pc[t] \in Busy, pc' = [pc EXCEPT ![t] = p],
               UNCHANGED <<queue, result, group>>
        PROVE  ThreadTypes' /\ QueueInv'
    <2>1. p \in InQueue /\ p # "asleep" /\ p \in Busy
      BY DEF InQueue, Busy
    <2> QED
      BY <1>0, <1>6, <1>7, <2>1, FirstMoves
  <1>8. CASE AddRecord(t)
    <2>1. pc[t] \in Busy
      BY <1>8 DEF AddRecord, Busy
    <2>2. \/ /\ pc' = [pc EXCEPT ![t] = "sync"] \/ pc' = [pc EXCEPT ![t] = "insert"]
             /\ UNCHANGED <<queue, result, group>>
          \/ Leave(group.size, "error")
      BY <1>8 DEF AddRecord
    <2>3. CASE Leave(group.size, "error")
      BY <1>0, <1>6, <2>1, <2>3, WritersLeave
    <2> QED
      BY <1>7, <2>1, <2>2, <2>3
  <1>9. CASE SyncLog(t)
    <2>1. pc[t] \in Busy
      BY <1>9 DEF SyncLog, Busy
    <2>2. CASE pc' = [pc EXCEPT ![t] = "insert"] /\ UNCHANGED <<queue, result, group>>
      BY <1>7, <2>1, <2>2
    <2>3. CASE Leave(group.size, "error")
      BY <1>0, <1>6, <2>1, <2>3, WritersLeave
    <2> QED
      <3>1. \/ pc' = [pc EXCEPT ![t] = "insert"] /\ UNCHANGED <<queue, result, group>>
            \/ Leave(group.size, "error")
        BY <1>9 DEF SyncLog
      <3> QED
        BY <2>2, <2>3, <3>1
  <1>10. CASE InsertInto(t)
    <2>1. pc[t] \in Busy /\ (Leave(group.size, "ok") \/ Leave(group.size, "unsure"))
      BY <1>10 DEF InsertInto, Busy
    <2> QED
      BY <1>0, <1>6, <2>1, WritersLeave
  <1> QED
    BY <1>1, <1>3, <1>4, <1>5, <1>8, <1>9, <1>10 DEF Writing

\* A thread that is in Write has a store.
LEMMA WritersHaveStore ==
  ASSUME Types, QueueInv, StoreInv, NEW t \in Threads, Writing(t)
  PROVE  db # None /\ db \in Stores /\ pc[t] \in InQueue /\ pc[t] # "asleep" /\ queue # <<>> /\ ~db.shutting
  <1>1. pc[t] \in InQueue /\ pc[t] # "asleep"
    BY DEF Writing, WriteInRoom, FailAfterError, WaitForRoom, SwitchMemTable, AddRecord, SyncLog, InsertInto, InQueue
  <1>2. queue # <<>>
    BY <1>1, FirstIsAwake DEF Types
  <1> QED
    BY <1>1, <1>2 DEF StoreInv, Types, StoreTypes

\* Whatever happens, the queue is in order.
LEMMA NextThreads ==
  ASSUME Types, QueueInv, StoreInv, [Next]_vars
  PROVE  ThreadTypes' /\ QueueInv'
  <1>0. ThreadTypes
    BY DEF Types
  <1>1. ASSUME UNCHANGED client PROVE ThreadTypes' /\ QueueInv'
    BY <1>0, <1>1 DEF client, ThreadTypes, QueueInv
  <1>2. ASSUME SignalAll, UNCHANGED <<queue, group, result>> PROVE ThreadTypes' /\ QueueInv'
    BY <1>0, <1>2, Signalled
  <1>3. CASE UNCHANGED vars
    BY <1>1, <1>3 DEF vars
  <1>4. CASE NewDB \/ Open \/ OpenDone \/ AppendManifest \/ SyncManifest \/ SetCurrentFile
    BY <1>1, <1>4 DEF NewDB, Open, OpenDone, AppendManifest, SyncManifest, SetCurrentFile
  <1>5. CASE StartCompaction \/ MoveTable \/ NewIterator \/ DeleteIterator \/ Close \/ Closed
    BY <1>1, <1>5 DEF StartCompaction, MoveTable, NewIterator, DeleteIterator, Close, Closed
  <1>6. CASE EditFails \/ CompactMemTable
    <2>1. (UNCHANGED pc \/ SignalAll) /\ UNCHANGED <<queue, group, result>>
      BY <1>6 DEF EditFails, CompactMemTable
    <2> QED
      BY <1>1, <1>2, <2>1 DEF client
  <1>7. CASE MemTableInstalled \/ MoveInstalled \/ FinishCompaction \/ CompactionInstalled \/ NothingToDo
    <2>1. (UNCHANGED pc \/ SignalAll) /\ UNCHANGED <<queue, group, result>>
      BY <1>7 DEF MemTableInstalled, MoveInstalled, FinishCompaction, CompactionInstalled, NothingToDo
    <2> QED
      BY <1>1, <1>2, <2>1 DEF client
  <1>8. CASE ProcessCrash \/ PowerLoss
    BY <1>0, <1>8, NobodyLeft DEF ProcessCrash, PowerLoss
  <1>9. ASSUME NEW t \in Threads, Enqueue(t) PROVE ThreadTypes' /\ QueueInv'
    BY <1>0, <1>9, ThreadEnqueued
  <1>10. ASSUME NEW t \in Threads, Writing(t) PROVE ThreadTypes' /\ QueueInv'
    BY <1>10, WritersHaveStore, ThreadWrites
  <1> QED
    BY <1>3, <1>4, <1>5, <1>6, <1>7, <1>8, <1>9, <1>10 DEF Next, LogAndApply, BackgroundCall

-----------------------------------------------------------------------------
(* Files: what a store, an edit and a recovery rely on *)

\* The states the manifest may be left with are among its records.
LEMMA Possible ==
  /\ current = 0 => PossibleStates = {}
  /\ \A m \in PossibleStates :
       \E i \in DOMAIN manifests[current].recs :
         i >= manifests[current].synced /\ m = manifests[current].recs[i]
  /\ Core => PossibleStates \in SUBSET ManifestStates
  <1>1. /\ current = 0 => PossibleStates = {}
        /\ \A m \in PossibleStates :
             \E i \in DOMAIN manifests[current].recs :
               i >= manifests[current].synced /\ m = manifests[current].recs[i]
    BY DEF PossibleStates
  <1>2. ASSUME Core PROVE PossibleStates \in SUBSET ManifestStates
    <2>1. current # 0 => manifests[current].recs \in Seq(ManifestStates)
      BY <1>2 DEF Core, NumbersInv, FileTypes, FilesOf, File
    <2> QED
      BY <2>1 DEF PossibleStates
  <1> QED
    BY <1>1, <1>2

\* A new edit of a store.
Begun(e, d) ==
  /\ e \in Edits /\ e.at = "append" /\ e.owner # "open" /\ e.manifest = d.manifest
  /\ e.state.next = d.next /\ e.state.last = d.last
  /\ d.log <= e.state.log /\ e.state.log <= d.logfile

\* A step of the store that installs nothing and appends nothing to the manifest.
LEMMA StoreSteps ==
  ASSUME Core, db # None, db' \in Stores, UNCHANGED <<manifests, current>>,
         FilesOf(logs', Records), IsFiniteSet(DOMAIN logs'),
         \A n \in DOMAIN tables' : n \in Nat /\ tables'[n] \in SUBSET Records,
         DOMAIN tables \subseteq DOMAIN tables',
         \A n \in DOMAIN logs' : n < db'.next, db'.logfile \in DOMAIN logs',
         db.logfile <= db'.logfile, db.next <= db'.next,
         db'.l0 = db.l0, db'.deep = db.deep, db'.log = db.log, db'.manifest = db.manifest,
         bg' \in Merges \cup {None},
         bg' # None => bg'.out \in db'.pending /\ bg'.out \in DOMAIN tables' /\ db'.scheduled,
         edit' # None => db'.scheduled,
         edit' \in {edit, None} \/ (Begun(edit', db') /\ Files(edit'.state) \subseteq DOMAIN tables'),
         edit' # None /\ edit'.owner = "compaction" => bg' # None,
         edit' # None /\ edit'.owner = "move" => bg' = None,
         pinned' # None => pinned' \subseteq DOMAIN tables',
         db'.shutting => queue' = <<>> /\ pinned' = None
  PROVE  Core'
  <1>0. /\ db \in Stores /\ db' # None
        /\ db.next \in Nat /\ db'.next \in Nat /\ db.logfile \in Nat /\ db'.logfile \in Nat /\ db.manifest \in Nat
        /\ db.log \in Nat
    BY Fields DEF Core, StoreTypes
  <1>1. FileTypes'
    BY DEF Core, FileTypes
  <1>2. StoreTypes'
    BY DEF Core, StoreTypes, Begun
  <1>3. StoreInv'
    BY <1>0 DEF Core, StoreInv, Begun
  <1>4. NumbersInv'
    <2>1. ManifestNumbers'
      BY DEF Core, NumbersInv, ManifestNumbers
    <2>2. current # 0 /\ current \in DOMAIN manifests /\ manifests[current].synced > 0
      BY DEF Core, NumbersInv, StoreTypes
    <2>3. /\ current = db'.manifest /\ 1 < current /\ db'.manifest < db'.next
          /\ db'.log <= db'.logfile /\ db'.logfile \in DOMAIN logs'
          /\ \A n \in DOMAIN logs' : n < db'.next
      BY <1>0 DEF Core, NumbersInv
    <2>4. edit' # None => edit'.owner # "open"
      BY DEF Core, StoreInv, Begun
    <2>5. edit' # None => /\ edit'.manifest < edit'.state.next /\ edit'.state.log < edit'.state.next
                          /\ db'.log <= edit'.state.log /\ edit'.state.log <= db'.logfile
      <3>1. CASE edit' = edit /\ edit # None
        <4>1. /\ edit.manifest < edit.state.next /\ edit.state.log < edit.state.next
              /\ db.log <= edit.state.log /\ edit.state.log <= db.logfile
              /\ edit.state.log \in Nat
          BY <3>1, <2>4, Fields DEF Core, NumbersInv, StoreTypes
        <4> QED
          BY <1>0, <3>1, <4>1
      <3>2. CASE Begun(edit', db')
        <4>1. edit'.state.log \in Nat
          BY <3>2, Fields DEF Begun
        <4>2. db'.logfile < db'.next
          BY <2>3
        <4> QED
          BY <1>0, <2>3, <3>2, <4>1, <4>2 DEF Begun
      <3> QED
        BY <3>1, <3>2
    <2> QED
      BY <2>1, <2>2, <2>3, <2>4, <2>5 DEF NumbersInv
  <1>5. EditInv'
    BY DEF Core, EditInv, Begun
  <1>6. TablesInv'
    <2>1. PossibleStates' = PossibleStates
      BY DEF PossibleStates
    <2>2. Files(db') = Files(db) /\ Files(db)' = Files(db')
      BY DEF Files
    <2>3. Files(db') \subseteq DOMAIN tables'
      BY <2>2 DEF Core, TablesInv
    <2>4. \A m \in PossibleStates' : Files(m) \subseteq DOMAIN tables'
      BY <2>1 DEF Core, TablesInv
    <2>5. edit' # None => Files(edit'.state) \subseteq DOMAIN tables'
      <3>1. CASE edit' = edit /\ edit # None
        BY <3>1 DEF Core, TablesInv
      <3> QED
        BY <3>1
    <2> QED
      BY <2>3, <2>4, <2>5 DEF TablesInv, Files
  <1> QED
    BY <1>1, <1>2, <1>3, <1>4, <1>5, <1>6 DEF Core

\* What DeleteObsoleteFiles leaves.
LEMMA FilesCollected ==
  ASSUME FileTypes, NEW d \in Stores, DeleteObsoleteFiles(d) \/ UNCHANGED <<logs, tables, manifests>>
  PROVE  /\ FileTypes'
         /\ DOMAIN tables' \subseteq DOMAIN tables /\ \A n \in DOMAIN tables' : tables'[n] = tables[n]
         /\ \A n \in DOMAIN tables :
              n \in Files(d) \/ n \in d.pending \/ (pinned # None /\ n \in pinned) \/ d.bgError
                => n \in DOMAIN tables'
         /\ DOMAIN logs' \subseteq DOMAIN logs /\ \A n \in DOMAIN logs' : logs'[n] = logs[n]
         /\ \A n \in DOMAIN logs : n >= d.log => n \in DOMAIN logs'
         /\ DOMAIN manifests' \subseteq DOMAIN manifests
         /\ \A n \in DOMAIN manifests' : manifests'[n] = manifests[n]
         /\ \A n \in DOMAIN manifests : n >= d.manifest => n \in DOMAIN manifests'
  <1>1. CASE d.bgError \/ UNCHANGED <<logs, tables, manifests>>
    BY <1>1 DEF DeleteObsoleteFiles, FileTypes
  <1>2. CASE ~d.bgError /\ DeleteObsoleteFiles(d)
    <2> DEFINE live == d.pending \cup Files(d) \cup (IF pinned = None THEN {} ELSE pinned)
    <2>1. /\ tables' = Without(tables, DOMAIN tables \ live)
          /\ logs' = Without(logs, {n \in DOMAIN logs : n < d.log})
          /\ manifests' = Without(manifests, {n \in DOMAIN manifests : n < d.manifest})
      BY <1>2 DEF DeleteObsoleteFiles
    <2>2. /\ FilesOf(logs', Records) /\ FilesOf(manifests', ManifestStates)
      BY <2>1, FileSets DEF FileTypes
    <2>3. /\ DOMAIN tables' = DOMAIN tables \ (DOMAIN tables \ live)
          /\ \A n \in DOMAIN tables' : tables'[n] = tables[n]
      BY <2>1 DEF Without
    <2>4. /\ DOMAIN logs' = DOMAIN logs \ {n \in DOMAIN logs : n < d.log}
          /\ \A n \in DOMAIN logs' : logs'[n] = logs[n]
      BY <2>1 DEF Without
    <2>5. /\ DOMAIN manifests' = DOMAIN manifests \ {n \in DOMAIN manifests : n < d.manifest}
          /\ \A n \in DOMAIN manifests' : manifests'[n] = manifests[n]
      BY <2>1 DEF Without
    <2>6. IsFiniteSet(DOMAIN logs')
      BY <2>4, FS_Subset DEF FileTypes
    <2>7. FileTypes'
      BY <2>2, <2>3, <2>6 DEF FileTypes
    <2>8. /\ \A n \in DOMAIN logs : n >= d.log => ~(n < d.log)
          /\ \A n \in DOMAIN manifests : n >= d.manifest => ~(n < d.manifest)
      BY Fields DEF FileTypes, FilesOf
    <2>9. /\ \A n \in DOMAIN logs : n >= d.log => n \in DOMAIN logs'
          /\ \A n \in DOMAIN manifests : n >= d.manifest => n \in DOMAIN manifests'
      BY <2>4, <2>5, <2>8
    <2>10. \A n \in DOMAIN tables :
              n \in Files(d) \/ n \in d.pending \/ (pinned # None /\ n \in pinned) \/ d.bgError
                => n \in DOMAIN tables'
      BY <1>2, <2>3
    <2> QED
      BY <2>3, <2>4, <2>5, <2>7, <2>9, <2>10
  <1> QED
    BY <1>1, <1>2

\* An edit is installed, and files may be collected, all those the manifest may need excepted.
LEMMA Installs ==
  ASSUME Core, BaseInv, db # None, edit # None, edit.at = "install", NEW d \in Stores,
         d.bgError = db.bgError,
         d.l0 = edit.state.l0, d.deep = edit.state.deep, d.log = edit.state.log,
         d.manifest = db.manifest, d.next = db.next, d.logfile = db.logfile, d.shutting = db.shutting,
         DeleteObsoleteFiles(d) \/ UNCHANGED <<logs, tables, manifests>>, SameButCall(d, db'), edit' = None,
         UNCHANGED <<current, queue, pinned>>,
         bg' = None \/ (bg' = bg /\ bg.out \in d.pending /\ db'.scheduled)
  PROVE  Core'
  <1>0. /\ db \in Stores /\ db' \in Stores /\ db' # None /\ edit \in Edits /\ edit.state \in ManifestStates
        /\ edit.owner # "open" /\ edit.manifest = db.manifest
        /\ db.manifest \in Nat /\ d.log \in Nat /\ db.logfile \in Nat
    BY Fields DEF Core, StoreTypes, StoreInv, SameButCall
  <1>f. /\ FileTypes'
        /\ DOMAIN tables' \subseteq DOMAIN tables /\ \A n \in DOMAIN tables' : tables'[n] = tables[n]
        /\ \A n \in DOMAIN tables :
             n \in Files(d) \/ n \in d.pending \/ (pinned # None /\ n \in pinned) \/ d.bgError
               => n \in DOMAIN tables'
        /\ DOMAIN logs' \subseteq DOMAIN logs /\ \A n \in DOMAIN logs' : logs'[n] = logs[n]
        /\ \A n \in DOMAIN logs : n >= d.log => n \in DOMAIN logs'
        /\ DOMAIN manifests' \subseteq DOMAIN manifests
        /\ \A n \in DOMAIN manifests' : manifests'[n] = manifests[n]
        /\ \A n \in DOMAIN manifests : n >= d.manifest => n \in DOMAIN manifests'
    BY FilesCollected DEF Core
  <1>1. current = db.manifest /\ current \in DOMAIN manifests /\ current \in DOMAIN manifests'
        /\ 1 < current /\ manifests'[current] = manifests[current]
    <2>1. current = db.manifest /\ 1 < current /\ current \in DOMAIN manifests
      BY <1>0 DEF Core, NumbersInv
    <2>2. current \in DOMAIN manifests'
      BY <1>0, <1>f, <2>1
    <2> QED
      BY <1>f, <2>1, <2>2
  <1>2. StoreTypes'
    BY <1>0 DEF Core, StoreTypes
  <1>3. StoreInv'
    BY <1>0 DEF Core, StoreInv, SameButCall
  <1>4. NumbersInv'
    <2>1. ManifestNumbers'
      BY <1>f DEF Core, NumbersInv, ManifestNumbers
    <2>2. current' # 0 /\ current' \in DOMAIN manifests' /\ manifests'[current'].synced > 0
      BY <1>1 DEF Core, NumbersInv
    <2>3. /\ db.manifest < db.next /\ db.logfile \in DOMAIN logs /\ \A n \in DOMAIN logs : n < db.next
          /\ edit.state.log <= db.logfile
      BY <1>0 DEF Core, NumbersInv
    <2>4. db.logfile \in DOMAIN logs'
      BY <1>0, <1>f, <2>3
    <2> QED
      BY <1>0, <1>1, <1>f, <2>1, <2>2, <2>3, <2>4 DEF NumbersInv, SameButCall
  <1>5. EditInv'
    BY DEF EditInv
  <1>6. TablesInv'
    <2>1. \A m \in PossibleStates' :
            m \in PossibleStates /\ (~db.bgError => Files(m) = Files(edit.state))
      <3> SUFFICES ASSUME NEW m \in PossibleStates'
                   PROVE  m \in PossibleStates /\ (~db.bgError => Files(m) = Files(edit.state))
        OBVIOUS
      <3>1. PICK i \in DOMAIN manifests[current].recs :
               i >= manifests[current].synced /\ m = manifests[current].recs[i]
        BY <1>1 DEF PossibleStates
      <3>2. m \in PossibleStates
        BY <1>1, <3>1 DEF PossibleStates
      <3>3. /\ manifests[current].synced = Len(manifests[current].recs)
            /\ manifests[current].recs \in Seq(ManifestStates)
        BY <1>0, <1>1 DEF Core, EditInv, FileTypes, FilesOf, File
      <3>4. m = Last(manifests[current].recs)
        BY <3>1, <3>3 DEF Last
      <3>5. ~db.bgError => m.l0 = edit.state.l0 /\ m.deep = edit.state.deep
        BY <3>4 DEF BaseInv
      <3> QED
        BY <3>2, <3>5 DEF Files
    <2>2. Files(edit.state) \subseteq DOMAIN tables /\ Files(d) = Files(edit.state)
      BY DEF Core, TablesInv, Files
    <2>3. Files(edit.state) \subseteq DOMAIN tables'
      BY <1>f, <2>2
    <2>9. \A m \in PossibleStates' : Files(m) \subseteq DOMAIN tables'
      <3>1. \A m \in PossibleStates : Files(m) \subseteq DOMAIN tables
        BY DEF Core, TablesInv
      <3>2. CASE db.bgError
        BY <1>f, <2>1, <3>1, <3>2
      <3>3. CASE ~db.bgError
        BY <2>1, <2>3, <3>3
      <3> QED
        BY <3>2, <3>3
    <2>4. Files(db') = Files(d)
      BY DEF Files, SameButCall
    <2>5. pinned' # None => pinned' \subseteq DOMAIN tables'
      BY <1>f DEF Core, TablesInv
    <2>6. bg' # None => bg'.out \in db'.pending /\ bg'.out \in DOMAIN tables'
      BY <1>f DEF Core, TablesInv, SameButCall
    <2>7. Files(db)' = Files(db')
      BY DEF Files
    <2> QED
      BY <2>2, <2>3, <2>4, <2>5, <2>6, <2>7, <2>9 DEF TablesInv
  <1> QED
    BY <1>2, <1>3, <1>4, <1>5, <1>6, <1>f DEF Core

\* A running store knows the numbers of its files.
LEMMA StoreFacts ==
  ASSUME Core, db # None
  PROVE  /\ db \in Stores /\ FilesOf(logs, Records) /\ IsFiniteSet(DOMAIN logs)
         /\ \A n \in DOMAIN tables : n \in Nat /\ tables[n] \in SUBSET Records
         /\ \A n \in DOMAIN logs : n < db.next
         /\ db.logfile \in DOMAIN logs /\ db.logfile < db.next /\ db.log <= db.logfile
         /\ db.next \in Nat /\ db.logfile \in Nat
         /\ bg \in Merges \cup {None} /\ edit \in Edits \cup {None}
         /\ bg # None => bg.out \in db.pending /\ bg.out \in DOMAIN tables
         /\ bg # None \/ edit # None => db.scheduled
         /\ edit # None /\ edit.owner = "compaction" => bg # None
         /\ edit # None /\ edit.owner = "move" => bg = None
         /\ pinned # None => pinned \subseteq DOMAIN tables
         /\ db.shutting => queue = <<>> /\ pinned = None
         /\ Files(db) \subseteq DOMAIN tables
  <1>1. db \in Stores /\ db.next \in Nat /\ db.logfile \in Nat
    BY Fields DEF Core, StoreTypes
  <1>2. /\ \A n \in DOMAIN logs : n < db.next
        /\ db.logfile \in DOMAIN logs /\ db.log <= db.logfile
    BY DEF Core, NumbersInv
  <1>3. /\ bg # None \/ edit # None => db.scheduled
        /\ edit # None /\ edit.owner = "compaction" => bg # None
        /\ edit # None /\ edit.owner = "move" => bg = None
        /\ db.shutting => queue = <<>> /\ pinned = None
    BY DEF Core, StoreInv
  <1> QED
    BY <1>1, <1>2, <1>3 DEF Core, FileTypes, StoreTypes, TablesInv

\* Steps that leave the tables and the background thread alone.
LEMMA LogSteps ==
  ASSUME Core, db # None, db' \in Stores, UNCHANGED <<tables, manifests, current, bg, edit>>,
         FilesOf(logs', Records), IsFiniteSet(DOMAIN logs'),
         \A n \in DOMAIN logs' : n < db'.next, db'.logfile \in DOMAIN logs',
         db.logfile <= db'.logfile, db.next <= db'.next, db'.pending = db.pending,
         db.scheduled => db'.scheduled,
         db'.l0 = db.l0, db'.deep = db.deep, db'.log = db.log, db'.manifest = db.manifest,
         pinned' # None => pinned' \subseteq DOMAIN tables,
         db'.shutting => queue' = <<>> /\ pinned' = None
  PROVE  Core'
  <1>1. /\ \A n \in DOMAIN tables' : n \in Nat /\ tables'[n] \in SUBSET Records
        /\ DOMAIN tables \subseteq DOMAIN tables'
        /\ bg' \in Merges \cup {None}
        /\ bg' # None => bg'.out \in db'.pending /\ bg'.out \in DOMAIN tables' /\ db'.scheduled
        /\ edit' # None => db'.scheduled
        /\ edit' # None /\ edit'.owner = "compaction" => bg' # None
        /\ edit' # None /\ edit'.owner = "move" => bg' = None
        /\ edit' = edit /\ UNCHANGED <<manifests, current>>
        /\ pinned' # None => pinned' \subseteq DOMAIN tables'
    BY StoreFacts
  <1> QED
    BY <1>1, StoreSteps

\* Steps that leave the store alone.
LEMMA QuietSteps ==
  ASSUME Core, db # None, UNCHANGED <<disk, db, bg, edit>>,
         pinned' # None => pinned' \subseteq DOMAIN tables,
         db.shutting => queue' = <<>> /\ pinned' = None
  PROVE  Core'
  <1>1. UNCHANGED <<logs, tables, manifests, current>>
    BY DEF disk
  <1>2. db.next <= db.next /\ db.logfile <= db.logfile
    BY StoreFacts
  <1> QED
    BY <1>1, <1>2, StoreFacts, LogSteps

\* A log that is put among the others, and one that changes.
LEMMA LogChanges ==
  ASSUME Core, db # None
  PROVE  /\ FilesOf(Put(logs, db.next, EmptyFile), Records)
         /\ IsFiniteSet(DOMAIN Put(logs, db.next, EmptyFile))
         /\ DOMAIN Put(logs, db.next, EmptyFile) = DOMAIN logs \cup {db.next}
         /\ \A x : File(x, Records) =>
              /\ FilesOf([logs EXCEPT ![db.logfile] = x], Records)
              /\ DOMAIN [logs EXCEPT ![db.logfile] = x] = DOMAIN logs
         /\ File(logs[db.logfile], Records)
  <1>1. File(EmptyFile, Records)
    BY FileChanges
  <1>2. DOMAIN Put(logs, db.next, EmptyFile) = DOMAIN logs \cup {db.next}
    BY DEF Put
  <1>3. IsFiniteSet(DOMAIN logs \cup {db.next})
    BY StoreFacts, FS_AddElement
  <1>4. FilesOf(logs, Records) /\ db.next \in Nat /\ db.logfile \in DOMAIN logs
    BY StoreFacts
  <1>5. FilesOf(Put(logs, db.next, EmptyFile), Records)
    BY <1>1, <1>4, FileSets
  <1>6. \A x : File(x, Records) => FilesOf([logs EXCEPT ![db.logfile] = x], Records)
    BY <1>4, FileSets
  <1>7. File(logs[db.logfile], Records)
    BY <1>4 DEF FilesOf
  <1> QED
    BY <1>2, <1>3, <1>5, <1>6, <1>7

\* What MakeRoomForWrite makes of a store.
Switch(c) ==
  [c EXCEPT !.next = @ + 1, !.logfile = c.next, !.imm = c.mem, !.mem = {}, !.torn = FALSE]

\* The memtable becomes imm, and a new log begins.
LEMMA Switched ==
  ASSUME NEW c \in Stores, NEW e, e = Scheduled(Switch(c))
  PROVE  /\ e \in Stores /\ e # None /\ e.next = c.next + 1 /\ e.logfile = c.next
         /\ e.l0 = c.l0 /\ e.deep = c.deep /\ e.log = c.log /\ e.manifest = c.manifest
         /\ e.pending = c.pending /\ e.shutting = c.shutting /\ (c.scheduled => e.scheduled)
         /\ e.mem = {} /\ e.imm = c.mem /\ e.last = c.last /\ e.bgError = c.bgError /\ ~e.torn
  <1> DEFINE d == Switch(c)
             n == c.next + 1
             f == [c EXCEPT !.next = n, !.logfile = c.next]
  <1>1. c.next + 1 \in Nat /\ c.next \in Nat /\ c.mem \in SUBSET Records /\ {} \in SUBSET Records
    BY Fields
  <1>2. f \in Stores /\ [f EXCEPT !.imm = c.mem, !.mem = {}, !.torn = FALSE] \in Stores
    <2> HIDE DEF n
    <2> QED
      BY <1>1 DEF Stores, n
  <1>3. d = [f EXCEPT !.imm = c.mem, !.mem = {}, !.torn = FALSE]
    BY DEF Stores, Switch
  <1>4. /\ d.next = c.next + 1 /\ d.logfile = c.next
        /\ d.l0 = c.l0 /\ d.deep = c.deep /\ d.log = c.log /\ d.manifest = c.manifest
        /\ d.pending = c.pending /\ d.scheduled = c.scheduled /\ d.shutting = c.shutting
        /\ d.mem = {} /\ d.imm = c.mem /\ d.last = c.last /\ d.bgError = c.bgError /\ ~d.torn
    BY DEF Stores, Switch
  <1>5. d \in Stores
    BY <1>2, <1>3
  <1> HIDE DEF d
  <1>6. SameButCall(d, e) /\ (d.scheduled => e.scheduled) /\ e.bgError = d.bgError
    BY <1>5, Calls DEF d
  <1> QED
    BY <1>4, <1>6, Fields DEF SameButCall

\* A group of writes takes its sequence numbers.
LEMMA Sequenced ==
  ASSUME NEW c \in Stores, group.record \in Records, NEW e, e = WithSequence(c)
  PROVE  /\ e \in Stores /\ e # None /\ e.next = c.next /\ e.logfile = c.logfile /\ e.pending = c.pending
         /\ e.l0 = c.l0 /\ e.deep = c.deep /\ e.log = c.log /\ e.manifest = c.manifest
         /\ e.scheduled = c.scheduled /\ e.shutting = c.shutting /\ e.bgError = c.bgError
         /\ e.mem = c.mem /\ e.imm = c.imm /\ e.torn = c.torn
         /\ e.last = c.last + Cardinality(group.record.batches)
  <1>1. Cardinality(group.record.batches) \in Nat /\ c.last \in Nat
    BY RecordSize, Fields
  <1> DEFINE last == c.last + Cardinality(group.record.batches)
  <1>2. last \in Nat /\ e = [c EXCEPT !.last = last]
    BY <1>1 DEF WithSequence
  <1> HIDE DEF last
  <1>3. e \in Stores
    BY <1>2 DEF Stores
  <1> QED
    BY <1>2, <1>3, Fields DEF Stores, last

\* An append to the log has failed.
LEMMA Torn ==
  ASSUME NEW c \in Stores, NEW e, e = [c EXCEPT !.torn = TRUE]
  PROVE  /\ e \in Stores /\ e.next = c.next /\ e.logfile = c.logfile /\ e.pending = c.pending
         /\ e.l0 = c.l0 /\ e.deep = c.deep /\ e.log = c.log /\ e.manifest = c.manifest
         /\ e.scheduled = c.scheduled /\ e.shutting = c.shutting /\ e.bgError = c.bgError
         /\ e.mem = c.mem /\ e.imm = c.imm /\ e.torn /\ e.last = c.last
  BY DEF Stores

\* A thread in Write touches logs and memtables only.
LEMMA CoreWriting ==
  ASSUME Core, ThreadTypes, QueueInv, NEW t \in Threads, Writing(t)
  PROVE  Core'
  <1>0. db # None /\ db \in Stores /\ queue # <<>> /\ ~db.shutting
    BY WritersHaveStore DEF Core, Types
  <1>1. CASE WriteInRoom(t) \/ FailAfterError(t) \/ WaitForRoom(t)
    <2>1. UNCHANGED <<disk, db, bg, edit, pinned>>
      BY <1>1 DEF WriteInRoom, FailAfterError, WaitForRoom
    <2> QED
      BY <1>0, <2>1, StoreFacts, QuietSteps
  <1>2. CASE SwitchMemTable(t)
    <2>1. UNCHANGED <<tables, manifests, current, bg, edit, pinned>>
      BY <1>2 DEF SwitchMemTable
    <2>2. CASE UNCHANGED <<logs, db>>
      BY <1>0, <2>1, <2>2, StoreFacts, QuietSteps DEF disk
    <2>3. CASE /\ logs' = Put(logs, db.next, EmptyFile)
               /\ LET d == [db EXCEPT !.next = @ + 1, !.logfile = db.next, !.imm = db.mem, !.mem = {},
                                      !.torn = FALSE]
                  IN  db' = Scheduled(d)
      <3>1. db' = Scheduled(Switch(db))
        BY <2>3 DEF Switch
      <3>4. /\ db' \in Stores /\ db'.next = db.next + 1 /\ db'.logfile = db.next
            /\ db'.l0 = db.l0 /\ db'.deep = db.deep /\ db'.log = db.log /\ db'.manifest = db.manifest
            /\ db'.pending = db.pending /\ ~db'.shutting /\ (db.scheduled => db'.scheduled)
        BY <1>0, <3>1, Switched
      <3>5. /\ FilesOf(logs', Records) /\ IsFiniteSet(DOMAIN logs')
            /\ \A n \in DOMAIN logs' : n < db'.next
            /\ db'.logfile \in DOMAIN logs' /\ db.logfile <= db'.logfile /\ db.next <= db'.next
            /\ pinned' # None => pinned' \subseteq DOMAIN tables
        <4>1. DOMAIN logs' = DOMAIN logs \cup {db.next}
          BY <1>0, <2>3, LogChanges
        <4>2. \A n \in DOMAIN logs : n \in Nat
          BY DEF Core, FileTypes, FilesOf
        <4> QED
          BY <1>0, <2>1, <2>3, <3>4, <4>1, <4>2, LogChanges, StoreFacts
      <3> QED
        BY <1>0, <2>1, <3>4, <3>5, LogSteps
    <2> QED
      BY <1>2, <2>2, <2>3 DEF SwitchMemTable
  <1>3. ASSUME UNCHANGED <<tables, manifests, current, bg, edit, pinned>>, db' \in Stores,
               logs' = logs \/ \E x : File(x, Records) /\ logs' = [logs EXCEPT ![db.logfile] = x],
               db'.next = db.next, db'.logfile = db.logfile, db'.pending = db.pending,
               db'.l0 = db.l0, db'.deep = db.deep, db'.log = db.log, db'.manifest = db.manifest,
               db'.scheduled = db.scheduled, db'.shutting = db.shutting
        PROVE  Core'
    <2>1. DOMAIN logs' = DOMAIN logs /\ FilesOf(logs', Records)
      BY <1>0, <1>3, LogChanges, StoreFacts
    <2>2. db.next <= db'.next /\ db.logfile <= db'.logfile
      BY <1>0, <1>3, StoreFacts
    <2> QED
      BY <1>0, <1>3, <2>1, <2>2, StoreFacts, LogSteps
  <1>4. CASE AddRecord(t)
    <2>1. group.record \in Records
      BY <1>4 DEF AddRecord, QueueInv, ThreadTypes, Groups, Busy
    <2>2. File(Added(logs[db.logfile], group.record), Records)
      BY <1>0, <2>1, FileChanges, LogChanges
    <2>4. UNCHANGED <<tables, manifests, current, bg, edit, pinned>>
      BY <1>4 DEF AddRecord
    <2>5. CASE logs' = [logs EXCEPT ![db.logfile] = Added(@, group.record)] /\ UNCHANGED db
      <3>1. logs' = [logs EXCEPT ![db.logfile] = Added(logs[db.logfile], group.record)]
        BY <2>5
      <3> QED
        BY <1>0, <1>3, <2>2, <2>4, <2>5, <3>1
    <2>6. CASE UNCHANGED <<logs, db>>
      BY <1>0, <1>3, <2>4, <2>6
    <2>7. CASE db' = WithSequence([db EXCEPT !.torn = TRUE]) /\ UNCHANGED logs
      <3> DEFINE d == [db EXCEPT !.torn = TRUE]
      <3>1. /\ d \in Stores /\ d.next = db.next /\ d.logfile = db.logfile /\ d.pending = db.pending
            /\ d.l0 = db.l0 /\ d.deep = db.deep /\ d.log = db.log /\ d.manifest = db.manifest
            /\ d.scheduled = db.scheduled /\ d.shutting = db.shutting
        BY <1>0, Torn
      <3>2. db' = WithSequence(d) /\ UNCHANGED logs
        BY <2>7
      <3> HIDE DEF d
      <3>3. /\ db' \in Stores /\ db'.next = db.next /\ db'.logfile = db.logfile /\ db'.pending = db.pending
            /\ db'.l0 = db.l0 /\ db'.deep = db.deep /\ db'.log = db.log /\ db'.manifest = db.manifest
            /\ db'.scheduled = db.scheduled /\ db'.shutting = db.shutting
        BY <2>1, <3>1, <3>2, Sequenced
      <3> QED
        BY <1>3, <2>4, <3>2, <3>3
    <2> QED
      BY <1>4, <2>5, <2>6, <2>7 DEF AddRecord
  <1>5. ASSUME NEW b \in BOOLEAN, NEW M \in SUBSET Records, group.record \in Records,
               db' = [WithSequence([db EXCEPT !.mem = M]) EXCEPT !.bgError = b]
        PROVE  /\ db' \in Stores /\ db'.next = db.next /\ db'.logfile = db.logfile /\ db'.pending = db.pending
               /\ db'.l0 = db.l0 /\ db'.deep = db.deep /\ db'.log = db.log /\ db'.manifest = db.manifest
               /\ db'.scheduled = db.scheduled /\ db'.shutting = db.shutting
    <2>1. Cardinality(group.record.batches) \in Nat
      BY <1>5, RecordSize
    <2>2. db.last + Cardinality(group.record.batches) \in Nat
      BY <1>0, <2>1, Fields
    <2> QED
      BY <1>0, <1>5, <2>2 DEF WithSequence, Stores
  <1>6. CASE SyncLog(t)
    <2>1. group.record \in Records
      BY <1>6 DEF SyncLog, QueueInv, ThreadTypes, Groups, Busy
    <2>2. UNCHANGED <<tables, manifests, current, bg, edit, pinned>>
      BY <1>6 DEF SyncLog
    <2>3. CASE logs' = [logs EXCEPT ![db.logfile] = Synced(@)] /\ UNCHANGED db
      <3>1. File(Synced(logs[db.logfile]), Records)
        BY <1>0, FileChanges, LogChanges
      <3>2. logs' = [logs EXCEPT ![db.logfile] = Synced(logs[db.logfile])]
        BY <2>3
      <3> QED
        BY <1>0, <1>3, <2>2, <2>3, <3>1, <3>2
    <2>4. CASE db' = WithError(WithSequence(db)) /\ UNCHANGED logs
      <3>1. db.mem \in SUBSET Records /\ [db EXCEPT !.mem = db.mem] = db
        BY <1>0 DEF Stores
      <3>2. db' = [WithSequence([db EXCEPT !.mem = db.mem]) EXCEPT !.bgError = TRUE]
        BY <2>4, <3>1 DEF WithError
      <3> QED
        BY <1>3, <1>5, <2>1, <2>2, <2>4, <3>1, <3>2
    <2> QED
      BY <1>6, <2>3, <2>4 DEF SyncLog
  <1>7. CASE InsertInto(t)
    <2>1. group.record \in Records
      BY <1>7 DEF InsertInto, QueueInv, ThreadTypes, Groups, Busy
    <2> DEFINE M == db.mem \cup {group.record}
               e == WithSequence([db EXCEPT !.mem = M])
    <2>2. M \in SUBSET Records /\ db' = e
      BY <1>0, <1>7, <2>1, Fields DEF InsertInto
    <2>3. e = [e EXCEPT !.bgError = db.bgError] /\ db.bgError \in BOOLEAN
      <3>1. Cardinality(group.record.batches) \in Nat /\ db.last \in Nat
        BY <1>0, <2>1, RecordSize, Fields
      <3> QED
        BY <1>0, <2>2, <3>1 DEF WithSequence, Stores
    <2>4. UNCHANGED <<tables, manifests, current, bg, edit, pinned, logs>>
      BY <1>7 DEF InsertInto, disk
    <2>5. /\ db' \in Stores /\ db'.next = db.next /\ db'.logfile = db.logfile /\ db'.pending = db.pending
          /\ db'.l0 = db.l0 /\ db'.deep = db.deep /\ db'.log = db.log /\ db'.manifest = db.manifest
          /\ db'.scheduled = db.scheduled /\ db'.shutting = db.shutting
      <3>1. db' = [WithSequence([db EXCEPT !.mem = M]) EXCEPT !.bgError = db.bgError]
        BY <2>2, <2>3
      <3> HIDE DEF M
      <3> QED
        BY <1>5, <2>1, <2>2, <2>3, <3>1
    <2> QED
      BY <1>3, <2>4, <2>5
  <1> QED
    BY <1>1, <1>2, <1>4, <1>6, <1>7 DEF Writing

\* A store with a new file number, and with other pending tables.
LEMMA Numbered ==
  ASSUME NEW c \in Stores
  PROVE  [c EXCEPT !.next = @ + 1] \in Stores
  <1> DEFINE n == c.next + 1
  <1>1. n \in Nat
    BY Fields
  <1>2. [c EXCEPT !.next = n] \in Stores
    <2> HIDE DEF n
    <2> QED
      BY <1>1 DEF Stores
  <1> QED
    BY <1>2

\* Other pending outputs: still a store.
LEMMA PendingChanges ==
  ASSUME NEW c \in Stores, NEW P \in SUBSET Nat
  PROVE  [c EXCEPT !.pending = P] \in Stores
  BY DEF Stores

\* What BeginEdit writes down.
LEMMA EditBegun ==
  ASSUME NEW d \in Stores, NEW v, v.l0 \in SUBSET Nat, v.deep \in SUBSET Nat,
         NEW log \in Nat, d.log <= log, log <= d.logfile,
         NEW owner \in {"flush", "compaction", "move"}, BeginEdit(d, v, log, owner)
  PROVE  /\ Begun(edit', d) /\ edit'.owner = owner /\ Files(edit'.state) = v.l0 \cup v.deep
         /\ edit'.state.log = log /\ edit'.state.last = d.last
         /\ edit'.state.l0 = v.l0 /\ edit'.state.deep = v.deep
  <1>1. d.next \in Nat /\ d.last \in Nat /\ d.manifest \in Nat
    BY Fields
  <1>2. edit' = [at |-> "append", owner |-> owner, manifest |-> d.manifest,
                 state |-> [l0 |-> v.l0, deep |-> v.deep, log |-> log, next |-> d.next, last |-> d.last]]
    BY DEF BeginEdit, ManifestState
  <1>3. edit'.state \in ManifestStates
    BY <1>1, <1>2 DEF ManifestStates
  <1> QED
    BY <1>1, <1>2, <1>3 DEF Begun, Edits, Files

\* A memtable becomes a table, or does not: what changes.
LEMMA MemTableSteps ==
  ASSUME Core, CompactMemTable
  PROVE  /\ db # None /\ edit = None /\ db.imm # None /\ db.imm \in SUBSET Records
         /\ UNCHANGED <<logs, manifests, current, bg, queue, pinned, group>>
         /\ db' \in Stores /\ db' # None /\ db'.next = db.next + 1 /\ db'.logfile = db.logfile
         /\ db'.l0 = db.l0 /\ db'.deep = db.deep /\ db'.log = db.log /\ db'.manifest = db.manifest
         /\ db'.pending = db.pending /\ db'.shutting = db.shutting /\ (bg # None => db'.scheduled)
         /\ db'.mem = db.mem /\ db'.imm = db.imm /\ db'.last = db.last /\ db'.torn = db.torn
         /\ tables' = tables \/ tables' = Put(tables, db.next, db.imm)
         /\ \/ edit' = edit /\ db'.bgError
            \/ /\ Begun(edit', db') /\ db'.scheduled /\ edit'.owner = "flush"
               /\ edit'.state.log = db.logfile /\ db'.bgError = db.bgError
               /\ db.l0 \subseteq edit'.state.l0 /\ db.deep \subseteq edit'.state.deep
               /\ \/ Files(edit'.state) = Files(db) /\ db.imm = {}
                  \/ /\ Files(edit'.state) = Files(db) \cup {db.next}
                     /\ tables' = Put(tables, db.next, db.imm)
  <1>0. /\ db # None /\ edit = None /\ db.imm # None /\ db.scheduled /\ db \in Stores
        /\ UNCHANGED <<logs, manifests, current, bg, queue, pinned, group>>
    BY StoreFacts DEF CompactMemTable, MayWork, BackgroundIdle
  <1> DEFINE d == [db EXCEPT !.next = @ + 1]
             new == IF db.imm = {} THEN {} ELSE {db.next}
             failed == IF bg = None THEN CallEnded(WithError(d)) ELSE WithError(d)
             table == IF new = {} THEN tables ELSE Put(tables, db.next, db.imm)
             versions == {[l0 |-> db.l0 \cup new, deep |-> db.deep],
                          [l0 |-> db.l0, deep |-> db.deep \cup new]}
  <1>1. /\ d \in Stores /\ d.next = db.next + 1 /\ d.logfile = db.logfile
        /\ d.l0 = db.l0 /\ d.deep = db.deep /\ d.log = db.log /\ d.manifest = db.manifest
        /\ d.pending = db.pending /\ d.scheduled /\ d.shutting = db.shutting
        /\ d.mem = db.mem /\ d.imm = db.imm /\ d.last = db.last /\ d.bgError = db.bgError /\ d.torn = db.torn
    <2>1. d \in Stores
      BY <1>0, Numbered
    <2> QED
      BY <1>0, <2>1 DEF Stores
  <1>2. SameButCall(d, failed) /\ (bg # None => failed.scheduled) /\ failed.bgError
    <2> HIDE DEF d
    <2>1. SameButCall(d, WithError(d)) /\ WithError(d).scheduled = d.scheduled /\ WithError(d).bgError
      BY <1>1, Calls
    <2>2. WithError(d) \in Stores
      BY <2>1 DEF SameButCall
    <2>3. /\ SameButCall(WithError(d), CallEnded(WithError(d)))
          /\ CallEnded(WithError(d)).bgError
      BY <2>1, <2>2, Calls
    <2> QED
      BY <1>1, <2>1, <2>3 DEF SameButCall
  <1>3. \/ /\ tables' = table /\ db' = d
           /\ \E v \in versions : BeginEdit(d, v, db.logfile, "flush")
        \/ tables' \in {tables, table} /\ db' = failed /\ edit' = edit
    <2> HIDE DEF d, failed, table, versions
    <2>1. \/ /\ tables' = table
             /\ \/ db' = failed /\ edit' = edit
                \/ /\ \E v \in versions : BeginEdit(d, v, db.logfile, "flush")
                   /\ db' = d
          \/ tables' = tables /\ db' = failed /\ edit' = edit
      BY DEF CompactMemTable, d, failed, table, versions
    <2> QED
      BY <2>1
  <1>4. /\ db.next \in Nat /\ new \in SUBSET Nat
        /\ db.l0 \in SUBSET Nat /\ db.deep \in SUBSET Nat /\ db.logfile \in Nat /\ db.log <= db.logfile
    BY <1>0, StoreFacts, Fields
  <1>5. db.imm \in SUBSET Records
    <2>1. db.imm \in (SUBSET Records) \cup {None}
      BY <1>0, Fields
    <2> QED
      BY <1>0, <2>1
  <1>6. (table = tables /\ new = {} /\ db.imm = {}) \/ (table = Put(tables, db.next, db.imm) /\ new = {db.next})
    OBVIOUS
  <1> HIDE DEF d, failed, new, table
  <1>7. db' = d \/ SameButCall(d, db')
    BY <1>2, <1>3
  <1>8. /\ db' \in Stores /\ db'.next = db.next + 1 /\ db'.logfile = db.logfile
        /\ db'.l0 = db.l0 /\ db'.deep = db.deep /\ db'.log = db.log /\ db'.manifest = db.manifest
        /\ db'.pending = db.pending /\ db'.shutting = db.shutting
        /\ db'.mem = db.mem /\ db'.imm = db.imm /\ db'.last = db.last /\ db'.torn = db.torn
    BY <1>1, <1>7 DEF SameButCall
  <1>9. (bg # None => db'.scheduled) /\ (db' = d => db'.scheduled)
    BY <1>1, <1>2, <1>3
  <1>10. tables' = tables \/ tables' = Put(tables, db.next, db.imm)
    BY <1>3, <1>6
  <1>11. \/ edit' = edit /\ db' = failed
         \/ /\ Begun(edit', db') /\ db' = d /\ edit'.owner = "flush" /\ edit'.state.log = db.logfile
            /\ tables' = table /\ Files(edit'.state) = Files(db) \cup new
            /\ db.l0 \subseteq edit'.state.l0 /\ db.deep \subseteq edit'.state.deep
    <2> SUFFICES ASSUME tables' = table, db' = d, NEW v \in versions, BeginEdit(d, v, db.logfile, "flush")
                 PROVE  /\ Begun(edit', db') /\ edit'.owner = "flush" /\ edit'.state.log = db.logfile
                        /\ Files(edit'.state) = Files(db) \cup new
                        /\ db.l0 \subseteq edit'.state.l0 /\ db.deep \subseteq edit'.state.deep
      BY <1>3
    <2>1. \/ v = [l0 |-> db.l0 \cup new, deep |-> db.deep]
          \/ v = [l0 |-> db.l0, deep |-> db.deep \cup new]
      OBVIOUS
    <2>2. db.l0 \cup new \in SUBSET Nat /\ db.deep \cup new \in SUBSET Nat
      BY <1>4
    <2>3. /\ v.l0 \in SUBSET Nat /\ v.deep \in SUBSET Nat
          /\ v.l0 \cup v.deep = db.l0 \cup db.deep \cup new
          /\ db.l0 \subseteq v.l0 /\ db.deep \subseteq v.deep
      BY <1>4, <2>1, <2>2
    <2>4. /\ Begun(edit', d) /\ edit'.owner = "flush" /\ Files(edit'.state) = v.l0 \cup v.deep
          /\ edit'.state.log = db.logfile /\ edit'.state.l0 = v.l0 /\ edit'.state.deep = v.deep
      BY <1>1, <1>4, <2>3, EditBegun
    <2> QED
      BY <2>3, <2>4 DEF Files
  <1>12. \/ edit' = edit /\ db'.bgError
         \/ /\ Begun(edit', db') /\ db'.scheduled /\ edit'.owner = "flush" /\ edit'.state.log = db.logfile
            /\ db'.bgError = db.bgError
            /\ db.l0 \subseteq edit'.state.l0 /\ db.deep \subseteq edit'.state.deep
            /\ \/ Files(edit'.state) = Files(db) /\ db.imm = {}
               \/ /\ Files(edit'.state) = Files(db) \cup {db.next}
                  /\ tables' = Put(tables, db.next, db.imm)
    BY <1>1, <1>2, <1>6, <1>9, <1>11
  <1> QED
    BY <1>0, <1>5, <1>8, <1>9, <1>10, <1>12, Fields

\* imm is written to a table.
LEMMA CoreMemTable ==
  ASSUME Core, CompactMemTable
  PROVE  Core'
  <1>1. /\ db \in Stores /\ db.next \in Nat /\ db.logfile \in Nat /\ \A n \in DOMAIN logs : n \in Nat
    BY MemTableSteps, StoreFacts DEF Core, FileTypes, FilesOf
  <1>2. /\ \A n \in DOMAIN tables' : n \in Nat /\ tables'[n] \in SUBSET Records
        /\ DOMAIN tables \subseteq DOMAIN tables'
        /\ tables' = Put(tables, db.next, db.imm) => db.next \in DOMAIN tables'
    <2>1. \A n \in DOMAIN tables : n \in Nat /\ tables[n] \in SUBSET Records
      BY MemTableSteps, StoreFacts
    <2> DEFINE put == Put(tables, db.next, db.imm)
    <2>2. /\ DOMAIN put = DOMAIN tables \cup {db.next} /\ put[db.next] = db.imm
          /\ \A k \in DOMAIN tables : k # db.next => put[k] = tables[k]
      BY DEF Put
    <2>3. tables' = tables \/ tables' = put
      BY MemTableSteps
    <2> HIDE DEF put
    <2> QED
      BY <1>1, <2>1, <2>2, <2>3, MemTableSteps DEF put
  <1>3. /\ db'.logfile \in DOMAIN logs' /\ \A n \in DOMAIN logs' : n < db'.next
        /\ db.logfile <= db'.logfile /\ db.next <= db'.next
    BY <1>1, MemTableSteps, StoreFacts
  <1>4. /\ FilesOf(logs', Records) /\ IsFiniteSet(DOMAIN logs') /\ bg' \in Merges \cup {None}
        /\ bg' # None => bg'.out \in db'.pending /\ bg'.out \in DOMAIN tables' /\ db'.scheduled
        /\ pinned' # None => pinned' \subseteq DOMAIN tables'
        /\ db'.shutting => queue' = <<>> /\ pinned' = None
    BY <1>2, MemTableSteps, StoreFacts
  <1>5. /\ edit' \in {edit, None} \/ (Begun(edit', db') /\ Files(edit'.state) \subseteq DOMAIN tables')
        /\ edit' # None => db'.scheduled
        /\ edit' # None /\ edit'.owner = "compaction" => bg' # None
        /\ edit' # None /\ edit'.owner = "move" => bg' = None
    <2>1. Files(db) \subseteq DOMAIN tables
      BY MemTableSteps, StoreFacts
    <2> QED
      BY <1>2, <2>1, MemTableSteps
  <1> QED
    BY <1>2, <1>3, <1>4, <1>5, MemTableSteps, StoreSteps

\* Tables start to be merged.
LEMMA CoreStart ==
  ASSUME Core, StartCompaction
  PROVE  Core'
  <1>0. /\ db # None /\ edit = None /\ db.scheduled /\ ~db.shutting
        /\ UNCHANGED <<logs, manifests, current, edit, queue, pinned>>
        /\ db' = [db EXCEPT !.next = @ + 1, !.pending = @ \cup {db.next}]
    BY DEF StartCompaction, MayWork, BackgroundIdle, client
  <1>1. PICK level0 \in SUBSET db.l0, below \in SUBSET db.deep :
          /\ bg' = [level0 |-> level0, below |-> below, out |-> db.next]
          /\ tables' = Put(tables, db.next, Contents(level0 \cup below))
    BY DEF StartCompaction
  <1>2. /\ db \in Stores /\ db.next \in Nat /\ db.pending \in SUBSET Nat
        /\ db.l0 \in SUBSET Nat /\ db.deep \in SUBSET Nat /\ db.logfile \in Nat
    BY <1>0, StoreFacts, Fields
  <1>3. /\ db' \in Stores /\ db'.next = db.next + 1 /\ db'.pending = db.pending \cup {db.next}
        /\ db'.l0 = db.l0 /\ db'.deep = db.deep /\ db'.log = db.log /\ db'.manifest = db.manifest
        /\ db'.logfile = db.logfile /\ db'.scheduled /\ ~db'.shutting
    <2> DEFINE e == [db EXCEPT !.next = @ + 1]
               P == db.pending \cup {db.next}
    <2>1. e \in Stores
      BY <1>2, Numbered
    <2>2. P \in SUBSET Nat
      BY <1>2
    <2>3. db' = [e EXCEPT !.pending = P]
      BY <1>0, <1>2 DEF Stores
    <2>4. [e EXCEPT !.pending = P] \in Stores
      <3> HIDE DEF e, P
      <3> QED
        BY <2>1, <2>2, PendingChanges
    <2> QED
      BY <1>0, <1>2, <2>3, <2>4 DEF Stores
  <1>4. Contents(level0 \cup below) \in SUBSET Records
    BY DEF Contents, Core, FileTypes
  <1>5. /\ DOMAIN tables' = DOMAIN tables \cup {db.next} /\ tables'[db.next] = Contents(level0 \cup below)
        /\ \A k \in DOMAIN tables : k # db.next => tables'[k] = tables[k]
    BY <1>1 DEF Put
  <1>6. \A n \in DOMAIN tables' : n \in Nat /\ tables'[n] \in SUBSET Records
    <2>1. \A n \in DOMAIN tables : n \in Nat /\ tables[n] \in SUBSET Records
      BY <1>0, StoreFacts
    <2> QED
      BY <1>2, <1>4, <1>5, <2>1
  <1>7. bg' \in Merges /\ bg'.out = db.next
    BY <1>1, <1>2 DEF Merges
  <1>8. /\ db'.logfile \in DOMAIN logs' /\ \A n \in DOMAIN logs' : n < db'.next
        /\ db.logfile <= db'.logfile /\ db.next <= db'.next
    <2>1. \A n \in DOMAIN logs : n \in Nat
      BY DEF Core, FileTypes, FilesOf
    <2> QED
      BY <1>0, <1>2, <1>3, <2>1, StoreFacts
  <1>9. /\ FilesOf(logs', Records) /\ IsFiniteSet(DOMAIN logs')
        /\ pinned' # None => pinned' \subseteq DOMAIN tables'
        /\ DOMAIN tables \subseteq DOMAIN tables'
    BY <1>0, <1>5, StoreFacts
  <1> QED
    BY <1>0, <1>3, <1>5, <1>6, <1>7, <1>8, <1>9, StoreSteps

\* A merge is done, or given up; the background thread has nothing to do.
LEMMA CoreFinish ==
  ASSUME Core, FinishCompaction \/ NothingToDo
  PROVE  Core'
  <1>0. /\ edit = None /\ UNCHANGED <<logs, tables, manifests, current, queue, pinned>>
        /\ db # None /\ db.scheduled
    <2>1. bg # None \/ (db # None /\ db.scheduled)
      BY DEF FinishCompaction, NothingToDo, BackgroundIdle
    <2>2. bg # None => db # None
      BY DEF Core, StoreInv
    <2>3. db # None /\ db.scheduled
      BY <2>1, <2>2, StoreFacts
    <2> QED
      BY <2>3 DEF FinishCompaction, NothingToDo, BackgroundIdle, disk
  <1>1. /\ db \in Stores /\ db.next \in Nat /\ db.pending \in SUBSET Nat
        /\ db.l0 \in SUBSET Nat /\ db.deep \in SUBSET Nat /\ db.logfile \in Nat /\ db.log \in Nat
    BY <1>0, StoreFacts, Fields
  <1>2. ASSUME NEW d \in Stores, db' = CallEnded(d), bg' = None, edit' = edit,
               d.next = db.next, d.logfile = db.logfile, d.l0 = db.l0, d.deep = db.deep,
               d.log = db.log, d.manifest = db.manifest, d.shutting = db.shutting
        PROVE  Core'
    <2>1. SameButCall(d, db')
      BY <1>2, Calls
    <2>2. /\ db' \in Stores /\ db'.next = db.next /\ db'.logfile = db.logfile
          /\ db'.l0 = db.l0 /\ db'.deep = db.deep /\ db'.log = db.log
          /\ db'.manifest = db.manifest /\ db'.shutting = db.shutting
      BY <1>2, <2>1 DEF SameButCall
    <2>3. /\ FilesOf(logs', Records) /\ IsFiniteSet(DOMAIN logs')
          /\ \A n \in DOMAIN tables' : n \in Nat /\ tables'[n] \in SUBSET Records
          /\ \A n \in DOMAIN logs' : n < db'.next
          /\ db'.logfile \in DOMAIN logs' /\ db.logfile <= db'.logfile /\ db.next <= db'.next
          /\ pinned' # None => pinned' \subseteq DOMAIN tables'
          /\ db'.shutting => queue' = <<>> /\ pinned' = None
      BY <1>0, <1>1, <2>2, StoreFacts
    <2> QED
      BY <1>0, <1>2, <2>2, <2>3, StoreSteps
  <1>3. CASE NothingToDo
    BY <1>1, <1>2, <1>3 DEF NothingToDo, BackgroundIdle
  <1>4. CASE FinishCompaction
    <2> DEFINE d == WithError([db EXCEPT !.pending = @ \ {bg.out}])
               v == [l0 |-> db.l0 \ bg.level0, deep |-> (db.deep \ bg.below) \cup {bg.out}]
    <2>1. \/ db' = CallEnded(d) /\ bg' = None /\ edit' = edit
          \/ BeginEdit(db, v, db.log, "compaction") /\ UNCHANGED <<db, bg>> /\ ~db.shutting
      <3> HIDE DEF d, v
      <3> QED
        BY <1>4 DEF FinishCompaction, d, v
    <2>2. CASE db' = CallEnded(d) /\ bg' = None /\ edit' = edit
      <3> DEFINE P == db.pending \ {bg.out}
                 e == [db EXCEPT !.pending = P]
      <3>1. P \in SUBSET Nat
        BY <1>1
      <3>2. e \in Stores
        <4> HIDE DEF P
        <4> QED
          BY <1>1, <3>1, PendingChanges
      <3>3. d = WithError(e)
        OBVIOUS
      <3>4. /\ e.next = db.next /\ e.logfile = db.logfile /\ e.l0 = db.l0 /\ e.deep = db.deep
            /\ e.log = db.log /\ e.manifest = db.manifest /\ e.shutting = db.shutting
        BY <1>1 DEF Stores
      <3> HIDE DEF e, d
      <3>5. SameButCall(e, d)
        BY <3>2, <3>3, Calls
      <3> QED
        BY <1>2, <2>2, <3>4, <3>5 DEF SameButCall
    <2>3. CASE BeginEdit(db, v, db.log, "compaction") /\ UNCHANGED <<db, bg>> /\ ~db.shutting
      <3>1. bg # None /\ bg \in Merges /\ bg.out \in DOMAIN tables /\ bg.out \in Nat /\ db.log <= db.logfile
        BY <1>0, <1>4, StoreFacts, Fields DEF FinishCompaction
      <3>2. /\ v.l0 \in SUBSET Nat /\ v.deep \in SUBSET Nat
            /\ v.l0 \cup v.deep \subseteq db.l0 \cup db.deep \cup {bg.out}
        BY <1>1, <3>1
      <3>3. db.log <= db.log
        BY <1>1
      <3> HIDE DEF v
      <3>4. Begun(edit', db) /\ edit'.owner = "compaction" /\ Files(edit'.state) = v.l0 \cup v.deep
        BY <1>1, <2>3, <3>1, <3>2, <3>3, EditBegun
      <3>5. Files(edit'.state) \subseteq DOMAIN tables
        <4>1. db.l0 \cup db.deep \subseteq DOMAIN tables
          BY <1>0, StoreFacts DEF Files
        <4> QED
          BY <3>1, <3>2, <3>4, <4>1
      <3>6. /\ FilesOf(logs', Records) /\ IsFiniteSet(DOMAIN logs')
            /\ \A n \in DOMAIN tables' : n \in Nat /\ tables'[n] \in SUBSET Records
            /\ \A n \in DOMAIN logs' : n < db'.next
            /\ db'.logfile \in DOMAIN logs' /\ db.logfile <= db'.logfile /\ db.next <= db'.next
            /\ pinned' # None => pinned' \subseteq DOMAIN tables'
            /\ bg' \in Merges \cup {None}
            /\ bg' # None => bg'.out \in db'.pending /\ bg'.out \in DOMAIN tables' /\ db'.scheduled
            /\ db'.shutting => queue' = <<>> /\ pinned' = None
        BY <1>0, <1>1, <2>3, StoreFacts
      <3> QED
        BY <1>0, <1>1, <2>3, <3>1, <3>4, <3>5, <3>6, StoreSteps
    <2> QED
      BY <2>1, <2>2, <2>3
  <1> QED
    BY <1>3, <1>4

\* A table starts to be moved.
LEMMA MoveSteps ==
  ASSUME Core, MoveTable
  PROVE  /\ db # None /\ bg = None /\ edit = None /\ db.scheduled /\ ~db.shutting /\ ~db.bgError
         /\ UNCHANGED <<logs, tables, manifests, current, db, bg, queue, group, pinned, result>>
         /\ Begun(edit', db) /\ edit'.owner = "move" /\ Files(edit'.state) = Files(db)
         /\ edit'.state.log = db.log /\ edit'.state.last = db.last
  <1>1. /\ db # None /\ bg = None /\ edit = None /\ db.scheduled /\ ~db.shutting /\ ~db.bgError
        /\ UNCHANGED <<logs, tables, manifests, current, db, bg, queue, group, pinned, result>>
    BY DEF MoveTable, MayWork, BackgroundIdle, disk, client
  <1>2. PICK n \in db.l0 : BeginEdit(db, [l0 |-> db.l0 \ {n}, deep |-> db.deep \cup {n}], db.log, "move")
    BY DEF MoveTable
  <1> DEFINE v == [l0 |-> db.l0 \ {n}, deep |-> db.deep \cup {n}]
  <1>3. db \in Stores /\ db.l0 \in SUBSET Nat /\ db.deep \in SUBSET Nat /\ db.log \in Nat /\ db.log <= db.logfile
    BY <1>1, StoreFacts, Fields
  <1>4. /\ v.l0 \in SUBSET Nat /\ v.deep \in SUBSET Nat /\ v.l0 \cup v.deep = db.l0 \cup db.deep
        /\ db.log <= db.log /\ BeginEdit(db, v, db.log, "move")
    BY <1>2, <1>3
  <1> HIDE DEF v
  <1>5. /\ Begun(edit', db) /\ edit'.owner = "move" /\ Files(edit'.state) = v.l0 \cup v.deep
        /\ edit'.state.log = db.log /\ edit'.state.last = db.last
    BY <1>3, <1>4, EditBegun
  <1> QED
    BY <1>1, <1>4, <1>5 DEF Files

\* It is one of the tables there are.
LEMMA CoreMove ==
  ASSUME Core, MoveTable
  PROVE  Core'
  <1>1. /\ db \in Stores /\ db.next \in Nat /\ db.logfile \in Nat
    BY MoveSteps, StoreFacts
  <1>2. Files(edit'.state) \subseteq DOMAIN tables'
    BY MoveSteps, StoreFacts
  <1>3. /\ FilesOf(logs', Records) /\ IsFiniteSet(DOMAIN logs')
        /\ \A n \in DOMAIN tables' : n \in Nat /\ tables'[n] \in SUBSET Records
        /\ \A n \in DOMAIN logs' : n < db'.next
        /\ db'.logfile \in DOMAIN logs' /\ db.logfile <= db'.logfile /\ db.next <= db'.next
        /\ pinned' # None => pinned' \subseteq DOMAIN tables'
        /\ bg' = None /\ edit'.owner # "compaction"
    BY <1>1, MoveSteps, StoreFacts
  <1>4. Begun(edit', db')
    BY MoveSteps
  <1> QED
    BY <1>1, <1>2, <1>3, <1>4, MoveSteps, StoreSteps

\* A table is installed.
LEMMA CoreInstalled ==
  ASSUME Core, BaseInv, MemTableInstalled \/ CompactionInstalled \/ MoveInstalled
  PROVE  Core'
  <1>0. /\ edit # None /\ edit.owner # "open" /\ edit.at = "install" /\ edit' = None
        /\ UNCHANGED <<current, queue, pinned>>
    BY DEF MemTableInstalled, CompactionInstalled, MoveInstalled, disk
  <1>1. db # None /\ db \in Stores /\ db.pending \in SUBSET Nat /\ db.scheduled
    <2>1. db # None
      BY <1>0 DEF Core, StoreInv
    <2> QED
      BY <1>0, <2>1, StoreFacts, Fields
  <1>2. /\ edit.state.l0 \in SUBSET Nat /\ edit.state.deep \in SUBSET Nat /\ edit.state.log \in Nat
    <2>1. edit \in Edits
      BY <1>0 DEF Core, StoreTypes
    <2>2. edit.state \in ManifestStates
      BY <2>1, Fields
    <2> QED
      BY <2>2, Fields
  <1> DEFINE e == Installed(db)
  <1>3. /\ e \in Stores /\ e.l0 = edit.state.l0 /\ e.deep = edit.state.deep /\ e.log = edit.state.log
        /\ e.manifest = db.manifest /\ e.next = db.next /\ e.logfile = db.logfile
        /\ e.shutting = db.shutting /\ e.pending = db.pending /\ e.scheduled = db.scheduled
        /\ e.bgError = db.bgError
    BY <1>1, <1>2 DEF Stores, Installed
  <1> HIDE DEF e
  <1>4. CASE MemTableInstalled
    <2> DEFINE d == [e EXCEPT !.imm = None]
    <2>1. /\ d \in Stores /\ d.l0 = e.l0 /\ d.deep = e.deep /\ d.log = e.log
          /\ d.manifest = e.manifest /\ d.next = e.next /\ d.logfile = e.logfile
          /\ d.shutting = e.shutting /\ d.pending = e.pending /\ d.scheduled = e.scheduled
          /\ d.bgError = e.bgError
      <3>1. d \in Stores
        BY <1>3 DEF Stores
      <3> QED
        BY <1>3, <3>1 DEF Stores
    <2>2. /\ DeleteObsoleteFiles(d) /\ bg' = bg
          /\ db' = IF bg = None THEN CallEnded(d) ELSE d
      BY <1>4 DEF MemTableInstalled, e
    <2> HIDE DEF d
    <2>3. SameButCall(d, CallEnded(d)) /\ SameButCall(d, d)
      BY <2>1, Calls DEF SameButCall
    <2>4. bg # None => bg.out \in db.pending
      BY <1>1, StoreFacts
    <2>5. bg' = None \/ (bg' = bg /\ bg.out \in d.pending /\ db'.scheduled)
      BY <1>1, <1>3, <2>1, <2>2, <2>4
    <2> QED
      BY <1>0, <1>1, <1>3, <2>1, <2>2, <2>3, <2>5, Installs
  <1>5. CASE CompactionInstalled
    <2> DEFINE P == e.pending \ {bg.out}
               d == [e EXCEPT !.pending = P]
    <2>1. P \in SUBSET Nat
      BY <1>1, <1>3
    <2>2. /\ d \in Stores /\ d.l0 = e.l0 /\ d.deep = e.deep /\ d.log = e.log
          /\ d.manifest = e.manifest /\ d.next = e.next /\ d.logfile = e.logfile
          /\ d.shutting = e.shutting /\ d.bgError = e.bgError
      <3> HIDE DEF P
      <3>1. d \in Stores
        BY <1>3, <2>1, PendingChanges
      <3> QED
        BY <1>3, <3>1 DEF Stores
    <2>3. DeleteObsoleteFiles(d) /\ bg' = None /\ db' = CallEnded(d)
      BY <1>5 DEF CompactionInstalled, e
    <2> HIDE DEF d
    <2>4. SameButCall(d, db')
      BY <2>2, <2>3, Calls
    <2> QED
      BY <1>0, <1>1, <1>3, <2>2, <2>3, <2>4, Installs
  <1>6. CASE MoveInstalled
    <2>1. /\ UNCHANGED <<logs, tables, manifests>> /\ bg' = bg /\ db' = CallEnded(e) /\ bg = None
      BY <1>1, <1>6, StoreFacts DEF MoveInstalled, disk, e
    <2>2. SameButCall(e, db')
      BY <1>3, <2>1, Calls
    <2> QED
      BY <1>0, <1>1, <1>3, <2>1, <2>2, Installs
  <1> QED
    BY <1>4, <1>5, <1>6

\* The manifest an edit is written to gets its record, or is synced.
LEMMA ManifestChanges ==
  ASSUME Core, edit # None, UNCHANGED <<logs, tables, current, db, bg, pinned, queue>>,
         edit' \in Edits, edit'.owner = edit.owner, edit'.manifest = edit.manifest,
         edit'.state = edit.state, edit.at \in {"append", "sync"}, edit'.at # "append",
         edit'.at = "current" => edit.owner = "open", edit'.at = "install" => edit.owner # "open",
         NEW x, File(x, ManifestStates), manifests' = Put(manifests, edit.manifest, x),
         x.recs # <<>>, Last(x.recs).log = edit.state.log, edit.owner = "open" => Last(x.recs) = edit.state,
         edit'.at # "sync" => x.synced = Len(x.recs),
         NEW s, s.next = edit.state.next, s.log = edit.state.log, Files(s) \subseteq DOMAIN tables,
         \A i \in DOMAIN x.recs :
           \/ x.recs[i] = s
           \/ /\ edit.manifest \in DOMAIN manifests /\ i \in DOMAIN manifests[edit.manifest].recs
              /\ x.recs[i] = manifests[edit.manifest].recs[i],
         edit.manifest = current =>
           /\ x.synced > 0
           /\ \A i \in DOMAIN x.recs : i >= x.synced =>
                \/ x.recs[i] = s
                \/ /\ i \in DOMAIN manifests[current].recs /\ i >= manifests[current].synced
                   /\ x.recs[i] = manifests[current].recs[i]
  PROVE  Core' /\ (\A m \in PossibleStates' : m = s \/ m \in PossibleStates)
  <1> DEFINE n == edit.manifest
  <1>0. edit \in Edits /\ n \in Nat /\ edit' # None
    BY Fields DEF Core, StoreTypes
  <1>1. /\ DOMAIN manifests' = DOMAIN manifests \cup {n} /\ manifests'[n] = x
        /\ \A k \in DOMAIN manifests : k # n => manifests'[k] = manifests[k]
    BY DEF Put
  <1>2. FileTypes'
    <2>1. FilesOf(manifests', ManifestStates)
      BY <1>0, FileSets DEF Core, FileTypes
    <2> QED
      BY <2>1 DEF Core, FileTypes
  <1>3. StoreTypes'
    BY DEF Core, StoreTypes
  <1>4. StoreInv'
    BY <1>0 DEF Core, StoreInv
  <1>5. current # 0 /\ current \in DOMAIN manifests
    BY DEF Core, NumbersInv
  <1>6. NumbersInv'
    <2>1. ManifestNumbers'
      <3>1. n < edit.state.next /\ edit.state.log < edit.state.next /\ ManifestNumbers
        BY DEF Core, NumbersInv
      <3>2. \A i \in DOMAIN x.recs : n < x.recs[i].next /\ x.recs[i].log < x.recs[i].next
        BY <3>1 DEF ManifestNumbers
      <3> HIDE DEF n
      <3> QED
        BY <1>1, <3>1, <3>2 DEF ManifestNumbers
    <2>2. current' > 1 => manifests'[current'].synced > 0
      <3>1. CASE n = current
        BY <1>1, <3>1
      <3>2. CASE n # current
        BY <1>1, <1>5, <3>2 DEF Core, NumbersInv
      <3> QED
        BY <3>1, <3>2
    <2>3. current' # 0 /\ current' \in DOMAIN manifests'
      BY <1>1, <1>5
    <2>4. db' # None =>
            /\ current' = db'.manifest /\ 1 < current' /\ db'.manifest < db'.next
            /\ db'.log <= db'.logfile /\ db'.logfile \in DOMAIN logs'
            /\ \A k \in DOMAIN logs' : k < db'.next
      BY DEF Core, NumbersInv
    <2>5. /\ edit'.manifest < edit'.state.next /\ edit'.state.log < edit'.state.next
          /\ edit'.owner # "open" => db'.log <= edit'.state.log /\ edit'.state.log <= db'.logfile
      BY DEF Core, NumbersInv
    <2>6. edit'.owner = "open" =>
            /\ edit'.state.log \in DOMAIN logs' /\ \A k \in DOMAIN logs' : k < edit'.state.next
            /\ edit'.at # "install" /\ current' < edit'.manifest
      BY DEF Core, NumbersInv
    <2> QED
      BY <2>1, <2>2, <2>3, <2>4, <2>5, <2>6 DEF NumbersInv
  <1>7. EditInv'
    BY <1>1 DEF EditInv
  <1>9. \A m \in PossibleStates' : m = s \/ m \in PossibleStates
    <2> SUFFICES ASSUME NEW m \in PossibleStates' PROVE m = s \/ m \in PossibleStates
      OBVIOUS
    <2>1. PICK i \in DOMAIN manifests'[current].recs :
            i >= manifests'[current].synced /\ m = manifests'[current].recs[i]
      BY <1>5 DEF PossibleStates
    <2>2. CASE n = current
      BY <1>1, <1>5, <2>1, <2>2 DEF PossibleStates
    <2>3. CASE n # current
      BY <1>1, <1>5, <2>1, <2>3 DEF PossibleStates
    <2> QED
      BY <2>2, <2>3
  <1>8. TablesInv'
    <2>2. Files(edit'.state) = Files(edit.state)
      BY DEF Files
    <2> QED
      BY <1>9, <2>2 DEF Core, TablesInv, Files
  <1> QED
    BY <1>2, <1>3, <1>4, <1>6, <1>7, <1>8, <1>9 DEF Core

\* The state the manifest holds after the edit: the one it held last, edited.
LEMMA LastIsPossible ==
  ASSUME Core, current # 0, manifests[current].recs # <<>>
  PROVE  /\ Last(manifests[current].recs) \in PossibleStates
         /\ Last(manifests[current].recs) \in ManifestStates
  <1> DEFINE f == manifests[current]
  <1>1. f.recs \in Seq(ManifestStates) /\ f.synced \in Nat /\ f.synced <= Len(f.recs)
    BY DEF Core, NumbersInv, FileTypes, FilesOf, File
  <1> HIDE DEF f
  <1>2. Len(f.recs) \in DOMAIN f.recs /\ Len(f.recs) >= f.synced /\ Last(f.recs) = f.recs[Len(f.recs)]
    BY <1>1 DEF Last, f
  <1> QED
    BY <1>1, <1>2 DEF PossibleStates, f

\* A store that runs has a manifest with a record.
LEMMA StoreHasStates ==
  Core => (db # None => current # 0 /\ current \in DOMAIN manifests /\ manifests[current].recs # <<>>)
  <1> SUFFICES ASSUME Core, db # None
               PROVE  current # 0 /\ current \in DOMAIN manifests /\ manifests[current].recs # <<>>
    OBVIOUS
  <1>1. current # 0 /\ current \in DOMAIN manifests /\ manifests[current].synced > 0
    BY DEF Core, NumbersInv, StoreTypes
  <1>2. File(manifests[current], ManifestStates)
    BY <1>1 DEF Core, FileTypes, FilesOf
  <1>3. /\ manifests[current].synced \in Nat /\ Len(<<>>) = 0
        /\ manifests[current].synced <= Len(manifests[current].recs)
    BY <1>2 DEF File
  <1> QED
    BY <1>1, <1>3

\* The same of the state after a step.
LEMMA StoreHasStatesNext ==
  (Core => (db # None => current # 0 /\ current \in DOMAIN manifests /\ manifests[current].recs # <<>>))'
  BY StoreHasStates, PTL

\* What the edit makes of it.
LEMMA AppliedState ==
  ASSUME Core, edit # None, edit.owner # "open"
  PROVE  LET m == Last(manifests[current].recs)
             s == Applied(m)
         IN  /\ edit.manifest = current /\ current # 0 /\ current \in DOMAIN manifests
             /\ manifests[current].synced > 0 /\ manifests[current].recs # <<>>
             /\ m \in PossibleStates /\ m \in ManifestStates /\ s \in ManifestStates
             /\ s.l0 = (m.l0 \ (db.l0 \ edit.state.l0)) \cup (edit.state.l0 \ db.l0)
             /\ s.deep = (m.deep \ (db.deep \ edit.state.deep)) \cup (edit.state.deep \ db.deep)
             /\ s.log = edit.state.log /\ s.next = edit.state.next /\ s.last = edit.state.last
             /\ Files(s) \subseteq Files(edit.state) \cup Files(m)
  <1> DEFINE m == Last(manifests[current].recs)
             A == (m.l0 \ (db.l0 \ edit.state.l0)) \cup (edit.state.l0 \ db.l0)
             D == (m.deep \ (db.deep \ edit.state.deep)) \cup (edit.state.deep \ db.deep)
             s == Applied(m)
  <1>0. edit \in Edits /\ edit.state \in ManifestStates
    BY Fields DEF Core, StoreTypes
  <1>1. db # None /\ edit.manifest = db.manifest
    BY DEF Core, StoreInv
  <1>2. current = db.manifest /\ 1 < current /\ current \in DOMAIN manifests /\ current \in Nat
    BY <1>1 DEF Core, NumbersInv, StoreTypes
  <1>3. manifests[current].synced > 0
    BY <1>2 DEF Core, NumbersInv
  <1>4. manifests[current].recs # <<>>
    <2>1. /\ manifests[current].recs \in Seq(ManifestStates) /\ manifests[current].synced \in Nat
          /\ manifests[current].synced <= Len(manifests[current].recs)
      BY <1>2 DEF Core, FileTypes, FilesOf, File
    <2> QED
      BY <1>3, <2>1
  <1>5. m \in PossibleStates /\ m \in ManifestStates
    BY <1>2, <1>4, LastIsPossible
  <1>6. /\ edit.state.l0 \in SUBSET Nat /\ edit.state.deep \in SUBSET Nat
        /\ m.l0 \in SUBSET Nat /\ m.deep \in SUBSET Nat
    <2> HIDE DEF m
    <2> QED
      BY <1>0, <1>5, Fields
  <1>7. s = [edit.state EXCEPT !.l0 = A, !.deep = D]
    BY DEF Applied
  <1>8. A \in SUBSET Nat /\ D \in SUBSET Nat
    BY <1>6
  <1>9. /\ s \in ManifestStates /\ s.l0 = A /\ s.deep = D
        /\ s.log = edit.state.log /\ s.next = edit.state.next /\ s.last = edit.state.last
    <2> HIDE DEF A, D, s, m
    <2> QED
      BY <1>0, <1>7, <1>8 DEF ManifestStates
  <1>10. Files(s) \subseteq Files(edit.state) \cup Files(m)
    <2> HIDE DEF s, m
    <2> QED
      BY <1>9 DEF Files
  <1> QED
    BY <1>1, <1>2, <1>3, <1>4, <1>5, <1>9, <1>10

\* LogAndApply appends, and syncs.
LEMMA CoreAppend ==
  ASSUME Core, AppendManifest
  PROVE  /\ Core'
         /\ \A m \in PossibleStates' :
              \/ m \in PossibleStates
              \/ /\ edit.owner # "open" /\ m.log = edit.state.log
                 /\ \E k \in PossibleStates : Files(m) \subseteq Files(edit.state) \cup Files(k)
         /\ edit.owner = "open" => PossibleStates' = PossibleStates /\ manifests'[current] = manifests[current]
         /\ edit.owner # "open" =>
              /\ Last(manifests'[current].recs) = Applied(Last(manifests[current].recs))
              /\ \A m \in PossibleStates' : m \in PossibleStates \/ m = Applied(Last(manifests[current].recs))
  <1> DEFINE n == edit.manifest
             b == Last(manifests[n].recs)
             f == IF edit.owner = "open" THEN EmptyFile ELSE manifests[n]
             s == IF edit.owner = "open" THEN edit.state ELSE Applied(b)
             x == Added(f, s)
  <1>0. /\ edit # None /\ edit.at = "append" /\ manifests' = Put(manifests, n, x)
        /\ edit' = [edit EXCEPT !.at = "sync"]
        /\ UNCHANGED <<logs, tables, current, db, bg, pinned, queue>>
    BY DEF AppendManifest, client
  <1>1. edit \in Edits /\ n \in Nat /\ edit.state \in ManifestStates /\ edit.owner \in {"open", "flush", "compaction", "move"}
    <2>1. edit \in Edits
      BY <1>0 DEF Core, StoreTypes
    <2> QED
      BY <2>1, Fields
  <1>2. /\ edit' \in Edits /\ edit'.owner = edit.owner /\ edit'.manifest = edit.manifest
        /\ edit'.state = edit.state /\ edit'.at = "sync"
    BY <1>0, <1>1 DEF Edits
  <1>3. edit.owner # "open" => n = current /\ n \in DOMAIN manifests /\ manifests[n].synced > 0
    BY <1>0, AppliedState
  <1>s. /\ s \in ManifestStates /\ s.log = edit.state.log /\ s.next = edit.state.next
        /\ edit.owner = "open" => s = edit.state
        /\ edit.owner # "open" =>
             /\ s = Applied(b) /\ b \in PossibleStates
             /\ Files(s) \subseteq Files(edit.state) \cup Files(b)
        /\ Files(s) \subseteq DOMAIN tables
    <2>1. CASE edit.owner = "open"
      <3>1. Files(edit.state) \subseteq DOMAIN tables
        BY <1>0 DEF Core, TablesInv
      <3> QED
        BY <1>1, <2>1, <3>1
    <2>2. CASE edit.owner # "open"
      <3>1. /\ Files(edit.state) \subseteq DOMAIN tables
            /\ \A k \in PossibleStates : Files(k) \subseteq DOMAIN tables
        BY <1>0 DEF Core, TablesInv
      <3>2. /\ b \in PossibleStates /\ s \in ManifestStates /\ s.log = edit.state.log
            /\ s.next = edit.state.next /\ Files(s) \subseteq Files(edit.state) \cup Files(b)
        BY <1>0, <1>3, <2>2, AppliedState
      <3> QED
        BY <2>2, <3>1, <3>2
    <2> QED
      BY <2>1, <2>2
  <1>4. edit.owner = "open" => n # current
    <2>1. current \in Nat
      BY DEF Core, StoreTypes
    <2>2. edit.owner = "open" => current < n
      BY <1>0 DEF Core, NumbersInv
    <2> QED
      BY <1>1, <2>1, <2>2
  <1>5. File(f, ManifestStates)
    BY <1>3, FileChanges DEF Core, FileTypes, FilesOf
  <1>6. f = EmptyFile \/ (n \in DOMAIN manifests /\ n = current /\ f = manifests[n] /\ f.synced > 0)
    BY <1>3
  <1>7. n = current => f = manifests[n] /\ f.synced > 0
    BY <1>3, <1>4
  <1> HIDE DEF f, s
  <1>8. File(x, ManifestStates) /\ x.synced = f.synced /\ x.recs = Append(f.recs, s)
    <2>1. \A y : \A r \in ManifestStates : File(y, ManifestStates) =>
            /\ File(Added(y, r), ManifestStates) /\ Added(y, r).synced = y.synced
            /\ Added(y, r).recs = Append(y.recs, r)
      BY FileChanges
    <2> QED
      BY <1>s, <1>5, <2>1
  <1>9. f.recs \in Seq(ManifestStates) /\ f.synced \in Nat /\ f.synced <= Len(f.recs)
    BY <1>5 DEF File
  <1> HIDE DEF x
  <1>10. /\ x.recs # <<>> /\ Last(x.recs) = s
         /\ \A i \in DOMAIN x.recs : \/ x.recs[i] = s
                                     \/ i \in DOMAIN f.recs /\ x.recs[i] = f.recs[i]
    BY <1>s, <1>8, <1>9 DEF Last
  <1>11. \A i \in DOMAIN EmptyFile.recs : FALSE
    BY FileChanges
  <1> HIDE DEF n, b
  <1>12. \A i \in DOMAIN x.recs :
           \/ x.recs[i] = s
           \/ n \in DOMAIN manifests /\ i \in DOMAIN manifests[n].recs /\ x.recs[i] = manifests[n].recs[i]
    BY <1>6, <1>10, <1>11
  <1>13. n = current =>
           /\ x.synced > 0
           /\ \A i \in DOMAIN x.recs : i >= x.synced =>
                \/ x.recs[i] = s
                \/ /\ i \in DOMAIN manifests[current].recs /\ i >= manifests[current].synced
                   /\ x.recs[i] = manifests[current].recs[i]
    BY <1>7, <1>8, <1>10
  <1>14. Last(x.recs).log = edit.state.log /\ (edit.owner = "open" => Last(x.recs) = edit.state)
    BY <1>s, <1>10
  <1>15. Core' /\ (\A m \in PossibleStates' : m = s \/ m \in PossibleStates)
    <2>1. /\ s.next = edit.state.next /\ s.log = edit.state.log /\ Files(s) \subseteq DOMAIN tables
          /\ File(x, ManifestStates) /\ x.recs # <<>>
      BY <1>s, <1>8, <1>10
    <2>2. \A i \in DOMAIN x.recs :
            \/ x.recs[i] = s
            \/ /\ edit.manifest \in DOMAIN manifests /\ i \in DOMAIN manifests[edit.manifest].recs
               /\ x.recs[i] = manifests[edit.manifest].recs[i]
      BY <1>12 DEF n
    <2>3. edit.manifest = current =>
            /\ x.synced > 0
            /\ \A i \in DOMAIN x.recs : i >= x.synced =>
                 \/ x.recs[i] = s
                 \/ /\ i \in DOMAIN manifests[current].recs /\ i >= manifests[current].synced
                    /\ x.recs[i] = manifests[current].recs[i]
      BY <1>13 DEF n
    <2>4. manifests' = Put(manifests, edit.manifest, x)
      BY <1>0 DEF n
    <2>5. /\ edit'.at # "append" /\ edit'.at # "current" /\ edit'.at # "install" /\ edit.at \in {"append", "sync"}
          /\ edit'.at # "sync" => x.synced = Len(x.recs)
      BY <1>0, <1>2
    <2> QED
      BY <1>0, <1>2, <1>14, <2>1, <2>2, <2>3, <2>4, <2>5, ManifestChanges
  <1>16. n \in DOMAIN manifests' /\ manifests'[n] = x /\ \A k : k # n => (k \in DOMAIN manifests => manifests'[k] = manifests[k])
    BY <1>0 DEF Put
  <1>17. CASE edit.owner = "open"
    <2>1. current \in DOMAIN manifests
      BY <1>0, <1>17 DEF Core, NumbersInv
    <2>2. manifests'[current] = manifests[current]
      BY <1>4, <1>16, <1>17, <2>1
    <2>3. PossibleStates' = PossibleStates
      BY <1>0, <2>2 DEF PossibleStates
    <2> QED
      BY <1>15, <1>17, <2>2, <2>3
  <1>18. CASE edit.owner # "open"
    <2>1. Last(manifests'[current].recs) = Applied(Last(manifests[current].recs))
      BY <1>s, <1>3, <1>10, <1>16, <1>18 DEF b
    <2>2. s = Applied(Last(manifests[current].recs))
      BY <1>s, <1>3, <1>18 DEF b
    <2> QED
      BY <1>s, <1>15, <1>18, <2>1, <2>2
  <1> QED
    BY <1>17, <1>18

\* The manifest is synced.
LEMMA CoreSync ==
  ASSUME Core, SyncManifest
  PROVE  /\ Core' /\ PossibleStates' \subseteq PossibleStates
         /\ manifests'[current].recs = manifests[current].recs
         /\ Last(manifests'[current].recs) = Last(manifests[current].recs)
  <1> DEFINE n == edit.manifest
             f == manifests[n]
             x == Synced(f)
  <1>0. /\ edit # None /\ edit.at = "sync" /\ manifests' = [manifests EXCEPT ![n] = x]
        /\ edit' = [edit EXCEPT !.at = IF edit.owner = "open" THEN "current" ELSE "install"]
        /\ UNCHANGED <<logs, tables, current, db, bg, pinned, queue>>
    BY DEF SyncManifest, client
  <1>1. edit \in Edits
    BY <1>0 DEF Core, StoreTypes
  <1>2. /\ edit' \in Edits /\ edit'.owner = edit.owner /\ edit'.manifest = edit.manifest
        /\ edit'.state = edit.state
        /\ edit'.at = IF edit.owner = "open" THEN "current" ELSE "install"
    BY <1>0, <1>1 DEF Edits
  <1>3. /\ n \in DOMAIN manifests /\ f.recs # <<>> /\ Last(f.recs).log = edit.state.log
        /\ edit.owner = "open" => Last(f.recs) = edit.state
    BY <1>0 DEF Core, EditInv
  <1>4. File(f, ManifestStates)
    BY <1>3 DEF Core, FileTypes, FilesOf
  <1>5. manifests' = Put(manifests, n, x)
    <2> HIDE DEF x, n
    <2>1. [manifests EXCEPT ![n] = x] = Put(manifests, n, x)
      BY <1>3 DEF Put, Core, FileTypes, n
    <2> QED
      BY <1>0, <2>1
  <1> HIDE DEF f
  <1>6. File(x, ManifestStates) /\ x.recs = f.recs /\ x.synced = Len(f.recs)
    BY <1>4, FileChanges
  <1>7. f.recs \in Seq(ManifestStates) /\ f.synced \in Nat /\ f.synced <= Len(f.recs) /\ Len(f.recs) > 0
    BY <1>3, <1>4 DEF File
  <1> HIDE DEF x
  <1>8. \A i \in DOMAIN x.recs : i >= x.synced => i \in DOMAIN f.recs /\ i >= f.synced /\ x.recs[i] = f.recs[i]
    BY <1>6, <1>7
  <1>9. f = manifests[n]
    BY DEF f
  <1>10. \A i \in DOMAIN x.recs :
           \/ x.recs[i] = edit.state
           \/ n \in DOMAIN manifests /\ i \in DOMAIN manifests[n].recs /\ x.recs[i] = manifests[n].recs[i]
    BY <1>3, <1>6, <1>9
  <1>11. n = current =>
           /\ x.synced > 0
           /\ \A i \in DOMAIN x.recs : i >= x.synced =>
                \/ x.recs[i] = edit.state
                \/ /\ i \in DOMAIN manifests[current].recs /\ i >= manifests[current].synced
                   /\ x.recs[i] = manifests[current].recs[i]
    BY <1>6, <1>7, <1>8, <1>9
  <1>12. /\ x.recs # <<>> /\ Last(x.recs).log = edit.state.log
         /\ edit.owner = "open" => Last(x.recs) = edit.state
    BY <1>3, <1>6
  <1>13. /\ edit.at \in {"append", "sync"} /\ edit'.at # "append"
         /\ edit'.at = "current" => edit.owner = "open"
         /\ edit'.at = "install" => edit.owner # "open"
         /\ edit'.at # "sync" => x.synced = Len(x.recs)
    BY <1>0, <1>2, <1>6
  <1>14. /\ edit' \in Edits /\ edit'.owner = edit.owner /\ edit'.manifest = edit.manifest
         /\ edit'.state = edit.state /\ edit # None /\ UNCHANGED <<logs, tables, current, db, bg, pinned, queue>>
    BY <1>0, <1>2
  <1>15. File(x, ManifestStates)
    BY <1>6
  <1>16. Files(edit.state) \subseteq DOMAIN tables
    BY <1>0 DEF Core, TablesInv
  <1> HIDE DEF n
  <1>17. Core'
    <2> DEFINE s == edit.state
    <2>1. s.next = edit.state.next /\ s.log = edit.state.log /\ Files(s) \subseteq DOMAIN tables
      BY <1>16
    <2>2. \A i \in DOMAIN x.recs :
            \/ x.recs[i] = s
            \/ /\ edit.manifest \in DOMAIN manifests /\ i \in DOMAIN manifests[edit.manifest].recs
               /\ x.recs[i] = manifests[edit.manifest].recs[i]
      BY <1>10 DEF n
    <2>3. edit.manifest = current =>
            /\ x.synced > 0
            /\ \A i \in DOMAIN x.recs : i >= x.synced =>
                 \/ x.recs[i] = s
                 \/ /\ i \in DOMAIN manifests[current].recs /\ i >= manifests[current].synced
                    /\ x.recs[i] = manifests[current].recs[i]
      BY <1>11 DEF n
    <2>4. manifests' = Put(manifests, edit.manifest, x)
      BY <1>5 DEF n
    <2> HIDE DEF s
    <2> QED
      BY <1>12, <1>13, <1>14, <1>15, <2>1, <2>2, <2>3, <2>4, ManifestChanges
  <1>18. current # 0 /\ current \in DOMAIN manifests /\ current' = current
    BY <1>0 DEF Core, NumbersInv
  <1>19. manifests'[current].recs = manifests[current].recs
         /\ (manifests'[current] = manifests[current] \/ (n = current /\ manifests'[current] = x))
    BY <1>5, <1>6, <1>9, <1>18 DEF Put
  <1>20. PossibleStates' \subseteq PossibleStates
    <2>1. CASE manifests'[current] = manifests[current]
      BY <1>18, <2>1 DEF PossibleStates
    <2>2. CASE n = current /\ manifests'[current] = x
      BY <1>8, <1>9, <1>18, <2>2 DEF PossibleStates
    <2> QED
      BY <1>19, <2>1, <2>2
  <1> QED
    BY <1>17, <1>19, <1>20

\* CURRENT names the manifest of a store that opens.
LEMMA CoreNamed ==
  ASSUME Core, SetCurrentFile
  PROVE  Core' /\ (\A m \in PossibleStates' : m = edit.state \/ m \in PossibleStates)
  <1>0. /\ edit # None /\ edit.at = "current" /\ current' = edit.manifest
        /\ edit' = [edit EXCEPT !.at = "install"]
        /\ UNCHANGED <<logs, tables, manifests, db, bg, pinned, queue>>
    BY DEF SetCurrentFile, client
  <1>1. edit \in Edits /\ edit.manifest \in Nat
    BY <1>0, Fields DEF Core, StoreTypes
  <1>2. /\ edit' \in Edits /\ edit'.owner = edit.owner /\ edit'.manifest = edit.manifest
        /\ edit'.state = edit.state /\ edit'.at = "install" /\ edit' # None
    BY <1>0, <1>1, Fields DEF Edits
  <1>3. db = None /\ edit.owner = "open"
    BY <1>0 DEF Core, StoreInv
  <1>4. /\ edit.manifest \in DOMAIN manifests /\ manifests[edit.manifest].recs # <<>>
        /\ Last(manifests[edit.manifest].recs) = edit.state
        /\ manifests[edit.manifest].synced = Len(manifests[edit.manifest].recs)
        /\ manifests[edit.manifest].recs \in Seq(ManifestStates)
    <2>1. /\ edit.manifest \in DOMAIN manifests /\ manifests[edit.manifest].recs # <<>>
          /\ Last(manifests[edit.manifest].recs) = edit.state
          /\ manifests[edit.manifest].synced = Len(manifests[edit.manifest].recs)
      BY <1>0, <1>3 DEF Core, EditInv
    <2> QED
      BY <2>1 DEF Core, FileTypes, FilesOf, File
  <1>5. 1 < edit.manifest
    <2>1. current \in Nat /\ current # 0 /\ current < edit.manifest
      BY <1>0, <1>3 DEF Core, StoreTypes, NumbersInv
    <2> QED
      BY <1>1, <2>1
  <1>6. FileTypes' /\ StoreTypes' /\ StoreInv' /\ EditInv'
    <2>1. FileTypes' /\ StoreTypes'
      BY <1>0, <1>1, <1>2 DEF Core, FileTypes, StoreTypes
    <2>2. StoreInv'
      BY <1>0, <1>2, <1>3 DEF Core, StoreInv
    <2>3. EditInv'
      BY <1>0, <1>2, <1>4 DEF EditInv
    <2> QED
      BY <2>1, <2>2, <2>3
  <1>7. NumbersInv'
    <2>1. ManifestNumbers'
      BY <1>0 DEF Core, NumbersInv, ManifestNumbers
    <2>2. manifests[edit.manifest].synced > 0
      BY <1>4
    <2>3. /\ edit.manifest < edit.state.next /\ edit.state.log < edit.state.next
          /\ edit.state.log \in DOMAIN logs /\ \A n \in DOMAIN logs : n < edit.state.next
      BY <1>0, <1>3 DEF Core, NumbersInv
    <2> QED
      BY <1>0, <1>2, <1>3, <1>4, <1>5, <2>1, <2>2, <2>3 DEF NumbersInv
  <1>9. \A m \in PossibleStates' : m = edit.state
    <2> SUFFICES ASSUME NEW m \in PossibleStates' PROVE m = edit.state
      OBVIOUS
    <2>1. PICK i \in DOMAIN manifests[edit.manifest].recs :
            i >= manifests[edit.manifest].synced /\ m = manifests[edit.manifest].recs[i]
      BY <1>0, <1>5 DEF PossibleStates
    <2>2. i = Len(manifests[edit.manifest].recs)
      BY <1>4, <2>1
    <2> QED
      BY <1>4, <2>1, <2>2 DEF Last
  <1>8. TablesInv'
    <2>2. Files(edit.state) \subseteq DOMAIN tables
      BY <1>0 DEF Core, TablesInv
    <2> QED
      BY <1>0, <1>2, <1>3, <1>9, <2>2 DEF Core, TablesInv, StoreInv, Files
  <1> QED
    BY <1>6, <1>7, <1>8, <1>9 DEF Core

\* LogAndApply fails: the store stops to write, and stops to delete files.
LEMMA CoreFails ==
  ASSUME Core, EditFails
  PROVE  Core'
  <1>0. /\ edit # None /\ edit.at # "install" /\ edit' = None
        /\ UNCHANGED <<current, queue, pinned>>
    BY DEF EditFails
  <1>1. edit \in Edits /\ edit.manifest \in Nat
    BY <1>0, Fields DEF Core, StoreTypes
  <1>2. CASE edit.owner = "open"
    <2>1. /\ manifests' = Without(manifests, {edit.manifest}) /\ UNCHANGED <<logs, tables, db, bg>>
      BY <1>2 DEF EditFails
    <2>2. /\ DOMAIN manifests' = DOMAIN manifests \ {edit.manifest}
          /\ \A n \in DOMAIN manifests' : manifests'[n] = manifests[n]
      BY <2>1 DEF Without
    <2>3. current # 0 /\ current \in DOMAIN manifests /\ current # edit.manifest
      <3>1. current \in Nat
        BY DEF Core, StoreTypes
      <3>2. current # 0 /\ current \in DOMAIN manifests /\ current < edit.manifest
        BY <1>0, <1>2 DEF Core, NumbersInv
      <3> QED
        BY <1>1, <3>1, <3>2
    <2>4. current \in DOMAIN manifests' /\ manifests'[current] = manifests[current]
      BY <2>2, <2>3
    <2>5. PossibleStates' = PossibleStates
      BY <1>0, <2>4 DEF PossibleStates
    <2>6. FileTypes' /\ StoreTypes' /\ EditInv'
      <3>1. FilesOf(manifests', ManifestStates)
        BY <2>1, FileSets DEF Core, FileTypes
      <3> QED
        BY <1>0, <2>1, <3>1 DEF Core, FileTypes, StoreTypes, EditInv
    <2>7. StoreInv'
      BY <1>0, <1>2, <2>1 DEF Core, StoreInv
    <2>8. NumbersInv'
      <3>1. ManifestNumbers'
        BY <2>2 DEF Core, NumbersInv, ManifestNumbers
      <3>2. current > 1 => manifests'[current].synced > 0
        BY <2>4 DEF Core, NumbersInv
      <3>3. db = None
        BY <1>0, <1>2 DEF Core, StoreInv
      <3> QED
        BY <1>0, <2>1, <2>3, <2>4, <3>1, <3>2, <3>3 DEF NumbersInv
    <2>9. TablesInv'
      BY <1>0, <2>1, <2>5 DEF Core, TablesInv, Files
    <2> QED
      BY <2>6, <2>7, <2>8, <2>9 DEF Core
  <1>3. CASE edit.owner # "open"
    <2> DEFINE e == IF edit.owner = "compaction" THEN [db EXCEPT !.pending = @ \ {bg.out}] ELSE db
               d == WithError(e)
               ends == edit.owner = "compaction" \/ bg = None
    <2>1. /\ db' = IF ends THEN CallEnded(d) ELSE d
          /\ bg' = IF ends THEN None ELSE bg
          /\ IF edit.owner = "compaction" THEN DeleteObsoleteFiles(d)
             ELSE UNCHANGED <<logs, tables, manifests>>
      <3> HIDE DEF d, ends, e
      <3> QED
        BY <1>3 DEF EditFails, d, ends, e
    <2>2. db # None /\ db \in Stores /\ db.pending \in SUBSET Nat /\ db.scheduled
          /\ db.next \in Nat /\ db.logfile \in Nat
      <3>1. db # None
        BY <1>0, <1>3 DEF Core, StoreInv
      <3> QED
        BY <1>0, <3>1, StoreFacts, Fields
    <2>3. /\ e \in Stores /\ e.next = db.next /\ e.logfile = db.logfile
          /\ e.l0 = db.l0 /\ e.deep = db.deep /\ e.log = db.log /\ e.manifest = db.manifest
          /\ e.shutting = db.shutting /\ e.scheduled = db.scheduled
          /\ edit.owner # "compaction" => e.pending = db.pending
      <3> DEFINE P == db.pending \ {bg.out}
      <3>1. P \in SUBSET Nat
        BY <2>2
      <3>2. [db EXCEPT !.pending = P] \in Stores
        <4> HIDE DEF P
        <4> QED
          BY <2>2, <3>1, PendingChanges
      <3>3. e \in Stores
        BY <2>2, <3>2
      <3> QED
        BY <2>2, <3>3 DEF Stores
    <2> HIDE DEF e
    <2>4. SameButCall(e, d) /\ d.bgError /\ d.scheduled = e.scheduled /\ d \in Stores
      <3>1. SameButCall(e, d) /\ d.scheduled = e.scheduled /\ d \in Stores
        BY <2>3, Calls DEF SameButCall
      <3>2. d.bgError = TRUE
        BY <2>3 DEF WithError, Stores
      <3> QED
        BY <3>1, <3>2
    <2> HIDE DEF d
    <2>5. UNCHANGED <<logs, tables, manifests>>
      BY <2>1, <2>4 DEF DeleteObsoleteFiles
    <2>6. /\ db' \in Stores /\ db'.next = db.next /\ db'.logfile = db.logfile
          /\ db'.l0 = db.l0 /\ db'.deep = db.deep /\ db'.log = db.log /\ db'.manifest = db.manifest
          /\ db'.shutting = db.shutting
          /\ ~ends => db'.scheduled /\ db'.pending = db.pending
      <3>1. SameButCall(d, CallEnded(d))
        BY <2>4, Calls
      <3>2. db' = CallEnded(d) \/ db' = d
        BY <2>1
      <3>3. ~ends => db' = d /\ edit.owner # "compaction"
        BY <2>1
      <3> HIDE DEF ends
      <3> QED
        BY <2>2, <2>3, <2>4, <3>1, <3>2, <3>3 DEF SameButCall
    <2>7. /\ FilesOf(logs', Records) /\ IsFiniteSet(DOMAIN logs')
          /\ \A n \in DOMAIN tables' : n \in Nat /\ tables'[n] \in SUBSET Records
          /\ \A n \in DOMAIN logs' : n < db'.next
          /\ db'.logfile \in DOMAIN logs' /\ db.logfile <= db'.logfile /\ db.next <= db'.next
          /\ pinned' # None => pinned' \subseteq DOMAIN tables'
          /\ db'.shutting => queue' = <<>> /\ pinned' = None
      BY <1>0, <2>2, <2>5, <2>6, StoreFacts
    <2>8. /\ bg' \in Merges \cup {None}
          /\ bg' # None => bg'.out \in db'.pending /\ bg'.out \in DOMAIN tables' /\ db'.scheduled
      <3>1. bg' = None \/ (bg' = bg /\ ~ends)
        BY <2>1
      <3> HIDE DEF ends
      <3> QED
        BY <2>2, <2>5, <2>6, <3>1, StoreFacts
    <2> QED
      BY <1>0, <2>2, <2>5, <2>6, <2>7, <2>8, StoreSteps
  <1> QED
    BY <1>2, <1>3

\* Among tables and logs.
LEMMA Among ==
  /\ \A T, N, M, r : N \subseteq M /\ InTables(T, N, r) => InTables(T, M, r)
  /\ \A T, N, M, r : InTables(T, N \cup M, r) => InTables(T, N, r) \/ InTables(T, M, r)
  /\ \A T, N, n, r : InTables(T, N \ {n}, r) => InTables(T, N, r)
  /\ \A T, r : ~InTables(T, {}, r)
  BY DEF InTables

\* Later logs are among the earlier ones.
LEMMA AmongLogs ==
  ASSUME NEW L, \A n \in DOMAIN L : n \in Nat, NEW k \in Nat, NEW j \in Nat, j <= k, NEW r, InLogs(L, k, r)
  PROVE  InLogs(L, j, r)
  <1>1. PICK n \in DOMAIN L : n >= k /\ \E i \in DOMAIN L[n].recs : r = L[n].recs[i]
    BY DEF InLogs
  <1>2. n >= j
    BY <1>1
  <1> QED
    BY <1>1, <1>2 DEF InLogs

\* Tables that stay, and one that is put among the others.
LEMMA TablesMove ==
  ASSUME NEW T, NEW U
  PROVE  /\ DOMAIN U \subseteq DOMAIN T /\ (\A n \in DOMAIN U : U[n] = T[n]) =>
              \A N, r : InTables(U, N, r) => InTables(T, N, r)
         /\ \A n, X : U = Put(T, n, X) =>
              \A N, r : InTables(U, N, r) => InTables(T, N \ {n}, r) \/ (n \in N /\ r \in X)
  BY DEF InTables, Put

\* Logs that stay, that lose records, that are new; one that grows, and one that is synced.
LEMMA LogsMove ==
  ASSUME NEW L, NEW G
  PROVE  /\ (\A n \in DOMAIN G : n \in DOMAIN L /\ G[n] = L[n]) =>
              \A k, r : InLogs(G, k, r) => InLogs(L, k, r)
         /\ \A N : FilesOf(L, Records) /\ G \in Truncations(Without(L, N)) =>
              \A k, r : InLogs(G, k, r) => InLogs(L, k, r)
         /\ \A n : G = Put(L, n, EmptyFile) =>
              \A k, r : InLogs(G, k, r) => InLogs(L, k, r)
         /\ \A n : G = [L EXCEPT ![n] = Synced(@)] =>
              \A k, r : InLogs(G, k, r) => InLogs(L, k, r)
         /\ \A n, x : FilesOf(L, Records) /\ x \in Records /\ G = [L EXCEPT ![n] = Added(@, x)] =>
              \A k, r : InLogs(G, k, r) => InLogs(L, k, r) \/ r = x
  <1>1. (\A n \in DOMAIN G : n \in DOMAIN L /\ G[n] = L[n]) =>
              \A k, r : InLogs(G, k, r) => InLogs(L, k, r)
    BY DEF InLogs
  <1>2. ASSUME NEW N, FilesOf(L, Records), G \in Truncations(Without(L, N)), NEW k, NEW r, InLogs(G, k, r)
        PROVE  InLogs(L, k, r)
    <2>1. /\ DOMAIN G = DOMAIN L \ N
          /\ \A n \in DOMAIN G : \A i \in DOMAIN G[n].recs : i \in DOMAIN L[n].recs /\ G[n].recs[i] = L[n].recs[i]
      <3> DEFINE h == Without(L, N)
      <3>1. FilesOf(h, Records) /\ DOMAIN h = DOMAIN L \ N /\ \A n \in DOMAIN h : h[n] = L[n]
        <4>1. FilesOf(L, Records)
          BY <1>2
        <4>2. FilesOf(h, Records)
          BY <4>1, FileSets
        <4>3. DOMAIN h = DOMAIN L \ N /\ \A n \in DOMAIN L \ N : h[n] = L[n]
          BY PutWithout
        <4> QED
          BY <4>2, <4>3
      <3>2. G \in Truncations(h)
        BY <1>2
      <3> HIDE DEF h
      <3> QED
        BY <3>1, <3>2, Truncated
    <2> QED
      BY <1>2, <2>1 DEF InLogs
  <1>3. ASSUME NEW n, G = Put(L, n, EmptyFile), NEW k, NEW r, InLogs(G, k, r) PROVE InLogs(L, k, r)
    <2>1. DOMAIN EmptyFile.recs = {}
      BY DEF EmptyFile
    <2>2. \A j \in DOMAIN G : (j = n /\ G[j] = EmptyFile) \/ (j \in DOMAIN L /\ G[j] = L[j])
      BY <1>3 DEF Put
    <2> HIDE DEF EmptyFile
    <2> QED
      BY <1>3, <2>1, <2>2 DEF InLogs
  <1>4. ASSUME NEW n, G = [L EXCEPT ![n] = Synced(@)], NEW k, NEW r, InLogs(G, k, r) PROVE InLogs(L, k, r)
    <2>1. \A j \in DOMAIN G : j \in DOMAIN L /\ (G[j] = L[j] \/ G[j] = Synced(L[j]))
      BY <1>4
    <2>2. \A f : Synced(f).recs = f.recs
      BY DEF Synced
    <2>3. \A j \in DOMAIN G : j \in DOMAIN L /\ G[j].recs = L[j].recs
      BY <2>1, <2>2
    <2> QED
      BY <1>4, <2>3 DEF InLogs
  <1>5. ASSUME NEW n, NEW x, FilesOf(L, Records), x \in Records, G = [L EXCEPT ![n] = Added(@, x)],
               NEW k, NEW r, InLogs(G, k, r)
        PROVE  InLogs(L, k, r) \/ r = x
    <2>1. \A j \in DOMAIN G : j \in DOMAIN L /\ (G[j] = L[j] \/ G[j] = Added(L[j], x))
      BY <1>5
    <2>2. \A j \in DOMAIN L : L[j].recs \in Seq(Records) /\ Added(L[j], x).recs = Append(L[j].recs, x)
      BY <1>5 DEF FilesOf, File, Added
    <2>3. PICK j \in DOMAIN G : j >= k /\ \E i \in DOMAIN G[j].recs : r = G[j].recs[i]
      BY <1>5 DEF InLogs
    <2>4. CASE G[j] = L[j]
      BY <2>1, <2>3, <2>4 DEF InLogs
    <2>5. CASE G[j] = Added(L[j], x)
      <3> DEFINE s == L[j].recs
      <3>1. j \in DOMAIN L /\ s \in Seq(Records) /\ G[j].recs = Append(s, x)
        BY <2>1, <2>2, <2>5
      <3>2. PICK i \in DOMAIN G[j].recs : r = G[j].recs[i]
        BY <2>3
      <3> HIDE DEF s
      <3>3. r = x \/ (i \in DOMAIN s /\ r = s[i])
        BY <1>5, <3>1, <3>2
      <3> QED
        BY <2>3, <3>1, <3>3 DEF InLogs, s
    <2> QED
      BY <2>1, <2>3, <2>4, <2>5
  <1> QED
    BY <1>1, <1>2, <1>3, <1>4, <1>5

\* What a store opened on a manifest's state would hold.
LEMMA HeldRecords ==
  ASSUME Types, NEW m
  PROVE  /\ Replayed(m, AllOfLogs) \in SUBSET Records /\ Contents(Files(m)) \in SUBSET Records
         /\ Replayed(m, AllOfLogs) =
              UNION {LogRecords(n, Len(logs[n].recs)) : n \in {k \in DOMAIN logs : k >= m.log}}
  <1>1. Replayed(m, AllOfLogs) =
              UNION {LogRecords(n, Len(logs[n].recs)) : n \in {k \in DOMAIN logs : k >= m.log}}
    <2>1. \A n \in DOMAIN logs : AllOfLogs[n] = Len(logs[n].recs)
      BY DEF AllOfLogs
    <2>2. \A n \in {k \in DOMAIN logs : k >= m.log} :
            LogRecords(n, AllOfLogs[n]) = LogRecords(n, Len(logs[n].recs))
      BY <2>1
    <2> QED
      BY <2>2 DEF Replayed
  <1>2. /\ Contents(Files(m)) \in SUBSET Records
        /\ \A n \in DOMAIN logs : LogRecords(n, Len(logs[n].recs)) \in SUBSET Records
    BY LogsHold
  <1> QED
    BY <1>1, <1>2

\* Record by record.
LEMMA HeldOnDisk ==
  ASSUME Types, NEW m, NEW r
  PROVE  /\ r \in Replayed(m, AllOfLogs) <=> InLogs(logs, m.log, r)
         /\ r \in Held(m, AllOfLogs) <=> OnDisk(tables, logs, m, r)
  <1>1. \A n \in DOMAIN logs : LogRecords(n, Len(logs[n].recs)) = {logs[n].recs[i] : i \in DOMAIN logs[n].recs}
    BY LogsHold
  <1>2. Replayed(m, AllOfLogs) =
          UNION {LogRecords(n, Len(logs[n].recs)) : n \in {k \in DOMAIN logs : k >= m.log}}
    BY HeldRecords
  <1>3. r \in Contents(Files(m)) <=> InTables(tables, Files(m), r)
    BY DEF Contents, InTables
  <1>4. r \in UNION {LogRecords(n, Len(logs[n].recs)) : n \in {k \in DOMAIN logs : k >= m.log}}
          <=> InLogs(logs, m.log, r)
    BY <1>1 DEF InLogs
  <1> QED
    BY <1>2, <1>3, <1>4 DEF OnDisk, Held

\* They are bounded when it is a state that may be found.
LEMMA HeldBounded ==
  ASSUME Types, NEW b, Bounded(b), NEW m \in PossibleStates
  PROVE  Below(Replayed(m, AllOfLogs), b)
  <1>1. \A r \in Replayed(m, AllOfLogs) : Live(r)
    BY HeldOnDisk DEF Live, OnDisk
  <1> QED
    BY <1>1 DEF Bounded, Below

\* The first manifest.
LEMMA CoreNewDB ==
  ASSUME Core, NewDB
  PROVE  Core'
  <1>0. /\ db = None /\ edit = None /\ current = 0
        /\ UNCHANGED <<logs, tables, db, bg, edit, pinned, queue>>
    BY DEF NewDB, client
  <1> DEFINE m == ManifestState(NoVersion, 0, 2, 0)
             x == Added(EmptyFile, m)
  <1>1. m \in ManifestStates /\ m.next = 2 /\ m.log = 0 /\ Files(m) = {}
    BY DEF ManifestState, NoVersion, ManifestStates, Files
  <1>2. DOMAIN logs = {} /\ \A n \in DOMAIN manifests : \A i \in DOMAIN manifests[n].recs :
                              Files(manifests[n].recs[i]) = {}
    BY <1>0 DEF Core, NumbersInv
  <1>3. CASE manifests' = Put(manifests, 1, x) /\ UNCHANGED current
    <2>1. File(x, ManifestStates) /\ x.recs = <<m>>
      <3> HIDE DEF m
      <3>1. \A y : \A r \in ManifestStates : File(y, ManifestStates) =>
              /\ File(Added(y, r), ManifestStates) /\ Added(y, r).recs = Append(y.recs, r)
        BY FileChanges
      <3>2. File(EmptyFile, ManifestStates) /\ EmptyFile.recs = <<>>
        BY FileChanges
      <3> QED
        BY <1>1, <3>1, <3>2
    <2>2. /\ DOMAIN manifests' = DOMAIN manifests \cup {1} /\ manifests'[1] = x
          /\ \A k \in DOMAIN manifests : k # 1 => manifests'[k] = manifests[k]
      BY <1>3 DEF Put
    <2>3. FilesOf(manifests', ManifestStates)
      BY <1>3, <2>1, FileSets DEF Core, FileTypes
    <2> HIDE DEF m, x
    <2>4. DOMAIN x.recs = {1} /\ x.recs[1] = m
      BY <2>1
    <2>5. ManifestNumbers' /\ \A n \in DOMAIN manifests' : \A i \in DOMAIN manifests'[n].recs :
                                Files(manifests'[n].recs[i]) = {}
      <3>1. ManifestNumbers
        BY DEF Core, NumbersInv
      <3>2. \A i \in DOMAIN x.recs : 1 < x.recs[i].next /\ x.recs[i].log < x.recs[i].next /\ Files(x.recs[i]) = {}
        <4>1. 1 < m.next /\ m.log < m.next /\ Files(m) = {}
          BY <1>1
        <4> QED
          BY <2>4, <4>1
      <3>3. \A n \in DOMAIN manifests' : \/ n = 1 /\ manifests'[n] = x
                                         \/ n \in DOMAIN manifests /\ manifests'[n] = manifests[n]
        BY <2>2
      <3> QED
        BY <1>2, <3>1, <3>2, <3>3 DEF ManifestNumbers
    <2>6. PossibleStates' = {}
      BY <1>0, <1>3 DEF PossibleStates
    <2>7. FileTypes' /\ StoreTypes' /\ StoreInv' /\ EditInv'
      BY <1>0, <1>3, <2>3 DEF Core, FileTypes, StoreTypes, StoreInv, EditInv
    <2>8. NumbersInv'
      BY <1>0, <1>2, <1>3, <2>5 DEF NumbersInv, Files
    <2>9. TablesInv'
      BY <1>0, <2>6 DEF Core, TablesInv
    <2> QED
      BY <2>7, <2>8, <2>9 DEF Core
  <1>4. CASE 1 \in DOMAIN manifests /\ current' = 1 /\ UNCHANGED manifests
    <2>1. FileTypes' /\ StoreTypes' /\ StoreInv' /\ EditInv'
      BY <1>0, <1>4 DEF Core, FileTypes, StoreTypes, StoreInv, EditInv
    <2>2. NumbersInv'
      BY <1>0, <1>4 DEF Core, NumbersInv, ManifestNumbers
    <2>3. \A k \in PossibleStates' : Files(k) = {}
      BY <1>2, <1>4 DEF PossibleStates
    <2>4. TablesInv'
      BY <1>0, <2>3 DEF Core, TablesInv
    <2> QED
      BY <2>1, <2>2, <2>4 DEF Core
  <1> QED
    BY <1>3, <1>4 DEF NewDB

\* The last sequence number a store recovers with: above those of its manifest and its logs.
LEMMA LastRecovered ==
  ASSUME Types, BoundInv, NEW m \in ManifestStates, m \in PossibleStates,
         NEW last, last = LastSequence(Replayed(m, AllOfLogs), m.last)
  PROVE  last \in Nat /\ m.last <= last /\ Below(Replayed(m, AllOfLogs), last)
  <1>1. PICK b \in Nat : Bounded(b)
    BY DEF BoundInv
  <1>2. Replayed(m, AllOfLogs) \in SUBSET Records /\ Below(Replayed(m, AllOfLogs), b)
    BY <1>1, HeldRecords, HeldBounded
  <1>3. m.last \in Nat
    BY Fields
  <1> QED
    BY <1>1, <1>2, <1>3, LastSequenceFound

\* A store recovers: the edit it begins.
LEMMA Opened ==
  ASSUME Types, Core, BoundInv, Open, edit' # None, NEW m, m = Last(manifests[current].recs)
  PROVE  /\ db = None /\ edit = None /\ current # 0 /\ current \in DOMAIN manifests
         /\ m \in ManifestStates /\ m \in PossibleStates /\ current < m.next
         /\ UNCHANGED <<manifests, current, db, bg, pinned, queue, group>>
         /\ \E a :
              /\ a = RecoverLogFiles(m)
              /\ edit' \in Edits /\ edit' # None /\ edit'.at = "append" /\ edit'.owner = "open"
              /\ edit'.manifest = m.next /\ edit'.state \in ManifestStates
              /\ edit'.state.log = a.next /\ edit'.state.next = a.next + 1
              /\ Files(edit'.state) = Files(m) \cup DOMAIN a.new
              /\ m.last <= edit'.state.last
              /\ \A r : InLogs(logs, m.log, r) => LastOf(r) <= edit'.state.last
              /\ Files(m) \subseteq DOMAIN tables
              /\ DOMAIN tables' = DOMAIN tables \cup DOMAIN a.new
              /\ \A n \in DOMAIN a.new : tables'[n] = a.new[n]
              /\ \A n \in DOMAIN tables \ DOMAIN a.new : tables'[n] = tables[n]
              /\ logs' = Put(logs, a.next, EmptyFile)
              /\ \A n \in DOMAIN logs : n < a.next
  <1>0. /\ db = None /\ edit = None /\ current # 0 /\ manifests[current].recs # <<>>
        /\ UNCHANGED <<manifests, current, db, bg, pinned, queue, group>>
    BY DEF Open, client
  <1>1. current \in DOMAIN manifests /\ File(manifests[current], ManifestStates)
    BY <1>0 DEF Core, NumbersInv, FileTypes, FilesOf
  <1>2. /\ manifests[current].recs \in Seq(ManifestStates)
        /\ manifests[current].synced \in Nat /\ manifests[current].synced <= Len(manifests[current].recs)
    BY <1>1 DEF File
  <1>3. /\ Len(manifests[current].recs) \in DOMAIN manifests[current].recs
        /\ m = manifests[current].recs[Len(manifests[current].recs)]
    BY <1>0, <1>2 DEF Last
  <1>4. m \in ManifestStates /\ m \in PossibleStates
    BY <1>0, <1>2, <1>3 DEF PossibleStates
  <1>5. current < m.next /\ m.log < m.next
    BY <1>1, <1>3 DEF Core, NumbersInv, ManifestNumbers
  <1> DEFINE a == RecoverLogFiles(m)
             last == LastSequence(Replayed(m, AllOfLogs), m.last)
             v == [l0 |-> m.l0 \cup DOMAIN a.new, deep |-> m.deep]
  <1>6. /\ Files(m) \subseteq DOMAIN tables
        /\ tables' = [n \in DOMAIN tables \cup DOMAIN a.new |->
                            IF n \in DOMAIN a.new THEN a.new[n] ELSE tables[n]]
        /\ logs' = Put(logs, a.next, EmptyFile)
        /\ edit' = [at |-> "append", owner |-> "open", manifest |-> m.next,
                    state |-> ManifestState(v, a.next, a.next + 1, last)]
    <2> HIDE DEF last, a
    <2>1. edit' # edit
      BY <1>0
    <2> QED
      BY <2>1 DEF Open, last, a, WithTables
  <1>7. /\ a.next \in Nat /\ m.next < a.next /\ \A n \in DOMAIN logs : n >= m.log => n < a.next
        /\ DOMAIN a.new \in SUBSET Nat
    <2> HIDE DEF a
    <2> QED
      BY <1>4, Recovered DEF a
  <1>8. last \in Nat /\ m.last <= last /\ Below(Replayed(m, AllOfLogs), last)
    BY <1>4, LastRecovered
  <1>9. /\ m.next \in Nat /\ m.log \in Nat /\ m.l0 \in SUBSET Nat /\ m.deep \in SUBSET Nat
    BY <1>4, Fields
  <1>10. \A n \in DOMAIN logs : n < a.next
    <2>1. \A n \in DOMAIN logs : n \in Nat
      BY DEF Types, FileTypes, FilesOf
    <2> HIDE DEF a
    <2> QED
      BY <1>5, <1>7, <1>9, <2>1
  <1> HIDE DEF a, last
  <1>11. /\ edit'.at = "append" /\ edit'.owner = "open" /\ edit'.manifest = m.next
         /\ edit'.state = [l0 |-> m.l0 \cup DOMAIN a.new, deep |-> m.deep, log |-> a.next,
                           next |-> a.next + 1, last |-> last]
    BY <1>6 DEF ManifestState
  <1>12. edit'.state \in ManifestStates
    BY <1>7, <1>8, <1>9, <1>11 DEF ManifestStates
  <1>13. edit' \in Edits
    BY <1>6, <1>9, <1>11, <1>12 DEF Edits
  <1>14. Files(edit'.state) = Files(m) \cup DOMAIN a.new
    BY <1>11 DEF Files
  <1>15. /\ DOMAIN tables' = DOMAIN tables \cup DOMAIN a.new
         /\ \A n \in DOMAIN a.new : tables'[n] = a.new[n]
         /\ \A n \in DOMAIN tables \ DOMAIN a.new : tables'[n] = tables[n]
    BY <1>6
  <1>16. edit' # None
    BY <1>13, Fields
  <1>17. a = RecoverLogFiles(m)
    BY DEF a
  <1>18. m.last <= edit'.state.last
    BY <1>8, <1>11
  <1>19. \A r : InLogs(logs, m.log, r) => LastOf(r) <= edit'.state.last
    BY <1>8, <1>11, HeldOnDisk DEF Below
  <1>20. edit'.state.log = a.next /\ edit'.state.next = a.next + 1
    BY <1>11
  <1>21. current # 0 /\ current \in DOMAIN manifests
    BY <1>0, <1>1
  <1>22. /\ edit'.at = "append" /\ edit'.owner = "open" /\ edit'.manifest = m.next
         /\ Files(m) \subseteq DOMAIN tables /\ logs' = Put(logs, a.next, EmptyFile)
    BY <1>6, <1>11
  <1> QED
    BY <1>0, <1>4, <1>5, <1>10, <1>12, <1>13, <1>14, <1>15, <1>16, <1>17, <1>18, <1>19, <1>20, <1>21, <1>22

\* Or it does not: some tables of what the logs hold are left, with numbers above those in use.
LEMMA OpenFailed ==
  ASSUME Types, Core, BoundInv, Open, edit' = None, NEW m, m = Last(manifests[current].recs)
  PROVE  /\ db = None /\ edit = None /\ current # 0 /\ m \in PossibleStates
         /\ UNCHANGED <<logs, manifests, current, db, bg, edit, pinned, queue, group, result, pc>>
         /\ \E N \in SUBSET Nat :
              /\ DOMAIN tables' = DOMAIN tables \cup N
              /\ \A n \in DOMAIN tables' : n \notin N => tables'[n] = tables[n]
              /\ \A n \in N : /\ m.next < n /\ tables'[n] \in SUBSET Records
                             /\ \A r \in tables'[n] : InLogs(logs, m.log, r)
  <1>0. /\ db = None /\ edit = None /\ current # 0 /\ manifests[current].recs # <<>>
        /\ UNCHANGED <<manifests, current, db, bg, edit, pinned, queue, group, result, pc>>
    BY DEF Open, client
  <1>1. m \in ManifestStates /\ m \in PossibleStates
    BY <1>0, LastIsPossible
  <1> DEFINE a == RecoverLogFiles(m)
  <1>2. PICK N \in SUBSET DOMAIN a.new : tables' = WithTables(a.new, N) /\ UNCHANGED logs
    <2> DEFINE last == LastSequence(Replayed(m, AllOfLogs), m.last)
               v == [l0 |-> m.l0 \cup DOMAIN a.new, deep |-> m.deep]
               s == ManifestState(v, a.next, a.next + 1, last)
               e == [at |-> "append", owner |-> "open", manifest |-> m.next, state |-> s]
    <2>1. \/ edit' = e
          \/ UNCHANGED logs /\ \E W \in SUBSET DOMAIN a.new : tables' = WithTables(a.new, W)
      BY DEF Open
    <2>2. last \in Nat
      BY <1>1, LastRecovered
    <2>3. a.next \in Nat /\ DOMAIN a.new \in SUBSET Nat
      <3> HIDE DEF a
      <3> QED
        BY <1>1, Recovered DEF a
    <2>4. m.next \in Nat /\ m.l0 \in SUBSET Nat /\ m.deep \in SUBSET Nat
      BY <1>1, Fields
    <2> HIDE DEF a, last
    <2>5. s \in ManifestStates
      BY <2>2, <2>3, <2>4 DEF ManifestState, ManifestStates
    <2> HIDE DEF s
    <2>6. e \in Edits
      BY <2>4, <2>5 DEF Edits
    <2> HIDE DEF e
    <2>7. e # None
      BY <2>6, Fields
    <2> QED
      BY <2>1, <2>7
  <1>3. /\ DOMAIN a.new \in SUBSET Nat /\ \A k \in DOMAIN a.new : m.next < k
        /\ \A k \in DOMAIN a.new : \A r \in a.new[k] :
             \E n \in DOMAIN logs : n >= m.log /\ r \in LogRecords(n, Len(logs[n].recs))
    <2> HIDE DEF a
    <2> QED
      BY <1>1, Recovered DEF a
  <1> HIDE DEF a
  <1>4. /\ \A k \in DOMAIN a.new : a.new[k] \in SUBSET Records
        /\ \A k \in DOMAIN a.new : \A r \in a.new[k] : InLogs(logs, m.log, r)
    <2>1. \A k \in DOMAIN a.new : a.new[k] \in SUBSET Records
      BY <1>3, LogsHold
    <2>2. SUFFICES ASSUME NEW k \in DOMAIN a.new, NEW r \in a.new[k] PROVE InLogs(logs, m.log, r)
      BY <2>1
    <2>3. PICK n \in DOMAIN logs : n >= m.log /\ r \in LogRecords(n, Len(logs[n].recs))
      BY <1>3
    <2>4. \E i \in DOMAIN logs[n].recs : r = logs[n].recs[i]
      BY <2>3, LogsHold
    <2> QED
      BY <2>3, <2>4 DEF InLogs
  <1>5. /\ DOMAIN tables' = DOMAIN tables \cup N
        /\ \A n \in DOMAIN tables' : n \notin N => tables'[n] = tables[n]
        /\ \A n \in N : tables'[n] = a.new[n]
    BY <1>2 DEF WithTables
  <1>6. N \in SUBSET Nat
    BY <1>2, <1>3
  <1>7. \A n \in N : /\ m.next < n /\ tables'[n] \in SUBSET Records
                      /\ \A r \in tables'[n] : InLogs(logs, m.log, r)
    BY <1>2, <1>3, <1>4, <1>5
  <1> QED
    BY <1>0, <1>1, <1>2, <1>5, <1>6, <1>7

\* A store opens.
LEMMA CoreOpened ==
  ASSUME Types, Core, BoundInv, Open, edit' # None
  PROVE  Core'
  <1> DEFINE m == Last(manifests[current].recs)
  <1>0. /\ db = None /\ edit = None /\ current # 0 /\ current \in DOMAIN manifests
        /\ m \in ManifestStates /\ current < m.next
        /\ UNCHANGED <<manifests, current, db, bg, pinned, queue>>
    BY Opened
  <1>1. PICK a :
          /\ a = RecoverLogFiles(m)
          /\ edit' \in Edits /\ edit' # None /\ edit'.at = "append" /\ edit'.owner = "open"
          /\ edit'.manifest = m.next /\ edit'.state \in ManifestStates
          /\ edit'.state.log = a.next /\ edit'.state.next = a.next + 1
          /\ Files(edit'.state) = Files(m) \cup DOMAIN a.new
          /\ m.last <= edit'.state.last
          /\ \A r : InLogs(logs, m.log, r) => LastOf(r) <= edit'.state.last
          /\ Files(m) \subseteq DOMAIN tables
          /\ DOMAIN tables' = DOMAIN tables \cup DOMAIN a.new
          /\ \A n \in DOMAIN a.new : tables'[n] = a.new[n]
          /\ \A n \in DOMAIN tables \ DOMAIN a.new : tables'[n] = tables[n]
          /\ logs' = Put(logs, a.next, EmptyFile)
          /\ \A n \in DOMAIN logs : n < a.next
    BY Opened
  <1> HIDE DEF m
  <1>2. /\ a.next \in Nat /\ m.next < a.next /\ DOMAIN a.new \in SUBSET Nat
        /\ \A k \in DOMAIN a.new : \A r \in a.new[k] :
              \E n \in DOMAIN logs : n >= m.log /\ r \in LogRecords(n, Len(logs[n].recs))
    BY <1>0, <1>1, Recovered
  <1>3. \A k \in DOMAIN a.new : a.new[k] \in SUBSET Records
    BY <1>2, LogsHold
  <1>4. FileTypes'
    <2>1. \A n \in DOMAIN tables' : n \in Nat /\ tables'[n] \in SUBSET Records
      BY <1>1, <1>2, <1>3 DEF Core, FileTypes
    <2>2. FilesOf(logs', Records)
      BY <1>1, <1>2, FileChanges, FileSets DEF Core, FileTypes
    <2>3. DOMAIN logs' = DOMAIN logs \cup {a.next}
      BY <1>1 DEF Put
    <2>4. IsFiniteSet(DOMAIN logs')
      BY <2>3, FS_AddElement DEF Core, FileTypes
    <2> QED
      BY <1>0, <2>1, <2>2, <2>4 DEF Core, FileTypes
  <1>5. StoreTypes' /\ StoreInv' /\ EditInv'
    <2>1. StoreTypes'
      BY <1>0, <1>1 DEF Core, StoreTypes
    <2>2. StoreInv'
      BY <1>0, <1>1 DEF Core, StoreInv
    <2>3. EditInv'
      BY <1>1 DEF EditInv
    <2> QED
      BY <2>1, <2>2, <2>3
  <1>6. NumbersInv'
    <2>1. m.next \in Nat /\ m.next < a.next + 1 /\ a.next < a.next + 1
      BY <1>0, <1>2, Fields
    <2>2. DOMAIN logs' = DOMAIN logs \cup {a.next}
      BY <1>1 DEF Put
    <2>3. \A n \in DOMAIN logs' : n < a.next + 1
      <3>1. \A n \in DOMAIN logs : n \in Nat
        BY DEF Core, FileTypes, FilesOf
      <3> QED
        BY <1>1, <1>2, <2>2, <3>1
    <2>4. ManifestNumbers'
      BY <1>0 DEF Core, NumbersInv, ManifestNumbers
    <2>5. current' > 1 => manifests'[current'].synced > 0
      BY <1>0 DEF Core, NumbersInv
    <2> QED
      BY <1>0, <1>1, <2>1, <2>2, <2>3, <2>4, <2>5 DEF NumbersInv
  <1>7. TablesInv'
    <2>1. PossibleStates' = PossibleStates
      BY <1>0 DEF PossibleStates
    <2>2. pinned' = None /\ bg' = None
      BY <1>0 DEF Core, StoreInv
    <2>3. Files(edit'.state) \subseteq DOMAIN tables'
      BY <1>1
    <2>4. \A k \in PossibleStates' : Files(k) \subseteq DOMAIN tables'
      BY <1>1, <2>1 DEF Core, TablesInv
    <2> QED
      BY <1>0, <2>2, <2>3, <2>4 DEF TablesInv, Files
  <1> QED
    BY <1>4, <1>5, <1>6, <1>7 DEF Core

\* It opens, or it does not.
LEMMA CoreOpen ==
  ASSUME Types, Core, BoundInv, Open
  PROVE  Core'
  <1>1. CASE edit' # None
    BY <1>1, CoreOpened
  <1>2. CASE edit' = None
    <2>0. PICK m : m = Last(manifests[current].recs)
      OBVIOUS
    <2>1. /\ db = None /\ edit = None
          /\ UNCHANGED <<logs, manifests, current, db, bg, edit, pinned, queue, group, result, pc>>
      BY <1>2, <2>0, OpenFailed
    <2>2. PICK N \in SUBSET Nat :
              /\ DOMAIN tables' = DOMAIN tables \cup N
              /\ \A n \in DOMAIN tables' : n \notin N => tables'[n] = tables[n]
              /\ \A n \in N : m.next < n /\ tables'[n] \in SUBSET Records
      BY <1>2, <2>0, OpenFailed
    <2>3. FileTypes'
      BY <2>1, <2>2 DEF Core, FileTypes
    <2>4. StoreTypes' /\ StoreInv' /\ EditInv'
      BY <2>1 DEF Core, StoreTypes, StoreInv, EditInv
    <2>5. NumbersInv'
      BY <2>1 DEF Core, NumbersInv, ManifestNumbers, Files
    <2>6. TablesInv'
      <3>1. PossibleStates' = PossibleStates
        BY <2>1 DEF PossibleStates
      <3>2. DOMAIN tables \subseteq DOMAIN tables'
        BY <2>2
      <3> QED
        BY <2>1, <3>1, <3>2 DEF Core, TablesInv, StoreInv, Files
    <2> QED
      BY <2>3, <2>4, <2>5, <2>6 DEF Core
  <1> QED
    BY <1>1, <1>2

\* The store is open.
LEMMA CoreOpenDone ==
  ASSUME Core, OpenDone
  PROVE  /\ Core' /\ (\A k \in PossibleStates' : k = edit.state)
         /\ db' # None /\ Files(db') = Files(edit.state) /\ db'.log = edit.state.log
         /\ db'.last = edit.state.last /\ db'.mem = {} /\ db'.imm = None /\ db'.pending = {}
         /\ DOMAIN tables' \subseteq DOMAIN tables /\ \A n \in DOMAIN tables' : tables'[n] = tables[n]
         /\ \A n \in DOMAIN logs' : n \in DOMAIN logs /\ logs'[n] = logs[n]
         /\ db'.l0 = edit.state.l0 /\ db'.deep = edit.state.deep /\ ~db'.torn
         /\ db'.logfile = edit.state.log /\ db'.next = edit.state.next
         /\ Last(manifests'[current].recs) = edit.state
         /\ \A n \in DOMAIN tables : n \in Files(edit.state) => n \in DOMAIN tables'
         /\ \A n \in DOMAIN logs : n >= edit.state.log => n \in DOMAIN logs'
  <1>0. /\ edit # None /\ edit.owner = "open" /\ edit.at = "install" /\ edit' = None
        /\ UNCHANGED <<current, bg, pinned, queue>>
    BY DEF OpenDone, client
  <1>1. db = None /\ bg = None /\ pinned = None /\ queue = <<>> /\ edit \in Edits
    BY <1>0 DEF Core, StoreInv, StoreTypes
  <1> DEFINE m == edit.state
             d == [l0 |-> m.l0, deep |-> m.deep, log |-> m.log, logfile |-> m.log,
                   next |-> m.next, last |-> m.last, manifest |-> edit.manifest,
                   mem |-> {}, imm |-> None, pending |-> {}, bgError |-> FALSE,
                   scheduled |-> FALSE, shutting |-> FALSE, torn |-> FALSE]
  <1>2. m \in ManifestStates /\ edit.manifest \in Nat
    BY <1>1, Fields
  <1>3. d \in Stores
    <2>1. /\ m.l0 \in SUBSET Nat /\ m.deep \in SUBSET Nat /\ m.log \in Nat /\ m.next \in Nat /\ m.last \in Nat
      BY <1>2, Fields
    <2> HIDE DEF m
    <2> QED
      BY <1>2, <2>1 DEF Stores
  <1>4. DeleteObsoleteFiles(d) /\ db' = Scheduled(d)
    BY DEF OpenDone
  <1>5. /\ d.l0 = m.l0 /\ d.deep = m.deep /\ d.log = m.log /\ d.logfile = m.log /\ d.next = m.next
        /\ d.manifest = edit.manifest /\ d.shutting = FALSE
        /\ d.last = m.last /\ d.mem = {} /\ d.imm = None /\ d.pending = {} /\ ~d.torn
    OBVIOUS
  <1> HIDE DEF d
  <1>6. SameButCall(d, db')
    BY <1>3, <1>4, Calls
  <1>7. /\ db' \in Stores /\ db' # None /\ Files(db') = Files(m) /\ db'.log = m.log /\ db'.logfile = m.log
        /\ db'.next = m.next /\ db'.manifest = edit.manifest /\ ~db'.shutting
        /\ db'.last = m.last /\ db'.mem = {} /\ db'.imm = None /\ db'.pending = {}
        /\ db'.l0 = m.l0 /\ db'.deep = m.deep /\ Files(d) = Files(m) /\ ~db'.torn
    BY <1>5, <1>6, Fields DEF SameButCall, Files
  <1>8. /\ edit.manifest \in DOMAIN manifests /\ manifests[edit.manifest].recs # <<>>
        /\ Last(manifests[edit.manifest].recs) = m
        /\ manifests[edit.manifest].synced = Len(manifests[edit.manifest].recs)
    BY <1>0 DEF Core, EditInv
  <1>9. /\ edit.manifest < m.next /\ m.log < m.next /\ m.log \in DOMAIN logs
        /\ \A n \in DOMAIN logs : n < m.next
        /\ current = edit.manifest /\ 1 < current /\ manifests[current].synced > 0
    BY <1>0, <1>2 DEF Core, NumbersInv, StoreTypes
  <1>f. /\ FileTypes'
        /\ \A n \in DOMAIN tables : n \in Files(d) => n \in DOMAIN tables'
        /\ DOMAIN tables' \subseteq DOMAIN tables /\ \A n \in DOMAIN tables' : tables'[n] = tables[n]
        /\ DOMAIN logs' \subseteq DOMAIN logs /\ \A n \in DOMAIN logs' : logs'[n] = logs[n]
        /\ \A n \in DOMAIN logs : n >= d.log => n \in DOMAIN logs'
        /\ DOMAIN manifests' \subseteq DOMAIN manifests
        /\ \A n \in DOMAIN manifests' : manifests'[n] = manifests[n]
        /\ \A n \in DOMAIN manifests : n >= d.manifest => n \in DOMAIN manifests'
    BY <1>3, <1>4, FilesCollected DEF Core
  <1>10. /\ current \in DOMAIN manifests' /\ manifests'[current] = manifests[current]
         /\ m.log \in DOMAIN logs' /\ m.log \in Nat
    BY <1>2, <1>5, <1>8, <1>9, <1>f, Fields
  <1>11. StoreTypes' /\ StoreInv' /\ EditInv'
    BY <1>0, <1>1, <1>7 DEF Core, StoreTypes, StoreInv, EditInv
  <1>12. NumbersInv'
    <2>1. ManifestNumbers'
      BY <1>f DEF Core, NumbersInv, ManifestNumbers
    <2> QED
      BY <1>0, <1>2, <1>7, <1>9, <1>10, <1>f, <2>1 DEF NumbersInv
  <1>14. \A k \in PossibleStates' : k = m
    <2> SUFFICES ASSUME NEW k \in PossibleStates' PROVE k = m
      OBVIOUS
    <2>1. PICK i \in DOMAIN manifests[current].recs :
            i >= manifests[current].synced /\ k = manifests[current].recs[i]
      BY <1>0, <1>9, <1>10 DEF PossibleStates
    <2>2. manifests[current].recs \in Seq(ManifestStates)
      BY <1>8, <1>9 DEF Core, FileTypes, FilesOf, File
    <2>3. i = Len(manifests[current].recs)
      BY <1>8, <1>9, <2>1, <2>2
    <2> QED
      BY <1>8, <1>9, <2>1, <2>3 DEF Last
  <1>13. TablesInv'
    <2>2. Files(m) \subseteq DOMAIN tables /\ Files(d) = Files(m)
      BY <1>0, <1>5 DEF Core, TablesInv, Files
    <2>3. Files(m) \subseteq DOMAIN tables'
      BY <1>f, <2>2
    <2>4. Files(db') \subseteq DOMAIN tables' /\ Files(db)' = Files(db')
      BY <1>7, <2>3 DEF Files
    <2>5. \A k \in PossibleStates' : Files(k) \subseteq DOMAIN tables'
      BY <1>14, <2>3
    <2> HIDE DEF m
    <2> QED
      BY <1>0, <1>1, <2>4, <2>5 DEF TablesInv
  <1> QED
    BY <1>5, <1>7, <1>8, <1>9, <1>10, <1>11, <1>12, <1>13, <1>14, <1>f DEF Core

\* The process ends, and perhaps power is lost.
LEMMA CoreGone ==
  ASSUME Core, Closed \/ ProcessCrash \/ PowerLoss
  PROVE  /\ Core' /\ (\A m \in PossibleStates' : m \in PossibleStates)
         /\ db' = None /\ edit' = None /\ UNCHANGED tables
         /\ \A k, r : InLogs(logs', k, r) => InLogs(logs, k, r)
  <1>0. /\ db' = None /\ bg' = None /\ edit' = None /\ pinned' = None /\ queue' = <<>>
        /\ UNCHANGED <<current, tables>>
    <2>1. CASE Closed
      <3>1. db # None /\ db.shutting /\ ~db.scheduled /\ db' = None
            /\ UNCHANGED <<current, tables, bg, edit, pinned, queue>>
        BY <2>1 DEF Closed, disk, client
      <3>2. bg = None /\ edit = None /\ pinned = None /\ queue = <<>>
        BY <3>1, StoreFacts
      <3> QED
        BY <3>1, <3>2
    <2>2. CASE ProcessCrash \/ PowerLoss
      BY <2>2 DEF ProcessCrash, PowerLoss, ProcessGone
    <2> QED
      BY <2>1, <2>2
  <1>1. \/ UNCHANGED <<logs, manifests>>
        \/ (\E N : logs' \in Truncations(Without(logs, N))) /\ manifests' \in Truncations(manifests)
    BY DEF Closed, ProcessCrash, PowerLoss, disk
  <1>2. FileTypes' /\ DOMAIN logs' \subseteq DOMAIN logs /\ DOMAIN manifests' = DOMAIN manifests
    <2>1. FilesOf(logs', Records) /\ DOMAIN logs' \subseteq DOMAIN logs
      <3>1. CASE UNCHANGED logs
        BY <3>1 DEF Core, FileTypes
      <3>2. ASSUME NEW N, logs' \in Truncations(Without(logs, N))
            PROVE  FilesOf(logs', Records) /\ DOMAIN logs' \subseteq DOMAIN logs
        <4>1. FilesOf(logs, Records)
          BY DEF Core, FileTypes
        <4>2. FilesOf(logs', Records) /\ DOMAIN logs' = DOMAIN logs \ N
          BY <3>2, <4>1, TruncatedOrGone
        <4> QED
          BY <4>2
      <3> QED
        BY <1>1, <3>1, <3>2
    <2>2. FilesOf(manifests', ManifestStates) /\ DOMAIN manifests' = DOMAIN manifests
      BY <1>1, Truncated DEF Core, FileTypes
    <2>3. IsFiniteSet(DOMAIN logs')
      BY <2>1, FS_Subset DEF Core, FileTypes
    <2> QED
      BY <1>0, <2>1, <2>2, <2>3 DEF Core, FileTypes
  <1>3. \A n \in DOMAIN manifests : \A i \in DOMAIN manifests'[n].recs :
          i \in DOMAIN manifests[n].recs /\ manifests'[n].recs[i] = manifests[n].recs[i]
    BY <1>1, Truncated DEF Core, FileTypes
  <1>4. \A n \in DOMAIN manifests : manifests[n].synced > 0 => manifests'[n].synced > 0
    <2>1. \A n \in DOMAIN manifests : manifests[n].synced \in Nat
      BY DEF Core, FileTypes, FilesOf, File
    <2>2. \A n \in DOMAIN manifests' : manifests'[n].synced \in Nat
      BY <1>2 DEF FileTypes, FilesOf, File
    <2>3. \A n \in DOMAIN manifests : manifests[n].synced <= manifests'[n].synced
      BY <1>1, <2>1, Truncated DEF Core, FileTypes
    <2> QED
      BY <1>2, <2>1, <2>2, <2>3
  <1>5. \A m \in PossibleStates' : m \in PossibleStates
    <2> SUFFICES ASSUME NEW m \in PossibleStates' PROVE m \in PossibleStates
      OBVIOUS
    <2>1. CASE UNCHANGED manifests
      BY <1>0, <2>1 DEF PossibleStates
    <2>2. CASE manifests' \in Truncations(manifests)
      <3>1. current # 0 /\ current \in DOMAIN manifests
        BY <1>0 DEF Core, NumbersInv, PossibleStates
      <3> DEFINE f == manifests[current]
                 g == manifests'[current]
      <3>2. PICK i \in DOMAIN g.recs : i >= g.synced /\ m = g.recs[i]
        BY <1>0, <3>1 DEF PossibleStates
      <3>3. File(f, ManifestStates) /\ File(g, ManifestStates)
        BY <1>2, <3>1 DEF Core, FileTypes, FilesOf
      <3>4. f.synced <= Len(g.recs) /\ g.synced = Len(g.recs)
        BY <2>2, <3>1, Truncated DEF Core, FileTypes
      <3>5. i \in DOMAIN f.recs /\ m = f.recs[i]
        BY <1>3, <3>1, <3>2
      <3> HIDE DEF f, g
      <3>6. i >= f.synced
        BY <3>2, <3>3, <3>4 DEF File
      <3> QED
        BY <3>1, <3>5, <3>6 DEF PossibleStates, f
    <2> QED
      BY <1>1, <2>1, <2>2
  <1>6. StoreTypes' /\ StoreInv' /\ EditInv'
    BY <1>0 DEF Core, StoreTypes, StoreInv, EditInv
  <1>7. NumbersInv'
    <2>1. ManifestNumbers'
      BY <1>2, <1>3 DEF Core, NumbersInv, ManifestNumbers
    <2>2. current' = 0 => /\ DOMAIN logs' = {}
                          /\ \A n \in DOMAIN manifests' : \A i \in DOMAIN manifests'[n].recs :
                               Files(manifests'[n].recs[i]) = {}
      BY <1>0, <1>2, <1>3 DEF Core, NumbersInv
    <2>3. /\ current' # 0 => current' \in DOMAIN manifests'
          /\ current' > 1 => manifests'[current'].synced > 0
      <3>1. current \in Nat /\ (current > 1 => current # 0)
        BY DEF Core, StoreTypes
      <3>2. current # 0 => current \in DOMAIN manifests
        BY DEF Core, NumbersInv
      <3>3. current > 1 => manifests[current].synced > 0
        BY DEF Core, NumbersInv
      <3> QED
        BY <1>0, <1>2, <1>4, <3>1, <3>2, <3>3
    <2> QED
      BY <1>0, <2>1, <2>2, <2>3 DEF NumbersInv, Files
  <1>8. TablesInv'
    BY <1>0, <1>5 DEF Core, TablesInv, Files
  <1>9. \A k, r : InLogs(logs', k, r) => InLogs(logs, k, r)
    <2>1. FilesOf(logs, Records)
      BY DEF Core, FileTypes
    <2> QED
      BY <1>1, <2>1, LogsMove
  <1> QED
    BY <1>0, <1>2, <1>5, <1>6, <1>7, <1>8, <1>9 DEF Core

\* The rest of the calls.
LEMMA CoreCalls ==
  ASSUME Core, (\E t \in Threads : Enqueue(t)) \/ NewIterator \/ DeleteIterator \/ Close
  PROVE  Core'
  <1>1. ASSUME NEW t \in Threads, Enqueue(t) PROVE Core'
    <2>1. db # None /\ ~db.shutting /\ UNCHANGED <<disk, db, bg, edit, pinned>>
      BY <1>1 DEF Enqueue
    <2> QED
      BY <2>1, StoreFacts, QuietSteps
  <1>2. CASE NewIterator
    <2>1. db # None /\ ~db.shutting /\ pinned' = Files(db) /\ UNCHANGED <<disk, db, bg, edit>>
      BY <1>2 DEF NewIterator
    <2> QED
      BY <2>1, StoreFacts, QuietSteps
  <1>3. CASE DeleteIterator
    <2>1. db # None /\ pinned' = None /\ UNCHANGED <<disk, db, bg, edit, queue>>
      BY <1>3 DEF DeleteIterator, Core, StoreInv, client
    <2> QED
      BY <2>1, StoreFacts, QuietSteps
  <1>4. CASE Close
    <2>1. /\ db # None /\ queue' = <<>> /\ pinned' = None /\ db' = [db EXCEPT !.shutting = TRUE]
          /\ UNCHANGED <<logs, tables, manifests, current, bg, edit>>
      BY <1>4 DEF Close, disk, client
    <2>2. db \in Stores /\ db.next \in Nat /\ db.logfile \in Nat
      BY <2>1, StoreFacts
    <2>3. /\ db' \in Stores /\ db'.next = db.next /\ db'.logfile = db.logfile /\ db'.pending = db.pending
          /\ db'.scheduled = db.scheduled
          /\ db'.l0 = db.l0 /\ db'.deep = db.deep /\ db'.log = db.log /\ db'.manifest = db.manifest
      BY <2>1, <2>2 DEF Stores
    <2>4. db.next <= db'.next /\ db.logfile <= db'.logfile
      BY <2>2, <2>3
    <2> QED
      BY <2>1, <2>3, <2>4, StoreFacts, LogSteps
  <1> QED
    BY <1>1, <1>2, <1>3, <1>4

\* Whatever happens, files are in order.
LEMMA NextCore ==
  ASSUME Core, BaseInv, BoundInv, ThreadTypes, QueueInv, [Next]_vars
  PROVE  Core'
  <1>0. Types
    BY DEF Core, Types
  <1>1. CASE UNCHANGED vars
    <2>1. UNCHANGED <<logs, tables, manifests, current, db, bg, edit, pinned, queue>>
      BY <1>1 DEF vars, disk, client
    <2> QED
      BY <2>1 DEF Core, FileTypes, StoreTypes, StoreInv, NumbersInv, ManifestNumbers, EditInv, TablesInv,
                  PossibleStates, Files
  <1>2. CASE NewDB \/ Open \/ OpenDone
    BY <1>0, <1>2, CoreNewDB, CoreOpen, CoreOpenDone
  <1>3. CASE AppendManifest \/ SyncManifest \/ SetCurrentFile \/ EditFails
    BY <1>3, CoreAppend, CoreSync, CoreNamed, CoreFails
  <1>4. CASE CompactMemTable \/ StartCompaction \/ MoveTable
    BY <1>4, CoreMemTable, CoreStart, CoreMove
  <1>5. CASE MemTableInstalled \/ FinishCompaction \/ CompactionInstalled \/ MoveInstalled \/ NothingToDo
    BY <1>5, CoreFinish, CoreInstalled
  <1>6. CASE Closed \/ ProcessCrash \/ PowerLoss
    BY <1>6, CoreGone
  <1>7. ASSUME NEW t \in Threads, Writing(t) PROVE Core'
    BY <1>7, CoreWriting
  <1>8. ASSUME NEW t \in Threads, Enqueue(t) PROVE Core'
    BY <1>8, CoreCalls
  <1>9. CASE NewIterator \/ DeleteIterator \/ Close
    BY <1>9, CoreCalls
  <1> QED
    BY <1>1, <1>2, <1>3, <1>4, <1>5, <1>6, <1>7, <1>8, <1>9 DEF Next, LogAndApply, BackgroundCall


\* An error does not go away, and a step that leaves the tables of the store and of its
\* manifest alone keeps them equal.
LEMMA BaseKept ==
  ASSUME Core, BaseInv, db # None, current' = current, manifests' = manifests,
         db' # None => /\ db'.l0 = db.l0 /\ db'.deep = db.deep
                       /\ db.bgError => db'.bgError
                       /\ db'.bgError \/ edit' = edit \/ (edit = None /\ edit'.at = "append")
  PROVE  BaseInv'
  BY DEF BaseInv

\* An edit that is installed has the tables the manifest has.
LEMMA BaseInstalled ==
  ASSUME Core, Core', BaseInv, MemTableInstalled \/ CompactionInstalled \/ MoveInstalled
  PROVE  BaseInv'
  <1> DEFINE e == [db EXCEPT !.l0 = edit.state.l0, !.deep = edit.state.deep, !.log = edit.state.log]
  <1>0. /\ edit # None /\ edit.owner # "open" /\ edit.at = "install" /\ edit' = None
        /\ current' = current
    BY DEF MemTableInstalled, CompactionInstalled, MoveInstalled, disk
  <1>1. db # None /\ db \in Stores /\ edit.state \in ManifestStates /\ db.pending \in SUBSET Nat
    BY <1>0, Fields DEF Core, StoreInv, StoreTypes
  <1>2. /\ edit.state.l0 \in SUBSET Nat /\ edit.state.deep \in SUBSET Nat /\ edit.state.log \in Nat
    BY <1>1, Fields
  <1>3. e \in Stores /\ e.l0 = edit.state.l0 /\ e.deep = edit.state.deep /\ e.bgError = db.bgError
        /\ e.manifest = db.manifest /\ e.pending = db.pending
    BY <1>1, <1>2 DEF Stores
  <1>4. Installed(db) = e
    BY DEF Installed
  <1> HIDE DEF e
  <1>5. PICK d \in Stores : /\ DeleteObsoleteFiles(d) \/ UNCHANGED <<logs, tables, manifests>>
                            /\ db' \in {d, CallEnded(d)} /\ d.l0 = e.l0
                            /\ d.deep = e.deep /\ d.bgError = e.bgError /\ d.manifest = e.manifest
    <2>1. CASE MemTableInstalled
      <3> DEFINE d == [e EXCEPT !.imm = None]
      <3>1. /\ d \in Stores /\ d.l0 = e.l0 /\ d.deep = e.deep /\ d.bgError = e.bgError
            /\ d.manifest = e.manifest
        BY <1>3 DEF Stores
      <3>2. DeleteObsoleteFiles(d) /\ db' \in {d, CallEnded(d)}
        BY <1>4, <2>1 DEF MemTableInstalled
      <3> HIDE DEF d
      <3> QED
        BY <3>1, <3>2
    <2>2. CASE CompactionInstalled
      <3> DEFINE P == e.pending \ {bg.out}
                 d == [e EXCEPT !.pending = P]
      <3>1. P \in SUBSET Nat
        BY <1>1, <1>3
      <3>2. DeleteObsoleteFiles(d) /\ db' \in {d, CallEnded(d)}
        BY <1>4, <2>2 DEF CompactionInstalled
      <3> HIDE DEF P
      <3>3. /\ d \in Stores /\ d.l0 = e.l0 /\ d.deep = e.deep /\ d.bgError = e.bgError
            /\ d.manifest = e.manifest
        BY <1>3, <3>1 DEF Stores
      <3> HIDE DEF d
      <3> QED
        BY <3>2, <3>3
    <2>3. CASE MoveInstalled
      BY <1>3, <1>4, <2>3 DEF MoveInstalled, disk
    <2> QED
      BY <2>1, <2>2, <2>3
  <1>6. /\ \A n \in DOMAIN manifests' : manifests'[n] = manifests[n]
        /\ \A n \in DOMAIN manifests : n >= d.manifest => n \in DOMAIN manifests'
    BY <1>5, FilesCollected DEF Core
  <1>7. current = db.manifest /\ current \in DOMAIN manifests /\ db.manifest \in Nat
    BY <1>1, Fields DEF Core, NumbersInv
  <1>8. manifests'[current] = manifests[current]
    BY <1>3, <1>5, <1>6, <1>7
  <1>9. SameButCall(d, CallEnded(d)) /\ CallEnded(d).bgError = d.bgError
    BY <1>5, Calls
  <1>10. db'.l0 = edit.state.l0 /\ db'.deep = edit.state.deep /\ db'.bgError = db.bgError
    BY <1>3, <1>5, <1>9 DEF SameButCall
  <1> QED
    BY <1>0, <1>1, <1>8, <1>10 DEF BaseInv

\* An edit that is appended brings the manifest what it will bring the store.
LEMMA BaseAppended ==
  ASSUME Core, BaseInv, AppendManifest
  PROVE  BaseInv'
  <1>0. edit # None /\ edit \in Edits /\ edit.at = "append" /\ UNCHANGED <<db, current>> /\ edit' = [edit EXCEPT !.at = "sync"]
    BY DEF AppendManifest, Core, StoreTypes
  <1>1. edit' # None /\ edit'.at = "sync" /\ edit'.state = edit.state
    <2>1. edit' \in Edits /\ edit'.at = "sync" /\ edit'.state = edit.state
      BY <1>0 DEF Edits
    <2> QED
      BY <2>1, Fields
  <1>2. SUFFICES ASSUME db # None, ~db.bgError
                 PROVE  /\ Last(manifests'[current].recs).l0 = edit.state.l0
                        /\ Last(manifests'[current].recs).deep = edit.state.deep
    BY <1>0, <1>1 DEF BaseInv
  <1>3. edit.owner # "open"
    BY <1>0, <1>2 DEF Core, StoreInv
  <1> DEFINE m == Last(manifests[current].recs)
  <1>4. m.l0 = db.l0 /\ m.deep = db.deep
    BY <1>0, <1>2 DEF BaseInv
  <1>5. /\ Applied(m).l0 = (m.l0 \ (db.l0 \ edit.state.l0)) \cup (edit.state.l0 \ db.l0)
        /\ Applied(m).deep = (m.deep \ (db.deep \ edit.state.deep)) \cup (edit.state.deep \ db.deep)
    BY <1>0, <1>3, AppliedState
  <1>6. Last(manifests'[current].recs) = Applied(m)
    BY <1>3, CoreAppend
  <1> HIDE DEF m
  <1>7. Applied(m).l0 = edit.state.l0
    BY <1>4, <1>5
  <1>8. Applied(m).deep = edit.state.deep
    BY <1>4, <1>5
  <1> QED
    BY <1>6, <1>7, <1>8

\* A store that opens has the tables of its manifest.
LEMMA BaseOpened ==
  ASSUME Core, OpenDone
  PROVE  BaseInv'
  <1>1. edit' = None /\ db' # None /\ current' = current
    BY CoreOpenDone DEF OpenDone
  <1>2. /\ Last(manifests'[current].recs) = edit.state
        /\ db'.l0 = edit.state.l0 /\ db'.deep = edit.state.deep
    BY CoreOpenDone
  <1> QED
    BY <1>1, <1>2 DEF BaseInv

\* Two states of the store that have the same files.
FilesAs(c, d) ==
  /\ d.l0 = c.l0 /\ d.deep = c.deep /\ d.log = c.log /\ d.manifest = c.manifest
  /\ d.pending = c.pending /\ d.shutting = c.shutting /\ d.next = c.next
  /\ c.bgError => d.bgError

\* A thread in Write does not touch what the background thread works on.
LEMMA WritingKeeps ==
  ASSUME Core, ThreadTypes, QueueInv, NEW t \in Threads, Writing(t)
  PROVE  /\ db # None /\ db' # None /\ db' \in Stores /\ UNCHANGED <<tables, manifests, current, bg, edit, pinned>>
         /\ db'.l0 = db.l0 /\ db'.deep = db.deep /\ db'.log = db.log /\ db'.manifest = db.manifest
         /\ db'.pending = db.pending /\ db'.shutting = db.shutting
         /\ db.bgError => db'.bgError
         /\ db.next <= db'.next /\ db.last <= db'.last
  <1>0. db # None /\ db \in Stores /\ db.next \in Nat /\ db.last \in Nat
    BY WritersHaveStore, Fields DEF Core, Types, StoreTypes
  <1>1. UNCHANGED <<tables, manifests, current, bg, edit, pinned>>
    BY DEF Writing, WriteInRoom, FailAfterError, WaitForRoom, SwitchMemTable, AddRecord, SyncLog, InsertInto, disk
  <1> SUFFICES /\ db' \in Stores /\ db'.l0 = db.l0 /\ db'.deep = db.deep /\ db'.log = db.log
               /\ db'.manifest = db.manifest /\ db'.pending = db.pending /\ db'.shutting = db.shutting
               /\ db.bgError => db'.bgError
               /\ db.next <= db'.next /\ db.last <= db'.last
    BY <1>0, <1>1, Fields
  <1>2. CASE db' = db
    BY <1>0, <1>2
  <1>3. CASE SwitchMemTable(t) /\ db' # db
    <2>1. db' = Scheduled(Switch(db)) /\ ~db.bgError
      BY <1>3 DEF SwitchMemTable, Switch
    <2>2. /\ db' \in Stores /\ db'.l0 = db.l0 /\ db'.deep = db.deep /\ db'.log = db.log
          /\ db'.manifest = db.manifest /\ db'.pending = db.pending /\ db'.shutting = db.shutting
          /\ db'.next = db.next + 1 /\ db'.last = db.last
      BY <1>0, <2>1, Switched
    <2> QED
      BY <1>0, <2>1, <2>2
  <1>4. CASE SyncLog(t) \/ InsertInto(t)
    <2>1. Cardinality(group.record.batches) \in Nat /\ group.record \in Records
      BY <1>4, RecordSize DEF SyncLog, InsertInto, QueueInv, ThreadTypes, Groups, Busy
    <2> DEFINE n == db.last + Cardinality(group.record.batches)
               M == db.mem \cup {group.record}
    <2>2. n \in Nat /\ M \in SUBSET Records
      BY <1>0, <2>1, Fields
    <2>3. db' = db \/ db' = [[db EXCEPT !.last = n] EXCEPT !.bgError = TRUE]
            \/ db' = [[db EXCEPT !.mem = M] EXCEPT !.last = n]
      <3>1. [db EXCEPT !.mem = M].last = db.last /\ [db EXCEPT !.mem = M] \in Stores
        BY <1>0, <2>2 DEF Stores
      <3> QED
        BY <1>0, <1>4, <3>1 DEF SyncLog, InsertInto, WithError, WithSequence
    <2> HIDE DEF n, M
    <2>4. \A c \in Stores :
            /\ [c EXCEPT !.last = n] \in Stores /\ FilesAs(c, [c EXCEPT !.last = n])
            /\ [c EXCEPT !.mem = M] \in Stores /\ FilesAs(c, [c EXCEPT !.mem = M])
            /\ [c EXCEPT !.bgError = TRUE] \in Stores /\ FilesAs(c, [c EXCEPT !.bgError = TRUE])
            /\ [c EXCEPT !.last = n].last = n /\ [c EXCEPT !.bgError = TRUE].last = c.last
      BY <2>2 DEF Stores, FilesAs
    <2>5. /\ db' \in Stores /\ (db' = db \/ \E c \in Stores : FilesAs(db, c) /\ FilesAs(c, db'))
          /\ db'.last \in {db.last, n}
      BY <1>0, <2>3, <2>4
    <2>6. db.last <= n
      BY <1>0, <2>1 DEF n
    <2> QED
      BY <1>0, <2>5, <2>6 DEF FilesAs
  <1>5. CASE AddRecord(t) /\ db' # db
    <2>1. group.record \in Records
      BY <1>5 DEF AddRecord, QueueInv, ThreadTypes, Groups, Busy
    <2>2. db' = WithSequence([db EXCEPT !.torn = TRUE])
      BY <1>5 DEF AddRecord
    <2> DEFINE d == [db EXCEPT !.torn = TRUE]
    <2>3. /\ d \in Stores /\ d.next = db.next /\ d.pending = db.pending /\ d.last = db.last
          /\ d.l0 = db.l0 /\ d.deep = db.deep /\ d.log = db.log /\ d.manifest = db.manifest
          /\ d.shutting = db.shutting /\ d.bgError = db.bgError
      BY <1>0, Torn
    <2>4. db' = WithSequence(d)
      BY <2>2
    <2> HIDE DEF d
    <2>5. /\ db' \in Stores /\ db'.next = db.next /\ db'.pending = db.pending
          /\ db'.l0 = db.l0 /\ db'.deep = db.deep /\ db'.log = db.log /\ db'.manifest = db.manifest
          /\ db'.shutting = db.shutting /\ db'.bgError = db.bgError
          /\ db'.last = db.last + Cardinality(group.record.batches)
      BY <2>1, <2>3, <2>4, Sequenced
    <2>6. Cardinality(group.record.batches) \in Nat
      BY <2>1, RecordSize
    <2> QED
      BY <1>0, <2>5, <2>6
  <1> QED
    BY <1>2, <1>3, <1>4, <1>5 DEF Writing, WriteInRoom, FailAfterError, WaitForRoom

\* A merge ends or is given up, an edit fails: the store has its tables, and has failed.
LEMMA EndsKeep ==
  ASSUME Core, FinishCompaction \/ NothingToDo \/ (EditFails /\ edit.owner # "open")
  PROVE  /\ db # None /\ db' # None /\ db' \in Stores /\ UNCHANGED <<logs, tables, manifests, current, pinned, queue, group>>
         /\ db'.l0 = db.l0 /\ db'.deep = db.deep /\ db'.log = db.log /\ db'.manifest = db.manifest
         /\ db'.pending \subseteq db.pending /\ db'.shutting = db.shutting
         /\ db'.mem = db.mem /\ db'.imm = db.imm /\ db'.logfile = db.logfile /\ db'.next = db.next
         /\ db'.last = db.last
         /\ db.bgError => db'.bgError
         /\ bg' = bg \/ bg' = None
         /\ \/ db'.bgError /\ edit' = None /\ (bg' = bg => edit # None /\ edit.owner # "compaction")
            \/ NothingToDo /\ edit' = edit /\ db'.bgError = db.bgError
            \/ /\ bg # None /\ bg' = bg /\ db' = db /\ edit = None /\ Begun(edit', db) /\ edit'.owner = "compaction"
               /\ edit'.state.l0 = db.l0 \ bg.level0 /\ edit'.state.log = db.log
               /\ edit'.state.deep = (db.deep \ bg.below) \cup {bg.out}
  <1>0. db # None /\ db \in Stores /\ db.pending \in SUBSET Nat
    <2>1. bg # None => db # None
      BY DEF Core, StoreInv
    <2>2. db # None
      BY <2>1 DEF FinishCompaction, NothingToDo, BackgroundIdle, EditFails, Core, StoreInv
    <2> QED
      BY <2>2, StoreFacts, Fields
  <1> DEFINE P == db.pending \ {bg.out}
             e == [db EXCEPT !.pending = P]
  <1>1. P \in SUBSET Nat
    BY <1>0
  <1>2. /\ e \in Stores /\ e.pending \subseteq db.pending /\ e.l0 = db.l0 /\ e.deep = db.deep /\ e.log = db.log
        /\ e.manifest = db.manifest /\ e.shutting = db.shutting /\ e.mem = db.mem /\ e.imm = db.imm
        /\ e.logfile = db.logfile /\ e.next = db.next /\ e.last = db.last
    <2>1. P \subseteq db.pending
      OBVIOUS
    <2> HIDE DEF P
    <2> QED
      BY <1>0, <1>1, <2>1, PendingChanges DEF Stores
  <1>3. ASSUME NEW c \in Stores, NEW d, d = WithError(c)
        PROVE  /\ d \in Stores /\ SameButCall(c, d) /\ d.bgError
               /\ SameButCall(c, CallEnded(d)) /\ CallEnded(d).bgError
    <2>1. d \in Stores /\ SameButCall(c, d) /\ d.bgError
      BY <1>3, Calls DEF SameButCall
    <2>2. SameButCall(d, CallEnded(d)) /\ CallEnded(d).bgError
      BY <2>1, Calls
    <2> QED
      BY <2>1, <2>2 DEF SameButCall
  <1>4. ASSUME NEW c \in {db, e}, NEW d, d = WithError(c), db' \in {d, CallEnded(d)}
        PROVE  /\ db' # None /\ db' \in Stores /\ db'.bgError
               /\ db'.l0 = db.l0 /\ db'.deep = db.deep /\ db'.log = db.log /\ db'.manifest = db.manifest
               /\ db'.pending \subseteq db.pending /\ db'.shutting = db.shutting
               /\ db'.mem = db.mem /\ db'.imm = db.imm /\ db'.logfile = db.logfile /\ db'.next = db.next
               /\ db'.last = db.last
    <2> HIDE DEF e
    <2>1. SameButCall(c, db') /\ db'.bgError
      BY <1>0, <1>2, <1>3, <1>4
    <2> QED
      BY <1>0, <1>2, <1>4, <2>1, Fields DEF SameButCall
  <1>5. CASE NothingToDo
    <2>1. db' = CallEnded(db) /\ UNCHANGED <<disk, bg, edit, pinned, queue, group>>
      BY <1>5 DEF NothingToDo
    <2>2. SameButCall(db, db') /\ db'.bgError = db.bgError
      BY <1>0, <2>1, Calls
    <2> QED
      BY <1>0, <1>5, <2>1, <2>2, Fields DEF SameButCall, disk
  <1>6. CASE FinishCompaction
    <2> DEFINE d == WithError(e)
               v == [l0 |-> db.l0 \ bg.level0, deep |-> (db.deep \ bg.below) \cup {bg.out}]
    <2>1. /\ \/ db' = CallEnded(d) /\ bg' = None /\ edit' = edit
             \/ BeginEdit(db, v, db.log, "compaction") /\ UNCHANGED <<db, bg>>
          /\ bg # None /\ edit = None /\ UNCHANGED <<logs, tables, manifests, current, pinned, queue, group>>
      <3> HIDE DEF d, v, e
      <3> QED
        BY <1>6 DEF FinishCompaction, d, v, e, disk
    <2>2. CASE db' = CallEnded(d) /\ bg' = None /\ edit' = edit
      <3> HIDE DEF e, d
      <3>1. e \in {db, e} /\ d = WithError(e) /\ db' \in {d, CallEnded(d)}
        BY <2>2 DEF d
      <3> QED
        BY <1>0, <1>4, <2>1, <2>2, <3>1
    <2>3. CASE BeginEdit(db, v, db.log, "compaction") /\ UNCHANGED <<db, bg>>
      <3>1. bg \in Merges /\ bg.out \in Nat /\ db.log <= db.logfile /\ db.log \in Nat /\ db.log <= db.log
            /\ db.l0 \in SUBSET Nat /\ db.deep \in SUBSET Nat
        BY <1>0, <2>1, StoreFacts, Fields
      <3>2. /\ v.l0 \in SUBSET Nat /\ v.deep \in SUBSET Nat
            /\ v.l0 = db.l0 \ bg.level0 /\ v.deep = (db.deep \ bg.below) \cup {bg.out}
        BY <3>1
      <3> HIDE DEF v
      <3>3. /\ Begun(edit', db) /\ edit'.owner = "compaction" /\ edit'.state.log = db.log
            /\ edit'.state.l0 = v.l0 /\ edit'.state.deep = v.deep
        BY <1>0, <2>3, <3>1, <3>2, EditBegun
      <3> QED
        BY <1>0, <2>1, <2>3, <3>2, <3>3
    <2> QED
      BY <2>1, <2>2, <2>3
  <1>7. CASE EditFails /\ edit.owner # "open"
    <2> DEFINE c == IF edit.owner = "compaction" THEN e ELSE db
               d == WithError(c)
               ends == edit.owner = "compaction" \/ bg = None
    <2>1. /\ db' = IF ends THEN CallEnded(d) ELSE d
          /\ bg' = IF ends THEN None ELSE bg
          /\ IF edit.owner = "compaction" THEN DeleteObsoleteFiles(d)
             ELSE UNCHANGED <<logs, tables, manifests>>
          /\ edit # None /\ edit' = None /\ UNCHANGED <<current, pinned, queue, group>>
      <3> HIDE DEF d, ends, c, e
      <3> QED
        BY <1>7 DEF EditFails, d, ends, c, e
    <2>2. c \in {db, e}
      OBVIOUS
    <2>3. /\ bg' = bg \/ bg' = None
          /\ bg' = bg => edit.owner # "compaction" \/ bg = None
      BY <2>1
    <2>4. db' \in {d, CallEnded(d)}
      BY <2>1
    <2>5. edit.owner = "compaction" => bg # None
      BY <1>0, <2>1, StoreFacts
    <2> HIDE DEF c, d, e
    <2>6. d.bgError
      BY <1>0, <1>2, <1>3, <2>2 DEF d
    <2>7. UNCHANGED <<logs, tables, manifests>>
      BY <2>1, <2>6 DEF DeleteObsoleteFiles
    <2> QED
      BY <1>0, <1>4, <2>1, <2>2, <2>3, <2>4, <2>5, <2>7 DEF d
  <1> QED
    BY <1>5, <1>6, <1>7

\* The manifest has the tables of a store that has not failed.
LEMMA NextBase ==
  ASSUME Core, Core', BaseInv, ThreadTypes, QueueInv, [Next]_vars
  PROVE  BaseInv'
  <1>1. ASSUME db = None, db' = None PROVE BaseInv'
    BY <1>1 DEF BaseInv
  <1>2. CASE UNCHANGED vars
    BY <1>2 DEF vars, disk, BaseInv
  <1>3. CASE NewDB \/ Open
    BY <1>1, <1>3 DEF NewDB, Open
  <1>4. CASE OpenDone
    BY <1>4, BaseOpened
  <1>5. CASE AppendManifest
    BY <1>5, BaseAppended
  <1>6. CASE SyncManifest \/ SetCurrentFile
    <2>1. /\ UNCHANGED <<db, current>> \/ db' = None
          /\ db # None => edit # None /\ edit' # None /\ edit.at # "append" /\ edit'.at # "append" /\ edit'.state = edit.state
      <3>1. UNCHANGED <<db, current>> \/ db' = None
        BY <1>6 DEF SyncManifest, SetCurrentFile, Core, StoreInv
      <3>2. \E p \in {"current", "install"} : edit' = [edit EXCEPT !.at = p]
        BY <1>6 DEF SyncManifest, SetCurrentFile
      <3>3. edit # None /\ edit \in Edits /\ edit.at # "append"
        BY <1>6 DEF SyncManifest, SetCurrentFile, Core, StoreTypes
      <3>4. edit' \in Edits /\ edit'.at # "append" /\ edit'.state = edit.state
        BY <3>2, <3>3 DEF Edits
      <3> QED
        BY <3>1, <3>3, <3>4, Fields
    <2>2. db # None => Last(manifests'[current].recs) = Last(manifests[current].recs)
      BY <1>6, CoreSync DEF SetCurrentFile, Core, StoreInv
    <2> QED
      BY <2>1, <2>2 DEF BaseInv
  <1>7. CASE MemTableInstalled \/ CompactionInstalled \/ MoveInstalled
    BY <1>7, BaseInstalled
  <1>8. CASE EditFails /\ edit.owner = "open"
    BY <1>1, <1>8 DEF EditFails, Core, StoreInv
  <1>9. CASE FinishCompaction \/ NothingToDo \/ (EditFails /\ edit.owner # "open")
    <2>1. /\ db # None /\ UNCHANGED <<current, manifests>> /\ db'.l0 = db.l0 /\ db'.deep = db.deep
          /\ db.bgError => db'.bgError
          /\ db'.bgError \/ edit' = edit \/ (edit = None /\ edit'.at = "append")
      BY <1>9, EndsKeep DEF Begun
    <2> QED
      BY <2>1, BaseKept
  <1>10. CASE CompactMemTable
    <2>1. /\ db # None /\ UNCHANGED <<current, manifests>> /\ db'.l0 = db.l0 /\ db'.deep = db.deep
          /\ db.bgError => db'.bgError
          /\ edit' = edit \/ (edit = None /\ edit'.at = "append")
      BY <1>10, MemTableSteps DEF Begun
    <2> QED
      BY <2>1, BaseKept
  <1>11. CASE StartCompaction
    <2>1. db # None /\ db \in Stores /\ UNCHANGED <<current, manifests, edit>>
          /\ db' = [db EXCEPT !.next = @ + 1, !.pending = @ \cup {db.next}]
      BY <1>11, StoreFacts DEF StartCompaction, MayWork, BackgroundIdle
    <2>2. db'.l0 = db.l0 /\ db'.deep = db.deep /\ db'.bgError = db.bgError
      BY <2>1 DEF Stores
    <2> QED
      BY <2>1, <2>2, BaseKept
  <1>12. CASE Closed \/ ProcessCrash \/ PowerLoss
    BY <1>12 DEF Closed, ProcessCrash, PowerLoss, ProcessGone, BaseInv
  <1>13. ASSUME NEW t \in Threads, Writing(t) PROVE BaseInv'
    <2>1. /\ db # None /\ UNCHANGED <<current, manifests, edit>> /\ db'.l0 = db.l0 /\ db'.deep = db.deep
          /\ db.bgError => db'.bgError
      BY <1>13, WritingKeeps
    <2> QED
      BY <2>1, BaseKept
  <1>14. CASE (\E t \in Threads : Enqueue(t)) \/ NewIterator \/ DeleteIterator
    <2>1. UNCHANGED <<current, manifests, edit, db>>
      BY <1>14 DEF Enqueue, NewIterator, DeleteIterator, disk
    <2> QED
      BY <2>1 DEF BaseInv
  <1>15. CASE Close
    <2>1. db # None /\ db \in Stores /\ UNCHANGED <<current, manifests, edit>>
          /\ db' = [db EXCEPT !.shutting = TRUE]
      BY <1>15, StoreFacts DEF Close, disk
    <2>2. db'.l0 = db.l0 /\ db'.deep = db.deep /\ db'.bgError = db.bgError
      BY <2>1 DEF Stores
    <2> QED
      BY <2>1, <2>2, BaseKept
  <1>16. CASE MoveTable
    <2>1. /\ db # None /\ UNCHANGED <<current, manifests, db>> /\ edit = None /\ edit'.at = "append"
      BY <1>16, MoveSteps DEF Begun
    <2> QED
      BY <2>1, BaseKept
  <1> QED
    BY <1>2, <1>3, <1>4, <1>5, <1>6, <1>7, <1>8, <1>9, <1>10, <1>11, <1>12, <1>13, <1>14, <1>15, <1>16
    DEF Next, LogAndApply, BackgroundCall

-----------------------------------------------------------------------------
(* Records: where they are, and where they go *)

\* Records have numbers.
LEMMA LiveRecords ==
  ASSUME Types
  PROVE  /\ \A N, r : InTables(tables, N, r) => r \in Records
         /\ \A k, r : InLogs(logs, k, r) => r \in Records
         /\ \A r : Live(r) => r \in Records
         /\ \A r \in Records : LastOf(r) \in Nat /\ r.seq \in Nat /\ LastOf(r) = r.seq + Cardinality(r.batches) - 1
  <1>1. \A N, r : InTables(tables, N, r) => r \in Records
    BY DEF InTables, Types, FileTypes
  <1>2. \A k, r : InLogs(logs, k, r) => r \in Records
    <2>1. \A n \in DOMAIN logs : logs[n].recs \in Seq(Records)
      BY DEF Types, FileTypes, FilesOf, File
    <2>2. \A n \in DOMAIN logs : \A i \in DOMAIN logs[n].recs : logs[n].recs[i] \in Records
      BY <2>1
    <2> QED
      BY <2>2 DEF InLogs
  <1>3. \A r : db # None /\ InMemory(db, r) => r \in Records
    <2>1. db # None => db \in Stores
      BY DEF Types, StoreTypes
    <2>2. db # None => db.mem \in SUBSET Records /\ db.imm \in (SUBSET Records) \cup {None}
      BY <2>1, Fields
    <2> QED
      BY <2>2 DEF InMemory
  <1>4. \A r : Live(r) => r \in Records
    BY <1>1, <1>2, <1>3 DEF Live, Firm, OnDisk
  <1>5. \A r \in Records : LastOf(r) \in Nat /\ r.seq \in Nat /\ LastOf(r) = r.seq + Cardinality(r.batches) - 1
    BY RecordSize DEF LastOf
  <1> QED
    BY <1>1, <1>2, <1>4, <1>5

\* A step of a store: what it holds comes from what it held, or is the record of the group.
LEMMA StoreMoves ==
  ASSUME Core, Core', db # None, db' # None,
         \A N, r : InTables(tables', N, r) => InTables(tables, N, r) \/ Firm(r),
         \A k, r : InLogs(logs', k, r) => InLogs(logs, k, r) \/ NewRecord(r),
         \A r : InMemory(db', r) => Firm(r) \/ NewRecord(r),
         \A r : InTables(tables', Files(db') \cup db'.pending, r) => Firm(r),
         edit' # None => \A r : InTables(tables', Files(edit'.state), r) => Firm(r),
         edit' # None => db.log <= edit'.state.log \/ (edit # None /\ edit'.state.log = edit.state.log),
         db'.log = db.log \/ (edit # None /\ db'.log = edit.state.log),
         \A m \in PossibleStates' : m \in PossibleStates \/ (edit # None /\ m = edit.state)
  PROVE  /\ \A r : Firm(r)' => Firm(r) \/ NewRecord(r)
         /\ \A r : Live(r)' => Live(r) \/ NewRecord(r)
  <1>1. \A r : Firm(r)' => Firm(r) \/ NewRecord(r)
    BY DEF Firm
  <1>2. /\ \A n \in DOMAIN logs : n \in Nat
        /\ db.log \in Nat /\ (edit' # None => edit'.state.log \in Nat)
    <2>1. db \in Stores /\ (edit' # None => edit' \in Edits)
      BY DEF Core, StoreTypes
    <2>2. edit' # None => edit'.state \in ManifestStates
      BY <2>1, Fields
    <2> QED
      BY <2>1, <2>2, Fields DEF Core, FileTypes, FilesOf
  <1>3. \A r : edit # None /\ InLogs(logs, edit.state.log, r) => Live(r)
    BY DEF Live, OnDisk
  <1>4. \A r : InLogs(logs, db.log, r) => Live(r)
    BY DEF Live, OnDisk
  <1>5. \A r : edit' # None /\ InLogs(logs, edit'.state.log, r) => Live(r)
    <2> SUFFICES ASSUME NEW r, edit' # None, InLogs(logs, edit'.state.log, r) PROVE Live(r)
      OBVIOUS
    <2>1. CASE db.log <= edit'.state.log
      BY <1>2, <1>4, <2>1, AmongLogs
    <2>2. CASE edit # None /\ edit'.state.log = edit.state.log
      BY <1>3, <2>2
    <2> QED
      BY <2>1, <2>2
  <1>6. \A r : InLogs(logs, db'.log, r) => Live(r)
    BY <1>3, <1>4
  <1>7. \A r : OnDisk(tables', logs', db', r) => Live(r) \/ NewRecord(r)
    <2>1. \A r : InTables(tables', Files(db'), r) => InTables(tables', Files(db') \cup db'.pending, r)
      BY Among
    <2>2. \A r : Firm(r) => Live(r)
      BY DEF Live
    <2> QED
      BY <1>6, <2>1, <2>2 DEF OnDisk
  <1>8. \A r : edit' # None /\ OnDisk(tables', logs', edit'.state, r) => Live(r) \/ NewRecord(r)
    BY <1>5 DEF OnDisk, Live
  <1>9. \A m \in PossibleStates' : \A r : OnDisk(tables', logs', m, r) => Live(r) \/ NewRecord(r)
    <2>1. \A m \in PossibleStates' : \A r : OnDisk(tables, logs, m, r) => Live(r)
      BY DEF Live
    <2>2. \A m, r : OnDisk(tables', logs', m, r) => OnDisk(tables, logs, m, r) \/ Firm(r) \/ NewRecord(r)
      BY DEF OnDisk
    <2>3. \A r : Firm(r) => Live(r)
      BY DEF Live
    <2> QED
      BY <2>1, <2>2, <2>3
  <1> QED
    BY <1>1, <1>7, <1>8, <1>9 DEF Live

\* The bound grows with the record of the group.
LEMMA BoundKept ==
  ASSUME Types, BoundInv, \A r : Live(r)' => Live(r) \/ NewRecord(r)
  PROVE  BoundInv'
  <1>1. PICK b \in Nat : \A r : Live(r) => LastOf(r) <= b
    BY DEF BoundInv, Bounded
  <1>2. \A r : Live(r) => LastOf(r) \in Nat
    BY LiveRecords
  <1>3. CASE group = None
    BY <1>1, <1>3 DEF BoundInv, Bounded, NewRecord
  <1>4. CASE group # None
    <2>1. group.record \in Records
      BY <1>4 DEF Types, ThreadTypes, Groups
    <2>2. LastOf(group.record) \in Nat
      BY <2>1, LiveRecords
    <2>3. \A r : Live(r)' => LastOf(r) <= b + LastOf(group.record)
      <3> SUFFICES ASSUME NEW r, Live(r)' PROVE LastOf(r) <= b + LastOf(group.record)
        OBVIOUS
      <3>1. CASE Live(r)
        BY <1>1, <1>2, <2>2, <3>1
      <3>2. CASE NewRecord(r)
        BY <2>2, <3>2 DEF NewRecord
      <3> QED
        BY <3>1, <3>2
    <2>4. b + LastOf(group.record) \in Nat
      BY <2>2
    <2> QED
      BY <2>3, <2>4 DEF BoundInv, Bounded
  <1> QED
    BY <1>3, <1>4

\* The record of the group comes after all others.
LEMMA NewIsApart ==
  ASSUME Types, SequenceInv, NEW r, NEW q, r # q,
         Live(r) \/ NewRecord(r), Live(q) \/ NewRecord(q)
  PROVE  Apart(r, q)
  <1>1. CASE Live(r) /\ Live(q)
    BY <1>1 DEF SequenceInv
  <1>2. ASSUME NEW x, NEW y, x # y, NewRecord(x), Live(y) PROVE LastOf(y) < x.seq
    <2>1. group # None /\ x = group.record /\ db # None /\ x.seq = db.last + 1
      BY <1>2 DEF NewRecord, SequenceInv
    <2>2. LastOf(y) <= db.last
      BY <1>2, <2>1 DEF SequenceInv, NewRecord
    <2>3. db.last \in Nat /\ LastOf(y) \in Nat
      <3>1. db \in Stores
        BY <2>1 DEF Types, StoreTypes
      <3> QED
        BY <1>2, <3>1, Fields, LiveRecords
    <2> QED
      BY <2>1, <2>2, <2>3
  <1>3. CASE NewRecord(r) /\ NewRecord(q)
    BY <1>3 DEF NewRecord
  <1> QED
    BY <1>1, <1>2, <1>3 DEF Apart

\* LastSequence stays: only the group may write beyond it.
LEMMA SequenceKept ==
  ASSUME Types, SequenceInv, db # None, db' # None, db'.last = db.last,
         \A r : Firm(r)' => Firm(r), \A r : Live(r)' => Live(r) \/ NewRecord(r),
         group' = group \/ (group = None /\ (group' # None => group'.record.seq = db.last + 1)),
         edit' # None => edit'.owner # "open"
  PROVE  SequenceInv'
  <1>1. \A r, q : Live(r)' /\ Live(q)' /\ r # q => Apart(r, q)
    BY NewIsApart
  <1>2. \A r : Firm(r)' => LastOf(r) <= db'.last
    BY DEF SequenceInv
  <1>3. \A r : Live(r)' => LastOf(r) <= db'.last \/ NewRecord(r)'
    BY DEF SequenceInv, NewRecord
  <1>4. group' # None => db' # None /\ group'.record.seq = db'.last + 1
    BY DEF SequenceInv
  <1> QED
    BY <1>1, <1>2, <1>3, <1>4 DEF SequenceInv, Apart, LastOf

\* LastSequence moves on, to the last number of the group.
LEMMA SequenceAdvances ==
  ASSUME Types, SequenceInv, db # None, db' # None, group # None, group' = None,
         db'.last = db.last + Cardinality(group.record.batches),
         \A r : Firm(r)' => Firm(r) \/ NewRecord(r), \A r : Live(r)' => Live(r) \/ NewRecord(r),
         edit' # None => edit'.owner # "open"
  PROVE  SequenceInv'
  <1>1. \A r, q : Live(r)' /\ Live(q)' /\ r # q => Apart(r, q)
    BY NewIsApart
  <1>2. /\ group.record \in Records /\ group.record.seq = db.last + 1 /\ db.last \in Nat
        /\ Cardinality(group.record.batches) \in Nat
    <2>1. db \in Stores /\ group \in Groups
      BY DEF Types, StoreTypes, ThreadTypes
    <2>2. group.record \in Records
      BY <2>1 DEF Groups
    <2> QED
      BY <2>1, <2>2, Fields, RecordSize DEF SequenceInv
  <1>3. LastOf(group.record) = db'.last /\ db.last <= db'.last
    BY <1>2 DEF LastOf
  <1>4. \A r : Live(r) \/ NewRecord(r) => LastOf(r) <= db'.last
    <2> SUFFICES ASSUME NEW r, Live(r) \/ NewRecord(r) PROVE LastOf(r) <= db'.last
      OBVIOUS
    <2>1. CASE NewRecord(r)
      BY <1>2, <1>3, <2>1 DEF NewRecord
    <2>2. CASE Live(r) /\ ~NewRecord(r)
      <3>1. LastOf(r) <= db.last /\ LastOf(r) \in Nat
        BY <2>2, LiveRecords DEF SequenceInv
      <3> QED
        BY <1>2, <1>3, <3>1
    <2> QED
      BY <2>1, <2>2
  <1>5. \A r : Firm(r)' => LastOf(r) <= db'.last
    BY <1>4 DEF Live
  <1>6. \A r : Live(r)' => LastOf(r) <= db'.last
    BY <1>4
  <1> QED
    BY <1>1, <1>5, <1>6 DEF SequenceInv, Apart, LastOf

\* Steps that move no record.
LEMMA RecordsStay ==
  ASSUME IInv, db # None, UNCHANGED <<logs, tables, manifests, current, db, edit>>,
         group' = group \/ (group = None /\ (group' # None => group'.record.seq = db.last + 1))
  PROVE  BoundInv' /\ SequenceInv'
  <1>1. PossibleStates' = PossibleStates
    BY DEF PossibleStates
  <1>2. \A r : (Firm(r)' <=> Firm(r)) /\ (Live(r)' <=> Live(r))
    BY <1>1 DEF Firm, Live
  <1>3. Types /\ (edit' # None => edit'.owner # "open")
    BY DEF IInv, Core, Types, StoreInv
  <1> QED
    BY <1>2, <1>3, BoundKept, SequenceKept DEF IInv

\* A step that leaves tables, versions and edits alone.
LEMMA LogMoves ==
  ASSUME Core, Core', db # None, db' # None, UNCHANGED <<tables, manifests, current, edit>>,
         \A k, r : InLogs(logs', k, r) => InLogs(logs, k, r) \/ NewRecord(r),
         \A r : InMemory(db', r) => InMemory(db, r) \/ NewRecord(r),
         db'.l0 = db.l0, db'.deep = db.deep, db'.log = db.log, db'.pending = db.pending
  PROVE  /\ \A r : Firm(r)' => Firm(r) \/ NewRecord(r)
         /\ \A r : Live(r)' => Live(r) \/ NewRecord(r)
         /\ (\A r : InMemory(db', r) => InMemory(db, r)) => \A r : Firm(r)' => Firm(r)
  <1>1. Files(db') = Files(db) /\ PossibleStates' = PossibleStates
    BY DEF Files, PossibleStates
  <1>2. /\ \A N, r : InTables(tables', N, r) => InTables(tables, N, r) \/ Firm(r)
        /\ \A r : InMemory(db', r) => Firm(r) \/ NewRecord(r)
        /\ \A r : InTables(tables', Files(db') \cup db'.pending, r) => Firm(r)
        /\ edit' # None => \A r : InTables(tables', Files(edit'.state), r) => Firm(r)
        /\ edit' # None => db.log <= edit'.state.log \/ (edit # None /\ edit'.state.log = edit.state.log)
        /\ \A m \in PossibleStates' : m \in PossibleStates
    BY <1>1 DEF Firm
  <1>3. (\A r : InMemory(db', r) => InMemory(db, r)) => \A r : Firm(r)' => Firm(r)
    BY <1>1 DEF Firm
  <1> QED
    BY <1>2, <1>3, StoreMoves

\* A front writer has no group yet, a busy one has.
LEMMA GroupOfWriter ==
  ASSUME ThreadTypes, QueueInv, NEW t \in Threads, pc[t] = "front" \/ pc[t] \in Busy
  PROVE  /\ pc[t] = "front" => group = None
         /\ pc[t] \in Busy => group # None /\ group.record \in Records /\ group.size \in DOMAIN queue
  <1>1. pc[t] \in InQueue /\ pc[t] # "asleep" /\ ~(pc[t] = "front" /\ pc[t] \in Busy)
    BY DEF InQueue, Busy
  <1>2. queue[1] = t
    BY <1>1, FirstIsAwake
  <1>3. pc[t] = "front" => group = None
    BY <1>1, <1>2 DEF QueueInv
  <1>4. pc[t] \in Busy => group # None /\ group.record \in Records /\ group.size \in DOMAIN queue
    BY DEF QueueInv, ThreadTypes, Groups
  <1> QED
    BY <1>3, <1>4

\* What a thread in Write does to records.
LEMMA WritingRecords ==
  ASSUME IInv, Core', NEW t \in Threads, Writing(t)
  PROVE  BoundInv' /\ SequenceInv'
  <1>0. /\ Types /\ Core /\ ThreadTypes /\ QueueInv /\ BoundInv /\ SequenceInv
        /\ db # None /\ db \in Stores /\ (edit # None => edit.owner # "open")
    <2>1. Types /\ StoreInv
      BY DEF IInv, Core, Types
    <2>2. db # None /\ db \in Stores
      BY <2>1, WritersHaveStore DEF IInv
    <2> QED
      BY <2>1, <2>2 DEF IInv, StoreInv
  <1>g. ASSUME pc[t] = "front", (\E s \in {"ok", "unsure", "error"} : Leave(1, s)) \/ GroupWith(db)
        PROVE  group = None /\ (group' # None => group'.record.seq = db.last + 1)
    <2>1. group = None
      BY <1>0, <1>g, GroupOfWriter
    <2>2. CASE GroupWith(db)
      BY <1>0, <1>g, <2>1, <2>2, GroupTaken
    <2>3. CASE \E s \in {"ok", "unsure", "error"} : Leave(1, s)
      BY <2>1, <2>3 DEF Leave
    <2> QED
      BY <1>g, <2>2, <2>3
  <1>1. CASE WriteInRoom(t) \/ FailAfterError(t)
    <2>1. /\ pc[t] = "front" /\ ((\E s \in {"ok", "unsure", "error"} : Leave(1, s)) \/ GroupWith(db))
          /\ UNCHANGED <<logs, tables, manifests, current, db, edit>>
      BY <1>1 DEF WriteInRoom, FailAfterError, disk
    <2> QED
      BY <1>0, <1>g, <2>1, RecordsStay
  <1>2. CASE WaitForRoom(t)
    <2>1. UNCHANGED <<logs, tables, manifests, current, db, edit, group>>
      BY <1>2 DEF WaitForRoom, disk
    <2> QED
      BY <1>0, <2>1, RecordsStay
  <1>3. CASE SwitchMemTable(t)
    <2>1. /\ pc[t] = "front" /\ ((\E s \in {"ok", "unsure", "error"} : Leave(1, s)) \/ GroupWith(db))
          /\ UNCHANGED <<tables, manifests, current, edit>>
      BY <1>3 DEF SwitchMemTable
    <2>2. CASE UNCHANGED <<logs, db>>
      BY <1>0, <1>g, <2>1, <2>2, RecordsStay
    <2>3. CASE /\ logs' = Put(logs, db.next, EmptyFile)
               /\ LET d == [db EXCEPT !.next = @ + 1, !.logfile = db.next, !.imm = db.mem, !.mem = {},
                                      !.torn = FALSE]
                  IN  db' = Scheduled(d)
      <3>1. db' = Scheduled(Switch(db))
        BY <2>3 DEF Switch
      <3>3. /\ db' # None /\ db'.l0 = db.l0 /\ db'.deep = db.deep /\ db'.log = db.log /\ db'.pending = db.pending
            /\ db'.mem = {} /\ db'.imm = db.mem /\ db'.last = db.last
        BY <1>0, <3>1, Switched
      <3>4. \A r : InMemory(db', r) => InMemory(db, r)
        BY <3>3 DEF InMemory
      <3>5. \A k, r : InLogs(logs', k, r) => InLogs(logs, k, r)
        BY <2>3, LogsMove
      <3>7. /\ \A r : Firm(r)' => Firm(r)
            /\ \A r : Live(r)' => Live(r) \/ NewRecord(r)
        BY <1>0, <2>1, <3>3, <3>4, <3>5, LogMoves
      <3>8. BoundInv'
        BY <1>0, <3>7, BoundKept
      <3>9. SequenceInv'
        BY <1>0, <1>g, <2>1, <3>3, <3>7, SequenceKept
      <3> QED
        BY <3>8, <3>9
    <2> QED
      BY <1>3, <2>2, <2>3 DEF SwitchMemTable
  <1>4. CASE AddRecord(t)
    <2>1. group # None /\ group.record \in Records
      BY <1>0, <1>4, GroupOfWriter DEF AddRecord, Busy
    <2>2. UNCHANGED <<tables, manifests, current, edit>>
      BY <1>4 DEF AddRecord
    <2>3. CASE logs' = [logs EXCEPT ![db.logfile] = Added(@, group.record)] /\ UNCHANGED <<db, group>>
      <3>1. FilesOf(logs, Records)
        BY <1>0 DEF Core, FileTypes
      <3>2. \A k, r : InLogs(logs', k, r) => InLogs(logs, k, r) \/ NewRecord(r)
        <4>1. \A k, r : InLogs(logs', k, r) => InLogs(logs, k, r) \/ r = group.record
          <5>1. \A n, x : FilesOf(logs, Records) /\ x \in Records /\ logs' = [logs EXCEPT ![n] = Added(@, x)] =>
                  \A k, r : InLogs(logs', k, r) => InLogs(logs, k, r) \/ r = x
            BY LogsMove
          <5> QED
            BY <2>1, <2>3, <3>1, <5>1
        <4> QED
          BY <2>1, <4>1 DEF NewRecord
      <3>3. /\ \A r : Firm(r)' => Firm(r)
            /\ \A r : Live(r)' => Live(r) \/ NewRecord(r)
        BY <1>0, <2>2, <2>3, <3>2, LogMoves
      <3>4. BoundInv'
        BY <1>0, <3>3, BoundKept
      <3>5. SequenceInv'
        BY <1>0, <2>2, <2>3, <3>3, SequenceKept
      <3> QED
        BY <3>4, <3>5
    <2>4. CASE UNCHANGED <<logs, db, group>>
      BY <1>0, <2>2, <2>4, RecordsStay
    <2>5. CASE /\ db' = WithSequence([db EXCEPT !.torn = TRUE]) /\ Leave(group.size, "error")
               /\ UNCHANGED logs
      <3> DEFINE d == [db EXCEPT !.torn = TRUE]
      <3>1. /\ d \in Stores /\ d.l0 = db.l0 /\ d.deep = db.deep /\ d.log = db.log
            /\ d.pending = db.pending /\ d.mem = db.mem /\ d.imm = db.imm /\ d.last = db.last
        BY <1>0, Torn
      <3>2. db' = WithSequence(d)
        BY <2>5
      <3> HIDE DEF d
      <3>3. /\ db' # None /\ db'.l0 = db.l0 /\ db'.deep = db.deep /\ db'.log = db.log
            /\ db'.pending = db.pending /\ db'.mem = db.mem /\ db'.imm = db.imm
            /\ db'.last = db.last + Cardinality(group.record.batches)
        BY <2>1, <3>1, <3>2, Sequenced
      <3>4. \A r : InMemory(db', r) => InMemory(db, r) \/ NewRecord(r)
        BY <3>3 DEF InMemory
      <3>5. /\ \A r : Firm(r)' => Firm(r) \/ NewRecord(r)
            /\ \A r : Live(r)' => Live(r) \/ NewRecord(r)
        BY <1>0, <2>2, <2>5, <3>3, <3>4, LogMoves
      <3>6. group' = None
        BY <2>5 DEF Leave
      <3>7. BoundInv'
        BY <1>0, <3>5, BoundKept
      <3>8. SequenceInv'
        BY <1>0, <2>1, <2>2, <3>3, <3>5, <3>6, SequenceAdvances
      <3> QED
        BY <3>7, <3>8
    <2> QED
      BY <1>4, <2>3, <2>4, <2>5 DEF AddRecord
  <1>5. ASSUME NEW b \in BOOLEAN, NEW M \in SUBSET Records, group # None, group.record \in Records,
               db' = [WithSequence([db EXCEPT !.mem = M]) EXCEPT !.bgError = b],
               M \subseteq db.mem \cup {group.record}, group' = None,
               UNCHANGED <<logs, tables, manifests, current, edit>>
        PROVE  BoundInv' /\ SequenceInv'
    <2>1. Cardinality(group.record.batches) \in Nat
      BY <1>5, RecordSize
    <2>2. db.last + Cardinality(group.record.batches) \in Nat
      BY <1>0, <2>1, Fields
    <2>3. /\ db' \in Stores /\ db'.l0 = db.l0 /\ db'.deep = db.deep /\ db'.log = db.log
          /\ db'.pending = db.pending /\ db'.mem = M /\ db'.imm = db.imm
          /\ db'.last = db.last + Cardinality(group.record.batches)
      BY <1>0, <1>5, <2>2 DEF WithSequence, Stores
    <2>4. db' # None
      BY <2>3, Fields
    <2>5. \A r : InMemory(db', r) => InMemory(db, r) \/ NewRecord(r)
      BY <1>5, <2>3 DEF InMemory, NewRecord
    <2>6. /\ \A r : Firm(r)' => Firm(r) \/ NewRecord(r)
          /\ \A r : Live(r)' => Live(r) \/ NewRecord(r)
      BY <1>0, <1>5, <2>3, <2>4, <2>5, LogMoves
    <2>7. BoundInv'
      BY <1>0, <2>6, BoundKept
    <2>8. SequenceInv'
      BY <1>0, <1>5, <2>3, <2>4, <2>6, SequenceAdvances
    <2> QED
      BY <2>7, <2>8
  <1>6. CASE SyncLog(t)
    <2>1. group # None /\ group.record \in Records /\ UNCHANGED <<tables, manifests, current, edit>>
      BY <1>0, <1>6, GroupOfWriter DEF SyncLog, Busy
    <2>2. CASE logs' = [logs EXCEPT ![db.logfile] = Synced(@)] /\ UNCHANGED <<db, group>>
      <3>1. \A k, r : InLogs(logs', k, r) => InLogs(logs, k, r)
        BY <2>2, LogsMove
      <3>2. /\ \A r : Firm(r)' => Firm(r)
            /\ \A r : Live(r)' => Live(r) \/ NewRecord(r)
        BY <1>0, <2>1, <2>2, <3>1, LogMoves
      <3>3. BoundInv'
        BY <1>0, <3>2, BoundKept
      <3>4. SequenceInv'
        BY <1>0, <2>1, <2>2, <3>2, SequenceKept
      <3> QED
        BY <3>3, <3>4
    <2>3. CASE db' = WithError(WithSequence(db)) /\ Leave(group.size, "error") /\ UNCHANGED logs
      <3>1. db.mem \in SUBSET Records /\ [db EXCEPT !.mem = db.mem] = db
        BY <1>0 DEF Stores
      <3>2. db' = [WithSequence([db EXCEPT !.mem = db.mem]) EXCEPT !.bgError = TRUE]
        BY <2>3, <3>1 DEF WithError
      <3>3. group' = None
        BY <2>3 DEF Leave
      <3> QED
        BY <1>5, <2>1, <2>3, <3>1, <3>2, <3>3
    <2> QED
      BY <1>6, <2>2, <2>3 DEF SyncLog
  <1>7. CASE InsertInto(t)
    <2>1. group # None /\ group.record \in Records
      BY <1>0, <1>7, GroupOfWriter DEF InsertInto, Busy
    <2> DEFINE M == db.mem \cup {group.record}
               e == WithSequence([db EXCEPT !.mem = M])
    <2>2. M \in SUBSET Records /\ db' = e
      BY <1>0, <1>7, <2>1, Fields DEF InsertInto
    <2>3. e = [e EXCEPT !.bgError = db.bgError] /\ db.bgError \in BOOLEAN
      <3>1. Cardinality(group.record.batches) \in Nat /\ db.last \in Nat
        BY <1>0, <2>1, RecordSize, Fields
      <3> QED
        BY <1>0, <2>2, <3>1 DEF WithSequence, Stores
    <2>4. group' = None /\ UNCHANGED <<logs, tables, manifests, current, edit>>
      BY <1>7 DEF InsertInto, disk, Leave
    <2>5. db' = [WithSequence([db EXCEPT !.mem = M]) EXCEPT !.bgError = db.bgError]
      BY <2>2, <2>3
    <2>6. M \subseteq db.mem \cup {group.record}
      OBVIOUS
    <2> HIDE DEF M
    <2> QED
      BY <1>5, <2>1, <2>2, <2>3, <2>4, <2>5, <2>6
  <1> QED
    BY <1>1, <1>2, <1>3, <1>4, <1>6, <1>7 DEF Writing

\* A step of a store that gives no number.
LEMMA StoreKept ==
  ASSUME IInv, Core', db # None, db' # None, db'.last = db.last, group' = group,
         \A N, r : InTables(tables', N, r) => InTables(tables, N, r) \/ Firm(r),
         \A k, r : InLogs(logs', k, r) => InLogs(logs, k, r),
         \A r : InMemory(db', r) => Firm(r),
         \A r : InTables(tables', Files(db') \cup db'.pending, r) => Firm(r),
         edit' # None => \A r : InTables(tables', Files(edit'.state), r) => Firm(r),
         edit' # None => db.log <= edit'.state.log \/ (edit # None /\ edit'.state.log = edit.state.log),
         db'.log = db.log \/ (edit # None /\ db'.log = edit.state.log),
         \A m \in PossibleStates' : m \in PossibleStates \/ (edit # None /\ m = edit.state)
  PROVE  BoundInv' /\ SequenceInv'
  <1>1. Types /\ Core /\ BoundInv /\ SequenceInv
    BY DEF IInv, Core, Types
  <1>2. \A r : Firm(r)' => Firm(r)
    BY DEF Firm
  <1>3. \A r : Live(r)' => Live(r) \/ NewRecord(r)
    BY <1>1, StoreMoves
  <1>4. edit' # None => edit'.owner # "open"
    BY DEF Core, StoreInv
  <1>5. BoundInv'
    BY <1>1, <1>3, BoundKept
  <1>6. SequenceInv'
    BY <1>1, <1>2, <1>3, <1>4, SequenceKept
  <1> QED
    BY <1>5, <1>6

\* What is firm.
LEMMA FirmPlaces ==
  ASSUME db # None
  PROVE  /\ \A r : InMemory(db, r) => Firm(r)
         /\ \A N, r : N \subseteq Files(db) \cup db.pending /\ InTables(tables, N, r) => Firm(r)
         /\ \A N, r : edit # None /\ N \subseteq Files(edit.state) /\ InTables(tables, N, r) => Firm(r)
         /\ \A n, r : n \in Files(db) \cup db.pending /\ n \in DOMAIN tables /\ r \in tables[n] => Firm(r)
  BY DEF Firm, InTables

\* A memtable becomes a table.
LEMMA MemTableRecords ==
  ASSUME IInv, Core', CompactMemTable
  PROVE  BoundInv' /\ SequenceInv'
  <1>0. Core
    BY DEF IInv
  <1>1. db # None /\ db' # None /\ db'.last = db.last /\ group' = group /\ logs' = logs
    BY <1>0, MemTableSteps
  <1>3. \A r : r \in db.imm => Firm(r)
    BY <1>0, <1>1, MemTableSteps, FirmPlaces DEF InMemory
  <1>4. \A N, r : InTables(tables', N, r) => InTables(tables, N, r) \/ Firm(r)
    <2>1. CASE tables' = Put(tables, db.next, db.imm)
      <3>1. \A N, r : InTables(tables', N, r) => InTables(tables, N \ {db.next}, r) \/ (db.next \in N /\ r \in db.imm)
        BY <2>1, TablesMove
      <3> QED
        BY <1>3, <3>1, Among
    <2> QED
      BY <1>0, <2>1, MemTableSteps
  <1>5. \A r : InMemory(db', r) => Firm(r)
    <2>1. \A r : InMemory(db', r) <=> InMemory(db, r)
      BY <1>0, MemTableSteps DEF InMemory
    <2> QED
      BY <1>1, <2>1, FirmPlaces
  <1>6. \A r : InTables(tables', Files(db') \cup db'.pending, r) => Firm(r)
    <2>1. Files(db') \cup db'.pending = Files(db) \cup db.pending
      BY <1>0, MemTableSteps DEF Files
    <2> QED
      BY <1>1, <1>4, <2>1, FirmPlaces
  <1>7. edit' # None => \A r : InTables(tables', Files(edit'.state), r) => Firm(r)
    <2>1. CASE Files(edit'.state) = Files(db)
      BY <1>1, <1>4, <2>1, FirmPlaces
    <2>2. CASE Files(edit'.state) = Files(db) \cup {db.next} /\ tables' = Put(tables, db.next, db.imm)
      <3>1. \A N, r : InTables(tables', N, r) => InTables(tables, N \ {db.next}, r) \/ (db.next \in N /\ r \in db.imm)
        BY <2>2, TablesMove
      <3>2. Files(edit'.state) \ {db.next} \subseteq Files(db) \cup db.pending
        BY <2>2
      <3> QED
        BY <1>1, <1>3, <3>1, <3>2, FirmPlaces
    <2> QED
      BY <1>0, <2>1, <2>2, MemTableSteps
  <1>8. /\ edit' # None => db.log <= edit'.state.log
        /\ db'.log = db.log
        /\ \A m \in PossibleStates' : m \in PossibleStates
    <2>1. db.log <= db.logfile
      BY <1>0, <1>1, StoreFacts
    <2>2. PossibleStates' = PossibleStates
      BY <1>0, MemTableSteps DEF PossibleStates
    <2> QED
      BY <1>0, <2>1, <2>2, MemTableSteps
  <1> QED
    BY <1>1, <1>4, <1>5, <1>6, <1>7, <1>8, StoreKept

\* Tables start to be merged: the output holds what they hold.
LEMMA StartRecords ==
  ASSUME IInv, Core', StartCompaction
  PROVE  BoundInv' /\ SequenceInv'
  <1>0. /\ Core /\ db # None /\ edit' = edit /\ edit = None /\ group' = group
        /\ UNCHANGED <<logs, manifests, current>>
        /\ db' = [db EXCEPT !.next = @ + 1, !.pending = @ \cup {db.next}]
    BY DEF IInv, StartCompaction, MayWork, BackgroundIdle, client
  <1>1. PICK level0 \in SUBSET db.l0, below \in SUBSET db.deep :
           /\ tables' = Put(tables, db.next, Contents(level0 \cup below))
           /\ bg' = [level0 |-> level0, below |-> below, out |-> db.next]
    BY DEF StartCompaction
  <1>2. db \in Stores
    BY <1>0, StoreFacts
  <1>3. /\ db'.pending = db.pending \cup {db.next} /\ db'.l0 = db.l0 /\ db'.deep = db.deep
        /\ db'.log = db.log /\ db'.mem = db.mem /\ db'.imm = db.imm /\ db'.last = db.last
    BY <1>0, <1>2 DEF Stores
  <1>4. db' # None
    <2>1. bg' # None
      <3>2. db.l0 \in SUBSET Nat /\ db.deep \in SUBSET Nat /\ db.next \in Nat
        BY <1>2, Fields
      <3>3. bg' \in Merges
        BY <1>1, <3>2 DEF Merges
      <3> QED
        BY <3>3, Fields
    <2> QED
      BY <2>1 DEF Core, StoreInv
  <1>5. \A r : r \in Contents(level0 \cup below) => Firm(r)
    BY <1>0, FirmPlaces DEF Contents, Files
  <1>6. \A N, r : InTables(tables', N, r) =>
          InTables(tables, N \ {db.next}, r) \/ r \in Contents(level0 \cup below)
    BY <1>1, TablesMove
  <1>7. \A N, r : InTables(tables', N, r) => InTables(tables, N, r) \/ Firm(r)
    BY <1>5, <1>6, Among
  <1>8. \A r : InTables(tables', Files(db') \cup db'.pending, r) => Firm(r)
    <2>1. (Files(db') \cup db'.pending) \ {db.next} \subseteq Files(db) \cup db.pending
      BY <1>3 DEF Files
    <2> QED
      BY <1>0, <1>5, <1>6, <2>1, FirmPlaces
  <1>9. \A r : InMemory(db', r) => Firm(r)
    <2>1. \A r : InMemory(db', r) <=> InMemory(db, r)
      BY <1>3 DEF InMemory
    <2> QED
      BY <1>0, <2>1, FirmPlaces
  <1>10. PossibleStates' = PossibleStates
    BY <1>0 DEF PossibleStates
  <1> QED
    BY <1>0, <1>3, <1>4, <1>7, <1>8, <1>9, <1>10, StoreKept

\* A merge is done, or given up; the background thread has nothing to do.
LEMMA FinishRecords ==
  ASSUME IInv, Core', FinishCompaction \/ NothingToDo
  PROVE  BoundInv' /\ SequenceInv'
  <1>0. /\ Core /\ edit = None /\ group' = group /\ UNCHANGED <<logs, tables, manifests, current>>
    BY DEF IInv, FinishCompaction, NothingToDo, BackgroundIdle, disk
  <1>1. db # None /\ db \in Stores /\ db.pending \in SUBSET Nat
    <2>1. db # None
      BY <1>0 DEF FinishCompaction, NothingToDo, BackgroundIdle, Core, StoreInv
    <2> QED
      BY <1>0, <2>1, StoreFacts, Fields
  <1>2. PossibleStates' = PossibleStates
    BY <1>0 DEF PossibleStates
  <1>3. ASSUME NEW d \in Stores, db' = d \/ db' = CallEnded(d),
               d.l0 = db.l0, d.deep = db.deep, d.log = db.log, d.pending \subseteq db.pending,
               d.mem = db.mem, d.imm = db.imm, d.last = db.last,
               edit' # None => db.log = edit'.state.log /\ Files(edit'.state) \subseteq Files(db) \cup db.pending
        PROVE  BoundInv' /\ SequenceInv'
    <2>1. SameButCall(d, db')
      BY <1>3, Calls DEF SameButCall
    <2>2. /\ db' # None /\ db'.l0 = db.l0 /\ db'.deep = db.deep /\ db'.log = db.log
          /\ db'.pending \subseteq db.pending /\ db'.mem = db.mem /\ db'.imm = db.imm /\ db'.last = db.last
      BY <1>3, <2>1, Fields DEF SameButCall
    <2>3. \A r : InMemory(db', r) => Firm(r)
      <3>1. \A r : InMemory(db', r) <=> InMemory(db, r)
        BY <2>2 DEF InMemory
      <3> QED
        BY <1>1, <3>1, FirmPlaces
    <2>4. Files(db') \cup db'.pending \subseteq Files(db) \cup db.pending
      BY <2>2 DEF Files
    <2>5. \A r : InTables(tables', Files(db') \cup db'.pending, r) => Firm(r)
      BY <1>0, <1>1, <2>4, FirmPlaces
    <2>6. edit' # None => \A r : InTables(tables', Files(edit'.state), r) => Firm(r)
      BY <1>0, <1>1, <1>3, FirmPlaces
    <2>7. edit' # None => db.log <= edit'.state.log
      <3>1. db.log \in Nat
        BY <1>1, Fields
      <3> QED
        BY <1>3, <3>1
    <2> QED
      BY <1>0, <1>1, <1>2, <2>2, <2>3, <2>5, <2>6, <2>7, StoreKept
  <1>4. CASE NothingToDo
    <2>1. db' = CallEnded(db) /\ edit' = None
      BY <1>0, <1>4 DEF NothingToDo
    <2> QED
      BY <1>1, <1>3, <2>1
  <1>5. CASE FinishCompaction
    <2> DEFINE P == db.pending \ {bg.out}
               e == [db EXCEPT !.pending = P]
               v == [l0 |-> db.l0 \ bg.level0, deep |-> (db.deep \ bg.below) \cup {bg.out}]
    <2>1. \/ db' = CallEnded(WithError(e)) /\ edit' = edit
          \/ BeginEdit(db, v, db.log, "compaction") /\ UNCHANGED db
      <3> HIDE DEF v
      <3> QED
        BY <1>5 DEF FinishCompaction, v
    <2>2. CASE db' = CallEnded(WithError(e)) /\ edit' = edit
      <3>1. e \in Stores
        <4>1. P \in SUBSET Nat
          BY <1>1
        <4> HIDE DEF P
        <4> QED
          BY <1>1, <4>1, PendingChanges
      <3>2. /\ e.l0 = db.l0 /\ e.deep = db.deep /\ e.log = db.log /\ e.pending \subseteq db.pending
            /\ e.mem = db.mem /\ e.imm = db.imm /\ e.last = db.last
        BY <1>1 DEF Stores
      <3> HIDE DEF e
      <3>3. SameButCall(e, WithError(e))
        BY <3>1, Calls
      <3> QED
        BY <1>0, <1>3, <2>2, <3>2, <3>3 DEF SameButCall
    <2>3. CASE BeginEdit(db, v, db.log, "compaction") /\ UNCHANGED db
      <3>1. bg # None /\ bg \in Merges /\ bg.out \in db.pending /\ db.log <= db.logfile
        BY <1>0, <1>1, <1>5, StoreFacts DEF FinishCompaction
      <3>2. bg.out \in Nat /\ db.l0 \in SUBSET Nat /\ db.deep \in SUBSET Nat /\ db.log \in Nat
        BY <1>1, <3>1, Fields
      <3>3. v.l0 \in SUBSET Nat /\ v.deep \in SUBSET Nat /\ v.l0 \cup v.deep \subseteq Files(db) \cup {bg.out}
        BY <3>2 DEF Files
      <3>4. db.log <= db.log
        BY <3>2
      <3> HIDE DEF v
      <3>5. Files(edit'.state) = v.l0 \cup v.deep /\ edit'.state.log = db.log
        BY <1>1, <2>3, <3>1, <3>2, <3>3, <3>4, EditBegun
      <3>6. Files(edit'.state) \subseteq Files(db) \cup db.pending
        BY <3>1, <3>3, <3>5
      <3> QED
        BY <1>1, <1>3, <2>3, <3>5, <3>6
    <2> QED
      BY <2>1, <2>2, <2>3
  <1> QED
    BY <1>4, <1>5

\* A table starts to be moved.
LEMMA MoveRecords ==
  ASSUME IInv, Core', MoveTable
  PROVE  BoundInv' /\ SequenceInv'
  <1>0. /\ Core /\ db # None /\ UNCHANGED <<logs, tables, manifests, current, db, group>>
        /\ Files(edit'.state) = Files(db) /\ edit'.state.log = db.log
    BY MoveSteps DEF IInv
  <1>1. db \in Stores /\ db.log \in Nat
    BY <1>0, StoreFacts, Fields
  <1>2. PossibleStates' = PossibleStates
    BY <1>0 DEF PossibleStates
  <1>3. /\ \A r : InMemory(db', r) => Firm(r)
        /\ \A r : InTables(tables', Files(db') \cup db'.pending, r) => Firm(r)
        /\ \A r : InTables(tables', Files(edit'.state), r) => Firm(r)
    BY <1>0, FirmPlaces
  <1>4. db.log <= edit'.state.log
    BY <1>0, <1>1
  <1> QED
    BY <1>0, <1>2, <1>3, <1>4, StoreKept

\* A table is installed.
LEMMA InstalledRecords ==
  ASSUME IInv, Core', MemTableInstalled \/ CompactionInstalled \/ MoveInstalled
  PROVE  BoundInv' /\ SequenceInv'
  <1>0. /\ Core /\ FileTypes /\ edit # None /\ edit.owner # "open" /\ edit' = None /\ UNCHANGED <<current, group>>
    BY DEF IInv, Core, MemTableInstalled, CompactionInstalled, MoveInstalled, disk
  <1>1. db # None /\ db \in Stores /\ db.pending \in SUBSET Nat
    <2>1. db # None
      BY <1>0 DEF Core, StoreInv
    <2> QED
      BY <1>0, <2>1, StoreFacts, Fields
  <1>2. /\ edit.state.l0 \in SUBSET Nat /\ edit.state.deep \in SUBSET Nat /\ edit.state.log \in Nat
    <2>1. edit \in Edits
      BY <1>0 DEF Core, StoreTypes
    <2>2. edit.state \in ManifestStates
      BY <2>1, Fields
    <2> QED
      BY <2>2, Fields
  <1> DEFINE e == Installed(db)
  <1>3. /\ e \in Stores /\ e.l0 = edit.state.l0 /\ e.deep = edit.state.deep /\ e.log = edit.state.log
        /\ e.pending = db.pending /\ e.mem = db.mem /\ e.imm = db.imm /\ e.last = db.last
    BY <1>1, <1>2 DEF Stores, Installed
  <1> HIDE DEF e
  <1>4. ASSUME NEW d \in Stores, DeleteObsoleteFiles(d) \/ UNCHANGED <<logs, tables, manifests>>,
               db' = d \/ db' = CallEnded(d), d.l0 = e.l0, d.deep = e.deep, d.log = e.log, d.pending \subseteq e.pending,
               d.mem = e.mem, d.imm \in {e.imm, None}, d.last = e.last
        PROVE  BoundInv' /\ SequenceInv'
    <2>1. SameButCall(d, db')
      BY <1>4, Calls DEF SameButCall
    <2>2. /\ db' # None /\ db'.l0 = edit.state.l0 /\ db'.deep = edit.state.deep /\ db'.log = edit.state.log
          /\ db'.pending \subseteq db.pending /\ db'.mem = db.mem /\ db'.imm \in {db.imm, None}
          /\ db'.last = db.last
      BY <1>3, <1>4, <2>1, Fields DEF SameButCall
    <2>3. \A r : InMemory(db', r) => Firm(r)
      <3>1. \A r : InMemory(db', r) => InMemory(db, r)
        BY <2>2 DEF InMemory
      <3> QED
        BY <1>1, <3>1, FirmPlaces
    <2>4. /\ \A N, r : InTables(tables', N, r) => InTables(tables, N, r)
          /\ \A k, r : InLogs(logs', k, r) => InLogs(logs, k, r)
      <3>1. /\ DOMAIN tables' \subseteq DOMAIN tables /\ \A n \in DOMAIN tables' : tables'[n] = tables[n]
            /\ \A n \in DOMAIN logs' : n \in DOMAIN logs /\ logs'[n] = logs[n]
        BY <1>0, <1>4, FilesCollected
      <3> QED
        BY <3>1, TablesMove, LogsMove
    <2>5. \A r : InTables(tables', Files(db') \cup db'.pending, r) => Firm(r)
      <3>1. Files(db') \subseteq Files(edit.state) /\ db'.pending \subseteq Files(db) \cup db.pending
        BY <2>2 DEF Files
      <3>2. \A r : InTables(tables, Files(db') \cup db'.pending, r) =>
                     InTables(tables, Files(db'), r) \/ InTables(tables, db'.pending, r)
        BY Among
      <3> QED
        BY <1>0, <1>1, <2>4, <3>1, <3>2, FirmPlaces
    <2>6. \A m \in PossibleStates' : m \in PossibleStates
      <3>1. /\ DOMAIN manifests' \subseteq DOMAIN manifests /\ \A n \in DOMAIN manifests' : manifests'[n] = manifests[n]
        BY <1>0, <1>4, FilesCollected
      <3>2. current # 0 => current \in DOMAIN manifests'
        BY <1>0 DEF Core, NumbersInv
      <3> QED
        BY <1>0, <3>1, <3>2 DEF PossibleStates
    <2> QED
      BY <1>0, <1>1, <2>2, <2>3, <2>4, <2>5, <2>6, StoreKept
  <1>5. CASE MemTableInstalled
    <2> DEFINE d == [e EXCEPT !.imm = None]
    <2>1. d \in Stores
      BY <1>3 DEF Stores
    <2>2. /\ d.l0 = e.l0 /\ d.deep = e.deep /\ d.log = e.log /\ d.pending \subseteq e.pending
          /\ d.mem = e.mem /\ d.imm \in {e.imm, None} /\ d.last = e.last
      BY <1>3, <2>1 DEF Stores
    <2>3. DeleteObsoleteFiles(d) /\ db' = IF bg = None THEN CallEnded(d) ELSE d
      BY <1>5 DEF MemTableInstalled, e
    <2> HIDE DEF d
    <2> QED
      BY <1>4, <2>1, <2>2, <2>3
  <1>6. CASE CompactionInstalled
    <2> DEFINE P == e.pending \ {bg.out}
               d == [e EXCEPT !.pending = P]
    <2>1. d \in Stores
      <3>1. P \in SUBSET Nat
        BY <1>1, <1>3
      <3> HIDE DEF P
      <3> QED
        BY <1>3, <3>1, PendingChanges
    <2>2. /\ d.l0 = e.l0 /\ d.deep = e.deep /\ d.log = e.log /\ d.pending \subseteq e.pending
          /\ d.mem = e.mem /\ d.imm \in {e.imm, None} /\ d.last = e.last
      BY <1>3, <2>1 DEF Stores
    <2>3. DeleteObsoleteFiles(d) /\ db' = CallEnded(d)
      BY <1>6 DEF CompactionInstalled, e
    <2> HIDE DEF d
    <2> QED
      BY <1>4, <2>1, <2>2, <2>3
  <1>7. CASE MoveInstalled
    <2>1. db' = CallEnded(e) /\ UNCHANGED <<logs, tables, manifests>>
      BY <1>7 DEF MoveInstalled, disk, e
    <2> QED
      BY <1>3, <1>4, <2>1
  <1> QED
    BY <1>5, <1>6, <1>7

\* No record is live that was not, and no store runs: the order of numbers stays.
LEMMA LessIsLive ==
  ASSUME Types, BoundInv, SequenceInv, db' = None, group' = None, \A r : Live(r)' => Live(r),
         edit' # None /\ edit'.owner = "open" =>
           \A r : OnDisk(tables', logs', edit'.state, r) => LastOf(r) <= edit'.state.last
  PROVE  BoundInv' /\ SequenceInv'
  <1>1. BoundInv'
    BY BoundKept
  <1>2. \A r, q : Live(r)' /\ Live(q)' /\ r # q => Apart(r, q)
    BY DEF SequenceInv
  <1> QED
    BY <1>1, <1>2 DEF SequenceInv, Apart, LastOf

\* The first manifest: nothing is stored.
LEMMA NewDBRecords ==
  ASSUME IInv, NewDB
  PROVE  BoundInv' /\ SequenceInv'
  <1>0. /\ Types /\ Core /\ BoundInv /\ SequenceInv /\ db = None /\ edit = None /\ current = 0
        /\ UNCHANGED <<logs, tables, db, edit, group>>
    BY DEF IInv, Core, Types, NewDB, client
  <1>1. DOMAIN logs = {} /\ \A n \in DOMAIN manifests : \A i \in DOMAIN manifests[n].recs :
                              Files(manifests[n].recs[i]) = {}
    BY <1>0 DEF Core, NumbersInv
  <1>2. \A m \in PossibleStates' : Files(m) = {}
    <2>1. CASE current' = 0
      BY <2>1 DEF PossibleStates
    <2>2. CASE 1 \in DOMAIN manifests /\ current' = 1 /\ UNCHANGED manifests
      BY <1>1, <2>2 DEF PossibleStates
    <2> QED
      BY <1>0, <2>1, <2>2 DEF NewDB
  <1>3. \A r : ~Live(r)'
    BY <1>0, <1>1, <1>2 DEF Live, Firm, OnDisk, InTables, InLogs
  <1>4. group = None
    BY <1>0 DEF SequenceInv
  <1> QED
    BY <1>0, <1>3, <1>4, LessIsLive

\* The process ends.
LEMMA GoneRecords ==
  ASSUME IInv, Closed \/ ProcessCrash \/ PowerLoss
  PROVE  BoundInv' /\ SequenceInv'
  <1>0. Types /\ Core /\ BoundInv /\ SequenceInv /\ QueueInv
    BY DEF IInv, Core, Types
  <1>1. /\ \A m \in PossibleStates' : m \in PossibleStates
        /\ db' = None /\ edit' = None /\ UNCHANGED tables
        /\ \A k, r : InLogs(logs', k, r) => InLogs(logs, k, r)
    BY <1>0, CoreGone
  <1>2. \A r : Live(r)' => Live(r)
    BY <1>1 DEF Live, Firm, OnDisk
  <1>3. group' = None
    <2>1. CASE Closed
      <3>1. db # None /\ db.shutting /\ UNCHANGED group
        BY <2>1 DEF Closed, client
      <3>2. queue = <<>>
        BY <1>0, <3>1 DEF Core, StoreInv
      <3> QED
        BY <1>0, <3>1, <3>2 DEF QueueInv
    <2>2. CASE ProcessCrash \/ PowerLoss
      BY <2>2 DEF ProcessCrash, PowerLoss, ProcessGone
    <2> QED
      BY <2>1, <2>2
  <1> QED
    BY <1>0, <1>1, <1>2, <1>3, LessIsLive

\* A manifest is written, synced or named.
LEMMA ManifestRecords ==
  ASSUME IInv, Core', AppendManifest \/ SyncManifest \/ SetCurrentFile
  PROVE  BoundInv' /\ SequenceInv'
  <1>0. Types /\ Core /\ BoundInv /\ SequenceInv
    BY DEF IInv, Core, Types
  <1>1. edit # None /\ edit \in Edits /\ UNCHANGED <<logs, tables, db, group>>
    BY <1>0 DEF AppendManifest, SyncManifest, SetCurrentFile, client, Core, StoreTypes
  <1>2. edit'.state = edit.state /\ edit'.owner = edit.owner
    BY <1>1 DEF AppendManifest, SyncManifest, SetCurrentFile, Edits
  <1>3. edit' # None
    <2>1. \E p \in {"sync", "current", "install"} : edit' = [edit EXCEPT !.at = p]
      BY DEF AppendManifest, SyncManifest, SetCurrentFile
    <2>2. edit' \in Edits
      BY <1>1, <2>1 DEF Edits
    <2> QED
      BY <2>2, Fields
  <1>4. \A m \in PossibleStates' :
          \/ m = edit.state \/ m \in PossibleStates
          \/ /\ m.log = edit.state.log
             /\ \E k \in PossibleStates : Files(m) \subseteq Files(edit.state) \cup Files(k)
    BY <1>0, CoreAppend, CoreSync, CoreNamed
  <1>5. \A r : Firm(r)' <=> Firm(r)
    BY <1>1, <1>2, <1>3 DEF Firm
  <1>6. \A r : Live(r)' => Live(r)
    <2>1. \A r : \A m \in PossibleStates' : OnDisk(tables, logs, m, r) => Live(r)
      <3> SUFFICES ASSUME NEW r, NEW m \in PossibleStates', OnDisk(tables, logs, m, r)
                   PROVE  Live(r)
        OBVIOUS
      <3>1. CASE m = edit.state \/ m \in PossibleStates
        BY <1>1, <3>1 DEF Live
      <3>2. CASE /\ m.log = edit.state.log
                 /\ \E k \in PossibleStates : Files(m) \subseteq Files(edit.state) \cup Files(k)
        <4>1. PICK k \in PossibleStates : Files(m) \subseteq Files(edit.state) \cup Files(k)
          BY <3>2
        <4>2. OnDisk(tables, logs, edit.state, r) \/ OnDisk(tables, logs, k, r)
          BY <3>2, <4>1 DEF OnDisk, InTables
        <4> QED
          BY <1>1, <4>1, <4>2 DEF Live
      <3> QED
        BY <1>4, <3>1, <3>2
    <2> QED
      BY <1>1, <1>2, <1>3, <1>5, <2>1 DEF Live
  <1>7. CASE edit.owner = "open"
    <2>1. db = None /\ group = None
      BY <1>0, <1>1, <1>7 DEF Core, StoreInv, SequenceInv
    <2>2. \A r : OnDisk(tables', logs', edit'.state, r) => LastOf(r) <= edit'.state.last
      BY <1>0, <1>1, <1>2, <1>7 DEF SequenceInv
    <2> QED
      BY <1>0, <1>1, <1>6, <2>1, <2>2, LessIsLive
  <1>8. CASE edit.owner # "open"
    <2>1. db # None
      BY <1>0, <1>1, <1>8 DEF Core, StoreInv
    <2>2. BoundInv'
      BY <1>0, <1>6, BoundKept
    <2>3. SequenceInv'
      BY <1>0, <1>1, <1>2, <1>5, <1>6, <1>8, <2>1, SequenceKept
    <2> QED
      BY <2>2, <2>3
  <1> QED
    BY <1>7, <1>8

\* An edit fails.
LEMMA FailsRecords ==
  ASSUME IInv, Core', EditFails
  PROVE  BoundInv' /\ SequenceInv'
  <1>0. /\ Types /\ Core /\ BoundInv /\ SequenceInv
        /\ edit # None /\ edit' = None /\ UNCHANGED <<current, group>> /\ edit \in Edits
    BY DEF IInv, Core, Types, EditFails, StoreTypes
  <1>1. CASE edit.owner = "open"
    <2>1. manifests' = Without(manifests, {edit.manifest}) /\ UNCHANGED <<logs, tables, db>>
      BY <1>1 DEF EditFails
    <2>2. db = None /\ group = None
      BY <1>0, <1>1 DEF Core, StoreInv, SequenceInv
    <2>3. current # 0 /\ current \in DOMAIN manifests'
      BY <1>0, <1>1 DEF Core, NumbersInv
    <2>4. manifests'[current] = manifests[current]
      BY <2>1, <2>3 DEF Without
    <2>5. PossibleStates' = PossibleStates
      BY <1>0, <2>3, <2>4 DEF PossibleStates
    <2>6. \A r : Live(r)' => Live(r)
      BY <1>0, <2>1, <2>2, <2>5 DEF Live, Firm
    <2> QED
      BY <1>0, <2>1, <2>2, <2>6, LessIsLive
  <1>2. CASE edit.owner # "open"
    <2> DEFINE P == db.pending \ {bg.out}
               e == IF edit.owner = "compaction" THEN [db EXCEPT !.pending = P] ELSE db
               d == WithError(e)
    <2>1. db # None /\ db \in Stores /\ db.pending \in SUBSET Nat
      BY <1>0, <1>2, Fields DEF Core, StoreInv, StoreTypes
    <2>2. e \in Stores
      <3>1. P \in SUBSET Nat
        BY <2>1
      <3> HIDE DEF P
      <3>2. [db EXCEPT !.pending = P] \in Stores
        BY <2>1, <3>1, PendingChanges
      <3> QED
        BY <2>1, <3>2
    <2>3. /\ e.l0 = db.l0 /\ e.deep = db.deep /\ e.log = db.log /\ e.pending \subseteq db.pending
          /\ e.mem = db.mem /\ e.imm = db.imm /\ e.last = db.last
      <3> HIDE DEF P
      <3>1. /\ \A X : LET f == [db EXCEPT !.pending = X] IN
                 /\ f.l0 = db.l0 /\ f.deep = db.deep /\ f.log = db.log /\ f.pending = X
                 /\ f.mem = db.mem /\ f.imm = db.imm /\ f.last = db.last
        BY <2>1 DEF Stores
      <3>2. P \subseteq db.pending
        BY DEF P
      <3> QED
        BY <3>1, <3>2
    <2>4. /\ db' = CallEnded(d) \/ db' = d
          /\ DeleteObsoleteFiles(d) \/ UNCHANGED <<logs, tables, manifests>>
      <3> HIDE DEF d, e
      <3> QED
        BY <1>2 DEF EditFails, d, e, P
    <2> HIDE DEF e
    <2>5. SameButCall(e, d) /\ d \in Stores /\ d.bgError = TRUE
      BY <2>2, Calls DEF SameButCall, WithError, Stores
    <2> HIDE DEF d
    <2>6. UNCHANGED <<logs, tables, manifests>>
      BY <2>4, <2>5 DEF DeleteObsoleteFiles
    <2>7. SameButCall(d, db') \/ db' = d
      BY <2>4, <2>5, Calls
    <2>8. /\ db' # None /\ db'.l0 = db.l0 /\ db'.deep = db.deep /\ db'.log = db.log
          /\ db'.pending \subseteq db.pending /\ db'.mem = db.mem /\ db'.imm = db.imm /\ db'.last = db.last
      BY <2>3, <2>5, <2>7, Fields DEF SameButCall
    <2>9. \A r : InMemory(db', r) => Firm(r)
      <3>1. \A r : InMemory(db', r) <=> InMemory(db, r)
        BY <2>8 DEF InMemory
      <3> QED
        BY <2>1, <3>1, FirmPlaces
    <2>10. Files(db') \cup db'.pending \subseteq Files(db) \cup db.pending
      BY <2>8 DEF Files
    <2>11. \A r : InTables(tables', Files(db') \cup db'.pending, r) => Firm(r)
      BY <2>1, <2>6, <2>10, FirmPlaces
    <2>12. PossibleStates' = PossibleStates
      BY <1>0, <2>6 DEF PossibleStates
    <2> QED
      BY <1>0, <2>1, <2>6, <2>8, <2>9, <2>11, <2>12, StoreKept
  <1> QED
    BY <1>1, <1>2

\* A recovery fails: tables it leaves hold what the logs hold.
LEMMA OpenFailedRecords ==
  ASSUME IInv, Open, edit' = None
  PROVE  BoundInv' /\ SequenceInv'
  <1> DEFINE m == Last(manifests[current].recs)
  <1>0. Types /\ Core /\ BoundInv /\ SequenceInv
    BY DEF IInv, Core, Types
  <1>1. PICK N \in SUBSET Nat :
          /\ db = None /\ edit = None /\ m \in PossibleStates
          /\ UNCHANGED <<logs, manifests, current, db, edit, group>>
          /\ DOMAIN tables' = DOMAIN tables \cup N
          /\ \A n \in DOMAIN tables' : n \notin N => tables'[n] = tables[n]
          /\ \A n \in N : \A r \in tables'[n] : InLogs(logs, m.log, r)
    BY <1>0, OpenFailed
  <1> HIDE DEF m
  <1>2. \A k, r : InTables(tables', Files(k), r) => InTables(tables, Files(k), r) \/ InLogs(logs, m.log, r)
    BY <1>1 DEF InTables
  <1>3. PossibleStates' = PossibleStates
    BY <1>1 DEF PossibleStates
  <1>4. \A k \in PossibleStates : \A r : OnDisk(tables', logs', k, r) => Live(r)
    <2> SUFFICES ASSUME NEW k \in PossibleStates, NEW r, OnDisk(tables', logs', k, r) PROVE Live(r)
      OBVIOUS
    <2>1. OnDisk(tables, logs, k, r) \/ OnDisk(tables, logs, m, r)
      BY <1>1, <1>2 DEF OnDisk
    <2> QED
      BY <1>1, <2>1 DEF Live
  <1>5. \A r : Live(r)' => Live(r)
    BY <1>1, <1>3, <1>4 DEF Live, Firm
  <1>6. db' = None /\ group' = None
    BY <1>0, <1>1 DEF SequenceInv
  <1> QED
    BY <1>0, <1>5, <1>6, LessIsLive

\* A store recovers: its tables hold what its logs held, and it knows the last number.
LEMMA OpenRecords ==
  ASSUME IInv, Core', Open, edit' # None
  PROVE  BoundInv' /\ SequenceInv'
  <1> DEFINE m == Last(manifests[current].recs)
  <1>s. Types /\ Core /\ BoundInv /\ SequenceInv
    BY DEF IInv, Core, Types
  <1>0. /\ db = None /\ edit = None /\ m \in ManifestStates /\ m \in PossibleStates
        /\ UNCHANGED <<manifests, current, db, group>>
    BY <1>s, Opened
  <1>1. PICK a :
          /\ a = RecoverLogFiles(m)
          /\ edit' \in Edits /\ edit' # None /\ edit'.at = "append" /\ edit'.owner = "open"
          /\ edit'.manifest = m.next /\ edit'.state \in ManifestStates
          /\ edit'.state.log = a.next /\ edit'.state.next = a.next + 1
          /\ Files(edit'.state) = Files(m) \cup DOMAIN a.new
          /\ m.last <= edit'.state.last
          /\ \A r : InLogs(logs, m.log, r) => LastOf(r) <= edit'.state.last
          /\ Files(m) \subseteq DOMAIN tables
          /\ DOMAIN tables' = DOMAIN tables \cup DOMAIN a.new
          /\ \A n \in DOMAIN a.new : tables'[n] = a.new[n]
          /\ \A n \in DOMAIN tables \ DOMAIN a.new : tables'[n] = tables[n]
          /\ logs' = Put(logs, a.next, EmptyFile)
          /\ \A n \in DOMAIN logs : n < a.next
    BY <1>s, Opened
  <1> HIDE DEF m
  <1>2. \A k \in DOMAIN a.new : \A r \in a.new[k] : InLogs(logs, m.log, r)
    <2>1. \A k \in DOMAIN a.new : \A r \in a.new[k] :
              \E n \in DOMAIN logs : n >= m.log /\ r \in LogRecords(n, Len(logs[n].recs))
      BY <1>s, <1>0, <1>1, Recovered
    <2>2. \A n \in DOMAIN logs : LogRecords(n, Len(logs[n].recs)) = {logs[n].recs[i] : i \in DOMAIN logs[n].recs}
      BY <1>s, LogsHold
    <2> QED
      BY <2>1, <2>2 DEF InLogs
  <1>3. \A r : OnDisk(tables, logs, m, r) => Live(r)
    BY <1>0 DEF Live
  <1>4. \A N, r : InTables(tables', N, r) => InTables(tables, N, r) \/ InLogs(logs, m.log, r)
    <2> SUFFICES ASSUME NEW N, NEW r, InTables(tables', N, r)
                 PROVE  InTables(tables, N, r) \/ InLogs(logs, m.log, r)
      OBVIOUS
    <2>1. PICK n \in N \cap DOMAIN tables' : r \in tables'[n]
      BY DEF InTables
    <2>2. CASE n \in DOMAIN a.new
      BY <1>1, <1>2, <2>1, <2>2
    <2>3. CASE n \notin DOMAIN a.new
      BY <1>1, <2>1, <2>3 DEF InTables
    <2> QED
      BY <2>2, <2>3
  <1>5. \A k, r : InLogs(logs', k, r) => InLogs(logs, k, r)
    BY <1>1, LogsMove
  <1>6. \A r : ~InLogs(logs, a.next, r)
    <2>1. a.next \in Nat /\ \A n \in DOMAIN logs : n \in Nat
      BY <1>s, <1>0, <1>1, Recovered DEF Types, FileTypes, FilesOf
    <2> QED
      BY <1>1, <2>1 DEF InLogs
  <1>7. \A r : OnDisk(tables', logs', edit'.state, r) => OnDisk(tables, logs, m, r)
    <2> SUFFICES ASSUME NEW r, OnDisk(tables', logs', edit'.state, r) PROVE OnDisk(tables, logs, m, r)
      OBVIOUS
    <2>1. InTables(tables', Files(m) \cup DOMAIN a.new, r)
      BY <1>1, <1>5, <1>6 DEF OnDisk
    <2>2. PICK n \in (Files(m) \cup DOMAIN a.new) \cap DOMAIN tables' : r \in tables'[n]
      BY <2>1 DEF InTables
    <2>3. CASE n \in DOMAIN a.new
      BY <1>1, <1>2, <2>2, <2>3 DEF OnDisk
    <2>4. CASE n \notin DOMAIN a.new
      BY <1>1, <2>2, <2>4 DEF OnDisk, InTables
    <2> QED
      BY <2>3, <2>4
  <1>8. PossibleStates' = PossibleStates
    BY <1>0 DEF PossibleStates
  <1>9. \A k \in PossibleStates : \A r : OnDisk(tables', logs', k, r) => Live(r)
    <2> SUFFICES ASSUME NEW k \in PossibleStates, NEW r, OnDisk(tables', logs', k, r) PROVE Live(r)
      OBVIOUS
    <2>1. OnDisk(tables, logs, k, r) \/ InLogs(logs, m.log, r)
      BY <1>4, <1>5 DEF OnDisk
    <2> QED
      BY <1>3, <2>1 DEF Live, OnDisk
  <1>10. \A r : Live(r)' => Live(r)
    BY <1>0, <1>3, <1>7, <1>8, <1>9 DEF Live, Firm
  <1>11. \A r : OnDisk(tables', logs', edit'.state, r) => LastOf(r) <= edit'.state.last
    <2> SUFFICES ASSUME NEW r, OnDisk(tables', logs', edit'.state, r) PROVE LastOf(r) <= edit'.state.last
      OBVIOUS
    <2>1. OnDisk(tables, logs, m, r)
      BY <1>7
    <2>2. CASE InTables(tables, Files(m), r)
      <3>1. LastOf(r) <= m.last
        BY <1>0, <2>2 DEF IInv, RisingInv, Within
      <3>2. r \in Records
        BY <1>s, <2>2 DEF Types, FileTypes, InTables
      <3>3. LastOf(r) \in Int
        BY <3>2, RecordSize DEF LastOf
      <3>4. m.last \in Nat /\ edit'.state.last \in Nat
        BY <1>0, <1>1, Fields
      <3> QED
        BY <1>1, <3>1, <3>3, <3>4
    <2> QED
      BY <1>1, <2>1, <2>2 DEF OnDisk
  <1>12. db' = None /\ group' = None
    BY <1>s, <1>0 DEF SequenceInv
  <1> QED
    BY <1>s, <1>10, <1>11, <1>12, LessIsLive

\* The store is open: all that is live is what it recovered.
LEMMA OpenDoneRecords ==
  ASSUME IInv, Core', OpenDone
  PROVE  BoundInv' /\ SequenceInv'
  <1>0. /\ Types /\ Core /\ BoundInv /\ SequenceInv
        /\ edit # None /\ edit.owner = "open" /\ edit' = None /\ UNCHANGED group
    BY DEF IInv, Core, Types, OpenDone, client
  <1>1. /\ \A k \in PossibleStates' : k = edit.state
        /\ db' # None /\ Files(db') = Files(edit.state) /\ db'.log = edit.state.log
        /\ db'.last = edit.state.last /\ db'.mem = {} /\ db'.imm = None /\ db'.pending = {}
        /\ DOMAIN tables' \subseteq DOMAIN tables /\ \A n \in DOMAIN tables' : tables'[n] = tables[n]
        /\ \A n \in DOMAIN logs' : n \in DOMAIN logs /\ logs'[n] = logs[n]
    BY <1>0, CoreOpenDone
  <1>2. /\ \A N, r : InTables(tables', N, r) => InTables(tables, N, r)
        /\ \A k, r : InLogs(logs', k, r) => InLogs(logs, k, r)
    BY <1>1, TablesMove, LogsMove
  <1>3. \A r : OnDisk(tables', logs', edit.state, r) => OnDisk(tables, logs, edit.state, r)
    BY <1>2 DEF OnDisk
  <1>4. \A r : OnDisk(tables', logs', db', r) => OnDisk(tables, logs, edit.state, r)
    BY <1>1, <1>2 DEF OnDisk
  <1>5. \A r : Firm(r)' => OnDisk(tables, logs, edit.state, r)
    <2>1. \A r : Firm(r)' => InTables(tables', Files(db') \cup db'.pending, r)
      BY <1>0, <1>1 DEF Firm, InMemory
    <2>2. Files(db') \cup db'.pending = Files(edit.state)
      BY <1>1
    <2> QED
      BY <1>2, <2>1, <2>2 DEF OnDisk
  <1>6. \A r : Live(r)' => OnDisk(tables, logs, edit.state, r)
    BY <1>0, <1>1, <1>3, <1>4, <1>5 DEF Live
  <1>7. \A r : OnDisk(tables, logs, edit.state, r) => LastOf(r) <= db'.last
    BY <1>0, <1>1 DEF SequenceInv
  <1>8. \A r : Live(r)' => Live(r) /\ LastOf(r) <= db'.last
    BY <1>0, <1>6, <1>7 DEF Live
  <1>9. \A r : Firm(r)' => LastOf(r) <= db'.last
    BY <1>5, <1>7
  <1>10. group' = None
    <2>1. db = None
      BY <1>0 DEF Core, StoreInv
    <2> QED
      BY <1>0, <2>1 DEF SequenceInv
  <1>11. BoundInv'
    BY <1>0, <1>8, BoundKept
  <1>12. \A r, q : Live(r)' /\ Live(q)' /\ r # q => Apart(r, q)
    BY <1>0, <1>8 DEF SequenceInv
  <1> QED
    BY <1>0, <1>8, <1>9, <1>10, <1>11, <1>12 DEF SequenceInv, Apart, LastOf

\* Calls of writers and readers, and the call that closes.
LEMMA CallsRecords ==
  ASSUME IInv, Core', (\E t \in Threads : Enqueue(t)) \/ NewIterator \/ DeleteIterator \/ Close
  PROVE  BoundInv' /\ SequenceInv'
  <1>0. Types /\ Core /\ BoundInv /\ SequenceInv
    BY DEF IInv, Core, Types
  <1>1. db # None /\ UNCHANGED <<logs, tables, manifests, current, edit, group>>
    BY <1>0 DEF Enqueue, NewIterator, DeleteIterator, Close, disk, client, Core, StoreInv
  <1>2. CASE UNCHANGED db
    BY <1>1, <1>2, RecordsStay
  <1>3. CASE Close
    <2>1. db \in Stores /\ db' = [db EXCEPT !.shutting = TRUE]
      BY <1>0, <1>1, <1>3 DEF Close, Core, StoreTypes
    <2>2. /\ db' \in Stores /\ db'.l0 = db.l0 /\ db'.deep = db.deep /\ db'.log = db.log
          /\ db'.pending = db.pending /\ db'.mem = db.mem /\ db'.imm = db.imm /\ db'.last = db.last
      BY <2>1 DEF Stores
    <2>3. db' # None /\ \A r : InMemory(db', r) => InMemory(db, r)
      BY <2>2, Fields DEF InMemory
    <2>4. /\ \A r : Firm(r)' => Firm(r)
          /\ \A r : Live(r)' => Live(r) \/ NewRecord(r)
      BY <1>0, <1>1, <2>2, <2>3, LogMoves
    <2>5. edit' # None => edit'.owner # "open"
      BY <2>3 DEF Core, StoreInv
    <2>6. BoundInv'
      BY <1>0, <2>4, BoundKept
    <2>7. SequenceInv'
      BY <1>0, <1>1, <2>2, <2>3, <2>4, <2>5, SequenceKept
    <2> QED
      BY <2>6, <2>7
  <1> QED
    BY <1>2, <1>3 DEF Enqueue, NewIterator, DeleteIterator

-----------------------------------------------------------------------------
(* Numbers rise *)

\* The numbers of states, edits and the store, and of what they have.
LEMMA Numerals ==
  ASSUME Core
  PROVE  /\ \A m \in PossibleStates : m.next \in Nat /\ m.last \in Nat /\ Files(m) \in SUBSET Nat
         /\ edit # None => /\ edit.state.next \in Nat /\ edit.state.last \in Nat
                           /\ Files(edit.state) \in SUBSET Nat
         /\ db # None => /\ db.next \in Nat /\ db.last \in Nat /\ Files(db) \in SUBSET Nat
                         /\ Base \in PossibleStates
         /\ \A N, r : InTables(tables, N, r) => LastOf(r) \in Int
  <1>1. PossibleStates \in SUBSET ManifestStates
    BY Possible
  <1>2. edit # None => edit.state \in ManifestStates
    BY Fields DEF Core, StoreTypes
  <1>3. db # None => db \in Stores /\ Base \in PossibleStates
    BY StoreHasStates, LastIsPossible DEF Core, StoreTypes, Base
  <1>4. \A N, r : InTables(tables, N, r) => LastOf(r) \in Int
    <2>1. \A N, r : InTables(tables, N, r) => r \in Records
      BY DEF Core, FileTypes, InTables
    <2> QED
      BY <2>1, RecordSize DEF LastOf
  <1> QED
    BY <1>1, <1>2, <1>3, <1>4, Fields

\* The same of the state after a step.
LEMMA NumeralsNext ==
  (Core => /\ \A m \in PossibleStates : m.next \in Nat /\ m.last \in Nat /\ Files(m) \in SUBSET Nat
           /\ edit # None => /\ edit.state.next \in Nat /\ edit.state.last \in Nat
                             /\ Files(edit.state) \in SUBSET Nat
           /\ db # None => /\ db.next \in Nat /\ db.last \in Nat /\ Files(db) \in SUBSET Nat
                           /\ Base \in PossibleStates
           /\ \A N, r : InTables(tables, N, r) => LastOf(r) \in Int)'
  BY Numerals, PTL

\* A store at work: its numbers do not fall, and its new tables have new ones.
LEMMA RisingKept ==
  ASSUME IInv, Core', SequenceInv', db # None, db' # None, current' = current, Base' = Base,
         \A m \in PossibleStates' : m \in PossibleStates,
         db.next <= db'.next, db.last <= db'.last,
         \A n \in DOMAIN tables' : n < db.next => n \in DOMAIN tables /\ tables'[n] = tables[n],
         \A n \in Files(db') \cup db'.pending : n < db'.next,
         \/ edit' \in {edit, None}
         \/ /\ edit' # None /\ edit'.state.next = db'.next /\ edit'.state.last = db'.last
            /\ \A n \in Files(edit'.state) : n < db'.next
  PROVE  RisingInv'
  <1>0. /\ Core /\ RisingInv /\ Rises(Base, db) /\ Base \in PossibleStates
        /\ Base.next \in Nat /\ Base.last \in Nat /\ db.next \in Nat /\ db.last \in Nat
        /\ db'.next \in Nat /\ db'.last \in Nat /\ current' # 0 /\ manifests'[current'].recs # <<>>
    BY Numerals, NumeralsNext, StoreHasStatesNext DEF IInv, RisingInv
  <1>1. \A k : (Files(k) \in SUBSET Nat /\ k.next \in Nat /\ k.next <= db.next /\ Within(tables, k))
                 => Within(tables', k)
    <2> SUFFICES ASSUME NEW k, Files(k) \in SUBSET Nat, k.next \in Nat, k.next <= db.next, Within(tables, k)
                 PROVE  Within(tables', k)
      OBVIOUS
    <2>1. \A n \in Files(k) : n < db.next
      BY <1>0 DEF Within
    <2>2. \A r : InTables(tables', Files(k), r) => InTables(tables, Files(k), r)
      BY <2>1 DEF InTables
    <2> QED
      BY <2>2 DEF Within
  <1>2. \A m \in PossibleStates : Rises(m, Base) /\ Within(tables', m)
    BY <1>0, <1>1, Numerals DEF RisingInv, Rises
  <1>3. Rises(Base, db')
    BY <1>0 DEF Rises
  <1>s. \A x \in Nat : (x <= db.next => x <= db'.next) /\ (x <= db.last => x <= db'.last)
    BY <1>0
  <1>4. CASE edit' # None /\ edit' = edit
    <2>1. /\ Rises(Base, edit.state) /\ Within(tables, edit.state) /\ Rises(edit.state, db)
          /\ edit.state.next \in Nat /\ edit.state.last \in Nat /\ Files(edit.state) \in SUBSET Nat
      BY <1>0, <1>4, Numerals DEF RisingInv
    <2>2. Rises(edit.state, db') /\ edit.state.next <= db.next
      <3>1. edit.state.next <= db.next /\ edit.state.last <= db.last
        BY <2>1 DEF Rises
      <3>2. edit.state.next <= db'.next /\ edit.state.last <= db'.last
        BY <1>s, <2>1, <3>1
      <3> QED
        BY <3>1, <3>2 DEF Rises
    <2>3. Within(tables', edit.state)
      BY <1>1, <2>1, <2>2
    <2> QED
      BY <1>0, <1>2, <1>3, <1>4, <2>1, <2>2, <2>3 DEF RisingInv
  <1>5. CASE edit' # None /\ edit'.state.next = db'.next /\ edit'.state.last = db'.last
             /\ \A n \in Files(edit'.state) : n < db'.next
    <2>1. \A r : InTables(tables', Files(edit'.state), r) => LastOf(r) <= db'.last
      BY <1>5 DEF SequenceInv, Firm
    <2>2. Within(tables', edit'.state)
      BY <1>5, <2>1 DEF Within
    <2>3. Rises(Base, edit'.state) /\ Rises(edit'.state, db')
      BY <1>0, <1>3, <1>5 DEF Rises
    <2> QED
      BY <1>0, <1>2, <1>3, <1>5, <2>2, <2>3 DEF RisingInv
  <1>6. CASE edit' = None
    BY <1>0, <1>2, <1>3, <1>6 DEF RisingInv
  <1> QED
    BY <1>4, <1>5, <1>6

\* Steps of writers, readers and the background thread.
LEMMA WorkRises ==
  ASSUME IInv, Core', SequenceInv',
         \/ \E t \in Threads : Enqueue(t) \/ Writing(t)
         \/ NewIterator \/ DeleteIterator \/ Close
         \/ CompactMemTable \/ StartCompaction \/ MoveTable \/ FinishCompaction \/ NothingToDo
         \/ EditFails /\ edit.owner # "open"
  PROVE  RisingInv'
  <1>0. /\ Core /\ ThreadTypes /\ QueueInv /\ RisingInv
        /\ db # None => /\ \A n \in Files(db) \cup db.pending : n < db.next
                        /\ db.next \in Nat /\ db.last \in Nat
    BY Numerals DEF IInv, RisingInv
  <1>1. ASSUME NEW t \in Threads, Writing(t) PROVE RisingInv'
    <2>1. /\ db # None /\ db' # None /\ UNCHANGED <<tables, manifests, current, edit>>
          /\ Files(db') = Files(db) /\ db'.pending = db.pending /\ db'.next \in Nat
          /\ db.next <= db'.next /\ db.last <= db'.last
      BY <1>0, <1>1, WritingKeeps, NumeralsNext DEF Files
    <2>2. PossibleStates' = PossibleStates /\ Base' = Base
      BY <2>1 DEF PossibleStates, Base
    <2>3. \A n \in Files(db) \cup db.pending : n < db'.next
      <3>1. Files(db) \cup db.pending \in SUBSET Nat
        BY <1>0, <2>1, StoreFacts, Fields
      <3> QED
        BY <1>0, <2>1, <3>1
    <2> QED
      BY <2>1, <2>2, <2>3, RisingKept
  <1>2. CASE (\E t \in Threads : Enqueue(t)) \/ NewIterator \/ DeleteIterator \/ Close
    <2>1. /\ db # None /\ UNCHANGED <<tables, manifests, current, edit>>
          /\ db' = db \/ db' = [db EXCEPT !.shutting = TRUE]
      BY <1>0, <1>2 DEF Enqueue, NewIterator, DeleteIterator, Close, disk, Core, StoreInv
    <2>2. /\ db' # None /\ Files(db') = Files(db) /\ db'.pending = db.pending
          /\ db'.next = db.next /\ db'.last = db.last
      <3> DEFINE e == [db EXCEPT !.shutting = TRUE]
      <3>1. db \in Stores
        BY <1>0, <2>1, StoreFacts
      <3>2. /\ e \in Stores /\ e.l0 = db.l0 /\ e.deep = db.deep /\ e.pending = db.pending
            /\ e.next = db.next /\ e.last = db.last
        BY <3>1 DEF Stores
      <3>3. db' = db \/ db' = e
        BY <2>1
      <3> HIDE DEF e
      <3> QED
        BY <3>1, <3>2, <3>3, Fields DEF Files
    <2>3. PossibleStates' = PossibleStates /\ Base' = Base
      BY <2>1 DEF PossibleStates, Base
    <2> QED
      BY <1>0, <2>1, <2>2, <2>3, RisingKept
  <1>3. CASE CompactMemTable
    <2>1. /\ db # None /\ edit = None /\ UNCHANGED <<manifests, current>> /\ db' # None
          /\ Files(db') = Files(db) /\ db'.pending = db.pending
          /\ db'.next = db.next + 1 /\ db'.last = db.last
          /\ tables' = tables \/ tables' = Put(tables, db.next, db.imm)
          /\ \/ edit' = edit
             \/ /\ Begun(edit', db') /\ Files(edit'.state) \subseteq Files(db) \cup {db.next}
      BY <1>0, <1>3, MemTableSteps DEF Files
    <2>2. PossibleStates' = PossibleStates /\ Base' = Base
      BY <2>1 DEF PossibleStates, Base
    <2>3. \A n \in Files(db) \cup db.pending \cup {db.next} : n < db'.next
      <3>1. Files(db) \cup db.pending \in SUBSET Nat
        BY <1>0, <2>1, StoreFacts, Fields
      <3> QED
        BY <1>0, <2>1, <3>1
    <2>4. \A n \in DOMAIN tables' : n < db.next => n \in DOMAIN tables /\ tables'[n] = tables[n]
      BY <1>0, <2>1 DEF Put
    <2>5. edit' \in {edit, None} \/ (edit' # None /\ edit'.state.next = db'.next /\ edit'.state.last = db'.last
            /\ \A n \in Files(edit'.state) : n < db'.next)
      BY <2>1, <2>3, Fields DEF Begun
    <2> QED
      BY <1>0, <2>1, <2>2, <2>3, <2>4, <2>5, RisingKept
  <1>4. CASE StartCompaction
    <2>1. /\ db # None /\ UNCHANGED <<manifests, current, edit>> /\ db \in Stores
          /\ db' = [db EXCEPT !.next = @ + 1, !.pending = @ \cup {db.next}]
          /\ \E x : tables' = Put(tables, db.next, x)
      BY <1>0, <1>4, StoreFacts DEF StartCompaction, MayWork, BackgroundIdle
    <2>2. /\ db' # None /\ Files(db') = Files(db) /\ db'.pending = db.pending \cup {db.next}
          /\ db'.next = db.next + 1 /\ db'.last = db.last
      <3>1. /\ db'.l0 = db.l0 /\ db'.deep = db.deep /\ db'.pending = db.pending \cup {db.next}
            /\ db'.next = db.next + 1 /\ db'.last = db.last
        BY <2>1 DEF Stores
      <3>2. db' # None
        <4> DEFINE e == [db EXCEPT !.next = @ + 1]
                   P == db.pending \cup {db.next}
        <4>1. P \in SUBSET Nat /\ db' = [e EXCEPT !.pending = P]
          <5>1. P \in SUBSET Nat
            BY <1>0, <2>1, Fields
          <5>2. db' = [e EXCEPT !.pending = P]
            BY <2>1 DEF Stores
          <5> QED
            BY <5>1, <5>2
        <4>2. e \in Stores
          BY <2>1, Numbered
        <4>3. [e EXCEPT !.pending = P] \in Stores
          <5> HIDE DEF e, P
          <5> QED
            BY <4>1, <4>2, PendingChanges
        <4> QED
          BY <4>1, <4>3, Fields
      <3> QED
        BY <3>1, <3>2 DEF Files
    <2>3. PossibleStates' = PossibleStates /\ Base' = Base
      BY <2>1 DEF PossibleStates, Base
    <2>4. \A n \in Files(db') \cup db'.pending : n < db'.next
      <3>1. Files(db) \cup db.pending \in SUBSET Nat
        BY <2>1, Fields
      <3> QED
        BY <1>0, <2>1, <2>2, <3>1
    <2>5. \A n \in DOMAIN tables' : n < db.next => n \in DOMAIN tables /\ tables'[n] = tables[n]
      BY <1>0, <2>1 DEF Put
    <2> QED
      BY <1>0, <2>1, <2>2, <2>3, <2>4, <2>5, RisingKept
  <1>5. CASE MoveTable
    <2>1. /\ db # None /\ UNCHANGED <<tables, manifests, current, db>>
          /\ edit' # None /\ edit'.state.next = db.next /\ edit'.state.last = db.last
          /\ Files(edit'.state) = Files(db)
      BY <1>0, <1>5, MoveSteps, Fields DEF Begun
    <2>2. PossibleStates' = PossibleStates /\ Base' = Base
      BY <2>1 DEF PossibleStates, Base
    <2> QED
      BY <1>0, <2>1, <2>2, RisingKept
  <1>6. CASE FinishCompaction \/ NothingToDo \/ (EditFails /\ edit.owner # "open")
    <2>1. /\ db # None /\ db' # None /\ UNCHANGED <<tables, manifests, current>>
          /\ Files(db') = Files(db) /\ db'.pending \subseteq db.pending
          /\ db'.next = db.next /\ db'.last = db.last
          /\ \/ edit' \in {edit, None}
             \/ /\ bg # None /\ Begun(edit', db)
                /\ Files(edit'.state) \subseteq Files(db) \cup {bg.out}
      BY <1>0, <1>6, EndsKeep DEF Files
    <2>2. PossibleStates' = PossibleStates /\ Base' = Base
      BY <2>1 DEF PossibleStates, Base
    <2>3. bg # None => bg.out < db.next
      BY <1>0, <2>1 DEF Core, TablesInv
    <2>4. edit' \in {edit, None} \/ (edit' # None /\ edit'.state.next = db'.next /\ edit'.state.last = db'.last
            /\ \A n \in Files(edit'.state) : n < db'.next)
      BY <1>0, <2>1, <2>3, Fields DEF Begun
    <2>5. /\ db.next <= db'.next /\ db.last <= db'.last
          /\ \A n \in Files(db') \cup db'.pending : n < db'.next
          /\ \A n \in DOMAIN tables' : n < db.next => n \in DOMAIN tables /\ tables'[n] = tables[n]
      BY <1>0, <2>1
    <2> QED
      BY <2>1, <2>2, <2>4, <2>5, RisingKept
  <1> QED
    BY <1>1, <1>2, <1>3, <1>4, <1>5, <1>6

\* Of tables that go none is missed here.
LEMMA WithinFewer ==
  ASSUME NEW m, Within(tables, m),
         \A n \in DOMAIN tables' : n \in Files(m) => n \in DOMAIN tables /\ tables'[n] = tables[n]
  PROVE  Within(tables', m)
  BY DEF Within, InTables

\* The table is installed.
LEMMA InstalledRises ==
  ASSUME IInv, Core', SequenceInv', MemTableInstalled \/ CompactionInstalled \/ MoveInstalled
  PROVE  RisingInv'
  <1>0. /\ Core /\ RisingInv /\ FileTypes /\ edit # None /\ edit.owner # "open" /\ edit' = None /\ current' = current
    BY DEF IInv, Core, MemTableInstalled, CompactionInstalled, MoveInstalled, disk
  <1>1. db # None /\ db \in Stores /\ db.pending \in SUBSET Nat /\ db.next \in Nat /\ db.last \in Nat
    <2>1. db # None
      BY <1>0 DEF Core, StoreInv
    <2> QED
      BY <1>0, <2>1, StoreFacts, Fields
  <1>2. /\ edit.state.l0 \in SUBSET Nat /\ edit.state.deep \in SUBSET Nat /\ edit.state.log \in Nat
        /\ edit.state.next \in Nat /\ Files(edit.state) \in SUBSET Nat
    <2>1. edit \in Edits
      BY <1>0 DEF Core, StoreTypes
    <2>2. edit.state \in ManifestStates
      BY <2>1, Fields
    <2> QED
      BY <2>2, Fields
  <1> DEFINE e == Installed(db)
  <1>3. /\ e \in Stores /\ e.l0 = edit.state.l0 /\ e.deep = edit.state.deep
        /\ e.pending = db.pending /\ e.next = db.next /\ e.last = db.last /\ e.manifest = db.manifest
    BY <1>1, <1>2 DEF Stores, Installed
  <1> HIDE DEF e
  <1>4. ASSUME NEW d \in Stores, DeleteObsoleteFiles(d) \/ UNCHANGED <<logs, tables, manifests>>,
               db' = d \/ db' = CallEnded(d), d.l0 = e.l0, d.deep = e.deep, d.pending \subseteq e.pending,
               d.next = e.next, d.last = e.last, d.manifest = e.manifest
        PROVE  RisingInv'
    <2>1. SameButCall(d, db')
      BY <1>4, Calls DEF SameButCall
    <2>2. /\ db' # None /\ Files(db') = Files(edit.state) /\ db'.pending \subseteq db.pending
          /\ db'.next = db.next /\ db'.last = db.last
      BY <1>3, <1>4, <2>1, Fields DEF SameButCall, Files
    <2>3. /\ \A n \in DOMAIN tables' : n < db.next => n \in DOMAIN tables /\ tables'[n] = tables[n]
          /\ manifests'[current] = manifests[current]
      <3>1. /\ DOMAIN tables' \subseteq DOMAIN tables /\ \A n \in DOMAIN tables' : tables'[n] = tables[n]
            /\ DOMAIN manifests' \subseteq DOMAIN manifests /\ \A n \in DOMAIN manifests' : manifests'[n] = manifests[n]
        BY <1>0, <1>4, FilesCollected
      <3>2. current \in DOMAIN manifests'
        BY <1>0, <2>2 DEF Core, NumbersInv
      <3> QED
        BY <3>1, <3>2
    <2>4. PossibleStates' = PossibleStates /\ Base' = Base
      BY <1>0, <2>3 DEF PossibleStates, Base
    <2>5. \A n \in Files(db') \cup db'.pending : n < db'.next
      <3>1. /\ \A n \in Files(edit.state) : n < edit.state.next
            /\ edit.state.next <= db.next /\ \A n \in db.pending : n < db.next
        BY <1>0, <1>1 DEF RisingInv, Within, Rises
      <3> QED
        BY <1>1, <1>2, <2>2, <3>1
    <2> QED
      BY <1>0, <1>1, <2>2, <2>3, <2>4, <2>5, RisingKept
  <1>5. CASE MemTableInstalled
    <2> DEFINE d == [e EXCEPT !.imm = None]
    <2>1. d \in Stores
      BY <1>3 DEF Stores
    <2>2. /\ d.l0 = e.l0 /\ d.deep = e.deep /\ d.pending \subseteq e.pending
          /\ d.next = e.next /\ d.last = e.last /\ d.manifest = e.manifest
      BY <1>3, <2>1 DEF Stores
    <2>3. DeleteObsoleteFiles(d) /\ db' = IF bg = None THEN CallEnded(d) ELSE d
      BY <1>5 DEF MemTableInstalled, e
    <2> HIDE DEF d
    <2> QED
      BY <1>4, <2>1, <2>2, <2>3
  <1>6. CASE CompactionInstalled
    <2> DEFINE P == e.pending \ {bg.out}
               d == [e EXCEPT !.pending = P]
    <2>1. d \in Stores
      <3>1. P \in SUBSET Nat
        BY <1>1, <1>3
      <3> HIDE DEF P
      <3> QED
        BY <1>3, <3>1, PendingChanges
    <2>2. /\ d.l0 = e.l0 /\ d.deep = e.deep /\ d.pending \subseteq e.pending
          /\ d.next = e.next /\ d.last = e.last /\ d.manifest = e.manifest
      BY <1>3, <2>1 DEF Stores
    <2>3. DeleteObsoleteFiles(d) /\ db' = CallEnded(d)
      BY <1>6 DEF CompactionInstalled, e
    <2> HIDE DEF d
    <2> QED
      BY <1>4, <2>1, <2>2, <2>3
  <1>7. CASE MoveInstalled
    <2>1. db' = CallEnded(e) /\ UNCHANGED <<logs, tables, manifests>>
      BY <1>7 DEF MoveInstalled, disk, e
    <2> QED
      BY <1>3, <1>4, <2>1
  <1> QED
    BY <1>5, <1>6, <1>7

\* The edit goes to the manifest.
LEMMA ManifestRises ==
  ASSUME IInv, Core', AppendManifest \/ SyncManifest
  PROVE  RisingInv'
  <1>0. /\ Core /\ RisingInv /\ edit # None /\ UNCHANGED <<tables, current, db>>
        /\ \E p \in {"sync", "current", "install"} : edit' = [edit EXCEPT !.at = p]
    BY DEF IInv, AppendManifest, SyncManifest
  <1>1. edit' # None /\ edit'.state = edit.state
    <2>1. edit \in Edits
      BY <1>0 DEF Core, StoreTypes
    <2>2. edit' \in Edits /\ edit'.state = edit.state
      BY <1>0, <2>1 DEF Edits
    <2> QED
      BY <2>2, Fields
  <1> DEFINE e == edit.state
  <1>2. /\ current # 0 /\ manifests[current].recs # <<>> /\ Rises(Base, e) /\ Within(tables, e)
        /\ Base \in PossibleStates /\ Base.next \in Nat /\ Base.last \in Nat /\ Files(Base) \in SUBSET Nat
        /\ e.next \in Nat /\ e.last \in Nat /\ Files(e) \in SUBSET Nat
    <2>1. current # 0 /\ manifests[current].recs # <<>> /\ Rises(Base, e) /\ Within(tables, e)
      BY <1>0 DEF RisingInv
    <2>2. Base \in PossibleStates
      BY <1>0, <2>1, LastIsPossible DEF Base
    <2> QED
      BY <1>0, <2>1, <2>2, Numerals
  <1> HIDE DEF e
  <1>3. CASE Base' = Base /\ PossibleStates' \subseteq PossibleStates /\ manifests'[current].recs # <<>>
    BY <1>0, <1>1, <1>2, <1>3 DEF RisingInv, e
  <1>4. CASE /\ \A m \in PossibleStates' : m \in PossibleStates \/ m = Base'
             /\ Base'.next = e.next /\ Base'.last = e.last /\ Files(Base') \subseteq Files(e) \cup Files(Base)
             /\ manifests'[current].recs # <<>>
    <2>1. Rises(Base', e)
      BY <1>2, <1>4 DEF Rises
    <2>2. Within(tables, Base')
      <3>1. \A n \in Files(Base) : n < e.next
        BY <1>0, <1>2 DEF RisingInv, Within, Rises
      <3>2. \A r : InTables(tables, Files(Base), r) => LastOf(r) <= e.last
        <4> SUFFICES ASSUME NEW r, InTables(tables, Files(Base), r) PROVE LastOf(r) <= e.last
          OBVIOUS
        <4>1. LastOf(r) \in Int /\ LastOf(r) <= Base.last /\ Base.last <= e.last
          BY <1>0, <1>2, Numerals DEF RisingInv, Within, Rises
        <4> QED
          BY <1>2, <4>1
      <3>3. \A r : InTables(tables, Files(Base'), r) => InTables(tables, Files(e), r) \/ InTables(tables, Files(Base), r)
        BY <1>4 DEF InTables
      <3> QED
        BY <1>2, <1>4, <3>1, <3>2, <3>3 DEF Within
    <2>3. \A m \in PossibleStates' : Rises(m, Base') /\ Within(tables, m)
      <3> SUFFICES ASSUME NEW m \in PossibleStates' PROVE Rises(m, Base') /\ Within(tables, m)
        OBVIOUS
      <3>1. CASE m = Base'
        BY <1>2, <1>4, <2>2, <3>1 DEF Rises
      <3>2. CASE m \in PossibleStates
        <4>1. m.next \in Nat /\ m.last \in Nat /\ Rises(m, Base) /\ Within(tables, m)
          BY <1>0, <3>2, Numerals DEF RisingInv
        <4> QED
          BY <1>2, <1>4, <4>1 DEF Rises
      <3> QED
        BY <1>4, <3>1, <3>2
    <2>4. db # None => Rises(e, db) /\ Rises(Base', db)
      BY <1>0, <1>4 DEF RisingInv, Rises, e
    <2>5. db # None => \A n \in Files(db) \cup db.pending : n < db.next
      BY <1>0 DEF RisingInv
    <2> QED
      BY <1>0, <1>1, <1>2, <1>4, <2>1, <2>2, <2>3, <2>4, <2>5 DEF RisingInv, e
  <1>5. CASE AppendManifest
    <2>1. CASE edit.owner = "open"
      <3>1. PossibleStates' = PossibleStates /\ manifests'[current] = manifests[current]
        BY <1>0, <1>5, <2>1, CoreAppend
      <3> QED
        BY <1>0, <1>2, <1>3, <3>1 DEF Base
    <2>2. CASE edit.owner # "open"
      <3>1. db # None
        BY <1>0, <2>2 DEF Core, StoreInv
      <3>2. manifests'[current].recs # <<>>
        BY <1>0, <3>1, StoreHasStatesNext
      <3>3. /\ Base' = Applied(Base)
            /\ \A m \in PossibleStates' : m \in PossibleStates \/ m = Base'
        BY <1>0, <1>5, <2>2, CoreAppend DEF Base
      <3>4. Base'.next = e.next /\ Base'.last = e.last /\ Files(Base') \subseteq Files(e) \cup Files(Base)
        BY <1>0, <2>2, <3>3, AppliedState DEF Base, e
      <3> QED
        BY <1>4, <3>2, <3>3, <3>4
    <2> QED
      BY <2>1, <2>2
  <1>6. CASE SyncManifest
    <2>1. PossibleStates' \subseteq PossibleStates /\ manifests'[current].recs = manifests[current].recs
      BY <1>0, <1>6, CoreSync
    <2> QED
      BY <1>0, <1>2, <1>3, <2>1 DEF Base
  <1> QED
    BY <1>5, <1>6

\* A manifest that is synced has one state to be found: its last.
LEMMA OneState ==
  ASSUME FilesOf(manifests, ManifestStates), current \in DOMAIN manifests, NEW m \in PossibleStates,
         manifests[current].synced = Len(manifests[current].recs)
  PROVE  m = Base /\ manifests[current].recs # <<>>
  <1>1. PICK i \in DOMAIN manifests[current].recs : i >= manifests[current].synced /\ m = manifests[current].recs[i]
    BY Possible
  <1>2. manifests[current].recs \in Seq(ManifestStates)
    BY DEF FilesOf, File
  <1>3. i = Len(manifests[current].recs) /\ manifests[current].recs # <<>>
    BY <1>1, <1>2
  <1> QED
    BY <1>1, <1>3 DEF Base, Last

LEMMA OneStateNext ==
  (FilesOf(manifests, ManifestStates) /\ current \in DOMAIN manifests
     /\ manifests[current].synced = Len(manifests[current].recs)
   => \A m \in PossibleStates : m = Base /\ manifests[current].recs # <<>>)'
  <1>1. FilesOf(manifests, ManifestStates) /\ current \in DOMAIN manifests
          /\ manifests[current].synced = Len(manifests[current].recs)
        => \A m \in PossibleStates : m = Base /\ manifests[current].recs # <<>>
    BY OneState
  <1> QED
    BY <1>1, PTL

\* A store that opens: it recovers, or fails to.
LEMMA OpenRises ==
  ASSUME IInv, Core', SequenceInv', Open
  PROVE  RisingInv'
  <1>0. Types /\ Core /\ BoundInv /\ RisingInv
    BY DEF IInv, Core, Types
  <1>1. /\ db = None /\ edit = None /\ current # 0 /\ manifests[current].recs # <<>>
        /\ UNCHANGED <<manifests, current, db>>
    BY DEF Open
  <1>2. /\ PossibleStates' = PossibleStates /\ Base' = Base /\ Base \in PossibleStates /\ Base \in ManifestStates
    BY <1>0, <1>1, LastIsPossible DEF PossibleStates, Base
  <1>3. Base.next \in Nat /\ Base.last \in Nat /\ Files(Base) \in SUBSET Nat
    BY <1>2, Fields
  <1>4. ASSUME NEW N \in SUBSET Nat, \A n \in N : Base.next < n,
               DOMAIN tables' = DOMAIN tables \cup N, \A n \in DOMAIN tables' : n \notin N => tables'[n] = tables[n]
        PROVE  \A m \in PossibleStates' : Rises(m, Base) /\ Within(tables', m)
    <2> TAKE m \in PossibleStates'
    <2>1. m.next \in Nat /\ Files(m) \in SUBSET Nat /\ Rises(m, Base) /\ Within(tables, m)
      BY <1>0, <1>2, Numerals DEF RisingInv
    <2>2. \A n \in Files(m) : n < m.next /\ m.next <= Base.next
      BY <2>1 DEF Within, Rises
    <2>3. \A n \in Files(m) : n \notin N
      BY <1>3, <1>4, <2>1, <2>2
    <2>4. Within(tables', m)
      BY <1>4, <2>1, <2>3, WithinFewer
    <2> QED
      BY <2>1, <2>4
  <1>5. CASE edit' = None
    <2>1. PICK N \in SUBSET Nat :
            /\ DOMAIN tables' = DOMAIN tables \cup N
            /\ \A n \in DOMAIN tables' : n \notin N => tables'[n] = tables[n]
            /\ \A n \in N : Base.next < n
      BY <1>0, <1>5, OpenFailed DEF Base
    <2>2. \A m \in PossibleStates' : Rises(m, Base) /\ Within(tables', m)
      BY <1>4, <2>1
    <2> QED
      BY <1>1, <1>2, <1>5, <2>2 DEF RisingInv
  <1>6. CASE edit' # None
    <2>1. PICK a :
            /\ a = RecoverLogFiles(Base)
            /\ edit'.owner = "open" /\ edit'.state \in ManifestStates
            /\ edit'.state.next = a.next + 1 /\ Files(edit'.state) = Files(Base) \cup DOMAIN a.new
            /\ Base.last <= edit'.state.last
            /\ DOMAIN tables' = DOMAIN tables \cup DOMAIN a.new
            /\ \A n \in DOMAIN tables \ DOMAIN a.new : tables'[n] = tables[n]
      BY <1>0, <1>6, Opened DEF Base
    <2>2. /\ a.next \in Nat /\ Base.next < a.next /\ DOMAIN a.new \in SUBSET Nat
          /\ \A k \in DOMAIN a.new : Base.next < k /\ k <= a.next
      BY <1>0, <1>2, <2>1, Recovered, RecoveredAll
    <2>3. \A m \in PossibleStates' : Rises(m, Base) /\ Within(tables', m)
      <3>1. \A n \in DOMAIN tables' : n \notin DOMAIN a.new => tables'[n] = tables[n]
        BY <2>1
      <3> QED
        BY <1>4, <2>1, <2>2, <3>1
    <2>4. Rises(Base, edit'.state)
      BY <1>3, <2>1, <2>2 DEF Rises
    <2>5. \A n \in Files(edit'.state) : n < edit'.state.next
      <3>1. \A n \in Files(Base) : n < Base.next
        BY <1>0, <1>2 DEF RisingInv, Within
      <3> QED
        BY <1>3, <2>1, <2>2, <3>1
    <2>6. \A r : InTables(tables', Files(edit'.state), r) => LastOf(r) <= edit'.state.last
      BY <1>6, <2>1 DEF SequenceInv, OnDisk
    <2> QED
      BY <1>1, <1>2, <1>6, <2>3, <2>4, <2>5, <2>6 DEF RisingInv, Within
  <1> QED
    BY <1>5, <1>6

\* It names its manifest, it has opened, or its manifest is deleted.
LEMMA OpenedRises ==
  ASSUME IInv, Core', SetCurrentFile \/ OpenDone \/ (EditFails /\ edit.owner = "open")
  PROVE  RisingInv'
  <1>0. Core /\ RisingInv /\ edit # None /\ edit \in Edits
    BY DEF IInv, Core, StoreTypes, SetCurrentFile, OpenDone, EditFails
  <1> DEFINE s == edit.state
  <1>1. /\ Within(tables, s) /\ s.next \in Nat /\ s.last \in Nat /\ Rises(s, s)
        /\ current # 0 /\ manifests[current].recs # <<>>
    <2>1. s.next \in Nat /\ s.last \in Nat
      BY <1>0, Numerals
    <2> QED
      BY <1>0, <2>1 DEF RisingInv, Rises
  <1>2. CASE SetCurrentFile
    <2>1. /\ edit.at = "current" /\ edit' = [edit EXCEPT !.at = "install"]
          /\ current' = edit.manifest /\ UNCHANGED <<tables, manifests, db>>
      BY <1>2 DEF SetCurrentFile
    <2>2. db = None /\ edit.owner = "open"
      BY <1>0, <2>1 DEF Core, StoreInv
    <2>3. edit' # None /\ edit'.state = s
      <3>1. edit' \in Edits /\ edit'.state = s
        BY <1>0, <2>1 DEF Edits
      <3> QED
        BY <3>1, Fields
    <2>4. /\ edit.manifest \in DOMAIN manifests /\ manifests[edit.manifest].recs # <<>>
          /\ Last(manifests[edit.manifest].recs) = s
          /\ manifests[edit.manifest].synced = Len(manifests[edit.manifest].recs)
      BY <1>0, <2>1, <2>2 DEF Core, EditInv
    <2>5. Base' = s /\ manifests'[current'].recs # <<>>
      BY <2>1, <2>4 DEF Base
    <2>6. \A m \in PossibleStates' : m = s
      <3>1. /\ FilesOf(manifests', ManifestStates) /\ current' \in DOMAIN manifests'
            /\ manifests'[current'].synced = Len(manifests'[current'].recs)
        BY <2>1, <2>4 DEF Core, FileTypes
      <3> QED
        BY <2>5, <3>1, OneStateNext
    <2>7. current' # 0
      <3>1. edit'.at = "install" /\ edit'.owner = "open"
        BY <1>0, <2>1, <2>2 DEF Edits
      <3>2. 1 < current' /\ current' \in Nat
        BY <2>3, <3>1 DEF Core, NumbersInv, StoreTypes
      <3> QED
        BY <3>2
    <2> HIDE DEF s
    <2> QED
      BY <1>1, <2>1, <2>2, <2>3, <2>5, <2>6, <2>7 DEF RisingInv
  <1>3. CASE OpenDone
    <2>1. /\ \A k \in PossibleStates' : k = s
          /\ edit' = None /\ db' # None /\ Files(db') = Files(s) /\ db'.pending = {}
          /\ db'.last = s.last /\ db'.next = s.next
          /\ DOMAIN tables' \subseteq DOMAIN tables /\ \A n \in DOMAIN tables' : tables'[n] = tables[n]
          /\ Base' = s /\ current' = current
      BY <1>0, <1>3, CoreOpenDone DEF Base, OpenDone
    <2>2. Within(tables', s)
      BY <1>1, <2>1, WithinFewer
    <2>3. Rises(Base', db')
      BY <1>1, <2>1 DEF Rises
    <2>4. \A n \in Files(db') \cup db'.pending : n < db'.next
      BY <2>1, <2>2 DEF Within
    <2> HIDE DEF s
    <2> QED
      BY <1>1, <2>1, <2>2, <2>3, <2>4 DEF RisingInv
  <1>4. CASE EditFails /\ edit.owner = "open"
    <2>1. /\ edit.at # "install" /\ edit' = None /\ manifests' = Without(manifests, {edit.manifest})
          /\ UNCHANGED <<tables, current, db>>
      BY <1>4 DEF EditFails
    <2>2. current \in Nat /\ current \in DOMAIN manifests /\ current < edit.manifest /\ db = None
      BY <1>0, <1>1, <1>4, <2>1 DEF Core, NumbersInv, StoreTypes, StoreInv
    <2>3. manifests'[current] = manifests[current]
      BY <2>1, <2>2 DEF Without
    <2>4. PossibleStates' = PossibleStates /\ Base' = Base
      BY <2>1, <2>3 DEF PossibleStates, Base
    <2> QED
      BY <1>0, <1>1, <2>1, <2>2, <2>4 DEF RisingInv
  <1> QED
    BY <1>2, <1>3, <1>4

\* The first manifest.
LEMMA NewDBRises ==
  ASSUME IInv, Core', NewDB
  PROVE  RisingInv'
  <1>0. /\ Core /\ RisingInv /\ db = None /\ edit = None /\ current = 0 /\ UNCHANGED <<db, edit, tables>>
    BY DEF IInv, NewDB
  <1> DEFINE first == ManifestState(NoVersion, 0, 2, 0)
             one == Added(EmptyFile, first)
  <1>1. \/ manifests' = Put(manifests, 1, one) /\ current' = 0
        \/ current' = 1 /\ manifests' = manifests
    BY <1>0 DEF NewDB
  <1>2. \A n \in DOMAIN manifests' : Len(manifests'[n].recs) <= 1
    <2>0. \A n \in DOMAIN manifests : Len(manifests[n].recs) <= 1
      BY <1>0 DEF RisingInv
    <2>1. one.recs = <<first>>
      <3> HIDE DEF first
      <3> QED
        BY DEF Added, EmptyFile
    <2>2. Len(one.recs) <= 1
      <3> HIDE DEF one, first
      <3> QED
        BY <2>1
    <2>3. CASE manifests' = Put(manifests, 1, one)
      <3>1. \A n \in DOMAIN manifests' : (n = 1 /\ manifests'[n] = one) \/ (n \in DOMAIN manifests /\ manifests'[n] = manifests[n])
        <4> HIDE DEF one
        <4> QED
          BY <2>3 DEF Put
      <3> QED
        BY <2>0, <2>2, <3>1
    <2> QED
      BY <1>1, <2>0, <2>3
  <1> HIDE DEF one
  <1>3. \A m \in PossibleStates' : Files(m) = {} /\ m = Base'
    <2> TAKE m \in PossibleStates'
    <2>1. current' = 1 /\ manifests' = manifests
      BY <1>1 DEF PossibleStates
    <2>2. PICK i \in DOMAIN manifests[1].recs : m = manifests[1].recs[i]
      BY <2>1 DEF PossibleStates
    <2>3. 1 \in DOMAIN manifests /\ manifests[1].recs \in Seq(ManifestStates) /\ Len(manifests[1].recs) <= 1
      BY <1>2, <2>1 DEF Core, NumbersInv, FileTypes, FilesOf, File
    <2>4. i = Len(manifests[1].recs)
      BY <2>2, <2>3
    <2>5. Files(manifests[1].recs[i]) = {}
      BY <1>0, <2>2, <2>3 DEF Core, NumbersInv
    <2> QED
      BY <2>1, <2>2, <2>3, <2>4, <2>5 DEF Base, Last
  <1>4. \A m \in PossibleStates' : Rises(m, Base') /\ Within(tables', m)
    <2> TAKE m \in PossibleStates'
    <2>1. m = Base' /\ Files(m) = {} /\ m.next \in Nat /\ m.last \in Nat
      BY <1>3, NumeralsNext
    <2>2. Rises(m, m)
      BY <2>1 DEF Rises
    <2>3. Within(tables', m)
      BY <2>1 DEF Within, InTables
    <2> QED
      BY <2>1, <2>2, <2>3
  <1> QED
    BY <1>0, <1>2, <1>4 DEF RisingInv

\* The process ends.
LEMMA GoneRises ==
  ASSUME IInv, Core', Closed \/ ProcessCrash \/ PowerLoss
  PROVE  RisingInv'
  <1>0. /\ Core /\ RisingInv /\ (\A m \in PossibleStates' : m \in PossibleStates)
        /\ db' = None /\ edit' = None /\ UNCHANGED <<tables, current>>
    BY CoreGone DEF IInv, Closed, ProcessCrash, PowerLoss, ProcessGone, disk
  <1>1. CASE UNCHANGED manifests
    <2>1. PossibleStates' = PossibleStates /\ Base' = Base
      BY <1>0, <1>1 DEF PossibleStates, Base
    <2> QED
      BY <1>0, <1>1, <2>1 DEF RisingInv
  <1>2. CASE manifests' \in Truncations(manifests)
    <2>1. /\ DOMAIN manifests' = DOMAIN manifests
          /\ \A n \in DOMAIN manifests : /\ Len(manifests'[n].recs) <= Len(manifests[n].recs)
                                         /\ manifests'[n].synced = Len(manifests'[n].recs)
      BY <1>0, <1>2, Truncated DEF Core, FileTypes
    <2>2. \A m \in PossibleStates' : m = Base'
      <3> SUFFICES ASSUME NEW m \in PossibleStates' PROVE m = Base'
        OBVIOUS
      <3>1. current' \in DOMAIN manifests'
        BY DEF Core, NumbersInv, PossibleStates
      <3>2. FilesOf(manifests', ManifestStates) /\ manifests'[current'].synced = Len(manifests'[current'].recs)
        BY <2>1, <3>1 DEF Core, FileTypes
      <3> QED
        BY <3>1, <3>2, OneStateNext
    <2>3. \A m \in PossibleStates' : Rises(m, Base') /\ Within(tables', m)
      <3> TAKE m \in PossibleStates'
      <3>1. m = Base' /\ m.next \in Nat /\ m.last \in Nat /\ Within(tables, m)
        BY <1>0, <2>2, NumeralsNext DEF RisingInv
      <3>2. Rises(m, m)
        BY <3>1 DEF Rises
      <3> QED
        BY <1>0, <3>1, <3>2
    <2>4. current' = 0 => \A n \in DOMAIN manifests' : Len(manifests'[n].recs) <= 1
      <3> SUFFICES ASSUME current' = 0, NEW n \in DOMAIN manifests' PROVE Len(manifests'[n].recs) <= 1
        OBVIOUS
      <3>1. Len(manifests[n].recs) <= 1 /\ Len(manifests'[n].recs) <= Len(manifests[n].recs)
        BY <1>0, <2>1 DEF RisingInv
      <3>2. manifests[n].recs \in Seq(ManifestStates) /\ manifests'[n].recs \in Seq(ManifestStates)
        BY <1>0, <2>1 DEF Core, FileTypes, FilesOf, File
      <3> QED
        BY <3>1, <3>2
    <2> QED
      BY <1>0, <2>3, <2>4 DEF RisingInv
  <1> QED
    BY <1>1, <1>2 DEF Closed, ProcessCrash, PowerLoss, disk

\* Every step.
LEMMA NextRises ==
  ASSUME IInv, Core', SequenceInv', [Next]_vars
  PROVE  RisingInv'
  <1>1. CASE UNCHANGED vars
    <2>1. UNCHANGED <<logs, tables, manifests, current, db, edit>>
      BY <1>1 DEF vars, disk
    <2>2. PossibleStates' = PossibleStates /\ Base' = Base
      BY <2>1 DEF PossibleStates, Base
    <2> QED
      BY <2>1, <2>2 DEF IInv, RisingInv
  <1>2. CASE NewDB \/ Open
    BY <1>2, NewDBRises, OpenRises
  <1>3. CASE OpenDone \/ SetCurrentFile \/ EditFails
    BY <1>3, OpenedRises, WorkRises
  <1>4. CASE AppendManifest \/ SyncManifest
    BY <1>4, ManifestRises
  <1>5. CASE MemTableInstalled \/ CompactionInstalled \/ MoveInstalled
    BY <1>5, InstalledRises
  <1>6. CASE CompactMemTable \/ StartCompaction \/ MoveTable \/ FinishCompaction \/ NothingToDo
    BY <1>6, WorkRises
  <1>7. CASE (\E t \in Threads : Enqueue(t) \/ Writing(t)) \/ NewIterator \/ DeleteIterator \/ Close
    BY <1>7, WorkRises
  <1>8. CASE Closed \/ ProcessCrash \/ PowerLoss
    BY <1>8, GoneRises
  <1> QED
    BY <1>1, <1>2, <1>3, <1>4, <1>5, <1>6, <1>7, <1>8 DEF Next, LogAndApply, BackgroundCall

-----------------------------------------------------------------------------
(* The theorems *)

\* There is nothing at first.
LEMMA InitInv ==
  ASSUME Init
  PROVE  IInv
  <1>0. /\ logs = <<>> /\ tables = <<>> /\ manifests = <<>> /\ current = 0
        /\ db = None /\ bg = None /\ edit = None
        /\ pc = [t \in Threads |-> "todo"] /\ queue = <<>> /\ group = None
        /\ result = [t \in Threads |-> None] /\ pinned = None
    BY DEF Init
  <1>1. DOMAIN logs = {} /\ DOMAIN tables = {} /\ DOMAIN manifests = {} /\ DOMAIN queue = {}
    BY <1>0
  <1>2. FileTypes /\ StoreTypes
    BY <1>0, <1>1, FS_EmptySet DEF FileTypes, StoreTypes, FilesOf
  <1>3. ThreadTypes
    BY <1>0 DEF ThreadTypes, Places
  <1>4. QueueInv
    BY <1>0, <1>1 DEF QueueInv, InQueue, Busy
  <1>5. StoreInv /\ NumbersInv /\ EditInv /\ TablesInv
    BY <1>0, <1>1 DEF StoreInv, NumbersInv, ManifestNumbers, EditInv, TablesInv, PossibleStates
  <1>6. \A r : ~Live(r)
    BY <1>0 DEF Live, Firm, PossibleStates
  <1>7. BoundInv
    <2>1. 0 \in Nat /\ Bounded(0)
      BY <1>6 DEF Bounded
    <2> QED
      BY <2>1 DEF BoundInv
  <1>8. SequenceInv
    BY <1>0, <1>6 DEF SequenceInv
  <1>9. BaseInv
    BY <1>0 DEF BaseInv
  <1>10. RisingInv
    BY <1>0, <1>1 DEF RisingInv, PossibleStates
  <1> QED
    BY <1>2, <1>3, <1>4, <1>5, <1>7, <1>8, <1>9, <1>10 DEF IInv, Core

\* Every step keeps what is to be kept.
LEMMA NextInv ==
  ASSUME IInv, [Next]_vars
  PROVE  IInv'
  <1>0. Types /\ Core /\ BaseInv /\ StoreInv /\ ThreadTypes /\ QueueInv /\ BoundInv /\ SequenceInv
    BY DEF IInv, Core, Types
  <1>1. Core' /\ BaseInv'
    BY <1>0, NextCore, NextBase
  <1>2. ThreadTypes' /\ QueueInv'
    BY <1>0, NextThreads
  <1>3. BoundInv' /\ SequenceInv'
    <2>1. CASE UNCHANGED vars
      <3>1. UNCHANGED <<logs, tables, manifests, current, db, edit, group>>
        BY <2>1 DEF vars, disk, client
      <3>2. PossibleStates' = PossibleStates
        BY <3>1 DEF PossibleStates
      <3>3. \A r : (Firm(r)' <=> Firm(r)) /\ (Live(r)' <=> Live(r))
        BY <3>1, <3>2 DEF Firm, Live
      <3> QED
        BY <1>0, <3>1, <3>3 DEF BoundInv, Bounded, SequenceInv, Apart, LastOf, NewRecord
    <2>2. CASE NewDB \/ Open \/ OpenDone
      BY <1>1, <2>2, NewDBRecords, OpenFailedRecords, OpenRecords, OpenDoneRecords
    <2>3. CASE AppendManifest \/ SyncManifest \/ SetCurrentFile \/ EditFails
      BY <1>1, <2>3, ManifestRecords, FailsRecords
    <2>4. CASE CompactMemTable \/ StartCompaction \/ MoveTable
      BY <1>1, <2>4, MemTableRecords, StartRecords, MoveRecords
    <2>5. CASE MemTableInstalled \/ FinishCompaction \/ CompactionInstalled \/ MoveInstalled \/ NothingToDo
      BY <1>1, <2>5, FinishRecords, InstalledRecords
    <2>6. CASE Closed \/ ProcessCrash \/ PowerLoss
      BY <2>6, GoneRecords
    <2>7. ASSUME NEW t \in Threads, Writing(t) PROVE BoundInv' /\ SequenceInv'
      BY <1>1, <2>7, WritingRecords
    <2>8. ASSUME NEW t \in Threads, Enqueue(t) PROVE BoundInv' /\ SequenceInv'
      BY <1>1, <2>8, CallsRecords
    <2>9. CASE NewIterator \/ DeleteIterator \/ Close
      BY <1>1, <2>9, CallsRecords
    <2> QED
      BY <2>1, <2>2, <2>3, <2>4, <2>5, <2>6, <2>7, <2>8, <2>9 DEF Next, LogAndApply, BackgroundCall
  <1>4. RisingInv'
    BY <1>1, <1>3, NextRises
  <1> QED
    BY <1>1, <1>2, <1>3, <1>4 DEF IInv

\* What the invariant says holds of every reachable state: of files, threads, tables and numbers.
THEOREM Invariant == Spec => []IInv
  BY InitInv, NextInv, PTL DEF Spec

\* The variables have their types, threads in Write stand in the queue in its order, and
\* only the first acts; whatever goes on, the background thread is scheduled for it.
THEOREM TypeCorrect == Spec => []TypeOK
  <1>1. IInv => TypeOK
    <2> SUFFICES ASSUME IInv PROVE TypeOK
      OBVIOUS
    <2>0. FileTypes /\ StoreTypes /\ StoreInv /\ NumbersInv /\ ThreadTypes /\ QueueInv
      BY DEF IInv, Core
    <2>1. \A n \in DOMAIN logs : logs[n].synced \in 0 .. Len(logs[n].recs)
      BY <2>0 DEF FileTypes, FilesOf, File
    <2>2. \A n \in DOMAIN manifests : manifests[n].synced \in 0 .. Len(manifests[n].recs)
      BY <2>0 DEF FileTypes, FilesOf, File
    <2>3. current \in Nat
      BY <2>0 DEF StoreTypes
    <2>4. /\ pc \in [Threads -> {"todo", "asleep", "front", "waiting", "append", "sync", "insert", "done", "dead"}]
          /\ result \in [Threads -> {None, "ok", "unsure", "error"}]
      BY <2>0 DEF ThreadTypes, Places, InQueue
    <2>5. \A t \in Threads : (result[t] # None) = (pc[t] = "done")
      BY <2>0 DEF QueueInv
    <2>6. queue \in Seq(Threads) /\ IsInjective(queue)
      BY <2>0 DEF ThreadTypes, QueueInv, IsInjective
    <2>7. \A t \in Threads : pc[t] \notin {"todo", "asleep", "done", "dead"} => queue # <<>> /\ t = Head(queue)
      <3> SUFFICES ASSUME NEW t \in Threads, pc[t] \notin {"todo", "asleep", "done", "dead"}
                   PROVE  queue # <<>> /\ t = Head(queue)
        OBVIOUS
      <3>1. pc[t] \in InQueue /\ pc[t] # "asleep"
        BY <2>4 DEF InQueue
      <3> QED
        BY <2>0, <3>1, FirstIsAwake
    <2>8. (group # None) = (\E t \in Threads : pc[t] \in {"append", "sync", "insert"})
      <3>1. group # None => \E t \in Threads : pc[t] \in Busy
        <4> SUFFICES ASSUME group # None PROVE \E t \in Threads : pc[t] \in Busy
          OBVIOUS
        <4>1. queue # <<>> /\ pc[queue[1]] \in Busy /\ queue \in Seq(Threads)
          BY <2>0 DEF QueueInv, ThreadTypes
        <4>2. queue[1] \in Threads
          BY <4>1
        <4> QED
          BY <4>1, <4>2
      <3>2. (\E t \in Threads : pc[t] \in Busy) => group # None
        BY <2>0 DEF QueueInv
      <3> QED
        BY <3>1, <3>2 DEF Busy
    <2>9. db = None => /\ bg = None /\ pinned = None /\ queue = <<>>
                       /\ edit # None => edit.owner = "open"
      BY <2>0 DEF StoreInv
    <2>10. db # None => /\ db.log <= db.logfile /\ db.logfile \in DOMAIN logs
                        /\ \A n \in DOMAIN logs : n < db.next
                        /\ (bg # None \/ edit # None) => db.scheduled
      BY <2>0 DEF StoreInv, NumbersInv
    <2> QED
      BY <2>1, <2>2, <2>3, <2>4, <2>5, <2>6, <2>7, <2>8, <2>9, <2>10 DEF TypeOK
  <1> QED
    BY <1>1, Invariant, PTL

\* No file is deleted that a reader, the running store, or the store as a crash or a loss of
\* power may leave it, still needs.
THEOREM NeededFilesAreKept == Spec => []NeededFilesKept
  <1>1. IInv => NeededFilesKept
    <2> SUFFICES ASSUME IInv PROVE NeededFilesKept
      OBVIOUS
    <2>1. StoreTypes /\ NumbersInv /\ TablesInv
      BY DEF IInv, Core
    <2>2. current > 1 => current # 0
      BY <2>1 DEF StoreTypes
    <2> QED
      BY <2>1, <2>2 DEF NumbersInv, TablesInv, NeededFilesKept
  <1> QED
    BY <1>1, Invariant, PTL

\* What a reader sees has sequence numbers of its own, at most LastSequence, also after
\* failed writes and when logs and manifests of several lives come together.
THEOREM SequencesAreOrdered == Spec => []SequencesOrdered
  <1>1. IInv => SequencesOrdered
    <2> SUFFICES ASSUME IInv PROVE SequencesOrdered
      OBVIOUS
    <2>0. Types /\ FileTypes /\ NumbersInv /\ SequenceInv
      BY DEF IInv, Core, Types
    <2> DEFINE R == IF db = None THEN Recoverable
                    ELSE db.mem \cup (IF db.imm = None THEN {} ELSE db.imm) \cup Contents(Files(db))
    <2>1. CASE db = None
      <3>1. \A r \in Recoverable : Live(r)
        <4> SUFFICES ASSUME NEW r \in Recoverable PROVE Live(r)
          OBVIOUS
        <4> DEFINE m == Last(manifests[current].recs)
        <4>1. current # 0 /\ manifests[current].recs # <<>> /\ r \in Held(m, AllOfLogs)
          BY DEF Recoverable
        <4>2. current \in DOMAIN manifests /\ File(manifests[current], ManifestStates)
          BY <2>0, <4>1 DEF NumbersInv, FileTypes, FilesOf
        <4>3. m \in PossibleStates
          <5>1. /\ manifests[current].recs \in Seq(ManifestStates) /\ manifests[current].synced \in Nat
                /\ manifests[current].synced <= Len(manifests[current].recs)
            BY <4>2 DEF File
          <5>2. /\ Len(manifests[current].recs) \in DOMAIN manifests[current].recs
                /\ m = manifests[current].recs[Len(manifests[current].recs)]
            BY <4>1, <5>1 DEF Last
          <5> QED
            BY <4>1, <5>1, <5>2 DEF PossibleStates
        <4> HIDE DEF m
        <4>4. OnDisk(tables, logs, m, r)
          BY <2>0, <4>1, HeldOnDisk
        <4> QED
          BY <4>3, <4>4 DEF Live
      <3> QED
        BY <2>0, <2>1, <3>1 DEF SequencesOrdered, SequenceInv, Apart, LastOf
    <2>2. CASE db # None
      <3>1. \A r \in R : Firm(r)
        <4>1. \A r : r \in Contents(Files(db)) => InTables(tables, Files(db) \cup db.pending, r)
          BY DEF Contents, InTables
        <4> QED
          BY <2>2, <4>1 DEF Firm, InMemory
      <3>2. \A r \in R : Live(r)
        BY <3>1 DEF Live
      <3>3. /\ \A r, q \in R : r # q => LastOf(r) < q.seq \/ LastOf(q) < r.seq
            /\ \A r \in R : LastOf(r) <= db.last
        BY <2>0, <2>2, <3>1, <3>2 DEF SequenceInv, Apart
      <3> QED
        BY <2>2, <3>3 DEF SequencesOrdered, LastOf
    <2> QED
      BY <2>1, <2>2
  <1> QED
    BY <1>1, Invariant, PTL
=============================================================================
